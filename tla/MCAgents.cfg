\* Two calls of the MCP server, over two providers of one slot each; two calls on
\* three tabs, one of which may come up late; two calls of an agent on a page of
\* three documents; two turns of at most two calls, a popup, and one slip of the
\* page; a run of every kind beside a plain one; four notes of three requests in rings of
\* one line and two requests.
SPECIFICATION DriverSpec
CONSTANTS
  McpCalls = {c1, c2}
  north = north  south = south
  Route <- TwoRoutes
  SlotLimit = 1
  NoRoute = NoRoute
  Targets = {t1, t2, t3}
  AgentCalls = {c1, c2}
  NoTab = NoTab
  MaxLate = 1
  MaxDocs = 3
  MaxVersions = 1
  MaxCalls = 2
  MaxSteps = 1
  LoopRepeats = 2
  NoText = NoText
  Muddled = Muddled
  FirstTab = t1
  Popup = t2
  MaxTurns = 2
  MaxAsks = 2
  MaxSlips = 1
  Keys <- Chord
  Runs = {r1, r2}
  Plain = {r2}
  MaxLooks = 1
  Requests = {q1, q2, q3}
  Limit = 1
  REQUEST_LIMIT_FACTOR = 2
  MaxSeq = 4
INVARIANTS
  SeatsFollowSessions
  
  NothingLeftBehind
  ToolsAreSound
PROPERTIES
  
  DriversSettle
CHECK_DEADLOCK FALSE
