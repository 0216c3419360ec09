\* Two requests for the one page of a session, which is retired after the second,
\* each tried twice: one fails and holds a page too long, the other may be pinned to a
\* provider.  Two tabs that are recorded, four frames of two
\* pictures, chunks of two frames, a cap of three, one write at a time, and one
\* message dropped for a slow client.
\* A tab of two sites with one of everything its viewer or page may do, and a watch
\* of two intervals.  Two sizes after the first, three frames.  Two sessions of the
\* dashboard's page, one address typed.
\* Sessions of the pool and recorded tabs have the same members, so that one
\* permutation exchanges both.
SPECIFICATION KeptSpec
CONSTANTS
  None = None
  Sessions = {one, two}
  Requests = {r1, r2}
  MinSessions = 0
  MaxSessions = 1
  MaxPages = 1
  RetireAfter = 2
  MaxTries <- TwiceEach
  OneShot = {r2}
  Failing = {r1}
  Slow = {r1}
  Tabs = {one, two}
  Pictures = {p, q}
  ChunkFrames = 2
  FrameCap = 3
  MaxInFlight = 1
  MaxDrawn = 4
  MaxSkips = 1
  Sites = {a, b}
  Blank = Blank
  NoSite = NoSite
  Spots = {2}
  Misses = 2
  Window = 2
  MaxClicks = 1
  MaxPoints = 1
  MaxAsks = 1
  MaxMoves = 1
  Sizes = {wide, narrow}
  OwnSize = OwnSize
  Unsized = Unsized
  MaxSizes = 3
  MaxFrames = 3
  Backlog = 1
  Urls = {u1, u2}
  Typed <- AsTyped
  NoUrl = NoUrl
  MaxVisits = 2
  MaxMessages = 1
  MaxTyped = 1
  Polls = 1
INVARIANTS
  WithinLimits
  AcquirePassesOn
  RecordingSound
  

  
SYMMETRY Alike
CHECK_DEADLOCK FALSE
