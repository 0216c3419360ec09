\* Two administrators and a provider that warms up, probed again once; one provider
\* that fails and answers again, with traffic of both kinds; three providers that
\* weigh 3, 2, 1; one editor of the settings; two tabs of the dashboard in one browser
\* or in two, a cookie that expires with the next tick, two sign-outs or restarts, three
\* addresses typed into a form, two requests for a list that changes twice; two
\* commands of one browse session and one kill.
SPECIFICATION ControlSpec
CONSTANTS
  a = a  b = b  c = c
  Admins = {a1, a2}
  MaxReprobes = 1
  MaxSaves = 3
  MaxObjects = 3
  Pool = {p1}
  Traffic = {"socket", "rest"}
  WindowTicks = 2
  CoolTicks = 2
  MinVolume = 2
  RateOver = 1
  RateUnder = 2
  Strikes = 2
  MaxPerTick = 2
  ByPriority <- ThreeByPriority
  Weight <- ThreeTwoOne
  MaxLoad = 2
  Strategies = {"priority-chain", "round-robin", "least-connections", "latency-optimized", "weighted"}
  Editors = {e1}
  Proxies = {p}
  Hooks = {h}
  NoProxy = NoProxy
  Hole = Hole
  MaxHooks = 2
  MaxChanges = 5
  DashTabs = {t1, t2}
  Browsers = {w1, w2}
  MaxAge = 0
  MaxEpochs = 2
  MaxClock = 1
  FormUrls = {u1, u2, u3}
  HalfTyped = {u3}
  MaxEdits = 3
  Readings = {g1, g2}
  MaxChanged = 2
  MaxFailed = 1
  NoAnswer = NoAnswer
  Invocations = {i1, i2}
  Daemons = {d1, d2}
  NoDaemon = NoDaemon
  MaxKills = 1
INVARIANTS
  TableGoverns
  CoolingIsUnhealthy
  SelectionFair
  
  DashboardSound
PROPERTIES
  DefaultIsConfigured
  ControlSettles
CHECK_DEADLOCK FALSE
