\* Four messages of a viewer whose early buffer holds two.  Three attempts of the
\* relay with one client; the second upstream may close before it answers, the
\* third may stay silent as well.  Two REST requests over two backends of one slot,
\* one retry.  A server with one MCP session and one connection of its pool, one
\* client of /mcp, two signals; a Chrome is launched twice at most.
\* One connection with at most three attempts, at two providers, one of them restarted.
SPECIFICATION ServingSpec
CONSTANTS
  EarlyLimit = 2
  MaxInput = 4
  Attempts = 3
  Silent = {3}
  EarlyClose = {2, 3}
  Reqs = {k1, k2}
  Backends = {b1, b2}
  Nobody = Nobody
  Room = 1
  Retries = 1
  Conns = {c1, c2}
  AgentConns = {c1}
  PoolConns = {c2}
  HttpClients = {h1}
  MaxLaunches = 2
  Guests = {g1}
  Asked <- FourWishes
  Profiles = {pf}
  Nothing = Nothing
  Providers = {own, foreign}
  own = own  foreign = foreign  pf = pf
  Proxies <- TwoProxies
  Offers <- OwnAndForeign
  MaxTries = 3
INVARIANTS
  ServedSound
  ViewSound
  SocketsAgree
PROPERTIES
  ImplementsContract
  ServingSettles
CHECK_DEADLOCK FALSE
