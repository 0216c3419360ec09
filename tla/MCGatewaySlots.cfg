\* Slot accounting: own session keys, reconnection, failing and cooling
\* providers, an operator who disables, deletes and adds p1.
SPECIFICATION Spec
CONSTANTS
  r1 = r1  r2 = r2  r3 = r3  r4 = r4  p1 = p1  p2 = p2  k1 = k1  k2 = k2
  None = None
  Requests = {r1, r2, r3}
  Providers = {p1, p2}
  Keys = {k1, k2}
  Limit <- OneSlotEach
  MaxQueue = 2
  Key <- OwnKeys
  ResumeId <- ResumeFirstKey
  Pin <- PinFirst
  Serves <- Everywhere
  MayServe <- Everywhere
  ReadOnly = {}
  ProxyOk <- ProxyOnP2
  Flaky = {p1, p2}
  Coolable = {p1}
  Managed = {p1}
  Outliving = {}
INVARIANTS
  CapacityRespected
  SlotsFollowRelays
  NoWaiterAtShutdown
PROPERTY
  ImplementsAllocation
CHECK_DEADLOCK FALSE
