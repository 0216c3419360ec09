\* The wait queue under pins, profile pins and failing connections: four requests,
\* two providers of one slot, no cooldown and no operator.
SPECIFICATION Spec
CONSTANTS
  r1 = r1  r2 = r2  r3 = r3  r4 = r4  p1 = p1  p2 = p2  k1 = k1  k2 = k2
  None = None
  Requests = {r1, r2, r3, r4}
  Providers = {p1, p2}
  Keys = {}
  Limit <- OneSlotEach
  MaxQueue = 2
  Key <- Nobody
  ResumeId <- Nobody
  Pin <- PinTwo
  Serves <- ProfilePins
  MayServe <- ProfilePins
  ReadOnly = {}
  ProxyOk <- Everywhere
  Flaky = {p1, p2}
  Coolable = {}
  Managed = {}
  Outliving = {}
INVARIANTS
  NoStrandedWaiter
  QueueMatchesWaiters
CHECK_DEADLOCK FALSE
