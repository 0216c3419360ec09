\* Every request is answered; sessions outlive the reconciler.
SPECIFICATION FairSpec
CONSTANTS
  r1 = r1  r2 = r2  r3 = r3  r4 = r4  p1 = p1  p2 = p2  k1 = k1  k2 = k2
  None = None
  Requests = {r1, r2, r3}
  Providers = {p1, p2}
  Keys = {k1, k2}
  Limit <- OneSlotEach
  MaxQueue = 2
  Key <- OwnKeys
  ResumeId <- ResumeFirstKey
  Pin <- Nobody
  Serves <- ProfileOfThird
  MayServe <- Everywhere
  ReadOnly = {r3}
  ProxyOk <- Everywhere
  Flaky = {p1, p2}
  Coolable = {p1}
  Managed = {}
  Outliving = {r1, r2}
INVARIANT
  OnlyReclaimedExceed
PROPERTY
  EveryRequestAnswered
CHECK_DEADLOCK FALSE
