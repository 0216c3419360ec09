\* Two sessions that save one profile and two that only read it: the upstream
\* of s3 may close while its plugins start, and s4 is pinned to an unknown provider.
SPECIFICATION FairSpec
CONSTANTS
  s1 = s1  s2 = s2  s3 = s3  s4 = s4  prof = prof
  None = None
  Sessions = {s1, s2, s3, s4}
  Profiles = {prof}
  Profile <- OneProfile
  Paths <- MixedPaths
  ReadOnly = {s3, s4}
  UnknownPin = {s4}
  FragileStart = {s3}
INVARIANT
  OneSessionPerProfile
PROPERTIES
  NoLostUpdate
  
  ImplementsRegister
CHECK_DEADLOCK FALSE
