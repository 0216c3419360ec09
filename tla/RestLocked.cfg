\* One provider that serves REST requests only, with the health checker or without.
SPECIFICATION HealthSpec
CONSTANTS
  Pool = {p1}
  Traffic = {"rest"}
  WindowTicks = 2
  CoolTicks = 2
  MinVolume = 2
  RateOver = 1
  RateUnder = 2
  Strikes = 2
  MaxPerTick = 2
PROPERTY
  RestComesBack
CHECK_DEADLOCK FALSE
