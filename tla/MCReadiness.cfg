SPECIFICATION ReadinessSpec
CONSTANTS
  MaxAge = 2
  Timeout = 1
INVARIANT OkIsReal
PROPERTY DeathNoticed
