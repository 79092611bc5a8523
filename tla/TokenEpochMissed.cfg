SPECIFICATION Spec
CONSTANTS
  serve = serve
  doctor = doctor
  w1 = w1
  w2 = w2
  Provider = {serve}
  Thread = {w1, w2}
  Owner <- TwoWorkers
  MaxStamp = 4
  MaxLogins = 2
  EpochWrap = 4
  Configured = {TRUE}
  Scope = {"Read"}
INVARIANT EpochSeparatesLogins
