SPECIFICATION Spec
CONSTANTS
  serve = serve
  doctor = doctor
  w1 = w1
  w2 = w2
  Provider = {serve}
  Thread = {w1}
  Owner <- OneWorker
  MaxStamp = 4
  MaxLogins = 2
  EpochWrap = 2
  Configured = {TRUE}
  Scope = {"Read"}
PROPERTY LoginWins
