SPECIFICATION Spec
CONSTANTS
  serve = serve
  doctor = doctor
  w1 = w1
  w2 = w2
  Provider = {serve, doctor}
  Thread = {serve, doctor}
  Owner <- OneEach
  MaxStamp = 3
  MaxLogins = 1
  EpochWrap = 2
  Configured = {TRUE, FALSE}
  Scope = {"Read", "ReadWrite"}
INVARIANTS TokensAreCurrent NewLoginIsTried GrantIsTheTokens NoticedFileIsHeld
PROPERTIES RefreshReplacesOlder OnlyTheDeadIsDeleted
SYMMETRY ProcessSymmetry
