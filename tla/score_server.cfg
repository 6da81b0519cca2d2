SPECIFICATION Spec
CHECK_DEADLOCK FALSE
CONSTANTS
  Str <- Strings
  Long = {"long"}
  Fold <- Lower
  Num <- Numbers
  Huge = {"1e999"}
  FMax = 5
  c1 = c1
  c2 = c2
  Conn = {c1, c2}
  Scenes <- Scene
  ReadHeaderTimeout = 1
  ReadTimeout = 2
  WriteTimeout = 1
  ShutdownTimeout = 1
  Grace = 2
INVARIANTS TypeOK AnsweredAsPromised NoServerError ExitClean StopsWithinGrace
PROPERTY SignalEnds
