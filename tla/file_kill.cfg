SPECIFICATION Spec
CONSTANTS
  Value = {fresh, v1, v2}
  Fresh = fresh
  NoFile = NoFile
  Partial = Partial
  CrashKinds = {"process", "power"}
PROPERTY LoadStays
