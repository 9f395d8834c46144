SPECIFICATION Spec
CONSTANTS
  Agents = {a1, a2}
  Sessions = {s1, s2}
  Tasks = {t1}
  Directories = {d1}
  Checkouts = {}
  None = None
  AllowShared = FALSE
  MaxCommands = 1
  MaxWork = 5
SYMMETRY Symmetry
INVARIANTS
  RuntimesAccounted
  
  RegistryCurrent
CHECK_DEADLOCK FALSE
