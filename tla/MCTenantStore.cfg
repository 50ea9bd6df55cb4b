\* Two requests on two names, with saves that fail and a restart.
SPECIFICATION Spec
CONSTANTS
  Names = {n1, n2}
  Tasks = {t1, t2}
  None = None
  Faults = TRUE
  MaxKeys = 3
  MaxRestarts = 1
SYMMETRY StoreSymmetry
INVARIANTS
  MapsAgree
  QuietCallIsDurable
  SomeCallGoesOn
