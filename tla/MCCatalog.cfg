\* Races, failures and a restart on one product.
SPECIFICATION Spec
CONSTANTS
  N = 1
  Docs = {d1, d2}
  Supplied = {d2}
  Models = {m1, m2}
  Client = Client
  None = None
  Tasks = {t1, t2}
  Batch = 1
  Faults = TRUE
  RebuildOnStart = TRUE
  MaxRestarts = 1
SYMMETRY TaskSymmetry
INVARIANTS
  TypeOK
  CleanAgreement
  NoPhantomText
  NoResurrection
  ModelStampTrue
