\* Two requests, one tenant, one name beside "t", failures and a restart.
SPECIFICATION Spec
CONSTANTS
  Names = {n1, TRoot}
  TenantNames = {n1}
  Tenants = {ten}
  Admin = Admin
  Default = Default
  TRoot = TRoot
  None = None
  Tasks = {t1, t2}
  Limit = 3
  Faults = TRUE
  MaxRestarts = 1
SYMMETRY TaskSymmetry
INVARIANTS
  ServedAsAnswered
  NoOrphans
  LimitHolds
