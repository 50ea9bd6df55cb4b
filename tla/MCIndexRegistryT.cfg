\* The admin's index "t" and a restart; no failures, and room for all.
SPECIFICATION Spec
CONSTANTS
  Names = {n1, TRoot}
  TenantNames = {n1}
  Tenants = {ten}
  Admin = Admin
  Default = Default
  TRoot = TRoot
  None = None
  Tasks = {t1}
  Limit = 9
  Faults = FALSE
  MaxRestarts = 1
PROPERTY
  IndexesSurvive
