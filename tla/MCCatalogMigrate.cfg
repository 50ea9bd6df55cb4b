\* A server restarted with another embedding model, and the reindex that is
\* documented to follow.
SPECIFICATION Spec
CONSTANTS
  N = 1
  Docs = {d1}
  Supplied = {}
  Models = {m1, m2}
  Client = Client
  None = None
  Tasks = {t1}
  Batch = 1
  Faults = FALSE
  RebuildOnStart = FALSE
  MaxRestarts = 1
PROPERTIES
  ReindexMigrates
