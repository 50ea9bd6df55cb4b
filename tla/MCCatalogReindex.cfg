\* Paging: two products, pages of one, a client that indexes and deletes
\* between and during the pages.
SPECIFICATION FairSpec
CONSTANTS
  N = 2
  Docs = {d1}
  Supplied = {}
  Models = {m1}
  Client = Client
  None = None
  Tasks = {t1, t2}
  Batch = 1
  Faults = FALSE
  RebuildOnStart = FALSE
  MaxRestarts = 0
INVARIANTS
  ReindexSkipsNothing
PROPERTIES
  ReindexTerminates
