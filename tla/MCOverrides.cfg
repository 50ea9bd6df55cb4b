\* Two admins on one query and product, a search on three pages of it and a cache for
\* one of them, with failures.  With three ids two pins that overlapped, or were
\* imported at once, can meet another.
SPECIFICATION Spec
CONSTANTS
  Queries = {q1}
  Products = {p1}
  g1 = g1
  g2 = g2
  g3 = g3
  Pages <- ThreePages
  Admins = {a1, a2}
  Searchers = {s1}
  None = None
  MaxEntries = 1
  TTL = 1
  Faults = TRUE
  MaxIds = 3
SYMMETRY ActorSymmetry
CONSTRAINT OneAtATime
INVARIANTS
  CachedViewCurrent
  PinSettled
  CacheBounded
