\* Two searches build at once while products come, change and go.
SPECIFICATION Spec
CONSTANTS
  Ids = {a, b, c}
  Words = {w}
  Threads = {t1, t2}
  None = None
  MaxWrites = 4
INVARIANTS
  TypeOK
  EngineCurrent
PROPERTIES
  ImplementsTextIndex
