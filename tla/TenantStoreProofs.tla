------------------------- MODULE TenantStoreProofs -------------------------
(***************************************************************************)
(* Theorems about TenantStore, for any number of names and of concurrent   *)
(* requests, any bounds, and with failing saves or without.                *)
(***************************************************************************)
EXTENDS TenantStore, FiniteSetTheorems, TLAPS

USE TenantAssumption

-----------------------------------------------------------------------------
(* Types                                                                   *)

Kinds == {"create", "delete", "rotate"}
Pcs   == {"idle", "peek", "first", "second", "snapshot", "open", "write", "undo", "undo second"}

Ops ==
  [pc : Pcs, kind : Kinds \cup {None}, name : Names \cup {None}, old : Keys \cup {None},
   new : Keys \cup Names \cup {None}, snap : SUBSET Tenants,
   alone : BOOLEAN, solo : BOOLEAN, prior : BOOLEAN]

\* Before and after a call has changed the maps.
PendingPcs == {"peek", "first", "second"}
AppliedPcs == {"snapshot", "open", "write", "undo", "undo second"}

\* What a call remembers, by its kind.
Fits(o) ==
  /\ o.pc = "idle" => /\ o.kind = None /\ o.name = None /\ o.old = None /\ o.new = None
                      /\ o.snap = {}
  /\ o.pc # "idle" =>
       /\ o.kind \in Kinds /\ o.name \in Names
       /\ o.pc = "peek" => o.kind = "rotate"
       /\ o.kind = "delete" => o.new \in Names \cup {None}
       /\ o.kind = "delete" /\ o.pc \in AppliedPcs => o.old \in Keys
       /\ o.kind # "delete" => o.new \in Keys
       /\ o.kind = "create" => o.old = None
       /\ o.kind = "rotate" /\ o.pc # "peek" => o.old \in Keys

TypeOK ==
  /\ by_key \in [Keys -> Names \cup {None}]
  /\ by_name \in [Names -> Keys \cup {None}]
  /\ file.whole \in BOOLEAN /\ file.rows \subseteq Tenants
  /\ persistent \in BOOLEAN
  /\ op \in [Tasks -> Ops]
  /\ \A t \in Tasks : Fits(op[t])
  /\ nextKey \in Nat \ {0}
  /\ quiet \in BOOLEAN

LEMMA IdleFits == Idle \in Ops /\ Fits(Idle) /\ Idle.pc = "idle"
                  /\ Idle.kind = None /\ Idle.name = None /\ Idle.old = None /\ Idle.new = None
                  /\ Idle.snap = {} /\ ~ Idle.alone /\ ~ Idle.solo
  BY DEF Idle, Ops, Pcs, Fits

-----------------------------------------------------------------------------
(* What each step does, field by field                                     *)

\* Call t goes on to o, and no other call changes.
Becomes(t, o) == op'[t] = o /\ \A u \in Tasks \ {t} : op'[u] = op[u]

\* o is what call t was, but for where it stands.
Keeps(t, o) ==
  /\ o.kind = op[t].kind /\ o.name = op[t].name /\ o.alone = op[t].alone
  /\ o.solo = op[t].solo /\ o.prior = op[t].prior

LEMMA SetIs ==
  ASSUME TypeOK, NEW t \in Tasks, NEW o, op' = [op EXCEPT ![t] = o]
  PROVE  Becomes(t, o)
  BY DEF TypeOK, Becomes

LEMMA BecomesTypes ==
  ASSUME TypeOK, NEW t \in Tasks, NEW o \in Ops, op' = [op EXCEPT ![t] = o], Fits(o)
  PROVE  op' \in [Tasks -> Ops] /\ \A u \in Tasks : Fits(op'[u])
<1>1. Becomes(t, o)
  BY SetIs
<1>2. op \in [Tasks -> Ops] /\ \A u \in Tasks : Fits(op[u])
  BY DEF TypeOK
<1>3. ASSUME NEW u \in Tasks PROVE Fits(op'[u])
  <2>1. CASE u = t
    BY <1>1, <2>1 DEF Becomes
  <2>2. CASE u # t
    <3>1. op'[u] = op[u]
      BY <1>1, <2>2 DEF Becomes
    <3>2. QED
      BY <1>2, <3>1
  <2>3. QED
    BY <2>1, <2>2
<1>4. QED
  BY <1>2, <1>3

\* The call stands somewhere else, and is the same otherwise.
LEMMA GoIs ==
  ASSUME TypeOK, NEW t \in Tasks, NEW pc \in Pcs, Go(t, pc)
  PROVE  \E o \in Ops :
           /\ op' = [op EXCEPT ![t] = o] /\ Keeps(t, o) /\ o.pc = pc
           /\ o.old = op[t].old /\ o.new = op[t].new /\ o.snap = op[t].snap
<1> DEFINE o == [op[t] EXCEPT !.pc = pc]
<1>1. op \in [Tasks -> Ops]
  BY DEF TypeOK
<1>2. op' = [op EXCEPT ![t] = o]
  BY DEF Go
<1>3. o \in Ops /\ Keeps(t, o) /\ o.pc = pc /\ o.old = op[t].old /\ o.new = op[t].new
      /\ o.snap = op[t].snap
  BY <1>1 DEF Ops, Keeps
<1>4. QED
  BY <1>2, <1>3

LEMMA BeginMoves ==
  ASSUME TypeOK, NEW t \in Tasks, NEW kind \in Kinds, NEW n \in Names, Begin(t, kind, n)
  PROVE  /\ op[t].pc = "idle" /\ op' \in [Tasks -> Ops]
         /\ op'[t].pc \in {"peek", "first"} /\ (op'[t].pc = "peek" <=> kind = "rotate")
         /\ op'[t].kind = kind /\ op'[t].name = n /\ op'[t].old = None /\ op'[t].snap = {}
         /\ kind = "delete" => op'[t].new = None /\ nextKey' = nextKey
         /\ kind # "delete" => op'[t].new = nextKey /\ nextKey \in Keys /\ nextKey' = nextKey + 1
         /\ op'[t].alone => \A w \in Tasks : op[w].name # n
         /\ op'[t].solo => \A w \in Tasks : op[w].pc = "idle"
         /\ op'[t].prior => quiet
         /\ \A u \in Tasks \ {t} :
              /\ op'[u].pc = op[u].pc /\ op'[u].kind = op[u].kind /\ op'[u].name = op[u].name
              /\ op'[u].old = op[u].old /\ op'[u].new = op[u].new /\ op'[u].snap = op[u].snap
              /\ op'[u].alone => op[u].alone /\ op[u].name # n
              /\ ~ op'[u].solo /\ op'[u].prior = op[u].prior
         /\ ~ quiet' /\ UNCHANGED <<by_key, by_name, lock, file, persistent, restarts, mixed>>
<1> DEFINE alone == \A w \in Tasks : op[w].name # n
           solo  == \A w \in Tasks : At(w, "idle")
           prior == quiet
           new   == IF kind = "delete" THEN None ELSE nextKey
           pc    == IF kind = "rotate" THEN "peek" ELSE "first"
           mine  == [Idle EXCEPT !.pc = pc, !.kind = kind, !.name = n, !.new = new,
                                 !.alone = alone, !.solo = solo, !.prior = prior]
           other(u) == [op[u] EXCEPT !.solo = FALSE, !.alone = @ /\ op[u].name # n]
<1>0. op \in [Tasks -> Ops] /\ quiet \in BOOLEAN /\ nextKey \in Nat \ {0}
  BY DEF TypeOK
<1>1. op' = [u \in Tasks |-> IF u = t THEN mine ELSE other(u)]
  BY DEF Begin
<1>2. /\ alone \in BOOLEAN /\ (alone => \A w \in Tasks : op[w].name # n)
      /\ solo \in BOOLEAN /\ (solo => \A w \in Tasks : op[w].pc = "idle")
      /\ prior \in BOOLEAN /\ (prior => quiet)
  BY <1>0 DEF At
<1>3. /\ new \in Keys \cup {None} /\ pc \in Pcs
      /\ kind = "delete" => new = None /\ nextKey' = nextKey
      /\ kind # "delete" => new = nextKey /\ nextKey \in Keys /\ nextKey' = nextKey + 1
  <2>1. CASE kind = "delete"
    BY <2>1 DEF Begin, Pcs
  <2>2. CASE kind # "delete"
    <3>1. nextKey <= MaxKeys /\ nextKey' = nextKey + 1
      BY <2>2 DEF Begin
    <3>2. nextKey \in Keys
      BY <1>0, <3>1 DEF Keys
    <3>3. QED
      BY <2>2, <3>1, <3>2 DEF Pcs
  <2>3. QED
    BY <2>1, <2>2
<1> HIDE DEF alone, solo, prior, new
<1>4. /\ mine \in Ops /\ mine.pc = pc /\ mine.kind = kind /\ mine.name = n /\ mine.old = None
      /\ mine.snap = {} /\ mine.new = new /\ mine.alone = alone /\ mine.solo = solo
      /\ mine.prior = prior
  BY <1>2, <1>3 DEF Idle, Ops
<1>5. ASSUME NEW u \in Tasks
      PROVE  /\ other(u) \in Ops
             /\ other(u).pc = op[u].pc /\ other(u).kind = op[u].kind
             /\ other(u).name = op[u].name /\ other(u).old = op[u].old
             /\ other(u).new = op[u].new /\ other(u).snap = op[u].snap
             /\ other(u).alone => op[u].alone /\ op[u].name # n
             /\ ~ other(u).solo /\ other(u).prior = op[u].prior
  <2> DEFINE b == op[u].alone /\ op[u].name # n
  <2>1. b \in BOOLEAN /\ (b => op[u].alone /\ op[u].name # n) /\ op[u] \in Ops
    BY <1>0
  <2>2. other(u) = [op[u] EXCEPT !.solo = FALSE, !.alone = b]
    BY <1>0 DEF Ops
  <2> HIDE DEF b
  <2>3. QED
    BY <2>1, <2>2 DEF Ops
<1>6. op' \in [Tasks -> Ops]
  BY <1>1, <1>4, <1>5
<1>7. op'[t] = mine /\ \A u \in Tasks \ {t} : op'[u] = other(u)
  BY <1>1
<1> HIDE DEF mine, other
<1>8. op[t].pc = "idle" /\ ~ quiet'
      /\ UNCHANGED <<by_key, by_name, lock, file, persistent, restarts, mixed>>
  BY DEF Begin, At
<1>9. op'[t].pc \in {"peek", "first"} /\ (op'[t].pc = "peek" <=> kind = "rotate")
  BY <1>4, <1>7
<1>10. /\ op'[t].kind = kind /\ op'[t].name = n /\ op'[t].old = None /\ op'[t].snap = {}
       /\ kind = "delete" => op'[t].new = None /\ nextKey' = nextKey
       /\ kind # "delete" => op'[t].new = nextKey /\ nextKey \in Keys /\ nextKey' = nextKey + 1
  BY <1>3, <1>4, <1>7
<1>11. /\ op'[t].alone => \A w \in Tasks : op[w].name # n
       /\ op'[t].solo => \A w \in Tasks : op[w].pc = "idle"
       /\ op'[t].prior => quiet
  BY <1>2, <1>4, <1>7
<1>12. \A u \in Tasks \ {t} :
          /\ op'[u].pc = op[u].pc /\ op'[u].kind = op[u].kind /\ op'[u].name = op[u].name
          /\ op'[u].old = op[u].old /\ op'[u].new = op[u].new /\ op'[u].snap = op[u].snap
          /\ op'[u].alone => op[u].alone /\ op[u].name # n
          /\ ~ op'[u].solo /\ op'[u].prior = op[u].prior
  BY <1>5, <1>7
<1>13. QED
  BY <1>6, <1>8, <1>9, <1>10, <1>11, <1>12

\* A call goes on with a key or a list that it has read.
LEMMA UpdateIsOp ==
  ASSUME NEW o \in Ops, NEW pc \in Pcs, NEW k \in Keys \cup {None}, NEW rows \in SUBSET Tenants
  PROVE  /\ [o EXCEPT !.pc = pc, !.old = k] \in Ops
         /\ [o EXCEPT !.pc = pc, !.snap = rows] \in Ops
  BY DEF Ops

\* A call that returns having changed nothing.
Returns(t) ==
  /\ op[t].pc \in PendingPcs /\ op' = [op EXCEPT ![t] = Idle]
  /\ quiet' = (op[t].solo /\ op[t].prior)
  /\ UNCHANGED <<by_key, by_name, file, persistent, nextKey, mixed>>

\* Steps that only move a call on: it takes its locks, or its save fails.
LEMMA GoOnMoves ==
  ASSUME TypeOK, NEW t \in Tasks, TakeFirstLock(t) \/ SaveFails(t)
  PROVE  /\ \E o \in Ops :
              /\ op' = [op EXCEPT ![t] = o] /\ Keeps(t, o)
              /\ o.old = op[t].old /\ o.new = op[t].new /\ o.snap = op[t].snap
              /\ \/ op[t].pc = "first" /\ o.pc = "second"
                 \/ op[t].pc \in AppliedPcs /\ o.pc \in {"undo", "undo second"}
         /\ UNCHANGED <<by_key, by_name, file, persistent, nextKey, history>>
<1>0. UNCHANGED <<by_key, by_name, file, persistent, nextKey, history>>
  BY DEF TakeFirstLock, SaveFails
<1>1. PICK pc \in Pcs :
        /\ Go(t, pc)
        /\ \/ op[t].pc = "first" /\ pc = "second"
           \/ op[t].pc \in AppliedPcs /\ pc \in {"undo", "undo second"}
  <2>1. CASE TakeFirstLock(t)
    BY <2>1 DEF TakeFirstLock, At, Pcs, AppliedPcs
  <2>2. CASE SaveFails(t)
    BY <2>2 DEF SaveFails, At, Pcs, AppliedPcs
  <2>3. QED
    BY <2>1, <2>2
<1>2. PICK o \in Ops :
        /\ op' = [op EXCEPT ![t] = o] /\ Keeps(t, o) /\ o.pc = pc
        /\ o.old = op[t].old /\ o.new = op[t].new /\ o.snap = op[t].snap
  BY <1>1, GoIs
<1>3. QED
  BY <1>0, <1>1, <1>2

LEMMA PeekMoves ==
  ASSUME TypeOK, NEW t \in Tasks, Peek(t)
  PROVE  \/ Returns(t)
         \/ /\ op[t].pc = "peek"
            /\ \E o \in Ops :
                 /\ op' = [op EXCEPT ![t] = o] /\ Keeps(t, o) /\ o.pc = "first"
                 /\ o.old = by_name[op[t].name] /\ o.old \in Keys
                 /\ o.new = op[t].new /\ o.snap = op[t].snap
            /\ UNCHANGED <<by_key, by_name, file, persistent, nextKey, history>>
<1> DEFINE k == by_name[op[t].name]
           o == [op[t] EXCEPT !.pc = "first", !.old = k]
<1>1. op \in [Tasks -> Ops] /\ op[t].pc = "peek" /\ Fits(op[t])
  BY DEF TypeOK, Peek, At
<1>2. k \in Keys \cup {None}
  BY <1>1 DEF Fits, TypeOK
<1>3. CASE k = None
  BY <1>1, <1>3 DEF Peek, NothingToDo, Returns, PendingPcs
<1>4. CASE k # None
  <2>1. op' = [op EXCEPT ![t] = o]
    BY <1>4 DEF Peek
  <2>2. o \in Ops
    <3>1. "first" \in Pcs
      BY DEF Pcs
    <3>2. QED
      BY <1>1, <1>2, <3>1, UpdateIsOp
  <2>3. /\ Keeps(t, o) /\ o.pc = "first" /\ o.old = k /\ o.new = op[t].new
        /\ o.snap = op[t].snap
    BY <1>1 DEF Ops, Keeps
  <2>4. QED
    BY <1>1, <1>2, <1>4, <2>1, <2>2, <2>3 DEF Peek
<1>5. QED
  BY <1>3, <1>4

\* The change to the maps is saved; or there is no file, and the call returns.
LEMMA SavedMoves ==
  ASSUME TypeOK, NEW t \in Tasks, NEW o \in Ops, Saved(t, o)
  PROVE  \E p \in Ops :
           /\ op' = [op EXCEPT ![t] = p]
           /\ \/ p = Idle
              \/ /\ p.pc = "snapshot" /\ p.kind = o.kind /\ p.name = o.name
                 /\ p.alone = o.alone /\ p.solo = o.solo /\ p.prior = o.prior
                 /\ p.old = o.old /\ p.new = o.new /\ p.snap = o.snap
<1>1. CASE persistent
  <2> DEFINE p == [o EXCEPT !.pc = "snapshot"]
  <2>1. op' = [op EXCEPT ![t] = p]
    BY <1>1 DEF Saved
  <2>2. /\ p \in Ops /\ p.pc = "snapshot" /\ p.kind = o.kind /\ p.name = o.name
        /\ p.alone = o.alone /\ p.solo = o.solo /\ p.prior = o.prior
        /\ p.old = o.old /\ p.new = o.new /\ p.snap = o.snap
    BY DEF Ops, Pcs
  <2>3. QED
    BY <2>1, <2>2
<1>2. CASE ~ persistent
  BY <1>2, IdleFits DEF Saved
<1>3. QED
  BY <1>1, <1>2

\* The maps change: by the kind of the call.
Creates(t, o) ==
  /\ op[t].kind = "create" /\ op[t].new \in Keys /\ ~ Taken(op[t].name)
  /\ by_key'  = [by_key EXCEPT ![op[t].new] = op[t].name]
  /\ by_name' = [by_name EXCEPT ![op[t].name] = op[t].new]
  /\ o.old = op[t].old /\ o.new = op[t].new
Deletes(t, o) ==
  /\ op[t].kind = "delete" /\ o.old = by_name[op[t].name] /\ o.old \in Keys
  /\ by_key'  = [by_key EXCEPT ![o.old] = None]
  /\ by_name' = [by_name EXCEPT ![op[t].name] = None]
  /\ o.new = by_key[o.old]
Rotates(t, o) ==
  /\ op[t].kind = "rotate" /\ op[t].old \in Keys /\ op[t].new \in Keys
  /\ by_key[op[t].old] # None
  /\ by_key'  = [by_key EXCEPT ![op[t].old] = None, ![op[t].new] = by_key[op[t].old]]
  /\ by_name' = [by_name EXCEPT ![op[t].name] = op[t].new]
  /\ o.old = op[t].old /\ o.new = op[t].new

LEMMA ApplyMoves ==
  ASSUME TypeOK, NEW t \in Tasks, ApplyCreate(t) \/ ApplyDelete(t) \/ ApplyRotate(t)
  PROVE  \/ Returns(t)
         \/ /\ op[t].pc = "second" /\ op[t].name \in Names
            /\ \E o \in Ops, p \in Ops :
                 /\ Creates(t, o) \/ Deletes(t, o) \/ Rotates(t, o)
                 /\ Keeps(t, o) /\ o.snap = op[t].snap
                 /\ op' = [op EXCEPT ![t] = p]
                 /\ \/ p = Idle
                    \/ /\ p.pc = "snapshot" /\ Keeps(t, p)
                       /\ p.old = o.old /\ p.new = o.new /\ p.snap = o.snap
            /\ UNCHANGED <<file, persistent, nextKey, history>>
<1>1. op \in [Tasks -> Ops] /\ op[t].pc = "second" /\ Fits(op[t]) /\ op[t] \in Ops
  BY DEF TypeOK, ApplyCreate, ApplyDelete, ApplyRotate, UnderBothLocks, At
<1>2. /\ by_key \in [Keys -> Names \cup {None}] /\ by_name \in [Names -> Keys \cup {None}]
      /\ op[t].name \in Names
      /\ op[t].kind # "delete" => op[t].new \in Keys
      /\ op[t].kind = "rotate" => op[t].old \in Keys
  BY <1>1 DEF TypeOK, Fits
<1>3. UNCHANGED <<file, persistent, nextKey>>
  BY DEF ApplyCreate, ApplyDelete, ApplyRotate, UnderBothLocks
<1>4. ASSUME NEW o \in Ops, Keeps(t, o), o.snap = op[t].snap, Saved(t, o), UNCHANGED history,
             Creates(t, o) \/ Deletes(t, o) \/ Rotates(t, o)
      PROVE  \E p \in Ops :
               /\ op' = [op EXCEPT ![t] = p]
               /\ \/ p = Idle
                  \/ /\ p.pc = "snapshot" /\ Keeps(t, p)
                     /\ p.old = o.old /\ p.new = o.new /\ p.snap = o.snap
  BY <1>4, SavedMoves DEF Keeps
<1>5. ASSUME NothingToDo(t) /\ UNCHANGED <<by_key, by_name>>
      PROVE  Returns(t)
  BY <1>1, <1>3, <1>5 DEF NothingToDo, Returns, PendingPcs
<1>6. Keeps(t, op[t])
  BY DEF Keeps
<1>7. CASE ApplyCreate(t)
  <2>1. CASE Taken(op[t].name)
    BY <1>5, <1>7, <2>1 DEF ApplyCreate
  <2>2. CASE ~ Taken(op[t].name)
    <3>1. Creates(t, op[t]) /\ Saved(t, op[t]) /\ UNCHANGED history
      BY <1>2, <1>7, <2>2 DEF ApplyCreate, Creates
    <3>2. QED
      BY <1>1, <1>2, <1>3, <1>4, <1>6, <3>1
  <2>3. QED
    BY <2>1, <2>2
<1>8. CASE ApplyRotate(t)
  <2>1. CASE by_key[op[t].old] = None
    BY <1>5, <1>8, <2>1 DEF ApplyRotate
  <2>2. CASE by_key[op[t].old] # None
    <3>1. Rotates(t, op[t]) /\ Saved(t, op[t]) /\ UNCHANGED history
      BY <1>2, <1>8, <2>2 DEF ApplyRotate, Rotates
    <3>2. QED
      BY <1>1, <1>2, <1>3, <1>4, <1>6, <3>1
  <2>3. QED
    BY <2>1, <2>2
<1>9. CASE ApplyDelete(t)
  <2> DEFINE k == by_name[op[t].name]
             new == by_key[k]
             o == [op[t] EXCEPT !.old = k, !.new = new]
  <2>1. CASE k = None
    BY <1>5, <1>9, <2>1 DEF ApplyDelete
  <2>2. CASE k # None
    <3>1. k \in Keys /\ new \in Names \cup {None}
      BY <1>2, <2>2
    <3>2. /\ o \in Ops /\ Keeps(t, o) /\ o.snap = op[t].snap /\ o.old = k /\ o.new = new
      BY <1>1, <3>1 DEF Ops, Keeps
    <3>3. Saved(t, o) /\ UNCHANGED history
      BY <1>9, <2>2 DEF ApplyDelete
    <3>4. /\ op[t].kind = "delete" /\ by_key'  = [by_key EXCEPT ![k] = None]
          /\ by_name' = [by_name EXCEPT ![op[t].name] = None]
      BY <1>9, <2>2 DEF ApplyDelete
    <3>5. Deletes(t, o)
      BY <3>1, <3>2, <3>4 DEF Deletes
    <3> HIDE DEF o
    <3>6. QED
      BY <1>1, <1>2, <1>3, <1>4, <3>2, <3>3, <3>5
  <2>3. QED
    BY <2>1, <2>2
<1>10. QED
  BY <1>7, <1>8, <1>9

LEMMA SnapshotMoves ==
  ASSUME TypeOK, NEW t \in Tasks, Snapshot(t)
  PROVE  /\ op[t].pc = "snapshot" /\ Listed \subseteq Tenants
         /\ \E o \in Ops :
              /\ op' = [op EXCEPT ![t] = o] /\ Keeps(t, o) /\ o.pc = "open"
              /\ o.old = op[t].old /\ o.new = op[t].new /\ o.snap = Listed
         /\ UNCHANGED <<by_key, by_name, file, persistent, nextKey, history>>
<1> DEFINE rows == Listed
           o == [op[t] EXCEPT !.pc = "open", !.snap = rows]
<1>1. op \in [Tasks -> Ops] /\ op[t].pc = "snapshot" /\ rows \subseteq Tenants
  BY DEF TypeOK, Snapshot, At, Listed
<1>2. op' = [op EXCEPT ![t] = o]
  BY DEF Snapshot
<1> HIDE DEF rows
<1>3. o \in Ops
  <2>1. "open" \in Pcs
    BY DEF Pcs
  <2>2. QED
    BY <1>1, <2>1, UpdateIsOp
<1>4. /\ Keeps(t, o) /\ o.pc = "open" /\ o.old = op[t].old
      /\ o.new = op[t].new /\ o.snap = rows
  BY <1>1 DEF Ops, Keeps
<1>5. QED
  BY <1>1, <1>2, <1>3, <1>4 DEF Snapshot, rows

LEMMA TruncateMoves ==
  ASSUME TypeOK, NEW t \in Tasks, Truncate(t)
  PROVE  /\ op[t].pc = "open" /\ ~ file'.whole /\ file'.rows = {} /\ file'.length = 0
         /\ \E o \in Ops :
              /\ op' = [op EXCEPT ![t] = o] /\ Keeps(t, o) /\ o.pc = "write"
              /\ o.old = op[t].old /\ o.new = op[t].new /\ o.snap = op[t].snap
         /\ UNCHANGED <<by_key, by_name, persistent, nextKey, history>>
<1>1. PICK o \in Ops :
        /\ op' = [op EXCEPT ![t] = o] /\ Keeps(t, o) /\ o.pc = "write"
        /\ o.old = op[t].old /\ o.new = op[t].new /\ o.snap = op[t].snap
  BY GoIs DEF Truncate, Pcs
<1>2. QED
  BY <1>1 DEF Truncate, At, Opened

LEMMA WriteMoves ==
  ASSUME TypeOK, NEW t \in Tasks, Write(t)
  PROVE  /\ op[t].pc = "write" /\ op[t].snap \subseteq Tenants
         /\ file'.rows \in {{}, op[t].snap} /\ file'.whole \in BOOLEAN
         /\ op' = [op EXCEPT ![t] = Idle] /\ quiet' = op[t].solo
         /\ UNCHANGED <<by_key, by_name, persistent, nextKey, mixed>>
<1>1. op[t].pc = "write" /\ op[t].snap \subseteq Tenants
  BY DEF Write, At, TypeOK, Ops
<1>2. file'.rows \in {{}, op[t].snap} /\ file'.whole \in BOOLEAN
  BY DEF Write, Overwrite
<1>3. QED
  BY <1>1, <1>2 DEF Write

LEMMA UndoMoves ==
  ASSUME TypeOK, NEW t \in Tasks, Undo(t),
         op[t].kind = "rotate" => op[t].old # op[t].new
  PROVE  /\ op[t].pc = "undo second" /\ op[t].name \in Names
         /\ \A k \in Keys : by_key'[k] =
              IF k = op[t].new /\ op[t].kind # "delete" THEN None
              ELSE IF k = op[t].old /\ op[t].kind = "rotate" THEN op[t].name
              ELSE IF k = op[t].old /\ op[t].kind = "delete" /\ op[t].new # None THEN op[t].new
              ELSE by_key[k]
         /\ by_key' = [k \in Keys |-> by_key'[k]]
         /\ by_name' = [by_name EXCEPT ![op[t].name] = op[t].old]
         /\ op' = [op EXCEPT ![t] = Idle]
         /\ mixed' = IF op[t].alone THEN mixed ELSE mixed \cup {op[t].name}
         /\ UNCHANGED <<file, persistent, nextKey, quiet>>
<1>1. op[t].pc = "undo second"
  BY DEF Undo, UnderBothLocks, At
<1>2. op[t].kind \in Kinds /\ op[t].name \in Names
  BY <1>1 DEF TypeOK, Fits
<1>3. ASSUME NEW k \in Keys
      PROVE  by_key'[k] =
               IF k = op[t].new /\ op[t].kind # "delete" THEN None
               ELSE IF k = op[t].old /\ op[t].kind = "rotate" THEN op[t].name
               ELSE IF k = op[t].old /\ op[t].kind = "delete" /\ op[t].new # None THEN op[t].new
               ELSE by_key[k]
  <2>1. CASE op[t].kind = "create"
    BY <2>1 DEF Undo, DropsNewKey
  <2>2. CASE op[t].kind = "rotate"
    BY <2>2 DEF Undo, DropsNewKey
  <2>3. CASE op[t].kind = "delete"
    BY <2>3 DEF Undo, DropsNewKey
  <2>4. QED
    BY <1>2, <2>1, <2>2, <2>3 DEF Kinds
<1>4. by_key' = [k \in Keys |-> by_key'[k]]
  <2> DEFINE undone(k) ==
               CASE k = op[t].new /\ DropsNewKey(op[t]) -> None
                 [] k = op[t].old /\ op[t].kind = "rotate" -> op[t].name
                 [] k = op[t].old /\ op[t].kind = "delete" ->
                      IF op[t].new = None THEN by_key[k] ELSE op[t].new
                 [] OTHER -> by_key[k]
  <2>1. by_key' = [k \in Keys |-> undone(k)]
    BY DEF Undo
  <2> HIDE DEF undone
  <2>2. QED
    BY <2>1
<1>5. QED
  BY <1>1, <1>2, <1>3, <1>4 DEF Undo, UnderBothLocks

\* A restart brings back what the file lists.
LEMMA RestartMoves ==
  ASSUME TypeOK, Restart
  PROVE  /\ op' \in [Tasks -> Ops] /\ \A t \in Tasks : op'[t] = Idle
         /\ by_key' \in [Keys -> Names \cup {None}]
         /\ by_name' \in [Names -> Keys \cup {None}]
         /\ \A k \in Keys : \A n \in Names : by_key'[k] = n => <<k, n>> \in file.rows
         /\ \A k \in Keys : (\E n \in Names : <<k, n>> \in file.rows) => by_key'[k] # None
         /\ \A n \in Names :
              \/ by_name'[n] = None /\ \A k \in Keys : <<k, n>> \notin file.rows
              \/ by_name'[n] \in Keys /\ <<by_name'[n], n>> \in file.rows
         /\ persistent' \in BOOLEAN
         /\ UNCHANGED <<file, nextKey, history>>
<1>1. op' \in [Tasks -> Ops] /\ \A t \in Tasks : op'[t] = Idle
  BY IdleFits DEF Restart
<1>2. by_key' = [k \in Keys |->
         IF \E n \in Names : <<k, n>> \in file.rows
         THEN CHOOSE n \in Names : <<k, n>> \in file.rows ELSE None]
  BY DEF Restart
<1>3. ASSUME NEW k \in Keys
      PROVE  \/ by_key'[k] \in Names /\ <<k, by_key'[k]>> \in file.rows
             \/ by_key'[k] = None /\ \A n \in Names : <<k, n>> \notin file.rows
  <2>1. CASE \E n \in Names : <<k, n>> \in file.rows
    BY <1>2, <2>1
  <2>2. CASE ~ \E n \in Names : <<k, n>> \in file.rows
    BY <1>2, <2>2
  <2>3. QED
    BY <2>1, <2>2
<1>4. by_key' \in [Keys -> Names \cup {None}]
  BY <1>2, <1>3
<1>5. \A k \in Keys : \A n \in Names : by_key'[k] = n => <<k, n>> \in file.rows
  BY <1>3
<1>6. \A k \in Keys : (\E n \in Names : <<k, n>> \in file.rows) => by_key'[k] # None
  BY <1>3
<1>7. \A n \in Names :
        \/ by_name'[n] = None /\ \A k \in Keys : <<k, n>> \notin file.rows
        \/ by_name'[n] \in Keys /\ <<by_name'[n], n>> \in file.rows
  BY DEF Restart
<1>8. by_name' \in [Names -> Keys \cup {None}] /\ persistent' \in BOOLEAN
  BY DEF Restart, TypeOK
<1>9. QED
  BY <1>1, <1>4, <1>5, <1>6, <1>7, <1>8 DEF Restart

OldIsNotNew ==
  \A t \in Tasks : op[t].pc # "idle" /\ op[t].kind = "rotate" => op[t].old # op[t].new

LEMMA InitTypes ==
  ASSUME Init
  PROVE  TypeOK /\ \A t \in Tasks : op[t] = Idle
<1>1. op \in [Tasks -> Ops] /\ \A t \in Tasks : op[t] = Idle
  BY IdleFits DEF Init
<1>2. /\ by_key \in [Keys -> Names \cup {None}] /\ by_name \in [Names -> Keys \cup {None}]
      /\ file.rows = {} /\ nextKey \in Nat \ {0}
  BY DEF Init
<1>3. file.whole \in BOOLEAN /\ persistent \in BOOLEAN /\ quiet \in BOOLEAN
  BY DEF Init
<1>4. QED
  BY <1>1, <1>2, <1>3, IdleFits DEF TypeOK

LEMMA TypeStep ==
  ASSUME TypeOK, OldIsNotNew, [Next]_vars
  PROVE  TypeOK'
<1>0. /\ by_key \in [Keys -> Names \cup {None}] /\ by_name \in [Names -> Keys \cup {None}]
      /\ file.whole \in BOOLEAN /\ file.rows \subseteq Tenants /\ persistent \in BOOLEAN
      /\ op \in [Tasks -> Ops] /\ \A t \in Tasks : Fits(op[t])
      /\ nextKey \in Nat \ {0} /\ quiet \in BOOLEAN
  BY DEF TypeOK
<1>s. ASSUME NEW t \in Tasks
      PROVE  op[t].solo \in BOOLEAN /\ (op[t].solo /\ op[t].prior) \in BOOLEAN
  BY <1>0 DEF Ops
<1>1. ASSUME NEW t \in Tasks, NEW kind \in Kinds, NEW n \in Names, Begin(t, kind, n)
      PROVE  TypeOK'
  <2>1. op' \in [Tasks -> Ops] /\ nextKey' \in Nat \ {0} /\ quiet' \in BOOLEAN
        /\ UNCHANGED <<by_key, by_name, file, persistent>>
    <3>1. quiet' \in BOOLEAN
      BY <1>1 DEF Begin
    <3>2. nextKey' \in Nat \ {0}
      <4>1. nextKey' \in {nextKey, nextKey + 1}
        BY <1>1 DEF Begin
      <4>2. QED
        BY <1>0, <4>1
    <3>3. op' \in [Tasks -> Ops] /\ UNCHANGED <<by_key, by_name, file, persistent>>
      BY <1>1, BeginMoves
    <3>4. QED
      BY <1>0, <3>1, <3>2, <3>3
  <2>2. Fits(op'[t])
    <3>1. /\ op'[t].pc \in {"peek", "first"} /\ (op'[t].pc = "peek" => kind = "rotate")
          /\ op'[t].kind = kind /\ op'[t].name = n /\ op'[t].old = None
          /\ kind = "delete" => op'[t].new = None
          /\ kind = "rotate" => op'[t].pc = "peek"
      BY <1>1, BeginMoves
    <3>2. kind # "delete" => op'[t].new \in Keys
      BY <1>1, BeginMoves
    <3>3. QED
      BY <3>1, <3>2 DEF Fits, AppliedPcs
  <2>3. ASSUME NEW u \in Tasks \ {t} PROVE Fits(op'[u])
    <3>1. /\ op'[u].pc = op[u].pc /\ op'[u].kind = op[u].kind /\ op'[u].name = op[u].name
          /\ op'[u].old = op[u].old /\ op'[u].new = op[u].new /\ op'[u].snap = op[u].snap
      BY <1>1, BeginMoves
    <3>2. Fits(op[u])
      BY <1>0
    <3>3. QED
      BY <3>1, <3>2 DEF Fits
  <2>4. QED
    BY <1>0, <2>1, <2>2, <2>3 DEF TypeOK
<1>2. ASSUME NEW t \in Tasks, Returns(t)
      PROVE  TypeOK'
  BY <1>0, <1>2, <1>s, BecomesTypes, IdleFits DEF Returns, TypeOK
<1>3. ASSUME NEW t \in Tasks, TakeFirstLock(t) \/ SaveFails(t)
      PROVE  TypeOK'
  <2>1. PICK o \in Ops :
          /\ op' = [op EXCEPT ![t] = o] /\ Keeps(t, o) /\ o.old = op[t].old
          /\ o.new = op[t].new /\ o.snap = op[t].snap
          /\ \/ op[t].pc = "first" /\ o.pc = "second"
             \/ op[t].pc \in AppliedPcs /\ o.pc \in {"undo", "undo second"}
    BY <1>3, GoOnMoves
  <2>2. Fits(o)
    BY <1>0, <2>1 DEF Fits, Keeps, AppliedPcs
  <2>3. UNCHANGED <<by_key, by_name, file, persistent, nextKey, quiet>>
    BY <1>3, GoOnMoves DEF history
  <2>4. QED
    BY <1>0, <2>1, <2>2, <2>3, BecomesTypes DEF TypeOK
<1>4. ASSUME NEW t \in Tasks, Peek(t)
      PROVE  TypeOK'
  <2>1. CASE op[t].pc = "peek" /\ ~ Returns(t)
    <3>1. PICK o \in Ops :
            /\ op' = [op EXCEPT ![t] = o] /\ Keeps(t, o) /\ o.pc = "first"
            /\ o.old \in Keys /\ o.new = op[t].new /\ o.snap = op[t].snap
      BY <1>4, <2>1, PeekMoves
    <3>2. Fits(o)
      BY <1>0, <2>1, <3>1 DEF Fits, Keeps, AppliedPcs
    <3>3. UNCHANGED <<by_key, by_name, file, persistent, nextKey, quiet>>
      BY <1>4, <2>1, PeekMoves DEF history
    <3>4. QED
      BY <1>0, <3>1, <3>2, <3>3, BecomesTypes DEF TypeOK
  <2>2. QED
    BY <1>2, <1>4, <2>1, PeekMoves
<1>5. ASSUME NEW t \in Tasks, ApplyCreate(t) \/ ApplyDelete(t) \/ ApplyRotate(t)
      PROVE  TypeOK'
  <2>1. CASE ~ Returns(t)
    <3>1. /\ op[t].pc = "second" /\ op[t].name \in Names /\ Fits(op[t])
          /\ UNCHANGED <<file, persistent, nextKey, quiet>>
      BY <1>0, <1>5, <2>1, ApplyMoves DEF history
    <3>2. PICK o \in Ops, p \in Ops :
            /\ Creates(t, o) \/ Deletes(t, o) \/ Rotates(t, o)
            /\ Keeps(t, o) /\ o.snap = op[t].snap
            /\ op' = [op EXCEPT ![t] = p]
            /\ \/ p = Idle
               \/ /\ p.pc = "snapshot" /\ Keeps(t, p)
                  /\ p.old = o.old /\ p.new = o.new /\ p.snap = o.snap
      BY <1>5, <2>1, ApplyMoves
    <3>3. /\ by_key' \in [Keys -> Names \cup {None}]
          /\ by_name' \in [Names -> Keys \cup {None}]
      BY <1>0, <3>1, <3>2 DEF Creates, Deletes, Rotates
    <3>4. Fits(p)
      <4>1. CASE p = Idle
        BY <4>1, IdleFits
      <4>2. CASE p # Idle
        <5>1. CASE Creates(t, o)
          BY <3>1, <3>2, <4>2, <5>1 DEF Creates, Fits, Keeps, AppliedPcs
        <5>2. CASE Deletes(t, o)
          <6>1. o.old \in Keys /\ o.new \in Names \cup {None} /\ op[t].kind = "delete"
            BY <1>0, <5>2 DEF Deletes
          <6>2. QED
            BY <3>1, <3>2, <4>2, <6>1 DEF Fits, Keeps
        <5>3. CASE Rotates(t, o)
          BY <3>1, <3>2, <4>2, <5>3 DEF Rotates, Fits, Keeps, AppliedPcs
        <5>4. QED
          BY <3>2, <5>1, <5>2, <5>3
      <4>3. QED
        BY <4>1, <4>2
    <3>5. QED
      BY <1>0, <3>1, <3>2, <3>3, <3>4, BecomesTypes DEF TypeOK
  <2>2. QED
    BY <1>2, <2>1
<1>6. ASSUME NEW t \in Tasks, Snapshot(t)
      PROVE  TypeOK'
  <2>1. PICK o \in Ops :
          /\ op' = [op EXCEPT ![t] = o] /\ Keeps(t, o) /\ o.pc = "open"
          /\ o.old = op[t].old /\ o.new = op[t].new
    BY <1>6, SnapshotMoves
  <2>2. Fits(o)
    <3>1. op[t].pc \in {"snapshot", "open"} /\ Fits(op[t])
      BY <1>0, <1>6, SnapshotMoves
    <3>2. QED
      BY <2>1, <3>1 DEF Fits, Keeps, AppliedPcs
  <2>3. UNCHANGED <<by_key, by_name, file, persistent, nextKey, quiet>>
    BY <1>6, SnapshotMoves DEF history
  <2>4. QED
    BY <1>0, <2>1, <2>2, <2>3, BecomesTypes DEF TypeOK
<1>7. ASSUME NEW t \in Tasks, Truncate(t)
      PROVE  TypeOK'
  <2>1. PICK o \in Ops :
          /\ op' = [op EXCEPT ![t] = o] /\ Keeps(t, o) /\ o.pc = "write"
          /\ o.old = op[t].old /\ o.new = op[t].new
    BY <1>7, TruncateMoves
  <2>2. Fits(o)
    <3>1. op[t].pc \in {"snapshot", "open"} /\ Fits(op[t])
      BY <1>0, <1>7, TruncateMoves
    <3>2. QED
      BY <2>1, <3>1 DEF Fits, Keeps, AppliedPcs
  <2>3. UNCHANGED <<by_key, by_name, persistent, nextKey, quiet>>
    BY <1>7, TruncateMoves DEF history
  <2>4. file'.whole \in BOOLEAN /\ file'.rows \subseteq Tenants
    <3>1. file' = Opened
      BY <1>7 DEF Truncate
    <3>2. QED
      BY <3>1 DEF Opened
  <2>5. QED
    BY <1>0, <2>1, <2>2, <2>3, <2>4, BecomesTypes DEF TypeOK
<1>8. ASSUME NEW t \in Tasks, Write(t)
      PROVE  TypeOK'
  BY <1>0, <1>8, <1>s, WriteMoves, BecomesTypes, IdleFits DEF TypeOK
<1>9. ASSUME NEW t \in Tasks, Undo(t)
      PROVE  TypeOK'
  <2>1. op[t].kind = "rotate" => op[t].old # op[t].new
    BY <1>9 DEF OldIsNotNew, Undo, UnderBothLocks, At
  <2>2. /\ op[t].name \in Names /\ op[t].old \in Keys \cup {None}
        /\ op[t].kind = "delete" => op[t].new \in Names \cup {None}
    BY <1>0, <1>9, <2>1, UndoMoves DEF Fits, Ops
  <2>3. by_key' \in [Keys -> Names \cup {None}]
    <3>1. by_key' = [k \in Keys |-> by_key'[k]]
      BY <1>9, <2>1, UndoMoves
    <3>2. \A k \in Keys : by_key'[k] \in Names \cup {None}
      <4>1. \A k \in Keys : \/ by_key'[k] \in {None, op[t].name, by_key[k]}
                            \/ op[t].kind = "delete" /\ by_key'[k] = op[t].new
        BY <1>9, <2>1, UndoMoves
      <4>2. \A k \in Keys : by_key[k] \in Names \cup {None}
        BY <1>0
      <4>3. QED
        BY <2>2, <4>1, <4>2
    <3> DEFINE f(k) == by_key'[k]
    <3> HIDE DEF f
    <3>3. by_key' = [k \in Keys |-> f(k)] /\ \A k \in Keys : f(k) \in Names \cup {None}
      BY <3>1, <3>2 DEF f
    <3>4. QED
      BY <3>3
  <2>4. by_name' \in [Names -> Keys \cup {None}]
    BY <1>0, <1>9, <2>1, <2>2, UndoMoves
  <2>5. op' = [op EXCEPT ![t] = Idle] /\ UNCHANGED <<file, persistent, nextKey, quiet>>
    BY <1>9, <2>1, UndoMoves
  <2>6. QED
    BY <1>0, <2>3, <2>4, <2>5, BecomesTypes, IdleFits DEF TypeOK
<1>10. CASE Restart
  <2>1. \A t \in Tasks : Fits(op'[t])
    BY <1>10, RestartMoves, IdleFits
  <2>2. QED
    BY <1>0, <1>10, <2>1, RestartMoves DEF TypeOK, history
<1>11. CASE UNCHANGED vars
  BY <1>0, <1>11 DEF vars, history, TypeOK
<1>12. QED
  BY <1>1, <1>3, <1>4, <1>5, <1>6, <1>7, <1>8, <1>9, <1>10, <1>11 DEF Next, Call, Kinds

-----------------------------------------------------------------------------
(* Every key is generated for one name                                     *)

\* Where a key and a name meet: in the maps, in the file, in what a call holds.
Holds(o, k, n) ==
  \/ <<k, n>> \in o.snap
  \/ o.name = n /\ (o.old = k \/ (o.kind # "delete" /\ o.new = k))
Belongs(k, n) ==
  \/ by_key[k] = n \/ by_name[n] = k \/ <<k, n>> \in file.rows
  \/ \E t \in Tasks : Holds(op[t], k, n)

KeysAreOwn ==
  \A k \in Keys : \A n, m \in Names : Belongs(k, n) /\ Belongs(k, m) => n = m
KeysAreUsed == \A k \in Keys : \A n \in Names : Belongs(k, n) => k < nextKey

\* Until a call has put its new key in the maps, nobody else has it.
NewIsFresh ==
  \A t \in Tasks : op[t].pc \in PendingPcs /\ op[t].kind # "delete" =>
    /\ \A n \in Names : by_name[n] # op[t].new
    /\ \A u \in Tasks : op[u].old # op[t].new
    /\ \A u \in Tasks \ {t} : op[u].kind # "delete" => op[u].new # op[t].new

\* What delete() keeps for its undo is the tenant it removed, or that there was none.
DeletesOwn == \A t \in Tasks : op[t].kind = "delete" => op[t].new \in {op[t].name, None}

OwnInv == TypeOK /\ KeysAreOwn /\ KeysAreUsed /\ OldIsNotNew /\ NewIsFresh /\ DeletesOwn

\* A call becomes o, which holds nothing new, and nothing else changes.
LEMMA HoldsMoves ==
  ASSUME TypeOK, NEW t \in Tasks, NEW o, op' = [op EXCEPT ![t] = o],
         NEW k \in Keys, NEW n \in Names,
         Holds(o, k, n) => Belongs(k, n),
         by_key'[k] = n => Belongs(k, n), by_name'[n] = k => Belongs(k, n),
         <<k, n>> \in file'.rows => Belongs(k, n)
  PROVE  Belongs(k, n)' => Belongs(k, n)
<1>1. Becomes(t, o)
  BY SetIs
<1>2. ASSUME NEW u \in Tasks, Holds(op'[u], k, n)
      PROVE  Belongs(k, n)
  <2>1. CASE u = t
    BY <1>1, <1>2, <2>1 DEF Becomes
  <2>2. CASE u # t
    <3>1. op'[u] = op[u]
      BY <1>1, <2>2 DEF Becomes
    <3>2. QED
      BY <1>2, <3>1 DEF Belongs
  <2>3. QED
    BY <2>1, <2>2
<1>3. QED
  BY <1>2 DEF Belongs

\* A key and a name meet in one way: a call begins and generates the key.
LEMMA BelongsMoves ==
  ASSUME OwnInv, [Next]_vars
  PROVE  /\ nextKey' \in {nextKey, nextKey + 1}
         /\ \E who : \A k \in Keys : \A n \in Names : Belongs(k, n)' =>
              Belongs(k, n) \/ (k = nextKey /\ n = who /\ nextKey' = nextKey + 1)
<1> DEFINE Old(k, n) == Belongs(k, n)' => Belongs(k, n)
           Moves ==
             /\ nextKey' \in {nextKey, nextKey + 1}
             /\ \E who : \A k \in Keys : \A n \in Names : Belongs(k, n)' =>
                  Belongs(k, n) \/ (k = nextKey /\ n = who /\ nextKey' = nextKey + 1)
<1>0. /\ TypeOK /\ op \in [Tasks -> Ops] /\ KeysAreOwn /\ OldIsNotNew /\ DeletesOwn
      /\ by_key \in [Keys -> Names \cup {None}] /\ by_name \in [Names -> Keys \cup {None}]
  BY DEF OwnInv, TypeOK
<1>m. ASSUME nextKey' = nextKey, \A k \in Keys : \A n \in Names : Old(k, n)
      PROVE  Moves
  BY <1>m
<1>i. \A k \in Keys : \A n \in Names : ~ Holds(Idle, k, n)
  BY IdleFits DEF Holds
<1>h. ASSUME NEW t \in Tasks, NEW k \in Keys, NEW n \in Names, Holds(op[t], k, n)
      PROVE  Belongs(k, n)
  BY <1>h DEF Belongs
<1>1. ASSUME NEW t \in Tasks, NEW kind \in Kinds, NEW who \in Names, Begin(t, kind, who)
      PROVE  Moves
  <2>1. ASSUME NEW k \in Keys, NEW n \in Names, Belongs(k, n)'
        PROVE  Belongs(k, n) \/ (k = nextKey /\ n = who /\ nextKey' = nextKey + 1)
    <3>1. CASE \E u \in Tasks \ {t} : Holds(op'[u], k, n)
      <4>1. PICK u \in Tasks \ {t} : Holds(op'[u], k, n)
        BY <3>1
      <4>2. /\ op'[u].kind = op[u].kind /\ op'[u].name = op[u].name /\ op'[u].old = op[u].old
            /\ op'[u].new = op[u].new /\ op'[u].snap = op[u].snap
        BY <1>0, <1>1, BeginMoves
      <4>3. Holds(op[u], k, n)
        BY <4>1, <4>2 DEF Holds
      <4>4. QED
        BY <1>h, <4>3
    <3>2. CASE Holds(op'[t], k, n)
      <4>1. /\ op'[t].kind = kind /\ op'[t].name = who /\ op'[t].old = None
            /\ op'[t].snap = {}
            /\ kind # "delete" => op'[t].new = nextKey /\ nextKey' = nextKey + 1
        BY <1>0, <1>1, BeginMoves
      <4>2. QED
        BY <3>2, <4>1 DEF Holds
    <3>3. CASE by_key'[k] = n \/ by_name'[n] = k \/ <<k, n>> \in file'.rows
      BY <1>0, <1>1, <3>3, BeginMoves DEF Belongs
    <3>4. QED
      BY <2>1, <3>1, <3>2, <3>3 DEF Belongs
  <2>2. nextKey' \in {nextKey, nextKey + 1}
    BY <1>1 DEF Begin
  <2>3. QED
    BY <2>1, <2>2
<1>2. ASSUME NEW t \in Tasks, Returns(t)
      PROVE  Moves
  <2>1. ASSUME NEW k \in Keys, NEW n \in Names PROVE Old(k, n)
    BY <1>0, <1>2, <1>i, HoldsMoves DEF Returns, Belongs
  <2>2. QED
    BY <1>2, <1>m, <2>1 DEF Returns
<1>3. ASSUME NEW t \in Tasks, TakeFirstLock(t) \/ SaveFails(t)
      PROVE  Moves
  <2>1. PICK o \in Ops :
          /\ op' = [op EXCEPT ![t] = o] /\ Keeps(t, o) /\ o.old = op[t].old
          /\ o.new = op[t].new /\ o.snap = op[t].snap
    BY <1>0, <1>3, GoOnMoves
  <2>2. UNCHANGED <<by_key, by_name, file, nextKey>>
    BY <1>0, <1>3, GoOnMoves
  <2>3. ASSUME NEW k \in Keys, NEW n \in Names PROVE Old(k, n)
    <3>1. Holds(o, k, n) => Holds(op[t], k, n)
      BY <2>1 DEF Holds, Keeps
    <3>2. QED
      BY <1>0, <1>h, <2>1, <2>2, <3>1, HoldsMoves DEF Belongs
  <2>4. QED
    BY <1>m, <2>2, <2>3
<1>4. ASSUME NEW t \in Tasks, Peek(t), ~ Returns(t)
      PROVE  Moves
  <2>1. PICK o \in Ops :
          /\ op' = [op EXCEPT ![t] = o] /\ Keeps(t, o) /\ o.old = by_name[op[t].name]
          /\ o.new = op[t].new /\ o.snap = op[t].snap
    BY <1>0, <1>4, PeekMoves
  <2>2. UNCHANGED <<by_key, by_name, file, nextKey>>
    BY <1>0, <1>4, PeekMoves
  <2>3. ASSUME NEW k \in Keys, NEW n \in Names PROVE Old(k, n)
    <3>1. Holds(o, k, n) => Holds(op[t], k, n) \/ by_name[n] = k
      BY <2>1 DEF Holds, Keeps
    <3>2. QED
      BY <1>0, <1>h, <2>1, <2>2, <3>1, HoldsMoves DEF Belongs
  <2>4. QED
    BY <1>m, <2>2, <2>3
<1>5. ASSUME NEW t \in Tasks, ApplyCreate(t) \/ ApplyDelete(t) \/ ApplyRotate(t), ~ Returns(t)
      PROVE  Moves
  <2>1. op[t].pc = "second" /\ op[t].name \in Names /\ UNCHANGED <<file, nextKey>>
    BY <1>0, <1>5, ApplyMoves
  <2>2. PICK o \in Ops, p \in Ops :
          /\ Creates(t, o) \/ Deletes(t, o) \/ Rotates(t, o)
          /\ Keeps(t, o) /\ o.snap = op[t].snap
          /\ op' = [op EXCEPT ![t] = p]
          /\ \/ p = Idle
             \/ /\ p.pc = "snapshot" /\ Keeps(t, p)
                /\ p.old = o.old /\ p.new = o.new /\ p.snap = o.snap
    BY <1>0, <1>5, ApplyMoves
  <2>3. ASSUME NEW k \in Keys, NEW n \in Names PROVE Old(k, n)
    <3>1. Holds(p, k, n) => Holds(op[t], k, n) \/ by_name[n] = k
      <4>1. CASE p = Idle
        BY <1>i, <4>1
      <4>2. CASE p # Idle
        BY <2>2, <4>2 DEF Holds, Keeps, Creates, Deletes, Rotates
      <4>3. QED
        BY <4>1, <4>2
    <3>2. Holds(p, k, n) => Belongs(k, n)
      BY <1>h, <3>1 DEF Belongs
    <3>3. by_key'[k] = n => Belongs(k, n)
      <4>1. CASE Creates(t, o)
        <5>1. by_key'[k] = n => by_key[k] = n \/ (k = op[t].new /\ n = op[t].name)
          BY <1>0, <4>1 DEF Creates
        <5>2. k = op[t].new /\ n = op[t].name => Holds(op[t], k, n)
          BY <4>1 DEF Creates, Holds
        <5>3. QED
          BY <1>h, <5>1, <5>2 DEF Belongs
      <4>2. CASE Deletes(t, o)
        BY <1>0, <4>2 DEF Deletes, Belongs
      <4>3. CASE Rotates(t, o)
        <5>1. PICK old \in Keys, m \in Names : old = op[t].old /\ m = by_key[old]
          BY <1>0, <4>3 DEF Rotates
        <5>2. m = op[t].name
          <6>1. Belongs(old, m) /\ Holds(op[t], old, op[t].name)
            BY <5>1 DEF Belongs, Holds
          <6>2. Belongs(old, op[t].name)
            BY <1>h, <2>1, <6>1
          <6>3. QED
            BY <1>0, <2>1, <6>1, <6>2 DEF KeysAreOwn
        <5>3. by_key'[k] = n => by_key[k] = n \/ (k = op[t].new /\ n = op[t].name)
          BY <1>0, <4>3, <5>1, <5>2 DEF Rotates
        <5>4. k = op[t].new /\ n = op[t].name => Holds(op[t], k, n)
          BY <4>3 DEF Rotates, Holds
        <5>5. QED
          BY <1>h, <5>3, <5>4 DEF Belongs
      <4>4. QED
        BY <2>2, <4>1, <4>2, <4>3
    <3>4. by_name'[n] = k => Belongs(k, n)
      <4>1. by_name'[n] = k => by_name[n] = k \/ (k = op[t].new /\ n = op[t].name /\ op[t].kind # "delete")
        BY <1>0, <2>2 DEF Creates, Deletes, Rotates
      <4>2. k = op[t].new /\ n = op[t].name /\ op[t].kind # "delete" => Holds(op[t], k, n)
        BY DEF Holds
      <4>3. QED
        BY <1>h, <4>1, <4>2 DEF Belongs
    <3>5. QED
      BY <1>0, <2>1, <2>2, <3>2, <3>3, <3>4, HoldsMoves DEF Belongs
  <2>4. QED
    BY <1>m, <2>1, <2>3
<1>6. ASSUME NEW t \in Tasks, Snapshot(t)
      PROVE  Moves
  <2>1. PICK o \in Ops :
          /\ op' = [op EXCEPT ![t] = o] /\ Keeps(t, o) /\ o.old = op[t].old
          /\ o.new = op[t].new /\ o.snap = Listed
    BY <1>0, <1>6, SnapshotMoves
  <2>2. UNCHANGED <<by_key, by_name, file, nextKey>>
    BY <1>0, <1>6, SnapshotMoves
  <2>3. ASSUME NEW k \in Keys, NEW n \in Names PROVE Old(k, n)
    <3>1. Holds(o, k, n) => Holds(op[t], k, n) \/ by_key[k] = n
      BY <2>1 DEF Holds, Keeps, Listed
    <3>2. QED
      BY <1>0, <1>h, <2>1, <2>2, <3>1, HoldsMoves DEF Belongs
  <2>4. QED
    BY <1>m, <2>2, <2>3
<1>7. ASSUME NEW t \in Tasks, Truncate(t)
      PROVE  Moves
  <2>1. PICK o \in Ops :
          /\ op' = [op EXCEPT ![t] = o] /\ Keeps(t, o) /\ o.old = op[t].old
          /\ o.new = op[t].new /\ o.snap = op[t].snap
    BY <1>0, <1>7, TruncateMoves
  <2>2. UNCHANGED <<by_key, by_name, nextKey>> /\ file'.rows = {}
    BY <1>0, <1>7, TruncateMoves
  <2>3. ASSUME NEW k \in Keys, NEW n \in Names PROVE Old(k, n)
    <3>1. Holds(o, k, n) => Holds(op[t], k, n)
      BY <2>1 DEF Holds, Keeps
    <3>2. QED
      BY <1>0, <1>h, <2>1, <2>2, <3>1, HoldsMoves DEF Belongs
  <2>4. QED
    BY <1>m, <2>2, <2>3
<1>8. ASSUME NEW t \in Tasks, Write(t)
      PROVE  Moves
  <2>1. /\ op' = [op EXCEPT ![t] = Idle] /\ file'.rows \in {{}, op[t].snap}
        /\ UNCHANGED <<by_key, by_name, nextKey>>
    BY <1>0, <1>8, WriteMoves
  <2>2. ASSUME NEW k \in Keys, NEW n \in Names PROVE Old(k, n)
    <3>1. <<k, n>> \in file'.rows => Holds(op[t], k, n)
      BY <2>1 DEF Holds
    <3>2. QED
      BY <1>0, <1>h, <1>i, <2>1, <3>1, HoldsMoves DEF Belongs
  <2>3. QED
    BY <1>m, <2>1, <2>2
<1>9. ASSUME NEW t \in Tasks, Undo(t)
      PROVE  Moves
  <2>1. op[t].kind = "rotate" => op[t].old # op[t].new
    BY <1>0, <1>9 DEF OldIsNotNew, Undo, UnderBothLocks, At
  <2>2. /\ op[t].name \in Names /\ op' = [op EXCEPT ![t] = Idle]
        /\ by_name' = [by_name EXCEPT ![op[t].name] = op[t].old]
        /\ UNCHANGED <<file, nextKey>>
    BY <1>0, <1>9, <2>1, UndoMoves
  <2>3. ASSUME NEW k \in Keys, NEW n \in Names PROVE Old(k, n)
    <3>1. by_key'[k] = n => by_key[k] = n \/ Holds(op[t], k, n)
      <4>1. by_key'[k] =
              IF k = op[t].new /\ op[t].kind # "delete" THEN None
              ELSE IF k = op[t].old /\ op[t].kind = "rotate" THEN op[t].name
              ELSE IF k = op[t].old /\ op[t].kind = "delete" /\ op[t].new # None THEN op[t].new
              ELSE by_key[k]
        BY <1>0, <1>9, <2>1, UndoMoves
      <4>2. op[t].kind = "delete" => op[t].new \in {op[t].name, None}
        BY <1>0 DEF DeletesOwn
      <4>3. QED
        BY <4>1, <4>2 DEF Holds
    <3>2. by_name'[n] = k => by_name[n] = k \/ Holds(op[t], k, n)
      BY <1>0, <2>2 DEF Holds
    <3>3. QED
      BY <1>0, <1>h, <1>i, <2>2, <3>1, <3>2, HoldsMoves DEF Belongs
  <2>4. QED
    BY <1>m, <2>2, <2>3
<1>10. CASE Restart
  <2>1. ASSUME NEW k \in Keys, NEW n \in Names PROVE Old(k, n)
    <3>1. \A t \in Tasks : ~ Holds(op'[t], k, n)
      BY <1>0, <1>10, <1>i, RestartMoves
    <3>2. (by_key'[k] = n => <<k, n>> \in file.rows) /\ file' = file
      BY <1>0, <1>10, RestartMoves
    <3>3. by_name'[n] = k => <<k, n>> \in file.rows
      BY <1>0, <1>10, RestartMoves
    <3>4. QED
      BY <3>1, <3>2, <3>3 DEF Belongs
  <2>2. QED
    BY <1>0, <1>10, <1>m, <2>1, RestartMoves
<1>11. CASE UNCHANGED vars
  <2>1. \A k \in Keys : \A n \in Names : Old(k, n)
    BY <1>11 DEF vars, Belongs
  <2>2. QED
    BY <1>11, <1>m, <2>1 DEF vars
<1>12. QED
  BY <1>1, <1>2, <1>3, <1>4, <1>5, <1>6, <1>7, <1>8, <1>9, <1>10, <1>11 DEF Next, Call, Kinds

LEMMA KeysStep ==
  ASSUME OwnInv, [Next]_vars
  PROVE  KeysAreOwn' /\ KeysAreUsed'
<1>1. PICK who : \A k \in Keys : \A n \in Names : Belongs(k, n)' =>
        Belongs(k, n) \/ (k = nextKey /\ n = who /\ nextKey' = nextKey + 1)
  BY BelongsMoves
<1>2. nextKey' \in {nextKey, nextKey + 1} /\ nextKey \in Nat /\ \A k \in Keys : k \in Nat
  BY BelongsMoves DEF OwnInv, TypeOK, Keys
<1>3. \A k \in Keys : \A n \in Names : Belongs(k, n) => k < nextKey
  BY DEF OwnInv, KeysAreUsed
<1>4. \A k \in Keys : \A n \in Names : Belongs(k, n)' => k < nextKey'
  BY <1>1, <1>2, <1>3
<1>5. ASSUME NEW k \in Keys, NEW n \in Names, NEW m \in Names, Belongs(k, n)', Belongs(k, m)'
      PROVE  n = m
  <2>1. CASE Belongs(k, n) /\ Belongs(k, m)
    BY <2>1 DEF OwnInv, KeysAreOwn
  <2>2. CASE ~ Belongs(k, n) \/ ~ Belongs(k, m)
    BY <1>1, <1>2, <1>3, <1>5, <2>2
  <2>3. QED
    BY <2>1, <2>2
<1>6. QED
  BY <1>4, <1>5 DEF KeysAreOwn, KeysAreUsed

\* A call becomes o, with no key that is new to it; and by_name gets no key but what
\* the call held, and its new one only as it leaves the pending calls.
LEMMA FreshMoves ==
  ASSUME OwnInv, NEW t \in Tasks, NEW o, op' = [op EXCEPT ![t] = o],
         o.kind # "delete" => o.new = None \/ (op[t].kind # "delete" /\ o.new = op[t].new),
         o.old = op[t].old \/ o.old = None \/ \E n \in Names : o.old = by_name[n],
         \A n \in Names :
           \/ by_name'[n] \in {by_name[n], None, op[t].old}
           \/ op[t].kind # "delete" /\ by_name'[n] = op[t].new /\ o.pc \notin PendingPcs,
         o.pc \in PendingPcs =>
           op[t].pc \in PendingPcs /\ o.kind = op[t].kind /\ o.new = op[t].new
  PROVE  NewIsFresh'
<1>1. op'[t] = o /\ \A u \in Tasks \ {t} : op'[u] = op[u]
  BY SetIs DEF OwnInv, Becomes
<1> SUFFICES ASSUME NEW u \in Tasks, op'[u].pc \in PendingPcs, op'[u].kind # "delete"
             PROVE  /\ \A n \in Names : by_name'[n] # op'[u].new
                    /\ \A v \in Tasks : op'[v].old # op'[u].new
                    /\ \A v \in Tasks \ {u} : op'[v].kind # "delete" => op'[v].new # op'[u].new
  BY DEF NewIsFresh
<1>2. op[u].pc \in PendingPcs /\ op[u].kind # "delete" /\ op'[u].new = op[u].new
  <2>1. CASE u = t
    BY <1>1, <2>1
  <2>2. CASE u # t
    <3>1. op'[u] = op[u]
      BY <1>1, <2>2
    <3>2. QED
      BY <3>1
  <2>3. QED
    BY <2>1, <2>2
<1>3. op[u].new # None
  <2>1. op[u].new \in Keys
    BY <1>2 DEF OwnInv, TypeOK, Fits, PendingPcs
  <2>2. QED
    BY <2>1
<1>4. /\ \A n \in Names : by_name[n] # op[u].new
      /\ \A v \in Tasks : op[v].old # op[u].new
      /\ \A v \in Tasks \ {u} : op[v].kind # "delete" => op[v].new # op[u].new
  BY <1>2 DEF OwnInv, NewIsFresh
<1>5. ASSUME NEW n \in Names PROVE by_name'[n] # op[u].new
  <2>1. CASE by_name'[n] \in {by_name[n], None, op[t].old}
    BY <1>3, <1>4, <2>1
  <2>2. CASE op[t].kind # "delete" /\ by_name'[n] = op[t].new /\ o.pc \notin PendingPcs
    <3>1. u # t
      BY <1>1, <2>2
    <3>2. QED
      BY <1>4, <2>2, <3>1
  <2>3. QED
    BY <2>1, <2>2
<1>6. ASSUME NEW v \in Tasks PROVE op'[v].old # op[u].new
  <2>1. CASE v = t
    BY <1>1, <1>3, <1>4, <2>1
  <2>2. CASE v # t
    <3>1. op'[v] = op[v]
      BY <1>1, <2>2
    <3>2. QED
      BY <1>4, <3>1
  <2>3. QED
    BY <2>1, <2>2
<1>7. ASSUME NEW v \in Tasks \ {u}, op'[v].kind # "delete" PROVE op'[v].new # op[u].new
  <2>1. CASE v = t
    BY <1>1, <1>3, <1>4, <1>7, <2>1
  <2>2. CASE v # t
    <3>1. op'[v] = op[v]
      BY <1>1, <2>2
    <3>2. QED
      BY <1>4, <1>7, <3>1
  <2>3. QED
    BY <2>1, <2>2
<1>8. QED
  BY <1>2, <1>5, <1>6, <1>7

LEMMA RestMoves ==
  ASSUME OwnInv, NEW t \in Tasks, NEW o, op' = [op EXCEPT ![t] = o],
         o.pc # "idle" /\ o.kind = "rotate" => o.old # o.new,
         o.kind = "delete" => o.new \in {o.name, None}
  PROVE  OldIsNotNew' /\ DeletesOwn'
<1>1. op'[t] = o /\ \A u \in Tasks \ {t} : op'[u] = op[u]
  BY SetIs DEF OwnInv, Becomes
<1>2. ASSUME NEW u \in Tasks
      PROVE  /\ op'[u].pc # "idle" /\ op'[u].kind = "rotate" => op'[u].old # op'[u].new
             /\ op'[u].kind = "delete" => op'[u].new \in {op'[u].name, None}
  <2>1. CASE u = t
    BY <1>1, <2>1
  <2>2. CASE u # t
    <3>1. op'[u] = op[u]
      BY <1>1, <2>2
    <3>2. QED
      BY <3>1 DEF OwnInv, OldIsNotNew, DeletesOwn
  <2>3. QED
    BY <2>1, <2>2
<1>3. QED
  BY <1>2 DEF OldIsNotNew, DeletesOwn

LEMMA FreshStep ==
  ASSUME OwnInv, [Next]_vars
  PROVE  NewIsFresh' /\ OldIsNotNew' /\ DeletesOwn'
<1> DEFINE Goal == NewIsFresh' /\ OldIsNotNew' /\ DeletesOwn'
<1>0. /\ TypeOK /\ op \in [Tasks -> Ops] /\ KeysAreOwn /\ KeysAreUsed /\ OldIsNotNew /\ DeletesOwn
      /\ by_key \in [Keys -> Names \cup {None}] /\ by_name \in [Names -> Keys \cup {None}]
      /\ \A t \in Tasks : Fits(op[t])
  BY DEF OwnInv, TypeOK
<1>k. ASSUME NEW t \in Tasks
      PROVE  /\ op[t].pc # "idle" /\ op[t].kind = "rotate" => op[t].old # op[t].new
             /\ op[t].kind = "delete" => op[t].new \in {op[t].name, None}
  BY <1>0 DEF OldIsNotNew, DeletesOwn
<1>1. ASSUME NEW t \in Tasks, NEW kind \in Kinds, NEW n \in Names, Begin(t, kind, n)
      PROVE  Goal
  <2>1. /\ op'[t].kind = kind /\ op'[t].name = n /\ op'[t].old = None
        /\ kind = "delete" => op'[t].new = None
        /\ kind # "delete" => op'[t].new = nextKey /\ nextKey \in Keys
        /\ by_name' = by_name
    BY <1>0, <1>1, BeginMoves
  <2>2. ASSUME NEW u \in Tasks \ {t}
        PROVE  /\ op'[u].pc = op[u].pc /\ op'[u].kind = op[u].kind /\ op'[u].name = op[u].name
               /\ op'[u].old = op[u].old /\ op'[u].new = op[u].new
    BY <1>0, <1>1, BeginMoves
  <2>3. \A m \in Names : kind # "delete" => by_name[m] # nextKey
    <3>1. ASSUME NEW m \in Names, by_name[m] = nextKey, nextKey \in Keys PROVE FALSE
      <4>1. Belongs(nextKey, m)
        BY <3>1 DEF Belongs
      <4>2. nextKey < nextKey /\ nextKey \in Nat
        BY <1>0, <3>1, <4>1 DEF KeysAreUsed, TypeOK
      <4>3. QED
        BY <4>2
    <3>2. QED
      BY <2>1, <3>1
  <2>4. ASSUME NEW u \in Tasks
        PROVE  /\ kind # "delete" => op[u].old # nextKey
               /\ kind # "delete" /\ op[u].kind # "delete" => op[u].new # nextKey
    <3>1. ASSUME nextKey \in Keys,
                 op[u].old = nextKey \/ (op[u].kind # "delete" /\ op[u].new = nextKey)
          PROVE  FALSE
      <4>1. op[u].name \in Names
        BY <1>0, <3>1 DEF Fits
      <4>2. Holds(op[u], nextKey, op[u].name)
        BY <3>1 DEF Holds
      <4>3. Belongs(nextKey, op[u].name)
        BY <4>2 DEF Belongs
      <4>4. nextKey < nextKey /\ nextKey \in Nat
        BY <1>0, <3>1, <4>1, <4>3 DEF KeysAreUsed, TypeOK
      <4>5. QED
        BY <4>4
    <3>2. QED
      BY <2>1, <3>1
  <2>5. ASSUME NEW u \in Tasks, op'[u].pc \in PendingPcs, op'[u].kind # "delete"
        PROVE  /\ \A m \in Names : by_name'[m] # op'[u].new
               /\ \A v \in Tasks : op'[v].old # op'[u].new
               /\ \A v \in Tasks \ {u} : op'[v].kind # "delete" => op'[v].new # op'[u].new
    <3>1. CASE u = t
      <4>1. op'[u].new = nextKey /\ kind # "delete" /\ nextKey # None
        BY <2>1, <2>5, <3>1
      <4>2. \A v \in Tasks : op'[v].old # nextKey
        BY <2>1, <2>2, <2>4, <4>1
      <4>3. \A v \in Tasks \ {u} : op'[v].kind # "delete" => op'[v].new # nextKey
        BY <2>2, <2>4, <3>1, <4>1
      <4>4. QED
        BY <2>1, <2>3, <4>1, <4>2, <4>3
    <3>2. CASE u # t
      <4>1. /\ op[u].pc \in PendingPcs /\ op[u].kind # "delete" /\ op'[u].new = op[u].new
            /\ op[u].new \in Keys
        BY <1>0, <2>2, <2>5, <3>2 DEF Fits, PendingPcs
      <4>2. /\ \A m \in Names : by_name[m] # op[u].new
            /\ \A v \in Tasks : op[v].old # op[u].new
            /\ \A v \in Tasks \ {u} : op[v].kind # "delete" => op[v].new # op[u].new
        BY <4>1 DEF OwnInv, NewIsFresh
      <4>3. \A v \in Tasks : op'[v].old # op[u].new
        BY <2>1, <2>2, <4>1, <4>2
      <4>4. \A v \in Tasks \ {u} : op'[v].kind # "delete" => op'[v].new # op[u].new
        BY <2>1, <2>2, <2>4, <4>1, <4>2, <3>2
      <4>5. QED
        BY <2>1, <4>1, <4>2, <4>3, <4>4
    <3>3. QED
      BY <3>1, <3>2
  <2>6. ASSUME NEW u \in Tasks
        PROVE  /\ op'[u].pc # "idle" /\ op'[u].kind = "rotate" => op'[u].old # op'[u].new
               /\ op'[u].kind = "delete" => op'[u].new \in {op'[u].name, None}
    <3>1. CASE u = t
      BY <2>1, <3>1
    <3>2. CASE u # t
      BY <1>k, <2>2, <3>2
    <3>3. QED
      BY <3>1, <3>2
  <2>7. QED
    BY <2>5, <2>6 DEF NewIsFresh, OldIsNotNew, DeletesOwn
<1>2. ASSUME NEW t \in Tasks, op' = [op EXCEPT ![t] = Idle],
             \A n \in Names :
               \/ by_name'[n] \in {by_name[n], None, op[t].old}
               \/ op[t].kind # "delete" /\ by_name'[n] = op[t].new
      PROVE  Goal
  <2>1. /\ Idle.new = None /\ Idle.old = None /\ Idle.pc = "idle"
        /\ Idle.pc \notin PendingPcs
    BY DEF Idle, PendingPcs
  <2>2. NewIsFresh'
    BY <1>2, <2>1, FreshMoves
  <2>3. OldIsNotNew' /\ DeletesOwn'
    BY <1>2, <2>1, RestMoves
  <2>4. QED
    BY <2>2, <2>3
<1>3. ASSUME NEW t \in Tasks, NEW o, op' = [op EXCEPT ![t] = o], Keeps(t, o),
             o.old = op[t].old, o.new = op[t].new, by_name' = by_name, op[t].pc # "idle",
             o.pc \in PendingPcs => op[t].pc \in PendingPcs
      PROVE  Goal
  <2>1. NewIsFresh'
    BY <1>3, FreshMoves DEF Keeps
  <2>2. OldIsNotNew' /\ DeletesOwn'
    BY <1>3, <1>k, RestMoves DEF Keeps
  <2>3. QED
    BY <2>1, <2>2
<1>4. ASSUME NEW t \in Tasks, Returns(t)
      PROVE  Goal
  BY <1>2, <1>4 DEF Returns
<1>5. ASSUME NEW t \in Tasks, TakeFirstLock(t) \/ SaveFails(t)
      PROVE  Goal
  <2>1. PICK o \in Ops :
          /\ op' = [op EXCEPT ![t] = o] /\ Keeps(t, o) /\ o.old = op[t].old
          /\ o.new = op[t].new
          /\ \/ op[t].pc = "first" /\ o.pc = "second"
             \/ op[t].pc \in AppliedPcs /\ o.pc \in {"undo", "undo second"}
    BY <1>0, <1>5, GoOnMoves
  <2>2. by_name' = by_name
    BY <1>0, <1>5, GoOnMoves
  <2>3. QED
    BY <1>3, <2>1, <2>2 DEF PendingPcs, AppliedPcs
<1>6. ASSUME NEW t \in Tasks, Peek(t), ~ Returns(t)
      PROVE  Goal
  <2>1. PICK o \in Ops :
          /\ op' = [op EXCEPT ![t] = o] /\ Keeps(t, o) /\ o.pc = "first"
          /\ o.old = by_name[op[t].name] /\ o.new = op[t].new
    BY <1>0, <1>6, PeekMoves
  <2>2. by_name' = by_name /\ op[t].pc = "peek"
    BY <1>0, <1>6, PeekMoves
  <2>3. op[t].pc \in PendingPcs /\ op[t].kind = "rotate" /\ op[t].name \in Names
    BY <1>0, <2>2 DEF Fits, PendingPcs
  <2>4. o.old # o.new
    BY <2>1, <2>3 DEF OwnInv, NewIsFresh
  <2>5. NewIsFresh'
    BY <2>1, <2>2, <2>3, FreshMoves DEF Keeps
  <2>6. OldIsNotNew' /\ DeletesOwn'
    BY <2>1, <2>3, <2>4, RestMoves DEF Keeps
  <2>7. QED
    BY <2>5, <2>6
<1>7. ASSUME NEW t \in Tasks, ApplyCreate(t) \/ ApplyDelete(t) \/ ApplyRotate(t), ~ Returns(t)
      PROVE  Goal
  <2>1. PICK o \in Ops, p \in Ops :
          /\ Creates(t, o) \/ Deletes(t, o) \/ Rotates(t, o)
          /\ Keeps(t, o)
          /\ op' = [op EXCEPT ![t] = p]
          /\ \/ p = Idle
             \/ /\ p.pc = "snapshot" /\ Keeps(t, p)
                /\ p.old = o.old /\ p.new = o.new
    BY <1>0, <1>7, ApplyMoves
  <2>2. op[t].name \in Names /\ op[t].pc # "idle"
    BY <1>0, <1>7, ApplyMoves
  <2>3. \A n \in Names :
          \/ by_name'[n] \in {by_name[n], None}
          \/ op[t].kind # "delete" /\ by_name'[n] = op[t].new
    BY <1>0, <2>1 DEF Creates, Deletes, Rotates
  <2>4. CASE p = Idle
    BY <1>2, <2>1, <2>3, <2>4
  <2>5. CASE p # Idle
    <3>1. p.pc \notin PendingPcs
      BY <2>1, <2>5 DEF PendingPcs
    <3>2. p.old = op[t].old \/ p.old = by_name[op[t].name]
      BY <2>1, <2>5 DEF Creates, Deletes, Rotates
    <3>3. p.kind = op[t].kind /\ (p.kind # "delete" => p.new = op[t].new)
      BY <2>1, <2>5 DEF Creates, Deletes, Rotates, Keeps
    <3>4. NewIsFresh'
      BY <2>1, <2>2, <2>3, <3>1, <3>2, <3>3, FreshMoves
    <3>5. p.kind = "rotate" => p.old # p.new
      BY <1>k, <2>1, <2>2, <2>5 DEF Creates, Deletes, Rotates, Keeps
    <3>6. p.kind = "delete" => p.new \in {p.name, None}
      <4>1. SUFFICES ASSUME Deletes(t, o), by_key[o.old] # None PROVE by_key[o.old] = op[t].name
        BY <2>1, <2>5 DEF Creates, Deletes, Rotates, Keeps
      <4>2. PICK k \in Keys, m \in Names : k = o.old /\ m = by_key[k]
        BY <1>0, <4>1 DEF Deletes
      <4>3. Belongs(k, m) /\ Belongs(k, op[t].name)
        BY <4>1, <4>2 DEF Belongs, Deletes
      <4>4. QED
        BY <1>0, <2>2, <4>2, <4>3 DEF KeysAreOwn
    <3>7. OldIsNotNew' /\ DeletesOwn'
      BY <2>1, <3>5, <3>6, RestMoves
    <3>8. QED
      BY <3>4, <3>7
  <2>6. QED
    BY <2>4, <2>5
<1>8. ASSUME NEW t \in Tasks, Snapshot(t)
      PROVE  Goal
  <2>1. PICK o \in Ops :
          /\ op' = [op EXCEPT ![t] = o] /\ Keeps(t, o) /\ o.pc = "open" /\ o.old = op[t].old
          /\ o.new = op[t].new
    BY <1>0, <1>8, SnapshotMoves
  <2>2. by_name' = by_name /\ op[t].pc # "idle"
    BY <1>0, <1>8, SnapshotMoves
  <2>3. QED
    BY <1>3, <2>1, <2>2 DEF PendingPcs, AppliedPcs
<1>9. ASSUME NEW t \in Tasks, Truncate(t)
      PROVE  Goal
  <2>1. PICK o \in Ops :
          /\ op' = [op EXCEPT ![t] = o] /\ Keeps(t, o) /\ o.pc = "write" /\ o.old = op[t].old
          /\ o.new = op[t].new
    BY <1>0, <1>9, TruncateMoves
  <2>2. by_name' = by_name /\ op[t].pc # "idle"
    BY <1>0, <1>9, TruncateMoves
  <2>3. QED
    BY <1>3, <2>1, <2>2 DEF PendingPcs, AppliedPcs
<1>10. ASSUME NEW t \in Tasks, Write(t)
       PROVE  Goal
  BY <1>0, <1>2, <1>10, WriteMoves
<1>11. ASSUME NEW t \in Tasks, Undo(t)
       PROVE  Goal
  <2>1. op' = [op EXCEPT ![t] = Idle] /\ by_name' = [by_name EXCEPT ![op[t].name] = op[t].old]
    BY <1>11 DEF Undo
  <2>2. \A n \in Names : by_name'[n] \in {by_name[n], None, op[t].old}
    BY <1>0, <2>1
  <2>3. QED
    BY <1>2, <2>1, <2>2
<1>12. CASE Restart
  <2>1. \A t \in Tasks : op'[t].pc = "idle" /\ op'[t].new = None
    BY <1>0, <1>12, RestartMoves, IdleFits
  <2>2. QED
    BY <2>1 DEF NewIsFresh, OldIsNotNew, DeletesOwn, PendingPcs
<1>13. CASE UNCHANGED vars
  BY <1>13 DEF vars, OwnInv, NewIsFresh, OldIsNotNew, DeletesOwn
<1>14. QED
  BY <1>1, <1>4, <1>5, <1>6, <1>7, <1>8, <1>9, <1>10, <1>11, <1>12, <1>13 DEF Next, Call, Kinds

LEMMA OwnInit ==
  ASSUME Init
  PROVE  OwnInv
<1>1. TypeOK /\ \A t \in Tasks : op[t] = Idle
  BY InitTypes
<1>2. \A t \in Tasks : /\ op[t].pc = "idle" /\ op[t].kind = None /\ op[t].name = None
                       /\ op[t].snap = {} /\ op[t].new = None
  BY <1>1, IdleFits
<1>3. \A k \in Keys : \A n \in Names : ~ Belongs(k, n)
  BY <1>2 DEF Init, Belongs, Holds
<1>4. QED
  BY <1>1, <1>2, <1>3 DEF OwnInv, KeysAreOwn, KeysAreUsed, OldIsNotNew, NewIsFresh, DeletesOwn, PendingPcs

LEMMA OwnStep ==
  ASSUME OwnInv, [Next]_vars
  PROVE  OwnInv'
  BY TypeStep, KeysStep, FreshStep DEF OwnInv

-----------------------------------------------------------------------------
(* The two maps agree                                                      *)

MapsMatch ==
  \A n \in Names \ mixed : \A k \in Keys : by_key[k] = n <=> by_name[n] = k

\* A call that is alone on its name finds, when it undoes, what it left in the maps.
Remembers(o) ==
  o.pc \in AppliedPcs /\ o.name \notin mixed =>
    /\ o.alone => by_name[o.name] = IF o.kind = "delete" THEN None ELSE o.new
    /\ o.kind = "delete" => o.new = o.name
UndoFits == \A t \in Tasks : Remembers(op[t])

AloneIsAlone ==
  \A t, u \in Tasks :
    op[t].pc # "idle" /\ op[t].alone /\ t # u => op[u].name # op[t].name

\* A list that was, is or may become the file has one key for a name.
OneKey(rows) ==
  \A n \in Names \ mixed : \A k, l \in Keys :
    <<k, n>> \in rows /\ <<l, n>> \in rows => k = l
ListsMatch == OneKey(file.rows) /\ \A t \in Tasks : OneKey(op[t].snap)

AgreeInv == OwnInv /\ MapsMatch /\ UndoFits /\ AloneIsAlone /\ ListsMatch

\* Every step of a call changes that call only, which keeps its name or is over.
LEMMA CallShape ==
  ASSUME OwnInv, NEW t \in Tasks, Call(t) \/ SaveFails(t)
  PROVE  \E o \in Ops : /\ op' = [op EXCEPT ![t] = o] /\ op[t].pc # "idle"
                        /\ o = Idle \/ Keeps(t, o)
<1>0. TypeOK
  BY DEF OwnInv
<1>1. ASSUME Returns(t)
      PROVE  \E o \in Ops : /\ op' = [op EXCEPT ![t] = o] /\ op[t].pc # "idle"
                            /\ o = Idle \/ Keeps(t, o)
  BY <1>1, IdleFits DEF Returns, PendingPcs
<1>2. CASE Peek(t)
  BY <1>0, <1>1, <1>2, PeekMoves
<1>3. CASE TakeFirstLock(t) \/ SaveFails(t)
  BY <1>0, <1>3, GoOnMoves DEF AppliedPcs
<1>4. CASE ApplyCreate(t) \/ ApplyDelete(t) \/ ApplyRotate(t)
  BY <1>0, <1>1, <1>4, ApplyMoves
<1>5. CASE Snapshot(t)
  BY <1>0, <1>5, SnapshotMoves
<1>6. CASE Truncate(t)
  BY <1>0, <1>6, TruncateMoves
<1>7. CASE Write(t)
  BY <1>0, <1>7, WriteMoves, IdleFits
<1>8. CASE Undo(t)
  BY <1>8, IdleFits DEF Undo, UnderBothLocks, At
<1>9. QED
  BY <1>2, <1>3, <1>4, <1>5, <1>6, <1>7, <1>8 DEF Call

LEMMA AloneStep ==
  ASSUME OwnInv, AloneIsAlone, NEW t \in Tasks, NEW o,
         op' = [op EXCEPT ![t] = o], op[t].pc # "idle", o = Idle \/ Keeps(t, o)
  PROVE  AloneIsAlone'
<1>1. op'[t] = o /\ \A u \in Tasks \ {t} : op'[u] = op[u]
  BY SetIs DEF OwnInv, Becomes
<1> SUFFICES ASSUME NEW u \in Tasks, NEW v \in Tasks, op'[u].pc # "idle", op'[u].alone, u # v
             PROVE  op'[v].name # op'[u].name
  BY DEF AloneIsAlone
<1>2. op[u].pc # "idle" /\ op[u].alone /\ op'[u].name = op[u].name
  <2>1. CASE u = t
    BY <1>1, <2>1, IdleFits DEF Keeps
  <2>2. CASE u # t
    <3>1. op'[u] = op[u]
      BY <1>1, <2>2
    <3>2. QED
      BY <3>1
  <2>3. QED
    BY <2>1, <2>2
<1>3. op[v].name # op[u].name /\ op[u].name \in Names
  BY <1>2 DEF AloneIsAlone, OwnInv, TypeOK, Fits
<1>4. op'[v].name = op[v].name \/ op'[v].name = None
  <2>1. CASE v = t
    BY <1>1, <2>1, IdleFits DEF Keeps
  <2>2. CASE v # t
    <3>1. op'[v] = op[v]
      BY <1>1, <2>2
    <3>2. QED
      BY <3>1
  <2>3. QED
    BY <2>1, <2>2
<1>5. QED
  BY <1>2, <1>3, <1>4

\* What the others remember stands if by_name changes at the name of t at most.
LEMMA UndoFitsStep ==
  ASSUME OwnInv, UndoFits, AloneIsAlone, NEW t \in Tasks, NEW o,
         op' = [op EXCEPT ![t] = o], mixed \subseteq mixed',
         \A n \in Names : n # op[t].name => by_name'[n] = by_name[n],
         Remembers(o)'
  PROVE  UndoFits'
<1>1. op'[t] = o /\ \A u \in Tasks \ {t} : op'[u] = op[u]
  BY SetIs DEF OwnInv, Becomes
<1>2. ASSUME NEW u \in Tasks \ {t} PROVE Remembers(op[u])'
  <2>1. op'[u] = op[u] /\ Remembers(op[u])
    BY <1>1 DEF UndoFits
  <2>2. op[u].pc \in AppliedPcs => op[u].name \in Names
    BY DEF OwnInv, TypeOK, Fits, AppliedPcs
  <2>3. op[u].pc \in AppliedPcs /\ op[u].alone => by_name'[op[u].name] = by_name[op[u].name]
    BY <2>2 DEF AloneIsAlone, AppliedPcs
  <2>4. QED
    BY <2>1, <2>3 DEF Remembers
<1>3. Remembers(op[t])'
  BY <1>1 DEF Remembers
<1>4. QED
  BY <1>2, <1>3 DEF UndoFits

LEMMA ListsStep ==
  ASSUME OwnInv, ListsMatch, NEW t \in Tasks, NEW o, op' = [op EXCEPT ![t] = o],
         mixed \subseteq mixed',
         file'.rows \in {{}, file.rows, op[t].snap}, o.snap \in {{}, op[t].snap}
  PROVE  ListsMatch'
<1>1. op'[t] = o /\ \A u \in Tasks \ {t} : op'[u] = op[u]
  BY SetIs DEF OwnInv, Becomes
<1>2. ASSUME NEW rows, OneKey(rows) PROVE OneKey(rows)'
  BY <1>2 DEF OneKey
<1>3. OneKey({})'
  BY DEF OneKey
<1>4. OneKey(file.rows) /\ \A u \in Tasks : OneKey(op[u].snap)
  BY DEF ListsMatch
<1>5. PICK rows : rows = file'.rows
  OBVIOUS
<1>6. OneKey(rows)'
  BY <1>2, <1>3, <1>4, <1>5
<1>7. ASSUME NEW u \in Tasks PROVE OneKey(op[u].snap)'
  <2>1. PICK snap : snap = op'[u].snap
    OBVIOUS
  <2>2. snap = {} \/ \E v \in Tasks : snap = op[v].snap
    <3>1. CASE u = t
      BY <1>1, <2>1, <3>1
    <3>2. CASE u # t
      <4>1. op'[u] = op[u]
        BY <1>1, <3>2
      <4>2. QED
        BY <2>1, <4>1
    <3>3. QED
      BY <3>1, <3>2
  <2>3. OneKey(snap)'
    BY <1>2, <1>3, <1>4, <2>2
  <2>4. QED
    BY <2>1, <2>3 DEF OneKey
<1>8. QED
  BY <1>5, <1>6, <1>7 DEF ListsMatch, OneKey

AgreeRest == MapsMatch /\ UndoFits /\ AloneIsAlone /\ ListsMatch

\* Steps that do not change the maps.
LEMMA StillAgree ==
  ASSUME AgreeInv, NEW t \in Tasks, NEW o, op' = [op EXCEPT ![t] = o], op[t].pc # "idle",
         UNCHANGED <<by_key, by_name, mixed>>,
         \/ o = Idle
         \/ Keeps(t, o) /\ (o.pc \in AppliedPcs => op[t].pc \in AppliedPcs /\ o.new = op[t].new),
         ListsMatch'
  PROVE  AgreeRest'
<1>1. OwnInv /\ MapsMatch /\ UndoFits /\ AloneIsAlone
  BY DEF AgreeInv
<1>2. MapsMatch'
  BY <1>1 DEF MapsMatch
<1>3. AloneIsAlone'
  BY <1>1, AloneStep
<1>4. Remembers(o)'
  <2>1. CASE o = Idle
    BY <2>1, IdleFits DEF Remembers, AppliedPcs
  <2>2. CASE o # Idle
    <3>1. Remembers(op[t])
      BY <1>1 DEF UndoFits
    <3>2. QED
      BY <2>2, <3>1 DEF Remembers, Keeps
  <2>3. QED
    BY <2>1, <2>2
<1>5. UndoFits'
  BY <1>1, <1>4, UndoFitsStep
<1>6. QED
  BY <1>2, <1>3, <1>5 DEF AgreeRest

LEMMA MovesAgree ==
  ASSUME AgreeInv, NEW t \in Tasks,
         \/ Returns(t) \/ (Peek(t) /\ ~ Returns(t)) \/ TakeFirstLock(t) \/ SaveFails(t)
         \/ Snapshot(t) \/ Truncate(t) \/ Write(t)
  PROVE  AgreeRest'
<1>0. TypeOK /\ OwnInv /\ ListsMatch /\ MapsMatch /\ Fits(op[t])
  BY DEF AgreeInv, OwnInv, TypeOK
<1>1. CASE Returns(t)
  <2>1. /\ op' = [op EXCEPT ![t] = Idle] /\ UNCHANGED <<by_key, by_name, file, mixed>>
        /\ op[t].pc # "idle"
    BY <1>1 DEF Returns, PendingPcs
  <2>2. ListsMatch'
    BY <1>0, <2>1, ListsStep, IdleFits
  <2>3. QED
    BY <2>1, <2>2, StillAgree
<1>2. CASE Peek(t) /\ ~ Returns(t)
  <2>1. PICK o \in Ops :
          op' = [op EXCEPT ![t] = o] /\ Keeps(t, o) /\ o.pc = "first" /\ o.snap = op[t].snap
    BY <1>0, <1>2, PeekMoves
  <2>2. op[t].pc # "idle" /\ UNCHANGED <<by_key, by_name, file, mixed>>
    BY <1>0, <1>2, PeekMoves DEF history
  <2>3. ListsMatch'
    BY <1>0, <2>1, <2>2, ListsStep
  <2>4. QED
    BY <2>1, <2>2, <2>3, StillAgree DEF AppliedPcs
<1>3. CASE TakeFirstLock(t) \/ SaveFails(t)
  <2>1. PICK o \in Ops :
          /\ op' = [op EXCEPT ![t] = o] /\ Keeps(t, o) /\ o.new = op[t].new
          /\ o.snap = op[t].snap
          /\ \/ op[t].pc = "first" /\ o.pc = "second"
             \/ op[t].pc \in AppliedPcs /\ o.pc \in {"undo", "undo second"}
    BY <1>0, <1>3, GoOnMoves
  <2>2. op[t].pc # "idle" /\ UNCHANGED <<by_key, by_name, file, mixed>>
    BY <1>0, <1>3, <2>1, GoOnMoves DEF history, AppliedPcs
  <2>3. ListsMatch'
    BY <1>0, <2>1, <2>2, ListsStep
  <2>4. QED
    BY <2>1, <2>2, <2>3, StillAgree DEF AppliedPcs
<1>4. CASE Snapshot(t)
  <2>1. PICK o \in Ops :
          /\ op' = [op EXCEPT ![t] = o] /\ Keeps(t, o) /\ o.pc = "open"
          /\ o.new = op[t].new /\ o.snap = Listed
    BY <1>0, <1>4, SnapshotMoves
  <2>2. op[t].pc = "snapshot" /\ UNCHANGED <<by_key, by_name, file, mixed>>
    BY <1>0, <1>4, SnapshotMoves DEF history
  <2>3. OneKey(Listed)
    BY <1>0 DEF OneKey, Listed, MapsMatch
  <2>4. ListsMatch'
    <3>1. op'[t] = o /\ \A u \in Tasks \ {t} : op'[u] = op[u]
      BY <1>0, <2>1, SetIs DEF Becomes
    <3>2. OneKey(file.rows) /\ \A u \in Tasks : OneKey(op[u].snap)
      BY <1>0 DEF ListsMatch
    <3>3. OneKey(o.snap)'
      BY <2>1, <2>2, <2>3 DEF OneKey
    <3>4. ASSUME NEW u \in Tasks PROVE OneKey(op[u].snap)'
      <4>1. CASE u = t
        BY <3>1, <3>3, <4>1 DEF OneKey
      <4>2. CASE u # t
        BY <2>2, <3>1, <3>2, <4>2 DEF OneKey
      <4>3. QED
        BY <4>1, <4>2
    <3>5. QED
      BY <2>2, <3>2, <3>4 DEF ListsMatch, OneKey
  <2>5. QED
    BY <2>1, <2>2, <2>4, StillAgree DEF AppliedPcs
<1>5. CASE Truncate(t)
  <2>1. PICK o \in Ops :
          /\ op' = [op EXCEPT ![t] = o] /\ Keeps(t, o) /\ o.pc = "write"
          /\ o.new = op[t].new /\ o.snap = op[t].snap
    BY <1>0, <1>5, TruncateMoves
  <2>2. /\ op[t].pc = "open" /\ file'.rows = {} /\ UNCHANGED <<by_key, by_name, mixed>>
    BY <1>0, <1>5, TruncateMoves DEF history
  <2>3. ListsMatch'
    BY <1>0, <2>1, <2>2, ListsStep
  <2>4. QED
    BY <2>1, <2>2, <2>3, StillAgree DEF AppliedPcs
<1>6. CASE Write(t)
  <2>1. /\ op' = [op EXCEPT ![t] = Idle] /\ op[t].pc # "idle"
        /\ file'.rows \in {{}, op[t].snap} /\ UNCHANGED <<by_key, by_name, mixed>>
    BY <1>0, <1>6, WriteMoves
  <2>2. ListsMatch'
    BY <1>0, <2>1, ListsStep, IdleFits
  <2>3. QED
    BY <2>1, <2>2, StillAgree
<1>7. QED
  BY <1>1, <1>2, <1>3, <1>4, <1>5, <1>6

LEMMA ApplyAgrees ==
  ASSUME AgreeInv, NEW t \in Tasks, ~ Returns(t),
         ApplyCreate(t) \/ ApplyDelete(t) \/ ApplyRotate(t)
  PROVE  AgreeRest'
<1>0. /\ TypeOK /\ OwnInv /\ ListsMatch /\ MapsMatch /\ UndoFits /\ AloneIsAlone /\ Fits(op[t])
      /\ by_key \in [Keys -> Names \cup {None}] /\ by_name \in [Names -> Keys \cup {None}]
  BY DEF AgreeInv, OwnInv, TypeOK
<1>1. /\ op[t].pc = "second" /\ op[t].name \in Names
      /\ UNCHANGED <<file, mixed>>
  BY <1>0, ApplyMoves DEF history
<1>2. PICK o \in Ops, p \in Ops :
        /\ Creates(t, o) \/ Deletes(t, o) \/ Rotates(t, o)
        /\ Keeps(t, o) /\ o.snap = op[t].snap
        /\ op' = [op EXCEPT ![t] = p]
        /\ \/ p = Idle
           \/ /\ p.pc = "snapshot" /\ Keeps(t, p)
              /\ p.old = o.old /\ p.new = o.new /\ p.snap = o.snap
  BY <1>0, ApplyMoves
<1> DEFINE name == op[t].name
<1>3. ASSUME NEW k \in Keys, NEW n \in Names, by_key[k] = n, by_name[name] = k \/ Holds(op[t], k, name)
      PROVE  n = name
  <2>1. Belongs(k, n) /\ Belongs(k, name)
    BY <1>3 DEF Belongs
  <2>2. QED
    BY <1>0, <1>1, <2>1 DEF OwnInv, KeysAreOwn
<1>4. ASSUME NEW n \in Names, n # name
      PROVE  by_name'[n] = by_name[n] /\ \A k \in Keys : by_key'[k] = n <=> by_key[k] = n
  <2>1. by_name'[n] = by_name[n]
    BY <1>0, <1>2, <1>4 DEF Creates, Deletes, Rotates
  <2>2. ASSUME NEW k \in Keys PROVE by_key'[k] = n <=> by_key[k] = n
    <3>1. CASE Creates(t, o)
      <4>1. by_key[op[t].new] # n
        BY <1>3, <1>4, <3>1 DEF Creates, Holds
      <4>2. QED
        BY <1>0, <1>4, <3>1, <4>1 DEF Creates
    <3>2. CASE Deletes(t, o)
      <4>1. by_key[o.old] # n
        BY <1>3, <1>4, <3>2 DEF Deletes
      <4>2. QED
        BY <1>0, <3>2, <4>1 DEF Deletes
    <3>3. CASE Rotates(t, o)
      <4>1. by_key[op[t].old] # n /\ by_key[op[t].new] # n
        BY <1>3, <1>4, <3>3 DEF Rotates, Holds
      <4>2. QED
        BY <1>0, <3>3, <4>1 DEF Rotates
    <3>4. QED
      BY <1>2, <3>1, <3>2, <3>3
  <2>3. QED
    BY <2>1, <2>2
<1>5. ASSUME name \notin mixed
      PROVE  /\ \A k \in Keys : by_key'[k] = name <=> by_name'[name] = k
             /\ by_name'[name] = IF op[t].kind = "delete" THEN None ELSE op[t].new
             /\ op[t].kind = "delete" => o.new = name
  <2>1. \A k \in Keys : by_key[k] = name <=> by_name[name] = k
    BY <1>0, <1>1, <1>5 DEF MapsMatch
  <2>2. CASE Creates(t, o)
    <3>1. op[t].kind # "delete" /\ by_name'[name] = op[t].new
      BY <1>0, <1>1, <2>2 DEF Creates
    <3>2. \A k \in Keys : by_key[k] # name
      BY <2>1, <2>2 DEF Creates, Taken
    <3>3. \A k \in Keys : by_key'[k] = name <=> k = op[t].new
      BY <1>0, <2>2, <3>2 DEF Creates
    <3>4. QED
      BY <3>1, <3>3
  <2>3. CASE Deletes(t, o)
    <3>1. by_name[name] = o.old /\ o.old \in Keys /\ by_name'[name] = None /\ op[t].kind = "delete"
      BY <1>0, <1>1, <2>3 DEF Deletes
    <3>2. o.new = name
      BY <2>1, <2>3, <3>1 DEF Deletes
    <3>3. \A k \in Keys : by_key'[k] # name
      BY <1>0, <1>1, <2>1, <2>3, <3>1 DEF Deletes
    <3>4. QED
      BY <3>1, <3>2, <3>3
  <2>4. CASE Rotates(t, o)
    <3>1. op[t].kind # "delete" /\ by_name'[name] = op[t].new
      BY <1>0, <1>1, <2>4 DEF Rotates
    <3>2. by_key[op[t].old] = name
      <4>1. PICK m \in Names : m = by_key[op[t].old]
        BY <1>0, <2>4 DEF Rotates
      <4>2. m = name
        BY <1>3, <2>4, <4>1 DEF Rotates, Holds
      <4>3. QED
        BY <4>1, <4>2
    <3>3. \A k \in Keys : by_key'[k] = name <=> k = op[t].new
      BY <1>0, <1>1, <2>1, <2>4, <3>2 DEF Rotates
    <3>4. QED
      BY <3>1, <3>3
  <2>5. QED
    BY <1>2, <2>2, <2>3, <2>4
<1>6. MapsMatch'
  <2>1. ASSUME NEW n \in Names \ mixed, NEW k \in Keys
        PROVE  by_key'[k] = n <=> by_name'[n] = k
    <3>1. CASE n = name
      BY <1>5, <3>1
    <3>2. CASE n # name
      BY <1>0, <1>4, <3>2 DEF MapsMatch
    <3>3. QED
      BY <3>1, <3>2
  <2>2. QED
    BY <1>1, <2>1 DEF MapsMatch
<1>7. Remembers(p)'
  <2>1. CASE p = Idle
    BY <2>1, IdleFits DEF Remembers, AppliedPcs
  <2>2. CASE p # Idle
    <3>1. p.name = name /\ p.kind = op[t].kind /\ p.new = o.new
      BY <1>2, <2>2 DEF Keeps
    <3>2. op[t].kind # "delete" => o.new = op[t].new
      BY <1>2 DEF Creates, Deletes, Rotates
    <3>3. QED
      BY <1>1, <1>5, <3>1, <3>2 DEF Remembers
  <2>3. QED
    BY <2>1, <2>2
<1>8. UndoFits'
  <2>1. mixed \subseteq mixed' /\ \A n \in Names : n # op[t].name => by_name'[n] = by_name[n]
    BY <1>1, <1>4
  <2>2. op' = [op EXCEPT ![t] = p]
    BY <1>2
  <2>3. QED
    BY <1>0, <1>7, <2>1, <2>2, UndoFitsStep
<1>9. AloneIsAlone'
  BY <1>0, <1>1, <1>2, AloneStep
<1>10. ListsMatch'
  BY <1>0, <1>1, <1>2, ListsStep, IdleFits
<1>11. QED
  BY <1>6, <1>8, <1>9, <1>10 DEF AgreeRest

\* An undo alone on its name puts back what the call changed; any other marks the name.
LEMMA UndoAgrees ==
  ASSUME AgreeInv, NEW t \in Tasks, Undo(t)
  PROVE  AgreeRest'
<1>0. /\ TypeOK /\ OwnInv /\ ListsMatch /\ MapsMatch /\ UndoFits /\ AloneIsAlone /\ Fits(op[t])
      /\ by_key \in [Keys -> Names \cup {None}] /\ by_name \in [Names -> Keys \cup {None}]
      /\ op[t].old \in Keys \cup {None}
  BY DEF AgreeInv, OwnInv, TypeOK, Ops
<1> DEFINE name == op[t].name
<1>1. op[t].pc = "undo second"
  BY DEF Undo, UnderBothLocks, At
<1>2. op[t].kind = "rotate" => op[t].old # op[t].new
  BY <1>1 DEF AgreeInv, OwnInv, OldIsNotNew
<1>3. /\ name \in Names /\ op' = [op EXCEPT ![t] = Idle] /\ file' = file
      /\ by_name' = [by_name EXCEPT ![name] = op[t].old]
      /\ mixed' = IF op[t].alone THEN mixed ELSE mixed \cup {name}
  BY <1>0, <1>2, UndoMoves
<1>4. \A k \in Keys : by_key'[k] =
        IF k = op[t].new /\ op[t].kind # "delete" THEN None
        ELSE IF k = op[t].old /\ op[t].kind = "rotate" THEN name
        ELSE IF k = op[t].old /\ op[t].kind = "delete" /\ op[t].new # None THEN op[t].new
        ELSE by_key[k]
  BY <1>0, <1>2, UndoMoves
<1>5. op[t].kind = "delete" => op[t].new \in {name, None}
  BY DEF AgreeInv, OwnInv, DeletesOwn
<1>6. ASSUME NEW k \in Keys, NEW n \in Names, by_key[k] = n, Holds(op[t], k, name)
      PROVE  n = name
  <2>1. Belongs(k, n) /\ Belongs(k, name)
    BY <1>6 DEF Belongs
  <2>2. QED
    BY <1>0, <1>3, <2>1 DEF OwnInv, KeysAreOwn
<1>7. ASSUME NEW n \in Names, n # name
      PROVE  by_name'[n] = by_name[n] /\ \A k \in Keys : by_key'[k] = n <=> by_key[k] = n
  <2>1. by_name'[n] = by_name[n]
    BY <1>0, <1>3, <1>7
  <2>2. ASSUME NEW k \in Keys PROVE by_key'[k] = n <=> by_key[k] = n
    <3>1. CASE Holds(op[t], k, name)
      <4>1. by_key[k] # n
        BY <1>6, <1>7, <3>1
      <4>2. by_key'[k] \in {None, name, by_key[k]}
        BY <1>4, <1>5
      <4>3. QED
        BY <1>7, <4>1, <4>2
    <3>2. CASE ~ Holds(op[t], k, name)
      BY <1>4, <3>2 DEF Holds
    <3>3. QED
      BY <3>1, <3>2
  <2>3. QED
    BY <2>1, <2>2
<1>8. ASSUME name \notin mixed', NEW k \in Keys
      PROVE  by_key'[k] = name <=> by_name'[name] = k
  <2>1. op[t].alone /\ name \notin mixed
    BY <1>3, <1>8
  <2>2. /\ by_name[name] = IF op[t].kind = "delete" THEN None ELSE op[t].new
        /\ op[t].kind = "delete" => op[t].new = name
    BY <1>0, <1>1, <2>1 DEF UndoFits, Remembers, AppliedPcs
  <2>3. by_key[k] = name <=> by_name[name] = k
    BY <1>0, <1>3, <2>1 DEF MapsMatch
  <2>4. by_name'[name] = op[t].old
    BY <1>0, <1>3
  <2>5. CASE op[t].kind = "create"
    <3>1. op[t].old = None
      BY <1>0, <1>1, <2>5 DEF Fits
    <3>2. QED
      BY <1>4, <2>2, <2>3, <2>4, <2>5, <3>1, <1>3
  <2>6. CASE op[t].kind = "rotate"
    BY <1>2, <1>3, <1>4, <2>2, <2>3, <2>4, <2>6
  <2>7. CASE op[t].kind = "delete"
    BY <1>3, <1>4, <2>2, <2>3, <2>4, <2>7
  <2>8. QED
    BY <1>0, <1>1, <2>5, <2>6, <2>7 DEF Fits, Kinds
<1>9. mixed \subseteq mixed'
  BY <1>3
<1>10. MapsMatch'
  <2>1. ASSUME NEW n \in Names, n \notin mixed', NEW k \in Keys
        PROVE  by_key'[k] = n <=> by_name'[n] = k
    <3>1. CASE n = name
      BY <1>8, <2>1, <3>1
    <3>2. CASE n # name
      BY <1>0, <1>7, <1>9, <2>1, <3>2 DEF MapsMatch
    <3>3. QED
      BY <3>1, <3>2
  <2>2. QED
    BY <2>1 DEF MapsMatch
<1>11. UndoFits'
  <2>1. Remembers(Idle)'
    BY IdleFits DEF Remembers, AppliedPcs
  <2>2. QED
    BY <1>0, <1>3, <1>7, <1>9, <2>1, UndoFitsStep
<1>12. AloneIsAlone'
  BY <1>0, <1>1, <1>3, AloneStep
<1>13. ListsMatch'
  BY <1>0, <1>3, <1>9, ListsStep, IdleFits
<1>14. QED
  BY <1>10, <1>11, <1>12, <1>13 DEF AgreeRest

LEMMA BeginAgrees ==
  ASSUME AgreeInv, NEW t \in Tasks, NEW kind \in Kinds, NEW n \in Names, Begin(t, kind, n)
  PROVE  AgreeRest'
<1>0. TypeOK /\ OwnInv /\ ListsMatch /\ MapsMatch /\ UndoFits /\ AloneIsAlone
  BY DEF AgreeInv, OwnInv
<1>1. /\ op'[t].pc \in {"peek", "first"} /\ op'[t].name = n /\ op'[t].snap = {}
      /\ op'[t].alone => \A w \in Tasks : op[w].name # n
      /\ op[t].pc = "idle" /\ UNCHANGED <<by_key, by_name, file, mixed>>
  BY <1>0, BeginMoves
<1>2. ASSUME NEW u \in Tasks \ {t}
      PROVE  /\ op'[u].pc = op[u].pc /\ op'[u].kind = op[u].kind /\ op'[u].name = op[u].name
             /\ op'[u].new = op[u].new /\ op'[u].snap = op[u].snap
             /\ op'[u].alone => op[u].alone /\ op[u].name # n
  BY <1>0, BeginMoves
<1>3. MapsMatch'
  BY <1>0, <1>1 DEF MapsMatch
<1>4. AloneIsAlone'
  <2> SUFFICES ASSUME NEW u \in Tasks, NEW v \in Tasks, op'[u].pc # "idle", op'[u].alone, u # v
               PROVE  op'[v].name # op'[u].name
    BY DEF AloneIsAlone
  <2>1. CASE u = t
    BY <1>1, <1>2, <2>1
  <2>2. CASE u # t /\ v = t
    BY <1>1, <1>2, <2>2
  <2>3. CASE u # t /\ v # t
    <3>1. op[v].name # op[u].name
      BY <1>0, <1>2, <2>3 DEF AloneIsAlone
    <3>2. QED
      BY <1>2, <2>3, <3>1
  <2>4. QED
    BY <2>1, <2>2, <2>3
<1>5. UndoFits'
  <2>1. ASSUME NEW u \in Tasks PROVE Remembers(op[u])'
    <3>1. CASE u = t
      BY <1>1, <3>1 DEF Remembers, AppliedPcs
    <3>2. CASE u # t
      <4>1. Remembers(op[u])
        BY <1>0 DEF UndoFits
      <4>2. QED
        BY <1>1, <1>2, <3>2, <4>1 DEF Remembers
    <3>3. QED
      BY <3>1, <3>2
  <2>2. QED
    BY <2>1 DEF UndoFits
<1>6. ListsMatch'
  <2>1. ASSUME NEW u \in Tasks PROVE OneKey(op[u].snap)'
    <3>1. CASE u = t
      BY <1>1, <3>1 DEF OneKey
    <3>2. CASE u # t
      <4>1. OneKey(op[u].snap)
        BY <1>0 DEF ListsMatch
      <4>2. op'[u].snap = op[u].snap /\ mixed' = mixed
        BY <1>1, <1>2, <3>2
      <4>3. QED
        BY <4>1, <4>2 DEF OneKey
    <3>3. QED
      BY <3>1, <3>2
  <2>2. OneKey(file.rows)'
    BY <1>0, <1>1 DEF ListsMatch, OneKey
  <2>3. QED
    BY <2>1, <2>2 DEF ListsMatch
<1>7. QED
  BY <1>3, <1>4, <1>5, <1>6 DEF AgreeRest

LEMMA RestartAgrees ==
  ASSUME AgreeInv, Restart
  PROVE  AgreeRest'
<1>0. TypeOK /\ OwnInv /\ ListsMatch /\ KeysAreOwn
  BY DEF AgreeInv, OwnInv
<1>1. \A t \in Tasks : op'[t].pc = "idle" /\ op'[t].snap = {}
  BY <1>0, RestartMoves, IdleFits
<1>2. /\ by_key' \in [Keys -> Names \cup {None}] /\ mixed' = mixed /\ file' = file
      /\ \A k \in Keys : \A n \in Names : by_key'[k] = n => <<k, n>> \in file.rows
      /\ \A k \in Keys : (\E n \in Names : <<k, n>> \in file.rows) => by_key'[k] # None
  BY <1>0, RestartMoves DEF history
<1>3. \A n \in Names :
        \/ by_name'[n] = None /\ \A k \in Keys : <<k, n>> \notin file.rows
        \/ by_name'[n] \in Keys /\ <<by_name'[n], n>> \in file.rows
  BY <1>0, RestartMoves
<1>4. ASSUME NEW n \in Names, n \notin mixed, NEW k \in Keys
      PROVE  by_key'[k] = n <=> by_name'[n] = k
  <2>1. <<k, n>> \in file.rows => by_key'[k] = n
    <3>1. ASSUME <<k, n>> \in file.rows PROVE by_key'[k] = n
      <4>1. PICK m \in Names : by_key'[k] = m
        BY <1>2, <3>1
      <4>2. Belongs(k, n) /\ Belongs(k, m)
        BY <1>2, <3>1, <4>1 DEF Belongs
      <4>3. QED
        BY <1>0, <4>1, <4>2 DEF KeysAreOwn
    <3>2. QED
      BY <3>1
  <2>2. \A l \in Keys : <<k, n>> \in file.rows /\ <<l, n>> \in file.rows => k = l
    BY <1>0, <1>4 DEF ListsMatch, OneKey
  <2>3. QED
    BY <1>2, <1>3, <2>1, <2>2
<1>5. MapsMatch'
  BY <1>2, <1>4 DEF MapsMatch
<1>6. UndoFits' /\ AloneIsAlone'
  BY <1>1 DEF UndoFits, Remembers, AloneIsAlone, AppliedPcs
<1>7. ListsMatch'
  BY <1>0, <1>1, <1>2 DEF ListsMatch, OneKey
<1>8. QED
  BY <1>5, <1>6, <1>7 DEF AgreeRest

LEMMA AgreeStep ==
  ASSUME AgreeInv, [Next]_vars
  PROVE  AgreeInv'
<1>1. OwnInv'
  BY OwnStep DEF AgreeInv
<1>2. CASE UNCHANGED vars
  BY <1>1, <1>2 DEF AgreeInv, vars, history, MapsMatch, UndoFits, Remembers, AloneIsAlone,
                    ListsMatch, OneKey
<1>3. CASE Next
  <2>1. ASSUME NEW t \in Tasks, Call(t) \/ SaveFails(t)
        PROVE  AgreeRest'
    BY <2>1, MovesAgree, ApplyAgrees, UndoAgrees DEF Call
  <2>2. AgreeRest'
    BY <1>3, <2>1, BeginAgrees, RestartAgrees DEF Next, Kinds
  <2>3. QED
    BY <1>1, <2>2 DEF AgreeInv, AgreeRest
<1>4. QED
  BY <1>2, <1>3

\* Whatever calls race and whatever saves fail, the two maps are inverse to each other,
\* except on a name where a failed call was undone over the work of another.
THEOREM MapsStayInverse == Spec => []MapsAgree
<1>1. Init => AgreeInv
  <2> SUFFICES ASSUME Init PROVE AgreeInv
    OBVIOUS
  <2>1. OwnInv /\ \A t \in Tasks : op[t] = Idle
    BY OwnInit, InitTypes
  <2>2. \A t \in Tasks : op[t].pc = "idle" /\ op[t].snap = {}
    BY <2>1, IdleFits
  <2>3. MapsMatch /\ file.rows = {}
    BY DEF Init, MapsMatch
  <2>4. UndoFits /\ AloneIsAlone /\ ListsMatch
    BY <2>2, <2>3 DEF UndoFits, Remembers, AppliedPcs, AloneIsAlone, ListsMatch, OneKey
  <2>5. QED
    BY <2>1, <2>3, <2>4 DEF AgreeInv
<1>2. AgreeInv /\ [Next]_vars => AgreeInv'
  BY AgreeStep
<1>3. AgreeInv => MapsAgree
  <2> SUFFICES ASSUME AgreeInv, NEW n \in Names \ mixed
               PROVE  {k \in Keys : by_key[k] = n} = {by_name[n]} \ {None}
    BY DEF MapsAgree
  <2>1. by_name[n] \in Keys \cup {None}
    BY DEF AgreeInv, OwnInv, TypeOK
  <2>2. \A k \in Keys : by_key[k] = n <=> by_name[n] = k
    BY DEF AgreeInv, MapsMatch
  <2>3. QED
    BY <2>1, <2>2
<1>4. QED
  BY <1>1, <1>2, <1>3, PTL DEF Spec

-----------------------------------------------------------------------------
(* What a quiet call has saved                                             *)

Durable == file.whole /\ file.rows = Listed

\* No call is under way after a quiet one.
QuietIsIdle == quiet => Durable /\ \A t \in Tasks : op[t].pc = "idle"

\* How far a call that overlaps no other has come with the file.
Saves(o) ==
  /\ o.pc \in PendingPcs /\ o.prior => Durable
  /\ o.pc \in {"open", "write"} => o.snap = Listed
  /\ o.pc = "write" => file.length = 0

SoloSaves ==
  \A t \in Tasks : op[t].pc # "idle" /\ op[t].solo =>
    Saves(op[t]) /\ \A u \in Tasks \ {t} : op[u].pc = "idle"

QuietInv == OwnInv /\ QuietIsIdle /\ SoloSaves

\* A list of tenants has a length.
LEMMA ListHasLength ==
  ASSUME TypeOK
  PROVE  Cardinality(Listed) \in Nat
<1> DEFINE f == [x \in Listed |-> x[1]]
<1>1. \A x \in Listed : x \in Tenants /\ x = <<x[1], x[2]>> /\ x[1] \in Keys /\ by_key[x[1]] = x[2]
  BY DEF Listed, Tenants
<1>2. f \in [Listed -> Keys]
  BY <1>1
<1>3. \A x, y \in Listed : f[x] = f[y] => x = y
  BY <1>1
<1>4. f \in Injection(Listed, Keys)
  BY <1>2, <1>3 DEF Injection, IsInjective
<1>5. IsFiniteSet(Keys)
  BY FS_Interval DEF Keys
<1>6. IsFiniteSet(Listed)
  BY <1>4, <1>5, FS_Injection
<1>7. QED
  BY <1>6, FS_CardinalityType

\* A step of a call that is under way: if it overlaps no other, only that call counts.
LEMMA SoloStep ==
  ASSUME QuietInv, NEW t \in Tasks, NEW o, op' = [op EXCEPT ![t] = o], op[t].pc # "idle",
         o = Idle \/ Keeps(t, o),
         o.pc # "idle" /\ op[t].solo => Saves(o)',
         quiet' => op[t].solo /\ Durable' /\ o = Idle
  PROVE  QuietIsIdle' /\ SoloSaves'
<1>1. op'[t] = o /\ \A u \in Tasks \ {t} : op'[u] = op[u]
  BY SetIs DEF QuietInv, OwnInv, Becomes
<1>2. \A u \in Tasks \ {t} : op[u].pc # "idle" => ~ op[u].solo /\ ~ op[t].solo
  BY DEF QuietInv, SoloSaves
<1>3. QuietIsIdle'
  <2> SUFFICES ASSUME quiet', NEW u \in Tasks PROVE Durable' /\ op'[u].pc = "idle"
    BY DEF QuietIsIdle
  <2>1. CASE u = t
    BY <1>1, <2>1, IdleFits
  <2>2. CASE u # t
    <3>1. op'[u] = op[u]
      BY <1>1, <2>2
    <3>2. QED
      BY <1>2, <2>2, <3>1
  <2>3. QED
    BY <2>1, <2>2
<1>4. ASSUME NEW u \in Tasks, op'[u].pc # "idle", op'[u].solo
      PROVE  Saves(op[u])' /\ \A v \in Tasks \ {u} : op'[v].pc = "idle"
  <2>1. u = t
    <3> SUFFICES ASSUME u # t PROVE op[u].pc = "idle" \/ ~ op[u].solo
      BY <1>1, <1>4
    <3>1. QED
      BY <1>2
  <2>2. op[t].solo /\ o # Idle
    BY <1>1, <1>4, <2>1, IdleFits DEF Keeps
  <2>3. Saves(op[t])'
    BY <1>1, <1>4, <2>1, <2>2 DEF Saves
  <2>4. ASSUME NEW v \in Tasks \ {t} PROVE op'[v].pc = "idle"
    <3>1. op'[v] = op[v]
      BY <1>1
    <3>2. QED
      BY <1>2, <2>2, <3>1
  <2>5. QED
    BY <2>1, <2>3, <2>4
<1>5. QED
  BY <1>3, <1>4 DEF SoloSaves

LEMMA CallIsDurable ==
  ASSUME QuietInv, NEW t \in Tasks, Call(t) \/ SaveFails(t)
  PROVE  QuietIsIdle' /\ SoloSaves'
<1>0. TypeOK /\ op[t].solo \in BOOLEAN /\ op[t].prior \in BOOLEAN
  BY DEF QuietInv, OwnInv, TypeOK, Ops
<1>1. op[t].pc # "idle" /\ ~ quiet
  <2>1. op[t].pc # "idle"
    BY CallShape DEF QuietInv
  <2>2. QED
    BY <2>1 DEF QuietInv, QuietIsIdle
<1>2. op[t].solo => Saves(op[t])
  BY <1>1 DEF QuietInv, SoloSaves
<1>3. ASSUME Returns(t) PROVE QuietIsIdle' /\ SoloSaves'
  <2>1. op' = [op EXCEPT ![t] = Idle] /\ UNCHANGED <<by_key, file>>
    BY <1>3 DEF Returns
  <2>2. Durable' <=> Durable
    BY <2>1 DEF Durable, Listed
  <2>3. quiet' => op[t].solo /\ Durable
    BY <1>0, <1>2, <1>3 DEF Returns, Saves
  <2>4. QED
    BY <1>1, <2>1, <2>2, <2>3, IdleFits, SoloStep
<1>4. ASSUME NEW o \in Ops, op' = [op EXCEPT ![t] = o], Keeps(t, o), ~ quiet',
             op[t].solo => Saves(o)'
      PROVE  QuietIsIdle' /\ SoloSaves'
  BY <1>1, <1>4, SoloStep
<1>5. ASSUME op' = [op EXCEPT ![t] = Idle], ~ quiet'
      PROVE  QuietIsIdle' /\ SoloSaves'
  BY <1>1, <1>5, IdleFits, SoloStep
<1>6. ASSUME UNCHANGED <<by_key, file>>
      PROVE  (Durable' <=> Durable) /\ Listed' = Listed
  BY <1>6 DEF Durable, Listed
<1>7. CASE Peek(t)
  <2>1. CASE Returns(t)
    BY <1>3, <2>1
  <2>2. CASE ~ Returns(t)
    <3>1. PICK o \in Ops : /\ op' = [op EXCEPT ![t] = o] /\ Keeps(t, o) /\ o.pc = "first"
                           /\ op[t].pc = "peek" /\ UNCHANGED <<by_key, file, quiet>>
      BY <1>0, <1>7, <2>2, PeekMoves DEF history
    <3>2. op[t].solo => Saves(o)'
      BY <1>2, <1>6, <3>1 DEF Saves, Keeps, PendingPcs
    <3>3. QED
      BY <1>1, <1>4, <3>1, <3>2
  <2>3. QED
    BY <2>1, <2>2
<1>8. CASE TakeFirstLock(t) \/ SaveFails(t)
  <2>1. PICK o \in Ops : /\ op' = [op EXCEPT ![t] = o] /\ Keeps(t, o)
                         /\ \/ op[t].pc = "first" /\ o.pc = "second"
                            \/ op[t].pc \in AppliedPcs /\ o.pc \in {"undo", "undo second"}
                         /\ UNCHANGED <<by_key, file, quiet>>
    BY <1>0, <1>8, GoOnMoves DEF history
  <2>2. op[t].solo => Saves(o)'
    BY <1>2, <1>6, <2>1 DEF Saves, Keeps, PendingPcs, AppliedPcs
  <2>3. QED
    BY <1>1, <1>4, <2>1, <2>2
<1>9. CASE ApplyCreate(t) \/ ApplyDelete(t) \/ ApplyRotate(t)
  <2>1. CASE Returns(t)
    BY <1>3, <2>1
  <2>2. CASE ~ Returns(t)
    <3>1. PICK p \in Ops : /\ op' = [op EXCEPT ![t] = p] /\ UNCHANGED quiet
                           /\ p = Idle \/ (p.pc = "snapshot" /\ Keeps(t, p))
      BY <1>0, <1>9, <2>2, ApplyMoves DEF history
    <3>2. p.pc = "snapshot" => Saves(p)'
      BY DEF Saves, PendingPcs
    <3>3. QED
      BY <1>1, <1>4, <1>5, <3>1, <3>2
  <2>3. QED
    BY <2>1, <2>2
<1>10. CASE Snapshot(t)
  <2>1. PICK o \in Ops : /\ op' = [op EXCEPT ![t] = o] /\ Keeps(t, o) /\ o.pc = "open"
                         /\ o.snap = Listed /\ UNCHANGED <<by_key, file, quiet>>
    BY <1>0, <1>10, SnapshotMoves DEF history
  <2>2. Saves(o)'
    BY <1>6, <2>1 DEF Saves, PendingPcs
  <2>3. QED
    BY <1>1, <1>4, <2>1, <2>2
<1>11. CASE Truncate(t)
  <2>1. PICK o \in Ops : /\ op' = [op EXCEPT ![t] = o] /\ Keeps(t, o) /\ o.pc = "write"
                         /\ o.snap = op[t].snap /\ op[t].pc = "open"
                         /\ file'.length = 0 /\ UNCHANGED <<by_key, quiet>>
    BY <1>0, <1>11, TruncateMoves DEF history
  <2>2. Listed' = Listed
    BY <2>1 DEF Listed
  <2>3. op[t].solo => Saves(o)'
    BY <1>2, <2>1, <2>2 DEF Saves, PendingPcs
  <2>4. QED
    BY <1>1, <1>4, <2>1, <2>3
<1>12. CASE Write(t)
  <2>1. /\ op[t].pc = "write" /\ op' = [op EXCEPT ![t] = Idle] /\ quiet' = op[t].solo
        /\ UNCHANGED by_key
    BY <1>0, <1>12, WriteMoves
  <2>2. Listed' = Listed
    BY <2>1 DEF Listed
  <2>3. ASSUME op[t].solo PROVE Durable'
    <3>1. op[t].snap = Listed /\ file.length = 0
      BY <1>2, <2>1, <2>3 DEF Saves
    <3>2. Cardinality(op[t].snap) \in Nat
      BY <1>0, <3>1, ListHasLength
    <3>3. ~ (file.length > Cardinality(op[t].snap) + 1)
      BY <3>1, <3>2
    <3>4. file'.whole /\ file'.rows = op[t].snap
      BY <1>12, <3>3 DEF Write, Overwrite
    <3>5. QED
      BY <2>2, <3>1, <3>4 DEF Durable
  <2>4. QED
    BY <1>0, <1>1, <2>1, <2>3, IdleFits, SoloStep
<1>13. CASE Undo(t)
  <2>1. op' = [op EXCEPT ![t] = Idle] /\ UNCHANGED quiet
    BY <1>13 DEF Undo
  <2>2. QED
    BY <1>1, <1>5, <2>1
<1>14. QED
  BY <1>7, <1>8, <1>9, <1>10, <1>11, <1>12, <1>13 DEF Call

LEMMA BeginIsDurable ==
  ASSUME QuietInv, NEW t \in Tasks, NEW kind \in Kinds, NEW n \in Names, Begin(t, kind, n)
  PROVE  QuietIsIdle' /\ SoloSaves'
<1>1. TypeOK
  BY DEF QuietInv, OwnInv
<1>2. /\ op'[t].pc \in {"peek", "first"} /\ ~ quiet' /\ UNCHANGED <<by_key, file>>
      /\ op'[t].solo => \A w \in Tasks : op[w].pc = "idle"
      /\ op'[t].prior => quiet
      /\ \A u \in Tasks \ {t} : op'[u].pc = op[u].pc /\ ~ op'[u].solo
  BY <1>1, BeginMoves
<1>3. Durable' <=> Durable
  BY <1>2 DEF Durable, Listed
<1>4. Saves(op[t])'
  BY <1>2, <1>3 DEF Saves, PendingPcs, QuietInv, QuietIsIdle
<1>5. ASSUME NEW u \in Tasks, op'[u].pc # "idle", op'[u].solo
      PROVE  Saves(op[u])' /\ \A v \in Tasks \ {u} : op'[v].pc = "idle"
  <2>1. u = t
    BY <1>2, <1>5
  <2>2. QED
    BY <1>2, <1>4, <1>5, <2>1
<1>6. QED
  BY <1>2, <1>5 DEF QuietIsIdle, SoloSaves

\* A restart reads back the list that the last quiet call wrote.
LEMMA RestartIsDurable ==
  ASSUME QuietInv, Restart
  PROVE  QuietIsIdle' /\ SoloSaves'
<1>1. TypeOK
  BY DEF QuietInv, OwnInv
<1>2. \A t \in Tasks : op'[t].pc = "idle"
  BY <1>1, RestartMoves, IdleFits
<1>3. UNCHANGED <<file, quiet>>
  BY <1>1, RestartMoves DEF history
<1>4. ASSUME quiet PROVE Listed' = Listed
  <2>1. file.rows = Listed
    BY <1>4 DEF QuietInv, QuietIsIdle, Durable
  <2>2. ASSUME NEW k \in Keys, NEW n \in Names PROVE by_key'[k] = n <=> by_key[k] = n
    <3>1. ASSUME NEW m \in Names PROVE <<k, m>> \in file.rows <=> by_key[k] = m
      BY <2>1 DEF Listed, Tenants
    <3>2. ASSUME by_key'[k] = n PROVE by_key[k] = n
      BY <1>1, <3>1, <3>2, RestartMoves
    <3>3. ASSUME by_key[k] = n PROVE by_key'[k] = n
      <4>1. by_key'[k] # None /\ by_key'[k] \in Names \cup {None}
        BY <1>1, <3>1, <3>3, RestartMoves
      <4>2. PICK m \in Names : by_key'[k] = m
        BY <4>1
      <4>3. by_key[k] = m
        BY <1>1, <3>1, <4>2, RestartMoves
      <4>4. QED
        BY <3>3, <4>2, <4>3
    <3>4. QED
      BY <3>2, <3>3
  <2>3. QED
    BY <2>2 DEF Listed, Tenants
<1>5. QED
  BY <1>2, <1>3, <1>4 DEF QuietInv, QuietIsIdle, SoloSaves, Durable

\* After a call that overlapped no other and succeeded, the file has exactly the tenants
\* of the maps, also when the server has restarted since.
THEOREM QuietCallsAreDurable == Spec => []QuietCallIsDurable
<1>1. Init => QuietInv
  <2> SUFFICES ASSUME Init PROVE QuietInv
    OBVIOUS
  <2>1. OwnInv /\ \A t \in Tasks : op[t].pc = "idle"
    BY OwnInit, InitTypes, IdleFits
  <2>2. Listed = {}
    BY DEF Init, Listed, Tenants
  <2>3. QED
    BY <2>1, <2>2 DEF Init, QuietInv, QuietIsIdle, SoloSaves, Durable
<1>2. QuietInv /\ [Next]_vars => QuietInv'
  <2> SUFFICES ASSUME QuietInv, [Next]_vars PROVE QuietInv'
    OBVIOUS
  <2>1. OwnInv'
    BY OwnStep DEF QuietInv
  <2>2. CASE UNCHANGED vars
    BY <2>1, <2>2 DEF QuietInv, vars, history, QuietIsIdle, SoloSaves, Saves, Durable, Listed
  <2>3. CASE Next
    <3>1. QuietIsIdle' /\ SoloSaves'
      BY <2>3, CallIsDurable, BeginIsDurable, RestartIsDurable DEF Next, Kinds
    <3>2. QED
      BY <2>1, <3>1 DEF QuietInv
  <2>4. QED
    BY <2>2, <2>3
<1>3. QuietInv => QuietCallIsDurable
  BY DEF QuietInv, QuietIsIdle, Durable, QuietCallIsDurable
<1>4. QED
  BY <1>1, <1>2, <1>3, PTL DEF Spec
=============================================================================
