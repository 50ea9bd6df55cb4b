---------------------------- MODULE TenantStore ----------------------------
(***************************************************************************)
(* The tenant registry (vectoria-server/src/tenants.rs): two maps, each    *)
(* behind its own lock, and a JSON file.  create(), delete() and           *)
(* rotate_key() change the maps under both locks, release them, then write *)
(* the whole file, truncating it first; if that fails they take the locks  *)
(* again and undo.  The handlers run on several threads, and nothing       *)
(* orders one save() against another.                                      *)
(***************************************************************************)
EXTENDS Integers, FiniteSets

CONSTANTS
  Names,       \* tenant names, all of one length
  Tasks,       \* concurrent requests
  None,        \* an absent value
  Faults,      \* may opening or writing the file fail?
  MaxKeys,     \* bound on the keys ever generated
  MaxRestarts  \* bound on the number of restarts

Keys    == 1..MaxKeys
Maps    == {"by_key", "by_name"}
Tenants == Keys \X Names

ASSUME TenantAssumption ==
  /\ MaxKeys \in Nat /\ MaxRestarts \in Nat /\ Faults \in BOOLEAN
  /\ None \notin Keys \cup Names \cup Tasks

VARIABLES
  by_key,     \* by_key[k]: the tenant whose key is k
  by_name,    \* by_name[n]: the key of tenant n
  lock,       \* lock[m]: the task that holds map m for writing
  file,       \* the JSON file: can it be parsed, its tenants, its length
  persistent, \* the store has a path; FALSE for TenantStore::empty()
  op,         \* op[t]: the call task t is in
  nextKey,    \* generate_api_key(), as a counter
  restarts

\* History variables.
VARIABLES
  quiet,      \* the latest call overlapped no other and its save succeeded
  mixed       \* names on which an undo overlapped another call

history == <<quiet, mixed>>
vars == <<by_key, by_name, lock, file, persistent, op, nextKey, restarts, history>>

Idle == [pc |-> "idle", kind |-> None, name |-> None, old |-> None, new |-> None,
         snap |-> {}, alone |-> FALSE, solo |-> FALSE, prior |-> FALSE]

Listed == {x \in Tenants : by_key[x[1]] = x[2]}

Init ==
  /\ by_key  = [k \in Keys |-> None]
  /\ by_name = [n \in Names |-> None]
  /\ lock = [m \in Maps |-> None]
  /\ file = [whole |-> TRUE, rows |-> {}, length |-> 0]
  /\ persistent = TRUE
  /\ op = [t \in Tasks |-> Idle]
  /\ nextKey = 1
  /\ restarts = 0
  /\ quiet = TRUE
  /\ mixed = {}

-----------------------------------------------------------------------------
(* A call begins and takes its locks.                                      *)

Unlocked(m) == lock[m] = None
At(t, pc)   == op[t].pc = pc
Go(t, pc)   == op' = [op EXCEPT ![t].pc = pc]

\* create() and rotate_key() generate a key; rotate_key() first looks up the
\* old one under a lock of its own.
Begin(t, kind, n) ==
  /\ At(t, "idle")
  /\ kind # "delete" => nextKey <= MaxKeys
  /\ nextKey' = IF kind = "delete" THEN nextKey ELSE nextKey + 1
  /\ op' = [u \in Tasks |->
              IF u = t
              THEN [Idle EXCEPT !.pc = IF kind = "rotate" THEN "peek" ELSE "first",
                                !.kind = kind, !.name = n,
                                !.new = IF kind = "delete" THEN None ELSE nextKey,
                                !.alone = \A w \in Tasks : op[w].name # n,
                                !.solo  = \A w \in Tasks : At(w, "idle"),
                                !.prior = quiet]
              ELSE [op[u] EXCEPT !.solo = FALSE, !.alone = @ /\ op[u].name # n]]
  /\ quiet' = FALSE
  /\ UNCHANGED <<by_key, by_name, lock, file, persistent, restarts, mixed>>

\* The call returns having changed nothing.
NothingToDo(t) ==
  /\ op' = [op EXCEPT ![t] = Idle]
  /\ quiet' = (op[t].solo /\ op[t].prior)
  /\ UNCHANGED mixed

Peek(t) ==
  LET k == by_name[op[t].name] IN
  /\ At(t, "peek") /\ Unlocked("by_name")
  /\ IF k = None THEN NothingToDo(t)
                 ELSE op' = [op EXCEPT ![t].pc = "first", ![t].old = k] /\ UNCHANGED history
  /\ UNCHANGED <<by_key, by_name, lock, file, persistent, nextKey, restarts>>

\* "Lock order: by_key then by_name", in all three and in their undo.
NameFirstInDelete(kind) == IF kind = "delete" THEN "by_name" ELSE "by_key"
FirstLock(kind)  == "by_key"
SecondLock(kind) == CHOOSE m \in Maps : m # FirstLock(kind)

TakeFirstLock(t) ==
  /\ \/ At(t, "first") /\ Go(t, "second")
     \/ At(t, "undo") /\ Go(t, "undo second")
  /\ Unlocked(FirstLock(op[t].kind))
  /\ lock' = [lock EXCEPT ![FirstLock(op[t].kind)] = t]
  /\ UNCHANGED <<by_key, by_name, file, persistent, nextKey, restarts, history>>

\* With both locks the change is one step, and the locks go at its end.
UnderBothLocks(t, pc) ==
  /\ At(t, pc) /\ Unlocked(SecondLock(op[t].kind))
  /\ lock' = [lock EXCEPT ![FirstLock(op[t].kind)] = None]
  /\ UNCHANGED <<file, persistent, nextKey, restarts>>

NeverTaken(n) == FALSE
Taken(n)      == by_name[n] # None

\* save() returns at once when the store has no path.
Saved(t, o) == op' = [op EXCEPT ![t] = IF persistent THEN [o EXCEPT !.pc = "snapshot"] ELSE Idle]

ApplyCreate(t) ==
  LET o == op[t] IN
  /\ o.kind = "create" /\ UnderBothLocks(t, "second")
  /\ IF Taken(o.name)
     THEN NothingToDo(t) /\ UNCHANGED <<by_key, by_name>>
     ELSE /\ by_key'  = [by_key EXCEPT ![o.new] = o.name]
          /\ by_name' = [by_name EXCEPT ![o.name] = o.new]
          /\ Saved(t, o) /\ UNCHANGED history

ApplyDelete(t) ==
  LET o == op[t]
      k == by_name[o.name] IN
  /\ o.kind = "delete" /\ UnderBothLocks(t, "second")
  /\ IF k = None
     THEN NothingToDo(t) /\ UNCHANGED <<by_key, by_name>>
     ELSE /\ by_key'  = [by_key EXCEPT ![k] = None]
          /\ by_name' = [by_name EXCEPT ![o.name] = None]
          \* new: what by_key held, for the undo
          /\ Saved(t, [o EXCEPT !.old = k, !.new = by_key[k]]) /\ UNCHANGED history

ApplyRotate(t) ==
  LET o == op[t] IN
  /\ o.kind = "rotate" /\ UnderBothLocks(t, "second")
  /\ IF by_key[o.old] = None
     THEN NothingToDo(t) /\ UNCHANGED <<by_key, by_name>>
     ELSE /\ by_key'  = [by_key EXCEPT ![o.old] = None, ![o.new] = by_key[o.old]]
          /\ by_name' = [by_name EXCEPT ![o.name] = o.new]
          /\ Saved(t, o) /\ UNCHANGED history

-----------------------------------------------------------------------------
(* save(), and the undo when it fails.                                     *)

Snapshot(t) ==
  /\ At(t, "snapshot") /\ Unlocked("by_key")
  /\ op' = [op EXCEPT ![t].pc = "open", ![t].snap = Listed]
  /\ UNCHANGED <<by_key, by_name, lock, file, persistent, nextKey, restarts, history>>

\* Opening the file truncates it: an empty file is not JSON.
OpenedAsIs == [file EXCEPT !.whole = FALSE]
Opened     == [whole |-> FALSE, rows |-> {}, length |-> 0]

Truncate(t) ==
  /\ At(t, "open") /\ Go(t, "write")
  /\ file' = Opened
  /\ UNCHANGED <<by_key, by_name, lock, persistent, nextKey, restarts, history>>

\* Each writer starts at the beginning: what is longer shows behind it.  A list
\* of tenants is as long as it has entries, and never empty as a file.
Overwrite(rows) ==
  LET n == Cardinality(rows) + 1 IN
  file' = IF file.length > n
          THEN [whole |-> FALSE, rows |-> {}, length |-> file.length]
          ELSE [whole |-> TRUE, rows |-> rows, length |-> n]

Write(t) ==
  /\ At(t, "write")
  /\ Overwrite(op[t].snap)
  /\ op' = [op EXCEPT ![t] = Idle]
  /\ quiet' = op[t].solo
  /\ UNCHANGED <<by_key, by_name, lock, persistent, nextKey, restarts, mixed>>

SaveFails(t) ==
  /\ Faults
  /\ At(t, "open") \/ At(t, "write")
  /\ Go(t, "undo")
  /\ UNCHANGED <<by_key, by_name, lock, file, persistent, nextKey, restarts, history>>

KeepNewKey(o) == o.kind = "create"
DropsNewKey(o) == o.kind \in {"create", "rotate"}

Undo(t) ==
  LET o == op[t] IN
  /\ UnderBothLocks(t, "undo second")
  /\ by_key' = [k \in Keys |->
       CASE k = o.new /\ DropsNewKey(o)            -> None
         [] k = o.old /\ o.kind = "rotate"         -> o.name
         [] k = o.old /\ o.kind = "delete"         -> IF o.new = None THEN by_key[k] ELSE o.new
         [] OTHER                                  -> by_key[k]]
  /\ by_name' = [by_name EXCEPT ![o.name] = o.old]
  /\ op' = [op EXCEPT ![t] = Idle]
  /\ mixed' = IF o.alone THEN mixed ELSE mixed \cup {o.name}
  /\ UNCHANGED quiet

-----------------------------------------------------------------------------
\* The process stops at any moment and loads the file.  If it cannot be parsed
\* the server starts with TenantStore::empty(), which never saves.
Restart ==
  /\ restarts < MaxRestarts
  /\ restarts' = restarts + 1
  /\ persistent' = file.whole
  /\ by_key' = [k \in Keys |->
       IF \E n \in Names : <<k, n>> \in file.rows
       THEN CHOOSE n \in Names : <<k, n>> \in file.rows ELSE None]
  /\ by_name' \in [Names -> Keys \cup {None}]
  /\ \A n \in Names :
       LET ks == {k \in Keys : <<k, n>> \in file.rows}
       IN  by_name'[n] \in (IF ks = {} THEN {None} ELSE ks)
  /\ lock' = [m \in Maps |-> None]
  /\ op' = [t \in Tasks |-> Idle]
  /\ UNCHANGED <<file, nextKey, history>>

Call(t) ==
  \/ Peek(t) \/ TakeFirstLock(t) \/ ApplyCreate(t) \/ ApplyDelete(t) \/ ApplyRotate(t)
  \/ Snapshot(t) \/ Truncate(t) \/ Write(t) \/ Undo(t)

Next ==
  \/ Restart
  \/ \E t \in Tasks :
       \/ Call(t) \/ SaveFails(t)
       \/ \E kind \in {"create", "delete", "rotate"}, n \in Names : Begin(t, kind, n)

Spec == Init /\ [][Next]_vars

-----------------------------------------------------------------------------
(* Properties *)

\* The two maps are inverse to each other, so a tenant has at most one key and
\* every key that authenticates can be deleted and rotated: whatever calls race
\* and whatever saves fail, except on a name where a failed call was undone
\* over the work of another.
MapsAgree ==
  \A n \in Names \ mixed :
    {k \in Keys : by_key[k] = n} = {by_name[n]} \ {None}

\* After a call that overlapped no other and whose save wrote the file, the file has
\* exactly the tenants of the maps, and a restart brings them all back.  A save of
\* TenantStore::empty() writes none and succeeds.
QuietCallIsDurable ==
  quiet => file.whole /\ file.rows = Listed

\* The comments on lock order at tenants.rs:77 and 98: calls never all wait for
\* locks that the others hold.
SomeCallGoesOn ==
  (\E t \in Tasks : ~ At(t, "idle")) => \E t \in Tasks : ENABLED Call(t)
=============================================================================
