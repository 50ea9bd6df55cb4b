--------------------------- MODULE IndexRegistry ---------------------------
(***************************************************************************)
(* The registry of named indexes (vectoria-server/src/index_registry.rs)   *)
(* with the handlers that reach it: a map from names to engines behind one *)
(* lock, and one directory per index.  create() and delete() change the    *)
(* map and the directories in separate steps, without a lock over both;    *)
(* deleting a tenant takes its indexes along; a restart makes the map anew *)
(* from the directories it finds.                                          *)
(***************************************************************************)
EXTENDS Integers, FiniteSets, SequencesExt

CONSTANTS
  Names,       \* names that pass validate_index_name(), for the admin's indexes
  TenantNames, \* and for those of tenants
  Tenants,
  Admin,       \* the owner of the indexes without a tenant
  Default,     \* the name "default"
  TRoot,       \* the name "t", under which the tenants' directories are
  None,        \* an absent value
  Tasks,       \* concurrent requests
  Limit,       \* engines at most, the default one included (101)
  Faults,      \* may the file system and the storage engine fail?
  MaxRestarts  \* bound on the number of restarts

\* The key of an index is its owner and its name: "name", or "tenant/name".
DefaultKey == <<Admin, Default>>
Reserved   == <<Admin, TRoot>>
Keys       == ({Admin} \X (Names \cup {Default})) \cup (Tenants \X TenantNames)
Judged     == Keys \ {DefaultKey, Reserved}

PathOf(k) == IF k[1] = Admin THEN <<k[2]>> ELSE <<TRoot>> \o k
Paths     == {PathOf(k) : k \in Keys} \cup {<<TRoot>>}

ASSUME RegistryAssumption ==
  /\ Limit \in Nat \ {0} /\ MaxRestarts \in Nat /\ Faults \in BOOLEAN
  /\ Default \notin Names /\ Admin \notin Tenants /\ None \notin Names \cup TenantNames
  /\ Tasks # {} /\ IsFiniteSet(Tasks) /\ IsFiniteSet(Names \cup TenantNames) /\ IsFiniteSet(Tenants)

VARIABLES
  engines,  \* the keys of the map
  disk,     \* disk[p]: "none", or a directory that is "empty" or has "data"
  tenants,  \* the tenants of the tenant store
  op,       \* op[t]: the call task t is in
  restarts

\* History variables.
VARIABLES
  answered, \* answered[k]: what the calls on k have told, see Answers
  loose     \* tenants whose deletion was overtaken or broken off, or that a restart lost

history == <<answered, loose>>
vars == <<engines, disk, tenants, op, restarts, history>>

\* "unsure" from the first effect of a call on k until it succeeds alone; "swept"
\* when the deletion of "t" has taken the directory of a tenant's index along.
Answers == {"absent", "empty", "data", "swept", "unsure"}

\* key: what the call is about, <<tenant, None>> for a tenant's deletion; at: the
\* index it is busy with; alone: no call has overlapped it on the same
\* directories; prior: answered[at] before its first effect; stale: the engine it
\* holds has left the map.
Idle == [pc |-> "idle", kind |-> None, key |-> <<None, None>>, at |-> <<None, None>>,
         todo |-> {}, alone |-> FALSE, prior |-> "unsure", stale |-> FALSE]

Init ==
  /\ engines = {DefaultKey}
  /\ disk = [p \in Paths |-> "none"]
  /\ tenants = {}
  /\ op = [t \in Tasks |-> Idle]
  /\ restarts = 0
  /\ answered = [k \in Judged |-> "absent"]
  /\ loose = {}

-----------------------------------------------------------------------------
(* Requests come in.  The key is made from the principal, which has been   *)
(* resolved before the handler runs: a tenant may be deleted under it.     *)

At(t, pc) == op[t].pc = pc
Go(t, pc) == op' = [op EXCEPT ![t].pc = pc]
Return(t) == op' = [op EXCEPT ![t] = Idle]

Clash(a, b) ==
  \/ a = b
  \/ a[1] = b[1] /\ None \in {a[2], b[2]}
  \/ Reserved \in {a, b} /\ {a[1], b[1]} \cap Tenants # {}

Busy(w) == op[w].kind # "use"

Start(t, o) ==
  op' = [w \in Tasks |->
    IF w = t THEN [o EXCEPT !.alone = \A v \in Tasks : Busy(v) => ~ Clash(op[v].key, o.key)]
             ELSE [op[w] EXCEPT !.alone = @ /\ ~ Clash(op[w].key, o.key)]]

Authenticated(k) == k[1] = Admin \/ k[1] \in tenants

BeginCreate(t, k) ==
  /\ At(t, "idle") /\ Authenticated(k)
  /\ Start(t, [Idle EXCEPT !.pc = "check", !.kind = "create", !.key = k, !.at = k])
  /\ UNCHANGED <<engines, disk, tenants, restarts, history>>

\* The admin may name a tenant's index too.
BeginDelete(t, k) ==
  /\ At(t, "idle") /\ k # DefaultKey
  /\ Start(t, [Idle EXCEPT !.pc = "remove", !.kind = "delete", !.key = k, !.at = k])
  /\ UNCHANGED <<engines, disk, tenants, restarts, history>>

BeginDeleteTenant(t, n) ==
  /\ At(t, "idle")
  /\ Start(t, [Idle EXCEPT !.pc = "store", !.kind = "tenant", !.key = <<n, None>>])
  /\ UNCHANGED <<engines, disk, tenants, restarts, history>>

\* resolve(): the handler holds the engine from here on.
Resolve(t, k) ==
  /\ At(t, "idle") /\ k \in engines
  /\ op' = [op EXCEPT ![t] = [Idle EXCEPT !.pc = "use", !.kind = "use", !.at = k]]
  /\ UNCHANGED <<engines, disk, tenants, restarts, history>>

CreateTenant(n) ==
  /\ n \notin tenants
  /\ tenants' = tenants \cup {n}
  /\ UNCHANGED <<engines, disk, op, restarts, history>>

-----------------------------------------------------------------------------
(* IndexRegistry::create()                                                 *)

AtMostFull == Cardinality(engines) <= Limit
HasRoom    == Cardinality(engines) < Limit

\* Under the read lock, which is then released.
Check(t) ==
  /\ At(t, "check")
  /\ IF op[t].at \notin engines /\ HasRoom THEN Go(t, "mkdir") ELSE Return(t)
  /\ UNCHANGED <<engines, disk, tenants, restarts, history>>

Unsure(ks) == answered' = [k \in Judged |-> IF k \in ks THEN "unsure" ELSE answered[k]]
Answered(t) == IF op[t].at \in Judged THEN answered[op[t].at] ELSE "unsure"

\* create_dir_all() makes the directories above as well.
MakeDir(t) ==
  /\ At(t, "mkdir")
  /\ disk' = [p \in Paths |->
       IF IsPrefix(p, PathOf(op[t].at)) /\ disk[p] = "none" THEN "empty" ELSE disk[p]]
  /\ op' = [op EXCEPT ![t].pc = "open", ![t].prior = Answered(t)]
  /\ Unsure({op[t].at})
  /\ UNCHANGED <<engines, tenants, restarts, loose>>

\* Engine::open() takes the directory as it is.
Open(t) ==
  /\ At(t, "open")
  /\ disk[PathOf(op[t].at)] # "none"
  /\ Go(t, "insert")
  /\ UNCHANGED <<engines, disk, tenants, restarts, history>>

\* BuildFailed leaves the directory, which nothing in the map accounts for.
CreateFails(t) ==
  /\ Faults \/ (At(t, "open") /\ disk[PathOf(op[t].at)] = "none")
  /\ At(t, "mkdir") \/ At(t, "open")
  /\ Return(t)
  /\ loose' = IF At(t, "open") THEN loose \cup ({op[t].at[1]} \cap Tenants) ELSE loose
  /\ UNCHANGED <<engines, disk, tenants, restarts, answered>>

\* Under the write lock the name is checked again, the limit is not.
Insert(t) ==
  LET k == op[t].at IN
  /\ At(t, "insert")
  /\ engines' = engines \cup {k}
  /\ answered' = IF k \in Judged /\ k \notin engines /\ op[t].alone
                 THEN [answered EXCEPT ![k] = IF op[t].prior = "absent" THEN "empty"
                                              ELSE disk[PathOf(k)]]
                 ELSE answered
  /\ Return(t)
  /\ UNCHANGED <<disk, tenants, restarts, loose>>

-----------------------------------------------------------------------------
(* IndexRegistry::delete() and delete_by_prefix()                          *)

Under(p) == {q \in Paths : IsPrefix(p, q)}

\* Out of the map under the write lock; whoever holds the engine keeps it.
TakeOut(t, k, o) ==
  /\ engines' = engines \ {k}
  /\ op' = [w \in Tasks |-> IF w = t THEN o
                            ELSE [op[w] EXCEPT !.stale = @ \/ (At(w, "use") /\ op[w].at = k)]]
  /\ Unsure({k})

RemoveName(t) ==
  /\ At(t, "remove")
  /\ IF op[t].at \in engines
     THEN TakeOut(t, op[t].at, [op[t] EXCEPT !.pc = "rmdir"])
     ELSE Return(t) /\ UNCHANGED <<engines, answered>>
  /\ UNCHANGED <<disk, tenants, restarts, loose>>

AfterDelete(t) == IF op[t].kind = "tenant" THEN Go(t, "cascade") ELSE Return(t)

OwnFilesRemoved(p) == [q \in Paths |-> IF q = p /\ disk[q] = "data" THEN "empty" ELSE disk[q]]
\* Everything below the path goes, the directories above stay.
Removed(p) == [q \in Paths |-> IF q \in Under(p) THEN "none" ELSE disk[q]]

\* The engines of the indexes below stay in the map.
Swept(k) == {x \in Judged \ {k} : PathOf(x) \in Under(PathOf(k)) /\ answered[x] \in {"empty", "data"}}

RemoveDir(t) ==
  LET k == op[t].at IN
  /\ At(t, "rmdir")
  /\ disk' = Removed(PathOf(k))
  /\ answered' = [x \in Judged |-> IF x = k /\ op[t].alone THEN "absent"
                                   ELSE IF x \in Swept(k) THEN "swept" ELSE answered[x]]
  /\ AfterDelete(t)
  /\ UNCHANGED <<engines, tenants, restarts, loose>>

\* "let _ =": a failure is not reported.
RemoveDirFails(t) ==
  /\ Faults /\ At(t, "rmdir")
  /\ loose' = loose \cup ({op[t].at[1]} \cap Tenants)
  /\ AfterDelete(t)
  /\ UNCHANGED <<engines, disk, tenants, restarts, answered>>

\* delete_tenant(): the store first.
DeleteFromStore(t) ==
  LET n == op[t].key[1] IN
  /\ At(t, "store")
  /\ IF n \in tenants
     THEN /\ tenants' = tenants \ {n}
          /\ loose' = IF \E w \in Tasks : op[w].kind = "create" /\ op[w].key[1] = n
                      THEN loose \cup {n} ELSE loose
          /\ Go(t, "list")
     ELSE Return(t) /\ UNCHANGED <<tenants, loose>>
  /\ UNCHANGED <<engines, disk, restarts, answered>>

\* The prefix "{tenant}/" over the keys of the map, read once.
FlatNamed(n) == {k \in engines : k = <<Admin, n>>}
OwnedBy(n)   == {k \in engines : k[1] = n}

ListOwned(t) ==
  /\ At(t, "list")
  /\ op' = [op EXCEPT ![t].pc = "cascade", ![t].todo = OwnedBy(op[t].key[1])]
  /\ UNCHANGED <<engines, disk, tenants, restarts, history>>

CascadeNext(t) ==
  /\ At(t, "cascade")
  /\ \E k \in op[t].todo :
       LET o == [op[t] EXCEPT !.at = k, !.todo = @ \ {k}] IN
       IF k \in engines THEN TakeOut(t, k, [o EXCEPT !.pc = "rmdir"])
       ELSE op' = [op EXCEPT ![t] = o] /\ UNCHANGED <<engines, answered>>
  /\ UNCHANGED <<disk, tenants, restarts, loose>>

CascadeDone(t) ==
  /\ At(t, "cascade") /\ op[t].todo = {}
  /\ Return(t)
  /\ UNCHANGED <<engines, disk, tenants, restarts, history>>

-----------------------------------------------------------------------------
\* A product is written through an engine resolved before.  An engine out of the
\* map writes to files that are gone, or by path into the directory of its
\* successor: the storage library leaves it open.
Use(t) ==
  LET k == op[t].at
      p == PathOf(k)
      stale == op[t].stale
      lands == k # DefaultKey /\ disk[p] # "none" IN
  /\ At(t, "use")
  /\ \/ /\ lands
        /\ disk' = [disk EXCEPT ![p] = "data"]
        /\ IF stale THEN Unsure({k})
           ELSE answered' = IF k \in Judged /\ answered[k] = "empty"
                            THEN [answered EXCEPT ![k] = "data"] ELSE answered
     \/ (stale \/ ~ lands) /\ UNCHANGED <<disk, answered>>
  /\ op' = [w \in Tasks |-> IF w = t THEN Idle
                            ELSE [op[w] EXCEPT !.alone = @ /\ ~ (stale /\ Clash(op[w].key, k))]]
  /\ UNCHANGED <<engines, tenants, restarts, loose>>

\* load_persisted(): the entries of the data directory but "t", then those of
\* every t/{tenant}/.
OnDisk(owners) == {k \in Keys \ {Reserved, DefaultKey} : k[1] \in owners /\ disk[PathOf(k)] # "none"}

\* create() of one entry after the other, in the order of the directory: those
\* in failed do not build, the rest is loaded while there is room.
LoadedFrom(found, failed, before) ==
  {S \in SUBSET (found \ failed) :
     /\ Cardinality(S) + before <= Limit \/ S = {}
     /\ S = found \ failed \/ Cardinality(S) + before >= Limit}

\* An engine whose directory has been swept away is not made anew.
Forgotten(left) ==
  answered' = [k \in Judged |-> IF k \in left THEN "unsure"
                                ELSE IF answered[k] = "swept" THEN "absent" ELSE answered[k]]

\* The tenants are those of a file that may be behind (see TenantStore) or that does
\* not parse, and then there are none.  One that comes back with an old file is as
\* one created anew.
TenantsFound == SUBSET tenants

Restart ==
  /\ restarts < MaxRestarts
  /\ tenants' \in TenantsFound
  /\ restarts' = restarts + 1
  /\ \E failed \in (IF Faults THEN SUBSET (OnDisk({Admin} \cup Tenants)) ELSE {{}}) :
     \E flat \in LoadedFrom(OnDisk({Admin}), failed, 1) :
     \E owned \in LoadedFrom(OnDisk(Tenants), failed, 1 + Cardinality(flat)) :
       LET left == OnDisk({Admin} \cup Tenants) \ (flat \cup owned) IN
       /\ engines' = {DefaultKey} \cup flat \cup owned
       /\ \* it has failed, or there was no room
          Forgotten(IF failed = {} /\ Cardinality(engines') < Limit THEN {} ELSE left)
       /\ loose' = loose \cup (tenants \ tenants') \cup ({k[1] : k \in left} \cap Tenants)
                     \cup {n \in Tenants : \E t \in Tasks :
                             op[t].key[1] = n /\ (op[t].kind = "tenant" \/ At(t, "rmdir"))}
  /\ op' = [t \in Tasks |-> Idle]
  /\ UNCHANGED disk

-----------------------------------------------------------------------------
Call(t) ==
  \/ Check(t) \/ MakeDir(t) \/ Open(t) \/ CreateFails(t) \/ Insert(t)
  \/ RemoveName(t) \/ RemoveDir(t) \/ RemoveDirFails(t)
  \/ DeleteFromStore(t) \/ ListOwned(t) \/ CascadeNext(t) \/ CascadeDone(t)
  \/ Use(t)

Next ==
  \/ Restart
  \/ \E n \in Tenants : CreateTenant(n)
  \/ \E t \in Tasks :
       \/ Call(t)
       \/ \E k \in Keys : BeginCreate(t, k) \/ BeginDelete(t, k) \/ Resolve(t, k)
       \/ \E n \in Tenants : BeginDeleteTenant(t, n)

Spec == Init /\ [][Next]_vars

-----------------------------------------------------------------------------
(* Properties *)

\* The map and the directory of an index are what the latest call on it has
\* told, when no other call on the index overlapped it: a created index is
\* served from its own directory, which starts empty and keeps what was written
\* to it, over restarts too; a deleted one has gone from both, so that its
\* products do not come back with the name.  One call breaks this for indexes it is
\* not about: when the admin's index "t" is deleted, every tenant's index stays in
\* the map and is served without its directory until a restart, which has lost it.
OnDiskAs(answer)  == IF answer \in {"absent", "swept"} THEN "none" ELSE answer

ServedAsAnswered ==
  \A k \in Judged : answered[k] # "unsure" =>
    /\ disk[PathOf(k)] = OnDiskAs(answered[k])
    /\ k \in engines <=> answered[k] # "absent"

\* Deleting a tenant takes all its indexes along: none is served without its
\* tenant, except while the deletion is under way, or when a call of the tenant
\* overlapped it, a restart cut it off, a directory had been left behind, or a
\* restart has lost the tenant itself, whose directories it loads all the same.
NoOrphans ==
  \A k \in engines : k[1] \in Tenants \ tenants =>
    \/ k[1] \in loose
    \/ \E t \in Tasks : op[t].key = <<k[1], None>>

\* create() checks the limit under one lock and inserts under another: each
\* concurrent request but one can take the registry past it, and no more, counting
\* the requests that have passed the check and are still to insert.
Admitted == {t \in Tasks : op[t].pc \in {"mkdir", "open", "insert"}}

LimitHolds == Cardinality(engines) + Cardinality(Admitted) <= Limit + Cardinality(Tasks) - 1

\* "the index is persisted to disk via EdgeStore and survives server restarts"
\* (index_registry.rs:134-135): what is served before a restart is served after
\* it, as far as there is room.
IndexesSurvive ==
  [][ restarts' # restarts /\ Cardinality(engines') < Limit =>
      \A k \in engines : disk[PathOf(k)] # "none" => k \in engines' ]_vars
=============================================================================
