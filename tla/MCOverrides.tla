---------------------------- MODULE MCOverrides ----------------------------
(***************************************************************************)
(* Overrides for TLC.  One thing is looked into at a time: a cache that    *)
(* fills with three keys before the first override is made, what one key   *)
(* holds while two are made, and, where nothing is searched for, the       *)
(* duplicates that three pins can leave.                                   *)
(***************************************************************************)
EXTENDS Overrides, TLC

CONSTANTS g1, g2, g3

ThreePages == {g1, g2, g3}

ActorSymmetry == Permutations(Admins)

Searched == Cached \cup {search[s].key : s \in {s \in Searchers : search[s].pc # "idle"}}
Written  == UNION {op[a].puts : a \in Admins}

OneAtATime ==
  \/ nextId = 1
  \/ nextId <= 3 /\ (\A x \in Written : x.entry.id <= 2) /\ \A k \in Searched : k[2] = g1
  \/ Searched = {}
=============================================================================
