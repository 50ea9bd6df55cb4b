----------------------------- MODULE TextIndex -----------------------------
(***************************************************************************)
(* What Bm25Index promises its callers: a set of documents, one per        *)
(* product, and searches that each see the set as it is at one moment.     *)
(***************************************************************************)
CONSTANTS
  Ids,      \* product ids
  Words,    \* the words a text is made of
  Threads   \* who searches

Texts == SUBSET Words

VARIABLES
  docs,     \* the documents: pairs <<id, text>>
  answers   \* answers[t]: the query and the hits of the latest search of t

Init ==
  /\ docs = {}
  /\ answers = [t \in Threads |-> <<>>]

Upsert(id, text) ==
  /\ docs' = {x \in docs : x[1] # id} \cup {<<id, text>>}
  /\ UNCHANGED answers

Remove(id) ==
  /\ docs' = {x \in docs : x[1] # id}
  /\ UNCHANGED answers

Search(t, q) ==
  /\ answers' = [answers EXCEPT ![t] = <<q, {x \in docs : q \in x[2]}>>]
  /\ UNCHANGED docs

Next ==
  \/ \E id \in Ids : Remove(id) \/ \E text \in Texts : Upsert(id, text)
  \/ \E t \in Threads, q \in Words : Search(t, q)

Spec == Init /\ [][Next]_<<docs, answers>>
=============================================================================
