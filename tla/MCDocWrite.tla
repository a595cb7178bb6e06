----------------------------- MODULE MCDocWrite -----------------------------
(* Instances of DocWrite for TLC. *)
EXTENDS DocWrite, TLC

CONSTANTS h1, h2, ann, bob, a, b

\* Every thread serves everything.
AnyThread == [h \in Handlers |-> Requests]

\* One thread writes, the other only reads.
OneWriter == (h1 :> {"read", "write"}) @@ (h2 :> {"read"})

Alike == Permutations(Editors) \cup Permutations(Ids)
=============================================================================
