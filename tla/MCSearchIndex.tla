--------------------------- MODULE MCSearchIndex ---------------------------
(* Instances of SearchIndex for TLC. *)
EXTENDS SearchIndex, TLC

CONSTANTS h1, h2

Scene(serves1, serves2, puts, webhooks, crashes) ==
    [serves |-> (h1 :> serves1) @@ (h2 :> serves2),
     changes |-> puts, events |-> webhooks, restarts |-> crashes]

\* One thread serves everything; one rebuilds while the other serves webhooks.
Scenes == {Scene(Routes, {}, 2, 1, 1), Scene({"reindex"}, {"index_event"}, 2, 1, 1)}

BatchAndHook == {Scene({"reindex"}, {"index_event"}, 3, 2, 0)}
Alone == {Scene({"reindex"}, {}, 1, 0, 0)}
BatchAndSearch == {Scene({"reindex"}, {"search"}, 2, 0, 0)}
=============================================================================
