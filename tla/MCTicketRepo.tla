---------------------------- MODULE MCTicketRepo ----------------------------
(* Instances of TicketRepo for TLC. *)
EXTENDS TicketRepo, TLC

CONSTANTS h1, h2, h3, ann, bob, t1

\* A ticket has versions; what comments and attachments say is never compared.
VersionedTickets ==
    [store \in Stores |-> IF store = "ticket" THEN {"x", "y"} ELSE {"x"}]

Threads == Permutations(Handlers)
=============================================================================
