---------------------------- MODULE MCTicketDesk ----------------------------
(* Instances of TicketDesk for TLC. *)
EXTENDS TicketDesk, TLC

CONSTANTS h1, h2, agent, customer, visitor, t1, t2

\* One thread of the pool changes records, the other only comments and reads.
\* (Operations that put a record of an existing ticket are on h1.)
OneMutator ==
    (h1 :> Ops) @@ (h2 :> {"reply_to_ticket", "link_from_slack",
                           "get_comments", "community_search"})

\* Every thread serves everything.
AnyThread == [h \in Handlers |-> Ops]

\* Threads that only move tickets through their lifecycle.
LifecycleOnly == [h \in Handlers |-> {"transition", "promote"}]

\* One thread captures from Slack while the other works on tickets.
CaptureAndWork == (h1 :> {"capture_from_slack"}) @@ (h2 :> {"transition"})

\* One thread files tickets, the other replies and reads.
FileAndReply == (h1 :> {"create", "transition"})
                @@ (h2 :> {"reply_to_ticket", "get_comments"})

\* Threads are alike, and so are the principals who are neither agents nor known
\* to the initial tickets.
Alike == Permutations({h1, h2}) \cup Permutations({customer, visitor})

Empty == [t \in TicketIds |-> None]

\* t1 is on disk at start-up, as the repository's clone brings it.
Seeded ==
    [t \in TicketIds |->
        IF t = t1 THEN [NewTicket(customer, FALSE) EXCEPT !.assignee = visitor] ELSE None]

\* The same, born encrypted.
SeededEncrypted ==
    [t \in TicketIds |-> IF t = t1 THEN NewTicket(customer, TRUE) ELSE None]
=============================================================================
