-------------------------- MODULE TicketLifecycle --------------------------
(***************************************************************************)
(* What the service desk promises about one ticket, whatever code keeps    *)
(* it: the legal moves of its status, and that the public only ever gets   *)
(* the thread as an agent curated it, never longer than the ticket stays   *)
(* resolved or closed.  TicketDesk implements this module (see             *)
(* TicketDesk!Implements).                                                 *)
(***************************************************************************)
EXTENDS Sequences, Naturals

CONSTANTS
    TicketIds,   \* ticket ids
    Comments,    \* what a thread is made of
    None         \* no status yet, nothing curated

VARIABLES
    status,      \* status[t]: None before the ticket exists
    curated,     \* curated[t]: the snapshot outsiders get, None while private
    discussion   \* discussion[t]: the whole thread, in order

lifecycleVars == <<status, curated, discussion>>

\* The legal set of lifecycle.py: open -> resolved -> closed, with reopen.
LEGAL ==
    {<<"open", "resolved">>, <<"resolved", "closed">>,
     <<"resolved", "open">>, <<"closed", "open">>}

Init ==
    /\ status \in [TicketIds -> {"open", None}]
    /\ curated = [t \in TicketIds |-> None]
    /\ discussion = [t \in TicketIds |-> <<>>]

\* A ticket is filed open and private.
File(t) ==
    /\ status[t] = None
    /\ status' = [status EXCEPT ![t] = "open"]
    /\ UNCHANGED <<curated, discussion>>

\* A legal move; reopening makes the ticket private and drops the snapshot.
Move(t, target) ==
    /\ <<status[t], target>> \in LEGAL
    /\ status' = [status EXCEPT ![t] = target]
    /\ curated' = IF target = "open" THEN [curated EXCEPT ![t] = None] ELSE curated
    /\ UNCHANGED discussion

\* Promotion freezes the thread as it stood when the promoter read it; what
\* was appended since is not part of it.
Promote(t) ==
    /\ status[t] = "resolved"
    /\ \E n \in 0..Len(discussion[t]) :
           curated' = [curated EXCEPT ![t] = SubSeq(discussion[t], 1, n)]
    /\ UNCHANGED <<status, discussion>>

\* A participant adds to the thread; the snapshot does not move.
Reply(t) ==
    /\ status[t] # None
    /\ \E c \in Comments :
           discussion' = [discussion EXCEPT ![t] = Append(@, c)]
    /\ UNCHANGED <<status, curated>>

Next ==
    \E t \in TicketIds :
        \/ File(t)
        \/ \E target \in {"open", "resolved", "closed"} : Move(t, target)
        \/ Promote(t)
        \/ Reply(t)

Spec == Init /\ [][Next]_lifecycleVars
=============================================================================
