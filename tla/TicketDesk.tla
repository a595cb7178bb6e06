----------------------------- MODULE TicketDesk -----------------------------
(***************************************************************************)
(* The service desk: TicketService over its ticket store, comment store    *)
(* and ticket authority, called by the gateway's ticket routes.            *)
(*                                                                         *)
(* Every route is a plain `def`, so FastAPI runs it on a thread of its     *)
(* pool: handlers interleave between any two calls they make to a store.   *)
(* A handler here is a thread; its job is the request it is serving, and   *)
(* each action is one store call with the code around it.  A ticket is     *)
(* loaded whole, changed in the handler, and put back whole.               *)
(*                                                                         *)
(* GitStore selects the store: FALSE is TicketStore (a dictionary, put is  *)
(* atomic); TRUE is GitBackedTicketStore, whose put takes a lock, rewrites *)
(* the file (reads between truncation and write find a malformed file and  *)
(* skip it), commits, and may raise when the commit fails.                 *)
(***************************************************************************)
EXTENDS Naturals, Sequences, FiniteSets, SequencesExt

CONSTANTS
    Handlers,        \* threads of the pool
    Serves,          \* Serves[h]: the operations thread h is given
    Principals,      \* authenticated principals (opaque ids for externals)
    Agents,          \* desk-repo members
    TicketIds,       \* ids a ticket may get
    InitialTickets,  \* what the store holds at start-up, None where absent
    MaxThread,       \* bound: longest thread (guards only)
    GitStore,        \* which store is configured
    GrantMayFail,    \* whether an OpenFGA write may raise
    None             \* Python's None

Statuses == {"open", "resolved", "closed"}

\* The operations; the reads matter because they take two store calls.
Ops == {"create", "capture_from_slack", "link_from_slack", "reply_to_ticket",
        "transition", "promote", "get_comments", "community_search"}

Commenting == {"create", "capture_from_slack", "link_from_slack", "reply_to_ticket"}

\* A stored comment: who wrote it, and whether its body is ciphertext.
Comment == [author : Principals, encrypted : BOOLEAN]

Ticket ==
    [requester : Principals, status : Statuses, assignee : Principals \cup {None},
     community_visible : BOOLEAN, captured_by : Principals \cup {None},
     encrypted : BOOLEAN, community_snapshot : Seq(Comment) \cup {None}]

\* Where a handler stands between two store calls.
Steps == {"insert", "grant", "stamp", "seal", "append",
          "curate", "save", "show_snapshot", "show_thread", "respond"}

\* A step at which the next store call is TicketStore.put.
PutSteps == {"insert", "stamp", "save"}

Job ==
    [op : Ops, step : Steps, by : Principals, id : TicketIds,
     ticket : Ticket \cup {None},     \* the handler's copy of the record
     comment : Comment \cup {None},   \* the comment about to be appended
     shown : Seq(Comment)]            \* what the response carries

ASSUME DeskAssumption ==
    /\ Agents \subseteq Principals
    /\ Serves \in [Handlers -> SUBSET Ops]
    /\ MaxThread \in Nat \ {0}
    /\ GitStore \in BOOLEAN /\ GrantMayFail \in BOOLEAN
    /\ None \notin Handlers /\ None \notin Seq(Comment)
    /\ None \notin Ticket /\ None \notin Statuses
    /\ InitialTickets \in [TicketIds -> Ticket \cup {None}]
    /\ \A t \in TicketIds : InitialTickets[t] # None =>
           /\ InitialTickets[t].status = "open"
           /\ ~InitialTickets[t].community_visible
           /\ InitialTickets[t].community_snapshot = None

VARIABLES
    tickets,   \* the store: tickets[t] is a record or None
    comments,  \* comments[t]: the thread, in append order
    viewers,   \* viewers[t]: users holding a relation tuple on t (OpenFGA)
    job,       \* job[h]: the request thread h serves, None when it is free
    writer,    \* the handler inside GitBackedTicketStore's lock, or None
    curatedAt  \* history: curatedAt[t] holds the lengths of the thread at
               \* which some promotion read it

vars == <<tickets, comments, viewers, job, writer, curatedAt>>

Init ==
    /\ tickets = InitialTickets
    /\ comments = [t \in TicketIds |-> <<>>]
    /\ viewers = [t \in TicketIds |->
           IF InitialTickets[t] = None THEN {} ELSE {InitialTickets[t].requester}]
    /\ job = [h \in Handlers |-> None]
    /\ writer = None
    /\ curatedAt = [t \in TicketIds |-> {}]
-----------------------------------------------------------------------------
(* The store and the authority. *)

At(h, step) == job[h] # None /\ job[h].step = step

\* write_text has truncated the file and not yet written it.
Torn(t) == \E h \in Handlers : writer = h /\ job[h] # None /\ job[h].id = t

\* store.get: a malformed file is skipped, as if the ticket were not there.
Get(t) == IF Torn(t) THEN None ELSE tickets[t]

\* What a put leaves to be read: the Git store reads an empty snapshot list
\* back as no snapshot.
Stored(record) ==
    IF GitStore /\ record.community_snapshot = <<>>
    THEN [record EXCEPT !.community_snapshot = None]
    ELSE record

CanRead(p, t, record) ==
    p \in Agents \/ record.community_visible \/ p \in viewers[t]

CanSeeIdentity(p, t, record) ==
    p \in Agents \/ p = record.requester \/ p \in viewers[t]

MayWork(p, record) == p \in Agents \/ p = record.assignee

LEGAL ==
    {<<"open", "resolved">>, <<"resolved", "closed">>,
     <<"resolved", "open">>, <<"closed", "open">>}

\* Slip: a status outside the three of TicketStatus.
NewTicketNew(requester, encrypted) ==
    [requester |-> requester, status |-> "new", assignee |-> None,
     community_visible |-> FALSE, captured_by |-> None,
     encrypted |-> encrypted, community_snapshot |-> None]

NewTicket(requester, encrypted) ==
    [requester |-> requester, status |-> "open", assignee |-> None,
     community_visible |-> FALSE, captured_by |-> None,
     encrypted |-> encrypted, community_snapshot |-> None]

\* Slip: reopening keeps the ticket public.
MovedPublic(record, target) == [record EXCEPT !.status = target]

\* The copy transition puts back: reopening a public ticket makes it private and
\* drops its snapshot.
Moved(record, target) ==
    LET stays == record.community_visible /\ target # "open"
    IN  [record EXCEPT
            !.status = target,
            !.community_visible = stays,
            !.community_snapshot =
                IF record.community_visible /\ ~stays THEN None ELSE @]

\* Slip: any unencrypted ticket may be promoted.
PromotableInAnyStatus(record) == ~record.encrypted

\* G11-01 and INV-LC-2: only a resolved, unencrypted ticket.
Promotable(record) == record.status = "resolved" /\ ~record.encrypted

\* Slip: every reader of the comments is given the live thread.
ReadLive(p, t) == "show_thread"

\* A reader who sees the ticket only because it is community-visible is sent to
\* the snapshot, a participant to the thread.
ReadRoute(p, t) ==
    IF tickets[t].community_visible /\ ~CanSeeIdentity(p, t, tickets[t])
    THEN "show_snapshot" ELSE "show_thread"

\* The comment _store_comment stores: it reads the ticket to decide whether to
\* encrypt, and a ticket it cannot read counts as unencrypted.
SealedComment(author, t) ==
    [author |-> author, encrypted |-> Get(t) # None /\ Get(t).encrypted]

\* Slip: the thread is returned as stored.
Undecrypted(t) == comments[t]

\* What read_comments returns: bodies decrypted with the requester's key, unless
\* the ticket cannot be read any more.
Decrypted(t) ==
    [i \in 1..Len(comments[t]) |->
        [author |-> comments[t][i].author,
         encrypted |-> comments[t][i].encrypted /\ Get(t) = None]]

\* Bound: comments already in the thread or on their way stay below MaxThread.
RoomIn(t) ==
    Len(comments[t])
      + Cardinality({h \in Handlers : job[h] # None /\ job[h].id = t
                                      /\ job[h].op \in Commenting}) < MaxThread
-----------------------------------------------------------------------------
(* Requests arrive. *)

Start(h, op, step, by, t, record) ==
    /\ job[h] = None
    /\ op \in Serves[h]
    /\ job' = [job EXCEPT ![h] =
           [op |-> op, step |-> step, by |-> by, id |-> t,
            ticket |-> record, comment |-> None, shown |-> <<>>]]
    /\ UNCHANGED <<tickets, comments, viewers, writer, curatedAt>>

\* Slip: ids numbered from the tickets stored, so two creates may pick the same.
FreshInStore(t) == tickets[t] = None

\* uuid4: an id no ticket has and no other create is about to use.
Fresh(t) ==
    /\ tickets[t] = None
    /\ \A h \in Handlers : job[h] # None => job[h].id # t

\* POST /tickets: only an agent files for somebody else.
BeginCreate(h) ==
    \E by \in Principals, t \in TicketIds, encrypted \in BOOLEAN :
        \E requester \in IF by \in Agents THEN Principals ELSE {by} :
            /\ Fresh(t)
            /\ Start(h, "create", "insert", by, t, NewTicket(requester, encrypted))

\* POST /slack/capture: the requester is the author of the message, whoever
\* reacted to it.
BeginCapture(h) ==
    \E reactor, author \in Principals, t \in TicketIds :
        /\ Fresh(t)
        /\ Start(h, "capture_from_slack", "insert", reactor, t,
                 NewTicket(author, FALSE))

\* POST /slack/link-ticket.
BeginLink(h) ==
    \E reactor \in Principals, t \in TicketIds :
        /\ Get(t) # None
        /\ CanRead(reactor, t, tickets[t])
        /\ RoomIn(t)
        /\ Start(h, "link_from_slack", "seal", reactor, t, None)

\* POST /tickets/{id}/comments: participants only.
BeginReply(h) ==
    \E by \in Principals, t \in TicketIds :
        /\ Get(t) # None
        /\ CanSeeIdentity(by, t, tickets[t])
        /\ RoomIn(t)
        /\ Start(h, "reply_to_ticket", "seal", by, t, None)

\* TicketService.transition up to the put.
BeginTransition(h) ==
    \E by \in Principals, t \in TicketIds, target \in Statuses :
        /\ Get(t) # None
        /\ MayWork(by, tickets[t])
        /\ <<tickets[t].status, target>> \in LEGAL
        /\ Start(h, "transition", "save", by, t, Moved(tickets[t], target))

\* promote_community_visible up to the reading of the thread.
BeginPromote(h) ==
    \E by \in Agents, t \in TicketIds :
        /\ Get(t) # None
        /\ Promotable(tickets[t])
        /\ Start(h, "promote", "curate", by, t, tickets[t])

\* GET /tickets/{id}/comments, up to the choice of what to answer from.
BeginRead(h) ==
    \E by \in Principals, t \in TicketIds :
        /\ Get(t) # None
        /\ CanRead(by, t, tickets[t])
        /\ Start(h, "get_comments", ReadRoute(by, t), by, t, None)

\* GET /community/search, as it treats one ticket of store.all().
BeginSearch(h) ==
    \E by \in Principals, t \in TicketIds :
        /\ Get(t) # None
        /\ tickets[t].community_visible
        /\ ~tickets[t].encrypted
        /\ Start(h, "community_search", "show_snapshot", by, t, None)
-----------------------------------------------------------------------------
(* The steps of a request. *)

Goto(h, step) == job' = [job EXCEPT ![h].step = step]

Finish(h) == job' = [job EXCEPT ![h] = None]

\* Under GitStore a put first takes the lock and truncates the file.
OpenForWrite(h) ==
    /\ GitStore
    /\ job[h] # None /\ job[h].step \in PutSteps
    /\ writer = None
    /\ writer' = h
    /\ UNCHANGED <<tickets, comments, viewers, job, curatedAt>>

\* store.put(job[h].ticket): the record replaces whatever is there.
Put(h) ==
    /\ GitStore => writer = h
    /\ writer' = None
    /\ tickets' = [tickets EXCEPT ![job[h].id] = Stored(job[h].ticket)]
    /\ UNCHANGED <<comments, viewers, curatedAt>>

\* The put of TicketService.create.
Insert(h) == At(h, "insert") /\ Put(h) /\ Goto(h, "grant")

\* The second put of a Slack capture.
Stamp(h) == At(h, "stamp") /\ Put(h) /\ Goto(h, "seal")

\* The put of a transition or a promotion; the response follows.
Save(h) == At(h, "save") /\ Put(h) /\ Finish(h)

\* Slip: a failing commit leaves without releasing the lock.
CommitFailsLocked(h) ==
    /\ GitStore
    /\ job[h] # None /\ job[h].step \in PutSteps
    /\ writer = h
    /\ tickets' = [tickets EXCEPT ![job[h].id] = Stored(job[h].ticket)]
    /\ Finish(h)
    /\ UNCHANGED <<comments, viewers, writer, curatedAt>>

\* git commit fails after the file was rewritten: put raises, the request ends
\* in an error, the file stays.
CommitFails(h) ==
    /\ GitStore
    /\ job[h] # None /\ job[h].step \in PutSteps
    /\ Put(h)
    /\ Finish(h)

\* authority.grant, then: a capture stamps its copy of the record with the
\* capturer, a create with a description stores it, one without is done.
Grant(h) ==
    /\ At(h, "grant")
    /\ viewers' = [viewers EXCEPT ![job[h].id] = @ \cup {job[h].ticket.requester}]
    /\ \/ /\ job[h].op = "capture_from_slack"
          /\ job' = [job EXCEPT ![h].step = "stamp",
                                ![h].ticket.captured_by = job[h].by]
       \/ job[h].op = "create" /\ Goto(h, "seal")
       \/ job[h].op = "create" /\ Finish(h)
    /\ UNCHANGED <<tickets, comments, writer, curatedAt>>

\* OpenFGA refuses or cannot be reached: the exception ends the request.
GrantFails(h) ==
    /\ GrantMayFail
    /\ At(h, "grant")
    /\ Finish(h)
    /\ UNCHANGED <<tickets, comments, viewers, writer, curatedAt>>

\* _store_comment up to comments.add.
Seal(h) ==
    /\ At(h, "seal")
    /\ job' = [job EXCEPT ![h].step = "append",
                          ![h].comment = SealedComment(job[h].by, job[h].id)]
    /\ UNCHANGED <<tickets, comments, viewers, writer, curatedAt>>

\* Slip: the newest comment comes first.
AppendNewestFirst(h) ==
    /\ At(h, "append")
    /\ comments' = [comments EXCEPT ![job[h].id] = <<job[h].comment>> \o @]
    /\ Finish(h)
    /\ UNCHANGED <<tickets, viewers, writer, curatedAt>>

\* comments.add.
AppendComment(h) ==
    /\ At(h, "append")
    /\ comments' = [comments EXCEPT ![job[h].id] = Append(@, job[h].comment)]
    /\ Finish(h)
    /\ UNCHANGED <<tickets, viewers, writer, curatedAt>>

\* The promoter reads the thread and freezes it in its copy of the record.
Curate(h) ==
    /\ At(h, "curate")
    /\ job' = [job EXCEPT ![h].step = "save",
                          ![h].ticket.community_visible = TRUE,
                          ![h].ticket.community_snapshot = comments[job[h].id]]
    /\ curatedAt' = [curatedAt EXCEPT ![job[h].id] = @ \cup {Len(comments[job[h].id])}]
    /\ UNCHANGED <<tickets, comments, viewers, writer>>

Show(h, what) ==
    /\ job' = [job EXCEPT ![h].step = "respond", ![h].shown = what]
    /\ UNCHANGED <<tickets, comments, viewers, writer, curatedAt>>

\* community_snapshot(id): the ticket is read again.
ShowSnapshot(h) ==
    LET record == Get(job[h].id)
    IN  /\ At(h, "show_snapshot")
        /\ Show(h, IF record = None \/ record.community_snapshot = None
                   THEN <<>> ELSE record.community_snapshot)

\* read_comments(id): the ticket is read again for its requester's key.
ShowThread(h) ==
    /\ At(h, "show_thread")
    /\ Show(h, Decrypted(job[h].id))

Respond(h) ==
    /\ At(h, "respond")
    /\ Finish(h)
    /\ UNCHANGED <<tickets, comments, viewers, writer, curatedAt>>
-----------------------------------------------------------------------------
Arrive(h) ==
    \/ BeginCreate(h) \/ BeginCapture(h) \/ BeginLink(h) \/ BeginReply(h)
    \/ BeginTransition(h) \/ BeginPromote(h) \/ BeginRead(h) \/ BeginSearch(h)

Advance(h) ==
    \/ OpenForWrite(h) \/ Insert(h) \/ Stamp(h) \/ Save(h) \/ CommitFails(h)
    \/ Grant(h) \/ GrantFails(h) \/ Seal(h) \/ AppendComment(h) \/ Curate(h)
    \/ ShowSnapshot(h) \/ ShowThread(h) \/ Respond(h)

Next == \E h \in Handlers : Arrive(h) \/ Advance(h)

Spec == Init /\ [][Next]_vars

\* A thread the interpreter runs goes on with its request; nobody has to send
\* requests, and a thread waiting for the lock may wait while others get it.
Fairness == \A h \in Handlers : WF_vars(Advance(h))

FairSpec == Spec /\ Fairness
-----------------------------------------------------------------------------
(* What holds however the threads interleave. *)

\* Type invariant of the desk's stores and of the handlers' jobs.
TypeOK ==
    /\ tickets \in [TicketIds -> Ticket \cup {None}]
    /\ comments \in [TicketIds -> Seq(Comment)]
    /\ viewers \in [TicketIds -> SUBSET Principals]
    /\ job \in [Handlers -> Job \cup {None}]
    /\ writer \in Handlers \cup {None}
    /\ curatedAt \in [TicketIds -> SUBSET Nat]

\* A record no handler may leave behind: a public ticket is resolved or closed
\* and was never encrypted, and a snapshot is kept only while it is public.
Curated(record) ==
    /\ record.community_visible => record.status # "open" /\ ~record.encrypted
    /\ record.community_snapshot # None => record.community_visible
    /\ record.community_visible /\ ~GitStore => record.community_snapshot # None

\* INV-LC-2 and G11-01 as far as one stored record can show them, although
\* transition, promote and capture put back copies loaded earlier: no
\* interleaving mixes two records into an open, encrypted or stale-snapshot
\* public ticket.
RecordConsistent ==
    \A t \in TicketIds : tickets[t] # None => Curated(tickets[t])

\* s is the thread of t as some promotion read it (or nothing at all).
AsPromoted(s, t) ==
    /\ IsPrefix(s, comments[t])
    /\ Len(s) \in curatedAt[t] \cup {0}

\* The stored snapshot is the thread as a promoter read it: replies made while
\* the promotion ran, or after it, are not in it (promote_community_visible).
SnapshotAsPromoted ==
    \A t \in TicketIds :
        tickets[t] # None /\ tickets[t].community_snapshot # None
            => AsPromoted(tickets[t].community_snapshot, t)

\* Neither an agent, nor the requester, nor holder of a relation tuple.
Outsider(p, t) == tickets[t] # None /\ ~CanSeeIdentity(p, t, tickets[t])

\* INV-LC-2, from the reader's side: get_comments decides on one reading of
\* the ticket and answers from a second one, yet somebody who is no
\* participant is only ever handed a thread as it was promoted.
OutsiderSeesOnlyCurated ==
    \A h \in Handlers :
        At(h, "respond") /\ Outsider(job[h].by, job[h].id)
            => AsPromoted(job[h].shown, job[h].id)

\* INV-DP-3: encryption is decided when the ticket is created, so each body of
\* its thread is ciphertext exactly when the ticket is encrypted, although
\* _store_comment takes the decision from a reading of its own.
EncryptedAtRest ==
    \A t \in TicketIds : tickets[t] # None =>
        \A i \in 1..Len(comments[t]) :
            comments[t][i].encrypted = tickets[t].encrypted

\* read_comments decrypts what it returns: nobody is shown raw ciphertext.
CiphertextNeverShown ==
    \A h \in Handlers : At(h, "respond") =>
        \A i \in 1..Len(job[h].shown) : ~job[h].shown[i].encrypted

\* Bodies are sealed in the store and only there, whoever replies and reads meanwhile.
BodiesSealed == EncryptedAtRest /\ CiphertextNeverShown

\* A ticket is never lost, and requester and encryption stay what create made
\* them, although every put replaces the whole record by a handler's copy.
IdentityFixed ==
    [][\A t \in TicketIds : tickets[t] # None =>
           /\ tickets'[t] # None
           /\ tickets'[t].requester = tickets[t].requester
           /\ tickets'[t].encrypted = tickets[t].encrypted
           /\ tickets'[t].assignee = tickets[t].assignee]_vars

\* Every put lets go of the repository's lock, also when the commit fails.
LockReleased == writer # None ~> writer = None
-----------------------------------------------------------------------------
(* What the desk promises about a ticket. *)

\* What community_snapshot() would hand out; a private ticket hands out nothing.
CuratedOf(record) ==
    IF ~record.community_visible THEN None
    ELSE IF record.community_snapshot = None THEN <<>>
    ELSE record.community_snapshot

\* The abstract lifecycle, read off the desk's stores.
Lifecycle ==
    INSTANCE TicketLifecycle WITH
        Comments <- Comment,
        status <- [t \in TicketIds |->
            IF tickets[t] = None THEN None ELSE tickets[t].status],
        curated <- [t \in TicketIds |->
            IF tickets[t] = None THEN None ELSE CuratedOf(tickets[t])],
        discussion <- comments

\* While one thread at a time changes records, the desk keeps every promise of
\* TicketLifecycle (INV-LC-1, INV-LC-2), whatever the other threads read or add.
Implements == Lifecycle!Spec
-----------------------------------------------------------------------------
(* What the documents say, and what concurrent handlers do to it. *)

\* INV-LC-1: the status of a ticket only makes legal moves.
OnlyLegalMoves ==
    [][\A t \in TicketIds : tickets[t] # None /\ tickets'[t].status # tickets[t].status
           => <<tickets[t].status, tickets'[t].status>> \in LEGAL]_vars

\* INV-LC-2: a ticket becomes community-visible only when it is resolved; in
\* particular a reopened one stays private until it is resolved and promoted.
VisibleOnlyFromResolved ==
    [][\A t \in TicketIds :
           (tickets[t] # None /\ ~tickets[t].community_visible
                              /\ tickets'[t].community_visible)
               => tickets[t].status = "resolved"]_vars

\* INV-SLACK-1: the capturer of a ticket, once recorded, stays recorded.
CapturerKept ==
    [][\A t \in TicketIds : tickets[t] # None /\ tickets[t].captured_by # None
           => tickets'[t].captured_by = tickets[t].captured_by]_vars

\* I-01: once its create is over, the requester of a ticket can read it.
RequesterCanRead ==
    \A t \in TicketIds :
        tickets[t] # None /\ (\A h \in Handlers : job[h] # None => job[h].id # t)
            => CanRead(tickets[t].requester, t, tickets[t])
=============================================================================
