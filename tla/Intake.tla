------------------------------- MODULE Intake -------------------------------
(***************************************************************************)
(* How tickets come in other than by a request for one: mail fetched by    *)
(* the poller and ingested (TicketService.ingest_email), and the migration *)
(* pipeline.  Both walk through a list, both create tickets with           *)
(* TicketService.create (put, then grant) and add what came with them as a *)
(* comment, and a call that raises ends the list where it is.  Either is   *)
(* then simply run again.                                                  *)
(*                                                                         *)
(* Tickets are looked up in the files of the Git store, and a file that is *)
(* truncated is skipped: one that another route's put is rewriting at the  *)
(* moment, and one whose put a crash cut.  A crash in the put of a new     *)
(* ticket, comment or document leaves a file nobody reads: as if none.     *)
(*                                                                         *)
(* Quarantine, id map, archive and the counter of e-mail tokens are in the *)
(* memory of the process; tickets, comments, tuples and documents are not. *)
(***************************************************************************)
EXTENDS Naturals, Sequences, FiniteSets

CONSTANTS
    Handlers,    \* threads: each serves a poller or whoever runs a migration
    Addresses,
    OpaqueId,    \* what IdentityDirectory.resolve yields for an address
    Mails,       \* messages, by Message-ID
    MailTickets, \* ids uuid4 may yield, numbered in the order of their file names
    Items,       \* Atlassian items
    Jira,        \* those that become tickets; the others become documents
    Marked,      \* those curated for migration
    Reporter,    \* Reporter[i]: address or None
    Unknown,     \* the requester of an item without a reporter
    MayFail,     \* <<operation, step>>: the calls that may raise
    Scenarios,   \* what one behaviour is about, chosen by Init
    None

Ops == {"mail", "migration"}
Steps == {"next", "route", "count", "store", "exists", "put", "grant", "append", "write", "record"}

\* An imported ticket's id is a function of its item, and so stands for it here.
Tickets == MailTickets \cup Jira
Principals == {OpaqueId[a] : a \in Addresses} \cup {Unknown, None}

Ticket == [requester : Principals, token : Nat, mid : Mails \cup {None}]
Comment == [author : Principals, content : Mails \cup Items]

\* A message is a first contact (to = None) or answers a ticket, by the Message-ID
\* in its headers or by the token in its subject.
Message == [to : {None}, by : {"header"}] \cup [to : MailTickets, by : {"header", "token"}]

Job == [op : Ops, step : Steps, todo : SUBSET (Mails \cup Items), at : Mails \cup Items \cup {None},
        requester : Principals, ticket : Tickets \cup {None}, seq : Nat]

\* The operations each thread is given; the address each message is from (None: its From
\* does not parse); the messages our mail infrastructure stamped dmarc=pass; whether the
\* gateway has a document store; and three bounds (guards only): on deliveries of a message
\* that was delivered before, on puts of other routes, and on restarts.
Scenario == [serves : [Handlers -> SUBSET Ops], from : [Mails -> Addresses \cup {None}],
             verified : SUBSET Mails, docWriter : BOOLEAN, redeliveries : Nat, rewrites : Nat,
             restarts : Nat]

ASSUME IntakeAssumption ==
    /\ Scenarios \subseteq Scenario
    /\ \A a, b \in Addresses : OpaqueId[a] = OpaqueId[b] => a = b
    /\ MailTickets \subseteq Nat /\ Jira \cup Marked \subseteq Items
    /\ Reporter \in [Items -> Addresses \cup {None}]
    /\ MayFail \subseteq Ops \X Steps
    /\ MailTickets \cap Jira = {} /\ Mails \cap Items = {}
    /\ None \notin Addresses \cup Mails \cup Items \cup Tickets \cup Ticket \cup Message \cup Job
    /\ \A a \in Addresses : OpaqueId[a] # None

VARIABLES
    scenario,  \* one of Scenarios; it never changes
    sent,      \* sent[m]: the message as its sender wrote it, None before
    inbox,     \* messages Graph has for the next fetch
    redelivered,
    tickets, comments, \* the ticket and comment store, by what was written last
    rewriting, \* the ticket whose file another route's put is rewriting, or None
    torn,      \* tickets whose file a crash left truncated
    rewrites,  \* puts of other routes so far
    viewers,   \* OpenFGA: <<principal, ticket>>
    email_seq, \* the service's counter
    held,      \* the quarantine
    docs,      \* docs[i]: where a document with i's id is: its own path, elsewhere
    idmap, archive, \* legacy keys mapped, items archived
    job, restarts,
    imported,  \* history: a migration has run to its end in this process
    raced,     \* history: two tickets' tokens were being counted at once
    missed,    \* history: what was looked up while a ticket's file it led to was unreadable
    half       \* history: items whose ticket was put, and a later call of create and
               \* add_comment never made: it raised, or the process died first

world == <<scenario, sent, inbox, redelivered>>
store == <<tickets, comments, viewers>>
memory == <<email_seq, held, idmap, archive>>
history == <<imported, raced, missed, half>>
files == <<rewriting, torn, rewrites>>
vars == <<world, store, files, memory, docs, job, restarts, history>>

Init ==
    /\ scenario \in Scenarios
    /\ sent = [m \in Mails |-> None] /\ inbox = {} /\ redelivered = 0
    /\ tickets = [t \in Tickets |-> None] /\ comments = [t \in Tickets |-> <<>>]
    /\ rewriting = None /\ torn = {} /\ rewrites = 0
    /\ viewers = {} /\ email_seq = 0 /\ held = {}
    /\ docs = [i \in Items \ Jira |-> {}] /\ idmap = {} /\ archive = {}
    /\ job = [h \in Handlers |-> None] /\ restarts = 0
    /\ imported = FALSE /\ raced = FALSE /\ missed = {} /\ half = {}
-----------------------------------------------------------------------------
(* The world: senders, Graph, and people moving documents. *)

\* Anybody writes a first contact, or answers a ticket that came by mail (where there
\* is a poller to fetch it).
Send(m) ==
    /\ sent[m] = None /\ \E h \in Handlers : "mail" \in scenario.serves[h]
    /\ \E msg \in Message :
           /\ msg.to # None => tickets[msg.to] # None
           /\ sent' = [sent EXCEPT ![m] = msg]
    /\ inbox' = inbox \cup {m}
    /\ UNCHANGED <<scenario, redelivered, store, files, memory, docs, job, restarts, history>>

\* Graph hands out a message a second time.
Redeliver(m) ==
    /\ sent[m] # None /\ m \notin inbox /\ redelivered < scenario.redeliveries
    /\ redelivered' = redelivered + 1
    /\ inbox' = inbox \cup {m}
    /\ UNCHANGED <<scenario, sent, store, files, memory, docs, job, restarts, history>>

\* An imported document is moved by a merge request; it keeps its id.
Move(i) ==
    /\ docs[i] = {"home"}
    /\ docs' = [docs EXCEPT ![i] = {"elsewhere"}]
    /\ UNCHANGED <<world, store, files, memory, job, restarts, history>>

\* A file that is truncated is skipped by every lookup.
Readable(t) == t # rewriting /\ t \notin torn

\* Another route (a status, an assignee, a promotion) puts a ticket it has read, under the
\* lock of the store: the file is truncated ...
Rewrite(t) ==
    /\ rewriting = None /\ tickets[t] # None /\ Readable(t)
    /\ rewrites < scenario.rewrites /\ rewrites' = rewrites + 1
    /\ rewriting' = t
    /\ UNCHANGED <<world, store, torn, memory, docs, job, restarts, history>>

\* ... and written; git may refuse it, the file is there. What is modelled of it stays.
Rewritten ==
    /\ rewriting # None
    /\ rewriting' = None
    /\ UNCHANGED <<world, store, torn, rewrites, memory, docs, job, restarts, history>>
-----------------------------------------------------------------------------
At(h, step) == job[h] # None /\ job[h].step = step

Finish(h) == job' = [job EXCEPT ![h] = None]

Goto(h, step) == job' = [job EXCEPT ![h].step = step]

Begin(h, op, list) ==
    /\ job[h] = None /\ op \in scenario.serves[h]
    /\ job' = [job EXCEPT ![h] = [op |-> op, step |-> "next", todo |-> list, at |-> None,
                                  requester |-> None, ticket |-> None, seq |-> 0]]

\* poll_once: everything Graph has is fetched.
BeginPoll(h) ==
    /\ Begin(h, "mail", inbox)
    /\ inbox' = {}
    /\ UNCHANGED <<scenario, sent, redelivered, store, files, memory, docs, restarts, history>>

\* POST /migration/run with every item.
BeginRun(h) ==
    /\ Begin(h, "migration", Items)
    /\ UNCHANGED <<world, store, files, memory, docs, restarts, history>>

\* The list is at its end; the request or the poll is answered.
Done(h) ==
    /\ At(h, "next") /\ job[h].todo = {}
    /\ imported' = (imported \/ job[h].op = "migration")
    /\ Finish(h)
    /\ UNCHANGED <<world, store, files, memory, docs, restarts, raced, missed, half>>

Taken(h, x, step) ==
    job' = [job EXCEPT ![h].at = x, ![h].step = step, ![h].todo = @ \ {x}]
-----------------------------------------------------------------------------
(* Mail. *)

Trusted(m) == m \in scenario.verified

From(m) == scenario.from[m]

\* Slip: the address itself is put on the ticket.
AddressOfSender(m) == IF Trusted(m) THEN From(m) ELSE None

\* dmarc_pass and poll_once: the sender is passed on only with a trusted verdict;
\* ingest_email resolves it.
Requester(m) ==
    IF Trusted(m) /\ From(m) # None THEN OpaqueId[From(m)] ELSE None

\* A message is posted to the gateway; one that it refuses (413, 503) makes the poller raise.
TakeMail(h) ==
    /\ At(h, "next") /\ job[h].op = "mail"
    /\ \E m \in job[h].todo : Taken(h, m, "route")
    /\ UNCHANGED <<world, store, files, memory, docs, restarts, history>>

\* The tickets a message's references, or its token, lead to.
LeadsTo(m) ==
    LET to == sent[m].to IN
    IF to = None THEN {}
    ELSE {t \in MailTickets : tickets[t] # None /\
              IF sent[m].by = "header" THEN tickets[t].mid = tickets[to].mid
              ELSE tickets[t].token = tickets[to].token}

\* by_message_id and by_token find those whose files can be read.
Matches(m) == {t \in LeadsTo(m) : Readable(t)}

Missed(m) == IF LeadsTo(m) = Matches(m) THEN {} ELSE {m}

\* _candidate: the Git store finds the first of them in the order of file names.
Candidate(m, t) ==
    IF Matches(m) = {} THEN t = None ELSE t \in Matches(m) /\ \A u \in Matches(m) : t <= u

\* Slip: whose ticket it is does not matter.
RouteAnyone(m, candidate) ==
    IF ~Trusted(m) THEN "quarantine"
    ELSE IF candidate = None THEN "new"
    ELSE "append"

Route(m, candidate) ==
    IF ~Trusted(m) THEN "quarantine"
    ELSE IF candidate = None THEN "new"
    ELSE IF Requester(m) # tickets[candidate].requester THEN "quarantine"
    ELSE "append"

\* Slip: the message is answered and not kept.
HoldNothing(m) == held

Hold(m) == held \cup {m}

Ingest(h) ==
    /\ At(h, "route")
    /\ \E candidate \in MailTickets \cup {None} :
           LET m == job[h].at IN
           /\ Candidate(m, candidate)
           /\ missed' = missed \cup Missed(m)
           /\ \/ /\ Route(m, candidate) = "quarantine"
                 /\ held' = Hold(m) /\ Goto(h, "next")
              \/ /\ Route(m, candidate) = "append"
                 /\ job' = [job EXCEPT ![h].ticket = candidate, ![h].step = "append",
                                       ![h].requester = Requester(m)]
                 /\ UNCHANGED held
              \/ /\ Route(m, candidate) = "new"
                 /\ job' = [job EXCEPT ![h].requester = Requester(m), ![h].step = "count"]
                 /\ UNCHANGED held
    /\ UNCHANGED <<world, store, files, email_seq, idmap, archive, docs, restarts, imported, raced, half>>

\* self._email_seq += 1: read ...
Count(h) ==
    /\ At(h, "count")
    /\ job' = [job EXCEPT ![h].seq = email_seq, ![h].step = "store"]
    /\ raced' = (raced \/ \E g \in Handlers \ {h} : At(g, "store") \/ (At(g, "put") /\ job[g].op = "mail"))
    /\ UNCHANGED <<world, store, files, memory, docs, restarts, imported, missed, half>>

\* Slip: the counter does not count.
Stuck(seq) == 1

NextSeq(seq) == seq + 1

\* ... and written back.
StoreSeq(h) ==
    /\ At(h, "store")
    /\ email_seq' = NextSeq(job[h].seq)
    /\ Goto(h, "put")
    /\ UNCHANGED <<world, store, files, held, idmap, archive, docs, restarts, history>>
-----------------------------------------------------------------------------
(* Migration. *)

\* What is not marked is archived, and so is a document with nowhere to go.
Migrates(i) == i \in Marked /\ (i \in Jira \/ scenario.docWriter)

TakeItem(h) ==
    /\ At(h, "next") /\ job[h].op = "migration"
    /\ \E i \in job[h].todo :
           IF Migrates(i)
           THEN Taken(h, i, IF i \in Jira THEN "exists" ELSE "write") /\ UNCHANGED archive
           ELSE Taken(h, i, "next") /\ archive' = archive \cup {i}
    /\ UNCHANGED <<world, store, files, email_seq, held, idmap, docs, restarts, history>>

ReporterOf(i) == IF Reporter[i] = None THEN Unknown ELSE OpaqueId[Reporter[i]]

\* The ticket with the item's id is there, and can be read.
Migrated(i) == tickets[i] # None /\ Readable(i)

\* Slip: an item that is there already is not mapped again.
SkipSilently(i) == "next"

AfterSkip(i) == "record"

\* exists(new_id): an item that is there is skipped, and its mapping repaired.
Exists(h) ==
    /\ At(h, "exists")
    /\ LET i == job[h].at IN
       /\ job' = [job EXCEPT ![h].step = IF Migrated(i) THEN AfterSkip(i) ELSE "put",
                             ![h].requester = ReporterOf(i)]
       /\ missed' = IF tickets[i] = None \/ Readable(i) THEN missed ELSE missed \cup {i}
    /\ UNCHANGED <<world, store, files, memory, docs, restarts, imported, raced, half>>

\* DocService.write without a base revision: a Conflict if the path has a commit, a
\* DuplicateId if the id is elsewhere; either counts as skipped.
Written(i) == docs' = [docs EXCEPT ![i] = IF @ = {} THEN {"home"} ELSE @]

WriteDoc(h) ==
    /\ At(h, "write")
    /\ Written(job[h].at)
    /\ Goto(h, "record")
    /\ UNCHANGED <<world, store, files, memory, restarts, history>>

Record(h) ==
    /\ At(h, "record")
    /\ idmap' = idmap \cup {job[h].at}
    /\ Goto(h, "next")
    /\ UNCHANGED <<world, store, files, email_seq, held, archive, docs, restarts, history>>
-----------------------------------------------------------------------------
(* TicketService.create and the comment. *)

\* The token is read again from the counter.
NewTicket(h) ==
    IF job[h].op = "mail"
    THEN [requester |-> job[h].requester, token |-> email_seq, mid |-> job[h].at]
    ELSE [requester |-> job[h].requester, token |-> 0, mid |-> None]

\* The ticket is written, under the lock of the store; a mail's gets an id of its own.
Puts(h, t) ==
    /\ At(h, "put") /\ rewriting = None
    /\ t \in IF job[h].op = "mail" THEN {n \in MailTickets : tickets[n] = None} ELSE {job[h].at}
    /\ tickets' = [tickets EXCEPT ![t] = NewTicket(h)]
    /\ torn' = torn \ {t}

Put(h) ==
    /\ \E t \in Tickets :
           Puts(h, t) /\ job' = [job EXCEPT ![h].ticket = t, ![h].step = "grant"]
    /\ UNCHANGED <<world, comments, viewers, rewriting, rewrites, memory, docs, restarts, history>>

Grant(h) ==
    /\ At(h, "grant")
    /\ viewers' = viewers \cup {<<job[h].requester, job[h].ticket>>}
    /\ Goto(h, "append")
    /\ UNCHANGED <<world, tickets, comments, files, memory, docs, restarts, history>>

Appended(h) ==
    comments' = [comments EXCEPT ![job[h].ticket] =
        @ \o <<[author |-> job[h].requester, content |-> job[h].at]>>]

AppendComment(h) ==
    /\ At(h, "append")
    /\ Appended(h)
    /\ Goto(h, IF job[h].op = "mail" THEN "next" ELSE "record")
    /\ UNCHANGED <<world, tickets, viewers, files, memory, docs, restarts, history>>
-----------------------------------------------------------------------------
(* Failures and restarts. *)

MayRaise(h) == job[h] # None /\ <<job[h].op, job[h].step>> \in MayFail

\* The item whose ticket thread h has put, and is not done with.
HalfDone(h) ==
    IF job[h] # None /\ job[h].op = "migration" /\ job[h].step \in {"grant", "append"}
    THEN {job[h].at} ELSE {}

\* A call raises and leaves nothing: the poll or the run ends, whatever is left of its list.
Raises(h) ==
    /\ MayRaise(h)
    /\ Finish(h)
    /\ half' = half \cup HalfDone(h)
    /\ UNCHANGED <<world, store, files, memory, docs, restarts, imported, raced, missed>>

\* git refuses (GitWriteError) what put, add_comment or write have put into their files:
\* the call raises as well, and the files stay.
PutRaises(h) ==
    /\ MayRaise(h)
    /\ \E t \in Tickets : Puts(h, t) /\ half' = half \cup ({t} \cap Jira)
    /\ Finish(h)
    /\ UNCHANGED <<world, comments, viewers, rewriting, rewrites, memory, docs, restarts,
                   imported, raced, missed>>

AppendRaises(h) ==
    /\ At(h, "append") /\ MayRaise(h)
    /\ Appended(h)
    /\ Finish(h)
    /\ UNCHANGED <<world, tickets, viewers, files, memory, docs, restarts, history>>

WriteRaises(h) ==
    /\ At(h, "write") /\ MayRaise(h)
    /\ Written(job[h].at)
    /\ Finish(h)
    /\ UNCHANGED <<world, store, files, memory, restarts, history>>

\* The gateway restarts; whoever called it sees the call fail.  What was held is gone, and
\* the file that was being rewritten stays truncated.
Restart ==
    /\ restarts < scenario.restarts /\ restarts' = restarts + 1
    /\ email_seq' = 0 /\ held' = {} /\ idmap' = {} /\ archive' = {}
    /\ job' = [h \in Handlers |-> None]
    /\ torn' = torn \cup ({rewriting} \ {None}) /\ rewriting' = None
    /\ half' = half \cup UNION {HalfDone(h) : h \in Handlers}
    /\ imported' = FALSE
    /\ UNCHANGED <<world, store, rewrites, docs, raced, missed>>

Next ==
    \/ \E h \in Handlers :
           \/ BeginPoll(h) \/ BeginRun(h) \/ Done(h)
           \/ TakeMail(h) \/ Ingest(h) \/ Count(h) \/ StoreSeq(h)
           \/ TakeItem(h) \/ Exists(h) \/ WriteDoc(h) \/ Record(h)
           \/ Put(h) \/ Grant(h) \/ AppendComment(h)
           \/ Raises(h) \/ PutRaises(h) \/ AppendRaises(h) \/ WriteRaises(h)
    \/ \E m \in Mails : Send(m) \/ Redeliver(m)
    \/ \E i \in Items \ Jira : Move(i)
    \/ \E t \in Tickets : Rewrite(t)
    \/ Rewritten \/ Restart

Spec == Init /\ [][Next]_vars
-----------------------------------------------------------------------------
\* Type invariant of mailbox, stores, what the process holds in memory, and requests.
TypeOK ==
    /\ scenario \in Scenarios
    /\ sent \in [Mails -> Message \cup {None}] /\ inbox \subseteq Mails
    /\ redelivered \in 0..scenario.redeliveries
    /\ tickets \in [Tickets -> Ticket \cup {None}]
    /\ comments \in [Tickets -> Seq(Comment)]
    /\ viewers \subseteq Principals \X Tickets
    /\ email_seq \in Nat /\ held \subseteq Mails
    /\ docs \in [Items \ Jira -> SUBSET {"home", "elsewhere"}]
    /\ idmap \subseteq Marked /\ archive \subseteq Items
    /\ job \in [Handlers -> Job \cup {None}] /\ restarts \in 0..scenario.restarts
    /\ rewriting \in Tickets \cup {None} /\ torn \subseteq Tickets
    /\ rewrites \in 0..scenario.rewrites
    /\ imported \in BOOLEAN /\ raced \in BOOLEAN
    /\ missed \subseteq Mails \cup Jira /\ half \subseteq Jira

Contents(t) == {comments[t][n] : n \in DOMAIN comments[t]}

\* INV-EMAIL-1: a message is in a ticket only if it was verified, and then its author
\* is its sender and the ticket is the sender's own.
AttributedToSender ==
    \A t \in MailTickets : \A c \in Contents(t) :
        /\ Trusted(c.content)
        /\ c.author = Requester(c.content) /\ c.author = tickets[t].requester

\* Thread h has fetched message m and is not done with it.
InBatch(h, m) ==
    job[h] # None /\ (m \in job[h].todo \/ (m = job[h].at /\ job[h].step # "next"))

\* A message is with Graph, in a batch, in the quarantine, or in a ticket.
Somewhere(m) ==
    \/ m \in inbox \cup held
    \/ \E h \in Handlers : InBatch(h, m)
    \/ \E t \in MailTickets : \E c \in Contents(t) : c.content = m

\* Mail on its way from Graph into a ticket or the quarantine is dropped by nothing but a
\* batch that a raising call cuts, with the rest of that batch, and a restart, with what was
\* held and being ingested.
MailKept ==
    [][\A m \in Mails : Somewhere(m) =>
           \/ Somewhere(m)' \/ restarts' # restarts
           \/ \E h \in Handlers : InBatch(h, m) /\ job'[h] = None]_vars

\* A message is in the ticket it answers (or in one that a redelivery of the first contact
\* filed), by its headers always, by its token as long as no restart has set the counter
\* back and no two threads have counted at once; if the ticket's file was unreadable when it
\* was looked up, it may be in a ticket of its own instead.
ThreadsToItsTicket ==
    \A t \in MailTickets : \A c \in Contents(t) :
        LET msg == sent[c.content] IN
        msg.to # None /\ (msg.by = "header" \/ (restarts = 0 /\ ~raced)) =>
            \/ tickets[t].mid = tickets[msg.to].mid
            \/ c.content \in missed /\ tickets[t].mid = c.content

\* INV-MIG-2: however often a migration fails and is run again, across restarts, an item's
\* content is in its ticket at most once and its document is in one place; unless a run
\* found the ticket's file unreadable, and created it again.
ImportedOnce ==
    /\ \A i \in Jira : Len(comments[i]) <= 1 \/ i \in missed
    /\ \A i \in Items \ Jira : Cardinality(docs[i]) <= 1

\* The item's content is in its ticket, and its requester can read it.
Complete(i) == Contents(i) # {} /\ <<ReporterOf(i), i>> \in viewers

\* INV-MIG-1/3: once a migration has run to its end, every item it migrates is mapped and
\* in the store, in a file that is not truncated, with its reporter as the requester, and
\* the rest is archived; a restart empties the map, and the next run that ends has filled
\* it again. Its content and its tuple are there unless its creation was cut short: that no
\* later run repairs (pipeline.py:49, the ticket exists).
MapRepaired ==
    imported => \A i \in Items :
        IF ~Migrates(i) THEN i \in archive
        ELSE /\ i \in idmap
             /\ IF i \in Jira
                THEN /\ tickets[i] # None /\ tickets[i].requester = ReporterOf(i)
                     /\ i \notin torn
                     /\ Complete(i) \/ i \in half
                ELSE docs[i] # {}

\* What is true of a migration that fails and is run again until it ends.
MigrationRepairs == ImportedOnce /\ MapRepaired
-----------------------------------------------------------------------------
(* What the comments promise and failures, redelivery or overlap break. *)

\* "No verified sender at all (incl. first contact): quarantine, never a silent
\* attributed ticket": every ticket has a requester.
NobodysTicket == \A t \in MailTickets : tickets[t] # None => tickets[t].requester # None

\* A token "lets later replies thread": it leads to one ticket.
TokensUnique ==
    \A t, u \in MailTickets : t # u /\ tickets[t] # None /\ tickets[u] # None =>
        tickets[t].token # tickets[u].token

\* A message is in one ticket once.
FiledOnce == \A t, u \in MailTickets : t # u /\ tickets[t] # None /\ tickets[u] # None =>
                 tickets[t].mid # tickets[u].mid

\* No mail is lost.
MailNotLost == \A m \in Mails : sent[m] # None => Somewhere(m)

\* "Persist for agent review": what is held stays held.
HeldPersists == [][held \subseteq held']_held

\* A reply that refers to its ticket is in it.
RepliesFollow ==
    \A t \in MailTickets : \A c \in Contents(t) :
        LET msg == sent[c.content] IN
        msg.to # None /\ msg.by = "header" => tickets[t].mid = tickets[msg.to].mid

\* "Preserve content": what a finished run reports migrated or skipped has its content,
\* and its requester can read it.
ContentPreserved == imported => \A i \in Jira \cap Marked : Complete(i)

\* "Re-running is idempotent": an item's content is in its ticket once.
ContentOnce == \A i \in Jira : Len(comments[i]) <= 1
=============================================================================
