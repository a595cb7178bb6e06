---------------------------- MODULE IntakeProofs ----------------------------
(***************************************************************************)
(* The type invariant of Intake, what no poller breaks, however many there *)
(* are and whatever fails, is redelivered or restarts; what migration run  *)
(* again after a failure repairs, by one operator; and that replies reach  *)
(* the ticket they answer.                                                 *)
(***************************************************************************)
EXTENDS Intake, FiniteSetTheorems, SequenceTheorems, TLAPS

MailSteps == {"next", "route", "count", "store", "put", "grant", "append"}
MigrationSteps == {"next", "exists", "put", "grant", "append", "write", "record"}

\* A ticket of this requester is there.
Owned(t, p) == tickets[t] # None /\ tickets[t].requester = p

\* Item i is in the store it migrates to.
Stored(i) == IF i \in Jira THEN Owned(i, ReporterOf(i)) /\ i \notin torn ELSE docs[i] # {}

\* A run is done with item i.
Repaired(i) == IF Migrates(i) THEN i \in idmap /\ Stored(i) ELSE i \in archive

\* A poller's job: what it files is the verified sender's.
MailJob(j) ==
    /\ j.step \in MailSteps /\ j.todo \subseteq Mails
    /\ j.step # "next" => j.at \in Mails
    /\ j.step \in {"count", "store", "put", "grant", "append"} =>
           Trusted(j.at) /\ j.requester = Requester(j.at)
    /\ j.step \in {"grant", "append"} => j.ticket \in MailTickets /\ Owned(j.ticket, j.requester)

\* An operator's job: the items before the current one are repaired.
MigrationJob(j) ==
    /\ j.step \in MigrationSteps /\ j.todo \subseteq Items
    /\ j.step # "next" => j.at \in Items \ j.todo /\ Migrates(j.at)
    /\ j.step \in {"exists", "put", "grant", "append"} => j.at \in Jira
    /\ j.step = "write" => j.at \notin Jira
    /\ j.step \in {"put", "grant", "append"} => j.requester = ReporterOf(j.at)
    /\ j.step \in {"grant", "append"} => j.ticket = j.at /\ Owned(j.at, j.requester) /\ j.at \notin torn
    /\ j.step = "record" => Stored(j.at)
    /\ \A i \in Items \ j.todo : j.step = "next" \/ i # j.at => Repaired(i)

WellFormed(h, j) ==
    /\ j.op \in scenario.serves[h]
    /\ j.op = "mail" => MailJob(j)
    /\ j.op = "migration" => MigrationJob(j)

JobsFormed == \A h \in Handlers : job[h] # None => WellFormed(h, job[h])

\* No comment is on a ticket that is not there, and an imported one is its reporter's.
StoreFormed ==
    /\ \A t \in Tickets : tickets[t] = None => comments[t] = <<>>
    /\ \A i \in Jira : tickets[i] # None => tickets[i].requester = ReporterOf(i)

\* A run that ended has repaired everything.
RunRepaired == imported => \A i \in Items : Repaired(i)

Inv ==
    /\ TypeOK /\ StoreFormed /\ JobsFormed /\ RunRepaired
    /\ AttributedToSender

\* At most one thread migrates.
OneMigrator ==
    \A g, h \in Handlers :
        "migration" \in scenario.serves[g] /\ "migration" \in scenario.serves[h] => g = h

\* An imported ticket has no comment before its own, and one at most, unless it was looked
\* up while its file was unreadable.
Once ==
    /\ \A i \in Jira : Len(comments[i]) <= 1 \/ i \in missed
    /\ \A h \in Handlers :
           job[h] # None /\ job[h].op = "migration" /\ job[h].step \in {"put", "grant", "append"} =>
               comments[job[h].at] = <<>> \/ job[h].at \in missed

OnceInv == OneMigrator => Once
-----------------------------------------------------------------------------
(* Frames. *)

LEMMA ConstantFacts ==
    /\ MailTickets \subseteq Nat /\ MailTickets \cap Jira = {} /\ Mails \cap Items = {}
    /\ Jira \subseteq Items /\ Marked \subseteq Items
    /\ None \notin Mails \cup Items \cup Tickets \cup Ticket \cup Message \cup Job
    /\ Scenarios \subseteq Scenario
    /\ Reporter \in [Items -> Addresses \cup {None}]
BY IntakeAssumption DEF IntakeAssumption

LEMMA PrincipalsNamed ==
    /\ \A i \in Items : ReporterOf(i) \in Principals
    /\ \A m \in Mails : scenario \in Scenarios => Requester(m) \in Principals
<1>1. ASSUME NEW i \in Items  PROVE ReporterOf(i) \in Principals
  BY ConstantFacts DEF ReporterOf, Principals
<1>2. ASSUME NEW m \in Mails, scenario \in Scenarios  PROVE Requester(m) \in Principals
  <2>1. From(m) \in Addresses \cup {None}
    BY <1>2, ConstantFacts DEF From, Scenario
  <2> QED  BY <2>1 DEF Requester, Principals
<1> QED  BY <1>1, <1>2

\* Nothing is lost of tickets, documents, id map and archive, and no ticket changes hands or
\* becomes unreadable for good.
Kept ==
    /\ scenario' = scenario
    /\ \A t \in Tickets : tickets[t] # None =>
           tickets'[t] # None /\ tickets'[t].requester = tickets[t].requester
    /\ \A i \in Items \ Jira : docs[i] # {} => docs'[i] # {}
    /\ idmap \subseteq idmap' /\ archive \subseteq archive' /\ torn' \subseteq torn

LEMMA OwnedKept ==
    ASSUME Kept, NEW t \in Tickets, NEW p, Owned(t, p)
    PROVE  Owned(t, p)'
BY DEF Kept, Owned

LEMMA StoredKept ==
    ASSUME Kept, NEW i \in Items, Stored(i)
    PROVE  Stored(i)'
<1>1. CASE i \in Jira
  <2>1. i \in Tickets /\ Owned(i, ReporterOf(i))
    BY <1>1 DEF Tickets, Stored
  <2>2. Owned(i, ReporterOf(i))'
    BY <2>1 DEF Owned, Kept, ReporterOf
  <2> QED  BY <1>1, <2>2 DEF Stored, Kept
<1>2. CASE i \notin Jira
  BY <1>2 DEF Kept, Stored
<1> QED  BY <1>1, <1>2

LEMMA RepairedKept ==
    ASSUME Kept, NEW i \in Items, Repaired(i)
    PROVE  Repaired(i)'
<1>1. Migrates(i)' <=> Migrates(i)
  BY DEF Migrates, Kept
<1> QED  BY <1>1, StoredKept DEF Repaired, Kept

LEMMA FormedKept ==
    ASSUME Kept, NEW h \in Handlers, NEW j \in Job, WellFormed(h, j)
    PROVE  WellFormed(h, j)'
<1>1. j.op \in scenario'.serves[h]
  BY DEF WellFormed, Kept
<1>2. ASSUME j.op = "mail"  PROVE MailJob(j)'
  <2>1. MailJob(j)
    BY <1>2 DEF WellFormed
  <2>2. Trusted(j.at)' = Trusted(j.at) /\ Requester(j.at)' = Requester(j.at)
    BY DEF Trusted, Requester, From, Kept
  <2>3. j.step \in {"grant", "append"} => Owned(j.ticket, j.requester)'
    BY <2>1, OwnedKept DEF MailJob, Tickets
  <2> QED  BY <2>1, <2>2, <2>3 DEF MailJob
<1>3. ASSUME j.op = "migration"  PROVE MigrationJob(j)'
  <2>1. MigrationJob(j)
    BY <1>3 DEF WellFormed
  <2>2. j.step # "next" => j.at \in Items /\ Migrates(j.at)'
    BY <2>1 DEF MigrationJob, Migrates, Kept
  <2>3. j.step \in {"grant", "append"} => Owned(j.at, j.requester)' /\ j.at \notin torn'
    BY <2>1, OwnedKept DEF MigrationJob, Tickets, Kept
  <2>4. j.step = "record" => Stored(j.at)'
    BY <2>1, StoredKept DEF MigrationJob
  <2>5. \A i \in Items \ j.todo : j.step = "next" \/ i # j.at => Repaired(i)'
    BY <2>1, RepairedKept DEF MigrationJob
  <2>6. ReporterOf(j.at)' = ReporterOf(j.at)
    BY DEF ReporterOf
  <2> QED  BY <2>1, <2>2, <2>3, <2>4, <2>5, <2>6 DEF MigrationJob
<1> QED  BY <1>1, <1>2, <1>3 DEF WellFormed

\* A step of thread h that leaves it with job k.
LEMMA JobStep ==
    ASSUME Inv, Kept, NEW h \in Handlers, NEW k \in Job \cup {None},
           job' = [job EXCEPT ![h] = k], k # None => WellFormed(h, k)'
    PROVE  job' \in [Handlers -> Job \cup {None}] /\ JobsFormed'
<1>1. job \in [Handlers -> Job \cup {None}]
  BY DEF Inv, TypeOK
<1>2. ASSUME NEW g \in Handlers, job'[g] # None  PROVE WellFormed(g, job[g])'
  <2>1. CASE g = h
    BY <1>1, <1>2, <2>1
  <2>2. CASE g # h
    <3>1. PICK j \in Job : j = job[g]
      BY <1>1, <1>2, <2>2
    <3>2. WellFormed(g, j)
      BY <1>1, <1>2, <2>2, <3>1 DEF Inv, JobsFormed
    <3> QED  BY <1>1, <2>2, <3>1, <3>2, FormedKept
  <2> QED  BY <2>1, <2>2
<1> QED  BY <1>1, <1>2 DEF JobsFormed

\* What other steps than those that put a ticket or append to one leave as it is.
LEMMA StoreStays ==
    ASSUME Inv, UNCHANGED <<scenario, tickets, comments>>
    PROVE  StoreFormed' /\ AttributedToSender'
<1>1. StoreFormed'
  BY DEF Inv, StoreFormed, ReporterOf
<1>2. AttributedToSender'
  BY DEF Inv, AttributedToSender, Contents, Trusted, Requester, From
<1> QED  BY <1>1, <1>2

\* A step of thread h that changes neither tickets nor comments nor documents.
LEMMA Quiet ==
    ASSUME Inv, NEW h \in Handlers, NEW k \in Job \cup {None},
           job' = [job EXCEPT ![h] = k], k # None => WellFormed(h, k)',
           UNCHANGED <<scenario, sent, redelivered, tickets, comments, docs, restarts, imported>>,
           UNCHANGED files, missed' \subseteq Mails \cup Jira, half' \subseteq Jira,
           inbox' \subseteq Mails, viewers' \subseteq Principals \X Tickets, email_seq' \in Nat,
           raced' \in BOOLEAN,
           idmap \subseteq idmap', idmap' \subseteq Marked,
           archive \subseteq archive', archive' \subseteq Items,
           held' \subseteq Mails
    PROVE  Inv'
<1>1. Kept
  BY DEF Kept, files
<1>2. job' \in [Handlers -> Job \cup {None}] /\ JobsFormed'
  BY <1>1, JobStep
<1>3. TypeOK'
  BY <1>2 DEF Inv, TypeOK, files
<1>4. RunRepaired'
  BY <1>1, RepairedKept DEF Inv, RunRepaired
<1> QED  BY <1>2, <1>3, <1>4, StoreStays DEF Inv

LEMMA JobAt ==
    ASSUME Inv, NEW h \in Handlers, job[h] # None
    PROVE  job[h] \in Job /\ WellFormed(h, job[h])
BY DEF Inv, TypeOK, JobsFormed
-----------------------------------------------------------------------------
(* Every step keeps Inv. *)

\* A job with its step or current element replaced.
Moved(j, step) == [j EXCEPT !.step = step]
TakenJob(j, x, step) == [j EXCEPT !.at = x, !.step = step, !.todo = @ \ {x}]

LEMMA MovedJob ==
    ASSUME NEW j \in Job, NEW step \in Steps
    PROVE  /\ Moved(j, step) \in Job /\ Moved(j, step).op = j.op /\ Moved(j, step).step = step
           /\ Moved(j, step).todo = j.todo /\ Moved(j, step).at = j.at
           /\ Moved(j, step).requester = j.requester /\ Moved(j, step).ticket = j.ticket
BY DEF Moved, Job

LEMMA TakenIsJob ==
    ASSUME NEW j \in Job, NEW step \in Steps, NEW x \in Mails \cup Items
    PROVE  /\ TakenJob(j, x, step) \in Job /\ TakenJob(j, x, step).op = j.op
           /\ TakenJob(j, x, step).step = step /\ TakenJob(j, x, step).todo = j.todo \ {x}
           /\ TakenJob(j, x, step).at = x
BY DEF TakenJob, Job

LEMMA InitInv == Init => Inv
<1> SUFFICES ASSUME Init  PROVE Inv
  OBVIOUS
<1>2. scenario.redeliveries \in Nat /\ scenario.restarts \in Nat /\ scenario.rewrites \in Nat
  BY ConstantFacts DEF Init, Scenario
<1>3. \A t \in Tickets : comments[t] = <<>>
  BY DEF Init
<1>4. TypeOK
  <2>1. comments \in [Tickets -> Seq(Comment)] /\ tickets \in [Tickets -> Ticket \cup {None}]
    BY DEF Init
  <2>2. /\ sent \in [Mails -> Message \cup {None}] /\ job \in [Handlers -> Job \cup {None}]
        /\ docs \in [Items \ Jira -> SUBSET {"home", "elsewhere"}]
    BY DEF Init
  <2>3. redelivered \in 0..scenario.redeliveries /\ restarts \in 0..scenario.restarts
        /\ rewrites \in 0..scenario.rewrites
    BY <1>2 DEF Init
  <2> QED  BY <2>1, <2>2, <2>3 DEF Init, TypeOK
<1>5. StoreFormed /\ JobsFormed /\ RunRepaired
  BY <1>3 DEF Init, StoreFormed, JobsFormed, RunRepaired, Tickets
<1>6. AttributedToSender
  BY <1>3 DEF Init, AttributedToSender, Contents, Tickets
<1> QED  BY <1>4, <1>5, <1>6 DEF Inv

\* Steps of the world, that no job takes part in.
LEMMA WorldKeeps ==
    ASSUME Inv, UNCHANGED <<scenario, store, torn, memory, docs, job, restarts, history>>,
           sent' \in [Mails -> Message \cup {None}], inbox' \subseteq Mails,
           redelivered' \in 0..scenario.redeliveries,
           rewriting' \in Tickets \cup {None}, rewrites' \in 0..scenario.rewrites
    PROVE  Inv'
<1>1. Kept
  BY DEF Kept, store, files, memory
<1>2. TypeOK'
  BY DEF Inv, TypeOK, store, files, memory, history
<1>3. ASSUME NEW h \in Handlers, job'[h] # None  PROVE WellFormed(h, job[h])'
  <2>1. PICK j \in Job : j = job[h]
    BY <1>3 DEF Inv, TypeOK
  <2>2. WellFormed(h, j)'
    BY <1>3, <2>1, <1>1, FormedKept DEF Inv, JobsFormed
  <2> QED  BY <2>1, <2>2
<1>4. RunRepaired'
  BY <1>1, RepairedKept DEF Inv, RunRepaired, history
<1> QED  BY <1>2, <1>3, <1>4, StoreStays DEF Inv, JobsFormed, store

LEMMA SendKeeps ==
    ASSUME Inv, NEW m \in Mails, Send(m) \/ Redeliver(m)
    PROVE  Inv'
<1>1. sent' \in [Mails -> Message \cup {None}]
  BY DEF Inv, TypeOK, Send, Redeliver
<1>2. redelivered' \in 0..scenario.redeliveries
  <2>1. scenario.redeliveries \in Nat
    BY ConstantFacts DEF Inv, TypeOK, Scenario
  <2> QED  BY <2>1 DEF Inv, TypeOK, Send, Redeliver
<1>3. inbox' \subseteq Mails
  BY DEF Inv, TypeOK, Send, Redeliver
<1>4. rewriting \in Tickets \cup {None} /\ rewrites \in 0..scenario.rewrites
  BY DEF Inv, TypeOK
<1> QED  BY <1>1, <1>2, <1>3, <1>4, WorldKeeps DEF Send, Redeliver, files

\* Another route's put.
LEMMA RewriteKeeps ==
    ASSUME Inv, Rewritten \/ \E t \in Tickets : Rewrite(t)
    PROVE  Inv'
<1>1. rewriting' \in Tickets \cup {None}
  BY DEF Rewrite, Rewritten
<1>2. rewrites' \in 0..scenario.rewrites
  <2>1. scenario.rewrites \in Nat
    BY ConstantFacts DEF Inv, TypeOK, Scenario
  <2> QED  BY <2>1 DEF Inv, TypeOK, Rewrite, Rewritten
<1>3. /\ sent' \in [Mails -> Message \cup {None}] /\ inbox' \subseteq Mails
      /\ redelivered' \in 0..scenario.redeliveries
  BY DEF Inv, TypeOK, Rewrite, Rewritten, world
<1> QED  BY <1>1, <1>2, <1>3, WorldKeeps DEF Rewrite, Rewritten, world

\* Documents change, and perhaps one job.
LEMMA DocsKeeps ==
    ASSUME Inv, UNCHANGED <<scenario, store, files, memory, restarts, history>>,
           UNCHANGED <<sent, inbox, redelivered>>,
           docs' \in [Items \ Jira -> SUBSET {"home", "elsewhere"}],
           \A i \in Items \ Jira : docs[i] # {} => docs'[i] # {},
           NEW h \in Handlers, NEW k \in Job \cup {None},
           job' = [job EXCEPT ![h] = k], k # None => WellFormed(h, k)'
    PROVE  Inv'
<1>1. Kept
  BY DEF Kept, store, files, memory
<1>2. job' \in [Handlers -> Job \cup {None}] /\ JobsFormed'
  BY <1>1, JobStep
<1>3. TypeOK'
  BY <1>2 DEF Inv, TypeOK, store, files, memory, history
<1>4. RunRepaired'
  BY <1>1, RepairedKept DEF Inv, RunRepaired, history
<1> QED  BY <1>2, <1>3, <1>4, StoreStays DEF Inv, store

LEMMA MoveKeeps ==
    ASSUME Inv, NEW i \in Items \ Jira, Move(i)
    PROVE  Inv'
<1>1. Kept /\ UNCHANGED <<sent, inbox, redelivered, scenario>>
  BY DEF Inv, TypeOK, Move, Kept, world, files, store, memory
<1>2. docs' \in [Items \ Jira -> SUBSET {"home", "elsewhere"}]
  BY DEF Inv, TypeOK, Move
<1>3. ASSUME NEW h \in Handlers, job'[h] # None  PROVE WellFormed(h, job[h])'
  <2>1. PICK j \in Job : j = job[h]
    BY <1>3 DEF Inv, TypeOK, Move
  <2>2. WellFormed(h, j)'
    BY <1>3, <2>1, <1>1, FormedKept DEF Inv, JobsFormed, Move
  <2> QED  BY <2>1, <2>2 DEF Move
<1>4. TypeOK'
  BY <1>1, <1>2 DEF Inv, TypeOK, Move, store, files, memory, history
<1>5. RunRepaired'
  BY <1>1, RepairedKept DEF Inv, RunRepaired, Move, history
<1> QED  BY <1>1, <1>3, <1>4, <1>5, StoreStays DEF Inv, JobsFormed, Move, store

LEMMA BeginKeeps ==
    ASSUME Inv, NEW h \in Handlers, BeginPoll(h) \/ BeginRun(h)
    PROVE  Inv'
<1>1. CASE BeginPoll(h)
  <2>1. PICK list \in SUBSET Mails : list = inbox
    BY DEF Inv, TypeOK
  <2> DEFINE k == [op |-> "mail", step |-> "next", todo |-> list, at |-> None,
                   requester |-> None, ticket |-> None, seq |-> 0]
  <2>2. k \in Job
    BY DEF Job, Ops, Steps, Principals
  <2>3. WellFormed(h, k)'
    BY <1>1 DEF BeginPoll, Begin, WellFormed, MailJob, MailSteps
  <2>4. job' = [job EXCEPT ![h] = k]
    BY <1>1, <2>1 DEF BeginPoll, Begin
  <2>5. inbox' \subseteq Mails
    BY <1>1 DEF BeginPoll
  <2> HIDE DEF k
  <2> QED  BY <1>1, <2>2, <2>3, <2>4, <2>5, Quiet DEF BeginPoll, Inv, TypeOK, store, files, memory, history
<1>2. CASE BeginRun(h)
  <2> DEFINE k == [op |-> "migration", step |-> "next", todo |-> Items, at |-> None,
                   requester |-> None, ticket |-> None, seq |-> 0]
  <2>2. k \in Job
    BY DEF Job, Ops, Steps, Principals
  <2>3. WellFormed(h, k)'
    BY <1>2 DEF BeginRun, Begin, WellFormed, MigrationJob, MigrationSteps, world
  <2>4. job' = [job EXCEPT ![h] = k]
    BY <1>2 DEF BeginRun, Begin
  <2> HIDE DEF k
  <2> QED  BY <1>2, <2>2, <2>3, <2>4, Quiet DEF BeginRun, Inv, TypeOK, world, files, store, memory, history
<1> QED  BY <1>1, <1>2

LEMMA RaisesKeeps ==
    ASSUME Inv, NEW h \in Handlers, Raises(h)
    PROVE  Inv'
<1>1. half' \subseteq Jira
  <2>1. HalfDone(h) \subseteq Jira
    BY JobAt DEF HalfDone, WellFormed, MigrationJob
  <2> QED  BY <2>1 DEF Raises, Inv, TypeOK
<1> QED  BY <1>1, Quiet DEF Raises, Finish, Inv, TypeOK, world, files, store, memory, history

LEMMA DoneKeeps ==
    ASSUME Inv, NEW h \in Handlers, Done(h)
    PROVE  Inv'
<1>1. job[h] \in Job /\ WellFormed(h, job[h])
  BY JobAt DEF Done, At
<1>2. Kept /\ UNCHANGED <<scenario, tickets, comments>>
  BY DEF Done, Kept, world, files, store, memory
<1>3. job' \in [Handlers -> Job \cup {None}] /\ JobsFormed'
  BY <1>2, JobStep DEF Done, Finish
<1>4. imported' \in BOOLEAN
  BY DEF Done, Inv, TypeOK
<1>5. TypeOK'
  BY <1>3, <1>4 DEF Done, Inv, TypeOK, world, files, store, memory
<1>6. job[h].op = "migration" => \A i \in Items : Repaired(i)
  BY <1>1 DEF Done, At, WellFormed, MigrationJob
<1>7. RunRepaired'
  BY <1>2, <1>6, RepairedKept DEF Inv, RunRepaired, Done
<1> QED  BY <1>2, <1>3, <1>5, <1>7, StoreStays DEF Inv

LEMMA TakeKeeps ==
    ASSUME Inv, NEW h \in Handlers, TakeMail(h) \/ TakeItem(h)
    PROVE  Inv'
<1>0. PICK j \in Job : j = job[h]
  BY JobAt DEF TakeMail, TakeItem, At
<1>1. WellFormed(h, j) /\ job[h] # None
  BY <1>0, JobAt DEF TakeMail, TakeItem, At
<1>2. CASE TakeMail(h)
  <2>1. PICK m \in j.todo : Taken(h, m, "route")
    BY <1>0, <1>2 DEF TakeMail
  <2>2. j.op = "mail" /\ MailJob(j)
    BY <1>0, <1>1, <1>2 DEF TakeMail, WellFormed
  <2>3. m \in Mails /\ "route" \in Steps
    BY <2>2 DEF MailJob, Steps
  <2>4. PICK k \in Job : k = TakenJob(j, m, "route")
    BY <2>3, TakenIsJob
  <2>5. k.op = j.op /\ k.step = "route" /\ k.todo = j.todo \ {m} /\ k.at = m
    BY <2>3, <2>4, TakenIsJob
  <2>6. MailJob(k) /\ WellFormed(h, k)
    BY <1>1, <2>2, <2>3, <2>5 DEF WellFormed, MailJob, MailSteps
  <2>7. job' = [job EXCEPT ![h] = k]
    BY <1>0, <2>1, <2>4 DEF Taken, TakenJob
  <2>8. Kept /\ WellFormed(h, k)'
    BY <1>2, <2>6, FormedKept DEF TakeMail, Kept, world, files, store, memory
  <2> QED  BY <1>2, <2>7, <2>8, Quiet DEF TakeMail, Inv, TypeOK, world, files, store, memory, history
<1>3. CASE TakeItem(h)
  <2>1. PICK i \in j.todo :
            IF Migrates(i)
            THEN Taken(h, i, IF i \in Jira THEN "exists" ELSE "write") /\ UNCHANGED archive
            ELSE Taken(h, i, "next") /\ archive' = archive \cup {i}
    BY <1>0, <1>3 DEF TakeItem
  <2>2. j.op = "migration" /\ j.step = "next" /\ MigrationJob(j)
    BY <1>0, <1>1, <1>3 DEF TakeItem, WellFormed, At
  <2>3. i \in Items
    BY <2>2 DEF MigrationJob
  <2>4. PICK step \in Steps : step = IF Migrates(i) THEN IF i \in Jira THEN "exists" ELSE "write" ELSE "next"
    BY DEF Steps
  <2>5. PICK k \in Job : k = TakenJob(j, i, step)
    BY <2>3, <2>4, TakenIsJob
  <2>6. k.op = j.op /\ k.step = step /\ k.todo = j.todo \ {i} /\ k.at = i
    BY <2>3, <2>5, TakenIsJob
  <2>7. job' = [job EXCEPT ![h] = k]
    BY <1>0, <2>1, <2>4, <2>5 DEF Taken, TakenJob
  <2>8. archive \subseteq archive' /\ archive' \subseteq Items /\ (~Migrates(i) => i \in archive')
    BY <2>1, <2>3 DEF Inv, TypeOK
  <2>9. Kept
    BY <1>3, <2>8 DEF TakeItem, Kept, world, files, store
  <2>10. \A l \in Items \ j.todo : Repaired(l)'
    BY <2>2, <2>9, RepairedKept DEF MigrationJob
  <2>11. Migrates(i)' <=> Migrates(i)
    BY <2>9 DEF Migrates, Kept
  <2>12. ~Migrates(i) => Repaired(i)'
    BY <2>8, <2>11 DEF Repaired
  <2>13. MigrationJob(k)'
    BY <2>2, <2>3, <2>4, <2>6, <2>10, <2>11, <2>12 DEF MigrationJob, MigrationSteps
  <2>14. WellFormed(h, k)'
    BY <1>1, <2>2, <2>6, <2>9, <2>13 DEF WellFormed, Kept
  <2> QED  BY <1>3, <2>7, <2>8, <2>14, Quiet DEF TakeItem, Inv, TypeOK, world, files, store, memory, history
<1> QED  BY <1>2, <1>3

LEMMA IngestKeeps ==
    ASSUME Inv, NEW h \in Handlers, Ingest(h)
    PROVE  Inv'
<1>0. PICK j \in Job : j = job[h]
  BY JobAt DEF Ingest, At
<1>1. WellFormed(h, j) /\ job[h] # None /\ j.step = "route"
  BY <1>0, JobAt DEF Ingest, At
<1>2. j.op = "mail" /\ MailJob(j) /\ j.at \in Mails
  BY <1>1 DEF WellFormed, MailJob, MigrationJob, MigrationSteps, Job, Ops
<1>3. PICK m \in Mails : m = j.at
  BY <1>2
<1>4. PICK t \in MailTickets \cup {None} :
          /\ Candidate(m, t)
          /\ missed' = missed \cup Missed(m)
          /\ \/ /\ Route(m, t) = "quarantine"
                /\ held' = Hold(m) /\ Goto(h, "next")
             \/ /\ Route(m, t) = "append"
                /\ job' = [job EXCEPT ![h].ticket = t, ![h].step = "append",
                                      ![h].requester = Requester(m)]
                /\ UNCHANGED held
             \/ /\ Route(m, t) = "new"
                /\ job' = [job EXCEPT ![h].requester = Requester(m), ![h].step = "count"]
                /\ UNCHANGED held
  BY <1>0, <1>3, ZenonT(30) DEF Ingest
<1>5. Route(m, t) \in {"quarantine", "append", "new"}
  BY DEF Route
<1>6. PICK p \in Principals : p = Requester(m)
  BY PrincipalsNamed DEF Inv, TypeOK
<1>7. /\ UNCHANGED <<world, store, files, email_seq, idmap, archive, docs, restarts, imported, raced, half>>
      /\ missed' \subseteq Mails \cup Jira
  BY <1>0, <1>3 DEF Ingest, Missed, Inv, TypeOK
<1>8. CASE Route(m, t) = "quarantine"
  <2>1. "next" \in Steps
    BY DEF Steps
  <2>2. PICK k \in Job : k = Moved(j, "next")
    BY <2>1, MovedJob
  <2>3. k.op = j.op /\ k.step = "next" /\ k.todo = j.todo
    BY <2>1, <2>2, MovedJob
  <2>4. WellFormed(h, k)
    BY <1>1, <1>2, <2>3 DEF WellFormed, MailJob, MailSteps
  <2>5. job' = [job EXCEPT ![h] = k] /\ held' = held \cup {m}
    BY <1>0, <1>4, <1>8, <2>2 DEF Goto, Moved, Hold
  <2>6. WellFormed(h, k)'
    BY <1>7, <2>4, FormedKept DEF Kept, world, files, store
  <2> QED  BY <1>7, <2>5, <2>6, Quiet DEF Inv, TypeOK, world, files, store
<1>9. CASE Route(m, t) = "append"
  <2> DEFINE k == [j EXCEPT !.ticket = t, !.step = "append", !.requester = p]
  <2>1. t # None /\ Trusted(m) /\ t \in Matches(m) /\ tickets[t].requester = Requester(m)
    BY <1>4, <1>9 DEF Route, Candidate
  <2>2. t \in MailTickets /\ Owned(t, p)
    BY <1>6, <2>1 DEF Matches, LeadsTo, Owned
  <2>3. k \in Job
    BY <2>2 DEF Job, Steps, Tickets
  <2>4. k.op = j.op /\ k.step = "append" /\ k.todo = j.todo /\ k.at = j.at /\ k.ticket = t /\ k.requester = p
    BY DEF Job
  <2>5. job' = [job EXCEPT ![h] = k] /\ UNCHANGED held
    BY <1>0, <1>4, <1>6, <1>9
  <2> HIDE DEF k
  <2>6. WellFormed(h, k)
    BY <1>1, <1>2, <1>3, <1>6, <2>1, <2>2, <2>4 DEF WellFormed, MailJob, MailSteps
  <2>7. WellFormed(h, k)'
    <3>1. PICK l \in Job : l = k
      BY <2>3
    <3> QED  BY <1>7, <2>6, <3>1, FormedKept DEF Kept, world, files, store
  <2> QED  BY <1>7, <2>3, <2>5, <2>7, Quiet DEF Inv, TypeOK, world, files, store
<1>10. CASE Route(m, t) = "new"
  <2> DEFINE k == [j EXCEPT !.requester = p, !.step = "count"]
  <2>1. Trusted(m)
    BY <1>4, <1>10 DEF Route
  <2>3. k \in Job
    BY DEF Job, Steps
  <2>4. k.op = j.op /\ k.step = "count" /\ k.todo = j.todo /\ k.at = j.at /\ k.requester = p
    BY DEF Job
  <2>5. job' = [job EXCEPT ![h] = k] /\ UNCHANGED held
    BY <1>0, <1>4, <1>6, <1>10
  <2> HIDE DEF k
  <2>6. WellFormed(h, k)
    BY <1>1, <1>2, <1>3, <1>6, <2>1, <2>4 DEF WellFormed, MailJob, MailSteps
  <2>7. WellFormed(h, k)'
    <3>1. PICK l \in Job : l = k
      BY <2>3
    <3> QED  BY <1>7, <2>6, <3>1, FormedKept DEF Kept, world, files, store
  <2> QED  BY <1>7, <2>3, <2>5, <2>7, Quiet DEF Inv, TypeOK, world, files, store
<1> QED  BY <1>5, <1>8, <1>9, <1>10

LEMMA CountKeeps ==
    ASSUME Inv, NEW h \in Handlers, Count(h) \/ StoreSeq(h)
    PROVE  Inv'
<1>0. PICK j \in Job : j = job[h]
  BY JobAt DEF Count, StoreSeq, At
<1>1. WellFormed(h, j) /\ job[h] # None
  BY <1>0, JobAt DEF Count, StoreSeq, At
<1>2. CASE Count(h)
  <2> DEFINE k == [j EXCEPT !.seq = email_seq, !.step = "store"]
  <2>1. k \in Job
    BY DEF Job, Steps, Inv, TypeOK
  <2>2. k.op = j.op /\ k.step = "store" /\ k.todo = j.todo /\ k.at = j.at /\ k.requester = j.requester
    BY DEF Job
  <2>3. job' = [job EXCEPT ![h] = k]
    BY <1>0, <1>2 DEF Count
  <2>4. j.step = "count"
    BY <1>0, <1>2 DEF Count, At
  <2>5. PICK l \in Job : l = k
    BY <2>1
  <2> HIDE DEF k
  <2>6. WellFormed(h, l)
    BY <1>1, <2>2, <2>4, <2>5 DEF WellFormed, MailJob, MailSteps, MigrationJob, MigrationSteps
  <2>7. WellFormed(h, l)'
    BY <1>2, <2>6, FormedKept DEF Count, Kept, world, files, store, memory
  <2>8. raced' \in BOOLEAN
    BY <1>2 DEF Count
  <2> QED  BY <1>2, <2>3, <2>5, <2>7, <2>8, Quiet DEF Count, Inv, TypeOK, world, files, store, memory
<1>3. CASE StoreSeq(h)
  <2>1. "put" \in Steps
    BY DEF Steps
  <2>2. PICK k \in Job : k = Moved(j, "put")
    BY <2>1, MovedJob
  <2>3. k.op = j.op /\ k.step = "put" /\ k.todo = j.todo /\ k.at = j.at /\ k.requester = j.requester
    BY <2>1, <2>2, MovedJob
  <2>4. j.step = "store"
    BY <1>0, <1>3 DEF StoreSeq, At
  <2>5. WellFormed(h, k)
    BY <1>1, <2>3, <2>4 DEF WellFormed, MailJob, MailSteps, MigrationJob, MigrationSteps
  <2>6. WellFormed(h, k)'
    BY <1>3, <2>5, FormedKept DEF StoreSeq, Kept, world, files, store
  <2>7. job' = [job EXCEPT ![h] = k] /\ email_seq' \in Nat
    BY <1>0, <1>3, <2>2 DEF StoreSeq, Goto, Moved, NextSeq, Job
  <2> QED  BY <1>3, <2>6, <2>7, Quiet DEF StoreSeq, Inv, TypeOK, world, files, store, history
<1> QED  BY <1>2, <1>3
LEMMA ExistsKeeps ==
    ASSUME Inv, NEW h \in Handlers, Exists(h)
    PROVE  Inv'
<1>0. PICK j \in Job : j = job[h]
  BY JobAt DEF Exists, At
<1>1. WellFormed(h, j) /\ job[h] # None /\ j.step = "exists"
  BY <1>0, JobAt DEF Exists, At
<1>2. j.op = "migration" /\ MigrationJob(j) /\ j.at \in Jira
  BY <1>1 DEF WellFormed, MailJob, MailSteps, MigrationJob, Job, Ops
<1>3. PICK step \in Steps : step = IF Migrated(j.at) THEN "record" ELSE "put"
  BY DEF Steps
<1>4. PICK p \in Principals : p = ReporterOf(j.at)
  BY <1>2, PrincipalsNamed, ConstantFacts
<1> DEFINE k == [j EXCEPT !.step = step, !.requester = p]
<1>5. k \in Job
  BY DEF Job
<1>6. k.op = j.op /\ k.step = step /\ k.todo = j.todo /\ k.at = j.at /\ k.requester = p
  BY DEF Job
<1>7. job' = [job EXCEPT ![h] = k]
  BY <1>0, <1>3, <1>4 DEF Exists, AfterSkip
<1>8. PICK l \in Job : l = k
  BY <1>5
<1> HIDE DEF k
<1>9. Migrated(j.at) => Stored(j.at)
  BY <1>2 DEF Migrated, Readable, Stored, Owned, Inv, StoreFormed
<1>10. WellFormed(h, l)
  <2>1. MigrationJob(l)
    BY <1>1, <1>2, <1>3, <1>4, <1>6, <1>8, <1>9 DEF MigrationJob, MigrationSteps
  <2> QED  BY <1>1, <1>2, <1>6, <1>8, <2>1 DEF WellFormed
<1>11. WellFormed(h, l)'
  BY <1>10, FormedKept DEF Exists, Kept, world, files, store, memory
<1>12. missed' \subseteq Mails \cup Jira
  BY <1>0, <1>2 DEF Exists, Inv, TypeOK
<1> QED  BY <1>7, <1>8, <1>11, <1>12, Quiet DEF Exists, Inv, TypeOK, world, files, store, memory, history

LEMMA WriteDocKeeps ==
    ASSUME Inv, NEW h \in Handlers, WriteDoc(h)
    PROVE  Inv'
<1>0. PICK j \in Job : j = job[h]
  BY JobAt DEF WriteDoc, At
<1>1. WellFormed(h, j) /\ job[h] # None /\ j.step = "write"
  BY <1>0, JobAt DEF WriteDoc, At
<1>2. j.op = "migration" /\ MigrationJob(j) /\ j.at \in Items \ Jira
  BY <1>1 DEF WellFormed, MailJob, MailSteps, MigrationJob, Job, Ops
<1>3. "record" \in Steps
  BY DEF Steps
<1>4. PICK k \in Job : k = Moved(j, "record")
  BY <1>3, MovedJob
<1>5. k.op = j.op /\ k.step = "record" /\ k.todo = j.todo /\ k.at = j.at
  BY <1>3, <1>4, MovedJob
<1>6. job' = [job EXCEPT ![h] = k]
  BY <1>0, <1>4 DEF WriteDoc, Goto, Moved
<1>7. docs \in [Items \ Jira -> SUBSET {"home", "elsewhere"}]
  BY DEF Inv, TypeOK
<1>8. docs' = [docs EXCEPT ![j.at] = IF @ = {} THEN {"home"} ELSE @]
  BY <1>0 DEF WriteDoc, Written
<1>9. /\ docs' \in [Items \ Jira -> SUBSET {"home", "elsewhere"}]
      /\ \A i \in Items \ Jira : docs[i] # {} => docs'[i] # {}
      /\ docs'[j.at] # {}
  BY <1>2, <1>7, <1>8
<1>10. Kept
  BY <1>9 DEF WriteDoc, Kept, world, files, store, memory
<1>11. WellFormed(h, j)'
  BY <1>1, <1>10, FormedKept
<1>12. Stored(j.at)'
  BY <1>2, <1>9 DEF Stored
<1>13. MigrationJob(k)'
  BY <1>1, <1>2, <1>5, <1>11, <1>12 DEF WellFormed, MigrationJob, MigrationSteps
<1>14. WellFormed(h, k)'
  BY <1>2, <1>5, <1>11, <1>13 DEF WellFormed
<1> QED  BY <1>6, <1>9, <1>14, DocsKeeps DEF WriteDoc, world

LEMMA WriteRaisesKeeps ==
    ASSUME Inv, NEW h \in Handlers, WriteRaises(h)
    PROVE  Inv'
<1>1. PICK j \in Job : j = job[h]
  BY JobAt DEF WriteRaises, At
<1>2. WellFormed(h, j) /\ j.step = "write" /\ j.op \in Ops
  BY <1>1, JobAt DEF WriteRaises, At, Job
<1>3. j.at \in Items \ Jira
  BY <1>2 DEF WellFormed, MailJob, MailSteps, MigrationJob, Ops
<1>4. docs \in [Items \ Jira -> SUBSET {"home", "elsewhere"}]
  BY DEF Inv, TypeOK
<1>5. docs' = [docs EXCEPT ![j.at] = IF @ = {} THEN {"home"} ELSE @]
  BY <1>1 DEF WriteRaises, Written
<1>6. /\ docs' \in [Items \ Jira -> SUBSET {"home", "elsewhere"}]
      /\ \A i \in Items \ Jira : docs[i] # {} => docs'[i] # {}
  BY <1>3, <1>4, <1>5
<1> QED  BY <1>6, DocsKeeps DEF WriteRaises, Finish, world

LEMMA RecordKeeps ==
    ASSUME Inv, NEW h \in Handlers, Record(h)
    PROVE  Inv'
<1>0. PICK j \in Job : j = job[h]
  BY JobAt DEF Record, At
<1>1. WellFormed(h, j) /\ job[h] # None /\ j.step = "record"
  BY <1>0, JobAt DEF Record, At
<1>2. j.op = "migration" /\ MigrationJob(j) /\ j.at \in Items /\ Migrates(j.at) /\ Stored(j.at)
  BY <1>1 DEF WellFormed, MailJob, MailSteps, MigrationJob, Job, Ops
<1>3. "next" \in Steps
  BY DEF Steps
<1>4. PICK k \in Job : k = Moved(j, "next")
  BY <1>3, MovedJob
<1>5. k.op = j.op /\ k.step = "next" /\ k.todo = j.todo /\ k.at = j.at
  BY <1>3, <1>4, MovedJob
<1>6. job' = [job EXCEPT ![h] = k]
  BY <1>0, <1>4 DEF Record, Goto, Moved
<1>7. idmap' = idmap \cup {j.at}
  BY <1>0 DEF Record
<1>8. idmap \subseteq idmap' /\ idmap' \subseteq Marked
  BY <1>2, <1>7 DEF Migrates, Inv, TypeOK
<1>9. Kept
  BY <1>8 DEF Record, Kept, world, files, store
<1>10. WellFormed(h, j)'
  BY <1>1, <1>9, FormedKept
<1>11. Repaired(j.at)'
  <2>1. Stored(j.at)' /\ Migrates(j.at)'
    BY <1>2, <1>9, StoredKept DEF Migrates, Kept
  <2> QED  BY <1>7, <2>1 DEF Repaired
<1>12. MigrationJob(k)'
  BY <1>1, <1>2, <1>5, <1>10, <1>11 DEF WellFormed, MigrationJob, MigrationSteps
<1>13. WellFormed(h, k)'
  BY <1>2, <1>5, <1>10, <1>12 DEF WellFormed
<1> QED  BY <1>6, <1>8, <1>13, Quiet DEF Record, Inv, TypeOK, world, files, store, memory, history

LEMMA GrantKeeps ==
    ASSUME Inv, NEW h \in Handlers, Grant(h)
    PROVE  Inv'
<1>0. PICK j \in Job : j = job[h]
  BY JobAt DEF Grant, At
<1>1. WellFormed(h, j) /\ job[h] # None /\ j.step = "grant"
  BY <1>0, JobAt DEF Grant, At
<1>2. "append" \in Steps
  BY DEF Steps
<1>3. PICK k \in Job : k = Moved(j, "append")
  BY <1>2, MovedJob
<1>4. /\ k.op = j.op /\ k.step = "append" /\ k.todo = j.todo /\ k.at = j.at
      /\ k.requester = j.requester /\ k.ticket = j.ticket
  BY <1>2, <1>3, MovedJob
<1>5. job' = [job EXCEPT ![h] = k]
  BY <1>0, <1>3 DEF Grant, Goto, Moved
<1>6. j.ticket \in Tickets
  BY <1>1 DEF WellFormed, MailJob, MigrationJob, Job, Ops, Tickets
<1>7. viewers' \subseteq Principals \X Tickets
  BY <1>0, <1>6 DEF Grant, Inv, TypeOK, Job
<1>8. WellFormed(h, k)
  BY <1>1, <1>4 DEF WellFormed, MailJob, MailSteps, MigrationJob, MigrationSteps
<1>9. WellFormed(h, k)'
  BY <1>8, FormedKept DEF Grant, Kept, world, files, memory
<1> QED  BY <1>5, <1>7, <1>9, Quiet DEF Grant, Inv, TypeOK, world, files, memory, history

\* The ticket a job is about to put is its own.
LEMMA PutFacts ==
    ASSUME Inv, NEW h \in Handlers, At(h, "put"), NEW j \in Job, j = job[h]
    PROVE  /\ WellFormed(h, j) /\ j.step = "put" /\ NewTicket(h) \in Ticket
           /\ NewTicket(h).requester = j.requester
           /\ j.op = "mail" => MailJob(j) /\ j.requester = Requester(j.at)
           /\ j.op = "migration" =>
                  MigrationJob(j) /\ j.at \in Jira /\ j.requester = ReporterOf(j.at)
           /\ j.op \in Ops
<1>1. WellFormed(h, j) /\ j.step = "put" /\ j.op \in Ops
  BY JobAt DEF At, Job
<1>2. j.op = "mail" => MailJob(j) /\ j.requester = Requester(j.at) /\ j.at \in Mails
  BY <1>1 DEF WellFormed, MailJob
<1>3. NewTicket(h) \in Ticket /\ NewTicket(h).requester = j.requester
  BY <1>2 DEF NewTicket, Ticket, Job, Inv, TypeOK
<1>4. j.op = "migration" => MigrationJob(j) /\ j.at \in Jira /\ j.requester = ReporterOf(j.at)
  BY <1>1 DEF WellFormed, MigrationJob
<1> QED  BY <1>1, <1>2, <1>3, <1>4

LEMMA PutKeeps ==
    ASSUME Inv, NEW h \in Handlers, Put(h) \/ PutRaises(h)
    PROVE  Inv'
<1>0. PICK j \in Job : j = job[h]
  BY JobAt DEF Put, PutRaises, Puts, At
<1>1. /\ WellFormed(h, j) /\ j.step = "put" /\ NewTicket(h) \in Ticket
      /\ NewTicket(h).requester = j.requester
      /\ j.op = "mail" => MailJob(j) /\ j.requester = Requester(j.at)
      /\ j.op = "migration" => MigrationJob(j) /\ j.at \in Jira /\ j.requester = ReporterOf(j.at)
      /\ j.op \in Ops
  BY <1>0, PutFacts DEF Put, PutRaises, Puts
<1>2. PICK t \in Tickets :
          /\ Puts(h, t)
          /\ \/ job' = [job EXCEPT ![h].ticket = t, ![h].step = "grant"] /\ half' = half
             \/ job' = [job EXCEPT ![h] = None] /\ half' = half \cup ({t} \cap Jira)
  BY DEF Put, PutRaises, Finish, history
<1>3. /\ tickets' = [tickets EXCEPT ![t] = NewTicket(h)] /\ torn' = torn \ {t}
      /\ t \in Tickets /\ (j.op = "mail" => t \in MailTickets /\ tickets[t] = None)
      /\ (j.op = "migration" => t = j.at)
  BY <1>0, <1>1, <1>2 DEF Puts, Ops
<1>4. UNCHANGED <<world, comments, viewers, rewriting, rewrites, memory, docs, restarts,
                  imported, raced, missed>>
  BY DEF Put, PutRaises, history
<1> DEFINE k == [j EXCEPT !.ticket = t, !.step = "grant"]
<1>5. k \in Job
  BY <1>3 DEF Job, Steps
<1>6. /\ k.op = j.op /\ k.step = "grant" /\ k.todo = j.todo /\ k.at = j.at
      /\ k.requester = j.requester /\ k.ticket = t
  BY DEF Job
<1>7. PICK l \in Job : l = k
  BY <1>5
<1>8. job' = [job EXCEPT ![h] = l] \/ job' = [job EXCEPT ![h] = None]
  BY <1>0, <1>2, <1>7
<1> HIDE DEF k
<1>9. PICK r \in Ticket : r = NewTicket(h)
  BY <1>1
<1>10. tickets \in [Tickets -> Ticket \cup {None}] /\ r # None /\ r.requester = j.requester
  BY <1>1, <1>9, ConstantFacts DEF Inv, TypeOK
<1>11. /\ tickets' \in [Tickets -> Ticket \cup {None}]
       /\ tickets'[t] = r
       /\ \A u \in Tickets : u # t => tickets'[u] = tickets[u]
  BY <1>3, <1>9, <1>10
<1>12. tickets[t] # None => tickets[t].requester = r.requester
  <2>1. CASE j.op = "mail"
    BY <1>3, <2>1
  <2>2. CASE j.op = "migration"
    BY <1>1, <1>3, <1>10, <2>2 DEF Inv, StoreFormed
  <2> QED  BY <1>1, <2>1, <2>2 DEF Ops
<1>13. Kept
  BY <1>3, <1>4, <1>10, <1>11, <1>12 DEF Kept, world, files, memory
<1>14. WellFormed(h, j)' /\ Owned(t, j.requester)'
  BY <1>1, <1>10, <1>11, <1>13, FormedKept DEF Owned
<1>15. WellFormed(h, l)'
  <2>1. j.op = "mail" => MailJob(l)'
    BY <1>1, <1>3, <1>6, <1>7, <1>14 DEF WellFormed, MailJob, MailSteps
  <2>2. j.op = "migration" => MigrationJob(l)'
    BY <1>1, <1>3, <1>6, <1>7, <1>14 DEF WellFormed, MigrationJob, MigrationSteps
  <2> QED  BY <1>6, <1>7, <1>14, <2>1, <2>2 DEF WellFormed
<1>16. job' \in [Handlers -> Job \cup {None}] /\ JobsFormed'
  BY <1>8, <1>13, <1>15, JobStep
<1>17. TypeOK'
  BY <1>2, <1>3, <1>4, <1>11, <1>16 DEF Inv, TypeOK, world, files, memory, history
<1>18. StoreFormed'
  <2>1. \A u \in Tickets : tickets'[u] = None => comments'[u] = <<>>
    BY <1>4, <1>10, <1>11 DEF Inv, StoreFormed
  <2>2. ASSUME NEW i \in Jira, tickets'[i] # None  PROVE tickets'[i].requester = ReporterOf(i)
    <3>1. CASE i = t
      BY <1>1, <1>3, <1>10, <1>11, <3>1, ConstantFacts DEF Ops
    <3>2. CASE i # t
      BY <1>11, <2>2, <3>2 DEF Inv, StoreFormed, Tickets
    <3> QED  BY <3>1, <3>2
  <2> QED  BY <2>1, <2>2 DEF StoreFormed, ReporterOf
<1>19. AttributedToSender'
  <2>1. ASSUME NEW u \in MailTickets, NEW c \in Contents(u)'
        PROVE  /\ Trusted(c.content)' /\ c.author = Requester(c.content)'
               /\ c.author = tickets'[u].requester
    <3>1. c \in Contents(u) /\ comments[u] # <<>>
      BY <1>4 DEF Contents
    <3>2. tickets[u] # None /\ tickets'[u].requester = tickets[u].requester
      BY <1>13, <3>1 DEF Inv, StoreFormed, Kept, Tickets
    <3> QED  BY <1>4, <3>1, <3>2 DEF Inv, AttributedToSender, Trusted, Requester, From, world
  <2> QED  BY <2>1 DEF AttributedToSender
<1>20. RunRepaired'
  BY <1>4, <1>13, RepairedKept DEF Inv, RunRepaired
<1> QED  BY <1>16, <1>17, <1>18, <1>19, <1>20 DEF Inv

\* One comment more.
LEMMA AppendedContents ==
    ASSUME comments \in [Tickets -> Seq(Comment)], NEW t \in Tickets, NEW c \in Comment,
           comments' = [comments EXCEPT ![t] = @ \o <<c>>]
    PROVE  /\ comments' \in [Tickets -> Seq(Comment)]
           /\ \A u \in Tickets : u # t => comments'[u] = comments[u]
           /\ Len(comments'[t]) = Len(comments[t]) + 1
           /\ \A u \in Tickets : Contents(u) \subseteq Contents(u)'
           /\ Contents(t)' = Contents(t) \cup {c}
<1>1. /\ comments'[t] = comments[t] \o <<c>> /\ comments[t] \in Seq(Comment)
      /\ \A u \in Tickets : u # t => comments'[u] = comments[u]
  OBVIOUS
<1>2. comments[t] \o <<c>> \in Seq(Comment)
  BY <1>1
<1>3. comments' \in [Tickets -> Seq(Comment)]
  BY <1>2
<1>4. Len(comments'[t]) = Len(comments[t]) + 1
  BY <1>1
<1>5. /\ \A n \in 1..Len(comments[t]) : comments'[t][n] = comments[t][n]
      /\ comments'[t][Len(comments[t]) + 1] = c
  BY <1>1
<1>6. Contents(t)' = Contents(t) \cup {c}
  <2>1. DOMAIN comments[t] = 1..Len(comments[t]) /\ DOMAIN comments'[t] = 1..(Len(comments[t]) + 1)
        /\ Len(comments[t]) \in Nat
    BY <1>1, <1>2, <1>4
  <2>2. 1..(Len(comments[t]) + 1) = (1..Len(comments[t])) \cup {Len(comments[t]) + 1}
    BY <2>1
  <2> QED  BY <1>5, <2>1, <2>2 DEF Contents
<1>7. ASSUME NEW u \in Tickets  PROVE Contents(u) \subseteq Contents(u)'
  <2>1. CASE u = t
    BY <1>6, <2>1
  <2>2. CASE u # t
    BY <1>1, <2>2 DEF Contents
  <2> QED  BY <2>1, <2>2
<1> QED  BY <1>1, <1>3, <1>4, <1>6, <1>7

LEMMA AppendFacts ==
    ASSUME Inv, NEW h \in Handlers, At(h, "append"), NEW j \in Job, j = job[h]
    PROVE  /\ WellFormed(h, j) /\ j.step = "append" /\ j.op \in Ops /\ j.ticket \in Tickets
           /\ Owned(j.ticket, j.requester)
           /\ j.at \in Mails \cup Items
           /\ j.op = "mail" => /\ MailJob(j) /\ j.at \in Mails /\ j.ticket \in MailTickets
                               /\ Trusted(j.at) /\ j.requester = Requester(j.at)
           /\ j.op = "migration" => MigrationJob(j) /\ j.at \in Jira /\ j.ticket = j.at
<1>1. WellFormed(h, j) /\ j.step = "append" /\ j.op \in Ops
  BY JobAt DEF At, Job
<1>2. CASE j.op = "mail"
  BY <1>1, <1>2 DEF WellFormed, MailJob, Tickets
<1>3. CASE j.op = "migration"
  BY <1>1, <1>3, ConstantFacts DEF WellFormed, MigrationJob, Tickets
<1> QED  BY <1>1, <1>2, <1>3 DEF Ops

LEMMA AppendKeeps ==
    ASSUME Inv, NEW h \in Handlers, AppendComment(h) \/ AppendRaises(h)
    PROVE  Inv'
<1>0. PICK j \in Job : j = job[h]
  BY JobAt DEF AppendComment, AppendRaises, At
<1>1. /\ WellFormed(h, j) /\ j.step = "append" /\ j.op \in Ops /\ j.ticket \in Tickets
      /\ Owned(j.ticket, j.requester) /\ j.at \in Mails \cup Items
      /\ j.op = "mail" => /\ MailJob(j) /\ j.at \in Mails /\ j.ticket \in MailTickets
                          /\ Trusted(j.at) /\ j.requester = Requester(j.at)
      /\ j.op = "migration" => MigrationJob(j) /\ j.at \in Jira /\ j.ticket = j.at
  BY <1>0, AppendFacts DEF AppendComment, AppendRaises
<1>2. UNCHANGED <<world, tickets, viewers, files, memory, docs, restarts, history>>
  BY DEF AppendComment, AppendRaises
<1>3. PICK step \in Steps : step = IF j.op = "mail" THEN "next" ELSE "record"
  BY DEF Steps
<1>4. PICK k \in Job : k = Moved(j, step)
  BY MovedJob
<1>5. /\ k.op = j.op /\ k.step = step /\ k.todo = j.todo /\ k.at = j.at
      /\ k.requester = j.requester /\ k.ticket = j.ticket
  BY <1>4, MovedJob
<1>6. job' = [job EXCEPT ![h] = k] \/ job' = [job EXCEPT ![h] = None]
  BY <1>0, <1>3, <1>4 DEF AppendComment, AppendRaises, Finish, Goto, Moved
<1>7. PICK c \in Comment : c = [author |-> j.requester, content |-> j.at]
  BY <1>1 DEF Comment, Job
<1>8. c.author = j.requester /\ c.content = j.at
  BY <1>7
<1>9. comments' = [comments EXCEPT ![j.ticket] = @ \o <<c>>] /\ comments \in [Tickets -> Seq(Comment)]
  BY <1>0, <1>7 DEF AppendComment, AppendRaises, Appended, Inv, TypeOK
<1>10. /\ comments' \in [Tickets -> Seq(Comment)]
       /\ \A u \in Tickets : u # j.ticket => comments'[u] = comments[u]
       /\ \A u \in Tickets : Contents(u) \subseteq Contents(u)'
       /\ Contents(j.ticket)' = Contents(j.ticket) \cup {c}
  BY <1>1, <1>9, AppendedContents
<1>11. Kept
  BY <1>2 DEF Kept, world, files, memory
<1>12. WellFormed(h, k)
  <2>1. ASSUME j.op = "mail"  PROVE MailJob(k)
    BY <1>1, <1>3, <1>5, <2>1 DEF MailJob, MailSteps
  <2>2. ASSUME j.op = "migration"  PROVE MigrationJob(k)
    <3>1. Stored(j.at)
      BY <1>1, <2>2 DEF Stored, MigrationJob
    <3> QED  BY <1>1, <1>3, <1>5, <2>2, <3>1 DEF MigrationJob, MigrationSteps
  <2> QED  BY <1>1, <1>5, <2>1, <2>2 DEF WellFormed
<1>13. job' \in [Handlers -> Job \cup {None}] /\ JobsFormed'
  BY <1>6, <1>11, <1>12, FormedKept, JobStep
<1>15. TypeOK'
  BY <1>1, <1>2, <1>10, <1>13 DEF Inv, TypeOK, world, files, memory, history
<1>16. StoreFormed'
  <2>1. \A t \in Tickets : tickets'[t] = None => comments'[t] = <<>>
    BY <1>1, <1>2, <1>10 DEF Inv, StoreFormed, Owned
  <2> QED  BY <1>2, <2>1 DEF Inv, StoreFormed, ReporterOf
<1>17. AttributedToSender'
  <2>1. ASSUME NEW t \in MailTickets, NEW d \in Contents(t)'
        PROVE  /\ Trusted(d.content)' /\ d.author = Requester(d.content)'
               /\ d.author = tickets'[t].requester
    <3>1. CASE d \in Contents(t)
      BY <1>2, <3>1 DEF Inv, AttributedToSender, Trusted, Requester, From, world
    <3>2. CASE d \notin Contents(t)
      <4>1. t = j.ticket /\ d = c
        BY <1>10, <3>2 DEF Contents, Tickets
      <4>2. j.op = "mail"
        BY <1>1, <4>1, ConstantFacts DEF Ops
      <4> QED  BY <1>1, <1>2, <1>8, <4>1, <4>2 DEF Owned, Trusted, Requester, From, world
    <3> QED  BY <3>1, <3>2
  <2> QED  BY <2>1 DEF AttributedToSender
<1>18. RunRepaired'
  BY <1>2, <1>11, RepairedKept DEF Inv, RunRepaired, history
<1> QED  BY <1>13, <1>15, <1>16, <1>17, <1>18 DEF Inv

LEMMA RestartKeeps == ASSUME Inv, Restart  PROVE Inv'
<1>1. restarts' \in 0..scenario.restarts
  <2>1. scenario.restarts \in Nat
    BY ConstantFacts DEF Inv, TypeOK, Scenario
  <2> QED  BY <2>1 DEF Inv, TypeOK, Restart
<1>2. UNCHANGED <<scenario, tickets, comments>>
  BY DEF Restart, world, store
<1>3. half' \subseteq Jira
  <2>1. ASSUME NEW h \in Handlers  PROVE HalfDone(h) \subseteq Jira
    BY JobAt DEF HalfDone, WellFormed, MigrationJob
  <2> QED  BY <2>1 DEF Restart, Inv, TypeOK
<1>4. TypeOK'
  BY <1>1, <1>3 DEF Inv, TypeOK, Restart, world, store
<1>5. JobsFormed' /\ RunRepaired'
  BY DEF Restart, JobsFormed, RunRepaired
<1> QED  BY <1>2, <1>4, <1>5, StoreStays DEF Inv

LEMMA NextKeeps == Inv /\ [Next]_vars => Inv'
<1> SUFFICES ASSUME Inv, [Next]_vars  PROVE Inv'
  OBVIOUS
<1>1. CASE UNCHANGED vars
  <2>1. Kept /\ UNCHANGED <<scenario, tickets, comments>>
    BY <1>1 DEF vars, files, Kept, world, store, memory
  <2>2. TypeOK'
    BY <1>1 DEF Inv, TypeOK, vars, files, world, store, memory, history
  <2>3. ASSUME NEW h \in Handlers, job'[h] # None  PROVE WellFormed(h, job[h])'
    <3>1. PICK j \in Job : j = job[h]
      BY <1>1, <2>3 DEF Inv, TypeOK, vars, files
    <3>2. WellFormed(h, j)'
      BY <1>1, <2>1, <2>3, <3>1, FormedKept DEF Inv, JobsFormed, vars
    <3> QED  BY <1>1, <3>1, <3>2 DEF vars
  <2>4. RunRepaired'
    BY <1>1, <2>1, RepairedKept DEF Inv, RunRepaired, vars, history
    <2> QED  BY <2>1, <2>2, <2>3, <2>4, StoreStays DEF Inv, JobsFormed
<1>2. ASSUME NEW h \in Handlers,
             \/ BeginPoll(h) \/ BeginRun(h) \/ Done(h)
             \/ TakeMail(h) \/ Ingest(h) \/ Count(h) \/ StoreSeq(h)
             \/ TakeItem(h) \/ Exists(h) \/ WriteDoc(h) \/ Record(h)
             \/ Put(h) \/ Grant(h) \/ AppendComment(h)
             \/ Raises(h) \/ PutRaises(h) \/ AppendRaises(h) \/ WriteRaises(h)
      PROVE  Inv'
  BY <1>2, BeginKeeps, DoneKeeps, TakeKeeps, IngestKeeps, CountKeeps, ExistsKeeps, WriteDocKeeps,
     RecordKeeps, PutKeeps, GrantKeeps, AppendKeeps, RaisesKeeps,
     WriteRaisesKeeps
<1>3. ASSUME NEW m \in Mails, Send(m) \/ Redeliver(m)  PROVE Inv'
  BY <1>3, SendKeeps
<1>4. ASSUME NEW i \in Items \ Jira, Move(i)  PROVE Inv'
  BY <1>4, MoveKeeps
<1> QED  BY <1>1, <1>2, <1>3, <1>4, RewriteKeeps, RestartKeeps DEF Next

LEMMA InvHolds == Spec => []Inv
BY InitInv, NextKeeps, PTL DEF Spec

\* Mailbox, stores, memory and requests keep their types, for any number of threads,
\* messages, items and restarts.
THEOREM TypeCorrect == Spec => []TypeOK
<1>1. Inv => TypeOK
  BY DEF Inv
<1> QED  BY <1>1, InvHolds, PTL

\* INV-EMAIL-1: whatever number of pollers ingest, and whatever is redelivered, fails or
\* is restarted, no mail is in a ticket that is not its verified sender's.
THEOREM MailIsItsSenders == Spec => []AttributedToSender
<1>1. Inv => AttributedToSender
  BY DEF Inv
<1> QED  BY <1>1, InvHolds, PTL

-----------------------------------------------------------------------------
(* By one operator, nothing is imported twice. *)

LEMMA InitOnce == Init => OnceInv
<1> SUFFICES ASSUME Init  PROVE Once
  BY DEF OnceInv
<1>1. \A i \in Jira : comments[i] = <<>>
  BY DEF Init, Tickets
<1> QED  BY <1>1 DEF Init, Once

LEMMA ScenarioStays == [Next]_vars => UNCHANGED scenario
BY DEF Next, vars, world, BeginPoll, BeginRun, Done, TakeMail, Ingest, Count, StoreSeq, TakeItem,
   Exists, WriteDoc, Record, Put, Grant, AppendComment, Raises, PutRaises, AppendRaises, WriteRaises,
   Send, Redeliver, Move, Rewrite, Rewritten, Restart

\* A migrating job that is about to put, grant or append finds no comment, or missed one.
Clear(j) ==
    j.op = "migration" /\ j.step \in {"put", "grant", "append"} =>
        comments[j.at] = <<>> \/ j.at \in missed

LEMMA OnceStep ==
    ASSUME Inv, Once, NEW h \in Handlers, NEW k \in Job \cup {None},
           job' = [job EXCEPT ![h] = k], UNCHANGED comments, missed \subseteq missed',
           k # None => Clear(k)'
    PROVE  Once'
<1>1. job \in [Handlers -> Job \cup {None}]
  BY DEF Inv, TypeOK
<1> QED  BY <1>1 DEF Once, Clear

LEMMA BeginOnce ==
    ASSUME Inv, Once, NEW h \in Handlers,
           BeginPoll(h) \/ BeginRun(h) \/ Done(h) \/ Raises(h) \/ PutRaises(h) \/ WriteRaises(h)
    PROVE  Once'
<1>1. CASE Done(h) \/ Raises(h) \/ PutRaises(h) \/ WriteRaises(h)
  BY <1>1, OnceStep DEF Done, Raises, PutRaises, WriteRaises, Finish, store, history
<1>2. CASE BeginPoll(h) \/ BeginRun(h)
  <2>1. PICK list \in SUBSET (Mails \cup Items), op \in Ops : Begin(h, op, list)
    BY <1>2 DEF BeginPoll, BeginRun, Ops, Inv, TypeOK
  <2> DEFINE k == [op |-> op, step |-> "next", todo |-> list, at |-> None,
                   requester |-> None, ticket |-> None, seq |-> 0]
  <2>2. k \in Job
    BY DEF Job, Steps, Principals
  <2>3. job' = [job EXCEPT ![h] = k] /\ Clear(k)'
    BY <2>1 DEF Begin, Clear
  <2> HIDE DEF k
  <2> QED  BY <1>2, <2>2, <2>3, OnceStep DEF BeginPoll, BeginRun, store, history
<1> QED  BY <1>1, <1>2

LEMMA MailOnce ==
    ASSUME Inv, Once, NEW h \in Handlers,
           TakeMail(h) \/ Ingest(h) \/ Count(h) \/ StoreSeq(h)
    PROVE  Once'
<1>0. job \in [Handlers -> Job \cup {None}] /\ Inv'
  BY TakeKeeps, IngestKeeps, CountKeeps DEF Inv, TypeOK
<1>1. job[h] # None /\ job[h] \in Job /\ WellFormed(h, job[h])
  BY JobAt DEF TakeMail, Ingest, Count, StoreSeq, At
<1>2. job[h].op = "mail"
  BY <1>1 DEF TakeMail, Ingest, Count, StoreSeq, At, WellFormed, MigrationJob, MigrationSteps, Job, Ops
<1>3. /\ job'[h].op = "mail" /\ UNCHANGED comments /\ missed \subseteq missed'
      /\ \A g \in Handlers : g # h => job'[g] = job[g]
  <2>1. CASE TakeMail(h)
    <3>1. UNCHANGED <<comments, missed>>
      BY <2>1 DEF TakeMail, store, history
    <3>2. PICK m : job' = [job EXCEPT ![h] = TakenJob(job[h], m, "route")]
      BY <2>1 DEF TakeMail, Taken, TakenJob
    <3>3. TakenJob(job[h], m, "route").op = "mail"
      BY <1>1, <1>2 DEF TakenJob, Job
    <3> QED  BY <1>0, <3>1, <3>2, <3>3
  <2>2. CASE Ingest(h)
    <3>1. UNCHANGED comments /\ missed \subseteq missed'
      BY <2>2 DEF Ingest, store
    <3>2. PICK t \in MailTickets \cup {None} :
              \/ Goto(h, "next")
              \/ job' = [job EXCEPT ![h].ticket = t, ![h].step = "append",
                                    ![h].requester = Requester(job[h].at)]
              \/ job' = [job EXCEPT ![h].requester = Requester(job[h].at), ![h].step = "count"]
      BY <2>2, ZenonT(30) DEF Ingest
    <3> QED  BY <1>0, <1>1, <1>2, <3>1, <3>2 DEF Goto, Job
  <2>3. CASE Count(h)
    BY <1>0, <1>1, <1>2, <2>3 DEF Count, Job, store
  <2>4. CASE StoreSeq(h)
    BY <1>0, <1>1, <1>2, <2>4 DEF StoreSeq, Goto, Job, store, history
  <2> QED  BY <2>1, <2>2, <2>3, <2>4
<1> QED  BY <1>3 DEF Once

LEMMA ItemOnce ==
    ASSUME Inv, Once, NEW h \in Handlers,
           TakeItem(h) \/ WriteDoc(h) \/ Record(h)
    PROVE  Once'
<1>0. PICK j \in Job : j = job[h]
  BY JobAt DEF TakeItem, WriteDoc, Record, At
<1>1. job[h] # None
  BY DEF TakeItem, WriteDoc, Record, At
<1>2. CASE TakeItem(h)
  <2>1. PICK i \in Items, step \in {"exists", "write", "next"} : Taken(h, i, step)
    <3>1. WellFormed(h, j) /\ j.op = "migration"
      BY <1>0, <1>1, <1>2, JobAt DEF TakeItem
    <3>2. j.todo \subseteq Items
      BY <3>1 DEF WellFormed, MigrationJob
    <3> QED  BY <1>0, <1>2, <3>2 DEF TakeItem
  <2>2. step \in Steps
    BY DEF Steps
  <2>3. PICK k \in Job : k = TakenJob(j, i, step)
    BY <2>2, TakenIsJob
  <2>4. k.step = step
    BY <2>2, <2>3, TakenIsJob
  <2>5. job' = [job EXCEPT ![h] = k] /\ Clear(k)'
    BY <1>0, <2>1, <2>3, <2>4 DEF Taken, TakenJob, Clear
  <2> QED  BY <1>2, <2>5, OnceStep DEF TakeItem, store, history
<1>3. CASE WriteDoc(h) \/ Record(h)
  <2>1. PICK step \in {"record", "next"} : Goto(h, step)
    BY <1>3 DEF WriteDoc, Record
  <2>2. step \in Steps
    BY DEF Steps
  <2>3. PICK k \in Job : k = Moved(j, step)
    BY <2>2, MovedJob
  <2>4. k.step = step
    BY <2>2, <2>3, MovedJob
  <2>5. job' = [job EXCEPT ![h] = k] /\ Clear(k)'
    BY <1>0, <2>1, <2>3, <2>4 DEF Goto, Moved, Clear
  <2> QED  BY <1>3, <2>5, OnceStep DEF WriteDoc, Record, store, history
<1> QED  BY <1>2, <1>3

LEMMA ExistsOnce ==
    ASSUME Inv, Once, NEW h \in Handlers, Exists(h)
    PROVE  Once'
<1>0. PICK j \in Job : j = job[h]
  BY JobAt DEF Exists, At
<1>1. WellFormed(h, j) /\ job[h] # None /\ j.step = "exists"
  BY <1>0, JobAt DEF Exists, At
<1>2. j.op = "migration" /\ j.at \in Jira
  BY <1>1 DEF WellFormed, MailJob, MailSteps, MigrationJob, Job, Ops
<1>3. PICK step \in Steps : step = IF Migrated(j.at) THEN "record" ELSE "put"
  BY DEF Steps
<1>4. PICK p \in Principals : p = ReporterOf(j.at)
  BY <1>2, PrincipalsNamed, ConstantFacts
<1> DEFINE k == [j EXCEPT !.step = step, !.requester = p]
<1>5. k \in Job /\ k.step = step /\ k.at = j.at
  BY DEF Job
<1>6. job' = [job EXCEPT ![h] = k]
  BY <1>0, <1>3, <1>4 DEF Exists, AfterSkip
<1> HIDE DEF k
<1>7. missed \subseteq missed' /\ (step = "put" => comments[j.at] = <<>> \/ j.at \in missed')
  BY <1>0, <1>2, <1>3 DEF Exists, Migrated, Inv, StoreFormed, Tickets
<1>8. UNCHANGED comments
  BY DEF Exists, store
<1>9. Clear(k)'
  BY <1>3, <1>5, <1>7, <1>8 DEF Clear
<1> QED  BY <1>5, <1>6, <1>7, <1>8, <1>9, OnceStep

LEMMA PutOnce ==
    ASSUME Inv, Once, NEW h \in Handlers, Put(h) \/ Grant(h)
    PROVE  Once'
<1>0. job \in [Handlers -> Job \cup {None}]
  BY DEF Inv, TypeOK
<1>1. job[h] # None /\ job[h] \in Job /\ job[h].step \in {"put", "grant"}
  BY JobAt DEF Put, Puts, Grant, At
<1>2. /\ job'[h].op = job[h].op /\ job'[h].at = job[h].at /\ UNCHANGED <<comments, missed>>
      /\ \A g \in Handlers : g # h => job'[g] = job[g]
  <2>1. CASE Put(h)
    <3>1. PICK t : job' = [job EXCEPT ![h].ticket = t, ![h].step = "grant"]
      BY <2>1 DEF Put
    <3>2. job'[h] = [job[h] EXCEPT !.ticket = t, !.step = "grant"]
      BY <1>0, <3>1
    <3>3. job'[h].step = "grant" /\ job'[h].op = job[h].op /\ job'[h].at = job[h].at
      BY <1>1, <3>2 DEF Job
    <3> QED  BY <1>0, <2>1, <3>1, <3>3 DEF Put, Puts, history
  <2>2. CASE Grant(h)
    <3>2. job'[h] = Moved(job[h], "append")
      BY <1>0, <2>2 DEF Grant, Goto, Moved
    <3>3. Moved(job[h], "append").op = job[h].op /\ Moved(job[h], "append").at = job[h].at
      BY <1>1, MovedJob DEF Steps
    <3> QED  BY <1>0, <2>2, <3>2, <3>3 DEF Grant, Goto, history
  <2> QED  BY <2>1, <2>2
<1> QED  BY <1>1, <1>2 DEF Once

\* One comment more on a ticket that had none or was missed, and no other thread is about to add one.
LEMMA AppendOnce ==
    ASSUME Inv, Once, OneMigrator, NEW h \in Handlers,
           AppendComment(h) \/ AppendRaises(h)
    PROVE  Once'
<1>0. PICK j \in Job : j = job[h]
  BY JobAt DEF AppendComment, AppendRaises, At
<1>1. /\ WellFormed(h, j) /\ j.step = "append" /\ j.op \in Ops /\ j.ticket \in Tickets
      /\ j.at \in Mails \cup Items
      /\ j.op = "mail" => j.ticket \in MailTickets
      /\ j.op = "migration" => j.at \in Jira /\ j.ticket = j.at
  BY <1>0, AppendFacts DEF AppendComment, AppendRaises
<1>2. PICK c \in Comment : c = [author |-> j.requester, content |-> j.at]
  BY <1>1 DEF Comment, Job
<1>3. comments' = [comments EXCEPT ![j.ticket] = @ \o <<c>>] /\ comments \in [Tickets -> Seq(Comment)]
  BY <1>0, <1>2 DEF AppendComment, AppendRaises, Appended, Inv, TypeOK
<1>4. /\ \A t \in Tickets : t # j.ticket => comments'[t] = comments[t]
      /\ Len(comments'[j.ticket]) = Len(comments[j.ticket]) + 1
  BY <1>1, <1>3, AppendedContents
<1>5. /\ job[h] # None /\ job \in [Handlers -> Job \cup {None}] /\ missed' = missed
      /\ \A g \in Handlers : g # h => job'[g] = job[g]
  BY DEF AppendComment, AppendRaises, At, Goto, Finish, Inv, TypeOK, history
<1>6. job'[h] = None \/ job'[h].step \in {"next", "record"}
  BY <1>0, <1>5 DEF AppendComment, AppendRaises, Goto, Finish, Job
<1>7. CASE j.op = "mail"
  <2>1. \A i \in Jira : comments'[i] = comments[i]
    BY <1>1, <1>4, <1>7, ConstantFacts DEF Tickets
  <2>2. ASSUME NEW g \in Handlers, job'[g] # None, job'[g].op = "migration",
               job'[g].step \in {"put", "grant", "append"}
        PROVE  comments'[job'[g].at] = <<>> \/ job'[g].at \in missed'
    <3>1. g # h /\ job'[g] = job[g]
      BY <1>5, <1>6, <2>2
    <3>2. WellFormed(g, job[g])
      BY <2>2, <3>1, JobAt
    <3>3. job[g].at \in Jira
      BY <2>2, <3>1, <3>2 DEF WellFormed, MigrationJob
    <3> QED  BY <1>5, <2>1, <2>2, <3>1, <3>3 DEF Once
  <2> QED  BY <1>5, <2>1, <2>2 DEF Once
<1>8. CASE j.op = "migration"
  <2>1. comments[j.at] = <<>> \/ j.at \in missed
    BY <1>0, <1>1, <1>5, <1>8 DEF Once
  <2>2. Len(comments'[j.at]) <= 1 \/ j.at \in missed'
    BY <1>1, <1>5, <1>4, <1>8, <2>1
  <2>3. \A i \in Jira : Len(comments'[i]) <= 1 \/ i \in missed'
    BY <1>1, <1>5, <1>4, <1>8, <2>2 DEF Once, Tickets
  <2>4. ASSUME NEW g \in Handlers, job'[g] # None, job'[g].op = "migration",
               job'[g].step \in {"put", "grant", "append"}
        PROVE  FALSE
    <3>1. g # h /\ job'[g] = job[g]
      BY <1>5, <1>6, <2>4
    <3>2. WellFormed(g, job[g])
      BY <2>4, <3>1, JobAt
    <3> QED  BY <1>1, <1>8, <2>4, <3>1, <3>2 DEF OneMigrator, WellFormed
  <2> QED  BY <2>3, <2>4 DEF Once
<1> QED  BY <1>1, <1>7, <1>8 DEF Ops

LEMMA NextOnce == Inv /\ OnceInv /\ [Next]_vars => OnceInv'
<1> SUFFICES ASSUME Inv, OnceInv, [Next]_vars, OneMigrator'  PROVE Once'
  BY DEF OnceInv
<1>0. OneMigrator /\ Once
  BY ScenarioStays DEF OneMigrator, OnceInv
<1>1. CASE UNCHANGED vars
  BY <1>0, <1>1 DEF Once, vars, store, history
<1>2. ASSUME NEW h \in Handlers,
             \/ BeginPoll(h) \/ BeginRun(h) \/ Done(h)
             \/ TakeMail(h) \/ Ingest(h) \/ Count(h) \/ StoreSeq(h)
             \/ TakeItem(h) \/ Exists(h) \/ WriteDoc(h) \/ Record(h)
             \/ Put(h) \/ Grant(h) \/ AppendComment(h)
             \/ Raises(h) \/ PutRaises(h) \/ AppendRaises(h) \/ WriteRaises(h)
      PROVE  Once'
  BY <1>0, <1>2, BeginOnce, MailOnce, ItemOnce, ExistsOnce, PutOnce, AppendOnce
<1>3. ASSUME NEW m \in Mails, Send(m) \/ Redeliver(m)  PROVE Once'
  BY <1>0, <1>3 DEF Once, Send, Redeliver, store, history
<1>4. ASSUME NEW i \in Items \ Jira, Move(i)  PROVE Once'
  BY <1>0, <1>4 DEF Once, Move, store, history
<1>5. CASE Restart
  BY <1>0, <1>5 DEF Once, Restart, store
<1>6. CASE Rewritten \/ \E t \in Tickets : Rewrite(t)
  BY <1>0, <1>6 DEF Once, Rewrite, Rewritten, store, history
<1> QED  BY <1>1, <1>2, <1>3, <1>4, <1>5, <1>6 DEF Next

LEMMA OnceHolds == Spec => []OnceInv
<1>1. Init /\ Inv => OnceInv
  BY InitOnce
<1> QED  BY <1>1, InitOnce, NextOnce, InvHolds, PTL DEF Spec

-----------------------------------------------------------------------------
\* A document has one place.
Placed == \A i \in Items \ Jira : docs[i] \in {{}, {"home"}, {"elsewhere"}}

LEMMA NextPlaced == Inv /\ Placed /\ [Next]_vars => Placed'
<1> SUFFICES ASSUME Inv, Placed, [Next]_vars, docs' # docs  PROVE Placed'
  BY DEF Placed
<1>1. docs \in [Items \ Jira -> SUBSET {"home", "elsewhere"}]
  BY DEF Inv, TypeOK
<1>2. \/ \E h \in Handlers : WriteDoc(h) \/ WriteRaises(h)
      \/ \E i \in Items \ Jira : Move(i)
  BY DEF Next, vars, BeginPoll, BeginRun, Done, TakeMail, Ingest, Count, StoreSeq, TakeItem,
     Exists, Record, Put, Grant, AppendComment, Raises, PutRaises, AppendRaises, Send, Redeliver,
     Rewrite, Rewritten, Restart
<1>3. CASE \E h \in Handlers : WriteDoc(h) \/ WriteRaises(h)
  BY <1>1, <1>3 DEF Placed, WriteDoc, WriteRaises, Written
<1>4. CASE \E i \in Items \ Jira : Move(i)
  BY <1>1, <1>4 DEF Placed, Move
<1> QED  BY <1>2, <1>3, <1>4

LEMMA PlacedHolds == Spec => []Placed
<1>1. Init => Placed
  BY DEF Init, Placed
<1> QED  BY <1>1, NextPlaced, InvHolds, PTL DEF Spec

LEMMA PlacedOnce == ASSUME Placed, NEW i \in Items \ Jira  PROVE Cardinality(docs[i]) <= 1
<1>1. Cardinality({}) = 0 /\ Cardinality({"home"}) = 1 /\ Cardinality({"elsewhere"}) = 1
  BY FS_EmptySet, FS_Singleton
<1> QED  BY <1>1 DEF Placed

-----------------------------------------------------------------------------
(* What a run began is complete, or known to be half done. *)

\* Comments and tuples are never taken away.
LEMMA StoreGrows ==
    ASSUME Inv, [Next]_vars
    PROVE  /\ \A t \in Tickets : Contents(t) \subseteq Contents(t)'
           /\ viewers \subseteq viewers' /\ half \subseteq half' /\ missed \subseteq missed'
<1>1. viewers \subseteq viewers' /\ half \subseteq half' /\ missed \subseteq missed'
  <2>1. viewers \subseteq viewers'
    <3>1. (\E h \in Handlers : Grant(h)) \/ viewers' = viewers
      BY DEF Next, vars, store, BeginPoll, BeginRun, Done, TakeMail, Ingest, Count, StoreSeq, TakeItem,
         Exists, WriteDoc, Record, Put, AppendComment, Raises, PutRaises, AppendRaises, WriteRaises,
         Send, Redeliver, Move, Rewrite, Rewritten, Restart
    <3>2. ASSUME NEW h \in Handlers, Grant(h)  PROVE viewers \subseteq viewers'
      BY <3>2 DEF Grant
    <3> QED  BY <3>1, <3>2
  <2>2. half \subseteq half'
    BY DEF Next, vars, history, BeginPoll, BeginRun, Done, TakeMail, Ingest, Count, StoreSeq, TakeItem,
       Exists, WriteDoc, Record, Put, Grant, AppendComment, Raises, PutRaises, AppendRaises, WriteRaises,
       Send, Redeliver, Move, Rewrite, Rewritten, Restart
  <2>3. missed \subseteq missed'
    <3>1. (\E h \in Handlers : Ingest(h)) \/ missed \subseteq missed'
      BY DEF Next, vars, history, BeginPoll, BeginRun, Done, TakeMail, Count, StoreSeq, TakeItem,
         Exists, WriteDoc, Record, Put, Grant, AppendComment, Raises, PutRaises, AppendRaises, WriteRaises,
         Send, Redeliver, Move, Rewrite, Rewritten, Restart
    <3>2. ASSUME NEW h \in Handlers, Ingest(h)  PROVE missed \subseteq missed'
      BY <3>2, ZenonT(30) DEF Ingest
    <3> QED  BY <3>1, <3>2
  <2> QED  BY <2>1, <2>2, <2>3
<1>2. ASSUME NEW h \in Handlers, AppendComment(h) \/ AppendRaises(h), NEW t \in Tickets
      PROVE  Contents(t) \subseteq Contents(t)'
  <2>1. PICK j \in Job : j = job[h]
    BY <1>2, JobAt DEF AppendComment, AppendRaises, At
  <2>2. j.ticket \in Tickets /\ j.at \in Mails \cup Items
    BY <1>2, <2>1, AppendFacts DEF AppendComment, AppendRaises
  <2>3. PICK c \in Comment : c = [author |-> j.requester, content |-> j.at]
    BY <2>2 DEF Comment, Job
  <2>4. comments' = [comments EXCEPT ![j.ticket] = @ \o <<c>>] /\ comments \in [Tickets -> Seq(Comment)]
    BY <1>2, <2>1, <2>3 DEF AppendComment, AppendRaises, Appended, Inv, TypeOK
  <2> QED  BY <2>2, <2>4, AppendedContents
<1>3. (\E h \in Handlers : AppendComment(h) \/ AppendRaises(h)) \/ comments' = comments
  BY DEF Next, vars, store, BeginPoll, BeginRun, Done, TakeMail, Ingest, Count, StoreSeq, TakeItem,
     Exists, WriteDoc, Record, Put, Grant, Raises, PutRaises, WriteRaises,
     Send, Redeliver, Move, Rewrite, Rewritten, Restart
<1> QED  BY <1>1, <1>2, <1>3 DEF Contents

Settled(i) == Complete(i) \/ i \in half

LEMMA SettledStays ==
    ASSUME Inv, [Next]_vars, NEW i \in Jira, Settled(i)
    PROVE  Settled(i)'
<1>1. i \in Tickets /\ Contents(i) \subseteq Contents(i)' /\ viewers \subseteq viewers' /\ half \subseteq half'
  BY StoreGrows DEF Tickets
<1> QED  BY <1>1 DEF Settled, Complete, ReporterOf

\* Job j has put the ticket of item i, and not yet its content.
Filing(j, i) == j.op = "migration" /\ j.step \in {"grant", "append"} /\ j.at = i

\* A ticket that is there is complete, half done, or being filed.
Whole ==
    /\ \A i \in Jira : tickets[i] # None =>
           Settled(i) \/ \E h \in Handlers : job[h] # None /\ Filing(job[h], i)
    /\ \A h \in Handlers : job[h] # None /\ job[h].op = "migration" /\ job[h].step = "append" =>
           <<job[h].requester, job[h].at>> \in viewers

\* A step of thread h leaves the other jobs as they are; the world, all jobs; a restart, none.
LEMMA JobsChange ==
    ASSUME Inv, [Next]_vars
    PROVE  \/ job' = job
           \/ job' = [g \in Handlers |-> None] /\ Restart
           \/ \E h \in Handlers :
                  /\ \A g \in Handlers \ {h} : job'[g] = job[g]
                  /\ \/ BeginPoll(h) \/ BeginRun(h) \/ Done(h)
                     \/ TakeMail(h) \/ Ingest(h) \/ Count(h) \/ StoreSeq(h)
                     \/ TakeItem(h) \/ Exists(h) \/ WriteDoc(h) \/ Record(h)
                     \/ Put(h) \/ Grant(h) \/ AppendComment(h)
                     \/ Raises(h) \/ PutRaises(h) \/ AppendRaises(h) \/ WriteRaises(h)
<1>0. job \in [Handlers -> Job \cup {None}]
  BY DEF Inv, TypeOK
<1>1. ASSUME NEW h \in Handlers,
             \/ BeginPoll(h) \/ BeginRun(h) \/ Done(h)
             \/ TakeMail(h) \/ Ingest(h) \/ Count(h) \/ StoreSeq(h)
             \/ TakeItem(h) \/ Exists(h) \/ WriteDoc(h) \/ Record(h)
             \/ Put(h) \/ Grant(h) \/ AppendComment(h)
             \/ Raises(h) \/ PutRaises(h) \/ AppendRaises(h) \/ WriteRaises(h),
             NEW g \in Handlers \ {h}
      PROVE  job'[g] = job[g]
  <2>1. CASE BeginPoll(h) \/ BeginRun(h) \/ Done(h) \/ Raises(h) \/ PutRaises(h) \/ AppendRaises(h)
             \/ WriteRaises(h)
    BY <1>0, <2>1 DEF BeginPoll, BeginRun, Begin, Done, Raises, PutRaises, AppendRaises, WriteRaises, Finish
  <2>2. CASE TakeMail(h) \/ TakeItem(h)
    BY <1>0, <2>2 DEF TakeMail, TakeItem, Taken
  <2>3. CASE Ingest(h)
    BY <1>0, <2>3 DEF Ingest, Goto
  <2>4. CASE Count(h) \/ StoreSeq(h) \/ Exists(h) \/ WriteDoc(h) \/ Record(h)
    BY <1>0, <2>4 DEF Count, StoreSeq, Exists, WriteDoc, Record, Goto
  <2>5. CASE Put(h) \/ Grant(h) \/ AppendComment(h)
    BY <1>0, <2>5 DEF Put, Grant, AppendComment, Goto
  <2> QED  BY <1>1, <2>1, <2>2, <2>3, <2>4, <2>5
<1>2. ASSUME NEW m \in Mails, Send(m) \/ Redeliver(m)  PROVE job' = job
  BY <1>2 DEF Send, Redeliver
<1>3. ASSUME Rewritten \/ (\E t \in Tickets : Rewrite(t)) \/ (\E i \in Items \ Jira : Move(i)) \/ UNCHANGED vars
      PROVE  job' = job
  BY <1>3 DEF Rewritten, Rewrite, Move, vars
<1>4. Restart => job' = [g \in Handlers |-> None]
  BY DEF Restart
<1> QED  BY <1>1, <1>2, <1>3, <1>4 DEF Next

\* A job that is filing an item grants its reporter the ticket, adds the content, or fails.
LEMMA FilingStep ==
    ASSUME Inv, Inv', Whole, [Next]_vars, NEW i \in Jira, NEW h \in Handlers,
           job[h] # None, Filing(job[h], i)
    PROVE  Settled(i)' \/ (job'[h] # None /\ Filing(job'[h], i))
<1>0. PICK j \in Job : j = job[h]
  BY JobAt
<1>1. MigrationJob(j) /\ j.requester = ReporterOf(i) /\ j.ticket = i /\ i \in Tickets
  BY <1>0, JobAt DEF Filing, WellFormed, MigrationJob, Tickets
<1>2. job \in [Handlers -> Job \cup {None}]
  BY DEF Inv, TypeOK
<1>3. SUFFICES ASSUME job'[h] # job[h]  PROVE Settled(i)' \/ (job'[h] # None /\ Filing(job'[h], i))
  OBVIOUS
<1>4. CASE Restart
  <2>1. HalfDone(h) = {i}
    BY DEF HalfDone, Filing
  <2>2. i \in half'
    BY <1>4, <2>1 DEF Restart
  <2> QED  BY <2>2 DEF Settled
<1>5. CASE Raises(h)
  <2>1. HalfDone(h) = {i}
    BY DEF HalfDone, Filing
  <2> QED  BY <1>5, <2>1 DEF Raises, Settled
<1>6. CASE Grant(h)
  <2>1. "append" \in Steps
    BY DEF Steps
  <2>2. job'[h] = Moved(j, "append")
    BY <1>0, <1>2, <1>6 DEF Grant, Goto, Moved
  <2>3. job'[h].op = j.op /\ job'[h].step = "append" /\ job'[h].at = j.at /\ job'[h] # None
    BY <2>1, <2>2, MovedJob, ConstantFacts
  <2> QED  BY <1>0, <2>3 DEF Filing
<1>7. CASE AppendComment(h) \/ AppendRaises(h)
  <2>1. j.step = "append" /\ <<ReporterOf(i), i>> \in viewers
    BY <1>0, <1>1, <1>7 DEF AppendComment, AppendRaises, At, Whole, Filing
  <2>2. PICK c \in Comment : c = [author |-> j.requester, content |-> j.at]
    BY <1>0, <1>1, ConstantFacts DEF Comment, Job, Filing
  <2>3. comments' = [comments EXCEPT ![i] = @ \o <<c>>] /\ comments \in [Tickets -> Seq(Comment)]
    BY <1>0, <1>1, <1>7, <2>2 DEF AppendComment, AppendRaises, Appended, Inv, TypeOK
  <2>4. Contents(i)' = Contents(i) \cup {c}
    BY <1>1, <2>2, <2>3, AppendedContents
  <2>5. viewers \subseteq viewers'
    BY StoreGrows
  <2> QED  BY <2>1, <2>4, <2>5 DEF Settled, Complete, ReporterOf
<1>8. Restart \/ Raises(h) \/ Grant(h) \/ AppendComment(h) \/ AppendRaises(h)
  <2>1. job[h].step \in {"grant", "append"} /\ job[h].op = "migration"
    BY DEF Filing
  <2>2. job[h] # None /\ \A s \in Steps \ {"grant", "append"} : ~At(h, s)
    BY <2>1 DEF At
  <2>3. /\ {"next", "route", "count", "store", "exists", "put", "write", "record"}
               \subseteq Steps \ {"grant", "append"}
        /\ ~At(h, "next") /\ ~At(h, "route") /\ ~At(h, "count") /\ ~At(h, "store")
        /\ ~At(h, "exists") /\ ~At(h, "put") /\ ~At(h, "write") /\ ~At(h, "record")
    BY <2>2 DEF Steps
  <2>4. /\ ~(BeginPoll(h) \/ BeginRun(h) \/ Done(h) \/ TakeMail(h) \/ Ingest(h))
        /\ ~(Count(h) \/ StoreSeq(h) \/ TakeItem(h) \/ Exists(h) \/ WriteDoc(h) \/ Record(h))
        /\ ~(Put(h) \/ PutRaises(h) \/ WriteRaises(h))
    BY <2>2, <2>3 DEF BeginPoll, BeginRun, Begin, Done, TakeMail, Ingest, Count, StoreSeq, TakeItem, Exists,
       WriteDoc, Record, Put, PutRaises, WriteRaises, Puts
  <2> QED  BY <1>3, <2>4, JobsChange
<1> QED  BY <1>4, <1>5, <1>6, <1>7, <1>8

\* A ticket of an item is put by a job that goes on to file it, or fails.
LEMMA PutStep ==
    ASSUME Inv, Inv', [Next]_vars, NEW i \in Jira, tickets[i] = None, tickets'[i] # None
    PROVE  Settled(i)' \/ \E h \in Handlers : job'[h] # None /\ Filing(job'[h], i)
<1>1. PICK h \in Handlers : Put(h) \/ PutRaises(h)
  BY DEF Next, vars, store, BeginPoll, BeginRun, Done, TakeMail, Ingest, Count, StoreSeq, TakeItem, Exists,
     WriteDoc, Record, Grant, AppendComment, Raises, AppendRaises, WriteRaises, Send, Redeliver, Move,
     Rewrite, Rewritten, Restart
<1>2. PICK j \in Job : j = job[h]
  BY <1>1, JobAt DEF Put, PutRaises, Puts, At
<1>3. j.op \in Ops /\ job \in [Handlers -> Job \cup {None}] /\ tickets \in [Tickets -> Ticket \cup {None}]
  BY DEF Inv, TypeOK, Job
<1>4. ASSUME NEW t \in Tickets, Puts(h, t)  PROVE t = i /\ j.op = "migration" /\ j.at = i
  <2>1. t = i
    BY <1>3, <1>4 DEF Puts, Tickets
  <2> QED  BY <1>2, <1>3, <1>4, <2>1, ConstantFacts DEF Puts, Ops
<1>5. CASE Put(h)
  <2>1. PICK t \in Tickets : Puts(h, t) /\ job' = [job EXCEPT ![h].ticket = t, ![h].step = "grant"]
    BY <1>5 DEF Put
  <2>2. job'[h] = [j EXCEPT !.ticket = t, !.step = "grant"]
    BY <1>2, <1>3, <2>1
  <2>3. job'[h].step = "grant" /\ job'[h].op = j.op /\ job'[h].at = j.at
    BY <2>2 DEF Job
  <2>4. job'[h] # None
    <3>1. [j EXCEPT !.ticket = t, !.step = "grant"] \in Job
      BY DEF Job, Steps
    <3> QED  BY <2>2, <3>1, ConstantFacts
  <2> QED  BY <1>4, <2>1, <2>3, <2>4 DEF Filing
<1>6. CASE PutRaises(h)
  BY <1>4, <1>6 DEF PutRaises, Settled
<1> QED  BY <1>1, <1>5, <1>6

LEMMA NextWhole == Inv /\ Inv' /\ Whole /\ [Next]_vars => Whole'
<1> SUFFICES ASSUME Inv, Inv', Whole, [Next]_vars  PROVE Whole'
  OBVIOUS
<1>1. ASSUME NEW i \in Jira, tickets'[i] # None
      PROVE  Settled(i)' \/ \E h \in Handlers : job'[h] # None /\ Filing(job'[h], i)
  <2>1. CASE tickets[i] = None
    BY <1>1, <2>1, PutStep
  <2>2. CASE Settled(i)
    BY <2>2, SettledStays
  <2>3. CASE \E h \in Handlers : job[h] # None /\ Filing(job[h], i)
    BY <2>3, FilingStep
  <2> QED  BY <2>1, <2>2, <2>3 DEF Whole
<1>2. ASSUME NEW h \in Handlers, job'[h] # None, job'[h].op = "migration", job'[h].step = "append"
      PROVE  <<job'[h].requester, job'[h].at>> \in viewers'
  <2>0. job \in [Handlers -> Job \cup {None}] /\ viewers \subseteq viewers'
    BY StoreGrows DEF Inv, TypeOK
  <2>1. CASE job'[h] = job[h]
    BY <1>2, <2>0, <2>1 DEF Whole
  <2>2. CASE job'[h] # job[h] /\ ~Grant(h)
    <3>1. PICK j \in Job \cup {None} : j = job[h]
      BY <2>0
    <3>2. \/ BeginPoll(h) \/ BeginRun(h) \/ Done(h)
          \/ TakeMail(h) \/ Ingest(h) \/ Count(h) \/ StoreSeq(h)
          \/ TakeItem(h) \/ Exists(h) \/ WriteDoc(h) \/ Record(h)
          \/ Put(h) \/ AppendComment(h)
          \/ Raises(h) \/ PutRaises(h) \/ AppendRaises(h) \/ WriteRaises(h)
      BY <1>2, <2>2, JobsChange
    <3>3. CASE BeginPoll(h) \/ BeginRun(h)
      BY <1>2, <2>0, <3>3 DEF BeginPoll, BeginRun, Begin
    <3>4. CASE Done(h) \/ Raises(h) \/ PutRaises(h) \/ AppendRaises(h) \/ WriteRaises(h)
      BY <1>2, <2>0, <3>4 DEF Done, Raises, PutRaises, AppendRaises, WriteRaises, Finish
    <3>5. CASE TakeMail(h) \/ TakeItem(h)
      <4>1. j \in Job
        BY <3>1, <3>5, JobAt DEF TakeMail, TakeItem, At
      <4>2. PICK x \in j.todo : \E step \in {"route", "exists", "write", "next"} : Taken(h, x, step)
        BY <3>1, <3>5 DEF TakeMail, TakeItem
      <4>3. PICK step \in {"route", "exists", "write", "next"} : Taken(h, x, step)
        BY <4>2
      <4>4. job'[h] = TakenJob(j, x, step)
        BY <2>0, <3>1, <4>3 DEF Taken, TakenJob
      <4>5. TakenJob(j, x, step).step = step
        BY <4>1 DEF TakenJob, Job
      <4> QED  BY <1>2, <4>4, <4>5
    <3>6. CASE Ingest(h)
      <4>1. j \in Job /\ j.op = "mail"
        BY <3>1, <3>6, JobAt DEF Ingest, At, WellFormed, MigrationJob, MigrationSteps, Job, Ops
      <4>2. PICK t \in MailTickets \cup {None} :
                \/ Goto(h, "next")
                \/ job' = [job EXCEPT ![h].ticket = t, ![h].step = "append",
                                      ![h].requester = Requester(job[h].at)]
                \/ job' = [job EXCEPT ![h].requester = Requester(job[h].at), ![h].step = "count"]
        BY <3>6, ZenonT(30) DEF Ingest
      <4>3. job'[h].op = "mail"
        BY <2>0, <3>1, <4>1, <4>2 DEF Goto, Job
      <4> QED  BY <1>2, <4>3
    <3>7. CASE Count(h) \/ StoreSeq(h) \/ Exists(h) \/ WriteDoc(h) \/ Record(h) \/ AppendComment(h)
      <4>1. j \in Job
        BY <3>1, <3>7, JobAt DEF Count, StoreSeq, Exists, WriteDoc, Record, AppendComment, At
      <4>2. CASE Count(h) \/ Exists(h)
        BY <1>2, <2>0, <3>1, <4>1, <4>2 DEF Count, Exists, AfterSkip, Job
      <4>3. CASE StoreSeq(h) \/ WriteDoc(h) \/ Record(h)
        BY <1>2, <2>0, <3>1, <4>1, <4>3 DEF StoreSeq, WriteDoc, Record, Goto, Job
      <4>4. CASE AppendComment(h)
        BY <1>2, <2>0, <3>1, <4>1, <4>4 DEF AppendComment, Goto, Job
      <4> QED  BY <3>7, <4>2, <4>3, <4>4
    <3>8. CASE Put(h)
      <4>1. j \in Job
        BY <3>1, <3>8, JobAt DEF Put, Puts, At
      <4>2. job'[h].step = "grant"
        BY <2>0, <3>1, <3>8, <4>1 DEF Put, Job
      <4> QED  BY <1>2, <4>2
    <3> QED  BY <3>2, <3>3, <3>4, <3>5, <3>6, <3>7, <3>8
  <2>3. CASE Grant(h)
    <3>1. PICK j \in Job : j = job[h]
      BY <2>3, JobAt DEF Grant, At
    <3>2. WellFormed(h, j) /\ j.step = "grant"
      BY <2>3, <3>1, JobAt DEF Grant, At
    <3>3. job'[h] = Moved(j, "append") /\ "append" \in Steps
      BY <2>0, <2>3, <3>1 DEF Grant, Goto, Moved, Steps
    <3>4. job'[h].op = j.op /\ job'[h].at = j.at /\ job'[h].requester = j.requester
      BY <3>3, MovedJob
    <3>5. j.ticket = j.at
      BY <1>2, <3>2, <3>4 DEF WellFormed, MigrationJob
    <3> QED  BY <2>3, <3>1, <3>4, <3>5 DEF Grant
  <2> QED  BY <2>1, <2>2, <2>3
<1> QED  BY <1>1, <1>2 DEF Whole

\* By one operator: once a run has ended, nothing is being filed that was not settled.
Finished ==
    OneMigrator /\ imported => \A i \in Jira : Migrates(i) => Settled(i)

LEMMA NextFinished == Inv /\ Inv' /\ Whole /\ Finished /\ [Next]_vars => Finished'
<1> SUFFICES ASSUME Inv, Inv', Whole, Finished, [Next]_vars, OneMigrator', imported',
                    NEW i \in Jira, Migrates(i)'
             PROVE  Settled(i)'
  BY DEF Finished
<1>1. UNCHANGED scenario /\ OneMigrator /\ Migrates(i)
  BY ScenarioStays DEF OneMigrator, Migrates
<1>2. CASE imported
  BY <1>1, <1>2, SettledStays DEF Finished
<1>3. CASE ~imported
  <2>1. PICK h \in Handlers : Done(h)
    BY <1>3 DEF Next, vars, history, BeginPoll, BeginRun, TakeMail, Ingest, Count, StoreSeq, TakeItem,
       Exists, WriteDoc, Record, Put, Grant, AppendComment, Raises, PutRaises, AppendRaises, WriteRaises,
       Send, Redeliver, Move, Rewrite, Rewritten, Restart
  <2>2. job[h] # None /\ job[h].op = "migration" /\ job[h].step = "next" /\ job[h].todo = {}
    BY <1>3, <2>1 DEF Done, At
  <2>3. WellFormed(h, job[h])
    BY <2>2, JobAt
  <2>4. Repaired(i)
    BY <2>2, <2>3, ConstantFacts DEF WellFormed, MigrationJob
  <2>5. tickets[i] # None
    BY <1>1, <2>4 DEF Repaired, Stored, Owned
  <2>6. ASSUME NEW g \in Handlers, job[g] # None, Filing(job[g], i)  PROVE FALSE
    <3>1. WellFormed(g, job[g])
      BY <2>6, JobAt
    <3>2. g = h
      BY <1>1, <2>2, <2>3, <2>6, <3>1 DEF OneMigrator, WellFormed, Filing
    <3> QED  BY <2>2, <2>6, <3>2 DEF Filing
  <2>7. Settled(i)
    BY <2>5, <2>6 DEF Whole
  <2> QED  BY <2>7, SettledStays
<1> QED  BY <1>2, <1>3

LEMMA FinishedHolds == Spec => []Finished
<1>1. Init => Whole /\ Finished
  BY DEF Init, Whole, Finished, Tickets
<1> QED  BY <1>1, NextWhole, NextFinished, InvHolds, PTL DEF Spec

\* INV-MIG-1/2/3: a migration that one operator runs, and runs again after any failure or
\* restart, imports nothing twice but what it could not read, and a run that ends has mapped
\* and stored every item it migrates, under its reporter, with its content and its tuple
\* unless its creation was cut short, and archived the rest.
THEOREM RunAgainRepairs == Spec => [](OneMigrator => MigrationRepairs)
<1>1. Inv /\ Finished => (OneMigrator => MapRepaired)
  BY DEF Inv, RunRepaired, Repaired, Stored, Owned, Finished, Settled, MapRepaired
<1>2. OnceInv /\ Placed => (OneMigrator => ImportedOnce)
  BY PlacedOnce DEF OnceInv, Once, ImportedOnce
<1>3. Inv /\ OnceInv /\ Placed /\ Finished => (OneMigrator => MigrationRepairs)
  BY <1>1, <1>2 DEF MigrationRepairs
<1> QED  BY <1>3, InvHolds, OnceHolds, PlacedHolds, FinishedHolds, PTL
-----------------------------------------------------------------------------
(* No mail is dropped. *)

\* A poller's job keeps m in its batch, or the message is held or filed.
LEMMA BatchStep ==
    ASSUME Inv, Inv', [Next]_vars, ~Restart, NEW m \in Mails, NEW h \in Handlers, InBatch(h, m)
    PROVE  Somewhere(m)' \/ job'[h] = None
<1>0. PICK j \in Job : j = job[h]
  BY JobAt DEF InBatch
<1>1. job[h] # None /\ job \in [Handlers -> Job \cup {None}] /\ (m \in j.todo \/ (m = j.at /\ j.step # "next"))
  BY <1>0 DEF InBatch, Inv, TypeOK
<1>2. SUFFICES ASSUME job'[h] # job[h], job'[h] # None  PROVE Somewhere(m)'
  BY <1>1 DEF Somewhere, InBatch
<1>3. j.op = "mail" /\ MailJob(j)
  <2>1. WellFormed(h, j) /\ j.op \in Ops
    BY <1>0, <1>1, JobAt DEF Job
  <2>2. j.op # "migration"
    BY <1>1, <2>1, ConstantFacts DEF WellFormed, MigrationJob
  <2> QED  BY <2>1, <2>2 DEF WellFormed, Ops
<1>4. \/ TakeMail(h) \/ Ingest(h) \/ Count(h) \/ StoreSeq(h) \/ Put(h) \/ Grant(h) \/ AppendComment(h)
  <2>1. ~(BeginPoll(h) \/ BeginRun(h))
    BY <1>1 DEF BeginPoll, BeginRun, Begin
  <2>2. ~(Done(h) \/ Raises(h) \/ PutRaises(h) \/ AppendRaises(h) \/ WriteRaises(h))
    BY <1>1, <1>2 DEF Done, Raises, PutRaises, AppendRaises, WriteRaises, Finish
  <2>3. ~(TakeItem(h) \/ Exists(h) \/ WriteDoc(h) \/ Record(h))
    BY <1>0, <1>3 DEF TakeItem, Exists, WriteDoc, Record, At, MailJob, MailSteps
  <2> QED  BY <1>2, <2>1, <2>2, <2>3, JobsChange
<1>5. SUFFICES InBatch(h, m)' \/ m \in held' \/ \E t \in MailTickets : \E c \in Contents(t)' : c.content = m
  BY DEF Somewhere
<1>6. CASE TakeMail(h)
  <2>1. PICK n \in j.todo : Taken(h, n, "route")
    BY <1>0, <1>6 DEF TakeMail
  <2>2. job'[h] = TakenJob(j, n, "route") /\ j.step = "next"
    BY <1>0, <1>1, <1>6, <2>1 DEF TakeMail, At, Taken, TakenJob
  <2>3. n \in Mails /\ "route" \in Steps
    BY <1>3 DEF MailJob, Steps
  <2>4. job'[h].todo = j.todo \ {n} /\ job'[h].at = n /\ job'[h].step = "route"
    BY <2>2, <2>3, TakenIsJob
  <2> QED  BY <1>1, <1>2, <2>2, <2>4 DEF InBatch
<1>7. CASE Ingest(h)
  <2>1. PICK t \in MailTickets \cup {None} :
            \/ Goto(h, "next") /\ held' = Hold(job[h].at)
            \/ job' = [job EXCEPT ![h].ticket = t, ![h].step = "append",
                                  ![h].requester = Requester(job[h].at)]
            \/ job' = [job EXCEPT ![h].requester = Requester(job[h].at), ![h].step = "count"]
    BY <1>7, ZenonT(30) DEF Ingest
  <2>2. job'[h].todo = j.todo /\ job'[h].at = j.at
    BY <1>0, <1>1, <2>1 DEF Goto, Job
  <2>3. job'[h].step # "next" \/ j.at \in held'
    BY <1>0, <1>1, <2>1 DEF Goto, Hold, Job
  <2> QED  BY <1>1, <1>2, <2>2, <2>3 DEF InBatch
<1>8. CASE Count(h) \/ StoreSeq(h) \/ Put(h) \/ Grant(h)
  <2>1. job'[h].todo = j.todo /\ job'[h].at = j.at /\ job'[h].step # "next"
    <3>1. CASE Count(h)
      BY <1>0, <1>1, <3>1 DEF Count, Job
    <3>2. CASE StoreSeq(h) \/ Grant(h)
      BY <1>0, <1>1, <3>2 DEF StoreSeq, Grant, Goto, Job
    <3>3. CASE Put(h)
      <4>1. PICK t \in Tickets : job' = [job EXCEPT ![h].ticket = t, ![h].step = "grant"]
        BY <3>3 DEF Put
      <4> QED  BY <1>0, <1>1, <4>1 DEF Job
    <3> QED  BY <1>8, <3>1, <3>2, <3>3
  <2> QED  BY <1>1, <1>2, <2>1 DEF InBatch
<1>9. CASE AppendComment(h)
  <2>1. job'[h].todo = j.todo
    BY <1>0, <1>1, <1>9 DEF AppendComment, Goto, Job
  <2>2. CASE m \in j.todo
    BY <1>2, <2>1, <2>2 DEF InBatch
  <2>3. CASE m = j.at
    <3>1. j.ticket \in MailTickets /\ j.ticket \in Tickets /\ j.at \in Mails
      BY <1>0, <1>3, <1>9, AppendFacts DEF AppendComment
    <3>2. PICK c \in Comment : c = [author |-> j.requester, content |-> j.at]
      BY <3>1 DEF Comment, Job
    <3>3. comments' = [comments EXCEPT ![j.ticket] = @ \o <<c>>] /\ comments \in [Tickets -> Seq(Comment)]
      BY <1>0, <1>9, <3>2 DEF AppendComment, Appended, Inv, TypeOK
    <3>4. Contents(j.ticket)' = Contents(j.ticket) \cup {c}
      BY <3>1, <3>2, <3>3, AppendedContents
    <3> QED  BY <2>3, <3>1, <3>2, <3>4
  <2> QED  BY <1>1, <2>2, <2>3
<1> QED  BY <1>4, <1>6, <1>7, <1>8, <1>9

\* What is fetched is in a batch.
LEMMA PollStep ==
    ASSUME Inv, [Next]_vars, ~Restart, NEW m \in Mails, m \in inbox \cup held
    PROVE  Somewhere(m)'
<1>0. job \in [Handlers -> Job \cup {None}]
  BY DEF Inv, TypeOK
<1>1. (\E h \in Handlers : BeginPoll(h)) \/ inbox \subseteq inbox'
  BY DEF Next, vars, world, BeginRun, Done, TakeMail, Ingest, Count, StoreSeq, TakeItem,
     Exists, WriteDoc, Record, Put, Grant, AppendComment, Raises, PutRaises, AppendRaises, WriteRaises,
     Send, Redeliver, Move, Rewrite, Rewritten
<1>2. held \subseteq held'
  <2>1. (\E h \in Handlers : Ingest(h)) \/ held' = held
    BY DEF Next, vars, memory, BeginPoll, BeginRun, Done, TakeMail, Count, StoreSeq, TakeItem,
       Exists, WriteDoc, Record, Put, Grant, AppendComment, Raises, PutRaises, AppendRaises, WriteRaises,
       Send, Redeliver, Move, Rewrite, Rewritten
  <2>2. ASSUME NEW h \in Handlers, Ingest(h)  PROVE held \subseteq held'
    BY <2>2, ZenonT(30) DEF Ingest, Hold
  <2> QED  BY <2>1, <2>2
<1>3. ASSUME NEW h \in Handlers, BeginPoll(h), m \in inbox  PROVE InBatch(h, m)'
  <2>1. PICK list \in SUBSET Mails : list = inbox
    BY DEF Inv, TypeOK
  <2> DEFINE k == [op |-> "mail", step |-> "next", todo |-> list, at |-> None,
                   requester |-> None, ticket |-> None, seq |-> 0]
  <2>2. k \in Job
    BY DEF Job, Ops, Steps, Principals
  <2>3. job' = [job EXCEPT ![h] = k]
    BY <1>3, <2>1 DEF BeginPoll, Begin
  <2>4. job'[h] = k
    BY <1>0, <2>3
  <2>5. k # None /\ m \in k.todo
    BY <1>3, <2>1, <2>2, ConstantFacts
  <2> HIDE DEF k
  <2> QED  BY <2>4, <2>5 DEF InBatch
<1>4. CASE m \in held
  BY <1>2, <1>4 DEF Somewhere
<1>5. CASE m \in inbox /\ inbox \subseteq inbox'
  BY <1>5 DEF Somewhere
<1>6. CASE m \in inbox /\ \E h \in Handlers : BeginPoll(h)
  <2>1. \E h \in Handlers : InBatch(h, m)'
    BY <1>3, <1>6
  <2> QED  BY <2>1 DEF Somewhere
<1> QED  BY <1>1, <1>4, <1>5, <1>6

\* Whatever is redelivered and however many pollers there are, a message that is with Graph, in
\* a batch, in the quarantine or in a ticket stays in one of them, unless a call raises while it
\* is in the batch or the process restarts.
THEOREM MailIsKept == Spec => MailKept
<1>1. ASSUME Inv, Inv', [Next]_vars
      PROVE  [\A m \in Mails : Somewhere(m) =>
                 \/ Somewhere(m)' \/ restarts' # restarts
                 \/ \E h \in Handlers : InBatch(h, m) /\ job'[h] = None]_vars
  <2>1. SUFFICES ASSUME NEW m \in Mails, Somewhere(m), ~Restart
                 PROVE  Somewhere(m)' \/ \E h \in Handlers : InBatch(h, m) /\ job'[h] = None
    <3>1. Restart => restarts' # restarts
      <4>1. scenario.restarts \in Nat
        BY <1>1, ConstantFacts DEF Inv, TypeOK, Scenario
      <4> QED  BY <1>1, <4>1 DEF Restart, Inv, TypeOK
    <3> QED  BY <3>1
  <2>2. CASE m \in inbox \cup held
    BY <1>1, <2>1, <2>2, PollStep
  <2>3. CASE \E h \in Handlers : InBatch(h, m)
    BY <1>1, <2>1, <2>3, BatchStep
  <2>4. CASE \E t \in MailTickets : \E c \in Contents(t) : c.content = m
    <3>1. \A t \in MailTickets : Contents(t) \subseteq Contents(t)'
      BY <1>1, StoreGrows DEF Tickets
    <3> QED  BY <2>4, <3>1 DEF Somewhere
  <2> QED  BY <2>1, <2>2, <2>3, <2>4 DEF Somewhere
<1> QED  BY <1>1, InvHolds, PTL DEF Spec, MailKept
-----------------------------------------------------------------------------
(* Replies reach the ticket they answer. *)

\* No restart has set the counter back, and no two threads have counted at once.
Steady == restarts = 0 /\ ~raced

\* Message m is at home on ticket t, its own if it missed the one it answers.
Followed(m, t) ==
    /\ sent[m] # None
    /\ sent[m].to # None /\ (sent[m].by = "header" \/ Steady) =>
           \/ tickets[t].mid = tickets[sent[m].to].mid
           \/ m \in missed /\ tickets[t].mid = m

\* A poller's job: a message that answers a ticket is filed as a new one only if it missed it.
MailKnows(j) ==
    /\ \A m \in j.todo : sent[m] # None
    /\ j.step # "next" => sent[j.at] # None
    /\ j.step \in {"count", "store", "put", "grant"} => sent[j.at].to = None \/ j.at \in missed
    /\ j.step = "grant" => tickets[j.ticket].mid = j.at
    /\ j.step = "append" => Followed(j.at, j.ticket)

\* What is answered is there, and what was filed is where it belongs.
Threading ==
    /\ \A m \in Mails : sent[m] # None /\ sent[m].to # None => tickets[sent[m].to] # None
    /\ \A m \in inbox : sent[m] # None
    /\ \A h \in Handlers : \A j \in Job : job[h] = j /\ j.op = "mail" => MailKnows(j)
    /\ \A t \in MailTickets : \A c \in Contents(t) : Followed(c.content, t)

\* Between the reading of the counter and the ticket that carries its next value.
Counts(j) == j.step = "store" \/ (j.step = "put" /\ j.op = "mail")

Alone(h) == \A g \in Handlers \ {h} : \A k \in Job : job[g] = k => ~Counts(k)

\* The counter is past every token there is, once it was counted.
Ahead(j) ==
    IF j.step = "store" THEN j.seq = email_seq
    ELSE \A t \in MailTickets : tickets[t] # None => tickets[t].token < email_seq

TokensCounted ==
    /\ \A t \in MailTickets : tickets[t] # None => tickets[t].token <= email_seq
    /\ \A t, u \in MailTickets : t # u /\ tickets[t] # None /\ tickets[u] # None =>
           tickets[t].token # tickets[u].token
    /\ \A h \in Handlers : \A j \in Job : job[h] = j /\ Counts(j) => Alone(h) /\ Ahead(j)

Counting == Steady => TokensCounted

\* What every step keeps: a message as it was written, a ticket as it was filed.
KeepsMail ==
    /\ \A m \in Mails : sent[m] # None => sent'[m] = sent[m]
    /\ \A t \in MailTickets : tickets[t] # None => tickets'[t] = tickets[t]
    /\ Steady' => Steady
    /\ missed \subseteq missed'

LEMMA SteadyEnds == ASSUME Inv, [Next]_vars  PROVE Steady' => Steady
<1> SUFFICES ASSUME ~UNCHANGED <<restarts, raced>>  PROVE Steady' => Steady
  BY DEF Steady
<1>1. \/ \E h \in Handlers : Count(h)
      \/ Restart
  BY DEF Next, vars, history, BeginPoll, BeginRun, Done, TakeMail, Ingest, StoreSeq, TakeItem, Exists,
     WriteDoc, Record, Put, Grant, AppendComment, Raises, PutRaises, AppendRaises, WriteRaises,
     Send, Redeliver, Move, Rewrite, Rewritten
<1>2. CASE \E h \in Handlers : Count(h)
  BY <1>2 DEF Count, Steady, Inv, TypeOK
<1>3. CASE Restart
  <2>1. restarts \in Nat
    BY ConstantFacts DEF Inv, TypeOK, Scenario
  <2> QED  BY <1>3, <2>1 DEF Restart, Steady
<1> QED  BY <1>1, <1>2, <1>3

\* A mail ticket is put once, and a migration puts none.
LEMMA TicketsStay ==
    ASSUME Inv, [Next]_vars, NEW t \in MailTickets, tickets[t] # None
    PROVE  tickets'[t] = tickets[t]
<1> SUFFICES ASSUME tickets' # tickets  PROVE tickets'[t] = tickets[t]
  OBVIOUS
<1>1. PICK h \in Handlers, u \in Tickets : Puts(h, u)
  BY DEF Put, PutRaises, Next, vars, store, BeginPoll, BeginRun, Done, TakeMail, Ingest, Count, StoreSeq, TakeItem, Exists,
     WriteDoc, Record, Grant, AppendComment, Raises, AppendRaises, WriteRaises,
     Send, Redeliver, Move, Rewrite, Rewritten, Restart
<1>2. PICK j \in Job : j = job[h]
  BY <1>1, JobAt DEF Puts, At
<1>3. /\ u \in IF j.op = "mail" THEN {n \in MailTickets : tickets[n] = None} ELSE {j.at}
      /\ tickets' = [tickets EXCEPT ![u] = NewTicket(h)]
  BY <1>1, <1>2 DEF Puts
<1>4. j.op \in Ops /\ (j.op = "migration" => j.at \in Jira)
  BY <1>1, <1>2, PutFacts DEF Puts
<1>5. u # t
  BY <1>3, <1>4, ConstantFacts DEF Ops
<1> QED  BY <1>3, <1>5 DEF Inv, TypeOK, Tickets

LEMMA MailPersists == ASSUME Inv, [Next]_vars  PROVE KeepsMail
<1>1. ASSUME NEW m \in Mails, sent[m] # None  PROVE sent'[m] = sent[m]
  <2> SUFFICES ASSUME sent' # sent  PROVE sent'[m] = sent[m]
    OBVIOUS
  <2>1. PICK n \in Mails : Send(n)
    BY DEF Next, vars, world, BeginPoll, BeginRun, Done, TakeMail, Ingest, Count, StoreSeq, TakeItem, Exists,
       WriteDoc, Record, Put, Grant, AppendComment, Raises, PutRaises, AppendRaises, WriteRaises,
       Redeliver, Move, Rewrite, Rewritten, Restart
  <2> QED  BY <1>1, <2>1 DEF Send, Inv, TypeOK
<1> QED  BY <1>1, SteadyEnds, TicketsStay, StoreGrows DEF KeepsMail

LEMMA FollowedStays ==
    ASSUME Inv, KeepsMail, Threading, NEW m \in Mails, NEW t \in MailTickets, tickets[t] # None,
           Followed(m, t)
    PROVE  Followed(m, t)'
<1>1. sent[m] # None /\ sent'[m] = sent[m] /\ tickets'[t] = tickets[t]
  BY DEF KeepsMail, Followed
<1>2. ASSUME sent[m].to # None  PROVE tickets'[sent[m].to] = tickets[sent[m].to]
  <2>1. sent[m].to \in MailTickets
    BY <1>1, <1>2 DEF Inv, TypeOK, Message
  <2> QED  BY <1>1, <1>2, <2>1 DEF Threading, KeepsMail
<1>3. (Steady' => Steady) /\ (m \in missed => m \in missed')
  BY DEF KeepsMail
<1> QED  BY <1>1, <1>2, <1>3 DEF Followed

LEMMA KnowsStays ==
    ASSUME Inv, KeepsMail, Threading, NEW h \in Handlers, NEW j \in Job, job[h] = j, j.op = "mail"
    PROVE  MailKnows(j) /\ MailJob(j) /\ MailKnows(j)'
<1>1. MailKnows(j)
  BY DEF Threading
<1>2. MailJob(j)
  <2>1. job[h] # None
    BY ConstantFacts
  <2> QED  BY <2>1, JobAt DEF WellFormed
<1>3. \A m \in j.todo : sent'[m] # None
  BY <1>1, <1>2 DEF MailKnows, MailJob, KeepsMail
<1>4. j.step # "next" => sent'[j.at] # None /\ sent'[j.at] = sent[j.at]
  BY <1>1, <1>2 DEF MailKnows, MailJob, KeepsMail
<1>5. j.step \in {"count", "store", "put", "grant"} => sent'[j.at].to = None \/ j.at \in missed'
  <2>1. missed \subseteq missed'
    BY DEF KeepsMail
  <2> QED  BY <1>1, <1>4, <2>1 DEF MailKnows
<1>6. j.step = "grant" => tickets'[j.ticket].mid = j.at
  BY <1>1, <1>2 DEF MailKnows, MailJob, Owned, KeepsMail
<1>7. ASSUME j.step = "append"  PROVE Followed(j.at, j.ticket)'
  BY <1>1, <1>2, <1>7, FollowedStays DEF MailKnows, MailJob, Owned
<1> QED  BY <1>1, <1>2, <1>3, <1>4, <1>5, <1>6, <1>7 DEF MailKnows

\* A comment on a ticket of mail is a mail, and the ticket is there.
LEMMA Commented ==
    ASSUME Inv, NEW t \in MailTickets, NEW c \in Contents(t)
    PROVE  c.content \in Mails /\ tickets[t] # None
<1>1. c.content \in scenario.verified
  BY DEF Inv, AttributedToSender, Trusted
<1>2. scenario.verified \subseteq Mails
  BY ConstantFacts DEF Inv, TypeOK, Scenario
<1>3. comments[t] # <<>>
  BY DEF Contents
<1> QED  BY <1>1, <1>2, <1>3 DEF Inv, StoreFormed, Tickets

\* A step of thread h that leaves it with job k; what it files is where it belongs.
LEMMA ThreadStep ==
    ASSUME Inv, Threading, KeepsMail, NEW h \in Handlers, NEW k \in Job \cup {None},
           job' = [job EXCEPT ![h] = k], k # None /\ k.op = "mail" => MailKnows(k)',
           sent' = sent, inbox' \subseteq inbox,
           \A t \in MailTickets : \A c \in Contents(t)' : c \in Contents(t) \/ Followed(c.content, t)'
    PROVE  Threading'
<1>1. ASSUME NEW m \in Mails, sent'[m] # None, sent'[m].to # None  PROVE tickets'[sent'[m].to] # None
  <2>1. sent[m].to \in MailTickets
    BY <1>1 DEF Inv, TypeOK, Message
  <2> QED  BY <1>1, <2>1 DEF Threading, KeepsMail
<1>2. \A m \in inbox' : sent'[m] # None
  BY DEF Threading
<1>3. ASSUME NEW g \in Handlers, NEW j \in Job, job'[g] = j, j.op = "mail"  PROVE MailKnows(j)'
  <2>1. CASE g = h
    <3>1. j = k /\ j # None
      BY <1>3, <2>1, ConstantFacts DEF Inv, TypeOK
    <3> QED  BY <1>3, <3>1
  <2>2. CASE g # h
    <3>1. job[g] = j
      BY <1>3, <2>2 DEF Inv, TypeOK
    <3> QED  BY <1>3, <3>1, KnowsStays
  <2> QED  BY <2>1, <2>2
<1>4. ASSUME NEW t \in MailTickets, NEW c \in Contents(t)'  PROVE Followed(c.content, t)'
  <2>1. CASE c \in Contents(t)
    <3>1. Followed(c.content, t)
      BY <2>1 DEF Threading
    <3> QED  BY <2>1, <3>1, Commented, FollowedStays
  <2> QED  BY <2>1
<1> QED  BY <1>1, <1>2, <1>3, <1>4 DEF Threading

\* A step of thread h that files nothing.
LEMMA ThreadMoves ==
    ASSUME Inv, Threading, KeepsMail, NEW h \in Handlers, NEW k \in Job \cup {None},
           job' = [job EXCEPT ![h] = k], k # None /\ k.op = "mail" => MailKnows(k)',
           sent' = sent, inbox' \subseteq inbox, comments' = comments
    PROVE  Threading'
<1>1. \A t \in MailTickets : Contents(t)' = Contents(t)
  BY DEF Contents
<1> QED  BY <1>1, ThreadStep

LEMMA ThreadingInit == Init => Threading
BY ConstantFacts DEF Init, Threading, Contents, Tickets

LEMMA BeginThreads ==
    ASSUME Inv, Threading, KeepsMail, NEW h \in Handlers,
           BeginPoll(h) \/ BeginRun(h) \/ Done(h) \/ Raises(h) \/ PutRaises(h) \/ WriteRaises(h)
    PROVE  Threading'
<1>1. CASE BeginPoll(h)
  <2>1. PICK list \in SUBSET Mails : list = inbox
    BY DEF Inv, TypeOK
  <2> DEFINE k == [op |-> "mail", step |-> "next", todo |-> list, at |-> None,
                   requester |-> None, ticket |-> None, seq |-> 0]
  <2>2. k \in Job
    BY DEF Job, Ops, Steps, Principals
  <2>3. job' = [job EXCEPT ![h] = k] /\ sent' = sent /\ inbox' = {} /\ comments' = comments
    BY <1>1, <2>1 DEF BeginPoll, Begin, store
  <2>4. MailKnows(k)'
    BY <2>1, <2>3 DEF MailKnows, Threading
  <2> HIDE DEF k
  <2> QED  BY <2>2, <2>3, <2>4, ThreadMoves
<1>2. CASE BeginRun(h)
  <2> DEFINE k == [op |-> "migration", step |-> "next", todo |-> Items, at |-> None,
                   requester |-> None, ticket |-> None, seq |-> 0]
  <2>1. k \in Job /\ k.op # "mail"
    BY DEF Job, Ops, Steps, Principals
  <2>2. job' = [job EXCEPT ![h] = k] /\ sent' = sent /\ inbox' = inbox /\ comments' = comments
    BY <1>2 DEF BeginRun, Begin, world, store
  <2> HIDE DEF k
  <2> QED  BY <2>1, <2>2, ThreadMoves
<1>3. CASE Done(h) \/ Raises(h) \/ PutRaises(h) \/ WriteRaises(h)
  <2>1. job' = [job EXCEPT ![h] = None] /\ sent' = sent /\ inbox' = inbox /\ comments' = comments
    BY <1>3 DEF Done, Raises, PutRaises, WriteRaises, Finish, world, store
  <2> QED  BY <2>1, ThreadMoves
<1> QED  BY <1>1, <1>2, <1>3

LEMMA TakeThreads ==
    ASSUME Inv, Threading, KeepsMail, NEW h \in Handlers, TakeMail(h)
    PROVE  Threading'
<1>1. PICK j \in Job : j = job[h]
  BY JobAt DEF TakeMail, At
<1>2. j.op = "mail" /\ job[h] = j
  BY <1>1 DEF TakeMail
<1>3. MailKnows(j) /\ MailJob(j) /\ MailKnows(j)'
  BY <1>2, KnowsStays
<1>4. PICK m \in j.todo : Taken(h, m, "route")
  BY <1>1 DEF TakeMail
<1>5. m \in Mails /\ "route" \in Steps
  BY <1>3 DEF MailJob, Steps
<1>6. PICK k \in Job : k = TakenJob(j, m, "route")
  BY <1>5, TakenIsJob
<1>7. k.step = "route" /\ k.todo = j.todo \ {m} /\ k.at = m
  BY <1>5, <1>6, TakenIsJob
<1>8. MailKnows(k)'
  BY <1>3, <1>7 DEF MailKnows
<1>9. job' = [job EXCEPT ![h] = k]
  BY <1>1, <1>4, <1>6 DEF Taken, TakenJob
<1>10. sent' = sent /\ inbox' = inbox /\ comments' = comments
  BY DEF TakeMail, world, store
<1> QED  BY <1>8, <1>9, <1>10, ThreadMoves

\* A step of a migration.
LEMMA MigrationThreads ==
    ASSUME Inv, Inv', Threading, KeepsMail, NEW h \in Handlers,
           TakeItem(h) \/ Exists(h) \/ WriteDoc(h) \/ Record(h)
    PROVE  Threading'
<1>1. PICK j \in Job : j = job[h]
  BY JobAt DEF TakeItem, Exists, WriteDoc, Record, At
<1>2. WellFormed(h, j) /\ job[h] # None
  BY <1>1, JobAt DEF TakeItem, Exists, WriteDoc, Record, At
<1>3. j.op = "migration"
  BY <1>1, <1>2 DEF TakeItem, Exists, WriteDoc, Record, At, WellFormed, MailJob, MailSteps, Job, Ops
<1>4. PICK k \in Job \cup {None} : k = job'[h]
  BY DEF Inv, TypeOK
<1>5. job \in [Handlers -> Job \cup {None}]
  BY DEF Inv, TypeOK
<1>6. job' = [job EXCEPT ![h] = k] /\ k.op = "migration"
  <2>1. CASE TakeItem(h)
    <3>1. PICK i \in j.todo : \E step \in Steps : Taken(h, i, step)
      BY <1>1, <2>1 DEF TakeItem, Steps
    <3>2. PICK step \in Steps : Taken(h, i, step)
      BY <3>1
    <3>3. i \in Items
      BY <1>2, <1>3, <3>1 DEF WellFormed, MigrationJob
    <3>4. TakenJob(j, i, step) \in Job /\ TakenJob(j, i, step).op = j.op
      BY <3>3, TakenIsJob
    <3>5. job' = [job EXCEPT ![h] = TakenJob(j, i, step)]
      BY <1>1, <3>2 DEF Taken, TakenJob
    <3> QED  BY <1>3, <1>4, <1>5, <3>4, <3>5
  <2>2. CASE Exists(h)
    BY <1>1, <1>3, <1>4, <1>5, <2>2 DEF Exists, Job
  <2>3. CASE WriteDoc(h)
    BY <1>1, <1>3, <1>4, <1>5, <2>3 DEF WriteDoc, Goto, Job
  <2>4. CASE Record(h)
    BY <1>1, <1>3, <1>4, <1>5, <2>4 DEF Record, Goto, Job
  <2> QED  BY <2>1, <2>2, <2>3, <2>4
<1>7. sent' = sent /\ inbox' = inbox /\ comments' = comments
  BY DEF TakeItem, Exists, WriteDoc, Record, world, store
<1> QED  BY <1>6, <1>7, ThreadMoves

\* What Count, StoreSeq, Put and Grant do to a job.
LEMMA FilingThreads ==
    ASSUME Inv, Inv', Threading, KeepsMail, NEW h \in Handlers,
           Count(h) \/ StoreSeq(h) \/ Put(h) \/ Grant(h)
    PROVE  Threading'
<1>1. PICK j \in Job : j = job[h]
  BY JobAt DEF Count, StoreSeq, Put, Puts, Grant, At
<1>2. j.step \in {"count", "store", "put", "grant"}
  BY <1>1 DEF Count, StoreSeq, Put, Puts, Grant, At
<1>3. PICK k \in Job \cup {None} : k = job'[h]
  BY DEF Inv, TypeOK
<1>4. job \in [Handlers -> Job \cup {None}]
  BY DEF Inv, TypeOK
<1>5. /\ job' = [job EXCEPT ![h] = k]
      /\ k.op = j.op /\ k.todo = j.todo /\ k.at = j.at
      /\ k.step \in {"store", "put", "grant", "append"}
  <2>1. CASE Count(h)
    BY <1>1, <1>3, <1>4, <2>1 DEF Count, Job
  <2>2. CASE StoreSeq(h)
    BY <1>1, <1>3, <1>4, <2>2 DEF StoreSeq, Goto, Job
  <2>3. CASE Put(h)
    <3>1. PICK t : job' = [job EXCEPT ![h].ticket = t, ![h].step = "grant"]
      BY <2>3 DEF Put
    <3> QED  BY <1>1, <1>3, <1>4, <3>1 DEF Job
  <2>4. CASE Grant(h)
    BY <1>1, <1>3, <1>4, <2>4 DEF Grant, Goto, Job
  <2> QED  BY <2>1, <2>2, <2>3, <2>4
<1>6. ASSUME k.op = "mail"  PROVE MailKnows(k)'
  <2>1. MailKnows(j) /\ MailJob(j) /\ MailKnows(j)'
    BY <1>1, <1>5, <1>6, KnowsStays
  <2>2. sent'[j.at] # None /\ (sent'[j.at].to = None \/ j.at \in missed')
    BY <1>2, <2>1 DEF MailKnows
  <2>3. ASSUME k.step = "grant"  PROVE tickets'[k.ticket].mid = k.at
    <3>1. Put(h)
      BY <1>1, <1>3, <1>4, <2>3 DEF Count, StoreSeq, Grant, Goto, Job
    <3>2. PICK t \in Tickets : Puts(h, t) /\ job' = [job EXCEPT ![h].ticket = t, ![h].step = "grant"]
      BY <3>1 DEF Put
    <3>3. k.ticket = t /\ tickets'[t] = NewTicket(h)
      BY <1>1, <1>3, <1>4, <3>2 DEF Puts, Job, Inv, TypeOK
    <3>4. job[h].op = "mail" /\ job[h].at = k.at
      BY <1>1, <1>5, <1>6
    <3> QED  BY <3>3, <3>4 DEF NewTicket
  <2>4. ASSUME k.step = "append"  PROVE Followed(k.at, k.ticket)'
    <3>1. Grant(h)
      <4>1. CASE Count(h)
        BY <1>1, <1>3, <1>4, <2>4, <4>1 DEF Count, Job
      <4>2. CASE StoreSeq(h)
        BY <1>1, <1>3, <1>4, <2>4, <4>2 DEF StoreSeq, Goto, Job
      <4>3. CASE Put(h)
        <5>1. PICK t : job' = [job EXCEPT ![h].ticket = t, ![h].step = "grant"]
          BY <4>3 DEF Put
        <5> QED  BY <1>1, <1>3, <1>4, <2>4, <5>1 DEF Job
      <4> QED  BY <4>1, <4>2, <4>3
    <3>2. k.ticket = j.ticket /\ j.step = "grant"
      BY <1>1, <1>3, <1>4, <3>1 DEF Grant, At, Goto, Job
    <3>3. tickets'[j.ticket].mid = j.at
      BY <2>1, <3>2 DEF MailKnows
    <3> QED  BY <1>5, <2>2, <3>2, <3>3 DEF Followed
  <2> QED  BY <1>5, <2>1, <2>2, <2>3, <2>4 DEF MailKnows
<1>7. sent' = sent /\ inbox' = inbox /\ comments' = comments
  BY DEF Count, StoreSeq, Put, Grant, world, store
<1> QED  BY <1>5, <1>6, <1>7, ThreadMoves

LEMMA AppendThreads ==
    ASSUME Inv, Inv', Threading, KeepsMail, NEW h \in Handlers,
           AppendComment(h) \/ AppendRaises(h)
    PROVE  Threading'
<1>1. PICK j \in Job : j = job[h]
  BY JobAt DEF AppendComment, AppendRaises, At
<1>2. /\ j.step = "append" /\ j.op \in Ops /\ j.ticket \in Tickets
      /\ j.at \in Mails \cup Items
      /\ j.op = "mail" => j.ticket \in MailTickets
      /\ j.op = "migration" => j.at \in Jira /\ j.ticket = j.at
  BY <1>1, AppendFacts DEF AppendComment, AppendRaises
<1>3. PICK step \in Steps : step = IF j.op = "mail" THEN "next" ELSE "record"
  BY DEF Steps
<1>4. PICK k \in Job : k = Moved(j, step)
  BY MovedJob
<1>5. k.op = j.op /\ k.step = step /\ k.todo = j.todo
  BY <1>4, MovedJob
<1>6. job' = [job EXCEPT ![h] = k] \/ job' = [job EXCEPT ![h] = None]
  BY <1>1, <1>3, <1>4 DEF AppendComment, AppendRaises, Finish, Goto, Moved
<1>7. sent' = sent /\ inbox' = inbox
  BY DEF AppendComment, AppendRaises, world
<1>8. PICK c \in Comment : c = [author |-> j.requester, content |-> j.at]
  BY <1>2 DEF Comment, Job
<1>9. /\ \A u \in Tickets : u # j.ticket => comments'[u] = comments[u]
      /\ Contents(j.ticket)' = Contents(j.ticket) \cup {c}
  BY <1>1, <1>2, <1>8, AppendedContents DEF AppendComment, AppendRaises, Appended, Inv, TypeOK
<1>10. ASSUME j.op = "mail"  PROVE MailKnows(k)' /\ Followed(j.at, j.ticket)'
  <2>1. MailKnows(j)'
    BY <1>1, <1>10, KnowsStays
  <2> QED  BY <1>2, <1>3, <1>5, <1>10, <2>1 DEF MailKnows
<1>11. ASSUME NEW t \in MailTickets, NEW d \in Contents(t)'
       PROVE  d \in Contents(t) \/ Followed(d.content, t)'
  <2>1. CASE t = j.ticket
    <3>1. j.op = "mail"
      BY <1>2, <2>1, ConstantFacts DEF Ops
    <3> QED  BY <1>8, <1>9, <1>10, <2>1, <3>1
  <2>2. CASE t # j.ticket
    BY <1>9, <2>2 DEF Contents, Tickets
  <2> QED  BY <2>1, <2>2
<1> QED  BY <1>5, <1>6, <1>7, <1>10, <1>11, ThreadStep

LEMMA WorldThreads ==
    ASSUME Inv, Threading, KeepsMail,
           Restart \/ (\E i \in Items \ Jira : Move(i)) \/ (\E m \in Mails : Send(m) \/ Redeliver(m))
           \/ Rewritten \/ (\E t \in Tickets : Rewrite(t)) \/ UNCHANGED vars
    PROVE  Threading'
<1>1. comments' = comments /\ (job' = job \/ \A h \in Handlers : job'[h] = None)
  BY DEF Restart, Move, Send, Redeliver, Rewrite, Rewritten, vars, store
<1>2. ASSUME NEW h \in Handlers, NEW j \in Job, job'[h] = j, j.op = "mail"  PROVE MailKnows(j)'
  BY <1>1, <1>2, KnowsStays, ConstantFacts
<1>3. ASSUME NEW t \in MailTickets, NEW c \in Contents(t)'  PROVE Followed(c.content, t)'
  <2>1. c \in Contents(t)
    BY <1>1 DEF Contents
  <2>2. Followed(c.content, t)
    BY <2>1 DEF Threading
  <2> QED  BY <2>1, <2>2, Commented, FollowedStays
<1>4. ASSUME NEW m \in Mails, sent'[m] # None, sent'[m].to # None  PROVE tickets'[sent'[m].to] # None
  <2>1. CASE sent[m] # None
    <3>1. sent'[m] = sent[m] /\ sent[m].to \in MailTickets
      BY <1>4, <2>1 DEF KeepsMail, Inv, TypeOK, Message
    <3> QED  BY <1>4, <2>1, <3>1 DEF Threading, KeepsMail
  <2>2. CASE sent[m] = None
    <3>1. Send(m)
      BY <1>4, <2>2 DEF Restart, Move, Send, Redeliver, Rewrite, Rewritten, vars, files, world, Inv, TypeOK
    <3> QED  BY <1>4, <3>1 DEF Send, Inv, TypeOK, store, files
  <2> QED  BY <2>1, <2>2
<1>5. ASSUME NEW m \in inbox'  PROVE sent'[m] # None
  <2>1. m \in inbox \/ (\E n \in Mails : n = m /\ (Send(n) \/ Redeliver(n)))
    BY <1>5 DEF Restart, Move, Send, Redeliver, Rewrite, Rewritten, vars, world
  <2>2. CASE m \in inbox
    BY <2>2 DEF Threading, KeepsMail, Inv, TypeOK
  <2>3. CASE \E n \in Mails : n = m /\ (Send(n) \/ Redeliver(n))
    <3>1. None \notin Message
      BY ConstantFacts
    <3> QED  BY <2>3, <3>1 DEF Send, Redeliver, Inv, TypeOK
  <2> QED  BY <2>1, <2>2, <2>3
<1> QED  BY <1>2, <1>3, <1>4, <1>5 DEF Threading

\* The message is not verified, or is its sender's own, and then it goes to a ticket that it
\* answers, or to a new one if it answers none.
LEMMA IngestThreads ==
    ASSUME Inv, Inv', Threading, Counting, KeepsMail, NEW h \in Handlers, Ingest(h)
    PROVE  Threading'
<1>1. PICK j \in Job : j = job[h]
  BY JobAt DEF Ingest, At
<1>2. WellFormed(h, j) /\ job[h] = j /\ j.step = "route"
  BY <1>1, JobAt DEF Ingest, At
<1>3. j.op = "mail"
  BY <1>2 DEF WellFormed, MigrationJob, MigrationSteps, Job, Ops
<1>4. MailKnows(j) /\ MailJob(j) /\ MailKnows(j)'
  BY <1>2, <1>3, KnowsStays
<1>5. PICK m \in Mails : m = j.at
  BY <1>2, <1>4 DEF MailJob
<1>6. PICK t \in MailTickets \cup {None} :
          /\ Candidate(m, t)
          /\ missed' = missed \cup Missed(m)
          /\ \/ /\ Route(m, t) = "quarantine"
                /\ held' = Hold(m) /\ Goto(h, "next")
             \/ /\ Route(m, t) = "append"
                /\ job' = [job EXCEPT ![h].ticket = t, ![h].step = "append",
                                      ![h].requester = Requester(m)]
                /\ UNCHANGED held
             \/ /\ Route(m, t) = "new"
                /\ job' = [job EXCEPT ![h].requester = Requester(m), ![h].step = "count"]
                /\ UNCHANGED held
  BY <1>1, <1>5, ZenonT(30) DEF Ingest
<1>7. PICK k \in Job \cup {None} : k = job'[h]
  BY DEF Inv, TypeOK
<1>8. job \in [Handlers -> Job \cup {None}] /\ Route(m, t) \in {"quarantine", "append", "new"}
  BY DEF Inv, TypeOK, Route
<1>9. sent' = sent /\ inbox' = inbox /\ comments' = comments /\ tickets' = tickets
  BY DEF Ingest, world, store
<1>10. sent[m] \in Message /\ sent[m] # None
  BY <1>2, <1>4, <1>5 DEF MailKnows, Inv, TypeOK
<1>11. CASE Route(m, t) = "quarantine"
  <2>1. job' = [job EXCEPT ![h] = k] /\ k.todo = j.todo /\ k.step = "next"
    BY <1>1, <1>6, <1>7, <1>8, <1>11 DEF Goto, Job
  <2>2. MailKnows(k)'
    BY <1>4, <2>1 DEF MailKnows
  <2> QED  BY <1>9, <2>1, <2>2, ThreadMoves
<1>12. CASE Route(m, t) = "append"
  <2>1. job' = [job EXCEPT ![h] = k] /\ k.todo = j.todo /\ k.step = "append" /\ k.at = m /\ k.ticket = t
    BY <1>1, <1>5, <1>6, <1>7, <1>8, <1>12 DEF Job
  <2>2. t \in MailTickets /\ t \in Matches(m)
    BY <1>6, <1>12 DEF Route, Candidate
  <2>3. sent[m].to # None
    BY <2>2 DEF Matches, LeadsTo
  <2>4. sent[m].to \in MailTickets /\ tickets[sent[m].to] # None
    BY <1>10, <2>3 DEF Message, Threading
  <2>5. /\ tickets[t] # None
        /\ IF sent[m].by = "header" THEN tickets[t].mid = tickets[sent[m].to].mid
           ELSE tickets[t].token = tickets[sent[m].to].token
    BY <2>2, <2>3 DEF Matches, LeadsTo
  <2>6. Followed(m, t)
    <3>1. CASE sent[m].by = "header"
      BY <1>10, <2>5, <3>1, ConstantFacts DEF Followed
    <3>2. CASE sent[m].by # "header" /\ Steady
      <4>1. t = sent[m].to
        BY <2>2, <2>4, <2>5, <3>2 DEF Counting, TokensCounted
      <4> QED  BY <1>10, <4>1, ConstantFacts DEF Followed
    <3>3. CASE sent[m].by # "header" /\ ~Steady
      BY <1>10, <3>3, ConstantFacts DEF Followed
    <3> QED  BY <3>1, <3>2, <3>3
  <2>7. Followed(m, t)'
    BY <2>2, <2>5, <2>6, FollowedStays
  <2>8. MailKnows(k)'
    BY <1>4, <1>5, <1>2, <2>1, <2>7 DEF MailKnows
  <2> QED  BY <1>9, <2>1, <2>8, ThreadMoves
<1>13. CASE Route(m, t) = "new"
  <2>1. job' = [job EXCEPT ![h] = k] /\ k.todo = j.todo /\ k.step = "count" /\ k.at = m
    BY <1>1, <1>5, <1>6, <1>7, <1>8, <1>13 DEF Job
  <2>2. t = None
    BY <1>13 DEF Route
  <2>3. Matches(m) = {}
    BY <1>6, <2>2, ConstantFacts DEF Candidate, Matches, LeadsTo, Tickets
  <2>4. sent[m].to = None \/ m \in missed'
    <3> SUFFICES ASSUME sent[m].to # None  PROVE m \in missed'
      OBVIOUS
    <3>1. sent[m].to \in MailTickets /\ tickets[sent[m].to] # None
      BY <1>10 DEF Message, Threading
    <3>2. sent[m].to \in LeadsTo(m)
      BY <3>1 DEF LeadsTo
    <3> QED  BY <1>6, <2>3, <3>2 DEF Missed
  <2>5. MailKnows(k)'
    BY <1>2, <1>4, <1>5, <1>9, <2>1, <2>4 DEF MailKnows
  <2> QED  BY <1>9, <2>1, <2>5, ThreadMoves
<1> QED  BY <1>8, <1>11, <1>12, <1>13

LEMMA NextThreads == Inv /\ Inv' /\ Threading /\ Counting /\ [Next]_vars => Threading'
<1> SUFFICES ASSUME Inv, Inv', Threading, Counting, [Next]_vars  PROVE Threading'
  OBVIOUS
<1>0. KeepsMail
  BY MailPersists
<1>1. ASSUME NEW h \in Handlers,
             \/ BeginPoll(h) \/ BeginRun(h) \/ Done(h)
             \/ TakeMail(h) \/ Ingest(h) \/ Count(h) \/ StoreSeq(h)
             \/ TakeItem(h) \/ Exists(h) \/ WriteDoc(h) \/ Record(h)
             \/ Put(h) \/ Grant(h) \/ AppendComment(h)
             \/ Raises(h) \/ PutRaises(h) \/ AppendRaises(h) \/ WriteRaises(h)
      PROVE  Threading'
  BY <1>0, <1>1, BeginThreads, TakeThreads, IngestThreads, MigrationThreads, FilingThreads, AppendThreads
<1> QED  BY <1>0, <1>1, WorldThreads DEF Next

-----------------------------------------------------------------------------
(* The counter. *)

LEMMA CountingInit == Init => Counting
BY ConstantFacts DEF Init, Counting, TokensCounted, Tickets

\* A step of thread h that leaves it with job k, which does not count, and the counter and
\* the tickets of mail as they are.
LEMMA CountingStays ==
    ASSUME Inv, Counting, KeepsMail, NEW h \in Handlers, NEW k \in Job \cup {None},
           job' = [job EXCEPT ![h] = k], k # None => ~Counts(k),
           email_seq' = email_seq, \A t \in MailTickets : tickets'[t] = tickets[t]
    PROVE  Counting'
<1> SUFFICES ASSUME Steady'  PROVE TokensCounted'
  BY DEF Counting
<1>1. TokensCounted
  BY DEF KeepsMail, Counting
<1>2. ASSUME NEW g \in Handlers, NEW j \in Job, job'[g] = j, Counts(j)  PROVE Alone(g)' /\ Ahead(j)'
  <2>1. g # h
    BY <1>2, ConstantFacts DEF Inv, TypeOK
  <2>2. job[g] = j
    BY <1>2, <2>1 DEF Inv, TypeOK
  <2>3. Alone(g) /\ Ahead(j)
    BY <1>1, <1>2, <2>2 DEF TokensCounted
  <2>4. ASSUME NEW f \in Handlers \ {g}, NEW i \in Job, job'[f] = i  PROVE ~Counts(i)
    BY <2>3, <2>4, ConstantFacts DEF Alone, Inv, TypeOK
  <2> QED  BY <2>3, <2>4 DEF Alone, Ahead
<1> QED  BY <1>1, <1>2 DEF TokensCounted

\* A step that changes no job, or ends all.
LEMMA CountingRests ==
    ASSUME Inv, Counting, KeepsMail, job' = job \/ \A h \in Handlers : job'[h] = None,
           email_seq' = email_seq, tickets' = tickets
    PROVE  Counting'
<1> SUFFICES ASSUME Steady'  PROVE TokensCounted'
  BY DEF Counting
<1>1. TokensCounted
  BY DEF KeepsMail, Counting
<1> QED  BY <1>1, ConstantFacts DEF TokensCounted, Alone, Ahead

LEMMA OthersCounting ==
    ASSUME Inv, Inv', Counting, KeepsMail, NEW h \in Handlers,
           \/ BeginPoll(h) \/ BeginRun(h) \/ Done(h) \/ TakeMail(h) \/ Ingest(h)
           \/ TakeItem(h) \/ Exists(h) \/ WriteDoc(h) \/ Record(h)
           \/ Grant(h) \/ AppendComment(h) \/ Raises(h) \/ AppendRaises(h) \/ WriteRaises(h)
    PROVE  Counting'
<1>1. email_seq' = email_seq /\ tickets' = tickets
  BY DEF BeginPoll, BeginRun, Done, TakeMail, Ingest, TakeItem, Exists, WriteDoc, Record,
     Grant, AppendComment, Raises, AppendRaises, WriteRaises, store, memory
<1>2. PICK k \in Job \cup {None} : k = job'[h]
  BY DEF Inv, TypeOK
<1>3. job \in [Handlers -> Job \cup {None}]
  BY DEF Inv, TypeOK
<1>4. CASE BeginPoll(h) \/ BeginRun(h)
  BY <1>1, <1>2, <1>3, <1>4, CountingStays DEF BeginPoll, BeginRun, Begin, Counts
<1>5. CASE Done(h) \/ Raises(h) \/ AppendRaises(h) \/ WriteRaises(h)
  BY <1>1, <1>5, CountingStays DEF Done, Raises, AppendRaises, WriteRaises, Finish
<1>6. ASSUME job[h] # None  PROVE job[h] \in Job
  BY <1>3, <1>6
<1>7. CASE TakeMail(h) \/ TakeItem(h)
  <2>1. PICK j \in Job : j = job[h]
    BY <1>6, <1>7 DEF TakeMail, TakeItem, At
  <2>2. PICK x \in j.todo : \E step \in {"route", "exists", "write", "next"} : Taken(h, x, step)
    BY <1>7, <2>1 DEF TakeMail, TakeItem
  <2>3. PICK step \in {"route", "exists", "write", "next"} : Taken(h, x, step)
    BY <2>2
  <2>4. TakenJob(j, x, step).step = step
    BY DEF TakenJob, Job
  <2>5. job' = [job EXCEPT ![h] = TakenJob(j, x, step)]
    BY <2>1, <2>3 DEF Taken, TakenJob
  <2> QED  BY <1>1, <1>2, <1>3, <2>4, <2>5, CountingStays DEF Counts
<1>8. CASE Exists(h) \/ WriteDoc(h) \/ Record(h) \/ Grant(h) \/ AppendComment(h)
  <2>1. PICK j \in Job : j = job[h]
    BY <1>6, <1>8 DEF Exists, WriteDoc, Record, Grant, AppendComment, At
  <2>2. Exists(h) => j.op = "migration"
    BY <2>1, JobAt DEF Exists, At, WellFormed, MailJob, MailSteps, Job, Ops
  <2>3. job' = [job EXCEPT ![h] = k] /\ ~Counts(k)
    <3>1. CASE Exists(h)
      BY <1>2, <1>3, <2>1, <2>2, <3>1 DEF Exists, AfterSkip, Counts, Job
    <3>2. CASE WriteDoc(h) \/ Record(h)
      BY <1>2, <1>3, <2>1, <3>2 DEF WriteDoc, Record, Goto, Counts, Job
    <3>3. CASE Grant(h)
      BY <1>2, <1>3, <2>1, <3>3 DEF Grant, Goto, Counts, Job
    <3>4. CASE AppendComment(h)
      BY <1>2, <1>3, <2>1, <3>4 DEF AppendComment, Goto, Counts, Job
    <3> QED  BY <1>8, <3>1, <3>2, <3>3, <3>4
  <2> QED  BY <1>1, <2>3, CountingStays
<1>9. CASE Ingest(h)
  <2>1. PICK j \in Job : j = job[h]
    BY <1>6, <1>9 DEF Ingest, At
  <2>2. PICK t \in MailTickets \cup {None} :
            \/ Goto(h, "next")
            \/ job' = [job EXCEPT ![h].ticket = t, ![h].step = "append",
                                  ![h].requester = Requester(j.at)]
            \/ job' = [job EXCEPT ![h].requester = Requester(j.at), ![h].step = "count"]
    BY <1>9, <2>1, ZenonT(30) DEF Ingest
  <2>3. job' = [job EXCEPT ![h] = k] /\ k.step \in {"next", "append", "count"}
    BY <1>2, <1>3, <2>1, <2>2 DEF Goto, Job
  <2> QED  BY <1>1, <2>3, CountingStays DEF Counts
<1> QED  BY <1>4, <1>5, <1>7, <1>8, <1>9

LEMMA CountCounting ==
    ASSUME Inv, Inv', Counting, KeepsMail, NEW h \in Handlers, Count(h)
    PROVE  Counting'
<1> SUFFICES ASSUME Steady'  PROVE TokensCounted'
  BY DEF Counting
<1>1. TokensCounted
  BY DEF KeepsMail, Counting
<1>2. PICK j \in Job : j = job[h]
  BY JobAt DEF Count, At
<1>3. PICK k \in Job \cup {None} : k = job'[h]
  BY DEF Inv, TypeOK
<1>4. job \in [Handlers -> Job \cup {None}]
  BY DEF Inv, TypeOK
<1>5. job' = [job EXCEPT ![h] = k] /\ k.step = "store" /\ k.seq = email_seq
  BY <1>2, <1>3, <1>4 DEF Count, Job
<1>6. tickets' = tickets /\ email_seq' = email_seq
  BY DEF Count, store, memory
<1>7. \A g \in Handlers \ {h} : ~(At(g, "store") \/ (At(g, "put") /\ job[g].op = "mail"))
  BY DEF Count, Steady, Inv, TypeOK
<1>8. ASSUME NEW g \in Handlers \ {h}, NEW i \in Job, job'[g] = i  PROVE ~Counts(i)
  <2>1. job[g] = i /\ i # None
    BY <1>4, <1>5, <1>8, ConstantFacts
  <2> QED  BY <1>7, <2>1 DEF At, Counts
<1>9. ASSUME NEW g \in Handlers, NEW i \in Job, job'[g] = i, Counts(i)  PROVE Alone(g)' /\ Ahead(i)'
  <2>1. g = h /\ i = k
    BY <1>3, <1>8, <1>9
  <2> QED  BY <1>5, <1>6, <1>8, <2>1 DEF Alone, Ahead
<1> QED  BY <1>1, <1>6, <1>9 DEF TokensCounted

LEMMA StoreCounting ==
    ASSUME Inv, Inv', Counting, KeepsMail, NEW h \in Handlers, StoreSeq(h)
    PROVE  Counting'
<1> SUFFICES ASSUME Steady'  PROVE TokensCounted'
  BY DEF Counting
<1>1. TokensCounted
  BY DEF KeepsMail, Counting
<1>2. PICK j \in Job : j = job[h]
  BY JobAt DEF StoreSeq, At
<1>3. PICK k \in Job \cup {None} : k = job'[h]
  BY DEF Inv, TypeOK
<1>4. job \in [Handlers -> Job \cup {None}]
  BY DEF Inv, TypeOK
<1>5. job' = [job EXCEPT ![h] = k] /\ k.step = "put"
  BY <1>2, <1>3, <1>4 DEF StoreSeq, Goto, Job
<1>6. j.step = "store" /\ tickets' = tickets /\ email_seq' = j.seq + 1
  BY <1>2 DEF StoreSeq, At, NextSeq, store
<1>7. Alone(h) /\ j.seq = email_seq
  BY <1>1, <1>2, <1>6 DEF TokensCounted, Counts, Ahead
<1>8. \A t \in MailTickets : tickets[t] # None => tickets[t].token < email_seq'
  <2>1. email_seq \in Nat
    BY DEF Inv, TypeOK
  <2>2. \A t \in MailTickets : tickets[t] # None => tickets[t].token \in Nat
    BY DEF Inv, TypeOK, Ticket, Tickets
  <2> QED  BY <1>1, <1>6, <1>7, <2>1, <2>2 DEF TokensCounted
<1>9. ASSUME NEW g \in Handlers \ {h}, NEW i \in Job, job'[g] = i  PROVE ~Counts(i)
  BY <1>4, <1>5, <1>7, <1>9 DEF Alone
<1>10. ASSUME NEW g \in Handlers, NEW i \in Job, job'[g] = i, Counts(i)  PROVE Alone(g)' /\ Ahead(i)'
  <2>1. g = h /\ i = k
    BY <1>3, <1>9, <1>10
  <2> QED  BY <1>5, <1>6, <1>8, <1>9, <2>1 DEF Alone, Ahead
<1>11. \A t \in MailTickets : tickets'[t] # None => tickets'[t].token <= email_seq'
  BY <1>6, <1>8 DEF Inv, TypeOK, Ticket, Tickets
<1> QED  BY <1>1, <1>6, <1>10, <1>11 DEF TokensCounted

\* The new ticket's token is the counter, which is past the others.
LEMMA PutCounting ==
    ASSUME Inv, Inv', Counting, KeepsMail, NEW h \in Handlers, Put(h) \/ PutRaises(h)
    PROVE  Counting'
<1>1. PICK j \in Job : j = job[h]
  BY JobAt DEF Put, PutRaises, Puts, At
<1>2. j.op \in Ops /\ j.step = "put" /\ (j.op = "migration" => j.at \in Jira)
  BY <1>1, PutFacts DEF Put, PutRaises, Puts
<1>3. PICK t \in IF j.op = "mail" THEN {n \in MailTickets : tickets[n] = None} ELSE {j.at} :
          /\ tickets' = [tickets EXCEPT ![t] = NewTicket(h)]
          /\ \/ job' = [job EXCEPT ![h].ticket = t, ![h].step = "grant"]
             \/ job' = [job EXCEPT ![h] = None]
  BY <1>1 DEF Put, PutRaises, Puts, Finish
<1>4. PICK k \in Job \cup {None} : k = job'[h]
  BY DEF Inv, TypeOK
<1>5. job \in [Handlers -> Job \cup {None}] /\ tickets \in [Tickets -> Ticket \cup {None}]
  BY DEF Inv, TypeOK
<1>6. job' = [job EXCEPT ![h] = k] /\ (k = None \/ k.step = "grant")
  BY <1>1, <1>3, <1>4, <1>5 DEF Job
<1>7. email_seq' = email_seq
  BY DEF Put, PutRaises, memory
<1>8. CASE j.op = "migration"
  <2>1. \A u \in MailTickets : tickets'[u] = tickets[u]
    BY <1>2, <1>3, <1>5, <1>8, ConstantFacts DEF Tickets
  <2> QED  BY <1>6, <1>7, <2>1, CountingStays DEF Counts
<1>9. CASE j.op = "mail"
  <2> SUFFICES ASSUME Steady'  PROVE TokensCounted'
    BY DEF Counting
  <2>1. TokensCounted
    BY DEF KeepsMail, Counting
  <2>2. Alone(h) /\ \A u \in MailTickets : tickets[u] # None => tickets[u].token < email_seq
    BY <1>1, <1>2, <1>9, <2>1 DEF TokensCounted, Counts, Ahead
  <2>3. t \in MailTickets /\ NewTicket(h).token = email_seq
    BY <1>1, <1>3, <1>9 DEF NewTicket
  <2>4. \A u \in MailTickets : tickets'[u] = IF u = t THEN NewTicket(h) ELSE tickets[u]
    BY <1>3, <1>5, <2>3 DEF Tickets
  <2>5. email_seq \in Nat /\ \A u \in MailTickets : tickets[u] # None => tickets[u].token \in Nat
    BY DEF Inv, TypeOK, Ticket, Tickets
  <2>6. \A u \in MailTickets : tickets'[u] # None => tickets'[u].token <= email_seq'
    BY <1>7, <2>2, <2>3, <2>4, <2>5
  <2>7. \A u, v \in MailTickets : u # v /\ tickets'[u] # None /\ tickets'[v] # None =>
           tickets'[u].token # tickets'[v].token
    BY <2>1, <2>2, <2>3, <2>4, <2>5 DEF TokensCounted
  <2>8. \A g \in Handlers : \A i \in Job : job'[g] = i => ~Counts(i)
    BY <1>4, <1>5, <1>6, <2>2, ConstantFacts DEF Alone, Counts
  <2> QED  BY <2>6, <2>7, <2>8 DEF TokensCounted
<1> QED  BY <1>2, <1>8, <1>9 DEF Ops

LEMMA NextCounts == Inv /\ Inv' /\ Counting /\ [Next]_vars => Counting'
<1> SUFFICES ASSUME Inv, Inv', Counting, [Next]_vars  PROVE Counting'
  OBVIOUS
<1>0. KeepsMail
  BY MailPersists
<1>1. ASSUME NEW h \in Handlers,
             \/ BeginPoll(h) \/ BeginRun(h) \/ Done(h)
             \/ TakeMail(h) \/ Ingest(h) \/ Count(h) \/ StoreSeq(h)
             \/ TakeItem(h) \/ Exists(h) \/ WriteDoc(h) \/ Record(h)
             \/ Put(h) \/ Grant(h) \/ AppendComment(h)
             \/ Raises(h) \/ PutRaises(h) \/ AppendRaises(h) \/ WriteRaises(h)
      PROVE  Counting'
  BY <1>0, <1>1, OthersCounting, CountCounting, StoreCounting, PutCounting
<1>2. CASE Restart
  <2>1. restarts' # 0
    BY <1>2, ConstantFacts DEF Restart, Inv, TypeOK, Scenario
  <2> QED  BY <2>1 DEF Counting, Steady
<1>3. CASE Rewritten \/ (\E t \in Tickets : Rewrite(t)) \/ (\E i \in Items \ Jira : Move(i)) \/ (\E m \in Mails : Send(m) \/ Redeliver(m))
           \/ UNCHANGED vars
  <2>1. job' = job /\ email_seq' = email_seq /\ tickets' = tickets
    BY <1>3 DEF Move, Send, Redeliver, Rewrite, Rewritten, vars, store, memory
  <2> QED  BY <1>0, <2>1, CountingRests
<1> QED  BY <1>1, <1>2, <1>3 DEF Next

LEMMA ThreadingHolds == Spec => [](Threading /\ Counting)
BY ThreadingInit, CountingInit, NextThreads, NextCounts, InvHolds, PTL DEF Spec

\* A reply is in the ticket it answers, or in one that a redelivery of the first contact filed:
\* by its headers whatever is redelivered, fails or is restarted and however many threads ingest,
\* and by its token until a restart or until two threads have counted at once; a reply whose
\* ticket was unreadable when it was looked up may have a ticket of its own.
THEOREM RepliesThread == Spec => []ThreadsToItsTicket
<1>1. Threading => ThreadsToItsTicket
  BY DEF Threading, Followed, Steady, ThreadsToItsTicket
<1> QED  BY <1>1, ThreadingHolds, PTL
=============================================================================
