-------------------------- MODULE TicketDeskProofs --------------------------
(***************************************************************************)
(* Proofs about TicketDesk, for every number of threads, principals and    *)
(* tickets, for both stores, and with or without failing OpenFGA writes.   *)
(***************************************************************************)
EXTENDS TicketDesk, TLAPS

\* At these steps a handler holds a copy of a record it will put or grant from.
CopySteps == {"insert", "grant", "stamp", "curate", "save"}

\* What TypeOK needs to be inductive: at the steps that use them, the copy of
\* the record and the comment are there.
JobsEquipped ==
    \A h \in Handlers : job[h] # None =>
        /\ job[h].step \in CopySteps => job[h].ticket \in Ticket
        /\ job[h].step = "append" => job[h].comment \in Comment

TypeInv == TypeOK /\ JobsEquipped

LEMMA InitTyped == Init => TypeInv
  BY DeskAssumption DEF Init, TypeInv, TypeOK, JobsEquipped, Ticket

LEMMA NewTicketTyped ==
  ASSUME NEW p \in Principals, NEW e \in BOOLEAN
  PROVE  NewTicket(p, e) \in Ticket
  BY DEF NewTicket, Ticket, Statuses

LEMMA MovedTyped ==
  ASSUME NEW r \in Ticket, NEW s \in Statuses
  PROVE  Moved(r, s) \in Ticket
  BY DEF Moved, Ticket

LEMMA StoredTyped ==
  ASSUME NEW r \in Ticket
  PROVE  Stored(r) \in Ticket
  BY DEF Stored, Ticket

\* Whatever request arrives, the typing survives, given a copy where one is needed.
LEMMA StartTyped ==
  ASSUME TypeInv, NEW h \in Handlers, NEW op \in Ops, NEW step \in Steps,
         NEW by \in Principals, NEW t \in TicketIds, NEW r \in Ticket \cup {None},
         step \in CopySteps => r \in Ticket, step # "append",
         Start(h, op, step, by, t, r)
  PROVE  TypeInv'
<1>1. [op |-> op, step |-> step, by |-> by, id |-> t, ticket |-> r,
       comment |-> None, shown |-> <<>>] \in Job
  BY DEF Job
<1>2. TypeOK'
  BY <1>1 DEF TypeInv, TypeOK, Start
<1>3. JobsEquipped'
  BY DEF TypeInv, TypeOK, JobsEquipped, Start
<1> QED  BY <1>2, <1>3 DEF TypeInv

LEMMA ArriveTyped ==
  ASSUME TypeInv, NEW h \in Handlers, Arrive(h)
  PROVE  TypeInv'
<1> USE DEF TypeInv, TypeOK
<1>1. CASE BeginCreate(h)
  BY <1>1, StartTyped, NewTicketTyped DEF BeginCreate, Ops, Steps, CopySteps
<1>2. CASE BeginCapture(h)
  BY <1>2, StartTyped, NewTicketTyped DEF BeginCapture, Ops, Steps, CopySteps
<1>3. CASE BeginLink(h)
  BY <1>3, StartTyped DEF BeginLink, Ops, Steps, CopySteps
<1>4. CASE BeginReply(h)
  BY <1>4, StartTyped DEF BeginReply, Ops, Steps, CopySteps
<1>5. CASE BeginTransition(h)
  BY <1>5, StartTyped, MovedTyped DEF BeginTransition, Get, Ops, Steps, CopySteps
<1>6. CASE BeginPromote(h)
  BY <1>6, StartTyped, DeskAssumption DEF BeginPromote, Get, Ops, Steps, CopySteps
<1>7. CASE BeginRead(h)
  BY <1>7, StartTyped DEF BeginRead, ReadRoute, Ops, Steps, CopySteps
<1>8. CASE BeginSearch(h)
  BY <1>8, StartTyped DEF BeginSearch, Ops, Steps, CopySteps
<1> QED
  BY <1>1, <1>2, <1>3, <1>4, <1>5, <1>6, <1>7, <1>8 DEF Arrive

\* A put leaves a typed store, whatever the handler does next.
LEMMA PutTyped ==
  ASSUME TypeInv, NEW h \in Handlers, job[h] # None, job[h].step \in CopySteps, Put(h)
  PROVE  /\ tickets' \in [TicketIds -> Ticket \cup {None}]
         /\ comments' \in [TicketIds -> Seq(Comment)]
         /\ viewers' \in [TicketIds -> SUBSET Principals]
         /\ writer' \in Handlers \cup {None}
         /\ curatedAt' \in [TicketIds -> SUBSET Nat]
  BY StoredTyped DEF Put, TypeInv, TypeOK, JobsEquipped, Job

\* Moving a handler to a step that needs nothing new keeps its job typed.
LEMMA GotoTyped ==
  ASSUME TypeInv, NEW h \in Handlers, job[h] # None, NEW step \in Steps,
         step \in CopySteps => job[h].ticket \in Ticket, step # "append",
         Goto(h, step)
  PROVE  job' \in [Handlers -> Job \cup {None}] /\ JobsEquipped'
  BY DEF Goto, TypeInv, TypeOK, JobsEquipped, Job

LEMMA FinishTyped ==
  ASSUME TypeInv, NEW h \in Handlers, Finish(h)
  PROVE  job' \in [Handlers -> Job \cup {None}] /\ JobsEquipped'
  BY DEF Finish, TypeInv, TypeOK, JobsEquipped

LEMMA SealedCommentTyped ==
  ASSUME TypeInv, NEW p \in Principals, NEW t \in TicketIds
  PROVE  SealedComment(p, t) \in Comment
  BY DEF SealedComment, Get, TypeInv, TypeOK, Comment, Ticket

LEMMA DecryptedTyped ==
  ASSUME TypeInv, NEW t \in TicketIds
  PROVE  Decrypted(t) \in Seq(Comment)
<1>1. comments[t] \in Seq(Comment)
  BY DEF TypeInv, TypeOK
<1>2. \A i \in 1..Len(comments[t]) :
        [author |-> comments[t][i].author,
         encrypted |-> comments[t][i].encrypted /\ Get(t) = None] \in Comment
  <2> TAKE i \in 1..Len(comments[t])
  <2>1. comments[t][i] \in Comment
    BY <1>1
  <2>2. (comments[t][i].encrypted /\ Get(t) = None) \in BOOLEAN
    OBVIOUS
  <2> QED  BY <2>1, <2>2 DEF Comment
<1> QED  BY <1>1, <1>2 DEF Decrypted

LEMMA ShowTyped ==
  ASSUME TypeInv, NEW h \in Handlers, job[h] # None, NEW s \in Seq(Comment), Show(h, s)
  PROVE  TypeInv'
<1>1. [job[h] EXCEPT !.step = "respond", !.shown = s] \in Job
  BY DEF TypeInv, TypeOK, Job, Steps
<1>2. job' = [job EXCEPT ![h] = [job[h] EXCEPT !.step = "respond", !.shown = s]]
  BY DEF Show, TypeInv, TypeOK
<1>3. job' \in [Handlers -> Job \cup {None}]
  BY <1>1, <1>2 DEF TypeInv, TypeOK
<1>4. JobsEquipped'
  BY <1>2 DEF TypeInv, TypeOK, JobsEquipped, Job, CopySteps
<1> QED  BY <1>3, <1>4 DEF Show, TypeInv, TypeOK

LEMMA AdvanceTyped ==
  ASSUME TypeInv, NEW h \in Handlers, Advance(h)
  PROVE  TypeInv'
<1> USE DEF TypeInv
<1>1. CASE OpenForWrite(h)
  BY <1>1 DEF OpenForWrite, TypeOK, JobsEquipped
<1>2. CASE Insert(h)
  BY <1>2, PutTyped, GotoTyped DEF Insert, At, TypeOK, JobsEquipped, CopySteps, Steps
<1>3. CASE Stamp(h)
  BY <1>3, PutTyped, GotoTyped DEF Stamp, At, TypeOK, CopySteps, Steps
<1>4. CASE Save(h)
  BY <1>4, PutTyped, FinishTyped DEF Save, At, TypeOK, CopySteps
<1>5. CASE CommitFails(h)
  BY <1>5, PutTyped, FinishTyped DEF CommitFails, PutSteps, TypeOK, CopySteps
<1>6. CASE Grant(h)
  <2>1. job[h] \in Job /\ job[h].ticket \in Ticket
    BY <1>6 DEF Grant, At, TypeOK, JobsEquipped, CopySteps
  <2>2. viewers' \in [TicketIds -> SUBSET Principals]
    BY <1>6, <2>1 DEF Grant, TypeOK, Job, Ticket
  <2>3. job' \in [Handlers -> Job \cup {None}] /\ JobsEquipped'
    <3>1. CASE job' = [job EXCEPT ![h].step = "stamp",
                                  ![h].ticket.captured_by = job[h].by]
      <4>1. [job[h].ticket EXCEPT !.captured_by = job[h].by] \in Ticket
        BY <2>1 DEF Job, Ticket
      <4>2. [job[h] EXCEPT !.step = "stamp",
                          !.ticket = [job[h].ticket EXCEPT !.captured_by = job[h].by]]
              \in Job
        BY <2>1, <4>1 DEF Job, Steps
      <4>3. job' = [job EXCEPT ![h] =
              [job[h] EXCEPT !.step = "stamp",
                  !.ticket = [job[h].ticket EXCEPT !.captured_by = job[h].by]]]
        BY <3>1, <2>1 DEF TypeOK, Job, Ticket
      <4> QED  BY <2>1, <4>1, <4>2, <4>3 DEF TypeOK, JobsEquipped, Job
    <3>2. CASE Goto(h, "seal")
      BY <1>6, <3>2, GotoTyped DEF Grant, At, Steps, CopySteps
    <3>3. CASE Finish(h)
      BY <3>3, FinishTyped
    <3> QED  BY <1>6, <3>1, <3>2, <3>3 DEF Grant
  <2> QED  BY <1>6, <2>2, <2>3 DEF Grant, TypeOK
<1>7. CASE GrantFails(h)
  BY <1>7, FinishTyped DEF GrantFails, TypeOK
<1>8. CASE Seal(h)
  <2>1. SealedComment(job[h].by, job[h].id) \in Comment
    BY <1>8, SealedCommentTyped DEF Seal, At, TypeOK, Job
  <2> DEFINE sealed == [job[h] EXCEPT !.step = "append",
                                      !.comment = SealedComment(job[h].by, job[h].id)]
  <2>2. sealed \in Job /\ sealed.step = "append" /\ sealed.comment \in Comment
    BY <1>8, <2>1 DEF Seal, At, TypeOK, Job, Steps
  <2>3. job' = [job EXCEPT ![h] = sealed]
    BY <1>8 DEF Seal, TypeOK
  <2> HIDE DEF sealed
  <2> QED  BY <1>8, <2>2, <2>3 DEF Seal, TypeOK, JobsEquipped, CopySteps
<1>9. CASE AppendComment(h)
  <2>1. comments' \in [TicketIds -> Seq(Comment)]
    BY <1>9 DEF AppendComment, At, TypeOK, JobsEquipped, Job
  <2> QED  BY <1>9, <2>1, FinishTyped DEF AppendComment, TypeOK
<1>10. CASE Curate(h)
  <2>1. job[h] \in Job /\ job[h].ticket \in Ticket /\ comments[job[h].id] \in Seq(Comment)
    BY <1>10 DEF Curate, At, TypeOK, JobsEquipped, CopySteps, Job
  <2>2. [job[h].ticket EXCEPT !.community_visible = TRUE,
                              !.community_snapshot = comments[job[h].id]] \in Ticket
    BY <2>1 DEF Ticket
  <2>3. job' \in [Handlers -> Job \cup {None}] /\ JobsEquipped'
    <3> DEFINE r == [job[h].ticket EXCEPT !.community_visible = TRUE,
                                          !.community_snapshot = comments[job[h].id]]
               k == [job[h] EXCEPT !.step = "save", !.ticket = r]
    <3>1. job' = [job EXCEPT ![h] = k]
      BY <1>10, <2>1 DEF Curate, TypeOK, Job
    <3> HIDE DEF r
    <3>2. k \in Job /\ k.step = "save" /\ k.ticket \in Ticket
      BY <2>1, <2>2 DEF Job, Steps, r
    <3> HIDE DEF k
    <3> QED  BY <3>1, <3>2 DEF TypeOK, JobsEquipped, CopySteps
  <2>4. curatedAt' \in [TicketIds -> SUBSET Nat]
    BY <1>10, <2>1 DEF Curate, TypeOK, Job
  <2> QED  BY <1>10, <2>3, <2>4 DEF Curate, TypeOK
<1>11. CASE ShowSnapshot(h)
  <2> DEFINE record == Get(job[h].id)
             shown == IF record = None \/ record.community_snapshot = None
                      THEN <<>> ELSE record.community_snapshot
  <2>1. record \in Ticket \cup {None}
    BY <1>11 DEF ShowSnapshot, At, Get, TypeOK, Job
  <2>2. shown \in Seq(Comment)
    BY <2>1 DEF Ticket
  <2>3. job[h] # None /\ Show(h, shown)
    BY <1>11 DEF ShowSnapshot, At
  <2> QED  BY <2>2, <2>3, ShowTyped
<1>12. CASE ShowThread(h)
  BY <1>12, ShowTyped, DecryptedTyped DEF ShowThread, At, TypeOK, Job
<1>13. CASE Respond(h)
  BY <1>13, FinishTyped DEF Respond, TypeOK
<1> QED
  BY <1>1, <1>2, <1>3, <1>4, <1>5, <1>6, <1>7, <1>8, <1>9, <1>10, <1>11, <1>12, <1>13
     DEF Advance

LEMMA TypeInvariant == Spec => []TypeInv
<1>1. TypeInv /\ [Next]_vars => TypeInv'
  <2>1. CASE Next
    BY <2>1, ArriveTyped, AdvanceTyped DEF Next
  <2>2. CASE UNCHANGED vars
    BY <2>2 DEF vars, TypeInv, TypeOK, JobsEquipped
  <2> QED  BY <2>1, <2>2
<1> QED  BY InitTyped, <1>1, PTL DEF Spec

\* Type correctness: no store, job or response ever holds anything but what the
\* code's dataclasses admit, whatever the interleaving.
THEOREM TypeCorrect == Spec => []TypeOK
  BY TypeInvariant, PTL DEF TypeInv
-----------------------------------------------------------------------------
(* A ticket keeps its requester, its encryption and its assignee. *)

SameIdentity(r1, r2) ==
    /\ r1.requester = r2.requester
    /\ r1.encrypted = r2.encrypted
    /\ r1.assignee = r2.assignee

\* The copy a handler works on was taken from a ticket that is still there, with
\* the same identity; a ticket about to be inserted is not there, and nobody
\* else works on its id.
CopiesAgree ==
    \A h \in Handlers : job[h] # None =>
        LET j == job[h]
        IN  /\ j.step = "insert" =>
                 /\ tickets[j.id] = None
                 /\ \A g \in Handlers \ {h} : job[g] # None => job[g].id # j.id
            /\ j.step # "insert" => tickets[j.id] # None
            /\ j.step \in CopySteps \ {"insert"} => SameIdentity(j.ticket, tickets[j.id])

LEMMA MovedIdentity ==
  ASSUME NEW r \in Ticket, NEW s \in Statuses
  PROVE  SameIdentity(Moved(r, s), r)
  BY DEF Moved, Ticket, SameIdentity

LEMMA StoredIdentity ==
  ASSUME NEW r \in Ticket
  PROVE  SameIdentity(Stored(r), r)
  BY DEF Stored, Ticket, SameIdentity

LEMMA PutStores ==
  ASSUME TypeInv, NEW h \in Handlers, job[h] # None, job[h].step \in PutSteps, Put(h)
  PROVE  /\ job[h].id \in TicketIds
         /\ job[h].ticket \in Ticket
         /\ Stored(job[h].ticket) \in Ticket
         /\ Stored(job[h].ticket) # None
         /\ tickets' = [tickets EXCEPT ![job[h].id] = Stored(job[h].ticket)]
  BY StoredTyped, DeskAssumption
     DEF Put, PutSteps, CopySteps, TypeInv, TypeOK, JobsEquipped, Job

\* A put keeps every ticket and its identity.
LEMMA PutKeepsIdentity ==
  ASSUME TypeInv, CopiesAgree, NEW h \in Handlers, job[h] # None,
         job[h].step \in PutSteps, Put(h)
  PROVE  \A t \in TicketIds : tickets[t] # None =>
             tickets'[t] # None /\ SameIdentity(tickets'[t], tickets[t])
<1> SUFFICES ASSUME NEW t \in TicketIds, tickets[t] # None
             PROVE  tickets'[t] # None /\ SameIdentity(tickets'[t], tickets[t])
  OBVIOUS
<1>1. CASE t = job[h].id
  <2>1. tickets'[t] = Stored(job[h].ticket) /\ tickets'[t] # None
    BY <1>1, PutStores DEF TypeInv, TypeOK
  <2>2. SameIdentity(job[h].ticket, tickets[t])
    BY <1>1 DEF CopiesAgree, PutSteps, CopySteps
  <2> QED  BY <2>1, <2>2, PutStores, StoredIdentity DEF SameIdentity
<1>2. CASE t # job[h].id
  BY <1>2, PutStores DEF TypeInv, TypeOK, SameIdentity
<1> QED  BY <1>1, <1>2

LEMMA IdentityStep ==
  ASSUME TypeInv, CopiesAgree, [Next]_vars
  PROVE  \A t \in TicketIds : tickets[t] # None =>
             tickets'[t] # None /\ SameIdentity(tickets'[t], tickets[t])
<1>1. CASE tickets' = tickets
  BY <1>1 DEF SameIdentity
<1>2. ASSUME NEW h \in Handlers, Insert(h) \/ Stamp(h) \/ Save(h) \/ CommitFails(h)
      PROVE  \A t \in TicketIds : tickets[t] # None =>
                 tickets'[t] # None /\ SameIdentity(tickets'[t], tickets[t])
  BY <1>2, PutKeepsIdentity DEF Insert, Stamp, Save, CommitFails, At, PutSteps
<1>3. CASE Next
  <2>1. PICK h \in Handlers : Arrive(h) \/ Advance(h)
    BY <1>3 DEF Next
  <2>2. Arrive(h) => tickets' = tickets
    BY DEF Arrive, BeginCreate, BeginCapture, BeginLink, BeginReply, BeginTransition,
           BeginPromote, BeginRead, BeginSearch, Start
  <2>3. Advance(h) => \/ tickets' = tickets
                      \/ Insert(h) \/ Stamp(h) \/ Save(h) \/ CommitFails(h)
    BY DEF Advance, OpenForWrite, Grant, GrantFails, Seal, AppendComment, Curate,
           ShowSnapshot, ShowThread, Respond, Show
  <2> QED  BY <1>1, <1>2, <2>1, <2>2, <2>3
<1> QED  BY <1>1, <1>3 DEF vars

\* The identity of the copy a request arrives with is that of the ticket.
LEMMA ArriveAgrees ==
  ASSUME TypeInv, CopiesAgree, NEW h \in Handlers, Arrive(h)
  PROVE  CopiesAgree'
<1> DEFINE Agrees(step, t, r) ==
      /\ step = "insert" => Fresh(t)
      /\ step # "insert" => tickets[t] # None
      /\ step \in CopySteps \ {"insert"} => SameIdentity(r, tickets[t])
<1>1. ASSUME NEW op \in Ops, NEW step \in Steps, NEW by \in Principals,
             NEW t \in TicketIds, NEW r \in Ticket \cup {None},
             Start(h, op, step, by, t, r), Agrees(step, t, r)
      PROVE  CopiesAgree'
  <2>1. /\ job[h] = None
        /\ job' = [job EXCEPT ![h] = job'[h]]
        /\ job'[h].id = t /\ job'[h].step = step /\ job'[h].ticket = r
        /\ tickets' = tickets
    BY <1>1 DEF Start, TypeInv, TypeOK
  <2> SUFFICES ASSUME NEW g \in Handlers, job'[g] # None
               PROVE  /\ job'[g].step = "insert" =>
                           /\ tickets[job'[g].id] = None
                           /\ \A k \in Handlers \ {g} :
                                job'[k] # None => job'[k].id # job'[g].id
                      /\ job'[g].step # "insert" => tickets[job'[g].id] # None
                      /\ job'[g].step \in CopySteps \ {"insert"} =>
                           SameIdentity(job'[g].ticket, tickets[job'[g].id])
    BY <2>1 DEF CopiesAgree
  <2>2. CASE g = h
    BY <1>1, <2>1, <2>2 DEF Fresh, TypeInv, TypeOK
  <2>3. CASE g # h
    <3>1. job'[g] = job[g] /\ \A k \in Handlers \ {h} : job'[k] = job[k]
      BY <2>1, <2>3 DEF TypeInv, TypeOK
    <3>2. job[g].step = "insert" => job[g].id # t
      BY <1>1, <2>1, <3>1 DEF CopiesAgree, Fresh
    <3> QED  BY <2>1, <2>3, <3>1, <3>2 DEF CopiesAgree
  <2> QED  BY <2>2, <2>3
<1> HIDE DEF Agrees
<1>2. CASE BeginCreate(h)
  BY <1>2, <1>1, NewTicketTyped DEF BeginCreate, Agrees, Ops, Steps, CopySteps
<1>3. CASE BeginCapture(h)
  BY <1>3, <1>1, NewTicketTyped DEF BeginCapture, Agrees, Ops, Steps, CopySteps
<1>4. CASE BeginLink(h)
  BY <1>4, <1>1 DEF BeginLink, Get, Agrees, Ops, Steps, CopySteps
<1>5. CASE BeginReply(h)
  BY <1>5, <1>1 DEF BeginReply, Get, Agrees, Ops, Steps, CopySteps
<1>6. CASE BeginTransition(h)
  BY <1>6, <1>1, MovedTyped, MovedIdentity
     DEF BeginTransition, Get, Agrees, Ops, Steps, CopySteps, TypeInv, TypeOK
<1>7. CASE BeginPromote(h)
  BY <1>7, <1>1, DeskAssumption
     DEF BeginPromote, Get, Agrees, Ops, Steps, CopySteps, TypeInv, TypeOK, SameIdentity
<1>8. CASE BeginRead(h)
  BY <1>8, <1>1 DEF BeginRead, ReadRoute, Get, Agrees, Ops, Steps, CopySteps
<1>9. CASE BeginSearch(h)
  BY <1>9, <1>1 DEF BeginSearch, Get, Agrees, Ops, Steps, CopySteps
<1> QED
  BY <1>2, <1>3, <1>4, <1>5, <1>6, <1>7, <1>8, <1>9 DEF Arrive

\* A step of a request keeps the copies in agreement if it touches no other
\* ticket, keeps identities, and leaves its own copy in agreement.
LEMMA StepAgrees ==
  ASSUME TypeInv, CopiesAgree, NEW h \in Handlers, job[h] # None,
         \A t \in TicketIds : tickets[t] # None =>
             tickets'[t] # None /\ SameIdentity(tickets'[t], tickets[t]),
         \A t \in TicketIds : t # job[h].id => tickets'[t] = tickets[t],
         job' = [job EXCEPT ![h] = job'[h]],
         job'[h] # None =>
             /\ job'[h].id = job[h].id /\ job'[h].step # "insert"
             /\ tickets'[job[h].id] # None
             /\ job'[h].step \in CopySteps =>
                    SameIdentity(job'[h].ticket, tickets'[job[h].id])
  PROVE  CopiesAgree'
<1> SUFFICES ASSUME NEW g \in Handlers, job'[g] # None
             PROVE  /\ job'[g].step = "insert" =>
                         /\ tickets'[job'[g].id] = None
                         /\ \A k \in Handlers \ {g} :
                              job'[k] # None => job'[k].id # job'[g].id
                    /\ job'[g].step # "insert" => tickets'[job'[g].id] # None
                    /\ job'[g].step \in CopySteps \ {"insert"} =>
                         SameIdentity(job'[g].ticket, tickets'[job'[g].id])
  BY DEF CopiesAgree
<1>1. CASE g = h
  BY <1>1
<1>2. CASE g # h
  <2>1. /\ job'[g] = job[g] /\ job[g].id \in TicketIds
        /\ \A k \in Handlers \ {h} : job'[k] = job[k]
    BY <1>2 DEF TypeInv, TypeOK, Job
  <2>2. job[g].step = "insert" =>
          /\ tickets[job[g].id] = None
          /\ \A k \in Handlers \ {g} : job[k] # None => job[k].id # job[g].id
    BY <1>2, <2>1 DEF CopiesAgree
  <2>3. job[g].step # "insert" => tickets'[job[g].id] # None
    BY <1>2, <2>1 DEF CopiesAgree
  <2>4. job[g].step \in CopySteps \ {"insert"} =>
          SameIdentity(job[g].ticket, tickets'[job[g].id])
    BY <1>2, <2>1 DEF CopiesAgree, SameIdentity
  <2> QED  BY <1>2, <2>1, <2>2, <2>3, <2>4
<1> QED  BY <1>1, <1>2

\* After the grant a request is over, goes on to its comment with the same copy,
\* or (a capture) puts the copy again with the capturer in it.
LEMMA GrantOutcome ==
  ASSUME TypeInv, NEW h \in Handlers, Grant(h)
  PROVE  /\ job[h] \in Job /\ job[h].ticket \in Ticket
         /\ job' = [job EXCEPT ![h] = job'[h]]
         /\ \/ job'[h] = None
            \/ /\ job'[h].id = job[h].id
               /\ \/ job'[h].step = "seal" /\ job'[h].ticket = job[h].ticket
                  \/ /\ job'[h].step = "stamp"
                     /\ job'[h].ticket = [job[h].ticket EXCEPT !.captured_by = job[h].by]
<1>1. job[h] \in Job /\ job[h].ticket \in Ticket
  BY DEF Grant, At, TypeInv, TypeOK, JobsEquipped, CopySteps
<1>2. CASE job' = [job EXCEPT ![h].step = "stamp",
                              ![h].ticket.captured_by = job[h].by]
  <2> DEFINE stamped ==
        [job[h] EXCEPT !.step = "stamp",
                       !.ticket = [job[h].ticket EXCEPT !.captured_by = job[h].by]]
  <2>1. /\ stamped.id = job[h].id /\ stamped.step = "stamp"
        /\ stamped.ticket = [job[h].ticket EXCEPT !.captured_by = job[h].by]
    BY <1>1 DEF Job
  <2>2. job' = [job EXCEPT ![h] = stamped]
    BY <1>1, <1>2 DEF TypeInv, TypeOK, Job, Ticket
  <2> HIDE DEF stamped
  <2>3. job' = [job EXCEPT ![h] = job'[h]] /\ job'[h] = stamped
    BY <2>2 DEF TypeInv, TypeOK
  <2> QED  BY <1>1, <2>1, <2>3
<1>3. CASE Goto(h, "seal")
  BY <1>1, <1>3 DEF Goto, TypeInv, TypeOK, Job
<1>4. CASE Finish(h)
  BY <1>1, <1>4 DEF Finish, TypeInv, TypeOK
<1> QED  BY <1>2, <1>3, <1>4 DEF Grant

LEMMA AdvanceAgrees ==
  ASSUME TypeInv, CopiesAgree, NEW h \in Handlers, Advance(h)
  PROVE  CopiesAgree'
<1>1. \A t \in TicketIds : tickets[t] # None =>
          tickets'[t] # None /\ SameIdentity(tickets'[t], tickets[t])
  BY IdentityStep DEF Next
<1> DEFINE AgreesAfter ==
      /\ job[h] # None
      /\ \A t \in TicketIds : t # job[h].id => tickets'[t] = tickets[t]
      /\ job' = [job EXCEPT ![h] = job'[h]]
      /\ job'[h] # None =>
             /\ job'[h].id = job[h].id /\ job'[h].step # "insert"
             /\ tickets'[job[h].id] # None
             /\ job'[h].step \in CopySteps =>
                    SameIdentity(job'[h].ticket, tickets'[job[h].id])
<1>2. CASE OpenForWrite(h)
  BY <1>2 DEF OpenForWrite, CopiesAgree
<1>3. ASSUME job[h] # None, job[h].step \in PutSteps, Put(h)
      PROVE  /\ \A t \in TicketIds : t # job[h].id => tickets'[t] = tickets[t]
             /\ tickets'[job[h].id] # None
             /\ SameIdentity(job[h].ticket, tickets'[job[h].id])
  BY <1>3, PutStores, StoredIdentity DEF TypeInv, TypeOK, SameIdentity
<1>4. CASE Insert(h) \/ Stamp(h)
  <2>1. job[h] # None /\ job[h].step \in PutSteps /\ Put(h)
    BY <1>4 DEF Insert, Stamp, At, PutSteps
  <2>2. /\ job' = [job EXCEPT ![h] = job'[h]]
        /\ job'[h].id = job[h].id /\ job'[h].step \in {"grant", "seal"}
        /\ job'[h].ticket = job[h].ticket
    BY <1>4, <2>1 DEF Insert, Stamp, Goto, TypeInv, TypeOK, Job
  <2> QED  BY <1>1, <1>3, <2>1, <2>2, StepAgrees
<1>5. CASE Save(h) \/ CommitFails(h)
  <2>1. job[h] # None /\ job[h].step \in PutSteps /\ Put(h)
    BY <1>5 DEF Save, CommitFails, At, PutSteps
  <2>2. job' = [job EXCEPT ![h] = job'[h]] /\ job'[h] = None
    BY <1>5 DEF Save, CommitFails, Finish, TypeInv, TypeOK
  <2> QED  BY <1>1, <1>3, <2>1, <2>2, StepAgrees
<1>6. CASE Grant(h) \/ GrantFails(h) \/ Seal(h) \/ AppendComment(h)
           \/ Curate(h) \/ ShowSnapshot(h) \/ ShowThread(h) \/ Respond(h)
  <2>1. job[h] # None /\ job[h] \in Job /\ job[h].step # "insert"
    BY <1>6 DEF Grant, GrantFails, Seal, AppendComment, Curate, ShowSnapshot, ShowThread,
                Respond, At, TypeInv, TypeOK
  <2>2. tickets' = tickets /\ tickets[job[h].id] # None
    BY <1>6, <2>1 DEF Grant, GrantFails, Seal, AppendComment, Curate, ShowSnapshot,
                      ShowThread, Respond, Show, CopiesAgree
  <2>3. CASE Seal(h) \/ ShowSnapshot(h) \/ ShowThread(h)
    <3>1. /\ job' = [job EXCEPT ![h] = job'[h]]
          /\ job'[h].id = job[h].id /\ job'[h].step \in {"append", "respond"}
      BY <2>1, <2>3 DEF Seal, ShowSnapshot, ShowThread, Show, TypeInv, TypeOK, Job
    <3> QED  BY <1>1, <2>1, <2>2, <3>1, StepAgrees DEF CopySteps
  <2>4. CASE Finish(h)
    <3>1. job' = [job EXCEPT ![h] = job'[h]] /\ job'[h] = None
      BY <2>4 DEF Finish, TypeInv, TypeOK
    <3> QED  BY <1>1, <2>1, <2>2, <3>1, StepAgrees
  <2>5. CASE Grant(h)
    <3>1. SameIdentity(job[h].ticket, tickets[job[h].id])
      BY <2>5 DEF Grant, At, CopiesAgree, CopySteps
    <3>2. job'[h] # None => SameIdentity(job'[h].ticket, job[h].ticket)
      BY <2>5, GrantOutcome DEF Ticket, SameIdentity
    <3>3. /\ job' = [job EXCEPT ![h] = job'[h]]
          /\ job'[h] # None => job'[h].id = job[h].id /\ job'[h].step \in {"stamp", "seal"}
      BY <2>5, GrantOutcome
    <3> QED  BY <1>1, <2>1, <2>2, <3>1, <3>2, <3>3, StepAgrees DEF SameIdentity
  <2>6. CASE Curate(h)
    <3>1. job[h].ticket \in Ticket /\ SameIdentity(job[h].ticket, tickets[job[h].id])
      BY <2>6 DEF Curate, At, CopiesAgree, CopySteps, TypeInv, JobsEquipped
    <3>2. /\ job' = [job EXCEPT ![h] = job'[h]]
          /\ job'[h].id = job[h].id /\ job'[h].step = "save"
          /\ SameIdentity(job'[h].ticket, job[h].ticket)
      BY <2>1, <2>6, <3>1 DEF Curate, TypeInv, TypeOK, Job, Ticket, SameIdentity
    <3> QED  BY <1>1, <2>1, <2>2, <3>1, <3>2, StepAgrees DEF SameIdentity
  <2> QED
    BY <1>6, <2>3, <2>4, <2>5, <2>6 DEF GrantFails, AppendComment, Respond
<1> QED
  BY <1>2, <1>4, <1>5, <1>6 DEF Advance

LEMMA CopiesAlwaysAgree == Spec => [](TypeInv /\ CopiesAgree)
<1>1. Init => CopiesAgree
  BY DEF Init, CopiesAgree
<1>2. TypeInv /\ CopiesAgree /\ [Next]_vars => CopiesAgree'
  <2>1. ASSUME TypeInv, CopiesAgree, Next
        PROVE  CopiesAgree'
    BY <2>1, ArriveAgrees, AdvanceAgrees DEF Next
  <2>2. CopiesAgree /\ UNCHANGED vars => CopiesAgree'
    BY DEF vars, CopiesAgree
  <2> QED  BY <2>1, <2>2
<1> QED  BY <1>1, <1>2, TypeInvariant, PTL DEF Spec

\* No interleaving of create, capture, transition and promote loses a ticket or
\* changes its requester, its encryption or its assignee, although each put
\* replaces the whole record by a copy that may be stale.
THEOREM IdentityIsFixed == Spec => IdentityFixed
<1>1. TypeInv /\ CopiesAgree /\ [Next]_vars =>
        [\A t \in TicketIds : tickets[t] # None =>
           /\ tickets'[t] # None
           /\ tickets'[t].requester = tickets[t].requester
           /\ tickets'[t].encrypted = tickets[t].encrypted
           /\ tickets'[t].assignee = tickets[t].assignee]_vars
  BY IdentityStep DEF SameIdentity
<1> QED  BY <1>1, CopiesAlwaysAgree, PTL DEF Spec, IdentityFixed
-----------------------------------------------------------------------------
(* A public ticket is resolved or closed, unencrypted, and curated. *)

\* What a handler is about to put back is as consistent as what is stored.
CopiesCurated ==
    \A h \in Handlers : job[h] # None =>
        LET j == job[h]
        IN  /\ j.step \in {"insert", "grant", "stamp"} =>
                 /\ j.ticket.status = "open"
                 /\ ~j.ticket.community_visible
                 /\ j.ticket.community_snapshot = None
            /\ j.step = "curate" => Promotable(j.ticket)
            /\ j.step = "save" => Curated(j.ticket)

RecordInv == RecordConsistent /\ CopiesCurated

LEMMA MovedCurated ==
  ASSUME NEW r \in Ticket, NEW s \in Statuses, Curated(r)
  PROVE  Curated(Moved(r, s))
  BY DEF Moved, Curated, Ticket

LEMMA StoredCurated ==
  ASSUME NEW r \in Ticket, Curated(r)
  PROVE  Curated(Stored(r))
  BY DEF Stored, Curated, Ticket

LEMMA NewTicketCurated ==
  ASSUME NEW p \in Principals, NEW e \in BOOLEAN
  PROVE  LET r == NewTicket(p, e)
         IN  r.status = "open" /\ ~r.community_visible /\ r.community_snapshot = None
  BY DEF NewTicket

\* An open private record without a snapshot is consistent.
LEMMA PrivateCurated ==
  ASSUME NEW r \in Ticket, ~r.community_visible, r.community_snapshot = None
  PROVE  Curated(r)
  BY DEF Curated

LEMMA ArriveCurated ==
  ASSUME TypeInv, RecordInv, NEW h \in Handlers, Arrive(h)
  PROVE  RecordInv'
<1> DEFINE Fit(step, r) ==
      /\ step \in {"insert", "grant", "stamp"} =>
           r.status = "open" /\ ~r.community_visible /\ r.community_snapshot = None
      /\ step = "curate" => Promotable(r)
      /\ step = "save" => Curated(r)
<1>1. ASSUME NEW op \in Ops, NEW step \in Steps, NEW by \in Principals,
             NEW t \in TicketIds, NEW r \in Ticket \cup {None},
             Start(h, op, step, by, t, r), Fit(step, r)
      PROVE  RecordInv'
  <2>1. /\ tickets' = tickets
        /\ \A g \in Handlers \ {h} : job'[g] = job[g]
        /\ job'[h].step = step /\ job'[h].ticket = r
    BY <1>1 DEF Start, TypeInv, TypeOK
  <2>2. RecordConsistent'
    BY <2>1 DEF RecordInv, RecordConsistent, Curated
  <2>3. CopiesCurated'
    BY <1>1, <2>1 DEF RecordInv, CopiesCurated, Curated, Promotable
  <2> QED  BY <2>2, <2>3 DEF RecordInv
<1> HIDE DEF Fit
<1>2. CASE BeginCreate(h)
  BY <1>2, <1>1, NewTicketTyped, NewTicketCurated DEF BeginCreate, Fit, Ops, Steps
<1>3. CASE BeginCapture(h)
  BY <1>3, <1>1, NewTicketTyped, NewTicketCurated DEF BeginCapture, Fit, Ops, Steps
<1>4. CASE BeginLink(h) \/ BeginReply(h) \/ BeginSearch(h) \/ BeginRead(h)
  BY <1>4, <1>1 DEF BeginLink, BeginReply, BeginSearch, BeginRead, ReadRoute, Fit, Ops, Steps
<1>5. CASE BeginTransition(h)
  BY <1>5, <1>1, MovedTyped, MovedCurated
     DEF BeginTransition, Get, Fit, Ops, Steps, TypeInv, TypeOK, RecordInv, RecordConsistent
<1>6. CASE BeginPromote(h)
  BY <1>6, <1>1, DeskAssumption DEF BeginPromote, Get, Fit, Ops, Steps, TypeInv, TypeOK
<1> QED
  BY <1>2, <1>3, <1>4, <1>5, <1>6 DEF Arrive

\* Putting a consistent copy leaves a consistent store.
LEMMA PutCurated ==
  ASSUME TypeInv, RecordInv, NEW h \in Handlers, job[h] # None,
         job[h].step \in PutSteps, Put(h)
  PROVE  RecordConsistent'
<1>1. Curated(job[h].ticket)
  BY PutStores, PrivateCurated DEF RecordInv, CopiesCurated, PutSteps
<1>2. Curated(Stored(job[h].ticket))
  BY <1>1, PutStores, StoredCurated
<1>3. \A t \in TicketIds : tickets'[t] # None => Curated(tickets'[t])
  BY <1>2, PutStores DEF RecordInv, RecordConsistent, TypeInv, TypeOK
<1> QED  BY <1>3 DEF RecordConsistent, Curated

LEMMA AdvanceCurated ==
  ASSUME TypeInv, RecordInv, NEW h \in Handlers, Advance(h)
  PROVE  RecordInv'
<1>1. RecordConsistent'
  <2>1. CASE Insert(h) \/ Stamp(h) \/ Save(h) \/ CommitFails(h)
    BY <2>1, PutCurated DEF Insert, Stamp, Save, CommitFails, At, PutSteps
  <2>2. CASE tickets' = tickets
    BY <2>2 DEF RecordInv, RecordConsistent, Curated
  <2> QED
    BY <2>1, <2>2 DEF Advance, OpenForWrite, Grant, GrantFails, Seal, AppendComment, Curate,
                      ShowSnapshot, ShowThread, Respond, Show
<1> DEFINE Fit ==
      \/ job'[h] = None
      \/ job'[h].step \in {"grant", "stamp"}
           /\ ~job'[h].ticket.community_visible /\ job'[h].ticket.status = "open"
           /\ job'[h].ticket.community_snapshot = None
      \/ job'[h].step = "save" /\ Curated(job'[h].ticket)
      \/ job'[h].step \in {"seal", "append", "respond"}
<1>2. (\A g \in Handlers \ {h} : job'[g] = job[g]) /\ Fit => CopiesCurated'
  BY DEF RecordInv, CopiesCurated, Curated, Promotable
<1>3. CASE OpenForWrite(h)
  BY <1>1, <1>3 DEF OpenForWrite, RecordInv, CopiesCurated, Curated, Promotable
<1>4. CASE Finish(h)
  BY <1>1, <1>2, <1>4 DEF Finish, TypeInv, TypeOK, RecordInv
<1>5. CASE Insert(h) \/ Stamp(h)
  <2>1. /\ job'[h].ticket = job[h].ticket
        /\ \/ job[h].step = "insert" /\ job'[h].step = "grant"
           \/ job'[h].step = "seal"
        /\ job[h] # None /\ \A g \in Handlers \ {h} : job'[g] = job[g]
    BY <1>5 DEF Insert, Stamp, At, Goto, TypeInv, TypeOK, Job
  <2> QED  BY <1>1, <1>2, <2>1 DEF RecordInv, CopiesCurated
<1>6. CASE Grant(h)
  <2>1. /\ ~job[h].ticket.community_visible /\ job[h].ticket.status = "open"
        /\ job[h].ticket.community_snapshot = None
    BY <1>6 DEF Grant, At, RecordInv, CopiesCurated
  <2>2. Fit /\ \A g \in Handlers \ {h} : job'[g] = job[g]
    BY <1>6, <2>1, GrantOutcome DEF Ticket, TypeInv, TypeOK
  <2> QED  BY <1>1, <1>2, <2>2 DEF RecordInv
<1>7. CASE Curate(h)
  <2>1. /\ job[h] \in Job /\ job[h].ticket \in Ticket /\ Promotable(job[h].ticket)
        /\ comments[job[h].id] \in Seq(Comment)
    BY <1>7 DEF Curate, At, TypeInv, TypeOK, JobsEquipped, CopySteps, RecordInv,
                CopiesCurated, Job
  <2> DEFINE r == [job[h].ticket EXCEPT !.community_visible = TRUE,
                                        !.community_snapshot = comments[job[h].id]]
  <2>2. Curated(r)
    BY <2>1, DeskAssumption DEF Curated, Promotable, Ticket
  <2>3. /\ job'[h].step = "save" /\ job'[h].ticket = r
        /\ \A g \in Handlers \ {h} : job'[g] = job[g]
    BY <1>7, <2>1 DEF Curate, TypeInv, TypeOK, Job, Ticket
  <2> HIDE DEF r
  <2> QED  BY <1>1, <1>2, <2>2, <2>3 DEF RecordInv
<1>8. CASE Seal(h) \/ ShowSnapshot(h) \/ ShowThread(h)
  <2>1. /\ job'[h].step \in {"append", "respond"}
        /\ \A g \in Handlers \ {h} : job'[g] = job[g]
    BY <1>8 DEF Seal, ShowSnapshot, ShowThread, At, Show, TypeInv, TypeOK, Job
  <2> QED  BY <1>1, <1>2, <2>1 DEF RecordInv
<1> QED
  BY <1>3, <1>4, <1>5, <1>6, <1>7, <1>8
     DEF Advance, Save, CommitFails, GrantFails, AppendComment, Respond

LEMMA RecordInvariant == Spec => []RecordInv
<1>1. Init => RecordInv
  BY DeskAssumption DEF Init, RecordInv, RecordConsistent, CopiesCurated, Curated
<1>2. TypeInv /\ RecordInv /\ [Next]_vars => RecordInv'
  <2>1. ASSUME TypeInv, RecordInv, Next
        PROVE  RecordInv'
    BY <2>1, ArriveCurated, AdvanceCurated DEF Next
  <2>2. RecordInv /\ UNCHANGED vars => RecordInv'
    BY DEF vars, RecordInv, RecordConsistent, CopiesCurated, Curated, Promotable
  <2> QED  BY <2>1, <2>2
<1> QED  BY <1>1, <1>2, TypeInvariant, PTL DEF Spec

\* No interleaving stores a public ticket that is open or encrypted, or keeps a
\* snapshot on a private one: the conditions transition and promote check on
\* their copy still hold of the record when it is put.
THEOREM RecordsAreConsistent == Spec => []RecordConsistent
  BY RecordInvariant, PTL DEF RecordInv
-----------------------------------------------------------------------------
(* What outsiders are shown was promoted. *)

LEMMA PrefixOfItself ==
  ASSUME NEW S, NEW s \in Seq(S)
  PROVE  IsPrefix(s, s)
  BY DEF IsPrefix

LEMMA EmptyPrefix ==
  ASSUME NEW S, NEW s \in Seq(S)
  PROVE  IsPrefix(<<>>, s) /\ Len(<<>>) = 0
  BY DEF IsPrefix

LEMMA PrefixAppend ==
  ASSUME NEW S, NEW s \in Seq(S), NEW t \in Seq(S), NEW e \in S, IsPrefix(s, t)
  PROVE  IsPrefix(s, Append(t, e))
<1>1. Len(s) <= Len(Append(t, e)) /\ Len(s) \in Nat /\ Len(t) \in Nat
  BY DEF IsPrefix
<1>2. SubSeq(Append(t, e), 1, Len(s)) = SubSeq(t, 1, Len(s))
  BY <1>1 DEF IsPrefix
<1> QED  BY <1>1, <1>2 DEF IsPrefix

\* s is still a promoted thread of t after the step.
AsPromotedNext(s, t) ==
    /\ IsPrefix(s, comments'[t])
    /\ Len(s) \in curatedAt'[t] \cup {0}

\* Which action changes the threads, the promotions and the relation tuples.
LEMMA Frame ==
  ASSUME [Next]_vars
  PROVE  /\ comments' = comments \/ \E h \in Handlers : AppendComment(h)
         /\ curatedAt' = curatedAt \/ \E h \in Handlers : Curate(h)
         /\ viewers' = viewers \/ \E h \in Handlers : Grant(h)
<1>1. CASE UNCHANGED vars
  BY <1>1 DEF vars
<1>2. CASE Next
  <2>1. PICK h \in Handlers : Arrive(h) \/ Advance(h)
    BY <1>2 DEF Next
  <2>2. CASE Arrive(h)
    BY <2>2 DEF Arrive, BeginCreate, BeginCapture, BeginLink, BeginReply,
                BeginTransition, BeginPromote, BeginRead, BeginSearch, Start
  <2>3. CASE Insert(h) \/ Stamp(h) \/ Save(h) \/ CommitFails(h)
    BY <2>3 DEF Insert, Stamp, Save, CommitFails, Put
  <2>4. CASE OpenForWrite(h) \/ GrantFails(h) \/ Seal(h) \/ ShowSnapshot(h)
             \/ ShowThread(h) \/ Respond(h)
    BY <2>4 DEF OpenForWrite, GrantFails, Seal, ShowSnapshot, ShowThread, Show, Respond
  <2>5. CASE Grant(h)
    <3>1. comments' = comments /\ curatedAt' = curatedAt
      BY <2>5 DEF Grant
    <3> QED  BY <2>5, <3>1
  <2>6. CASE AppendComment(h)
    <3>1. viewers' = viewers /\ curatedAt' = curatedAt
      BY <2>6 DEF AppendComment
    <3> QED  BY <2>6, <3>1
  <2>7. CASE Curate(h)
    <3>1. viewers' = viewers /\ comments' = comments
      BY <2>7 DEF Curate
    <3> QED  BY <2>7, <3>1
  <2> QED  BY <2>1, <2>2, <2>3, <2>4, <2>5, <2>6, <2>7 DEF Advance
<1> QED  BY <1>1, <1>2

\* Threads only grow at their end and promotions are not forgotten, so what was
\* promoted stays promoted.
LEMMA PromotedStays ==
  ASSUME TypeInv, [Next]_vars, NEW t \in TicketIds, NEW s \in Seq(Comment), AsPromoted(s, t)
  PROVE  AsPromotedNext(s, t)
<1>1. comments' = comments \/ \E h \in Handlers : AppendComment(h)
  BY Frame
<1>2. curatedAt' = curatedAt \/ \E h \in Handlers : Curate(h)
  BY Frame
<1>3. IsPrefix(s, comments'[t])
  <2>1. CASE comments' = comments
    BY <2>1 DEF AsPromoted
  <2>2. ASSUME NEW h \in Handlers, AppendComment(h)
        PROVE  IsPrefix(s, comments'[t])
    <3>1. job[h].comment \in Comment /\ comments[t] \in Seq(Comment)
      BY <2>2 DEF AppendComment, At, TypeInv, TypeOK, JobsEquipped
    <3>2. comments'[t] \in {comments[t], Append(comments[t], job[h].comment)}
      BY <2>2 DEF AppendComment, TypeInv, TypeOK
    <3>3. IsPrefix(s, Append(comments[t], job[h].comment))
      BY <3>1, PrefixAppend DEF AsPromoted
    <3> QED  BY <3>2, <3>3 DEF AsPromoted
  <2> QED  BY <1>1, <2>1, <2>2
<1>4. curatedAt[t] \subseteq curatedAt'[t]
  <2>1. ASSUME NEW h \in Handlers, Curate(h)
        PROVE  curatedAt[t] \subseteq curatedAt'[t]
    BY <2>1 DEF Curate, TypeInv, TypeOK
  <2> QED  BY <1>2, <2>1
<1> QED  BY <1>3, <1>4 DEF AsPromoted, AsPromotedNext

\* Whoever may see a ticket's identity keeps that right: relation tuples are only
\* added here, and the requester stays.
LEMMA SightStays ==
  ASSUME TypeInv, CopiesAgree, [Next]_vars, NEW t \in TicketIds, NEW p \in Principals,
         tickets[t] # None, CanSeeIdentity(p, t, tickets[t])
  PROVE  tickets'[t] # None
         /\ (p \in Agents \/ p = tickets'[t].requester \/ p \in viewers'[t])
<1>1. viewers' = viewers \/ \E h \in Handlers : Grant(h)
  BY Frame
<1>2. viewers[t] \subseteq viewers'[t]
  <2>1. ASSUME NEW h \in Handlers, Grant(h)
        PROVE  viewers[t] \subseteq viewers'[t]
    BY <2>1 DEF Grant, TypeInv, TypeOK
  <2> QED  BY <1>1, <2>1
<1>3. tickets'[t] # None /\ tickets'[t].requester = tickets[t].requester
  BY IdentityStep DEF SameIdentity
<1> QED  BY <1>2, <1>3 DEF CanSeeIdentity

\* The snapshots on their way to the store, and who is on the way to the thread.
JobsCurated ==
    \A h \in Handlers : job[h] # None =>
        LET j == job[h]
        IN  /\ j.step = "save" /\ j.ticket.community_snapshot # None =>
                 AsPromoted(j.ticket.community_snapshot, j.id)
            /\ j.step = "show_thread" =>
                 CanSeeIdentity(j.by, j.id, tickets[j.id])

SnapshotInv == SnapshotAsPromoted /\ OutsiderSeesOnlyCurated /\ JobsCurated

\* Outside the puts the stored snapshots do not change.
LEMMA SnapshotsKept ==
  ASSUME TypeInv, SnapshotInv, [Next]_vars, tickets' = tickets
  PROVE  SnapshotAsPromoted'
<1> SUFFICES ASSUME NEW t \in TicketIds, tickets[t] # None,
                    tickets[t].community_snapshot # None
             PROVE  AsPromotedNext(tickets[t].community_snapshot, t)
  BY DEF SnapshotAsPromoted, AsPromoted, AsPromotedNext
<1>1. tickets[t].community_snapshot \in Seq(Comment)
  BY DEF TypeInv, TypeOK, Ticket
<1> QED  BY <1>1, PromotedStays DEF SnapshotInv, SnapshotAsPromoted

\* The jobs of the handlers that do not move stay as they should be.
LEMMA OtherJobs ==
  ASSUME TypeInv, CopiesAgree, SnapshotInv, [Next]_vars, NEW g \in Handlers,
         job[g] # None, job'[g] = job[g]
  PROVE  /\ (At(g, "respond") /\ Outsider(job[g].by, job[g].id))' =>
                AsPromotedNext(job[g].shown, job[g].id)
         /\ job[g].step = "save" /\ job[g].ticket.community_snapshot # None =>
                AsPromotedNext(job[g].ticket.community_snapshot, job[g].id)
         /\ job[g].step = "show_thread" =>
                CanSeeIdentity(job[g].by, job[g].id, tickets[job[g].id])'
<1>1. /\ job[g].id \in TicketIds /\ job[g].by \in Principals
      /\ job[g].shown \in Seq(Comment)
      /\ job[g].step = "save" => job[g].ticket \in Ticket
      /\ job[g].step # "insert" => tickets[job[g].id] # None
  BY DEF TypeInv, TypeOK, Job, JobsEquipped, CopySteps, CopiesAgree
<1>2. ASSUME (At(g, "respond") /\ Outsider(job[g].by, job[g].id))'
      PROVE  AsPromotedNext(job[g].shown, job[g].id)
  <2>1. job[g].step = "respond" /\ tickets[job[g].id] # None
    BY <1>1, <1>2 DEF At
  <2>2. ~CanSeeIdentity(job[g].by, job[g].id, tickets[job[g].id])
    BY <1>1, <1>2, <2>1, SightStays DEF Outsider, CanSeeIdentity
  <2>3. AsPromoted(job[g].shown, job[g].id)
    BY <2>1, <2>2 DEF At, Outsider, SnapshotInv, OutsiderSeesOnlyCurated
  <2> QED  BY <1>1, <2>3, PromotedStays
<1>3. ASSUME job[g].step = "save", job[g].ticket.community_snapshot # None
      PROVE  AsPromotedNext(job[g].ticket.community_snapshot, job[g].id)
  <2>1. job[g].ticket.community_snapshot \in Seq(Comment)
    BY <1>1, <1>3 DEF Ticket
  <2> QED  BY <1>1, <1>3, <2>1, PromotedStays DEF SnapshotInv, JobsCurated
<1>4. ASSUME job[g].step = "show_thread"
      PROVE  CanSeeIdentity(job[g].by, job[g].id, tickets[job[g].id])'
  BY <1>1, <1>4, SightStays DEF SnapshotInv, JobsCurated, CanSeeIdentity
<1> QED  BY <1>2, <1>3, <1>4

\* A step that moves one handler and stores no new snapshot keeps the invariant if
\* it leaves that handler's own job as it should be.
LEMMA StepCurated ==
  ASSUME TypeInv, CopiesAgree, SnapshotInv, Next, NEW h \in Handlers,
         SnapshotAsPromoted',
         \A g \in Handlers \ {h} : job'[g] = job[g],
         job'[h] # None =>
           /\ (At(h, "respond") /\ Outsider(job[h].by, job[h].id))' =>
                 AsPromotedNext(job'[h].shown, job'[h].id)
           /\ job'[h].step = "save" /\ job'[h].ticket.community_snapshot # None =>
                 AsPromotedNext(job'[h].ticket.community_snapshot, job'[h].id)
           /\ job'[h].step = "show_thread" =>
                 CanSeeIdentity(job[h].by, job[h].id, tickets[job[h].id])'
  PROVE  SnapshotInv'
<1>1. ASSUME NEW g \in Handlers, job'[g] # None
      PROVE  /\ (At(g, "respond") /\ Outsider(job[g].by, job[g].id))' =>
                   AsPromotedNext(job'[g].shown, job'[g].id)
             /\ job'[g].step = "save" /\ job'[g].ticket.community_snapshot # None =>
                   AsPromotedNext(job'[g].ticket.community_snapshot, job'[g].id)
             /\ job'[g].step = "show_thread" =>
                   CanSeeIdentity(job[g].by, job[g].id, tickets[job[g].id])'
  <2>1. CASE g = h
    BY <1>1, <2>1
  <2>2. CASE g # h
    <3>1. job'[g] = job[g] /\ job[g] # None
      BY <1>1, <2>2
    <3> QED  BY <3>1, OtherJobs DEF At, Outsider, CanSeeIdentity
  <2> QED  BY <2>1, <2>2
<1>2. OutsiderSeesOnlyCurated'
  BY <1>1 DEF OutsiderSeesOnlyCurated, At, AsPromoted, AsPromotedNext
<1>3. JobsCurated'
  BY <1>1 DEF JobsCurated, AsPromoted, AsPromotedNext
<1> QED  BY <1>2, <1>3 DEF SnapshotInv

LEMMA ArriveSnapshots ==
  ASSUME TypeInv, CopiesAgree, SnapshotInv, NEW h \in Handlers, Arrive(h)
  PROVE  SnapshotInv'
<1> DEFINE Fit(step, by, t, r) ==
      /\ step # "respond"
      /\ step = "save" => r \in Ticket /\ (r.community_snapshot # None =>
                                             AsPromoted(r.community_snapshot, t))
      /\ step = "show_thread" => tickets[t] # None /\ CanSeeIdentity(by, t, tickets[t])
<1>1. ASSUME NEW op \in Ops, NEW step \in Steps, NEW by \in Principals,
             NEW t \in TicketIds, NEW r \in Ticket \cup {None},
             Start(h, op, step, by, t, r), Fit(step, by, t, r)
      PROVE  SnapshotInv'
  <2>1. /\ tickets' = tickets /\ viewers' = viewers
        /\ \A g \in Handlers \ {h} : job'[g] = job[g]
        /\ job'[h].step = step /\ job'[h].ticket = r /\ job'[h].id = t /\ job'[h].by = by
    BY <1>1 DEF Start, TypeInv, TypeOK
  <2>2. Next /\ SnapshotAsPromoted'
    BY <2>1, SnapshotsKept DEF Next
  <2>3. step = "save" /\ r.community_snapshot # None =>
          AsPromotedNext(r.community_snapshot, t)
    BY <1>1, <2>2, PromotedStays DEF Ticket
  <2>4. step = "show_thread" => CanSeeIdentity(job[h].by, job[h].id, tickets[job[h].id])'
    BY <1>1, <2>1 DEF CanSeeIdentity
  <2> QED  BY <1>1, <2>1, <2>2, <2>3, <2>4, StepCurated DEF At
<1>2. CASE BeginCreate(h)
  BY <1>2, <1>1, NewTicketTyped DEF BeginCreate, Fit, Ops, Steps
<1>3. CASE BeginCapture(h)
  BY <1>3, <1>1, NewTicketTyped DEF BeginCapture, Fit, Ops, Steps
<1>4. CASE BeginLink(h) \/ BeginReply(h) \/ BeginSearch(h)
  BY <1>4, <1>1 DEF BeginLink, BeginReply, BeginSearch, Fit, Ops, Steps
<1>5. CASE BeginTransition(h)
  <2>1. PICK by \in Principals, t \in TicketIds, s \in Statuses :
          /\ Get(t) # None
          /\ Start(h, "transition", "save", by, t, Moved(tickets[t], s))
    BY <1>5 DEF BeginTransition
  <2>2. tickets[t] # None /\ tickets[t] \in Ticket
    BY <2>1 DEF Get, TypeInv, TypeOK
  <2>3. Moved(tickets[t], s).community_snapshot
          \in {None, tickets[t].community_snapshot}
    BY <2>2 DEF Moved, Ticket
  <2>4. Fit("save", by, t, Moved(tickets[t], s))
    BY <2>2, <2>3, MovedTyped DEF SnapshotInv, SnapshotAsPromoted
  <2> QED  BY <2>1, <2>2, <2>4, <1>1, MovedTyped DEF Ops, Steps
<1>6. CASE BeginPromote(h)
  BY <1>6, <1>1, DeskAssumption DEF BeginPromote, Get, Fit, Ops, Steps, TypeInv, TypeOK
<1>7. CASE BeginRead(h)
  <2>1. PICK by \in Principals, t \in TicketIds :
          /\ Get(t) # None /\ CanRead(by, t, tickets[t])
          /\ Start(h, "get_comments", ReadRoute(by, t), by, t, None)
    BY <1>7 DEF BeginRead
  <2>2. tickets[t] # None
    BY <2>1 DEF Get
  <2>3. Fit(ReadRoute(by, t), by, t, None)
    BY <2>1, <2>2 DEF ReadRoute, CanRead, CanSeeIdentity
  <2> QED  BY <2>1, <2>3, <1>1 DEF ReadRoute, Ops, Steps
<1> QED
  BY <1>2, <1>3, <1>4, <1>5, <1>6, <1>7 DEF Arrive

\* A put stores a promoted snapshot or none.
LEMMA PutSnapshots ==
  ASSUME TypeInv, RecordInv, SnapshotInv, Next, NEW h \in Handlers, job[h] # None,
         job[h].step \in PutSteps, Put(h)
  PROVE  SnapshotAsPromoted'
<1> SUFFICES ASSUME NEW t \in TicketIds, tickets'[t] # None,
                    tickets'[t].community_snapshot # None
             PROVE  AsPromotedNext(tickets'[t].community_snapshot, t)
  BY DEF SnapshotAsPromoted, AsPromoted, AsPromotedNext
<1>1. CASE t # job[h].id
  <2>1. tickets'[t] = tickets[t] /\ tickets[t].community_snapshot \in Seq(Comment)
    BY <1>1, PutStores DEF TypeInv, TypeOK, Ticket
  <2> QED  BY <2>1, PromotedStays DEF SnapshotInv, SnapshotAsPromoted
<1>2. CASE t = job[h].id
  <2>1. tickets'[t] = Stored(job[h].ticket) /\ job[h].ticket \in Ticket
    BY <1>2, PutStores DEF TypeInv, TypeOK
  <2>2. tickets'[t].community_snapshot = job[h].ticket.community_snapshot
    BY <2>1 DEF Stored, Ticket
  <2>3. job[h].step = "save"
    BY <2>2 DEF RecordInv, CopiesCurated, PutSteps
  <2>4. AsPromoted(job[h].ticket.community_snapshot, t)
    BY <1>2, <2>2, <2>3 DEF SnapshotInv, JobsCurated
  <2> QED  BY <2>1, <2>2, <2>4, PromotedStays DEF Ticket
<1> QED  BY <1>1, <1>2

LEMMA AdvanceSnapshots ==
  ASSUME TypeInv, CopiesAgree, RecordInv, SnapshotInv, NEW h \in Handlers, Advance(h)
  PROVE  SnapshotInv'
<1>0. Next
  BY DEF Next
<1>1. SnapshotAsPromoted'
  <2>1. CASE Insert(h) \/ Stamp(h) \/ Save(h) \/ CommitFails(h)
    BY <1>0, <2>1, PutSnapshots DEF Insert, Stamp, Save, CommitFails, At, PutSteps
  <2>2. CASE tickets' = tickets
    BY <1>0, <2>2, SnapshotsKept
  <2> QED
    BY <2>1, <2>2 DEF Advance, OpenForWrite, Grant, GrantFails, Seal, AppendComment, Curate,
                      ShowSnapshot, ShowThread, Respond, Show
<1>2. CASE OpenForWrite(h)
  BY <1>0, <1>1, <1>2, StepCurated, OtherJobs DEF OpenForWrite, At, Outsider, CanSeeIdentity
<1>3. CASE Finish(h)
  BY <1>0, <1>1, <1>3, StepCurated DEF Finish, TypeInv, TypeOK
<1>4. CASE Insert(h) \/ Stamp(h) \/ Grant(h) \/ Seal(h)
  <2>1. /\ job'[h] = None \/ job'[h].step \in {"grant", "stamp", "seal", "append"}
        /\ \A g \in Handlers \ {h} : job'[g] = job[g]
    <3>1. CASE Insert(h) \/ Stamp(h) \/ Seal(h)
      BY <3>1 DEF Insert, Stamp, Seal, At, Goto, TypeInv, TypeOK, Job
    <3>2. CASE Grant(h)
      BY <3>2, GrantOutcome DEF TypeInv, TypeOK
    <3> QED  BY <1>4, <3>1, <3>2
  <2> QED  BY <1>0, <1>1, <2>1, StepCurated DEF At
<1>5. CASE Curate(h)
  <2>1. /\ job[h] \in Job /\ job[h].ticket \in Ticket
        /\ job[h].id \in TicketIds /\ comments[job[h].id] \in Seq(Comment)
    BY <1>5 DEF Curate, At, TypeInv, TypeOK, JobsEquipped, CopySteps, Job
  <2>2. /\ job'[h].step = "save" /\ job'[h].id = job[h].id
        /\ job'[h].ticket.community_snapshot = comments[job[h].id]
        /\ \A g \in Handlers \ {h} : job'[g] = job[g]
    BY <1>5, <2>1 DEF Curate, TypeInv, TypeOK, Job, Ticket
  <2>3. AsPromotedNext(comments[job[h].id], job[h].id)
    BY <1>5, <2>1, PrefixOfItself DEF Curate, AsPromotedNext, TypeInv, TypeOK
  <2> QED  BY <1>0, <1>1, <2>2, <2>3, StepCurated DEF At
<1>6. CASE ShowSnapshot(h)
  <2>1. /\ job[h] # None /\ job[h] \in Job /\ job[h].id \in TicketIds
        /\ comments' = comments /\ curatedAt' = curatedAt
    BY <1>6 DEF ShowSnapshot, At, Show, TypeInv, TypeOK, Job
  <2> DEFINE record == Get(job[h].id)
             shown == IF record = None \/ record.community_snapshot = None
                      THEN <<>> ELSE record.community_snapshot
  <2>2. /\ job'[h].step = "respond" /\ job'[h].id = job[h].id /\ job'[h].shown = shown
        /\ \A g \in Handlers \ {h} : job'[g] = job[g]
    BY <1>6, <2>1 DEF ShowSnapshot, Show, TypeInv, TypeOK, Job
  <2>3. AsPromoted(shown, job[h].id)
    <3>1. CASE shown = <<>>
      BY <2>1, <3>1, EmptyPrefix DEF AsPromoted, TypeInv, TypeOK
    <3>2. CASE shown # <<>>
      BY <2>1, <3>2 DEF Get, SnapshotInv, SnapshotAsPromoted
    <3> QED  BY <3>1, <3>2
  <2> HIDE DEF shown
  <2>4. AsPromotedNext(shown, job[h].id)
    BY <2>1, <2>3 DEF AsPromoted, AsPromotedNext
  <2> QED  BY <1>0, <1>1, <2>2, <2>4, StepCurated
<1>7. CASE ShowThread(h)
  <2>1. /\ job[h] # None /\ job[h] \in Job /\ job[h].id \in TicketIds
        /\ job[h].by \in Principals /\ job[h].step = "show_thread"
    BY <1>7 DEF ShowThread, At, TypeInv, TypeOK, Job
  <2>2. /\ job'[h].step = "respond" /\ job'[h].id = job[h].id /\ job'[h].by = job[h].by
        /\ \A g \in Handlers \ {h} : job'[g] = job[g]
    BY <1>7, <2>1 DEF ShowThread, Show, TypeInv, TypeOK, Job
  <2>3. tickets[job[h].id] # None /\ CanSeeIdentity(job[h].by, job[h].id, tickets[job[h].id])
    BY <2>1 DEF CopiesAgree, SnapshotInv, JobsCurated
  <2>4. ~Outsider(job[h].by, job[h].id)'
    BY <1>0, <2>1, <2>2, <2>3, SightStays DEF Outsider, CanSeeIdentity
  <2> QED  BY <1>0, <1>1, <2>2, <2>4, StepCurated
<1> QED
  BY <1>2, <1>3, <1>4, <1>5, <1>6, <1>7
     DEF Advance, Save, CommitFails, GrantFails, AppendComment, Respond

LEMMA SnapshotInvariant == Spec => []SnapshotInv
<1>1. Init => SnapshotInv
  BY DeskAssumption DEF Init, SnapshotInv, SnapshotAsPromoted, OutsiderSeesOnlyCurated,
                        JobsCurated, At
<1>2. TypeInv /\ CopiesAgree /\ RecordInv /\ SnapshotInv /\ [Next]_vars => SnapshotInv'
  <2>1. ASSUME TypeInv, CopiesAgree, RecordInv, SnapshotInv, Next
        PROVE  SnapshotInv'
    BY <2>1, ArriveSnapshots, AdvanceSnapshots DEF Next
  <2>2. SnapshotInv /\ UNCHANGED vars => SnapshotInv'
    BY DEF vars, SnapshotInv, SnapshotAsPromoted, OutsiderSeesOnlyCurated, JobsCurated,
           At, Outsider, CanSeeIdentity, AsPromoted
  <2> QED  BY <2>1, <2>2
<1> QED  BY <1>1, <1>2, CopiesAlwaysAgree, RecordInvariant, PTL DEF Spec

\* The stored snapshot is the thread as a promoter read it, for any number of
\* threads promoting, replying and moving the ticket at once.
THEOREM SnapshotsArePromoted == Spec => []SnapshotAsPromoted
  BY SnapshotInvariant, PTL DEF SnapshotInv

\* Somebody who is no participant is only ever handed a promoted thread, though
\* get_comments reads the ticket twice and the ticket may be reopened, promoted
\* again or replied to in between.
THEOREM OutsidersSeeOnlyCurated == Spec => []OutsiderSeesOnlyCurated
  BY SnapshotInvariant, PTL DEF SnapshotInv
-----------------------------------------------------------------------------
(* Bodies are sealed in the store, and only there. *)

\* What the dictionary's atomic put gives the handlers.
SealInv ==
    /\ writer = None
    /\ BodiesSealed
    /\ \A t \in TicketIds : tickets[t] = None => comments[t] = <<>>
    /\ \A h \in Handlers : At(h, "append") =>
           job[h].comment.encrypted = tickets[job[h].id].encrypted

\* Nobody but the Git store leaves a file half written.
LEMMA WriterStays ==
  ASSUME ~GitStore, writer = None, [Next]_vars
  PROVE  writer' = None
<1>1. CASE UNCHANGED vars
  BY <1>1 DEF vars
<1>2. CASE Next
  <2>1. PICK h \in Handlers : Arrive(h) \/ Advance(h)
    BY <1>2 DEF Next
  <2>2. CASE Arrive(h)
    BY <2>2 DEF Arrive, BeginCreate, BeginCapture, BeginLink, BeginReply,
                BeginTransition, BeginPromote, BeginRead, BeginSearch, Start
  <2>3. CASE Advance(h)
    BY <2>3 DEF Advance, OpenForWrite, Insert, Stamp, Save, CommitFails, Put, Grant, GrantFails,
                Seal, AppendComment, Curate, ShowSnapshot, ShowThread, Show, Respond
  <2> QED  BY <2>1, <2>2, <2>3
<1> QED  BY <1>1, <1>2

\* With nothing half written a ticket is read as it is stored.
LEMMA GetIsStored ==
  ASSUME writer = None, NEW t \in TicketIds
  PROVE  Get(t) = tickets[t]
  BY DeskAssumption DEF Get, Torn

\* How a request comes to append or to respond.
LEMMA Arrivals ==
  ASSUME TypeInv, Next, NEW g \in Handlers, job'[g] # None, job'[g].step \in {"append", "respond"}
  PROVE  job'[g] = job[g] \/ Seal(g) \/ ShowSnapshot(g) \/ ShowThread(g)
<1>1. PICK h \in Handlers : Arrive(h) \/ Advance(h)
  BY DEF Next
<1>2. job \in [Handlers -> Job \cup {None}]
  BY DEF TypeInv, TypeOK
<1>3. CASE g # h
  <2>1. CASE Arrive(h)
    BY <1>2, <1>3, <2>1 DEF Arrive, BeginCreate, BeginCapture, BeginLink, BeginReply,
                BeginTransition, BeginPromote, BeginRead, BeginSearch, Start
  <2>2. CASE Advance(h)
    BY <1>2, <1>3, <2>2 DEF Advance, OpenForWrite, Insert, Stamp, Save, CommitFails, Put, Grant, GrantFails,
                Seal, AppendComment, Curate, ShowSnapshot, ShowThread, Show, Respond, Goto, Finish
  <2> QED  BY <1>1, <2>1, <2>2
<1>4. CASE g = h
  <2>1. CASE Arrive(h)
    <3>1. PICK op, step, by, t, record : Start(h, op, step, by, t, record)
                 /\ step \in {"insert", "seal", "save", "curate", "show_snapshot", "show_thread"}
      BY <2>1 DEF Arrive, BeginCreate, BeginCapture, BeginLink, BeginReply, ReadRoute,
                BeginTransition, BeginPromote, BeginRead, BeginSearch
    <3>2. job'[h].step = step
      BY <1>2, <3>1 DEF Start
    <3> QED  BY <1>4, <3>1, <3>2
  <2>2. CASE Finish(h)
    BY <1>2, <1>4, <2>2 DEF Finish
  <2>3. CASE Insert(h) \/ Stamp(h)
    BY <1>2, <1>4, <2>3 DEF Insert, Stamp, At, Goto, Job
  <2>4. CASE Grant(h)
    BY <1>4, <2>4, GrantOutcome
  <2>5. CASE Curate(h)
    BY <1>2, <1>4, <2>5 DEF Curate, At, Job
  <2>6. CASE OpenForWrite(h)
    BY <1>4, <2>6 DEF OpenForWrite
  <2> QED  BY <1>1, <1>4, <2>1, <2>2, <2>3, <2>4, <2>5, <2>6
           DEF Advance, Save, CommitFails, GrantFails, AppendComment, Respond
<1> QED  BY <1>3, <1>4

\* The thread keeps its encryption: a comment goes in as its ticket is.
LEMMA SealedAtRest ==
  ASSUME ~GitStore, TypeInv, CopiesAgree, SealInv, Next
  PROVE  /\ EncryptedAtRest'
         /\ \A t \in TicketIds : tickets'[t] = None => comments'[t] = <<>>
<1>1. \A t \in TicketIds : tickets[t] # None =>
          tickets'[t] # None /\ tickets'[t].encrypted = tickets[t].encrypted
  BY IdentityStep DEF SameIdentity
<1>2. ASSUME NEW t \in TicketIds, comments'[t] = comments[t]
      PROVE  /\ tickets'[t] = None => comments'[t] = <<>>
             /\ tickets'[t] # None => \A i \in 1..Len(comments'[t]) :
                    comments'[t][i].encrypted = tickets'[t].encrypted
  <2>1. CASE tickets[t] # None
    BY <1>1, <1>2, <2>1 DEF SealInv, BodiesSealed, EncryptedAtRest
  <2>2. CASE tickets[t] = None
    <3>1. comments'[t] = <<>>
      BY <1>2, <2>2 DEF SealInv
    <3> QED  BY <3>1
  <2> QED  BY <2>1, <2>2
<1>3. ASSUME NEW h \in Handlers, AppendComment(h), NEW t \in TicketIds, comments'[t] # comments[t]
      PROVE  /\ tickets'[t] # None
             /\ \A i \in 1..Len(comments'[t]) : comments'[t][i].encrypted = tickets'[t].encrypted
  <2>1. At(h, "append") /\ job[h] \in Job /\ job[h].comment \in Comment /\ comments[t] \in Seq(Comment)
    BY <1>3 DEF AppendComment, At, TypeInv, TypeOK, JobsEquipped
  <2>2. t = job[h].id /\ comments'[t] = Append(comments[t], job[h].comment) /\ tickets' = tickets
    BY <1>3, <2>1 DEF AppendComment, TypeInv, TypeOK, Job
  <2>3. tickets[t] # None
    BY <2>1, <2>2 DEF At, CopiesAgree
  <2>4. \A i \in 1..Len(comments[t]) : comments[t][i].encrypted = tickets[t].encrypted
    BY <2>3 DEF SealInv, BodiesSealed, EncryptedAtRest
  <2>5. job[h].comment.encrypted = tickets[t].encrypted
    BY <2>1, <2>2 DEF SealInv
  <2>6. \A i \in 1..Len(comments'[t]) :
            comments'[t][i] = IF i <= Len(comments[t]) THEN comments[t][i] ELSE job[h].comment
    BY <2>1, <2>2
  <2>7. \A i \in 1..Len(comments'[t]) : i <= Len(comments[t]) => i \in 1..Len(comments[t])
    BY <2>1, <2>2
  <2> QED  BY <2>2, <2>3, <2>4, <2>5, <2>6, <2>7
<1>4. \A t \in TicketIds : comments'[t] # comments[t] => \E h \in Handlers : AppendComment(h)
  BY Frame
<1> QED  BY <1>2, <1>3, <1>4 DEF EncryptedAtRest

\* A snapshot is of a public ticket, which is not encrypted.
LEMMA SnapshotPlain ==
  ASSUME TypeInv, RecordInv, SnapshotInv, SealInv, NEW t \in TicketIds, tickets[t] # None,
         tickets[t].community_snapshot # None,
         NEW i \in 1..Len(tickets[t].community_snapshot)
  PROVE  ~tickets[t].community_snapshot[i].encrypted
<1>1. ~tickets[t].encrypted
  BY DEF RecordInv, RecordConsistent, Curated
<1>2. PICK s \in Seq(Comment) : s = tickets[t].community_snapshot
  BY DEF TypeInv, TypeOK, Ticket
<1>3. IsPrefix(s, comments[t]) /\ comments[t] \in Seq(Comment)
  BY <1>2 DEF SnapshotInv, SnapshotAsPromoted, AsPromoted, TypeInv, TypeOK
<1>4. i \in 1..Len(comments[t]) /\ s[i] = comments[t][i]
  <2>1. Len(s) \in Nat /\ Len(comments[t]) \in Nat /\ Len(s) <= Len(comments[t])
    BY <1>2, <1>3 DEF IsPrefix
  <2>2. i \in 1..Len(s)
    BY <1>2
  <2>3. SubSeq(s, 1, Len(s))[i] = s[i] /\ SubSeq(comments[t], 1, Len(s))[i] = comments[t][i]
    BY <1>2, <1>3, <2>1, <2>2
  <2> QED  BY <1>3, <2>1, <2>2, <2>3 DEF IsPrefix
<1>5. comments[t][i].encrypted = tickets[t].encrypted
  BY <1>4 DEF SealInv, BodiesSealed, EncryptedAtRest
<1> QED  BY <1>1, <1>2, <1>4, <1>5

\* What a response carries is plain.
LEMMA ShownPlain ==
  ASSUME TypeInv, CopiesAgree, RecordInv, SnapshotInv, SealInv, NEW g \in Handlers,
         ShowSnapshot(g) \/ ShowThread(g), NEW i \in 1..Len(job'[g].shown)
  PROVE  ~job'[g].shown[i].encrypted
<1>1. job[g] \in Job /\ job[g].id \in TicketIds /\ tickets[job[g].id] # None
  BY DEF ShowSnapshot, ShowThread, At, TypeInv, TypeOK, Job, CopiesAgree
<1>2. PICK t \in TicketIds : t = job[g].id
  BY <1>1
<1>3. Get(t) = tickets[t]
  BY GetIsStored DEF SealInv
<1>4. CASE ShowSnapshot(g)
  <2>1. job'[g].shown = IF tickets[t].community_snapshot = None THEN <<>>
                        ELSE tickets[t].community_snapshot
    BY <1>1, <1>2, <1>3, <1>4 DEF ShowSnapshot, Show, TypeInv, TypeOK, Job
  <2>2. tickets[t].community_snapshot # None
    BY <2>1
  <2>3. i \in 1..Len(tickets[t].community_snapshot)
    BY <2>1, <2>2
  <2>4. ~tickets[t].community_snapshot[i].encrypted
    BY <1>1, <1>2, <2>2, <2>3, SnapshotPlain
  <2> QED  BY <2>1, <2>2, <2>4
<1>5. CASE ShowThread(g)
  <2>1. job'[g].shown = Decrypted(t)
    BY <1>1, <1>2, <1>5 DEF ShowThread, Show, TypeInv, TypeOK, Job
  <2>2. Len(comments[t]) \in Nat
    BY DEF TypeInv, TypeOK
  <2>3. Len(Decrypted(t)) = Len(comments[t])
    BY <2>2 DEF Decrypted
  <2>4. Get(t) # None
    BY <1>1, <1>2, <1>3
  <2>5. (comments[t][i].encrypted /\ Get(t) = None) = FALSE
    BY <2>4
  <2>6. Decrypted(t)[i] = [author |-> comments[t][i].author, encrypted |-> FALSE]
    BY <2>1, <2>3, <2>5 DEF Decrypted
  <2> QED  BY <2>1, <2>6
<1> QED  BY <1>4, <1>5

LEMMA SealStep ==
  ASSUME ~GitStore, TypeInv, CopiesAgree, RecordInv, SnapshotInv, SealInv, Next
  PROVE  SealInv'
<1>1. writer' = None
  BY WriterStays DEF SealInv
<1>2. ASSUME NEW g \in Handlers, At(g, "append")'
      PROVE  job'[g].comment.encrypted = tickets'[job'[g].id].encrypted
  <2>1. CASE job'[g] = job[g]
    <3>1. At(g, "append") /\ job[g].id \in TicketIds /\ tickets[job[g].id] # None
      BY <1>2, <2>1 DEF At, TypeInv, TypeOK, Job, CopiesAgree
    <3> QED  BY <2>1, <3>1, IdentityStep DEF SealInv, SameIdentity
  <2>2. CASE Seal(g)
    <3>1. job[g] \in Job /\ job[g].id \in TicketIds /\ tickets[job[g].id] # None /\ tickets' = tickets
      BY <2>2 DEF Seal, At, TypeInv, TypeOK, Job, CopiesAgree
    <3>2. Get(job[g].id) = tickets[job[g].id]
      BY <3>1, GetIsStored DEF SealInv
    <3>3. job'[g].id = job[g].id /\ job'[g].comment = SealedComment(job[g].by, job[g].id)
      BY <2>2, <3>1 DEF Seal, TypeInv, TypeOK, Job
    <3>4. tickets[job[g].id] \in Ticket
      BY <3>1 DEF TypeInv, TypeOK
    <3>5. tickets[job[g].id].encrypted \in BOOLEAN
      BY <3>4 DEF Ticket
    <3> QED  BY <3>1, <3>2, <3>3, <3>5 DEF SealedComment
  <2>3. CASE ShowSnapshot(g) \/ ShowThread(g)
    <3>1. job'[g].step = "respond"
      BY <2>3 DEF ShowSnapshot, ShowThread, Show, At, TypeInv, TypeOK, Job
    <3> QED  BY <1>2, <3>1 DEF At
  <2> QED  BY <1>2, <2>1, <2>2, <2>3, Arrivals DEF At
<1>3. ASSUME NEW g \in Handlers, At(g, "respond")', NEW i \in 1..Len(job'[g].shown)
      PROVE  ~job'[g].shown[i].encrypted
  <2>1. CASE job'[g] = job[g]
    <3>1. At(g, "respond")
      BY <1>3, <2>1 DEF At
    <3> QED  BY <1>3, <2>1, <3>1 DEF SealInv, BodiesSealed, CiphertextNeverShown
  <2>2. CASE Seal(g)
    <3>1. job'[g].step = "append"
      BY <2>2 DEF Seal, At, TypeInv, TypeOK, Job
    <3> QED  BY <1>3, <3>1 DEF At
  <2>3. CASE ShowSnapshot(g) \/ ShowThread(g)
    BY <1>3, <2>3, ShownPlain
  <2> QED  BY <1>3, <2>1, <2>2, <2>3, Arrivals DEF At
<1> QED  BY <1>1, <1>2, <1>3, SealedAtRest DEF SealInv, BodiesSealed, CiphertextNeverShown

LEMMA SealInvariant == Spec => [](~GitStore => SealInv)
<1>1. Init => SealInv
  BY DeskAssumption DEF Init, SealInv, BodiesSealed, EncryptedAtRest, CiphertextNeverShown, At
<1>2. TypeInv /\ CopiesAgree /\ RecordInv /\ SnapshotInv /\ (~GitStore => SealInv) /\ [Next]_vars
        => (~GitStore => SealInv')
  <2>1. SealInv /\ UNCHANGED vars => SealInv'
    BY DEF vars, SealInv, BodiesSealed, EncryptedAtRest, CiphertextNeverShown, At
  <2> QED  BY <2>1, SealStep
<1>3. (~GitStore => SealInv') <=> (~GitStore => SealInv)'
  OBVIOUS
<1> QED  BY <1>1, <1>2, <1>3, CopiesAlwaysAgree, RecordInvariant, SnapshotInvariant, PTL DEF Spec

\* INV-DP-3, over the in-memory store: a body is ciphertext in the store exactly when its ticket
\* was created encrypted, and nobody is handed ciphertext, however replies, readings, promotions
\* and reopenings interleave.  (Over the Git store a ticket whose file is being written reads as
\* absent, and a reply then goes in unencrypted.)
THEOREM BodiesStaySealed == Spec => [](~GitStore => BodiesSealed)
  BY SealInvariant, PTL DEF SealInv
-----------------------------------------------------------------------------
(* With one thread changing records, the desk implements TicketLifecycle. *)

\* The operations that put the record of a ticket.
Changing == {"create", "capture_from_slack", "transition", "promote"}

\* At most one thread is given them; any number of threads link, reply and read.
OneThreadChanges ==
    \A g, h \in Handlers :
        Serves[g] \cap Changing # {} /\ Serves[h] \cap Changing # {} => g = h

\* The record r may follow the stored record s: a legal move, or a promotion.
Due(r, s) ==
    \/ \E target \in Statuses : <<s.status, target>> \in LEGAL /\ r = Moved(s, target)
    \/ /\ s.status = "resolved" /\ r.status = "resolved"
       /\ r.community_visible /\ r.community_snapshot # None

\* What the thread that changes records knows of the stored one at each step.
JobsDue ==
    \A h \in Handlers : job[h] # None =>
        LET j == job[h]
        IN  /\ j.step \in CopySteps => Serves[h] \cap Changing # {}
            /\ j.step \in {"grant", "stamp"} =>
                 tickets[j.id].status = "open" /\ ~tickets[j.id].community_visible
            /\ j.step = "curate" => tickets[j.id].status = "resolved"
            /\ j.step = "save" => Due(j.ticket, tickets[j.id])

\* Nobody else holds a copy while one thread does.
LEMMA OnlyCopy ==
  ASSUME OneThreadChanges, JobsDue, NEW h \in Handlers, NEW g \in Handlers \ {h},
         job[h] # None, job[h].step \in CopySteps, job[g] # None
  PROVE  job[g].step \notin CopySteps
  BY DEF OneThreadChanges, JobsDue

LEMMA ArriveDue ==
  ASSUME TypeInv, JobsDue, NEW h \in Handlers, Arrive(h)
  PROVE  JobsDue'
<1> DEFINE Fit(step, t, r) ==
      /\ step \in CopySteps => Serves[h] \cap Changing # {}
      /\ step \notin {"grant", "stamp"}
      /\ step = "curate" => tickets[t].status = "resolved"
      /\ step = "save" => Due(r, tickets[t])
<1>1. ASSUME NEW op, NEW step, NEW by, NEW t, NEW r, Start(h, op, step, by, t, r), Fit(step, t, r)
      PROVE  JobsDue'
  <2>1. /\ tickets' = tickets
        /\ \A g \in Handlers \ {h} : job'[g] = job[g]
        /\ job'[h].step = step /\ job'[h].ticket = r /\ job'[h].id = t
    BY <1>1 DEF Start, TypeInv, TypeOK
  <2> SUFFICES ASSUME NEW g \in Handlers, job'[g] # None
               PROVE  /\ job'[g].step \in CopySteps => Serves[g] \cap Changing # {}
                      /\ job'[g].step \in {"grant", "stamp"} =>
                           /\ tickets[job'[g].id].status = "open"
                           /\ ~tickets[job'[g].id].community_visible
                      /\ job'[g].step = "curate" => tickets[job'[g].id].status = "resolved"
                      /\ job'[g].step = "save" => Due(job'[g].ticket, tickets[job'[g].id])
    BY <2>1 DEF JobsDue, Due
  <2>2. CASE g # h
    BY <2>1, <2>2 DEF JobsDue
  <2>3. CASE g = h
    BY <1>1, <2>1, <2>3
  <2> QED  BY <2>2, <2>3
<1> HIDE DEF Fit
<1>2. CASE BeginCreate(h)
  <2>1. PICK by, t, r : Start(h, "create", "insert", by, t, r)
    BY <1>2 DEF BeginCreate
  <2>2. Fit("insert", t, r)
    BY <2>1 DEF Start, Fit, Changing
  <2> QED  BY <1>1, <2>1, <2>2
<1>3. CASE BeginCapture(h)
  <2>1. PICK by, t, r :
          Start(h, "capture_from_slack", "insert", by, t, r)
    BY <1>3 DEF BeginCapture
  <2>2. Fit("insert", t, r)
    BY <2>1 DEF Start, Fit, Changing
  <2> QED  BY <1>1, <2>1, <2>2
<1>4. CASE BeginLink(h) \/ BeginReply(h) \/ BeginSearch(h) \/ BeginRead(h)
  <2>1. PICK op, step, by, t : /\ Start(h, op, step, by, t, None)
                               /\ step \in {"seal", "show_snapshot", "show_thread"}
    BY <1>4 DEF BeginLink, BeginReply, BeginSearch, BeginRead, ReadRoute
  <2>2. Fit(step, t, None)
    BY <2>1 DEF Fit, CopySteps
  <2> QED  BY <1>1, <2>1, <2>2
<1>5. CASE BeginTransition(h)
  <2>1. PICK by \in Principals, t \in TicketIds, s \in Statuses :
          /\ <<tickets[t].status, s>> \in LEGAL
          /\ Start(h, "transition", "save", by, t, Moved(tickets[t], s))
    BY <1>5 DEF BeginTransition
  <2>2. Fit("save", t, Moved(tickets[t], s))
    BY <2>1 DEF Start, Fit, Changing, Due
  <2> QED  BY <1>1, <2>1, <2>2
<1>6. CASE BeginPromote(h)
  <2>1. PICK by \in Agents, t \in TicketIds :
          Promotable(tickets[t]) /\ Start(h, "promote", "curate", by, t, tickets[t])
    BY <1>6 DEF BeginPromote
  <2>2. Fit("curate", t, tickets[t])
    BY <2>1 DEF Start, Fit, Changing, Promotable
  <2> QED  BY <1>1, <2>1, <2>2
<1> QED
  BY <1>2, <1>3, <1>4, <1>5, <1>6 DEF Arrive

LEMMA AdvanceDue ==
  ASSUME OneThreadChanges, TypeInv, RecordInv, JobsDue, NEW h \in Handlers, Advance(h)
  PROVE  JobsDue'
<1>1. CASE OpenForWrite(h)
  BY <1>1 DEF OpenForWrite, JobsDue, Due
<1>2. CASE Insert(h) \/ Stamp(h) \/ Save(h) \/ CommitFails(h)
  <2>1. job[h] # None /\ job[h].step \in CopySteps /\ job[h].step \in PutSteps /\ Put(h)
    BY <1>2 DEF Insert, Stamp, Save, CommitFails, At, PutSteps, CopySteps
  <2>2. \A g \in Handlers \ {h} : job'[g] = job[g] /\ (job[g] # None => job[g].step \notin CopySteps)
    BY <1>2, <2>1, OnlyCopy DEF Insert, Stamp, Save, CommitFails, Goto, Finish, TypeInv, TypeOK
  <2>3. \/ job'[h] = None
        \/ job'[h].step = "seal"
        \/ job[h].step = "insert" /\ job'[h].step = "grant" /\ job'[h].id = job[h].id
    BY <1>2, <2>1 DEF Insert, Stamp, Save, CommitFails, At, Goto, Finish, TypeInv, TypeOK, Job
  <2>4. job[h].step = "insert" =>
          tickets'[job[h].id].status = "open" /\ ~tickets'[job[h].id].community_visible
    <3> SUFFICES ASSUME job[h].step = "insert"
                 PROVE  /\ tickets'[job[h].id].status = "open"
                        /\ ~tickets'[job[h].id].community_visible
      OBVIOUS
    <3>1. job[h].ticket.status = "open" /\ ~job[h].ticket.community_visible
      BY <2>1 DEF RecordInv, CopiesCurated
    <3>2. tickets'[job[h].id] = Stored(job[h].ticket) /\ job[h].ticket \in Ticket
      BY <2>1, PutStores DEF TypeInv, TypeOK
    <3> QED  BY <3>1, <3>2 DEF Stored, Ticket
  <2>5. Serves[h] \cap Changing # {}
    BY <2>1 DEF JobsDue
  <2> QED  BY <2>2, <2>3, <2>4, <2>5 DEF JobsDue, CopySteps
<1>3. ASSUME job[h] # None, tickets' = tickets, \A g \in Handlers \ {h} : job'[g] = job[g],
             job'[h] # None =>
                 /\ job'[h].step \in CopySteps =>
                      job[h].step \in CopySteps /\ job'[h].id = job[h].id
                 /\ job'[h].step \in {"grant", "stamp"} => job[h].step = "grant"
                 /\ job'[h].step # "curate"
                 /\ job'[h].step = "save" => Due(job'[h].ticket, tickets[job[h].id])
      PROVE  JobsDue'
  <2> SUFFICES ASSUME NEW g \in Handlers, job'[g] # None
               PROVE  /\ job'[g].step \in CopySteps => Serves[g] \cap Changing # {}
                      /\ job'[g].step \in {"grant", "stamp"} =>
                           /\ tickets[job'[g].id].status = "open"
                           /\ ~tickets[job'[g].id].community_visible
                      /\ job'[g].step = "curate" => tickets[job'[g].id].status = "resolved"
                      /\ job'[g].step = "save" => Due(job'[g].ticket, tickets[job'[g].id])
    BY <1>3 DEF JobsDue, Due
  <2>1. CASE g # h
    BY <1>3, <2>1 DEF JobsDue
  <2>2. CASE g = h
    BY <1>3, <2>2 DEF JobsDue, CopySteps
  <2> QED  BY <2>1, <2>2
<1>4. CASE Finish(h) /\ tickets' = tickets /\ job[h] # None
  <2>1. (\A g \in Handlers \ {h} : job'[g] = job[g]) /\ job'[h] = None
    BY <1>4 DEF Finish, TypeInv, TypeOK
  <2> QED  BY <1>3, <1>4, <2>1
<1>5. CASE Grant(h)
  <2>1. job[h] # None /\ job[h].step = "grant" /\ tickets' = tickets
    BY <1>5 DEF Grant, At
  <2>2. /\ \A g \in Handlers \ {h} : job'[g] = job[g]
        /\ job'[h] # None => job'[h].step \in {"seal", "stamp"} /\ job'[h].id = job[h].id
    BY <1>5, GrantOutcome DEF TypeInv, TypeOK
  <2> QED  BY <1>3, <2>1, <2>2 DEF CopySteps
<1>6. CASE Seal(h) \/ ShowSnapshot(h) \/ ShowThread(h)
  <2>1. /\ job[h] # None /\ tickets' = tickets
        /\ \A g \in Handlers \ {h} : job'[g] = job[g]
        /\ job'[h].step \in {"append", "respond"}
    BY <1>6 DEF Seal, ShowSnapshot, ShowThread, Show, At, TypeInv, TypeOK, Job
  <2> QED  BY <1>3, <2>1 DEF CopySteps
<1>7. CASE Curate(h)
  <2>1. /\ job[h] \in Job /\ job[h].ticket \in Ticket /\ job[h].step = "curate"
        /\ job[h] # None /\ tickets' = tickets
        /\ comments[job[h].id] \in Seq(Comment) /\ comments[job[h].id] # None
    BY <1>7, DeskAssumption
       DEF Curate, At, TypeInv, TypeOK, JobsEquipped, CopySteps, Job
  <2>2. /\ job'[h].step = "save" /\ job'[h].id = job[h].id
        /\ job'[h].ticket = [job[h].ticket EXCEPT !.community_visible = TRUE,
                                                  !.community_snapshot = comments[job[h].id]]
        /\ \A g \in Handlers \ {h} : job'[g] = job[g]
    BY <1>7, <2>1 DEF Curate, TypeInv, TypeOK, Job, Ticket
  <2>3. job[h].ticket.status = "resolved" /\ tickets[job[h].id].status = "resolved"
    BY <2>1 DEF RecordInv, CopiesCurated, Promotable, JobsDue
  <2>4. Due(job'[h].ticket, tickets[job[h].id])
    BY <2>1, <2>2, <2>3 DEF Due, Ticket
  <2> QED  BY <1>3, <2>1, <2>2, <2>4 DEF CopySteps
<1> QED
  BY <1>1, <1>2, <1>4, <1>5, <1>6, <1>7
     DEF Advance, GrantFails, AppendComment, Respond, At

LEMMA DueInvariant ==
  ASSUME OneThreadChanges
  PROVE  Spec => []JobsDue
<1>1. Init => JobsDue
  BY DEF Init, JobsDue
<1>2. TypeInv /\ RecordInv /\ JobsDue /\ [Next]_vars => JobsDue'
  <2>1. JobsDue /\ UNCHANGED vars => JobsDue'
    BY DEF vars, JobsDue, Due
  <2> QED  BY <2>1, ArriveDue, AdvanceDue DEF Next
<1> QED  BY <1>1, <1>2, TypeInvariant, RecordInvariant, PTL DEF Spec

\* The lifecycle's view of the stores.
Status == [t \in TicketIds |-> IF tickets[t] = None THEN None ELSE tickets[t].status]

OnView == [t \in TicketIds |-> IF tickets[t] = None THEN None ELSE CuratedOf(tickets[t])]

LEMMA StoredView ==
  ASSUME NEW r \in Ticket
  PROVE  Stored(r).status = r.status /\ CuratedOf(Stored(r)) = CuratedOf(r)
  BY DEF Stored, CuratedOf, Ticket

\* A put changes the view of one ticket to that of the record put.
LEMMA PutView ==
  ASSUME TypeInv, NEW h \in Handlers, job[h] # None, job[h].step \in PutSteps, Put(h)
  PROVE  /\ Status' = [Status EXCEPT ![job[h].id] = job[h].ticket.status]
         /\ OnView' = [OnView EXCEPT ![job[h].id] = CuratedOf(job[h].ticket)]
         /\ comments' = comments
<1>1. /\ job[h].id \in TicketIds
      /\ Stored(job[h].ticket) # None
      /\ Stored(job[h].ticket).status = job[h].ticket.status
      /\ CuratedOf(Stored(job[h].ticket)) = CuratedOf(job[h].ticket)
      /\ tickets' = [tickets EXCEPT ![job[h].id] = Stored(job[h].ticket)]
  BY PutStores, StoredView
<1>2. Status' = [Status EXCEPT ![job[h].id] = job[h].ticket.status]
  BY <1>1 DEF Status, TypeInv, TypeOK
<1>3. ASSUME NEW t \in TicketIds
      PROVE  (IF tickets'[t] = None THEN None ELSE CuratedOf(tickets'[t])) =
             (IF t = job[h].id THEN CuratedOf(job[h].ticket)
              ELSE IF tickets[t] = None THEN None ELSE CuratedOf(tickets[t]))
  BY <1>1 DEF TypeInv, TypeOK
<1>4. OnView' = [OnView EXCEPT ![job[h].id] = CuratedOf(job[h].ticket)]
  BY <1>3 DEF OnView, CuratedOf
<1> QED  BY <1>2, <1>4 DEF Put

LEMMA PrefixIsSubSeq ==
  ASSUME NEW S, NEW s \in Seq(S), NEW t \in Seq(S), IsPrefix(s, t)
  PROVE  Len(s) \in 0..Len(t) /\ s = SubSeq(t, 1, Len(s))
<1>1. Len(s) \in 0..Len(t) /\ SubSeq(s, 1, Len(s)) = SubSeq(t, 1, Len(s))
  BY DEF IsPrefix
<1>2. s = SubSeq(s, 1, Len(s))
  OBVIOUS
<1> QED  BY <1>1, <1>2

\* The put of a create or a capture files the ticket.
LEMMA InsertFiles ==
  ASSUME TypeInv, CopiesAgree, RecordInv, NEW h \in Handlers, At(h, "insert"), Put(h)
  PROVE  \E t \in TicketIds : Lifecycle!File(t)
<1> DEFINE t == job[h].id
           r == job[h].ticket
<1>1. job[h] # None /\ job[h].step \in PutSteps /\ t \in TicketIds /\ tickets[t] = None
  BY DEF At, PutSteps, CopiesAgree, TypeInv, TypeOK, Job
<1>2. r.status = "open" /\ CuratedOf(r) = None
  BY <1>1 DEF At, RecordInv, CopiesCurated, CuratedOf
<1>3. Status[t] = None /\ OnView[t] = None
  BY <1>1 DEF Status, OnView
<1>4. Status' = [Status EXCEPT ![t] = "open"] /\ OnView' = [OnView EXCEPT ![t] = None]
      /\ comments' = comments
  BY <1>1, <1>2, PutView
<1>5. OnView' = OnView
  BY <1>3, <1>4 DEF OnView
<1> HIDE DEF t, r
<1> QED  BY <1>1, <1>3, <1>4, <1>5 DEF Lifecycle!File, Status, OnView

\* The second put of a capture changes nothing the lifecycle speaks of.
LEMMA StampStutters ==
  ASSUME TypeInv, CopiesAgree, RecordInv, JobsDue, NEW h \in Handlers, At(h, "stamp"), Put(h)
  PROVE  UNCHANGED Lifecycle!lifecycleVars
<1> DEFINE t == job[h].id
           r == job[h].ticket
<1>1. job[h] # None /\ job[h].step \in PutSteps /\ t \in TicketIds /\ tickets[t] # None
  BY DEF At, PutSteps, CopiesAgree, TypeInv, TypeOK, Job
<1>2. r.status = "open" /\ CuratedOf(r) = None
  BY <1>1 DEF At, RecordInv, CopiesCurated, CuratedOf
<1>3. Status[t] = "open" /\ OnView[t] = None
  BY <1>1 DEF Status, OnView, At, JobsDue, CuratedOf
<1>4. Status' = [Status EXCEPT ![t] = "open"] /\ OnView' = [OnView EXCEPT ![t] = None]
      /\ comments' = comments
  BY <1>1, <1>2, PutView
<1>5. Status' = Status /\ OnView' = OnView
  BY <1>3, <1>4 DEF Status, OnView
<1> HIDE DEF t, r
<1> QED  BY <1>4, <1>5 DEF Lifecycle!lifecycleVars, Status, OnView

\* The view of a moved record: private once reopened, as it was otherwise.
LEMMA MovedView ==
  ASSUME NEW s \in Ticket, NEW target \in Statuses,
         s.community_snapshot # None => s.community_visible
  PROVE  /\ Moved(s, target).status = target
         /\ target = "open" => CuratedOf(Moved(s, target)) = None
         /\ target # "open" => CuratedOf(Moved(s, target)) = CuratedOf(s)
  BY DEF Moved, CuratedOf, Ticket

\* The put of a transition makes a legal move, that of a promotion promotes.
LEMMA SaveMovesOrPromotes ==
  ASSUME TypeInv, CopiesAgree, RecordInv, SnapshotInv, JobsDue,
         NEW h \in Handlers, At(h, "save"), Put(h)
  PROVE  \E t \in TicketIds :
             \/ \E target \in {"open", "resolved", "closed"} : Lifecycle!Move(t, target)
             \/ Lifecycle!Promote(t)
<1>0. PICK t \in TicketIds : t = job[h].id
  BY DEF At, TypeInv, TypeOK, Job
<1> DEFINE r == job[h].ticket
           s == tickets[t]
<1>1. /\ job[h] # None /\ job[h].step = "save" /\ job[h].step \in PutSteps
      /\ s # None /\ s \in Ticket /\ r \in Ticket
  BY <1>0 DEF At, PutSteps, CopySteps, CopiesAgree, TypeInv, TypeOK, JobsEquipped, Job
<1>2. Status[t] = s.status /\ OnView[t] = CuratedOf(s)
  BY <1>1 DEF Status, OnView
<1>3. Status' = [Status EXCEPT ![t] = r.status] /\ OnView' = [OnView EXCEPT ![t] = CuratedOf(r)]
      /\ comments' = comments
  BY <1>0, <1>1, PutView
<1>4. Due(r, s)
  BY <1>0, <1>1 DEF JobsDue
<1>5. Curated(s)
  BY <1>1 DEF RecordInv, RecordConsistent
<1>6. ASSUME NEW target \in Statuses, <<s.status, target>> \in LEGAL, r = Moved(s, target)
      PROVE  Lifecycle!Move(t, target)
  <2>1. r.status = target /\ CuratedOf(r) = (IF target = "open" THEN None ELSE CuratedOf(s))
    BY <1>1, <1>5, <1>6, MovedView DEF Curated
  <2>2. OnView' = IF target = "open" THEN [OnView EXCEPT ![t] = None] ELSE OnView
    BY <1>2, <1>3, <2>1 DEF OnView
  <2>3. <<Status[t], target>> \in Lifecycle!LEGAL
    BY <1>2, <1>6 DEF LEGAL, Lifecycle!LEGAL
  <2>4. Status' = [Status EXCEPT ![t] = target]
    BY <1>3, <2>1
  <2> HIDE DEF r, s
  <2> QED  BY <1>3, <2>2, <2>3, <2>4 DEF Lifecycle!Move, Status, OnView
<1>7. ASSUME s.status = "resolved", r.status = "resolved", r.community_visible,
             r.community_snapshot # None
      PROVE  Lifecycle!Promote(t)
  <2>1. CuratedOf(r) = r.community_snapshot
    BY <1>7 DEF CuratedOf
  <2>2. IsPrefix(r.community_snapshot, comments[t])
    BY <1>0, <1>1, <1>7 DEF SnapshotInv, JobsCurated, AsPromoted
  <2>3. r.community_snapshot \in Seq(Comment) /\ comments[t] \in Seq(Comment)
    BY <1>1, <1>7 DEF Ticket, TypeInv, TypeOK
  <2>4. PICK n \in 0..Len(comments[t]) : r.community_snapshot = SubSeq(comments[t], 1, n)
    BY <2>2, <2>3, PrefixIsSubSeq
  <2>5. Status' = Status
    BY <1>2, <1>3, <1>7 DEF Status
  <2>6. OnView' = [OnView EXCEPT ![t] = SubSeq(comments[t], 1, n)]
    BY <1>3, <2>1, <2>4
  <2>7. Status[t] = "resolved"
    BY <1>2, <1>7
  <2> HIDE DEF r, s
  <2> QED  BY <1>3, <2>5, <2>6, <2>7 DEF Lifecycle!Promote, Status, OnView
<1> HIDE DEF r, s
<1> QED  BY <1>4, <1>6, <1>7 DEF Due, Statuses

\* A comment that goes in is a reply to a ticket that is there.
LEMMA AppendReplies ==
  ASSUME TypeInv, CopiesAgree, NEW h \in Handlers, AppendComment(h)
  PROVE  \E t \in TicketIds : Lifecycle!Reply(t)
<1> DEFINE t == job[h].id
           c == job[h].comment
<1>1. t \in TicketIds /\ tickets[t] # None /\ tickets[t] \in Ticket /\ c \in Comment
  BY DEF AppendComment, At, TypeInv, TypeOK, JobsEquipped, Job, CopiesAgree
<1>2. tickets[t].status # None
  BY <1>1, DeskAssumption DEF Ticket
<1>3. Status[t] # None
  BY <1>1, <1>2 DEF Status
<1>4. Status' = Status /\ OnView' = OnView /\ comments' = [comments EXCEPT ![t] = Append(@, c)]
  BY DEF AppendComment, Status, OnView, CuratedOf
<1> HIDE DEF t, c
<1> QED  BY <1>1, <1>3, <1>4 DEF Lifecycle!Reply, Status, OnView

LEMMA StepImplements ==
  ASSUME TypeInv, CopiesAgree, RecordInv, SnapshotInv, JobsDue, [Next]_vars
  PROVE  [Lifecycle!Next]_(Lifecycle!lifecycleVars)
<1>1. CASE tickets' = tickets /\ comments' = comments
  BY <1>1 DEF Lifecycle!lifecycleVars, CuratedOf
<1>2. CASE Next
  <2>1. PICK h \in Handlers : Arrive(h) \/ Advance(h)
    BY <1>2 DEF Next
  <2>2. CASE Arrive(h)
    BY <1>1, <2>2 DEF Arrive, BeginCreate, BeginCapture, BeginLink, BeginReply, BeginTransition,
                      BeginPromote, BeginRead, BeginSearch, Start
  <2>3. CASE Insert(h) \/ Stamp(h) \/ Save(h) \/ CommitFails(h)
    <3>1. Put(h) /\ (At(h, "insert") \/ At(h, "stamp") \/ At(h, "save"))
      BY <2>3 DEF Insert, Stamp, Save, CommitFails, At, PutSteps
    <3> QED  BY <3>1, InsertFiles, StampStutters, SaveMovesOrPromotes DEF Lifecycle!Next
  <2>4. CASE AppendComment(h)
    BY <2>4, AppendReplies DEF Lifecycle!Next
  <2>5. CASE OpenForWrite(h) \/ Grant(h) \/ GrantFails(h) \/ Seal(h) \/ Curate(h)
             \/ ShowSnapshot(h) \/ ShowThread(h) \/ Respond(h)
    BY <1>1, <2>5 DEF OpenForWrite, Grant, GrantFails, Seal, Curate, ShowSnapshot, ShowThread,
                      Show, Respond
  <2> QED  BY <2>1, <2>2, <2>3, <2>4, <2>5 DEF Advance
<1> QED  BY <1>1, <1>2 DEF vars

\* INV-LC-1 and INV-LC-2: with one thread changing records and any number of others linking,
\* replying and reading, over either store, with failing commits and grants, the desk implements
\* the abstract lifecycle: every move of a status is legal, what is public is a prefix of the
\* thread frozen while the ticket was resolved, and reopening takes it back.
THEOREM DeskImplementsLifecycle == OneThreadChanges => (Spec => Implements)
<1> SUFFICES ASSUME OneThreadChanges  PROVE Spec => Implements
  OBVIOUS
<1>1. Init => Lifecycle!Init
  BY DeskAssumption DEF Init, Lifecycle!Init, CuratedOf
<1>2. TypeInv /\ CopiesAgree /\ RecordInv /\ SnapshotInv /\ JobsDue /\ [Next]_vars
        => [Lifecycle!Next]_(Lifecycle!lifecycleVars)
  BY StepImplements
<1> QED
  BY <1>1, <1>2, CopiesAlwaysAgree, RecordInvariant, SnapshotInvariant, DueInvariant, PTL
     DEF Spec, Implements, Lifecycle!Spec
=============================================================================
