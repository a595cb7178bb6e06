--------------------------- MODULE DocWriteProofs ---------------------------
(***************************************************************************)
(* What an acknowledged write of a document promises, for any number of    *)
(* threads, editors, paths and writes, whatever fails; and, when nothing   *)
(* fails and one thread writes, or one thread serves all, what ids and     *)
(* revisions promise.                                                      *)
(***************************************************************************)
EXTENDS DocWrite, TLAPS

\* One thread at a time is inside the store's lock.
Mutex ==
    \A g, h \in Handlers :
        /\ job[g] # None /\ job[g].step \in LockSteps
        /\ job[h] # None /\ job[h].step \in LockSteps
        => g = h

\* What a write has done to its file by the time it comes to git, and what it
\* has in the log by the time it answers.
Progress ==
    \A h \in Handlers : job[h] # None =>
        /\ job[h].step = "add" => worktree[job[h].path] = job[h].doc
        /\ job[h].step \in {"diff", "commit"} => index[job[h].path] = job[h].doc
        /\ job[h].step = "answer" => job[h].doc.ver \in logged

\* HEAD holds what the log says, and nothing of it leaves the index.
HeadIsLogged ==
    \A p \in Paths : head[p] # None => head[p].ver \in logged /\ index[p] # None

IInv == TypeOK /\ Mutex /\ Progress /\ HeadIsLogged /\ AckedIsLogged
-----------------------------------------------------------------------------
LEMMA JobIsTyped ==
    ASSUME TypeOK, NEW h \in Handlers, job[h] # None
    PROVE  /\ job[h] \in Job
           /\ job[h].path \in Paths /\ job[h].doc \in Doc
           /\ job[h].editor \in Editors /\ job[h].doc.ver \in Versions
           /\ job[h].doc # None
<1>1. job[h] \in Job
  BY DEF TypeOK
<1> QED  BY <1>1, DocAssumption DEF Job, Doc

\* Replacing one thread's job by a new one.
LEMMA JobReplaced ==
    ASSUME TypeOK, NEW h \in Handlers, NEW j \in Job \cup {None},
           job' = [job EXCEPT ![h] = j]
    PROVE  /\ job' \in [Handlers -> Job \cup {None}]
           /\ job'[h] = j
           /\ \A g \in Handlers : g # h => job'[g] = job[g]
BY DEF TypeOK

LEMMA GotoMoves ==
    ASSUME TypeOK, NEW h \in Handlers, job[h] # None, NEW step \in WriteSteps, Goto(h, step)
    PROVE  /\ job' \in [Handlers -> Job \cup {None}]
           /\ job'[h] # None
           /\ job'[h].step = step
           /\ job'[h].path = job[h].path
           /\ job'[h].doc = job[h].doc
           /\ \A g \in Handlers : g # h => job'[g] = job[g]
<1>1. job[h] \in Job
  BY JobIsTyped
<1> DEFINE moved == [job[h] EXCEPT !.step = step]
<1>2. moved \in Job /\ moved.step = step /\ moved.path = job[h].path /\ moved.doc = job[h].doc
  BY <1>1 DEF Job
<1>3. moved # None
  BY <1>2, DocAssumption
<1>4. job' = [job EXCEPT ![h] = moved]
  BY DEF Goto
<1> HIDE DEF moved
<1> QED  BY <1>2, <1>3, <1>4, JobReplaced

LEMMA DocIsSmall ==
    ASSUME NEW d \in Doc
    PROVE  d # None /\ d.ver \in Versions
BY DocAssumption DEF Doc

\* Steps before the lock, and new requests: the stores stay, one job changes.
LEMMA OutsideKeeps ==
    ASSUME IInv, NEW h \in Handlers,
           UNCHANGED <<worktree, git, acked>>,
           job' \in [Handlers -> Job \cup {None}],
           \A g \in Handlers : g # h => job'[g] = job[g],
           job'[h] # None => job'[h].step \notin LockSteps \cup {"answer"},
           written' \in 0..MaxWrites, copy' \in [Editors -> Copy \cup {None}]
    PROVE  IInv'
<1>1. TypeOK'
  BY DEF IInv, TypeOK, git
<1>2. Mutex'
  BY DEF IInv, Mutex
<1>3. Progress'
  BY DEF IInv, Progress, git, LockSteps
<1>4. HeadIsLogged' /\ AckedIsLogged'
  BY DEF IInv, HeadIsLogged, AckedIsLogged, git
<1> QED  BY <1>1, <1>2, <1>3, <1>4 DEF IInv

\* Requests that end, and a restart.
LEMMA DroppingKeeps ==
    ASSUME IInv, UNCHANGED <<worktree, git, written, copy, acked>>,
           job' \in [Handlers -> Job \cup {None}],
           \A g \in Handlers : job'[g] = job[g] \/ job'[g] = None
    PROVE  IInv'
<1>1. TypeOK'
  BY DEF IInv, TypeOK, git
<1>2. Mutex'
  BY DEF IInv, Mutex
<1>3. Progress'
  BY DEF IInv, Progress, git
<1>4. HeadIsLogged' /\ AckedIsLogged'
  BY DEF IInv, HeadIsLogged, AckedIsLogged, git
<1> QED  BY <1>1, <1>2, <1>3, <1>4 DEF IInv
-----------------------------------------------------------------------------
(* New requests. *)

LEMMA SendKeeps ==
    ASSUME IInv, NEW h \in Handlers, NEW e \in Editors, NEW p \in Paths,
           NEW d \in Doc, NEW base \in Nat, Send(h, e, p, d, base),
           written' \in 0..MaxWrites
    PROVE  IInv'
<1> DEFINE j == [editor |-> e, step |-> "id", path |-> p, doc |-> d,
                 base_rev |-> base, current_rev |-> 0]
<1>1. j \in Job /\ j.step = "id"
  BY DEF Job, WriteSteps
<1>2. job' = [job EXCEPT ![h] = j] /\ UNCHANGED <<worktree, git, copy, acked>>
  BY DEF Send
<1> HIDE DEF j
<1>3. /\ job' \in [Handlers -> Job \cup {None}] /\ job'[h] = j
      /\ \A g \in Handlers : g # h => job'[g] = job[g]
  BY <1>1, <1>2, JobReplaced DEF IInv
<1>4. copy' \in [Editors -> Copy \cup {None}]
  BY <1>2 DEF IInv, TypeOK
<1> QED  BY <1>1, <1>2, <1>3, <1>4, OutsideKeeps DEF LockSteps

LEMMA EditedIsDoc ==
    ASSUME TypeOK, written < MaxWrites, NEW id \in Ids, NEW has \in SUBSET Versions
    PROVE  Edited(id, has) \in Doc /\ written + 1 \in 0..MaxWrites
BY DocAssumption DEF TypeOK, Edited, Doc, Versions

LEMMA ArriveKeeps ==
    ASSUME IInv, NEW h \in Handlers, Arrive(h)
    PROVE  IInv'
<1>1. TypeOK
  BY DEF IInv
<1>2. CASE BeginRead(h)
  <2>1. PICK e \in Editors, id \in Ids, p \in Paths :
            /\ Found(p, id)
            /\ job' = [job EXCEPT ![h] =
                   [editor |-> e, step |-> "get_rev", path |-> p,
                    doc |-> worktree[p], base_rev |-> 0, current_rev |-> 0]]
    BY <1>2 DEF BeginRead
  <2> DEFINE j == [editor |-> e, step |-> "get_rev", path |-> p,
                   doc |-> worktree[p], base_rev |-> 0, current_rev |-> 0]
  <2>2. worktree[p] \in Doc
    BY <1>1, <2>1 DEF TypeOK, Found, Holding, Parsed
  <2>3. j \in Job /\ j.step = "get_rev"
    BY <2>2 DEF Job, ReadSteps
  <2>4. job' = [job EXCEPT ![h] = j]
    BY <2>1
  <2> HIDE DEF j
  <2>5. /\ job' \in [Handlers -> Job \cup {None}] /\ job'[h] = j
        /\ \A g \in Handlers : g # h => job'[g] = job[g]
    BY <1>1, <2>3, <2>4, JobReplaced
  <2>6. UNCHANGED <<worktree, git, written, copy, acked>>
    BY <1>2 DEF BeginRead
  <2>7. written' \in 0..MaxWrites /\ copy' \in [Editors -> Copy \cup {None}]
    BY <1>1, <2>6 DEF TypeOK
  <2> QED  BY <2>3, <2>5, <2>6, <2>7, OutsideKeeps DEF LockSteps
<1>3. CASE BeginCreate(h)
  <2>1. PICK e \in Editors, p \in Paths, id \in Ids :
            /\ written < MaxWrites /\ written' = written + 1
            /\ Send(h, e, p, Edited(id, {}), 0)
    BY <1>3 DEF BeginCreate
  <2> QED  BY <1>1, <2>1, EditedIsDoc, SendKeeps
<1>4. ASSUME NEW e \in Editors, copy[e] # None
      PROVE  /\ copy[e].path \in Paths /\ copy[e].doc \in Doc /\ copy[e].rev \in Nat
             /\ copy[e].doc.has \in SUBSET Versions
  BY <1>1, <1>4 DEF TypeOK, Copy, Doc
<1>5. CASE BeginUpdate(h)
  <2>1. PICK e \in Editors, id \in Ids :
            /\ copy[e] # None
            /\ written < MaxWrites /\ written' = written + 1
            /\ Send(h, e, copy[e].path, Edited(id, copy[e].doc.has), copy[e].rev)
    BY <1>5 DEF BeginUpdate
  <2> QED  BY <1>1, <1>4, <2>1, EditedIsDoc, SendKeeps
<1>6. CASE BeginResave(h)
  <2>1. PICK e \in Editors :
            /\ copy[e] # None
            /\ written < MaxWrites /\ written' = written + 1
            /\ Send(h, e, copy[e].path, copy[e].doc, copy[e].rev)
    BY <1>6 DEF BeginResave
  <2>2. written' \in 0..MaxWrites
    BY <1>1, <2>1, DocAssumption DEF TypeOK
  <2> QED  BY <1>4, <2>1, <2>2, SendKeeps
<1> QED  BY <1>2, <1>3, <1>5, <1>6 DEF Arrive
-----------------------------------------------------------------------------
(* The steps of a request under way. *)

\* Nobody else is in the lock while h is in it, or while it can be taken.
LEMMA AloneInLock ==
    ASSUME Mutex, NEW h \in Handlers,
           LockFree \/ (job[h] # None /\ job[h].step \in LockSteps)
    PROVE  \A g \in Handlers : g # h /\ job[g] # None => job[g].step \notin LockSteps
BY DEF Mutex, LockFree

\* A step of the one thread in the lock: it may change files and git, as long as
\* the log only grows and it keeps its own account of its file.
LEMMA LockedKeeps ==
    ASSUME IInv, NEW h \in Handlers,
           \A g \in Handlers : g # h /\ job[g] # None => job[g].step \notin LockSteps,
           UNCHANGED <<written, copy, acked>>,
           job' \in [Handlers -> Job \cup {None}],
           job'[h] # None,
           \A g \in Handlers : g # h => job'[g] = job[g],
           worktree' \in [Paths -> Doc \cup {Torn, None}],
           index' \in [Paths -> Doc \cup {None}],
           head' \in [Paths -> Doc \cup {None}],
           commits' \in Nat, rev' \in [Paths -> 0..commits'],
           logged \subseteq logged', logged' \subseteq Versions,
           HeadIsLogged',
           job'[h].step = "add" => worktree'[job'[h].path] = job'[h].doc,
           job'[h].step \in {"diff", "commit"} => index'[job'[h].path] = job'[h].doc,
           job'[h].step = "answer" => job'[h].doc.ver \in logged'
    PROVE  IInv'
<1>1. TypeOK'
  BY DEF IInv, TypeOK
<1>2. Mutex'
  BY DEF Mutex
<1>3. Progress'
  BY DEF IInv, Progress, LockSteps
<1>4. AckedIsLogged'
  BY DEF IInv, AckedIsLogged
<1> QED  BY <1>1, <1>2, <1>3, <1>4 DEF IInv

LEMMA CopyReplaced ==
    ASSUME TypeOK, NEW h \in Handlers, job[h] # None,
           copy' = [copy EXCEPT ![job[h].editor] =
               [path |-> job[h].path, doc |-> job[h].doc, rev |-> rev[job[h].path]]]
    PROVE  copy' \in [Editors -> Copy \cup {None}]
<1> DEFINE c == [path |-> job[h].path, doc |-> job[h].doc, rev |-> rev[job[h].path]]
<1>1. job[h].path \in Paths /\ job[h].doc \in Doc
  BY JobIsTyped
<1>2. rev[job[h].path] \in Nat
  BY <1>1 DEF TypeOK
<1>3. c \in Copy
  BY <1>1, <1>2 DEF Copy
<1>4. copy' = [copy EXCEPT ![job[h].editor] = c]
  OBVIOUS
<1> HIDE DEF c
<1> QED  BY <1>3, <1>4 DEF TypeOK

\* A request that is over.
LEMMA FinishDrops ==
    ASSUME TypeOK, NEW h \in Handlers, Finish(h)
    PROVE  /\ job' \in [Handlers -> Job \cup {None}]
           /\ job'[h] = None
           /\ \A g \in Handlers : g # h => job'[g] = job[g]
BY DEF TypeOK, Finish

LEMMA RefuseKeeps ==
    ASSUME IInv, NEW h \in Handlers, Refuse(h)
    PROVE  IInv'
<1>1. /\ job' \in [Handlers -> Job \cup {None}]
      /\ \A g \in Handlers : job'[g] = job[g] \/ job'[g] = None
  BY FinishDrops DEF IInv, Refuse
<1> QED  BY <1>1, DroppingKeeps DEF Refuse

\* A check is passed: the request moves on, outside the lock.
LEMMA CheckPassed ==
    ASSUME IInv, NEW h \in Handlers, job[h] # None,
           NEW step \in WriteSteps \ (LockSteps \cup {"answer"}), Proceed(h, step)
    PROVE  IInv'
<1>1. /\ job' \in [Handlers -> Job \cup {None}] /\ job'[h].step = step
      /\ \A g \in Handlers : g # h => job'[g] = job[g]
  BY GotoMoves DEF IInv, Proceed
<1>2. written' \in 0..MaxWrites /\ copy' \in [Editors -> Copy \cup {None}]
  BY DEF IInv, TypeOK, Proceed
<1> QED  BY <1>1, <1>2, OutsideKeeps DEF Proceed

LEMMA ChecksKeep ==
    ASSUME IInv, NEW h \in Handlers, CheckId(h) \/ CheckRev(h) \/ CheckPrior(h)
    PROVE  IInv'
<1>1. TypeOK /\ job[h] # None
  BY DEF IInv, CheckId, CheckRev, CheckPrior, At
<1>2. CASE CheckId(h)
  BY <1>1, <1>2, RefuseKeeps, CheckPassed DEF CheckId, WriteSteps, LockSteps
<1>3. CASE CheckPrior(h)
  BY <1>1, <1>3, RefuseKeeps, CheckPassed DEF CheckPrior, WriteSteps, LockSteps
<1>4. CASE CheckRev(h)
  <2> DEFINE seen == rev[job[h].path]
             next == IF seen = 0 THEN "lock" ELSE "prior"
             j == [job[h] EXCEPT !.current_rev = seen, !.step = next]
  <2>1. job[h] \in Job /\ seen \in Nat
    BY <1>1, JobIsTyped DEF TypeOK
  <2>2. j \in Job /\ j.step \in {"lock", "prior"}
    BY <2>1 DEF Job, WriteSteps
  <2>3. job' = [job EXCEPT ![h] = j] /\ UNCHANGED <<worktree, git, written, copy, acked>>
    BY <1>4 DEF CheckRev
  <2> HIDE DEF j
  <2>4. /\ job' \in [Handlers -> Job \cup {None}] /\ job'[h] = j
        /\ \A g \in Handlers : g # h => job'[g] = job[g]
    BY <1>1, <2>2, <2>3, JobReplaced
  <2>5. written' \in 0..MaxWrites /\ copy' \in [Editors -> Copy \cup {None}]
    BY <1>1, <2>3 DEF TypeOK
  <2> QED  BY <2>2, <2>3, <2>4, <2>5, OutsideKeeps DEF LockSteps
<1> QED  BY <1>2, <1>3, <1>4

\* The end of a read: the editor has its copy.
LEMMA ReadRevKeeps ==
    ASSUME IInv, NEW h \in Handlers, ReadRev(h)
    PROVE  IInv'
<1>1. TypeOK /\ job[h] # None /\ Finish(h)
  BY DEF IInv, ReadRev, At
<1>2. copy' \in [Editors -> Copy \cup {None}]
  BY <1>1, CopyReplaced DEF ReadRev
<1>3. UNCHANGED <<worktree, git, written, acked>> /\ written' \in 0..MaxWrites
  BY <1>1 DEF ReadRev, TypeOK
<1> QED  BY <1>1, <1>2, <1>3, FinishDrops, OutsideKeeps

\* Answering makes a version acknowledged that is in the log already.
LEMMA AnswerKeeps ==
    ASSUME IInv, NEW h \in Handlers, Answer(h)
    PROVE  IInv'
<1>1. TypeOK /\ job[h] # None /\ job[h].step = "answer" /\ Finish(h)
  BY DEF IInv, Answer, At
<1>2. copy' \in [Editors -> Copy \cup {None}]
  BY <1>1, CopyReplaced DEF Answer
<1>3. UNCHANGED <<worktree, git, written>> /\ acked' = acked \cup {job[h].doc.ver}
  BY DEF Answer
<1>4. job[h].doc.ver \in logged
  BY <1>1 DEF IInv, Progress
<1>5. /\ job' \in [Handlers -> Job \cup {None}]
      /\ \A g \in Handlers : job'[g] = job[g] \/ job'[g] = None
  BY <1>1, FinishDrops
<1>6. TypeOK'
  BY <1>1, <1>2, <1>3, <1>4, <1>5 DEF TypeOK, git
<1>7. Mutex'
  BY <1>5 DEF IInv, Mutex
<1>8. Progress'
  BY <1>3, <1>5 DEF IInv, Progress, git
<1>9. HeadIsLogged' /\ AckedIsLogged'
  BY <1>3, <1>4 DEF IInv, HeadIsLogged, AckedIsLogged, git
<1> QED  BY <1>6, <1>7, <1>8, <1>9 DEF IInv
-----------------------------------------------------------------------------
(* The steps that hold the lock. *)

LEMMA LockKeeps ==
    ASSUME IInv, NEW h \in Handlers, Lock(h)
    PROVE  IInv'
<1>1. TypeOK /\ job[h] # None /\ LockFree
  BY DEF IInv, Lock, At
<1>2. /\ job' \in [Handlers -> Job \cup {None}] /\ job'[h] # None /\ job'[h].step = "write"
      /\ \A g \in Handlers : g # h => job'[g] = job[g]
  BY <1>1, GotoMoves DEF Lock, WriteSteps
<1>3. worktree' \in [Paths -> Doc \cup {Torn, None}]
  BY <1>1 DEF TypeOK, Lock
<1>4. UNCHANGED <<git, written, copy, acked>>
  BY DEF Lock
<1>5. /\ index' \in [Paths -> Doc \cup {None}] /\ head' \in [Paths -> Doc \cup {None}]
      /\ commits' \in Nat /\ rev' \in [Paths -> 0..commits']
      /\ logged' = logged /\ logged' \subseteq Versions /\ HeadIsLogged'
  BY <1>1, <1>4 DEF TypeOK, git, IInv, HeadIsLogged
<1>6. \A g \in Handlers : g # h /\ job[g] # None => job[g].step \notin LockSteps
  BY <1>1, AloneInLock DEF IInv
<1> QED  BY <1>2, <1>3, <1>4, <1>5, <1>6, LockedKeeps

LEMMA WriteTextKeeps ==
    ASSUME IInv, NEW h \in Handlers, WriteText(h)
    PROVE  IInv'
<1>1. TypeOK /\ job[h] # None /\ job[h].step \in LockSteps
  BY DEF IInv, WriteText, At, LockSteps
<1>2. /\ job' \in [Handlers -> Job \cup {None}] /\ job'[h] # None /\ job'[h].step = "add"
      /\ job'[h].path = job[h].path /\ job'[h].doc = job[h].doc
      /\ \A g \in Handlers : g # h => job'[g] = job[g]
  BY <1>1, GotoMoves DEF WriteText, WriteSteps
<1>3. job[h].path \in Paths /\ job[h].doc \in Doc
  BY <1>1, JobIsTyped
<1>4. /\ worktree' \in [Paths -> Doc \cup {Torn, None}]
      /\ worktree'[job[h].path] = job[h].doc
  BY <1>1, <1>3 DEF TypeOK, WriteText
<1>5. UNCHANGED <<git, written, copy, acked>>
  BY DEF WriteText
<1>6. /\ index' \in [Paths -> Doc \cup {None}] /\ head' \in [Paths -> Doc \cup {None}]
      /\ commits' \in Nat /\ rev' \in [Paths -> 0..commits']
      /\ logged' = logged /\ logged' \subseteq Versions /\ HeadIsLogged'
  BY <1>1, <1>5 DEF TypeOK, git, IInv, HeadIsLogged
<1>7. \A g \in Handlers : g # h /\ job[g] # None => job[g].step \notin LockSteps
  BY <1>1, AloneInLock DEF IInv
<1> QED  BY <1>2, <1>4, <1>5, <1>6, <1>7, LockedKeeps

LEMMA GitAddKeeps ==
    ASSUME IInv, NEW h \in Handlers, GitAdd(h)
    PROVE  IInv'
<1>1. TypeOK /\ job[h] # None /\ job[h].step \in LockSteps /\ job[h].step = "add"
  BY DEF IInv, GitAdd, At, LockSteps
<1>2. /\ job' \in [Handlers -> Job \cup {None}] /\ job'[h] # None /\ job'[h].step = "diff"
      /\ job'[h].path = job[h].path /\ job'[h].doc = job[h].doc
      /\ \A g \in Handlers : g # h => job'[g] = job[g]
  BY <1>1, GotoMoves DEF GitAdd, WriteSteps
<1>3. job[h].path \in Paths /\ job[h].doc \in Doc /\ job[h].doc # None
  BY <1>1, JobIsTyped
<1>4. worktree[job[h].path] = job[h].doc
  BY <1>1 DEF IInv, Progress
<1>5. index' = [index EXCEPT ![job[h].path] = job[h].doc]
  BY <1>4 DEF GitAdd
<1>6. index' \in [Paths -> Doc \cup {None}] /\ index'[job[h].path] = job[h].doc
  BY <1>1, <1>3, <1>5 DEF TypeOK
<1>7. UNCHANGED <<worktree, head, rev, commits, logged, written, copy, acked>>
  BY DEF GitAdd
<1>8. \A p \in Paths : index[p] # None => index'[p] # None
  BY <1>1, <1>3, <1>5 DEF TypeOK
<1>9. HeadIsLogged'
  BY <1>7, <1>8 DEF IInv, HeadIsLogged
<1>10. \A g \in Handlers : g # h /\ job[g] # None => job[g].step \notin LockSteps
  BY <1>1, AloneInLock DEF IInv
<1>11. /\ worktree' \in [Paths -> Doc \cup {Torn, None}] /\ head' \in [Paths -> Doc \cup {None}]
       /\ commits' \in Nat /\ rev' \in [Paths -> 0..commits']
       /\ logged' = logged /\ logged' \subseteq Versions
  BY <1>1, <1>7 DEF TypeOK
<1> QED  BY <1>2, <1>6, <1>7, <1>9, <1>10, <1>11, LockedKeeps

\* A document that is as in HEAD needs no commit: it is in the log.
LEMMA GitDiffKeeps ==
    ASSUME IInv, NEW h \in Handlers, GitDiff(h)
    PROVE  IInv'
<1> DEFINE p == job[h].path
           next == IF index[p] = head[p] THEN "answer" ELSE "commit"
<1>1. TypeOK /\ job[h] # None /\ job[h].step \in LockSteps /\ job[h].step = "diff"
  BY DEF IInv, GitDiff, At, LockSteps
<1>2. next \in WriteSteps /\ next \in {"answer", "commit"} /\ Proceed(h, next)
  BY DEF GitDiff, WriteSteps
<1>3. /\ job' \in [Handlers -> Job \cup {None}] /\ job'[h] # None /\ job'[h].step = next
      /\ job'[h].path = p /\ job'[h].doc = job[h].doc
      /\ \A g \in Handlers : g # h => job'[g] = job[g]
  BY <1>1, <1>2, GotoMoves DEF Proceed
<1>4. p \in Paths /\ job[h].doc # None /\ index[p] = job[h].doc
  BY <1>1, JobIsTyped DEF IInv, Progress
<1>5. next = "answer" => job[h].doc.ver \in logged
  BY <1>4 DEF IInv, HeadIsLogged
<1>6. UNCHANGED <<worktree, git, written, copy, acked>>
  BY <1>2 DEF Proceed
<1>7. \A g \in Handlers : g # h /\ job[g] # None => job[g].step \notin LockSteps
  BY <1>1, AloneInLock DEF IInv
<1>8. /\ worktree' \in [Paths -> Doc \cup {Torn, None}]
      /\ index' \in [Paths -> Doc \cup {None}] /\ head' \in [Paths -> Doc \cup {None}]
      /\ commits' \in Nat /\ rev' \in [Paths -> 0..commits']
      /\ logged' = logged /\ logged' \subseteq Versions /\ HeadIsLogged'
      /\ index'[p] = job[h].doc
  BY <1>1, <1>4, <1>6 DEF TypeOK, git, IInv, HeadIsLogged
<1> HIDE DEF next
<1> QED  BY <1>2, <1>3, <1>5, <1>6, <1>7, <1>8, LockedKeeps

\* The commit puts everything staged in the log, this thread's document with it.
LEMMA GitCommitKeeps ==
    ASSUME IInv, NEW h \in Handlers, GitCommit(h)
    PROVE  IInv'
<1> DEFINE changed == {q \in Paths : index[q] # head[q]}
           p == job[h].path
<1>1. TypeOK /\ job[h] # None /\ job[h].step \in LockSteps /\ job[h].step = "commit"
  BY DEF IInv, GitCommit, At, LockSteps
<1>2. /\ job' \in [Handlers -> Job \cup {None}] /\ job'[h] # None /\ job'[h].step = "answer"
      /\ job'[h].path = p /\ job'[h].doc = job[h].doc
      /\ \A g \in Handlers : g # h => job'[g] = job[g]
  BY <1>1, GotoMoves DEF GitCommit, WriteSteps
<1>3. p \in Paths /\ index[p] = job[h].doc /\ job[h].doc # None
  BY <1>1, JobIsTyped DEF IInv, Progress
<1>4. /\ head' = index /\ commits' = commits + 1
      /\ rev' = [q \in Paths |-> IF index[q] # head[q] THEN commits + 1 ELSE rev[q]]
      /\ logged' = logged \cup {index[q].ver : q \in changed}
      /\ UNCHANGED <<worktree, index, written, copy, acked>>
  BY DEF GitCommit
<1>5. \A q \in changed : index[q] \in Doc
  BY <1>1 DEF TypeOK, IInv, HeadIsLogged
<1>6. logged \subseteq logged' /\ logged' \subseteq Versions
  BY <1>1, <1>4, <1>5, DocIsSmall DEF TypeOK
<1>7. \A q \in Paths : index[q] # None => index[q].ver \in logged'
  <2> SUFFICES ASSUME NEW q \in Paths, index[q] # None PROVE index[q].ver \in logged'
    OBVIOUS
  <2>1. CASE index[q] = head[q]
    BY <2>1, <1>4 DEF IInv, HeadIsLogged
  <2>2. CASE index[q] # head[q]
    BY <2>2, <1>4
  <2> QED  BY <2>1, <2>2
<1>8. HeadIsLogged'
  BY <1>4, <1>7 DEF HeadIsLogged
<1>9. /\ worktree' \in [Paths -> Doc \cup {Torn, None}]
      /\ index' \in [Paths -> Doc \cup {None}] /\ head' \in [Paths -> Doc \cup {None}]
      /\ commits' \in Nat
  BY <1>1, <1>4 DEF TypeOK
<1>10. rev' \in [Paths -> 0..commits']
  BY <1>1, <1>4 DEF TypeOK
<1>11. job[h].doc.ver \in logged'
  BY <1>3, <1>7
<1>12. \A g \in Handlers : g # h /\ job[g] # None => job[g].step \notin LockSteps
  BY <1>1, AloneInLock DEF IInv
<1> QED  BY <1>2, <1>4, <1>6, <1>8, <1>9, <1>10, <1>11, <1>12, LockedKeeps
-----------------------------------------------------------------------------
LEMMA InitHolds == Init => IInv
<1> SUFFICES ASSUME Init PROVE IInv
  OBVIOUS
<1>1. TypeOK
  BY DocAssumption DEF Init, TypeOK
<1>2. Mutex /\ Progress
  BY DEF Init, Mutex, Progress
<1>3. HeadIsLogged /\ AckedIsLogged
  BY DEF Init, HeadIsLogged, AckedIsLogged
<1> QED  BY <1>1, <1>2, <1>3 DEF IInv

\* Every step of the documents keeps the invariant.
THEOREM Inductive == IInv /\ [Next]_vars => IInv'
<1> SUFFICES ASSUME IInv, [Next]_vars PROVE IInv'
  OBVIOUS
<1>1. ASSUME NEW h \in Handlers, Arrive(h) PROVE IInv'
  BY <1>1, ArriveKeeps
<1>2. ASSUME NEW h \in Handlers, Advance(h) PROVE IInv'
  <2>1. CASE ReadRev(h)
    BY <2>1, ReadRevKeeps
  <2>2. CASE CheckId(h) \/ CheckRev(h) \/ CheckPrior(h)
    BY <2>2, ChecksKeep
  <2>3. CASE Lock(h)
    BY <2>3, LockKeeps
  <2>4. CASE WriteText(h)
    BY <2>4, WriteTextKeeps
  <2>5. CASE GitAdd(h)
    BY <2>5, GitAddKeeps
  <2>6. CASE GitDiff(h)
    BY <2>6, GitDiffKeeps
  <2>7. CASE GitCommit(h)
    BY <2>7, GitCommitKeeps
  <2>8. CASE GitFails(h)
    BY <2>8, RefuseKeeps DEF GitFails
  <2>9. CASE Answer(h)
    BY <2>9, AnswerKeeps
  <2> QED  BY <1>2, <2>1, <2>2, <2>3, <2>4, <2>5, <2>6, <2>7, <2>8, <2>9 DEF Advance
<1>3. CASE Restart
  <2>1. /\ job' \in [Handlers -> Job \cup {None}]
        /\ \A g \in Handlers : job'[g] = None
    BY <1>3 DEF Restart
  <2> QED  BY <1>3, <2>1, DroppingKeeps DEF Restart
<1>4. CASE UNCHANGED vars
  <2>1. UNCHANGED <<worktree, git, written, copy, acked>> /\ job' = job
    BY <1>4 DEF vars, git
  <2> QED  BY <2>1, DroppingKeeps DEF IInv, TypeOK
<1> QED  BY <1>1, <1>2, <1>3, <1>4 DEF Next

\* The type invariant of the documents, for any number of threads, editors, paths
\* and writes.
THEOREM TypeCorrect == Spec => []TypeOK
<1>1. IInv => TypeOK
  BY DEF IInv
<1> QED  BY <1>1, InitHolds, Inductive, PTL DEF Spec

\* INV-ST-1 for documents: a write answered with success is in a commit, for any
\* interleaving of writers and whatever git or the process does in between.
THEOREM AckedStaysLogged == Spec => []AckedIsLogged
<1>1. IInv => AckedIsLogged
  BY DEF IInv
<1> QED  BY <1>1, InitHolds, Inductive, PTL DEF Spec
-----------------------------------------------------------------------------
(* The documents when nothing fails and one thread writes: the work tree, the *)
(* index and HEAD agree on every file but the one being written.              *)

NothingFails == ~GitMayFail /\ ~MayRestart

OneWriter == \A g, h \in Handlers : "write" \in Serves[g] \cap Serves[h] => g = h

\* Requests, reads among them, come one at a time.
OneThread == \A g, h \in Handlers : Serves[g] # {} /\ Serves[h] # {} => g = h

Demand(step) == IF step = "get_rev" THEN "read" ELSE "write"

Agree(p) == worktree[p] = head[p] /\ index[p] = head[p]

Locked(p) == \E h \in Handlers : job[h] # None /\ job[h].path = p /\ job[h].step \in LockSteps

\* How far a write has come, and what its checks found that is still so.
Wrote(j) ==
    /\ j.step = "add" => worktree[j.path] = j.doc
    /\ j.step \in {"write", "add"} => index[j.path] = head[j.path]
    /\ j.step \in {"diff", "commit"} => worktree[j.path] = j.doc /\ index[j.path] = j.doc
    /\ j.step = "answer" => head[j.path] = j.doc
    /\ j.step \in {"rev", "prior", "lock"} \cup LockSteps =>
           \A q \in Paths \ {j.path} : head[q] # None => head[q].id # j.doc.id
    /\ j.step = "prior" => j.current_rev = rev[j.path]
    /\ j.step \in {"lock"} \cup LockSteps /\ head[j.path] # None =>
           head[j.path].id = j.doc.id /\ j.base_rev = rev[j.path]

InStep ==
    /\ \A h \in Handlers, j \in Job : job[h] = j => Demand(j.step) \in Serves[h] /\ Wrote(j)
    /\ \A p \in Paths : head[p] = None <=> rev[p] = 0
    /\ \A p \in Paths : Agree(p) \/ Locked(p)
    /\ UniqueIds

\* Who names revision r of p has a document with the changes of that revision.
Knowing(p, d, r) ==
    /\ d.ver \in d.has /\ r <= commits
    /\ r = rev[p] /\ r > 0 => head[p].ver \in d.has

Current ==
    /\ \A p \in Paths : head[p] # None => head[p].ver \in head[p].has
    /\ \A e \in Editors, c \in Copy : copy[e] = c => Knowing(c.path, c.doc, c.rev)
    /\ \A h \in Handlers, j \in Job : job[h] = j =>
           Knowing(j.path, j.doc, j.base_rev) /\ (j.step = "get_rev" => j.doc = head[j.path])
-----------------------------------------------------------------------------
LEMMA TornIsNoDoc == Torn \notin Doc /\ Torn # None
BY DocAssumption DEF Torn, Doc

\* One thread goes on with k; what it says of its file is so, and it is not done with
\* the lock before its file is settled.
LEMMA InStepStays ==
    ASSUME TypeOK, InStep, NEW h \in Handlers, NEW k, job' = [job EXCEPT ![h] = k],
           UNCHANGED <<worktree, index, head, rev>>,
           k # None => k \in Job /\ Demand(k.step) \in Serves[h] /\ Wrote(k),
           job[h] # None /\ job[h].step \in LockSteps => Agree(job[h].path)
    PROVE  InStep'
<1>1. \A g \in Handlers : job'[g] = IF g = h THEN k ELSE job[g]
  BY DEF TypeOK
<1>2. ASSUME NEW g \in Handlers, NEW j \in Job, job'[g] = j
      PROVE  Demand(j.step) \in Serves[g] /\ Wrote(j)'
  <2>1. Demand(j.step) \in Serves[g] /\ Wrote(j)
    BY <1>1, <1>2, DocAssumption DEF InStep
  <2> QED  BY <2>1 DEF Wrote
<1>3. ASSUME NEW p \in Paths  PROVE Agree(p)' \/ Locked(p)'
  <2>1. Agree(p)' <=> Agree(p)
    BY DEF Agree
  <2>2. CASE Agree(p)
    BY <2>1, <2>2
  <2>3. CASE ~Agree(p)
    <3>1. PICK g \in Handlers : job[g] # None /\ job[g].path = p /\ job[g].step \in LockSteps
      BY <2>3 DEF InStep, Locked
    <3>2. g # h
      BY <2>3, <3>1
    <3> QED  BY <1>1, <3>1, <3>2 DEF Locked
  <2> QED  BY <2>2, <2>3
<1>4. UniqueIds' /\ \A p \in Paths : head'[p] = None <=> rev'[p] = 0
  BY DEF InStep, UniqueIds
<1> QED  BY <1>2, <1>3, <1>4 DEF InStep

\* While it writes, all others read.
LEMMA OneWrites ==
    ASSUME TypeOK, InStep, OneWriter, NEW h \in Handlers, job[h] # None, job[h].step # "get_rev",
           NEW g \in Handlers \ {h}, job[g] # None
    PROVE  job[g].step = "get_rev"
<1>1. PICK j, i : j = job[h] /\ i = job[g]
  OBVIOUS
<1>2. j \in Job /\ i \in Job
  BY <1>1, JobIsTyped
<1>3. Demand(j.step) \in Serves[h] /\ Demand(i.step) \in Serves[g]
  BY <1>1, <1>2 DEF InStep
<1> QED  BY <1>1, <1>3 DEF OneWriter, Demand

LEMMA AllAgree ==
    ASSUME TypeOK, InStep, OneWriter, NEW h \in Handlers, job[h] # None,
           job[h].step \notin LockSteps \cup {"get_rev"}
    PROVE  \A p \in Paths : Agree(p)
<1>1. \A g \in Handlers : job[g] # None => job[g].step \notin LockSteps
  BY OneWrites DEF LockSteps
<1> QED  BY <1>1 DEF InStep, Locked

\* Its file alone is not settled.
LEMMA OthersAgree ==
    ASSUME TypeOK, InStep, OneWriter, NEW h \in Handlers, job[h] # None, job[h].step # "get_rev",
           NEW p \in Paths \ {job[h].path}
    PROVE  Agree(p)
<1>1. \A g \in Handlers \ {h} : job[g] # None => job[g].step \notin LockSteps
  BY OneWrites DEF LockSteps
<1> QED  BY <1>1 DEF InStep, Locked

\* The writer changes its file.
LEMMA WriterInStep ==
    ASSUME TypeOK, InStep, OneWriter, NEW h \in Handlers, NEW j \in Job, j = job[h], j.step # "get_rev",
           NEW k \in Job, job' = [job EXCEPT ![h] = k], k.path = j.path, k.step # "get_rev", Wrote(k)',
           \A p \in Paths \ {j.path} : worktree'[p] = worktree[p] /\ index'[p] = index[p] /\ head'[p] = head[p],
           \A p \in Paths : head'[p] = None <=> rev'[p] = 0,
           UniqueIds', k.step \in LockSteps \/ Agree(k.path)'
    PROVE  InStep'
<1>1. \A g \in Handlers : job'[g] = IF g = h THEN k ELSE job[g]
  BY DEF TypeOK
<1>2. j # None /\ k # None /\ Demand(j.step) \in Serves[h]
  BY DocAssumption DEF InStep
<1>3. ASSUME NEW g \in Handlers, NEW i \in Job, job'[g] = i
      PROVE  Demand(i.step) \in Serves[g] /\ Wrote(i)'
  <2>1. CASE g = h
    BY <1>1, <1>2, <1>3, <2>1 DEF Demand
  <2>2. CASE g # h
    <3>1. job[g] = i /\ i # None
      BY <1>1, <1>3, <2>2, DocAssumption
    <3>2. i.step = "get_rev"
      BY <1>2, <2>2, <3>1, OneWrites
    <3>3. Demand(i.step) \in Serves[g]
      BY <3>1 DEF InStep
    <3>4. Wrote(i)'
      BY <3>2 DEF Wrote, LockSteps
    <3> QED  BY <3>3, <3>4
  <2> QED  BY <2>1, <2>2
<1>4. ASSUME NEW p \in Paths  PROVE Agree(p)' \/ Locked(p)'
  <2>1. CASE p = j.path
    BY <1>1, <1>2, <2>1 DEF Locked
  <2>2. CASE p # j.path
    <3>1. Agree(p)
      BY <1>2, <2>2, OthersAgree
    <3> QED  BY <2>2, <3>1 DEF Agree
  <2> QED  BY <2>1, <2>2
<1> QED  BY <1>3, <1>4 DEF InStep
-----------------------------------------------------------------------------
(* Requests and checks. *)

LEMMA InitInStep == ASSUME Init  PROVE InStep
<1>1. \A h \in Handlers, j \in Job : job[h] # j
  BY DocAssumption DEF Init
<1> QED  BY <1>1 DEF Init, InStep, Agree, UniqueIds

LEMMA ArriveInStep ==
    ASSUME TypeOK, TypeOK', InStep, NEW h \in Handlers, Arrive(h)
    PROVE  InStep'
<1>1. PICK k : k = job'[h]
  OBVIOUS
<1>2. job[h] = None /\ UNCHANGED <<worktree, git>>
  BY DEF Arrive, BeginRead, BeginCreate, BeginUpdate, BeginResave, Send
<1>3. PICK r : /\ job' = [job EXCEPT ![h] = r]
               /\ \/ r.step = "get_rev" /\ "read" \in Serves[h]
                  \/ r.step = "id" /\ "write" \in Serves[h]
  <2>1. CASE BeginRead(h)
    <3>1. PICK e \in Editors, path \in Paths :
              job' = [job EXCEPT ![h] =
                  [editor |-> e, step |-> "get_rev", path |-> path,
                   doc |-> worktree[path], base_rev |-> 0, current_rev |-> 0]]
      BY <2>1 DEF BeginRead
    <3>2. "read" \in Serves[h]
      BY <2>1 DEF BeginRead
    <3>3. PICK r : r = [editor |-> e, step |-> "get_rev", path |-> path,
                        doc |-> worktree[path], base_rev |-> 0, current_rev |-> 0]
      OBVIOUS
    <3>4. job' = [job EXCEPT ![h] = r] /\ r.step = "get_rev"
      BY <3>1, <3>3
    <3> QED  BY <3>2, <3>4
  <2>2. CASE BeginCreate(h) \/ BeginUpdate(h) \/ BeginResave(h)
    <3>1. PICK e, path, doc, base : Send(h, e, path, doc, base)
      BY <2>2 DEF BeginCreate, BeginUpdate, BeginResave
    <3>2. PICK r : r = [editor |-> e, step |-> "id", path |-> path, doc |-> doc,
                        base_rev |-> base, current_rev |-> 0]
      OBVIOUS
    <3>3. job' = [job EXCEPT ![h] = r] /\ r.step = "id" /\ "write" \in Serves[h]
      BY <3>1, <3>2 DEF Send
    <3> QED  BY <3>3
  <2> QED  BY <2>1, <2>2 DEF Arrive
<1>4. k = r
  BY <1>1, <1>3 DEF TypeOK
<1>5. k # None => k \in Job
  BY <1>1 DEF TypeOK
<1>6. Demand(k.step) \in Serves[h] /\ Wrote(k)
  BY <1>3, <1>4 DEF Demand, Wrote, LockSteps
<1> QED  BY <1>2, <1>3, <1>4, <1>5, <1>6, InStepStays DEF git

LEMMA EndsInStep ==
    ASSUME TypeOK, InStep, NEW h \in Handlers, job[h] # None, job[h].step \notin LockSteps, Finish(h),
           UNCHANGED <<worktree, git>>
    PROVE  InStep'
<1>1. PICK k : k = None /\ job' = [job EXCEPT ![h] = k]
  BY DEF Finish
<1> QED  BY <1>1, InStepStays DEF git

\* A check has led to the next step.
LEMMA CheckedInStep ==
    ASSUME TypeOK, InStep, NEW h \in Handlers, NEW j \in Job, j = job[h], j.step \notin LockSteps \cup {"get_rev"},
           NEW step \in {"rev", "prior", "lock"}, NEW current \in Nat, NEW k \in Job,
           k = [j EXCEPT !.current_rev = current, !.step = step], job' = [job EXCEPT ![h] = k],
           UNCHANGED <<worktree, git>>,
           \A q \in Paths \ {j.path} : head[q] # None => head[q].id # j.doc.id,
           step = "prior" => current = rev[j.path],
           step = "lock" /\ head[j.path] # None => head[j.path].id = j.doc.id /\ j.base_rev = rev[j.path]
    PROVE  InStep'
<1>1. k.step = step /\ k.path = j.path /\ k.doc = j.doc /\ k.current_rev = current /\ k.base_rev = j.base_rev
  BY DEF Job
<1>2. Wrote(k)
  BY <1>1 DEF Wrote, LockSteps
<1>3. Demand(k.step) \in Serves[h]
  BY <1>1 DEF InStep, Demand
<1> QED  BY <1>2, <1>3, InStepStays DEF git

LEMMA ChecksInStep ==
    ASSUME TypeOK, TypeOK', InStep, OneWriter, NEW h \in Handlers,
           CheckId(h) \/ CheckRev(h) \/ CheckPrior(h)
    PROVE  InStep'
<1>1. PICK j : j = job[h]
  OBVIOUS
<1>2. j # None /\ j.step \in {"id", "rev", "prior"} /\ UNCHANGED <<worktree, git>>
  BY <1>1 DEF CheckId, CheckRev, CheckPrior, At, Refuse, Proceed
<1>3. j \in Job /\ j.path \in Paths /\ j.doc \in Doc /\ Wrote(j)
  BY <1>1, <1>2, JobIsTyped DEF InStep
<1>4. \A p \in Paths : Agree(p)
  BY <1>1, <1>2, AllAgree DEF LockSteps
<1>5. rev[j.path] \in Nat /\ j.current_rev \in Nat
  BY <1>3 DEF TypeOK, Job
<1>6. CASE Refuse(h)
  BY <1>1, <1>2, <1>6, EndsInStep DEF Refuse, LockSteps
<1>7. CASE CheckId(h) /\ ~Refuse(h)
  <2>1. ~Duplicate(h) /\ job' = [job EXCEPT ![h].step = "rev"]
    BY <1>7 DEF CheckId, Proceed, Goto
  <2>2. \A q \in Paths \ {j.path} : head[q] # None => head[q].id # j.doc.id
    <3> SUFFICES ASSUME NEW q \in Paths \ {j.path}, head[q] # None, head[q].id = j.doc.id
                 PROVE  Duplicate(h)
      BY <2>1
    <3>1. \A p \in Paths : worktree[p] = head[p] /\ head[p] # Torn
      BY <1>4, TornIsNoDoc DEF Agree, TypeOK
    <3>2. q \in Holding(j.doc.id)
      BY <3>1 DEF Holding, Parsed
    <3>3. \A p \in Holding(j.doc.id) : p = q
      BY <3>1 DEF Holding, Parsed, InStep, UniqueIds
    <3>4. q <= q
      BY DocAssumption
    <3> QED  BY <1>1, <3>2, <3>3, <3>4 DEF Duplicate, Found
  <2>3. PICK k : k = [j EXCEPT !.current_rev = j.current_rev, !.step = "rev"]
    OBVIOUS
  <2>4. k = [j EXCEPT !.step = "rev"]
    BY <1>3, <2>3 DEF Job
  <2>5. job' = [job EXCEPT ![h] = k]
    BY <1>1, <2>1, <2>4
  <2>6. k \in Job
    BY <1>3, <2>4 DEF Job, WriteSteps
  <2> QED  BY <1>1, <1>2, <1>3, <1>5, <2>2, <2>3, <2>5, <2>6, CheckedInStep DEF LockSteps
<1>8. CASE CheckRev(h)
  <2>1. PICK step : step = (IF rev[j.path] = 0 THEN "lock" ELSE "prior")
    OBVIOUS
  <2>2. PICK k : k = [j EXCEPT !.current_rev = rev[j.path], !.step = step]
    OBVIOUS
  <2>3. job' = [job EXCEPT ![h].current_rev = rev[j.path], ![h].step = step]
    BY <1>1, <1>8, <2>1 DEF CheckRev
  <2>4. job' = [job EXCEPT ![h] = k]
    BY <1>1, <2>2, <2>3
  <2>5. k \in Job
    BY <1>3, <1>5, <2>1, <2>2 DEF Job, WriteSteps
  <2>6. \A q \in Paths \ {j.path} : head[q] # None => head[q].id # j.doc.id
    BY <1>1, <1>3, <1>8 DEF Wrote, CheckRev, At
  <2>7. step = "lock" => head[j.path] = None
    BY <1>3, <2>1 DEF InStep
  <2> QED  BY <1>1, <1>2, <1>3, <1>5, <2>1, <2>2, <2>4, <2>5, <2>6, <2>7, CheckedInStep DEF LockSteps
<1>9. CASE CheckPrior(h) /\ ~Refuse(h)
  <2>1. ~Renames(h) /\ ~Stale(h) /\ job' = [job EXCEPT ![h].step = "lock"] /\ j.step = "prior"
    BY <1>1, <1>9 DEF CheckPrior, Proceed, Goto, At
  <2>2. PICK k : k = [j EXCEPT !.current_rev = j.current_rev, !.step = "lock"]
    OBVIOUS
  <2>3. k = [j EXCEPT !.step = "lock"]
    BY <1>3, <2>2 DEF Job
  <2>4. job' = [job EXCEPT ![h] = k]
    BY <1>1, <2>1, <2>3
  <2>5. k \in Job
    BY <1>3, <2>3 DEF Job, WriteSteps
  <2>6. \A q \in Paths \ {j.path} : head[q] # None => head[q].id # j.doc.id
    BY <1>3, <2>1 DEF Wrote
  <2>7. head[j.path] # None => head[j.path].id = j.doc.id
    <3>1. worktree[j.path] = head[j.path] /\ head[j.path] # Torn
      BY <1>3, <1>4, TornIsNoDoc DEF Agree, TypeOK
    <3> QED  BY <1>1, <1>3, <2>1, <3>1 DEF Renames, Parsed
  <2>8. j.base_rev = rev[j.path]
    BY <1>1, <1>3, <2>1 DEF Stale, Wrote
  <2> QED  BY <1>1, <1>2, <1>3, <1>5, <2>2, <2>4, <2>5, <2>6, <2>7, <2>8, CheckedInStep DEF LockSteps
<1> QED  BY <1>6, <1>7, <1>8, <1>9
-----------------------------------------------------------------------------
(* The steps in the lock. *)

LEMMA WritingInStep ==
    ASSUME IInv, IInv', InStep, OneWriter, NEW h \in Handlers, Lock(h) \/ WriteText(h) \/ GitAdd(h)
    PROVE  InStep'
<1>1. PICK j : j = job[h]
  OBVIOUS
<1>2. j # None /\ j.step \in {"lock", "write", "add"} /\ UNCHANGED <<head, rev>>
  BY <1>1 DEF Lock, WriteText, GitAdd, At, git
<1>3. TypeOK /\ j \in Job /\ j.path \in Paths /\ j.doc \in Doc /\ Wrote(j)
  BY <1>1, <1>2, JobIsTyped DEF IInv, InStep
<1>4. PICK k : /\ job' = [job EXCEPT ![h] = k] /\ k.step \in {"write", "add", "diff"}
               /\ k \in Job /\ k.path = j.path /\ k.doc = j.doc /\ k.base_rev = j.base_rev
               /\ Lock(h) => k.step = "write"
               /\ WriteText(h) => k.step = "add"
               /\ GitAdd(h) => k.step = "diff"
  <2>1. PICK step \in {"write", "add", "diff"} :
            /\ Goto(h, step)
            /\ (Lock(h) => step = "write") /\ (WriteText(h) => step = "add") /\ (GitAdd(h) => step = "diff")
    BY DEF Lock, WriteText, GitAdd, At
  <2>2. PICK k : k = [j EXCEPT !.step = step] /\ job' = [job EXCEPT ![h] = k]
    BY <1>1, <2>1 DEF Goto
  <2>3. k \in Job /\ k.step = step /\ k.path = j.path /\ k.doc = j.doc /\ k.base_rev = j.base_rev
    BY <1>3, <2>2 DEF Job, WriteSteps
  <2> QED  BY <2>1, <2>2, <2>3
<1>5. k.step \in LockSteps /\ k.step # "get_rev"
  BY <1>4 DEF LockSteps
<1>6. /\ \A q \in Paths \ {j.path} : head[q] # None => head[q].id # j.doc.id
      /\ head[j.path] # None => head[j.path].id = j.doc.id /\ j.base_rev = rev[j.path]
  BY <1>2, <1>3 DEF Wrote, LockSteps
<1>7. k.step = "write" => worktree' = [worktree EXCEPT ![j.path] = Torn] /\ index' = index
                          /\ index[j.path] = head[j.path]
  <2>1. Lock(h) => Agree(j.path)
    BY <1>1, <1>2, <1>3, AllAgree DEF Lock, At, LockSteps
  <2> QED  BY <1>1, <1>4, <2>1 DEF Lock, WriteText, GitAdd, git, Agree
<1>8. k.step = "add" => worktree' = [worktree EXCEPT ![j.path] = j.doc] /\ index' = index
                        /\ index[j.path] = head[j.path]
  BY <1>1, <1>3, <1>4 DEF Lock, WriteText, GitAdd, git, At, Wrote
<1>9. k.step = "diff" => worktree' = worktree /\ index' = [index EXCEPT ![j.path] = j.doc]
                         /\ worktree[j.path] = j.doc
  BY <1>1, <1>3, <1>4 DEF Lock, WriteText, GitAdd, git, At, Wrote
<1>10. Wrote(k)'
  BY <1>2, <1>3, <1>4, <1>6, <1>7, <1>8, <1>9 DEF Wrote, TypeOK, LockSteps
<1>11. \A p \in Paths \ {j.path} : worktree'[p] = worktree[p] /\ index'[p] = index[p] /\ head'[p] = head[p]
  BY <1>2, <1>3, <1>4, <1>7, <1>8, <1>9 DEF TypeOK
<1>12. UniqueIds' /\ \A p \in Paths : head'[p] = None <=> rev'[p] = 0
  BY <1>2 DEF InStep, UniqueIds
<1>13. j.step # "get_rev"
  BY <1>2
<1> QED  BY <1>1, <1>3, <1>4, <1>5, <1>10, <1>11, <1>12, <1>13, WriterInStep

LEMMA GitDiffInStep ==
    ASSUME IInv, InStep, OneWriter, NEW h \in Handlers, GitDiff(h)
    PROVE  InStep'
<1>1. PICK j : j = job[h]
  OBVIOUS
<1>2. j # None /\ j.step = "diff" /\ UNCHANGED <<worktree, git>>
  BY <1>1 DEF GitDiff, Proceed, At
<1>3. TypeOK /\ j \in Job /\ j.path \in Paths /\ Wrote(j)
  BY <1>1, <1>2, JobIsTyped DEF IInv, InStep
<1>4. PICK step : step = (IF index[j.path] = head[j.path] THEN "answer" ELSE "commit")
  OBVIOUS
<1>5. PICK k : k = [j EXCEPT !.step = step] /\ job' = [job EXCEPT ![h] = k]
  BY <1>1, <1>4 DEF GitDiff, Proceed, Goto
<1>6. k \in Job /\ k.step = step /\ k.path = j.path /\ k.doc = j.doc /\ k.base_rev = j.base_rev
  BY <1>3, <1>4, <1>5 DEF Job, WriteSteps
<1>7. Wrote(k)'
  BY <1>2, <1>3, <1>4, <1>6 DEF Wrote, LockSteps, git
<1>8. k.step \in LockSteps \/ Agree(k.path)'
  BY <1>2, <1>3, <1>4, <1>6 DEF Wrote, LockSteps, git, Agree
<1>9. \A p \in Paths \ {j.path} : worktree'[p] = worktree[p] /\ index'[p] = index[p] /\ head'[p] = head[p]
  BY <1>2 DEF git
<1>10. UniqueIds' /\ \A p \in Paths : head'[p] = None <=> rev'[p] = 0
  BY <1>2 DEF InStep, UniqueIds, git
<1>11. j.step # "get_rev" /\ k.step # "get_rev"
  BY <1>2, <1>4, <1>6
<1> QED  BY <1>1, <1>3, <1>5, <1>6, <1>7, <1>8, <1>9, <1>10, <1>11, WriterInStep

\* What a commit does: it changes the writer's document and no other.
LEMMA CommitEffect ==
    ASSUME IInv, InStep, OneWriter, NEW h \in Handlers, GitCommit(h), NEW j, j = job[h]
    PROVE  /\ TypeOK /\ j \in Job /\ j # None /\ j.path \in Paths /\ j.doc \in Doc /\ j.step = "commit" /\ Wrote(j)
           /\ head' = [head EXCEPT ![j.path] = j.doc]
           /\ \A q \in Paths \ {j.path} : rev'[q] = rev[q]
           /\ rev'[j.path] = IF j.doc = head[j.path] THEN rev[j.path] ELSE commits + 1
           /\ UNCHANGED <<worktree, index, written, copy, acked>> /\ commits' = commits + 1
           /\ Goto(h, "answer")
<1>1. j # None /\ j.step = "commit"
  BY DEF GitCommit, At
<1>2. TypeOK /\ j \in Job /\ j.path \in Paths /\ j.doc \in Doc /\ Wrote(j)
  BY <1>1, JobIsTyped DEF IInv, InStep
<1>3. \A q \in Paths \ {j.path} : index[q] = head[q]
  BY <1>1, <1>2, OthersAgree DEF Agree
<1>4. index[j.path] = j.doc
  BY <1>1, <1>2 DEF Wrote
<1>5. head' = [head EXCEPT ![j.path] = j.doc]
  BY <1>2, <1>3, <1>4 DEF GitCommit, TypeOK
<1> QED  BY <1>1, <1>2, <1>3, <1>4, <1>5 DEF GitCommit

LEMMA GitCommitInStep ==
    ASSUME IInv, InStep, OneWriter, NEW h \in Handlers, GitCommit(h)
    PROVE  InStep'
<1>1. PICK j : j = job[h]
  OBVIOUS
<1>2. /\ TypeOK /\ j \in Job /\ j # None /\ j.path \in Paths /\ j.doc \in Doc /\ j.step = "commit" /\ Wrote(j)
      /\ head' = [head EXCEPT ![j.path] = j.doc]
      /\ \A q \in Paths \ {j.path} : rev'[q] = rev[q]
      /\ rev'[j.path] = IF j.doc = head[j.path] THEN rev[j.path] ELSE commits + 1
      /\ UNCHANGED <<worktree, index>> /\ Goto(h, "answer")
  BY <1>1, CommitEffect
<1>3. PICK k : k = [j EXCEPT !.step = "answer"] /\ job' = [job EXCEPT ![h] = k]
  BY <1>1, <1>2 DEF Goto
<1>4. k \in Job /\ k.step = "answer" /\ k.path = j.path /\ k.doc = j.doc
  BY <1>2, <1>3 DEF Job, WriteSteps
<1>5. \A p \in Paths : head'[p] = IF p = j.path THEN j.doc ELSE head[p]
  BY <1>2 DEF TypeOK
<1>6. Wrote(k)' /\ Agree(k.path)'
  BY <1>2, <1>4, <1>5 DEF Wrote, LockSteps, Agree
<1>7. \A p \in Paths : head'[p] = None <=> rev'[p] = 0
  <2>1. j.doc # None /\ commits + 1 # 0
    BY <1>2, DocAssumption DEF TypeOK
  <2> QED  BY <1>2, <1>5, <2>1 DEF InStep
<1>8. UniqueIds'
  <2>1. \A q \in Paths \ {j.path} : head[q] # None => head[q].id # j.doc.id
    BY <1>2 DEF Wrote, LockSteps
  <2> QED  BY <1>5, <2>1 DEF InStep, UniqueIds
<1>9. \A p \in Paths \ {j.path} : worktree'[p] = worktree[p] /\ index'[p] = index[p] /\ head'[p] = head[p]
  BY <1>2, <1>5
<1>10. j.step # "get_rev" /\ k.step # "get_rev"
  BY <1>2, <1>4
<1> QED  BY <1>1, <1>2, <1>3, <1>4, <1>6, <1>7, <1>8, <1>9, <1>10, WriterInStep

LEMMA NextInStep ==
    ASSUME IInv, InStep, OneWriter, NothingFails, [Next]_vars
    PROVE  InStep'
<1>1. IInv'
  BY Inductive
<1>2. TypeOK /\ TypeOK'
  BY <1>1 DEF IInv
<1>3. ASSUME NEW h \in Handlers, Arrive(h)  PROVE InStep'
  BY <1>2, <1>3, ArriveInStep
<1>4. ASSUME NEW h \in Handlers, Advance(h)  PROVE InStep'
  <2>1. CASE ReadRev(h) \/ Answer(h)
    BY <1>2, <2>1, EndsInStep DEF ReadRev, Answer, At, LockSteps
  <2>2. CASE CheckId(h) \/ CheckRev(h) \/ CheckPrior(h)
    BY <1>2, <2>2, ChecksInStep
  <2>3. CASE Lock(h) \/ WriteText(h) \/ GitAdd(h)
    BY <1>1, <2>3, WritingInStep
  <2>4. CASE GitDiff(h) \/ GitCommit(h)
    BY <2>4, GitDiffInStep, GitCommitInStep
  <2>5. ~GitFails(h)
    BY DEF GitFails, NothingFails
  <2> QED  BY <1>4, <2>1, <2>2, <2>3, <2>4, <2>5 DEF Advance
<1>5. ~Restart
  BY DEF Restart, NothingFails
<1>6. CASE UNCHANGED vars
  <2>1. UNCHANGED <<worktree, index, head, rev, job>>
    BY <1>6 DEF vars
  <2> QED  BY <2>1 DEF InStep, Wrote, Agree, Locked, UniqueIds
<1> QED  BY <1>3, <1>4, <1>5, <1>6 DEF Next

\* HEAD changes by a commit.
LEMMA OnlyCommits ==
    ASSUME [Next]_vars
    PROVE  UNCHANGED <<head, rev, commits>> \/ \E h \in Handlers : GitCommit(h)
<1>1. ASSUME NEW h \in Handlers, Arrive(h)  PROVE UNCHANGED <<head, rev, commits>>
  BY <1>1 DEF Arrive, BeginRead, BeginCreate, BeginUpdate, BeginResave, Send, git
<1>2. ASSUME NEW h \in Handlers, Advance(h), ~GitCommit(h)  PROVE UNCHANGED <<head, rev, commits>>
  BY <1>2 DEF Advance, ReadRev, CheckId, CheckRev, CheckPrior, Refuse, Proceed, Lock, WriteText, GitAdd, GitDiff,
     GitFails, Answer, git
<1>3. Restart \/ UNCHANGED vars => UNCHANGED <<head, rev, commits>>
  BY DEF Restart, git, vars
<1> QED  BY <1>1, <1>2, <1>3 DEF Next

\* INV-ST-4, when one thread writes and nothing fails, however many read: the id of a
\* committed document does not change and is given to no other, though DocService.write
\* checks it before the lock is taken.
THEOREM IdsAreForGood == OneWriter /\ NothingFails => (Spec => IdsForGood)
<1> SUFFICES ASSUME OneWriter, NothingFails  PROVE Spec => IdsForGood
  OBVIOUS
<1>1. Init => IInv /\ InStep
  BY InitHolds, InitInStep
<1>2. IInv /\ InStep /\ [Next]_vars => IInv' /\ InStep'
  BY Inductive, NextInStep
<1>3. ASSUME IInv, InStep, [Next]_vars
      PROVE  \A p, q \in Paths : head[p] # None /\ head'[q] # None => (head'[q].id = head[p].id <=> p = q)
  <2>1. CASE UNCHANGED head
    BY <1>3, <2>1 DEF InStep, UniqueIds
  <2>2. CASE \E h \in Handlers : GitCommit(h)
    <3>1. PICK h \in Handlers : GitCommit(h)
      BY <2>2
    <3>2. PICK j : j = job[h]
      OBVIOUS
    <3>3. /\ head' = [head EXCEPT ![j.path] = j.doc] /\ Wrote(j) /\ j.step = "commit" /\ TypeOK
      BY <1>3, <3>1, <3>2, CommitEffect
    <3>4. \A p \in Paths : head'[p] = IF p = j.path THEN j.doc ELSE head[p]
      BY <3>3 DEF TypeOK
    <3>5. /\ \A q \in Paths \ {j.path} : head[q] # None => head[q].id # j.doc.id
          /\ head[j.path] # None => head[j.path].id = j.doc.id
      BY <3>3 DEF Wrote, LockSteps
    <3> QED  BY <1>3, <3>4, <3>5 DEF InStep, UniqueIds
  <2>3. UNCHANGED head \/ \E h \in Handlers : GitCommit(h)
    BY <1>3, OnlyCommits
  <2> QED  BY <2>1, <2>2, <2>3
<1>4. IInv /\ InStep /\ [Next]_vars =>
          [\A p, q \in Paths : head[p] # None /\ head'[q] # None => (head'[q].id = head[p].id <=> p = q)]_vars
  BY <1>3
<1> QED  BY <1>1, <1>2, <1>4, PTL DEF Spec, IdsForGood
-----------------------------------------------------------------------------
(* Editors' copies, when requests come one at a time. *)

LEMMA OneThreadWrites == OneThread => OneWriter
BY DEF OneThread, OneWriter

\* The others have nothing to do.
LEMMA Alone ==
    ASSUME TypeOK, InStep, OneThread, NEW h \in Handlers, Serves[h] # {}
    PROVE  \A g \in Handlers \ {h} : job[g] = None
<1> SUFFICES ASSUME NEW g \in Handlers \ {h}, job[g] # None  PROVE FALSE
  OBVIOUS
<1>1. PICK j : j = job[g]
  OBVIOUS
<1>2. Demand(j.step) \in Serves[g]
  BY <1>1, JobIsTyped DEF InStep
<1> QED  BY <1>2 DEF OneThread

LEMMA WriteIsServed ==
    ASSUME TypeOK, InStep, NEW h \in Handlers, job[h] # None
    PROVE  Serves[h] # {}
<1>1. PICK j : j = job[h]
  OBVIOUS
<1>2. Demand(j.step) \in Serves[h]
  BY <1>1, JobIsTyped DEF InStep
<1> QED  BY <1>2

\* No commit: a request goes on with k, and an editor may have been given a copy.
LEMMA CurrentStays ==
    ASSUME TypeOK, Current, NEW h \in Handlers, NEW k, job' = [job EXCEPT ![h] = k],
           UNCHANGED <<head, rev, commits>>,
           k # None => k \in Job /\ Knowing(k.path, k.doc, k.base_rev) /\ (k.step = "get_rev" => k.doc = head[k.path]),
           UNCHANGED copy \/ \E e \in Editors, c \in Copy :
                                 copy' = [copy EXCEPT ![e] = c] /\ Knowing(c.path, c.doc, c.rev)
    PROVE  Current'
<1>1. \A g \in Handlers : job'[g] = IF g = h THEN k ELSE job[g]
  BY DEF TypeOK
<1>2. ASSUME NEW g \in Handlers, NEW j \in Job, job'[g] = j
      PROVE  Knowing(j.path, j.doc, j.base_rev) /\ (j.step = "get_rev" => j.doc = head[j.path])
  BY <1>1, <1>2, DocAssumption DEF Current
<1>3. ASSUME NEW e \in Editors, NEW c \in Copy, copy'[e] = c
      PROVE  Knowing(c.path, c.doc, c.rev)
  <2>1. CASE UNCHANGED copy
    BY <1>3, <2>1 DEF Current
  <2>2. CASE \E d \in Editors, b \in Copy : copy' = [copy EXCEPT ![d] = b] /\ Knowing(b.path, b.doc, b.rev)
    BY <1>3, <2>2 DEF Current, TypeOK
  <2> QED  BY <2>1, <2>2
<1> QED  BY <1>2, <1>3 DEF Current, Knowing

LEMMA InitCurrent == ASSUME Init  PROVE Current
<1>1. (\A h \in Handlers, j \in Job : job[h] # j) /\ (\A e \in Editors, c \in Copy : copy[e] # c)
  BY DocAssumption DEF Init
<1> QED  BY <1>1 DEF Init, Current

LEMMA ArriveCurrent ==
    ASSUME IInv, IInv', InStep, Current, OneThread, NEW h \in Handlers, Arrive(h)
    PROVE  Current'
<1>1. TypeOK /\ UNCHANGED <<head, rev, commits, copy>>
  BY DEF IInv, Arrive, BeginRead, BeginCreate, BeginUpdate, BeginResave, Send, git
<1>2. commits \in Nat /\ \A p \in Paths : rev[p] \in 0..commits
  BY <1>1 DEF TypeOK
<1>3. CASE BeginRead(h)
  <2>1. PICK e \in Editors, id \in Ids, path \in Paths :
            /\ job[h] = None /\ "read" \in Serves[h]
            /\ Found(path, id)
            /\ job' = [job EXCEPT ![h] =
                [editor |-> e, step |-> "get_rev", path |-> path,
                 doc |-> worktree[path], base_rev |-> 0, current_rev |-> 0]]
    BY <1>3 DEF BeginRead
  <2>2. PICK k : k = [editor |-> e, step |-> "get_rev", path |-> path,
                      doc |-> worktree[path], base_rev |-> 0, current_rev |-> 0]
    OBVIOUS
  <2>3. job' = [job EXCEPT ![h] = k] /\ k.path = path /\ k.doc = worktree[path] /\ k.base_rev = 0
    BY <2>1, <2>2
  <2>4. worktree[path] = head[path] /\ head[path] # None
    <3>1. ~Locked(path)
      BY <1>1, <2>1, Alone DEF Locked
    <3>2. worktree[path] # None
      BY <2>1 DEF Found, Holding, Parsed
    <3> QED  BY <3>1, <3>2 DEF InStep, Agree
  <2>5. k # None => k \in Job
    <3>1. k = job'[h]
      BY <1>1, <2>3 DEF TypeOK
    <3> QED  BY <3>1 DEF IInv, TypeOK
  <2>6. Knowing(k.path, k.doc, k.base_rev)
    BY <1>2, <2>3, <2>4 DEF Current, Knowing
  <2> QED  BY <1>1, <2>3, <2>4, <2>5, <2>6, CurrentStays
<1>4. CASE BeginCreate(h) \/ BeginUpdate(h) \/ BeginResave(h)
  <2>1. PICK e, path, doc, base : Send(h, e, path, doc, base) /\ Knowing(path, doc, base)
    <3>1. CASE BeginCreate(h)
      <4>1. PICK e \in Editors, path \in Paths, id \in Ids : Send(h, e, path, Edited(id, {}), 0)
        BY <3>1 DEF BeginCreate
      <4>2. Knowing(path, Edited(id, {}), 0)
        BY <1>2 DEF Knowing, Edited
      <4> QED  BY <4>1, <4>2
    <3>2. CASE BeginUpdate(h)
      <4>1. PICK e \in Editors, id \in Ids :
                copy[e] # None /\ Send(h, e, copy[e].path, Edited(id, copy[e].doc.has), copy[e].rev)
        BY <3>2 DEF BeginUpdate
      <4>2. PICK c \in Copy : c = copy[e]
        BY <1>1, <4>1 DEF TypeOK
      <4>3. Knowing(c.path, c.doc, c.rev)
        BY <4>2 DEF Current
      <4>4. Knowing(c.path, Edited(id, c.doc.has), c.rev)
        BY <4>3 DEF Knowing, Edited
      <4> QED  BY <4>1, <4>2, <4>4
    <3>3. CASE BeginResave(h)
      <4>1. PICK e \in Editors : copy[e] # None /\ Send(h, e, copy[e].path, copy[e].doc, copy[e].rev)
        BY <3>3 DEF BeginResave
      <4>2. PICK c \in Copy : c = copy[e]
        BY <1>1, <4>1 DEF TypeOK
      <4>3. Knowing(c.path, c.doc, c.rev)
        BY <4>2 DEF Current
      <4> QED  BY <4>1, <4>2, <4>3
    <3> QED  BY <1>4, <3>1, <3>2, <3>3
  <2>2. PICK k : k = [editor |-> e, step |-> "id", path |-> path, doc |-> doc,
                      base_rev |-> base, current_rev |-> 0]
    OBVIOUS
  <2>3. job' = [job EXCEPT ![h] = k]
    BY <2>1, <2>2 DEF Send
  <2>4. k.path = path /\ k.doc = doc /\ k.base_rev = base /\ k.step = "id"
    BY <2>2
  <2>5. k # None => k \in Job
    <3>1. k = job'[h]
      BY <1>1, <2>3 DEF TypeOK
    <3> QED  BY <3>1 DEF IInv, TypeOK
  <2> QED  BY <1>1, <2>1, <2>3, <2>4, <2>5, CurrentStays
<1> QED  BY <1>3, <1>4 DEF Arrive

\* The end of a read, and the answer to a write.
LEMMA AnsweredCurrent ==
    ASSUME IInv, InStep, Current, NEW h \in Handlers, ReadRev(h) \/ Answer(h)
    PROVE  Current'
<1>1. PICK j : j = job[h]
  OBVIOUS
<1>2. /\ j # None /\ j.step \in {"get_rev", "answer"} /\ UNCHANGED <<head, rev, commits>> /\ Finish(h)
      /\ copy' = [copy EXCEPT ![j.editor] = [path |-> j.path, doc |-> j.doc, rev |-> rev[j.path]]]
  BY <1>1 DEF ReadRev, Answer, At, git
<1>3. TypeOK /\ j \in Job /\ j.path \in Paths /\ j.doc \in Doc /\ j.editor \in Editors /\ Wrote(j)
  BY <1>1, <1>2, JobIsTyped DEF IInv, InStep
<1>4. PICK c : c = [path |-> j.path, doc |-> j.doc, rev |-> rev[j.path]]
  OBVIOUS
<1>5. rev[j.path] \in 0..commits /\ commits \in Nat /\ j.doc # None
  BY <1>3, DocAssumption DEF TypeOK
<1>6. c \in Copy /\ copy' = [copy EXCEPT ![j.editor] = c] /\ c.path = j.path /\ c.doc = j.doc /\ c.rev = rev[j.path]
  BY <1>2, <1>3, <1>4, <1>5 DEF Copy
<1>7. j.doc = head[j.path]
  BY <1>1, <1>2, <1>3 DEF Wrote, Current
<1>8. Knowing(c.path, c.doc, c.rev)
  BY <1>3, <1>5, <1>6, <1>7 DEF Current, Knowing
<1>9. PICK k : k = None /\ job' = [job EXCEPT ![h] = k]
  BY <1>2 DEF Finish
<1> QED  BY <1>2, <1>3, <1>6, <1>8, <1>9, CurrentStays

\* The checks and the steps in the lock but the commit.
LEMMA AdvanceCurrent ==
    ASSUME IInv, IInv', InStep, Current, NEW h \in Handlers,
           CheckId(h) \/ CheckRev(h) \/ CheckPrior(h) \/ Lock(h) \/ WriteText(h) \/ GitAdd(h) \/ GitDiff(h)
    PROVE  Current'
<1>1. PICK j : j = job[h]
  OBVIOUS
<1>2. j # None /\ j.step \in {"id", "rev", "prior", "lock", "write", "add", "diff"}
      /\ UNCHANGED <<head, rev, commits, copy>>
  BY <1>1 DEF CheckId, CheckRev, CheckPrior, Refuse, Proceed, Lock, WriteText, GitAdd, GitDiff, At, git
<1>3. TypeOK /\ j \in Job
  BY <1>1, <1>2, JobIsTyped DEF IInv
<1>4. PICK k : /\ job' = [job EXCEPT ![h] = k]
               /\ k # None => k.path = j.path /\ k.doc = j.doc /\ k.base_rev = j.base_rev /\ k.step # "get_rev"
  <2>1. CASE CheckRev(h)
    <3>1. PICK step : step = (IF rev[j.path] = 0 THEN "lock" ELSE "prior")
      OBVIOUS
    <3>2. PICK k : k = [j EXCEPT !.current_rev = rev[j.path], !.step = step]
      OBVIOUS
    <3>3. job' = [job EXCEPT ![h].current_rev = rev[j.path], ![h].step = step]
      BY <1>1, <2>1, <3>1 DEF CheckRev
    <3>4. job' = [job EXCEPT ![h] = k]
      BY <1>1, <3>2, <3>3
    <3>5. k.path = j.path /\ k.doc = j.doc /\ k.base_rev = j.base_rev /\ k.step = step
      BY <1>3, <3>2 DEF Job
    <3> QED  BY <3>1, <3>4, <3>5
  <2>2. CASE \E step \in WriteSteps : Goto(h, step)
    <3>1. PICK step \in WriteSteps : Goto(h, step)
      BY <2>2
    <3>2. PICK k : k = [j EXCEPT !.step = step] /\ job' = [job EXCEPT ![h] = k]
      BY <1>1, <3>1 DEF Goto
    <3>3. k.path = j.path /\ k.doc = j.doc /\ k.base_rev = j.base_rev /\ k.step = step
      BY <1>3, <3>2 DEF Job
    <3> QED  BY <3>2, <3>3 DEF WriteSteps
  <2>3. CASE Finish(h)
    BY <2>3 DEF Finish
  <2> QED  BY <2>1, <2>2, <2>3 DEF CheckId, CheckPrior, Refuse, Proceed, Lock, WriteText, GitAdd, GitDiff, WriteSteps
<1>5. k # None => k \in Job
  <2>1. k = job'[h]
    BY <1>3, <1>4 DEF TypeOK
  <2> QED  BY <2>1 DEF IInv, TypeOK
<1>6. Knowing(j.path, j.doc, j.base_rev)
  BY <1>1, <1>3 DEF Current
<1> QED  BY <1>2, <1>3, <1>4, <1>5, <1>6, CurrentStays

\* A commit is based on what it replaces, and makes every older revision stale.
LEMMA GitCommitCurrent ==
    ASSUME IInv, IInv', InStep, Current, OneThread, NEW h \in Handlers, GitCommit(h),
           NEW j, j = job[h]
    PROVE  Current' /\ (head[j.path] # None => head[j.path].ver \in j.doc.has)
<1>1. /\ TypeOK /\ j \in Job /\ j # None /\ j.path \in Paths /\ j.doc \in Doc /\ j.step = "commit" /\ Wrote(j)
      /\ head' = [head EXCEPT ![j.path] = j.doc]
      /\ \A q \in Paths \ {j.path} : rev'[q] = rev[q]
      /\ rev'[j.path] = IF j.doc = head[j.path] THEN rev[j.path] ELSE commits + 1
      /\ copy' = copy /\ commits' = commits + 1 /\ Goto(h, "answer")
  BY OneThreadWrites, CommitEffect
<1>2. Knowing(j.path, j.doc, j.base_rev)
  BY <1>1 DEF Current
<1>3. head[j.path] # None => head[j.path].ver \in j.doc.has
  <2>1. head[j.path] # None => j.base_rev = rev[j.path] /\ rev[j.path] # 0
    BY <1>1 DEF Wrote, LockSteps, InStep
  <2>2. rev[j.path] \in Nat
    BY <1>1 DEF TypeOK
  <2> QED  BY <1>2, <2>1, <2>2 DEF Knowing
<1>4. \A p \in Paths : head'[p] = IF p = j.path THEN j.doc ELSE head[p]
  BY <1>1 DEF TypeOK
<1>5. commits \in Nat /\ \A p \in Paths : rev'[p] \in {rev[p], commits + 1} /\ (rev'[p] = rev[p] => head'[p] = head[p])
  <2>1. commits \in Nat /\ rev[j.path] \in 0..commits
    BY <1>1 DEF TypeOK
  <2>2. rev[j.path] # commits + 1
    BY <2>1
  <2> QED  BY <1>1, <1>4, <2>1, <2>2
<1>6. ASSUME NEW p \in Paths, NEW d, NEW r \in Nat, Knowing(p, d, r)
      PROVE  Knowing(p, d, r)'
  <2>1. d.ver \in d.has /\ r <= commits /\ (r = rev[p] /\ r > 0 => head[p].ver \in d.has)
    BY <1>6 DEF Knowing
  <2>2. r <= commits' /\ r # commits + 1
    BY <1>1, <1>5, <2>1
  <2>3. r = rev'[p] => r = rev[p] /\ head'[p] = head[p]
    BY <1>5, <2>2
  <2> QED  BY <2>1, <2>2, <2>3 DEF Knowing
<1>7. PICK k : k = [j EXCEPT !.step = "answer"] /\ job' = [job EXCEPT ![h] = k]
  BY <1>1 DEF Goto
<1>8. k \in Job /\ k.step = "answer" /\ k.path = j.path /\ k.doc = j.doc /\ k.base_rev = j.base_rev
  BY <1>1, <1>7 DEF Job, WriteSteps
<1>9. \A g \in Handlers : job'[g] = IF g = h THEN k ELSE None
  <2>1. \A g \in Handlers \ {h} : job[g] = None
    BY <1>1, Alone, WriteIsServed
  <2> QED  BY <1>1, <1>7, <2>1 DEF TypeOK
<1>10. ASSUME NEW g \in Handlers, NEW i \in Job, job'[g] = i
       PROVE  Knowing(i.path, i.doc, i.base_rev)' /\ i.step # "get_rev"
  <2>1. i = k
    BY <1>9, <1>10, DocAssumption
  <2>2. k.base_rev \in Nat
    BY <1>8 DEF Job
  <2>3. Knowing(k.path, k.doc, k.base_rev)
    BY <1>2, <1>8
  <2> QED  BY <1>1, <1>6, <1>8, <2>1, <2>2, <2>3
<1>11. ASSUME NEW e \in Editors, NEW c \in Copy, copy'[e] = c
       PROVE  Knowing(c.path, c.doc, c.rev)'
  <2>1. Knowing(c.path, c.doc, c.rev) /\ c.path \in Paths /\ c.rev \in Nat
    BY <1>1, <1>11 DEF Current, Copy
  <2> QED  BY <1>6, <2>1
<1>12. \A p \in Paths : head'[p] # None => head'[p].ver \in head'[p].has
  BY <1>2, <1>4 DEF Current, Knowing
<1> QED  BY <1>3, <1>10, <1>11, <1>12 DEF Current

LEMMA NextCurrent ==
    ASSUME IInv, InStep, Current, OneThread, NothingFails, [Next]_vars
    PROVE  Current'
<1>1. IInv'
  BY Inductive
<1>2. ASSUME NEW h \in Handlers, Arrive(h)  PROVE Current'
  BY <1>1, <1>2, ArriveCurrent
<1>3. ASSUME NEW h \in Handlers, Advance(h)  PROVE Current'
  <2>1. CASE ReadRev(h) \/ Answer(h)
    BY <2>1, AnsweredCurrent
  <2>2. CASE GitCommit(h)
    BY <1>1, <2>2, GitCommitCurrent
  <2>3. ~GitFails(h)
    BY DEF GitFails, NothingFails
  <2> QED  BY <1>1, <1>3, <2>1, <2>2, <2>3, AdvanceCurrent DEF Advance
<1>4. ~Restart
  BY DEF Restart, NothingFails
<1>5. CASE UNCHANGED vars
  <2>1. UNCHANGED <<head, rev, commits, copy, job>>
    BY <1>5 DEF vars
  <2> QED  BY <2>1 DEF Current, Knowing
<1> QED  BY <1>2, <1>3, <1>4, <1>5 DEF Next

LEMMA CurrentStart == OneThread /\ NothingFails /\ Init => IInv /\ InStep /\ Current
BY InitHolds, InitInStep, InitCurrent

LEMMA CurrentStep ==
    OneThread /\ NothingFails /\ IInv /\ InStep /\ Current /\ [Next]_vars => IInv' /\ InStep' /\ Current'
BY Inductive, NextInStep, NextCurrent, OneThreadWrites

\* INV-ST-6, when requests come one at a time and nothing fails: whoever holds the
\* current revision of a document, from a read or from the answer to its own write,
\* has its current content.
THEOREM RevisionMeansContent == OneThread /\ NothingFails => (Spec => []RevMeansContent)
<1> SUFFICES ASSUME OneThread, NothingFails  PROVE Spec => []RevMeansContent
  OBVIOUS
<1>1. Init => IInv /\ InStep /\ Current
  BY CurrentStart
<1>2. IInv /\ InStep /\ Current /\ [Next]_vars => IInv' /\ InStep' /\ Current'
  BY CurrentStep
<1>3. IInv /\ Current => RevMeansContent
  <2> SUFFICES ASSUME IInv, Current, NEW e \in Editors, copy[e] # None,
                      copy[e].rev = rev[copy[e].path], rev[copy[e].path] > 0
               PROVE  head[copy[e].path].ver \in copy[e].doc.has
    BY DEF RevMeansContent
  <2>1. PICK c \in Copy : c = copy[e]
    BY DEF IInv, TypeOK
  <2>2. Knowing(c.path, c.doc, c.rev)
    BY <2>1 DEF Current
  <2> QED  BY <2>1, <2>2 DEF Knowing
<1> QED  BY <1>1, <1>2, <1>3, PTL DEF Spec

\* INV-ST-6, under the same conditions: no commit replaces a document by one made
\* without knowledge of it, whether or not it was reported as saved.
THEOREM NothingIsLost == OneThread /\ NothingFails => (Spec => NoLostUpdate)
<1> SUFFICES ASSUME OneThread, NothingFails  PROVE Spec => NoLostUpdate
  OBVIOUS
<1>1. Init => IInv /\ InStep /\ Current
  BY CurrentStart
<1>2. IInv /\ InStep /\ Current /\ [Next]_vars => IInv' /\ InStep' /\ Current'
  BY CurrentStep
<1>3. ASSUME IInv, InStep, Current, [Next]_vars
      PROVE  \A p \in Paths : head[p] # None /\ head[p].ver \in acked /\ head'[p] # head[p]
                                  => head[p].ver \in head'[p].has
  <2>1. CASE UNCHANGED head
    BY <2>1
  <2>2. CASE \E h \in Handlers : GitCommit(h)
    <3>1. PICK h \in Handlers : GitCommit(h)
      BY <2>2
    <3>2. PICK j : j = job[h]
      OBVIOUS
    <3>3. head' = [head EXCEPT ![j.path] = j.doc] /\ TypeOK
      BY <1>3, <3>1, <3>2, CommitEffect, OneThreadWrites
    <3>4. head[j.path] # None => head[j.path].ver \in j.doc.has
      BY <1>3, <3>1, <3>2, Inductive, GitCommitCurrent
    <3> QED  BY <3>3, <3>4 DEF TypeOK
  <2> QED  BY <1>3, <2>1, <2>2, OnlyCommits
<1>4. IInv /\ InStep /\ Current /\ [Next]_vars =>
          [\A p \in Paths : head[p] # None /\ head[p].ver \in acked /\ head'[p] # head[p]
                                => head[p].ver \in head'[p].has]_vars
  BY <1>3
<1> QED  BY <1>1, <1>2, <1>4, PTL DEF Spec, NoLostUpdate
=============================================================================
