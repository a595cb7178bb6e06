-------------------------- MODULE TicketRepoProofs --------------------------
(***************************************************************************)
(* What a put of the ticket repository promises, for any number of         *)
(* threads, tickets and files.                                             *)
(***************************************************************************)
EXTENDS TicketRepo, FiniteSetTheorems, TLAPS

NumberedStores == {"comment", "attachment"}

\* Two puts under way are of different stores, and so of different files.
Exclusive ==
    \A g, h \in Handlers :
        job[g] # None /\ job[h] # None /\ job[g].store = job[h].store => g = h

\* A put writes files of its own store; only attachments come with the rule.
OwnFiles ==
    \A h \in Handlers : job[h] # None =>
        /\ \/ job[h].file.kind = job[h].store
           \/ job[h].store = "attachment" /\ job[h].file.kind = "rule"
        /\ job[h].rest # None =>
               job[h].store = "attachment" /\ job[h].file.kind = "rule"
                 /\ job[h].rest.file.kind = "attachment"

\* The files numbered below f are there.
OnTop(f) == \A i \in 1..(f.n - 1) : worktree[Numbered(f.kind, f.of, i)] # None

\* A numbered file being put is new: nobody was told of it yet, and it is not
\* there before it is truncated, and has the next number.
NewFiles ==
    \A h \in Handlers : job[h] # None =>
        /\ job[h].file.kind \in NumberedStores =>
              /\ acked[job[h].file] = None
              /\ job[h].step = "truncate" => worktree[job[h].file] = None /\ OnTop(job[h].file)
              /\ job[h].step = "write" => worktree[job[h].file] = Torn
        /\ job[h].rest # None =>
              /\ acked[job[h].rest.file] = None /\ worktree[job[h].rest.file] = None
              /\ OnTop(job[h].rest.file)

\* What a put has done to its file by the time it comes to git.
Progress ==
    \A h \in Handlers : job[h] # None =>
        /\ job[h].step \in {"add", "diff", "commit"}
              => worktree[job[h].file] = job[h].content
        /\ job[h].step \in {"diff", "commit"}
              => index[job[h].file] = job[h].content

\* The numbers of a directory are used from one on, without gaps.
Contiguous ==
    \A store \in NumberedStores, t \in TicketIds :
        \E k \in 0..MaxFiles : \A i \in 1..MaxFiles :
            worktree[Numbered(store, t, i)] # None <=> i <= k

\* What was reported to a caller is on disk, staged and committed.
Kept ==
    \A f \in File : acked[f] # None =>
        /\ index[f] # None
        /\ head[f] # None
        /\ f.kind \in NumberedStores =>
              worktree[f] = acked[f] /\ index[f] = acked[f] /\ head[f] = acked[f]

\* What is committed is still staged: git add only ever adds.
Staged == \A f \in File : head[f] # None => index[f] # None

IInv ==
    /\ TypeOK /\ Exclusive /\ OwnFiles /\ NewFiles
    /\ Progress /\ Contiguous /\ Kept /\ Staged
-----------------------------------------------------------------------------
(* Files. *)

LEMMA TicketFileIsFile ==
    ASSUME NEW t \in TicketIds
    PROVE  TicketFile(t) \in File /\ TicketFile(t).kind = "ticket"
BY DEF File, TicketFile

LEMMA NumberedIsFile ==
    ASSUME NEW store \in NumberedStores, NEW t \in TicketIds, NEW i \in 1..MaxFiles
    PROVE  Numbered(store, t, i) \in File /\ Numbered(store, t, i).kind = store
BY DEF File, Numbered, NumberedStores

LEMMA RuleIsFile == GitAttributes \in File /\ GitAttributes.kind = "rule"
BY DEF File, GitAttributes

LEMMA FileKinds ==
    ASSUME NEW f \in File
    PROVE  /\ f.kind \in {"ticket", "comment", "attachment", "rule"}
           /\ f.kind \in NumberedStores =>
                 \E t \in TicketIds, i \in 1..MaxFiles : f = Numbered(f.kind, t, i)
BY DEF File, TicketFile, Numbered, GitAttributes, NumberedStores

\* The glob over a directory without gaps counts up to its last number.
LEMMA ListingSize ==
    ASSUME NEW store \in NumberedStores, NEW t \in TicketIds, NEW k \in 0..MaxFiles,
           \A i \in 1..MaxFiles : worktree[Numbered(store, t, i)] # None <=> i <= k
    PROVE  Cardinality(Listing(store, t)) = k
<1> USE RepoAssumption
<1>1. Listing(store, t) = {Numbered(store, t, i) : i \in 1..k}
  <2>1. ASSUME NEW f \in Listing(store, t)
        PROVE  f \in {Numbered(store, t, i) : i \in 1..k}
    <3>1. f \in File /\ f.kind = store /\ f.of = t /\ worktree[f] # None
      BY DEF Listing
    <3>2. PICK u \in TicketIds, i \in 1..MaxFiles : f = Numbered(f.kind, u, i)
      BY <3>1, FileKinds
    <3>3. f = Numbered(store, t, i)
      BY <3>1, <3>2 DEF Numbered
    <3> QED  BY <3>1, <3>3
  <2>2. ASSUME NEW i \in 1..k
        PROVE  Numbered(store, t, i) \in Listing(store, t)
    <3>1. i \in 1..MaxFiles
      OBVIOUS
    <3>2. worktree[Numbered(store, t, i)] # None
      BY <3>1
    <3>3. Numbered(store, t, i) \in File
      BY <3>1, NumberedIsFile
    <3> QED  BY <3>2, <3>3 DEF Listing, Numbered
  <2> QED  BY <2>1, <2>2
<1> DEFINE name == [i \in 1..k |-> Numbered(store, t, i)]
<1>2. name \in Bijection(1..k, Listing(store, t))
  <2>1. name \in [1..k -> Listing(store, t)]
    BY <1>1
  <2>2. ASSUME NEW i \in 1..k, NEW j \in 1..k, name[i] = name[j]
        PROVE  i = j
    <3>1. Numbered(store, t, i) = Numbered(store, t, j)
      BY <2>2
    <3> QED  BY <3>1 DEF Numbered
  <2>3. \A f \in Listing(store, t) : \E i \in 1..k : name[i] = f
    BY <1>1
  <2> HIDE DEF name
  <2> QED  BY <2>1, <2>2, <2>3, Zenon DEF Bijection, Injection, Surjection, IsInjective
<1>3. IsFiniteSet(1..k) /\ Cardinality(1..k) = k
  BY FS_Interval
<1> HIDE DEF name
<1>4. ExistsBijection(1..k, Listing(store, t))
  BY <1>2 DEF ExistsBijection
<1> QED  BY <1>3, <1>4, FS_Bijection

\* The file a comment or an attachment goes to does not exist yet.
LEMMA NextFileIsNew ==
    ASSUME TypeOK, Contiguous, NEW store \in NumberedStores, NEW t \in TicketIds,
           Cardinality(Listing(store, t)) < MaxFiles
    PROVE  /\ NextFile(store, t) \in File
           /\ NextFile(store, t).kind = store
           /\ worktree[NextFile(store, t)] = None
           /\ OnTop(NextFile(store, t))
<1>1. PICK k \in 0..MaxFiles :
          \A i \in 1..MaxFiles : worktree[Numbered(store, t, i)] # None <=> i <= k
  BY DEF Contiguous
<1>2. Cardinality(Listing(store, t)) = k
  BY <1>1, ListingSize
<1>3. k + 1 \in 1..MaxFiles
  BY <1>2, RepoAssumption
<1>4. worktree[Numbered(store, t, k + 1)] = None
  BY <1>1, <1>3
<1>5. OnTop(Numbered(store, t, k + 1))
  <2> SUFFICES ASSUME NEW i \in 1..k
               PROVE  worktree[Numbered(store, t, i)] # None
    BY DEF OnTop, Numbered
  <2> QED  BY <1>1, RepoAssumption
<1> QED  BY <1>2, <1>3, <1>4, <1>5, NumberedIsFile DEF NextFile
\* Room among both kinds of files is room for one of each.
LEMMA RoomForEach ==
    ASSUME Contiguous, NEW t \in TicketIds, Room(t), NEW store \in NumberedStores
    PROVE  Cardinality(Listing(store, t)) < MaxFiles
<1>1. \A s \in NumberedStores : Cardinality(Listing(s, t)) \in Nat
  <2> SUFFICES ASSUME NEW s \in NumberedStores PROVE Cardinality(Listing(s, t)) \in Nat
    OBVIOUS
  <2>1. PICK k \in 0..MaxFiles :
            \A i \in 1..MaxFiles : worktree[Numbered(s, t, i)] # None <=> i <= k
    BY DEF Contiguous
  <2>2. Cardinality(Listing(s, t)) = k
    BY <2>1, ListingSize
  <2> QED  BY <2>2, RepoAssumption
<1>2. /\ Cardinality(Listing("comment", t)) \in Nat
      /\ Cardinality(Listing("attachment", t)) \in Nat
  BY <1>1 DEF NumberedStores
<1>3. store = "comment" \/ store = "attachment"
  BY DEF NumberedStores
<1> QED  BY <1>2, <1>3, RepoAssumption DEF Room
-----------------------------------------------------------------------------
(* How a step changes the jobs. *)

LEMMA JobIsTyped ==
    ASSUME TypeOK, NEW h \in Handlers, job[h] # None
    PROVE  job[h] \in Job
BY DEF TypeOK

LEMMA GotoMoves ==
    ASSUME TypeOK, NEW h \in Handlers, job[h] # None, NEW step \in Steps, Goto(h, step)
    PROVE  /\ job' \in [Handlers -> Job \cup {None}]
           /\ job'[h] # None
           /\ job'[h].step = step
           /\ job'[h].store = job[h].store
           /\ job'[h].file = job[h].file
           /\ job'[h].content = job[h].content
           /\ job'[h].rest = job[h].rest
           /\ \A g \in Handlers : g # h => job'[g] = job[g]
<1>1. job[h] \in Job
  BY JobIsTyped
<1> DEFINE moved == [job[h] EXCEPT !.step = step]
<1>2. /\ moved \in Job /\ moved.step = step /\ moved.store = job[h].store
      /\ moved.file = job[h].file /\ moved.content = job[h].content
      /\ moved.rest = job[h].rest
  BY <1>1 DEF Job
<1>3. moved # None
  BY <1>2, RepoAssumption
<1>4. job' = [job EXCEPT ![h] = moved]
  BY DEF Goto
<1> HIDE DEF moved
<1>5. job \in [Handlers -> Job \cup {None}]
  BY DEF TypeOK
<1> QED  BY <1>2, <1>3, <1>4, <1>5

\* Replacing one thread's job by a new one.
LEMMA JobReplaced ==
    ASSUME TypeOK, NEW h \in Handlers, NEW j \in Job \cup {None},
           job' = [job EXCEPT ![h] = j]
    PROVE  /\ job' \in [Handlers -> Job \cup {None}]
           /\ job'[h] = j
           /\ \A g \in Handlers : g # h => job'[g] = job[g]
BY DEF TypeOK

LEMMA StoreKinds ==
    ASSUME OwnFiles, TypeOK, Exclusive, NEW g \in Handlers, NEW h \in Handlers,
           job[g] # None, job[h] # None, g # h
    PROVE  /\ job[g].file # job[h].file
           /\ job[g].rest # None => job[g].rest.file # job[h].file
<1>1. job[g].store # job[h].store
  BY DEF Exclusive
<1>2. job[g] \in Job /\ job[h] \in Job
  BY JobIsTyped
<1>3. job[g].store \in Stores /\ job[h].store \in Stores
  BY <1>2 DEF Job
<1>4. /\ \/ job[g].file.kind = job[g].store
         \/ job[g].store = "attachment" /\ job[g].file.kind = "rule"
      /\ job[g].rest # None => job[g].store = "attachment" /\ job[g].rest.file.kind = "attachment"
  BY DEF OwnFiles
<1>5. \/ job[h].file.kind = job[h].store
      \/ job[h].store = "attachment" /\ job[h].file.kind = "rule"
  BY DEF OwnFiles
<1> QED  BY <1>1, <1>3, <1>4, <1>5 DEF Stores
-----------------------------------------------------------------------------
(* The invariant, action by action. *)

LEMMA BeginKeeps ==
    ASSUME IInv, NEW h \in Handlers, NEW store \in Stores,
           NEW file \in File, NEW content \in Content, NEW rest \in Write \cup {None},
           Begin(h, store, file, content, rest),
           \/ file.kind = store
           \/ store = "attachment" /\ file.kind = "rule",
           file.kind \in NumberedStores => worktree[file] = None /\ OnTop(file),
           rest # None => /\ store = "attachment" /\ file.kind = "rule"
                          /\ rest.file.kind = "attachment"
                          /\ worktree[rest.file] = None /\ OnTop(rest.file)
    PROVE  IInv'
<1> DEFINE j == [store |-> store, step |-> "truncate", file |-> file,
                 content |-> content, rest |-> rest]
<1>1. /\ j \in Job /\ j.store = store /\ j.step = "truncate" /\ j.file = file
      /\ j.content = content /\ j.rest = rest
  BY DEF Job, Steps
<1>2. j # None
  BY <1>1, RepoAssumption
<1>3. /\ job[h] = None
      /\ \A g \in Handlers : job[g] # None => job[g].store # store
      /\ job' = [job EXCEPT ![h] = j]
      /\ UNCHANGED <<worktree, index, head, latest, acked>>
  BY DEF Begin, Free
<1> HIDE DEF j
<1>4. TypeOK
  BY DEF IInv
<1>5. /\ job' \in [Handlers -> Job \cup {None}]
      /\ job'[h] = j
      /\ \A g \in Handlers : g # h => job'[g] = job[g]
  BY <1>1, <1>3, <1>4, JobReplaced
<1>6. \A f \in File : f.kind \in NumberedStores /\ worktree[f] = None => acked[f] = None
  BY DEF IInv, Kept
<1>7. TypeOK'
  BY <1>3, <1>4, <1>5 DEF TypeOK
<1>8. Exclusive'
  BY <1>1, <1>3, <1>5 DEF IInv, Exclusive
<1>9. OwnFiles'
  BY <1>1, <1>3, <1>5 DEF IInv, OwnFiles
<1>10. NewFiles'
  <2>1. file.kind \in NumberedStores => acked[file] = None
    BY <1>6
  <2>2. rest # None => rest.file \in File
    BY DEF Write
  <2>3. rest # None => acked[rest.file] = None
    BY <1>6, <2>2 DEF NumberedStores
  <2>4. \A f : OnTop(f)' <=> OnTop(f)
    BY <1>3 DEF OnTop
  <2> QED  BY <1>1, <1>3, <1>5, <2>1, <2>3, <2>4 DEF IInv, NewFiles
<1>11. Progress'
  BY <1>1, <1>3, <1>5 DEF IInv, Progress
<1>12. Contiguous' /\ Kept' /\ Staged'
  BY <1>3 DEF IInv, Contiguous, Kept, Staged
<1> QED  BY <1>7, <1>8, <1>9, <1>10, <1>11, <1>12 DEF IInv

\* Puts that fail, and a restart, only take jobs away.
LEMMA DroppingKeeps ==
    ASSUME IInv, UNCHANGED <<worktree, index, head, latest, acked>>,
           job' \in [Handlers -> Job \cup {None}],
           \A g \in Handlers : job'[g] = job[g] \/ job'[g] = None
    PROVE  IInv'
<1>1. TypeOK'
  BY DEF IInv, TypeOK
<1>2. Exclusive'
  BY DEF IInv, Exclusive
<1>3. OwnFiles'
  BY DEF IInv, OwnFiles
<1>4. NewFiles'
  BY DEF IInv, NewFiles, OnTop
<1>5. Progress'
  BY DEF IInv, Progress
<1>6. Contiguous' /\ Kept' /\ Staged'
  BY DEF IInv, Contiguous, Kept, Staged
<1> QED  BY <1>1, <1>2, <1>3, <1>4, <1>5, <1>6 DEF IInv

\* A write to the work tree: of h's own file, which is none of the others'.
LEMMA WritingKeeps ==
    ASSUME IInv, NEW h \in Handlers, job[h] # None,
           NEW what \in Content \cup {Torn}, NEW step \in Steps,
           worktree' = [worktree EXCEPT ![job[h].file] = what],
           Goto(h, step),
           UNCHANGED <<index, head, latest, acked>>,
           \/ job[h].step = "truncate" /\ step = "write" /\ what = Torn
           \/ job[h].step = "write" /\ step = "add" /\ what = job[h].content
    PROVE  IInv'
<1>1. TypeOK
  BY DEF IInv
<1>2. /\ job' \in [Handlers -> Job \cup {None}]
      /\ job'[h] # None /\ job'[h].step = step
      /\ job'[h].store = job[h].store /\ job'[h].file = job[h].file
      /\ job'[h].content = job[h].content /\ job'[h].rest = job[h].rest
      /\ \A g \in Handlers : g # h => job'[g] = job[g]
  BY <1>1, GotoMoves
<1>3. job[h] \in Job
  BY <1>1, JobIsTyped
<1> DEFINE mine == job[h].file
           OnTopNext(f) == \A i \in 1..(f.n - 1) : worktree'[Numbered(f.kind, f.of, i)] # None
<1>4. mine \in File
  BY <1>3 DEF Job
<1>5. worktree \in [File -> Content \cup {Torn, None}]
  BY <1>1 DEF TypeOK, Tree
<1>6. /\ worktree' \in [File -> Content \cup {Torn, None}]
      /\ worktree'[mine] = what
      /\ \A f \in File : f # mine => worktree'[f] = worktree[f]
  BY <1>4, <1>5
<1>7. what # None
  BY RepoAssumption
<1> HIDE DEF mine
<1>8. \A f \in File : worktree[f] # None => worktree'[f] # None
  BY <1>6, <1>7
<1>9. mine.kind \in NumberedStores =>
         /\ acked[mine] = None
         /\ job[h].step = "truncate" => worktree[mine] = None /\ OnTop(mine)
         /\ job[h].step = "write" => worktree[mine] = Torn
  BY DEF IInv, NewFiles, mine
<1>10. \A f \in File : OnTop(f) => OnTopNext(f)
  <2> SUFFICES ASSUME NEW f \in File, OnTop(f), NEW i \in 1..(f.n - 1)
               PROVE  worktree'[Numbered(f.kind, f.of, i)] # None
    BY DEF OnTop
  <2>1. worktree[Numbered(f.kind, f.of, i)] # None
    BY DEF OnTop
  <2>2. CASE f.kind \in NumberedStores
    <3>1. PICK t \in TicketIds, m \in 1..MaxFiles : f = Numbered(f.kind, t, m)
      BY <2>2, FileKinds
    <3>2. f.of = t /\ f.n = m
      BY <3>1 DEF Numbered
    <3>3. i \in 1..MaxFiles
      BY <3>2, RepoAssumption
    <3>4. Numbered(f.kind, f.of, i) \in File
      BY <2>2, <3>2, <3>3, NumberedIsFile
    <3> QED  BY <1>8, <2>1, <3>4
  <2>3. CASE f.kind \notin NumberedStores
    <3>1. f.n = 0
      BY <2>3 DEF File, TicketFile, Numbered, GitAttributes, NumberedStores
    <3> QED  BY <3>1
  <2> QED  BY <2>2, <2>3
<1> HIDE DEF OnTopNext
<1>11. TypeOK'
  BY <1>1, <1>2, <1>6 DEF TypeOK, Tree
<1>12. Exclusive'
  BY <1>2 DEF IInv, Exclusive
<1>13. OwnFiles'
  BY <1>2 DEF IInv, OwnFiles
<1>14. \A g \in Handlers : job[g] # None /\ g # h =>
          job[g].file # mine /\ (job[g].rest # None => job[g].rest.file # mine)
  BY StoreKinds DEF IInv, mine
<1>15. \A g \in Handlers : job[g] # None =>
          job[g].file \in File /\ (job[g].rest # None => job[g].rest.file \in File)
  BY <1>1, JobIsTyped DEF Job, Write
<1>16. job[h].rest # None => job[h].rest.file # mine
  BY DEF IInv, OwnFiles, mine
<1>17. NewFiles'
  <2> SUFFICES ASSUME NEW g \in Handlers, job'[g] # None
               PROVE  /\ job'[g].file.kind \in NumberedStores =>
                            /\ acked'[job'[g].file] = None
                            /\ job'[g].step = "truncate" =>
                                  worktree'[job'[g].file] = None /\ OnTopNext(job'[g].file)
                            /\ job'[g].step = "write" => worktree'[job'[g].file] = Torn
                      /\ job'[g].rest # None =>
                            /\ acked'[job'[g].rest.file] = None
                            /\ worktree'[job'[g].rest.file] = None
                            /\ OnTopNext(job'[g].rest.file)
    BY DEF NewFiles, OnTop, OnTopNext
  <2>1. CASE g = h
    <3>1. job'[h].file.kind \in NumberedStores =>
             /\ acked'[job'[h].file] = None
             /\ job'[h].step # "truncate"
             /\ job'[h].step = "write" => worktree'[job'[h].file] = Torn
      BY <1>2, <1>6, <1>9 DEF mine
    <3>2. job[h].rest # None =>
             acked[job[h].rest.file] = None /\ worktree[job[h].rest.file] = None
               /\ OnTop(job[h].rest.file)
      BY DEF IInv, NewFiles
    <3>3. job'[h].rest # None =>
             acked'[job'[h].rest.file] = None /\ worktree'[job'[h].rest.file] = None
               /\ OnTopNext(job'[h].rest.file)
      BY <1>2, <1>6, <1>10, <1>15, <1>16, <3>2
    <3> QED  BY <2>1, <3>1, <3>3
  <2>2. CASE g # h
    <3>1. job'[g] = job[g] /\ job[g] # None
      BY <1>2, <2>2
    <3>2. /\ job[g].file \in File /\ job[g].file # mine
          /\ job[g].rest # None => job[g].rest.file \in File /\ job[g].rest.file # mine
      BY <1>14, <1>15, <2>2, <3>1
    <3>3. /\ job[g].file.kind \in NumberedStores =>
                /\ acked[job[g].file] = None
                /\ job[g].step = "truncate" =>
                      worktree[job[g].file] = None /\ OnTop(job[g].file)
                /\ job[g].step = "write" => worktree[job[g].file] = Torn
          /\ job[g].rest # None =>
                acked[job[g].rest.file] = None /\ worktree[job[g].rest.file] = None
                  /\ OnTop(job[g].rest.file)
      BY <3>1 DEF IInv, NewFiles
    <3> QED  BY <1>6, <1>10, <3>1, <3>2, <3>3
  <2> QED  BY <2>1, <2>2
<1>18. Progress'
  <2>1. ASSUME NEW g \in Handlers, g # h, job'[g] # None
        PROVE  /\ job'[g].step \in {"add", "diff", "commit"}
                    => worktree'[job'[g].file] = job'[g].content
               /\ job'[g].step \in {"diff", "commit"}
                    => index'[job'[g].file] = job'[g].content
    BY <1>2, <1>6, <1>14, <1>15, <2>1 DEF IInv, Progress
  <2>2. /\ job'[h].step \in {"add", "diff", "commit"}
             => worktree'[job'[h].file] = job'[h].content
        /\ job'[h].step \notin {"diff", "commit"}
    BY <1>2, <1>6 DEF mine
  <2> QED  BY <2>1, <2>2 DEF Progress
<1>19. Contiguous'
  <2> SUFFICES ASSUME NEW store \in NumberedStores, NEW t \in TicketIds
               PROVE  \E k \in 0..MaxFiles : \A i \in 1..MaxFiles :
                         worktree'[Numbered(store, t, i)] # None <=> i <= k
    BY DEF Contiguous
  <2>1. PICK k \in 0..MaxFiles : \A i \in 1..MaxFiles :
            worktree[Numbered(store, t, i)] # None <=> i <= k
    BY DEF IInv, Contiguous
  <2>2. CASE \E i \in 1..MaxFiles :
                mine = Numbered(store, t, i) /\ worktree[mine] = None
    <3>1. PICK m \in 1..MaxFiles : mine = Numbered(store, t, m) /\ worktree[mine] = None
      BY <2>2
    <3>2. mine.kind = store /\ mine.of = t /\ mine.n = m
      BY <3>1 DEF Numbered
    <3>3. OnTop(mine)
      BY <1>9, <3>1, <3>2, RepoAssumption DEF Torn
    <3>4. \A i \in 1..(m - 1) : worktree[Numbered(store, t, i)] # None
      BY <3>2, <3>3 DEF OnTop
    <3>5. m = k + 1
      <4>1. m > k
        BY <2>1, <3>1, RepoAssumption
      <4>2. m - 1 <= k
        <5>1. CASE m = 1
          BY <5>1
        <5>2. CASE m # 1
          <6>1. m - 1 \in 1..(m - 1) /\ m - 1 \in 1..MaxFiles
            BY <5>2, RepoAssumption
          <6> QED  BY <2>1, <3>4, <6>1
        <5> QED  BY <5>1, <5>2
      <4> QED  BY <4>1, <4>2, RepoAssumption
    <3>6. \A i \in 1..MaxFiles : worktree'[Numbered(store, t, i)] # None <=> i <= k + 1
      <4> SUFFICES ASSUME NEW i \in 1..MaxFiles
                   PROVE  worktree'[Numbered(store, t, i)] # None <=> i <= k + 1
        OBVIOUS
      <4>1. CASE i = m
        BY <1>6, <1>7, <3>1, <3>5, <4>1, RepoAssumption
      <4>2. CASE i # m
        <5>1. Numbered(store, t, i) # mine
          BY <3>2, <4>2 DEF Numbered
        <5>2. worktree'[Numbered(store, t, i)] = worktree[Numbered(store, t, i)]
          BY <1>6, <5>1, NumberedIsFile
        <5> QED  BY <2>1, <3>5, <4>2, <5>2, RepoAssumption
      <4> QED  BY <4>1, <4>2
    <3> QED  BY <3>5, <3>6, RepoAssumption
  <2>3. CASE \A i \in 1..MaxFiles :
                mine = Numbered(store, t, i) => worktree[mine] # None
    <3>1. \A i \in 1..MaxFiles :
             worktree'[Numbered(store, t, i)] # None
               <=> worktree[Numbered(store, t, i)] # None
      BY <1>6, <1>7, <2>3, NumberedIsFile
    <3> QED  BY <2>1, <3>1
  <2> QED  BY <2>2, <2>3
<1>20. Kept'
  <2> SUFFICES ASSUME NEW f \in File, acked[f] # None
               PROVE  /\ index[f] # None /\ head[f] # None
                      /\ f.kind \in NumberedStores =>
                            worktree'[f] = acked[f] /\ index[f] = acked[f] /\ head[f] = acked[f]
    BY DEF Kept
  <2>1. /\ index[f] # None /\ head[f] # None
        /\ f.kind \in NumberedStores =>
              worktree[f] = acked[f] /\ index[f] = acked[f] /\ head[f] = acked[f]
    BY DEF IInv, Kept
  <2>2. f.kind \in NumberedStores => f # mine
    BY <1>9
  <2> QED  BY <1>6, <2>1, <2>2
<1>21. Staged'
  BY DEF IInv, Staged
<1> QED  BY <1>11, <1>12, <1>13, <1>17, <1>18, <1>19, <1>20, <1>21 DEF IInv

\* git add stages what the put wrote.
LEMMA AddingKeeps ==
    ASSUME IInv, NEW h \in Handlers, GitAdd(h)
    PROVE  IInv'
<1>1. TypeOK
  BY DEF IInv
<1>2. job[h] # None /\ job[h].step = "add" /\ Goto(h, "diff")
      /\ UNCHANGED <<worktree, head, latest, acked>>
  BY DEF GitAdd, At
<1>3. /\ job' \in [Handlers -> Job \cup {None}]
      /\ job'[h] # None /\ job'[h].step = "diff"
      /\ job'[h].store = job[h].store /\ job'[h].file = job[h].file
      /\ job'[h].content = job[h].content /\ job'[h].rest = job[h].rest
      /\ \A g \in Handlers : g # h => job'[g] = job[g]
  BY <1>1, <1>2, GotoMoves DEF Steps
<1>4. job[h] \in Job /\ job[h].file \in File /\ job[h].content \in Content
  BY <1>1, <1>2, JobIsTyped DEF Job
<1>5. worktree[job[h].file] = job[h].content
  BY <1>2 DEF IInv, Progress
<1>6. /\ index' \in [File -> Content \cup {None}]
      /\ index'[job[h].file] = job[h].content
      /\ \A f \in File : f # job[h].file => index'[f] = index[f]
  BY <1>1, <1>4, <1>5 DEF GitAdd, TypeOK
<1>7. TypeOK'
  BY <1>1, <1>2, <1>3, <1>6 DEF TypeOK
<1>8. Exclusive' /\ OwnFiles'
  <2>1. Exclusive'
    BY <1>2, <1>3 DEF IInv, Exclusive
  <2>2. OwnFiles'
    BY <1>2, <1>3 DEF IInv, OwnFiles
  <2> QED  BY <2>1, <2>2
<1>9. NewFiles'
  BY <1>2, <1>3 DEF IInv, NewFiles, OnTop
<1>10. Progress'
  <2>1. ASSUME NEW g \in Handlers, g # h, job'[g] # None
        PROVE  /\ job'[g].step \in {"add", "diff", "commit"}
                    => worktree'[job'[g].file] = job'[g].content
               /\ job'[g].step \in {"diff", "commit"}
                    => index'[job'[g].file] = job'[g].content
    <3>1. job'[g] = job[g] /\ job[g] # None
      BY <1>3, <2>1
    <3>2. job[g].file # job[h].file
      BY <1>2, <2>1, <3>1, StoreKinds DEF IInv
    <3>3. job[g].file \in File
      BY <1>1, <3>1, JobIsTyped DEF Job
    <3> QED  BY <1>2, <1>6, <3>1, <3>2, <3>3 DEF IInv, Progress
  <2>2. worktree'[job'[h].file] = job'[h].content /\ index'[job'[h].file] = job'[h].content
    BY <1>2, <1>3, <1>5, <1>6
  <2> QED  BY <2>1, <2>2 DEF Progress
<1>11. Contiguous'
  BY <1>2 DEF IInv, Contiguous
<1>12. Kept'
  <2> SUFFICES ASSUME NEW f \in File, acked[f] # None
               PROVE  /\ index'[f] # None /\ head[f] # None
                      /\ f.kind \in NumberedStores =>
                            worktree[f] = acked[f] /\ index'[f] = acked[f] /\ head[f] = acked[f]
    BY <1>2 DEF Kept
  <2>1. /\ index[f] # None /\ head[f] # None
        /\ f.kind \in NumberedStores =>
              worktree[f] = acked[f] /\ index[f] = acked[f] /\ head[f] = acked[f]
    BY DEF IInv, Kept
  <2>2. job[h].content # None
    BY <1>4, RepoAssumption
  <2>3. f.kind \in NumberedStores => f # job[h].file
    BY <1>2 DEF IInv, NewFiles
  <2> QED  BY <1>6, <2>1, <2>2, <2>3
<1>13. Staged'
  <2>1. job[h].content # None
    BY <1>4, RepoAssumption
  <2> QED  BY <1>2, <1>6, <2>1 DEF IInv, Staged
<1> QED  BY <1>7, <1>8, <1>9, <1>10, <1>11, <1>12, <1>13 DEF IInv

\* git diff finds something staged.
LEMMA GoingToCommitKeeps ==
    ASSUME IInv, NEW h \in Handlers, At(h, "diff"), Goto(h, "commit"),
           UNCHANGED <<worktree, index, head, latest, acked>>
    PROVE  IInv'
<1>1. TypeOK /\ job[h] # None /\ job[h].step = "diff"
  BY DEF IInv, At
<1>2. /\ job' \in [Handlers -> Job \cup {None}]
      /\ job'[h] # None /\ job'[h].step = "commit"
      /\ job'[h].store = job[h].store /\ job'[h].file = job[h].file
      /\ job'[h].content = job[h].content /\ job'[h].rest = job[h].rest
      /\ \A g \in Handlers : g # h => job'[g] = job[g]
  BY <1>1, GotoMoves DEF Steps
<1>3. TypeOK'
  BY <1>1, <1>2 DEF TypeOK
<1>4. Exclusive' /\ OwnFiles'
  <2>1. Exclusive'
    BY <1>1, <1>2 DEF IInv, Exclusive
  <2>2. OwnFiles'
    BY <1>1, <1>2 DEF IInv, OwnFiles
  <2> QED  BY <2>1, <2>2
<1>5. NewFiles'
  BY <1>1, <1>2 DEF IInv, NewFiles, OnTop
<1>6. Progress'
  BY <1>1, <1>2 DEF IInv, Progress
<1>7. Contiguous' /\ Kept' /\ Staged'
  BY DEF IInv, Contiguous, Kept, Staged
<1> QED  BY <1>3, <1>4, <1>5, <1>6, <1>7 DEF IInv

\* commit_paths returns with everything staged in HEAD.
LEMMA ReturningKeeps ==
    ASSUME IInv, NEW h \in Handlers, job[h] # None, job[h].step \in {"diff", "commit"},
           Return(h), UNCHANGED <<worktree, index>>, head' = index,
           latest' \in [changed : SUBSET Content, behalf : Humans \cup {None}] \cup {None}
    PROVE  IInv' /\ \A f \in File : acked'[f] # acked[f] => head'[f] = acked'[f]
<1>1. TypeOK
  BY DEF IInv
<1>2. job[h] \in Job /\ job[h].file \in File /\ job[h].content \in Content
  BY <1>1, JobIsTyped DEF Job
<1>3. worktree[job[h].file] = job[h].content /\ index[job[h].file] = job[h].content
  BY DEF IInv, Progress
<1>4. Contiguous' /\ Staged'
  BY DEF IInv, Contiguous, Staged
<1>5. CASE job[h].rest # None
  <2>1. job[h].rest \in Write /\ job[h].store = "attachment"
    BY <1>2, <1>5 DEF Job, IInv, OwnFiles
  <2> DEFINE j == [store |-> job[h].store, step |-> "truncate",
                   file |-> job[h].rest.file, content |-> job[h].rest.content,
                   rest |-> None]
  <2>2. /\ j \in Job /\ j.store = "attachment" /\ j.step = "truncate"
        /\ j.file = job[h].rest.file /\ j.content = job[h].rest.content /\ j.rest = None
    BY <1>2, <2>1 DEF Job, Write, Steps
  <2>3. j # None
    BY <2>2, RepoAssumption
  <2>4. job' = [job EXCEPT ![h] = j] /\ acked' = acked
    BY <1>5 DEF Return
  <2> HIDE DEF j
  <2>5. /\ job' \in [Handlers -> Job \cup {None}]
        /\ job'[h] = j
        /\ \A g \in Handlers : g # h => job'[g] = job[g]
    BY <1>1, <2>2, <2>4, JobReplaced
  <2>6. TypeOK'
    BY <1>1, <2>4, <2>5 DEF TypeOK
  <2>7. Exclusive'
    BY <2>1, <2>2, <2>5 DEF IInv, Exclusive
  <2>8. j.file.kind = "attachment"
    BY <1>5, <2>2 DEF IInv, OwnFiles
  <2>9. OwnFiles'
    BY <2>2, <2>5, <2>8 DEF IInv, OwnFiles
  <2>10. acked[j.file] = None /\ worktree[j.file] = None /\ OnTop(j.file)
    BY <1>5, <2>2 DEF IInv, NewFiles
  <2>11. NewFiles'
    BY <2>2, <2>4, <2>5, <2>10 DEF IInv, NewFiles, OnTop
  <2>12. Progress'
    BY <2>2, <2>5 DEF IInv, Progress
  <2>13. Kept'
    BY <2>4 DEF IInv, Kept
  <2> QED  BY <1>4, <2>4, <2>6, <2>7, <2>9, <2>11, <2>12, <2>13 DEF IInv
<1>6. CASE job[h].rest = None
  <2>1. /\ job' = [job EXCEPT ![h] = None]
        /\ acked' = [acked EXCEPT ![job[h].file] = job[h].content]
    BY <1>6 DEF Return
  <2>2. /\ job' \in [Handlers -> Job \cup {None}]
        /\ job'[h] = None
        /\ \A g \in Handlers : g # h => job'[g] = job[g]
    BY <1>1, <2>1, JobReplaced
  <2>3. /\ acked' \in [File -> Content \cup {None}]
        /\ acked'[job[h].file] = job[h].content
        /\ \A f \in File : f # job[h].file => acked'[f] = acked[f]
    BY <1>1, <1>2, <2>1 DEF TypeOK
  <2>4. TypeOK'
    BY <1>1, <2>2, <2>3 DEF TypeOK
  <2>5. Exclusive' /\ OwnFiles'
    BY <2>2 DEF IInv, Exclusive, OwnFiles
  <2>6. NewFiles'
    <3> SUFFICES ASSUME NEW g \in Handlers, g # h, job[g] # None
                 PROVE  /\ job[g].file.kind \in NumberedStores =>
                              /\ acked'[job[g].file] = None
                              /\ job[g].step = "truncate" =>
                                    worktree[job[g].file] = None /\ OnTop(job[g].file)
                              /\ job[g].step = "write" => worktree[job[g].file] = Torn
                        /\ job[g].rest # None =>
                              /\ acked'[job[g].rest.file] = None
                              /\ worktree[job[g].rest.file] = None
                              /\ OnTop(job[g].rest.file)
      BY <2>2 DEF NewFiles, OnTop
    <3>1. /\ job[g].file # job[h].file
          /\ job[g].rest # None => job[g].rest.file # job[h].file
      BY StoreKinds DEF IInv
    <3>2. job[g].file \in File /\ (job[g].rest # None => job[g].rest.file \in File)
      BY <1>1, JobIsTyped DEF Job, Write
    <3> QED  BY <2>3, <3>1, <3>2 DEF IInv, NewFiles
  <2>7. Progress'
    BY <2>2 DEF IInv, Progress
  <2>8. Kept'
    <3> SUFFICES ASSUME NEW f \in File, acked'[f] # None
                 PROVE  /\ index[f] # None
                        /\ f.kind \in NumberedStores =>
                              worktree[f] = acked'[f] /\ index[f] = acked'[f]
      BY DEF Kept
    <3>1. CASE f = job[h].file
      BY <1>2, <1>3, <2>3, <3>1, RepoAssumption
    <3>2. CASE f # job[h].file
      BY <2>3, <3>2 DEF IInv, Kept
    <3> QED  BY <3>1, <3>2
  <2>9. \A f \in File : acked'[f] # acked[f] => head'[f] = acked'[f]
    BY <1>3, <2>3
  <2> QED  BY <1>4, <2>4, <2>5, <2>6, <2>7, <2>8, <2>9 DEF IInv
<1> QED  BY <1>5, <1>6
-----------------------------------------------------------------------------
(* The theorems. *)

LEMMA InitHolds == Init => IInv
<1> SUFFICES ASSUME Init PROVE IInv
  OBVIOUS
<1> USE RepoAssumption DEF Init
<1>1. TypeOK
  BY DEF TypeOK, Tree
<1>2. Exclusive /\ OwnFiles /\ NewFiles /\ Progress
  BY DEF Exclusive, OwnFiles, NewFiles, Progress
<1>3. Contiguous
  <2> SUFFICES ASSUME NEW store \in NumberedStores, NEW t \in TicketIds
               PROVE  \A i \in 1..MaxFiles : worktree[Numbered(store, t, i)] # None <=> i <= 0
    BY DEF Contiguous
  <2> QED  BY NumberedIsFile
<1>4. Kept /\ Staged
  BY DEF Kept, Staged
<1> QED  BY <1>1, <1>2, <1>3, <1>4 DEF IInv

\* What a step of a put does to acked, besides keeping the invariant.
LEMMA AdvanceHolds ==
    ASSUME IInv, NEW h \in Handlers, Advance(h)
    PROVE  /\ IInv'
           /\ \A f \in File : acked'[f] # acked[f] => head'[f] = acked'[f]
<1>1. CASE Truncate(h)
  <2>1. IInv'
    BY <1>1, WritingKeeps DEF Truncate, At, Steps
  <2> QED  BY <1>1, <2>1 DEF Truncate
<1>2. CASE WriteText(h)
  <2>1. job[h] # None /\ job[h].content \in Content
    BY <1>2, JobIsTyped DEF IInv, WriteText, At, Job
  <2>2. IInv'
    BY <1>2, <2>1, WritingKeeps DEF WriteText, At, Steps
  <2> QED  BY <1>2, <2>2 DEF WriteText
<1>3. CASE GitAdd(h)
  BY <1>3, AddingKeeps DEF GitAdd
<1>4. CASE GitDiff(h)
  <2>1. job[h] # None /\ job[h].step = "diff" /\ UNCHANGED <<worktree, index, head, latest>>
    BY <1>4 DEF GitDiff, At
  <2>2. CASE index = head /\ Return(h)
    <3>1. latest' \in [changed : SUBSET Content, behalf : Humans \cup {None}] \cup {None}
      BY <2>1 DEF IInv, TypeOK
    <3> QED  BY <2>1, <2>2, <3>1, ReturningKeeps
  <2>3. CASE Goto(h, "commit") /\ UNCHANGED acked
    BY <1>4, <2>1, <2>3, GoingToCommitKeeps DEF GitDiff
  <2> QED  BY <1>4, <2>2, <2>3 DEF GitDiff
<1>5. CASE GitCommit(h)
  <2>1. /\ job[h] # None /\ job[h].step = "commit" /\ Return(h)
        /\ UNCHANGED <<worktree, index>> /\ head' = index
    BY <1>5 DEF GitCommit, At
  <2>2. job[h].content.behalf \in Humans \cup {None}
    BY <2>1, JobIsTyped DEF IInv, Job, Content
  <2>3. \A f \in File : index[f] \in Content \cup {None}
    BY DEF IInv, TypeOK
  <2>4. \A f \in File : index[f] # head[f] => index[f] \in Content
    <3> SUFFICES ASSUME NEW f \in File, index[f] = None
                 PROVE  head[f] = None
      BY <2>3
    <3> QED  BY DEF IInv, Staged
  <2> QED  BY <1>5, <2>1, <2>2, <2>4, ReturningKeeps DEF GitCommit
<1>6. CASE NothingToCommit(h) \/ GitFails(h)
  <2>1. Fail(h)
    BY <1>6 DEF NothingToCommit, GitFails
  <2>2. /\ job' \in [Handlers -> Job \cup {None}]
        /\ \A g \in Handlers : job'[g] = job[g] \/ job'[g] = None
    BY <2>1 DEF Fail, IInv, TypeOK
  <2> QED  BY <2>1, <2>2, DroppingKeeps DEF Fail
<1> QED  BY <1>1, <1>2, <1>3, <1>4, <1>5, <1>6 DEF Advance

\* What a store's files say are texts.
LEMMA SaysTexts == \A store \in Stores : Says[store] \subseteq Texts
BY RepoAssumption

LEMMA ArriveHolds ==
    ASSUME IInv, NEW h \in Handlers, Arrive(h)
    PROVE  IInv' /\ UNCHANGED <<worktree, index, head, latest, acked>>
<1>1. CASE BeginTicket(h)
  <2>1. PICK t \in TicketIds, requester \in Humans, text \in Says["ticket"] :
            Begin(h, "ticket", TicketFile(t), [behalf |-> requester, text |-> text], None)
    BY <1>1 DEF BeginTicket
  <2>2. [behalf |-> requester, text |-> text] \in Content
    BY SaysTexts DEF Content, Stores
  <2>3. IInv'
    BY <2>1, <2>2, BeginKeeps, TicketFileIsFile DEF Stores, NumberedStores
  <2> QED  BY <2>1, <2>3 DEF Begin
<1>2. CASE BeginComment(h)
  <2>1. PICK t \in TicketIds, author \in Humans, text \in Says["comment"] :
            /\ Room(t)
            /\ Begin(h, "comment", NextFile("comment", t),
                     [behalf |-> author, text |-> text], None)
    BY <1>2 DEF BeginComment
  <2>2. [behalf |-> author, text |-> text] \in Content
    BY SaysTexts DEF Content, Stores
  <2>3. /\ NextFile("comment", t) \in File /\ NextFile("comment", t).kind = "comment"
        /\ worktree[NextFile("comment", t)] = None /\ OnTop(NextFile("comment", t))
    BY <2>1, NextFileIsNew, RoomForEach DEF IInv, NumberedStores
  <2>4. IInv'
    BY <2>1, <2>2, <2>3, BeginKeeps DEF Stores
  <2> QED  BY <2>1, <2>4 DEF Begin
<1>3. CASE BeginAttachment(h)
  <2>1. PICK t \in TicketIds, text \in Says["attachment"] :
            /\ Room(t)
            /\ \/ Begin(h, "attachment", NextFile("attachment", t),
                        [behalf |-> None, text |-> text], None)
               \/ Begin(h, "attachment", GitAttributes, LfsRule,
                        [file |-> NextFile("attachment", t),
                         content |-> [behalf |-> None, text |-> text]])
    BY <1>3 DEF BeginAttachment
  <2> DEFINE content == [behalf |-> None, text |-> text]
             file == NextFile("attachment", t)
             rest == [file |-> file, content |-> content]
  <2>2. content \in Content /\ LfsRule \in Content
    BY SaysTexts DEF Content, LfsRule, Stores
  <2>3. file \in File /\ file.kind = "attachment" /\ worktree[file] = None /\ OnTop(file)
    BY <2>1, NextFileIsNew, RoomForEach DEF IInv, NumberedStores
  <2>4. rest \in Write /\ rest.file = file
    BY <2>2, <2>3 DEF Write
  <2>5. /\ "attachment" \in Stores
        /\ \/ Begin(h, "attachment", file, content, None)
           \/ Begin(h, "attachment", GitAttributes, LfsRule, rest)
    BY <2>1 DEF Stores
  <2> HIDE DEF content, file, rest
  <2>6. IInv'
    <3>1. CASE Begin(h, "attachment", file, content, None)
      BY <2>2, <2>3, <2>5, <3>1, BeginKeeps
    <3>2. CASE Begin(h, "attachment", GitAttributes, LfsRule, rest)
      <4>1. GitAttributes \in File /\ GitAttributes.kind = "rule"
               /\ GitAttributes.kind \notin NumberedStores
        BY RuleIsFile DEF NumberedStores
      <4> QED  BY <2>2, <2>3, <2>4, <2>5, <3>2, <4>1, BeginKeeps
    <3> QED  BY <2>5, <3>1, <3>2
  <2> QED  BY <2>5, <2>6 DEF Begin
<1> QED  BY <1>1, <1>2, <1>3 DEF Arrive

LEMMA NextHolds ==
    ASSUME IInv, [Next]_vars
    PROVE  /\ IInv'
           /\ \A f \in File : acked'[f] # acked[f] => head'[f] = acked'[f]
<1>1. CASE UNCHANGED vars
  <2>1. job' \in [Handlers -> Job \cup {None}]
    BY <1>1 DEF vars, IInv, TypeOK
  <2> QED  BY <1>1, <2>1, DroppingKeeps DEF vars
<1>2. CASE Restart
  <2>1. job' \in [Handlers -> Job \cup {None}]
    BY <1>2 DEF Restart
  <2> QED  BY <1>2, <2>1, DroppingKeeps DEF Restart
<1>3. ASSUME NEW h \in Handlers, Arrive(h) \/ Advance(h)
      PROVE  /\ IInv'
             /\ \A f \in File : acked'[f] # acked[f] => head'[f] = acked'[f]
  BY <1>3, ArriveHolds, AdvanceHolds
<1> QED  BY <1>1, <1>2, <1>3 DEF Next

THEOREM Invariance == Spec => []IInv
<1>1. IInv /\ [Next]_vars => IInv'
  BY NextHolds
<1> QED  BY InitHolds, <1>1, PTL DEF Spec

\* The work tree, the index, HEAD and every put under way have their types; in
\* particular no truncated file is ever staged or committed.
THEOREM TypeCorrect == Spec => []TypeOK
<1>1. IInv => TypeOK
  BY DEF IInv
<1> QED  BY Invariance, <1>1, PTL

\* A put that returns has its content in HEAD, for any number of threads.
THEOREM ReturnsAreCommitted == Spec => ReturnsCommitted
<1>1. IInv /\ [Next]_vars
        => [\A f \in File : acked'[f] # acked[f] => head'[f] = acked'[f]]_vars
  BY NextHolds
<1> QED  BY Invariance, <1>1, PTL DEF Spec, ReturnsCommitted

\* What a caller was told is stored stays in HEAD.
THEOREM AckedStaysCommitted == Spec => []AckedIsCommitted
<1>1. IInv => AckedIsCommitted
  BY DEF IInv, Kept, AckedIsCommitted, NumberedStores
<1> QED  BY Invariance, <1>1, PTL

\* No put, failure or restart rewrites a comment or an attachment.
THEOREM ThreadsAppendOnly == Spec => AppendOnly
<1>1. ASSUME IInv, [Next]_vars, NEW f \in File,
             f.kind \in {"comment", "attachment"}, worktree[f] \in Content
      PROVE  worktree'[f] = worktree[f]
  <2>1. worktree[f] # None /\ worktree[f] # Torn
    BY <1>1, RepoAssumption DEF Content, Torn
  <2>2. ASSUME NEW h \in Handlers, Truncate(h) \/ WriteText(h)
        PROVE  worktree'[f] = worktree[f]
    <3>1. job[h] # None /\ job[h].step \in {"truncate", "write"}
      BY <2>2 DEF Truncate, WriteText, At
    <3>2. job[h].file # f
      BY <1>1, <2>1, <3>1 DEF IInv, NewFiles, NumberedStores
    <3>3. worktree \in [File -> Content \cup {Torn, None}]
      BY <1>1 DEF IInv, TypeOK, Tree
    <3> QED  BY <2>2, <3>2, <3>3 DEF Truncate, WriteText
  <2>3. ASSUME NEW h \in Handlers, Advance(h), ~Truncate(h), ~WriteText(h)
        PROVE  worktree' = worktree
    BY <2>3 DEF Advance, GitAdd, GitDiff, GitCommit, NothingToCommit, GitFails, Fail
  <2>4. ASSUME NEW h \in Handlers, Arrive(h)
        PROVE  worktree' = worktree
    BY <1>1, <2>4, ArriveHolds
  <2> QED  BY <1>1, <2>2, <2>3, <2>4 DEF Next, Restart, vars
<1>2. IInv /\ [Next]_vars
        => [\A f \in File :
               f.kind \in {"comment", "attachment"} /\ worktree[f] \in Content
                   => worktree'[f] = worktree[f]]_vars
  BY <1>1
<1> QED  BY Invariance, <1>2, PTL DEF Spec, AppendOnly
=============================================================================
