------------------------- MODULE SearchIndexProofs -------------------------
(***************************************************************************)
(* The type invariant of SearchIndex for any number of threads, and what   *)
(* one request at a time guarantees: answered webhooks are not undone, and *)
(* the index holds each resource once and as written.                      *)
(***************************************************************************)
EXTENDS SearchIndex, FiniteSetTheorems, TLAPS

PopSteps == {"pop_main", "pop_sensitive", "place"}
SearchSteps == {"list_main", "list_sensitive", "answer"}

\* What is still to be written of truncated files fits into the bound on changes.
Counted == IsFiniteSet(torn) /\ changes + Cardinality(torn) <= scenario.changes

\* No version and no moment is later than the last change.
Dated ==
    /\ covers <= changes
    /\ \A i \in Ids : source[i] # None => source[i].ver <= changes

\* i is the next of the resources j has still to do.
HeadOf(j, i) == i \in j.todo /\ \A k \in j.todo : i <= k

\* The steps of each route.
Formed(j) ==
    \/ j.route = "search" /\ j.step \in SearchSteps
    \/ j.route = "reindex" /\ j.step \in Steps \ SearchSteps
    \/ j.route = "index_event" /\ j.step \in PopSteps /\ \E i \in Ids : j.todo = {i}

\* A version read is not later than the one there is, and no two texts share one.
Read(j) ==
    \A i \in Ids : j.seen[i] # None =>
        /\ j.seen[i].ver <= changes
        /\ source[i] # None => source[i].ver > j.seen[i].ver \/ source[i] = j.seen[i]

\* What a request of thread h looks like: it has read what it is about to place.
WellFormed(h, j) ==
    /\ scenario.serves[h] # {}
    /\ j.began <= changes
    /\ Formed(j)
    /\ j.step \in PopSteps => \A i \in Ids : HeadOf(j, i) => j.seen[i] # None
    /\ j.route # "search" => Read(j)

JobsFormed == \A h \in Handlers : job[h] # None => WellFormed(h, job[h])

Inv == TypeOK /\ Counted /\ Dated /\ JobsFormed
-----------------------------------------------------------------------------
(* One request at a time. *)

\* What was reported was written, and is what there is or older.
Reported ==
    \A i \in Ids : reported[i] <= changes /\ (source[i] # None => source[i].ver >= reported[i])

\* Each partition holds what belongs there, and a resource is in one of them.
Parted ==
    \A i \in Ids :
        /\ main[i] = None \/ sensitive[i] = None
        /\ main[i] # None => ~main[i].sensitive /\ main[i].ver >= reported[i]
        /\ sensitive[i] # None => sensitive[i].sensitive /\ sensitive[i].ver >= reported[i]

\* What a request holds in its variables and is about to place is not older either;
\* the prior copies are gone when it does; a search holds what the partitions held.
Holding(j) ==
    \A i \in Ids :
        /\ j.route # "search" /\ j.seen[i] # None => j.seen[i].ver >= reported[i]
        /\ j.step \in {"pop_sensitive", "place"} /\ HeadOf(j, i) => main[i] = None
        /\ j.step = "place" /\ HeadOf(j, i) => sensitive[i] = None
        /\ j.step = "list_sensitive" => j.seen[i] = main[i]
        /\ j.step = "answer" => j.seen[i] = None \/ j.listed[i] = None

\* i has not been written since j began.
Unwritten(j, i) == i \notin torn /\ source[i] # None /\ source[i].ver <= j.began

\* j has read i.
HasRead(j, i) ==
    IF j.route = "reindex" THEN j.step # "read" \/ i \notin j.todo ELSE i \in j.todo

Rebuilding(j) == j.route = "reindex" /\ j.step \notin {"read", "clear_main"}

\* A maintaining request has read what has not been written since, and a rebuild has
\* placed what it has done.
Maintaining(j) ==
    j.route # "search" =>
        /\ j.step = "stamp" => j.todo = {}
        /\ j.step \in {"clear_main", "clear_sensitive"} => j.todo = Ids
        /\ covers <= j.began
        /\ \A i \in Ids :
               /\ Unwritten(j, i) /\ HasRead(j, i) => j.seen[i] = source[i]
               /\ j.route = "reindex" => reported[i] <= j.began
               /\ Rebuilding(j) /\ Unwritten(j, i) /\ i \notin j.todo => InPlace(i)

\* j is about to change the entry of i.
Disturbs(j, i) == Rebuilding(j) \/ (j.route = "index_event" /\ i \in j.todo)

Undisturbed(i) == \A h \in Handlers : job[h] # None => ~Disturbs(job[h], i)

Answered(i) ==
    i \notin torn /\ source[i] # None /\ source[i].ver \in 1..covers \cup {reported[i]}

\* What was covered or reported is in place, also while others are worked on.
StillCovered == \A i \in Ids : Answered(i) /\ Undisturbed(i) => InPlace(i)

JobsHold == \A h \in Handlers : job[h] # None => Holding(job[h]) /\ Maintaining(job[h])

Serial == Reported /\ Parted /\ JobsHold /\ StillCovered

SerialInv == OneThread => Serial
-----------------------------------------------------------------------------
LEMMA ConstantFacts ==
    /\ None \notin Entry /\ None \notin Job
    /\ Ids \subseteq Nat /\ MaxChanges \in Nat
    /\ \A s \in Scenarios : s.changes \in 0..MaxChanges /\ s.events \in Nat /\ s.restarts \in Nat
BY IndexAssumption DEF Scenario

LEMMA JobTyped ==
    ASSUME NEW j \in Job
    PROVE  /\ j.route \in Routes /\ j.step \in Steps /\ j.todo \in SUBSET Ids
           /\ j.seen \in Partition /\ j.listed \in Partition /\ j.began \in 0..MaxChanges
           /\ j # None
BY ConstantFacts DEF Job

LEMMA JobIsTyped ==
    ASSUME TypeOK, NEW h \in Handlers, job[h] # None
    PROVE  job[h] \in Job
BY DEF TypeOK

LEMMA HeadIsOne ==
    ASSUME NEW j \in Job, NEW i \in Ids, NEW k \in Ids, HeadOf(j, i), HeadOf(j, k)
    PROVE  i = k
BY ConstantFacts, JobTyped DEF HeadOf

\* One thread's request goes on; Git stays.
LEMMA StepKeeps ==
    ASSUME Inv, NEW h \in Handlers, NEW j \in Job \cup {None},
           job' = [job EXCEPT ![h] = j], UNCHANGED git,
           main' \in Partition, sensitive' \in Partition, as_of' \in 0..MaxChanges \cup {None},
           covers' \in 0..changes, reported' \in [Ids -> 0..MaxChanges],
           events' \in 0..scenario.events, UNCHANGED restarts,
           j # None => WellFormed(h, j)
    PROVE  Inv'
<1>1. TypeOK'
  <2>1. covers' \in 0..MaxChanges
    BY ConstantFacts DEF Inv, TypeOK
  <2> QED  BY <2>1 DEF Inv, TypeOK, git
<1>2. Counted'
  BY DEF Inv, Counted, git
<1>3. Dated'
  <2>1. covers' <= changes'
    BY DEF Inv, TypeOK, git
  <2> QED  BY <2>1 DEF Inv, Dated, git
<1>4. JobsFormed'
  <2> SUFFICES ASSUME NEW g \in Handlers, job'[g] # None  PROVE WellFormed(g, job[g])'
    BY DEF JobsFormed
  <2>1. CASE g = h
    <3>1. job'[g] = j
      BY <2>1 DEF Inv, TypeOK
    <3> QED  BY <2>1, <3>1 DEF WellFormed, Read, git
  <2>2. CASE g # h
    <3>1. job'[g] = job[g]
      BY <2>2 DEF Inv, TypeOK
    <3> QED  BY <3>1 DEF Inv, JobsFormed, WellFormed, Read, git
  <2> QED  BY <2>1, <2>2
<1> QED  BY <1>1, <1>2, <1>3, <1>4 DEF Inv

\* The same where only the request and the partitions change.
LEMMA WorkKeeps ==
    ASSUME Inv, NEW h \in Handlers, NEW j \in Job \cup {None},
           job' = [job EXCEPT ![h] = j], UNCHANGED <<git, as_of, history, bounds>>,
           main' \in Partition, sensitive' \in Partition,
           j # None => WellFormed(h, j)
    PROVE  Inv'
<1>1. /\ as_of' \in 0..MaxChanges \cup {None} /\ reported' \in [Ids -> 0..MaxChanges]
      /\ events' \in 0..scenario.events /\ UNCHANGED <<git, restarts>>
  BY DEF Inv, TypeOK, history, bounds
<1>2. covers' \in 0..changes
  BY DEF Inv, TypeOK, Dated, history
<1> QED  BY <1>1, <1>2, StepKeeps

LEMMA PartitionsTyped ==
    ASSUME Inv
    PROVE  main \in Partition /\ sensitive \in Partition
BY DEF Inv, TypeOK
-----------------------------------------------------------------------------
(* What changes in the clones. *)

LEMMA InitInv == Init => Inv
<1> SUFFICES ASSUME Init  PROVE Inv
  OBVIOUS
<1>1. scenario.changes \in 0..MaxChanges /\ scenario.events \in Nat /\ scenario.restarts \in Nat
  BY ConstantFacts DEF Init
<1>2. TypeOK
  BY <1>1, ConstantFacts DEF Init, TypeOK, Partition, Nothing
<1>3. Counted
  BY <1>1, FS_EmptySet DEF Init, Counted
<1>4. Dated /\ JobsFormed
  BY DEF Init, Dated, JobsFormed, Nothing
<1> QED  BY <1>2, <1>3, <1>4 DEF Inv

\* Later changes make what was read older, and nothing else.
LEMMA GitKeeps ==
    ASSUME Inv, NEW i \in Ids, NEW e \in Entry \cup {None}, e # None => e.ver = changes + 1,
           source' = [source EXCEPT ![i] = e], changes' = changes + 1,
           torn' \subseteq Ids, writing' \subseteq Ids, uncommitted' \subseteq Ids, Counted',
           UNCHANGED <<scenario, index, history, job, bounds>>
    PROVE  Inv'
<1>1. changes \in Nat /\ changes' \in 0..MaxChanges
  <2>1. scenario.changes \in 0..MaxChanges /\ changes \in 0..MaxChanges
    BY ConstantFacts DEF Inv, TypeOK
  <2>2. Cardinality(torn') \in Nat /\ changes + 1 + Cardinality(torn') <= scenario.changes
    BY FS_CardinalityType DEF Counted
  <2> QED  BY <2>1, <2>2, ConstantFacts
<1>2. TypeOK'
  BY <1>1 DEF Inv, TypeOK, Partition, index, history, bounds
<1>3. Dated'
  <2>1. covers' <= changes'
    BY <1>1, ConstantFacts DEF Inv, TypeOK, Dated, history
  <2>2. ASSUME NEW k \in Ids, source'[k] # None  PROVE source'[k].ver <= changes'
    <3>1. CASE k = i
      <4>1. source'[k] = e
        BY <3>1 DEF Inv, TypeOK, Partition
      <4> QED  BY <4>1, <1>1, <2>2
    <3>2. CASE k # i
      <4>1. source'[k] = source[k] /\ source[k] \in Entry
        BY <3>2, <2>2 DEF Inv, TypeOK, Partition
      <4>2. source[k].ver \in Nat /\ source[k].ver <= changes
        BY <4>1, <2>2, ConstantFacts DEF Inv, Dated, Entry
      <4> QED  BY <4>1, <4>2, <1>1
    <3> QED  BY <3>1, <3>2
  <2> QED  BY <2>1, <2>2 DEF Dated
<1>4. JobsFormed'
  <2> SUFFICES ASSUME NEW h \in Handlers, job[h] # None  PROVE WellFormed(h, job[h])'
    BY DEF JobsFormed
  <2>1. job[h] \in Job /\ WellFormed(h, job[h])
    BY JobIsTyped DEF Inv, JobsFormed
  <2>2. job[h].began <= changes'
    BY <1>1, <2>1, JobTyped, ConstantFacts DEF WellFormed
  <2>3. job[h].route # "search" => Read(job[h])'
    <3> SUFFICES ASSUME job[h].route # "search", NEW k \in Ids, job[h].seen[k] # None
                 PROVE  /\ job[h].seen[k].ver <= changes'
                        /\ source'[k] # None =>
                               source'[k].ver > job[h].seen[k].ver \/ source'[k] = job[h].seen[k]
      BY DEF Read
    <3>1. /\ job[h].seen[k].ver \in Nat /\ job[h].seen[k].ver <= changes
          /\ source[k] # None =>
                 source[k].ver > job[h].seen[k].ver \/ source[k] = job[h].seen[k]
      BY <2>1, JobTyped, ConstantFacts DEF WellFormed, Read, Partition, Entry
    <3>2. CASE k = i
      <4>1. source'[k] = e
        BY <3>2 DEF Inv, TypeOK, Partition
      <4> QED  BY <4>1, <3>1, <1>1
    <3>3. CASE k # i
      <4>1. source'[k] = source[k]
        BY <3>3 DEF Inv, TypeOK, Partition
      <4> QED  BY <4>1, <3>1, <1>1
    <3> QED  BY <3>2, <3>3
  <2> QED  BY <2>1, <2>2, <2>3 DEF WellFormed
<1> QED  BY <1>2, <1>3, <1>4 DEF Inv

LEMMA RewriteKeeps ==
    ASSUME Inv, NEW i \in Ids, Rewrite(i)
    PROVE  Inv'
<1>1. TypeOK'
  BY DEF Inv, TypeOK, Rewrite, index, history, bounds
<1>2. Counted'
  <2>1. IsFiniteSet(torn \ {i}) /\ torn' = (torn \ {i}) \cup {i}
    BY FS_RemoveElement DEF Rewrite, Inv, Counted
  <2>2. IsFiniteSet(torn') /\ Cardinality(torn') = Cardinality(torn \ {i}) + 1
    BY <2>1, FS_AddElement
  <2>3. Cardinality(torn \ {i}) \in Nat
    BY <2>1, FS_CardinalityType
  <2>4. changes \in Nat /\ scenario.changes \in Nat
    BY ConstantFacts DEF Inv, TypeOK
  <2> QED  BY <2>2, <2>3, <2>4 DEF Rewrite, Counted
<1>3. Dated' /\ JobsFormed'
  BY DEF Rewrite, Inv, Dated, JobsFormed, WellFormed, Read, history
<1> QED  BY <1>1, <1>2, <1>3 DEF Inv

LEMMA WriteKeeps ==
    ASSUME Inv, NEW i \in Ids, Write(i)
    PROVE  Inv'
<1>1. PICK s \in BOOLEAN : source' = [source EXCEPT ![i] = [ver |-> changes + 1, sensitive |-> s]]
  BY DEF Write
<1>2. /\ changes \in Nat /\ scenario.changes \in 0..MaxChanges
      /\ Cardinality(torn) \in Nat /\ Cardinality(torn') \in Nat
      /\ IsFiniteSet(torn') /\ Cardinality(torn') = Cardinality(torn) - 1
  <2>1. IsFiniteSet(torn') /\ Cardinality(torn') = Cardinality(torn) - 1
    BY FS_RemoveElement DEF Write, Inv, Counted
  <2>2. changes \in Nat /\ scenario.changes \in 0..MaxChanges
    BY ConstantFacts DEF Inv, TypeOK
  <2> QED  BY <2>1, <2>2, FS_CardinalityType DEF Inv, Counted
<1>3. changes + Cardinality(torn) <= scenario.changes
  BY DEF Inv, Counted
<1>4. Counted'
  BY <1>2, <1>3 DEF Write, Counted
<1> DEFINE e == [ver |-> changes + 1, sensitive |-> s]
<1>5. e \in Entry /\ e.ver = changes + 1
  <2>1. changes + 1 \in 1..MaxChanges
    BY <1>2, <1>3, ConstantFacts
  <2> QED  BY <2>1 DEF Entry
<1>6. source' = [source EXCEPT ![i] = e]
  BY <1>1
<1> HIDE DEF e
<1>7. torn' \subseteq Ids /\ writing' \subseteq Ids /\ uncommitted' \subseteq Ids
  BY DEF Write, Inv, TypeOK
<1> QED  BY <1>4, <1>5, <1>6, <1>7, GitKeeps DEF Write

\* What git does with a text that is written no reader sees.
LEMMA CommitKeeps ==
    ASSUME Inv, NEW i \in Ids, Commit(i) \/ Refuse(i)
    PROVE  Inv'
<1>1. TypeOK'
  BY DEF Inv, TypeOK, Commit, Refuse, index, history, bounds
<1>2. Counted' /\ Dated' /\ JobsFormed'
  BY DEF Commit, Refuse, Inv, Counted, Dated, JobsFormed, WellFormed, Read, history
<1> QED  BY <1>1, <1>2 DEF Inv

LEMMA RemoveKeeps ==
    ASSUME Inv, NEW i \in Ids, Remove(i)
    PROVE  Inv'
<1>1. Counted'
  <2>1. changes \in Nat /\ scenario.changes \in Nat /\ Cardinality(torn) \in Nat
    BY ConstantFacts, FS_CardinalityType DEF Inv, TypeOK, Counted
  <2> QED  BY <2>1 DEF Remove, Inv, Counted
<1>2. torn' \subseteq Ids /\ writing' \subseteq Ids /\ uncommitted' \subseteq Ids
  BY DEF Remove, Inv, TypeOK
<1> QED  BY <1>1, <1>2, GitKeeps DEF Remove
-----------------------------------------------------------------------------
(* Requests. *)

Moved(j, s) == [j EXCEPT !.step = s]

LEMMA MovedJob ==
    ASSUME NEW j \in Job, NEW s \in Steps
    PROVE  /\ Moved(j, s) \in Job /\ Moved(j, s) # None
           /\ Moved(j, s).step = s /\ Moved(j, s).route = j.route /\ Moved(j, s).todo = j.todo
           /\ Moved(j, s).seen = j.seen /\ Moved(j, s).listed = j.listed
           /\ Moved(j, s).began = j.began
<1>1. /\ Moved(j, s) \in Job
      /\ Moved(j, s).step = s /\ Moved(j, s).route = j.route /\ Moved(j, s).todo = j.todo
      /\ Moved(j, s).seen = j.seen /\ Moved(j, s).listed = j.listed
      /\ Moved(j, s).began = j.began
  BY DEF Moved, Job
<1> QED  BY <1>1, JobTyped

LEMMA AtJob ==
    ASSUME Inv, NEW h \in Handlers, job[h] # None
    PROVE  job[h] \in Job /\ WellFormed(h, job[h])
BY JobIsTyped DEF Inv, JobsFormed

\* A request goes on to a step of its route at which it has read what is next.
LEMMA MovedWell ==
    ASSUME Inv, NEW h \in Handlers, job[h] # None, NEW s \in Steps,
           Formed(Moved(job[h], s)),
           s \in PopSteps => \A i \in Ids : HeadOf(job[h], i) => job[h].seen[i] # None
    PROVE  Moved(job[h], s) \in Job /\ WellFormed(h, Moved(job[h], s))
BY AtJob, MovedJob DEF WellFormed, Read, HeadOf

LEMMA BeginKeeps ==
    ASSUME Inv, NEW h \in Handlers, BeginReindex(h) \/ BeginEvent(h) \/ BeginSearch(h)
    PROVE  Inv'
<1>0. Nothing \in Partition /\ changes \in 0..MaxChanges /\ scenario.events \in Nat
  BY ConstantFacts DEF Nothing, Partition, Inv, TypeOK
<1>1. CASE BeginReindex(h)
  <2> DEFINE j == [route |-> "reindex", step |-> "read", todo |-> Ids,
                   seen |-> Nothing, listed |-> Nothing, began |-> changes]
  <2>1. j \in Job
    BY <1>0 DEF Job, Routes, Steps
  <2>2. WellFormed(h, j)
    BY <1>0, <1>1 DEF BeginReindex, WellFormed, Formed, Read, Nothing, PopSteps, SearchSteps, Steps
  <2>3. job' = [job EXCEPT ![h] = j] /\ UNCHANGED <<git, index, history, bounds>>
    BY <1>1 DEF BeginReindex
  <2> HIDE DEF j
  <2> QED  BY <2>1, <2>2, <2>3, WorkKeeps, PartitionsTyped DEF index
<1>2. CASE BeginSearch(h)
  <2> DEFINE j == [route |-> "search", step |-> "list_main", todo |-> {},
                   seen |-> Nothing, listed |-> Nothing, began |-> changes]
  <2>1. j \in Job
    BY <1>0 DEF Job, Routes, Steps
  <2>2. WellFormed(h, j)
    BY <1>0, <1>2 DEF BeginSearch, WellFormed, Formed, PopSteps, SearchSteps
  <2>3. job' = [job EXCEPT ![h] = j] /\ UNCHANGED <<git, index, history, bounds>>
    BY <1>2 DEF BeginSearch
  <2> HIDE DEF j
  <2> QED  BY <2>1, <2>2, <2>3, WorkKeeps, PartitionsTyped DEF index
<1>3. CASE BeginEvent(h)
  <2>1. PICK i \in Ids :
          /\ "index_event" \in scenario.serves[h]
          /\ events < scenario.events /\ events' = events + 1
          /\ Listed(i) # None
          /\ job' = [job EXCEPT ![h] =
                 [route |-> "index_event", step |-> "pop_main", todo |-> {i},
                  seen |-> [Nothing EXCEPT ![i] = source[i]], listed |-> Nothing,
                  began |-> changes]]
          /\ UNCHANGED <<git, index, history, restarts>>
    BY <1>3 DEF BeginEvent
  <2> DEFINE seen == [Nothing EXCEPT ![i] = source[i]]
             j == [route |-> "index_event", step |-> "pop_main", todo |-> {i},
                   seen |-> seen, listed |-> Nothing, began |-> changes]
  <2>2. seen \in Partition /\ seen[i] = source[i] /\ \A k \in Ids : k # i => seen[k] = None
    BY <1>0 DEF Inv, TypeOK, Partition, Nothing
  <2>3. job' = [job EXCEPT ![h] = j]
    BY <2>1
  <2> HIDE DEF seen
  <2>4. j \in Job
    BY <1>0, <2>2 DEF Job, Routes, Steps
  <2>5. source[i] # None
    BY <2>1 DEF Listed
  <2>6. WellFormed(h, j)
    <3>1. Read(j)
      BY <2>2 DEF Read, Inv, Dated
    <3>2. \A k \in Ids : HeadOf(j, k) => j.seen[k] # None
      BY <2>2, <2>5 DEF HeadOf
    <3>3. Formed(j)
      BY DEF Formed, PopSteps
    <3> QED  BY <1>0, <2>1, <3>1, <3>2, <3>3 DEF WellFormed
  <2> HIDE DEF j
  <2>7. /\ events' \in 0..scenario'.events /\ scenario' = scenario
        /\ as_of' \in 0..MaxChanges \cup {None} /\ covers' \in 0..changes
        /\ reported' \in [Ids -> 0..MaxChanges] /\ UNCHANGED <<git, restarts>>
        /\ main' \in Partition /\ sensitive' \in Partition
    <3>1. events \in Nat
      BY <1>0 DEF Inv, TypeOK
    <3>2. covers \in 0..changes
      BY <1>0 DEF Inv, TypeOK, Dated
    <3> QED  BY <1>0, <2>1, <3>1, <3>2 DEF Inv, TypeOK, git, index, history
  <2> QED  BY <2>3, <2>4, <2>6, <2>7, StepKeeps
<1> QED  BY <1>1, <1>2, <1>3

LEMMA ReadNextKeeps ==
    ASSUME Inv, NEW h \in Handlers, ReadNext(h)
    PROVE  Inv'
<1>1. PICK i \in Ids :
        job' = [job EXCEPT
                  ![h].seen[i] = Listed(i),
                  ![h].todo = IF @ = {i} THEN Ids ELSE @ \ {i},
                  ![h].step = IF job[h].todo = {i} THEN "clear_main" ELSE "read"]
  BY DEF ReadNext
<1>2. job[h] \in Job /\ WellFormed(h, job[h]) /\ job[h].step = "read"
  BY AtJob DEF ReadNext, At
<1>3. /\ job[h].route \in Routes /\ job[h].step \in Steps /\ job[h].todo \in SUBSET Ids
      /\ job[h].seen \in Partition /\ job[h].listed \in Partition
      /\ job[h].began \in 0..MaxChanges
  BY <1>2, JobTyped
<1>4. job[h].route = "reindex"
  BY <1>2, <1>3 DEF WellFormed, Formed, SearchSteps, PopSteps
<1> DEFINE seen == [job[h].seen EXCEPT ![i] = Listed(i)]
           j == [job[h] EXCEPT !.seen = seen,
                               !.todo = IF job[h].todo = {i} THEN Ids ELSE job[h].todo \ {i},
                               !.step = IF job[h].todo = {i} THEN "clear_main" ELSE "read"]
<1>5. job' = [job EXCEPT ![h] = j]
  BY <1>1, <1>2 DEF Job, Inv, TypeOK
<1>6. seen \in Partition
  BY <1>3 DEF Partition, Listed, Inv, TypeOK
<1>7. seen[i] = Listed(i) /\ \A k \in Ids : k # i => seen[k] = job[h].seen[k]
  BY <1>3 DEF Partition
<1> HIDE DEF seen
<1>8. /\ j \in Job /\ j.seen = seen /\ j.route = job[h].route /\ j.began = job[h].began
      /\ j.step \in {"read", "clear_main"}
  BY <1>2, <1>6, JobTyped DEF Job, Steps
<1> HIDE DEF j
<1>9. Read(j)
  <2>1. Read(job[h])
    BY <1>2, <1>4 DEF WellFormed
  <2> SUFFICES ASSUME NEW k \in Ids, seen[k] # None
               PROVE  /\ seen[k].ver <= changes
                      /\ source[k] # None => source[k].ver > seen[k].ver \/ source[k] = seen[k]
    BY <1>8 DEF Read
  <2>2. CASE k = i
    BY <2>2, <1>7 DEF Listed, Inv, Dated
  <2>3. CASE k # i
    BY <2>1, <2>3, <1>7 DEF Read
  <2> QED  BY <2>2, <2>3
<1>10. WellFormed(h, j)
  BY <1>2, <1>4, <1>8, <1>9 DEF WellFormed, Formed, Steps, SearchSteps, PopSteps
<1> QED  BY <1>5, <1>8, <1>10, WorkKeeps, PartitionsTyped DEF ReadNext, index

\* What the steps of a maintaining request say about it.
LEMMA AtStep ==
    ASSUME Inv, NEW h \in Handlers, NEW s \in Steps, At(h, s)
    PROVE  /\ job[h] \in Job /\ WellFormed(h, job[h]) /\ job[h] # None /\ job[h].step = s
           /\ s \in {"read", "clear_main", "clear_sensitive", "next", "stamp"} =>
                  job[h].route = "reindex"
           /\ s \in PopSteps => job[h].route \in {"reindex", "index_event"}
           /\ s \in SearchSteps => job[h].route = "search"
<1>1. job[h] \in Job /\ WellFormed(h, job[h]) /\ job[h] # None /\ job[h].step = s
  BY AtJob DEF At
<1> QED  BY <1>1 DEF WellFormed, Formed, SearchSteps, PopSteps

LEMMA ClearKeeps ==
    ASSUME Inv, NEW h \in Handlers, ClearMain(h) \/ ClearSensitive(h)
    PROVE  Inv'
<1>0. Nothing \in Partition
  BY DEF Nothing, Partition
<1>1. CASE ClearMain(h)
  <2>1. job[h] # None /\ job[h].route = "reindex" /\ "clear_sensitive" \in Steps
    BY <1>1, AtStep DEF ClearMain, Steps
  <2>2. Moved(job[h], "clear_sensitive") \in Job /\ WellFormed(h, Moved(job[h], "clear_sensitive"))
    BY <2>1, AtJob, MovedJob, MovedWell DEF Formed, Steps, SearchSteps, PopSteps
  <2>3. job' = [job EXCEPT ![h] = Moved(job[h], "clear_sensitive")]
    BY <1>1 DEF ClearMain, Goto, Moved
  <2> QED  BY <1>0, <1>1, <2>2, <2>3, WorkKeeps, PartitionsTyped DEF ClearMain
<1>2. CASE ClearSensitive(h)
  <2>1. job[h] # None /\ job[h].route = "reindex" /\ "next" \in Steps
    BY <1>2, AtStep DEF ClearSensitive, Steps
  <2>2. Moved(job[h], "next") \in Job /\ WellFormed(h, Moved(job[h], "next"))
    BY <2>1, AtJob, MovedJob, MovedWell DEF Formed, Steps, SearchSteps, PopSteps
  <2>3. job' = [job EXCEPT ![h] = Moved(job[h], "next")]
    BY <1>2 DEF ClearSensitive, Goto, Moved
  <2> QED  BY <1>0, <1>2, <2>2, <2>3, WorkKeeps, PartitionsTyped DEF ClearSensitive
<1> QED  BY <1>1, <1>2

\* One resource less to do.
Without(j, i) == [j EXCEPT !.todo = @ \ {i}]

LEMMA WithoutJob ==
    ASSUME NEW j \in Job, NEW i \in Ids
    PROVE  /\ Without(j, i) \in Job /\ Without(j, i) # None
           /\ Without(j, i).step = j.step /\ Without(j, i).route = j.route
           /\ Without(j, i).todo = j.todo \ {i} /\ Without(j, i).seen = j.seen
           /\ Without(j, i).listed = j.listed /\ Without(j, i).began = j.began
<1>1. /\ Without(j, i) \in Job
      /\ Without(j, i).step = j.step /\ Without(j, i).route = j.route
      /\ Without(j, i).todo = j.todo \ {i} /\ Without(j, i).seen = j.seen
      /\ Without(j, i).listed = j.listed /\ Without(j, i).began = j.began
  BY DEF Without, Job
<1> QED  BY <1>1, JobTyped

\* The steps of the loop.
LEMMA NextEntryCases ==
    ASSUME Inv, NEW h \in Handlers, NextEntry(h)
    PROVE  /\ job[h] \in Job /\ job[h].step = "next" /\ job[h].route = "reindex"
           /\ UNCHANGED <<git, index, history, bounds>>
           /\ \/ job[h].todo = {} /\ job' = [job EXCEPT ![h] = Moved(job[h], "stamp")]
              \/ \E i \in Ids :
                     /\ HeadOf(job[h], i)
                     /\ \/ job[h].seen[i] = None /\ job' = [job EXCEPT ![h] = Without(job[h], i)]
                        \/ /\ job[h].seen[i] # None
                           /\ job' = [job EXCEPT ![h] = Moved(job[h], "pop_main")]
<1>1. job[h] \in Job /\ job[h].step = "next" /\ job[h].route = "reindex"
  BY AtStep DEF NextEntry, Steps
<1> QED  BY <1>1 DEF NextEntry, Goto, Moved, Without, Head, HeadOf

LEMMA NextEntryKeeps ==
    ASSUME Inv, NEW h \in Handlers, NextEntry(h)
    PROVE  Inv'
<1>1. /\ job[h] \in Job /\ job[h] # None /\ WellFormed(h, job[h])
      /\ job[h].step = "next" /\ job[h].route = "reindex"
  BY NextEntryCases, JobTyped, AtJob
<1>2. ASSUME NEW j \in Job, WellFormed(h, j), job' = [job EXCEPT ![h] = j]  PROVE Inv'
  BY <1>2, WorkKeeps, PartitionsTyped, NextEntryCases DEF index
<1>3. CASE job' = [job EXCEPT ![h] = Moved(job[h], "stamp")]
  <2>1. Moved(job[h], "stamp") \in Job /\ WellFormed(h, Moved(job[h], "stamp"))
    BY <1>1, MovedJob, MovedWell DEF Formed, Steps, SearchSteps, PopSteps
  <2> QED  BY <1>2, <1>3, <2>1
<1>4. ASSUME NEW i \in Ids, HeadOf(job[h], i),
             job' = [job EXCEPT ![h] = Without(job[h], i)]
      PROVE  Inv'
  <2>1. Without(job[h], i) \in Job /\ WellFormed(h, Without(job[h], i))
    BY <1>1, WithoutJob DEF WellFormed, Formed, Read, PopSteps
  <2> QED  BY <1>2, <1>4, <2>1
<1>5. ASSUME NEW i \in Ids, HeadOf(job[h], i), job[h].seen[i] # None,
             job' = [job EXCEPT ![h] = Moved(job[h], "pop_main")]
      PROVE  Inv'
  <2>1. \A k \in Ids : HeadOf(job[h], k) => job[h].seen[k] # None
    BY <1>1, <1>5, HeadIsOne
  <2>2. Moved(job[h], "pop_main") \in Job /\ WellFormed(h, Moved(job[h], "pop_main"))
    BY <1>1, <2>1, MovedJob, MovedWell DEF Formed, Steps, SearchSteps
  <2> QED  BY <1>2, <1>5, <2>2
<1> QED  BY <1>3, <1>4, <1>5, NextEntryCases

LEMMA PopKeeps ==
    ASSUME Inv, NEW h \in Handlers, PopMain(h) \/ PopSensitive(h)
    PROVE  Inv'
<1>1. ASSUME NEW s \in PopSteps, NEW s2 \in PopSteps, At(h, s)
      PROVE  /\ Moved(job[h], s2) \in Job /\ WellFormed(h, Moved(job[h], s2))
  <2>1. /\ job[h] \in Job /\ job[h] # None /\ WellFormed(h, job[h]) /\ job[h].step = s
        /\ job[h].route \in {"reindex", "index_event"} /\ s2 \in Steps
    BY <1>1, AtStep DEF PopSteps, Steps
  <2>2. Formed(Moved(job[h], s2))
    BY <2>1, MovedJob DEF WellFormed, Formed, PopSteps, SearchSteps, Steps
  <2> QED  BY <2>1, <2>2, MovedWell DEF WellFormed
<1>2. CASE PopMain(h)
  <2>1. PICK i \in Ids : main' = [main EXCEPT ![i] = None]
    BY <1>2 DEF PopMain
  <2>2. main' \in Partition
    BY <2>1 DEF Inv, TypeOK, Partition
  <2>3. job' = [job EXCEPT ![h] = Moved(job[h], "pop_sensitive")]
    BY <1>2 DEF PopMain, Goto, Moved
  <2> QED  BY <1>1, <1>2, <2>2, <2>3, WorkKeeps, PartitionsTyped DEF PopMain, PopSteps
<1>3. CASE PopSensitive(h)
  <2>1. PICK i \in Ids : sensitive' = [sensitive EXCEPT ![i] = None]
    BY <1>3 DEF PopSensitive
  <2>2. sensitive' \in Partition
    BY <2>1 DEF Inv, TypeOK, Partition
  <2>3. job' = [job EXCEPT ![h] = Moved(job[h], "place")]
    BY <1>3 DEF PopSensitive, Goto, Moved
  <2> QED  BY <1>1, <1>3, <2>2, <2>3, WorkKeeps, PartitionsTyped DEF PopSensitive, PopSteps
<1> QED  BY <1>2, <1>3

\* An entry is placed, by a rebuild or a webhook.
LEMMA PlaceCases ==
    ASSUME Inv, NEW h \in Handlers, Place(h)
    PROVE  \E i \in Ids :
             /\ job[h] \in Job /\ WellFormed(h, job[h]) /\ job[h].step = "place"
             /\ HeadOf(job[h], i) /\ job[h].seen[i] \in Entry
             /\ IF job[h].seen[i].sensitive
                THEN sensitive' = [sensitive EXCEPT ![i] = job[h].seen[i]] /\ UNCHANGED main
                ELSE main' = [main EXCEPT ![i] = job[h].seen[i]] /\ UNCHANGED sensitive
             /\ \/ /\ job[h].route = "reindex"
                   /\ job' = [job EXCEPT ![h] = Without(Moved(job[h], "next"), i)]
                   /\ UNCHANGED reported
                \/ /\ job[h].route = "index_event"
                   /\ job' = [job EXCEPT ![h] = None]
                   /\ reported' = [reported EXCEPT ![i] = job[h].seen[i].ver]
             /\ UNCHANGED <<git, as_of, covers, bounds>>
<1>1. /\ job[h] \in Job /\ WellFormed(h, job[h]) /\ job[h].step = "place" /\ job[h] # None
      /\ job[h].route \in {"reindex", "index_event"}
  BY AtStep DEF Place, Steps, PopSteps
<1>2. PICK i \in Ids :
        /\ HeadOf(job[h], i)
        /\ IF job[h].seen[i].sensitive
           THEN sensitive' = [sensitive EXCEPT ![i] = job[h].seen[i]] /\ UNCHANGED main
           ELSE main' = [main EXCEPT ![i] = job[h].seen[i]] /\ UNCHANGED sensitive
        /\ IF job[h].route = "reindex"
           THEN /\ job' = [job EXCEPT ![h].step = "next", ![h].todo = @ \ {i}]
                /\ UNCHANGED reported
           ELSE /\ job' = [job EXCEPT ![h] = None]
                /\ reported' = [reported EXCEPT ![i] = job[h].seen[i].ver]
  BY DEF Place, PlaceInSensitive, Head, HeadOf
<1>3. job[h].seen[i] \in Entry
  BY <1>1, <1>2, JobTyped DEF WellFormed, PopSteps, Partition
<1>4. job[h].route = "reindex" =>
          job' = [job EXCEPT ![h] = Without(Moved(job[h], "next"), i)]
  BY <1>1, <1>2 DEF Without, Moved, Job, Inv, TypeOK
<1> QED  BY <1>1, <1>2, <1>3, <1>4 DEF Place

LEMMA PlaceKeeps ==
    ASSUME Inv, NEW h \in Handlers, Place(h)
    PROVE  Inv'
<1>1. PICK i \in Ids :
        /\ job[h] \in Job /\ WellFormed(h, job[h]) /\ job[h].step = "place"
        /\ HeadOf(job[h], i) /\ job[h].seen[i] \in Entry
        /\ IF job[h].seen[i].sensitive
           THEN sensitive' = [sensitive EXCEPT ![i] = job[h].seen[i]] /\ UNCHANGED main
           ELSE main' = [main EXCEPT ![i] = job[h].seen[i]] /\ UNCHANGED sensitive
        /\ \/ /\ job[h].route = "reindex"
              /\ job' = [job EXCEPT ![h] = Without(Moved(job[h], "next"), i)]
              /\ UNCHANGED reported
           \/ /\ job[h].route = "index_event"
              /\ job' = [job EXCEPT ![h] = None]
              /\ reported' = [reported EXCEPT ![i] = job[h].seen[i].ver]
        /\ UNCHANGED <<git, as_of, covers, bounds>>
  BY PlaceCases
<1>2. main' \in Partition /\ sensitive' \in Partition
  BY <1>1 DEF Inv, TypeOK, Partition
<1>3. reported' \in [Ids -> 0..MaxChanges]
  <2>1. job[h].seen[i].ver \in 0..MaxChanges
    BY <1>1, ConstantFacts DEF Entry
  <2> QED  BY <1>1, <2>1 DEF Inv, TypeOK
<1> DEFINE j == IF job[h].route = "reindex" THEN Without(Moved(job[h], "next"), i) ELSE None
<1>4. job' = [job EXCEPT ![h] = j]
  BY <1>1
<1>5. j \in Job \cup {None} /\ (j # None => WellFormed(h, j))
  <2>1. CASE job[h].route = "reindex"
    <3>1. "next" \in Steps \ (SearchSteps \cup PopSteps)
      BY DEF Steps, SearchSteps, PopSteps
    <3>2. /\ Moved(job[h], "next") \in Job
          /\ Without(Moved(job[h], "next"), i) \in Job
          /\ Without(Moved(job[h], "next"), i).step = "next"
          /\ Without(Moved(job[h], "next"), i).route = "reindex"
          /\ Without(Moved(job[h], "next"), i).seen = job[h].seen
          /\ Without(Moved(job[h], "next"), i).began = job[h].began
      BY <1>1, <2>1, <3>1, MovedJob, WithoutJob
    <3>3. j = Without(Moved(job[h], "next"), i)
      BY <2>1
    <3> HIDE DEF j
    <3> QED  BY <1>1, <2>1, <3>1, <3>2, <3>3 DEF WellFormed, Formed, Read
  <2>2. CASE job[h].route # "reindex"
    BY <2>2
  <2> QED  BY <2>1, <2>2
<1> HIDE DEF j
<1>6. /\ as_of' \in 0..MaxChanges \cup {None} /\ covers' \in 0..changes
      /\ events' \in 0..scenario.events /\ UNCHANGED <<git, restarts>>
  <2>1. covers \in 0..changes
    BY DEF Inv, TypeOK, Dated
  <2> QED  BY <1>1, <2>1 DEF Inv, TypeOK, bounds
<1> QED  BY <1>2, <1>3, <1>4, <1>5, <1>6, StepKeeps

LEMMA EndKeeps ==
    ASSUME Inv, NEW h \in Handlers, Stamp(h) \/ Answer(h)
    PROVE  Inv'
<1>1. CASE Stamp(h)
  <2>1. job[h] \in Job /\ WellFormed(h, job[h])
    BY <1>1, AtStep DEF Stamp, Steps
  <2>2. job[h].began \in 0..changes /\ changes \in 0..MaxChanges
    BY <2>1, JobTyped, ConstantFacts DEF WellFormed, Inv, TypeOK
  <2> QED  BY <1>1, <2>2, StepKeeps, PartitionsTyped DEF Stamp, Inv, TypeOK, bounds
<1>2. CASE Answer(h)
  BY <1>2, WorkKeeps, PartitionsTyped DEF Answer, index
<1> QED  BY <1>1, <1>2

LEMMA ListKeeps ==
    ASSUME Inv, NEW h \in Handlers, ListMain(h) \/ ListSensitive(h)
    PROVE  Inv'
<1>1. CASE ListMain(h)
  <2>1. /\ job[h] \in Job /\ WellFormed(h, job[h]) /\ job[h].route = "search"
    BY <1>1, AtStep DEF ListMain, Steps, SearchSteps
  <2> DEFINE j == [job[h] EXCEPT !.seen = main, !.step = "list_sensitive"]
  <2>2. /\ j \in Job /\ j.route = "search" /\ j.step = "list_sensitive" /\ j.began = job[h].began
    BY <2>1, PartitionsTyped DEF Job, Steps
  <2>3. job' = [job EXCEPT ![h] = j]
    BY <1>1, <2>1 DEF ListMain, Inv, TypeOK, Job
  <2> HIDE DEF j
  <2>4. WellFormed(h, j)
    BY <2>1, <2>2 DEF WellFormed, Formed, SearchSteps, PopSteps
  <2> QED  BY <1>1, <2>2, <2>3, <2>4, WorkKeeps, PartitionsTyped DEF ListMain, index
<1>2. CASE ListSensitive(h)
  <2>1. /\ job[h] \in Job /\ WellFormed(h, job[h]) /\ job[h].route = "search"
    BY <1>2, AtStep DEF ListSensitive, Steps, SearchSteps
  <2> DEFINE j == [job[h] EXCEPT !.listed = sensitive, !.step = "answer"]
  <2>2. /\ j \in Job /\ j.route = "search" /\ j.step = "answer" /\ j.began = job[h].began
    BY <2>1, PartitionsTyped DEF Job, Steps
  <2>3. job' = [job EXCEPT ![h] = j]
    BY <1>2, <2>1 DEF ListSensitive, Inv, TypeOK, Job
  <2> HIDE DEF j
  <2>4. WellFormed(h, j)
    BY <2>1, <2>2 DEF WellFormed, Formed, SearchSteps, PopSteps
  <2> QED  BY <1>2, <2>2, <2>3, <2>4, WorkKeeps, PartitionsTyped DEF ListSensitive, index
<1> QED  BY <1>1, <1>2

LEMMA RestartKeeps ==
    ASSUME Inv, Restart
    PROVE  Inv'
<1>1. TypeOK'
  <2>1. scenario.restarts \in Nat /\ 0 \in 0..MaxChanges
    BY ConstantFacts DEF Inv, TypeOK
  <2>2. restarts' \in 0..scenario.restarts
    BY <2>1 DEF Restart, Inv, TypeOK
  <2> QED  BY <2>1, <2>2 DEF Restart, Inv, TypeOK, Partition, Nothing, git
<1>2. Counted' /\ JobsFormed'
  BY DEF Restart, Inv, Counted, JobsFormed, git
<1>3. Dated'
  BY ConstantFacts DEF Restart, Inv, TypeOK, Dated, git
<1> QED  BY <1>1, <1>2, <1>3 DEF Inv

LEMMA NextInv ==
    ASSUME Inv, [Next]_vars
    PROVE  Inv'
<1>1. CASE \E i \in Ids : Rewrite(i) \/ Write(i) \/ Commit(i) \/ Refuse(i) \/ Remove(i)
  BY <1>1, RewriteKeeps, WriteKeeps, CommitKeeps, RemoveKeeps
<1>2. ASSUME NEW h \in Handlers, BeginReindex(h) \/ BeginEvent(h) \/ BeginSearch(h)  PROVE Inv'
  BY <1>2, BeginKeeps
<1>3. ASSUME NEW h \in Handlers, Advance(h)  PROVE Inv'
  BY <1>3, ReadNextKeeps, ClearKeeps, NextEntryKeeps, PopKeeps, PlaceKeeps, EndKeeps, ListKeeps
     DEF Advance
<1>4. CASE Restart
  BY <1>4, RestartKeeps
<1>5. CASE UNCHANGED vars
  BY <1>5 DEF vars, git, index, history, bounds, Inv, TypeOK, Counted, Dated, JobsFormed,
              WellFormed, Read
<1> QED  BY <1>1, <1>2, <1>3, <1>4, <1>5 DEF Next

LEMMA InvHolds == Spec => []Inv
BY InitInv, NextInv, PTL DEF Spec

\* The partitions, what requests hold and the histories have their types, and commits,
\* those under way included, keep within the bound.
THEOREM TypeCorrect == Spec => []TypeOK
<1>1. Inv => TypeOK
  BY DEF Inv
<1> QED  BY <1>1, InvHolds, PTL
-----------------------------------------------------------------------------
(* One request at a time. *)

LEMMA EntryTyped ==
    ASSUME NEW P \in Partition, NEW i \in Ids
    PROVE  P[i] # None => P[i] \in Entry /\ P[i].ver \in Nat /\ P[i].ver >= 1
<1>1. P[i] # None => P[i] \in Entry
  BY DEF Partition
<1> QED  BY <1>1, ConstantFacts DEF Entry

LEMMA Numbers ==
    ASSUME Inv
    PROVE  /\ changes \in Nat /\ covers \in Nat /\ covers <= changes
           /\ \A i \in Ids : reported[i] \in Nat
           /\ source \in Partition /\ main \in Partition /\ sensitive \in Partition
<1>1. \A n \in 0..MaxChanges : n \in Nat
  BY ConstantFacts
<1> QED  BY <1>1 DEF Inv, TypeOK, Dated

LEMMA OnlyOne ==
    ASSUME Inv, OneThread, NEW h \in Handlers, scenario.serves[h] # {}
    PROVE  \A g \in Handlers : job[g] # None => g = h
BY DEF Inv, JobsFormed, WellFormed, OneThread

\* A step of the one request; Git stays.
LEMMA StepSerial ==
    ASSUME Inv, OneThread, NEW h \in Handlers, scenario.serves[h] # {},
           NEW j, job' = [job EXCEPT ![h] = j],
           Reported', Parted', j # None => Holding(j)' /\ Maintaining(j)',
           \A i \in Ids : Answered(i)' /\ (j # None => ~Disturbs(j, i)) => InPlace(i)'
    PROVE  Serial'
<1>1. job'[h] = j /\ \A g \in Handlers : g # h => job'[g] = None
  BY OnlyOne DEF Inv, TypeOK
<1>2. JobsHold'
  <2> SUFFICES ASSUME NEW g \in Handlers, job'[g] # None
               PROVE  Holding(job[g])' /\ Maintaining(job[g])'
    BY DEF JobsHold
  <2>1. g = h
    BY <1>1
  <2>2. job'[g] = j /\ Holding(j)' /\ Maintaining(j)'
    BY <1>1, <2>1
  <2> QED  BY <2>2 DEF Holding, Maintaining, Unwritten
<1>3. StillCovered'
  <2> SUFFICES ASSUME NEW i \in Ids, Answered(i)', Undisturbed(i)'  PROVE InPlace(i)'
    BY DEF StillCovered
  <2>1. j # None => ~Disturbs(j, i)
    BY <1>1 DEF Undisturbed
  <2> QED  BY <2>1
<1> QED  BY <1>2, <1>3 DEF Serial

\* What is known before such a step.
LEMMA BeforeStep ==
    ASSUME Inv, Serial, OneThread, NEW h \in Handlers, scenario.serves[h] # {}
    PROVE  /\ job[h] # None => Holding(job[h]) /\ Maintaining(job[h])
           /\ \A i \in Ids :
                  Answered(i) /\ (job[h] # None => ~Disturbs(job[h], i)) => InPlace(i)
<1>1. job[h] # None => Holding(job[h]) /\ Maintaining(job[h])
  BY DEF Serial, JobsHold
<1>2. ASSUME NEW i \in Ids, Answered(i), job[h] # None => ~Disturbs(job[h], i)
      PROVE  InPlace(i)
  <2>1. Undisturbed(i)
    BY <1>2, OnlyOne DEF Undisturbed
  <2> QED  BY <1>2, <2>1 DEF Serial, StillCovered
<1> QED  BY <1>1, <1>2

LEMMA ServesAt ==
    ASSUME Inv, NEW h \in Handlers, job[h] # None
    PROVE  scenario.serves[h] # {}
BY DEF Inv, JobsFormed, WellFormed

LEMMA InitSerial == Init => Serial
<1> SUFFICES ASSUME Init  PROVE Serial
  OBVIOUS
<1>1. Reported /\ Parted /\ JobsHold
  BY DEF Init, Reported, Parted, JobsHold, Nothing
<1>2. StillCovered
  BY DEF Init, StillCovered, Answered, Nothing
<1> QED  BY <1>1, <1>2 DEF Serial

LEMMA RewriteSerial ==
    ASSUME Serial, NEW k \in Ids, Rewrite(k) \/ Commit(k) \/ Refuse(k)
    PROVE  Serial'
<1>1. UNCHANGED <<scenario, source, changes, index, history, job>> /\ torn \subseteq torn'
  BY DEF Rewrite, Commit, Refuse
<1>2. Reported' /\ Parted'
  BY <1>1 DEF Serial, Reported, Parted, index, history
<1>3. JobsHold'
  BY <1>1 DEF Serial, JobsHold, Holding, Maintaining, Unwritten, InPlace, Indexed, index, history
<1>4. StillCovered'
  BY <1>1 DEF Serial, StillCovered, Answered, Undisturbed, InPlace, Indexed, index, history
<1> QED  BY <1>2, <1>3, <1>4 DEF Serial

\* A text written or a removal is later than all that was read or answered.
LEMMA GitSerial ==
    ASSUME Inv, Serial, NEW k \in Ids, Write(k) \/ Remove(k)
    PROVE  Serial'
<1>1. PICK e : /\ e # None => e.ver = changes + 1
               /\ source' = [source EXCEPT ![k] = e]
  BY DEF Write, Remove
<1>2. /\ UNCHANGED <<scenario, index, history, job>> /\ changes' = changes + 1
      /\ \A i \in Ids : i # k => (i \in torn' <=> i \in torn)
  BY DEF Write, Remove
<1>3. /\ source'[k] # None => source'[k].ver = changes + 1
      /\ \A i \in Ids : i # k => source'[i] = source[i]
  BY <1>1, Numbers DEF Partition
<1>4. /\ changes \in Nat /\ covers \in Nat /\ covers <= changes
      /\ \A i \in Ids : reported[i] \in Nat /\ reported[i] <= changes
  BY Numbers DEF Serial, Reported
<1>5. Reported'
  BY <1>2, <1>3, <1>4 DEF Serial, Reported, history
<1>6. Parted'
  BY <1>2 DEF Serial, Parted, index, history
<1>7. JobsHold'
  <2> SUFFICES ASSUME NEW h \in Handlers, job[h] # None
               PROVE  Holding(job[h])' /\ Maintaining(job[h])'
    BY <1>2 DEF JobsHold
  <2>1. Holding(job[h])'
    BY <1>2 DEF Serial, JobsHold, Holding, index, history
  <2>2. job[h].began \in Nat /\ job[h].began <= changes
    BY AtJob, JobTyped, ConstantFacts DEF WellFormed
  <2>3. ASSUME NEW i \in Ids, Unwritten(job[h], i)'  PROVE i # k /\ Unwritten(job[h], i)
    <3>1. i # k
      BY <1>2, <1>3, <1>4, <2>2, <2>3 DEF Unwritten
    <3> QED  BY <1>2, <1>3, <2>3, <3>1 DEF Unwritten
  <2>4. \A i \in Ids : i # k => (InPlace(i)' <=> InPlace(i))
    BY <1>2, <1>3 DEF InPlace, Indexed, index
  <2>5. Maintaining(job[h])
    BY DEF Serial, JobsHold
  <2>6. UNCHANGED <<covers, reported, job>>
    BY <1>2 DEF history
  <2> QED  BY <1>3, <2>1, <2>3, <2>4, <2>5, <2>6 DEF Maintaining
<1>8. StillCovered'
  <2> SUFFICES ASSUME NEW i \in Ids, Answered(i)', Undisturbed(i)'  PROVE InPlace(i)'
    BY DEF StillCovered
  <2>1. i # k
    BY <1>2, <1>3, <1>4 DEF Answered, history
  <2>2. Answered(i) /\ Undisturbed(i)
    BY <1>2, <1>3, <2>1 DEF Answered, Undisturbed, history
  <2>3. InPlace(i)
    BY <2>2 DEF Serial, StillCovered
  <2> QED  BY <1>2, <1>3, <2>1, <2>3 DEF InPlace, Indexed, index
<1> QED  BY <1>5, <1>6, <1>7, <1>8 DEF Serial

LEMMA BeginSerial ==
    ASSUME Inv, Serial, OneThread, NEW h \in Handlers,
           BeginReindex(h) \/ BeginEvent(h) \/ BeginSearch(h)
    PROVE  Serial'
<1>1. /\ job[h] = None /\ scenario.serves[h] # {} /\ UNCHANGED <<git, index, history>>
  BY DEF BeginReindex, BeginEvent, BeginSearch
<1>2. \A i \in Ids : Answered(i) => InPlace(i)
  BY <1>1, BeforeStep
<1>3. Reported' /\ Parted'
  BY <1>1 DEF Serial, Reported, Parted, git, index, history
<1>4. \A i \in Ids : Answered(i)' => InPlace(i)'
  BY <1>1, <1>2 DEF Answered, InPlace, Indexed, git, index, history
<1>5. ASSUME NEW j, job' = [job EXCEPT ![h] = j], Holding(j), Maintaining(j)  PROVE Serial'
  <2>1. Holding(j)' /\ Maintaining(j)'
    BY <1>1, <1>5 DEF Holding, Maintaining, Unwritten, InPlace, Indexed, git, index, history
  <2> QED  BY <1>1, <1>3, <1>4, <1>5, <2>1, StepSerial
<1>6. covers <= changes /\ \A i \in Ids : reported[i] <= changes
  BY Numbers DEF Serial, Reported
<1>7. CASE BeginReindex(h)
  <2>1. PICK j : j = [route |-> "reindex", step |-> "read", todo |-> Ids,
                      seen |-> Nothing, listed |-> Nothing, began |-> changes]
    OBVIOUS
  <2>2. job' = [job EXCEPT ![h] = j]
    BY <1>7, <2>1 DEF BeginReindex
  <2>3. Holding(j)
    BY <2>1 DEF Holding, Nothing
  <2>4. Maintaining(j)
    BY <2>1, <1>6 DEF Maintaining, HasRead, Rebuilding
  <2> QED  BY <1>5, <2>2, <2>3, <2>4
<1>8. CASE BeginSearch(h)
  <2>1. PICK j : j = [route |-> "search", step |-> "list_main", todo |-> {},
                      seen |-> Nothing, listed |-> Nothing, began |-> changes]
    OBVIOUS
  <2>2. job' = [job EXCEPT ![h] = j]
    BY <1>8, <2>1 DEF BeginSearch
  <2>3. Holding(j) /\ Maintaining(j)
    BY <2>1 DEF Holding, Maintaining
  <2> QED  BY <1>5, <2>2, <2>3
<1>9. CASE BeginEvent(h)
  <2>0. PICK i \in Ids :
          job' = [job EXCEPT ![h] =
              [route |-> "index_event", step |-> "pop_main", todo |-> {i},
               seen |-> [Nothing EXCEPT ![i] = source[i]], listed |-> Nothing, began |-> changes]]
    BY <1>9 DEF BeginEvent
  <2>1. PICK j :
          /\ j = [route |-> "index_event", step |-> "pop_main", todo |-> {i},
                  seen |-> [Nothing EXCEPT ![i] = source[i]], listed |-> Nothing,
                  began |-> changes]
          /\ job' = [job EXCEPT ![h] = j]
    BY <2>0
  <2>2. /\ j.seen[i] = source[i] /\ \A k \in Ids : k # i => j.seen[k] = None
        /\ j.route = "index_event" /\ j.step = "pop_main" /\ j.todo = {i} /\ j.began = changes
    BY <2>1 DEF Nothing
  <2>3. Holding(j)
    BY <2>2 DEF Holding, Serial, Reported
  <2>4. Maintaining(j)
    BY <2>2, <1>6 DEF Maintaining, HasRead, Rebuilding
  <2> QED  BY <1>5, <2>1, <2>3, <2>4
<1> QED  BY <1>7, <1>8, <1>9

LEMMA ReadNextSerial ==
    ASSUME Inv, Serial, OneThread, NEW h \in Handlers, ReadNext(h)
    PROVE  Serial'
<1>1. /\ job[h] \in Job /\ job[h] # None /\ job[h].step = "read" /\ job[h].route = "reindex"
  BY AtStep DEF ReadNext, Steps
<1>2. PICK i \in Ids :
        job' = [job EXCEPT
                  ![h].seen[i] = Listed(i),
                  ![h].todo = IF @ = {i} THEN Ids ELSE @ \ {i},
                  ![h].step = IF job[h].todo = {i} THEN "clear_main" ELSE "read"]
  BY DEF ReadNext
<1>3. PICK j : j = [job[h] EXCEPT
                       !.seen = [job[h].seen EXCEPT ![i] = Listed(i)],
                       !.todo = IF job[h].todo = {i} THEN Ids ELSE job[h].todo \ {i},
                       !.step = IF job[h].todo = {i} THEN "clear_main" ELSE "read"]
  OBVIOUS
<1>4. job' = [job EXCEPT ![h] = j]
  BY <1>1, <1>2, <1>3 DEF Job, Inv, TypeOK
<1>5. /\ j.seen[i] = Listed(i) /\ \A k \in Ids : k # i => j.seen[k] = job[h].seen[k]
      /\ j.route = "reindex" /\ j.began = job[h].began
      /\ job[h].todo = {i} => j.todo = Ids /\ j.step = "clear_main"
      /\ job[h].todo # {i} => j.todo = job[h].todo \ {i} /\ j.step = "read"
  BY <1>1, <1>3, JobTyped DEF Job, Partition
<1>6. scenario.serves[h] # {} /\ UNCHANGED <<git, index, history>>
  BY <1>1, ServesAt DEF ReadNext
<1>7. Holding(job[h]) /\ Maintaining(job[h])
  BY <1>1, <1>6, BeforeStep
<1>8. Reported' /\ Parted'
  BY <1>6 DEF Serial, Reported, Parted, git, index, history
<1>9. \A k \in Ids : Answered(k)' => InPlace(k)'
  <2>1. \A k \in Ids : ~Disturbs(job[h], k)
    BY <1>1 DEF Disturbs, Rebuilding
  <2>2. \A k \in Ids : Answered(k) => InPlace(k)
    BY <1>6, <2>1, BeforeStep
  <2> QED  BY <1>6, <2>2 DEF Answered, InPlace, Indexed, git, index, history
<1>10. Holding(j)
  BY <1>1, <1>5, <1>7 DEF Holding, Listed, Serial, Reported
<1>11. Maintaining(j)
  <2>1. \A k \in Ids : Unwritten(j, k) => Unwritten(job[h], k)
    BY <1>5 DEF Unwritten
  <2>2. ASSUME NEW k \in Ids, Unwritten(j, k), HasRead(j, k)  PROVE j.seen[k] = source[k]
    <3>1. CASE k = i
      BY <3>1, <1>5, <2>2 DEF Unwritten, Listed
    <3>2. CASE k # i
      <4>1. k \notin job[h].todo
        BY <3>2, <1>5, <2>2 DEF HasRead
      <4>2. HasRead(job[h], k)
        BY <4>1, <1>1 DEF HasRead
      <4> QED  BY <3>2, <4>2, <1>1, <1>5, <1>7, <2>1, <2>2 DEF Maintaining
    <3> QED  BY <3>1, <3>2
  <2>3. j.step \in {"read", "clear_main"} /\ ~Rebuilding(j) /\ (j.step = "clear_main" => j.todo = Ids)
    BY <1>5 DEF Rebuilding
  <2> QED  BY <1>1, <1>5, <1>7, <2>2, <2>3 DEF Maintaining
<1>12. Holding(j)' /\ Maintaining(j)'
  BY <1>6, <1>10, <1>11 DEF Holding, Maintaining, Unwritten, InPlace, Indexed, git, index, history
<1> QED  BY <1>4, <1>6, <1>8, <1>9, <1>12, StepSerial DEF git

LEMMA ClearSerial ==
    ASSUME Inv, Serial, OneThread, NEW h \in Handlers, ClearMain(h) \/ ClearSensitive(h)
    PROVE  Serial'
<1>1. /\ job[h] \in Job /\ job[h] # None /\ job[h].step \in {"clear_main", "clear_sensitive"}
      /\ job[h].route = "reindex" /\ UNCHANGED <<git, history>>
  <2>1. CASE ClearMain(h)
    BY <2>1, AtStep DEF ClearMain, Steps
  <2>2. CASE ClearSensitive(h)
    BY <2>2, AtStep DEF ClearSensitive, Steps
  <2> QED  BY <2>1, <2>2
<1>0. PICK s \in {"clear_sensitive", "next"} : job' = [job EXCEPT ![h] = Moved(job[h], s)]
  BY DEF ClearMain, ClearSensitive, Goto, Moved
<1>2. PICK j : j = Moved(job[h], s) /\ job' = [job EXCEPT ![h] = j]
  BY <1>0
<1>3. /\ j.step = s /\ j.route = "reindex" /\ j.todo = job[h].todo /\ j.seen = job[h].seen
      /\ j.began = job[h].began
  BY <1>1, <1>2, MovedJob DEF Steps
<1>4. Holding(job[h]) /\ Maintaining(job[h]) /\ scenario.serves[h] # {}
  BY <1>1, ServesAt, BeforeStep
<1>5. /\ \A i \in Ids : main'[i] = main[i] \/ main'[i] = None
      /\ \A i \in Ids : sensitive'[i] = sensitive[i] \/ sensitive'[i] = None
  BY DEF ClearMain, ClearSensitive, Nothing
<1>6. Reported' /\ Parted'
  BY <1>1, <1>5 DEF Serial, Reported, Parted, git, history
<1>7. Holding(j)'
  BY <1>1, <1>3, <1>4 DEF Holding, history
<1>8. j.todo = Ids
  BY <1>1, <1>3, <1>4 DEF Maintaining
<1>9. Maintaining(j)'
  <2>1. /\ covers' <= j.began
        /\ \A i \in Ids : /\ reported'[i] <= j.began
                          /\ Unwritten(j, i)' => j.seen[i] = source'[i]
    BY <1>1, <1>3, <1>4 DEF Maintaining, HasRead, Unwritten, git, history
  <2> QED  BY <1>3, <1>8, <2>1 DEF Maintaining
<1>10. \A i \in Ids : Disturbs(j, i)
  BY <1>3 DEF Disturbs, Rebuilding
<1>11. j # None
  BY <1>1, <1>2, MovedJob DEF Steps
<1> QED  BY <1>1, <1>2, <1>4, <1>6, <1>7, <1>9, <1>10, <1>11, StepSerial DEF git

LEMMA NextEntrySerial ==
    ASSUME Inv, Serial, OneThread, NEW h \in Handlers, NextEntry(h)
    PROVE  Serial'
<1>1. /\ job[h] \in Job /\ job[h] # None /\ job[h].step = "next" /\ job[h].route = "reindex"
      /\ UNCHANGED <<git, index, history>>
  BY NextEntryCases, JobTyped
<1>2. Holding(job[h]) /\ Maintaining(job[h]) /\ scenario.serves[h] # {}
  BY <1>1, ServesAt, BeforeStep
<1>3. Reported' /\ Parted'
  BY <1>1 DEF Serial, Reported, Parted, git, index, history
<1>4. ASSUME NEW j, job' = [job EXCEPT ![h] = j], j.route = "reindex",
             j.step \in {"next", "pop_main", "stamp"}, j # None,
             Holding(j), Maintaining(j)
      PROVE  Serial'
  <2>1. Holding(j)' /\ Maintaining(j)'
    BY <1>1, <1>4 DEF Holding, Maintaining, Unwritten, InPlace, Indexed, git, index, history
  <2>2. \A i \in Ids : Disturbs(j, i)
    BY <1>4 DEF Disturbs, Rebuilding
  <2> QED  BY <1>1, <1>2, <1>3, <1>4, <2>1, <2>2, StepSerial DEF git
<1>5. ASSUME NEW s \in {"pop_main", "stamp"}, s = "stamp" => job[h].todo = {},
             job' = [job EXCEPT ![h] = Moved(job[h], s)]
      PROVE  Serial'
  <2>1. PICK j : j = Moved(job[h], s)
    OBVIOUS
  <2>2. /\ j.step = s /\ j.route = "reindex" /\ j.todo = job[h].todo /\ j.seen = job[h].seen
        /\ j.began = job[h].began /\ j # None
    BY <1>1, <2>1, MovedJob DEF Steps
  <2>3. Holding(j)
    BY <1>1, <1>2, <2>2 DEF Holding
  <2>4. Maintaining(j)
    BY <1>1, <1>2, <1>5, <2>2 DEF Maintaining, HasRead, Rebuilding, Unwritten
  <2> QED  BY <1>4, <1>5, <2>1, <2>2, <2>3, <2>4
<1>6. ASSUME NEW i \in Ids, job[h].seen[i] = None,
             job' = [job EXCEPT ![h] = Without(job[h], i)]
      PROVE  Serial'
  <2>1. PICK j : j = Without(job[h], i)
    OBVIOUS
  <2>2. /\ j.step = "next" /\ j.route = "reindex" /\ j.todo = job[h].todo \ {i}
        /\ j.seen = job[h].seen /\ j.began = job[h].began /\ j # None
    BY <1>1, <2>1, WithoutJob
  <2>3. Holding(j)
    BY <1>1, <1>2, <2>2 DEF Holding
  <2>4. ~Unwritten(job[h], i)
    BY <1>1, <1>2, <1>6 DEF Maintaining, HasRead, Unwritten
  <2>5. Maintaining(j)
    BY <1>1, <1>2, <2>2, <2>4 DEF Maintaining, HasRead, Rebuilding, Unwritten
  <2> QED  BY <1>4, <1>6, <2>1, <2>2, <2>3, <2>5
<1> QED  BY <1>5, <1>6, NextEntryCases

\* A step of upsert, on the resource i that is next.
LEMMA PopSerial ==
    ASSUME Inv, Serial, OneThread, NEW h \in Handlers, PopMain(h) \/ PopSensitive(h)
    PROVE  Serial'
<1>0. PICK i \in Ids, s \in {"pop_sensitive", "place"} :
        /\ job[h] # None /\ HeadOf(job[h], i)
        /\ job' = [job EXCEPT ![h] = Moved(job[h], s)]
        /\ s = "pop_sensitive" => /\ job[h].step = "pop_main"
                                  /\ main' = [main EXCEPT ![i] = None] /\ UNCHANGED sensitive
        /\ s = "place" => /\ job[h].step = "pop_sensitive"
                          /\ sensitive' = [sensitive EXCEPT ![i] = None] /\ UNCHANGED main
        /\ UNCHANGED <<git, history>>
  <2>1. CASE PopMain(h)
    BY <2>1 DEF PopMain, At, Goto, Moved, Head, HeadOf
  <2>2. CASE PopSensitive(h)
    BY <2>2 DEF PopSensitive, At, Goto, Moved, Head, HeadOf
  <2> QED  BY <2>1, <2>2
<1>1. PICK j : j = Moved(job[h], s) /\ job' = [job EXCEPT ![h] = j]
  BY <1>0
<1>2. job[h] \in Job /\ job[h].route \in {"reindex", "index_event"} /\ job[h].step \in PopSteps
  BY <1>0, <1>1, AtStep DEF At, Steps, PopSteps
<1>3. /\ j.step = s /\ j.route = job[h].route /\ j.todo = job[h].todo /\ j.seen = job[h].seen
      /\ j.began = job[h].began /\ j # None /\ j \in Job
  BY <1>0, <1>1, <1>2, MovedJob DEF Steps
<1>4. Holding(job[h]) /\ Maintaining(job[h]) /\ scenario.serves[h] # {}
  BY <1>0, <1>1, ServesAt, BeforeStep
<1>5. /\ main[i] = None \/ main'[i] = None
      /\ \A k \in Ids : main'[k] = main[k] \/ main'[k] = None
      /\ \A k \in Ids : sensitive'[k] = sensitive[k] \/ sensitive'[k] = None
      /\ \A k \in Ids : k # i => main'[k] = main[k] /\ sensitive'[k] = sensitive[k]
      /\ main'[i] = None /\ (s = "place" => sensitive'[i] = None)
  <2>1. CASE s = "pop_sensitive"
    BY <1>0, <1>1, <2>1, Numbers DEF Partition
  <2>2. CASE s = "place"
    <3>1. main[i] = None
      BY <1>0, <1>1, <1>4, <2>2 DEF Holding
    <3> QED  BY <1>0, <1>1, <2>2, <3>1, Numbers DEF Partition
  <2> QED  BY <2>1, <2>2
<1>6. Reported' /\ Parted'
  BY <1>0, <1>1, <1>5 DEF Serial, Reported, Parted, git, history
<1>7. \A k \in Ids : HeadOf(j, k) => k = i
  BY <1>0, <1>1, <1>2, <1>3, HeadIsOne DEF HeadOf
<1>8. Holding(j)'
  BY <1>0, <1>1, <1>2, <1>3, <1>4, <1>5, <1>7 DEF Holding, history
<1>9. \A k \in Ids : k # i => (InPlace(k)' <=> InPlace(k))
  BY <1>0, <1>1, <1>5 DEF InPlace, Indexed, git
<1>10. i \in j.todo
  BY <1>0, <1>1, <1>3 DEF HeadOf
<1>11. Maintaining(j)'
  <2>1. \A k \in Ids : /\ Unwritten(j, k)' => Unwritten(job[h], k)
                       /\ HasRead(j, k) => HasRead(job[h], k)
                       /\ Rebuilding(j) => Rebuilding(job[h])
    BY <1>0, <1>1, <1>2, <1>3 DEF Unwritten, HasRead, Rebuilding, git, PopSteps
  <2>2. UNCHANGED <<source, covers, reported>>
    BY <1>0, <1>1 DEF git, history
  <2> QED  BY <1>2, <1>3, <1>4, <1>9, <1>10, <2>1, <2>2 DEF Maintaining
<1>12. ASSUME NEW k \in Ids, Answered(k)', ~Disturbs(j, k)  PROVE InPlace(k)'
  <2>1. k # i /\ ~Disturbs(job[h], k)
    BY <1>2, <1>3, <1>10, <1>12 DEF Disturbs, Rebuilding, PopSteps
  <2>2. Answered(k)
    BY <1>0, <1>1, <1>12 DEF Answered, git, history
  <2>3. InPlace(k)
    BY <1>4, <2>1, <2>2, BeforeStep
  <2> QED  BY <1>9, <2>1, <2>3
<1> QED  BY <1>0, <1>1, <1>3, <1>4, <1>6, <1>8, <1>11, <1>12, StepSerial DEF git

LEMMA PlaceSerial ==
    ASSUME Inv, Serial, OneThread, NEW h \in Handlers, Place(h)
    PROVE  Serial'
<1>1. PICK i \in Ids :
        /\ job[h] \in Job /\ WellFormed(h, job[h]) /\ job[h].step = "place"
        /\ HeadOf(job[h], i) /\ job[h].seen[i] \in Entry
        /\ IF job[h].seen[i].sensitive
           THEN sensitive' = [sensitive EXCEPT ![i] = job[h].seen[i]] /\ UNCHANGED main
           ELSE main' = [main EXCEPT ![i] = job[h].seen[i]] /\ UNCHANGED sensitive
        /\ \/ /\ job[h].route = "reindex"
              /\ job' = [job EXCEPT ![h] = Without(Moved(job[h], "next"), i)]
              /\ UNCHANGED reported
           \/ /\ job[h].route = "index_event"
              /\ job' = [job EXCEPT ![h] = None]
              /\ reported' = [reported EXCEPT ![i] = job[h].seen[i].ver]
        /\ UNCHANGED <<git, as_of, covers, bounds>>
  BY PlaceCases
<1>2. job[h] # None /\ job[h].route # "search"
  BY <1>1, JobTyped
<1>3. Holding(job[h]) /\ Maintaining(job[h]) /\ scenario.serves[h] # {}
  BY <1>2, ServesAt, BeforeStep
<1>4. PICK entry \in Entry : entry = job[h].seen[i]
  BY <1>1
<1>5. main[i] = None /\ sensitive[i] = None
  BY <1>1, <1>3 DEF Holding
<1>6. /\ IF entry.sensitive THEN sensitive'[i] = entry /\ main'[i] = None
                            ELSE main'[i] = entry /\ sensitive'[i] = None
      /\ \A k \in Ids : k # i => main'[k] = main[k] /\ sensitive'[k] = sensitive[k]
  BY <1>1, <1>4, <1>5, Numbers DEF Partition
<1>7. entry # None /\ entry.ver \in Nat /\ entry.ver >= reported[i] /\ entry.sensitive \in BOOLEAN
  BY <1>2, <1>3, <1>4, ConstantFacts DEF Holding, Entry
<1>8. /\ entry.ver <= changes
      /\ source[i] # None => source[i].ver > entry.ver \/ source[i] = entry
  BY <1>1, <1>2, <1>4, <1>7 DEF WellFormed, Read
<1>9. reported'[i] \in {reported[i], entry.ver}
      /\ \A k \in Ids : k # i => reported'[k] = reported[k]
  BY <1>1, <1>4 DEF Inv, TypeOK
<1>10. /\ \A k \in Ids : source[k] # None => source[k].ver \in Nat
       /\ \A k \in Ids : reported[k] \in Nat
       /\ covers \in Nat /\ covers <= changes /\ changes \in Nat
  BY Numbers, EntryTyped
<1>11. Reported'
  <2> SUFFICES ASSUME NEW k \in Ids
               PROVE  reported'[k] <= changes /\ (source[k] # None => source[k].ver >= reported'[k])
    BY <1>1 DEF Reported, git
  <2>1. CASE k = i /\ reported'[i] = entry.ver
    BY <2>1, <1>7, <1>8, <1>10
  <2>2. CASE reported'[k] = reported[k]
    BY <2>2 DEF Serial, Reported
  <2> QED  BY <2>1, <2>2, <1>9
<1>12. Parted'
  <2> SUFFICES ASSUME NEW k \in Ids
               PROVE  /\ main'[k] = None \/ sensitive'[k] = None
                      /\ main'[k] # None => ~main'[k].sensitive /\ main'[k].ver >= reported'[k]
                      /\ sensitive'[k] # None =>
                             sensitive'[k].sensitive /\ sensitive'[k].ver >= reported'[k]
    BY DEF Parted
  <2>1. CASE k = i
    <3>1. entry.ver >= reported'[i]
      BY <1>7, <1>9
    <3> QED  BY <2>1, <3>1, <1>6, <1>7
  <2>2. CASE k # i
    BY <2>2, <1>6, <1>9 DEF Serial, Parted
  <2> QED  BY <2>1, <2>2
<1>13. source[i] = entry => InPlace(i)'
  <2> SUFFICES ASSUME source[i] = entry  PROVE InPlace(i)'
    OBVIOUS
  <2>1. source'[i] = entry
    BY <1>1 DEF git
  <2> QED  BY <2>1, <1>6, <1>7 DEF InPlace, Indexed
<1>14. \A k \in Ids : k # i => (InPlace(k)' <=> InPlace(k))
  BY <1>1, <1>6 DEF InPlace, Indexed, git
<1>15. CASE job[h].route = "reindex"
  <2>1. PICK j : j = Without(Moved(job[h], "next"), i)
    OBVIOUS
  <2>2. /\ j.step = "next" /\ j.route = "reindex" /\ j.todo = job[h].todo \ {i}
        /\ j.seen = job[h].seen /\ j.began = job[h].began /\ j # None
    <3>1. "next" \in Steps
      BY DEF Steps
    <3>2. Moved(job[h], "next") \in Job
      BY <1>1, <3>1, MovedJob
    <3> QED  BY <1>1, <1>15, <2>1, <3>1, <3>2, MovedJob, WithoutJob
  <2>3. UNCHANGED <<source, torn, covers, reported>> /\ job' = [job EXCEPT ![h] = j]
    BY <1>1, <1>15, <2>1 DEF git
  <2>4. Holding(j)'
    BY <1>2, <1>3, <2>2, <2>3 DEF Holding
  <2>5. Maintaining(j)'
    <3>1. ASSUME NEW k \in Ids, Unwritten(j, k)'
          PROVE  Unwritten(job[h], k) /\ j.seen[k] = source[k]
      <4>1. Unwritten(job[h], k)
        BY <2>2, <2>3, <3>1 DEF Unwritten
      <4> QED  BY <1>1, <1>2, <1>3, <1>15, <2>2, <4>1 DEF Maintaining, HasRead
    <3>2. ASSUME NEW k \in Ids, Unwritten(j, k)', k \notin j.todo  PROVE InPlace(k)'
      <4>1. CASE k = i
        BY <4>1, <3>1, <3>2, <1>4, <1>13, <2>2
      <4>2. CASE k # i
        <5>1. k \notin job[h].todo /\ Rebuilding(job[h])
          BY <4>2, <3>2, <2>2, <1>1, <1>15 DEF Rebuilding
        <5> QED  BY <4>2, <5>1, <3>1, <3>2, <1>2, <1>3, <1>14 DEF Maintaining
      <4> QED  BY <4>1, <4>2
    <3>3. covers' <= j.began /\ \A k \in Ids : reported'[k] <= j.began
      BY <1>2, <1>3, <1>15, <2>2, <2>3 DEF Maintaining
    <3> QED  BY <2>2, <2>3, <3>1, <3>2, <3>3 DEF Maintaining
  <2>6. \A k \in Ids : Disturbs(j, k)
    BY <2>2 DEF Disturbs, Rebuilding
  <2> QED  BY <1>1, <1>3, <1>11, <1>12, <2>2, <2>3, <2>4, <2>5, <2>6, StepSerial DEF git
<1>16. CASE job[h].route = "index_event"
  <2>1. job' = [job EXCEPT ![h] = None] /\ reported'[i] = entry.ver
        /\ UNCHANGED <<source, torn, covers>>
    BY <1>1, <1>4, <1>16 DEF git, Inv, TypeOK
  <2>2. job[h].todo = {i}
    BY <1>1, <1>16 DEF WellFormed, Formed, HeadOf
  <2>3. ASSUME NEW k \in Ids, Answered(k)'  PROVE InPlace(k)'
    <3>1. CASE k # i
      <4>1. Answered(k) /\ ~Disturbs(job[h], k)
        BY <3>1, <1>9, <1>16, <2>1, <2>2, <2>3 DEF Answered, Disturbs, Rebuilding
      <4>2. InPlace(k)
        BY <4>1, <1>3, BeforeStep
      <4> QED  BY <3>1, <4>2, <1>14
    <3>2. CASE k = i
      <4>1. i \notin torn /\ source[i] # None /\ source[i].ver \in 1..covers \cup {entry.ver}
        BY <3>2, <2>1, <2>3 DEF Answered
      <4>2. CASE source[i].ver = entry.ver
        BY <4>1, <4>2, <3>2, <1>7, <1>8, <1>13
      <4>3. CASE source[i].ver <= covers
        <5>1. job[h].began \in Nat /\ covers <= job[h].began
          BY <1>1, <1>2, <1>3, JobTyped, ConstantFacts DEF Maintaining
        <5>2. Unwritten(job[h], i)
          BY <4>1, <4>3, <5>1, <1>10 DEF Unwritten
        <5>3. job[h].seen[i] = source[i]
          BY <5>2, <2>2, <1>2, <1>3, <1>16 DEF Maintaining, HasRead
        <5> QED  BY <5>3, <3>2, <1>4, <1>13
      <4> QED  BY <4>1, <4>2, <4>3, <1>10
    <3> QED  BY <3>1, <3>2
  <2> QED  BY <1>1, <1>3, <1>11, <1>12, <2>1, <2>3, StepSerial DEF git
<1> QED  BY <1>1, <1>15, <1>16

LEMMA StampSerial ==
    ASSUME Inv, Serial, OneThread, NEW h \in Handlers, Stamp(h)
    PROVE  Serial'
<1>1. /\ job[h] \in Job /\ job[h] # None /\ job[h].step = "stamp" /\ job[h].route = "reindex"
      /\ job' = [job EXCEPT ![h] = None] /\ covers' = job[h].began
      /\ UNCHANGED <<git, main, sensitive, reported>>
  BY AtStep DEF Stamp, Steps
<1>2. Holding(job[h]) /\ Maintaining(job[h]) /\ scenario.serves[h] # {}
  BY <1>1, ServesAt, BeforeStep
<1>3. Reported' /\ Parted'
  BY <1>1 DEF Serial, Reported, Parted, git
<1>4. ASSUME NEW k \in Ids, Answered(k)'  PROVE InPlace(k)'
  <2>1. /\ k \notin torn /\ source[k] # None
        /\ source[k].ver \in 1..job[h].began \cup {reported[k]}
    BY <1>1, <1>4 DEF Answered, git
  <2>2. job[h].todo = {} /\ reported[k] <= job[h].began
    BY <1>1, <1>2 DEF Maintaining
  <2>3. source[k].ver <= job[h].began
    BY <2>1, <2>2, <1>1, JobTyped, ConstantFacts
  <2>4. Unwritten(job[h], k) /\ Rebuilding(job[h])
    BY <2>1, <2>3, <1>1 DEF Unwritten, Rebuilding
  <2>5. InPlace(k)
    BY <1>1, <1>2, <2>2, <2>4 DEF Maintaining
  <2> QED  BY <1>1, <2>5 DEF InPlace, Indexed, git
<1> QED  BY <1>1, <1>2, <1>3, <1>4, StepSerial DEF git

LEMMA SearchSerial ==
    ASSUME Inv, Serial, OneThread, NEW h \in Handlers,
           ListMain(h) \/ ListSensitive(h) \/ Answer(h)
    PROVE  Serial'
<1>1. /\ job[h] \in Job /\ job[h] # None /\ job[h].route = "search"
      /\ UNCHANGED <<git, index, history>>
  <2>1. CASE ListMain(h)
    BY <2>1, AtStep DEF ListMain, Steps, SearchSteps
  <2>2. CASE ListSensitive(h)
    BY <2>2, AtStep DEF ListSensitive, Steps, SearchSteps
  <2>3. CASE Answer(h)
    BY <2>3, AtStep DEF Answer, Steps, SearchSteps
  <2> QED  BY <2>1, <2>2, <2>3
<1>2. Holding(job[h]) /\ scenario.serves[h] # {}
  BY <1>1, ServesAt, BeforeStep
<1>3. Reported' /\ Parted'
  BY <1>1 DEF Serial, Reported, Parted, git, index, history
<1>4. \A i \in Ids : Answered(i)' => InPlace(i)'
  <2>1. \A i \in Ids : ~Disturbs(job[h], i)
    BY <1>1 DEF Disturbs, Rebuilding
  <2>2. \A i \in Ids : Answered(i) => InPlace(i)
    BY <1>2, <2>1, BeforeStep
  <2> QED  BY <1>1, <2>2 DEF Answered, InPlace, Indexed, git, index, history
<1>5. ASSUME NEW j, job' = [job EXCEPT ![h] = j], j # None => j.route = "search" /\ Holding(j)
      PROVE  Serial'
  <2>1. j # None => Holding(j)' /\ Maintaining(j)'
    BY <1>1, <1>5 DEF Holding, Maintaining, index, history
  <2> QED  BY <1>1, <1>2, <1>3, <1>4, <1>5, <2>1, StepSerial DEF git
<1>6. CASE ListMain(h)
  <2>1. PICK j : j = [job[h] EXCEPT !.seen = main, !.step = "list_sensitive"]
    OBVIOUS
  <2>2. /\ j.route = "search" /\ j.step = "list_sensitive" /\ j.seen = main
        /\ job' = [job EXCEPT ![h] = j]
    BY <1>1, <1>6, <2>1 DEF ListMain, Inv, TypeOK, Job
  <2>3. Holding(j)
    BY <2>2 DEF Holding
  <2> QED  BY <1>5, <2>2, <2>3
<1>7. CASE ListSensitive(h)
  <2>1. PICK j : j = [job[h] EXCEPT !.listed = sensitive, !.step = "answer"]
    OBVIOUS
  <2>2. /\ j.route = "search" /\ j.step = "answer" /\ j.seen = job[h].seen /\ j.listed = sensitive
        /\ job[h].step = "list_sensitive" /\ job' = [job EXCEPT ![h] = j]
    BY <1>1, <1>7, <2>1 DEF ListSensitive, At, Inv, TypeOK, Job
  <2>3. \A i \in Ids : j.seen[i] = main[i] /\ (main[i] = None \/ sensitive[i] = None)
    BY <1>2, <2>2 DEF Holding, Serial, Parted
  <2>4. Holding(j)
    BY <2>2, <2>3 DEF Holding
  <2> QED  BY <1>5, <2>2, <2>4
<1>8. CASE Answer(h)
  BY <1>5, <1>8 DEF Answer
<1> QED  BY <1>6, <1>7, <1>8

LEMMA RestartSerial ==
    ASSUME Inv, Serial, Restart
    PROVE  Serial'
<1>1. /\ \A i \in Ids : main'[i] = None /\ sensitive'[i] = None /\ reported'[i] = 0
      /\ \A h \in Handlers : job'[h] = None
      /\ covers' = 0 /\ UNCHANGED <<scenario, source, torn, changes>>
  BY DEF Restart, Nothing
<1>2. \A i \in Ids : source[i] # None => source[i].ver \in Nat /\ source[i].ver >= 1
  BY Numbers, EntryTyped
<1>3. changes \in Nat
  BY Numbers
<1>4. Reported' /\ Parted' /\ JobsHold'
  BY <1>1, <1>2, <1>3 DEF Reported, Parted, JobsHold
<1>5. StillCovered'
  BY <1>1, <1>2 DEF StillCovered, Answered
<1> QED  BY <1>4, <1>5 DEF Serial

LEMMA NextSerial ==
    ASSUME Inv, Serial, OneThread, [Next]_vars
    PROVE  Serial'
<1>1. CASE \E i \in Ids : Rewrite(i) \/ Write(i) \/ Commit(i) \/ Refuse(i) \/ Remove(i)
  BY <1>1, RewriteSerial, GitSerial
<1>2. ASSUME NEW h \in Handlers, BeginReindex(h) \/ BeginEvent(h) \/ BeginSearch(h)  PROVE Serial'
  BY <1>2, BeginSerial
<1>3. ASSUME NEW h \in Handlers, Advance(h)  PROVE Serial'
  BY <1>3, ReadNextSerial, ClearSerial, NextEntrySerial, PopSerial, PlaceSerial, StampSerial,
     SearchSerial DEF Advance
<1>4. CASE Restart
  BY <1>4, RestartSerial
<1>5. CASE UNCHANGED vars
  <2>1. Reported' /\ Parted'
    BY <1>5 DEF vars, git, index, history, Serial, Reported, Parted
  <2>2. JobsHold'
    BY <1>5 DEF vars, git, index, history, Serial, JobsHold, Holding, Maintaining, Unwritten,
                InPlace, Indexed
  <2>3. StillCovered'
    BY <1>5 DEF vars, git, index, history, Serial, StillCovered, Answered, Undisturbed,
                InPlace, Indexed
  <2> QED  BY <2>1, <2>2, <2>3 DEF Serial
<1> QED  BY <1>1, <1>2, <1>3, <1>4, <1>5 DEF Next

LEMMA ScenarioStays == [Next]_vars => UNCHANGED scenario
BY DEF Next, vars, git, Rewrite, Write, Commit, Refuse, Remove, BeginReindex, BeginEvent, BeginSearch, Advance,
       ReadNext, ClearMain, ClearSensitive, NextEntry, PopMain, PopSensitive, Place, Stamp,
       ListMain, ListSensitive, Answer, Restart

LEMMA SerialHolds == Spec => []SerialInv
<1>1. Init => SerialInv
  BY InitSerial DEF SerialInv
<1>2. Inv /\ SerialInv /\ [Next]_vars => SerialInv'
  <2> SUFFICES ASSUME Inv, SerialInv, [Next]_vars, OneThread'  PROVE Serial'
    BY DEF SerialInv
  <2>1. OneThread
    BY ScenarioStays DEF OneThread
  <2> QED  BY <2>1, NextSerial DEF SerialInv
<1> QED  BY <1>1, <1>2, InvHolds, PTL DEF Spec

\* One request at a time: no rebuild, nor a webhook delivered again or late, puts an entry
\* back that is older than what an answered webhook has indexed.
THEOREM WebhooksAreNotUndone == Spec => []FresherWins
<1>1. Inv /\ SerialInv => FresherWins
  BY DEF SerialInv, Serial, Parted, FresherWins, NeverOlder, Indexed
<1> QED  BY <1>1, InvHolds, SerialHolds, PTL

LEMMA AtMostOne ==
    ASSUME NEW a, NEW b, a = None \/ b = None
    PROVE  Cardinality({a, b} \ {None}) <= 1
<1>1. {a, b} \ {None} = {} \/ \E c : {a, b} \ {None} = {c}
  <2>1. CASE a = None /\ b = None
    BY <2>1
  <2>2. CASE a = None /\ b # None
    <3>1. {a, b} \ {None} = {b}
      BY <2>2
    <3> QED  BY <3>1
  <2>3. CASE a # None /\ b = None
    <3>1. {a, b} \ {None} = {a}
      BY <2>3
    <3> QED  BY <3>1
  <2> QED  BY <2>1, <2>2, <2>3
<1>2. CASE {a, b} \ {None} = {}
  BY <1>2, FS_EmptySet
<1>3. ASSUME NEW c, {a, b} \ {None} = {c}  PROVE Cardinality({a, b} \ {None}) <= 1
  <2>1. Cardinality({c}) = 1
    BY FS_Singleton
  <2> QED  BY <2>1, <1>3
<1> QED  BY <1>1, <1>2, <1>3

\* One request at a time: a resource is indexed once and found once, and between requests as
\* it was written, in its partition, if a rebuild began since or a webhook told of it.
THEOREM IndexIsAsWritten == Spec => []IndexedAsWritten
<1>1. Inv /\ SerialInv => IndexedAsWritten
  <2> SUFFICES ASSUME Inv, Serial, OneThread  PROVE NoDuplicates /\ Covered
    BY DEF SerialInv, IndexedAsWritten, NoDuplicates, Covered
  <2>1. \A i \in Ids : Cardinality(Indexed(i)) <= 1
    BY AtMostOne DEF Serial, Parted, Indexed
  <2>2. \A h \in Handlers : At(h, "answer") => \A i \in Ids : Cardinality(Found(h, i)) <= 1
    <3> SUFFICES ASSUME NEW h \in Handlers, At(h, "answer"), NEW i \in Ids
                 PROVE  Cardinality(Found(h, i)) <= 1
      OBVIOUS
    <3>1. job[h].seen[i] = None \/ job[h].listed[i] = None
      BY DEF At, Serial, JobsHold, Holding
    <3> QED  BY <3>1, AtMostOne DEF Found
  <2>3. Covered
    BY DEF Covered, Idle, Serial, StillCovered, Answered, Undisturbed
  <2> QED  BY <2>1, <2>2, <2>3 DEF NoDuplicates
<1> QED  BY <1>1, InvHolds, SerialHolds, PTL
============
