---------------------------- MODULE SearchIndex ----------------------------
(***************************************************************************)
(* The search index: Index of indexing/index.py, and the two routes that   *)
(* maintain it, POST /index/reindex (hourly batch and manual trigger) and  *)
(* POST /index/events (critical webhook), beside GET /search.              *)
(*                                                                         *)
(* The index is two dictionaries shared by all threads of the pool and     *)
(* guarded by no lock: each pop, insertion and clear is a step here.  Both *)
(* routes first read the resource stores, file by file, while resources    *)
(* are written; what they index is what they read.  A store writes in      *)
(* steps: the file is truncated, its text is there for every reader, and   *)
(* only then git commits it, or refuses to.                                *)
(***************************************************************************)
EXTENDS Naturals, FiniteSets

CONSTANTS
    Handlers,    \* threads of the pool
    Scenarios,   \* what one behaviour is about, chosen by Init
    Ids,         \* an interval of naturals: resources, in the order stores list them
    MaxChanges,  \* bound: changes of resources in any scenario
    None

Routes == {"reindex", "index_event", "search"}

\* The routes each thread is given, and bounds (guards only): of changes, of webhooks
\* delivered, and of restarts.
Scenario == [serves : [Handlers -> SUBSET Routes], changes : 0..MaxChanges,
             events : Nat, restarts : Nat]

\* What an entry says: the change it was read at, and its category.
Entry == [ver : 1..MaxChanges, sensitive : BOOLEAN]

Partition == [Ids -> Entry \cup {None}]

\* "read": the stores are being listed; the rest is Index.rebuild and .upsert.
Steps == {"read", "clear_main", "clear_sensitive", "next",
          "pop_main", "pop_sensitive", "place", "stamp",
          "list_main", "list_sensitive", "answer"}

Job == [route : Routes, step : Steps,
        todo : SUBSET Ids,      \* resources not yet read, or not yet indexed
        seen : Partition,       \* what was read, or listed of the main partition
        listed : Partition,     \* what was listed of the sensitive one
        began : 0..MaxChanges]  \* history: changes there were when it began

ASSUME IndexAssumption ==
    /\ Scenarios \subseteq Scenario
    /\ Ids \subseteq Nat
    /\ MaxChanges \in Nat
    /\ None \notin Entry /\ None \notin Job

VARIABLES
    scenario,   \* one of Scenarios; it never changes
    source,     \* source[i]: the text last written for the resource, None before the first
    torn,       \* resources whose file is truncated
    writing,    \* resources a live thread is in the put of
    uncommitted,  \* resources whose text no commit holds
    changes,    \* changes so far: texts written, and removals
    main,       \* Index._main
    sensitive,  \* Index._sensitive
    as_of,      \* Index._as_of, as the number of changes there were; or None
    covers,     \* history: changes there were when the last rebuild began
    reported,   \* history: reported[i]: the change the last answered webhook read
    job,        \* job[h]: the request thread h serves
    events,     \* webhooks delivered
    restarts    \* restarts so far

git == <<scenario, source, torn, writing, uncommitted, changes>>
index == <<main, sensitive, as_of>>
history == <<covers, reported>>
bounds == <<events, restarts>>
vars == <<git, index, history, job, bounds>>

Nothing == [i \in Ids |-> None]

Init ==
    /\ scenario \in Scenarios
    /\ source = Nothing /\ torn = {} /\ writing = {} /\ uncommitted = {} /\ changes = 0
    /\ main = Nothing /\ sensitive = Nothing /\ as_of = None
    /\ covers = 0 /\ reported = [i \in Ids |-> 0]
    /\ job = [h \in Handlers |-> None]
    /\ events = 0 /\ restarts = 0
-----------------------------------------------------------------------------
(* Resources are written in the clones. *)

\* A put opens the file of a resource and truncates it, also one a dead process left so.
Rewrite(i) ==
    /\ i \notin writing
    /\ changes + Cardinality(torn \ {i}) < scenario.changes
    /\ torn' = torn \cup {i} /\ writing' = writing \cup {i}
    /\ UNCHANGED <<scenario, source, uncommitted, changes, index, history, job, bounds>>

\* Its text is there, in the same or another category: readers see it from now on.
Write(i) ==
    /\ i \in torn \cap writing
    /\ torn' = torn \ {i}
    /\ changes' = changes + 1
    /\ \E s \in BOOLEAN :
           source' = [source EXCEPT ![i] = [ver |-> changes + 1, sensitive |-> s]]
    /\ uncommitted' = uncommitted \cup {i}
    /\ UNCHANGED <<scenario, writing, index, history, job, bounds>>

\* git add and commit; a commit takes along what refused writes had staged.
Commit(i) ==
    /\ i \in writing \ torn
    /\ writing' = writing \ {i}
    /\ \E staged \in SUBSET (uncommitted \ writing) :
           uncommitted' = uncommitted \ (staged \cup {i})
    /\ UNCHANGED <<scenario, source, torn, changes, index, history, job, bounds>>

\* git refuses (GitWriteError): the put fails and its text stays in the file.
Refuse(i) ==
    /\ i \in writing \ torn
    /\ writing' = writing \ {i}
    /\ UNCHANGED <<scenario, source, torn, uncommitted, changes, index, history, job, bounds>>

\* It is removed, by a commit that is pulled.
Remove(i) ==
    /\ changes + Cardinality(torn) < scenario.changes
    /\ i \notin torn \cup writing /\ source[i] # None
    /\ source' = [source EXCEPT ![i] = None]
    /\ changes' = changes + 1
    /\ uncommitted' = uncommitted \ {i}
    /\ UNCHANGED <<scenario, torn, writing, index, history, job, bounds>>

\* Slip: a file that does not parse is listed with default fields.
ListedEmpty(i) == IF i \in torn THEN [ver |-> 0, sensitive |-> FALSE] ELSE source[i]

\* What a store lists: a truncated file does not parse and is skipped.
Listed(i) == IF i \in torn THEN None ELSE source[i]
-----------------------------------------------------------------------------
(* Requests. *)

At(h, step) == job[h] # None /\ job[h].step = step

Goto(h, step) == job' = [job EXCEPT ![h].step = step]

\* The first of the resources still to do.
Head(h, i) == i \in job[h].todo /\ \A j \in job[h].todo : i <= j

\* Slip: an index that was built is not built again.
ReindexOnce(h) ==
    /\ job[h] = None /\ "reindex" \in scenario.serves[h]
    /\ \/ as_of # None /\ UNCHANGED job
       \/ as_of = None /\ job' = [job EXCEPT ![h] =
              [route |-> "reindex", step |-> "read", todo |-> Ids,
               seen |-> Nothing, listed |-> Nothing, began |-> changes]]
    /\ UNCHANGED <<git, index, history, bounds>>

\* POST /index/reindex: the entries are collected first.
BeginReindex(h) ==
    /\ job[h] = None /\ "reindex" \in scenario.serves[h]
    /\ job' = [job EXCEPT ![h] =
           [route |-> "reindex", step |-> "read", todo |-> Ids,
            seen |-> Nothing, listed |-> Nothing, began |-> changes]]
    /\ UNCHANGED <<git, index, history, bounds>>

\* Slip: the last resource is left out.
ReadButLast(h) ==
    /\ At(h, "read")
    /\ \E i \in Ids :
           /\ Head(h, i)
           /\ job' = IF job[h].todo = {i}
                     THEN [job EXCEPT ![h].todo = Ids, ![h].step = "clear_main"]
                     ELSE [job EXCEPT ![h].seen[i] = Listed(i), ![h].todo = @ \ {i}]
    /\ UNCHANGED <<git, index, history, bounds>>

\* The next resource is read; after the last one rebuild is called.
ReadNext(h) ==
    /\ At(h, "read")
    /\ \E i \in Ids :
           /\ Head(h, i)
           /\ job' = [job EXCEPT
                  ![h].seen[i] = Listed(i),
                  ![h].todo = IF @ = {i} THEN Ids ELSE @ \ {i},
                  ![h].step = IF job[h].todo = {i} THEN "clear_main" ELSE "read"]
    /\ UNCHANGED <<git, index, history, bounds>>

\* POST /index/events: the risk is read, a webhook for one that cannot be read is
\* refused (404) and leaves nothing.
BeginEvent(h) ==
    \E i \in Ids :
        /\ job[h] = None /\ "index_event" \in scenario.serves[h]
        /\ events < scenario.events
        /\ events' = events + 1
        /\ Listed(i) # None
        /\ job' = [job EXCEPT ![h] =
               [route |-> "index_event", step |-> "pop_main", todo |-> {i},
                seen |-> [Nothing EXCEPT ![i] = source[i]], listed |-> Nothing, began |-> changes]]
        /\ UNCHANGED <<git, index, history, restarts>>
-----------------------------------------------------------------------------
(* Index.rebuild and Index.upsert. *)

ClearMain(h) ==
    /\ At(h, "clear_main")
    /\ main' = Nothing
    /\ Goto(h, "clear_sensitive")
    /\ UNCHANGED <<git, sensitive, as_of, history, bounds>>

ClearSensitive(h) ==
    /\ At(h, "clear_sensitive")
    /\ sensitive' = Nothing
    /\ Goto(h, "next")
    /\ UNCHANGED <<git, main, as_of, history, bounds>>

\* The loop of rebuild: on to the next entry that was read, or out.
NextEntry(h) ==
    /\ At(h, "next")
    /\ \/ /\ job[h].todo = {}
          /\ Goto(h, "stamp")
       \/ \E i \in Ids :
              /\ Head(h, i)
              /\ job' = IF job[h].seen[i] = None
                        THEN [job EXCEPT ![h].todo = @ \ {i}]
                        ELSE [job EXCEPT ![h].step = "pop_main"]
    /\ UNCHANGED <<git, index, history, bounds>>

\* upsert drops any prior copy from both partitions.
PopMain(h) ==
    /\ At(h, "pop_main")
    /\ \E i \in Ids : Head(h, i) /\ main' = [main EXCEPT ![i] = None]
    /\ Goto(h, "pop_sensitive")
    /\ UNCHANGED <<git, sensitive, as_of, history, bounds>>

\* Slip: only the main partition is cleared of the prior copy.
PopMainOnly(h) ==
    /\ At(h, "pop_sensitive")
    /\ Goto(h, "place")
    /\ UNCHANGED <<git, index, history, bounds>>

PopSensitive(h) ==
    /\ At(h, "pop_sensitive")
    /\ \E i \in Ids : Head(h, i) /\ sensitive' = [sensitive EXCEPT ![i] = None]
    /\ Goto(h, "place")
    /\ UNCHANGED <<git, main, as_of, history, bounds>>

\* entry_from_risk: security and compliance risks go to their own partition.
PlaceInSensitive(entry) == entry.sensitive

\* upsert puts the entry in its partition; a webhook is answered, a rebuild goes on.
Place(h) ==
    /\ At(h, "place")
    /\ \E i \in Ids :
           LET entry == job[h].seen[i]
           IN  /\ Head(h, i)
               /\ IF PlaceInSensitive(entry)
                  THEN sensitive' = [sensitive EXCEPT ![i] = entry] /\ UNCHANGED main
                  ELSE main' = [main EXCEPT ![i] = entry] /\ UNCHANGED sensitive
               /\ IF job[h].route = "reindex"
                  THEN /\ job' = [job EXCEPT ![h].step = "next", ![h].todo = @ \ {i}]
                       /\ UNCHANGED reported
                  ELSE /\ job' = [job EXCEPT ![h] = None]
                       /\ reported' = [reported EXCEPT ![i] = entry.ver]
    /\ UNCHANGED <<git, as_of, covers, bounds>>

\* The rebuild is over: the index is as of now.
Stamp(h) ==
    /\ At(h, "stamp")
    /\ as_of' = changes
    /\ covers' = job[h].began
    /\ job' = [job EXCEPT ![h] = None]
    /\ UNCHANGED <<git, main, sensitive, reported, bounds>>

\* GET /search, for a word every resource matches.
BeginSearch(h) ==
    /\ job[h] = None /\ "search" \in scenario.serves[h]
    /\ job' = [job EXCEPT ![h] =
           [route |-> "search", step |-> "list_main", todo |-> {},
            seen |-> Nothing, listed |-> Nothing, began |-> changes]]
    /\ UNCHANGED <<git, index, history, bounds>>

\* The partitions are listed one after the other.
ListMain(h) ==
    /\ At(h, "list_main")
    /\ job' = [job EXCEPT ![h].seen = main, ![h].step = "list_sensitive"]
    /\ UNCHANGED <<git, index, history, bounds>>

ListSensitive(h) ==
    /\ At(h, "list_sensitive")
    /\ job' = [job EXCEPT ![h].listed = sensitive, ![h].step = "answer"]
    /\ UNCHANGED <<git, index, history, bounds>>

Answer(h) ==
    /\ At(h, "answer")
    /\ job' = [job EXCEPT ![h] = None]
    /\ UNCHANGED <<git, index, history, bounds>>

\* The index is in memory only: it is empty after a restart. Who was writing is dead: a
\* file it truncated stays so, a text it wrote stays without a commit.
Restart ==
    /\ restarts < scenario.restarts
    /\ restarts' = restarts + 1
    /\ main' = Nothing /\ sensitive' = Nothing /\ as_of' = None
    /\ covers' = 0 /\ reported' = [i \in Ids |-> 0]
    /\ job' = [h \in Handlers |-> None]
    /\ writing' = {}
    /\ UNCHANGED <<scenario, source, torn, uncommitted, changes, events>>
-----------------------------------------------------------------------------
Advance(h) ==
    \/ ReadNext(h) \/ ClearMain(h) \/ ClearSensitive(h) \/ NextEntry(h)
    \/ PopMain(h) \/ PopSensitive(h) \/ Place(h) \/ Stamp(h)
    \/ ListMain(h) \/ ListSensitive(h) \/ Answer(h)

Next ==
    \/ \E i \in Ids : Rewrite(i) \/ Write(i) \/ Commit(i) \/ Refuse(i) \/ Remove(i)
    \/ \E h \in Handlers : BeginReindex(h) \/ BeginEvent(h) \/ BeginSearch(h) \/ Advance(h)
    \/ Restart

Spec == Init /\ [][Next]_vars

\* The batch is posted again and again (every hour, by a scheduler outside the code), and
\* a request that waits for a thread gets one in the end, also if searches and webhooks
\* keep coming; threads go on with what they serve, and a thread in a put that lives
\* finishes its write_text. Nobody owes a commit, or the write of a process that died;
\* webhooks and searches owe nothing.
Fairness ==
    /\ \A h \in Handlers : SF_vars(BeginReindex(h)) /\ WF_vars(Advance(h))
    /\ \A i \in Ids : WF_vars(Write(i))

FairSpec == Spec /\ Fairness
-----------------------------------------------------------------------------
\* Type invariant of the sources, the partitions and the requests.
TypeOK ==
    /\ scenario \in Scenarios
    /\ source \in Partition /\ changes \in 0..MaxChanges
    /\ torn \subseteq Ids /\ writing \subseteq Ids /\ uncommitted \subseteq Ids
    /\ main \in Partition /\ sensitive \in Partition
    /\ as_of \in 0..MaxChanges \cup {None}
    /\ covers \in 0..MaxChanges /\ reported \in [Ids -> 0..MaxChanges]
    /\ job \in [Handlers -> Job \cup {None}]
    /\ events \in 0..scenario.events /\ restarts \in 0..scenario.restarts

Indexed(i) == {main[i], sensitive[i]} \ {None}

\* What a search that is about to answer has found of a resource.
Found(h, i) == {job[h].seen[i], job[h].listed[i]} \ {None}

\* A resource is indexed as it was last written, in the partition of its category.
InPlace(i) ==
    /\ Indexed(i) = {source[i]} \ {None}
    /\ sensitive[i] # None => sensitive[i].sensitive
    /\ main[i] # None => ~main[i].sensitive

\* The index is what the stores list: a truncated file is not in it.
Fresh == \A i \in Ids : IF i \in torn THEN Indexed(i) = {} ELSE InPlace(i)

\* Requests are served one at a time.
OneThread == \A g, h \in Handlers : scenario.serves[g] # {} /\ scenario.serves[h] # {} => g = h

Idle == \A h \in Handlers : job[h] = None

\* INV-IX-2: whatever webhooks were lost, repeated or overtaken, whatever git refused and
\* whenever the process died, also in the middle of a write, once changes stop the batch
\* makes the index equal to what the stores list again (and again), also when batches
\* overlapped. A file left truncated stays out of it until it is written again.
EventuallyFresh == []<>Fresh

\* A webhook that was answered is not undone: no entry is older than the version
\* reported as indexed.
NeverOlder == \A i \in Ids : \A entry \in Indexed(i) : entry.ver >= reported[i]

\* One request at a time, "fresher Git wins".
FresherWins == OneThread => NeverOlder

\* One request at a time, a resource is in one partition only between requests, and once
\* in a search's answer ("no duplicates"), however often its category changed.
NoDuplicates ==
    OneThread =>
        /\ Idle => \A i \in Ids : Cardinality(Indexed(i)) <= 1
        /\ \A h \in Handlers : At(h, "answer") => \A i \in Ids : Cardinality(Found(h, i)) <= 1

\* One request at a time, the index says of a resource between requests exactly what its
\* file says, in the partition of its category (INV-IX-4), if that was written before the
\* last rebuild began or is what a webhook was answered for.
Covered ==
    OneThread /\ Idle =>
        \A i \in Ids \ torn :
            source[i] # None /\ source[i].ver \in 1..covers \cup {reported[i]}
                => InPlace(i)

\* One request at a time, the index holds each resource once, as written.
IndexedAsWritten == NoDuplicates /\ Covered

\* INV-ST-2, "rebuildable from Git alone": what is indexed is in a commit, unless its put
\* is still under way. A refused put leaves its text for the next rebuild.
OnlyCommitted ==
    \A i \in Ids \ writing :
        source[i] # None /\ source[i] \in Indexed(i) => i \notin uncommitted

\* A search finds what was written before the last rebuild that ended began, and has not
\* changed since, also while the next rebuild runs.
SearchComplete ==
    \A h \in Handlers : At(h, "answer") =>
        \A i \in Ids \ torn :
            source[i] # None /\ source[i].ver <= covers => Found(h, i) # {}
=============================================================================
