------------------------------ MODULE DocWrite ------------------------------
(***************************************************************************)
(* The knowledge documents: DocService.write over GitBackedDocStore, GET   *)
(* /docs/{id}, and the editors that read a document and save it with the   *)
(* revision they read (optimistic concurrency, INV-ST-6).                  *)
(*                                                                         *)
(* Threads of the pool interleave between the reads of the work tree, the  *)
(* runs of git and the lock.  The store's lock covers the writing and the  *)
(* commit, not the checks of DocService before them.                       *)
(***************************************************************************)
EXTENDS Naturals, FiniteSets

CONSTANTS
    Handlers,     \* threads of the pool
    Serves,       \* Serves[h]: the requests thread h is given
    Editors,      \* people with a document open
    Paths,        \* an interval of naturals: the sorted paths of the Space
    Ids,          \* ids a document may declare
    MaxWrites,    \* bound: writes ever sent (guards only)
    GitMayFail,   \* whether git add and git commit may fail
    MayRestart,   \* whether the process may die
    None

Requests == {"read", "write"}

Versions == 1..MaxWrites

\* A document: the id in its frontmatter, its version, and the versions whose
\* changes are in it (the one it was edited from, and those in that one).
Doc == [id : Ids, ver : Versions, has : SUBSET Versions]

\* A file truncated and not yet written: its frontmatter does not parse.
Torn == [id |-> None, ver |-> 0, has |-> {}]

\* What an editor holds: a document, and the revision it was served with.
Copy == [path : Paths, doc : Doc, rev : Nat]

\* The steps of a write: the three checks, the lock, the file, git, the answer.
WriteSteps == {"id", "rev", "prior", "lock", "write", "add", "diff", "commit", "answer"}

\* What is left of GET /docs/{id} once the document is read: its revision.
ReadSteps == {"get_rev"}

Job == [editor : Editors, step : WriteSteps \cup ReadSteps, path : Paths,
        doc : Doc, base_rev : Nat, current_rev : Nat]

ASSUME DocAssumption ==
    /\ Serves \in [Handlers -> SUBSET Requests]
    /\ Paths \subseteq Nat
    /\ MaxWrites \in Nat
    /\ GitMayFail \in BOOLEAN /\ MayRestart \in BOOLEAN
    /\ None \notin Doc /\ None # Torn /\ None \notin Job /\ None \notin Copy
    /\ None \notin Ids

VARIABLES
    worktree,  \* worktree[p]: the file at p, None where there is none
    index,     \* what is staged
    head,      \* the tree of the last commit
    rev,       \* rev[p]: the last commit that changed p, 0 if none did
    commits,   \* how many commits there are
    written,   \* how many writes were sent; a new version gets that number
    job,       \* job[h]: the request thread h serves, None when it is free
    copy,      \* copy[e]: what editor e has open
    logged,    \* the versions in the commits of `git log`
    acked      \* history: versions whose write was answered with success

vars == <<worktree, index, head, rev, commits, logged, written, job, copy, acked>>

Init ==
    /\ worktree = [p \in Paths |-> None]
    /\ index = [p \in Paths |-> None]
    /\ head = [p \in Paths |-> None]
    /\ rev = [p \in Paths |-> 0]
    /\ commits = 0
    /\ written = 0
    /\ job = [h \in Handlers |-> None]
    /\ copy = [e \in Editors |-> None]
    /\ logged = {}
    /\ acked = {}

git == <<index, head, rev, commits, logged>>
-----------------------------------------------------------------------------
(* Reading the store. *)

At(h, step) == job[h] # None /\ job[h].step = step

\* Files _iter_docs finds and does not quarantine.
Parsed == {p \in Paths : worktree[p] # None /\ worktree[p] # Torn}

Holding(id) == {p \in Parsed : worktree[p].id = id}

\* store.get(id) finds p: the first file in path order that declares the id.
Found(p, id) == p \in Holding(id) /\ \A q \in Holding(id) : p <= q

Idle(e) == \A h \in Handlers : job[h] # None => job[h].editor # e

Goto(h, step) == job' = [job EXCEPT ![h].step = step]

Finish(h) == job' = [job EXCEPT ![h] = None]
-----------------------------------------------------------------------------
(* Requests. *)

\* An editor opens a document.
BeginRead(h) ==
    \E e \in Editors, id \in Ids, path \in Paths :
        /\ job[h] = None /\ "read" \in Serves[h]
        /\ Idle(e)
        /\ Found(path, id)
        /\ job' = [job EXCEPT ![h] =
               [editor |-> e, step |-> "get_rev", path |-> path,
                doc |-> worktree[path], base_rev |-> 0, current_rev |-> 0]]
        /\ UNCHANGED <<worktree, git, written, copy, acked>>

\* store.rev(path), after the document was read.
ReadRev(h) ==
    /\ At(h, "get_rev")
    /\ copy' = [copy EXCEPT ![job[h].editor] =
           [path |-> job[h].path, doc |-> job[h].doc, rev |-> rev[job[h].path]]]
    /\ Finish(h)
    /\ UNCHANGED <<worktree, git, written, acked>>

Send(h, e, path, doc, base) ==
    /\ job[h] = None /\ "write" \in Serves[h]
    /\ Idle(e)
    /\ job' = [job EXCEPT ![h] =
           [editor |-> e, step |-> "id", path |-> path, doc |-> doc,
            base_rev |-> base, current_rev |-> 0]]
    /\ UNCHANGED <<worktree, git, copy, acked>>

\* A new version, with the changes of the one it was edited from.
Edited(id, has) == [id |-> id, ver |-> written + 1, has |-> has \cup {written + 1}]

\* An editor saves a new document, with no base_rev.
BeginCreate(h) ==
    \E e \in Editors, path \in Paths, id \in Ids :
        /\ written < MaxWrites
        /\ written' = written + 1
        /\ Send(h, e, path, Edited(id, {}), 0)

\* An editor saves the document it has open, under any id.
BeginUpdate(h) ==
    \E e \in Editors, id \in Ids :
        /\ copy[e] # None
        /\ written < MaxWrites
        /\ written' = written + 1
        /\ Send(h, e, copy[e].path, Edited(id, copy[e].doc.has), copy[e].rev)

\* An editor saves the document it has open as it is.
BeginResave(h) ==
    \E e \in Editors :
        /\ copy[e] # None
        /\ written < MaxWrites
        /\ written' = written + 1
        /\ Send(h, e, copy[e].path, copy[e].doc, copy[e].rev)
-----------------------------------------------------------------------------
(* DocService.write. *)

\* The request is refused (409); the store is as it was.
Refuse(h) ==
    /\ Finish(h)
    /\ UNCHANGED <<worktree, git, written, copy, acked>>

Proceed(h, step) ==
    /\ Goto(h, step)
    /\ UNCHANGED <<worktree, git, written, copy, acked>>

\* Slip: only the path is looked at.
NoDuplicates(h) == FALSE

Duplicate(h) == \E p \in Paths : Found(p, job[h].doc.id) /\ p # job[h].path

\* INV-ST-4: the id may belong to no other path.
CheckId(h) ==
    /\ At(h, "id")
    /\ \/ Duplicate(h) /\ Refuse(h)
       \/ ~Duplicate(h) /\ Proceed(h, "rev")

\* store.rev(path): a path never committed has no checks to pass.
CheckRev(h) ==
    /\ At(h, "rev")
    /\ job' = [job EXCEPT
           ![h].current_rev = rev[job[h].path],
           ![h].step = IF rev[job[h].path] = 0 THEN "lock" ELSE "prior"]
    /\ UNCHANGED <<worktree, git, written, copy, acked>>

Renames(h) ==
    job[h].path \in Parsed /\ worktree[job[h].path].id # job[h].doc.id

\* Slip: the base revision is not compared.
NeverStale(h) == FALSE

Stale(h) == job[h].base_rev # job[h].current_rev

\* IdChanged and Conflict: the id of a path is stable, the base is current.
CheckPrior(h) ==
    /\ At(h, "prior")
    /\ \/ (Renames(h) \/ Stale(h)) /\ Refuse(h)
       \/ ~Renames(h) /\ ~Stale(h) /\ Proceed(h, "lock")
-----------------------------------------------------------------------------
(* GitBackedDocStore.write. *)

\* Steps with the store's lock held.
LockSteps == {"write", "add", "diff", "commit"}

LockFree == \A h \in Handlers : job[h] # None => job[h].step \notin LockSteps

\* Slip: the file is staged before it is written.
LockThenAdd(h) ==
    /\ At(h, "lock")
    /\ LockFree
    /\ worktree' = [worktree EXCEPT ![job[h].path] = Torn]
    /\ Goto(h, "add")
    /\ UNCHANGED <<git, written, copy, acked>>

\* The lock is taken and the file truncated.
Lock(h) ==
    /\ At(h, "lock")
    /\ LockFree
    /\ worktree' = [worktree EXCEPT ![job[h].path] = Torn]
    /\ Goto(h, "write")
    /\ UNCHANGED <<git, written, copy, acked>>

WriteText(h) ==
    /\ At(h, "write")
    /\ worktree' = [worktree EXCEPT ![job[h].path] = job[h].doc]
    /\ Goto(h, "add")
    /\ UNCHANGED <<git, written, copy, acked>>

GitAdd(h) ==
    /\ At(h, "add")
    /\ index' = [index EXCEPT ![job[h].path] = worktree[job[h].path]]
    /\ Goto(h, "diff")
    /\ UNCHANGED <<worktree, head, rev, commits, logged, written, copy, acked>>

\* git diff --cached --quiet -- <path>: an unchanged document needs no commit.
GitDiff(h) ==
    /\ At(h, "diff")
    /\ Proceed(h, IF index[job[h].path] = head[job[h].path] THEN "answer" ELSE "commit")

\* Slip: the revision is the first commit of the path, not the last.
GitCommitFirstRev(h) ==
    /\ At(h, "commit")
    /\ head' = index
    /\ commits' = commits + 1
    /\ rev' = [p \in Paths |->
                 IF index[p] # head[p] /\ rev[p] = 0 THEN commits + 1 ELSE rev[p]]
    /\ logged' = logged \cup {index[p].ver : p \in {q \in Paths : index[q] # head[q]}}
    /\ Goto(h, "answer")
    /\ UNCHANGED <<worktree, index, written, copy, acked>>

\* git commit: everything staged becomes the new HEAD.
GitCommit(h) ==
    /\ At(h, "commit")
    /\ head' = index
    /\ commits' = commits + 1
    /\ rev' = [p \in Paths |-> IF index[p] # head[p] THEN commits + 1 ELSE rev[p]]
    /\ logged' = logged \cup {index[p].ver : p \in {q \in Paths : index[q] # head[q]}}
    /\ Goto(h, "answer")
    /\ UNCHANGED <<worktree, index, written, copy, acked>>

\* Slip: GitWriteError is swallowed.
GitFailsUnnoticed(h) ==
    /\ GitMayFail
    /\ At(h, "add") \/ At(h, "commit")
    /\ Proceed(h, "answer")

\* GitWriteError: the lock is released, the file and the index stay.
GitFails(h) ==
    /\ GitMayFail
    /\ At(h, "add") \/ At(h, "commit")
    /\ Refuse(h)

\* The answer carries store.rev(path), read again without the lock.  A client may go
\* on from it; the web editor reads the document again (BeginRead).
Answer(h) ==
    /\ At(h, "answer")
    /\ copy' = [copy EXCEPT ![job[h].editor] =
           [path |-> job[h].path, doc |-> job[h].doc, rev |-> rev[job[h].path]]]
    /\ acked' = acked \cup {job[h].doc.ver}
    /\ Finish(h)
    /\ UNCHANGED <<worktree, git, written>>

\* The process dies and is started again on the same clone.
Restart ==
    /\ MayRestart
    /\ job' = [h \in Handlers |-> None]
    /\ UNCHANGED <<worktree, git, written, copy, acked>>
-----------------------------------------------------------------------------
Arrive(h) == BeginRead(h) \/ BeginCreate(h) \/ BeginUpdate(h) \/ BeginResave(h)

Advance(h) ==
    \/ ReadRev(h) \/ CheckId(h) \/ CheckRev(h) \/ CheckPrior(h)
    \/ Lock(h) \/ WriteText(h) \/ GitAdd(h) \/ GitDiff(h) \/ GitCommit(h)
    \/ GitFails(h) \/ Answer(h)

Next == (\E h \in Handlers : Arrive(h) \/ Advance(h)) \/ Restart

Spec == Init /\ [][Next]_vars
-----------------------------------------------------------------------------
\* Type invariant of the clone, the requests and the editors' copies.
TypeOK ==
    /\ worktree \in [Paths -> Doc \cup {Torn, None}]
    /\ index \in [Paths -> Doc \cup {None}]
    /\ head \in [Paths -> Doc \cup {None}]
    /\ rev \in [Paths -> 0..commits]
    /\ commits \in Nat
    /\ written \in 0..MaxWrites
    /\ job \in [Handlers -> Job \cup {None}]
    /\ copy \in [Editors -> Copy \cup {None}]
    /\ logged \subseteq Versions
    /\ acked \subseteq Versions

\* INV-ST-1: a version whose write was answered with success is in a commit, never
\* in the work tree or the index alone, whatever other threads write, git refuses
\* or a restart interrupts.
AckedIsLogged == acked \subseteq logged

\* INV-ST-6: a commit never replaces a version that was reported as saved by one
\* made without knowledge of it.
NoLostUpdate ==
    [][\A p \in Paths :
           head[p] # None /\ head[p].ver \in acked /\ head'[p] # head[p]
               => head[p].ver \in head'[p].has]_vars

\* INV-ST-4: no two committed documents have the same id.
UniqueIds ==
    \A p, q \in Paths :
        head[p] # None /\ head[q] # None /\ head[p].id = head[q].id => p = q

\* INV-ST-4: an id, once committed, is that document's for good: neither does it change
\* nor is it given to a document committed later.
IdsForGood ==
    [][\A p, q \in Paths :
           head[p] # None /\ head'[q] # None => (head'[q].id = head[p].id <=> p = q)]_vars

\* INV-ST-6: whoever holds the current revision of a document holds its current
\* content, so that saving with that base_rev loses nothing.
RevMeansContent ==
    \A e \in Editors :
        copy[e] # None /\ copy[e].rev = rev[copy[e].path] /\ rev[copy[e].path] > 0
            => head[copy[e].path].ver \in copy[e].doc.has
=============================================================================
