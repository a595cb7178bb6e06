----------------------------- MODULE TicketRepo -----------------------------
(***************************************************************************)
(* The ticket repository: GitBackedTicketStore, GitBackedCommentStore and  *)
(* GitBackedAttachmentStore over one clone, each with a lock of its own.   *)
(*                                                                         *)
(* A put holds its store's lock, truncates and writes its file in the work *)
(* tree, and calls commit_paths: `git add` of that file, `git diff         *)
(* --cached` of the whole index, `git commit` of the whole index.  The     *)
(* index and HEAD belong to all three stores.  Each git process is one     *)
(* step here; it may fail while another thread is at a git process too     *)
(* (index.lock), and for any reason if GitMayFail.                         *)
(***************************************************************************)
EXTENDS Naturals, Sequences, FiniteSets

CONSTANTS
    Handlers,    \* threads of the pool
    TicketIds,
    Humans,      \* who a commit is made on behalf of
    Texts,       \* what a file may say
    Says,        \* Says[store]: what the files of that store may say
    MaxFiles,    \* bound: comments and attachments of a ticket (guards only)
    GitMayFail,  \* whether git fails for other reasons than index.lock
    MayRestart,  \* whether the process may die
    None

Stores == {"ticket", "comment", "attachment"}

\* Files of the clone: tickets/<id>.md, the numbered files below
\* tickets/<id>/comments and tickets/<id>/attachments, and .gitattributes.
TicketFile(t) == [kind |-> "ticket", of |-> t, n |-> 0]
Numbered(store, t, i) == [kind |-> store, of |-> t, n |-> i]
GitAttributes == [kind |-> "rule", of |-> None, n |-> 0]

File ==
    {TicketFile(t) : t \in TicketIds}
    \cup {Numbered(store, t, i) :
            store \in {"comment", "attachment"}, t \in TicketIds, i \in 1..MaxFiles}
    \cup {GitAttributes}

\* A file's content, with the human its put names; "torn" is a file truncated
\* and not yet written.
Content == [behalf : Humans \cup {None}, text : Texts \cup {"lfs"}]
Torn == [behalf |-> None, text |-> "torn"]

LfsRule == [behalf |-> None, text |-> "lfs"]

\* One write_text and commit_paths; the rest of the put may hold another.
Write == [file : File, content : Content]

\* What a put does next.
Steps == {"truncate", "write", "add", "diff", "commit"}

Job == [store : Stores, step : Steps,
        file : File, content : Content,
        rest : Write \cup {None}]   \* what the put writes after this file

ASSUME RepoAssumption ==
    /\ MaxFiles \in Nat
    /\ GitMayFail \in BOOLEAN /\ MayRestart \in BOOLEAN
    /\ "torn" \notin Texts
    /\ Says \in [Stores -> SUBSET Texts]
    /\ None \notin Content /\ None # Torn /\ None \notin Write /\ None \notin Job

VARIABLES
    worktree,  \* worktree[f]: what f holds on disk, None where there is no f
    index,     \* what is staged
    head,      \* the tree of the last commit
    latest,    \* the last commit: what it changed, and its On-Behalf-Of trailer
    job,       \* job[h]: the put thread h is in, holding its store's lock
    acked      \* history: acked[f] is the content of the last put of f that
               \* returned to its caller

vars == <<worktree, index, head, latest, job, acked>>

Init ==
    /\ worktree = [f \in File |-> None]
    /\ index = [f \in File |-> None]
    /\ head = [f \in File |-> None]
    /\ latest = None
    /\ job = [h \in Handlers |-> None]
    /\ acked = [f \in File |-> None]
-----------------------------------------------------------------------------
(* Puts begin. *)

At(h, step) == job[h] # None /\ job[h].step = step

\* Slip: a put does not wait for its store's lock.
FreeAtOnce(store) == TRUE

\* No thread is inside the store's lock.
Free(store) == \A h \in Handlers : job[h] # None => job[h].store # store

\* The files the glob over a numbered directory finds.
Listing(store, t) ==
    {f \in File : f.kind = store /\ f.of = t /\ worktree[f] # None}

\* One more than the files there are.
NextFile(store, t) == Numbered(store, t, Cardinality(Listing(store, t)) + 1)

\* Bound: a ticket with fewer than MaxFiles comments and attachments may get more.
Room(t) ==
    Cardinality(Listing("comment", t)) + Cardinality(Listing("attachment", t)) < MaxFiles

Begin(h, store, file, content, rest) ==
    /\ job[h] = None
    /\ Free(store)
    /\ job' = [job EXCEPT ![h] =
           [store |-> store, step |-> "truncate", file |-> file,
            content |-> content, rest |-> rest]]
    /\ UNCHANGED <<worktree, index, head, latest, acked>>

\* GitBackedTicketStore.put, on behalf of the requester: of a ticket that was loaded, of
\* a new one, or of one the migration creates again over a file a restart left torn.
BeginTicket(h) ==
    \E t \in TicketIds, requester \in Humans, text \in Says["ticket"] :
        Begin(h, "ticket", TicketFile(t), [behalf |-> requester, text |-> text], None)

\* GitBackedCommentStore.add, on behalf of the author.
BeginComment(h) ==
    \E t \in TicketIds, author \in Humans, text \in Says["comment"] :
        /\ Room(t)
        /\ Begin(h, "comment", NextFile("comment", t),
                 [behalf |-> author, text |-> text], None)

\* GitBackedAttachmentStore.put, on nobody's behalf: _ensure_lfs commits the LFS
\* rule first when .gitattributes does not have it.
BeginAttachment(h) ==
    \E t \in TicketIds, text \in Says["attachment"] :
        LET content == [behalf |-> None, text |-> text]
            file    == NextFile("attachment", t)
        IN  /\ Room(t)
            /\ IF worktree[GitAttributes] = LfsRule
               THEN Begin(h, "attachment", file, content, None)
               ELSE Begin(h, "attachment", GitAttributes, LfsRule,
                          [file |-> file, content |-> content])
-----------------------------------------------------------------------------
(* The steps of a put. *)

Goto(h, step) == job' = [job EXCEPT ![h].step = step]

\* The put raises: the lock is released, the tree and the index stay.
Fail(h) ==
    /\ job' = [job EXCEPT ![h] = None]
    /\ UNCHANGED <<worktree, index, head, latest, acked>>

\* commit_paths returns: on to the rest of the put, or back to the caller.
Return(h) ==
    IF job[h].rest # None
    THEN /\ job' = [job EXCEPT ![h] =
                [store |-> job[h].store, step |-> "truncate",
                 file |-> job[h].rest.file, content |-> job[h].rest.content,
                 rest |-> None]]
         /\ UNCHANGED acked
    ELSE /\ job' = [job EXCEPT ![h] = None]
         /\ acked' = [acked EXCEPT ![job[h].file] = job[h].content]

\* Slip: the file is staged before it is written.
TruncateThenAdd(h) ==
    /\ At(h, "truncate")
    /\ worktree' = [worktree EXCEPT ![job[h].file] = Torn]
    /\ Goto(h, "add")
    /\ UNCHANGED <<index, head, latest, acked>>

\* write_text opens the file for writing.
Truncate(h) ==
    /\ At(h, "truncate")
    /\ worktree' = [worktree EXCEPT ![job[h].file] = Torn]
    /\ Goto(h, "write")
    /\ UNCHANGED <<index, head, latest, acked>>

WriteText(h) ==
    /\ At(h, "write")
    /\ worktree' = [worktree EXCEPT ![job[h].file] = job[h].content]
    /\ Goto(h, "add")
    /\ UNCHANGED <<index, head, latest, acked>>

\* git add -- <file>.
GitAdd(h) ==
    /\ At(h, "add")
    /\ index' = [index EXCEPT ![job[h].file] = worktree[job[h].file]]
    /\ Goto(h, "diff")
    /\ UNCHANGED <<worktree, head, latest, acked>>

\* Slip: the exit status of `git diff` is read the wrong way round.
GitDiffInverted(h) ==
    /\ At(h, "diff")
    /\ \/ index # head /\ Return(h)
       \/ index = head /\ Goto(h, "commit") /\ UNCHANGED acked
    /\ UNCHANGED <<worktree, index, head, latest>>

\* git diff --cached --quiet: nothing staged by anybody, nothing to commit.
GitDiff(h) ==
    /\ At(h, "diff")
    /\ \/ index = head /\ Return(h)
       \/ index # head /\ Goto(h, "commit") /\ UNCHANGED acked
    /\ UNCHANGED <<worktree, index, head, latest>>

\* git commit: whatever is staged, on behalf of this put's human.
GitCommit(h) ==
    /\ At(h, "commit")
    /\ index # head
    /\ head' = index
    /\ latest' = [changed |-> {index[f] : f \in {g \in File : index[g] # head[g]}},
                  behalf |-> job[h].content.behalf]
    /\ Return(h)
    /\ UNCHANGED <<worktree, index>>

\* Another thread's commit took the staged file along: git commit finds nothing
\* to commit, exits with 1, and the put raises GitWriteError.
NothingToCommit(h) ==
    /\ At(h, "commit")
    /\ index = head
    /\ Fail(h)

AtGit(h) == job[h] # None /\ job[h].step \in {"add", "diff", "commit"}

\* Slip: a failing git is taken for a success.
GitFailsUnnoticed(h) ==
    /\ At(h, "add") \/ At(h, "commit")
    /\ GitMayFail \/ \E other \in Handlers \ {h} : AtGit(other)
    /\ Return(h)
    /\ UNCHANGED <<worktree, index, head, latest>>

\* git add or git commit fails, because another git process has index.lock or
\* moved HEAD meanwhile, or for reasons of its own.
GitFails(h) ==
    /\ At(h, "add") \/ At(h, "commit")
    /\ GitMayFail \/ \E other \in Handlers \ {h} : AtGit(other)
    /\ Fail(h)

\* The process dies and is started again on the same clone.
Restart ==
    /\ MayRestart
    /\ job' = [h \in Handlers |-> None]
    /\ UNCHANGED <<worktree, index, head, latest, acked>>
-----------------------------------------------------------------------------
Arrive(h) == BeginTicket(h) \/ BeginComment(h) \/ BeginAttachment(h)

Advance(h) ==
    \/ Truncate(h) \/ WriteText(h) \/ GitAdd(h) \/ GitDiff(h)
    \/ GitCommit(h) \/ NothingToCommit(h) \/ GitFails(h)

Next == (\E h \in Handlers : Arrive(h) \/ Advance(h)) \/ Restart

Spec == Init /\ [][Next]_vars
-----------------------------------------------------------------------------
Tree == [File -> Content \cup {Torn, None}]

\* Type invariant of the clone and of the puts under way.
TypeOK ==
    /\ worktree \in Tree
    /\ index \in [File -> Content \cup {None}]
    /\ head \in [File -> Content \cup {None}]
    /\ latest \in [changed : SUBSET Content, behalf : Humans \cup {None}] \cup {None}
    /\ job \in [Handlers -> Job \cup {None}]
    /\ acked \in [File -> Content \cup {None}]

\* INV-ST-1 for one call: a put that returns has its content in HEAD, whichever
\* thread's commit took it there.
ReturnsCommitted ==
    [][\A f \in File : acked'[f] # acked[f] => head'[f] = acked'[f]]_vars

\* INV-ST-1 from then on: a comment or attachment whose put returned stays in
\* HEAD as it was written, and a ticket stays in HEAD in some version, although
\* other stores' commits, failing puts and restarts come in between.
AckedIsCommitted ==
    \A f \in File : acked[f] # None =>
        /\ head[f] # None
        /\ f.kind \in {"comment", "attachment"} => head[f] = acked[f]

\* Comments and attachments are append-only: a file once written whole is not
\* rewritten, however puts, failures and restarts follow one another (the next
\* number is counted from the files found).
AppendOnly ==
    [][\A f \in File :
           f.kind \in {"comment", "attachment"} /\ worktree[f] \in Content
               => worktree'[f] = worktree[f]]_vars

-----------------------------------------------------------------------------
(* What the code says of itself, and what three locks on one index do. *)

\* INV-ID-4: the trailer of a commit names the human behind each change in it.
CommitsAttributed ==
    latest # None => \A change \in latest.changed : change.behalf = latest.behalf

\* INV-ST-1: when no put is under way, nothing is on disk, and served to
\* readers, that is not in a commit.
CleanAtRest ==
    (\A h \in Handlers : job[h] = None) => worktree = head
=============================================================================
