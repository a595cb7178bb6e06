# Scree, verified

TLA+ specifications of Scree's core: what its gateway and stores do when requests
overlap, when git or OpenFGA fails, and when the process restarts. TLC checks the
specifications on small instances; TLAPS proves what matters most for every
instance. Everything here is translated from `src/api/scree` (and, where named, from
`src/web/src`); the specs under `src/specs` are quoted as what the code promises,
never as what it does.

## 1. The system

Scree is a gateway in front of Git repositories. A FastAPI application
(`gateway/app.py`) serves documents, tickets, risks, portfolio data and search over
HTTP. Git clones hold documents, tickets and risks; OpenFGA holds who may read a
ticket; Vault Transit (or Fernet) holds a key per requester; an identity directory
outside Git maps e-mail addresses to opaque ids. Everything else (search index,
caches, quarantine, rate limits, audit chain) is in the memory of one process.

Every route is a plain `def`, so FastAPI runs it on a thread of its pool: requests
interleave between any two calls. There is no lock around a request. The only locks
are those of the Git stores, one per store object, around one write and its commit.
The audit middleware is `async` and records without an await.

| Component | State | Operations | Meets | What is hard |
|---|---|---|---|---|
| Ticket service (`servicedesk/service.py`) | none of its own | create, capture, link, reply, transition, promote, ingest e-mail, read comments, community search | ticket store, comment store, authority, crypto | load-check-put of whole records by concurrent threads; two readings of one ticket in one request; a grant that fails after the put |
| Ticket, comment and attachment stores (`servicedesk/git_store.py`, `git_comments.py`, `portal/stores.py`) | one work tree, one index, one HEAD | put, add, get, list | git | three locks on one index; torn files; failing git; restarts |
| Document service (`knowledge/doc_service.py`, `knowledge/git_store.py`) | a clone | write with `base_rev`, get, history | git, the web editor | checks outside the lock; content and revision read apart; what a failed write leaves |
| Search index (`indexing/index.py`) | two dictionaries, `as_of` | rebuild, upsert, search | document and risk stores | webhook racing a rebuild; rebuild visible half-done; partitions; texts that git refuses, files left truncated |
| Erasure (`access/erasure.py`) | receipts | erase | identity directory, OpenFGA, quarantine, crypto | five steps, any of which may fail; tickets created meanwhile |
| Identity directory (`access/identity.py`) | two maps, a JSON file | resolve, email_for, erase, save | e-mail intake, erasure | map and file written by several threads |
| E-mail intake (`integration/o365/*`, `email_routing.py`, `quarantine.py`) | quarantine list, `_email_seq` | poll, route, ingest | ticket service, identity directory | redelivery, restart, a batch cut short; tickets looked up while their files are rewritten |
| Migration (`migration/pipeline.py`) | the target stores | run | ticket service, document service | a run that fails half-way, before or after it wrote, and is run again |
| Caches (`access/cache.py`, users of it in `gateway/app.py`) | values with an expiry | get, put | GitLab, Keycloak | stale grants after revocation, last-known fallback |
| Rate limiter (`integration/slack/capture.py`) | hits per user | allow | capture and reindex routes | unlocked read-modify-write at the limit |
| Audit sink (`access/audit.py`) | hash chain | record, verify | middleware | chain integrity |
| Risk register (`risk/*`), portfolio (`planning/*`), orphans (`indexing/orphans.py`), authority tiers (`access/authority.py`) | a clone, or none | pure functions and one write path | gateway | boundaries of the algorithms |
| Web client (`web/src/auth`, `web/src/features/docs`) | session, drafts | sign-in, silent renew, edit and save | gateway | stale cached drafts, renewal racing a 401 |


What makes each of them correct is stated as the properties below and, for what is
still to come, in the plan (section 7). `PROJECT.json` lists the components with
what is and is not modelled of each, and the hazards, each at its line.

## 2. The modules

| Module | Models | Instances | Proofs |
|---|---|---|---|
| `TicketDesk` | the ticket service with its stores and authority, as the gateway's routes call it | `MCTicketDesk` | `TicketDeskProofs` |
| `TicketLifecycle` | what the desk promises about one ticket, whatever keeps it | refined in `TicketDesk` | in `TicketDeskProofs` |
| `TicketRepo` | the Git stores of tickets, comments and attachments over one clone | `MCTicketRepo` | `TicketRepoProofs` |
| `DocWrite` | reading and writing documents with revisions, over the Git store | `MCDocWrite` | `DocWriteProofs` |
| `SearchIndex` | the index, the batch, the webhook and searches, against stores that write in steps | `MCSearchIndex` | `SearchIndexProofs` |
| `Erasure` | the right to erasure over the identity directory and its file, OpenFGA, quarantine and keys | `MCErasure` | `ErasureProofs` |
| `Intake` | the mail poller with ingesting, and the migration pipeline | `MCIntake` | `IntakeProofs` |
| `GatewayAccess` | token and permission caches with the last-known fallback, and the limiter, by the clock | `MCGatewayAccess` | `GatewayAccessProofs` |
| `Oversight` | the orphan report, the portfolio page by page, `POST /risks`, and the audit log of it all | `MCOversight` | `OversightProofs` |

They share one way of modelling requests. A thread of FastAPI's pool is a *handler*;
`job[h]` is the request it serves, with the step it stands at and the values it holds in
local variables, or `None`. An action `BeginX(h)` is a request arriving, with the checks
the code makes before its first step that others can see between; every further action is
one call to a store, a git process or an external service, with the code around it. A
refused request (404, 403, 409) leaves nothing behind and is a guard, except where the refusal
is what a property is about. `Serves[h]` says which requests a thread is given, so that one
specification covers free concurrency, one writer beside readers, and requests one at a time.
In `SearchIndex`, `Intake`, `GatewayAccess` and `Oversight` the choice is made in the behaviour:
`Init` picks a `scenario` from the constant `Scenarios`, a set of records saying what each thread
serves and how far the counters go, so that one run checks several instances. The theorems hold
for every such set. `Slip` operators are plausible mistakes in the code; each property is run
against one of them (`mutants` in `PROJECT.json`) and is violated by it.

**TicketDesk.** `tickets`, `comments` and `viewers` are the ticket store, the comment store
and the OpenFGA tuples. A record is loaded whole, changed in `job[h].ticket` and put back whole
(`Insert`, `Stamp`, `Save`), as `dataclasses.replace` and `store.put` do; that makes lost
updates possible, and the properties say what they can and cannot do. `GitStore` selects the
store: with Git a put takes the lock and truncates the file (`OpenForWrite`), during which a
reader does not find the ticket (`Get`), and may fail after writing it (`CommitFails`).
`GrantMayFail` lets OpenFGA refuse. `curatedAt` is a history variable: the lengths of the thread
some promotion read.

**TicketLifecycle** has no handlers, stores or failures: a ticket has a status that makes
legal moves, a thread that grows, and what is curated of it. `TicketDesk!Implements` is the
refinement: `curated` is what `community_snapshot()` would hand out.

**TicketRepo** takes one put apart: `Truncate`, `WriteText`, `GitAdd`, `GitDiff`, `GitCommit`,
for each of three stores that have a lock each and one index, one HEAD and one work tree
together. `git diff --cached` without a path and `git commit` without a path look at the whole
index, so one store's commit may carry another's staged file (`NothingToCommit` is what the other
then meets). An attachment may need the LFS rule committed first (`rest`). The process may
restart between any two steps.

**DocWrite** has editors with a copy open (`copy[e]`: document and revision), a clone, and the
checks of `DocService.write` in the order the code makes them (`CheckId`, `CheckRev`,
`CheckPrior`), all before the lock. A document's `has` is the set of versions its text was
made with knowledge of: a save by an editor adds its own version to what the copy had, a new
document starts from nothing. `BeginResave` saves a document unchanged, which makes no commit.

**SearchIndex** has the two partitions as the code has them, two dictionaries without a lock, and
every `pop`, insertion and `clear` as a step. Both routes read the stores before they write
(`ReadNext`, `BeginEvent`). A store's put is three steps beside them: it truncates the file
(`Rewrite`), which readers then skip, writes the text (`Write`), which every reader sees from then
on, and only then has git commit it (`Commit`) or refuse it (`Refuse`); a refused text stays in the file,
and the next commit may take along what was staged. A restart ends the puts under way: a file
that was truncated stays so, and out of the index, until somebody writes it again. Whether the text is
committed (`uncommitted`) is nothing the index can see. A search lists one partition and then the
other (`ListMain`, `ListSensitive`), and answers with both. `covers` and `reported` are history
variables: how much the last rebuild is known to include, and the version the last answered webhook
was about.

**Erasure** takes `ErasureService.erase` apart, call by call: the two dictionaries of the identity
directory, the dump of them and the temporary file it is written through, the tuples read page by
page and deleted in batches, the held mail collected and removed, the key, the receipt. Each call
may raise (`MayFail`), after which the erasure may be asked for again. Beside it run what fills
these stores: first contacts that mint an id, tickets filed, granted and encrypted, mail held. All
writers share one temporary file, so the model tracks what a writer's open file is by now (`into`:
the temporary file, the directory's file after a rename, or neither). `subject`, `asked` and
`receipts` are history variables: whom an id was minted for, which erasures were begun, and what
the answered ones had found.

**Intake** has the two ways in that walk through a list and end where a call raises: `poll_once`
over a batch of mail and `MigrationPipeline.run` over items. Both are simply run again, so a
message or an item may be met in any state the failure left. A call that raises has done nothing
(`Raises`), or git has refused what is in the file already (`PutRaises`, `AppendRaises`,
`WriteRaises`): a ticket without its tuple, a comment, a document. What the mail infrastructure
vouches for is `verified`; `Route` sends a mail to its sender's own ticket, to a new ticket or
into the quarantine. A reply refers to its ticket by its headers or by the token, not by both. The id
of an imported ticket is a function of its item (`_deterministic_ticket_id`), which is what makes a
second run find the first one's. The store is the Git one: of two tickets with one message id it
yields the first by file name, and every lookup (`Matches`, `Migrated`) skips a ticket whose file
cannot be read (`Readable`), because another route is putting it (`Rewrite`, `Rewritten`) or a
restart came in between. A reply then files a ticket of its own, and an item is created again.
`missed` is a history variable for these; `half` has the items whose ticket was put and whose creation
then ended, which no later run completes. A new ticket, comment or document whose put a restart cuts
before its text is as if it were not there.

**GatewayAccess** has a clock. A membership is read from GitLab page by page while people join and
leave (`ReadPage`), which takes at most `MaxCall`, and stored with the time of the storing;
`last_spaces` is what is served during an outage. Caches are keyed as in the code, by the exchanged
GitLab token, and an exchange may yield a new one. The limiter is `allow` with its `_evict`, step
by step: a scan of the dictionary that raises when it has grown meanwhile, deletions that raise for
what is gone, and the hits of a user that are read, counted and written back. The code keeps them in a
list of times; the model numbers each grant and keeps a set of numbered times, since only how many are
later than the cutoff matters, not their order.

**Oversight** has the report listed from two stores, computed and published by batches that may
overlap (`ListRisks`, `ListTickets`, `Publish`), and served filtered by what the asker maintains
(`Serve`); a client that follows `next_cursor` while its groups change; and the middleware that
records each answer before it is sent, with a handler that may raise. A hash is modelled as the
term that is hashed, so equal hashes come from equal entries. Authority is configuration of a
process and changes with a restart.

Reads that go through a store's `_iter` (a scan of the files) are one step each in
`TicketDesk`, `TicketRepo` and `DocWrite`: every property there is about one file, which a scan
opens once. In `Intake` a lookup is one step too, and skips what is unreadable at that moment.
`SearchIndex` takes the scan of a rebuild apart, resource by resource, because it is about what
changes meanwhile.

## 3. The runs

Times are for two workers on a small machine; state counts are distinct states.

| Run | Instance | States | Shows |
|---|---|---|---|
| `desk_memory` | 2 threads serving anything, 1 ticket, 3 principals, threads of 2 comments | 780,746 | records stay consistent, identities fixed, bodies encrypted as decided at creation, outsiders see only what was promoted |
| `desk_refines` | Git store with failures, 1 mutating thread and 1 replying, linking and reading, fair | 252,063 | the desk implements `TicketLifecycle`; every put lets go of the lock |
| `repo` | 2 threads, 1 ticket, 2 comments or attachments, two versions of the ticket, git failing, restarts, tickets created again over a torn file | 991,635 | nothing torn is staged; a put that returns is committed and stays committed; numbered files are written once |
| `docs_serial` | 1 thread, 2 editors, 2 paths, 2 ids, 5 writes, no failures | 24,721 | unique and stable ids, revisions that mean content, no lost update |
| `docs_threads` | 2 threads, 2 editors, 1 path, 3 writes, git failing, restarts | 76,827 | what was acknowledged is in the log |
| `index` | 2 resources, 2 changes of them (texts written, removals), git refusing; 1 webhook and 1 restart; one thread serving everything, or rebuilds on one and the webhook on another; fair | 934,796 | webhooks are not undone; what was covered is indexed once, as written and in its partition; the index becomes again what the stores list |
| `erasure` | 1 thread resolving and erasing, 1 filing, 1 address, 2 ids, 2 tickets, 2 mails, pages of 1, calls failing, 1 restart | 1,472,959 | a receipt stays true: no address, tuple, mail or body comes back, also not from the file; nobody else is orphaned |
| `intake` | 3 mails by one poller (with redelivery, with a restart, beside another route's put) or by two at once; 4 items migrated over failures and 2 restarts, beside another route's put | 1,907,037 | mail is attributed to its verified sender, reaches its thread, and is dropped by nothing but a cut batch or a restart; a migration run again maps everything and repeats nothing |
| `access` | time to 4; a user whose tokens change, one with two pages, two threads reading for one user, one and two threads in the limiter; calls failing, outages | 2,066,926 | revocation and staleness are bounded by the caches; nobody is refused who is not at the limit |
| `oversight` | 2 threads with batches, reports and risks; a client paging through 3 epics of 2 groups; refusals, failures, a restart into another configuration | 1,919,663 | a report is exact as of its batch; paging shows everything once; every answer is in a log that shows tampering |

The longest take between one and three minutes. Two runs end in a counterexample, each of something a
document or comment promises; the quotes are in `PROJECT.json` (`findings`).

| Run | What happens |
|---|---|
| `docs_lost_update` | two saves with one `base_rev` both pass the check, the second replaces the first |
| `erasure_retry` | an erasure deletes the mapping and then fails in OpenFGA; asked for again, it finds no address, skips the quarantine and answers with a receipt |

### Further counterexamples

These configurations are kept beside the runs and end with a counterexample too
(`tlc -config X.cfg M`). They are why some properties above are checked for serial requests,
for the in-memory store or without an overlap only. Where a configuration has more than one
property, all but the first are commented out in it.

| Configuration | Property | What happens |
|---|---|---|
| `DeskLifecycle.cfg` (`MCTicketDesk`) | `VisibleOnlyFromResolved` | a promotion that loaded the ticket resolved is put back after another agent reopened it: public without a new resolve |
| | `OnlyLegalMoves` | a close computed from a resolved record is put after a reopen: open becomes closed |
| `DeskTorn.cfg` (`MCTicketDesk`) | `EncryptedAtRest` | a reply to an encrypted ticket, while its file is being rewritten, is stored in clear |
| | `CiphertextNeverShown` | a reader meets the file being rewritten and is shown ciphertext |
| `DeskCapturer.cfg` (`MCTicketDesk`) | `CapturerKept` | a transition between the two puts of a capture loses the capturer |
| `DeskGrantFails.cfg` (`MCTicketDesk`) | `RequesterCanRead` | the grant fails after the put: the requester can never read the ticket |
| `RepoAttributed.cfg` (`MCTicketRepo`) | `CommitsAttributed` | one store's commit takes along the file another store staged, under the wrong human's trailer |
| `RepoClean.cfg` (`MCTicketRepo`) | `CleanAtRest` | a put meets `index.lock` and raises; what it wrote is served and in no commit |
| `DocsTornRead.cfg` (`MCDocWrite`) | `RevMeansContent` | a commit falls between the reading of a document and of its revision |
| `DocsUniqueIds.cfg` (`MCDocWrite`) | `UniqueIds` | two new documents with one id pass the duplicate check together |
| `DocsFaultIds.cfg` (`MCDocWrite`) | `UniqueIds` | a failed write leaves a file without a revision, which later checks skip and a later commit takes along |
| `IndexGaps.cfg` (`MCSearchIndex`) | `NeverOlder` | a rebuild puts back the version it read before an answered webhook |
| | `SearchComplete` | a search between the clearing and the last insertion of a rebuild misses what is there before and after |
| | `OnlyCommitted` | git refuses a text, the next rebuild indexes it: the index holds what no commit has |
| `ErasureLateGrant.cfg` (`MCErasure`) | `NoTupleOutlives` | a ticket put before the erasure is granted after its tuples were read: the tuple outlives the receipt |
| `ErasureThreads.cfg` (`MCErasure`) | `FileParses` | two saves write to one temporary file, which is renamed with the rest of the longer text behind the shorter |
| | `StaysForgotten` | a save that dumped the maps before an erasure replaces the file after it |
| | `AddressForgotten` | two first contacts of one address mint two ids; erasing the one that lost leaves the address |
| `ErasureFaults.cfg` (`MCErasure`) | `RequestersSurvive` | the save after a first contact fails; asked again, the address is known in memory and nothing is saved; after a restart the requester is nobody |
| | `BodiesShredded` | Vault refuses the deletion, which is not looked at: the receipt says shredded and the key is there |
| `IntakeNobody.cfg` (`MCIntake`) | `NobodysTicket` | verified mail whose From does not parse files a ticket of nobody |
| `IntakeOnePoller.cfg` (`MCIntake`) | `TokensUnique` | the counter of tokens starts from zero after a restart |
| | `FiledOnce` | a first contact delivered twice files two tickets |
| | `RepliesFollow` | a reply is looked up while its ticket's file is being rewritten, and files a ticket of its own |
| | `HeldPersists` | what was held "for agent review" is gone after a restart |
| `IntakeTokenRace.cfg` (`MCIntake`) | `TokensUnique` | two pollers read the counter before either writes it |
| `IntakeBatch.cfg` (`MCIntake`) | `MailNotLost` | a mail whose ingest raises takes the rest of its batch with it |
| `MigrationContent.cfg` (`MCIntake`) | `ContentPreserved` | the grant or the content fails after the ticket was put; the next run skips the ticket |
| | `ContentOnce` | a run that finds the ticket's file being rewritten creates the ticket again and adds its content a second time |
| `MigrationOverlap.cfg` (`MCIntake`) | `ImportedOnce` | two runs at once import the content twice |
| `AccessGaps.cfg` (`MCGatewayAccess`) | `ReadsSurviveOutage` | a token exchanged anew during an outage has no last-known membership: the read is empty |
| | `WithinLimitAlways` | two threads count before either records: both pass at the limit |
| `OversightGaps.cfg` (`MCOversight`) | `NothingSkipped` | a membership lost between two pages moves an epic to a page read already |
| | `RemovalDetected` | the last entry can be removed and the chain verifies |
| | `NewestServed` | a batch begun earlier publishes over one begun later |

## 4. Bounds and fairness

Every bound is a constant or a field of the scenario used in guards only, of the actions that would
let a counter or a sequence grow: `MaxThread` (comments of a ticket, those on their way included),
`MaxFiles` (numbered files of a ticket), `MaxWrites` (writes sent), `MaxChanges`, `MaxRestarts`,
`MaxHeld` (mail held), `MaxTime` and `MaxGrants` (the limiter's history), and in scenarios
`changes`, `events`, `restarts`, `redeliveries`, `rewrites`, `requests` and `until`. No run uses a state
constraint.

Two threads are enough for every interleaving these properties are about: a third thread
in a request is one more writer or reader of the same record, and the counterexamples
found need two. One ticket is enough in `TicketDesk` and `TicketRepo` because nothing but the
lock (desk) and the index (repo) relates two tickets, and comments and attachments already
exercise the shared index. Documents do relate (ids), so there are two paths and two ids; with
five serial writes there is a create of each, edits by both editors from copies of different
age, and a rename attempt. Two resources are what the index needs for a rebuild that is past one
and not yet at the other; two changes let one be indexed and then recategorised, removed, or left
truncated, and an interrupted or refused write be followed by another.

An erasure needs two pages of tuples and two batches, hence two tickets and `Batch = 1`; one
address with two ids is erased, met again and given a new id; the second ticket is filed while the
first one's requester is erased, or afterwards. Three mails are a first contact and two answers, by
token and by header, which is what threading can go wrong with; two mail tickets may collide in
token or message id. Four items are a ticket with a reporter, one without, a document and an item
that is archived; one put of another route makes any one lookup miss. In `GatewayAccess` lifetimes
are as short as their order allows (`Ttl` 1, the time of a reading 1, last-known 2), so that by time 4 an
entry is stored, expires, is served as last-known and ages out; pages of one space make a listing of two pages. The limiter's window of 2
passes once or twice, with a limit of 2 in it. Three epics in two groups, alternating, on pages of
one, give a cursor something to be moved past; one risk and one ticket are enough for a report,
whose items do not meet, and two configurations for a restart that takes a space and an agent away.
The theorems have no bound but the constants themselves.

Fairness is assumed in two runs. `desk_refines`: each thread goes on with the request it serves
(`WF_vars(Advance(h))`), since the interpreter runs every thread; nobody owes requests.
`index`: the same; a batch is posted again and again and, as threads become free again and again,
gets one in the end (`SF_vars(BeginReindex(h))`), which is the scheduler's part and is what INV-IX-2
relies on; and a thread in a put goes on from truncating the file to writing its text
(`WF_vars(Write(i))`) as long as the process lives. Nobody owes a commit, nor the writing of a file
whose process died. Webhooks, searches, changes and restarts owe nothing.

Deadlock is checked in every run of the table: moving a ticket, reading a document, asking for a
reindex, erasing what is known, fetching mail, a probe and a process where nobody asks any more stay
possible when the bounds are used up. Only `ErasureFaults.cfg` says `CHECK_DEADLOCK FALSE`: with failing
first contacts the ids may be used up before there is a ticket to erase anybody of.

## 5. What is proved

17,198 obligations, for every number of threads, principals, tickets, editors, paths, texts,
mails, items, tokens and spaces, every lifetime, limit and page size, every set of scenarios and every
bound. The assumptions of all theorems are the named `ASSUME`s of the modules: typing of the constants;
that `None` is none of the values it is told apart from, an empty file neither a malformed one nor a
dump; that a token belongs to one user and two addresses have two ids; that the planning index lists an
epic once. Where a theorem needs more it has hypotheses, which are predicates on the constants: a
property that holds for requests one at a time only is proved for any instance in which one thread is
given them. The counterexamples in section 3 show what happens without most of them.

| Theorem | Says |
|---|---|
| `TicketDeskProofs!TypeCorrect` | `TypeOK`, with jobs that hold a ticket or a comment whenever their step needs one |
| `TicketDeskProofs!RecordsAreConsistent` | `RecordConsistent`: no interleaving stores a public ticket that is open or encrypted |
| `TicketDeskProofs!SnapshotsArePromoted` | `SnapshotAsPromoted`: the stored snapshot is the thread as a promotion read it |
| `TicketDeskProofs!OutsidersSeeOnlyCurated` | `OutsiderSeesOnlyCurated`: neither reading of the ticket lets an outsider past the snapshot |
| `TicketDeskProofs!IdentityIsFixed` | `IdentityFixed`: no put changes requester, encryption or assignee |
| `TicketDeskProofs!BodiesStaySealed` | `BodiesSealed`, over the in-memory store: no interleaving stores a body in clear or shows ciphertext |
| `TicketDeskProofs!DeskImplementsLifecycle` | `Implements`, over either store, if one thread at most is given create, capture, transition and promote |
| `TicketRepoProofs!TypeCorrect`, `ReturnsAreCommitted`, `AckedStaysCommitted`, `ThreadsAppendOnly` | `TypeOK`, `ReturnsCommitted`, `AckedIsCommitted`, `AppendOnly` |
| `DocWriteProofs!TypeCorrect`, `AckedStaysLogged` | `TypeOK`, `AckedIsLogged` |
| `DocWriteProofs!IdsAreForGood` | `IdsForGood`, if one thread writes (any number read) and nothing fails |
| `DocWriteProofs!RevisionMeansContent`, `NothingIsLost` | `RevMeansContent`, `NoLostUpdate`, if requests come one at a time and nothing fails |
| `SearchIndexProofs!TypeCorrect` | `TypeOK`, with the bound on writes under way included |
| `SearchIndexProofs!WebhooksAreNotUndone`, `IndexIsAsWritten` | `FresherWins`, `IndexedAsWritten`: requests one at a time keep the index as the files were when they were read, whatever git refuses and restarts leave |
| `ErasureProofs!TypeCorrect` | `TypeOK` |
| `ErasureProofs!FoundStaysGone` | the first two parts of `ReceiptHolds` (`TuplesPurged`, `QuarantineScrubbed`), whatever Vault answers |
| `ErasureProofs!ReceiptsHold` | `ReceiptHolds`, if Vault refuses no deletion, for any number of threads that resolve, file and erase the same subject |
| `ErasureProofs!ForgottenStays`, `AddressKeepsId` | `StaysForgotten`, `OneIdPerAddress`, if one thread resolves and erases and a dictionary does not raise half-way; saves may fail and the process restart |
| `ErasureProofs!NobodyOrphaned` | `RequestersSurvive`, if besides the save after a first contact does not fail |
| `IntakeProofs!TypeCorrect` | `TypeOK` |
| `IntakeProofs!MailIsItsSenders`, `MailIsKept` | `AttributedToSender`, `MailKept`, for any number of pollers, deliveries and failures |
| `IntakeProofs!RepliesThread` | `ThreadsToItsTicket`: by its headers always, by its token until a restart or until two threads have counted at once, unless the file of the ticket was unreadable when it was looked up |
| `IntakeProofs!RunAgainRepairs` | `MigrationRepairs`, for one operator at a time: mapped and stored always; complete but for what was cut short, once but for what was unreadable |
| `GatewayAccessProofs!RevocationIsBounded`, `AnswersAreCurrent` | `RevocationBounded`, `CurrentInTime`: the worst age of an answer is the sum the constants give |
| `GatewayAccessProofs!TypesHold`, `LimitIsExact` | `TypeOK`, `LimitExact`: nobody below the limit is refused, and nobody passes it while no two requests have been in `allow` at once |
| `OversightProofs!TypeCorrect`, `ReportsExactly` | `TypeOK`, `ReportExact`, for batches that overlap with each other and with what they list |
| `OversightProofs!PagesAddUp` | `PagedOnce`, for any list, page size and sequence of memberships |
| `OversightProofs!EveryAnswerIsLogged`, `TamperingShows` | `Audited`, `TamperEvident` |

*Desk.* `RecordConsistent` is not inductive: a put may store any copy a handler holds. The
strengthening says of each copy what the property says of the store: a copy about to be put
is `Curated`, differs from the stored record in nothing but what its operation changes, and a
fresh id is in nobody else's hands (`CopiesAgree`, `CopiesCurated`). For the readers
(`JobsCurated`) it says what the decision taken at `ReadRoute` still implies when the answer is
read: a job sent to the live thread is a participant's, since identities are fixed and tuples
are only added. `SealInv` says of bodies on their way what `BodiesSealed` says of those stored. It
needs the in-memory store, where a put is one assignment: whoever looks for the ticket finds it and its
`encrypted` flag, which is fixed. A snapshot is of a ticket that was public, hence not encrypted.

*Refinement.* `Implements` maps a ticket's status, its thread and what is curated of it to
`TicketLifecycle`. An insertion is its `File`, a put of a copy its `Move` or its `Promote`, an appended
comment its `Reply`; over the Git store a put takes effect when the file is written, whether the commit
succeeds or not. All other steps stutter. What the put of a stale copy could do is excluded by
`JobsDue`: only the thread that changes records holds a copy of one, so the record it loaded is still the
stored one up to what the operation changes, and the move the put makes is the one whose legality was
checked. The threads that link, reply and read are without limit.

*Repo.* `AckedIsCommitted` needs to know that no later put writes an acknowledged numbered file.
That follows from numbers being used without gaps (`Contiguous`), which a torn or uncommitted
file does not disturb since the listing counts it, from the file a put writes being above all
that are there (`NewFiles`), and from the store's lock (`Exclusive`). `OwnFiles` keeps the three
locks' files apart, so that what other threads do leaves a put's file alone; `Progress` says what
a put has done to it at each step, `Staged` that git add only adds, and `Kept` carries the
acknowledged files through work tree, index and HEAD. `AppendOnly` and `ReturnsCommitted` follow
from the same invariant for each step.

*Documents.* `AckedIsLogged` rests on the lock (`Mutex`), on `Progress` (the index holds this
write's document when git compares and commits), and on `HeadIsLogged`: when git finds nothing to
commit, the content was in HEAD already and so in the log. `IdsForGood` needs `InStep`: work tree,
index and HEAD agree on every document but the one being written, and what the checks of its writer found
out before the lock is still so, since nobody else writes. For `RevMeansContent` `Current` says
of every copy and every request what they know (`Knowing`): a revision that is the current one comes with
the current content, and no revision is one of a commit to come. `NoLostUpdate` follows for the step
that commits. When git may fail `RevMeansContent` is not to be expected: a file that was written and not
committed is served with the revision of the content before.

*Index.* What holds for one request at a time is not inductive step by step: between `clear` and the
last insertion nothing is as written. `Holding` says that what a job is about to place is not older
than what was reported and has no copy left in either dictionary (`Parted`), `Maintaining` that it has
read what was not written since it began, and that a rebuild has placed what it is done with.
`StillCovered` is the property for the resources no job is working on; when none is, it is all of them.

*Erasure.* What an erasure found when it began does not come back because everything is used once:
a ticket is filed by one request (`FiledOnce`), a tuple is granted in the step its ticket passes once,
a key bears the name of the ticket it was made for, and mail is held under growing numbers
(`UsedOnce`, `HeldInOrder`). `Past(t, S)` says that ticket t is beyond the steps S for good; what an
erasure found is past the steps that could restore it (`FoundSound`). `Erasing` says how far an
erasure has got: what it has not deleted is in the keys read or the mails collected. `World` is what
any step may do to all this, whoever takes it; `FoundStays` and `ErasingStays` carry the erasures of
the other threads and the receipts through it. The proof needs no limit on the threads that save the
directory: what the file holds matters to the properties of the directory only, which two of them can
violate.

*Directory.* With one thread the two dictionaries lead to each other (`Matched`) except between its two
assignments (`Between`), and `Knows` says what it has in hand at each step of a save: the text is the maps
as they are, the temporary file that text as far as it was written, and after the rename so is the
directory's file. A save that fails leaves memory and file apart, and a restart loads the file: `NotLost`
says that what the file has for an address is what memory has, unless it is an id whose erasure was begun.
`Forgotten` says of an answered erasure that neither leads to its id or back, and `Named` that whatever id
is in use was minted, so that a first contact gets another one. `Saved` says that an id anything bears
(a ticket, or a request that will file one) is on record in memory and in the file.

*Intake.* A poller's job carries who it files for (`MailJob`): after `Route` the requester is the
verified sender of the mail at hand, and the ticket it appends to is that requester's. For `MailKept`
`PollStep` and `BatchStep` follow one message through the step: what leaves Graph is in a batch, what
leaves a batch is in the quarantine or a comment unless the job ended, and comments are only added.
For migration, `MigrationJob` says that the items a run has passed are stored and mapped, so that all are
when it ends (`Finished`): a run that is repeated has everything to do again and skips only what it can
read. `Whole` says that a ticket that is there is complete, or its creation was cut short (`half`), or a
thread is about to complete it; `Once` that nothing was added yet to the ticket a run is at, unless the
lookup missed it, which one operator at a time makes true. For `ThreadsToItsTicket` `Threading` says that
the ticket a message on its way answers (`Followed`) is there, that one on its way into a new ticket
is a first contact or was missed, and that a filed message is at home in its ticket; `Counting`, for
as long as there was no restart and no race, says that no token in use is above the counter, and none at it
when a thread is about to use that value, such a thread being alone; so a token leads to one ticket.

*Access.* `CacheSound` relates an entry to what GitLab said: its expiry is at most `MaxCall + Ttl`
after anybody in it was a member, and if it expires later than that after the last change it is
exact. `Reading` says the same of a listing in progress, whose pages so far are the first pages of
the membership if nothing changed since it began (`PagesAdd`, on which a page adds to the ones
before it and the last one completes them). The clock, people joining and people leaving are one
lemma each about `Later`: nobody was a member less late than before. For the limiter, hits are numbered in the
order they are granted (`GrantsNumbered`), and what is remembered was granted (`HitsGranted`), however
threads overwrite each other; so who is refused has had the limit. While one request at a time is in
`allow` (`OneInAllow`) what counts at its time is remembered and nothing else has come since (`Exact`),
also past an eviction, which drops only what is too old to count.

*Oversight.* `Lists` says of a batch that each record it has read is the stored one unless that was written
since it began, `ReportSound` and `AnswerTells` carry this to the report and to an answer taken from it.
`Counted` adds the answers on their way (`Going`) to those sent: recording comes before sending, so
both together are no more than the log has (`Logged`). `Chained` says that an entry's hash is of its event
and of the hash before it, hashes being distinct; removing, swapping or changing an entry then leaves
a place where `verify` finds another one. Paging rests on `Followed`: the pages so far have what is
visible up to the cursor and nothing beyond it, in the list's order and each once. A gained group only
moves what is visible further back, a lost one forward, which is why the first cannot hide an epic and the
second cannot repeat one. The lemmas on `Place` and `Visible` are about a list filtered by position,
written with sets and functions so that they can be proved.

## 6. What is model-checked only

Liveness, `LockReleased` and `EventuallyFresh`, and with it everything that rests on fairness: the provers
have no rule for `WF_` and `SF_`, whose `ENABLED` they cannot expand. Every other property of a passing run
is stated by a theorem. Of those with hypotheses, what the runs check is an instance of them; the
configurations of section 3 show properties violated beyond; what lies between is neither proved nor
refuted.

Abstracted everywhere: file formats (a file parses or is torn), wording, logging, authentication,
and HTTP. The audit record of each request is in `Oversight` only. `uuid4` yields an id nobody has.
OpenFGA and git are what their callers rely on: a call that succeeds has happened, a call that fails
may have been refused for any reason; a failing OpenFGA write is taken not to have happened.
GitLab's listings are sorted and change only between two pages; Vault refuses a deletion or does it.

One assumption is about time. `GatewayAccess` bounds the whole reading of a membership by `MaxCall`
(`Tick`), and `RevocationBounded` and `CurrentInTime` count with it. The code bounds less: each
request to GitLab has a timeout of 10 s (`access/gitlab.py:27`), and the number of pages has no limit, so
`MaxCall` stands for ten seconds times the pages of the longest membership, plus the time a thread is
kept from running. Where that is not bounded, neither is the staleness of what the caches serve.

## 7. Plan

1. What the documents promise beside readers and beside failing git, in a weaker form that holds there;
   an abstract specification of the index and of the directory, as `TicketLifecycle` is for the desk.
2. The in-memory and the file-backed attachment store, which number without a lock.
3. The refusals during an outage (`_require_gitlab`) as a guard of the routes that have it.
4. The web client: drafts of the document editor over `DocWrite`, and silent renewal racing a 401.

### Not modelled

OIDC verification (a library's), YAML and MIME parsing (what they yield is an input), preferences and
the lookup of legacy ids (one dictionary access each), risk scores and severities (one-line functions)
and `escalate()`, which no route calls, the portal, portfolio and admin screens (presentation), charts and
the documentation build (no behaviour of the program).
