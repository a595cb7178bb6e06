------------------------------ MODULE Erasure ------------------------------
(***************************************************************************)
(* The right to erasure: ErasureService.erase over the identity directory  *)
(* (two dictionaries and a JSON file), the OpenFGA tuples, the quarantine  *)
(* queue and the per-requester keys, against the requests that fill them:  *)
(* first contacts that mint an id, tickets granted, bodies encrypted, mail *)
(* held.                                                                   *)
(*                                                                         *)
(* A handler is a thread; every call that another thread can see, or that  *)
(* may raise, is a step.  Nothing here is guarded by a lock.  The file is  *)
(* written through one temporary file with a fixed name, so the writers'   *)
(* open files are tracked: a rename moves the file another thread is       *)
(* still writing to.                                                       *)
(***************************************************************************)
EXTENDS Naturals, FiniteSets

CONSTANTS
    Handlers,    \* threads of the pool
    Serves,      \* Serves[h]: the operations thread h is given
    Emails,      \* addresses
    Oids,        \* opaque ids uuid4 may yield
    TicketIds,
    Batch,       \* OpenFGA page size and RealOpenFga.DELETE_BATCH
    MayFail,     \* <<operation, step>>: the calls that may raise
    VaultMayRefuse, \* whether Vault may answer a deletion with an error status
    MaxHeld,     \* bound: mails held (guards only)
    MaxRestarts, \* bound: restarts (guards only)
    Empty, Malformed, \* what a file may hold besides a dump of the maps
    None

Ops == {"contact", "file", "erase"}

\* What the maps say, and what a save writes.
Dump == [by_email : [Emails -> Oids \cup {None}], by_id : [Oids -> Emails \cup {None}]]

\* Contents of a file.  An absent directory file reads as an empty one.
Contents == Dump \cup {Empty, Malformed}

\* Where the file a writer has opened is by now.
Places == {"tmp", "path", "unlinked"}

Steps == {"lookup", "bind_email", "bind_id", "forget_id", "forget_email", "dump", "open",
          "write", "replace", "put", "grant", "encrypt", "append",
          "read", "delete", "collect", "remove", "destroy", "receipt"}

\* What an erasure finds when it begins (history).
Found ==
    [tuples : SUBSET TicketIds,    \* tickets it held a tuple on
     filed : SUBSET TicketIds,     \* tickets it is the requester of
     bodies : SUBSET TicketIds,    \* those whose body is stored encrypted
     mails : SUBSET (1..MaxHeld),  \* mail held from the address the directory gave for it
     pii : SUBSET (1..MaxHeld)]    \* mail held from the address it was minted for

Job ==
    [op : Ops, step : Steps, email : Emails \cup {None}, oid : Oids \cup {None},
     ticket : TicketIds \cup {None}, before : 0..Cardinality(Emails),
     popped : Emails \cup {None}, text : Dump \cup {None}, into : Places,
     keys : SUBSET TicketIds,       \* the tuples read and not yet deleted
     doomed : SUBSET (1..MaxHeld),  \* the mails collected and not yet removed
     key : TicketIds \cup {None},   \* the key a body was encrypted with
     found : Found]

ASSUME ErasureAssumption ==
    /\ Serves \in [Handlers -> SUBSET Ops]
    /\ IsFiniteSet(Emails) /\ Emails # {}
    /\ MayFail \subseteq Ops \X Steps
    /\ Batch \in Nat \ {0} /\ MaxHeld \in Nat /\ MaxRestarts \in Nat
    /\ VaultMayRefuse \in BOOLEAN
    /\ {Empty, Malformed, None} \cap Dump = {} /\ None \notin {Empty, Malformed} /\ Empty # Malformed
    /\ None \notin Emails \cup Oids \cup TicketIds \cup Job

VARIABLES
    by_email, by_id, \* IdentityDirectory
    path, tmp,       \* the directory's file, and its temporary file (None: absent)
    subject,         \* subject[o]: the address o was minted for, None before
    requester,       \* requester[t]: the ticket store, None before t is put
    tuples,          \* tuples[o]: tickets o holds a relation tuple on
    held,            \* the quarantine: held[n] is the claimed sender, None if removed
    mails,           \* mails held so far
    key,             \* key[o]: the current key, named by the ticket it was made for
    sealed,          \* sealed[t]: the key t's stored body is encrypted with, or None
    job,
    asked,           \* history: ids whose mapping an erasure has begun to delete
    receipts,        \* history: receipts[o]: what answered erasures of o found, None before
    restarts

directory == <<by_email, by_id>>
files == <<path, tmp>>
desk == <<requester, tuples, key, sealed>>
quarantine == <<held, mails>>
history == <<asked, receipts>>
vars == <<directory, files, subject, desk, quarantine, job, history, restarts>>

Nobody == [by_email |-> [e \in Emails |-> None], by_id |-> [o \in Oids |-> None]]

Init ==
    /\ by_email = Nobody.by_email /\ by_id = Nobody.by_id
    /\ path = Empty /\ tmp = None /\ subject = Nobody.by_id
    /\ requester = [t \in TicketIds |-> None]
    /\ tuples = [o \in Oids |-> {}]
    /\ held = [n \in 1..MaxHeld |-> None] /\ mails = 0
    /\ key = [o \in Oids |-> None]
    /\ sealed = [t \in TicketIds |-> None]
    /\ job = [h \in Handlers |-> None]
    /\ asked = {} /\ receipts = [o \in Oids |-> None]
    /\ restarts = 0
-----------------------------------------------------------------------------
(* Requests arrive. *)

At(h, step) == job[h] # None /\ job[h].step = step

Goto(h, step) == job' = [job EXCEPT ![h].step = step]

Finish(h) == job' = [job EXCEPT ![h] = None]

Free(t) == requester[t] = None /\ \A h \in Handlers : job[h] # None => job[h].ticket # t

Minted == {o \in Oids : subject[o] # None}

\* The ids anybody can name: those that tickets bear.
Known == {requester[t] : t \in TicketIds} \ {None}

HeldFrom(e) == {n \in 1..MaxHeld : e # None /\ held[n] = e}

\* TicketCrypto.decrypt succeeds: the key the body was sealed with is still there.
Readable(t) == sealed[t] # None /\ key[requester[t]] = sealed[t]

Nothing == [tuples |-> {}, filed |-> {}, bodies |-> {}, mails |-> {}, pii |-> {}]

FoundOf(o, email) ==
    [tuples |-> tuples[o],
     filed |-> {t \in TicketIds : requester[t] = o},
     bodies |-> {t \in TicketIds : requester[t] = o /\ sealed[t] # None},
     mails |-> HeldFrom(email),
     pii |-> IF by_email[subject[o]] \in {None, o} THEN HeldFrom(subject[o]) ELSE {}]

Begin(h, op, step, email, oid, t, found) ==
    /\ job[h] = None /\ op \in Serves[h]
    /\ job' = [job EXCEPT ![h] =
           [op |-> op, step |-> step, email |-> email, oid |-> oid, ticket |-> t,
            before |-> 0, popped |-> None, text |-> None, into |-> "tmp",
            keys |-> {}, doomed |-> {}, key |-> None, found |-> found]]
    /\ UNCHANGED <<directory, files, subject, desk, quarantine, history, restarts>>

\* Verified mail, a Slack author, an imported reporter: the address is resolved
\* and becomes the requester of a new ticket.  Bound: an id is left to mint.
BeginContact(h) ==
    /\ Cardinality(Oids \ Minted) > Cardinality({g \in Handlers : At(g, "lookup")})
    /\ \E e \in Emails, t \in TicketIds : Free(t) /\ Begin(h, "contact", "lookup", e, None, t, Nothing)

\* An agent files an encrypted ticket for a requester it knows by id, possibly
\* one that was erased: tickets keep the id.
BeginFile(h) ==
    \E o \in Known, t \in TicketIds : Free(t) /\ Begin(h, "file", "put", None, o, t, Nothing)

\* identity.email_for, before the mapping is deleted.
AddressOf(o) == by_id[o]

\* DELETE /identities/{id}.
BeginErase(h) ==
    \E o \in Known :
        Begin(h, "erase", "forget_id", AddressOf(o), o, None, FoundOf(o, AddressOf(o)))

\* Mail that is not verified, or not the requester's, is held under its claimed sender.
Hold(e) ==
    /\ mails < MaxHeld
    /\ mails' = mails + 1
    /\ held' = [held EXCEPT ![mails + 1] = e]
    /\ UNCHANGED <<directory, files, subject, desk, job, history, restarts>>
-----------------------------------------------------------------------------
(* IdentityDirectory and FileIdentityDirectory. *)

Mapped == {e \in Emails : by_email[e] # None}

\* Slip: an address is never found, as if it were not normalised before the lookup.
NeverMapped(e) == FALSE

IsMapped(e) == by_email[e] # None

\* resolve: a known address yields its id, an unknown one a new id.
Lookup(h) ==
    /\ At(h, "lookup")
    /\ LET e == job[h].email IN
       IF IsMapped(e)
       THEN /\ job' = [job EXCEPT ![h].oid = by_email[e], ![h].step = "put"]
            /\ UNCHANGED subject
       ELSE \E o \in Oids \ Minted :
                /\ subject' = [subject EXCEPT ![o] = e]
                /\ job' = [job EXCEPT ![h].oid = o, ![h].step = "bind_email",
                                      ![h].before = Cardinality(Mapped)]
    /\ UNCHANGED <<directory, files, desk, quarantine, history, restarts>>

BindEmail(h) ==
    /\ At(h, "bind_email")
    /\ by_email' = [by_email EXCEPT ![job[h].email] = job[h].oid]
    /\ Goto(h, "bind_id")
    /\ UNCHANGED <<by_id, files, subject, desk, quarantine, history, restarts>>

\* Slip: the new mapping is kept in memory only.
WorthSaving(h) == FALSE

\* FileIdentityDirectory.resolve saves if the size of the map changed.
Grown(h) == Cardinality(Mapped) # job[h].before

\* Slip: id and address are swapped.
BindIdSwapped(h) ==
    /\ At(h, "bind_id")
    /\ by_id' = [by_id EXCEPT ![job[h].oid] = job[h].oid]
    /\ Goto(h, IF Grown(h) THEN "dump" ELSE "put")
    /\ UNCHANGED <<by_email, files, subject, desk, quarantine, history, restarts>>

BindId(h) ==
    /\ At(h, "bind_id")
    /\ by_id' = [by_id EXCEPT ![job[h].oid] = job[h].email]
    /\ Goto(h, IF Grown(h) THEN "dump" ELSE "put")
    /\ UNCHANGED <<by_email, files, subject, desk, quarantine, history, restarts>>

ForgetId(h) ==
    /\ At(h, "forget_id")
    /\ by_id' = [by_id EXCEPT ![job[h].oid] = None]
    /\ asked' = asked \cup {job[h].oid}
    /\ job' = [job EXCEPT ![h].popped = by_id[job[h].oid], ![h].step = "forget_email"]
    /\ UNCHANGED <<by_email, files, subject, desk, quarantine, receipts, restarts>>

\* Slip: the erasure is not written to the file.
AfterForgettingUnsaved(h) == "read"

\* FileIdentityDirectory.erase saves whether or not there was a mapping.
AfterForgetting(h) == "dump"

ForgetEmail(h) ==
    /\ At(h, "forget_email")
    /\ by_email' = [e \in Emails |-> IF e = job[h].popped THEN None ELSE by_email[e]]
    /\ Goto(h, AfterForgetting(h))
    /\ UNCHANGED <<by_id, files, subject, desk, quarantine, history, restarts>>

\* _save: the maps are turned into text before the file is opened.
DumpMaps(h) ==
    /\ At(h, "dump")
    /\ job' = [job EXCEPT ![h].text = [by_email |-> by_email, by_id |-> by_id],
                          ![h].step = "open"]
    /\ UNCHANGED <<directory, files, subject, desk, quarantine, history, restarts>>

\* The temporary file is created, or the one that is there is truncated.
OpenTmp(h) ==
    /\ At(h, "open")
    /\ tmp' = Empty
    /\ job' = [job EXCEPT ![h].into = "tmp", ![h].step = "write"]
    /\ UNCHANGED <<directory, path, subject, desk, quarantine, history, restarts>>

\* Entries in a dump, for its length.
Entries(text) ==
    Cardinality({e \in Emails : text.by_email[e] # None})
      + Cardinality({o \in Oids : text.by_id[o] # None})

\* What a file holds when text was written from its start: of a longer text that
\* another thread has written since it was truncated, a rest stays behind.
Written(text, over) ==
    IF over = Empty THEN {text}
    ELSE IF over = Malformed THEN {text, Malformed}
    ELSE IF Entries(over) <= Entries(text) THEN {text} ELSE {Malformed}

WriteText(h) ==
    /\ At(h, "write")
    /\ CASE job[h].into = "tmp" -> tmp' \in Written(job[h].text, tmp) /\ UNCHANGED path
         [] job[h].into = "path" -> path' \in Written(job[h].text, path) /\ UNCHANGED tmp
         [] OTHER -> UNCHANGED files
    /\ Goto(h, "replace")
    /\ UNCHANGED <<directory, subject, desk, quarantine, history, restarts>>

\* Who has the temporary file open now writes to the directory's file, who had
\* that open writes to a file without a name.
Moved(place) == CASE place = "tmp" -> "path" [] OTHER -> "unlinked"

AfterSave(h) == IF job[h].op = "erase" THEN "read" ELSE "put"

\* tmp.replace(path): raises when another thread has renamed the file already.
Replace(h) ==
    /\ At(h, "replace")
    /\ IF tmp = None
       THEN Finish(h) /\ UNCHANGED files
       ELSE /\ path' = tmp /\ tmp' = None
            /\ job' = [g \in Handlers |->
                   IF g = h THEN [job[h] EXCEPT !.step = AfterSave(h), !.text = None]
                   ELSE IF At(g, "write") THEN [job[g] EXCEPT !.into = Moved(@)]
                   ELSE job[g]]
    /\ UNCHANGED <<directory, subject, desk, quarantine, history, restarts>>
-----------------------------------------------------------------------------
(* A ticket is filed: put, grant, and for an encrypted one the body. *)

PutTicket(h) ==
    /\ At(h, "put")
    /\ requester' = [requester EXCEPT ![job[h].ticket] = job[h].oid]
    /\ Goto(h, "grant")
    /\ UNCHANGED <<directory, files, subject, tuples, key, sealed, quarantine, history, restarts>>

Grant(h) ==
    /\ At(h, "grant")
    /\ tuples' = [tuples EXCEPT ![job[h].oid] = @ \cup {job[h].ticket}]
    /\ IF job[h].op = "file" THEN Goto(h, "encrypt") ELSE Finish(h)
    /\ UNCHANGED <<directory, files, subject, requester, key, sealed, quarantine, history, restarts>>

\* encrypt: a requester without a key gets a new one.
Encrypt(h) ==
    LET o == job[h].oid
        k == IF key[o] = None THEN job[h].ticket ELSE key[o]
    IN  /\ At(h, "encrypt")
        /\ key' = [key EXCEPT ![o] = k]
        /\ job' = [job EXCEPT ![h].key = k, ![h].step = "append"]
        /\ UNCHANGED <<directory, files, subject, requester, tuples, sealed, quarantine, history, restarts>>

AppendBody(h) ==
    /\ At(h, "append")
    /\ sealed' = [sealed EXCEPT ![job[h].ticket] = job[h].key]
    /\ Finish(h)
    /\ UNCHANGED <<directory, files, subject, requester, tuples, key, quarantine, history, restarts>>
-----------------------------------------------------------------------------
(* The rest of an erasure. *)

\* The first of the elements of S that fit into a page or a batch.
Chunks(S) == {C \in SUBSET S : IF Cardinality(S) <= Batch THEN C = S ELSE Cardinality(C) = Batch}

\* Slip: only the first page is read.
ReadFirstPage(h) ==
    /\ At(h, "read")
    /\ \E page \in Chunks(tuples[job[h].oid]) :
           job' = [job EXCEPT ![h].keys = page, ![h].step = "delete"]
    /\ UNCHANGED <<directory, files, subject, desk, quarantine, history, restarts>>

\* purge_user reads the subject's tuples page by page.
ReadPage(h) ==
    /\ At(h, "read")
    /\ LET left == tuples[job[h].oid] \ job[h].keys IN
       \E page \in Chunks(left) :
           job' = [job EXCEPT ![h].keys = @ \cup page,
                              ![h].step = IF page = left THEN "delete" ELSE "read"]
    /\ UNCHANGED <<directory, files, subject, desk, quarantine, history, restarts>>

\* It deletes them in batches.  OpenFGA refuses a batch that names a tuple that is
\* not there.
DeleteBatch(h) ==
    /\ At(h, "delete")
    /\ \/ /\ job[h].keys = {}
          /\ Goto(h, IF job[h].email = None THEN "destroy" ELSE "collect")
          /\ UNCHANGED tuples
       \/ \E chunk \in Chunks(job[h].keys) \ {{}} :
              IF chunk \subseteq tuples[job[h].oid]
              THEN /\ tuples' = [tuples EXCEPT ![job[h].oid] = @ \ chunk]
                   /\ job' = [job EXCEPT ![h].keys = @ \ chunk]
              ELSE Finish(h) /\ UNCHANGED tuples
    /\ UNCHANGED <<directory, files, subject, requester, key, sealed, quarantine, history, restarts>>

\* purge_sender collects the mails of the address...
Collect(h) ==
    /\ At(h, "collect")
    /\ job' = [job EXCEPT ![h].doomed = HeldFrom(job[h].email), ![h].step = "remove"]
    /\ UNCHANGED <<directory, files, subject, desk, quarantine, history, restarts>>

\* ... and removes them one by one; list.remove raises for one that is gone.
RemoveMail(h) ==
    /\ At(h, "remove")
    /\ \/ job[h].doomed = {} /\ Goto(h, "destroy") /\ UNCHANGED held
       \/ \E n \in job[h].doomed :
              IF held[n] = None
              THEN Finish(h) /\ UNCHANGED held
              ELSE /\ held' = [held EXCEPT ![n] = None]
                   /\ job' = [job EXCEPT ![h].doomed = @ \ {n}]
    /\ UNCHANGED <<directory, files, subject, desk, mails, history, restarts>>

KeyDestroyed(o) == None

\* crypto.destroy does not look at the status of Vault's answers.
Destroy(h) ==
    /\ At(h, "destroy")
    /\ \/ key' = [key EXCEPT ![job[h].oid] = KeyDestroyed(job[h].oid)]
       \/ VaultMayRefuse /\ UNCHANGED key
    /\ Goto(h, "receipt")
    /\ UNCHANGED <<directory, files, subject, requester, tuples, sealed, quarantine, history, restarts>>

\* The receipt is stored and the request answered.
Receipt(h) ==
    LET o == job[h].oid
        all == [part \in DOMAIN Nothing |-> receipts[o][part] \cup job[h].found[part]]
    IN  /\ At(h, "receipt")
        /\ receipts' = [receipts EXCEPT ![o] =
               IF @ = None THEN job[h].found ELSE all]
        /\ Finish(h)
        /\ UNCHANGED <<directory, files, subject, desk, quarantine, asked, restarts>>
-----------------------------------------------------------------------------
\* A call raises; the request ends where it is.
Raises(h) ==
    /\ job[h] # None /\ <<job[h].op, job[h].step>> \in MayFail
    /\ Finish(h)
    /\ UNCHANGED <<directory, files, subject, desk, quarantine, history, restarts>>

\* What FileIdentityDirectory loads: nothing from an empty file.
Loaded == IF path = Empty THEN Nobody ELSE path

\* The process restarts.  Tickets, tuples and keys are elsewhere, the quarantine is
\* in memory.  A directory file that does not parse keeps the process from starting.
Restart ==
    /\ restarts < MaxRestarts /\ path # Malformed
    /\ restarts' = restarts + 1
    /\ by_email' = Loaded.by_email /\ by_id' = Loaded.by_id
    /\ held' = [n \in 1..MaxHeld |-> None]
    /\ job' = [h \in Handlers |-> None]
    /\ UNCHANGED <<files, subject, desk, mails, history>>

Advance(h) ==
    \/ Lookup(h) \/ BindEmail(h) \/ BindId(h) \/ ForgetId(h) \/ ForgetEmail(h)
    \/ DumpMaps(h) \/ OpenTmp(h) \/ WriteText(h) \/ Replace(h)
    \/ PutTicket(h) \/ Grant(h) \/ Encrypt(h) \/ AppendBody(h)
    \/ ReadPage(h) \/ DeleteBatch(h) \/ Collect(h) \/ RemoveMail(h)
    \/ Destroy(h) \/ Receipt(h)

Next ==
    \/ \E h \in Handlers :
           BeginContact(h) \/ BeginFile(h) \/ BeginErase(h) \/ Advance(h) \/ Raises(h)
    \/ \E e \in Emails : Hold(e)
    \/ Restart

Spec == Init /\ [][Next]_vars
-----------------------------------------------------------------------------
(* The disk, Vault and the callers behave (the calls of MayFail may still   *)
(* raise), and one thread at a time resolves and erases.                   *)

\* Type invariant of the directory, its files, what an erasure reaches, and requests.
TypeOK ==
    /\ [by_email |-> by_email, by_id |-> by_id] \in Dump
    /\ path \in Contents /\ tmp \in Contents \cup {None}
    /\ subject \in [Oids -> Emails \cup {None}]
    /\ requester \in [TicketIds -> Oids \cup {None}]
    /\ tuples \in [Oids -> SUBSET TicketIds]
    /\ held \in [1..MaxHeld -> Emails \cup {None}] /\ mails \in 0..MaxHeld
    /\ key \in [Oids -> TicketIds \cup {None}]
    /\ sealed \in [TicketIds -> TicketIds \cup {None}]
    /\ job \in [Handlers -> Job \cup {None}]
    /\ asked \subseteq Oids /\ receipts \in [Oids -> Found \cup {None}]
    /\ restarts \in 0..MaxRestarts

\* INV-DP-2: once an erasure is answered the id leads to no address and no address
\* leads to the id, in memory and in the file, so no restart brings either back.
StaysForgotten ==
    \A o \in Oids : receipts[o] # None =>
        \A maps \in {[by_email |-> by_email, by_id |-> by_id]} \cup ({path} \cap Dump) :
            maps.by_id[o] = None /\ \A e \in Emails : maps.by_email[e] # o

\* AR-05: every tuple the subject held when an answered erasure began is gone,
\* whatever was granted while it ran and whichever batches failed before.
TuplesPurged ==
    \A o \in Oids : receipts[o] # None => tuples[o] \cap receipts[o].tuples = {}

\* G5-02: so is the mail held from the address the erasure found for the subject.
QuarantineScrubbed ==
    \A o \in Oids : receipts[o] # None =>
        \A n \in receipts[o].mails : held[n] = None

\* ADR-0006: bodies of the subject stored when an answered erasure began are
\* unreadable for good, also when the subject gets a new key for a later ticket.
BodiesShredded ==
    \A o \in Oids : receipts[o] # None => \A t \in receipts[o].bodies : ~Readable(t)

\* What a receipt says is true and stays true: tuples, held mail and bodies found are gone.
ReceiptHolds == TuplesPurged /\ QuarantineScrubbed /\ BodiesShredded

\* A restart orphans nobody: the requester of a ticket is known in the file, unless
\* its erasure was begun (asked for and answered, or failed half-way).
RequestersSurvive ==
    \A t \in TicketIds : requester[t] \notin asked \cup {None} =>
        path \in Dump /\ path.by_id[requester[t]] = subject[requester[t]]

\* An address keeps its id until an erasure takes it, across restarts; the one other
\* id it may lead to again is one whose erasure failed before the file was written.
OneIdPerAddress ==
    [][\A e \in Emails : by_email[e] # None =>
           by_email'[e] \in {by_email[e], None} \cup asked]_vars
-----------------------------------------------------------------------------
(* What the documents say of erasures that failed, or overlapped. *)

\* An erasure "scrubs the subject's PII from the quarantine queue" and is
\* "idempotent": after the answer the mail is gone that was held, when it began, from
\* the subject's address, even if an earlier attempt has deleted the mapping.
SubjectScrubbed ==
    \A o \in Oids : receipts[o] # None => \A n \in receipts[o].pii : held[n] = None

\* AR-05: an erased subject holds no tuple on a ticket filed before its erasure began.
NoTupleOutlives ==
    \A o \in Oids : receipts[o] # None => tuples[o] \cap receipts[o].filed = {}

\* "A crash mid-write can't corrupt the map", nor can two saves at once.
FileParses == path # Malformed

\* Two threads that see an address for the first time agree on its id, so that
\* erasing the id a ticket bears deletes the address.
AddressForgotten ==
    \A o \in Oids : receipts[o] # None /\ (\A h \in Handlers : job[h] = None) =>
        \A p \in Oids : by_id[p] = subject[o] => by_email[subject[o]] = p
=============================================================================
