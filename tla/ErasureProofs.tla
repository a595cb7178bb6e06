---------------------------- MODULE ErasureProofs ----------------------------
(***************************************************************************)
(* What a receipt is worth, with any number of threads that resolve, file  *)
(* and erase, for any addresses, tickets, page sizes and failing calls:    *)
(* tuples, mails and key names are used once, so what an answered erasure  *)
(* found does not come back.                                               *)
(*                                                                         *)
(* And what the directory and its file keep and forget, when one thread    *)
(* resolves and erases, however many others file tickets for ids they know.*)
(***************************************************************************)
EXTENDS Erasure, FiniteSetTheorems, TLAPS

ContactSteps == {"lookup", "bind_email", "bind_id", "dump", "open", "write", "replace", "put", "grant"}
FileSteps == {"put", "grant", "encrypt", "append"}
EraseSteps == {"forget_id", "forget_email", "dump", "open", "write", "replace",
               "read", "delete", "collect", "remove", "destroy", "receipt"}

\* A request has what its step needs.
Formed(j) ==
    /\ j \in Job
    /\ j.op = "contact" => /\ j.step \in ContactSteps /\ j.email \in Emails /\ j.ticket \in TicketIds
                           /\ j.step # "lookup" => j.oid \in Oids
    /\ j.op = "file" => /\ j.step \in FileSteps /\ j.oid \in Oids /\ j.ticket \in TicketIds
                        /\ j.step = "append" => j.key \in TicketIds
    /\ j.op = "erase" => j.step \in EraseSteps /\ j.oid \in Oids /\ j.ticket = None
    /\ j.step \in {"open", "write", "replace"} => j.text \in Dump

JobsFormed == \A h \in Handlers : job[h] # None => Formed(job[h])

\* A ticket is filed by one request; it is put before its grant, its key and its body.
Filed == {"grant", "encrypt", "append"}

FiledOnce ==
    \A h \in Handlers : job[h] # None /\ job[h].ticket # None =>
        /\ \A g \in Handlers : job[g] # None /\ job[g].ticket = job[h].ticket => g = h
        /\ requester[job[h].ticket] = IF job[h].step \in Filed THEN job[h].oid ELSE None

\* t was put and is past the steps of S, for good.
Past(t, S) ==
    /\ t \in TicketIds /\ requester[t] # None
    /\ \A h \in Handlers : job[h] # None /\ job[h].ticket = t => job[h].step \notin S

\* Tuples, keys and bodies are those of tickets that are past the step that makes them.
UsedOnce ==
    /\ \A o \in Oids : \A t \in tuples[o] : Past(t, {"grant"})
    /\ \A o \in Oids : key[o] # None => Past(key[o], {"grant", "encrypt"})
    /\ \A h \in Handlers : At(h, "append") => Past(job[h].key, {"grant", "encrypt"})
    /\ \A t \in TicketIds : sealed[t] # None =>
           Past(t, Filed) /\ Past(sealed[t], {"grant", "encrypt"})

HeldInOrder == \A n \in 1..MaxHeld : held[n] # None => n <= mails

\* What an erasure of o found: it cannot be granted, held or sealed again.
FoundSound(o, found) ==
    /\ \A t \in found.tuples : Past(t, {"grant"})
    /\ \A n \in found.mails : n <= mails
    /\ \A t \in found.bodies : requester[t] = o /\ sealed[t] # None

TuplesGone(o, found) == \A t \in found.tuples : t \notin tuples[o]
MailsGone(found) == \A n \in found.mails : held[n] = None
BodiesGone(o, found) == ~VaultMayRefuse => \A t \in found.bodies : key[o] # sealed[t]

\* How far an erasure has got.
Erasing(j) ==
    /\ FoundSound(j.oid, j.found)
    /\ \A n \in j.found.mails : held[n] = None \/ (held[n] = j.email /\ j.email # None)
    /\ j.step = "delete" => \A t \in j.found.tuples : t \in tuples[j.oid] => t \in j.keys
    /\ j.step \in {"collect", "remove", "destroy", "receipt"} => TuplesGone(j.oid, j.found)
    /\ j.step = "collect" => j.email # None
    /\ j.step = "remove" => \A n \in j.found.mails : held[n] = None \/ n \in j.doomed
    /\ j.step \in {"destroy", "receipt"} => MailsGone(j.found)
    /\ j.step = "receipt" => BodiesGone(j.oid, j.found)

Erasures == \A h \in Handlers : job[h] # None /\ job[h].op = "erase" => Erasing(job[h])

Receipts ==
    \A o \in Oids : receipts[o] # None =>
        /\ FoundSound(o, receipts[o])
        /\ TuplesGone(o, receipts[o]) /\ MailsGone(receipts[o]) /\ BodiesGone(o, receipts[o])

Inv == TypeOK /\ JobsFormed /\ FiledOnce /\ UsedOnce /\ HeldInOrder /\ Erasures /\ Receipts
-----------------------------------------------------------------------------
LEMMA ConstantFacts ==
    /\ IsFiniteSet(Emails) /\ MaxHeld \in Nat /\ MaxRestarts \in Nat /\ Batch \in Nat \ {0}
    /\ None \notin Emails /\ None \notin Oids /\ None \notin TicketIds /\ None \notin Job
    /\ None \notin Dump /\ Empty \notin Dump /\ Malformed \notin Dump /\ VaultMayRefuse \in BOOLEAN
BY ErasureAssumption DEF ErasureAssumption

LEMMA MappedCount ==
    /\ Cardinality(Mapped) \in 0..Cardinality(Emails)
    /\ 0 \in 0..Cardinality(Emails)
<1>1. IsFiniteSet(Emails) /\ Mapped \subseteq Emails
  BY ConstantFacts DEF Mapped
<1>2. IsFiniteSet(Mapped) /\ Cardinality(Mapped) <= Cardinality(Emails)
  BY <1>1, FS_Subset
<1> QED  BY <1>1, <1>2, FS_CardinalityType

(* Frames. *)

\* Thread h goes on with k, or is done.
LEMMA JobStep ==
    ASSUME TypeOK, JobsFormed, NEW h \in Handlers, NEW k,
           job' = [job EXCEPT ![h] = k], k # None => Formed(k)
    PROVE  /\ job' \in [Handlers -> Job \cup {None}] /\ JobsFormed'
           /\ job'[h] = k /\ \A g \in Handlers \ {h} : job'[g] = job[g]
<1>1. job \in [Handlers -> Job \cup {None}]
  BY DEF TypeOK
<1>2. k \in Job \cup {None}
  BY DEF Formed
<1>3. job' \in [Handlers -> Job \cup {None}]
  BY <1>1, <1>2
<1>4. job'[h] = k /\ \A g \in Handlers \ {h} : job'[g] = job[g]
  BY <1>1
<1>5. JobsFormed'
  BY <1>4 DEF JobsFormed
<1> QED  BY <1>3, <1>4, <1>5

\* Thread h goes on with k: its request is filed in this order, and puts a free ticket.
Onward(h, k) ==
    k # None =>
        /\ k.step = "grant" => requester[k.ticket] = None
        /\ k.step = "encrypt" => job[h] # None /\ job[h].ticket = k.ticket /\ job[h].step = "grant"
        /\ k.step = "append" => job[h] # None /\ job[h].ticket = k.ticket /\ job[h].step = "encrypt"

PutStays == \A t \in TicketIds : requester[t] # None => requester'[t] = requester[t]

LEMMA PastStays ==
    ASSUME NEW h \in Handlers, NEW k, job \in [Handlers -> Job \cup {None}],
           job' = [job EXCEPT ![h] = k], PutStays, Onward(h, k),
           NEW t, NEW S \in {{"grant"}, {"grant", "encrypt"}, Filed}, Past(t, S)
    PROVE  Past(t, S)'
<1>1. t \in TicketIds /\ requester'[t] # None
  BY DEF Past, PutStays
<1>2. ASSUME NEW g \in Handlers, job'[g] # None, job'[g].ticket = t, job'[g].step \in S  PROVE FALSE
  <2>1. CASE g # h
    BY <1>2, <2>1 DEF Past
  <2>2. CASE g = h
    <3>1. job'[h] = k
      OBVIOUS
    <3>2. k # None /\ k.ticket = t /\ k.step \in S
      BY <1>2, <2>2, <3>1
    <3>3. k.step # "grant"
      BY <3>2 DEF Onward, Past
    <3>4. k.step # "encrypt"
      <4> SUFFICES ASSUME k.step = "encrypt"  PROVE FALSE
        OBVIOUS
      <4>1. "grant" \in S
        BY DEF Filed
      <4> QED  BY <3>2, <4>1 DEF Onward, Past
    <3>5. k.step # "append"
      <4> SUFFICES ASSUME k.step = "append"  PROVE FALSE
        OBVIOUS
      <4>1. "encrypt" \in S
        BY <3>2 DEF Filed
      <4> QED  BY <3>2, <4>1 DEF Onward, Past
    <3> QED  BY <3>2, <3>3, <3>4, <3>5 DEF Filed
  <2> QED  BY <2>1, <2>2
<1> QED  BY <1>1, <1>2 DEF Past

\* What a step may do to what erasures look at, whoever takes it.
World ==
    /\ PutStays
    /\ \A t, S : Past(t, S) /\ S \in {{"grant"}, {"grant", "encrypt"}, Filed} => Past(t, S)'
    /\ \A o \in Oids : \A t \in tuples'[o] : t \in tuples[o] \/ ~Past(t, {"grant"})
    /\ mails' \in Nat /\ mails <= mails'
    /\ \A n \in 1..MaxHeld : n <= mails => held'[n] = held[n] \/ held'[n] = None
    /\ \A t \in TicketIds : sealed[t] # None => sealed'[t] = sealed[t]
    /\ \A o \in Oids : key'[o] \in {key[o], None} \/ ~Past(key'[o], {"grant", "encrypt"})

LEMMA FoundStays ==
    ASSUME TypeOK, UsedOnce, World, NEW o \in Oids, NEW found \in Found, FoundSound(o, found)
    PROVE  /\ FoundSound(o, found)'
           /\ TuplesGone(o, found) => TuplesGone(o, found)'
           /\ MailsGone(found) => MailsGone(found)'
           /\ BodiesGone(o, found) => BodiesGone(o, found)'
<1>1. found.tuples \subseteq TicketIds /\ found.bodies \subseteq TicketIds /\ found.mails \subseteq 1..MaxHeld
  BY DEF Found
<1>2. mails \in Nat /\ mails' \in Nat /\ mails <= mails'
  BY ConstantFacts DEF TypeOK, World
<1>3. FoundSound(o, found)'
  <2>1. \A t \in found.tuples : Past(t, {"grant"})'
    BY DEF World, FoundSound
  <2>2. \A n \in found.mails : n <= mails'
    BY <1>1, <1>2, ConstantFacts DEF FoundSound
  <2>3. \A t \in found.bodies : requester'[t] = o /\ sealed'[t] # None
    BY <1>1, ConstantFacts DEF World, PutStays, FoundSound
  <2> QED  BY <2>1, <2>2, <2>3 DEF FoundSound
<1>4. TuplesGone(o, found) => TuplesGone(o, found)'
  BY DEF TuplesGone, FoundSound, World
<1>5. MailsGone(found) => MailsGone(found)'
  BY <1>1 DEF MailsGone, FoundSound, World
<1>6. ASSUME BodiesGone(o, found)  PROVE BodiesGone(o, found)'
  <2>1. ASSUME ~VaultMayRefuse, NEW t \in found.bodies  PROVE key'[o] # sealed'[t]
    <3>1. sealed[t] # None /\ sealed'[t] = sealed[t] /\ Past(sealed[t], {"grant", "encrypt"})
      BY <1>1 DEF FoundSound, World, UsedOnce
    <3>2. key[o] # sealed[t]
      BY <1>6, <2>1 DEF BodiesGone
    <3> QED  BY <3>1, <3>2 DEF World
  <2> QED  BY <2>1 DEF BodiesGone
<1> QED  BY <1>3, <1>4, <1>5, <1>6

LEMMA ErasingStays ==
    ASSUME TypeOK, UsedOnce, World, NEW j, Formed(j), j.op = "erase", Erasing(j)
    PROVE  Erasing(j)'
<1>1. j.oid \in Oids /\ j.found \in Found /\ j.found.tuples \subseteq TicketIds
      /\ j.found.mails \subseteq 1..MaxHeld
  BY DEF Formed, Job, Found
<1>2. FoundSound(j.oid, j.found)
  BY DEF Erasing
<1>3. /\ FoundSound(j.oid, j.found)'
      /\ TuplesGone(j.oid, j.found) => TuplesGone(j.oid, j.found)'
      /\ MailsGone(j.found) => MailsGone(j.found)'
      /\ BodiesGone(j.oid, j.found) => BodiesGone(j.oid, j.found)'
  BY <1>1, <1>2, FoundStays
<1>4. \A n \in j.found.mails : held'[n] = held[n] \/ held'[n] = None
  BY <1>1, <1>2 DEF FoundSound, World
<1>5. \A n \in j.found.mails : held'[n] = None \/ (held'[n] = j.email /\ j.email # None)
  BY <1>4 DEF Erasing
<1>6. j.step = "delete" => \A t \in j.found.tuples : t \in tuples'[j.oid] => t \in j.keys
  BY <1>1, <1>2 DEF Erasing, World, FoundSound
<1>7. j.step = "remove" => \A n \in j.found.mails : held'[n] = None \/ n \in j.doomed
  BY <1>4 DEF Erasing
<1> QED  BY <1>3, <1>5, <1>6, <1>7 DEF Erasing

LEMMA ReceiptsStay ==
    ASSUME TypeOK, UsedOnce, Receipts, World, receipts' = receipts
    PROVE  Receipts'
<1>1. ASSUME NEW o \in Oids, receipts[o] # None
      PROVE  FoundSound(o, receipts[o])' /\ TuplesGone(o, receipts[o])'
             /\ MailsGone(receipts[o])' /\ BodiesGone(o, receipts[o])'
  <2>1. PICK found : found = receipts[o]
    OBVIOUS
  <2>2. found \in Found /\ FoundSound(o, found) /\ TuplesGone(o, found) /\ MailsGone(found)
        /\ BodiesGone(o, found)
    BY <1>1, <2>1 DEF TypeOK, Receipts
  <2>3. FoundSound(o, found)' /\ TuplesGone(o, found)' /\ MailsGone(found)' /\ BodiesGone(o, found)'
    BY <2>2, FoundStays
  <2> QED  BY <2>1, <2>3
<1> QED  BY <1>1 DEF Receipts

\* The erasures of the threads that do not move stay.
LEMMA OthersStay ==
    ASSUME Inv, World, NEW h \in Handlers, NEW k, job' = [job EXCEPT ![h] = k],
           k # None /\ k.op = "erase" => Erasing(k)'
    PROVE  Erasures'
<1>1. job \in [Handlers -> Job \cup {None}] /\ job'[h] = k
  BY DEF Inv, TypeOK
<1>2. ASSUME NEW g \in Handlers, job'[g] # None, job'[g].op = "erase"  PROVE Erasing(job[g])'
  <2>1. CASE g = h
    BY <1>1, <1>2, <2>1
  <2>2. CASE g # h
    <3>1. PICK j : j = job[g]
      OBVIOUS
    <3>2. job'[g] = j
      BY <1>1, <2>2, <3>1
    <3>3. Formed(j) /\ Erasing(j) /\ j.op = "erase"
      BY <1>2, <3>1, <3>2 DEF Inv, JobsFormed, Erasures
    <3>4. Erasing(j)'
      BY <3>3, ErasingStays DEF Inv
    <3> QED  BY <3>2, <3>4
  <2> QED  BY <2>1, <2>2
<1> QED  BY <1>2 DEF Erasures
-----------------------------------------------------------------------------
LEMMA FiledOnceStays ==
    ASSUME Inv, NEW h \in Handlers, NEW k, job' = [job EXCEPT ![h] = k],
           \A t \in TicketIds : requester'[t] = requester[t] \/ (k # None /\ k.ticket = t),
           k # None => Formed(k),
           k # None /\ k.ticket # None =>
               /\ Free(k.ticket) \/ (job[h] # None /\ job[h].ticket = k.ticket)
               /\ requester'[k.ticket] = IF k.step \in Filed THEN k.oid ELSE None
    PROVE  FiledOnce'
<1>1. job \in [Handlers -> Job \cup {None}] /\ job'[h] = k /\ FiledOnce
      /\ \A g \in Handlers \ {h} : job'[g] = job[g]
  BY DEF Inv, TypeOK
<1>2. ASSUME NEW g \in Handlers \ {h}, job[g] # None, k # None, k.ticket # None
      PROVE  job[g].ticket # k.ticket
  BY <1>1, <1>2 DEF Free, FiledOnce
<1>3. ASSUME NEW g \in Handlers, job'[g] # None, job'[g].ticket # None
      PROVE  /\ \A f \in Handlers : job'[f] # None /\ job'[f].ticket = job'[g].ticket => f = g
             /\ requester'[job'[g].ticket] = IF job'[g].step \in Filed THEN job'[g].oid ELSE None
  <2>1. CASE g = h
    BY <1>1, <1>2, <1>3, <2>1
  <2>2. CASE g # h
    <3>1. job'[g] = job[g] /\ job[g].ticket \in TicketIds
      BY <1>1, <1>3, <2>2 DEF Job
    <3>2. \A f \in Handlers : job'[f] # None /\ job'[f].ticket = job'[g].ticket => f = g
      <4>1. TAKE f \in Handlers
      <4>2. HAVE job'[f] # None /\ job'[f].ticket = job'[g].ticket
      <4>3. CASE f = h
        BY <1>1, <1>2, <1>3, <2>2, <3>1, <4>2, <4>3
      <4>4. CASE f # h
        BY <1>1, <1>3, <3>1, <4>2, <4>4 DEF FiledOnce
      <4> QED  BY <4>3, <4>4
    <3>3. requester'[job[g].ticket] = requester[job[g].ticket]
      BY <1>2, <1>3, <2>2, <3>1
    <3> QED  BY <1>1, <1>3, <3>1, <3>2, <3>3 DEF FiledOnce
  <2> QED  BY <2>1, <2>2
<1> QED  BY <1>3 DEF FiledOnce

LEMMA UsedOnceStays ==
    ASSUME Inv, World, NEW h \in Handlers, NEW k, job' = [job EXCEPT ![h] = k],
           \A o \in Oids : \A t \in tuples'[o] : t \in tuples[o] \/ Past(t, {"grant"})',
           \A o \in Oids : key'[o] # None => key'[o] = key[o] \/ Past(key[o], {"grant", "encrypt"})',
           k # None /\ k.step = "append" => Past(k.key, {"grant", "encrypt"})',
           \A t \in TicketIds : sealed'[t] # None =>
               \/ sealed'[t] = sealed[t]
               \/ Past(t, Filed)' /\ Past(sealed[t], {"grant", "encrypt"})'
    PROVE  UsedOnce'
<1>1. job \in [Handlers -> Job \cup {None}] /\ job'[h] = k
      /\ \A g \in Handlers \ {h} : job'[g] = job[g]
  BY DEF Inv, TypeOK
<1>2. \A t : Past(t, {"grant"}) => Past(t, {"grant"})'
  BY DEF World
<1>3. \A t : Past(t, {"grant", "encrypt"}) => Past(t, {"grant", "encrypt"})'
  BY DEF World
<1>4. \A t : Past(t, Filed) => Past(t, Filed)'
  BY DEF World
<1>5. \A o \in Oids : \A t \in tuples'[o] : Past(t, {"grant"})'
  BY <1>2 DEF Inv, UsedOnce
<1>6. ASSUME NEW o \in Oids, key'[o] # None  PROVE Past(key[o], {"grant", "encrypt"})'
  <2>1. CASE key'[o] = key[o]
    <3>1. PICK c : c = key[o]
      OBVIOUS
    <3>2. Past(c, {"grant", "encrypt"})'
      BY <1>3, <1>6, <2>1, <3>1 DEF Inv, UsedOnce
    <3> QED  BY <2>1, <3>1, <3>2
  <2> QED  BY <1>6, <2>1
<1>7. ASSUME NEW g \in Handlers, At(g, "append")'  PROVE Past(job[g].key, {"grant", "encrypt"})'
  <2>1. PICK j : j = job'[g]
    OBVIOUS
  <2>2. Past(j.key, {"grant", "encrypt"})'
    <3>1. CASE g = h
      BY <1>1, <1>7, <2>1, <3>1 DEF At
    <3>2. CASE g # h
      <4>1. At(g, "append") /\ job[g] = j
        BY <1>1, <1>7, <2>1, <3>2 DEF At
      <4> QED  BY <1>3, <4>1 DEF Inv, UsedOnce
    <3> QED  BY <3>1, <3>2
  <2> QED  BY <2>1, <2>2
<1>8. ASSUME NEW t \in TicketIds, sealed'[t] # None
      PROVE  Past(t, Filed)' /\ Past(sealed[t], {"grant", "encrypt"})'
  <2>1. CASE sealed'[t] = sealed[t]
    <3>1. PICK c : c = sealed[t]
      OBVIOUS
    <3>2. Past(t, Filed)' /\ Past(c, {"grant", "encrypt"})'
      BY <1>3, <1>4, <1>8, <2>1, <3>1 DEF Inv, UsedOnce
    <3> QED  BY <2>1, <3>1, <3>2
  <2> QED  BY <1>8, <2>1
<1> QED  BY <1>5, <1>6, <1>7, <1>8 DEF UsedOnce

\* A step of thread h that leaves the tickets, the quarantine and the receipts alone.
LEMMA QuietStep ==
    ASSUME Inv, UNCHANGED <<desk, quarantine, receipts>>, NEW h \in Handlers, NEW k,
           job' = [job EXCEPT ![h] = k],
           k # None =>
               /\ Formed(k) /\ k.step \notin Filed /\ (k.op = "erase" => Erasing(k))
               /\ \/ k.ticket = None \/ Free(k.ticket)
                  \/ job[h] # None /\ job[h].ticket = k.ticket /\ job[h].step \notin Filed
    PROVE  /\ job' \in [Handlers -> Job \cup {None}]
           /\ JobsFormed' /\ FiledOnce' /\ UsedOnce' /\ HeldInOrder' /\ Erasures' /\ Receipts'
<1>1. TypeOK /\ JobsFormed /\ job \in [Handlers -> Job \cup {None}] /\ mails \in Nat
  BY ConstantFacts DEF Inv, TypeOK
<1>2. job' \in [Handlers -> Job \cup {None}] /\ JobsFormed'
  BY <1>1, JobStep
<1>3. /\ requester' = requester /\ tuples' = tuples /\ key' = key /\ sealed' = sealed
      /\ held' = held /\ mails' = mails /\ receipts' = receipts
  BY DEF desk, quarantine
<1>4. PutStays /\ Onward(h, k)
  BY <1>3 DEF PutStays, Onward, Filed
<1>5. World
  <2>1. \A t, S : Past(t, S) /\ S \in {{"grant"}, {"grant", "encrypt"}, Filed} => Past(t, S)'
    BY <1>1, <1>4, PastStays
  <2> QED  BY <1>1, <1>3, <1>4, <2>1 DEF World
<1>6. FiledOnce'
  <2>1. k # None /\ k.ticket # None => requester'[k.ticket] = None
    BY <1>3 DEF Free, Inv, FiledOnce
  <2> QED  BY <1>3, <2>1, FiledOnceStays
<1>7. UsedOnce'
  <2>1. k # None => k.step # "append"
    BY DEF Filed
  <2> QED  BY <1>3, <1>5, <2>1, UsedOnceStays
<1>8. HeldInOrder'
  BY <1>3 DEF Inv, HeldInOrder
<1>9. k # None /\ k.op = "erase" => Erasing(k)'
  <2> SUFFICES ASSUME k # None, k.op = "erase"  PROVE Erasing(k)'
    OBVIOUS
  <2>1. Formed(k) /\ Erasing(k)
    OBVIOUS
  <2> QED  BY <1>1, <1>5, <2>1, ErasingStays DEF Inv
<1>10. Erasures' /\ Receipts'
  BY <1>3, <1>5, <1>9, OthersStay, ReceiptsStay DEF Inv
<1> QED  BY <1>2, <1>6, <1>7, <1>8, <1>10
-----------------------------------------------------------------------------
LEMMA InitInv == ASSUME Init  PROVE Inv
<1> USE ConstantFacts
<1>1. TypeOK
  <2>1. [by_email |-> by_email, by_id |-> by_id] \in Dump
    BY DEF Init, Nobody, Dump
  <2>2. 0 \in 0..MaxHeld /\ 0 \in 0..MaxRestarts
    OBVIOUS
  <2>3. path \in Contents /\ tmp \in Contents \cup {None} /\ subject \in [Oids -> Emails \cup {None}]
    BY DEF Init, Nobody, Contents
  <2> QED  BY <2>1, <2>2, <2>3 DEF Init, TypeOK
<1>2. JobsFormed /\ FiledOnce /\ Erasures
  BY DEF Init, JobsFormed, FiledOnce, Erasures
<1>3. UsedOnce /\ HeldInOrder /\ Receipts
  BY DEF Init, UsedOnce, HeldInOrder, Receipts, At
<1> QED  BY <1>1, <1>2, <1>3 DEF Inv

Early == {"forget_id", "forget_email", "dump", "open", "write", "replace", "read"}

\* Until its tuples are read, an erasure goes on with what it found.
LEMMA StillErasing ==
    ASSUME NEW j, NEW k, Erasing(j), k.oid = j.oid, k.email = j.email, k.found = j.found,
           k.step \in Early
    PROVE  Erasing(k)
BY DEF Erasing, Early

\* The types of what a quiet step leaves alone.
LEMMA QuietTypes ==
    ASSUME TypeOK, UNCHANGED <<desk, quarantine, receipts, restarts>>, asked' \subseteq Oids,
           [by_email |-> by_email, by_id |-> by_id]' \in Dump,
           path' \in Contents, tmp' \in Contents \cup {None},
           subject' \in [Oids -> Emails \cup {None}], job' \in [Handlers -> Job \cup {None}]
    PROVE  TypeOK'
BY DEF TypeOK, desk, quarantine

LEMMA BeginKeeps ==
    ASSUME Inv, NEW h \in Handlers, NEW op \in Ops, NEW step \in Steps, NEW email \in Emails \cup {None},
           NEW oid \in Oids \cup {None}, NEW t \in TicketIds \cup {None}, NEW found \in Found,
           t # None => Free(t), step \notin Filed \cup {"open", "write", "replace"},
           op = "contact" => step = "lookup" /\ email \in Emails /\ t # None,
           op = "file" => step = "put" /\ oid # None /\ t # None,
           op = "erase" => /\ step = "forget_id" /\ oid # None /\ t = None /\ FoundSound(oid, found)
                           /\ \A n \in found.mails : held[n] = email /\ email # None,
           Begin(h, op, step, email, oid, t, found)
    PROVE  Inv'
<1> DEFINE k == [op |-> op, step |-> step, email |-> email, oid |-> oid, ticket |-> t,
                 before |-> 0, popped |-> None, text |-> None, into |-> "tmp",
                 keys |-> {}, doomed |-> {}, key |-> None, found |-> found]
<1>1. /\ job' = [job EXCEPT ![h] = k]
      /\ UNCHANGED <<directory, files, subject, desk, quarantine, history, restarts>>
  BY DEF Begin
<1>2. k \in Job
  BY MappedCount DEF Job, Places
<1>3. Formed(k)
  <2>1. op = "contact" => Formed(k)
    BY <1>2, ConstantFacts DEF Formed, ContactSteps
  <2>2. op = "file" => Formed(k)
    BY <1>2, ConstantFacts DEF Formed, FileSteps
  <2>3. op = "erase" => Formed(k)
    BY <1>2, ConstantFacts DEF Formed, EraseSteps
  <2> QED  BY <2>1, <2>2, <2>3 DEF Ops
<1>4. op = "erase" => Erasing(k)
  BY DEF Erasing
<1>5. k.op = op /\ k.step = step /\ k.ticket = t
  OBVIOUS
<1> HIDE DEF k
<1>6. /\ job' \in [Handlers -> Job \cup {None}]
      /\ JobsFormed' /\ FiledOnce' /\ UsedOnce' /\ HeldInOrder' /\ Erasures' /\ Receipts'
  BY <1>1, <1>3, <1>4, <1>5, QuietStep DEF history
<1>7. TypeOK'
  BY <1>1, <1>6, QuietTypes DEF Inv, TypeOK, directory, files, history
<1> QED  BY <1>6, <1>7 DEF Inv

LEMMA FoundOfSound ==
    ASSUME Inv, NEW o \in Oids, NEW email \in Emails \cup {None}
    PROVE  /\ FoundOf(o, email) \in Found
           /\ FoundSound(o, FoundOf(o, email))
           /\ \A n \in FoundOf(o, email).mails : held[n] = email /\ email # None
<1> DEFINE found == FoundOf(o, email)
<1>1. /\ found.tuples = tuples[o] /\ found.mails = HeldFrom(email)
      /\ found.bodies = {t \in TicketIds : requester[t] = o /\ sealed[t] # None}
  BY DEF FoundOf
<1>2. found \in Found
  BY DEF FoundOf, Found, HeldFrom, Inv, TypeOK
<1>3. \A n \in found.mails : n \in 1..MaxHeld /\ held[n] = email /\ email # None
  BY <1>1 DEF HeldFrom
<1>4. \A n \in found.mails : n <= mails
  BY <1>3 DEF Inv, HeldInOrder
<1>5. \A t \in found.tuples : Past(t, {"grant"})
  BY <1>1 DEF Inv, UsedOnce
<1>6. \A t \in found.bodies : requester[t] = o /\ sealed[t] # None
  BY <1>1
<1> QED  BY <1>2, <1>3, <1>4, <1>5, <1>6 DEF FoundSound

LEMMA KnownIds == ASSUME TypeOK  PROVE Known \subseteq Oids
BY DEF TypeOK, Known

LEMMA BeginContactKeeps == ASSUME Inv, NEW h \in Handlers, BeginContact(h)  PROVE Inv'
<1>1. PICK e \in Emails, t \in TicketIds :
          Free(t) /\ Begin(h, "contact", "lookup", e, None, t, Nothing)
  BY DEF BeginContact
<1>2. Nothing \in Found
  BY DEF Nothing, Found
<1>3. t # None /\ "contact" \in Ops /\ "lookup" \in Steps /\ "lookup" \notin Filed \cup {"open", "write", "replace"}
  BY ConstantFacts DEF Ops, Steps, Filed
<1> QED  BY <1>1, <1>2, <1>3, BeginKeeps

LEMMA BeginFileKeeps == ASSUME Inv, NEW h \in Handlers, BeginFile(h)  PROVE Inv'
<1>1. PICK o \in Known, t \in TicketIds : Free(t) /\ Begin(h, "file", "put", None, o, t, Nothing)
  BY DEF BeginFile
<1>2. Nothing \in Found
  BY DEF Nothing, Found
<1>3. o \in Oids /\ o # None /\ t # None
  BY KnownIds, ConstantFacts DEF Inv
<1>4. "file" \in Ops /\ "put" \in Steps /\ "put" \notin Filed \cup {"open", "write", "replace"}
  BY DEF Ops, Steps, Filed
<1> QED  BY <1>1, <1>2, <1>3, <1>4, BeginKeeps

LEMMA BeginEraseKeeps == ASSUME Inv, NEW h \in Handlers, BeginErase(h)  PROVE Inv'
<1>1. PICK o \in Known :
          Begin(h, "erase", "forget_id", AddressOf(o), o, None, FoundOf(o, AddressOf(o)))
  BY DEF BeginErase
<1>2. o \in Oids /\ o # None
  BY KnownIds, ConstantFacts DEF Inv
<1>3. AddressOf(o) \in Emails \cup {None}
  BY <1>2 DEF AddressOf, Inv, TypeOK, Dump
<1>4. "erase" \in Ops /\ "forget_id" \in Steps /\ "forget_id" \notin Filed \cup {"open", "write", "replace"}
  BY DEF Ops, Steps, Filed
<1>5. /\ FoundOf(o, AddressOf(o)) \in Found
      /\ FoundSound(o, FoundOf(o, AddressOf(o)))
      /\ \A n \in FoundOf(o, AddressOf(o)).mails : held[n] = AddressOf(o) /\ AddressOf(o) # None
  BY <1>2, <1>3, FoundOfSound
<1> QED  BY <1>1, <1>2, <1>3, <1>4, <1>5, BeginKeeps
-----------------------------------------------------------------------------
(* The directory's steps are quiet. *)

LEMMA QuietKeeps ==
    ASSUME Inv, UNCHANGED <<desk, quarantine, receipts, restarts>>, asked' \subseteq Oids,
           [by_email |-> by_email, by_id |-> by_id]' \in Dump,
           path' \in Contents, tmp' \in Contents \cup {None},
           subject' \in [Oids -> Emails \cup {None}],
           NEW h \in Handlers, NEW k, job' = [job EXCEPT ![h] = k], job[h] # None,
           k # None =>
               /\ Formed(k) /\ k.step \notin Filed /\ (k.op = "erase" => Erasing(k))
               /\ k.ticket = job[h].ticket /\ job[h].step \notin Filed
    PROVE  Inv'
<1>1. k # None => k.ticket = None \/ Free(k.ticket)
                  \/ (job[h] # None /\ job[h].ticket = k.ticket /\ job[h].step \notin Filed)
  OBVIOUS
<1>2. UNCHANGED <<desk, quarantine, receipts>>
  OBVIOUS
<1>3. /\ job' \in [Handlers -> Job \cup {None}]
      /\ JobsFormed' /\ FiledOnce' /\ UsedOnce' /\ HeldInOrder' /\ Erasures' /\ Receipts'
  BY <1>1, <1>2, QuietStep
<1>4. TypeOK'
  BY <1>3, QuietTypes DEF Inv
<1> QED  BY <1>3, <1>4 DEF Inv

\* What a request is at its step.
LEMMA JobAt ==
    ASSUME Inv, NEW h \in Handlers, job[h] # None
    PROVE  /\ Formed(job[h]) /\ job[h].op \in Ops
           /\ job[h].op = "erase" => Erasing(job[h])
           /\ job[h].step = "lookup" => job[h].op = "contact"
           /\ job[h].step \in {"bind_email", "bind_id"} =>
                  job[h].op = "contact" /\ job[h].oid \in Oids /\ job[h].email \in Emails
           /\ job[h].step \in EraseSteps \ ContactSteps => job[h].op = "erase" /\ job[h].oid \in Oids
           /\ job[h].op \in {"contact", "erase"} /\ job[h].step # "lookup" => job[h].oid \in Oids
<1>1. Formed(job[h]) /\ job[h].op \in Ops
  BY DEF Inv, JobsFormed, Formed, Job
<1>2. job[h].op = "erase" => Erasing(job[h])
  BY DEF Inv, Erasures
<1> QED  BY <1>1, <1>2 DEF Formed, Ops, ContactSteps, FileSteps, EraseSteps

LEMMA DirectoryTypes ==
    ASSUME Inv
    PROVE  /\ [by_email |-> by_email, by_id |-> by_id] \in Dump
           /\ by_email \in [Emails -> Oids \cup {None}] /\ by_id \in [Oids -> Emails \cup {None}]
           /\ path \in Contents /\ tmp \in Contents \cup {None} /\ asked \subseteq Oids
           /\ subject \in [Oids -> Emails \cup {None}] /\ job \in [Handlers -> Job \cup {None}]
BY DEF Inv, TypeOK, Dump

LEMMA LookupKeeps == ASSUME Inv, NEW h \in Handlers, Lookup(h)  PROVE Inv'
<1>1. PICK j : j = job[h]
  OBVIOUS
<1>2. j # None /\ j.step = "lookup" /\ Formed(j) /\ j.op = "contact" /\ j \in Job /\ j.email \in Emails
      /\ j.step \notin Filed /\ j.ticket \in TicketIds
  BY <1>1, JobAt DEF Lookup, At, Formed, Filed
<1>3. UNCHANGED <<directory, files, desk, quarantine, history, restarts>>
  BY DEF Lookup
<1>4. CASE IsMapped(j.email)
  <2> DEFINE k == [j EXCEPT !.oid = by_email[j.email], !.step = "put"]
  <2>1. job' = [job EXCEPT ![h] = k] /\ UNCHANGED subject
    BY <1>1, <1>4, DirectoryTypes DEF Lookup
  <2>2. by_email[j.email] \in Oids
    BY <1>2, <1>4, DirectoryTypes DEF IsMapped
  <2>3. k \in Job
    BY <1>2, <2>2 DEF Job, Steps
  <2>4. k.op = "contact" /\ k.step = "put" /\ k.oid \in Oids /\ k.email = j.email /\ k.ticket = j.ticket
    BY <1>2, <2>2 DEF Job
  <2> HIDE DEF k
  <2>5. Formed(k) /\ k.step \notin Filed
    BY <1>2, <2>3, <2>4 DEF Formed, ContactSteps, Filed
  <2> QED  BY <1>1, <1>2, <1>3, <2>1, <2>4, <2>5, DirectoryTypes, QuietKeeps
           DEF directory, files, history
<1>5. CASE ~IsMapped(j.email)
  <2>1. PICK o \in Oids \ Minted :
            /\ subject' = [subject EXCEPT ![o] = job[h].email]
            /\ job' = [job EXCEPT ![h].oid = o, ![h].step = "bind_email",
                                  ![h].before = Cardinality(Mapped)]
    BY <1>1, <1>5 DEF Lookup
  <2> DEFINE k == [j EXCEPT !.oid = o, !.step = "bind_email", !.before = Cardinality(Mapped)]
  <2>2. job' = [job EXCEPT ![h] = k] /\ subject' \in [Oids -> Emails \cup {None}]
    BY <1>1, <1>2, <2>1, DirectoryTypes
  <2>3. k \in Job
    BY <1>2, MappedCount DEF Job, Steps
  <2>4. k.op = "contact" /\ k.step = "bind_email" /\ k.oid \in Oids /\ k.email = j.email /\ k.ticket = j.ticket
    BY <1>2 DEF Job
  <2> HIDE DEF k
  <2>5. Formed(k) /\ k.step \notin Filed
    BY <1>2, <2>3, <2>4 DEF Formed, ContactSteps, Filed
  <2> QED  BY <1>1, <1>2, <1>3, <2>2, <2>4, <2>5, DirectoryTypes, QuietKeeps
           DEF directory, files, history
<1> QED  BY <1>4, <1>5

\* An erasure, or a save of either, goes on with k, which finds nothing new.
LEMMA GoesOn ==
    ASSUME Inv, NEW h \in Handlers, job[h] # None, job[h].step \notin Filed \cup {"lookup"},
           job[h].op # "file",
           NEW k \in Job, k.op = job[h].op, k.oid = job[h].oid, k.email = job[h].email,
           k.found = job[h].found, k.ticket = job[h].ticket,
           k.op = "contact" => k.step \in ContactSteps \ ({"lookup"} \cup Filed),
           k.op = "erase" => k.step \in EraseSteps /\ k.step \in Early,
           k.step \in {"open", "write", "replace"} => k.text \in Dump
    PROVE  /\ k # None /\ Formed(k) /\ k.step \notin Filed /\ (k.op = "erase" => Erasing(k))
           /\ k.ticket = job[h].ticket /\ job[h].step \notin Filed
<1>1. Formed(job[h]) /\ job[h].op \in Ops /\ (job[h].op = "erase" => Erasing(job[h]))
  BY JobAt
<1>2. k.op = "contact" => /\ k.step \in ContactSteps /\ k.email \in Emails /\ k.ticket \in TicketIds
                          /\ k.oid \in Oids
  BY <1>1 DEF Formed
<1>3. k.op = "erase" => k.step \in EraseSteps /\ k.oid \in Oids /\ k.ticket = None
  BY <1>1 DEF Formed
<1>4. Formed(k)
  BY <1>1, <1>2, <1>3 DEF Formed
<1>5. k.op = "erase" => Erasing(k)
  BY <1>1, StillErasing
<1>6. k.step \notin Filed
  BY <1>1 DEF Filed, EraseSteps, Ops
<1> QED  BY <1>4, <1>5, <1>6, ConstantFacts

\* A request goes on to another step, none of the filing ones.
LEMMA NextStep ==
    ASSUME Inv, NEW h \in Handlers, job[h] # None, job[h].step \notin Filed \cup {"lookup"},
           NEW step \in Steps \ {"open", "write", "replace"},
           job[h].op # "file",
           job[h].op = "contact" => step \in ContactSteps \ ({"lookup"} \cup Filed),
           job[h].op = "erase" => step \in EraseSteps /\ step \in Early,
           job' = [job EXCEPT ![h].step = step]
    PROVE  \E k : /\ job' = [job EXCEPT ![h] = k] /\ k # None
                  /\ Formed(k) /\ k.step \notin Filed /\ (k.op = "erase" => Erasing(k))
                  /\ k.ticket = job[h].ticket
<1>1. PICK j : j = job[h]
  OBVIOUS
<1>2. j \in Job
  BY <1>1, JobAt DEF Formed
<1> DEFINE k == [j EXCEPT !.step = step]
<1>3. job' = [job EXCEPT ![h] = k]
  BY <1>1, DirectoryTypes
<1>4. /\ k \in Job /\ k.op = j.op /\ k.step = step /\ k.oid = j.oid /\ k.email = j.email
      /\ k.ticket = j.ticket /\ k.found = j.found
  BY <1>2 DEF Job
<1> HIDE DEF k
<1>5. /\ k # None /\ Formed(k) /\ k.step \notin Filed /\ (k.op = "erase" => Erasing(k))
      /\ k.ticket = job[h].ticket
  BY <1>1, <1>4, GoesOn
<1> QED  BY <1>3, <1>5

LEMMA BindEmailKeeps == ASSUME Inv, NEW h \in Handlers, BindEmail(h)  PROVE Inv'
<1>1. job[h] # None /\ job[h].step = "bind_email" /\ job[h].op = "contact"
      /\ job[h].oid \in Oids /\ job[h].email \in Emails
  BY JobAt DEF BindEmail, At
<1>2. job' = [job EXCEPT ![h].step = "bind_id"] /\ by_email' = [by_email EXCEPT ![job[h].email] = job[h].oid]
      /\ UNCHANGED <<by_id, files, subject, desk, quarantine, history, restarts>>
  BY DEF BindEmail, Goto
<1>3. PICK k : /\ job' = [job EXCEPT ![h] = k] /\ k # None
               /\ Formed(k) /\ k.step \notin Filed /\ (k.op = "erase" => Erasing(k))
               /\ k.ticket = job[h].ticket
  BY <1>1, <1>2, NextStep DEF Steps, Filed, ContactSteps
<1>4. [by_email |-> by_email, by_id |-> by_id]' \in Dump
  BY <1>1, <1>2, DirectoryTypes DEF Dump
<1>5. job[h].step \notin Filed
  BY <1>1 DEF Filed
<1> QED  BY <1>1, <1>2, <1>3, <1>4, <1>5, DirectoryTypes, QuietKeeps DEF files, history

LEMMA BindIdKeeps == ASSUME Inv, NEW h \in Handlers, BindId(h)  PROVE Inv'
<1>1. job[h] # None /\ job[h].step = "bind_id" /\ job[h].op = "contact"
      /\ job[h].oid \in Oids /\ job[h].email \in Emails
  BY JobAt DEF BindId, At
<1>2. PICK step \in {"dump", "put"} : job' = [job EXCEPT ![h].step = step]
  BY DEF BindId, Goto
<1>3. by_id' = [by_id EXCEPT ![job[h].oid] = job[h].email]
      /\ UNCHANGED <<by_email, files, subject, desk, quarantine, history, restarts>>
  BY DEF BindId
<1>4. PICK k : /\ job' = [job EXCEPT ![h] = k] /\ k # None
               /\ Formed(k) /\ k.step \notin Filed /\ (k.op = "erase" => Erasing(k))
               /\ k.ticket = job[h].ticket
  BY <1>1, <1>2, NextStep DEF Steps, Filed, ContactSteps
<1>5. [by_email |-> by_email, by_id |-> by_id]' \in Dump
  BY <1>1, <1>3, DirectoryTypes DEF Dump
<1>6. job[h].step \notin Filed
  BY <1>1 DEF Filed
<1> QED  BY <1>1, <1>3, <1>4, <1>5, <1>6, DirectoryTypes, QuietKeeps DEF files, history

LEMMA ForgetEmailKeeps == ASSUME Inv, NEW h \in Handlers, ForgetEmail(h)  PROVE Inv'
<1>1. job[h] # None /\ job[h].step = "forget_email" /\ job[h].op = "erase"
  BY JobAt DEF ForgetEmail, At, EraseSteps, ContactSteps
<1>2. job' = [job EXCEPT ![h].step = "dump"]
      /\ by_email' = [e \in Emails |-> IF e = job[h].popped THEN None ELSE by_email[e]]
      /\ UNCHANGED <<by_id, files, subject, desk, quarantine, history, restarts>>
  BY DEF ForgetEmail, Goto, AfterForgetting
<1>3. PICK k : /\ job' = [job EXCEPT ![h] = k] /\ k # None
               /\ Formed(k) /\ k.step \notin Filed /\ (k.op = "erase" => Erasing(k))
               /\ k.ticket = job[h].ticket
  BY <1>1, <1>2, NextStep DEF Steps, Filed, EraseSteps, Early
<1>4. [by_email |-> by_email, by_id |-> by_id]' \in Dump
  BY <1>2, DirectoryTypes DEF Dump
<1>5. job[h].step \notin Filed
  BY <1>1 DEF Filed
<1> QED  BY <1>1, <1>2, <1>3, <1>4, <1>5, DirectoryTypes, QuietKeeps DEF files, history

LEMMA ForgetIdKeeps == ASSUME Inv, NEW h \in Handlers, ForgetId(h)  PROVE Inv'
<1>1. PICK j : j = job[h]
  OBVIOUS
<1>2. j # None /\ j.step = "forget_id" /\ j.op = "erase" /\ j.oid \in Oids /\ j \in Job
  BY <1>1, JobAt DEF ForgetId, At, EraseSteps, ContactSteps, Formed
<1> DEFINE k == [j EXCEPT !.popped = by_id[j.oid], !.step = "forget_email"]
<1>3. job' = [job EXCEPT ![h] = k]
  BY <1>1, DirectoryTypes DEF ForgetId
<1>4. k \in Job
  BY <1>2, DirectoryTypes DEF Job, Steps
<1>5. /\ k.op = j.op /\ k.oid = j.oid /\ k.email = j.email /\ k.found = j.found /\ k.ticket = j.ticket
      /\ k.step = "forget_email"
  BY <1>2 DEF Job
<1> HIDE DEF k
<1>6. /\ k # None /\ Formed(k) /\ k.step \notin Filed /\ (k.op = "erase" => Erasing(k))
      /\ k.ticket = job[h].ticket /\ job[h].step \notin Filed
  BY <1>1, <1>2, <1>4, <1>5, GoesOn DEF Filed, EraseSteps, Early
<1>7. [by_email |-> by_email, by_id |-> by_id]' \in Dump /\ asked' \subseteq Oids
  BY <1>1, <1>2, DirectoryTypes DEF Dump, ForgetId
<1>8. UNCHANGED <<by_email, files, subject, desk, quarantine, receipts, restarts>>
  BY DEF ForgetId
<1> QED  BY <1>1, <1>2, <1>3, <1>6, <1>7, <1>8, DirectoryTypes, QuietKeeps DEF files

LEMMA DumpMapsKeeps == ASSUME Inv, NEW h \in Handlers, DumpMaps(h)  PROVE Inv'
<1>1. PICK j : j = job[h]
  OBVIOUS
<1>2. j # None /\ j.step = "dump" /\ j.op # "file" /\ j \in Job
  BY <1>1, JobAt DEF DumpMaps, At, FileSteps, Formed
<1> DEFINE k == [j EXCEPT !.text = [by_email |-> by_email, by_id |-> by_id], !.step = "open"]
<1>3. job' = [job EXCEPT ![h] = k]
  BY <1>1, DirectoryTypes DEF DumpMaps
<1>4. k \in Job /\ k.text \in Dump
  <2>1. [by_email |-> by_email, by_id |-> by_id] \in Dump
    BY DirectoryTypes DEF Dump
  <2> QED  BY <1>2, <2>1 DEF Job, Steps
<1>5. /\ k.op = j.op /\ k.oid = j.oid /\ k.email = j.email /\ k.found = j.found /\ k.ticket = j.ticket
      /\ k.step = "open"
  BY <1>2 DEF Job
<1> HIDE DEF k
<1>6. /\ k # None /\ Formed(k) /\ k.step \notin Filed /\ (k.op = "erase" => Erasing(k))
      /\ k.ticket = job[h].ticket /\ job[h].step \notin Filed
  BY <1>1, <1>2, <1>4, <1>5, GoesOn DEF Filed, EraseSteps, ContactSteps, Early
<1>7. UNCHANGED <<directory, files, subject, desk, quarantine, history, restarts>>
  BY DEF DumpMaps
<1> QED  BY <1>1, <1>2, <1>3, <1>6, <1>7, DirectoryTypes, QuietKeeps DEF directory, files, history

LEMMA OpenTmpKeeps == ASSUME Inv, NEW h \in Handlers, OpenTmp(h)  PROVE Inv'
<1>1. PICK j : j = job[h]
  OBVIOUS
<1>2. j # None /\ j.step = "open" /\ j.op # "file" /\ j \in Job /\ j.text \in Dump
  BY <1>1, JobAt DEF OpenTmp, At, FileSteps, Formed
<1> DEFINE k == [j EXCEPT !.into = "tmp", !.step = "write"]
<1>3. job' = [job EXCEPT ![h] = k]
  BY <1>1, DirectoryTypes DEF OpenTmp
<1>4. k \in Job /\ k.text = j.text
  BY <1>2 DEF Job, Steps, Places
<1>5. /\ k.op = j.op /\ k.oid = j.oid /\ k.email = j.email /\ k.found = j.found /\ k.ticket = j.ticket
      /\ k.step = "write"
  BY <1>2 DEF Job
<1> HIDE DEF k
<1>6. /\ k # None /\ Formed(k) /\ k.step \notin Filed /\ (k.op = "erase" => Erasing(k))
      /\ k.ticket = job[h].ticket /\ job[h].step \notin Filed
  BY <1>1, <1>2, <1>4, <1>5, GoesOn DEF Filed, EraseSteps, ContactSteps, Early
<1>7. UNCHANGED <<directory, path, subject, desk, quarantine, history, restarts>> /\ tmp' = Empty
  BY DEF OpenTmp
<1>8. tmp' \in Contents \cup {None}
  BY <1>7 DEF Contents
<1> QED  BY <1>1, <1>2, <1>3, <1>6, <1>7, <1>8, DirectoryTypes, QuietKeeps DEF directory, history

LEMMA WriteTextKeeps == ASSUME Inv, NEW h \in Handlers, WriteText(h)  PROVE Inv'
<1>1. PICK j : j = job[h]
  OBVIOUS
<1>2. j # None /\ j.step = "write" /\ j.op # "file" /\ j \in Job /\ j.text \in Dump
  BY <1>1, JobAt DEF WriteText, At, FileSteps, Formed
<1> DEFINE k == [j EXCEPT !.step = "replace"]
<1>3. job' = [job EXCEPT ![h] = k]
  BY <1>1, DirectoryTypes DEF WriteText, Goto
<1>4. k \in Job /\ k.text = j.text
  BY <1>2 DEF Job, Steps
<1>5. /\ k.op = j.op /\ k.oid = j.oid /\ k.email = j.email /\ k.found = j.found /\ k.ticket = j.ticket
      /\ k.step = "replace"
  BY <1>2 DEF Job
<1> HIDE DEF k
<1>6. /\ k # None /\ Formed(k) /\ k.step \notin Filed /\ (k.op = "erase" => Erasing(k))
      /\ k.ticket = job[h].ticket /\ job[h].step \notin Filed
  BY <1>1, <1>2, <1>4, <1>5, GoesOn DEF Filed, EraseSteps, ContactSteps, Early
<1>7. \A over : Written(j.text, over) \subseteq Contents
  BY <1>2 DEF Written, Contents
<1>8. UNCHANGED <<directory, subject, desk, quarantine, history, restarts>>
  BY DEF WriteText
<1>9. path' \in Contents /\ tmp' \in Contents \cup {None}
  <2>1. CASE j.into = "tmp"
    BY <1>1, <1>7, <2>1, DirectoryTypes DEF WriteText
  <2>2. CASE j.into = "path"
    BY <1>1, <1>7, <2>2, DirectoryTypes DEF WriteText
  <2>3. CASE j.into \notin {"tmp", "path"}
    BY <1>1, <2>3, DirectoryTypes DEF WriteText, files
  <2> QED  BY <2>1, <2>2, <2>3
<1> QED  BY <1>1, <1>2, <1>3, <1>6, <1>8, <1>9, DirectoryTypes, QuietKeeps DEF directory, history

LEMMA JobWith ==
    ASSUME NEW j \in Job, NEW step \in Steps, NEW S \in SUBSET TicketIds, NEW D \in SUBSET (1..MaxHeld)
    PROVE  /\ [j EXCEPT !.keys = S, !.step = step] \in Job /\ [j EXCEPT !.keys = S] \in Job
           /\ [j EXCEPT !.doomed = D, !.step = step] \in Job /\ [j EXCEPT !.doomed = D] \in Job
BY DEF Job

LEMMA ReadPageKeeps == ASSUME Inv, NEW h \in Handlers, ReadPage(h)  PROVE Inv'
<1>1. PICK j : j = job[h]
  OBVIOUS
<1>2. j # None /\ j.step = "read" /\ j.op = "erase" /\ j \in Job /\ j.oid \in Oids /\ j.ticket = None
      /\ Formed(j) /\ Erasing(j)
  BY <1>1, JobAt DEF ReadPage, At, EraseSteps, ContactSteps, Formed
<1>3. UNCHANGED <<directory, files, subject, desk, quarantine, history, restarts>>
  BY DEF ReadPage
<1>4. PICK page \in Chunks(tuples[j.oid] \ j.keys) :
          job' = [job EXCEPT ![h].keys = @ \cup page,
                             ![h].step = IF page = tuples[j.oid] \ j.keys THEN "delete" ELSE "read"]
  BY <1>1 DEF ReadPage
<1>5. page \subseteq tuples[j.oid] \ j.keys /\ tuples[j.oid] \subseteq TicketIds
  BY <1>2, <1>4 DEF Chunks, Inv, TypeOK
<1> DEFINE k == [j EXCEPT !.keys = j.keys \cup page,
                          !.step = IF page = tuples[j.oid] \ j.keys THEN "delete" ELSE "read"]
<1>6. job' = [job EXCEPT ![h] = k]
  BY <1>1, <1>2, <1>4, DirectoryTypes
<1>7. k \in Job
  <2>1. j.keys \cup page \in SUBSET TicketIds
    BY <1>2, <1>5 DEF Job
  <2> QED  BY <1>2, <2>1, JobWith DEF Steps
<1>8. /\ k.op = j.op /\ k.oid = j.oid /\ k.email = j.email /\ k.found = j.found /\ k.ticket = j.ticket
      /\ k.step \in {"delete", "read"} /\ (k.step = "delete" => tuples[j.oid] \subseteq k.keys)
  BY <1>2, <1>5 DEF Job
<1> HIDE DEF k
<1>9. Formed(k) /\ k.step \notin Filed /\ k.ticket = job[h].ticket /\ job[h].step \notin Filed
  BY <1>1, <1>2, <1>7, <1>8 DEF Formed, EraseSteps, Filed
<1>10. Erasing(k)
  BY <1>2, <1>8 DEF Erasing
<1> QED  BY <1>1, <1>2, <1>3, <1>6, <1>9, <1>10, DirectoryTypes, QuietKeeps DEF directory, files, history

LEMMA CollectKeeps == ASSUME Inv, NEW h \in Handlers, Collect(h)  PROVE Inv'
<1>1. PICK j : j = job[h]
  OBVIOUS
<1>2. j # None /\ j.step = "collect" /\ j.op = "erase" /\ j \in Job /\ j.oid \in Oids /\ j.ticket = None
      /\ Formed(j) /\ Erasing(j)
  BY <1>1, JobAt DEF Collect, At, EraseSteps, ContactSteps, Formed
<1>3. UNCHANGED <<directory, files, subject, desk, quarantine, history, restarts>>
  BY DEF Collect
<1> DEFINE k == [j EXCEPT !.doomed = HeldFrom(j.email), !.step = "remove"]
<1>4. job' = [job EXCEPT ![h] = k]
  BY <1>1, <1>2, DirectoryTypes DEF Collect
<1>5. k \in Job
  <2>1. HeldFrom(j.email) \in SUBSET (1..MaxHeld)
    BY DEF HeldFrom
  <2> QED  BY <1>2, <2>1, JobWith DEF Steps
<1>6. /\ k.op = j.op /\ k.oid = j.oid /\ k.email = j.email /\ k.found = j.found /\ k.ticket = j.ticket
      /\ k.step = "remove" /\ k.doomed = HeldFrom(j.email)
  BY <1>2 DEF Job
<1> HIDE DEF k
<1>7. Formed(k) /\ k.step \notin Filed /\ k.ticket = job[h].ticket /\ job[h].step \notin Filed
  BY <1>1, <1>2, <1>5, <1>6 DEF Formed, EraseSteps, Filed
<1>8. Erasing(k)
  <2>1. \A n \in j.found.mails : n \in 1..MaxHeld
    BY <1>2 DEF Job, Found
  <2> QED  BY <1>2, <1>6, <2>1 DEF Erasing, HeldFrom
<1> QED  BY <1>1, <1>2, <1>3, <1>4, <1>7, <1>8, DirectoryTypes, QuietKeeps DEF directory, files, history

\* The rename also moves the files that other threads have open.
LEMMA ReplaceKeeps == ASSUME Inv, NEW h \in Handlers, Replace(h)  PROVE Inv'
<1>1. UNCHANGED <<directory, subject, desk, quarantine, history, restarts>> /\ At(h, "replace")
  BY DEF Replace
<1>2. CASE tmp = None
  <2>1. job' = [job EXCEPT ![h] = None] /\ UNCHANGED files
    BY <1>2 DEF Replace, Finish
  <2> QED  BY <1>1, <2>1, DirectoryTypes, QuietKeeps DEF directory, files, history, At
<1>3. CASE tmp # None
  <2>1. /\ path' = tmp /\ tmp' = None
        /\ job' = [g \in Handlers |->
               IF g = h THEN [job[h] EXCEPT !.step = AfterSave(h), !.text = None]
               ELSE IF At(g, "write") THEN [job[g] EXCEPT !.into = Moved(@)]
               ELSE job[g]]
    BY <1>3 DEF Replace
  <2>2. job[h] # None /\ job[h].step = "replace" /\ job[h].op \in {"contact", "erase"}
    BY <1>1, JobAt DEF At, Formed, FileSteps, Ops
  <2>3. /\ requester' = requester /\ tuples' = tuples /\ key' = key /\ sealed' = sealed
        /\ held' = held /\ mails' = mails /\ receipts' = receipts
    BY <1>1 DEF desk, quarantine, history
  \* A request keeps all but its step, its text and its place.
  <2>4. ASSUME NEW g \in Handlers, job'[g] # None
        PROVE  /\ job[g] # None /\ Formed(job'[g])
               /\ job'[g].op = job[g].op /\ job'[g].oid = job[g].oid /\ job'[g].email = job[g].email
               /\ job'[g].ticket = job[g].ticket /\ job'[g].found = job[g].found
               /\ job'[g].keys = job[g].keys /\ job'[g].doomed = job[g].doomed /\ job'[g].key = job[g].key
               /\ job'[g].step \in {job[g].step} \/ (g = h /\ job'[g].step \in {"read", "put"})
               /\ job[g].op = "erase" /\ g = h => job'[g].step = "read"
    <3>1. CASE g = h
      <4>1. Formed(job[h])
        BY <2>2, JobAt
      <4>2. PICK j : j = job[h]
        OBVIOUS
      <4>3. j \in Job /\ job'[h] = [j EXCEPT !.step = AfterSave(h), !.text = None]
            /\ AfterSave(h) = IF j.op = "erase" THEN "read" ELSE "put"
        BY <2>1, <4>1, <4>2 DEF AfterSave, Formed
      <4> DEFINE k == [j EXCEPT !.step = AfterSave(h), !.text = None]
      <4>4. k \in Job
        BY <4>3 DEF Job, Steps
      <4>5. /\ k.op = j.op /\ k.oid = j.oid /\ k.email = j.email /\ k.ticket = j.ticket /\ k.found = j.found
            /\ k.keys = j.keys /\ k.doomed = j.doomed /\ k.key = j.key
            /\ k.step = IF j.op = "erase" THEN "read" ELSE "put"
        BY <4>3 DEF Job
      <4>6. job'[h] = k
        BY <4>3
      <4> HIDE DEF k
      <4>7. Formed(k)
        BY <2>2, <4>1, <4>2, <4>4, <4>5 DEF Formed, ContactSteps, EraseSteps
      <4> QED  BY <2>2, <3>1, <4>2, <4>5, <4>6, <4>7
    <3>2. CASE g # h /\ At(g, "write")
      <4>1. PICK j : j = job[g]
        OBVIOUS
      <4>2. j # None /\ Formed(j) /\ j \in Job /\ j.into \in Places
        BY <3>2, <4>1, JobAt DEF At, Formed, Job
      <4> DEFINE k == [j EXCEPT !.into = Moved(j.into)]
      <4>3. job'[g] = k
        BY <2>1, <3>2, <4>1, <4>2
      <4>4. k \in Job
        BY <4>2 DEF Job, Moved, Places
      <4>5. /\ k.op = j.op /\ k.oid = j.oid /\ k.email = j.email /\ k.ticket = j.ticket /\ k.found = j.found
            /\ k.keys = j.keys /\ k.doomed = j.doomed /\ k.key = j.key /\ k.step = j.step /\ k.text = j.text
        BY <4>2 DEF Job
      <4> HIDE DEF k
      <4>6. Formed(k)
        BY <4>2, <4>4, <4>5 DEF Formed
      <4> QED  BY <3>2, <4>1, <4>2, <4>3, <4>5, <4>6
    <3>3. CASE g # h /\ ~At(g, "write")
      <4>1. job'[g] = job[g]
        BY <2>1, <3>3
      <4>2. PICK j : j = job[g]
        OBVIOUS
      <4> QED  BY <2>4, <3>3, <4>1, <4>2, JobAt
    <3> QED  BY <3>1, <3>2, <3>3
  <2>5. JobsFormed' /\ job' \in [Handlers -> Job \cup {None}]
    <3>1. \A g \in Handlers : job'[g] \in Job \cup {None}
      BY <2>4 DEF Formed
    <3> QED  BY <2>1, <2>4, <3>1 DEF JobsFormed
  <2>6. \A t, S : Past(t, S) /\ S \in {{"grant"}, {"grant", "encrypt"}, Filed} => Past(t, S)'
    BY <2>3, <2>4 DEF Past, Filed
  <2>7. FiledOnce'
    BY <2>2, <2>3, <2>4 DEF Inv, FiledOnce, Filed
  <2>8. UsedOnce'
    BY <2>3, <2>4, <2>6 DEF Inv, UsedOnce, At
  <2>9. World
    BY <2>3, <2>6, ConstantFacts DEF World, PutStays, Inv, TypeOK
  <2>10. Erasures'
    <3>1. ASSUME NEW g \in Handlers, job'[g] # None, job'[g].op = "erase"  PROVE Erasing(job[g])'
      <4>1. PICK j : j = job[g]
        OBVIOUS
      <4>2. PICK k : k = job'[g]
        OBVIOUS
      <4>3. j # None /\ Formed(j) /\ j.op = "erase" /\ Erasing(j)
        BY <2>4, <3>1, <4>1, JobAt
      <4>4. Erasing(j)'
        BY <2>9, <4>3, ErasingStays DEF Inv
      <4>5. /\ k.oid = j.oid /\ k.email = j.email /\ k.found = j.found /\ k.keys = j.keys /\ k.doomed = j.doomed
            /\ k.step = j.step \/ k.step = "read"
        BY <2>4, <3>1, <4>1, <4>2
      <4>6. Erasing(k)'
        BY <4>4, <4>5 DEF Erasing
      <4> QED  BY <4>2, <4>6
    <3> QED  BY <3>1 DEF Erasures
  <2>11. HeldInOrder'
    BY <2>3 DEF Inv, HeldInOrder
  <2>12. Receipts'
    BY <2>3, <2>9, ReceiptsStay DEF Inv
  <2>13. TypeOK'
    <3>1. path' \in Contents /\ tmp' \in Contents \cup {None}
      BY <1>3, <2>1, DirectoryTypes
    <3> QED  BY <1>1, <2>5, <3>1, DirectoryTypes, QuietTypes DEF Inv, directory, history
  <2> QED  BY <2>5, <2>7, <2>8, <2>10, <2>11, <2>12, <2>13 DEF Inv
<1> QED  BY <1>2, <1>3
-----------------------------------------------------------------------------
(* A ticket is filed. *)

\* Thread h goes on with k, and every part of the invariant is kept.
LEMMA StepKeeps ==
    ASSUME Inv, TypeOK', World, HeldInOrder', receipts' = receipts,
           NEW h \in Handlers, NEW k, job' = [job EXCEPT ![h] = k], k # None => Formed(k),
           FiledOnce', UsedOnce', k # None /\ k.op = "erase" => Erasing(k)'
    PROVE  Inv'
<1>1. JobsFormed'
  BY JobStep DEF Inv
<1>2. Erasures' /\ Receipts'
  BY OthersStay, ReceiptsStay DEF Inv
<1> QED  BY <1>1, <1>2 DEF Inv

\* The parts of the world a filing thread may disturb.
LEMMA FilingWorld ==
    ASSUME Inv, UNCHANGED quarantine, NEW h \in Handlers, NEW k, job' = [job EXCEPT ![h] = k],
           PutStays, Onward(h, k),
           \A o \in Oids : \A t \in tuples'[o] : t \in tuples[o] \/ ~Past(t, {"grant"}),
           \A t \in TicketIds : sealed[t] # None => sealed'[t] = sealed[t],
           \A o \in Oids : key'[o] \in {key[o], None} \/ ~Past(key'[o], {"grant", "encrypt"})
    PROVE  World /\ HeldInOrder'
<1>1. job \in [Handlers -> Job \cup {None}] /\ mails \in Nat
  BY ConstantFacts DEF Inv, TypeOK
<1>2. \A t, S : Past(t, S) /\ S \in {{"grant"}, {"grant", "encrypt"}, Filed} => Past(t, S)'
  BY <1>1, PastStays
<1> QED  BY <1>1, <1>2 DEF World, Inv, HeldInOrder, quarantine

LEMMA PutTicketKeeps == ASSUME Inv, NEW h \in Handlers, PutTicket(h)  PROVE Inv'
<1>1. PICK j : j = job[h]
  OBVIOUS
<1>2. j # None /\ j.step = "put" /\ j.op # "erase" /\ j \in Job /\ Formed(j)
      /\ j.oid \in Oids /\ j.ticket \in TicketIds
  BY <1>1, JobAt DEF PutTicket, At, EraseSteps, Formed, Ops
<1> DEFINE k == [j EXCEPT !.step = "grant"]
<1>3. job' = [job EXCEPT ![h] = k]
  BY <1>1, DirectoryTypes DEF PutTicket, Goto
<1>4. k \in Job
  BY <1>2 DEF Job, Steps
<1>5. k.op = j.op /\ k.oid = j.oid /\ k.email = j.email /\ k.ticket = j.ticket /\ k.step = "grant"
  BY <1>2 DEF Job
<1> HIDE DEF k
<1>6. Formed(k) /\ k # None
  BY <1>2, <1>4, <1>5, ConstantFacts DEF Formed, ContactSteps, FileSteps
<1>7. requester[j.ticket] = None
  BY <1>1, <1>2, ConstantFacts DEF Inv, FiledOnce, Filed
<1>8. /\ requester' = [requester EXCEPT ![j.ticket] = j.oid]
      /\ UNCHANGED <<directory, files, subject, tuples, key, sealed, quarantine, history, restarts>>
  BY <1>1 DEF PutTicket
<1>9. TypeOK'
  <2>1. requester' \in [TicketIds -> Oids \cup {None}]
    BY <1>2, <1>8 DEF Inv, TypeOK
  <2>2. job' \in [Handlers -> Job \cup {None}]
    BY <1>3, <1>4, DirectoryTypes
  <2> QED  BY <1>8, <2>1, <2>2 DEF Inv, TypeOK, directory, files, quarantine, history
<1>10. PutStays /\ Onward(h, k) /\ requester'[k.ticket] = k.oid
  BY <1>2, <1>5, <1>7, <1>8 DEF PutStays, Onward, Inv, TypeOK
<1>11. World /\ HeldInOrder'
  BY <1>3, <1>8, <1>10, FilingWorld DEF Inv, TypeOK
<1>12. FiledOnce'
  <2>1. \A t \in TicketIds : requester'[t] = requester[t] \/ k.ticket = t
    BY <1>2, <1>5, <1>8 DEF Inv, TypeOK
  <2>2. job[h] # None /\ job[h].ticket = k.ticket
    BY <1>1, <1>2, <1>5
  <2>3. requester'[k.ticket] = IF k.step \in Filed THEN k.oid ELSE None
    BY <1>5, <1>10 DEF Filed
  <2> QED  BY <1>3, <1>6, <2>1, <2>2, <2>3, FiledOnceStays
<1>13. UsedOnce'
  BY <1>3, <1>5, <1>8, <1>11, UsedOnceStays
<1> QED  BY <1>2, <1>3, <1>5, <1>6, <1>8, <1>9, <1>11, <1>12, <1>13, StepKeeps DEF history

LEMMA GrantKeeps == ASSUME Inv, NEW h \in Handlers, Grant(h)  PROVE Inv'
<1>1. PICK j : j = job[h]
  OBVIOUS
<1>2. j # None /\ j.step = "grant" /\ j.op # "erase" /\ j \in Job /\ Formed(j)
      /\ j.oid \in Oids /\ j.ticket \in TicketIds
  BY <1>1, JobAt DEF Grant, At, EraseSteps, Formed, Ops
<1> DEFINE next == [j EXCEPT !.step = "encrypt"]
           k == IF j.op = "file" THEN next ELSE None
<1>3. job' = [job EXCEPT ![h] = k]
  BY <1>1, DirectoryTypes DEF Grant, Goto, Finish
<1>4. next \in Job
  BY <1>2 DEF Job, Steps
<1>5. next.op = j.op /\ next.oid = j.oid /\ next.ticket = j.ticket /\ next.step = "encrypt"
  BY <1>2 DEF Job
<1> HIDE DEF next
<1>6. j.op = "file" => Formed(next)
  BY <1>2, <1>4, <1>5 DEF Formed, FileSteps
<1>7. k # None => /\ k = next /\ Formed(k) /\ k.op = "file" /\ k.step = "encrypt"
                  /\ k.ticket = j.ticket /\ k.oid = j.oid
  BY <1>5, <1>6
<1>8. k \in Job \cup {None}
  BY <1>4
<1> HIDE DEF k
<1>9. /\ tuples' = [tuples EXCEPT ![j.oid] = @ \cup {j.ticket}]
      /\ UNCHANGED <<directory, files, subject, requester, key, sealed, quarantine, history, restarts>>
  BY <1>1 DEF Grant
<1>10. TypeOK'
  <2>1. tuples' \in [Oids -> SUBSET TicketIds]
    BY <1>2, <1>9 DEF Inv, TypeOK
  <2>2. job' \in [Handlers -> Job \cup {None}]
    BY <1>3, <1>8, DirectoryTypes
  <2> QED  BY <1>9, <2>1, <2>2 DEF Inv, TypeOK, directory, files, quarantine, history
<1>11. PutStays /\ Onward(h, k)
  BY <1>1, <1>2, <1>7, <1>9 DEF PutStays, Onward
<1>12. \A o \in Oids : \A t \in tuples'[o] : t \in tuples[o] \/ t = j.ticket
  BY <1>2, <1>9 DEF Inv, TypeOK
<1>13. ~Past(j.ticket, {"grant"})
  BY <1>1, <1>2 DEF Past
<1>14. World /\ HeldInOrder'
  BY <1>3, <1>9, <1>11, <1>12, <1>13, FilingWorld
<1>15. requester[j.ticket] = j.oid /\ requester[j.ticket] # None
  BY <1>1, <1>2, ConstantFacts DEF Inv, FiledOnce, Filed
<1>16. FiledOnce'
  <2>1. \A t \in TicketIds : requester'[t] = requester[t]
    BY <1>9
  <2>2. k # None => job[h] # None /\ job[h].ticket = k.ticket
    BY <1>1, <1>2, <1>7
  <2>3. k # None => requester'[k.ticket] = IF k.step \in Filed THEN k.oid ELSE None
    BY <1>7, <1>9, <1>15 DEF Filed
  <2> QED  BY <1>3, <1>7, <2>1, <2>2, <2>3, FiledOnceStays
<1>17. Past(j.ticket, {"grant"})'
  <2>1. ASSUME NEW g \in Handlers, job'[g] # None, job'[g].ticket = j.ticket  PROVE job'[g].step # "grant"
    BY <1>1, <1>2, <1>3, <1>7, <2>1, DirectoryTypes, ConstantFacts DEF Inv, FiledOnce
  <2> QED  BY <1>2, <1>9, <1>15, <2>1 DEF Past
<1>18. UsedOnce'
  <2>1. \A o \in Oids : \A t \in tuples'[o] : t \in tuples[o] \/ Past(t, {"grant"})'
    BY <1>12, <1>17
  <2> QED  BY <1>3, <1>7, <1>9, <1>14, <2>1, UsedOnceStays
<1> QED  BY <1>3, <1>7, <1>9, <1>10, <1>14, <1>16, <1>18, StepKeeps DEF history

LEMMA EncryptKeeps == ASSUME Inv, NEW h \in Handlers, Encrypt(h)  PROVE Inv'
<1>1. PICK j : j = job[h]
  OBVIOUS
<1>2. j # None /\ j.step = "encrypt" /\ j.op = "file" /\ j \in Job /\ Formed(j)
      /\ j.oid \in Oids /\ j.ticket \in TicketIds
  BY <1>1, JobAt DEF Encrypt, At, EraseSteps, ContactSteps, Formed, Ops
<1>3. PICK c : c = IF key[j.oid] = None THEN j.ticket ELSE key[j.oid]
  OBVIOUS
<1>4. /\ key' = [key EXCEPT ![j.oid] = c]
      /\ job' = [job EXCEPT ![h].key = c, ![h].step = "append"]
      /\ UNCHANGED <<directory, files, subject, requester, tuples, sealed, quarantine, history, restarts>>
  BY <1>1, <1>3 DEF Encrypt
<1>5. c \in TicketIds
  BY <1>2, <1>3 DEF Inv, TypeOK
<1> DEFINE k == [j EXCEPT !.key = c, !.step = "append"]
<1>6. job' = [job EXCEPT ![h] = k]
  BY <1>1, <1>4, DirectoryTypes
<1>7. k \in Job
  BY <1>2, <1>5 DEF Job, Steps
<1>8. k.op = j.op /\ k.oid = j.oid /\ k.ticket = j.ticket /\ k.key = c /\ k.step = "append"
  BY <1>2 DEF Job
<1> HIDE DEF k
<1>9. Formed(k) /\ k # None
  BY <1>2, <1>5, <1>7, <1>8, ConstantFacts DEF Formed, FileSteps
<1>10. TypeOK'
  <2>1. key' \in [Oids -> TicketIds \cup {None}]
    BY <1>4, <1>5 DEF Inv, TypeOK
  <2>2. job' \in [Handlers -> Job \cup {None}]
    BY <1>6, <1>7, DirectoryTypes
  <2> QED  BY <1>4, <2>1, <2>2 DEF Inv, TypeOK, directory, files, quarantine, history
<1>11. PutStays /\ Onward(h, k)
  BY <1>1, <1>2, <1>4, <1>8 DEF PutStays, Onward
<1>12. \A o \in Oids : key'[o] = key[o] \/ key'[o] = j.ticket
  BY <1>2, <1>3, <1>4 DEF Inv, TypeOK
<1>13. ~Past(j.ticket, {"grant", "encrypt"})
  BY <1>1, <1>2 DEF Past
<1>14. World /\ HeldInOrder'
  BY <1>4, <1>6, <1>11, <1>12, <1>13, FilingWorld
<1>15. requester[j.ticket] = j.oid /\ requester[j.ticket] # None
  BY <1>1, <1>2, ConstantFacts DEF Inv, FiledOnce, Filed
<1>16. FiledOnce'
  <2>1. \A t \in TicketIds : requester'[t] = requester[t]
    BY <1>4
  <2>2. job[h] # None /\ job[h].ticket = k.ticket
    BY <1>1, <1>2, <1>8
  <2>3. requester'[k.ticket] = IF k.step \in Filed THEN k.oid ELSE None
    BY <1>4, <1>8, <1>15 DEF Filed
  <2> QED  BY <1>6, <1>9, <2>1, <2>2, <2>3, FiledOnceStays
<1>17. Past(j.ticket, {"grant", "encrypt"})'
  <2>1. ASSUME NEW g \in Handlers, job'[g] # None, job'[g].ticket = j.ticket
        PROVE  job'[g].step \notin {"grant", "encrypt"}
    BY <1>1, <1>2, <1>6, <1>8, <2>1, DirectoryTypes, ConstantFacts DEF Inv, FiledOnce
  <2> QED  BY <1>2, <1>4, <1>15, <2>1 DEF Past
<1>18. Past(c, {"grant", "encrypt"})'
  <2>1. CASE key[j.oid] = None
    BY <1>3, <1>17, <2>1
  <2>2. CASE key[j.oid] # None
    <3>1. Past(c, {"grant", "encrypt"})
      BY <1>2, <1>3, <2>2 DEF Inv, UsedOnce
    <3> QED  BY <1>14, <3>1 DEF World
  <2> QED  BY <2>1, <2>2
<1>19. UsedOnce'
  <2>1. ASSUME NEW o \in Oids, key'[o] # None
        PROVE  key'[o] = key[o] \/ Past(key[o], {"grant", "encrypt"})'
    <3>1. CASE key'[o] = j.ticket
      BY <1>17, <3>1
    <3> QED  BY <1>12, <3>1
  <2>2. Past(k.key, {"grant", "encrypt"})'
    BY <1>8, <1>18
  <2> QED  BY <1>4, <1>6, <1>14, <2>1, <2>2, UsedOnceStays
<1> QED  BY <1>2, <1>4, <1>6, <1>8, <1>9, <1>10, <1>14, <1>16, <1>19, StepKeeps DEF history

LEMMA AppendBodyKeeps == ASSUME Inv, NEW h \in Handlers, AppendBody(h)  PROVE Inv'
<1>1. PICK j : j = job[h]
  OBVIOUS
<1>2. j # None /\ j.step = "append" /\ j.op = "file" /\ j \in Job /\ Formed(j)
      /\ j.oid \in Oids /\ j.ticket \in TicketIds /\ j.key \in TicketIds
  BY <1>1, JobAt DEF AppendBody, At, EraseSteps, ContactSteps, Formed, Ops
<1>3. /\ sealed' = [sealed EXCEPT ![j.ticket] = j.key]
      /\ job' = [job EXCEPT ![h] = None]
      /\ UNCHANGED <<directory, files, subject, requester, tuples, key, quarantine, history, restarts>>
  BY <1>1 DEF AppendBody, Finish
<1>4. TypeOK'
  <2>1. sealed' \in [TicketIds -> TicketIds \cup {None}]
    BY <1>2, <1>3 DEF Inv, TypeOK
  <2>2. job' \in [Handlers -> Job \cup {None}]
    BY <1>3, DirectoryTypes
  <2> QED  BY <1>3, <2>1, <2>2 DEF Inv, TypeOK, directory, files, quarantine, history
<1>5. PutStays /\ Onward(h, None)
  BY <1>3 DEF PutStays, Onward
<1>6. sealed[j.ticket] = None
  BY <1>1, <1>2 DEF Inv, UsedOnce, Past, Filed
<1>7. \A t \in TicketIds : sealed'[t] = IF t = j.ticket THEN j.key ELSE sealed[t]
  BY <1>2, <1>3 DEF Inv, TypeOK
<1>8. World /\ HeldInOrder'
  BY <1>3, <1>5, <1>6, <1>7, FilingWorld
<1>9. FiledOnce'
  BY <1>3, FiledOnceStays
<1>10. requester[j.ticket] # None
  BY <1>1, <1>2, ConstantFacts DEF Inv, FiledOnce, Filed
<1>11. Past(j.ticket, Filed)'
  <2>1. ASSUME NEW g \in Handlers, job'[g] # None, job'[g].ticket = j.ticket  PROVE FALSE
    BY <1>1, <1>2, <1>3, <2>1, DirectoryTypes, ConstantFacts DEF Inv, FiledOnce
  <2> QED  BY <1>2, <1>3, <1>10, <2>1 DEF Past
<1>12. Past(j.key, {"grant", "encrypt"})'
  <2>1. Past(j.key, {"grant", "encrypt"})
    BY <1>1, <1>2 DEF Inv, UsedOnce, At
  <2> QED  BY <1>8, <2>1 DEF World
<1>13. UsedOnce'
  <2>1. ASSUME NEW t \in TicketIds, sealed'[t] # None
        PROVE  \/ sealed'[t] = sealed[t]
               \/ Past(t, Filed)' /\ Past(sealed[t], {"grant", "encrypt"})'
    <3>1. PICK c : c = sealed'[t]
      OBVIOUS
    <3>2. CASE t = j.ticket
      <4>1. Past(c, {"grant", "encrypt"})'
        BY <1>7, <1>12, <3>1, <3>2
      <4> QED  BY <1>11, <3>1, <3>2, <4>1
    <3> QED  BY <1>7, <3>2
  <2> QED  BY <1>3, <1>8, <2>1, UsedOnceStays
<1> QED  BY <1>3, <1>4, <1>8, <1>9, <1>13, StepKeeps DEF history
-----------------------------------------------------------------------------
(* The rest of an erasure. *)

\* An erasure that removes tuples, mails or its key, and nothing else.
LEMMA ErasureStep ==
    ASSUME Inv, UNCHANGED <<directory, files, subject, requester, sealed, mails, history, restarts>>,
           NEW h \in Handlers, NEW j \in Job, j = job[h], j # None, j.op = "erase",
           NEW k \in Job, job' = [job EXCEPT ![h] = k], k.op = "erase", Formed(k),
           k.ticket = None, Erasing(j)' => Erasing(k)',
           tuples' \in [Oids -> SUBSET TicketIds], \A o \in Oids : tuples'[o] \subseteq tuples[o],
           key' \in [Oids -> TicketIds \cup {None}], \A o \in Oids : key'[o] \in {key[o], None},
           held' \in [1..MaxHeld -> Emails \cup {None}],
           \A n \in 1..MaxHeld : held'[n] \in {held[n], None}
    PROVE  Inv'
<1>1. job' \in [Handlers -> Job \cup {None}] /\ mails' \in Nat /\ mails' = mails
  BY DirectoryTypes, ConstantFacts DEF Inv, TypeOK
<1>2. TypeOK'
  BY <1>1 DEF Inv, TypeOK, directory, files, history
<1>3. Formed(j) /\ Erasing(j) /\ j.step \in EraseSteps
  BY JobAt DEF Formed
<1>4. k.step \in EraseSteps /\ k.step \notin Filed
  BY DEF Formed, EraseSteps, Filed
<1>5. PutStays /\ Onward(h, k)
  BY <1>4 DEF PutStays, Onward, Filed
<1>6. World
  <2>1. \A t, S : Past(t, S) /\ S \in {{"grant"}, {"grant", "encrypt"}, Filed} => Past(t, S)'
    BY <1>5, PastStays, DirectoryTypes
  <2>2. mails <= mails'
    BY <1>1
  <2> QED  BY <1>1, <1>5, <2>1, <2>2 DEF World
<1>7. HeldInOrder'
  BY <1>1 DEF Inv, HeldInOrder
<1>8. FiledOnce'
  BY FiledOnceStays
<1>9. UsedOnce'
  <2>1. k.step # "append"
    BY <1>4 DEF Filed
  <2>2. \A o \in Oids : key'[o] # None => key'[o] = key[o]
    OBVIOUS
  <2> QED  BY <1>6, <2>1, <2>2, UsedOnceStays
<1>10. Erasing(k)'
  BY <1>3, <1>6, ErasingStays DEF Inv
<1> QED  BY <1>2, <1>6, <1>7, <1>8, <1>9, <1>10, StepKeeps DEF history

LEMMA DeleteBatchKeeps == ASSUME Inv, NEW h \in Handlers, DeleteBatch(h)  PROVE Inv'
<1>1. PICK j : j = job[h]
  OBVIOUS
<1>2. j # None /\ j.step = "delete" /\ j.op = "erase" /\ j \in Job /\ j.oid \in Oids /\ j.ticket = None
      /\ Formed(j) /\ Erasing(j) /\ j.step \notin Filed
  BY <1>1, JobAt DEF DeleteBatch, At, EraseSteps, ContactSteps, Formed, Filed
<1>3. UNCHANGED <<directory, files, subject, requester, key, sealed, quarantine, history, restarts>>
  BY DEF DeleteBatch
<1>4. CASE /\ j.keys = {}
           /\ Goto(h, IF j.email = None THEN "destroy" ELSE "collect")
           /\ UNCHANGED tuples
  <2> DEFINE k == [j EXCEPT !.step = IF j.email = None THEN "destroy" ELSE "collect"]
  <2>1. job' = [job EXCEPT ![h] = k]
    BY <1>1, <1>4, DirectoryTypes DEF Goto
  <2>2. k \in Job
    BY <1>2 DEF Job, Steps
  <2>3. /\ k.op = j.op /\ k.oid = j.oid /\ k.email = j.email /\ k.found = j.found /\ k.ticket = j.ticket
        /\ k.step = IF j.email = None THEN "destroy" ELSE "collect"
    BY <1>2 DEF Job
  <2> HIDE DEF k
  <2>4. Formed(k) /\ k.step \notin Filed
    BY <1>2, <2>2, <2>3 DEF Formed, EraseSteps, Filed
  <2>5. Erasing(k)
    BY <1>2, <1>4, <2>3 DEF Erasing, TuplesGone, MailsGone
  <2> QED  BY <1>1, <1>2, <1>3, <1>4, <2>1, <2>3, <2>4, <2>5, DirectoryTypes, QuietKeeps
           DEF directory, files, desk, history
<1>5. CASE Finish(h) /\ UNCHANGED tuples
  BY <1>1, <1>2, <1>3, <1>5, DirectoryTypes, QuietKeeps DEF directory, files, desk, history, Finish
<1>6. ASSUME NEW chunk \in Chunks(j.keys) \ {{}},
             tuples' = [tuples EXCEPT ![j.oid] = @ \ chunk],
             job' = [job EXCEPT ![h].keys = @ \ chunk]
      PROVE  Inv'
  <2>1. PICK left : left = j.keys \ chunk
    OBVIOUS
  <2>2. left \in SUBSET TicketIds
    BY <1>2, <2>1 DEF Job
  <2> DEFINE k == [j EXCEPT !.keys = left]
  <2>3. k \in Job
    <3>1. j \in Job /\ j.step \in Steps
      BY <1>2 DEF Job
    <3> QED  BY <2>2, <3>1, JobWith
  <2>4. job' = [job EXCEPT ![h] = k]
    BY <1>1, <1>2, <1>6, <2>1, DirectoryTypes
  <2>5. /\ k.op = j.op /\ k.oid = j.oid /\ k.email = j.email /\ k.found = j.found /\ k.ticket = j.ticket
        /\ k.step = "delete" /\ k.keys = left
    BY <1>2 DEF Job
  <2> HIDE DEF k
  <2>6. Formed(k)
    BY <1>2, <2>3, <2>5 DEF Formed, EraseSteps
  <2>7. \A o \in Oids : tuples'[o] = IF o = j.oid THEN tuples[o] \ chunk ELSE tuples[o]
    BY <1>2, <1>6 DEF Inv, TypeOK
  <2>8. tuples' \in [Oids -> SUBSET TicketIds] /\ \A o \in Oids : tuples'[o] \subseteq tuples[o]
    BY <1>2, <1>6, <2>7 DEF Inv, TypeOK
  <2>9. Erasing(j)' => Erasing(k)'
    BY <1>2, <2>1, <2>5, <2>7 DEF Erasing
  <2>10. key' \in [Oids -> TicketIds \cup {None}] /\ held' \in [1..MaxHeld -> Emails \cup {None}]
         /\ key' = key /\ held' = held /\ mails' = mails
    BY <1>3 DEF Inv, TypeOK, quarantine
  <2>11. Inv'
    BY <1>1, <1>2, <1>3, <2>3, <2>4, <2>5, <2>6, <2>8, <2>9, <2>10, ErasureStep
  <2> QED  BY <2>11
<1> QED  BY <1>1, <1>4, <1>5, <1>6 DEF DeleteBatch

LEMMA RemoveMailKeeps == ASSUME Inv, NEW h \in Handlers, RemoveMail(h)  PROVE Inv'
<1>1. PICK j : j = job[h]
  OBVIOUS
<1>2. j # None /\ j.step = "remove" /\ j.op = "erase" /\ j \in Job /\ j.oid \in Oids /\ j.ticket = None
      /\ Formed(j) /\ Erasing(j) /\ j.step \notin Filed /\ j.doomed \subseteq 1..MaxHeld
  BY <1>1, JobAt DEF RemoveMail, At, EraseSteps, ContactSteps, Formed, Filed, Job
<1>3. UNCHANGED <<directory, files, subject, desk, mails, history, restarts>>
  BY DEF RemoveMail
<1>4. CASE j.doomed = {} /\ Goto(h, "destroy") /\ UNCHANGED held
  <2> DEFINE k == [j EXCEPT !.step = "destroy"]
  <2>1. job' = [job EXCEPT ![h] = k]
    BY <1>1, <1>4, DirectoryTypes DEF Goto
  <2>2. k \in Job
    BY <1>2 DEF Job, Steps
  <2>3. /\ k.op = j.op /\ k.oid = j.oid /\ k.email = j.email /\ k.found = j.found /\ k.ticket = j.ticket
        /\ k.step = "destroy"
    BY <1>2 DEF Job
  <2> HIDE DEF k
  <2>4. Formed(k) /\ k.step \notin Filed
    BY <1>2, <2>2, <2>3 DEF Formed, EraseSteps, Filed
  <2>5. Erasing(k)
    BY <1>2, <1>4, <2>3 DEF Erasing, MailsGone
  <2> QED  BY <1>1, <1>2, <1>3, <1>4, <2>1, <2>3, <2>4, <2>5, DirectoryTypes, QuietKeeps
           DEF directory, files, quarantine, history
<1>5. CASE Finish(h) /\ UNCHANGED held
  BY <1>1, <1>2, <1>3, <1>5, DirectoryTypes, QuietKeeps DEF directory, files, quarantine, history, Finish
<1>6. ASSUME NEW n \in j.doomed, held' = [held EXCEPT ![n] = None],
             job' = [job EXCEPT ![h].doomed = @ \ {n}]
      PROVE  Inv'
  <2>1. PICK left : left = j.doomed \ {n}
    OBVIOUS
  <2>2. left \in SUBSET (1..MaxHeld)
    BY <1>2, <2>1
  <2> DEFINE k == [j EXCEPT !.doomed = left]
  <2>3. k \in Job
    <3>1. j \in Job /\ j.step \in Steps
      BY <1>2 DEF Job
    <3> QED  BY <2>2, <3>1, JobWith
  <2>4. job' = [job EXCEPT ![h] = k]
    BY <1>1, <1>2, <1>6, <2>1, DirectoryTypes
  <2>5. /\ k.op = j.op /\ k.oid = j.oid /\ k.email = j.email /\ k.found = j.found /\ k.ticket = j.ticket
        /\ k.step = "remove" /\ k.doomed = left
    BY <1>2 DEF Job
  <2> HIDE DEF k
  <2>6. Formed(k)
    BY <1>2, <2>3, <2>5 DEF Formed, EraseSteps
  <2>7. /\ held' \in [1..MaxHeld -> Emails \cup {None}] /\ held'[n] = None
        /\ \A m \in 1..MaxHeld : held'[m] \in {held[m], None}
    BY <1>2, <1>6 DEF Inv, TypeOK
  <2>8. Erasing(j)' => Erasing(k)'
    BY <1>2, <2>1, <2>5, <2>7 DEF Erasing
  <2>9. key' \in [Oids -> TicketIds \cup {None}] /\ tuples' \in [Oids -> SUBSET TicketIds]
        /\ UNCHANGED <<key, tuples, requester, sealed>>
    BY <1>3 DEF Inv, TypeOK, desk
  <2>10. \A o \in Oids : tuples'[o] \subseteq tuples[o] /\ key'[o] \in {key[o], None}
    BY <2>9
  <2>11. Inv'
    BY <1>1, <1>2, <1>3, <2>3, <2>4, <2>5, <2>6, <2>7, <2>8, <2>9, <2>10, ErasureStep
  <2> QED  BY <2>11
<1> QED  BY <1>1, <1>4, <1>5, <1>6 DEF RemoveMail

LEMMA DestroyKeeps == ASSUME Inv, NEW h \in Handlers, Destroy(h)  PROVE Inv'
<1>1. PICK j : j = job[h]
  OBVIOUS
<1>2. j # None /\ j.step = "destroy" /\ j.op = "erase" /\ j \in Job /\ j.oid \in Oids /\ j.ticket = None
      /\ Formed(j) /\ Erasing(j)
  BY <1>1, JobAt DEF Destroy, At, EraseSteps, ContactSteps, Formed
<1>3. UNCHANGED <<directory, files, subject, requester, tuples, sealed, quarantine, history, restarts>>
      /\ job' = [job EXCEPT ![h].step = "receipt"]
  BY DEF Destroy, Goto
<1> DEFINE k == [j EXCEPT !.step = "receipt"]
<1>4. job' = [job EXCEPT ![h] = k]
  BY <1>1, <1>3, DirectoryTypes
<1>5. k \in Job
  BY <1>2 DEF Job, Steps
<1>6. /\ k.op = j.op /\ k.oid = j.oid /\ k.email = j.email /\ k.found = j.found /\ k.ticket = j.ticket
      /\ k.step = "receipt"
  BY <1>2 DEF Job
<1> HIDE DEF k
<1>7. Formed(k)
  BY <1>2, <1>5, <1>6 DEF Formed, EraseSteps
<1>8. /\ key' \in [Oids -> TicketIds \cup {None}] /\ \A o \in Oids : key'[o] \in {key[o], None}
      /\ ~VaultMayRefuse => key'[j.oid] = None
  <2>1. CASE key' = [key EXCEPT ![j.oid] = None]
    BY <1>2, <2>1 DEF Inv, TypeOK
  <2>2. CASE VaultMayRefuse /\ UNCHANGED key
    BY <2>2 DEF Inv, TypeOK
  <2> QED  BY <1>1, <2>1, <2>2 DEF Destroy, KeyDestroyed
<1>9. Erasing(j)' => Erasing(k)'
  BY <1>2, <1>6, <1>8 DEF Erasing, BodiesGone, FoundSound
<1>10. tuples' \in [Oids -> SUBSET TicketIds] /\ held' \in [1..MaxHeld -> Emails \cup {None}]
       /\ UNCHANGED <<tuples, held, mails>>
  BY <1>3 DEF Inv, TypeOK, quarantine
<1>11. /\ \A o \in Oids : tuples'[o] \subseteq tuples[o]
       /\ \A n \in 1..MaxHeld : held'[n] \in {held[n], None}
  BY <1>10
<1> QED  BY <1>1, <1>2, <1>3, <1>4, <1>5, <1>6, <1>7, <1>8, <1>9, <1>10, <1>11, ErasureStep, ZenonT(30)

\* Two receipts of one id, taken together.
LEMMA TogetherFound ==
    ASSUME NEW a \in Found, NEW b \in Found,
           NEW all, all = [part \in DOMAIN Nothing |-> a[part] \cup b[part]]
    PROVE  /\ all \in Found /\ all.tuples = a.tuples \cup b.tuples
           /\ all.bodies = a.bodies \cup b.bodies /\ all.mails = a.mails \cup b.mails
<1>1. DOMAIN Nothing = {"tuples", "filed", "bodies", "mails", "pii"}
  BY DEF Nothing
<1>2. all = [tuples |-> a.tuples \cup b.tuples, filed |-> a.filed \cup b.filed,
             bodies |-> a.bodies \cup b.bodies, mails |-> a.mails \cup b.mails, pii |-> a.pii \cup b.pii]
  BY <1>1
<1>3. all \in Found
  BY <1>2 DEF Found
<1> QED  BY <1>2, <1>3

LEMMA ReceiptKeeps == ASSUME Inv, NEW h \in Handlers, Receipt(h)  PROVE Inv'
<1>1. PICK j : j = job[h]
  OBVIOUS
<1>2. j # None /\ j.step = "receipt" /\ j.op = "erase" /\ j \in Job /\ j.oid \in Oids
      /\ Formed(j) /\ Erasing(j) /\ j.found \in Found
  BY <1>1, JobAt DEF Receipt, At, EraseSteps, ContactSteps, Formed, Job
<1>3. /\ job' = [job EXCEPT ![h] = None]
      /\ UNCHANGED <<directory, files, subject, desk, quarantine, asked, restarts>>
  BY DEF Receipt, Finish
<1>4. PICK all : all = [part \in DOMAIN Nothing |-> receipts[j.oid][part] \cup j.found[part]]
  OBVIOUS
<1>5. receipts' = [receipts EXCEPT ![j.oid] = IF receipts[j.oid] = None THEN j.found ELSE all]
  BY <1>1, <1>4 DEF Receipt
<1>6. receipts[j.oid] # None =>
          /\ receipts[j.oid] \in Found /\ all \in Found
          /\ all.tuples = receipts[j.oid].tuples \cup j.found.tuples
          /\ all.bodies = receipts[j.oid].bodies \cup j.found.bodies
          /\ all.mails = receipts[j.oid].mails \cup j.found.mails
  <2>1. j.oid \in Oids /\ (receipts[j.oid] # None => receipts[j.oid] \in Found)
    BY <1>2 DEF Inv, TypeOK
  <2> QED  BY <1>2, <1>4, <2>1, TogetherFound, SMTT(30)
<1>7. receipts' \in [Oids -> Found \cup {None}]
  BY <1>2, <1>5, <1>6 DEF Inv, TypeOK
<1>8. job' \in [Handlers -> Job \cup {None}] /\ JobsFormed'
  BY <1>3, JobStep DEF Inv
<1>9. TypeOK'
  BY <1>3, <1>7, <1>8 DEF Inv, TypeOK, directory, files, desk, quarantine
<1>10. /\ requester' = requester /\ tuples' = tuples /\ key' = key /\ sealed' = sealed
       /\ held' = held /\ mails' = mails
  BY <1>3 DEF desk, quarantine
<1>11. PutStays /\ Onward(h, None)
  BY <1>10 DEF PutStays, Onward
<1>12. World /\ HeldInOrder'
  BY <1>3, <1>10, <1>11, FilingWorld DEF quarantine
<1>13. FiledOnce' /\ UsedOnce' /\ Erasures'
  BY <1>3, <1>10, <1>12, FiledOnceStays, UsedOnceStays, OthersStay
<1>14. ASSUME NEW o \in Oids, NEW found \in Found, FoundSound(o, found), TuplesGone(o, found),
              MailsGone(found), BodiesGone(o, found)
       PROVE  FoundSound(o, found)' /\ TuplesGone(o, found)' /\ MailsGone(found)' /\ BodiesGone(o, found)'
  BY <1>12, <1>14, FoundStays DEF Inv
<1>15. Receipts'
  <2>1. ASSUME NEW o \in Oids, receipts'[o] # None
        PROVE  \E found \in Found : /\ found = receipts'[o] /\ FoundSound(o, found) /\ TuplesGone(o, found)
                                    /\ MailsGone(found) /\ BodiesGone(o, found)
    <3>1. CASE o # j.oid
      <4>1. receipts'[o] = receipts[o] /\ receipts[o] \in Found
        BY <1>2, <1>5, <2>1, <3>1 DEF Inv, TypeOK
      <4> QED  BY <2>1, <4>1 DEF Inv, Receipts
    <3>2. FoundSound(j.oid, j.found) /\ TuplesGone(j.oid, j.found) /\ MailsGone(j.found)
          /\ BodiesGone(j.oid, j.found)
      BY <1>2 DEF Erasing
    <3>3. CASE o = j.oid /\ receipts[o] = None
      <4>1. receipts'[o] = j.found
        BY <1>2, <1>5, <3>3 DEF Inv, TypeOK
      <4> QED  BY <1>2, <3>2, <3>3, <4>1
    <3>4. CASE o = j.oid /\ receipts[o] # None
      <4>1. receipts'[o] = all
        BY <1>2, <1>5, <3>4 DEF Inv, TypeOK
      <4>2. /\ FoundSound(o, receipts[o]) /\ TuplesGone(o, receipts[o]) /\ MailsGone(receipts[o])
            /\ BodiesGone(o, receipts[o])
        BY <3>4 DEF Inv, Receipts
      <4>3. FoundSound(o, all) /\ TuplesGone(o, all) /\ MailsGone(all) /\ BodiesGone(o, all)
        BY <1>6, <3>2, <3>4, <4>2 DEF FoundSound, TuplesGone, MailsGone, BodiesGone
      <4> QED  BY <1>6, <3>4, <4>1, <4>3
    <3> QED  BY <3>1, <3>3, <3>4
  <2>2. ASSUME NEW o \in Oids, receipts'[o] # None
        PROVE  FoundSound(o, receipts[o])' /\ TuplesGone(o, receipts[o])'
               /\ MailsGone(receipts[o])' /\ BodiesGone(o, receipts[o])'
    <3>1. PICK found \in Found : /\ found = receipts'[o] /\ FoundSound(o, found) /\ TuplesGone(o, found)
                                 /\ MailsGone(found) /\ BodiesGone(o, found)
      BY <2>1, <2>2
    <3>2. FoundSound(o, found)' /\ TuplesGone(o, found)' /\ MailsGone(found)' /\ BodiesGone(o, found)'
      BY <1>14, <3>1
    <3> QED  BY <3>1, <3>2
  <2> QED  BY <2>2 DEF Receipts
<1> QED  BY <1>8, <1>9, <1>12, <1>13, <1>15 DEF Inv
-----------------------------------------------------------------------------
LEMMA RaisesKeeps == ASSUME Inv, NEW h \in Handlers, Raises(h)  PROVE Inv'
<1>1. job' = [job EXCEPT ![h] = None] /\ job[h] # None
      /\ UNCHANGED <<directory, files, subject, desk, quarantine, history, restarts>>
  BY DEF Raises, Finish
<1> QED  BY <1>1, DirectoryTypes, QuietKeeps DEF directory, files, history

\* A mail is held under a number no erasure has found.
LEMMA HoldKeeps == ASSUME Inv, NEW e \in Emails, Hold(e)  PROVE Inv'
<1>1. /\ mails < MaxHeld /\ mails' = mails + 1 /\ held' = [held EXCEPT ![mails + 1] = e]
      /\ mails \in Nat /\ MaxHeld \in Nat
  BY ConstantFacts DEF Hold, Inv, TypeOK
<1>2. /\ directory' = directory /\ files' = files /\ subject' = subject
      /\ requester' = requester /\ tuples' = tuples /\ key' = key /\ sealed' = sealed
      /\ job' = job /\ asked' = asked /\ receipts' = receipts /\ restarts' = restarts
  BY DEF Hold, desk, history
<1>3. mails + 1 \in 1..MaxHeld /\ mails' \in 0..MaxHeld
  BY <1>1
<1>4. held' \in [1..MaxHeld -> Emails \cup {None}]
  BY <1>1 DEF Inv, TypeOK
<1>5. TypeOK'
  BY <1>2, <1>3, <1>4 DEF Inv, TypeOK, directory, files
<1>6. \A n \in 1..MaxHeld : held'[n] = IF n = mails + 1 THEN e ELSE held[n]
  BY <1>1 DEF Inv, TypeOK
<1>7. \A n \in 1..MaxHeld : n <= mails => n # mails + 1
  BY <1>1
<1>8. \A t, S : Past(t, S) => Past(t, S)'
  BY <1>2 DEF Past
<1>9. World
  <2>1. \A n \in 1..MaxHeld : n <= mails => held'[n] = held[n]
    BY <1>6, <1>7
  <2>2. mails' \in Nat /\ mails <= mails'
    BY <1>1
  <2> QED  BY <1>2, <1>8, <2>1, <2>2 DEF World, PutStays
<1>10. JobsFormed' /\ FiledOnce' /\ UsedOnce'
  BY <1>2, <1>8 DEF Inv, JobsFormed, FiledOnce, UsedOnce, At
<1>11. HeldInOrder'
  <2>1. ASSUME NEW n \in 1..MaxHeld, held'[n] # None  PROVE n <= mails'
    <3>1. CASE n = mails + 1
      BY <1>1, <3>1
    <3>2. CASE n # mails + 1
      <4>1. n <= mails
        BY <1>6, <2>1, <3>2 DEF Inv, HeldInOrder
      <4> QED  BY <1>1, <4>1
    <3> QED  BY <3>1, <3>2
  <2> QED  BY <2>1 DEF HeldInOrder
<1>12. Erasures'
  <2>1. ASSUME NEW g \in Handlers, job[g] # None, job[g].op = "erase"  PROVE Erasing(job[g])'
    <3>1. PICK j : j = job[g]
      OBVIOUS
    <3>2. Formed(j) /\ Erasing(j) /\ j.op = "erase"
      BY <2>1, <3>1, JobAt
    <3>3. Erasing(j)'
      BY <1>9, <3>2, ErasingStays DEF Inv
    <3> QED  BY <1>2, <3>1, <3>3
  <2> QED  BY <1>2, <2>1 DEF Erasures
<1>13. Receipts'
  BY <1>2, <1>9, ReceiptsStay DEF Inv
<1> QED  BY <1>5, <1>10, <1>11, <1>12, <1>13 DEF Inv

LEMMA RestartKeeps == ASSUME Inv, Restart  PROVE Inv'
<1>1. /\ files' = files /\ subject' = subject /\ mails' = mails
      /\ requester' = requester /\ tuples' = tuples /\ key' = key /\ sealed' = sealed
      /\ asked' = asked /\ receipts' = receipts
  BY DEF Restart, desk, history
<1>2. /\ job' = [g \in Handlers |-> None] /\ held' = [n \in 1..MaxHeld |-> None]
      /\ by_email' = Loaded.by_email /\ by_id' = Loaded.by_id
      /\ restarts < MaxRestarts /\ restarts' = restarts + 1 /\ path # Malformed
  BY DEF Restart
<1>3. Loaded \in Dump
  BY <1>2, DirectoryTypes DEF Loaded, Nobody, Dump, Contents
<1>4. TypeOK'
  <2>1. restarts' \in 0..MaxRestarts
    BY <1>2, ConstantFacts DEF Inv, TypeOK
  <2>2. [by_email |-> by_email, by_id |-> by_id]' \in Dump
    BY <1>2, <1>3 DEF Dump
  <2> QED  BY <1>1, <1>2, <2>1, <2>2 DEF Inv, TypeOK, files
<1>5. \A t, S : Past(t, S) => Past(t, S)'
  BY <1>1, <1>2 DEF Past
<1>6. World
  BY <1>1, <1>2, <1>5, ConstantFacts DEF World, PutStays, Inv, TypeOK
<1>7. JobsFormed' /\ FiledOnce' /\ Erasures' /\ HeldInOrder'
  BY <1>2 DEF JobsFormed, FiledOnce, Erasures, HeldInOrder
<1>8. UsedOnce'
  BY <1>1, <1>2, <1>5 DEF Inv, UsedOnce, At
<1>9. Receipts'
  BY <1>1, <1>6, ReceiptsStay DEF Inv
<1> QED  BY <1>4, <1>7, <1>8, <1>9 DEF Inv

LEMMA NextKeeps == ASSUME Inv, [Next]_vars  PROVE Inv'
<1>1. CASE UNCHANGED vars
  <2>1. UNCHANGED <<by_email, by_id, path, tmp, subject, requester, tuples, held, mails, key, sealed,
                    job, asked, receipts, restarts>>
    BY <1>1 DEF vars, directory, files, desk, quarantine, history
  <2>2. TypeOK' /\ JobsFormed' /\ FiledOnce' /\ HeldInOrder'
    BY <2>1 DEF Inv, TypeOK, JobsFormed, FiledOnce, HeldInOrder
  <2>3. \A t, S : Past(t, S)' <=> Past(t, S)
    BY <2>1 DEF Past
  <2>4. UsedOnce'
    BY <2>1, <2>3 DEF Inv, UsedOnce, At
  <2>5. \A o, found : FoundSound(o, found)' <=> FoundSound(o, found)
    BY <2>1, <2>3 DEF FoundSound
  <2>6. Erasures' /\ Receipts'
    BY <2>1, <2>5 DEF Inv, Erasures, Erasing, Receipts, TuplesGone, MailsGone, BodiesGone
  <2> QED  BY <2>2, <2>4, <2>6 DEF Inv
<1>2. ASSUME NEW h \in Handlers, BeginContact(h) \/ BeginFile(h) \/ BeginErase(h)  PROVE Inv'
  BY <1>2, BeginContactKeeps, BeginFileKeeps, BeginEraseKeeps
<1>3. ASSUME NEW h \in Handlers, Advance(h)  PROVE Inv'
  BY <1>3, LookupKeeps, BindEmailKeeps, BindIdKeeps, ForgetIdKeeps, ForgetEmailKeeps, DumpMapsKeeps,
     OpenTmpKeeps, WriteTextKeeps, ReplaceKeeps, PutTicketKeeps, GrantKeeps, EncryptKeeps,
     AppendBodyKeeps, ReadPageKeeps, DeleteBatchKeeps, CollectKeeps, RemoveMailKeeps, DestroyKeeps,
     ReceiptKeeps DEF Advance
<1>4. ASSUME NEW h \in Handlers, Raises(h)  PROVE Inv'
  BY <1>4, RaisesKeeps
<1>5. ASSUME NEW e \in Emails, Hold(e)  PROVE Inv'
  BY <1>5, HoldKeeps
<1>6. CASE Restart
  BY <1>6, RestartKeeps
<1> QED  BY <1>1, <1>2, <1>3, <1>4, <1>5, <1>6 DEF Next
-----------------------------------------------------------------------------
\* The type invariant: the maps, the file and its temporary file, what an erasure
\* reaches and the requests have their types, whatever the threads, the calls that
\* raise and the restarts.
THEOREM TypeCorrect == Spec => []TypeOK
<1>1. Init => Inv
  BY InitInv
<1>2. Inv /\ [Next]_vars => Inv'
  BY NextKeeps
<1>3. Inv => TypeOK
  BY DEF Inv
<1> QED  BY <1>1, <1>2, <1>3, PTL DEF Spec

\* AR-05 and G5-02: the tuples and the held mail an answered erasure found when it
\* began are gone and stay gone, with any number of erasures, contacts, filings and
\* restarts in between, and also when Vault refuses.
THEOREM FoundStaysGone == Spec => [](TuplesPurged /\ QuarantineScrubbed)
<1>1. Init => Inv
  BY InitInv
<1>2. Inv /\ [Next]_vars => Inv'
  BY NextKeeps
<1>3. Inv => TuplesPurged /\ QuarantineScrubbed
  BY DEF Inv, Receipts, TuplesGone, MailsGone, TuplesPurged, QuarantineScrubbed
<1> QED  BY <1>1, <1>2, <1>3, PTL DEF Spec

\* ADR-0006 and the receipt: when Vault does not refuse, what the receipt says is true
\* and stays true, the bodies found being unreadable also under a later key.
THEOREM ReceiptsHold == ~VaultMayRefuse => (Spec => []ReceiptHolds)
<1>1. Init => Inv
  BY InitInv
<1>2. Inv /\ [Next]_vars => Inv'
  BY NextKeeps
<1>3. ASSUME ~VaultMayRefuse, Inv  PROVE ReceiptHolds
  <2>1. TuplesPurged /\ QuarantineScrubbed
    BY <1>3 DEF Inv, Receipts, TuplesGone, MailsGone, TuplesPurged, QuarantineScrubbed
  <2>2. BodiesShredded
    BY <1>3 DEF Inv, Receipts, FoundSound, BodiesGone, BodiesShredded, Readable
  <2> QED  BY <2>1, <2>2 DEF ReceiptHolds
<1> SUFFICES ASSUME ~VaultMayRefuse  PROVE Spec => []ReceiptHolds
  OBVIOUS
<1>4. Inv => ReceiptHolds
  BY <1>3
<1> QED  BY <1>1, <1>2, <1>4, PTL DEF Spec
-----------------------------------------------------------------------------
(* The directory and its file, with one thread that resolves and erases.   *)

OneDirectoryThread ==
    \A g, h \in Handlers : Serves[g] \cap {"contact", "erase"} # {} /\ Serves[h] \cap {"contact", "erase"} # {} => g = h

\* The dictionaries do not raise half-way.
MapsDoNotRaise == MayFail \cap {<<"contact", "bind_id">>, <<"erase", "forget_email">>} = {}

\* Nor does the save after a first contact.
ContactsAreSaved == MayFail \cap ({"contact"} \X {"dump", "open", "write", "replace"}) = {}

Maps == [by_email |-> by_email, by_id |-> by_id]
Gone(o, maps) == maps.by_id[o] = None /\ \A e \in Emails : maps.by_email[e] # o

\* An id that anything bears was minted.
Named ==
    /\ \A t \in TicketIds : requester[t] # None => subject[requester[t]] # None
    /\ \A h \in Handlers : job[h] # None /\ job[h].oid # None => subject[job[h].oid] # None
    /\ \A o \in asked : subject[o] # None
    /\ \A o \in Oids : receipts[o] # None => subject[o] # None

\* The address is in one map and not in the other: its thread is between the two.
Between(j, e, o) ==
    /\ j # None /\ j.oid = o
    /\ (j.step = "bind_id" /\ j.email = e) \/ (j.step = "forget_email" /\ j.popped = e)
Underway(e, o) == \E h \in Handlers : Between(job[h], e, o)

Matched ==
    /\ \A e \in Emails, o \in Oids : by_email[e] = o <=> by_id[o] = e \/ Underway(e, o)
    /\ \A e \in Emails, o \in Oids : Loaded.by_email[e] = o <=> Loaded.by_id[o] = e
    /\ \A o \in Oids : by_id[o] \in {None, subject[o]} /\ Loaded.by_id[o] \in {None, subject[o]}

\* What the file has and no erasure took is in memory.
NotLost == \A e \in Emails : Loaded.by_email[e] \notin asked \cup {None} => by_email[e] = Loaded.by_email[e]

Forgotten == \A o \in Oids : receipts[o] # None => Gone(o, Maps) /\ Gone(o, Loaded)

\* What a first contact, a save and an erasure know of the directory.
Knows(j) ==
    /\ j.step \in {"bind_email", "bind_id"} =>
           /\ subject[j.oid] = j.email /\ receipts[j.oid] = None /\ by_id[j.oid] = None
    /\ j.step = "bind_email" =>
           Gone(j.oid, Maps) /\ by_email[j.email] = None /\ j.before = Cardinality(Mapped)
    /\ j.step = "bind_id" => j.before # Cardinality(Mapped)
    /\ j.op = "contact" /\ j.step \in {"dump", "open", "write", "replace"} => by_id[j.oid] = subject[j.oid]
    /\ j.step \in {"open", "write", "replace"} => j.text = Maps
    /\ j.step = "write" => j.into = "tmp" /\ tmp = Empty
    /\ j.step = "replace" => tmp = j.text
    /\ j.op = "erase" /\ j.step # "forget_id" => j.oid \in asked /\ by_id[j.oid] = None
    /\ j.op = "erase" /\ j.step \notin {"forget_id", "forget_email"} => Gone(j.oid, Maps)
    /\ j.op = "erase" /\ j.step \notin {"forget_id", "forget_email", "dump", "open", "write", "replace"} =>
           Gone(j.oid, Loaded)

DirectorySound ==
    /\ \A h \in Handlers, j \in Job : job[h] = j => j.op \in Serves[h] /\ Knows(j)
    /\ path # Malformed
    /\ Named /\ Matched /\ NotLost /\ Forgotten

\* Who is the requester of a ticket, or about to be.
Bears(j, o) == j # None /\ j.oid = o /\ j.op # "erase" /\ j.step \in {"put", "grant", "encrypt", "append"}
Borne(o) == (\E t \in TicketIds : requester[t] = o) \/ \E h \in Handlers : Bears(job[h], o)

\* A first contact on its way to the file.
Stores(j, o) == j # None /\ j.oid = o /\ j.op = "contact" /\ j.step \in {"dump", "open", "write", "replace"}

OnRecord(o) == Loaded.by_id[o] = subject[o] /\ by_id[o] = subject[o]

\* The requester's address is in the file, and in memory, unless an erasure has begun
\* to take it; so is that of any other id in memory, but the one being saved.
Saved ==
    \A o \in Oids \ asked :
        /\ Borne(o) => OnRecord(o)
        /\ by_id[o] # None => Loaded.by_id[o] = by_id[o] \/ \E h \in Handlers : Stores(job[h], o)
-----------------------------------------------------------------------------
LEMMA JobIn ==
    ASSUME Inv, NEW h \in Handlers, NEW j, j = job[h], j # None
    PROVE  j \in Job /\ Formed(j)
BY JobAt DEF Formed

\* Whoever files knows nothing of the directory.
LEMMA FileKnows ==
    ASSUME NEW j, Formed(j), j.op = "file"
    PROVE  Knows(j) /\ Knows(j)'
<1>1. j.step \in FileSteps
  BY DEF Formed
<1> QED  BY <1>1 DEF Knows, FileSteps

LEMMA KnowsStays ==
    ASSUME UNCHANGED <<by_email, by_id, path, tmp, subject, asked, receipts>>, NEW j
    PROVE  Knows(j)' <=> Knows(j)
<1>1. Mapped' = Mapped /\ Loaded' = Loaded /\ Maps' = Maps
  BY DEF Mapped, Loaded, Maps
<1> QED  BY <1>1 DEF Knows, Gone

LEMMA OneAtWork ==
    ASSUME Inv, DirectorySound, OneDirectoryThread, NEW h \in Handlers, job[h] # None, job[h].op # "file",
           NEW g \in Handlers \ {h}, job[g] # None
    PROVE  job[g].op = "file"
<1>1. PICK j, i : j = job[h] /\ i = job[g]
  OBVIOUS
<1>2. j \in Job /\ i \in Job /\ j.op \in Ops /\ i.op \in Ops
  BY <1>1, JobIn DEF Job
<1>3. j.op \in Serves[h] /\ i.op \in Serves[g]
  BY <1>1, <1>2 DEF DirectorySound
<1> QED  BY <1>1, <1>2, <1>3 DEF OneDirectoryThread, Ops

\* The thread of the directory goes on with k; all others file tickets.
LEMMA Solo ==
    ASSUME Inv, DirectorySound, OneDirectoryThread, NEW h \in Handlers,
           NEW j, j = job[h], j # None, j.op # "file",
           NEW k, job' = [job EXCEPT ![h] = k],
           k # None => k \in Job /\ k.op \in Serves[h] /\ Knows(k)'
    PROVE  /\ \A g \in Handlers, i \in Job : job'[g] = i => i.op \in Serves[g] /\ Knows(i)'
           /\ \A e \in Emails, o \in Oids :
                  (Underway(e, o)' <=> Between(k, e, o)) /\ (Underway(e, o) <=> Between(j, e, o))
<1>1. job'[h] = k /\ \A g \in Handlers \ {h} : job'[g] = job[g]
  BY DirectoryTypes
<1>2. \A g \in Handlers \ {h} : job[g] # None => job[g].op = "file" /\ Formed(job[g])
  BY OneAtWork, JobAt
<1>3. \A g \in Handlers \ {h} : job[g] # None => job[g].step \notin {"bind_id", "forget_email"}
  BY <1>2 DEF Formed, FileSteps
<1>4. ASSUME NEW g \in Handlers, NEW i \in Job, job'[g] = i
      PROVE  i.op \in Serves[g] /\ Knows(i)'
  <2>1. CASE g = h
    BY <1>1, <1>4, <2>1, ConstantFacts
  <2>2. CASE g # h
    <3>1. job[g] = i /\ i # None
      BY <1>1, <1>4, <2>2, ConstantFacts
    <3>2. i.op \in Serves[g]
      BY <3>1 DEF DirectorySound
    <3>3. i.op = "file" /\ Formed(i)
      BY <1>2, <2>2, <3>1
    <3> QED  BY <3>2, <3>3, FileKnows
  <2> QED  BY <2>1, <2>2
<1>5. ASSUME NEW e \in Emails, NEW o \in Oids
      PROVE  (Underway(e, o)' <=> Between(k, e, o)) /\ (Underway(e, o) <=> Between(j, e, o))
  <2>1. \A g \in Handlers \ {h} : ~Between(job[g], e, o)
    BY <1>3 DEF Between
  <2>2. \A g \in Handlers : job'[g] = IF g = h THEN k ELSE job[g]
    BY <1>1
  <2> QED  BY <2>1, <2>2 DEF Underway, Between
<1> QED  BY <1>4, <1>5

\* A step that leaves the directory as it is.
LEMMA DirectoryStays ==
    ASSUME Inv, DirectorySound, NEW h \in Handlers, NEW k, job' = [job EXCEPT ![h] = k],
           UNCHANGED <<by_email, by_id, path, tmp, subject, asked, receipts>>,
           k # None => /\ k \in Job /\ k.op \in Serves[h] /\ Knows(k) /\ k.step \notin {"bind_id", "forget_email"}
                       /\ k.oid # None => subject[k.oid] # None,
           job[h] # None => job[h].step \notin {"bind_id", "forget_email"},
           \A t \in TicketIds : requester'[t] # None => subject[requester'[t]] # None
    PROVE  DirectorySound'
<1>1. job'[h] = k /\ \A g \in Handlers \ {h} : job'[g] = job[g]
  BY DirectoryTypes
<1>2. ASSUME NEW g \in Handlers, NEW j \in Job, job'[g] = j
      PROVE  j.op \in Serves[g] /\ Knows(j)'
  <2>1. j.op \in Serves[g] /\ Knows(j)
    BY <1>1, <1>2, ConstantFacts DEF DirectorySound
  <2> QED  BY <2>1, KnowsStays
<1>3. Loaded' = Loaded /\ Maps' = Maps
  BY DEF Loaded, Maps
<1>4. \A e \in Emails, o \in Oids : Underway(e, o)' <=> Underway(e, o)
  BY <1>1 DEF Underway, Between
<1>5. Matched'
  BY <1>3, <1>4 DEF DirectorySound, Matched
<1>6. NotLost' /\ Forgotten'
  BY <1>3 DEF DirectorySound, NotLost, Forgotten, Gone
<1>7. Named'
  BY <1>1 DEF DirectorySound, Named
<1> QED  BY <1>2, <1>5, <1>6, <1>7 DEF DirectorySound
-----------------------------------------------------------------------------
(* Steps that leave the directory as it is. *)

LEMMA InitDirectory == ASSUME Init  PROVE DirectorySound
<1>1. \A e \in Emails, o \in Oids : e # None /\ o # None
  BY ConstantFacts
<1>2. Loaded = Nobody
  BY DEF Init, Loaded
<1>3. \A e \in Emails, o \in Oids : ~Underway(e, o)
  BY DEF Init, Underway, Between
<1>4. Matched
  BY <1>1, <1>2, <1>3 DEF Init, Matched, Nobody
<1>5. NotLost
  BY <1>2 DEF Init, NotLost, Nobody
<1>6. Named /\ Forgotten /\ path # Malformed
  <2>1. Empty # Malformed
    BY ErasureAssumption DEF ErasureAssumption
  <2> QED  BY <2>1 DEF Init, Named, Forgotten, Nobody
<1> QED  BY <1>4, <1>5, <1>6, ConstantFacts DEF Init, DirectorySound

LEMMA BeginDirectory ==
    ASSUME Inv, Inv', DirectorySound, NEW h \in Handlers,
           BeginContact(h) \/ BeginFile(h) \/ BeginErase(h)
    PROVE  DirectorySound'
<1>1. PICK k : k = job'[h]
  OBVIOUS
<1>2. /\ job[h] = None /\ job' = [job EXCEPT ![h] = k]
      /\ UNCHANGED <<directory, files, subject, desk, quarantine, history, restarts>>
      /\ k.op \in Serves[h] /\ <<k.op, k.step>> \in {<<"contact", "lookup">>, <<"file", "put">>, <<"erase", "forget_id">>}
      /\ k.oid \in Known \cup {None}
  <2>1. PICK op, step, email, oid, t, found :
            /\ Begin(h, op, step, email, oid, t, found)
            /\ <<op, step>> \in {<<"contact", "lookup">>, <<"file", "put">>, <<"erase", "forget_id">>}
            /\ oid \in Known \cup {None}
    BY DEF BeginContact, BeginFile, BeginErase
  <2>2. PICK r : r = [op |-> op, step |-> step, email |-> email, oid |-> oid, ticket |-> t,
                      before |-> 0, popped |-> None, text |-> None, into |-> "tmp",
                      keys |-> {}, doomed |-> {}, key |-> None, found |-> found]
    OBVIOUS
  <2>3. r.op = op /\ r.step = step /\ r.oid = oid
    BY <2>2
  <2>4. job' = [job EXCEPT ![h] = r]
    BY <2>1, <2>2 DEF Begin
  <2>5. k = r
    BY <1>1, <2>4, DirectoryTypes
  <2> QED  BY <2>1, <2>3, <2>4, <2>5 DEF Begin
<1>3. k # None => k \in Job
  BY <1>1 DEF Inv, TypeOK
<1>4. Knows(k)
  BY <1>2 DEF Knows
<1>5. k.step \notin {"bind_id", "forget_email"}
  BY <1>2
<1>6. k.oid # None => subject[k.oid] # None
  BY <1>2 DEF Known, DirectorySound, Named
<1> QED  BY <1>2, <1>3, <1>4, <1>5, <1>6, DirectoryStays
         DEF directory, files, desk, history, DirectorySound, Named

\* What the threads that file go on with.
LEMMA FilingGoesOn ==
    ASSUME Inv, NEW h \in Handlers, PutTicket(h) \/ Grant(h) \/ Encrypt(h) \/ AppendBody(h),
           NEW j \in Job, j = job[h], NEW k, k = job'[h]
    PROVE  job' = [job EXCEPT ![h] = k] /\ (k # None => k.op = j.op /\ k.oid = j.oid /\ k.step \in Filed)
<1>1. CASE PutTicket(h)
  <2>1. PICK r : r = [j EXCEPT !.step = "grant"] /\ job' = [job EXCEPT ![h] = r]
    BY <1>1 DEF PutTicket, Goto
  <2> QED  BY <2>1, DirectoryTypes DEF Job, Filed
<1>2. CASE Grant(h)
  <2>1. PICK r : job' = [job EXCEPT ![h] = r] /\ r \in {None, [j EXCEPT !.step = "encrypt"]}
    BY <1>2 DEF Grant, Goto, Finish
  <2> QED  BY <2>1, DirectoryTypes DEF Job, Filed
<1>3. CASE Encrypt(h)
  <2>1. PICK c : job' = [job EXCEPT ![h].key = c, ![h].step = "append"]
    BY <1>3 DEF Encrypt
  <2>2. PICK r : r = [j EXCEPT !.key = c, !.step = "append"]
    OBVIOUS
  <2>3. job' = [job EXCEPT ![h] = r]
    BY <2>1, <2>2
  <2> QED  BY <2>2, <2>3, DirectoryTypes DEF Job, Filed
<1>4. CASE AppendBody(h)
  BY <1>4, DirectoryTypes DEF AppendBody, Finish
<1> QED  BY <1>1, <1>2, <1>3, <1>4

LEMMA FilingDirectory ==
    ASSUME Inv, Inv', DirectorySound, NEW h \in Handlers,
           PutTicket(h) \/ Grant(h) \/ Encrypt(h) \/ AppendBody(h)
    PROVE  DirectorySound'
<1>1. PICK j, k : j = job[h] /\ k = job'[h]
  OBVIOUS
<1>2. /\ j # None /\ j.step \in {"put", "grant", "encrypt", "append"}
      /\ UNCHANGED <<directory, files, subject, history>>
      /\ requester' = requester \/ requester' = [requester EXCEPT ![j.ticket] = j.oid]
  BY <1>1 DEF PutTicket, Grant, Encrypt, AppendBody, At
<1>3. j \in Job /\ j.op \in Serves[h] /\ j.oid \in Oids /\ j.op \in {"contact", "file"}
  BY <1>1, <1>2, JobIn DEF DirectorySound, Formed, EraseSteps, Job, Ops
<1>4. job' = [job EXCEPT ![h] = k] /\ (k # None => k.op = j.op /\ k.oid = j.oid /\ k.step \in Filed)
  BY <1>1, <1>3, FilingGoesOn
<1>5. k # None => k \in Job
  BY <1>1 DEF Inv, TypeOK
<1>6. k # None => Knows(k)
  BY <1>3, <1>4 DEF Knows, Filed
<1>7. subject[j.oid] # None
  BY <1>1, <1>2, <1>3, ConstantFacts DEF DirectorySound, Named
<1>8. \A t \in TicketIds : requester'[t] # None => subject[requester'[t]] # None
  BY <1>2, <1>7 DEF DirectorySound, Named, Inv, TypeOK
<1>9. k # None => k.step \notin {"bind_id", "forget_email"}
  BY <1>4 DEF Filed
<1> QED  BY <1>1, <1>2, <1>3, <1>4, <1>5, <1>6, <1>7, <1>8, <1>9, DirectoryStays DEF directory, files, history

AfterSaving == {"read", "delete", "collect", "remove", "destroy", "receipt"}

\* What an erasure goes on with after its save.
LEMMA PurgingGoesOn ==
    ASSUME Inv, NEW h \in Handlers,
           ReadPage(h) \/ DeleteBatch(h) \/ Collect(h) \/ RemoveMail(h) \/ Destroy(h),
           NEW j \in Job, j = job[h], j.step \in AfterSaving, NEW k, k = job'[h]
    PROVE  job' = [job EXCEPT ![h] = k] /\ (k # None => k.op = j.op /\ k.oid = j.oid /\ k.step \in AfterSaving)
<1>1. CASE ReadPage(h)
  <2>1. PICK page : job' = [job EXCEPT ![h].keys = @ \cup page,
            ![h].step = IF page = tuples[job[h].oid] \ job[h].keys THEN "delete" ELSE "read"]
    BY <1>1 DEF ReadPage
  <2>2. PICK r, step, keys : /\ r = [j EXCEPT !.keys = keys, !.step = step] /\ step \in {"read", "delete"}
                             /\ keys = j.keys \cup page
                             /\ step = IF page = tuples[j.oid] \ j.keys THEN "delete" ELSE "read"
    OBVIOUS
  <2>3. job' = [job EXCEPT ![h] = r]
    BY <2>1, <2>2
  <2> QED  BY <2>2, <2>3, DirectoryTypes DEF Job, AfterSaving
<1>2. CASE DeleteBatch(h)
  <2>1. PICK r : /\ job' = [job EXCEPT ![h] = r]
                 /\ \/ r = None \/ \E step \in AfterSaving : r = [j EXCEPT !.step = step]
                    \/ \E keys : r = [j EXCEPT !.keys = keys]
    BY <1>2 DEF DeleteBatch, Finish, Goto, AfterSaving
  <2> QED  BY <2>1, DirectoryTypes DEF Job
<1>3. CASE Collect(h)
  <2>1. PICK doomed : job' = [job EXCEPT ![h].doomed = doomed, ![h].step = "remove"]
    BY <1>3 DEF Collect
  <2>2. PICK r : r = [j EXCEPT !.doomed = doomed, !.step = "remove"]
    OBVIOUS
  <2>3. job' = [job EXCEPT ![h] = r]
    BY <2>1, <2>2
  <2> QED  BY <2>2, <2>3, DirectoryTypes DEF Job, AfterSaving
<1>4. CASE RemoveMail(h)
  <2>1. PICK r : /\ job' = [job EXCEPT ![h] = r]
                 /\ \/ r = None \/ r = [j EXCEPT !.step = "destroy"]
                    \/ \E doomed : r = [j EXCEPT !.doomed = doomed]
    BY <1>4 DEF RemoveMail, Finish, Goto
  <2> QED  BY <2>1, DirectoryTypes DEF Job, AfterSaving
<1>5. CASE Destroy(h)
  <2>1. PICK r : r = [j EXCEPT !.step = "receipt"] /\ job' = [job EXCEPT ![h] = r]
    BY <1>5 DEF Destroy, Goto
  <2> QED  BY <2>1, DirectoryTypes DEF Job, AfterSaving
<1> QED  BY <1>1, <1>2, <1>3, <1>4, <1>5

LEMMA PurgingDirectory ==
    ASSUME Inv, Inv', DirectorySound, NEW h \in Handlers,
           ReadPage(h) \/ DeleteBatch(h) \/ Collect(h) \/ RemoveMail(h) \/ Destroy(h)
    PROVE  DirectorySound'
<1>1. PICK j, k : j = job[h] /\ k = job'[h]
  OBVIOUS
<1>2. /\ j # None /\ j.step \in AfterSaving
      /\ UNCHANGED <<directory, files, subject, requester, history>>
  BY <1>1 DEF ReadPage, DeleteBatch, Collect, RemoveMail, Destroy, At, desk, AfterSaving
<1>3. j \in Job /\ j.op \in Serves[h] /\ j.oid \in Oids /\ j.op = "erase" /\ Knows(j)
  BY <1>1, <1>2, JobIn DEF DirectorySound, Formed, ContactSteps, FileSteps, AfterSaving, Job, Ops
<1>4. job' = [job EXCEPT ![h] = k] /\ (k # None => k.op = j.op /\ k.oid = j.oid /\ k.step \in AfterSaving)
  BY <1>1, <1>2, <1>3, PurgingGoesOn
<1>5. k # None => k \in Job
  BY <1>1 DEF Inv, TypeOK
<1>6. k # None => Knows(k)
  BY <1>2, <1>3, <1>4 DEF Knows, AfterSaving
<1>7. subject[j.oid] # None
  BY <1>1, <1>2, <1>3, ConstantFacts DEF DirectorySound, Named
<1>8. k # None => k.step \notin {"bind_id", "forget_email"}
  BY <1>4 DEF AfterSaving
<1>9. j.step \notin {"bind_id", "forget_email"}
  BY <1>2 DEF AfterSaving
<1> QED  BY <1>1, <1>2, <1>3, <1>4, <1>5, <1>6, <1>7, <1>8, <1>9, DirectoryStays
         DEF directory, files, history, DirectorySound, Named
-----------------------------------------------------------------------------
(* Steps of the thread that resolves and erases. *)

Saving == {"dump", "open", "write", "replace"}
Directing == {"lookup", "bind_email", "bind_id", "forget_id", "forget_email", "receipt"} \cup Saving

LEMMA Director ==
    ASSUME Inv, DirectorySound, NEW h \in Handlers, NEW j, j = job[h], j # None, j.step \in Directing
    PROVE  /\ j \in Job /\ j.op \in Serves[h] /\ j.op \in {"contact", "erase"} /\ Knows(j) /\ Formed(j)
           /\ j.step \in {"lookup", "bind_email", "bind_id"} => j.op = "contact" /\ j.email \in Emails
           /\ j.step \in {"forget_id", "forget_email", "receipt"} => j.op = "erase"
           /\ j.step # "lookup" => j.oid \in Oids /\ subject[j.oid] # None
<1>1. j \in Job /\ Formed(j) /\ j.op \in Ops
  BY JobIn DEF Job
<1>2. /\ j.op \in {"contact", "erase"}
      /\ j.step \in {"lookup", "bind_email", "bind_id"} => j.op = "contact" /\ j.email \in Emails
      /\ j.step \in {"forget_id", "forget_email", "receipt"} => j.op = "erase"
      /\ j.step # "lookup" => j.oid \in Oids
  BY <1>1 DEF Formed, Ops, FileSteps, ContactSteps, EraseSteps, Directing, Saving
<1>3. j.op \in Serves[h] /\ Knows(j)
  BY <1>1 DEF DirectorySound
<1>4. j.step # "lookup" => subject[j.oid] # None
  BY <1>2, ConstantFacts DEF DirectorySound, Named
<1> QED  BY <1>1, <1>2, <1>3, <1>4

\* It goes on with an id that is minted, and no ticket changes hands.
LEMMA NamedStays ==
    ASSUME Inv, DirectorySound, NEW h \in Handlers, NEW k, job' = [job EXCEPT ![h] = k],
           requester' = requester, \A o \in Oids : subject[o] # None => subject'[o] # None,
           k # None /\ k.oid # None => subject'[k.oid] # None,
           \A o \in asked' : o \in asked \/ (o \in Oids /\ subject[o] # None),
           \A o \in Oids : receipts'[o] # None => receipts[o] # None \/ subject[o] # None
    PROVE  Named'
<1>1. \A g \in Handlers : job'[g] = IF g = h THEN k ELSE job[g]
  BY DirectoryTypes
<1>2. \A g \in Handlers : job[g] # None => job[g].oid \in Oids \cup {None}
  BY DirectoryTypes DEF Job
<1>3. /\ \A t \in TicketIds : requester[t] \in Oids \cup {None}
      /\ asked \subseteq Oids /\ asked' = asked' /\ Named
  BY DEF Inv, TypeOK, DirectorySound
<1>4. \A g \in Handlers : job'[g] # None /\ job'[g].oid # None => subject'[job'[g].oid] # None
  BY <1>1, <1>2, <1>3 DEF Named
<1>5. \A o \in asked' : subject'[o] # None
  <2> SUFFICES ASSUME NEW o \in asked'  PROVE subject'[o] # None
    OBVIOUS
  <2>1. subject[o] # None
    BY <1>3 DEF Named
  <2>2. o \in Oids
    BY <1>3
  <2> QED  BY <2>1, <2>2
<1> QED  BY <1>3, <1>4, <1>5 DEF Named

\* Whatever is in one map is in the other, while its thread is not between the two.
LEMMA NoneBetween ==
    ASSUME Inv, DirectorySound, OneDirectoryThread, NEW h \in Handlers, NEW j, j = job[h], j # None,
           j.op # "file", j.step \notin {"bind_id", "forget_email"}
    PROVE  \A e \in Emails, o \in Oids : ~Underway(e, o)
<1>1. \A g \in Handlers \ {h} : job[g] # None => job[g].op = "file" /\ Formed(job[g])
  BY OneAtWork, JobAt
<1>2. \A g \in Handlers \ {h} : job[g] # None => job[g].step \notin {"bind_id", "forget_email"}
  BY <1>1 DEF Formed, FileSteps
<1> QED  BY <1>2 DEF Underway, Between

LEMMA ReceiptDirectory ==
    ASSUME Inv, DirectorySound, OneDirectoryThread, NEW h \in Handlers, Receipt(h)
    PROVE  DirectorySound'
<1>1. PICK j : j = job[h]
  OBVIOUS
<1>2. j # None /\ j.step = "receipt" /\ UNCHANGED <<directory, files, subject, desk, asked>>
      /\ job' = [job EXCEPT ![h] = None]
  BY <1>1 DEF Receipt, At, Finish
<1>3. j.op = "erase" /\ j.oid \in Oids /\ Knows(j) /\ subject[j.oid] # None
  BY <1>1, <1>2, Director DEF Directing
<1>4. /\ \A g \in Handlers, i \in Job : job'[g] = i => i.op \in Serves[g] /\ Knows(i)'
      /\ \A e \in Emails, o \in Oids : Underway(e, o)' <=> Underway(e, o)
  <2>1. PICK k : k = None
    OBVIOUS
  <2>2. job' = [job EXCEPT ![h] = k]
    BY <1>2, <2>1
  <2>3. /\ \A g \in Handlers, i \in Job : job'[g] = i => i.op \in Serves[g] /\ Knows(i)'
        /\ \A e \in Emails, o \in Oids :
                  (Underway(e, o)' <=> Between(k, e, o)) /\ (Underway(e, o) <=> Between(j, e, o))
    BY <1>1, <1>2, <1>3, <2>1, <2>2, Solo
  <2>4. \A e \in Emails, o \in Oids : ~Between(k, e, o) /\ ~Between(j, e, o)
    BY <1>2, <2>1 DEF Between
  <2>5. \A e \in Emails, o \in Oids : Underway(e, o)' <=> Underway(e, o)
    BY <2>3, <2>4
  <2>6. \A g \in Handlers, i \in Job : job'[g] = i => i.op \in Serves[g] /\ Knows(i)'
    BY <2>3
  <2> QED  BY <2>5, <2>6
<1>5. \A o \in Oids \ {j.oid} : receipts'[o] = receipts[o]
  BY <1>1, <1>3 DEF Receipt, Inv, TypeOK
<1>6. Loaded' = Loaded /\ Maps' = Maps
  BY <1>2 DEF Loaded, Maps, directory, files
<1>7. Gone(j.oid, Maps) /\ Gone(j.oid, Loaded)
  BY <1>2, <1>3 DEF Knows
<1>8. Forgotten'
  BY <1>5, <1>6, <1>7 DEF DirectorySound, Forgotten, Gone
<1>9. Named'
  BY <1>2, <1>3, <1>5, NamedStays DEF desk
<1>10. Matched'
  BY <1>2, <1>4, <1>6 DEF DirectorySound, Matched, directory
<1>11. NotLost' /\ path' # Malformed
  BY <1>2, <1>6 DEF DirectorySound, NotLost, directory, files
<1> QED  BY <1>4, <1>8, <1>9, <1>10, <1>11 DEF DirectorySound

LEMMA LookupDirectory ==
    ASSUME Inv, Inv', DirectorySound, OneDirectoryThread, NEW h \in Handlers, Lookup(h)
    PROVE  DirectorySound'
<1>1. PICK j, k : j = job[h] /\ k = job'[h]
  OBVIOUS
<1>2. j # None /\ j.step = "lookup" /\ UNCHANGED <<directory, files, desk, history>>
  BY <1>1 DEF Lookup, At
<1>3. j \in Job /\ j.op = "contact" /\ j.op \in Serves[h] /\ j.email \in Emails
  BY <1>1, <1>2, Director DEF Directing
<1>4. CASE IsMapped(j.email)
  <2>1. PICK o : o = by_email[j.email]
    OBVIOUS
  <2>2. PICK r : r = [j EXCEPT !.oid = o, !.step = "put"]
    OBVIOUS
  <2>3. job' = [job EXCEPT ![h] = r] /\ UNCHANGED subject
    BY <1>1, <1>4, <2>1, <2>2 DEF Lookup
  <2>4. k = r
    BY <1>1, <2>3, DirectoryTypes
  <2>5. k.op = "contact" /\ k.step = "put" /\ k.oid = o
    BY <1>3, <2>2, <2>4 DEF Job
  <2>6. k # None => k \in Job
    BY <1>1 DEF Inv, TypeOK
  <2>7. Knows(k)
    BY <2>5 DEF Knows
  <2>8. subject[o] # None
    <3>1. o \in Oids /\ by_email[j.email] = o
      BY <1>3, <1>4, <2>1, DirectoryTypes DEF IsMapped
    <3>2. by_id[o] = j.email \/ Underway(j.email, o)
      BY <1>3, <3>1 DEF DirectorySound, Matched
    <3>3. CASE by_id[o] = j.email
      BY <1>3, <3>1, <3>3, ConstantFacts DEF DirectorySound, Matched
    <3>4. CASE Underway(j.email, o)
      BY <3>1, <3>4, ConstantFacts DEF DirectorySound, Named, Underway, Between
    <3> QED  BY <3>2, <3>3, <3>4
  <2> QED  BY <1>1, <1>2, <1>3, <2>3, <2>4, <2>5, <2>6, <2>7, <2>8, DirectoryStays
           DEF directory, files, desk, history, DirectorySound, Named
<1>5. CASE ~IsMapped(j.email)
  <2>1. PICK o \in Oids \ Minted :
            /\ subject' = [subject EXCEPT ![o] = job[h].email]
            /\ job' = [job EXCEPT ![h].oid = o, ![h].step = "bind_email",
                                  ![h].before = Cardinality(Mapped)]
    BY <1>1, <1>5 DEF Lookup
  <2>2. PICK n : n = Cardinality(Mapped)
    OBVIOUS
  <2>3. PICK r : r = [j EXCEPT !.oid = o, !.step = "bind_email", !.before = n]
    OBVIOUS
  <2>4. job' = [job EXCEPT ![h] = r]
    BY <1>1, <2>1, <2>2, <2>3
  <2>5. k = r
    BY <1>1, <2>4, DirectoryTypes
  <2>6. k.op = "contact" /\ k.step = "bind_email" /\ k.oid = o /\ k.email = j.email /\ k.before = n
    BY <1>3, <2>3, <2>5 DEF Job
  <2>7. k \in Job
    <3>1. n \in 0..Cardinality(Emails)
      BY <2>2, MappedCount
    <3> QED  BY <1>3, <2>3, <2>5, <3>1 DEF Job, Steps
  <2>8. subject[o] = None /\ subject'[o] = j.email /\ \A p \in Oids \ {o} : subject'[p] = subject[p]
    BY <1>1, <2>1, DirectoryTypes DEF Minted
  <2>9. \A e \in Emails, p \in Oids : ~Underway(e, p)
    BY <1>1, <1>2, <1>3, NoneBetween
  <2>10. receipts[o] = None /\ by_id[o] = None /\ Loaded.by_id[o] = None
    BY <2>1, <2>8 DEF DirectorySound, Named, Matched
  <2>11. Gone(o, Maps)
    <3>1. \A e \in Emails : by_email[e] # o
      BY <2>1, <2>9, <2>10, ConstantFacts DEF DirectorySound, Matched
    <3> QED  BY <2>10, <3>1 DEF Gone, Maps
  <2>12. Knows(k)'
    <3>1. Mapped' = Mapped /\ Maps' = Maps /\ Loaded' = Loaded /\ receipts' = receipts /\ by_id' = by_id
          /\ by_email' = by_email
      BY <1>2 DEF Mapped, Maps, Loaded, directory, files, history
    <3>2. Gone(o, Maps)'
      BY <2>11, <3>1 DEF Gone
    <3>3. by_email[j.email] = None
      BY <1>5 DEF IsMapped
    <3> QED  BY <2>2, <2>6, <2>8, <2>10, <3>1, <3>2, <3>3 DEF Knows
  <2>13. /\ \A g \in Handlers, i \in Job : job'[g] = i => i.op \in Serves[g] /\ Knows(i)'
         /\ \A e \in Emails, p \in Oids : Underway(e, p)' <=> Between(k, e, p)
    <3>1. job' = [job EXCEPT ![h] = k]
      BY <2>4, <2>5
    <3>2. k \in Job /\ k.op \in Serves[h] /\ Knows(k)'
      BY <1>3, <2>6, <2>7, <2>12
    <3>3. /\ \A g \in Handlers, i \in Job : job'[g] = i => i.op \in Serves[g] /\ Knows(i)'
          /\ \A e \in Emails, p \in Oids :
                  (Underway(e, p)' <=> Between(k, e, p)) /\ (Underway(e, p) <=> Between(j, e, p))
      BY <1>1, <1>2, <1>3, <3>1, <3>2, Solo
    <3> QED  BY <3>3
  <2>14. \A e \in Emails, p \in Oids : ~Underway(e, p)'
    BY <2>6, <2>13 DEF Between
  <2>15. Loaded' = Loaded /\ Maps' = Maps /\ by_email' = by_email /\ by_id' = by_id /\ path' = path
         /\ asked' = asked /\ receipts' = receipts /\ requester' = requester
    BY <1>2 DEF Loaded, Maps, directory, files, history, desk
  <2>16. Matched'
    BY <2>8, <2>9, <2>10, <2>14, <2>15 DEF DirectorySound, Matched
  <2>17. NotLost' /\ Forgotten' /\ path' # Malformed
    BY <2>15 DEF DirectorySound, NotLost, Forgotten, Gone
  <2>18. Named'
    <3>1. \A p \in Oids : subject[p] # None => subject'[p] # None
      BY <2>8
    <3>2. subject'[k.oid] # None
      BY <1>3, <2>6, <2>8, ConstantFacts
    <3>3. job' = [job EXCEPT ![h] = k]
      BY <2>4, <2>5
    <3>4. \A p \in asked : subject[p] # None
      BY DEF DirectorySound, Named
    <3> QED  BY <2>15, <3>1, <3>2, <3>3, <3>4, NamedStays
  <2> QED  BY <2>13, <2>16, <2>17, <2>18 DEF DirectorySound
<1> QED  BY <1>4, <1>5

LEMMA MappedGrows ==
    ASSUME NEW S \in SUBSET Emails, NEW e \in Emails \ S
    PROVE  Cardinality(S \cup {e}) # Cardinality(S)
<1>1. IsFiniteSet(S)
  BY ConstantFacts, FS_Subset
<1>2. Cardinality(S) \in Nat /\ Cardinality(S \cup {e}) = Cardinality(S) + 1
  BY <1>1, FS_AddElement, FS_CardinalityType
<1> QED  BY <1>2

LEMMA BindEmailDirectory ==
    ASSUME Inv, Inv', DirectorySound, OneDirectoryThread, NEW h \in Handlers, BindEmail(h)
    PROVE  DirectorySound'
<1>1. PICK j : j = job[h]
  OBVIOUS
<1>2. /\ j # None /\ j.step = "bind_email" /\ UNCHANGED <<by_id, files, subject, desk, history>>
      /\ by_email' = [by_email EXCEPT ![j.email] = j.oid]
  BY <1>1 DEF BindEmail, At
<1>3. /\ j \in Job /\ j.op = "contact" /\ j.op \in Serves[h] /\ j.email \in Emails /\ Knows(j)
      /\ j.oid \in Oids /\ subject[j.oid] # None
  BY <1>1, <1>2, Director DEF Directing
<1>4. /\ subject[j.oid] = j.email /\ receipts[j.oid] = None /\ by_id[j.oid] = None
      /\ Gone(j.oid, Maps) /\ by_email[j.email] = None /\ j.before = Cardinality(Mapped)
  BY <1>2, <1>3 DEF Knows
<1>5. PICK k : k = [j EXCEPT !.step = "bind_id"] /\ job' = [job EXCEPT ![h] = k]
  BY <1>1 DEF BindEmail, Goto
<1>6. k \in Job /\ k.op = "contact" /\ k.step = "bind_id" /\ k.oid = j.oid /\ k.email = j.email
      /\ k.before = j.before
  BY <1>3, <1>5 DEF Job, Steps
<1>7. j.before # Cardinality(Mapped)'
  <2>1. by_email'[j.email] = j.oid /\ \A e \in Emails \ {j.email} : by_email'[e] = by_email[e]
    BY <1>2, <1>3, DirectoryTypes
  <2>2. Mapped' = Mapped \cup {j.email} /\ j.email \notin Mapped /\ Mapped \in SUBSET Emails
    BY <1>3, <1>4, <2>1, ConstantFacts DEF Mapped
  <2> QED  BY <1>3, <1>4, <2>2, MappedGrows
<1>8. Knows(k)'
  BY <1>2, <1>4, <1>6, <1>7 DEF Knows, files, history
<1>9. \A e \in Emails, o \in Oids : ~Underway(e, o)
  BY <1>1, <1>2, <1>3, NoneBetween
<1>10. /\ \A g \in Handlers, i \in Job : job'[g] = i => i.op \in Serves[g] /\ Knows(i)'
       /\ \A e \in Emails, o \in Oids :
              (Underway(e, o)' <=> Between(k, e, o)) /\ (Underway(e, o) <=> Between(j, e, o))
  BY <1>1, <1>2, <1>3, <1>5, <1>6, <1>8, Solo
<1>11. \A e \in Emails, o \in Oids : Underway(e, o)' <=> o = j.oid /\ e = j.email
  <2>1. \A e \in Emails, o \in Oids : Between(k, e, o) <=> o = j.oid /\ e = j.email
    BY <1>6, ConstantFacts DEF Between
  <2> QED  BY <1>10, <2>1
<1>12. Loaded' = Loaded /\ path' = path /\ subject' = subject /\ asked' = asked /\ receipts' = receipts
       /\ requester' = requester /\ by_id' = by_id
  BY <1>2 DEF Loaded, files, history, desk
<1>13. \A e \in Emails : by_email'[e] = IF e = j.email THEN j.oid ELSE by_email[e]
  BY <1>2, <1>3, DirectoryTypes
<1>14. \A e \in Emails, o \in Oids : by_email'[e] = o <=> by_id'[o] = e \/ Underway(e, o)'
  <2> SUFFICES ASSUME NEW e \in Emails, NEW o \in Oids
               PROVE  by_email'[e] = o <=> by_id[o] = e \/ (o = j.oid /\ e = j.email)
    BY <1>11, <1>12
  <2>1. by_email[e] = o <=> by_id[o] = e
    BY <1>9 DEF DirectorySound, Matched
  <2>2. o # None /\ e # None
    BY ConstantFacts
  <2>3. o = j.oid => by_email[e] # o
    BY <1>4 DEF Gone, Maps
  <2> QED  BY <1>4, <1>13, <2>1, <2>2, <2>3
<1>15. Matched'
  BY <1>12, <1>14 DEF DirectorySound, Matched
<1>16. NotLost'
  BY <1>4, <1>12, <1>13 DEF DirectorySound, NotLost
<1>17. Forgotten'
  BY <1>4, <1>12, <1>13 DEF DirectorySound, Forgotten, Gone, Maps
<1>18. Named'
  <2>1. \A o \in asked : subject[o] # None
    BY DEF DirectorySound, Named
  <2> QED  BY <1>3, <1>5, <1>6, <1>12, <2>1, NamedStays
<1>19. path' # Malformed
  BY <1>12 DEF DirectorySound
<1> QED  BY <1>10, <1>15, <1>16, <1>17, <1>18, <1>19 DEF DirectorySound

LEMMA BindIdDirectory ==
    ASSUME Inv, Inv', DirectorySound, OneDirectoryThread, NEW h \in Handlers, BindId(h)
    PROVE  DirectorySound' /\ job'[h].step = "dump"
<1>1. PICK j : j = job[h]
  OBVIOUS
<1>2. /\ j # None /\ j.step = "bind_id" /\ UNCHANGED <<by_email, files, subject, desk, history>>
      /\ by_id' = [by_id EXCEPT ![j.oid] = j.email]
  BY <1>1 DEF BindId, At
<1>3. /\ j \in Job /\ j.op = "contact" /\ j.op \in Serves[h] /\ j.email \in Emails /\ Knows(j)
      /\ j.oid \in Oids /\ subject[j.oid] # None
  BY <1>1, <1>2, Director DEF Directing
<1>4. /\ subject[j.oid] = j.email /\ receipts[j.oid] = None /\ by_id[j.oid] = None
      /\ j.before # Cardinality(Mapped)
  BY <1>2, <1>3 DEF Knows
<1>5. PICK k : k = [j EXCEPT !.step = "dump"] /\ job' = [job EXCEPT ![h] = k]
  BY <1>1, <1>4 DEF BindId, Goto, Grown
<1>6. k \in Job /\ k.op = "contact" /\ k.step = "dump" /\ k.oid = j.oid
  BY <1>3, <1>5 DEF Job, Steps
<1>7. \A o \in Oids : by_id'[o] = IF o = j.oid THEN j.email ELSE by_id[o]
  BY <1>2, <1>3, DirectoryTypes
<1>8. Knows(k)'
  BY <1>2, <1>3, <1>4, <1>6, <1>7 DEF Knows
<1>9. /\ \A g \in Handlers, i \in Job : job'[g] = i => i.op \in Serves[g] /\ Knows(i)'
      /\ \A e \in Emails, o \in Oids :
              (Underway(e, o)' <=> Between(k, e, o)) /\ (Underway(e, o) <=> Between(j, e, o))
  BY <1>1, <1>2, <1>3, <1>5, <1>6, <1>8, Solo
<1>10. \A e \in Emails, o \in Oids : ~Underway(e, o)' /\ (Underway(e, o) <=> o = j.oid /\ e = j.email)
  <2>1. \A e \in Emails, o \in Oids : ~Between(k, e, o) /\ (Between(j, e, o) <=> o = j.oid /\ e = j.email)
    BY <1>2, <1>6 DEF Between
  <2> QED  BY <1>9, <2>1
<1>11. Loaded' = Loaded /\ path' = path /\ subject' = subject /\ asked' = asked /\ receipts' = receipts
       /\ requester' = requester /\ by_email' = by_email
  BY <1>2 DEF Loaded, files, history, desk
<1>12. \A e \in Emails, o \in Oids : by_email'[e] = o <=> by_id'[o] = e \/ Underway(e, o)'
  <2> SUFFICES ASSUME NEW e \in Emails, NEW o \in Oids
               PROVE  by_email[e] = o <=> by_id'[o] = e
    BY <1>10, <1>11
  <2>1. by_email[e] = o <=> by_id[o] = e \/ (o = j.oid /\ e = j.email)
    BY <1>10 DEF DirectorySound, Matched
  <2>2. e # None
    BY ConstantFacts
  <2> QED  BY <1>4, <1>7, <2>1, <2>2
<1>13. Matched'
  BY <1>4, <1>7, <1>11, <1>12 DEF DirectorySound, Matched
<1>14. NotLost' /\ path' # Malformed
  BY <1>11 DEF DirectorySound, NotLost
<1>15. Forgotten'
  BY <1>4, <1>7, <1>11 DEF DirectorySound, Forgotten, Gone, Maps
<1>16. Named'
  <2>1. \A o \in asked : subject[o] # None
    BY DEF DirectorySound, Named
  <2> QED  BY <1>3, <1>5, <1>6, <1>11, <2>1, NamedStays
<1>17. job'[h] = k
  BY <1>5, DirectoryTypes
<1> QED  BY <1>6, <1>9, <1>13, <1>14, <1>15, <1>16, <1>17 DEF DirectorySound

LEMMA ForgetIdDirectory ==
    ASSUME Inv, Inv', DirectorySound, OneDirectoryThread, NEW h \in Handlers, ForgetId(h)
    PROVE  DirectorySound'
<1>1. PICK j, e1 : j = job[h] /\ e1 = by_id[j.oid]
  OBVIOUS
<1>2. /\ j # None /\ j.step = "forget_id" /\ UNCHANGED <<by_email, files, subject, desk, receipts>>
      /\ by_id' = [by_id EXCEPT ![j.oid] = None] /\ asked' = asked \cup {j.oid}
      /\ job' = [job EXCEPT ![h].popped = e1, ![h].step = "forget_email"]
  BY <1>1 DEF ForgetId, At
<1>3. /\ j \in Job /\ j.op = "erase" /\ j.op \in Serves[h] /\ j.oid \in Oids /\ subject[j.oid] # None
  BY <1>1, <1>2, Director DEF Directing
<1>4. PICK k : k = [j EXCEPT !.popped = e1, !.step = "forget_email"]
  OBVIOUS
<1>5. job' = [job EXCEPT ![h] = k]
  BY <1>1, <1>2, <1>4
<1>6. k \in Job /\ k.op = "erase" /\ k.step = "forget_email" /\ k.oid = j.oid /\ k.popped = e1
  <2>1. e1 \in Emails \cup {None}
    BY <1>1, <1>3, DirectoryTypes
  <2> QED  BY <1>3, <1>4, <2>1 DEF Job, Steps
<1>7. \A o \in Oids : by_id'[o] = IF o = j.oid THEN None ELSE by_id[o]
  BY <1>2, <1>3, DirectoryTypes
<1>8. Knows(k)'
  BY <1>2, <1>3, <1>6, <1>7 DEF Knows
<1>9. /\ \A g \in Handlers, i \in Job : job'[g] = i => i.op \in Serves[g] /\ Knows(i)'
      /\ \A e \in Emails, o \in Oids :
              (Underway(e, o)' <=> Between(k, e, o)) /\ (Underway(e, o) <=> Between(j, e, o))
  BY <1>1, <1>2, <1>3, <1>5, <1>6, <1>8, Solo
<1>10. \A e \in Emails, o \in Oids : ~Underway(e, o) /\ (Underway(e, o)' <=> o = j.oid /\ e = e1)
  <2>1. \A e \in Emails, o \in Oids : ~Between(j, e, o) /\ (Between(k, e, o) <=> o = j.oid /\ e = e1)
    BY <1>2, <1>6, ConstantFacts DEF Between
  <2> QED  BY <1>9, <2>1
<1>11. Loaded' = Loaded /\ path' = path /\ subject' = subject /\ receipts' = receipts
       /\ requester' = requester /\ by_email' = by_email
  BY <1>2 DEF Loaded, files, desk
<1>12. \A e \in Emails, o \in Oids : by_email'[e] = o <=> by_id'[o] = e \/ Underway(e, o)'
  <2> SUFFICES ASSUME NEW e \in Emails, NEW o \in Oids
               PROVE  by_email[e] = o <=> by_id'[o] = e \/ (o = j.oid /\ e = e1)
    BY <1>10, <1>11
  <2>1. by_email[e] = o <=> by_id[o] = e
    BY <1>10 DEF DirectorySound, Matched
  <2>2. e # None
    BY ConstantFacts
  <2> QED  BY <1>1, <1>7, <2>1, <2>2
<1>13. Matched'
  BY <1>7, <1>11, <1>12 DEF DirectorySound, Matched
<1>14. NotLost' /\ path' # Malformed
  BY <1>2, <1>11 DEF DirectorySound, NotLost
<1>15. Forgotten'
  BY <1>7, <1>11 DEF DirectorySound, Forgotten, Gone, Maps
<1>16. Named'
  <2>1. \A o \in asked' : o \in asked \/ (o \in Oids /\ subject[o] # None)
    BY <1>2, <1>3
  <2>2. \A o \in Oids : subject[o] # None => subject'[o] # None
    BY <1>11
  <2>3. k # None /\ k.oid # None => subject'[k.oid] # None
    BY <1>3, <1>6, <1>11
  <2>4. \A o \in Oids : receipts'[o] # None => receipts[o] # None \/ subject[o] # None
    BY <1>11
  <2> QED  BY <1>5, <1>11, <2>1, <2>2, <2>3, <2>4, NamedStays
<1> QED  BY <1>9, <1>13, <1>14, <1>15, <1>16 DEF DirectorySound

LEMMA ForgetEmailDirectory ==
    ASSUME Inv, Inv', DirectorySound, OneDirectoryThread, NEW h \in Handlers, ForgetEmail(h)
    PROVE  DirectorySound'
<1>1. PICK j : j = job[h]
  OBVIOUS
<1>2. /\ j # None /\ j.step = "forget_email" /\ UNCHANGED <<by_id, files, subject, desk, history>>
      /\ by_email' = [e \in Emails |-> IF e = j.popped THEN None ELSE by_email[e]]
  BY <1>1 DEF ForgetEmail, At
<1>3. /\ j \in Job /\ j.op = "erase" /\ j.op \in Serves[h] /\ j.oid \in Oids /\ subject[j.oid] # None /\ Knows(j)
  BY <1>1, <1>2, Director DEF Directing
<1>4. PICK k : k = [j EXCEPT !.step = "dump"] /\ job' = [job EXCEPT ![h] = k]
  BY <1>1 DEF ForgetEmail, Goto, AfterForgetting
<1>5. k \in Job /\ k.op = "erase" /\ k.step = "dump" /\ k.oid = j.oid
  BY <1>3, <1>4 DEF Job, Steps
<1>6. j.oid \in asked /\ by_id[j.oid] = None
  BY <1>2, <1>3 DEF Knows
<1>7. \A e \in Emails, o \in Oids : by_email[e] = o <=> by_id[o] = e \/ (o = j.oid /\ e = j.popped)
  <2>1. \A g \in Handlers \ {h} : job[g] # None => job[g].step \notin {"bind_id", "forget_email"}
    BY <1>1, <1>2, <1>3, OneAtWork, JobAt DEF Formed, FileSteps
  <2>2. \A e \in Emails, o \in Oids : Underway(e, o) <=> o = j.oid /\ e = j.popped
    BY <1>1, <1>2, <2>1 DEF Underway, Between
  <2> QED  BY <2>2 DEF DirectorySound, Matched
<1>8. Gone(j.oid, Maps)'
  <2>1. \A e \in Emails : by_email'[e] # j.oid
    <3> SUFFICES ASSUME NEW e \in Emails  PROVE by_email'[e] # j.oid
      OBVIOUS
    <3>1. by_email'[e] = IF e = j.popped THEN None ELSE by_email[e]
      BY <1>2
    <3>2. None # j.oid /\ e # None
      BY <1>3, ConstantFacts
    <3>3. by_email[e] = j.oid <=> by_id[j.oid] = e \/ (j.oid = j.oid /\ e = j.popped)
      BY <1>3, <1>7
    <3> QED  BY <1>6, <3>1, <3>2, <3>3
  <2>2. by_id'[j.oid] = None
    BY <1>2, <1>6
  <2> QED  BY <2>1, <2>2 DEF Gone, Maps
<1>9. Knows(k)'
  <2>1. j.oid \in asked' /\ by_id'[j.oid] = None
    BY <1>2, <1>6 DEF history
  <2> QED  BY <1>5, <1>8, <2>1 DEF Knows, Gone
<1>10. /\ \A g \in Handlers, i \in Job : job'[g] = i => i.op \in Serves[g] /\ Knows(i)'
       /\ \A e \in Emails, o \in Oids :
              (Underway(e, o)' <=> Between(k, e, o)) /\ (Underway(e, o) <=> Between(j, e, o))
  BY <1>1, <1>2, <1>3, <1>4, <1>5, <1>9, Solo
<1>11. \A e \in Emails, o \in Oids : ~Underway(e, o)'
  <2>1. \A e \in Emails, o \in Oids : ~Between(k, e, o)
    BY <1>5 DEF Between
  <2> QED  BY <1>10, <2>1
<1>12. Loaded' = Loaded /\ path' = path /\ subject' = subject /\ receipts' = receipts /\ asked' = asked
       /\ requester' = requester /\ by_id' = by_id
  BY <1>2 DEF Loaded, files, desk, history
<1>13. \A e \in Emails, o \in Oids : by_email'[e] = o <=> by_id'[o] = e \/ Underway(e, o)'
  <2> SUFFICES ASSUME NEW e \in Emails, NEW o \in Oids
               PROVE  by_email'[e] = o <=> by_id[o] = e
    BY <1>11, <1>12
  <2>1. by_email'[e] = IF e = j.popped THEN None ELSE by_email[e]
    BY <1>2
  <2>2. CASE e = j.popped
    <3>1. by_id[o] = e => by_email[e] = o /\ by_email[e] = j.oid
      BY <1>3, <1>7, <2>2
    <3>2. o # None /\ e # None
      BY ConstantFacts
    <3> QED  BY <1>6, <2>1, <2>2, <3>1, <3>2
  <2>3. CASE e # j.popped
    BY <1>7, <2>1, <2>3
  <2> QED  BY <2>2, <2>3
<1>14. Matched'
  BY <1>12, <1>13 DEF DirectorySound, Matched
<1>15. NotLost'
  <2> SUFFICES ASSUME NEW e \in Emails, Loaded.by_email[e] \notin asked \cup {None}
               PROVE  by_email'[e] = Loaded.by_email[e]
    BY <1>12 DEF NotLost
  <2>1. by_email[e] = Loaded.by_email[e]
    BY DEF DirectorySound, NotLost
  <2>2. e # j.popped
    BY <1>3, <1>6, <1>7, <2>1
  <2> QED  BY <1>2, <2>1, <2>2
<1>16. Forgotten'
  <2>1. \A o \in Oids, e \in Emails : by_email[e] # o => by_email'[e] # o
    BY <1>2, ConstantFacts
  <2> QED  BY <1>12, <2>1 DEF DirectorySound, Forgotten, Gone, Maps
<1>17. Named'
  <2>1. \A o \in asked : subject[o] # None
    BY DEF DirectorySound, Named
  <2> QED  BY <1>3, <1>4, <1>5, <1>12, <2>1, NamedStays
<1>18. path' # Malformed
  BY <1>12 DEF DirectorySound
<1> QED  BY <1>10, <1>14, <1>15, <1>16, <1>17, <1>18 DEF DirectorySound
-----------------------------------------------------------------------------
(* The save. *)

LEMMA DumpMapsDirectory ==
    ASSUME Inv, Inv', DirectorySound, NEW h \in Handlers, DumpMaps(h)
    PROVE  DirectorySound'
<1>1. PICK j, m : j = job[h] /\ m = Maps
  OBVIOUS
<1>2. /\ j # None /\ j.step = "dump"
      /\ UNCHANGED <<directory, files, subject, desk, history>>
      /\ job' = [job EXCEPT ![h].text = m, ![h].step = "open"]
  BY <1>1 DEF DumpMaps, At, Maps
<1>3. /\ j \in Job /\ j.op \in Serves[h] /\ j.op \in {"contact", "erase"} /\ j.oid \in Oids
      /\ subject[j.oid] # None /\ Knows(j)
  BY <1>1, <1>2, Director DEF Directing, Saving
<1>4. PICK k : k = [j EXCEPT !.text = m, !.step = "open"]
  OBVIOUS
<1>5. job' = [job EXCEPT ![h] = k]
  BY <1>1, <1>2, <1>4
<1>6. k.op = j.op /\ k.step = "open" /\ k.oid = j.oid /\ k.text = Maps
  BY <1>1, <1>3, <1>4 DEF Job
<1>7. k # None => k \in Job
  <2>1. k = job'[h]
    BY <1>5, DirectoryTypes
  <2> QED  BY <2>1 DEF Inv, TypeOK
<1>8. Knows(k)
  <2>1. j.op = "contact" => by_id[j.oid] = subject[j.oid]
    BY <1>2, <1>3 DEF Knows
  <2>2. j.op = "erase" => j.oid \in asked /\ by_id[j.oid] = None /\ Gone(j.oid, Maps)
    BY <1>2, <1>3 DEF Knows
  <2> QED  BY <1>6, <2>1, <2>2 DEF Knows
<1>9. UNCHANGED <<by_email, by_id, path, tmp, subject, asked, receipts>> /\ requester' = requester
  BY <1>2 DEF directory, files, desk, history
<1>10. \A t \in TicketIds : requester'[t] # None => subject[requester'[t]] # None
  BY <1>9 DEF DirectorySound, Named
<1>11. job[h] # None => job[h].step \notin {"bind_id", "forget_email"}
  BY <1>1, <1>2
<1> QED  BY <1>3, <1>5, <1>6, <1>7, <1>8, <1>9, <1>10, <1>11, DirectoryStays

\* The steps at the temporary file: the maps and the file of the directory stay.
LEMMA TmpDirectory ==
    ASSUME Inv, DirectorySound, OneDirectoryThread, NEW h \in Handlers,
           job[h] # None, job[h].step \in Saving,
           NEW k \in Job, job' = [job EXCEPT ![h] = k],
           k.op = job[h].op, k.oid = job[h].oid, k.step \in Saving, Knows(k)',
           UNCHANGED <<by_email, by_id, path, subject, desk, history>>
    PROVE  DirectorySound'
<1>0. PICK j : j = job[h]
  OBVIOUS
<1>1. j.op # "file" /\ j.op \in Serves[h] /\ j.oid \in Oids /\ subject[j.oid] # None
  BY <1>0, Director DEF Directing, Saving
<1>2. /\ \A g \in Handlers, i \in Job : job'[g] = i => i.op \in Serves[g] /\ Knows(i)'
      /\ \A e \in Emails, o \in Oids :
              (Underway(e, o)' <=> Between(k, e, o)) /\ (Underway(e, o) <=> Between(j, e, o))
  BY <1>0, <1>1, Solo
<1>3. \A e \in Emails, o \in Oids : ~Underway(e, o)' /\ ~Underway(e, o)
  <2>1. \A e \in Emails, o \in Oids : ~Between(j, e, o) /\ ~Between(k, e, o)
    BY <1>0 DEF Between, Saving
  <2> QED  BY <1>2, <2>1
<1>4. Loaded' = Loaded /\ Maps' = Maps
  BY DEF Loaded, Maps
<1>5. \A e \in Emails, o \in Oids : by_email[e] = o <=> by_id[o] = e
  BY <1>3 DEF DirectorySound, Matched
<1>6. Matched'
  BY <1>3, <1>4, <1>5 DEF DirectorySound, Matched
<1>7. NotLost' /\ Forgotten' /\ path' # Malformed
  BY <1>4 DEF DirectorySound, NotLost, Forgotten, Gone, history
<1>8. Named'
  <2>1. asked' = asked /\ receipts' = receipts /\ requester' = requester
    BY DEF history, desk
  <2>2. \A o \in asked' : o \in asked \/ (o \in Oids /\ subject[o] # None)
    BY <2>1
  <2> QED  BY <1>0, <1>1, <2>1, <2>2, NamedStays
<1>9. \A g \in Handlers, i \in Job : job'[g] = i => i.op \in Serves[g] /\ Knows(i)'
  BY <1>2
<1> QED  BY <1>6, <1>7, <1>8, <1>9 DEF DirectorySound

LEMMA OpenTmpDirectory ==
    ASSUME Inv, Inv', DirectorySound, OneDirectoryThread, NEW h \in Handlers, OpenTmp(h)
    PROVE  DirectorySound'
<1>1. PICK j : j = job[h]
  OBVIOUS
<1>2. /\ j # None /\ j.step = "open" /\ tmp' = Empty
      /\ UNCHANGED <<directory, path, subject, desk, history>>
      /\ job' = [job EXCEPT ![h].into = "tmp", ![h].step = "write"]
  BY <1>1 DEF OpenTmp, At
<1>3. j \in Job /\ j.op \in {"contact", "erase"} /\ Knows(j)
  BY <1>1, <1>2, Director DEF Directing, Saving
<1>4. PICK k : k = [j EXCEPT !.into = "tmp", !.step = "write"]
  OBVIOUS
<1>5. job' = [job EXCEPT ![h] = k]
  BY <1>1, <1>2, <1>4
<1>6. k.op = j.op /\ k.step = "write" /\ k.oid = j.oid /\ k.text = j.text /\ k.into = "tmp" /\ k \in Job
  BY <1>3, <1>4 DEF Job, Steps, Places
<1>7. UNCHANGED <<by_email, by_id, subject, asked, receipts>>
  BY <1>2 DEF directory, history
<1>8. Knows(k)'
  <2>1. j.op = "contact" => by_id[j.oid] = subject[j.oid]
    BY <1>2, <1>3 DEF Knows
  <2>2. j.op = "erase" => j.oid \in asked /\ by_id[j.oid] = None /\ Gone(j.oid, Maps)
    BY <1>2, <1>3 DEF Knows
  <2>3. j.text = Maps /\ Maps' = Maps
    BY <1>2, <1>3, <1>7 DEF Knows, Maps
  <2>4. Gone(j.oid, Maps)' <=> Gone(j.oid, Maps)
    BY <2>3 DEF Gone
  <2> QED  BY <1>2, <1>6, <1>7, <2>1, <2>2, <2>3, <2>4 DEF Knows
<1>9. j.step \in Saving /\ k.step \in Saving
  BY <1>2, <1>6 DEF Saving
<1>10. UNCHANGED <<by_email, by_id, path, subject, desk, history>>
  BY <1>2, <1>7
<1>11. job[h] # None /\ job[h].step \in Saving /\ k.op = job[h].op /\ k.oid = job[h].oid
  BY <1>1, <1>2, <1>6, <1>9
<1>12. k \in Job /\ k.step \in Saving
  BY <1>6, <1>9
<1> QED  BY <1>5, <1>8, <1>10, <1>11, <1>12, TmpDirectory

LEMMA WriteTextDirectory ==
    ASSUME Inv, Inv', DirectorySound, OneDirectoryThread, NEW h \in Handlers, WriteText(h)
    PROVE  DirectorySound'
<1>1. PICK j : j = job[h]
  OBVIOUS
<1>2. j # None /\ j.step = "write" /\ UNCHANGED <<directory, subject, desk, history>>
  BY <1>1 DEF WriteText, At
<1>3. j \in Job /\ j.op \in {"contact", "erase"} /\ Knows(j)
  BY <1>1, <1>2, Director DEF Directing, Saving
<1>4. j.into = "tmp" /\ tmp = Empty /\ j.text = Maps
  BY <1>2, <1>3 DEF Knows
<1>5. tmp' = j.text /\ path' = path
  BY <1>1, <1>4 DEF WriteText, Written
<1>6. PICK k : k = [j EXCEPT !.step = "replace"] /\ job' = [job EXCEPT ![h] = k]
  BY <1>1 DEF WriteText, Goto
<1>7. k.op = j.op /\ k.step = "replace" /\ k.oid = j.oid /\ k.text = j.text /\ k \in Job
  BY <1>3, <1>6 DEF Job, Steps
<1>8. UNCHANGED <<by_email, by_id, subject, asked, receipts>>
  BY <1>2 DEF directory, history
<1>9. Knows(k)'
  <2>1. j.op = "contact" => by_id[j.oid] = subject[j.oid]
    BY <1>2, <1>3 DEF Knows
  <2>2. j.op = "erase" => j.oid \in asked /\ by_id[j.oid] = None /\ Gone(j.oid, Maps)
    BY <1>2, <1>3 DEF Knows
  <2>3. Maps' = Maps
    BY <1>8 DEF Maps
  <2>4. Gone(j.oid, Maps)' <=> Gone(j.oid, Maps)
    BY <2>3 DEF Gone
  <2> QED  BY <1>4, <1>5, <1>7, <1>8, <2>1, <2>2, <2>3, <2>4 DEF Knows
<1>10. j.step \in Saving /\ k.step \in Saving
  BY <1>2, <1>7 DEF Saving
<1>11. UNCHANGED <<by_email, by_id, path, subject, desk, history>>
  BY <1>2, <1>5, <1>8
<1>12. job[h] # None /\ job[h].step \in Saving /\ k.op = job[h].op /\ k.oid = job[h].oid
  BY <1>1, <1>2, <1>7, <1>10
<1>13. k \in Job /\ k.step \in Saving /\ job' = [job EXCEPT ![h] = k]
  BY <1>6, <1>7, <1>10
<1> QED  BY <1>9, <1>11, <1>12, <1>13, TmpDirectory

LEMMA ReplaceDirectory ==
    ASSUME Inv, Inv', DirectorySound, OneDirectoryThread, NEW h \in Handlers, Replace(h)
    PROVE  DirectorySound' /\ Loaded' = Maps /\ job[h].text = Maps /\ tmp # None
<1>1. PICK j : j = job[h]
  OBVIOUS
<1>2. j # None /\ j.step = "replace" /\ UNCHANGED <<directory, subject, desk, history>>
  BY <1>1 DEF Replace, At
<1>3. /\ j \in Job /\ j.op \in {"contact", "erase"} /\ j.op \in Serves[h] /\ j.oid \in Oids
      /\ subject[j.oid] # None /\ Knows(j)
  BY <1>1, <1>2, Director DEF Directing, Saving
<1>4. tmp = Maps /\ j.text = Maps
  BY <1>2, <1>3 DEF Knows
<1>5. Maps \in Dump
  BY DEF Inv, TypeOK, Maps
<1>6. Maps \notin {None, Empty, Malformed}
  BY <1>5, ConstantFacts, ErasureAssumption DEF ErasureAssumption, Dump
<1>7. path' = Maps
  BY <1>4, <1>6 DEF Replace
<1>8. PICK k : k = [j EXCEPT !.step = AfterSave(h), !.text = None]
  OBVIOUS
<1>9. \A g \in Handlers \ {h} : job[g] # None => job[g].op = "file" /\ Formed(job[g])
  BY <1>1, <1>2, <1>3, OneAtWork, JobAt
<1>10. \A g \in Handlers \ {h} : ~At(g, "write")
  BY <1>9 DEF Formed, FileSteps, At
<1>11. job' = [g \in Handlers |-> IF g = h THEN k ELSE job[g]]
  <2>1. job' = [g \in Handlers |->
                   IF g = h THEN k ELSE IF At(g, "write") THEN [job[g] EXCEPT !.into = Moved(@)] ELSE job[g]]
    BY <1>1, <1>4, <1>6, <1>8 DEF Replace
  <2> QED  BY <1>10, <2>1
<1>12. job' = [job EXCEPT ![h] = k]
  BY <1>11, DirectoryTypes
<1>13. k.op = j.op /\ k.oid = j.oid /\ k.step = (IF j.op = "erase" THEN "read" ELSE "put")
  BY <1>1, <1>3, <1>8 DEF Job, AfterSave
<1>14. k # None => k \in Job
  <2>1. k = job'[h]
    BY <1>11
  <2> QED  BY <2>1 DEF Inv, TypeOK
<1>15. /\ UNCHANGED <<by_email, by_id, subject, asked, receipts, requester>>
       /\ Maps' = Maps /\ Loaded' = Maps
  BY <1>2, <1>6, <1>7 DEF directory, history, desk, Maps, Loaded
<1>16. Knows(k)'
  <2>1. j.op = "erase" => j.oid \in asked /\ by_id[j.oid] = None /\ Gone(j.oid, Maps)
    BY <1>2, <1>3 DEF Knows
  <2>2. (Gone(j.oid, Maps)' <=> Gone(j.oid, Maps)) /\ (Gone(j.oid, Loaded)' <=> Gone(j.oid, Maps))
    BY <1>15 DEF Gone
  <2>3. k.step \notin {"bind_email", "bind_id", "open", "write", "replace", "dump", "forget_id", "forget_email"}
    BY <1>3, <1>13
  <2> QED  BY <1>13, <1>15, <2>1, <2>2, <2>3 DEF Knows
<1>17. /\ \A g \in Handlers, i \in Job : job'[g] = i => i.op \in Serves[g] /\ Knows(i)'
       /\ \A e \in Emails, o \in Oids :
              (Underway(e, o)' <=> Between(k, e, o)) /\ (Underway(e, o) <=> Between(j, e, o))
  BY <1>1, <1>2, <1>3, <1>12, <1>13, <1>14, <1>16, Solo
<1>18. \A e \in Emails, o \in Oids : ~Underway(e, o)' /\ ~Underway(e, o)
  <2>1. \A e \in Emails, o \in Oids : ~Between(j, e, o) /\ ~Between(k, e, o)
    BY <1>2, <1>3, <1>13 DEF Between
  <2> QED  BY <1>17, <2>1
<1>19. \A e \in Emails, o \in Oids : by_email[e] = o <=> by_id[o] = e
  BY <1>18 DEF DirectorySound, Matched
<1>20. Matched'
  BY <1>15, <1>18, <1>19 DEF DirectorySound, Matched, Maps
<1>21. NotLost'
  BY <1>15 DEF NotLost, Maps
<1>22. Forgotten'
  BY <1>15 DEF DirectorySound, Forgotten, Gone
<1>23. Named'
  <2>1. \A o \in asked' : o \in asked \/ (o \in Oids /\ subject[o] # None)
    BY <1>15
  <2> QED  BY <1>3, <1>12, <1>13, <1>15, <2>1, NamedStays
<1>24. \A g \in Handlers, i \in Job : job'[g] = i => i.op \in Serves[g] /\ Knows(i)'
  BY <1>17
<1>25. path' # Malformed
  BY <1>6, <1>7
<1> QED  BY <1>1, <1>4, <1>6, <1>15, <1>20, <1>21, <1>22, <1>23, <1>24, <1>25 DEF DirectorySound
-----------------------------------------------------------------------------
(* A call that raises, mail that is held, a restart. *)

LEMMA RaisesDirectory ==
    ASSUME Inv, Inv', DirectorySound, MapsDoNotRaise, NEW h \in Handlers, Raises(h)
    PROVE  DirectorySound'
<1>1. PICK j, k : j = job[h] /\ k = None
  OBVIOUS
<1>2. /\ j # None /\ <<j.op, j.step>> \in MayFail /\ job' = [job EXCEPT ![h] = k]
      /\ UNCHANGED <<directory, files, subject, desk, history>>
  BY <1>1 DEF Raises, Finish
<1>3. Formed(j) /\ j.op \in Ops
  BY <1>1, <1>2, JobIn DEF Job
<1>4. j.step \notin {"bind_id", "forget_email"}
  BY <1>2, <1>3 DEF Formed, Ops, FileSteps, ContactSteps, EraseSteps, MapsDoNotRaise
<1> QED  BY <1>1, <1>2, <1>4, DirectoryStays DEF directory, files, desk, history, DirectorySound, Named

LEMMA HoldDirectory ==
    ASSUME Inv, DirectorySound, UNCHANGED <<by_email, by_id, path, tmp, subject, requester, job, asked, receipts>>
    PROVE  DirectorySound'
<1>1. Loaded' = Loaded /\ Maps' = Maps
  BY DEF Loaded, Maps
<1>2. \A h \in Handlers, j \in Job : job'[h] = j => j.op \in Serves[h] /\ Knows(j)'
  BY KnowsStays DEF DirectorySound
<1>3. Matched' /\ NotLost' /\ Forgotten' /\ Named'
  BY <1>1 DEF DirectorySound, Matched, NotLost, Forgotten, Named, Gone, Underway, Between
<1> QED  BY <1>2, <1>3 DEF DirectorySound

LEMMA RestartDirectory ==
    ASSUME Inv, Inv', DirectorySound, Restart
    PROVE  DirectorySound'
<1>1. /\ by_email' = Loaded.by_email /\ by_id' = Loaded.by_id /\ job' = [h \in Handlers |-> None]
      /\ UNCHANGED <<files, subject, desk, history>>
  BY DEF Restart
<1>2. UNCHANGED <<path, tmp, subject, requester, asked, receipts>> /\ Loaded' = Loaded
  BY <1>1 DEF files, desk, history, Loaded
<1>3. \A h \in Handlers, j \in Job : job'[h] = j => j.op \in Serves[h] /\ Knows(j)'
  BY <1>1, ConstantFacts
<1>4. \A e \in Emails, o \in Oids : ~Underway(e, o)'
  BY <1>1 DEF Underway, Between
<1>5. \A e \in Emails, o \in Oids : Loaded.by_email[e] = o <=> Loaded.by_id[o] = e
  BY DEF DirectorySound, Matched
<1>6. Matched'
  BY <1>1, <1>2, <1>4, <1>5 DEF DirectorySound, Matched
<1>7. NotLost'
  BY <1>1, <1>2 DEF NotLost
<1>8. Forgotten'
  BY <1>1, <1>2 DEF DirectorySound, Forgotten, Gone, Maps
<1>9. Named'
  BY <1>1, <1>2 DEF DirectorySound, Named
<1> QED  BY <1>2, <1>3, <1>6, <1>7, <1>8, <1>9 DEF DirectorySound
-----------------------------------------------------------------------------
LEMMA NextDirectory ==
    ASSUME Inv, DirectorySound, OneDirectoryThread, MapsDoNotRaise, [Next]_vars
    PROVE  DirectorySound'
<1>1. Inv'
  BY NextKeeps
<1>2. CASE UNCHANGED vars
  BY <1>2, HoldDirectory DEF vars, directory, files, desk, history
<1>3. ASSUME NEW h \in Handlers, BeginContact(h) \/ BeginFile(h) \/ BeginErase(h)  PROVE DirectorySound'
  BY <1>1, <1>3, BeginDirectory
<1>4. ASSUME NEW h \in Handlers, Advance(h)  PROVE DirectorySound'
  <2>1. CASE Lookup(h) \/ BindEmail(h) \/ BindId(h) \/ ForgetId(h) \/ ForgetEmail(h)
    BY <1>1, <2>1, LookupDirectory, BindEmailDirectory, BindIdDirectory, ForgetIdDirectory, ForgetEmailDirectory
  <2>2. CASE DumpMaps(h) \/ OpenTmp(h) \/ WriteText(h) \/ Replace(h)
    BY <1>1, <2>2, DumpMapsDirectory, OpenTmpDirectory, WriteTextDirectory, ReplaceDirectory
  <2>3. CASE PutTicket(h) \/ Grant(h) \/ Encrypt(h) \/ AppendBody(h)
    BY <1>1, <2>3, FilingDirectory
  <2>4. CASE ReadPage(h) \/ DeleteBatch(h) \/ Collect(h) \/ RemoveMail(h) \/ Destroy(h)
    BY <1>1, <2>4, PurgingDirectory
  <2>5. CASE Receipt(h)
    BY <2>5, ReceiptDirectory
  <2> QED  BY <1>4, <2>1, <2>2, <2>3, <2>4, <2>5 DEF Advance
<1>5. ASSUME NEW h \in Handlers, Raises(h)  PROVE DirectorySound'
  BY <1>1, <1>5, RaisesDirectory
<1>6. ASSUME NEW e \in Emails, Hold(e)  PROVE DirectorySound'
  <2>1. UNCHANGED <<directory, files, subject, desk, job, history>>
    BY <1>6 DEF Hold
  <2> QED  BY <2>1, HoldDirectory DEF directory, files, desk, history
<1>7. CASE Restart
  BY <1>1, <1>7, RestartDirectory
<1> QED  BY <1>2, <1>3, <1>4, <1>5, <1>6, <1>7 DEF Next

\* INV-DP-2, when one thread resolves and erases and the dictionaries do not raise
\* half-way: once an erasure is answered neither the memory nor the file leads from its
\* id to an address or back, however often the process restarts, saves fail, erasures
\* are repeated and the address comes back under another id.
THEOREM ForgottenStays ==
    OneDirectoryThread /\ MapsDoNotRaise => (Spec => []StaysForgotten)
<1> SUFFICES ASSUME OneDirectoryThread, MapsDoNotRaise  PROVE Spec => []StaysForgotten
  OBVIOUS
<1>1. Init => Inv /\ DirectorySound
  BY InitInv, InitDirectory
<1>2. Inv /\ DirectorySound /\ [Next]_vars => Inv' /\ DirectorySound'
  BY NextKeeps, NextDirectory
<1>3. Inv /\ DirectorySound => StaysForgotten
  <2> SUFFICES ASSUME Inv, DirectorySound, NEW o \in Oids, receipts[o] # None,
                      NEW maps \in {[by_email |-> by_email, by_id |-> by_id]} \cup ({path} \cap Dump)
               PROVE  Gone(o, maps)
    BY DEF StaysForgotten, Gone
  <2>1. Gone(o, Maps) /\ Gone(o, Loaded)
    BY DEF DirectorySound, Forgotten
  <2>2. maps = Maps \/ maps = Loaded
    BY ConstantFacts DEF Maps, Loaded
  <2> QED  BY <2>1, <2>2
<1> QED  BY <1>1, <1>2, <1>3, PTL DEF Spec

\* IdentityDirectory.resolve, under the same conditions: an address keeps the id it
\* has, also across a restart, until an erasure takes it; it leads to another id only
\* if that is one an erasure was asked for and the file still had.
THEOREM AddressKeepsId ==
    OneDirectoryThread /\ MapsDoNotRaise => (Spec => OneIdPerAddress)
<1> SUFFICES ASSUME OneDirectoryThread, MapsDoNotRaise  PROVE Spec => OneIdPerAddress
  OBVIOUS
<1>1. Init => Inv /\ DirectorySound
  BY InitInv, InitDirectory
<1>2. Inv /\ DirectorySound /\ [Next]_vars => Inv' /\ DirectorySound'
  BY NextKeeps, NextDirectory
<1>3. ASSUME Inv, DirectorySound, [Next]_vars, NEW e \in Emails, by_email[e] # None
      PROVE  by_email'[e] \in {by_email[e], None} \cup asked
  <2>1. ASSUME NEW h \in Handlers, BindEmail(h)  PROVE by_email'[e] = by_email[e]
    <3>1. PICK j : j = job[h]
      OBVIOUS
    <3>2. j # None /\ j.step = "bind_email" /\ by_email' = [by_email EXCEPT ![j.email] = j.oid]
      BY <2>1, <3>1 DEF BindEmail, At
    <3>3. Knows(j)
      BY <1>3, <3>1, <3>2, Director DEF Directing
    <3>4. by_email[j.email] = None
      BY <3>2, <3>3 DEF Knows
    <3> QED  BY <1>3, <3>2, <3>4, DirectoryTypes
  <2>2. ASSUME NEW h \in Handlers, ForgetEmail(h)  PROVE by_email'[e] \in {by_email[e], None}
    BY <2>2 DEF ForgetEmail
  <2>3. CASE Restart
    <3>1. by_email'[e] = Loaded.by_email[e]
      BY <2>3 DEF Restart
    <3> QED  BY <1>3, <3>1 DEF DirectorySound, NotLost
  <2>4. CASE UNCHANGED by_email
    BY <2>4
  <2>5. \/ \E h \in Handlers : BindEmail(h) \/ ForgetEmail(h)
        \/ Restart
        \/ UNCHANGED by_email
    <3>1. ASSUME NEW h \in Handlers, Advance(h)
          PROVE  BindEmail(h) \/ ForgetEmail(h) \/ UNCHANGED by_email
      BY <3>1 DEF Advance, Lookup, BindId, ForgetId, DumpMaps, OpenTmp, WriteText, Replace, PutTicket, Grant,
         Encrypt, AppendBody, ReadPage, DeleteBatch, Collect, RemoveMail, Destroy, Receipt, directory
    <3>2. ASSUME NEW h \in Handlers, BeginContact(h) \/ BeginFile(h) \/ BeginErase(h) \/ Raises(h)
          PROVE  UNCHANGED by_email
      BY <3>2 DEF BeginContact, BeginFile, BeginErase, Begin, Raises, directory
    <3>3. (\E d \in Emails : Hold(d)) \/ UNCHANGED vars => UNCHANGED by_email
      BY DEF Hold, vars, directory
    <3> QED  BY <1>3, <3>1, <3>2, <3>3 DEF Next
  <2> QED  BY <2>1, <2>2, <2>3, <2>4, <2>5
<1>4. Inv /\ DirectorySound /\ [Next]_vars =>
          [\A e \in Emails : by_email[e] # None => by_email'[e] \in {by_email[e], None} \cup asked]_vars
  BY <1>3
<1> QED  BY <1>1, <1>2, <1>4, PTL DEF Spec, OneIdPerAddress
-----------------------------------------------------------------------------
(* Requesters and the file. *)

\* A step of thread h after which nobody is a requester who is not in the file.
LEMMA SavedStays ==
    ASSUME Inv, Saved, NEW h \in Handlers, NEW k, job' = [job EXCEPT ![h] = k],
           UNCHANGED <<by_id, path, subject>>, asked \subseteq asked',
           \A o \in Oids \ asked : Bears(k, o) => OnRecord(o),
           \A o \in Oids : Stores(job[h], o) => Stores(k, o),
           \A t \in TicketIds : requester'[t] \in {requester[t]} \cup {o \in Oids : o \in asked \/ OnRecord(o)}
    PROVE  Saved'
<1>1. \A g \in Handlers : job'[g] = IF g = h THEN k ELSE job[g]
  BY DirectoryTypes
<1>2. Loaded' = Loaded
  BY DEF Loaded
<1> SUFFICES ASSUME NEW o \in Oids \ asked'
             PROVE  /\ Borne(o)' => OnRecord(o)
                    /\ by_id[o] # None => Loaded.by_id[o] = by_id[o] \/ \E g \in Handlers : Stores(job'[g], o)
  BY <1>2 DEF Saved, OnRecord, Stores
<1>3. o \in Oids \ asked
  OBVIOUS
<1>4. \A g \in Handlers : Bears(job'[g], o) => OnRecord(o)
  <2>1. \A g \in Handlers : Bears(job'[g], o) => Bears(k, o) \/ Bears(job[g], o)
    BY <1>1
  <2> QED  BY <1>3, <2>1 DEF Saved, Borne
<1>5. \A t \in TicketIds : requester'[t] = o => OnRecord(o)
  BY <1>3 DEF Saved, Borne
<1>6. Borne(o)' <=> (\E t \in TicketIds : requester'[t] = o) \/ \E g \in Handlers : Bears(job'[g], o)
  BY DEF Borne, Bears
<1>7. \A g \in Handlers : Stores(job[g], o) => Stores(job'[g], o)
  BY <1>1
<1> QED  BY <1>3, <1>4, <1>5, <1>6, <1>7 DEF Saved

\* As most do: no new requester.
LEMMA SavedStill ==
    ASSUME Inv, Saved, NEW h \in Handlers, NEW k, job' = [job EXCEPT ![h] = k],
           UNCHANGED <<by_id, path, subject, requester>>, asked \subseteq asked',
           \A o : ~Bears(k, o),
           \A o \in Oids : Stores(job[h], o) => Stores(k, o)
    PROVE  Saved'
BY SavedStays

LEMMA BeginSaved ==
    ASSUME Inv, Saved, NEW h \in Handlers, BeginContact(h) \/ BeginFile(h) \/ BeginErase(h)
    PROVE  Saved'
<1>1. PICK op, step, email, oid, t, found :
          /\ Begin(h, op, step, email, oid, t, found)
          /\ \/ <<op, step>> \in {<<"contact", "lookup">>, <<"erase", "forget_id">>}
             \/ op = "file" /\ step = "put" /\ oid \in Known
  BY DEF BeginContact, BeginFile, BeginErase
<1>2. PICK k : k = [op |-> op, step |-> step, email |-> email, oid |-> oid, ticket |-> t,
                    before |-> 0, popped |-> None, text |-> None, into |-> "tmp",
                    keys |-> {}, doomed |-> {}, key |-> None, found |-> found]
  OBVIOUS
<1>3. k.op = op /\ k.step = step /\ k.oid = oid
  BY <1>2
<1>4. job' = [job EXCEPT ![h] = k] /\ job[h] = None
  BY <1>1, <1>2 DEF Begin
<1>5. UNCHANGED <<by_id, path, subject, requester, asked>>
  BY <1>1 DEF Begin, directory, files, desk, history
<1>6. \A o \in Oids \ asked : Bears(k, o) => OnRecord(o)
  <2> SUFFICES ASSUME NEW o \in Oids \ asked, Bears(k, o)  PROVE Borne(o)
    BY DEF Saved
  <2>1. o \in Known
    BY <1>1, <1>3 DEF Bears
  <2> QED  BY <2>1 DEF Known, Borne
<1>7. \A o \in Oids : ~Stores(job[h], o)
  BY <1>4 DEF Stores
<1> QED  BY <1>4, <1>5, <1>6, <1>7, SavedStays

LEMMA FilingSaved ==
    ASSUME Inv, Inv', Saved, NEW h \in Handlers,
           PutTicket(h) \/ Grant(h) \/ Encrypt(h) \/ AppendBody(h)
    PROVE  Saved'
<1>1. PICK j, k : j = job[h] /\ k = job'[h]
  OBVIOUS
<1>2. /\ j # None /\ j.step \in {"put", "grant", "encrypt", "append"}
      /\ UNCHANGED <<directory, files, subject, history>>
      /\ requester' = requester \/ requester' = [requester EXCEPT ![j.ticket] = j.oid]
  BY <1>1 DEF PutTicket, Grant, Encrypt, AppendBody, At
<1>3. j \in Job /\ j.oid \in Oids /\ j.op \in {"contact", "file"}
  BY <1>1, <1>2, JobIn DEF Formed, EraseSteps, Job, Ops
<1>4. job' = [job EXCEPT ![h] = k] /\ (k # None => k.oid = j.oid)
  BY <1>1, <1>2, <1>3, FilingGoesOn
<1>5. j.oid \in asked \/ OnRecord(j.oid)
  <2>1. Borne(j.oid)
    BY <1>1, <1>2, <1>3 DEF Borne, Bears
  <2> QED  BY <1>3, <2>1 DEF Saved
<1>6. \A o \in Oids \ asked : Bears(k, o) => OnRecord(o)
  BY <1>4, <1>5 DEF Bears
<1>7. \A o \in Oids : ~Stores(job[h], o)
  BY <1>1, <1>2 DEF Stores
<1>8. UNCHANGED <<by_id, path, subject, asked>>
  BY <1>2 DEF directory, files, history
<1>9. \A t \in TicketIds : requester'[t] \in {requester[t]} \cup {o \in Oids : o \in asked \/ OnRecord(o)}
  BY <1>2, <1>3, <1>5 DEF Inv, TypeOK
<1> QED  BY <1>4, <1>6, <1>7, <1>8, <1>9, SavedStays

LEMMA PurgingSaved ==
    ASSUME Inv, Inv', DirectorySound, Saved, NEW h \in Handlers,
           ReadPage(h) \/ DeleteBatch(h) \/ Collect(h) \/ RemoveMail(h) \/ Destroy(h)
    PROVE  Saved'
<1>1. PICK j, k : j = job[h] /\ k = job'[h]
  OBVIOUS
<1>2. /\ j # None /\ j.step \in AfterSaving
      /\ UNCHANGED <<directory, files, subject, requester, history>>
  BY <1>1 DEF ReadPage, DeleteBatch, Collect, RemoveMail, Destroy, At, desk, AfterSaving
<1>3. j \in Job /\ j.oid \in Oids /\ j.op = "erase"
  BY <1>1, <1>2, JobIn DEF Formed, ContactSteps, FileSteps, AfterSaving, Job, Ops
<1>4. job' = [job EXCEPT ![h] = k] /\ (k # None => k.op = "erase")
  BY <1>1, <1>2, <1>3, PurgingGoesOn
<1>5. \A o : ~Bears(k, o) /\ ~Stores(job[h], o)
  BY <1>1, <1>3, <1>4 DEF Bears, Stores
<1>6. UNCHANGED <<by_id, path, subject, requester, asked>>
  BY <1>2 DEF directory, files, history
<1> QED  BY <1>4, <1>5, <1>6, SavedStill

LEMMA LookupSaved ==
    ASSUME Inv, Inv', DirectorySound, OneDirectoryThread, Saved, NEW h \in Handlers, Lookup(h)
    PROVE  Saved'
<1>1. PICK j : j = job[h]
  OBVIOUS
<1>2. j # None /\ j.step = "lookup" /\ UNCHANGED <<directory, files, desk, history>>
  BY <1>1 DEF Lookup, At
<1>3. j \in Job /\ j.op = "contact" /\ j.email \in Emails
  BY <1>1, <1>2, Director DEF Directing
<1>4. UNCHANGED <<by_id, path, requester, asked>>
  BY <1>2 DEF directory, files, desk, history
<1>5. \A o : ~Stores(job[h], o)
  BY <1>1, <1>2 DEF Stores
<1>6. CASE IsMapped(j.email)
  <2>1. PICK o : o = by_email[j.email]
    OBVIOUS
  <2>2. PICK k : k = [j EXCEPT !.oid = o, !.step = "put"]
    OBVIOUS
  <2>3. job' = [job EXCEPT ![h] = k] /\ UNCHANGED subject
    BY <1>1, <1>6, <2>1, <2>2 DEF Lookup
  <2>4. k.oid = o
    BY <1>3, <2>2 DEF Job
  <2>5. o \in Oids
    BY <1>3, <1>6, <2>1, DirectoryTypes DEF IsMapped
  <2>6. by_id[o] = j.email
    <3>1. ~Underway(j.email, o)
      BY <1>1, <1>2, <1>3, <2>5, NoneBetween
    <3> QED  BY <1>3, <2>1, <2>5, <3>1 DEF DirectorySound, Matched
  <2>7. o \notin asked => OnRecord(o)
    <3>1. by_id[o] # None /\ by_id[o] = subject[o]
      BY <1>3, <2>5, <2>6, ConstantFacts DEF DirectorySound, Matched
    <3>2. \A g \in Handlers : ~Stores(job[g], o)
      BY <1>1, <1>2, <1>3, <1>5, OneAtWork DEF Stores
    <3> QED  BY <2>5, <3>1, <3>2 DEF Saved, OnRecord
  <2>8. \A p \in Oids \ asked : Bears(k, p) => OnRecord(p)
    BY <2>4, <2>7 DEF Bears
  <2> QED  BY <1>4, <1>5, <2>3, <2>8, SavedStays
<1>7. CASE ~IsMapped(j.email)
  <2>1. PICK o \in Oids \ Minted :
            /\ subject' = [subject EXCEPT ![o] = job[h].email]
            /\ job' = [job EXCEPT ![h].oid = o, ![h].step = "bind_email",
                                  ![h].before = Cardinality(Mapped)]
    BY <1>1, <1>7 DEF Lookup
  <2>2. PICK n : n = Cardinality(Mapped)
    OBVIOUS
  <2>3. PICK k : k = [j EXCEPT !.oid = o, !.step = "bind_email", !.before = n]
    OBVIOUS
  <2>4. job' = [job EXCEPT ![h] = k]
    BY <1>1, <2>1, <2>2, <2>3
  <2>5. k.step = "bind_email"
    BY <1>3, <2>3 DEF Job
  <2>6. \A g \in Handlers : job'[g] = IF g = h THEN k ELSE job[g]
    BY <2>4, DirectoryTypes
  <2>7. subject[o] = None /\ \A p \in Oids \ {o} : subject'[p] = subject[p]
    BY <2>1 DEF Minted, Inv, TypeOK
  <2>8. ~Borne(o)
    <3>1. Named
      BY DEF DirectorySound
    <3>2. \A t \in TicketIds : requester[t] # o
      BY <2>1, <2>7, <3>1, ConstantFacts DEF Named
    <3>3. \A g \in Handlers : ~Bears(job[g], o)
      BY <2>1, <2>7, <3>1, ConstantFacts DEF Named, Bears
    <3> QED  BY <3>2, <3>3 DEF Borne
  <2>9. Loaded' = Loaded
    BY <1>4 DEF Loaded
  <2>10. \A p : Borne(p)' => Borne(p)
    BY <1>4, <2>5, <2>6 DEF Borne, Bears
  <2>11. \A p : \A g \in Handlers : Stores(job[g], p) => Stores(job'[g], p)
    BY <1>5, <2>6
  <2>12. ASSUME NEW p \in Oids \ asked'
         PROVE  /\ Borne(p)' => OnRecord(p)'
                /\ by_id'[p] # None => Loaded'.by_id[p] = by_id'[p] \/ \E g \in Handlers : Stores(job'[g], p)
    <3>1. p \in Oids \ asked
      BY <1>4
    <3>2. Borne(p)' => OnRecord(p)'
      BY <1>4, <2>7, <2>8, <2>9, <2>10, <3>1 DEF Saved, OnRecord
    <3>3. by_id[p] # None => Loaded.by_id[p] = by_id[p] \/ \E g \in Handlers : Stores(job[g], p)
      BY <3>1 DEF Saved
    <3>4. (\E g \in Handlers : Stores(job[g], p)) => \E g \in Handlers : Stores(job'[g], p)
      BY <2>11
    <3>5. by_id' = by_id
      BY <1>4
    <3> QED  BY <2>9, <3>2, <3>3, <3>4, <3>5
  <2> QED  BY <2>12 DEF Saved, Stores
<1> QED  BY <1>6, <1>7

\* Between the maps, and at the file: the thread goes on with the same id.
LEMMA DirectorSaved ==
    ASSUME Inv, DirectorySound, Saved, NEW h \in Handlers,
           BindEmail(h) \/ ForgetEmail(h) \/ DumpMaps(h) \/ OpenTmp(h) \/ WriteText(h) \/ Receipt(h)
    PROVE  Saved'
<1>1. PICK j, m : j = job[h] /\ m = Maps
  OBVIOUS
<1>2. /\ j # None /\ j.step \in Directing \ {"lookup"} /\ UNCHANGED <<by_id, subject, requester, asked>>
  BY <1>1 DEF BindEmail, ForgetEmail, DumpMaps, OpenTmp, WriteText, Receipt, At, Directing, Saving,
     directory, desk, history
<1>3. j \in Job /\ j.oid \in Oids /\ Knows(j)
  BY <1>1, <1>2, Director
<1>4. CASE BindEmail(h)
  <2>1. PICK k : k = [j EXCEPT !.step = "bind_id"] /\ job' = [job EXCEPT ![h] = k]
    BY <1>1, <1>4 DEF BindEmail, Goto
  <2>2. k.step = "bind_id" /\ j.step = "bind_email" /\ path' = path
    BY <1>1, <1>3, <1>4, <2>1 DEF Job, BindEmail, At, files
  <2> QED  BY <1>1, <1>2, <2>1, <2>2, SavedStill DEF Bears, Stores
<1>5. CASE ForgetEmail(h)
  <2>1. PICK k : k = [j EXCEPT !.step = "dump"] /\ job' = [job EXCEPT ![h] = k]
    BY <1>1, <1>5 DEF ForgetEmail, Goto, AfterForgetting
  <2>2. k.step = "dump" /\ j.step = "forget_email" /\ path' = path
    BY <1>1, <1>3, <1>5, <2>1 DEF Job, ForgetEmail, At, files
  <2> QED  BY <1>1, <1>2, <2>1, <2>2, SavedStill DEF Bears, Stores
<1>6. CASE DumpMaps(h)
  <2>1. PICK k : k = [j EXCEPT !.text = m, !.step = "open"]
    OBVIOUS
  <2>2. job' = [job EXCEPT ![h].text = m, ![h].step = "open"] /\ path' = path
    BY <1>1, <1>6 DEF DumpMaps, Maps, files
  <2>3. job' = [job EXCEPT ![h] = k]
    BY <1>1, <2>1, <2>2
  <2>4. k.step = "open" /\ k.op = j.op /\ k.oid = j.oid /\ k # None
    <3>1. k.step = "open" /\ k.op = j.op /\ k.oid = j.oid
      BY <1>3, <2>1 DEF Job
    <3>2. k \in Job
      <4>1. m \in Dump
        BY <1>1 DEF Inv, TypeOK, Maps
      <4> QED  BY <1>3, <2>1, <4>1 DEF Job, Steps
    <3> QED  BY <3>1, <3>2, ConstantFacts
  <2>5. \A o : ~Bears(k, o) /\ (Stores(job[h], o) => Stores(k, o))
    BY <1>1, <2>4 DEF Bears, Stores
  <2> QED  BY <1>2, <2>2, <2>3, <2>5, SavedStill
<1>7. CASE OpenTmp(h)
  <2>1. PICK k : k = [j EXCEPT !.into = "tmp", !.step = "write"]
    OBVIOUS
  <2>2. job' = [job EXCEPT ![h].into = "tmp", ![h].step = "write"] /\ path' = path
    BY <1>7 DEF OpenTmp
  <2>3. job' = [job EXCEPT ![h] = k]
    BY <1>1, <2>1, <2>2
  <2>4. k.step = "write" /\ k.op = j.op /\ k.oid = j.oid /\ k # None
    <3>1. k.step = "write" /\ k.op = j.op /\ k.oid = j.oid /\ k \in Job
      BY <1>3, <2>1 DEF Job, Steps, Places
    <3> QED  BY <3>1, ConstantFacts
  <2>5. \A o : ~Bears(k, o) /\ (Stores(job[h], o) => Stores(k, o))
    BY <1>1, <2>4 DEF Bears, Stores
  <2> QED  BY <1>2, <2>2, <2>3, <2>5, SavedStill
<1>8. CASE WriteText(h)
  <2>1. PICK k : k = [j EXCEPT !.step = "replace"] /\ job' = [job EXCEPT ![h] = k]
    BY <1>1, <1>8 DEF WriteText, Goto
  <2>2. k.step = "replace" /\ k.op = j.op /\ k.oid = j.oid /\ k \in Job
    BY <1>3, <2>1 DEF Job, Steps
  <2>3. k # None
    BY <2>2, ConstantFacts
  <2>4. path' = path
    <3>1. j.into = "tmp"
      BY <1>1, <1>3, <1>8 DEF WriteText, At, Knows
    <3> QED  BY <1>1, <1>8, <3>1 DEF WriteText
  <2>5. \A o : ~Bears(k, o) /\ (Stores(job[h], o) => Stores(k, o))
    BY <1>1, <2>2, <2>3 DEF Bears, Stores
  <2> QED  BY <1>2, <2>1, <2>4, <2>5, SavedStill
<1>9. CASE Receipt(h)
  <2>1. PICK k : k = None /\ job' = [job EXCEPT ![h] = k]
    BY <1>9 DEF Receipt, Finish
  <2>2. j.step = "receipt" /\ path' = path
    BY <1>1, <1>9 DEF Receipt, At, files
  <2> QED  BY <1>1, <1>2, <2>1, <2>2, SavedStill DEF Bears, Stores
<1> QED  BY <1>4, <1>5, <1>6, <1>7, <1>8, <1>9

LEMMA BindIdSaved ==
    ASSUME Inv, DirectorySound, Saved, NEW h \in Handlers, BindId(h)
    PROVE  Saved'
<1>1. PICK j : j = job[h]
  OBVIOUS
<1>2. /\ j # None /\ j.step = "bind_id" /\ UNCHANGED <<by_email, files, subject, desk, history>>
      /\ by_id' = [by_id EXCEPT ![j.oid] = j.email]
  BY <1>1 DEF BindId, At
<1>3. j \in Job /\ j.op = "contact" /\ j.oid \in Oids /\ Knows(j) /\ subject[j.oid] # None
  BY <1>1, <1>2, Director DEF Directing
<1>4. Grown(h) /\ by_id[j.oid] = None
  BY <1>1, <1>2, <1>3 DEF Knows, Grown
<1>5. PICK k : k = [j EXCEPT !.step = "dump"] /\ job' = [job EXCEPT ![h] = k]
  BY <1>1, <1>4 DEF BindId, Goto
<1>6. k.op = "contact" /\ k.oid = j.oid /\ k.step = "dump" /\ k \in Job
  BY <1>3, <1>5 DEF Job, Steps
<1>7. \A g \in Handlers : job'[g] = IF g = h THEN k ELSE job[g]
  BY <1>5, DirectoryTypes
<1>8. UNCHANGED <<subject, requester, asked>> /\ Loaded' = Loaded
  BY <1>2 DEF Loaded, files, desk, history
<1>9. \A o : Borne(o)' => Borne(o)
  BY <1>6, <1>7, <1>8 DEF Borne, Bears
<1>10. \A o : (\E g \in Handlers : Stores(job[g], o)) => \E g \in Handlers : Stores(job'[g], o)
  BY <1>1, <1>2, <1>7 DEF Stores
<1>11. ASSUME NEW o \in Oids \ asked, o # j.oid
       PROVE  /\ Borne(o)' => OnRecord(o)'
              /\ by_id'[o] # None => Loaded'.by_id[o] = by_id'[o] \/ \E g \in Handlers : Stores(job'[g], o)
  <2>1. by_id'[o] = by_id[o]
    BY <1>2, <1>11, DirectoryTypes
  <2>2. Borne(o)' => OnRecord(o)'
    BY <1>8, <1>9, <2>1 DEF Saved, OnRecord
  <2>3. by_id[o] # None => Loaded.by_id[o] = by_id[o] \/ \E g \in Handlers : Stores(job[g], o)
    BY DEF Saved
  <2> QED  BY <1>8, <1>10, <2>1, <2>2, <2>3
<1>12. j.oid \notin asked => ~Borne(j.oid)'
  BY <1>3, <1>4, <1>9 DEF Saved, OnRecord
<1>13. \E g \in Handlers : Stores(job'[g], j.oid)
  BY <1>6, <1>7, ConstantFacts DEF Stores
<1>14. ASSUME NEW o \in Oids \ asked'
       PROVE  /\ Borne(o)' => OnRecord(o)'
              /\ by_id'[o] # None => Loaded'.by_id[o] = by_id'[o] \/ \E g \in Handlers : Stores(job'[g], o)
  <2>1. o \in Oids \ asked
    BY <1>8
  <2> QED  BY <1>11, <1>12, <1>13, <2>1
<1> QED  BY <1>14 DEF Saved, Stores

LEMMA ForgetIdSaved ==
    ASSUME Inv, DirectorySound, Saved, NEW h \in Handlers, ForgetId(h)
    PROVE  Saved'
<1>1. PICK j, e1 : j = job[h] /\ e1 = by_id[j.oid]
  OBVIOUS
<1>2. /\ j # None /\ j.step = "forget_id" /\ UNCHANGED <<by_email, files, subject, desk, receipts>>
      /\ by_id' = [by_id EXCEPT ![j.oid] = None] /\ asked' = asked \cup {j.oid}
      /\ job' = [job EXCEPT ![h].popped = e1, ![h].step = "forget_email"]
  BY <1>1 DEF ForgetId, At
<1>3. j \in Job /\ j.oid \in Oids
  BY <1>1, <1>2, Director DEF Directing
<1>4. PICK k : k = [j EXCEPT !.popped = e1, !.step = "forget_email"]
  OBVIOUS
<1>5. job' = [job EXCEPT ![h] = k]
  BY <1>1, <1>2, <1>4
<1>6. k.step = "forget_email"
  BY <1>3, <1>4 DEF Job
<1>7. \A g \in Handlers : job'[g] = IF g = h THEN k ELSE job[g]
  BY <1>5, DirectoryTypes
<1>8. UNCHANGED <<subject, requester>> /\ Loaded' = Loaded
  BY <1>2 DEF Loaded, files, desk
<1>9. \A o : Borne(o)' => Borne(o)
  BY <1>6, <1>7, <1>8 DEF Borne, Bears
<1>10. \A o : (\E g \in Handlers : Stores(job[g], o)) => \E g \in Handlers : Stores(job'[g], o)
  BY <1>1, <1>2, <1>7 DEF Stores
<1>11. ASSUME NEW o \in Oids \ asked'
       PROVE  /\ Borne(o)' => OnRecord(o)'
              /\ by_id'[o] # None => Loaded'.by_id[o] = by_id'[o] \/ \E g \in Handlers : Stores(job'[g], o)
  <2>1. o \in Oids \ asked /\ by_id'[o] = by_id[o]
    BY <1>2, <1>3, DirectoryTypes
  <2>2. Borne(o)' => OnRecord(o)'
    BY <1>8, <1>9, <2>1 DEF Saved, OnRecord
  <2>3. by_id[o] # None => Loaded.by_id[o] = by_id[o] \/ \E g \in Handlers : Stores(job[g], o)
    BY <2>1 DEF Saved
  <2> QED  BY <1>8, <1>10, <2>1, <2>2, <2>3
<1> QED  BY <1>11 DEF Saved, Stores

LEMMA ReplaceSaved ==
    ASSUME Inv, Inv', DirectorySound, OneDirectoryThread, Saved, NEW h \in Handlers, Replace(h)
    PROVE  Saved'
<1>1. PICK j : j = job[h]
  OBVIOUS
<1>2. j # None /\ j.step = "replace" /\ UNCHANGED <<directory, subject, desk, history>>
  BY <1>1 DEF Replace, At
<1>3. j \in Job /\ j.op \in {"contact", "erase"} /\ j.oid \in Oids /\ Knows(j)
  BY <1>1, <1>2, Director DEF Directing, Saving
<1>4. Loaded' = Maps /\ tmp # None
  BY ReplaceDirectory
<1>5. PICK k : k = [j EXCEPT !.step = AfterSave(h), !.text = None]
  OBVIOUS
<1>6. k.op = j.op /\ k.oid = j.oid
  BY <1>1, <1>3, <1>5 DEF Job, AfterSave
<1>7. \A g \in Handlers \ {h} : job[g] # None => ~At(g, "write")
  BY <1>1, <1>2, <1>3, OneAtWork, JobAt DEF Formed, FileSteps, At
<1>8. \A g \in Handlers : job'[g] = IF g = h THEN k ELSE job[g]
  <2>1. job' = [g \in Handlers |->
                   IF g = h THEN k ELSE IF At(g, "write") THEN [job[g] EXCEPT !.into = Moved(@)] ELSE job[g]]
    BY <1>1, <1>4, <1>5 DEF Replace
  <2> QED  BY <1>7, <2>1 DEF At
<1>9. UNCHANGED <<by_id, subject, requester, asked>>
  BY <1>2 DEF directory, desk, history
<1>10. ASSUME NEW o \in Oids \ asked'
       PROVE  /\ Borne(o)' => OnRecord(o)'
              /\ by_id'[o] # None => Loaded'.by_id[o] = by_id'[o] \/ \E g \in Handlers : Stores(job'[g], o)
  <2>1. Bears(k, o) => by_id[o] = subject[o]
    BY <1>2, <1>3, <1>6 DEF Knows, Bears
  <2>2. Borne(o)' => Borne(o) \/ Bears(k, o)
    BY <1>8, <1>9 DEF Borne, Bears
  <2>3. Borne(o)' => by_id[o] = subject[o]
    BY <1>9, <2>1, <2>2 DEF Saved, OnRecord
  <2> QED  BY <1>4, <1>9, <2>3 DEF OnRecord, Maps
<1> QED  BY <1>10 DEF Saved, Stores

LEMMA RaisesSaved ==
    ASSUME Inv, Saved, ContactsAreSaved, NEW h \in Handlers, Raises(h)
    PROVE  Saved'
<1>1. PICK j, k : j = job[h] /\ k = None
  OBVIOUS
<1>2. /\ <<j.op, j.step>> \in MayFail /\ job' = [job EXCEPT ![h] = k]
      /\ UNCHANGED <<directory, files, subject, desk, history>>
  BY <1>1 DEF Raises, Finish
<1>3. \A o : ~Stores(j, o) /\ ~Bears(k, o)
  BY <1>1, <1>2 DEF Stores, Bears, ContactsAreSaved
<1>4. UNCHANGED <<by_id, path, subject, requester, asked>>
  BY <1>2 DEF directory, files, desk, history
<1> QED  BY <1>1, <1>2, <1>3, <1>4, SavedStill

LEMMA HoldSaved ==
    ASSUME Saved, UNCHANGED <<by_id, path, subject, requester, job, asked>>
    PROVE  Saved'
<1>1. Loaded' = Loaded
  BY DEF Loaded
<1> QED  BY <1>1 DEF Saved, OnRecord, Borne, Bears, Stores

LEMMA RestartSaved ==
    ASSUME Saved, Restart
    PROVE  Saved'
<1>1. by_id' = Loaded.by_id /\ job' = [h \in Handlers |-> None] /\ UNCHANGED <<subject, requester, asked>>
  BY DEF Restart, desk, history
<1>2. Loaded' = Loaded
  BY DEF Restart, Loaded, files
<1>3. \A o : Borne(o)' => Borne(o)
  BY <1>1 DEF Borne, Bears
<1> QED  BY <1>1, <1>2, <1>3 DEF Saved, OnRecord

LEMMA NextSaved ==
    ASSUME Inv, DirectorySound, Saved, OneDirectoryThread, ContactsAreSaved, [Next]_vars
    PROVE  Saved'
<1>1. Inv'
  BY NextKeeps
<1>2. CASE UNCHANGED vars
  BY <1>2, HoldSaved DEF vars, directory, files, desk, history
<1>3. ASSUME NEW h \in Handlers, BeginContact(h) \/ BeginFile(h) \/ BeginErase(h)  PROVE Saved'
  BY <1>3, BeginSaved
<1>4. ASSUME NEW h \in Handlers, Advance(h)  PROVE Saved'
  <2>1. CASE Lookup(h) \/ BindId(h) \/ ForgetId(h) \/ Replace(h)
    BY <1>1, <2>1, LookupSaved, BindIdSaved, ForgetIdSaved, ReplaceSaved
  <2>2. CASE BindEmail(h) \/ ForgetEmail(h) \/ DumpMaps(h) \/ OpenTmp(h) \/ WriteText(h) \/ Receipt(h)
    BY <2>2, DirectorSaved
  <2>3. CASE PutTicket(h) \/ Grant(h) \/ Encrypt(h) \/ AppendBody(h)
    BY <1>1, <2>3, FilingSaved
  <2>4. CASE ReadPage(h) \/ DeleteBatch(h) \/ Collect(h) \/ RemoveMail(h) \/ Destroy(h)
    BY <1>1, <2>4, PurgingSaved
  <2> QED  BY <1>4, <2>1, <2>2, <2>3, <2>4 DEF Advance
<1>5. ASSUME NEW h \in Handlers, Raises(h)  PROVE Saved'
  BY <1>5, RaisesSaved
<1>6. ASSUME NEW e \in Emails, Hold(e)  PROVE Saved'
  <2>1. UNCHANGED <<directory, files, subject, desk, job, history>>
    BY <1>6 DEF Hold
  <2> QED  BY <2>1, HoldSaved DEF directory, files, desk, history
<1>7. CASE Restart
  BY <1>7, RestartSaved
<1> QED  BY <1>2, <1>3, <1>4, <1>5, <1>6, <1>7 DEF Next

\* FileIdentityDirectory.resolve saves before the ticket is put.  When one thread
\* resolves and erases, the dictionaries do not raise half-way and the save after a
\* first contact does not fail, the requester of every ticket is in the file, with the
\* address it was minted for, so that no restart orphans it, unless an erasure of it
\* was begun.
THEOREM NobodyOrphaned ==
    OneDirectoryThread /\ MapsDoNotRaise /\ ContactsAreSaved => (Spec => []RequestersSurvive)
<1> SUFFICES ASSUME OneDirectoryThread, MapsDoNotRaise, ContactsAreSaved
             PROVE  Spec => []RequestersSurvive
  OBVIOUS
<1>1. Init => Inv /\ DirectorySound /\ Saved
  <2> SUFFICES ASSUME Init  PROVE Inv /\ DirectorySound /\ Saved
    OBVIOUS
  <2>1. \A o : o \in Oids => o # None
    BY ConstantFacts
  <2>2. Saved
    BY <2>1 DEF Init, Saved, Borne, Bears, Nobody
  <2> QED  BY <2>2, InitInv, InitDirectory
<1>2. Inv /\ DirectorySound /\ Saved /\ [Next]_vars => Inv' /\ DirectorySound' /\ Saved'
  BY NextKeeps, NextDirectory, NextSaved
<1>3. Inv /\ DirectorySound /\ Saved => RequestersSurvive
  <2> SUFFICES ASSUME Inv, DirectorySound, Saved, NEW t \in TicketIds, requester[t] \notin asked \cup {None}
               PROVE  path \in Dump /\ path.by_id[requester[t]] = subject[requester[t]]
    BY DEF RequestersSurvive
  <2>1. requester[t] \in Oids \ asked
    BY DEF Inv, TypeOK
  <2>2. Loaded.by_id[requester[t]] = subject[requester[t]]
    BY <2>1 DEF Saved, Borne, OnRecord
  <2>3. subject[requester[t]] # None
    BY DEF DirectorySound, Named
  <2>4. path # Empty
    BY <2>1, <2>2, <2>3 DEF Loaded, Nobody
  <2> QED  BY <2>2, <2>4 DEF Loaded, DirectorySound, Inv, TypeOK, Contents
<1> QED  BY <1>1, <1>2, <1>3, PTL DEF Spec
=============================================================================
