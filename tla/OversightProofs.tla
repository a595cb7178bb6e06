------------------------- MODULE OversightProofs -------------------------
(***************************************************************************)
(* What the orphan report, the pages of the portfolio and the audit log    *)
(* promise, for any number of threads, items, epics and page sizes and     *)
(* whatever is written, regrouped or restarted meanwhile.                  *)
(***************************************************************************)
EXTENDS Oversight, FiniteSetTheorems, SequenceTheorems, TLAPS

\* What a request is by its step, and what its answer is by its operation.
Shaped(j) ==
    /\ j.began <= changes
    /\ j.step \in {"list_risks", "list_tickets", "publish"} => j.op = "refresh"
    /\ j.step = "serve" => j.op = "orphans" /\ j.principal \in Principals
    /\ j.step = "put" => j.op = "create_risk" /\ j.principal \in Principals
    /\ j.step = "page" => j.op = "portfolio"
    /\ j.op = "orphans" /\ j.answer # None => j.answer \in Report /\ j.principal \in Principals
    /\ j.op = "portfolio" /\ j.result = 200 =>
           j.step \in {"record", "send"} /\ j.answer \in Listing /\ pager # None

Typed ==
    /\ TypeOK /\ log \in Seq(Elements(log))
    /\ \A h \in Handlers : job[h] # None => Shaped(job[h])

\* A report tells the orphans in the spaces of S among what has not changed since it began.
Tells(rep, S) ==
    /\ rep.began <= changes
    /\ \A i \in Items : touched[i] <= rep.began =>
           \A s \in Spaces : i \in rep.resources[s] \cup rep.tickets[s] <=>
                                 Orphaned(i) /\ SpaceOf(i) = s /\ s \in S

\* What a batch has listed is what is there, but for what was touched since it began.
Lists(j) ==
    /\ j.step \in {"list_tickets", "publish"} =>
           \A r \in Risks : touched[r] <= j.began => j.risks[r] = risk[r]
    /\ j.step = "publish" =>
           \A t \in Tickets : touched[t] <= j.began => j.tickets[t] = ticket[t]

AnswerTells(j) ==
    j.op = "orphans" /\ j.answer # None => Tells(j.answer, config.writable[j.principal])

ReportSound ==
    /\ report # None => Tells(report, Spaces)
    /\ \A h \in Handlers : job[h] # None => Lists(job[h]) /\ AnswerTells(job[h])

\* The answers on their way out are in the log too.
Going(e) == {h \in Handlers : At(h, "send") /\ EventOf(h) = e}
Logged(e) == {n \in DOMAIN log : log[n].event = e}
Counted == \A e \in Event : sent[e] + Cardinality(Going(e)) <= Cardinality(Logged(e))

\* The log is the chain of its events, and no entry has the hash of another one.
Chained ==
    /\ \A n \in DOMAIN log : log[n] = [event |-> log[n].event, prev_hash |-> Previous(log, n),
                                       entry_hash |-> EntryHash(Previous(log, n), log[n].event)]
    /\ \A n \in DOMAIN log : log[n].entry_hash # Genesis
    /\ \A m, n \in DOMAIN log : log[m].entry_hash = log[n].entry_hash => m = n

\* A client that has got the epics of got and goes on at cursor: what it could see from the
\* start and is before the cursor, it has got; what it has got is before the cursor; and if
\* its groups are what they were, it has got what is before the cursor in the order it is in.
Followed(p, got, cursor) ==
    /\ p.lost = {} => \A n \in VisibleAt :
           Epics[n] \in Elements(p.all) /\ (cursor = None \/ Place(n) <= cursor) => Epics[n] \in Elements(got)
    /\ ~p.gained =>
           /\ \A m, n \in DOMAIN got : got[m] = got[n] => m = n
           /\ cursor # None => \A n \in VisibleAt : Epics[n] \in Elements(got) => Place(n) <= cursor
    /\ p.lost = {} /\ ~p.gained =>
           IF cursor = None THEN got = Visible
           ELSE cursor <= Len(Visible) /\ got = SubSeq(Visible, 1, cursor)

\* What the client could see when it began: it still can, if it lost no group.
Starts(p) ==
    /\ p.lost = {} => Elements(p.all) \subseteq {Epics[n] : n \in VisibleAt}
    /\ p.lost = {} /\ ~p.gained => p.all = Visible

PageTells(j) ==
    j.op = "portfolio" /\ j.result = 200 =>
        /\ pager.cursor # None
        /\ Followed(pager, pager.got \o j.answer.page, j.answer.cursor)
        /\ pager.lost = {} /\ ~pager.gained => j.answer.count = Len(Visible)

PagerSound ==
    /\ \A g, h \in Handlers : job[g] # None /\ job[h] # None
                              /\ job[g].op = "portfolio" /\ job[h].op = "portfolio" => g = h
    /\ pager # None =>
           /\ Starts(pager) /\ Followed(pager, pager.got, pager.cursor)
           /\ pager.lost = {} /\ ~pager.gained /\ pager.cursor = None => pager.count = Len(pager.got)
    /\ \A h \in Handlers, j \in Job : job[h] = j => PageTells(j)
-----------------------------------------------------------------------------
LEMMA ConstantFacts ==
    /\ Services \subseteq Principals /\ Viewer \in Principals
    /\ Configs \subseteq Config /\ Scenarios \subseteq Scenario
    /\ IsFiniteSet(Handlers) /\ Risks \cap Tickets = {}
    /\ Limit \in Nat \ {0}
    /\ None \notin Principals /\ None \notin Risk /\ None \notin Ticket /\ None \notin Report
    /\ None \notin Listing /\ None \notin Pager /\ None \notin Job /\ None \notin Nat
BY OversightAssumption DEF OversightAssumption

LEMMA IndexFacts ==
    /\ Epics \in Seq(DOMAIN GroupOf) /\ Len(Epics) \in Nat
    /\ \A n \in 1..Len(Epics) : Epics[n] \in DOMAIN GroupOf
    /\ DOMAIN Epics = 1..Len(Epics)
    /\ \A m, n \in 1..Len(Epics) : Epics[m] = Epics[n] => m = n
BY OversightAssumption, LenProperties DEF OversightAssumption

(* Sequences. *)

LEMMA SeqFun ==
    ASSUME NEW S, NEW n \in Nat, NEW f \in [1..n -> S]
    PROVE  f \in Seq(S) /\ Len(f) = n
<1>1. f \in Seq(S)
  BY SeqDef
<1>2. DOMAIN f = 1..Len(f) /\ Len(f) \in Nat /\ DOMAIN f = 1..n
  BY <1>1, LenProperties
<1> QED  BY <1>1, <1>2

LEMMA AppendIs ==
    ASSUME NEW s, s \in Seq(Elements(s)), NEW e
    PROVE  /\ Append(s, e) \in Seq(Elements(Append(s, e)))
           /\ Len(s) \in Nat /\ DOMAIN s = 1..Len(s)
           /\ Len(Append(s, e)) = Len(s) + 1 /\ DOMAIN Append(s, e) = 1..(Len(s) + 1)
           /\ Append(s, e)[Len(s) + 1] = e
           /\ \A n \in 1..Len(s) : Append(s, e)[n] = s[n]
<1> DEFINE S == Elements(s) \cup {e}
<1>1. Append(s, e) \in Seq(S) /\ s \in Seq(S)
  BY SeqMonotonic
<1>2. /\ Len(Append(s, e)) = Len(s) + 1
      /\ Append(s, e)[Len(s) + 1] = e
      /\ \A n \in 1..Len(s) : Append(s, e)[n] = s[n]
  BY <1>1
<1>3. Len(s) \in Nat /\ DOMAIN s = 1..Len(s) /\ DOMAIN Append(s, e) = 1..Len(Append(s, e))
  BY <1>1, LenProperties
<1>4. Append(s, e) \in [1..Len(Append(s, e)) -> Elements(Append(s, e))]
  <2>1. Append(s, e) \in [1..Len(Append(s, e)) -> S]
    BY <1>1, LenProperties
  <2> QED  BY <1>3, <2>1 DEF Elements
<1>5. Append(s, e) \in Seq(Elements(Append(s, e)))
  <2>1. Len(Append(s, e)) \in Nat
    BY <1>2, <1>3
  <2> QED  BY <1>4, <2>1, SeqFun
<1> QED  BY <1>2, <1>3, <1>5

(* What Viewer can see. *)

LEMMA UpTo ==
    ASSUME NEW n \in Nat
    PROVE  IsFiniteSet(1..n) /\ Cardinality(1..n) = n
BY FS_Interval

LEMMA VisibleFinite ==
    /\ IsFiniteSet(VisibleAt) /\ VisibleAt \subseteq 1..Len(Epics)
    /\ Cardinality(VisibleAt) \in Nat /\ Cardinality(VisibleAt) <= Len(Epics)
<1>1. IsFiniteSet(1..Len(Epics)) /\ Cardinality(1..Len(Epics)) = Len(Epics)
  BY IndexFacts, UpTo
<1>2. VisibleAt \in SUBSET (1..Len(Epics))
  BY IndexFacts DEF VisibleAt
<1> QED  BY <1>1, <1>2, FS_Subset, FS_CardinalityType

LEMMA PlaceOf ==
    ASSUME NEW n \in VisibleAt
    PROVE  Place(n) \in 1..Cardinality(VisibleAt)
<1> DEFINE B == {m \in VisibleAt : m <= n}
<1>1. B \in SUBSET VisibleAt /\ n \in B
  BY VisibleFinite, IndexFacts
<1>2. IsFiniteSet(B) /\ Cardinality(B) <= Cardinality(VisibleAt) /\ Cardinality(B) \in Nat
  BY <1>1, VisibleFinite, FS_Subset, FS_CardinalityType
<1>3. Cardinality(B) # 0
  BY <1>1, <1>2, FS_EmptySet
<1> QED  BY <1>2, <1>3, VisibleFinite DEF Place

LEMMA PlaceGrows ==
    ASSUME NEW m \in VisibleAt, NEW n \in VisibleAt, m < n
    PROVE  Place(m) < Place(n)
<1> DEFINE A == {k \in VisibleAt : k <= m}
           B == {k \in VisibleAt : k <= n}
<1>1. A \in SUBSET B /\ n \in B /\ n \notin A /\ B \in SUBSET VisibleAt
  <2>1. VisibleAt \subseteq Nat
    BY VisibleFinite, IndexFacts
  <2>2. \A k \in VisibleAt : k <= m => k <= n
    BY <2>1
  <2>3. n <= n /\ ~(n <= m)
    BY <2>1
  <2> QED  BY <2>2, <2>3
<1>2. IsFiniteSet(B)
  BY <1>1, VisibleFinite, FS_Subset
<1>3. /\ Cardinality(A) <= Cardinality(B) /\ Cardinality(A) # Cardinality(B)
      /\ Cardinality(A) \in Nat /\ Cardinality(B) \in Nat
  <2>1. IsFiniteSet(A) /\ Cardinality(A) <= Cardinality(B) /\ (Cardinality(B) = Cardinality(A) => B = A)
    BY <1>1, <1>2, FS_Subset
  <2> QED  BY <1>1, <1>2, <2>1, FS_CardinalityType
<1> QED  BY <1>3 DEF Place

LEMMA PlaceTells ==
    ASSUME NEW m \in VisibleAt, NEW n \in VisibleAt, Place(m) = Place(n)
    PROVE  m = n
<1>1. m \in Int /\ n \in Int /\ Place(m) \in Int /\ Place(n) \in Int
  BY VisibleFinite, IndexFacts, PlaceOf
<1>2. ~(m < n) /\ ~(n < m)
  BY <1>1, PlaceGrows
<1> QED  BY <1>1, <1>2

\* No place is free: there are as many as there are visible epics.
LEMMA PlaceTaken ==
    ASSUME NEW k \in 1..Cardinality(VisibleAt)
    PROVE  \E n \in VisibleAt : Place(n) = k
<1> DEFINE T == 1..Cardinality(VisibleAt)
           f == [n \in VisibleAt |-> Place(n)]
<1>1. IsFiniteSet(T) /\ Cardinality(T) = Cardinality(VisibleAt)
  BY VisibleFinite, UpTo
<1>2. f \in [VisibleAt -> T]
  BY PlaceOf
<1>3. f \in Injection(VisibleAt, T)
  BY <1>2, PlaceTells DEF Injection, IsInjective
<1>4. f \in Surjection(VisibleAt, T)
  <2> HIDE DEF f, T
  <2> QED  BY <1>1, <1>3, FS_Injection
<1> QED  BY <1>4 DEF Surjection

LEMMA VisibleIs ==
    /\ Visible \in Seq(DOMAIN GroupOf) /\ Len(Visible) = Cardinality(VisibleAt)
    /\ Len(Visible) \in 0..Len(Epics) /\ DOMAIN Visible = 1..Len(Visible)
    /\ \A n \in VisibleAt : Place(n) \in 1..Len(Visible) /\ Visible[Place(n)] = Epics[n]
    /\ \A k \in 1..Len(Visible) : \E n \in VisibleAt : Place(n) = k /\ Visible[k] = Epics[n]
<1> DEFINE at(k) == CHOOSE n \in VisibleAt : Place(n) = k
           N == Cardinality(VisibleAt)
<1>1. \A k \in 1..N : at(k) \in VisibleAt /\ Place(at(k)) = k
  BY PlaceTaken
<1>2. N \in Nat /\ N <= Len(Epics)
  BY VisibleFinite
<1>3. \A k \in 1..N : Visible[k] = Epics[at(k)] /\ Epics[at(k)] \in DOMAIN GroupOf
  BY <1>1, VisibleFinite, IndexFacts DEF Visible
<1>4. Visible \in [1..N -> DOMAIN GroupOf]
  BY <1>3 DEF Visible
<1>5. Visible \in Seq(DOMAIN GroupOf)
  BY <1>2, <1>4, SeqDef
<1>6. Len(Visible) = N /\ DOMAIN Visible = 1..N
  BY <1>2, <1>4, SeqFun
<1>7. ASSUME NEW n \in VisibleAt
      PROVE  Place(n) \in 1..N /\ Visible[Place(n)] = Epics[n]
  <2>1. Place(n) \in 1..N
    BY PlaceOf
  <2>2. at(Place(n)) = n
    BY <1>1, <2>1, PlaceTells
  <2> QED  BY <1>3, <2>1, <2>2
<1>8. N \in 0..Len(Epics)
  BY <1>2, IndexFacts
<1>9. \A k \in 1..N : \E n \in VisibleAt : Place(n) = k /\ Visible[k] = Epics[n]
  BY <1>1, <1>3
<1> HIDE DEF N
<1> QED  BY <1>5, <1>6, <1>7, <1>8, <1>9 DEF N
-----------------------------------------------------------------------------
(* What the requests, the stores and the records are. *)

LEMMA JobAt ==
    ASSUME Typed, NEW h \in Handlers, job[h] # None
    PROVE  job[h] \in Job /\ Shaped(job[h]) /\ EventOf(h) \in Event
<1>1. job[h] \in Job /\ Shaped(job[h])
  BY DEF Typed, TypeOK
<1> QED  BY <1>1 DEF EventOf, Event, Job

LEMMA InitTyped == Init => Typed
<1> SUFFICES ASSUME Init  PROVE Typed
  OBVIOUS
<1>1. requests \in 0..scenario.requests /\ restarts \in 0..scenario.restarts
  BY ConstantFacts DEF Init, Scenario
<1>2. TypeOK
  BY <1>1, ConstantFacts DEF Init, TypeOK, NoRisks, NoTickets
<1>3. log \in Seq(Elements(log))
  BY EmptySeq DEF Init
<1> QED  BY <1>2, <1>3 DEF Init, Typed

\* A step that gives thread h the job k and takes the client from nobody.
LEMMA JobMoves ==
    ASSUME Typed, NEW h \in Handlers, NEW k, job' = [job EXCEPT ![h] = k],
           k # None => k \in Job /\ Shaped(k)', pager # None => pager' # None,
           changes' \in {changes, changes + 1}
    PROVE  /\ job' \in [Handlers -> Job \cup {None}]
           /\ \A g \in Handlers : job'[g] # None => Shaped(job[g])'
           /\ \A g \in Handlers \ {h} : job'[g] = job[g]
           /\ job'[h] = k
<1>1. job \in [Handlers -> Job \cup {None}]
  BY DEF Typed, TypeOK
<1>2. /\ job' \in [Handlers -> Job \cup {None}] /\ job'[h] = k
      /\ \A g \in Handlers \ {h} : job'[g] = job[g]
  BY <1>1
<1>3. ASSUME NEW g \in Handlers \ {h}, job[g] # None
      PROVE  Shaped(job[g])'
  <2>1. Shaped(job[g])
    BY <1>3 DEF Typed
  <2>2. job'[g] = job[g]
    BY <1>2
  <2>3. job[g].began <= changes'
    <3>1. job[g].began \in Nat /\ changes \in Nat
      BY <1>3, JobAt DEF Job, Typed, TypeOK
    <3> QED  BY <2>1, <3>1 DEF Shaped
  <2> QED  BY <2>1, <2>2, <2>3 DEF Shaped
<1>4. ASSUME NEW g \in Handlers, job'[g] # None
      PROVE  Shaped(job[g])'
  <2>1. CASE g = h
    BY <1>2, <1>4, <2>1 DEF Shaped
  <2>2. CASE g # h
    BY <1>2, <1>3, <1>4, <2>2
  <2> QED  BY <2>1, <2>2
<1> QED  BY <1>2, <1>4

Elsewhere == <<bounds, stores, report, log, covers, sent>>

\* A step of a request that reads only.
LEMMA QuietTyped ==
    ASSUME Typed, NEW h \in Handlers, NEW k, job' = [job EXCEPT ![h] = k],
           k # None => k \in Job /\ Shaped(k)', UNCHANGED <<Elsewhere, pager>>
    PROVE  Typed'
<1>1. /\ job' \in [Handlers -> Job \cup {None}]
      /\ \A g \in Handlers : job'[g] # None => Shaped(job[g])'
  BY JobMoves DEF Elsewhere, stores
<1>2. TypeOK'
  BY <1>1 DEF Typed, TypeOK, Elsewhere, bounds, stores
<1> QED  BY <1>1, <1>2 DEF Typed, Elsewhere

\* The handler is done: its answer is not a page.
LEMMA EndsTyped ==
    ASSUME Typed, NEW h \in Handlers, job[h] # None, NEW result \in Results,
           result = 200 => job[h].op # "portfolio", Ends(h, result),
           UNCHANGED pager, changes' \in {changes, changes + 1}
    PROVE  \E k : job' = [job EXCEPT ![h] = k] /\ k \in Job /\ Shaped(k)'
<1>1. PICK k : k = [job[h] EXCEPT !.step = "record", !.result = result] /\ job' = [job EXCEPT ![h] = k]
  BY DEF Ends
<1>2. job[h] \in Job /\ Shaped(job[h])
  BY JobAt
<1>3. /\ k \in Job /\ k.step = "record" /\ k.result = result /\ k.op = job[h].op
      /\ k.answer = job[h].answer /\ k.principal = job[h].principal
      /\ k.began = job[h].began
  BY <1>1, <1>2 DEF Job
<1>4. k.began <= changes'
  BY <1>2, <1>3 DEF Shaped, Job, Typed, TypeOK
<1>5. Shaped(k)'
  BY <1>2, <1>3, <1>4 DEF Shaped
<1> QED  BY <1>1, <1>3, <1>5

LEMMA RefuseTyped ==
    ASSUME Typed, NEW h \in Handlers, Refuse(h) \/ Raise(h)
    PROVE  Typed'
<1>1. PICK result \in {401, 403, 500} : job[h] # None /\ Ends(h, result)
  BY DEF Refuse, Raise, At
<1>2. UNCHANGED <<Elsewhere, pager>>
  BY DEF Refuse, Raise, Elsewhere
<1>3. result \in Results /\ result # 200
  BY DEF Results
<1>4. \E k : job' = [job EXCEPT ![h] = k] /\ k \in Job /\ Shaped(k)'
  BY <1>1, <1>2, <1>3, EndsTyped DEF Elsewhere, stores
<1> QED  BY <1>2, <1>4, QuietTyped

LEMMA BeginTyped ==
    ASSUME Typed, NEW h \in Handlers, Begin(h)
    PROVE  Typed'
<1>1. PICK op \in scenario.serves[h], p \in scenario.askers :
          job' = [job EXCEPT ![h] = Asked(op, p)]
  BY DEF Begin
<1>2. PICK k : k = Asked(op, p)
  OBVIOUS
<1>3. op \in Ops /\ p \in Principals \cup {None}
  BY ConstantFacts DEF Typed, TypeOK, Scenario
<1>4. /\ FirstStep(op, p) \in {"refuse", "list_risks", "serve", "put", "page"}
      /\ FirstStep(op, p) = "list_risks" => op = "refresh"
      /\ FirstStep(op, p) = "serve" => op = "orphans" /\ p # None
      /\ FirstStep(op, p) = "put" => op = "create_risk" /\ p # None
      /\ FirstStep(op, p) = "page" => op = "portfolio"
  BY <1>3 DEF FirstStep, Ops
<1>5. k \in Job
  BY <1>2, <1>3, <1>4 DEF Asked, Job, NoRisks, NoTickets, Results, Typed, TypeOK
<1>6. Shaped(k)'
  BY <1>2, <1>3, <1>4 DEF Asked, Shaped, Begin, stores, Typed, TypeOK
<1>7. job' = [job EXCEPT ![h] = k] /\ UNCHANGED <<pager, changes, log>>
  BY <1>1, <1>2 DEF Begin, stores
<1>8. /\ job' \in [Handlers -> Job \cup {None}]
      /\ \A g \in Handlers : job'[g] # None => Shaped(job[g])'
  BY <1>5, <1>6, <1>7, JobMoves
<1>9. requests' \in 0..scenario.requests
  BY ConstantFacts DEF Begin, Typed, TypeOK, Scenario
<1>10. TypeOK'
  BY <1>8, <1>9 DEF Typed, TypeOK, Begin, bounds, stores
<1> QED  BY <1>7, <1>8, <1>10 DEF Typed

LEMMA ListTyped ==
    ASSUME Typed, NEW h \in Handlers, ListRisks(h) \/ ListTickets(h)
    PROVE  Typed'
<1>0. job[h] # None /\ job[h].step \in {"list_risks", "list_tickets"} /\ UNCHANGED <<Elsewhere, pager>>
  BY DEF ListRisks, ListTickets, At, Elsewhere
<1>1. job[h] \in Job /\ Shaped(job[h])
  BY <1>0, JobAt
<1>2. PICK k : /\ job' = [job EXCEPT ![h] = k]
               /\ \/ k = [job[h] EXCEPT !.risks = risk, !.step = "list_tickets"]
                  \/ k = [job[h] EXCEPT !.tickets = ticket, !.step = "publish"]
  BY ZenonT(30) DEF ListRisks, ListTickets
<1>3. k \in Job
  <2>1. risk \in [Risks -> Risk \cup {None}] /\ ticket \in [Tickets -> Ticket \cup {None}]
    BY DEF Typed, TypeOK
  <2> QED  BY <1>1, <1>2, <2>1 DEF Job
<1>4. k.step \in {"list_tickets", "publish"} /\ k.op = "refresh" /\ k.began <= changes
  BY <1>0, <1>1, <1>2 DEF Shaped, Job
<1>5. Shaped(k)'
  BY <1>0, <1>4 DEF Shaped, Elsewhere, stores
<1> QED  BY <1>0, <1>2, <1>3, <1>5, QuietTyped

LEMMA ServeTyped ==
    ASSUME Typed, NEW h \in Handlers, Serve(h)
    PROVE  Typed'
<1>0. job[h] # None /\ job[h].step = "serve" /\ UNCHANGED <<Elsewhere, pager>>
  BY DEF Serve, At, Elsewhere
<1>1. job[h] \in Job /\ Shaped(job[h])
  BY <1>0, JobAt
<1> DEFINE shown(map) == [s \in Spaces |-> IF CanWrite(job[h].principal, s) THEN map[s] ELSE {}]
<1>2. PICK a : a = IF report = None THEN None
                   ELSE [report EXCEPT !.resources = shown(@), !.tickets = shown(@)]
  OBVIOUS
<1>3. a \in Report \cup {None}
  BY <1>2 DEF Report, Typed, TypeOK
<1>4. PICK k : /\ job' = [job EXCEPT ![h] = k]
               /\ k = [job[h] EXCEPT !.answer = a, !.step = "record", !.result = 200]
  <2>1. PICK b : /\ b = IF report = None THEN None
                        ELSE [report EXCEPT !.resources = shown(@), !.tickets = shown(@)]
                 /\ job' = [job EXCEPT ![h].answer = b, ![h].step = "record", ![h].result = 200]
    BY DEF Serve
  <2>2. b = a
    BY <1>2, <2>1
  <2> HIDE DEF shown
  <2> QED  BY <2>1, <2>2, ZenonT(30)
<1>5. k \in Job
  <2>1. a \in Report \cup Listing \cup {None} /\ 200 \in Results
    BY <1>3 DEF Results
  <2> HIDE DEF shown
  <2> QED  BY <1>1, <1>4, <2>1, ZenonT(30) DEF Job
<1>6. /\ k.step = "record" /\ k.op = "orphans" /\ k.answer = a /\ k.principal \in Principals
      /\ k.began <= changes
  BY <1>0, <1>1, <1>4 DEF Shaped, Job
<1>7. Shaped(k)'
  BY <1>0, <1>3, <1>6 DEF Shaped, Elsewhere, stores
<1> QED  BY <1>0, <1>4, <1>5, <1>7, QuietTyped

\* What a step of thread h that ends with job k has left to show.
LEMMA JobTyped ==
    ASSUME Typed, NEW h \in Handlers, NEW k, job' = [job EXCEPT ![h] = k],
           k # None => k \in Job /\ Shaped(k)', pager # None => pager' # None,
           changes' \in {changes, changes + 1},
           scenario' = scenario, config' \in Configs,
           risk' \in [Risks -> Risk \cup {None}], ticket' \in [Tickets -> Ticket \cup {None}],
           groups' \subseteq Groups, report' = None \/ report' \in Report,
           \A n \in DOMAIN log' : log'[n].event \in Event, log' \in Seq(Elements(log')),
           pager' = None \/ pager' \in Pager, requests' = requests, restarts' = restarts,
           touched' \in [Items -> 0..changes'], covers' \in 0..changes', sent' \in [Event -> Nat]
    PROVE  Typed'
<1>1. /\ job' \in [Handlers -> Job \cup {None}]
      /\ \A g \in Handlers : job'[g] # None => Shaped(job[g])'
  BY JobMoves
<1>2. (log \in Seq(Elements(log)))'
  BY DEF Elements
<1>3. changes' \in Nat
  BY DEF Typed, TypeOK
<1>4. TypeOK'
  BY <1>1, <1>3 DEF Typed, TypeOK
<1> QED  BY <1>1, <1>2, <1>4 DEF Typed

LEMMA PutTyped ==
    ASSUME Typed, NEW h \in Handlers, PutRisk(h)
    PROVE  Typed'
<1>0. job[h] # None /\ job[h].step = "put" /\ UNCHANGED <<bounds, config, ticket, groups, report, log, pager, covers, sent>>
  BY DEF PutRisk, At
<1>1. job[h] \in Job /\ Shaped(job[h]) /\ job[h].op = "create_risk" /\ job[h].principal \in Principals
  BY <1>0, JobAt DEF Shaped
<1>2. PICK result \in {200, 403, 409} : Ends(h, result)
  BY DEF PutRisk
<1>3. \/ UNCHANGED <<risk, touched, changes>>
      \/ \E r \in Risks, s \in Spaces :
             /\ risk' = [risk EXCEPT ![r] = [space |-> s, owner |-> job[h].principal, closed |-> FALSE]]
             /\ touched' = [touched EXCEPT ![r] = changes + 1]
             /\ changes' = changes + 1
  BY DEF PutRisk
<1>4. /\ changes' \in {changes, changes + 1}
      /\ risk' \in [Risks -> Risk \cup {None}] /\ touched' \in [Items -> 0..changes']
      /\ covers' \in 0..changes'
  <2>1. /\ changes \in Nat /\ risk \in [Risks -> Risk \cup {None}] /\ touched \in [Items -> 0..changes]
        /\ covers \in 0..changes
    BY DEF Typed, TypeOK
  <2>2. CASE UNCHANGED <<risk, touched, changes>>
    BY <1>0, <2>1, <2>2
  <2>3. ASSUME NEW r \in Risks, NEW s \in Spaces,
               risk' = [risk EXCEPT ![r] = [space |-> s, owner |-> job[h].principal, closed |-> FALSE]],
               touched' = [touched EXCEPT ![r] = changes + 1], changes' = changes + 1
        PROVE  <1>4!1 /\ <1>4!2 /\ <1>4!3
    <3>1. [space |-> s, owner |-> job[h].principal, closed |-> FALSE] \in Risk
      BY <1>1 DEF Risk
    <3>2. risk' \in [Risks -> Risk \cup {None}]
      BY <2>1, <2>3, <3>1
    <3>3. touched \in [Items -> 0..(changes + 1)] /\ changes + 1 \in 0..(changes + 1)
      BY <2>1
    <3>4. touched' \in [Items -> 0..changes']
      BY <2>3, <3>3
    <3> QED  BY <1>0, <2>1, <2>3, <3>2, <3>4
  <2> QED  BY <1>3, <2>2, <2>3
<1>5. PICK k : job' = [job EXCEPT ![h] = k] /\ k \in Job /\ Shaped(k)'
  BY <1>0, <1>1, <1>2, <1>4, EndsTyped DEF Results
<1>6. (\A n \in DOMAIN log' : log'[n].event \in Event) /\ log' \in Seq(Elements(log'))
  BY <1>0 DEF Typed, TypeOK
<1>7. /\ ticket' \in [Tickets -> Ticket \cup {None}] /\ groups' \subseteq Groups /\ config' \in Configs
      /\ report' = None \/ report' \in Report
      /\ pager' = None \/ pager' \in Pager
      /\ sent' \in [Event -> Nat] /\ pager' = pager
      /\ scenario' = scenario /\ requests' = requests /\ restarts' = restarts
  BY <1>0 DEF Typed, TypeOK, bounds
<1> QED  BY <1>4, <1>5, <1>6, <1>7, JobTyped

LEMMA PublishTyped ==
    ASSUME Typed, NEW h \in Handlers, Publish(h)
    PROVE  Typed'
<1>0. job[h] # None /\ job[h].step = "publish" /\ UNCHANGED <<bounds, stores, log, pager, sent>>
  BY DEF Publish, At
<1>1. job[h] \in Job /\ Shaped(job[h]) /\ job[h].op = "refresh" /\ job[h].began \in 0..changes
  BY <1>0, JobAt DEF Shaped, Job, Typed, TypeOK
<1>2. PICK k : /\ job' = [job EXCEPT ![h] = k]
               /\ k = [job[h] EXCEPT !.risks = NoRisks, !.tickets = NoTickets, !.step = "record", !.result = 200]
  BY DEF Publish
<1>3. NoRisks \in [Risks -> Risk \cup {None}] /\ NoTickets \in [Tickets -> Ticket \cup {None}] /\ 200 \in Results
  BY DEF NoRisks, NoTickets, Results
<1>4. k \in Job /\ k.op = "refresh" /\ k.step = "record" /\ k.began = job[h].began
  BY <1>1, <1>2, <1>3 DEF Job
<1>5. Shaped(k)'
  BY <1>0, <1>1, <1>4 DEF Shaped, stores, Typed, TypeOK
<1>6. report' \in Report
  BY <1>1 DEF Publish, Report, Job
<1>7. covers' \in 0..changes
  BY <1>1 DEF Publish, Typed, TypeOK
<1> QED  BY <1>0, <1>2, <1>4, <1>5, <1>6, <1>7, JobTyped DEF Typed, TypeOK, bounds, stores

LEMMA RecordTyped ==
    ASSUME Typed, NEW h \in Handlers, Record(h)
    PROVE  Typed'
<1>0. job[h] # None /\ job[h].step = "record" /\ UNCHANGED <<bounds, stores, report, pager, covers, sent>>
  BY DEF Record, At
<1>1. job[h] \in Job /\ Shaped(job[h]) /\ EventOf(h) \in Event
  BY <1>0, JobAt
<1>2. PICK k : job' = [job EXCEPT ![h] = k] /\ k = [job[h] EXCEPT !.step = "send"]
  BY DEF Record
<1>3. /\ k \in Job /\ k.step = "send" /\ k.op = job[h].op /\ k.result = job[h].result
      /\ k.answer = job[h].answer /\ k.principal = job[h].principal /\ k.began = job[h].began
  BY <1>1, <1>2 DEF Job
<1>4. Shaped(k)'
  BY <1>0, <1>1, <1>3 DEF Shaped, stores
<1>5. Entry(log, EventOf(h)).event = EventOf(h) /\ log' = Append(log, Entry(log, EventOf(h)))
  BY DEF Record, Entry
<1>6. (\A n \in DOMAIN log' : log'[n].event \in Event) /\ log' \in Seq(Elements(log'))
  <2>1. PICK x : x = Entry(log, EventOf(h))
    OBVIOUS
  <2>2. log \in Seq(Elements(log)) /\ \A n \in DOMAIN log : log[n].event \in Event
    BY DEF Typed, TypeOK
  <2>3. /\ log' \in Seq(Elements(log')) /\ DOMAIN log' = 1..(Len(log) + 1) /\ DOMAIN log = 1..Len(log)
        /\ Len(log) \in Nat /\ log'[Len(log) + 1] = x /\ \A n \in 1..Len(log) : log'[n] = log[n]
    BY <1>5, <2>1, <2>2, AppendIs
  <2>4. ASSUME NEW n \in 1..(Len(log) + 1)  PROVE log'[n].event \in Event
    <3>1. n = Len(log) + 1 \/ n \in 1..Len(log)
      BY <2>3
    <3> QED  BY <1>1, <1>5, <2>1, <2>2, <2>3, <3>1
  <2> QED  BY <2>3, <2>4
<1> QED  BY <1>0, <1>2, <1>3, <1>4, <1>6, JobTyped DEF Typed, TypeOK, bounds, stores

\* A page shows what it says of what Viewer can see.
LEMMA PageIs ==
    ASSUME NEW cursor \in 0..Len(Epics)
    PROVE  /\ NextCursor(cursor, Len(Visible)) \in 0..Len(Epics) \cup {None}
           /\ PageAt(cursor, Len(Visible)) \in Seq(DOMAIN GroupOf)
<1>1. Len(Visible) \in 0..Len(Epics) /\ DOMAIN Visible = 1..Len(Visible) /\ Visible \in Seq(DOMAIN GroupOf)
  BY VisibleIs
<1>2. cursor \in Nat /\ Limit \in Nat \ {0} /\ Len(Visible) \in Nat /\ Len(Epics) \in Nat
  BY <1>1, IndexFacts, ConstantFacts
<1>3. NextCursor(cursor, Len(Visible)) \in 0..Len(Epics) \cup {None}
  BY <1>1, <1>2 DEF NextCursor
<1>4. PICK hi : hi = IF cursor + Limit < Len(Visible) THEN cursor + Limit ELSE Len(Visible)
  OBVIOUS
<1>5. hi \in Int /\ \A i \in (cursor + 1)..hi : Visible[i] \in DOMAIN GroupOf
  <2>1. hi \in 0..Len(Visible)
    BY <1>2, <1>4
  <2>2. \A i \in (cursor + 1)..hi : i \in 1..Len(Visible)
    BY <1>2, <2>1
  <2> QED  BY <1>1, <2>1, <2>2, ElementOfSeq
<1>6. SubSeq(Visible, cursor + 1, hi) \in Seq(DOMAIN GroupOf)
  BY <1>2, <1>5, SubSeqProperties
<1> QED  BY <1>3, <1>4, <1>6 DEF PageAt

LEMMA PageTyped ==
    ASSUME Typed, NEW h \in Handlers, Page(h)
    PROVE  Typed'
<1>0. job[h] # None /\ job[h].step = "page" /\ UNCHANGED <<bounds, stores, report, log, covers, sent>>
  BY DEF Page, At
<1>1. job[h] \in Job /\ Shaped(job[h])
  BY <1>0, JobAt
<1> DEFINE first == pager = None \/ pager.cursor = None
<1>2. PICK cursor : cursor = IF first THEN 0 ELSE pager.cursor
  OBVIOUS
<1>3. cursor \in 0..Len(Epics) /\ (pager = None \/ pager \in Pager)
  BY <1>2, IndexFacts DEF Typed, TypeOK, Pager
<1>4. PICK a : a = [page |-> PageAt(cursor, Len(Visible)), count |-> Len(Visible),
                    cursor |-> NextCursor(cursor, Len(Visible))]
  OBVIOUS
<1>5. a \in Listing
  BY <1>3, <1>4, PageIs, VisibleIs DEF Listing
<1>6. PICK k : job' = [job EXCEPT ![h] = k] /\ k = [job[h] EXCEPT !.answer = a, !.step = "record", !.result = 200]
  <2>1. PICK b : /\ b = [page |-> PageAt(IF first THEN 0 ELSE pager.cursor, Len(Visible)), count |-> Len(Visible),
                         cursor |-> NextCursor(IF first THEN 0 ELSE pager.cursor, Len(Visible))]
                 /\ job' = [job EXCEPT ![h].answer = b, ![h].step = "record", ![h].result = 200]
    BY DEF Page
  <2>2. b = a
    BY <1>2, <1>4, <2>1
  <2> QED  BY <2>1, <2>2
<1>7. pager' = IF first THEN [cursor |-> 0, got |-> <<>>, count |-> Len(Visible), all |-> Visible,
                              lost |-> {}, gained |-> FALSE]
               ELSE pager
  BY DEF Page
<1>8. pager' \in Pager
  <2>1. [cursor |-> 0, got |-> <<>>, count |-> Len(Visible), all |-> Visible,
         lost |-> {}, gained |-> FALSE] \in Pager
    BY VisibleIs, IndexFacts, EmptySeq DEF Pager
  <2> QED  BY <1>3, <1>7, <2>1
<1>9. pager' # None
  BY <1>8, ConstantFacts
<1>10. /\ k \in Job /\ k.op = job[h].op /\ k.step = "record" /\ k.began = job[h].began
       /\ k.answer = a
  <2>1. a \in Report \cup Listing \cup {None} /\ 200 \in Results
    BY <1>5 DEF Results
  <2> HIDE DEF first
  <2> QED  BY <1>1, <1>6, <2>1, ZenonT(30) DEF Job
<1>11. Shaped(k)'
  BY <1>0, <1>1, <1>5, <1>9, <1>10 DEF Shaped, stores
<1> HIDE DEF first
<1> QED  BY <1>0, <1>6, <1>8, <1>9, <1>10, <1>11, JobTyped DEF Typed, TypeOK, bounds, stores

LEMMA SendTyped ==
    ASSUME Typed, NEW h \in Handlers, Send(h)
    PROVE  Typed'
<1>0. /\ job[h] # None /\ job[h].step = "send" /\ UNCHANGED <<bounds, stores, report, log, covers>>
      /\ job' = [job EXCEPT ![h] = None] /\ sent' = [sent EXCEPT ![EventOf(h)] = @ + 1]
      /\ \/ UNCHANGED pager
         \/ job[h].op = "portfolio" /\ job[h].result = 200 /\ Turn(job[h].answer)
  BY DEF Send, At
<1>1. job[h] \in Job /\ Shaped(job[h]) /\ EventOf(h) \in Event
  BY <1>0, JobAt
<1>2. sent' \in [Event -> Nat]
  <2>1. sent \in [Event -> Nat]
    BY DEF Typed, TypeOK
  <2>2. sent[EventOf(h)] + 1 \in Nat
    BY <1>1, <2>1
  <2> QED  BY <1>0, <2>1, <2>2
<1>3. (pager' = None \/ pager' \in Pager) /\ (pager # None => pager' # None)
  <2>1. CASE UNCHANGED pager
    BY <2>1 DEF Typed, TypeOK
  <2>2. CASE job[h].op = "portfolio" /\ job[h].result = 200 /\ Turn(job[h].answer)
    <3>1. pager \in Pager /\ job[h].answer \in Listing
      BY <1>1, <2>2 DEF Shaped, Typed, TypeOK
    <3>2. PICK got : got = pager.got \o job[h].answer.page
      OBVIOUS
    <3>3. got \in Seq(DOMAIN GroupOf)
      BY <3>1, <3>2, ConcatProperties DEF Pager, Listing
    <3>4. pager' = [pager EXCEPT !.got = got, !.count = job[h].answer.count, !.cursor = job[h].answer.cursor]
      BY <2>2, <3>2 DEF Turn
    <3>5. pager' \in Pager
      BY <3>1, <3>3, <3>4 DEF Pager, Listing
    <3> QED  BY <3>5, ConstantFacts
  <2> QED  BY <1>0, <2>1, <2>2
<1> QED  BY <1>0, <1>2, <1>3, JobTyped DEF Typed, TypeOK, bounds, stores

\* Something changes beside the requests.
LEMMA BesideTyped ==
    ASSUME Typed, job' = job, changes' = changes + 1, pager # None => pager' # None,
           pager' = None \/ pager' \in Pager,
           risk' \in [Risks -> Risk \cup {None}], ticket' \in [Tickets -> Ticket \cup {None}],
           groups' \subseteq Groups, touched' \in [Items -> 0..changes'],
           UNCHANGED <<bounds, config, report, log, covers, sent>>
    PROVE  Typed'
<1>1. changes \in Nat /\ changes' \in Nat /\ covers' \in 0..changes'
  BY DEF Typed, TypeOK
<1>2. TypeOK' /\ (log \in Seq(Elements(log)))'
  BY <1>1 DEF Typed, TypeOK, bounds, Elements
<1>3. ASSUME NEW h \in Handlers, job'[h] # None
      PROVE  Shaped(job[h])'
  <2>1. Shaped(job[h]) /\ job[h].began \in Nat
    BY <1>3, JobAt DEF Job
  <2>2. job[h].began <= changes'
    BY <1>1, <2>1 DEF Shaped
  <2> QED  BY <2>1, <2>2 DEF Shaped
<1> QED  BY <1>2, <1>3 DEF Typed

LEMMA RewriteTyped ==
    ASSUME Typed, NEW i \in Items, Rewrite(i)
    PROVE  Typed'
<1>1. /\ changes \in Nat /\ risk \in [Risks -> Risk \cup {None}] /\ ticket \in [Tickets -> Ticket \cup {None}]
      /\ touched \in [Items -> 0..changes] /\ groups \subseteq Groups /\ (pager = None \/ pager \in Pager)
  BY DEF Typed, TypeOK
<1>2. /\ changes' = changes + 1 /\ touched' = [touched EXCEPT ![i] = changes + 1]
      /\ UNCHANGED <<bounds, config, groups, report, log, pager, job, covers, sent>>
  BY DEF Rewrite, Changes
<1>3. risk' \in [Risks -> Risk \cup {None}] /\ ticket' \in [Tickets -> Ticket \cup {None}]
  BY <1>1 DEF Rewrite
<1>4. touched' \in [Items -> 0..changes']
  <2>1. touched \in [Items -> 0..(changes + 1)] /\ changes + 1 \in 0..(changes + 1)
    BY <1>1
  <2> QED  BY <1>2, <2>1
<1> QED  BY <1>1, <1>2, <1>3, <1>4, BesideTyped

LEMMA RegroupTyped ==
    ASSUME Typed, NEW g \in Groups, Regroup(g)
    PROVE  Typed'
<1>1. /\ changes \in Nat /\ risk \in [Risks -> Risk \cup {None}] /\ ticket \in [Tickets -> Ticket \cup {None}]
      /\ touched \in [Items -> 0..changes] /\ groups \subseteq Groups /\ (pager = None \/ pager \in Pager)
  BY DEF Typed, TypeOK
<1>2. /\ changes' = changes + 1 /\ touched' = touched
      /\ UNCHANGED <<bounds, config, risk, ticket, report, log, job, covers, sent>>
  BY DEF Regroup, Changes
<1>3. groups' \subseteq Groups
  BY <1>1 DEF Regroup
<1>4. (pager' = None \/ pager' \in Pager) /\ (pager # None => pager' # None)
  <2>1. CASE pager = None
    BY <2>1 DEF Regroup
  <2>2. CASE pager # None
    <3>1. PICK lost : lost = pager.lost \cup {g}
      OBVIOUS
    <3>2. lost \in SUBSET Groups
      BY <1>1, <2>2, <3>1 DEF Pager
    <3>3. pager' = [pager EXCEPT !.lost = lost] \/ pager' = [pager EXCEPT !.gained = TRUE]
      BY <2>2, <3>1 DEF Regroup
    <3>4. pager' \in Pager
      BY <1>1, <2>2, <3>2, <3>3 DEF Pager
    <3> QED  BY <3>4, ConstantFacts
  <2> QED  BY <2>1, <2>2
<1>5. touched' \in [Items -> 0..changes']
  BY <1>1, <1>2
<1> QED  BY <1>1, <1>2, <1>3, <1>4, <1>5, BesideTyped

LEMMA RestartTyped ==
    ASSUME Typed, Restart
    PROVE  Typed'
<1>1. /\ changes' \in Nat /\ restarts' \in 0..scenario.restarts
      /\ covers' \in 0..changes' /\ sent' \in [Event -> Nat]
  BY ConstantFacts DEF Restart, InitialProcess, Typed, TypeOK, Scenario
<1>2. /\ job' \in [Handlers -> Job \cup {None}] /\ \A h \in Handlers : job'[h] = None
      /\ report' = None /\ pager' = None /\ log' = <<>> /\ config' \in Configs
  BY DEF Restart, InitialProcess
<1>3. TypeOK' /\ (log \in Seq(Elements(log)))'
  BY <1>1, <1>2, EmptySeq DEF Restart, Typed, TypeOK
<1> QED  BY <1>2, <1>3 DEF Typed

LEMMA IdleTyped ==
    ASSUME Typed, UNCHANGED vars
    PROVE  Typed'
<1>1. TypeOK'
  BY DEF Typed, TypeOK, vars, bounds, stores
<1>2. (log \in Seq(Elements(log)))'
  BY DEF Typed, vars, Elements
<1>3. \A h \in Handlers : job'[h] # None => Shaped(job[h])'
  BY DEF Typed, Shaped, vars, stores
<1> QED  BY <1>1, <1>2, <1>3 DEF Typed

LEMMA NextTyped == Typed /\ [Next]_vars => Typed'
<1> SUFFICES ASSUME Typed, [Next]_vars  PROVE Typed'
  OBVIOUS
<1>1. CASE \E i \in Items : Rewrite(i)
  BY <1>1, RewriteTyped
<1>2. CASE \E g \in Groups : Regroup(g)
  BY <1>2, RegroupTyped
<1>3. CASE Restart
  BY <1>3, RestartTyped
<1>4. ASSUME NEW h \in Handlers,
             \/ Begin(h) \/ Refuse(h) \/ Raise(h) \/ PutRisk(h)
             \/ ListRisks(h) \/ ListTickets(h) \/ Publish(h) \/ Serve(h)
             \/ Page(h) \/ Record(h) \/ Send(h)
      PROVE  Typed'
  BY <1>4, BeginTyped, RefuseTyped, PutTyped, ListTyped, PublishTyped, ServeTyped, PageTyped,
     RecordTyped, SendTyped
<1>5. CASE Idle \/ UNCHANGED vars
  BY <1>5, IdleTyped DEF Idle
<1> QED  BY <1>1, <1>2, <1>3, <1>4, <1>5 DEF Next

LEMMA TypedAlways == Spec => []Typed
<1>1. Typed /\ [Next]_vars => Typed'
  BY NextTyped
<1> QED  BY InitTyped, <1>1, PTL DEF Spec

\* The stores, the report, the log, the client and the requests keep their types.
THEOREM TypeCorrect == Spec => []TypeOK
<1>1. Typed => TypeOK
  BY DEF Typed
<1> QED  BY TypedAlways, <1>1, PTL
-----------------------------------------------------------------------------
(* The report. *)

\* What may happen to an item in a step of one process.
Moves ==
    /\ config' = config /\ changes' \in {changes, changes + 1}
    /\ \A i \in Items :
           \/ touched'[i] = changes + 1
           \/ /\ touched'[i] = touched[i]
              /\ i \in Risks => risk'[i] = risk[i]
              /\ i \in Tickets => ticket'[i] = ticket[i]

LEMMA OrphanedStays ==
    ASSUME NEW i \in Items, config' = config,
           i \in Risks => risk'[i] = risk[i], i \in Tickets => ticket'[i] = ticket[i]
    PROVE  (Orphaned(i)' <=> Orphaned(i)) /\ SpaceOf(i)' = SpaceOf(i)
<1>1. CASE i \in Risks
  BY <1>1 DEF Orphaned, SpaceOf
<1>2. CASE i \notin Risks
  BY <1>2 DEF Orphaned, SpaceOf, Items
<1> QED  BY <1>1, <1>2

LEMMA TellsStays ==
    ASSUME Typed, Moves, NEW rep, NEW S, rep.began \in Nat, Tells(rep, S)
    PROVE  Tells(rep, S)'
<1>1. changes \in Nat /\ rep.began <= changes /\ changes' \in {changes, changes + 1}
  BY DEF Typed, TypeOK, Tells, Moves
<1>2. ASSUME NEW i \in Items, touched'[i] <= rep.began, NEW s \in Spaces
      PROVE  i \in rep.resources[s] \cup rep.tickets[s] <=> Orphaned(i)' /\ SpaceOf(i)' = s /\ s \in S
  <2>1. touched'[i] # changes + 1
    BY <1>1, <1>2
  <2>2. /\ touched'[i] = touched[i]
        /\ i \in Risks => risk'[i] = risk[i]
        /\ i \in Tickets => ticket'[i] = ticket[i]
    BY <2>1 DEF Moves
  <2>3. (Orphaned(i)' <=> Orphaned(i)) /\ SpaceOf(i)' = SpaceOf(i)
    BY <2>2, OrphanedStays DEF Moves
  <2> QED  BY <1>2, <2>2, <2>3 DEF Tells
<1>3. rep.began <= changes'
  BY <1>1
<1> QED  BY <1>2, <1>3 DEF Tells

LEMMA ListsStays ==
    ASSUME Typed, Moves, NEW j, j.began \in Nat, j.began <= changes, Lists(j)
    PROVE  Lists(j)'
<1>1. changes \in Nat
  BY DEF Typed, TypeOK
<1>2. ASSUME NEW i \in Items, touched'[i] <= j.began
      PROVE  /\ touched[i] <= j.began
             /\ i \in Risks => risk'[i] = risk[i]
             /\ i \in Tickets => ticket'[i] = ticket[i]
  <2>1. touched'[i] # changes + 1
    BY <1>1, <1>2
  <2> QED  BY <1>2, <2>1 DEF Moves
<1> QED  BY <1>2 DEF Lists, Items

LEMMA AnswerStays ==
    ASSUME Typed, Moves, NEW j, j.op = "orphans" /\ j.answer # None => j.answer.began \in Nat, AnswerTells(j)
    PROVE  AnswerTells(j)'
<1>1. PICK S : S = config.writable[j.principal]
  OBVIOUS
<1>2. config'.writable[j.principal] = S
  BY <1>1 DEF Moves
<1>3. PICK a : a = j.answer
  OBVIOUS
<1>4. ASSUME j.op = "orphans", a # None
      PROVE  Tells(a, S)'
  <2>1. Tells(a, S) /\ a.began \in Nat
    BY <1>1, <1>3, <1>4 DEF AnswerTells
  <2> QED  BY <2>1, TellsStays
<1> QED  BY <1>3, <1>2, <1>4 DEF AnswerTells, Tells

LEMMA ToldStays ==
    ASSUME Typed, ReportSound, Moves, report' = report
    PROVE  report' # None => Tells(report, Spaces)'
<1>1. PICK rep : rep = report
  OBVIOUS
<1>2. rep # None => Tells(rep, Spaces) /\ rep.began \in Nat
  BY <1>1 DEF ReportSound, Typed, TypeOK, Report
<1>3. rep # None => Tells(rep, Spaces)'
  BY <1>2, TellsStays
<1> QED  BY <1>1, <1>3 DEF Tells

LEMMA JobStays ==
    ASSUME Typed, ReportSound, Moves, NEW g \in Handlers, job'[g] = job[g], job[g] # None
    PROVE  Lists(job[g])' /\ AnswerTells(job[g])'
<1>1. PICK j : j = job[g]
  OBVIOUS
<1>2. j \in Job /\ Shaped(j) /\ Lists(j) /\ AnswerTells(j)
  BY <1>1, JobAt DEF ReportSound
<1>3. j.began \in Nat /\ j.began <= changes
  BY <1>2 DEF Job, Shaped
<1>4. j.op = "orphans" /\ j.answer # None => j.answer.began \in Nat
  BY <1>2 DEF Shaped, Report
<1>5. Lists(j)' /\ AnswerTells(j)'
  BY <1>2, <1>3, <1>4, ListsStays, AnswerStays
<1> QED  BY <1>1, <1>5 DEF Lists, AnswerTells, Tells

\* A step that gives thread h the job k, which lists and tells what is there.
LEMMA ReportStays ==
    ASSUME Typed, ReportSound, Moves, NEW h \in Handlers, NEW k, job' = [job EXCEPT ![h] = k],
           k # None => Lists(k)' /\ AnswerTells(k)',
           report' = report \/ Tells(report, Spaces)'
    PROVE  ReportSound'
<1>1. report' # None => Tells(report, Spaces)'
  BY ToldStays
<1>2. ASSUME NEW g \in Handlers, job'[g] # None
      PROVE  Lists(job[g])' /\ AnswerTells(job[g])'
  <2>1. CASE g = h
    <3>1. job'[g] = k
      BY <2>1 DEF Typed, TypeOK
    <3> QED  BY <1>2, <3>1 DEF Lists, AnswerTells, Tells
  <2>2. CASE g # h
    <3>1. job'[g] = job[g]
      BY <2>2 DEF Typed, TypeOK
    <3> QED  BY <1>2, <3>1, JobStays
  <2> QED  BY <2>1, <2>2
<1> QED  BY <1>1, <1>2 DEF ReportSound

\* A step beside the requests.
LEMMA BesideReport ==
    ASSUME Typed, ReportSound, Moves, job' = job, report' = report
    PROVE  ReportSound'
<1>1. report' # None => Tells(report, Spaces)'
  BY ToldStays
<1>2. \A g \in Handlers : job'[g] # None => Lists(job[g])' /\ AnswerTells(job[g])'
  BY JobStays
<1> QED  BY <1>1, <1>2 DEF ReportSound

LEMMA StillMoves ==
    ASSUME Typed, UNCHANGED stores
    PROVE  Moves
BY DEF Moves, stores

LEMMA InitReport == Init => ReportSound
BY DEF Init, ReportSound

LEMMA EndsTells ==
    ASSUME Typed, ReportSound, Moves, NEW h \in Handlers, job[h] # None, NEW result,
           Ends(h, result), report' = report
    PROVE  ReportSound'
<1>1. PICK k : k = [job[h] EXCEPT !.step = "record", !.result = result] /\ job' = [job EXCEPT ![h] = k]
  BY DEF Ends
<1>2. PICK j : j = job[h]
  OBVIOUS
<1>3. j \in Job /\ Shaped(j) /\ AnswerTells(j)
  BY <1>2, JobAt DEF ReportSound
<1>4. k.step = "record" /\ k.op = j.op /\ k.answer = j.answer /\ k.principal = j.principal
  BY <1>1, <1>2, <1>3 DEF Job
<1>5. AnswerTells(j)'
  BY <1>3, AnswerStays DEF Shaped, Report
<1>6. Lists(k)' /\ AnswerTells(k)'
  BY <1>4, <1>5 DEF Lists, AnswerTells
<1> QED  BY <1>1, <1>6, ReportStays

LEMMA RefuseReport ==
    ASSUME Typed, ReportSound, NEW h \in Handlers, Refuse(h) \/ Raise(h)
    PROVE  ReportSound'
<1>1. PICK result \in {401, 403, 500} : job[h] # None /\ Ends(h, result)
  BY DEF Refuse, Raise, At
<1>2. UNCHANGED stores /\ report' = report
  BY DEF Refuse, Raise
<1> QED  BY <1>1, <1>2, StillMoves, EndsTells

LEMMA PutReport ==
    ASSUME Typed, ReportSound, NEW h \in Handlers, PutRisk(h)
    PROVE  ReportSound'
<1>1. PICK result \in {200, 403, 409} : job[h] # None /\ Ends(h, result)
  BY DEF PutRisk, At
<1>2. /\ config' = config /\ ticket' = ticket /\ report' = report
      /\ \/ UNCHANGED <<risk, touched, changes>>
         \/ \E r \in Risks : \E x :
                /\ risk' = [risk EXCEPT ![r] = x]
                /\ touched' = [touched EXCEPT ![r] = changes + 1]
                /\ changes' = changes + 1
  BY DEF PutRisk
<1>3. Moves
  <2>1. risk \in [Risks -> Risk \cup {None}] /\ touched \in [Items -> 0..changes]
    BY DEF Typed, TypeOK
  <2>2. CASE UNCHANGED <<risk, touched, changes>>
    BY <1>2, <2>2 DEF Moves
  <2>3. ASSUME NEW r \in Risks, NEW x,
               risk' = [risk EXCEPT ![r] = x], touched' = [touched EXCEPT ![r] = changes + 1],
               changes' = changes + 1
        PROVE  Moves
    <3>1. ASSUME NEW i \in Items  PROVE Moves!2!(i)
      <4>1. CASE i = r
        BY <2>1, <2>3, <4>1
      <4>2. CASE i # r
        BY <1>2, <2>1, <2>3, <4>2
      <4> QED  BY <4>1, <4>2
    <3> QED  BY <1>2, <2>3, <3>1 DEF Moves
  <2> QED  BY <1>2, <2>2, <2>3
<1> QED  BY <1>1, <1>2, <1>3, EndsTells

LEMMA BeginReport ==
    ASSUME Typed, ReportSound, NEW h \in Handlers, Begin(h)
    PROVE  ReportSound'
<1>1. PICK op \in scenario.serves[h], p \in scenario.askers :
          job' = [job EXCEPT ![h] = Asked(op, p)]
  BY DEF Begin
<1>2. PICK k : k = Asked(op, p)
  OBVIOUS
<1>3. op \in Ops /\ UNCHANGED stores /\ report' = report
  BY ConstantFacts DEF Begin, Typed, TypeOK, Scenario
<1>4. k.step \notin {"list_tickets", "publish"} /\ k.answer = None
  BY <1>2, <1>3 DEF Asked, FirstStep, Ops
<1>5. Lists(k)' /\ AnswerTells(k)'
  BY <1>4 DEF Lists, AnswerTells
<1> QED  BY <1>1, <1>2, <1>3, <1>5, StillMoves, ReportStays

LEMMA ListReport ==
    ASSUME Typed, ReportSound, NEW h \in Handlers, ListRisks(h) \/ ListTickets(h)
    PROVE  ReportSound'
<1>0. /\ job[h] # None /\ job[h].step \in {"list_risks", "list_tickets"}
      /\ UNCHANGED stores /\ report' = report
  BY DEF ListRisks, ListTickets, At
<1>1. job[h] \in Job /\ Shaped(job[h]) /\ Lists(job[h])
  BY <1>0, JobAt DEF ReportSound
<1>2. PICK k : /\ job' = [job EXCEPT ![h] = k]
               /\ \/ k = [job[h] EXCEPT !.risks = risk, !.step = "list_tickets"]
                  \/ job[h].step = "list_tickets" /\ k = [job[h] EXCEPT !.tickets = ticket, !.step = "publish"]
  BY ZenonT(30) DEF ListRisks, ListTickets, At
<1>3. /\ k.op = job[h].op /\ k.began = job[h].began
      /\ \/ k.step = "list_tickets" /\ k.risks = risk
         \/ k.step = "publish" /\ job[h].step = "list_tickets" /\ k.risks = job[h].risks /\ k.tickets = ticket
  BY <1>1, <1>2 DEF Job
<1>4. k.op = "refresh"
  BY <1>0, <1>1, <1>3 DEF Shaped
<1>5. Lists(k)' /\ AnswerTells(k)'
  BY <1>0, <1>1, <1>3, <1>4 DEF Lists, AnswerTells, stores
<1> QED  BY <1>0, <1>2, <1>5, StillMoves, ReportStays

\* What detect_orphans flags of what is there are the orphans.
LEMMA FlagsOrphans ==
    ASSUME Typed
    PROVE  /\ \A r \in Risks : RiskFlagged(risk[r]) <=> Orphaned(r)
           /\ \A t \in Tickets : TicketFlagged(ticket[t]) <=> Orphaned(t)
<1>0. config \in Config
  BY ConstantFacts DEF Typed, TypeOK
<1>1. ASSUME NEW r \in Risks  PROVE RiskFlagged(risk[r]) <=> Orphaned(r)
  <2>1. risk[r] \in Risk \cup {None}
    BY DEF Typed, TypeOK
  <2>2. CASE risk[r] = None
    BY <2>2, ConstantFacts DEF RiskFlagged, Orphaned
  <2>3. CASE risk[r] \in Risk
    <3>1. risk[r] # None /\ risk[r].space \in Spaces /\ risk[r].owner \in Principals \cup {None}
      BY <2>3, ConstantFacts DEF Risk
    <3> QED  BY <2>3, <3>1, <1>0, ConstantFacts DEF RiskFlagged, Orphaned, CanWrite, Config
  <2> QED  BY <2>1, <2>2, <2>3
<1>2. ASSUME NEW t \in Tickets  PROVE TicketFlagged(ticket[t]) <=> Orphaned(t)
  <2>1. ticket[t] \in Ticket \cup {None} /\ t \notin Risks
    BY ConstantFacts DEF Typed, TypeOK
  <2>2. CASE ticket[t] = None
    BY <2>1, <2>2, ConstantFacts DEF TicketFlagged, Orphaned
  <2>3. CASE ticket[t] \in Ticket
    BY <2>1, <2>3, ConstantFacts DEF TicketFlagged, Orphaned
  <2> QED  BY <2>1, <2>2, <2>3
<1> QED  BY <1>1, <1>2

LEMMA PublishReport ==
    ASSUME Typed, ReportSound, NEW h \in Handlers, Publish(h)
    PROVE  ReportSound'
<1>0. job[h] # None /\ job[h].step = "publish" /\ UNCHANGED stores
  BY DEF Publish, At
<1>1. PICK j : j = job[h]
  OBVIOUS
<1>2. j \in Job /\ Shaped(j) /\ Lists(j) /\ j.step = "publish"
  BY <1>0, <1>1, JobAt DEF ReportSound
<1>3. PICK k : /\ job' = [job EXCEPT ![h] = k]
               /\ k = [job[h] EXCEPT !.risks = NoRisks, !.tickets = NoTickets, !.step = "record", !.result = 200]
  BY DEF Publish
<1>4. k.op = "refresh" /\ k.step = "record"
  BY <1>1, <1>2, <1>3 DEF Shaped, Job
<1>5. Lists(k)' /\ AnswerTells(k)'
  BY <1>4 DEF Lists, AnswerTells
<1>6. /\ report'.began = j.began
      /\ \A s \in Spaces :
             /\ report'.resources[s] = {r \in Risks : RiskFlagged(j.risks[r]) /\ j.risks[r].space = s}
             /\ report'.tickets[s] = {t \in Tickets : TicketFlagged(j.tickets[t]) /\ j.tickets[t].space = s}
  BY <1>1 DEF Publish
<1>7. ASSUME NEW i \in Items, touched[i] <= j.began, NEW s \in Spaces
      PROVE  i \in report'.resources[s] \cup report'.tickets[s] <=> Orphaned(i) /\ SpaceOf(i) = s
  <2>1. CASE i \in Risks
    <3>1. i \notin Tickets /\ j.risks[i] = risk[i] /\ SpaceOf(i) = risk[i].space
      BY <1>2, <1>7, <2>1, ConstantFacts DEF Lists, SpaceOf
    <3>2. RiskFlagged(risk[i]) <=> Orphaned(i)
      BY <2>1, FlagsOrphans
    <3> QED  BY <1>6, <2>1, <3>1, <3>2
  <2>2. CASE i \in Tickets
    <3>1. i \notin Risks /\ j.tickets[i] = ticket[i] /\ SpaceOf(i) = ticket[i].space
      BY <1>2, <1>7, <2>2, ConstantFacts DEF Lists, SpaceOf
    <3>2. TicketFlagged(ticket[i]) <=> Orphaned(i)
      BY <2>2, FlagsOrphans
    <3> QED  BY <1>6, <2>2, <3>1, <3>2
  <2> QED  BY <2>1, <2>2 DEF Items
<1>8. \A i \in Items : (Orphaned(i)' <=> Orphaned(i)) /\ SpaceOf(i)' = SpaceOf(i)
  BY <1>0, OrphanedStays DEF stores
<1>9. Tells(report, Spaces)'
  BY <1>0, <1>2, <1>6, <1>7, <1>8 DEF Tells, Shaped, stores
<1> QED  BY <1>0, <1>3, <1>5, <1>9, StillMoves, ReportStays

LEMMA ServeReport ==
    ASSUME Typed, ReportSound, NEW h \in Handlers, Serve(h)
    PROVE  ReportSound'
<1>0. job[h] # None /\ job[h].step = "serve" /\ UNCHANGED stores /\ report' = report
  BY DEF Serve, At
<1>1. job[h] \in Job /\ Shaped(job[h])
  BY <1>0, JobAt
<1> DEFINE shown(map) == [s \in Spaces |-> IF CanWrite(job[h].principal, s) THEN map[s] ELSE {}]
<1>2. PICK a : a = IF report = None THEN None
                   ELSE [report EXCEPT !.resources = shown(@), !.tickets = shown(@)]
  OBVIOUS
<1>3. PICK k : /\ job' = [job EXCEPT ![h] = k]
               /\ k = [job[h] EXCEPT !.answer = a, !.step = "record", !.result = 200]
  <2>1. PICK b : /\ b = IF report = None THEN None
                        ELSE [report EXCEPT !.resources = shown(@), !.tickets = shown(@)]
                 /\ job' = [job EXCEPT ![h].answer = b, ![h].step = "record", ![h].result = 200]
    BY DEF Serve
  <2>2. b = a
    BY <1>2, <2>1
  <2> HIDE DEF shown
  <2> QED  BY <2>1, <2>2, ZenonT(30)
<1>4. PICK S : S = config.writable[job[h].principal]
  OBVIOUS
<1>5. ASSUME a # None
      PROVE  Tells(a, S) /\ a.began \in Nat
  <2>1. report # None /\ a = [report EXCEPT !.resources = shown(@), !.tickets = shown(@)]
    BY <1>2, <1>5
  <2>2. report \in Report /\ Tells(report, Spaces)
    BY <2>1 DEF ReportSound, Typed, TypeOK
  <2>3. /\ a.began = report.began
        /\ \A s \in Spaces : a.resources[s] = IF s \in S THEN report.resources[s] ELSE {}
        /\ \A s \in Spaces : a.tickets[s] = IF s \in S THEN report.tickets[s] ELSE {}
    BY <1>4, <2>1, <2>2 DEF Report, CanWrite
  <2>4. ASSUME NEW i \in Items, touched[i] <= a.began, NEW s \in Spaces
        PROVE  i \in a.resources[s] \cup a.tickets[s] <=> Orphaned(i) /\ SpaceOf(i) = s /\ s \in S
    <3>1. i \in report.resources[s] \cup report.tickets[s] <=> Orphaned(i) /\ SpaceOf(i) = s
      BY <2>2, <2>3, <2>4 DEF Tells
    <3> QED  BY <2>3, <3>1
  <2> QED  BY <2>2, <2>3, <2>4 DEF Tells, Report
<1> HIDE DEF shown
<1>6. k.step = "record" /\ k.answer = a /\ k.principal = job[h].principal
  BY <1>1, <1>3 DEF Job
<1>7. a # None => Tells(a, S)'
  BY <1>0, <1>5, StillMoves, TellsStays
<1>8. config'.writable[k.principal] = S
  BY <1>0, <1>4, <1>6 DEF stores
<1>9. Lists(k)' /\ AnswerTells(k)'
  BY <1>6, <1>7, <1>8 DEF Lists, AnswerTells, Tells
<1> QED  BY <1>0, <1>3, <1>9, StillMoves, ReportStays

LEMMA RecordReport ==
    ASSUME Typed, ReportSound, NEW h \in Handlers, Record(h) \/ Send(h) \/ Page(h)
    PROVE  ReportSound'
<1>0. job[h] # None /\ UNCHANGED stores /\ report' = report
  BY DEF Record, Send, Page, At
<1>1. job[h] \in Job /\ Shaped(job[h]) /\ AnswerTells(job[h])
  BY <1>0, JobAt DEF ReportSound
<1>2. CASE Send(h)
  BY <1>0, <1>2, StillMoves, ReportStays DEF Send
<1>3. CASE Record(h)
  <2>1. PICK k : job' = [job EXCEPT ![h] = k] /\ k = [job[h] EXCEPT !.step = "send"]
    BY <1>3 DEF Record
  <2>2. PICK j : j = job[h]
    OBVIOUS
  <2>3. k.step = "send" /\ k.op = j.op /\ k.answer = j.answer /\ k.principal = j.principal
    BY <1>1, <2>1, <2>2 DEF Job
  <2>4. AnswerTells(j)'
    BY <1>0, <1>1, <2>2, StillMoves, AnswerStays DEF Shaped, Report
  <2>5. Lists(k)' /\ AnswerTells(k)'
    BY <2>3, <2>4 DEF Lists, AnswerTells
  <2> QED  BY <1>0, <2>1, <2>5, StillMoves, ReportStays
<1>4. CASE Page(h)
  <2>1. PICK a : job' = [job EXCEPT ![h].answer = a, ![h].step = "record", ![h].result = 200]
    BY <1>4 DEF Page
  <2>2. PICK k : k = [job[h] EXCEPT !.answer = a, !.step = "record", !.result = 200]
    OBVIOUS
  <2>3. k.step = "record" /\ k.op = "portfolio"
    BY <1>1, <1>4, <2>2 DEF Job, Shaped, Page, At
  <2>4. Lists(k)' /\ AnswerTells(k)'
    BY <2>3 DEF Lists, AnswerTells
  <2>5. job' = [job EXCEPT ![h] = k]
    BY <2>1, <2>2
  <2> QED  BY <1>0, <2>4, <2>5, StillMoves, ReportStays
<1> QED  BY <1>2, <1>3, <1>4

LEMMA RewriteReport ==
    ASSUME Typed, ReportSound, NEW i \in Items, Rewrite(i)
    PROVE  ReportSound'
<1>1. /\ config' = config /\ job' = job /\ report' = report /\ changes' = changes + 1
      /\ touched' = [touched EXCEPT ![i] = changes + 1]
      /\ \/ ticket' = ticket /\ \E x : risk' = [risk EXCEPT ![i] = x]
         \/ risk' = risk /\ \E x : ticket' = [ticket EXCEPT ![i] = x]
  BY DEF Rewrite, Changes
<1>2. /\ risk \in [Risks -> Risk \cup {None}] /\ ticket \in [Tickets -> Ticket \cup {None}]
      /\ touched \in [Items -> 0..changes]
  BY DEF Typed, TypeOK
<1>3. ASSUME NEW n \in Items  PROVE Moves!2!(n)
  <2>1. CASE n = i
    BY <1>1, <1>2, <2>1
  <2>2. CASE n # i
    BY <1>1, <1>2, <2>2
  <2> QED  BY <2>1, <2>2
<1>4. Moves
  BY <1>1, <1>3 DEF Moves
<1> QED  BY <1>1, <1>4, BesideReport

LEMMA RegroupReport ==
    ASSUME Typed, ReportSound, NEW g \in Groups, Regroup(g)
    PROVE  ReportSound'
<1>1. Moves /\ job' = job /\ report' = report
  BY DEF Regroup, Changes, Moves
<1> QED  BY <1>1, BesideReport

LEMMA NextReport == Typed /\ ReportSound /\ [Next]_vars => ReportSound'
<1> SUFFICES ASSUME Typed, ReportSound, [Next]_vars  PROVE ReportSound'
  OBVIOUS
<1>1. CASE \E i \in Items : Rewrite(i)
  BY <1>1, RewriteReport
<1>2. CASE \E g \in Groups : Regroup(g)
  BY <1>2, RegroupReport
<1>3. CASE Restart
  <2>1. report' = None /\ \A h \in Handlers : job'[h] = None
    BY <1>3 DEF Restart, InitialProcess
  <2> QED  BY <2>1 DEF ReportSound
<1>4. ASSUME NEW h \in Handlers,
             \/ Begin(h) \/ Refuse(h) \/ Raise(h) \/ PutRisk(h)
             \/ ListRisks(h) \/ ListTickets(h) \/ Publish(h) \/ Serve(h)
             \/ Page(h) \/ Record(h) \/ Send(h)
      PROVE  ReportSound'
  BY <1>4, BeginReport, RefuseReport, PutReport, ListReport, PublishReport, ServeReport, RecordReport
<1>5. CASE Idle \/ UNCHANGED vars
  <2>1. UNCHANGED stores /\ job' = job /\ report' = report
    BY <1>5 DEF Idle, vars
  <2> QED  BY <2>1, StillMoves, BesideReport
<1> QED  BY <1>1, <1>2, <1>3, <1>4, <1>5 DEF Next

\* POST /orphans/refresh and GET /orphans: what a served report shows of what has not been
\* written since its batch began are the orphans of the spaces the asker maintains.
THEOREM ReportsExactly == Spec => []ReportExact
<1>1. Typed /\ ReportSound => ReportExact
  <2> SUFFICES ASSUME Typed, ReportSound, NEW h \in Handlers,
                      At(h, "record"), job[h].op = "orphans", job[h].answer # None,
                      NEW i \in Items, touched[i] <= job[h].answer.began
               PROVE  Shown(job[h].answer, i) <=>
                          Orphaned(i) /\ SpaceOf(i) \in config.writable[job[h].principal]
    BY DEF ReportExact
  <2>1. Tells(job[h].answer, config.writable[job[h].principal]) /\ job[h].principal \in Principals
    BY JobAt DEF ReportSound, AnswerTells, At, Shaped
  <2>2. \A s \in Spaces : i \in job[h].answer.resources[s] \cup job[h].answer.tickets[s] <=>
            Orphaned(i) /\ SpaceOf(i) = s /\ s \in config.writable[job[h].principal]
    BY <2>1 DEF Tells
  <2>3. config.writable[job[h].principal] \subseteq Spaces
    BY <2>1, ConstantFacts DEF Typed, TypeOK, Config
  <2> QED  BY <2>2, <2>3 DEF Shown
<1>2. Typed /\ ReportSound /\ [Next]_vars => ReportSound'
  BY NextReport
<1>3. Init => ReportSound
  BY InitReport
<1> QED  BY TypedAlways, <1>1, <1>2, <1>3, PTL DEF Spec
-----------------------------------------------------------------------------
(* The log: who is in it. *)

LEMMA CountsFinite ==
    ASSUME Typed, NEW e
    PROVE  /\ IsFiniteSet(Going(e)) /\ Cardinality(Going(e)) \in Nat
           /\ IsFiniteSet(Logged(e)) /\ Cardinality(Logged(e)) \in Nat
<1>1. Going(e) \in SUBSET Handlers
  BY DEF Going
<1>2. DOMAIN log = 1..Len(log) /\ Len(log) \in Nat
  BY AppendIs DEF Typed
<1>3. Logged(e) \in SUBSET (1..Len(log))
  BY <1>2 DEF Logged
<1>4. IsFiniteSet(1..Len(log))
  BY <1>2, UpTo
<1> QED  BY <1>1, <1>3, <1>4, ConstantFacts, FS_Subset, FS_CardinalityType

LEMMA InitCounted == Init => Counted
<1> SUFFICES ASSUME Init, NEW e \in Event
             PROVE  sent[e] + Cardinality(Going(e)) <= Cardinality(Logged(e))
  BY DEF Counted
<1>1. Going(e) = {} /\ Logged(e) = {} /\ sent[e] = 0
  BY DEF Init, Going, Logged, At
<1> QED  BY <1>1, FS_EmptySet

\* A step of thread h that is not about to answer, neither before nor after.
LEMMA NotGoing ==
    ASSUME Typed, Counted, NEW h \in Handlers, NEW k, job' = [job EXCEPT ![h] = k],
           ~At(h, "send"), k # None => k.step # "send", log' = log, sent' = sent
    PROVE  Counted'
<1>1. ASSUME NEW g \in Handlers, NEW e
      PROVE  (At(g, "send")' /\ EventOf(g)' = e) <=> (At(g, "send") /\ EventOf(g) = e)
  <2>1. CASE g = h
    <3>1. job'[h] = k
      BY DEF Typed, TypeOK
    <3> QED  BY <2>1, <3>1 DEF At
  <2>2. CASE g # h
    <3>1. job'[g] = job[g]
      BY <2>2 DEF Typed, TypeOK
    <3> QED  BY <3>1 DEF At, EventOf
  <2> QED  BY <2>1, <2>2
<1>2. ASSUME NEW e \in Event
      PROVE  sent'[e] + Cardinality(Going(e)') <= Cardinality(Logged(e)')
  <2>1. Going(e)' = Going(e) /\ Logged(e)' = Logged(e)
    BY <1>1 DEF Going, Logged
  <2> QED  BY <2>1 DEF Counted
<1> QED  BY <1>2 DEF Counted

LEMMA RecordCounted ==
    ASSUME Typed, Counted, NEW h \in Handlers, Record(h)
    PROVE  Counted'
<1>0. job[h] # None /\ job[h].step = "record" /\ sent' = sent
  BY DEF Record, At
<1>1. job[h] \in Job /\ EventOf(h) \in Event
  BY <1>0, JobAt
<1>2. PICK x, k : /\ x = Entry(log, EventOf(h)) /\ log' = Append(log, x)
                  /\ k = [job[h] EXCEPT !.step = "send"] /\ job' = [job EXCEPT ![h] = k]
  BY DEF Record
<1>3. x.event = EventOf(h)
  BY <1>2 DEF Entry
<1>4. /\ k.step = "send" /\ k.principal = job[h].principal /\ k.op = job[h].op /\ k.result = job[h].result
      /\ k # None
  <2>1. k \in Job
    BY <1>1, <1>2 DEF Job
  <2> QED  BY <1>1, <1>2, <2>1, ConstantFacts DEF Job
<1>5. /\ DOMAIN log = 1..Len(log) /\ Len(log) \in Nat /\ DOMAIN log' = 1..(Len(log) + 1)
      /\ log'[Len(log) + 1] = x /\ \A n \in 1..Len(log) : log'[n] = log[n]
  BY <1>2, AppendIs DEF Typed
<1>6. \A g \in Handlers \ {h} : job'[g] = job[g]
  BY <1>2 DEF Typed, TypeOK
<1>7. job'[h] = k
  BY <1>2 DEF Typed, TypeOK
<1>8. ASSUME NEW e \in Event
      PROVE  sent'[e] + Cardinality(Going(e)') <= Cardinality(Logged(e)')
  <2>1. sent[e] \in Nat /\ sent[e] + Cardinality(Going(e)) <= Cardinality(Logged(e))
    BY DEF Counted, Typed, TypeOK
  <2>2. h \notin Going(e)
    BY <1>0 DEF Going, At
  <2>3. EventOf(h)' = EventOf(h)
    BY <1>4, <1>7 DEF EventOf
  <2>4. \A g \in Handlers \ {h} : (At(g, "send")' <=> At(g, "send")) /\ EventOf(g)' = EventOf(g)
    BY <1>6 DEF At, EventOf
  <2>5. At(h, "send")'
    BY <1>4, <1>7 DEF At
  <2>6. CASE e = EventOf(h)
    <3>1. Going(e)' = Going(e) \cup {h}
      BY <2>2, <2>3, <2>4, <2>5, <2>6 DEF Going
    <3>2. Logged(e)' = Logged(e) \cup {Len(log) + 1} /\ Len(log) + 1 \notin Logged(e)
      <4>1. 1..(Len(log) + 1) = (1..Len(log)) \cup {Len(log) + 1} /\ Len(log) + 1 \notin 1..Len(log)
        BY <1>5
      <4> QED  BY <1>3, <1>5, <2>6, <4>1 DEF Logged
    <3>3. /\ Cardinality(Going(e)') = Cardinality(Going(e)) + 1
          /\ Cardinality(Logged(e)') = Cardinality(Logged(e)) + 1
      BY <2>2, <3>1, <3>2, CountsFinite, FS_AddElement
    <3> QED  BY <1>0, <2>1, <3>3, CountsFinite
  <2>7. CASE e # EventOf(h)
    <3>1. Going(e)' = Going(e)
      BY <2>2, <2>3, <2>4, <2>7 DEF Going
    <3>2. Logged(e)' = Logged(e)
      <4>1. 1..(Len(log) + 1) = (1..Len(log)) \cup {Len(log) + 1} /\ Len(log) + 1 \notin 1..Len(log)
        BY <1>5
      <4> QED  BY <1>3, <1>5, <2>7, <4>1 DEF Logged
    <3> QED  BY <1>0, <2>1, <3>1, <3>2
  <2> QED  BY <2>6, <2>7
<1> QED  BY <1>8 DEF Counted

LEMMA SendCounted ==
    ASSUME Typed, Counted, NEW h \in Handlers, Send(h)
    PROVE  Counted'
<1>0. /\ At(h, "send") /\ log' = log /\ job' = [job EXCEPT ![h] = None]
      /\ sent' = [sent EXCEPT ![EventOf(h)] = @ + 1]
  BY DEF Send
<1>1. EventOf(h) \in Event /\ sent \in [Event -> Nat]
  BY <1>0, JobAt DEF At, Typed, TypeOK
<1>2. job'[h] = None /\ \A g \in Handlers \ {h} : job'[g] = job[g]
  BY <1>0 DEF Typed, TypeOK
<1>3. ASSUME NEW e \in Event
      PROVE  sent'[e] + Cardinality(Going(e)') <= Cardinality(Logged(e)')
  <2>1. sent[e] \in Nat /\ sent[e] + Cardinality(Going(e)) <= Cardinality(Logged(e)) /\ Logged(e)' = Logged(e)
    BY <1>0, <1>1 DEF Counted, Logged
  <2>2. \A g \in Handlers \ {h} : (At(g, "send")' <=> At(g, "send")) /\ EventOf(g)' = EventOf(g)
    BY <1>2 DEF At, EventOf
  <2>3. ~At(h, "send")'
    BY <1>2 DEF At
  <2>4. CASE e = EventOf(h)
    <3>1. Going(e)' = Going(e) \ {h} /\ h \in Going(e)
      BY <1>0, <2>2, <2>3, <2>4 DEF Going
    <3>2. Cardinality(Going(e)') = Cardinality(Going(e)) - 1 /\ sent'[e] = sent[e] + 1
      BY <1>0, <1>1, <2>4, <3>1, CountsFinite, FS_RemoveElement
    <3> QED  BY <2>1, <3>2, CountsFinite
  <2>5. CASE e # EventOf(h)
    <3>1. Going(e)' = Going(e) /\ sent'[e] = sent[e]
      BY <1>0, <1>1, <2>2, <2>3, <2>5 DEF Going
    <3> QED  BY <2>1, <3>1
  <2> QED  BY <2>4, <2>5
<1> QED  BY <1>3 DEF Counted

\* The steps of a request before it is recorded, as far as the log is concerned.
LEMMA BeforeRecord ==
    ASSUME Typed, NEW h \in Handlers,
           \/ Begin(h) \/ Refuse(h) \/ Raise(h) \/ PutRisk(h)
           \/ ListRisks(h) \/ ListTickets(h) \/ Publish(h) \/ Serve(h) \/ Page(h)
    PROVE  /\ \E k : job' = [job EXCEPT ![h] = k] /\ (k # None => k.step # "send")
           /\ ~At(h, "send") /\ log' = log /\ sent' = sent
<1>0. log' = log /\ sent' = sent
  BY DEF Begin, Refuse, Raise, PutRisk, ListRisks, ListTickets, Publish, Serve, Page
<1>1. ~At(h, "send")
  BY DEF At, Begin, Refuse, Raise, PutRisk, ListRisks, ListTickets, Publish, Serve, Page
<1>2. CASE Begin(h)
  <2>1. PICK op \in scenario.serves[h], p \in scenario.askers : job' = [job EXCEPT ![h] = Asked(op, p)]
    BY <1>2 DEF Begin
  <2>2. op \in Ops
    BY ConstantFacts DEF Typed, TypeOK, Scenario
  <2>3. Asked(op, p).step # "send"
    BY <2>2 DEF Asked, FirstStep, Ops
  <2> QED  BY <1>0, <1>1, <2>1, <2>3
<1>3. CASE Refuse(h) \/ Raise(h) \/ PutRisk(h)
  <2>1. PICK result : Ends(h, result) /\ job[h] # None
    BY <1>3 DEF Refuse, Raise, PutRisk, At
  <2>2. PICK k : k = [job[h] EXCEPT !.step = "record", !.result = result] /\ job' = [job EXCEPT ![h] = k]
    BY <2>1 DEF Ends
  <2>3. k.step = "record"
    BY <2>1, <2>2, JobAt DEF Job
  <2> QED  BY <1>0, <1>1, <2>2, <2>3
<1>4. CASE ListRisks(h) \/ ListTickets(h)
  <2>1. job[h] \in Job
    BY <1>4, JobAt DEF ListRisks, ListTickets, At
  <2>2. PICK k : /\ job' = [job EXCEPT ![h] = k]
                 /\ \/ k = [job[h] EXCEPT !.risks = risk, !.step = "list_tickets"]
                    \/ k = [job[h] EXCEPT !.tickets = ticket, !.step = "publish"]
    BY <1>4, ZenonT(30) DEF ListRisks, ListTickets
  <2>3. k.step # "send"
    BY <2>1, <2>2 DEF Job
  <2> QED  BY <1>0, <1>1, <2>2, <2>3
<1>5. CASE Publish(h)
  <2>1. job[h] \in Job
    BY <1>5, JobAt DEF Publish, At
  <2>2. PICK k : /\ job' = [job EXCEPT ![h] = k]
                 /\ k = [job[h] EXCEPT !.risks = NoRisks, !.tickets = NoTickets, !.step = "record", !.result = 200]
    BY <1>5 DEF Publish
  <2>3. k.step # "send"
    BY <2>1, <2>2 DEF Job
  <2> QED  BY <1>0, <1>1, <2>2, <2>3
<1>6. CASE Serve(h) \/ Page(h)
  <2>1. job[h] \in Job
    BY <1>6, JobAt DEF Serve, Page, At
  <2>2. PICK a : job' = [job EXCEPT ![h].answer = a, ![h].step = "record", ![h].result = 200]
    BY <1>6 DEF Serve, Page
  <2>3. PICK k : k = [job[h] EXCEPT !.answer = a, !.step = "record", !.result = 200]
    OBVIOUS
  <2>4. k.step # "send" /\ job' = [job EXCEPT ![h] = k]
    BY <2>1, <2>2, <2>3 DEF Job
  <2> QED  BY <1>0, <1>1, <2>4
<1> QED  BY <1>2, <1>3, <1>4, <1>5, <1>6

LEMMA NextCounted == Typed /\ Counted /\ [Next]_vars => Counted'
<1> SUFFICES ASSUME Typed, Counted, [Next]_vars  PROVE Counted'
  OBVIOUS
<1>1. ASSUME job' = job, log' = log, sent' = sent
      PROVE  Counted'
  BY <1>1 DEF Counted, Going, Logged, At, EventOf
<1>2. CASE (\E i \in Items : Rewrite(i)) \/ (\E g \in Groups : Regroup(g)) \/ Idle \/ UNCHANGED vars
  BY <1>1, <1>2 DEF Rewrite, Regroup, Idle, vars
<1>3. CASE Restart
  <2>1. ASSUME NEW e \in Event
        PROVE  sent'[e] + Cardinality(Going(e)') <= Cardinality(Logged(e)')
    <3>1. Going(e)' = {} /\ Logged(e)' = {} /\ sent'[e] = 0
      BY <1>3 DEF Restart, InitialProcess, Going, Logged, At
    <3> QED  BY <3>1, FS_EmptySet
  <2> QED  BY <2>1 DEF Counted
<1>4. ASSUME NEW h \in Handlers,
             \/ Begin(h) \/ Refuse(h) \/ Raise(h) \/ PutRisk(h)
             \/ ListRisks(h) \/ ListTickets(h) \/ Publish(h) \/ Serve(h) \/ Page(h)
      PROVE  Counted'
  BY <1>4, BeforeRecord, NotGoing
<1>5. ASSUME NEW h \in Handlers, Record(h) \/ Send(h)
      PROVE  Counted'
  BY <1>5, RecordCounted, SendCounted
<1> QED  BY <1>2, <1>3, <1>4, <1>5 DEF Next

\* audit_mw: however many threads answer, and whether their handlers returned, refused or
\* raised, no more answers of a kind leave than the log has entries of it.
THEOREM EveryAnswerIsLogged == Spec => []Audited
<1>1. Typed /\ Counted => Audited
  <2> SUFFICES ASSUME Typed, Counted, NEW e \in Event  PROVE sent[e] <= Cardinality({n \in DOMAIN log : log[n].event = e})
    BY DEF Audited
  <2>1. sent[e] \in Nat /\ sent[e] + Cardinality(Going(e)) <= Cardinality(Logged(e))
    BY DEF Counted, Typed, TypeOK
  <2> QED  BY <2>1, CountsFinite DEF Logged
<1>2. Typed /\ Counted /\ [Next]_vars => Counted'
  BY NextCounted
<1>3. Init => Counted
  BY InitCounted
<1> QED  BY TypedAlways, <1>1, <1>2, <1>3, PTL DEF Spec
-----------------------------------------------------------------------------
(* The log: what a change of it leaves behind. *)

LEMMA PreviousIs ==
    ASSUME Typed, Chained, NEW m \in DOMAIN log, NEW n \in DOMAIN log, Previous(log, m) = Previous(log, n)
    PROVE  m = n
<1>1. DOMAIN log = 1..Len(log) /\ Len(log) \in Nat
  BY AppendIs DEF Typed
<1>2. ASSUME NEW k \in 2..Len(log)
      PROVE  k - 1 \in DOMAIN log /\ Previous(log, k) = log[k - 1].entry_hash /\ Previous(log, k) # Genesis
  BY <1>1 DEF Chained, Previous
<1>3. CASE m = 1
  BY <1>1, <1>2, <1>3 DEF Previous
<1>4. CASE n = 1
  BY <1>1, <1>2, <1>4 DEF Previous
<1>5. CASE m # 1 /\ n # 1
  <2>1. m \in 2..Len(log) /\ n \in 2..Len(log)
    BY <1>1, <1>5
  <2>2. m - 1 = n - 1
    BY <1>2, <2>1 DEF Chained
  <2> QED  BY <1>1, <2>2
<1> QED  BY <1>3, <1>4, <1>5

LEMMA RecordChains ==
    ASSUME Typed, Chained, NEW event, log' = Append(log, Entry(log, event))
    PROVE  Chained'
<1>1. PICK N : N = Len(log)
  OBVIOUS
<1>2. PICK x : x = Entry(log, event)
  OBVIOUS
<1>3. /\ DOMAIN log = 1..N /\ N \in Nat /\ DOMAIN log' = 1..(N + 1)
      /\ log'[N + 1] = x /\ \A n \in 1..N : log'[n] = log[n]
  BY <1>1, <1>2, AppendIs DEF Typed
<1>4. PICK p : p = IF N = 0 THEN Genesis ELSE log[N].entry_hash
  OBVIOUS
<1>5. N = 0 <=> log = <<>>
  BY <1>1, EmptySeq DEF Typed
<1>6. x = [event |-> event, prev_hash |-> p, entry_hash |-> EntryHash(p, event)]
  BY <1>1, <1>2, <1>4, <1>5 DEF Entry
<1>7. /\ \A n \in 1..N : Previous(log', n) = Previous(log, n)
      /\ Previous(log', N + 1) = p
  BY <1>3, <1>4 DEF Previous
<1>8. \A n \in 1..(N + 1) : n \in 1..N \/ n = N + 1
  BY <1>3
<1>9. ASSUME NEW n \in 1..(N + 1)
      PROVE  /\ log'[n] = [event |-> log'[n].event, prev_hash |-> Previous(log', n),
                           entry_hash |-> EntryHash(Previous(log', n), log'[n].event)]
             /\ log'[n].entry_hash # Genesis
  <2>1. CASE n \in 1..N
    BY <1>3, <1>7, <2>1 DEF Chained
  <2>2. CASE n = N + 1
    <3>1. EntryHash(p, event) # Genesis
      BY DEF EntryHash, Genesis
    <3> QED  BY <1>3, <1>6, <1>7, <2>2, <3>1
  <2> QED  BY <1>8, <2>1, <2>2
<1>10. ASSUME NEW n \in 1..N
       PROVE  log[n].entry_hash # x.entry_hash
  <2>1. log[n].entry_hash = EntryHash(Previous(log, n), log[n].event)
    BY <1>3 DEF Chained
  <2>2. SUFFICES ASSUME log[n].entry_hash = x.entry_hash  PROVE FALSE
    OBVIOUS
  <2>3. Previous(log, n) = p
    BY <1>6, <2>1, <2>2 DEF EntryHash
  <2>4. N \in 1..N /\ p = log[N].entry_hash
    BY <1>3, <1>4
  <2>5. log[N].entry_hash # Genesis
    BY <1>3, <2>4 DEF Chained
  <2>6. CASE n = 1
    BY <2>3, <2>4, <2>5, <2>6 DEF Previous
  <2>7. CASE n # 1
    <3>1. n - 1 \in 1..N /\ log[n - 1].entry_hash = log[N].entry_hash
      BY <1>3, <2>3, <2>4, <2>7 DEF Previous
    <3>2. n - 1 = N
      BY <1>3, <2>4, <3>1 DEF Chained
    <3> QED  BY <1>3, <3>2
  <2> QED  BY <2>6, <2>7
<1>11. ASSUME NEW m \in 1..(N + 1), NEW n \in 1..(N + 1), log'[m].entry_hash = log'[n].entry_hash
       PROVE  m = n
  <2>1. CASE m \in 1..N /\ n \in 1..N
    BY <1>3, <1>11, <2>1 DEF Chained
  <2>2. CASE m \in 1..N /\ n = N + 1
    BY <1>3, <1>10, <1>11, <2>2
  <2>3. CASE m = N + 1 /\ n \in 1..N
    BY <1>3, <1>10, <1>11, <2>3
  <2> QED  BY <1>8, <2>1, <2>2, <2>3
<1> QED  BY <1>3, <1>9, <1>11 DEF Chained, Previous

LEMMA NextChained == Typed /\ Chained /\ [Next]_vars => Chained'
<1> SUFFICES ASSUME Typed, Chained, [Next]_vars  PROVE Chained'
  OBVIOUS
<1>1. ASSUME log' = log
      PROVE  Chained'
  BY <1>1 DEF Chained, Previous
<1>2. CASE (\E i \in Items : Rewrite(i)) \/ (\E g \in Groups : Regroup(g)) \/ Idle \/ UNCHANGED vars
  BY <1>1, <1>2 DEF Rewrite, Regroup, Idle, vars
<1>3. CASE Restart
  <2>1. log' = <<>>
    BY <1>3 DEF Restart, InitialProcess
  <2> QED  BY <2>1 DEF Chained
<1>4. ASSUME NEW h \in Handlers,
             \/ Begin(h) \/ Refuse(h) \/ Raise(h) \/ PutRisk(h)
             \/ ListRisks(h) \/ ListTickets(h) \/ Publish(h) \/ Serve(h) \/ Page(h)
      PROVE  Chained'
  BY <1>1, <1>4, BeforeRecord
<1>5. ASSUME NEW h \in Handlers, Record(h) \/ Send(h)
      PROVE  Chained'
  BY <1>1, <1>5, RecordChains DEF Record, Send
<1> QED  BY <1>2, <1>3, <1>4, <1>5 DEF Next

LEMMA LogVerifies ==
    ASSUME Typed, Chained
    PROVE  Verify(log)
BY DEF Verify, Chained

LEMMA AlteredFails ==
    ASSUME Typed, Chained, NEW n \in DOMAIN log, NEW e, e # log[n].event, NEW chain,
           chain = [log EXCEPT ![n].event = e]
    PROVE  ~Verify(chain)
<1>1. log \in [DOMAIN log -> Elements(log)] /\ DOMAIN chain = DOMAIN log
  BY AppendIs, LenProperties DEF Typed
<1>2. log[n] = [event |-> log[n].event, prev_hash |-> Previous(log, n),
                entry_hash |-> EntryHash(Previous(log, n), log[n].event)]
  BY DEF Chained
<1>3. chain[n].event = e /\ chain[n].entry_hash = log[n].entry_hash
  BY <1>1, <1>2
<1>4. EntryHash(Previous(log, n), log[n].event) # EntryHash(Previous(chain, n), e)
  BY DEF EntryHash
<1> QED  BY <1>1, <1>2, <1>3, <1>4 DEF Verify

LEMMA ReorderedFails ==
    ASSUME Typed, Chained, NEW m \in DOMAIN log, NEW n \in DOMAIN log, m < n, NEW chain,
           chain = [log EXCEPT ![m] = log[n], ![n] = log[m]]
    PROVE  ~Verify(chain)
<1>1. /\ DOMAIN log = 1..Len(log) /\ Len(log) \in Nat /\ DOMAIN chain = DOMAIN log
      /\ chain[m] = log[n] /\ \A k \in DOMAIN log \ {m, n} : chain[k] = log[k]
  <2>1. log \in [1..Len(log) -> Elements(log)] /\ DOMAIN log = 1..Len(log) /\ Len(log) \in Nat
    BY LenProperties DEF Typed
  <2>2. m \in Int /\ n \in Int
    BY <2>1
  <2> QED  BY <2>1, <2>2
<1>2. Previous(chain, m) = Previous(log, m)
  <2>1. m # 1 => m - 1 \in DOMAIN log \ {m, n}
    BY <1>1
  <2> QED  BY <1>1, <2>1 DEF Previous
<1>3. chain[m].prev_hash = Previous(log, n)
  BY <1>1 DEF Chained
<1>4. Previous(log, m) # Previous(log, n)
  BY <1>1, PreviousIs
<1> QED  BY <1>1, <1>2, <1>3, <1>4 DEF Verify

LEMMA ShortenedFails ==
    ASSUME Typed, Chained, NEW n \in DOMAIN log \ {Len(log)}
    PROVE  ~Verify(Without(log, n))
<1>1. PICK N : N = Len(log)
  OBVIOUS
<1>2. DOMAIN log = 1..N /\ N \in Nat /\ n \in 1..N /\ n # N /\ n \in Nat
  BY <1>1, LenProperties DEF Typed
<1> DEFINE S == Elements(log)
<1>3. \A k \in 1..N : log[k] \in S
  BY <1>2 DEF Elements
<1>4. PICK a : a = SubSeq(log, 1, n - 1)
  OBVIOUS
<1>5. PICK b : b = SubSeq(log, n + 1, N)
  OBVIOUS
<1> HIDE DEF S
<1>6. a \in Seq(S) /\ Len(a) = n - 1 /\ \A k \in 1..(n - 1) : a[k] = log[k]
  <2>1. \A k \in 1..(n - 1) : log[k] \in S
    BY <1>2, <1>3
  <2>2. /\ SubSeq(log, 1, n - 1) \in Seq(S)
        /\ Len(SubSeq(log, 1, n - 1)) = IF 1 <= n - 1 THEN (n - 1) - 1 + 1 ELSE 0
        /\ \A k \in 1..((n - 1) - 1 + 1) : SubSeq(log, 1, n - 1)[k] = log[1 + k - 1]
    BY <1>2, <2>1, SubSeqProperties
  <2>3. (n - 1) - 1 + 1 = n - 1 /\ (IF 1 <= n - 1 THEN (n - 1) - 1 + 1 ELSE 0) = n - 1
        /\ \A k \in 1..(n - 1) : 1 + k - 1 = k
    BY <1>2
  <2> QED  BY <1>4, <2>2, <2>3
<1>7. b \in Seq(S) /\ Len(b) = N - n /\ \A k \in 1..(N - n) : b[k] = log[n + k]
  <2>1. \A k \in (n + 1)..N : log[k] \in S
    BY <1>2, <1>3
  <2>2. /\ SubSeq(log, n + 1, N) \in Seq(S)
        /\ Len(SubSeq(log, n + 1, N)) = IF n + 1 <= N THEN N - (n + 1) + 1 ELSE 0
        /\ \A k \in 1..(N - (n + 1) + 1) : SubSeq(log, n + 1, N)[k] = log[(n + 1) + k - 1]
    BY <1>2, <2>1, SubSeqProperties
  <2>3. N - (n + 1) + 1 = N - n /\ (IF n + 1 <= N THEN N - (n + 1) + 1 ELSE 0) = N - n
        /\ \A k \in 1..(N - n) : (n + 1) + k - 1 = n + k
    BY <1>2
  <2> QED  BY <1>5, <2>2, <2>3
<1>8. PICK chain : chain = a \o b
  OBVIOUS
<1>9. /\ chain \in Seq(S) /\ Len(chain) = Len(a) + Len(b)
      /\ \A k \in 1..(Len(a) + Len(b)) : chain[k] = IF k <= Len(a) THEN a[k] ELSE b[k - Len(a)]
  BY <1>6, <1>7, <1>8, ConcatProperties
<1>10. /\ DOMAIN chain = 1..(N - 1)
       /\ \A k \in 1..(n - 1) : chain[k] = log[k]
       /\ chain[n] = log[n + 1] /\ n \in DOMAIN chain
  <2>1. Len(a) + Len(b) = N - 1 /\ Len(a) = n - 1
    BY <1>2, <1>6, <1>7
  <2>2. DOMAIN chain = 1..(N - 1)
    BY <1>9, <2>1, LenProperties
  <2>3. \A k \in 1..(n - 1) : k \in 1..(N - 1) /\ k <= n - 1
    BY <1>2
  <2>4. n \in 1..(N - 1) /\ ~(n <= n - 1) /\ n - (n - 1) = 1 /\ 1 \in 1..(N - n)
    BY <1>2
  <2>5. chain[n] = b[1]
    BY <1>9, <2>1, <2>4
  <2> QED  BY <1>6, <1>7, <1>9, <2>1, <2>2, <2>3, <2>4, <2>5
<1>11. Previous(chain, n) = Previous(log, n)
  <2>1. n # 1 => n - 1 \in 1..(n - 1)
    BY <1>2
  <2> QED  BY <1>10, <2>1 DEF Previous
<1>12. n + 1 \in DOMAIN log /\ n # n + 1
  BY <1>2
<1>13. chain[n].prev_hash = Previous(log, n + 1)
  BY <1>10, <1>12 DEF Chained
<1>14. Previous(log, n) # Previous(log, n + 1)
  BY <1>2, <1>12, PreviousIs
<1>15. ~Verify(chain)
  BY <1>10, <1>11, <1>13, <1>14 DEF Verify
<1> QED  BY <1>1, <1>4, <1>5, <1>8, <1>15 DEF Without

\* AuditSink.verify: the log as it was recorded verifies, and no log does in which the
\* result or the principal of an entry is another one, two entries have changed places, or
\* one before the last is missing.
THEOREM TamperingShows == Spec => []TamperEvident
<1>1. Typed /\ Chained => TamperEvident
  <2> SUFFICES ASSUME Typed, Chained  PROVE TamperEvident
    OBVIOUS
  <2>1. ASSUME NEW chain \in Altered(log)  PROVE ~Verify(chain)
    <3>1. PICK n \in DOMAIN log :
              \/ \E r \in {200, 403, 500} \ {log[n].event.result} : chain = [log EXCEPT ![n].event.result = r]
              \/ \E p \in Principals \ {log[n].event.principal} : chain = [log EXCEPT ![n].event.principal = p]
      BY <2>1 DEF Altered
    <3>2. log[n].event \in Event
      BY DEF Typed, TypeOK
    <3>3. \E e : e # log[n].event /\ chain = [log EXCEPT ![n].event = e]
      <4>1. ASSUME NEW r \in {200, 403, 500} \ {log[n].event.result}, chain = [log EXCEPT ![n].event.result = r]
            PROVE  <3>3
        <5> DEFINE e == [log[n].event EXCEPT !.result = r]
        <5>1. e.result = r
          BY <3>2 DEF Event
        <5>2. chain = [log EXCEPT ![n].event = e]
          BY <4>1
        <5> HIDE DEF e
        <5> QED  BY <4>1, <5>1, <5>2, ZenonT(30)
      <4>2. ASSUME NEW p \in Principals \ {log[n].event.principal}, chain = [log EXCEPT ![n].event.principal = p]
            PROVE  <3>3
        <5> DEFINE e == [log[n].event EXCEPT !.principal = p]
        <5>1. e.principal = p
          BY <3>2 DEF Event
        <5>2. chain = [log EXCEPT ![n].event = e]
          BY <4>2
        <5> HIDE DEF e
        <5> QED  BY <4>2, <5>1, <5>2
      <4> QED  BY <3>1, <4>1, <4>2
    <3> QED  BY <3>3, AlteredFails
  <2>2. ASSUME NEW chain \in Reordered(log)  PROVE ~Verify(chain)
    <3>1. PICK m \in DOMAIN log : \E n \in {k \in DOMAIN log : m < k} :
              chain = [log EXCEPT ![m] = log[n], ![n] = log[m]]
      BY <2>2 DEF Reordered
    <3> QED  BY <3>1, ReorderedFails
  <2>3. ASSUME NEW chain \in Shortened(log)  PROVE ~Verify(chain)
    BY <2>3, ShortenedFails DEF Shortened
  <2> QED  BY <2>1, <2>2, <2>3, LogVerifies DEF TamperEvident
<1>2. Typed /\ Chained /\ [Next]_vars => Chained'
  BY NextChained
<1>3. Init => Chained
  BY DEF Init, Chained
<1> QED  BY TypedAlways, <1>1, <1>2, <1>3, PTL DEF Spec
-----------------------------------------------------------------------------
(* The pages. *)

LEMMA SameGroups ==
    ASSUME groups' = groups
    PROVE  /\ VisibleAt' = VisibleAt /\ \A n : Place(n)' = Place(n)
           /\ Visible' = Visible
<1>1. VisibleAt' = VisibleAt
  BY DEF VisibleAt
<1>2. \A n : Place(n)' = Place(n)
  BY <1>1 DEF Place
<1>3. Visible' = Visible
  <2>1. /\ (Visible \in Seq(DOMAIN GroupOf))' /\ (Len(Visible) = Cardinality(VisibleAt))'
        /\ (\A k \in 1..Len(Visible) : \E n \in VisibleAt : Place(n) = k /\ Visible[k] = Epics[n])'
    BY VisibleIs, PTL
  <2>2. Visible' \in Seq(DOMAIN GroupOf) /\ Len(Visible') = Len(Visible)
    BY <1>1, <2>1, VisibleIs
  <2>3. ASSUME NEW k \in 1..Len(Visible)
        PROVE  Visible'[k] = Visible[k]
    <3>1. PICK n \in VisibleAt : Place(n) = k /\ Visible[k] = Epics[n]
      BY VisibleIs
    <3>2. PICK m \in VisibleAt : Place(m) = k /\ Visible'[k] = Epics[m]
      BY <1>1, <1>2, <2>1, <2>2
    <3> QED  BY <3>1, <3>2, PlaceTells
  <2> QED  BY <2>2, <2>3, VisibleIs, SeqEqual
<1> QED  BY <1>1, <1>2, <1>3

LEMMA FollowedStays ==
    ASSUME groups' = groups, NEW p, NEW q, q.lost = p.lost, q.all = p.all, q.gained = p.gained,
           NEW got, NEW cursor
    PROVE  (Followed(q, got, cursor)' <=> Followed(p, got, cursor)) /\ (Starts(q)' <=> Starts(p))
BY SameGroups DEF Followed, Starts

LEMMA ConcatElements ==
    ASSUME NEW S, NEW s \in Seq(S), NEW t \in Seq(S)
    PROVE  Elements(s \o t) = Elements(s) \cup Elements(t)
<1>1. /\ DOMAIN s = 1..Len(s) /\ DOMAIN t = 1..Len(t) /\ Len(s) \in Nat /\ Len(t) \in Nat
      /\ s \o t \in Seq(S) /\ DOMAIN (s \o t) = 1..(Len(s) + Len(t))
      /\ \A i \in 1..(Len(s) + Len(t)) : (s \o t)[i] = IF i <= Len(s) THEN s[i] ELSE t[i - Len(s)]
  BY ConcatProperties, LenProperties
<1>2. \A i \in 1..Len(s) : i \in 1..(Len(s) + Len(t)) /\ (s \o t)[i] = s[i]
  BY <1>1
<1>3. \A i \in 1..Len(t) :
          /\ Len(s) + i \in 1..(Len(s) + Len(t)) /\ ~(Len(s) + i <= Len(s)) /\ (Len(s) + i) - Len(s) = i
  BY <1>1
<1>4. \A i \in 1..Len(t) : Len(s) + i \in 1..(Len(s) + Len(t)) /\ (s \o t)[Len(s) + i] = t[i]
  BY <1>1, <1>3
<1>5. \A i \in 1..(Len(s) + Len(t)) : i \in 1..Len(s) \/ (i - Len(s) \in 1..Len(t) /\ ~(i <= Len(s)))
  BY <1>1
<1>6. Elements(s) \cup Elements(t) \subseteq Elements(s \o t)
  <2>1. Elements(s) \subseteq Elements(s \o t)
    BY <1>1, <1>2 DEF Elements
  <2>2. ASSUME NEW e \in Elements(t)  PROVE e \in Elements(s \o t)
    <3>1. PICK i \in 1..Len(t) : e = t[i]
      BY <1>1 DEF Elements
    <3> QED  BY <1>1, <1>4, <3>1 DEF Elements
  <2> QED  BY <2>1, <2>2
<1>7. Elements(s \o t) \subseteq Elements(s) \cup Elements(t)
  BY <1>1, <1>2, <1>5 DEF Elements
<1> QED  BY <1>6, <1>7

\* Visible has each epic once, at its place.
LEMMA VisibleOnce ==
    ASSUME NEW n \in VisibleAt, NEW k \in 1..Len(Visible), Visible[k] = Epics[n]
    PROVE  Place(n) = k
<1>1. PICK m \in VisibleAt : Place(m) = k /\ Visible[k] = Epics[m]
  BY VisibleIs
<1>2. m = n
  BY <1>1, VisibleFinite, IndexFacts
<1> QED  BY <1>1, <1>2

LEMMA VisibleDiffers ==
    ASSUME NEW i \in 1..Len(Visible), NEW k \in 1..Len(Visible), Visible[i] = Visible[k]
    PROVE  i = k
<1>1. PICK n \in VisibleAt : Place(n) = k /\ Visible[k] = Epics[n]
  BY VisibleIs
<1> QED  BY <1>1, VisibleOnce

\* What is on the page at cursor, and whether it is the last one.
LEMMA PageShows ==
    ASSUME NEW cursor \in 0..Len(Epics), NEW page, page = PageAt(cursor, Len(Visible))
    PROVE  \E hi \in 0..Len(Visible) :
               /\ page = SubSeq(Visible, cursor + 1, hi) /\ page \in Seq(DOMAIN GroupOf)
               /\ DOMAIN page = 1..Len(page) /\ Len(page) = IF cursor < hi THEN hi - cursor ELSE 0
               /\ \A i \in 1..Len(page) : page[i] = Visible[cursor + i] /\ cursor + i \in 1..hi
               /\ \A k \in 1..hi : k > cursor => k - cursor \in 1..Len(page) /\ page[k - cursor] = Visible[k]
               /\ cursor <= Len(Visible) => cursor <= hi
               /\ NextCursor(cursor, Len(Visible)) = IF hi = Len(Visible) THEN None ELSE hi
<1>1. PICK N : N = Len(Visible)
  OBVIOUS
<1>2. /\ cursor \in Nat /\ Limit \in Nat \ {0} /\ N \in Nat
      /\ \A k \in 1..N : Visible[k] \in DOMAIN GroupOf
  BY <1>1, VisibleIs, IndexFacts, ConstantFacts, ElementOfSeq
<1>3. PICK hi : hi = IF cursor + Limit < N THEN cursor + Limit ELSE N
  OBVIOUS
<1>4. hi \in 0..N /\ (cursor <= N => cursor <= hi)
  BY <1>2, <1>3
<1>5. page = SubSeq(Visible, cursor + 1, hi)
  BY <1>1, <1>3 DEF PageAt
<1>6. /\ page \in Seq(DOMAIN GroupOf)
      /\ Len(page) = IF cursor + 1 <= hi THEN hi - (cursor + 1) + 1 ELSE 0
      /\ \A i \in 1..(hi - (cursor + 1) + 1) : page[i] = Visible[(cursor + 1) + i - 1]
  <2>1. \A i \in (cursor + 1)..hi : Visible[i] \in DOMAIN GroupOf
    BY <1>2, <1>4
  <2> QED  BY <1>2, <1>4, <1>5, <2>1, SubSeqProperties
<1>7. DOMAIN page = 1..Len(page)
  BY <1>6, LenProperties
<1>8. Len(page) = IF cursor < hi THEN hi - cursor ELSE 0
  BY <1>2, <1>4, <1>6
<1>9. \A i \in 1..Len(page) : page[i] = Visible[cursor + i] /\ cursor + i \in 1..hi
  <2>1. \A i \in 1..Len(page) : i \in 1..(hi - (cursor + 1) + 1) /\ (cursor + 1) + i - 1 = cursor + i
                                /\ cursor + i \in 1..hi
    BY <1>2, <1>4, <1>8
  <2> QED  BY <1>6, <2>1
<1>10. \A k \in 1..hi : k > cursor => k - cursor \in 1..Len(page) /\ page[k - cursor] = Visible[k]
  <2>1. \A k \in 1..hi : k > cursor => k - cursor \in 1..Len(page) /\ cursor + (k - cursor) = k
    BY <1>2, <1>4, <1>8
  <2> QED  BY <1>9, <2>1
<1>11. NextCursor(cursor, N) = IF hi = N THEN None ELSE hi
  BY <1>2, <1>3 DEF NextCursor
<1> QED  BY <1>1, <1>4, <1>5, <1>6, <1>7, <1>8, <1>9, <1>10, <1>11

\* A client that has followed the cursor this far has, with the page there, followed it on.
LEMMA FollowsOn ==
    ASSUME NEW p, NEW got \in Seq(DOMAIN GroupOf), NEW cursor \in 0..Len(Epics), Followed(p, got, cursor),
           NEW page, page = PageAt(cursor, Len(Visible)),
           NEW next, next = NextCursor(cursor, Len(Visible))
    PROVE  Followed(p, got \o page, next)
<1>1. PICK hi \in 0..Len(Visible) :
          /\ page = SubSeq(Visible, cursor + 1, hi) /\ page \in Seq(DOMAIN GroupOf)
          /\ DOMAIN page = 1..Len(page) /\ Len(page) = IF cursor < hi THEN hi - cursor ELSE 0
          /\ \A i \in 1..Len(page) : page[i] = Visible[cursor + i] /\ cursor + i \in 1..hi
          /\ \A k \in 1..hi : k > cursor => k - cursor \in 1..Len(page) /\ page[k - cursor] = Visible[k]
          /\ cursor <= Len(Visible) => cursor <= hi
          /\ next = IF hi = Len(Visible) THEN None ELSE hi
  BY PageShows
<1>2. /\ cursor \in Nat /\ hi \in Nat /\ Len(Visible) \in Nat /\ cursor # None /\ None \notin Nat
      /\ hi <= Len(Visible) /\ Visible \in Seq(DOMAIN GroupOf)
  BY VisibleIs, IndexFacts, ConstantFacts
<1>3. PICK all : all = got \o page
  OBVIOUS
<1>4. Elements(all) = Elements(got) \cup Elements(page)
  <2>1. page \in Seq(DOMAIN GroupOf)
    BY <1>1
  <2>2. Elements(got \o page) = Elements(got) \cup Elements(page)
    BY <2>1, ConcatElements
  <2> QED  BY <1>3, <2>2
<1>5. ASSUME NEW n \in VisibleAt
      PROVE  Epics[n] \in Elements(page) <=> Place(n) > cursor /\ Place(n) <= hi
  <2>1. Place(n) \in 1..Len(Visible) /\ Visible[Place(n)] = Epics[n]
    BY VisibleIs
  <2>2. ASSUME Epics[n] \in Elements(page)
        PROVE  Place(n) > cursor /\ Place(n) <= hi
    <3>1. PICK i \in 1..Len(page) : page[i] = Epics[n]
      BY <1>1, <2>2 DEF Elements
    <3>2. Visible[cursor + i] = Epics[n] /\ cursor + i \in 1..hi /\ i \in Nat \ {0}
      BY <1>1, <1>2, <3>1
    <3>3. cursor + i \in 1..Len(Visible)
      BY <1>2, <3>2
    <3>4. Place(n) = cursor + i
      BY <3>2, <3>3, VisibleOnce
    <3> QED  BY <1>2, <3>2, <3>4
  <2>3. ASSUME Place(n) > cursor, Place(n) <= hi
        PROVE  Epics[n] \in Elements(page)
    <3>1. Place(n) \in 1..hi
      BY <1>2, <2>1, <2>3
    <3>2. Place(n) - cursor \in DOMAIN page /\ page[Place(n) - cursor] = Epics[n]
      BY <1>1, <2>1, <2>3, <3>1
    <3> QED  BY <3>2 DEF Elements
  <2> QED  BY <2>2, <2>3
<1>6. ASSUME p.lost = {}, NEW n \in VisibleAt, Epics[n] \in Elements(p.all), next = None \/ Place(n) <= next
      PROVE  Epics[n] \in Elements(all)
  <2>1. Place(n) \in 1..Len(Visible)
    BY VisibleIs
  <2>2. Place(n) <= hi
    BY <1>1, <1>2, <1>6, <2>1
  <2>3. CASE Place(n) <= cursor
    BY <1>2, <1>4, <1>6, <2>3 DEF Followed
  <2>4. CASE Place(n) > cursor
    BY <1>4, <1>5, <2>2, <2>4
  <2> QED  BY <1>2, <2>1, <2>3, <2>4
<1>7. ASSUME ~p.gained, NEW n \in VisibleAt, Epics[n] \in Elements(all), next # None
      PROVE  Place(n) <= next
  <2>1. Place(n) \in 1..Len(Visible) /\ next = hi /\ hi # Len(Visible)
    BY <1>1, <1>7, VisibleIs
  <2>2. CASE Epics[n] \in Elements(page)
    BY <1>5, <2>1, <2>2
  <2>3. CASE Epics[n] \in Elements(got)
    <3>1. Place(n) <= cursor
      BY <1>2, <1>7, <2>3 DEF Followed
    <3>2. CASE cursor <= Len(Visible)
      BY <1>1, <1>2, <2>1, <3>1, <3>2
    <3>3. CASE ~(cursor <= Len(Visible))
      <4>1. ~(cursor + Limit < Len(Visible))
        BY <1>2, <3>3, ConstantFacts
      <4>2. next = None
        BY <4>1 DEF NextCursor
      <4> QED  BY <1>7, <4>2
    <3> QED  BY <3>2, <3>3
  <2> QED  BY <1>4, <1>7, <2>2, <2>3
<1>8. ASSUME ~p.gained, NEW i \in DOMAIN all, NEW j \in DOMAIN all, all[i] = all[j]
      PROVE  i = j
  <2>1. /\ DOMAIN got = 1..Len(got) /\ Len(got) \in Nat /\ Len(page) \in Nat
        /\ DOMAIN all = 1..(Len(got) + Len(page))
        /\ \A k \in 1..(Len(got) + Len(page)) :
               all[k] = IF k <= Len(got) THEN got[k] ELSE page[k - Len(got)]
    BY <1>1, <1>3, ConcatProperties, LenProperties
  <2>2. \A m, n \in DOMAIN got : got[m] = got[n] => m = n
    BY <1>8 DEF Followed
  <2>3. \A m, n \in DOMAIN page : page[m] = page[n] => m = n
    <3> SUFFICES ASSUME NEW m \in DOMAIN page, NEW n \in DOMAIN page, page[m] = page[n]  PROVE m = n
      OBVIOUS
    <3>0. /\ m \in 1..Len(page) /\ n \in 1..Len(page)
          /\ cursor + m \in 1..hi /\ cursor + n \in 1..hi
      BY <1>1
    <3>1. cursor + m \in 1..Len(Visible) /\ cursor + n \in 1..Len(Visible) /\ m \in Nat /\ n \in Nat
      <4>1. cursor + m <= hi /\ cursor + n <= hi /\ 1 <= cursor + m /\ 1 <= cursor + n
        BY <3>0
      <4>2. m \in Nat /\ n \in Nat
        BY <2>1, <3>0, SMTT(30)
      <4> QED  BY <1>2, <4>1, <4>2
    <3>2. Visible[cursor + m] = Visible[cursor + n]
      BY <1>1
    <3>3. cursor + m = cursor + n
      BY <3>1, <3>2, VisibleDiffers
    <3> QED  BY <1>2, <3>1, <3>3
  <2>4. \A m \in DOMAIN got : \A n \in DOMAIN page : got[m] # page[n]
    <3> SUFFICES ASSUME NEW m \in DOMAIN got, NEW n \in DOMAIN page, got[m] = page[n]  PROVE FALSE
      OBVIOUS
    <3>1. page[n] = Visible[cursor + n] /\ cursor + n \in 1..Len(Visible)
      <4>1. n \in 1..Len(page)
        BY <1>1
      <4>2. page[n] = Visible[cursor + n] /\ cursor + n \in 1..hi
        BY <1>1, <4>1
      <4> QED  BY <1>2, <4>2
    <3>2. PICK v \in VisibleAt : Visible[cursor + n] = Epics[v]
      BY <3>1, VisibleIs
    <3>3. Epics[v] \in Elements(got) /\ Epics[v] \in Elements(page)
      BY <3>1, <3>2 DEF Elements
    <3>4. Place(v) <= cursor /\ Place(v) > cursor
      BY <1>2, <1>5, <1>8, <3>3 DEF Followed
    <3> QED  BY <1>2, <3>4, VisibleIs
  <2>5. \A k \in DOMAIN all :
            \/ k \in DOMAIN got /\ all[k] = got[k]
            \/ k - Len(got) \in DOMAIN page /\ all[k] = page[k - Len(got)] /\ k \in Int
    <3>1. DOMAIN page = 1..Len(page)
      BY <1>1
    <3>2. \A k \in 1..(Len(got) + Len(page)) :
              k \in 1..Len(got) \/ (~(k <= Len(got)) /\ k - Len(got) \in 1..Len(page) /\ k \in Int)
      BY <2>1
    <3>3. \A k \in 1..Len(got) : k <= Len(got)
      BY <2>1
    <3> QED  BY <2>1, <3>1, <3>2, <3>3
  <2>6. CASE i \in DOMAIN got /\ j \in DOMAIN got
    <3>1. all[i] = got[i] /\ all[j] = got[j]
      BY <2>1, <2>6
    <3> QED  BY <1>8, <2>2, <2>6, <3>1
  <2>7. CASE i \in DOMAIN got /\ j \notin DOMAIN got
    <3>1. all[i] = got[i] /\ j - Len(got) \in DOMAIN page /\ all[j] = page[j - Len(got)]
      BY <2>1, <2>5, <2>7
    <3> QED  BY <1>8, <2>4, <2>7, <3>1
  <2>8. CASE i \notin DOMAIN got /\ j \in DOMAIN got
    <3>1. all[j] = got[j] /\ i - Len(got) \in DOMAIN page /\ all[i] = page[i - Len(got)]
      BY <2>1, <2>5, <2>8
    <3> QED  BY <1>8, <2>4, <2>8, <3>1
  <2>9. CASE i \notin DOMAIN got /\ j \notin DOMAIN got
    <3>1. /\ i - Len(got) \in DOMAIN page /\ all[i] = page[i - Len(got)] /\ i \in Int
          /\ j - Len(got) \in DOMAIN page /\ all[j] = page[j - Len(got)] /\ j \in Int
      BY <2>5, <2>9
    <3>2. i - Len(got) = j - Len(got)
      BY <1>8, <2>3, <3>1
    <3> QED  BY <2>1, <3>1, <3>2
  <2> QED  BY <2>6, <2>7, <2>8, <2>9
<1>9. ASSUME p.lost = {}, ~p.gained
      PROVE  IF next = None THEN all = Visible
             ELSE next <= Len(Visible) /\ all = SubSeq(Visible, 1, next)
  <2>1. cursor <= Len(Visible) /\ got = SubSeq(Visible, 1, cursor)
    BY <1>2, <1>9 DEF Followed
  <2>2. cursor <= hi
    BY <1>1, <2>1
  <2>3. 1 \in 1..(Len(Visible) + 1) /\ cursor \in (1 - 1)..Len(Visible) /\ hi \in cursor..Len(Visible)
    BY <1>2, <2>1, <2>2
  <2>4. all = SubSeq(Visible, 1, hi)
    <3>1. SubSeq(Visible, 1, cursor) \o SubSeq(Visible, cursor + 1, hi) = SubSeq(Visible, 1, hi)
      BY <1>2, <2>3, ConcatAdjacentSubSeq
    <3> QED  BY <1>1, <1>3, <2>1, <3>1
  <2>5. CASE hi = Len(Visible)
    BY <1>1, <1>2, <2>4, <2>5, SubSeqFull
  <2>6. CASE hi # Len(Visible)
    BY <1>1, <1>2, <2>4, <2>6
  <2> QED  BY <2>5, <2>6
<1> QED  BY <1>3, <1>6, <1>7, <1>8, <1>9 DEF Followed

LEMMA FewerBefore ==
    ASSUME NEW B, IsFiniteSet(B), NEW A \in SUBSET B, NEW n
    PROVE  /\ Cardinality({m \in A : m <= n}) <= Cardinality({m \in B : m <= n})
           /\ Cardinality({m \in A : m <= n}) \in Nat /\ Cardinality({m \in B : m <= n}) \in Nat
<1> DEFINE C == {m \in A : m <= n}
           D == {m \in B : m <= n}
<1>1. C \in SUBSET D /\ D \in SUBSET B
  OBVIOUS
<1>2. IsFiniteSet(D)
  BY <1>1, FS_Subset
<1>3. IsFiniteSet(C) /\ Cardinality(C) <= Cardinality(D)
  BY <1>1, <1>2, FS_Subset
<1> QED  BY <1>2, <1>3, FS_CardinalityType

\* Viewer loses or gains a group: what it has got of what it still sees, or saw already,
\* stays before the cursor.
LEMMA FollowedRegroup ==
    ASSUME NEW p, NEW q, NEW g, NEW got, NEW cursor, cursor \in Nat \cup {None}, q.all = p.all,
           \/ groups' = groups \ {g} /\ q.lost = p.lost \cup {g} /\ q.gained = p.gained
           \/ groups' = groups \cup {g} /\ q.lost = p.lost /\ q.gained = TRUE,
           Followed(p, got, cursor), Starts(p)
    PROVE  Followed(q, got, cursor)' /\ Starts(q)'
<1>0. IsFiniteSet(VisibleAt) /\ IsFiniteSet(VisibleAt')
  <2>1. VisibleAt' \in SUBSET (1..Len(Epics)) /\ IsFiniteSet(1..Len(Epics))
    BY IndexFacts, UpTo DEF VisibleAt
  <2> QED  BY <2>1, VisibleFinite, FS_Subset
<1>1. CASE groups' = groups \ {g} /\ q.lost = p.lost \cup {g} /\ q.gained = p.gained
  <2>1. VisibleAt' \in SUBSET VisibleAt
    BY <1>1 DEF VisibleAt
  <2>2. \A n : Place(n)' <= Place(n) /\ Place(n)' \in Nat /\ Place(n) \in Nat
    BY <1>0, <2>1, FewerBefore DEF Place
  <2>3. q.lost # {}
    BY <1>1
  <2>4. ASSUME ~q.gained, cursor # None, NEW n \in VisibleAt', Epics[n] \in Elements(got)
        PROVE  Place(n)' <= cursor
    <3>1. Place(n) <= cursor
      BY <1>1, <2>1, <2>4 DEF Followed
    <3> QED  BY <2>2, <2>4, <3>1
  <2>5. ~q.gained => \A m, n \in DOMAIN got : got[m] = got[n] => m = n
    BY <1>1 DEF Followed
  <2> QED  BY <2>3, <2>4, <2>5 DEF Followed, Starts
<1>2. CASE groups' = groups \cup {g} /\ q.lost = p.lost /\ q.gained = TRUE
  <2>1. VisibleAt \in SUBSET VisibleAt'
    BY <1>2 DEF VisibleAt
  <2>2. \A n : Place(n) <= Place(n)' /\ Place(n)' \in Nat /\ Place(n) \in Nat
    BY <1>0, <2>1, FewerBefore DEF Place
  <2>3. ASSUME q.lost = {}, NEW n \in VisibleAt', Epics[n] \in Elements(q.all), cursor = None \/ Place(n)' <= cursor
        PROVE  Epics[n] \in Elements(got)
    <3>1. PICK m \in VisibleAt : Epics[n] = Epics[m]
      BY <1>2, <2>3 DEF Starts
    <3>2. m = n
      BY <2>3, <3>1, IndexFacts DEF VisibleAt
    <3>3. cursor = None \/ Place(n) <= cursor
      BY <2>2, <2>3
    <3> QED  BY <1>2, <2>3, <3>1, <3>2, <3>3 DEF Followed
  <2>4. q.lost = {} => Elements(q.all) \subseteq {Epics[n] : n \in VisibleAt'}
    BY <1>2, <2>1 DEF Starts
  <2> QED  BY <1>2, <2>3, <2>4 DEF Followed, Starts
<1> QED  BY <1>1, <1>2

LEMMA InitPager == Init => PagerSound
BY ConstantFacts DEF Init, PagerSound

LEMMA PagerAt ==
    ASSUME Typed, pager # None
    PROVE  pager \in Pager /\ pager.cursor \in Nat \cup {None}
BY IndexFacts DEF Typed, TypeOK, Pager

LEMMA RegroupPager ==
    ASSUME Typed, PagerSound, NEW g \in Groups, Regroup(g)
    PROVE  PagerSound'
<1>1. job' = job
  BY DEF Regroup
<1>2. CASE pager = None
  <2>1. pager' = None
    BY <1>2 DEF Regroup
  <2>2. \A h \in Handlers, j \in Job : job[h] = j => ~(j.op = "portfolio" /\ j.result = 200)
    BY <1>2, JobAt, ConstantFacts DEF Shaped
  <2> QED  BY <1>1, <2>1, <2>2 DEF PagerSound, PageTells
<1>3. CASE pager # None
  <2>1. PICK p : p = pager
    OBVIOUS
  <2>2. p \in Pager /\ p.cursor \in Nat \cup {None}
    BY <1>3, <2>1, PagerAt
  <2>3. PICK q : /\ q = pager' /\ q # None
                 /\ \/ g \in groups /\ q = [p EXCEPT !.lost = p.lost \cup {g}]
                    \/ g \notin groups /\ q = [p EXCEPT !.gained = TRUE]
    <3>1. \/ g \in groups /\ pager' = [pager EXCEPT !.lost = pager.lost \cup {g}]
          \/ g \notin groups /\ pager' = [pager EXCEPT !.gained = TRUE]
      BY <1>3 DEF Regroup
    <3>2. pager' # None
      <4>1. PICK lost : lost = p.lost \cup {g}
        OBVIOUS
      <4>2. lost \in SUBSET Groups
        BY <2>2, <4>1 DEF Pager
      <4>3. pager' = [p EXCEPT !.lost = lost] \/ pager' = [p EXCEPT !.gained = TRUE]
        BY <2>1, <3>1, <4>1
      <4>4. pager' \in Pager
        BY <2>2, <4>2, <4>3 DEF Pager
      <4> QED  BY <4>4, ConstantFacts
    <3> QED  BY <2>1, <3>1, <3>2
  <2>4. /\ q.all = p.all /\ q.cursor = p.cursor /\ q.got = p.got /\ q.count = p.count
        /\ \/ groups' = groups \ {g} /\ q.lost = p.lost \cup {g} /\ q.gained = p.gained
           \/ groups' = groups \cup {g} /\ q.lost = p.lost /\ q.gained = TRUE
    BY <2>2, <2>3 DEF Regroup, Pager
  <2>5. Starts(p) /\ Followed(p, p.got, p.cursor)
    BY <1>3, <2>1 DEF PagerSound
  <2>6. Starts(q)' /\ Followed(q, p.got, p.cursor)'
    BY <2>2, <2>4, <2>5, FollowedRegroup
  <2>7. ~(q.lost = {} /\ ~q.gained)
    BY <2>4
  <2>8. ASSUME NEW h \in Handlers, NEW j \in Job, job'[h] = j
        PROVE  PageTells(j)'
    <3>1. j # None
      BY ConstantFacts
    <3>2. Shaped(j) /\ PageTells(j)
      BY <1>1, <2>8, <3>1, JobAt DEF PagerSound
    <3>3. ASSUME j.op = "portfolio", j.result = 200
          PROVE  Followed(q, q.got \o j.answer.page, j.answer.cursor)' /\ q.cursor # None
      <4>1. Followed(p, p.got \o j.answer.page, j.answer.cursor) /\ p.cursor # None
        BY <2>1, <3>2, <3>3 DEF PageTells
      <4>2. PICK got : got = p.got \o j.answer.page
        OBVIOUS
      <4>3. PICK c : c = j.answer.cursor
        OBVIOUS
      <4>4. c \in Nat \cup {None}
        BY <3>2, <3>3, <4>3, IndexFacts DEF Shaped, Listing
      <4>5. Followed(q, got, c)'
        BY <2>4, <2>5, <4>1, <4>2, <4>3, <4>4, FollowedRegroup
      <4> QED  BY <2>4, <4>1, <4>2, <4>3, <4>5
    <3> QED  BY <2>3, <2>7, <3>3 DEF PageTells, Followed
  <2> QED  BY <1>1, <2>3, <2>4, <2>6, <2>7, <2>8 DEF PagerSound, Followed, Starts
<1> QED  BY <1>2, <1>3

LEMMA TellsPage ==
    ASSUME groups' = groups, pager' = pager, NEW j, PageTells(j)
    PROVE  PageTells(j)'
<1>1. PICK p : p = pager
  OBVIOUS
<1>2. PICK got, c : got = p.got \o j.answer.page /\ c = j.answer.cursor
  OBVIOUS
<1>3. Followed(p, got, c)' <=> Followed(p, got, c)
  BY FollowedStays
<1>4. Visible' = Visible
  BY SameGroups
<1>5. SUFFICES ASSUME j.op = "portfolio" /\ j.result = 200
               PROVE  (pager.cursor # None /\ Followed(p, got, c)
                       /\ (pager.lost = {} /\ ~pager.gained => j.answer.count = Len(Visible)))'
  BY <1>1, <1>2 DEF PageTells, Followed
<1>6. /\ pager.cursor # None /\ Followed(p, got, c)
      /\ pager.lost = {} /\ ~pager.gained => j.answer.count = Len(Visible)
  BY <1>1, <1>2, <1>5 DEF PageTells
<1> QED  BY <1>3, <1>4, <1>6

Alone(h) == \A g \in Handlers \ {h} : job[g] # None => job[g].op # "portfolio"

LEMMA PagerStays ==
    ASSUME Typed, PagerSound, groups' = groups, pager' = pager,
           NEW h \in Handlers, NEW k, job' = [job EXCEPT ![h] = k],
           k # None => PageTells(k)' /\ (k.op = "portfolio" => Alone(h))
    PROVE  PagerSound'
<1>1. job'[h] = k /\ \A g \in Handlers \ {h} : job'[g] = job[g]
  BY DEF Typed, TypeOK
<1>2. \A f, g \in Handlers : job'[f] # None /\ job'[g] # None
                             /\ job'[f].op = "portfolio" /\ job'[g].op = "portfolio" => f = g
  <2> SUFFICES ASSUME NEW f \in Handlers, NEW g \in Handlers, job'[f] # None, job'[g] # None,
                      job'[f].op = "portfolio", job'[g].op = "portfolio", f # g
               PROVE  FALSE
    OBVIOUS
  <2>1. CASE f = h
    BY <1>1, <2>1 DEF Alone
  <2>2. CASE g = h
    BY <1>1, <2>2 DEF Alone
  <2>3. CASE f # h /\ g # h
    BY <1>1, <2>3 DEF PagerSound
  <2> QED  BY <2>1, <2>2, <2>3
<1>3. pager # None => Starts(pager)' /\ Followed(pager, pager.got, pager.cursor)'
  <2>1. PICK p : p = pager
    OBVIOUS
  <2>2. PICK got, c : got = p.got /\ c = p.cursor
    OBVIOUS
  <2>3. (Followed(p, got, c)' <=> Followed(p, got, c)) /\ (Starts(p)' <=> Starts(p))
    BY FollowedStays
  <2> QED  BY <2>1, <2>2, <2>3 DEF PagerSound, Followed, Starts
<1>4. ASSUME NEW g \in Handlers, NEW j \in Job, job'[g] = j
      PROVE  PageTells(j)'
  <2>1. CASE g = h
    BY <1>1, <1>4, <2>1, ConstantFacts
  <2>2. CASE g # h
    <3>1. PageTells(j)
      BY <1>1, <1>4, <2>2 DEF PagerSound
    <3> QED  BY <3>1, TellsPage
  <2> QED  BY <2>1, <2>2
<1> QED  BY <1>2, <1>3, <1>4 DEF PagerSound

\* The steps that neither page nor begin: the operation stays, and no page is answered.
LEMMA OtherPager ==
    ASSUME Typed, PagerSound, NEW h \in Handlers,
           \/ Refuse(h) \/ Raise(h) \/ PutRisk(h) \/ ListRisks(h) \/ ListTickets(h)
           \/ Publish(h) \/ Serve(h)
    PROVE  PagerSound'
<1>0. /\ job[h] # None /\ groups' = groups /\ pager' = pager
      /\ Refuse(h) => job[h].step = "refuse"
  BY DEF Refuse, Raise, PutRisk, ListRisks, ListTickets, Publish, Serve, At, stores
<1>1. job[h] \in Job /\ Shaped(job[h])
  BY <1>0, JobAt
<1>2. \E k : job' = [job EXCEPT ![h] = k] /\ k.op = job[h].op /\ (k.op = "portfolio" => k.result # 200)
  <2>1. CASE Refuse(h) \/ Raise(h) \/ PutRisk(h)
    <3>1. PICK result : Ends(h, result) /\ (result = 200 => PutRisk(h))
      BY <2>1 DEF Refuse, Raise, PutRisk
    <3>2. PICK k : k = [job[h] EXCEPT !.step = "record", !.result = result] /\ job' = [job EXCEPT ![h] = k]
      BY <3>1 DEF Ends
    <3>3. k.op = job[h].op /\ k.result = result
      BY <1>1, <3>2 DEF Job
    <3>4. PutRisk(h) => job[h].op = "create_risk"
      BY <1>1 DEF PutRisk, At, Shaped
    <3> QED  BY <3>1, <3>2, <3>3, <3>4
  <2>2. CASE ListRisks(h) \/ ListTickets(h)
    <3>1. PICK k : /\ job' = [job EXCEPT ![h] = k]
                   /\ \/ k = [job[h] EXCEPT !.risks = risk, !.step = "list_tickets"]
                      \/ k = [job[h] EXCEPT !.tickets = ticket, !.step = "publish"]
      BY <2>2, ZenonT(30) DEF ListRisks, ListTickets
    <3>2. job[h].op = "refresh" /\ k.op = job[h].op
      BY <1>1, <2>2, <3>1 DEF ListRisks, ListTickets, At, Shaped, Job
    <3> QED  BY <3>1, <3>2
  <2>3. CASE Publish(h)
    <3>1. PICK k : /\ job' = [job EXCEPT ![h] = k]
                   /\ k = [job[h] EXCEPT !.risks = NoRisks, !.tickets = NoTickets, !.step = "record", !.result = 200]
      BY <2>3 DEF Publish
    <3>2. job[h].op = "refresh" /\ k.op = job[h].op
      BY <1>1, <2>3, <3>1 DEF Publish, At, Shaped, Job
    <3> QED  BY <3>1, <3>2
  <2>4. CASE Serve(h)
    <3>1. PICK a : job' = [job EXCEPT ![h].answer = a, ![h].step = "record", ![h].result = 200]
      BY <2>4 DEF Serve
    <3>2. PICK k : k = [job[h] EXCEPT !.answer = a, !.step = "record", !.result = 200]
      OBVIOUS
    <3>3. job[h].op = "orphans"
      BY <1>1, <2>4 DEF Serve, At, Shaped
    <3>4. k.op = job[h].op
      BY <1>1, <3>2 DEF Job
    <3>5. job' = [job EXCEPT ![h] = k]
      BY <3>1, <3>2
    <3> QED  BY <3>3, <3>4, <3>5
  <2> QED  BY <2>1, <2>2, <2>3, <2>4
<1>3. PICK k : job' = [job EXCEPT ![h] = k] /\ k.op = job[h].op /\ (k.op = "portfolio" => k.result # 200)
  BY <1>2
<1>4. PageTells(k)' /\ (k.op = "portfolio" => Alone(h))
  BY <1>0, <1>3 DEF PageTells, Alone, PagerSound
<1> QED  BY <1>0, <1>3, <1>4, PagerStays

LEMMA BeginPager ==
    ASSUME Typed, PagerSound, NEW h \in Handlers, Begin(h)
    PROVE  PagerSound'
<1>1. PICK op \in scenario.serves[h], p \in scenario.askers :
          /\ job' = [job EXCEPT ![h] = Asked(op, p)]
          /\ op = "portfolio" =>
                 p = Viewer /\ ~(\E g \in Handlers : job[g] # None /\ job[g].op = "portfolio")
  BY DEF Begin
<1>2. PICK k : k = Asked(op, p)
  OBVIOUS
<1>3. groups' = groups /\ pager' = pager /\ k.op = op /\ k.result = 500
  BY <1>2 DEF Begin, stores, Asked
<1>4. PageTells(k)' /\ (k.op = "portfolio" => Alone(h))
  BY <1>1, <1>3 DEF PageTells, Alone
<1> QED  BY <1>1, <1>2, <1>3, <1>4, PagerStays, ZenonT(30)

LEMMA RecordPager ==
    ASSUME Typed, PagerSound, NEW h \in Handlers, Record(h)
    PROVE  PagerSound'
<1>0. job[h] # None /\ groups' = groups /\ pager' = pager
  BY DEF Record, At, stores
<1>1. PICK j : j = job[h]
  OBVIOUS
<1>2. j \in Job /\ PageTells(j)
  BY <1>0, <1>1, JobAt DEF PagerSound
<1>3. PICK k : job' = [job EXCEPT ![h] = k] /\ k = [job[h] EXCEPT !.step = "send"]
  BY DEF Record
<1>4. k.op = j.op /\ k.result = j.result /\ k.answer = j.answer
  BY <1>1, <1>2, <1>3 DEF Job
<1>5. PageTells(k)
  BY <1>2, <1>4 DEF PageTells
<1>6. PageTells(k)' /\ (k.op = "portfolio" => Alone(h))
  BY <1>0, <1>1, <1>4, <1>5, TellsPage DEF Alone, PagerSound
<1> QED  BY <1>0, <1>3, <1>6, PagerStays

LEMMA FreshFollowed ==
    ASSUME NEW p, p.lost = {}, p.gained = FALSE, p.all = Visible, p.got = <<>>
    PROVE  Followed(p, <<>>, 0) /\ Starts(p)
<1>1. \A n \in VisibleAt : Place(n) \in Nat \ {0}
  BY VisibleIs
<1>2. SubSeq(Visible, 1, 0) = <<>> /\ Len(Visible) \in Nat /\ 0 # None
  <2>1. SubSeq(Visible, 1, 0) = <<>>
    BY VisibleIs, SubSeqProperties, EmptySeq
  <2> QED  BY <2>1, VisibleIs, IndexFacts, ConstantFacts
<1>3. DOMAIN <<>> = {} /\ Elements(<<>>) = {}
  BY DEF Elements
<1>4. Elements(Visible) \subseteq {Epics[n] : n \in VisibleAt}
  BY VisibleIs DEF Elements
<1>5. \A n \in VisibleAt : ~(0 = None \/ Place(n) <= 0)
  BY <1>1, <1>2
<1>6. 0 <= Len(Visible)
  BY <1>2
<1>7. Starts(p)
  BY <1>4 DEF Starts
<1>8. Followed(p, <<>>, 0)
  BY <1>2, <1>3, <1>5, <1>6 DEF Followed
<1> QED  BY <1>7, <1>8

\* The handler of a page: the client is at the cursor it asked for, and has the page to come.
LEMMA PagePager ==
    ASSUME Typed, PagerSound, NEW h \in Handlers, Page(h)
    PROVE  PagerSound'
<1>0. job[h] # None /\ groups' = groups /\ job[h].step = "page"
  BY DEF Page, At, stores
<1>1. job[h] \in Job /\ job[h].op = "portfolio"
  BY <1>0, JobAt DEF Shaped
<1>2. PICK p : p = pager'
  OBVIOUS
<1>3. PICK cursor : cursor = IF pager = None \/ pager.cursor = None THEN 0 ELSE pager.cursor
  OBVIOUS
<1>4. /\ cursor \in 0..Len(Epics) /\ p.cursor = cursor /\ p.got \in Seq(DOMAIN GroupOf)
      /\ Followed(p, p.got, cursor) /\ Starts(p)
  <2>1. CASE pager = None \/ pager.cursor = None
    <3>1. cursor = 0 /\ p = [cursor |-> 0, got |-> <<>>, count |-> Len(Visible), all |-> Visible,
                             lost |-> {}, gained |-> FALSE]
      BY <1>2, <1>3, <2>1 DEF Page
    <3>2. p.cursor = 0 /\ p.got = <<>> /\ p.lost = {} /\ p.gained = FALSE /\ p.all = Visible
      BY <3>1
    <3>3. Followed(p, <<>>, 0) /\ Starts(p)
      BY <3>2, FreshFollowed
    <3> QED  BY <3>1, <3>2, <3>3, IndexFacts, EmptySeq
  <2>2. CASE pager # None /\ pager.cursor # None
    <3>1. cursor = pager.cursor /\ p = pager
      BY <1>2, <1>3, <2>2 DEF Page
    <3>2. pager \in Pager
      BY <2>2, PagerAt
    <3>3. cursor \in 0..Len(Epics) /\ p.got \in Seq(DOMAIN GroupOf) /\ p.cursor = cursor
      BY <2>2, <3>1, <3>2 DEF Pager
    <3>4. Followed(p, p.got, p.cursor) /\ Starts(p)
      BY <2>2, <3>1 DEF PagerSound
    <3> QED  BY <3>3, <3>4
  <2> QED  BY <2>1, <2>2
<1>5. PICK got, page, next : /\ got = p.got /\ page = PageAt(cursor, Len(Visible))
                             /\ next = NextCursor(cursor, Len(Visible))
  OBVIOUS
<1>6. Followed(p, got \o page, next)
  BY <1>4, <1>5, FollowsOn
<1>7. /\ Followed(p, got, cursor)' /\ Starts(p)' /\ Followed(p, got \o page, next)'
      /\ Len(Visible)' = Len(Visible)
  BY <1>0, <1>4, <1>5, <1>6, FollowedStays, SameGroups
<1>8. PICK a : a = [page |-> page, count |-> Len(Visible), cursor |-> next]
  OBVIOUS
<1>9. job' = [job EXCEPT ![h].answer = a, ![h].step = "record", ![h].result = 200]
  BY <1>3, <1>5, <1>8 DEF Page
<1>10. PICK k : k = [job[h] EXCEPT !.answer = a, !.step = "record", !.result = 200]
  OBVIOUS
<1>11. job' = [job EXCEPT ![h] = k] /\ k.op = "portfolio" /\ k.answer = a
  <2>1. job' = [job EXCEPT ![h] = k]
    BY <1>9, <1>10
  <2>2. k.op = "portfolio" /\ k.answer = a
    BY <1>1, <1>10 DEF Job
  <2> QED  BY <2>1, <2>2
<1>12. job'[h] = k /\ \A g \in Handlers \ {h} : job'[g] = job[g]
  BY <1>11 DEF Typed, TypeOK
<1>13. \A g \in Handlers \ {h} : job'[g] # None => job'[g].op # "portfolio"
  BY <1>0, <1>1, <1>12 DEF PagerSound
<1>14. PageTells(k)'
  <2>1. a.page = page /\ a.cursor = next /\ a.count = Len(Visible)'
    BY <1>7, <1>8
  <2>2. PICK all : all = got \o page
    OBVIOUS
  <2>3. Followed(p, all, next)' /\ all = p.got \o k.answer.page /\ next = k.answer.cursor
    BY <1>5, <1>7, <1>11, <2>1, <2>2
  <2>4. p.cursor # None /\ k.answer.count = Len(Visible)'
    BY <1>4, <1>11, <2>1, ConstantFacts, IndexFacts
  <2> QED  BY <1>2, <2>3, <2>4, ZenonT(30) DEF PageTells, Followed
<1>15. \A g \in Handlers, j \in Job : job'[g] = j => PageTells(j)'
  <2> SUFFICES ASSUME NEW g \in Handlers, NEW j \in Job, job'[g] = j  PROVE PageTells(j)'
    OBVIOUS
  <2>1. CASE g = h
    BY <1>12, <1>14, <2>1
  <2>2. CASE g # h
    <3>1. j.op # "portfolio"
      BY <1>13, <2>2, ConstantFacts
    <3> QED  BY <3>1 DEF PageTells
  <2> QED  BY <2>1, <2>2
<1>16. Starts(pager)' /\ Followed(pager, pager.got, pager.cursor)' /\ pager'.cursor # None
  <2>1. cursor # None
    BY <1>4, ConstantFacts, IndexFacts
  <2> QED  BY <1>2, <1>4, <1>5, <1>7, <2>1 DEF Starts, Followed
<1>17. \A f, g \in Handlers : job'[f] # None /\ job'[g] # None
                             /\ job'[f].op = "portfolio" /\ job'[g].op = "portfolio" => f = g
  BY <1>13
<1> QED  BY <1>15, <1>16, <1>17 DEF PagerSound

\* The page goes out: the client has it and goes on.
LEMMA SendPager ==
    ASSUME Typed, PagerSound, NEW h \in Handlers, Send(h)
    PROVE  PagerSound'
<1>0. job[h] # None /\ groups' = groups /\ job' = [job EXCEPT ![h] = None]
  BY DEF Send, At, stores
<1>1. CASE pager' = pager
  BY <1>0, <1>1, PagerStays
<1>2. CASE job[h].op = "portfolio" /\ job[h].result = 200 /\ Turn(job[h].answer)
  <2>1. PICK p, j : p = pager /\ j = job[h]
    OBVIOUS
  <2>2. j \in Job /\ j.answer \in Listing /\ p \in Pager
    BY <1>0, <1>2, <2>1, JobAt, PagerAt DEF Shaped
  <2>3. p.cursor # None /\ Followed(p, p.got \o j.answer.page, j.answer.cursor)
        /\ (p.lost = {} /\ ~p.gained => j.answer.count = Len(Visible))
    <3>1. PageTells(j)
      BY <2>1, <2>2 DEF PagerSound
    <3> QED  BY <1>2, <2>1, <3>1 DEF PageTells
  <2>4. PICK got, next : got = p.got \o j.answer.page /\ next = j.answer.cursor
    OBVIOUS
  <2>5. PICK q : q = pager'
    OBVIOUS
  <2>6. /\ q.got = got /\ q.cursor = next /\ q.count = j.answer.count
        /\ q.all = p.all /\ q.lost = p.lost /\ q.gained = p.gained
    <3>1. q = [p EXCEPT !.got = got, !.count = j.answer.count, !.cursor = next]
      BY <1>2, <2>1, <2>4, <2>5, <2>2 DEF Turn, Pager
    <3> QED  BY <2>2, <3>1 DEF Pager
  <2>7. Followed(p, got, next) /\ Starts(p)
    <3>1. pager # None
      BY <1>0, <1>2, JobAt DEF Shaped
    <3> QED  BY <2>1, <2>3, <2>4, <3>1 DEF PagerSound
  <2>8. Followed(q, got, next)' /\ Starts(q)'
    BY <1>0, <2>6, <2>7, FollowedStays
  <2>9. q.lost = {} /\ ~q.gained /\ q.cursor = None => q.count = Len(q.got)
    <3>1. p.lost = {} /\ ~p.gained /\ next = None => got = Visible
      BY <2>7 DEF Followed
    <3> QED  BY <2>3, <2>6, <3>1
  <2>10. job'[h] = None /\ \A g \in Handlers \ {h} : job'[g] = job[g]
    BY <1>0 DEF Typed, TypeOK
  <2>11. \A g \in Handlers : job'[g] # None => job'[g].op # "portfolio"
    BY <1>0, <1>2, <2>10 DEF PagerSound
  <2>12. \A g \in Handlers, k \in Job : job'[g] = k => PageTells(k)'
    <3> SUFFICES ASSUME NEW g \in Handlers, NEW k \in Job, job'[g] = k  PROVE PageTells(k)'
      OBVIOUS
    <3>1. k.op # "portfolio"
      BY <2>11, ConstantFacts
    <3> QED  BY <3>1 DEF PageTells
  <2>13. Starts(pager)' /\ Followed(pager, pager.got, pager.cursor)'
    BY <2>5, <2>6, <2>8 DEF Starts, Followed
  <2>14. pager'.lost = {} /\ ~pager'.gained /\ pager'.cursor = None => pager'.count = Len(pager'.got)
    BY <2>5, <2>9
  <2> QED  BY <2>11, <2>12, <2>13, <2>14 DEF PagerSound
<1> QED  BY <1>1, <1>2 DEF Send

LEMMA NextPager == Typed /\ PagerSound /\ [Next]_vars => PagerSound'
<1> SUFFICES ASSUME Typed, PagerSound, [Next]_vars  PROVE PagerSound'
  OBVIOUS
<1>1. ASSUME groups' = groups, pager' = pager, job' = job
      PROVE  PagerSound'
  <2>1. CASE Handlers = {}
    <3>1. PICK p, got, c : p = pager /\ got = pager.got /\ c = pager.cursor
      OBVIOUS
    <3>2. pager # None => Starts(p)' /\ Followed(p, got, c)'
      BY <1>1, <3>1, FollowedStays DEF PagerSound
    <3> QED  BY <1>1, <2>1, <3>1, <3>2 DEF PagerSound, Starts, Followed
  <2>2. ASSUME NEW h \in Handlers
        PROVE  PagerSound'
    <3>1. PICK k : k = job[h]
      OBVIOUS
    <3>2. job' = [job EXCEPT ![h] = k]
      BY <1>1, <3>1 DEF Typed, TypeOK
    <3>3. k # None => k \in Job
      BY <3>1, JobAt
    <3>4. k # None => PageTells(k)
      BY <3>1, <3>3 DEF PagerSound
    <3>5. k # None => PageTells(k)' /\ (k.op = "portfolio" => Alone(h))
      BY <1>1, <3>1, <3>4, TellsPage DEF PagerSound, Alone
    <3> QED  BY <1>1, <3>2, <3>5, PagerStays
  <2> QED  BY <2>1, <2>2
<1>2. CASE \E i \in Items : Rewrite(i)
  BY <1>1, <1>2 DEF Rewrite
<1>3. CASE \E g \in Groups : Regroup(g)
  BY <1>3, RegroupPager
<1>4. CASE Restart
  <2>1. pager' = None /\ \A h \in Handlers : job'[h] = None
    BY <1>4 DEF Restart, InitialProcess
  <2> QED  BY <2>1, ConstantFacts DEF PagerSound
<1>5. ASSUME NEW h \in Handlers,
             \/ Begin(h) \/ Refuse(h) \/ Raise(h) \/ PutRisk(h)
             \/ ListRisks(h) \/ ListTickets(h) \/ Publish(h) \/ Serve(h)
             \/ Page(h) \/ Record(h) \/ Send(h)
      PROVE  PagerSound'
  BY <1>5, OtherPager, BeginPager, PagePager, RecordPager, SendPager
<1>6. CASE Idle \/ UNCHANGED vars
  BY <1>1, <1>6 DEF Idle, vars, stores
<1> QED  BY <1>2, <1>3, <1>4, <1>5, <1>6 DEF Next

LEMMA AsManyAsPlaces ==
    ASSUME NEW S, NEW s \in Seq(S), \A m, n \in DOMAIN s : s[m] = s[n] => m = n
    PROVE  Cardinality(Elements(s)) = Len(s)
<1>1. DOMAIN s = 1..Len(s) /\ Len(s) \in Nat
  BY LenProperties
<1>2. s \in Bijection(1..Len(s), Elements(s))
  <2>1. s \in [1..Len(s) -> Elements(s)]
    BY <1>1, LenProperties DEF Elements
  <2>2. s \in Injection(1..Len(s), Elements(s))
    BY <1>1, <2>1 DEF Injection, IsInjective
  <2>3. s \in Surjection(1..Len(s), Elements(s))
    BY <1>1, <2>1 DEF Surjection, Elements
  <2> QED  BY <2>2, <2>3 DEF Bijection
<1>3. IsFiniteSet(1..Len(s)) /\ Cardinality(1..Len(s)) = Len(s)
  BY <1>1, UpTo
<1>4. Cardinality(Elements(s)) = Cardinality(1..Len(s))
  BY <1>2, <1>3, FS_Bijection DEF ExistsBijection
<1> QED  BY <1>3, <1>4

\* GET /portfolio followed to the end of its cursors, whatever groups come and go: what a
\* client could see when it began it has seen if it lost no group, nothing twice if it gained
\* none; and if neither, the pages are the list, in its order, and as long as announced.
THEOREM PagesAddUp == Spec => []PagedOnce
<1>1. Typed /\ PagerSound => PagedOnce
  <2> SUFFICES ASSUME Typed, PagerSound, pager # None, pager.cursor = None
               PROVE  /\ pager.lost = {} => Elements(pager.all) \subseteq Elements(pager.got)
                      /\ ~pager.gained => Cardinality(Elements(pager.got)) = Len(pager.got)
                      /\ pager.lost = {} /\ ~pager.gained =>
                             pager.got = pager.all /\ pager.count = Len(pager.got)
    BY DEF PagedOnce
  <2>1. Starts(pager) /\ Followed(pager, pager.got, None)
        /\ (pager.lost = {} /\ ~pager.gained => pager.count = Len(pager.got))
    BY DEF PagerSound
  <2>2. pager.lost = {} => Elements(pager.all) \subseteq Elements(pager.got)
    BY <2>1 DEF Starts, Followed
  <2>3. ~pager.gained => Cardinality(Elements(pager.got)) = Len(pager.got)
    <3>1. pager.got \in Seq(DOMAIN GroupOf)
      BY PagerAt DEF Pager
    <3>2. ~pager.gained => \A m, n \in DOMAIN pager.got : pager.got[m] = pager.got[n] => m = n
      BY <2>1 DEF Followed
    <3> QED  BY <3>1, <3>2, AsManyAsPlaces
  <2>4. pager.lost = {} /\ ~pager.gained => pager.got = pager.all
    BY <2>1 DEF Starts, Followed
  <2> QED  BY <2>1, <2>2, <2>3, <2>4
<1> QED  BY TypedAlways, InitPager, NextPager, <1>1, PTL DEF Spec
=============================================================================
