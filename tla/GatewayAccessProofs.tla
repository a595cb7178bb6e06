------------------------ MODULE GatewayAccessProofs ------------------------
(***************************************************************************)
(* What the caches promise whatever their lifetimes, the page size and the *)
(* number of threads, tokens and spaces: a revoked membership is not shown *)
(* for longer, and an answer is exact in time.  What the limiter promises  *)
(* for any limit and window: it refuses nobody too early.                  *)
(***************************************************************************)
EXTENDS GatewayAccess, FiniteSetTheorems, TLAPS

ReadSteps == {"token", "exchange", "spaces", "page", "store", "answer"}
LimitedSteps == {"scan", "scanned", "evict", "count", "record", "refused"}

\* The jobs of a route that filters by membership.
ReadJob == [op : {"read"}, step : ReadSteps, user : Users, token : Tokens \cup {None},
            page : Nat, value : SUBSET Spaces, fallback : BOOLEAN, began : Times,
            users : {{}}, recent : {{}}]

\* A request for what is limited; the caches do not depend on the rest of it.
Limited(j) == {"op", "step"} \subseteq DOMAIN j /\ j.op = "limited" /\ j.step \in LimitedSteps

Typed ==
    /\ scenario \in Scenarios /\ now \in Times
    /\ member \in [Users -> SUBSET Spaces]
    /\ token_cache \in [Users -> [token : Tokens, expires : Nat] \cup {None}]
    /\ space_cache \in [Tokens -> [value : SUBSET Spaces, expires : Nat] \cup {None}]
    /\ last_spaces \in [Tokens -> [value : SUBSET Spaces, at : Times] \cup {None}]
    /\ left \in [Users -> [Spaces -> Times \cup {None}]] /\ changed \in [Users -> Times]
    /\ DOMAIN job = Handlers /\ job = [h \in Handlers |-> job[h]]

\* GitLab's past is not in the future.
Past ==
    \A u \in Users :
        changed[u] <= now /\ \A s \in Spaces : left[u][s] # None => left[u][s] <= now

\* s was u's at t or later.
Since(u, s, t) == LastMember(u, s) # None /\ t <= LastMember(u, s)

\* The first n pages of S.
FirstPages(S, n) == {s \in S : Cardinality({r \in S : r < s}) < n * PerPage}

\* A user's entry in the cache of memberships was read from GitLab within MaxCall of when
\* it was stored; if nothing has changed since the reading began it is exact.
CacheSound ==
    \A u \in Users : \A t \in TokensOf[u] : space_cache[t] # None =>
        /\ space_cache[t].expires <= now + Ttl
        /\ \A s \in space_cache[t].value :
               LastMember(u, s) # None /\ space_cache[t].expires <= LastMember(u, s) + MaxCall + Ttl
        /\ space_cache[t].expires > changed[u] + Ttl + MaxCall => space_cache[t].value = member[u]

LastSound ==
    \A u \in Users : \A t \in TokensOf[u] : last_spaces[t] # None =>
        /\ last_spaces[t].at <= now
        /\ \A s \in last_spaces[t].value :
               LastMember(u, s) # None /\ last_spaces[t].at <= LastMember(u, s) + MaxCall

TokensSound == \A u \in Users : token_cache[u] # None => token_cache[u].token \in TokensOf[u]

\* A membership being read, page by page.
Reading(j) ==
    /\ ~j.fallback /\ j.began <= now /\ now <= j.began + MaxCall
    /\ \A s \in j.value : Since(j.user, s, j.began)
    /\ changed[j.user] < j.began =>
           j.value = IF j.step = "page" THEN FirstPages(member[j.user], j.page - 1) ELSE member[j.user]

\* What is about to be answered.
Answering(j) ==
    /\ \A s \in j.value :
           /\ LastMember(j.user, s) # None
           /\ now <= LastMember(j.user, s) + MaxCall + (IF j.fallback THEN LastKnownMaxAge ELSE Ttl)
    /\ ~j.fallback /\ now > changed[j.user] + Ttl + MaxCall => j.value = member[j.user]

ReadSound(j) ==
    /\ j \in ReadJob
    /\ j.step \in {"token", "exchange", "spaces"} => j.value = {} /\ j.page = 1 /\ ~j.fallback
    /\ j.step \in {"spaces", "page", "store", "answer"} => j.token \in TokensOf[j.user]
    /\ j.step = "page" => j.page \in Nat \ {0}
    /\ j.step \in {"page", "store"} => Reading(j)
    /\ j.step = "answer" => Answering(j)

JobsSound == \A h \in Handlers : job[h] # None => ReadSound(job[h]) \/ Limited(job[h])

Inv == Typed /\ Past /\ CacheSound /\ LastSound /\ TokensSound /\ JobsSound
-----------------------------------------------------------------------------
LEMMA ConstantFacts ==
    /\ Scenarios \subseteq Scenario
    /\ \A u, v \in Users : u # v => TokensOf[u] \cap TokensOf[v] = {}
    /\ Spaces \subseteq Nat /\ IsFiniteSet(Spaces) /\ None \notin Nat
    /\ \A u \in Users : TokensOf[u] \subseteq Tokens
    /\ PerPage \in Nat \ {0} /\ Ttl \in Nat /\ LastKnownMaxAge \in Nat /\ MaxCall \in Nat
    /\ MaxTime \in Nat
BY GatewayAccessAssumption DEF GatewayAccessAssumption

LEMMA LastTyped ==
    ASSUME Typed, NEW u \in Users, NEW s \in Spaces, LastMember(u, s) # None
    PROVE  LastMember(u, s) \in Times /\ LastMember(u, s) \in Nat
BY ConstantFacts DEF Typed, LastMember, Times

(* Where the clock and GitLab stand still. *)

Still == UNCHANGED <<scenario, now, gitlab>>

LEMMA SameMember ==
    ASSUME Still, NEW u, NEW s
    PROVE  LastMember(u, s)' = LastMember(u, s)
BY DEF Still, LastMember, gitlab

LEMMA SameJob ==
    ASSUME Still, NEW j, ReadSound(j)
    PROVE  ReadSound(j)'
<1>1. \A u, s : LastMember(u, s)' = LastMember(u, s)
  BY SameMember
<1>2. now' = now /\ member' = member /\ changed' = changed
  BY DEF Still, gitlab
<1>3. Reading(j) => Reading(j)'
  BY <1>1, <1>2 DEF Reading, Since
<1>4. Answering(j) => Answering(j)'
  BY <1>1, <1>2 DEF Answering
<1> QED  BY <1>3, <1>4 DEF ReadSound

\* A step of thread h that leaves it with job k, and the caches with what they held or less.
LEMMA StillStep ==
    ASSUME Inv, Still, NEW h \in Handlers, NEW k,
           job' = [job EXCEPT ![h] = k], k # None => ReadSound(k) \/ Limited(k)
    PROVE  /\ JobsSound' /\ Past'
           /\ DOMAIN job' = Handlers /\ job' = [g \in Handlers |-> job'[g]]
<1>1. DOMAIN job = Handlers
  BY DEF Inv, Typed
<1>2. /\ DOMAIN job' = Handlers /\ job' = [g \in Handlers |-> job'[g]]
      /\ job'[h] = k /\ \A g \in Handlers \ {h} : job'[g] = job[g]
  BY <1>1
<1>3. ASSUME NEW g \in Handlers, job'[g] # None  PROVE (ReadSound(job[g]) \/ Limited(job[g]))'
  <2>1. PICK j : j = job'[g]
    OBVIOUS
  <2>2. ReadSound(j) \/ Limited(j)
    BY <1>2, <1>3, <2>1 DEF Inv, JobsSound
  <2>3. ReadSound(j)' \/ Limited(j)
    BY <2>2, SameJob
  <2> QED  BY <2>1, <2>3 DEF Limited
<1>4. Past'
  BY DEF Inv, Past, Still, gitlab
<1> QED  BY <1>2, <1>3, <1>4 DEF JobsSound

\* Entries that are swept are gone, the others stay.
LEMMA StillCaches ==
    ASSUME Inv, Still, UNCHANGED last_spaces,
           \A u \in Users : token_cache'[u] \in {token_cache[u], None},
           \A t \in Tokens : space_cache'[t] \in {space_cache[t], None}
    PROVE  CacheSound' /\ LastSound' /\ TokensSound'
<1>1. \A u, s : LastMember(u, s)' = LastMember(u, s)
  BY SameMember
<1>2. now' = now /\ member' = member /\ changed' = changed
  BY DEF Still, gitlab
<1>3. CacheSound'
  <2>1. ASSUME NEW u \in Users, NEW t \in TokensOf[u], space_cache'[t] # None
        PROVE  /\ space_cache'[t].expires <= now' + Ttl
               /\ \A s \in space_cache'[t].value :
                      /\ LastMember(u, s)' # None
                      /\ space_cache'[t].expires <= LastMember(u, s)' + MaxCall + Ttl
               /\ space_cache'[t].expires > changed'[u] + Ttl + MaxCall
                      => space_cache'[t].value = member'[u]
    <3>1. t \in Tokens
      BY ConstantFacts
    <3>2. space_cache'[t] = space_cache[t]
      BY <2>1, <3>1
    <3> QED  BY <1>1, <1>2, <2>1, <3>2 DEF Inv, CacheSound
  <2> QED  BY <2>1 DEF CacheSound
<1>4. LastSound'
  BY <1>1, <1>2 DEF Inv, LastSound
<1>5. TokensSound'
  BY DEF Inv, TokensSound
<1> QED  BY <1>3, <1>4, <1>5

LEMMA JobAt ==
    ASSUME Inv, NEW h \in Handlers, job[h] # None
    PROVE  ReadSound(job[h]) \/ Limited(job[h])
BY DEF Inv, JobsSound

\* The job of a thread at a step of a read.
LEMMA ReadAt ==
    ASSUME Inv, NEW h \in Handlers, NEW step \in ReadSteps, At(h, step)
    PROVE  ReadSound(job[h]) /\ job[h] \in ReadJob /\ job[h].step = step /\ job[h] # None
BY JobAt DEF At, Limited, LimitedSteps, ReadSteps, ReadSound

LEMMA LimitedAt ==
    ASSUME Inv, NEW h \in Handlers, NEW step \in LimitedSteps, At(h, step)
    PROVE  Limited(job[h]) /\ job[h].step = step /\ job[h] # None
BY JobAt DEF At, LimitedSteps, ReadSteps, ReadSound, ReadJob
-----------------------------------------------------------------------------
LEMMA InitInv == Init => Inv
<1> SUFFICES ASSUME Init  PROVE Inv
  OBVIOUS
<1>1. 0 \in Times
  BY ConstantFacts DEF Times
<1>2. Typed
  BY <1>1 DEF Init, Typed
<1>3. Past
  BY ConstantFacts DEF Init, Past
<1>4. CacheSound /\ LastSound
  BY ConstantFacts DEF Init, CacheSound, LastSound
<1>5. TokensSound /\ JobsSound
  BY DEF Init, TokensSound, JobsSound
<1> QED  BY <1>2, <1>3, <1>4, <1>5 DEF Inv

\* A step of thread h that does not touch the caches.
LEMMA QuietStep ==
    ASSUME Inv, Still, UNCHANGED caches, NEW h \in Handlers, NEW k,
           job' = [job EXCEPT ![h] = k], k # None => ReadSound(k) \/ Limited(k)
    PROVE  Inv'
<1>1. CacheSound' /\ LastSound' /\ TokensSound'
  BY StillCaches DEF caches
<1>2. /\ JobsSound' /\ Past'
      /\ DOMAIN job' = Handlers /\ job' = [g \in Handlers |-> job'[g]]
  BY StillStep
<1>3. Typed'
  BY <1>2 DEF Inv, Typed, Still, gitlab, caches
<1> QED  BY <1>1, <1>2, <1>3 DEF Inv

LEMMA EndKeeps ==
    ASSUME Inv, NEW h \in Handlers, Answer(h) \/ Raises(h)
    PROVE  Inv'
BY QuietStep DEF Answer, Raises, Finish, Still

LEMMA LimitedMoves ==
    ASSUME NEW j, Limited(j), NEW step \in LimitedSteps, NEW x, NEW y
    PROVE  /\ Limited([j EXCEPT !.step = step]) /\ Limited([j EXCEPT !.users = x, !.step = step])
           /\ Limited([j EXCEPT !.users = x]) /\ Limited([j EXCEPT !.recent = y, !.step = step])
BY DEF Limited

LEMMA LimitedKeeps ==
    ASSUME Inv, NEW h \in Handlers,
           BeginLimited(h) \/ Scan(h) \/ Scanned(h) \/ Evict(h) \/ Count(h) \/ RecordHit(h)
    PROVE  Inv'
<1>0. Still /\ UNCHANGED caches
  BY DEF BeginLimited, Scan, Scanned, Evict, Count, RecordHit, Still
<1>1. \E k : job' = [job EXCEPT ![h] = k] /\ (k # None => Limited(k))
  <2>1. CASE BeginLimited(h)
    <3>1. PICK u \in Users :
              job' = [job EXCEPT ![h] =
                  [op |-> "limited", step |-> "scan", user |-> u, token |-> None, page |-> 1,
                   value |-> {}, fallback |-> FALSE, began |-> now, users |-> {}, recent |-> {}]]
      BY <2>1 DEF BeginLimited, Begin
    <3>2. Limited([op |-> "limited", step |-> "scan", user |-> u, token |-> None, page |-> 1,
                   value |-> {}, fallback |-> FALSE, began |-> now, users |-> {}, recent |-> {}])
      BY DEF Limited, LimitedSteps
    <3> QED  BY <3>1, <3>2
  <2>2. CASE Scan(h)
    <3>1. job' = [job EXCEPT ![h] = [job[h] EXCEPT !.users = Known, !.step = "scanned"]]
      BY <2>2 DEF Scan
    <3>2. Limited(job[h])
      BY <2>2, LimitedAt DEF Scan, LimitedSteps
    <3> QED  BY <3>1, <3>2, LimitedMoves DEF LimitedSteps
  <2>3. CASE Scanned(h)
    <3>1. Limited(job[h])
      BY <2>3, LimitedAt DEF Scanned, LimitedSteps
    <3>2. \/ job' = [job EXCEPT ![h] = None]
          \/ \E x : job' = [job EXCEPT ![h] = [job[h] EXCEPT !.users = x, !.step = "evict"]]
      BY <2>3 DEF Scanned, Finish
    <3> QED  BY <3>1, <3>2, LimitedMoves DEF LimitedSteps
  <2>4. CASE Evict(h)
    <3>1. Limited(job[h])
      BY <2>4, LimitedAt DEF Evict, LimitedSteps
    <3>2. \/ job' = [job EXCEPT ![h] = None]
          \/ job' = [job EXCEPT ![h] = [job[h] EXCEPT !.step = "count"]]
          \/ \E x : job' = [job EXCEPT ![h] = [job[h] EXCEPT !.users = x]]
      BY <2>4 DEF Evict, Finish, Goto
    <3>3. \A x : Limited([job[h] EXCEPT !.users = x])
      BY <3>1, LimitedMoves DEF LimitedSteps
    <3>4. Limited([job[h] EXCEPT !.step = "count"])
      BY <3>1, LimitedMoves DEF LimitedSteps
    <3> QED  BY <3>2, <3>3, <3>4
  <2>5. CASE Count(h)
    <3>1. Limited(job[h])
      BY <2>5, LimitedAt DEF Count, LimitedSteps
    <3>2. \/ job' = [job EXCEPT ![h] = [job[h] EXCEPT !.step = "refused"]]
          \/ \E x : job' = [job EXCEPT ![h] = [job[h] EXCEPT !.recent = x, !.step = "record"]]
      BY <2>5 DEF Count, Goto
    <3>3. \A x : Limited([job[h] EXCEPT !.recent = x, !.step = "record"])
      BY <3>1, LimitedMoves DEF LimitedSteps
    <3>4. Limited([job[h] EXCEPT !.step = "refused"])
      BY <3>1, LimitedMoves DEF LimitedSteps
    <3> QED  BY <3>2, <3>3, <3>4
  <2>6. CASE RecordHit(h)
    BY <2>6 DEF RecordHit, Finish
  <2> QED  BY <2>1, <2>2, <2>3, <2>4, <2>5, <2>6
<1> QED  BY <1>0, <1>1, QuietStep

LEMMA BeginReadKeeps ==
    ASSUME Inv, NEW h \in Handlers, BeginRead(h)
    PROVE  Inv'
<1>1. PICK u \in Users :
          job' = [job EXCEPT ![h] =
              [op |-> "read", step |-> "token", user |-> u, token |-> None, page |-> 1,
               value |-> {}, fallback |-> FALSE, began |-> now, users |-> {}, recent |-> {}]]
  BY DEF BeginRead, Begin
<1> DEFINE k == [op |-> "read", step |-> "token", user |-> u, token |-> None, page |-> 1,
                 value |-> {}, fallback |-> FALSE, began |-> now, users |-> {}, recent |-> {}]
<1>2. k \in ReadJob
  BY DEF ReadJob, ReadSteps, Inv, Typed
<1>3. ReadSound(k)
  BY <1>2 DEF ReadSound
<1> HIDE DEF k
<1>4. \E l : job' = [job EXCEPT ![h] = l] /\ ReadSound(l)
  BY <1>1, <1>3 DEF k
<1> QED  BY <1>4, QuietStep DEF BeginRead, Still

\* The job goes on without having read anything.
LEMMA ReadGoesOn ==
    ASSUME NEW j, ReadSound(j), j.step \in {"token", "exchange"}, NEW t \in TokensOf[j.user]
    PROVE  /\ ReadSound([j EXCEPT !.token = t, !.step = "spaces"])
           /\ ReadSound([j EXCEPT !.step = "exchange"])
<1>1. t \in Tokens
  BY ConstantFacts DEF ReadSound, ReadJob
<1> DEFINE k == [j EXCEPT !.token = t, !.step = "spaces"]
           l == [j EXCEPT !.step = "exchange"]
<1>2. k \in ReadJob /\ l \in ReadJob
  BY <1>1 DEF ReadSound, ReadJob, ReadSteps
<1>3. /\ k.step = "spaces" /\ k.value = j.value /\ k.page = j.page /\ k.fallback = j.fallback
      /\ k.token = t /\ k.user = j.user
      /\ l.step = "exchange" /\ l.value = j.value /\ l.page = j.page /\ l.fallback = j.fallback
  BY DEF ReadSound, ReadJob
<1> HIDE DEF k, l
<1>4. ReadSound(k) /\ ReadSound(l)
  BY <1>2, <1>3 DEF ReadSound
<1> QED  BY <1>4 DEF k, l

LEMMA TokenKeeps ==
    ASSUME Inv, NEW h \in Handlers, Token(h) \/ Exchange(h)
    PROVE  Inv'
<1>0. Still /\ UNCHANGED <<space_cache, last_spaces>>
  BY DEF Token, Exchange, Still
<1>1. CASE Token(h)
  <2>1. ReadSound(job[h]) /\ job[h].step = "token" /\ job[h].user \in Users
    BY <1>1, ReadAt DEF Token, ReadSteps, ReadJob
  <2>2. /\ \A u \in Users : token_cache'[u] \in {token_cache[u], None}
        /\ token_cache' \in [Users -> [token : Tokens, expires : Nat] \cup {None}]
    BY <1>1, <2>1 DEF Token, Swept, Inv, Typed
  <2>3. \E k : job' = [job EXCEPT ![h] = k] /\ ReadSound(k)
    <3>1. CASE Fresh(token_cache[job[h].user])
      <4>1. token_cache[job[h].user].token \in TokensOf[job[h].user]
        BY <2>1, <3>1 DEF Inv, TokensSound, Fresh
      <4>2. job' = [job EXCEPT ![h] = [job[h] EXCEPT
                        !.token = token_cache[job[h].user].token, !.step = "spaces"]]
        BY <1>1, <3>1 DEF Token
      <4> QED  BY <2>1, <4>1, <4>2, ReadGoesOn
    <3>2. CASE ~Fresh(token_cache[job[h].user])
      <4>1. job' = [job EXCEPT ![h] = [job[h] EXCEPT !.step = "exchange"]]
        BY <1>1, <3>2 DEF Token, Goto
      <4>2. ReadSound([job[h] EXCEPT !.step = "exchange"])
        <5> DEFINE l == [job[h] EXCEPT !.step = "exchange"]
        <5>1. l \in ReadJob /\ l.step = "exchange" /\ l.value = job[h].value
              /\ l.page = job[h].page /\ l.fallback = job[h].fallback
          BY <2>1 DEF ReadSound, ReadJob, ReadSteps
        <5> HIDE DEF l
        <5>2. ReadSound(l)
          BY <2>1, <5>1 DEF ReadSound
        <5> QED  BY <5>2 DEF l
      <4> QED  BY <4>1, <4>2
    <3> QED  BY <3>1, <3>2
  <2>4. CacheSound' /\ LastSound' /\ TokensSound'
    BY <1>0, <2>2, StillCaches
  <2>5. /\ JobsSound' /\ Past'
        /\ DOMAIN job' = Handlers /\ job' = [g \in Handlers |-> job'[g]]
    BY <1>0, <2>3, StillStep
  <2>6. Typed'
    BY <1>0, <2>2, <2>5 DEF Inv, Typed, Still, gitlab
  <2> QED  BY <2>4, <2>5, <2>6 DEF Inv
<1>2. CASE Exchange(h)
  <2>1. ReadSound(job[h]) /\ job[h].step = "exchange" /\ job[h].user \in Users
    BY <1>2, ReadAt DEF Exchange, ReadSteps, ReadJob
  <2>2. PICK t \in TokensOf[job[h].user] :
            /\ token_cache' = [token_cache EXCEPT ![job[h].user] = [token |-> t, expires |-> now + Ttl]]
            /\ job' = [job EXCEPT ![h].token = t, ![h].step = "spaces"]
    BY <1>2 DEF Exchange
  <2>3. t \in Tokens /\ now + Ttl \in Nat
    BY <2>1, ConstantFacts DEF Inv, Typed, Times
  <2>4. token_cache' \in [Users -> [token : Tokens, expires : Nat] \cup {None}]
    BY <2>2, <2>3 DEF Inv, Typed
  <2>5. TokensSound'
    BY <2>1, <2>2 DEF Inv, Typed, TokensSound
  <2>6. CacheSound' /\ LastSound'
    BY <1>0 DEF Inv, CacheSound, LastSound, Still, gitlab, LastMember
  <2>7. job' = [job EXCEPT ![h] = [job[h] EXCEPT !.token = t, !.step = "spaces"]]
    BY <2>2
  <2>8. /\ JobsSound' /\ Past'
        /\ DOMAIN job' = Handlers /\ job' = [g \in Handlers |-> job'[g]]
    BY <1>0, <2>1, <2>7, ReadGoesOn, StillStep
  <2>9. Typed'
    BY <1>0, <2>4, <2>8 DEF Inv, Typed, Still, gitlab
  <2> QED  BY <2>5, <2>6, <2>8, <2>9 DEF Inv
<1> QED  BY <1>1, <1>2
-----------------------------------------------------------------------------
\* The job has something to answer.
LEMMA ReadAnswers ==
    ASSUME NEW j, ReadSound(j), j.token \in TokensOf[j.user],
           NEW value \in SUBSET Spaces, NEW fallback \in BOOLEAN,
           \A s \in value :
               /\ LastMember(j.user, s) # None
               /\ now <= LastMember(j.user, s) + MaxCall + (IF fallback THEN LastKnownMaxAge ELSE Ttl),
           ~fallback /\ now > changed[j.user] + Ttl + MaxCall => value = member[j.user]
    PROVE  /\ ReadSound([j EXCEPT !.value = value, !.fallback = fallback, !.step = "answer"])
           /\ j.fallback = fallback => ReadSound([j EXCEPT !.value = value, !.step = "answer"])
           /\ j.fallback = fallback /\ j.value = value => ReadSound([j EXCEPT !.step = "answer"])
<1>1. ASSUME NEW k \in ReadJob, k.value = value, k.fallback = fallback, k.step = "answer",
             k.user = j.user, k.token = j.token
      PROVE  ReadSound(k)
  <2>1. Answering(k)
    BY <1>1 DEF Answering
  <2> QED  BY <1>1, <2>1 DEF ReadSound
<1> DEFINE k1 == [j EXCEPT !.value = value, !.fallback = fallback, !.step = "answer"]
           k2 == [j EXCEPT !.value = value, !.step = "answer"]
           k3 == [j EXCEPT !.step = "answer"]
<1>2. j \in ReadJob
  BY DEF ReadSound
<1>3. k1 \in ReadJob /\ k1.value = value /\ k1.fallback = fallback /\ k1.step = "answer"
      /\ k1.user = j.user /\ k1.token = j.token
  BY <1>2 DEF ReadJob, ReadSteps
<1>4. k2 \in ReadJob /\ k2.value = value /\ k2.fallback = j.fallback /\ k2.step = "answer"
      /\ k2.user = j.user /\ k2.token = j.token
  BY <1>2 DEF ReadJob, ReadSteps
<1>5. k3 \in ReadJob /\ k3.value = j.value /\ k3.fallback = j.fallback /\ k3.step = "answer"
      /\ k3.user = j.user /\ k3.token = j.token
  BY <1>2 DEF ReadJob, ReadSteps
<1> HIDE DEF k1, k2, k3
<1>6. ReadSound(k1)
  BY <1>1, <1>3
<1>7. j.fallback = fallback => ReadSound(k2)
  BY <1>1, <1>4
<1>8. j.fallback = fallback /\ j.value = value => ReadSound(k3)
  BY <1>1, <1>5
<1> QED  BY <1>6, <1>7, <1>8 DEF k1, k2, k3

\* There is nothing before the first page.
LEMMA NoPages == \A S \in SUBSET Spaces : FirstPages(S, 0) = {}
<1> SUFFICES ASSUME NEW S \in SUBSET Spaces, NEW s \in S,
                    Cardinality({r \in S : r < s}) < 0 * PerPage
             PROVE  FALSE
  BY DEF FirstPages
<1>1. IsFiniteSet({r \in S : r < s})
  BY ConstantFacts, FS_Subset
<1>2. Cardinality({r \in S : r < s}) \in Nat
  BY <1>1, FS_CardinalityType
<1> QED  BY <1>2, ConstantFacts

\* A page that is read begins the listing where the pages before it end, and the page
\* after which there are no more ends it.
LEMMA PagesAdd ==
    ASSUME NEW S \in SUBSET Spaces, NEW n \in Nat \ {0}
    PROVE  /\ FirstPages(S, n - 1) \cup PageOf(S, n) = FirstPages(S, n)
           /\ ~More(S, n) => FirstPages(S, n) = S
<1>1. PerPage \in Nat \ {0} /\ IsFiniteSet(S) /\ S \subseteq Nat
  BY ConstantFacts, FS_Subset
<1>2. \A s \in S : Cardinality({r \in S : r < s}) \in Nat
  <2>1. TAKE s \in S
  <2>2. IsFiniteSet({r \in S : r < s})
    BY <1>1, FS_Subset
  <2> QED  BY <2>2, FS_CardinalityType
<1>3. FirstPages(S, n - 1) \cup PageOf(S, n) = FirstPages(S, n)
  <2>1. (n - 1) * PerPage <= n * PerPage /\ (n - 1) * PerPage \in Nat /\ n * PerPage \in Nat
    <3>1. n * PerPage = (n - 1) * PerPage + PerPage
      BY <1>1
    <3>2. (n - 1) * PerPage \in Nat
      BY <1>1
    <3> QED  BY <1>1, <3>1, <3>2
  <2> DEFINE before(s) == Cardinality({r \in S : r < s})
             low == (n - 1) * PerPage
             high == n * PerPage
  <2>2. \A s \in S : before(s) \in Nat
    BY <1>2
  <2>3. low <= high /\ low \in Nat /\ high \in Nat
    BY <2>1
  <2>4. FirstPages(S, n - 1) = {s \in S : before(s) < low} /\ FirstPages(S, n) = {s \in S : before(s) < high}
        /\ PageOf(S, n) = {s \in S : low <= before(s) /\ before(s) < high}
    BY DEF FirstPages, PageOf
  <2> HIDE DEF before, low, high
  <2> QED  BY <2>2, <2>3, <2>4
<1>4. ASSUME ~More(S, n)  PROVE FirstPages(S, n) = S
  <2>1. Cardinality(S) \in Nat /\ n * PerPage \in Nat /\ Cardinality(S) <= n * PerPage
    BY <1>1, <1>4, FS_CardinalityType DEF More
  <2>2. \A s \in S : Cardinality({r \in S : r < s}) < Cardinality(S)
    <3>1. TAKE s \in S
    <3>2. {r \in S : r < s} \subseteq S /\ {r \in S : r < s} # S
      BY <1>1
    <3> QED  BY <1>1, <1>2, <2>1, <3>2, FS_Subset
  <2>3. \A s \in S : Cardinality({r \in S : r < s}) < n * PerPage
    BY <1>2, <2>1, <2>2
  <2> QED  BY <2>3 DEF FirstPages
<1> QED  BY <1>3, <1>4

LEMMA ReadableSpacesKeeps ==
    ASSUME Inv, NEW h \in Handlers, ReadableSpaces(h)
    PROVE  Inv'
<1> DEFINE j == job[h]
           t == job[h].token
           u == job[h].user
<1>0. Still /\ UNCHANGED <<token_cache, last_spaces>>
  BY DEF ReadableSpaces, Still
<1>1. /\ ReadSound(j) /\ j \in ReadJob /\ j.step = "spaces" /\ u \in Users /\ t \in TokensOf[u]
      /\ t \in Tokens /\ j.value = {} /\ j.page = 1 /\ ~j.fallback
  BY ReadAt, ConstantFacts DEF ReadableSpaces, ReadSteps, ReadSound, ReadJob
<1>2. /\ \A x \in Tokens : space_cache'[x] \in {space_cache[x], None}
      /\ space_cache' \in [Tokens -> [value : SUBSET Spaces, expires : Nat] \cup {None}]
  BY <1>1 DEF ReadableSpaces, Swept, Inv, Typed
<1>3. now \in Nat /\ now \in Times /\ changed[u] \in Nat
      /\ \A s \in Spaces : LastMember(u, s) # None => LastMember(u, s) \in Nat
  BY <1>1, LastTyped DEF Inv, Typed, Times
<1>4. \E k : job' = [job EXCEPT ![h] = k] /\ ReadSound(k)
  <2>1. CASE Fresh(space_cache[t])
    <3> DEFINE value == space_cache[t].value
    <3>1. job' = [job EXCEPT ![h] = [j EXCEPT !.value = value, !.step = "answer"]]
      BY <2>1 DEF ReadableSpaces
    <3>2. /\ space_cache[t] # None /\ now < space_cache[t].expires
          /\ value \in SUBSET Spaces /\ space_cache[t].expires \in Nat
      BY <1>1, <2>1 DEF Fresh, Inv, Typed
    <3>3. /\ \A s \in value : /\ LastMember(u, s) # None
                              /\ space_cache[t].expires <= LastMember(u, s) + MaxCall + Ttl
          /\ space_cache[t].expires > changed[u] + Ttl + MaxCall => value = member[u]
      BY <1>1, <3>2 DEF Inv, CacheSound
    <3>4. \A s \in value : LastMember(u, s) # None /\ now <= LastMember(u, s) + MaxCall + Ttl
      <4>1. TAKE s \in value
      <4>2. LastMember(u, s) # None /\ LastMember(u, s) \in Nat
            /\ space_cache[t].expires <= LastMember(u, s) + MaxCall + Ttl
        BY <1>3, <3>2, <3>3
      <4> QED  BY <1>3, <3>2, <4>2, ConstantFacts
    <3>5. now > changed[u] + Ttl + MaxCall => value = member[u]
      <4> HAVE now > changed[u] + Ttl + MaxCall
      <4>1. space_cache[t].expires > changed[u] + Ttl + MaxCall
        BY <1>3, <3>2, ConstantFacts
      <4> QED  BY <3>3, <4>1
    <3> HIDE DEF value
    <3>0. j.fallback \in BOOLEAN /\ (IF j.fallback THEN LastKnownMaxAge ELSE Ttl) = Ttl
      BY <1>1 DEF ReadJob
    <3>6. /\ j.fallback \in BOOLEAN /\ value \in SUBSET Spaces
          /\ \A s \in value :
                 /\ LastMember(j.user, s) # None
                 /\ now <= LastMember(j.user, s) + MaxCall
                               + (IF j.fallback THEN LastKnownMaxAge ELSE Ttl)
          /\ ~j.fallback /\ now > changed[j.user] + Ttl + MaxCall => value = member[j.user]
      <4> HIDE DEF j, t, u
      <4>1. j.user = u
        BY DEF j, u
      <4> QED  BY <1>1, <3>0, <3>2, <3>4, <3>5, <4>1
    <3>7. ReadSound([j EXCEPT !.value = value, !.step = "answer"])
      BY <1>1, <3>6, ReadAnswers
    <3> QED  BY <3>1, <3>7
  <2>2. CASE ~Fresh(space_cache[t]) /\ ~gitlab_up
    <3> DEFINE value == LastKnown(t)
    <3>1. job' = [job EXCEPT ![h] = [j EXCEPT !.value = value, !.fallback = TRUE, !.step = "answer"]]
      BY <2>2 DEF ReadableSpaces
    <3>2. value \in SUBSET Spaces
      BY <1>1 DEF LastKnown, Inv, Typed
    <3>3. \A s \in value : LastMember(u, s) # None
                           /\ now <= LastMember(u, s) + MaxCall + LastKnownMaxAge
      <4>1. TAKE s \in value
      <4>2. /\ last_spaces[t] # None /\ ~(now - last_spaces[t].at > LastKnownMaxAge)
            /\ s \in last_spaces[t].value
        BY DEF LastKnown
      <4>3. last_spaces[t].at \in Nat /\ last_spaces[t].at <= now
        BY <1>1, <4>2 DEF Inv, Typed, LastSound, Times
      <4>4. LastMember(u, s) # None /\ last_spaces[t].at <= LastMember(u, s) + MaxCall
        BY <1>1, <4>2 DEF Inv, LastSound
      <4>5. LastMember(u, s) \in Nat
        BY <1>3, <3>2, <4>4
      <4> QED  BY <1>3, <4>2, <4>3, <4>4, <4>5, GatewayAccessAssumption DEF GatewayAccessAssumption
    <3> HIDE DEF value
    <3>4. ReadSound([j EXCEPT !.value = value, !.fallback = TRUE, !.step = "answer"])
      BY <1>1, <3>2, <3>3, ReadAnswers
    <3> QED  BY <3>1, <3>4
  <2>3. CASE ~Fresh(space_cache[t]) /\ gitlab_up
    <3> DEFINE k == [j EXCEPT !.began = now, !.step = "page"]
    <3>1. job' = [job EXCEPT ![h] = k]
      BY <2>3 DEF ReadableSpaces
    <3>2. k \in ReadJob /\ k.step = "page" /\ k.began = now /\ k.user = u /\ k.token = t
          /\ k.value = {} /\ k.page = 1 /\ ~k.fallback
      BY <1>1, <1>3 DEF ReadJob, ReadSteps
    <3> HIDE DEF k
    <3>3. FirstPages(member[u], 1 - 1) = {}
      BY <1>1, NoPages DEF Inv, Typed
    <3>4. Reading(k)
      BY <1>3, <3>2, <3>3, ConstantFacts DEF Reading
    <3>5. ReadSound(k)
      BY <1>1, <3>2, <3>4 DEF ReadSound
    <3> QED  BY <3>1, <3>5
  <2> QED  BY <2>1, <2>2, <2>3
<1>5. CacheSound' /\ LastSound' /\ TokensSound'
  BY <1>0, <1>2, StillCaches
<1>6. /\ JobsSound' /\ Past'
      /\ DOMAIN job' = Handlers /\ job' = [g \in Handlers |-> job'[g]]
  BY <1>0, <1>4, StillStep
<1>7. Typed'
  BY <1>0, <1>2, <1>6 DEF Inv, Typed, Still, gitlab
<1> QED  BY <1>5, <1>6, <1>7 DEF Inv
-----------------------------------------------------------------------------
\* A page read while nothing changes is what the listing goes on with; what a membership
\* held when it was read was held since the reading began.
LEMMA ReadPageKeeps ==
    ASSUME Inv, NEW h \in Handlers, ReadPage(h)
    PROVE  Inv'
<1> DEFINE j == job[h]
           u == job[h].user
           S == member[job[h].user]
           value == job[h].value \cup PageOf(S, job[h].page)
           step == IF More(S, job[h].page) THEN "page" ELSE "store"
           k == [job[h] EXCEPT !.value = value, !.page = job[h].page + 1, !.step = step]
<1>1. /\ ReadSound(j) /\ j \in ReadJob /\ j.step = "page" /\ u \in Users /\ j.token \in TokensOf[u]
      /\ j.page \in Nat \ {0} /\ j.value \in SUBSET Spaces /\ Reading(j)
  BY ReadAt DEF ReadPage, ReadSteps, ReadSound, ReadJob
<1>2. S \in SUBSET Spaces
  BY <1>1 DEF Inv, Typed
<1>3. value \in SUBSET Spaces /\ step \in {"page", "store"} /\ PageOf(S, j.page) \subseteq S
  BY <1>1, <1>2 DEF PageOf
<1>4. job' = [job EXCEPT ![h] = k]
  BY DEF ReadPage
<1>5. k \in ReadJob /\ k.step = step /\ k.value = value /\ k.page = j.page + 1
      /\ k.user = u /\ k.token = j.token /\ k.began = j.began /\ k.fallback = j.fallback
  <2>1. j.page + 1 \in Nat
    BY <1>1
  <2>2. step \in ReadSteps
    BY <1>3 DEF ReadSteps
  <2> DEFINE next == job[h].page + 1
  <2> HIDE DEF step, value, next, ReadSteps
  <2>3. next \in Nat
    BY <2>1 DEF next
  <2>4. /\ [j EXCEPT !.value = value, !.page = next, !.step = step] \in ReadJob
        /\ k = [j EXCEPT !.value = value, !.page = next, !.step = step]
    BY <1>1, <1>3, <2>2, <2>3 DEF ReadJob, next
  <2> QED  BY <1>1, <2>4 DEF ReadJob, next
<1>6. \A s \in value : Since(u, s, j.began)
  <2>1. ASSUME NEW s \in value  PROVE Since(u, s, j.began)
    <3>1. CASE s \in j.value
      BY <1>1, <3>1 DEF Reading
    <3>2. CASE s \in S
      <4>1. now \in Nat /\ now # None /\ j.began <= now
        BY <1>1, ConstantFacts DEF Inv, Typed, Times, Reading
      <4> QED  BY <3>2, <4>1 DEF Since, LastMember
    <3> QED  BY <1>3, <3>1, <3>2
  <2> QED  BY <2>1
<1>7. changed[u] < j.began => value = IF step = "page" THEN FirstPages(S, j.page) ELSE S
  <2> HAVE changed[u] < j.began
  <2>1. j.value = FirstPages(S, j.page - 1)
    BY <1>1 DEF Reading
  <2>2. value = FirstPages(S, j.page)
    BY <1>1, <1>2, <2>1, PagesAdd
  <2>3. step = "store" => FirstPages(S, j.page) = S
    BY <1>1, <1>2, PagesAdd
  <2> QED  BY <1>3, <2>2, <2>3
<1> HIDE DEF value, step, k
<1>8. Reading(k)
  <2>1. j.page + 1 - 1 = j.page
    BY <1>1
  <2> QED  BY <1>1, <1>3, <1>5, <1>6, <1>7, <2>1 DEF Reading
<1>9. ReadSound(k)
  <2>1. k.page \in Nat \ {0}
    BY <1>1, <1>5
  <2> QED  BY <1>1, <1>3, <1>5, <1>8, <2>1 DEF ReadSound
<1>10. \E l : job' = [job EXCEPT ![h] = l] /\ ReadSound(l)
  BY <1>4, <1>9
<1> QED  BY <1>10, QuietStep DEF ReadPage, Still

\* What is stored was read within MaxCall, and belongs to the one user of the token.
LEMMA StoreKeeps ==
    ASSUME Inv, NEW h \in Handlers, Store(h)
    PROVE  Inv'
<1> DEFINE j == job[h]
           t == job[h].token
           u == job[h].user
<1>0. Still /\ UNCHANGED token_cache
  BY DEF Store, Still
<1>1. /\ ReadSound(j) /\ j \in ReadJob /\ j.step = "store" /\ u \in Users /\ t \in TokensOf[u]
      /\ t \in Tokens /\ j.value \in SUBSET Spaces /\ Reading(j)
  BY ReadAt, ConstantFacts DEF Store, ReadSteps, ReadSound, ReadJob
<1>2. /\ space_cache' = [space_cache EXCEPT ![t] = [value |-> j.value, expires |-> now + Ttl]]
      /\ last_spaces' = [last_spaces EXCEPT ![t] = [value |-> j.value, at |-> now]]
      /\ job' = [job EXCEPT ![h] = [j EXCEPT !.step = "answer"]]
  BY DEF Store, Goto
<1>3. now \in Nat /\ now \in Times /\ j.began \in Nat /\ changed[u] \in Nat
      /\ \A s \in Spaces : LastMember(u, s) # None => LastMember(u, s) \in Nat
  BY <1>1, LastTyped DEF Inv, Typed, Times, ReadJob
<1>4. /\ \A s \in j.value : LastMember(u, s) # None /\ now <= LastMember(u, s) + MaxCall
      /\ ~j.fallback /\ now <= j.began + MaxCall
      /\ now > changed[u] + MaxCall => j.value = member[u]
  <2>1. ~j.fallback /\ now <= j.began + MaxCall
    BY <1>1 DEF Reading
  <2>2. ASSUME NEW s \in j.value  PROVE LastMember(u, s) # None /\ now <= LastMember(u, s) + MaxCall
    <3>1. LastMember(u, s) # None /\ j.began <= LastMember(u, s) /\ LastMember(u, s) \in Nat
      BY <1>1, <1>3 DEF Reading, Since
    <3> QED  BY <1>3, <2>1, <3>1, ConstantFacts
  <2>3. ASSUME now > changed[u] + MaxCall  PROVE j.value = member[u]
    <3>1. changed[u] < j.began
      BY <1>3, <2>1, <2>3, ConstantFacts
    <3> QED  BY <1>1, <3>1 DEF Reading
  <2> QED  BY <2>1, <2>2, <2>3
<1>5. ReadSound([j EXCEPT !.step = "answer"])
  <2>1. \A s \in j.value :
            /\ LastMember(u, s) # None
            /\ now <= LastMember(u, s) + MaxCall + (IF j.fallback THEN LastKnownMaxAge ELSE Ttl)
    <3>1. (IF j.fallback THEN LastKnownMaxAge ELSE Ttl) = Ttl
      BY <1>4
    <3>2. TAKE s \in j.value
    <3>3. LastMember(u, s) # None /\ LastMember(u, s) \in Nat /\ now <= LastMember(u, s) + MaxCall
      BY <1>1, <1>3, <1>4
    <3>4. now <= LastMember(u, s) + MaxCall + Ttl
      BY <1>3, <3>3, ConstantFacts
    <3> QED  BY <3>1, <3>3, <3>4
  <2>2. ~j.fallback /\ now > changed[u] + Ttl + MaxCall => j.value = member[u]
    BY <1>1, <1>3, <1>4, ConstantFacts
  <2>3. j.fallback \in BOOLEAN
    BY <1>1 DEF ReadJob
  <2> QED  BY <1>1, <2>1, <2>2, <2>3, ReadAnswers
<1>6. /\ JobsSound' /\ Past'
      /\ DOMAIN job' = Handlers /\ job' = [g \in Handlers |-> job'[g]]
  BY <1>0, <1>2, <1>5, StillStep
<1>7. /\ space_cache' \in [Tokens -> [value : SUBSET Spaces, expires : Nat] \cup {None}]
      /\ last_spaces' \in [Tokens -> [value : SUBSET Spaces, at : Times] \cup {None}]
  <2>1. now + Ttl \in Nat
    BY <1>3, ConstantFacts
  <2> QED  BY <1>1, <1>2, <1>3, <2>1 DEF Inv, Typed
<1>8. Typed'
  BY <1>0, <1>6, <1>7 DEF Inv, Typed, Still, gitlab
<1>9. \A v, s : LastMember(v, s)' = LastMember(v, s)
  BY <1>0, SameMember
<1>10. now' = now /\ member' = member /\ changed' = changed
  BY <1>0 DEF Still, gitlab
<1>11. CacheSound'
  <2>1. ASSUME NEW v \in Users, NEW x \in TokensOf[v], space_cache'[x] # None
        PROVE  /\ space_cache'[x].expires <= now' + Ttl
               /\ \A s \in space_cache'[x].value :
                      /\ LastMember(v, s)' # None
                      /\ space_cache'[x].expires <= LastMember(v, s)' + MaxCall + Ttl
               /\ space_cache'[x].expires > changed'[v] + Ttl + MaxCall
                      => space_cache'[x].value = member'[v]
    <3>1. x \in Tokens
      BY ConstantFacts
    <3>2. CASE x = t
      <4>1. v = u
        BY <1>1, <3>2, ConstantFacts
      <4>2. space_cache'[x].value = j.value /\ space_cache'[x].expires = now + Ttl
        BY <1>1, <1>2, <3>2 DEF Inv, Typed
      <4>3. \A s \in j.value : now + Ttl <= LastMember(u, s) + MaxCall + Ttl
        <5>1. TAKE s \in j.value
        <5>2. LastMember(u, s) \in Nat /\ now <= LastMember(u, s) + MaxCall
          BY <1>1, <1>3, <1>4
        <5> QED  BY <1>3, <5>2, ConstantFacts
      <4>4. now + Ttl > changed[u] + Ttl + MaxCall => j.value = member[u]
        BY <1>3, <1>4, ConstantFacts
      <4>5. now + Ttl <= now + Ttl
        BY <1>3, ConstantFacts
      <4> HIDE DEF j, t, u
      <4> QED  BY <1>4, <1>9, <1>10, <4>1, <4>2, <4>3, <4>4, <4>5
    <3>3. CASE x # t
      <4>1. space_cache'[x] = space_cache[x]
        BY <1>1, <1>2, <3>1, <3>3 DEF Inv, Typed
      <4> QED  BY <1>9, <1>10, <2>1, <4>1 DEF Inv, CacheSound
    <3> QED  BY <3>2, <3>3
  <2> QED  BY <2>1 DEF CacheSound
<1>12. LastSound'
  <2>1. ASSUME NEW v \in Users, NEW x \in TokensOf[v], last_spaces'[x] # None
        PROVE  /\ last_spaces'[x].at <= now'
               /\ \A s \in last_spaces'[x].value :
                      LastMember(v, s)' # None /\ last_spaces'[x].at <= LastMember(v, s)' + MaxCall
    <3>1. x \in Tokens
      BY ConstantFacts
    <3>2. CASE x = t
      <4>1. v = u
        BY <1>1, <3>2, ConstantFacts
      <4>2. last_spaces'[x].value = j.value /\ last_spaces'[x].at = now
        BY <1>1, <1>2, <3>2 DEF Inv, Typed
      <4> HIDE DEF j, t, u
      <4> QED  BY <1>3, <1>4, <1>9, <1>10, <4>1, <4>2
    <3>3. CASE x # t
      <4>1. last_spaces'[x] = last_spaces[x]
        BY <1>1, <1>2, <3>1, <3>3 DEF Inv, Typed
      <4> QED  BY <1>9, <1>10, <2>1, <4>1 DEF Inv, LastSound
    <3> QED  BY <3>2, <3>3
  <2> QED  BY <2>1 DEF LastSound
<1>13. TokensSound'
  BY <1>0 DEF Inv, TokensSound
<1> QED  BY <1>6, <1>8, <1>11, <1>12, <1>13 DEF Inv
-----------------------------------------------------------------------------
(* The clock and GitLab. *)

\* Time passes or memberships change: nobody was a member less late than before.
Later ==
    /\ UNCHANGED <<caches, job>> /\ now' \in {now, now + 1}
    /\ \A u \in Users : \A s \in Spaces : LastMember(u, s) # None =>
           LastMember(u, s)' # None /\ LastMember(u, s) <= LastMember(u, s)' /\ LastMember(u, s)' \in Nat
    /\ \A u \in Users : \/ member'[u] = member[u] /\ changed'[u] = changed[u]
                        \/ changed'[u] = now /\ now' = now
    /\ \A h \in Handlers :
           /\ now' # now => ~At(h, "answer")
           /\ now' # now /\ (At(h, "page") \/ At(h, "store")) => now' <= job[h].began + MaxCall

LEMMA LaterJobs ==
    ASSUME Inv, Later
    PROVE  JobsSound'
<1>0. now \in Nat /\ now' \in Nat /\ now <= now' /\ Ttl \in Nat /\ MaxCall \in Nat /\ LastKnownMaxAge \in Nat
  BY ConstantFacts, GatewayAccessAssumption DEF GatewayAccessAssumption, Inv, Typed, Times, Later
<1>1. SUFFICES ASSUME NEW h \in Handlers, job[h] # None
               PROVE  (ReadSound(job[h]) \/ Limited(job[h]))'
  BY DEF JobsSound, Later
<1>2. PICK j : j = job[h]
  OBVIOUS
<1>3. job'[h] = j
  BY <1>2 DEF Later
<1>4. CASE Limited(j)
  BY <1>3, <1>4 DEF Limited
<1>5. CASE ReadSound(j)
  <2>1. j \in ReadJob /\ j.user \in Users /\ j.value \in SUBSET Spaces /\ j.began \in Nat
    BY <1>5 DEF ReadSound, ReadJob, Times
  <2>2. \A s \in j.value : LastMember(j.user, s) # None =>
            /\ LastMember(j.user, s) \in Nat
            /\ LastMember(j.user, s)' # None /\ LastMember(j.user, s) <= LastMember(j.user, s)'
            /\ LastMember(j.user, s)' \in Nat
    BY <2>1, LastTyped DEF Inv, Later
  <2>3. changed[j.user] \in Nat /\ changed[j.user] <= now
    BY <2>1 DEF Inv, Typed, Past, Times
  <2>4. \/ member'[j.user] = member[j.user] /\ changed'[j.user] = changed[j.user]
        \/ changed'[j.user] = now /\ now' = now
    BY <2>1 DEF Later
  <2>5. j.step \in {"page", "store"} => Reading(j)'
    <3> SUFFICES ASSUME j.step \in {"page", "store"}  PROVE Reading(j)'
      OBVIOUS
    <3>1. Reading(j)
      BY <1>5 DEF ReadSound
    <3>2. now' <= j.began + MaxCall /\ j.began <= now' /\ ~j.fallback
      <4>1. j.began <= now /\ now <= j.began + MaxCall /\ ~j.fallback
        BY <3>1 DEF Reading
      <4>2. now' # now => now' <= j.began + MaxCall
        BY <1>1, <1>2 DEF Later, At
      <4> QED  BY <1>0, <2>1, <4>1, <4>2
    <3>3. \A s \in j.value : Since(j.user, s, j.began)'
      <4>1. TAKE s \in j.value
      <4>2. LastMember(j.user, s) # None /\ j.began <= LastMember(j.user, s)
        BY <3>1 DEF Reading, Since
      <4>3. LastMember(j.user, s)' # None /\ j.began <= LastMember(j.user, s)'
        BY <2>1, <2>2, <4>2
      <4> QED  BY <4>3 DEF Since
    <3>4. changed'[j.user] < j.began =>
              j.value = IF j.step = "page" THEN FirstPages(member'[j.user], j.page - 1)
                        ELSE member'[j.user]
      <4> HAVE changed'[j.user] < j.began
      <4>1. j.began <= now
        BY <3>1 DEF Reading
      <4>2. member'[j.user] = member[j.user] /\ changed'[j.user] = changed[j.user]
        BY <1>0, <2>1, <2>4, <4>1
      <4> QED  BY <3>1, <4>2 DEF Reading
    <3> QED  BY <3>2, <3>3, <3>4 DEF Reading
  <2>6. j.step = "answer" => Answering(j)'
    <3> SUFFICES ASSUME j.step = "answer"  PROVE Answering(j)'
      OBVIOUS
    <3>1. Answering(j) /\ now' = now
      BY <1>1, <1>2, <1>5 DEF ReadSound, Later, At
    <3> DEFINE age == IF j.fallback THEN LastKnownMaxAge ELSE Ttl
    <3>2. age \in Nat
      BY <1>0, <2>1 DEF ReadJob
    <3>3. \A s \in j.value : LastMember(j.user, s)' # None
                             /\ now' <= LastMember(j.user, s)' + MaxCall + age
      <4>1. TAKE s \in j.value
      <4>2. LastMember(j.user, s) # None /\ now <= LastMember(j.user, s) + MaxCall + age
        BY <3>1 DEF Answering
      <4> HIDE DEF age
      <4> QED  BY <1>0, <2>2, <3>1, <3>2, <4>2
    <3>4. ~j.fallback /\ now' > changed'[j.user] + Ttl + MaxCall => j.value = member'[j.user]
      <4> HAVE ~j.fallback /\ now' > changed'[j.user] + Ttl + MaxCall
      <4>1. member'[j.user] = member[j.user] /\ changed'[j.user] = changed[j.user]
        BY <1>0, <2>4
      <4> QED  BY <3>1, <4>1 DEF Answering
    <3> QED  BY <3>3, <3>4 DEF Answering
  <2>7. ReadSound(j)'
    BY <1>5, <2>5, <2>6 DEF ReadSound
  <2> QED  BY <1>3, <2>7
<1> QED  BY <1>1, <1>2, <1>4, <1>5, JobAt

LEMMA LaterCaches ==
    ASSUME Inv, Later
    PROVE  CacheSound' /\ LastSound' /\ TokensSound'
<1>0. now \in Nat /\ now' \in Nat /\ now <= now' /\ Ttl \in Nat /\ MaxCall \in Nat
  BY ConstantFacts DEF Inv, Typed, Times, Later
<1>1. UNCHANGED <<token_cache, space_cache, last_spaces>>
  BY DEF Later, caches
<1>2. CacheSound'
  <2>1. ASSUME NEW u \in Users, NEW t \in TokensOf[u], space_cache'[t] # None
        PROVE  /\ space_cache'[t].expires <= now' + Ttl
               /\ \A s \in space_cache'[t].value :
                      /\ LastMember(u, s)' # None
                      /\ space_cache'[t].expires <= LastMember(u, s)' + MaxCall + Ttl
               /\ space_cache'[t].expires > changed'[u] + Ttl + MaxCall
                      => space_cache'[t].value = member'[u]
    <3>1. t \in Tokens
      BY ConstantFacts
    <3>2. space_cache'[t] = space_cache[t]
      BY <1>1
    <3> DEFINE value == space_cache[t].value
               expires == space_cache[t].expires
    <3>3. value \in SUBSET Spaces /\ expires \in Nat
      BY <2>1, <3>1, <3>2 DEF Inv, Typed
    <3>4. /\ expires <= now + Ttl
          /\ \A s \in value : LastMember(u, s) # None /\ expires <= LastMember(u, s) + MaxCall + Ttl
          /\ expires > changed[u] + Ttl + MaxCall => value = member[u]
      BY <2>1, <3>2 DEF Inv, CacheSound
    <3>5. \A s \in Spaces : LastMember(u, s) # None =>
              /\ LastMember(u, s) \in Nat /\ LastMember(u, s)' \in Nat
              /\ LastMember(u, s)' # None /\ LastMember(u, s) <= LastMember(u, s)'
      BY LastTyped DEF Inv, Later
    <3> HIDE DEF value, expires
    <3>6. expires <= now' + Ttl
      <4>1. expires <= now + Ttl
        BY <3>4
      <4>2. \A e, m, n, c \in Nat : e <= n + c /\ n <= m => e <= m + c
        OBVIOUS
      <4>3. expires \in Nat /\ now \in Nat /\ now' \in Nat /\ now <= now' /\ Ttl \in Nat
        BY <1>0, <3>3
      <4> QED  BY <4>1, <4>2, <4>3
    <3>7. \A s \in value : LastMember(u, s)' # None /\ expires <= LastMember(u, s)' + MaxCall + Ttl
      <4>1. TAKE s \in value
      <4>2. LastMember(u, s) # None /\ expires <= LastMember(u, s) + MaxCall + Ttl
        BY <3>4
      <4>3. /\ LastMember(u, s) \in Nat /\ LastMember(u, s)' \in Nat
            /\ LastMember(u, s)' # None /\ LastMember(u, s) <= LastMember(u, s)'
        BY <3>3, <3>5, <4>2
      <4> QED  BY <1>0, <3>3, <4>2, <4>3
    <3>8. expires > changed'[u] + Ttl + MaxCall => value = member'[u]
      <4> HAVE expires > changed'[u] + Ttl + MaxCall
      <4>1. member'[u] = member[u] /\ changed'[u] = changed[u]
        <5>1. \/ member'[u] = member[u] /\ changed'[u] = changed[u]
              \/ changed'[u] = now /\ now' = now
          BY DEF Later
        <5>2. changed'[u] # now
          BY <1>0, <3>3, <3>4
        <5> QED  BY <5>1, <5>2
      <4> QED  BY <3>4, <4>1
    <3> QED  BY <3>2, <3>6, <3>7, <3>8 DEF value, expires
  <2> QED  BY <2>1 DEF CacheSound
<1>3. LastSound'
  <2>1. ASSUME NEW u \in Users, NEW t \in TokensOf[u], last_spaces'[t] # None
        PROVE  /\ last_spaces'[t].at <= now'
               /\ \A s \in last_spaces'[t].value :
                      LastMember(u, s)' # None /\ last_spaces'[t].at <= LastMember(u, s)' + MaxCall
    <3>1. t \in Tokens
      BY ConstantFacts
    <3>2. last_spaces'[t] = last_spaces[t]
      BY <1>1
    <3> DEFINE value == last_spaces[t].value
               at == last_spaces[t].at
    <3>3. value \in SUBSET Spaces /\ at \in Nat
      BY <2>1, <3>1, <3>2 DEF Inv, Typed, Times
    <3>4. at <= now /\ \A s \in value : LastMember(u, s) # None /\ at <= LastMember(u, s) + MaxCall
      BY <2>1, <3>2 DEF Inv, LastSound
    <3>5. \A s \in Spaces : LastMember(u, s) # None =>
              /\ LastMember(u, s) \in Nat /\ LastMember(u, s)' \in Nat
              /\ LastMember(u, s)' # None /\ LastMember(u, s) <= LastMember(u, s)'
      BY LastTyped DEF Inv, Later
    <3> HIDE DEF value, at
    <3>6. at <= now'
      BY <1>0, <3>3, <3>4
    <3>7. \A s \in value : LastMember(u, s)' # None /\ at <= LastMember(u, s)' + MaxCall
      <4>1. TAKE s \in value
      <4>2. LastMember(u, s) # None /\ at <= LastMember(u, s) + MaxCall
        BY <3>4
      <4>3. /\ LastMember(u, s) \in Nat /\ LastMember(u, s)' \in Nat
            /\ LastMember(u, s)' # None /\ LastMember(u, s) <= LastMember(u, s)'
        BY <3>3, <3>5, <4>2
      <4> QED  BY <1>0, <3>3, <4>2, <4>3
    <3> QED  BY <3>2, <3>6, <3>7 DEF value, at
  <2> QED  BY <2>1 DEF LastSound
<1>4. TokensSound'
  BY <1>1 DEF Inv, TokensSound
<1> QED  BY <1>2, <1>3, <1>4

LEMMA TickKeeps ==
    ASSUME Inv, Tick
    PROVE  Inv'
<1>0. now \in Nat /\ now' = now + 1 /\ now < scenario.until /\ scenario.until \in Times /\ MaxCall \in Nat
  BY ConstantFacts DEF Inv, Typed, Times, Tick, Scenario
<1>1. now' \in Times
  BY <1>0, ConstantFacts DEF Times
<1>2. UNCHANGED <<caches, job, member, left, changed, scenario>>
  BY DEF Tick, gitlab
<1>3. \A u \in Users : \A s \in Spaces : left[u][s] # None => left[u][s] <= now /\ left[u][s] \in Nat
  BY DEF Inv, Typed, Past, Times
<1>4. \A u \in Users : \A s \in Spaces : LastMember(u, s) # None =>
          LastMember(u, s)' # None /\ LastMember(u, s) <= LastMember(u, s)' /\ LastMember(u, s)' \in Nat
  <2>1. now' # None /\ now' \in Nat /\ now <= now'
    BY <1>0, ConstantFacts
  <2> QED  BY <1>2, <1>3, <2>1 DEF LastMember
<1>5. \A h \in Handlers :
          ~At(h, "answer") /\ (At(h, "page") \/ At(h, "store") => now' <= job[h].began + MaxCall)
  <2>1. TAKE h \in Handlers
  <2>2. ~At(h, "answer") /\ (At(h, "page") \/ At(h, "store") => now < job[h].began + MaxCall)
    BY DEF Tick
  <2>3. At(h, "page") \/ At(h, "store") => job[h].began \in Nat
    BY ReadAt DEF ReadSteps, ReadJob, Times
  <2> QED  BY <1>0, <2>2, <2>3
<1>6. Later
  BY <1>0, <1>2, <1>4, <1>5 DEF Later
<1>7. Typed'
  BY <1>1, <1>2 DEF Inv, Typed, caches
<1>8. Past'
  <2>1. \A u \in Users : changed[u] <= now /\ changed[u] \in Nat
    BY DEF Inv, Typed, Past, Times
  <2>2. \A u \in Users : changed[u] <= now'
    BY <1>0, <2>1
  <2>3. \A u \in Users : \A s \in Spaces : left[u][s] # None => left[u][s] <= now'
    BY <1>0, <1>3
  <2> QED  BY <1>2, <2>2, <2>3 DEF Past
<1> QED  BY <1>6, <1>7, <1>8, LaterJobs, LaterCaches DEF Inv

\* Somebody joins or leaves: the end of the membership is remembered.
LEMMA MembershipKeeps ==
    ASSUME Inv, NEW u \in Users, NEW s \in Spaces, Join(u, s) \/ Leave(u, s)
    PROVE  Inv'
<1>0. now \in Nat /\ now \in Times /\ now # None /\ now' = now
  BY ConstantFacts DEF Inv, Typed, Times, Join, Leave
<1>1. /\ UNCHANGED <<caches, job, scenario>>
      /\ changed' = [changed EXCEPT ![u] = now]
      /\ \/ member' = [member EXCEPT ![u] = @ \cup {s}] /\ left' = left
         \/ member' = [member EXCEPT ![u] = @ \ {s}] /\ left' = [left EXCEPT ![u][s] = now]
  BY DEF Join, Leave
<1>2. /\ member' \in [Users -> SUBSET Spaces] /\ changed' \in [Users -> Times]
      /\ left' \in [Users -> [Spaces -> Times \cup {None}]]
  <2>1. changed \in [Users -> Times] /\ member \in [Users -> SUBSET Spaces]
        /\ left \in [Users -> [Spaces -> Times \cup {None}]]
    BY DEF Inv, Typed
  <2>2. member' \in [Users -> SUBSET Spaces] /\ changed' \in [Users -> Times]
    BY <1>0, <1>1, <2>1
  <2>3. [left[u] EXCEPT ![s] = now] \in [Spaces -> Times \cup {None}]
    BY <1>0, <2>1
  <2>4. left' \in [Users -> [Spaces -> Times \cup {None}]]
    BY <1>1, <2>1, <2>3
  <2> QED  BY <2>2, <2>4
<1>3. Typed'
  BY <1>0, <1>1, <1>2 DEF Inv, Typed, caches
<1>4. \A v \in Users : \A r \in Spaces :
          left'[v][r] \in {left[v][r], now} /\ (left[v][r] # None => left[v][r] <= now /\ left[v][r] \in Nat)
  <2>1. TAKE v \in Users
  <2>2. TAKE r \in Spaces
  <2>3. left \in [Users -> [Spaces -> Times \cup {None}]]
    BY DEF Inv, Typed
  <2>4. left'[v][r] \in {left[v][r], now}
    BY <1>1, <2>3
  <2>5. left[v][r] # None => left[v][r] <= now /\ left[v][r] \in Nat
    BY <2>3 DEF Inv, Past, Times
  <2> QED  BY <2>4, <2>5
<1>5. Past'
  <2>1. \A v \in Users : changed'[v] <= now
    BY <1>0, <1>1 DEF Inv, Typed, Past
  <2>2. \A v \in Users : \A r \in Spaces : left'[v][r] # None => left'[v][r] <= now
    BY <1>0, <1>4
  <2> QED  BY <1>0, <2>1, <2>2 DEF Past
<1>6. \A v \in Users : \A r \in Spaces : LastMember(v, r) # None =>
          LastMember(v, r)' # None /\ LastMember(v, r) <= LastMember(v, r)' /\ LastMember(v, r)' \in Nat
  <2>1. ASSUME NEW v \in Users, NEW r \in Spaces, LastMember(v, r) # None
        PROVE  LastMember(v, r)' # None /\ LastMember(v, r) <= LastMember(v, r)' /\ LastMember(v, r)' \in Nat
    <3>1. LastMember(v, r) <= now /\ LastMember(v, r) \in Nat
      BY <1>0, <1>4, <2>1 DEF LastMember
    <3>2. CASE r \in member'[v]
      BY <1>0, <3>1, <3>2 DEF LastMember
    <3>3. CASE r \notin member'[v] /\ r \in member[v]
      <4>1. v = u /\ r = s /\ left' = [left EXCEPT ![u][s] = now]
        BY <1>1, <3>3 DEF Inv, Typed
      <4>2. left'[v][r] = now
        BY <4>1 DEF Inv, Typed
      <4> QED  BY <1>0, <3>1, <3>3, <4>2 DEF LastMember
    <3>4. CASE r \notin member'[v] /\ r \notin member[v]
      <4>1. left'[v][r] \in {left[v][r], now} /\ left[v][r] = LastMember(v, r)
        BY <1>4, <3>4 DEF LastMember
      <4> QED  BY <1>0, <2>1, <3>1, <3>4, <4>1 DEF LastMember
    <3> QED  BY <3>2, <3>3, <3>4
  <2> QED  BY <2>1
<1>7. \A v \in Users : \/ member'[v] = member[v] /\ changed'[v] = changed[v]
                       \/ changed'[v] = now /\ now' = now
  BY <1>0, <1>1 DEF Inv, Typed
<1>8. Later
  BY <1>0, <1>1, <1>6, <1>7 DEF Later
<1> QED  BY <1>3, <1>5, <1>8, LaterJobs, LaterCaches DEF Inv

LEMMA ProbeKeeps ==
    ASSUME Inv, Probe \/ UNCHANGED vars
    PROVE  Inv'
<1>1. UNCHANGED <<scenario, now, gitlab, caches, job>>
  BY DEF Probe, vars
<1>2. \A u, s : LastMember(u, s)' = LastMember(u, s)
  BY <1>1 DEF LastMember, gitlab
<1>3. Later
  <2>1. \A u \in Users : \A s \in Spaces : LastMember(u, s) # None => LastMember(u, s) \in Nat
    BY LastTyped DEF Inv
  <2> QED  BY <1>1, <1>2, <2>1 DEF Later, gitlab
<1>4. Typed' /\ Past'
  BY <1>1 DEF Inv, Typed, Past, gitlab, caches
<1> QED  BY <1>3, <1>4, LaterJobs, LaterCaches DEF Inv
-----------------------------------------------------------------------------
LEMMA NextKeeps == Inv /\ [Next]_vars => Inv'
<1> SUFFICES ASSUME Inv, [Next]_vars  PROVE Inv'
  OBVIOUS
<1>1. CASE Tick
  BY <1>1, TickKeeps
<1>2. CASE Probe \/ UNCHANGED vars
  BY <1>2, ProbeKeeps
<1>3. CASE \E u \in Users, s \in Spaces : Join(u, s) \/ Leave(u, s)
  BY <1>3, MembershipKeeps
<1>4. ASSUME NEW h \in Handlers,
             \/ BeginRead(h) \/ Token(h) \/ Exchange(h) \/ ReadableSpaces(h) \/ ReadPage(h)
             \/ Store(h) \/ Answer(h) \/ Raises(h)
             \/ BeginLimited(h) \/ Scan(h) \/ Scanned(h) \/ Evict(h) \/ Count(h) \/ RecordHit(h)
      PROVE  Inv'
  BY <1>4, BeginReadKeeps, TokenKeeps, ReadableSpacesKeeps, ReadPageKeeps, StoreKeeps, EndKeeps,
     LimitedKeeps
<1> QED  BY <1>1, <1>2, <1>3, <1>4 DEF Next

LEMMA InvHolds == Spec => []Inv
BY InitInv, NextKeeps, PTL DEF Spec

\* An answer that is about to be given is what Answering says.
LEMMA AnswersAnswer ==
    ASSUME Inv, NEW h \in Handlers, At(h, "answer")
    PROVE  Answering(job[h])
BY ReadAt DEF ReadSteps, ReadSound

\* INV-ACC-5, however long the caches live and however many threads, tokens and spaces
\* there are: a space is shown only to somebody who was a member of it within the age a
\* cache may have and the time a membership takes to be read.
THEOREM RevocationIsBounded == Spec => []RevocationBounded
<1>1. Inv => RevocationBounded
  BY AnswersAnswer DEF RevocationBounded, Answering
<1> QED  BY <1>1, InvHolds, PTL

\* AR-08, likewise: an answer that is not a fallback is exactly the membership, once that
\* has not changed for the age of the cache and the time a reading takes.
THEOREM AnswersAreCurrent == Spec => []CurrentInTime
<1>1. Inv => CurrentInTime
  BY AnswersAnswer DEF CurrentInTime, Answering
<1> QED  BY <1>1, InvHolds, PTL
-----------------------------------------------------------------------------
(* The limiter: never beyond the limit while requests come one at a time, and never before. *)

\* The jobs of a route that is limited.
LimitedJob == [op : {"limited"}, step : LimitedSteps, user : Users, token : {None}, page : {1},
               value : {{}}, fallback : {FALSE}, began : Times,
               users : SUBSET Users, recent : SUBSET Hit]

\* A user's grants are numbered, none twice.
GrantsNumbered ==
    /\ granted \in [Users -> SUBSET Hit]
    /\ \A u \in Users :
           /\ IsFiniteSet(granted[u])
           /\ \A hit \in granted[u] : hit.nth \in 1..Cardinality(granted[u])

\* What the limiter remembers was granted, and is no more than it lets pass.
HitsGranted ==
    /\ Known \subseteq Users /\ hits \in [Known -> SUBSET Hit]
    /\ \A u \in Known : hits[u] \subseteq granted[u] /\ Cardinality(hits[u]) <= Limit

\* A request on its way through allow.
Counting(j) ==
    /\ j \in LimitedJob
    /\ j.began <= now
    /\ j.step = "record" => j.recent \subseteq granted[j.user] /\ Cardinality(j.recent) < Limit
    /\ j.step = "refused" => GrantedSince(j.user, j.began) >= Limit

\* The same while no other is in allow: what counts at its time is remembered, what it
\* evicts does not count, and what it has counted is all.
Exact(j) ==
    /\ j.step # "refused" => \A u \in Users : Recent(granted[u], j.began) \subseteq HitsOf(u)
    /\ j.step = "evict" => \A u \in j.users : Recent(granted[u], j.began) = {}
    /\ j.step = "record" => Recent(granted[j.user], j.began) \subseteq j.recent

OneInAllow ==
    ~overlapped =>
        /\ \A g, h \in Handlers : InAllow(g) /\ InAllow(h) => g = h
        /\ \A h \in Handlers : InAllow(h) => Exact(job[h])
        /\ \A u \in Users : Recent(granted[u], now) \subseteq HitsOf(u)

LimiterInv ==
    /\ gitlab_up \in BOOLEAN /\ overlapped \in BOOLEAN
    /\ GrantsNumbered /\ HitsGranted
    /\ \A h \in Handlers : InAllow(h) => Counting(job[h])
    /\ OneInAllow

LEMMA LimitFacts ==
    /\ Limit \in Nat \ {0} /\ Window \in Nat \ {0} /\ Times \subseteq Nat
BY GatewayAccessAssumption DEF GatewayAccessAssumption, Times

LEMMA RecentGrows ==
    ASSUME NEW S, NEW T, S \subseteq T, NEW t
    PROVE  Recent(S, t) \subseteq Recent(T, t) /\ Recent(S, t) \subseteq S
BY DEF Recent

\* What counts later counted before.
LEMMA RecentLasts ==
    ASSUME NEW S \in SUBSET Hit, NEW b \in Nat, NEW n \in Nat, b <= n
    PROVE  Recent(S, n) \subseteq Recent(S, b)
<1>1. \A hit \in S : hit.at \in Nat /\ Window \in Nat
  BY LimitFacts DEF Hit
<1> QED  BY <1>1 DEF Recent

\* More grants, more of them within the window.
LEMMA MoreGranted ==
    ASSUME NEW S, NEW T, S \subseteq T, IsFiniteSet(T), NEW t
    PROVE  /\ IsFiniteSet(Recent(S, t)) /\ IsFiniteSet(Recent(T, t))
           /\ Cardinality(Recent(S, t)) \in Nat /\ Cardinality(Recent(T, t)) \in Nat
           /\ Cardinality(Recent(S, t)) <= Cardinality(Recent(T, t))
<1>1. Recent(S, t) \subseteq Recent(T, t) /\ Recent(T, t) \subseteq T
  BY RecentGrows
<1>2. IsFiniteSet(Recent(T, t))
  BY <1>1, FS_Subset
<1>3. IsFiniteSet(Recent(S, t)) /\ Cardinality(Recent(S, t)) <= Cardinality(Recent(T, t))
  BY <1>1, <1>2, FS_Subset
<1> QED  BY <1>2, <1>3, FS_CardinalityType

\* A request counts on although others are granted meanwhile and time passes.
LEMMA CountsOn ==
    ASSUME NEW j, Counting(j), GrantsNumbered, GrantsNumbered', now \in Nat, now' \in Nat, now <= now',
           \A u \in Users : granted[u] \subseteq granted'[u]
    PROVE  Counting(j)'
<1>1. j \in LimitedJob /\ j.user \in Users /\ j.began \in Nat
  BY LimitFacts DEF Counting, LimitedJob
<1>2. IsFiniteSet(granted'[j.user]) /\ granted[j.user] \subseteq granted'[j.user]
  BY <1>1 DEF GrantsNumbered
<1>3. GrantedSince(j.user, j.began)' >= GrantedSince(j.user, j.began)
      /\ GrantedSince(j.user, j.began)' \in Nat /\ GrantedSince(j.user, j.began) \in Nat
  <2>1. GrantedSince(j.user, j.began)' = Cardinality(Recent(granted'[j.user], j.began))
    BY DEF GrantedSince, Recent
  <2> QED  BY <1>2, <2>1, MoreGranted DEF GrantedSince
<1> QED  BY <1>1, <1>2, <1>3, LimitFacts DEF Counting

LEMMA InitLimiter == Init => LimiterInv
<1> SUFFICES ASSUME Init  PROVE LimiterInv
  OBVIOUS
<1>1. GrantsNumbered
  BY FS_EmptySet DEF Init, GrantsNumbered
<1>2. HitsGranted
  BY DEF Init, HitsGranted, Known
<1>3. OneInAllow /\ \A h \in Handlers : InAllow(h) => Counting(job[h])
  BY DEF Init, OneInAllow, InAllow, Recent
<1> QED  BY <1>1, <1>2, <1>3 DEF LimiterInv, Init

\* Steps outside allow.
LEMMA OutsideAllow ==
    ASSUME Inv, LimiterInv, UNCHANGED limiter, gitlab_up' \in BOOLEAN, now' \in Times, now <= now',
           \A h \in Handlers : InAllow(h)' => job'[h] = job[h]
    PROVE  LimiterInv'
<1>1. now \in Nat /\ now' \in Nat
  BY LimitFacts DEF Inv, Typed
<1>2. granted' = granted /\ hits' = hits /\ overlapped' = overlapped
  BY DEF limiter
<1>3. GrantsNumbered' /\ HitsGranted'
  BY <1>2 DEF LimiterInv, GrantsNumbered, HitsGranted, Known
<1>4. \A h \in Handlers : InAllow(h)' => InAllow(h) /\ job'[h] = job[h]
  BY DEF InAllow
<1>5. ASSUME NEW h \in Handlers, InAllow(h)'
      PROVE  Counting(job[h])'
  <2>1. PICK j : j = job[h]
    OBVIOUS
  <2>2. Counting(j)
    BY <1>4, <1>5, <2>1 DEF LimiterInv
  <2>3. Counting(j)'
    BY <1>1, <1>2, <1>3, <2>2, CountsOn DEF LimiterInv
  <2>4. job'[h] = j
    BY <1>4, <1>5, <2>1
  <2> QED  BY <2>3, <2>4 DEF Counting, GrantedSince
<1>6. ASSUME ~overlapped, NEW h \in Handlers, InAllow(h)'
      PROVE  Exact(job[h])'
  <2>1. Exact(job[h]) /\ job'[h] = job[h]
    BY <1>4, <1>6 DEF LimiterInv, OneInAllow
  <2> QED  BY <1>2, <2>1 DEF Exact, HitsOf, Known
<1>7. ASSUME ~overlapped, NEW u \in Users
      PROVE  Recent(granted[u], now') \subseteq HitsOf(u)'
  <2>1. Recent(granted[u], now') \subseteq Recent(granted[u], now)
    BY <1>1, RecentLasts DEF LimiterInv, GrantsNumbered
  <2>2. Recent(granted[u], now) \subseteq HitsOf(u) /\ HitsOf(u)' = HitsOf(u)
    BY <1>2, <1>7 DEF LimiterInv, OneInAllow, HitsOf, Known
  <2> QED  BY <2>1, <2>2
<1>8. OneInAllow'
  <2>1. \A u \in Users : Recent(granted[u], now)' = Recent(granted[u], now')
    BY <1>2
  <2> QED  BY <1>2, <1>4, <1>6, <1>7, <2>1 DEF OneInAllow, LimiterInv
<1> QED  BY <1>2, <1>3, <1>5, <1>8 DEF LimiterInv

\* A step of thread h inside allow, after which its job is k.
LEMMA InsideAllow ==
    ASSUME Inv, LimiterInv, NEW h \in Handlers, NEW k, InAllow(h),
           job' = [job EXCEPT ![h] = k], now' = now, gitlab_up' = gitlab_up, overlapped' = overlapped,
           GrantsNumbered', HitsGranted', \A u \in Users : granted[u] \subseteq granted'[u],
           k # None => Counting(k)',
           ~overlapped => /\ k # None => Exact(k)'
                          /\ \A u \in Users : Recent(granted'[u], now) \subseteq HitsOf(u)'
    PROVE  LimiterInv'
<1>1. now \in Nat /\ DOMAIN job = Handlers
  BY LimitFacts DEF Inv, Typed
<1>2. job'[h] = k /\ \A g \in Handlers \ {h} : job'[g] = job[g]
  BY <1>1
<1>3. ASSUME NEW g \in Handlers, InAllow(g)'
      PROVE  Counting(job[g])'
  <2>1. PICK j : j = job'[g]
    OBVIOUS
  <2>2. CASE g = h
    <3>1. j = k /\ k # None
      BY <1>2, <1>3, <2>1, <2>2 DEF InAllow
    <3> QED  BY <2>1, <3>1 DEF Counting, GrantedSince
  <2>3. CASE g # h
    <3>1. InAllow(g) /\ j = job[g]
      BY <1>2, <1>3, <2>1, <2>3 DEF InAllow
    <3>2. Counting(j)
      BY <3>1 DEF LimiterInv
    <3>3. Counting(j)'
      BY <1>1, <3>2, CountsOn DEF LimiterInv
    <3> QED  BY <2>1, <3>3 DEF Counting, GrantedSince
  <2> QED  BY <2>2, <2>3
<1>4. ASSUME ~overlapped, NEW g \in Handlers, InAllow(g)'
      PROVE  g = h
  BY <1>2, <1>4 DEF InAllow, LimiterInv, OneInAllow
<1>5. ASSUME ~overlapped, NEW g \in Handlers, InAllow(g)'
      PROVE  Exact(job[g])'
  <2>1. job'[g] = k /\ k # None
    BY <1>2, <1>4, <1>5 DEF InAllow
  <2>2. Exact(k)'
    BY <1>5, <2>1
  <2> QED  BY <2>1, <2>2 DEF Exact
<1>6. OneInAllow'
  <2>1. \A u \in Users : Recent(granted[u], now)' = Recent(granted'[u], now)
    OBVIOUS
  <2> QED  BY <1>4, <1>5, <2>1 DEF OneInAllow
<1> QED  BY <1>3, <1>6 DEF LimiterInv

LEMMA BeginLimitedKeeps ==
    ASSUME Inv, LimiterInv, NEW h \in Handlers, BeginLimited(h)
    PROVE  LimiterInv'
<1>1. now \in Times /\ now \in Nat /\ DOMAIN job = Handlers
  BY LimitFacts DEF Inv, Typed
<1>2. PICK u \in Users : job' = [job EXCEPT ![h] =
           [op |-> "limited", step |-> "scan", user |-> u, token |-> None, page |-> 1, value |-> {},
            fallback |-> FALSE, began |-> now, users |-> {}, recent |-> {}]]
  BY DEF BeginLimited, Begin
<1>3. PICK k : k = [op |-> "limited", step |-> "scan", user |-> u, token |-> None, page |-> 1,
            value |-> {}, fallback |-> FALSE, began |-> now, users |-> {}, recent |-> {}]
  OBVIOUS
<1>4. job'[h] = k /\ \A g \in Handlers \ {h} : job'[g] = job[g]
  BY <1>1, <1>2, <1>3
<1>5. k \in LimitedJob /\ k.step = "scan" /\ k.began = now
  BY <1>1, <1>3 DEF LimitedJob, LimitedSteps
<1>6. /\ now' = now /\ gitlab_up' = gitlab_up /\ hits' = hits /\ granted' = granted
      /\ overlapped' = (overlapped \/ \E g \in Handlers : InAllow(g))
  BY DEF BeginLimited
<1>7. GrantsNumbered' /\ HitsGranted' /\ gitlab_up' \in BOOLEAN /\ overlapped' \in BOOLEAN
  BY <1>6 DEF LimiterInv, GrantsNumbered, HitsGranted, Known
<1>8. ASSUME NEW g \in Handlers, InAllow(g)'
      PROVE  Counting(job[g])'
  <2>1. PICK j : j = job'[g]
    OBVIOUS
  <2>2. CASE g = h
    BY <1>1, <1>4, <1>5, <1>6, <2>2 DEF Counting
  <2>3. CASE g # h
    <3>1. Counting(j)
      BY <1>4, <1>8, <2>1, <2>3 DEF LimiterInv, InAllow
    <3>2. Counting(j)'
      BY <1>1, <1>6, <1>7, <3>1, CountsOn DEF LimiterInv
    <3> QED  BY <2>1, <3>2 DEF Counting, GrantedSince
  <2> QED  BY <2>2, <2>3
<1>9. ASSUME ~overlapped'
      PROVE  /\ \A g \in Handlers : InAllow(g)' => g = h
             /\ Exact(k)'
             /\ \A v \in Users : (Recent(granted[v], now) \subseteq HitsOf(v))'
  <2>1. ~overlapped /\ \A g \in Handlers : ~InAllow(g)
    BY <1>6, <1>9
  <2>2. \A v \in Users : Recent(granted[v], now) \subseteq HitsOf(v)
    BY <2>1 DEF LimiterInv, OneInAllow
  <2>3. \A g \in Handlers : InAllow(g)' => g = h
    BY <1>4, <2>1 DEF InAllow
  <2>4. \A v \in Users : (Recent(granted[v], now) \subseteq HitsOf(v))'
    BY <1>6, <2>2 DEF HitsOf, Known
  <2>5. \A v \in Users : (Recent(granted[v], k.began) \subseteq HitsOf(v))'
    BY <1>5, <1>6, <2>2 DEF HitsOf, Known
  <2> QED  BY <1>5, <2>3, <2>4, <2>5 DEF Exact
<1>10. OneInAllow'
  BY <1>4, <1>9 DEF OneInAllow, Exact
<1> QED  BY <1>7, <1>8, <1>10 DEF LimiterInv

\* Thread h at a step of allow.
LEMMA AllowAt ==
    ASSUME Inv, LimiterInv, NEW h \in Handlers, NEW step \in LimitedSteps, At(h, step)
    PROVE  /\ InAllow(h) /\ job[h] # None /\ job[h].step = step
           /\ Counting(job[h]) /\ job[h] \in LimitedJob
           /\ ~overlapped => Exact(job[h])
           /\ now \in Nat /\ job[h].began \in Nat /\ job[h].began <= now
           /\ job[h].user \in Users /\ job[h].users \subseteq Users
<1>1. InAllow(h) /\ job[h] # None /\ job[h].step = step
  BY LimitedAt DEF Limited, InAllow
<1>2. Counting(job[h]) /\ (~overlapped => Exact(job[h]))
  BY <1>1 DEF LimiterInv, OneInAllow
<1>3. job[h] \in LimitedJob /\ job[h].began <= now
  BY <1>2 DEF Counting
<1> QED  BY <1>1, <1>2, <1>3, LimitFacts DEF LimitedJob, Inv, Typed

\* A step that leaves the dictionary and the grants alone.
LEMMA LookingOn ==
    ASSUME Inv, LimiterInv, NEW h \in Handlers, InAllow(h), NEW k,
           job' = [job EXCEPT ![h] = k], UNCHANGED <<now, gitlab_up, limiter>>,
           k # None => Counting(k), ~overlapped /\ k # None => Exact(k)
    PROVE  LimiterInv'
<1>1. granted' = granted /\ hits' = hits /\ overlapped' = overlapped /\ now' = now
  BY DEF limiter
<1>2. GrantsNumbered' /\ HitsGranted'
  BY <1>1 DEF LimiterInv, GrantsNumbered, HitsGranted, Known
<1>3. k # None => Counting(k)'
  BY <1>1 DEF Counting, GrantedSince
<1>4. ~overlapped /\ k # None => Exact(k)'
  BY <1>1 DEF Exact, HitsOf, Known
<1>5. ~overlapped => \A u \in Users : Recent(granted'[u], now) \subseteq HitsOf(u)'
  BY <1>1 DEF LimiterInv, OneInAllow, HitsOf, Known
<1> QED  BY <1>1, <1>2, <1>3, <1>4, <1>5, InsideAllow

LEMMA ScanKeeps ==
    ASSUME Inv, LimiterInv, NEW h \in Handlers, Scan(h)
    PROVE  LimiterInv'
<1>1. At(h, "scan") /\ InAllow(h) /\ job[h] \in LimitedJob /\ job[h].step = "scan"
      /\ Counting(job[h]) /\ (~overlapped => Exact(job[h]))
  BY AllowAt DEF Scan, LimitedSteps
<1>2. PICK k : k = [job[h] EXCEPT !.users = Known, !.step = "scanned"]
  OBVIOUS
<1>3. job' = [job EXCEPT ![h] = k]
  BY <1>2 DEF Scan
<1>4. k \in LimitedJob /\ k.step = "scanned" /\ k.began = job[h].began /\ k.user = job[h].user
  BY <1>1, <1>2 DEF LimitedJob, LimitedSteps, LimiterInv, HitsGranted
<1>5. Counting(k) /\ (~overlapped => Exact(k))
  BY <1>1, <1>4 DEF Counting, Exact
<1> QED  BY <1>1, <1>3, <1>5, LookingOn DEF Scan

LEMMA ScannedKeeps ==
    ASSUME Inv, LimiterInv, NEW h \in Handlers, Scanned(h)
    PROVE  LimiterInv'
<1>1. At(h, "scanned") /\ InAllow(h) /\ job[h] \in LimitedJob /\ job[h].step = "scanned"
      /\ Counting(job[h]) /\ (~overlapped => Exact(job[h])) /\ job[h].users \subseteq Users
  BY AllowAt DEF Scanned, LimitedSteps
<1>2. CASE job' = [job EXCEPT ![h] = None]
  BY <1>1, <1>2, LookingOn DEF Scanned
<1> DEFINE gone == {u \in Known : Stale(u, job[h].began)}
<1>3. CASE job' = [job EXCEPT ![h].users = gone, ![h].step = "evict"]
  <2>1. PICK k : k = [job[h] EXCEPT !.users = gone, !.step = "evict"]
    OBVIOUS
  <2>2. job' = [job EXCEPT ![h] = k]
    BY <1>3, <2>1
  <2>3. /\ k \in LimitedJob /\ k.step = "evict" /\ k.began = job[h].began /\ k.user = job[h].user
        /\ k.users = gone
    BY <1>1, <2>1 DEF LimitedJob, LimitedSteps, LimiterInv, HitsGranted
  <2>4. Counting(k)
    BY <1>1, <2>3 DEF Counting
  <2>5. ASSUME ~overlapped  PROVE Exact(k)
    <3>1. \A u \in Users : Recent(granted[u], k.began) \subseteq HitsOf(u)
      BY <1>1, <2>3, <2>5 DEF Exact
    <3>2. ASSUME NEW u \in k.users  PROVE Recent(granted[u], k.began) = {}
      <4>1. u \in Known /\ Recent(hits[u], k.began) = {}
        BY <2>3, <3>2 DEF Stale
      <4>2. u \in Users /\ HitsOf(u) = hits[u]
        BY <4>1 DEF HitsOf, LimiterInv, HitsGranted
      <4>3. Recent(granted[u], k.began) \subseteq hits[u]
        BY <3>1, <4>2
      <4> QED  BY <4>1, <4>3 DEF Recent
    <3> QED  BY <2>3, <3>1, <3>2 DEF Exact
  <2> QED  BY <1>1, <2>2, <2>4, <2>5, LookingOn DEF Scanned
<1> QED  BY <1>2, <1>3 DEF Scanned, Finish

LEMMA EvictKeeps ==
    ASSUME Inv, LimiterInv, NEW h \in Handlers, Evict(h)
    PROVE  LimiterInv'
<1>1. /\ At(h, "evict") /\ InAllow(h) /\ job[h] \in LimitedJob /\ job[h].step = "evict"
      /\ Counting(job[h]) /\ (~overlapped => Exact(job[h])) /\ job[h].users \subseteq Users
      /\ now \in Nat /\ job[h].began \in Nat /\ job[h].began <= now
  BY AllowAt DEF Evict, LimitedSteps
<1>2. CASE Goto(h, "count") /\ UNCHANGED hits
  <2>1. PICK k : k = [job[h] EXCEPT !.step = "count"]
    OBVIOUS
  <2>2. job' = [job EXCEPT ![h] = k]
    BY <1>2, <2>1 DEF Goto
  <2>3. k \in LimitedJob /\ k.step = "count" /\ k.began = job[h].began /\ k.user = job[h].user
    BY <1>1, <2>1 DEF LimitedJob, LimitedSteps
  <2>4. Counting(k) /\ (~overlapped => Exact(k))
    BY <1>1, <2>3 DEF Counting, Exact
  <2>5. UNCHANGED <<now, gitlab_up, limiter>>
    BY <1>2 DEF Evict, limiter
  <2> QED  BY <1>1, <2>2, <2>4, <2>5, LookingOn
<1>3. ASSUME NEW u \in job[h].users, hits' = [v \in Known \ {u} |-> hits[v]],
             \/ job' = [job EXCEPT ![h] = None]
             \/ job' = [job EXCEPT ![h].users = @ \ {u}]
      PROVE  LimiterInv'
  <2>1. /\ granted' = granted /\ overlapped' = overlapped /\ now' = now /\ gitlab_up' = gitlab_up
        /\ Known' = Known \ {u} /\ \A v \in Known \ {u} : hits'[v] = hits[v]
    BY <1>3 DEF Evict, Known
  <2>2. GrantsNumbered' /\ HitsGranted'
    BY <1>3, <2>1 DEF LimiterInv, GrantsNumbered, HitsGranted
  <2>3. \A v \in Users \ {u} : HitsOf(v)' = HitsOf(v)
    BY <2>1 DEF HitsOf
  <2>4. ASSUME ~overlapped
        PROVE  \A v \in Users : Recent(granted[v], job[h].began) \subseteq HitsOf(v)'
    <3>1. \A v \in Users : Recent(granted[v], job[h].began) \subseteq HitsOf(v)
      BY <1>1, <2>4 DEF Exact
    <3>2. Recent(granted[u], job[h].began) = {}
      BY <1>1, <2>4 DEF Exact
    <3> QED  BY <2>3, <3>1, <3>2
  <2>5. ASSUME ~overlapped
        PROVE  \A v \in Users : Recent(granted'[v], now) \subseteq HitsOf(v)'
    <3>1. \A v \in Users : Recent(granted[v], now) \subseteq Recent(granted[v], job[h].began)
      BY <1>1, RecentLasts DEF LimiterInv, GrantsNumbered
    <3> QED  BY <2>1, <2>4, <2>5, <3>1
  <2>6. CASE job' = [job EXCEPT ![h] = None]
    BY <1>1, <2>1, <2>2, <2>5, <2>6, InsideAllow
  <2>7. CASE job' = [job EXCEPT ![h].users = @ \ {u}]
    <3>1. PICK k : k = [job[h] EXCEPT !.users = @ \ {u}]
      OBVIOUS
    <3>2. job' = [job EXCEPT ![h] = k]
      BY <2>7, <3>1
    <3>3. /\ k \in LimitedJob /\ k.step = "evict" /\ k.began = job[h].began
          /\ k.user = job[h].user /\ k.users = job[h].users \ {u}
      BY <1>1, <3>1 DEF LimitedJob, LimitedSteps
    <3>4. Counting(k)'
      BY <1>1, <2>1, <3>3 DEF Counting
    <3>5. ~overlapped => Exact(k)'
      BY <1>1, <2>1, <2>4, <3>3 DEF Exact
    <3> QED  BY <1>1, <2>1, <2>2, <2>5, <3>2, <3>4, <3>5, InsideAllow
  <2> QED  BY <1>3, <2>6, <2>7
<1> QED  BY <1>2, <1>3 DEF Evict, Finish

\* What a request counts.
LEMMA Counted ==
    ASSUME Inv, LimiterInv, NEW u \in Users, NEW t \in Nat
    PROVE  /\ Recent(HitsOf(u), t) \subseteq granted[u] /\ Recent(HitsOf(u), t) \subseteq HitsOf(u)
           /\ Recent(HitsOf(u), t) \subseteq Hit
           /\ IsFiniteSet(Recent(HitsOf(u), t))
           /\ Cardinality(Recent(HitsOf(u), t)) \in Nat
           /\ Cardinality(Recent(HitsOf(u), t)) <= Limit
           /\ Cardinality(Recent(HitsOf(u), t)) <= GrantedSince(u, t)
           /\ GrantedSince(u, t) \in Nat
<1>1. HitsOf(u) \subseteq granted[u] /\ IsFiniteSet(granted[u]) /\ granted[u] \subseteq Hit
  BY DEF HitsOf, LimiterInv, HitsGranted, GrantsNumbered
<1>2. IsFiniteSet(HitsOf(u)) /\ Cardinality(HitsOf(u)) \in Nat
  BY <1>1, FS_Subset, FS_CardinalityType
<1>3. Cardinality(HitsOf(u)) <= Limit
  BY LimitFacts, FS_EmptySet DEF HitsOf, LimiterInv, HitsGranted
<1>4. Recent(HitsOf(u), t) \subseteq HitsOf(u)
  BY DEF Recent
<1>5. IsFiniteSet(Recent(HitsOf(u), t)) /\ Cardinality(Recent(HitsOf(u), t)) <= Cardinality(HitsOf(u))
      /\ Cardinality(Recent(HitsOf(u), t)) \in Nat
  BY <1>2, <1>4, FS_Subset, FS_CardinalityType
<1>6. Cardinality(Recent(HitsOf(u), t)) <= GrantedSince(u, t) /\ GrantedSince(u, t) \in Nat
  BY <1>1, MoreGranted DEF GrantedSince
<1> QED  BY <1>1, <1>2, <1>3, <1>4, <1>5, <1>6, LimitFacts

LEMMA CountKeeps ==
    ASSUME Inv, LimiterInv, NEW h \in Handlers, Count(h)
    PROVE  LimiterInv'
<1>1. /\ At(h, "count") /\ InAllow(h) /\ job[h] \in LimitedJob /\ job[h].step = "count"
      /\ Counting(job[h]) /\ (~overlapped => Exact(job[h])) /\ job[h].user \in Users
      /\ now \in Nat /\ job[h].began \in Nat /\ job[h].began <= now
  BY AllowAt DEF Count, LimitedSteps
<1>2. PICK u \in Users : u = job[h].user
  BY <1>1
<1>3. PICK recent : recent = Recent(HitsOf(u), job[h].began)
  OBVIOUS
<1>4. /\ recent \subseteq granted[u] /\ recent \subseteq HitsOf(u) /\ recent \subseteq Hit
      /\ Cardinality(recent) \in Nat /\ Cardinality(recent) <= Limit
      /\ Cardinality(recent) <= GrantedSince(u, job[h].began) /\ GrantedSince(u, job[h].began) \in Nat
  BY <1>1, <1>3, Counted
<1>5. granted' = granted /\ overlapped' = overlapped /\ now' = now /\ gitlab_up' = gitlab_up
  BY DEF Count
<1>6. ASSUME ~overlapped  PROVE Recent(granted[u], job[h].began) \subseteq recent
  <2>1. Recent(granted[u], job[h].began) \subseteq HitsOf(u)
    BY <1>1, <1>6 DEF Exact
  <2> QED  BY <1>3, <2>1 DEF Recent
<1>7. CASE AtLimit(Cardinality(recent)) /\ SetHits(u, recent) /\ Goto(h, "refused")
  <2>1. PICK k : k = [job[h] EXCEPT !.step = "refused"]
    OBVIOUS
  <2>2. job' = [job EXCEPT ![h] = k]
    BY <1>7, <2>1 DEF Goto
  <2>3. k \in LimitedJob /\ k.step = "refused" /\ k.began = job[h].began /\ k.user = u
    BY <1>1, <1>2, <2>1 DEF LimitedJob, LimitedSteps
  <2>4. /\ Known' = Known \cup {u}
        /\ \A v \in Known' : hits'[v] = IF v = u THEN recent ELSE hits[v]
        /\ hits' = [v \in Known' |-> hits'[v]]
    BY <1>7 DEF SetHits, Known
  <2>5. GrantsNumbered' /\ HitsGranted'
    BY <1>4, <1>5, <2>4 DEF LimiterInv, GrantsNumbered, HitsGranted
  <2>6. Counting(k)'
    BY <1>1, <1>4, <1>5, <1>7, <2>3, LimitFacts DEF Counting, GrantedSince, AtLimit
  <2>7. Exact(k)'
    BY <2>3 DEF Exact
  <2>8. ASSUME ~overlapped, NEW v \in Users
        PROVE  Recent(granted'[v], now) \subseteq HitsOf(v)'
    <3>1. Recent(granted[v], now) \subseteq HitsOf(v)
      BY <2>8 DEF LimiterInv, OneInAllow
    <3>2. Recent(granted[v], now) \subseteq Recent(granted[v], job[h].began)
      BY <1>1, RecentLasts DEF LimiterInv, GrantsNumbered
    <3>3. HitsOf(v)' = IF v = u THEN recent ELSE HitsOf(v)
      BY <2>4 DEF HitsOf
    <3> QED  BY <1>5, <1>6, <2>8, <3>1, <3>2, <3>3
  <2> QED  BY <1>1, <1>5, <2>2, <2>5, <2>6, <2>7, <2>8, InsideAllow
<1>8. CASE /\ ~AtLimit(Cardinality(recent)) /\ UNCHANGED hits
           /\ job' = [job EXCEPT ![h].recent = recent, ![h].step = "record"]
  <2>1. PICK k : k = [job[h] EXCEPT !.recent = recent, !.step = "record"]
    OBVIOUS
  <2>2. job' = [job EXCEPT ![h] = k]
    BY <1>8, <2>1
  <2>3. /\ k \in LimitedJob /\ k.step = "record" /\ k.began = job[h].began /\ k.user = u
        /\ k.recent = recent
    BY <1>1, <1>2, <1>4, <2>1 DEF LimitedJob, LimitedSteps
  <2>4. Counting(k)
    BY <1>1, <1>4, <1>8, <2>3, LimitFacts DEF Counting, AtLimit
  <2>5. ~overlapped => Exact(k)
    BY <1>1, <1>6, <2>3 DEF Exact
  <2>6. UNCHANGED <<now, gitlab_up, limiter>>
    BY <1>5, <1>8 DEF limiter
  <2> QED  BY <1>1, <2>2, <2>4, <2>5, <2>6, LookingOn
<1> QED  BY <1>2, <1>3, <1>7, <1>8 DEF Count, AfterRefusal

LEMMA RecordHitKeeps ==
    ASSUME Inv, LimiterInv, NEW h \in Handlers, RecordHit(h)
    PROVE  LimiterInv'
<1>1. /\ At(h, "record") /\ InAllow(h) /\ job[h] \in LimitedJob /\ job[h].step = "record"
      /\ Counting(job[h]) /\ (~overlapped => Exact(job[h])) /\ job[h].user \in Users
      /\ now \in Nat /\ job[h].began \in Nat /\ job[h].began <= now
  BY AllowAt DEF RecordHit, LimitedSteps
<1>2. PICK u \in Users : u = job[h].user
  BY <1>1
<1>3. PICK hit : hit = [at |-> job[h].began, nth |-> Cardinality(granted[u]) + 1]
  OBVIOUS
<1>4. PICK recent : recent = job[h].recent
  OBVIOUS
<1>5. /\ job' = [job EXCEPT ![h] = None]
      /\ SetHits(u, recent \cup {hit})
      /\ granted' = [granted EXCEPT ![u] = @ \cup {hit}]
      /\ overlapped' = overlapped /\ now' = now /\ gitlab_up' = gitlab_up
  BY <1>2, <1>3, <1>4 DEF RecordHit, Finish
<1>6. /\ granted[u] \subseteq Hit /\ IsFiniteSet(granted[u]) /\ Cardinality(granted[u]) \in Nat
      /\ \A x \in granted[u] : x.nth \in 1..Cardinality(granted[u])
      /\ recent \subseteq granted[u] /\ Cardinality(recent) < Limit
      /\ IsFiniteSet(recent) /\ Cardinality(recent) \in Nat
  <2>1. granted[u] \subseteq Hit /\ IsFiniteSet(granted[u])
        /\ \A x \in granted[u] : x.nth \in 1..Cardinality(granted[u])
    BY DEF LimiterInv, GrantsNumbered
  <2>2. recent \subseteq granted[u] /\ Cardinality(recent) < Limit
    BY <1>1, <1>2, <1>4 DEF Counting
  <2> QED  BY <2>1, <2>2, FS_Subset, FS_CardinalityType
<1>7. hit \in Hit /\ hit.nth = Cardinality(granted[u]) + 1 /\ hit.at = job[h].began
  <2>1. job[h].began \in Times
    BY <1>1 DEF LimitedJob
  <2>2. Cardinality(granted[u]) + 1 \in Nat
    BY <1>6
  <2> QED  BY <1>3, <2>1, <2>2 DEF Hit
<1>8. hit \notin granted[u]
  BY <1>6, <1>7
<1>9. /\ IsFiniteSet(granted[u] \cup {hit})
      /\ Cardinality(granted[u] \cup {hit}) = Cardinality(granted[u]) + 1
  BY <1>6, <1>8, FS_AddElement
<1>10. Cardinality(recent \cup {hit}) = Cardinality(recent) + 1
  BY <1>6, <1>8, FS_AddElement
<1>11. /\ granted'[u] = granted[u] \cup {hit}
       /\ \A v \in Users \ {u} : granted'[v] = granted[v]
       /\ granted' \in [Users -> SUBSET Hit]
  BY <1>5, <1>6, <1>7 DEF LimiterInv, GrantsNumbered
<1>12. GrantsNumbered'
  <2>1. \A x \in granted'[u] : x.nth \in 1..Cardinality(granted'[u])
    BY <1>6, <1>7, <1>9, <1>11
  <2> QED  BY <1>9, <1>11, <2>1 DEF LimiterInv, GrantsNumbered
<1>13. /\ Known' = Known \cup {u}
       /\ \A v \in Known' : hits'[v] = IF v = u THEN recent \cup {hit} ELSE hits[v]
       /\ hits' = [v \in Known' |-> hits'[v]]
  BY <1>5 DEF SetHits, Known
<1>14. HitsGranted'
  <2>1. Known' \subseteq Users
    BY <1>13 DEF LimiterInv, HitsGranted
  <2>2. ASSUME NEW v \in Known'
        PROVE  hits'[v] \subseteq granted'[v] /\ Cardinality(hits'[v]) <= Limit /\ hits'[v] \subseteq Hit
    <3>1. CASE v = u
      BY <1>6, <1>7, <1>10, <1>11, <1>13, <3>1, LimitFacts
    <3>2. CASE v # u
      BY <1>11, <1>13, <2>1, <3>2 DEF LimiterInv, HitsGranted
    <3> QED  BY <3>1, <3>2
  <2> QED  BY <1>13, <2>1, <2>2 DEF HitsGranted
<1>15. ASSUME ~overlapped, NEW v \in Users
       PROVE  Recent(granted'[v], now) \subseteq HitsOf(v)'
  <2>1. CASE v # u
    <3>1. HitsOf(v)' = HitsOf(v) /\ granted'[v] = granted[v]
      BY <1>11, <1>13, <2>1 DEF HitsOf
    <3> QED  BY <1>15, <3>1 DEF LimiterInv, OneInAllow
  <2>2. CASE v = u
    <3>1. HitsOf(u)' = recent \cup {hit}
      BY <1>13 DEF HitsOf
    <3>2. Recent(granted[u], job[h].began) \subseteq recent
      BY <1>1, <1>2, <1>4, <1>15 DEF Exact
    <3>3. Recent(granted[u], now) \subseteq Recent(granted[u], job[h].began)
      BY <1>1, <1>6, RecentLasts
    <3>4. Recent(granted[u] \cup {hit}, now) \subseteq Recent(granted[u], now) \cup {hit}
      BY DEF Recent
    <3> QED  BY <1>11, <2>2, <3>1, <3>2, <3>3, <3>4
  <2> QED  BY <2>1, <2>2
<1>16. \A v \in Users : granted[v] \subseteq granted'[v]
  BY <1>11
<1> QED  BY <1>1, <1>5, <1>12, <1>14, <1>15, <1>16, InsideAllow

\* A request for a membership never enters allow.
LEMMA ReadsKeep ==
    ASSUME Inv, LimiterInv, NEW h \in Handlers,
           \/ BeginRead(h) \/ Token(h) \/ Exchange(h) \/ ReadableSpaces(h) \/ ReadPage(h)
           \/ Store(h) \/ Answer(h) \/ Raises(h)
    PROVE  LimiterInv'
<1>1. DOMAIN job = Handlers /\ now \in Times /\ now \in Nat
  BY LimitFacts DEF Inv, Typed
<1>2. UNCHANGED <<limiter, gitlab_up, now>>
  BY DEF BeginRead, Token, Exchange, ReadableSpaces, ReadPage, Store, Answer, Raises
<1>3. \A g \in Handlers \ {h} : job'[g] = job[g]
  BY <1>1 DEF BeginRead, Begin, Token, Exchange, ReadableSpaces, ReadPage, Store, Answer, Raises,
              Goto, Finish
<1>4. job'[h] # None => job'[h].op = "read"
  <2>1. CASE BeginRead(h)
    BY <1>1, <2>1 DEF BeginRead, Begin
  <2>2. CASE Answer(h) \/ Raises(h)
    BY <1>1, <2>2 DEF Answer, Raises, Finish
  <2>3. CASE Token(h)
    <3>1. job[h] \in ReadJob
      BY <2>3, ReadAt DEF Token, ReadSteps
    <3> QED  BY <1>1, <2>3, <3>1 DEF Token, Goto, ReadJob
  <2>4. CASE Exchange(h)
    <3>1. job[h] \in ReadJob
      BY <2>4, ReadAt DEF Exchange, ReadSteps
    <3>2. PICK t : job' = [job EXCEPT ![h] = [job[h] EXCEPT !.token = t, !.step = "spaces"]]
      BY <2>4 DEF Exchange
    <3>3. job'[h] = [job[h] EXCEPT !.token = t, !.step = "spaces"]
      BY <1>1, <3>2
    <3> QED  BY <3>1, <3>3 DEF ReadJob
  <2>5. CASE ReadableSpaces(h)
    <3>1. job[h] \in ReadJob
      BY <2>5, ReadAt DEF ReadableSpaces, ReadSteps
    <3> QED  BY <1>1, <2>5, <3>1 DEF ReadableSpaces, ReadJob
  <2>6. CASE ReadPage(h)
    <3>1. job[h] \in ReadJob
      BY <2>6, ReadAt DEF ReadPage, ReadSteps
    <3> QED  BY <1>1, <2>6, <3>1 DEF ReadPage, ReadJob
  <2>7. CASE Store(h)
    <3>1. job[h] \in ReadJob
      BY <2>7, ReadAt DEF Store, ReadSteps
    <3> QED  BY <1>1, <2>7, <3>1 DEF Store, Goto, ReadJob
  <2> QED  BY <2>1, <2>2, <2>3, <2>4, <2>5, <2>6, <2>7
<1>5. \A g \in Handlers : InAllow(g)' => job'[g] = job[g]
  BY <1>3, <1>4 DEF InAllow
<1> QED  BY <1>1, <1>2, <1>5, OutsideAllow DEF LimiterInv

LEMMA LimiterKept == Inv /\ LimiterInv /\ [Next]_vars => LimiterInv'
<1> SUFFICES ASSUME Inv, LimiterInv, [Next]_vars  PROVE LimiterInv'
  OBVIOUS
<1>1. now \in Times /\ now \in Nat /\ gitlab_up \in BOOLEAN
  BY LimitFacts DEF Inv, Typed, LimiterInv
<1>2. CASE UNCHANGED vars
  BY <1>1, <1>2, OutsideAllow DEF vars
<1>3. CASE Tick
  <2>1. now' \in Times /\ now <= now' /\ UNCHANGED <<limiter, gitlab_up, job>>
    <3>1. scenario.until \in Times
      BY ConstantFacts DEF Inv, Typed, Scenario
    <3> QED  BY <1>1, <1>3, <3>1, ConstantFacts DEF Tick, Times
  <2> QED  BY <1>1, <2>1, OutsideAllow
<1>4. CASE Probe
  BY <1>1, <1>4, OutsideAllow DEF Probe
<1>5. CASE \E u \in Users, s \in Spaces : Join(u, s) \/ Leave(u, s)
  BY <1>1, <1>5, OutsideAllow DEF Join, Leave
<1>6. ASSUME NEW h \in Handlers,
             \/ BeginRead(h) \/ Token(h) \/ Exchange(h) \/ ReadableSpaces(h) \/ ReadPage(h)
             \/ Store(h) \/ Answer(h) \/ Raises(h)
             \/ BeginLimited(h) \/ Scan(h) \/ Scanned(h) \/ Evict(h) \/ Count(h) \/ RecordHit(h)
      PROVE  LimiterInv'
  BY <1>6, ReadsKeep, BeginLimitedKeeps, ScanKeeps, ScannedKeeps, EvictKeeps, CountKeeps, RecordHitKeeps
<1> QED  BY <1>2, <1>3, <1>4, <1>5, <1>6 DEF Next

LEMMA LimiterHolds == Spec => [](Inv /\ LimiterInv)
  BY InitLimiter, LimiterKept, InvHolds, PTL DEF Spec

\* Type correctness: the caches, the memberships on their way and the limiter's hits hold only
\* what they are made for, and the limiter never keeps more hits of a user than it lets pass,
\* however threads evict and overwrite each other's hits.
THEOREM TypesHold == Spec => []TypeOK
<1>1. Inv /\ LimiterInv => TypeOK
  <2> SUFFICES ASSUME Inv, LimiterInv  PROVE TypeOK
    OBVIOUS
  <2>1. ReadJob \subseteq Job
    BY DEF ReadJob, Job, Ops, Steps, ReadSteps
  <2>2. LimitedJob \subseteq Job
    <3>1. LimitedSteps \subseteq Steps /\ "limited" \in Ops /\ 1 \in Nat /\ {} \in SUBSET Spaces
      BY DEF Ops, Steps, LimitedSteps
    <3> QED  BY <3>1 DEF LimitedJob, Job
  <2>3. ASSUME NEW h \in Handlers  PROVE job[h] \in Job \cup {None}
    <3>1. CASE job[h] # None /\ ReadSound(job[h])
      BY <2>1, <3>1 DEF ReadSound
    <3>2. CASE job[h] # None /\ Limited(job[h])
      BY <2>2, <3>2 DEF Limited, InAllow, LimiterInv, Counting
    <3> QED  BY <3>1, <3>2, JobAt
  <2>4. job \in [Handlers -> Job \cup {None}]
    BY <2>3 DEF Inv, Typed
  <2> QED  BY <2>4 DEF TypeOK, Inv, Typed, LimiterInv, GrantsNumbered, HitsGranted
<1> QED  BY <1>1, LimiterHolds, PTL

\* INV-SLACK-1, INV-IX-3: for any limit, window, users and threads nobody is refused who has not
\* had the limit within the window, and while no two requests have been in allow at once no window
\* holds more grants of a user than the limit.
THEOREM LimitIsExact == Spec => []LimitExact
<1>1. Inv /\ LimiterInv => LimitExact
  <2> SUFFICES ASSUME Inv, LimiterInv  PROVE LimitExact
    OBVIOUS
  <2>1. ASSUME ~overlapped, NEW u \in Users  PROVE GrantedSince(u, now) <= Limit
    <3>1. Recent(granted[u], now) \subseteq HitsOf(u)
      BY <2>1 DEF LimiterInv, OneInAllow
    <3>2. IsFiniteSet(HitsOf(u)) /\ Cardinality(HitsOf(u)) \in Nat /\ Cardinality(HitsOf(u)) <= Limit
      BY LimitFacts, FS_Subset, FS_EmptySet, FS_CardinalityType
         DEF HitsOf, LimiterInv, HitsGranted, GrantsNumbered
    <3>3. /\ Cardinality(Recent(granted[u], now)) <= Cardinality(HitsOf(u))
          /\ Cardinality(Recent(granted[u], now)) \in Nat
      BY <3>1, <3>2, FS_Subset, FS_CardinalityType
    <3> QED  BY <3>2, <3>3, LimitFacts DEF GrantedSince
  <2>2. ASSUME NEW h \in Handlers, At(h, "refused")
        PROVE  GrantedSince(job[h].user, job[h].began) >= Limit
    BY <2>2, AllowAt DEF LimitedSteps, Counting
  <2> QED  BY <2>1, <2>2 DEF LimitExact, WithinLimit, RefusedOnlyAtLimit
<1> QED  BY <1>1, LimiterHolds, PTL
=============================================================================
