--------------------------- MODULE GatewayAccess ---------------------------
(***************************************************************************)
(* What a request may see and how often it may ask, both by the clock: the *)
(* caches of exchanged tokens and of GitLab memberships with the last-     *)
(* known fallback (get_principal, _readable_spaces), and the sliding-      *)
(* window limiter of captures and reindexing (CaptureRateLimiter).         *)
(*                                                                         *)
(* Threads share the dictionaries without a lock.  Groups are resolved as  *)
(* spaces are, with a cache of their own (_readable_groups).               *)
(***************************************************************************)
EXTENDS Naturals, FiniteSets

CONSTANTS
    Handlers,
    Users,          \* principals, each with one bearer token
    TokensOf,       \* TokensOf[u]: GitLab tokens an exchange may yield for u
    Spaces,         \* numbered in the order GitLab lists them
    SpacesOf,       \* SpacesOf[u]: those u may become a member of
    PerPage,        \* GitLabAuthority's page size
    Ttl,            \* of both caches
    LastKnownMaxAge,
    MaxCall,        \* assumed: the time reading a membership takes, all of its pages
    Limit, Window,  \* of the limiter
    MayFail,        \* steps that may raise
    Scenarios,      \* what one behaviour is about, chosen by Init
    MaxTime, MaxGrants, \* bounds (guards only): of any clock, of a user's grants
    None

Ops == {"read", "limited"}
Steps == {"token", "exchange", "spaces", "page", "store", "answer",
          "scan", "scanned", "evict", "count", "record", "refused"}
Tokens == UNION {TokensOf[u] : u \in Users}
Times == 0..MaxTime

\* A time in a list of the limiter; the number tells two of the same time apart (their
\* order in the list does not matter).
Hit == [at : Times, nth : Nat]

\* What each thread may be asked and by whom, and how far the clock goes (a bound).
Scenario == [serves : [Handlers -> SUBSET (Ops \X Users)], until : Times]

Job == [op : Ops, step : Steps, user : Users, token : Tokens \cup {None},
        page : Nat, value : SUBSET Spaces,
        fallback : BOOLEAN,            \* the value is the last known one
        began : Times,                 \* of reading the membership; allow's now
        users : SUBSET Users,          \* the limiter's users, then the stale ones
        recent : SUBSET Hit]

ASSUME GatewayAccessAssumption ==
    /\ Scenarios \subseteq Scenario
    /\ \A u, v \in Users : u # v => TokensOf[u] \cap TokensOf[v] = {}
    /\ Spaces \subseteq Nat /\ IsFiniteSet(Spaces) /\ None \notin Nat
    /\ SpacesOf \in [Users -> SUBSET Spaces] /\ PerPage \in Nat \ {0}
    /\ TokensOf \in [Users -> SUBSET Tokens]
    /\ Ttl \in Nat /\ LastKnownMaxAge \in Nat /\ MaxCall \in Nat
    /\ Limit \in Nat \ {0} /\ Window \in Nat \ {0}
    /\ MayFail \subseteq Steps /\ MaxTime \in Nat /\ MaxGrants \in Nat

VARIABLES
    scenario,    \* one of Scenarios; it never changes
    now,
    member,      \* GitLab: member[u]: the spaces u is a member of
    gitlab_up,   \* the flag of Availability
    token_cache, \* token_cache[u]: [token, expires] or None
    space_cache, \* space_cache[t]: [value, expires] or None
    last_spaces, \* last_spaces[t]: [value, at] or None
    hits,        \* the limiter's dictionary: hits[u] for the users that are in it
    job,
    left,        \* history: left[u][s]: when u's membership ended last, None before
    changed,     \* history: changed[u]: when u's memberships changed last
    granted,     \* history: granted[u]: the hits for which allow said yes
    overlapped   \* history: two threads were in allow at once

gitlab == <<member, left, changed>>
caches == <<token_cache, space_cache, last_spaces>>
limiter == <<hits, granted, overlapped>>
vars == <<scenario, now, gitlab, gitlab_up, caches, limiter, job>>

Reads(u) == \E h \in Handlers : <<"read", u>> \in scenario.serves[h]

Init ==
    /\ scenario \in Scenarios /\ now = 0
    /\ member \in {m \in [Users -> SUBSET Spaces] :
                      \A u \in Users : m[u] \subseteq IF Reads(u) THEN SpacesOf[u] ELSE {}}
    /\ gitlab_up = TRUE
    /\ token_cache = [u \in Users |-> None]
    /\ space_cache = [t \in Tokens |-> None] /\ last_spaces = [t \in Tokens |-> None]
    /\ hits = [u \in {} |-> {}] /\ job = [h \in Handlers |-> None]
    /\ left = [u \in Users |-> [s \in Spaces |-> None]] /\ changed = [u \in Users |-> 0]
    /\ granted = [u \in Users |-> {}] /\ overlapped = FALSE
-----------------------------------------------------------------------------
At(h, step) == job[h] # None /\ job[h].step = step

Goto(h, step) == job' = [job EXCEPT ![h].step = step]

Finish(h) == job' = [job EXCEPT ![h] = None]

Begin(h, op, step) ==
    \E u \in Users :
        /\ job[h] = None /\ <<op, u>> \in scenario.serves[h]
        /\ job' = [job EXCEPT ![h] =
               [op |-> op, step |-> step, user |-> u, token |-> None, page |-> 1, value |-> {},
                fallback |-> FALSE, began |-> now, users |-> {}, recent |-> {}]]

\* The clock.  A membership is assumed to be read within MaxCall (each request to GitLab has
\* a timeout, the number of pages no bound); an answer is given when it is known.
Tick ==
    /\ now < scenario.until /\ now' = now + 1
    /\ \A h \in Handlers :
           /\ ~At(h, "answer") /\ ~At(h, "refused")
           /\ At(h, "page") \/ At(h, "store") => now < job[h].began + MaxCall
    /\ UNCHANGED <<scenario, gitlab, gitlab_up, caches, limiter, job>>

\* Somebody is made, or is no longer, a member of a space.
Join(u, s) ==
    /\ Reads(u) /\ s \in SpacesOf[u] \ member[u]
    /\ member' = [member EXCEPT ![u] = @ \cup {s}]
    /\ changed' = [changed EXCEPT ![u] = now]
    /\ UNCHANGED <<scenario, now, left, gitlab_up, caches, limiter, job>>

Leave(u, s) ==
    /\ s \in member[u]
    /\ member' = [member EXCEPT ![u] = @ \ {s}]
    /\ left' = [left EXCEPT ![u][s] = now]
    /\ changed' = [changed EXCEPT ![u] = now]
    /\ UNCHANGED <<scenario, now, gitlab_up, caches, limiter, job>>

\* A health probe sets the flag.
Probe ==
    /\ gitlab_up' = ~gitlab_up
    /\ UNCHANGED <<scenario, now, gitlab, caches, limiter, job>>
-----------------------------------------------------------------------------
(* A route that filters by membership. *)

BeginRead(h) ==
    /\ Begin(h, "read", "token")
    /\ UNCHANGED <<scenario, now, gitlab, gitlab_up, caches, limiter>>

\* TtlCache.get yields a value: it is there and has not expired.
Fresh(entry) == entry # None /\ now < entry.expires

Swept(entry) == IF Fresh(entry) THEN entry ELSE None

Token(h) ==
    LET entry == token_cache[job[h].user] IN
    /\ At(h, "token")
    /\ token_cache' = [token_cache EXCEPT ![job[h].user] = Swept(entry)]
    /\ IF Fresh(entry)
       THEN job' = [job EXCEPT ![h].token = entry.token, ![h].step = "spaces"]
       ELSE Goto(h, "exchange")
    /\ UNCHANGED <<scenario, now, gitlab, gitlab_up, space_cache, last_spaces, limiter>>

\* The bearer token is traded for a GitLab token, a new one or the same.
Exchange(h) ==
    /\ At(h, "exchange")
    /\ \E t \in TokensOf[job[h].user] :
           /\ token_cache' = [token_cache EXCEPT ![job[h].user] = [token |-> t, expires |-> now + Ttl]]
           /\ job' = [job EXCEPT ![h].token = t, ![h].step = "spaces"]
    /\ UNCHANGED <<scenario, now, gitlab, gitlab_up, space_cache, last_spaces, limiter>>

\* Slip: last-known memberships do not age.
AnyAge(t) == IF last_spaces[t] = None THEN {} ELSE last_spaces[t].value

LastKnown(t) ==
    IF last_spaces[t] = None \/ now - last_spaces[t].at > LastKnownMaxAge
    THEN {} ELSE last_spaces[t].value

\* The membership is cached, or last known during an outage, or read from GitLab.
ReadableSpaces(h) ==
    LET t == job[h].token
        entry == space_cache[t]
    IN  /\ At(h, "spaces")
        /\ space_cache' = [space_cache EXCEPT ![t] = Swept(entry)]
        /\ job' = [job EXCEPT ![h] =
               IF Fresh(entry) THEN [@ EXCEPT !.value = entry.value, !.step = "answer"]
               ELSE IF ~gitlab_up
               THEN [@ EXCEPT !.value = LastKnown(t), !.fallback = TRUE, !.step = "answer"]
               ELSE [@ EXCEPT !.began = now, !.step = "page"]]
        /\ UNCHANGED <<scenario, now, gitlab, gitlab_up, token_cache, last_spaces, limiter>>

\* Page n of a listing of S.
PageOf(S, n) ==
    {s \in S : LET before == Cardinality({r \in S : r < s})
               IN  (n - 1) * PerPage <= before /\ before < n * PerPage}

\* Slip: pages after the first are not asked for.
NoMore(S, n) == FALSE

More(S, n) == Cardinality(S) > n * PerPage

\* _paginate: page by page, each as the membership is by then.
ReadPage(h) ==
    LET S == member[job[h].user] IN
    /\ At(h, "page")
    /\ job' = [job EXCEPT ![h].value = @ \cup PageOf(S, job[h].page),
                          ![h].page = @ + 1,
                          ![h].step = IF More(S, job[h].page) THEN "page" ELSE "store"]
    /\ UNCHANGED <<scenario, now, gitlab, gitlab_up, caches, limiter>>

Store(h) ==
    LET t == job[h].token IN
    /\ At(h, "store")
    /\ space_cache' = [space_cache EXCEPT ![t] = [value |-> job[h].value, expires |-> now + Ttl]]
    /\ last_spaces' = [last_spaces EXCEPT ![t] = [value |-> job[h].value, at |-> now]]
    /\ Goto(h, "answer")
    /\ UNCHANGED <<scenario, now, gitlab, gitlab_up, token_cache, limiter>>

Answer(h) ==
    /\ At(h, "answer") \/ At(h, "refused")
    /\ Finish(h)
    /\ UNCHANGED <<scenario, now, gitlab, gitlab_up, caches, limiter>>
-----------------------------------------------------------------------------
(* A route that is limited: allow(user). *)

Recent(list, at) == {hit \in list : at < hit.at + Window}

Known == DOMAIN hits

InAllow(h) == job[h] # None /\ job[h].op = "limited"

BeginLimited(h) ==
    /\ Begin(h, "limited", "scan")
    /\ \A u \in Users : Cardinality(granted[u]) < MaxGrants
    /\ overlapped' = (overlapped \/ \E g \in Handlers : InAllow(g))
    /\ UNCHANGED <<scenario, now, gitlab, gitlab_up, caches, hits, granted>>

\* _evict walks over the dictionary ...
Scan(h) ==
    /\ At(h, "scan")
    /\ job' = [job EXCEPT ![h].users = Known, ![h].step = "scanned"]
    /\ UNCHANGED <<scenario, now, gitlab, gitlab_up, caches, limiter>>

Stale(u, at) == Recent(hits[u], at) = {}

\* ... which raises if it has changed its size meanwhile, for the stale users.
Scanned(h) ==
    /\ At(h, "scanned")
    /\ IF Cardinality(Known) # Cardinality(job[h].users)
       THEN Finish(h)
       ELSE job' = [job EXCEPT ![h].users = {u \in Known : Stale(u, job[h].began)}, ![h].step = "evict"]
    /\ UNCHANGED <<scenario, now, gitlab, gitlab_up, caches, limiter>>

\* They are deleted one by one; del raises for one that is gone.
Evict(h) ==
    /\ At(h, "evict")
    /\ \/ job[h].users = {} /\ Goto(h, "count") /\ UNCHANGED hits
       \/ \E u \in job[h].users :
              /\ hits' = [v \in Known \ {u} |-> hits[v]]
              /\ IF u \notin Known THEN Finish(h)
                 ELSE job' = [job EXCEPT ![h].users = @ \ {u}]
    /\ UNCHANGED <<scenario, now, gitlab, gitlab_up, caches, granted, overlapped>>

\* Slip: the hit that is asked for is counted too.
CountsItself(n) == n + 1 >= Limit

AtLimit(n) == n >= Limit

\* Slip: the request that is refused is remembered as a hit.
Punish(recent, at) == recent \cup {[at |-> at, nth |-> 0]}

AfterRefusal(recent, at) == recent

HitsOf(u) == IF u \in Known THEN hits[u] ELSE {}

\* self._hits[u] = list.
SetHits(u, list) == hits' = [v \in Known \cup {u} |-> IF v = u THEN list ELSE hits[v]]

Count(h) ==
    LET u == job[h].user
        recent == Recent(HitsOf(u), job[h].began)
    IN  /\ At(h, "count")
        /\ IF AtLimit(Cardinality(recent))
           THEN SetHits(u, AfterRefusal(recent, job[h].began)) /\ Goto(h, "refused")
           ELSE job' = [job EXCEPT ![h].recent = recent, ![h].step = "record"] /\ UNCHANGED hits
        /\ UNCHANGED <<scenario, now, gitlab, gitlab_up, caches, granted, overlapped>>

RecordHit(h) ==
    LET u == job[h].user
        hit == [at |-> job[h].began, nth |-> Cardinality(granted[u]) + 1]
    IN
    /\ At(h, "record")
    /\ SetHits(u, job[h].recent \cup {hit})
    /\ granted' = [granted EXCEPT ![u] = @ \cup {hit}]
    /\ Finish(h)
    /\ UNCHANGED <<scenario, now, gitlab, gitlab_up, caches, overlapped>>

\* Keycloak or GitLab answers with an error.
Raises(h) ==
    /\ job[h] # None /\ job[h].step \in MayFail
    /\ Finish(h)
    /\ UNCHANGED <<scenario, now, gitlab, gitlab_up, caches, limiter>>

Next ==
    \/ Tick \/ Probe
    \/ \E u \in Users, s \in Spaces : Join(u, s) \/ Leave(u, s)
    \/ \E h \in Handlers :
           \/ BeginRead(h) \/ Token(h) \/ Exchange(h) \/ ReadableSpaces(h) \/ ReadPage(h)
           \/ Store(h) \/ Answer(h) \/ Raises(h)
           \/ BeginLimited(h) \/ Scan(h) \/ Scanned(h) \/ Evict(h) \/ Count(h) \/ RecordHit(h)

Spec == Init /\ [][Next]_vars
-----------------------------------------------------------------------------
\* Type invariant of the clock, GitLab, the caches, the limiter, and requests; the
\* limiter keeps no more hits of a user than it lets pass.
TypeOK ==
    /\ scenario \in Scenarios /\ now \in Times
    /\ member \in [Users -> SUBSET Spaces] /\ gitlab_up \in BOOLEAN
    /\ token_cache \in [Users -> [token : Tokens, expires : Nat] \cup {None}]
    /\ space_cache \in [Tokens -> [value : SUBSET Spaces, expires : Nat] \cup {None}]
    /\ last_spaces \in [Tokens -> [value : SUBSET Spaces, at : Times] \cup {None}]
    /\ Known \subseteq Users /\ hits \in [Known -> SUBSET Hit]
    /\ \A u \in Known : Cardinality(hits[u]) <= Limit
    /\ job \in [Handlers -> Job \cup {None}]
    /\ left \in [Users -> [Spaces -> Times \cup {None}]] /\ changed \in [Users -> Times]
    /\ granted \in [Users -> SUBSET Hit] /\ overlapped \in BOOLEAN

\* When s was last u's, as far as anybody could have told.
LastMember(u, s) == IF s \in member[u] THEN now ELSE left[u][s]

\* INV-ACC-5: an answer shows a space only to somebody who was a member of it within
\* the age a cache may have and the time a membership takes to be read: Ttl while it is
\* served from the cache, LastKnownMaxAge during an outage, whichever threads stored
\* whatever they had read in whatever order.
RevocationBounded ==
    \A h \in Handlers : At(h, "answer") =>
        \A s \in job[h].value :
            /\ LastMember(job[h].user, s) # None
            /\ now <= LastMember(job[h].user, s) + MaxCall
                          + (IF job[h].fallback THEN LastKnownMaxAge ELSE Ttl)

\* AR-08 "bounded staleness equals the TTL": an answer that is not a fallback is exactly
\* the membership, once that has not changed for Ttl and the time a reading takes.
CurrentInTime ==
    \A h \in Handlers : At(h, "answer") /\ ~job[h].fallback =>
        (now > changed[job[h].user] + Ttl + MaxCall => job[h].value = member[job[h].user])

GrantedSince(u, at) == Cardinality(Recent(granted[u], at))

\* INV-SLACK-1, INV-IX-3: no window holds more grants of a user than the limit, as long
\* as requests were not in allow at once.
WithinLimit == ~overlapped => \A u \in Users : GrantedSince(u, now) <= Limit

\* Nobody is refused who has not had the limit within the window, also with threads
\* that overwrite each other's hits and evict each other's users.
RefusedOnlyAtLimit ==
    \A h \in Handlers : At(h, "refused") => GrantedSince(job[h].user, job[h].began) >= Limit

\* The limit is neither exceeded nor applied to anybody who has not reached it.
LimitExact == WithinLimit /\ RefusedOnlyAtLimit
-----------------------------------------------------------------------------
(* What fresh tokens, changing pages and overlapping requests break. *)

\* "Last-known membership, served stale-OK while GitLab is unreachable so authorized
\* reads survive an outage", for LastKnownMaxAge: what is known of the user is served.
ReadsSurviveOutage ==
    \A h \in Handlers : At(h, "answer") /\ job[h].fallback =>
        \A t \in TokensOf[job[h].user] :
            last_spaces[t] # None /\ now <= last_spaces[t].at + LastKnownMaxAge
                /\ member[job[h].user] = last_spaces[t].value =>
            job[h].value = member[job[h].user]

\* The limit holds with threads too.
WithinLimitAlways == \A u \in Users : GrantedSince(u, now) <= Limit
=============================================================================
