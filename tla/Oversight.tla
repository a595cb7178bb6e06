----------------------------- MODULE Oversight -----------------------------
(***************************************************************************)
(* The views over everything, and the record of who asked: the orphan      *)
(* report (indexing/orphans.py, computed by POST /orphans/refresh, cached  *)
(* and served by GET /orphans), the portfolio read page by page            *)
(* (planning/rollup.py), the risk register's POST /risks that a report     *)
(* meets half-way, and the audit log every answer goes into (audit_mw,     *)
(* access/audit.py).                                                       *)
(*                                                                         *)
(* A hash is modelled as the term that is hashed: equal hashes come from   *)
(* equal entries.                                                          *)
(***************************************************************************)
EXTENDS Naturals, Sequences, FiniteSets

CONSTANTS
    Handlers,
    Principals, Services, \* who sends requests; those of them that are services
    Viewer,               \* who pages through the portfolio
    Spaces, Risks, Tickets,
    Records,              \* what may be written of an item
    Epics, GroupOf,       \* the planning index: each epic once, and the group of each
    Limit,                \* the page size Viewer asks for
    Configs,              \* configurations a process may start with
    Scenarios,            \* what one behaviour is about, chosen by Init
    None

Ops == {"refresh", "orphans", "create_risk", "portfolio"}
Groups == {GroupOf[e] : e \in DOMAIN GroupOf}

\* Risks and tickets as far as the report tells them apart.  A ticket's age is "old" beyond
\* the threshold, "unknown" without created_at.
Risk == [space : Spaces, owner : Principals \cup {None}, closed : BOOLEAN]
Ticket == [space : Spaces, assignee : Principals \cup {None}, open : BOOLEAN,
           age : {"young", "old", "unknown"}]

Config == [writable : [Principals -> SUBSET Spaces], agents : SUBSET Principals,
           archived : SUBSET Spaces]

\* The requests each thread is given and by whom (None: without a token), whether handlers
\* may raise, and bounds (guards only): of requests, of what changes beside them, of restarts.
Scenario == [serves : [Handlers -> SUBSET Ops], askers : SUBSET (Principals \cup {None}),
             raises : BOOLEAN, requests : Nat, changes : Nat, restarts : Nat]

Results == {200, 401, 403, 409, 500}

Event == [principal : Principals \cup {None}, action : Ops, result : Results]

Genesis == <<>>

\* What a report says: the ids under each space; and the history of when it was begun.
Report == [resources : [Spaces -> SUBSET Risks], tickets : [Spaces -> SUBSET Tickets], began : Nat]

\* A page of the portfolio, as it is answered.
Listing == [page : Seq(DOMAIN GroupOf), count : 0..Len(Epics), cursor : 0..Len(Epics) \cup {None}]

\* The client that pages: what it has got and where it goes on; and the history of what it
\* could see when it began, of the groups lost since, and of whether one was gained.
Pager == [cursor : 0..Len(Epics) \cup {None}, got : Seq(DOMAIN GroupOf), count : 0..Len(Epics),
          all : Seq(DOMAIN GroupOf), lost : SUBSET Groups, gained : BOOLEAN]

\* A request: what the handler has read, and the answer it will give.
Job == [op : Ops, principal : Principals \cup {None},
        step : {"refuse", "list_risks", "list_tickets", "publish", "serve", "put", "page", "record", "send"},
        result : Results, risks : [Risks -> Risk \cup {None}], tickets : [Tickets -> Ticket \cup {None}],
        answer : Report \cup Listing \cup {None}, began : Nat]

ASSUME OversightAssumption ==
    /\ Services \subseteq Principals /\ Viewer \in Principals
    /\ Records \subseteq Risk \cup Ticket /\ Configs \subseteq Config /\ Scenarios \subseteq Scenario
    /\ IsFiniteSet(Handlers) /\ Risks \cap Tickets = {}
    /\ Epics \in Seq(DOMAIN GroupOf) /\ GroupOf \in [DOMAIN GroupOf -> Groups]
    /\ \A m, n \in DOMAIN Epics : Epics[m] = Epics[n] => m = n
    /\ Limit \in Nat \ {0}
    /\ None \notin Principals \cup Risk \cup Ticket \cup Report \cup Listing \cup Pager \cup Job \cup Nat

VARIABLES
    scenario,   \* one of Scenarios; it never changes
    config,     \* Authority, the agents, the archived spaces
    risk,       \* risk[r]: the record in the store, or None
    ticket,     \* ticket[t]: likewise
    groups,     \* the groups Viewer is a member of
    report,     \* OrphanCache.report
    log,        \* AuditSink._events: [event, prev_hash, entry_hash]
    pager,      \* Viewer's client, or None
    job,        \* job[h]: the request thread h serves, or None
    changes, requests, restarts,
    touched,    \* history: touched[i]: the number of the change that touched i last
    covers,     \* history: when the last refresh that was answered began
    sent        \* history: sent[e]: how many answers left this process that are event e

bounds == <<scenario, requests, restarts>>
stores == <<config, risk, ticket, groups, changes, touched>>
vars == <<bounds, stores, report, log, pager, job, covers, sent>>

Items == Risks \cup Tickets

NoRisks == [r \in Risks |-> None]
NoTickets == [t \in Tickets |-> None]

Given(ops) == \E h \in Handlers : scenario.serves[h] \cap ops # {}

InitialProcess ==
    /\ config' \in Configs
    /\ report' = None /\ log' = <<>> /\ pager' = None
    /\ job' = [h \in Handlers |-> None]
    /\ covers' = 0 /\ sent' = [e \in Event |-> 0]

Init ==
    /\ scenario \in Scenarios /\ config \in Configs
    /\ risk = NoRisks /\ ticket = NoTickets
    /\ groups \in IF Given({"portfolio"}) THEN SUBSET Groups ELSE {{}}
    /\ report = None /\ log = <<>> /\ pager = None
    /\ job = [h \in Handlers |-> None]
    /\ changes = 0 /\ requests = 0 /\ restarts = 0
    /\ touched = [i \in Items |-> 0] /\ covers = 0 /\ sent = [e \in Event |-> 0]
-----------------------------------------------------------------------------
(* What changes beside the requests modelled here. *)

Changes == scenario.changes > changes /\ changes' = changes + 1

\* A commit pulled into the clone of the risks, or a handler of the desk, writes an item;
\* or a ticket gets older.
Rewrite(i) ==
    /\ Given({"refresh"}) /\ Changes
    /\ touched' = [touched EXCEPT ![i] = changes + 1]
    /\ \E record \in Records :
           \/ i \in Risks /\ record \in Risk /\ risk' = [risk EXCEPT ![i] = record] /\ UNCHANGED ticket
           \/ i \in Tickets /\ record \in Ticket /\ ticket' = [ticket EXCEPT ![i] = record] /\ UNCHANGED risk
    /\ UNCHANGED <<bounds, config, groups, report, log, pager, job, covers, sent>>

\* Viewer is made, or is no longer, a member of a group.
Regroup(g) ==
    /\ Given({"portfolio"}) /\ Changes
    /\ groups' = IF g \in groups THEN groups \ {g} ELSE groups \cup {g}
    /\ pager' = IF pager = None THEN None
                ELSE IF g \in groups THEN [pager EXCEPT !.lost = @ \cup {g}]
                                     ELSE [pager EXCEPT !.gained = TRUE]
    /\ UNCHANGED <<bounds, config, risk, ticket, touched, report, log, job, covers, sent>>

\* A new process: the stores stay, everything else of it is in memory.
Restart ==
    /\ restarts < scenario.restarts
    /\ restarts' = restarts + 1
    /\ InitialProcess
    /\ UNCHANGED <<scenario, requests, risk, ticket, groups, changes, touched>>
-----------------------------------------------------------------------------
(* Requests. *)

At(h, step) == job[h] # None /\ job[h].step = step

\* The handler is done, or has raised: the middleware goes on.
Ends(h, result) == job' = [job EXCEPT ![h].step = "record", ![h].result = result]

\* The steps of each operation start where get_principal has the principal; a request
\* without one is refused there.
FirstStep(op, p) ==
    IF p = None \/ (op = "refresh" /\ p \notin Services) THEN "refuse"
    ELSE [refresh |-> "list_risks", orphans |-> "serve", create_risk |-> "put", portfolio |-> "page"][op]

\* Until a handler has answered, the answer would be a 500.
Asked(op, p) ==
    [op |-> op, principal |-> p, step |-> FirstStep(op, p), result |-> 500,
     risks |-> NoRisks, tickets |-> NoTickets, answer |-> None, began |-> changes]

\* Bound: the requests that create risks find an id each.
IdsLeft ==
    Cardinality({g \in Handlers : job[g] # None /\ job[g].op = "create_risk"})
        < Cardinality({r \in Risks : risk[r] = None})

Begin(h) ==
    \E op \in scenario.serves[h], p \in scenario.askers :
        /\ job[h] = None /\ requests < scenario.requests
        /\ requests' = requests + 1
        /\ op = "create_risk" => IdsLeft
        /\ op = "portfolio" =>
               p = Viewer /\ ~(\E g \in Handlers : job[g] # None /\ job[g].op = "portfolio")
        /\ job' = [job EXCEPT ![h] = Asked(op, p)]
        /\ UNCHANGED <<scenario, restarts, stores, report, log, pager, covers, sent>>

\* Slip: as if there were nothing there.
RefuseHidden(h) ==
    /\ At(h, "refuse")
    /\ Ends(h, 404)
    /\ UNCHANGED <<bounds, stores, report, log, pager, covers, sent>>

Refuse(h) ==
    /\ At(h, "refuse")
    /\ Ends(h, IF job[h].principal = None THEN 401 ELSE 403)
    /\ UNCHANGED <<bounds, stores, report, log, pager, covers, sent>>

\* A store, GitLab or a bug raises something no handler is registered for.
Raise(h) ==
    /\ scenario.raises
    /\ job[h] # None /\ job[h].step \in {"list_risks", "list_tickets", "put", "page"}
    /\ Ends(h, 500)
    /\ UNCHANGED <<bounds, stores, report, log, pager, covers, sent>>

CanWrite(p, s) == s \in config.writable[p]

\* POST /risks: the risk is the creator's; a put that fails (409) may leave the file.
PutRisk(h) ==
    /\ At(h, "put")
    /\ \E r \in Risks, s \in Spaces :
           /\ risk[r] = None
           /\ LET put == /\ risk' = [risk EXCEPT ![r] =
                                [space |-> s, owner |-> job[h].principal, closed |-> FALSE]]
                         /\ touched' = [touched EXCEPT ![r] = changes + 1]
                         /\ changes' = changes + 1
                  kept == UNCHANGED <<risk, touched, changes>>
              IN  \/ ~CanWrite(job[h].principal, s) /\ kept /\ Ends(h, 403)
                  \/ CanWrite(job[h].principal, s) /\ put /\ Ends(h, 200)
                  \/ CanWrite(job[h].principal, s) /\ (put \/ kept) /\ Ends(h, 409)
    /\ UNCHANGED <<bounds, config, ticket, groups, report, log, pager, covers, sent>>
-----------------------------------------------------------------------------
(* The orphan report. *)

ListRisks(h) ==
    /\ At(h, "list_risks")
    /\ job' = [job EXCEPT ![h].risks = risk, ![h].step = "list_tickets"]
    /\ UNCHANGED <<bounds, stores, report, log, pager, covers, sent>>

ListTickets(h) ==
    /\ At(h, "list_tickets")
    /\ job' = [job EXCEPT ![h].tickets = ticket, ![h].step = "publish"]
    /\ UNCHANGED <<bounds, stores, report, log, pager, covers, sent>>

RiskFlagged(r) ==
    /\ r # None /\ ~r.closed /\ r.owner # None
    /\ r.space \in config.archived \/ ~CanWrite(r.owner, r.space)

\* Slip: who has no assignee has one that is no agent.
NobodyIsNoAgent(t) == t # None /\ t.open /\ t.assignee \notin config.agents

TicketFlagged(t) ==
    /\ t # None /\ t.open
    /\ \/ t.space \in config.archived
       \/ t.assignee # None /\ t.assignee \notin config.agents
       \/ t.assignee = None /\ t.age = "old"

\* detect_orphans, and the assignment to the cache.
Publish(h) ==
    /\ At(h, "publish")
    /\ report' = [resources |-> [s \in Spaces |-> {r \in Risks :
                      RiskFlagged(job[h].risks[r]) /\ job[h].risks[r].space = s}],
                  tickets |-> [s \in Spaces |-> {t \in Tickets :
                      TicketFlagged(job[h].tickets[t]) /\ job[h].tickets[t].space = s}],
                  began |-> job[h].began]
    /\ covers' = IF job[h].began > covers THEN job[h].began ELSE covers
    /\ job' = [job EXCEPT ![h].risks = NoRisks, ![h].tickets = NoTickets,
                          ![h].step = "record", ![h].result = 200]
    /\ UNCHANGED <<bounds, stores, log, pager, sent>>

\* GET /orphans: what is under the spaces the asker may write.
Serve(h) ==
    LET shown(map) == [s \in Spaces |-> IF CanWrite(job[h].principal, s) THEN map[s] ELSE {}] IN
    /\ At(h, "serve")
    /\ job' = [job EXCEPT
           ![h].answer = IF report = None THEN None
                         ELSE [report EXCEPT !.resources = shown(@), !.tickets = shown(@)],
           ![h].step = "record", ![h].result = 200]
    /\ UNCHANGED <<bounds, stores, report, log, pager, covers, sent>>
-----------------------------------------------------------------------------
(* The portfolio, page by page. *)

\* Where the index has an epic that Viewer may read; how many there are up to n; and the
\* epics themselves, in the order of the index.
VisibleAt == {n \in DOMAIN Epics : GroupOf[Epics[n]] \in groups}
Place(n) == Cardinality({m \in VisibleAt : m <= n})
Visible == [k \in 1..Cardinality(VisibleAt) |-> Epics[CHOOSE n \in VisibleAt : Place(n) = k]]

\* Slip: the cursor goes past one more.
NextSkips(cursor, n) == IF cursor + Limit < n THEN cursor + Limit + 1 ELSE None

NextCursor(cursor, n) == IF cursor + Limit < n THEN cursor + Limit ELSE None

PageAt(cursor, n) ==
    SubSeq(Visible, cursor + 1, IF cursor + Limit < n THEN cursor + Limit ELSE n)

Page(h) ==
    LET n == Len(Visible)
        first == pager = None \/ pager.cursor = None
        cursor == IF first THEN 0 ELSE pager.cursor
    IN  /\ At(h, "page")
        /\ job' = [job EXCEPT
               ![h].answer = [page |-> PageAt(cursor, n), count |-> n, cursor |-> NextCursor(cursor, n)],
               ![h].step = "record", ![h].result = 200]
        /\ pager' = IF first THEN [cursor |-> 0, got |-> <<>>, count |-> n, all |-> Visible,
                                  lost |-> {}, gained |-> FALSE]
                    ELSE pager
        /\ UNCHANGED <<bounds, stores, report, log, covers, sent>>

\* The client keeps the page and asks for the one at next_cursor; after the last it
\* starts again.
Turn(answer) == pager' = [pager EXCEPT !.got = @ \o answer.page, !.count = answer.count,
                                       !.cursor = answer.cursor]
-----------------------------------------------------------------------------
(* The audit log. *)

\* Slip: the hash is over the entry's fields only.
HashOfFields(prev, event) == <<event>>

EntryHash(prev, event) == <<prev, event>>

Entry(chain, event) ==
    LET prev == IF chain = <<>> THEN Genesis ELSE chain[Len(chain)].entry_hash
    IN  [event |-> event, prev_hash |-> prev, entry_hash |-> EntryHash(prev, event)]

EventOf(h) == [principal |-> job[h].principal, action |-> job[h].op, result |-> job[h].result]

\* Slip: not recorded if an exception goes through the middleware.
RecordAnswers(h) ==
    /\ At(h, "record")
    /\ log' = IF job[h].result = 500 THEN log ELSE Append(log, Entry(log, EventOf(h)))
    /\ job' = [job EXCEPT ![h].step = "send"]
    /\ UNCHANGED <<bounds, stores, report, pager, covers, sent>>

\* audit_mw records in any case, then the answer goes out.
Record(h) ==
    /\ At(h, "record")
    /\ log' = Append(log, Entry(log, EventOf(h)))
    /\ job' = [job EXCEPT ![h].step = "send"]
    /\ UNCHANGED <<bounds, stores, report, pager, covers, sent>>

Send(h) ==
    /\ At(h, "send")
    /\ sent' = [sent EXCEPT ![EventOf(h)] = @ + 1]
    /\ job' = [job EXCEPT ![h] = None]
    /\ IF job[h].op = "portfolio" /\ job[h].result = 200 THEN Turn(job[h].answer) ELSE UNCHANGED pager
    /\ UNCHANGED <<bounds, stores, report, log, covers>>

Previous(chain, n) == IF n = 1 THEN Genesis ELSE chain[n - 1].entry_hash

\* AuditSink.verify.
Verify(chain) ==
    \A n \in DOMAIN chain :
        /\ chain[n].prev_hash = Previous(chain, n)
        /\ chain[n].entry_hash = EntryHash(Previous(chain, n), chain[n].event)
-----------------------------------------------------------------------------
\* Nobody asks any more.
Idle == (\A h \in Handlers : job[h] = None) /\ UNCHANGED vars

Next ==
    \/ \E i \in Items : Rewrite(i)
    \/ \E g \in Groups : Regroup(g)
    \/ \E h \in Handlers :
           \/ Begin(h) \/ Refuse(h) \/ Raise(h) \/ PutRisk(h)
           \/ ListRisks(h) \/ ListTickets(h) \/ Publish(h) \/ Serve(h)
           \/ Page(h) \/ Record(h) \/ Send(h)
    \/ Restart \/ Idle

Spec == Init /\ [][Next]_vars
-----------------------------------------------------------------------------
\* Type invariant of the stores, the report, the log, the client and the requests.
TypeOK ==
    /\ scenario \in Scenarios /\ config \in Configs
    /\ risk \in [Risks -> Risk \cup {None}] /\ ticket \in [Tickets -> Ticket \cup {None}]
    /\ groups \subseteq Groups
    /\ report = None \/ report \in Report
    /\ \A n \in DOMAIN log : log[n].event \in Event
    /\ pager = None \/ pager \in Pager
    /\ job \in [Handlers -> Job \cup {None}]
    /\ changes \in Nat /\ requests \in 0..scenario.requests
    /\ restarts \in 0..scenario.restarts
    /\ touched \in [Items -> 0..changes] /\ covers \in 0..changes /\ sent \in [Event -> Nat]

\* INV-ORPH-1 and 2, as far as they name facts that are kept here: the owner of an active
\* risk lost its space, or the space is gone; an open ticket is in nobody's care.
Orphaned(i) ==
    IF i \in Risks
    THEN /\ risk[i] \in {r \in Risk : ~r.closed /\ r.owner \in Principals}
         /\ risk[i].space \notin config.writable[risk[i].owner] \ config.archived
    ELSE /\ ticket[i] \in {t \in Ticket : t.open}
         /\ \/ ticket[i].space \in config.archived
            \/ IF ticket[i].assignee = None THEN ticket[i].age = "old"
               ELSE ticket[i].assignee \notin config.agents

SpaceOf(i) == IF i \in Risks THEN risk[i].space ELSE ticket[i].space

Shown(answer, i) == \E s \in Spaces : i \in answer.resources[s] \cup answer.tickets[s]

\* INV-ORPH-1, INV-ORPH-2, INV-AGG: an answered report shows, of what has not changed since
\* its batch began, exactly the orphans of the spaces the asker maintains, whatever was
\* written while the batch listed risks and tickets and whichever batches overlapped.
ReportExact ==
    \A h \in Handlers : At(h, "record") /\ job[h].op = "orphans" /\ job[h].answer # None =>
        \A i \in Items : touched[i] <= job[h].answer.began =>
            (Shown(job[h].answer, i) <=>
                 Orphaned(i) /\ SpaceOf(i) \in config.writable[job[h].principal])

Elements(seq) == {seq[n] : n \in DOMAIN seq}

\* G3-02 and AR-11: a client that has followed next_cursor to its end has seen every epic
\* it could see when it began, if it lost no group meanwhile; none twice, if it gained none;
\* and if neither, epic_count was the number of them.
PagedOnce ==
    pager # None /\ pager.cursor = None =>
        /\ pager.lost = {} => Elements(pager.all) \subseteq Elements(pager.got)
        /\ ~pager.gained => Cardinality(Elements(pager.got)) = Len(pager.got)
        /\ pager.lost = {} /\ ~pager.gained => pager.got = pager.all /\ pager.count = Len(pager.got)

\* INV-ID-3: no answer leaves that is not in the log, with its principal and result, also
\* where the handler raised and where there was no principal (G2-08).
Audited ==
    \A e \in Event : sent[e] <= Cardinality({n \in DOMAIN log : log[n].event = e})

Altered(chain) ==
    UNION {{[chain EXCEPT ![n].event.result = r] : r \in {200, 403, 500} \ {chain[n].event.result}} \cup
           {[chain EXCEPT ![n].event.principal = p] :
                p \in Principals \ {chain[n].event.principal}} : n \in DOMAIN chain}

Reordered(chain) ==
    UNION {{[chain EXCEPT ![m] = chain[n], ![n] = chain[m]] :
               n \in {k \in DOMAIN chain : m < k}} : m \in DOMAIN chain}

Without(chain, n) == SubSeq(chain, 1, n - 1) \o SubSeq(chain, n + 1, Len(chain))

Shortened(chain) == {Without(chain, n) : n \in DOMAIN chain \ {Len(chain)}}

\* AR-10: the log verifies as it was recorded, and no longer once an entry is altered,
\* exchanged with another one, or dropped from before the last.
TamperEvident ==
    /\ Verify(log)
    /\ \A chain \in Altered(log) \cup Reordered(log) \cup Shortened(log) : ~Verify(chain)
-----------------------------------------------------------------------------
(* What two batches, a lost membership and the end of the log break. *)

\* No report is replaced by one that was begun before it.
NewestServed == report # None => report.began >= covers

\* An epic that was visible all along is on some page.
NothingSkipped ==
    pager # None /\ pager.cursor = None =>
        \A e \in Elements(pager.all) : GroupOf[e] \notin pager.lost => e \in Elements(pager.got)

\* "True iff the chain is intact (no entry altered, reordered, or removed)."
RemovalDetected == \A n \in DOMAIN log : ~Verify(Without(log, n))
=============================================================================
