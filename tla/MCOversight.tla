---------------------------- MODULE MCOversight ----------------------------
(* Instances of Oversight for TLC. *)
EXTENDS Oversight, TLC

CONSTANTS h1, h2, svc, ann, s1, s2, e1, e2, e3, g1, g2, r1, t1

\* Two groups whose epics alternate.
EpicList == <<e1, e2, e3>>
EpicGroups == (e1 :> g1) @@ (e2 :> g2) @@ (e3 :> g1)

\* svc maintains a space too.  After a restart ann has left the desk and her space is archived.
Before == [writable |-> (svc :> {s1, s2}) @@ (ann :> {s1}), agents |-> {ann}, archived |-> {}]
After == [writable |-> (svc :> {s1, s2}) @@ (ann :> {}), agents |-> {}, archived |-> {s1}]
Configurations == {Before, After}

RiskRecords == [space : {s1, s2}, owner : {ann}, closed : {FALSE}] \cup
               [space : {s2}, owner : {ann}, closed : {TRUE}]
TicketRecords == [space : {s1}, assignee : {None}, open : {TRUE}, age : {"old", "unknown"}] \cup
                 [space : {s1}, assignee : {svc}, open : BOOLEAN, age : {"old"}]
RecordsWritten == RiskRecords \cup TicketRecords

Scene(serves1, serves2, by, raising, asked, written, crashes) ==
    [serves |-> (h1 :> serves1) @@ (h2 :> serves2), askers |-> by, raises |-> raising,
     requests |-> asked, changes |-> written, restarts |-> crashes]

\* Batches and readers on two threads; risks created under a batch; a client that pages;
\* requests of all kinds one after the other, refused and failing.
Batches == Scene({"refresh"}, {"refresh", "orphans"}, {svc, ann}, FALSE, 3, 2, 0)
Paging == Scene({"portfolio"}, {}, {ann}, TRUE, 4, 2, 1)
Scenes == {Batches, Paging,
           Scene({"refresh", "orphans"}, {"create_risk"}, {svc, ann}, FALSE, 3, 0, 1),
           Scene(Ops, {}, {svc, ann, None}, TRUE, 3, 0, 1)}
CounterScenes == {Batches, Paging}
=============================================================================
