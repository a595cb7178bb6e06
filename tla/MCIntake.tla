------------------------------ MODULE MCIntake ------------------------------
(* Instances of Intake for TLC. *)
EXTENDS Intake, TLC

CONSTANTS h1, h2, a1, a2, m1, m2, m3, i1, i2, i3, i4, x1, x2

OpaqueIds == (a1 :> x1) @@ (a2 :> x2)

Given(ops1, ops2) == (h1 :> ops1) @@ (h2 :> ops2)

OneCustomer == [m \in Mails |-> a1]
TwoCustomers == [m \in Mails |-> IF m = m3 THEN a2 ELSE a1]
NoSender == [m \in Mails |-> None]

Scene(serves, from, verified, writer, again, puts, crashes) ==
    [serves |-> serves, from |-> from, verified |-> verified, docWriter |-> writer,
     redeliveries |-> again, rewrites |-> puts, restarts |-> crashes]

\* One poller: replies by token, a mail that is not verified, redelivery and a restart,
\* each beside other routes' puts or not.  Two pollers.  An operator of the migration with
\* restarts, and one of a gateway without documents.
Scenes ==
    {Scene(Given({"mail"}, {}), OneCustomer, Mails, TRUE, 0, 1, 0),
     Scene(Given({"mail"}, {}), OneCustomer, {m1, m2}, TRUE, 0, 1, 1),
     Scene(Given({"mail"}, {}), TwoCustomers, Mails, TRUE, 1, 0, 1),
     Scene(Given({"mail"}, {"mail"}), TwoCustomers, Mails, TRUE, 0, 0, 0),
     Scene(Given({"migration"}, {}), OneCustomer, Mails, TRUE, 0, 1, 2),
     Scene(Given({"migration"}, {}), OneCustomer, Mails, FALSE, 0, 0, 1)}

OnePoller == {Scene(Given({"mail"}, {}), OneCustomer, Mails, TRUE, 1, 0, 1)}
OnePollerAndPuts == {Scene(Given({"mail"}, {}), OneCustomer, Mails, TRUE, 0, 1, 0)}
OneUnverified == {Scene(Given({"mail"}, {}), OneCustomer, {}, TRUE, 0, 0, 1)}
TwoPollers == {Scene(Given({"mail"}, {"mail"}), OneCustomer, Mails, TRUE, 0, 0, 0)}
Unparsed == {Scene(Given({"mail"}, {}), NoSender, Mails, TRUE, 0, 0, 0)}
OneOperator == {Scene(Given({"migration"}, {}), OneCustomer, Mails, TRUE, 0, 0, 0)}
OperatorAndPuts == {Scene(Given({"migration"}, {}), OneCustomer, Mails, TRUE, 0, 1, 0)}
TwoOperators == {Scene(Given({"migration"}, {"migration"}), OneCustomer, Mails, TRUE, 0, 0, 0)}

\* Of the two tickets one has no reporter.
Reporters == [i \in Items |-> IF i = i1 THEN a1 ELSE None]

\* Every call to a store, to OpenFGA or to git may raise.
CallsFail == {"mail"} \X {"route", "put", "grant", "append"}
             \cup {"migration"} \X {"exists", "put", "grant", "append", "write"}
NothingFails == {}
=============================================================================
