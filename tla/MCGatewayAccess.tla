-------------------------- MODULE MCGatewayAccess --------------------------
(* Instances of GatewayAccess for TLC. *)
EXTENDS GatewayAccess, TLC

CONSTANTS h1, h2, u1, u2, u3, t1, t2, t3, t4

\* The first user's exchanges may yield one token or another, the others' always yield one.
GitLabTokens == (u1 :> {t1, t2}) @@ (u2 :> {t3}) @@ (u3 :> {t4})

\* The second user's memberships take two pages.
GitLabSpaces == (u1 :> {1}) @@ (u2 :> {1, 2}) @@ (u3 :> {1})

Given(ops1, ops2) == (h1 :> ops1) @@ (h2 :> ops2)

Scene(serves, time) == [serves |-> serves, until |-> time]

\* A user whose tokens change; one with two pages; two threads reading for one user; one
\* thread asked by two users for what is limited; two threads asked by one.
FreshTokens == {Scene(Given({<<"read", u1>>}, {}), 4)}
TwoLimited == {Scene(Given({<<"limited", u1>>}, {<<"limited", u1>>}), 4)}
Scenes ==
    FreshTokens \cup TwoLimited \cup
    {Scene(Given({<<"read", u2>>}, {}), 3),
     Scene(Given({<<"read", u3>>}, {<<"read", u3>>}), 3),
     Scene(Given({<<"limited", u1>>, <<"limited", u2>>}, {}), 4)}

CounterScenes == FreshTokens \cup TwoLimited

CallsFail == {"exchange", "page"}
=============================================================================
