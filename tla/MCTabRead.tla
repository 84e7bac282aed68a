------------------------------- MODULE MCTabRead -------------------------------
(* Constants of TabRead for TLC: a page, a default-denied page ("bank") of    *)
(* the same domain, a scope for the domain and an exact one for each of bank  *)
(* and list-all-tabs.                                                         *)
EXTENDS TabRead, TLC

MCCovers == {<<"domain", "page">>, <<"domain", "bank">>, <<"exact-bank", "bank">>}

Ask(op, session, scope, persist) ==
    [op |-> op, session |-> session, scope |-> scope, persist |-> persist]

MCListRequests ==
    {Ask("list_all", "s1", "list-all", TRUE), Ask("list_all", "s1", "list-all", FALSE),
     Ask("list_all", "s2", "list-all", FALSE)}

MCRequests ==
    MCListRequests
      \cup {Ask("list_all", s, NoScope, FALSE) : s \in Sessions}
      \cup {Ask(op, "s1", NoScope, FALSE) : op \in {"text", "screenshot"}}
      \cup {Ask(op, s, "domain", FALSE) : op \in {"text", "screenshot"}, s \in Sessions}
      \cup {Ask("text", "s2", "domain", TRUE), Ask("text", "s2", "exact-bank", TRUE),
            Ask("screenshot", "s1", "exact-bank", FALSE)}
      \cup {Ask("revoke", "s1", s, FALSE) : s \in {"domain", "list-all"}}

\* One domain, approved for a session or for good, used and revoked.
MCDomainRequests ==
    {Ask("text", s, NoScope, FALSE) : s \in Sessions}
      \cup {Ask("text", "s1", "domain", persist) : persist \in BOOLEAN}
      \cup {Ask("revoke", "s1", "domain", FALSE)}

\* Two readers with every pair of requests, while the third has nothing to do
\* but to fail; or three of them in one domain.
Idle == Ask("revoke", "s1", NoScope, FALSE)

MCInit ==
    /\ TabInit
    /\ \/ \A r \in Readers : req[r] \in MCDomainRequests
       \/ \E r \in Readers :
             req[r] = Idle /\ \A q \in Readers \ {r} : req[q] \in MCRequests

MCSpec == MCInit /\ [][TabNext]_vars

MCAllRequests == MCRequests \cup MCDomainRequests \cup {Idle}

MCSymmetry == Permutations(Readers)
==============================================================================
