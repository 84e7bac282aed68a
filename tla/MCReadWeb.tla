------------------------------- MODULE MCReadWeb -------------------------------
(* Constants of ReadWeb for TLC, and the initial states of three readers that *)
(* are worth telling apart: readers differ in their requests only.            *)
EXTENDS ReadWeb

CONSTANTS r1, r2, r3

\* A page that may be paid for and a post.
MCRoute == [page |-> "jina-reader", post |-> "fxtwitter"]

MCTtl == [p \in Providers |-> IF p = "parallel" THEN 2 ELSE 1]

Ask(u, allowPaid, noCache) ==
    [url |-> u, allowPaid |-> allowPaid, noCache |-> noCache]

MCRequests ==
    {Ask("page", p, FALSE) : p \in BOOLEAN} \cup {Ask(u, TRUE, u = "page") : u \in Urls}

\* Three readers of one key, with and without opt-in or cache; or two of it, of
\* which none may cache a paid page, beside one of the other key.
MCInit ==
    /\ Init
    /\ <<req[r1], req[r2], req[r3]>> \in
          {<<Ask("page", TRUE, FALSE), Ask("page", TRUE, FALSE), Ask("page", FALSE, FALSE)>>,
           <<Ask("page", TRUE, FALSE), Ask("page", FALSE, FALSE), Ask("page", TRUE, TRUE)>>,
           <<Ask("page", FALSE, FALSE), Ask("page", TRUE, TRUE), Ask("post", TRUE, FALSE)>>}

MCSpec == MCInit /\ [][Next]_vars /\ Fairness
==============================================================================
