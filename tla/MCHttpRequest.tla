----------------------------- MODULE MCHttpRequest -----------------------------
(* Constants of HttpRequest for TLC: a host with a plain page over http and    *)
(* https, and another one with a page and a page that acts.                    *)
EXTENDS HttpRequest

MCHost == [home |-> "a", homeHttp |-> "a", away |-> "b", act |-> "b", search |-> "b"]

Ask(m, hs) ==
    [url |-> "home", method |-> m, body |-> m = "POST", headers |-> hs,
     follow |-> TRUE, strict |-> FALSE, allow |-> FALSE]

MCRequests ==
    {Ask("POST", {"authorization", "content-type"}), Ask("GET", {"host"})}
      \cup {[Ask("GET", {"cookie"}) EXCEPT !.url = u] : u \in {NoUrl, "homeHttp"}}
      \cup {[Ask("GET", {}) EXCEPT !.strict = TRUE, !.allow = allow, !.url = u] :
                u \in {"home", "search"}, allow \in BOOLEAN}
      \cup {[Ask("GET", {}) EXCEPT !.follow = FALSE]}

Answer(status, located, location, size) ==
    [status |-> status, located |-> located, location |-> location, size |-> size,
     complete |-> TRUE]

\* Documents of all sizes around the limit; redirects to anywhere or nowhere.
MCAnswers ==
    {Answer(200, FALSE, NoUrl, size) : size \in 0..MaxBytes + 2}
      \cup {Answer(302, FALSE, NoUrl, 0)}
      \cup {Answer(status, TRUE, u, 1) : status \in {302, 307}, u \in Urls \cup {NoUrl}}
================================================================================
