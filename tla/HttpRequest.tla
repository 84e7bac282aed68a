------------------------------ MODULE HttpRequest ------------------------------
(***************************************************************************)
(* SafeHttpClient.request: one HTTP request and the chain of redirects it  *)
(* follows.  Each hop resolves its host, checks every answer, connects to  *)
(* the first one, sends, and reads a bounded body; each redirect decides   *)
(* what of method, body and headers the next hop still carries.  Resolver  *)
(* and servers answer as they like, differently at every hop.              *)
(***************************************************************************)
EXTENDS Naturals, Sequences, FiniteSets, FiniteSetsExt

CONSTANTS
    Urls,           \* normalized URLs that normalize_and_validate_url accepts
    Host,           \* the host of each
    Secure,         \* those with scheme https
    Suspicious,     \* those side_effect_warning warns of
    Acting,         \* those with an action in the path and a one-time token
    Addresses,
    Blocked,        \* is_blocked_ip
    Requests,       \* the calls of `request` that may be made
    Answers,        \* the responses servers may give
    AllowDowngrade, \* BFR_ALLOW_HTTPS_DOWNGRADE
    HopLimit,       \* 10 in the code
    MaxBytes,       \* max_bytes
    Chunk,          \* 64 KiB in the code
    NoUrl,          \* stands for a URL the policy rejects, or an absent one
    NoAddress       \* stands for "not resolved"

Methods == {"GET", "POST", "PUT", "DELETE", "HEAD"}
ToGet == {301, 302, 303}
Redirects == ToGet \cup {307, 308}
Statuses == {200, 302, 307}

Credentials == {"authorization", "cookie"}
ContentHeaders == {"content-type"}
TransportOwned == {"host"}
Headers == Credentials \cup ContentHeaders \cup TransportOwned \cup {"accept-language"}

Request == [url : Urls \cup {NoUrl}, method : Methods, body : BOOLEAN,
            headers : SUBSET Headers, follow : BOOLEAN, strict : BOOLEAN, allow : BOOLEAN]

\* A redirect may name a URL the policy accepts, another one, or none.
Response == [status : Statuses, located : BOOLEAN, location : Urls \cup {NoUrl},
             size : Nat, complete : BOOLEAN]

ASSUME HttpAssumption ==
    /\ Urls # {} /\ Secure \subseteq Urls
    /\ Acting \subseteq Suspicious /\ Suspicious \subseteq Urls
    /\ Blocked \subseteq Addresses
    /\ Requests \subseteq Request
    /\ Answers \subseteq Response
    /\ \A a \in Answers : a.complete /\ (a.location # NoUrl => a.located)
    /\ AllowDowngrade \in BOOLEAN
    /\ HopLimit \in Nat \ {0}
    /\ MaxBytes \in Nat /\ Chunk \in Nat \ {0}
    /\ NoUrl \notin Urls
    /\ NoAddress \notin Addresses

VARIABLES
    req,        \* the arguments of the call
    pc,
    current, method, body, headers,     \* what the next hop sends
    hop,        \* requests left behind in the chain
    target,     \* the ResolvedTarget the hop connects to
    response,   \* what the server is answering
    got,        \* bytes of it read so far
    outcome,
    sent        \* history: the requests put on the wire

carried == <<current, method, body, headers>>
vars == <<req, pc, current, method, body, headers, hop, target, response, got, outcome, sent>>

Hosts == {Host[u] : u \in Urls}
Target == [hostname : Hosts, ip : Addresses \cup {NoAddress}]
Wire == [url : Urls, method : Methods, body : BOOLEAN, headers : SUBSET Headers]
Outcomes == {"none", "response", "unsafe", "redirect_hop_limit", "response_too_large", "network"}

TypeOK ==
    /\ req \in Requests
    /\ pc \in {"start", "resolving", "connecting", "sending", "reading", "deciding", "done"}
    /\ current \in Urls \cup {NoUrl}
    /\ pc \in {"resolving", "connecting", "sending", "reading", "deciding"} => current \in Urls
    /\ method \in Methods
    /\ body \in BOOLEAN
    /\ headers \in SUBSET Headers
    /\ hop \in 0..HopLimit - 1
    /\ target \in Target
    /\ response \in Response
    /\ got \in 0..MaxBytes + 1
    /\ outcome \in Outcomes
    /\ sent \in Seq(Wire)

NoTarget == [hostname |-> CHOOSE h \in Hosts : TRUE, ip |-> NoAddress]
NoResponse == [status |-> 200, located |-> FALSE, location |-> NoUrl, size |-> 0, complete |-> TRUE]

Init ==
    /\ req \in Requests
    /\ pc = "start"
    /\ current = req.url
    /\ method = req.method
    /\ body = req.body
    /\ headers = req.headers
    /\ hop = 0
    /\ target = NoTarget
    /\ response = NoResponse
    /\ got = 0
    /\ outcome = "none"
    /\ sent = <<>>

Go(from, to) ==
    /\ pc = from
    /\ pc' = to
    /\ outcome' = outcome

Ends(from, how) ==
    /\ pc = from
    /\ pc' = "done"
    /\ outcome' = how

--------------------------------------------------------------------------------
(* The URL policy of the caller. *)

\* normalize_and_validate_url, and what a strict caller does not even start.
RefusedAtStart ==
    \/ req.url = NoUrl
    \/ req.strict /\ ~ req.allow /\ req.url \in Suspicious

\* should_block_side_effect_redirect
BlocksSideEffect(u) ==
    ~ req.allow /\ (u \in Acting \/ (req.strict /\ u \in Suspicious))

\* validate_redirect
ValidRedirect(u) ==
    /\ u # NoUrl
    /\ current \in Secure /\ u \notin Secure => AllowDowngrade

Start ==
    /\ IF RefusedAtStart THEN Ends("start", "unsafe") ELSE Go("start", "resolving")
    /\ UNCHANGED <<req, carried, hop, target, response, got, sent>>

--------------------------------------------------------------------------------
(* _do_one_request: one hop. *)

\* blocked_resolved_targets passes: there are answers and none is blocked.
Acceptable(answers) == answers # {} /\ \A a \in answers : a \notin Blocked

\* Mutation of Resolve: an address that is known is kept for the next hop.
Resolve_Once ==
    /\ Go("resolving", "connecting")
    /\ headers \cap TransportOwned = {}
    /\ IF target.ip # NoAddress THEN UNCHANGED target
       ELSE \E first \in Addresses \ Blocked :
               target' = [hostname |-> Host[current], ip |-> first]
    /\ UNCHANGED <<req, carried, hop, response, got, sent>>

\* Every answer is checked, the first is used, whichever that is; then the
\* headers are checked.
Resolve ==
    /\ \E answers \in SUBSET Addresses :
          \/ /\ ~ Acceptable(answers) \/ headers \cap TransportOwned # {}
             /\ Ends("resolving", "unsafe")
             /\ UNCHANGED target
          \/ /\ Acceptable(answers) /\ headers \cap TransportOwned = {}
             /\ Go("resolving", "connecting")
             /\ \E first \in answers : target' = [hostname |-> Host[current], ip |-> first]
    /\ UNCHANGED <<req, carried, hop, response, got, sent>>

\* _connect_pinned; a peer that is not the address pinned ends the request.
Connect ==
    /\ Go("connecting", "sending") \/ Ends("connecting", "unsafe")
    /\ UNCHANGED <<req, carried, hop, target, response, got, sent>>

Send ==
    /\ Go("sending", "reading")
    /\ sent' = Append(sent, [url |-> current, method |-> method, body |-> body,
                             headers |-> headers])
    /\ response' \in Answers
    /\ got' = 0
    /\ UNCHANGED <<req, carried, hop, target>>

\* Mutation of Amount: read up to the limit, so that an end looks like any other.
Amount_ToTheLimit == Min({Chunk, MaxBytes - got, response.size - got})

\* Mutation of Amount: reads ask for whole chunks.
Amount_WholeChunks == Min({Chunk, response.size - got})

\* How much the next read returns: one byte past the limit is asked for.
Amount == Min({Chunk, MaxBytes + 1 - got, response.size - got})

ReadChunk ==
    /\ Amount > 0
    /\ got' = got + Amount
    /\ IF got' > MaxBytes THEN Ends("reading", "response_too_large") ELSE Go("reading", "reading")
    /\ UNCHANGED <<req, carried, hop, target, response, sent>>

\* An empty read ends the body.
ReadsEnd ==
    /\ Amount = 0
    /\ Go("reading", "deciding")
    /\ UNCHANGED <<req, carried, hop, target, response, got, sent>>

\* The server closes the connection within the body: a read of a body with a
\* length, or without one, takes that for its end.
Cut ==
    /\ got < response.size
    /\ Go("reading", "deciding")
    /\ response' = [response EXCEPT !.complete = FALSE]
    /\ UNCHANGED <<req, carried, hop, target, got, sent>>

\* Connection refused, TLS failure, time-out, protocol error, a chunked body
\* that is cut: an exception leaves `request`.
NetworkFails ==
    /\ \E from \in {"resolving", "connecting", "sending", "reading"} : Ends(from, "network")
    /\ UNCHANGED <<req, carried, hop, target, response, got, sent>>

--------------------------------------------------------------------------------
(* The loop of `request`. *)

IsRedirect == response.status \in Redirects

\* Mutation of Return: a redirect is never an answer.
Return_NoRedirect ==
    /\ ~ IsRedirect
    /\ Ends("deciding", "response")
    /\ UNCHANGED <<req, carried, hop, target, response, got, sent>>

\* A redirect without a Location is an answer like any other.
Return ==
    /\ ~ IsRedirect \/ (req.follow /\ ~ response.located)
    /\ Ends("deciding", "response")
    /\ UNCHANGED <<req, carried, hop, target, response, got, sent>>

\* The checks in front of the next hop.
MayFollow ==
    /\ req.follow /\ response.located
    /\ ValidRedirect(response.location)
    /\ ~ BlocksSideEffect(response.location)

RefuseRedirect ==
    /\ IsRedirect /\ (req.follow => response.located) /\ ~ MayFollow
    /\ Ends("deciding", "unsafe")
    /\ UNCHANGED <<req, carried, hop, target, response, got, sent>>

\* Mutation of Stripped: the host is compared with that of the first request,
\* whose credentials come back with it.
Stripped_ByFirstHost(u) ==
    IF Host[u] # Host[req.url] THEN headers \ Credentials
    ELSE headers \cup (req.headers \cap Credentials)

\* A change of host drops the credentials for the rest of the chain.
Stripped(u) == IF Host[u] # Host[current] THEN headers \ Credentials ELSE headers

\* 301, 302 and 303 turn the request into a GET without body and without the
\* headers that describe one; 307 and 308 keep it.
Coerce(u) ==
    IF response.status \in ToGet
    THEN /\ method' = "GET"
         /\ body' = FALSE
         /\ headers' = Stripped(u) \ ContentHeaders
    ELSE /\ headers' = Stripped(u)
         /\ UNCHANGED <<method, body>>

LastHop == hop + 1 = HopLimit

FollowRedirect ==
    /\ IsRedirect /\ MayFollow
    /\ current' = response.location
    /\ Coerce(response.location)
    /\ IF LastHop
       THEN Ends("deciding", "redirect_hop_limit") /\ UNCHANGED hop
       ELSE Go("deciding", "resolving") /\ hop' = hop + 1
    /\ UNCHANGED <<req, target, response, got, sent>>

Next ==
    \/ Start \/ Resolve \/ Connect \/ Send
    \/ ReadChunk \/ ReadsEnd \/ Cut \/ NetworkFails
    \/ Return \/ RefuseRedirect \/ FollowRedirect

\* Every wait on the network has a time-out, so no step takes for ever.
Spec == Init /\ [][Next]_vars /\ WF_vars(Next)

--------------------------------------------------------------------------------
(* Properties, and the parts they are made of. *)

\* The caller's credentials go to the host of the first request, and only
\* until the chain leaves it: a redirect back does not get them again (H5).
CredentialsStayHome ==
    \A i \in DOMAIN sent : sent[i].headers \cap Credentials # {} =>
        /\ sent[i].headers \cap Credentials = req.headers \cap Credentials
        /\ \A j \in 1..i : Host[sent[j].url] = Host[req.url]

\* A hop that sends the body sends the caller's method, and so did all hops
\* before it; once the body is gone the method is GET, and neither the body
\* nor a header that describes it comes back.
BodiesAreNotRevived ==
    \A i, j \in DOMAIN sent : i <= j =>
        /\ sent[j].body => sent[i].body /\ sent[j].method = req.method
        /\ sent[i].body /\ ~ sent[j].body =>
              sent[j].method = "GET" /\ sent[j].headers \cap ContentHeaders = {}

\* Credentials and bodies travel only as far as the caller sent them.
WhatIsCarried == CredentialsStayHome /\ BodiesAreNotRevived

\* What is put on the wire goes to an address that was resolved for the host
\* of this very hop and is not blocked (H3, pinning).
PinnedToThisHop ==
    pc \in {"connecting", "sending", "reading"} =>
        target.hostname = Host[current] /\ target.ip \in Addresses \ Blocked

\* Unless the caller allows it, no redirect leads to a URL that acts by a
\* token, and a strict caller touches no suspicious URL at all (H17, H17b).
NoSideEffects ==
    \A i \in DOMAIN sent : ~ req.allow =>
        /\ i > 1 => sent[i].url \notin Acting
        /\ req.strict => sent[i].url \notin Suspicious

\* A chain that has been on https stays there.
StaysSecure ==
    \A i, j \in DOMAIN sent :
        i < j /\ sent[i].url \in Secure => AllowDowngrade \/ sent[j].url \in Secure

\* At most HopLimit requests go out, one if redirects are not followed, and
\* the limit is reported only after that many (H4, H6).
HopsAreBounded ==
    /\ Len(sent) <= IF req.follow THEN HopLimit ELSE 1
    /\ outcome = "redirect_hop_limit" => Len(sent) = HopLimit

\* Whatever resolver and servers answer, no hop leads where the caller's URL
\* policy does not, nor does the chain go on for ever.
WhereItGoes == PinnedToThisHop /\ NoSideEffects /\ StaysSecure /\ HopsAreBounded

\* What is returned is all the server sent: a body over the limit is refused
\* and never cut to fit.  Only a server that closes early can shorten it (H7).
ResponsesAreWhole ==
    outcome = "response" /\ response.complete => got = response.size /\ got <= MaxBytes

\* A request ends, however servers redirect.
RequestsEnd == <>(pc = "done")

(* The inductive invariant: what holds of the hop under way, so that it holds *)
(* of all the requests sent once this one is.                                 *)

\* What the next request would carry is what all before it could.
CarriedByAll ==
    /\ headers \cap Credentials # {} =>
          /\ headers \cap Credentials = req.headers \cap Credentials
          /\ current # NoUrl => Host[current] = Host[req.url]
          /\ \A i \in DOMAIN sent : Host[sent[i].url] = Host[req.url]
    /\ body => method = req.method /\ \A i \in DOMAIN sent : sent[i].body
    /\ ~ body /\ (\E i \in DOMAIN sent : sent[i].body) =>
          method = "GET" /\ headers \cap ContentHeaders = {}

\* One request was sent for each hop, the present one included once it is read.
HopsAreSent ==
    /\ pc = "start" => hop = 0
    /\ pc \in {"start", "resolving", "connecting", "sending"} => Len(sent) = hop
    /\ pc \in {"reading", "deciding"} => Len(sent) = hop + 1
    /\ pc = "done" => Len(sent) \in {hop, hop + 1}
    /\ ~ req.follow => hop = 0
    /\ pc # "done" => outcome = "none"
    /\ outcome = "redirect_hop_limit" => Len(sent) = HopLimit

\* Where the next request would go was checked.
NextIsChecked ==
    /\ pc = "start" => current = req.url
    /\ pc \notin {"start", "done"} /\ ~ req.allow =>
          /\ hop > 0 => current \notin Acting
          /\ req.strict => current \notin Suspicious
    /\ \A i \in DOMAIN sent : sent[i].url \in Secure => AllowDowngrade \/ current \in Secure

\* What was read is within the limit, and all of it once the body has ended.
BodySoFar ==
    /\ pc \in {"reading", "deciding"} => got <= MaxBytes /\ got <= response.size
    /\ pc = "deciding" /\ response.complete => got = response.size

IInv ==
    /\ TypeOK
    /\ CarriedByAll /\ WhatIsCarried
    /\ HopsAreSent /\ NextIsChecked /\ WhereItGoes
    /\ BodySoFar /\ ResponsesAreWhole
================================================================================
