--------------------------- MODULE HttpRequestProofs ---------------------------
(***************************************************************************)
(* One HTTP request and its redirects, for every set of URLs, hosts and    *)
(* addresses, every limit of hops and bytes, and servers that answer       *)
(* anything: what was dropped on the way is not picked up again, no hop    *)
(* leads past the URL policy, and what is returned is whole.               *)
(***************************************************************************)
EXTENDS HttpRequest, TLAPS

--------------------------------------------------------------------------------
(* Operators. *)

LEMMA MinOfThree ==
  ASSUME NEW a \in Int, NEW b \in Int, NEW c \in Int
  PROVE  /\ Min({a, b, c}) \in {a, b, c}
         /\ Min({a, b, c}) <= a /\ Min({a, b, c}) <= b /\ Min({a, b, c}) <= c
PROOF
  <1>1. \E x \in {a, b, c} : \A y \in {a, b, c} : x <= y
    <2>1. CASE a <= b /\ a <= c
      BY <2>1
    <2>2. CASE b <= a /\ b <= c
      BY <2>2
    <2>3. CASE c <= a /\ c <= b
      BY <2>3
    <2> QED BY <2>1, <2>2, <2>3
  <1> QED BY <1>1 DEF Min

\* A read stays within the one byte past the limit, and within the body; an
\* empty one means that one of the two is used up.
LEMMA AmountBounds ==
  ASSUME TypeOK
  PROVE  /\ Amount \in Int
         /\ Amount <= MaxBytes + 1 - got /\ Amount <= response.size - got
         /\ Amount \in {Chunk, MaxBytes + 1 - got, response.size - got}
PROOF
  <1>1. /\ got \in Int /\ MaxBytes \in Int /\ Chunk \in Int /\ response.size \in Int
    BY HttpAssumption DEF TypeOK, Response
  <1>2. MaxBytes + 1 - got \in Int /\ response.size - got \in Int
    BY <1>1
  <1> DEFINE b == MaxBytes + 1 - got
             c == response.size - got
  <1>3. /\ Min({Chunk, b, c}) \in {Chunk, b, c}
        /\ Min({Chunk, b, c}) <= Chunk /\ Min({Chunk, b, c}) <= b /\ Min({Chunk, b, c}) <= c
    <2> HIDE DEF b, c
    <2>1. b \in Int /\ c \in Int
      BY <1>2 DEF b, c
    <2> QED BY <1>1, <2>1, MinOfThree
  <1> QED BY <1>1, <1>2, <1>3 DEF Amount

\* What Send adds to the history.
LEMMA SendAppends ==
  ASSUME TypeOK, Send
  PROVE  /\ sent' \in Seq(Wire)
         /\ Len(sent') = Len(sent) + 1
         /\ DOMAIN sent' = DOMAIN sent \cup {Len(sent) + 1}
         /\ Len(sent) + 1 \notin DOMAIN sent
         /\ \A i \in DOMAIN sent : sent'[i] = sent[i]
         /\ sent'[Len(sent) + 1] = [url |-> current, method |-> method, body |-> body,
                                    headers |-> headers]
PROOF
  <1> DEFINE w == [url |-> current, method |-> method, body |-> body, headers |-> headers]
  <1>1. w \in Wire /\ sent \in Seq(Wire) /\ sent' = Append(sent, w)
    BY DEF TypeOK, Send, Go, Wire
  <1> HIDE DEF w
  <1>2. /\ sent' \in Seq(Wire)
        /\ Len(sent') = Len(sent) + 1
        /\ DOMAIN sent' = 1..Len(sent) + 1 /\ DOMAIN sent = 1..Len(sent)
        /\ \A i \in 1..Len(sent) : sent'[i] = sent[i]
        /\ sent'[Len(sent) + 1] = w
    BY <1>1
  <1>3. Len(sent) \in Nat
    BY <1>1
  <1> QED BY <1>2, <1>3 DEF w

\* The requests of the chain are numbered from 1.
LEMMA SentDomain ==
  ASSUME TypeOK
  PROVE  Len(sent) \in Nat /\ DOMAIN sent = 1..Len(sent)
PROOF
  BY DEF TypeOK

--------------------------------------------------------------------------------
(* Types. *)

LEMMA InitIInv == Init => IInv
PROOF
  <1> SUFFICES ASSUME Init PROVE IInv
    OBVIOUS
  <1>1. NoTarget \in Target
    BY HttpAssumption DEF NoTarget, Target, Hosts
  <1>2. NoResponse \in Response
    BY DEF NoResponse, Response, Statuses
  <1>3. req \in Request /\ HopLimit \in Nat \ {0} /\ MaxBytes \in Nat
    BY HttpAssumption DEF Init
  <1>4. TypeOK
    BY <1>1, <1>2, <1>3 DEF Init, TypeOK, Request, Outcomes
  <1>5. sent = <<>> /\ DOMAIN sent = {} /\ Len(sent) = 0
    BY DEF Init
  <1>6. CarriedByAll /\ WhatIsCarried
    BY <1>5 DEF Init, CarriedByAll, WhatIsCarried, CredentialsStayHome, BodiesAreNotRevived
  <1>7. HopsAreSent /\ NextIsChecked /\ WhereItGoes
    BY <1>3, <1>5
    DEF Init, HopsAreSent, NextIsChecked, WhereItGoes, PinnedToThisHop, NoSideEffects,
        StaysSecure, HopsAreBounded
  <1>8. BodySoFar /\ ResponsesAreWhole
    BY DEF Init, BodySoFar, ResponsesAreWhole
  <1> QED BY <1>4, <1>6, <1>7, <1>8 DEF IInv

LEMMA StepType ==
  ASSUME TypeOK, NextIsChecked, Next
  PROVE  TypeOK'
PROOF
  <1> USE HttpAssumption DEF TypeOK, Go, Ends, Outcomes, carried
  <1>1. CASE Start
    <2>1. UNCHANGED <<req, carried, hop, target, response, got, sent>>
      BY <1>1 DEF Start
    <2>2. CASE Ends("start", "unsafe")
      BY <2>1, <2>2
    <2>3. CASE ~ RefusedAtStart /\ Go("start", "resolving")
      <3>1. current \in Urls
        BY <2>3 DEF NextIsChecked, RefusedAtStart
      <3> QED BY <2>1, <2>3, <3>1
    <2> QED BY <1>1, <2>2, <2>3 DEF Start
  <1>2. CASE Resolve
    <2>1. UNCHANGED <<req, carried, hop, response, got, sent>>
      BY <1>2 DEF Resolve
    <2>2. target' \in Target
      <3>1. target' = target \/ \E ip \in Addresses : target' = [hostname |-> Host[current], ip |-> ip]
        BY <1>2 DEF Resolve
      <3>2. current \in Urls
        BY <1>2 DEF Resolve
      <3> QED BY <3>1, <3>2 DEF Target, Hosts
    <2>3. CASE Ends("resolving", "unsafe")
      BY <2>1, <2>2, <2>3
    <2>4. CASE Go("resolving", "connecting")
      BY <2>1, <2>2, <2>4
    <2> QED BY <1>2, <2>3, <2>4 DEF Resolve
  <1>3. CASE Connect
    BY <1>3 DEF Connect
  <1>4. CASE Send
    <2>1. sent' \in Seq(Wire)
      BY <1>4, SendAppends
    <2> QED BY <1>4, <2>1 DEF Send
  <1>5. CASE ReadChunk
    <2>1. got' \in 0..MaxBytes + 1
      BY <1>5, AmountBounds DEF ReadChunk
    <2> QED BY <1>5, <2>1 DEF ReadChunk
  <1>6. CASE ReadsEnd
    BY <1>6 DEF ReadsEnd
  <1>7. CASE Cut
    BY <1>7 DEF Cut, Response
  <1>8. CASE NetworkFails
    BY <1>8 DEF NetworkFails
  <1>9. CASE Return \/ RefuseRedirect
    BY <1>9 DEF Return, RefuseRedirect
  <1>10. CASE FollowRedirect
    <2>1. response.location \in Urls
      BY <1>10 DEF FollowRedirect, MayFollow, ValidRedirect, Response
    <2>2. method' \in Methods /\ body' \in BOOLEAN /\ headers' \in SUBSET Headers
      BY <1>10 DEF FollowRedirect, Coerce, Stripped, Methods
    <2>3. hop' \in 0..HopLimit - 1
      BY <1>10 DEF FollowRedirect, LastHop
    <2> QED BY <1>10, <2>1, <2>2, <2>3 DEF FollowRedirect
  <1> QED
    BY <1>1, <1>2, <1>3, <1>4, <1>5, <1>6, <1>7, <1>8, <1>9, <1>10 DEF Next
--------------------------------------------------------------------------------
(* What is carried. *)

\* All other steps leave alone what is carried and what was sent.
LEMMA OthersKeepWhatIsCarried ==
  ASSUME Next, ~ Send, ~ FollowRedirect
  PROVE  UNCHANGED <<req, carried, sent>>
PROOF
  BY DEF Next, Start, Resolve, Connect, ReadChunk, ReadsEnd, Cut, NetworkFails, Return,
     RefuseRedirect

\* A redirect only takes away: the credentials when it leaves the host, and the
\* body together with all that describes it.
LEMMA RedirectsTakeAway ==
  ASSUME IInv, FollowRedirect
  PROVE  /\ sent' = sent /\ req' = req
         /\ current \in Urls /\ current' \in Urls
         /\ headers' \subseteq headers
         /\ headers' \cap Credentials # {} =>
              /\ Host[current'] = Host[current]
              /\ headers' \cap Credentials = headers \cap Credentials
         /\ \/ method' = "GET" /\ body' = FALSE /\ headers' \cap ContentHeaders = {}
            \/ method' = method /\ body' = body
PROOF
  <1> DEFINE u == response.location
  <1>1. sent' = sent /\ req' = req /\ current' = u /\ Coerce(u)
    BY DEF FollowRedirect
  <1>2. current \in Urls /\ u \in Urls
    BY DEF FollowRedirect, Go, Ends, MayFollow, ValidRedirect, IInv, TypeOK, Response
  <1>3. Stripped(u) \subseteq headers
    BY DEF Stripped
  <1>4. Stripped(u) \cap Credentials # {} => Host[u] = Host[current] /\ Stripped(u) = headers
    BY DEF Stripped
  <1>5. \/ method' = "GET" /\ body' = FALSE /\ headers' = Stripped(u) \ ContentHeaders
        \/ method' = method /\ body' = body /\ headers' = Stripped(u)
    BY <1>1 DEF Coerce
  <1>6. Credentials \cap ContentHeaders = {}
    BY DEF Credentials, ContentHeaders
  <1> HIDE DEF u
  <1>7. headers' \cap Credentials = Stripped(u) \cap Credentials
    BY <1>5, <1>6
  <1> QED BY <1>1, <1>2, <1>3, <1>4, <1>5, <1>7

LEMMA StepCarried ==
  ASSUME IInv, Next
  PROVE  CarriedByAll' /\ WhatIsCarried'
PROOF
  <1>1. CASE ~ Send /\ ~ FollowRedirect
    BY <1>1, OthersKeepWhatIsCarried
    DEF carried, IInv, CarriedByAll, WhatIsCarried, CredentialsStayHome, BodiesAreNotRevived
  <1>2. CASE FollowRedirect
    <2>1. WhatIsCarried'
      BY <1>2, RedirectsTakeAway
      DEF IInv, WhatIsCarried, CredentialsStayHome, BodiesAreNotRevived
    <2>2. ASSUME headers' \cap Credentials # {}
          PROVE  /\ headers' \cap Credentials = req.headers \cap Credentials
                 /\ Host[current'] = Host[req.url]
                 /\ \A i \in DOMAIN sent : Host[sent[i].url] = Host[req.url]
      <3>1. /\ Host[current'] = Host[current] /\ current \in Urls
            /\ headers' \cap Credentials = headers \cap Credentials
        BY <1>2, <2>2, RedirectsTakeAway
      <3>2. current # NoUrl
        BY <3>1, HttpAssumption
      <3> QED BY <2>2, <3>1, <3>2 DEF IInv, CarriedByAll
    <2>3. body' => method' = req.method /\ \A i \in DOMAIN sent : sent[i].body
      BY <1>2, RedirectsTakeAway DEF IInv, CarriedByAll
    <2>4. ~ body' /\ (\E i \in DOMAIN sent : sent[i].body) =>
            method' = "GET" /\ headers' \cap ContentHeaders = {}
      <3>1. CASE method' = "GET" /\ headers' \cap ContentHeaders = {}
        BY <3>1
      <3>2. CASE method' = method /\ body' = body
        <4>1. headers' \subseteq headers
          BY <1>2, RedirectsTakeAway
        <4> QED BY <3>2, <4>1 DEF IInv, CarriedByAll
      <3> QED BY <1>2, <3>1, <3>2, RedirectsTakeAway
    <2> QED
      BY <1>2, <2>1, <2>2, <2>3, <2>4, RedirectsTakeAway DEF CarriedByAll
  <1>3. CASE Send
    <2> DEFINE n == Len(sent) + 1
    <2>1. /\ DOMAIN sent' = DOMAIN sent \cup {n}
          /\ \A i \in DOMAIN sent : sent'[i] = sent[i]
          /\ sent'[n].url = current /\ sent'[n].method = method
          /\ sent'[n].body = body /\ sent'[n].headers = headers
      <3>1. TypeOK
        BY DEF IInv
      <3>2. /\ DOMAIN sent' = DOMAIN sent \cup {n}
            /\ \A i \in DOMAIN sent : sent'[i] = sent[i]
            /\ sent'[n] = [url |-> current, method |-> method, body |-> body,
                           headers |-> headers]
        BY <1>3, <3>1, SendAppends
      <3> HIDE DEF n
      <3> QED BY <3>2
    <2>2. UNCHANGED <<req, current, method, body, headers>>
      BY <1>3 DEF Send, carried
    <2>3. DOMAIN sent = 1..Len(sent) /\ Len(sent) \in Nat
      BY SentDomain DEF IInv
    <2>4. current # NoUrl
      BY <1>3, HttpAssumption DEF Send, Go, IInv, TypeOK
    <2> HIDE DEF n
    <2>5. CarriedByAll'
      BY <2>1, <2>2, <2>4 DEF IInv, CarriedByAll
    <2>6. CredentialsStayHome'
      <3> SUFFICES ASSUME NEW i \in DOMAIN sent', sent'[i].headers \cap Credentials # {}
                   PROVE  /\ sent'[i].headers \cap Credentials = req.headers \cap Credentials
                          /\ \A j \in 1..i : Host[sent'[j].url] = Host[req.url]
        BY <2>2 DEF CredentialsStayHome
      <3>1. CASE i \in DOMAIN sent
        <4>1. \A j \in 1..i : j \in DOMAIN sent
          BY <2>3, <3>1
        <4> QED BY <2>1, <3>1, <4>1 DEF IInv, WhatIsCarried, CredentialsStayHome
      <3>2. CASE i = n
        <4>1. \A j \in 1..i : j \in DOMAIN sent \/ j = n
          BY <2>3, <3>2 DEF n
        <4> QED BY <2>1, <2>4, <3>2, <4>1 DEF IInv, CarriedByAll
      <3> QED BY <2>1, <3>1, <3>2
    <2>7. BodiesAreNotRevived'
      <3> SUFFICES ASSUME NEW i \in DOMAIN sent', NEW j \in DOMAIN sent', i <= j
                   PROVE  /\ sent'[j].body => sent'[i].body /\ sent'[j].method = req.method
                          /\ sent'[i].body /\ ~ sent'[j].body =>
                               /\ sent'[j].method = "GET"
                               /\ sent'[j].headers \cap ContentHeaders = {}
        BY <2>2 DEF BodiesAreNotRevived
      <3>1. CASE j \in DOMAIN sent
        <4>1. i \in DOMAIN sent
          BY <2>1, <2>3, <3>1 DEF n
        <4> QED BY <2>1, <3>1, <4>1 DEF IInv, WhatIsCarried, BodiesAreNotRevived
      <3>2. CASE j = n
        BY <2>1, <3>2 DEF IInv, CarriedByAll
      <3> QED BY <2>1, <3>1, <3>2
    <2> QED BY <2>5, <2>6, <2>7 DEF WhatIsCarried
  <1> QED BY <1>1, <1>2, <1>3
--------------------------------------------------------------------------------
(* Where it goes. *)

LEMMA StepHops ==
  ASSUME IInv, Next
  PROVE  HopsAreSent' /\ HopsAreBounded'
PROOF
  <1> USE DEF Go, Ends
  <1>1. HopsAreSent /\ HopsAreBounded /\ TypeOK /\ Len(sent) \in Nat
    BY SentDomain DEF IInv, WhereItGoes
  <1>2. hop \in Nat /\ HopLimit \in Nat /\ hop < HopLimit /\ HopLimit > 0
    BY <1>1, HttpAssumption DEF TypeOK
  <1>3. CASE ~ Send /\ ~ FollowRedirect
    <2>1. UNCHANGED <<req, hop, sent>>
      BY <1>3 DEF Next, Start, Resolve, Connect, ReadChunk, ReadsEnd, Cut, NetworkFails,
         Return, RefuseRedirect
    <2>2. /\ pc' # "start" /\ pc # "done"
          /\ pc' # "done" => outcome' = outcome
          /\ outcome' # "redirect_hop_limit"
          /\ pc' \in {"resolving", "connecting", "sending"} =>
                pc \in {"start", "resolving", "connecting"}
          /\ pc' \in {"reading", "deciding"} => pc \in {"reading", "deciding"}
          /\ pc' \in {"resolving", "connecting", "sending", "reading", "deciding", "done"}
          /\ pc \in {"start", "resolving", "connecting", "sending", "reading", "deciding"}
      <3>1. CASE Start \/ Resolve \/ Connect
        BY <1>1, <3>1 DEF Start, Resolve, Connect, HopsAreSent
      <3>2. CASE ReadChunk \/ ReadsEnd \/ Cut
        BY <1>1, <3>2 DEF ReadChunk, ReadsEnd, Cut, HopsAreSent
      <3>3. CASE NetworkFails \/ Return \/ RefuseRedirect
        BY <1>1, <3>3 DEF NetworkFails, Return, RefuseRedirect, HopsAreSent
      <3> QED BY <1>3, <3>1, <3>2, <3>3 DEF Next
    <2> QED BY <1>1, <1>2, <2>1, <2>2 DEF HopsAreSent, HopsAreBounded
  <1>4. CASE Send
    <2>1. pc = "sending" /\ pc' = "reading" /\ outcome' = outcome /\ UNCHANGED <<req, hop>>
      BY <1>4 DEF Send
    <2>2. Len(sent') = Len(sent) + 1
      BY <1>1, <1>4, SendAppends
    <2> QED BY <1>1, <1>2, <2>1, <2>2 DEF HopsAreSent, HopsAreBounded
  <1>5. CASE FollowRedirect
    <2>1. /\ pc = "deciding" /\ UNCHANGED <<req, sent>> /\ req.follow
          /\ \/ /\ hop + 1 = HopLimit /\ pc' = "done"
                /\ outcome' = "redirect_hop_limit" /\ hop' = hop
             \/ pc' = "resolving" /\ outcome' = outcome /\ hop' = hop + 1
      BY <1>5 DEF FollowRedirect, LastHop, MayFollow
    <2> QED BY <1>1, <1>2, <2>1 DEF HopsAreSent, HopsAreBounded
  <1> QED BY <1>3, <1>4, <1>5

LEMMA StepPinned ==
  ASSUME IInv, Next
  PROVE  PinnedToThisHop'
PROOF
  <1> USE DEF Go, Ends, IInv, WhereItGoes, PinnedToThisHop, carried
  <1>1. CASE Start \/ Return \/ RefuseRedirect \/ FollowRedirect \/ NetworkFails
    BY <1>1 DEF Start, Return, RefuseRedirect, FollowRedirect, NetworkFails
  <1>2. CASE Resolve
    <2>1. CASE pc' = "done"
      BY <2>1
    <2>2. CASE pc' # "done"
      <3>1. PICK answers \in SUBSET Addresses :
              /\ Acceptable(answers)
              /\ \E first \in answers : target' = [hostname |-> Host[current], ip |-> first]
        BY <1>2, <2>2 DEF Resolve
      <3>2. current' = current
        BY <1>2 DEF Resolve
      <3> QED BY <3>1, <3>2 DEF Acceptable
    <2> QED BY <2>1, <2>2
  <1>3. CASE Connect \/ Send
    BY <1>3 DEF Connect, Send
  <1>4. CASE ReadChunk \/ ReadsEnd \/ Cut
    BY <1>4 DEF ReadChunk, ReadsEnd, Cut
  <1> QED BY <1>1, <1>2, <1>3, <1>4 DEF Next

LEMMA StepChecked ==
  ASSUME IInv, Next
  PROVE  NextIsChecked' /\ NoSideEffects' /\ StaysSecure'
PROOF
  <1> USE DEF Go, Ends
  <1>1. NextIsChecked /\ NoSideEffects /\ StaysSecure /\ HopsAreSent /\ TypeOK
    BY DEF IInv, WhereItGoes
  <1>2. DOMAIN sent = 1..Len(sent) /\ Len(sent) \in Nat
    BY <1>1, SentDomain
  <1>3. CASE ~ Send /\ ~ FollowRedirect
    <2>1. UNCHANGED <<req, current, sent>>
      BY <1>3, OthersKeepWhatIsCarried DEF carried
    <2>2. hop' = hop
      BY <1>3 DEF Next, Start, Resolve, Connect, ReadChunk, ReadsEnd, Cut, NetworkFails,
         Return, RefuseRedirect
    <2>3. NoSideEffects' /\ StaysSecure'
      BY <1>1, <2>1 DEF NoSideEffects, StaysSecure
    <2>4. CASE Start
      <3>1. hop = 0 /\ pc' # "start" /\ (pc' # "done" => ~ RefusedAtStart) /\ current = req.url
        BY <1>1, <2>4 DEF Start, HopsAreSent, NextIsChecked
      <3> QED BY <1>1, <2>1, <2>2, <2>3, <3>1 DEF NextIsChecked, RefusedAtStart
    <2>5. CASE ~ Start
      <3>1. pc \notin {"start", "done"} /\ pc' # "start"
        BY <1>3, <2>5 DEF Next, Resolve, Connect, ReadChunk, ReadsEnd, Cut, NetworkFails,
           Return, RefuseRedirect
      <3> QED BY <1>1, <2>1, <2>2, <2>3, <3>1 DEF NextIsChecked
    <2> QED BY <2>4, <2>5
  <1>4. CASE Send
    <2> DEFINE n == Len(sent) + 1
    <2>1. /\ DOMAIN sent' = DOMAIN sent \cup {n}
          /\ \A i \in DOMAIN sent : sent'[i] = sent[i]
          /\ sent'[n] = [url |-> current, method |-> method, body |-> body,
                         headers |-> headers]
      BY <1>1, <1>4, SendAppends
    <2>2. sent'[n].url = current
      <3> HIDE DEF n
      <3> QED BY <2>1
    <2>3. UNCHANGED <<req, current, hop>> /\ pc = "sending" /\ pc' = "reading"
      BY <1>4 DEF Send, carried
    <2>4. n > 1 => hop > 0
      BY <1>1, <1>2, <2>3 DEF HopsAreSent
    <2>5. \A i \in DOMAIN sent' : i \in DOMAIN sent \/ i = n
      BY <2>1
    <2>6. \A i, j \in DOMAIN sent' : i < j => i \in DOMAIN sent
      BY <1>2, <2>1
    <2> HIDE DEF n
    <2>7. NextIsChecked'
      BY <1>1, <2>1, <2>2, <2>3, <2>5 DEF NextIsChecked
    <2>8. NoSideEffects'
      BY <1>1, <2>1, <2>2, <2>3, <2>4, <2>5 DEF NextIsChecked, NoSideEffects
    <2>9. StaysSecure'
      BY <1>1, <2>1, <2>2, <2>5, <2>6 DEF NextIsChecked, StaysSecure
    <2> QED BY <2>7, <2>8, <2>9
  <1>5. CASE FollowRedirect
    <2>1. UNCHANGED <<req, sent>> /\ pc = "deciding" /\ pc' # "start"
      BY <1>5 DEF FollowRedirect
    <2>2. NoSideEffects' /\ StaysSecure'
      BY <1>1, <2>1 DEF NoSideEffects, StaysSecure
    <2>3. NextIsChecked'
      <3>1. /\ ~ req.allow => /\ current' \notin Acting
                              /\ req.strict => current' \notin Suspicious
            /\ current \in Secure => AllowDowngrade \/ current' \in Secure
        BY <1>5 DEF FollowRedirect, MayFollow, BlocksSideEffect, ValidRedirect
      <3>2. \A i \in DOMAIN sent' :
               sent'[i].url \in Secure => AllowDowngrade \/ current' \in Secure
        BY <1>1, <2>1, <3>1 DEF NextIsChecked
      <3> QED BY <2>1, <3>1, <3>2 DEF NextIsChecked
    <2> QED BY <2>2, <2>3
  <1> QED BY <1>3, <1>4, <1>5

--------------------------------------------------------------------------------
(* What is returned. *)

LEMMA StepBody ==
  ASSUME IInv, Next
  PROVE  BodySoFar' /\ ResponsesAreWhole'
PROOF
  <1> USE DEF Go, Ends
  <1>1. BodySoFar /\ ResponsesAreWhole /\ HopsAreSent /\ TypeOK
    BY DEF IInv
  <1>2. /\ got \in Nat /\ MaxBytes \in Nat /\ response.size \in Nat /\ Chunk \in Nat \ {0}
    BY <1>1, HttpAssumption DEF TypeOK, Response
  <1>3. CASE Start \/ Resolve \/ Connect
    BY <1>1, <1>3 DEF Start, Resolve, Connect, BodySoFar, ResponsesAreWhole, HopsAreSent
  <1>4. CASE Send
    <2>1. response' \in Response /\ got' = 0 /\ pc' = "reading" /\ outcome' = "none"
      BY <1>1, <1>4, HttpAssumption DEF Send, HopsAreSent
    <2>2. response'.size \in Nat
      BY <2>1 DEF Response
    <2> QED BY <1>2, <2>1, <2>2 DEF BodySoFar, ResponsesAreWhole
  <1>5. CASE ReadChunk
    <2>1. /\ got' = got + Amount /\ response' = response /\ pc' \in {"reading", "done"}
          /\ pc' = "reading" => got' <= MaxBytes
          /\ outcome' # "response"
      BY <1>1, <1>2, <1>5, AmountBounds DEF ReadChunk, HopsAreSent
    <2>2. got' <= response.size
      BY <1>1, <1>2, <2>1, AmountBounds
    <2> QED BY <2>1, <2>2 DEF BodySoFar, ResponsesAreWhole
  <1>6. CASE ReadsEnd
    <2>1. /\ pc = "reading" /\ pc' = "deciding" /\ UNCHANGED <<response, got>>
          /\ outcome' = "none" /\ Amount = 0
      BY <1>1, <1>6 DEF ReadsEnd, HopsAreSent
    <2>2. got <= MaxBytes /\ got <= response.size
      BY <1>1, <2>1 DEF BodySoFar
    <2>3. got = response.size
      BY <1>1, <1>2, <2>1, <2>2, AmountBounds
    <2> QED BY <2>1, <2>2, <2>3 DEF BodySoFar, ResponsesAreWhole
  <1>7. CASE Cut
    <2>1. /\ pc = "reading" /\ pc' = "deciding" /\ got' = got /\ outcome' = "none"
          /\ response' = [response EXCEPT !.complete = FALSE]
      BY <1>1, <1>7 DEF Cut, HopsAreSent
    <2>2. response'.size = response.size /\ response'.complete = FALSE
      BY <1>1, <2>1 DEF TypeOK, Response
    <2> QED BY <1>1, <2>1, <2>2 DEF BodySoFar, ResponsesAreWhole
  <1>8. CASE NetworkFails \/ RefuseRedirect
    BY <1>8 DEF NetworkFails, RefuseRedirect, BodySoFar, ResponsesAreWhole
  <1>9. CASE Return
    BY <1>1, <1>9 DEF Return, BodySoFar, ResponsesAreWhole
  <1>10. CASE FollowRedirect
    BY <1>1, <1>10 DEF FollowRedirect, BodySoFar, ResponsesAreWhole, HopsAreSent
  <1> QED BY <1>3, <1>4, <1>5, <1>6, <1>7, <1>8, <1>9, <1>10 DEF Next

--------------------------------------------------------------------------------
(* Theorems. *)

LEMMA NextIInv == IInv /\ [Next]_vars => IInv'
PROOF
  <1> SUFFICES ASSUME IInv, [Next]_vars PROVE IInv'
    OBVIOUS
  <1>1. CASE Next
    BY <1>1, StepType, StepCarried, StepHops, StepPinned, StepChecked, StepBody
    DEF IInv, WhereItGoes
  <1>2. CASE UNCHANGED vars
    <2>1. UNCHANGED <<req, pc, current, method, body, headers, hop, target, response, got,
                      outcome, sent>>
      BY <1>2 DEF vars, carried
    <2>2. TypeOK' /\ BodySoFar' /\ ResponsesAreWhole' /\ HopsAreSent' /\ NextIsChecked'
      BY <2>1 DEF IInv, TypeOK, BodySoFar, ResponsesAreWhole, HopsAreSent, NextIsChecked
    <2>3. CarriedByAll' /\ WhatIsCarried'
      BY <2>1 DEF IInv, CarriedByAll, WhatIsCarried, CredentialsStayHome, BodiesAreNotRevived
    <2>4. WhereItGoes'
      BY <2>1 DEF IInv, WhereItGoes, PinnedToThisHop, NoSideEffects, StaysSecure, HopsAreBounded
    <2> QED BY <2>2, <2>3, <2>4 DEF IInv
  <1> QED BY <1>1, <1>2

LEMMA IInvHolds == Spec => []IInv
PROOF
  BY InitIInv, NextIInv, PTL DEF Spec

\* Every variable keeps its type; a hop that is resolved, connected or sent has
\* a URL that the policy accepted.
THEOREM TypeCorrect == Spec => []TypeOK
PROOF
  <1>1. IInv => TypeOK
    BY DEF IInv
  <1> QED BY <1>1, IInvHolds, PTL

\* Over chains of any length, credentials and bodies travel only as far as the
\* caller sent them, and do not come back.
THEOREM CarriedTheorem == Spec => []WhatIsCarried
PROOF
  <1>1. IInv => WhatIsCarried
    BY DEF IInv
  <1> QED BY <1>1, IInvHolds, PTL

\* Whatever resolver and servers answer, each hop goes to an address checked
\* for it, no hop leads past the URL policy, and the hops are bounded.
THEOREM WhereTheorem == Spec => []WhereItGoes
PROOF
  <1>1. IInv => WhereItGoes
    BY DEF IInv
  <1> QED BY <1>1, IInvHolds, PTL

\* For every limit, chunk size and body, what is returned is all that was sent.
THEOREM WholeTheorem == Spec => []ResponsesAreWhole
PROOF
  <1>1. IInv => ResponsesAreWhole
    BY DEF IInv
  <1> QED BY <1>1, IInvHolds, PTL
================================================================================
