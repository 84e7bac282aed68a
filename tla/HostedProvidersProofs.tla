------------------------- MODULE HostedProvidersProofs -------------------------
(***************************************************************************)
(* What run_task of either provider leaves at the vendor and tells its     *)
(* caller, for any limits, any duration and any number of steps of the     *)
(* remote session, whatever the vendor answers or does not answer.         *)
(***************************************************************************)
EXTENDS HostedProviders, TLAPS

--------------------------------------------------------------------------------
(* Sessions and answers. *)

LEMMA SmallerOfTwo ==
  ASSUME NEW a \in Nat, NEW b \in Nat
  PROVE  Min({a, b}) \in {a, b} /\ Min({a, b}) <= a /\ Min({a, b}) <= b
PROOF
  <1>1. \E x \in {a, b} : \A y \in {a, b} : x =< y
    <2>1. CASE a <= b
      BY <2>1
    <2>2. CASE b <= a
      BY <2>2
    <2> QED BY <2>1, <2>2
  <1>2. PICK m : m = Min({a, b})
    OBVIOUS
  <1>3. m \in {a, b} /\ \A y \in {a, b} : m =< y
    BY <1>1, <1>2 DEF Min
  <1> QED BY <1>2, <1>3

LEMMA EmptySaysNothing ==
  /\ Empty.status \notin Terminal /\ Empty.steps = Unknown /\ Empty.cost = Unknown
  /\ Empty.output = FALSE
PROOF
  BY ProvidersAssumption DEF Empty

\* An answer is an excerpt of the session.
LEMMA AnswerIsExcerpt ==
  ASSUME NEW session \in Remote, session.status # "absent", NEW a \in Answers(session)
  PROVE  /\ a \in Data
         /\ a.status \in {Unknown, session.status}
         /\ a.steps \in {Unknown, session.steps}
         /\ a.cost \in {Unknown, session.cost}
         /\ a.output => session.output
PROOF
  <1> DEFINE all == [status |-> session.status, steps |-> session.steps,
                     cost |-> session.cost, output |-> session.output]
  <1>1. /\ session.status \in {"running"} \cup Terminal /\ session.steps \in 0..MaxRemoteSteps
        /\ session.cost \in 0..MaxCost /\ session.output \in BOOLEAN
    BY DEF Remote
  <1>2. a \in {all, [all EXCEPT !.status = Unknown], [all EXCEPT !.steps = Unknown],
              [all EXCEPT !.cost = Unknown], Empty}
    BY DEF Answers
  <1>3. CASE a = all
    BY <1>1, <1>3 DEF Data
  <1>4. CASE a = [all EXCEPT !.steps = Unknown]
    BY <1>1, <1>4 DEF Data
  <1>5. CASE a = [all EXCEPT !.cost = Unknown]
    BY <1>1, <1>5 DEF Data
  <1>6. CASE a = Empty
    BY <1>6 DEF Data, Empty
  <1>7. CASE a = [all EXCEPT !.status = Unknown]
    BY <1>1, <1>7 DEF Data
  <1> QED BY <1>2, <1>3, <1>4, <1>5, <1>6, <1>7

LEMMA CancelledType ==
  ASSUME remote \in Remote
  PROVE  /\ Cancelled \in Remote /\ Cancelled.status # "running"
         /\ Cancelled.steps = remote.steps /\ Cancelled.cost = remote.cost
         /\ Cancelled.output = remote.output
         /\ remote.status # "running" => Cancelled = remote
         /\ remote.status = "running" => Cancelled.status = "stopped"
PROOF
  BY DEF Remote, Cancelled, Terminal

--------------------------------------------------------------------------------
(* The invariant. *)

LEMMA InitIInv == Init => IInv
PROOF
  <1> SUFFICES ASSUME Init PROVE IInv
    OBVIOUS
  <1>1. remote.status = "absent" /\ ~ remote.output /\ ~ remote.cancelled
        /\ latest.status = Unknown /\ latest.steps = Unknown
        /\ latest.cost = Unknown /\ ~ latest.output
        /\ result.status = "none" /\ result.cost = Unknown
    BY DEF Init, Empty
  <1>2. TypeOK
    <2>1. remote \in Remote /\ latest \in Data /\ result \in Result
      BY ProvidersAssumption DEF Init, Remote, Data, Result, Empty
    <2>2. /\ provider \in {"cloud", "browserbase"} /\ pc = "creating" /\ pending = "none"
          /\ left = Duration /\ nap = 0 /\ stops = 0 /\ late = 0
          /\ known = FALSE /\ unheard = FALSE
      BY DEF Init
    <2>3. left \in 0..Duration
      BY <2>2, ProvidersAssumption
    <2>4. nap \in 0..1 /\ stops \in 0..2 /\ late \in 0..2
      <3>1. nap = 0 /\ stops = 0 /\ late = 0
        BY <2>2
      <3> QED BY <3>1
    <2>5. pc \in {"creating", "looping", "napping", "sleeping", "polling", "stopping",
                  "executing", "ending"} \cup Over
      BY <2>2
    <2>6. pending \in {"none", "ok", "interrupted"} \cup Errors
      BY <2>2
    <2>7. known \in BOOLEAN /\ unheard \in BOOLEAN
      BY <2>2, Zenon
    <2> QED BY <2>1, <2>2, <2>3, <2>4, <2>5, <2>6, <2>7, Zenon DEF TypeOK
  <1>3. SessionsAreStopped
    BY <1>2 DEF Init, SessionsAreStopped, NothingIsLeftRunning, StoppedOnce, OneLatePoll
  <1>4. AnswersAreTheVendors
    BY <1>1 DEF AnswersAreTheVendors, SuccessIsTheVendors, CostsAreReached
  <1>5. PlacesAreRight /\ PendingIsEarned /\ LatePollIsLast
    BY <1>1 DEF Init, PlacesAreRight, PendingIsEarned, LatePollIsLast, Over
  <1>6. LatestIsReached
    BY <1>1, ProvidersAssumption DEF LatestIsReached
  <1> QED BY <1>3, <1>4, <1>5, <1>6 DEF IInv

\* The fields of the records.
LEMMA FieldTypes ==
  ASSUME TypeOK
  PROVE  /\ remote.status \in {"absent", "running"} \cup Terminal
         /\ remote.steps \in Nat /\ remote.cost \in Nat /\ remote.cost \in 0..MaxCost
         /\ remote.output \in BOOLEAN /\ remote.cancelled \in BOOLEAN
         /\ latest.steps \in Nat \cup {Unknown}
         /\ latest.cost \in 0..MaxCost \cup {Unknown} /\ latest.output \in BOOLEAN
         /\ result.cost \in Nat \cup {Unknown}
         /\ late \in Nat /\ left \in Nat
PROOF
  <1>1. remote \in Remote /\ latest \in Data /\ result \in Result
    BY DEF TypeOK
  <1>2. late \in Nat /\ left \in Nat
    BY ProvidersAssumption DEF TypeOK
  <1> QED BY <1>1, <1>2, ProvidersAssumption DEF Remote, Data, Result

\* The vendor's steps: what has ended stays as it is, the rest only grows.
LEMMA VendorFacts ==
  ASSUME TypeOK, RemoteWorks \/ RemoteEnds
  PROVE  /\ remote.status = "running" /\ remote' \in Remote
         /\ remote'.status \in {"running"} \cup Terminal
         /\ remote'.cancelled = remote.cancelled
         /\ remote.steps <= remote'.steps /\ remote.cost <= remote'.cost
         /\ remote.output => remote'.output
         /\ UNCHANGED <<provider, pc, latest, left, nap, known, pending, result,
                        stops, unheard, late>>
PROOF
  <1>1. /\ remote \in Remote /\ remote.steps \in Nat /\ remote.cost \in 0..MaxCost
        /\ remote.output \in BOOLEAN
    BY FieldTypes DEF TypeOK
  <1>2. CASE RemoteWorks
    <2>1. PICK c \in {remote.cost, Min({remote.cost + 1, MaxCost})},
               out \in {remote.output, TRUE} :
             remote' = [remote EXCEPT !.steps = @ + 1, !.cost = c, !.output = out]
      BY <1>2 DEF RemoteWorks
    <2>2. c \in 0..MaxCost /\ remote.cost <= c
      <3>1. remote.cost + 1 \in Nat /\ MaxCost \in Nat
        BY <1>1, ProvidersAssumption
      <3>2. PICK m : m = Min({remote.cost + 1, MaxCost})
        OBVIOUS
      <3>3. m \in {remote.cost + 1, MaxCost} /\ m <= remote.cost + 1 /\ m <= MaxCost
        BY <3>1, <3>2, SmallerOfTwo
      <3>4. c \in {remote.cost, m}
        BY <2>1, <3>2
      <3> QED BY <1>1, <3>1, <3>3, <3>4
    <2>3. remote.status = "running" /\ remote.steps + 1 \in 0..MaxRemoteSteps
      BY <1>1, <1>2, ProvidersAssumption DEF RemoteWorks
    <2>4. out \in BOOLEAN /\ (remote.output => out)
      BY <1>1, <2>1
    <2>5. remote' \in Remote
      BY <1>1, <2>1, <2>2, <2>3, <2>4 DEF Remote
    <2>6. /\ remote'.status = "running" /\ remote'.cancelled = remote.cancelled
          /\ remote'.steps = remote.steps + 1 /\ remote'.cost = c /\ remote'.output = out
      BY <1>1, <2>1, <2>3 DEF Remote
    <2> QED BY <1>1, <1>2, <2>2, <2>3, <2>4, <2>5, <2>6 DEF RemoteWorks, timing, history
  <1>3. CASE RemoteEnds
    <2>1. PICK status \in Terminal : remote' = [remote EXCEPT !.status = status]
      BY <1>3 DEF RemoteEnds
    <2>2. remote' \in Remote
      BY <1>1, <2>1 DEF Remote
    <2>3. /\ remote'.status = status /\ remote'.cancelled = remote.cancelled
          /\ remote'.steps = remote.steps /\ remote'.cost = remote.cost
          /\ remote'.output = remote.output
      BY <1>1, <2>1 DEF Remote
    <2> QED BY <1>1, <1>3, <2>2, <2>3 DEF RemoteEnds, timing, history
  <1> QED BY <1>2, <1>3

LEMMA VendorKeepsIInv ==
  ASSUME IInv, RemoteWorks \/ RemoteEnds
  PROVE  IInv'
PROOF
  <1>1. /\ TypeOK /\ NothingIsLeftRunning /\ StoppedOnce /\ OneLatePoll
        /\ SuccessIsTheVendors /\ CostsAreReached
        /\ PlacesAreRight /\ LatestIsReached /\ PendingIsEarned /\ LatePollIsLast
    BY DEF IInv, SessionsAreStopped, AnswersAreTheVendors
  <1>2. /\ remote.status = "running" /\ remote' \in Remote
        /\ remote'.status \in {"running"} \cup Terminal
        /\ remote'.cancelled = remote.cancelled
        /\ remote.steps <= remote'.steps /\ remote.cost <= remote'.cost
        /\ remote.output => remote'.output
        /\ UNCHANGED <<provider, pc, latest, left, nap, known, pending, result,
                       stops, unheard, late>>
    BY <1>1, VendorFacts
  <1>3. /\ remote.steps \in Nat /\ remote.cost \in Nat
        /\ remote'.steps \in Nat /\ remote'.cost \in Nat
        /\ latest.steps \in Nat \cup {Unknown} /\ latest.cost \in Nat \cup {Unknown}
        /\ result.cost \in Nat \cup {Unknown}
    BY <1>1, <1>2, FieldTypes, ProvidersAssumption DEF Remote
  <1>4. TypeOK'
    BY <1>1, <1>2 DEF TypeOK
  <1>5. SessionsAreStopped'
    BY <1>1, <1>2, <1>4 DEF SessionsAreStopped, NothingIsLeftRunning, StoppedOnce,
       OneLatePoll
  <1>6. SuccessIsTheVendors'
    BY <1>1, <1>2 DEF SuccessIsTheVendors, PlacesAreRight
  <1>7. CostsAreReached'
    BY <1>1, <1>2, <1>3 DEF CostsAreReached, SuccessIsTheVendors
  <1>8. PlacesAreRight' /\ PendingIsEarned' /\ LatePollIsLast'
    BY <1>1, <1>2 DEF PlacesAreRight, PendingIsEarned, LatePollIsLast, Terminal
  <1>9. LatestIsReached'
    BY <1>1, <1>2, <1>3 DEF LatestIsReached, Terminal
  <1> QED BY <1>5, <1>6, <1>7, <1>8, <1>9 DEF IInv, AnswersAreTheVendors

\* The steps between two requests.
LEMMA LoopKeepsIInv ==
  ASSUME IInv, Finish \/ Limit \/ GoOn \/ Sleep \/ Wake \/ Tick
  PROVE  IInv'
PROOF
  <1>1. /\ TypeOK /\ NothingIsLeftRunning /\ StoppedOnce /\ OneLatePoll
        /\ SuccessIsTheVendors /\ CostsAreReached
        /\ PlacesAreRight /\ LatestIsReached /\ PendingIsEarned /\ LatePollIsLast
    BY DEF IInv, SessionsAreStopped, AnswersAreTheVendors
  <1>2. /\ remote.steps \in Nat /\ remote.cost \in Nat /\ remote.output \in BOOLEAN
        /\ latest.steps \in Nat \cup {Unknown} /\ latest.cost \in 0..MaxCost \cup {Unknown}
        /\ late \in Nat /\ left \in Nat
    BY <1>1, FieldTypes
  <1> USE DEF Go, timing, history
  <1>3. CASE Finish
    <2>1. /\ pc = "looping" /\ pc' = "returned" /\ latest.status \in Terminal
          /\ result' = [status |-> Verdict, cost |-> latest.cost]
          /\ UNCHANGED <<provider, remote, latest, left, nap, known, pending,
                         stops, unheard, late>>
      BY <1>3 DEF Finish, Returns
    <2>2. /\ result'.status = Verdict /\ result'.cost = latest.cost
          /\ Verdict \in {"ok", "provider_unavailable"} /\ provider = "cloud"
          /\ remote.status = latest.status /\ stops = 0 /\ ~ remote.cancelled
      BY <1>1, <2>1 DEF Verdict, PlacesAreRight, LatestIsReached, Over, TypeOK
    <2>3. TypeOK'
      <3>1. result' \in Result
        BY <1>2, <2>1, <2>2 DEF Result, Errors
      <3> QED BY <1>1, <2>1, <3>1 DEF TypeOK, Over
    <2>4. SessionsAreStopped'
      BY <1>1, <2>1, <2>2, <2>3 DEF SessionsAreStopped, NothingIsLeftRunning, StoppedOnce,
         OneLatePoll, Terminal
    <2>5. SuccessIsTheVendors'
      <3>1. Verdict = "ok" => /\ latest.steps # Unknown => latest.steps <= StepLimit
                              /\ latest.status = "stopped" /\ latest.output
        BY DEF Verdict
      <3> QED BY <1>1, <2>1, <2>2, <3>1 DEF SuccessIsTheVendors, LatestIsReached
    <2>6. CostsAreReached'
      BY <1>1, <1>2, <2>1, <2>2 DEF CostsAreReached, LatestIsReached
    <2>7. PlacesAreRight' /\ LatestIsReached' /\ PendingIsEarned' /\ LatePollIsLast'
      BY <1>1, <2>1, <2>2 DEF PlacesAreRight, LatestIsReached, PendingIsEarned,
         LatePollIsLast, Over
    <2> QED BY <2>4, <2>5, <2>6, <2>7 DEF IInv, AnswersAreTheVendors
  <1>4. CASE Limit \/ GoOn \/ Sleep \/ Wake \/ Tick
    <2>1. UNCHANGED <<provider, remote, latest, known, result, stops, unheard, late>>
      BY <1>4 DEF Limit, GoOn, Sleep, Wake, Tick
    <2>2. /\ pc' \in {"looping", "napping", "sleeping", "polling", "stopping"}
          /\ provider = "cloud" /\ pc \notin Over \cup {"creating"}
          /\ pc' = "stopping" => pc = "stopping" \/ pending' = "provider_unavailable"
          /\ late > 0 => pc' \in {"looping", "stopping"}
          /\ pending' = pending \/ pending' = "provider_unavailable"
      <3>1. provider = "cloud" /\ pc \notin Over \cup {"creating"}
        <4>1. provider \in {"cloud", "browserbase"}
          BY <1>1 DEF TypeOK
        <4> QED BY <1>1, <1>4, <4>1 DEF Limit, GoOn, Sleep, Wake, Tick, PlacesAreRight, Over
      <3>2. late > 0 => left = 0 /\ pc \in {"looping", "stopping"}
        BY <1>1, <3>1 DEF LatePollIsLast
      <3>3. CASE Limit
        BY <3>1, <3>3 DEF Limit
      <3>4. CASE GoOn
        BY <3>1, <3>2, <3>4 DEF GoOn, OutOfBounds
      <3>5. CASE Sleep \/ Wake
        BY <3>1, <3>2, <3>5 DEF Sleep, Wake
      <3>6. CASE Tick
        <4>1. pc' = pc /\ pending' = pending
          BY <3>6 DEF Tick
        <4>2. pc \in {"looping", "napping", "sleeping", "polling", "stopping"}
          BY <1>1, <3>1 DEF TypeOK, PlacesAreRight
        <4> QED BY <3>1, <3>2, <4>1, <4>2
      <3> QED BY <1>4, <3>3, <3>4, <3>5, <3>6
    <2>3. left' \in 0..Duration /\ nap' \in 0..1 /\ (late > 0 => left' = 0)
      <3>1. left \in 0..Duration /\ nap \in 0..1 /\ Duration \in Nat
            /\ (late > 0 => left = 0)
        BY <1>1, ProvidersAssumption DEF TypeOK, LatePollIsLast
      <3>2. CASE Limit \/ GoOn \/ Wake
        BY <3>1, <3>2 DEF Limit, GoOn, Wake
      <3>3. CASE Sleep
        <4>1. PICK m : m = Min({1, left})
          OBVIOUS
        <4>2. m \in {1, left} /\ m <= 1 /\ m <= left
          BY <1>2, <4>1, SmallerOfTwo
        <4>3. nap' = m /\ left' = left
          BY <3>3, <4>1 DEF Sleep
        <4> QED BY <1>2, <3>1, <4>2, <4>3
      <3>4. CASE Tick
        BY <3>1, <3>4 DEF Tick
      <3> QED BY <1>4, <3>2, <3>3, <3>4
    <2>4. TypeOK'
      BY <1>1, <2>1, <2>2, <2>3 DEF TypeOK, Errors
    <2>5. SessionsAreStopped'
      BY <1>1, <2>1, <2>2, <2>4 DEF SessionsAreStopped, NothingIsLeftRunning, StoppedOnce,
         OneLatePoll
    <2>6. AnswersAreTheVendors'
      BY <1>1, <2>1 DEF AnswersAreTheVendors, SuccessIsTheVendors, CostsAreReached
    <2>7. PlacesAreRight'
      BY <1>1, <2>1, <2>2 DEF PlacesAreRight, Over
    <2>8. LatestIsReached' /\ LatePollIsLast'
      BY <1>1, <2>1, <2>2, <2>3 DEF LatestIsReached, LatePollIsLast
    <2>9. PendingIsEarned'
      BY <1>1, <2>1, <2>2 DEF PendingIsEarned, Errors
    <2> QED BY <2>5, <2>6, <2>7, <2>8, <2>9 DEF IInv
  <1> QED BY <1>3, <1>4

\* The session is created, or is not.
LEMMA CreationKeepsIInv ==
  ASSUME IInv, CreateFails \/ Created
  PROVE  IInv'
PROOF
  <1>1. /\ TypeOK /\ NothingIsLeftRunning /\ StoppedOnce /\ OneLatePoll
        /\ SuccessIsTheVendors /\ CostsAreReached
        /\ PlacesAreRight /\ LatestIsReached /\ PendingIsEarned /\ LatePollIsLast
    BY DEF IInv, SessionsAreStopped, AnswersAreTheVendors
  <1>2. /\ remote.steps \in Nat /\ remote.cost \in Nat /\ remote.output \in BOOLEAN
        /\ latest.steps \in Nat \cup {Unknown} /\ latest.cost \in 0..MaxCost \cup {Unknown}
        /\ latest.output \in BOOLEAN
    BY <1>1, FieldTypes
  <1>3. /\ pc = "creating" /\ ~ known /\ remote.status = "absent" /\ ~ remote.cancelled
        /\ result.status = "none" /\ result.cost = Unknown /\ stops = 0 /\ late = 0
        /\ latest = Empty
    <2>1. pc = "creating"
      BY DEF CreateFails, Created, Go
    <2>2. late = 0
      BY <1>1, <2>1 DEF TypeOK, LatePollIsLast, Over
    <2> QED BY <1>1, <2>1, <2>2 DEF PlacesAreRight, LatestIsReached, Over, Terminal, TypeOK
  <1>4. \A r \in Opened : r \in Remote /\ r.status # "absent" /\ ~ r.cancelled
    BY DEF Opened
  <1>5. CASE CreateFails
    <2>1. PICK e \in Errors :
          /\ pc' = "returned" /\ result' = [status |-> e, cost |-> Unknown]
          /\ remote' \in {remote} \cup Opened
          /\ UNCHANGED <<provider, latest, left, nap, known, pending, stops, unheard, late>>
      BY <1>5 DEF CreateFails, Go, Returns, HttpErrors, Errors, timing, history
    <2>2. result' \in Result /\ result'.status = e /\ result'.cost = Unknown /\ e # "ok"
      BY <2>1 DEF Result, Errors
    <2>3. remote' \in Remote /\ ~ remote'.cancelled
      BY <1>1, <1>3, <1>4, <2>1 DEF TypeOK
    <2>4. TypeOK'
      BY <1>1, <2>1, <2>2, <2>3 DEF TypeOK, Over
    <2>5. SessionsAreStopped'
      BY <1>1, <1>3, <2>1, <2>4 DEF SessionsAreStopped, NothingIsLeftRunning, StoppedOnce,
         OneLatePoll
    <2>6. AnswersAreTheVendors'
      BY <2>2 DEF AnswersAreTheVendors, SuccessIsTheVendors, CostsAreReached
    <2>7. PlacesAreRight' /\ PendingIsEarned' /\ LatePollIsLast'
      BY <1>1, <1>3, <2>1, <2>3 DEF PlacesAreRight, PendingIsEarned, LatePollIsLast, Over
    <2>8. LatestIsReached'
      BY <1>3, <2>1, EmptySaysNothing DEF LatestIsReached
    <2> QED BY <2>5, <2>6, <2>7, <2>8 DEF IInv
  <1>6. CASE Created
    <2>1. /\ pc' = IF provider = "cloud" THEN "looping" ELSE "executing"
          /\ remote' \in Opened /\ known' = TRUE
          /\ provider = "cloud" => latest' \in Answers(remote')
          /\ provider # "cloud" => latest' = latest
          /\ UNCHANGED <<provider, left, nap, pending, result, stops, unheard, late>>
      BY <1>6 DEF Created, Go, timing, history
    <2>2. latest' \in Data /\ LatestIsReached'
      <3>1. CASE provider = "cloud"
        <4>1. PICK r \in Remote : remote' = r /\ r.status # "absent" /\ latest' \in Answers(r)
          BY <1>4, <2>1, <3>1
        <4>2. PICK a \in Answers(r) : latest' = a
          BY <4>1
        <4>3. /\ a \in Data /\ a.status \in {Unknown, r.status}
              /\ a.steps \in {Unknown, r.steps} /\ a.cost \in {Unknown, r.cost}
              /\ a.output => r.output
          BY <4>1, AnswerIsExcerpt
        <4>4. r.steps \in Nat /\ r.cost \in Nat
          BY ProvidersAssumption DEF Remote
        <4> QED BY <4>1, <4>2, <4>3, <4>4, ProvidersAssumption DEF LatestIsReached
      <3>2. CASE provider # "cloud"
        BY <1>1, <1>3, <2>1, <3>2, EmptySaysNothing DEF LatestIsReached, TypeOK
      <3> QED BY <3>1, <3>2
    <2>3. TypeOK'
      BY <1>1, <1>4, <2>1, <2>2 DEF TypeOK
    <2>4. SessionsAreStopped'
      BY <1>1, <1>3, <2>1, <2>3 DEF SessionsAreStopped, NothingIsLeftRunning, StoppedOnce,
         OneLatePoll
    <2>5. AnswersAreTheVendors'
      BY <1>3, <2>1 DEF AnswersAreTheVendors, SuccessIsTheVendors, CostsAreReached
    <2>6. PlacesAreRight' /\ PendingIsEarned' /\ LatePollIsLast'
      BY <1>1, <1>3, <1>4, <2>1 DEF PlacesAreRight, PendingIsEarned, LatePollIsLast, Over,
         TypeOK
    <2> QED BY <2>2, <2>4, <2>5, <2>6 DEF IInv
  <1> QED BY <1>5, <1>6

\* A poll that is answered, or is not.
LEMMA PollKeepsIInv ==
  ASSUME IInv, Poll \/ PollFails
  PROVE  IInv'
PROOF
  <1>1. /\ TypeOK /\ NothingIsLeftRunning /\ StoppedOnce /\ OneLatePoll
        /\ SuccessIsTheVendors /\ CostsAreReached
        /\ PlacesAreRight /\ LatestIsReached /\ PendingIsEarned /\ LatePollIsLast
    BY DEF IInv, SessionsAreStopped, AnswersAreTheVendors
  <1>2. /\ pc = "polling" /\ late = 0 /\ provider = "cloud" /\ stops = 0
        /\ remote.status # "absent" /\ result.status = "none" /\ result.cost = Unknown
        /\ ~ remote.cancelled
    <2>1. pc = "polling" /\ provider \in {"cloud", "browserbase"} /\ late \in 0..2
      BY <1>1 DEF Poll, PollFails, Go, TypeOK
    <2> QED BY <1>1, <2>1 DEF PlacesAreRight, LatePollIsLast, Over
  <1>3. /\ late' \in {0, 1} /\ (late' > 0 => left = 0)
        /\ pc' \in {"looping", "stopping"}
        /\ UNCHANGED <<provider, remote, left, nap, known, result, stops, unheard>>
    BY <1>2 DEF Poll, PollFails, CountsLate, Go, timing
  <1>4. latest' \in Data /\ LatestIsReached'
    <2>1. CASE Poll
      <3>1. PICK a \in Answers(remote) : latest' = a
        BY <2>1 DEF Poll
      <3>2. /\ a \in Data /\ a.status \in {Unknown, remote.status}
            /\ a.steps \in {Unknown, remote.steps} /\ a.cost \in {Unknown, remote.cost}
            /\ a.output => remote.output
        BY <1>1, <1>2, <3>1, AnswerIsExcerpt DEF TypeOK
      <3>3. a.status \in Terminal => a.status = remote.status
        BY <3>2, ProvidersAssumption
      <3>4. remote.steps \in Nat /\ remote.cost \in Nat
        BY <1>1, FieldTypes
      <3> QED BY <1>3, <3>1, <3>2, <3>3, <3>4 DEF LatestIsReached
    <2>2. CASE PollFails
      BY <1>1, <1>3, <2>2 DEF PollFails, LatestIsReached, TypeOK
    <2> QED BY <2>1, <2>2
  <1>5. pending' \in {pending} \cup Errors /\ (pc' = "stopping" => pending' \in Errors)
    BY <1>2 DEF Poll, PollFails, Go, HttpErrors
  <1>6. TypeOK'
    BY <1>1, <1>3, <1>4, <1>5 DEF TypeOK
  <1>7. SessionsAreStopped'
    BY <1>3, <1>6 DEF SessionsAreStopped, NothingIsLeftRunning, StoppedOnce, OneLatePoll
  <1>8. AnswersAreTheVendors'
    BY <1>2, <1>3 DEF AnswersAreTheVendors, SuccessIsTheVendors, CostsAreReached
  <1>9. PlacesAreRight' /\ PendingIsEarned' /\ LatePollIsLast'
    BY <1>2, <1>3, <1>5 DEF PlacesAreRight, PendingIsEarned, LatePollIsLast, Over
  <1> QED BY <1>4, <1>7, <1>8, <1>9 DEF IInv

\* The session is stopped or ended, or the request to do so is lost.
LEMMA StopKeepsIInv ==
  ASSUME IInv, StopHeard \/ StopUnheard \/ End
  PROVE  IInv'
PROOF
  <1>1. /\ TypeOK /\ NothingIsLeftRunning /\ StoppedOnce /\ OneLatePoll
        /\ SuccessIsTheVendors /\ CostsAreReached
        /\ PlacesAreRight /\ LatestIsReached /\ PendingIsEarned /\ LatePollIsLast
    BY DEF IInv, SessionsAreStopped, AnswersAreTheVendors
  <1>2. /\ pc \in {"stopping", "ending"} /\ stops = 0 /\ ~ remote.cancelled
        /\ result.status = "none" /\ result.cost = Unknown
        /\ provider = "cloud" <=> pc = "stopping"
        /\ pending \in Errors \/ pc = "ending"
        /\ pending = "ok" => remote.output
        /\ pending \in {"ok", "interrupted"} \cup Errors
    <2>1. /\ pc \in {"stopping", "ending"} /\ provider \in {"cloud", "browserbase"}
          /\ pending \in {"none", "ok", "interrupted"} \cup Errors
      BY <1>1 DEF StopHeard, StopUnheard, End, Go, TypeOK
    <2> QED BY <1>1, <2>1 DEF PlacesAreRight, PendingIsEarned, Over, Errors
  <1>3. /\ remote.steps \in Nat /\ remote.cost \in Nat
        /\ latest.steps \in Nat \cup {Unknown} /\ latest.cost \in 0..MaxCost \cup {Unknown}
        /\ latest.output \in BOOLEAN
    BY <1>1, FieldTypes
  <1>4. /\ Cancelled \in Remote /\ Cancelled.status # "running"
        /\ Cancelled.steps = remote.steps /\ Cancelled.cost = remote.cost
        /\ Cancelled.output = remote.output
        /\ remote.status # "running" => Cancelled = remote
        /\ remote.status = "running" => Cancelled.status = "stopped"
    BY <1>1, CancelledType DEF TypeOK
  <1>5. /\ stops' = 1 /\ remote' \in {remote, Cancelled}
        /\ remote' = Cancelled \/ unheard' = TRUE
        /\ unheard' = TRUE \/ unheard' = unheard
        /\ UNCHANGED <<provider, left, nap, known, pending, late>>
    BY <1>2 DEF StopHeard, StopUnheard, End, CountsStop, timing
  <1>6. latest' \in Data /\ LatestIsReached'
    <2>1. latest' = latest => LatestIsReached' /\ latest' \in Data
      BY <1>1, <1>3, <1>4, <1>5 DEF LatestIsReached, Terminal, TypeOK
    <2>2. CASE latest' # latest
      <3>1. StopHeard
        BY <2>2 DEF StopUnheard, End
      <3>2. remote.status # "absent" /\ Cancelled.status # "absent"
        BY <1>1, <1>2, <1>4 DEF PlacesAreRight, Over
      <3>3. PICK a \in Answers(Cancelled) : latest' = a
        BY <2>2, <3>1 DEF StopHeard
      <3>4. /\ a \in Data /\ a.status \in {Unknown, Cancelled.status}
            /\ a.steps \in {Unknown, Cancelled.steps} /\ a.cost \in {Unknown, Cancelled.cost}
            /\ a.output => Cancelled.output
        BY <1>4, <3>2, <3>3, AnswerIsExcerpt
      <3>5. remote' = Cancelled
        BY <3>1 DEF StopHeard
      <3>6. a.status \in Terminal => a.status = Cancelled.status
        BY <3>4, ProvidersAssumption
      <3> QED BY <1>3, <1>4, <3>3, <3>4, <3>5, <3>6 DEF LatestIsReached
    <2> QED BY <2>1, <2>2
  <1>7. /\ pc' = "returned" \/ (pc' = "interrupted" /\ provider = "browserbase")
        /\ \/ result' = result
           \/ provider = "cloud" /\ result' = [status |-> pending, cost |-> latest'.cost]
           \/ provider = "browserbase" /\ result' = [status |-> pending, cost |-> Unknown]
        /\ pc' # "returned" => result' = result
        /\ result' # result => pending # "interrupted"
        /\ result' # result /\ provider = "cloud" => pending \in Errors
    <2>1. CASE StopHeard \/ StopUnheard
      <3>1. /\ pc = "stopping" /\ pc' = "returned"
            /\ result' = [status |-> pending, cost |-> latest'.cost]
        BY <2>1 DEF StopHeard, StopUnheard, Go, Returns
      <3>2. provider = "cloud"
        BY <1>2, <3>1
      <3> QED BY <1>2, <3>1, <3>2 DEF Errors
    <2>2. CASE End
      <3>1. /\ pc = "ending"
            /\ pc' = IF pending = "interrupted" THEN "interrupted" ELSE "returned"
            /\ IF pending = "interrupted" THEN result' = result
               ELSE result' = [status |-> pending, cost |-> Unknown]
        BY <2>2 DEF End, Go, Returns
      <3>2. provider = "browserbase"
        BY <1>1, <1>2, <3>1 DEF TypeOK
      <3> QED BY <3>1, <3>2
    <2> QED BY <2>1, <2>2
  <1>8. /\ result' \in Result
        /\ result'.status = "ok" => remote.output /\ provider = "browserbase"
        /\ result'.cost # Unknown => provider = "cloud" /\ result'.cost = latest'.cost
    <2>1. latest'.cost \in 0..MaxCost \cup {Unknown}
      BY <1>6 DEF Data
    <2>2. CASE result' = result
      BY <1>1, <1>2, <2>2 DEF TypeOK
    <2>3. CASE result' # result
      <3>1. PICK c \in 0..MaxCost \cup {Unknown} :
            /\ result' = [status |-> pending, cost |-> c]
            /\ c # Unknown => provider = "cloud" /\ c = latest'.cost
        BY <1>7, <2>1, <2>3
      <3>2. pending \in {"ok"} \cup Errors /\ (pending = "ok" => provider = "browserbase")
        <4>1. provider \in {"cloud", "browserbase"}
          BY <1>1 DEF TypeOK
        <4> QED BY <1>2, <1>7, <2>3, <4>1 DEF Errors
      <3> QED BY <1>2, <3>1, <3>2 DEF Result
    <2> QED BY <2>2, <2>3
  <1>9. TypeOK'
    <2>1. remote' \in Remote /\ stops' \in 0..2
      BY <1>1, <1>4, <1>5 DEF TypeOK
    <2>2. unheard' \in BOOLEAN
      <3>1. unheard \in BOOLEAN
        BY <1>1 DEF TypeOK
      <3> QED BY <1>5, <3>1, Zenon
    <2> QED BY <1>1, <1>5, <1>6, <1>7, <1>8, <2>1, <2>2 DEF TypeOK, Over
  <1>10. SessionsAreStopped'
    BY <1>1, <1>4, <1>5, <1>7, <1>9 DEF SessionsAreStopped, NothingIsLeftRunning, StoppedOnce,
       OneLatePoll
  <1>11. AnswersAreTheVendors'
    BY <1>3, <1>4, <1>5, <1>6, <1>8 DEF AnswersAreTheVendors, SuccessIsTheVendors,
       CostsAreReached, LatestIsReached
  <1>12. PlacesAreRight' /\ PendingIsEarned' /\ LatePollIsLast'
    BY <1>1, <1>2, <1>4, <1>5, <1>7 DEF PlacesAreRight, PendingIsEarned, LatePollIsLast, Over
  <1> QED BY <1>6, <1>10, <1>11, <1>12 DEF IInv

\* The task of Browserbase, interruptions and death.
LEMMA ExecutionKeepsIInv ==
  ASSUME IInv, Execute \/ ExecuteRaises \/ Interrupted \/ Die
  PROVE  IInv'
PROOF
  <1>1. /\ TypeOK /\ NothingIsLeftRunning /\ StoppedOnce /\ OneLatePoll
        /\ SuccessIsTheVendors /\ CostsAreReached
        /\ PlacesAreRight /\ LatestIsReached /\ PendingIsEarned /\ LatePollIsLast
    BY DEF IInv, SessionsAreStopped, AnswersAreTheVendors
  <1> USE DEF Go, timing, history
  <1>2. /\ UNCHANGED <<provider, remote, latest, left, nap, known, result, stops, late>>
        /\ unheard' = TRUE \/ unheard' = unheard
    BY DEF Execute, ExecuteRaises, Interrupted, Interrupt, Die
  <1>3. pc \notin Over /\ pc' \in {"ending", "interrupted", "died"}
        /\ (pc' = "ending" => pc = "executing")
        /\ (pc' = "interrupted" /\ provider = "browserbase" => unheard' = TRUE \/ ~ known)
    <2>1. CASE Execute \/ ExecuteRaises
      BY <2>1 DEF Execute, ExecuteRaises, Over
    <2>2. CASE Die
      BY <2>2 DEF Die
    <2>3. CASE Interrupted
      BY <1>1, <2>3 DEF Interrupted, Interrupt, PlacesAreRight, Over
    <2> QED BY <2>1, <2>2, <2>3
  <1>4. /\ pending' \in {"none", "ok", "interrupted"} \cup Errors
        /\ pc' = "ending" => pending' # "none" /\ (pending' = "ok" => remote.output)
    <2>1. CASE Execute
      BY <2>1 DEF Execute, Errors
    <2>2. CASE ExecuteRaises
      BY <2>2 DEF ExecuteRaises, HttpErrors, Errors
    <2>3. CASE Interrupted
      BY <1>1, <2>3 DEF Interrupted, Interrupt, TypeOK
    <2>4. CASE Die
      BY <1>1, <2>4 DEF Die, TypeOK
    <2> QED BY <2>1, <2>2, <2>3, <2>4
  <1>5. TypeOK'
    <2>1. unheard' \in BOOLEAN
      <3>1. unheard \in BOOLEAN
        BY <1>1 DEF TypeOK
      <3> QED BY <1>2, <3>1, Zenon
    <2> QED BY <1>1, <1>2, <1>3, <1>4, <2>1 DEF TypeOK, Over
  <1>6. SessionsAreStopped'
    BY <1>1, <1>2, <1>3, <1>5 DEF SessionsAreStopped, NothingIsLeftRunning, StoppedOnce,
       OneLatePoll
  <1>7. AnswersAreTheVendors' /\ LatestIsReached'
    BY <1>1, <1>2 DEF AnswersAreTheVendors, SuccessIsTheVendors, CostsAreReached,
       LatestIsReached
  <1>8. PlacesAreRight'
    <2>1. ~ remote.cancelled /\ stops = 0 /\ result.status = "none" /\ result.cost = Unknown
      BY <1>1, <1>3 DEF PlacesAreRight, Over
    <2> QED BY <1>1, <1>2, <1>3, <2>1 DEF PlacesAreRight, Over
  <1>9. PendingIsEarned' /\ LatePollIsLast'
    BY <1>1, <1>2, <1>3, <1>4 DEF PendingIsEarned, LatePollIsLast, Over
  <1> QED BY <1>6, <1>7, <1>8, <1>9 DEF IInv

LEMMA NextIInv == IInv /\ [Next]_vars => IInv'
PROOF
  <1> SUFFICES ASSUME IInv, [Next]_vars PROVE IInv'
    OBVIOUS
  <1>1. CASE RemoteWorks \/ RemoteEnds
    BY <1>1, VendorKeepsIInv
  <1>2. CASE Finish \/ Limit \/ GoOn \/ Sleep \/ Wake \/ Tick
    BY <1>2, LoopKeepsIInv
  <1>3. CASE CreateFails \/ Created
    BY <1>3, CreationKeepsIInv
  <1>4. CASE Poll \/ PollFails
    BY <1>4, PollKeepsIInv
  <1>5. CASE StopHeard \/ StopUnheard \/ End
    BY <1>5, StopKeepsIInv
  <1>6. CASE Execute \/ ExecuteRaises \/ Interrupted \/ Die
    BY <1>6, ExecutionKeepsIInv
  <1>7. CASE UNCHANGED vars
    BY <1>7 DEF vars, IInv, SessionsAreStopped, TypeOK, NothingIsLeftRunning, StoppedOnce,
       OneLatePoll, AnswersAreTheVendors, SuccessIsTheVendors, CostsAreReached,
       PlacesAreRight, LatestIsReached, PendingIsEarned, LatePollIsLast
  <1> QED BY <1>1, <1>2, <1>3, <1>4, <1>5, <1>6, <1>7 DEF Next, ClientStep

LEMMA IInvHolds == Spec => []IInv
PROOF
  BY InitIInv, NextIInv, PTL DEF Spec

--------------------------------------------------------------------------------
(* The theorems. *)

\* A call leaves no session running that it knows of unless its one request to
\* stop it was lost, makes that request at most once, and polls at most once
\* past its deadline (browser_use_cloud.run_task, browserbase_stagehand.run_task).
THEOREM StopTheorem == Spec => []SessionsAreStopped
PROOF
  <1>1. IInv => SessionsAreStopped
    BY DEF IInv
  <1> QED BY <1>1, IInvHolds, PTL

\* A success is one of the vendor's own making and a cost one the session had
\* reached, its final one for a success: what interactive.py settles.
THEOREM AnswerTheorem == Spec => []AnswersAreTheVendors
PROOF
  <1>1. IInv => AnswersAreTheVendors
    BY DEF IInv
  <1> QED BY <1>1, IInvHolds, PTL

================================================================================
