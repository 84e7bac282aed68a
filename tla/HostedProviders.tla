----------------------------- MODULE HostedProviders -----------------------------
(***************************************************************************)
(* What runs between the reservation and the finalisation of a hosted      *)
(* call: `run_task` of the two providers, each with a browser session at   *)
(* its vendor.  Browser Use Cloud is created, polled and stopped over      *)
(* HTTP, against a deadline and a step limit; Browserbase is started,      *)
(* given the task and ended in one coroutine.  The remote session works    *)
(* and ends as it likes, and any request or its answer may be lost.        *)
(* HostedBrowser takes the answer from here.                               *)
(***************************************************************************)
EXTENDS Naturals, FiniteSetsExt

CONSTANTS
    StepLimit,      \* --max-steps
    Duration,       \* --max-duration-sec, in ticks of at most one sleep
    MaxRemoteSteps, \* bound on what the remote session does
    MaxCost,        \* bound on what it costs
    Unknown         \* stands for a field an answer does not have

Terminal == {"stopped", "timed_out", "error"}

ASSUME ProvidersAssumption ==
    /\ StepLimit \in Nat \ {0}
    /\ Duration \in Nat \ {0}
    /\ MaxRemoteSteps \in Nat
    /\ MaxCost \in Nat
    /\ Unknown \notin Nat /\ Unknown \notin Terminal

VARIABLES
    provider, pc,
    remote,     \* the session at the vendor
    latest,     \* the decoded answer the poll loop goes by
    left,       \* ticks to the deadline
    nap,        \* ticks to the end of the sleep
    known,      \* whether a session id has arrived
    pending,    \* the status to return once the session is stopped or ended
    result,     \* what run_task returned
    stops,      \* history: requests to stop or end the session, up to 2
    unheard,    \* history: whether such a request did not arrive
    late        \* history: polls sent after the deadline, up to 2

timing == <<left, nap>>
history == <<stops, unheard, late>>
vars == <<provider, pc, remote, latest, left, nap, known, pending, result, stops, unheard, late>>

Errors == {"provider_unavailable", "quota_or_key_missing", "rate_limited", "usage_error"}
Over == {"returned", "interrupted", "died"}

Remote == [status : {"absent", "running"} \cup Terminal, steps : 0..MaxRemoteSteps,
           cost : 0..MaxCost, output : BOOLEAN, cancelled : BOOLEAN]
Data == [status : {"running"} \cup Terminal \cup {Unknown},
         steps : 0..MaxRemoteSteps \cup {Unknown},
         cost : 0..MaxCost \cup {Unknown}, output : BOOLEAN]
Result == [status : {"none", "ok"} \cup Errors, cost : 0..MaxCost \cup {Unknown}]

TypeOK ==
    /\ provider \in {"cloud", "browserbase"}
    /\ pc \in {"creating", "looping", "napping", "sleeping", "polling", "stopping",
               "executing", "ending"} \cup Over
    /\ remote \in Remote
    /\ latest \in Data
    /\ left \in 0..Duration
    /\ nap \in 0..1
    /\ known \in BOOLEAN
    /\ pending \in {"none", "ok", "interrupted"} \cup Errors
    /\ result \in Result
    /\ stops \in 0..2
    /\ unheard \in BOOLEAN
    /\ late \in 0..2

\* _decode_json of what is no JSON object, or has none of the fields.
Empty == [status |-> Unknown, steps |-> Unknown, cost |-> Unknown, output |-> FALSE]

Init ==
    /\ provider \in {"cloud", "browserbase"}
    /\ pc = "creating"
    /\ remote = [status |-> "absent", steps |-> 0, cost |-> 0, output |-> FALSE,
                 cancelled |-> FALSE]
    /\ latest = Empty
    /\ left = Duration
    /\ nap = 0
    /\ known = FALSE
    /\ pending = "none"
    /\ result = [status |-> "none", cost |-> Unknown]
    /\ stops = 0
    /\ unheard = FALSE
    /\ late = 0

Go(from, to) ==
    /\ pc = from
    /\ pc' = to

Returns(status, cost) == result' = [status |-> status, cost |-> cost]

--------------------------------------------------------------------------------
(* The vendor. *)

\* What an answer says of the session: all, or all but one field, or nothing.
Answers(session) ==
    LET all == [status |-> session.status, steps |-> session.steps,
                cost |-> session.cost, output |-> session.output]
    IN {all, [all EXCEPT !.status = Unknown], [all EXCEPT !.steps = Unknown],
        [all EXCEPT !.cost = Unknown], Empty}

\* A new session as it may be by the time its creation is answered: it works, or
\* has already ended.
Opened == {r \in Remote : r.status # "absent" /\ ~ r.cancelled}

\* A stop ends what is running and leaves alone what has ended.
Cancelled ==
    IF remote.status = "running"
    THEN [remote EXCEPT !.status = "stopped", !.cancelled = TRUE] ELSE remote

RemoteWorks ==
    /\ remote.status = "running" /\ remote.steps < MaxRemoteSteps
    /\ \E c \in {remote.cost, Min({remote.cost + 1, MaxCost})}, out \in {remote.output, TRUE} :
          remote' = [remote EXCEPT !.steps = @ + 1, !.cost = c, !.output = out]
    /\ UNCHANGED <<provider, pc, latest, timing, known, pending, result, history>>

\* It is done, runs out of the vendor's own time, or breaks.
RemoteEnds ==
    /\ remote.status = "running"
    /\ \E status \in Terminal : remote' = [remote EXCEPT !.status = status]
    /\ UNCHANGED <<provider, pc, latest, timing, known, pending, result, history>>

Tick ==
    /\ provider = "cloud" /\ pc \notin Over \cup {"creating"}
    /\ left > 0
    /\ left' = left - 1
    /\ nap' = IF nap > 0 THEN nap - 1 ELSE 0
    /\ UNCHANGED <<provider, pc, remote, latest, known, pending, result, history>>

--------------------------------------------------------------------------------
(* Both: the session is created, or is not. *)

\* _http_error and _status_for_exception map status codes to the same four.
HttpErrors == Errors

\* Refused, or lost on the way there; or the answer is lost, or has no id, and
\* then a session runs that nobody knows.  `stagehand` may be missing.
CreateFails ==
    /\ Go("creating", "returned")
    /\ \/ \E e \in HttpErrors : Returns(e, Unknown) /\ UNCHANGED remote
       \/ Returns("provider_unavailable", Unknown) /\ remote' \in Opened
    /\ UNCHANGED <<provider, latest, timing, known, pending, history>>

\* What comes with the id is the first answer the poll loop goes by.
Created ==
    /\ Go("creating", IF provider = "cloud" THEN "looping" ELSE "executing")
    /\ remote' \in Opened
    /\ known' = TRUE
    /\ latest' \in IF provider = "cloud" THEN Answers(remote') ELSE {latest}
    /\ UNCHANGED <<provider, timing, pending, result, history>>

--------------------------------------------------------------------------------
(* Browser Use Cloud. *)

\* Mutation of Verdict: what a session that was cut short left is output too.
Verdict_AnyOutput == IF latest.output THEN "ok" ELSE "provider_unavailable"

\* run_task on a terminal answer: steps, then status, then output.
Verdict ==
    IF /\ latest.steps # Unknown => latest.steps <= StepLimit
       /\ latest.status = "stopped"
       /\ latest.output
    THEN "ok" ELSE "provider_unavailable"

Finish ==
    /\ latest.status \in Terminal
    /\ Go("looping", "returned")
    /\ Returns(Verdict, latest.cost)
    /\ UNCHANGED <<provider, remote, latest, timing, known, pending, history>>

\* _step_limit_error, _timeout_error
OutOfBounds ==
    \/ latest.steps # Unknown /\ latest.steps >= StepLimit
    \/ left = 0

\* Mutation of Limit: the deadline is reported without a stop.
Limit_NoStop ==
    /\ latest.status \notin Terminal /\ OutOfBounds
    /\ Go("looping", "returned")
    /\ Returns("provider_unavailable", latest.cost)
    /\ UNCHANGED <<provider, remote, latest, timing, known, pending, history>>

Limit ==
    /\ latest.status \notin Terminal /\ OutOfBounds
    /\ Go("looping", "stopping")
    /\ pending' = "provider_unavailable"
    /\ UNCHANGED <<provider, remote, latest, timing, known, result, history>>

GoOn ==
    /\ latest.status \notin Terminal /\ ~ OutOfBounds
    /\ Go("looping", "napping")
    /\ UNCHANGED <<provider, remote, latest, timing, known, pending, result, history>>

\* min(2.0, what is left): the deadline may have passed since it was checked.
Sleep ==
    /\ Go("napping", "sleeping")
    /\ nap' = Min({1, left})
    /\ UNCHANGED <<provider, remote, latest, left, known, pending, result, history>>

Wake ==
    /\ nap = 0
    /\ Go("sleeping", "polling")
    /\ UNCHANGED <<provider, remote, latest, timing, known, pending, result, history>>

CountsLate == late' = IF left = 0 /\ late < 2 THEN late + 1 ELSE late

\* Mutation of Poll: an answer gives the session another --max-duration-sec.
Poll_Extends ==
    /\ Go("polling", "looping")
    /\ latest' \in Answers(remote)
    /\ left' = Duration
    /\ CountsLate
    /\ UNCHANGED <<provider, remote, nap, known, pending, result, stops, unheard>>

\* An answer replaces what was known, an empty one too.
Poll ==
    /\ Go("polling", "looping")
    /\ latest' \in Answers(remote)
    /\ CountsLate
    /\ UNCHANGED <<provider, remote, timing, known, pending, result, stops, unheard>>

PollFails ==
    /\ Go("polling", "stopping")
    /\ pending' \in HttpErrors
    /\ CountsLate
    /\ UNCHANGED <<provider, remote, latest, timing, known, result, stops, unheard>>

CountsStop == stops' = IF stops < 2 THEN stops + 1 ELSE stops

\* The answer to a stop replaces what was known, unless it is an empty object;
\* one with the id alone does.
StopHeard ==
    /\ Go("stopping", "returned")
    /\ remote' = Cancelled
    /\ latest' \in {latest} \cup Answers(Cancelled)
    /\ Returns(pending, latest'.cost)
    /\ CountsStop
    /\ UNCHANGED <<provider, timing, known, pending, unheard, late>>

\* Refused or lost: it is not tried again.
StopUnheard ==
    /\ Go("stopping", "returned")
    /\ Returns(pending, latest.cost)
    /\ CountsStop
    /\ unheard' = TRUE
    /\ UNCHANGED <<provider, remote, latest, timing, known, pending, late>>

--------------------------------------------------------------------------------
(* Browserbase. *)

\* The vendor says whether the task succeeded, and its message may be empty.
Execute ==
    /\ Go("executing", "ending")
    /\ pending' \in IF remote.output THEN {"ok", "provider_unavailable"}
                     ELSE {"provider_unavailable"}
    /\ UNCHANGED <<provider, remote, latest, timing, known, result, history>>

\* An exception, the time-out of the request included.
ExecuteRaises ==
    /\ Go("executing", "ending")
    /\ pending' \in HttpErrors
    /\ UNCHANGED <<provider, remote, latest, timing, known, result, history>>

\* session.end() in the `finally`; its own failure is swallowed.
End ==
    /\ Go("ending", IF pending = "interrupted" THEN "interrupted" ELSE "returned")
    /\ IF pending = "interrupted" THEN UNCHANGED result ELSE Returns(pending, Unknown)
    /\ CountsStop
    /\ \/ remote' = Cancelled /\ UNCHANGED unheard
       \/ unheard' = TRUE /\ UNCHANGED remote
    /\ UNCHANGED <<provider, latest, timing, known, pending, late>>

--------------------------------------------------------------------------------
(* Ctrl-C and death. *)

\* asyncio.run cancels the coroutine, whose `finally` still ends the session;
\* the poll loop has nothing of the kind.
Interrupt ==
    \/ /\ pc \notin Over \cup {"executing", "ending"}
       /\ pc' = "interrupted"
       /\ UNCHANGED <<pending, unheard>>
    \/ /\ Go("executing", "ending")
       /\ pending' = "interrupted"
       /\ UNCHANGED unheard
    \/ /\ Go("ending", "interrupted")
       /\ unheard' = TRUE
       /\ UNCHANGED pending

Interrupted ==
    /\ Interrupt
    /\ UNCHANGED <<provider, remote, latest, timing, known, result, stops, late>>

Die ==
    /\ pc \notin Over
    /\ pc' = "died"
    /\ UNCHANGED <<provider, remote, latest, timing, known, pending, result, history>>

ClientStep ==
    \/ CreateFails \/ Created
    \/ Finish \/ Limit \/ GoOn \/ Sleep \/ Wake \/ Poll \/ PollFails
    \/ StopHeard \/ StopUnheard
    \/ Execute \/ ExecuteRaises \/ End

Next ==
    \/ ClientStep
    \/ Tick
    \/ RemoteWorks \/ RemoteEnds
    \/ Interrupted \/ Die

\* Time passes, and no request takes for ever: the HTTP client and the SDK have
\* time-outs.  Nothing is sure of the remote session.
Spec == Init /\ [][Next]_vars /\ WF_vars(ClientStep) /\ WF_vars(Tick)

--------------------------------------------------------------------------------
(* Properties, and the parts they are made of. *)

\* run_task leaves no session running that it knows of, unless the one request
\* to stop it did not arrive: limits, failed polls and exceptions included,
\* and for Browserbase Ctrl-C too.
NothingIsLeftRunning ==
    pc = "returned" \/ (pc = "interrupted" /\ provider = "browserbase") =>
        (known /\ remote.status = "running" => unheard)

\* A Browserbase session is ended exactly once, one of Browser Use Cloud is
\* stopped at most once, and not at all only if it was seen to have ended.
StoppedOnce ==
    pc = "returned" /\ known =>
        \/ stops = 1
        \/ stops = 0 /\ provider = "cloud" /\ latest.status \in Terminal

\* Past the deadline at most one more poll is sent: the one whose answer the
\* sleep to the deadline waits for.
OneLatePoll == late <= 1

\* A call leaves nothing running that it knows of, and says so once, in time.
SessionsAreStopped == TypeOK /\ NothingIsLeftRunning /\ StoppedOnce /\ OneLatePoll

\* Success is the vendor's: the task has output, and a session of Browser Use
\* Cloud came to its own end, in no more steps than allowed if it told them;
\* one that was stopped while it raced a limit is no success.
SuccessIsTheVendors ==
    result.status = "ok" =>
        /\ remote.output
        /\ provider = "cloud" =>
              /\ remote.status = "stopped" /\ ~ remote.cancelled
              /\ latest.steps = Unknown \/ remote.steps <= StepLimit

\* The cost the ledger settles is one the session had reached, and for a
\* success its final one; Browserbase reports none (evidence.total_cost_usd).
CostsAreReached ==
    result.cost # Unknown =>
        /\ provider = "cloud"
        /\ result.cost <= remote.cost
        /\ result.status = "ok" => result.cost = remote.cost

\* What the ledger and the user are told is what happened at the vendor's.
AnswersAreTheVendors == SuccessIsTheVendors /\ CostsAreReached

\* A call ends, whatever the vendor answers.
CallsEnd == <>(pc \in Over)

(* The inductive invariant. *)

\* How far a call has come: each provider keeps to its own part, nothing is
\* known before the session is created, and nothing is stopped or returned
\* before the end.
PlacesAreRight ==
    /\ provider = "cloud" => pc \notin {"executing", "ending"}
    /\ provider = "browserbase" => pc \in {"creating", "executing", "ending"} \cup Over
    /\ pc = "creating" => ~ known /\ remote.status = "absent" /\ latest = Empty
    /\ pc \notin {"creating"} \cup Over => remote.status # "absent"
    /\ pc \notin Over => stops = 0
    /\ pc # "returned" => result.status = "none" /\ result.cost = Unknown
    /\ remote.cancelled => remote.status = "stopped" /\ pc \in {"returned", "interrupted"}

\* What the answer says the session had reached, and one that has ended stays
\* as it was.
LatestIsReached ==
    /\ latest.steps # Unknown => latest.steps <= remote.steps
    /\ latest.cost # Unknown => latest.cost <= remote.cost
    /\ latest.output => remote.output
    /\ latest.status \in Terminal =>
          /\ remote.status = latest.status
          /\ latest.steps # Unknown => latest.steps = remote.steps
          /\ latest.cost # Unknown => latest.cost = remote.cost

\* What is to be returned: an error once the poll loop is left, and output if
\* Browserbase says so.
PendingIsEarned ==
    /\ pc = "stopping" => pending \in Errors
    /\ pc = "ending" => pending # "none" /\ (pending = "ok" => remote.output)

\* A poll past the deadline is the last one.
LatePollIsLast ==
    late > 0 => left = 0 /\ pc \in {"looping", "stopping"} \cup Over

IInv ==
    /\ SessionsAreStopped /\ AnswersAreTheVendors
    /\ PlacesAreRight /\ LatestIsReached /\ PendingIsEarned /\ LatePollIsLast
================================================================================
