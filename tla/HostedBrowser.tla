----------------------------- MODULE HostedBrowser -----------------------------
(***************************************************************************)
(* `interactive-browser` with a hosted provider: any number of CLI         *)
(* processes that share one cost ledger.  A call goes through the gates of *)
(* run_interactive_browser, reserves its whole cap, runs the provider for  *)
(* minutes, and then settles, releases or keeps the reservation according  *)
(* to what the provider answered.  Each ledger transaction is a step of    *)
(* its own; between any two of them other calls run, the day may change    *)
(* and the process may be interrupted or die.                              *)
(***************************************************************************)
EXTENDS CostLedger

CONSTANTS
    Requests,       \* the command lines that may be run
    Reports,        \* the costs a provider may report
    NotReported,    \* stands for "evidence without a total_cost_usd"
    DailyCap,       \* BFR_HOSTED_BROWSER_DAILY_COST_CAP_USD of the machine
    MaxDay          \* bound: days 0..MaxDay are explored

Tiers     == {"A", "B", "C"}
Providers == {"cloud", "browserbase", "local"}

\* A command line and its environment.  `cap` is --max-cost-usd, `keyed`
\* whether the provider's API key is set, `limitsValid` whether both cost
\* limits parse as finite non-negative numbers.
Request ==
    [session : Sessions, provider : Providers, cap : Nat, tier : Tiers,
     confirmed : BOOLEAN, optIn : BOOLEAN, keyed : BOOLEAN, limitsValid : BOOLEAN]

ASSUME RequestsAssumption == \A r \in Requests : r \in Request
ASSUME ReportsAssumption  == \A x \in Reports : x \in Nat
ASSUME NotReportedAssumption == NotReported \notin Nat
ASSUME DayAssumption == DailyCap \in Nat /\ MaxDay \in Nat

VARIABLES
    today,      \* the UTC date
    req,        \* the command line of each call
    pc,         \* where each call is
    day,        \* the date `reserve` read before its transaction
    reported    \* the cost in the provider's answer, once it has answered

hostedVars == <<today, req, pc, day, reported>>
vars == <<costs, paidDisabled, today, req, pc, day, reported>>

Ended == {"refused", "done", "kept", "aborted"}
Steps == {"idle", "checked", "running", "settling", "releasing",
          "overrun", "disabling"} \cup Ended

TypeOK ==
    /\ LedgerTypeOK
    /\ today \in 0..MaxDay
    /\ req \in [Calls -> Requests]
    /\ pc \in [Calls -> Steps]
    /\ day \in [Calls -> 0..MaxDay]
    /\ reported \in [Calls -> Reports \cup {NotReported}]

Init ==
    /\ LedgerInit
    /\ today = 0
    /\ req \in [Calls -> Requests]
    /\ pc = [c \in Calls |-> "idle"]
    /\ day = [c \in Calls |-> 0]
    /\ reported = [c \in Calls |-> NotReported]

Go(c, from, to) ==
    /\ pc[c] = from
    /\ pc' = [pc EXCEPT ![c] = to]

--------------------------------------------------------------------------------
(* Before the reservation. *)

\* require_action_confirmation: tiers A and B need none.
Confirmed(r) == r.tier = "C" => r.confirmed

\* The gates in front of the ledger, and the provider's own.
Admitted(r) ==
    /\ Confirmed(r)
    /\ r.provider # "local"
    /\ r.optIn
    /\ r.keyed
    /\ r.limitsValid

Refuse(c) ==
    /\ Go(c, "idle", "refused")
    /\ ~ Admitted(req[c])
    /\ UNCHANGED <<costs, paidDisabled, today, req, day, reported>>

\* The first half of `reserve`: the date is read, and the session's lockout
\* is looked up outside the transaction.
PreCheck(c) ==
    /\ pc[c] = "idle"
    /\ Admitted(req[c])
    /\ day' = [day EXCEPT ![c] = today]
    /\ pc' = [pc EXCEPT ![c] =
                IF req[c].session \in paidDisabled THEN "refused" ELSE "checked"]
    /\ UNCHANGED <<costs, paidDisabled, today, req, reported>>

\* Mutation of ReserveRefused: a day that is full is waited for.
ReserveRefused_WaitsForBudget(c) ==
    LET s == req[c].session   a == req[c].cap IN
    /\ \/ Go(c, "checked", "refused") /\ RefuseDisabled(s)
       \/ Go(c, "checked", "refused") /\ RefuseSessionCap(s, a, a)
       \/ Go(c, "checked", "checked") /\ RefuseDailyCap(s, day[c], a, a, DailyCap)
    /\ UNCHANGED <<today, req, day, reported>>

\* The transaction of `reserve`: the call reserves its whole cap, which is
\* also the cap of its session.
ReserveRefused(c) ==
    LET s == req[c].session   a == req[c].cap IN
    /\ Go(c, "checked", "refused")
    /\ \/ RefuseDisabled(s)
       \/ RefuseSessionCap(s, a, a)
       \/ RefuseDailyCap(s, day[c], a, a, DailyCap)
    /\ UNCHANGED <<today, req, day, reported>>

\* Mutation of Reserve: the row is dated when it is written, the cap tested on
\* the date read before.
Reserve_DatedAtInsert(c) ==
    /\ Go(c, "checked", "running")
    /\ req[c].session \notin paidDisabled
    /\ SessionTotal(costs, req[c].session) = 0
    /\ DailyTotal(costs, day[c]) + req[c].cap <= DailyCap
    /\ costs' = [costs EXCEPT ![c] = [session |-> req[c].session, day |-> today,
                                      amount |-> req[c].cap]]
    /\ UNCHANGED <<paidDisabled, today, req, day, reported>>

Reserve(c) ==
    /\ Go(c, "checked", "running")
    /\ InsertRow(c, req[c].session, day[c], req[c].cap, req[c].cap, DailyCap)
    /\ UNCHANGED <<today, req, day, reported>>

--------------------------------------------------------------------------------
(* The provider's answer, and what _finalize_hosted_result makes of it. *)

\* Browserbase evidence carries token usage only, never a cost.
MayReport(c, x) ==
    IF req[c].provider = "browserbase" THEN x = NotReported
    ELSE x \in Reports \cup {NotReported}

\* Mutation of AfterUnreported: only success is finalised.
AfterUnreported_KeepsFailures(c, ok) ==
    IF ok /\ req[c].provider # "browserbase" THEN "releasing" ELSE "done"

\* Mutation of AfterUnreported: an answer without a cost is settled with it.
AfterUnreported_Settles(c, ok) ==
    IF ok /\ req[c].provider = "browserbase" THEN "kept" ELSE "settling"

\* The ledger step an answer leads to; the reservation of a Browserbase
\* success (release_unreported_success=False) is kept and needs none.
AfterUnreported(c, ok) ==
    IF ok /\ req[c].provider = "browserbase" THEN "kept" ELSE "releasing"

\* Mutation of AfterAnswer: an overrun is settled at the reported cost.
AfterAnswer_SettlesOverrun(c, ok, x) ==
    IF x = NotReported THEN AfterUnreported(c, ok) ELSE "settling"

AfterAnswer(c, ok, x) ==
    IF x = NotReported THEN AfterUnreported(c, ok)
    ELSE IF x > req[c].cap THEN "overrun" ELSE "settling"

\* Mutation of ProviderAnswers: the reservation is released before the answer
\* is looked at.
ProviderAnswers_ReleasesFirst(c) ==
    \E ok \in BOOLEAN, x \in Reports \cup {NotReported} :
        /\ MayReport(c, x)
        /\ Go(c, "running", AfterAnswer(c, ok, x))
        /\ reported' = [reported EXCEPT ![c] = x]
        /\ ReleaseRow(c)
        /\ UNCHANGED <<today, req, day>>

ProviderAnswers(c) ==
    \E ok \in BOOLEAN, x \in Reports \cup {NotReported} :
        /\ MayReport(c, x)
        /\ Go(c, "running", AfterAnswer(c, ok, x))
        /\ reported' = [reported EXCEPT ![c] = x]
        /\ UNCHANGED <<costs, paidDisabled, today, req, day>>

\* `except Exception` around the provider call.
ProviderRaises(c) ==
    /\ Go(c, "running", "releasing")
    /\ UNCHANGED <<costs, paidDisabled, today, req, day, reported>>

Settle(c) ==
    /\ pc[c] = "settling"
    /\ SettleRow(c, reported[c])
    /\ pc' = [pc EXCEPT ![c] = IF HasRow(c) THEN "done" ELSE "disabling"]
    /\ UNCHANGED <<today, req, day, reported>>

Release(c) ==
    /\ Go(c, "releasing", "done")
    /\ ReleaseRow(c)
    /\ UNCHANGED <<today, req, day, reported>>

\* Mutation of ReleaseOverrun: the lockout after it is missing.
ReleaseOverrun_NoLockout(c) ==
    /\ Go(c, "overrun", "done")
    /\ ReleaseRow(c)
    /\ UNCHANGED <<today, req, day, reported>>

\* A reported overrun: the reservation is released, and in a second
\* transaction the session is locked out.
ReleaseOverrun(c) ==
    /\ Go(c, "overrun", "disabling")
    /\ ReleaseRow(c)
    /\ UNCHANGED <<today, req, day, reported>>

Disable(c) ==
    /\ Go(c, "disabling", "done")
    /\ DisableSession(req[c].session)
    /\ UNCHANGED <<today, req, day, reported>>

--------------------------------------------------------------------------------
(* The environment. *)

\* The call ends without taking its remaining steps: SIGKILL, Ctrl-C (which
\* `except Exception` does not catch), a busy or failing database, or a
\* mirror append that raises after the commit of the step before.
Abort(c) ==
    /\ pc[c] \notin Ended \cup {"idle"}
    /\ pc' = [pc EXCEPT ![c] = "aborted"]
    /\ UNCHANGED <<costs, paidDisabled, today, req, day, reported>>

NextDay ==
    /\ today < MaxDay
    /\ today' = today + 1
    /\ UNCHANGED <<costs, paidDisabled, req, pc, day, reported>>

CallStep(c) ==
    \/ Refuse(c)
    \/ PreCheck(c)
    \/ ReserveRefused(c)
    \/ Reserve(c)
    \/ ProviderAnswers(c)
    \/ ProviderRaises(c)
    \/ Settle(c)
    \/ Release(c)
    \/ ReleaseOverrun(c)
    \/ Disable(c)

Next ==
    \/ \E c \in Calls : CallStep(c) \/ Abort(c)
    \/ NextDay

\* A started call keeps running: its own code never blocks (the database
\* waits at most 10 s, the provider at most --max-duration-sec).  Starting a
\* call, aborting one and the calendar are nobody's obligation.
Fairness == \A c \in Calls : WF_vars(pc[c] # "idle" /\ CallStep(c))

Spec == Init /\ [][Next]_vars /\ Fairness

--------------------------------------------------------------------------------
(* Safety. *)

\* No day is ever overcommitted, whatever the calls that reserve, settle and
\* release it at once, and although each call charges the date it read before
\* its transaction (reserve's daily_cap test; the hosted contract's "keeps
\* ... daily hosted-browser caps enforceable").
DailyCapHolds == \A d \in 0..today : DailyTotal(costs, d) <= DailyCap

\* From its insertion until the call finalises, a reservation stays in the
\* ledger at the full cap, under the call's own session and date, and what a
\* call is about to settle fits in it: nobody else's transaction touches a
\* row, so `settle` always finds one ("without release gap").
ReservationHeld ==
    \A c \in Calls :
        /\ pc[c] \in {"running", "settling", "releasing", "overrun"} =>
             HasRow(c) /\ costs[c].amount = req[c].cap
        /\ pc[c] = "settling" =>
             reported[c] # NotReported /\ reported[c] <= req[c].cap
        /\ HasRow(c) =>
             /\ pc[c] \notin {"idle", "checked", "refused"}
             /\ costs[c].session = req[c].session
             /\ costs[c].day = day[c]

\* A session is charged by at most one call: every call reserves the whole of
\* the cap its session total is tested against (_reserve_hosted_cost passes
\* request_cap as session_cap), so no second call gets in beside a charge,
\* in flight or settled.
OneChargePerSession ==
    \A c, e \in Calls :
        /\ c # e
        /\ HasRow(c) /\ costs[c].amount > 0
        /\ HasRow(e) /\ costs[e].amount > 0
        => costs[c].session # costs[e].session

\* What an ended call leaves in the ledger is what its answer says: a reported
\* cost within the cap, the whole reservation for a Browserbase success
\* (docs: "keep the conservative preflight reservation"), otherwise nothing: not
\* even a reported cost above the cap, whose call is released and its session
\* locked out (_finalize_hosted_result, _finalize_hosted_failure).
LedgerMatchesAnswer ==
    \A c \in Calls :
        /\ pc[c] = "refused" => ~ HasRow(c)
        /\ pc[c] = "kept" => HasRow(c) /\ costs[c].amount = req[c].cap
        /\ pc[c] = "done" =>
             IF reported[c] # NotReported /\ reported[c] <= req[c].cap
             THEN HasRow(c) /\ costs[c].amount = reported[c]
             ELSE ~ HasRow(c)

\* A call that returned to its user after an overrun has locked its session
\* out (provider_overrun).  One that ended between the release and the lockout,
\* a second transaction, has not: of such calls this says nothing.
OverrunLocksOut ==
    \A c \in Calls :
        /\ pc[c] = "done" /\ reported[c] # NotReported /\ reported[c] > req[c].cap
        => req[c].session \in paidDisabled

\* No reservation is committed for a session whose lockout is committed, not
\* even by a call that looked before the lockout: the reason for the recheck
\* inside reserve's transaction.
NoReservationAfterLockout ==
    [][\A c \in Calls :
         ~ HasRow(c) /\ costs'[c] # NoRow => req[c].session \notin paidDisabled]_vars

\* The calls implement a daily budget: a call's row is its charge, and a call
\* past the transaction of `reserve` takes no more.
Budget == INSTANCE DailyBudget WITH
    NumTakers <- NumCalls,
    Charge    <- Row,
    Nothing   <- NoRow,
    Limit     <- DailyCap,
    charge    <- costs,
    closed    <- {c \in Calls : pc[c] \notin {"idle", "checked"}}

ImplementsBudget == Budget!Spec

(* Liveness. *)

\* Every started call ends.
StartedCallsEnd == \A c \in Calls : pc[c] # "idle" ~> pc[c] \in Ended

(* Inductive: what the ledger still has to be told follows from the answer. *)
AnswersPending ==
    \A c \in Calls :
        /\ pc[c] \in {"idle", "checked", "refused", "running", "releasing", "kept"} =>
             reported[c] = NotReported
        /\ pc[c] \in {"overrun", "disabling"} =>
             reported[c] # NotReported /\ reported[c] > req[c].cap
        /\ pc[c] = "disabling" => ~ HasRow(c)

(* The inductive invariant behind DailyCapHolds; days to come count too. *)
IInv ==
    /\ TypeOK
    /\ ReservationHeld
    /\ \A d \in 0..MaxDay : DailyTotal(costs, d) <= DailyCap

(* What it leads to, inductive beside it. *)
AccountsInv == OneChargePerSession /\ LedgerMatchesAnswer /\ OverrunLocksOut /\ AnswersPending
==============================================================================
