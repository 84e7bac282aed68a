------------------------------ MODULE CostLedger ------------------------------
(***************************************************************************)
(* The SQLite cost ledger of cost.py: the tables `costs` and               *)
(* `paid_disabled_sessions`, and one action per transaction.  Each         *)
(* transaction runs under BEGIN IMMEDIATE, so it is one atomic step; the   *)
(* JSONL mirror written after the commit is append-only and never read     *)
(* back, so only the fact that writing it can fail matters, and that is a  *)
(* matter of the caller's control flow.                                    *)
(*                                                                         *)
(* Amounts are whole units (cents): the model is about which amounts are   *)
(* counted, not about the rounding of binary floating point.               *)
(***************************************************************************)
EXTENDS Tally

CONSTANTS
    NumCalls,   \* the calls that may reserve are numbered 1..NumCalls
    Sessions,   \* session identifiers
    NoRow       \* stands for "no row with this audit_id"

Calls == 1..NumCalls

Row == [session : Sessions, day : Nat, amount : Nat]

ASSUME CallsAssumption == NumCalls \in Nat
ASSUME NoRowAssumption == NoRow \notin Row

VARIABLES
    costs,          \* the row each audit_id has, or NoRow
    paidDisabled    \* the sessions with a row in paid_disabled_sessions

ledgerVars == <<costs, paidDisabled>>

LedgerTypeOK ==
    /\ costs \in [Calls -> Row \cup {NoRow}]
    /\ paidDisabled \in SUBSET Sessions

LedgerInit ==
    /\ costs = [c \in Calls |-> NoRow]
    /\ paidDisabled = {}

HasRow(c) == costs[c] # NoRow

--------------------------------------------------------------------------------
(* The two SUM queries, as functions of a table. *)

SessionColumn(t, s) ==
    [c \in Calls |-> IF t[c] # NoRow /\ t[c].session = s THEN t[c].amount ELSE 0]

DayColumn(t, d) ==
    [c \in Calls |-> IF t[c] # NoRow /\ t[c].day = d THEN t[c].amount ELSE 0]

SessionTotal(t, s) == Total(SessionColumn(t, s), NumCalls)
DailyTotal(t, d)   == Total(DayColumn(t, d), NumCalls)

--------------------------------------------------------------------------------
(* The outcomes of the transaction of `reserve`. *)

\* The recheck inside the transaction finds the session locked out.
RefuseDisabled(s) ==
    /\ s \in paidDisabled
    /\ UNCHANGED ledgerVars

\* The session would exceed its cap: it is locked out, in the same
\* transaction.
RefuseSessionCap(s, amount, sessionCap) ==
    /\ s \notin paidDisabled
    /\ SessionTotal(costs, s) + amount > sessionCap
    /\ paidDisabled' = paidDisabled \cup {s}
    /\ UNCHANGED costs

\* The day would exceed its cap: nothing is written.
RefuseDailyCap(s, d, amount, sessionCap, dailyCap) ==
    /\ s \notin paidDisabled
    /\ SessionTotal(costs, s) + amount <= sessionCap
    /\ DailyTotal(costs, d) + amount > dailyCap
    /\ UNCHANGED ledgerVars

\* Mutation of InsertRow: the recheck inside the transaction is missing.
InsertRow_NoRecheck(c, s, d, amount, sessionCap, dailyCap) ==
    /\ SessionTotal(costs, s) + amount <= sessionCap
    /\ DailyTotal(costs, d) + amount <= dailyCap
    /\ costs' = [costs EXCEPT ![c] = [session |-> s, day |-> d, amount |-> amount]]
    /\ UNCHANGED paidDisabled

\* Mutation of InsertRow: the session is tested before the amount is added.
InsertRow_TestsOldTotal(c, s, d, amount, sessionCap, dailyCap) ==
    /\ s \notin paidDisabled
    /\ SessionTotal(costs, s) <= sessionCap
    /\ DailyTotal(costs, d) + amount <= dailyCap
    /\ costs' = [costs EXCEPT ![c] = [session |-> s, day |-> d, amount |-> amount]]
    /\ UNCHANGED paidDisabled

InsertRow(c, s, d, amount, sessionCap, dailyCap) ==
    /\ s \notin paidDisabled
    /\ SessionTotal(costs, s) + amount <= sessionCap
    /\ DailyTotal(costs, d) + amount <= dailyCap
    /\ costs' = [costs EXCEPT ![c] = [session |-> s, day |-> d, amount |-> amount]]
    /\ UNCHANGED paidDisabled

\* release: the row, if there is one, is deleted.
ReleaseRow(c) ==
    /\ costs' = [costs EXCEPT ![c] = NoRow]
    /\ UNCHANGED paidDisabled

\* settle: the row, if there is one, gets the reported amount.
SettleRow(c, amount) ==
    /\ costs' = IF HasRow(c) THEN [costs EXCEPT ![c].amount = amount] ELSE costs
    /\ UNCHANGED paidDisabled

DisableSession(s) ==
    /\ paidDisabled' = paidDisabled \cup {s}
    /\ UNCHANGED costs
==============================================================================
