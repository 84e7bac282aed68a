------------------------------ MODULE DailyBudget ------------------------------
(***************************************************************************)
(* What the cost ledger and its callers promise together: a daily budget   *)
(* from which each taker takes at most once, and never so much that the    *)
(* day it is charged to exceeds the limit; once it has taken it only gives *)
(* back, and its charge never moves to another day or session.  How a call *)
(* decides, in how many steps, who is locked out and what a crash leaves   *)
(* behind is not part of the promise.                                      *)
(***************************************************************************)
EXTENDS Tally

CONSTANTS
    NumTakers,
    Charge,     \* the records a charge can be, with a day and an amount
    Nothing,    \* stands for "no charge"
    Limit

Takers == 1..NumTakers

VARIABLES
    charge,     \* what each taker is charged, or Nothing
    closed      \* the takers that have taken or given up taking

budgetVars == <<charge, closed>>

ChargedOn(ch, d) ==
    Total([t \in Takers |-> IF ch[t] # Nothing /\ ch[t].day = d THEN ch[t].amount
                            ELSE 0], NumTakers)

Init ==
    /\ charge = [t \in Takers |-> Nothing]
    /\ closed = {}

Take(t) ==
    /\ t \notin closed
    /\ charge' \in [Takers -> Charge \cup {Nothing}]
    /\ charge'[t] # Nothing
    /\ \A u \in Takers \ {t} : charge'[u] = charge[u]
    /\ ChargedOn(charge', charge'[t].day) <= Limit
    /\ closed' = closed \cup {t}

Forgo(t) ==
    /\ closed' = closed \cup {t}
    /\ UNCHANGED charge

GiveBack(t) ==
    /\ charge[t] # Nothing
    /\ charge' \in [Takers -> Charge \cup {Nothing}]
    /\ \A u \in Takers \ {t} : charge'[u] = charge[u]
    /\ \/ charge'[t] = Nothing
       \/ /\ charge'[t] = [charge[t] EXCEPT !.amount = charge'[t].amount]
          /\ charge'[t].amount <= charge[t].amount
    /\ UNCHANGED closed

Next == \E t \in Takers : Take(t) \/ Forgo(t) \/ GiveBack(t)

Spec == Init /\ [][Next]_budgetVars
==============================================================================
