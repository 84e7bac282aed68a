-------------------------- MODULE HostedBrowserProofs --------------------------
(***************************************************************************)
(* Theorems about HostedBrowser, for every number of calls, every set of   *)
(* sessions and command lines, and every cap.                              *)
(***************************************************************************)
EXTENDS HostedBrowser, TLAPS, WellFoundedInduction

--------------------------------------------------------------------------------
(* What a SUM over numbered rows satisfies: it is a natural number, it bounds *)
(* each of its summands, and changing one summand changes it by exactly that  *)
(* much.  The induction is carried by the least counterexample.               *)

\* A non-empty set of naturals has a least element.
LEMMA LeastNatural ==
  ASSUME NEW S \in SUBSET Nat, S # {}
  PROVE  \E m \in S : \A k \in S : m <= k
PROOF
  <1>1. PICK m \in S : \A k \in S : <<k, m>> \notin OpToRel(<, Nat)
    BY WFMin, NatLessThanWellFounded, Zenon
  <1>2. \A k \in S : <<k, m>> \in Nat \X Nat
    OBVIOUS
  <1>3. \A k \in S : ~ (k < m)
    BY <1>1, <1>2, Zenon DEF OpToRel
  <1>4. QED BY <1>3, SMT

\* Induction over 0..n, for a property given as the set where it holds.
LEMMA IntervalInduction ==
  ASSUME NEW n \in Nat, NEW S,
         0 \in S,
         \A i \in 1..n : i - 1 \in S => i \in S
  PROVE  \A i \in 0..n : i \in S
PROOF
  <1> DEFINE Bad == {i \in 0..n : i \notin S}
  <1>1. SUFFICES ASSUME Bad # {} PROVE FALSE
    OBVIOUS
  <1>2. Bad \in SUBSET Nat
    OBVIOUS
  <1>3. PICK m \in Bad : \A k \in Bad : m <= k
    BY <1>1, <1>2, LeastNatural, Zenon
  <1>4. m \in 1..n /\ m - 1 \in 0..n /\ m - 1 \notin Bad
    BY <1>3, SMT
  <1>5. QED BY <1>4, <1>3

\* The recursion defining the running totals has a solution.
LEMMA PartialSumsExist ==
  ASSUME NEW n \in Nat, NEW f
  PROVE  \E a : a = [i \in 0..n |-> IF i = 0 THEN 0 ELSE a[i - 1] + f[i]]
PROOF
  <1> DEFINE Solves(a, m) ==
               a = [i \in 0..m |-> IF i = 0 THEN 0 ELSE a[i - 1] + f[i]]
             S == {m \in 0..n : \E a : Solves(a, m)}
  <1>1. 0 \in S
    <2>1. Solves([i \in 0..0 |-> 0], 0)
      BY SMT
    <2>2. \E a : Solves(a, 0)
      BY <2>1, Zenon
    <2> HIDE DEF Solves
    <2>3. QED BY <2>2
  <1>2. \A m \in 1..n : m - 1 \in S => m \in S
    <2>1. SUFFICES ASSUME NEW m \in 1..n, NEW a, Solves(a, m - 1)
                   PROVE  \E b : Solves(b, m)
      OBVIOUS
    <2> DEFINE b == [i \in 0..m |-> IF i = m THEN a[m - 1] + f[m] ELSE a[i]]
    <2>2. DOMAIN a = 0..(m - 1)
      BY <2>1
    <2>3. \A i \in 0..(m - 1) : a[i] = IF i = 0 THEN 0 ELSE a[i - 1] + f[i]
      BY <2>1
    <2>4. ASSUME NEW i \in 0..m
          PROVE  b[i] = IF i = 0 THEN 0 ELSE b[i - 1] + f[i]
      <3>1. CASE i = m
        BY <3>1, m \in Nat, m # 0, m - 1 \in 0..m, m - 1 # m
      <3>2. CASE i # m
        <4>1. i \in 0..(m - 1) /\ (i # 0 => i - 1 \in 0..m /\ i - 1 # m)
          BY <3>2
        <4>2. QED BY <4>1, <3>2, <2>3
      <3>3. QED BY <3>1, <3>2
    <2>5. Solves(b, m)
      BY <2>4
    <2>6. QED BY <2>5
  <1> HIDE DEF S
  <1>3. \A m \in 0..n : m \in S
    BY <1>1, <1>2, IntervalInduction, Zenon
  <1>4. n \in S
    BY <1>3
  <1>5. QED BY <1>4 DEF S

\* The running totals satisfy their recursion.
LEMMA PartialSumsUnfold ==
  ASSUME NEW n \in Nat, NEW f
  PROVE  /\ PartialSums(f, n)[0] = 0
         /\ \A i \in 1..n : PartialSums(f, n)[i] = PartialSums(f, n)[i - 1] + f[i]
PROOF
  <1> DEFINE a == PartialSums(f, n)
  <1>1. a = CHOOSE g : g = [i \in 0..n |-> IF i = 0 THEN 0 ELSE g[i - 1] + f[i]]
    BY DEF PartialSums
  <1> HIDE DEF a
  <1>2. a = [i \in 0..n |-> IF i = 0 THEN 0 ELSE a[i - 1] + f[i]]
    BY <1>1, PartialSumsExist, Zenon
  <1>3. a[0] = 0 /\ \A i \in 1..n : a[i] = a[i - 1] + f[i]
    <2>1. \A i \in 0..n : a[i] = IF i = 0 THEN 0 ELSE a[i - 1] + f[i]
      BY <1>2, Zenon
    <2>2. QED BY <2>1
  <1>4. QED BY <1>3, Zenon DEF a

\* A sum of naturals is a natural, and so is every running total.
LEMMA PartialSumsType ==
  ASSUME NEW n \in Nat, NEW f, \A i \in 1..n : f[i] \in Nat
  PROVE  \A i \in 0..n : PartialSums(f, n)[i] \in Nat
PROOF
  <1> DEFINE p == PartialSums(f, n)
             S == {i \in 0..n : p[i] \in Nat}
  <1>1. p[0] = 0 /\ \A i \in 1..n : p[i] = p[i - 1] + f[i]
    BY PartialSumsUnfold, Zenon
  <1> HIDE DEF p
  <1>2. 0 \in S
    BY <1>1
  <1>3. \A i \in 1..n : i - 1 \in S => i \in S
    BY <1>1
  <1> HIDE DEF S
  <1>4. \A i \in 0..n : i \in S
    BY <1>2, <1>3, IntervalInduction, Zenon
  <1>5. QED BY <1>4 DEF S, p

LEMMA TotalType ==
  ASSUME NEW n \in Nat, NEW f, \A i \in 1..n : f[i] \in Nat
  PROVE  Total(f, n) \in Nat
PROOF
  BY PartialSumsType, n \in 0..n, Zenon DEF Total

\* Changing the k-th summand changes the sum by exactly that much.
LEMMA TotalUpdate ==
  ASSUME NEW n \in Nat, NEW f, NEW g, NEW k \in 1..n,
         \A i \in 1..n : f[i] \in Nat /\ g[i] \in Nat,
         \A i \in 1..n : i # k => g[i] = f[i]
  PROVE  Total(g, n) + f[k] = Total(f, n) + g[k]
PROOF
  <1> DEFINE p == PartialSums(f, n)
             q == PartialSums(g, n)
             S == {i \in 0..n : IF i < k THEN q[i] = p[i]
                                ELSE q[i] + f[k] = p[i] + g[k]}
  <1>1. p[0] = 0 /\ \A i \in 1..n : p[i] = p[i - 1] + f[i]
    BY PartialSumsUnfold, Zenon
  <1>2. q[0] = 0 /\ \A i \in 1..n : q[i] = q[i - 1] + g[i]
    BY PartialSumsUnfold, Zenon
  <1>3. \A i \in 0..n : p[i] \in Nat /\ q[i] \in Nat
    BY PartialSumsType, Zenon
  <1> HIDE DEF p, q
  <1>4. 0 \in S
    BY <1>1, <1>2
  <1>5. \A i \in 1..n : i - 1 \in S => i \in S
    <2>1. SUFFICES ASSUME NEW i \in 1..n, i - 1 \in S PROVE i \in S
      OBVIOUS
    <2>2. /\ p[i] = p[i - 1] + f[i] /\ q[i] = q[i - 1] + g[i]
          /\ p[i - 1] \in Nat /\ q[i - 1] \in Nat
          /\ f[i] \in Nat /\ g[i] \in Nat /\ f[k] \in Nat /\ g[k] \in Nat
      BY <1>1, <1>2, <1>3
    <2>3. CASE i < k
      BY <2>1, <2>2, <2>3
    <2>4. CASE i = k
      BY <2>1, <2>2, <2>4
    <2>5. CASE i > k
      BY <2>1, <2>2, <2>5
    <2>6. QED BY <2>3, <2>4, <2>5
  <1> HIDE DEF S
  <1>6. \A i \in 0..n : i \in S
    BY <1>4, <1>5, IntervalInduction, Zenon
  <1>7. q[n] + f[k] = p[n] + g[k]
    BY <1>6 DEF S
  <1>8. QED BY <1>7, Zenon DEF Total, p, q

\* Each summand is at most the sum.
LEMMA TotalBounds ==
  ASSUME NEW n \in Nat, NEW f, NEW k \in 1..n,
         \A i \in 1..n : f[i] \in Nat
  PROVE  f[k] <= Total(f, n)
PROOF
  <1> DEFINE h == [i \in 1..n |-> IF i = k THEN 0 ELSE f[i]]
  <1>1. /\ h[k] = 0
        /\ \A i \in 1..n : h[i] \in Nat
        /\ \A i \in 1..n : i # k => h[i] = f[i]
    OBVIOUS
  <1> HIDE DEF h
  <1>2. Total(h, n) + f[k] = Total(f, n) + h[k]
    BY <1>1, TotalUpdate
  <1>3. Total(h, n) \in Nat /\ Total(f, n) \in Nat
    BY <1>1, TotalType
  <1>4. QED BY <1>1, <1>2, <1>3

\* A sum without a non-zero summand is zero.
LEMMA TotalZero ==
  ASSUME NEW n \in Nat, NEW f, \A i \in 1..n : f[i] = 0
  PROVE  Total(f, n) = 0
PROOF
  <1> DEFINE p == PartialSums(f, n)
             S == {i \in 0..n : p[i] = 0}
  <1>1. p[0] = 0 /\ \A i \in 1..n : p[i] = p[i - 1] + f[i]
    BY PartialSumsUnfold, Zenon
  <1> HIDE DEF p
  <1>2. 0 \in S
    BY <1>1
  <1>3. \A i \in 1..n : i - 1 \in S => i \in S
    BY <1>1
  <1> HIDE DEF S
  <1>4. \A i \in 0..n : i \in S
    BY <1>2, <1>3, IntervalInduction, Zenon
  <1>5. QED BY <1>4, n \in 0..n, Zenon DEF S, p, Total

--------------------------------------------------------------------------------
(* The sums of the ledger. *)

Table == [Calls -> Row \cup {NoRow}]

\* Every column of a well-typed table consists of naturals.
LEMMA ColumnTypes ==
  ASSUME NEW t \in Table, NEW s, NEW d, NEW c \in Calls
  PROVE  /\ SessionColumn(t, s)[c] \in Nat
         /\ DayColumn(t, d)[c] \in Nat
PROOF
  BY DEF Table, Row, SessionColumn, DayColumn

LEMMA TotalsAreNaturals ==
  ASSUME NEW t \in Table, NEW s, NEW d
  PROVE  SessionTotal(t, s) \in Nat /\ DailyTotal(t, d) \in Nat
PROOF
  <1>1. \A c \in 1..NumCalls : SessionColumn(t, s)[c] \in Nat /\ DayColumn(t, d)[c] \in Nat
    BY ColumnTypes DEF Calls
  <1>2. QED BY <1>1, TotalType, CallsAssumption, Zenon DEF SessionTotal, DailyTotal

\* Replacing one row changes a day's total by the difference of that row.
LEMMA DailyTotalUpdate ==
  ASSUME NEW t \in Table, NEW u \in Table, NEW d, NEW c \in Calls,
         \A e \in Calls : e # c => u[e] = t[e]
  PROVE  DailyTotal(u, d) + DayColumn(t, d)[c] = DailyTotal(t, d) + DayColumn(u, d)[c]
PROOF
  <1> DEFINE f == DayColumn(t, d)
             g == DayColumn(u, d)
  <1>1. \A e \in 1..NumCalls : f[e] \in Nat /\ g[e] \in Nat
    BY ColumnTypes DEF Calls
  <1>2. \A e \in 1..NumCalls : e # c => g[e] = f[e]
    BY DEF DayColumn, Calls
  <1> HIDE DEF f, g
  <1>3. Total(g, NumCalls) + f[c] = Total(f, NumCalls) + g[c]
    BY <1>1, <1>2, TotalUpdate, CallsAssumption DEF Calls
  <1>4. QED BY <1>3 DEF DailyTotal, f, g

--------------------------------------------------------------------------------
(* The daily cap. *)

\* The step that inserts a row leaves every day within the cap.
LEMMA InsertKeepsCap ==
  ASSUME costs \in Table, costs' \in Table, NEW c \in Calls, NEW s, NEW d \in Nat,
         NEW a \in Nat, costs[c] = NoRow, s \in Sessions,
         \A x \in 0..MaxDay : DailyTotal(costs, x) <= DailyCap,
         InsertRow(c, s, d, a, a, DailyCap)
  PROVE  \A x \in 0..MaxDay : DailyTotal(costs', x) <= DailyCap
PROOF
  <1> SUFFICES ASSUME NEW x \in 0..MaxDay PROVE DailyTotal(costs', x) <= DailyCap
    OBVIOUS
  <1>1. DailyTotal(costs', x) + DayColumn(costs, x)[c]
          = DailyTotal(costs, x) + DayColumn(costs', x)[c]
    <2>1. \A e \in Calls : e # c => costs'[e] = costs[e]
      BY DEF InsertRow, Table
    <2>2. QED BY <2>1, DailyTotalUpdate
  <1>2. DayColumn(costs, x)[c] = 0
    BY DEF DayColumn
  <1>3. DayColumn(costs', x)[c] = IF x = d THEN a ELSE 0
    <2>1. costs'[c] = [session |-> s, day |-> d, amount |-> a] /\ costs'[c] # NoRow
      BY NoRowAssumption DEF InsertRow, Table, Row
    <2>2. QED BY <2>1 DEF DayColumn
  <1>4. DailyTotal(costs, x) \in Nat /\ DailyTotal(costs', x) \in Nat
    BY TotalsAreNaturals
  <1>5. DailyTotal(costs, d) + a <= DailyCap
    BY DEF InsertRow
  <1>6. QED BY <1>1, <1>2, <1>3, <1>4, <1>5, DayAssumption

\* A step that drops or lowers one row does too.
LEMMA LoweringKeepsCap ==
  ASSUME NEW t \in Table, NEW u \in Table, NEW c \in Calls,
         \A e \in Calls : e # c => u[e] = t[e],
         u[c] # NoRow => t[c] # NoRow /\ u[c].day = t[c].day /\ u[c].amount <= t[c].amount,
         \A x \in 0..MaxDay : DailyTotal(t, x) <= DailyCap
  PROVE  \A x \in 0..MaxDay : DailyTotal(u, x) <= DailyCap
PROOF
  <1> SUFFICES ASSUME NEW x \in 0..MaxDay PROVE DailyTotal(u, x) <= DailyCap
    OBVIOUS
  <1>1. DailyTotal(u, x) + DayColumn(t, x)[c] = DailyTotal(t, x) + DayColumn(u, x)[c]
    BY DailyTotalUpdate
  <1>2. DayColumn(u, x)[c] <= DayColumn(t, x)[c]
    BY DEF DayColumn, Table, Row
  <1>3. /\ DailyTotal(t, x) \in Nat /\ DailyTotal(u, x) \in Nat
        /\ DayColumn(t, x)[c] \in Nat /\ DayColumn(u, x)[c] \in Nat
    BY TotalsAreNaturals, ColumnTypes
  <1>4. QED BY <1>1, <1>2, <1>3, DayAssumption

\* An empty ledger charges nothing.
LEMMA EmptyTotals == ASSUME NEW d PROVE DailyTotal([c \in Calls |-> NoRow], d) = 0
PROOF
  <1>1. \A c \in 1..NumCalls : DayColumn([e \in Calls |-> NoRow], d)[c] = 0
    BY DEF DayColumn, Calls
  <1>2. QED BY <1>1, TotalZero, CallsAssumption, Zenon DEF DailyTotal

LEMMA InitIInv == Init => IInv
PROOF
  <1> SUFFICES ASSUME Init PROVE IInv
    OBVIOUS
  <1>1. TypeOK
    BY DayAssumption DEF Init, LedgerInit, TypeOK, LedgerTypeOK, Steps, Ended
  <1>2. ReservationHeld
    BY DEF Init, LedgerInit, ReservationHeld, HasRow
  <1>3. \A d \in 0..MaxDay : DailyTotal(costs, d) <= DailyCap
    BY EmptyTotals, DayAssumption DEF Init, LedgerInit
  <1>4. QED BY <1>1, <1>2, <1>3 DEF IInv

\* The steps that leave the ledger alone.
LEMMA QuietStep ==
  ASSUME IInv, NEW c \in Calls,
         \/ Refuse(c) \/ PreCheck(c) \/ ProviderAnswers(c) \/ ProviderRaises(c)
         \/ Abort(c)
  PROVE  IInv'
PROOF
  <1> USE DEF IInv, TypeOK, LedgerTypeOK
  <1>u. UNCHANGED <<costs, paidDisabled, today, req>>
    BY DEF Refuse, PreCheck, ProviderAnswers, ProviderRaises, Abort
  <1>c. req[c].cap \in Nat
    BY RequestsAssumption DEF Request
  <1>1. TypeOK'
    <2>1. CASE Refuse(c) \/ ProviderRaises(c) \/ Abort(c)
      BY <2>1 DEF Refuse, ProviderRaises, Abort, Go, Steps, Ended
    <2>2. CASE PreCheck(c)
      BY <2>2 DEF PreCheck, Steps, Ended
    <2>3. CASE ProviderAnswers(c)
      BY <2>3 DEF ProviderAnswers, AfterAnswer, AfterUnreported, Go, Steps, Ended
    <2>4. QED BY <2>1, <2>2, <2>3
  <1>2. ReservationHeld'
    <2>1. CASE Refuse(c) \/ ProviderRaises(c) \/ Abort(c)
      BY <2>1 DEF Refuse, ProviderRaises, Abort, Go, ReservationHeld, HasRow, Ended
    <2>2. CASE PreCheck(c)
      BY <2>2 DEF PreCheck, ReservationHeld, HasRow
    <2>3. CASE ProviderAnswers(c)
      <3>1. PICK ok \in BOOLEAN, x \in Reports \cup {NotReported} :
              /\ Go(c, "running", AfterAnswer(c, ok, x))
              /\ reported' = [reported EXCEPT ![c] = x]
              /\ day' = day
        BY <2>3 DEF ProviderAnswers
      <3>2. /\ pc'[c] \in {"overrun", "settling", "kept", "releasing"}
            /\ pc'[c] = "settling" => x # NotReported /\ x <= req[c].cap
        BY <3>1, <1>c, ReportsAssumption DEF Go, AfterAnswer, AfterUnreported
      <3>3. HasRow(c) /\ costs[c].amount = req[c].cap /\ costs[c].session = req[c].session
            /\ costs[c].day = day[c]
        BY <3>1 DEF Go, ReservationHeld
      <3>4. QED BY <1>u, <3>1, <3>2, <3>3 DEF Go, ReservationHeld, HasRow
    <2>4. QED BY <2>1, <2>2, <2>3
  <1>3. QED BY <1>u, <1>1, <1>2

\* The transaction of `reserve`, refused.
LEMMA ReserveRefusedStep ==
  ASSUME IInv, NEW c \in Calls, ReserveRefused(c)
  PROVE  IInv'
PROOF
  <1> USE DEF IInv, TypeOK, LedgerTypeOK
  <1>u. UNCHANGED <<costs, today, req, day, reported>>
    BY DEF ReserveRefused, RefuseDisabled, RefuseSessionCap, RefuseDailyCap, ledgerVars
  <1>1. paidDisabled' \in SUBSET Sessions
    BY RequestsAssumption DEF ReserveRefused, RefuseDisabled, RefuseSessionCap,
       RefuseDailyCap, ledgerVars, Request
  <1>2. TypeOK'
    BY <1>u, <1>1 DEF ReserveRefused, Go, Steps, Ended
  <1>3. ReservationHeld'
    BY <1>u DEF ReserveRefused, Go, ReservationHeld, HasRow
  <1>4. QED BY <1>u, <1>2, <1>3

\* The transaction of `reserve`, admitted.
LEMMA ReserveStep ==
  ASSUME IInv, NEW c \in Calls, Reserve(c)
  PROVE  IInv'
PROOF
  <1> USE DEF IInv, TypeOK, LedgerTypeOK
  <1> DEFINE row == [session |-> req[c].session, day |-> day[c], amount |-> req[c].cap]
  <1>1. row \in Row /\ req[c].cap \in Nat /\ day[c] \in Nat /\ req[c].session \in Sessions
    BY RequestsAssumption, DayAssumption DEF Request, Row
  <1>2. costs' = [costs EXCEPT ![c] = row] /\ UNCHANGED <<paidDisabled, today, req, day, reported>>
    BY DEF Reserve, InsertRow
  <1>3. costs[c] = NoRow
    BY DEF Reserve, Go, ReservationHeld, HasRow
  <1>4. TypeOK'
    BY <1>1, <1>2 DEF Reserve, Go, Steps, Ended
  <1>5. ReservationHeld'
    BY <1>1, <1>2, NoRowAssumption DEF Reserve, Go, ReservationHeld, HasRow
  <1>6. \A d \in 0..MaxDay : DailyTotal(costs', d) <= DailyCap
    BY <1>1, <1>3, <1>4, InsertKeepsCap DEF Reserve, Table
  <1>7. QED BY <1>4, <1>5, <1>6

\* settle, release, and the two steps after an overrun.
LEMMA FinalStep ==
  ASSUME IInv, NEW c \in Calls,
         Settle(c) \/ Release(c) \/ ReleaseOverrun(c) \/ Disable(c)
  PROVE  IInv'
PROOF
  <1> USE DEF IInv, TypeOK, LedgerTypeOK
  <1>u. UNCHANGED <<today, req, day, reported>>
    BY DEF Settle, Release, ReleaseOverrun, Disable
  <1>1. CASE Settle(c)
    <2>1. /\ HasRow(c) /\ costs[c] \in Row /\ costs[c].amount = req[c].cap
          /\ reported[c] \in Nat /\ reported[c] <= req[c].cap
      BY <1>1, ReportsAssumption DEF Settle, ReservationHeld, HasRow
    <2>2. /\ costs' = [costs EXCEPT ![c].amount = reported[c]]
          /\ pc' = [pc EXCEPT ![c] = "done"]
          /\ UNCHANGED paidDisabled
      BY <1>1, <2>1 DEF Settle, SettleRow
    <2>3. /\ costs'[c] = [costs[c] EXCEPT !.amount = reported[c]]
          /\ costs'[c] \in Row /\ costs'[c].amount = reported[c]
          /\ costs'[c].day = costs[c].day /\ costs'[c].session = costs[c].session
      BY <2>1, <2>2 DEF Row
    <2>4. \A e \in Calls : e # c => costs'[e] = costs[e]
      BY <2>2
    <2>5. TypeOK'
      <3>1. costs' \in [Calls -> Row \cup {NoRow}]
        BY <2>2, <2>3
      <3>2. QED BY <3>1, <2>2, <1>u DEF Steps, Ended
    <2>6. ReservationHeld'
      BY <1>u, <2>1, <2>2, <2>3, <2>4, NoRowAssumption DEF ReservationHeld, HasRow
    <2>7. \A d \in 0..MaxDay : DailyTotal(costs', d) <= DailyCap
      BY <2>1, <2>3, <2>4, <2>5, LoweringKeepsCap DEF Table, HasRow
    <2>8. QED BY <2>5, <2>6, <2>7
  <1>2. CASE Release(c) \/ ReleaseOverrun(c)
    <2>1. costs' = [costs EXCEPT ![c] = NoRow] /\ UNCHANGED paidDisabled
      BY <1>2 DEF Release, ReleaseOverrun, ReleaseRow
    <2>2. TypeOK'
      BY <1>2, <1>u, <2>1 DEF Release, ReleaseOverrun, Go, Steps, Ended
    <2>3. ReservationHeld'
      BY <1>2, <1>u, <2>1 DEF Release, ReleaseOverrun, Go, ReservationHeld, HasRow
    <2>4. \A d \in 0..MaxDay : DailyTotal(costs', d) <= DailyCap
      BY <2>1, <2>2, LoweringKeepsCap DEF Table
    <2>5. QED BY <2>2, <2>3, <2>4
  <1>3. CASE Disable(c)
    <2>1. costs' = costs /\ paidDisabled' \in SUBSET Sessions
      BY <1>3, RequestsAssumption DEF Disable, DisableSession, Request
    <2>2. TypeOK'
      BY <1>3, <1>u, <2>1 DEF Disable, Go, Steps, Ended
    <2>3. ReservationHeld'
      BY <1>3, <1>u, <2>1 DEF Disable, Go, ReservationHeld, HasRow
    <2>4. QED BY <2>1, <2>2, <2>3
  <1>4. QED BY <1>1, <1>2, <1>3

LEMMA NextIInv == IInv /\ [Next]_vars => IInv'
PROOF
  <1> SUFFICES ASSUME IInv, [Next]_vars PROVE IInv'
    OBVIOUS
  <1>1. CASE UNCHANGED vars
    BY <1>1 DEF vars, IInv, TypeOK, LedgerTypeOK, ReservationHeld, HasRow
  <1>2. CASE NextDay
    BY <1>2, DayAssumption DEF NextDay, IInv, TypeOK, LedgerTypeOK, ReservationHeld, HasRow
  <1>3. ASSUME NEW c \in Calls, CallStep(c) \/ Abort(c) PROVE IInv'
    BY <1>3, QuietStep, ReserveRefusedStep, ReserveStep, FinalStep DEF CallStep
  <1>4. QED BY <1>1, <1>2, <1>3 DEF Next

LEMMA IInvHolds == Spec => []IInv
PROOF
  BY InitIInv, NextIInv, PTL DEF Spec

--------------------------------------------------------------------------------
(* Charges, answers and lockouts. *)

LEMMA InitAccountsInv == Init => AccountsInv
PROOF
  BY DEF Init, LedgerInit, AccountsInv, OneChargePerSession, LedgerMatchesAnswer,
     OverrunLocksOut, AnswersPending, HasRow

\* No step but a reservation charges a session, or another one.
LEMMA ChargesShrink ==
  ASSUME IInv, NEW c \in Calls, CallStep(c) \/ Abort(c), ~ Reserve(c),
         NEW e \in Calls, costs'[e] # NoRow, costs'[e].amount > 0
  PROVE  /\ HasRow(e) /\ costs[e].amount > 0
         /\ costs'[e].session = costs[e].session
PROOF
  <1> USE DEF IInv, TypeOK, LedgerTypeOK, HasRow
  <1>1. CASE UNCHANGED costs
    BY <1>1
  <1>2. CASE Release(c) \/ ReleaseOverrun(c)
    BY <1>2 DEF Release, ReleaseOverrun, ReleaseRow
  <1>3. CASE Settle(c)
    <2>1. /\ costs[c] # NoRow /\ costs[c] \in Row /\ costs[c].amount = req[c].cap
          /\ reported[c] \in Nat /\ reported[c] <= req[c].cap
      BY <1>3, ReportsAssumption DEF Settle, ReservationHeld
    <2>2. costs' = [costs EXCEPT ![c].amount = reported[c]]
      BY <1>3, <2>1 DEF Settle, SettleRow
    <2>3. CASE e = c
      <3>1. costs'[c].amount = reported[c] /\ costs'[c].session = costs[c].session
        BY <2>1, <2>2 DEF Row
      <3>2. costs[c].amount \in Nat
        BY <2>1 DEF Row
      <3> QED BY <2>1, <2>3, <3>1, <3>2
    <2>4. CASE e # c
      BY <2>2, <2>4
    <2> QED BY <2>3, <2>4
  <1>4. UNCHANGED costs \/ Release(c) \/ ReleaseOverrun(c) \/ Settle(c)
    BY DEF CallStep, Abort, Refuse, PreCheck, ReserveRefused, RefuseDisabled, RefuseSessionCap,
       RefuseDailyCap, ledgerVars, ProviderAnswers, ProviderRaises, Disable, DisableSession
  <1> QED BY <1>1, <1>2, <1>3, <1>4

\* A call that may reserve the whole of its session's cap finds no charge.
LEMMA ReserveFindsNoCharge ==
  ASSUME IInv, NEW c \in Calls, Reserve(c), NEW e \in Calls, HasRow(e),
         costs[e].session = req[c].session
  PROVE  costs[e].amount = 0
PROOF
  <1> DEFINE s == req[c].session
             f == SessionColumn(costs, s)
  <1>1. costs \in Table
    BY DEF IInv, TypeOK, LedgerTypeOK, Table
  <1>2. req[c].cap \in Nat
    BY RequestsAssumption DEF IInv, TypeOK, Request
  <1>3. SessionTotal(costs, s) + req[c].cap <= req[c].cap
    BY DEF Reserve, InsertRow
  <1>4. SessionTotal(costs, s) \in Nat
    BY <1>1, TotalsAreNaturals
  <1>5. SessionTotal(costs, s) = 0
    BY <1>2, <1>3, <1>4
  <1>6. \A i \in 1..NumCalls : f[i] \in Nat
    BY <1>1, ColumnTypes DEF Calls
  <1>7. f[e] = costs[e].amount
    BY DEF SessionColumn, HasRow
  <1>8. f[e] \in Nat
    BY <1>6 DEF Calls
  <1>9. f[e] <= Total(f, NumCalls)
    <2> HIDE DEF f
    <2> QED BY <1>6, TotalBounds, CallsAssumption DEF Calls
  <1>10. f[e] <= 0
    BY <1>5, <1>9 DEF SessionTotal
  <1> QED BY <1>7, <1>8, <1>10

LEMMA StepOneCharge ==
  ASSUME IInv, OneChargePerSession, NEW c \in Calls, CallStep(c) \/ Abort(c)
  PROVE  OneChargePerSession'
PROOF
  <1> USE DEF HasRow
  <1> SUFFICES ASSUME NEW a \in Calls, NEW b \in Calls, a # b,
                      costs'[a] # NoRow, costs'[a].amount > 0,
                      costs'[b] # NoRow, costs'[b].amount > 0
               PROVE  costs'[a].session # costs'[b].session
    BY DEF OneChargePerSession
  <1>1. CASE ~ Reserve(c)
    <2>1. /\ costs[a] # NoRow /\ costs[a].amount > 0 /\ costs'[a].session = costs[a].session
          /\ costs[b] # NoRow /\ costs[b].amount > 0 /\ costs'[b].session = costs[b].session
      BY <1>1, ChargesShrink
    <2> QED BY <2>1 DEF OneChargePerSession
  <1>2. CASE Reserve(c)
    <2>1. /\ \A e \in Calls : e # c => costs'[e] = costs[e]
          /\ costs'[c].session = req[c].session
      BY <1>2 DEF Reserve, InsertRow, IInv, TypeOK, LedgerTypeOK
    <2>2. \A e \in Calls : e # c /\ costs'[e] # NoRow /\ costs'[e].amount > 0 =>
                             costs'[e].session # req[c].session
      BY <1>2, <2>1, ReserveFindsNoCharge
    <2>3. CASE a # c /\ b # c
      BY <2>1, <2>3 DEF OneChargePerSession
    <2>4. CASE a = c
      BY <2>1, <2>2, <2>4
    <2>5. CASE b = c
      BY <2>1, <2>2, <2>5
    <2> QED BY <2>3, <2>4, <2>5
  <1> QED BY <1>1, <1>2

\* What each step does to its own call, as far as the answers go.
LEMMA StepAnswers ==
  ASSUME IInv, IInv', AccountsInv, NEW c \in Calls, CallStep(c) \/ Abort(c)
  PROVE  LedgerMatchesAnswer' /\ OverrunLocksOut' /\ AnswersPending'
PROOF
  <1> DEFINE Answered(e) ==
               /\ pc[e] = "refused" => ~ HasRow(e)
               /\ pc[e] = "kept" => HasRow(e) /\ costs[e].amount = req[e].cap
               /\ pc[e] = "done" =>
                    IF reported[e] # NotReported /\ reported[e] <= req[e].cap
                    THEN HasRow(e) /\ costs[e].amount = reported[e]
                    ELSE ~ HasRow(e)
               /\ pc[e] = "done" /\ reported[e] # NotReported /\ reported[e] > req[e].cap =>
                    req[e].session \in paidDisabled
               /\ pc[e] \in {"idle", "checked", "refused", "running", "releasing", "kept"} =>
                    reported[e] = NotReported
               /\ pc[e] \in {"overrun", "disabling"} =>
                    reported[e] # NotReported /\ reported[e] > req[e].cap
               /\ pc[e] = "disabling" => ~ HasRow(e)
  <1>1. \A e \in Calls : Answered(e)
    BY DEF AccountsInv, LedgerMatchesAnswer, OverrunLocksOut, AnswersPending
  <1> SUFFICES \A e \in Calls : Answered(e)'
    BY DEF LedgerMatchesAnswer, OverrunLocksOut, AnswersPending
  <1> USE DEF IInv, TypeOK, LedgerTypeOK, HasRow
  <1>2. /\ paidDisabled \subseteq paidDisabled'
        /\ req' = req
        /\ \A e \in Calls \ {c} : /\ costs'[e] = costs[e] /\ pc'[e] = pc[e]
                                  /\ reported'[e] = reported[e]
    <2>1. CASE Refuse(c) \/ PreCheck(c) \/ ProviderRaises(c) \/ Abort(c) \/ ProviderAnswers(c)
      BY <2>1 DEF Refuse, PreCheck, ProviderRaises, Abort, ProviderAnswers, Go
    <2>2. CASE ReserveRefused(c)
      BY <2>2 DEF ReserveRefused, RefuseDisabled, RefuseSessionCap, RefuseDailyCap, ledgerVars, Go
    <2>3. CASE Reserve(c)
      BY <2>3 DEF Reserve, InsertRow, Go
    <2>4. CASE Settle(c)
      BY <2>4 DEF Settle, SettleRow
    <2>5. CASE Release(c) \/ ReleaseOverrun(c) \/ Disable(c)
      BY <2>5 DEF Release, ReleaseOverrun, ReleaseRow, Disable, DisableSession, Go
    <2> QED BY <2>1, <2>2, <2>3, <2>4, <2>5 DEF CallStep
  <1>3. \A e \in Calls \ {c} : Answered(e)'
    BY <1>1, <1>2
  <1>c. req[c].cap \in Nat
    BY RequestsAssumption DEF Request
  <1>4. Answered(c)'
    <2>1. CASE Refuse(c)
      <3>1. pc[c] = "idle" /\ pc'[c] = "refused" /\ UNCHANGED <<costs, reported>>
        BY <2>1 DEF Refuse, Go
      <3> QED BY <1>1, <1>2, <3>1 DEF ReservationHeld
    <2>2. CASE PreCheck(c)
      <3>1. pc[c] = "idle" /\ pc'[c] \in {"refused", "checked"} /\ UNCHANGED <<costs, reported>>
        BY <2>2 DEF PreCheck
      <3> QED BY <1>1, <1>2, <3>1 DEF ReservationHeld
    <2>3. CASE ReserveRefused(c)
      <3>1. pc[c] = "checked" /\ pc'[c] = "refused" /\ UNCHANGED <<costs, reported>>
        BY <2>3 DEF ReserveRefused, RefuseDisabled, RefuseSessionCap, RefuseDailyCap,
           ledgerVars, Go
      <3> QED BY <1>1, <1>2, <3>1 DEF ReservationHeld
    <2>4. CASE Reserve(c)
      <3>1. pc[c] = "checked" /\ pc'[c] = "running" /\ UNCHANGED reported
        BY <2>4 DEF Reserve, Go
      <3> QED BY <1>1, <3>1
    <2>5. CASE ProviderAnswers(c)
      <3>1. PICK ok \in BOOLEAN, x \in Reports \cup {NotReported} :
              /\ Go(c, "running", AfterAnswer(c, ok, x))
              /\ reported' = [reported EXCEPT ![c] = x]
              /\ UNCHANGED <<costs, req>>
        BY <2>5 DEF ProviderAnswers
      <3>2. /\ pc'[c] \in {"overrun", "settling", "kept", "releasing"}
            /\ pc'[c] = "overrun" => x # NotReported /\ x > req[c].cap
            /\ pc'[c] \in {"kept", "releasing"} => x = NotReported
        BY <3>1 DEF Go, AfterAnswer, AfterUnreported
      <3>3. HasRow(c) /\ costs[c].amount = req[c].cap
        BY <3>1 DEF Go, ReservationHeld
      <3> QED BY <3>1, <3>2, <3>3
    <2>6. CASE ProviderRaises(c)
      <3>1. pc[c] = "running" /\ pc'[c] = "releasing" /\ UNCHANGED reported
        BY <2>6 DEF ProviderRaises, Go
      <3> QED BY <1>1, <3>1
    <2>7. CASE Settle(c)
      <3>1. /\ costs[c] # NoRow /\ costs[c] \in Row
            /\ reported[c] # NotReported /\ reported[c] <= req[c].cap /\ reported[c] \in Nat
        BY <2>7, ReportsAssumption DEF Settle, ReservationHeld
      <3>2. /\ costs' = [costs EXCEPT ![c].amount = reported[c]]
            /\ pc'[c] = "done" /\ UNCHANGED reported
        BY <2>7, <3>1 DEF Settle, SettleRow
      <3>3. costs'[c] # NoRow /\ costs'[c].amount = reported[c]
        BY <3>1, <3>2, NoRowAssumption DEF Row
      <3> QED BY <1>2, <1>c, <3>1, <3>2, <3>3
    <2>8. CASE Release(c)
      <3>1. /\ pc[c] = "releasing" /\ pc'[c] = "done" /\ UNCHANGED reported
            /\ costs'[c] = NoRow
        BY <2>8 DEF Release, ReleaseRow, Go
      <3> QED BY <1>1, <3>1
    <2>9. CASE ReleaseOverrun(c)
      <3>1. /\ pc[c] = "overrun" /\ pc'[c] = "disabling" /\ UNCHANGED reported
            /\ costs'[c] = NoRow
        BY <2>9 DEF ReleaseOverrun, ReleaseRow, Go
      <3> QED BY <1>1, <1>2, <3>1
    <2>10. CASE Disable(c)
      <3>1. /\ pc[c] = "disabling" /\ pc'[c] = "done" /\ UNCHANGED <<reported, costs>>
            /\ req[c].session \in paidDisabled'
        BY <2>10 DEF Disable, DisableSession, Go
      <3>2. ~ (reported[c] <= req[c].cap)
        BY <1>1, <1>c, <3>1, ReportsAssumption
      <3> QED BY <1>1, <1>2, <3>1, <3>2
    <2>11. CASE Abort(c)
      BY <2>11 DEF Abort
    <2> QED
      BY <2>1, <2>2, <2>3, <2>4, <2>5, <2>6, <2>7, <2>8, <2>9, <2>10, <2>11 DEF CallStep
  <1> QED BY <1>3, <1>4

LEMMA NextAccountsInv == IInv /\ IInv' /\ AccountsInv /\ [Next]_vars => AccountsInv'
PROOF
  <1> SUFFICES ASSUME IInv, IInv', AccountsInv, [Next]_vars PROVE AccountsInv'
    OBVIOUS
  <1>1. CASE UNCHANGED vars \/ NextDay
    <2>1. UNCHANGED <<costs, paidDisabled, req, pc, reported>>
      BY <1>1 DEF vars, NextDay
    <2> QED
      BY <2>1 DEF AccountsInv, OneChargePerSession, LedgerMatchesAnswer, OverrunLocksOut,
         AnswersPending, HasRow
  <1>2. ASSUME NEW c \in Calls, CallStep(c) \/ Abort(c) PROVE AccountsInv'
    BY <1>2, StepOneCharge, StepAnswers DEF AccountsInv
  <1> QED BY <1>1, <1>2 DEF Next

LEMMA AccountsInvHolds == Spec => []AccountsInv
PROOF
  BY InitAccountsInv, NextAccountsInv, IInvHolds, PTL DEF Spec

--------------------------------------------------------------------------------
(* Theorems. *)

\* Every variable keeps its type: in particular what `settle` writes is an
\* amount, because only an answer with a cost leads to it.
THEOREM TypeCorrect == Spec => []TypeOK
PROOF
  <1>1. IInv => TypeOK
    BY DEF IInv
  <1>2. QED BY <1>1, IInvHolds, PTL

\* The daily cap holds for any number of concurrent, interrupted and crashed
\* calls, with any caps, over any number of days.
THEOREM DailyCapTheorem == Spec => []DailyCapHolds
PROOF
  <1>1. IInv => DailyCapHolds
    BY DayAssumption DEF IInv, TypeOK, DailyCapHolds
  <1>2. QED BY <1>1, IInvHolds, PTL

\* A call's reservation is in the ledger, at its full amount, as long as the
\* call may still need it.
THEOREM ReservationTheorem == Spec => []ReservationHeld
PROOF
  <1>1. IInv => ReservationHeld
    BY DEF IInv
  <1>2. QED BY <1>1, IInvHolds, PTL

\* Of all calls of a session at most one is charged, in flight, settled or
\* interrupted: whoever reserves needs the whole cap of the session.
THEOREM OneChargeTheorem == Spec => []OneChargePerSession
PROOF
  <1>1. AccountsInv => OneChargePerSession
    BY DEF AccountsInv
  <1> QED BY <1>1, AccountsInvHolds, PTL

\* An ended call leaves in the ledger what its provider's answer says, through
\* every path of the finalisation.
THEOREM AnswerTheorem == Spec => []LedgerMatchesAnswer
PROOF
  <1>1. AccountsInv => LedgerMatchesAnswer
    BY DEF AccountsInv
  <1> QED BY <1>1, AccountsInvHolds, PTL

\* A call that came to its end after an overrun has locked its session out.
THEOREM OverrunTheorem == Spec => []OverrunLocksOut
PROOF
  <1>1. AccountsInv => OverrunLocksOut
    BY DEF AccountsInv
  <1> QED BY <1>1, AccountsInvHolds, PTL

\* A row appears only by the insertion of `reserve`, for an enabled session.
LEMMA RowsAppearByReserve ==
  ASSUME [Next]_vars, IInv, NEW c \in Calls, ~ HasRow(c), costs'[c] # NoRow
  PROVE  Reserve(c)
PROOF
  <1> USE DEF IInv, TypeOK, LedgerTypeOK, HasRow
  <1>1. costs' # costs
    OBVIOUS
  <1>2. PICK e \in Calls : CallStep(e) \/ Abort(e)
    BY <1>1 DEF Next, NextDay, vars
  <1>3. Reserve(e) \/ Settle(e) \/ Release(e) \/ ReleaseOverrun(e)
    BY <1>1, <1>2 DEF CallStep, Abort, Refuse, PreCheck, ReserveRefused, RefuseDisabled,
       RefuseSessionCap, RefuseDailyCap, ledgerVars, ProviderAnswers, ProviderRaises,
       Disable, DisableSession
  <1>4. CASE Release(e) \/ ReleaseOverrun(e)
    BY <1>4 DEF Release, ReleaseOverrun, ReleaseRow
  <1>5. CASE Settle(e)
    BY <1>5 DEF Settle, SettleRow
  <1>6. CASE Reserve(e)
    BY <1>6 DEF Reserve, InsertRow
  <1>7. QED BY <1>3, <1>4, <1>5, <1>6

\* No reservation is committed for a locked-out session, however long ago the
\* call looked the lockout up.
THEOREM LockoutTheorem == Spec => NoReservationAfterLockout
PROOF
  <1>1. IInv /\ [Next]_vars =>
          [\A c \in Calls :
             ~ HasRow(c) /\ costs'[c] # NoRow => req[c].session \notin paidDisabled]_vars
    BY RowsAppearByReserve DEF Reserve, InsertRow
  <1>2. QED BY <1>1, IInvHolds, PTL DEF Spec, NoReservationAfterLockout

--------------------------------------------------------------------------------
(* The calls implement DailyBudget. *)

Closed == {c \in Calls : pc[c] \notin {"idle", "checked"}}

\* The budget charges a day what the ledger does.
LEMMA SameTotal ==
  ASSUME NEW t, NEW d
  PROVE  Budget!ChargedOn(t, d) = DailyTotal(t, d)
PROOF
  BY DEF Budget!ChargedOn, Budget!Takers, Budget!Total, Budget!PartialSums, DailyTotal,
     DayColumn, Total, PartialSums, Calls

LEMMA InitSimulation == Init => Budget!Init
PROOF
  BY DEF Init, LedgerInit, Budget!Init, Budget!Takers, Calls

\* A reservation takes from the budget of the day it is dated.
LEMMA ReserveTakes ==
  ASSUME IInv, IInv', NEW c \in Calls, Reserve(c)
  PROVE  Budget!Take(c)
PROOF
  <1> USE DEF IInv, TypeOK, LedgerTypeOK
  <1> DEFINE row == [session |-> req[c].session, day |-> day[c], amount |-> req[c].cap]
  <1>1. row \in Row /\ row # NoRow
    BY RequestsAssumption, DayAssumption, NoRowAssumption DEF Request, Row
  <1>2. costs' = [costs EXCEPT ![c] = row]
    BY DEF Reserve, InsertRow
  <1>3. pc[c] = "checked" /\ pc' = [pc EXCEPT ![c] = "running"]
    BY DEF Reserve, Go
  <1>4. costs'[c] = row /\ \A u \in Calls \ {c} : costs'[u] = costs[u]
    BY <1>2
  <1>5. costs' \in [Calls -> Row \cup {NoRow}]
    OBVIOUS
  <1>6. DailyTotal(costs', costs'[c].day) <= DailyCap
    BY <1>4
  <1>7. Closed' = Closed \cup {c} /\ c \notin Closed
    BY <1>3 DEF Closed
  <1> QED
    BY <1>1, <1>4, <1>5, <1>6, <1>7, SameTotal DEF Budget!Take, Budget!Takers, Calls, Closed

\* What settles or releases a row gives back.
LEMMA FinalGivesBack ==
  ASSUME IInv, IInv', NEW c \in Calls, Settle(c) \/ Release(c) \/ ReleaseOverrun(c)
  PROVE  Budget!GiveBack(c)
PROOF
  <1> USE DEF IInv, TypeOK, LedgerTypeOK, HasRow
  <1>1. costs[c] # NoRow /\ costs[c].amount = req[c].cap /\ costs[c] \in Row
    BY DEF Settle, Release, ReleaseOverrun, Go, ReservationHeld
  <1>2. Closed' = Closed
    BY DEF Settle, Release, ReleaseOverrun, Go, Closed
  <1>3. \A u \in Calls \ {c} : costs'[u] = costs[u]
    BY <1>1 DEF Settle, Release, ReleaseOverrun, ReleaseRow, SettleRow
  <1>4. CASE Release(c) \/ ReleaseOverrun(c)
    <2>1. costs'[c] = NoRow
      BY <1>4 DEF Release, ReleaseOverrun, ReleaseRow
    <2> QED BY <1>1, <1>2, <1>3, <2>1 DEF Budget!GiveBack, Budget!Takers, Calls, Closed
  <1>5. CASE Settle(c)
    <2>1. reported[c] <= req[c].cap
      BY <1>5 DEF Settle, ReservationHeld
    <2>2. costs'[c] = [costs[c] EXCEPT !.amount = reported[c]]
      BY <1>1, <1>5 DEF Settle, SettleRow
    <2>3. costs'[c].amount = reported[c]
      BY <1>1, <2>2 DEF Row
    <2> QED
      BY <1>1, <1>2, <1>3, <2>1, <2>2, <2>3 DEF Budget!GiveBack, Budget!Takers, Calls, Closed
  <1> QED BY <1>4, <1>5

LEMMA StepSimulation == IInv /\ IInv' /\ [Next]_vars => [Budget!Next]_(Budget!budgetVars)
PROOF
  <1> SUFFICES ASSUME IInv, IInv', [Next]_vars
               PROVE  Budget!Next \/ UNCHANGED <<costs, Closed>>
    BY DEF Budget!budgetVars, Closed
  <1> USE DEF IInv, TypeOK, LedgerTypeOK
  <1>1. CASE UNCHANGED vars \/ NextDay
    BY <1>1 DEF vars, NextDay, Closed
  <1>2. ASSUME NEW c \in Calls, Reserve(c) PROVE Budget!Next
    BY <1>2, ReserveTakes DEF Budget!Next, Budget!Takers, Calls
  <1>3. ASSUME NEW c \in Calls, Settle(c) \/ Release(c) \/ ReleaseOverrun(c)
        PROVE  Budget!Next
    BY <1>3, FinalGivesBack DEF Budget!Next, Budget!Takers, Calls
  <1>4. ASSUME NEW c \in Calls, ProviderAnswers(c) \/ ProviderRaises(c) \/ Disable(c)
        PROVE  UNCHANGED <<costs, Closed>>
    <2>1. UNCHANGED costs
      BY <1>4 DEF ProviderAnswers, ProviderRaises, Disable, DisableSession
    <2>2. /\ pc[c] \in {"running", "disabling"}
          /\ \A e \in Calls \ {c} : pc'[e] = pc[e]
          /\ pc'[c] \notin {"idle", "checked"}
      BY <1>4 DEF ProviderAnswers, ProviderRaises, Disable, Go, AfterAnswer, AfterUnreported
    <2> QED BY <2>1, <2>2 DEF Closed
  <1>5. ASSUME NEW c \in Calls, Refuse(c) \/ PreCheck(c) \/ ReserveRefused(c) \/ Abort(c)
        PROVE  Budget!Forgo(c) \/ UNCHANGED <<costs, Closed>>
    <2>1. UNCHANGED costs
      BY <1>5 DEF Refuse, PreCheck, ReserveRefused, RefuseDisabled, RefuseSessionCap,
         RefuseDailyCap, ledgerVars, Abort
    <2>2. \A e \in Calls \ {c} : pc'[e] = pc[e]
      BY <1>5 DEF Refuse, PreCheck, ReserveRefused, Abort, Go
    <2>3. pc'[c] \in {"refused", "checked", "aborted"} /\ (pc'[c] = "checked" => pc[c] = "idle")
      BY <1>5 DEF Refuse, PreCheck, ReserveRefused, Abort, Go
    <2>4. CASE pc'[c] = "checked"
      BY <2>1, <2>2, <2>3, <2>4 DEF Closed
    <2>5. CASE pc'[c] # "checked"
      <3>1. Closed' = Closed \cup {c}
        BY <2>2, <2>3, <2>5 DEF Closed
      <3> QED BY <2>1, <3>1 DEF Budget!Forgo, Closed
    <2> QED BY <2>4, <2>5
  <1>6. ASSUME NEW c \in Calls, Budget!Forgo(c) PROVE Budget!Next
    BY <1>6 DEF Budget!Next, Budget!Takers, Calls
  <1> QED BY <1>1, <1>2, <1>3, <1>4, <1>5, <1>6 DEF Next, CallStep

\* Whatever the calls, their providers, interruptions and the calendar do, it is
\* a daily budget: each call takes once, within the limit of its day, and then
\* only gives back.
THEOREM BudgetTheorem == Spec => ImplementsBudget
PROOF
  BY InitSimulation, StepSimulation, IInvHolds, PTL DEF Spec, ImplementsBudget, Budget!Spec
==============================================================================
