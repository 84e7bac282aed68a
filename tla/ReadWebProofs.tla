----------------------------- MODULE ReadWebProofs -----------------------------
(***************************************************************************)
(* The lock and the paid fallback of read-web, for any number of readers,  *)
(* URLs and routes: a held lock has a live holder, duplicate provider      *)
(* calls are the price of timeouts and of nothing else, and paid pages     *)
(* reach the cache by opting in.                                           *)
(***************************************************************************)
EXTENDS ReadWeb, TLAPS

LEMMA InitIInv == Init => IInv
PROOF
  <1> SUFFICES ASSUME Init PROVE IInv
    OBVIOUS
  <1>1. TypeOK
    BY ReadWebAssumption DEF Init, TypeOK, Steps, Request, Providers
  <1>2. LocksHaveHolders /\ LocksHeld
    BY <1>1, ReadWebAssumption DEF Init, TypeOK, LocksHaveHolders, LocksHeld, Url, Request,
       Calling
  <1>3. PaidByOptIn /\ PaidPagesWereOptedIn
    BY <1>1, ReadWebAssumption DEF Init, TypeOK, PaidByOptIn, PaidPagesWereOptedIn, Url, Paid,
       Request, Providers, Calling
  <1> QED BY <1>1, <1>2, <1>3 DEF IInv

\* Every entry of the cache is a record with a provider.
LEMMA EntryIsRecord ==
  ASSUME NEW e \in Entry
  PROVE  e.provider \in Providers /\ e # NoEntry
PROOF
  BY ReadWebAssumption DEF Entry

\* What a hit returns comes from some provider.
LEMMA HitHasProvider ==
  ASSUME TypeOK, NEW r \in Readers, Hit(r)
  PROVE  cache[Url(r)].provider \in Providers
PROOF
  <1>1. Url(r) \in Urls
    BY ReadWebAssumption DEF TypeOK, Request, Url
  <1>2. cache[Url(r)] \in Entry
    BY <1>1 DEF TypeOK, Hit, Usable
  <1> QED BY <1>2, EntryIsRecord

\* A reader's step keeps the types.
LEMMA StepType ==
  ASSUME IInv, NEW r \in Readers, ReaderStep(r) \/ Crash(r)
  PROVE  TypeOK'
PROOF
  <1> USE ReadWebAssumption DEF IInv, TypeOK, Go, Becomes, Url, Request, Steps, Inside, Calling
  <1>1. CASE FirstLook(r)
    <2>1. CASE Hit(r)
      <3>1. PICK p \in Providers : Becomes(r, "hit", p)
        BY <1>1, <2>1, HitHasProvider DEF FirstLook
      <3>2. UNCHANGED <<now, req, late, holder, cache>> /\ pc' \in [Readers -> Steps]
        BY <1>1, <2>1 DEF FirstLook
      <3> QED BY <3>1, <3>2
    <2>2. CASE ~ Hit(r)
      BY <1>1, <2>2 DEF FirstLook
    <2> QED BY <2>1, <2>2
  <1>2. CASE Lock(r)
    BY <1>2 DEF Lock
  <1>3. CASE LockTimeout(r)
    BY <1>3 DEF LockTimeout
  <1>4. CASE Recheck(r)
    <2>1. CASE Hit(r)
      <3>1. PICK p \in Providers : Becomes(r, "hit", p)
        BY <1>4, <2>1, HitHasProvider DEF Recheck
      <3>2. UNCHANGED <<now, req, late, holder, cache>> /\ pc' \in [Readers -> Steps]
        BY <1>4, <2>1 DEF Recheck
      <3> QED BY <3>1, <3>2
    <2>2. CASE ~ Hit(r)
      BY <1>4, <2>2 DEF Recheck
    <2> QED BY <2>1, <2>2
  <1>5. CASE FetchPrimary(r)
    BY <1>5 DEF FetchPrimary, Answers
  <1>6. CASE FetchPaid(r)
    BY <1>6 DEF FetchPaid, Answers, Providers
  <1>7. CASE Raises(r)
    BY <1>7 DEF Raises
  <1>8. CASE Unlock(r)
    BY <1>8 DEF Unlock, FreeLock, AfterUnlock
  <1>9. CASE Write(r)
    BY <1>9 DEF Write, Entry
  <1>10. CASE Crash(r)
    BY <1>10 DEF Crash, FreeLock
  <1> QED
    BY <1>1, <1>2, <1>3, <1>4, <1>5, <1>6, <1>7, <1>8, <1>9, <1>10 DEF ReaderStep, TakeLock

\* A reader's step keeps what is known of the locks.
LEMMA StepLocks ==
  ASSUME IInv, TypeOK', NEW r \in Readers, ReaderStep(r) \/ Crash(r)
  PROVE  LocksHaveHolders' /\ LocksHeld'
PROOF
  <1> USE ReadWebAssumption DEF IInv, TypeOK, Go, Url, Request, Inside, Calling,
          LocksHaveHolders, LocksHeld
  <1>1. CASE FirstLook(r)
    BY <1>1 DEF FirstLook
  <1>2. CASE Lock(r)
    BY <1>2 DEF Lock
  <1>3. CASE LockTimeout(r)
    BY <1>3 DEF LockTimeout
  <1>4. CASE Recheck(r)
    <2>1. UNCHANGED <<req, late, holder>>
      BY <1>4 DEF Recheck
    <2>2. CASE Go(r, "rechecking", "unlocking")
      BY <2>1, <2>2
    <2>3. CASE Go(r, "rechecking", "fetching")
      BY <2>1, <2>3
    <2> QED BY <1>4, <2>2, <2>3 DEF Recheck
  <1>5. CASE FetchPrimary(r)
    BY <1>5 DEF FetchPrimary
  <1>6. CASE FetchPaid(r)
    BY <1>6 DEF FetchPaid
  <1>7. CASE Raises(r)
    BY <1>7 DEF Raises
  <1>8. CASE Unlock(r)
    BY <1>8 DEF Unlock, FreeLock, AfterUnlock
  <1>9. CASE Write(r)
    BY <1>9 DEF Write
  <1>10. CASE Crash(r)
    BY <1>10 DEF Crash, FreeLock
  <1> QED
    BY <1>1, <1>2, <1>3, <1>4, <1>5, <1>6, <1>7, <1>8, <1>9, <1>10 DEF ReaderStep, TakeLock

\* A reader's step keeps what is known of paid results.
LEMMA StepPaid ==
  ASSUME IInv, TypeOK', NEW r \in Readers, ReaderStep(r) \/ Crash(r)
  PROVE  PaidByOptIn' /\ PaidPagesWereOptedIn'
PROOF
  <1> USE ReadWebAssumption DEF IInv, TypeOK, Go, Becomes, Url, Paid, Request, Calling,
          PaidByOptIn, PaidPagesWereOptedIn
  <1>1. CASE FirstLook(r)
    BY <1>1 DEF FirstLook
  <1>2. CASE TakeLock(r)
    BY <1>2 DEF TakeLock, Lock, LockTimeout
  <1>4. CASE Recheck(r)
    BY <1>4 DEF Recheck
  <1>5. CASE FetchPrimary(r)
    BY <1>5 DEF FetchPrimary, MayPay, Answers
  <1>6. CASE FetchPaid(r)
    BY <1>6 DEF FetchPaid
  <1>7. CASE Raises(r)
    BY <1>7 DEF Raises
  <1>8. CASE Unlock(r)
    BY <1>8 DEF Unlock, AfterUnlock
  <1>9. CASE Write(r)
    <2>1. /\ pc[r] = "writing" /\ pc' = [pc EXCEPT ![r] = "done"]
          /\ UNCHANGED <<req, result>>
      BY <1>9 DEF Write
    <2>2. PaidByOptIn'
      BY <2>1
    <2>3. CASE cache' = cache
      BY <2>1, <2>2, <2>3
    <2>4. CASE cache' = [cache EXCEPT ![Url(r)] =
                           [provider |-> result[r].provider,
                            expires |-> now + Ttl[result[r].provider]]]
      <3>1. Url(r) \in Urls
        OBVIOUS
      <3>2. cache'[Url(r)].provider = result[r].provider
        BY <2>4, <3>1
      <3>3. result[r].provider = "parallel" =>
              Route[Url(r)] = "jina-reader" /\ req[r].allowPaid /\ ~ req[r].noCache
        BY <2>1
      <3>4. \A u \in Urls \ {Url(r)} : cache'[u] = cache[u]
        BY <2>4
      <3>5. PaidPagesWereOptedIn'
        BY <2>1, <3>1, <3>2, <3>3, <3>4
      <3> QED BY <2>2, <3>5
    <2> QED BY <1>9, <2>3, <2>4 DEF Write
  <1>10. CASE Crash(r)
    BY <1>10 DEF Crash, Inside
  <1> QED
    BY <1>1, <1>2, <1>4, <1>5, <1>6, <1>7, <1>8, <1>9, <1>10 DEF ReaderStep

LEMMA NextIInv == IInv /\ [Next]_vars => IInv'
PROOF
  <1> SUFFICES ASSUME IInv, [Next]_vars PROVE IInv'
    OBVIOUS
  <1>1. CASE \E r \in Readers : ReaderStep(r) \/ Crash(r)
    BY <1>1, StepType, StepLocks, StepPaid DEF IInv
  <1>2. CASE UNCHANGED vars
    BY <1>2 DEF vars, IInv, TypeOK, LocksHaveHolders, LocksHeld, PaidByOptIn,
       PaidPagesWereOptedIn, Url, Paid
  <1>3. CASE Tick
    <2>1. UNCHANGED <<req, pc, result, late, holder, cache>>
      BY <1>3 DEF Tick
    <2>2. TypeOK'
      BY <1>3, <2>1, ReadWebAssumption DEF Tick, IInv, TypeOK
    <2> QED
      BY <2>1, <2>2 DEF IInv, LocksHaveHolders, LocksHeld, PaidByOptIn,
         PaidPagesWereOptedIn, Url, Paid
  <1> QED BY <1>1, <1>2, <1>3 DEF Next

LEMMA IInvHolds == Spec => []IInv
PROOF
  BY InitIInv, NextIInv, PTL DEF Spec

\* Every value of the state keeps its type; in particular an entry lives as
\* long as the TTL of the provider that produced it.
THEOREM TypeCorrect == Spec => []TypeOK
PROOF
  <1>1. IInv => TypeOK
    BY DEF IInv
  <1> QED BY <1>1, IInvHolds, PTL

\* No exception, cache hit, timeout or crash leaves a key locked.
THEOREM LockTheorem == Spec => []LocksHaveHolders
PROOF
  <1>1. IInv => LocksHaveHolders
    BY DEF IInv
  <1> QED BY <1>1, IInvHolds, PTL

\* Two readers call the provider of one key together only after a timeout.
THEOREM DuplicatesTheorem == Spec => []DuplicatesAreLate
PROOF
  <1>1. IInv => DuplicatesAreLate
    BY DEF IInv, LocksHeld, DuplicatesAreLate, Calling
  <1> QED BY <1>1, IInvHolds, PTL

\* A paid page is cached only because a reader of that URL opted in.
THEOREM OptInTheorem == Spec => []PaidPagesWereOptedIn
PROOF
  <1>1. IInv => PaidPagesWereOptedIn
    BY DEF IInv
  <1> QED BY <1>1, IInvHolds, PTL
================================================================================
