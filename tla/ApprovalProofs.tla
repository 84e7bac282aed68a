----------------------------- MODULE ApprovalProofs -----------------------------
(***************************************************************************)
(* Approvals from both sides.  The store implements Approvals, for any     *)
(* number of writers: the lock makes each of them apply its request to the *)
(* present table.  And what leaves the browser under Approvals was         *)
(* consented to, for any number of readers, sessions, scopes and pages,    *)
(* though the tab navigates and approvals come, expire and are revoked     *)
(* between any two steps.                                                  *)
(***************************************************************************)
EXTENDS ApprovalStore, TabRead, TLAPS

--------------------------------------------------------------------------------
(* The store. *)

\* What each request writes is a table.
LEMMA RecordIsGrant ==
  ASSUME NEW session \in Sessions, NEW persisted \in BOOLEAN, NEW t \in Nat
  PROVE  Record(session, persisted, t) \in Grant
PROOF
  BY ApprovalsAssumption DEF Record, Grant

LEMMA InitStoreInv == StoreInit => StoreInv
PROOF
  BY ApprovalsAssumption DEF StoreInit, Init, StoreInv, StoreTypeOK, ApprovalsTypeOK, Table

\* Only Replace and the clock change anything the others rely on.
LEMMA EditKeepsStoreInv ==
  ASSUME StoreInv, NEW w \in Writers, Edit(w)
  PROVE  StoreInv'
PROOF
  <1> DEFINE r == change[w]
  <1>1. r \in Change
    BY StoreAssumption DEF StoreInv, StoreTypeOK
  <1>2. Record(r.session, r.persisted, now) \in Grant
    BY <1>1, RecordIsGrant DEF StoreInv, StoreTypeOK, ApprovalsTypeOK, Change
  <1>3. CASE r.op = "revoke" /\ grants[r.scope] = NoGrant
    BY <1>3 DEF Edit, Step, FreeLock, approvalVars, StoreInv, StoreTypeOK, ApprovalsTypeOK, Applied
  <1>4. CASE ~ (r.op = "revoke" /\ grants[r.scope] = NoGrant)
    <2> DEFINE g == IF r.op = "add" THEN Record(r.session, r.persisted, now) ELSE NoGrant
               d == [grants EXCEPT ![r.scope] = g]
    <2>1. /\ at[w] = "holding" /\ at' = [at EXCEPT ![w] = "writing"]
          /\ draft' = [draft EXCEPT ![w] = d]
          /\ UNCHANGED <<now, grants, change, lock>>
      BY <1>4 DEF Edit, Step, approvalVars
    <2>2. d \in Table
      BY <1>2 DEF StoreInv, StoreTypeOK, ApprovalsTypeOK, Table
    <2>3. StoreTypeOK'
      BY <2>1, <2>2 DEF StoreInv, StoreTypeOK, ApprovalsTypeOK
    <2>4. Applied(w)'
      <3>1. draft'[w] = d /\ change'[w] = r /\ grants' = grants /\ now' = now
        BY <2>1 DEF StoreInv, StoreTypeOK
      <3>2. CASE r.op = "add"
        <4>1. now \in 0..now
          BY ApprovalsAssumption DEF StoreInv, StoreTypeOK, ApprovalsTypeOK
        <4> QED BY <3>1, <3>2, <4>1 DEF Applied
      <3>3. CASE r.op = "revoke"
        BY <3>1, <3>3 DEF Applied
      <3> QED BY <3>2, <3>3, <1>1 DEF Change
    <2>5. \A v \in Writers \ {w} : at'[v] = at[v] /\ draft'[v] = draft[v]
      BY <2>1 DEF StoreInv, StoreTypeOK
    <2>6. at'[w] = "writing"
      BY <2>1 DEF StoreInv, StoreTypeOK
    <2>7. \A v \in Writers : at'[v] \in {"holding", "writing"} => lock' = v
      BY <2>1, <2>5 DEF StoreInv
    <2>8. \A v \in Writers : at'[v] = "writing" => Applied(v)'
      <3>1. \A v \in Writers \ {w} : at'[v] # "writing"
        BY <2>1, <2>5 DEF StoreInv
      <3> QED BY <2>4, <3>1
    <2> QED BY <2>3, <2>7, <2>8 DEF StoreInv
  <1> QED BY <1>3, <1>4

\* Nobody else is in the section when the file is replaced.
LEMMA ReplaceKeepsStoreInv ==
  ASSUME StoreInv, NEW w \in Writers, Replace(w)
  PROVE  StoreInv'
PROOF
  <1>1. \A v \in Writers : at'[v] \notin {"holding", "writing"}
    BY DEF Replace, Step, StoreInv, StoreTypeOK
  <1>2. StoreTypeOK'
    BY DEF Replace, Step, FreeLock, StoreInv, StoreTypeOK, ApprovalsTypeOK, Table
  <1> QED BY <1>1, <1>2 DEF StoreInv

LEMMA StepKeepsStoreInv == StoreInv /\ [StoreNext]_storeVars => StoreInv'
PROOF
  <1> SUFFICES ASSUME StoreInv, [StoreNext]_storeVars PROVE StoreInv'
    OBVIOUS
  <1>1. ASSUME NEW w \in Writers, Start(w) PROVE StoreInv'
    BY <1>1 DEF Start, Step, approvalVars, StoreInv, StoreTypeOK, ApprovalsTypeOK, Applied
  <1>2. ASSUME NEW w \in Writers, Acquire(w) PROVE StoreInv'
    BY <1>2, StoreAssumption
    DEF Acquire, Step, approvalVars, StoreInv, StoreTypeOK, ApprovalsTypeOK, Applied
  <1>3. ASSUME NEW w \in Writers, WriteFails(w) \/ Die(w) PROVE StoreInv'
    BY <1>3 DEF WriteFails, Die, Step, FreeLock, approvalVars, StoreInv, StoreTypeOK, ApprovalsTypeOK, Applied
  <1>4. ASSUME Tick, UNCHANGED writerVars PROVE StoreInv'
    <2>1. StoreTypeOK'
      BY <1>4, ApprovalsAssumption DEF Tick, writerVars, StoreInv, StoreTypeOK, ApprovalsTypeOK
    <2>2. \A t \in 0..now : t \in 0..now'
      BY <1>4, ApprovalsAssumption DEF Tick, StoreInv, StoreTypeOK, ApprovalsTypeOK
    <2>3. \A w \in Writers : Applied(w) => Applied(w)'
      BY <1>4, <2>2 DEF Tick, writerVars, Applied
    <2> QED BY <1>4, <2>1, <2>3 DEF Tick, writerVars, StoreInv
  <1>5. CASE UNCHANGED storeVars
    BY <1>5 DEF storeVars, StoreInv, StoreTypeOK, ApprovalsTypeOK, Applied
  <1> QED
    BY <1>1, <1>2, <1>3, <1>4, <1>5, EditKeepsStoreInv, ReplaceKeepsStoreInv DEF StoreNext, WriterStep

THEOREM StoreInvHolds == StoreSpec => []StoreInv
PROOF
  BY InitStoreInv, StepKeepsStoreInv, PTL DEF StoreSpec

\* The store's type invariant.
THEOREM StoreTypeCorrect == StoreSpec => []StoreTypeOK
PROOF
  BY StoreInvHolds, PTL DEF StoreInv

--------------------------------------------------------------------------------

\* A replacement is one request of Approvals.
LEMMA ReplaceIsARequest ==
  ASSUME StoreInv, NEW w \in Writers, Replace(w)
  PROVE  Next
PROOF
  <1> DEFINE r == change[w]
  <1>1. r \in Change
    BY StoreAssumption DEF StoreInv, StoreTypeOK
  <1>2. Applied(w) /\ grants' = draft[w] /\ UNCHANGED now
    BY DEF Replace, Step, StoreInv
  <1>3. CASE r.op = "add"
    <2>1. Add(r.scope, r.session, r.persisted)
      BY <1>2, <1>3 DEF Applied, Add
    <2> QED BY <2>1, <1>1 DEF Next, Change
  <1>4. CASE r.op = "revoke"
    <2>1. Revoke(r.scope)
      BY <1>2, <1>4 DEF Applied, Revoke
    <2> QED BY <2>1, <1>1 DEF Next, Change
  <1> QED BY <1>1, <1>3, <1>4 DEF Change

LEMMA StoreSimulation == StoreInv /\ [StoreNext]_storeVars => [Next]_approvalVars
PROOF
  <1> SUFFICES ASSUME StoreInv, [StoreNext]_storeVars PROVE [Next]_approvalVars
    OBVIOUS
  <1>1. ASSUME NEW w \in Writers, Start(w) \/ Acquire(w) \/ Edit(w) \/ WriteFails(w) \/ Die(w)
        PROVE  UNCHANGED approvalVars
    BY <1>1 DEF Start, Acquire, Edit, WriteFails, Die
  <1>2. CASE Tick
    BY <1>2 DEF Next
  <1>3. CASE UNCHANGED storeVars
    BY <1>3 DEF storeVars, approvalVars
  <1> QED BY <1>1, <1>2, <1>3, ReplaceIsARequest DEF StoreNext, WriterStep

\* Concurrent writers behave like one request after the other.
THEOREM StoreTheorem == StoreSpec => ImplementsApprovals
PROOF
  <1>1. StoreInit => Init
    BY DEF StoreInit
  <1> QED BY <1>1, StoreInvHolds, StoreSimulation, PTL DEF StoreSpec, Spec, ImplementsApprovals

--------------------------------------------------------------------------------
(* Reading tabs. *)

LEMMA InitIInv == TabInit => IInv
PROOF
  <1> SUFFICES ASSUME TabInit PROVE IInv
    OBVIOUS
  <1>1. TypeOK
    BY ApprovalsAssumption DEF TabInit, Init, TypeOK, ApprovalsTypeOK, Steps
  <1>2. GrantsStand /\ ScopesAreBacked
    BY DEF TabInit, Init, GrantsStand, ScopesAreBacked
  <1>3. LooksHold
    BY DEF TabInit, LooksHold
  <1> QED BY <1>1, <1>2, <1>3 DEF IInv

\* The steps that change neither the store nor anybody's authorisation.
Quiet == UNCHANGED <<approvalVars, req, clock, scopes, recorded, standing, backing>>

LEMMA QuietKeepsGrantsStand ==
  ASSUME GrantsStand, Quiet,
         \A r \in Readers : pc'[r] = "approving" => pc[r] = "approving" \/ req[r].scope # NoScope
  PROVE  GrantsStand'
PROOF
  BY DEF GrantsStand, Quiet, approvalVars

LEMMA QuietKeepsBacked ==
  ASSUME Quiet, NEW r \in Readers, NEW s \in Scopes
  PROVE  Backed(r, s)' <=> Backed(r, s)
PROOF
  BY DEF Quiet, Backed

LEMMA QuietKeepsAuthorized ==
  ASSUME Quiet, NEW r \in Readers, NEW u
  PROVE  Authorized(r, u)' <=> Authorized(r, u)
PROOF
  BY DEF Quiet, Authorized, CanRead, OneTime

--------------------------------------------------------------------------------
(* Types. *)

LEMMA ApproveKeepsTypeOK ==
  ASSUME TypeOK, NEW r \in Readers, Approve(r), req[r].scope # NoScope
  PROVE  TypeOK'
PROOF
  <1>1. req[r] \in Request
    BY TabReadAssumption DEF TypeOK
  <1>2. PICK t \in 0..now :
          grants' = [grants EXCEPT ![req[r].scope] = Record(req[r].session, req[r].persist, t)]
    BY DEF Approve, Add
  <1>3. Record(req[r].session, req[r].persist, t) \in Grant
    BY <1>1, RecordIsGrant DEF Request, TypeOK, ApprovalsTypeOK
  <1>4. ApprovalsTypeOK'
    BY <1>2, <1>3 DEF Approve, Add, TypeOK, ApprovalsTypeOK
  <1> QED BY <1>4 DEF Approve, Add, Go, TypeOK, ApprovalsTypeOK, Steps

LEMMA StepKeepsTypeOK ==
  ASSUME TypeOK, [TabNext]_vars,
         GrantsStand
  PROVE  TypeOK'
PROOF
  <1> USE DEF TypeOK, ApprovalsTypeOK, Steps, Go, approvalVars, history
  <1>1. ASSUME NEW r \in Readers, ListTab(r) \/ BeginListAll(r) \/ ReadClock(r) PROVE TypeOK'
    BY <1>1 DEF ListTab, BeginListAll, ReadClock
  <1>2. ASSUME NEW r \in Readers, LoadScopes(r) PROVE TypeOK'
    <2>1. Active(grants, req[r].session, clock[r]) \subseteq Scopes
      BY DEF Active
    <2>2. Own(r) \subseteq Scopes
      BY DEF Own
    <2> QED BY <1>2, <2>1, <2>2 DEF LoadScopes, AfterLoading
  <1>3. ASSUME NEW r \in Readers, Approve(r) PROVE TypeOK'
    BY <1>3, ApproveKeepsTypeOK DEF Approve, GrantsStand
  <1>4. ASSUME NEW r \in Readers, RevokeScope(r) PROVE TypeOK'
    BY <1>4 DEF RevokeScope, Revoke
  <1>5. ASSUME NEW r \in Readers, Relist(r) \/ LookAtFrame(r) PROVE TypeOK'
    BY <1>5 DEF Relist, LookAtFrame, Look
  <1>6. ASSUME NEW r \in Readers,
               Evaluate(r) \/ Capture(r) \/ Confirm(r) \/ FetchList(r) \/ Fail(r)
        PROVE  TypeOK'
    BY <1>6 DEF Evaluate, Capture, Confirm, FetchList, Fail, Gets
  <1>7. CASE Navigate
    BY <1>7 DEF Navigate, readVars
  <1>8. CASE Tick /\ UNCHANGED <<page, readVars, history>>
    BY <1>8, ApprovalsAssumption DEF Tick, readVars
  <1>9. CASE UNCHANGED vars
    BY <1>9 DEF vars
  <1> QED
    BY <1>1, <1>2, <1>3, <1>4, <1>5, <1>6, <1>7, <1>8, <1>9 DEF TabNext, ReaderStep

--------------------------------------------------------------------------------
(* The approvals behind the grants. *)

\* A new grant is what its reader's approval recorded.
LEMMA ApproveKeepsGrantsStand ==
  ASSUME TypeOK, GrantsStand, NEW r \in Readers, Approve(r)
  PROVE  GrantsStand'
PROOF
  <1>1. req[r] \in Request /\ req[r].scope \in Scopes /\ req' = req /\ now' = now
    BY TabReadAssumption DEF TypeOK, Approve, GrantsStand, Go, Request, Add
  <1>2. PICK t \in 0..now :
          grants' = [grants EXCEPT ![req[r].scope] = Record(req[r].session, req[r].persist, t)]
    BY DEF Approve, Add
  <1>3. /\ recorded' = [recorded EXCEPT ![r] = now] /\ standing' = standing \cup {r}
        /\ UNCHANGED backing
    BY DEF Approve
  <1>4. now \in Nat /\ now # Never /\ SessionTtl \in Nat
    BY TabReadAssumption, ApprovalsAssumption DEF TypeOK, ApprovalsTypeOK
  <1>5. ASSUME NEW s \in Scopes, grants'[s] # NoGrant
        PROVE  \E q \in standing' :
                  /\ req[q].scope = s
                  /\ grants'[s].session = req[q].session
                  /\ grants'[s].persisted = req[q].persist
                  /\ grants'[s].expires <= recorded'[q] + SessionTtl
    <2>1. CASE s = req[r].scope
      <3>1. grants'[s] = Record(req[r].session, req[r].persist, t)
        BY <1>2, <2>1 DEF TypeOK, ApprovalsTypeOK
      <3>2. recorded'[r] = now /\ r \in standing'
        BY <1>3 DEF TypeOK
      <3>3. t + SessionTtl <= now + SessionTtl
        BY <1>4
      <3> QED BY <2>1, <3>1, <3>2, <3>3 DEF Record
    <2>2. CASE s # req[r].scope
      <3>1. grants'[s] = grants[s]
        BY <1>2, <2>2 DEF TypeOK, ApprovalsTypeOK
      <3>2. PICK q \in standing :
               /\ req[q].scope = s
               /\ grants[s].session = req[q].session
               /\ grants[s].persisted = req[q].persist
               /\ grants[s].expires <= recorded[q] + SessionTtl
        BY <1>5, <3>1 DEF GrantsStand
      <3>3. recorded[q] \in Nat /\ recorded[q] <= recorded'[q] /\ recorded'[q] \in Nat
        BY <1>3, <1>4 DEF TypeOK, GrantsStand
      <3>4. grants[s].expires \in Nat
        BY <1>5, <3>1 DEF TypeOK, ApprovalsTypeOK, Grant
      <3> QED BY <1>3, <1>4, <3>1, <3>2, <3>3, <3>4
    <2> QED BY <2>1, <2>2
  <1>6. ASSUME NEW q \in Readers
        PROVE  /\ pc'[q] = "approving" => req[q].scope # NoScope
               /\ recorded'[q] # Never => recorded'[q] <= now'
               /\ q \in standing' \/ (\E p \in Readers : q \in backing'[p])
                    => recorded'[q] # Never
    <2>1. CASE q = r
      BY <1>1, <1>3, <1>4, <2>1 DEF Approve, Go, TypeOK
    <2>2. CASE q # r
      BY <1>1, <1>3, <2>2 DEF Approve, Go, TypeOK, GrantsStand
    <2> QED BY <2>1, <2>2
  <1> QED BY <1>1, <1>5, <1>6 DEF GrantsStand

LEMMA StepKeepsGrantsStand ==
  ASSUME TypeOK, GrantsStand, [TabNext]_vars
  PROVE  GrantsStand'
PROOF
  <1> USE DEF Go, history, Quiet
  <1>1. ASSUME NEW r \in Readers, ListTab(r) \/ BeginListAll(r) PROVE GrantsStand'
    BY <1>1, QuietKeepsGrantsStand DEF ListTab, BeginListAll, TypeOK
  <1>2. ASSUME NEW r \in Readers, ReadClock(r) PROVE GrantsStand'
    BY <1>2 DEF ReadClock, GrantsStand, approvalVars, TypeOK
  <1>3. ASSUME NEW r \in Readers, LoadScopes(r) PROVE GrantsStand'
    <2>1. \A q \in Readers : pc'[q] = "approving" => req[q].scope # NoScope
      BY <1>3 DEF LoadScopes, AfterLoading, TypeOK, GrantsStand
    <2>2. \A q \in Readers :
             q \in standing \/ (\E p \in Readers : q \in backing'[p]) => recorded[q] # Never
      BY <1>3 DEF LoadScopes, TypeOK, GrantsStand
    <2> QED BY <1>3, <2>1, <2>2 DEF LoadScopes, approvalVars, GrantsStand
  <1>4. ASSUME NEW r \in Readers, RevokeScope(r) PROVE GrantsStand'
    <2>1. \A s \in Scopes : grants'[s] # NoGrant =>
             s # req[r].scope /\ grants'[s] = grants[s]
      BY <1>4 DEF RevokeScope, Revoke, TypeOK, ApprovalsTypeOK
    <2> QED BY <1>4, <2>1 DEF RevokeScope, Revoke, GrantsStand, TypeOK
  <1>5. ASSUME NEW r \in Readers, Relist(r) \/ LookAtFrame(r) PROVE GrantsStand'
    BY <1>5, QuietKeepsGrantsStand DEF Relist, LookAtFrame, Look, TypeOK
  <1>6. ASSUME NEW r \in Readers,
               Evaluate(r) \/ Capture(r) \/ Confirm(r) \/ FetchList(r) \/ Fail(r)
        PROVE  GrantsStand'
    BY <1>6, QuietKeepsGrantsStand DEF Evaluate, Capture, Confirm, FetchList, Fail, TypeOK
  <1>7. CASE Navigate
    BY <1>7, QuietKeepsGrantsStand DEF Navigate, readVars
  <1>8. CASE Tick /\ UNCHANGED <<page, readVars, history>>
    <2>1. now' = now + 1 /\ now \in Nat
      BY <1>8 DEF Tick, TypeOK, ApprovalsTypeOK
    <2>2. \A q \in Readers : recorded[q] # Never => recorded[q] \in Nat
      BY DEF TypeOK
    <2> QED BY <1>8, <2>1, <2>2 DEF Tick, readVars, GrantsStand
  <1>9. CASE UNCHANGED vars
    BY <1>9 DEF vars, GrantsStand
  <1> QED
    BY <1>1, <1>2, <1>3, <1>4, <1>5, <1>6, <1>7, <1>8, <1>9, ApproveKeepsGrantsStand
    DEF TabNext, ReaderStep

--------------------------------------------------------------------------------
(* The authorisation a reader holds. *)

\* What is active when a reader looks is backed by the approvals that stand.
LEMMA ActiveIsBacked ==
  ASSUME TypeOK, GrantsStand, NEW r \in Readers,
         NEW s \in Active(grants, req[r].session, clock[r])
  PROVE  \E q \in standing :
            /\ req[q].scope = s
            /\ \/ req[q].persist
               \/ req[q].session = req[r].session /\ recorded[q] + SessionTtl > clock[r]
PROOF
  <1>1. /\ s \in Scopes /\ grants[s] # NoGrant
        /\ grants[s].persisted
             \/ (grants[s].expires > clock[r] /\ grants[s].session = req[r].session)
    BY DEF Active
  <1>2. PICK q \in standing :
           /\ req[q].scope = s
           /\ grants[s].session = req[q].session
           /\ grants[s].persisted = req[q].persist
           /\ grants[s].expires <= recorded[q] + SessionTtl
    BY <1>1 DEF GrantsStand
  <1>3. CASE grants[s].persisted
    BY <1>2, <1>3
  <1>4. CASE grants[s].expires > clock[r] /\ grants[s].session = req[r].session
    <2>1. recorded[q] \in Nat /\ grants[s].expires \in Nat /\ clock[r] \in Nat /\ SessionTtl \in Nat
      BY <1>1, ApprovalsAssumption DEF TypeOK, ApprovalsTypeOK, Grant, GrantsStand
    <2>2. \A a, b, x \in Nat : a > b /\ a <= x => x > b
      OBVIOUS
    <2>3. recorded[q] + SessionTtl > clock[r]
      BY <1>2, <1>4, <2>1, <2>2
    <2>4. req[q].session = req[r].session
      BY <1>2, <1>4
    <2> QED BY <1>2, <2>3, <2>4
  <1> QED BY <1>1, <1>3, <1>4

LEMMA LoadKeepsScopesBacked ==
  ASSUME TypeOK, GrantsStand, ScopesAreBacked, NEW r \in Readers, LoadScopes(r)
  PROVE  ScopesAreBacked'
PROOF
  <1> DEFINE active == Active(grants, req[r].session, clock[r])
  <1>1. /\ scopes' = [scopes EXCEPT ![r] = IF Reads(r) THEN active \cup Own(r) ELSE active]
        /\ backing' = [backing EXCEPT ![r] = standing]
        /\ pc[r] = "loading"
        /\ pc' = [pc EXCEPT ![r] = IF Reads(r) THEN AfterLoading(r, active)
                                   ELSE IF ListAllTabs \in active THEN "connecting" ELSE "denied"]
        /\ UNCHANGED <<req, clock, recorded>>
    BY DEF LoadScopes, Go
  <1>2. ASSUME NEW s \in scopes'[r] PROVE Backed(r, s)'
    <2>1. CASE s \in active
      BY <1>1, <2>1, ActiveIsBacked DEF Backed, TypeOK
    <2>2. CASE s \in Own(r)
      BY <1>1, <2>2 DEF Backed, Own
    <2> QED BY <1>1, <1>2, <2>1, <2>2 DEF TypeOK
  <1>3. \A q \in Readers \ {r} : \A s \in scopes'[q] : Backed(q, s)'
    BY <1>1 DEF ScopesAreBacked, Backed, TypeOK
  <1>4. pc'[r] \notin {"idle", "listed", "loading", "done"}
    BY <1>1 DEF AfterLoading, TypeOK
  <1>5. Reads(r) => req[r].op # "list_all"
    BY DEF Reads
  <1>6. pc'[r] = "approving" => Reads(r)
    BY <1>1 DEF TypeOK
  <1>7. req[r].op = "list_all" /\ pc'[r] = "connecting" => ListAllTabs \in scopes'[r]
    BY <1>1, <1>5 DEF TypeOK
  <1>8. \A q \in Readers \ {r} : pc'[q] = pc[q] /\ scopes'[q] = scopes[q]
    BY <1>1 DEF TypeOK
  <1>9. \A q \in Readers : Reads(q)' <=> Reads(q)
    BY <1>1 DEF Reads
  <1> QED BY <1>1, <1>2, <1>3, <1>4, <1>6, <1>7, <1>8, <1>9 DEF ScopesAreBacked

\* All other steps leave the authorisations and what backs them as they are,
\* but for the clock of a reader that has none yet and later approvals.
LEMMA StepKeepsScopesBacked ==
  ASSUME TypeOK, GrantsStand, ScopesAreBacked, LooksHold, [TabNext]_vars
  PROVE  ScopesAreBacked'
PROOF
  <1> USE DEF Go, history, Quiet, Reads
  <1>1. ASSUME NEW r \in Readers, ListTab(r) \/ BeginListAll(r) PROVE ScopesAreBacked'
    BY <1>1 DEF ListTab, BeginListAll, TypeOK, ScopesAreBacked, Backed
  <1>2. ASSUME NEW r \in Readers, ReadClock(r) PROVE ScopesAreBacked'
    BY <1>2 DEF ReadClock, TypeOK, ScopesAreBacked, Backed
  <1>3. ASSUME NEW r \in Readers, Approve(r) PROVE ScopesAreBacked'
    <2>1. /\ recorded' = [recorded EXCEPT ![r] = now]
          /\ UNCHANGED <<req, clock, scopes, backing>>
      BY <1>3 DEF Approve
    <2>2. ASSUME NEW q \in Readers, NEW s \in Scopes, Backed(q, s) PROVE Backed(q, s)'
      <3>1. CASE req[q].scope = s
        BY <2>1, <3>1 DEF Backed
      <3>2. CASE req[q].scope # s
        <4>1. PICK p \in backing[q] :
                /\ req[p].scope = s
                /\ \/ req[p].persist
                   \/ req[p].session = req[q].session /\ recorded[p] + SessionTtl > clock[q]
          BY <2>2, <3>2 DEF Backed
        <4>2. recorded[p] \in Nat /\ recorded'[p] \in Nat /\ recorded[p] <= recorded'[p]
          BY <2>1 DEF TypeOK, ApprovalsTypeOK, GrantsStand
        <4>3. clock[q] \in Nat /\ SessionTtl \in Nat
          BY ApprovalsAssumption DEF TypeOK
        <4>4. recorded[p] + SessionTtl > clock[q] => recorded'[p] + SessionTtl > clock[q]
          BY <4>2, <4>3
        <4> QED BY <2>1, <4>1, <4>4 DEF Backed
      <3> QED BY <3>1, <3>2
    <2>3. \A q \in Readers : \A s \in scopes'[q] : Backed(q, s)'
      BY <2>1, <2>2 DEF TypeOK, ScopesAreBacked
    <2>4. \A q \in Readers :
             /\ pc'[q] \in {"idle", "listed", "loading"} \/ (pc'[q] = "approving" /\ ~ Reads(q)')
                   => scopes'[q] = {}
             /\ req'[q].op = "list_all" /\ pc'[q] \in {"connecting", "done"}
                   => ListAllTabs \in scopes'[q]
      BY <1>3, <2>1 DEF Approve, TypeOK, ScopesAreBacked
    <2> QED BY <2>3, <2>4 DEF ScopesAreBacked
  <1>4. ASSUME NEW r \in Readers, RevokeScope(r) PROVE ScopesAreBacked'
    BY <1>4 DEF RevokeScope, TypeOK, ScopesAreBacked, Backed
  <1>5. ASSUME NEW r \in Readers, Relist(r) \/ LookAtFrame(r) PROVE ScopesAreBacked'
    BY <1>5 DEF Relist, LookAtFrame, Look, TypeOK, ScopesAreBacked, Backed
  <1>6. ASSUME NEW r \in Readers,
               Evaluate(r) \/ Capture(r) \/ Confirm(r) \/ FetchList(r) \/ Fail(r)
        PROVE  ScopesAreBacked'
    BY <1>6 DEF Evaluate, Capture, Confirm, FetchList, Fail, TypeOK, ScopesAreBacked, Backed,
                LooksHold
  <1>7. CASE Navigate
    BY <1>7 DEF Navigate, readVars, ScopesAreBacked, Backed
  <1>8. CASE Tick /\ UNCHANGED <<page, readVars, history>>
    BY <1>8 DEF Tick, readVars, ScopesAreBacked, Backed
  <1>9. CASE UNCHANGED vars
    BY <1>9 DEF vars, ScopesAreBacked, Backed
  <1> QED
    BY <1>1, <1>2, <1>3, <1>4, <1>5, <1>6, <1>7, <1>8, <1>9, LoadKeepsScopesBacked
    DEF TabNext, ReaderStep

--------------------------------------------------------------------------------
(* What a look at the tab says of the content. *)

\* The steps in the browser, where nobody's authorisation changes.
LEMMA BrowserKeepsLooks ==
  ASSUME TypeOK, LooksHold, NEW r \in Readers,
         Relist(r) \/ LookAtFrame(r) \/ Evaluate(r) \/ Capture(r) \/ Confirm(r)
           \/ FetchList(r) \/ Fail(r)
  PROVE  LooksHold'
PROOF
  <1> USE DEF Go, history, Quiet, Reads
  <1>1. Quiet /\ page' = page
    BY DEF Relist, LookAtFrame, Evaluate, Capture, Confirm, FetchList, Fail, Look
  <1>2. \A q \in Readers : \A u : Authorized(q, u)' <=> Authorized(q, u)
    BY <1>1, QuietKeepsAuthorized
  <1>3. \A q \in Readers : Authorized(q, page)' <=> Authorized(q, page)
    BY <1>1, <1>2
  <1>4. \A q \in Readers : content'[q] = content[q] =>
           (Authorized(q, content[q])' <=> Authorized(q, content[q]))
    BY <1>2
  <1>5. CASE Relist(r)
    BY <1>1, <1>3, <1>4, <1>5 DEF Relist, Look, TypeOK, LooksHold
  <1>6. CASE LookAtFrame(r)
    BY <1>1, <1>3, <1>4, <1>6 DEF LookAtFrame, Look, TypeOK, LooksHold
  <1>7. CASE Evaluate(r)
    BY <1>1, <1>3, <1>4, <1>7 DEF Evaluate, Gets, TypeOK, LooksHold
  <1>8. CASE Capture(r)
    BY <1>1, <1>3, <1>4, <1>8 DEF Capture, Gets, TypeOK, LooksHold
  <1>9. CASE Confirm(r)
    BY <1>1, <1>3, <1>4, <1>9 DEF Confirm, TypeOK, LooksHold
  <1>10. CASE FetchList(r)
    BY <1>1, <1>3, <1>4, <1>10 DEF FetchList, TypeOK, LooksHold
  <1>11. CASE Fail(r)
    BY <1>1, <1>3, <1>4, <1>11 DEF Fail, TypeOK, LooksHold
  <1> QED BY <1>5, <1>6, <1>7, <1>8, <1>9, <1>10, <1>11

LEMMA StepKeepsLooks ==
  ASSUME TypeOK, LooksHold, [TabNext]_vars
  PROVE  LooksHold'
PROOF
  <1> USE DEF Go, history, Quiet, Reads
  <1>1. ASSUME NEW r \in Readers, ListTab(r) \/ BeginListAll(r) \/ ReadClock(r)
        PROVE  LooksHold'
    <2>1. pc'[r] \in {"listed", "approving", "loading"}
      BY <1>1 DEF ListTab, BeginListAll, ReadClock, TypeOK
    <2>2. \A q \in Readers \ {r} : pc'[q] = pc[q]
      BY <1>1 DEF ListTab, BeginListAll, ReadClock, TypeOK
    <2>3. UNCHANGED <<req, page, content, moves, scopes>>
      BY <1>1 DEF ListTab, BeginListAll, ReadClock
    <2> QED BY <2>1, <2>2, <2>3 DEF LooksHold, Authorized, CanRead, OneTime
  <1>2. ASSUME NEW r \in Readers, LoadScopes(r) PROVE LooksHold'
    <2>1. pc'[r] \in {"connecting", "approving", "denied"}
      BY <1>2 DEF LoadScopes, AfterLoading, TypeOK
    <2>2. \A q \in Readers \ {r} : pc'[q] = pc[q] /\ scopes'[q] = scopes[q]
      BY <1>2 DEF LoadScopes, TypeOK
    <2>3. UNCHANGED <<req, page, content, moves>>
      BY <1>2 DEF LoadScopes
    <2> QED BY <2>1, <2>2, <2>3 DEF LooksHold, Authorized, CanRead, OneTime
  <1>3. ASSUME NEW r \in Readers, Approve(r) \/ RevokeScope(r) PROVE LooksHold'
    <2>1. /\ pc'[r] \in {"connecting", "listed", "done"}
          /\ pc'[r] = "done" => req[r].op = "revoke"
      BY <1>3 DEF Approve, RevokeScope, TypeOK
    <2>2. \A q \in Readers \ {r} : pc'[q] = pc[q]
      BY <1>3 DEF Approve, RevokeScope, TypeOK
    <2>3. UNCHANGED <<req, page, content, moves, scopes>>
      BY <1>3 DEF Approve, RevokeScope
    <2> QED BY <2>1, <2>2, <2>3 DEF LooksHold, Authorized, CanRead, OneTime
  <1>4. CASE Navigate
    <2>1. PICK u \in Urls \ {page} : page' = u
      BY <1>4 DEF Navigate
    <2>2. /\ moves' = [q \in Readers |->
                        IF pc[q] \in {"capturing", "confirming"} /\ moves[q] < 2
                        THEN moves[q] + 1 ELSE moves[q]]
          /\ UNCHANGED <<req, pc, scopes, content>>
      BY <1>4 DEF Navigate, readVars
    <2>3. ASSUME NEW q \in Readers, pc[q] \in {"capturing", "confirming"}
          PROVE  moves'[q] # 0 /\ (moves'[q] <= 1 => moves[q] = 0)
      BY <2>2, <2>3 DEF TypeOK
    <2>4. \A q \in Readers, v \in Urls \cup {Nothing} : Authorized(q, v)' <=> Authorized(q, v)
      BY <2>2 DEF Authorized, CanRead, OneTime
    <2>5. ASSUME NEW q \in Readers, pc[q] = "confirming", moves'[q] <= 1
          PROVE  Authorized(q, content[q])
      BY <2>3, <2>5 DEF LooksHold
    <2>6. ASSUME NEW q \in Readers, pc[q] = "done" PROVE moves'[q] = moves[q]
      BY <2>2, <2>6
    <2>7. \A q \in Readers : content'[q] = content[q] /\ content[q] \in Urls \cup {Nothing}
      BY <2>2 DEF TypeOK
    <2>8. \A q \in Readers : Authorized(q, content[q])' <=> Authorized(q, content[q])
      BY <2>2 DEF Authorized, CanRead, OneTime
    <2> QED BY <2>2, <2>3, <2>5, <2>6, <2>8 DEF LooksHold
  <1>5. CASE (Tick /\ UNCHANGED <<page, readVars, history>>) \/ UNCHANGED vars
    BY <1>5 DEF readVars, vars, LooksHold, Authorized, CanRead, OneTime
  <1> QED
    BY <1>1, <1>2, <1>3, <1>4, <1>5, BrowserKeepsLooks DEF TabNext, ReaderStep

THEOREM IInvHolds == TabSpec => []IInv
PROOF
  <1>1. IInv /\ [TabNext]_vars => IInv'
    BY StepKeepsTypeOK, StepKeepsGrantsStand, StepKeepsScopesBacked, StepKeepsLooks DEF IInv
  <1> QED BY <1>1, InitIInv, PTL DEF TabSpec

\* The type invariant.
THEOREM TypeCorrect == TabSpec => []TypeOK
PROOF
  BY IInvHolds, PTL DEF IInv

\* What is authorised was consented to.
LEMMA AuthorizedIsConsented ==
  ASSUME IInv, NEW r \in Readers, NEW u, Authorized(r, u)
  PROVE  Consented(r, u)
PROOF
  <1>1. \A s \in scopes[r] : s \in Scopes /\ Backed(r, s)
    BY DEF IInv, TypeOK, ScopesAreBacked
  <1> QED BY <1>1 DEF Authorized, CanRead, Consented

\* No text leaves the browser without consent to the page it comes from.
THEOREM TextTheorem == TabSpec => []TextWasConsented
PROOF
  <1>1. IInv => TextWasConsented
    BY AuthorizedIsConsented DEF IInv, LooksHold, Reads, TextWasConsented
  <1> QED BY <1>1, IInvHolds, PTL

\* No image does, if the tab navigates at most once around the capture.
THEOREM ScreenshotTheorem == TabSpec => []ScreenshotWasConsented
PROOF
  <1>1. IInv => ScreenshotWasConsented
    BY AuthorizedIsConsented DEF IInv, LooksHold, Reads, ScreenshotWasConsented
  <1> QED BY <1>1, IInvHolds, PTL

\* The list of all tabs is only shown to who may see it.
THEOREM ListingTheorem == TabSpec => []ListingWasConsented
PROOF
  <1>1. IInv => ListingWasConsented
    BY DEF IInv, ScopesAreBacked, ListingWasConsented
  <1> QED BY <1>1, IInvHolds, PTL
================================================================================
