----------------------------- MODULE ApprovalStore -----------------------------
(***************************************************************************)
(* How approvals.py keeps the promise of Approvals: processes that change  *)
(* approvals.json under a sentinel lock, by reading the whole file and     *)
(* replacing it (atomic_write_bytes).  Any of them may fail or die with    *)
(* the lock in its hands.                                                  *)
(***************************************************************************)
EXTENDS Approvals

CONSTANTS
    Writers,    \* the processes that run add_approval or revoke_scope once
    Changes,    \* what they may be asked
    Nobody      \* stands for "nobody holds the lock"

Change == [op : {"add", "revoke"}, scope : Scopes, session : Sessions, persisted : BOOLEAN]

ASSUME StoreAssumption == Changes \subseteq Change /\ Nobody \notin Writers

VARIABLES
    change,     \* what each writer was asked
    at,         \* the line it is at
    lock,       \* who holds .approvals.lock
    draft       \* the table each writer is about to write

writerVars == <<change, at, lock, draft>>
storeVars == <<now, grants, change, at, lock, draft>>

Table == [Scopes -> Grant \cup {NoGrant}]

StoreTypeOK ==
    /\ ApprovalsTypeOK
    /\ change \in [Writers -> Changes]
    /\ at \in [Writers -> {"idle", "waiting", "holding", "writing", "ended", "dead"}]
    /\ lock \in Writers \cup {Nobody}
    /\ draft \in [Writers -> Table]

StoreInit ==
    /\ Init
    /\ change \in [Writers -> Changes]
    /\ at = [w \in Writers |-> "idle"]
    /\ lock = Nobody
    /\ draft = [w \in Writers |-> grants]

Step(w, from, to) ==
    /\ at[w] = from
    /\ at' = [at EXCEPT ![w] = to]

Start(w) ==
    /\ Step(w, "idle", "waiting")
    /\ UNCHANGED <<approvalVars, change, lock, draft>>

\* Mutation of Acquire: the data file's own lock, which os.replace orphans.
Acquire_StaleInode(w) ==
    /\ Step(w, "waiting", "holding")
    /\ lock' = w
    /\ UNCHANGED <<approvalVars, change, draft>>

\* SentinelLock.__enter__
Acquire(w) ==
    /\ lock = Nobody
    /\ Step(w, "waiting", "holding")
    /\ lock' = w
    /\ UNCHANGED <<approvalVars, change, draft>>

\* Mutation of FreeLock: it frees nothing.
FreeLock_Never(w) == lock' = lock

\* SentinelLock.__exit__, or the kernel when the process dies.
FreeLock(w) == lock' = IF lock = w THEN Nobody ELSE lock

\* Mutation of Edit: only the request's own record is written back.
Edit_ForgetsOthers(w) ==
    LET r == change[w] IN
    /\ Step(w, "holding", "writing")
    /\ draft' = [draft EXCEPT ![w] = [s \in {r.scope} |->
                    IF r.op = "add" THEN Record(r.session, r.persisted, now) ELSE NoGrant]]
    /\ UNCHANGED <<approvalVars, change, lock>>

\* The file is read and edited in memory; a revocation that finds nothing
\* does not write.
Edit(w) ==
    LET r == change[w] IN
    /\ IF r.op = "revoke" /\ grants[r.scope] = NoGrant
       THEN Step(w, "holding", "ended") /\ FreeLock(w) /\ UNCHANGED draft
       ELSE /\ Step(w, "holding", "writing")
            /\ draft' = [draft EXCEPT ![w] =
                 [grants EXCEPT ![r.scope] =
                    IF r.op = "add" THEN Record(r.session, r.persisted, now) ELSE NoGrant]]
            /\ UNCHANGED lock
    /\ UNCHANGED <<approvalVars, change>>

Replace(w) ==
    /\ Step(w, "writing", "ended")
    /\ grants' = draft[w]
    /\ FreeLock(w)
    /\ UNCHANGED <<now, change, draft>>

\* An OSError on the way leaves the old file in place.
WriteFails(w) ==
    /\ Step(w, "writing", "ended")
    /\ FreeLock(w)
    /\ UNCHANGED <<approvalVars, change, draft>>

Die(w) ==
    /\ at[w] \in {"waiting", "holding", "writing"}
    /\ at' = [at EXCEPT ![w] = "dead"]
    /\ FreeLock(w)
    /\ UNCHANGED <<approvalVars, change, draft>>

WriterStep(w) ==
    \/ Start(w) \/ Acquire(w) \/ Edit(w)
    \/ Replace(w) \/ WriteFails(w)

StoreNext ==
    \/ \E w \in Writers : WriterStep(w) \/ Die(w)
    \/ Tick /\ UNCHANGED writerVars

\* A started writer has nothing to wait for but the lock, whose holder reads
\* and writes one file.
Fairness ==
    \A w \in Writers : WF_storeVars(Acquire(w)) /\ WF_storeVars(Edit(w)) /\ WF_storeVars(Replace(w) \/ WriteFails(w))

StoreSpec == StoreInit /\ [][StoreNext]_storeVars /\ Fairness

--------------------------------------------------------------------------------
(* Properties. *)

\* Requests of several processes change the table one after the other: no
\* write undoes another request's ("a stale-inode race", paths.SentinelLock).
ImplementsApprovals == Spec

\* A started request ends: no dead or failed writer leaves the lock behind.
RequestsEnd == \A w \in Writers : at[w] = "waiting" ~> at[w] \in {"ended", "dead"}

\* Inductive: the holder of the lock is alone in the section, and its draft
\* is the present table with its own request applied, at a time gone by.
Applied(w) ==
    LET r == change[w] IN
    \/ /\ r.op = "add"
       /\ \E t \in 0..now :
            draft[w] = [grants EXCEPT ![r.scope] = Record(r.session, r.persisted, t)]
    \/ /\ r.op = "revoke"
       /\ draft[w] = [grants EXCEPT ![r.scope] = NoGrant]

StoreInv ==
    /\ StoreTypeOK
    /\ \A w \in Writers : at[w] \in {"holding", "writing"} => lock = w
    /\ \A w \in Writers : at[w] = "writing" => Applied(w)
==============================================================================
