------------------------------- MODULE Approvals -------------------------------
(***************************************************************************)
(* What approvals.py promises its callers: a table with at most one grant  *)
(* per scope, changed one whole request at a time, and the policy that     *)
(* decides from scopes whether a URL may be read.  How requests of several *)
(* processes get serialised is the subject of ApprovalStore.               *)
(***************************************************************************)
EXTENDS Naturals

CONSTANTS
    Sessions,
    Urls,           \* canonical URLs a tab may show
    Scopes,         \* canonical scopes
    ExactScopes,    \* those of kind `exact:`
    Covers,         \* approval_matches: the pairs <<scope, url>> that match
    DefaultDenied,  \* the URLs is_default_denied holds for
    SessionTtl,     \* SESSION_TTL_SECONDS, in ticks
    MaxTime,        \* bound on the clock
    NoGrant         \* stands for "no record of this scope"

Grant == [session : Sessions, persisted : BOOLEAN, expires : Nat]

ASSUME ApprovalsAssumption ==
    /\ ExactScopes \subseteq Scopes
    /\ Covers \subseteq Scopes \X Urls
    /\ DefaultDenied \subseteq Urls
    /\ SessionTtl \in Nat
    /\ MaxTime \in Nat
    /\ NoGrant \notin Grant

VARIABLES
    now,        \* datetime.now(UTC), in ticks
    grants      \* the record of each scope

approvalVars == <<now, grants>>

ApprovalsTypeOK ==
    /\ now \in 0..MaxTime
    /\ grants \in [Scopes -> Grant \cup {NoGrant}]

Init ==
    /\ now = 0
    /\ grants = [s \in Scopes |-> NoGrant]

\* The record of a request that reads the clock at t; a persisted one never
\* expires, whatever its `expires`.
Record(session, persisted, t) ==
    [session |-> session, persisted |-> persisted, expires |-> t + SessionTtl]

\* add_approval replaces any prior record of the scope; the clock was read
\* some time before the table changes.
Add(s, session, persisted) ==
    /\ \E t \in 0..now : grants' = [grants EXCEPT ![s] = Record(session, persisted, t)]
    /\ UNCHANGED now

Revoke(s) ==
    /\ grants' = [grants EXCEPT ![s] = NoGrant]
    /\ UNCHANGED now

Tick ==
    /\ now < MaxTime
    /\ now' = now + 1
    /\ UNCHANGED grants

Next ==
    \/ \E s \in Scopes :
          Revoke(s) \/ \E session \in Sessions, persisted \in BOOLEAN : Add(s, session, persisted)
    \/ Tick

Spec == Init /\ [][Next]_approvalVars

--------------------------------------------------------------------------------
(* The policy. *)

\* Mutation of Active: session grants apply to every session.
Active_AnySession(table, session, t) ==
    {s \in Scopes : /\ table[s] # NoGrant
                    /\ table[s].persisted \/ table[s].expires > t}

\* list_active_scopes at time t.
Active(table, session, t) ==
    {s \in Scopes : /\ table[s] # NoGrant
                    /\ \/ table[s].persisted
                       \/ table[s].expires > t /\ table[s].session = session}

\* can_read_url: an exact scope of this very request wins over default-deny,
\* which wins over all others.
CanRead(url, scopes, oneTime) ==
    \/ \E s \in oneTime \cap ExactScopes : <<s, url>> \in Covers
    \/ url \notin DefaultDenied /\ \E s \in scopes : <<s, url>> \in Covers
==============================================================================
