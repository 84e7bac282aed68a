---------------------------- MODULE MCApprovalStore ----------------------------
(* Constants of ApprovalStore for TLC: two scopes, of which one is exact. *)
EXTENDS ApprovalStore

MCCovers == {<<"exact", "page">>, <<"host", "page">>}

\* One session adds, keeps or revokes; the other one adds the same scopes.
MCChanges ==
    {r \in Change : r.persisted => r.session = "s1" /\ r.op = "add"}
==============================================================================
