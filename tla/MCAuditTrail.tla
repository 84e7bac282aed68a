----------------------------- MODULE MCAuditTrail ------------------------------
(***************************************************************************)
(* Three processes: two rotations among the appends of three commands, and *)
(* every outcome of every kind of command.                                 *)
(***************************************************************************)
EXTENDS AuditTrail

CONSTANTS c1, c2, c3

MCCommands == {c1, c2, c3}

Line(kind, ends) == [kind |-> kind, validSession |-> TRUE, ends |-> ends]
Command == Line("command", Payloads)
Rotation == Line("cleanup", {"ok"})
Schema == Line("schema", Payloads)
Acceptance == Line("acceptance", Payloads)
Misused == Line("misused", {})
Unnamed == [Line("command", {"ok"}) EXCEPT !.validSession = FALSE]
UnnamedRotation == [Rotation EXCEPT !.validSession = FALSE]

MCTriples ==
    {<<Misused, Rotation, Rotation>>, <<Command, Misused, UnnamedRotation>>,
     <<Schema, Acceptance, Unnamed>>}

MCRequests == {t[i] : t \in MCTriples, i \in 1..3}

MCInit ==
    /\ Init
    /\ \E t \in MCTriples : <<req[c1], req[c2], req[c3]>> = t

MCSpec == MCInit /\ [][Next]_vars /\ Fairness

================================================================================
