----------------------------- MODULE CacheRegister -----------------------------
(***************************************************************************)
(* What the response cache promises for one key: a register that several   *)
(* callers read and write at once, whose value has an expiry and may be    *)
(* lost.  An answer is a value that was there while the caller was reading *)
(* and has not expired when it is given.                                   *)
(***************************************************************************)
EXTENDS Naturals

CONSTANTS Callers, Values, MaxTime, MaxTtl, Nothing

Entry == [value : Values, expires : 0..MaxTime + MaxTtl]

VARIABLES
    now,
    entry,      \* what is stored
    seen,       \* all that was stored while each caller was reading
    answer      \* what each caller got

vars == <<now, entry, seen, answer>>

Init ==
    /\ now = 0
    /\ entry = Nothing
    /\ seen = [p \in Callers |-> {}]
    /\ answer = [p \in Callers |-> "none"]

Reading(p) == seen[p] # {}

Becomes(e) ==
    /\ entry' = e
    /\ seen' = [p \in Callers |-> IF Reading(p) THEN seen[p] \cup {e} ELSE {}]

Begin(p) ==
    /\ seen' = [seen EXCEPT ![p] = {entry}]
    /\ UNCHANGED <<now, entry, answer>>

Store ==
    /\ \E e \in Entry : e.expires <= now + MaxTtl /\ Becomes(e)
    /\ UNCHANGED <<now, answer>>

Lose ==
    /\ Becomes(Nothing)
    /\ UNCHANGED <<now, answer>>

\* The caller could not read what is there.
Fail(p) ==
    /\ seen' = [seen EXCEPT ![p] = @ \cup {Nothing}]
    /\ UNCHANGED <<now, entry, answer>>

Stale(e) == e = Nothing \/ e.expires < now

Answer(p) ==
    /\ Reading(p)
    /\ \E a \in Values \cup {"miss", "raised"} :
          /\ CASE a = "miss" -> \E e \in seen[p] : Stale(e)
               [] a = "raised" -> Nothing \in seen[p]
               [] OTHER -> \E e \in seen[p] : ~Stale(e) /\ e.value = a
          /\ answer' = [answer EXCEPT ![p] = a]
    /\ seen' = [seen EXCEPT ![p] = {}]
    /\ UNCHANGED <<now, entry>>

\* A caller dies, and all of them may at once.
Leave ==
    /\ \E gone \in SUBSET Callers :
          seen' = [p \in Callers |-> IF p \in gone THEN {} ELSE seen[p]]
    /\ UNCHANGED <<now, entry, answer>>

Tick ==
    /\ now' = now + 1
    /\ UNCHANGED <<entry, seen, answer>>

Next ==
    \/ \E p \in Callers : Begin(p) \/ Fail(p) \/ Answer(p)
    \/ Store \/ Lose \/ Leave \/ Tick

Spec == Init /\ [][Next]_vars

================================================================================
