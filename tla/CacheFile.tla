------------------------------- MODULE CacheFile -------------------------------
(***************************************************************************)
(* One key of the response cache: a file that CacheStore.read reads with   *)
(* no lock, while CacheStore.write replaces it and backup_corrupt_file     *)
(* renames it out of the way.                                              *)
(*                                                                         *)
(* What others leave there is told apart by what the reader makes of it:   *)
(* Damaged (not JSON, not an object, no numeric expires_at, no envelope    *)
(* object), Foreign (another schema, or an empty object) and Unversioned   *)
(* (no schema_version at all).  Torn bytes are a half of a record.         *)
(***************************************************************************)
EXTENDS Naturals, Sequences

CONSTANTS
    Callers,    \* processes, each doing one read or one write
    Values,     \* envelopes
    Ttls,       \* ROUTE_TTLS
    MaxTtl,     \* the longest of them
    MaxTime,    \* bound on the clock
    MaxHarm,    \* bound on what others do to the file, and on failing reads
    Nothing,    \* no file; nothing in the register
    Damaged, Foreign, Unversioned, Torn

ASSUME CacheFileAssumption ==
    /\ MaxTtl \in Nat /\ Ttls \subseteq 0..MaxTtl
    /\ MaxTime \in Nat /\ MaxHarm \in Nat

Entry == [value : Values, expires : 0..MaxTime + MaxTtl]
Temporary == [bytes : Entry \cup {Torn}, flushed : BOOLEAN]
External == {Damaged, Foreign, Unversioned}

\* Records, the damage and the answers are told apart.
ASSUME ContentsDiffer ==
    /\ Entry \cap (External \cup {Torn, Nothing}) = {} /\ Nothing \notin Temporary
    /\ {Torn, Nothing} \cap External = {} /\ Torn # Nothing
    /\ Unversioned \notin {Damaged, Foreign} /\ Damaged # Foreign
    /\ Values \cap {"none", "miss", "raised"} = {}

Content == Entry \cup External \cup {Torn, Nothing}

VARIABLES
    now, pc,
    file,       \* what is at the path
    flushed,    \* whether its bytes are on the disk
    tmp,        \* the temporary file of each writer
    record,     \* what it is about to write
    bytes,      \* what each reader read
    aside,      \* the <name>.corrupt-<stamp> siblings
    harm,       \* history: how often the file was harmed from outside
    latest,     \* history: what was stored last
    seen, answer    \* the register's, kept here as history

vars == <<now, pc, file, flushed, tmp, record, bytes, aside, harm, latest, seen, answer>>
writers == <<tmp, record>>
readers == <<bytes, answer>>

\* What CacheRegister makes of the file.
entry == IF file \in Entry THEN file ELSE Nothing

Writing == {"writing", "flushing", "replacing"}
Reading == {"looking", "opening", "judging", "setting aside", "renaming", "answering"}

TypeOK ==
    /\ now \in 0..MaxTime
    /\ pc \in [Callers -> {"idle", "done", "died"} \cup Writing \cup Reading]
    /\ file \in Content
    /\ flushed \in BOOLEAN
    /\ tmp \in [Callers -> Temporary \cup {Nothing}]
    /\ record \in [Callers -> Entry \cup {Nothing}]
    /\ bytes \in [Callers -> Content]
    /\ aside \in Seq(Content \ {Nothing})
    /\ harm \in 0..MaxHarm
    /\ latest \in Entry \cup {Nothing}
    /\ seen \in [Callers -> SUBSET (Entry \cup {Nothing})]
    /\ answer \in [Callers -> Values \cup {"none", "miss", "raised"}]

Init ==
    /\ now = 0
    /\ pc = [p \in Callers |-> "idle"]
    /\ file = Nothing
    /\ flushed = TRUE
    /\ tmp = [p \in Callers |-> Nothing]
    /\ record = [p \in Callers |-> Nothing]
    /\ bytes = [p \in Callers |-> Nothing]
    /\ aside = <<>>
    /\ harm = 0
    /\ latest = Nothing
    /\ seen = [p \in Callers |-> {}]
    /\ answer = [p \in Callers |-> "none"]

Go(p, from, to) == pc[p] = from /\ pc' = [pc EXCEPT ![p] = to]

\* The file becomes c, and the readers under way may see it.
Becomes(c) ==
    /\ file' = c
    /\ seen' = [p \in Callers |->
                  IF seen[p] = {} THEN {}
                  ELSE seen[p] \cup {IF c \in Entry THEN c ELSE Nothing}]

--------------------------------------------------------------------------------
(* CacheStore.write, atomic_write_bytes *)

\* The expiry counts from the call.  mkstemp makes the temporary file.
BeginWrite(p) ==
    /\ Go(p, "idle", "writing")
    /\ \E v \in Values, ttl \in Ttls :
          record' = [record EXCEPT ![p] = [value |-> v, expires |-> now + ttl]]
    /\ tmp' = [tmp EXCEPT ![p] = [bytes |-> Torn, flushed |-> FALSE]]
    /\ UNCHANGED <<now, file, flushed, readers, aside, harm, latest, seen>>

Write(p) ==
    /\ Go(p, "writing", "flushing")
    /\ tmp' = [tmp EXCEPT ![p].bytes = record[p]]
    /\ UNCHANGED <<now, file, flushed, record, readers, aside, harm, latest, seen>>

\* Mutation of Flush: flush() without fsync().
Flush_NotSynced(p) ==
    /\ Go(p, "flushing", "replacing")
    /\ UNCHANGED <<now, file, flushed, writers, readers, aside, harm, latest, seen>>

Flush(p) ==
    /\ Go(p, "flushing", "replacing")
    /\ tmp' = [tmp EXCEPT ![p].flushed = TRUE]
    /\ UNCHANGED <<now, file, flushed, record, readers, aside, harm, latest, seen>>

Replace(p) ==
    /\ Go(p, "replacing", "done")
    /\ Becomes(tmp[p].bytes)
    /\ flushed' = tmp[p].flushed
    /\ latest' = record[p]
    /\ tmp' = [tmp EXCEPT ![p] = Nothing]
    /\ UNCHANGED <<now, record, readers, aside, harm>>

\* Any step raised: the temporary file is unlinked.
WriteFails(p) ==
    /\ \E from \in Writing : Go(p, from, "done")
    /\ tmp' = [tmp EXCEPT ![p] = Nothing]
    /\ UNCHANGED <<now, file, flushed, record, readers, aside, harm, latest, seen>>

--------------------------------------------------------------------------------
(* CacheStore.read, read_json_dict, backup_corrupt_file *)

BeginRead(p) ==
    /\ Go(p, "idle", "looking")
    /\ seen' = [seen EXCEPT ![p] = {entry}]
    /\ UNCHANGED <<now, file, flushed, writers, readers, aside, harm, latest>>

\* The read is over.
Answer(p, a) ==
    /\ answer' = [answer EXCEPT ![p] = a]
    /\ seen' = [seen EXCEPT ![p] = {}]

Look(p) ==
    /\ IF file = Nothing
       THEN Go(p, "looking", "done") /\ Answer(p, "miss")
       ELSE Go(p, "looking", "opening") /\ UNCHANGED <<seen, answer>>
    /\ UNCHANGED <<now, file, flushed, writers, bytes, aside, harm, latest>>

\* An open file is not changed by a replacement.  One that is gone by now is an
\* OSError, and counts as damaged.
Open(p) ==
    /\ Go(p, "opening", "judging")
    /\ bytes' = [bytes EXCEPT ![p] = IF file = Nothing THEN Damaged ELSE file]
    /\ UNCHANGED <<now, file, flushed, writers, answer, aside, harm, latest, seen>>

\* So does a good file that cannot be read (EMFILE, EIO).
ReadFails(p) ==
    /\ harm < MaxHarm
    /\ harm' = harm + 1
    /\ Go(p, "opening", "judging")
    /\ bytes' = [bytes EXCEPT ![p] = Damaged]
    /\ seen' = [seen EXCEPT ![p] = @ \cup {Nothing}]
    /\ UNCHANGED <<now, file, flushed, writers, answer, aside, latest>>

\* Mutation of Verdict: the expiry is not looked at.
Verdict_AnyAge(b) ==
    IF b = Unversioned THEN "raised" ELSE IF b \in Entry THEN b.value ELSE "miss"

\* The schema and the expiry.
Verdict(b) ==
    IF b = Unversioned THEN "raised"
    ELSE IF b \in Entry /\ b.expires >= now THEN b.value ELSE "miss"

Judge(p) ==
    /\ IF bytes[p] \in {Damaged, Torn}
       THEN Go(p, "judging", "setting aside") /\ UNCHANGED <<seen, answer>>
       ELSE Go(p, "judging", "done") /\ Answer(p, Verdict(bytes[p]))
    /\ UNCHANGED <<now, file, flushed, writers, bytes, aside, harm, latest>>

\* backup_corrupt_file looks again, at whatever is there by now.
SetAside(p) ==
    /\ IF file = Nothing
       THEN Go(p, "setting aside", "done") /\ Answer(p, "miss")
       ELSE Go(p, "setting aside", "renaming") /\ UNCHANGED <<seen, answer>>
    /\ UNCHANGED <<now, file, flushed, writers, bytes, aside, harm, latest>>

\* It renames what is there, which may be a good record; an OSError is swallowed.
Rename(p) ==
    /\ Go(p, "renaming", "answering")
    /\ IF file = Nothing
       THEN UNCHANGED <<file, seen, aside>>
       ELSE Becomes(Nothing) /\ aside' = Append(aside, file)
    /\ UNCHANGED <<now, flushed, writers, readers, harm, latest>>

Miss(p) ==
    /\ Go(p, "answering", "done")
    /\ Answer(p, "miss")
    /\ UNCHANGED <<now, file, flushed, writers, bytes, aside, harm, latest>>

--------------------------------------------------------------------------------
(* The environment. *)

\* Another version of the program, a restored backup, an editor.
Harm ==
    /\ harm < MaxHarm
    /\ harm' = harm + 1
    /\ \E c \in External : Becomes(c)
    /\ UNCHANGED <<now, pc, flushed, writers, readers, aside, latest>>

Die(p) ==
    /\ pc[p] \in Writing \cup Reading
    /\ pc' = [pc EXCEPT ![p] = "died"]
    /\ seen' = [seen EXCEPT ![p] = {}]
    /\ UNCHANGED <<now, file, flushed, writers, readers, aside, harm, latest>>

\* What was not flushed is torn.
PowerLoss ==
    /\ pc' = [p \in Callers |-> IF pc[p] \in Writing \cup Reading THEN "died" ELSE pc[p]]
    /\ file' = IF flushed THEN file ELSE Torn
    /\ tmp' = [p \in Callers |->
                 IF tmp[p] # Nothing /\ ~tmp[p].flushed
                 THEN [tmp[p] EXCEPT !.bytes = Torn] ELSE tmp[p]]
    /\ seen' = [p \in Callers |-> {}]
    /\ UNCHANGED <<now, flushed, record, readers, aside, harm, latest>>

Tick ==
    /\ now < MaxTime
    /\ now' = now + 1
    /\ UNCHANGED <<pc, file, flushed, writers, readers, aside, harm, latest, seen>>

CallerStep(p) ==
    \/ BeginWrite(p) \/ Write(p) \/ Flush(p) \/ Replace(p) \/ WriteFails(p)
    \/ BeginRead(p) \/ Look(p) \/ Open(p) \/ ReadFails(p) \/ Judge(p)
    \/ SetAside(p) \/ Rename(p) \/ Miss(p)
    \/ Die(p)

Next ==
    \/ \E p \in Callers : CallerStep(p)
    \/ Harm \/ PowerLoss \/ Tick

Spec == Init /\ [][Next]_vars

--------------------------------------------------------------------------------

Register == INSTANCE CacheRegister

\* A read gives what was stored whole while it ran and has not expired, or a miss
\* for a reason: no lock is needed for that, and no damage, crash or repair under
\* way makes it otherwise (cache.CacheStore, paths.read_json_dict).
ImplementsRegister == Register!Spec

\* The program itself never harms the store: without harm from outside what was
\* stored last is there, whole, and nothing is set aside; and only a writer that
\* died leaves a temporary file (paths.atomic_write_bytes, backup_corrupt_file).
StoreStaysClean ==
    /\ TypeOK
    /\ file # Torn
    /\ harm = 0 => file = latest /\ aside = <<>>
    /\ \A p \in Callers : tmp[p] # Nothing => pc[p] \in Writing \cup {"died"}

(* The inductive invariant. *)

\* What a writer is about to put in place is whole, flushed and not stored yet
\* for longer than a record may live.
WriterIsReady(p) ==
    /\ pc[p] \in Writing =>
          /\ tmp[p] # Nothing /\ record[p] \in Entry
          /\ record[p].expires <= now + MaxTtl
    /\ pc[p] \in {"flushing", "replacing"} => tmp[p].bytes = record[p]
    /\ pc[p] = "replacing" => tmp[p].flushed

\* What a reader makes of the file was there while it was reading.
ReaderHasSeen(p) ==
    /\ pc[p] \in Reading => entry \in seen[p]
    /\ pc[p] = "judging" =>
          (IF bytes[p] \in Entry THEN bytes[p] ELSE Nothing) \in seen[p]
    /\ pc[p] \in {"setting aside", "renaming", "answering"} => Nothing \in seen[p]

\* Without harm from outside no reader comes to doubt the file.
OnlyDoubtsHarm(p) ==
    harm = 0 =>
        /\ pc[p] = "opening" => file # Nothing
        /\ pc[p] = "judging" => bytes[p] \in Entry
        /\ pc[p] \notin {"setting aside", "renaming", "answering"}

IInv ==
    /\ StoreStaysClean /\ flushed
    /\ \A p \in Callers : WriterIsReady(p) /\ ReaderHasSeen(p) /\ OnlyDoubtsHarm(p)

================================================================================
