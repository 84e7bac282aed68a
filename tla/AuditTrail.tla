------------------------------- MODULE AuditTrail -------------------------------
(***************************************************************************)
(* How every command ends: _emit turns whatever its handler does into one  *)
(* printed envelope, one record appended to audit.jsonl and one exit       *)
(* status, while `cleanup --logs` in other processes renames that file.    *)
(*                                                                         *)
(* A record is a line of JSON.  It is appended under a flock of the file   *)
(* itself, in as many writes as it takes (two here, a head and a tail, of  *)
(* which the tail brings the newline), and fsynced.  A process may die, a  *)
(* write may fail and the machine may lose power anywhere in between: what *)
(* is appended behind a head without its tail continues the same line.     *)
(* Files are inodes; a name leads to one or to none.                       *)
(***************************************************************************)
EXTENDS Naturals, Sequences, FiniteSets

CONSTANTS
    Commands,   \* processes, one per command line
    Requests,   \* the command lines that may be run
    MaxTime,    \* bound on the clock
    NoCommand   \* stands for nobody, and for no file

\* The statuses told apart; the last one is a success that does not serialize.
Payloads == {"ok", "blocked", "unsafe_url_blocked", "usage_error", "internal_error",
             "interrupted", "unserializable"}

\* A command line: whether its BFR_SESSION_ID is well formed, and what its
\* handler may come to.
Kinds == {"command", "cleanup", "schema", "acceptance", "misused"}
Request == [kind : Kinds, validSession : BOOLEAN, ends : SUBSET Payloads]

ASSUME AuditAssumption ==
    /\ Requests \subseteq Request
    /\ MaxTime \in Nat
    /\ NoCommand \notin Commands

VARIABLES
    now,        \* time.time() in seconds
    req, pc,
    status,     \* the payload each command holds
    printed,    \* the status of the envelope on its stdout
    exit,       \* its exit status
    stamp,      \* the time at which a cleanup began
    fd,         \* the file it appends to
    log,        \* the file audit.jsonl leads to
    archive,    \* the file each archive name leads to
    holder,     \* who has the flock of each file
    content,    \* the pieces of records in each file
    synced,     \* how many of them are on the disk
    acked,      \* history: the commands whose append returned
    failed,     \* history: those whose append did not
    replaced    \* history: the archived files that were renamed over

\* A file is named for the command that created it: each creates one at most.
Files == Commands

procVars == <<req, pc, status, printed, exit, stamp, fd>>
fileVars == <<log, archive, holder, content, synced>>
history == <<acked, failed, replaced>>
vars == <<now, req, pc, status, printed, exit, stamp, fd,
          log, archive, holder, content, synced, acked, failed, replaced>>

Appending == {"opening", "locking", "finishing", "syncing"}
Ended == {"exited", "died"}
Steps == {"idle", "rotating", "renaming", "running", "printing"}
            \cup Appending \cup Ended

\* A record without its last byte or more, or the rest of it with the newline;
\* and the status the record gives.
Piece == [of : Commands, part : {"head", "tail"}, says : Payloads]

TypeOK ==
    /\ now \in 0..MaxTime
    /\ req \in [Commands -> Requests]
    /\ pc \in [Commands -> Steps]
    /\ status \in [Commands -> Payloads \cup {"none"}]
    /\ printed \in [Commands -> (Payloads \ {"unserializable"}) \cup {"none"}]
    /\ exit \in [Commands -> 0..255]
    /\ stamp \in [Commands -> 0..MaxTime]
    /\ fd \in [Commands -> Files \cup {NoCommand}]
    /\ log \in Files \cup {NoCommand}
    /\ archive \in [0..MaxTime -> Files \cup {NoCommand}]
    /\ holder \in [Files -> Commands \cup {NoCommand}]
    /\ content \in [Files -> Seq(Piece)]
    /\ synced \in [Files -> Nat]
    /\ acked \in SUBSET Commands
    /\ failed \in SUBSET Commands
    /\ replaced \subseteq Files

Init ==
    /\ now = 0
    /\ req \in [Commands -> Requests]
    /\ pc = [c \in Commands |-> "idle"]
    /\ status = [c \in Commands |-> "none"]
    /\ printed = [c \in Commands |-> "none"]
    /\ exit = [c \in Commands |-> 0]
    /\ stamp = [c \in Commands |-> 0]
    /\ fd = [c \in Commands |-> NoCommand]
    /\ log = NoCommand
    /\ archive = [t \in 0..MaxTime |-> NoCommand]
    /\ holder = [f \in Files |-> NoCommand]
    /\ content = [f \in Files |-> <<>>]
    /\ synced = [f \in Files |-> 0]
    /\ acked = {}
    /\ failed = {}
    /\ replaced = {}

Go(c, from, to) ==
    /\ pc[c] = from
    /\ pc' = [pc EXCEPT ![c] = to]

--------------------------------------------------------------------------------
(* The command itself. *)

\* A cleanup asks for its session first; a malformed one is a usage error too.
Refused(c) ==
    \/ req[c].kind = "misused"
    \/ req[c].kind = "cleanup" /\ ~req[c].validSession

\* `main`: argparse errors and misused options have their envelope at once;
\* run_cleanup reads the clock before it looks at anything.
Start(c) ==
    /\ Go(c, "idle", CASE Refused(c) -> "printing"
                       [] req[c].kind = "cleanup" /\ ~Refused(c) -> "rotating"
                       [] OTHER -> "running")
    /\ status' = [status EXCEPT ![c] = IF Refused(c) THEN "usage_error" ELSE "none"]
    /\ stamp' = [stamp EXCEPT ![c] = IF req[c].kind = "cleanup" THEN now ELSE 0]
    /\ UNCHANGED <<now, req, printed, exit, fd, fileVars, history>>

\* _rotate_logs looks for the file, its size and its age, which may be any.
CheckLog(c) ==
    /\ \/ log # NoCommand /\ Go(c, "rotating", "renaming")
       \/ Go(c, "rotating", "running")
    /\ UNCHANGED <<now, req, status, printed, exit, stamp, fd, fileVars, history>>

\* It renames what is there by now, over an archive of the same second; if
\* nothing is, or the rename fails, the OSError is skipped.
Rename(c) ==
    /\ Go(c, "renaming", "running")
    /\ IF log = NoCommand
       THEN UNCHANGED <<log, archive, replaced>>
       ELSE /\ log' = NoCommand
            /\ archive' = [archive EXCEPT ![stamp[c]] = log]
            /\ replaced' = replaced \cup ({archive[stamp[c]]} \ {NoCommand})
    /\ UNCHANGED <<now, req, status, printed, exit, stamp, fd,
                   holder, content, synced, acked, failed>>

\* The handler returned an envelope, or raised a SafetyError, an InvalidScope or
\* InvalidSessionId, KeyboardInterrupt or SystemExit, or any other Exception;
\* during a rotation, before the rename or after it.
HandlerEnds(c) ==
    /\ \E from \in {"rotating", "renaming", "running"} : Go(c, from, "printing")
    /\ \E s \in req[c].ends : status' = [status EXCEPT ![c] = s]
    /\ UNCHANGED <<now, req, printed, exit, stamp, fd, fileVars, history>>

--------------------------------------------------------------------------------
(* The end of it: _emit, _usage_error, JsonArgumentParser.error. *)

\* STATUS_EXIT_CODES
StatusExit(s) ==
    CASE s \in {"ok", "unserializable"} -> 0
      [] s = "blocked" -> 1
      [] s = "unsafe_url_blocked" -> 4
      [] s = "usage_error" -> 64
      [] s = "internal_error" -> 70
      [] s = "interrupted" -> 130

\* exit_code_fn of `schema` and `test-acceptance` yields to an interruption.
ExitStatus(kind, s) ==
    IF s = "interrupted" \/ kind \notin {"schema", "acceptance"} THEN StatusExit(s)
    ELSE IF kind = "schema" \/ s = "ok" THEN 0 ELSE 1

\* The session id is looked up for the record, inside the `try`: with a
\* malformed BFR_SESSION_ID no record is written.
Audited(c) == req[c].kind \notin {"schema", "acceptance"} /\ req[c].validSession

\* Mutation of Serialized: json.dumps is not guarded.
Serialized_Unguarded(s) == s

\* _serialize_or_internal_error
Serialized(s) == IF s = "unserializable" THEN "internal_error" ELSE s

\* Mutation of Emit: the exit status is that of the payload that failed.
Emit_KeepsPayload(c) ==
    /\ Go(c, "printing", IF Audited(c) THEN "opening" ELSE "exited")
    /\ printed' = [printed EXCEPT ![c] = Serialized(status[c])]
    /\ exit' = [exit EXCEPT ![c] = ExitStatus(req[c].kind, status[c])]
    /\ UNCHANGED <<now, req, status, stamp, fd, fileVars, history>>

Emit(c) ==
    LET s == Serialized(status[c]) IN
    /\ Go(c, "printing", IF Audited(c) THEN "opening" ELSE "exited")
    /\ status' = [status EXCEPT ![c] = s]
    /\ printed' = [printed EXCEPT ![c] = s]
    /\ exit' = [exit EXCEPT ![c] = ExitStatus(req[c].kind, s)]
    /\ UNCHANGED <<now, req, stamp, fd, fileVars, history>>

--------------------------------------------------------------------------------
(* append_durable_line *)

\* O_CREAT: the name may have been renamed away a moment ago.
Open(c) ==
    /\ Go(c, "opening", "locking")
    /\ log' = IF log = NoCommand THEN c ELSE log
    /\ fd' = [fd EXCEPT ![c] = log']
    /\ UNCHANGED <<now, req, status, printed, exit, stamp,
                   archive, holder, content, synced, history>>

Write(c, part) ==
    content' = [content EXCEPT ![fd[c]] =
                    Append(@, [of |-> c, part |-> part, says |-> status[c]])]

\* flock(LOCK_EX) on the open file, wherever a rename has put it since, and the
\* first os.write; write_all goes on after a short one.
LockAndWrite(c) ==
    /\ Go(c, "locking", "finishing")
    /\ holder[fd[c]] = NoCommand
    /\ holder' = [holder EXCEPT ![fd[c]] = c]
    /\ Write(c, "head")
    /\ UNCHANGED <<now, req, status, printed, exit, stamp, fd,
                   log, archive, synced, history>>

WriteTail(c) ==
    /\ Go(c, "finishing", "syncing")
    /\ Write(c, "tail")
    /\ UNCHANGED <<now, req, status, printed, exit, stamp, fd,
                   log, archive, holder, synced, history>>

\* Closing a file gives up the lock on it.
Unheld(c) == [f \in Files |-> IF holder[f] = c THEN NoCommand ELSE holder[f]]

\* Mutation of Sync: the record is left to the page cache.
Sync_Skipped(c) ==
    /\ Go(c, "syncing", "exited")
    /\ acked' = acked \cup {c}
    /\ holder' = Unheld(c)
    /\ UNCHANGED <<now, req, status, printed, exit, stamp, fd,
                   log, archive, content, synced, failed, replaced>>

\* os.fsync, LOCK_UN, close; the caller goes on.
Sync(c) ==
    /\ Go(c, "syncing", "exited")
    /\ synced' = [synced EXCEPT ![fd[c]] = Len(content[fd[c]])]
    /\ acked' = acked \cup {c}
    /\ holder' = Unheld(c)
    /\ UNCHANGED <<now, req, status, printed, exit, stamp, fd,
                   log, archive, content, failed, replaced>>

\* Mutation of AppendFails: only success unlocks.
AppendFails_KeepsLock(c) ==
    /\ \E from \in Appending : Go(c, from, "exited")
    /\ failed' = failed \cup {c}
    /\ UNCHANGED <<now, req, status, printed, exit, stamp, fd, fileVars, acked, replaced>>

\* A full disk, an I/O error, or Ctrl-C: the `finally` unlocks and closes, and
\* _emit_audit absorbs what was raised.  What was written stays.
AppendFails(c) ==
    /\ \E from \in Appending : Go(c, from, "exited")
    /\ holder' = Unheld(c)
    /\ failed' = failed \cup {c}
    /\ UNCHANGED <<now, req, status, printed, exit, stamp, fd,
                   log, archive, content, synced, acked, replaced>>

--------------------------------------------------------------------------------
(* The environment. *)

\* SIGKILL, a stdout that cannot be written, or Ctrl-C outside the handler and
\* the append.
Die(c) ==
    /\ pc[c] \notin Ended \cup {"idle"}
    /\ pc' = [pc EXCEPT ![c] = "died"]
    /\ holder' = Unheld(c)
    /\ UNCHANGED <<now, req, status, printed, exit, stamp, fd,
                   log, archive, content, synced, history>>

\* All processes die, and of each file only what was synced is sure to be left.
PowerLoss ==
    /\ \E c \in Commands : pc[c] \notin Ended \cup {"idle"}
    /\ pc' = [c \in Commands |-> IF pc[c] \in Ended \cup {"idle"} THEN pc[c] ELSE "died"]
    /\ holder' = [f \in Files |-> NoCommand]
    /\ \E left \in [Files -> 0..2 * Cardinality(Commands)] :
          /\ \A f \in Files : left[f] \in synced[f]..Len(content[f])
          /\ content' = [f \in Files |-> SubSeq(content[f], 1, left[f])]
    /\ UNCHANGED <<now, req, status, printed, exit, stamp, fd, log, archive, synced, history>>

Tick ==
    /\ now < MaxTime
    /\ now' = now + 1
    /\ UNCHANGED <<procVars, fileVars, history>>

HandlerStep(c) == CheckLog(c) \/ Rename(c) \/ HandlerEnds(c) \/ Emit(c)

AppendStep(c) == Open(c) \/ LockAndWrite(c) \/ WriteTail(c) \/ Sync(c)

Next ==
    \/ \E c \in Commands :
          Start(c) \/ HandlerStep(c) \/ AppendStep(c) \/ AppendFails(c) \/ Die(c)
    \/ PowerLoss
    \/ Tick

\* An append goes on, for it waits for nothing but the flock and the disk.  A
\* handler may wait for ever (cdp.py's recv has no time-out), and so may the
\* print, if nobody reads the other end of stdout.
Fairness == \A c \in Commands : WF_vars(AppendStep(c))

Spec == Init /\ [][Next]_vars /\ Fairness

--------------------------------------------------------------------------------
(* What every ending promises. *)

\* The two halves of a record are one behind the other: a tail follows its head,
\* and behind a head there is its tail, unless its writer was stopped half way
\* or has come no further.
HalvesMeet(f, i) ==
    LET p == content[f][i] IN
    /\ p.part = "tail" => i > 1 /\ content[f][i - 1] = [p EXCEPT !.part = "head"]
    /\ p.part = "head" /\ i < Len(content[f]) =>
          \/ content[f][i + 1] = [p EXCEPT !.part = "tail"]
          \/ pc[p.of] = "died" \/ p.of \in failed

AllHalvesMeet == \A f \in Files : \A i \in 1..Len(content[f]) : HalvesMeet(f, i)

Reachable == {log} \cup {archive[t] : t \in DOMAIN archive}

\* Both halves of the record of c are in f, from i on, and nothing else of c is.
StandsAt(c, f, i) ==
    /\ i \in 1..Len(content[f]) /\ i + 1 \in 1..Len(content[f])
    /\ content[f][i + 1].part = "tail"
    /\ \A j \in 1..Len(content[f]) : content[f][j].of = c <=> j \in {i, i + 1}

\* A new line begins at i: the byte before it is the newline of a tail, if any.
BeginsLine(f, i) == i = 1 \/ content[f][i - 1].part = "tail"

\* Before i, on the same line, is the head of a record that never was
\* acknowledged, as its writer died or failed.
FollowsTorn(f, i) ==
    LET p == content[f][i - 1] IN
    /\ i > 1 /\ p.part = "head"
    /\ p.of \notin acked /\ (pc[p.of] = "died" \/ p.of \in failed)

\* A record whose append returned is never taken apart, doubled or cut: its bytes
\* are found again, in the log or in an archive, whatever rotates the file under
\* it, whoever is killed and when the power fails.  It can be read, for it has a
\* line to itself, with two exceptions: an archive that a second rotation in the
\* same second renamed over, and the record right behind what a command that
\* died or failed has left of its own, with which it shares a line that is no
\* JSON (paths.append_durable_line, paths.write_all, lifecycle._rotate_logs).
RecordsSurvive ==
    /\ AllHalvesMeet
    /\ \A c \in acked :
          /\ fd[c] \in Reachable \cup replaced
          /\ \E i \in 1..Len(content[fd[c]]) :
                StandsAt(c, fd[c], i) /\ (BeginsLine(fd[c], i) \/ FollowsTorn(fd[c], i))
    /\ \A c \in Commands :
          pc[c] = "exited" /\ Audited(c) => c \in acked \cup failed

HasReported(c) ==
    /\ printed[c] # "none"
    /\ (exit[c] = 0) <=> (printed[c] = "ok" \/ (req[c].kind = "schema"
                                                /\ printed[c] # "interrupted"))
    /\ printed[c] = "interrupted" => exit[c] = 130

\* A command that exits has printed one envelope; its exit status is that
\* envelope's, also when the payload could not be serialized or Ctrl-C came
\* while the record was written; and a record gives the status that was printed,
\* never one the caller has not seen (cli._emit).
CommandsReport ==
    /\ \A c \in Commands : pc[c] = "exited" => HasReported(c)
    /\ \A f \in Files : \A i \in 1..Len(content[f]) :
          content[f][i].says = printed[content[f][i].of]

\* A command that has begun to append its record ends: no lock of a process that
\* failed or died half way keeps the others waiting, although flock has no
\* time-out, nor that of one whose file was renamed (paths.append_durable_line).
AppendsEnd == \A c \in Commands : (pc[c] \in Appending) ~> (pc[c] \in Ended)

(* The inductive invariant. *)

\* What a command has done by the step it is at.
CommandIsWell(c) ==
    /\ pc[c] \in {"printing"} \cup Appending => status[c] # "none"
    /\ pc[c] \in Appending => Audited(c) /\ status[c] = printed[c]
    /\ pc[c] \in Appending \cup {"exited"} => HasReported(c)
    /\ c \in acked \cup failed => pc[c] = "exited"
    /\ pc[c] = "exited" /\ Audited(c) => c \in acked \cup failed

\* The file it appends to is not lost, and locked while it writes.
FileIsKept(c) ==
    /\ pc[c] \in {"locking", "finishing", "syncing"} \/ c \in acked => fd[c] # NoCommand
    /\ fd[c] # NoCommand => fd[c] \in Reachable \cup replaced
    /\ pc[c] \in {"finishing", "syncing"} => holder[fd[c]] = c

\* How far its record has come.
RecordIsOnItsWay(c) ==
    LET pieces == content[fd[c]] IN
    /\ pc[c] = "finishing" =>
          /\ Len(pieces) > 0
          /\ pieces[Len(pieces)] = [of |-> c, part |-> "head", says |-> status[c]]
          /\ \A j \in 1..Len(pieces) - 1 : pieces[j].of # c
    /\ pc[c] = "syncing" => StandsAt(c, fd[c], Len(pieces) - 1)
    /\ c \in acked =>
          \E i \in 1..Len(pieces) : StandsAt(c, fd[c], i) /\ i + 1 <= synced[fd[c]]

\* Whose a piece is, and why there is no other half behind the last one.
PieceIsOwned(f, i) ==
    LET p == content[f][i] IN
    /\ fd[p.of] = f
    /\ pc[p.of] \in {"finishing", "syncing", "died"} \/ p.of \in acked \cup failed
    /\ p.part = "head" /\ i = Len(content[f]) =>
          pc[p.of] \in {"finishing", "died"} \/ p.of \in failed

IInv ==
    /\ TypeOK /\ AllHalvesMeet /\ CommandsReport
    /\ \A c \in Commands : CommandIsWell(c) /\ FileIsKept(c) /\ RecordIsOnItsWay(c)
    /\ \A f \in Files :
          /\ synced[f] <= Len(content[f])
          /\ \A i \in 1..Len(content[f]) : PieceIsOwned(f, i)

================================================================================
