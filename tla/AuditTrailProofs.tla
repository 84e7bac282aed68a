--------------------------- MODULE AuditTrailProofs ---------------------------
(***************************************************************************)
(* How commands end, for any number of processes that append, rotate, fail *)
(* and die at once: what they print, what they exit with and what the log  *)
(* keeps of it agree, across rotations and power failures.                 *)
(***************************************************************************)
EXTENDS AuditTrail, TLAPS

\* A step of one process.
StepOf(c) == Start(c) \/ HandlerStep(c) \/ AppendStep(c) \/ AppendFails(c) \/ Die(c)

--------------------------------------------------------------------------------
(* Sequences of pieces. *)

LEMMA AppendedPiece ==
  ASSUME NEW s \in Seq(Piece), NEW p \in Piece
  PROVE  /\ Append(s, p) \in Seq(Piece)
         /\ Len(Append(s, p)) = Len(s) + 1
         /\ \A i \in 1..Len(s) : Append(s, p)[i] = s[i]
         /\ Append(s, p)[Len(s) + 1] = p
PROOF
  <1> HIDE DEF Piece
  <1> QED OBVIOUS

LEMMA KeptPieces ==
  ASSUME NEW s \in Seq(Piece), NEW n \in 0..Len(s)
  PROVE  /\ SubSeq(s, 1, n) \in Seq(Piece)
         /\ Len(SubSeq(s, 1, n)) = n
         /\ \A i \in 1..n : SubSeq(s, 1, n)[i] = s[i]
PROOF
  <1> HIDE DEF Piece
  <1>1. Len(s) \in Nat /\ n \in Nat /\ n <= Len(s)
    OBVIOUS
  <1>2. SubSeq(s, 1, n) = [i \in 1..n |-> s[i]]
    BY <1>1
  <1>3. \A i \in 1..n : s[i] \in Piece
    BY <1>1
  <1> QED BY <1>1, <1>2, <1>3

LEMMA PieceType ==
  ASSUME TypeOK, NEW f \in Files
  PROVE  /\ content[f] \in Seq(Piece) /\ Len(content[f]) \in Nat
         /\ \A i \in 1..Len(content[f]) :
               /\ content[f][i] \in Piece /\ content[f][i].of \in Commands
               /\ content[f][i].part \in {"head", "tail"}
PROOF
  <1>1. content[f] \in Seq(Piece)
    BY DEF TypeOK
  <1>2. Len(content[f]) \in Nat /\ \A i \in 1..Len(content[f]) : content[f][i] \in Piece
    BY <1>1
  <1> QED BY <1>1, <1>2 DEF Piece

--------------------------------------------------------------------------------
(* Types. *)

LEMMA InitIInv == Init => IInv
PROOF
  <1> SUFFICES ASSUME Init PROVE IInv
    OBVIOUS
  <1>1. TypeOK
    BY AuditAssumption DEF Init, TypeOK, Steps, Files
  <1>2. \A f \in Files : content[f] = <<>> /\ Len(content[f]) = 0
    BY DEF Init
  <1>3. AllHalvesMeet /\ CommandsReport
    BY <1>2 DEF Init, AllHalvesMeet, CommandsReport
  <1>4. \A c \in Commands : CommandIsWell(c) /\ FileIsKept(c) /\ RecordIsOnItsWay(c)
    BY DEF Init, CommandIsWell, FileIsKept, RecordIsOnItsWay, Appending
  <1>5. \A f \in Files : synced[f] <= Len(content[f])
                         /\ \A i \in 1..Len(content[f]) : PieceIsOwned(f, i)
    BY <1>2 DEF Init
  <1> QED BY <1>1, <1>3, <1>4, <1>5 DEF IInv

\* The exit status of an envelope.
LEMMA ExitFacts ==
  ASSUME NEW kind, NEW s \in Payloads \ {"unserializable"}
  PROVE  /\ ExitStatus(kind, s) \in 0..255
         /\ (ExitStatus(kind, s) = 0)
               <=> (s = "ok" \/ (kind = "schema" /\ s # "interrupted"))
         /\ s = "interrupted" => ExitStatus(kind, s) = 130
PROOF
  <1>1. /\ StatusExit(s) \in {0, 1, 4, 64, 70, 130}
        /\ StatusExit(s) = 0 <=> s = "ok"
        /\ s = "interrupted" => StatusExit(s) = 130
    BY DEF StatusExit, Payloads
  <1> QED BY <1>1 DEF ExitStatus

LEMMA SerializedType ==
  ASSUME NEW s \in Payloads
  PROVE  Serialized(s) \in Payloads \ {"unserializable"}
PROOF
  BY DEF Serialized, Payloads

LEMMA UnheldFacts ==
  ASSUME TypeOK, NEW c
  PROVE  /\ Unheld(c) \in [Files -> Commands \cup {NoCommand}]
         /\ \A f \in Files : \A d : d # c /\ holder[f] = d => Unheld(c)[f] = d
PROOF
  BY DEF TypeOK, Unheld

\* The command's own steps.
LEMMA CommandType ==
  ASSUME TypeOK, NEW c \in Commands, CommandIsWell(c),
         Start(c) \/ CheckLog(c) \/ Rename(c) \/ HandlerEnds(c) \/ Emit(c)
  PROVE  TypeOK'
PROOF
  <1> USE DEF Go, fileVars, history
  <1>1. CASE Start(c)
    <2>1. pc' \in [Commands -> Steps]
      BY <1>1 DEF Start, TypeOK, Steps
    <2>2. status' \in [Commands -> Payloads \cup {"none"}]
      BY <1>1 DEF Start, TypeOK, Payloads
    <2>3. stamp' \in [Commands -> 0..MaxTime]
      BY <1>1, AuditAssumption DEF Start, TypeOK
    <2> QED BY <1>1, <2>1, <2>2, <2>3 DEF Start, TypeOK
  <1>2. CASE CheckLog(c)
    <2>1. pc' \in [Commands -> Steps]
      <3>1. PICK s \in {"renaming", "running"} : pc' = [pc EXCEPT ![c] = s]
        BY <1>2 DEF CheckLog
      <3> QED BY <3>1 DEF TypeOK, Steps
    <2> QED BY <1>2, <2>1 DEF CheckLog, TypeOK
  <1>3. CASE Rename(c)
    <2>1. pc' \in [Commands -> Steps]
      BY <1>3 DEF Rename, TypeOK, Steps
    <2>2. /\ log' \in Files \cup {NoCommand}
          /\ archive' \in [0..MaxTime -> Files \cup {NoCommand}]
          /\ replaced' \subseteq Files
      <3>1. CASE log = NoCommand
        BY <1>3, <3>1 DEF Rename, TypeOK
      <3>2. CASE log # NoCommand
        <4>1. /\ log' = NoCommand /\ archive' = [archive EXCEPT ![stamp[c]] = log]
              /\ replaced' = replaced \cup ({archive[stamp[c]]} \ {NoCommand})
          BY <1>3, <3>2 DEF Rename
        <4>2. archive[stamp[c]] \in Files \cup {NoCommand}
          BY DEF TypeOK
        <4>3. replaced' \subseteq Files
          BY <4>1, <4>2 DEF TypeOK
        <4> QED BY <4>1, <4>3 DEF TypeOK
      <3> QED BY <3>1, <3>2
    <2> QED BY <1>3, <2>1, <2>2 DEF Rename, TypeOK
  <1>4. CASE HandlerEnds(c)
    <2>1. pc' \in [Commands -> Steps]
      <3>1. pc' = [pc EXCEPT ![c] = "printing"]
        BY <1>4 DEF HandlerEnds
      <3> QED BY <3>1 DEF TypeOK, Steps
    <2>2. PICK s \in req[c].ends : status' = [status EXCEPT ![c] = s]
      BY <1>4 DEF HandlerEnds
    <2>3. s \in Payloads
      BY <2>2, AuditAssumption DEF TypeOK, Request
    <2>4. status' \in [Commands -> Payloads \cup {"none"}]
      BY <2>2, <2>3 DEF TypeOK
    <2> QED BY <1>4, <2>1, <2>4 DEF HandlerEnds, TypeOK
  <1>5. CASE Emit(c)
    <2> DEFINE s == Serialized(status[c])
    <2>1. s \in Payloads \ {"unserializable"}
      BY <1>5, SerializedType DEF Emit, CommandIsWell, TypeOK
    <2>2. ExitStatus(req[c].kind, s) \in 0..255
      BY <2>1, ExitFacts
    <2>3. /\ status' = [status EXCEPT ![c] = s] /\ printed' = [printed EXCEPT ![c] = s]
          /\ exit' = [exit EXCEPT ![c] = ExitStatus(req[c].kind, s)]
          /\ pc' = [pc EXCEPT ![c] = IF Audited(c) THEN "opening" ELSE "exited"]
      BY <1>5 DEF Emit
    <2> HIDE DEF s
    <2>4. pc' \in [Commands -> Steps]
      BY <2>3 DEF TypeOK, Steps, Appending, Ended
    <2>5. /\ status' \in [Commands -> Payloads \cup {"none"}]
          /\ printed' \in [Commands -> (Payloads \ {"unserializable"}) \cup {"none"}]
          /\ exit' \in [Commands -> 0..255]
      BY <2>1, <2>2, <2>3 DEF TypeOK
    <2> QED BY <1>5, <2>4, <2>5 DEF Emit, TypeOK
  <1> QED BY <1>1, <1>2, <1>3, <1>4, <1>5

\* What Write leaves in the files.
LEMMA WriteFacts ==
  ASSUME TypeOK, NEW c \in Commands, NEW part \in {"head", "tail"},
         fd[c] # NoCommand, status[c] # "none", Write(c, part)
  PROVE  LET f == fd[c]
             n == Len(content[f])
             p == [of |-> c, part |-> part, says |-> status[c]]
         IN  /\ f \in Files /\ p \in Piece /\ n \in Nat
             /\ content' \in [Files -> Seq(Piece)]
             /\ \A g \in Files : g # f => content'[g] = content[g]
             /\ Len(content'[f]) = n + 1
             /\ \A i \in 1..n : content'[f][i] = content[f][i]
             /\ content'[f][n + 1] = p
PROOF
  <1> DEFINE f == fd[c]
             p == [of |-> c, part |-> part, says |-> status[c]]
  <1>1. f \in Files /\ p \in Piece /\ content \in [Files -> Seq(Piece)]
    BY DEF TypeOK, Piece
  <1>2. content' = [content EXCEPT ![f] = Append(content[f], p)]
    BY DEF Write
  <1> HIDE DEF f, p
  <1>3. content[f] \in Seq(Piece) /\ Len(content[f]) \in Nat
    BY <1>1
  <1>4. /\ content' \in [Files -> Seq(Piece)]
        /\ \A g \in Files : g # f => content'[g] = content[g]
        /\ content'[f] = Append(content[f], p)
    BY <1>1, <1>2, <1>3, AppendedPiece
  <1> QED BY <1>1, <1>3, <1>4, AppendedPiece DEF f, p

\* The steps of append_durable_line, and the end of a command.
LEMMA AppendType ==
  ASSUME TypeOK, NEW c \in Commands, CommandIsWell(c), FileIsKept(c),
         \/ Open(c) \/ LockAndWrite(c) \/ WriteTail(c) \/ Sync(c)
         \/ AppendFails(c) \/ Die(c)
  PROVE  TypeOK'
PROOF
  <1> USE DEF Go
  <1>1. Unheld(c) \in [Files -> Commands \cup {NoCommand}]
    BY UnheldFacts
  <1>2. pc' \in [Commands -> Steps]
    <2>1. PICK s \in Steps : pc' = [pc EXCEPT ![c] = s]
      BY DEF Open, LockAndWrite, WriteTail, Sync, AppendFails, Die, Steps, Appending, Ended
    <2> QED BY <2>1 DEF TypeOK
  <1>3. CASE Open(c)
    <2>1. log' \in Files \cup {NoCommand} /\ fd' \in [Commands -> Files \cup {NoCommand}]
      BY <1>3 DEF Open, TypeOK, Files
    <2> QED BY <1>2, <1>3, <2>1 DEF Open, TypeOK, history
  <1>4. CASE LockAndWrite(c) \/ WriteTail(c)
    <2>1. content' \in [Files -> Seq(Piece)]
      <3>1. fd[c] # NoCommand /\ status[c] # "none"
        BY <1>4 DEF LockAndWrite, WriteTail, FileIsKept, CommandIsWell, Appending
      <3> QED BY <1>4, <3>1, WriteFacts DEF LockAndWrite, WriteTail
    <2>2. holder' \in [Files -> Commands \cup {NoCommand}]
      <3>1. holder' = holder \/ holder' = [holder EXCEPT ![fd[c]] = c]
        BY <1>4 DEF LockAndWrite, WriteTail
      <3> QED BY <3>1 DEF TypeOK
    <2>3. UNCHANGED <<now, req, status, printed, exit, stamp, fd, log, archive, synced, acked,
                      failed, replaced>>
      BY <1>4 DEF LockAndWrite, WriteTail, history
    <2> QED BY <1>2, <2>1, <2>2, <2>3 DEF TypeOK
  <1>5. CASE Sync(c)
    <2>1. Len(content[fd[c]]) \in Nat
      BY <1>5, PieceType DEF Sync, FileIsKept, TypeOK
    <2>2. synced' \in [Files -> Nat]
      BY <1>5, <2>1 DEF Sync, TypeOK
    <2> QED BY <1>1, <1>2, <1>5, <2>2 DEF Sync, TypeOK
  <1>6. CASE AppendFails(c)
    BY <1>1, <1>2, <1>6 DEF AppendFails, TypeOK
  <1>7. CASE Die(c)
    BY <1>1, <1>2, <1>7 DEF Die, TypeOK, history
  <1> QED BY <1>3, <1>4, <1>5, <1>6, <1>7

\* What a power failure leaves in the files.
LEMMA PowerLossFacts ==
  ASSUME TypeOK, PowerLoss, NEW f \in Files
  PROVE  /\ content'[f] \in Seq(Piece)
         /\ Len(content'[f]) \in synced[f]..Len(content[f])
         /\ \A i \in 1..Len(content'[f]) : content'[f][i] = content[f][i]
PROOF
  <1>1. PICK left \in [Files -> 0..2 * Cardinality(Commands)] :
           /\ \A g \in Files : left[g] \in synced[g]..Len(content[g])
           /\ content' = [g \in Files |-> SubSeq(content[g], 1, left[g])]
    BY DEF PowerLoss
  <1>2. content'[f] = SubSeq(content[f], 1, left[f])
    BY <1>1
  <1>3. synced[f] \in Nat /\ content[f] \in Seq(Piece)
    BY DEF TypeOK
  <1>4. left[f] \in 0..Len(content[f]) /\ left[f] \in synced[f]..Len(content[f])
    BY <1>1, <1>3, PieceType
  <1> QED BY <1>2, <1>3, <1>4, KeptPieces

LEMMA StepType ==
  ASSUME IInv, Next
  PROVE  TypeOK'
PROOF
  <1>1. TypeOK /\ \A c \in Commands : CommandIsWell(c) /\ FileIsKept(c)
    BY DEF IInv
  <1>2. ASSUME NEW c \in Commands, StepOf(c) PROVE TypeOK'
    BY <1>1, <1>2, CommandType, AppendType DEF StepOf, HandlerStep, AppendStep
  <1>3. CASE PowerLoss
    <2>1. pc' \in [Commands -> Steps]
      BY <1>1, <1>3 DEF PowerLoss, TypeOK, Steps, Ended
    <2>2. content' \in [Files -> Seq(Piece)]
      <3>1. \A f \in Files : content'[f] \in Seq(Piece)
        BY <1>1, <1>3, PowerLossFacts
      <3>2. \E s : content' = [f \in Files |-> s[f]]
        <4>1. PICK left \in [Files -> 0..2 * Cardinality(Commands)] :
                 content' = [g \in Files |-> SubSeq(content[g], 1, left[g])]
          BY <1>3 DEF PowerLoss
        <4>2. content' = [f \in Files |-> content'[f]]
          BY <4>1
        <4> QED BY <4>2
      <3> QED BY <3>1, <3>2
    <2>3. holder' \in [Files -> Commands \cup {NoCommand}]
      BY <1>3 DEF PowerLoss
    <2> QED BY <1>1, <1>3, <2>1, <2>2, <2>3 DEF PowerLoss, TypeOK, history
  <1>4. CASE Tick
    BY <1>1, <1>4, AuditAssumption DEF Tick, TypeOK, procVars, fileVars, history
  <1> QED BY <1>2, <1>3, <1>4 DEF Next, StepOf

--------------------------------------------------------------------------------
(* Commands and their files. *)

LEMMA OthersWait ==
  ASSUME TypeOK, NEW c \in Commands, StepOf(c), NEW d \in Commands \ {c}
  PROVE  /\ pc'[d] = pc[d] /\ status'[d] = status[d] /\ printed'[d] = printed[d]
         /\ exit'[d] = exit[d] /\ fd'[d] = fd[d]
         /\ d \in acked' <=> d \in acked
         /\ d \in failed' <=> d \in failed
         /\ req' = req
PROOF
  <1> USE DEF TypeOK, Go, history
  <1>1. CASE Start(c) \/ CheckLog(c) \/ HandlerEnds(c)
    BY <1>1 DEF Start, CheckLog, HandlerEnds
  <1>2. CASE Rename(c)
    BY <1>2 DEF Rename
  <1>3. CASE Emit(c)
    BY <1>3 DEF Emit
  <1>4. CASE Open(c) \/ LockAndWrite(c) \/ WriteTail(c)
    BY <1>4 DEF Open, LockAndWrite, WriteTail
  <1>5. CASE Sync(c) \/ AppendFails(c) \/ Die(c)
    BY <1>5 DEF Sync, AppendFails, Die
  <1> QED BY <1>1, <1>2, <1>3, <1>4, <1>5 DEF StepOf, HandlerStep, AppendStep

LEMMA HoldersStay ==
  ASSUME TypeOK, NEW c \in Commands, StepOf(c), NEW d \in Commands \ {c},
         NEW f \in Files, holder[f] = d
  PROVE  holder'[f] = d
PROOF
  <1>1. CASE LockAndWrite(c)
    BY <1>1, AuditAssumption DEF LockAndWrite, TypeOK
  <1>2. CASE Sync(c) \/ AppendFails(c) \/ Die(c)
    <2>1. holder' = Unheld(c)
      BY <1>2 DEF Sync, AppendFails, Die
    <2> QED BY <2>1, UnheldFacts
  <1>3. CASE ~ (LockAndWrite(c) \/ Sync(c) \/ AppendFails(c) \/ Die(c))
    BY <1>3 DEF StepOf, HandlerStep, AppendStep, Start, CheckLog, Rename, HandlerEnds, Emit, Open,
       WriteTail, fileVars
  <1> QED BY <1>1, <1>2, <1>3

\* A name that is taken away from a file is given to it again, or lost with the
\* archive that is renamed over.
LEMMA NoFileIsLost ==
  ASSUME TypeOK, NEW c \in Commands, StepOf(c),
         NEW f \in Files, f \in Reachable \cup replaced
  PROVE  f \in Reachable' \cup replaced'
PROOF
  <1>1. f # NoCommand
    BY AuditAssumption DEF Files
  <1>2. CASE Rename(c)
    <2>1. CASE log = NoCommand
      BY <1>2, <2>1 DEF Rename, Reachable
    <2>2. CASE log # NoCommand
      <3>1. /\ log' = NoCommand /\ archive' = [archive EXCEPT ![stamp[c]] = log]
            /\ replaced' = replaced \cup ({archive[stamp[c]]} \ {NoCommand})
        BY <1>2, <2>2 DEF Rename
      <3>2. DOMAIN archive = 0..MaxTime /\ DOMAIN archive' = 0..MaxTime
            /\ stamp[c] \in 0..MaxTime
        BY <3>1 DEF TypeOK
      <3>3. CASE f = log
        <4>1. archive'[stamp[c]] = f
          BY <3>1, <3>2, <3>3
        <4> QED BY <3>2, <4>1 DEF Reachable
      <3>4. CASE f \in replaced
        BY <3>1, <3>4
      <3>5. ASSUME NEW t \in DOMAIN archive, f = archive[t]
            PROVE  f \in Reachable' \cup replaced'
        <4>1. CASE t = stamp[c]
          BY <1>1, <3>1, <3>5, <4>1
        <4>2. CASE t # stamp[c]
          <5>1. archive'[t] = f
            BY <3>1, <3>2, <3>5, <4>2
          <5> QED BY <3>2, <5>1 DEF Reachable
        <4> QED BY <4>1, <4>2
      <3> QED BY <3>3, <3>4, <3>5 DEF Reachable
    <2> QED BY <2>1, <2>2
  <1>3. CASE Open(c)
    <2>1. /\ archive' = archive /\ replaced' = replaced
          /\ log # NoCommand => log' = log
      BY <1>3 DEF Open, history
    <2> QED BY <1>1, <2>1 DEF Reachable
  <1>4. CASE ~ (Rename(c) \/ Open(c))
    <2>1. UNCHANGED <<log, archive, replaced>>
      BY <1>4 DEF StepOf, HandlerStep, AppendStep, Start, CheckLog, HandlerEnds, Emit, LockAndWrite,
         WriteTail, Sync, AppendFails, Die, fileVars, history
    <2> QED BY <2>1 DEF Reachable
  <1> QED BY <1>2, <1>3, <1>4

LEMMA CommandProceeds ==
  ASSUME IInv, NEW c \in Commands, StepOf(c)
  PROVE  CommandIsWell(c)'
PROOF
  <1> USE DEF Go
  <1>1. TypeOK /\ CommandIsWell(c)
    BY DEF IInv
  <1>2. CASE Start(c) \/ CheckLog(c) \/ Rename(c)
    <2>1. /\ pc[c] \in {"idle", "rotating", "renaming"}
          /\ pc'[c] \in {"rotating", "renaming", "running", "printing"}
          /\ pc'[c] = "printing" => status'[c] = "usage_error"
          /\ UNCHANGED <<acked, failed>>
      <3>1. CASE Start(c)
        BY <1>1, <3>1 DEF Start, TypeOK, history
      <3>2. CASE CheckLog(c) \/ Rename(c)
        BY <1>1, <3>2 DEF CheckLog, Rename, TypeOK, history
      <3> QED BY <1>2, <3>1, <3>2
    <2> QED BY <1>1, <2>1 DEF CommandIsWell, Appending
  <1>3. CASE HandlerEnds(c)
    <2>1. PICK s \in req[c].ends : status' = [status EXCEPT ![c] = s]
      BY <1>3 DEF HandlerEnds
    <2>2. s \in Payloads /\ s # "none"
      <3>1. s \in Payloads
        BY <1>1, <2>1, AuditAssumption DEF TypeOK, Request
      <3> QED BY <3>1 DEF Payloads
    <2>3. /\ pc'[c] = "printing" /\ status'[c] = s /\ UNCHANGED <<acked, failed>>
          /\ pc[c] # "exited"
      <3>1. /\ pc' = [pc EXCEPT ![c] = "printing"] /\ UNCHANGED <<acked, failed>>
            /\ pc[c] \in {"rotating", "renaming", "running"}
        BY <1>3 DEF HandlerEnds, history
      <3> QED BY <1>1, <2>1, <3>1 DEF TypeOK
    <2> QED BY <1>1, <2>2, <2>3 DEF CommandIsWell, Appending
  <1>4. CASE Emit(c)
    <2> DEFINE s == Serialized(status[c])
    <2>1. s \in Payloads \ {"unserializable"}
      BY <1>1, <1>4, SerializedType DEF Emit, CommandIsWell, TypeOK
    <2>2. /\ (ExitStatus(req[c].kind, s) = 0)
                <=> (s = "ok" \/ (req[c].kind = "schema" /\ s # "interrupted"))
          /\ s = "interrupted" => ExitStatus(req[c].kind, s) = 130
      BY <2>1, ExitFacts
    <2>3. /\ status'[c] = s /\ printed'[c] = s
          /\ exit'[c] = ExitStatus(req[c].kind, s)
          /\ pc'[c] = IF Audited(c) THEN "opening" ELSE "exited"
          /\ pc[c] = "printing" /\ UNCHANGED <<req, acked, failed>>
      BY <1>1, <1>4 DEF Emit, TypeOK, history
    <2> HIDE DEF s
    <2>4. s # "none"
      BY <2>1 DEF Payloads
    <2>5. HasReported(c)'
      BY <2>2, <2>3, <2>4 DEF HasReported
    <2>6. Audited(c)' <=> Audited(c)
      BY <2>3 DEF Audited
    <2> QED BY <1>1, <2>3, <2>4, <2>5, <2>6 DEF CommandIsWell, Appending
  <1>5. CASE Open(c) \/ LockAndWrite(c) \/ WriteTail(c) \/ Sync(c) \/ AppendFails(c)
    <2>1. /\ pc[c] \in Appending
          /\ UNCHANGED <<req, status, printed, exit>>
      BY <1>5 DEF Open, LockAndWrite, WriteTail, Sync, AppendFails, Appending
    <2>2. \/ pc'[c] \in Appending /\ UNCHANGED <<acked, failed>>
          \/ pc'[c] = "exited" /\ c \in acked' \cup failed'
      <3>1. CASE Open(c) \/ LockAndWrite(c) \/ WriteTail(c)
        BY <1>1, <3>1 DEF Open, LockAndWrite, WriteTail, Appending, TypeOK, history
      <3>2. CASE Sync(c)
        BY <1>1, <3>2 DEF Sync, TypeOK
      <3>3. CASE AppendFails(c)
        <4>1. pc' = [pc EXCEPT ![c] = "exited"] /\ c \in failed'
          BY <3>3 DEF AppendFails
        <4> QED BY <1>1, <4>1 DEF TypeOK
      <3> QED BY <1>5, <3>1, <3>2, <3>3
    <2>3. HasReported(c)' /\ Audited(c)' /\ status[c] # "none" /\ status[c] = printed[c]
      BY <1>1, <2>1 DEF CommandIsWell, HasReported, Audited
    <2>4. pc[c] # "exited"
      BY <2>1 DEF Appending
    <2> QED BY <1>1, <2>1, <2>2, <2>3, <2>4 DEF CommandIsWell, Appending
  <1>6. CASE Die(c)
    <2>1. pc'[c] = "died" /\ pc[c] # "exited" /\ UNCHANGED <<acked, failed>>
      BY <1>1, <1>6 DEF Die, TypeOK, Ended, history
    <2> QED BY <1>1, <2>1 DEF CommandIsWell, Appending
  <1> QED BY <1>2, <1>3, <1>4, <1>5, <1>6 DEF StepOf, HandlerStep, AppendStep

LEMMA FileProceeds ==
  ASSUME IInv, NEW c \in Commands, StepOf(c)
  PROVE  FileIsKept(c)'
PROOF
  <1> USE DEF Go
  <1>1. TypeOK /\ CommandIsWell(c) /\ FileIsKept(c)
    BY DEF IInv
  <1>2. CASE Open(c)
    <2>1. /\ pc'[c] = "locking" /\ fd'[c] = log' /\ acked' = acked
          /\ log' = IF log = NoCommand THEN c ELSE log
      BY <1>1, <1>2 DEF Open, TypeOK, history
    <2>2. log' # NoCommand /\ log' \in Reachable'
      BY <2>1, AuditAssumption DEF Reachable
    <2> QED BY <2>1, <2>2 DEF FileIsKept
  <1>3. CASE ~ Open(c)
    <2>1. fd' = fd
      BY <1>3 DEF StepOf, HandlerStep, AppendStep, Start, CheckLog, Rename, HandlerEnds, Emit, LockAndWrite,
         WriteTail, Sync, AppendFails, Die
    <2>2. fd[c] # NoCommand => fd'[c] \in Reachable' \cup replaced'
      BY <1>1, <2>1, NoFileIsLost DEF FileIsKept, TypeOK
    <2>3. pc'[c] \in {"locking", "finishing", "syncing"} \/ c \in acked' => fd'[c] # NoCommand
      <3>1. CASE LockAndWrite(c) \/ WriteTail(c) \/ Sync(c)
        BY <1>1, <2>1, <3>1 DEF LockAndWrite, WriteTail, Sync, FileIsKept
      <3>2. CASE ~ (LockAndWrite(c) \/ WriteTail(c) \/ Sync(c))
        <4>1. /\ pc'[c] \notin {"locking", "finishing", "syncing"} /\ acked' = acked
          BY <1>1, <1>3, <3>2 DEF StepOf, HandlerStep, AppendStep, Start, CheckLog, Rename, HandlerEnds,
             Emit, AppendFails, Die, TypeOK, history
        <4> QED BY <1>1, <2>1, <4>1 DEF FileIsKept
      <3> QED BY <3>1, <3>2
    <2>4. pc'[c] \in {"finishing", "syncing"} => holder'[fd'[c]] = c
      <3>1. CASE LockAndWrite(c)
        <4>1. fd[c] \in Files /\ holder' = [holder EXCEPT ![fd[c]] = c]
          BY <1>1, <3>1 DEF LockAndWrite, FileIsKept, TypeOK
        <4> QED BY <1>1, <2>1, <4>1 DEF TypeOK
      <3>2. CASE WriteTail(c)
        BY <1>1, <2>1, <3>2 DEF WriteTail, FileIsKept
      <3>3. CASE ~ (LockAndWrite(c) \/ WriteTail(c))
        <4>1. pc'[c] \notin {"finishing", "syncing"}
          BY <1>1, <1>3, <3>3 DEF StepOf, HandlerStep, AppendStep, Start, CheckLog, Rename, HandlerEnds,
             Emit, Sync, AppendFails, Die, TypeOK
        <4> QED BY <4>1
      <3> QED BY <3>1, <3>2, <3>3
    <2> QED BY <2>1, <2>2, <2>3, <2>4 DEF FileIsKept
  <1> QED BY <1>2, <1>3

--------------------------------------------------------------------------------
(* Pieces of records. *)

\* Who has written a piece goes on with it, or stops for good.
LEMMA OwnersProceed ==
  ASSUME IInv, NEW c \in Commands, StepOf(c), NEW d \in Commands,
         pc[d] \in {"finishing", "syncing", "died"} \/ d \in acked \cup failed
  PROVE  /\ fd'[d] = fd[d] /\ printed'[d] = printed[d]
         /\ pc'[d] \in {"finishing", "syncing", "died"} \/ d \in acked' \cup failed'
         /\ pc[d] = "died" \/ d \in failed => pc'[d] = "died" \/ d \in failed'
         /\ (pc[d] \in {"finishing", "died"} \/ d \in failed) /\ ~ (d = c /\ WriteTail(c)) =>
               pc'[d] \in {"finishing", "died"} \/ d \in failed'
PROOF
  <1> USE DEF Go
  <1>1. TypeOK /\ CommandIsWell(d)
    BY DEF IInv
  <1>2. pc[d] \in {"finishing", "syncing", "died", "exited"} /\ (d \in failed => pc[d] = "exited")
    BY <1>1 DEF CommandIsWell
  <1>3. CASE d # c
    BY <1>1, <1>3, OthersWait
  <1>4. CASE d = c
    <2>1. WriteTail(c) \/ Sync(c) \/ AppendFails(c) \/ Die(c)
      BY <1>2, <1>4 DEF StepOf, HandlerStep, AppendStep, Start, CheckLog, Rename, HandlerEnds, Emit, Open,
         LockAndWrite
    <2>2. pc[c] \in {"finishing", "syncing"} /\ UNCHANGED <<fd, printed>>
      BY <1>2, <1>4, <2>1 DEF WriteTail, Sync, AppendFails, Die, Appending, Ended
    <2>3. CASE WriteTail(c)
      <3>1. pc'[c] = "syncing"
        BY <1>1, <2>3 DEF WriteTail, TypeOK
      <3> QED BY <1>2, <1>4, <2>2, <2>3, <3>1
    <2>4. CASE Sync(c)
      <3>1. c \in acked' /\ pc[c] = "syncing"
        BY <2>4 DEF Sync
      <3> QED BY <1>2, <1>4, <2>2, <3>1
    <2>5. CASE AppendFails(c)
      <3>1. c \in failed'
        BY <2>5 DEF AppendFails
      <3> QED BY <1>4, <2>2, <3>1
    <2>6. CASE Die(c)
      <3>1. pc'[c] = "died"
        BY <1>1, <2>6 DEF Die, TypeOK
      <3> QED BY <1>4, <2>2, <3>1
    <2> QED BY <2>1, <2>3, <2>4, <2>5, <2>6
  <1> QED BY <1>3, <1>4

\* What a piece needs to be in its place.
PieceIsFine(f, i) ==
    /\ HalvesMeet(f, i)
    /\ PieceIsOwned(f, i)
    /\ content[f][i].says = printed[content[f][i].of]

PiecesAreFine == \A f \in Files : \A i \in 1..Len(content[f]) : PieceIsFine(f, i)

LEMMA AllPiecesAreFine == IInv => PiecesAreFine
PROOF
  BY DEF IInv, AllHalvesMeet, CommandsReport, PiecesAreFine, PieceIsFine

\* Most steps write nothing.
LEMMA PiecesRest ==
  ASSUME IInv, NEW c \in Commands, StepOf(c), content' = content, ~ WriteTail(c)
  PROVE  PiecesAreFine'
PROOF
  <1>1. PiecesAreFine /\ TypeOK
    BY AllPiecesAreFine DEF IInv
  <1>2. SUFFICES ASSUME NEW f \in Files, NEW i \in 1..Len(content[f])
                 PROVE  PieceIsFine(f, i)'
    BY DEF PiecesAreFine
  <1> DEFINE d == content[f][i].of
  <1>3. HalvesMeet(f, i) /\ PieceIsOwned(f, i) /\ content[f][i].says = printed[d]
    BY <1>1 DEF PiecesAreFine, PieceIsFine
  <1>4. d \in Commands
    BY <1>1, PieceType
  <1>5. pc[d] \in {"finishing", "syncing", "died"} \/ d \in acked \cup failed
    BY <1>3 DEF PieceIsOwned
  <1>6. /\ fd'[d] = fd[d] /\ printed'[d] = printed[d]
        /\ pc'[d] \in {"finishing", "syncing", "died"} \/ d \in acked' \cup failed'
        /\ pc[d] = "died" \/ d \in failed => pc'[d] = "died" \/ d \in failed'
        /\ pc[d] \in {"finishing", "died"} \/ d \in failed =>
              pc'[d] \in {"finishing", "died"} \/ d \in failed'
    <2> HIDE DEF d
    <2> QED BY <1>4, <1>5, OwnersProceed
  <1>7. HalvesMeet(f, i)'
    BY <1>3, <1>6 DEF HalvesMeet
  <1>8. PieceIsOwned(f, i)'
    BY <1>3, <1>6 DEF PieceIsOwned
  <1> QED BY <1>3, <1>6, <1>7, <1>8 DEF PieceIsFine

\* A file nobody is writing to ends in a whole record or in what was left by
\* somebody stopped.
LEMMA LastHeadIsLeft ==
  ASSUME IInv, NEW f \in Files, holder[f] = NoCommand,
         Len(content[f]) > 0, content[f][Len(content[f])].part = "head"
  PROVE  LET d == content[f][Len(content[f])].of IN pc[d] = "died" \/ d \in failed
PROOF
  <1> DEFINE n == Len(content[f])
             d == content[f][n].of
  <1>1. TypeOK /\ PiecesAreFine
    BY AllPiecesAreFine DEF IInv
  <1>2. n \in 1..Len(content[f])
    BY <1>1, PieceType
  <1>3. d \in Commands
    BY <1>1, <1>2, PieceType
  <1>4. /\ fd[d] = f
        /\ pc[d] \in {"finishing", "died"} \/ d \in failed
    BY <1>1, <1>2 DEF PiecesAreFine, PieceIsFine, PieceIsOwned
  <1>5. pc[d] = "finishing" => holder[fd[d]] = d
    BY <1>3 DEF IInv, FileIsKept
  <1> HIDE DEF d
  <1>6. pc[d] # "finishing"
    BY <1>3, <1>4, <1>5, AuditAssumption
  <1> QED BY <1>4, <1>6 DEF d

\* Nothing is known of a command in the files before its first write.
LEMMA NoPieceYet ==
  ASSUME IInv, NEW c \in Commands, pc[c] = "locking",
         NEW f \in Files, NEW i \in 1..Len(content[f])
  PROVE  content[f][i].of # c
PROOF
  <1>1. PieceIsOwned(f, i) /\ CommandIsWell(c)
    BY DEF IInv
  <1> QED BY <1>1 DEF PieceIsOwned, CommandIsWell

\* Both writes append one piece to the file that the command has open.
LEMMA WritesAppend ==
  ASSUME IInv, NEW c \in Commands, NEW part \in {"head", "tail"},
         \/ part = "head" /\ LockAndWrite(c)
         \/ part = "tail" /\ WriteTail(c)
  PROVE  LET f == fd[c]
             n == Len(content[f])
         IN  /\ f \in Files /\ n \in Nat
             /\ \A g \in Files : g # f => content'[g] = content[g]
             /\ Len(content'[f]) = n + 1
             /\ \A i \in 1..n : content'[f][i] = content[f][i]
             /\ content'[f][n + 1] = [of |-> c, part |-> part, says |-> status[c]]
             /\ status[c] = printed[c]
             /\ UNCHANGED <<fd, printed, status, synced, acked, failed>>
             /\ pc'[c] = IF part = "head" THEN "finishing" ELSE "syncing"
PROOF
  <1> USE DEF Go
  <1>1. TypeOK /\ CommandIsWell(c) /\ FileIsKept(c)
    BY DEF IInv
  <1>2. /\ pc[c] \in {"locking", "finishing"} /\ Write(c, part)
        /\ UNCHANGED <<fd, printed, status, synced, acked, failed>>
    BY DEF LockAndWrite, WriteTail, history
  <1>3. pc'[c] = IF part = "head" THEN "finishing" ELSE "syncing"
    BY <1>1 DEF LockAndWrite, WriteTail, TypeOK
  <1>4. fd[c] # NoCommand /\ status[c] # "none" /\ status[c] = printed[c]
    BY <1>1, <1>2 DEF FileIsKept, CommandIsWell, Appending
  <1> QED BY <1>1, <1>2, <1>3, <1>4, WriteFacts

LEMMA HeadIsFine ==
  ASSUME IInv, NEW c \in Commands, LockAndWrite(c)
  PROVE  PiecesAreFine'
PROOF
  <1>1. PiecesAreFine /\ TypeOK
    BY AllPiecesAreFine DEF IInv
  <1>2. PICK f \in Files, n \in Nat :
        /\ f = fd[c] /\ n = Len(content[f])
        /\ \A g \in Files : g # f => content'[g] = content[g]
        /\ Len(content'[f]) = n + 1
        /\ \A i \in 1..n : content'[f][i] = content[f][i]
        /\ content'[f][n + 1] = [of |-> c, part |-> "head", says |-> status[c]]
        /\ status[c] = printed[c] /\ UNCHANGED <<fd, printed>>
        /\ pc'[c] = "finishing"
    BY WritesAppend, Zenon
  <1>3. holder[f] = NoCommand /\ pc[c] = "locking"
    BY <1>2 DEF LockAndWrite, Go
  <1>4. PieceIsFine(f, n + 1)'
    <2>1. HalvesMeet(f, n + 1)'
      BY <1>2 DEF HalvesMeet
    <2>2. PieceIsOwned(f, n + 1)'
      BY <1>2 DEF PieceIsOwned
    <2> QED BY <1>2, <2>1, <2>2 DEF PieceIsFine
  <1>5. ASSUME NEW g \in Files, NEW i \in 1..Len(content[g])
        PROVE  PieceIsFine(g, i)'
    <2> DEFINE d == content[g][i].of
    <2>1. HalvesMeet(g, i) /\ PieceIsOwned(g, i) /\ content[g][i].says = printed[d]
      BY <1>1, <1>5 DEF PiecesAreFine, PieceIsFine
    <2>2. d \in Commands /\ Len(content[g]) \in Nat
      BY <1>1, <1>5, PieceType
    <2>3. d # c
      BY <1>3, <1>5, NoPieceYet
    <2>4. pc'[d] = pc[d] /\ (d \in acked' <=> d \in acked) /\ (d \in failed' <=> d \in failed)
      <3> HIDE DEF d
      <3> QED BY <1>1, <2>2, <2>3, OthersWait DEF StepOf, HandlerStep, AppendStep
    <2>5. content'[g][i] = content[g][i] /\ i # Len(content[g]) + 1
      BY <1>2, <1>5, <2>2
    <2>6. PieceIsOwned(g, i)'
      BY <1>2, <2>1, <2>2, <2>4, <2>5 DEF PieceIsOwned
    <2>7. HalvesMeet(g, i)'
      <3>1. CASE g # f
        BY <1>2, <2>1, <2>4, <3>1 DEF HalvesMeet
      <3>2. CASE g = f /\ i < n
        <4>1. content'[f][i + 1] = content[f][i + 1]
          BY <1>2, <1>5, <3>2
        <4>2. i > 1 => content'[f][i - 1] = content[f][i - 1]
          BY <1>2, <1>5, <3>2
        <4>3. i < Len(content[f])
          BY <1>2, <3>2
        <4> QED BY <2>1, <2>4, <2>5, <3>2, <4>1, <4>2, <4>3 DEF HalvesMeet
      <3>3. CASE g = f /\ i = n
        <4>1. content[f][i].part = "head" => pc[d] = "died" \/ d \in failed
          BY <1>2, <1>3, <1>5, <3>3, LastHeadIsLeft
        <4>2. i > 1 => content'[f][i - 1] = content[f][i - 1]
          BY <1>2, <1>5, <3>3
        <4> QED BY <2>1, <2>4, <2>5, <3>3, <4>1, <4>2 DEF HalvesMeet
      <3> QED BY <1>2, <1>5, <3>1, <3>2, <3>3
    <2> QED BY <1>2, <2>1, <2>5, <2>6, <2>7 DEF PieceIsFine
  <1>6. ASSUME NEW g \in Files, NEW i \in 1..Len(content'[g]), ~ (g = f /\ i = n + 1)
        PROVE  i \in 1..Len(content[g])
    <2>1. CASE g = f
      <3>1. i \in 1..n + 1 /\ i # n + 1
        BY <1>2, <1>6, <2>1
      <3> QED BY <1>2, <2>1, <3>1
    <2>2. CASE g # f
      BY <1>2, <1>6, <2>2
    <2> QED BY <2>1, <2>2
  <1>7. ASSUME NEW g \in Files, NEW i \in 1..Len(content'[g])
        PROVE  PieceIsFine(g, i)'
    <2>1. CASE g = f /\ i = n + 1
      BY <1>4, <2>1
    <2>2. CASE ~ (g = f /\ i = n + 1)
      BY <1>5, <1>6, <1>7, <2>2
    <2> QED BY <2>1, <2>2
  <1> QED BY <1>7 DEF PiecesAreFine

LEMMA TailIsFine ==
  ASSUME IInv, NEW c \in Commands, WriteTail(c)
  PROVE  PiecesAreFine'
PROOF
  <1>1. PiecesAreFine /\ TypeOK /\ RecordIsOnItsWay(c)
    BY AllPiecesAreFine DEF IInv
  <1>2. PICK f \in Files, n \in Nat :
        /\ f = fd[c] /\ n = Len(content[f])
        /\ \A g \in Files : g # f => content'[g] = content[g]
        /\ Len(content'[f]) = n + 1
        /\ \A i \in 1..n : content'[f][i] = content[f][i]
        /\ content'[f][n + 1] = [of |-> c, part |-> "tail", says |-> status[c]]
        /\ status[c] = printed[c] /\ UNCHANGED <<fd, printed>>
        /\ pc'[c] = "syncing"
    BY WritesAppend, Zenon
  <1>3. /\ n > 0 /\ content[f][n] = [of |-> c, part |-> "head", says |-> status[c]]
        /\ \A j \in 1..n - 1 : content[f][j].of # c
    <2>1. pc[c] = "finishing"
      BY DEF WriteTail, Go
    <2> QED BY <1>1, <1>2, <2>1 DEF RecordIsOnItsWay
  <1>4. PieceIsFine(f, n + 1)'
    <2>1. content'[f][n + 1 - 1] = [of |-> c, part |-> "head", says |-> status[c]]
      BY <1>2, <1>3
    <2>2. HalvesMeet(f, n + 1)'
      BY <1>2, <1>3, <2>1 DEF HalvesMeet
    <2>3. PieceIsOwned(f, n + 1)'
      BY <1>2 DEF PieceIsOwned
    <2> QED BY <1>2, <2>2, <2>3 DEF PieceIsFine
  <1>5. PieceIsFine(f, n)'
    <2>1. content'[f][n] = content[f][n] /\ n # n + 1 /\ n < n + 1
      BY <1>2, <1>3
    <2>2. HalvesMeet(f, n)'
      BY <1>2, <1>3, <2>1 DEF HalvesMeet
    <2>3. PieceIsOwned(f, n)'
      BY <1>2, <1>3, <2>1 DEF PieceIsOwned
    <2> QED BY <1>2, <1>3, <2>1, <2>2, <2>3 DEF PieceIsFine
  <1>6. ASSUME NEW g \in Files, NEW i \in 1..Len(content[g]), ~ (g = f /\ i = n)
        PROVE  PieceIsFine(g, i)'
    <2> DEFINE d == content[g][i].of
    <2>1. HalvesMeet(g, i) /\ PieceIsOwned(g, i) /\ content[g][i].says = printed[d]
      BY <1>1, <1>6 DEF PiecesAreFine, PieceIsFine
    <2>2. d \in Commands /\ Len(content[g]) \in Nat
      BY <1>1, <1>6, PieceType
    <2>3. d # c
      <3>1. CASE g = f
        BY <1>2, <1>3, <1>6, <2>2, <3>1
      <3>2. CASE g # f
        BY <1>2, <2>1, <3>2 DEF PieceIsOwned
      <3> QED BY <3>1, <3>2
    <2>4. pc'[d] = pc[d] /\ (d \in acked' <=> d \in acked) /\ (d \in failed' <=> d \in failed)
      <3> HIDE DEF d
      <3> QED BY <1>1, <2>2, <2>3, OthersWait DEF StepOf, HandlerStep, AppendStep
    <2>5. content'[g][i] = content[g][i] /\ i # Len(content[g]) + 1
      BY <1>2, <1>6, <2>2
    <2>6. PieceIsOwned(g, i)'
      BY <1>2, <2>1, <2>2, <2>4, <2>5 DEF PieceIsOwned
    <2>7. HalvesMeet(g, i)'
      <3>1. CASE g # f
        BY <1>2, <2>1, <2>4, <3>1 DEF HalvesMeet
      <3>2. CASE g = f /\ i < n
        <4>1. content'[f][i + 1] = content[f][i + 1]
          BY <1>2, <1>6, <3>2
        <4>2. i > 1 => content'[f][i - 1] = content[f][i - 1]
          BY <1>2, <1>6, <3>2
        <4>3. i < Len(content[f])
          BY <1>2, <3>2
        <4> QED BY <2>1, <2>4, <2>5, <3>2, <4>1, <4>2, <4>3 DEF HalvesMeet
      <3> QED BY <1>2, <1>6, <3>1, <3>2
    <2> QED BY <1>2, <2>1, <2>5, <2>6, <2>7 DEF PieceIsFine
  <1>7. ASSUME NEW g \in Files, NEW i \in 1..Len(content'[g])
        PROVE  PieceIsFine(g, i)'
    <2>1. CASE g = f /\ i \in {n, n + 1}
      BY <1>4, <1>5, <2>1
    <2>2. CASE g = f /\ i \notin {n, n + 1}
      <3>1. i \in 1..n + 1
        BY <1>2, <1>7, <2>2
      <3>2. i \in 1..Len(content[g]) /\ i # n
        BY <1>2, <2>2, <3>1
      <3> QED BY <1>6, <2>2, <3>2
    <2>3. CASE g # f
      BY <1>2, <1>6, <1>7, <2>3
    <2> QED BY <2>1, <2>2, <2>3
  <1> QED BY <1>7 DEF PiecesAreFine

\* After a power failure the files end where they were synced or later, and
\* whoever had more to write is dead.
LEMMA RestIsFine ==
  ASSUME IInv, PowerLoss
  PROVE  PiecesAreFine'
PROOF
  <1>1. TypeOK /\ PiecesAreFine
    BY AllPiecesAreFine DEF IInv
  <1>2. SUFFICES ASSUME NEW f \in Files, NEW i \in 1..Len(content'[f])
                 PROVE  PieceIsFine(f, i)'
    BY DEF PiecesAreFine
  <1>3. /\ Len(content'[f]) \in Nat /\ Len(content[f]) \in Nat
        /\ Len(content'[f]) <= Len(content[f]) /\ synced[f] <= Len(content'[f])
        /\ \A j \in 1..Len(content'[f]) : content'[f][j] = content[f][j]
    <2>1. synced[f] \in Nat /\ Len(content[f]) \in Nat
      BY <1>1, PieceType DEF TypeOK
    <2> QED BY <1>1, <2>1, PowerLossFacts
  <1>4. i \in 1..Len(content[f]) /\ content'[f][i] = content[f][i]
    BY <1>2, <1>3
  <1> DEFINE d == content[f][i].of
  <1>5. HalvesMeet(f, i) /\ PieceIsOwned(f, i) /\ content[f][i].says = printed[d]
    BY <1>1, <1>4 DEF PiecesAreFine, PieceIsFine
  <1>6. d \in Commands
    BY <1>1, <1>4, PieceType
  <1>7. UNCHANGED <<fd, printed, acked, failed>>
    BY DEF PowerLoss, history
  <1>8. /\ pc[d] \in {"finishing", "syncing", "died"} => pc'[d] = "died"
        /\ pc[d] = "died" => pc'[d] = "died"
    BY <1>6 DEF PowerLoss, Ended
  <1>9. pc'[d] = "died" \/ d \in acked \cup failed
    BY <1>5, <1>8 DEF PieceIsOwned
  <1>10. content[f][i].part = "head" /\ i = Len(content'[f]) => pc'[d] = "died" \/ d \in failed
    <2>1. SUFFICES ASSUME content[f][i].part = "head", i = Len(content'[f]), d \in acked
                   PROVE  FALSE
      BY <1>9
    <2>2. fd[d] = f
      BY <1>5 DEF PieceIsOwned
    <2>3. \E k \in 1..Len(content[f]) : StandsAt(d, f, k) /\ k + 1 <= synced[f]
      <3> HIDE DEF d
      <3> QED BY <1>6, <2>1, <2>2 DEF IInv, RecordIsOnItsWay
    <2>4. PICK k \in 1..Len(content[f]) : StandsAt(d, f, k) /\ k + 1 <= synced[f]
      BY <2>3
    <2>5. i \in {k, k + 1} /\ content[f][k + 1].part = "tail"
      BY <1>4, <2>4 DEF StandsAt
    <2>6. i = k
      BY <2>1, <2>5
    <2>7. synced[f] \in Nat
      BY <1>1 DEF TypeOK
    <2> QED BY <1>3, <2>1, <2>4, <2>6, <2>7
  <1>11. PieceIsOwned(f, i)'
    BY <1>4, <1>5, <1>7, <1>9, <1>10 DEF PieceIsOwned
  <1>12. HalvesMeet(f, i)'
    <2>1. i > 1 => content'[f][i - 1] = content[f][i - 1]
      BY <1>2, <1>3
    <2>2. i < Len(content'[f]) => content'[f][i + 1] = content[f][i + 1] /\ i < Len(content[f])
      BY <1>2, <1>3
    <2> QED BY <1>4, <1>5, <1>7, <1>8, <2>1, <2>2 DEF HalvesMeet
  <1> QED BY <1>4, <1>5, <1>7, <1>11, <1>12 DEF PieceIsFine

--------------------------------------------------------------------------------
(* Records. *)

\* What is synced only becomes more, and never more than there is.
LEMMA SyncedGrows ==
  ASSUME IInv, NEW c \in Commands, StepOf(c), content' = content, NEW f \in Files
  PROVE  synced[f] <= synced'[f] /\ synced'[f] <= Len(content[f])
PROOF
  <1>1. TypeOK /\ synced[f] <= Len(content[f]) /\ synced[f] \in Nat
    BY DEF IInv, TypeOK
  <1>2. Len(content[f]) \in Nat
    BY <1>1, PieceType
  <1>3. CASE Sync(c)
    <2>1. synced' = [synced EXCEPT ![fd[c]] = Len(content[fd[c]])]
      BY <1>3 DEF Sync
    <2>2. synced'[f] = synced[f] \/ synced'[f] = Len(content[f])
      BY <1>1, <2>1 DEF TypeOK
    <2> QED BY <1>1, <1>2, <2>2
  <1>4. CASE ~ Sync(c)
    <2>1. synced' = synced
      BY <1>4 DEF StepOf, HandlerStep, AppendStep, Start, CheckLog, Rename, HandlerEnds, Emit, Open,
         LockAndWrite, WriteTail, AppendFails, Die, fileVars
    <2> QED BY <1>1, <1>2, <2>1
  <1> QED BY <1>3, <1>4

LEMMA RecordsRest ==
  ASSUME IInv, NEW c \in Commands, StepOf(c), content' = content,
         ~ LockAndWrite(c), ~ WriteTail(c), NEW d \in Commands
  PROVE  RecordIsOnItsWay(d)'
PROOF
  <1> USE DEF Go
  <1>1. TypeOK /\ CommandIsWell(c) /\ FileIsKept(d) /\ RecordIsOnItsWay(d)
    BY DEF IInv
  <1>2. CASE d # c
    <2>1. /\ pc'[d] = pc[d] /\ status'[d] = status[d] /\ fd'[d] = fd[d]
          /\ d \in acked' <=> d \in acked
      BY <1>1, <1>2, OthersWait
    <2>2. ASSUME d \in acked
          PROVE  \E i \in 1..Len(content'[fd'[d]]) :
                    StandsAt(d, fd[d], i)' /\ i + 1 <= synced'[fd'[d]]
      <3>1. PICK i \in 1..Len(content[fd[d]]) :
               StandsAt(d, fd[d], i) /\ i + 1 <= synced[fd[d]]
        BY <1>1, <2>2 DEF RecordIsOnItsWay
      <3>2. fd[d] \in Files
        BY <1>1, <2>2 DEF FileIsKept, TypeOK
      <3>3. synced[fd[d]] <= synced'[fd[d]] /\ synced[fd[d]] \in Nat
            /\ synced'[fd[d]] <= Len(content[fd[d]]) /\ Len(content[fd[d]]) \in Nat
        BY <1>1, <3>2, SyncedGrows, PieceType DEF TypeOK
      <3>4. synced'[fd[d]] \in Nat
        <4>1. StepOf(c) => Next
          BY DEF StepOf, Next
        <4> QED BY <3>2, <4>1, StepType DEF TypeOK
      <3>5. i + 1 <= synced'[fd[d]]
        BY <3>1, <3>3, <3>4
      <3> QED BY <2>1, <3>1, <3>5 DEF StandsAt
    <2>3. pc[d] = "syncing" => StandsAt(d, fd[d], Len(content[fd[d]]) - 1)'
      BY <1>1, <2>1 DEF RecordIsOnItsWay, StandsAt
    <2> QED BY <1>1, <2>1, <2>2, <2>3 DEF RecordIsOnItsWay, StandsAt
  <1>3. CASE d = c /\ Sync(c)
    <2>1. /\ pc[c] = "syncing" /\ pc'[c] = "exited" /\ fd' = fd
          /\ synced' = [synced EXCEPT ![fd[c]] = Len(content[fd[c]])]
      BY <1>1, <1>3 DEF Sync, TypeOK
    <2>2. fd[c] \in Files
      BY <1>1, <1>3, <2>1 DEF FileIsKept, TypeOK
    <2>3. synced'[fd[c]] = Len(content[fd[c]]) /\ Len(content[fd[c]]) \in Nat
      BY <1>1, <2>1, <2>2, PieceType DEF TypeOK
    <2>4. StandsAt(c, fd[c], Len(content[fd[c]]) - 1)
      BY <1>1, <1>3, <2>1 DEF RecordIsOnItsWay
    <2>5. PICK i \in 1..Len(content[fd[c]]) : i = Len(content[fd[c]]) - 1 /\ StandsAt(c, fd[c], i)
      BY <2>4 DEF StandsAt
    <2>6. i + 1 <= synced'[fd[c]]
      BY <2>3, <2>5
    <2> QED BY <1>3, <2>1, <2>5, <2>6 DEF RecordIsOnItsWay, StandsAt
  <1>4. CASE d = c /\ ~ Sync(c)
    <2>1. /\ pc'[c] \notin {"finishing", "syncing"} /\ c \notin acked'
      <3>1. pc[c] # "exited" /\ acked' = acked
        BY <1>4 DEF StepOf, HandlerStep, AppendStep, Start, CheckLog, Rename, HandlerEnds, Emit, Open,
           AppendFails, Die, Appending, Ended, history
      <3>2. c \notin acked'
        BY <1>1, <3>1 DEF CommandIsWell
      <3>3. PICK s \in Steps \ {"finishing", "syncing"} : pc' = [pc EXCEPT ![c] = s]
        <4> USE DEF Steps, Appending, Ended
        <4>1. CASE Start(c) \/ CheckLog(c) \/ Rename(c)
          BY <4>1 DEF Start, CheckLog, Rename
        <4>2. CASE HandlerEnds(c)
          BY <4>2 DEF HandlerEnds
        <4>3. CASE Emit(c) \/ Open(c) \/ Die(c)
          BY <4>3 DEF Emit, Open, Die
        <4>4. CASE AppendFails(c)
          BY <4>4 DEF AppendFails
        <4> QED BY <1>4, <4>1, <4>2, <4>3, <4>4 DEF StepOf, HandlerStep, AppendStep
      <3>4. pc'[c] \notin {"finishing", "syncing"}
        BY <1>1, <3>3 DEF TypeOK
      <3> QED BY <3>2, <3>4
    <2> QED BY <1>4, <2>1 DEF RecordIsOnItsWay
  <1> QED BY <1>2, <1>3, <1>4

\* Who writes has the lock, so that nobody else is in the middle of a record.
LEMMA WritersAreAlone ==
  ASSUME IInv, NEW c \in Commands, LockAndWrite(c) \/ WriteTail(c),
         NEW d \in Commands \ {c}, pc[d] \in {"finishing", "syncing"}
  PROVE  fd[d] # fd[c]
PROOF
  <1>1. holder[fd[d]] = d
    BY DEF IInv, FileIsKept
  <1>2. holder[fd[c]] \in {c, NoCommand}
    BY DEF IInv, FileIsKept, LockAndWrite, WriteTail, Go
  <1> QED BY <1>1, <1>2, AuditAssumption

LEMMA RecordsGrow ==
  ASSUME IInv, NEW c \in Commands, LockAndWrite(c) \/ WriteTail(c), NEW d \in Commands
  PROVE  RecordIsOnItsWay(d)'
PROOF
  <1>1. TypeOK /\ CommandIsWell(c) /\ FileIsKept(d) /\ RecordIsOnItsWay(d) /\ RecordIsOnItsWay(c)
    BY DEF IInv
  <1>2. PICK f \in Files, n \in Nat, part \in {"head", "tail"} :
        /\ f = fd[c] /\ n = Len(content[f])
        /\ part = "head" => LockAndWrite(c)
        /\ part = "tail" => WriteTail(c)
        /\ \A g \in Files : g # f => content'[g] = content[g]
        /\ Len(content'[f]) = n + 1
        /\ \A i \in 1..n : content'[f][i] = content[f][i]
        /\ content'[f][n + 1] = [of |-> c, part |-> part, says |-> status[c]]
        /\ UNCHANGED <<fd, status, synced, acked>>
        /\ pc'[c] = IF part = "head" THEN "finishing" ELSE "syncing"
    <2>1. PICK part \in {"head", "tail"} :
          \/ part = "head" /\ LockAndWrite(c)
          \/ part = "tail" /\ WriteTail(c)
      OBVIOUS
    <2>2. PICK f \in Files : f = fd[c]
      BY <2>1, WritesAppend
    <2>3. PICK n \in Nat : n = Len(content[f])
      BY <1>1, PieceType
    <2>4. /\ \A g \in Files : g # f => content'[g] = content[g]
          /\ Len(content'[f]) = n + 1
          /\ \A i \in 1..n : content'[f][i] = content[f][i]
          /\ content'[f][n + 1] = [of |-> c, part |-> part, says |-> status[c]]
          /\ UNCHANGED <<fd, status, synced, acked>>
          /\ pc'[c] = IF part = "head" THEN "finishing" ELSE "syncing"
      BY <2>1, <2>2, <2>3, WritesAppend
    <2>5. (part = "head" => LockAndWrite(c)) /\ (part = "tail" => WriteTail(c))
      BY <2>1
    <2> QED BY <2>2, <2>3, <2>4, <2>5, Zenon
  <1>3. CASE d # c
    <2>1. pc'[d] = pc[d]
      BY <1>1, <1>3, OthersWait DEF StepOf, HandlerStep, AppendStep
    <2>2. pc[d] \in {"finishing", "syncing"} => content'[fd[d]] = content[fd[d]]
      <3>1. SUFFICES ASSUME pc[d] \in {"finishing", "syncing"}
                     PROVE  content'[fd[d]] = content[fd[d]]
        OBVIOUS
      <3>2. fd[d] \in Files /\ fd[d] # f
        BY <1>1, <1>2, <1>3, <3>1, WritersAreAlone DEF FileIsKept, TypeOK
      <3> QED BY <1>2, <3>2
    <2>3. ASSUME d \in acked
          PROVE  \E i \in 1..Len(content'[fd[d]]) :
                    StandsAt(d, fd[d], i)' /\ i + 1 <= synced[fd[d]]
      <3>1. PICK g \in Files : g = fd[d]
        BY <1>1, <2>3 DEF FileIsKept, TypeOK
      <3>2. PICK i \in 1..Len(content[g]) : StandsAt(d, g, i) /\ i + 1 <= synced[g]
        BY <1>1, <2>3, <3>1 DEF RecordIsOnItsWay
      <3>3. CASE g # f
        <4>1. content'[g] = content[g]
          BY <1>2, <3>3
        <4> QED BY <1>2, <3>1, <3>2, <4>1 DEF StandsAt
      <3>4. CASE g = f
        <4>1. /\ i \in 1..n /\ i + 1 \in 1..n /\ content[f][i + 1].part = "tail"
              /\ \A j \in 1..n : content[f][j].of = d <=> j \in {i, i + 1}
          BY <1>2, <3>2, <3>4 DEF StandsAt
        <4>2. \A j \in 1..n + 1 : content'[f][j].of = d <=> j \in {i, i + 1}
          <5>1. ASSUME NEW j \in 1..n + 1 PROVE content'[f][j].of = d <=> j \in {i, i + 1}
            <6>1. CASE j = n + 1
              BY <1>2, <1>3, <4>1, <6>1
            <6>2. CASE j # n + 1
              <7>1. j \in 1..n
                BY <5>1, <6>2
              <7> QED BY <1>2, <4>1, <7>1
            <6> QED BY <6>1, <6>2
          <5> QED BY <5>1
        <4>3. i \in 1..n + 1 /\ i + 1 \in 1..n + 1 /\ content'[f][i + 1].part = "tail"
          <5>1. content'[f][i + 1] = content[f][i + 1]
            BY <1>2, <4>1
          <5>2. i \in 1..n + 1 /\ i + 1 \in 1..n + 1
            BY <4>1
          <5> QED BY <4>1, <5>1, <5>2
        <4>4. StandsAt(d, f, i)'
          BY <1>2, <4>2, <4>3 DEF StandsAt
        <4> QED BY <1>2, <3>1, <3>2, <3>4, <4>3, <4>4
      <3> QED BY <3>3, <3>4
    <2>4. pc[d] = "finishing" =>
            /\ Len(content'[fd[d]]) > 0
            /\ content'[fd[d]][Len(content'[fd[d]])]
                  = [of |-> d, part |-> "head", says |-> status[d]]
            /\ \A j \in 1..Len(content'[fd[d]]) - 1 : content'[fd[d]][j].of # d
      BY <1>1, <2>2 DEF RecordIsOnItsWay
    <2>5. pc[d] = "syncing" => StandsAt(d, fd[d], Len(content[fd[d]]) - 1)'
      BY <1>1, <2>2, <1>2 DEF RecordIsOnItsWay, StandsAt
    <2> QED BY <1>2, <2>1, <2>2, <2>3, <2>4, <2>5 DEF RecordIsOnItsWay
  <1>4. CASE d = c /\ part = "head"
    <2>1. pc[c] = "locking" /\ pc'[c] = "finishing"
      BY <1>2, <1>4 DEF LockAndWrite, Go
    <2>2. c \notin acked
      BY <1>1, <2>1 DEF CommandIsWell
    <2>3. \A j \in 1..n : content[f][j].of # c
      BY <1>2, <2>1, NoPieceYet
    <2>4. \A j \in 1..(n + 1) - 1 : content'[f][j].of # c
      BY <1>2, <2>3
    <2> QED BY <1>2, <1>4, <2>1, <2>2, <2>4 DEF RecordIsOnItsWay
  <1>5. CASE d = c /\ part = "tail"
    <2>1. pc[c] = "finishing" /\ pc'[c] = "syncing"
      BY <1>2, <1>5 DEF WriteTail, Go
    <2>2. c \notin acked
      BY <1>1, <2>1 DEF CommandIsWell
    <2>3. /\ n > 0 /\ content[f][n] = [of |-> c, part |-> "head", says |-> status[c]]
          /\ \A j \in 1..n - 1 : content[f][j].of # c
      BY <1>1, <1>2, <2>1 DEF RecordIsOnItsWay
    <2>4. ASSUME NEW j \in 1..n + 1 PROVE content'[f][j].of = c <=> j \in {n, n + 1}
      <3>1. CASE j = n + 1
        BY <1>2, <3>1
      <3>2. CASE j = n
        BY <1>2, <2>3, <3>2
      <3>3. CASE j \in 1..n - 1
        BY <1>2, <2>3, <3>3
      <3> QED BY <2>4, <3>1, <3>2, <3>3
    <2>5. n \in 1..n + 1 /\ n + 1 \in 1..n + 1 /\ content'[f][n + 1].part = "tail"
          /\ Len(content'[f]) - 1 = n
      BY <1>2, <1>5, <2>3
    <2>6. StandsAt(c, f, n)'
      BY <1>2, <2>4, <2>5 DEF StandsAt
    <2> QED BY <1>2, <1>5, <2>1, <2>2, <2>5, <2>6 DEF RecordIsOnItsWay
  <1> QED BY <1>3, <1>4, <1>5

--------------------------------------------------------------------------------
(* Power failures. *)

LEMMA RecordsRemain ==
  ASSUME IInv, PowerLoss, NEW d \in Commands
  PROVE  RecordIsOnItsWay(d)'
PROOF
  <1>1. TypeOK /\ FileIsKept(d) /\ RecordIsOnItsWay(d)
    BY DEF IInv
  <1>2. /\ pc'[d] \notin {"finishing", "syncing"}
        /\ UNCHANGED <<fd, synced, acked>>
    BY DEF PowerLoss, Ended, history
  <1>3. ASSUME d \in acked
        PROVE  \E i \in 1..Len(content'[fd[d]]) :
                  StandsAt(d, fd[d], i)' /\ i + 1 <= synced[fd[d]]
    <2>1. PICK f \in Files : f = fd[d]
      BY <1>1, <1>3 DEF FileIsKept, TypeOK
    <2>2. PICK i \in 1..Len(content[f]) : StandsAt(d, f, i) /\ i + 1 <= synced[f]
      BY <1>1, <1>3, <2>1 DEF RecordIsOnItsWay
    <2>3. /\ Len(content'[f]) \in Nat /\ Len(content[f]) \in Nat
          /\ Len(content'[f]) <= Len(content[f]) /\ synced[f] <= Len(content'[f])
          /\ \A j \in 1..Len(content'[f]) : content'[f][j] = content[f][j]
      <3>1. synced[f] \in Nat /\ Len(content[f]) \in Nat
        BY <1>1, PieceType DEF TypeOK
      <3> QED BY <1>1, <3>1, PowerLossFacts
    <2>4. synced[f] \in Nat
      BY <1>1 DEF TypeOK
    <2>5. i \in 1..Len(content'[f]) /\ i + 1 \in 1..Len(content'[f])
      BY <2>2, <2>3, <2>4
    <2>6. \A j \in 1..Len(content'[f]) : content'[f][j].of = d <=> j \in {i, i + 1}
      BY <2>2, <2>3 DEF StandsAt
    <2>7. StandsAt(d, f, i)'
      BY <2>2, <2>3, <2>5, <2>6 DEF StandsAt
    <2> QED BY <1>2, <2>1, <2>2, <2>5, <2>7
  <1> QED BY <1>2, <1>3 DEF RecordIsOnItsWay

LEMMA CommandsStop ==
  ASSUME IInv, PowerLoss, NEW d \in Commands
  PROVE  CommandIsWell(d)' /\ FileIsKept(d)'
PROOF
  <1>1. CommandIsWell(d) /\ FileIsKept(d)
    BY DEF IInv
  <1>2. /\ UNCHANGED <<req, status, printed, exit, fd, log, archive, acked, failed, replaced>>
        /\ pc'[d] = "exited" <=> pc[d] = "exited"
        /\ pc'[d] \notin {"printing"} \cup Appending
    BY DEF PowerLoss, Ended, Appending, history
  <1>3. CommandIsWell(d)'
    BY <1>1, <1>2 DEF CommandIsWell, HasReported, Audited, Appending
  <1>4. FileIsKept(d)'
    BY <1>1, <1>2 DEF FileIsKept, Reachable, Appending
  <1> QED BY <1>3, <1>4

--------------------------------------------------------------------------------
(* The invariant. *)

\* The parts that follow from the others.
LEMMA PartsSuffice ==
  ASSUME TypeOK', PiecesAreFine',
         \A c \in Commands : (CommandIsWell(c) /\ FileIsKept(c) /\ RecordIsOnItsWay(c))',
         \A f \in Files : synced'[f] <= Len(content'[f])
  PROVE  IInv'
PROOF
  <1>1. AllHalvesMeet'
    BY DEF AllHalvesMeet, PiecesAreFine, PieceIsFine
  <1>2. CommandsReport'
    <2>1. \A c \in Commands : pc'[c] = "exited" => HasReported(c)'
      BY DEF CommandIsWell
    <2>2. \A f \in Files : \A i \in 1..Len(content'[f]) :
             content'[f][i].says = printed'[content'[f][i].of]
      BY DEF PiecesAreFine, PieceIsFine
    <2> QED BY <2>1, <2>2 DEF CommandsReport
  <1>3. \A f \in Files : \A i \in 1..Len(content'[f]) : PieceIsOwned(f, i)'
    BY DEF PiecesAreFine, PieceIsFine
  <1> QED BY <1>1, <1>2, <1>3 DEF IInv

\* What the others had done, and what the one that steps has done.
LEMMA OtherParts ==
  ASSUME IInv, NEW c \in Commands, StepOf(c), NEW d \in Commands
  PROVE  CommandIsWell(d)' /\ FileIsKept(d)'
PROOF
  <1>1. TypeOK /\ CommandIsWell(d) /\ FileIsKept(d)
    BY DEF IInv
  <1>2. CASE d = c
    BY <1>2, CommandProceeds, FileProceeds
  <1>3. CASE d # c
    <2>1. /\ pc'[d] = pc[d] /\ status'[d] = status[d] /\ printed'[d] = printed[d]
          /\ exit'[d] = exit[d] /\ fd'[d] = fd[d]
          /\ d \in acked' <=> d \in acked
          /\ d \in failed' <=> d \in failed
          /\ req' = req
      BY <1>1, <1>3, OthersWait
    <2>2. CommandIsWell(d)'
      BY <1>1, <2>1 DEF CommandIsWell, HasReported, Audited
    <2>3. fd[d] # NoCommand => fd[d] \in Reachable' \cup replaced'
      <3>1. fd[d] # NoCommand => fd[d] \in Files /\ fd[d] \in Reachable \cup replaced
        BY <1>1 DEF FileIsKept, TypeOK
      <3> QED BY <1>1, <3>1, NoFileIsLost
    <2>4. pc[d] \in {"finishing", "syncing"} => holder'[fd[d]] = d
      <3>1. pc[d] \in {"finishing", "syncing"} => fd[d] \in Files /\ holder[fd[d]] = d
        BY <1>1 DEF FileIsKept, TypeOK
      <3> QED BY <1>1, <1>3, <3>1, HoldersStay
    <2>5. FileIsKept(d)'
      BY <1>1, <2>1, <2>3, <2>4 DEF FileIsKept
    <2> QED BY <2>2, <2>5
  <1> QED BY <1>2, <1>3

LEMMA UnchangedParts ==
  ASSUME IInv, TypeOK',
         UNCHANGED <<req, pc, status, printed, exit, stamp, fd,
                     log, archive, holder, content, synced, acked, failed, replaced>>
  PROVE  IInv'
PROOF
  <1>1. PiecesAreFine'
    BY AllPiecesAreFine DEF PiecesAreFine, PieceIsFine, HalvesMeet, PieceIsOwned
  <1>2. ASSUME NEW c \in Commands
        PROVE  CommandIsWell(c)' /\ FileIsKept(c)' /\ RecordIsOnItsWay(c)'
    <2>1. CommandIsWell(c) /\ FileIsKept(c) /\ RecordIsOnItsWay(c)
      BY DEF IInv
    <2>2. CommandIsWell(c)'
      BY <2>1 DEF CommandIsWell, HasReported, Audited
    <2>3. FileIsKept(c)'
      BY <2>1 DEF FileIsKept, Reachable
    <2>4. RecordIsOnItsWay(c)'
      BY <2>1 DEF RecordIsOnItsWay, StandsAt
    <2> QED BY <2>2, <2>3, <2>4
  <1>3. \A f \in Files : synced'[f] <= Len(content'[f])
    BY DEF IInv
  <1> QED BY <1>1, <1>2, <1>3, PartsSuffice

LEMMA CommandKeepsIInv ==
  ASSUME IInv, NEW c \in Commands, StepOf(c)
  PROVE  IInv'
PROOF
  <1>1. TypeOK /\ TypeOK'
    <2>1. Next
      BY DEF StepOf, Next
    <2> QED BY <2>1, StepType DEF IInv
  <1>2. CASE LockAndWrite(c) \/ WriteTail(c)
    <2>1. PiecesAreFine'
      BY <1>2, HeadIsFine, TailIsFine
    <2>2. \A d \in Commands : RecordIsOnItsWay(d)'
      BY <1>2, RecordsGrow
    <2>3. ASSUME NEW f \in Files PROVE synced'[f] <= Len(content'[f])
      <3>1. PICK g \in Files, n \in Nat :
            /\ n = Len(content[g])
            /\ \A h \in Files : h # g => content'[h] = content[h]
            /\ Len(content'[g]) = n + 1
            /\ synced' = synced
        <4>1. CASE LockAndWrite(c)
          BY <4>1, WritesAppend, Zenon
        <4>2. CASE WriteTail(c)
          BY <4>2, WritesAppend, Zenon
        <4> QED BY <1>2, <4>1, <4>2
      <3>2. synced[f] <= Len(content[f]) /\ synced[f] \in Nat
        BY DEF IInv, TypeOK
      <3> QED BY <3>1, <3>2
    <2> QED BY <1>1, <2>1, <2>2, <2>3, OtherParts, PartsSuffice
  <1>3. CASE ~ LockAndWrite(c) /\ ~ WriteTail(c)
    <2>1. content' = content
      BY <1>3 DEF StepOf, HandlerStep, AppendStep, Start, CheckLog, Rename, HandlerEnds, Emit, Open,
         Sync, AppendFails, Die, fileVars
    <2>2. PiecesAreFine'
      BY <1>3, <2>1, PiecesRest
    <2>3. \A d \in Commands : RecordIsOnItsWay(d)'
      BY <1>3, <2>1, RecordsRest
    <2>4. \A f \in Files : synced'[f] <= Len(content'[f])
      BY <2>1, SyncedGrows
    <2> QED BY <1>1, <2>2, <2>3, <2>4, OtherParts, PartsSuffice
  <1> QED BY <1>2, <1>3

LEMMA NextIInv == IInv /\ [Next]_vars => IInv'
PROOF
  <1> SUFFICES ASSUME IInv, [Next]_vars PROVE IInv'
    OBVIOUS
  <1>1. ASSUME NEW c \in Commands, StepOf(c) PROVE IInv'
    BY <1>1, CommandKeepsIInv
  <1>2. CASE PowerLoss
    <2>1. TypeOK /\ TypeOK'
      BY <1>2, StepType DEF Next, IInv
    <2>2. \A f \in Files : synced'[f] <= Len(content'[f])
      <3>1. ASSUME NEW f \in Files PROVE synced'[f] <= Len(content'[f])
        <4>1. synced[f] \in Nat /\ Len(content[f]) \in Nat /\ synced' = synced
          BY <1>2, <2>1, PieceType DEF PowerLoss, TypeOK
        <4> QED BY <1>2, <2>1, <4>1, PowerLossFacts
      <3> QED BY <3>1
    <2> QED BY <1>2, <2>1, <2>2, RestIsFine, RecordsRemain, CommandsStop, PartsSuffice
  <1>3. CASE Tick
    <2>1. TypeOK'
      BY <1>3, StepType DEF Next
    <2>2. UNCHANGED <<req, pc, status, printed, exit, stamp, fd,
                      log, archive, holder, content, synced, acked, failed, replaced>>
      BY <1>3 DEF Tick, procVars, fileVars, history
    <2> QED BY <2>1, <2>2, UnchangedParts
  <1>4. CASE UNCHANGED vars
    <2>1. UNCHANGED <<req, pc, status, printed, exit, stamp, fd,
                      log, archive, holder, content, synced, acked, failed, replaced>>
      BY <1>4 DEF vars
    <2>2. TypeOK'
      BY <1>4 DEF vars, IInv, TypeOK
    <2> QED BY <2>1, <2>2, UnchangedParts
  <1> QED BY <1>1, <1>2, <1>3, <1>4 DEF Next, StepOf

LEMMA IInvHolds == Spec => []IInv
PROOF
  BY InitIInv, NextIInv, PTL DEF Spec

--------------------------------------------------------------------------------
(* The theorems. *)

\* Every variable keeps its type: a written piece gives a status a command can
\* have, and an exit status is one a process can have.
THEOREM TypeCorrect == Spec => []TypeOK
PROOF
  <1>1. IInv => TypeOK
    BY DEF IInv
  <1> QED BY <1>1, IInvHolds, PTL

\* What precedes a record that has been acknowledged: a newline, or what is left
\* of one that never was.
LEMMA BehindWhat ==
  ASSUME IInv, NEW c \in acked, NEW i \in 1..Len(content[fd[c]]),
         fd[c] \in Files, StandsAt(c, fd[c], i)
  PROVE  BeginsLine(fd[c], i) \/ FollowsTorn(fd[c], i)
PROOF
  <1> DEFINE f == fd[c]
             p == content[f][i - 1]
  <1>1. TypeOK /\ AllHalvesMeet
    BY DEF IInv
  <1>2. SUFFICES ASSUME ~ BeginsLine(f, i) PROVE FollowsTorn(f, i)
    OBVIOUS
  <1>3. i - 1 \in 1..Len(content[f]) /\ i \in Nat /\ Len(content[f]) \in Nat
    BY <1>1, <1>2, PieceType DEF BeginsLine
  <1>4. i > 1 /\ p.part = "head" /\ p.of \in Commands
    BY <1>1, <1>2, <1>3, PieceType DEF BeginsLine
  <1>5. p.of # c /\ content[f][i].of = c
    BY <1>3 DEF StandsAt
  <1>6. content[f][i] # [p EXCEPT !.part = "tail"]
    <2>1. p \in Piece
      BY <1>1, <1>3, PieceType
    <2> QED BY <1>5, <2>1 DEF Piece
  <1>7. pc[p.of] = "died" \/ p.of \in failed
    <2>1. HalvesMeet(f, i - 1)
      BY <1>1, <1>3 DEF AllHalvesMeet
    <2>2. i - 1 < Len(content[f]) /\ (i - 1) + 1 = i
      BY <1>3
    <2> QED BY <1>4, <1>6, <2>1, <2>2 DEF HalvesMeet
  <1>8. p.of \notin acked
    <2> SUFFICES ASSUME p.of \in acked PROVE FALSE
      OBVIOUS
    <2>1. RecordIsOnItsWay(p.of) /\ PieceIsOwned(f, i - 1)
      BY <1>3, <1>4 DEF IInv
    <2>2. fd[p.of] = f
      BY <2>1 DEF PieceIsOwned
    <2>3. PICK k \in 1..Len(content[f]) : StandsAt(p.of, f, k)
      BY <2>1, <2>2 DEF RecordIsOnItsWay
    <2>4. i - 1 \in {k, k + 1} /\ content[f][k + 1].part = "tail" /\ content[f][k + 1].of = p.of
      BY <1>3, <2>3 DEF StandsAt
    <2>5. i - 1 # k + 1
      BY <1>4, <2>4
    <2>6. i = k + 1
      BY <1>3, <2>3, <2>4, <2>5
    <2> QED BY <1>5, <2>4, <2>6
  <1> QED BY <1>4, <1>7, <1>8 DEF FollowsTorn

\* A record whose append returned stands in one piece, once, in the log or in an
\* archive, however many commands append, rotate, fail and die at once and
\* whenever the power fails.  It has its line to itself, unless it is the first
\* behind what is left of a record whose command died or failed.  A command that
\* exits has its record or has tried (paths.append_durable_line,
\* lifecycle._rotate_logs, cli._emit_audit).
THEOREM RecordsTheorem == Spec => []RecordsSurvive
PROOF
  <1>1. IInv => RecordsSurvive
    <2> SUFFICES ASSUME IInv PROVE RecordsSurvive
      OBVIOUS
    <2>1. TypeOK /\ AllHalvesMeet
      BY DEF IInv
    <2>2. ASSUME NEW c \in acked
          PROVE  /\ fd[c] \in Reachable \cup replaced
                 /\ \E i \in 1..Len(content[fd[c]]) :
                       /\ StandsAt(c, fd[c], i)
                       /\ BeginsLine(fd[c], i) \/ FollowsTorn(fd[c], i)
      <3>1. c \in Commands
        BY <2>1 DEF TypeOK
      <3>2. FileIsKept(c) /\ RecordIsOnItsWay(c)
        BY <3>1 DEF IInv
      <3>3. fd[c] \in Files /\ fd[c] \in Reachable \cup replaced
        BY <2>1, <3>1, <3>2 DEF FileIsKept, TypeOK
      <3>4. PICK i \in 1..Len(content[fd[c]]) : StandsAt(c, fd[c], i)
        BY <3>2 DEF RecordIsOnItsWay
      <3>5. BeginsLine(fd[c], i) \/ FollowsTorn(fd[c], i)
        BY <3>3, <3>4, BehindWhat
      <3> QED BY <3>3, <3>4, <3>5
    <2>3. \A c \in Commands : pc[c] = "exited" /\ Audited(c) => c \in acked \cup failed
      BY DEF IInv, CommandIsWell
    <2> QED BY <2>1, <2>2, <2>3 DEF RecordsSurvive
  <1> QED BY <1>1, IInvHolds, PTL

\* The envelope a command printed, its exit status and every piece of its
\* record give one and the same status (cli._emit).
THEOREM ReportTheorem == Spec => []CommandsReport
PROOF
  <1>1. IInv => CommandsReport
    BY DEF IInv
  <1> QED BY <1>1, IInvHolds, PTL

================================================================================
