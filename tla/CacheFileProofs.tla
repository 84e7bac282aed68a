---------------------------- MODULE CacheFileProofs ----------------------------
(***************************************************************************)
(* The file of one cache key, for any number of readers and writers, any   *)
(* envelopes and lifetimes: the program never harms it by itself, and it   *)
(* implements CacheRegister without a lock.                                *)
(***************************************************************************)
EXTENDS CacheFile, TLAPS

--------------------------------------------------------------------------------
(* What a caller leaves alone. *)

LEMMA InitIInv == Init => IInv
PROOF
  <1> SUFFICES ASSUME Init PROVE IInv
    OBVIOUS
  <1>1. TypeOK
    BY CacheFileAssumption DEF Init, TypeOK, Content
  <1>2. file # Torn
    BY ContentsDiffer DEF Init
  <1> QED BY <1>1, <1>2
    DEF Init, IInv, StoreStaysClean, WriterIsReady, ReaderHasSeen, OnlyDoubtsHarm,
        Writing, Reading

\* A step moves one caller, along its own record, file and bytes.
LEMMA OthersWait ==
  ASSUME TypeOK, NEW p \in Callers, CallerStep(p)
  PROVE  /\ \A q \in Callers \ {p} :
               /\ pc'[q] = pc[q] /\ tmp'[q] = tmp[q] /\ record'[q] = record[q]
               /\ bytes'[q] = bytes[q]
         /\ now' = now /\ pc[p] # "done"
PROOF
  <1> USE DEF TypeOK, Go, Answer, writers, readers
  <1>1. CASE BeginWrite(p) \/ Write(p) \/ Flush(p) \/ Replace(p)
    BY <1>1 DEF BeginWrite, Write, Flush, Replace
  <1>2. CASE WriteFails(p) \/ Die(p)
    BY <1>2 DEF WriteFails, Die, Writing, Reading
  <1>3. CASE BeginRead(p) \/ Open(p) \/ ReadFails(p) \/ Miss(p) \/ Rename(p)
    BY <1>3 DEF BeginRead, Open, ReadFails, Miss, Rename
  <1>4. CASE Look(p)
    BY <1>4 DEF Look
  <1>5. CASE Judge(p)
    BY <1>5 DEF Judge
  <1>6. CASE SetAside(p)
    BY <1>6 DEF SetAside
  <1> QED BY <1>1, <1>2, <1>3, <1>4, <1>5, <1>6 DEF CallerStep

--------------------------------------------------------------------------------
(* Types. *)

\* The readers under way see what the file becomes.
LEMMA BecomesType ==
  ASSUME TypeOK, NEW c \in Content, Becomes(c)
  PROVE  /\ file' \in Content
         /\ seen' \in [Callers -> SUBSET (Entry \cup {Nothing})]
PROOF
  BY DEF TypeOK, Becomes

LEMMA AnswerType ==
  ASSUME TypeOK, NEW p \in Callers, NEW a \in Values \cup {"miss", "raised"}, Answer(p, a)
  PROVE  /\ answer' \in [Callers -> Values \cup {"none", "miss", "raised"}]
         /\ seen' \in [Callers -> SUBSET (Entry \cup {Nothing})]
PROOF
  BY DEF TypeOK, Answer

LEMMA WriteType ==
  ASSUME TypeOK, NEW p \in Callers, WriterIsReady(p),
         BeginWrite(p) \/ Write(p) \/ Flush(p) \/ Replace(p) \/ WriteFails(p)
  PROVE  TypeOK'
PROOF
  <1> USE DEF Go, writers, readers, Writing
  <1>1. TypeOK
    OBVIOUS
  <1>2. CASE BeginWrite(p)
    <2>1. PICK v \in Values, ttl \in Ttls :
             record' = [record EXCEPT ![p] = [value |-> v, expires |-> now + ttl]]
      BY <1>2 DEF BeginWrite
    <2>2. now + ttl \in 0..MaxTime + MaxTtl
      BY CacheFileAssumption DEF TypeOK
    <2>3. [value |-> v, expires |-> now + ttl] \in Entry
      BY <2>2 DEF Entry
    <2>4. record' \in [Callers -> Entry \cup {Nothing}]
      BY <2>1, <2>3 DEF TypeOK
    <2>5. tmp' \in [Callers -> Temporary \cup {Nothing}]
      BY <1>2 DEF BeginWrite, TypeOK, Temporary
    <2> QED BY <1>2, <2>4, <2>5 DEF BeginWrite, TypeOK
  <1>3. CASE Write(p) \/ Flush(p)
    <2>1. /\ record[p] \in Entry /\ tmp[p] # Nothing
          /\ tmp[p] \in Temporary
      BY <1>3 DEF Write, Flush, WriterIsReady, TypeOK
    <2>2. tmp' \in [Callers -> Temporary \cup {Nothing}]
      <3>1. CASE Write(p)
        BY <2>1, <3>1 DEF Write, TypeOK, Temporary
      <3>2. CASE Flush(p)
        BY <2>1, <3>2 DEF Flush, TypeOK, Temporary
      <3> QED BY <1>3, <3>1, <3>2
    <2> QED BY <1>3, <2>2 DEF Write, Flush, TypeOK
  <1>4. CASE Replace(p)
    <2>1. /\ record[p] \in Entry /\ tmp[p] # Nothing /\ tmp[p].bytes = record[p]
          /\ tmp[p].flushed \in BOOLEAN
      BY <1>4 DEF Replace, WriterIsReady, TypeOK
    <2>2. file' \in Content /\ seen' \in [Callers -> SUBSET (Entry \cup {Nothing})]
      BY <1>1, <1>4, <2>1, BecomesType DEF Replace, Content
    <2> QED BY <1>4, <2>1, <2>2 DEF Replace, TypeOK
  <1>5. CASE WriteFails(p)
    BY <1>5 DEF WriteFails, TypeOK
  <1> QED BY <1>2, <1>3, <1>4, <1>5

LEMMA ReadType ==
  ASSUME TypeOK, NEW p \in Callers,
         \/ BeginRead(p) \/ Look(p) \/ Open(p) \/ ReadFails(p) \/ Judge(p)
         \/ SetAside(p) \/ Rename(p) \/ Miss(p)
  PROVE  TypeOK'
PROOF
  <1> USE DEF Go, writers, readers, Reading
  <1>1. TypeOK
    OBVIOUS
  <1>2. CASE BeginRead(p)
    BY <1>2 DEF BeginRead, TypeOK, entry
  <1>3. CASE Look(p)
    <2>1. CASE file = Nothing
      BY <1>1, <1>3, <2>1, AnswerType DEF Look, TypeOK
    <2>2. CASE file # Nothing
      <3>1. /\ pc' = [pc EXCEPT ![p] = "opening"]
            /\ UNCHANGED <<now, file, flushed, tmp, record, bytes, aside, harm, latest, seen,
                           answer>>
        BY <1>3, <2>2 DEF Look
      <3> QED BY <3>1 DEF TypeOK
    <2> QED BY <2>1, <2>2
  <1>4. CASE Open(p)
    BY <1>4 DEF Open, TypeOK, Content, External
  <1>5. CASE ReadFails(p)
    <2>1. harm' \in 0..MaxHarm
      <3>1. harm < MaxHarm /\ harm' = harm + 1
        BY <1>5 DEF ReadFails
      <3>2. harm \in 0..MaxHarm /\ MaxHarm \in Nat
        BY CacheFileAssumption DEF TypeOK
      <3> QED BY <3>1, <3>2
    <2>2. bytes' \in [Callers -> Content]
      BY <1>5 DEF ReadFails, TypeOK, Content, External
    <2>3. seen' \in [Callers -> SUBSET (Entry \cup {Nothing})]
      BY <1>5 DEF ReadFails, TypeOK
    <2> QED BY <1>5, <2>1, <2>2, <2>3 DEF ReadFails, TypeOK
  <1>6. CASE Judge(p)
    <2>1. CASE bytes[p] \in {Damaged, Torn}
      BY <1>6, <2>1 DEF Judge, TypeOK
    <2>2. CASE bytes[p] \notin {Damaged, Torn}
      <3>1. Verdict(bytes[p]) \in Values \cup {"miss", "raised"}
        BY DEF Verdict, Entry
      <3> QED BY <1>1, <1>6, <2>2, <3>1, AnswerType DEF Judge, TypeOK
    <2> QED BY <2>1, <2>2
  <1>7. CASE SetAside(p)
    <2>1. CASE file = Nothing
      BY <1>1, <1>7, <2>1, AnswerType DEF SetAside, TypeOK
    <2>2. CASE file # Nothing
      BY <1>7, <2>2 DEF SetAside, TypeOK
    <2> QED BY <2>1, <2>2
  <1>8. CASE Rename(p)
    <2>1. CASE file = Nothing
      BY <1>8, <2>1 DEF Rename, TypeOK
    <2>2. CASE file # Nothing
      <3>1. file' \in Content /\ seen' \in [Callers -> SUBSET (Entry \cup {Nothing})]
        BY <1>1, <1>8, <2>2, BecomesType DEF Rename, Content
      <3>2. aside' \in Seq(Content \ {Nothing})
        <4> DEFINE C == Content \ {Nothing}
        <4>1. file \in C /\ aside \in Seq(C) /\ aside' = Append(aside, file)
          BY <1>8, <2>2 DEF Rename, TypeOK
        <4> HIDE DEF C
        <4>2. aside' \in Seq(C)
          BY <4>1
        <4> QED BY <4>2 DEF C
      <3> QED BY <1>8, <3>1, <3>2 DEF Rename, TypeOK
    <2> QED BY <2>1, <2>2
  <1>9. CASE Miss(p)
    BY <1>1, <1>9, AnswerType DEF Miss, TypeOK
  <1> QED BY <1>2, <1>3, <1>4, <1>5, <1>6, <1>7, <1>8, <1>9

LEMMA StepType ==
  ASSUME IInv, Next
  PROVE  TypeOK'
PROOF
  <1>1. TypeOK /\ \A p \in Callers : WriterIsReady(p)
    BY DEF IInv, StoreStaysClean
  <1>2. ASSUME NEW p \in Callers, CallerStep(p) PROVE TypeOK'
    <2>1. CASE Die(p)
      BY <1>1, <2>1 DEF Die, TypeOK, writers, readers
    <2> QED BY <1>1, <1>2, <2>1, WriteType, ReadType DEF CallerStep
  <1>3. CASE Harm
    <2>1. PICK c \in External : Becomes(c)
      BY <1>3 DEF Harm
    <2>2. file' \in Content /\ seen' \in [Callers -> SUBSET (Entry \cup {Nothing})]
      BY <1>1, <2>1, BecomesType DEF Content
    <2>3. harm' \in 0..MaxHarm
      BY <1>1, <1>3, CacheFileAssumption DEF Harm, TypeOK
    <2> QED BY <1>1, <1>3, <2>2, <2>3 DEF Harm, TypeOK, writers, readers
  <1>4. CASE PowerLoss
    <2>1. pc' \in [Callers -> {"idle", "done", "died"} \cup Writing \cup Reading]
      BY <1>1, <1>4 DEF PowerLoss, TypeOK
    <2>2. tmp' \in [Callers -> Temporary \cup {Nothing}]
      BY <1>1, <1>4 DEF PowerLoss, TypeOK, Temporary
    <2> QED BY <1>1, <1>4, <2>1, <2>2 DEF PowerLoss, TypeOK, Content, readers
  <1>5. CASE Tick
    BY <1>1, <1>5, CacheFileAssumption DEF Tick, TypeOK, writers, readers
  <1> QED BY <1>2, <1>3, <1>4, <1>5 DEF Next

--------------------------------------------------------------------------------
(* Writers. *)

LEMMA WritersProceed ==
  ASSUME IInv, NEW p \in Callers, CallerStep(p)
  PROVE  WriterIsReady(p)'
PROOF
  <1> USE DEF Go, writers, readers, Writing
  <1>1. TypeOK /\ WriterIsReady(p)
    BY DEF IInv, StoreStaysClean
  <1>2. CASE BeginWrite(p)
    <2>1. PICK v \in Values, ttl \in Ttls :
             record' = [record EXCEPT ![p] = [value |-> v, expires |-> now + ttl]]
      BY <1>2 DEF BeginWrite
    <2> DEFINE r == [value |-> v, expires |-> now + ttl]
    <2>2. now + ttl \in 0..MaxTime + MaxTtl /\ now + ttl <= now + MaxTtl
      BY <1>1, CacheFileAssumption DEF TypeOK
    <2>3. r \in Entry /\ r.expires <= now + MaxTtl
      BY <2>2 DEF Entry
    <2>4. record'[p] = r
      BY <1>1, <2>1 DEF TypeOK
    <2> HIDE DEF r
    <2>5. /\ pc'[p] = "writing" /\ now' = now
          /\ tmp'[p] = [bytes |-> Torn, flushed |-> FALSE]
      BY <1>1, <1>2 DEF BeginWrite, TypeOK
    <2>6. tmp'[p] # Nothing
      <3>1. [bytes |-> Torn, flushed |-> FALSE] \in Temporary
        BY DEF Temporary
      <3> QED BY <2>5, <3>1, ContentsDiffer
    <2> QED BY <2>3, <2>4, <2>5, <2>6 DEF WriterIsReady
  <1>3. CASE Write(p) \/ Flush(p)
    <2>1. /\ tmp[p] \in Temporary /\ record[p] \in Entry
          /\ record[p].expires <= now + MaxTtl
          /\ UNCHANGED <<now, record>>
      BY <1>1, <1>3 DEF Write, Flush, WriterIsReady, TypeOK
    <2>2. /\ tmp'[p] \in Temporary /\ tmp'[p].bytes = record[p]
          /\ pc'[p] = "replacing" => tmp'[p].flushed
      <3>1. CASE Write(p)
        <4>1. tmp'[p] = [tmp[p] EXCEPT !.bytes = record[p]] /\ pc'[p] = "flushing"
          BY <1>1, <3>1 DEF Write, TypeOK
        <4> QED BY <2>1, <4>1 DEF Temporary
      <3>2. CASE Flush(p)
        <4>1. /\ tmp'[p] = [tmp[p] EXCEPT !.flushed = TRUE]
              /\ tmp[p].bytes = record[p]
          BY <1>1, <3>2 DEF Flush, WriterIsReady, TypeOK
        <4> QED BY <2>1, <4>1 DEF Temporary
      <3> QED BY <1>3, <3>1, <3>2
    <2>3. tmp'[p] # Nothing
      BY <2>2, ContentsDiffer
    <2> QED BY <2>1, <2>2, <2>3 DEF WriterIsReady
  <1>4. CASE ~ (BeginWrite(p) \/ Write(p) \/ Flush(p))
    <2>1. pc'[p] \notin Writing
      BY <1>1, <1>4 DEF CallerStep, Replace, WriteFails, BeginRead, Look, Open, ReadFails,
         Judge, SetAside, Rename, Miss, Die, TypeOK
    <2> QED BY <2>1 DEF WriterIsReady
  <1> QED BY <1>2, <1>3, <1>4

--------------------------------------------------------------------------------
(* Readers. *)

\* What the file becomes is seen by those who are reading.
LEMMA SeenGrows ==
  ASSUME TypeOK, NEW p \in Callers, CallerStep(p), NEW q \in Callers \ {p}, seen[q] # {}
  PROVE  /\ seen[q] \subseteq seen'[q]
         /\ entry' = entry \/ entry' \in seen'[q]
PROOF
  <1> USE DEF TypeOK, Go, Answer
  <1>1. CASE BeginWrite(p) \/ Write(p) \/ Flush(p) \/ WriteFails(p)
    BY <1>1 DEF BeginWrite, Write, Flush, WriteFails, entry
  <1>2. CASE Replace(p)
    BY <1>2 DEF Replace, Becomes, entry
  <1>3. CASE Rename(p)
    <2>1. CASE file = Nothing
      BY <1>3, <2>1 DEF Rename, entry
    <2>2. CASE file # Nothing
      BY <1>3, <2>2 DEF Rename, Becomes, entry
    <2> QED BY <2>1, <2>2
  <1>4. CASE BeginRead(p) \/ Open(p) \/ ReadFails(p)
    BY <1>4 DEF BeginRead, Open, ReadFails, entry
  <1>5. CASE Look(p) \/ SetAside(p) \/ Judge(p)
    BY <1>5 DEF Look, SetAside, Judge, entry
  <1>6. CASE Miss(p) \/ Die(p)
    BY <1>6 DEF Miss, Die, entry
  <1> QED BY <1>1, <1>2, <1>3, <1>4, <1>5, <1>6 DEF CallerStep

LEMMA ReadersProceed ==
  ASSUME IInv, NEW p \in Callers, CallerStep(p)
  PROVE  ReaderHasSeen(p)'
PROOF
  <1> USE DEF Go, writers, readers, Reading
  <1>1. TypeOK /\ ReaderHasSeen(p)
    BY DEF IInv, StoreStaysClean
  <1>2. CASE BeginRead(p)
    <2>1. pc'[p] = "looking" /\ seen'[p] = {entry} /\ entry' = entry
      BY <1>1, <1>2 DEF BeginRead, TypeOK, entry
    <2> QED BY <2>1 DEF ReaderHasSeen
  <1>3. CASE Look(p) \/ SetAside(p)
    <2>1. /\ pc'[p] \in {"opening", "renaming", "done"} /\ entry' = entry
          /\ pc'[p] # "done" => seen'[p] = seen[p]
          /\ pc'[p] = "renaming" => pc[p] = "setting aside"
      BY <1>1, <1>3 DEF Look, SetAside, TypeOK, entry
    <2>2. pc[p] \in {"looking", "setting aside"}
      BY <1>3 DEF Look, SetAside
    <2> QED BY <1>1, <2>1, <2>2 DEF ReaderHasSeen
  <1>4. CASE Open(p)
    <2>1. /\ pc[p] = "opening" /\ pc'[p] = "judging"
          /\ bytes'[p] = IF file = Nothing THEN Damaged ELSE file
          /\ seen'[p] = seen[p] /\ entry' = entry
      BY <1>1, <1>4 DEF Open, TypeOK, entry
    <2>2. (IF bytes'[p] \in Entry THEN bytes'[p] ELSE Nothing) = entry
      BY <2>1, ContentsDiffer DEF entry, External
    <2> QED BY <1>1, <2>1, <2>2 DEF ReaderHasSeen
  <1>5. CASE ReadFails(p)
    <2>1. /\ pc[p] = "opening" /\ pc'[p] = "judging" /\ bytes'[p] = Damaged
          /\ seen'[p] = seen[p] \cup {Nothing} /\ entry' = entry
      BY <1>1, <1>5 DEF ReadFails, TypeOK, entry
    <2>2. Damaged \notin Entry
      BY ContentsDiffer DEF External
    <2> QED BY <1>1, <2>1, <2>2 DEF ReaderHasSeen
  <1>6. CASE Judge(p)
    <2>1. CASE bytes[p] \in {Damaged, Torn}
      <3>1. /\ pc[p] = "judging" /\ pc'[p] = "setting aside"
            /\ seen'[p] = seen[p] /\ entry' = entry
        BY <1>1, <1>6, <2>1 DEF Judge, TypeOK, entry
      <3>2. bytes[p] \notin Entry
        BY <2>1, ContentsDiffer DEF External
      <3> QED BY <1>1, <3>1, <3>2 DEF ReaderHasSeen
    <2>2. CASE bytes[p] \notin {Damaged, Torn}
      <3>1. pc'[p] = "done"
        BY <1>1, <1>6, <2>2 DEF Judge, TypeOK
      <3> QED BY <3>1 DEF ReaderHasSeen
    <2> QED BY <2>1, <2>2
  <1>7. CASE Rename(p)
    <2>1. /\ pc[p] = "renaming" /\ pc'[p] = "answering"
          /\ seen[p] \subseteq seen'[p] /\ entry' \in {entry, Nothing}
      <3>1. CASE file = Nothing
        BY <1>1, <1>7, <3>1 DEF Rename, TypeOK, entry
      <3>2. CASE file # Nothing
        <4>1. /\ pc' = [pc EXCEPT ![p] = "answering"] /\ pc[p] = "renaming" /\ file' = Nothing
              /\ seen' = [q \in Callers |->
                            IF seen[q] = {} THEN {}
                            ELSE seen[q] \cup {IF Nothing \in Entry THEN Nothing ELSE Nothing}]
          BY <1>7, <3>2 DEF Rename, Becomes
        <4>2. seen[p] \subseteq seen'[p] /\ pc'[p] = "answering"
          BY <1>1, <4>1 DEF TypeOK
        <4> QED BY <4>1, <4>2 DEF entry
      <3> QED BY <3>1, <3>2
    <2> QED BY <1>1, <2>1 DEF ReaderHasSeen
  <1>8. CASE BeginWrite(p) \/ Write(p) \/ Flush(p) \/ Replace(p) \/ WriteFails(p) \/ Miss(p)
             \/ Die(p)
    <2>1. pc'[p] \notin Reading
      BY <1>1, <1>8 DEF BeginWrite, Write, Flush, Replace, WriteFails, Miss, Die, TypeOK
    <2> QED BY <2>1 DEF ReaderHasSeen
  <1> QED BY <1>2, <1>3, <1>4, <1>5, <1>6, <1>7, <1>8 DEF CallerStep

--------------------------------------------------------------------------------
(* The file. *)

\* A caller puts a whole record in place, or sets aside what somebody harmed.
LEMMA FileStays ==
  ASSUME IInv, NEW p \in Callers, CallerStep(p)
  PROVE  /\ file' # Torn /\ flushed'
         /\ harm' = 0 => /\ harm = 0 /\ file' = latest' /\ aside' = <<>>
                         /\ file # Nothing => file' # Nothing
PROOF
  <1> USE DEF Go, writers, readers, Answer
  <1>1. /\ TypeOK /\ WriterIsReady(p) /\ OnlyDoubtsHarm(p) /\ flushed /\ file # Torn
        /\ harm = 0 => file = latest /\ aside = <<>>
    BY DEF IInv, StoreStaysClean
  <1>2. CASE Replace(p)
    <2>1. /\ record[p] \in Entry /\ file' = record[p] /\ latest' = record[p]
          /\ UNCHANGED <<harm, aside>> /\ flushed'
      BY <1>1, <1>2 DEF Replace, Becomes, WriterIsReady, Writing
    <2> QED BY <1>1, <2>1, ContentsDiffer
  <1>3. CASE Rename(p)
    <2>1. harm # 0 /\ UNCHANGED <<harm, flushed>> /\ file' \in {file, Nothing}
      <3>1. harm # 0
        BY <1>1, <1>3 DEF Rename, OnlyDoubtsHarm
      <3> QED BY <1>3, <3>1 DEF Rename, Becomes
    <2> QED BY <1>1, <2>1, ContentsDiffer
  <1>4. CASE ReadFails(p)
    <2>1. UNCHANGED <<file, flushed>> /\ harm' = harm + 1 /\ harm \in Nat
      BY <1>1, <1>4 DEF ReadFails, TypeOK
    <2> QED BY <1>1, <2>1
  <1>5. CASE ~ (Replace(p) \/ Rename(p) \/ ReadFails(p))
    <2>1. UNCHANGED <<file, flushed, latest, harm, aside>>
      BY <1>5 DEF CallerStep, BeginWrite, Write, Flush, WriteFails, BeginRead, Look, Open,
         Judge, SetAside, Miss, Die
    <2> QED BY <1>1, <2>1
  <1> QED BY <1>2, <1>3, <1>4, <1>5

LEMMA DoubtsProceed ==
  ASSUME IInv, NEW p \in Callers, CallerStep(p)
  PROVE  OnlyDoubtsHarm(p)'
PROOF
  <1> USE DEF Go
  <1>1. /\ TypeOK /\ OnlyDoubtsHarm(p) /\ file # Torn
        /\ harm = 0 => file = latest
    BY DEF IInv, StoreStaysClean
  <1>2. SUFFICES ASSUME harm' = 0, harm = 0
        PROVE  /\ pc'[p] = "opening" => file' # Nothing
               /\ pc'[p] = "judging" => bytes'[p] \in Entry
               /\ pc'[p] \notin {"setting aside", "renaming", "answering"}
    BY FileStays DEF OnlyDoubtsHarm
  <1>3. /\ pc[p] = "opening" => file # Nothing
        /\ pc[p] = "judging" => bytes[p] \in Entry
        /\ pc[p] \notin {"setting aside", "renaming", "answering"}
    BY <1>1, <1>2 DEF OnlyDoubtsHarm
  <1>4. file \in Entry \cup {Nothing}
    BY <1>1, <1>2 DEF TypeOK
  <1>5. CASE Look(p)
    <2>1. CASE file = Nothing
      BY <1>1, <1>5, <2>1 DEF Look, TypeOK
    <2>2. CASE file # Nothing
      BY <1>1, <1>5, <2>2 DEF Look, TypeOK
    <2> QED BY <2>1, <2>2
  <1>6. CASE Open(p)
    <2>1. pc'[p] = "judging" /\ bytes'[p] = file /\ file # Nothing
      BY <1>1, <1>3, <1>6 DEF Open, TypeOK
    <2> QED BY <1>4, <2>1
  <1>7. CASE Judge(p)
    <2>1. bytes[p] \notin {Damaged, Torn}
      BY <1>3, <1>7, ContentsDiffer DEF Judge, External
    <2>2. pc'[p] = "done"
      BY <1>1, <1>7, <2>1 DEF Judge, TypeOK
    <2> QED BY <2>2
  <1>8. CASE ReadFails(p)
    <2>1. harm' = harm + 1 /\ harm' = 0 /\ harm = 0
      BY <1>2, <1>8 DEF ReadFails
    <2>2. FALSE
      BY <2>1
    <2> QED BY <2>2
  <1>9. CASE SetAside(p) \/ Rename(p) \/ Miss(p)
    BY <1>3, <1>9 DEF SetAside, Rename, Miss
  <1>10. CASE ~ (Look(p) \/ Open(p) \/ Judge(p) \/ ReadFails(p)
                  \/ SetAside(p) \/ Rename(p) \/ Miss(p))
    <2>1. pc'[p] \in Writing \cup {"looking", "done", "died"}
      BY <1>1, <1>10 DEF CallerStep, BeginWrite, Write, Flush, Replace, WriteFails, BeginRead,
         Die, TypeOK, Writing
    <2> QED BY <2>1 DEF Writing
  <1> QED BY <1>5, <1>6, <1>7, <1>8, <1>9, <1>10

\* Only a writer at work, or one that died, has a temporary file.
LEMMA NothingIsLeftOver ==
  ASSUME IInv, NEW p \in Callers, CallerStep(p)
  PROVE  tmp'[p] # Nothing => pc'[p] \in Writing \cup {"died"}
PROOF
  <1> USE DEF Go, writers, Writing, Reading
  <1>1. TypeOK /\ (tmp[p] # Nothing => pc[p] \in Writing \cup {"died"})
    BY DEF IInv, StoreStaysClean
  <1>2. CASE BeginWrite(p) \/ Write(p) \/ Flush(p) \/ Die(p)
    <2>1. pc'[p] \in Writing \cup {"died"}
      BY <1>1, <1>2 DEF BeginWrite, Write, Flush, Die, TypeOK
    <2> QED BY <2>1
  <1>3. CASE Replace(p) \/ WriteFails(p)
    <2>1. tmp'[p] = Nothing
      BY <1>1, <1>3 DEF Replace, WriteFails, TypeOK
    <2> QED BY <2>1
  <1>4. CASE BeginRead(p) \/ Look(p) \/ Open(p) \/ ReadFails(p) \/ Judge(p)
             \/ SetAside(p) \/ Rename(p) \/ Miss(p)
    <2>1. pc[p] \in {"idle"} \cup Reading /\ tmp' = tmp
      BY <1>4 DEF BeginRead, Look, Open, ReadFails, Judge, SetAside, Rename, Miss
    <2> QED BY <1>1, <2>1
  <1> QED BY <1>2, <1>3, <1>4 DEF CallerStep

--------------------------------------------------------------------------------
(* The invariant. *)

LEMMA CallerKeepsIInv ==
  ASSUME IInv, NEW p \in Callers, CallerStep(p), TypeOK'
  PROVE  IInv'
PROOF
  <1>1. TypeOK /\ \A q \in Callers : WriterIsReady(q) /\ ReaderHasSeen(q) /\ OnlyDoubtsHarm(q)
    BY DEF IInv, StoreStaysClean
  <1>2. /\ \A q \in Callers \ {p} :
              /\ pc'[q] = pc[q] /\ tmp'[q] = tmp[q] /\ record'[q] = record[q]
              /\ bytes'[q] = bytes[q]
        /\ now' = now
    BY <1>1, OthersWait
  <1>3. ASSUME NEW q \in Callers \ {p}
        PROVE  WriterIsReady(q)' /\ ReaderHasSeen(q)' /\ OnlyDoubtsHarm(q)'
    <2>1. WriterIsReady(q)'
      BY <1>1, <1>2 DEF WriterIsReady
    <2>2. ReaderHasSeen(q)'
      <3>1. CASE pc[q] \in Reading
        <4>1. entry \in seen[q]
          BY <1>1, <3>1 DEF ReaderHasSeen
        <4>2. seen[q] \subseteq seen'[q] /\ (entry' = entry \/ entry' \in seen'[q])
          BY <1>1, <4>1, SeenGrows
        <4> QED BY <1>1, <1>2, <4>1, <4>2 DEF ReaderHasSeen
      <3>2. CASE pc[q] \notin Reading
        BY <1>2, <3>2 DEF ReaderHasSeen, Reading
      <3> QED BY <3>1, <3>2
    <2>3. OnlyDoubtsHarm(q)'
      BY <1>1, <1>2, FileStays DEF OnlyDoubtsHarm
    <2> QED BY <2>1, <2>2, <2>3
  <1>4. WriterIsReady(p)' /\ ReaderHasSeen(p)' /\ OnlyDoubtsHarm(p)'
    BY WritersProceed, ReadersProceed, DoubtsProceed
  <1>5. \A q \in Callers : tmp'[q] # Nothing => pc'[q] \in Writing \cup {"died"}
    BY <1>2, NothingIsLeftOver DEF IInv, StoreStaysClean
  <1>6. file' # Torn /\ flushed' /\ (harm' = 0 => file' = latest' /\ aside' = <<>>)
    BY FileStays
  <1> QED BY <1>3, <1>4, <1>5, <1>6 DEF IInv, StoreStaysClean

LEMMA NextIInv == IInv /\ [Next]_vars => IInv'
PROOF
  <1> SUFFICES ASSUME IInv, [Next]_vars PROVE IInv'
    OBVIOUS
  <1>1. /\ TypeOK /\ file # Torn /\ flushed
        /\ harm = 0 => file = latest /\ aside = <<>>
        /\ \A q \in Callers : tmp[q] # Nothing => pc[q] \in Writing \cup {"died"}
        /\ \A q \in Callers : WriterIsReady(q) /\ ReaderHasSeen(q) /\ OnlyDoubtsHarm(q)
    BY DEF IInv, StoreStaysClean
  <1>2. ASSUME NEW p \in Callers, CallerStep(p) PROVE IInv'
    <2>1. TypeOK'
      BY <1>2, StepType DEF Next
    <2> QED BY <1>2, <2>1, CallerKeepsIInv
  <1>3. CASE Harm
    <2>1. PICK c \in External : Becomes(c)
      BY <1>3 DEF Harm
    <2>2. /\ UNCHANGED <<now, pc, flushed, tmp, record, bytes, answer, aside, latest>>
          /\ harm' = harm + 1 /\ harm \in Nat
      BY <1>1, <1>3 DEF Harm, writers, readers, TypeOK
    <2>3. harm' # 0 /\ file' = c /\ file' # Torn /\ entry' = Nothing
      BY <2>1, <2>2, ContentsDiffer DEF Becomes, entry
    <2>4. ASSUME NEW q \in Callers, entry \in seen[q]
          PROVE  seen[q] \subseteq seen'[q] /\ entry' \in seen'[q]
      <3>1. c \notin Entry
        BY ContentsDiffer
      <3> QED BY <2>1, <2>3, <2>4, <3>1 DEF Becomes
    <2>5. \A q \in Callers : WriterIsReady(q)' /\ ReaderHasSeen(q)' /\ OnlyDoubtsHarm(q)'
      BY <1>1, <2>2, <2>3, <2>4 DEF WriterIsReady, ReaderHasSeen, OnlyDoubtsHarm, Reading
    <2>6. TypeOK'
      BY <1>3, StepType DEF Next
    <2> QED BY <1>1, <2>2, <2>3, <2>5, <2>6 DEF IInv, StoreStaysClean
  <1>4. CASE PowerLoss
    <2>1. UNCHANGED <<now, file, flushed, record, bytes, answer, aside, harm, latest>>
      BY <1>1, <1>4 DEF PowerLoss, readers
    <2>2. \A q \in Callers : /\ pc'[q] \notin Writing \cup Reading
                             /\ pc[q] \in Writing \cup {"died"} => pc'[q] = "died"
                             /\ tmp'[q] # Nothing => tmp[q] # Nothing
      BY <1>1, <1>4 DEF PowerLoss, TypeOK, Writing, Reading
    <2>3. \A q \in Callers : WriterIsReady(q)' /\ ReaderHasSeen(q)' /\ OnlyDoubtsHarm(q)'
      BY <2>2 DEF WriterIsReady, ReaderHasSeen, OnlyDoubtsHarm, Writing, Reading
    <2>4. TypeOK'
      BY <1>4, StepType DEF Next
    <2> QED BY <1>1, <2>1, <2>2, <2>3, <2>4 DEF IInv, StoreStaysClean
  <1>5. CASE Tick
    <2>1. /\ UNCHANGED <<pc, file, flushed, tmp, record, bytes, aside, harm, latest, seen>>
          /\ now' = now + 1 /\ now \in Nat
      BY <1>1, <1>5 DEF Tick, writers, readers, TypeOK
    <2>2. ASSUME NEW q \in Callers, record[q] \in Entry, record[q].expires <= now + MaxTtl
          PROVE  record[q].expires <= now' + MaxTtl
      BY <2>1, <2>2, CacheFileAssumption DEF Entry
    <2>3. \A q \in Callers : WriterIsReady(q)' /\ ReaderHasSeen(q)' /\ OnlyDoubtsHarm(q)'
      BY <1>1, <2>1, <2>2 DEF WriterIsReady, ReaderHasSeen, OnlyDoubtsHarm, entry
    <2>4. TypeOK'
      BY <1>5, StepType DEF Next
    <2> QED BY <1>1, <2>1, <2>3, <2>4 DEF IInv, StoreStaysClean
  <1>6. CASE UNCHANGED vars
    <2>1. UNCHANGED <<now, pc, file, flushed, tmp, record, bytes, aside, harm, latest, seen,
                      answer>>
      BY <1>6 DEF vars
    <2>2. TypeOK'
      BY <1>1, <2>1 DEF TypeOK
    <2>3. \A q \in Callers : WriterIsReady(q)' /\ ReaderHasSeen(q)' /\ OnlyDoubtsHarm(q)'
      BY <1>1, <2>1 DEF WriterIsReady, ReaderHasSeen, OnlyDoubtsHarm, entry
    <2> QED BY <1>1, <2>1, <2>2, <2>3 DEF IInv, StoreStaysClean
  <1> QED BY <1>2, <1>3, <1>4, <1>5, <1>6 DEF Next

LEMMA IInvHolds == Spec => []IInv
PROOF
  BY InitIInv, NextIInv, PTL DEF Spec

\* For any number of callers, and whatever others do to the file: without harm
\* from outside the record stored last is there, whole, and nothing is set aside.
THEOREM CleanTheorem == Spec => []StoreStaysClean
PROOF
  <1>1. IInv => StoreStaysClean
    BY DEF IInv
  <1> QED BY <1>1, IInvHolds, PTL

--------------------------------------------------------------------------------
(* The register. *)

LEMMA InitSimulation == Init => Register!Init
PROOF
  BY DEF Init, Register!Init, entry

\* What a reader answers is an answer of the register.
LEMMA AnswerSimulation ==
  ASSUME TypeOK, NEW p \in Callers, NEW a \in Values \cup {"miss", "raised"},
         Answer(p, a), UNCHANGED <<now, file>>,
         IF a \in Values THEN \E e \in seen[p] : ~ Register!Stale(e) /\ e.value = a
         ELSE IF a = "miss" THEN \E e \in seen[p] : Register!Stale(e)
         ELSE Nothing \in seen[p]
  PROVE  Register!Answer(p)
PROOF
  <1>1. entry' = entry /\ now' = now
    BY DEF entry
  <1>2. seen[p] # {}
    OBVIOUS
  <1>3. CASE a \in Values
    <2>1. a # "miss" /\ a # "raised"
      BY <1>3, ContentsDiffer
    <2> QED BY <1>1, <1>2, <1>3, <2>1 DEF Register!Answer, Register!Reading, Answer
  <1>4. CASE a = "miss"
    <2>1. a \notin Values
      BY <1>4, ContentsDiffer
    <2> QED BY <1>1, <1>2, <1>4, <2>1 DEF Register!Answer, Register!Reading, Answer
  <1>5. CASE a = "raised"
    <2>1. a \notin Values /\ a # "miss"
      BY <1>5, ContentsDiffer
    <2> QED BY <1>1, <1>2, <1>5, <2>1 DEF Register!Answer, Register!Reading, Answer
  <1> QED BY <1>3, <1>4, <1>5

\* A file that becomes something else is a register that does.
LEMMA BecomesSimulation ==
  ASSUME NEW c, Becomes(c)
  PROVE  Register!Becomes(IF c \in Entry THEN c ELSE Nothing) /\ file' = c
PROOF
  BY DEF Becomes, Register!Becomes, Register!Reading, entry

\* No file and no record are stale, and so is a record that expired.
LEMMA MissSimulation ==
  ASSUME TypeOK, NEW p \in Callers, Nothing \in seen[p], Answer(p, "miss"),
         UNCHANGED <<now, file>>
  PROVE  Register!Answer(p)
PROOF
  <1>1. "miss" \notin Values
    BY ContentsDiffer
  <1>2. Register!Stale(Nothing)
    BY DEF Register!Stale
  <1> QED BY <1>1, <1>2, AnswerSimulation

\* Each step of a caller is a step of the register or none.
LEMMA CallerSimulation ==
  ASSUME IInv, NEW p \in Callers, CallerStep(p)
  PROVE  Register!Next \/ UNCHANGED Register!vars
PROOF
  <1> USE DEF Go, writers, readers
  <1>1. TypeOK /\ WriterIsReady(p) /\ ReaderHasSeen(p)
    BY DEF IInv, StoreStaysClean
  <1>2. CASE BeginWrite(p) \/ Write(p) \/ Flush(p) \/ WriteFails(p) \/ Open(p)
    BY <1>2 DEF BeginWrite, Write, Flush, WriteFails, Open, Register!vars, entry
  <1>3. CASE Replace(p)
    <2>1. /\ record[p] \in Entry /\ record[p].expires <= now + MaxTtl
          /\ Becomes(record[p]) /\ UNCHANGED <<now, answer>>
      BY <1>1, <1>3 DEF Replace, WriterIsReady, Writing
    <2>2. Register!Becomes(record[p])
      BY <2>1, BecomesSimulation
    <2>3. Register!Store
      BY <2>1, <2>2 DEF Register!Store, Register!Entry, Entry
    <2> QED BY <2>3 DEF Register!Next
  <1>4. CASE BeginRead(p)
    <2>1. Register!Begin(p)
      BY <1>4 DEF BeginRead, Register!Begin, entry
    <2> QED BY <2>1 DEF Register!Next
  <1>5. CASE Look(p) \/ SetAside(p)
    <2>1. CASE file = Nothing
      <3>1. entry = Nothing /\ pc[p] \in Reading
        BY <1>5, <2>1 DEF entry, Look, SetAside, Reading
      <3>2. Nothing \in seen[p]
        BY <1>1, <3>1 DEF ReaderHasSeen
      <3>3. Answer(p, "miss") /\ UNCHANGED <<now, file>>
        BY <1>5, <2>1 DEF Look, SetAside
      <3>4. Register!Answer(p)
        BY <1>1, <3>2, <3>3, MissSimulation
      <3> QED BY <3>4 DEF Register!Next
    <2>2. CASE file # Nothing
      BY <1>5, <2>2 DEF Look, SetAside, Register!vars, entry
    <2> QED BY <2>1, <2>2
  <1>6. CASE ReadFails(p)
    <2>1. Register!Fail(p)
      BY <1>6 DEF ReadFails, Register!Fail, entry
    <2> QED BY <2>1 DEF Register!Next
  <1>7. CASE Judge(p)
    <2>1. CASE bytes[p] \in {Damaged, Torn}
      BY <1>7, <2>1 DEF Judge, Register!vars, entry
    <2>2. CASE bytes[p] \notin {Damaged, Torn}
      <3> DEFINE b == bytes[p]
      <3>1. /\ Answer(p, Verdict(b)) /\ UNCHANGED <<now, file>>
            /\ (IF b \in Entry THEN b ELSE Nothing) \in seen[p]
        BY <1>1, <1>7, <2>2 DEF Judge, ReaderHasSeen
      <3>2. Unversioned \notin Entry
        BY ContentsDiffer DEF External
      <3> HIDE DEF b
      <3>3. CASE b \in Entry /\ b.expires >= now
        <4>1. Verdict(b) = b.value /\ b.value \in Values
          BY <3>2, <3>3 DEF Verdict, Entry
        <4>2. ~ Register!Stale(b) /\ b \in seen[p]
          BY <1>1, <3>1, <3>3, ContentsDiffer, CacheFileAssumption
          DEF Register!Stale, Entry, TypeOK
        <4>3. Register!Answer(p)
          BY <1>1, <3>1, <4>1, <4>2, AnswerSimulation
        <4> QED BY <4>3 DEF Register!Next
      <3>4. CASE b \in Entry /\ ~ (b.expires >= now)
        <4>1. Verdict(b) = "miss"
          BY <3>2, <3>4 DEF Verdict
        <4>2. Register!Stale(b) /\ b \in seen[p]
          <5>1. b.expires \in Nat /\ now \in Nat
            BY <1>1, <3>4, CacheFileAssumption DEF Entry, TypeOK
          <5> QED BY <3>1, <3>4, <5>1 DEF Register!Stale
        <4>3. "miss" \notin Values
          BY ContentsDiffer
        <4>4. Register!Answer(p)
          BY <1>1, <3>1, <4>1, <4>2, <4>3, AnswerSimulation
        <4> QED BY <4>4 DEF Register!Next
      <3>5. CASE b = Unversioned
        <4>1. Verdict(b) = "raised" /\ "raised" \notin Values /\ Nothing \in seen[p]
          BY <3>1, <3>2, <3>5, ContentsDiffer DEF Verdict
        <4>2. Register!Answer(p)
          BY <1>1, <3>1, <4>1, AnswerSimulation
        <4> QED BY <4>2 DEF Register!Next
      <3>6. CASE b \notin Entry /\ b # Unversioned
        <4>1. Verdict(b) = "miss" /\ Nothing \in seen[p]
          BY <3>1, <3>6 DEF Verdict
        <4>2. Register!Answer(p)
          BY <1>1, <3>1, <4>1, MissSimulation
        <4> QED BY <4>2 DEF Register!Next
      <3> QED BY <3>3, <3>4, <3>5, <3>6
    <2> QED BY <2>1, <2>2
  <1>8. CASE Rename(p)
    <2>1. CASE file = Nothing
      BY <1>8, <2>1 DEF Rename, Register!vars, entry
    <2>2. CASE file # Nothing
      <3>1. Becomes(Nothing) /\ UNCHANGED <<now, answer>>
        BY <1>8, <2>2 DEF Rename
      <3>2. Register!Becomes(Nothing)
        BY <3>1, BecomesSimulation
      <3>3. Register!Lose
        BY <3>1, <3>2 DEF Register!Lose
      <3> QED BY <3>3 DEF Register!Next
    <2> QED BY <2>1, <2>2
  <1>9. CASE Miss(p)
    <2>1. Nothing \in seen[p] /\ Answer(p, "miss") /\ UNCHANGED <<now, file>>
      BY <1>1, <1>9 DEF Miss, ReaderHasSeen
    <2>2. Register!Answer(p)
      BY <1>1, <2>1, MissSimulation
    <2> QED BY <2>2 DEF Register!Next
  <1>10. CASE Die(p)
    <2>1. /\ seen' = [q \in Callers |-> IF q \in {p} THEN {} ELSE seen[q]]
          /\ UNCHANGED <<now, entry, answer>>
      BY <1>1, <1>10 DEF Die, TypeOK, entry
    <2>2. Register!Leave
      BY <2>1, {p} \in SUBSET Callers DEF Register!Leave
    <2> QED BY <2>2 DEF Register!Next
  <1> QED BY <1>2, <1>3, <1>4, <1>5, <1>6, <1>7, <1>8, <1>9, <1>10 DEF CallerStep

LEMMA StepSimulation == IInv /\ [Next]_vars => [Register!Next]_Register!vars
PROOF
  <1> SUFFICES ASSUME IInv, [Next]_vars PROVE Register!Next \/ UNCHANGED Register!vars
    BY Zenon
  <1>1. TypeOK /\ flushed
    BY DEF IInv, StoreStaysClean
  <1>2. ASSUME NEW p \in Callers, CallerStep(p)
        PROVE  Register!Next \/ UNCHANGED Register!vars
    BY <1>2, CallerSimulation
  <1>3. CASE Harm
    <2>1. PICK c \in External : Becomes(c)
      BY <1>3 DEF Harm
    <2>2. c \notin Entry
      BY ContentsDiffer
    <2>3. Register!Becomes(Nothing)
      BY <2>1, <2>2, BecomesSimulation
    <2>4. Register!Lose
      BY <1>3, <2>3 DEF Harm, readers, Register!Lose
    <2> QED BY <2>4 DEF Register!Next
  <1>4. CASE PowerLoss
    <2>1. /\ seen' = [q \in Callers |-> IF q \in Callers THEN {} ELSE seen[q]]
          /\ UNCHANGED <<now, entry, answer>>
      BY <1>1, <1>4 DEF PowerLoss, readers, entry
    <2>2. Register!Leave
      BY <2>1, Callers \in SUBSET Callers DEF Register!Leave
    <2> QED BY <2>2 DEF Register!Next
  <1>5. CASE Tick
    <2>1. Register!Tick
      BY <1>5 DEF Tick, readers, Register!Tick, entry
    <2> QED BY <2>1 DEF Register!Next
  <1>6. CASE UNCHANGED vars
    BY <1>6 DEF vars, Register!vars, entry
  <1> QED BY <1>2, <1>3, <1>4, <1>5, <1>6 DEF Next

\* A cache key is a register with an expiry, read and written at once without a
\* lock, whatever is done to the file and whoever dies.
THEOREM RegisterTheorem == Spec => ImplementsRegister
PROOF
  BY InitSimulation, StepSimulation, IInvHolds, PTL DEF Spec, ImplementsRegister, Register!Spec
================================================================================
