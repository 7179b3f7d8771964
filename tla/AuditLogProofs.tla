---------------------------- MODULE AuditLogProofs ----------------------------
(***************************************************************************)
(* Proofs about the audit log, for any number of goroutines, records and   *)
(* openings: acknowledged records stay verifiable, and the file implements *)
(* AuditChain, when a failed write leaves nothing and a crash leaves no    *)
(* whole record without its newline.                                       *)
(***************************************************************************)
EXTENDS AuditLog, SequenceTheorems, TLAPS

USE AuditConfig DEF Loggers, Hashes, NoHash, NoThread

CleanFaults == WriteFaults \subseteq {"nothing"} /\ "unterminated" \notin CrashFaults

(***************************************************************************)
(* The inductive invariant.                                                *)
(***************************************************************************)
\* The lines that hold one record each: all but a torn last one.
Sound == IF ended THEN Len(lines) ELSE Len(lines) - 1
Ids == {lines[i][1].id : i \in 1..Sound}

FileInv ==
  /\ lines \in Seq(Seq(Record)) /\ ended \in BOOLEAN
  /\ ~ ended => lines # <<>> /\ ~ Decodes(lines[Len(lines)])
  /\ Verified(Sound)

\* One Logger is open at a time, and it knows where the file ends.
LoggerInv ==
  /\ \A l \in Loggers : closer[l] => l = opens
  /\ Running => ended /\ lastHash[opens] = RecoveredHash
  /\ \A t \in Threads : pc[t] = "writing" => mu[using[t]] = t /\ using[t] <= opens

\* What a goroutine is about to write continues the file and is not in it.
WriterInv ==
  \A t \in Threads : pc[t] = "writing" /\ closer[using[t]] =>
    /\ writing[t].prev = lastHash[using[t]] /\ writing[t].complete
    /\ writing[t].id \in (1..issued) \ Ids

AuditInv == TypeOK /\ FileInv /\ LoggerInv /\ WriterInv /\ Ids \subseteq 1..issued /\ acked \subseteq Ids

(***************************************************************************)
(* The file                                                                *)
(***************************************************************************)
LEMMA SoundType ==
  ASSUME FileInv
  PROVE  /\ Len(lines) \in Nat /\ Sound \in 0..Len(lines)
         /\ \A i \in 1..Len(lines) : lines[i] \in Seq(Record)
         /\ \A i \in 1..Sound : Len(lines[i]) = 1 /\ lines[i][1] \in Record /\ lines[i][1].complete
<1>1. lines \in Seq(Seq(Record)) /\ ended \in BOOLEAN
  BY DEF FileInv
<1>2. Len(lines) \in Nat /\ (lines # <<>> => Len(lines) > 0)
  BY <1>1
<1>3. Sound \in 0..Len(lines)
  BY <1>2 DEF Sound, FileInv
<1>4. \A i \in 1..Len(lines) : lines[i] \in Seq(Record)
  BY <1>1
<1>5. \A i \in 1..Sound : Len(lines[i]) = 1 /\ lines[i][1].complete
  BY DEF FileInv, Verified, Decodes
<1>6. \A i \in 1..Sound : lines[i][1] \in Record
  BY <1>2, <1>3, <1>4, <1>5
<1>. QED
  BY <1>2, <1>3, <1>4, <1>5, <1>6

\* What Verify counts.
LEMMA CountIsSound ==
  ASSUME FileInv
  PROVE  VerifiedCount = Sound
<1>. DEFINE P(n) == Verified(n) /\ (n < Len(lines) => ~Verified(n + 1))
<1>1. Len(lines) \in Nat /\ Sound \in 0..Len(lines)
  BY SoundType
<1>2. P(Sound)
  <2>1. Sound < Len(lines) => Sound + 1 = Len(lines) /\ ~ ended
    BY <1>1 DEF Sound
  <2>2. Sound < Len(lines) => ~ Decodes(lines[Sound + 1]) /\ Sound + 1 \in 1..(Sound + 1)
    BY <1>1, <2>1 DEF FileInv
  <2>. QED
    BY <2>2 DEF FileInv, Verified
<1>3. ASSUME NEW n \in 0..Len(lines), P(n) PROVE n = Sound
  <2>1. CASE n < Sound
    <3>1. Verified(n + 1)
      BY <1>1, <2>1 DEF FileInv, Verified
    <3>. QED
      BY <1>1, <1>3, <2>1, <3>1
  <2>2. CASE n > Sound
    <3>1. n = Len(lines) /\ ~ ended /\ Len(lines) \in 1..n
      BY <1>1, <2>2 DEF Sound
    <3>2. Decodes(lines[Len(lines)])
      BY <1>3, <3>1 DEF Verified
    <3>. QED
      BY <3>1, <3>2 DEF FileInv
  <2>. QED
    BY <1>1, <2>1, <2>2
<1>4. VerifiedCount = CHOOSE n \in 0..Len(lines) : P(n)
  BY DEF VerifiedCount
<1>. HIDE DEF P
<1>. QED
  BY <1>1, <1>2, <1>3, <1>4

\* What Verify accepts, as a sequence of records.
LEMMA ChainIsIds ==
  FileInv =>
         /\ VerifiedChain = [i \in 1..Sound |-> lines[i][1].id]
         /\ VerifiedChain \in Seq(Hashes \union {0}) /\ Len(VerifiedChain) = Sound
         /\ Range(VerifiedChain) = Ids
<1>. SUFFICES ASSUME FileInv
     PROVE  /\ VerifiedChain = [i \in 1..Sound |-> lines[i][1].id]
            /\ VerifiedChain \in Seq(Hashes \union {0}) /\ Len(VerifiedChain) = Sound
            /\ Range(VerifiedChain) = Ids
  OBVIOUS
<1>1. VerifiedChain = [i \in 1..Sound |-> lines[i][1].id]
  BY CountIsSound DEF VerifiedChain
<1>2. Sound \in Nat /\ \A i \in 1..Sound : lines[i][1].id \in Hashes \union {0}
  BY SoundType DEF Record
<1>3. VerifiedChain \in Seq(Hashes \union {0}) /\ Len(VerifiedChain) = Sound
  BY <1>1, <1>2
<1>4. Range(VerifiedChain) = Ids
  BY <1>1 DEF Range, Ids
<1>. QED
  BY <1>1, <1>3, <1>4

LEMMA FileStays ==
  ASSUME UNCHANGED <<lines, ended>>
  PROVE  /\ FileInv' = FileInv /\ Ids' = Ids /\ Sound' = Sound
         /\ RecoveredHash' = RecoveredHash /\ VerifiedChain' = VerifiedChain
  BY DEF FileInv, Ids, Sound, Verified, Links, RecoveredHash, VerifiedChain, VerifiedCount

\* A record that continues the file becomes its last line.
LEMMA WholeRecord ==
  ASSUME AuditInv, ended, NEW r \in Record, r.complete, r.prev = RecoveredHash,
         Leave(r, "whole")
  PROVE  /\ ended' /\ lines' \in Seq(Seq(Record)) /\ FileInv' /\ Ids' = Ids \union {r.id}
         /\ RecoveredHash' = r.id /\ VerifiedChain' = Append(VerifiedChain, r.id)
<1>n. PICK n \in Nat : n = Len(lines)
  BY SoundType DEF AuditInv
<1>0. /\ lines \in Seq(Seq(Record)) /\ n \in Nat /\ Sound = n
      /\ \A i \in 1..n : Len(lines[i]) = 1 /\ lines[i][1] \in Record /\ lines[i][1].complete
  BY <1>n, SoundType DEF AuditInv, FileInv, Sound
<1>1. [r EXCEPT !.complete = "whole" # "torn"] = r
  BY DEF Record
<1>2. lines' = Append(lines, <<r>>) /\ ended' = TRUE
  BY <1>1 DEF Leave, Written
<1>3. <<r>> \in Seq(Record) /\ Len(<<r>>) = 1 /\ <<r>>[1] = r
  OBVIOUS
<1>4. /\ lines' \in Seq(Seq(Record)) /\ Len(lines') = n + 1 /\ Sound' = n + 1
      /\ \A i \in 1..n : lines'[i] = lines[i]
      /\ lines'[n + 1] = <<r>> /\ lines' # <<>>
  BY <1>0, <1>n, <1>2, <1>3, AppendProperties DEF Sound
<1>5. \A i \in 1..n : Decodes(lines[i]) /\ Links(i)
  BY <1>0 DEF AuditInv, FileInv, Verified
<1>6. \A i \in 1..n : Decodes(lines'[i]) /\ Links(i)'
  <2>1. \A i \in 1..n : i = 1 \/ i - 1 \in 1..n
    BY <1>0
  <2>2. \A i \in 1..n : lines'[i] = lines[i] /\ (i # 1 => lines'[i - 1] = lines[i - 1])
    BY <1>4, <2>1
  <2>. QED
    BY <1>5, <2>2 DEF Links
<1>7. Decodes(lines'[n + 1])
  BY <1>3, <1>4 DEF Decodes
<1>a. lines'[n + 1][1] = r
  BY <1>3, <1>4
<1>8. Links(n + 1)'
  <2>1. r.prev = IF n = 0 THEN 0 ELSE lines[n][1].id
    BY <1>n, <1>0 DEF RecoveredHash
  <2>2. n # 0 => lines'[n] = lines[n]
    BY <1>0, <1>4
  <2>3. (n + 1) - 1 = n /\ (n + 1 = 1 <=> n = 0)
    BY <1>0
  <2>4. lines'[n + 1][1].prev = IF n + 1 = 1 THEN NoHash ELSE lines'[(n + 1) - 1][1].id
    BY <1>a, <2>1, <2>2, <2>3
  <2>. QED
    BY <2>4 DEF Links
<1>9. FileInv'
  <2>0. \A i \in 1..(n + 1) : i \in 1..n \/ i = n + 1
    BY <1>0
  <2>1. \A i \in 1..(n + 1) : Decodes(lines'[i]) /\ Links(i)'
    <3>. SUFFICES ASSUME NEW i \in 1..(n + 1) PROVE Decodes(lines'[i]) /\ Links(i)'
      OBVIOUS
    <3>1. CASE i \in 1..n
      BY <1>6, <3>1
    <3>2. CASE i = n + 1
      BY <1>7, <1>8, <3>2
    <3>. QED
      BY <2>0, <3>1, <3>2
  <2>. QED
    BY <1>2, <1>4, <2>1 DEF FileInv, Verified
<1>10. Ids' = Ids \union {r.id}
  <2>1. Ids' = {lines'[i][1].id : i \in 1..(n + 1)}
    BY <1>4 DEF Ids
  <2>2. Ids = {lines[i][1].id : i \in 1..n}
    BY <1>0 DEF Ids
  <2>3. \A i \in 1..(n + 1) : i \in 1..n \/ i = n + 1
    BY <1>0
  <2>4. 1..n \subseteq 1..(n + 1) /\ n + 1 \in 1..(n + 1)
    BY <1>0
  <2>5. lines'[n + 1][1].id = r.id /\ \A i \in 1..n : lines'[i][1].id = lines[i][1].id
    BY <1>3, <1>4
  <2>. QED
    BY <2>1, <2>2, <2>3, <2>4, <2>5
<1>11. RecoveredHash' = r.id
  BY <1>0, <1>3, <1>4 DEF RecoveredHash
<1>12. VerifiedChain' = Append(VerifiedChain, r.id)
  <2>1. /\ VerifiedChain = [i \in 1..n |-> lines[i][1].id]
        /\ VerifiedChain \in Seq(Hashes \union {0}) /\ Len(VerifiedChain) = n
    BY <1>0, ChainIsIds DEF AuditInv
  <2>2. (FileInv => VerifiedChain \in Seq(Hashes \union {0}) /\ VerifiedChain = [i \in 1..Sound |-> lines[i][1].id])'
    BY ChainIsIds, PTL
  <2>3. /\ VerifiedChain' \in Seq(Hashes \union {0})
        /\ VerifiedChain' = [i \in 1..(n + 1) |-> lines'[i][1].id]
    BY <1>4, <1>9, <2>2
  <2>4. r.id \in Hashes \union {0}
    BY DEF Record
  <2>5. /\ Len(VerifiedChain') = n + 1
        /\ \A i \in 1..n : VerifiedChain'[i] = VerifiedChain[i]
        /\ VerifiedChain'[n + 1] = r.id
    <3>1. Len(VerifiedChain') = n + 1
      BY <1>0, <2>3
    <3>2. \A i \in 1..n : VerifiedChain'[i] = VerifiedChain[i]
      BY <1>0, <1>4, <2>1, <2>3
    <3>3. n + 1 \in 1..(n + 1)
      BY <1>0
    <3>4. VerifiedChain'[n + 1] = lines'[n + 1][1].id
      BY <2>3, <3>3
    <3>. QED
      BY <1>a, <3>1, <3>2, <3>4
  <2>6. /\ Append(VerifiedChain, r.id) \in Seq(Hashes \union {0})
        /\ Len(Append(VerifiedChain, r.id)) = n + 1
        /\ \A i \in 1..n : Append(VerifiedChain, r.id)[i] = VerifiedChain[i]
        /\ Append(VerifiedChain, r.id)[n + 1] = r.id
    BY <2>1, <2>4, AppendProperties
  <2>7. \A i \in 1..(n + 1) : VerifiedChain'[i] = Append(VerifiedChain, r.id)[i]
    BY <1>0, <2>5, <2>6
  <2>. QED
    BY <2>3, <2>5, <2>6, <2>7, SeqEqual
<1>. QED
  BY <1>2, <1>4, <1>9, <1>10, <1>11, <1>12

\* A record torn by a crash is the last line, which Verify does not accept.
LEMMA TornRecord ==
  ASSUME AuditInv, ended, NEW r \in Record, Leave(r, "torn")
  PROVE  /\ lines' \in Seq(Seq(Record)) /\ ended' \in BOOLEAN /\ FileInv' /\ Ids' = Ids
         /\ VerifiedChain' = VerifiedChain
<1>n. PICK n \in Nat : n = Len(lines)
  BY SoundType DEF AuditInv
<1>0. lines \in Seq(Seq(Record)) /\ Sound = n
  BY <1>n DEF AuditInv, FileInv, Sound
<1>1. PICK torn \in Record :
        ~ torn.complete /\ lines' = Append(lines, <<torn>>) /\ ended' = FALSE
  <2>1. [r EXCEPT !.complete = FALSE] \in Record /\ ~ [r EXCEPT !.complete = FALSE].complete
    BY DEF Record
  <2>2. [r EXCEPT !.complete = "torn" # "torn"] = [r EXCEPT !.complete = FALSE]
    OBVIOUS
  <2>. QED
    BY <2>1, <2>2 DEF Leave, Written
<1>2. <<torn>> \in Seq(Record) /\ <<torn>>[1] = torn
  OBVIOUS
<1>3. /\ lines' \in Seq(Seq(Record)) /\ Len(lines') = n + 1 /\ Sound' = n
      /\ \A i \in 1..n : lines'[i] = lines[i]
      /\ lines'[n + 1] = <<torn>> /\ lines' # <<>>
  <2>1. /\ lines' \in Seq(Seq(Record)) /\ Len(lines') = n + 1
        /\ \A i \in 1..n : lines'[i] = lines[i]
        /\ lines'[n + 1] = <<torn>> /\ lines' # <<>>
    BY <1>0, <1>n, <1>1, <1>2, AppendProperties
  <2>. QED
    BY <1>1, <2>1 DEF Sound
<1>4. ~ Decodes(lines'[n + 1])
  BY <1>1, <1>2, <1>3 DEF Decodes
<1>5. \A i \in 1..n : Decodes(lines'[i]) /\ Links(i)'
  <2>1. \A i \in 1..n : i = 1 \/ i - 1 \in 1..n
    OBVIOUS
  <2>2. \A i \in 1..n : lines'[i] = lines[i] /\ (i # 1 => lines'[i - 1] = lines[i - 1])
    BY <1>3, <2>1
  <2>3. \A i \in 1..n : Decodes(lines[i]) /\ Links(i)
    BY <1>0 DEF AuditInv, FileInv, Verified
  <2>. QED
    BY <2>2, <2>3 DEF Links
<1>6. FileInv'
  BY <1>1, <1>3, <1>4, <1>5 DEF FileInv, Verified
<1>7. Ids' = Ids
  <2>1. Ids' = {lines'[i][1].id : i \in 1..n} /\ Ids = {lines[i][1].id : i \in 1..n}
    BY <1>0, <1>3 DEF Ids
  <2>. QED
    BY <1>3, <2>1
<1>8. VerifiedChain' = VerifiedChain
  <2>1. (FileInv => VerifiedChain = [i \in 1..Sound |-> lines[i][1].id])'
    BY ChainIsIds, PTL
  <2>2. VerifiedChain = [i \in 1..n |-> lines[i][1].id]
    BY <1>0, ChainIsIds DEF AuditInv
  <2>3. VerifiedChain' = [i \in 1..n |-> lines'[i][1].id]
    BY <1>3, <1>6, <2>1
  <2>. QED
    BY <1>3, <2>2, <2>3
<1>. QED
  BY <1>1, <1>3, <1>6, <1>7, <1>8

(***************************************************************************)
(* The steps.                                                              *)
(***************************************************************************)
\* A new Logger finds the file sound and resumes at its tail.
LEMMA OpenKeeps ==
  ASSUME AuditInv, Open
  PROVE  AuditInv' /\ UNCHANGED <<VerifiedChain, acked>>
<1>. USE DEF AuditInv, Open, loggerVars, threadVars
<1>1. FileInv' /\ Ids' = Ids /\ RecoveredHash' = RecoveredHash /\ VerifiedChain' = VerifiedChain
  BY FileStays
<1>2. opens + 1 \in Loggers /\ opens' = opens + 1
  BY DEF TypeOK
<1>3. RecoveredHash \in Hashes \union {NoHash} /\ ended
  <2>1. ended
    BY DEF FileInv, LastLineDecodes
  <2>2. lines # <<>> => Len(lines) \in 1..Sound
    BY <2>1, SoundType DEF FileInv, Sound
  <2>. QED
    BY <2>1, <2>2, SoundType DEF RecoveredHash, Record
<1>4. TypeOK'
  BY <1>2, <1>3 DEF TypeOK
<1>5. \A l \in Loggers : closer'[l] => l = opens'
  <2>1. \A l \in Loggers : ~ closer[l]
    BY DEF Running, LoggerInv, TypeOK
  <2>. QED
    BY <1>2, <2>1 DEF TypeOK
<1>6. LoggerInv'
  <2>1. lastHash'[opens'] = RecoveredHash'
    BY <1>1, <1>2 DEF TypeOK
  <2>. QED
    BY <1>2, <1>3, <1>5, <2>1 DEF LoggerInv, Running, TypeOK
<1>7. WriterInv'
  <2>1. \A t \in Threads : pc'[t] = "writing" => ~ closer'[using'[t]]
    BY <1>2, <1>5 DEF LoggerInv, TypeOK
  <2>. QED
    BY <2>1 DEF WriterInv
<1>. QED
  BY <1>1, <1>4, <1>6, <1>7

\* The lock is taken: what is to be written continues the file.
LEMMA LockKeeps ==
  ASSUME AuditInv, NEW t \in Threads, RecordLock(t)
  PROVE  AuditInv' /\ UNCHANGED <<VerifiedChain, acked>>
<1>. USE DEF AuditInv, RecordLock
<1>1. FileInv' /\ Ids' = Ids /\ RecoveredHash' = RecoveredHash /\ VerifiedChain' = VerifiedChain
  BY FileStays
<1>2. /\ opens \in Loggers /\ issued + 1 \in Hashes /\ issued' = issued + 1
      /\ lastHash[opens] \in Hashes \union {NoHash} /\ issued \in Nat /\ opens \in Nat
  BY DEF TypeOK
<1>3. /\ writing'[t].id = issued + 1 /\ writing'[t].prev = lastHash[opens] /\ writing'[t].complete
      /\ writing'[t] \in Record
      /\ \A u \in Threads \ {t} : writing'[u] = writing[u] /\ using'[u] = using[u] /\ pc'[u] = pc[u]
      /\ using'[t] = opens /\ pc'[t] = "writing" /\ mu'[opens] = t
      /\ \A l \in Loggers \ {opens} : mu'[l] = mu[l]
  BY <1>2 DEF TypeOK, Rec, Record
<1>4. TypeOK'
  <2>1. writing' \in [Threads -> Record] /\ using' \in [Threads -> Loggers]
    BY <1>2, <1>3 DEF TypeOK
  <2>2. issued' \in 0..MaxRecords
    BY <1>2 DEF TypeOK
  <2>3. mu' \in [Loggers -> Threads \union {NoThread}] /\ pc' \in [Threads -> {"idle", "writing", "closing"}]
    BY DEF TypeOK
  <2>. QED
    BY <2>1, <2>2, <2>3 DEF TypeOK
<1>5. LoggerInv'
  <2>1. \A u \in Threads \ {t} : pc[u] = "writing" => using[u] # opens
    BY DEF LoggerInv
  <2>2. \A u \in Threads : pc'[u] = "writing" => mu'[using'[u]] = u /\ using'[u] <= opens'
    BY <1>2, <1>3, <2>1 DEF LoggerInv, TypeOK
  <2>. QED
    BY <1>1, <2>2 DEF LoggerInv, Running
<1>6. issued + 1 \notin Ids' /\ issued + 1 \in 1..issued' /\ 1..issued \subseteq 1..issued'
  BY <1>1, <1>2
<1>7. WriterInv'
  <2>. SUFFICES ASSUME NEW u \in Threads, pc'[u] = "writing", closer'[using'[u]]
                PROVE  /\ writing'[u].prev = lastHash'[using'[u]] /\ writing'[u].complete
                       /\ writing'[u].id \in (1..issued') \ Ids'
    BY DEF WriterInv
  <2>1. CASE u = t
    <3>1. writing'[t].prev = lastHash'[using'[t]] /\ writing'[t].complete
      BY <1>3
    <3>2. writing'[t].id \in (1..issued') \ Ids'
      BY <1>3, <1>6
    <3>. QED
      BY <2>1, <3>1, <3>2
  <2>2. CASE u # t
    BY <1>1, <1>3, <1>6, <2>2 DEF WriterInv
  <2>. QED
    BY <2>1, <2>2
<1>. QED
  BY <1>1, <1>4, <1>5, <1>6, <1>7

\* Of the writers only one has an open Logger, and its Logger is the open one.
LEMMA OneWriter ==
  ASSUME AuditInv, NEW t \in Threads, pc[t] = "writing", closer[using[t]]
  PROVE  /\ using[t] = opens /\ Running /\ ended /\ writing[t].prev = RecoveredHash
         /\ writing[t] \in Record /\ writing[t].complete /\ writing[t].id \in (1..issued) \ Ids
         /\ \A u \in Threads \ {t} : pc[u] = "writing" => ~ closer[using[u]]
<1>. USE DEF AuditInv
<1>1. using[t] = opens /\ Running
  BY DEF LoggerInv, TypeOK, Running
<1>2. \A u \in Threads \ {t} : pc[u] = "writing" => ~ closer[using[u]]
  BY <1>1 DEF LoggerInv, TypeOK
<1>. QED
  BY <1>1, <1>2 DEF LoggerInv, WriterInv, TypeOK

LEMMA WriteKeeps ==
  ASSUME AuditInv, NEW t \in Threads, RecordWrite(t)
  PROVE  /\ AuditInv' /\ writing[t].id \notin Ids
         /\ VerifiedChain' = Append(VerifiedChain, writing[t].id)
         /\ acked' = acked \union {writing[t].id}
<1>. USE DEF AuditInv, RecordWrite, Unlock
<1>0. /\ using[t] = opens /\ Running /\ ended /\ writing[t].prev = RecoveredHash
      /\ writing[t] \in Record /\ writing[t].complete /\ writing[t].id \in (1..issued) \ Ids
      /\ \A u \in Threads \ {t} : pc[u] = "writing" => ~ closer[using[u]]
  BY OneWriter
<1>1. /\ ended' /\ lines' \in Seq(Seq(Record)) /\ FileInv' /\ Ids' = Ids \union {writing[t].id}
      /\ RecoveredHash' = writing[t].id /\ VerifiedChain' = Append(VerifiedChain, writing[t].id)
  BY <1>0, WholeRecord
<1>2. opens \in Loggers /\ opens \in Nat /\ writing[t].id \in Hashes /\ NoRecord \in Record
  BY <1>0 DEF TypeOK, Running, Record, NoRecord, Rec
<1>3. TypeOK'
  <2>1. ended' \in BOOLEAN
    BY <1>1 DEF FileInv
  <2>. QED
    BY <1>0, <1>1, <1>2, <2>1 DEF TypeOK
<1>4. /\ \A u \in Threads \ {t} : pc'[u] = pc[u] /\ writing'[u] = writing[u]
      /\ pc'[t] = "idle" /\ \A l \in Loggers \ {opens} : mu'[l] = mu[l]
      /\ lastHash'[opens] = writing[t].id
  BY <1>0, <1>2 DEF TypeOK
<1>5. LoggerInv'
  <2>1. \A u \in Threads \ {t} : pc[u] = "writing" => using[u] # opens
    BY <1>0 DEF LoggerInv
  <2>2. \A u \in Threads : pc'[u] = "writing" => mu'[using'[u]] = u /\ using'[u] <= opens'
    BY <1>4, <2>1 DEF LoggerInv, TypeOK
  <2>. QED
    BY <1>1, <1>4, <2>2 DEF LoggerInv, Running
<1>6. WriterInv'
  BY <1>0, <1>4 DEF WriterInv
<1>. QED
  BY <1>0, <1>1, <1>3, <1>5, <1>6

\* A write that fails leaves the file as it was.
LEMMA FailureKeeps ==
  ASSUME CleanFaults, AuditInv, NEW t \in Threads, RecordWriteFails(t)
  PROVE  AuditInv' /\ UNCHANGED <<VerifiedChain, acked>>
<1>. USE DEF AuditInv, RecordWriteFails, Unlock
<1>0. UNCHANGED <<lines, ended>>
  BY DEF CleanFaults, Leave
<1>1. FileInv' /\ Ids' = Ids /\ RecoveredHash' = RecoveredHash /\ VerifiedChain' = VerifiedChain
  BY <1>0, FileStays
<1>2. NoRecord \in Record
  BY DEF Record, NoRecord, Rec
<1>3. TypeOK'
  BY <1>0, <1>2 DEF TypeOK
<1>4. /\ \A u \in Threads \ {t} : pc'[u] = pc[u] /\ writing'[u] = writing[u]
      /\ pc'[t] = "idle" /\ \A l \in Loggers \ {using[t]} : mu'[l] = mu[l]
  BY DEF TypeOK
<1>5. LoggerInv'
  <2>1. \A u \in Threads \ {t} : pc[u] = "writing" => using[u] # using[t]
    BY DEF LoggerInv
  <2>2. \A u \in Threads : pc'[u] = "writing" => mu'[using'[u]] = u /\ using'[u] <= opens'
    BY <1>4, <2>1 DEF LoggerInv, TypeOK
  <2>. QED
    BY <1>0, <1>1, <2>2 DEF LoggerInv, Running
<1>6. WriterInv'
  BY <1>1, <1>4 DEF WriterInv
<1>. QED
  BY <1>1, <1>3, <1>5, <1>6

LEMMA CloseKeeps ==
  ASSUME AuditInv, NEW t \in Threads, CloseCheck(t) \/ CloseLocked(t)
  PROVE  AuditInv' /\ UNCHANGED <<VerifiedChain, acked>>
<1>. USE DEF AuditInv, CloseCheck, CloseLocked, loggerVars
<1>1. FileInv' /\ Ids' = Ids /\ RecoveredHash' = RecoveredHash /\ VerifiedChain' = VerifiedChain
  BY FileStays
<1>2. /\ TypeOK' /\ UNCHANGED <<opens, lastHash, mu, issued, acked, writing, ended>>
      /\ \A l \in Loggers : closer'[l] => closer[l]
      /\ \A u \in Threads : pc'[u] = "writing" => pc[u] = "writing" /\ using'[u] = using[u]
  <2>1. CASE CloseCheck(t)
    <3>1. opens \in Loggers
      BY <2>1 DEF TypeOK, Running
    <3>. QED
      BY <2>1, <3>1 DEF TypeOK
  <2>2. CASE CloseLocked(t)
    BY <2>2 DEF TypeOK
  <2>. QED
    BY <2>1, <2>2
<1>3. LoggerInv'
  BY <1>1, <1>2 DEF LoggerInv, Running, TypeOK
<1>4. WriterInv'
  BY <1>1, <1>2 DEF WriterInv, TypeOK
<1>. QED
  BY <1>1, <1>2, <1>3, <1>4

\* A crash loses a record, tears it or leaves it whole, but acknowledges nothing.
LEMMA CrashKeeps ==
  ASSUME CleanFaults, AuditInv, Crash
  PROVE  /\ AuditInv' /\ acked' = acked
         /\ \/ VerifiedChain' = VerifiedChain
            \/ \E r \in Hashes \ Ids : VerifiedChain' = Append(VerifiedChain, r)
<1>. USE DEF AuditInv
<1>1. /\ lines' \in Seq(Seq(Record)) /\ ended' \in BOOLEAN /\ FileInv' /\ Ids \subseteq Ids' /\ Ids' \subseteq 1..issued
      /\ \/ VerifiedChain' = VerifiedChain
         \/ \E r \in Hashes \ Ids : VerifiedChain' = Append(VerifiedChain, r)
  <2>1. CASE UNCHANGED <<lines, ended>>
    BY <2>1, FileStays DEF FileInv
  <2>2. ASSUME NEW t \in Threads, NEW left \in CrashFaults, pc[t] = "writing", closer[using[t]],
               Leave(writing[t], left)
        PROVE  \/ UNCHANGED <<lines, ended>> \/ Leave(writing[t], "torn") \/ Leave(writing[t], "whole")
    BY <2>2 DEF CleanFaults, Leftovers, Leave
  <2>3. ASSUME NEW t \in Threads, pc[t] = "writing", closer[using[t]],
               Leave(writing[t], "torn") \/ Leave(writing[t], "whole")
        PROVE  /\ lines' \in Seq(Seq(Record)) /\ ended' \in BOOLEAN /\ FileInv'
               /\ Ids \subseteq Ids' /\ Ids' \subseteq 1..issued
               /\ \/ VerifiedChain' = VerifiedChain
                  \/ \E r \in Hashes \ Ids : VerifiedChain' = Append(VerifiedChain, r)
    <3>1. /\ ended /\ writing[t].prev = RecoveredHash
          /\ writing[t] \in Record /\ writing[t].complete /\ writing[t].id \in (1..issued) \ Ids
      BY <2>3, OneWriter
    <3>2. writing[t].id \in Hashes \ Ids
      BY <3>1 DEF TypeOK
    <3>3. CASE Leave(writing[t], "torn")
      BY <3>1, <3>3, TornRecord
    <3>4. CASE Leave(writing[t], "whole")
      <4>1. /\ ended' /\ lines' \in Seq(Seq(Record)) /\ FileInv' /\ Ids' = Ids \union {writing[t].id}
            /\ VerifiedChain' = Append(VerifiedChain, writing[t].id)
        BY <3>1, <3>4, WholeRecord
      <4>2. ended' \in BOOLEAN
        BY <4>1 DEF FileInv
      <4>. QED
        BY <3>1, <3>2, <4>1, <4>2
    <3>. QED
      BY <2>3, <3>3, <3>4
  <2>. QED
    BY <2>1, <2>2, <2>3 DEF Crash
<1>2. NoRecord \in Record
  BY DEF Record, NoRecord, Rec
<1>3. TypeOK'
  BY <1>1, <1>2 DEF Crash, TypeOK
<1>4. LoggerInv' /\ WriterInv'
  BY <1>3 DEF Crash, LoggerInv, WriterInv, Running, TypeOK
<1>. QED
  BY <1>1, <1>3, <1>4 DEF Crash

LEMMA InitHolds == Init => AuditInv
<1>. SUFFICES ASSUME Init PROVE AuditInv
  OBVIOUS
<1>1. NoRecord \in Record /\ 1 \in Loggers /\ 0 \in 0..MaxOpens /\ 0 \in 0..MaxRecords
  BY DEF Record, NoRecord, Rec
<1>2. lines \in Seq(Seq(Record)) /\ Len(lines) = 0
  BY DEF Init
<1>3. TypeOK
  BY <1>1, <1>2 DEF Init, TypeOK
<1>4. Sound = 0 /\ Ids = {}
  BY <1>2 DEF Init, Sound, Ids
<1>5. FileInv
  BY <1>2, <1>4 DEF Init, FileInv, Verified
<1>6. LoggerInv /\ WriterInv
  BY DEF Init, LoggerInv, WriterInv, Running
<1>. QED
  BY <1>3, <1>4, <1>5, <1>6 DEF Init, AuditInv

(***************************************************************************)
(* The theorems.                                                           *)
(***************************************************************************)
\* The chain Verify accepts stays as it is, or one record more comes to its end.
GrowsByOne ==
  \/ UNCHANGED <<VerifiedChain, acked>>
  \/ \E r \in Hashes \ Ids :
       /\ VerifiedChain' = Append(VerifiedChain, r)
       /\ acked' \in {acked, acked \union {r}}

LEMMA AuditStep ==
  ASSUME CleanFaults, AuditInv, [Next]_vars
  PROVE  AuditInv' /\ GrowsByOne
<1>1. CASE Open
  BY <1>1, OpenKeeps DEF GrowsByOne
<1>2. ASSUME NEW t \in Threads, RecordLock(t) \/ RecordWriteFails(t) \/ CloseCheck(t) \/ CloseLocked(t)
      PROVE  AuditInv' /\ GrowsByOne
  BY <1>2, LockKeeps, FailureKeeps, CloseKeeps DEF GrowsByOne
<1>3. ASSUME NEW t \in Threads, RecordWrite(t) PROVE AuditInv' /\ GrowsByOne
  <2>1. writing[t].id \in Hashes \ Ids
    BY <1>3, OneWriter, WriteKeeps DEF RecordWrite, AuditInv, TypeOK
  <2>. QED
    BY <1>3, <2>1, WriteKeeps DEF GrowsByOne
<1>4. CASE Crash
  BY <1>4, CrashKeeps DEF GrowsByOne
<1>5. CASE UNCHANGED vars
  <2>1. FileInv' /\ Ids' = Ids /\ RecoveredHash' = RecoveredHash /\ VerifiedChain' = VerifiedChain
    BY <1>5, FileStays DEF vars, AuditInv
  <2>2. TypeOK' /\ LoggerInv' /\ WriterInv' /\ UNCHANGED <<issued, acked>>
    BY <1>5, <2>1 DEF vars, loggerVars, threadVars, AuditInv, TypeOK, LoggerInv, WriterInv, Running
  <2>. QED
    BY <2>1, <2>2 DEF AuditInv, GrowsByOne
<1>. QED
  BY <1>1, <1>2, <1>3, <1>4, <1>5 DEF Next

\* The invariant holds for every interleaving of recorders, closers and crashes.
THEOREM AuditInvariant == CleanFaults => (Spec => []AuditInv)
<1>. SUFFICES ASSUME CleanFaults PROVE Spec => []AuditInv
  OBVIOUS
<1>1. AuditInv /\ [Next]_vars => AuditInv'
  BY AuditStep
<1>. QED
  BY <1>1, InitHolds, PTL DEF Spec

\* File, Loggers and goroutines keep their types.
THEOREM AuditTypeCorrect == CleanFaults => (Spec => []TypeOK)
<1>1. AuditInv => TypeOK
  BY DEF AuditInv
<1>. QED
  BY <1>1, AuditInvariant, PTL

\* Every record that Record acknowledged is in the part of the file Verify accepts.
THEOREM AckedSafe == CleanFaults => (Spec => []AckedVerifiable)
<1>1. AuditInv => AckedVerifiable
  BY ChainIsIds DEF AuditInv, AckedVerifiable
<1>. QED
  BY <1>1, AuditInvariant, PTL

\* The file implements the abstract chain: it grows at its end only, by records it
\* does not hold yet, and nothing else is ever acknowledged.
THEOREM ChainImplemented == CleanFaults => (Spec => ImplementsChain)
<1>. SUFFICES ASSUME CleanFaults PROVE Spec => ImplementsChain
  OBVIOUS
<1>1. Init => Chain!ChainInit
  <2>. SUFFICES ASSUME Init PROVE VerifiedChain = <<>> /\ acked = {}
    BY DEF Chain!ChainInit
  <2>1. Sound = 0 /\ FileInv
    BY InitHolds DEF AuditInv, Init, Sound
  <2>. QED
    BY <2>1, ChainIsIds DEF Init
<1>2. AuditInv /\ [Next]_vars => [\E r \in Hashes : Chain!Emit(r)]_<<VerifiedChain, acked>>
  <2>. SUFFICES ASSUME AuditInv, [Next]_vars
                PROVE  [\E r \in Hashes : Chain!Emit(r)]_<<VerifiedChain, acked>>
    OBVIOUS
  <2>1. Range(VerifiedChain) = Ids
    BY ChainIsIds DEF AuditInv
  <2>2. Chain!Range(VerifiedChain) = Ids
    BY <2>1 DEF Range, Chain!Range
  <2>3. CASE UNCHANGED <<VerifiedChain, acked>>
    BY <2>3
  <2>4. ASSUME NEW r \in Hashes \ Ids, VerifiedChain' = Append(VerifiedChain, r),
               acked' \in {acked, acked \union {r}}
        PROVE  Chain!Emit(r)
    BY <2>2, <2>4 DEF Chain!Emit
  <2>. QED
    BY <2>3, <2>4, AuditStep DEF GrowsByOne
<1>. QED
  BY <1>1, <1>2, AuditInvariant, PTL DEF Spec, ImplementsChain, Chain!ChainSpec
=============================================================================
