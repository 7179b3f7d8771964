------------------------------- MODULE AuditLog -------------------------------
(***************************************************************************)
(* The hash-chained audit log: Open, Record and Close called by several    *)
(* goroutines, write errors, and crashes of the process followed by a new  *)
(* Open of the same file. Source: internal/auditlog/auditlog.go.           *)
(*                                                                         *)
(* A record's hash is its identity: two records differ in timestamp, trace *)
(* or predecessor, and SHA-256 is taken to be injective. One Logger at a   *)
(* time is open on the file (nothing in the code enforces it).             *)
(***************************************************************************)
EXTENDS Integers, Sequences, FiniteSets, Functions

CONSTANTS
  Threads,      \* goroutines that record
  Closers,      \* the goroutines among them that may call Close
  MaxRecords,   \* bound on Record calls that reach the lock
  MaxOpens,     \* bound on Open calls
  WriteFaults,  \* what a failed write may leave in the file
  CrashFaults   \* what a crash inside a write may leave in the file

Leftovers == {"nothing", "torn", "unterminated", "whole"}

ASSUME AuditConfig ==
  /\ Closers \subseteq Threads /\ "none" \notin Threads
  /\ MaxRecords \in Nat /\ MaxOpens \in Nat \ {0}
  /\ WriteFaults \subseteq Leftovers \ {"whole"} /\ CrashFaults \subseteq Leftovers

Loggers == 1..MaxOpens
NoHash == 0                       \* lastHash = ""
Hashes == 1..MaxRecords
NoThread == "none"

VARIABLES
  lines,      \* the file: each line is the sequence of records written on it
  ended,      \* the file ends with a newline, or is empty
  opens,      \* Logger objects created so far; the last one is current
  lastHash, closer, mu,    \* the fields of each Logger
  pc,         \* per thread: what it is doing
  using,      \* per thread: the Logger it is doing it with
  writing,    \* per thread: the record it has hashed under the lock
  issued,     \* records hashed so far
  acked,      \* records for which Record returned nil
  panicked    \* a nil closer was called

threadVars == <<pc, using, writing>>
loggerVars == <<opens, lastHash, closer, mu>>
vars == <<lines, ended, loggerVars, threadVars, issued, acked, panicked>>

Rec(id, prev, complete) == [id |-> id, prev |-> prev, complete |-> complete]
NoRecord == Rec(0, 0, FALSE)

(***************************************************************************)
(* The file                                                                *)
(***************************************************************************)
\* Bytes go to the end of the file: onto the last line if that is unfinished.
Written(r) ==
  IF ended THEN Append(lines, <<r>>)
  ELSE [lines EXCEPT ![Len(lines)] = Append(@, r)]

\* Write of r that leaves `left` behind.
Leave(r, left) ==
  IF left = "nothing" THEN UNCHANGED <<lines, ended>>
  ELSE /\ lines' = Written([r EXCEPT !.complete = left # "torn"])
       /\ ended' = (left = "whole")

\* json.Unmarshal accepts a line that is one complete record and nothing else.
Decodes(line) == Len(line) = 1 /\ line[1].complete

\* readLastHash: the hash of the last line, which must decode.
LastLineDecodes == lines # <<>> => Decodes(lines[Len(lines)])
\* Fault: the log resumes at the record to come, not at the last one.
RecoverNext == IF lines = <<>> THEN NoHash ELSE lines[Len(lines)][1].id + 1

RecoveredHash == IF lines = <<>> THEN NoHash ELSE lines[Len(lines)][1].id

\* Verify: the first n lines decode and each names its predecessor's hash.
Links(i) == lines[i][1].prev = IF i = 1 THEN NoHash ELSE lines[i - 1][1].id
Verified(n) == \A i \in 1..n : Decodes(lines[i]) /\ Links(i)
VerifiedCount == CHOOSE n \in 0..Len(lines) :
                   Verified(n) /\ (n < Len(lines) => ~Verified(n + 1))
VerifiedChain == [i \in 1..VerifiedCount |-> lines[i][1].id]

(***************************************************************************)
(* Open                                                                    *)
(***************************************************************************)
Running == opens > 0 /\ closer[opens]

Open ==
  /\ opens < MaxOpens
  /\ ~Running
  /\ LastLineDecodes
  /\ opens' = opens + 1
  /\ lastHash' = [lastHash EXCEPT ![opens + 1] = RecoveredHash]
  /\ closer' = [closer EXCEPT ![opens + 1] = TRUE]
  /\ UNCHANGED <<lines, ended, mu, threadVars, issued, acked, panicked>>

(***************************************************************************)
(* Record                                                                  *)
(***************************************************************************)
\* Fault: the mutex is not taken.
RecordUnlocked(t) ==
  /\ pc[t] = "idle" /\ opens > 0 /\ issued < MaxRecords
  /\ issued' = issued + 1
  /\ writing' = [writing EXCEPT ![t] = Rec(issued + 1, lastHash[opens], TRUE)]
  /\ using' = [using EXCEPT ![t] = opens]
  /\ pc' = [pc EXCEPT ![t] = "writing"]
  /\ UNCHANGED <<lines, ended, opens, lastHash, closer, mu, acked, panicked>>

\* mu.Lock(), then PrevHash is read and the hash computed.
RecordLock(t) ==
  /\ pc[t] = "idle" /\ opens > 0 /\ issued < MaxRecords
  /\ mu[opens] = NoThread
  /\ mu' = [mu EXCEPT ![opens] = t]
  /\ issued' = issued + 1
  /\ writing' = [writing EXCEPT ![t] = Rec(issued + 1, lastHash[opens], TRUE)]
  /\ using' = [using EXCEPT ![t] = opens]
  /\ pc' = [pc EXCEPT ![t] = "writing"]
  /\ UNCHANGED <<lines, ended, opens, lastHash, closer, acked, panicked>>

Unlock(t) ==
  /\ mu' = [mu EXCEPT ![using[t]] = NoThread]
  /\ pc' = [pc EXCEPT ![t] = "idle"]
  /\ writing' = [writing EXCEPT ![t] = NoRecord]

RecordWrite(t) ==
  /\ pc[t] = "writing" /\ closer[using[t]]
  /\ Leave(writing[t], "whole")
  /\ lastHash' = [lastHash EXCEPT ![using[t]] = writing[t].id]
  /\ acked' = acked \union {writing[t].id}
  /\ Unlock(t)
  /\ UNCHANGED <<opens, closer, using, issued, panicked>>

\* Fault: lastHash moves on although nothing was written.
FailedWriteAdvances(t) ==
  /\ pc[t] = "writing" /\ closer[using[t]]
  /\ Leave(writing[t], "nothing")
  /\ lastHash' = [lastHash EXCEPT ![using[t]] = writing[t].id]
  /\ Unlock(t)
  /\ UNCHANGED <<opens, closer, using, issued, acked, panicked>>

\* The write fails, on a closed file without leaving a byte: Record returns
\* the error and lastHash keeps its value.
RecordWriteFails(t) ==
  /\ pc[t] = "writing"
  /\ \/ closer[using[t]] /\ \E left \in WriteFaults : Leave(writing[t], left)
     \/ ~closer[using[t]] /\ Leave(writing[t], "nothing")
  /\ Unlock(t)
  /\ UNCHANGED <<opens, lastHash, closer, using, issued, acked, panicked>>

(***************************************************************************)
(* Close: closer is tested before the lock is taken                        *)
(***************************************************************************)
CloseCheck(t) ==
  /\ t \in Closers /\ pc[t] = "idle" /\ Running
  /\ using' = [using EXCEPT ![t] = opens]
  /\ pc' = [pc EXCEPT ![t] = "closing"]
  /\ UNCHANGED <<lines, ended, loggerVars, writing, issued, acked, panicked>>

CloseLocked(t) ==
  /\ pc[t] = "closing" /\ mu[using[t]] = NoThread
  /\ panicked' = (panicked \/ ~closer[using[t]])
  /\ closer' = [closer EXCEPT ![using[t]] = FALSE]
  /\ pc' = [pc EXCEPT ![t] = "idle"]
  /\ UNCHANGED <<lines, ended, opens, lastHash, mu, using, writing, issued, acked>>

(***************************************************************************)
(* The process dies. A write in progress may reach the file in part.       *)
(***************************************************************************)
Crash ==
  /\ opens > 0
  /\ \/ \E t \in Threads, left \in CrashFaults :
          pc[t] = "writing" /\ closer[using[t]] /\ Leave(writing[t], left)
     \/ /\ ~ \E t \in Threads : pc[t] = "writing" /\ closer[using[t]]
        /\ UNCHANGED <<lines, ended>>
  /\ closer' = [l \in Loggers |-> FALSE]
  /\ mu' = [l \in Loggers |-> NoThread]
  /\ pc' = [t \in Threads |-> "idle"]
  /\ writing' = [t \in Threads |-> NoRecord]
  /\ UNCHANGED <<opens, lastHash, using, issued, acked, panicked>>

Init ==
  /\ lines = <<>> /\ ended = TRUE
  /\ opens = 0
  /\ lastHash = [l \in Loggers |-> NoHash]
  /\ closer = [l \in Loggers |-> FALSE]
  /\ mu = [l \in Loggers |-> NoThread]
  /\ pc = [t \in Threads |-> "idle"]
  /\ using = [t \in Threads |-> 1]
  /\ writing = [t \in Threads |-> NoRecord]
  /\ issued = 0 /\ acked = {} /\ panicked = FALSE

Next ==
  \/ Open
  \/ \E t \in Threads : RecordLock(t) \/ RecordWrite(t) \/ RecordWriteFails(t)
                          \/ CloseCheck(t) \/ CloseLocked(t)
  \/ Crash

Spec == Init /\ [][Next]_vars
-----------------------------------------------------------------------------
(***************************************************************************)
(* Properties                                                              *)
(***************************************************************************)
Record == [id : Hashes \union {0}, prev : Hashes \union {NoHash}, complete : BOOLEAN]

\* Type invariant.
TypeOK ==
  /\ lines \in Seq(Seq(Record)) /\ ended \in BOOLEAN
  /\ opens \in 0..MaxOpens
  /\ lastHash \in [Loggers -> Hashes \union {NoHash}]
  /\ closer \in [Loggers -> BOOLEAN]
  /\ mu \in [Loggers -> Threads \union {NoThread}]
  /\ pc \in [Threads -> {"idle", "writing", "closing"}]
  /\ using \in [Threads -> Loggers] /\ writing \in [Threads -> Record]
  /\ issued \in 0..MaxRecords /\ acked \subseteq Hashes /\ panicked \in BOOLEAN

\* Every record whose Record call returned nil is in the part of the file
\* Verify accepts, through concurrent calls, failed writes, Close, crashes and
\* reopening: an acknowledged record can be proved later.
AckedVerifiable == acked \subseteq Range(VerifiedChain)

Chain == INSTANCE AuditChain WITH Records <- Hashes, chain <- VerifiedChain, acked <- acked

\* The file implements the abstract chain: what Verify accepts only grows, at
\* its end, by one record at a time, and acknowledges nothing else.
ImplementsChain == Chain!ChainSpec

\* "All methods are safe for concurrent use" (auditlog.go:73) and Close is
\* "Safe to call multiple times" (auditlog.go:158). This holds with one thread in
\* Closers and fails with two, which both pass CloseCheck.
NoPanic == ~panicked
=============================================================================
