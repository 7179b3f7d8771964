--------------------------- MODULE InstancesProofs ---------------------------
(***************************************************************************)
(* Proofs about the instance manager, for any number of names, ports and   *)
(* process ids.                                                            *)
(***************************************************************************)
EXTENDS Instances, TLAPS

USE InstancesConfig

(***************************************************************************)
(* The inductive invariant.                                                *)
(***************************************************************************)
Quiet(n) == \A pid \in Servers : procs[pid].of # n

\* A server carries the name and the port it was started with.
ServersAreNamed == \A pid \in Servers : procs[pid].of \in Names /\ procs[pid].port \in Ports

\* What a command has found out or done by the step it is at.
CommandKnows ==
  /\ cmd # NoCommand => cmd.name \in Names
  /\ cmd.at = "claim" => cmd.port \in Ports /\ port_used_by_instance(cmd.port) \subseteq {cmd.name}
  /\ cmd.at \in {"claim", "spawn", "done", "delete"} => Quiet(cmd.name)
  /\ cmd.at \in {"spawn", "pidfile"} =>
       cmd.port \in Ports /\ files[cmd.name].port = cmd.port /\ files[cmd.name].dir
  /\ cmd.at = "pidfile" => cmd.pid \in Pids /\ \A pid \in Servers : procs[pid].of = cmd.name <=> pid = cmd.pid
  /\ cmd.at = "term" => cmd.pid \in Pids /\ files[cmd.name].pid = cmd.pid
  /\ cmd.at = "done" => cmd.what = "stop" /\ files[cmd.name].pid = NoPid

InstancesInv == TypeOK /\ ServersAreNamed /\ CommandKnows /\ OwnPortAndPidfile /\ CommandsDeliver

LEMMA InitHolds == Init => InstancesInv
<1>. SUFFICES ASSUME Init PROVE InstancesInv
  OBVIOUS
<1>1. TypeOK
  BY DEF Init, TypeOK, Nothing, NoDir, NoCommand, AllPids, AllPorts, Steps
<1>2. Servers = {}
  BY DEF Init, Servers, Nothing
<1>3. ServersAreNamed /\ CommandKnows
  BY <1>2 DEF Init, ServersAreNamed, CommandKnows, NoCommand
<1>4. OwnPortAndPidfile /\ CommandsDeliver
  BY <1>2 DEF Init, OwnPortAndPidfile, OwnPort, OwnPidfile, CommandsDeliver, NoDir
<1>. QED
  BY <1>1, <1>3, <1>4 DEF InstancesInv

(***************************************************************************)
(* The environment: servers change their state or go, none comes.          *)
(***************************************************************************)
Process == [of : Names \union {""}, kind : {"none", "other", "loading", "listening"}, port : AllPorts]

NoServerComes ==
  /\ UNCHANGED <<files, registered, cmd, ended>>
  /\ procs' \in [Pids -> Process] /\ others' \subseteq Ports
  /\ \A pid \in Servers' :
       pid \in Servers /\ procs'[pid].of = procs[pid].of /\ procs'[pid].port = procs[pid].port

LEMMA MachineMoves ==
  ASSUME InstancesInv,
         \/ \E pid \in Pids : Bind(pid) \/ Exit(pid) \/ TakePid(pid)
         \/ \E p \in Ports : TakePort(p) \/ LeavePort(p)
         \/ UNCHANGED vars
  PROVE  NoServerComes
<1>. USE DEF InstancesInv, TypeOK, Servers, NoServerComes
<1>1. ASSUME NEW pid \in Pids, Bind(pid) PROVE NoServerComes
  <2>1. procs[pid] \in Process
    BY DEF Process
  <2>2. Nothing \in Process /\ [procs[pid] EXCEPT !.kind = "listening"] \in Process
    BY <2>1 DEF Process, Nothing, AllPorts
  <2>. QED
    BY <1>1, <2>1, <2>2 DEF Bind, Nothing, Process
<1>2. ASSUME NEW pid \in Pids, Exit(pid) PROVE NoServerComes
  BY <1>2 DEF Exit, Nothing, Process, AllPorts
<1>3. ASSUME NEW pid \in Pids, TakePid(pid) PROVE NoServerComes
  BY <1>3 DEF TakePid, Stranger, Nothing, Process, AllPorts
<1>4. ASSUME NEW p \in Ports, TakePort(p) \/ LeavePort(p) PROVE NoServerComes
  BY <1>4 DEF TakePort, LeavePort, Process
<1>5. CASE UNCHANGED vars
  BY <1>5 DEF vars, envVars, Process
<1>. QED
  BY <1>1, <1>2, <1>3, <1>4, <1>5

LEMMA MachineKeeps ==
  ASSUME InstancesInv, NoServerComes
  PROVE  InstancesInv'
<1>. USE DEF InstancesInv, NoServerComes
<1>1. TypeOK'
  BY DEF TypeOK, Process
<1>2. ServersAreNamed'
  BY DEF ServersAreNamed
<1>3. CommandKnows'
  BY DEF CommandKnows, Quiet, port_used_by_instance
<1>4. OwnPort'
  BY DEF OwnPortAndPidfile, OwnPort
<1>5. OwnPidfile'
  BY DEF OwnPortAndPidfile, OwnPidfile
<1>6. CommandsDeliver'
  <2>. SUFFICES ASSUME cmd = NoCommand, ended[3] = "ok", ended[1] # "none"
                PROVE  LET n == ended[2] IN
                       /\ ended[1] \in {"stop", "remove"} =>
                            files[n].pid = NoPid /\ \A pid \in Servers' : procs'[pid].of # n
                       /\ ended[1] = "remove" => files[n].port = 0
                       /\ ended[1] = "register" =>
                            \A pid \in Servers' : procs'[pid].of = n => procs'[pid].port = registered[n]
    BY DEF CommandsDeliver
  <2>. QED
    BY DEF CommandsDeliver
<1>. QED
  BY <1>1, <1>2, <1>3, <1>4, <1>5, <1>6 DEF OwnPortAndPidfile

\* A reboot and an interrupt leave no command at work, a reboot no process either.
LEMMA CommandDies ==
  ASSUME InstancesInv, Reboot \/ Interrupt
  PROVE  InstancesInv'
<1>. USE DEF InstancesInv
<1>1. CASE Reboot
  <2>1. TypeOK' /\ Servers' = {}
    BY <1>1 DEF Reboot, TypeOK, NoCommand, Nothing, AllPids, AllPorts, Steps, Servers
  <2>. QED
    BY <1>1, <2>1 DEF Reboot, ServersAreNamed, CommandKnows, OwnPortAndPidfile, OwnPort, OwnPidfile, CommandsDeliver, NoCommand
<1>2. CASE Interrupt
  <2>1. TypeOK' /\ Servers' = Servers
    BY <1>2 DEF Interrupt, End, envVars, TypeOK, NoCommand, AllPids, AllPorts, Steps, Servers
  <2>. QED
    BY <1>2, <2>1 DEF Interrupt, End, envVars, ServersAreNamed, CommandKnows, OwnPortAndPidfile, OwnPort, OwnPidfile, CommandsDeliver, NoCommand
<1>. QED
  BY <1>1, <1>2

(***************************************************************************)
(* The commands                                                            *)
(***************************************************************************)
Command ==
  [what : Commands \union {"none"}, name : Names \union {""}, at : Steps, pid : AllPids, port : AllPorts]

\* A command that ends with something to say only after a stop.
LEMMA CommandEnds ==
  ASSUME InstancesInv, UNCHANGED <<files, envVars, registered>>, cmd.at # "pidfile",
         NEW how, End(how), how # "ok" \/ cmd.at = "done"
  PROVE  InstancesInv'
<1>. USE DEF InstancesInv, envVars, End
<1>1. TypeOK' /\ Servers' = Servers
  BY DEF TypeOK, NoCommand, AllPids, AllPorts, Steps, Servers
<1>2. ServersAreNamed' /\ CommandKnows' /\ OwnPortAndPidfile'
  BY <1>1 DEF ServersAreNamed, CommandKnows, NoCommand, OwnPortAndPidfile, OwnPort, OwnPidfile
<1>3. CommandsDeliver'
  BY <1>1 DEF CommandsDeliver, CommandKnows, Quiet, TypeOK
<1>. QED
  BY <1>1, <1>2, <1>3

\* A step that decides what the command does next.
LEMMA CommandGoesOn ==
  ASSUME InstancesInv, UNCHANGED <<files, envVars, registered>>, cmd.at # "pidfile",
         cmd' \in Command, cmd'.what # "none", CommandKnows'
  PROVE  InstancesInv'
<1>. USE DEF InstancesInv, envVars, Command
<1>1. NoCommand.what = "none"
  BY DEF NoCommand
<1>2. Servers' = Servers /\ cmd' # NoCommand
  BY <1>1 DEF Servers
<1>3. TypeOK'
  BY <1>2 DEF TypeOK
<1>. QED
  BY <1>2, <1>3 DEF ServersAreNamed, OwnPortAndPidfile, OwnPort, OwnPidfile, CommandsDeliver

\* No process answers for the name, so no server of that name runs.
LEMMA NotAliveIsQuiet ==
  ASSUME InstancesInv, NEW n \in Names, ~ alive(n), cmd.at # "pidfile"
  PROVE  Quiet(n)
<1>. SUFFICES ASSUME NEW pid \in Servers, procs[pid].of = n PROVE FALSE
  BY DEF Quiet
<1>1. pid \in Pids /\ files[n].pid = pid /\ pid # NoPid
  BY DEF InstancesInv, OwnPortAndPidfile, OwnPidfile, Servers
<1>2. Nothing.kind = "none" /\ procs[pid].kind # "none"
  BY DEF Servers, Nothing
<1>3. procs[pid] # Nothing
  BY <1>2
<1>. QED
  BY <1>1, <1>3 DEF alive

LEMMA InvokeStep ==
  ASSUME InstancesInv, NEW n \in Names, NEW what \in Commands,
         NEW step \in {"start", "stop", "check", "add", "drop"}, Invoke(what, n, step)
  PROVE  InstancesInv'
<1>1. cmd' = [what |-> what, name |-> n, at |-> step, pid |-> NoPid, port |-> 0]
  BY DEF Invoke, NoCommand
<1>2. cmd' \in Command /\ cmd'.what # "none" /\ CommandKnows'
  BY <1>1 DEF Command, Commands, Steps, AllPids, AllPorts, CommandKnows
<1>3. cmd.at # "pidfile"
  BY DEF Invoke, NoCommand
<1>. QED
  BY <1>2, <1>3, CommandGoesOn DEF Invoke

\* Every step but Invoke is of a command some name was given to.
LEMMA AtWork ==
  ASSUME InstancesInv, cmd.what # "none"
  PROVE  cmd \in Command /\ cmd # NoCommand /\ cmd.name \in Names /\ files[cmd.name] \in [dir : BOOLEAN, pid : AllPids, port : AllPorts]
BY DEF InstancesInv, TypeOK, Command, CommandKnows

LEMMA StartDecides ==
  ASSUME InstancesInv, AlreadyRunning \/ ChoosePort \/ StartReturns
  PROVE  InstancesInv'
<1>1. CASE AlreadyRunning
  BY <1>1, CommandEnds DEF AlreadyRunning, At
<1>2. CASE ChoosePort
  <2>1. PICK p \in pick_port \union (IF cmd.what = "start" THEN Ports ELSE {}) :
          /\ port_used_by_instance(p) \subseteq {cmd.name}
          /\ cmd' = [cmd EXCEPT !.port = p, !.at = "claim"]
    BY <1>2 DEF ChoosePort
  <2>2. p \in Ports
    BY DEF pick_port, FreePorts
  <2>3. cmd.what \in Starts /\ cmd.at = "start" /\ ~ alive(cmd.name)
    BY <1>2 DEF ChoosePort, At
  <2>4. cmd \in Command /\ cmd.name \in Names /\ Quiet(cmd.name)
    BY <2>3, AtWork, NotAliveIsQuiet DEF Starts
  <2>5. cmd' = [what |-> cmd.what, name |-> cmd.name, at |-> "claim", pid |-> cmd.pid, port |-> p]
    BY <2>1, <2>4 DEF Command
  <2>6. UNCHANGED <<files, envVars, registered>> /\ Servers' = Servers
    BY <1>2 DEF ChoosePort, envVars, Servers
  <2>7. cmd' \in Command /\ cmd'.what # "none"
    BY <2>2, <2>3, <2>4, <2>5 DEF Command, Starts, Steps, AllPorts
  <2>8. CommandKnows'
    BY <2>1, <2>2, <2>4, <2>5, <2>6 DEF CommandKnows, Quiet, port_used_by_instance, envVars
  <2>. QED
    BY <2>3, <2>6, <2>7, <2>8, CommandGoesOn
<1>3. CASE StartReturns
  BY <1>3, CommandEnds DEF StartReturns, At
<1>. QED
  BY <1>1, <1>2, <1>3

Dir == [dir : BOOLEAN, pid : AllPids, port : AllPorts]

\* The files of a name without servers may change, if its port is nobody else's.
LEMMA QuietFilesChange ==
  ASSUME InstancesInv, NEW n \in Names, Quiet(n), cmd.at # "pidfile", UNCHANGED envVars,
         \A m \in Names \ {n} : files'[m] = files[m],
         files'[n].port # 0 => \A k \in Names \ {n} : files[k].port # files'[n].port
  PROVE  OwnPortAndPidfile' /\ ServersAreNamed' /\ Servers' = Servers
<1>. USE DEF InstancesInv, envVars
<1>1. Servers' = Servers
  BY DEF Servers
<1>2. OwnPort'
  <2>. SUFFICES ASSUME NEW m \in Names, NEW k \in Names, m # k, files'[m].port # 0
                PROVE  files'[m].port # files'[k].port
    BY DEF OwnPort
  <2>1. CASE m = n
    BY <2>1
  <2>2. CASE k = n
    BY <2>2
  <2>3. CASE m # n /\ k # n
    BY <2>3 DEF OwnPortAndPidfile, OwnPort
  <2>. QED
    BY <2>1, <2>2, <2>3
<1>3. OwnPidfile'
  <2>. SUFFICES ASSUME NEW pid \in Servers
                PROVE  /\ files'[procs[pid].of].port = procs[pid].port
                       /\ files'[procs[pid].of].pid = pid
    BY <1>1 DEF OwnPidfile
  <2>1. procs[pid].of \in Names \ {n}
    BY DEF Quiet, ServersAreNamed
  <2>. QED
    BY <2>1 DEF OwnPortAndPidfile, OwnPidfile
<1>. QED
  BY <1>1, <1>2, <1>3 DEF OwnPortAndPidfile, ServersAreNamed

LEMMA NoDirFields ==
  ASSUME NEW f \in Dir
  PROVE  f = NoDir <=> ~ f.dir /\ f.pid = NoPid /\ f.port = 0
<1>1. f = [dir |-> f.dir, pid |-> f.pid, port |-> f.port]
  BY DEF Dir
<1>2. f.dir \in BOOLEAN
  BY DEF Dir
<1>3. ASSUME ~ f.dir, f.pid = NoPid, f.port = 0 PROVE f = NoDir
  <2>1. f.dir = FALSE
    BY <1>2, <1>3
  <2>. QED
    BY <1>1, <1>3, <2>1, Zenon DEF NoDir
<1>4. ASSUME f = NoDir PROVE ~ f.dir /\ f.pid = NoPid /\ f.port = 0
  BY <1>4 DEF NoDir
<1>. QED
  BY <1>3, <1>4

LEMMA PortIsKept ==
  ASSUME InstancesInv, NEW n \in Names, files'[n].port \in {0, files[n].port}
  PROVE  files'[n].port # 0 => \A k \in Names \ {n} : files[k].port # files'[n].port
BY DEF InstancesInv, OwnPortAndPidfile, OwnPort

LEMMA ClaimStep ==
  ASSUME InstancesInv, ClaimPort
  PROVE  InstancesInv'
<1>. DEFINE n == cmd.name
<1>. USE DEF InstancesInv
<1>1. cmd \in Command /\ n \in Names /\ files[n] \in Dir /\ cmd.what \in Starts /\ cmd.at = "claim"
  BY AtWork DEF ClaimPort, At, Dir, Starts
<1>2. /\ cmd.port \in Ports /\ Quiet(n)
      /\ \A k \in Names \ {n} : files[k].port # cmd.port
  BY <1>1 DEF CommandKnows, port_used_by_instance
<1>3. /\ files' \in [Names -> Dir] /\ \A m \in Names \ {n} : files'[m] = files[m]
      /\ files'[n].dir /\ files'[n].pid = files[n].pid /\ files'[n].port = cmd.port
  BY <1>1, <1>2 DEF ClaimPort, TypeOK, Dir, AllPorts
<1>4. cmd' \in Command /\ cmd' = [what |-> cmd.what, name |-> n, at |-> "spawn", pid |-> cmd.pid, port |-> cmd.port]
  BY <1>1 DEF ClaimPort, GoTo, Command, Steps
<1>5. UNCHANGED <<envVars, registered, ended>> /\ cmd'.what # "none"
  BY <1>1, <1>4 DEF ClaimPort, GoTo, Starts
<1>6. OwnPortAndPidfile' /\ ServersAreNamed' /\ Servers' = Servers
  BY <1>1, <1>2, <1>3, <1>5, QuietFilesChange
<1>7. TypeOK' /\ cmd' # NoCommand
  BY <1>3, <1>4, <1>5 DEF TypeOK, Command, Dir, envVars, NoCommand
<1>8. CommandKnows' /\ CommandsDeliver'
  BY <1>1, <1>2, <1>3, <1>4, <1>5, <1>6, <1>7 DEF CommandKnows, CommandsDeliver, Quiet, envVars
<1>. QED
  BY <1>6, <1>7, <1>8

LEMMA StartFailsStep ==
  ASSUME InstancesInv, StartFails
  PROVE  InstancesInv'
<1>. DEFINE n == cmd.name
<1>. USE DEF InstancesInv
<1>1. cmd \in Command /\ n \in Names /\ files[n] \in Dir /\ cmd.what \in Starts /\ cmd.at \in {"start", "claim"}
  BY AtWork DEF StartFails, At, Dir, Starts
<1>2. CASE cmd.at = "start"
  BY <1>2, CommandEnds DEF StartFails
<1>3. CASE cmd.at = "claim"
  <2>1. Quiet(n)
    BY <1>3 DEF CommandKnows
  <2>2. /\ files' \in [Names -> Dir] /\ \A m \in Names \ {n} : files'[m] = files[m]
        /\ files'[n].dir /\ files'[n].port = files[n].port
    <3>1. files' = [files EXCEPT ![n].dir = TRUE]
      BY <1>3 DEF StartFails
    <3>. QED
      BY <1>1, <3>1 DEF TypeOK, Dir
  <2>3. UNCHANGED <<envVars, registered>> /\ cmd' = NoCommand /\ ended' = <<cmd.what, cmd.name, "error">>
    BY DEF StartFails, End
  <2>4. OwnPortAndPidfile' /\ ServersAreNamed' /\ Servers' = Servers
    BY <1>1, <1>3, <2>1, <2>2, <2>3, QuietFilesChange, PortIsKept
  <2>5. TypeOK'
    BY <2>2, <2>3 DEF TypeOK, Dir, envVars, NoCommand, AllPids, AllPorts, Steps
  <2>6. CommandKnows' /\ CommandsDeliver'
    BY <2>3 DEF CommandKnows, CommandsDeliver, NoCommand
  <2>. QED
    BY <2>4, <2>5, <2>6
<1>. QED
  BY <1>1, <1>2, <1>3

LEMMA SpawnStep ==
  ASSUME InstancesInv, Spawn
  PROVE  InstancesInv'
<1>. DEFINE n == cmd.name
<1>. USE DEF InstancesInv
<1>1. cmd \in Command /\ n \in Names /\ cmd.what \in Starts /\ cmd.at = "spawn"
  BY AtWork DEF Spawn, At, Starts
<1>2. cmd.port \in Ports /\ files[n].port = cmd.port /\ files[n].dir /\ Quiet(n)
  BY <1>1 DEF CommandKnows
<1>3. PICK pid \in Pids : /\ procs[pid] = Nothing
                          /\ procs' = [procs EXCEPT ![pid] = Server(n, cmd.port)]
                          /\ cmd' = [cmd EXCEPT !.pid = pid, !.at = "pidfile"]
  BY DEF Spawn
<1>4. cmd' \in Command /\ cmd' = [what |-> cmd.what, name |-> n, at |-> "pidfile", pid |-> pid, port |-> cmd.port]
  BY <1>1, <1>3 DEF Command, Steps, AllPids
<1>5. UNCHANGED <<files, others, registered, ended>> /\ cmd'.what # "none"
  BY <1>1, <1>4 DEF Spawn, Starts
<1>6. Server(n, cmd.port) \in Process
  BY <1>1, <1>2 DEF Server, Process, AllPorts
<1>7. /\ procs' \in [Pids -> Process]
      /\ procs'[pid].of = n /\ procs'[pid].port = cmd.port
      /\ \A q \in Pids \ {pid} : procs'[q] = procs[q]
  BY <1>3, <1>6 DEF TypeOK, Server, Process
<1>8. \A q \in Servers' :
        \/ q = pid /\ procs'[q].of = n /\ procs'[q].port = cmd.port
        \/ q # pid /\ q \in Servers /\ procs'[q].of = procs[q].of /\ procs'[q].port = procs[q].port
  <2>. SUFFICES ASSUME NEW q \in Servers'
                PROVE  \/ q = pid /\ procs'[q].of = n /\ procs'[q].port = cmd.port
                       \/ q # pid /\ q \in Servers /\ procs'[q].of = procs[q].of /\ procs'[q].port = procs[q].port
    OBVIOUS
  <2>1. q \in Pids /\ procs'[q].kind \in {"loading", "listening"}
    BY DEF Servers
  <2>2. CASE q = pid
    BY <2>2, <1>7
  <2>3. CASE q # pid
    BY <2>1, <2>3, <1>7 DEF Servers
  <2>. QED
    BY <2>2, <2>3
<1>9. TypeOK' /\ cmd' # NoCommand
  BY <1>4, <1>5, <1>7 DEF TypeOK, Command, Process, NoCommand
<1>10. ServersAreNamed'
  BY <1>1, <1>2, <1>8 DEF ServersAreNamed
<1>11. CommandKnows' /\ CommandsDeliver'
  <2>1. CommandKnows'
    <3>1. /\ cmd'.at = "pidfile" /\ cmd'.name = n /\ cmd'.pid = pid /\ cmd'.port = cmd.port
          /\ \A q \in Servers' : procs'[q].of = n <=> q = pid
      BY <1>2, <1>4, <1>8 DEF Quiet
    <3>. QED
      BY <1>1, <1>2, <1>5, <3>1 DEF CommandKnows
  <2>2. CommandsDeliver'
    BY <1>9 DEF CommandsDeliver
  <2>. QED
    BY <2>1, <2>2
<1>12. OwnPort'
  BY <1>5 DEF OwnPortAndPidfile, OwnPort
<1>13. OwnPidfile'
  <2>1. ASSUME NEW q \in Servers', q = pid
        PROVE  files[n].port = procs'[q].port /\ procs'[q].of = n /\ cmd'.at = "pidfile" /\ cmd'.pid = q
    BY <1>2, <1>4, <1>8, <2>1
  <2>2. ASSUME NEW q \in Servers', q # pid
        PROVE  files[procs'[q].of].port = procs'[q].port /\ files[procs'[q].of].pid = q
    <3>1. q \in Servers /\ procs'[q].of = procs[q].of /\ procs'[q].port = procs[q].port
      BY <1>8, <2>2
    <3>. QED
      BY <1>1, <3>1 DEF OwnPortAndPidfile, OwnPidfile
  <2>. QED
    BY <1>5, <2>1, <2>2 DEF OwnPidfile
<1>. QED
  BY <1>9, <1>10, <1>11, <1>12, <1>13 DEF OwnPortAndPidfile

LEMMA WritePidStep ==
  ASSUME InstancesInv, WritePid
  PROVE  InstancesInv'
<1>. DEFINE n == cmd.name
<1>. USE DEF InstancesInv
<1>1. cmd \in Command /\ n \in Names /\ files[n] \in Dir /\ cmd.what \in Starts /\ cmd.at = "pidfile"
  BY AtWork DEF WritePid, At, Dir, Starts
<1>2. /\ cmd.pid \in Pids /\ files[n].dir /\ files[n].port = cmd.port
      /\ \A pid \in Servers : procs[pid].of = n <=> pid = cmd.pid
  BY <1>1 DEF CommandKnows
<1>3. /\ files' \in [Names -> Dir] /\ \A m \in Names \ {n} : files'[m] = files[m]
      /\ files'[n].dir /\ files'[n].pid = cmd.pid /\ files'[n].port = files[n].port
  BY <1>1, <1>2 DEF WritePid, TypeOK, Dir, AllPids
<1>4. cmd' \in Command /\ cmd' = [what |-> cmd.what, name |-> n, at |-> "wait", pid |-> cmd.pid, port |-> cmd.port]
  BY <1>1 DEF WritePid, GoTo, Command, Steps
<1>5. UNCHANGED <<envVars, registered, ended>> /\ cmd'.what # "none" /\ Servers' = Servers
  BY <1>1, <1>4 DEF WritePid, GoTo, Starts, Servers, envVars
<1>6. TypeOK' /\ cmd' # NoCommand
  BY <1>3, <1>4, <1>5 DEF TypeOK, Command, Dir, envVars, NoCommand
<1>7. ServersAreNamed' /\ CommandKnows' /\ CommandsDeliver'
  BY <1>1, <1>4, <1>5, <1>6 DEF ServersAreNamed, CommandKnows, CommandsDeliver, envVars
<1>8. OwnPort'
  <2>1. \A m \in Names : files'[m].port = files[m].port
    BY <1>3
  <2>. QED
    BY <2>1 DEF OwnPortAndPidfile, OwnPort
<1>9. OwnPidfile'
  <2>. SUFFICES ASSUME NEW pid \in Servers
                PROVE  /\ files'[procs[pid].of].port = procs[pid].port
                       /\ files'[procs[pid].of].pid = pid
    BY <1>5 DEF OwnPidfile, envVars
  <2>1. CASE procs[pid].of = n
    BY <2>1, <1>1, <1>2, <1>3 DEF OwnPortAndPidfile, OwnPidfile
  <2>2. CASE procs[pid].of # n
    <3>1. pid # cmd.pid
      BY <2>2, <1>2
    <3>. QED
      BY <3>1, <2>2, <1>1, <1>3 DEF OwnPortAndPidfile, OwnPidfile, ServersAreNamed
  <2>. QED
    BY <2>1, <2>2
<1>. QED
  BY <1>6, <1>7, <1>8, <1>9 DEF OwnPortAndPidfile

LEMMA StopStepHolds ==
  ASSUME InstancesInv, StopStep
  PROVE  InstancesInv'
<1>. DEFINE n == cmd.name
<1>. USE DEF InstancesInv
<1>1. /\ cmd \in Command /\ cmd # NoCommand /\ n \in Names /\ files[n] \in Dir
      /\ cmd.what \in Stops /\ cmd.at \in {"stop", "term", "done"}
  BY AtWork DEF StopStep, StopNotRunning, SendTerm, StopReturns, StopDone, At, Dir, Stops
<1>2. AfterStop \in {"done", "start", "delete"} /\ (AfterStop = "done" => cmd.what = "stop")
  BY <1>1 DEF AfterStop, Stops
<1>3. CASE SendTerm
  <2>1. cmd' = [what |-> cmd.what, name |-> n, at |-> "term", pid |-> files[n].pid, port |-> cmd.port]
    BY <1>1, <1>3 DEF SendTerm, Command
  <2>2. files[n].pid \in Pids /\ UNCHANGED <<files, envVars, registered>>
    BY <1>1, <1>3 DEF SendTerm, alive, Dir, AllPids
  <2>3. cmd' \in Command /\ cmd'.what # "none" /\ CommandKnows'
    BY <1>1, <2>1, <2>2 DEF Command, Stops, Steps, Dir, CommandKnows
  <2>. QED
    BY <1>1, <2>2, <2>3, CommandGoesOn
<1>4. CASE StopDone
  BY <1>1, <1>4, CommandEnds DEF StopDone, At
\* What is left of both ways to stop.
<1>5. ASSUME \A pid \in Servers' : procs'[pid].of # n, ServersAreNamed', OwnPortAndPidfile', cmd.at # "pidfile",
             procs' \in [Pids -> Process], UNCHANGED <<others, registered>>, GoTo(AfterStop),
             files' = [files EXCEPT ![n].pid = NoPid]
      PROVE  InstancesInv'
  <2>1. cmd' = [what |-> cmd.what, name |-> n, at |-> AfterStop, pid |-> cmd.pid, port |-> cmd.port]
    BY <1>1, <1>5 DEF GoTo, Command
  <2>2. cmd' \in Command /\ cmd'.what # "none" /\ cmd' # NoCommand
    BY <1>1, <1>2, <2>1 DEF Command, Steps, NoCommand, Stops
  <2>3. files' \in [Names -> Dir] /\ files'[n].pid = NoPid
    BY <1>1, <1>5 DEF TypeOK, Dir, AllPids
  <2>4. \A m \in Names : ~ files'[m].dir => files'[m] = NoDir
    <3>. SUFFICES ASSUME NEW m \in Names, ~ files'[m].dir PROVE files'[m] = NoDir
      OBVIOUS
    <3>1. CASE m # n
      BY <3>1, <1>5 DEF TypeOK
    <3>2. CASE m = n
      <4>1. files'[n] \in Dir /\ files'[n].dir = files[n].dir /\ files'[n].pid = NoPid /\ files'[n].port = files[n].port
        BY <1>1, <1>5, <2>3 DEF TypeOK, Dir
      <4>2. files[n] = NoDir
        BY <1>1, <3>2, <4>1 DEF TypeOK
      <4>. QED
        BY <1>1, <3>2, <4>1, <4>2, NoDirFields
    <3>. QED
      BY <3>1, <3>2
  <2>5. TypeOK'
    BY <1>5, <2>2, <2>3, <2>4 DEF TypeOK, Command, Dir, Process
  <2>6. CommandKnows' /\ CommandsDeliver'
    BY <1>1, <1>2, <1>5, <2>1, <2>2, <2>3 DEF CommandKnows, CommandsDeliver, Quiet
  <2>. QED
    BY <1>5, <2>5, <2>6
<1>6. CASE StopNotRunning
  <2>1. Quiet(n) /\ cmd.at # "pidfile"
    BY <1>1, <1>6, NotAliveIsQuiet DEF StopNotRunning
  <2>2. /\ files' = [files EXCEPT ![n].pid = NoPid] /\ UNCHANGED <<envVars, registered>>
        /\ GoTo(AfterStop)
    BY <1>6 DEF StopNotRunning
  <2>3. /\ \A m \in Names \ {n} : files'[m] = files[m]
        /\ files'[n].port = files[n].port
    BY <1>1, <2>2 DEF TypeOK, Dir
  <2>4. OwnPortAndPidfile' /\ ServersAreNamed' /\ Servers' = Servers
    BY <1>1, <2>1, <2>2, <2>3, QuietFilesChange, PortIsKept
  <2>5. \A pid \in Servers' : procs'[pid].of # n
    BY <2>1, <2>2, <2>4 DEF Quiet, envVars
  <2>6. procs' \in [Pids -> Process]
    BY <2>2 DEF TypeOK, Process, envVars
  <2>. QED
    BY <2>1, <2>2, <2>4, <2>5, <2>6, <1>5 DEF envVars
<1>7. CASE StopReturns
  <2>1. /\ cmd.at = "term" /\ cmd.pid \in Pids /\ files[n].pid = cmd.pid
        /\ procs' = [procs EXCEPT ![cmd.pid] = Nothing] /\ GoTo(AfterStop)
        /\ files' = [files EXCEPT ![n].pid = NoPid] /\ UNCHANGED <<others, registered>>
    BY <1>7 DEF StopReturns, KillTheRest, At, CommandKnows
  <2>2. procs' \in [Pids -> Process]
    BY <2>1 DEF TypeOK, Process, Nothing, AllPorts
  <2>3. \A pid \in Servers' : pid \in Servers /\ pid # cmd.pid /\ procs'[pid] = procs[pid]
    BY <2>1 DEF TypeOK, Servers, Nothing
  <2>4. \A pid \in Servers' : procs'[pid].of \in Names \ {n}
    <3>. SUFFICES ASSUME NEW pid \in Servers' PROVE procs[pid].of \in Names \ {n}
      BY <2>3
    <3>1. procs[pid].of \in Names /\ files[procs[pid].of].pid = pid
      BY <2>1, <2>3 DEF OwnPortAndPidfile, OwnPidfile, ServersAreNamed
    <3>. QED
      BY <2>1, <2>3, <3>1
  <2>5. /\ \A m \in Names \ {n} : files'[m] = files[m]
        /\ files'[n].port = files[n].port
    BY <1>1, <2>1 DEF TypeOK, Dir
  <2>6. ServersAreNamed'
    BY <2>3 DEF ServersAreNamed
  <2>7. OwnPort'
    <3>1. \A m \in Names : files'[m].port = files[m].port
      BY <2>5
    <3>. QED
      BY <3>1 DEF OwnPortAndPidfile, OwnPort
  <2>8. OwnPidfile'
    <3>. SUFFICES ASSUME NEW pid \in Servers'
                  PROVE  /\ files'[procs'[pid].of].port = procs'[pid].port
                         /\ files'[procs'[pid].of].pid = pid
      BY DEF OwnPidfile
    <3>1. files[procs[pid].of].port = procs[pid].port /\ files[procs[pid].of].pid = pid
      BY <2>1, <2>3 DEF OwnPortAndPidfile, OwnPidfile
    <3>. QED
      BY <2>3, <2>4, <2>5, <3>1
  <2>. QED
    BY <2>1, <2>2, <2>4, <2>6, <2>7, <2>8, <1>5 DEF OwnPortAndPidfile
<1>. QED
  BY <1>3, <1>4, <1>6, <1>7 DEF StopStep

LEMMA RemoveStepHolds ==
  ASSUME InstancesInv, RemoveStep
  PROVE  InstancesInv'
<1>. DEFINE n == cmd.name
<1>. USE DEF InstancesInv
<1>1. /\ cmd \in Command /\ cmd # NoCommand /\ n \in Names /\ files[n] \in Dir
      /\ cmd.what = "remove" /\ cmd.at \in {"check", "delete"}
  BY AtWork DEF RemoveStep, SkipRemove, RemoveStopped, RemoveRunning, Delete, At, Dir
<1>2. CASE SkipRemove
  BY <1>1, <1>2, CommandEnds DEF SkipRemove
<1>3. CASE RemoveStopped
  <2>1. cmd' = [what |-> cmd.what, name |-> n, at |-> "delete", pid |-> cmd.pid, port |-> cmd.port]
    BY <1>1, <1>3 DEF RemoveStopped, GoTo, Command
  <2>2. Quiet(n) /\ UNCHANGED <<files, envVars, registered>> /\ Servers' = Servers
    BY <1>1, <1>3, NotAliveIsQuiet DEF RemoveStopped, envVars, Servers
  <2>3. cmd' \in Command /\ cmd'.what # "none" /\ CommandKnows'
    BY <1>1, <2>1, <2>2 DEF Command, Steps, CommandKnows, Quiet, envVars
  <2>. QED
    BY <1>1, <2>2, <2>3, CommandGoesOn
<1>4. CASE RemoveRunning
  <2>1. cmd' = [what |-> cmd.what, name |-> n, at |-> "stop", pid |-> cmd.pid, port |-> cmd.port]
    BY <1>1, <1>4 DEF RemoveRunning, GoTo, Command
  <2>2. cmd' \in Command /\ cmd'.what # "none" /\ CommandKnows'
    BY <1>1, <2>1 DEF Command, Steps, CommandKnows
  <2>. QED
    BY <1>1, <1>4, <2>2, CommandGoesOn DEF RemoveRunning
<1>5. ASSUME NEW purge \in BOOLEAN, NEW keepLogs \in BOOLEAN, Delete(purge, keepLogs) PROVE InstancesInv'
  <2>1. Quiet(n) /\ cmd.at = "delete"
    BY <1>5 DEF Delete, At, CommandKnows
  <2>2. /\ files' = [files EXCEPT ![n] = [NoDir EXCEPT !.dir = keepLogs]]
        /\ cmd' = NoCommand /\ ended' = <<cmd.what, n, "ok">> /\ UNCHANGED envVars
    BY <1>5, Zenon DEF Delete, End
  <2>3. registered' \in [Names -> AllPorts]
    BY <1>1, <1>5 DEF Delete, TypeOK, AllPorts
  <2>4. /\ files' \in [Names -> Dir] /\ \A m \in Names \ {n} : files'[m] = files[m]
        /\ files'[n].dir = keepLogs /\ files'[n].pid = NoPid /\ files'[n].port = 0
    BY <1>1, <2>2 DEF TypeOK, Dir, NoDir, AllPids, AllPorts
  <2>5. \A m \in Names : ~ files'[m].dir => files'[m] = NoDir
    BY <1>1, <2>4, NoDirFields DEF TypeOK
  <2>6. OwnPortAndPidfile' /\ ServersAreNamed' /\ Servers' = Servers
    BY <1>1, <2>1, <2>2, <2>4, QuietFilesChange, PortIsKept
  <2>7. TypeOK'
    BY <2>2, <2>3, <2>4, <2>5 DEF TypeOK, Dir, envVars, NoCommand, AllPids, AllPorts, Steps
  <2>8. CommandKnows'
    BY <2>2 DEF CommandKnows, NoCommand
  <2>9. CommandsDeliver'
    BY <1>1, <2>1, <2>2, <2>4, <2>6 DEF CommandsDeliver, Quiet, envVars
  <2>. QED
    BY <2>6, <2>7, <2>8, <2>9
<1>. QED
  BY <1>2, <1>3, <1>4, <1>5 DEF RemoveStep

LEMMA RegisterStepHolds ==
  ASSUME InstancesInv, Register \/ Unregister
  PROVE  InstancesInv'
<1>. DEFINE n == cmd.name
<1>. USE DEF InstancesInv
<1>1. n \in Names /\ cmd.what \in {"register", "unregister"} /\ cmd.at \in {"add", "drop"}
  BY AtWork DEF Register, Unregister, At
<1>2. UNCHANGED <<files, envVars>> /\ cmd' = NoCommand /\ Servers' = Servers
  BY DEF Register, Unregister, End, envVars, Servers
<1>3. TypeOK'
  <2>1. registered' \in [Names -> AllPorts]
    BY <1>1 DEF Register, Unregister, TypeOK, AllPorts
  <2>. QED
    BY <1>2, <2>1 DEF TypeOK, envVars, NoCommand, AllPids, AllPorts, Steps
<1>4. ServersAreNamed' /\ CommandKnows' /\ OwnPortAndPidfile'
  BY <1>1, <1>2 DEF ServersAreNamed, CommandKnows, NoCommand, OwnPortAndPidfile, OwnPort, OwnPidfile, envVars
<1>5. CommandsDeliver'
  <2>1. ASSUME Register, files[n].port # 0, registered' = [registered EXCEPT ![n] = files[n].port], End("ok")
        PROVE  CommandsDeliver'
    <3>1. ended'[1] = "register" /\ ended'[2] = n
      BY <2>1 DEF Register, End, At
    <3>2. registered'[n] = files[n].port
      BY <1>1, <2>1 DEF TypeOK
    <3>3. \A pid \in Servers : procs[pid].of = n => procs[pid].port = files[n].port
      BY DEF OwnPortAndPidfile, OwnPidfile
    <3>. QED
      BY <1>2, <3>1, <3>2, <3>3 DEF CommandsDeliver, envVars
  <2>2. CASE End("error")
    <3>1. ended'[3] = "error"
      BY <2>2 DEF End
    <3>. QED
      BY <3>1 DEF CommandsDeliver
  <2>3. CASE Unregister
    <3>1. ended'[1] = "unregister"
      BY <2>3 DEF Unregister, End, At
    <3>. QED
      BY <3>1 DEF CommandsDeliver
  <2>. QED
    BY <2>1, <2>2, <2>3 DEF Register
<1>. QED
  BY <1>3, <1>4, <1>5

(***************************************************************************)
(* The theorems                                                            *)
(***************************************************************************)
\* The parts of InstancesInv hold together in every reachable state.
THEOREM InstancesInvariant == Spec => []InstancesInv
<1>1. ASSUME InstancesInv, [Next]_vars PROVE InstancesInv'
  <2>1. ASSUME NEW n \in Names, NEW what \in Commands,
               NEW step \in {"start", "stop", "check", "add", "drop"}, Invoke(what, n, step)
        PROVE  InstancesInv'
    BY <1>1, <2>1, InvokeStep
  <2>2. CASE StartStep
    BY <1>1, <2>2, StartDecides, ClaimStep, StartFailsStep, SpawnStep, WritePidStep DEF StartStep
  <2>3. CASE StopStep \/ RemoveStep \/ Register \/ Unregister
    BY <1>1, <2>3, StopStepHolds, RemoveStepHolds, RegisterStepHolds
  <2>4. CASE Reboot \/ Interrupt
    BY <1>1, <2>4, CommandDies
  <2>5. CASE \/ \E pid \in Pids : Bind(pid) \/ Exit(pid) \/ TakePid(pid)
             \/ \E p \in Ports : TakePort(p) \/ LeavePort(p)
             \/ UNCHANGED vars
    BY <1>1, <2>5, MachineMoves, MachineKeeps
  <2>. QED
    BY <1>1, <2>1, <2>2, <2>3, <2>4, <2>5 DEF Next, Commands
<1>. QED
  BY InitHolds, <1>1, PTL DEF Spec

\* The state of the commands, the files and the machine is well typed.
THEOREM InstancesTypeCorrect == Spec => []TypeOK
BY InstancesInvariant, PTL DEF InstancesInv

\* Each named instance keeps its own port and a pid file that finds its server,
\* for any number of instances, ports and process ids.
THEOREM OwnPortAndPidfileSafe == Spec => []OwnPortAndPidfile
BY InstancesInvariant, PTL DEF InstancesInv

\* What a command said it did holds when it has ended, whatever servers,
\* strangers and reboots did meanwhile.
THEOREM CommandsDeliverSafe == Spec => []CommandsDeliver
BY InstancesInvariant, PTL DEF InstancesInv
=============================================================================
