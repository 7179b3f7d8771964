------------------------------ MODULE Instances ------------------------------
(***************************************************************************)
(* Several cks-mcp servers on one machine, managed by name: start, stop,   *)
(* restart, remove and register read and write the state directory of an   *)
(* instance, while the processes they are about load, bind their port and  *)
(* die on their own, other programs take ports and process ids, and the    *)
(* machine may go down. Source: scripts/cks-mcpd.sh.                       *)
(*                                                                         *)
(* Commands run one after the other (nothing enforces it), so --all and    *)
(* --stale are the command for each name in turn. Of the options of start  *)
(* the port is kept. list, status and logs change nothing.                 *)
(***************************************************************************)
EXTENDS Naturals, FiniteSets

CONSTANTS
  Names,       \* instance names
  Ports,       \* PORT_BASE..PORT_MAX
  Pids, NoPid, \* process ids the system hands out, and hands out again
  OthersAtMost \* bound: ports that other programs listen on at once

ASSUME InstancesConfig ==
  /\ Names # {} /\ "" \notin Names
  /\ Ports \subseteq Nat \ {0} /\ NoPid \notin Pids
  /\ OthersAtMost \in Nat

VARIABLES
  files,       \* per name its directory: is it there, its pid file, its port file
  procs,       \* per process id what runs under it
  others,      \* ports other programs listen on
  registered,  \* per name the port in Claude Code's URL, 0 when there is none
  cmd,         \* the command at work
  ended        \* the last command and how it ended

envVars == <<procs, others>>
vars == <<files, envVars, registered, cmd, ended>>

NoDir == [dir |-> FALSE, pid |-> NoPid, port |-> 0]
Nothing == [of |-> "", kind |-> "none", port |-> 0]
Stranger == [Nothing EXCEPT !.kind = "other"]
Server(n, p) == [of |-> n, kind |-> "loading", port |-> p]
Servers == {pid \in Pids : procs[pid].kind \in {"loading", "listening"}}

NoCommand == [what |-> "none", name |-> "", at |-> "idle", pid |-> NoPid, port |-> 0]

Init ==
  /\ files = [n \in Names |-> NoDir] /\ registered = [n \in Names |-> 0]
  /\ procs = [p \in Pids |-> Nothing] /\ others = {}
  /\ cmd = NoCommand /\ ended = <<"none", "", "ok">>

\* kill -0 of the pid in the file: some process has it.
alive(n) == files[n].pid # NoPid /\ procs[files[n].pid] # Nothing

port_open(p) == p \in others \/ \E pid \in Pids : procs[pid].kind = "listening" /\ procs[pid].port = p

\* Fault: only an instance that is running claims its port.
claimedIfAlive(p) == {n \in Names : files[n].port = p /\ alive(n)}

\* A stopped instance keeps its claim.
port_used_by_instance(p) == {n \in Names : files[n].port = p}

(***************************************************************************)
(* Commands                                                                *)
(***************************************************************************)
At(what, step) == cmd.what \in what /\ cmd.at = step
GoTo(step) == cmd' = [cmd EXCEPT !.at = step] /\ UNCHANGED ended
End(how) == cmd' = NoCommand /\ ended' = <<cmd.what, cmd.name, how>>
Starts == {"start", "restart"}
Stops == {"stop", "restart", "remove"}

Invoke(what, n, step) ==
  /\ cmd = NoCommand
  /\ cmd' = [NoCommand EXCEPT !.what = what, !.name = n, !.at = step]
  /\ ended' = <<"none", "", "ok">>
  /\ UNCHANGED <<files, envVars, registered>>

FreePorts == {p \in Ports : port_used_by_instance(p) = {} /\ ~ port_open(p)}

\* Fault: the search runs past PORT_MAX.
pickPastEnd == {p \in Ports \union {Cardinality(Ports) + 1} : p \in FreePorts \/ FreePorts = {}}

\* The first free port, which is never the one the instance had.
pick_port == {p \in FreePorts : \A q \in FreePorts : p <= q}

AlreadyRunning ==
  /\ At(Starts, "start") /\ alive(cmd.name)
  /\ End("already running")
  /\ UNCHANGED <<files, envVars, registered>>

\* restart passes no options on.
ChoosePort ==
  /\ At(Starts, "start") /\ ~ alive(cmd.name)
  /\ \E p \in pick_port \union (IF cmd.what = "start" THEN Ports ELSE {}) :
       /\ port_used_by_instance(p) \subseteq {cmd.name} /\ ~ port_open(p)
       /\ cmd' = [cmd EXCEPT !.port = p, !.at = "claim"]
  /\ UNCHANGED <<files, envVars, registered, ended>>

\* The directory is made, the configuration rendered, the port written.
ClaimPort ==
  /\ At(Starts, "claim")
  /\ files' = [files EXCEPT ![cmd.name].dir = TRUE, ![cmd.name].port = cmd.port]
  /\ GoTo("spawn")
  /\ UNCHANGED <<envVars, registered>>

\* No port is free, the port is claimed or open, the base configuration is not there.
StartFails ==
  /\ At(Starts, "start") \/ At(Starts, "claim")
  /\ cmd.at = "start" => ~ alive(cmd.name)
  /\ \/ cmd.at = "claim" /\ files' = [files EXCEPT ![cmd.name].dir = TRUE]
     \/ cmd.at = "start" /\ UNCHANGED files
  /\ End("error")
  /\ UNCHANGED <<envVars, registered>>

Spawn ==
  /\ At(Starts, "spawn")
  /\ \E pid \in Pids :
       /\ procs[pid] = Nothing
       /\ procs' = [procs EXCEPT ![pid] = Server(cmd.name, cmd.port)]
       /\ cmd' = [cmd EXCEPT !.pid = pid, !.at = "pidfile"]
  /\ UNCHANGED <<files, others, registered, ended>>

WritePid ==
  /\ At(Starts, "pidfile")
  /\ files' = [files EXCEPT ![cmd.name].pid = cmd.pid]
  /\ GoTo("wait")
  /\ UNCHANGED <<envVars, registered>>

\* Early exit, an open port, or the end of the patience.
StartReturns ==
  /\ At(Starts, "wait")
  /\ IF ~ alive(cmd.name) THEN End("error")
     ELSE IF port_open(cmd.port) THEN End("up") ELSE End("not accepting")
  /\ UNCHANGED <<files, envVars, registered>>

\* cmd_stop, of which restart and remove --force are callers; what they do next.
AfterStop == CASE cmd.what = "stop" -> "done" [] cmd.what = "restart" -> "start" [] OTHER -> "delete"

\* A stop with nothing to stop removes the pid file all the same.
StopNotRunning ==
  /\ At(Stops, "stop") /\ ~ alive(cmd.name)
  /\ files' = [files EXCEPT ![cmd.name].pid = NoPid]
  /\ GoTo(AfterStop)
  /\ UNCHANGED <<envVars, registered>>

\* The signal asks the process to end; it may take its time (Exit).
SendTerm ==
  /\ At(Stops, "stop") /\ alive(cmd.name)
  /\ cmd' = [cmd EXCEPT !.pid = files[cmd.name].pid, !.at = "term"]
  /\ UNCHANGED <<files, envVars, registered, ended>>

\* Fault: the process is not killed when it takes too long.
TermOnly == UNCHANGED procs

\* The wait is over: the process has gone, or its time is up and it is killed.
KillTheRest == procs' = [procs EXCEPT ![cmd.pid] = Nothing]

StopReturns ==
  /\ At(Stops, "term")
  /\ KillTheRest
  /\ files' = [files EXCEPT ![cmd.name].pid = NoPid]
  /\ GoTo(AfterStop)
  /\ UNCHANGED <<others, registered>>

StopDone ==
  /\ At({"stop"}, "done") /\ End("ok")
  /\ UNCHANGED <<files, envVars, registered>>

\* _remove_one: nothing to remove, or running and not to be forced.
SkipRemove ==
  /\ At({"remove"}, "check")
  /\ ~ files[cmd.name].dir \/ alive(cmd.name)
  /\ End("skipped")
  /\ UNCHANGED <<files, envVars, registered>>

RemoveStopped ==
  /\ At({"remove"}, "check") /\ files[cmd.name].dir /\ ~ alive(cmd.name)
  /\ GoTo("delete")
  /\ UNCHANGED <<files, envVars, registered>>

\* --force
RemoveRunning ==
  /\ At({"remove"}, "check") /\ files[cmd.name].dir /\ alive(cmd.name)
  /\ GoTo("stop")
  /\ UNCHANGED <<files, envVars, registered>>

\* --purge before the files; --keep-logs leaves the directory. Unregistering may fail.
Delete(purge, keepLogs) ==
  /\ At({"remove"}, "delete")
  /\ registered' \in {registered, IF purge THEN [registered EXCEPT ![cmd.name] = 0] ELSE registered}
  /\ files' = [files EXCEPT ![cmd.name] = [NoDir EXCEPT !.dir = keepLogs]]
  /\ End("ok")
  /\ UNCHANGED envVars

\* claude mcp remove, then claude mcp add, which may fail.
Register ==
  /\ At({"register"}, "add")
  /\ \/ /\ files[cmd.name].port = 0
        /\ UNCHANGED registered /\ End("error")
     \/ /\ files[cmd.name].port # 0
        /\ \/ registered' = [registered EXCEPT ![cmd.name] = files[cmd.name].port] /\ End("ok")
           \/ registered' = [registered EXCEPT ![cmd.name] = 0] /\ End("error")
  /\ UNCHANGED <<files, envVars>>

Unregister ==
  /\ At({"unregister"}, "drop")
  /\ registered' = [registered EXCEPT ![cmd.name] = 0]
  /\ End("ok")
  /\ UNCHANGED <<files, envVars>>

(***************************************************************************)
(* The processes and the machine                                           *)
(***************************************************************************)
\* A server binds its port when its backends are open; a taken port ends it.
Bind(pid) ==
  /\ procs[pid].kind = "loading"
  /\ procs' = [procs EXCEPT ![pid] =
                 IF port_open(procs[pid].port) THEN Nothing ELSE [@ EXCEPT !.kind = "listening"]]
  /\ UNCHANGED <<files, others, registered, cmd, ended>>

\* Of its own accord, by a signal or a crash.
Exit(pid) ==
  /\ procs[pid] # Nothing
  /\ procs' = [procs EXCEPT ![pid] = Nothing]
  /\ UNCHANGED <<files, others, registered, cmd, ended>>

TakePid(pid) ==
  /\ procs[pid] = Nothing
  /\ procs' = [procs EXCEPT ![pid] = Stranger]
  /\ UNCHANGED <<files, others, registered, cmd, ended>>

TakePort(p) ==
  /\ ~ port_open(p) /\ Cardinality(others) < OthersAtMost
  /\ others' = others \union {p}
  /\ UNCHANGED <<files, procs, registered, cmd, ended>>

LeavePort(p) ==
  /\ p \in others /\ others' = others \ {p}
  /\ UNCHANGED <<files, procs, registered, cmd, ended>>

\* The operator has waited long enough.
Interrupt ==
  /\ cmd.at \in {"wait", "term"} /\ End("interrupted")
  /\ UNCHANGED <<files, envVars, registered>>

\* Processes and the command at work are gone, files stay.
Reboot ==
  /\ procs' = [pid \in Pids |-> Nothing] /\ others' = {}
  /\ cmd' = NoCommand /\ ended' = <<"none", "", "ok">>
  /\ UNCHANGED <<files, registered>>

StartStep == AlreadyRunning \/ ChoosePort \/ ClaimPort \/ StartFails \/ Spawn \/ WritePid \/ StartReturns
StopStep == StopNotRunning \/ SendTerm \/ StopReturns \/ StopDone
RemoveStep ==
  \/ SkipRemove \/ RemoveStopped \/ RemoveRunning
  \/ \E purge, keepLogs \in BOOLEAN : Delete(purge, keepLogs)

Next ==
  \/ \E n \in Names :
       \/ Invoke("start", n, "start") \/ Invoke("stop", n, "stop") \/ Invoke("restart", n, "stop")
       \/ Invoke("remove", n, "check") \/ Invoke("register", n, "add") \/ Invoke("unregister", n, "drop")
  \/ StartStep \/ StopStep \/ RemoveStep \/ Register \/ Unregister \/ Interrupt
  \/ \E pid \in Pids : Bind(pid) \/ Exit(pid) \/ TakePid(pid)
  \/ \E p \in Ports : TakePort(p) \/ LeavePort(p)
  \/ Reboot

Spec == Init /\ [][Next]_vars

(***************************************************************************)
(* Properties                                                              *)
(***************************************************************************)
Commands == {"start", "stop", "restart", "remove", "register", "unregister"}
Steps == {"idle", "start", "claim", "spawn", "pidfile", "wait", "stop", "term", "done",
          "check", "delete", "add", "drop"}
AllPids == Pids \union {NoPid}
AllPorts == Ports \union {0}

\* Types; a command that has been given up has left nothing at work.
TypeOK ==
  /\ files \in [Names -> [dir : BOOLEAN, pid : AllPids, port : AllPorts]]
  /\ procs \in [Pids -> [of : Names \union {""}, kind : {"none", "other", "loading", "listening"}, port : AllPorts]]
  /\ others \subseteq Ports /\ registered \in [Names -> AllPorts]
  /\ cmd \in [what : Commands \union {"none"}, name : Names \union {""}, at : Steps, pid : AllPids, port : AllPorts]
  /\ cmd.what = "none" <=> cmd = NoCommand
  /\ \A n \in Names : ~ files[n].dir => files[n] = NoDir

\* No two names claim one port.
OwnPort == \A m, n \in Names : m # n /\ files[m].port # 0 => files[m].port # files[n].port

\* Every server is the one its instance's files tell of, but for the moment
\* between the start of the process and the write of its pid file.
OwnPidfile ==
  \A pid \in Servers :
    /\ files[procs[pid].of].port = procs[pid].port
    /\ files[procs[pid].of].pid = pid \/ (cmd.at = "pidfile" /\ cmd.pid = pid)

\* "each named instance gets its own port, derived config, pidfile": no two names
\* ever claim one port, running or stopped, and every server is the one its
\* instance's files tell of, so that it can be found, stopped and reached, though
\* pid files outlive their processes and process ids come back under other names.
OwnPortAndPidfile == OwnPort /\ OwnPidfile

\* What a command said it did holds when it has ended: a stopped or removed
\* instance has no server, a removed one no claim, and a registered name is the
\* URL its server is or will be at.
CommandsDeliver ==
  LET n == ended[2] IN
  cmd = NoCommand /\ ended[3] = "ok" /\ ended[1] # "none" =>
    /\ ended[1] \in {"stop", "remove"} =>
         files[n].pid = NoPid /\ \A pid \in Servers : procs[pid].of # n
    /\ ended[1] = "remove" => files[n].port = 0
    /\ ended[1] = "register" => \A pid \in Servers : procs[pid].of = n => procs[pid].port = registered[n]
=============================================================================
