------------------------------- MODULE Dataset -------------------------------
(***************************************************************************)
(* The life of a dataset family: the reindex pipeline that builds, gates   *)
(* and promotes version directories under a lock, operators who promote    *)
(* and clean up by hand, server instances that resolve the current pointer *)
(* once at startup, open what they found and assert its alignment, and     *)
(* ops.index, which rebuilds the indexes of a running instance.            *)
(* Sources: scripts/reindex-dataset.sh, cmd/cks-mcp/main.go,               *)
(* internal/mcp/alignment.go, ops_index.go.                                *)
(*                                                                         *)
(* A build is deterministic, so a commit stands for the graph and for the  *)
(* digest built from it, and names the version directory. The checkout a   *)
(* pipeline builds from does not move while it runs. A staging directory   *)
(* is named by the process id of its run, which a later run may have again.*)
(***************************************************************************)
EXTENDS FiniteSets

CONSTANTS
  Commits,       \* commits of the source tree
  Builds,        \* processes running the pipeline
  Strays,        \* further directories of the family, which no run made
  Instances,     \* cks-mcp processes
  IndexEnabled   \* index binaries are configured, so ops.index runs

None == "none"
Dead == "dead"
Pointer == "current"

ASSUME DatasetConfig ==
  /\ IndexEnabled \in BOOLEAN
  /\ {None, Dead, Pointer} \intersect (Commits \union Builds \union Strays) = {}
  /\ Commits \intersect Builds = {} /\ Commits \intersect Strays = {} /\ Builds \intersect Strays = {}

VARIABLES
  versions,   \* per directory: does it exist, is .building in it, its complete indexes
  current,    \* the directory <family>@current points to
  lock,       \* who made the lock directory; Dead when that process was killed
  step,       \* per pipeline process: the step it is at
  commit,     \* per pipeline process: its COMMIT
  serving,    \* per instance: how far it is
  graphPath, vectorPath,  \* per instance: the directory a dataset path names, or Pointer
  graph, vectors,         \* per instance: the indexes it opened
  report,     \* per instance: what the alignment report says
  indexing,   \* per instance: an ops.index call is between its two sub-actions
  refreshed   \* auxiliary: directories an ops.index call has rewritten or may be rewriting

pathVars == <<graphPath, vectorPath>>
openVars == <<graph, vectors>>
pipelineVars == <<lock, step, commit>>
instanceVars == <<serving, pathVars, openVars, report, indexing, refreshed>>
vars == <<versions, current, pipelineVars, instanceVars>>

Staging(b) == b
Dirs == Commits \union {Staging(b) : b \in Builds} \union Strays

\* Fault: a version record without a place for its vectors.
AbsentWithoutVector == [exists |-> FALSE, building |-> FALSE, graph |-> None]

Absent == [exists |-> FALSE, building |-> FALSE, graph |-> None, vector |-> None]

\* What a directory holds that no run has made: anything but a sentinel.
Stray == [exists : {TRUE}, building : {FALSE}, graph : Commits \union {None}, vector : Commits \union {None}]

Init ==
  /\ \E found \in [Strays -> Stray] :
       versions = [d \in Dirs |-> IF d \in Strays THEN found[d] ELSE Absent]
  /\ current = None /\ lock = None
  /\ step = [b \in Builds |-> "exited"] /\ commit = [b \in Builds |-> None]
  /\ serving = [i \in Instances |-> "down"]
  /\ graphPath = [i \in Instances |-> None] /\ vectorPath = [i \in Instances |-> None]
  /\ graph = [i \in Instances |-> None] /\ vectors = [i \in Instances |-> None]
  /\ report = [i \in Instances |-> None] /\ indexing = [i \in Instances |-> FALSE]
  /\ refreshed = {}

(***************************************************************************)
(* reindex-dataset.sh run                                                  *)
(***************************************************************************)
Running(b) == step[b] # "exited"
GoTo(b, s) == step' = [step EXCEPT ![b] = s]

\* COMMIT is read before the lock is taken.
Invoke(b, c) ==
  /\ ~Running(b)
  /\ commit' = [commit EXCEPT ![b] = c]
  /\ GoTo(b, "lock")
  /\ UNCHANGED <<versions, current, lock, instanceVars>>

AcquireLock(b) ==
  /\ step[b] = "lock" /\ lock = None
  /\ lock' = b
  /\ GoTo(b, "mkdir")
  /\ UNCHANGED <<versions, current, commit, instanceVars>>

\* The process ends.
End(b) == GoTo(b, "exited") /\ commit' = [commit EXCEPT ![b] = None]

\* Fault: the trap is set before mkdir, so that the loser removes the winner's lock.
LockBusyReleases(b) ==
  /\ step[b] = "lock" /\ lock # None
  /\ End(b) /\ lock' = None
  /\ UNCHANGED <<versions, current, instanceVars>>

\* The EXIT trap is not set yet: the lock of the other build stays.
LockBusy(b) ==
  /\ step[b] = "lock" /\ lock # None
  /\ End(b)
  /\ UNCHANGED <<versions, current, lock, instanceVars>>

\* The EXIT trap removes the lock directory.
Exit(b) == End(b) /\ lock' = None

\* The staging directory may be there from an earlier run of the same process id,
\* and mkdir -p leaves what is in it.
MakeStaging(b) ==
  /\ step[b] = "mkdir"
  /\ versions' = [versions EXCEPT ![Staging(b)].exists = TRUE]
  /\ GoTo(b, "touch")
  /\ UNCHANGED <<current, lock, commit, instanceVars>>

TouchSentinel(b) ==
  /\ step[b] = "touch"
  /\ versions' = [versions EXCEPT ![Staging(b)].building = TRUE]
  /\ GoTo(b, "ckg")
  /\ UNCHANGED <<current, lock, commit, instanceVars>>

BuildGraph(b) ==
  /\ step[b] = "ckg"
  /\ versions' = [versions EXCEPT ![Staging(b)].graph = commit[b]]
  /\ GoTo(b, "mv")
  /\ UNCHANGED <<current, lock, commit, instanceVars>>

\* The staging directory gets its version name, unless that is taken.
PlaceVersion(b) ==
  /\ step[b] = "mv" /\ ~versions[commit[b]].exists
  /\ versions' = [versions EXCEPT ![commit[b]] = versions[Staging(b)], ![Staging(b)] = Absent]
  /\ GoTo(b, "ckv")
  /\ UNCHANGED <<current, lock, commit, instanceVars>>

BuildVectors(b) ==
  /\ step[b] = "ckv"
  /\ versions' = [versions EXCEPT ![commit[b]].vector = commit[b]]
  /\ GoTo(b, "gate")
  /\ UNCHANGED <<current, lock, commit, instanceVars>>

\* run_gate: both indexes are there and were built from one commit.
GateHolds(v) == v.graph # None /\ v.vector # None /\ v.graph = v.vector

PassGate(b) ==
  /\ step[b] = "gate" /\ GateHolds(versions[commit[b]])
  /\ versions' = [versions EXCEPT ![commit[b]].building = FALSE]
  /\ GoTo(b, "promote")
  /\ UNCHANGED <<current, lock, commit, instanceVars>>

\* Fault: the .building sentinel is not looked at.
PromotableAnyway(v) == v.exists

\* do_promote
Promotable(v) == v.exists /\ ~v.building

Promote(b) ==
  /\ step[b] = "promote" /\ Promotable(versions[commit[b]])
  /\ current' = commit[b]
  /\ GoTo(b, "restart")
  /\ UNCHANGED <<versions, lock, commit, instanceVars>>

\* RESTART=1 restarts a server (Stop, then a new start) under the lock; with
\* or without it the run ends here.
Restart(b) ==
  /\ step[b] = "restart"
  /\ Exit(b)
  /\ UNCHANGED <<versions, current, instanceVars>>

\* Any command of the run may fail, and the script dies: a builder, a check of
\* the gate, the version directory that already exists. What was built stays.
BuildFails(b) ==
  /\ step[b] \in {"mkdir", "touch", "ckg", "mv", "ckv", "gate", "promote"}
  /\ Exit(b)
  /\ UNCHANGED <<versions, current, instanceVars>>

\* No trap runs.
Kill(b) ==
  /\ Running(b)
  /\ End(b)
  /\ lock' = IF lock = b THEN Dead ELSE lock
  /\ UNCHANGED <<versions, current, instanceVars>>

(***************************************************************************)
(* The operator                                                            *)
(***************************************************************************)
\* "remove it only if that build is dead"
RemoveLock ==
  /\ lock = Dead
  /\ lock' = None
  /\ UNCHANGED <<versions, current, step, commit, instanceVars>>

\* reindex-dataset.sh promote: a rollback, a version gated earlier, or any other
\* directory of the family without a sentinel. It takes no lock.
PromoteByHand(d) ==
  /\ Promotable(versions[d])
  /\ current' = d
  /\ UNCHANGED <<versions, pipelineVars, instanceVars>>

\* Fault: complete versions are cleaned up as well.
CleanUpAny(d) ==
  /\ versions[d].exists /\ d # current
  /\ lock = None
  /\ versions' = [versions EXCEPT ![d] = Absent]
  /\ UNCHANGED <<current, pipelineVars, instanceVars>>

\* The residue of a failed or killed run is removed when no run is using it.
CleanUp(d) ==
  /\ versions[d].exists
  /\ versions[d].building \/ d \in {Staging(b) : b \in Builds}
  /\ lock = None
  /\ versions' = [versions EXCEPT ![d] = Absent]
  /\ UNCHANGED <<current, pipelineVars, instanceVars>>

(***************************************************************************)
(* cks-mcp                                                                 *)
(***************************************************************************)
\* The directory a dataset path leads to at the moment.
Target(path) == IF path = Pointer THEN current ELSE path

Leads(path) == Target(path) # None /\ versions[Target(path)].exists

\* EvalSymlinks of <family>@current/<index>. Where the index is not there it
\* fails, and the path stays as it is configured, through the pointer.
Resolutions(present) ==
  (IF Leads(Pointer) THEN {current} ELSE {}) \union (IF Leads(Pointer) /\ present THEN {} ELSE {Pointer})

\* resolveDatasetPaths: two EvalSymlinks calls, one after the other.
ResolveGraph(i) ==
  /\ serving[i] = "down"
  /\ \E path \in Resolutions(Leads(Pointer) /\ versions[current].graph # None) :
       graphPath' = [graphPath EXCEPT ![i] = path]
  /\ serving' = [serving EXCEPT ![i] = "resolving"]
  /\ UNCHANGED <<versions, current, pipelineVars, vectorPath, openVars, report, indexing, refreshed>>

ResolveVectors(i) ==
  /\ serving[i] = "resolving"
  /\ \E path \in Resolutions(Leads(Pointer) /\ versions[current].vector # None) :
       vectorPath' = [vectorPath EXCEPT ![i] = path]
  /\ serving' = [serving EXCEPT ![i] = "resolved"]
  /\ UNCHANGED <<versions, current, pipelineVars, graphPath, openVars, report, indexing, refreshed>>

\* buildBackends: without a graph the instance does not start (Stop).
OpenGraph(i) ==
  /\ serving[i] = "resolved"
  /\ Leads(graphPath[i]) /\ versions[Target(graphPath[i])].graph # None
  /\ graph' = [graph EXCEPT ![i] = versions[Target(graphPath[i])].graph]
  /\ serving' = [serving EXCEPT ![i] = "graph open"]
  /\ UNCHANGED <<versions, current, pipelineVars, pathVars, vectors, report, indexing, refreshed>>

VectorsAt(path) == IF Leads(path) THEN versions[Target(path)].vector ELSE None

\* Without vectors, or without their embedder, it starts degraded.
OpenVectors(i) ==
  /\ serving[i] = "graph open"
  /\ \E found \in {VectorsAt(vectorPath[i]), None} : vectors' = [vectors EXCEPT ![i] = found]
  /\ serving' = [serving EXCEPT ![i] = "open"]
  /\ UNCHANGED <<versions, current, pipelineVars, pathVars, graph, report, indexing, refreshed>>

\* Fault: the coordinates are reported, not compared.
AlignmentAssumed(graphCommit, vectorCommit) ==
  IF graphCommit = None \/ vectorCommit = None THEN "OK, coordinate missing" ELSE "OK"

\* ComputeAlignment: an error only where both coordinates are there and differ.
Alignment(graphCommit, vectorCommit) ==
  IF graphCommit = None \/ vectorCommit = None THEN "OK, coordinate missing"
  ELSE IF graphCommit = vectorCommit THEN "OK" ELSE "failed"

\* computeStartupAlignment asks the open graph, and reads the manifest of the
\* vectors at their path once more. Either may fail, or the manifest not parse.
Start(i) ==
  /\ serving[i] = "open"
  /\ \E graphCommit \in {graph[i], None}, vectorCommit \in {VectorsAt(vectorPath[i]), None} :
       report' = [report EXCEPT ![i] = Alignment(graphCommit, vectorCommit)]
  /\ serving' = [serving EXCEPT ![i] = "up"]
  /\ UNCHANGED <<versions, current, pipelineVars, pathVars, openVars, indexing, refreshed>>

\* The process stops or fails to start.
Stop(i) ==
  /\ serving[i] # "down"
  /\ serving' = [serving EXCEPT ![i] = "down"]
  /\ graphPath' = [graphPath EXCEPT ![i] = None] /\ vectorPath' = [vectorPath EXCEPT ![i] = None]
  /\ graph' = [graph EXCEPT ![i] = None] /\ vectors' = [vectors EXCEPT ![i] = None]
  /\ report' = [report EXCEPT ![i] = None]
  /\ indexing' = [indexing EXCEPT ![i] = FALSE]
  /\ UNCHANGED <<versions, current, pipelineVars, refreshed>>

(***************************************************************************)
(* ops.index: ckv, then ckg whatever ckv did, where the paths of the       *)
(* instance lead. The source tree is at commit c by now. A builder makes   *)
(* the directory it writes to, though not behind a dangling pointer.       *)
(***************************************************************************)
Rewritable(path) == path = Pointer => Leads(Pointer)

RefreshVectors(i, c) ==
  LET path == vectorPath[i] IN
  /\ IndexEnabled
  /\ serving[i] = "up" /\ ~indexing[i]
  /\ indexing' = [indexing EXCEPT ![i] = TRUE]
  /\ \/ /\ Rewritable(path)
        /\ versions' = [versions EXCEPT ![Target(path)].exists = TRUE, ![Target(path)].vector = c]
        /\ refreshed' = refreshed \union {Target(path)}
     \/ UNCHANGED <<versions, refreshed>>
  /\ UNCHANGED <<current, pipelineVars, serving, pathVars, openVars, report>>

RefreshGraph(i, c) ==
  LET path == graphPath[i] IN
  /\ serving[i] = "up" /\ indexing[i]
  /\ indexing' = [indexing EXCEPT ![i] = FALSE]
  /\ \/ /\ Rewritable(path)
        /\ versions' = [versions EXCEPT ![Target(path)].exists = TRUE, ![Target(path)].graph = c]
        /\ refreshed' = refreshed \union {Target(path)}
     \/ UNCHANGED <<versions, refreshed>>
  /\ UNCHANGED <<current, pipelineVars, serving, pathVars, openVars, report>>

Pipeline(b) ==
  \/ \E c \in Commits : Invoke(b, c)
  \/ AcquireLock(b) \/ LockBusy(b)
  \/ MakeStaging(b) \/ TouchSentinel(b) \/ BuildGraph(b) \/ PlaceVersion(b) \/ BuildVectors(b) \/ PassGate(b) \/ Promote(b) \/ Restart(b)
  \/ BuildFails(b) \/ Kill(b)

Operator == RemoveLock \/ \E d \in Dirs : PromoteByHand(d) \/ CleanUp(d)

Instance(i) ==
  \/ ResolveGraph(i) \/ ResolveVectors(i) \/ OpenGraph(i) \/ OpenVectors(i) \/ Start(i) \/ Stop(i)
  \/ \E c \in Commits : RefreshVectors(i, c) \/ RefreshGraph(i, c)

Next ==
  \/ \E b \in Builds : Pipeline(b)
  \/ Operator
  \/ \E i \in Instances : Instance(i)

Spec == Init /\ [][Next]_vars
-----------------------------------------------------------------------------
(***************************************************************************)
(* Properties                                                              *)
(***************************************************************************)
Steps == {"exited", "lock", "mkdir", "touch", "ckg", "mv", "ckv", "gate", "promote", "restart"}
Version == [exists : BOOLEAN, building : BOOLEAN,
            graph : Commits \union {None}, vector : Commits \union {None}]

\* Type invariant.
TypeOK ==
  /\ versions \in [Dirs -> Version]
  /\ current \in Dirs \union {None}
  /\ lock \in Builds \union {None, Dead}
  /\ step \in [Builds -> Steps] /\ commit \in [Builds -> Commits \union {None}]
  /\ serving \in [Instances -> {"down", "resolving", "resolved", "graph open", "open", "up"}]
  /\ graphPath \in [Instances -> Dirs \union {None, Pointer}]
  /\ vectorPath \in [Instances -> Dirs \union {None, Pointer}]
  /\ graph \in [Instances -> Commits \union {None}]
  /\ vectors \in [Instances -> Commits \union {None}]
  /\ report \in [Instances -> {None, "OK", "OK, coordinate missing", "failed"}]
  /\ indexing \in [Instances -> BOOLEAN]
  /\ refreshed \subseteq Dirs

Building(b) == step[b] \notin {"exited", "lock"}

\* One run at a time builds, though a run that finds the lock taken exits, runs
\* fail at any step, and operators remove the locks of killed ones.
OneBuild == \A b \in Builds : Building(b) => lock = b

\* Where the pointer leads to a version name, which is where a run takes it and
\* a rollback takes it back, it leads to a version whose gate passed, whatever
\* crashed, was cleaned up or was promoted by hand at the same time. The one
\* thing it promises nothing of is a directory without a version name: promote
\* (reindex-dataset.sh:147-157) takes one by hand if it has no sentinel, and
\* what a run killed between mkdir and touch leaves (:184-185) has none.
CurrentIsGated ==
  current \in Commits =>
    /\ Promotable(versions[current])
    /\ current \notin refreshed => GateHolds(versions[current])

\* A complete version directory is rewritten by nothing but ops.index. The
\* pipeline keeps its promise: "new artifacts are built in an immutable sibling
\* version directory and only the `current` symlink moves"
\* (reindex-dataset.sh:12-13).
OnlyIndexRewrites ==
  [][\A c \in Commits :
       Promotable(versions[c]) /\ versions'[c] # versions[c] => c \in refreshed']_vars

\* The vectors were opened, and at a path that does not follow the pointer.
VectorsPinned(i) == vectors[i] # None /\ vectorPath[i] # Pointer

\* An instance that compared both coordinates and found them equal serves a
\* graph and vectors of one commit, though the pointer may move between its two
\* path lookups, before and while it opens them and before the manifest is read
\* again: provided that the vectors' path was resolved and ops.index has not
\* been used there. With a coordinate missing the report says OK of any pair.
AlignedIsCoherent ==
  \A i \in Instances :
    /\ serving[i] = "up" /\ report[i] = "OK"
    /\ VectorsPinned(i) /\ vectorPath[i] \notin refreshed
    => graph[i] = vectors[i]

\* The version directories an instance has pinned, which are those ops.index
\* rewrites, are complete: the pipeline, which takes no notice of instances,
\* never builds or removes one under an instance, and ops.index never writes
\* into a build.
ServedIsComplete ==
  \A i \in Instances :
    serving[i] = "up" =>
      \A c \in {graphPath[i], vectorPath[i]} \intersect Commits :
        /\ Promotable(versions[c])
        /\ \A b \in Builds : step[b] \in {"ckv", "gate"} => commit[b] # c

\* What an instance serves is complete and, where it said so, of one commit.
ServedIsSound == ServedIsComplete /\ AlignedIsCoherent
=============================================================================
