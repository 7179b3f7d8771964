---------------------------- MODULE DatasetProofs ----------------------------
(***************************************************************************)
(* Proofs about the life of a dataset, for any number of commits, pipeline *)
(* processes, stray directories and instances, with or without ops.index.  *)
(***************************************************************************)
EXTENDS Dataset, TLAPS

USE DatasetConfig DEF Staging

(***************************************************************************)
(* The inductive invariant.                                                *)
(***************************************************************************)
\* A run that is at work knows its commit.
RunHasCommit == \A b \in Builds : Running(b) => commit[b] \in Commits

\* From touch to the move the staging directory of the run is behind its
\* sentinel, from there to the end of the gate its version directory is.
BuildIsHidden ==
  \A b \in Builds :
    /\ step[b] \in {"touch", "ckg", "mv"} => versions[Staging(b)].exists
    /\ step[b] \in {"ckg", "mv"} => versions[Staging(b)].building
    /\ step[b] \in {"ckv", "gate"} => versions[commit[b]].exists /\ versions[commit[b]].building

\* A version without the sentinel has passed its gate, until ops.index touches it.
CompleteIsGated ==
  \A c \in Commits : Promotable(versions[c]) /\ c \notin refreshed => GateHolds(versions[c])

CurrentIsComplete == current \in Commits => Promotable(versions[current])

\* The versions whose paths an instance has pinned are complete.
PathsAreComplete ==
  \A i \in Instances :
    \A c \in {graphPath[i], vectorPath[i]} \intersect Commits : Promotable(versions[c])

\* A stray directory has no sentinel, and a staging directory no vectors.
OthersArePlain ==
  /\ \A d \in Strays : Promotable(versions[d])
  /\ \A b \in Builds : Staging(b) \notin refreshed => versions[Staging(b)].vector = None

\* Vectors that were opened at a pinned path are there still, and their manifest
\* with them, when the alignment of the instance is computed. Between the steps
\* of its startup a path is a directory or Pointer.
PathsAreNamed ==
  \A i \in Instances :
    /\ serving[i] # "down" => graphPath[i] # None
    /\ serving[i] \notin {"down", "resolving"} => vectorPath[i] # None

OpenIsThere ==
  \A i \in Instances :
    serving[i] = "open" /\ VectorsPinned(i) /\ vectorPath[i] \notin refreshed =>
      VectorsAt(vectorPath[i]) = vectors[i]

DatasetInv ==
  /\ TypeOK /\ RunHasCommit /\ OneBuild /\ BuildIsHidden /\ CompleteIsGated
  /\ CurrentIsComplete /\ PathsAreComplete /\ PathsAreNamed /\ OthersArePlain
  /\ OpenIsThere /\ AlignedIsCoherent

LEMMA DirsAre == Dirs = Commits \union Builds \union Strays
BY DEF Dirs

LEMMA InitHolds == Init => DatasetInv
<1>. SUFFICES ASSUME Init PROVE DatasetInv
  OBVIOUS
<1>1. PICK found \in [Strays -> Stray] : versions = [d \in Dirs |-> IF d \in Strays THEN found[d] ELSE Absent]
  BY DEF Init
<1>2. \A d \in Dirs : versions[d] = IF d \in Strays THEN found[d] ELSE Absent
  BY <1>1
<1>3. \A d \in Dirs : versions[d] \in Version
  <2>1. Absent \in Version
    BY DEF Absent, Version
  <2>2. \A v \in Stray : v \in Version
    BY DEF Stray, Version
  <2>. QED
    BY <1>2, <2>1, <2>2
<1>4. versions \in [Dirs -> Version]
  BY <1>1, <1>3
<1>5. \A d \in Strays : Promotable(versions[d])
  BY <1>2, DirsAre DEF Stray, Promotable
<1>6. \A d \in Commits \union Builds : versions[d] = Absent
  BY <1>2, DirsAre
<1>6a. ~ Absent.exists /\ Absent.vector = None /\ ~ Promotable(Absent)
  BY DEF Absent, Promotable
<1>7. TypeOK
  BY <1>4 DEF Init, TypeOK, Steps
<1>8. \A i \in Instances : serving[i] = "down" /\ graphPath[i] = None /\ vectorPath[i] = None
  BY DEF Init
<1>9. RunHasCommit /\ OneBuild /\ BuildIsHidden /\ CompleteIsGated /\ CurrentIsComplete /\ OthersArePlain
  BY <1>5, <1>6, <1>6a DEF Init, RunHasCommit, Running, OneBuild, Building, BuildIsHidden,
                          CompleteIsGated, CurrentIsComplete, OthersArePlain
<1>10. PathsAreComplete /\ PathsAreNamed /\ OpenIsThere /\ AlignedIsCoherent
  BY <1>8 DEF PathsAreComplete, PathsAreNamed, OpenIsThere, AlignedIsCoherent
<1>. QED
  BY <1>7, <1>9, <1>10 DEF DatasetInv

(***************************************************************************)
(* What an instance relies on is kept by whoever changes the directories:  *)
(* complete versions stay as they are, up to ops.index, and what else may  *)
(* change has no vectors.                                                  *)
(***************************************************************************)
DirsKept ==
  /\ versions' \in [Dirs -> Version] /\ refreshed \subseteq refreshed' /\ refreshed' \subseteq Dirs
  /\ \A c \in Commits : Promotable(versions[c]) => Promotable(versions'[c])
  /\ \A d \in Dirs \ refreshed' :
       versions[d].exists /\ versions[d].vector # None /\ (d \in Commits => Promotable(versions[d]))
         => versions'[d] = versions[d]

LEMMA InstancesKept ==
  ASSUME DatasetInv, DirsKept, UNCHANGED <<serving, pathVars, openVars, report>>
  PROVE  PathsAreComplete' /\ PathsAreNamed' /\ OpenIsThere' /\ AlignedIsCoherent'
<1>. USE DEF DatasetInv, DirsKept, pathVars, openVars
<1>1. PathsAreComplete' /\ PathsAreNamed'
  BY DEF PathsAreComplete, PathsAreNamed
<1>2. AlignedIsCoherent'
  BY DEF AlignedIsCoherent, VectorsPinned
<1>3. OpenIsThere'
  <2>. SUFFICES ASSUME NEW i \in Instances, serving[i] = "open", VectorsPinned(i), vectorPath[i] \notin refreshed'
                PROVE  VectorsAt(vectorPath[i])' = vectors[i]
    BY DEF OpenIsThere, VectorsPinned
  <2>. DEFINE d == vectorPath[i]
  <2>1. d \in Dirs /\ Target(d) = d /\ Target(d)' = d /\ d # None /\ d # Pointer
    BY DirsAre DEF TypeOK, PathsAreNamed, VectorsPinned, Target
  <2>2. VectorsAt(d) = vectors[i] /\ vectors[i] # None
    BY DEF OpenIsThere, VectorsPinned
  <2>3. versions[d].exists /\ versions[d].vector = vectors[i]
    BY <2>1, <2>2 DEF VectorsAt, Leads
  <2>4. versions'[d] = versions[d]
    BY <2>1, <2>2, <2>3 DEF PathsAreComplete
  <2>. QED
    BY <2>1, <2>3, <2>4 DEF VectorsAt, Leads, Target
<1>. QED
  BY <1>1, <1>2, <1>3

(***************************************************************************)
(* The pipeline                                                            *)
(***************************************************************************)
\* A step of one run that leaves versions and instances alone and takes the run
\* forward under its own lock, or out of it.
LEMMA RunMoves ==
  ASSUME DatasetInv, NEW b \in Builds,
         \/ \E c \in Commits : Invoke(b, c)
         \/ AcquireLock(b) \/ LockBusy(b) \/ Restart(b) \/ BuildFails(b) \/ Kill(b)
  PROVE  DatasetInv'
<1>. USE DEF DatasetInv, instanceVars
<1>0. /\ step \in [Builds -> Steps] /\ commit \in [Builds -> Commits \union {None}]
      /\ lock \in Builds \union {None, Dead} /\ (Building(b) => lock = b)
  BY DEF TypeOK, OneBuild
<1>. DEFINE Moves(s, c) == step' = [step EXCEPT ![b] = s] /\ commit' = [commit EXCEPT ![b] = c]
<1>1. /\ UNCHANGED <<versions, current, instanceVars>>
      /\ \/ step[b] = "exited" /\ lock' = lock /\ \E c \in Commits : Moves("lock", c)
         \/ step[b] = "lock" /\ lock = None /\ lock' = b /\ Moves("mkdir", commit[b])
         \/ (lock' = lock \/ lock = b) /\ lock' \in {lock, None, Dead} /\ Moves("exited", None)
  <2>1. ASSUME NEW c \in Commits, Invoke(b, c) PROVE <1>1!1 /\ <1>1!2!1
    BY <2>1 DEF Invoke, Running, GoTo
  <2>2. CASE AcquireLock(b)
    BY <2>2, <1>0 DEF AcquireLock, GoTo
  <2>3. CASE LockBusy(b) \/ Kill(b)
    BY <2>3 DEF LockBusy, Kill, End, GoTo
  <2>4. CASE Restart(b) \/ BuildFails(b)
    BY <2>4, <1>0 DEF Restart, BuildFails, Exit, End, GoTo, Building
  <2>. QED
    BY <2>1, <2>2, <2>3, <2>4
<1>2. /\ step' \in [Builds -> Steps] /\ commit' \in [Builds -> Commits \union {None}]
      /\ step'[b] \in {"exited", "lock", "mkdir"}
      /\ Running(b)' => commit'[b] \in Commits
      /\ step'[b] = "mkdir" => lock' = b
      /\ \A d \in Builds \ {b} : step'[d] = step[d] /\ commit'[d] = commit[d]
  BY <1>0, <1>1 DEF Steps, RunHasCommit, Running
<1>3. lock' \in Builds \union {None, Dead} /\ (lock' # lock => lock \in {None, b})
  BY <1>0, <1>1
<1>4. TypeOK' /\ RunHasCommit' /\ OneBuild' /\ BuildIsHidden'
  <2>1. TypeOK'
    BY <1>1, <1>2, <1>3 DEF TypeOK, pathVars, openVars
  <2>2. RunHasCommit'
    BY <1>2 DEF RunHasCommit, Running
  <2>3. OneBuild'
    BY <1>2, <1>3 DEF OneBuild, Building
  <2>4. BuildIsHidden'
    BY <1>1, <1>2 DEF BuildIsHidden
  <2>. QED
    BY <2>1, <2>2, <2>3, <2>4
<1>5. CompleteIsGated' /\ CurrentIsComplete' /\ OthersArePlain'
  BY <1>1 DEF CompleteIsGated, CurrentIsComplete, OthersArePlain
<1>6. DirsKept
  BY <1>1 DEF DirsKept, TypeOK
<1>7. UNCHANGED <<serving, pathVars, openVars, report>>
  BY <1>1
<1>. QED
  BY <1>4, <1>5, <1>6, <1>7, InstancesKept

Builder(b) ==
  MakeStaging(b) \/ TouchSentinel(b) \/ BuildGraph(b) \/ PlaceVersion(b) \/ BuildVectors(b) \/ PassGate(b)

\* A builder writes to its staging directory and, until the gate passed, to its
\* version directory, which is no complete version before.
LEMMA BuildTouches ==
  ASSUME DatasetInv, NEW b \in Builds, Builder(b)
  PROVE  /\ commit[b] \in Commits /\ lock = b /\ commit[b] # Staging(b)
         /\ versions' \in [Dirs -> Version]
         /\ \A d \in Dirs \ {commit[b], Staging(b)} : versions'[d] = versions[d]
         /\ \/ versions'[commit[b]] = versions[commit[b]]
            \/ ~ Promotable(versions[commit[b]])
         /\ \/ versions'[Staging(b)].vector = versions[Staging(b)].vector
            \/ versions'[Staging(b)].vector = None
         /\ step' \in [Builds -> Steps]
         /\ \A d \in Builds \ {b} : step'[d] = step[d]
         /\ UNCHANGED <<current, lock, commit, instanceVars>>
<1>1. commit[b] \in Commits /\ lock = b
  BY DEF Builder, MakeStaging, TouchSentinel, BuildGraph, PlaceVersion, BuildVectors, PassGate,
         DatasetInv, TypeOK, RunHasCommit, Running, OneBuild, Building
<1>2. commit[b] \in Dirs /\ Staging(b) \in Dirs /\ commit[b] # Staging(b)
  BY <1>1, DirsAre
<1>. USE DEF DatasetInv, TypeOK, instanceVars
<1>3. versions[commit[b]] \in Version /\ versions[Staging(b)] \in Version
  BY <1>2
<1>4. CASE MakeStaging(b)
  BY <1>1, <1>2, <1>3, <1>4 DEF MakeStaging, GoTo, Steps, Version
<1>5. CASE TouchSentinel(b)
  BY <1>1, <1>2, <1>3, <1>5 DEF TouchSentinel, GoTo, Steps, Version
<1>6. CASE BuildGraph(b)
  BY <1>1, <1>2, <1>3, <1>6 DEF BuildGraph, GoTo, Steps, Version
<1>7. CASE PlaceVersion(b)
  BY <1>1, <1>2, <1>3, <1>7 DEF PlaceVersion, GoTo, Steps, Version, Promotable, Absent
<1>8. CASE BuildVectors(b)
  <2>1. ~ Promotable(versions[commit[b]])
    BY <1>8 DEF BuildVectors, Promotable, BuildIsHidden
  <2>. QED
    BY <1>1, <1>2, <1>3, <1>8, <2>1 DEF BuildVectors, GoTo, Steps, Version
<1>9. CASE PassGate(b)
  <2>1. ~ Promotable(versions[commit[b]])
    BY <1>9 DEF PassGate, Promotable, BuildIsHidden
  <2>. QED
    BY <1>1, <1>2, <1>3, <1>9, <2>1 DEF PassGate, GoTo, Steps, Version
<1>. QED
  BY <1>4, <1>5, <1>6, <1>7, <1>8, <1>9 DEF Builder

LEMMA BuildMoves ==
  ASSUME DatasetInv, NEW b \in Builds, Builder(b)
  PROVE  DatasetInv'
<1>. DEFINE c == commit[b]
<1>. USE DEF DatasetInv, instanceVars
<1>1. /\ c \in Commits /\ lock = b /\ c # Staging(b)
      /\ versions' \in [Dirs -> Version]
      /\ \A d \in Dirs \ {c, Staging(b)} : versions'[d] = versions[d]
      /\ versions'[c] = versions[c] \/ ~ Promotable(versions[c])
      /\ versions'[Staging(b)].vector \in {versions[Staging(b)].vector, None}
      /\ step' \in [Builds -> Steps]
      /\ \A d \in Builds \ {b} : step'[d] = step[d]
      /\ UNCHANGED <<current, lock, commit, instanceVars>>
  BY BuildTouches
<1>2. c \in Dirs /\ Staging(b) \in Dirs /\ Commits \subseteq Dirs /\ Strays \subseteq Dirs /\ Builds \subseteq Dirs
  BY <1>1, DirsAre
<1>3. versions \in [Dirs -> Version] /\ versions[c] \in Version /\ versions[Staging(b)] \in Version
  BY <1>2 DEF TypeOK
<1>4. Running(b) /\ Building(b) /\ step'[b] \in {"touch", "ckg", "mv", "ckv", "gate", "promote"}
  BY DEF TypeOK, Builder, MakeStaging, TouchSentinel, BuildGraph, PlaceVersion, BuildVectors, PassGate, GoTo,
         Running, Building
<1>5. TypeOK' /\ RunHasCommit' /\ OneBuild'
  BY <1>1, <1>4 DEF TypeOK, RunHasCommit, Running, OneBuild, Building, pathVars, openVars
<1>6. /\ step'[b] \in {"touch", "ckg", "mv"} => versions'[Staging(b)].exists
      /\ step'[b] \in {"ckg", "mv"} => versions'[Staging(b)].building
      /\ step'[b] \in {"ckv", "gate"} => versions'[c].exists /\ versions'[c].building
  <2>. DEFINE v == versions[Staging(b)]
  <2>1. /\ \A t : step' = [step EXCEPT ![b] = t] => step'[b] = t
        /\ step[b] \in {"touch", "ckg", "mv"} => v.exists
        /\ step[b] \in {"ckg", "mv"} => v.building
        /\ step[b] \in {"ckv", "gate"} => versions[c].exists /\ versions[c].building
    BY DEF TypeOK, BuildIsHidden
  <2>2. CASE MakeStaging(b)
    <3>1. versions' = [versions EXCEPT ![Staging(b)].exists = TRUE] /\ step'[b] = "touch"
      BY <2>1, <2>2 DEF MakeStaging, GoTo
    <3>. QED
      BY <3>1, <1>2, <1>3 DEF Version
  <2>3. CASE TouchSentinel(b)
    <3>1. /\ versions' = [versions EXCEPT ![Staging(b)].building = TRUE] /\ step'[b] = "ckg"
          /\ v.exists
      BY <2>1, <2>3 DEF TouchSentinel, GoTo
    <3>. QED
      BY <3>1, <1>2, <1>3 DEF Version
  <2>4. CASE BuildGraph(b)
    <3>1. /\ versions' = [versions EXCEPT ![Staging(b)].graph = c] /\ step'[b] = "mv"
          /\ v.exists /\ v.building
      BY <2>1, <2>4 DEF BuildGraph, GoTo
    <3>. QED
      BY <3>1, <1>2, <1>3 DEF Version
  <2>5. CASE PlaceVersion(b)
    <3>1. /\ versions' = [versions EXCEPT ![c] = v, ![Staging(b)] = Absent] /\ step'[b] = "ckv"
          /\ v.exists /\ v.building
      BY <2>1, <2>5 DEF PlaceVersion, GoTo
    <3>2. versions'[c] = v
      BY <3>1, <1>1, <1>2, <1>3
    <3>. QED
      BY <3>1, <3>2
  <2>6. CASE BuildVectors(b)
    <3>1. /\ versions' = [versions EXCEPT ![c].vector = c] /\ step'[b] = "gate"
          /\ versions[c].exists /\ versions[c].building
      BY <2>1, <2>6 DEF BuildVectors, GoTo
    <3>. QED
      BY <3>1, <1>2, <1>3 DEF Version
  <2>7. CASE PassGate(b)
    BY <2>1, <2>7 DEF PassGate, GoTo
  <2>. QED
    BY <2>2, <2>3, <2>4, <2>5, <2>6, <2>7 DEF Builder
<1>7. BuildIsHidden'
  <2>1. \A d \in Builds \ {b} : step[d] \in {"exited", "lock"}
    BY <1>1 DEF OneBuild, Building
  <2>. QED
    BY <2>1, <1>1, <1>6 DEF BuildIsHidden
<1>8. CompleteIsGated'
  <2>1. ASSUME Promotable(versions'[c]), c \notin refreshed PROVE GateHolds(versions'[c])
    <3>1. CASE PassGate(b)
      BY <3>1, <1>2, <1>3 DEF PassGate, GateHolds, Version
    <3>2. CASE PlaceVersion(b) \/ BuildVectors(b)
      BY <3>2, <2>1, <1>4, <1>6 DEF PlaceVersion, BuildVectors, GoTo, TypeOK, Promotable
    <3>3. CASE MakeStaging(b) \/ TouchSentinel(b) \/ BuildGraph(b)
      BY <3>3, <2>1, <1>1, <1>2, <1>3 DEF MakeStaging, TouchSentinel, BuildGraph, CompleteIsGated
    <3>. QED
      BY <3>1, <3>2, <3>3 DEF Builder
  <2>. QED
    BY <2>1, <1>1, <1>2 DEF CompleteIsGated
<1>9. CurrentIsComplete' /\ OthersArePlain'
  BY <1>1, <1>2 DEF CurrentIsComplete, OthersArePlain
<1>10. DirsKept
  <2>1. \A d \in Commits : Promotable(versions[d]) => Promotable(versions'[d])
    BY <1>1, <1>2
  <2>2. ASSUME NEW d \in Dirs \ refreshed, versions[d].vector # None, d \in Commits => Promotable(versions[d])
        PROVE  versions'[d] = versions[d]
    BY <2>2, <1>1, <1>2 DEF OthersArePlain
  <2>. QED
    BY <2>1, <2>2, <1>1 DEF DirsKept, TypeOK
<1>11. UNCHANGED <<serving, pathVars, openVars, report>>
  BY <1>1
<1>. QED
  BY <1>5, <1>7, <1>8, <1>9, <1>10, <1>11, InstancesKept

(***************************************************************************)
(* The operator                                                            *)
(***************************************************************************)
\* The pointer moves to a directory without a sentinel.
LEMMA PointerMoves ==
  ASSUME DatasetInv, \/ \E b \in Builds : Promote(b)
                     \/ \E d \in Dirs : PromoteByHand(d)
  PROVE  DatasetInv'
<1>. USE DEF DatasetInv, instanceVars, pipelineVars
<1>1. UNCHANGED <<versions, lock, commit, instanceVars>>
  BY DEF Promote, PromoteByHand
<1>2. current' \in Dirs /\ Promotable(versions[current'])
  BY DirsAre DEF Promote, PromoteByHand, RunHasCommit, Running
<1>3. \A b \in Builds : step'[b] = step[b] \/ (step[b] = "promote" /\ step'[b] = "restart")
  BY DEF Promote, PromoteByHand, GoTo, TypeOK
<1>4. step' \in [Builds -> Steps]
  BY DEF Promote, PromoteByHand, GoTo, TypeOK, Steps
<1>5. TypeOK'
  BY <1>1, <1>2, <1>4 DEF TypeOK, pathVars, openVars
<1>6. RunHasCommit' /\ OneBuild' /\ BuildIsHidden'
  BY <1>1, <1>3 DEF RunHasCommit, Running, OneBuild, Building, BuildIsHidden
<1>7. CompleteIsGated' /\ CurrentIsComplete' /\ OthersArePlain'
  BY <1>1, <1>2 DEF CompleteIsGated, CurrentIsComplete, OthersArePlain
<1>8. DirsKept
  BY <1>1 DEF DirsKept, TypeOK
<1>9. UNCHANGED <<serving, pathVars, openVars, report>>
  BY <1>1
<1>. QED
  BY <1>5, <1>6, <1>7, <1>8, <1>9, InstancesKept

LEMMA OperatorMoves ==
  ASSUME DatasetInv, RemoveLock \/ \E d \in Dirs : CleanUp(d)
  PROVE  DatasetInv'
<1>. USE DEF DatasetInv, instanceVars, pipelineVars
<1>1. CASE RemoveLock
  <2>1. UNCHANGED <<versions, current, step, commit, instanceVars>> /\ lock = Dead /\ lock' = None
    BY <1>1 DEF RemoveLock
  <2>2. TypeOK' /\ RunHasCommit' /\ OneBuild' /\ BuildIsHidden'
    BY <2>1 DEF TypeOK, RunHasCommit, Running, OneBuild, Building, BuildIsHidden, pathVars, openVars
  <2>3. CompleteIsGated' /\ CurrentIsComplete' /\ OthersArePlain' /\ DirsKept
    BY <2>1 DEF TypeOK, CompleteIsGated, CurrentIsComplete, OthersArePlain, DirsKept
  <2>4. UNCHANGED <<serving, pathVars, openVars, report>>
    BY <2>1
  <2>. QED
    BY <2>2, <2>3, <2>4, InstancesKept
<1>2. ASSUME NEW d \in Dirs, CleanUp(d) PROVE DatasetInv'
  <2>1. /\ lock = None /\ versions' = [versions EXCEPT ![d] = Absent]
        /\ versions[d].building \/ d \in Builds
        /\ UNCHANGED <<current, step, lock, commit, instanceVars>>
    BY <1>2 DEF CleanUp
  <2>2. d \in Commits => ~ Promotable(versions[d])
    BY <2>1 DEF Promotable
  <2>3. d \notin Strays
    BY <2>1 DEF OthersArePlain, Promotable
  <2>4. TypeOK' /\ RunHasCommit' /\ OneBuild'
    BY <2>1 DEF TypeOK, Absent, Version, RunHasCommit, Running, OneBuild, Building, pathVars, openVars
  <2>5. BuildIsHidden'
    BY <2>1 DEF OneBuild, Building, BuildIsHidden
  <2>6. CompleteIsGated' /\ CurrentIsComplete' /\ OthersArePlain'
    <3>1. \A e \in Dirs \ {d} : versions'[e] = versions[e]
      BY <2>1 DEF TypeOK
    <3>2. versions'[d] = Absent /\ ~ Promotable(Absent) /\ Absent.vector = None
      BY <2>1 DEF TypeOK, Absent, Promotable
    <3>. QED
      BY <2>1, <2>2, <2>3, <3>1, <3>2, DirsAre DEF CompleteIsGated, CurrentIsComplete, OthersArePlain
  <2>7. DirsKept
    <3>1. \A e \in Dirs \ {d} : versions'[e] = versions[e]
      BY <2>1 DEF TypeOK
    <3>2. d \in Builds /\ d \notin refreshed => versions[d].vector = None
      BY DEF OthersArePlain
    <3>3. d \in Commits \union Builds
      BY <2>3, DirsAre
    <3>4. versions' \in [Dirs -> Version] /\ refreshed' = refreshed /\ refreshed \subseteq Dirs
      BY <2>1, <2>4 DEF TypeOK
    <3>. QED
      BY <2>2, <3>1, <3>2, <3>3, <3>4, DirsAre DEF DirsKept
  <2>8. UNCHANGED <<serving, pathVars, openVars, report>>
    BY <2>1
  <2>. QED
    BY <2>4, <2>5, <2>6, <2>7, <2>8, InstancesKept
<1>. QED
  BY <1>1, <1>2

(***************************************************************************)
(* The instances                                                           *)
(***************************************************************************)
LEMMA ResolvedIsNamed ==
  ASSUME DatasetInv, NEW present \in BOOLEAN, NEW path \in Resolutions(present)
  PROVE  path \in Dirs \union {Pointer} /\ path # None /\ (path \in Commits => Promotable(versions[path]))
<1>1. path = Pointer \/ (path = current /\ current # None)
  BY DEF Resolutions, Leads, Target
<1>2. current \in Dirs \union {None} /\ Pointer \notin Commits /\ Pointer # None
  BY DEF DatasetInv, TypeOK, Pointer, None
<1>. QED
  BY <1>1, <1>2 DEF DatasetInv, CurrentIsComplete

LEMMA ContentsTyped ==
  ASSUME DatasetInv, NEW path \in Dirs \union {None, Pointer}
  PROVE  /\ VectorsAt(path) \in Commits \union {None}
         /\ Leads(path) => versions[Target(path)].graph \in Commits \union {None}
<1>1. Leads(path) => Target(path) \in Dirs
  BY DEF DatasetInv, TypeOK, Leads, Target
<1>. QED
  BY <1>1 DEF DatasetInv, TypeOK, VectorsAt, Version

\* An instance starts or stops; nothing but its own state changes.
LEMMA InstanceMoves ==
  ASSUME DatasetInv, NEW i \in Instances,
         \/ ResolveGraph(i) \/ ResolveVectors(i) \/ OpenGraph(i) \/ OpenVectors(i)
         \/ Start(i) \/ Stop(i)
  PROVE  DatasetInv'
<1>. USE DEF DatasetInv, pipelineVars, pathVars, openVars
<1>1. UNCHANGED <<versions, current, lock, step, commit, refreshed>>
  BY DEF ResolveGraph, ResolveVectors, OpenGraph, OpenVectors, Start, Stop
<1>2. /\ RunHasCommit' /\ OneBuild' /\ BuildIsHidden' /\ CompleteIsGated'
      /\ CurrentIsComplete' /\ OthersArePlain'
  BY <1>1 DEF RunHasCommit, Running, OneBuild, Building, BuildIsHidden, CompleteIsGated,
              CurrentIsComplete, OthersArePlain
<1>3. \A path : VectorsAt(path)' = VectorsAt(path)
  BY <1>1 DEF VectorsAt, Leads, Target
<1>4. CASE ResolveGraph(i)
  <2>1. PICK path \in Resolutions(Leads(Pointer) /\ versions[current].graph # None) :
          graphPath' = [graphPath EXCEPT ![i] = path]
    BY <1>4 DEF ResolveGraph
  <2>2. path \in Dirs \union {Pointer} /\ path # None /\ (path \in Commits => Promotable(versions[path]))
    BY <2>1, ResolvedIsNamed
  <2>3. serving[i] = "down" /\ serving' = [serving EXCEPT ![i] = "resolving"]
        /\ UNCHANGED <<vectorPath, graph, vectors, report, indexing>>
    BY <1>4 DEF ResolveGraph
  <2>4. TypeOK'
    BY <1>1, <2>1, <2>2, <2>3 DEF TypeOK
  <2>5. PathsAreComplete' /\ PathsAreNamed'
    BY <1>1, <2>1, <2>2, <2>3 DEF TypeOK, PathsAreComplete, PathsAreNamed
  <2>6. OpenIsThere' /\ AlignedIsCoherent'
    BY <1>1, <1>3, <2>3 DEF TypeOK, OpenIsThere, AlignedIsCoherent, VectorsPinned
  <2>. QED
    BY <1>2, <2>4, <2>5, <2>6
<1>5. CASE ResolveVectors(i)
  <2>1. PICK path \in Resolutions(Leads(Pointer) /\ versions[current].vector # None) :
          vectorPath' = [vectorPath EXCEPT ![i] = path]
    BY <1>5 DEF ResolveVectors
  <2>2. path \in Dirs \union {Pointer} /\ path # None /\ (path \in Commits => Promotable(versions[path]))
    BY <2>1, ResolvedIsNamed
  <2>3. serving[i] = "resolving" /\ serving' = [serving EXCEPT ![i] = "resolved"]
        /\ UNCHANGED <<graphPath, graph, vectors, report, indexing>>
    BY <1>5 DEF ResolveVectors
  <2>4. TypeOK'
    BY <1>1, <2>1, <2>2, <2>3 DEF TypeOK
  <2>5. PathsAreComplete' /\ PathsAreNamed'
    BY <1>1, <2>1, <2>2, <2>3 DEF TypeOK, PathsAreComplete, PathsAreNamed
  <2>6. OpenIsThere' /\ AlignedIsCoherent'
    BY <1>1, <1>3, <2>1, <2>3 DEF TypeOK, OpenIsThere, AlignedIsCoherent, VectorsPinned
  <2>. QED
    BY <1>2, <2>4, <2>5, <2>6
<1>6. CASE OpenGraph(i)
  <2>1. serving[i] = "resolved" /\ serving' = [serving EXCEPT ![i] = "graph open"] /\ Leads(graphPath[i])
        /\ graph' = [graph EXCEPT ![i] = versions[Target(graphPath[i])].graph]
        /\ UNCHANGED <<graphPath, vectorPath, vectors, report, indexing>>
    BY <1>6 DEF OpenGraph
  <2>2. versions[Target(graphPath[i])].graph \in Commits \union {None}
    BY <2>1, ContentsTyped DEF TypeOK
  <2>3. TypeOK'
    BY <1>1, <2>1, <2>2 DEF TypeOK
  <2>4. PathsAreComplete' /\ PathsAreNamed'
    BY <1>1, <2>1 DEF TypeOK, PathsAreComplete, PathsAreNamed
  <2>5. OpenIsThere' /\ AlignedIsCoherent'
    BY <1>1, <1>3, <2>1 DEF TypeOK, OpenIsThere, AlignedIsCoherent, VectorsPinned
  <2>. QED
    BY <1>2, <2>3, <2>4, <2>5
<1>7. CASE OpenVectors(i)
  <2>1. PICK found \in {VectorsAt(vectorPath[i]), None} : vectors' = [vectors EXCEPT ![i] = found]
    BY <1>7 DEF OpenVectors
  <2>2. serving[i] = "graph open" /\ serving' = [serving EXCEPT ![i] = "open"]
        /\ UNCHANGED <<graphPath, vectorPath, graph, report, indexing>>
    BY <1>7 DEF OpenVectors
  <2>3. found \in Commits \union {None}
    BY <2>1, ContentsTyped DEF TypeOK
  <2>4. TypeOK'
    BY <1>1, <2>1, <2>2, <2>3 DEF TypeOK
  <2>5. PathsAreComplete' /\ PathsAreNamed'
    BY <1>1, <2>2 DEF TypeOK, PathsAreComplete, PathsAreNamed
  <2>6. OpenIsThere' /\ AlignedIsCoherent'
    BY <1>1, <1>3, <2>1, <2>2 DEF TypeOK, OpenIsThere, AlignedIsCoherent, VectorsPinned
  <2>. QED
    BY <1>2, <2>4, <2>5, <2>6
<1>8. CASE Start(i)
  <2>1. PICK g \in {graph[i], None}, v \in {VectorsAt(vectorPath[i]), None} :
          report' = [report EXCEPT ![i] = Alignment(g, v)]
    BY <1>8 DEF Start
  <2>2. serving[i] = "open" /\ serving' = [serving EXCEPT ![i] = "up"]
        /\ UNCHANGED <<graphPath, vectorPath, graph, vectors, indexing>>
    BY <1>8 DEF Start
  <2>3. /\ Alignment(g, v) \in {"OK", "OK, coordinate missing", "failed"}
        /\ Alignment(g, v) = "OK" => g = graph[i] /\ v = VectorsAt(vectorPath[i]) /\ g = v
    BY <2>1 DEF Alignment
  <2>4. TypeOK'
    BY <1>1, <2>1, <2>2, <2>3 DEF TypeOK
  <2>5. PathsAreComplete' /\ PathsAreNamed' /\ OpenIsThere'
    BY <1>1, <1>3, <2>2 DEF TypeOK, PathsAreComplete, PathsAreNamed, OpenIsThere, VectorsPinned
  <2>6. AlignedIsCoherent'
    BY <1>1, <2>1, <2>2, <2>3 DEF TypeOK, OpenIsThere, AlignedIsCoherent, VectorsPinned
  <2>. QED
    BY <1>2, <2>4, <2>5, <2>6
<1>9. CASE Stop(i)
  <2>1. TypeOK'
    BY <1>1, <1>9 DEF TypeOK, Stop
  <2>2. PathsAreComplete' /\ PathsAreNamed'
    BY <1>1, <1>9 DEF TypeOK, Stop, PathsAreComplete, PathsAreNamed
  <2>3. OpenIsThere' /\ AlignedIsCoherent'
    BY <1>1, <1>3, <1>9 DEF TypeOK, Stop, OpenIsThere, AlignedIsCoherent, VectorsPinned
  <2>. QED
    BY <1>2, <2>1, <2>2, <2>3
<1>. QED
  BY <1>4, <1>5, <1>6, <1>7, <1>8, <1>9

\* ops.index rewrites one directory and marks it. It neither sets nor removes a
\* sentinel, and makes a directory only where none of a version's name is gone.
LEMMA IndexMoves ==
  ASSUME DatasetInv, NEW i \in Instances, NEW c \in Commits, RefreshVectors(i, c) \/ RefreshGraph(i, c)
  PROVE  DatasetInv'
<1>. USE DEF DatasetInv, pipelineVars, pathVars, openVars
<1>1. UNCHANGED <<current, lock, step, commit, serving, graphPath, vectorPath, graph, vectors, report>>
      /\ indexing' \in [Instances -> BOOLEAN]
  BY DEF RefreshVectors, RefreshGraph, TypeOK
<1>2. CASE UNCHANGED <<versions, refreshed>>
  <2>1. TypeOK' /\ RunHasCommit' /\ OneBuild' /\ BuildIsHidden'
    BY <1>1, <1>2 DEF TypeOK, RunHasCommit, Running, OneBuild, Building, BuildIsHidden
  <2>2. CompleteIsGated' /\ CurrentIsComplete' /\ OthersArePlain' /\ DirsKept
    BY <1>1, <1>2 DEF TypeOK, CompleteIsGated, CurrentIsComplete, OthersArePlain, DirsKept
  <2>. QED
    BY <1>1, <2>1, <2>2, InstancesKept
<1>3. CASE ~ UNCHANGED <<versions, refreshed>>
  <2>1. PICK path \in {graphPath[i], vectorPath[i]} :
          /\ Rewritable(path) /\ path # None /\ refreshed' = refreshed \union {Target(path)}
          /\ \/ versions' = [versions EXCEPT ![Target(path)].exists = TRUE, ![Target(path)].vector = c]
             \/ versions' = [versions EXCEPT ![Target(path)].exists = TRUE, ![Target(path)].graph = c]
    BY <1>3 DEF RefreshVectors, RefreshGraph, PathsAreNamed
  <2>. DEFINE d == Target(path)
  <2>2. path \in Dirs \union {Pointer} /\ d \in Dirs
    <3>1. path \in Dirs \union {None, Pointer} /\ current \in Dirs \union {None}
      BY DEF TypeOK
    <3>. QED
      BY <2>1, <3>1 DEF Rewritable, Leads, Target
  <2>3. d \in Commits => Promotable(versions[d])
    BY <2>1, <2>2 DEF Target, PathsAreComplete, CurrentIsComplete
  <2>4. versions[d] \in Version
    BY <2>2 DEF TypeOK
  <2>5. /\ versions' \in [Dirs -> Version] /\ \A e \in Dirs \ {d} : versions'[e] = versions[e]
        /\ versions'[d].exists /\ versions'[d].building = versions[d].building
    <3>1. versions \in [Dirs -> Version]
      BY DEF TypeOK
    <3>2. PICK v \in Version : versions' = [versions EXCEPT ![d] = v] /\ v.exists /\ v.building = versions[d].building
      <4>1. CASE versions' = [versions EXCEPT ![d].exists = TRUE, ![d].vector = c]
        <5>1. versions' = [versions EXCEPT ![d] = [versions[d] EXCEPT !.exists = TRUE, !.vector = c]]
          BY <4>1, <3>1, <2>2
        <5>. DEFINE v == [versions[d] EXCEPT !.exists = TRUE, !.vector = c]
        <5>2. v \in Version /\ v.exists /\ v.building = versions[d].building
          BY <2>4 DEF Version
        <5>. QED
          BY <5>1, <5>2
      <4>2. CASE versions' = [versions EXCEPT ![d].exists = TRUE, ![d].graph = c]
        <5>1. versions' = [versions EXCEPT ![d] = [versions[d] EXCEPT !.exists = TRUE, !.graph = c]]
          BY <4>2, <3>1, <2>2
        <5>. DEFINE v == [versions[d] EXCEPT !.exists = TRUE, !.graph = c]
        <5>2. v \in Version /\ v.exists /\ v.building = versions[d].building
          BY <2>4 DEF Version
        <5>. QED
          BY <5>1, <5>2
      <4>. QED
        BY <2>1, <4>1, <4>2
    <3>. QED
      BY <3>1, <3>2, <2>2
  <2>6. TypeOK' /\ RunHasCommit' /\ OneBuild'
    BY <1>1, <2>1, <2>2, <2>5 DEF TypeOK, RunHasCommit, Running, OneBuild, Building
  <2>7. Commits \subseteq Dirs /\ Builds \subseteq Dirs /\ Strays \subseteq Dirs
    BY DirsAre
  <2>8. BuildIsHidden'
    BY <1>1, <2>5, <2>7 DEF BuildIsHidden, RunHasCommit, Running
  <2>9. CompleteIsGated' /\ CurrentIsComplete' /\ OthersArePlain'
    BY <1>1, <2>1, <2>3, <2>5, <2>7 DEF CompleteIsGated, CurrentIsComplete, OthersArePlain, Promotable
  <2>10. DirsKept
    BY <2>1, <2>2, <2>3, <2>5, <2>7 DEF DirsKept, Promotable, TypeOK
  <2>. QED
    BY <1>1, <2>6, <2>8, <2>9, <2>10, InstancesKept
<1>. QED
  BY <1>2, <1>3

(***************************************************************************)
(* The theorems                                                            *)
(***************************************************************************)
\* The parts of DatasetInv hold together in every reachable state.
THEOREM DatasetInvariant == Spec => []DatasetInv
<1>1. ASSUME DatasetInv, [Next]_vars PROVE DatasetInv'
  <2>1. ASSUME NEW b \in Builds, Pipeline(b) PROVE DatasetInv'
    BY <1>1, <2>1, RunMoves, BuildMoves, PointerMoves DEF Pipeline, Builder
  <2>2. CASE Operator
    BY <1>1, <2>2, OperatorMoves, PointerMoves DEF Operator
  <2>3. ASSUME NEW i \in Instances, Instance(i) PROVE DatasetInv'
    BY <1>1, <2>3, InstanceMoves, IndexMoves DEF Instance
  <2>4. CASE UNCHANGED vars
    <3>1. TypeOK' /\ RunHasCommit' /\ OneBuild' /\ BuildIsHidden'
      BY <1>1, <2>4 DEF vars, pipelineVars, instanceVars, pathVars, openVars, DatasetInv, TypeOK,
         RunHasCommit, Running, OneBuild, Building, BuildIsHidden
    <3>2. CompleteIsGated' /\ CurrentIsComplete' /\ OthersArePlain' /\ DirsKept
      BY <1>1, <2>4 DEF vars, instanceVars, DatasetInv, TypeOK, CompleteIsGated, CurrentIsComplete,
         OthersArePlain, DirsKept
    <3>3. UNCHANGED <<serving, pathVars, openVars, report>>
      BY <2>4 DEF vars, instanceVars
    <3>. QED
      BY <1>1, <3>1, <3>2, <3>3, InstancesKept DEF DatasetInv
  <2>. QED
    BY <1>1, <2>1, <2>2, <2>3, <2>4 DEF Next
<1>. QED
  BY InitHolds, <1>1, PTL DEF Spec

\* The state of pipelines, operator and instances is well typed.
THEOREM DatasetTypeCorrect == Spec => []TypeOK
BY DatasetInvariant, PTL DEF DatasetInv

\* However many runs are started, killed and cleaned up after, one builds.
THEOREM OneBuildSafe == Spec => []OneBuild
BY DatasetInvariant, PTL DEF DatasetInv

\* A pointer to a version name leads to a complete version whose gate passed, or
\* that ops.index has rewritten since.
THEOREM CurrentSafe == Spec => []CurrentIsGated
<1>1. DatasetInv => CurrentIsGated
  BY DEF DatasetInv, CurrentIsComplete, CompleteIsGated, CurrentIsGated
<1>. QED
  BY <1>1, DatasetInvariant, PTL

\* The versions an instance has pinned are complete, and its indexes of one
\* commit where it compared them, with no regard to how runs, operators and
\* starts interleave.
THEOREM ServedSafe == Spec => []ServedIsSound
<1>1. DatasetInv => ServedIsComplete
  <2>. SUFFICES ASSUME DatasetInv, NEW i \in Instances, serving[i] = "up",
                       NEW c \in {graphPath[i], vectorPath[i]} \intersect Commits
                PROVE  /\ Promotable(versions[c])
                       /\ \A b \in Builds : step[b] \in {"ckv", "gate"} => commit[b] # c
    BY DEF ServedIsComplete
  <2>1. Promotable(versions[c])
    BY DEF DatasetInv, PathsAreComplete
  <2>. QED
    BY <2>1 DEF DatasetInv, BuildIsHidden, Promotable
<1>. QED
  BY <1>1, DatasetInvariant, PTL DEF ServedIsSound, DatasetInv

\* No step but an ops.index call rewrites a complete version.
THEOREM RewriteSafe == Spec => OnlyIndexRewrites
<1>. DEFINE Kept == \A c \in Commits : Promotable(versions[c]) /\ versions'[c] # versions[c] => c \in refreshed'
<1>1. ASSUME DatasetInv, [Next]_vars PROVE Kept
  <2>. USE DirsAre
  <2>1. ASSUME NEW b \in Builds, Builder(b) PROVE Kept
    BY <1>1, <2>1, BuildTouches
  <2>2. ASSUME NEW d \in Dirs, CleanUp(d) PROVE Kept
    <3>1. versions' = [versions EXCEPT ![d] = Absent] /\ (versions[d].building \/ d \in Builds)
      BY <2>2 DEF CleanUp
    <3>2. \A e \in Commits \ {d} : versions'[e] = versions[e]
      BY <1>1, <3>1 DEF DatasetInv, TypeOK
    <3>3. d \in Commits => ~ Promotable(versions[d])
      BY <3>1 DEF Promotable
    <3>. QED
      BY <3>2, <3>3
  <2>3. ASSUME NEW i \in Instances, NEW c \in Commits, RefreshVectors(i, c) PROVE Kept
    BY <1>1, <2>3 DEF DatasetInv, TypeOK, RefreshVectors
  <2>4. ASSUME NEW i \in Instances, NEW c \in Commits, RefreshGraph(i, c) PROVE Kept
    BY <1>1, <2>4 DEF DatasetInv, TypeOK, RefreshGraph
  <2>5. CASE versions' = versions
    BY <2>5
  <2>6. ASSUME NEW b \in Builds, Pipeline(b) PROVE Kept
    BY <2>1, <2>5, <2>6 DEF Pipeline, Builder, Invoke, AcquireLock, LockBusy, Promote, Restart, BuildFails, Kill
  <2>7. CASE Operator
    BY <2>2, <2>5, <2>7 DEF Operator, RemoveLock, PromoteByHand
  <2>8. ASSUME NEW i \in Instances, Instance(i) PROVE Kept
    BY <2>3, <2>4, <2>5, <2>8 DEF Instance, ResolveGraph, ResolveVectors, OpenGraph, OpenVectors, Start, Stop
  <2>. QED
    BY <1>1, <2>5, <2>6, <2>7, <2>8 DEF Next, vars
<1>. QED
  BY <1>1, DatasetInvariant, PTL DEF Spec, OnlyIndexRewrites
=============================================================================
