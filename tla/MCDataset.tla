------------------------------ MODULE MCDataset ------------------------------
(***************************************************************************)
(* Two commits, two pipeline processes and one instance. Commits are       *)
(* interchangeable, and so are processes.                                  *)
(***************************************************************************)
EXTENDS Dataset, Naturals, TLC

AnyName == Permutations(Commits) \union Permutations(Builds)

\* Bounds: ops.index rewrites one directory and no instance starts afterwards;
\* beside an instance that is not down there are two directories, and one
\* process that runs or has left a staging directory. Without an instance both
\* processes run as they like.
OneRefreshed ==
  /\ Cardinality(refreshed) <= 1
  /\ refreshed # {} => \A i \in Instances : serving[i] \in {"down", "up"}

Beside ==
  (\E i \in Instances : serving[i] # "down") =>
    /\ Cardinality({d \in Dirs : versions[d].exists}) <= 2
    /\ Cardinality({b \in Builds : Running(b) \/ versions[Staging(b)].exists}) <= 1
=============================================================================
