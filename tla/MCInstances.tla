----------------------------- MODULE MCInstances -----------------------------
(***************************************************************************)
(* Two instances over three ports. Process ids are interchangeable.        *)
(***************************************************************************)
EXTENDS Instances, TLC

AnyPid == Permutations(Pids)
=============================================================================
