------------------------------ MODULE AuditChain ------------------------------
(***************************************************************************)
(* What an audit log promises its callers: a chain of records that only    *)
(* grows at its end, and that holds every record whose emission was        *)
(* acknowledged. A record may also be on the chain unacknowledged, when    *)
(* the process died before the call returned.                              *)
(***************************************************************************)
EXTENDS Sequences, Functions

CONSTANT Records

VARIABLES chain, acked

ChainInit == chain = <<>> /\ acked = {}

Emit(r) ==
  /\ r \notin Range(chain)
  /\ chain' = Append(chain, r)
  /\ \/ acked' = acked \union {r}
     \/ acked' = acked

ChainSpec == ChainInit /\ [][\E r \in Records : Emit(r)]_<<chain, acked>>
=============================================================================
