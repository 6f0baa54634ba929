----------------------------- MODULE MCInspection -----------------------------
(* Inspection for TLC. *)
EXTENDS Inspection, TLC

CONSTANTS remote, local1, local2, relayed

MCSourceOf == [t \in Tasks |->
    CASE t = remote -> "https" [] t = relayed -> "ssh" [] OTHER -> "local"]

\* The two local tasks are the same request.
MCSnapshotOf == [t \in Tasks |->
    CASE t = remote -> "s1" [] t = relayed -> "s2" [] OTHER -> "s3"]

Symmetric == Permutations({local1, local2})
=============================================================================
