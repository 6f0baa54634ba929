--------------------------- MODULE MCProtectedStore ---------------------------
(***************************************************************************)
(* ProtectedStore for TLC: envelopes of one key and of another, and the    *)
(* manifests of one and of two envelopes.                                  *)
(***************************************************************************)
EXTENDS ProtectedStore

CONSTANTS e1, e2, k1

SharedKey == [e \in Envelopes |-> k1]

SingleAndPair == {{e1}, {e1, e2}}
=============================================================================
