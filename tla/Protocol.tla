------------------------------- MODULE Protocol -------------------------------
(***************************************************************************)
(* The out-of-process adapter protocol (promptectomy-protocol, lib.rs):    *)
(* limits, messages, their validation, and the negotiation of a session.   *)
(*                                                                         *)
(* Abstractions:                                                           *)
(*  - a frame is its message together with the extent of its encoding in   *)
(*    every dimension the limits bound (frame bytes, string bytes, array   *)
(*    items, object members, nesting), not the bytes themselves;           *)
(*  - everything that makes bytes no message at all (JSON that is not      *)
(*    strict, duplicate or unknown members, another schema, control        *)
(*    characters or empty strings) is one flag, "sound";                   *)
(*  - the minor versions, of which the lower is reported, are left out;    *)
(*  - the seven budgets are one amount, and the poll interval another.     *)
(***************************************************************************)
EXTENDS Integers, FiniteSets, Sequences

CONSTANTS
    Dimensions,  \* what the limits bound: frame, string, items, members, depth
    Floor,       \* the least limit in each dimension (4 bytes of frame, otherwise 1)
    Ceiling,     \* the default limit in each dimension, which none may exceed
    MaxBudget,   \* the largest amount of a budget
    MaxPoll,     \* the largest poll interval
    None         \* no value

ASSUME DimensionsAssumption ==
    /\ IsFiniteSet(Dimensions) /\ "frame" \in Dimensions
    /\ Floor \in [Dimensions -> Nat] /\ Ceiling \in [Dimensions -> Nat]
    /\ \A d \in Dimensions : Floor[d] <= Ceiling[d]

ASSUME BudgetAssumption == MaxBudget \in Nat /\ MaxPoll \in Nat

MessageKind == {"hello", "ready", "request", "result", "cancel", "failure"}

EndpointKind ==
    {"control_plane", "python_adapter", "type_script_adapter", "oci_executor", "agent_connector"}

is_allowed_for ==
    [control_plane |-> {},
     python_adapter |-> {"discover_python", "normalize_evidence"},
     type_script_adapter |-> {"discover_type_script", "normalize_evidence"},
     oci_executor |-> {"execute_oci", "accept_oci_backend"},
     agent_connector |-> {"run_agent_task", "cancel_agent_task"}]

Major == 1
-----------------------------------------------------------------------------
(* Limits *)

ProtocolLimits == [Dimensions -> Nat]

limits_validate(l) == \A d \in Dimensions : Floor[d] <= l[d] /\ l[d] <= Ceiling[d]

\* Mutant: the larger of the two frames may be sent.
intersect_widest_frame(a, b) ==
    [d \in Dimensions |-> IF (a[d] <= b[d]) # (d = "frame") THEN a[d] ELSE b[d]]

intersect(a, b) == [d \in Dimensions |-> IF a[d] <= b[d] THEN a[d] ELSE b[d]]

validate_json_bounds(size, l) == \A d \in Dimensions : size[d] <= l[d]
-----------------------------------------------------------------------------
(* Bodies *)

\* A hello: whether it names this protocol, its version, who sends it and what it can do.
hello_validate(h) == h.protocol /\ h.major = Major /\ limits_validate(h.limits)

negotiated_validate(n) == n.protocol /\ n.major = Major /\ limits_validate(n.limits)

budgets_validate(amount) == amount # None => 1 <= amount /\ amount <= MaxBudget

cancellation_validate(poll) == 1 <= poll /\ poll <= MaxPoll

request_validate(b) ==
    /\ b.operation \in is_allowed_for[b.endpoint]
    /\ budgets_validate(b.budget)
    /\ cancellation_validate(b.poll)

result_validate(b) == budgets_validate(b.budget)

\* A cancel and a failure hold strings only.
message_validate(m) ==
    CASE m.kind = "hello" -> hello_validate(m.body)
      [] m.kind = "ready" -> negotiated_validate(m.body)
      [] m.kind = "request" -> request_validate(m.body)
      [] m.kind = "result" -> result_validate(m.body)
      [] OTHER -> TRUE
-----------------------------------------------------------------------------
(* Frames *)

\* What write_frame is able to send under limits l.
encode_message(m, l) ==
    /\ limits_validate(l)
    /\ m.sound /\ message_validate(m)
    /\ validate_json_bounds(m.size, l)

\* What read_frame takes for a message under limits l.
decode_message(m, l) ==
    /\ limits_validate(l)
    /\ validate_json_bounds(m.size, l)
    /\ m.sound
    /\ m.kind \in MessageKind
    /\ message_validate(m)

\* What both sides will speak, or None when they cannot.
negotiate(local, peer) ==
    IF hello_validate(local) /\ hello_validate(peer)
    THEN LET limits == intersect(local.limits, peer.limits)
         IN IF limits_validate(limits)
            THEN [protocol |-> TRUE, major |-> Major,
                  local_endpoint |-> local.endpoint, peer_endpoint |-> peer.endpoint,
                  capabilities |-> local.capabilities \cap peer.capabilities,
                  limits |-> limits]
            ELSE None
    ELSE None
=============================================================================
