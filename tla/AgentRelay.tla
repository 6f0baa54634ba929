------------------------------ MODULE AgentRelay ------------------------------
(***************************************************************************)
(* The SSH agent relay of a brokered fetch (promptectomy-ssh-agent-relay): *)
(* it lets one client use one key of the host's agent, for a bounded       *)
(* number of signatures, once the session is bound to the pinned host key. *)
(*                                                                         *)
(* Abstractions:                                                           *)
(*  - a frame is what it asks for, the key it names and whether it is      *)
(*    well formed (whole);                                                 *)
(*  - the agent, external, may grant or refuse what is forwarded to it;    *)
(*  - a deadline, a stream that fails and a frame that is empty or too     *)
(*    long end the relay alike (relay_gives_up).                           *)
(***************************************************************************)
EXTENDS Integers, FiniteSets, Sequences

CONSTANTS
    MaxSignatures,  \* max_signatures
    HostKey,        \* the pinned host key
    SelectedKey,    \* the key the client may use
    ClientFrames    \* what the client may send

ASSUME RelayAssumption == MaxSignatures \in 1..4

VARIABLES
    relay,        \* what the relay is doing
    grant,        \* its grant file: absent, partial or whole
    bound,        \* whether the session is bound
    signatures,   \* how many signatures it has counted
    receipt,      \* the signatures of the published receipt, 0 if there is none
    agentBound,   \* the host keys the agent has bound the connection to
    agentSigned   \* the keys the agent has signed with, in order

relayVars == <<relay, grant, bound, signatures, receipt, agentBound, agentSigned>>

RelayTypeOK ==
    /\ relay \in {"off", "waiting", "starting", "listening", "relaying", "signed", "answered",
                  "lingering", "exited", "stopped"}
    /\ grant \in {"absent", "partial", "whole"}
    /\ bound \in BOOLEAN
    /\ signatures \in 0..MaxSignatures
    /\ receipt \in 0..MaxSignatures
    /\ Len(agentSigned) <= MaxSignatures

RelayInit ==
    /\ relay = "off"
    /\ grant = "absent"
    /\ bound = FALSE
    /\ signatures = 0
    /\ receipt = 0
    /\ agentBound = {}
    /\ agentSigned = <<>>
-----------------------------------------------------------------------------
(* Start *)

\* A grant that is there is read once: bytes that are not all there yet are no grant.
read_grant ==
    /\ relay = "waiting"
    /\ grant # "absent"
    /\ relay' = IF grant = "whole" THEN "starting" ELSE "exited"
    /\ UNCHANGED <<grant, bound, signatures, receipt, agentBound, agentSigned>>

\* The socket exists from here on.
bind_relay ==
    /\ relay = "starting"
    /\ relay' = "listening"
    /\ UNCHANGED <<grant, bound, signatures, receipt, agentBound, agentSigned>>

\* One client, and one connection to the agent for it.
accept_client ==
    /\ relay = "listening"
    /\ relay' = "relaying"
    /\ UNCHANGED <<grant, bound, signatures, receipt, agentBound, agentSigned>>
-----------------------------------------------------------------------------
(* Frames *)

validate_query(f) == f.whole

validate_session_bind(f) == f.whole /\ f.key = HostKey

validate_sign_request(f) == f.whole /\ f.key = SelectedKey

\* Mutant: one signature too many.
may_sign_once_more == bound /\ signatures <= MaxSignatures

\* Mutant: a session that is not bound may sign.
may_sign_unbound == signatures < MaxSignatures

may_sign == bound /\ signatures < MaxSignatures

\* The agent's keys are reduced to the selected one; what it answered is not needed again.
list_identities(f) ==
    /\ f.kind = "identities" /\ f.whole
    /\ UNCHANGED <<relay, bound, agentBound, agentSigned>>

query_extension(f) ==
    /\ f.kind = "query" /\ validate_query(f)
    /\ UNCHANGED <<relay, bound, agentBound, agentSigned>>

\* An agent that does not bind the session ends the relay.
session_bind(f) ==
    /\ f.kind = "session_bind" /\ validate_session_bind(f)
    /\ \/ /\ agentBound' = agentBound \cup {f.key}
          /\ bound' = TRUE
          /\ UNCHANGED relay
       \/ /\ relay' = "exited"
          /\ UNCHANGED <<bound, agentBound>>
    /\ UNCHANGED agentSigned

\* The agent signs, or refuses and ends the relay.
sign_request(f) ==
    /\ f.kind = "sign" /\ may_sign /\ validate_sign_request(f)
    /\ \/ /\ agentSigned' = Append(agentSigned, f.key)
          /\ relay' = "signed"
       \/ /\ relay' = "exited"
          /\ UNCHANGED agentSigned
    /\ UNCHANGED <<bound, agentBound>>

\* Everything else is answered with a failure.
refuse_frame(f) ==
    /\ \/ f.kind \notin {"identities", "query", "session_bind", "sign"}
       \/ f.kind = "identities" /\ ~f.whole
       \/ f.kind = "query" /\ ~validate_query(f)
       \/ f.kind = "session_bind" /\ ~validate_session_bind(f)
       \/ f.kind = "sign" /\ ~(may_sign /\ validate_sign_request(f))
    /\ UNCHANGED <<relay, bound, agentBound, agentSigned>>

relay_frame ==
    /\ relay = "relaying"
    /\ \E f \in ClientFrames :
         \/ list_identities(f) \/ query_extension(f) \/ session_bind(f)
         \/ sign_request(f) \/ refuse_frame(f)
    /\ UNCHANGED <<grant, signatures, receipt>>

\* The signature is counted and handed to the client before the receipt says so.
answer_signature ==
    /\ relay = "signed"
    /\ signatures' = signatures + 1
    /\ relay' = "answered"
    /\ UNCHANGED <<grant, bound, receipt, agentBound, agentSigned>>

publish_receipt ==
    /\ relay = "answered"
    /\ receipt' = signatures
    /\ relay' = "relaying"
    /\ UNCHANGED <<grant, bound, signatures, agentBound, agentSigned>>

\* The client has closed its end: without a signature that is an error; with one the
\* process stays until it is stopped or its time is over.
client_closes ==
    /\ relay = "relaying"
    /\ relay' = IF bound /\ signatures > 0 THEN "lingering" ELSE "exited"
    /\ UNCHANGED <<grant, bound, signatures, receipt, agentBound, agentSigned>>

\* No grant in time, no client, a frame that is empty or too long, a stream or receipt
\* that fails, or the end of the time.
relay_gives_up ==
    /\ relay \in {"waiting", "starting", "listening", "relaying", "signed", "answered", "lingering"}
    /\ relay' = "exited"
    /\ UNCHANGED <<grant, bound, signatures, receipt, agentBound, agentSigned>>
=============================================================================
