---------------------------- MODULE AdapterSession ----------------------------
(***************************************************************************)
(* One call of an adapter: AdapterSupervisor::run on unix                  *)
(* (promptectomy-protocol, supervisor.rs), its exchange with the adapter   *)
(* over the protocol, and the end of the adapter's process group.          *)
(*                                                                         *)
(* The supervisor polls five things in a fixed order (the biased select):  *)
(* the cancellation, the deadline, the overflow of stderr, the exchange    *)
(* and the exit of the child.  Each poll is a step, so any of the five may *)
(* become ready between two of them.                                       *)
(*                                                                         *)
(* Abstractions:                                                           *)
(*  - the adapter is external and may write any frame at any time, write   *)
(*    to stderr, start a descendant, exit, or be killed by someone else;   *)
(*    the descendant shares its streams until it closes them;              *)
(*  - a frame is written and read whole; a stream that is closed, or that  *)
(*    ends in the middle of a frame, is a frame that is no message;        *)
(*  - SIGKILL to the group takes effect at once on all its members;        *)
(*  - stderr is counted in units, MaxStderr being max_stderr_bytes.        *)
(***************************************************************************)
EXTENDS Protocol

CONSTANTS
    Configs,     \* supervisor configurations a caller may use
    Requests,    \* requests a caller may make
    PeerFrames,  \* the frames an adapter may send, apart from those that echo
    MaxStderr,   \* how much of stderr is tolerated
    MaxFrames,   \* bound on the frames an adapter sends
    MaxUnread    \* bound on the frames the pipe of its stdout holds

VARIABLES
    config,      \* the supervisor's configuration
    request,     \* the message to be answered
    sup,         \* idle, selecting, grace, killing, draining, returned
    poll,        \* what the select polls next
    exchange,    \* where the exchange is
    peer,        \* the hello of the adapter that the exchange has taken
    response,    \* the message the exchange took for the response
    outcome,     \* what ended the select
    result,      \* what run returned: None, "answer" or an error
    stdin,       \* the frames written to the adapter
    stdout,      \* the frames it wrote that are not read yet
    frames,      \* how many it wrote
    child,       \* none, running, exited, signaled
    descendant,  \* none, in the group, quiet (in it, its streams closed) or escaped from it
    stderr,      \* units written to stderr
    captured,    \* units read from it
    cancelled,   \* the caller's cancellation
    expired      \* the deadline of the call is over

host == <<config, request, sup, poll, outcome, result>>
talk == <<exchange, peer, response, stdin>>
tree == <<child, descendant>>
vars == <<host, talk, tree, stdout, frames, stderr, captured, cancelled, expired>>

ProtocolError == "protocol"

SupervisorError ==
    {"invalid_config", "invalid_request", "endpoint_mismatch", "spawn", ProtocolError,
     "unexpected_message", "peer_identity_mismatch", "negotiation_mismatch",
     "response_mismatch", "exited", "signaled", "timed_out", "cancelled",
     "stderr_too_large", "stderr_read", "termination"}

Polls == <<"cancellation", "deadline", "stderr", "exchange", "exit">>

Stages ==
    {"hello_out", "hello_in", "ready_out", "ready_in", "request_out", "response_in",
     "over"} \cup SupervisorError

ASSUME BoundsAssumption == MaxStderr \in Nat /\ MaxFrames \in Nat /\ MaxUnread \in Nat

\* Limits and sizes are unsigned integers in every dimension.
ASSUME FramesAssumption ==
    /\ \A c \in Configs : c.limits \in ProtocolLimits /\ c.max_response \in Nat
    /\ \A m \in Requests \cup PeerFrames : m.size \in ProtocolLimits
    /\ \A m \in PeerFrames : m.kind = "hello" => m.body.limits \in ProtocolLimits

ASSUME NoneAssumption ==
    /\ None \notin SupervisorError \cup {"answer", "response", "exit"}
    /\ None \notin PeerFrames

TypeOK ==
    /\ config \in Configs \cup {None}
    /\ request \in Requests \cup {None}
    /\ sup \in {"idle", "selecting", "grace", "killing", "draining", "returned"}
    /\ poll \in 1..Len(Polls)
    /\ exchange \in Stages
    /\ peer = None \/ hello_validate(peer)
    /\ response = None \/ response.kind \in {"result", "failure"}
    /\ outcome \in {None, "response", "exit"} \cup SupervisorError
    /\ result \in {None, "answer"} \cup SupervisorError
    /\ Len(stdin) <= 3 /\ Len(stdout) <= frames /\ frames \in 0..MaxFrames
    /\ child \in {"none", "running", "exited", "signaled"}
    /\ descendant \in {"none", "group", "quiet", "escaped"}
    /\ stderr \in 0..(MaxStderr + 1) /\ captured \in 0..stderr
    /\ cancelled \in BOOLEAN /\ expired \in BOOLEAN

Init ==
    /\ config = None /\ request = None
    /\ sup = "idle" /\ poll = 1
    /\ exchange = "hello_out" /\ peer = None /\ response = None
    /\ outcome = None /\ result = None
    /\ stdin = <<>> /\ stdout = <<>> /\ frames = 0
    /\ child = "none" /\ descendant = "none"
    /\ stderr = 0 /\ captured = 0
    /\ cancelled \in BOOLEAN /\ expired = FALSE
-----------------------------------------------------------------------------
(* The call *)

ControlPlaneHello(c) ==
    /\ c.hello.protocol /\ c.hello.major = Major
    /\ c.hello.endpoint = "control_plane"
    /\ c.hello.limits = c.limits
    /\ c.peer # "control_plane"

\* usable: its other bounds, its executable and its private directory are in order.
PreparedConfig(c) ==
    IF ~limits_validate(c.limits) THEN ProtocolError
    ELSE IF ~ControlPlaneHello(c) THEN "peer_identity_mismatch"
    ELSE IF c.max_response \notin Floor["frame"]..c.limits["frame"] \/ ~c.usable
         THEN "invalid_config" ELSE None

validate_request(r, endpoint) ==
    IF r.id = None \/ r.kind # "request" THEN "invalid_request"
    ELSE IF r.body.endpoint # endpoint THEN "endpoint_mismatch" ELSE None

\* A deadline of the request that has passed leaves no time at all.
effective_runtime(r) == IF r.body.past THEN 0 ELSE 1

\* Why run returns without starting anything.
refusal(c, r) ==
    IF PreparedConfig(c) # None THEN PreparedConfig(c)
    ELSE IF validate_request(r, c.peer) # None THEN validate_request(r, c.peer)
    ELSE IF ~encode_message(r, c.limits) THEN ProtocolError
    ELSE IF effective_runtime(r) = 0 THEN "timed_out"
    ELSE IF cancelled THEN "cancelled" ELSE None

run_unix ==
    /\ sup = "idle"
    /\ config' \in Configs
    /\ request' \in Requests
    /\ \/ /\ refusal(config', request') # None
          /\ result' = refusal(config', request')
          /\ sup' = "returned"
          /\ UNCHANGED child
       \/ /\ refusal(config', request') = None
          /\ result' = "spawn"
          /\ sup' = "returned"
          /\ UNCHANGED child
       \/ /\ refusal(config', request') = None
          /\ sup' = "selecting"
          /\ child' = "running"
          /\ UNCHANGED result
    /\ UNCHANGED <<poll, outcome, talk, descendant, stdout, frames, stderr, captured,
                   cancelled, expired>>
-----------------------------------------------------------------------------
(* The exchange *)

response_limits == [config.limits EXCEPT !["frame"] = config.max_response]

\* The limits both sides agreed on.
negotiated == negotiate(config.hello, peer)

negotiated_response_limits ==
    LET frame == negotiated.limits["frame"]
    IN [negotiated.limits EXCEPT
            !["frame"] = IF config.max_response < frame THEN config.max_response ELSE frame]

\* The frames of the handshake: a ready repeats the whole agreement and nests deeper.
HelloFrame(h) ==
    [kind |-> "hello", id |-> None, sound |-> TRUE, size |-> Floor, body |-> h]
ReadyFrame(n) ==
    [kind |-> "ready", id |-> None, sound |-> TRUE,
     size |-> [d \in Dimensions |-> Floor[d] + 1], body |-> n]

\* Somebody has the adapter's ends of its streams.
Held == child = "running" \/ descendant \in {"group", "escaped"}

\* A frame goes out under limits l if it fits and the adapter, which may close its stdin
\* at any time, has it open.
write_frame(m, l, next) ==
    \/ /\ encode_message(m, l) /\ Held
       /\ stdin' = Append(stdin, m)
       /\ exchange' = next
    \/ /\ exchange' = ProtocolError
       /\ UNCHANGED stdin

write_hello ==
    /\ exchange = "hello_out"
    /\ write_frame(HelloFrame(config.hello), config.limits, "hello_in")
    /\ UNCHANGED <<peer, response, stdout>>

\* Nothing more can come out of the adapter's stdout.
StreamOver == stdout = <<>> /\ ~Held

\* The exchange fails because there is no frame, or none that limits l allow.
read_fails(l) ==
    /\ StreamOver \/ (stdout # <<>> /\ ~decode_message(Head(stdout), l))
    /\ exchange' = ProtocolError
    /\ stdout' = IF stdout = <<>> THEN stdout ELSE Tail(stdout)
    /\ UNCHANGED <<peer, response, stdin>>

hello_error(m) ==
    IF m.id # None THEN "negotiation_mismatch"
    ELSE IF m.kind # "hello" THEN "unexpected_message"
    ELSE IF m.body.endpoint # config.peer THEN "peer_identity_mismatch"
    ELSE IF negotiate(config.hello, m.body) = None THEN ProtocolError ELSE None

read_hello ==
    /\ exchange = "hello_in"
    /\ \/ read_fails(response_limits)
       \/ /\ stdout # <<>> /\ decode_message(Head(stdout), response_limits)
          /\ LET error == hello_error(Head(stdout))
             IN /\ exchange' = IF error = None THEN "ready_out" ELSE error
                /\ peer' = IF error = None THEN Head(stdout).body ELSE None
          /\ stdout' = Tail(stdout)
          /\ UNCHANGED <<response, stdin>>

write_ready ==
    /\ exchange = "ready_out"
    /\ write_frame(ReadyFrame(negotiated), negotiated.limits, "ready_in")
    /\ UNCHANGED <<peer, response, stdout>>

ready_error(m) ==
    IF m.id # None THEN "negotiation_mismatch"
    ELSE IF m.kind # "ready" THEN "unexpected_message"
    ELSE IF m.body # negotiated THEN "negotiation_mismatch" ELSE None

read_ready ==
    /\ exchange = "ready_in"
    /\ \/ read_fails(negotiated_response_limits)
       \/ /\ stdout # <<>> /\ decode_message(Head(stdout), negotiated_response_limits)
          /\ LET error == ready_error(Head(stdout))
             IN exchange' = IF error = None THEN "request_out" ELSE error
          /\ stdout' = Tail(stdout)
          /\ UNCHANGED <<peer, response, stdin>>

write_request ==
    /\ exchange = "request_out"
    /\ write_frame(request, negotiated.limits, "response_in")
    /\ UNCHANGED <<peer, response, stdout>>

\* Mutant: any message with the id of the request answers it.
correlates_by_id(m) == m.id = request.id

correlates(m) == m.id = request.id /\ m.kind \in {"result", "failure"}

read_response ==
    /\ exchange = "response_in"
    /\ \/ read_fails(negotiated_response_limits)
       \/ /\ stdout # <<>> /\ decode_message(Head(stdout), negotiated_response_limits)
          /\ exchange' = IF correlates(Head(stdout)) THEN "over" ELSE "response_mismatch"
          /\ response' = IF correlates(Head(stdout)) THEN Head(stdout) ELSE None
          /\ stdout' = Tail(stdout)
          /\ UNCHANGED <<peer, stdin>>

\* There is no frame yet, or the adapter does not make room for one.
exchange_pending ==
    /\ Held
    /\ exchange \in {"hello_in", "ready_in", "response_in"} => stdout = <<>>
    /\ UNCHANGED <<talk, stdout>>
-----------------------------------------------------------------------------
(* The select *)

Polling(branch) == sup = "selecting" /\ Polls[poll] = branch

polled == UNCHANGED <<config, request, result, tree, frames, stderr, captured, cancelled, expired>>

\* The select goes on, or ends with what is ready.
Continue == poll' = (poll % Len(Polls)) + 1 /\ UNCHANGED <<sup, outcome>>
Selects(what, next) == outcome' = what /\ sup' = next /\ UNCHANGED poll

cancellation_requested ==
    /\ Polling("cancellation")
    /\ IF cancelled THEN Selects("cancelled", "killing") ELSE Continue
    /\ polled /\ UNCHANGED <<talk, stdout>>

\* Mutant: the deadline is that of the handshake.
deadline_reached_early ==
    /\ Polling("deadline")
    /\ IF expired /\ exchange # "response_in" THEN Selects("timed_out", "killing") ELSE Continue
    /\ polled /\ UNCHANGED <<talk, stdout>>

deadline_reached ==
    /\ Polling("deadline")
    /\ IF expired THEN Selects("timed_out", "killing") ELSE Continue
    /\ polled /\ UNCHANGED <<talk, stdout>>

stderr_exceeded ==
    /\ Polling("stderr")
    /\ IF captured > MaxStderr THEN Selects("stderr_too_large", "killing") ELSE Continue
    /\ polled /\ UNCHANGED <<talk, stdout>>

poll_exchange ==
    /\ Polling("exchange")
    /\ \/ write_hello \/ read_hello \/ write_ready \/ read_ready
       \/ write_request \/ read_response \/ exchange_pending
    /\ IF exchange' = "over" THEN Selects("response", "grace")
       ELSE IF exchange' \in SupervisorError THEN Selects(exchange', "grace")
       ELSE Continue
    /\ polled

\* Mutant: a child that has exited leaves nothing behind.
child_exit_without_group ==
    /\ Polling("exit")
    /\ IF child = "running" THEN Continue ELSE Selects("exit", "draining")
    /\ polled /\ UNCHANGED <<talk, stdout>>

\* The group of a child that has exited is killed before its status is reported.
child_exit ==
    /\ Polling("exit")
    /\ IF child = "running" THEN Continue ELSE Selects("exit", "killing")
    /\ polled /\ UNCHANGED <<talk, stdout>>
-----------------------------------------------------------------------------
(* The end of the process group *)

\* After the exchange is over the child has a moment to exit: a failed exchange then
\* gives way to the child's status.
exit_in_grace ==
    /\ sup = "grace"
    /\ child # "running"
    /\ sup' = "killing"
    /\ outcome' = IF outcome = "response" THEN outcome ELSE "exit"
    /\ UNCHANGED <<config, request, poll, result, talk, tree, stdout, frames, stderr, captured,
                   cancelled, expired>>

grace_over ==
    /\ sup = "grace"
    /\ child = "running"
    /\ sup' = "killing"
    /\ UNCHANGED <<config, request, poll, outcome, result, talk, tree, stdout, frames, stderr,
                   captured, cancelled, expired>>

\* SIGKILL to the group; nobody there is fine, any other failure ends the call.
terminate_process_group ==
    /\ sup = "killing"
    /\ \/ /\ sup' = "draining"
          /\ child' = IF child = "running" THEN "signaled" ELSE child
          /\ descendant' = IF descendant = "escaped" THEN descendant ELSE "none"
          /\ UNCHANGED result
       \/ /\ result' = "termination"
          /\ sup' = "returned"
          /\ UNCHANGED tree
    /\ UNCHANGED <<config, request, poll, outcome, talk, stdout, frames, stderr, captured,
                   cancelled, expired>>

exit_error == IF child = "signaled" THEN "signaled" ELSE "exited"

\* stderr is read to its end, which comes when nobody holds it any more; an answer from
\* an adapter that wrote too much is not returned.
finish_stderr ==
    /\ sup = "draining"
    /\ ~Held /\ captured = stderr
    /\ sup' = "returned"
    /\ result' = IF outcome = "response"
                 THEN IF captured > MaxStderr THEN "stderr_too_large" ELSE "answer"
                 ELSE IF outcome = "exit" THEN exit_error ELSE outcome
    /\ UNCHANGED <<config, request, poll, outcome, talk, tree, stdout, frames, stderr, captured,
                   cancelled, expired>>

stderr_read_fails ==
    /\ sup = "draining"
    /\ sup' = "returned"
    /\ result' = "stderr_read"
    /\ UNCHANGED <<config, request, poll, outcome, talk, tree, stdout, frames, stderr, captured,
                   cancelled, expired>>

\* The task that drains stderr, next to the select and to the end.
capture_stderr ==
    /\ captured < stderr
    /\ captured' = captured + 1
    /\ UNCHANGED <<host, talk, tree, stdout, frames, stderr, cancelled, expired>>
-----------------------------------------------------------------------------
(* The caller, the clock and the adapter *)

cancel ==
    /\ ~cancelled
    /\ cancelled' = TRUE
    /\ UNCHANGED <<host, talk, tree, stdout, frames, stderr, captured, expired>>

deadline_passes ==
    /\ sup = "selecting" /\ ~expired
    /\ expired' = TRUE
    /\ UNCHANGED <<host, talk, tree, stdout, frames, stderr, captured, cancelled>>

\* An adapter that plays along returns the ready it was sent.
Echoes == {ReadyFrame(stdin[i].body) : i \in {j \in DOMAIN stdin : stdin[j].kind = "ready"}}

child_writes ==
    /\ child = "running"
    /\ frames < MaxFrames /\ Len(stdout) < MaxUnread
    /\ \E m \in PeerFrames \cup Echoes : stdout' = Append(stdout, m)
    /\ frames' = frames + 1
    /\ UNCHANGED <<host, talk, tree, stderr, captured, cancelled, expired>>

child_writes_stderr ==
    /\ Held
    /\ stderr <= MaxStderr
    /\ stderr' = stderr + 1
    /\ UNCHANGED <<host, talk, tree, stdout, frames, captured, cancelled, expired>>

child_forks ==
    /\ child = "running" /\ descendant = "none"
    /\ descendant' = "group"
    /\ UNCHANGED <<host, talk, child, stdout, frames, stderr, captured, cancelled, expired>>

\* A descendant that makes itself the leader of another group is out of reach.
descendant_escapes ==
    /\ descendant = "group"
    /\ descendant' = "escaped"
    /\ UNCHANGED <<host, talk, child, stdout, frames, stderr, captured, cancelled, expired>>

descendant_closes_streams ==
    /\ descendant = "group"
    /\ descendant' = "quiet"
    /\ UNCHANGED <<host, talk, child, stdout, frames, stderr, captured, cancelled, expired>>

child_exits ==
    /\ child = "running"
    /\ child' \in {"exited", "signaled"}
    /\ UNCHANGED <<host, talk, descendant, stdout, frames, stderr, captured, cancelled, expired>>

Adapter ==
    \/ child_writes \/ child_writes_stderr \/ child_forks \/ descendant_escapes
    \/ descendant_closes_streams \/ child_exits

Supervisor ==
    \/ cancellation_requested \/ deadline_reached \/ stderr_exceeded \/ poll_exchange
    \/ child_exit \/ exit_in_grace \/ grace_over \/ terminate_process_group
    \/ finish_stderr

Next ==
    \/ run_unix \/ Supervisor \/ stderr_read_fails \/ capture_stderr
    \/ cancel \/ deadline_passes \/ Adapter

Spec == Init /\ [][Next]_vars

\* The runtime polls the call and its stderr task, and time passes.  The adapter, its
\* descendants and the caller owe nothing.
Fairness == WF_vars(Supervisor) /\ WF_vars(capture_stderr) /\ WF_vars(deadline_passes)

FairSpec == Spec /\ Fairness
-----------------------------------------------------------------------------
(* Properties *)

\* What the call is to its caller.
Promise == INSTANCE AdapterCall WITH
    Errors <- SupervisorError,
    state <- IF sup \in {"idle", "returned"} THEN sup ELSE "working",
    alive <- child = "running" \/ descendant \in {"group", "quiet"},
    asked <- Len(stdin) = 3,
    answered <- response # None

\* The supervised call implements AdapterCall: run returns once, an answer only after the
\* adapter was asked and answered, and never with a process of its group alive.
CallKeepsPromise == Promise!Spec

\* The limits of both sides hold for the whole session: whatever goes out after the
\* handshake fits what the adapter announced, what is taken for the response fits those
\* limits, the caller's own and max_response_bytes, and an answer is returned only if the
\* adapter, up to the end of its streams, wrote no more to stderr than it may.
AnnouncedLimitsHold ==
    /\ peer # None =>
         \A i \in DOMAIN stdin : i > 1 => validate_json_bounds(stdin[i].size, peer.limits)
    /\ response # None =>
         /\ validate_json_bounds(response.size, response_limits)
         /\ validate_json_bounds(response.size, peer.limits)
    /\ result = "answer" => stderr <= MaxStderr

\* A call that was started returns, at the latest after its deadline, unless a descendant
\* left the process group: finish_stderr then waits for a stream nobody closes.
StartedCallReturns == sup = "selecting" ~> (sup = "returned" \/ descendant = "escaped")
=============================================================================
