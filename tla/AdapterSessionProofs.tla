------------------------- MODULE AdapterSessionProofs -------------------------
(***************************************************************************)
(* One supervised call, for any configuration, request, limits and frames  *)
(* an adapter may send.  The argument: the frames written to the adapter   *)
(* are determined by the stage of the exchange (StageInv), the readings    *)
(* after the hello use limits that lie below those of both sides, and from *)
(* the kill of the process group on nothing of it is alive (EndInv).       *)
(***************************************************************************)
EXTENDS AdapterSession, SequenceTheorems, TLAPS

Hellos == {m \in PeerFrames : m.kind = "hello"}

\* What may come out of the adapter's stdout: its own frames and readies it echoes.
Readies == {ReadyFrame(negotiate(c.hello, m.body)) : c \in Configs, m \in Hellos}

\* The configuration and the request that run_unix lets pass.
Accepted ==
    /\ config \in Configs
    /\ request \in Requests
    /\ PreparedConfig(config) = None
    /\ request.kind = "request"

\* The hello of the adapter has been taken, and there is an agreement.
Agreed ==
    /\ Accepted
    /\ \E m \in Hellos : peer = m.body
    /\ negotiate(config.hello, peer) # None

\* The frames of the handshake and the request, in their order.
Sent1 == <<HelloFrame(config.hello)>>
Sent2 == <<HelloFrame(config.hello), ReadyFrame(negotiated)>>
Sent3 == <<HelloFrame(config.hello), ReadyFrame(negotiated), request>>

\* What was written, and which hello and response were taken, at every stage.
StageInv ==
    /\ \/ stdin = <<>>
       \/ stdin = Sent1
       \/ stdin \in {Sent2, Sent3} /\ Agreed
    /\ exchange = "hello_out" => stdin = <<>>
    /\ exchange \in {"hello_in", "ready_out"} => stdin = Sent1
    /\ exchange \in {"ready_in", "request_out"} => stdin = Sent2
    /\ exchange \in {"response_in", "over"} => stdin = Sent3
    /\ exchange = "ready_out" => Agreed
    /\ exchange \in {"hello_out", "hello_in"} => peer = None
    /\ peer # None => Agreed
    /\ response # None <=> exchange = "over"

\* Where the call is, what ended its select, and who is left of the process group.
EndInv ==
    /\ sup = "idle" => exchange = "hello_out"
    /\ sup \notin {"idle", "returned"} => Accepted
    /\ sup \in {"grace", "killing", "draining"} =>
         outcome \in {"response", "exit"} \cup SupervisorError
    /\ sup \in {"idle", "selecting"} => outcome = None
    /\ outcome = "response" => exchange = "over"
    /\ sup = "draining" => child # "running" /\ descendant \notin {"group", "quiet"}
    /\ sup # "returned" => result = None
    /\ result = "answer" => ~Held
    /\ stdout \in Seq(PeerFrames \cup Readies)

Inv == TypeOK /\ StageInv /\ EndInv /\ AnnouncedLimitsHold

USE DEF host, talk, tree

-----------------------------------------------------------------------------
(* Limits *)

\* What the supervisor has checked of its configuration before anything is started.
LEMMA Prepared ==
    ASSUME NEW c \in Configs, PreparedConfig(c) = None
    PROVE  /\ limits_validate(c.limits)
           /\ ControlPlaneHello(c)
           /\ c.limits \in ProtocolLimits /\ c.max_response \in Nat
BY NoneAssumption, FramesAssumption DEF PreparedConfig, SupervisorError, ProtocolError

\* An agreement is one of two valid hellos, with the limits of both.
LEMMA NegotiatedIs ==
    ASSUME NEW local, NEW other, negotiate(local, other) # None
    PROVE  /\ hello_validate(local) /\ hello_validate(other)
           /\ negotiate(local, other).limits = intersect(local.limits, other.limits)
BY DEF negotiate

\* The common limits lie below those of either side in every dimension.
LEMMA IntersectBelow ==
    ASSUME NEW a \in ProtocolLimits, NEW b \in ProtocolLimits
    PROVE  /\ intersect(a, b) \in ProtocolLimits
           /\ \A d \in Dimensions : intersect(a, b)[d] <= a[d] /\ intersect(a, b)[d] <= b[d]
BY DEF intersect, ProtocolLimits

\* What fits smaller limits fits larger ones.
LEMMA BoundsAreMonotone ==
    ASSUME NEW size \in ProtocolLimits, NEW a \in ProtocolLimits, NEW b \in ProtocolLimits,
           \A d \in Dimensions : a[d] <= b[d], validate_json_bounds(size, a)
    PROVE  validate_json_bounds(size, b)
BY DEF validate_json_bounds, ProtocolLimits

\* The agreed limits are below the caller's and the adapter's.
LEMMA AgreedLimits ==
    ASSUME Agreed
    PROVE  /\ config.limits \in ProtocolLimits /\ config.max_response \in Nat
           /\ peer.limits \in ProtocolLimits
           /\ negotiated.limits \in ProtocolLimits
           /\ \A d \in Dimensions : /\ negotiated.limits[d] <= config.limits[d]
                                    /\ negotiated.limits[d] <= peer.limits[d]
           /\ hello_validate(peer)
<1>1. /\ config \in Configs /\ config.hello.limits = config.limits
      /\ config.limits \in ProtocolLimits /\ config.max_response \in Nat
  BY Prepared DEF Agreed, Accepted, ControlPlaneHello
<1>2. peer.limits \in ProtocolLimits
  BY FramesAssumption DEF Agreed, Hellos
<1>3. /\ negotiated.limits = intersect(config.limits, peer.limits)
      /\ hello_validate(peer)
  BY <1>1, NegotiatedIs DEF Agreed, negotiated
<1> QED  BY <1>1, <1>2, <1>3, IntersectBelow

\* A frame read under the agreed limits and max_response_bytes fits both sides' limits.
LEMMA ResponseLimits ==
    ASSUME Agreed, NEW size \in ProtocolLimits,
           validate_json_bounds(size, negotiated_response_limits)
    PROVE  /\ validate_json_bounds(size, response_limits)
           /\ validate_json_bounds(size, peer.limits)
<1> DEFINE n == negotiated.limits
           frame == IF config.max_response < n["frame"] THEN config.max_response ELSE n["frame"]
<1>1. negotiated_response_limits = [n EXCEPT !["frame"] = frame]
  BY DEF negotiated_response_limits
<1>2. /\ n \in ProtocolLimits /\ config.limits \in ProtocolLimits
      /\ peer.limits \in ProtocolLimits /\ config.max_response \in Nat
      /\ \A d \in Dimensions : n[d] <= config.limits[d] /\ n[d] <= peer.limits[d]
  BY AgreedLimits
<1>3. frame \in Nat /\ frame <= config.max_response /\ frame <= n["frame"]
  BY <1>2, DimensionsAssumption DEF ProtocolLimits
<1> HIDE DEF n, frame
<1>4. /\ negotiated_response_limits \in ProtocolLimits
      /\ response_limits \in ProtocolLimits
  BY <1>1, <1>2, <1>3 DEF ProtocolLimits, response_limits
<1>5. \A d \in Dimensions : /\ negotiated_response_limits[d] <= response_limits[d]
                            /\ negotiated_response_limits[d] <= peer.limits[d]
  BY <1>1, <1>2, <1>3, DimensionsAssumption DEF ProtocolLimits, response_limits
<1> QED  BY <1>2, <1>4, <1>5, BoundsAreMonotone

-----------------------------------------------------------------------------
(* Frames *)

\* A frame of the adapter has a size; one that is no ready is the adapter's own.
LEMMA FrameIs ==
    ASSUME NEW m \in PeerFrames \cup Readies
    PROVE  /\ m.size \in ProtocolLimits
           /\ m.kind # "ready" => m \in PeerFrames /\ m # None
<1>1. CASE m \in PeerFrames
  BY <1>1, FramesAssumption, NoneAssumption
<1>2. CASE m \in Readies
  BY <1>2, DimensionsAssumption DEF Readies, ReadyFrame, ProtocolLimits
<1> QED  BY <1>1, <1>2

\* Of the frames sent only the second is a ready, so only that is echoed.
LEMMA EchoIsReady == ASSUME StageInv PROVE Echoes \subseteq Readies
<1> SUFFICES ASSUME NEW i \in DOMAIN stdin, stdin[i].kind = "ready"
             PROVE  ReadyFrame(stdin[i].body) \in Readies
  BY DEF Echoes
<1>1. CASE stdin = <<>>
  BY <1>1
<1>2. CASE stdin = Sent1
  BY <1>2 DEF Sent1, HelloFrame
<1>3. CASE stdin \in {Sent2, Sent3} /\ Agreed
  <2>1. i \in 1..3 /\ (i = 3 => stdin[i] = request)
    BY <1>3 DEF Sent2, Sent3
  <2>2. i = 2 /\ stdin[i] = ReadyFrame(negotiated)
    BY <1>3, <2>1 DEF Sent2, Sent3, HelloFrame, Agreed, Accepted
  <2>3. stdin[i].body = negotiate(config.hello, peer)
    BY <2>2 DEF ReadyFrame, negotiated
  <2> QED  BY <1>3, <2>3 DEF Readies, Agreed, Accepted
<1> QED  BY <1>1, <1>2, <1>3 DEF StageInv

\* The stage of the exchange is kept by what does not touch it.
LEMMA SameStage ==
    ASSUME StageInv, UNCHANGED <<config, request, talk>>
    PROVE  StageInv' /\ (Accepted => Accepted')
BY DEF StageInv, Sent1, Sent2, Sent3, negotiated, Agreed, Accepted

\* Likewise the limits, if the answer is not returned and stderr does not grow.
LEMMA SameLimits ==
    ASSUME AnnouncedLimitsHold, UNCHANGED <<config, talk>>,
           result' = "answer" => stderr' <= MaxStderr
    PROVE  AnnouncedLimitsHold'
BY DEF AnnouncedLimitsHold, response_limits

-----------------------------------------------------------------------------
(* The call *)

\* No error is an answer, a response or an exit.
LEMMA ErrorIs == {"answer", "response", "exit"} \cap SupervisorError = {}
BY DEF SupervisorError, ProtocolError

\* Nothing was written, read or started.
LEMMA InitInv == Init => Inv
<1> SUFFICES ASSUME Init PROVE Inv
  OBVIOUS
<1>0. <<>> \in Seq(PeerFrames \cup Readies) /\ stdout = <<>> /\ stdin = <<>>
  BY DEF Init
<1>1. TypeOK
  <2>1. Len(stdin) = 0 /\ Len(stdout) = 0 /\ Len(Polls) = 5
    BY <1>0 DEF Polls
  <2>2. poll \in 1..Len(Polls) /\ frames \in 0..MaxFrames /\ stderr \in 0..(MaxStderr + 1)
    BY <2>1, BoundsAssumption DEF Init
  <2>3. captured \in 0..stderr /\ Len(stdin) <= 3 /\ Len(stdout) <= frames
    BY <2>1 DEF Init
  <2>4. cancelled \in BOOLEAN /\ expired \in BOOLEAN
    BY Zenon DEF Init
  <2> QED  BY <2>2, <2>3, <2>4 DEF Init, TypeOK, Stages
<1>2. StageInv
  BY DEF Init, StageInv
<1>3. EndInv
  BY <1>0, NoneAssumption DEF Init, EndInv, Held
<1>4. AnnouncedLimitsHold
  BY BoundsAssumption DEF Init, AnnouncedLimitsHold
<1> QED  BY <1>1, <1>2, <1>3, <1>4 DEF Inv

\* The reasons to refuse a call are errors; without one the call is accepted.
LEMMA RefusalIs ==
    ASSUME NEW c \in Configs, NEW r \in Requests
    PROVE  /\ refusal(c, r) # None => refusal(c, r) \in SupervisorError
           /\ refusal(c, r) = None => PreparedConfig(c) = None /\ r.kind = "request"
<1>1. PreparedConfig(c) \in SupervisorError \cup {None}
  BY DEF PreparedConfig, SupervisorError, ProtocolError
<1>2. validate_request(r, c.peer) \in SupervisorError \cup {None}
  BY DEF validate_request, SupervisorError
<1>3. refusal(c, r) # None => refusal(c, r) \in SupervisorError
  BY <1>1, <1>2 DEF refusal, SupervisorError, ProtocolError
<1>4. refusal(c, r) = None => PreparedConfig(c) = None /\ validate_request(r, c.peer) = None
  BY DEF refusal
<1>5. validate_request(r, c.peer) = None => r.kind = "request"
  BY NoneAssumption DEF validate_request, SupervisorError
<1> QED  BY <1>3, <1>4, <1>5

\* A call is refused, cannot be started, or is started with what was accepted.
LEMMA run_unix_keeps == ASSUME Inv, run_unix PROVE Inv'
<1>0. /\ sup = "idle" /\ config' \in Configs /\ request' \in Requests
      /\ UNCHANGED <<poll, outcome, talk, descendant, stdout, frames, stderr, captured,
                     cancelled, expired>>
      /\ stdin = <<>> /\ peer = None /\ response = None /\ exchange = "hello_out"
  BY DEF run_unix, Inv, EndInv, StageInv
<1>1. \/ /\ sup' = "returned" /\ result' \in SupervisorError /\ child' = child
      \/ /\ sup' = "selecting" /\ result' = result /\ child' = "running"
         /\ PreparedConfig(config') = None /\ request'.kind = "request"
  <2>1. CASE refusal(config', request') # None
    BY <1>0, <2>1, RefusalIs DEF run_unix
  <2>2. CASE refusal(config', request') = None
    <3>1. PreparedConfig(config') = None /\ request'.kind = "request"
      BY <1>0, <2>2, RefusalIs
    <3> QED  BY <1>0, <2>2, <3>1 DEF run_unix, SupervisorError
  <2> QED  BY <2>1, <2>2
<1>2. TypeOK'
  BY <1>0, <1>1 DEF Inv, TypeOK
<1>3. StageInv'
  BY <1>0 DEF StageInv
<1>4. EndInv'
  BY <1>0, <1>1, ErrorIs, NoneAssumption DEF Inv, TypeOK, EndInv, Accepted, Held
<1>5. AnnouncedLimitsHold'
  BY <1>0, <1>1, ErrorIs DEF Inv, AnnouncedLimitsHold
<1> QED  BY <1>2, <1>3, <1>4, <1>5 DEF Inv

-----------------------------------------------------------------------------
(* The select *)

\* A poll that finds something ready ends the select with it, any other goes round.
LEMMA polled_keeps ==
    ASSUME Inv, sup = "selecting", polled, UNCHANGED <<talk, stdout>>,
           \/ Continue
           \/ \E what \in {"exit"} \cup SupervisorError : Selects(what, "killing")
    PROVE  Inv'
<1>1. \/ sup' = sup /\ outcome' = outcome /\ poll' \in 1..Len(Polls)
      \/ sup' = "killing" /\ outcome' \in {"exit"} \cup SupervisorError /\ poll' = poll
  BY DEF Continue, Selects, Inv, TypeOK, Polls
<1>2. TypeOK'
  BY <1>1 DEF Inv, TypeOK, polled
<1>3. StageInv' /\ Accepted'
  BY SameStage DEF Inv, polled, EndInv
<1>4. EndInv'
  BY <1>1, <1>3, ErrorIs DEF Inv, EndInv, polled, Held
<1>5. AnnouncedLimitsHold'
  BY SameLimits DEF Inv, polled, AnnouncedLimitsHold
<1> QED  BY <1>2, <1>3, <1>4, <1>5 DEF Inv

\* The polls of the cancellation, the deadline, stderr and the exit.
LEMMA selects_keep ==
    ASSUME Inv, cancellation_requested \/ deadline_reached \/ stderr_exceeded \/ child_exit
    PROVE  Inv'
<1>1. /\ sup = "selecting" /\ polled /\ UNCHANGED <<talk, stdout>>
      /\ \/ Continue
         \/ \E what \in {"exit"} \cup SupervisorError : Selects(what, "killing")
  BY DEF cancellation_requested, deadline_reached, stderr_exceeded, child_exit, Polling,
     SupervisorError
<1> QED  BY <1>1, polled_keeps

-----------------------------------------------------------------------------
(* The end *)

\* The grace passes with the child or without.
LEMMA grace_keeps == ASSUME Inv, exit_in_grace \/ grace_over PROVE Inv'
<1>0. /\ sup = "grace" /\ sup' = "killing"
      /\ outcome' = outcome \/ (outcome # "response" /\ outcome' = "exit")
      /\ UNCHANGED <<config, request, poll, result, talk, tree, stdout, frames, stderr,
                     captured, cancelled, expired>>
  BY DEF exit_in_grace, grace_over
<1>1. TypeOK'
  BY <1>0 DEF Inv, TypeOK
<1>2. StageInv' /\ Accepted'
  BY <1>0, SameStage DEF Inv, EndInv
<1>3. EndInv'
  BY <1>0, <1>2 DEF Inv, EndInv, Held
<1>4. AnnouncedLimitsHold'
  BY <1>0, SameLimits DEF Inv, AnnouncedLimitsHold
<1> QED  BY <1>1, <1>2, <1>3, <1>4 DEF Inv

\* The kill leaves nobody in the group, or ends the call.
LEMMA terminate_process_group_keeps == ASSUME Inv, terminate_process_group PROVE Inv'
<1>0. /\ sup = "killing"
      /\ \/ /\ sup' = "draining" /\ result' = result
            /\ child' = IF child = "running" THEN "signaled" ELSE child
            /\ descendant' = IF descendant = "escaped" THEN descendant ELSE "none"
         \/ result' = "termination" /\ sup' = "returned" /\ UNCHANGED tree
      /\ UNCHANGED <<config, request, poll, outcome, talk, stdout, frames, stderr, captured,
                     cancelled, expired>>
  BY DEF terminate_process_group
<1>1. TypeOK'
  BY <1>0 DEF Inv, TypeOK, SupervisorError
<1>2. StageInv' /\ Accepted'
  BY <1>0, SameStage DEF Inv, EndInv
<1>3. EndInv'
  BY <1>0, <1>2 DEF Inv, EndInv, Held
<1>4. AnnouncedLimitsHold'
  BY <1>0, SameLimits DEF Inv, AnnouncedLimitsHold
<1> QED  BY <1>1, <1>2, <1>3, <1>4 DEF Inv

\* What the call returns once stderr is over, or cannot be read.
LEMMA ReturnIs ==
    ASSUME Inv, finish_stderr \/ stderr_read_fails
    PROVE  /\ sup = "draining" /\ sup' = "returned"
           /\ \/ result' \in SupervisorError
              \/ result' = "answer" /\ outcome = "response" /\ ~Held /\ stderr <= MaxStderr
           /\ UNCHANGED <<config, request, poll, outcome, talk, tree, stdout, frames, stderr,
                          captured, cancelled, expired>>
<1>1. CASE finish_stderr
  <2>1. exit_error \in SupervisorError
    BY DEF exit_error, SupervisorError
  <2>2. outcome \in {"response", "exit"} \cup SupervisorError
    BY <1>1 DEF finish_stderr, Inv, EndInv
  <2>3. stderr \in Nat /\ captured \in Nat /\ captured = stderr
    BY <1>1, BoundsAssumption DEF finish_stderr, Inv, TypeOK
  <2>4. \/ result' \in SupervisorError
        \/ result' = "answer" /\ outcome = "response" /\ ~Held /\ stderr <= MaxStderr
    BY <1>1, <2>1, <2>2, <2>3, BoundsAssumption DEF finish_stderr, SupervisorError
  <2> QED  BY <1>1, <2>4 DEF finish_stderr
<1>2. CASE stderr_read_fails
  BY <1>2 DEF stderr_read_fails, SupervisorError
<1> QED  BY <1>1, <1>2

\* The answer is returned when nobody can write to stderr any more.
LEMMA return_keeps == ASSUME Inv, finish_stderr \/ stderr_read_fails PROVE Inv'
<1>1. TypeOK'
  BY ReturnIs DEF Inv, TypeOK
<1>2. StageInv'
  BY ReturnIs, SameStage DEF Inv
<1>3. EndInv'
  BY ReturnIs, ErrorIs DEF Inv, EndInv, Held
<1>4. AnnouncedLimitsHold'
  BY ReturnIs, ErrorIs, SameLimits DEF Inv
<1> QED  BY <1>1, <1>2, <1>3, <1>4 DEF Inv

-----------------------------------------------------------------------------
(* The caller, the clock and the adapter *)

\* The stderr task, the caller and the clock.
LEMMA others_keep == ASSUME Inv, capture_stderr \/ cancel \/ deadline_passes PROVE Inv'
<1>0. /\ captured' = captured \/ (captured' = captured + 1 /\ captured < stderr)
      /\ cancelled' \in BOOLEAN /\ expired' \in BOOLEAN
      /\ UNCHANGED <<host, talk, tree, stdout, frames, stderr>>
  BY DEF capture_stderr, cancel, deadline_passes, Inv, TypeOK
<1>1. TypeOK'
  BY <1>0, BoundsAssumption DEF Inv, TypeOK
<1>2. StageInv' /\ (Accepted => Accepted')
  BY <1>0, SameStage DEF Inv
<1>3. EndInv'
  BY <1>0, <1>2 DEF Inv, EndInv, Held
<1>4. AnnouncedLimitsHold'
  BY <1>0, SameLimits DEF Inv, AnnouncedLimitsHold
<1> QED  BY <1>1, <1>2, <1>3, <1>4 DEF Inv

\* Processes fork, leave their group, close their streams and exit.
LEMMA processes_keep ==
    ASSUME Inv, child_forks \/ descendant_escapes \/ descendant_closes_streams \/ child_exits
    PROVE  Inv'
<1>0. /\ child' = child \/ (child = "running" /\ child' \in {"exited", "signaled"})
      /\ \/ descendant' = descendant
         \/ child = "running" /\ descendant' = "group"
         \/ descendant = "group" /\ descendant' \in {"escaped", "quiet"}
      /\ UNCHANGED <<host, talk, stdout, frames, stderr, captured, cancelled, expired>>
  BY DEF child_forks, descendant_escapes, descendant_closes_streams, child_exits
<1>1. TypeOK'
  BY <1>0 DEF Inv, TypeOK
<1>2. StageInv' /\ (Accepted => Accepted')
  BY <1>0, SameStage DEF Inv
<1>3. EndInv'
  BY <1>0, <1>2 DEF Inv, EndInv, Held
<1>4. AnnouncedLimitsHold'
  BY <1>0, SameLimits DEF Inv, AnnouncedLimitsHold
<1> QED  BY <1>1, <1>2, <1>3, <1>4 DEF Inv

\* A frame on stdout is the adapter's own or a ready it was sent.
LEMMA child_writes_keeps == ASSUME Inv, child_writes PROVE Inv'
<1>1. PICK m \in PeerFrames \cup Readies :
        /\ stdout' = Append(stdout, m) /\ frames' = frames + 1 /\ frames < MaxFrames
        /\ UNCHANGED <<host, talk, tree, stderr, captured, cancelled, expired>>
  BY EchoIsReady DEF child_writes, Inv
<1>2. stdout \in Seq(PeerFrames \cup Readies)
  BY DEF Inv, EndInv
<1>3. stdout' \in Seq(PeerFrames \cup Readies) /\ Len(stdout') = Len(stdout) + 1
  BY <1>1, <1>2, AppendProperties
<1>4. Len(stdout) \in Nat
  BY <1>2, LenProperties
<1>5. TypeOK'
  BY <1>1, <1>3, <1>4, BoundsAssumption DEF Inv, TypeOK
<1>6. StageInv' /\ (Accepted => Accepted')
  BY <1>1, SameStage DEF Inv
<1>7. EndInv'
  BY <1>1, <1>3, <1>6 DEF Inv, EndInv, Held
<1>8. AnnouncedLimitsHold'
  BY <1>1, SameLimits DEF Inv, AnnouncedLimitsHold
<1> QED  BY <1>5, <1>6, <1>7, <1>8 DEF Inv

\* Only who holds stderr writes to it.
LEMMA child_writes_stderr_keeps == ASSUME Inv, child_writes_stderr PROVE Inv'
<1>0. /\ Held /\ stderr <= MaxStderr /\ stderr' = stderr + 1 /\ result # "answer"
      /\ UNCHANGED <<host, talk, tree, stdout, frames, captured, cancelled, expired>>
  BY DEF child_writes_stderr, Inv, EndInv
<1>1. TypeOK'
  BY <1>0, BoundsAssumption DEF Inv, TypeOK
<1>2. StageInv' /\ (Accepted => Accepted')
  BY <1>0, SameStage DEF Inv
<1>3. EndInv'
  BY <1>0, <1>2 DEF Inv, EndInv, Held
<1>4. AnnouncedLimitsHold'
  BY <1>0, SameLimits DEF Inv
<1> QED  BY <1>1, <1>2, <1>3, <1>4 DEF Inv

-----------------------------------------------------------------------------
(* The exchange *)

\* The part of the invariant that the exchange may disturb.
TalkInv ==
    /\ StageInv
    /\ stdout \in Seq(PeerFrames \cup Readies)
    /\ exchange \in Stages
    /\ peer = None \/ hello_validate(peer)
    /\ response = None \/ response.kind \in {"result", "failure"}
    /\ peer # None =>
         \A i \in DOMAIN stdin : i > 1 => validate_json_bounds(stdin[i].size, peer.limits)
    /\ response # None =>
         /\ validate_json_bounds(response.size, response_limits)
         /\ validate_json_bounds(response.size, peer.limits)

\* It is part of it.
LEMMA InvTalks == Inv => TalkInv
BY DEF Inv, TypeOK, EndInv, AnnouncedLimitsHold, TalkInv

\* A frame added to those already sent.
LEMMA AppendFrame ==
    ASSUME NEW a, NEW b, NEW c
    PROVE  /\ Append(<<>>, a) = <<a>>
           /\ Append(<<a>>, b) = <<a, b>>
           /\ Append(<<a, b>>, c) = <<a, b, c>>
<1>1. Append(<<>>, a) = <<a>>
  OBVIOUS
<1> DEFINE S == {a, b, c}
<1>2. Append(<<a>>, b) = <<a, b>>
  <2>1. /\ Append(<<a>>, b) \in Seq(S) /\ Len(Append(<<a>>, b)) = 2
        /\ Append(<<a>>, b)[1] = a /\ Append(<<a>>, b)[2] = b
    <3>1. <<a>> \in Seq(S) /\ b \in S /\ Len(<<a>>) = 1 /\ <<a>>[1] = a
      OBVIOUS
    <3> HIDE DEF S
    <3> QED  BY <3>1, AppendProperties
  <2>2. <<a, b>> \in Seq(S) /\ Len(<<a, b>>) = 2
    OBVIOUS
  <2> HIDE DEF S
  <2>3. \A i \in 1..2 : Append(<<a>>, b)[i] = <<a, b>>[i]
    BY <2>1
  <2> QED  BY <2>1, <2>2, <2>3, SeqEqual
<1>3. Append(<<a, b>>, c) = <<a, b, c>>
  <2>1. /\ Append(<<a, b>>, c) \in Seq(S) /\ Len(Append(<<a, b>>, c)) = 3
        /\ Append(<<a, b>>, c)[1] = a /\ Append(<<a, b>>, c)[2] = b
        /\ Append(<<a, b>>, c)[3] = c
    <3>1. <<a, b>> \in Seq(S) /\ c \in S /\ Len(<<a, b>>) = 2
      OBVIOUS
    <3>2. <<a, b>>[1] = a /\ <<a, b>>[2] = b
      OBVIOUS
    <3> HIDE DEF S
    <3> QED  BY <3>1, <3>2, AppendProperties
  <2>2. <<a, b, c>> \in Seq(S) /\ Len(<<a, b, c>>) = 3
    OBVIOUS
  <2> HIDE DEF S
  <2>3. \A i \in 1..3 : Append(<<a, b>>, c)[i] = <<a, b, c>>[i]
    BY <2>1
  <2> QED  BY <2>1, <2>2, <2>3, SeqEqual
<1> QED  BY <1>1, <1>2, <1>3

\* The stream loses its first frame, which is one of the adapter's.
LEMMA TakeFrame ==
    ASSUME NEW S, NEW s \in Seq(S), s # <<>>
    PROVE  Head(s) \in S /\ Tail(s) \in Seq(S) /\ Len(Tail(s)) <= Len(s)
<1>1. Len(s) \in Nat /\ Len(Tail(s)) = Len(s) - 1
  BY HeadTailProperties, LenProperties
<1> QED  BY <1>1, HeadTailProperties

\* A write that fails, or a read, ends the exchange with an error and sends nothing.
LEMMA ExchangeFails ==
    ASSUME Inv, exchange # "over", exchange' \in SupervisorError,
           UNCHANGED <<config, request, peer, response, stdin>>,
           stdout' \in Seq(PeerFrames \cup Readies)
    PROVE  TalkInv'
<1>1. TalkInv /\ response = None
  BY InvTalks DEF Inv, StageInv
<1>2. exchange' \in Stages
  BY DEF Stages
<1>3. exchange' \notin {"hello_out", "hello_in", "ready_out", "ready_in", "request_out",
                        "response_in", "over"}
  BY DEF SupervisorError, ProtocolError
<1>4. StageInv'
  BY <1>1, <1>3 DEF TalkInv, StageInv, Sent1, Sent2, Sent3, negotiated, Agreed, Accepted
<1> QED  BY <1>1, <1>2, <1>4 DEF TalkInv

\* The hello goes out first.
LEMMA write_hello_talks ==
    ASSUME Inv, sup = "selecting", polled, write_hello PROVE TalkInv'
<1>0. /\ exchange = "hello_out" /\ stdin = <<>> /\ peer = None /\ response = None
      /\ UNCHANGED <<config, request, peer, response, stdout>> /\ TalkInv
  BY InvTalks DEF write_hello, polled, Inv, StageInv
<1>1. CASE exchange' = ProtocolError /\ UNCHANGED stdin
  BY <1>0, <1>1, ExchangeFails DEF ProtocolError, SupervisorError, TalkInv
<1>2. CASE stdin' = Append(stdin, HelloFrame(config.hello)) /\ exchange' = "hello_in"
  <2>1. stdin' = Sent1'
    BY <1>0, <1>2, AppendFrame DEF Sent1
  <2>2. StageInv'
    BY <1>0, <1>2, <2>1 DEF StageInv
  <2> QED  BY <1>0, <1>2, <2>2 DEF TalkInv, Stages
<1> QED  BY <1>1, <1>2 DEF write_hello, write_frame

\* A read that finds no frame, or none that is a message under the limits.
LEMMA read_fails_talks ==
    ASSUME Inv, polled, exchange # "over", NEW l, read_fails(l) PROVE TalkInv'
<1>1. stdout' \in Seq(PeerFrames \cup Readies)
  BY TakeFrame, InvTalks DEF read_fails, TalkInv
<1> QED  BY <1>1, ExchangeFails DEF read_fails, polled, ProtocolError, SupervisorError

\* The adapter's hello is taken if there is an agreement.
LEMMA read_hello_talks ==
    ASSUME Inv, sup = "selecting", polled, read_hello PROVE TalkInv'
<1>0. /\ exchange = "hello_in" /\ stdin = Sent1 /\ peer = None /\ response = None
      /\ UNCHANGED <<config, request>> /\ TalkInv /\ Accepted
  BY InvTalks DEF read_hello, polled, Inv, StageInv, EndInv
<1>1. CASE read_fails(response_limits)
  BY <1>0, <1>1, read_fails_talks
<1>2. CASE /\ stdout # <<>>
           /\ exchange' = IF hello_error(Head(stdout)) = None THEN "ready_out"
                          ELSE hello_error(Head(stdout))
           /\ peer' = IF hello_error(Head(stdout)) = None THEN Head(stdout).body ELSE None
           /\ stdout' = Tail(stdout)
           /\ UNCHANGED <<response, stdin>>
  <2> DEFINE m == Head(stdout)
  <2>1. m \in PeerFrames \cup Readies /\ stdout' \in Seq(PeerFrames \cup Readies)
    BY <1>0, <1>2, TakeFrame DEF TalkInv
  <2>2. CASE hello_error(m) # None
    <3>1. hello_error(m) \in SupervisorError
      BY <2>2 DEF hello_error, SupervisorError, ProtocolError
    <3> QED  BY <1>0, <1>2, <2>1, <2>2, <3>1, ExchangeFails
  <2>3. CASE hello_error(m) = None
    <3>1. m.kind = "hello" /\ negotiate(config.hello, m.body) # None
      BY <2>3, NoneAssumption DEF hello_error, SupervisorError, ProtocolError
    <3>2. m \in Hellos
      BY <2>1, <3>1, FrameIs DEF Hellos
    <3>3. peer' = m.body /\ exchange' = "ready_out"
      BY <1>2, <2>3
    <3> HIDE DEF m
    <3>4. Agreed'
      BY <1>0, <3>1, <3>2, <3>3 DEF Agreed, Accepted
    <3>5. stdin' = Sent1'
      BY <1>0, <1>2 DEF Sent1
    <3>6. StageInv'
      BY <1>0, <1>2, <3>3, <3>4, <3>5 DEF StageInv
    <3>7. hello_validate(peer')
      BY <3>1, <3>3, NegotiatedIs
    <3>8. \A i \in DOMAIN stdin' : ~(i > 1)
      BY <3>5 DEF Sent1
    <3> QED  BY <1>0, <1>2, <2>1, <3>3, <3>6, <3>7, <3>8 DEF TalkInv, Stages
  <2> QED  BY <2>2, <2>3
<1> QED  BY <1>1, <1>2 DEF read_hello

\* A frame that goes out after the agreement fits the adapter's limits.
LEMMA FitsPeer ==
    ASSUME Agreed, NEW m, m.size \in ProtocolLimits, encode_message(m, negotiated.limits)
    PROVE  validate_json_bounds(m.size, peer.limits)
<1>1. validate_json_bounds(m.size, negotiated.limits)
  BY DEF encode_message
<1> QED  BY <1>1, AgreedLimits, BoundsAreMonotone

\* The frames after the handshake's hello: what is known of the ready and the request.
LEMMA SentParts ==
    /\ Sent2[2] = ReadyFrame(negotiated) /\ DOMAIN Sent2 = 1..2
    /\ Sent3[2] = ReadyFrame(negotiated) /\ Sent3[3] = request /\ DOMAIN Sent3 = 1..3
BY DEF Sent2, Sent3

\* The ready follows the hello.
LEMMA write_ready_talks ==
    ASSUME Inv, sup = "selecting", polled, write_ready PROVE TalkInv'
<1>0. /\ exchange = "ready_out" /\ stdin = Sent1 /\ Agreed /\ response = None
      /\ UNCHANGED <<config, request, peer, response, stdout>> /\ TalkInv
  BY InvTalks DEF write_ready, polled, Inv, StageInv
<1>1. CASE exchange' = ProtocolError /\ UNCHANGED stdin
  BY <1>0, <1>1, ExchangeFails DEF ProtocolError, SupervisorError, TalkInv
<1>2. CASE /\ encode_message(ReadyFrame(negotiated), negotiated.limits)
           /\ stdin' = Append(stdin, ReadyFrame(negotiated)) /\ exchange' = "ready_in"
  <2>1. stdin' = Sent2 /\ Sent2' = Sent2
    BY <1>0, <1>2, AppendFrame DEF Sent1, Sent2, negotiated
  <2>2. Agreed'
    BY <1>0 DEF Agreed, Accepted
  <2>3. StageInv'
    BY <1>0, <1>2, <2>1, <2>2 DEF StageInv
  <2>4. ReadyFrame(negotiated).size \in ProtocolLimits
    BY DimensionsAssumption DEF ReadyFrame, ProtocolLimits
  <2>5. validate_json_bounds(ReadyFrame(negotiated).size, peer.limits)
    BY <1>0, <1>2, <2>4, FitsPeer
  <2>6. \A i \in DOMAIN stdin' : i > 1 => stdin'[i] = ReadyFrame(negotiated)
    BY <2>1, SentParts
  <2> QED  BY <1>0, <1>2, <2>3, <2>5, <2>6 DEF TalkInv, Stages
<1> QED  BY <1>1, <1>2 DEF write_ready, write_frame

\* The adapter's ready is taken if it repeats the agreement.
LEMMA read_ready_talks ==
    ASSUME Inv, sup = "selecting", polled, read_ready PROVE TalkInv'
<1>0. /\ exchange = "ready_in" /\ stdin = Sent2 /\ response = None
      /\ UNCHANGED <<config, request>> /\ TalkInv
  BY InvTalks DEF read_ready, polled, Inv, StageInv
<1>1. CASE read_fails(negotiated_response_limits)
  BY <1>0, <1>1, read_fails_talks
<1>2. CASE /\ stdout # <<>>
           /\ exchange' = IF ready_error(Head(stdout)) = None THEN "request_out"
                          ELSE ready_error(Head(stdout))
           /\ stdout' = Tail(stdout)
           /\ UNCHANGED <<peer, response, stdin>>
  <2>1. stdout' \in Seq(PeerFrames \cup Readies)
    BY <1>0, <1>2, TakeFrame DEF TalkInv
  <2>2. CASE ready_error(Head(stdout)) # None
    <3>1. ready_error(Head(stdout)) \in SupervisorError
      BY <2>2 DEF ready_error, SupervisorError
    <3> QED  BY <1>0, <1>2, <2>1, <2>2, <3>1, ExchangeFails
  <2>3. CASE ready_error(Head(stdout)) = None
    <3>1. exchange' = "request_out"
      BY <1>2, <2>3
    <3>2. StageInv'
      BY <1>0, <1>2, <3>1 DEF TalkInv, StageInv, Sent1, Sent2, Sent3, negotiated, Agreed,
         Accepted
    <3> QED  BY <1>0, <1>2, <2>1, <3>1, <3>2 DEF TalkInv, Stages
  <2> QED  BY <2>2, <2>3
<1> QED  BY <1>1, <1>2 DEF read_ready

\* Sent1, Sent2 and Sent3 differ in length, so the stage tells how far the handshake is.
LEMMA SentDiffer ==
    /\ Len(<<>>) = 0 /\ Len(Sent1) = 1 /\ Len(Sent2) = 2 /\ Len(Sent3) = 3
BY DEF Sent1, Sent2, Sent3

\* With the ready sent there is an agreement.
LEMMA SentAgreed == ASSUME StageInv, stdin \in {Sent2, Sent3} PROVE Agreed
BY SentDiffer DEF StageInv

\* The request goes out under the agreed limits.
LEMMA write_request_talks ==
    ASSUME Inv, sup = "selecting", polled, write_request PROVE TalkInv'
<1>0. /\ exchange = "request_out" /\ stdin = Sent2 /\ Agreed /\ response = None
      /\ UNCHANGED <<config, request, peer, response, stdout>> /\ TalkInv
  BY InvTalks, SentAgreed DEF write_request, polled, Inv, StageInv
<1>1. CASE exchange' = ProtocolError /\ UNCHANGED stdin
  BY <1>0, <1>1, ExchangeFails DEF ProtocolError, SupervisorError, TalkInv
<1>2. CASE /\ encode_message(request, negotiated.limits)
           /\ stdin' = Append(stdin, request) /\ exchange' = "response_in"
  <2>1. stdin' = Sent3 /\ Sent3' = Sent3
    BY <1>0, <1>2, AppendFrame DEF Sent2, Sent3, negotiated
  <2>2. Agreed'
    BY <1>0 DEF Agreed, Accepted
  <2>3. StageInv'
    BY <1>0, <1>2, <2>1, <2>2 DEF StageInv
  <2>4. request.size \in ProtocolLimits
    BY <1>0, FramesAssumption DEF Agreed, Accepted
  <2>5. validate_json_bounds(request.size, peer.limits)
    BY <1>0, <1>2, <2>4, FitsPeer
  <2>6. peer # None => validate_json_bounds(ReadyFrame(negotiated).size, peer.limits)
    BY <1>0, SentParts DEF TalkInv
  <2>7. \A i \in DOMAIN stdin' : i > 1 => stdin'[i] \in {ReadyFrame(negotiated), request}
    BY <2>1, SentParts
  <2>8. peer' # None => \A i \in DOMAIN stdin' :
            i > 1 => validate_json_bounds(stdin'[i].size, peer'.limits)
    BY <1>0, <2>5, <2>6, <2>7
  <2> QED  BY <1>0, <1>2, <2>3, <2>8 DEF TalkInv, Stages
<1> QED  BY <1>1, <1>2 DEF write_request, write_frame

\* The response is taken if it is one to the request, and fits both sides' limits.
LEMMA read_response_talks ==
    ASSUME Inv, sup = "selecting", polled, read_response PROVE TalkInv'
<1>0. /\ exchange = "response_in" /\ stdin = Sent3 /\ Agreed /\ response = None
      /\ UNCHANGED <<config, request>> /\ TalkInv
  BY InvTalks, SentAgreed DEF read_response, polled, Inv, StageInv
<1>1. CASE read_fails(negotiated_response_limits)
  BY <1>0, <1>1, read_fails_talks
<1>2. CASE /\ stdout # <<>> /\ decode_message(Head(stdout), negotiated_response_limits)
           /\ exchange' = IF correlates(Head(stdout)) THEN "over" ELSE "response_mismatch"
           /\ response' = IF correlates(Head(stdout)) THEN Head(stdout) ELSE None
           /\ stdout' = Tail(stdout)
           /\ UNCHANGED <<peer, stdin>>
  <2> DEFINE m == Head(stdout)
  <2>1. m \in PeerFrames \cup Readies /\ stdout' \in Seq(PeerFrames \cup Readies)
    BY <1>0, <1>2, TakeFrame DEF TalkInv
  <2>2. CASE ~correlates(m)
    BY <1>0, <1>2, <2>1, <2>2, ExchangeFails DEF SupervisorError
  <2>3. CASE correlates(m)
    <3>1. m.kind \in {"result", "failure"} /\ exchange' = "over" /\ response' = m
      BY <1>2, <2>3 DEF correlates
    <3>2. m.size \in ProtocolLimits /\ m # None
      BY <2>1, <3>1, FrameIs
    <3>3. validate_json_bounds(m.size, negotiated_response_limits)
      BY <1>2 DEF decode_message
    <3> HIDE DEF m
    <3>4. /\ validate_json_bounds(m.size, response_limits)
          /\ validate_json_bounds(m.size, peer.limits)
      BY <1>0, <3>2, <3>3, ResponseLimits
    <3>5. StageInv'
      BY <1>0, <1>2, <3>1, <3>2 DEF TalkInv, StageInv, Sent1, Sent2, Sent3, negotiated,
         Agreed, Accepted
    <3>6. response_limits' = response_limits
      BY <1>0 DEF response_limits
    <3> QED  BY <1>0, <1>2, <2>1, <3>1, <3>2, <3>4, <3>5, <3>6 DEF TalkInv, Stages
  <2> QED  BY <2>2, <2>3
<1> QED  BY <1>1, <1>2 DEF read_response

\* A poll of the exchange that is not ready changes nothing.
LEMMA exchange_pending_talks ==
    ASSUME Inv, sup = "selecting", polled, exchange_pending PROVE TalkInv'
<1>1. UNCHANGED <<config, request, talk, stdout>>
  BY DEF polled, exchange_pending
<1>2. StageInv'
  BY <1>1, SameStage DEF Inv
<1> QED  BY <1>1, <1>2, InvTalks DEF TalkInv, response_limits

\* The select goes on, or is over with the response or the error of the exchange.
LEMMA poll_exchange_keeps == ASSUME Inv, poll_exchange PROVE Inv'
<1>0. sup = "selecting" /\ polled
  BY DEF poll_exchange, Polling
<1>1. TalkInv'
  BY <1>0, write_hello_talks, read_hello_talks, write_ready_talks, read_ready_talks,
     write_request_talks, read_response_talks, exchange_pending_talks DEF poll_exchange
<1>2. \/ sup' = "selecting" /\ outcome' = outcome /\ poll' \in 1..Len(Polls)
      \/ sup' = "grace" /\ outcome' = "response" /\ exchange' = "over" /\ poll' = poll
      \/ sup' = "grace" /\ outcome' \in SupervisorError /\ poll' = poll
  BY <1>0 DEF poll_exchange, Continue, Selects, Inv, TypeOK, Polls
<1>3. stdout \in Seq(PeerFrames \cup Readies) /\ Len(stdout) \in Nat
  BY LenProperties DEF Inv, EndInv
<1>4. Len(stdout') <= Len(stdout) /\ Len(stdout') \in Nat
  <2>1. stdout' = stdout \/ (stdout # <<>> /\ stdout' = Tail(stdout))
    BY DEF poll_exchange, write_hello, read_hello, write_ready, read_ready, write_request,
       read_response, exchange_pending, read_fails
  <2>2. stdout' \in Seq(PeerFrames \cup Readies)
    BY <1>1 DEF TalkInv
  <2> QED  BY <1>3, <2>1, <2>2, TakeFrame, LenProperties
<1>5. Len(stdin') <= 3
  <2>1. stdin' = <<>> \/ stdin' = Sent1' \/ stdin' = Sent2' \/ stdin' = Sent3'
    BY <1>1 DEF TalkInv, StageInv
  <2>2. Len(<<>>) = 0 /\ Len(Sent1') = 1 /\ Len(Sent2') = 2 /\ Len(Sent3') = 3
    BY DEF Sent1, Sent2, Sent3
  <2>3. Len(stdin') \in 0..3
    <3>1. CASE stdin' = <<>>
      BY <3>1, <2>2
    <3>2. CASE stdin' = Sent1'
      BY <3>2, <2>2
    <3>3. CASE stdin' = Sent2'
      BY <3>3, <2>2
    <3>4. CASE stdin' = Sent3'
      BY <3>4, <2>2
    <3> QED  BY <2>1, <3>1, <3>2, <3>3, <3>4
  <2>4. \A n \in 0..3 : n <= 3
    OBVIOUS
  <2> QED  BY <2>3, <2>4
<1>6. TypeOK'
  BY <1>0, <1>1, <1>2, <1>3, <1>4, <1>5, BoundsAssumption DEF Inv, TypeOK, TalkInv, polled
<1>7. Accepted'
  BY <1>0 DEF Inv, EndInv, Accepted, polled
<1>8. EndInv'
  BY <1>0, <1>1, <1>2, <1>7, ErrorIs, NoneAssumption
     DEF Inv, EndInv, TalkInv, polled, Held
<1>9. AnnouncedLimitsHold'
  BY <1>0, <1>1 DEF Inv, TalkInv, AnnouncedLimitsHold, polled
<1> QED  BY <1>1, <1>6, <1>8, <1>9 DEF Inv, TalkInv

-----------------------------------------------------------------------------
(* The theorems *)

\* Every step keeps the invariant.
LEMMA NextKeeps == Inv /\ [Next]_vars => Inv'
<1> SUFFICES ASSUME Inv, [Next]_vars PROVE Inv'
  OBVIOUS
<1>1. CASE run_unix
  BY <1>1, run_unix_keeps
<1>2. CASE Supervisor
  BY <1>2, selects_keep, poll_exchange_keeps, grace_keeps, terminate_process_group_keeps,
     return_keeps DEF Supervisor
<1>3. CASE stderr_read_fails \/ capture_stderr \/ cancel \/ deadline_passes
  BY <1>3, return_keeps, others_keep
<1>4. CASE Adapter
  BY <1>4, child_writes_keeps, child_writes_stderr_keeps, processes_keep DEF Adapter
<1>5. CASE UNCHANGED vars
  <2>1. TypeOK'
    BY <1>5 DEF vars, Inv, TypeOK
  <2>2. StageInv' /\ (Accepted => Accepted')
    BY <1>5, SameStage DEF vars, Inv
  <2>3. EndInv'
    BY <1>5, <2>2 DEF vars, Inv, EndInv, Held
  <2>4. AnnouncedLimitsHold'
    BY <1>5, SameLimits DEF vars, Inv, AnnouncedLimitsHold
  <2> QED  BY <2>1, <2>2, <2>3, <2>4 DEF Inv
<1> QED  BY <1>1, <1>2, <1>3, <1>4, <1>5 DEF Next

\* The invariant of the call: types, the stage of the exchange, its end and its limits.
THEOREM Invariance == Spec => []Inv
<1>1. Init => Inv
  BY InitInv
<1>2. Inv /\ [Next]_vars => Inv'
  BY NextKeeps
<1> QED  BY <1>1, <1>2, PTL DEF Spec

\* The call is always in its states; what is taken for a response is a result or a failure.
THEOREM TypeCorrect == Spec => []TypeOK
<1>1. Inv => TypeOK
  BY DEF Inv
<1> QED  BY <1>1, Invariance, PTL

\* Whatever the configurations, hellos and sizes: frames that go out fit the limits the
\* adapter announced, the response those of both sides and max_response_bytes, and an
\* answer is returned only below the limit of stderr.
THEOREM LimitsHold == Spec => []AnnouncedLimitsHold
<1>1. Inv => AnnouncedLimitsHold
  BY DEF Inv
<1> QED  BY <1>1, Invariance, PTL

-----------------------------------------------------------------------------
(* The promise to the caller *)

\* The call as AdapterCall sees it.
State == IF sup \in {"idle", "returned"} THEN sup ELSE "working"
Alive == child = "running" \/ descendant \in {"group", "quiet"}
Asked == Len(stdin) = 3
Answered == response # None

\* The request is the third frame sent.
LEMMA AskedIs == ASSUME StageInv PROVE Asked <=> stdin = Sent3
BY SentDiffer DEF StageInv, Asked

\* At first nothing was started, asked or returned.
LEMMA PromiseInit == Init => Promise!Init
BY DEF Init, Promise!Init

\* A step that changes nothing the caller could tell.
LEMMA PromiseStutters ==
    ASSUME State' = State, Alive' = Alive, Asked' = Asked, Answered' = Answered,
           result' = result
    PROVE  UNCHANGED Promise!vars
BY DEF State, Alive, Asked, Answered, Promise!vars

\* The call is refused or started.
LEMMA run_unix_promised ==
    ASSUME Inv, run_unix PROVE Promise!Refuse \/ Promise!Start
<1>0. /\ sup = "idle" /\ config' \in Configs /\ request' \in Requests
      /\ UNCHANGED <<descendant, stdin, response>>
  BY DEF run_unix
<1>1. CASE refusal(config', request') # None
  <2>1. /\ sup' = "returned" /\ result' \in SupervisorError /\ child' = child
    BY <1>0, <1>1, RefusalIs DEF run_unix
  <2> QED  BY <1>0, <2>1 DEF Promise!Refuse
<1>2. CASE refusal(config', request') = None
  <2>1. \/ sup' = "returned" /\ result' \in SupervisorError /\ child' = child
        \/ sup' = "selecting" /\ result' = result /\ child' = "running"
    BY <1>2 DEF run_unix, SupervisorError
  <2> QED  BY <1>0, <2>1 DEF Promise!Refuse, Promise!Start
<1> QED  BY <1>1, <1>2

\* A process that is gone was perhaps the last of the group; none comes back.
LEMMA DiesOrNot ==
    ASSUME State' = State, Asked' = Asked, Answered' = Answered, result' = result,
           Alive' => Alive
    PROVE  Promise!Die \/ UNCHANGED Promise!vars
<1>1. CASE Alive /\ ~Alive'
  BY <1>1 DEF State, Alive, Asked, Answered, Promise!Die
<1>2. CASE Alive' = Alive
  BY <1>2, PromiseStutters
<1>3. Alive \in BOOLEAN /\ Alive' \in BOOLEAN
  BY DEF Alive
<1> QED  BY <1>1, <1>2, <1>3

\* An answer is returned after a response, and every other end but a failed kill after
\* the group is gone.
LEMMA return_promised ==
    ASSUME Inv, finish_stderr \/ stderr_read_fails PROVE Promise!Return
<1>1. ~Alive /\ (outcome = "response" => response # None)
  BY ReturnIs DEF Inv, EndInv, StageInv, Alive
<1>2. /\ sup = "draining" /\ sup' = "returned"
      /\ result' \in SupervisorError \cup {"answer"}
      /\ result' = "answer" => response # None
      /\ UNCHANGED <<stdin, response, child, descendant>>
  BY <1>1, ReturnIs, ErrorIs
<1> QED  BY <1>1, <1>2 DEF Alive, Promise!Return

\* The kill ends the group, or the call says that it could not.
LEMMA terminate_promised ==
    ASSUME Inv, terminate_process_group
    PROVE  Promise!Return \/ Promise!Die \/ UNCHANGED Promise!vars
<1>0. sup = "killing" /\ UNCHANGED <<stdin, response>>
  BY DEF terminate_process_group
<1>1. CASE result' = "termination" /\ sup' = "returned" /\ UNCHANGED tree
  BY <1>0, <1>1 DEF Promise!Return, SupervisorError
<1>2. CASE /\ sup' = "draining"
           /\ child' = IF child = "running" THEN "signaled" ELSE child
           /\ descendant' = IF descendant = "escaped" THEN descendant ELSE "none"
           /\ UNCHANGED result
  <2>1. State' = State /\ Asked' = Asked /\ Answered' = Answered /\ result' = result
    BY <1>0, <1>2 DEF State, Asked, Answered
  <2>2. Alive' => Alive
    BY <1>2 DEF Alive
  <2> QED  BY <2>1, <2>2, DiesOrNot
<1> QED  BY <1>1, <1>2 DEF terminate_process_group

\* The exchange asks once and takes one response, after it has asked.
LEMMA poll_exchange_promised ==
    ASSUME Inv, Inv', poll_exchange
    PROVE  Promise!Ask \/ Promise!Answer \/ UNCHANGED Promise!vars
<1>0. /\ sup = "selecting" /\ sup' \in {"selecting", "grace"} /\ polled
      /\ State = "working" /\ State' = "working"
  BY DEF poll_exchange, Polling, Continue, Selects, State
<1>1. Alive' = Alive /\ result' = result
  BY <1>0 DEF polled, Alive
<1>2. (Asked <=> stdin = Sent3) /\ (Asked' <=> stdin' = Sent3')
  <2>1. Len(Sent1') = 1 /\ Len(Sent2') = 2 /\ Len(Sent3') = 3 /\ Len(<<>>) = 0
    BY DEF Sent1, Sent2, Sent3
  <2> QED  BY <2>1, AskedIs DEF Inv, StageInv, Asked
<1>3. CASE write_request /\ stdin' # stdin
  <2>1. exchange = "request_out" /\ exchange' = "response_in" /\ response' = response
    BY <1>3 DEF write_request, write_frame
  <2>2. ~Asked
    BY <2>1, SentDiffer DEF Inv, StageInv, Asked
  <2>3. Asked'
    BY <1>2, <2>1 DEF Inv, StageInv
  <2> QED  BY <1>0, <1>1, <2>1, <2>2, <2>3
           DEF State, Alive, Asked, Answered, Promise!Ask
<1>4. CASE read_response /\ response' # response
  <2>1. exchange = "response_in" /\ stdin' = stdin
    BY <1>4 DEF read_response, read_fails
  <2>2. Asked /\ Asked' /\ response = None /\ response' # None
    BY <1>2, <1>4, <2>1 DEF Inv, StageInv, Asked
  <2> QED  BY <1>0, <1>1, <2>1, <2>2
           DEF State, Alive, Asked, Answered, Promise!Answer
<1>5. CASE ~(write_request /\ stdin' # stdin) /\ ~(read_response /\ response' # response)
  <2>1. response' = response
    BY <1>5 DEF poll_exchange, write_hello, read_hello, write_ready, read_ready,
       write_request, exchange_pending, read_fails
  <2>2. Asked' = Asked
    <3>1. CASE stdin' = stdin
      BY <3>1 DEF Asked
    <3>2. CASE stdin' # stdin
      <4>1. \/ exchange = "hello_out" /\ exchange' = "hello_in"
            \/ exchange = "ready_out" /\ exchange' = "ready_in"
        BY <1>5, <3>2 DEF poll_exchange, write_hello, read_hello, write_ready, read_ready,
           write_request, read_response, exchange_pending, read_fails, write_frame
      <4>2. Len(stdin) \in 0..2 /\ Len(stdin') \in 0..2
        <5>1. Len(Sent1') = 1 /\ Len(Sent2') = 2
          BY DEF Sent1, Sent2
        <5> QED  BY <4>1, <5>1, SentDiffer DEF Inv, StageInv
      <4> QED  BY <4>2 DEF Asked
    <3> QED  BY <3>1, <3>2
  <2>3. Answered' = Answered /\ State' = State
    BY <1>0, <2>1 DEF Answered
  <2> QED  BY <1>1, <2>2, <2>3, PromiseStutters
<1> QED  BY <1>3, <1>4, <1>5

\* The processes of the adapter only ever become fewer once the call is started.
LEMMA processes_promised ==
    ASSUME child_forks \/ descendant_escapes \/ descendant_closes_streams \/ child_exits
    PROVE  Promise!Die \/ UNCHANGED Promise!vars
<1>1. State' = State /\ Asked' = Asked /\ Answered' = Answered /\ result' = result
  BY DEF child_forks, descendant_escapes, descendant_closes_streams, child_exits, State,
     Asked, Answered
<1>2. Alive' => Alive
  BY DEF child_forks, descendant_escapes, descendant_closes_streams, child_exits, Alive
<1> QED  BY <1>1, <1>2, DiesOrNot

\* The polls that find nothing, the grace, the streams, the clock and the cancellation.
LEMMA others_stutter ==
    ASSUME \/ cancellation_requested \/ deadline_reached \/ stderr_exceeded \/ child_exit
           \/ exit_in_grace \/ grace_over \/ capture_stderr \/ cancel \/ deadline_passes
           \/ child_writes \/ child_writes_stderr \/ UNCHANGED vars
    PROVE  UNCHANGED Promise!vars
<1>1. /\ UNCHANGED <<child, descendant, stdin, response, result>>
      /\ \/ sup' = sup
         \/ sup \in {"selecting", "grace"} /\ sup' = "killing"
  BY DEF cancellation_requested, deadline_reached, stderr_exceeded, child_exit, Polling,
     Continue, Selects, polled, exit_in_grace, grace_over, capture_stderr, cancel,
     deadline_passes, child_writes, child_writes_stderr, vars
<1> QED  BY <1>1, PromiseStutters DEF State, Alive, Asked, Answered

\* Every step of the supervised call is a step of AdapterCall or none.
LEMMA PromiseStep ==
    Inv /\ Inv' /\ [Next]_vars => [Promise!Next]_(Promise!vars)
<1> SUFFICES ASSUME Inv, Inv', [Next]_vars
             PROVE  Promise!Next \/ UNCHANGED Promise!vars
  OBVIOUS
<1>1. CASE run_unix
  BY <1>1, run_unix_promised DEF Promise!Next
<1>2. CASE Supervisor
  BY <1>2, others_stutter, poll_exchange_promised, terminate_promised, return_promised
     DEF Supervisor, Promise!Next
<1>3. CASE stderr_read_fails
  BY <1>3, return_promised DEF Promise!Next
<1>4. CASE Adapter \/ capture_stderr \/ cancel \/ deadline_passes \/ UNCHANGED vars
  BY <1>4, others_stutter, processes_promised DEF Adapter, Promise!Next
<1> QED  BY <1>1, <1>2, <1>3, <1>4 DEF Next

\* AdapterSupervisor::run keeps its promise, for any configuration, request and adapter: it
\* returns once, an answer only after the adapter was asked and answered, and with no
\* process of the group alive unless it reports that the group could not be ended.
THEOREM CallImplementsPromise == Spec => CallKeepsPromise
<1>1. Init => Promise!Init
  BY PromiseInit
<1>2. Inv /\ Inv' /\ [Next]_vars => [Promise!Next]_(Promise!vars)
  BY PromiseStep
<1> QED  BY <1>1, <1>2, Invariance, PTL DEF Spec, CallKeepsPromise, Promise!Spec
=============================================================================
