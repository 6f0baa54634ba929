----------------------------- MODULE RemoteFetch -----------------------------
(***************************************************************************)
(* One remote fetch: the host's session (run_session, oci_remote.rs) with  *)
(* the egress proxy, the worker and, over SSH, the agent relay, each in a  *)
(* container of its own.  They share nothing but files the host reads and  *)
(* writes with docker commands, the worker's connections to the proxy and  *)
(* the relay's socket.                                                     *)
(*                                                                         *)
(* Containers, networks and their removal are Inspection's; here a session *)
(* that fails stops its processes at once.                                 *)
(***************************************************************************)
EXTENDS EgressProxy, AgentRelay, GitRunner

VARIABLES
    mode,        \* https or ssh
    host,        \* the step of run_session
    taken,       \* the bundle the host has read
    seen,        \* the worker's report it has read
    proxyReport  \* the observations it has read

hostVars == <<mode, host, taken, seen, proxyReport>>
vars == <<proxyVars, relayVars, runnerVars, hostVars>>

HostSteps ==
    {"start", "start_relay", "copy_grant", "grant_copied", "await_relay_ready", "start_proxy",
     "await_proxy_ready", "start_worker", "await_worker_report", "read_bundle", "stop_worker",
     "await_relay_receipt", "verify_relay_running", "signal_done", "await_proxy_terminal",
     "stop_proxy", "validate_outputs"}

TypeOK ==
    /\ ProxyTypeOK /\ RelayTypeOK /\ RunnerTypeOK
    /\ mode \in {"https", "ssh"}
    /\ host \in HostSteps \cup {"accepted", "failed"}
    /\ mode = "https" => relay = "off" /\ grant = "absent"
    /\ proxyReport = None \/ proxyReport \in Observations

Init ==
    /\ ProxyInit /\ RelayInit /\ RunnerInit
    /\ mode \in {"https", "ssh"}
    /\ host = "start"
    /\ taken = None
    /\ seen = None
    /\ proxyReport = None
-----------------------------------------------------------------------------
(* The host *)

Advances(from, to) == host = from /\ host' = to /\ UNCHANGED mode

begin_session ==
    /\ Advances("start", IF mode = "ssh" THEN "start_relay" ELSE "start_proxy")
    /\ UNCHANGED <<taken, seen, proxyReport, proxyVars, relayVars, runnerVars>>

start_relay ==
    /\ Advances("start_relay", "copy_grant")
    /\ relay' = "waiting"
    /\ UNCHANGED <<taken, seen, proxyReport, proxyVars, runnerVars,
                   grant, bound, signatures, receipt, agentBound, agentSigned>>

\* dd creates the file before it has written it.
copy_grant ==
    /\ \/ Advances("copy_grant", "grant_copied") /\ grant' = "partial"
       \/ Advances("grant_copied", "await_relay_ready") /\ grant' = "whole"
    /\ UNCHANGED <<taken, seen, proxyReport, proxyVars, runnerVars,
                   relay, bound, signatures, receipt, agentBound, agentSigned>>

await_relay_ready ==
    /\ Advances("await_relay_ready", "start_proxy")
    /\ relay \in {"listening", "relaying", "signed", "answered", "lingering"}
    /\ UNCHANGED <<taken, seen, proxyReport, proxyVars, relayVars, runnerVars>>

start_proxy ==
    /\ Advances("start_proxy", "await_proxy_ready")
    /\ proxy' = "waiting"
    /\ UNCHANGED <<taken, seen, proxyReport, relayVars, runnerVars,
                   limit, conn, total, observed, published, done>>

\* The first report says that nothing has happened yet.
await_proxy_ready ==
    /\ Advances("await_proxy_ready", "start_worker")
    /\ Alive /\ published = NoObservations
    /\ UNCHANGED <<taken, seen, proxyReport, proxyVars, relayVars, runnerVars>>

start_worker ==
    /\ Advances("start_worker", "await_worker_report")
    /\ worker' = "waiting"
    /\ UNCHANGED <<taken, seen, proxyReport, proxyVars, relayVars, tree, written, bytes, report>>

\* An empty report is read again; one that is no success ends the session.
await_worker_report ==
    /\ report.status = "success"
    /\ Advances("await_worker_report", "read_bundle")
    /\ seen' = report
    /\ UNCHANGED <<taken, proxyReport, proxyVars, relayVars, runnerVars>>

\* The bundle comes over the output of a docker exec, of which the host checks that it ended
\* well and is not too long: it may be the whole bundle or one cut short.
read_from == {[files |-> written, length |-> bytes], [files |-> {}, length |-> 0]}

read_bundle ==
    /\ Advances("read_bundle", "stop_worker")
    /\ taken' \in read_from
    /\ UNCHANGED <<seen, proxyReport, proxyVars, relayVars, runnerVars>>

stop_worker ==
    /\ Advances("stop_worker", IF mode = "ssh" THEN "await_relay_receipt" ELSE "signal_done")
    /\ worker' = "stopped"
    /\ UNCHANGED <<taken, seen, proxyReport, proxyVars, relayVars, tree, written, bytes, report>>

RelayRunning ==
    relay \in {"waiting", "starting", "listening", "relaying", "signed", "answered", "lingering"}

await_relay_receipt ==
    /\ Advances("await_relay_receipt", "verify_relay_running")
    /\ RelayRunning /\ receipt \in 1..4
    /\ UNCHANGED <<taken, seen, proxyReport, proxyVars, relayVars, runnerVars>>

\* The relay has to be running still, with its receipt read.
verify_relay_running ==
    /\ Advances("verify_relay_running", "signal_done")
    /\ RelayRunning
    /\ UNCHANGED <<taken, seen, proxyReport, proxyVars, relayVars, runnerVars>>

signal_done ==
    /\ Advances("signal_done", "await_proxy_terminal")
    /\ Alive
    /\ done' = TRUE
    /\ UNCHANGED <<taken, seen, proxyReport, relayVars, runnerVars,
                   proxy, limit, conn, total, observed, published>>

await_proxy_terminal ==
    /\ Advances("await_proxy_terminal", "stop_proxy")
    /\ Alive /\ published # None /\ published.terminal
    /\ proxyReport' = published
    /\ UNCHANGED <<taken, seen, proxyVars, relayVars, runnerVars>>

stop_proxy ==
    /\ Advances("stop_proxy", "validate_outputs")
    /\ proxy' = "stopped"
    /\ UNCHANGED <<taken, seen, proxyReport, relayVars, runnerVars,
                   limit, conn, total, observed, published, done>>

valid_traffic(r) ==
    /\ r.destinations = {Destination}
    /\ r.accepted > 0 /\ r.sent > 0 /\ r.received > 0
    /\ r.sent + r.received <= MaxTunnel
    /\ r.rejected = 0 /\ ~r.exceeded
    /\ r.terminal

\* Mutant: any bundle goes with a report of success.
digest_unchecked(r, b) == r.status = "success"

\* The report's digest is that of the bundle that was read.
digest_matches(r, b) == r.files = b.files /\ r.length = b.length

validate_outputs ==
    /\ host = "validate_outputs"
    /\ host' = IF valid_traffic(proxyReport) /\ digest_matches(seen, taken)
               THEN "accepted" ELSE "failed"
    /\ UNCHANGED <<mode, taken, seen, proxyReport, proxyVars, relayVars, runnerVars>>

\* A docker command fails, a wait is over, the acquisition is cancelled or the worker
\* reports a failure: the containers are removed with what is in them.
session_fails ==
    /\ host \in HostSteps
    /\ host' = "failed"
    /\ proxy' = "stopped" /\ worker' = "stopped"
    /\ relay' = IF mode = "ssh" THEN "stopped" ELSE relay
    /\ conn' = [c \in Connections |-> NoConnection]
    /\ limit' = 1 /\ total' = 0 /\ observed' = NoObservations /\ published' = None /\ done' = FALSE
    /\ tree' = NoTree /\ written' = {} /\ bytes' = 0 /\ report' = Report("absent", {}, 0)
    /\ taken' = None /\ seen' = None /\ proxyReport' = None
    /\ UNCHANGED <<mode, grant, bound, signatures, receipt, agentBound, agentSigned>>

Host ==
    \/ begin_session \/ start_relay \/ copy_grant \/ await_relay_ready \/ start_proxy
    \/ await_proxy_ready \/ start_worker \/ await_worker_report \/ read_bundle \/ stop_worker
    \/ await_relay_receipt \/ verify_relay_running \/ signal_done \/ await_proxy_terminal
    \/ stop_proxy \/ validate_outputs
-----------------------------------------------------------------------------
(* The containers *)

\* git, or ssh through promptectomy-ssh-connect, opens a connection while it fetches;
\* over SSH there is one.
open_connection(c) ==
    /\ worker = "fetch"
    /\ Alive
    /\ conn[c].phase = "none"
    /\ \A d \in Connections : d < c => mode = "https" /\ conn[d].phase # "none"
    /\ conn' = [conn EXCEPT ![c].phase = "queued"]
    /\ UNCHANGED <<proxy, limit, total, observed, published, done>>

ProxySteps ==
    /\ \/ Main \/ proxy_gives_up
       \/ \E c \in Connections : open_connection(c) \/ Copying(c) \/ Task(c)
    /\ UNCHANGED <<hostVars, relayVars, runnerVars>>

\* ssh connects while git fetches; what it has sent may be read when it is gone.
RelaySteps ==
    /\ \/ read_grant \/ bind_relay \/ answer_signature \/ publish_receipt
       \/ client_closes \/ relay_gives_up
       \/ worker \notin {"off", "waiting", "workspace", "init"} /\ (accept_client \/ relay_frame)
    /\ UNCHANGED <<hostVars, proxyVars, runnerVars>>

RunnerSteps == Runner /\ UNCHANGED <<hostVars, proxyVars, relayVars>>

Next == Host \/ session_fails \/ ProxySteps \/ RelaySteps \/ RunnerSteps

Spec == Init /\ [][Next]_vars

\* The proxy's tasks are run, and their own time limit strikes; nothing is assumed of the
\* worker, of the destination, of the host or of the proxy's wall time.
Fairness ==
    /\ WF_vars(Main /\ UNCHANGED <<hostVars, relayVars, runnerVars>>)
    /\ \A c \in Connections : WF_vars(Task(c) /\ UNCHANGED <<hostVars, relayVars, runnerVars>>)

FairSpec == Spec /\ Fairness
-----------------------------------------------------------------------------
(* Properties *)

\* What a connection has moved and not yet recorded.
Unrecorded ==
    [c \in Connections |->
       IF conn[c].phase \in {"open", "finished"} THEN conn[c].up + conn[c].down ELSE 0]

NoneRejected ==
    observed.rejected = 0 /\ \A c \in Connections : conn[c].outcome \in {None, "ok"}

\* The counter the connections share and the report agree: as long as no connection was
\* turned away or failed, what is recorded and what the tasks have yet to record are the
\* bytes reserved.  So an accepted report, which is final and has no rejection, holds every
\* byte of the session, and no task is left that could move more.
TrafficIsAccountedFor ==
    /\ Alive /\ NoneRejected =>
         observed.sent + observed.received + SumFunctionOnSet(Unrecorded, Connections) = total
    /\ host = "accepted" =>
         /\ proxyReport.sent + proxyReport.received = total
         /\ \A c \in Connections : conn[c].phase \in {"none", "closed"}

\* The host's agent signs only with the selected key, only in a session bound to the
\* pinned host key and no more often than granted; a receipt never claims more than the
\* agent did, and a brokered fetch is accepted only if the agent has signed.
SignaturesAreGranted ==
    /\ agentSigned # <<>> => agentBound = {HostKey}
    /\ \A i \in DOMAIN agentSigned : agentSigned[i] = SelectedKey
    /\ Len(agentSigned) <= MaxSignatures
    /\ receipt <= signatures /\ signatures <= Len(agentSigned)
    /\ host = "accepted" /\ mode = "ssh" => agentSigned # <<>>

\* A report of success vouches for the whole selection of one tree, its paths distinct
\* whatever their case, within every limit.
BundleIsSelection ==
    report.status = "success" =>
      /\ report.files = Files(tree) /\ report.files # {}
      /\ \A e, f \in report.files : e # f => e.folded # f.folded
      /\ Cardinality(report.files) <= MaxFiles
      /\ \A e \in report.files : e.safe /\ e.size <= MaxFileBytes
      /\ report.length = projected_bundle_bytes(tree) /\ report.length <= MaxBundle

\* An accepted bundle, read while the worker that wrote bundle and report was still running
\* and over a stream that may have been cut short, is the whole selection that a report of
\* success vouches for.
AcceptedIsVouchedFor ==
    host = "accepted" =>
      /\ report.status = "success"
      /\ taken = [files |-> report.files, length |-> report.length]
      /\ taken.files = Files(tree)

\* A proxy that is told that the worker is done publishes its final report, however the
\* open connections behave, unless it fails or is stopped.
DoneIsAnswered ==
    done ~> \/ published # None /\ published.terminal
            \/ proxy \in {"failed", "stopped"}
=============================================================================
