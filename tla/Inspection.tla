------------------------------ MODULE Inspection ------------------------------
(***************************************************************************)
(* Repository inspections: the daemon's handler and its permits            *)
(* (promptectomy-daemon), the acquisition it runs on a blocking thread     *)
(* (promptectomy-acquisition), the OCI session of a remote acquisition     *)
(* with its networks, containers and cleanup (oci_remote), and the         *)
(* publication of the snapshot.                                            *)
(*                                                                         *)
(* The handler and the thread are separate actors.  The handler may answer *)
(* 408, or be dropped with its connection, while the thread is anywhere;   *)
(* all they share is a cancelled flag and the thread's result.             *)
(*                                                                         *)
(* Abstractions:                                                           *)
(*  - a task is one request with its connection and its thread; the        *)
(*    deadlines of the handler, of a connection and of a docker command    *)
(*    may strike at any time;                                              *)
(*  - a docker command is a step of its own where it creates or removes;   *)
(*    the commands that only look, start, copy and await between two       *)
(*    creations are one step, which passes or fails;                       *)
(*  - the docker server is external: a creation whose command was stopped  *)
(*    may have happened, may never happen or may still happen later;       *)
(*  - errors are told apart only as far as the cleanup goes, and answers   *)
(*    as ok, an error, or none because the connection was gone;            *)
(*  - the identity of a snapshot is a constant of its task, since equal    *)
(*    requests that read equal sources get equal receipts;                 *)
(*  - deleting a dropped work directory, whose errors the code ignores,    *)
(*    succeeds; a removal in docker takes effect at once or never.         *)
(***************************************************************************)
EXTENDS Naturals, FiniteSets

CONSTANTS
    Tasks,          \* inspection requests and direct calls of the library
    Direct,         \* the tasks that call Acquirer::acquire without the daemon
    SourceOf,       \* the kind of source of each task
    SnapshotOf,     \* the snapshot directory (receipt digest) of each task
    None,           \* no snapshot
    MaxInspections, \* permits for inspections
    MaxConnections, \* permits for connections
    MaxCrashes      \* bound on the crashes of the daemon and its fellow callers

\* A path, an archive and a bundle are all read locally.
SourceKind == {"local", "https", "ssh"}

Containers == {"worker", "proxy", "relay"}
Networks == {"internal", "outbound"}

\* What a session may leave in docker, all of it under the session's label.
ResourceNames == Containers \cup Networks \cup {"volume"}

ASSUME TasksAssumption ==
    /\ IsFiniteSet(Tasks)
    /\ Direct \subseteq Tasks
    /\ SourceOf \in [Tasks -> SourceKind]
    /\ \A t \in Tasks \ Direct : SourceOf[t] # "ssh"
    /\ DOMAIN SnapshotOf = Tasks

ASSUME LimitsAssumption ==
    MaxInspections \in Nat /\ MaxConnections \in Nat /\ MaxCrashes \in Nat

ASSUME NoneAssumption == None \notin Tasks

VARIABLES
    conn,        \* the connection of a task: none, open, waiting, closed
    answer,      \* what the client was told
    inspections, \* the free permits of the inspections semaphore
    at,          \* where the thread of a task is
    flight,      \* tasks whose docker create command is running
    error,       \* the error the thread will return, "none" so far
    cancelled,   \* tasks whose cancelled flag is set
    resources,   \* docker's resources under the label of a task's session
    stopped,     \* creations whose command was stopped before it returned
    pending,     \* those of them the docker server has yet to decide on
    staging,     \* tasks with a directory under work/
    snapshots,   \* the published snapshots: which task renamed its tree there
    crashes      \* crashes so far

handler == <<conn, answer>>
thread == <<at, flight, error>>
docker == <<resources, stopped, pending>>
storage == <<staging, snapshots>>
vars == <<handler, inspections, thread, cancelled, docker, storage, crashes>>

Remote(t) == SourceOf[t] # "local"
Running(t) == at[t] \notin {"idle", "done", "dead"}

Goes(t, pc) == at' = [at EXCEPT ![t] = pc]
Fails(t, pc, e) == Goes(t, pc) /\ error' = [error EXCEPT ![t] = e]

-----------------------------------------------------------------------------
(* The daemon's handler *)

\* A connection over the limit is dropped before it is read, which changes nothing.
accept(t) ==
    /\ t \notin Direct
    /\ conn[t] = "none"
    /\ Cardinality({u \in Tasks : conn[u] \in {"open", "waiting"}}) < MaxConnections
    /\ conn' = [conn EXCEPT ![t] = "open"]
    /\ UNCHANGED <<answer, inspections, thread, cancelled, docker, storage, crashes>>

Closes(t, a) ==
    /\ conn' = [conn EXCEPT ![t] = "closed"]
    /\ answer' = [answer EXCEPT ![t] = a]

\* Headers, rate, permissions, body or the request itself are refused.
refuse_request(t) ==
    /\ conn[t] = "open"
    /\ Closes(t, "error")
    /\ UNCHANGED <<inspections, thread, cancelled, docker, storage, crashes>>

\* The permit moves into the blocking closure: the handler waits without it.
inspect_repository(t) ==
    /\ conn[t] = "open"
    /\ \/ /\ inspections = 0
          /\ Closes(t, "error")
          /\ UNCHANGED <<inspections, at>>
       \/ /\ inspections > 0
          /\ inspections' = inspections - 1
          /\ conn' = [conn EXCEPT ![t] = "waiting"]
          /\ Goes(t, "spawned")
          /\ UNCHANGED answer
    /\ UNCHANGED <<flight, error, cancelled, docker, storage, crashes>>

\* The thread has returned: its result is the answer.  The guard that sets the flag is
\* dropped with the handler here too.
respond(t) ==
    /\ conn[t] = "waiting"
    /\ at[t] = "done"
    /\ cancelled' = cancelled \cup {t}
    /\ Closes(t, IF error[t] = "none" THEN "ok" ELSE "error")
    /\ UNCHANGED <<inspections, thread, docker, storage, crashes>>

\* Mutant: the permit belongs to the handler and goes with it.
inspection_timed_out_releases(t) ==
    /\ conn[t] = "waiting"
    /\ at[t] # "done"
    /\ cancelled' = cancelled \cup {t}
    /\ Closes(t, "error")
    /\ inspections' = inspections + 1
    /\ UNCHANGED <<thread, docker, storage, crashes>>

inspection_timed_out(t) ==
    /\ conn[t] = "waiting"
    /\ at[t] # "done"
    /\ cancelled' = cancelled \cup {t}
    /\ Closes(t, "error")
    /\ UNCHANGED <<inspections, thread, docker, storage, crashes>>

\* The client goes away or CONNECTION_DEADLINE strikes: the handler is dropped, and
\* with it the guard that sets the flag.
connection_dropped(t) ==
    /\ conn[t] \in {"open", "waiting"}
    /\ cancelled' = IF conn[t] = "waiting" THEN cancelled \cup {t} ELSE cancelled
    /\ Closes(t, "none")
    /\ UNCHANGED <<inspections, thread, docker, storage, crashes>>

\* A direct caller of the library: no permit, no handler and a flag nobody sets.
acquire(t) ==
    /\ t \in Direct
    /\ at[t] = "idle"
    /\ Goes(t, "spawned")
    /\ UNCHANGED <<handler, inspections, flight, error, cancelled, docker, storage, crashes>>

-----------------------------------------------------------------------------
(* The acquisition thread *)

Thread(t) == UNCHANGED <<handler, inspections, cancelled, crashes>>

\* The limits, the authority and the selected roots are checked before anything is read.
acquire_cancelable(t) ==
    /\ at[t] = "spawned"
    /\ \/ t \in cancelled /\ Fails(t, "returning", "failed")
       \/ Fails(t, "returning", "failed")
       \/ /\ t \notin cancelled
          /\ Goes(t, IF Remote(t) THEN "runtime" ELSE "collected")
          /\ UNCHANGED error
    /\ Thread(t)
    /\ UNCHANGED <<flight, docker, storage>>

\* Mutant: only a session that failed is cleaned up.
Finishes_at_once(t) == "collected"

\* A session that succeeded is cleaned up too, before its output is used.
Finishes(t) == "rm_worker"

\* The order of run_session, by the kind of source.
after(t, pc) ==
    CASE pc = "runtime" -> "internal"
      [] pc = "internal" -> "outbound"
      [] pc = "outbound" -> "networks"
      [] pc = "networks" -> IF SourceOf[t] = "ssh" THEN "volume" ELSE "proxy"
      [] pc = "volume" -> "relay"
      [] pc = "relay" -> "relay_checks"
      [] pc = "relay_checks" -> "relay_ready"
      [] pc = "relay_ready" -> "proxy"
      [] pc = "proxy" -> "proxy_checks"
      [] pc = "proxy_checks" -> "proxy_ready"
      [] pc = "proxy_ready" -> "worker"
      [] pc = "worker" -> "worker_checks"
      [] pc = "worker_checks" -> "report"
      [] pc = "report" -> IF SourceOf[t] = "ssh" THEN "receipt" ELSE "terminal"
      [] pc = "receipt" -> "terminal"
      [] pc = "terminal" -> Finishes(t)
      [] pc = "rm_worker" -> "rm_proxy"
      [] pc = "rm_proxy" -> "rm_relay"
      [] pc = "rm_relay" -> "rm_volume"
      [] pc = "rm_volume" -> "rm_internal"
      [] pc = "rm_internal" -> "rm_outbound"
      [] pc = "rm_outbound" -> "ls_containers"
      [] pc = "ls_containers" -> "ls_networks"
      [] pc = "ls_networks" -> "ls_volumes"

\* Nothing exists yet, so a failure returns without cleanup.
verify_runtime(t) ==
    /\ at[t] = "runtime"
    /\ \/ t \notin cancelled /\ Goes(t, after(t, "runtime")) /\ UNCHANGED error
       \/ Fails(t, "returning", "failed")
    /\ Thread(t)
    /\ UNCHANGED <<flight, docker, storage>>

\* Mutant: the session is left where it failed.
Abandons_to(t) == "returning"

\* Every failure inside run_session is followed by cleanup_session.
Abandons(t) == "rm_worker"

\* A step between two creations: commands that look, start, copy in or read out, each of
\* which reads the flag.
Step(t, pc) ==
    /\ at[t] = pc
    /\ \/ t \notin cancelled /\ Goes(t, after(t, pc)) /\ UNCHANGED error
       \/ Fails(t, Abandons(t), "failed")
    /\ Thread(t)
    /\ UNCHANGED <<flight, docker, storage>>

verify_network(t) == Step(t, "networks")

\* The relay's binary and settings are verified and it is started.
verify_relay_container(t) == Step(t, "relay_checks")

await_relay_ready(t) == Step(t, "relay_ready")

\* The proxy's, with both networks connected.
verify_container(t) == Step(t, "proxy_checks")

await_proxy_ready(t) == Step(t, "proxy_ready")

\* The worker's, and after its start that it has no default route.
verify_worker_default_route_absent(t) == Step(t, "worker_checks")

\* The report and the bundle are read and the worker is stopped.
await_worker_report(t) == Step(t, "report")

await_relay_receipt(t) == Step(t, "receipt")

\* The proxy is told, reports and is stopped; the outputs are validated.
await_proxy_terminal(t) == Step(t, "terminal")

\* The flag is read before the command is started, and again while it runs.
begin_create(t) ==
    /\ at[t] \in ResourceNames
    /\ t \notin flight
    /\ IF t \in cancelled
       THEN Fails(t, Abandons(t), "failed") /\ UNCHANGED flight
       ELSE flight' = flight \cup {t} /\ UNCHANGED <<at, error>>
    /\ Thread(t)
    /\ UNCHANGED <<docker, storage>>

create_returns(t) ==
    /\ t \in flight
    /\ t \notin cancelled
    /\ flight' = flight \ {t}
    /\ resources' = [resources EXCEPT ![t] = @ \cup {at[t]}]
    /\ Goes(t, after(t, at[t]))
    /\ Thread(t)
    /\ UNCHANGED <<error, stopped, pending, storage>>

\* Mutant: the command is given up on but not killed.
create_stopped_unkilled(t) ==
    /\ t \in flight
    /\ Fails(t, Abandons(t), "failed")
    /\ Thread(t)
    /\ UNCHANGED <<flight, docker, storage>>

\* The command failed, timed out or was killed for the flag.
create_stopped(t) ==
    /\ t \in flight
    /\ flight' = flight \ {t}
    /\ stopped' = [stopped EXCEPT ![t] = @ \cup {at[t]}]
    /\ \/ /\ resources' = [resources EXCEPT ![t] = @ \cup {at[t]}]
          /\ UNCHANGED pending
       \/ pending' = pending \cup {t} /\ UNCHANGED resources
       \/ UNCHANGED <<resources, pending>>
    /\ Fails(t, Abandons(t), "failed")
    /\ Thread(t)
    /\ UNCHANGED storage

\* The docker server carries out, or drops, a creation whose client is gone.
late_creation(t) ==
    /\ t \in pending
    /\ pending' = pending \ {t}
    /\ \/ resources' = [resources EXCEPT ![t] = @ \cup stopped[t]]
       \/ UNCHANGED resources
    /\ UNCHANGED <<handler, inspections, thread, cancelled, stopped, storage, crashes>>

Removed(pc) ==
    CASE pc = "rm_worker" -> "worker" [] pc = "rm_proxy" -> "proxy"
      [] pc = "rm_relay" -> "relay" [] pc = "rm_volume" -> "volume"
      [] pc = "rm_internal" -> "internal" [] pc = "rm_outbound" -> "outbound"

Removals == {"rm_worker", "rm_proxy", "rm_relay", "rm_volume", "rm_internal", "rm_outbound"}

\* cleanup_session pays no attention to the flag, nor to the outcome of a removal.
remove(t) ==
    /\ at[t] \in Removals
    /\ \/ resources' = [resources EXCEPT ![t] = @ \ {Removed(at[t])}]
       \/ UNCHANGED resources
    /\ Goes(t, after(t, at[t]))
    /\ Thread(t)
    /\ UNCHANGED <<flight, error, stopped, pending, storage>>

Listed(pc) ==
    CASE pc = "ls_containers" -> Containers [] pc = "ls_networks" -> Networks
      [] pc = "ls_volumes" -> {"volume"}

Listings == {"ls_containers", "ls_networks", "ls_volumes"}

lists_none(t) == resources[t] \cap Listed(at[t]) = {}

\* Mutant: the listings are repeated until they name nothing.
verify_removed_polls(t) ==
    /\ at[t] \in Listings
    /\ lists_none(t)
    /\ Goes(t, IF at[t] # "ls_volumes" THEN after(t, at[t])
               ELSE IF error[t] = "none" THEN "collected" ELSE "returning")
    /\ Thread(t)
    /\ UNCHANGED <<flight, error, docker, storage>>

\* After the last listing the session's own result is returned; a listing that fails or
\* names something replaces it.
verify_removed(t) ==
    /\ at[t] \in Listings
    /\ \/ Fails(t, "returning", "cleanup_failed")
       \/ /\ lists_none(t)
          /\ Goes(t, IF at[t] # "ls_volumes" THEN after(t, at[t])
                     ELSE IF error[t] = "none" THEN "collected" ELSE "returning")
          /\ UNCHANGED error
    /\ Thread(t)
    /\ UNCHANGED <<flight, docker, storage>>

\* The files are read, twice over for a local source, or decoded from the bundle; they
\* may be refused.  The flag is read once more before publication.
collect(t) ==
    /\ at[t] = "collected"
    /\ \/ Fails(t, "returning", "failed")
       \/ t \in cancelled /\ Fails(t, "returning", "failed")
       \/ t \notin cancelled /\ Goes(t, "publish") /\ UNCHANGED error
    /\ Thread(t)
    /\ UNCHANGED <<flight, docker, storage>>

\* A snapshot that is there is verified against the new receipt and tree.
publish_existing(t) ==
    /\ at[t] = "publish"
    /\ snapshots[SnapshotOf[t]] # None
    /\ \/ Goes(t, "returning") /\ UNCHANGED error
       \/ Fails(t, "returning", "failed")
    /\ Thread(t)
    /\ UNCHANGED <<flight, docker, storage>>

write_staging(t) ==
    /\ at[t] = "publish"
    /\ snapshots[SnapshotOf[t]] = None
    /\ staging' = staging \cup {t}
    /\ Goes(t, "rename")
    /\ Thread(t)
    /\ UNCHANGED <<flight, error, docker, snapshots>>

\* Mutant: the rename replaces what another task has published meanwhile.
rename_over(t) ==
    /\ at[t] = "rename"
    /\ snapshots' = [snapshots EXCEPT ![SnapshotOf[t]] = t]
    /\ Goes(t, "returning") /\ UNCHANGED error
    /\ staging' = staging \ {t}
    /\ Thread(t)
    /\ UNCHANGED <<flight, docker>>

\* The rename gives the tree its final name; over a published one it fails, and that one
\* is verified instead.  A task may fail after its rename, when the final directory cannot
\* be made read-only.  On every path but the rename the work directory is dropped.
rename(t) ==
    /\ at[t] = "rename"
    /\ \/ /\ snapshots[SnapshotOf[t]] = None
          /\ snapshots' = [snapshots EXCEPT ![SnapshotOf[t]] = t]
          /\ \/ Goes(t, "returning") /\ UNCHANGED error
             \/ Fails(t, "returning", "failed")
       \/ /\ snapshots[SnapshotOf[t]] # None
          /\ Goes(t, "returning") /\ UNCHANGED <<error, snapshots>>
       \/ Fails(t, "returning", "failed") /\ UNCHANGED snapshots
    /\ staging' = staging \ {t}
    /\ Thread(t)
    /\ UNCHANGED <<flight, docker>>

\* The closure ends and drops its permit.
return(t) ==
    /\ at[t] = "returning"
    /\ Goes(t, "done")
    /\ inspections' = IF t \in Direct THEN inspections ELSE inspections + 1
    /\ UNCHANGED <<handler, flight, error, cancelled, docker, storage, crashes>>

-----------------------------------------------------------------------------
(* Processes die *)

\* Threads and handlers are gone; a docker command that was running goes on by itself.
\* Nothing looks for what the process left in docker or under work/.
Die(ts) ==
    /\ crashes < MaxCrashes
    /\ crashes' = crashes + 1
    /\ at' = [t \in Tasks |-> IF t \in ts /\ Running(t) THEN "dead" ELSE at[t]]
    /\ stopped' = [t \in Tasks |->
         IF t \in ts \cap flight THEN stopped[t] \cup {at[t]} ELSE stopped[t]]
    /\ pending' = pending \cup (ts \cap flight)
    /\ flight' = flight \ ts
    /\ UNCHANGED <<answer, error, cancelled, resources, storage>>

\* The daemon dies with its connections and is started again.
crash ==
    /\ Die(Tasks \ Direct)
    /\ conn' = [t \in Tasks |-> IF conn[t] \in {"open", "waiting"} THEN "closed" ELSE conn[t]]
    /\ inspections' = MaxInspections

\* A caller of the library dies.
caller_crash(t) ==
    /\ t \in Direct
    /\ Running(t)
    /\ Die({t})
    /\ UNCHANGED <<conn, inspections>>

-----------------------------------------------------------------------------
(* The specification *)

Init ==
    /\ conn = [t \in Tasks |-> "none"]
    /\ answer = [t \in Tasks |-> "none"]
    /\ inspections = MaxInspections
    /\ at = [t \in Tasks |-> "idle"]
    /\ flight = {}
    /\ error = [t \in Tasks |-> "none"]
    /\ cancelled = {}
    /\ resources = [t \in Tasks |-> {}]
    /\ stopped = [t \in Tasks |-> {}]
    /\ pending = {}
    /\ staging = {}
    /\ snapshots = [s \in {SnapshotOf[t] : t \in Tasks} |-> None]
    /\ crashes = 0

Handler(t) ==
    \/ accept(t) \/ refuse_request(t) \/ inspect_repository(t)
    \/ respond(t) \/ inspection_timed_out(t) \/ connection_dropped(t)

Session(t) ==
    \/ verify_runtime(t) \/ verify_network(t)
    \/ verify_relay_container(t) \/ await_relay_ready(t)
    \/ verify_container(t) \/ await_proxy_ready(t)
    \/ verify_worker_default_route_absent(t) \/ await_worker_report(t)
    \/ await_relay_receipt(t) \/ await_proxy_terminal(t)
    \/ begin_create(t) \/ create_returns(t) \/ create_stopped(t)
    \/ remove(t) \/ verify_removed(t)

Publication(t) ==
    \/ collect(t) \/ publish_existing(t) \/ write_staging(t) \/ rename(t) \/ return(t)

Next ==
    \/ \E t \in Tasks : Handler(t)
    \/ \E t \in Tasks : acquire(t)
    \/ \E t \in Tasks : acquire_cancelable(t) \/ Session(t) \/ Publication(t)
    \/ \E t \in Tasks : late_creation(t)
    \/ \E t \in Tasks : caller_crash(t)
    \/ crash

Spec == Init /\ [][Next]_vars

\* A blocking thread is scheduled, and every docker command has a deadline of its own.
\* The handler's timer fires.
Scheduled(t) ==
    /\ WF_vars(acquire_cancelable(t) \/ Session(t) \/ Publication(t))
    /\ WF_vars(respond(t) \/ inspection_timed_out(t))

FairSpec == Spec /\ \A t \in Tasks : Scheduled(t)

-----------------------------------------------------------------------------
(* Properties *)

Checks == {"networks", "relay_checks", "relay_ready", "proxy_checks", "proxy_ready",
           "worker_checks", "report", "receipt", "terminal"}

Steps == ResourceNames \cup Checks \cup Removals \cup Listings \cup
         {"idle", "spawned", "runtime", "collected", "publish", "rename", "returning",
          "done", "dead"}

Errors == {"none", "failed", "cleanup_failed"}

\* Handlers, threads and docker resources are in their states, and a command is running only
\* at a creation.
TypeOK ==
    /\ conn \in [Tasks -> {"none", "open", "waiting", "closed"}]
    /\ answer \in [Tasks -> {"none", "ok", "error"}]
    /\ inspections \in 0..MaxInspections
    /\ at \in [Tasks -> Steps]
    /\ \A t \in flight : t \in Tasks /\ at[t] \in ResourceNames
    /\ error \in [Tasks -> Errors]
    /\ cancelled \subseteq Tasks
    /\ resources \in [Tasks -> SUBSET ResourceNames]
    /\ stopped \in [Tasks -> SUBSET ResourceNames]
    /\ pending \subseteq Tasks
    /\ staging \subseteq Tasks
    /\ snapshots \in [{SnapshotOf[t] : t \in Tasks} -> Tasks \cup {None}]
    /\ crashes \in 0..MaxCrashes

\* "Retry after an active inspection finishes cleanup": a permit is held by exactly the
\* threads still at work, cleaning up included, not by the handlers that wait for them;
\* however handlers time out or are dropped, no permit is lost or given twice.
PermitsFollowThreads ==
    inspections + Cardinality({t \in Tasks \ Direct : Running(t)}) = MaxInspections

\* A task that returned has let go of its work directory, and has left nothing in docker
\* unless it reports a failed cleanup or the docker server carried out, too late to be
\* seen, the one creation whose command was stopped.
ReturnedLeavesNothing ==
    \A t \in Tasks : at[t] = "done" =>
        /\ t \notin staging
        /\ error[t] # "cleanup_failed" => resources[t] \subseteq stopped[t]

\* What the attestation of a published remote snapshot says of the cleanup is true, and
\* stays true: docker has and will have nothing of that session.
AttestedIsClean ==
    \A t \in Tasks : at[t] \in {"collected", "publish", "rename"} \/
                     (at[t] = "done" /\ error[t] = "none") =>
        resources[t] = {} /\ t \notin pending

\* A snapshot is immutable: tasks that publish the same receipt at the same time leave
\* the first tree in place, and a client that was told ok finds a tree there.
SnapshotIsImmutable ==
    [][/\ \A s \in DOMAIN snapshots : snapshots[s] # None => snapshots'[s] = snapshots[s]
       /\ \A t \in Tasks : answer'[t] = "ok" => snapshots'[SnapshotOf[t]] # None]_vars

\* Every inspection ends, its permit is returned and its client answered, whatever
\* docker does and whenever the client goes away.
InspectionEnds ==
    \A t \in Tasks :
        /\ Running(t) ~> ~Running(t)
        /\ conn[t] = "waiting" ~> conn[t] = "closed"
=============================================================================
