----------------------------- MODULE EgressProxy -----------------------------
(***************************************************************************)
(* The egress proxy of a remote fetch (promptectomy-egress-proxy): it      *)
(* resolves one destination once, tunnels the worker's connections to it   *)
(* within a byte limit that all of them share, and reports what it saw.    *)
(*                                                                         *)
(* Each connection is a task of its own on a multi-threaded runtime.  The  *)
(* two directions of a tunnel belong to one task, so a load and the        *)
(* exchange after it interleave with those of other connections only.      *)
(*                                                                         *)
(* Abstractions:                                                           *)
(*  - bytes are moved one unit at a time, MaxTunnel being max_tunnel_bytes;*)
(*  - a connection that is denied, fails or times out is "failed": the     *)
(*    observations do not tell the three apart;                            *)
(*  - addresses are model values, those in Global are the public ones;     *)
(*  - a deadline may strike whenever the code looks at it.                 *)
(***************************************************************************)
EXTENDS Integers, FiniteSets, Sequences

CONSTANTS
    Connections,      \* connections the worker may open, numbered as they are opened
    MaxConnections,   \* the most max_connections may be
    MaxTunnel,        \* max_tunnel_bytes
    MaxHeaders,       \* max_headers
    Destination,      \* the one destination
    Global,           \* public addresses
    ConnectRequests,  \* what a client may send first
    Answers,          \* sets of addresses the resolver may answer with
    None              \* no value

ASSUME ProxyAssumption ==
    /\ IsFiniteSet(Connections) /\ Connections \subseteq Nat
    /\ MaxConnections \in Nat \ {0} /\ MaxTunnel \in Nat \ {0} /\ MaxHeaders \in Nat \ {0}
    /\ None \notin {"ok", "byte_limit", "failed"}

VARIABLES
    proxy,      \* what the main task is doing
    limit,      \* max_connections of the request
    conn,       \* each connection and its task
    total,      \* tunnel_bytes, the counter all connections share
    observed,   \* the observations in memory
    published,  \* the observations file, or None
    done        \* whether the worker-done file is there

proxyVars == <<proxy, limit, conn, total, observed, published, done>>

Directions == {"up", "down"}

\* The phases in which a connection holds a permit.
Tasks == {"request", "open", "finished", "recorded"}

NoConnection ==
    [phase |-> "none", outcome |-> None, up |-> 0, down |-> 0, open |-> {}, loaded |-> None]

NoObservations ==
    [accepted |-> 0, rejected |-> 0, sent |-> 0, received |-> 0, destinations |-> {},
     exceeded |-> FALSE, terminal |-> FALSE]

Observations ==
    [accepted : Nat, rejected : Nat, sent : Nat, received : Nat,
     destinations : SUBSET {Destination}, exceeded : BOOLEAN, terminal : BOOLEAN]

ProxyTypeOK ==
    /\ proxy \in {"off", "waiting", "resolving", "binding", "publishing", "serving",
                  "rejecting", "draining", "quiesced", "ended", "failed", "stopped"}
    /\ \A c \in Connections :
         /\ conn[c].phase \in Tasks \cup {"none", "queued", "ended", "broken", "closed"}
         /\ conn[c].outcome \in {None, "ok", "byte_limit", "failed"}
         /\ conn[c].open \subseteq Directions
         /\ conn[c].loaded # None => conn[c].loaded.direction \in conn[c].open
    /\ limit \in 1..MaxConnections
    /\ total \in 0..MaxTunnel
    /\ observed \in Observations
    /\ published = None \/ published \in Observations
    /\ done \in BOOLEAN

ProxyInit ==
    /\ proxy = "off"
    /\ conn = [c \in Connections |-> NoConnection]
    /\ limit = 1
    /\ total = 0
    /\ observed = NoObservations
    /\ published = None
    /\ done = FALSE
-----------------------------------------------------------------------------
(* Start *)

\* Every address the resolver names has to be public; one of them is used from then on.
resolve_once(answer) == answer # {} /\ answer \subseteq Global

\* The process is gone, its sockets with it, and no command reads from its container.
ProxyFails ==
    /\ proxy' = "failed"
    /\ conn' = [c \in Connections |-> [NoConnection EXCEPT !.phase = "closed"]]
    /\ total' = 0
    /\ observed' = NoObservations
    /\ published' = None
    /\ UNCHANGED <<limit, done>>

\* A request that is not there, not whole or not valid is looked for again.
proxy_wait_for_request ==
    /\ proxy = "waiting"
    /\ proxy' = "resolving"
    /\ limit' \in 1..MaxConnections
    /\ UNCHANGED <<conn, total, observed, published, done>>

proxy_resolves ==
    /\ proxy = "resolving"
    /\ \E answer \in Answers :
         IF resolve_once(answer)
         THEN proxy' = "binding" /\ UNCHANGED <<limit, conn, total, observed, published, done>>
         ELSE ProxyFails

\* The socket is bound before the first observations are published.
proxy_binds ==
    /\ proxy = "binding"
    /\ proxy' = "publishing"
    /\ UNCHANGED <<limit, conn, total, observed, published, done>>

bind_and_publish ==
    /\ proxy = "publishing"
    /\ published' = observed
    /\ proxy' = "serving"
    /\ UNCHANGED <<limit, conn, total, observed, done>>
-----------------------------------------------------------------------------
(* The main task *)

Permits == limit - Cardinality({c \in Connections : conn[c].phase \in Tasks})

Moves(c, phase) == conn' = [conn EXCEPT ![c].phase = phase]

\* A connection beyond the permits is turned away and recorded by the main task itself.
accept_connection(c) ==
    /\ proxy = "serving"
    /\ conn[c].phase = "queued"
    /\ IF Permits > 0
       THEN Moves(c, "request") /\ UNCHANGED <<proxy, observed>>
       ELSE /\ Moves(c, "closed")
            /\ observed' = [observed EXCEPT !.rejected = @ + 1]
            /\ proxy' = "rejecting"
    /\ UNCHANGED <<limit, total, published, done>>

record_rejection ==
    /\ proxy = "rejecting"
    /\ published' = observed
    /\ proxy' = "serving"
    /\ UNCHANGED <<limit, conn, total, observed, done>>

\* A task whose observations could not be written brings the proxy down.
join_next(c) ==
    /\ proxy \in {"serving", "draining"}
    /\ \/ /\ conn[c].phase = "ended"
          /\ Moves(c, "closed")
          /\ UNCHANGED <<proxy, limit, total, observed, published, done>>
       \/ conn[c].phase = "broken" /\ ProxyFails

\* The listener is dropped: what it had not accepted is reset.
worker_done ==
    /\ proxy = "serving"
    /\ done
    /\ proxy' = "draining"
    /\ conn' = [c \in Connections |->
                  IF conn[c].phase = "queued" THEN [conn[c] EXCEPT !.phase = "closed"] ELSE conn[c]]
    /\ UNCHANGED <<limit, total, observed, published, done>>

\* The report becomes final when every task has been joined.
quiesce_connections ==
    /\ proxy = "draining"
    /\ \A c \in Connections : conn[c].phase \notin Tasks \cup {"ended", "broken"}
    /\ observed' = [observed EXCEPT !.terminal = TRUE]
    /\ proxy' = "quiesced"
    /\ UNCHANGED <<limit, conn, total, published, done>>

write_terminal ==
    /\ proxy = "quiesced"
    /\ published' = observed
    /\ proxy' = "ended"
    /\ UNCHANGED <<limit, conn, total, observed, done>>

\* No request in time, no listener, the wall time over while serving or draining, or
\* observations that cannot be written.
proxy_gives_up ==
    /\ proxy \in {"waiting", "binding", "publishing", "serving", "rejecting", "draining", "quiesced"}
    /\ ProxyFails
-----------------------------------------------------------------------------
(* The task of a connection *)

Ends(c, outcome) == conn' = [conn EXCEPT ![c].phase = "finished", ![c].outcome = outcome,
                                         ![c].open = {}, ![c].loaded = None]

Alive == proxy \notin {"off", "failed", "stopped"}

parse_connect_request(r) ==
    /\ r.sound
    /\ r.target = Destination
    /\ Len(r.headers) <= MaxHeaders
    /\ \A i \in DOMAIN r.headers :
         /\ r.headers[i].name = "host" => r.headers[i].value = Destination
         /\ r.headers[i].name \notin {"proxy-authorization", "authorization", "transfer-encoding"}
         /\ r.headers[i].name = "content-length" => r.headers[i].value = 0
    /\ Cardinality({i \in DOMAIN r.headers : r.headers[i].name = "host"}) = 1

\* A request that is denied ends the connection; otherwise the upstream is connected.
handle_connection(c) ==
    /\ Alive
    /\ conn[c].phase = "request"
    /\ \E r \in ConnectRequests :
         IF parse_connect_request(r)
         THEN conn' = [conn EXCEPT ![c].phase = "open", ![c].open = Directions]
         ELSE Ends(c, "failed")
    /\ UNCHANGED <<proxy, limit, total, observed, published, done>>

\* A unit has arrived: the shared counter is loaded.
copy_limited(c) ==
    /\ Alive
    /\ conn[c].phase = "open" /\ conn[c].loaded = None
    /\ \E d \in conn[c].open :
         conn' = [conn EXCEPT ![c].loaded = [direction |-> d, current |-> total]]
    /\ UNCHANGED <<proxy, limit, total, observed, published, done>>

\* Mutant: the counter is stored without being compared.
reserve_bytes_blindly(c) ==
    /\ Alive
    /\ conn[c].loaded # None
    /\ LET next == conn[c].loaded.current + 1
           d == conn[c].loaded.direction
       IN IF next > MaxTunnel
          THEN Ends(c, "byte_limit") /\ UNCHANGED total
          ELSE /\ total' = next
               /\ conn' = [conn EXCEPT ![c].loaded = None,
                                       ![c].up = @ + (IF d = "up" THEN 1 ELSE 0),
                                       ![c].down = @ + (IF d = "down" THEN 1 ELSE 0)]
    /\ UNCHANGED <<proxy, limit, observed, published, done>>

\* The exchange takes place if nobody else moved the counter; otherwise the value it found
\* is tried next.
reserve_bytes(c) ==
    /\ Alive
    /\ conn[c].loaded # None
    /\ LET next == conn[c].loaded.current + 1
           d == conn[c].loaded.direction
       IN IF next > MaxTunnel
          THEN Ends(c, "byte_limit") /\ UNCHANGED total
          ELSE IF total = conn[c].loaded.current
          THEN /\ total' = next
               /\ conn' = [conn EXCEPT ![c].loaded = None,
                                       ![c].up = @ + (IF d = "up" THEN 1 ELSE 0),
                                       ![c].down = @ + (IF d = "down" THEN 1 ELSE 0)]
          ELSE /\ conn' = [conn EXCEPT ![c].loaded.current = total]
               /\ UNCHANGED total
    /\ UNCHANGED <<proxy, limit, observed, published, done>>

\* One side has sent all it had; the tunnel is over when both have.
direction_ends(c) ==
    /\ Alive
    /\ conn[c].phase = "open" /\ conn[c].loaded = None
    /\ \E d \in conn[c].open :
         IF conn[c].open = {d} THEN Ends(c, "ok")
         ELSE conn' = [conn EXCEPT ![c].open = @ \ {d}]
    /\ UNCHANGED <<proxy, limit, total, observed, published, done>>

\* The upstream or the client is gone.
connection_fails(c) ==
    /\ Alive
    /\ conn[c].phase \in {"request", "open"} /\ conn[c].loaded = None
    /\ Ends(c, "failed")
    /\ UNCHANGED <<proxy, limit, total, observed, published, done>>

\* Mutant: the time limit covers the tunnel only.
connection_times_out_open(c) ==
    /\ Alive
    /\ conn[c].phase = "open" /\ conn[c].loaded = None
    /\ Ends(c, "failed")
    /\ UNCHANGED <<proxy, limit, total, observed, published, done>>

\* max_connection_seconds is over, wherever the connection is.
connection_times_out(c) ==
    /\ Alive
    /\ conn[c].phase \in {"request", "open"} /\ conn[c].loaded = None
    /\ Ends(c, "failed")
    /\ UNCHANGED <<proxy, limit, total, observed, published, done>>

apply_outcome(o, k) ==
    CASE k.outcome = "ok" ->
           [o EXCEPT !.accepted = @ + 1, !.sent = @ + k.up, !.received = @ + k.down,
                     !.destinations = {Destination}]
      [] k.outcome = "byte_limit" -> [o EXCEPT !.rejected = @ + 1, !.exceeded = TRUE]
      [] k.outcome = "failed" -> [o EXCEPT !.rejected = @ + 1]

record_outcome(c) ==
    /\ Alive
    /\ conn[c].phase = "finished"
    /\ observed' = apply_outcome(observed, conn[c])
    /\ Moves(c, "recorded")
    /\ UNCHANGED <<proxy, limit, total, published, done>>

\* What is in memory by then replaces the file; the task ends and its permit is free.
write_observations(c) ==
    /\ Alive
    /\ conn[c].phase = "recorded"
    /\ \/ /\ published' = observed
          /\ conn' = [conn EXCEPT ![c] = [NoConnection EXCEPT !.phase = "ended"]]
       \/ /\ conn' = [conn EXCEPT ![c] = [NoConnection EXCEPT !.phase = "broken"]]
          /\ UNCHANGED published
    /\ UNCHANGED <<proxy, limit, total, observed, done>>
-----------------------------------------------------------------------------
Copying(c) ==
    handle_connection(c) \/ copy_limited(c) \/ direction_ends(c) \/ connection_fails(c)

\* What a task does on its own, whatever its peers do.
Task(c) ==
    reserve_bytes(c) \/ connection_times_out(c) \/ record_outcome(c) \/ write_observations(c)

Main ==
    \/ proxy_wait_for_request \/ proxy_resolves \/ proxy_binds \/ bind_and_publish
    \/ record_rejection \/ worker_done \/ quiesce_connections \/ write_terminal
    \/ \E c \in Connections : accept_connection(c) \/ join_next(c)
=============================================================================
