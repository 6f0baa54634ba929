-------------------------------- MODULE Watch --------------------------------
(***************************************************************************)
(* A client that watches a run across restarts of the daemon               *)
(* (promptectomy-cli: watch, get_with_reconnect, get; promptectomy-daemon: *)
(* read_metadata, request, handle_request, get_events; promptectomy-core:  *)
(* append_event, events_after).  The client reads the metadata, connects,  *)
(* sends its token and the cursor, and does so again from the start        *)
(* whenever a request fails, up to a number of attempts.  Each round it    *)
(* asks for a page of events and then for the run.                         *)
(*                                                                         *)
(* An event is its number.  Other clients change the run through the       *)
(* serving daemon, take its permits and use up its rate.                   *)
(***************************************************************************)
EXTENDS Endpoint, Sequences

CONSTANTS
    MaxEvents,    \* bound on the events of the run
    PageLimit,    \* limit=100 of the watch request
    Attempts      \* WATCH_RECONNECT_ATTEMPTS

ASSUME BoundsAssumption ==
    MaxEvents \in Nat /\ PageLimit \in Nat \ {0} /\ Attempts \in Nat \ {0}

VARIABLES
    last,         \* last_sequence of the run
    status,       \* its status: open, interrupted or closed for good
    client,       \* where the client is in its current request, and what it knows
    seen          \* history: the events of the pages the client was given, in order

vars == <<endpoint, last, status, client, seen>>

NoReply == [kind |-> "none", page |-> <<>>, terminal |-> FALSE]
Refusal == [NoReply EXCEPT !.kind = "error"]

WatchInit ==
    /\ Init
    /\ last = 0
    /\ status = "open"
    /\ \E once \in BOOLEAN :
          client = [at |-> "get", asks |-> "events", once |-> once, attempt |-> 0,
                    token |-> None, peer |-> None, cursor |-> 0, page |-> <<>>,
                    reply |-> NoReply]
    /\ seen = <<>>

run == <<last, status>>

\* is_terminal_status of the client: interrupted is among the statuses it stops at.
is_terminal_status == status \in {"interrupted", "closed"}

\* One transaction of the serving daemon's store for another client: the change and its
\* event, numbered after the last one.
append_event(d) ==
    /\ at[d] = "serve"
    /\ last < MaxEvents
    /\ last' = last + 1
    /\ status' \in IF status = "closed" THEN {"closed"} ELSE {"open", "interrupted", "closed"}
    /\ UNCHANGED <<endpoint, client, seen>>

-----------------------------------------------------------------------------
(* The client *)

\* The client is through with a request: what it knew of the connection is dropped.
Finished(c, place) ==
    [c EXCEPT !.at = place, !.attempt = 0, !.token = None, !.peer = None, !.reply = NoReply]

\* Mutant: the attempts are not counted.
retries_for_ever == client' = Finished(client, "get")

\* A failed attempt: sleep and try again from read_metadata, or give up.
retries ==
    client' = IF client.attempt + 1 < Attempts
              THEN [Finished(client, "get") EXCEPT !.attempt = client.attempt + 1]
              ELSE Finished(client, "done")

read_metadata ==
    /\ client.at = "get"
    /\ \/ /\ metadata # None
          /\ verify_private_endpoint
          /\ client' = [client EXCEPT !.at = "connect", !.token = metadata]
       \/ /\ metadata = None \/ ~verify_private_endpoint
          /\ retries
    /\ UNCHANGED <<endpoint, run, seen>>

connect ==
    /\ client.at = "connect"
    /\ \/ /\ accepts_connect
          /\ client' = [client EXCEPT !.at = "sent", !.peer = socket.owner]
       \/ /\ ~accepts_connect
          /\ retries
    /\ UNCHANGED <<endpoint, run, seen>>

\* The daemon takes the connection, or drops it because all permits are in use.
accept_connection(d) ==
    /\ client.at = "sent"
    /\ client.peer = d
    /\ \/ /\ accept(d)
          /\ client' = [client EXCEPT !.at = "accepted"]
       \/ /\ at[d] = "serve"
          /\ retries
          /\ UNCHANGED endpoint
    /\ UNCHANGED <<run, seen>>

\* The listener closed with the connection in its backlog, or the process went away.
connection_lost ==
    /\ client.at \in {"sent", "accepted", "replied"}
    /\ IF client.at = "sent" THEN client.peer \notin listening ELSE at[client.peer] \notin Running
    /\ retries
    /\ UNCHANGED <<endpoint, run, seen>>

\* CONNECTION_DEADLINE: the task is dropped without an answer.
connection_times_out(d) ==
    /\ client.at = "accepted"
    /\ client.peer = d
    /\ connection_ends(d)
    /\ retries
    /\ UNCHANGED <<run, seen>>

\* The events after the cursor, at most a page of them.
events_after(cursor) ==
    [i \in 1..(IF last - cursor < PageLimit THEN last - cursor ELSE PageLimit) |-> cursor + i]

\* Mutant: the cursor is the last event of the run, not of the page.
next_cursor_of_run(page, cursor) == last

next_cursor(page, cursor) == IF page = <<>> THEN cursor ELSE page[Len(page)]

\* What the store says, read under one hold of its mutex.
Answer ==
    [kind |-> "ok",
     page |-> IF client.asks = "events" THEN events_after(client.cursor) ELSE <<>>,
     terminal |-> client.asks = "run" /\ is_terminal_status]

\* The connection task: a token of another daemon is refused, and so may be any request
\* when the rate window is full or the state directory is not private.
handle_request(d) ==
    /\ client.at = "accepted"
    /\ client.peer = d
    /\ connection_ends(d)
    /\ \/ client' = [client EXCEPT !.at = "replied", !.reply = Refusal]
       \/ /\ client.token = d
          /\ client' = [client EXCEPT !.at = "replied", !.reply = Answer]
    /\ UNCHANGED <<run, seen>>

\* An error in place of a page, the page of a single look and a terminal run end the
\* watch.  Otherwise the other question is asked; the cursor moves on once the run was
\* seen not to be terminal.  The client keeps a page until it takes the next, and prints
\* the last one only; seen remembers them all.
receive ==
    /\ client.at = "replied"
    /\ \/ /\ client.asks = "events"
          /\ client.reply.kind = "error"
          /\ client' = Finished(client, "done")
          /\ UNCHANGED seen
       \/ /\ client.asks = "events"
          /\ client.reply.kind = "ok"
          /\ client' = [Finished(client, IF client.once THEN "done" ELSE "get")
                          EXCEPT !.asks = "run", !.page = client.reply.page]
          /\ seen' = seen \o client.reply.page
       \/ /\ client.asks = "run"
          /\ client.reply.terminal
          /\ client' = Finished(client, "done")
          /\ UNCHANGED seen
       \/ /\ client.asks = "run"
          /\ ~client.reply.terminal
          /\ client' = [Finished(client, "get")
                          EXCEPT !.asks = "events", !.page = <<>>,
                                 !.cursor = next_cursor(client.page, @)]
          /\ UNCHANGED seen
    /\ UNCHANGED <<endpoint, run>>

client_step == read_metadata \/ connect \/ connection_lost \/ receive

task_step(d) == accept_connection(d) \/ handle_request(d) \/ connection_times_out(d)

process_step(d) == (start_step(d) \/ stop_step(d)) /\ UNCHANGED <<run, client, seen>>

process_begins_or_fails(d) ==
    /\ \/ \E purpose \in {"directory", "tool"} : open_core_store(d, purpose)
       \/ accept_fails(d)
       \/ kill(d)
    /\ UNCHANGED <<run, client, seen>>

Next ==
    \/ \E d \in Processes :
          \/ process_step(d)
          \/ process_begins_or_fails(d)
          \/ task_step(d)
          \/ append_event(d)
    \/ client_step

Spec == WatchInit /\ [][Next]_vars

\* Processes that run go on, their tasks answer or time out, and so does the client; that
\* a daemon is started, killed or fails is not assumed.
FairSpec ==
    /\ Spec
    /\ WF_vars(client_step)
    /\ WF_vars(\E d \in Processes : task_step(d))
    /\ WF_vars(\E d \in Processes : process_step(d))

-----------------------------------------------------------------------------
(* What the watch promises *)

\* Whatever daemons die, restart, refuse or answer in between, the pages a watch takes
\* hold every event of the run once and in order, from the first on (watch, get_events,
\* events_after): a retried or repeated request neither skips nor repeats one.  It is
\* about what the daemons gave the client; watch itself hands on the last page only.
WatchSkipsNothing == seen = [i \in 1..(client.cursor + Len(client.page)) |-> i]

\* Every request of a watch is concluded: it is answered, or the client gives up after its
\* attempts (get_with_reconnect).  A daemon that never comes back, or one that stops with
\* the client's connection in its backlog, cannot keep it waiting.
RequestIsConcluded ==
    \A q \in {"events", "run"} :
        (client.at # "done" /\ client.asks = q) ~> (client.at = "done" \/ client.asks # q)
=============================================================================
