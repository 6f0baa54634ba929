------------------------------ MODULE Endpoint ------------------------------
(***************************************************************************)
(* Daemons that start, serve, stop and die at one private endpoint         *)
(* (promptectomy-daemon: serve, remove_stale_socket,                       *)
(* write_private_metadata, EndpointCleanup; promptectomy-core:             *)
(* open_writer_lock).  The endpoint is a socket path and a metadata file   *)
(* with the token; the writer lock belongs to the state directory and goes *)
(* with the store, so a daemon that stops gives it up before it has        *)
(* cleaned the endpoint.                                                   *)
(*                                                                         *)
(* A process is started once: its listener, socket file, token and store   *)
(* are all named by it.  Files are named by their paths, so a step that    *)
(* removes one removes whatever is there.  The backlog of a listener is    *)
(* taken never to be full: a connect to an open listener succeeds.         *)
(***************************************************************************)
EXTENDS Integers

CONSTANTS
    MaxStarts,   \* bound on the starts of a daemon or of an offline command
    ShortPath,   \* whether the socket has a directory of its own
    None

\* Processes are named in the order in which they start.
Processes == 1..MaxStarts

ASSUME StartsAssumption == MaxStarts \in Nat

ASSUME NoneAssumption == None \notin Processes \cup [owner : Processes, private : BOOLEAN]

ASSUME ShortPathIsBoolean == ShortPath \in BOOLEAN

VARIABLES
    lock,        \* who holds .writer.lock
    directory,   \* whether the socket's directory exists
    socket,      \* the socket file: who bound it, and whether its mode is private
    metadata,    \* the metadata file: whose token it has
    listening,   \* processes with an open listener
    tasks,       \* processes with a connection task, which shares the store
    at,          \* where a process is in serve
    company      \* processes that were not alone while they started or ran

endpoint == <<lock, directory, socket, metadata, listening, tasks, at, company>>

\* The steps of serve before its loop and after it.
Starting == {"directory", "stat", "connect", "remove", "bind", "permissions", "metadata"}
Stopping == {"clean", "unlink", "rmdir", "close", "exit"}
Running == Starting \cup Stopping \cup {"serve", "tool"}

Alive == {d \in Processes : at[d] \in Running}

Init ==
    /\ lock = None
    /\ directory = ~ShortPath
    /\ socket = None
    /\ metadata = None
    /\ listening = {}
    /\ tasks = {}
    /\ at = [d \in Processes |-> "new"]
    /\ company = {}

Goes(d, place) == at' = [at EXCEPT ![d] = place]

\* What is left of a process when it is gone: its files.
Released(d) == IF lock = d THEN None ELSE lock

-----------------------------------------------------------------------------
(* Starting *)

\* serve returns an error before its guard exists: listener and store are dropped.
returns_early(d) ==
    /\ Goes(d, "failed")
    /\ lock' = Released(d)
    /\ listening' = listening \ {d}
    /\ UNCHANGED <<directory, socket, metadata, tasks, company>>

\* The process begins, for serve or for an offline command, and tries the lock.
open_core_store(d, purpose) ==
    /\ at[d] = "new"
    /\ \A c \in 1..(d - 1) : at[c] # "new"
    /\ company' = IF Alive = {} THEN company ELSE company \cup Alive \cup {d}
    /\ \/ /\ lock = None
          /\ lock' = d
          /\ Goes(d, purpose)
       \/ /\ lock # None
          /\ Goes(d, "failed")
          /\ UNCHANGED lock
    /\ UNCHANGED <<directory, socket, metadata, listening, tasks>>

prepare_private_root(d) ==
    /\ at[d] = "directory"
    /\ directory' = TRUE
    /\ Goes(d, "stat")
    /\ UNCHANGED <<lock, socket, metadata, listening, tasks, company>>

verify_private_endpoint == socket # None /\ socket.private

\* remove_stale_socket is three calls on a path: stat, connect, unlink.
stat_socket(d) ==
    /\ at[d] = "stat"
    /\ \/ /\ socket = None
          /\ Goes(d, "bind")
          /\ UNCHANGED <<lock, directory, socket, metadata, listening, tasks, company>>
       \/ /\ verify_private_endpoint
          /\ Goes(d, "connect")
          /\ UNCHANGED <<lock, directory, socket, metadata, listening, tasks, company>>
       \/ /\ socket # None
          /\ ~verify_private_endpoint
          /\ returns_early(d)

accepts_connect == socket # None /\ socket.owner \in listening

connect_socket(d) ==
    /\ at[d] = "connect"
    /\ \/ /\ accepts_connect
          /\ returns_early(d)
       \/ /\ ~accepts_connect
          /\ Goes(d, "remove")
          /\ UNCHANGED <<lock, directory, socket, metadata, listening, tasks, company>>

\* Mutant: the socket that nobody listens on is left in place.
remove_stale_socket_left(d) ==
    /\ at[d] = "remove"
    /\ Goes(d, "bind")
    /\ UNCHANGED <<lock, directory, socket, metadata, listening, tasks, company>>

remove_stale_socket(d) ==
    /\ at[d] = "remove"
    /\ \/ /\ socket # None
          /\ socket' = None
          /\ Goes(d, "bind")
          /\ UNCHANGED <<lock, directory, metadata, listening, tasks, company>>
       \/ /\ socket = None
          /\ returns_early(d)

\* The file has the mode the umask leaves it until set_permissions.
bind(d) ==
    /\ at[d] = "bind"
    /\ \/ /\ directory
          /\ socket = None
          /\ \E private \in BOOLEAN : socket' = [owner |-> d, private |-> private]
          /\ listening' = listening \cup {d}
          /\ Goes(d, "permissions")
          /\ UNCHANGED <<lock, directory, metadata, tasks, company>>
       \/ /\ ~directory \/ socket # None
          /\ returns_early(d)

set_permissions(d) ==
    /\ at[d] = "permissions"
    /\ \/ /\ socket # None
          /\ socket' = [socket EXCEPT !.private = TRUE]
          /\ Goes(d, "metadata")
          /\ UNCHANGED <<lock, directory, metadata, listening, tasks, company>>
       \/ /\ socket = None
          /\ returns_early(d)

\* A temporary file renamed into place, or an I/O error before or after the rename: the
\* guard then cleans up while the store, declared before it, still holds the lock.
write_private_metadata(d) ==
    /\ at[d] = "metadata"
    /\ \/ /\ metadata' = d
          /\ Goes(d, "serve")
       \/ /\ Goes(d, "clean")
          /\ metadata' \in {metadata, d}
    /\ UNCHANGED <<lock, directory, socket, listening, tasks, company>>

-----------------------------------------------------------------------------
(* Serving and stopping *)

accept(d) ==
    /\ at[d] = "serve"
    /\ d \notin tasks
    /\ tasks' = tasks \cup {d}
    /\ UNCHANGED <<lock, directory, socket, metadata, listening, at, company>>

\* The last of the loop and the connection tasks to end drops the store.
connection_ends(d) ==
    /\ d \in tasks
    /\ tasks' = tasks \ {d}
    /\ lock' = IF at[d] = "serve" THEN lock ELSE Released(d)
    /\ UNCHANGED <<directory, socket, metadata, listening, at, company>>

\* An error of accept ends the loop.  Locals go in the reverse of their order: the state
\* with the store, then the guard, then the listener.
accept_fails(d) ==
    /\ at[d] = "serve"
    /\ Goes(d, "clean")
    /\ lock' = IF d \in tasks THEN lock ELSE Released(d)
    /\ UNCHANGED <<directory, socket, metadata, listening, tasks, company>>

\* Mutant: the socket goes before the metadata.
cleanup_paths_socket_first == <<"socket", "metadata">>

\* The paths EndpointCleanup removes, in its order.
cleanup_paths == <<"metadata", "socket">>

remove_file(path) ==
    \/ /\ path = "metadata"
       /\ metadata' = None
       /\ UNCHANGED socket
    \/ /\ path = "socket"
       /\ socket' = IF verify_private_endpoint THEN None ELSE socket
       /\ UNCHANGED metadata

\* One removal after the other, then the directory, which goes only when it is empty.
endpoint_cleanup(d) ==
    /\ \/ /\ at[d] = "clean"
          /\ remove_file(cleanup_paths[1])
          /\ Goes(d, "unlink")
          /\ UNCHANGED directory
       \/ /\ at[d] = "unlink"
          /\ remove_file(cleanup_paths[2])
          /\ Goes(d, "rmdir")
          /\ UNCHANGED directory
       \/ /\ at[d] = "rmdir"
          /\ directory' = (directory /\ (ShortPath => socket # None))
          /\ Goes(d, "close")
          /\ UNCHANGED <<socket, metadata>>
    /\ UNCHANGED <<lock, listening, tasks, company>>

close_listener(d) ==
    /\ at[d] = "close"
    /\ listening' = listening \ {d}
    /\ Goes(d, "exit")
    /\ UNCHANGED <<lock, directory, socket, metadata, tasks, company>>

\* The end of the process, by its own exit or, at any step, by a signal or a crash.
ends(d) ==
    /\ Goes(d, "gone")
    /\ lock' = Released(d)
    /\ listening' = listening \ {d}
    /\ tasks' = tasks \ {d}
    /\ company' = company \ {d}
    /\ UNCHANGED <<directory, socket, metadata>>

process_exit(d) == at[d] \in {"exit", "tool"} /\ ends(d)

kill(d) == at[d] \in Running \ {"exit", "tool"} /\ ends(d)

start_step(d) ==
    \/ prepare_private_root(d)
    \/ stat_socket(d)
    \/ connect_socket(d)
    \/ remove_stale_socket(d)
    \/ bind(d)
    \/ set_permissions(d)
    \/ write_private_metadata(d)

stop_step(d) == endpoint_cleanup(d) \/ close_listener(d) \/ process_exit(d)

-----------------------------------------------------------------------------
(* What the endpoint has to be *)

\* A daemon that has reached its loop is the one the endpoint leads to: the socket is its
\* own and private, and the metadata has its token.  No other daemon that is starting,
\* failing or cleaning up after itself may take that away, though it need not hold the
\* writer lock while it cleans (serve, EndpointCleanup::drop).
ServingIsReachable ==
    \A d \in Processes : at[d] = "serve" =>
        /\ socket = [owner |-> d, private |-> TRUE]
        /\ metadata = d
        /\ d \in listening

\* A daemon that was alone from its start does not fail to start, whatever the ones before
\* it left behind: stale socket, metadata or directory.  The one thing that stops it is a
\* socket whose owner died between bind and set_permissions: remove_stale_socket refuses
\* to touch it.
LoneStartServes ==
    \A d \in Processes : at[d] = "failed" =>
        \/ d \in company
        \/ socket # None /\ ~socket.private
=============================================================================
