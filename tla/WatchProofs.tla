----------------------------- MODULE WatchProofs -----------------------------
(***************************************************************************)
(* The endpoint for any number of starts: a serving daemon stays reachable *)
(* and a lone start succeeds.  The argument: before its loop a process     *)
(* holds the writer lock, so only one binds; a process that stops may have *)
(* lost the lock, and then it is its listener, closed last, that keeps     *)
(* others from its socket (SocketInv, StaleInv), and the socket, removed   *)
(* after the metadata, that keeps them from writing theirs (MetadataInv).  *)
(***************************************************************************)
EXTENDS Watch, SequenceTheorems, TLAPS

Places == Running \cup {"new", "failed", "gone"}

\* The state is of the shape the steps of serve and EndpointCleanup give it.
EndpointType ==
    /\ directory \in BOOLEAN
    /\ socket \in {None} \cup [owner : Processes, private : BOOLEAN]
    /\ metadata \in Processes \cup {None}
    /\ at \in [Processes -> Places]
    /\ listening \subseteq Processes
    /\ tasks \subseteq Processes
    /\ company \subseteq Processes

\* From open_core_store to the end of the loop a process holds the lock; only a running
\* process does.
LockInv ==
    /\ \A d \in Processes : at[d] \in Starting \cup {"serve", "tool"} => lock = d
    /\ \A d \in Processes : lock = d => at[d] \in Running
    /\ lock \in Processes \cup {None}

\* A connection task is one of a daemon that has reached its loop.
TaskInv == \A d \in tasks : at[d] \in Stopping \cup {"serve"}

\* The places at which the socket path is the process's own.
Owning == {"permissions", "metadata", "serve", "clean", "unlink"}

\* A listener is open from bind until after the cleanup.
ListenInv ==
    /\ \A d \in listening : at[d] \in Owning \cup {"rmdir", "close"}
    /\ \A d \in Processes : at[d] \in Owning => d \in listening

\* From bind until its own cleanup the socket at the path is the process's, and private
\* once set_permissions is through; a socket is left by a process that has bound it.
SocketInv ==
    /\ \A d \in Processes : at[d] \in Owning =>
          /\ socket # None
          /\ socket.owner = d
          /\ at[d] # "permissions" => socket.private
    /\ socket # None => at[socket.owner] \in Owning \cup Stopping \cup {"gone", "failed"}

\* What remove_stale_socket has found out of the socket remains so.
StaleInv ==
    \A d \in Processes :
        /\ at[d] = "remove" => ~accepts_connect
        /\ at[d] \in {"connect", "remove"} => socket = None \/ socket.private

\* The metadata is that of the serving daemon.
MetadataInv == \A d \in Processes : at[d] = "serve" => metadata = d

\* A process that has been alone so far is the only one, and finds what it left.
LoneInv ==
    \A d \in Processes \ company :
        /\ at[d] \in Running => \A e \in Processes : at[e] \in Running => e = d
        /\ at[d] \in {"stat", "connect", "remove", "bind"} => directory
        /\ at[d] \in {"connect", "remove"} => socket # None
        /\ at[d] = "bind" => socket = None

\* A lone process that failed has met a socket that stays as it is.
FailInv ==
    \A d \in Processes \ company : at[d] = "failed" =>
        /\ socket # None
        /\ ~socket.private
        /\ at[socket.owner] \notin Running

Inv ==
    /\ EndpointType
    /\ LockInv
    /\ TaskInv
    /\ ListenInv
    /\ SocketInv
    /\ StaleInv
    /\ MetadataInv
    /\ LoneInv
    /\ FailInv

USE DEF Places, Running, Starting, Stopping, Owning

\* A start that fails before its guard exists: it was not alone, or the socket is one
\* that nobody will touch again.
LEMMA returns_early_keeps ==
    ASSUME NEW d \in Processes, Inv, returns_early(d), at[d] \in Starting,
           \/ d \in company
           \/ socket # None /\ ~socket.private /\ at[socket.owner] \notin Running,
           at[d] \notin {"metadata"}
    PROVE  Inv'
<1>1. EndpointType'
  BY NoneAssumption DEF returns_early, Goes, Released, Inv, EndpointType
<1>2. LockInv'
  BY NoneAssumption DEF returns_early, Goes, Released, Inv, EndpointType, LockInv, TaskInv
<1>3. TaskInv'
  BY NoneAssumption DEF returns_early, Goes, Released, Inv, EndpointType, TaskInv, LockInv
<1>4. ListenInv'
  BY NoneAssumption DEF returns_early, Goes, Released, Inv, EndpointType, ListenInv
<1>5. SocketInv'
  BY NoneAssumption DEF returns_early, Goes, Released, Inv, EndpointType, LockInv, ListenInv,
     SocketInv, StaleInv, accepts_connect
<1>6. StaleInv'
  BY NoneAssumption DEF returns_early, Goes, Released, Inv, EndpointType, LockInv, ListenInv,
     SocketInv, StaleInv, accepts_connect
<1>7. MetadataInv'
  BY NoneAssumption DEF returns_early, Goes, Released, Inv, EndpointType, LockInv, SocketInv,
     MetadataInv
<1>8. LoneInv'
  BY NoneAssumption DEF returns_early, Goes, Released, Inv, EndpointType, LockInv, LoneInv,
     SocketInv, Alive
<1>9. FailInv'
  BY NoneAssumption DEF returns_early, Goes, Released, Inv, EndpointType, LockInv, SocketInv,
     StaleInv, LoneInv, FailInv, Alive, accepts_connect
<1> QED  BY <1>1, <1>2, <1>3, <1>4, <1>5, <1>6, <1>7, <1>8, <1>9 DEF Inv

\* A process takes the writer lock, or finds it taken.
LEMMA open_core_store_keeps ==
    ASSUME NEW d \in Processes, NEW purpose \in {"directory", "tool"},
           Inv, open_core_store(d, purpose)
    PROVE  Inv'
<1>0. lock # None => Alive # {}
  BY DEF Inv, LockInv, Alive
<1>1. EndpointType'
  BY NoneAssumption DEF open_core_store, Goes, Inv, EndpointType, Alive
<1>2. LockInv'
  BY NoneAssumption DEF open_core_store, Goes, Inv, EndpointType, LockInv, TaskInv
<1>3. TaskInv'
  BY NoneAssumption DEF open_core_store, Goes, Inv, EndpointType, TaskInv, LockInv
<1>4. ListenInv'
  BY NoneAssumption DEF open_core_store, Goes, Inv, EndpointType, ListenInv
<1>5. SocketInv'
  BY NoneAssumption DEF open_core_store, Goes, Inv, EndpointType, LockInv, ListenInv,
     SocketInv, StaleInv, accepts_connect
<1>6. StaleInv'
  BY NoneAssumption DEF open_core_store, Goes, Inv, EndpointType, LockInv, ListenInv,
     SocketInv, StaleInv, accepts_connect
<1>7. MetadataInv'
  BY NoneAssumption DEF open_core_store, Goes, Inv, EndpointType, LockInv, SocketInv,
     MetadataInv
<1>8. LoneInv'
  BY <1>0, NoneAssumption DEF open_core_store, Goes, Inv, EndpointType, LockInv, LoneInv,
     SocketInv, Alive
<1>9. FailInv'
  BY <1>0, NoneAssumption DEF open_core_store, Goes, Inv, EndpointType, LockInv, SocketInv,
     StaleInv, LoneInv, FailInv, Alive, accepts_connect
<1> QED  BY <1>1, <1>2, <1>3, <1>4, <1>5, <1>6, <1>7, <1>8, <1>9 DEF Inv

\* The directory of the endpoint is there, as it was or made.
LEMMA prepare_private_root_keeps ==
    ASSUME NEW d \in Processes, Inv, prepare_private_root(d)
    PROVE  Inv'
BY NoneAssumption
   DEF prepare_private_root, Goes,
       Inv, EndpointType, LockInv, TaskInv, ListenInv, SocketInv, StaleInv, MetadataInv, LoneInv,
       FailInv, Alive, accepts_connect

\* A process that starts looks for a socket.
LEMMA stat_socket_keeps ==
    ASSUME NEW d \in Processes, Inv, stat_socket(d)
    PROVE  Inv'
<1>1. CASE returns_early(d)
  <2>1. at[d] \in Starting /\ at[d] # "metadata"
    BY DEF stat_socket
  <2>2. \/ d \in company
        \/ socket # None /\ ~socket.private /\ at[socket.owner] \notin Running
    BY <1>1, NoneAssumption DEF stat_socket, returns_early, Goes, verify_private_endpoint,
       Inv, EndpointType, LockInv, ListenInv, SocketInv, LoneInv, Alive
  <2> QED  BY <1>1, <2>1, <2>2, returns_early_keeps
<1>2. CASE ~returns_early(d)
  <2>1. EndpointType'
    BY <1>2, NoneAssumption DEF stat_socket, Goes, verify_private_endpoint, Inv, EndpointType
  <2>2. LockInv'
    BY <1>2, NoneAssumption DEF stat_socket, Goes, verify_private_endpoint, Inv,
       EndpointType, LockInv, TaskInv
  <2>3. TaskInv'
    BY <1>2, NoneAssumption DEF stat_socket, Goes, verify_private_endpoint, Inv,
       EndpointType, TaskInv, LockInv
  <2>4. ListenInv'
    BY <1>2, NoneAssumption DEF stat_socket, Goes, verify_private_endpoint, Inv,
       EndpointType, ListenInv
  <2>5. SocketInv'
    BY <1>2, NoneAssumption DEF stat_socket, Goes, verify_private_endpoint, Inv,
       EndpointType, LockInv, ListenInv, SocketInv, StaleInv, accepts_connect
  <2>6. StaleInv'
    BY <1>2, NoneAssumption DEF stat_socket, Goes, verify_private_endpoint, Inv,
       EndpointType, LockInv, ListenInv, SocketInv, StaleInv, accepts_connect
  <2>7. MetadataInv'
    BY <1>2, NoneAssumption DEF stat_socket, Goes, verify_private_endpoint, Inv,
       EndpointType, LockInv, SocketInv, MetadataInv
  <2>8. LoneInv'
    BY <1>2, NoneAssumption DEF stat_socket, Goes, verify_private_endpoint, Inv,
       EndpointType, LockInv, LoneInv, SocketInv, Alive
  <2>9. FailInv'
    BY <1>2, NoneAssumption DEF stat_socket, Goes, verify_private_endpoint, Inv,
       EndpointType, LockInv, SocketInv, StaleInv, LoneInv, FailInv, Alive, accepts_connect
  <2> QED  BY <2>1, <2>2, <2>3, <2>4, <2>5, <2>6, <2>7, <2>8, <2>9 DEF Inv
<1> QED  BY <1>1, <1>2

\* It connects to the socket it found: an open listener accepts.
LEMMA connect_socket_keeps ==
    ASSUME NEW d \in Processes, Inv, connect_socket(d)
    PROVE  Inv'
<1>1. CASE returns_early(d)
  <2>1. at[d] \in Starting /\ at[d] # "metadata"
    BY DEF connect_socket
  <2>2. \/ d \in company
        \/ socket # None /\ ~socket.private /\ at[socket.owner] \notin Running
    BY <1>1, NoneAssumption DEF connect_socket, returns_early, Goes, accepts_connect,
       Inv, EndpointType, LockInv, ListenInv, SocketInv, LoneInv, Alive
  <2> QED  BY <1>1, <2>1, <2>2, returns_early_keeps
<1>2. CASE ~returns_early(d)
  <2>1. EndpointType'
    BY <1>2, NoneAssumption DEF connect_socket, Goes, accepts_connect, Inv, EndpointType
  <2>2. LockInv'
    BY <1>2, NoneAssumption DEF connect_socket, Goes, accepts_connect, Inv, EndpointType,
       LockInv, TaskInv
  <2>3. TaskInv'
    BY <1>2, NoneAssumption DEF connect_socket, Goes, accepts_connect, Inv, EndpointType,
       TaskInv, LockInv
  <2>4. ListenInv'
    BY <1>2, NoneAssumption DEF connect_socket, Goes, accepts_connect, Inv, EndpointType,
       ListenInv
  <2>5. SocketInv'
    BY <1>2, NoneAssumption DEF connect_socket, Goes, accepts_connect, Inv, EndpointType,
       LockInv, ListenInv, SocketInv, StaleInv, accepts_connect
  <2>6. StaleInv'
    BY <1>2, NoneAssumption DEF connect_socket, Goes, accepts_connect, Inv, EndpointType,
       LockInv, ListenInv, SocketInv, StaleInv, accepts_connect
  <2>7. MetadataInv'
    BY <1>2, NoneAssumption DEF connect_socket, Goes, accepts_connect, Inv, EndpointType,
       LockInv, SocketInv, MetadataInv
  <2>8. LoneInv'
    BY <1>2, NoneAssumption DEF connect_socket, Goes, accepts_connect, Inv, EndpointType,
       LockInv, LoneInv, SocketInv, Alive
  <2>9. FailInv'
    BY <1>2, NoneAssumption DEF connect_socket, Goes, accepts_connect, Inv, EndpointType,
       LockInv, SocketInv, StaleInv, LoneInv, FailInv, Alive, accepts_connect
  <2> QED  BY <2>1, <2>2, <2>3, <2>4, <2>5, <2>6, <2>7, <2>8, <2>9 DEF Inv
<1> QED  BY <1>1, <1>2

\* It removes a socket nobody listens at.
LEMMA remove_stale_socket_keeps ==
    ASSUME NEW d \in Processes, Inv, remove_stale_socket(d)
    PROVE  Inv'
<1>1. CASE returns_early(d)
  <2>1. at[d] \in Starting /\ at[d] # "metadata"
    BY DEF remove_stale_socket
  <2>2. \/ d \in company
        \/ socket # None /\ ~socket.private /\ at[socket.owner] \notin Running
    BY <1>1, NoneAssumption DEF remove_stale_socket, returns_early, Goes,
       Inv, EndpointType, LockInv, ListenInv, SocketInv, LoneInv, Alive
  <2> QED  BY <1>1, <2>1, <2>2, returns_early_keeps
<1>2. CASE ~returns_early(d)
  <2>1. EndpointType'
    BY <1>2, NoneAssumption DEF remove_stale_socket, Goes, Inv, EndpointType
  <2>2. LockInv'
    BY <1>2, NoneAssumption DEF remove_stale_socket, Goes, Inv, EndpointType, LockInv, TaskInv
  <2>3. TaskInv'
    BY <1>2, NoneAssumption DEF remove_stale_socket, Goes, Inv, EndpointType, TaskInv, LockInv
  <2>4. ListenInv'
    BY <1>2, NoneAssumption DEF remove_stale_socket, Goes, Inv, EndpointType, ListenInv
  <2>5. SocketInv'
    BY <1>2, NoneAssumption DEF remove_stale_socket, Goes, Inv, EndpointType, LockInv,
       ListenInv, SocketInv, StaleInv, accepts_connect
  <2>6. StaleInv'
    BY <1>2, NoneAssumption DEF remove_stale_socket, Goes, Inv, EndpointType, LockInv,
       ListenInv, SocketInv, StaleInv, accepts_connect
  <2>7. MetadataInv'
    BY <1>2, NoneAssumption DEF remove_stale_socket, Goes, Inv, EndpointType, LockInv,
       SocketInv, MetadataInv
  <2>8. LoneInv'
    BY <1>2, NoneAssumption DEF remove_stale_socket, Goes, Inv, EndpointType, LockInv,
       LoneInv, SocketInv, Alive
  <2>9. FailInv'
    BY <1>2, NoneAssumption DEF remove_stale_socket, Goes, Inv, EndpointType, LockInv,
       SocketInv, StaleInv, LoneInv, FailInv, Alive, accepts_connect
  <2> QED  BY <2>1, <2>2, <2>3, <2>4, <2>5, <2>6, <2>7, <2>8, <2>9 DEF Inv
<1> QED  BY <1>1, <1>2

\* It binds where there is no socket.
LEMMA bind_keeps ==
    ASSUME NEW d \in Processes, Inv, bind(d)
    PROVE  Inv'
<1>1. CASE returns_early(d)
  <2>1. at[d] \in Starting /\ at[d] # "metadata"
    BY DEF bind
  <2>2. \/ d \in company
        \/ socket # None /\ ~socket.private /\ at[socket.owner] \notin Running
    BY <1>1, NoneAssumption DEF bind, returns_early, Goes,
       Inv, EndpointType, LockInv, ListenInv, SocketInv, LoneInv, Alive
  <2> QED  BY <1>1, <2>1, <2>2, returns_early_keeps
<1>2. CASE ~returns_early(d)
  <2>1. EndpointType'
    BY <1>2, NoneAssumption DEF bind, Goes, Inv, EndpointType
  <2>2. LockInv'
    BY <1>2, NoneAssumption DEF bind, Goes, Inv, EndpointType, LockInv, TaskInv
  <2>3. TaskInv'
    BY <1>2, NoneAssumption DEF bind, Goes, Inv, EndpointType, TaskInv, LockInv
  <2>4. ListenInv'
    BY <1>2, NoneAssumption DEF bind, Goes, Inv, EndpointType, ListenInv
  <2>5. SocketInv'
    BY <1>2, NoneAssumption DEF bind, Goes, Inv, EndpointType, LockInv, ListenInv,
       SocketInv, StaleInv, accepts_connect
  <2>6. StaleInv'
    BY <1>2, NoneAssumption DEF bind, Goes, Inv, EndpointType, LockInv, ListenInv,
       SocketInv, StaleInv, accepts_connect
  <2>7. MetadataInv'
    BY <1>2, NoneAssumption DEF bind, Goes, Inv, EndpointType, LockInv, SocketInv, MetadataInv
  <2>8. LoneInv'
    BY <1>2, NoneAssumption DEF bind, Goes, Inv, EndpointType, LockInv, LoneInv, SocketInv,
       Alive
  <2>9. FailInv'
    BY <1>2, NoneAssumption DEF bind, Goes, Inv, EndpointType, LockInv, SocketInv, StaleInv,
       LoneInv, FailInv, Alive, accepts_connect
  <2> QED  BY <2>1, <2>2, <2>3, <2>4, <2>5, <2>6, <2>7, <2>8, <2>9 DEF Inv
<1> QED  BY <1>1, <1>2

\* The socket it bound becomes private.
LEMMA set_permissions_keeps ==
    ASSUME NEW d \in Processes, Inv, set_permissions(d)
    PROVE  Inv'
<1>1. CASE returns_early(d)
  <2>1. at[d] \in Starting /\ at[d] # "metadata"
    BY DEF set_permissions
  <2>2. \/ d \in company
        \/ socket # None /\ ~socket.private /\ at[socket.owner] \notin Running
    BY <1>1, NoneAssumption DEF set_permissions, returns_early, Goes,
       Inv, EndpointType, LockInv, ListenInv, SocketInv, LoneInv, Alive
  <2> QED  BY <1>1, <2>1, <2>2, returns_early_keeps
<1>2. CASE ~returns_early(d)
  <2>1. EndpointType'
    BY <1>2, NoneAssumption DEF set_permissions, Goes, Inv, EndpointType
  <2>2. LockInv'
    BY <1>2, NoneAssumption DEF set_permissions, Goes, Inv, EndpointType, LockInv, TaskInv
  <2>3. TaskInv'
    BY <1>2, NoneAssumption DEF set_permissions, Goes, Inv, EndpointType, TaskInv, LockInv
  <2>4. ListenInv'
    BY <1>2, NoneAssumption DEF set_permissions, Goes, Inv, EndpointType, ListenInv
  <2>5. SocketInv'
    <3>1. at' = [at EXCEPT ![d] = "metadata"] /\ socket' = [socket EXCEPT !.private = TRUE]
      BY <1>2 DEF set_permissions, Goes
    <3>2. socket \in [owner : Processes, private : BOOLEAN] /\ socket.owner = d
      BY DEF set_permissions, Inv, EndpointType, SocketInv
    <3>3. socket' \in [owner : Processes, private : BOOLEAN] /\ socket'.owner = d
      BY <3>1, <3>2
    <3>4. socket'.private = TRUE /\ socket' # None
      BY <3>1, <3>2, <3>3, NoneAssumption
    <3> QED  BY <3>1, <3>3, <3>4 DEF Inv, EndpointType, SocketInv
  <2>6. StaleInv'
    BY <1>2, NoneAssumption DEF set_permissions, Goes, Inv, EndpointType, LockInv,
       ListenInv, SocketInv, StaleInv, accepts_connect
  <2>7. MetadataInv'
    BY <1>2, NoneAssumption DEF set_permissions, Goes, Inv, EndpointType, LockInv,
       SocketInv, MetadataInv
  <2>8. LoneInv'
    BY <1>2, NoneAssumption DEF set_permissions, Goes, Inv, EndpointType, LockInv, LoneInv,
       SocketInv, Alive
  <2>9. FailInv'
    BY <1>2, NoneAssumption DEF set_permissions, Goes, Inv, EndpointType, LockInv,
       SocketInv, StaleInv, LoneInv, FailInv, Alive, accepts_connect
  <2> QED  BY <2>1, <2>2, <2>3, <2>4, <2>5, <2>6, <2>7, <2>8, <2>9 DEF Inv
<1> QED  BY <1>1, <1>2

\* The metadata it writes are its own.
LEMMA write_private_metadata_keeps ==
    ASSUME NEW d \in Processes, Inv, write_private_metadata(d)
    PROVE  Inv'
<1>1. EndpointType'
  BY NoneAssumption DEF write_private_metadata, Goes, Inv, EndpointType
<1>2. LockInv'
  BY NoneAssumption DEF write_private_metadata, Goes, Inv, EndpointType, LockInv, TaskInv
<1>3. TaskInv'
  BY NoneAssumption DEF write_private_metadata, Goes, Inv, EndpointType, TaskInv, LockInv
<1>4. ListenInv'
  BY NoneAssumption DEF write_private_metadata, Goes, Inv, EndpointType, ListenInv
<1>5. SocketInv'
  BY NoneAssumption DEF write_private_metadata, Goes, Inv, EndpointType, LockInv, ListenInv,
     SocketInv, StaleInv, accepts_connect
<1>6. StaleInv'
  BY NoneAssumption DEF write_private_metadata, Goes, Inv, EndpointType, LockInv, ListenInv,
     SocketInv, StaleInv, accepts_connect
<1>7. MetadataInv'
  BY NoneAssumption DEF write_private_metadata, Goes, Inv, EndpointType, LockInv, SocketInv,
     MetadataInv
<1>8. LoneInv'
  BY NoneAssumption DEF write_private_metadata, Goes, Inv, EndpointType, LockInv, LoneInv,
     SocketInv, Alive
<1>9. FailInv'
  BY NoneAssumption DEF write_private_metadata, Goes, Inv, EndpointType, LockInv, SocketInv,
     StaleInv, LoneInv, FailInv, Alive, accepts_connect
<1> QED  BY <1>1, <1>2, <1>3, <1>4, <1>5, <1>6, <1>7, <1>8, <1>9 DEF Inv

\* A connection is taken by the daemon that listens.
LEMMA accept_keeps ==
    ASSUME NEW d \in Processes, Inv, accept(d)
    PROVE  Inv'
BY NoneAssumption
   DEF accept, Goes,
       Inv, EndpointType, LockInv, TaskInv, ListenInv, SocketInv, StaleInv, MetadataInv, LoneInv,
       FailInv, Alive, accepts_connect

\* A connection task ends.
LEMMA connection_ends_keeps ==
    ASSUME NEW d \in Processes, Inv, connection_ends(d)
    PROVE  Inv'
BY NoneAssumption
   DEF connection_ends, Goes, Released,
       Inv, EndpointType, LockInv, TaskInv, ListenInv, SocketInv, StaleInv, MetadataInv, LoneInv,
       FailInv, Alive, accepts_connect

\* The loop of a daemon ends.
LEMMA accept_fails_keeps ==
    ASSUME NEW d \in Processes, Inv, accept_fails(d)
    PROVE  Inv'
BY NoneAssumption
   DEF accept_fails, Goes, Released,
       Inv, EndpointType, LockInv, TaskInv, ListenInv, SocketInv, StaleInv, MetadataInv, LoneInv,
       FailInv, Alive, accepts_connect

\* A daemon that stops removes metadata, socket and directory, in this order.
LEMMA endpoint_cleanup_keeps ==
    ASSUME NEW d \in Processes, Inv, endpoint_cleanup(d)
    PROVE  Inv'
<1>1. EndpointType'
  BY NoneAssumption DEF endpoint_cleanup, Goes, remove_file, cleanup_paths,
     verify_private_endpoint, Inv, EndpointType
<1>2. LockInv'
  BY NoneAssumption DEF endpoint_cleanup, Goes, remove_file, cleanup_paths,
     verify_private_endpoint, Inv, EndpointType, LockInv, TaskInv
<1>3. TaskInv'
  BY NoneAssumption DEF endpoint_cleanup, Goes, remove_file, cleanup_paths,
     verify_private_endpoint, Inv, EndpointType, TaskInv, LockInv
<1>4. ListenInv'
  BY NoneAssumption DEF endpoint_cleanup, Goes, remove_file, cleanup_paths,
     verify_private_endpoint, Inv, EndpointType, ListenInv
<1>5. SocketInv'
  BY NoneAssumption DEF endpoint_cleanup, Goes, remove_file, cleanup_paths,
     verify_private_endpoint, Inv, EndpointType, LockInv, ListenInv, SocketInv, StaleInv,
     accepts_connect
<1>6. StaleInv'
  BY NoneAssumption DEF endpoint_cleanup, Goes, remove_file, cleanup_paths,
     verify_private_endpoint, Inv, EndpointType, LockInv, ListenInv, SocketInv, StaleInv,
     accepts_connect
<1>7. MetadataInv'
  BY NoneAssumption DEF endpoint_cleanup, Goes, remove_file, cleanup_paths,
     verify_private_endpoint, Inv, EndpointType, LockInv, SocketInv, MetadataInv
<1>8. LoneInv'
  BY NoneAssumption DEF endpoint_cleanup, Goes, remove_file, cleanup_paths,
     verify_private_endpoint, Inv, EndpointType, LockInv, LoneInv, SocketInv, Alive
<1>9. FailInv'
  BY NoneAssumption DEF endpoint_cleanup, Goes, remove_file, cleanup_paths,
     verify_private_endpoint, Inv, EndpointType, LockInv, SocketInv, StaleInv, LoneInv,
     FailInv, Alive, accepts_connect
<1> QED  BY <1>1, <1>2, <1>3, <1>4, <1>5, <1>6, <1>7, <1>8, <1>9 DEF Inv

\* Its listener is closed last.
LEMMA close_listener_keeps ==
    ASSUME NEW d \in Processes, Inv, close_listener(d)
    PROVE  Inv'
BY NoneAssumption
   DEF close_listener, Goes,
       Inv, EndpointType, LockInv, TaskInv, ListenInv, SocketInv, StaleInv, MetadataInv, LoneInv,
       FailInv, Alive, accepts_connect

\* A process ends.
LEMMA ends_keeps ==
    ASSUME NEW d \in Processes, at[d] \in Running,
           Inv, ends(d)
    PROVE  Inv'
<1>1. EndpointType'
  BY NoneAssumption DEF ends, Goes, Released, Inv, EndpointType
<1>2. LockInv'
  BY NoneAssumption DEF ends, Goes, Released, Inv, EndpointType, LockInv, TaskInv
<1>3. TaskInv'
  BY NoneAssumption DEF ends, Goes, Released, Inv, EndpointType, TaskInv, LockInv
<1>4. ListenInv'
  BY NoneAssumption DEF ends, Goes, Released, Inv, EndpointType, ListenInv
<1>5. SocketInv'
  BY NoneAssumption DEF ends, Goes, Released, Inv, EndpointType, LockInv, ListenInv,
     SocketInv, StaleInv, accepts_connect
<1>6. StaleInv'
  BY NoneAssumption DEF ends, Goes, Released, Inv, EndpointType, LockInv, ListenInv,
     SocketInv, StaleInv, accepts_connect
<1>7. MetadataInv'
  BY NoneAssumption DEF ends, Goes, Released, Inv, EndpointType, LockInv, SocketInv, MetadataInv
<1>8. LoneInv'
  BY NoneAssumption DEF ends, Goes, Released, Inv, EndpointType, LockInv, LoneInv, SocketInv,
     Alive
<1>9. FailInv'
  BY NoneAssumption DEF ends, Goes, Released, Inv, EndpointType, LockInv, SocketInv, StaleInv,
     LoneInv, FailInv, Alive, accepts_connect
<1> QED  BY <1>1, <1>2, <1>3, <1>4, <1>5, <1>6, <1>7, <1>8, <1>9 DEF Inv

\* Steps of the client, of the run and stuttering steps leave the endpoint alone.
LEMMA unchanged_keeps ==
    ASSUME Inv, UNCHANGED endpoint
    PROVE  Inv'
BY DEF endpoint, Inv, EndpointType, LockInv, TaskInv, ListenInv, SocketInv, StaleInv,
   MetadataInv, LoneInv, FailInv, accepts_connect

\* No process has been started at first.
LEMMA InitInv == WatchInit => Inv
BY ShortPathIsBoolean, NoneAssumption DEF WatchInit, Init, Inv, EndpointType, LockInv,
   TaskInv, ListenInv, SocketInv, StaleInv, MetadataInv, LoneInv, FailInv, accepts_connect

\* Every step keeps the invariant of the endpoint.
LEMMA NextInv ==
    ASSUME Inv, [Next]_vars
    PROVE  Inv'
<1>1. ASSUME NEW d \in Processes, start_step(d) PROVE Inv'
  BY <1>1, prepare_private_root_keeps, stat_socket_keeps, connect_socket_keeps,
     remove_stale_socket_keeps, bind_keeps, set_permissions_keeps, write_private_metadata_keeps
     DEF start_step
<1>2. ASSUME NEW d \in Processes, stop_step(d) PROVE Inv'
  <2>1. CASE process_exit(d)
    BY <2>1, ends_keeps DEF process_exit
  <2> QED  BY <1>2, <2>1, endpoint_cleanup_keeps, close_listener_keeps DEF stop_step
<1>3. ASSUME NEW d \in Processes, process_begins_or_fails(d) PROVE Inv'
  <2>1. CASE kill(d)
    BY <2>1, ends_keeps DEF kill
  <2> QED  BY <1>3, <2>1, open_core_store_keeps, accept_fails_keeps DEF process_begins_or_fails
<1>4. ASSUME NEW d \in Processes, task_step(d) PROVE Inv'
  <2>1. accept(d) \/ connection_ends(d) \/ UNCHANGED endpoint
    BY <1>4 DEF task_step, accept_connection, handle_request, connection_times_out
  <2> QED  BY <2>1, accept_keeps, connection_ends_keeps, unchanged_keeps
<1>5. CASE client_step \/ (\E d \in Processes : append_event(d)) \/ UNCHANGED vars
  <2>1. UNCHANGED endpoint
    BY <1>5 DEF client_step, read_metadata, connect, connection_lost, receive, append_event,
       vars
  <2> QED  BY <2>1, unchanged_keeps
<1> QED  BY <1>1, <1>2, <1>3, <1>4, <1>5 DEF Next, process_step

\* The inductive invariant holds in every state, for any number of starts.
THEOREM Invariance == Spec => []Inv
<1>1. Inv /\ [Next]_vars => Inv'
  BY NextInv
<1> QED  BY InitInv, <1>1, PTL DEF Spec

\* A daemon in its loop is the one that socket and metadata lead to (serve,
\* EndpointCleanup), however many others start, stop and die around it.
THEOREM ServingStaysReachable == Spec => []ServingIsReachable
<1>1. Inv => ServingIsReachable
  BY DEF Inv, EndpointType, ListenInv, SocketInv, MetadataInv, ServingIsReachable
<1> QED  BY <1>1, Invariance, PTL

\* A daemon that starts alone reaches its loop unless a socket was left between bind and
\* set_permissions (remove_stale_socket), whatever crashes came before.
THEOREM LoneStartsServe == Spec => []LoneStartServes
<1>1. Inv => LoneStartServes
  BY DEF Inv, FailInv, LoneStartServes
<1> QED  BY <1>1, Invariance, PTL

-----------------------------------------------------------------------------
(* The pages of a watch *)

\* The k events after number c.
Stretch(c, k) == [i \in 1..k |-> c + i]

Reply == [kind : {"none", "error", "ok"}, page : Seq(Nat), terminal : BOOLEAN]

ClientPlaces == {"get", "connect", "sent", "accepted", "replied", "done"}

Client ==
    [at : ClientPlaces, asks : {"events", "run"}, once : BOOLEAN, attempt : Nat,
     token : Processes \cup {None}, peer : Processes \cup {None}, cursor : Nat, page : Seq(Nat),
     reply : Reply]

\* The page the client holds begins after its cursor, what it has taken ends where the
\* page does, and so would the answer on its way: none reaches past the last event.
PageInv ==
    /\ last \in Nat
    /\ client \in Client
    /\ \E k \in Nat :
          /\ client.cursor + k <= last
          /\ client.page = Stretch(client.cursor, k)
          /\ seen = Stretch(0, client.cursor + k)
    /\ client.asks = "events" => client.page = <<>>
    /\ client.asks = "events" /\ client.reply.kind = "ok" =>
          \E k \in Nat :
             /\ client.cursor + k <= last
             /\ client.reply.page = Stretch(client.cursor, k)

USE DEF ClientPlaces

\* A stretch is a sequence of natural numbers.
LEMMA StretchIsSeq ==
    ASSUME NEW c \in Nat, NEW k \in Nat
    PROVE  Stretch(c, k) \in Seq(Nat) /\ Len(Stretch(c, k)) = k
BY DEF Stretch

\* A stretch that ends where it begins is empty.
LEMMA StretchEmpty ==
    ASSUME NEW c \in Nat, NEW k \in Nat
    PROVE  (Stretch(c, k) = <<>>) <=> (k = 0)
BY StretchIsSeq DEF Stretch

\* Two stretches that fit end to end are one.
LEMMA StretchConcat ==
    ASSUME NEW c \in Nat, NEW k \in Nat
    PROVE  Stretch(0, c) \o Stretch(c, k) = Stretch(0, c + k)
<1>1. /\ Stretch(0, c) \in Seq(Nat) /\ Len(Stretch(0, c)) = c
      /\ Stretch(c, k) \in Seq(Nat) /\ Len(Stretch(c, k)) = k
      /\ Stretch(0, c + k) \in Seq(Nat) /\ Len(Stretch(0, c + k)) = c + k
  BY StretchIsSeq
<1>2. \A i \in 1..(c + k) : (Stretch(0, c) \o Stretch(c, k))[i] = Stretch(0, c + k)[i]
  BY <1>1 DEF Stretch
<1>3. /\ Stretch(0, c) \o Stretch(c, k) \in Seq(Nat)
      /\ Len(Stretch(0, c) \o Stretch(c, k)) = c + k
  BY <1>1, ConcatProperties
<1> QED  BY <1>1, <1>2, <1>3, SeqEqual

\* No answer and a refusal are answers there may be.
LEMMA NoReplyIsReply ==
    /\ NoReply \in Reply /\ NoReply.kind = "none"
    /\ Refusal \in Reply /\ Refusal.kind = "error"
BY EmptySeq DEF NoReply, Refusal, Reply

\* What a request leaves behind, answered or not.
LEMMA FinishedKeeps ==
    ASSUME NEW place \in ClientPlaces, PageInv
    PROVE  /\ Finished(client, place) \in Client
           /\ Finished(client, place).cursor = client.cursor
           /\ Finished(client, place).page = client.page
           /\ Finished(client, place).asks = client.asks
           /\ Finished(client, place).reply.kind = "none"
BY NoReplyIsReply DEF Finished, PageInv, Client

\* A step that touches neither cursor, page nor seen, and whose answer, if any, is none.
LEMMA RequestKeeps ==
    ASSUME PageInv, UNCHANGED <<last, seen>>, client' \in Client,
           client'.cursor = client.cursor, client'.page = client.page,
           client'.asks = client.asks,
           client'.reply = client.reply \/ client'.reply.kind # "ok"
    PROVE  PageInv'
BY DEF PageInv

\* The client has taken nothing at first.
LEMMA PageInit == WatchInit => PageInv
<1> SUFFICES ASSUME WatchInit PROVE PageInv
  OBVIOUS
<1>1. last = 0 /\ seen = <<>>
  BY DEF WatchInit
<1>2. client \in Client /\ client.cursor = 0 /\ client.page = <<>> /\ client.reply.kind = "none"
  <2>1. PICK once \in BOOLEAN :
          client = [at |-> "get", asks |-> "events", once |-> once, attempt |-> 0,
                    token |-> None, peer |-> None, cursor |-> 0, page |-> <<>>,
                    reply |-> NoReply]
    BY DEF WatchInit
  <2> QED  BY <2>1, NoReplyIsReply, EmptySeq DEF Client
<1>3. Stretch(0, 0) = <<>>
  BY StretchEmpty
<1> QED  BY <1>1, <1>2, <1>3 DEF PageInv

\* A failed attempt: the client starts over or gives up, and keeps its place.
LEMMA RetriesKeep ==
    ASSUME PageInv, retries, UNCHANGED <<last, seen>>
    PROVE  PageInv'
<1>1. CASE client.attempt + 1 < Attempts
  <2>1. client' = [Finished(client, "get") EXCEPT !.attempt = client.attempt + 1]
    BY <1>1 DEF retries
  <2>2. client.attempt + 1 \in Nat
    BY DEF PageInv, Client
  <2>3. /\ client' \in Client
        /\ client'.cursor = client.cursor /\ client'.page = client.page
        /\ client'.asks = client.asks /\ client'.reply.kind = "none"
    BY <2>1, <2>2, FinishedKeeps DEF Client
  <2> QED  BY <2>3, RequestKeeps
<1>2. CASE ~(client.attempt + 1 < Attempts)
  BY <1>2, FinishedKeeps, RequestKeeps DEF retries
<1> QED  BY <1>1, <1>2

\* A daemon answers with the page after the cursor it was given.
LEMMA AnswerKeeps ==
    ASSUME PageInv, UNCHANGED <<last, seen>>, NEW reply \in {Refusal, Answer},
           client' = [client EXCEPT !.at = "replied", !.reply = reply],
           BoundsAssumption
    PROVE  PageInv'
<1>1. CASE reply = Refusal
  BY <1>1, NoReplyIsReply, RequestKeeps DEF PageInv, Client
<1>2. CASE reply = Answer
  <2>1. CASE client.asks = "events"
    <3>1. PICK k \in Nat :
            /\ client.cursor + k <= last
            /\ events_after(client.cursor) = Stretch(client.cursor, k)
      <4>1. client.cursor \in Nat /\ client.cursor <= last /\ last \in Nat
        BY DEF PageInv, Client
      <4>2. CASE last - client.cursor < PageLimit
        BY <4>1, <4>2 DEF events_after, Stretch
      <4>3. CASE ~(last - client.cursor < PageLimit)
        BY <4>1, <4>3 DEF events_after, Stretch, BoundsAssumption
      <4> QED  BY <4>2, <4>3
    <3>2. Answer \in Reply /\ Answer.page = Stretch(client.cursor, k)
      BY <2>1, <3>1, StretchIsSeq DEF Answer, Reply, PageInv, Client
    <3>3. /\ client' \in Client
          /\ client'.cursor = client.cursor /\ client'.page = client.page
          /\ client'.asks = client.asks /\ client'.reply.page = Stretch(client.cursor, k)
      BY <1>2, <3>2 DEF PageInv, Client
    <3> QED  BY <3>1, <3>3 DEF PageInv
  <2>2. CASE client.asks = "run"
    <3>1. Answer \in Reply
      BY <2>2, EmptySeq DEF Answer, Reply, PageInv, Client
    <3>2. /\ client' \in Client
          /\ client'.cursor = client.cursor /\ client'.page = client.page
          /\ client'.asks = client.asks
      BY <1>2, <3>1 DEF PageInv, Client
    <3> QED  BY <2>2, <3>2 DEF PageInv
  <2> QED  BY <2>1, <2>2 DEF PageInv, Client
<1> QED  BY <1>1, <1>2

\* The answer the client receives is the one that was sent.
LEMMA ReceiveKeeps ==
    ASSUME PageInv, receive
    PROVE  PageInv'
<1>0. UNCHANGED last
  BY DEF receive, run
<1>1. CASE client' = Finished(client, "done") /\ UNCHANGED seen
  BY <1>0, <1>1, FinishedKeeps, RequestKeeps
<1>2. CASE /\ client.asks = "events"
           /\ client.reply.kind = "ok"
           /\ client' = [Finished(client, IF client.once THEN "done" ELSE "get")
                           EXCEPT !.asks = "run", !.page = client.reply.page]
           /\ seen' = seen \o client.reply.page
  <2>1. PICK k \in Nat : client.cursor + k <= last /\ client.reply.page = Stretch(client.cursor, k)
    BY <1>2 DEF PageInv
  <2>2. seen = Stretch(0, client.cursor)
    BY <1>2, StretchEmpty DEF PageInv, Client
  <2>3. seen' = Stretch(0, client.cursor + k)
    BY <1>2, <2>1, <2>2, StretchConcat DEF PageInv, Client
  <2>4. /\ client' \in Client
        /\ client'.cursor = client.cursor /\ client'.page = client.reply.page
        /\ client'.asks = "run"
    <3> DEFINE done == Finished(client, IF client.once THEN "done" ELSE "get")
    <3>1. client.cursor \in Nat
      BY DEF PageInv, Client
    <3>2. done \in Client /\ done.cursor = client.cursor
      BY FinishedKeeps
    <3>3. client.reply.page \in Seq(Nat)
      BY <2>1, <3>1, StretchIsSeq
    <3>4. client' = [done EXCEPT !.asks = "run", !.page = client.reply.page]
      BY <1>2
    <3> HIDE DEF done
    <3> QED  BY <3>2, <3>3, <3>4 DEF Client
  <2> QED  BY <1>0, <2>1, <2>3, <2>4 DEF PageInv
<1>3. CASE /\ client.asks = "run"
           /\ client' = [Finished(client, "get")
                           EXCEPT !.asks = "events", !.page = <<>>,
                                  !.cursor = next_cursor(client.page, @)]
           /\ UNCHANGED seen
  <2>1. PICK k \in Nat : /\ client.cursor + k <= last
                         /\ client.page = Stretch(client.cursor, k)
                         /\ seen = Stretch(0, client.cursor + k)
    BY DEF PageInv
  <2>2. client.cursor \in Nat
    BY DEF PageInv, Client
  <2>3. next_cursor(client.page, client.cursor) = client.cursor + k
    <3>1. CASE k = 0
      BY <2>1, <2>2, <3>1, StretchEmpty DEF next_cursor
    <3>2. CASE k # 0
      <4>1. Stretch(client.cursor, k) # <<>> /\ Len(Stretch(client.cursor, k)) = k
        <5>1. Len(Stretch(client.cursor, k)) = k
          BY <2>2, StretchIsSeq
        <5>2. Stretch(client.cursor, k) # <<>>
          BY <2>2, <3>2, StretchEmpty
        <5> QED  BY <5>1, <5>2
      <4>2. client.page[k] = client.cursor + k
        BY <2>1, <2>2, <3>2 DEF Stretch
      <4> QED  BY <2>1, <4>1, <4>2 DEF next_cursor
    <3> QED  BY <3>1, <3>2
  <2> DEFINE done == Finished(client, "get")
  <2>a. done \in Client /\ done.cursor = client.cursor /\ done.reply.kind = "none"
    BY FinishedKeeps
  <2>4. client' = [done EXCEPT !.asks = "events", !.page = <<>>, !.cursor = client.cursor + k]
    BY <1>3, <2>3, <2>a
  <2> HIDE DEF done
  <2>5. client.cursor + k \in Nat /\ <<>> \in Seq(Nat)
    BY <2>2, EmptySeq
  <2>6. /\ client' \in Client
        /\ client'.cursor = client.cursor + k /\ client'.page = <<>>
        /\ client'.reply.kind = "none" /\ client'.asks = "events"
    BY <2>4, <2>5, <2>a DEF Client
  <2>7. /\ client'.cursor + 0 <= last'
        /\ client'.page = Stretch(client'.cursor, 0)
        /\ seen' = Stretch(0, client'.cursor + 0)
    <3>1. client'.cursor \in Nat /\ client'.cursor + 0 = client.cursor + k
      BY <2>5, <2>6
    <3>2. client'.page = Stretch(client'.cursor, 0)
      BY <2>6, <3>1, StretchEmpty
    <3> QED  BY <1>0, <1>3, <2>1, <3>1, <3>2
  <2> QED  BY <1>0, <2>6, <2>7 DEF PageInv
<1> QED  BY <1>1, <1>2, <1>3 DEF receive

\* The client appends the page to what it has and moves its cursor.
LEMMA AppendKeeps ==
    ASSUME PageInv, NEW d \in Processes, append_event(d)
    PROVE  PageInv'
<1>1. last \in Nat /\ last' = last + 1 /\ UNCHANGED <<client, seen>>
  BY DEF PageInv, append_event
<1>2. client \in Client /\ client.cursor \in Nat
  BY DEF PageInv, Client
<1>3. \A k \in Nat : client.cursor + k <= last => client.cursor + k <= last'
  BY <1>1, <1>2
<1> QED  BY <1>1, <1>2, <1>3 DEF PageInv

\* Every step keeps PageInv.
LEMMA PageNext ==
    ASSUME Inv, PageInv, [Next]_vars
    PROVE  PageInv'
<1>1. CASE UNCHANGED <<run, client, seen>>
  BY <1>1 DEF PageInv, run
<1>2. CASE read_metadata
  <2>1. CASE retries
    BY <1>2, <2>1, RetriesKeep DEF read_metadata, run
  <2>2. CASE client' = [client EXCEPT !.at = "connect", !.token = metadata]
    <3>1. metadata \in Processes \cup {None}
      BY DEF Inv, EndpointType
    <3>2. /\ client' \in Client /\ client'.reply = client.reply
          /\ client'.cursor = client.cursor /\ client'.page = client.page
          /\ client'.asks = client.asks
      BY <2>2, <3>1 DEF PageInv, Client
    <3> QED  BY <1>2, <3>2, RequestKeeps DEF read_metadata, run
  <2> QED  BY <1>2, <2>1, <2>2 DEF read_metadata
<1>3. CASE connect
  <2>1. CASE retries
    BY <1>3, <2>1, RetriesKeep DEF connect, run
  <2>2. CASE /\ accepts_connect
             /\ client' = [client EXCEPT !.at = "sent", !.peer = socket.owner]
    <3>1. socket.owner \in Processes \cup {None}
      BY <2>2 DEF Inv, EndpointType, accepts_connect
    <3>2. /\ client' \in Client /\ client'.reply = client.reply
          /\ client'.cursor = client.cursor /\ client'.page = client.page
          /\ client'.asks = client.asks
      BY <2>2, <3>1 DEF PageInv, Client
    <3> QED  BY <1>3, <3>2, RequestKeeps DEF connect, run
  <2> QED  BY <1>3, <2>1, <2>2 DEF connect
<1>4. CASE connection_lost
  BY <1>4, RetriesKeep DEF connection_lost, run
<1>5. ASSUME NEW d \in Processes, task_step(d) PROVE PageInv'
  <2>1. UNCHANGED <<last, seen>>
    BY <1>5 DEF task_step, accept_connection, handle_request, connection_times_out, run
  <2>2. CASE retries
    BY <2>1, <2>2, RetriesKeep
  <2>3. CASE client' = [client EXCEPT !.at = "accepted"]
    <3>1. /\ client' \in Client /\ client'.reply = client.reply
          /\ client'.cursor = client.cursor /\ client'.page = client.page
          /\ client'.asks = client.asks
      BY <2>3 DEF PageInv, Client
    <3> QED  BY <2>1, <3>1, RequestKeeps
  <2>4. CASE \E reply \in {Refusal, Answer} :
               client' = [client EXCEPT !.at = "replied", !.reply = reply]
    BY <2>1, <2>4, AnswerKeeps, BoundsAssumption
  <2> QED  BY <1>5, <2>2, <2>3, <2>4
           DEF task_step, accept_connection, handle_request, connection_times_out
<1>6. ASSUME NEW d \in Processes, append_event(d) PROVE PageInv'
  BY <1>6, AppendKeeps
<1> QED
  BY <1>1, <1>2, <1>3, <1>4, <1>5, <1>6, ReceiveKeeps
     DEF Next, vars, run, client_step, process_step, process_begins_or_fails

\* A watch takes every event once and in order, whatever happens to the daemons and
\* whichever of its requests fail (watch, get_with_reconnect, events_after): for any page
\* limit, number of attempts, of events and of starts.
THEOREM WatchTakesAll == Spec => []WatchSkipsNothing
<1>1. PageInv => WatchSkipsNothing
  <2> SUFFICES ASSUME PageInv PROVE WatchSkipsNothing
    OBVIOUS
  <2>1. PICK k \in Nat : /\ client.page = Stretch(client.cursor, k)
                         /\ seen = Stretch(0, client.cursor + k)
    BY DEF PageInv
  <2>2. client.cursor \in Nat /\ Len(client.page) = k
    BY <2>1, StretchIsSeq DEF PageInv, Client
  <2>3. \A i \in 1..(client.cursor + k) : 0 + i = i
    BY <2>2
  <2> QED  BY <2>1, <2>2, <2>3 DEF WatchSkipsNothing, Stretch
<1>2. Inv /\ PageInv /\ [Next]_vars => PageInv'
  BY PageNext
<1> QED  BY PageInit, Invariance, <1>1, <1>2, PTL DEF Spec
=============================================================================
