--------------------------- MODULE InspectionProofs ---------------------------
(***************************************************************************)
(* Inspections for any number of tasks, permits and connections.  The      *)
(* argument: a permit is taken with the thread and given back with it, so  *)
(* the free permits and the threads at work always add up; and the cleanup *)
(* of a session proves its result listing by listing.  What a listing has  *)
(* not named can only come back through the one creation whose command was *)
(* stopped (SessionInv), and a session without such a creation is the only *)
(* one whose result is used, which is why an attested snapshot is clean.   *)
(***************************************************************************)
EXTENDS Inspection, FiniteSetTheorems, TLAPS

\* The threads of the daemon that are at work, cleanup included.
Working == {t \in Tasks \ Direct : Running(t)}

\* Only a daemon task has a connection, and its thread starts after its request is read.
HandlerInv ==
    \A t \in Tasks :
        /\ t \in Direct => conn[t] = "none"
        /\ t \notin Direct /\ conn[t] \in {"none", "open"} => at[t] = "idle"

\* Places at which the session of a task has not begun, or has ended with its cleanup.
Outside == {"idle", "spawned", "runtime", "collected", "publish", "rename"}

\* Docker has, and will have, nothing of a session, which had no error.
Clean(t) ==
    /\ error[t] = "none"
    /\ resources[t] = {}
    /\ stopped[t] = {}
    /\ t \notin pending

\* What the listings passed so far say: only the stopped creation may be there.
ListedInv(t) ==
    /\ at[t] = "ls_networks" => resources[t] \cap Containers \subseteq stopped[t]
    /\ at[t] = "ls_volumes" => resources[t] \cap (Containers \cup Networks) \subseteq stopped[t]
    /\ at[t] \in {"returning", "done"} /\ error[t] # "cleanup_failed" =>
         resources[t] \subseteq stopped[t]

\* A creation is stopped only in a session that has failed.
SessionInv ==
    \A t \in Tasks :
        /\ at[t] \in Outside => Clean(t)
        /\ at[t] \in ResourceNames \cup Checks => error[t] = "none"
        /\ at[t] # "dead" /\ error[t] = "none" => stopped[t] = {} /\ t \notin pending
        /\ ListedInv(t)

\* A work directory is that of a task about to rename it or dead; a thread that returned
\* without an error, and a client that was told ok, have their snapshot.
PublicationInv ==
    \A t \in Tasks :
        /\ t \in staging => at[t] \in {"rename", "dead"}
        /\ at[t] \in {"returning", "done"} /\ error[t] = "none" =>
             snapshots[SnapshotOf[t]] # None
        /\ answer[t] = "ok" => snapshots[SnapshotOf[t]] # None

Inv ==
    /\ TypeOK
    /\ PermitsFollowThreads
    /\ HandlerInv
    /\ SessionInv
    /\ PublicationInv

USE DEF ResourceNames, Containers, Networks, Checks, Removals, Listings

-----------------------------------------------------------------------------
(* Places *)

\* Where run_session goes on: a creation, a check, or after the last one the cleanup.
LEMMA AfterStep ==
    ASSUME NEW t \in Tasks, NEW pc \in Checks \cup ResourceNames
    PROVE  after(t, pc) \in ResourceNames \cup Checks \cup {"rm_worker"}
BY DEF after, Finishes

\* After the last removal come the listings.
LEMMA AfterRemoval ==
    ASSUME NEW t \in Tasks, NEW pc \in Removals
    PROVE  after(t, pc) \in Removals \cup {"ls_containers"}
BY DEF after

\* The listings come in the order containers, networks, volumes.
LEMMA AfterListing ==
    ASSUME NEW t \in Tasks
    PROVE  /\ after(t, "ls_containers") = "ls_networks"
           /\ after(t, "ls_networks") = "ls_volumes"
           /\ after(t, "runtime") = "internal"
BY DEF after

-----------------------------------------------------------------------------
(* Permits *)

\* The threads at work are finitely many.
LEMMA WorkingFinite == IsFiniteSet(Working) /\ Cardinality(Working) \in Nat
<1>1. IsFiniteSet(Working)
  BY TasksAssumption, FS_Subset DEF Working
<1> QED  BY <1>1, FS_CardinalityType

\* A step that takes no thread to work or from it keeps the permits as they are.
LEMMA SamePermits ==
    ASSUME PermitsFollowThreads, inspections' = inspections, Working' = Working
    PROVE  PermitsFollowThreads'
BY DEF PermitsFollowThreads, Working

\* A thread that goes on working keeps its permit, and its handler where it is.
LEMMA MovesOn ==
    ASSUME NEW t \in Tasks, NEW pc \in Steps \ {"idle", "done", "dead"},
           TypeOK, PermitsFollowThreads, HandlerInv,
           Running(t), Goes(t, pc), conn' = conn, inspections' = inspections
    PROVE  /\ PermitsFollowThreads'
           /\ HandlerInv'
           /\ at' \in [Tasks -> Steps]
<1>1. at' \in [Tasks -> Steps]
  BY DEF TypeOK, Goes
<1>2. at'[t] = pc /\ \A u \in Tasks \ {t} : at'[u] = at[u]
  BY DEF TypeOK, Goes
<1>3. Working' = Working
  BY <1>2 DEF Working, Running
<1>4. PermitsFollowThreads'
  BY <1>3, SamePermits
<1>5. HandlerInv'
  BY <1>2 DEF HandlerInv, Running
<1> QED  BY <1>1, <1>4, <1>5

-----------------------------------------------------------------------------
(* The handler *)

USE DEF handler, thread, docker, storage

\* An accepted connection has no thread yet.
LEMMA accept_keeps == ASSUME NEW t \in Tasks, Inv, accept(t) PROVE Inv'
<1>1. TypeOK'
  BY DEF Inv, TypeOK, accept
<1>2. Working' = Working
  BY DEF accept, Working, Running
<1>3. PermitsFollowThreads'
  BY <1>2, SamePermits DEF Inv, accept
<1>4. HandlerInv'
  BY DEF Inv, TypeOK, HandlerInv, accept
<1>5. SessionInv'
  BY DEF Inv, SessionInv, Clean, ListedInv, accept
<1>6. PublicationInv'
  BY DEF Inv, PublicationInv, accept
<1> QED  BY <1>1, <1>3, <1>4, <1>5, <1>6 DEF Inv

\* A handler that ends without ok, whatever its thread does, leaves thread and permit be.
LEMMA Closes_keeps ==
    ASSUME NEW t \in Tasks, NEW a \in {"none", "error"}, Inv, Closes(t, a),
           conn[t] \in {"open", "waiting"},
           cancelled' \in {cancelled, cancelled \cup {t}},
           UNCHANGED <<inspections, thread, docker, storage, crashes>>
    PROVE  Inv'
<1>1. TypeOK'
  BY DEF Inv, TypeOK, Closes
<1>2. Working' = Working
  BY DEF Working, Running
<1>3. PermitsFollowThreads'
  BY <1>2, SamePermits DEF Inv
<1>4. HandlerInv'
  BY DEF Inv, TypeOK, HandlerInv, Closes
<1>5. SessionInv'
  BY DEF Inv, SessionInv, Clean, ListedInv
<1>6. PublicationInv'
  BY DEF Inv, TypeOK, PublicationInv, Closes
<1> QED  BY <1>1, <1>3, <1>4, <1>5, <1>6 DEF Inv

\* A request that is refused.
LEMMA refuse_request_keeps == ASSUME NEW t \in Tasks, Inv, refuse_request(t) PROVE Inv'
BY Closes_keeps DEF refuse_request

\* A handler that times out.
LEMMA inspection_timed_out_keeps ==
    ASSUME NEW t \in Tasks, Inv, inspection_timed_out(t) PROVE Inv'
BY Closes_keeps DEF inspection_timed_out

\* A handler that is dropped.
LEMMA connection_dropped_keeps ==
    ASSUME NEW t \in Tasks, Inv, connection_dropped(t) PROVE Inv'
BY Closes_keeps DEF connection_dropped

\* The thread's result is ok only with its snapshot in place.
LEMMA respond_keeps == ASSUME NEW t \in Tasks, Inv, respond(t) PROVE Inv'
<1>1. TypeOK'
  BY DEF Inv, TypeOK, respond, Closes
<1>2. Working' = Working
  BY DEF Working, Running, respond
<1>3. PermitsFollowThreads'
  BY <1>2, SamePermits DEF Inv, respond
<1>4. HandlerInv'
  BY DEF Inv, TypeOK, HandlerInv, respond, Closes
<1>5. SessionInv'
  BY DEF Inv, SessionInv, Clean, ListedInv, respond
<1>6. PublicationInv'
  BY DEF Inv, TypeOK, PublicationInv, respond, Closes
<1> QED  BY <1>1, <1>3, <1>4, <1>5, <1>6 DEF Inv

\* The permit is taken for a thread that did not run before.
LEMMA inspect_repository_keeps ==
    ASSUME NEW t \in Tasks, Inv, inspect_repository(t) PROVE Inv'
<1>1. CASE inspections = 0
  <2>1. /\ Closes(t, "error") /\ conn[t] = "open"
        /\ UNCHANGED <<inspections, thread, cancelled, docker, storage, crashes>>
    BY <1>1 DEF inspect_repository
  <2> QED  BY <2>1, Closes_keeps
<1>2. CASE inspections > 0
  <2>1. /\ conn[t] = "open"
        /\ inspections' = inspections - 1
        /\ conn' = [conn EXCEPT ![t] = "waiting"]
        /\ at' = [at EXCEPT ![t] = "spawned"]
        /\ UNCHANGED <<answer, flight, error, cancelled, docker, storage, crashes>>
    BY <1>2 DEF inspect_repository, Goes, Inv, TypeOK
  <2>2. t \notin Direct /\ at[t] = "idle"
    BY <2>1 DEF Inv, TypeOK, HandlerInv
  <2>3. Working' = Working \cup {t} /\ t \notin Working
    BY <2>1, <2>2 DEF Inv, TypeOK, Working, Running
  <2>4. Cardinality(Working') = Cardinality(Working) + 1
    BY <2>3, WorkingFinite, FS_AddElement
  <2>5. PermitsFollowThreads'
    BY <2>1, <2>4, WorkingFinite DEF Inv, TypeOK, PermitsFollowThreads, Working
  <2>6. TypeOK'
    BY <1>2, <2>1, <2>2, LimitsAssumption DEF Inv, TypeOK, Steps
  <2>7. HandlerInv'
    BY <2>1, <2>2 DEF Inv, TypeOK, HandlerInv
  <2>8. SessionInv'
    BY <2>1, <2>2 DEF Inv, TypeOK, SessionInv, Clean, ListedInv, Outside
  <2>9. PublicationInv'
    BY <2>1, <2>2 DEF Inv, TypeOK, PublicationInv
  <2> QED  BY <2>5, <2>6, <2>7, <2>8, <2>9 DEF Inv
<1> QED  BY <1>1, <1>2, LimitsAssumption DEF Inv, TypeOK

\* A caller of the library starts without a permit.
LEMMA acquire_keeps == ASSUME NEW t \in Tasks, Inv, acquire(t) PROVE Inv'
<1>0. /\ at' = [at EXCEPT ![t] = "spawned"] /\ at[t] = "idle" /\ t \in Direct
      /\ UNCHANGED <<handler, inspections, flight, error, cancelled, docker, storage, crashes>>
  BY DEF acquire, Goes
<1>1. TypeOK'
  BY <1>0 DEF Inv, TypeOK, Steps
<1>2. Working' = Working
  BY <1>0 DEF Working, Running, Inv, TypeOK
<1>3. PermitsFollowThreads'
  BY <1>0, <1>2, SamePermits DEF Inv
<1>4. HandlerInv'
  BY <1>0 DEF Inv, TypeOK, HandlerInv
<1>5. SessionInv'
  BY <1>0 DEF Inv, TypeOK, SessionInv, Clean, ListedInv, Outside
<1>6. PublicationInv'
  BY <1>0 DEF Inv, TypeOK, PublicationInv
<1> QED  BY <1>1, <1>3, <1>4, <1>5, <1>6 DEF Inv

-----------------------------------------------------------------------------
(* The session *)

\* Before its session and after it a thread goes on, or returns with an error.
LEMMA BeforeSession ==
    ASSUME NEW t \in Tasks, Inv, at[t] \in {"spawned", "runtime", "collected"},
           \/ Fails(t, "returning", "failed")
           \/ /\ \E pc \in {"runtime", "collected", "internal", "publish"} : Goes(t, pc)
              /\ UNCHANGED error,
           Thread(t), UNCHANGED <<flight, docker, storage>>
    PROVE  Inv'
<1>0. PICK pc \in {"runtime", "collected", "internal", "publish", "returning"} :
        /\ at' = [at EXCEPT ![t] = pc]
        /\ \/ pc = "returning" /\ error' = [error EXCEPT ![t] = "failed"]
           \/ pc # "returning" /\ error' = error
  BY DEF Goes, Fails
<1>1. PermitsFollowThreads' /\ HandlerInv' /\ at' \in [Tasks -> Steps]
  <2>1. pc \in Steps \ {"idle", "done", "dead"}
    BY DEF Steps
  <2> QED  BY <1>0, <2>1, MovesOn DEF Inv, Running, Goes, Thread
<1>2. TypeOK'
  BY <1>0, <1>1 DEF Inv, TypeOK, Thread, Errors
<1>3. SessionInv'
  BY <1>0 DEF Inv, TypeOK, SessionInv, Clean, ListedInv, Outside
<1>4. PublicationInv'
  BY <1>0 DEF Inv, TypeOK, PublicationInv, Thread
<1> QED  BY <1>1, <1>2, <1>3, <1>4 DEF Inv

\* The checks before anything is read.
LEMMA acquire_cancelable_keeps ==
    ASSUME NEW t \in Tasks, Inv, acquire_cancelable(t) PROVE Inv'
BY BeforeSession DEF acquire_cancelable

\* The container runtime is looked at before anything exists.
LEMMA verify_runtime_keeps == ASSUME NEW t \in Tasks, Inv, verify_runtime(t) PROVE Inv'
BY BeforeSession, AfterListing DEF verify_runtime

\* The files are read or decoded.
LEMMA collect_keeps == ASSUME NEW t \in Tasks, Inv, collect(t) PROVE Inv'
BY BeforeSession DEF collect

\* A check in the session passes, or the session is abandoned to its cleanup.
LEMMA Step_keeps ==
    ASSUME NEW t \in Tasks, NEW pc \in Checks, Inv, Step(t, pc) PROVE Inv'
<1>0. PICK q \in ResourceNames \cup Checks \cup {"rm_worker"} :
        /\ at' = [at EXCEPT ![t] = q]
        /\ \/ q = "rm_worker" /\ error' = [error EXCEPT ![t] = "failed"]
           \/ error' = error
        /\ at[t] \in Checks
        /\ Thread(t) /\ UNCHANGED <<flight, docker, storage>>
  BY AfterStep DEF Step, Goes, Fails, Abandons
<1>1. PermitsFollowThreads' /\ HandlerInv' /\ at' \in [Tasks -> Steps]
  <2>1. q \in Steps \ {"idle", "done", "dead"}
    BY DEF Steps
  <2> QED  BY <1>0, <2>1, MovesOn DEF Inv, Running, Goes, Thread
<1>2. TypeOK'
  BY <1>0, <1>1 DEF Inv, TypeOK, Thread, Errors
<1>3. SessionInv'
  BY <1>0 DEF Inv, TypeOK, SessionInv, Clean, ListedInv, Outside
<1>4. PublicationInv'
  BY <1>0 DEF Inv, TypeOK, PublicationInv, Thread
<1> QED  BY <1>1, <1>2, <1>3, <1>4 DEF Inv

\* A create command is started, or the flag ends the session before it.
LEMMA begin_create_keeps == ASSUME NEW t \in Tasks, Inv, begin_create(t) PROVE Inv'
<1>1. CASE t \in cancelled
  <2>0. /\ at' = [at EXCEPT ![t] = "rm_worker"]
        /\ error' = [error EXCEPT ![t] = "failed"]
        /\ at[t] \in ResourceNames /\ t \notin flight
        /\ Thread(t) /\ UNCHANGED <<flight, docker, storage>>
    BY <1>1 DEF begin_create, Fails, Goes, Abandons
  <2>1. PermitsFollowThreads' /\ HandlerInv' /\ at' \in [Tasks -> Steps]
    <3>1. "rm_worker" \in Steps \ {"idle", "done", "dead"}
      BY DEF Steps
    <3> QED  BY <2>0, <3>1, MovesOn DEF Inv, Running, Goes, Thread
  <2>2. TypeOK'
    BY <2>0, <2>1 DEF Inv, TypeOK, Thread, Errors
  <2>3. SessionInv'
    BY <2>0 DEF Inv, TypeOK, SessionInv, Clean, ListedInv, Outside
  <2>4. PublicationInv'
    BY <2>0 DEF Inv, TypeOK, PublicationInv, Thread
  <2> QED  BY <2>1, <2>2, <2>3, <2>4 DEF Inv
<1>2. CASE t \notin cancelled
  <2>0. /\ flight' = flight \cup {t} /\ at[t] \in ResourceNames
        /\ Thread(t) /\ UNCHANGED <<at, error, docker, storage>>
    BY <1>2 DEF begin_create
  <2>1. TypeOK'
    BY <2>0 DEF Inv, TypeOK, Thread
  <2>2. Working' = Working
    BY <2>0 DEF Working, Running
  <2>3. PermitsFollowThreads'
    BY <2>0, <2>2, SamePermits DEF Inv, Thread
  <2>4. HandlerInv'
    BY <2>0 DEF Inv, HandlerInv, Thread
  <2>5. SessionInv'
    BY <2>0 DEF Inv, SessionInv, Clean, ListedInv
  <2>6. PublicationInv'
    BY <2>0 DEF Inv, PublicationInv, Thread
  <2> QED  BY <2>1, <2>3, <2>4, <2>5, <2>6 DEF Inv
<1> QED  BY <1>1, <1>2

\* A creation is done and the session goes on.
LEMMA create_returns_keeps == ASSUME NEW t \in Tasks, Inv, create_returns(t) PROVE Inv'
<1>0. at[t] \in ResourceNames
  BY DEF create_returns, Inv, TypeOK
<1>1. PICK q \in ResourceNames \cup Checks \cup {"rm_worker"} :
        /\ at' = [at EXCEPT ![t] = q]
        /\ flight' = flight \ {t}
        /\ resources' = [resources EXCEPT ![t] = @ \cup {at[t]}]
        /\ Thread(t) /\ UNCHANGED <<error, stopped, pending, storage>>
  BY <1>0, AfterStep DEF create_returns, Goes
<1>2. PermitsFollowThreads' /\ HandlerInv' /\ at' \in [Tasks -> Steps]
  <2>1. q \in Steps \ {"idle", "done", "dead"}
    BY DEF Steps
  <2> QED  BY <1>0, <1>1, <2>1, MovesOn DEF Inv, Running, Goes, Thread
<1>3. TypeOK'
  BY <1>0, <1>1, <1>2 DEF Inv, TypeOK, Thread
<1>4. SessionInv'
  BY <1>0, <1>1 DEF Inv, TypeOK, SessionInv, Clean, ListedInv, Outside
<1>5. PublicationInv'
  BY <1>0, <1>1 DEF Inv, TypeOK, PublicationInv, Thread
<1> QED  BY <1>2, <1>3, <1>4, <1>5 DEF Inv

\* A creation is stopped, and with it the session.
LEMMA create_stopped_keeps == ASSUME NEW t \in Tasks, Inv, create_stopped(t) PROVE Inv'
<1>0. at[t] \in ResourceNames
  BY DEF create_stopped, Inv, TypeOK
<1>1. /\ at' = [at EXCEPT ![t] = "rm_worker"]
      /\ error' = [error EXCEPT ![t] = "failed"]
      /\ flight' = flight \ {t}
      /\ stopped' = [stopped EXCEPT ![t] = @ \cup {at[t]}]
      /\ resources' \in {resources, [resources EXCEPT ![t] = @ \cup {at[t]}]}
      /\ pending' \in {pending, pending \cup {t}}
      /\ Thread(t) /\ UNCHANGED storage
  BY DEF create_stopped, Goes, Fails, Abandons
<1>2. PermitsFollowThreads' /\ HandlerInv' /\ at' \in [Tasks -> Steps]
  <2>1. "rm_worker" \in Steps \ {"idle", "done", "dead"}
    BY DEF Steps
  <2> QED  BY <1>0, <1>1, <2>1, MovesOn DEF Inv, Running, Goes, Thread
<1>3. TypeOK'
  BY <1>0, <1>1, <1>2 DEF Inv, TypeOK, Thread, Errors
<1>4. SessionInv'
  BY <1>0, <1>1 DEF Inv, TypeOK, SessionInv, Clean, ListedInv, Outside
<1>5. PublicationInv'
  BY <1>0, <1>1 DEF Inv, TypeOK, PublicationInv, Thread
<1> QED  BY <1>2, <1>3, <1>4, <1>5 DEF Inv

-----------------------------------------------------------------------------
(* The cleanup *)

\* A removal, which may fail, takes at most something away.
LEMMA remove_keeps == ASSUME NEW t \in Tasks, Inv, remove(t) PROVE Inv'
<1>1. PICK q \in Removals \cup {"ls_containers"} :
        /\ at' = [at EXCEPT ![t] = q]
        /\ at[t] \in Removals
        /\ \/ resources' = [resources EXCEPT ![t] = @ \ {Removed(at[t])}]
           \/ resources' = resources
        /\ Thread(t) /\ UNCHANGED <<flight, error, stopped, pending, storage>>
  BY AfterRemoval DEF remove, Goes
<1>2. PermitsFollowThreads' /\ HandlerInv' /\ at' \in [Tasks -> Steps]
  <2>1. q \in Steps \ {"idle", "done", "dead"}
    BY DEF Steps
  <2> QED  BY <1>1, <2>1, MovesOn DEF Inv, Running, Goes, Thread
<1>3. TypeOK'
  BY <1>1, <1>2 DEF Inv, TypeOK, Thread
<1>4. SessionInv'
  BY <1>1 DEF Inv, TypeOK, SessionInv, Clean, ListedInv, Outside
<1>5. PublicationInv'
  BY <1>1 DEF Inv, TypeOK, PublicationInv, Thread
<1> QED  BY <1>2, <1>3, <1>4, <1>5 DEF Inv

\* The next place after a listing that named nothing.
LEMMA ListingMoves ==
    ASSUME NEW t \in Tasks, at[t] \in Listings, NEW q,
           q = IF at[t] # "ls_volumes" THEN after(t, at[t])
               ELSE IF error[t] = "none" THEN "collected" ELSE "returning"
    PROVE  \/ at[t] = "ls_containers" /\ q = "ls_networks"
           \/ at[t] = "ls_networks" /\ q = "ls_volumes"
           \/ at[t] = "ls_volumes" /\ error[t] = "none" /\ q = "collected"
           \/ at[t] = "ls_volumes" /\ error[t] # "none" /\ q = "returning"
BY AfterListing

\* A listing that names nothing extends what is known of the session; with the last one
\* it is all of it, and a session without an error had no creation stopped.
LEMMA verify_removed_keeps == ASSUME NEW t \in Tasks, Inv, verify_removed(t) PROVE Inv'
<1>0. /\ at[t] \in Listings
      /\ Thread(t) /\ UNCHANGED <<flight, docker, storage>>
  BY DEF verify_removed
<1>1. CASE Fails(t, "returning", "cleanup_failed")
  <2>1. /\ at' = [at EXCEPT ![t] = "returning"]
        /\ error' = [error EXCEPT ![t] = "cleanup_failed"]
    BY <1>1 DEF Fails, Goes
  <2>2. PermitsFollowThreads' /\ HandlerInv' /\ at' \in [Tasks -> Steps]
    <3>1. "returning" \in Steps \ {"idle", "done", "dead"}
      BY DEF Steps
    <3> QED  BY <1>0, <2>1, <3>1, MovesOn DEF Inv, Running, Goes, Thread
  <2>3. TypeOK'
    BY <1>0, <2>1, <2>2 DEF Inv, TypeOK, Thread, Errors
  <2>4. SessionInv'
    BY <1>0, <2>1 DEF Inv, TypeOK, SessionInv, Clean, ListedInv, Outside
  <2>5. PublicationInv'
    BY <1>0, <2>1 DEF Inv, TypeOK, PublicationInv, Thread
  <2> QED  BY <2>2, <2>3, <2>4, <2>5 DEF Inv
<1>2. CASE /\ lists_none(t)
           /\ Goes(t, IF at[t] # "ls_volumes" THEN after(t, at[t])
                      ELSE IF error[t] = "none" THEN "collected" ELSE "returning")
           /\ UNCHANGED error
  <2>1. PICK q \in {"ls_networks", "ls_volumes", "collected", "returning"} :
          /\ at' = [at EXCEPT ![t] = q]
          /\ \/ at[t] = "ls_containers" /\ q = "ls_networks"
             \/ at[t] = "ls_networks" /\ q = "ls_volumes"
             \/ at[t] = "ls_volumes" /\ error[t] = "none" /\ q = "collected"
             \/ at[t] = "ls_volumes" /\ error[t] # "none" /\ q = "returning"
    BY <1>0, <1>2, ListingMoves DEF Goes
  <2>2. /\ at[t] = "ls_containers" => resources[t] \cap Containers = {}
        /\ at[t] = "ls_networks" => resources[t] \cap Networks = {}
        /\ at[t] = "ls_volumes" => resources[t] \cap {"volume"} = {}
    BY <1>2 DEF lists_none, Listed
  <2>3. PermitsFollowThreads' /\ HandlerInv' /\ at' \in [Tasks -> Steps]
    <3>1. q \in Steps \ {"idle", "done", "dead"}
      BY DEF Steps
    <3> QED  BY <1>0, <1>2, <2>1, <3>1, MovesOn DEF Inv, Running, Goes, Thread
  <2>4. TypeOK'
    BY <1>0, <1>2, <2>1, <2>3 DEF Inv, TypeOK, Thread
  <2>5. resources[t] \subseteq Containers \cup Networks \cup {"volume"}
    BY DEF Inv, TypeOK
  <2>6. SessionInv'
    BY <1>0, <1>2, <2>1, <2>2, <2>5 DEF Inv, TypeOK, SessionInv, Clean, ListedInv, Outside
  <2>7. PublicationInv'
    BY <1>0, <1>2, <2>1 DEF Inv, TypeOK, PublicationInv, Thread
  <2> QED  BY <2>3, <2>4, <2>6, <2>7 DEF Inv
<1> QED  BY <1>1, <1>2 DEF verify_removed

\* The docker server may yet carry out what was stopped, and nothing else.
LEMMA late_creation_keeps == ASSUME NEW t \in Tasks, Inv, late_creation(t) PROVE Inv'
<1>0. /\ t \in pending /\ pending' = pending \ {t}
      /\ \/ resources' = [resources EXCEPT ![t] = @ \cup stopped[t]]
         \/ resources' = resources
      /\ UNCHANGED <<handler, inspections, thread, cancelled, stopped, storage, crashes>>
  BY DEF late_creation
<1>1. TypeOK'
  BY <1>0 DEF Inv, TypeOK
<1>2. Working' = Working
  BY <1>0 DEF Working, Running
<1>3. PermitsFollowThreads'
  BY <1>0, <1>2, SamePermits DEF Inv
<1>4. HandlerInv'
  BY <1>0 DEF Inv, HandlerInv
<1>5. SessionInv'
  BY <1>0 DEF Inv, TypeOK, SessionInv, Clean, ListedInv
<1>6. PublicationInv'
  BY <1>0 DEF Inv, PublicationInv
<1> QED  BY <1>1, <1>3, <1>4, <1>5, <1>6 DEF Inv

-----------------------------------------------------------------------------
(* Publication *)

\* A snapshot that is there is the task's own result.
LEMMA publish_existing_keeps ==
    ASSUME NEW t \in Tasks, Inv, publish_existing(t) PROVE Inv'
<1>1. /\ at[t] = "publish" /\ at' = [at EXCEPT ![t] = "returning"]
      /\ error' \in {error, [error EXCEPT ![t] = "failed"]}
      /\ snapshots[SnapshotOf[t]] # None
      /\ Thread(t) /\ UNCHANGED <<flight, docker, storage>>
  BY DEF publish_existing, Fails, Goes
<1>2. PermitsFollowThreads' /\ HandlerInv' /\ at' \in [Tasks -> Steps]
  <2>1. "returning" \in Steps \ {"idle", "done", "dead"}
    BY DEF Steps
  <2> QED  BY <1>1, <2>1, MovesOn DEF Inv, Running, Goes, Thread
<1>3. TypeOK'
  BY <1>1, <1>2 DEF Inv, TypeOK, Thread, Errors
<1>4. SessionInv'
  BY <1>1 DEF Inv, TypeOK, SessionInv, Clean, ListedInv, Outside
<1>5. PublicationInv'
  BY <1>1 DEF Inv, TypeOK, PublicationInv, Thread
<1> QED  BY <1>2, <1>3, <1>4, <1>5 DEF Inv

\* The work directory is made where there is no snapshot.
LEMMA write_staging_keeps == ASSUME NEW t \in Tasks, Inv, write_staging(t) PROVE Inv'
<1>1. /\ at[t] = "publish" /\ at' = [at EXCEPT ![t] = "rename"]
      /\ staging' = staging \cup {t}
      /\ Thread(t) /\ UNCHANGED <<flight, error, docker, snapshots>>
  BY DEF write_staging, Goes
<1>2. PermitsFollowThreads' /\ HandlerInv' /\ at' \in [Tasks -> Steps]
  <2>1. "rename" \in Steps \ {"idle", "done", "dead"}
    BY DEF Steps
  <2> QED  BY <1>1, <2>1, MovesOn DEF Inv, Running, Goes, Thread
<1>3. TypeOK'
  BY <1>1, <1>2 DEF Inv, TypeOK, Thread
<1>4. SessionInv'
  BY <1>1 DEF Inv, TypeOK, SessionInv, Clean, ListedInv, Outside
<1>5. PublicationInv'
  BY <1>1 DEF Inv, TypeOK, PublicationInv, Thread
<1> QED  BY <1>2, <1>3, <1>4, <1>5 DEF Inv

\* A rename fills an empty place or leaves what another task has put there meanwhile.
LEMMA rename_keeps == ASSUME NEW t \in Tasks, Inv, rename(t) PROVE Inv'
<1>1. /\ at[t] = "rename" /\ at' = [at EXCEPT ![t] = "returning"]
      /\ error' \in {error, [error EXCEPT ![t] = "failed"]}
      /\ \/ snapshots' = [snapshots EXCEPT ![SnapshotOf[t]] = t]
         \/ snapshots' = snapshots
      /\ staging' = staging \ {t}
      /\ Thread(t) /\ UNCHANGED <<flight, docker>>
  BY DEF rename, Fails, Goes
<1>2. \/ snapshots' = [snapshots EXCEPT ![SnapshotOf[t]] = t]
      \/ snapshots[SnapshotOf[t]] # None /\ snapshots' = snapshots
      \/ error' = [error EXCEPT ![t] = "failed"] /\ snapshots' = snapshots
  BY DEF rename, Fails
<1>3. PermitsFollowThreads' /\ HandlerInv' /\ at' \in [Tasks -> Steps]
  <2>1. "returning" \in Steps \ {"idle", "done", "dead"}
    BY DEF Steps
  <2> QED  BY <1>1, <2>1, MovesOn DEF Inv, Running, Goes, Thread
<1>4. TypeOK'
  BY <1>1, <1>3 DEF Inv, TypeOK, Thread, Errors
<1>5. SessionInv'
  BY <1>1 DEF Inv, TypeOK, SessionInv, Clean, ListedInv, Outside
<1>6. \A u \in Tasks : snapshots[SnapshotOf[u]] # None => snapshots'[SnapshotOf[u]] # None
  BY <1>1, NoneAssumption DEF Inv, TypeOK
<1>7. error'[t] = "none" => snapshots'[SnapshotOf[t]] # None
  BY <1>1, <1>2, NoneAssumption DEF Inv, TypeOK
<1>8. PublicationInv'
  BY <1>1, <1>6, <1>7 DEF Inv, TypeOK, PublicationInv, Thread
<1> QED  BY <1>3, <1>4, <1>5, <1>8 DEF Inv

\* The permit goes back with the thread.
LEMMA return_keeps == ASSUME NEW t \in Tasks, Inv, return(t) PROVE Inv'
<1>1. /\ at[t] = "returning" /\ at' = [at EXCEPT ![t] = "done"]
      /\ inspections' = IF t \in Direct THEN inspections ELSE inspections + 1
      /\ UNCHANGED <<handler, flight, error, cancelled, docker, storage, crashes>>
  BY DEF return, Goes
<1>2. PermitsFollowThreads'
  <2>1. CASE t \in Direct
    <3>1. Working' = Working
      BY <1>1, <2>1 DEF Inv, TypeOK, Working, Running
    <3> QED  BY <1>1, <2>1, <3>1, SamePermits DEF Inv
  <2>2. CASE t \notin Direct
    <3>1. Working' = Working \ {t} /\ t \in Working
      BY <1>1, <2>2 DEF Inv, TypeOK, Working, Running
    <3>2. Cardinality(Working') = Cardinality(Working) - 1
      BY <3>1, WorkingFinite, FS_RemoveElement
    <3> QED  BY <1>1, <2>2, <3>2, WorkingFinite
             DEF Inv, TypeOK, PermitsFollowThreads, Working
  <2> QED  BY <2>1, <2>2
<1>3. inspections' \in 0..MaxInspections
  <2>1. Cardinality({u \in Tasks \ Direct : Running(u)'}) \in Nat
    BY TasksAssumption, FS_Subset, FS_CardinalityType
  <2>2. inspections' \in Nat
    BY <1>1 DEF Inv, TypeOK
  <2> QED  BY <1>2, <2>1, <2>2, LimitsAssumption DEF PermitsFollowThreads
<1>4. TypeOK'
  BY <1>1, <1>3 DEF Inv, TypeOK, Steps
<1>5. HandlerInv'
  BY <1>1 DEF Inv, TypeOK, HandlerInv
<1>6. SessionInv'
  BY <1>1 DEF Inv, TypeOK, SessionInv, Clean, ListedInv, Outside
<1>7. PublicationInv'
  BY <1>1 DEF Inv, TypeOK, PublicationInv
<1> QED  BY <1>2, <1>4, <1>5, <1>6, <1>7 DEF Inv

-----------------------------------------------------------------------------
(* Processes die *)

\* A thread at work is dead, and its running command goes on alone; the others are as
\* they were.
LEMMA DieMoves ==
    ASSUME NEW ts \in SUBSET Tasks, Inv, Die(ts)
    PROVE  /\ at' \in [Tasks -> Steps]
           /\ \A u \in Tasks : \/ u \in ts /\ Running(u) /\ at'[u] = "dead"
                               \/ at'[u] = at[u] /\ (u \in ts => ~Running(u))
           /\ \A u \in Tasks : stopped'[u] = stopped[u] \/ at'[u] = "dead"
           /\ \A u \in Tasks : (u \in pending' <=> u \in pending) \/ at'[u] = "dead"
<1>1. at' = [u \in Tasks |-> IF u \in ts /\ Running(u) THEN "dead" ELSE at[u]]
  BY DEF Die
<1>2. at' \in [Tasks -> Steps]
  BY <1>1 DEF Inv, TypeOK, Steps
<1>3. \A u \in Tasks : \/ u \in ts /\ Running(u) /\ at'[u] = "dead"
                       \/ at'[u] = at[u] /\ (u \in ts => ~Running(u))
  BY <1>1
<1>4. \A u \in flight : u \in Tasks /\ Running(u)
  BY DEF Inv, TypeOK, Running
<1>5. \A u \in Tasks : stopped'[u] = stopped[u] \/ at'[u] = "dead"
  BY <1>3, <1>4 DEF Die
<1>6. \A u \in Tasks : (u \in pending' <=> u \in pending) \/ at'[u] = "dead"
  BY <1>3, <1>4 DEF Die
<1> QED  BY <1>2, <1>3, <1>5, <1>6

\* The places and sets of a process that died keep their types.
LEMMA DieType ==
    ASSUME NEW ts \in SUBSET Tasks, Inv, Die(ts)
    PROVE  /\ \A u \in flight' : u \in Tasks /\ at'[u] \in ResourceNames
           /\ stopped' \in [Tasks -> SUBSET ResourceNames]
           /\ pending' \subseteq Tasks
           /\ crashes' \in 0..MaxCrashes
<1>1. \A u \in flight' : u \in Tasks /\ at'[u] \in ResourceNames
  <2>1. flight' = flight \ ts
    BY DEF Die
  <2> QED  BY <2>1, DieMoves DEF Inv, TypeOK
<1>2. stopped' \in [Tasks -> SUBSET ResourceNames]
  <2>1. stopped' = [u \in Tasks |->
           IF u \in ts \cap flight THEN stopped[u] \cup {at[u]} ELSE stopped[u]]
    BY DEF Die
  <2>2. ASSUME NEW u \in Tasks
        PROVE  stopped'[u] \in SUBSET ResourceNames
    BY <2>1 DEF Inv, TypeOK
  <2> QED  BY <2>1, <2>2
<1>3. pending' \subseteq Tasks
  BY DEF Die, Inv, TypeOK
<1>4. crashes' \in 0..MaxCrashes
  BY LimitsAssumption DEF Die, Inv, TypeOK
<1> QED  BY <1>1, <1>2, <1>3, <1>4

\* What is known of the sessions and of publication says nothing of the dead.
LEMMA DieKeeps ==
    ASSUME NEW ts \in SUBSET Tasks, Inv, Die(ts)
    PROVE  SessionInv' /\ PublicationInv'
<1>1. UNCHANGED <<answer, error, cancelled, resources, storage>>
  BY DEF Die
<1>2. ASSUME NEW u \in Tasks, at'[u] # "dead"
      PROVE  at'[u] = at[u] /\ stopped'[u] = stopped[u] /\ (u \in pending' <=> u \in pending)
  BY <1>2, DieMoves
<1>3. SessionInv'
  BY <1>1, <1>2 DEF Inv, SessionInv, Clean, ListedInv, Outside
<1>4. PublicationInv'
  BY <1>1, <1>2 DEF Inv, PublicationInv
<1> QED  BY <1>3, <1>4

\* The daemon dies and its successor starts with all permits, and no thread.
LEMMA crash_keeps == ASSUME Inv, crash PROVE Inv'
<1>0. /\ Die(Tasks \ Direct) /\ Tasks \ Direct \in SUBSET Tasks
      /\ conn' = [t \in Tasks |->
            IF conn[t] \in {"open", "waiting"} THEN "closed" ELSE conn[t]]
      /\ inspections' = MaxInspections
  BY DEF crash
<1>1. /\ conn' \in [Tasks -> {"none", "open", "waiting", "closed"}]
      /\ \A t \in Tasks : conn'[t] # "open" /\ (conn'[t] = "none" => conn[t] = "none")
      /\ \A t \in Tasks : conn[t] = "none" => conn'[t] = "none"
  BY <1>0 DEF Inv, TypeOK
<1>2. TypeOK'
  <2>1. UNCHANGED <<answer, error, cancelled, resources, storage>>
    BY <1>0 DEF Die
  <2>2. inspections' \in 0..MaxInspections
    BY <1>0, LimitsAssumption
  <2>3. /\ at' \in [Tasks -> Steps]
        /\ \A u \in flight' : u \in Tasks /\ at'[u] \in ResourceNames
        /\ stopped' \in [Tasks -> SUBSET ResourceNames]
        /\ pending' \subseteq Tasks
        /\ crashes' \in 0..MaxCrashes
    BY <1>0, DieMoves, DieType
  <2> QED  BY <1>1, <2>1, <2>2, <2>3 DEF Inv, TypeOK
<1>3. Working' = {}
  BY <1>0, DieMoves DEF Working, Running
<1>4. Cardinality(Working') = 0
  BY <1>3, FS_EmptySet
<1>5. PermitsFollowThreads'
  BY <1>0, <1>4, LimitsAssumption DEF PermitsFollowThreads, Working
<1>6. HandlerInv'
  BY <1>0, <1>1, DieMoves DEF Inv, HandlerInv, Running
<1> QED  BY <1>0, <1>2, <1>5, <1>6, DieKeeps DEF Inv

\* A caller of the library dies: the daemon's permits are not concerned.
LEMMA caller_crash_keeps == ASSUME NEW t \in Tasks, Inv, caller_crash(t) PROVE Inv'
<1>0. /\ t \in Direct /\ Die({t}) /\ {t} \in SUBSET Tasks
      /\ UNCHANGED <<conn, inspections>>
  BY DEF caller_crash
<1>1. TypeOK'
  <2>1. UNCHANGED <<answer, error, cancelled, resources, storage>>
    BY <1>0 DEF Die
  <2>2. /\ at' \in [Tasks -> Steps]
        /\ \A u \in flight' : u \in Tasks /\ at'[u] \in ResourceNames
        /\ stopped' \in [Tasks -> SUBSET ResourceNames]
        /\ pending' \subseteq Tasks
        /\ crashes' \in 0..MaxCrashes
    BY <1>0, DieMoves, DieType
  <2> QED  BY <1>0, <2>1, <2>2 DEF Inv, TypeOK
<1>2. Working' = Working
  BY <1>0, DieMoves DEF Working, Running
<1>3. PermitsFollowThreads'
  BY <1>0, <1>2, SamePermits DEF Inv
<1>4. HandlerInv'
  BY <1>0, DieMoves DEF Inv, HandlerInv
<1> QED  BY <1>0, <1>1, <1>3, <1>4, DieKeeps DEF Inv

-----------------------------------------------------------------------------
(* The theorems *)

\* Nothing has begun.
LEMMA InitInv == Init => Inv
<1> SUFFICES ASSUME Init PROVE Inv
  OBVIOUS
<1>1. TypeOK
  BY LimitsAssumption DEF Init, TypeOK, Steps, Errors
<1>2. Working = {}
  BY DEF Init, Working, Running
<1>3. PermitsFollowThreads
  <2>1. Cardinality(Working) = 0
    BY <1>2, FS_EmptySet
  <2> QED  BY <2>1, LimitsAssumption DEF Init, PermitsFollowThreads, Working
<1>4. HandlerInv
  BY DEF Init, HandlerInv
<1>5. SessionInv
  BY DEF Init, SessionInv, Clean, ListedInv, Outside
<1>6. PublicationInv
  BY DEF Init, PublicationInv
<1> QED  BY <1>1, <1>3, <1>4, <1>5, <1>6 DEF Inv

\* Every step keeps the invariant.
LEMMA NextKeeps == Inv /\ [Next]_vars => Inv'
<1> SUFFICES ASSUME Inv, [Next]_vars PROVE Inv'
  OBVIOUS
<1>1. CASE \E t \in Tasks : Handler(t)
  BY <1>1, accept_keeps, refuse_request_keeps, inspect_repository_keeps, respond_keeps,
     inspection_timed_out_keeps, connection_dropped_keeps DEF Handler
<1>2. CASE \E t \in Tasks : acquire(t)
  BY <1>2, acquire_keeps
<1>3. CASE \E t \in Tasks : acquire_cancelable(t)
  BY <1>3, acquire_cancelable_keeps
<1>4. CASE \E t \in Tasks : Session(t)
  <2> PICK t \in Tasks : Session(t)
    BY <1>4
  <2>1. CASE \E pc \in Checks : Step(t, pc)
    BY <2>1, Step_keeps
  <2>2. CASE \/ verify_runtime(t) \/ begin_create(t) \/ create_returns(t)
             \/ create_stopped(t) \/ remove(t) \/ verify_removed(t)
    BY <2>2, verify_runtime_keeps, begin_create_keeps, create_returns_keeps,
       create_stopped_keeps, remove_keeps, verify_removed_keeps
  <2> QED  BY <2>1, <2>2 DEF Session, verify_network, verify_relay_container,
              await_relay_ready, verify_container, await_proxy_ready,
              verify_worker_default_route_absent, await_worker_report,
              await_relay_receipt, await_proxy_terminal
<1>5. CASE \E t \in Tasks : Publication(t)
  BY <1>5, collect_keeps, publish_existing_keeps, write_staging_keeps, rename_keeps,
     return_keeps DEF Publication
<1>6. CASE \E t \in Tasks : late_creation(t)
  BY <1>6, late_creation_keeps
<1>7. CASE \E t \in Tasks : caller_crash(t)
  BY <1>7, caller_crash_keeps
<1>8. CASE crash
  BY <1>8, crash_keeps
<1>9. CASE UNCHANGED vars
  <2>1. TypeOK'
    BY <1>9 DEF vars, Inv, TypeOK
  <2>2. PermitsFollowThreads'
    BY <1>9, SamePermits DEF vars, Inv, Working, Running
  <2>3. HandlerInv' /\ SessionInv' /\ PublicationInv'
    BY <1>9 DEF vars, Inv, HandlerInv, SessionInv, Clean, ListedInv, PublicationInv
  <2> QED  BY <2>1, <2>2, <2>3 DEF Inv
<1> QED  BY <1>1, <1>2, <1>3, <1>4, <1>5, <1>6, <1>7, <1>8, <1>9 DEF Next

\* The invariant of the inspections: types, permits, handlers, sessions and publication.
THEOREM Invariance == Spec => []Inv
<1>1. Init => Inv
  BY InitInv
<1>2. Inv /\ [Next]_vars => Inv'
  BY NextKeeps
<1> QED  BY <1>1, <1>2, PTL DEF Spec

\* Handlers, threads, docker and snapshots are always in their states.
THEOREM TypeCorrect == Spec => []TypeOK
<1>1. Inv => TypeOK
  BY DEF Inv
<1> QED  BY <1>1, Invariance, PTL

\* The permit of an inspection is held by the blocking thread until it has cleaned up,
\* for any number of permits, handlers that time out and daemons that die.
THEOREM PermitsAreThreads == Spec => []PermitsFollowThreads
<1>1. Inv => PermitsFollowThreads
  BY DEF Inv
<1> QED  BY <1>1, Invariance, PTL

\* A thread that returned left neither a work directory nor, but for a creation docker
\* carried out too late or a reported cleanup failure, anything in docker.
THEOREM ReturnedIsCleanedUp == Spec => []ReturnedLeavesNothing
<1>1. Inv => ReturnedLeavesNothing
  BY DEF Inv, PublicationInv, SessionInv, ListedInv, ReturnedLeavesNothing
<1> QED  BY <1>1, Invariance, PTL

\* A session whose output is published has left nothing in docker and never will.
THEOREM AttestationIsTrue == Spec => []AttestedIsClean
<1>1. Inv => AttestedIsClean
  <2> SUFFICES ASSUME Inv, NEW t \in Tasks,
                      at[t] \in {"collected", "publish", "rename"} \/
                      (at[t] = "done" /\ error[t] = "none")
               PROVE  resources[t] = {} /\ t \notin pending
    BY DEF AttestedIsClean
  <2>1. CASE at[t] \in {"collected", "publish", "rename"}
    BY <2>1 DEF Inv, SessionInv, Clean, Outside
  <2>2. CASE at[t] = "done" /\ error[t] = "none"
    BY <2>2 DEF Inv, SessionInv, ListedInv
  <2> QED  BY <2>1, <2>2
<1> QED  BY <1>1, Invariance, PTL

\* Only a rename writes a snapshot, where there is none.
LEMMA NextKeepsSnapshots ==
    ASSUME Inv, [Next]_vars, NEW s \in DOMAIN snapshots, snapshots[s] # None
    PROVE  snapshots'[s] = snapshots[s]
<1>1. CASE \E t \in Tasks : rename(t)
  <2> PICK t \in Tasks : rename(t)
    BY <1>1
  <2>1. \/ snapshots' = snapshots
        \/ /\ snapshots[SnapshotOf[t]] = None
           /\ snapshots' = [snapshots EXCEPT ![SnapshotOf[t]] = t]
    BY DEF rename
  <2> QED  BY <2>1 DEF Inv, TypeOK
<1>2. CASE UNCHANGED snapshots
  BY <1>2
<1>3. \/ \E t \in Tasks : rename(t)
      \/ UNCHANGED snapshots
  BY DEF Next, Handler, accept, refuse_request, inspect_repository, respond,
     inspection_timed_out, connection_dropped, acquire, acquire_cancelable, Session,
     verify_runtime, verify_network, verify_relay_container, await_relay_ready,
     verify_container, await_proxy_ready, verify_worker_default_route_absent,
     await_worker_report, await_relay_receipt, await_proxy_terminal, Step, begin_create,
     create_returns, create_stopped, remove, verify_removed, Publication, collect,
     publish_existing, write_staging, return, late_creation, caller_crash, crash, Die, vars
<1> QED  BY <1>1, <1>2, <1>3

\* However many tasks publish the same receipt at the same time, the first tree stays, and
\* a client is told ok only of a snapshot that is there.
THEOREM SnapshotsAreImmutable == Spec => SnapshotIsImmutable
<1>1. Inv /\ Inv' /\ [Next]_vars =>
        [/\ \A s \in DOMAIN snapshots : snapshots[s] # None => snapshots'[s] = snapshots[s]
         /\ \A t \in Tasks : answer'[t] = "ok" => snapshots'[SnapshotOf[t]] # None]_vars
  BY NextKeepsSnapshots DEF Inv, PublicationInv
<1> QED  BY <1>1, Invariance, PTL DEF Spec, SnapshotIsImmutable
=============================================================================
