------------------------------ MODULE CoreStore ------------------------------
(***************************************************************************)
(* The trusted core's run store (rust/crates/promptectomy-core): runs and  *)
(* their authority, stages and their leases, budget counters, cleanup,     *)
(* cancellation, receipts and the idempotency table, one action per        *)
(* operation of CoreStore.  Every operation runs under the writer lock in  *)
(* one SQLite transaction, so it is one step, and a crash between two      *)
(* steps loses nothing.  An operation that returns an error changes        *)
(* nothing and is a disabled action.                                       *)
(*                                                                         *)
(* Abstractions:                                                           *)
(*  - ids are members of Runs, Stages, Artifacts; a fresh UUID is a row    *)
(*    whose state is still "absent";                                       *)
(*  - an authority is a record of what the checks read; the shape of its   *)
(*    contract (digest, subject, reads, writes) is fixed when it is made   *)
(*    and does not change, so only mode, approval time, expiry, budget and *)
(*    revocation are kept; every valid authority grants WriteState;        *)
(*  - clock stands for the wall clock and for the now_ms a caller passes;  *)
(*    timestamps that no operation reads are left out;                     *)
(*  - emitted is the set of event rows the last transaction appended; the  *)
(*    numbers of the rows and their payloads are left out;                 *)
(*  - an idempotency row keeps no digest: a reused key changes nothing,    *)
(*    whether the request is the same (its answer is replayed) or another  *)
(*    (idempotency_conflict).                                              *)
(***************************************************************************)
EXTENDS Naturals, FiniteSets

CONSTANTS
    Runs,        \* run ids
    Stages,      \* stage ids
    Owners,      \* lease owners (workers)
    Artifacts,   \* artifact ids of complete artifact rows
    Keys,        \* idempotency keys
    None,        \* NULL, and "no idempotency key"
    Resources,   \* the fields of a BudgetLedger
    Budgets,     \* the ledgers callers pass as budgets
    Deltas,      \* the ledgers callers pass to record_budget
    Authorities, \* the authority manifests callers present
    AttemptCaps, \* the max_attempts callers pass to add_stage
    Ttls,        \* the lease durations callers pass
    U64Max,      \* the largest u64
    MaxClock,    \* bound on the clock
    MaxIdem      \* bound on the operations called with a key

(***************************************************************************)
(* Ledgers are u64 fields, and NULL is none of the values it stands beside. *)
(***************************************************************************)
Ledger == [Resources -> 0..U64Max]

Authority == [mode : {"inspect", "audit", "draft", "apply", "integrate"}, approved : Nat,
              expires : Nat \cup {None}, budget : Ledger]

Lease == [owner : Owners, deadline : 0..U64Max]

ASSUME BoundsAssumption == U64Max \in Nat /\ MaxClock \in Nat /\ MaxIdem \in Nat

ASSUME InputsAssumption ==
    /\ "attempts" \in Resources
    /\ Budgets \subseteq Ledger
    /\ Deltas \subseteq Ledger
    /\ Authorities \subseteq Authority
    /\ AttemptCaps \subseteq Nat
    /\ Ttls \subseteq Nat

ASSUME NoneAssumption ==
    None \notin Runs \cup Keys \cup Lease \cup Authorities

VARIABLES
    clock,       \* the time operations see
    runs,        \* the runs table
    stages,      \* the stages table
    quarantined, \* artifact rows with quarantined=1
    idem,        \* the idempotency table
    emitted      \* the event rows of the last transaction

vars == <<clock, runs, stages, quarantined, idem, emitted>>

-----------------------------------------------------------------------------
(* Status and state machines *)

RunStatus == {"created", "preflight", "awaiting_authority", "queued", "running",
              "pausing", "paused", "cancelling", "completed", "completed_no_findings",
              "completed_with_unsupported", "failed", "cancelled", "interrupted"}

StageState == {"created", "awaiting_authority", "queued", "running", "pausing",
               "paused", "cancelling", "completed", "failed", "cancelled", "interrupted"}

CleanupState == {"not_required", "pending", "completed", "failed"}

CompletedStatus == {"completed", "completed_no_findings", "completed_with_unsupported"}

run_is_terminal(st) == st \in CompletedStatus \cup {"failed", "cancelled", "interrupted"}

stage_is_terminal(st) == st \in {"cancelled", "completed", "failed", "interrupted"}

run_can_transition(st, next) ==
    \/ st = "created" /\ next \in {"preflight", "queued", "running", "cancelled", "failed"}
    \/ st = "preflight" /\ next \in {"awaiting_authority", "queued", "cancelled", "failed"}
    \/ /\ st \in {"awaiting_authority", "interrupted"}
       /\ next \in {"queued", "cancelled", "failed"}
    \/ st = "queued" /\ next \in {"running", "cancelled", "failed", "interrupted"}
    \/ /\ st = "running"
       /\ next \in {"pausing", "cancelling", "failed", "cancelled", "interrupted"}
                      \cup CompletedStatus
    \/ st = "pausing" /\ next \in {"paused", "cancelling", "failed", "interrupted"}
    \/ st = "paused" /\ next \in {"running", "cancelling", "cancelled", "interrupted"}
    \/ st = "cancelling" /\ next \in {"cancelled", "failed", "interrupted"}

stage_can_transition(st, next) ==
    \/ /\ st = "created"
       /\ next \in {"awaiting_authority", "queued", "cancelled", "failed"}
    \/ st = "awaiting_authority" /\ next \in {"queued", "cancelled", "failed"}
    \/ st = "queued" /\ next \in {"running", "cancelled", "interrupted"}
    \/ /\ st = "running"
       /\ next \in {"pausing", "cancelling", "completed", "failed", "interrupted"}
    \/ st = "pausing" /\ next \in {"paused", "running", "interrupted"}
    \/ st = "paused" /\ next \in {"running", "cancelled"}
    \/ st = "cancelling" /\ next \in {"cancelled", "interrupted"}

-----------------------------------------------------------------------------
(* Authority, budgets, idempotency and events *)

Exists(r) == runs[r].status # "absent"

StagesOf(r) == {s \in Stages : stages[s].run = r}

\* A stage row that ends: its state is terminal and its lease NULL.
Ended(row, st) == [row EXCEPT !.state = st, !.lease = None]

\* A stage row that moves on: the three columns an attempt is made of.
Stepped(row, st, attempt, lease) ==
    [row EXCEPT !.state = st, !.attempt = attempt, !.lease = lease]

\* What can change about an authority after it was approved: it may be revoked, and
\* it expires.
validate_authority(a, revoked) ==
    /\ ~revoked
    /\ a.mode \notin {"apply", "integrate"}
    /\ a.approved <= clock
    /\ a.expires # None => a.expires > clock

\* require_run_action for WriteState.
require_run_action(r) ==
    /\ Exists(r)
    /\ validate_authority(runs[r].authority, runs[r].revoked)

Zero == [x \in Resources |-> 0]

checked_add(counters, delta) == [x \in Resources |-> counters[x] + delta[x]]

\* Mutant: the attempts field is left out of the comparison.
within_skips_attempts(ledger, limit) ==
    \A x \in Resources \ {"attempts"} : ledger[x] <= limit[x] /\ ledger[x] <= U64Max

within(ledger, limit) == \A x \in Resources : ledger[x] <= limit[x] /\ ledger[x] <= U64Max

\* Mutant: only a creation looks its key up.
replay_idempotency_of_creations(op, k) ==
    op = "create_run" /\ \E e \in idem : e.op = op /\ e.key = k

replay_idempotency(op, k) == \E e \in idem : e.op = op /\ e.key = k

\* MaxIdem bounds the operations that are ever called with a key; a call that was made with
\* its key may always be made again.
WithinMaxIdem(op, k) ==
    Cardinality({<<e.op, e.key>> : e \in idem} \cup {<<op, k>>}) <= MaxIdem

\* A keyed request goes on only when its key is unused.
NotReplayed(op, k) == k # None => ~replay_idempotency(op, k) /\ WithinMaxIdem(op, k)

save_idempotency(op, k, r, response) ==
    idem' = IF k = None THEN idem
            ELSE idem \cup {[op |-> op, key |-> k, run |-> r, response |-> response]}

Event(op, k, r, type, subject) ==
    [op |-> op, key |-> k, run |-> r, type |-> type, subject |-> subject]

append_event(op, k, r, type, subject) == emitted' = {Event(op, k, r, type, subject)}

\* The branch of an operation that finds its work already done: a keyed caller still
\* gets its key recorded.
AlreadyDone(op, k, r, response) ==
    /\ k # None
    /\ save_idempotency(op, k, r, response)
    /\ emitted' = {}
    /\ UNCHANGED <<clock, runs, stages, quarantined>>

-----------------------------------------------------------------------------
(* Operations on a run *)

NoRun == [status |-> "absent", cleanup |-> "pending", counters |-> Zero, budgets |-> Zero,
          authority |-> None, revoked |-> FALSE, receipt |-> None, linked |-> {}]

create_run(r, a, b, k) ==
    /\ NotReplayed("create_run", k)
    /\ ~Exists(r)
    /\ validate_authority(a, FALSE)
    /\ within(b, a.budget)
    /\ runs' = [runs EXCEPT ![r] =
         [status |-> "created", cleanup |-> "pending", counters |-> Zero, budgets |-> b,
          authority |-> a, revoked |-> FALSE, receipt |-> None, linked |-> {}]]
    /\ append_event("create_run", k, r, "run.created", r)
    /\ save_idempotency("create_run", k, r, r)
    /\ UNCHANGED <<clock, stages, quarantined>>

transition_run(r, next, k) ==
    /\ NotReplayed("transition_run", k)
    /\ require_run_action(r)
    /\ \/ /\ runs[r].status = next
          /\ AlreadyDone("transition_run", k, r, r)
       \/ /\ runs[r].status # next
          /\ run_can_transition(runs[r].status, next)
          /\ runs' = [runs EXCEPT ![r].status = next]
          /\ append_event("transition_run", k, r, "run.transitioned", r)
          /\ save_idempotency("transition_run", k, r, r)
          /\ UNCHANGED <<clock, stages, quarantined>>

\* No check that the run is still open: spend may be recorded after a terminal status.
record_budget(r, delta, k) ==
    /\ NotReplayed("record_budget", k)
    /\ require_run_action(r)
    /\ within(checked_add(runs[r].counters, delta), runs[r].budgets)
    /\ runs' = [runs EXCEPT ![r].counters = checked_add(runs[r].counters, delta)]
    /\ append_event("record_budget", k, r, "budget.recorded", r)
    /\ save_idempotency("record_budget", k, r, r)
    /\ UNCHANGED <<clock, stages, quarantined>>

\* Mutant: stages that are pausing or paused are taken to be at rest.
cancel_stage_skips_paused(st) ==
    IF st \in {"pausing", "paused"} \/ stage_is_terminal(st) THEN st
    ELSE IF st = "running" THEN "cancelling" ELSE "cancelled"

\* What a cancellation request makes of a stage: only a running one still has to stop.
cancel_stage(st) ==
    IF stage_is_terminal(st) THEN st
    ELSE IF st = "running" THEN "cancelling" ELSE "cancelled"

request_cancel(r, k) ==
    /\ NotReplayed("request_cancel", k)
    /\ Exists(r)
    /\ \/ /\ runs[r].status \in {"cancelled", "cancelling"}
          /\ AlreadyDone("request_cancel", k, r, r)
       \/ /\ ~run_is_terminal(runs[r].status)
          /\ runs[r].status # "cancelling"
          /\ runs' = [runs EXCEPT ![r].revoked = TRUE, ![r].status = "cancelling"]
          /\ stages' = [s \in Stages |->
               IF s \in StagesOf(r) THEN [stages[s] EXCEPT !.state = cancel_stage(@)]
               ELSE stages[s]]
          /\ append_event("request_cancel", k, r, "run.cancelling", r)
          /\ save_idempotency("request_cancel", k, r, r)
          /\ UNCHANGED <<clock, quarantined>>

\* Mutant: a stage that is still cancelling keeps the run from being cancelled.
cancel_gate_terminal_only(r, worker_absence_verified) ==
    /\ runs[r].status = "cancelling"
    /\ worker_absence_verified
    /\ runs[r].cleanup # "pending"
    /\ \A s \in StagesOf(r) : stage_is_terminal(stages[s].state)

cancel_gate(r, worker_absence_verified) ==
    /\ runs[r].status = "cancelling"
    /\ worker_absence_verified
    /\ runs[r].cleanup # "pending"
    /\ \A s \in StagesOf(r) :
         stage_is_terminal(stages[s].state) \/ stages[s].state = "cancelling"

confirm_cancelled(r, worker_absence_verified, k) ==
    /\ NotReplayed("confirm_cancelled", k)
    /\ Exists(r)
    /\ \/ /\ runs[r].status = "cancelled"
          /\ AlreadyDone("confirm_cancelled", k, r, r)
       \/ /\ cancel_gate(r, worker_absence_verified)
          /\ stages' = [s \in Stages |->
               IF s \in StagesOf(r) /\ stages[s].state = "cancelling"
               THEN Ended(stages[s], "cancelled") ELSE stages[s]]
          /\ runs' = [runs EXCEPT ![r].status = "cancelled"]
          /\ append_event("confirm_cancelled", k, r, "run.cancelled", r)
          /\ save_idempotency("confirm_cancelled", k, r, r)
          /\ UNCHANGED <<clock, quarantined>>

\* Cleanup may be reported in any run status; while a run is being cancelled its
\* revoked authority is not asked for.
mark_cleanup(r, state, k) ==
    /\ NotReplayed("mark_cleanup", k)
    /\ Exists(r)
    /\ runs[r].status = "cancelling" \/ require_run_action(r)
    /\ \/ /\ runs[r].cleanup = state
          /\ AlreadyDone("mark_cleanup", k, r, r)
       \/ /\ runs[r].cleanup # state
          /\ runs' = [runs EXCEPT ![r].cleanup = state]
          /\ append_event("mark_cleanup", k, r, "cleanup.updated", r)
          /\ save_idempotency("mark_cleanup", k, r, r)
          /\ UNCHANGED <<clock, stages, quarantined>>

receipt_gate(r) ==
    /\ runs[r].cleanup \in {"completed", "not_required"}
    /\ StagesOf(r) # {}
    /\ \A s \in StagesOf(r) : stage_is_terminal(stages[s].state)
    /\ runs[r].counters["attempts"] # 0
    /\ runs[r].linked \cap quarantined = {}

\* The receipt binds the status, the counters and the linked artifacts of this moment.
complete_run(r, st, k) ==
    /\ NotReplayed("complete_run", k)
    /\ st \in CompletedStatus \cup {"failed"}
    /\ require_run_action(r)
    /\ \/ /\ runs[r].status = st
          /\ runs[r].receipt # None
          /\ AlreadyDone("complete_run", k, r, r)
       \/ /\ run_can_transition(runs[r].status, st)
          /\ receipt_gate(r)
          /\ runs' = [runs EXCEPT ![r].status = st,
               ![r].receipt = [status |-> st, resources |-> runs[r].counters,
                               artifacts |-> runs[r].linked]]
          /\ append_event("complete_run", k, r, "receipt.completed", r)
          /\ save_idempotency("complete_run", k, r, r)
          /\ UNCHANGED <<clock, stages, quarantined>>

\* link_artifact_to_run writes a reference row and no event.
link_artifact_to_run(r, x) ==
    /\ require_run_action(r)
    /\ x \notin runs[r].linked
    /\ runs' = [runs EXCEPT ![r].linked = @ \cup {x}]
    /\ emitted' = {}
    /\ UNCHANGED <<clock, stages, quarantined, idem>>

\* bad is what the scan finds: rows whose file is missing or fails its digest.
reconcile_artifacts(bad) ==
    /\ quarantined' = quarantined \cup bad
    /\ emitted' = {}
    /\ UNCHANGED <<clock, runs, stages, idem>>

-----------------------------------------------------------------------------
(* Operations on a stage *)

NoStage == [run |-> None, state |-> "absent", attempt |-> 0, max |-> 0, lease |-> None]

\* Mutant: a run that has ended is not refused.
accepts_stages_when_closed(r) == require_run_action(r)

accepts_stages(r) == require_run_action(r) /\ ~run_is_terminal(runs[r].status)

add_stage(s, r, cap, k) ==
    /\ NotReplayed("add_stage", k)
    /\ stages[s].state = "absent"
    /\ cap # 0
    /\ accepts_stages(r)
    /\ stages' = [stages EXCEPT ![s] =
         [run |-> r, state |-> "created", attempt |-> 0, max |-> cap, lease |-> None]]
    /\ append_event("add_stage", k, r, "stage.created", s)
    /\ save_idempotency("add_stage", k, r, s)
    /\ UNCHANGED <<clock, runs, quarantined>>

\* Mutant: only a terminal state clears the lease.
lease_after_terminal_only(next, lease) == IF stage_is_terminal(next) THEN None ELSE lease

\* Entering "running" keeps whatever lease the row has; every other state clears it.
lease_after(next, lease) == IF next = "running" THEN lease ELSE None

\* Entering "running" spends an attempt.
transition_stage(s, next, k) ==
    LET st == stages[s]
        spent == IF next = "running" THEN st.attempt + 1 ELSE st.attempt IN
    /\ NotReplayed("transition_stage", k)
    /\ st.state # "absent"
    /\ require_run_action(st.run)
    /\ \/ /\ st.state = next
          /\ AlreadyDone("transition_stage", k, st.run, s)
       \/ /\ st.state # next
          /\ stage_can_transition(st.state, next)
          /\ spent <= st.max
          /\ stages' = [stages EXCEPT ![s] =
               Stepped(st, next, spent, lease_after(next, st.lease))]
          /\ append_event("transition_stage", k, st.run, "stage.transitioned", s)
          /\ save_idempotency("transition_stage", k, st.run, s)
          /\ UNCHANGED <<clock, runs, quarantined>>

\* Mutant: a lease is given up one tick before its deadline.
lease_is_live_until_last_tick(s) ==
    stages[s].lease # None /\ stages[s].lease.deadline > clock + 1

lease_is_live(s) == stages[s].lease # None /\ stages[s].lease.deadline > clock

\* Mutant: the addition is not checked.
deadline_unchecked(ttl) == TRUE

deadline_fits(ttl) == clock + ttl <= U64Max

\* A queued stage, or a running one whose lease has lapsed or is missing, is taken; a
\* live lease answers its owner and refuses everyone else.
acquire_lease(s, owner, ttl, k) ==
    LET st == stages[s] IN
    /\ NotReplayed("acquire_lease", k)
    /\ ttl # 0
    /\ st.state # "absent"
    /\ require_run_action(st.run)
    /\ \/ /\ st.state = "running"
          /\ lease_is_live(s)
          /\ st.lease.owner = owner
          /\ AlreadyDone("acquire_lease", k, st.run, s)
       \/ /\ st.state = "queued" \/ (st.state = "running" /\ ~lease_is_live(s))
          /\ st.attempt + 1 <= st.max
          /\ deadline_fits(ttl)
          /\ stages' = [stages EXCEPT ![s] =
               Stepped(st, "running", st.attempt + 1,
                       [owner |-> owner, deadline |-> clock + ttl])]
          /\ append_event("acquire_lease", k, st.run, "stage.lease_acquired", s)
          /\ save_idempotency("acquire_lease", k, st.run, s)
          /\ UNCHANGED <<clock, runs, quarantined>>

lease_has_expired(s) ==
    /\ stages[s].state = "running"
    /\ stages[s].lease # None
    /\ stages[s].lease.deadline <= clock

\* Mutant: the run is interrupted whatever its status.
status_after_expiry_always(st) == "interrupted"

status_after_expiry(st) == IF st = "running" THEN "interrupted" ELSE st

\* Mutant: one event for the whole transaction.
expiry_events_first_only(expired) ==
    LET s == CHOOSE x \in expired : TRUE IN
    {Event("recover_expired_leases", None, stages[s].run, "stage.lease_expired", s)}

expiry_events(expired) ==
    {Event("recover_expired_leases", None, stages[s].run, "stage.lease_expired", s) :
        s \in expired}

\* Every expired stage is interrupted in one transaction; its run only if it is still
\* running.  No authority is asked for.
recover_expired_leases(worker_absence_verified) ==
    LET expired == {s \in Stages : lease_has_expired(s)} IN
    /\ worker_absence_verified
    /\ expired # {}
    /\ stages' = [s \in Stages |->
         IF s \in expired THEN Ended(stages[s], "interrupted") ELSE stages[s]]
    /\ runs' = [r \in Runs |->
         IF \E s \in expired : stages[s].run = r
         THEN [runs[r] EXCEPT !.status = status_after_expiry(@)] ELSE runs[r]]
    /\ emitted' = expiry_events(expired)
    /\ UNCHANGED <<clock, quarantined, idem>>

-----------------------------------------------------------------------------
(* The specification *)

Init ==
    /\ clock = 0
    /\ runs = [r \in Runs |-> NoRun]
    /\ stages = [s \in Stages |-> NoStage]
    /\ quarantined = {}
    /\ idem = {}
    /\ emitted = {}

Tick ==
    /\ clock < MaxClock
    /\ clock' = clock + 1
    /\ emitted' = {}
    /\ UNCHANGED <<runs, stages, quarantined, idem>>

RunOperation(r, k) ==
    \/ \E a \in Authorities, b \in Budgets : create_run(r, a, b, k)
    \/ \E next \in RunStatus : transition_run(r, next, k)
    \/ \E delta \in Deltas : record_budget(r, delta, k)
    \/ request_cancel(r, k)
    \/ \E verified \in BOOLEAN : confirm_cancelled(r, verified, k)
    \/ \E state \in CleanupState : mark_cleanup(r, state, k)
    \/ \E st \in RunStatus : complete_run(r, st, k)
    \/ \E s \in Stages, cap \in AttemptCaps : add_stage(s, r, cap, k)

StageOperation(s, k) ==
    \/ \E next \in StageState : transition_stage(s, next, k)
    \/ \E owner \in Owners, ttl \in Ttls : acquire_lease(s, owner, ttl, k)

Next ==
    \/ \E r \in Runs, k \in Keys \cup {None} : RunOperation(r, k)
    \/ \E s \in Stages, k \in Keys \cup {None} : StageOperation(s, k)
    \/ \E r \in Runs, x \in Artifacts : link_artifact_to_run(r, x)
    \/ \E bad \in SUBSET Artifacts : reconcile_artifacts(bad)
    \/ \E verified \in BOOLEAN : recover_expired_leases(verified)
    \/ Tick

Spec == Init /\ [][Next]_vars

\* A client that cancels keeps reporting the cleanup and keeps confirming.
CancelDriver(r) ==
    /\ WF_vars(mark_cleanup(r, "completed", None))
    /\ SF_vars(confirm_cancelled(r, TRUE, None))

FairSpec == Spec /\ \A r \in Runs : CancelDriver(r)

-----------------------------------------------------------------------------
(* Properties *)

Receipt == [status : CompletedStatus \cup {"failed"}, resources : Ledger,
            artifacts : SUBSET Artifacts]

RunRow == [status : RunStatus \cup {"absent"}, cleanup : CleanupState, counters : Ledger,
           budgets : Ledger, authority : Authorities \cup {None}, revoked : BOOLEAN,
           receipt : Receipt \cup {None}, linked : SUBSET Artifacts]

StageRow == [run : Runs \cup {None}, state : StageState \cup {"absent"}, attempt : Nat,
             max : Nat, lease : Lease \cup {None}]

Operations == {"create_run", "add_stage", "transition_run", "transition_stage",
               "record_budget", "acquire_lease", "recover_expired_leases", "request_cancel",
               "confirm_cancelled", "mark_cleanup", "complete_run"}

EventTypes == {"run.created", "stage.created", "run.transitioned", "stage.transitioned",
               "budget.recorded", "stage.lease_acquired", "stage.lease_expired",
               "run.cancelling", "run.cancelled", "cleanup.updated", "receipt.completed"}

IdemRow == [op : Operations, key : Keys, run : Runs, response : Runs \cup Stages]

EventRow == [op : Operations, key : Keys \cup {None}, run : Runs, type : EventTypes,
             subject : Runs \cup Stages]

\* The rows are well formed: counters, budgets and deadlines fit a u64, every run has the
\* authority it was created under, and every stage row belongs to a run row.
TypeOK ==
    /\ clock \in Nat
    /\ runs \in [Runs -> RunRow]
    /\ stages \in [Stages -> StageRow]
    /\ quarantined \subseteq Artifacts
    /\ idem \subseteq IdemRow
    /\ emitted \subseteq EventRow
    /\ \A r \in Runs : Exists(r) => runs[r].authority # None
    /\ \A s \in Stages : stages[s].state = "absent" <=> stages[s].run = None
    /\ \A s \in Stages : stages[s].run # None => Exists(stages[s].run)

Below(l, limit) == \A x \in Resources : l[x] <= limit[x]

\* record_budget never lets a run spend more than its budget, nor create_run grant a
\* budget above what the authority approved, whatever the order of the calls; and no
\* stage makes more attempts than it was given (transition_stage, acquire_lease).
SpendWithinApproval ==
    /\ \A r \in Runs : Exists(r) =>
         /\ Below(runs[r].counters, runs[r].budgets)
         /\ Below(runs[r].budgets, runs[r].authority.budget)
    /\ \A s \in Stages : stages[s].attempt <= stages[s].max

\* What a receipt claims stays true after it was issued (complete_run against every
\* later add_stage, transition, recovery, cancellation, link and spend): the run still
\* has the status the receipt names, some stage did run, no stage is or becomes live
\* again, the artifacts it lists are still linked and the resources it states were
\* really spent.
ReceiptSound ==
    \A r \in Runs : LET rc == runs[r].receipt IN
      rc # None =>
        /\ runs[r].status = rc.status
        /\ StagesOf(r) # {}
        /\ \A s \in StagesOf(r) : stage_is_terminal(stages[s].state)
        /\ rc.resources["attempts"] > 0
        /\ Below(rc.resources, runs[r].counters)
        /\ rc.artifacts \subseteq runs[r].linked

\* Once request_cancel has revoked a run's authority the run only winds down: it is
\* cancelling or cancelled, it has no stage that could still start or resume, and when
\* it is cancelled every stage is terminal and holds no lease.
RevokedIsQuiesced ==
    \A r \in Runs : runs[r].revoked =>
      /\ runs[r].status \in {"cancelling", "cancelled"}
      /\ runs[r].receipt = None
      /\ \A s \in StagesOf(r) :
           \/ stage_is_terminal(stages[s].state) /\ stages[s].lease = None
           \/ stages[s].state = "cancelling" /\ runs[r].status = "cancelling"

\* Only a stage that a worker may still be executing carries a lease: running, or, when
\* request_cancel revoked the authority, cancelling until confirm_cancelled clears it.
\* request_cancel moves pausing, paused and queued stages to cancelled without touching
\* the column, so it relies on this.
LeaseDiscipline ==
    \A s \in Stages : stages[s].lease # None =>
      /\ stages[s].state \in {"running", "cancelling"}
      /\ stages[s].attempt > 0
      /\ stages[s].state = "cancelling" => runs[stages[s].run].revoked

\* A step that gives a stage a lease: the old one is over, and the attempt is the next.
LeaseIsFenced ==
    \A s \in Stages :
      stages'[s].lease \notin {None, stages[s].lease} =>
        /\ stages[s].lease = None \/ stages[s].lease.deadline <= clock
        /\ stages'[s].attempt = stages[s].attempt + 1

\* A step takes nothing back: closed rows, receipts, recorded spend and revocation stay.
NothingReopens ==
    /\ \A r \in Runs :
         /\ runs[r].status \in CompletedStatus \cup {"failed", "cancelled"} =>
              runs'[r].status = runs[r].status
         /\ runs[r].receipt # None => runs'[r].receipt = runs[r].receipt
         /\ Below(runs[r].counters, runs'[r].counters)
         /\ runs[r].revoked => runs'[r].revoked
    /\ \A s \in Stages :
         stage_is_terminal(stages[s].state) => stages'[s] = stages[s]

\* A step that changes a row of a run or of a stage appends an event that tells of it.
ChangeHasEvent ==
    /\ \A r \in Runs :
         [runs[r] EXCEPT !.linked = {}] # [runs'[r] EXCEPT !.linked = {}] =>
           \E e \in emitted' : e.run = r
    /\ \A s \in Stages : stages'[s] # stages[s] =>
         \E e \in emitted' : e.run = stages'[s].run /\ e.subject \in {s, e.run}

\* A key takes effect once: an operation that appends an event under a key found the key
\* unused and leaves it used, and used keys are never dropped or answered differently.
KeyTakesEffectOnce ==
    [][/\ idem \subseteq idem'
       /\ \A e \in emitted' : e.key # None =>
            /\ ~\E i \in idem : i.op = e.op /\ i.key = e.key
            /\ Cardinality({i \in idem' : i.op = e.op /\ i.key = e.key}) = 1]_vars

\* A requested cancellation always gets through: with its authority revoked the run
\* still has a way to cancelled (mark_cleanup needs no authority then, and no stage is
\* left in a state that confirm_cancelled refuses), whatever else is called meanwhile.
RequestedCancelCompletes ==
    \A r \in Runs : runs[r].revoked ~> runs[r].status = "cancelled"

\* contracts-v2.md: "`completed` requires performed-work evidence".  A run with a completed
\* status has at least one stage and a recorded attempt.
CompletedHasEvidence ==
    \A r \in Runs : runs[r].status \in CompletedStatus =>
      StagesOf(r) # {} /\ runs[r].counters["attempts"] > 0
=============================================================================
