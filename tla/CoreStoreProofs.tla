--------------------------- MODULE CoreStoreProofs ---------------------------
(***************************************************************************)
(* Invariance of the run store's safety properties for every number of     *)
(* runs, stages, workers and keys.  None of the properties is inductive    *)
(* alone: a receipt stays sound because closed runs take no stages and     *)
(* closed stages no steps; a revoked run stays quiet because only the      *)
(* stages a worker may be executing carry leases.  Their conjunction,      *)
(* Inv, is.  It speaks of one state of the tables, so that every backup    *)
(* has it too and an import brings it back.                                *)
(***************************************************************************)
EXTENDS CoreRestore, FiniteSetTheorems, TLAPS

Inv ==
    /\ TypeOK
    /\ SpendWithinApproval
    /\ ReceiptSound
    /\ RevokedIsQuiesced
    /\ LeaseDiscipline

\* Ending is final in the transition tables: no status a receipt can have, nor
\* cancelled, leads anywhere.
LEMMA ClosedRunsHaveNoNext ==
    ASSUME NEW st \in CompletedStatus \cup {"failed", "cancelled"}, NEW next
    PROVE  ~run_can_transition(st, next)
  BY DEF run_can_transition, CompletedStatus

\* No entry of the stage transition table leads out of a terminal state.
LEMMA ClosedStagesHaveNoNext ==
    ASSUME NEW st, stage_is_terminal(st), NEW next
    PROVE  ~stage_can_transition(st, next)
  BY DEF stage_can_transition, stage_is_terminal

\* Adding a delta that fits keeps a ledger a ledger below its limit.
LEMMA CheckedAdd ==
    ASSUME NEW c \in Ledger, NEW d \in Ledger, NEW limit \in Ledger,
           within(checked_add(c, d), limit)
    PROVE  /\ checked_add(c, d) \in Ledger
           /\ Below(checked_add(c, d), limit)
           /\ Below(c, checked_add(c, d))
  BY BoundsAssumption DEF within, checked_add, Below, Ledger

\* Ended changes the state of a stage row and clears its lease, and nothing else.
LEMMA EndedRow ==
    ASSUME NEW row \in StageRow, NEW st \in StageState
    PROVE  /\ Ended(row, st) \in StageRow
           /\ Ended(row, st).state = st
           /\ Ended(row, st).lease = None
           /\ Ended(row, st).run = row.run
           /\ Ended(row, st).attempt = row.attempt
           /\ Ended(row, st).max = row.max
  BY DEF Ended, StageRow

\* Stepped changes the state, the attempt and the lease of a stage row only.
LEMMA SteppedRow ==
    ASSUME NEW row \in StageRow, NEW st \in StageState, NEW n \in Nat,
           NEW l \in Lease \cup {None}
    PROVE  /\ Stepped(row, st, n, l) \in StageRow
           /\ Stepped(row, st, n, l).run = row.run
           /\ Stepped(row, st, n, l).state = st
           /\ Stepped(row, st, n, l).attempt = n
           /\ Stepped(row, st, n, l).max = row.max
           /\ Stepped(row, st, n, l).lease = l
  BY DEF Stepped, StageRow

\* The empty store satisfies the inductive invariant.
LEMMA InitInv == Init => Inv
<1> SUFFICES ASSUME Init PROVE Inv
  OBVIOUS
<1>1. Zero \in Ledger
  BY BoundsAssumption DEF Zero, Ledger
<1>2. TypeOK
  BY <1>1 DEF Init, TypeOK, NoRun, NoStage, RunRow, StageRow, Exists, RunStatus, StageState, CleanupState
<1>3. SpendWithinApproval
  BY DEF Init, SpendWithinApproval, NoRun, NoStage, Exists
<1>4. ReceiptSound /\ RevokedIsQuiesced /\ LeaseDiscipline
  BY DEF Init, ReceiptSound, RevokedIsQuiesced, LeaseDiscipline, NoRun, NoStage
<1> QED
  BY <1>2, <1>3, <1>4 DEF Inv

-----------------------------------------------------------------------------
(* The branch that finds the work done. *)

\* A step on the quarantine, the idempotency rows or the events alone preserves it.
LEMMA SameRows ==
    ASSUME Inv, UNCHANGED <<clock, runs, stages>>, quarantined' \subseteq Artifacts,
           idem' \subseteq IdemRow, emitted' \subseteq EventRow
    PROVE  Inv'
<1>1. TypeOK'
  BY DEF Inv, TypeOK, Exists
<1> QED
  BY <1>1 DEF Inv, SpendWithinApproval, ReceiptSound, RevokedIsQuiesced, LeaseDiscipline,
     Exists, StagesOf

-----------------------------------------------------------------------------
(* One lemma per operation. *)

\* create_run adds a row without spend, receipt or revocation.
LEMMA CreateRunInv ==
    ASSUME Inv, NEW r \in Runs, NEW a \in Authorities, NEW b \in Budgets,
           NEW k \in Keys \cup {None}, create_run(r, a, b, k)
    PROVE  Inv'
<1>1. /\ b \in Ledger /\ a.budget \in Ledger /\ Zero \in Ledger /\ a # None
      /\ Below(b, a.budget) /\ Below(Zero, b)
  BY BoundsAssumption, InputsAssumption, NoneAssumption
     DEF create_run, within, Below, Ledger, Authority, Zero
<1>2. \A s \in Stages : stages[s].run # r
  BY NoneAssumption DEF Inv, TypeOK, create_run, Exists
<1>3. TypeOK'
  <2>1. emitted' \subseteq EventRow
    BY DEF create_run, append_event, Event, EventRow, Operations, EventTypes
  <2>3. idem' \subseteq IdemRow
    BY DEF Inv, TypeOK, create_run, save_idempotency, IdemRow, Operations
  <2>2. runs' \in [Runs -> RunRow]
    BY <1>1 DEF Inv, TypeOK, create_run, RunRow, RunStatus, CleanupState
  <2> QED
    BY <1>1, <2>1, <2>2, <2>3 DEF Inv, TypeOK, create_run, Exists
<1>4. SpendWithinApproval'
  BY <1>1 DEF Inv, TypeOK, SpendWithinApproval, create_run, Exists
<1>5. ReceiptSound' /\ RevokedIsQuiesced'
  BY <1>2 DEF Inv, TypeOK, ReceiptSound, RevokedIsQuiesced, create_run, StagesOf
<1>6. LeaseDiscipline'
  BY <1>2 DEF Inv, TypeOK, LeaseDiscipline, create_run
<1> QED
  BY <1>3, <1>4, <1>5, <1>6 DEF Inv

\* transition_run needs an authority in force, and leaves no completed status.
LEMMA TransitionRunInv ==
    ASSUME Inv, NEW r \in Runs, NEW next \in RunStatus, NEW k \in Keys \cup {None},
           transition_run(r, next, k)
    PROVE  Inv'
<1>1. emitted' \subseteq EventRow
  BY DEF transition_run, append_event, Event, EventRow, Operations, EventTypes, AlreadyDone
<1>2. idem' \subseteq IdemRow
  BY DEF Inv, TypeOK, transition_run, save_idempotency, IdemRow, Operations, AlreadyDone
<1>3. CASE UNCHANGED runs
  BY <1>1, <1>2, <1>3, SameRows DEF transition_run, AlreadyDone, Inv, TypeOK
<1>4. CASE /\ ~runs[r].revoked /\ runs[r].status # "absent"
           /\ run_can_transition(runs[r].status, next)
           /\ runs' = [runs EXCEPT ![r].status = next]
           /\ UNCHANGED <<clock, stages, quarantined>>
  <2>1. runs[r].receipt = None
    BY <1>4, ClosedRunsHaveNoNext DEF Inv, TypeOK, ReceiptSound, RunRow, Receipt
  <2>2. TypeOK'
    BY <1>1, <1>2, <1>4 DEF Inv, TypeOK, RunRow, Exists, RunStatus
  <2>3. SpendWithinApproval'
    BY <1>4 DEF Inv, TypeOK, SpendWithinApproval, RunRow, Exists
  <2>4. ReceiptSound'
    BY <1>4, <2>1 DEF Inv, TypeOK, ReceiptSound, RunRow, StagesOf
  <2>5. RevokedIsQuiesced' /\ LeaseDiscipline'
    BY <1>4 DEF Inv, TypeOK, RevokedIsQuiesced, LeaseDiscipline, RunRow, StagesOf, StageRow
  <2> QED
    BY <2>2, <2>3, <2>4, <2>5 DEF Inv
<1> QED
  BY <1>3, <1>4 DEF transition_run, require_run_action, validate_authority, Exists, AlreadyDone

\* record_budget checks the very sum that it stores.
LEMMA RecordBudgetInv ==
    ASSUME Inv, NEW r \in Runs, NEW delta \in Deltas, NEW k \in Keys \cup {None},
           record_budget(r, delta, k)
    PROVE  Inv'
<1>1. emitted' \subseteq EventRow
  BY DEF record_budget, append_event, Event, EventRow, Operations, EventTypes, AlreadyDone
<1>2. idem' \subseteq IdemRow
  BY DEF Inv, TypeOK, record_budget, save_idempotency, IdemRow, Operations, AlreadyDone
<1> DEFINE sum == checked_add(runs[r].counters, delta)
<1>3. sum \in Ledger /\ Below(sum, runs[r].budgets) /\ Below(runs[r].counters, sum)
  BY InputsAssumption, CheckedAdd DEF Inv, TypeOK, RunRow, record_budget
<1>4. /\ runs' = [runs EXCEPT ![r].counters = sum]
      /\ UNCHANGED <<clock, stages, quarantined>>
  BY DEF record_budget
<1> HIDE DEF sum
<1>5. TypeOK'
  BY <1>1, <1>2, <1>3, <1>4 DEF Inv, TypeOK, RunRow, Exists
<1>6. SpendWithinApproval'
  BY <1>3, <1>4 DEF Inv, TypeOK, SpendWithinApproval, RunRow, Exists
<1>7. ReceiptSound'
  <2>1. \A l \in Ledger : Below(l, runs[r].counters) => Below(l, sum)
    BY <1>3, BoundsAssumption DEF Inv, TypeOK, RunRow, Below, Ledger
  <2> QED
    BY <1>4, <2>1 DEF Inv, TypeOK, ReceiptSound, RunRow, Receipt, StagesOf
<1>8. RevokedIsQuiesced' /\ LeaseDiscipline'
  BY <1>4 DEF Inv, TypeOK, RevokedIsQuiesced, LeaseDiscipline, RunRow, StagesOf, StageRow
<1> QED
  BY <1>5, <1>6, <1>7, <1>8 DEF Inv

\* mark_cleanup changes the cleanup state only, on which no other row depends.
LEMMA MarkCleanupInv ==
    ASSUME Inv, NEW r \in Runs, NEW state \in CleanupState, NEW k \in Keys \cup {None},
           mark_cleanup(r, state, k)
    PROVE  Inv'
<1>1. emitted' \subseteq EventRow
  BY DEF mark_cleanup, append_event, Event, EventRow, Operations, EventTypes, AlreadyDone
<1>2. idem' \subseteq IdemRow
  BY DEF Inv, TypeOK, mark_cleanup, save_idempotency, IdemRow, Operations, AlreadyDone
<1>3. CASE UNCHANGED runs
  BY <1>1, <1>2, <1>3, SameRows DEF mark_cleanup, AlreadyDone, Inv, TypeOK
<1>4. CASE /\ runs' = [runs EXCEPT ![r].cleanup = state]
           /\ UNCHANGED <<clock, stages, quarantined>>
  <2>1. TypeOK'
    BY <1>1, <1>2, <1>4 DEF Inv, TypeOK, RunRow, Exists
  <2>2. SpendWithinApproval' /\ ReceiptSound'
    BY <1>4 DEF Inv, TypeOK, SpendWithinApproval, ReceiptSound, RunRow, Exists, StagesOf
  <2>3. RevokedIsQuiesced' /\ LeaseDiscipline'
    BY <1>4 DEF Inv, TypeOK, RevokedIsQuiesced, LeaseDiscipline, RunRow, StagesOf, StageRow
  <2> QED
    BY <2>1, <2>2, <2>3 DEF Inv
<1> QED
  BY <1>3, <1>4 DEF mark_cleanup, AlreadyDone

\* link_artifact_to_run only adds to the artifacts a receipt may have bound.
LEMMA LinkArtifactInv ==
    ASSUME Inv, NEW r \in Runs, NEW x \in Artifacts, link_artifact_to_run(r, x)
    PROVE  Inv'
<1>1. TypeOK'
  BY DEF link_artifact_to_run, Inv, TypeOK, RunRow, Exists
<1>2. SpendWithinApproval' /\ ReceiptSound'
  BY DEF link_artifact_to_run, Inv, TypeOK, SpendWithinApproval, ReceiptSound, RunRow, Exists,
     StagesOf
<1>3. RevokedIsQuiesced' /\ LeaseDiscipline'
  BY DEF link_artifact_to_run, Inv, TypeOK, RevokedIsQuiesced, LeaseDiscipline, RunRow,
     StagesOf, StageRow
<1> QED
  BY <1>1, <1>2, <1>3 DEF Inv

\* request_cancel revokes a run and cancels its stages in one transaction.
LEMMA RequestCancelInv ==
    ASSUME Inv, NEW r \in Runs, NEW k \in Keys \cup {None}, request_cancel(r, k)
    PROVE  Inv'
<1>1. emitted' \subseteq EventRow
  BY DEF request_cancel, append_event, Event, EventRow, Operations, EventTypes, AlreadyDone
<1>2. idem' \subseteq IdemRow
  BY DEF Inv, TypeOK, request_cancel, save_idempotency, IdemRow, Operations, AlreadyDone
<1>3. CASE UNCHANGED <<runs, stages>>
  BY <1>1, <1>2, <1>3, SameRows DEF request_cancel, AlreadyDone, Inv, TypeOK
<1>4. CASE /\ ~run_is_terminal(runs[r].status)
           /\ runs[r].status \notin {"cancelling", "absent"}
           /\ runs' = [runs EXCEPT ![r].revoked = TRUE, ![r].status = "cancelling"]
           /\ stages' = [s \in Stages |->
                IF s \in StagesOf(r) THEN [stages[s] EXCEPT !.state = cancel_stage(@)]
                ELSE stages[s]]
           /\ UNCHANGED <<clock, quarantined>>
  <2>1. runs[r].receipt = None
    BY <1>4 DEF Inv, TypeOK, ReceiptSound, RunRow, Receipt, run_is_terminal
  <2>2. ~runs[r].revoked
    BY <1>4 DEF Inv, RevokedIsQuiesced, run_is_terminal
  \* A stage of the run that is not running holds no lease.
  <2>3. \A s \in StagesOf(r) :
          stages[s].lease # None => stages[s].state = "running"
    BY <2>2 DEF Inv, LeaseDiscipline, StagesOf
  <2>4. \A s \in Stages : /\ stages'[s].run = stages[s].run
                          /\ stages'[s].lease = stages[s].lease
                          /\ stages'[s].attempt = stages[s].attempt
                          /\ stages'[s].max = stages[s].max
                          /\ s \notin StagesOf(r) => stages'[s] = stages[s]
                          /\ s \in StagesOf(r) =>
                               stages'[s].state = cancel_stage(stages[s].state)
    BY <1>4 DEF Inv, TypeOK, StageRow
  <2>5. \A st \in StageState : cancel_stage(st) \in StageState
    BY DEF cancel_stage, StageState
  <2>6. TypeOK'
    <3>1. runs' \in [Runs -> RunRow] /\ \A q \in Runs : runs'[q].authority = runs[q].authority
      BY <1>4 DEF Inv, TypeOK, RunRow, RunStatus
    <3>2. \A s \in StagesOf(r) : stages[s].state # "absent"
      BY NoneAssumption DEF Inv, TypeOK, StagesOf
    <3>3. stages' \in [Stages -> StageRow]
      BY <1>4, <2>5, <3>2 DEF Inv, TypeOK, StageRow, StagesOf
    <3>4. \A s \in Stages : stages'[s].state = "absent" <=> stages'[s].run = None
      BY <2>4, <2>5, <3>2, NoneAssumption DEF Inv, TypeOK, StageRow, StagesOf, StageState
    <3>5. \A q \in Runs : runs'[q].status = "absent" <=> runs[q].status = "absent"
      BY <1>4 DEF Inv, TypeOK, RunRow
    <3> QED
      BY <1>1, <1>2, <1>4, <2>4, <3>1, <3>3, <3>4, <3>5 DEF Inv, TypeOK, Exists, StageRow
  <2>7. SpendWithinApproval'
    BY <1>4, <2>4 DEF Inv, TypeOK, SpendWithinApproval, RunRow, Exists
  <2>8. ReceiptSound'
    BY <1>4, <2>1, <2>4 DEF Inv, TypeOK, ReceiptSound, RunRow, StagesOf
  <2>9. RevokedIsQuiesced'
    <3>1. \A s \in StagesOf(r) :
             \/ stage_is_terminal(stages'[s].state) /\ stages'[s].lease = None
             \/ stages'[s].state = "cancelling"
      BY <2>3, <2>4 DEF cancel_stage, stage_is_terminal, StagesOf
    <3> QED
      BY <1>4, <2>1, <2>4, <3>1 DEF Inv, TypeOK, RevokedIsQuiesced, RunRow, StagesOf
  <2>10. LeaseDiscipline'
    BY <1>4, <2>3, <2>4 DEF Inv, TypeOK, LeaseDiscipline, RunRow, StagesOf, StageRow,
       cancel_stage, stage_is_terminal
  <2> QED
    BY <2>6, <2>7, <2>8, <2>9, <2>10 DEF Inv
<1> QED
  BY <1>3, <1>4 DEF request_cancel, AlreadyDone, Exists

\* confirm_cancelled ends a revoked run and the last stages that were stopping.
LEMMA ConfirmCancelledInv ==
    ASSUME Inv, NEW r \in Runs, NEW verified, NEW k \in Keys \cup {None},
           confirm_cancelled(r, verified, k)
    PROVE  Inv'
<1>1. emitted' \subseteq EventRow
  BY DEF confirm_cancelled, append_event, Event, EventRow, Operations, EventTypes, AlreadyDone
<1>2. idem' \subseteq IdemRow
  BY DEF Inv, TypeOK, confirm_cancelled, save_idempotency, IdemRow, Operations, AlreadyDone
<1>3. CASE UNCHANGED <<runs, stages>>
  BY <1>1, <1>2, <1>3, SameRows DEF confirm_cancelled, AlreadyDone, Inv, TypeOK
<1>4. CASE /\ cancel_gate(r, verified)
           /\ stages' = [s \in Stages |->
                IF s \in StagesOf(r) /\ stages[s].state = "cancelling"
                THEN Ended(stages[s], "cancelled") ELSE stages[s]]
           /\ runs' = [runs EXCEPT ![r].status = "cancelled"]
           /\ UNCHANGED <<clock, quarantined>>
  <2>1. runs[r].status = "cancelling" /\ runs[r].receipt = None
    BY <1>4 DEF Inv, TypeOK, ReceiptSound, RunRow, Receipt, cancel_gate, CompletedStatus
  <2>2. \A s \in Stages :
          /\ stages'[s].run = stages[s].run
          /\ stages'[s].attempt = stages[s].attempt
          /\ stages'[s].max = stages[s].max
          /\ stages'[s] = stages[s]
             \/ (stages'[s].state = "cancelled" /\ stages'[s].lease = None
                   /\ stages[s].state = "cancelling" /\ s \in StagesOf(r))
    BY <1>4, EndedRow DEF Inv, TypeOK, StageState
  <2>3. TypeOK'
    <3>1. runs' \in [Runs -> RunRow] /\ stages' \in [Stages -> StageRow]
      <4>1. runs' \in [Runs -> RunRow]
        BY <1>4 DEF Inv, TypeOK, RunRow, RunStatus
      <4>2. \A s \in Stages : stages[s] \in StageRow /\ Ended(stages[s], "cancelled") \in StageRow
        BY EndedRow DEF Inv, TypeOK, StageState
      <4> QED
        BY <1>4, <4>1, <4>2
    <3>2. \A q \in Runs : /\ runs'[q].status = "absent" <=> runs[q].status = "absent"
                          /\ runs'[q].authority = runs[q].authority
      BY <1>4, <2>1 DEF Inv, TypeOK, RunRow
    <3> QED
      BY <1>1, <1>2, <1>4, <2>2, <3>1, <3>2 DEF Inv, TypeOK, Exists, StageRow
  <2>4. SpendWithinApproval'
    BY <1>4, <2>1, <2>2 DEF Inv, TypeOK, SpendWithinApproval, RunRow, Exists
  <2>5. ReceiptSound'
    <3>1. \A q \in Runs : /\ StagesOf(q)' = StagesOf(q)
                          /\ runs'[q].receipt # None => q # r /\ runs'[q] = runs[q]
      BY <1>4, <2>1, <2>2 DEF Inv, TypeOK, RunRow, StagesOf
    <3>2. \A s \in Stages : stage_is_terminal(stages[s].state) =>
                               stage_is_terminal(stages'[s].state)
      BY <2>2 DEF stage_is_terminal
    <3> QED
      BY <3>1, <3>2 DEF Inv, ReceiptSound, StagesOf
  <2>6. RevokedIsQuiesced'
    <3>1. \A s \in StagesOf(r) : stages'[s].state # "cancelling"
      BY <1>4, EndedRow DEF Inv, TypeOK, StageState, StagesOf
    <3> QED
      BY <1>4, <2>1, <2>2, <3>1 DEF Inv, TypeOK, RevokedIsQuiesced, RunRow, StagesOf,
         stage_is_terminal
  <2>7. LeaseDiscipline'
    BY <1>4, <2>2 DEF Inv, TypeOK, LeaseDiscipline, RunRow, StageRow
  <2> QED
    BY <2>3, <2>4, <2>5, <2>6, <2>7 DEF Inv
<1> QED
  BY <1>3, <1>4 DEF confirm_cancelled, AlreadyDone

\* complete_run writes a receipt of what its gate has just found in the rows.
LEMMA CompleteRunInv ==
    ASSUME Inv, NEW r \in Runs, NEW st \in RunStatus, NEW k \in Keys \cup {None},
           complete_run(r, st, k)
    PROVE  Inv'
<1>1. emitted' \subseteq EventRow
  BY DEF complete_run, append_event, Event, EventRow, Operations, EventTypes, AlreadyDone
<1>2. idem' \subseteq IdemRow
  BY DEF Inv, TypeOK, complete_run, save_idempotency, IdemRow, Operations, AlreadyDone
<1>3. CASE UNCHANGED runs
  BY <1>1, <1>2, <1>3, SameRows DEF complete_run, AlreadyDone, Inv, TypeOK
<1> DEFINE rc == [status |-> st, resources |-> runs[r].counters,
                  artifacts |-> runs[r].linked]
<1>4. CASE /\ ~runs[r].revoked /\ runs[r].status # "absent"
           /\ receipt_gate(r)
           /\ runs' = [runs EXCEPT ![r].status = st, ![r].receipt = rc]
           /\ UNCHANGED <<clock, stages, quarantined>>
  <2>1. st \in CompletedStatus \cup {"failed"}
    BY DEF complete_run
  <2>2. /\ rc \in Receipt /\ rc.status = st /\ Below(rc.resources, runs[r].counters)
        /\ rc.artifacts = runs[r].linked /\ rc.resources["attempts"] > 0
    BY <1>4, <2>1, InputsAssumption, BoundsAssumption
       DEF Inv, TypeOK, RunRow, Receipt, Below, Ledger, receipt_gate
  <2> HIDE DEF rc
  <2>3. TypeOK'
    <3>3. [runs[r] EXCEPT !.status = st, !.receipt = rc] \in RunRow
      <4>1. runs[r] \in RunRow
        BY DEF Inv, TypeOK
      <4> QED
        BY <2>2, <4>1 DEF RunRow
    <3>4. runs' = [runs EXCEPT ![r] = [runs[r] EXCEPT !.status = st, !.receipt = rc]]
      BY <1>4 DEF Inv, TypeOK, RunRow
    <3>1. runs' \in [Runs -> RunRow]
      BY <3>3, <3>4 DEF Inv, TypeOK
    <3>2. \A q \in Runs : /\ runs'[q].status = "absent" <=> runs[q].status = "absent"
                          /\ runs'[q].authority = runs[q].authority
      BY <1>4 DEF Inv, TypeOK, RunRow, RunStatus
    <3> QED
      BY <1>1, <1>2, <1>4, <3>1, <3>2 DEF Inv, TypeOK, Exists, StageRow
  <2>4. SpendWithinApproval'
    BY <1>4 DEF Inv, TypeOK, SpendWithinApproval, RunRow, Exists
  <2>5. ReceiptSound'
    BY <1>4, <2>2 DEF Inv, TypeOK, ReceiptSound, RunRow, StagesOf, receipt_gate
  <2>6. RevokedIsQuiesced' /\ LeaseDiscipline'
    BY <1>4 DEF Inv, TypeOK, RevokedIsQuiesced, LeaseDiscipline, RunRow, StagesOf, StageRow
  <2> QED
    BY <2>3, <2>4, <2>5, <2>6 DEF Inv
<1> QED
  BY <1>3, <1>4 DEF complete_run, require_run_action, validate_authority, Exists, AlreadyDone

\* add_stage refuses ended and revoked runs, so neither gains a stage.
LEMMA AddStageInv ==
    ASSUME Inv, NEW s \in Stages, NEW r \in Runs, NEW cap \in AttemptCaps,
           NEW k \in Keys \cup {None}, add_stage(s, r, cap, k)
    PROVE  Inv'
<1>1. emitted' \subseteq EventRow
  BY DEF Inv, TypeOK, StageRow, add_stage, append_event, Event, EventRow, Operations, EventTypes,
     AlreadyDone
<1>2. idem' \subseteq IdemRow
  BY DEF Inv, TypeOK, StageRow, add_stage, save_idempotency, IdemRow, Operations, AlreadyDone
<1> DEFINE row == [run |-> r, state |-> "created", attempt |-> 0, max |-> cap, lease |-> None]
<1>3. /\ stages[s].state = "absent" /\ runs[r].status # "absent" /\ ~runs[r].revoked
      /\ ~run_is_terminal(runs[r].status)
      /\ stages' = [stages EXCEPT ![s] = row]
      /\ UNCHANGED <<clock, runs, quarantined>>
  BY DEF add_stage, accepts_stages, require_run_action, validate_authority, Exists
<1>4. row \in StageRow /\ r # None /\ cap \in Nat
  BY InputsAssumption, NoneAssumption DEF StageRow, StageState
<1>5. TypeOK'
  BY <1>1, <1>2, <1>3, <1>4 DEF Inv, TypeOK, Exists
<1>6. SpendWithinApproval'
  BY <1>3, <1>4 DEF Inv, TypeOK, SpendWithinApproval, Exists
<1>7. runs[r].receipt = None
  BY <1>3 DEF Inv, TypeOK, ReceiptSound, RunRow, Receipt, run_is_terminal
<1>8. \A q \in Runs \ {r} : StagesOf(q)' = StagesOf(q) /\ s \notin StagesOf(q)
  BY <1>3, NoneAssumption DEF Inv, TypeOK, StagesOf
<1>9. ReceiptSound'
  BY <1>3, <1>7, <1>8 DEF Inv, TypeOK, ReceiptSound, StagesOf
<1>10. RevokedIsQuiesced'
  BY <1>3, <1>8 DEF Inv, TypeOK, RevokedIsQuiesced, StagesOf
<1>11. LeaseDiscipline'
  BY <1>3 DEF Inv, TypeOK, LeaseDiscipline
<1> QED
  BY <1>5, <1>6, <1>9, <1>10, <1>11 DEF Inv

\* What a step that only rewrites the state, attempt and lease of one stage needs: the
\* stage was open, its run's authority in force, and the new row keeps the discipline.
LEMMA OneStageInv ==
    ASSUME Inv, NEW s \in Stages, NEW row \in StageRow,
           UNCHANGED <<clock, runs, quarantined>>,
           idem' \subseteq IdemRow, emitted' \subseteq EventRow,
           stages' = [stages EXCEPT ![s] = row],
           stages[s].state # "absent", ~stage_is_terminal(stages[s].state),
           ~runs[stages[s].run].revoked,
           row.run = stages[s].run, row.state # "absent", row.attempt <= row.max,
           row.lease # None => row.state = "running" /\ row.attempt > 0
    PROVE  Inv'
<1>1. TypeOK'
  BY DEF Inv, TypeOK, Exists
<1>2. SpendWithinApproval'
  BY DEF Inv, TypeOK, SpendWithinApproval, Exists
<1>3. \A q \in Runs : StagesOf(q)' = StagesOf(q)
  BY DEF Inv, TypeOK, StagesOf
<1>4. ReceiptSound'
  BY <1>3 DEF Inv, TypeOK, ReceiptSound, StagesOf
<1>5. RevokedIsQuiesced'
  BY <1>3 DEF Inv, TypeOK, RevokedIsQuiesced, StagesOf
<1>6. LeaseDiscipline'
  BY DEF Inv, TypeOK, LeaseDiscipline
<1> QED
  BY <1>1, <1>2, <1>4, <1>5, <1>6 DEF Inv

\* transition_stage spends an attempt below the cap and clears the lease it must.
LEMMA TransitionStageInv ==
    ASSUME Inv, NEW s \in Stages, NEW next \in StageState, NEW k \in Keys \cup {None},
           transition_stage(s, next, k)
    PROVE  Inv'
<1>0. stages[s].run \in Runs
  BY DEF Inv, TypeOK, StageRow, transition_stage
<1>1. emitted' \subseteq EventRow
  BY <1>0 DEF transition_stage, append_event, Event, EventRow, Operations, EventTypes, AlreadyDone
<1>2. idem' \subseteq IdemRow
  BY <1>0 DEF Inv, TypeOK, transition_stage, save_idempotency, IdemRow, Operations, AlreadyDone
<1>3. CASE UNCHANGED stages
  BY <1>1, <1>2, <1>3, SameRows DEF transition_stage, AlreadyDone, Inv, TypeOK
<1> DEFINE spent == IF next = "running" THEN stages[s].attempt + 1 ELSE stages[s].attempt
           row == Stepped(stages[s], next, spent, lease_after(next, stages[s].lease))
<1>4. CASE /\ ~runs[stages[s].run].revoked
           /\ stages[s].state # "absent"
           /\ stage_can_transition(stages[s].state, next)
           /\ spent <= stages[s].max
           /\ stages' = [stages EXCEPT ![s] = row]
           /\ UNCHANGED <<clock, runs, quarantined>>
  <2>1. ~stage_is_terminal(stages[s].state)
    BY <1>4, ClosedStagesHaveNoNext
  <2>2. stages[s] \in StageRow
    BY DEF Inv, TypeOK
  <2>3. /\ spent \in Nat
        /\ lease_after(next, stages[s].lease) \in Lease \cup {None}
        /\ lease_after(next, stages[s].lease) # None => next = "running" /\ spent > 0
    BY <2>2 DEF lease_after, StageRow
  <2>4. /\ row \in StageRow /\ row.run = stages[s].run /\ row.state = next
        /\ row.attempt = spent /\ row.max = stages[s].max
        /\ row.lease = lease_after(next, stages[s].lease)
    BY <2>2, <2>3, SteppedRow
  <2>5. next # "absent"
    BY DEF StageState
  <2> HIDE DEF row, spent
  <2> QED
    BY <1>1, <1>2, <1>4, <2>1, <2>3, <2>4, <2>5, OneStageInv
<1> QED
  BY <1>3, <1>4 DEF transition_stage, require_run_action, validate_authority, AlreadyDone

\* acquire_lease spends an attempt below the cap and leases a running stage.
LEMMA AcquireLeaseInv ==
    ASSUME Inv, NEW s \in Stages, NEW owner \in Owners, NEW ttl \in Ttls,
           NEW k \in Keys \cup {None}, acquire_lease(s, owner, ttl, k)
    PROVE  Inv'
<1>0. stages[s].run \in Runs
  BY DEF Inv, TypeOK, StageRow, acquire_lease
<1>1. emitted' \subseteq EventRow
  BY <1>0 DEF acquire_lease, append_event, Event, EventRow, Operations, EventTypes, AlreadyDone
<1>2. idem' \subseteq IdemRow
  BY <1>0 DEF Inv, TypeOK, acquire_lease, save_idempotency, IdemRow, Operations, AlreadyDone
<1>3. CASE UNCHANGED stages
  BY <1>1, <1>2, <1>3, SameRows DEF acquire_lease, AlreadyDone, Inv, TypeOK
<1> DEFINE lease == [owner |-> owner, deadline |-> clock + ttl]
           row == Stepped(stages[s], "running", stages[s].attempt + 1, lease)
<1>4. CASE /\ ~runs[stages[s].run].revoked
           /\ stages[s].state \in {"queued", "running"}
           /\ stages[s].attempt + 1 <= stages[s].max
           /\ clock + ttl <= U64Max
           /\ stages' = [stages EXCEPT ![s] = row]
           /\ UNCHANGED <<clock, runs, quarantined>>
  <2>1. /\ stages[s] \in StageRow /\ stages[s].attempt \in Nat
        /\ stages[s].attempt + 1 \in Nat /\ stages[s].attempt + 1 > 0
    BY DEF Inv, TypeOK, StageRow
  <2>2. lease \in Lease
    BY <1>4, BoundsAssumption, InputsAssumption DEF Inv, TypeOK, Lease
  <2> HIDE DEF lease
  <2>3. /\ row \in StageRow /\ row.run = stages[s].run /\ row.state = "running"
        /\ row.attempt = stages[s].attempt + 1 /\ row.max = stages[s].max
    <3>1. "running" \in StageState /\ lease \in Lease \cup {None}
      BY <2>2 DEF StageState
    <3> QED
      BY <2>1, <3>1, SteppedRow
  <2>5. row.attempt <= row.max /\ row.attempt > 0
    BY <1>4, <2>1, <2>3
  <2>4. ~stage_is_terminal(stages[s].state) /\ stages[s].state # "absent"
    BY <1>4 DEF stage_is_terminal
  <2> HIDE DEF row
  <2> QED
    BY <1>1, <1>2, <1>4, <2>3, <2>4, <2>5, OneStageInv
<1> QED
  BY <1>3, <1>4 DEF acquire_lease, require_run_action, validate_authority, AlreadyDone,
     deadline_fits

\* recover_expired_leases interrupts stages that were running, so no receipt covers them.
LEMMA RecoverInv ==
    ASSUME Inv, NEW verified, recover_expired_leases(verified)
    PROVE  Inv'
<1> DEFINE expired == {s \in Stages : lease_has_expired(s)}
<1>1. /\ stages' = [s \in Stages |->
           IF s \in expired THEN Ended(stages[s], "interrupted") ELSE stages[s]]
      /\ runs' = [r \in Runs |->
           IF \E s \in expired : stages[s].run = r
           THEN [runs[r] EXCEPT !.status = status_after_expiry(@)] ELSE runs[r]]
      /\ emitted' = expiry_events(expired)
      /\ UNCHANGED <<clock, quarantined, idem>>
  BY DEF recover_expired_leases
<1>2. \A s \in expired : stages[s].state = "running" /\ stages[s].run \in Runs
  BY DEF lease_has_expired, Inv, TypeOK, StageRow
<1> HIDE DEF expired
<1>3. \A s \in Stages :
        /\ stages'[s] \in StageRow
        /\ stages'[s].run = stages[s].run
        /\ stages'[s].attempt = stages[s].attempt
        /\ stages'[s].max = stages[s].max
        /\ \/ s \notin expired /\ stages'[s] = stages[s]
           \/ /\ s \in expired
              /\ stages[s].state = "running"
              /\ stages'[s].state = "interrupted"
              /\ stages'[s].lease = None
  BY <1>1, <1>2, EndedRow DEF Inv, TypeOK, StageState
<1>4. \A r \in Runs :
        /\ runs'[r] \in RunRow
        /\ runs'[r] = runs[r]
           \/ (runs'[r].status = "interrupted" /\ runs[r].status = "running")
        /\ runs'[r].authority = runs[r].authority
        /\ runs'[r].counters = runs[r].counters
        /\ runs'[r].budgets = runs[r].budgets
        /\ runs'[r].receipt = runs[r].receipt
        /\ runs'[r].revoked = runs[r].revoked
        /\ runs'[r].linked = runs[r].linked
  BY <1>1 DEF Inv, TypeOK, RunRow, RunStatus, status_after_expiry
<1>5. \A r \in Runs : StagesOf(r)' = StagesOf(r)
  BY <1>3 DEF StagesOf
<1>6. TypeOK'
  <2>1. emitted' \subseteq EventRow
    <3>1. \A s \in expired : s \in Stages
      BY DEF expired
    <3> QED
      BY <1>1, <1>2, <3>1 DEF expiry_events, Event, EventRow, Operations, EventTypes
  <2>2. runs' \in [Runs -> RunRow] /\ stages' \in [Stages -> StageRow]
    BY <1>1, <1>3, <1>4
  <2>3. \A r \in Runs : runs'[r].status = "absent" <=> runs[r].status = "absent"
    BY <1>4
  <2>4. \A s \in Stages : stages'[s].state = "absent" <=> stages[s].state = "absent"
    BY <1>3
  <2>5. \A s \in Stages : stages[s].run \in Runs \cup {None}
    BY DEF Inv, TypeOK, StageRow
  <2> QED
    BY <1>1, <1>3, <1>4, <2>1, <2>2, <2>3, <2>4, <2>5 DEF Inv, TypeOK, Exists
<1>7. SpendWithinApproval'
  BY <1>3, <1>4 DEF Inv, SpendWithinApproval, Exists
<1>8. ReceiptSound'
  <2>1. \A r \in Runs : runs[r].receipt # None => runs'[r].status = runs[r].status
    BY <1>4 DEF Inv, TypeOK, ReceiptSound, RunRow, Receipt, CompletedStatus
  <2>2. \A s \in Stages : stage_is_terminal(stages[s].state) => stages'[s] = stages[s]
    BY <1>3 DEF stage_is_terminal
  <2> QED
    BY <1>4, <1>5, <2>1, <2>2 DEF Inv, ReceiptSound, StagesOf
<1>9. RevokedIsQuiesced'
  <2>1. \A r \in Runs : runs[r].revoked => runs'[r].status = runs[r].status
    BY <1>4 DEF Inv, RevokedIsQuiesced
  <2>2. \A r \in Runs : runs[r].revoked => \A s \in StagesOf(r) : stages'[s] = stages[s]
    BY <1>3 DEF Inv, RevokedIsQuiesced, StagesOf, stage_is_terminal
  <2> QED
    BY <1>4, <1>5, <2>1, <2>2 DEF Inv, RevokedIsQuiesced
<1>10. LeaseDiscipline'
  BY <1>3, <1>4 DEF Inv, TypeOK, LeaseDiscipline, StageRow
<1> QED
  BY <1>6, <1>7, <1>8, <1>9, <1>10 DEF Inv

\* Every step, and every stutter, preserves the inductive invariant.
LEMMA NextInv == Inv /\ [Next]_vars => Inv'
<1> SUFFICES ASSUME Inv, [Next]_vars PROVE Inv'
  OBVIOUS
<1>1. ASSUME NEW r \in Runs, NEW k \in Keys \cup {None}, RunOperation(r, k) PROVE Inv'
  BY <1>1, CreateRunInv, TransitionRunInv, RecordBudgetInv, RequestCancelInv,
     ConfirmCancelledInv, MarkCleanupInv, CompleteRunInv, AddStageInv DEF RunOperation
<1>2. ASSUME NEW s \in Stages, NEW k \in Keys \cup {None}, StageOperation(s, k) PROVE Inv'
  BY <1>2, TransitionStageInv, AcquireLeaseInv DEF StageOperation
<1>3. ASSUME NEW r \in Runs, NEW x \in Artifacts, link_artifact_to_run(r, x) PROVE Inv'
  BY <1>3, LinkArtifactInv
<1>4. ASSUME NEW bad \in SUBSET Artifacts, reconcile_artifacts(bad) PROVE Inv'
  BY <1>4, SameRows DEF reconcile_artifacts, Inv, TypeOK
<1>5. ASSUME NEW verified \in BOOLEAN, recover_expired_leases(verified) PROVE Inv'
  BY <1>5, RecoverInv
<1>6. CASE Tick
  <2>1. TypeOK'
    BY <1>6 DEF Tick, Inv, TypeOK, Exists
  <2> QED
    BY <1>6, <2>1 DEF Tick, Inv, SpendWithinApproval, ReceiptSound, RevokedIsQuiesced,
       LeaseDiscipline, Exists, StagesOf
<1>7. CASE UNCHANGED vars
  BY <1>7, SameRows DEF vars, Inv, TypeOK
<1> QED
  BY <1>1, <1>2, <1>3, <1>4, <1>5, <1>6, <1>7 DEF Next

-----------------------------------------------------------------------------
(* What a step may never do *)

\* What AttemptFencesLease says of one stage.
Fenced(s) ==
    stages'[s].lease \notin {None, stages[s].lease} =>
      /\ stages[s].lease = None \/ stages[s].lease.deadline <= clock
      /\ stages'[s].attempt = stages[s].attempt + 1

\* A run that was not created has spent nothing.
Fresh == \A r \in Runs : runs[r].status = "absent" => runs[r].counters = Zero

\* What ClosedStaysClosed says of one run, and that no step makes a row absent.
RunStays(r) ==
    /\ runs'[r].status = "absent" =>
         runs[r].status = "absent" /\ runs'[r].counters = runs[r].counters
    /\ runs[r].status \in CompletedStatus \cup {"failed", "cancelled"} =>
         runs'[r].status = runs[r].status
    /\ runs[r].receipt # None => runs'[r].receipt = runs[r].receipt
    /\ Below(runs[r].counters, runs'[r].counters)
    /\ runs[r].revoked => runs'[r].revoked

\* What ClosedStaysClosed says of one stage.
StageStays(s) == stage_is_terminal(stages[s].state) => stages'[s] = stages[s]

Steady ==
    /\ \A r \in Runs : RunStays(r)
    /\ \A s \in Stages : StageStays(s) /\ Fenced(s)

\* A run row that does not change stays as it is.
LEMMA SameRunStays ==
    ASSUME Inv, NEW r \in Runs, runs'[r] = runs[r]
    PROVE  RunStays(r)
  BY BoundsAssumption DEF Inv, TypeOK, RunRow, Ledger, RunStays, Below

\* The same for a stage row.
LEMMA SameStageStays ==
    ASSUME NEW s \in Stages, stages'[s] = stages[s]
    PROVE  StageStays(s) /\ Fenced(s)
  BY DEF StageStays, Fenced

\* A step that changes neither table is steady.
LEMMA SameRowsStay ==
    ASSUME Inv, UNCHANGED <<runs, stages>>
    PROVE  Steady
  BY SameRunStays, SameStageStays DEF Steady

\* A step that changes one run row: the others need no argument, nor do the stages.
LEMMA OneRunStays ==
    ASSUME Inv, NEW r \in Runs, NEW row, runs' = [runs EXCEPT ![r] = row],
           UNCHANGED stages, RunStays(r)
    PROVE  Steady
<1>1. \A q \in Runs : q # r => runs'[q] = runs[q]
  BY DEF Inv, TypeOK
<1> QED
  BY <1>1, SameRunStays, SameStageStays DEF Steady

\* The same for a step that changes one stage row.
LEMMA OneStageStays ==
    ASSUME Inv, NEW s \in Stages, NEW row, stages' = [stages EXCEPT ![s] = row],
           UNCHANGED runs, StageStays(s), Fenced(s)
    PROVE  Steady
<1>1. \A t \in Stages : t # s => stages'[t] = stages[t]
  BY DEF Inv, TypeOK
<1> QED
  BY <1>1, SameRunStays, SameStageStays DEF Steady

\* The operations of a run that change its own row only.
LEMMA RunRowSteady ==
    ASSUME Inv, Fresh, NEW r \in Runs, NEW k,
           \/ \E a \in Authorities, b \in Budgets : create_run(r, a, b, k)
           \/ \E next \in RunStatus : transition_run(r, next, k)
           \/ \E delta \in Deltas : record_budget(r, delta, k)
           \/ \E state \in CleanupState : mark_cleanup(r, state, k)
           \/ \E st \in RunStatus : complete_run(r, st, k)
           \/ \E x \in Artifacts : link_artifact_to_run(r, x)
    PROVE  Steady
<1>1. /\ runs[r] \in RunRow /\ runs \in [Runs -> RunRow]
      /\ Below(runs[r].counters, runs[r].counters)
  BY BoundsAssumption DEF Inv, TypeOK, RunRow, Ledger, Below
<1>2. CASE UNCHANGED <<runs, stages>>
  BY <1>2, SameRowsStay
<1>3. ASSUME NEW a \in Authorities, NEW b \in Budgets, create_run(r, a, b, k) PROVE Steady
  <2> DEFINE row == [status |-> "created", cleanup |-> "pending", counters |-> Zero,
                     budgets |-> b, authority |-> a, revoked |-> FALSE, receipt |-> None,
                     linked |-> {}]
  <2>1. /\ runs[r].status = "absent" /\ runs' = [runs EXCEPT ![r] = row]
        /\ UNCHANGED stages
    BY <1>3 DEF create_run, Exists
  <2>2. runs[r].counters = Zero
    BY <2>1 DEF Fresh
  <2>3. runs[r].receipt = None
    BY <1>1, <2>1 DEF Inv, ReceiptSound, RunRow, Receipt, CompletedStatus
  <2>4. ~runs[r].revoked
    BY <2>1 DEF Inv, RevokedIsQuiesced
  <2>5. runs'[r].counters = Zero /\ runs'[r].status = "created"
    BY <1>1, <2>1
  <2> HIDE DEF row
  <2>6. RunStays(r)
    BY <1>1, <2>1, <2>2, <2>3, <2>4, <2>5 DEF RunStays, CompletedStatus
  <2> QED
    BY <2>1, <2>6, OneRunStays
<1>4. ASSUME NEW next \in RunStatus, transition_run(r, next, k), ~UNCHANGED <<runs, stages>>
      PROVE  Steady
  <2>1. /\ run_can_transition(runs[r].status, next)
        /\ runs' = [runs EXCEPT ![r] = [runs[r] EXCEPT !.status = next]]
        /\ UNCHANGED stages
        /\ next # "absent"
    BY <1>4 DEF transition_run, AlreadyDone, RunStatus
  <2>2. runs[r].status \notin CompletedStatus \cup {"failed", "cancelled"}
    BY <2>1, ClosedRunsHaveNoNext
  <2> QED
    BY <1>1, <2>1, <2>2, OneRunStays DEF RunStays, RunRow
<1>5. ASSUME NEW delta \in Deltas, record_budget(r, delta, k) PROVE Steady
  <2>1. /\ runs' = [runs EXCEPT ![r] =
                      [runs[r] EXCEPT !.counters = checked_add(runs[r].counters, delta)]]
        /\ UNCHANGED stages
        /\ runs[r].status # "absent"
    BY <1>5 DEF record_budget, require_run_action, Exists
  <2>2. Below(runs[r].counters, checked_add(runs[r].counters, delta))
    BY <1>1, <1>5, InputsAssumption, CheckedAdd DEF record_budget, RunRow
  <2> QED
    BY <1>1, <2>1, <2>2, OneRunStays DEF RunStays, RunRow
<1>6. ASSUME NEW state \in CleanupState, mark_cleanup(r, state, k),
             ~UNCHANGED <<runs, stages>>
      PROVE  Steady
  <2>1. /\ runs' = [runs EXCEPT ![r] = [runs[r] EXCEPT !.cleanup = state]]
        /\ UNCHANGED stages
    BY <1>6 DEF mark_cleanup, AlreadyDone
  <2> QED
    BY <1>1, <2>1, OneRunStays DEF RunStays, RunRow
<1>7. ASSUME NEW st \in RunStatus, complete_run(r, st, k), ~UNCHANGED <<runs, stages>>
      PROVE  Steady
  <2> DEFINE receipt == [status |-> st, resources |-> runs[r].counters,
                         artifacts |-> runs[r].linked]
  <2>1. /\ run_can_transition(runs[r].status, st)
        /\ runs' = [runs EXCEPT ![r] = [runs[r] EXCEPT !.status = st, !.receipt = receipt]]
        /\ UNCHANGED stages
        /\ st # "absent"
    BY <1>7 DEF complete_run, AlreadyDone, RunStatus
  <2>2. runs[r].status \notin CompletedStatus \cup {"failed", "cancelled"}
    BY <2>1, ClosedRunsHaveNoNext
  <2>3. runs[r].receipt = None
    BY <1>1, <2>2 DEF Inv, ReceiptSound, RunRow, Receipt
  <2> HIDE DEF receipt
  <2> QED
    BY <1>1, <2>1, <2>2, <2>3, OneRunStays DEF RunStays, RunRow
<1>8. ASSUME NEW x \in Artifacts, link_artifact_to_run(r, x) PROVE Steady
  <2>1. /\ runs' = [runs EXCEPT ![r] = [runs[r] EXCEPT !.linked = @ \cup {x}]]
        /\ UNCHANGED stages
    BY <1>8 DEF link_artifact_to_run
  <2> QED
    BY <1>1, <2>1, OneRunStays DEF RunStays, RunRow
<1> QED
  BY <1>2, <1>3, <1>4, <1>5, <1>6, <1>7, <1>8

\* A cancellation, requested or confirmed, leaves what is closed alone and takes no lease.
LEMMA CancelSteady ==
    ASSUME Inv, NEW r \in Runs, NEW k,
           request_cancel(r, k) \/ \E verified \in BOOLEAN : confirm_cancelled(r, verified, k)
    PROVE  Steady
<1>1. /\ runs[r] \in RunRow /\ runs \in [Runs -> RunRow]
      /\ Below(runs[r].counters, runs[r].counters)
      /\ \A s \in Stages : stages[s] \in StageRow
  BY BoundsAssumption DEF Inv, TypeOK, RunRow, Ledger, Below
<1>2. CASE UNCHANGED <<runs, stages>>
  BY <1>2, SameRowsStay
<1>3. CASE request_cancel(r, k) /\ ~UNCHANGED <<runs, stages>>
  <2>1. /\ ~run_is_terminal(runs[r].status)
        /\ runs' = [runs EXCEPT ![r] = [runs[r] EXCEPT !.revoked = TRUE,
                                                       !.status = "cancelling"]]
        /\ stages' = [s \in Stages |->
             IF s \in StagesOf(r) THEN [stages[s] EXCEPT !.state = cancel_stage(@)]
             ELSE stages[s]]
    BY <1>3 DEF request_cancel, AlreadyDone
  <2>2. RunStays(r)
    BY <1>1, <2>1 DEF RunStays, RunRow, run_is_terminal
  <2>3. \A s \in Stages : /\ stages'[s].lease = stages[s].lease
                          /\ StageStays(s)
    BY <1>1, <2>1 DEF StageRow, StageStays, cancel_stage
  <2>4. \A q \in Runs : q # r => runs'[q] = runs[q]
    BY <1>1, <2>1
  <2> QED
    BY <2>2, <2>3, <2>4, SameRunStays DEF Steady, Fenced
<1>4. ASSUME NEW verified \in BOOLEAN, confirm_cancelled(r, verified, k),
             ~UNCHANGED <<runs, stages>>
      PROVE  Steady
  <2>1. /\ runs[r].status = "cancelling"
        /\ runs' = [runs EXCEPT ![r] = [runs[r] EXCEPT !.status = "cancelled"]]
        /\ stages' = [s \in Stages |->
             IF s \in StagesOf(r) /\ stages[s].state = "cancelling"
             THEN Ended(stages[s], "cancelled") ELSE stages[s]]
    BY <1>4 DEF confirm_cancelled, cancel_gate, AlreadyDone
  <2>2. RunStays(r)
    BY <1>1, <2>1 DEF RunStays, RunRow, CompletedStatus
  <2>3. \A s \in Stages : /\ stages'[s].lease \in {None, stages[s].lease}
                          /\ StageStays(s)
    BY <1>1, <2>1 DEF StageRow, StageStays, Ended, stage_is_terminal
  <2>4. \A q \in Runs : q # r => runs'[q] = runs[q]
    BY <1>1, <2>1
  <2> QED
    BY <2>2, <2>3, <2>4, SameRunStays DEF Steady, Fenced
<1> QED
  BY <1>2, <1>3, <1>4

\* A stage that is added, moved or leased.
LEMMA StageRowSteady ==
    ASSUME Inv, NEW s \in Stages, NEW k,
           \/ \E r \in Runs, cap \in AttemptCaps : add_stage(s, r, cap, k)
           \/ StageOperation(s, k)
    PROVE  Steady
<1>1. stages[s] \in StageRow /\ stages \in [Stages -> StageRow] /\ clock \in Nat
  BY DEF Inv, TypeOK
<1>2. CASE UNCHANGED <<runs, stages>>
  BY <1>2, SameRowsStay
<1>3. ASSUME NEW r \in Runs, NEW cap \in AttemptCaps, add_stage(s, r, cap, k) PROVE Steady
  <2>1. /\ stages[s].state = "absent"
        /\ stages' = [stages EXCEPT ![s] =
             [run |-> r, state |-> "created", attempt |-> 0, max |-> cap, lease |-> None]]
        /\ UNCHANGED runs
    BY <1>3 DEF add_stage
  <2> QED
    BY <1>1, <2>1, OneStageStays DEF StageStays, Fenced, stage_is_terminal
<1>4. ASSUME NEW next \in StageState, transition_stage(s, next, k), ~UNCHANGED <<runs, stages>>
      PROVE  Steady
  <2>1. PICK n : /\ stage_can_transition(stages[s].state, next)
                 /\ stages' = [stages EXCEPT ![s] =
                      Stepped(stages[s], next, n, lease_after(next, stages[s].lease))]
                 /\ UNCHANGED runs
    BY <1>4 DEF transition_stage, AlreadyDone
  <2>2. ~stage_is_terminal(stages[s].state)
    BY <2>1, ClosedStagesHaveNoNext
  <2>3. stages'[s].lease \in {None, stages[s].lease}
    BY <1>1, <2>1 DEF Stepped, StageRow, lease_after
  <2> QED
    BY <2>1, <2>2, <2>3, OneStageStays DEF StageStays, Fenced
<1>5. ASSUME NEW owner \in Owners, NEW ttl \in Ttls, acquire_lease(s, owner, ttl, k),
             ~UNCHANGED <<runs, stages>>
      PROVE  Steady
  <2> DEFINE lease == [owner |-> owner, deadline |-> clock + ttl]
  <2>1. /\ stages[s].state = "queued" \/ (stages[s].state = "running" /\ ~lease_is_live(s))
        /\ stages' = [stages EXCEPT ![s] =
             Stepped(stages[s], "running", stages[s].attempt + 1, lease)]
        /\ UNCHANGED runs
    BY <1>5 DEF acquire_lease, AlreadyDone
  <2>2. StageStays(s)
    BY <2>1 DEF StageStays, stage_is_terminal
  <2>3. stages[s].lease = None \/ stages[s].lease.deadline <= clock
    <3>1. CASE stages[s].state = "queued"
      BY <3>1 DEF Inv, LeaseDiscipline
    <3>2. CASE ~lease_is_live(s)
      <4>1. stages[s].lease # None => stages[s].lease.deadline \in Nat
        BY <1>1, BoundsAssumption DEF StageRow, Lease
      <4> QED
        BY <1>1, <3>2, <4>1 DEF lease_is_live
    <3> QED
      BY <2>1, <3>1, <3>2
  <2>4. stages'[s].attempt = stages[s].attempt + 1
    BY <1>1, <2>1 DEF Stepped, StageRow
  <2> HIDE DEF lease
  <2> QED
    BY <2>1, <2>2, <2>3, <2>4, OneStageStays DEF Fenced
<1> QED
  BY <1>2, <1>3, <1>4, <1>5 DEF StageOperation

\* A recovery closes stages that were running and runs that were running.
LEMMA RecoverSteady ==
    ASSUME Inv, NEW verified, recover_expired_leases(verified)
    PROVE  Steady
<1>1. \A r \in Runs : runs[r] \in RunRow /\ Below(runs[r].counters, runs[r].counters)
  BY BoundsAssumption DEF Inv, TypeOK, RunRow, Ledger, Below
<1>2. \A r \in Runs :
        \/ runs'[r] = runs[r]
        \/ runs'[r] = [runs[r] EXCEPT !.status = status_after_expiry(runs[r].status)]
  BY DEF recover_expired_leases
<1>3. \A r \in Runs : RunStays(r)
  <2> SUFFICES ASSUME NEW r \in Runs PROVE RunStays(r)
    OBVIOUS
  <2>1. CASE runs'[r] = runs[r]
    BY <2>1, SameRunStays
  <2>2. CASE runs'[r] = [runs[r] EXCEPT !.status = status_after_expiry(runs[r].status)]
    BY <1>1, <2>2 DEF RunStays, RunRow, status_after_expiry, CompletedStatus
  <2> QED
    BY <1>2, <2>1, <2>2
<1>4. \A s \in Stages : \/ stages'[s] = stages[s]
                        \/ /\ stages[s].state = "running"
                           /\ stages'[s] = Ended(stages[s], "interrupted")
  BY DEF recover_expired_leases, lease_has_expired
<1>5. \A s \in Stages : Ended(stages[s], "interrupted").lease = None
  BY EndedRow DEF Inv, TypeOK, StageState
<1>6. \A s \in Stages : StageStays(s) /\ Fenced(s)
  BY <1>4, <1>5 DEF StageStays, Fenced, stage_is_terminal
<1> QED
  BY <1>3, <1>6 DEF Steady

\* Every step from a state of the inductive invariant is steady.
LEMMA NextSteady == Inv /\ Fresh /\ [Next]_vars => Steady
<1> SUFFICES ASSUME Inv, Fresh, [Next]_vars PROVE Steady
  OBVIOUS
<1>1. ASSUME NEW r \in Runs, NEW k \in Keys \cup {None}, RunOperation(r, k) PROVE Steady
  BY <1>1, RunRowSteady, CancelSteady, StageRowSteady DEF RunOperation
<1>2. ASSUME NEW s \in Stages, NEW k \in Keys \cup {None}, StageOperation(s, k) PROVE Steady
  BY <1>2, StageRowSteady
<1>3. ASSUME NEW r \in Runs, NEW x \in Artifacts, link_artifact_to_run(r, x) PROVE Steady
  BY <1>3, RunRowSteady
<1>4. CASE \/ \E bad \in SUBSET Artifacts : reconcile_artifacts(bad)
           \/ Tick
           \/ UNCHANGED vars
  BY <1>4, SameRowsStay DEF reconcile_artifacts, Tick, vars
<1>5. ASSUME NEW verified \in BOOLEAN, recover_expired_leases(verified) PROVE Steady
  BY <1>5, RecoverSteady
<1> QED
  BY <1>1, <1>2, <1>3, <1>4, <1>5 DEF Next

-----------------------------------------------------------------------------
(* Every change has its event *)

\* What EveryChangeHasEvent says of one run and of one stage.
RunTold(r) ==
    [runs[r] EXCEPT !.linked = {}] # [runs'[r] EXCEPT !.linked = {}] =>
      \E e \in emitted' : e.run = r

StageTold(s) ==
    stages'[s] # stages[s] =>
      \E e \in emitted' : e.run = stages'[s].run /\ e.subject \in {s, e.run}

Told == (\A r \in Runs : RunTold(r)) /\ (\A s \in Stages : StageTold(s))

\* A step that changes neither table has nothing to tell.
LEMMA SameRowsTold ==
    ASSUME UNCHANGED <<runs, stages>>
    PROVE  Told
  BY DEF Told, RunTold, StageTold

\* A transaction on one run whose event names that run.
LEMMA RunEventTells ==
    ASSUME NEW r \in Runs, NEW op, NEW k, NEW type, append_event(op, k, r, type, r),
           \A q \in Runs : q # r => runs'[q] = runs[q],
           \A s \in Stages : stages'[s] = stages[s] \/ stages'[s].run = r
    PROVE  Told
<1>1. Event(op, k, r, type, r) \in emitted' /\ Event(op, k, r, type, r).run = r
      /\ Event(op, k, r, type, r).subject = r
  BY DEF append_event, Event
<1> QED
  BY <1>1 DEF Told, RunTold, StageTold

\* A transaction on one stage whose event names it and its run.
LEMMA StageEventTells ==
    ASSUME NEW s \in Stages, NEW op, NEW k, NEW type,
           append_event(op, k, stages'[s].run, type, s), UNCHANGED runs,
           \A t \in Stages : t # s => stages'[t] = stages[t]
    PROVE  Told
<1> DEFINE e == Event(op, k, stages'[s].run, type, s)
<1>1. e \in emitted' /\ e.run = stages'[s].run /\ e.subject = s
  BY DEF append_event, Event
<1> HIDE DEF e
<1> QED
  BY <1>1 DEF Told, RunTold, StageTold

\* The operations of a run, but for add_stage.
LEMMA RunOperationTells ==
    ASSUME Inv, NEW r \in Runs, NEW k \in Keys \cup {None}, RunOperation(r, k),
           ~\E s \in Stages, cap \in AttemptCaps : add_stage(s, r, cap, k)
    PROVE  Told
<1>1. CASE UNCHANGED <<runs, stages>>
  BY <1>1, SameRowsTold
<1>2. ASSUME ~UNCHANGED <<runs, stages>>,
             \/ \E a \in Authorities, b \in Budgets : create_run(r, a, b, k)
             \/ \E next \in RunStatus : transition_run(r, next, k)
             \/ \E delta \in Deltas : record_budget(r, delta, k)
             \/ \E state \in CleanupState : mark_cleanup(r, state, k)
             \/ \E st \in RunStatus : complete_run(r, st, k)
      PROVE  Told
  <2>1. /\ \E op, type : append_event(op, k, r, type, r)
        /\ UNCHANGED stages
    BY <1>2 DEF create_run, transition_run, record_budget, mark_cleanup, complete_run,
       AlreadyDone
  <2>2. \A q \in Runs : q # r => runs'[q] = runs[q]
    BY <1>2 DEF create_run, transition_run, record_budget, mark_cleanup, complete_run,
       AlreadyDone, Inv, TypeOK
  <2> QED
    BY <2>1, <2>2, RunEventTells
<1>3. CASE request_cancel(r, k) /\ ~UNCHANGED <<runs, stages>>
  <2>1. /\ append_event("request_cancel", k, r, "run.cancelling", r)
        /\ runs' = [runs EXCEPT ![r].revoked = TRUE, ![r].status = "cancelling"]
        /\ stages' = [s \in Stages |->
             IF s \in StagesOf(r) THEN [stages[s] EXCEPT !.state = cancel_stage(@)]
             ELSE stages[s]]
    BY <1>3 DEF request_cancel, AlreadyDone
  <2>2. \A q \in Runs : q # r => runs'[q] = runs[q]
    BY <2>1 DEF Inv, TypeOK
  <2>3. \A s \in Stages : stages'[s] = stages[s] \/ stages'[s].run = r
    BY <2>1 DEF Inv, TypeOK, StageRow, StagesOf
  <2> QED
    BY <2>1, <2>2, <2>3, RunEventTells
<1>4. ASSUME NEW verified \in BOOLEAN, confirm_cancelled(r, verified, k),
             ~UNCHANGED <<runs, stages>>
      PROVE  Told
  <2>1. /\ append_event("confirm_cancelled", k, r, "run.cancelled", r)
        /\ runs' = [runs EXCEPT ![r].status = "cancelled"]
        /\ stages' = [s \in Stages |->
             IF s \in StagesOf(r) /\ stages[s].state = "cancelling"
             THEN Ended(stages[s], "cancelled") ELSE stages[s]]
    BY <1>4 DEF confirm_cancelled, AlreadyDone
  <2>2. \A q \in Runs : q # r => runs'[q] = runs[q]
    BY <2>1 DEF Inv, TypeOK
  <2>3. \A s \in Stages : stages'[s] = stages[s] \/ stages'[s].run = r
    BY <2>1 DEF Inv, TypeOK, StageRow, StagesOf, Ended
  <2> QED
    BY <2>1, <2>2, <2>3, RunEventTells
<1> QED
  BY <1>1, <1>2, <1>3, <1>4 DEF RunOperation

\* A stage that is added, moved or leased.
LEMMA StageRowTells ==
    ASSUME Inv, NEW s \in Stages, NEW k,
           \/ \E r \in Runs, cap \in AttemptCaps : add_stage(s, r, cap, k)
           \/ StageOperation(s, k)
    PROVE  Told
<1>1. CASE UNCHANGED <<runs, stages>>
  BY <1>1, SameRowsTold
<1>2. CASE ~UNCHANGED <<runs, stages>>
  <2>1. PICK row : stages' = [stages EXCEPT ![s] = row] /\ UNCHANGED runs
                   /\ \E op, type : append_event(op, k, row.run, type, s)
    <3>1. ASSUME NEW r \in Runs, NEW cap \in AttemptCaps, add_stage(s, r, cap, k)
          PROVE  \E row : /\ stages' = [stages EXCEPT ![s] = row] /\ UNCHANGED runs
                          /\ \E op, type : append_event(op, k, row.run, type, s)
      <4> WITNESS [run |-> r, state |-> "created", attempt |-> 0, max |-> cap, lease |-> None]
      <4> QED
        BY <3>1 DEF add_stage
    <3>2. ASSUME NEW next \in StageState, transition_stage(s, next, k)
          PROVE  \E row : /\ stages' = [stages EXCEPT ![s] = row] /\ UNCHANGED runs
                          /\ \E op, type : append_event(op, k, row.run, type, s)
      <4>1. PICK n, l : /\ stages' = [stages EXCEPT ![s] = Stepped(stages[s], next, n, l)]
                        /\ append_event("transition_stage", k, stages[s].run,
                                        "stage.transitioned", s)
                        /\ UNCHANGED runs
        BY <1>2, <3>2 DEF transition_stage, AlreadyDone
      <4>2. Stepped(stages[s], next, n, l).run = stages[s].run
        BY DEF Stepped, Inv, TypeOK, StageRow
      <4> QED
        BY <4>1, <4>2
    <3>3. ASSUME NEW owner \in Owners, NEW ttl \in Ttls, acquire_lease(s, owner, ttl, k)
          PROVE  \E row : /\ stages' = [stages EXCEPT ![s] = row] /\ UNCHANGED runs
                          /\ \E op, type : append_event(op, k, row.run, type, s)
      <4>1. PICK n, l : /\ stages' = [stages EXCEPT ![s] = Stepped(stages[s], "running", n, l)]
                        /\ append_event("acquire_lease", k, stages[s].run,
                                        "stage.lease_acquired", s)
                        /\ UNCHANGED runs
        BY <1>2, <3>3 DEF acquire_lease, AlreadyDone
      <4>2. Stepped(stages[s], "running", n, l).run = stages[s].run
        BY DEF Stepped, Inv, TypeOK, StageRow
      <4> QED
        BY <4>1, <4>2
    <3> QED
      BY <3>1, <3>2, <3>3 DEF StageOperation
  <2>2. stages'[s] = row /\ \A t \in Stages : t # s => stages'[t] = stages[t]
    BY <2>1 DEF Inv, TypeOK
  <2> QED
    BY <2>1, <2>2, StageEventTells
<1> QED
  BY <1>1, <1>2

\* A recovery has an event for each stage it closes, which is also one of its run.
LEMMA RecoverTells ==
    ASSUME Inv, NEW verified, recover_expired_leases(verified)
    PROVE  Told
<1> DEFINE expired == {s \in Stages : lease_has_expired(s)}
<1>1. \A s \in expired : \E e \in emitted' : e.run = stages[s].run /\ e.subject = s
  <2> SUFFICES ASSUME NEW s \in expired
               PROVE  \E e \in emitted' : e.run = stages[s].run /\ e.subject = s
    OBVIOUS
  <2> DEFINE told == Event("recover_expired_leases", None, stages[s].run,
                           "stage.lease_expired", s)
  <2>1. told \in emitted'
    BY DEF recover_expired_leases, expiry_events
  <2>2. told.run = stages[s].run /\ told.subject = s
    BY DEF Event
  <2> QED
    BY <2>1, <2>2
<1>2. \A s \in Stages : /\ s \notin expired => stages'[s] = stages[s]
                        /\ stages'[s].run = stages[s].run
  BY DEF recover_expired_leases, Ended, Inv, TypeOK, StageRow
<1>3. \A r \in Runs : runs'[r] = runs[r] \/ \E s \in expired : stages[s].run = r
  BY DEF recover_expired_leases
<1> HIDE DEF expired
<1>4. \A r \in Runs : RunTold(r)
  <2>1. ASSUME NEW r \in Runs, runs'[r] = runs[r] PROVE RunTold(r)
    BY <2>1 DEF RunTold
  <2>2. ASSUME NEW r \in Runs, NEW s \in expired, stages[s].run = r PROVE RunTold(r)
    <3>1. \E e \in emitted' : e.run = r
      BY <1>1, <2>2
    <3> QED
      BY <3>1, Zenon DEF RunTold
  <2> QED
    BY <1>3, <2>1, <2>2
<1>5. \A s \in Stages : StageTold(s)
  BY <1>1, <1>2 DEF StageTold
<1> QED
  BY <1>4, <1>5 DEF Told

\* Every step tells of what it changes.
LEMMA NextTells == Inv /\ [Next]_vars => Told
<1> SUFFICES ASSUME Inv, [Next]_vars PROVE Told
  OBVIOUS
<1>1. ASSUME NEW r \in Runs, NEW k \in Keys \cup {None}, RunOperation(r, k) PROVE Told
  BY <1>1, RunOperationTells, StageRowTells
<1>2. ASSUME NEW s \in Stages, NEW k \in Keys \cup {None}, StageOperation(s, k) PROVE Told
  BY <1>2, StageRowTells
<1>3. ASSUME NEW r \in Runs, NEW x \in Artifacts, link_artifact_to_run(r, x) PROVE Told
  <2>1. /\ runs' = [runs EXCEPT ![r] = [runs[r] EXCEPT !.linked = @ \cup {x}]]
        /\ UNCHANGED stages
    BY <1>3 DEF link_artifact_to_run
  <2>2. [runs'[r] EXCEPT !.linked = {}] = [runs[r] EXCEPT !.linked = {}]
    BY <2>1 DEF Inv, TypeOK, RunRow
  <2>3. \A q \in Runs : q # r => runs'[q] = runs[q]
    BY <2>1 DEF Inv, TypeOK
  <2> QED
    BY <2>1, <2>2, <2>3 DEF Told, RunTold, StageTold
<1>4. CASE \/ \E bad \in SUBSET Artifacts : reconcile_artifacts(bad)
           \/ Tick
           \/ UNCHANGED vars
  BY <1>4, SameRowsTold DEF reconcile_artifacts, Tick, vars
<1>5. ASSUME NEW verified \in BOOLEAN, recover_expired_leases(verified) PROVE Told
  BY <1>5, RecoverTells
<1> QED
  BY <1>1, <1>2, <1>3, <1>4, <1>5 DEF Next

-----------------------------------------------------------------------------
(* Keys *)

\* What KeyTakesEffectOnce says of a step.
TakesEffectOnce ==
    /\ idem \subseteq idem'
    /\ \A e \in emitted' : e.key # None =>
         /\ ~\E i \in idem : i.op = e.op /\ i.key = e.key
         /\ Cardinality({i \in idem' : i.op = e.op /\ i.key = e.key}) = 1

\* A transaction that looked for its key, writes the key's row and appends its event.
LEMMA KeyedStep ==
    ASSUME NEW op, NEW k, NEW r, NEW response, NEW q, NEW type, NEW subject,
           NotReplayed(op, k), save_idempotency(op, k, r, response),
           emitted' = {} \/ append_event(op, k, q, type, subject)
    PROVE  TakesEffectOnce
<1> DEFINE row == [op |-> op, key |-> k, run |-> r, response |-> response]
<1>1. idem \subseteq idem'
  BY DEF save_idempotency
<1>2. ASSUME NEW e \in emitted', e.key # None
      PROVE  /\ ~\E i \in idem : i.op = e.op /\ i.key = e.key
             /\ Cardinality({i \in idem' : i.op = e.op /\ i.key = e.key}) = 1
  <2>1. e = Event(op, k, q, type, subject)
    BY <1>2 DEF append_event
  <2>2. e.op = op /\ e.key = k /\ k # None
    BY <1>2, <2>1 DEF Event
  <2>3. ~\E i \in idem : i.op = op /\ i.key = k
    BY <2>2 DEF NotReplayed, replay_idempotency
  <2>4. idem' = idem \cup {row} /\ row.op = op /\ row.key = k
    BY <2>2 DEF save_idempotency
  <2> HIDE DEF row
  <2>5. {i \in idem' : i.op = e.op /\ i.key = e.key} = {row}
    BY <2>2, <2>3, <2>4
  <2>6. Cardinality({row}) = 1
    BY FS_Singleton
  <2>7. QED
    BY <2>2, <2>3, <2>5, <2>6
<1>3. QED
  BY <1>1, <1>2 DEF TakesEffectOnce

\* A step without a key: its events, if any, carry none.
LEMMA UnkeyedStep ==
    ASSUME UNCHANGED idem, \A e \in emitted' : e.key = None
    PROVE  TakesEffectOnce
  BY DEF TakesEffectOnce

\* The operations on a run look for their key first and write its row last.
LEMMA RunOperationOnce ==
    ASSUME NEW r \in Runs, NEW k \in Keys \cup {None}, RunOperation(r, k)
    PROVE  TakesEffectOnce
<1> USE DEF AlreadyDone
<1>1. ASSUME NEW a \in Authorities, NEW b \in Budgets, create_run(r, a, b, k) PROVE TakesEffectOnce
  BY <1>1, KeyedStep DEF create_run
<1>2. ASSUME NEW next \in RunStatus, transition_run(r, next, k) PROVE TakesEffectOnce
  BY <1>2, KeyedStep DEF transition_run
<1>3. ASSUME NEW delta \in Deltas, record_budget(r, delta, k) PROVE TakesEffectOnce
  BY <1>3, KeyedStep DEF record_budget
<1>4. CASE request_cancel(r, k)
  BY <1>4, KeyedStep DEF request_cancel
<1>5. ASSUME NEW verified \in BOOLEAN, confirm_cancelled(r, verified, k) PROVE TakesEffectOnce
  BY <1>5, KeyedStep DEF confirm_cancelled
<1>6. ASSUME NEW state \in CleanupState, mark_cleanup(r, state, k) PROVE TakesEffectOnce
  BY <1>6, KeyedStep DEF mark_cleanup
<1>7. ASSUME NEW st \in RunStatus, complete_run(r, st, k) PROVE TakesEffectOnce
  BY <1>7, KeyedStep DEF complete_run
<1>8. ASSUME NEW s \in Stages, NEW cap \in AttemptCaps, add_stage(s, r, cap, k) PROVE TakesEffectOnce
  BY <1>8, KeyedStep DEF add_stage
<1> QED
  BY <1>1, <1>2, <1>3, <1>4, <1>5, <1>6, <1>7, <1>8 DEF RunOperation

\* So do the operations on a stage.
LEMMA StageOperationOnce ==
    ASSUME NEW s \in Stages, NEW k \in Keys \cup {None}, StageOperation(s, k)
    PROVE  TakesEffectOnce
<1> USE DEF AlreadyDone
<1>1. ASSUME NEW next \in StageState, transition_stage(s, next, k) PROVE TakesEffectOnce
  BY <1>1, KeyedStep DEF transition_stage
<1>2. ASSUME NEW owner \in Owners, NEW ttl \in Ttls, acquire_lease(s, owner, ttl, k) PROVE TakesEffectOnce
  BY <1>2, KeyedStep DEF acquire_lease
<1> QED
  BY <1>1, <1>2 DEF StageOperation

\* Every step that is one.
LEMMA NextOnce == Next => TakesEffectOnce
<1>1. CASE \/ \E r \in Runs, x \in Artifacts : link_artifact_to_run(r, x)
           \/ \E bad \in SUBSET Artifacts : reconcile_artifacts(bad)
           \/ Tick
  BY <1>1, UnkeyedStep DEF link_artifact_to_run, reconcile_artifacts, Tick
<1>2. ASSUME NEW verified \in BOOLEAN, recover_expired_leases(verified) PROVE TakesEffectOnce
  BY <1>2, UnkeyedStep DEF recover_expired_leases, expiry_events, Event
<1> QED
  BY <1>1, <1>2, RunOperationOnce, StageOperationOnce DEF Next

-----------------------------------------------------------------------------
(* Backups *)

\* The store as a backup has it; the clock and the last events are not in it.
Db(b) == INSTANCE CoreStore WITH
    runs <- b.runs, stages <- b.stages, quarantined <- b.quarantined, idem <- b.idem,
    emitted <- {}, clock <- 0

\* A backup has the inductive invariant.
Sound(b) ==
    /\ Db(b)!TypeOK
    /\ Db(b)!SpendWithinApproval
    /\ Db(b)!ReceiptSound
    /\ Db(b)!RevokedIsQuiesced
    /\ Db(b)!LeaseDiscipline
    /\ \A r \in Runs : b.runs[r].status = "absent" => b.runs[r].counters = Zero

RestoreInv ==
    /\ Inv
    /\ Fresh
    /\ \A b \in backups : Sound(b)

\* What is backed up is as sound as the store.
LEMMA DatabaseIsSound ==
    ASSUME Inv, Fresh
    PROVE  Sound(Database)
<1> DEFINE b == Database
<1>0. b.runs = runs /\ b.stages = stages /\ b.quarantined = quarantined /\ b.idem = idem
  BY DEF Database
<1> HIDE DEF b
<1>1. Db(b)!TypeOK
  BY <1>0 DEF Inv, TypeOK, Exists, RunRow, StageRow, IdemRow, EventRow, Receipt, Operations,
     EventTypes, Lease, Ledger, Db!TypeOK, Db!Exists, Db!RunRow, Db!StageRow, Db!IdemRow, Db!EventRow,
     Db!Receipt, Db!Operations, Db!EventTypes, Db!Lease, Db!Ledger, RunStatus, Db!RunStatus,
     StageState, Db!StageState, CleanupState, Db!CleanupState, CompletedStatus, Db!CompletedStatus
<1>2. Db(b)!SpendWithinApproval
  BY <1>0 DEF Inv, SpendWithinApproval, Exists, Below, Db!SpendWithinApproval, Db!Exists, Db!Below
<1>3. Db(b)!ReceiptSound
  BY <1>0 DEF Inv, ReceiptSound, StagesOf, Below, stage_is_terminal,
     Db!ReceiptSound, Db!StagesOf, Db!Below, Db!stage_is_terminal
<1>4. Db(b)!RevokedIsQuiesced
  BY <1>0 DEF Inv, RevokedIsQuiesced, StagesOf, stage_is_terminal,
     Db!RevokedIsQuiesced, Db!StagesOf, Db!stage_is_terminal
<1>5. Db(b)!LeaseDiscipline
  BY <1>0 DEF Inv, LeaseDiscipline, Db!LeaseDiscipline
<1>6. \A r \in Runs : b.runs[r].status = "absent" => b.runs[r].counters = Zero
  BY <1>0 DEF Fresh
<1> QED
  BY <1>1, <1>2, <1>3, <1>4, <1>5, <1>6 DEF Sound, b

\* A store whose tables are those of a sound backup has the invariant.
LEMMA SoundIsRestored ==
    ASSUME NEW b, Sound(b), Inv, runs' = b.runs, stages' = b.stages,
           quarantined' = b.quarantined, idem' = b.idem, emitted' = {}, UNCHANGED clock
    PROVE  Inv' /\ Fresh'
<1>1. TypeOK'
  BY DEF Sound, Inv, TypeOK, Exists, RunRow, StageRow, IdemRow, EventRow, Receipt, Operations,
     EventTypes, Lease, Ledger, Db!TypeOK, Db!Exists, Db!RunRow, Db!StageRow, Db!IdemRow, Db!EventRow,
     Db!Receipt, Db!Operations, Db!EventTypes, Db!Lease, Db!Ledger, RunStatus, Db!RunStatus,
     StageState, Db!StageState, CleanupState, Db!CleanupState, CompletedStatus, Db!CompletedStatus
<1>2. SpendWithinApproval'
  BY DEF Sound, SpendWithinApproval, Exists, Below, Db!SpendWithinApproval, Db!Exists, Db!Below
<1>3. ReceiptSound'
  BY DEF Sound, ReceiptSound, StagesOf, Below, stage_is_terminal,
     Db!ReceiptSound, Db!StagesOf, Db!Below, Db!stage_is_terminal
<1>4. RevokedIsQuiesced'
  BY DEF Sound, RevokedIsQuiesced, StagesOf, stage_is_terminal,
     Db!RevokedIsQuiesced, Db!StagesOf, Db!stage_is_terminal
<1>5. LeaseDiscipline'
  BY DEF Sound, LeaseDiscipline, Db!LeaseDiscipline
<1>6. Fresh'
  BY DEF Sound, Fresh
<1> QED
  BY <1>1, <1>2, <1>3, <1>4, <1>5, <1>6 DEF Inv

\* A step that leaves the store alone, or any step of the store itself.
LEMMA StoreStep ==
    ASSUME Inv, Fresh, [Next]_vars
    PROVE  Inv' /\ Fresh'
<1>1. Steady
  BY NextSteady
<1> QED
  BY <1>1, NextInv DEF Steady, RunStays, Fresh

\* Every step of the store with its backups keeps the invariant.
LEMMA RestoreNextInv == RestoreInv /\ [RestoreNext]_restoreVars => RestoreInv'
<1> SUFFICES ASSUME RestoreInv, [RestoreNext]_restoreVars PROVE RestoreInv'
  OBVIOUS
<1>1. CASE backups' = backups /\ [Next]_vars
  BY <1>1, StoreStep DEF RestoreInv
<1>2. backups' \subseteq backups \cup {Database} => \A b \in backups' : Sound(b)
  BY DatabaseIsSound DEF RestoreInv
<1>3. CASE backup
  <2>1. backups' \subseteq backups \cup {Database} /\ [Next]_vars
    BY <1>3 DEF backup
  <2> QED
    BY <1>2, <2>1, StoreStep DEF RestoreInv
<1>4. ASSUME NEW b \in backups, import_backup(b) PROVE RestoreInv'
  <2>1. backups' \subseteq backups \cup {Database}
    BY <1>4 DEF import_backup
  <2>2. CASE UNCHANGED vars
    BY <1>2, <2>1, <2>2, StoreStep DEF RestoreInv
  <2>3. CASE /\ runs' = b.runs /\ stages' = b.stages /\ quarantined' = b.quarantined
             /\ idem' = b.idem /\ emitted' = {} /\ UNCHANGED clock
    BY <1>2, <2>1, <2>3, SoundIsRestored DEF RestoreInv
  <2> QED
    BY <1>4, <2>2, <2>3 DEF import_backup
<1> QED
  BY <1>1, <1>3, <1>4 DEF RestoreNext, Imports, restoreVars

\* A step that is no import is a step of the store or leaves it alone.
LEMMA ImportsOrSteps ==
    ASSUME [RestoreNext]_restoreVars
    PROVE  Imports \/ [Next]_vars
  BY DEF RestoreNext, restoreVars, backup

\* What a step of the store may never do, no other step but an import does.
LEMMA RestoreSteady ==
    RestoreInv /\ [RestoreNext]_restoreVars => Imports \/ (LeaseIsFenced /\ NothingReopens)
<1>1. Steady => LeaseIsFenced /\ NothingReopens
  BY DEF Steady, RunStays, StageStays, Fenced, LeaseIsFenced, NothingReopens
<1> QED
  BY <1>1, ImportsOrSteps, NextSteady DEF RestoreInv

\* The same for the events.
LEMMA RestoreTells ==
    RestoreInv /\ [RestoreNext]_restoreVars => Imports \/ ChangeHasEvent
<1>1. Told => ChangeHasEvent
  BY DEF Told, RunTold, StageTold, ChangeHasEvent
<1> QED
  BY <1>1, ImportsOrSteps, NextTells DEF RestoreInv

-----------------------------------------------------------------------------
(* Theorems *)

\* The inductive invariant holds in every behaviour of the store and of its backups.
THEOREM Invariance == RestoreSpec => []RestoreInv
<1>1. RestoreInit => RestoreInv
  BY InitInv DEF RestoreInit, RestoreInv, Init, Fresh, NoRun
<1> QED
  BY <1>1, RestoreNextInv, PTL DEF RestoreSpec

\* Every row stays well formed, whatever the calls and imports: counters, budgets and lease
\* deadlines fit a u64, and every stage belongs to a run that exists.
THEOREM TypeCorrect == RestoreSpec => []TypeOK
<1>1. RestoreInv => TypeOK
  BY DEF RestoreInv, Inv
<1> QED
  BY <1>1, Invariance, PTL

\* No run spends more than its budget, no budget exceeds its approval, and no stage makes
\* more attempts than it was given.
THEOREM SpendIsBounded == RestoreSpec => []SpendWithinApproval
<1>1. RestoreInv => SpendWithinApproval
  BY DEF RestoreInv, Inv
<1> QED
  BY <1>1, Invariance, PTL

\* What complete_run wrote in a receipt stays true of the run for as long as the receipt is there,
\* one that an import brings back included.
THEOREM ReceiptsAreSound == RestoreSpec => []ReceiptSound
<1>1. RestoreInv => ReceiptSound
  BY DEF RestoreInv, Inv
<1> QED
  BY <1>1, Invariance, PTL

\* A run whose authority request_cancel revoked only winds down.
THEOREM RevocationQuiesces == RestoreSpec => []RevokedIsQuiesced
<1>1. RestoreInv => RevokedIsQuiesced
  BY DEF RestoreInv, Inv
<1> QED
  BY <1>1, Invariance, PTL

\* Only stages a worker may be executing carry leases.
THEOREM LeasesAreDisciplined == RestoreSpec => []LeaseDiscipline
<1>1. RestoreInv => LeaseDiscipline
  BY DEF RestoreInv, Inv
<1> QED
  BY <1>1, Invariance, PTL

\* A live lease is never replaced, and a new lease comes with the next attempt, but for imports.
THEOREM LeasesAreFenced == RestoreSpec => AttemptFencesLease
<1>1. RestoreInv /\ [RestoreNext]_restoreVars => [Imports \/ LeaseIsFenced]_restoreVars
  BY RestoreSteady DEF RestoreInv
<1> QED
  BY <1>1, Invariance, PTL DEF RestoreSpec, AttemptFencesLease

\* What is closed, spent, receipted or revoked stays so; only an import takes it back.
THEOREM ClosedIsFinal == RestoreSpec => ClosedStaysClosed
<1>1. RestoreInv /\ [RestoreNext]_restoreVars => [Imports \/ NothingReopens]_restoreVars
  BY RestoreSteady DEF RestoreInv
<1> QED
  BY <1>1, Invariance, PTL DEF RestoreSpec, ClosedStaysClosed

\* No row of a run or a stage changes without an event of that run in the same step, but by an
\* import.
THEOREM ChangesAreTold == RestoreSpec => EveryChangeHasEvent
<1>1. RestoreInv /\ [RestoreNext]_restoreVars => [Imports \/ ChangeHasEvent]_restoreVars
  BY RestoreTells DEF RestoreInv
<1> QED
  BY <1>1, Invariance, PTL DEF RestoreSpec, EveryChangeHasEvent

\* Whatever is repeated and in whatever order, an operation that appends an event under a key
\* is the first and the last under it (replay_idempotency, save_idempotency).
THEOREM KeysTakeEffectOnce == Spec => KeyTakesEffectOnce
<1>1. [Next]_vars =>
        [/\ idem \subseteq idem'
         /\ \A e \in emitted' : e.key # None =>
              /\ ~\E i \in idem : i.op = e.op /\ i.key = e.key
              /\ Cardinality({i \in idem' : i.op = e.op /\ i.key = e.key}) = 1]_vars
  BY NextOnce DEF TakesEffectOnce
<1> QED
  BY <1>1, PTL DEF Spec, KeyTakesEffectOnce
=============================================================================
