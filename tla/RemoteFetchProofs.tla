--------------------------- MODULE RemoteFetchProofs ---------------------------
(***************************************************************************)
(* Proofs about RemoteFetch: whatever the client, the proxy, the worker    *)
(* and the host do, the agent signs no more than it was granted for, the   *)
(* bundle that is accepted is the selection that was announced, and the    *)
(* proxy's report holds every byte.                                        *)
(***************************************************************************)
EXTENDS RemoteFetch, SumTheorems, SequenceTheorems, TLAPS

\* The agent has bound the session to the pinned host key if the relay says so, and has
\* signed with the selected key only, and only then.
AgentInv ==
    /\ bound \in BOOLEAN
    /\ agentBound \subseteq {HostKey}
    /\ bound => HostKey \in agentBound
    /\ agentSigned \in Seq({SelectedKey})
    /\ agentSigned # <<>> => bound

\* The relay counts what the agent signs, one behind while it has not counted the last one
\* or if it has gone before it could; the receipt is never ahead of the count.
CountInv ==
    /\ signatures \in Nat /\ receipt \in Nat
    /\ receipt <= signatures
    /\ signatures <= Len(agentSigned) /\ Len(agentSigned) <= MaxSignatures
    /\ relay = "signed" => Len(agentSigned) = signatures + 1
    /\ relay \notin {"signed", "exited", "stopped"} => Len(agentSigned) = signatures

\* The steps of the host after it has read a receipt.
Receipted ==
    {"verify_relay_running", "signal_done", "await_proxy_terminal", "stop_proxy",
     "validate_outputs", "accepted"}

ReceiptInv == mode = "ssh" /\ host \in Receipted => receipt > 0

\* The host starts the relay once.
StartInv == host \in {"start", "start_relay"} => relay = "off"

GrantInv == AgentInv /\ CountInv /\ ReceiptInv /\ StartInv
-----------------------------------------------------------------------------
\* Nothing is granted, bound, signed or counted at first.
LEMMA InitGrant == Init => GrantInv
<1> SUFFICES ASSUME Init
             PROVE  GrantInv
  OBVIOUS
<1>1. agentSigned = <<>> /\ Len(agentSigned) = 0 /\ agentSigned \in Seq({SelectedKey})
  BY DEF Init, RelayInit
<1>2. CountInv
  BY <1>1, RelayAssumption DEF Init, RelayInit, CountInv
<1>3. AgentInv
  BY <1>1 DEF Init, RelayInit, AgentInv
<1>4. QED
  BY <1>2, <1>3 DEF Init, RelayInit, GrantInv, ReceiptInv, StartInv, Receipted

\* What neither the relay nor the host does leaves all of it alone.
LEMMA OthersKeepGrant ==
    GrantInv /\ UNCHANGED <<hostVars, relayVars>> => GrantInv'
  BY DEF GrantInv, AgentInv, CountInv, ReceiptInv, StartInv, hostVars, relayVars

\* A relay that starts, ends or waits.
LEMMA RelayMovesKeepGrant ==
    /\ GrantInv
    /\ read_grant \/ bind_relay \/ accept_client \/ client_closes \/ relay_gives_up
    /\ UNCHANGED hostVars
    => GrantInv'
  BY DEF GrantInv, AgentInv, CountInv, ReceiptInv, StartInv, hostVars, read_grant, bind_relay,
         accept_client, client_closes, relay_gives_up

\* Counting a signature and publishing the count.
LEMMA CountingKeepsGrant ==
    /\ GrantInv
    /\ answer_signature \/ publish_receipt
    /\ UNCHANGED hostVars
    => GrantInv'
  BY DEF GrantInv, AgentInv, CountInv, ReceiptInv, StartInv, hostVars, answer_signature, publish_receipt

\* Every frame, of which only a bound session's with the selected key makes the agent sign.
LEMMA FramesKeepGrant ==
    GrantInv /\ relay_frame /\ UNCHANGED hostVars => GrantInv'
<1> SUFFICES ASSUME GrantInv, relay_frame, UNCHANGED hostVars
             PROVE  GrantInv'
  OBVIOUS
<1> USE DEF GrantInv, AgentInv, CountInv, ReceiptInv, StartInv, hostVars
<1>1. PICK f \in ClientFrames :
        \/ list_identities(f) \/ query_extension(f) \/ session_bind(f)
        \/ sign_request(f) \/ refuse_frame(f)
  BY DEF relay_frame
<1>2. relay = "relaying" /\ UNCHANGED <<grant, signatures, receipt>>
  BY DEF relay_frame
<1>3. CASE list_identities(f) \/ query_extension(f) \/ refuse_frame(f)
  BY <1>2, <1>3 DEF list_identities, query_extension, refuse_frame
<1>4. CASE session_bind(f)
  <2>1. f.key = HostKey
    BY <1>4 DEF session_bind, validate_session_bind
  <2>2. UNCHANGED agentSigned /\ relay' \in {"relaying", "exited"}
    BY <1>2, <1>4 DEF session_bind
  <2>3. CASE agentBound' = agentBound \cup {f.key} /\ bound' = TRUE
    BY <1>2, <2>1, <2>2, <2>3
  <2>4. CASE UNCHANGED <<bound, agentBound>>
    BY <1>2, <2>2, <2>4
  <2>5. QED
    BY <1>4, <2>3, <2>4 DEF session_bind
<1>5. CASE sign_request(f)
  <2>1. bound /\ signatures < MaxSignatures /\ f.key = SelectedKey
    BY <1>5 DEF sign_request, may_sign, validate_sign_request
  <2>2. CASE agentSigned' = Append(agentSigned, f.key) /\ relay' = "signed"
    <3>1. agentSigned' \in Seq({SelectedKey}) /\ Len(agentSigned') = Len(agentSigned) + 1
      BY <2>1, <2>2
    <3>2. QED
      BY <1>2, <1>5, <2>1, <2>2, <3>1, RelayAssumption DEF sign_request
  <2>3. CASE relay' = "exited" /\ UNCHANGED agentSigned
    BY <1>2, <1>5, <2>3 DEF sign_request
  <2>4. QED
    BY <1>5, <2>2, <2>3 DEF sign_request
<1>6. QED
  BY <1>1, <1>3, <1>4, <1>5

\* All the steps of the relay.
LEMMA RelayKeepsGrant == GrantInv /\ RelaySteps => GrantInv'
  BY RelayMovesKeepGrant, CountingKeepsGrant, FramesKeepGrant DEF RelaySteps

\* The host goes past the receipt only with one in its hands.
LEMMA HostKeepsGrant == GrantInv /\ Host => GrantInv'
<1> SUFFICES ASSUME GrantInv, Host
             PROVE  GrantInv'
  OBVIOUS
<1> USE DEF GrantInv, AgentInv, CountInv, ReceiptInv, StartInv, Receipted, relayVars, Advances
<1>1. CASE start_relay \/ copy_grant
  BY <1>1 DEF start_relay, copy_grant
<1>2. CASE begin_session \/ await_relay_ready \/ start_proxy \/ await_proxy_ready \/ start_worker
  BY <1>2 DEF begin_session, await_relay_ready, start_proxy, await_proxy_ready, start_worker
<1>3. CASE await_worker_report \/ read_bundle \/ stop_worker
  BY <1>3 DEF await_worker_report, read_bundle, stop_worker
<1>4. CASE await_relay_receipt \/ verify_relay_running
  BY <1>4 DEF await_relay_receipt, verify_relay_running
<1>5. CASE signal_done \/ await_proxy_terminal \/ stop_proxy \/ validate_outputs
  BY <1>5 DEF signal_done, await_proxy_terminal, stop_proxy, validate_outputs
<1>6. QED
  BY <1>1, <1>2, <1>3, <1>4, <1>5 DEF Host

\* A session that fails stops the relay and leaves what the agent did.
LEMMA FailureKeepsGrant == GrantInv /\ session_fails => GrantInv'
  BY DEF GrantInv, AgentInv, CountInv, ReceiptInv, StartInv, Receipted, session_fails

\* Every step keeps GrantInv.
LEMMA NextGrant == GrantInv /\ [Next]_vars => GrantInv'
<1> SUFFICES ASSUME GrantInv, [Next]_vars
             PROVE  GrantInv'
  OBVIOUS
<1>1. CASE ProxySteps \/ RunnerSteps \/ UNCHANGED vars
  BY <1>1, OthersKeepGrant DEF ProxySteps, RunnerSteps, vars
<1>2. QED
  BY <1>1, RelayKeepsGrant, HostKeepsGrant, FailureKeepsGrant DEF Next

\* GrantInv is strong enough for the property of the run.
LEMMA GrantImplies == GrantInv => SignaturesAreGranted
  BY DEF GrantInv, AgentInv, CountInv, ReceiptInv, StartInv, Receipted, SignaturesAreGranted
-----------------------------------------------------------------------------
(* The bundle *)

\* What fetch_inventory asks of a tree before a byte is written.
Fits(t) ==
    /\ t \in Trees
    /\ parse_inventory(t) /\ Files(t) # {} /\ projected_bundle_bytes(t) <= MaxBundle

LengthIn(t) == [e \in Files(t) |-> Length(e)]

\* What is left to be written when the files in w are.
Remaining(t, w) == SumFunctionOnSet(LengthIn(t), Files(t) \ w) + Cardinality(Files(t) \ w)

NoBundle == tree = NoTree /\ written = {} /\ bytes = 0

NoReport == report = Report("absent", {}, 0)

\* What is written and what is left have the length that was announced: every file but the
\* first comes with a separator.
Writing ==
    /\ Fits(tree)
    /\ written \subseteq Files(tree)
    /\ bytes \in Nat
    /\ bytes + Remaining(tree, written) - (IF written = {} THEN 1 ELSE 0)
         = projected_bundle_bytes(tree)

Whole ==
    /\ Fits(tree)
    /\ written = Files(tree)
    /\ bytes = projected_bundle_bytes(tree)

WorkerInv ==
    /\ worker \in {"off", "waiting", "workspace", "init", "fetch", "inventory",
                   "batch", "succeeding", "failing", "pending", "stopped"}
    /\ worker \in {"off", "waiting", "workspace", "init", "fetch", "inventory"} => NoBundle /\ NoReport
    /\ worker = "batch" => Writing /\ NoReport
    /\ worker = "succeeding" => Whole /\ report.status \in {"absent", "empty"}
    /\ worker = "failing" => NoBundle /\ report.status \in {"absent", "empty"}
    /\ worker \in {"pending", "stopped"} =>
         \/ NoBundle /\ report.status \in {"absent", "failure"}
         \/ Whole /\ report = Report("success", written, bytes)

\* The steps of the host after the worker's report, the bundle and the end of the worker.
Reported ==
    {"read_bundle", "stop_worker", "await_relay_receipt", "verify_relay_running", "signal_done",
     "await_proxy_terminal", "stop_proxy", "validate_outputs", "accepted"}

Taken == Reported \ {"read_bundle"}

Stopped == Taken \ {"stop_worker"}

\* The host takes the bundle the report vouches for, or one cut short that it does not accept,
\* and the worker ends after that.
TakingInv ==
    /\ host \in HostSteps \cup {"accepted", "failed"}
    /\ host \in {"start", "start_relay", "copy_grant", "grant_copied", "await_relay_ready",
                 "start_proxy", "await_proxy_ready", "start_worker"} => worker = "off"
    /\ host \in Reported => report.status = "success" /\ seen = report
    /\ host \in Taken => taken \in read_from
    /\ host = "accepted" => digest_matches(report, taken)
    /\ host \in Stopped => worker = "stopped"

BundleInv == WorkerInv /\ TakingInv

\* The selection of a tree is finite, and so are the sums over it.
LEMMA FilesFinite ==
    ASSUME NEW t \in Trees
    PROVE  /\ IsFiniteSet(Files(t)) /\ Files(t) \subseteq t
           /\ \A e \in Files(t) : LengthIn(t)[e] = Length(e) /\ Length(e) \in Nat
<1>1. Files(t) \subseteq t
  BY DEF Files, Selected
<1>2. IsFiniteSet(Files(t))
  BY <1>1, FS_Subset, TreesAssumption
<1>3. \A e \in Files(t) : e.meta \in Nat /\ e.size \in Nat
  BY <1>1, TreesAssumption
<1>4. QED
  BY <1>1, <1>2, <1>3 DEF LengthIn, Length

\* What is left is a natural number.
LEMMA RemainingNat ==
    ASSUME NEW t \in Trees, NEW w
    PROVE  /\ IsFiniteSet(Files(t) \ w)
           /\ SumFunctionOnSet(LengthIn(t), Files(t) \ w) \in Nat
           /\ Cardinality(Files(t) \ w) \in Nat
           /\ Remaining(t, w) \in Nat
<1>1. IsFiniteSet(Files(t) \ w)
  BY FilesFinite, FS_Subset
<1>2. SumFunctionOnSet(LengthIn(t), Files(t) \ w) \in Nat
  BY <1>1, FilesFinite, SumNat
<1>3. Cardinality(Files(t) \ w) \in Nat
  BY <1>1, FS_CardinalityType
<1>4. QED
  BY <1>1, <1>2, <1>3 DEF Remaining

\* All of it is left at first, nothing at the end.
LEMMA RemainingAll ==
    ASSUME NEW t \in Trees
    PROVE  /\ projected_bundle_bytes(t) = Frame + Remaining(t, {}) - 1
           /\ Remaining(t, Files(t)) = 0
<1>1. Files(t) \ {} = Files(t) /\ Files(t) \ Files(t) = {}
  OBVIOUS
<1>2. SumFunctionOnSet(LengthIn(t), {}) = 0 /\ Cardinality({}) = 0
  BY SumEmpty, FS_EmptySet
<1>3. Remaining(t, Files(t)) = 0
  BY <1>1, <1>2 DEF Remaining
<1>4. /\ SumFunctionOnSet(LengthIn(t), Files(t)) \in Nat
      /\ Cardinality(Files(t)) \in Nat
      /\ Remaining(t, {}) = SumFunctionOnSet(LengthIn(t), Files(t)) + Cardinality(Files(t))
  BY <1>1, RemainingNat DEF Remaining
<1>5. projected_bundle_bytes(t)
        = Frame + SumFunctionOnSet(LengthIn(t), Files(t)) + Cardinality(Files(t)) - 1
  BY DEF projected_bundle_bytes, LengthIn
<1>6. QED
  BY <1>3, <1>4, <1>5, RunnerAssumption

\* A selection with a file in it leaves something to be written.
LEMMA RemainingSome ==
    ASSUME NEW t \in Trees, Files(t) # {}
    PROVE  Remaining(t, {}) >= 1
<1>1. Files(t) \ {} = Files(t)
  OBVIOUS
<1>2. IsFiniteSet(Files(t))
  BY FilesFinite
<1>3. Cardinality(Files(t)) # 0
  BY <1>2, FS_EmptySet
<1>4. Cardinality(Files(t)) \in Nat /\ SumFunctionOnSet(LengthIn(t), Files(t)) \in Nat
  BY <1>1, RemainingNat
<1>5. QED
  BY <1>1, <1>3, <1>4 DEF Remaining

\* A file that is written takes its length and its separator.
LEMMA RemainingNext ==
    ASSUME NEW t \in Trees, NEW w, NEW e \in Files(t) \ w
    PROVE  Remaining(t, w) = Remaining(t, w \cup {e}) + Length(e) + 1
<1> DEFINE R == Files(t) \ w
<1>1. Files(t) \ (w \cup {e}) = R \ {e}
  OBVIOUS
<1>2. IsFiniteSet(R) /\ e \in R /\ \A x \in R : LengthIn(t)[x] \in Nat
  BY RemainingNat, FilesFinite
<1>3. /\ SumFunctionOnSet(LengthIn(t), R \ {e}) \in Nat
      /\ Cardinality(R) \in Nat /\ Cardinality(R \ {e}) \in Nat
  BY <1>1, RemainingNat
<1>4. LengthIn(t)[e] = Length(e) /\ Length(e) \in Nat
  BY FilesFinite
<1>5. /\ Remaining(t, w) = SumFunctionOnSet(LengthIn(t), R) + Cardinality(R)
      /\ Remaining(t, w \cup {e}) = SumFunctionOnSet(LengthIn(t), R \ {e}) + Cardinality(R \ {e})
  BY <1>1 DEF Remaining
<1> HIDE DEF R
<1>6. SumFunctionOnSet(LengthIn(t), R) = LengthIn(t)[e] + SumFunctionOnSet(LengthIn(t), R \ {e})
  BY <1>2, SumRemove
<1>7. Cardinality(R \ {e}) = Cardinality(R) - 1
  BY <1>2, FS_RemoveElement
<1>8. QED
  BY <1>3, <1>4, <1>5, <1>6, <1>7

\* What is written is never longer than what was announced, so never longer than allowed.
LEMMA BytesBounded ==
    (Writing \/ Whole \/ NoBundle) => bytes \in 0..MaxBundle
<1>1. CASE Writing
  <2>1. tree \in Trees /\ projected_bundle_bytes(tree) <= MaxBundle /\ Remaining(tree, written) \in Nat
    BY <1>1, RemainingNat DEF Writing, Fits
  <2>2. written = {} => Remaining(tree, written) >= 1
    BY <1>1, <2>1, RemainingSome DEF Writing, Fits
  <2>3. projected_bundle_bytes(tree) \in Int
    BY <2>1, RemainingAll, RemainingNat, RunnerAssumption
  <2>4. QED
    BY <1>1, <2>1, <2>2, <2>3, RunnerAssumption DEF Writing
<1>2. CASE Whole
  <2>1. tree \in Trees /\ projected_bundle_bytes(tree) <= MaxBundle
    BY <1>2 DEF Whole, Fits
  <2>2. Remaining(tree, {}) \in Nat /\ Remaining(tree, {}) >= 1
    BY <1>2, <2>1, RemainingNat, RemainingSome DEF Whole, Fits
  <2>3. QED
    BY <1>2, <2>1, <2>2, RemainingAll, RunnerAssumption DEF Whole
<1>3. CASE NoBundle
  BY <1>3, RunnerAssumption DEF NoBundle
<1>4. QED
  BY <1>1, <1>2, <1>3

\* There is no bundle and no report at first.
LEMMA InitBundle == Init => BundleInv
  BY DEF Init, RunnerInit, BundleInv, WorkerInv, TakingInv, NoBundle, NoReport, HostSteps,
         Reported, Taken, Stopped

\* What neither the worker nor the host does leaves the bundle alone.
LEMMA OthersKeepBundle ==
    BundleInv /\ UNCHANGED <<hostVars, runnerVars>> => BundleInv'
<1> SUFFICES ASSUME BundleInv, UNCHANGED <<hostVars, runnerVars>>
             PROVE  BundleInv'
  OBVIOUS
<1>1. UNCHANGED <<NoBundle, NoReport, Writing, Whole, read_from, digest_matches(report, taken)>>
  BY DEF NoBundle, NoReport, Writing, Whole, read_from, digest_matches, hostVars, runnerVars
<1>2. QED
  BY <1>1 DEF BundleInv, WorkerInv, TakingInv, hostVars, runnerVars

\* The worker's steps leave the host's steps as they are: the host waits for the report.
LEMMA RunnerKeepsTaking ==
    BundleInv /\ RunnerSteps => TakingInv'
<1> SUFFICES ASSUME BundleInv, RunnerSteps
             PROVE  TakingInv'
  OBVIOUS
<1>1. worker \notin {"off", "pending", "stopped"} /\ report.status # "success"
  BY DEF BundleInv, WorkerInv, NoReport, Report, RunnerSteps, Runner, runner_wait_for_request,
         prepare_workspace, git_init, git_fetch, Proceeds, fetch_inventory, read_batch_blob,
         close_bundle, runner_fails, write_new, write_success, write_failure
<1>2. host' = host /\ host \notin Reported /\ worker # "off"
  BY <1>1 DEF BundleInv, TakingInv, RunnerSteps, hostVars
<1>3. QED
  BY <1>2 DEF BundleInv, TakingInv, Reported, Taken, Stopped

\* The worker's steps, one by one.
LEMMA RunnerKeepsBundle == BundleInv /\ RunnerSteps => BundleInv'
<1> SUFFICES ASSUME BundleInv, RunnerSteps
             PROVE  WorkerInv'
  BY RunnerKeepsTaking DEF BundleInv
<1> USE DEF BundleInv
<1>1. ASSUME Fails, report.status \in {"absent", "empty"}
      PROVE  WorkerInv'
  BY <1>1 DEF Fails, WorkerInv, NoBundle
<1>2. CASE runner_wait_for_request \/ prepare_workspace \/ git_init \/ git_fetch
  BY <1>2 DEF runner_wait_for_request, prepare_workspace, git_init, git_fetch, Proceeds,
              WorkerInv, NoBundle, NoReport
<1>3. CASE fetch_inventory
  <2>1. NoBundle /\ NoReport
    BY <1>3 DEF fetch_inventory, WorkerInv
  <2>2. PICK t \in Trees :
          IF parse_inventory(t) /\ Files(t) # {} /\ projected_bundle_bytes(t) <= MaxBundle
          THEN worker' = "batch" /\ tree' = t /\ bytes' = Frame /\ UNCHANGED <<written, report>>
          ELSE Fails
    BY <1>3 DEF fetch_inventory
  <2>3. CASE Fails
    BY <1>1, <2>1, <2>3 DEF NoReport, Report
  <2>4. CASE /\ Fits(t)
             /\ worker' = "batch" /\ tree' = t /\ bytes' = Frame /\ UNCHANGED <<written, report>>
    <3>1. Writing'
      BY <2>1, <2>4, RemainingAll, RemainingNat, RunnerAssumption DEF Writing, NoBundle, Fits
    <3>2. QED
      BY <2>1, <2>4, <3>1 DEF WorkerInv, NoReport
  <2>5. QED
    BY <2>2, <2>3, <2>4 DEF Fits
<1>4. CASE read_batch_blob
  <2>1. Writing /\ NoReport /\ tree \in Trees
    BY <1>4 DEF read_batch_blob, WorkerInv, Writing, Fits
  <2>2. PICK e \in Files(tree) \ written :
          /\ written' = written \cup {e}
          /\ bytes' = bytes + Length(e) + (IF written = {} THEN 0 ELSE 1)
    BY <1>4, <2>1 DEF read_batch_blob, Writing
  <2>3. UNCHANGED <<worker, tree, report>>
    BY <1>4 DEF read_batch_blob
  <2>4. Length(e) \in Nat /\ Remaining(tree, written) \in Nat /\ Remaining(tree, written \cup {e}) \in Nat
    BY <2>1, FilesFinite, RemainingNat
  <2>5. Remaining(tree, written) = Remaining(tree, written \cup {e}) + Length(e) + 1
    BY <2>1, RemainingNext
  <2>6. Remaining(tree, written)' = Remaining(tree, written \cup {e}) /\ written' # {}
    BY <2>2, <2>3
  <2>7. bytes' \in Nat /\ bytes' + Remaining(tree, written)' = projected_bundle_bytes(tree)
    BY <2>1, <2>2, <2>4, <2>5, <2>6 DEF Writing
  <2>8. Writing'
    BY <2>1, <2>2, <2>3, <2>4, <2>6, <2>7 DEF Writing
  <2>9. QED
    BY <1>4, <2>1, <2>3, <2>8 DEF read_batch_blob, WorkerInv, NoReport
<1>5. CASE close_bundle
  <2>1. Writing /\ NoReport
    BY <1>5 DEF close_bundle, WorkerInv
  <2>2. CASE Fails
    BY <1>1, <2>1, <2>2 DEF NoReport, Report
  <2>3. CASE /\ bytes = projected_bundle_bytes(tree)
             /\ worker' = "succeeding" /\ UNCHANGED <<tree, written, bytes, report>>
    <3>1. Whole'
      BY <1>5, <2>1, <2>3 DEF close_bundle, Whole, Writing
    <3>2. QED
      BY <2>1, <2>3, <3>1 DEF WorkerInv, NoReport, Report
  <2>4. QED
    BY <1>5, <2>2, <2>3 DEF close_bundle
<1>6. CASE runner_fails
  BY <1>1, <1>6 DEF runner_fails, WorkerInv, NoReport, Report
<1>7. CASE write_new
  <2>1. UNCHANGED <<NoBundle, Whole>> /\ report'.status = "empty"
    BY <1>7 DEF write_new, NoBundle, Whole, Report
  <2>2. QED
    BY <1>7, <2>1 DEF write_new, WorkerInv
<1>8. CASE write_success
  <2>1. Whole /\ Whole'
    BY <1>8 DEF write_success, WorkerInv, Whole
  <2>2. QED
    BY <1>8, <2>1 DEF write_success, WorkerInv
<1>9. CASE write_failure
  BY <1>9 DEF write_failure, WorkerInv, NoBundle, Report
<1>10. QED
  BY <1>2, <1>3, <1>4, <1>5, <1>6, <1>7, <1>8, <1>9 DEF RunnerSteps, Runner

\* The host starts the worker, reads what it left and stops it.
LEMMA HostKeepsBundle == BundleInv /\ Host => BundleInv'
<1> SUFFICES ASSUME BundleInv, Host
             PROVE  BundleInv'
  OBVIOUS
<1> USE DEF BundleInv, TakingInv, HostSteps, Reported, Taken, Stopped, Advances
<1>1. ASSUME UNCHANGED <<tree, written, bytes, report>>
      PROVE  UNCHANGED <<NoBundle, NoReport, Writing, Whole, read_from>>
  BY <1>1 DEF NoBundle, NoReport, Writing, Whole, read_from
<1>2. CASE UNCHANGED runnerVars
  <2>1. WorkerInv' /\ UNCHANGED read_from
    BY <1>1, <1>2 DEF WorkerInv, runnerVars
  <2>2. CASE begin_session \/ start_relay \/ copy_grant \/ await_relay_ready \/ start_proxy \/ await_proxy_ready
    BY <1>2, <2>1, <2>2 DEF begin_session, start_relay, copy_grant, await_relay_ready, start_proxy,
                            await_proxy_ready, runnerVars
  <2>3. CASE await_worker_report \/ read_bundle
    BY <1>2, <2>1, <2>3 DEF await_worker_report, read_bundle, runnerVars
  <2>4. CASE await_relay_receipt \/ verify_relay_running \/ signal_done
    BY <1>2, <2>1, <2>4 DEF await_relay_receipt, verify_relay_running, signal_done, runnerVars
  <2>5. CASE await_proxy_terminal \/ stop_proxy \/ validate_outputs
    BY <1>2, <2>1, <2>5 DEF await_proxy_terminal, stop_proxy, validate_outputs, runnerVars,
                            digest_matches
  <2>6. CASE start_worker \/ stop_worker
    BY <1>2, <2>1, <2>6 DEF start_worker, stop_worker, runnerVars
  <2>7. QED
    BY <2>2, <2>3, <2>4, <2>5, <2>6 DEF Host
<1>3. CASE start_worker
  BY <1>1, <1>3 DEF start_worker, WorkerInv
<1>4. CASE stop_worker
  <2>1. worker \in {"pending", "stopped"} /\ Whole /\ report = Report("success", written, bytes)
    BY <1>4 DEF stop_worker, WorkerInv, NoReport, Report
  <2>2. Whole' /\ WorkerInv' /\ UNCHANGED read_from
    BY <1>1, <1>4, <2>1 DEF stop_worker, WorkerInv
  <2>3. QED
    BY <1>4, <2>2 DEF stop_worker
<1>5. QED
  BY <1>2, <1>3, <1>4 DEF Host, begin_session, start_relay, copy_grant, await_relay_ready,
       start_proxy, await_proxy_ready, await_worker_report, read_bundle, await_relay_receipt,
       verify_relay_running, signal_done, await_proxy_terminal, stop_proxy, validate_outputs

\* A session that fails drops the worker, its bundle and its report.
LEMMA FailureKeepsBundle == BundleInv /\ session_fails => BundleInv'
  BY DEF BundleInv, WorkerInv, TakingInv, NoBundle, Report, HostSteps, Reported, Taken, Stopped,
         session_fails

\* Every step keeps BundleInv.
LEMMA NextBundle == BundleInv /\ [Next]_vars => BundleInv'
<1> SUFFICES ASSUME BundleInv, [Next]_vars
             PROVE  BundleInv'
  OBVIOUS
<1>1. CASE ProxySteps \/ RelaySteps \/ UNCHANGED vars
  BY <1>1, OthersKeepBundle DEF ProxySteps, RelaySteps, vars
<1>2. QED
  BY <1>1, RunnerKeepsBundle, HostKeepsBundle, FailureKeepsBundle DEF Next

\* A success report is the whole selection of a tree that fits.
LEMMA BundleImplies == BundleInv => BundleIsSelection
<1> SUFFICES ASSUME BundleInv
             PROVE  BundleIsSelection
  OBVIOUS
<1>1. ASSUME report.status = "success"
      PROVE  Whole /\ report = Report("success", written, bytes)
  BY <1>1 DEF BundleInv, WorkerInv, NoReport, Report
<1>2. ASSUME report.status = "success"
      PROVE  /\ report.files = Files(tree) /\ report.files # {}
             /\ report.length = projected_bundle_bytes(tree) /\ report.length <= MaxBundle
             /\ report.files = written /\ report.length = bytes
             /\ tree \in Trees /\ parse_inventory(tree)
  BY <1>1, <1>2 DEF Whole, Fits, Report
<1>3. ASSUME report.status = "success"
      PROVE  /\ \A e, f \in report.files : e # f => e.folded # f.folded
             /\ \A e \in report.files : e.safe /\ e.size <= MaxFileBytes
             /\ Files(tree) \subseteq Selected(tree)
  BY <1>2, <1>3 DEF parse_inventory, collision_free, Files, Selected
<1>4. ASSUME report.status = "success"
      PROVE  Cardinality(report.files) <= MaxFiles
  <2>1. IsFiniteSet(Selected(tree))
    BY <1>2, <1>4, TreesAssumption, FS_Subset DEF Selected
  <2>2. Cardinality(Files(tree)) <= Cardinality(Selected(tree))
    BY <1>3, <1>4, <2>1, FS_Subset
  <2>3. Cardinality(Files(tree)) \in Nat /\ Cardinality(Selected(tree)) \in Nat
    BY <1>2, <1>4, <2>1, FilesFinite, FS_CardinalityType
  <2>4. QED
    BY <1>2, <1>4, <2>2, <2>3, RunnerAssumption DEF parse_inventory
<1>5. QED
  BY <1>2, <1>3, <1>4 DEF BundleIsSelection

\* The digest of a bundle that was cut short is not the report's, as no selection is empty.
LEMMA AcceptedImplies == BundleInv => AcceptedIsVouchedFor
<1> SUFFICES ASSUME BundleInv, host = "accepted"
             PROVE  /\ report.status = "success"
                    /\ taken = [files |-> report.files, length |-> report.length]
                    /\ taken.files = Files(tree)
  BY DEF AcceptedIsVouchedFor
<1>1. report.status = "success" /\ taken \in read_from /\ digest_matches(report, taken)
  BY DEF BundleInv, TakingInv, Reported, Taken
<1>2. Whole /\ report = Report("success", written, bytes)
  BY <1>1 DEF BundleInv, WorkerInv, NoReport, Report
<1>3. report.files = written /\ report.length = bytes /\ written = Files(tree) /\ written # {}
  BY <1>2 DEF Whole, Fits, Report
<1>4. taken = [files |-> written, length |-> bytes]
  BY <1>1, <1>3 DEF read_from, digest_matches
<1>5. QED
  BY <1>1, <1>3, <1>4
-----------------------------------------------------------------------------
(* The traffic *)

Connection ==
    [phase : Tasks \cup {"none", "queued", "ended", "broken", "closed"},
     outcome : {None, "ok", "byte_limit", "failed"},
     up : Nat, down : Nat, open : SUBSET Directions,
     loaded : {None} \cup [direction : Directions, current : Nat]]

\* A connection has moved bytes only while its task has them in hand, and one that failed and
\* is recorded is in the observations.
TaskInv(c) ==
    /\ conn[c].phase \notin {"open", "finished", "recorded"} =>
         conn[c] = [NoConnection EXCEPT !.phase = conn[c].phase]
    /\ conn[c].phase = "open" => conn[c].outcome = None
    /\ conn[c].phase # "open" => conn[c].loaded = None
    /\ conn[c].loaded # None => conn[c].loaded.direction \in conn[c].open
    /\ conn[c].phase \in {"finished", "recorded"} => conn[c].outcome \in {"ok", "byte_limit", "failed"}
    /\ conn[c].phase = "recorded" /\ conn[c].outcome # "ok" => observed.rejected > 0

TunnelInv ==
    /\ conn \in [Connections -> Connection]
    /\ \A c \in Connections : TaskInv(c)
    /\ limit \in 1..MaxConnections
    /\ total \in 0..MaxTunnel
    /\ observed \in Observations
    /\ published = None \/ published \in Observations
    /\ done \in BOOLEAN

SumInv ==
    Alive /\ NoneRejected =>
      observed.sent + observed.received + SumFunctionOnSet(Unrecorded, Connections) = total

AllClosed == \A c \in Connections : conn[c].phase \in {"none", "closed"}

\* No connection is opened or left once the proxy knows that the worker is done, and only
\* then is a report final.
QuiescenceInv ==
    /\ proxy \in {"off", "waiting", "resolving", "binding", "publishing", "serving",
                  "rejecting", "draining", "quiesced", "ended", "failed", "stopped"}
    /\ proxy = "off" => /\ conn = [c \in Connections |-> NoConnection]
                        /\ total = 0 /\ observed = NoObservations /\ published = None
    /\ proxy \in {"draining", "quiesced", "ended"} =>
         done /\ \A c \in Connections : conn[c].phase # "queued"
    /\ proxy \in {"quiesced", "ended"} => AllClosed
    /\ observed.terminal => proxy \in {"quiesced", "ended", "stopped"}
    /\ published # None /\ published.terminal /\ Alive => proxy = "ended" /\ published = observed
    /\ done => host \in {"await_proxy_terminal", "stop_proxy", "validate_outputs", "accepted", "failed"}

\* The host has read the final report, and nothing has moved since.
FinalInv ==
    /\ host \in {"start", "start_relay", "copy_grant", "grant_copied", "await_relay_ready",
                 "start_proxy"} => proxy = "off"
    /\ proxyReport = None \/ proxyReport \in Observations
    /\ host = "stop_proxy" => proxy = "ended"
    /\ host \in {"validate_outputs", "accepted", "failed"} => proxy = "stopped"
    /\ host \in {"stop_proxy", "validate_outputs", "accepted"} =>
         /\ proxyReport = observed
         /\ AllClosed
         /\ observed.rejected = 0 => observed.sent + observed.received = total
    /\ host = "accepted" => proxyReport.rejected = 0

TrafficInv == TunnelInv /\ SumInv /\ QuiescenceInv /\ FinalInv

\* The bytes a connection has in hand.
Moved(k) == IF k.phase \in {"open", "finished"} THEN k.up + k.down ELSE 0

\* What a connection has not recorded is what it has in hand.
LEMMA UnrecordedNat ==
    ASSUME conn \in [Connections -> Connection]
    PROVE  \A c \in Connections : Unrecorded[c] = Moved(conn[c]) /\ Moved(conn[c]) \in Nat
  BY DEF Unrecorded, Moved, Connection

\* If one connection changes, the sum changes by what it has in hand.
LEMMA SumStep ==
    ASSUME TunnelInv, SumInv, Alive, NEW c \in Connections, NEW k \in Connection,
           conn' = [conn EXCEPT ![c] = k],
           observed' \in Observations, total' \in Nat,
           NoneRejected' =>
             /\ NoneRejected
             /\ observed'.sent + observed'.received + Moved(k) + total
                  = observed.sent + observed.received + Moved(conn[c]) + total'
    PROVE  SumInv'
<1> SUFFICES ASSUME NoneRejected'
             PROVE  (observed.sent + observed.received
                       + SumFunctionOnSet(Unrecorded, Connections) = total)'
  BY DEF SumInv
<1>1. conn \in [Connections -> Connection] /\ conn' \in [Connections -> Connection]
  BY DEF TunnelInv
<1>2. \A d \in Connections : Unrecorded[d] = Moved(conn[d]) /\ Moved(conn[d]) \in Nat
  BY <1>1, UnrecordedNat
<1>3. \A d \in Connections : Unrecorded'[d] = Moved(conn'[d]) /\ Moved(conn'[d]) \in Nat
  BY <1>1 DEF Unrecorded, Moved, Connection
<1>4. conn'[c] = k /\ \A d \in Connections \ {c} : conn'[d] = conn[d]
  BY <1>1
<1> DEFINE f == Unrecorded
           g == Unrecorded'
<1>5. /\ \A d \in Connections : f[d] \in Nat /\ g[d] \in Nat
      /\ \A d \in Connections \ {c} : f[d] = g[d]
      /\ f[c] = Moved(conn[c]) /\ g[c] = Moved(k)
  BY <1>2, <1>3, <1>4
<1> HIDE DEF f, g
<1>6. IsFiniteSet(Connections)
  BY ProxyAssumption
<1>7. /\ SumFunctionOnSet(f, Connections) \in Nat /\ SumFunctionOnSet(g, Connections) \in Nat
      /\ SumFunctionOnSet(g, Connections) + f[c] = SumFunctionOnSet(f, Connections) + g[c]
  BY <1>5, <1>6, SumUpdate
<1>8. observed.sent + observed.received + SumFunctionOnSet(f, Connections) = total
  BY DEF SumInv, f
<1>9. /\ observed.sent \in Nat /\ observed.received \in Nat /\ total \in Nat
      /\ observed'.sent \in Nat /\ observed'.received \in Nat
  BY DEF TunnelInv, Observations
<1>10. f[c] \in Nat /\ g[c] \in Nat
  BY <1>5
<1>11. observed'.sent + observed'.received + g[c] + total = observed.sent + observed.received + f[c] + total'
  BY <1>5
<1>12. observed'.sent + observed'.received + SumFunctionOnSet(g, Connections) = total'
  BY <1>7, <1>8, <1>9, <1>10, <1>11
<1>13. QED
  BY <1>12 DEF g

\* The other connections keep what they had.
LEMMA TunnelStep ==
    ASSUME TunnelInv, NEW c \in Connections, NEW k \in Connection,
           conn' = [conn EXCEPT ![c] = k], TaskInv(c)',
           observed' \in Observations, observed'.rejected >= observed.rejected,
           published' \in {published, observed'},
           total' \in 0..MaxTunnel, UNCHANGED <<limit, done>>
    PROVE  TunnelInv'
<1>1. conn' \in [Connections -> Connection]
  BY DEF TunnelInv
<1>2. ASSUME NEW d \in Connections, d # c
      PROVE  TaskInv(d)'
  <2>1. conn'[d] = conn[d]
    BY <1>2 DEF TunnelInv
  <2>2. TaskInv(d) /\ observed.rejected \in Nat /\ observed'.rejected \in Nat
    BY DEF TunnelInv, Observations
  <2>3. QED
    BY <2>1, <2>2 DEF TaskInv
<1>3. \A d \in Connections : TaskInv(d)'
  BY <1>2
<1>4. QED
  BY <1>1, <1>3 DEF TunnelInv

\* A task that is there keeps the proxy from its final report, so the host waits for it.
LEMMA FinalStep ==
    ASSUME TrafficInv, Alive, NEW c \in Connections, NEW k,
           conn' = [conn EXCEPT ![c] = k],
           conn[c].phase \notin {"none", "closed"}, k.phase # "queued",
           observed'.terminal = observed.terminal,
           published' \in {published, observed'},
           UNCHANGED <<proxy, done, hostVars>>
    PROVE  QuiescenceInv' /\ FinalInv'
<1>1. proxy \notin {"off", "quiesced", "ended", "failed", "stopped"} /\ ~observed.terminal
  BY DEF TrafficInv, QuiescenceInv, AllClosed, Alive
<1>2. host \notin {"stop_proxy", "validate_outputs", "accepted", "failed"}
  BY <1>1 DEF TrafficInv, FinalInv
<1>3. ~(published # None /\ published.terminal)
  BY <1>1 DEF TrafficInv, QuiescenceInv, Alive
<1>4. \A d \in Connections : conn[d].phase # "queued" => conn'[d].phase # "queued"
  BY DEF TrafficInv, TunnelInv
<1>5. QuiescenceInv'
  BY <1>1, <1>3, <1>4 DEF TrafficInv, QuiescenceInv, hostVars
<1>6. FinalInv'
  BY <1>1, <1>2 DEF TrafficInv, FinalInv, hostVars
<1>7. QED
  BY <1>5, <1>6

\* A step of a task: what has to be shown is about its own connection.
LEMMA TaskStep ==
    ASSUME TrafficInv, Alive, NEW c \in Connections, NEW k \in Connection,
           conn' = [conn EXCEPT ![c] = k], TaskInv(c)',
           conn[c].phase \notin {"none", "closed"}, k.phase # "queued",
           observed' \in Observations, observed'.rejected >= observed.rejected,
           observed'.terminal = observed.terminal,
           published' \in {published, observed'},
           total' \in 0..MaxTunnel, UNCHANGED <<proxy, limit, done, hostVars>>,
           observed'.rejected = 0 /\ k.outcome \in {None, "ok"} =>
             /\ conn[c].outcome \in {None, "ok"}
             /\ observed'.sent + observed'.received + Moved(k) + total
                  = observed.sent + observed.received + Moved(conn[c]) + total'
    PROVE  TrafficInv'
<1>1. TunnelInv'
  BY TunnelStep DEF TrafficInv
<1>2. QuiescenceInv' /\ FinalInv'
  BY FinalStep
<1>3. ASSUME NoneRejected'
      PROVE  /\ NoneRejected
             /\ observed'.sent + observed'.received + Moved(k) + total
                  = observed.sent + observed.received + Moved(conn[c]) + total'
  <2>1. observed'.rejected = 0 /\ \A d \in Connections : conn'[d].outcome \in {None, "ok"}
    BY <1>3 DEF NoneRejected
  <2>2. conn'[c] = k /\ \A d \in Connections \ {c} : conn'[d] = conn[d]
    BY DEF TrafficInv, TunnelInv
  <2>3. observed.rejected \in Nat /\ observed'.rejected \in Nat
    BY DEF TrafficInv, TunnelInv, Observations
  <2>4. observed.rejected = 0
    BY <2>1, <2>3
  <2>5. QED
    BY <2>1, <2>2, <2>4 DEF NoneRejected
<1>4. SumInv'
  <2>1. TunnelInv /\ SumInv /\ total' \in Nat
    BY DEF TrafficInv
  <2>2. QED
    BY <1>3, <2>1, SumStep
<1>5. QED
  BY <1>1, <1>2, <1>4 DEF TrafficInv

\* A connection that ends with an error is not counted, whatever it had moved.
LEMMA EndsKeepTraffic ==
    ASSUME TrafficInv, Alive, NEW c \in Connections, NEW o \in {"ok", "byte_limit", "failed"},
           Ends(c, o), conn[c].phase \in {"request", "open"}, o = "ok" => conn[c].phase = "open",
           UNCHANGED <<proxy, limit, total, observed, published, done, hostVars>>
    PROVE  TrafficInv'
<1> DEFINE k == [conn[c] EXCEPT !.phase = "finished", !.outcome = o, !.open = {}, !.loaded = None]
<1>1. conn \in [Connections -> Connection] /\ conn[c] \in Connection /\ TaskInv(c)
  BY DEF TrafficInv, TunnelInv
<1>2. k \in Connection /\ conn' = [conn EXCEPT ![c] = k]
  BY <1>1 DEF Connection, Tasks, Ends
<1>3. k.phase = "finished" /\ k.outcome = o /\ k.up = conn[c].up /\ k.down = conn[c].down /\ k.loaded = None
  BY <1>1 DEF Connection
<1> HIDE DEF k
<1>4. conn'[c] = k
  BY <1>1, <1>2
<1>5. TaskInv(c)'
  BY <1>3, <1>4 DEF TaskInv
<1>6. o = "ok" => Moved(k) = Moved(conn[c]) /\ conn[c].outcome = None
  BY <1>1, <1>3 DEF Moved, TaskInv
<1>7. observed' \in Observations /\ observed'.rejected >= observed.rejected /\ total' \in 0..MaxTunnel
  BY DEF TrafficInv, TunnelInv, Observations
<1>8. observed'.rejected = 0 /\ k.outcome \in {None, "ok"} =>
             /\ conn[c].outcome \in {None, "ok"}
             /\ observed'.sent + observed'.received + Moved(k) + total
                  = observed.sent + observed.received + Moved(conn[c]) + total'
  BY <1>3, <1>6, ProxyAssumption
<1>9. QED
  BY <1>2, <1>3, <1>5, <1>7, <1>8, TaskStep

\* A request opens the tunnel, with nothing moved, or is denied.
LEMMA HandleKeepsTraffic ==
    ASSUME TrafficInv, NEW c \in Connections, handle_connection(c), UNCHANGED hostVars
    PROVE  TrafficInv'
<1>1. /\ Alive /\ conn[c].phase = "request"
      /\ UNCHANGED <<proxy, limit, total, observed, published, done>>
  BY DEF handle_connection
<1>2. CASE Ends(c, "failed")
  BY <1>1, <1>2, EndsKeepTraffic
<1>3. CASE conn' = [conn EXCEPT ![c].phase = "open", ![c].open = Directions]
  <2> DEFINE k == [conn[c] EXCEPT !.phase = "open", !.open = Directions]
  <2>1. conn \in [Connections -> Connection] /\ conn[c] \in Connection /\ TaskInv(c)
    BY DEF TrafficInv, TunnelInv
  <2>2. conn[c] = [NoConnection EXCEPT !.phase = "request"]
    BY <1>1, <2>1 DEF TaskInv
  <2>3. k \in Connection /\ conn' = [conn EXCEPT ![c] = k]
    BY <1>3, <2>1 DEF Connection, Tasks
  <2>4. k.phase = "open" /\ k.outcome = None /\ k.up = 0 /\ k.down = 0 /\ k.loaded = None
    BY <2>2 DEF NoConnection
  <2> HIDE DEF k
  <2>5. conn'[c] = k
    BY <2>1, <2>3
  <2>6. TaskInv(c)'
    BY <2>4, <2>5 DEF TaskInv
  <2>7. Moved(k) = 0 /\ Moved(conn[c]) = 0 /\ conn[c].outcome = None
    BY <2>2, <2>4 DEF Moved, NoConnection
  <2>8. observed' \in Observations /\ observed'.rejected >= observed.rejected /\ total' \in 0..MaxTunnel
    BY <1>1 DEF TrafficInv, TunnelInv, Observations
  <2>9. QED
    BY <1>1, <2>3, <2>4, <2>6, <2>7, <2>8, TaskStep
<1>4. QED
  BY <1>2, <1>3 DEF handle_connection

\* Loading the counter moves nothing.
LEMMA CopyKeepsTraffic ==
    ASSUME TrafficInv, NEW c \in Connections, copy_limited(c), UNCHANGED hostVars
    PROVE  TrafficInv'
<1>1. /\ Alive /\ conn[c].phase = "open"
      /\ UNCHANGED <<proxy, limit, total, observed, published, done>>
  BY DEF copy_limited
<1>2. PICK d \in conn[c].open :
        conn' = [conn EXCEPT ![c].loaded = [direction |-> d, current |-> total]]
  BY DEF copy_limited
<1> DEFINE k == [conn[c] EXCEPT !.loaded = [direction |-> d, current |-> total]]
<1>3. conn \in [Connections -> Connection] /\ conn[c] \in Connection /\ TaskInv(c) /\ total \in Nat
  BY DEF TrafficInv, TunnelInv
<1>4. k \in Connection /\ conn' = [conn EXCEPT ![c] = k]
  <2>1. [direction |-> d, current |-> total] \in [direction : Directions, current : Nat]
    BY <1>3 DEF Connection
  <2>2. QED
    BY <1>2, <1>3, <2>1 DEF Connection
<1>5. /\ k.phase = "open" /\ k.outcome = conn[c].outcome /\ k.up = conn[c].up /\ k.down = conn[c].down
      /\ k.open = conn[c].open /\ k.loaded.direction = d
  BY <1>1, <1>3 DEF Connection
<1> HIDE DEF k
<1>6. conn'[c] = k
  BY <1>3, <1>4
<1>7. TaskInv(c)'
  BY <1>1, <1>3, <1>5, <1>6 DEF TaskInv
<1>8. Moved(k) = Moved(conn[c]) /\ conn[c].outcome = None
  BY <1>1, <1>3, <1>5 DEF Moved, TaskInv
<1>9. observed' \in Observations /\ observed'.rejected >= observed.rejected /\ total' \in 0..MaxTunnel
  BY <1>1 DEF TrafficInv, TunnelInv, Observations
<1>10. QED
  BY <1>1, <1>4, <1>5, <1>7, <1>8, <1>9, TaskStep

\* A direction that ends moves nothing.
LEMMA DirectionKeepsTraffic ==
    ASSUME TrafficInv, NEW c \in Connections, direction_ends(c), UNCHANGED hostVars
    PROVE  TrafficInv'
<1>1. /\ Alive /\ conn[c].phase = "open" /\ conn[c].loaded = None
      /\ UNCHANGED <<proxy, limit, total, observed, published, done>>
  BY DEF direction_ends
<1>2. CASE Ends(c, "ok")
  BY <1>1, <1>2, EndsKeepTraffic
<1>3. ASSUME NEW d, conn' = [conn EXCEPT ![c].open = @ \ {d}]
      PROVE  TrafficInv'
  <2> DEFINE k == [conn[c] EXCEPT !.open = @ \ {d}]
  <2>1. conn \in [Connections -> Connection] /\ conn[c] \in Connection /\ TaskInv(c)
    BY DEF TrafficInv, TunnelInv
  <2>2. k \in Connection /\ conn' = [conn EXCEPT ![c] = k]
    BY <1>3, <2>1 DEF Connection
  <2>3. k.phase = "open" /\ k.outcome = conn[c].outcome /\ k.up = conn[c].up /\ k.down = conn[c].down /\ k.loaded = None
    BY <1>1, <2>1 DEF Connection
  <2> HIDE DEF k
  <2>4. conn'[c] = k
    BY <2>1, <2>2
  <2>5. TaskInv(c)'
    BY <1>1, <2>1, <2>3, <2>4 DEF TaskInv
  <2>6. Moved(k) = Moved(conn[c]) /\ conn[c].outcome = None
    BY <1>1, <2>1, <2>3 DEF Moved, TaskInv
  <2>7. observed' \in Observations /\ observed'.rejected >= observed.rejected /\ total' \in 0..MaxTunnel
    BY <1>1 DEF TrafficInv, TunnelInv, Observations
  <2>8. QED
    BY <1>1, <2>2, <2>3, <2>5, <2>6, <2>7, TaskStep
<1>4. QED
  BY <1>2, <1>3 DEF direction_ends

\* A connection that fails or times out ends with an error.
LEMMA FailingKeepsTraffic ==
    ASSUME TrafficInv, NEW c \in Connections,
           connection_fails(c) \/ connection_times_out(c), UNCHANGED hostVars
    PROVE  TrafficInv'
  BY EndsKeepTraffic DEF connection_fails, connection_times_out

\* The exchange that takes place reserves what the connection then moves.
LEMMA ReserveKeepsTraffic ==
    ASSUME TrafficInv, NEW c \in Connections, reserve_bytes(c), UNCHANGED hostVars
    PROVE  TrafficInv'
<1> DEFINE l == conn[c].loaded
<1>1. /\ Alive /\ l # None
      /\ UNCHANGED <<proxy, limit, observed, published, done>>
  BY DEF reserve_bytes
<1>2. conn \in [Connections -> Connection] /\ conn[c] \in Connection /\ TaskInv(c) /\ total \in 0..MaxTunnel
  BY DEF TrafficInv, TunnelInv
<1>3. conn[c].phase = "open" /\ conn[c].outcome = None
  BY <1>1, <1>2 DEF TaskInv
<1>4. l \in [direction : Directions, current : Nat]
  BY <1>1, <1>2 DEF Connection
<1>5. observed' \in Observations /\ observed'.rejected >= observed.rejected
  BY <1>1 DEF TrafficInv, TunnelInv, Observations
<1>6. CASE Ends(c, "byte_limit") /\ UNCHANGED total
  BY <1>1, <1>3, <1>6, EndsKeepTraffic
<1>7. CASE /\ total = l.current /\ total + 1 <= MaxTunnel /\ total' = total + 1
           /\ conn' = [conn EXCEPT ![c].loaded = None,
                                   ![c].up = @ + (IF l.direction = "up" THEN 1 ELSE 0),
                                   ![c].down = @ + (IF l.direction = "down" THEN 1 ELSE 0)]
  <2> DEFINE k == [conn[c] EXCEPT !.loaded = None,
                                  !.up = @ + (IF l.direction = "up" THEN 1 ELSE 0),
                                  !.down = @ + (IF l.direction = "down" THEN 1 ELSE 0)]
  <2> DEFINE u == conn[c].up + (IF l.direction = "up" THEN 1 ELSE 0)
             v == conn[c].down + (IF l.direction = "down" THEN 1 ELSE 0)
  <2>0. u \in Nat /\ v \in Nat
    BY <1>2 DEF Connection
  <2>1. k \in Connection /\ conn' = [conn EXCEPT ![c] = k]
    <3>1. k = [conn[c] EXCEPT !.loaded = None, !.up = u, !.down = v]
      BY <1>2
    <3>2. conn' = [conn EXCEPT ![c] = k]
      BY <1>2, <1>7
    <3> HIDE DEF u, v, k
    <3>3. QED
      BY <1>2, <2>0, <3>1, <3>2 DEF Connection
  <2>2. /\ k.phase = conn[c].phase /\ k.outcome = conn[c].outcome /\ k.loaded = None
        /\ k.up = conn[c].up + (IF l.direction = "up" THEN 1 ELSE 0)
        /\ k.down = conn[c].down + (IF l.direction = "down" THEN 1 ELSE 0)
    BY <1>2 DEF Connection
  <2> HIDE DEF k
  <2>3. conn'[c] = k
    BY <1>2, <2>1
  <2>4. TaskInv(c)'
    BY <1>3, <2>2, <2>3 DEF TaskInv
  <2>5. conn[c].up \in Nat /\ conn[c].down \in Nat /\ l.direction \in {"up", "down"}
    BY <1>2, <1>4 DEF Connection, Directions
  <2>6. k.up + k.down = conn[c].up + conn[c].down + 1
    BY <2>2, <2>5
  <2>7. Moved(k) = Moved(conn[c]) + 1 /\ Moved(conn[c]) \in Nat
    BY <1>3, <2>2, <2>5, <2>6 DEF Moved
  <2>8. total' \in 0..MaxTunnel
    BY <1>2, <1>7, ProxyAssumption
  <2>9. observed.sent \in Nat /\ observed.received \in Nat
    BY DEF TrafficInv, TunnelInv, Observations
  <2>10. observed'.sent + observed'.received + Moved(k) + total
           = observed.sent + observed.received + Moved(conn[c]) + total'
    <3>1. observed' = observed /\ total \in Nat /\ total' = total + 1
      BY <1>1, <1>2, <1>7
    <3>2. QED
      BY <2>7, <2>9, <3>1
  <2>11. QED
    BY <1>1, <1>3, <1>5, <2>1, <2>2, <2>4, <2>8, <2>10, TaskStep
<1>8. CASE conn' = [conn EXCEPT ![c].loaded.current = total] /\ UNCHANGED total
  <2> DEFINE k == [conn[c] EXCEPT !.loaded = [l EXCEPT !.current = total]]
  <2>1. [l EXCEPT !.current = total] \in [direction : Directions, current : Nat]
        /\ [l EXCEPT !.current = total].direction = l.direction
    BY <1>2, <1>4
  <2>2. k \in Connection /\ conn' = [conn EXCEPT ![c] = k]
    BY <1>2, <1>8, <2>1 DEF Connection
  <2>3. /\ k.phase = conn[c].phase /\ k.outcome = conn[c].outcome /\ k.open = conn[c].open
        /\ k.up = conn[c].up /\ k.down = conn[c].down /\ k.loaded.direction = l.direction
    BY <1>2, <2>1 DEF Connection
  <2> HIDE DEF k
  <2>4. conn'[c] = k
    BY <1>2, <2>2
  <2>5. TaskInv(c)'
    BY <1>1, <1>2, <1>3, <2>3, <2>4 DEF TaskInv
  <2>6. Moved(k) = Moved(conn[c])
    BY <2>3 DEF Moved
  <2>7. QED
    BY <1>1, <1>2, <1>3, <1>5, <1>8, <2>2, <2>3, <2>5, <2>6, TaskStep
<1>9. QED
  <2>1. l.current \in Nat /\ MaxTunnel \in Nat
    BY <1>4, ProxyAssumption
  <2>2. QED
    BY <1>6, <1>7, <1>8, <2>1 DEF reserve_bytes

\* What a connection has in hand goes into the observations, all at once.
LEMMA RecordKeepsTraffic ==
    ASSUME TrafficInv, NEW c \in Connections, record_outcome(c), UNCHANGED hostVars
    PROVE  TrafficInv'
<1>1. /\ Alive /\ conn[c].phase = "finished"
      /\ observed' = apply_outcome(observed, conn[c])
      /\ UNCHANGED <<proxy, limit, total, published, done>>
  BY DEF record_outcome
<1> DEFINE k == [conn[c] EXCEPT !.phase = "recorded"]
<1>2. /\ conn \in [Connections -> Connection] /\ conn[c] \in Connection /\ TaskInv(c)
      /\ total \in 0..MaxTunnel /\ observed \in Observations
  BY DEF TrafficInv, TunnelInv
<1>3. k \in Connection /\ conn' = [conn EXCEPT ![c] = k]
  BY <1>2 DEF Connection, Tasks, record_outcome, Moves
<1>4. k.phase = "recorded" /\ k.outcome = conn[c].outcome /\ k.loaded = conn[c].loaded
  BY <1>2 DEF Connection
<1> HIDE DEF k
<1>5. conn'[c] = k
  BY <1>2, <1>3
<1>6. conn[c].outcome \in {"ok", "byte_limit", "failed"} /\ conn[c].up \in Nat /\ conn[c].down \in Nat
  BY <1>1, <1>2 DEF TaskInv, Connection
<1>7. Moved(k) = 0 /\ Moved(conn[c]) = conn[c].up + conn[c].down
  BY <1>1, <1>4 DEF Moved
<1>8. /\ observed.sent \in Nat /\ observed.received \in Nat /\ observed.rejected \in Nat
      /\ observed.accepted \in Nat
  BY <1>2 DEF Observations
<1>9. CASE conn[c].outcome = "ok"
  <2>1. observed' = [observed EXCEPT !.accepted = @ + 1, !.sent = @ + conn[c].up,
                                     !.received = @ + conn[c].down, !.destinations = {Destination}]
    BY <1>1, <1>9 DEF apply_outcome
  <2>2. observed' \in Observations
    <3>1. /\ observed.accepted + 1 \in Nat /\ observed.sent + conn[c].up \in Nat
          /\ observed.received + conn[c].down \in Nat
      BY <1>6, <1>8
    <3>2. \A x, y, z \in Nat :
            [observed EXCEPT !.accepted = x, !.sent = y, !.received = z,
                             !.destinations = {Destination}] \in Observations
      BY <1>2 DEF Observations
    <3>3. QED
      BY <1>2, <2>1, <3>1, <3>2
  <2>3. /\ observed'.sent = observed.sent + conn[c].up
        /\ observed'.received = observed.received + conn[c].down
        /\ observed'.rejected = observed.rejected /\ observed'.terminal = observed.terminal
    BY <1>2, <2>1 DEF Observations
  <2>4. TaskInv(c)'
    BY <1>1, <1>2, <1>4, <1>5, <1>9 DEF TaskInv
  <2>5. observed'.sent + observed'.received + Moved(k) + total
          = observed.sent + observed.received + Moved(conn[c]) + total'
    BY <1>1, <1>2, <1>6, <1>7, <1>8, <2>3
  <2>6. observed'.rejected >= observed.rejected
    BY <1>8, <2>3
  <2>7. QED
    BY <1>1, <1>2, <1>3, <1>4, <1>9, <2>2, <2>3, <2>4, <2>5, <2>6, TaskStep
<1>10. CASE conn[c].outcome \in {"byte_limit", "failed"}
  <2>1. \/ observed' = [observed EXCEPT !.rejected = @ + 1, !.exceeded = TRUE]
        \/ observed' = [observed EXCEPT !.rejected = @ + 1]
    BY <1>1, <1>10 DEF apply_outcome
  <2>2. observed' \in Observations
    <3>1. observed.rejected + 1 \in Nat
      BY <1>8
    <3>2. \A x \in Nat : /\ [observed EXCEPT !.rejected = x] \in Observations
                         /\ [observed EXCEPT !.rejected = x, !.exceeded = TRUE] \in Observations
      BY <1>2 DEF Observations
    <3>3. QED
      BY <2>1, <3>1, <3>2
  <2>3. observed'.rejected = observed.rejected + 1 /\ observed'.terminal = observed.terminal
    BY <1>2, <2>1 DEF Observations
  <2>4. observed'.rejected > 0 /\ observed'.rejected >= observed.rejected
    BY <1>8, <2>3
  <2>5. TaskInv(c)'
    BY <1>1, <1>2, <1>4, <1>5, <1>6, <2>4 DEF TaskInv
  <2>6. observed'.rejected # 0
    BY <1>8, <2>3
  <2>7. QED
    BY <1>1, <1>2, <1>3, <1>4, <2>2, <2>3, <2>4, <2>5, <2>6, TaskStep
<1>11. QED
  BY <1>6, <1>9, <1>10

\* A task that failed has been recorded when its connection is forgotten.
LEMMA WriteKeepsTraffic ==
    ASSUME TrafficInv, NEW c \in Connections, write_observations(c), UNCHANGED hostVars
    PROVE  TrafficInv'
<1>1. /\ Alive /\ conn[c].phase = "recorded" /\ published' \in {published, observed'}
      /\ UNCHANGED <<proxy, limit, total, observed, done>>
  BY DEF write_observations
<1>2. PICK p \in {"ended", "broken"} : conn' = [conn EXCEPT ![c] = [NoConnection EXCEPT !.phase = p]]
  BY DEF write_observations
<1> DEFINE k == [NoConnection EXCEPT !.phase = p]
<1>3. /\ conn \in [Connections -> Connection] /\ conn[c] \in Connection /\ TaskInv(c)
      /\ total \in 0..MaxTunnel /\ observed \in Observations
  BY DEF TrafficInv, TunnelInv
<1>4. k \in Connection
  BY DEF Connection, NoConnection
<1>5. k.phase = p /\ k.outcome = None /\ k.loaded = None
  BY DEF NoConnection
<1>6. conn'[c] = k
  BY <1>2, <1>3
<1>7. TaskInv(c)'
  BY <1>5, <1>6 DEF TaskInv
<1>8. Moved(k) = 0 /\ Moved(conn[c]) = 0
  BY <1>1, <1>5 DEF Moved
<1>9. observed.rejected = 0 => conn[c].outcome = "ok"
  BY <1>1, <1>3 DEF TaskInv
<1>10. observed'.rejected >= observed.rejected
  BY <1>1, <1>3 DEF Observations
<1>11. conn' = [conn EXCEPT ![c] = k]
  BY <1>2
<1> HIDE DEF k
<1>12. QED
  BY <1>1, <1>3, <1>4, <1>5, <1>7, <1>8, <1>9, <1>10, <1>11, TaskStep

\* A proxy that fails leaves nothing: its connections are closed and nobody reads its report.
LEMMA ProxyFailureKeepsTraffic ==
    ASSUME TrafficInv, ProxyFails, proxy \notin {"off", "ended", "stopped"}, UNCHANGED hostVars
    PROVE  TrafficInv'
<1>1. /\ proxy' = "failed" /\ published' = None /\ observed' = NoObservations /\ total' = 0
      /\ conn' = [c \in Connections |-> [NoConnection EXCEPT !.phase = "closed"]]
      /\ UNCHANGED <<limit, done>>
  BY DEF ProxyFails
<1>2. TunnelInv'
  <2>1. [NoConnection EXCEPT !.phase = "closed"] \in Connection
    BY DEF NoConnection, Connection
  <2>2. \A c \in Connections : TaskInv(c)'
    BY <1>1 DEF TaskInv, NoConnection
  <2>3. NoObservations \in Observations /\ 0 \in 0..MaxTunnel
    BY ProxyAssumption DEF NoObservations, Observations
  <2>4. QED
    BY <1>1, <2>1, <2>2, <2>3 DEF TrafficInv, TunnelInv
<1>3. SumInv'
  BY <1>1 DEF SumInv, Alive
<1>4. QuiescenceInv'
  BY <1>1 DEF TrafficInv, QuiescenceInv, NoObservations, hostVars
<1>5. FinalInv'
  BY <1>1 DEF TrafficInv, FinalInv, hostVars
<1>6. QED
  BY <1>2, <1>3, <1>4, <1>5 DEF TrafficInv

\* The main task's steps that leave the connections and the counter alone.
LEMMA MainKeepsTraffic ==
    ASSUME TrafficInv, UNCHANGED hostVars,
           \/ proxy_wait_for_request \/ proxy_resolves \/ proxy_binds \/ bind_and_publish
           \/ record_rejection \/ quiesce_connections \/ write_terminal \/ proxy_gives_up
    PROVE  TrafficInv'
<1>1. CASE ProxyFails /\ proxy \notin {"off", "ended", "stopped"}
  BY <1>1, ProxyFailureKeepsTraffic
<1>2. ASSUME UNCHANGED <<conn, total>>, Alive, observed' \in Observations,
             observed'.sent = observed.sent, observed'.received = observed.received,
             observed'.rejected = observed.rejected
      PROVE  SumInv' /\ \A c \in Connections : TaskInv(c)'
  <2>1. Unrecorded' = Unrecorded /\ (NoneRejected' => NoneRejected)
    BY <1>2 DEF Unrecorded, NoneRejected
  <2>2. SumInv'
    BY <1>2, <2>1 DEF TrafficInv, SumInv
  <2>3. \A c \in Connections : TaskInv(c)'
    BY <1>2 DEF TrafficInv, TunnelInv, TaskInv
  <2>4. QED
    BY <2>2, <2>3
<1>3. observed \in Observations
  BY DEF TrafficInv, TunnelInv
<1>4. CASE \/ proxy_wait_for_request \/ proxy_binds \/ bind_and_publish \/ record_rejection
           \/ proxy = "resolving" /\ proxy' = "binding" /\ UNCHANGED <<limit, conn, total, observed, published, done>>
  <2>1. /\ UNCHANGED <<conn, total, observed, done>>
        /\ proxy \in {"waiting", "resolving", "binding", "publishing", "rejecting"}
        /\ proxy' \in {"resolving", "binding", "publishing", "serving"}
        /\ limit' \in 1..MaxConnections
        /\ published' \in {published, observed}
    BY <1>4 DEF proxy_wait_for_request, proxy_binds, bind_and_publish, record_rejection,
                TrafficInv, TunnelInv
  <2>2. SumInv' /\ \A c \in Connections : TaskInv(c)'
    BY <1>2, <1>3, <2>1 DEF Alive
  <2>3. TunnelInv'
    BY <1>3, <2>1, <2>2 DEF TrafficInv, TunnelInv
  <2>4. ~observed.terminal /\ ~(published # None /\ published.terminal)
    BY <2>1 DEF TrafficInv, QuiescenceInv, Alive
  <2>5. QuiescenceInv'
    BY <2>1, <2>4 DEF TrafficInv, QuiescenceInv, hostVars
  <2>6. FinalInv'
    BY <2>1 DEF TrafficInv, FinalInv, hostVars
  <2>7. QED
    BY <2>2, <2>3, <2>5, <2>6 DEF TrafficInv
<1>5. CASE quiesce_connections
  <2>1. /\ proxy = "draining" /\ proxy' = "quiesced"
        /\ observed' = [observed EXCEPT !.terminal = TRUE]
        /\ UNCHANGED <<limit, conn, total, published, done>>
    BY <1>5 DEF quiesce_connections
  <2>2. /\ observed' \in Observations /\ observed'.sent = observed.sent
        /\ observed'.received = observed.received /\ observed'.rejected = observed.rejected
    BY <1>3, <2>1 DEF Observations
  <2>3. SumInv' /\ \A c \in Connections : TaskInv(c)'
    BY <1>2, <2>1, <2>2 DEF Alive
  <2>4. TunnelInv'
    BY <2>1, <2>2, <2>3 DEF TrafficInv, TunnelInv
  <2>5. AllClosed'
    <3>1. \A c \in Connections : conn[c] \in Connection /\ conn[c].phase # "queued"
      BY <2>1 DEF TrafficInv, TunnelInv, QuiescenceInv
    <3>2. QED
      BY <1>5, <2>1, <3>1 DEF quiesce_connections, AllClosed, Connection, Tasks
  <2>6. ~(published # None /\ published.terminal)
    BY <2>1 DEF TrafficInv, QuiescenceInv, Alive
  <2>7. QuiescenceInv'
    BY <2>1, <2>5, <2>6 DEF TrafficInv, QuiescenceInv, hostVars
  <2>8. FinalInv'
    BY <2>1 DEF TrafficInv, FinalInv, hostVars
  <2>9. QED
    BY <2>3, <2>4, <2>7, <2>8 DEF TrafficInv
<1>6. CASE write_terminal
  <2>1. /\ proxy = "quiesced" /\ proxy' = "ended" /\ published' = observed
        /\ UNCHANGED <<limit, conn, total, observed, done>>
    BY <1>6 DEF write_terminal
  <2>2. SumInv' /\ \A c \in Connections : TaskInv(c)'
    BY <1>2, <1>3, <2>1 DEF Alive
  <2>3. TunnelInv'
    BY <1>3, <2>1, <2>2 DEF TrafficInv, TunnelInv
  <2>4. QuiescenceInv'
    BY <2>1 DEF TrafficInv, QuiescenceInv, AllClosed, hostVars
  <2>5. FinalInv'
    BY <2>1 DEF TrafficInv, FinalInv, hostVars
  <2>6. QED
    BY <2>2, <2>3, <2>4, <2>5 DEF TrafficInv
<1>7. QED
  BY <1>1, <1>4, <1>5, <1>6 DEF proxy_resolves, proxy_gives_up

\* Connections that are not accepted yet are closed with the listener: they moved nothing.
LEMMA DoneKeepsTraffic ==
    ASSUME TrafficInv, worker_done, UNCHANGED hostVars
    PROVE  TrafficInv'
<1>1. /\ proxy = "serving" /\ done /\ proxy' = "draining"
      /\ conn' = [c \in Connections |->
                    IF conn[c].phase = "queued" THEN [conn[c] EXCEPT !.phase = "closed"] ELSE conn[c]]
      /\ UNCHANGED <<limit, total, observed, published, done>>
  BY DEF worker_done
<1>2. /\ conn \in [Connections -> Connection] /\ \A c \in Connections : TaskInv(c)
      /\ observed \in Observations
  BY DEF TrafficInv, TunnelInv
<1>3. ASSUME NEW c \in Connections
      PROVE  /\ conn'[c] \in Connection /\ TaskInv(c)' /\ conn'[c].phase # "queued"
             /\ Moved(conn'[c]) = Moved(conn[c]) /\ conn'[c].outcome = conn[c].outcome
  <2>1. CASE conn[c].phase = "queued"
    <3>1. conn[c] = [NoConnection EXCEPT !.phase = "queued"]
      BY <1>2, <2>1 DEF TaskInv
    <3>2. conn'[c] = [NoConnection EXCEPT !.phase = "closed"]
      BY <1>1, <2>1, <3>1 DEF NoConnection
    <3>3. QED
      BY <3>1, <3>2 DEF NoConnection, Connection, TaskInv, Moved
  <2>2. CASE conn[c].phase # "queued"
    <3>1. conn'[c] = conn[c]
      BY <1>1, <2>2
    <3>2. TaskInv(c)'
      BY <1>1, <1>2, <3>1 DEF TaskInv
    <3>3. QED
      BY <1>2, <2>2, <3>1, <3>2
  <2>3. QED
    BY <2>1, <2>2
<1>4. conn' \in [Connections -> Connection]
  BY <1>1, <1>3
<1>5. TunnelInv'
  BY <1>1, <1>3, <1>4 DEF TrafficInv, TunnelInv
<1>6. Unrecorded' = Unrecorded
  <2>1. \A c \in Connections : Unrecorded[c] = Moved(conn[c])
    BY DEF Unrecorded, Moved
  <2>2. \A c \in Connections : Unrecorded'[c] = Moved(conn'[c])
    BY DEF Unrecorded, Moved
  <2>3. \A c \in Connections : Unrecorded'[c] = Unrecorded[c]
    BY <1>3, <2>1, <2>2
  <2>4. QED
    BY <2>3 DEF Unrecorded
<1>7. SumInv'
  <2>1. NoneRejected' => NoneRejected
    BY <1>1, <1>3 DEF NoneRejected
  <2>2. QED
    BY <1>1, <1>6, <2>1 DEF TrafficInv, SumInv, Alive
<1>8. ~observed.terminal /\ ~(published # None /\ published.terminal)
  BY <1>1 DEF TrafficInv, QuiescenceInv, Alive
<1>9. QuiescenceInv'
  BY <1>1, <1>3, <1>8 DEF TrafficInv, QuiescenceInv, hostVars
<1>10. FinalInv'
  BY <1>1 DEF TrafficInv, FinalInv, hostVars
<1>11. QED
  BY <1>5, <1>7, <1>9, <1>10 DEF TrafficInv

\* A connection without bytes goes from one phase to the next.
LEMMA PhaseOf ==
    ASSUME TrafficInv, NEW c \in Connections,
           conn[c].phase \in {"none", "queued", "ended"},
           NEW p \in {"queued", "request", "closed"}, Moves(c, p)
    PROVE  LET k == [NoConnection EXCEPT !.phase = p]
           IN  /\ k \in Connection /\ conn' = [conn EXCEPT ![c] = k]
               /\ k.phase = p /\ k.outcome = None /\ Moved(k) = 0
               /\ conn[c].outcome = None /\ Moved(conn[c]) = 0
               /\ TaskInv(c)'
               /\ observed \in Observations /\ observed.rejected \in Nat /\ total \in 0..MaxTunnel
<1> DEFINE k == [NoConnection EXCEPT !.phase = p]
<1>1. /\ conn \in [Connections -> Connection] /\ TaskInv(c)
      /\ observed \in Observations /\ total \in 0..MaxTunnel
  BY DEF TrafficInv, TunnelInv
<1>2. conn[c] = [NoConnection EXCEPT !.phase = conn[c].phase]
  BY <1>1 DEF TaskInv
<1>3. [conn[c] EXCEPT !.phase = p] = k
  BY <1>2 DEF NoConnection
<1>4. conn' = [conn EXCEPT ![c] = k]
  BY <1>1, <1>3 DEF Moves
<1>5. k \in Connection /\ k.phase = p /\ k.outcome = None /\ k.loaded = None /\ Moved(k) = 0
  BY DEF NoConnection, Connection, Tasks, Moved
<1>6. conn'[c] = k
  BY <1>1, <1>4
<1>7. TaskInv(c)'
  BY <1>5, <1>6 DEF TaskInv
<1>8. conn[c].outcome = None
  BY <1>2 DEF NoConnection
<1>9. Moved(conn[c]) = 0
  BY DEF Moved
<1>10. observed.rejected \in Nat
  BY <1>1 DEF Observations
<1>11. QED
  BY <1>1, <1>4, <1>5, <1>7, <1>8, <1>9, <1>10

\* A task that is joined has nothing in hand; one that is broken ends the proxy.
LEMMA JoinKeepsTraffic ==
    ASSUME TrafficInv, NEW c \in Connections, join_next(c), UNCHANGED hostVars
    PROVE  TrafficInv'
<1>1. CASE ProxyFails
  BY <1>1, ProxyFailureKeepsTraffic DEF join_next
<1>2. CASE /\ conn[c].phase = "ended" /\ Moves(c, "closed")
           /\ UNCHANGED <<proxy, limit, total, observed, published, done>>
  <2> DEFINE k == [NoConnection EXCEPT !.phase = "closed"]
  <2>1. /\ k \in Connection /\ conn' = [conn EXCEPT ![c] = k]
        /\ k.phase = "closed" /\ k.outcome = None /\ Moved(k) = 0
        /\ conn[c].outcome = None /\ Moved(conn[c]) = 0
        /\ TaskInv(c)'
        /\ observed \in Observations /\ observed.rejected \in Nat /\ total \in 0..MaxTunnel
    BY <1>2, PhaseOf
  <2> HIDE DEF k
  <2>2. Alive
    BY DEF join_next, Alive
  <2>3. QED
    <3>1. observed' \in Observations /\ observed'.rejected >= observed.rejected /\ total' \in 0..MaxTunnel
      BY <1>2, <2>1
    <3>2. QED
      BY <1>2, <2>1, <2>2, <3>1, TaskStep
<1>3. QED
  BY <1>1, <1>2 DEF join_next

\* A connection is accepted, or turned away and counted as rejected.
LEMMA AcceptKeepsTraffic ==
    ASSUME TrafficInv, NEW c \in Connections, accept_connection(c), UNCHANGED hostVars
    PROVE  TrafficInv'
<1>1. /\ proxy = "serving" /\ conn[c].phase = "queued" /\ UNCHANGED <<limit, total, published, done>>
      /\ Alive
  BY DEF accept_connection, Alive
<1>2. CASE Moves(c, "request") /\ UNCHANGED <<proxy, observed>>
  <2> DEFINE k == [NoConnection EXCEPT !.phase = "request"]
  <2>1. /\ k \in Connection /\ conn' = [conn EXCEPT ![c] = k]
        /\ k.phase = "request" /\ k.outcome = None /\ Moved(k) = 0
        /\ conn[c].outcome = None /\ Moved(conn[c]) = 0
        /\ TaskInv(c)'
        /\ observed \in Observations /\ observed.rejected \in Nat /\ total \in 0..MaxTunnel
    BY <1>1, <1>2, PhaseOf
  <2> HIDE DEF k
  <2>2. observed' \in Observations /\ observed'.rejected >= observed.rejected /\ total' \in 0..MaxTunnel
    BY <1>1, <1>2, <2>1
  <2>3. QED
    BY <1>1, <1>2, <2>1, <2>2, TaskStep
<1>3. CASE /\ Moves(c, "closed") /\ proxy' = "rejecting"
           /\ observed' = [observed EXCEPT !.rejected = @ + 1]
  <2> DEFINE k == [NoConnection EXCEPT !.phase = "closed"]
  <2>1. /\ k \in Connection /\ conn' = [conn EXCEPT ![c] = k]
        /\ TaskInv(c)'
        /\ observed \in Observations /\ observed.rejected \in Nat /\ total \in 0..MaxTunnel
        /\ k.phase = "closed"
    BY <1>1, <1>3, PhaseOf
  <2> HIDE DEF k
  <2>2. observed'.rejected = observed.rejected + 1 /\ observed'.terminal = observed.terminal
    BY <1>3, <2>1 DEF Observations
  <2>3. observed' \in Observations
    <3>1. \A x \in Nat : [observed EXCEPT !.rejected = x] \in Observations
      BY <2>1 DEF Observations
    <3>2. observed.rejected + 1 \in Nat
      BY <2>1
    <3>3. QED
      BY <1>3, <3>1, <3>2
  <2>4. observed'.rejected >= observed.rejected /\ observed'.rejected # 0
    BY <2>1, <2>2
  <2>5. TunnelInv'
    BY <1>1, <2>1, <2>3, <2>4, TunnelStep DEF TrafficInv
  <2>6. SumInv'
    BY <2>4 DEF SumInv, NoneRejected
  <2>7. ~observed.terminal /\ ~(published # None /\ published.terminal)
    BY <1>1 DEF TrafficInv, QuiescenceInv
  <2>8. QuiescenceInv'
    BY <1>1, <1>3, <2>2, <2>7 DEF TrafficInv, QuiescenceInv, hostVars
  <2>9. FinalInv'
    BY <1>1, <1>3 DEF TrafficInv, FinalInv, hostVars
  <2>10. QED
    BY <2>5, <2>6, <2>8, <2>9 DEF TrafficInv
<1>4. QED
  BY <1>2, <1>3 DEF accept_connection

\* A worker that still opens connections has not been stopped, so the proxy does not know
\* that it is done.
LEMMA OpenKeepsTraffic ==
    ASSUME TrafficInv, TakingInv, NEW c \in Connections, open_connection(c), UNCHANGED hostVars
    PROVE  TrafficInv'
<1>1. /\ Alive /\ conn[c].phase = "none" /\ Moves(c, "queued")
      /\ UNCHANGED <<proxy, limit, total, observed, published, done>>
      /\ worker = "fetch"
  BY DEF open_connection, Moves
<1> DEFINE k == [NoConnection EXCEPT !.phase = "queued"]
<1>2. /\ k \in Connection /\ conn' = [conn EXCEPT ![c] = k]
      /\ k.phase = "queued" /\ k.outcome = None /\ Moved(k) = 0
      /\ conn[c].outcome = None /\ Moved(conn[c]) = 0
      /\ TaskInv(c)'
      /\ observed \in Observations /\ observed.rejected \in Nat /\ total \in 0..MaxTunnel
  BY <1>1, PhaseOf
<1> HIDE DEF k
<1>3. TunnelInv'
  <2>1. observed' \in Observations /\ observed'.rejected >= observed.rejected /\ total' \in 0..MaxTunnel
    BY <1>1, <1>2
  <2>2. QED
    BY <1>1, <1>2, <2>1, TunnelStep DEF TrafficInv
<1>4. NoneRejected' => NoneRejected
  <2>1. conn'[c].outcome = None /\ \A d \in Connections \ {c} : conn'[d] = conn[d]
    BY <1>2 DEF TrafficInv, TunnelInv
  <2>2. QED
    BY <1>1, <1>2, <2>1 DEF NoneRejected
<1>5. SumInv'
  <2>1. TunnelInv /\ SumInv /\ total' \in Nat /\ observed' \in Observations
    BY <1>1, <1>2 DEF TrafficInv
  <2>2. QED
    BY <1>1, <1>2, <1>4, <2>1, SumStep
<1>6. host \notin {"stop_proxy", "validate_outputs", "accepted", "failed"} /\ ~done
  BY <1>1 DEF TakingInv, Taken, Stopped, Reported, TrafficInv, FinalInv, QuiescenceInv, Alive
<1>7. proxy \notin {"off", "draining", "quiesced", "ended"}
  BY <1>1, <1>6 DEF TrafficInv, QuiescenceInv, Alive
<1>8. QuiescenceInv'
  BY <1>1, <1>6, <1>7 DEF TrafficInv, QuiescenceInv, Alive, hostVars
<1>9. FinalInv'
  BY <1>1, <1>6, <1>7 DEF TrafficInv, FinalInv, hostVars
<1>10. QED
  BY <1>3, <1>5, <1>8, <1>9 DEF TrafficInv

\* All the steps of the proxy.
LEMMA ProxyKeepsTraffic == TrafficInv /\ TakingInv /\ ProxySteps => TrafficInv'
<1> SUFFICES ASSUME TrafficInv, TakingInv, ProxySteps
             PROVE  TrafficInv'
  OBVIOUS
<1>1. UNCHANGED hostVars
  BY DEF ProxySteps
<1>2. CASE Main \/ proxy_gives_up
  BY <1>1, <1>2, MainKeepsTraffic, DoneKeepsTraffic, AcceptKeepsTraffic, JoinKeepsTraffic DEF Main
<1>3. ASSUME NEW c \in Connections, open_connection(c) \/ Copying(c) \/ Task(c)
      PROVE  TrafficInv'
  BY <1>1, <1>3, OpenKeepsTraffic, HandleKeepsTraffic, CopyKeepsTraffic, DirectionKeepsTraffic,
     FailingKeepsTraffic, ReserveKeepsTraffic, RecordKeepsTraffic, WriteKeepsTraffic
     DEF Copying, Task
<1>4. QED
  BY <1>2, <1>3 DEF ProxySteps

\* What neither the proxy nor the host does leaves the traffic alone.
LEMMA OthersKeepTraffic ==
    TrafficInv /\ UNCHANGED <<hostVars, proxyVars>> => TrafficInv'
<1> SUFFICES ASSUME TrafficInv, UNCHANGED <<hostVars, proxyVars>>
             PROVE  TrafficInv'
  OBVIOUS
<1>1. UNCHANGED <<Unrecorded, NoneRejected, Alive, AllClosed>>
  BY DEF Unrecorded, NoneRejected, Alive, AllClosed, proxyVars
<1>2. TunnelInv'
  BY DEF TrafficInv, TunnelInv, TaskInv, proxyVars
<1>3. SumInv'
  BY <1>1 DEF TrafficInv, SumInv, proxyVars
<1>4. QuiescenceInv'
  BY <1>1 DEF TrafficInv, QuiescenceInv, proxyVars, hostVars
<1>5. FinalInv'
  BY <1>1 DEF TrafficInv, FinalInv, proxyVars, hostVars
<1>6. QED
  BY <1>2, <1>3, <1>4, <1>5 DEF TrafficInv

\* A proxy that has nothing is as it was started.
LEMMA InitialTraffic ==
    ASSUME conn = [c \in Connections |-> NoConnection], limit = 1, total = 0,
           observed = NoObservations, published = None, done = FALSE
    PROVE  TunnelInv /\ SumInv
<1>1. NoConnection \in Connection /\ NoObservations \in Observations
  BY DEF NoConnection, Connection, NoObservations, Observations
<1>2. \A c \in Connections : TaskInv(c)
  BY DEF TaskInv, NoConnection
<1>3. 1 \in 1..MaxConnections /\ 0 \in 0..MaxTunnel /\ IsFiniteSet(Connections)
  BY ProxyAssumption
<1>4. TunnelInv
  BY <1>1, <1>2, <1>3 DEF TunnelInv
<1>5. SumFunctionOnSet(Unrecorded, Connections) = 0
  <2>1. \A c \in Connections : Unrecorded[c] = 0
    BY DEF Unrecorded, NoConnection
  <2>2. QED
    BY <1>3, <2>1, SumZero
<1>6. SumInv
  BY <1>5 DEF SumInv, NoObservations
<1>7. QED
  BY <1>4, <1>6

\* There is no connection at first.
LEMMA InitTraffic == Init => TrafficInv
<1> SUFFICES ASSUME Init
             PROVE  TrafficInv
  OBVIOUS
<1>1. TunnelInv /\ SumInv
  BY InitialTraffic DEF Init, ProxyInit
<1>2. QuiescenceInv
  BY DEF Init, ProxyInit, QuiescenceInv, NoObservations
<1>3. FinalInv
  BY DEF Init, ProxyInit, FinalInv
<1>4. QED
  BY <1>1, <1>2, <1>3 DEF TrafficInv

\* A session that fails drops the proxy with its connections and its report.
LEMMA FailureKeepsTraffic == TrafficInv /\ session_fails => TrafficInv'
<1> SUFFICES ASSUME TrafficInv, session_fails
             PROVE  TrafficInv'
  OBVIOUS
<1>1. /\ host' = "failed" /\ proxy' = "stopped"
      /\ conn' = [c \in Connections |-> NoConnection] /\ limit' = 1 /\ total' = 0
      /\ observed' = NoObservations /\ published' = None /\ done' = FALSE /\ proxyReport' = None
  BY DEF session_fails
<1>2. TunnelInv'
  <2>1. NoConnection \in Connection /\ NoObservations \in Observations
    BY DEF NoConnection, Connection, NoObservations, Observations
  <2>2. \A c \in Connections : TaskInv(c)'
    BY <1>1 DEF TaskInv, NoConnection
  <2>3. 1 \in 1..MaxConnections /\ 0 \in 0..MaxTunnel
    BY ProxyAssumption
  <2>4. QED
    BY <1>1, <2>1, <2>2, <2>3 DEF TunnelInv
<1>3. SumInv'
  BY <1>1 DEF SumInv, Alive
<1>4. QuiescenceInv' /\ FinalInv'
  BY <1>1 DEF QuiescenceInv, FinalInv, NoObservations
<1>5. QED
  BY <1>2, <1>3, <1>4 DEF TrafficInv

\* The host starts the proxy, tells it that the worker is done, reads the final report and
\* stops it.
LEMMA HostKeepsTraffic == TrafficInv /\ Host => TrafficInv'
<1> SUFFICES ASSUME TrafficInv, Host
             PROVE  TrafficInv'
  OBVIOUS
<1> USE DEF Advances
<1>1. ASSUME UNCHANGED <<limit, conn, total, observed, published>>, done' \in BOOLEAN
      PROVE  /\ TunnelInv' /\ UNCHANGED <<Unrecorded, NoneRejected, AllClosed>>
             /\ (Alive' => Alive) => SumInv'
  <2>1. TunnelInv'
    BY <1>1 DEF TrafficInv, TunnelInv, TaskInv
  <2>2. UNCHANGED <<Unrecorded, NoneRejected, AllClosed>>
    BY <1>1 DEF Unrecorded, NoneRejected, AllClosed
  <2>3. (Alive' => Alive) => SumInv'
    BY <1>1, <2>2 DEF TrafficInv, SumInv
  <2>4. QED
    BY <2>1, <2>2, <2>3
<1>2. done \in BOOLEAN
  BY DEF TrafficInv, TunnelInv
<1>3. CASE /\ UNCHANGED <<proxyVars, proxyReport>>
           /\ \/ begin_session \/ start_relay \/ copy_grant \/ await_relay_ready
              \/ await_proxy_ready \/ start_worker \/ await_worker_report \/ read_bundle
              \/ stop_worker \/ await_relay_receipt \/ verify_relay_running
  <2>1. TunnelInv' /\ SumInv' /\ UNCHANGED AllClosed
    BY <1>1, <1>2, <1>3 DEF proxyVars, Alive
  <2>2. /\ host \notin {"await_proxy_terminal", "stop_proxy", "validate_outputs", "accepted", "failed"}
        /\ host' \notin {"await_proxy_terminal", "stop_proxy", "validate_outputs", "accepted", "failed"}
        /\ host' \in {"start", "start_relay", "copy_grant", "grant_copied", "await_relay_ready",
                      "start_proxy"}
            => host \in {"start", "start_relay", "copy_grant", "grant_copied", "await_relay_ready"}
    BY <1>3 DEF begin_session, start_relay, copy_grant, await_relay_ready, await_proxy_ready,
         start_worker, await_worker_report, read_bundle, stop_worker, await_relay_receipt,
         verify_relay_running
  <2>3. QuiescenceInv'
    BY <1>3, <2>1, <2>2 DEF TrafficInv, QuiescenceInv, proxyVars, Alive
  <2>4. FinalInv'
    BY <1>3, <2>2 DEF TrafficInv, FinalInv, proxyVars
  <2>5. QED
    BY <2>1, <2>3, <2>4 DEF TrafficInv
<1>4. CASE start_proxy
  <2>1. /\ host = "start_proxy" /\ host' = "await_proxy_ready" /\ proxy' = "waiting" /\ proxy = "off"
        /\ UNCHANGED <<proxyReport, limit, conn, total, observed, published, done>>
    BY <1>4 DEF start_proxy, TrafficInv, FinalInv
  <2>2. /\ conn = [c \in Connections |-> NoConnection] /\ total = 0 /\ observed = NoObservations
        /\ ~done
    BY <2>1 DEF TrafficInv, QuiescenceInv
  <2>3. TunnelInv' /\ Unrecorded' = Unrecorded
    BY <1>1, <1>2, <2>1
  <2>4. SumInv'
    <3>1. \A c \in Connections : Unrecorded[c] = 0
      BY <2>2 DEF Unrecorded, NoConnection
    <3>2. IsFiniteSet(Connections)
      BY ProxyAssumption
    <3>3. SumFunctionOnSet(Unrecorded, Connections) = 0
      BY <3>1, <3>2, SumZero
    <3>4. QED
      BY <2>1, <2>2, <2>3, <3>3 DEF SumInv, NoObservations
  <2>5. published = None \/ ~published.terminal
    BY <2>1 DEF TrafficInv, QuiescenceInv, Alive
  <2>6. QuiescenceInv'
    BY <2>1, <2>2, <2>5 DEF QuiescenceInv, NoObservations
  <2>7. FinalInv'
    BY <2>1 DEF TrafficInv, FinalInv
  <2>8. QED
    BY <2>3, <2>4, <2>6, <2>7 DEF TrafficInv
<1>5. CASE signal_done
  <2>1. /\ host = "signal_done" /\ host' = "await_proxy_terminal" /\ done'
        /\ UNCHANGED <<proxyReport, proxy, limit, conn, total, observed, published>>
    BY <1>5 DEF signal_done
  <2>2. TunnelInv' /\ SumInv' /\ UNCHANGED AllClosed
    BY <1>1, <1>5, <2>1 DEF Alive, signal_done
  <2>3. QuiescenceInv'
    BY <2>1, <2>2 DEF TrafficInv, QuiescenceInv, Alive
  <2>4. FinalInv'
    BY <2>1 DEF TrafficInv, FinalInv
  <2>5. QED
    BY <2>2, <2>3, <2>4 DEF TrafficInv
<1>6. CASE await_proxy_terminal
  <2>1. /\ host = "await_proxy_terminal" /\ host' = "stop_proxy" /\ Alive
        /\ published # None /\ published.terminal /\ proxyReport' = published
        /\ UNCHANGED proxyVars
    BY <1>6 DEF await_proxy_terminal
  <2>2. proxy = "ended" /\ published = observed /\ AllClosed
    BY <2>1 DEF TrafficInv, QuiescenceInv
  <2>3. TunnelInv' /\ SumInv' /\ UNCHANGED AllClosed
    BY <1>1, <1>2, <2>1 DEF proxyVars, Alive
  <2>4. observed.rejected = 0 => observed.sent + observed.received = total
    <3>1. \A c \in Connections : Unrecorded[c] = 0 /\ conn[c].outcome = None
      BY <2>2 DEF AllClosed, Unrecorded, TrafficInv, TunnelInv, TaskInv, NoConnection
    <3>2. IsFiniteSet(Connections)
      BY ProxyAssumption
    <3>3. SumFunctionOnSet(Unrecorded, Connections) = 0
      BY <3>1, <3>2, SumZero
    <3>4. observed.sent \in Nat /\ observed.received \in Nat
      BY DEF TrafficInv, TunnelInv, Observations
    <3>5. observed.rejected = 0 => NoneRejected
      BY <3>1 DEF NoneRejected
    <3>6. QED
      BY <2>1, <3>3, <3>4, <3>5 DEF TrafficInv, SumInv
  <2>5. QuiescenceInv'
    BY <2>1, <2>3 DEF TrafficInv, QuiescenceInv, Alive, proxyVars
  <2>6. FinalInv'
    BY <2>1, <2>2, <2>3, <2>4 DEF TrafficInv, FinalInv, TunnelInv, proxyVars
  <2>7. QED
    BY <2>3, <2>5, <2>6 DEF TrafficInv
<1>7. CASE stop_proxy
  <2>1. /\ host = "stop_proxy" /\ host' = "validate_outputs" /\ proxy' = "stopped"
        /\ UNCHANGED <<proxyReport, limit, conn, total, observed, published, done>>
    BY <1>7 DEF stop_proxy
  <2>2. TunnelInv' /\ SumInv' /\ UNCHANGED AllClosed
    BY <1>1, <1>2, <2>1 DEF Alive
  <2>3. QuiescenceInv'
    BY <2>1 DEF TrafficInv, QuiescenceInv, Alive
  <2>4. FinalInv'
    BY <2>1, <2>2 DEF TrafficInv, FinalInv
  <2>5. QED
    BY <2>2, <2>3, <2>4 DEF TrafficInv
<1>8. CASE validate_outputs
  <2>1. /\ host = "validate_outputs" /\ host' \in {"accepted", "failed"}
        /\ host' = "accepted" => proxyReport.rejected = 0
        /\ UNCHANGED <<proxyReport, proxyVars>>
    BY <1>8 DEF validate_outputs, valid_traffic
  <2>2. TunnelInv' /\ SumInv' /\ UNCHANGED AllClosed
    BY <1>1, <1>2, <2>1 DEF Alive, proxyVars
  <2>3. QuiescenceInv'
    BY <2>1, <2>2 DEF TrafficInv, QuiescenceInv, Alive, proxyVars
  <2>4. FinalInv'
    BY <2>1, <2>2 DEF TrafficInv, FinalInv, proxyVars
  <2>5. QED
    BY <2>2, <2>3, <2>4 DEF TrafficInv
<1>9. QED
  BY <1>3, <1>4, <1>5, <1>6, <1>7, <1>8 DEF Host, begin_session, start_relay, copy_grant,
       await_relay_ready, await_proxy_ready, start_worker, await_worker_report, read_bundle,
       stop_worker, await_relay_receipt, verify_relay_running, proxyVars

\* Every step keeps TrafficInv, given what the host knows of the worker.
LEMMA NextTraffic == TrafficInv /\ TakingInv /\ [Next]_vars => TrafficInv'
<1> SUFFICES ASSUME TrafficInv, TakingInv, [Next]_vars
             PROVE  TrafficInv'
  OBVIOUS
<1>1. CASE RunnerSteps \/ RelaySteps \/ UNCHANGED vars
  BY <1>1, OthersKeepTraffic DEF RunnerSteps, RelaySteps, vars
<1>2. QED
  BY <1>1, ProxyKeepsTraffic, HostKeepsTraffic, FailureKeepsTraffic DEF Next

\* TrafficInv is strong enough for the property of the run.
LEMMA TrafficImplies == TrafficInv => TrafficIsAccountedFor
  BY DEF TrafficInv, SumInv, FinalInv, AllClosed, TrafficIsAccountedFor
-----------------------------------------------------------------------------
(* The relay's states *)

RelayInv ==
    /\ mode \in {"https", "ssh"}
    /\ relay \in {"off", "waiting", "starting", "listening", "relaying", "signed", "answered",
                  "lingering", "exited", "stopped"}
    /\ grant \in {"absent", "partial", "whole"}
    /\ mode = "https" => relay = "off" /\ grant = "absent"
    /\ host \in {"start_relay", "copy_grant", "grant_copied", "await_relay_ready"} => mode = "ssh"

\* The relay is off at first.
LEMMA InitRelay == Init => RelayInv
  BY DEF Init, RelayInit, RelayInv

\* Every frame leaves the relay, or ends it.
LEMMA RelayKeepsRelay == RelayInv /\ RelaySteps => RelayInv'
<1> SUFFICES ASSUME RelayInv, RelaySteps
             PROVE  RelayInv'
  OBVIOUS
<1>1. UNCHANGED <<mode, host, grant>>
  BY DEF RelaySteps, hostVars, read_grant, bind_relay, answer_signature, publish_receipt,
         client_closes, relay_gives_up, accept_client, relay_frame
<1>2. relay # "off" /\ relay' \in {"starting", "listening", "relaying", "signed", "answered",
                                   "lingering", "exited"}
  BY DEF RelaySteps, read_grant, bind_relay, answer_signature, publish_receipt, client_closes,
         relay_gives_up, accept_client, relay_frame, list_identities, query_extension,
         session_bind, sign_request, refuse_frame
<1>3. QED
  BY <1>1, <1>2 DEF RelayInv

\* Every step keeps RelayInv.
LEMMA NextRelay == RelayInv /\ [Next]_vars => RelayInv'
<1> SUFFICES ASSUME RelayInv, [Next]_vars
             PROVE  RelayInv'
  OBVIOUS
<1>1. CASE ProxySteps \/ RunnerSteps \/ UNCHANGED vars
  BY <1>1 DEF ProxySteps, RunnerSteps, vars, hostVars, relayVars, RelayInv
<1>2. CASE Host
  <2> USE DEF RelayInv, Advances, relayVars
  <2>1. CASE start_relay \/ copy_grant
    BY <2>1 DEF start_relay, copy_grant
  <2>2. CASE begin_session \/ await_relay_ready \/ start_proxy \/ await_proxy_ready \/ start_worker
    BY <2>2 DEF begin_session, await_relay_ready, start_proxy, await_proxy_ready, start_worker
  <2>3. CASE await_worker_report \/ read_bundle \/ stop_worker \/ await_relay_receipt \/ verify_relay_running
    BY <2>3 DEF await_worker_report, read_bundle, stop_worker, await_relay_receipt, verify_relay_running
  <2>4. CASE signal_done \/ await_proxy_terminal \/ stop_proxy \/ validate_outputs
    BY <2>4 DEF signal_done, await_proxy_terminal, stop_proxy, validate_outputs
  <2>5. QED
    BY <1>2, <2>1, <2>2, <2>3, <2>4 DEF Host
<1>3. CASE session_fails
  BY <1>3 DEF session_fails, RelayInv
<1>4. QED
  BY <1>1, <1>2, <1>3, RelayKeepsRelay DEF Next
-----------------------------------------------------------------------------
(* The whole *)

Inv == GrantInv /\ BundleInv /\ TrafficInv /\ RelayInv

\* The types of the proxy.
LEMMA InvProxyType == TrafficInv => ProxyTypeOK
<1> SUFFICES ASSUME TrafficInv
             PROVE  ProxyTypeOK
  OBVIOUS
<1>1. ASSUME NEW c \in Connections
      PROVE  /\ conn[c].phase \in Tasks \cup {"none", "queued", "ended", "broken", "closed"}
             /\ conn[c].outcome \in {None, "ok", "byte_limit", "failed"}
             /\ conn[c].open \subseteq Directions
             /\ conn[c].loaded # None => conn[c].loaded.direction \in conn[c].open
  <2>1. conn[c] \in Connection /\ TaskInv(c)
    BY DEF TrafficInv, TunnelInv
  <2>2. QED
    BY <2>1 DEF Connection, TaskInv
<1>2. QED
  BY <1>1 DEF TrafficInv, TunnelInv, QuiescenceInv, ProxyTypeOK

\* The types of the worker, the bound on the bundle among them.
LEMMA InvRunnerType == BundleInv => RunnerTypeOK
<1> SUFFICES ASSUME BundleInv
             PROVE  RunnerTypeOK
  OBVIOUS
<1>1. Writing \/ Whole \/ NoBundle
  BY DEF BundleInv, WorkerInv
<1>2. bytes \in 0..MaxBundle
  BY <1>1, BytesBounded
<1>3. report.status \in {"absent", "empty", "failure", "success"}
  BY DEF BundleInv, WorkerInv, NoReport, Report
<1>4. tree \in Trees \cup {NoTree} /\ (tree = NoTree => written = {}) /\ (tree # NoTree => written \subseteq tree)
  <2>1. CASE NoBundle
    BY <2>1 DEF NoBundle
  <2>2. CASE Writing \/ Whole
    <3>1. tree \in Trees /\ written \subseteq Files(tree)
      BY <2>2 DEF Writing, Whole, Fits
    <3>2. QED
      BY <3>1, FilesFinite, TreesAssumption
  <2>3. QED
    BY <1>1, <2>1, <2>2
<1>5. QED
  BY <1>2, <1>3, <1>4 DEF BundleInv, WorkerInv, RunnerTypeOK

\* The invariant implies TypeOK.
LEMMA InvType == Inv => TypeOK
<1> SUFFICES ASSUME Inv
             PROVE  TypeOK
  OBVIOUS
<1>1. ProxyTypeOK /\ RunnerTypeOK
  BY InvProxyType, InvRunnerType DEF Inv
<1>2. RelayTypeOK
  <2>1. Len(agentSigned) \in Nat
    BY LenProperties DEF Inv, GrantInv, AgentInv
  <2>2. signatures \in 0..MaxSignatures /\ receipt \in 0..MaxSignatures /\ Len(agentSigned) <= MaxSignatures
    BY <2>1, RelayAssumption DEF Inv, GrantInv, CountInv
  <2>3. QED
    BY <2>2 DEF Inv, GrantInv, AgentInv, RelayInv, RelayTypeOK
<1>3. QED
  BY <1>1, <1>2 DEF Inv, RelayInv, BundleInv, TakingInv, TrafficInv, FinalInv, TypeOK

\* Spec keeps the inductive invariant: the relay's grant, the worker's bundle, the proxy's
\* traffic and the host that waits for each of them.
THEOREM Invariance == Spec => []Inv
<1>1. Init => Inv
  BY InitGrant, InitBundle, InitTraffic, InitRelay DEF Inv
<1>2. Inv /\ [Next]_vars => Inv'
  BY NextGrant, NextBundle, NextTraffic, NextRelay DEF Inv, BundleInv
<1>3. QED
  BY <1>1, <1>2, PTL DEF Spec

\* TypeOK holds: in particular the tunnels never reserve more than their limit, and the bundle
\* is never longer than allowed while it is written.
THEOREM TypeCorrect == Spec => []TypeOK
  BY Invariance, InvType, PTL

\* The host's agent signs only with the selected key, only in a session bound to the pinned
\* host key and no more often than granted, a receipt never claims more than was signed, and
\* a brokered fetch is accepted only with a signature: for every grant, client and schedule.
THEOREM SignaturesStayGranted == Spec => []SignaturesAreGranted
<1>1. Inv => SignaturesAreGranted
  BY GrantImplies DEF Inv
<1>2. QED
  BY <1>1, Invariance, PTL

\* Unless a connection was turned away or failed, what the proxy has recorded and what its
\* tasks hold are the bytes reserved, and an accepted fetch has a report of every byte, with
\* no task left: for every number of connections, limit and schedule.
THEOREM TrafficStaysAccountedFor == Spec => []TrafficIsAccountedFor
<1>1. Inv => TrafficIsAccountedFor
  BY TrafficImplies DEF Inv
<1>2. QED
  BY <1>1, Invariance, PTL

\* A success report vouches for the whole selection of one tree within every limit: for every
\* set of trees and every limit.
THEOREM BundleStaysSelection == Spec => []BundleIsSelection
<1>1. Inv => BundleIsSelection
  BY BundleImplies DEF Inv
<1>2. QED
  BY <1>1, Invariance, PTL

\* The accepted bundle is the whole selection a success report vouches for, though the host
\* reads it over a stream that may be cut short: for every set of trees and every schedule.
THEOREM AcceptedStaysVouchedFor == Spec => []AcceptedIsVouchedFor
<1>1. Inv => AcceptedIsVouchedFor
  BY AcceptedImplies DEF Inv
<1>2. QED
  BY <1>1, Invariance, PTL

\* Where close_bundle compares, the files written one by one, with their separators, have
\* exactly the length projected_bundle_bytes announced before the first of them: the comparison
\* never fails, for every set of trees and in whatever order the files come.
THEOREM ProjectionIsExact ==
    Spec => [](worker = "batch" /\ written = Files(tree) => bytes = projected_bundle_bytes(tree))
<1>1. Inv => (worker = "batch" /\ written = Files(tree) => bytes = projected_bundle_bytes(tree))
  <2> SUFFICES ASSUME Inv, worker = "batch", written = Files(tree)
               PROVE  bytes = projected_bundle_bytes(tree)
    OBVIOUS
  <2>1. Writing
    BY DEF Inv, BundleInv, WorkerInv
  <2>2. tree \in Trees /\ written # {} /\ bytes \in Nat
    BY <2>1 DEF Writing, Fits
  <2>3. Remaining(tree, written) = 0
    BY <2>2, RemainingAll
  <2>4. bytes + Remaining(tree, written) - 0 = projected_bundle_bytes(tree)
    BY <2>1, <2>2 DEF Writing
  <2>5. QED
    BY <2>2, <2>3, <2>4
<1>2. QED
  BY <1>1, Invariance, PTL
=============================================================================
