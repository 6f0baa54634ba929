# A TLA+ model of Promptectomy

Promptectomy looks for recurring LLM calls in a repository that could be ordinary code, has
replacements drafted, and issues evidence and receipts.  What has to be right whatever is
interleaved, retried or interrupted is its trusted part: the Rust core that owns runs,
budgets, artifacts and receipts, the protected store of encrypted blobs, the daemon with
its endpoint, the acquisition of source snapshots with the processes of a remote fetch, and
the supervisor of the adapters.  This directory models that part in TLA+, checks the models
with TLC and proves every safety property the passing runs check with TLAPS.

- [Inventory](#inventory): the system's parts, their state, operations and hazards
- [Modules](#modules): how the models correspond to the code
- [Runs](#runs): what is checked, with which bounds and fairness
- [Proofs](#proofs): what holds for every value of the constants
- [Findings and observations](#findings-and-observations)
- [Plan](#plan) and [what is left out](#left-out)

Paths below are relative to the repository; `core` stands for
`rust/crates/promptectomy-core/src/lib.rs`, and so on.  `PROJECT.json` has the line-by-line
correspondence, the hazards with their lines, and the mutants: for every property of every
passing run, a plausible mistake in the code that makes TLC report it.

## Inventory

### Trusted core (`core`)

*State.*  A SQLite database under a writer lock: runs (status, cleanup state, counters,
budgets, authority, revocation, receipt), stages (status, attempt, cap, lease), events,
idempotency keys, artifacts and their references; next to it files under `cas/sha256`,
`tmp/` and `quarantine/`.

*Operations.*  `create_run`, `transition_run`, `record_budget`, `request_cancel`,
`confirm_cancelled`, `mark_cleanup`, `complete_run`, `add_stage`, `transition_stage`,
`acquire_lease`, `recover_expired_leases`; `put_artifact`, `put_run_artifact`,
`link_artifact_to_run`, `garbage_collect`, `reconcile_artifacts`, `backup`, `import_backup`;
`events_after`, reports and exports (reads); schema migration and import of a Python state.

*Interaction.*  The daemon calls it under one mutex.  Each operation is one transaction with
its event and its idempotency row; the files of the artifact store are outside of it.

*Hard.*  Workers, clients and recovery call in any order; leases run out while their holder
works; every request may be repeated; the same status can be reached by several operations
with different gates; a crash may fall between a file step and a row step.

*Correct when* spending stays within what was approved, a receipt stays true for ever, a
revoked run only winds down and does end, a closed run stays closed, a lease is fenced by its
attempt, a key takes effect once, no row changes without its event, references and rows never
outlive what they promise.

### Protected blob store (`promptectomy-protected-store`)

*State.*  Per envelope a put journal, a pending and a final blob, an entry in its key's
index, a deletion journal and a receipt; per backup manifest its pins and an acknowledgment;
wrapping keys in the system's key store.

*Operations.*  `seal`, `put`, `read`, `create_backup_manifest`,
`acknowledge_backup_removal`, `plan_deletion`, `execute_deletion`.  A process-wide mutex and a
`flock` admit one at a time; the key store is not covered.

*Hard.*  Every operation is a series of durable steps and may stop after any of them; a read
repairs what a put left; several envelopes share a key, which must go with the last of them
and not before; backups pin what deletions want to destroy.

*Correct when* nothing readable loses its key, index entry or journal, a pinned envelope
stays whole, and an interrupted deletion can be resumed.

### Daemon (`promptectomy-daemon`)

*State.*  The writer lock and store, a private socket, metadata with a token, a rate window,
permits for connections and for inspections.

*Operations.*  One HTTP request per connection: runs, events, reports, cancellation, garbage
collection (each an operation of the core) and repository inspection.

*Hard.*  The handler of an inspection and its blocking thread are two actors: timeouts and
dropped connections end the one and not the other.  Two daemons may be starting and stopping
at the same socket, and one that was killed leaves files behind.  Clients reconnect with a
cursor across restarts.

*Correct when* permits are neither lost nor doubled, every inspection ends, a stopping daemon
leaves another's endpoint alone, a daemon can always start where it is alone, and a client
that follows events misses none.

### Acquisition (`promptectomy-acquisition`)

*State.*  Published snapshots and work directories; for a remote source the networks, volume
and containers of a docker session.

*Operations.*  Local, archive and bundle sources are read in the process; an HTTPS source is
fetched by a worker container behind an egress proxy, a brokered SSH source needs an agent
relay as well.  Then the tree is published under the digest of its receipt.

*Hard.*  Any docker command may fail, time out or be killed with its effect unknown; removals
may fail; the session is cancelled at any point; equal requests publish at the same time.

*Correct when* a returned session has left nothing or says so, the cleanup it attests has
happened, and a snapshot never changes.

### The other parts

| Part | State and operations | Why it is hard | Status |
|---|---|---|---|
| Adapter protocol and supervisor (`promptectomy-protocol`) | limits and negotiation; a child process with its group, pipes, stderr capture, cancellation and deadline | five events race in one select; a child that dies, forks, floods or goes silent | modelled |
| Egress proxy | accepted connections, a shared byte counter, observations in memory and in a file | tunnels racing the end of the worker and the final report | modelled |
| SSH agent relay | one grant, one identity, a bound session, a count and a receipt | the client or the relay goes between a signature and its receipt | modelled |
| Remote Git runner | workspace, fetch, inventory, bundle, report | any command fails; the host reads while it runs | modelled |
| Command-line client | a cursor and a number of attempts in `watch` | restarts, lost answers, stale tokens | `watch` modelled; the rest formats one request |
| Contracts, generated bindings | none | pure validation | not modelled |
| Python engine (`engine/promptectomy`) | `state_v2`, `artifacts_v2`: an older form of the core's database; executor; capture, discovery, evidence, privacy | executor's container life cycle; import into the core | planned in part |
| Node adapter | its side of the adapter protocol | message order | as the child of `AdapterSession` only |
| UI | reducer over an event stream | reconnects, repeated and missing events | planned |

## Modules

| Module | Models | Abstracted |
|---|---|---|
| `CoreStore` | runs, stages, leases, budgets, receipts, idempotency, cancellation | authority to what its checks read; JSON, digests, wording |
| `CoreRestore` | the same store with `backup` and `import_backup` of its database | the copy and rename of files to one step |
| `ArtifactCas` | content-addressed files, rows, references, collection, backup | bytes to absent, whole, damaged; columns to one value |
| `ProtectedStore` | put, read, backup, deletion, key index | encryption, encoding, path checks |
| `Inspection` | daemon handler, permits, acquisition thread, OCI session, publication | what a container is told and reports |
| `Protocol` | limits, negotiation, validation, encoding and decoding of adapter messages | five dimensions of size to a set; fields to what is compared |
| `AdapterCall` | abstract: what one supervised call promises | |
| `AdapterSession` | the supervisor's call and the adapter's process group | frames written and read whole; stderr in units |
| `EgressProxy`, `AgentRelay`, `GitRunner` | the processes of a remote fetch | addresses, headers, wire formats, git itself |
| `RemoteFetch` | the host's session, composed of the three | containers and their removal, which are `Inspection`'s |
| `Endpoint` | daemons and offline commands at one writer lock, socket and metadata file | permissions to private or not |
| `Watch` | a client that follows a run's events through whatever daemon serves | an event to its number, statuses to what `watch` tells apart |
| `MC*` | instances of these for TLC | |
| `CoreStoreProofs`, `ArtifactCasProofs`, `ProtectedStoreProofs`, `InspectionProofs`, `AdapterSessionProofs`, `RemoteFetchProofs`, `WatchProofs` | inductive invariants and theorems | |
| `SumTheorems` | what the library's sum over a finite set computes | |

**CoreStore.**  One action per operation, named after it: an operation is one transaction, so
one step.  Guards are the code's early returns; a call that returns an error changes nothing
and is no step.  A call that finds its work done (`AlreadyDone`) records its key and emits
nothing, as in the code.  `runs` and `stages` are the tables, `idem` the idempotency rows,
`emitted` the events of the last transaction, `clock` the time callers pass.  Sums are u64:
`within` and `deadline_fits` refuse what does not fit `U64Max`.  `MaxIdem` bounds how many
operations are ever called with a key; a call that was made with its key may be made again in
every later state, and only `replay_idempotency` keeps it from taking effect.  `CoreRestore`
extends the module by `backup` and `import_backup`, which replaces all tables at once by those
of an earlier time while the clock goes on; an import whose database cannot be installed puts
the old one back.  What an import does to the files of artifacts is in `ArtifactCas`.

**ArtifactCas and ProtectedStore.**  `op` is the operation that holds the lock with the place
it has reached.  Each action is one durable step: a file linked, unlinked or renamed, a row
written.  `crash` and `interrupt` drop `op` and keep everything durable, so every prefix of
every operation is followed by every other operation.  In `ProtectedStore` the key store acts
meanwhile; in `ArtifactCas` the disk may damage a file and an older database be imported.

**Inspection.**  A task is a request with its connection (`conn`, `answer`) and its thread
(`at`, `error`).  They share `cancelled` and the permit, which the thread holds.  `after` is
the order of `run_session` and `cleanup_session`.  Creating is two steps, since a killed
`docker create` may have taken effect, may never, or may still do so (`pending`, decided by
the docker server in `late_creation`, the one external action).  Removals may fail; the three
listings decide.  `SnapshotOf` tells which tasks publish to the same directory.

**AdapterSession.**  `sup` is the place of the supervisor: one step for each of the five polls
of the biased select, so that anything may become ready between two of them, then the grace,
the kill of the group, the end of stderr and the result.  `talk` is what the exchange has sent
and taken, `child` and `descendant` are the processes, which may write any of `PeerFrames`,
echo the request, write to stderr, fork, leave the group, close their streams or exit.
`Promise` maps this to `AdapterCall`: idle, working, returned; a process of the group alive;
asked; answered.  `CallKeepsPromise` is the refinement.

**RemoteFetch.**  It extends the modules of the three processes and adds the host's steps in
the order of `run_session`.  They interact through files: `done`, the grant, the report and
the observations are created and filled in two steps where the code does so, and are read while
the writer runs.  The bundle comes over the output of a `docker exec`, of which the host checks
the exit status and a length limit (`read_from`): it may be cut short, and then only the digest
in the worker's report tells.  `EgressProxy` has its main task, and for each connection a task whose two
directions read the shared counter and exchange it in separate steps (`copy_limited`,
`reserve_bytes`); an outcome is applied in memory in one step and written in another.
`AgentRelay` takes frames of any kind in any order and keeps what the external agent was asked
to do (`agentSigned`, `agentBound`) apart from what it has counted and published.  `GitRunner`
goes through its commands, any of which may fail, and checks the tree the server sent.

**Endpoint and Watch.**  A process is started once, as a daemon or as an offline command
(`migrate-python-v2`), and `at` is its place in `serve`.  Each call on a path is a step: a step
that removes a file removes whatever is there by then.  A daemon whose loop ends drops its
store, and with it the lock, before its guard cleans up, and its listener last; a connection
task keeps the store longer.  `kill` may fall on every step.  `Watch` extends it with the run's
event numbers and one client in the loop of `watch`: metadata, connect, request, answer, each
of which may fail, be lost or meet another daemon than the one whose token was read.  `seen`
is a history of the pages the daemons gave the client; the loop itself keeps one page at a time
and prints the last one only.

`CoreStore` and `ArtifactCas` share no operation: an artifact reference needs the run's
authority (`CoreStore`), which `ArtifactCas` leaves out and says so.  `Inspection` leaves to
`RemoteFetch` what the containers report, and `RemoteFetch` to `Inspection` their removal.

## Runs

| Run | Instance | Distinct states | Question |
|---|---|---|---|
| `core_lifecycle` | 1 run; 1 stage, 2 workers, clock to 2, u64 up to 2; or artifacts, 2 stages with 1 worker, or 1 backup of a run at work, with 1 attempt and clock to 1 | 389,431 | Do spending, leases, receipts, cancellation and recovery hold under every order of operations, expiries and imports, with an event for every change? |
| `core_retry` | 1 run, 1 stage, 1 key, any one operation repeated with it, fair | 389,480 | Does a repeated key take effect once, and a requested cancellation end? |
| `core_completed` | as above, violation | | Does `completed` imply performed work? |
| `protected_crash` | 2 envelopes, 1 key, 2 manifests, fair | 478,154 | Is every prefix of every operation safe for every other operation, and does a retried deletion get through? |
| `protected_putkey` | 2 envelopes, 1 key, violation | | Does an interrupted put keep its key? |
| `cas_crash` | 2 artifacts, 1 run, 1 backup, damage | 1,471,438 | Do rows, references, their content and quarantine survive crashes, damage and restores? |
| `cas_content` | 2 artifacts, no damage, violation | | Does a referenced artifact have its content? |
| `inspection_cleanup` | remote and local inspection, 1 permit, 1 library call, 1 crash | 1,138,667 | Do permits, cleanup, attestation and publication hold under timeouts, failures and a crash? |
| `inspection_ends` | brokered call, local inspection, 1 crash, fair | 144,061 | Does every inspection end, one with relay and volume included? |
| `adapter_call` | 3 configurations, 5 requests, 8 kinds of frames, 3 frames, fair | 452,873 | Does a call implement `AdapterCall`, keep the announced limits and return? |
| `remote_fetch` | 2 connections over https, or 1 and the relay with 2 signatures over ssh, 6 trees, fair | 608,062 | Is everything in an accepted session accounted for, granted and vouched for, also when a transfer is cut short? |
| `watch_restart` | 2 starts, 3 events, pages of 2, 2 attempts, fair | 359,518 | Does the endpoint lead to the serving daemon and the client miss nothing? |

**Why the bounds are enough to be interesting.**  In `core_lifecycle` a clock of two ticks and
leases of one let a lease be taken, lapse and be taken over, and the last deadline not fit the
integers; a cap of two attempts and a budget of one or two let both limits be met and exceeded;
one of the authorities expires at one.  Two stages let one transaction change both; its
constraint (`OneStageOrShort`) explores one stage in full, and artifacts or a second stage for a
short time, since the product adds no interaction.  The backup that is kept (`BackupOfWork`)
is one of a running run, mostly with its stage and lease: imported after the run went on, ended
or was revoked it brings back the most.  In `core_retry` one operation is called with a key,
each of the ten in turn, and again in every state that follows, among all calls without a key;
two operations under one key are left to the proof, since a key is looked up per operation.
Runs do not interact except through `recover_expired_leases`, which the proofs cover for any
number of runs.  In `protected_crash`
the two envelopes share the key, which is the only way in which envelopes interact, and one
manifest lies within the other.  `cas_crash` has an artifact that may be collected next to one
that is referenced, and one backup that brings either's rows back.  `inspection_cleanup` has
one permit, so the daemon's tasks compete for it, and the library call publishes the same
directory as the local task.  `adapter_call` has every way a call can be refused, hellos with
narrower frames than the caller's and answers that fit one limit and not another.
`remote_fetch` has two connections for the counter they share, with a limit of three bytes that
two directions can pass only together, a second signature and the third that is refused, and a
tree for each way an inventory can be refused.  `watch_restart` has one daemon to go and one to
come, three events so that a page is full and the next is not, and a first attempt that can fail
before one that succeeds; more starts are covered by the proofs.  Deadlock checking is off where
the system may legitimately stop: everything closed, returned or the clock at its bound.

**Fairness.**  `core_retry`: the client that cancels keeps reporting cleanup (weak) and keeps
confirming (strong, since other calls may change the cleanup state back in between); nothing
is assumed of workers, of the clock or of other clients.  `protected_crash`: an operation that
holds the lock goes on, since it is straight-line code; the caller's retry is granted the lock
again and again; from some point on deletions are not interrupted.  `inspection_ends`: the
blocking thread is scheduled, since every docker command has its own deadline after which it
is killed (`SystemCommandRunner::run`), and the handler's timer fires; nothing is assumed of
the docker server or of the client.  `adapter_call`: the runtime polls the call and its stderr
task and the deadline passes; nothing is assumed of the adapter, its descendants or the caller.
`remote_fetch`: the proxy's tasks run and the time limit on each connection strikes; nothing is
assumed of the worker, the destination or the host.  `watch_restart`: the client goes on, a
connection task answers or times out (`CONNECTION_DEADLINE`), a process that is starting or
stopping goes on; that a daemon is ever started, killed or fails is not assumed.

## Proofs

`tlapm` checks all obligations of the eight proof modules (1118 for `CoreStoreProofs`, 534 for
`ProtectedStoreProofs`, 337 for `ArtifactCasProofs`, 741 for `InspectionProofs`, 935 for
`AdapterSessionProofs`, 1606 for `RemoteFetchProofs`, 757 for `WatchProofs`, 242 for
`SumTheorems`).  Each module but the last proves `Invariance`, that its inductive invariant
always holds, by a lemma for the initial states and one per action, and derives from it the
properties the runs check:

- `CoreStoreProofs`: `TypeCorrect`, `SpendIsBounded`, `ReceiptsAreSound`,
  `RevocationQuiesces`, `LeasesAreDisciplined`, and the action properties `LeasesAreFenced`,
  `ClosedIsFinal`, `ChangesAreTold`.  `Inv` is the conjunction of the first five.  They are
  inductive only together: that a receipt stays true of the stages needs that `add_stage`
  refuses closed runs and that a recovery meets running stages only; that a revoked run has no
  lease left at the end needs the lease discipline, because `request_cancel` moves paused and
  queued stages to `cancelled` without clearing the column.  The action properties follow from
  `Inv` step by step (`NextSteady`, `NextTells`): that a new lease replaces no live one uses the
  lease discipline for a queued stage, that a receipt is not replaced uses `ReceiptSound`, and
  that recorded spend is never taken back needs one more invariant, `Fresh`, for the rows
  `create_run` fills.  `KeysTakeEffectOnce` needs no invariant: every action that appends an
  event under a key has looked the key up in the same transaction (`NextOnce`).  All but the
  last are theorems of `RestoreSpec`, with any number of backups and imports: `RestoreInv` says
  that `Inv` holds of the store and, with `CoreStore` instantiated for the tables of a backup
  (`Db(b)`), of every backup, so an import finds what a step of the store would have left
  (`DatabaseIsSound`, `SoundIsRestored`).  No part of `Inv` is about the clock or the events of
  the last transaction, which an import leaves behind.  The three action properties except the
  step of an import itself; `KeysTakeEffectOnce` and the liveness property are about `Spec`, the
  store between two imports.
- `ProtectedStoreProofs`: `TypeCorrect`, `StoredStaysAccountedFor`, `PinnedStaysStored`,
  `HandedManifestsPin`, `KeysAreDestroyedUnused`.  The strengthening says what the records hold
  when an operation has reached a place: `PutProgress`, `DeletionProgress` (what each state of
  the deletion journal says is gone, and that it was checked that nothing else is under the key)
  and `BackupProgress` (which envelopes have been read and pinned).  The part on records alone
  (`Records`) is what survives an interruption.  The key theorem is an action property that
  follows from `DeletionProgress` before the one step that destroys a key.
- `ArtifactCasProofs`: `TypeCorrect`, `ReferencesNeverDangle`, `ContentIsKept`,
  `QuarantineHolds`.  `PutInv` says the file is in place before the row, `GcInv` that the row
  being deleted has no reference, `SavedInv` that a backup had no dangling reference when it
  was made.  That a usable row has its content is proved per artifact, imports included, for
  every artifact that no backup has a usable row of; for the others an import may bring a row back
  whose file was collected meanwhile, until `reconcile_artifacts` quarantines it.
- `InspectionProofs`: `TypeCorrect`, `PermitsAreThreads`, `ReturnedIsCleanedUp`,
  `AttestationIsTrue`, and the action property `SnapshotsAreImmutable`.  They hold for every
  mixture of sources; TLC checks the cleanup for sessions without relay and volume.  That permits and threads
  add up needs `HandlerInv`: a handler that has not been answered yet is the only one that can
  start its thread, so no thread is started twice.  `SessionInv` follows the cleanup listing by
  listing: after each, what docker still has of the kinds listed is at most the creation whose
  command was stopped (`ListedInv`).  A creation is stopped only in a session that has failed,
  so a session that goes on to publish has nothing anywhere and nothing pending (`Clean`), which
  is what the attestation says.  `PublicationInv` ties work directories to the two steps of a
  publication and every ok to a snapshot that is there.
- `AdapterSessionProofs`: `TypeCorrect`, `LimitsHold`, and `CallImplementsPromise`, the refinement
  of `AdapterCall`.  `StageInv` says which messages were written at each stage of the exchange,
  and that a hello was taken and agreed with before anything followed it (`Agreed`); a frame is
  encoded against the negotiated limits, and the announced ones hold because negotiation takes
  the smaller in every dimension.  `EndInv` says what ended the select and who is left of the
  process group when the stderr task is awaited: that is what makes a return a step of the
  abstract call, in which no process of the group is alive.  Every action is shown to be one
  step of `AdapterCall` or a stutter.
- `RemoteFetchProofs`: `TypeCorrect`, `SignaturesStayGranted`, `TrafficStaysAccountedFor`,
  `BundleStaysSelection`, `AcceptedStaysVouchedFor`, `ProjectionIsExact`.  `GrantInv` says that the relay's count is the
  number of signatures the agent made, or one behind where the relay has not counted the last
  one or is gone, that the receipt is never ahead of the count, and that the host is past its
  receipt step only with a receipt above zero; the last needs that the relay is started once.
  `TrafficInv` is about sums over the connections.  `SumInv`, that what is recorded and what
  the tasks have in hand is what was reserved, is disturbed by a task that loses its bytes, so
  `TaskInv` says that such an outcome is recorded as a rejection before its connection is
  forgotten.  That a report is final only with no task left (`QuiescenceInv`) needs the host's
  order: `done` is written after the worker was stopped, so no connection is accepted later; and
  `FinalInv` carries it past the end of the proxy to the host's validation.  `BundleInv` has the
  equation behind `ProjectionIsExact` (`Writing`): what was written and what is left add up to the
  projected length, where every file but the first comes with a separator.  It also gives that the
  bundle is never over its limit while it is written, which is part of `TypeOK`, and that the host
  takes what the report vouches for, although the worker is still running, or a bundle cut short,
  whose digest cannot be that of a selection, which is never empty (`TakingInv`).
- `SumTheorems`: the sum is a recursive function over the subsets of a set, and no theorem of the
  library says what it computes.  Induction is done over sets instead of predicates
  (`NatSetInduction`, `SubsetInduction`, from the least element of a set of naturals), which the
  provers can instantiate; the recursive function is shown to exist (`SumExists`), not to depend
  on the set it was computed in (`SumAgrees`), nor on the order in which elements are taken out
  (`SumRemove`), and to change with one element by as much (`SumUpdate`).
- `WatchProofs`: `ServingStaysReachable`, `LoneStartsServe`, `WatchTakesAll`, for any number of
  starts.  The argument for the first is the order in which a stopping daemon lets go: its
  socket is removed while its listener is still open.  So a daemon that starts meanwhile either
  meets a listener that accepts, and gives up, or no socket at all, and then the cleanup has
  nothing left to remove but the directory (`Owning`, `ListenInv`, `SocketInv`, `StaleInv`).
  The metadata goes before the socket, hence before anyone can bind (`MetadataInv`); the other
  order is the mutant of `ServingIsReachable`.  `LoneInv` and `FailInv` say what a process that
  nobody overlapped finds at each step.  `PageInv` says that what the client has, its cursor and
  the page in the answer are stretches of the natural numbers that fit end to end.

*Assumptions.*  Only those named in the modules: the constants' types, that `None` is none of
the values it stands in for, that manifests are not empty, that collectable classes are classes,
that the bounds, limits and sizes are natural numbers, that a grant is for one to four signatures
(as the relay checks), that a tree is finite and so are the tasks of a daemon and the connections
of a proxy (each has a counter of them), that the daemon starts no brokered inspection.  The sets
of runs, stages, envelopes, artifacts, trees, configurations, requests and frames are arbitrary.
TLC evaluates the assumptions in every run.

*Only model-checked.*  The liveness properties (`RequestedCancelCompletes`,
`InterruptedDeletionResumes`, `InspectionEnds`, `StartedCallReturns`, `DoneIsAnswered`,
`RequestIsConcluded`), since the prover has no backend for fairness.

## Findings and observations

Three runs are expected to be violated: a document or a test states the property and the code
does not have it.

1. `core_completed`: `transition_run` moves a running run to `completed` on the transition table
   alone, past the gate of `complete_run`; `docs/architecture/contracts-v2.md` says that
   "`completed` requires performed-work evidence".
2. `protected_putkey`: `put` writes journal and blob before the key reference.  Interrupted in
   between, it is invisible to the deletion of another envelope under the key, which destroys
   the key; the test `recovered_put_preserves_shared_key_deletion_safety` covers the interruption
   after the reference only.
3. `cas_content`: a collection that dies between moving the file and deleting the row leaves a
   usable row without content, which can be linked; ADR 0005 says that garbage collection is
   transactional.

What the models show besides, where nothing in the repository says otherwise:

- `transition_run` reaches `cancelled` with stages still open and the authority not revoked, and
  `request_cancel` then returns at once.
- `transition_stage` to `running` leaves a running stage without a lease, which `acquire_lease`
  then takes at the price of another attempt.
- An envelope put again after its deletion was interrupted makes every retry of the deletion fail
  with `DeletionStateChanged`; what was put stays whole.
- A pending blob torn by a crash is refused by put, read and deletion from then on.
- Of two envelopes under one key each keeps the other from being deleted.
- A daemon that dies leaves its session in docker and its work directory; nothing looks for
  them at the next start.
- A killed `docker create` may take effect after the cleanup listed nothing: this is the one
  exception in `ReturnedLeavesNothing`, and only for a session that failed.
- An inspection answered with 408 may still publish its snapshot, since the flag is read once
  before publication.
- A second put of the same bytes with `pinned=false` takes the pin of the first away.
- The endpoint is safe although `EndpointCleanup` runs after the writer lock is released, because
  the listener is dropped after the guard.  It rests on a connect to an open listener succeeding:
  a full backlog is not modelled.
- A daemon killed between `bind` and `set_permissions` leaves a socket with the mode of the umask,
  and unless that is private every later start refuses it as an unsafe endpoint.
- A start that races a stopping daemon may fail though the lock is free: the listener still
  accepts, the socket is gone before it is unlinked, or its directory before bind.
- `watch` reads a page and then the status.  A run that ends in between ends the watch with a page
  that lacks its last events, and of a run that has ended only the first hundred are shown.  The
  command-line test watches a run that had ended before, with few events.
- A watch that reads the metadata of one daemon and connects to the next is answered with 401,
  and one that meets the rate limit with 429; both end it, while the failure table of
  `docs/architecture/system-design.md` has the client reconnect after its cursor.
- `accept_rate` is given a time read before the rate lock is taken, so stamps are not in order.
- The agent's signature reaches the client before the receipt is published: a relay that dies in
  between leaves a receipt that is one behind.
- The host's `dd` creates `grant.json` before it fills it, and the relay reads it once: a relay
  scheduled in between exits and the session fails.
- `finish_stderr` waits for the end of a stream that a descendant outside the killed group may
  hold open; no deadline bounds it (the exception in `StartedCallReturns`).
- `import_backup` of an older database lifts revocations and reopens runs that had ended since,
  brings leases and attempt numbers back, so that an attempt may be made twice, and forgets the
  idempotency keys used since; it rolls event numbers back under the cursors of clients.
- `watch` overwrites each page it takes by the next and prints the last one only: the events of
  the pages before it reach the client and not the user.

## Plan

The modules above cover the first part of the plan: the core, the protected store, artifacts,
inspections, the adapter call, the remote fetch, the endpoint and the watch, with the proofs of
their safety properties.  What remains, in this order:

1. Abstract specifications: a stage as a fenced once-at-a-time resource, implemented by
   `CoreStore`; a store of whole envelopes with atomic put and delete, implemented by
   `ProtectedStore` up to interruption.
2. Event numbers across imports of older databases, with the UI's reducer as another client;
   the migration from 3 or 4 to 5 with its backup and rollback.
3. Theorems on the negative side of the findings: under which discipline of its callers (no
   `transition_run` to `completed`, no put that is interrupted) each refuted property holds.
4. Pure algorithms against reference definitions: path policy, archive headers, host and origin
   checks, the Python engine's splitting and scoring.
5. The rate window with its clock.

## Left out

Encryption, encoding, digests, path and permission checks, and the wording of answers: the
modules take them to do what they are for.  SQLite's and the file system's own durability:
a committed transaction and a synced rename are there after a crash.  Deletion of a dropped work
directory, whose errors the code ignores, is taken to succeed.  A panic inside the acquisition
thread.  The parts listed above as planned or not modelled.
