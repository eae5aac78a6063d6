# Formal models of the stateless execution lane, of job completion and of VM recovery

The program is a platform that runs long-lived agent sessions and jobs.  Its
*stateless lane* has no process that owns a session: a message is stored, the
session becomes a row of a Postgres work queue (`run_queue`), any executor pod
claims the row under a lease, runs a turn, persists what the turn produced and
disposes of the row.  Every guarantee of the lane (no work lost, none done
twice, no output of a pod that lost its lease) rests on a few SQL statements in
`src/shared/run_queue/queries.py` and on what their callers do between them.
That is the core this project models.  Around it stands the turn of a session:
what an executor does between claim and disposition, how the user's stop reaches
it, and what the reaper makes of an executor that died in the middle.

Jobs end by a second mechanism with the same ingredients: the agent's report is
accepted as a durable *completion command*, and a finalizer process carries it out
under a lease, step by step, in a journal of effects that its successor resumes.
Pauses, cancels, human decisions and later reports of the same job arrive meanwhile.

A third mechanism takes a whole workspace out of service.  Jobs that share a VM (an owner and
the children that inherit it) are workers of the queue; when one of them finds the VM gone,
all are held under a *recovery operation* until a reconciler has seen the VM answer again or
the operator has decided.  The operation must not replay commands whose outcome nobody
knows, and the VM's disk must outlive it.

## Inventory

| Component | State it keeps | Operations | Properties that make it correct |
|---|---|---|---|
| Run queue contract, `src/shared/run_queue/queries.py` | one row per unit: state, lease token and holder, expiry, watermarks of input and controls, interrupt window, attempt and failure record, park reason, `queued_at` | enqueue, record input and control, claim (general and preferred), heartbeat, fence, complete, release, deterministic release, attach failure, park, open and close the interrupt window, reap, unpark, settle | a lease token fences every late write and disposition; nothing owed is left in a `done` row; watermarks merge; every retry loop is bounded; claims are fair |
| Input admission, thread controls, input delivery (`stateless_input_admission.py`, `thread_controls/queries.py`, `persistent_input_delivery.py`) | messages, control requests with receipts, deliveries with their phase | admit, claim, settle, finalize, unadmit, reclaim | each admission reaches the queue in the transaction that stores it; each control and delivery takes effect once |
| Turn executor, `src/agent/api/turn_executor.py` | its claim, warm session, running turn | attach, drain, persist under the fence, dispose, renew, detach | stops writing when the lease is gone; answers in order; a released unit needs no second cleanup |
| Reaper and claim-loss holds (`run_queue_reaper.py`, `session_retirement.py`, `unit_claim_bundle.py`) | ledger of lost claims, hold on the queue row, active claimant | steal with hook, acknowledge quiescence, reconcile, stamp the claim bundle | no successor gets credentials while an older claimant may still do I/O; the hold ends |
| Thread interrupts (`thread_interrupts/queries.py`) | interrupt requests with outcomes | admit, settle by the live turn, while idle, or by the reaper | every request is settled exactly once, by the turn it names |
| Worker queue (`worker_queue.py`, `worker_execution_hold.py`) | queue row, jobs row and a ledger of attempts by lease token (claimed, authorized, how it ended) | claim, authorize the bundle, renew, requeue, park, finish, stop on cancellation, hold | one live attempt per job; holds and dispositions agree; an attempt that may have run commands ends with an account of it |
| VM workspace recovery (`vm_workspace_recovery_store.py`, `vm_workspace_recovery.py`) | operations (phase, claim, deadline, successor), the roster of each with its evidence, retention pins | report and reaper's admission of a hold, claim, require the pin, attest, defer, pause, release, retry, cancellation of a member, cleanup permit | rows, jobs, roster and operation agree; nobody runs a member under recovery; an unknown outcome is not replayed; the disk stays |
| Retention at the VM controller (`vm_controller/controller.py`) | one Kubernetes Lease per pin, the root disk | apply or remove a pin, refuse or do the deletion of the disk | an acknowledged pin is never without a Lease while its operation is open |
| Leader election, event journal, cloud push | advisory lock, append-only log, push tasks | acquire and lose, append and page, enqueue and retry | at most one leader up to the connection's death; sequence numbers have no gaps |
| Durable job completion (`job_completion_commands.py`, `completion_finalizer.py`, `legacy_job_completion.py`, `completion_effects.py`, `completion_teardown_authority.py`, `completion_command_resolution.py`) | a command per report (state, lease, attempts, deadline, accepted status and decision), a journal of effects (attempts, window, detail), the job's report counter | accept, claim, resolve the entry status, guard, deliver, write the status, tear down, finish, release, retry or park, supersede, unpark, force | reports take effect in order, once, and only on the status they were admitted with; nothing is published before it was delivered; an authorized teardown keeps every later agent away |
| Job controls (`completion_control.py`, `job_controls.py`, `postgres.py`) | the jobs row: status, agent, control marker | pause, cancel, claim and finish a decision, requeue, dispatch, delegation timeout | a control and a report never both decide the job |
| Job dispatch, session lifecycle, VM creation and fairness | many tables and Kubernetes objects | | subsystems of their own |
| Cockpit, MCP server, voice gateway, the rest of the VM controller, drivers, harnesses, packaging | | | user interface, adapters, deployment |

How they interact: sessions and stateless jobs meet in the `run_queue` row, the end
of a job in its `jobs` row.  Admissions bump its
watermarks and revive it; executors claim, renew and dispose of it and take the
row `FOR SHARE` inside every durable write; the reaper takes it back when the
lease expired; operators and recoveries park and release it.  Between
services nothing is called back and nothing is signalled (a NOTIFY is a hint, never
relied upon); inside an executor the turn runs as a task of its own and reports to
the claim by callbacks.

The jobs row is locked by every transaction that admits a report, authorizes a
teardown, writes a status or takes a control; between two such transactions a
finalizer may lose its term, and everything else may happen.

A recovery is written by five parties that share only the database: the worker that reports the
loss, the reaper that finds its lease expired, the reconcilers (one task per orchestrator),
the operator, and the loop that settles cancelled jobs.  Each transaction locks the owner's
advisory lock, the jobs and the queue rows.  The controller is outside: a reconciler decides
under the lock what to send, sends it later, and acknowledges the answer in another
transaction.

What is hard: a pod keeps running after its lease was stolen and learns of it
only from a statement that matches no row; two reapers may run around a leader
change; the reaper's scan and its steals are separate statements; input,
controls and event deliveries arrive at any moment of a lease; the interrupt
window ties two columns to a lease that other statements end; failures are
counted by columns that different statements reset; operators and recoveries act
on rows that pods believe to own.  In a completion, external work (delivery,
teardown) cannot be part of a transaction: its intent, the work and its result are
three steps, and the owner may die between any two; the status a command was
admitted with may be left and reached again by other writers; a later report may be
admitted at any point of an earlier one.  In a recovery, a fact about several jobs is kept in
four tables, each of which some other path also writes; evidence is frozen at the hold
and judged much later, perhaps by a successor operation; the claim of a reconciler, the
deadline and the probe lapse at any point of a pass; a pin is handed from an operation to its
successor while calls for either are still under way.

`PROJECT.json` lists every component with its status, and every hazard at its line.

## Modules

- **`RunQueueRows`**: the table.  One operator per SQL statement, from the row
  before to the row after.  Time is reduced to what a `WHERE` clause sees:
  `lapsed` (the lease expired longer ago than the reaper's grace), `ready`
  (`run_after` reached), `aged` (`queued_at` older than the affinity grace).
  SQL `NULL` watermarks are `-1`.
- **`RunQueue`** extends it with the clients.  Variables: `row`; the thread's
  messages (`top`, `human`) and event deliveries (`owed`, `admitted`); the units
  under workspace recovery (`recovering`); the order of `queued_at` (`ahead`) and
  row locks of foreign transactions (`locked`); per pod what it *believes* it
  holds (`claim`), its warm session and whether its persist transaction is open
  (`fence`); per reaper the result of its scan (`found`); per unit the token of
  the last durable write (`persisted`).

  | Actions | Code |
  |---|---|
  | `AdmitInput`, `PersistEvent`, `AdmitControl`, `EnqueueUnit` | one transaction each: the message, delivery or request and the row |
  | `Claim`, `ClaimPreferred` | `claim_unit`; `ORDER BY priority DESC, queued_at`, affinity grace, `SKIP LOCKED` |
  | `FenceLease`, `PersistCommit`, `PersistAbort` | a durable write: token check `FOR SHARE`, then commit or rollback, with anything in between |
  | `HeartbeatUnit`, `LearnLeaseLost`, `PodCrash`, `ExpireWarm` | renewal, finding out, dying, detaching |
  | `OpenInterruptAdmission`, `CloseInterruptAdmission` | the window in which an interrupt can be bound to a turn |
  | `AdmitDelivery`, `UnadmitDelivery`, `ReclaimDelivery`, `FinalizeControl` | what a turn does with deliveries and controls, as far as the row's debt depends on it |
  | `CompleteUnit`, `ReleaseUnit`, `ReleaseUnitDeterministic`, `ParkUnit`, `RecordAttachFailureOf` | the dispositions |
  | `ReapScan`, `ReapStealUnit`, `ReapMiss`, `ReaperCrash` | `reap_expired`: scan, then one compare-and-set per row |
  | `ConsumeStopLive`, `SettleStopIdle` | a stop is settled: by the holder, or by the reaper's retry on a parked row (the steal settles those of its lease in the same action) |
  | `UnparkUnit`, `SettleParkedUnit` | operator, owner |
  | `ParkWorkerForRecovery`, `HoldWorkerForRecovery`, `ReleaseWorkerFromRecovery` | workspace recovery of a worker |
  | `LeaseLapses`, `BackoffElapses`, `GraceElapses`, `RowLocked`, `RowUnlocked` | time and foreign transactions |

- **`SessionTurns`** (extends `RunQueueRows`): one session and its executors.
  Variables: `row`; the messages (`top`) with the event deliveries among them
  (`owed`, `admitted`, `settled`); the turns whose end is durable (`answered`);
  the stop requests with their receipts (`stop`); per executor how far its claim
  has come (`pod`) and whether it is shutting down (`draining`); the thread's
  active claimant and claim-loss hold (`active`, `hold`).

  | Actions | Code |
  |---|---|
  | `AdmitMessage`, `AdmitStop` | admission of an input, and of a stop for the lease and turn whose window is open |
  | `Claim`, `Skip`, `Bind`, `GiveBack` | `_serve_claim`: skip-if-answered by watermark or transcript, then the claim bundle with the claimant's stamp |
  | `AckStale`, `FinalizeStale`, `RecoveryFails` | `_reconcile_stale_thread_interrupts` |
  | `StartTurn`, `NothingPending`, `AdmitDelivery`, `Answer`, `TurnEnds`, `TurnRefused`, `LoopDies`, `SettleDelivery` | the turn, as far as it writes durable state |
  | `Close`, `CloseRefused` | the atomic close of the window with the checkpoint |
  | `Signal`, `CommitReceipt`, `Finalize`, `FinalizeFails`, `JournalFails` | `_drain_thread_interrupts`: RAM, then the receipt, then the request, in three steps |
  | `Finish`, `CompletionFails`, `Leave`, `Terminate`, `HandBack`, `Replace`, `Crash`, `LearnLost`, `HeartbeatRow` | dispositions, shutdown and loss |
  | `Steal`, `AckQuiesced`, `RetryStale`, `UnparkUnit` | the reaper's atomic session steal with its hold, its release, the retry on parked rows, the operator |

  A message and its turn have the same number.  Whether a turn has run a tool,
  which decides between release and park, is a free choice.  Controls, warm reuse
  and sub-agent recovery turns are left out here.
- **`MCSessionTurns`**: its symmetry set.
- **`CompletionCommands`**: the commands of one job, in either lane.  Variables: the
  jobs row (`job`: lane, status, whether an agent is assigned, report counter, control
  marker, decision; `ver` counts the status writes of others), the commands with the
  journal of their delivery and teardown (`cmd`), what each finalizer is doing
  (`fin`), the deployment's status order (`reorder`), and the order in which reports
  wrote the status (`writes`, history).

  | Actions | Code |
  |---|---|
  | `RecordDecision`, `Accept` | the job_complete tool, `accept_completion_command` |
  | `Claim`, `ParkUnclaimable`, `LoseTerm`, `Crash`, `WorkflowFails`, `RetryOrPark`, `ReleaseForPendingEffects`, `Finish` | the life of a claim in `finalize_command` |
  | `Resolve`, `Supersede`, `Guard` | which status the command may act on (`_resolve_entry_authority`, S1), and the end of one that lost it |
  | `AcquireDeliveryControl`, `BeginShip`, `AssertDeliveryControl`, `ShipDone`, `ShipFails` | product delivery (S26, S33): the marker, the intent, the check under the lock, the result |
  | `WriteStatus`, `AssertDispositionAuthority` | the disposition (S17) as a compare-and-set with its marker, and the authority of the tail |
  | `BeginTear`, `AuthorizeTeardown`, `TeardownDone`, `TeardownFails` | the workspace teardown (S36): intent, authorization or hand-over to a later report, result |
  | `Pause`, `Cancel`, `DelegationTimeout`, `ClaimControl`, `FinishControl`, `Requeue`, `Dispatch` | the other writers of the jobs row, each with its own guard on marker and unfinished commands |
  | `SwitchReorder`, `SafetyNet`, `Unpark`, `ForceResolve` | the rollout and the operator |
  | `LeaseExpires`, `WindowCloses`, `DeadlinePasses`, `ControlEnds` | clocks |

  Delivery stands for the group of S26 and S33, teardown for S36; the other effects
  of the workflow run under the same journal and are left out.  A lapsed lease also
  closes the windows under it, since `complete_by` ends five seconds before it.
- **`MCCompletionCommands`**: its symmetry set.
- **`WorkspaceRecovery`**: one workspace, its jobs and its disk, in the deployment that has
  VM recovery enabled.  Variables: the members' queue rows (`unit`, `lapsed`), jobs rows
  (`job`) and attempts (`ledger`); the operations (`op`), their rosters (`part`) and pins
  (`pin`); the Leases (`lease`), the calls that are under way (`calls`) and the disk; per
  reconciler its pass (`svc`); what the reaper (`scan`) and the settle loop (`settling`)
  have read and not yet acted upon; whether a cleanup is admitted (`permit`).

  | Actions | Code |
  |---|---|
  | `CreateChild`, `EnqueueWorker`, `ClaimWorker`, `AuthorizeBundle`, `RenewWorker`, `RequeueWorker`, `ParkExhausted`, `FinishWorker`, `StopCooperatively` | a worker's job and its leases, as far as holds depend on them |
  | `Report`, `ReaperLooks`, `ReaperHolds`, `ReaperMisses` | `admit_hold`: by the holder in one transaction, by the reaper in a look and a second transaction that reads again |
  | `ClaimDue`, `ExpireDue`, `PinAcknowledged`, `Stage`, `Defer`, `PauseForAttention`, `Release`, `LoseClaim` | a pass of `reconcile_once`, one action per transaction |
  | `PauseDisabled`, `Retry`, `CancelJob`, `SettleLooks`, `SettleFinalizes`, `SettleCompletes` | an orchestrator with the feature off, the operator, `cancel_stateless_job` and its settle loop, whose two transactions have the workspace's teardown between them |
  | `SendPin`, `ServePin` | a pin command read from the table and sent; served, answered and acknowledged, at any time, once, repeatedly or never |
  | `AcquireCleanup`, `DeleteDisk`, `CompleteCleanup` | the cleanup of a finished owner, which the controller refuses while a Lease exists |
  | `ClaimLapses`, `DeadlinePasses`, `LeaseLapses` | time |

  What a member's evidence proves is taken at the hold (`Safe`, `Doubtful`) and never
  again, as in the code.
- **`MCWorkspaceRecovery`**: its symmetry set and the constraint `Focus` (below).
- **`FencedLease`**: the abstract promise.  A unit has an epoch that only grows,
  is live or not, and durable writes happen only in its live epoch.
- **`RunQueueOrder`** (extends `RunQueue`): the queue with a history variable, `passed`, that
  records which units were claimed past one that every pod could have claimed.
- **`MCRunQueue`**, **`MCRunQueueOrder`**: symmetry sets, and a constraint each.  The first
  joins three regions that overlap (`LeaseOrDebt`): all pods and reapers on one new message
  (`LeaseFocus`), all kinds of work of the session under one pod and one reaper at a time
  (`DebtFocus`), and a worker alone through a lease and a recovery (`WorkerFocus`).
  The second checks `RunQueueOrder` with two parts (`WorkerOrOrder`): one worker
  without sessions (`OneWorker`), unconstrained; or sessions without the worker
  (`OrderFocus`), without parked units, interrupt windows, event deliveries, stops and reaper
  scans, none of which has a part in the order of claims.
- **`RunQueueRowsProofs`**, **`RunQueueRecordProofs`**: what each SQL statement does to the
  lease of a row and to everything else it records; **`RunQueueProofs`** and
  **`RunQueueLedgerProofs`**: the theorems of the queue that rest on them.
- **`SessionTurnsProofs`**: the theorems of a session's turns, which rest on
  `RunQueueRowsProofs` too.
- **`CompletionCommandsProofs`**, **`WorkspaceRecoveryProofs`**,
  **`WorkspaceRecoverySafetyProofs`**: the theorems of the other two.

Definitions marked `Mutant` are plausible mistakes in a statement, kept to show
that the properties notice them.  No behaviour of `Spec` uses them.

### Atomicity

One action is one transaction, except where the code uses several: the durable
write is split at the fence, the reaper pass at every row.  The persist fence
holds the row `FOR SHARE`, so an update of the row waits (`Writable`).  The
`EXISTS` on deliveries in `complete_unit` may read an older READ COMMITTED
snapshot, but the transaction that stores a delivery also bumps `input_seq` in
the same row, so a completion that waits for it re-evaluates its row; the atomic
action is right.  Concurrent first inserts of one row are serialised by the
callers' thread lock.

## Runs

| Run | Instance | Question |
|---|---|---|
| `queue` | 2 pods, 2 reapers, 1 session with 1 old message or 1 worker, 1 attach signature, threshold 2, 2 new messages or events, 2 controls, 3 tokens | Is a lease exclusive against zombies, late commits and two reapers?  Does a repeated failure park the unit in time?  Is anything stranded in `done`, answered twice, or moved back?  Does the queue implement `FencedLease`? |
| `order` | 2 pods, 1 reaper; either 1 worker with 5 tokens, or 2 sessions with 4 tokens together | Does a recovery exclude execution?  Does a full failure record keep the worker parked?  Is a unit overtaken twice by the same unit? |
| `turns` | 2 executors, 2 stops, human-event-human, 4 tokens, 2 faults of any of 6 kinds | Is anything run after it was stopped, skipped, or left behind by a dead executor?  Do two executors share the workspace?  Do the hold and the row's reason agree? |
| `turns_live` | 2 executors, 1 stop, 2 human messages, 7 tokens, 2 faults of 5 kinds, fair | Is a message answered exactly once?  Does every lease end and every stop get settled? |
| `completion` | 1 finalizer process, both lanes, 2 reports that ask for completed or paused, 2 attempts, 1 try per effect, 2 status writes of others, 1 rearmed command | Do reports decide in order, each once, and only on the status they were admitted with?  Is delivery first, is it safe from people's controls, and is an authorized teardown exclusive? |
| `completion_live` | 2 finalizers, 1 report of 4 kinds, 2 attempts, 2 tries, fair | Does every command come to rest? |
| `vm_recovery` | an owner and a child, 2 reconcilers, 2 operations, 3 tokens each | Do the tables agree on a hold?  Does any member run, or any unknown outcome get replayed?  Is the disk pinned throughout? |
| `stop_on_event`, `answered_twice`, `shutdown_consumes`, `deferred_teardown_lost`, `marker_ignored` | the smallest instance of each | Five promises of the code that it does not keep (below) |

Bounds.  `MaxToken` bounds claims, steals and recoveries of a unit: three tokens
are a claim, its steal and the successor's claim, which is every relation a
zombie can have to the row, and with a threshold of two they mix attach failures and
deterministic ones; five for the worker in `order` let deterministic failures, steals,
recoveries and unparks mix.  `MaxSeq` and
`MaxControl` of two new entries give one that is being answered and one that
arrives meanwhile.  `queue` does not have both dimensions at once: `LeaseFocus` has every
relation of pods, zombies and reapers to a row with one new message, `DebtFocus` every order
of messages, events, controls and stops over two leases whose clients come one after the
other, with the second message or the second control; `WorkerFocus` has the worker's own
operations and the locked rows, which `order` takes further.  A zombie's
statements do not depend on what the row owes, since the fence is part of each; and the proofs cover the product.  `History` is the number of messages from the thread's
earlier life in another lane.  The overtakings of `order` need no reaper scan: the history
variable concerns claims and requeues only, and four tokens together allow one session
three claims while the other waits for its second.  `MaxFaults` bounds what the environment may do to
a session in `turns` and `turns_live`: two faults let a recovery be interrupted
itself.  Four tokens are a claim, its steal and two more claims; the liveness run
has seven, enough that no behaviour with two faults runs out of them (a bound that
was reached would show as a false violation).  One stop is enough there: stops that
wait together belong to one lease and turn (`OneStopGeneration`).  In `completion`
one finalizer process is enough for the safety properties: a process that lost its term
changes nothing any more (every write is fenced by `Holds`), so a second one adds only
its own loss; `completion_live` has two.  Two reports give one that is under way and one
that is admitted meanwhile, and two foreign writes are a status left and reached again.
In `vm_recovery` two operations are a recovery and either its successor by retry or a second
loss after a release; three tokens are a claim, its hold and one more claim or hold, which
is all that `Safe` distinguishes.  `Focus` splits the state space in two overlapping parts.
In the first (`HoldFocus`) owner and child are both at work and everything that concerns
holds interleaves: reports, reaper, operator, cancellations, settle loop, one reconciler
at a time; the pins are acknowledged as soon as they are served, no deadline passes, no
claim lapses unnoticed, and of a scan, a settlement and an expired lease one is pending at
a time.  In the second (`DiskFocus`) the owner is alone and held once, without
scan and settlement, while two reconcilers lose claims, deadlines pass and the calls for
both pins are as late and as frequent as they come.  What the parts leave out (a lost claim in
the middle of a hold of two jobs, for instance) is covered by the proofs, which have no bound.
Deadlock is not checked: at the bounds, and when
all work is done, the system really stops.

What they show:

- `FenceExcludesSteal`, `OneHolder`, `LiveLeaseEndsByHolder`: between the token
  check and the commit nothing takes the lease away; a zombie never disposes of
  its successor's lease; a heartbeat that lands after the reaper's scan saves the
  lease.
- `NoStrandedWork`: `done` implies that no input, control or event is owed, at
  every interleaving with the end of a turn, a steal or a settlement.
- `HistoryNeverReplayed`, `ConsumedBehindInput`, `NeverGoesBack`: the watermark
  of a new row starts exactly behind what the thread's earlier life answered,
  never passes what was recorded, never moves back.
- `InterruptWindowOwned`: the table's CHECK constraint can never refuse one of
  these statements, and no window survives its lease.
- `FailureBudget`: a repeated failure parks the unit at its threshold however other events
  are mixed in, and only a statement that lifts the park with its record makes it claimable
  again.  The settlement of a stop on a parked row is the exception, and the property names
  it: it frees the unit and leaves both the full record and the park reason, so that the next
  failure parks it again.
- `RecoveryExcludesExecution`: nobody holds, steals, unparks or settles a unit
  under an unresolved recovery.
- `RoundRobin`: without warm reuse, a visible unit is never overtaken twice by
  the same unit of its priority.  With warm reuse it does not hold (the pod asks
  for its warm session first, which `claim_unit` documents), so the run sets
  `WarmReuse` to the empty set.

- `StopNotReplayed`, `OneStopGeneration`: however executors die between signal,
  receipt and finalization, a turn the user stopped is never started again, and
  stops of two leases never wait together.
- `NothingSkipped`, `EventsServed`: one watermark serves human messages and
  events; it passes no human message whose turn was not started, and a session at
  rest owes no event, also when the event's executor died after its admission.
- `OneAttached`: the claim-loss hold keeps a successor from the workspace while a
  claimant that lost its lease may still write.
- `HoldIsShown`: that hold is kept twice, in the thread's metadata and as state and reason of
  the queue row.  Whatever messages, stops, retries and unparks come in between, the two
  begin and end together, so that the row is not freed under a claimant that may
  still write, and no reason is left over that refuses the owner's retry
  (`park_retry_refusal`) after the hold has gone.
- `ServedBeforeConsumed`, `AnsweredOnce`, `LeaseIsGivenUp`, `StopIsSettled`: with
  human messages only and no shutdown, each is answered or stopped exactly once,
  every lease ends, and every stop is settled unless the session comes to rest.
  The restriction is needed: the findings are what happens without it.

- `DispositionsInOrder`, `StatusIsTheOneAdmitted`: reports write the status in the order
  of their acceptance, each at most once, and only if nobody else has written it since
  the acceptance.  The code compares the status by value only; that no sequence of
  pause, resume and dispatch brings the value back rests on dispatch and requeue waiting
  for every unfinished command.
- `DeliveredBeforePublished`: in the reordered mode a terminal status is written only
  after the delivery settled, over failures, spent tries and takeovers.
- `DeliveryExcludesPeople`: while a command holds its delivery marker, pauses, decisions,
  resumes and dispatches leave the job's status alone.  The delegation timeout does not
  (finding 5), so the property allows for a pinned job that is cancelled, and for
  nothing else.
- `TeardownHoldsJob`: from its authorization until it settles a teardown admits no later
  report, keeps its command open and the job off the dispatcher, over every crash and
  expiry.
- `DeferredTeardownServed`: with reports that complete or pause the job, a teardown handed
  on is carried out or handed on again (the proof covers every report but one that fails
  the job).  With reports that fail it, it is not (finding 4).
- `HoldIsExact`: a hold is the same in its four tables, over retry, release and the cancellation
  of single members; no job stays frozen for an operation that no longer holds it.
  A job that is cancelled under its hold is the one exception: its row is closed by the settle
  loop, before or after a hold that meets it.
- `WorkspaceQuiet`: while an operation is open no member is at work, except a
  cancelled one that has not noticed yet (the roster leaves terminal jobs out).
- `UnknownOutcomeNotReplayed`: whoever held the member before, by report, by the reaper or through a
  successor's inherited evidence: an attempt that got its credentials and was not settled
  by its own holder is never followed by another attempt.
- `AttestedUnderPin`, `NoPinGap`, `DiskKept`: members return to work only after the
  controller acknowledged the pin; from then on a Lease exists until the operation, or the
  successor that took it over, is resolved, whatever calls are still under way; the disk
  is not deleted while an operation is open.
- `CommandSettles`: a command ends or is parked, although a pass that leaves an effect
  pending gives its attempt back; what bounds it is the effect's own tries.

Findings, each with its run:

1. `stop_on_event`.  A stop may be admitted for a turn that serves an event.
   Settling an applied stop needs exactly one human row of that turn and raises
   otherwise (`thread_interrupts/queries.py:427`).  If the executor then dies, the
   reaper settles the stop inside the steal, so the steal is rolled back on every
   pass: the row stays leased by a dead pod.  While the executor lives, its final
   drain fails the same way.
2. `answered_twice`.  The transcript leg of skip-if-answered is not taken while an
   event is pending (`turn_executor.py:3868`).  The claim then takes the ordinary
   path, which begins with the oldest human row: the answered one.
3. `shutdown_consumes`.  A shutdown closes provider admission before it stops the
   executor.  A turn injected but not yet sent to the provider is refused with the
   message that its input "remains durable for the replacement", and then reported
   as settled; the executor checkpoints the input as consumed.
4. `deferred_teardown_lost`.  When a newer report was admitted, the older command ends
   its teardown as deferred to it, and the newer one, a late no-op, "must nevertheless
   run *only* the teardown tail" (`legacy_job_completion.py:557`).  It does so only for a
   job that is completed or under review.  If the older report failed the job, the newer
   one is refused with HTTP 400, stored as a done outcome, and nobody tears the workspace
   down.
5. `marker_ignored`.  A reordered command marks the jobs row before it delivers, and the
   comment there says that "Cancel/pause/resume/admission paths already honor this reserved
   marker" (`legacy_job_completion.py:1630`).  The sweep that cancels the pinned children of a
   timed out delegation (`completion_recovery.py:227`) calls `cancel_job`
   (`postgres.py:5603`), which looks at no marker: `DeliveryExcludesForeignWrites`, that nobody
   moves the job under a marker, is violated in a few steps.  The command's next compare-and-set
   then fails and it is superseded, but its products are delivered.

A disagreement without a run.  The idle settlement of a stop on a parked row
(`thread_interrupts/queries.py:479`) takes the row to `queued` or `done` and keeps
`park_reason`, which the column's comment says is "NULL while not parked"
(`schema_current.sql:31765`); a rewind of the session is then refused as `queue_parked`
(`thread_rewind.py:208`).  `SettleStop`, and with it every module of the queue, does what the
code does, and no property says what the comment says.

In the recovery of a workspace the model shows four more disagreements, without a run.

- *A cancelled job can return to work.*  `cancel_stateless_job` of a leased job keeps the
  lease, "so the holder's renewal can observe jobs.status and stop cooperatively; if it
  dies, the next claim reconciles the terminal row" (`postgres.py:5942`).  If the holder reports
  the loss of the VM before it has noticed, or the cancellation falls between the reaper's
  look and its second transaction, `admit_hold` writes `paused` over `cancelled`
  (`vm_workspace_recovery_store.py:1552`).  The operation waits for the operator; after a
  retry, if the continuation of its members is safe, the job is released and runs.
- *A Lease can stay for ever.*  The Lease of a superseded pin is given back only while the
  successor's pin is active and acknowledged; if the successor is resolved first, nobody
  sends the release.  The same holds for a Lease made by a call that was served after its pin
  was released, or whose answer was lost: its pin was never acknowledged.  The comment at
  the retry says that the background sync retries the leak (`vm_workspace_recovery.py:817`).
  The disk is then kept for ever, which is the safe side.
- *A dead lease of a cancelled job stays.*  The reaper leaves terminal jobs alone, and the
  settle loop does nothing while the row is leased.
- *A projection that cannot be met.*  A hold on a row that is parked under another
  reason keeps that reason (`COALESCE`, `vm_workspace_recovery_store.py:1548`), and the normal
  release asks for its own (a worker's own park writes no reason, so the model has no such
  row); an owner that was cancelled leaves the roster, and release reads the VM's projection
  from it.  Either way every release ends as a pause, and only the operator's
  cancellation remains.

Three choices of the code are worth knowing, although nothing contradicts them.  A child that
never started survives one recovery only: at the second its token is not zero any more
and its evidence counts as doubtful.  A completion command that is parked with an
authorized teardown can be neither rearmed nor forced (`completion_command_resolution.py:137`).
And after a park with a stop undrained and an unpark, the next claim skips by the watermark and
the stop stays pending on a `done` row until it is settled as idle (`turn_executor.py:3834`).

Two docstrings are wider than the code, without consequence for these properties:
`complete_unit` calls itself "the ONLY attempt reset besides unpark", while closing
the interrupt window with a checkpoint resets the attempts of a unit that is still
leased; `unpark_unit` calls itself "The ONLY path out of `'parked'`", while
`settle_parked_unit` is another.

Fairness.  The safety properties need none.  `FairSpec` of `SessionTurns` assumes
weak fairness of the claim's own progress (`Turn`) and of the drain (`Drain`) of
each executor that is up, of some executor claiming, of the replacement of an
executor that shut down, and of `Control`: time, the reaper, the acknowledgement of
quiescence and the retry of stale stops.  The code justifies it: executors poll,
the drain runs in a watcher and once more after each close, the reaper and the
reconciler are periodic loops, and a lease that nobody renews expires.  Nothing is
assumed of messages, stops, faults or the operator.  `FairSpec` of `CompletionCommands`
assumes weak fairness of each finalizer's workflow (`Step`: it goes on, or its timeout ends
it), of some finalizer claiming and of parking what has no attempts left (`run_drain` polls),
of the expiry of a lease whose owner is gone, and of the closing of effect windows; nothing
of reports, controls, crashes or the operator.  The fairness of `Turn` says
that a turn ends, which the executor enforces by its own timeouts and the loop's
end.

## Proofs

`RunQueueProofs` proves, for any sets of pods, reapers and units and any
thresholds, from the named assumptions `RowConstants` and `QueueConstants`:

- `LeaseInvariant`: `Spec => []LeaseInv`.  `LeaseInv` is `TypeOK` plus five facts:
  an open persist transaction means the pod holds the lease; a claim a pod
  remembers is never ahead of the row's token; two pods never remember the same
  claim; a holder is named in `leased_by`; no durable write is ahead of the token.
  The two conjuncts of the properties alone are not inductive: that no two pods
  share a claim needs that no claim is ahead of the token (a new grant is then
  new), and the refinement needs the bound on `persisted`.
- `TypeCorrect`, `FenceIsExclusive`, `SingleHolder`: `TypeOK`,
  `FenceExcludesSteal` and `OneHolder` always hold.
- `QueueRefinesLease`: `Spec` implements `FencedLease` with the lease token as
  the epoch.

The argument: all actions fall into eight kinds as far as the lease is concerned
(a grant, a renewal or other update under the same token, an update of a row that
is not leased, the end of a lease by its holder, a taking by token bump, opening
and closing the persist transaction, and steps that touch no lease).  Each action
is shown to be of one kind, from lemmas in `RunQueueRowsProofs` on what each SQL
statement does to token, state and holder; the invariant and the refinement are
then proved once per kind.

`RunQueueLedgerProofs` proves, from the same assumptions, every other property of the queue
that the runs `queue` and `order` check:

- `LedgerInvariant`: `Spec => [](TypeOK /\ Ledger)`.  `Ledger` says of each row that it is sound
  by itself (`Sound`: a row that does not exist has the defaults, a window carries the token of
  the running lease, a record that reached its bound comes with the reason of the park it
  caused, `Explained`, no watermark passes its input), and that it balances with what is
  behind it (`Account`: events still owed or admitted were recorded and came after the
  history, a session's watermark covers the history, a worker has neither window nor events
  and shows a reason only while it is parked, `Reasoned`, a `done` row owes nothing), and
  that only workers are under recovery, parked.
- `NothingStranded`, `WindowOwned`, `WatermarksBehind`, `HistoryBehind`, `FailuresBounded`,
  `RecoveryExcludes`: `NoStrandedWork`, `InterruptWindowOwned`, `ConsumedBehindInput`,
  `HistoryNeverReplayed`, `FailureBudget` and `RecoveryExcludesExecution` always hold.
- `Forwards` (`NeverGoesBack`) and `LiveLeaseHeld` (`LiveLeaseEndsByHolder`): the action
  properties, the first with the bound on durable writes from `LeaseInv`.
- `GoesPastOnce` (`RoundRobin`), if `WarmReuse = {}`, and `OnlyWarmGoesPastTwice` without that
  hypothesis: the second time a unit goes past an open one of its kind and no lower priority,
  it is the warm unit of the pod that claims it.  Both say it of any number of units, kinds
  and priorities, where the run has two sessions of one priority.

The properties are not inductive one by one.  The failure budget needs to know *why* a row with
a full record is parked: a recovery parks siblings that were parked before and its release takes
only rows with its own reason, so it is the older reason, kept by the hold, that stops the
release from making such a unit claimable.  The settlement of a stop breaks the tie between
reason and park, but only for sessions, which is why it is kept for workers apart (`Keeps`).
The watermark needs the deliveries: a checkpoint may
name an event admitted under the lease, and stays behind the input only because every admitted
event was recorded.  The argument is once more one lemma per statement
(`RunQueueRecordProofs`: a statement `Continues` the unit, or `Finishes` or `Settles` it only
when nothing is owed), and then one per action, most of which are nothing but such a statement.

For the order of claims each step is one of three (`Places`): it grants a unit, it sends to the
back one unit that was not waiting, or no row enters the queue and nobody changes places.  The
inductive invariant (`PassedIsBehind`) is that a unit that went past an open one and waits
again stands behind it, so that the general claim, which takes the first of the visible
units, can grant it only at a higher priority.

`SessionTurnsProofs` proves, for any executors, stop requests, events, faults and bounds, from
`TurnConstants` and `RowConstants`, every safety property that `turns` and `turns_live` check:

- `TypesHold`, `AttachedOnce`, `OneGenerationOfStops`, `StoppedStaysStopped`, `NoneSkipped`,
  `EventsAreServed`: `TypeOK`, `OneAttached`, `OneStopGeneration`, `StopNotReplayed`,
  `NothingSkipped` and `EventsServed` always hold.
- `ConsumedIsServed`: `ServedBeforeConsumed`, if `"shutdown" \notin Faults`.  `NoSecondAnswer`:
  `AnsweredOnce`, if `EventSeqs = {}`.  The runs `shutdown_consumes` and `answered_twice` show
  that each hypothesis is needed.
- `HoldAndReasonAgree`: `HoldIsShown` always holds.  Its invariant (`HoldInv`) adds that a lease
  has a token, so that a hold is never mistaken for none, and that the reason a hold gives back
  is not its own.  Every step but a message, a steal and the acknowledgement either leaves
  the row alone or runs where there is no hold (`PlainStep`).

The invariant has layers, each proved with the help of the earlier ones.  `Shape`
(`ShapeHolds`): rows, claims, stops, holds and events name only messages that were sent and
leases that were granted.  `Apart` and `Known`: two executors that have not given up their
claims hold different tokens, and each one that is attached is the claimant the thread names, or
the one the hold waits for.  `StopFits` (`ClaimsAndStopsHold`): the stops that wait belong to
the open window, or to an older lease than that of a claim that has not begun a turn; an
applied one lies behind the watermark.  `Order`, `Events`
and `CalmFits` (`TurnsInvariant`): the watermark is behind what was started, and an event's
debt is either still in the row or carried by the executor that admitted it.  `OneAttached` is
not inductive because it does not say who may attach next, `OneStopGeneration` because it does
not say which stop may still be admitted, `NothingSkipped` because an executor's next
checkpoint depends on the turn it remembers.

The argument: the actions are put into sixteen kinds (`Kinds`) by what they do to the token, the
claims and the stops, and the first layers are proved kind by kind; the last ones, which look
at the progress of a turn, are proved by what each action writes.

`CompletionCommandsProofs` proves, for any finalizers, reports, attempts, tries, controls
and rearmed commands, from `CompletionConstants`:

- `CompletionInvariant`: `Spec => []IInv`.  `IInv` is `TypeOK` with: each
  command's row is well formed (`GoodRow`: a claim has an attempt, an effect that was not
  begun has no tries, an authorized teardown is begun, a reordered command delivered before it
  published); a finalizer that holds its term finds its command as its stage needs it (`Fits`,
  for instance that a withheld command reaches S17 only after delivery, and that the teardown
  is begun only of a job that has a status other than processing); and two of the properties
  themselves, `TeardownHoldsJob` and `DeliveryExcludesPeople` (under a delivery marker the job
  has the entry status, or is a pinned job that is cancelled).  None of the properties is
  inductive without the second part: a step is judged by what its process proved several transactions earlier.
- `CompletionTypes`, `TeardownIsExclusive`, `DeliveryComesFirst`, `PeopleExcluded`: `TypeOK`,
  `TeardownHoldsJob`, `DeliveredBeforePublished` and `DeliveryExcludesPeople` always hold.

The argument: a step is *tame* for a command if it authorizes nothing, revives nothing and
leaves the entry status alone (`Tame`).  Each row operator is shown to be tame once; a tame
step of the holder (`HolderMoves` and its variants) or of anybody else that leaves the journal
of a live term alone (`OutsideMoves`) keeps the invariant; each action is then one of these.
Only the authorization itself, S17 and the admission of a report are proved on their own.

The rest of the safety properties of `completion` rests on three more invariants, over `IInv`:

- `DecidedInOrder` (`DispositionsInOrder`), from `Queue`: reports are numbered without gaps, only
  the oldest unfinished one was ever worked on, and what has written the status has no
  unfinished report before it.  The property alone says nothing of who may write next.
- `DecidedAsAdmittedOrFailed` and `DecidedAsAdmitted` (`StatusIsTheOneAdmitted`), from
  `Authority`: while a report is unfinished, a job that is processing has the status version
  the report was admitted under, since dispatch waits for every unfinished report.  S17 writes
  over `processing` or, for a late completion, over `failed`.  The first theorem says just
  that, without a hypothesis; the second excludes the other case where no report
  asks for `failed` (`NoFailed`): a job that was failed from outside has no agent, and no report
  is admitted under it.  The hypothesis is needed: a report fails the job, its finalizer dies, the
  agent reports completion, the operator resolves the first command as failed, and the second
  report writes `completed` over a status that the operator wrote after its acceptance.  The code
  means it so (`legacy_job_completion.py:611`: a job "failed out-of-band" is re-resolved).
- `DeferredIsServed` (`DeferredTeardownServed`), from `Deferral`, if no report asks for `failed`
  (finding 4 is what happens otherwise): a teardown is handed on only in the pinned lane, to a report
  nobody has touched, under a status that this report meets as late, so that its guard sends
  it to the teardown.  A report accepted after a *cancelled* job would be refused there
  instead; the part `Cancelled` shows that nothing is ever handed on to one, because no
  command before it has a right to a teardown any more.

Their argument is by kinds of steps as well (`Moves`, `AcceptKind`): a step that writes nothing
but the jobs row, goes on with one command, resolves, guards, decides or ends one, or accepts a
report.  `StepKinds` puts every action into one of the kinds, with all that the three invariants
need to know of it.

`WorkspaceRecoveryProofs` and `WorkspaceRecoverySafetyProofs` prove, for any jobs,
reconcilers, tokens and operations, from `RecoveryConstants`, every property that `vm_recovery`
checks: `RecoveryTypeCorrect`, `RecoveryHoldsExact`, `RecoveryWorkspaceQuiet`,
`RecoveryUnknownNotReplayed`, `RecoveryAttestedUnderPin`, `RecoveryNoPinGap` and
`RecoveryDiskKept`.  None is inductive; over `TypeOK` five invariants carry them:

- `HoldInv`: `HoldIsExact` with its converse, that a participant stands only in an operation that
  is open, and the fact that a job the settle loop has picked still carries the marker.
  Without the first, a late write to a closed operation could not be excluded; without
  the second, a late settlement would close a row that is held.
- `QuietInv`: a cleanup permit excludes open operations; while one is open, every job that is
  not finished stands in its roster; whoever holds a lease has a job that is processing or
  cancelled.  `WorkspaceQuiet` follows with `HoldInv`, `DiskKept` at once.
- `PinInv`: a pass that is beyond the pin found it acknowledged.
- `LedgerInv`: the account of attempts.  No attempt is recorded beyond the row's token; one that is
  claimed was claimed over a clean past; a row that can be claimed has one, and so has a
  participant whose continuation was judged safe, in whichever roster it now stands.
- `GuardInv`: behind each acknowledgement a Lease was made; a Lease is deleted, or a call for its
  deletion under way, only for a pin that was released and whose successor's, if it has one,
  was acknowledged before.

Each is proved action by action, with one lemma for each way in which an admission, a pause, a
retry or a release changes the roster.

Only model-checked: the liveness properties `LeaseIsGivenUp`, `StopIsSettled` and
`CommandSettles`, since the prover does not do fairness.  Every other property of a passing run
is a theorem.

## Not modelled, and why

- Other writers of the row: session end, resume and deletion (with the terminal
  settlement of stops), VM upgrade handoff, the worker hook of the reaper.
  `RunQueue` has the steal of `reap_expired` with the settlement of stops, but
  not the claim-loss hold; the session steal with its hold is in `SessionTurns`,
  for one session and one lost claim at a time.
- The dedup variant of enqueue, and the deferral of events while executors of an
  older version run (version skew).
- A delivery's settlement: an admitted delivery stands for a settled one too, so
  `ReclaimDelivery` may re-own one that the code would find settled.  This only
  adds behaviours.
- The retry backoff and its jitter: any backoff may elapse at any time.
- Of a completion: the recovery arms, gates, notifications, parent wakes and critic verdicts
  (effects of the same journal), the retry delay (any delay may have passed), code-version
  mismatches between deployments, exact replays of an accepted report (they change nothing),
  and whether an executor that the operator overrides is really dead.
- Of a worker and its recovery: a hold's release of a row that another park had taken under a
  reason of its own (an execution hold, the reaper's attempt limit), which the code refuses,
  and parks the operation; `ParkExhausted` leaves no reason, as `_RELEASE_WORKER_SQL` does;
  attempt counters and the amounts of refunds; checkpoints (no
  reporter passes one to the hold); a VM without identity; members of the pinned lane and
  workspaces of threads; the node keys of probe slots (one flag `live` stands for claim and
  slot); the claim's token (a reconciler has one pass, and loses it as a whole); the receipts and
  remote operations behind a report (their evidence is a free choice); the operator's
  pause and resume, the user's resume of a cancelled job and the second enqueue of a
  paused one; the other sources of a cleanup permit, the terminal settlement of a VM that was
  never issued, and the recovery rows that `postgres.py` writes for workspaces that are
  unavailable or deleted; replays of accepted requests, which change nothing.
- Everything the inventory lists as a subsystem of its own.

## Plan

1. The bound on passes that makes `CommandSettles` true, as a safety theorem.
2. **ClaimLoss**: a ledger with several lost claims, eviction, attestation, and the
   terminal settlement when a session is ended by force.
3. **ThreadControls**: each control takes effect once, across owners.
4. **WorkerQueue**: what `WorkspaceRecovery` leaves out of it, namely the holds of container
   workers and of the preflight, their wakes, attempt counters and refunds; the recovery of
   a workspace that belongs to a thread; liveness of the reconcilers.
5. **LeaderElection**, **EventJournal**, **CloudPush** with the dedup enqueue.
