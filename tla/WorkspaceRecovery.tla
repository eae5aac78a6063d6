-------------------------- MODULE WorkspaceRecovery --------------------------
(***************************************************************************)
(* The recovery of a VM workspace that its workers lost                    *)
(* (src/orchestrator/services/vm_workspace_recovery_store.py and           *)
(* vm_workspace_recovery.py), for one workspace: its owner job, the jobs   *)
(* that inherit it, and the VM's disk.                                     *)
(*                                                                         *)
(* A worker that finds its VM gone, or the reaper that finds the worker    *)
(* gone, opens an operation that takes every member of the workspace out   *)
(* of service under a new lease token.  Reconcilers on several             *)
(* orchestrators claim the operation, probe the VM and release the         *)
(* members, or leave them to the operator, who may retry (a successor      *)
(* operation inherits the holds) or cancel jobs.  Meanwhile the disk is    *)
(* kept by a pin, projected into a Kubernetes Lease by calls that may be   *)
(* lost, late or repeated.                                                 *)
(***************************************************************************)
EXTENDS Naturals

CONSTANTS Jobs,         \* worker jobs that share the workspace
          Owner,        \* the one it belongs to
          Services,     \* reconcilers: one task per orchestrator process
          NoService,
          MaxToken, MaxOps   \* bounds

ASSUME RecoveryConstants ==
    /\ Owner \in Jobs
    /\ NoService \notin Services
    /\ MaxToken \in Nat /\ MaxOps \in Nat

Ops == 1..MaxOps
Tokens == 1..MaxToken

VARIABLES
    unit,      \* the members' rows of the run queue
    lapsed,    \* members whose lease expired longer ago than the grace
    job,       \* their jobs rows
    ledger,    \* worker_batch_attempts, by lease token
    op,        \* vm_workspace_recoveries
    part,      \* vm_workspace_recovery_jobs
    pin,       \* vm_workspace_recovery_retention_pins
    lease,     \* the Lease of each operation at the VM controller
    calls,     \* calls to the controller that are under way
    svc,       \* what each reconciler is doing
    scan,      \* lease token the reaper found recoverable, or 0
    settling,  \* cancelled jobs the settle loop is about to finalize
    permit,    \* a cleanup of the workspace is admitted
    disk       \* the root disk exists

rows == <<unit, job, ledger, lapsed>>
store == <<op, part, pin>>
controller == <<lease, calls>>
vars == <<rows, store, controller, svc, scan, settling, permit, disk>>

Unit == [state : {"absent", "queued", "leased", "parked", "done"},
         token : 0..MaxToken]
Job == [status : {"none", "created", "processing", "paused", "cancelled",
                  "completed"},
        freeze : Ops \cup {0}, \* the operation named by freeze_data
        marker : BOOLEAN]      \* _stateless_cancel_cleanup_pending
\* claimed, then authorized; how a held attempt ended; settled by its holder.
Evidence == {"none", "claimed", "authorized", "refunded", "unknown", "settled"}
Operation == [phase : {"none", "active", "attention", "recovered",
                       "cancelled", "superseded"},
              claimed : Services \cup {NoService},
              live : BOOLEAN,  \* the claim and its probe slot
              late : BOOLEAN,  \* deadline_at has passed
              successor : Ops \cup {0}]
Participant == [how : {"none", "held", "attention", "released", "cancelled",
                       "transferred"},
                token : 0..MaxToken,   \* hold_lease_token
                safe : BOOLEAN,    \* what prior_control_reference proves
                fresh : BOOLEAN]   \* prior_job_status = 'created'
Pin == [state : {"none", "active", "released"},
        acked : BOOLEAN,           \* controller_pinned_at
        freed : BOOLEAN]           \* controller_released_at
\* A pass of reconcile_once, after which step.
Pass == [op : Ops \cup {0}, stage : {"idle", "claimed", "pinned", "attesting"}]

TypeOK ==
    /\ unit \in [Jobs -> Unit]
    /\ lapsed \in SUBSET {j \in Jobs : unit[j].state = "leased"}
    /\ job \in [Jobs -> Job]
    /\ ledger \in [Jobs -> [Tokens -> Evidence]]
    /\ op \in [Ops -> Operation]
    /\ part \in [Ops -> [Jobs -> Participant]]
    /\ pin \in [Ops -> Pin]
    /\ lease \in [Ops -> {"never", "held", "deleted", "remade"}]
    /\ calls \in SUBSET (Ops \X {"active", "released"})
    /\ svc \in [Services -> Pass]
    /\ scan \in [Jobs -> 0..MaxToken]
    /\ settling \in SUBSET Jobs
    /\ permit \in BOOLEAN /\ disk \in BOOLEAN

Idle == [op |-> 0, stage |-> "idle"]

Init ==
    /\ unit = [j \in Jobs |->
                 [state |-> "absent", token |-> 0]]
    /\ lapsed = {}
    /\ job = [j \in Jobs |->
                [status |-> IF j = Owner THEN "created" ELSE "none",
                 freeze |-> 0, marker |-> FALSE]]
    /\ ledger = [j \in Jobs |-> [t \in Tokens |-> "none"]]
    /\ op = [i \in Ops |-> [phase |-> "none", claimed |-> NoService,
                            live |-> FALSE, late |-> FALSE, successor |-> 0]]
    /\ part = [i \in Ops |-> [j \in Jobs |->
                 [how |-> "none", token |-> 0, safe |-> FALSE, fresh |-> FALSE]]]
    /\ pin = [i \in Ops |-> [state |-> "none", acked |-> FALSE, freed |-> FALSE]]
    /\ lease = [i \in Ops |-> "never"]
    /\ calls = {}
    /\ svc = [w \in Services |-> Idle]
    /\ scan = [j \in Jobs |-> 0]
    /\ settling = {}
    /\ permit = FALSE /\ disk = TRUE

Terminal == {"cancelled", "completed"}
Active(i) == op[i].phase = "active"
\* resolved_at IS NULL, of an operation and of a participant.
Open(i) == op[i].phase \in {"active", "attention"}
Standing(i, j) == part[i][j].how \in {"held", "attention"}
Fenced(j) == \E i \in Ops : Standing(i, j)
\* The next operation's row.
New(i) == op[i].phase = "none" /\ \A k \in Ops : k < i => op[k].phase /= "none"

Holding(j) == unit[j].state = "leased"

-----------------------------------------------------------------------------
(***************************************************************************)
(* The workers.  A claimant acts under the token it was granted; one whose *)
(* token is no longer the row's gets nothing done, so only the current one *)
(* is followed.                                                            *)
(***************************************************************************)

\* create_job of a child that inherits the workspace: refused during recovery.
CreateChild(j) ==
    /\ job[j].status = "none" /\ \A k \in Ops : ~ Open(k)
    /\ job' = [job EXCEPT ![j].status = "created"]
    /\ UNCHANGED <<unit, lapsed, ledger, store, controller, svc, scan, settling,
                   permit, disk>>

\* The dispatcher enqueues the job for the first time.
EnqueueWorker(j) ==
    /\ unit[j].state = "absent" /\ job[j].status = "created"
    /\ unit' = [unit EXCEPT ![j].state = "queued"]
    /\ UNCHANGED <<lapsed, job, ledger, store, controller, svc, scan, settling,
                   permit, disk>>

Eligible(j) ==
    \/ job[j].status \in {"created", "processing"}
    \/ job[j].status = "paused" /\ job[j].freeze = 0

\* The claim of a job that may not run consumes the row.
ClaimWorker(j) ==
    /\ unit[j].state = "queued" /\ ~ Fenced(j)
    /\ unit[j].token < MaxToken
    /\ LET t == unit[j].token + 1 IN
       IF Eligible(j)
       THEN /\ unit' = [unit EXCEPT ![j] =
                          [state |-> "leased", token |-> t]]
            /\ job' = [job EXCEPT ![j].status = "processing"]
            /\ ledger' = [ledger EXCEPT ![j][t] = "claimed"]
       ELSE /\ unit' = [unit EXCEPT ![j] =
                          [state |-> "done", token |-> t]]
            /\ UNCHANGED <<job, ledger>>
    /\ UNCHANGED <<lapsed, store, controller, svc, scan, settling, permit, disk>>

\* The bundle with the credentials is issued: from here on commands may run.
AuthorizeBundle(j) ==
    /\ Holding(j) /\ ~ Fenced(j)
    /\ ledger[j][unit[j].token] = "claimed"
    /\ ledger' = [ledger EXCEPT ![j][unit[j].token] = "authorized"]
    /\ UNCHANGED <<unit, lapsed, job, store, controller, svc, scan, settling,
                   permit, disk>>

RenewWorker(j) ==
    /\ Holding(j) /\ ~ Fenced(j) /\ j \in lapsed
    /\ lapsed' = lapsed \ {j}
    /\ UNCHANGED <<unit, job, ledger, store, controller, svc, scan, settling,
                   permit, disk>>

\* Mutant: a row that is parked or closed keeps its expiry.
KeepsExpiry(who) == UNCHANGED lapsed

\* leased_until is cleared with the lease.
ClearsExpiry(who) == lapsed' = lapsed \ who

\* A disposition by the holder: its own account of the attempt settles it.
Dispose(j, to, status) ==
    /\ Holding(j) /\ ~ Fenced(j)
    /\ unit' = [unit EXCEPT ![j].state = to]
    /\ ClearsExpiry({j})
    /\ job' = [job EXCEPT ![j].status = status]
    /\ ledger' = [ledger EXCEPT ![j][unit[j].token] =
                    IF @ = "authorized" THEN "settled" ELSE @]
    /\ UNCHANGED <<store, controller, svc, scan, settling, permit, disk>>

\* Rotation, or release after an error it could report.
RequeueWorker(j) == Dispose(j, "queued", job[j].status)

\* Release with park_on_exhaustion.  The row gets no park_reason, so that a
\* hold admitted later puts its own there and may be released.
ParkExhausted(j) == Dispose(j, "parked", job[j].status)

FinishWorker(j) ==
    job[j].status = "processing" /\ Dispose(j, "done", "completed")

\* The renewal showed the holder that its job is cancelled.
StopCooperatively(j) ==
    job[j].status = "cancelled" /\ Dispose(j, "done", "cancelled")

-----------------------------------------------------------------------------
(***************************************************************************)
(* Admission of a hold.                                                    *)
(***************************************************************************)

NeverStarted(j) ==
    /\ job[j].status = "created" /\ unit[j].token = 0
    /\ unit[j].state \in {"absent", "queued"}

\* The attempt under the row's token, as prior_control_reference keeps it.
Attempt(j) == IF unit[j].token = 0 THEN "none" ELSE ledger[j][unit[j].token]

\* Mutant: any recorded attempt will do.
SafeIfRecorded(j) == NeverStarted(j) \/ Attempt(j) /= "none"

\* _participant_continuation_safe: neither reporters nor the reaper name a
\* checkpoint, which leaves these two proofs.
Safe(j) == NeverStarted(j) \/ Attempt(j) \in {"claimed", "refunded"}

\* Mutant: a report concerns only its job.
MembersReporter(j) == {j}

Members(j) == {j} \cup {k \in Jobs : job[k].status \notin {"none"} \cup Terminal}

\* Evidence or control of a member that automatic recovery may not judge.
Doubtful(j) ==
    \/ ~ Holding(j) /\ ~ NeverStarted(j)
    \/ job[j].status \in Terminal \/ job[j].freeze /= 0

\* Mutant: a cleanup under way is not looked for.
NoCleanupLooked == TRUE

\* No cleanup crossed its admission boundary before.
NoCleanup == ~ permit

\* What the hold i writes of its members: the roster, with the evidence as it
\* was, and the rows, jobs and attempts.  The attempt of a holder is charged,
\* unless its bundle was never issued.
HoldsAs(i, who, how) ==
    /\ \A k \in who : unit[k].token < MaxToken
    /\ op' = [op EXCEPT ![i].phase = IF how = "held" THEN "active" ELSE how]
    /\ pin' = [pin EXCEPT ![i].state = "active"]
    /\ part' = [part EXCEPT ![i] = [k \in Jobs |->
         IF k \in who
         THEN [how |-> how, token |-> unit[k].token + 1,
               safe |-> Safe(k), fresh |-> job[k].status = "created"]
         ELSE part[i][k]]]
    /\ unit' = [k \in Jobs |->
         IF k \in who
         THEN [state |-> "parked", token |-> unit[k].token + 1]
         ELSE unit[k]]
    /\ ClearsExpiry(who)
    /\ job' = [k \in Jobs |->
         IF k \in who THEN [job[k] EXCEPT !.status = "paused", !.freeze = i]
                      ELSE job[k]]
    /\ ledger' = [k \in Jobs |-> [t \in Tokens |->
         IF k \in who /\ Holding(k) /\ t = unit[k].token
         THEN IF ledger[k][t] = "claimed" THEN "refunded" ELSE "unknown"
         ELSE ledger[k][t]]]

\* The transaction of admit_hold, for reporter j.  The unique index on open
\* operations of an owner refuses a second one.
AdmitHold(j, attention) ==
    /\ Holding(j) /\ NoCleanup /\ \A k \in Ops : ~ Open(k)
    /\ \E i \in Ops : New(i) /\
         HoldsAs(i, Members(j),
                 IF attention \/ \E k \in Members(j) : Doubtful(k)
                 THEN "attention" ELSE "held")

\* report_workspace_recovery: the holder, whatever its job's status.
Report(j, attention) ==
    /\ AdmitHold(j, attention)
    /\ UNCHANGED <<controller, svc, scan, settling, permit, disk>>

\* The reaper's first look: hold_container_worker_attempt leaves VM jobs with
\* recovery to the store, and terminal jobs alone.
ReaperLooks(j) ==
    /\ Holding(j) /\ j \in lapsed /\ scan[j] = 0
    /\ job[j].status \notin Terminal
    /\ scan' = [scan EXCEPT ![j] = unit[j].token]
    /\ UNCHANGED <<rows, store, controller, svc, settling, permit, disk>>

\* admit_hold_from_reaper: expiry and authorization are read again.
ReaperHolds(j) ==
    /\ scan[j] /= 0 /\ scan[j] = unit[j].token /\ j \in lapsed
    /\ AdmitHold(j, ledger[j][scan[j]] = "authorized")
    /\ scan' = [scan EXCEPT ![j] = 0]
    /\ UNCHANGED <<controller, svc, settling, permit, disk>>

\* Renewed, held or refused meanwhile: the exact lease is left unchanged.
ReaperMisses(j) ==
    /\ scan[j] /= 0
    /\ scan' = [scan EXCEPT ![j] = 0]
    /\ UNCHANGED <<rows, store, controller, svc, settling, permit, disk>>

-----------------------------------------------------------------------------
(***************************************************************************)
(* The operator and the settle loop of cancellations.                      *)
(***************************************************************************)

\* An operation that leaves its reconciler.
Unclaimed(o, phase) ==
    [o EXCEPT !.phase = phase, !.claimed = NoService, !.live = FALSE]

\* The roster of i, its standing members marked.
Marked(i, how) ==
    [j \in Jobs |-> IF Standing(i, j) THEN [part[i][j] EXCEPT !.how = how]
                                     ELSE part[i][j]]

\* The operation stops being automatic; holds and pin stay.
Pauses(i) ==
    /\ op' = [op EXCEPT ![i] = Unclaimed(@, "attention")]
    /\ part' = [part EXCEPT ![i] = Marked(i, "attention")]

\* pause_automatic_disabled, by an orchestrator with the feature off.
PauseDisabled ==
    /\ \E i \in Ops : Active(i) /\ Pauses(i)
    /\ UNCHANGED <<rows, pin, controller, svc, scan, settling, permit, disk>>

\* Mutant: the jobs keep the name of the operation that was superseded.
KeepsFreeze(i, n) == UNCHANGED job

\* The holds of i now belong to n.
TransfersFreeze(i, n) ==
    job' = [j \in Jobs |->
              IF job[j].status = "paused" /\ job[j].freeze = i /\ Standing(i, j)
              THEN [job[j] EXCEPT !.freeze = n] ELSE job[j]]

\* retry_paused: a successor takes over, with the evidence as it is.
Retry(i) ==
    /\ op[i].phase = "attention"
    /\ \E n \in Ops : New(n) /\
       /\ op' = [op EXCEPT ![i] = [@ EXCEPT !.phase = "superseded", !.successor = n],
                           ![n] = [@ EXCEPT !.phase = "active"]]
       /\ part' = [part EXCEPT
            ![i] = Marked(i, "transferred"),
            ![n] = [j \in Jobs |-> IF Standing(i, j)
                      THEN [part[i][j] EXCEPT !.how = "held"] ELSE part[n][j]]]
       /\ TransfersFreeze(i, n)
       /\ pin' = [pin EXCEPT ![i].state = "released", ![n].state = "active"]
    /\ UNCHANGED <<unit, lapsed, ledger, controller, svc, scan, settling,
                   permit, disk>>

\* cancel_stateless_job, with the participant it may resolve.
CancelJob(j) ==
    /\ job[j].status \notin {"none", "completed"}
    /\ ~ (job[j].status = "cancelled" /\ job[j].marker)
    /\ unit' = [unit EXCEPT ![j].state =
                   IF @ \in {"queued", "parked"} THEN "done" ELSE @]
    /\ job' = [job EXCEPT ![j] =
                  [status |-> "cancelled", marker |-> TRUE,
                   freeze |-> IF Fenced(j) /\ Standing(@.freeze, j)
                              THEN 0 ELSE @.freeze]]
    /\ IF Fenced(j)
       THEN LET i == CHOOSE k \in Ops : Standing(k, j)
                last == \A k \in Jobs \ {j} : ~ Standing(i, k)
            IN
            /\ part' = [part EXCEPT ![i][j].how = "cancelled"]
            /\ op' = IF last THEN [op EXCEPT ![i] = Unclaimed(@, "cancelled")]
                     ELSE op
            /\ pin' = IF last THEN [pin EXCEPT ![i].state = "released"] ELSE pin
       ELSE UNCHANGED store
    /\ UNCHANGED <<lapsed, ledger, controller, svc, scan, settling, permit, disk>>

\* stateless_cancel_cleanup_pending.
SettleLooks(j) ==
    /\ job[j].status = "cancelled" /\ job[j].marker
    /\ settling' = settling \cup {j}
    /\ UNCHANGED <<rows, store, controller, svc, scan, permit, disk>>

\* finalize_cancelled_stateless_job waits for the holder, and closes the row
\* before it reads the status again.
SettleFinalizes(j) ==
    /\ j \in settling
    /\ unit' = [unit EXCEPT ![j].state =
                   IF @ \in {"queued", "parked"} THEN "done" ELSE @]
    /\ settling' = IF Holding(j) \/ job[j].status /= "cancelled"
                   THEN settling \ {j} ELSE settling
    /\ UNCHANGED <<lapsed, job, ledger, store, controller, svc, scan, permit, disk>>

\* After the teardown, complete_stateless_cancel_cleanup clears the marker, or
\* refuses and the loop comes back to it.
SettleCompletes(j) ==
    /\ j \in settling /\ settling' = settling \ {j}
    /\ job' = [job EXCEPT ![j].marker =
                  @ /\ ~ /\ unit[j].state \in {"absent", "done"}
                         /\ job[j].status = "cancelled"]
    /\ UNCHANGED <<unit, lapsed, ledger, store, controller, svc, scan, permit, disk>>

-----------------------------------------------------------------------------
(***************************************************************************)
(* The reconcilers.  claim_due raises the claim's token and takes a probe  *)
(* slot; every later write of the pass checks both, and the phase.         *)
(***************************************************************************)

Current(w) == LET i == svc[w].op IN
    i /= 0 /\ Active(i) /\ op[i].claimed = w /\ op[i].live

Steps(w, stage) == svc' = [svc EXCEPT ![w].stage = stage]
Ends(w) == svc' = [svc EXCEPT ![w] = Idle]

\* claim_due of an operation past its deadline.
ExpireDue(i) ==
    /\ Active(i) /\ op[i].late /\ Pauses(i)
    /\ UNCHANGED <<rows, pin, controller, svc, scan, settling, permit, disk>>

ClaimDue(w, i) ==
    /\ svc[w] = Idle
    /\ Active(i) /\ ~ op[i].late /\ ~ op[i].live
    /\ \A j \in Jobs : part[i][j].how /= "attention"
    /\ op' = [op EXCEPT ![i] = [@ EXCEPT !.claimed = w, !.live = TRUE]]
    /\ svc' = [svc EXCEPT ![w] = [op |-> i, stage |-> "claimed"]]
    /\ UNCHANGED <<rows, part, pin, controller, scan, settling, permit, disk>>

\* Mutant: the pass goes on without the controller's word.
PinAssumed(w) ==
    /\ svc[w].stage = "claimed" /\ Current(w)
    /\ Steps(w, "pinned")
    /\ UNCHANGED <<rows, store, controller, scan, settling, permit, disk>>

\* _require_retention_pin.
PinAcknowledged(w) ==
    /\ svc[w].stage = "claimed" /\ Current(w)
    /\ pin[svc[w].op].state = "active" /\ pin[svc[w].op].acked
    /\ Steps(w, "pinned")
    /\ UNCHANGED <<rows, store, controller, scan, settling, permit, disk>>

\* recovery_preconditions of the participants.
ContinuationSafe(i) ==
    /\ \E j \in Jobs : Standing(i, j)
    /\ \A j \in Jobs : Standing(i, j) => part[i][j].how = "held" /\ part[i][j].safe

\* The first observation of the VM is good, and staged.
Stage(w) ==
    /\ svc[w].stage = "pinned" /\ Current(w) /\ ~ op[svc[w].op].late
    /\ ContinuationSafe(svc[w].op)
    /\ Steps(w, "attesting")
    /\ UNCHANGED <<rows, store, controller, scan, settling, permit, disk>>

\* Not yet: no acknowledgement, no observation, a VM not ready.
Defer(w) ==
    /\ Current(w)
    /\ IF op[svc[w].op].late THEN Pauses(svc[w].op)
       ELSE op' = [op EXCEPT ![svc[w].op] = Unclaimed(@, "active")] /\ UNCHANGED part
    /\ Ends(w)
    /\ UNCHANGED <<rows, pin, controller, scan, settling, permit, disk>>

\* Never, by itself: evidence that contradicts the hold or proves nothing.
PauseForAttention(w) ==
    /\ svc[w].stage \in {"pinned", "attesting"} /\ Current(w)
    /\ Pauses(svc[w].op) /\ Ends(w)
    /\ UNCHANGED <<rows, pin, controller, scan, settling, permit, disk>>

\* The member is exactly as the hold left it.
Projected(i, j) ==
    /\ unit[j].state = "parked" /\ unit[j].token = part[i][j].token
    /\ job[j].status = "paused" /\ job[j].freeze = i

\* release_recovered: all members or none.  The owner's VM projection is read
\* from the roster, so an owner that was cancelled leaves it to the operator.
Release(w) ==
    /\ svc[w].stage = "attesting" /\ Current(w) /\ Ends(w)
    /\ LET i == svc[w].op
           who == {j \in Jobs : Standing(i, j)}
           good == /\ ~ op[i].late /\ ContinuationSafe(i)
                   /\ Owner \in who /\ pin[i].state = "active"
                   /\ \A j \in who : Projected(i, j)
       IN
       IF good
       THEN /\ unit' = [j \in Jobs |->
                          IF j \in who THEN [unit[j] EXCEPT !.state = "queued"]
                                       ELSE unit[j]]
            /\ job' = [j \in Jobs |->
                          IF j \in who
                          THEN [job[j] EXCEPT !.freeze = 0,
                                  !.status = IF part[i][j].fresh THEN "created"
                                             ELSE @]
                          ELSE job[j]]
            /\ part' = [part EXCEPT ![i] = Marked(i, "released")]
            /\ pin' = [pin EXCEPT ![i].state = "released"]
            /\ op' = [op EXCEPT ![i] = Unclaimed(@, "recovered")]
       ELSE Pauses(i) /\ UNCHANGED <<unit, job, pin>>
    /\ UNCHANGED <<lapsed, ledger, controller, scan, settling, permit, disk>>

\* The process stopped, or a write found its claim gone.
LoseClaim(w) ==
    /\ svc[w] /= Idle /\ Ends(w)
    /\ UNCHANGED <<rows, store, controller, scan, settling, permit, disk>>

\* Time: the claim's, the operation's, a worker's.
ClaimLapses(i) ==
    /\ op[i].live /\ op' = [op EXCEPT ![i].live = FALSE]
    /\ UNCHANGED <<rows, part, pin, controller, svc, scan, settling, permit, disk>>

DeadlinePasses(i) ==
    /\ Active(i) /\ ~ op[i].late /\ op' = [op EXCEPT ![i].late = TRUE]
    /\ UNCHANGED <<rows, part, pin, controller, svc, scan, settling, permit, disk>>

LeaseLapses(j) ==
    /\ Holding(j) /\ j \notin lapsed /\ lapsed' = lapsed \cup {j}
    /\ UNCHANGED <<unit, job, ledger, store, controller, svc, scan, settling,
                   permit, disk>>

-----------------------------------------------------------------------------
(***************************************************************************)
(* Retention: the pin's Lease, and the one thing it is for.                *)
(***************************************************************************)

\* Mutant: a released pin is given back at once.
AnyRelease(i) == TRUE

\* A superseded pin waits for its successor's.
Superseded(i) == LET n == op[i].successor IN
    n /= 0 => pin[n].state = "active" /\ pin[n].acked /\ ~ pin[n].freed

\* list_retention_pin_commands; retention_pin_command sends the same.
SendPin(i, desired) ==
    /\ pin[i].state = desired
    /\ IF desired = "active" THEN ~ pin[i].acked
       ELSE pin[i].acked /\ ~ pin[i].freed /\ Superseded(i)
    /\ calls' = calls \cup {<<i, desired>>}
    /\ UNCHANGED <<rows, store, lease, svc, scan, settling, permit, disk>>

Present == {i \in Ops : lease[i] \in {"held", "remade"}}

\* The controller serves a call; its answer is acknowledged or lost, and the
\* call may be there again, from another reconciler or a retry.
\* A Lease made twice has another uid, and a release names the first.
ServePin(i, desired) ==
    /\ <<i, desired>> \in calls
    /\ IF desired = "active" THEN disk \/ i \in Present ELSE lease[i] /= "remade"
    /\ lease' = [lease EXCEPT ![i] =
                   IF desired = "released" THEN "deleted"
                   ELSE IF @ = "never" THEN "held"
                   ELSE IF @ = "deleted" THEN "remade" ELSE @]
    /\ \/ UNCHANGED pin
       \/ /\ pin[i].state = desired
          /\ pin' = IF desired = "active" THEN [pin EXCEPT ![i].acked = TRUE]
                    ELSE [pin EXCEPT ![i].freed = TRUE]
    /\ calls' \in {calls, calls \ {<<i, desired>>}}
    /\ UNCHANGED <<rows, op, part, svc, scan, settling, permit, disk>>

\* acquire_cleanup_permit_on_conn: the lifecycle, a purge, a completion or an
\* operator asks, at any time.  What the owner's job is doing is not looked at.
AcquireCleanup ==
    /\ ~ permit /\ disk
    /\ \A i \in Ops : ~ Open(i)
    /\ permit' = TRUE
    /\ UNCHANGED <<rows, store, controller, svc, scan, settling, disk>>

\* The controller deletes no pinned disk.
DeleteDisk ==
    /\ permit /\ disk /\ Present = {}
    /\ disk' = FALSE
    /\ UNCHANGED <<rows, store, controller, svc, scan, settling, permit>>

CompleteCleanup ==
    /\ permit /\ ~ disk /\ permit' = FALSE
    /\ UNCHANGED <<rows, store, controller, svc, scan, settling, disk>>

-----------------------------------------------------------------------------

Next ==
    \/ \E j \in Jobs :
         \/ CreateChild(j) \/ EnqueueWorker(j) \/ ClaimWorker(j)
         \/ AuthorizeBundle(j) \/ RenewWorker(j) \/ RequeueWorker(j)
         \/ ParkExhausted(j) \/ FinishWorker(j) \/ StopCooperatively(j)
         \/ LeaseLapses(j)
         \/ \E attention \in BOOLEAN : Report(j, attention)
         \/ ReaperLooks(j) \/ ReaperHolds(j) \/ ReaperMisses(j)
         \/ CancelJob(j) \/ SettleLooks(j) \/ SettleFinalizes(j)
         \/ SettleCompletes(j)
    \/ \E i \in Ops :
         \/ Retry(i) \/ ExpireDue(i) \/ ClaimLapses(i) \/ DeadlinePasses(i)
         \/ \E w \in Services : ClaimDue(w, i)
         \/ \E desired \in {"active", "released"} :
              SendPin(i, desired) \/ ServePin(i, desired)
    \/ \E w \in Services :
         \/ PinAcknowledged(w) \/ Stage(w) \/ Defer(w) \/ PauseForAttention(w)
         \/ Release(w) \/ LoseClaim(w)
    \/ PauseDisabled
    \/ AcquireCleanup \/ DeleteDisk \/ CompleteCleanup

Spec == Init /\ [][Next]_vars

-----------------------------------------------------------------------------
(***************************************************************************)
(* Properties.                                                             *)
(***************************************************************************)

\* A hold is the same in its four tables: while an operation is open, each
\* participant it still has is parked under the hold's token and paused for
\* this very operation, all wait for the operator or none does; and no job is
\* frozen for an operation that does not hold it.  The exception is a job
\* cancelled before (CancelJob leaves the settle loop to close its row).
HoldIsExact ==
    /\ \A i \in Ops, j \in Jobs : Open(i) /\ Standing(i, j) =>
         /\ part[i][j].how = (IF Active(i) THEN "held" ELSE "attention")
         /\ job[j].status = "paused" /\ job[j].freeze = i
         /\ unit[j].token = part[i][j].token
         /\ job[j].marker \/ unit[j].state = "parked"
    /\ \A j \in Jobs : job[j].freeze /= 0 =>
         Open(job[j].freeze) /\ Standing(job[j].freeze, j)

\* While the workspace is under recovery no worker holds a member, except one
\* whose job was cancelled and that has not noticed yet.
WorkspaceQuiet ==
    \A i \in Ops, j \in Jobs :
        Open(i) /\ Holding(j) => job[j].status = "cancelled"

\* An attempt that may have run commands and whose outcome nobody accounted
\* for is never followed by another one.
UnknownOutcomeNotReplayed ==
    \A j \in Jobs : Holding(j) =>
        \A t \in Tokens : t < unit[j].token =>
            ledger[j][t] \notin {"authorized", "unknown"}

\* Nothing is released before the controller had the disk pinned.
AttestedUnderPin == \A i \in Ops : op[i].phase = "recovered" => pin[i].acked

\* Once the controller acknowledged a pin, some Lease guards the disk until the
\* last operation of the chain is resolved, however calls are delayed.
NoPinGap ==
    \A i, n \in Ops :
        Open(n) /\ pin[i].acked /\ (i = n \/ op[i].successor = n)
            => Present /= {}

\* The disk of a workspace under recovery is not deleted.
DiskKept == [][disk /\ ~ disk' => \A i \in Ops : ~ Open(i)]_vars

=============================================================================
