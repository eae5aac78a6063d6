------------------------------ MODULE RunQueue ------------------------------
(***************************************************************************)
(* The stateless execution lane's work queue with recorded leases          *)
(* (src/shared/run_queue/queries.py), driven by its real clients: the API  *)
(* that admits input, controls and event deliveries, executor pods that    *)
(* claim, renew, persist under the fence and dispose of a claim, leader    *)
(* gated reapers (two may run at once around a leader change), operators,  *)
(* and the VM workspace recovery that takes worker units out of service.   *)
(*                                                                         *)
(* A pod keeps acting on its claim after the lease was taken from it: the  *)
(* lease token in the row is the only thing that stops it.  A persist      *)
(* transaction is open between Fence and PersistCommit or PersistAbort and *)
(* holds the row FOR SHARE, so every UPDATE of that row waits for it.      *)
(***************************************************************************)
EXTENDS RunQueueRows, FiniteSets

CONSTANTS Sessions,     \* session_turn units (threads)
          Workers,      \* worker_batch units (jobs)
          NoUnit,
          WarmReuse,    \* sessions a pod may keep attached and prefer
          Reapers,      \* reaper processes
          Priorities,   \* values an enqueue may ask for
          History,      \* messages of a thread from before it used the queue
          MaxToken, MaxSeq, MaxControl   \* bounds

ASSUME QueueConstants ==
    /\ Sessions \cap Workers = {}
    /\ NoUnit \notin Sessions \cup Workers
    /\ WarmReuse \subseteq Sessions
    /\ Priorities \subseteq Nat
    /\ History \in Nat
    /\ MaxToken \in Nat /\ MaxSeq \in Nat /\ MaxControl \in Nat

Units == Sessions \cup Workers

VARIABLES
    row,         \* the run_queue table
    top,         \* newest message of each thread
    human,       \* seqs of human messages
    owed,        \* seqs of event deliveries not yet admitted to a turn
    admitted,    \* <<seq, lease token>> of admitted event deliveries
    recovering,  \* units with an unresolved workspace recovery
    ahead,       \* ahead[u]: units whose queued_at is older than u's
    locked,      \* queued rows another transaction holds FOR UPDATE
    claim,       \* what each pod believes it holds
    warm,        \* _prefer_unit_id of each pod
    fence,       \* the pod has a persist transaction open
    found,       \* what each reaper's candidate scan returned
    persisted    \* lease token of the last persist committed for a unit

queueVars == <<row, ahead>>
threadVars == <<top, human, owed, admitted>>
podVars == <<claim, warm, fence>>
vars == <<row, top, human, owed, admitted, recovering, ahead, locked, claim,
          warm, fence, found, persisted>>

Claims == [unit : Units \cup {NoUnit}, token : Nat]
NoClaim == [unit |-> NoUnit, token |-> 0]

TypeOK ==
    /\ row \in [Units -> Row]
    /\ top \in [Units -> Nat]
    /\ human \in [Units -> SUBSET Nat]
    /\ owed \in [Units -> SUBSET Nat]
    /\ admitted \in [Units -> SUBSET (Nat \X Nat)]
    /\ recovering \in SUBSET Units
    /\ ahead \in [Units -> SUBSET Units]
    /\ locked \in SUBSET Units
    /\ claim \in [Pods -> Claims]
    /\ warm \in [Pods -> Units \cup {NoUnit}]
    /\ fence \in [Pods -> BOOLEAN]
    /\ found \in [Reapers -> SUBSET (Units \X Nat \X BOOLEAN)]
    /\ persisted \in [Units -> Nat]

Init ==
    /\ row = [u \in Units |-> NoRow]
    /\ top = [u \in Units |-> History]
    /\ human = [u \in Units |-> 1..History]
    /\ owed = [u \in Units |-> {}]
    /\ admitted = [u \in Units |-> {}]
    /\ recovering = {}
    /\ ahead = [u \in Units |-> {}]
    /\ locked = {}
    /\ claim = [p \in Pods |-> NoClaim]
    /\ warm = [p \in Pods |-> NoUnit]
    /\ fence = [p \in Pods |-> FALSE]
    /\ found = [r \in Reapers |-> {}]
    /\ persisted = [u \in Units |-> 0]

-----------------------------------------------------------------------------
(***************************************************************************)
(* Row locks and the queued_at order.                                      *)
(***************************************************************************)

\* Mutant: the persist fence takes no lock.
UnlockedFence(u) == TRUE

\* No persist transaction holds the row FOR SHARE.
Unfenced(u) == \A p \in Pods : ~ (fence[p] /\ claim[p].unit = u)

\* An UPDATE of the row can proceed: nobody holds a conflicting lock.
Writable(u) == Unfenced(u) /\ u \notin locked

\* queued_at := now().
ToBack(u) ==
    ahead' = [v \in Units |-> IF v = u THEN Units \ {u} ELSE ahead[v] \ {u}]

\* One committed UPDATE (or INSERT) of the row of u, in place or at the back.
Update(u, r) ==
    /\ Writable(u)
    /\ row' = [row EXCEPT ![u] = r]

UpdateInPlace(u, r) == Update(u, r) /\ UNCHANGED ahead

\* Mutant: queued_at is left alone.
UpdateKeepsPlace(u, r) == Update(u, r) /\ UNCHANGED ahead

UpdateAtBack(u, r) == Update(u, r) /\ ToBack(u)

\* The admissions reset queued_at only for a row they create or revive.
UpdateRevived(u, r) ==
    /\ Update(u, r)
    /\ IF row[u].state \in {"absent", "done"} THEN ToBack(u)
                                              ELSE UNCHANGED ahead

\* unit_kind: a claim asks for the units of one kind.
Kind(u) == IF u \in Sessions THEN Sessions ELSE Workers

-----------------------------------------------------------------------------
(***************************************************************************)
(* Admission.                                                              *)
(***************************************************************************)

EnqueueUnit(u, prio, due, s) ==
    /\ u \in Workers
    /\ UpdateRevived(u, Enqueue(row[u], prio, due, s))
    /\ UNCHANGED <<threadVars, recovering, locked, podVars, found, persisted>>

\* One transaction: the human message and the watermark.
AdmitInput(u) ==
    /\ u \in Sessions
    /\ top[u] < MaxSeq
    /\ top' = [top EXCEPT ![u] = @ + 1]
    /\ human' = [human EXCEPT ![u] = @ \cup {top[u] + 1}]
    /\ UpdateRevived(u, RecordInput(row[u], top[u] + 1))
    /\ UNCHANGED <<owed, admitted, recovering, locked, podVars, found,
                   persisted>>

\* One transaction: the event message, its delivery and the watermark.
PersistEvent(u) ==
    /\ u \in Sessions
    /\ top[u] < MaxSeq
    /\ top' = [top EXCEPT ![u] = @ + 1]
    /\ owed' = [owed EXCEPT ![u] = @ \cup {top[u] + 1}]
    /\ UpdateRevived(u, RecordInput(row[u], top[u] + 1))
    /\ UNCHANGED <<human, admitted, recovering, locked, podVars, found,
                   persisted>>

\* request_seq is thread-global: with nothing pending on this lane it may
\* have moved on through controls another lane finished.  A parked unit
\* refuses the control and the transaction rolls back.
AdmitControl(u, k) ==
    /\ u \in Sessions
    /\ row[u].state /= "parked"
    /\ k > row[u].control_input_seq
    /\ row[u].control_input_seq > row[u].control_consumed_seq
           => k = row[u].control_input_seq + 1
    /\ \E baseline \in human[u] \cup {0} :
          /\ \A h \in human[u] : h <= baseline
          /\ UpdateRevived(u, RecordControl(row[u], k, baseline))
    /\ UNCHANGED <<threadVars, recovering, locked, podVars, found, persisted>>

-----------------------------------------------------------------------------
(***************************************************************************)
(* Claim, renewal and the persist fence.                                   *)
(***************************************************************************)

Grant(p, u) ==
    /\ row[u].lease_token < MaxToken
    /\ row' = [row EXCEPT ![u] = ClaimUpdateTail(@, p)]
    /\ claim' = [claim EXCEPT ![p] =
                   [unit |-> u, token |-> row[u].lease_token + 1]]
    /\ UNCHANGED <<threadVars, recovering, ahead, locked, warm, fence, found,
                   persisted>>

\* ORDER BY priority DESC, queued_at, enqueue_ord.
Before(v, u) ==
    \/ row[v].priority > row[u].priority
    \/ row[v].priority = row[u].priority /\ v \in ahead[u]

Claimable(p, u) ==
    Visible(row[u], p) /\ u \notin recovering /\ u \notin locked

Claim(p, u) ==
    /\ claim[p] = NoClaim
    /\ Claimable(p, u)
    /\ \A v \in Kind(u) \ {u} : Claimable(p, v) => ~ Before(v, u)
    /\ Grant(p, u)

ClaimPreferred(p, u) ==
    /\ claim[p] = NoClaim
    /\ warm[p] = u
    /\ VisiblePreferred(row[u])
    /\ u \notin recovering /\ u \notin locked
    /\ Grant(p, u)

\* The pod's claim is still the lease recorded in the row.
Holds(p) ==
    claim[p].unit \in Units /\ Leased(row[claim[p].unit], claim[p].token)

HeartbeatUnit(p) ==
    LET u == claim[p].unit IN
    /\ Holds(p)
    /\ UpdateInPlace(u, Heartbeat(row[u]))
    /\ UNCHANGED <<threadVars, recovering, locked, podVars, found, persisted>>

\* A heartbeat or any other fenced statement matched no row: the executor
\* gives the claim up without another durable write.
LearnLeaseLost(p) ==
    /\ claim[p].unit \in Units
    /\ ~ Holds(p) /\ ~ fence[p]
    /\ claim' = [claim EXCEPT ![p] = NoClaim]
    /\ warm' = [warm EXCEPT ![p] = NoUnit]
    /\ UNCHANGED <<queueVars, threadVars, recovering, locked, fence, found,
                   persisted>>

\* Mutant: the caller does not look at the fence's answer.
FenceUnchecked(p) ==
    /\ claim[p].unit \in Units /\ ~ fence[p]
    /\ fence' = [fence EXCEPT ![p] = TRUE]
    /\ UNCHANGED <<queueVars, threadVars, recovering, locked, claim, warm,
                   found, persisted>>

FenceLease(p) ==
    /\ Holds(p) /\ ~ fence[p]
    /\ claim[p].unit \notin locked
    /\ fence' = [fence EXCEPT ![p] = TRUE]
    /\ UNCHANGED <<queueVars, threadVars, recovering, locked, claim, warm,
                   found, persisted>>

PersistCommit(p) ==
    /\ fence[p]
    /\ fence' = [fence EXCEPT ![p] = FALSE]
    /\ persisted' = [persisted EXCEPT ![claim[p].unit] = claim[p].token]
    /\ UNCHANGED <<queueVars, threadVars, recovering, locked, claim, warm,
                   found>>

PersistAbort(p) ==
    /\ fence[p]
    /\ fence' = [fence EXCEPT ![p] = FALSE]
    /\ UNCHANGED <<queueVars, threadVars, recovering, locked, claim, warm,
                   found, persisted>>

\* The process dies: its transaction rolls back, its claim is forgotten and
\* the row stays leased until a reaper finds it.
PodCrash(p) ==
    /\ claim[p] /= NoClaim \/ warm[p] /= NoUnit
    /\ claim' = [claim EXCEPT ![p] = NoClaim]
    /\ warm' = [warm EXCEPT ![p] = NoUnit]
    /\ fence' = [fence EXCEPT ![p] = FALSE]
    /\ UNCHANGED <<queueVars, threadVars, recovering, locked, found, persisted>>

\* The idle warm session is detached.
ExpireWarm(p) ==
    /\ claim[p] = NoClaim /\ warm[p] /= NoUnit
    /\ warm' = [warm EXCEPT ![p] = NoUnit]
    /\ UNCHANGED <<queueVars, threadVars, recovering, locked, claim, fence,
                   found, persisted>>

-----------------------------------------------------------------------------
(***************************************************************************)
(* What a claimant does with its unit.                                     *)
(***************************************************************************)

\* The turn of a pending human row, or of an event still owed: the delivery is
\* admitted only later in the turn, just before the model call.
OpenInterruptAdmission(p, turn) ==
    LET u == claim[p].unit IN
    /\ claim[p].unit \in Sessions
    /\ \/ turn \in human[u] /\ turn > row[u].consumed_seq
       \/ turn \in owed[u]
    /\ OpenAllowed(row[u], claim[p].token, turn)
    /\ UpdateInPlace(u, OpenInterrupt(row[u], claim[p].token, turn))
    /\ UNCHANGED <<threadVars, recovering, locked, podVars, found, persisted>>

\* The checkpoint names the row of this turn (a turn is identified by the
\* seq of its input): consumed already, admitted under this lease, or the
\* oldest human row beyond the watermark.
ExactCheckpoint(u, t, turn, c) ==
    /\ c = turn
    /\ \/ <<c, t>> \in admitted[u]
       \/ c \in human[u] /\ row[u].consumed_seq >= c
       \/ /\ c \in human[u] /\ c <= row[u].input_seq
          /\ row[u].consumed_seq < c
          /\ \A h \in human[u] : h > row[u].consumed_seq => h >= c

CloseInterruptAdmission(p, turn, c) ==
    LET u == claim[p].unit
        t == claim[p].token
    IN
    /\ u \in Sessions
    /\ CloseAllowed(row[u], t, turn, c, ExactCheckpoint(u, t, turn, c))
    /\ UpdateInPlace(u, CloseInterrupt(row[u], c))
    /\ UNCHANGED <<threadVars, recovering, locked, podVars, found, persisted>>

\* Under the fence an event delivery is bound to the claimant's turn.
AdmitDelivery(p, s) ==
    LET u == claim[p].unit IN
    /\ Holds(p) /\ u \in Sessions /\ Writable(u)
    /\ s \in owed[u]
    /\ owed' = [owed EXCEPT ![u] = @ \ {s}]
    /\ admitted' = [admitted EXCEPT ![u] = @ \cup {<<s, claim[p].token>>}]
    /\ UNCHANGED <<queueVars, top, human, recovering, locked, podVars, found,
                   persisted>>

\* The provider call never started: the delivery is owed again.
UnadmitDelivery(p, s) ==
    LET u == claim[p].unit IN
    /\ Holds(p) /\ u \in Sessions /\ u \notin locked
    /\ <<s, claim[p].token>> \in admitted[u]
    /\ owed' = [owed EXCEPT ![u] = @ \cup {s}]
    /\ admitted' = [admitted EXCEPT ![u] = @ \ {<<s, claim[p].token>>}]
    /\ UNCHANGED <<queueVars, top, human, recovering, locked, podVars, found,
                   persisted>>

\* A delivery admitted under an older lease whose turn left no answer is owed
\* again, unless the watermark has passed it.
ReclaimDelivery(p, s) ==
    LET u == claim[p].unit IN
    /\ Holds(p) /\ u \in Sessions /\ u \notin locked
    /\ s > row[u].consumed_seq
    /\ \E m \in admitted[u] :
          /\ m[1] = s /\ m[2] < claim[p].token
          /\ admitted' = [admitted EXCEPT ![u] = @ \ {m}]
    /\ owed' = [owed EXCEPT ![u] = @ \cup {s}]
    /\ UNCHANGED <<queueVars, top, human, recovering, locked, podVars, found,
                   persisted>>

\* The human inputs a stop may settle.  The oldest pending input is served
\* first, so that no event at or below a stopped one is still owed.
StopTargets(u) ==
    {c \in human[u] : /\ u \in Sessions /\ History < c /\ c <= row[u].input_seq
                      /\ \A s \in owed[u] : s > Max2(row[u].consumed_seq, c)}

\* A stop of this lease, or one an earlier lease left, is finalized.
ConsumeStopLive(p, c) ==
    LET u == claim[p].unit IN
    /\ Holds(p) /\ c \in StopTargets(u)
    /\ UpdateInPlace(u, ConsumeStop(row[u], c))
    /\ UNCHANGED <<threadVars, recovering, locked, podVars, found, persisted>>

\* Mutant: a replayed receipt advances the watermark again.
FinalizeControlAgain(p) ==
    LET u == claim[p].unit IN
    /\ Holds(p) /\ u \in Sessions /\ row[u].control_input_seq > 0
    /\ row[u].control_consumed_seq <= row[u].control_input_seq
    /\ UpdateInPlace(u, [row[u] EXCEPT !.control_consumed_seq = @ + 1])
    /\ UNCHANGED <<threadVars, recovering, locked, podVars, found, persisted>>

\* Controls are finalized one by one, in request order, under the fence.
FinalizeControl(p) ==
    LET u == claim[p].unit IN
    /\ Holds(p) /\ u \in Sessions
    /\ row[u].control_consumed_seq < row[u].control_input_seq
    /\ UpdateInPlace(u, [row[u] EXCEPT !.control_consumed_seq = @ + 1])
    /\ UNCHANGED <<threadVars, recovering, locked, podVars, found, persisted>>

\* A disposition: the row goes to r and the pod is free again.
Dispose(p, r, w) ==
    /\ Holds(p)
    /\ UpdateAtBack(claim[p].unit, r)
    /\ claim' = [claim EXCEPT ![p] = NoClaim]
    /\ warm' = [warm EXCEPT ![p] = w]
    /\ UNCHANGED <<threadVars, recovering, locked, fence, found, persisted>>

CompleteUnit(p, c) ==
    LET u == claim[p].unit IN
    /\ u \notin recovering
    /\ Dispose(p, Complete(row[u], c, owed[u] /= {}),
               IF u \in WarmReuse THEN u ELSE NoUnit)

ReleaseUnit(p, due) == Dispose(p, Release(row[claim[p].unit], due), NoUnit)

ReleaseUnitDeterministic(p) ==
    Dispose(p, ReleaseDeterministic(row[claim[p].unit]), NoUnit)

ParkUnit(p, reason) == Dispose(p, Park(row[claim[p].unit], reason), NoUnit)

RecordAttachFailureOf(p, sig) ==
    /\ claim[p].unit \in Sessions
    /\ Dispose(p, RecordAttachFailure(row[claim[p].unit], sig), NoUnit)

-----------------------------------------------------------------------------
(***************************************************************************)
(* Reapers, operators, recovery.                                           *)
(***************************************************************************)

\* The candidate scan reads the token and the attempts the backoff is computed
\* from; the steals follow one by one.  LIMIT and SKIP LOCKED may hide some.
ReapScan(r, some) ==
    /\ found[r] = {} /\ some /= {}
    /\ some \subseteq {u \in Units : ReapCandidate(row[u]) /\ u \notin recovering}
    /\ found' = [found EXCEPT ![r] =
                   {<<u, row[u].lease_token, row[u].attempts = 0>> : u \in some}]
    /\ UNCHANGED <<queueVars, threadVars, recovering, locked, podVars,
                   persisted>>

\* Mutant: the candidate's expiry is trusted.
StealUnchecked(u, t) == Leased(row[u], t) /\ u \notin recovering

\* The compare-and-set of one steal, re-checked when the row lock is free.
StealAllowed(u, t) ==
    Leased(row[u], t) /\ row[u].lapsed /\ u \notin recovering

\* The stops of the stolen lease are settled by the same transaction.
ReapStealUnit(r, u, t, due) ==
    LET stolen == ReapSteal(row[u], due) IN
    /\ <<u, t, due>> \in found[r]
    /\ StealAllowed(u, t)
    /\ row[u].lease_token < MaxToken
    /\ \E q \in {stolen} \cup {SettleStop(stolen, c) : c \in StopTargets(u)} :
          UpdateAtBack(u, q)
    /\ found' = [found EXCEPT ![r] = @ \ {<<u, t, due>>}]
    /\ UNCHANGED <<threadVars, recovering, locked, podVars, persisted>>

\* Renewed, released or stolen by a competitor meanwhile: nothing changes.
ReapMiss(r, u, t, due) ==
    /\ <<u, t, due>> \in found[r]
    /\ ~ StealAllowed(u, t)
    /\ found' = [found EXCEPT ![r] = @ \ {<<u, t, due>>}]
    /\ UNCHANGED <<queueVars, threadVars, recovering, locked, podVars,
                   persisted>>

\* The rest of the pass is lost with the process, or with its leadership.
ReaperCrash(r) ==
    /\ found[r] /= {}
    /\ found' = [found EXCEPT ![r] = {}]
    /\ UNCHANGED <<queueVars, threadVars, recovering, locked, podVars,
                   persisted>>

\* Mutant: unpark does not look for a recovery.
UnparkAnything(u) ==
    /\ row[u].state = "parked"
    /\ UpdateAtBack(u, Unpark(row[u]))
    /\ UNCHANGED <<threadVars, recovering, locked, podVars, found, persisted>>

UnparkUnit(u) ==
    /\ row[u].state = "parked" /\ u \notin recovering
    /\ UpdateAtBack(u, Unpark(row[u]))
    /\ UNCHANGED <<threadVars, recovering, locked, podVars, found, persisted>>

SettleParkedUnit(u, c) ==
    /\ u \in Sessions
    /\ row[u].state = "parked" /\ u \notin recovering
    /\ UpdateAtBack(u, SettleParked(row[u], c, owed[u] /= {}))
    /\ UNCHANGED <<threadVars, recovering, locked, podVars, found, persisted>>

\* A reaper finishes the stops of earlier leases on a parked session.
SettleStopIdle(u, c) ==
    /\ row[u].state = "parked" /\ c \in StopTargets(u)
    /\ UpdateAtBack(u, SettleStop(row[u], c))
    /\ UNCHANGED <<threadVars, recovering, locked, podVars, found, persisted>>

\* A live worker attempt is fenced out; an attempt that never reached its
\* bundle is refunded.
ParkWorkerForRecovery(u, refund) ==
    /\ u \in Workers \ recovering
    /\ row[u].state = "leased" /\ row[u].lease_token < MaxToken
    /\ refund <= row[u].attempts
    /\ UpdateInPlace(u, ParkForRecovery(row[u], refund))
    /\ recovering' = recovering \cup {u}
    /\ UNCHANGED <<threadVars, locked, podVars, found, persisted>>

\* A sibling that is not running is held with the same token bump.
HoldWorkerForRecovery(u) ==
    /\ u \in Workers \ recovering
    /\ row[u].state \in {"queued", "done", "parked"}
    /\ row[u].lease_token < MaxToken
    /\ UpdateInPlace(u, HoldForRecovery(row[u]))
    /\ recovering' = recovering \cup {u}
    /\ UNCHANGED <<threadVars, locked, podVars, found, persisted>>

ReleaseWorkerFromRecovery(u) ==
    /\ u \in recovering
    /\ row[u].state = "parked" /\ row[u].park_reason = "workspace_recovery"
    /\ row[u].input_seq < MaxSeq
    /\ UpdateAtBack(u, ReleaseFromRecovery(row[u]))
    /\ recovering' = recovering \ {u}
    /\ UNCHANGED <<threadVars, locked, podVars, found, persisted>>

-----------------------------------------------------------------------------
(***************************************************************************)
(* Time and other transactions.                                            *)
(***************************************************************************)

ClockTick(u, r) ==
    /\ row' = [row EXCEPT ![u] = r]
    /\ UNCHANGED <<threadVars, recovering, ahead, locked, podVars, found,
                   persisted>>

LeaseLapses(u) ==
    /\ row[u].state = "leased" /\ ~ row[u].lapsed
    /\ ClockTick(u, [row[u] EXCEPT !.lapsed = TRUE])

BackoffElapses(u) ==
    /\ row[u].state = "queued" /\ ~ row[u].ready
    /\ ClockTick(u, [row[u] EXCEPT !.ready = TRUE])

GraceElapses(u) ==
    /\ row[u].state = "queued" /\ ~ row[u].aged
    /\ ClockTick(u, [row[u] EXCEPT !.aged = TRUE])

\* An admission or admin transaction holds a queued row for a while: claims
\* skip it, other updates wait.
RowLocked(u) ==
    /\ row[u].state = "queued" /\ u \notin locked
    /\ locked' = locked \cup {u}
    /\ UNCHANGED <<queueVars, threadVars, recovering, podVars, found, persisted>>

RowUnlocked(u) ==
    /\ u \in locked
    /\ locked' = locked \ {u}
    /\ UNCHANGED <<queueVars, threadVars, recovering, podVars, found, persisted>>

-----------------------------------------------------------------------------
Admission ==
    \E u \in Units :
        \/ \E prio \in Priorities, due \in BOOLEAN, s \in 1..MaxSeq :
              EnqueueUnit(u, prio, due, s)
        \/ AdmitInput(u)
        \/ PersistEvent(u)
        \/ \E k \in 1..MaxControl : AdmitControl(u, k)

PodStep(p) ==
    \/ \E u \in Units : Claim(p, u) \/ ClaimPreferred(p, u)
    \/ HeartbeatUnit(p) \/ LearnLeaseLost(p)
    \/ FenceLease(p) \/ PersistCommit(p) \/ PersistAbort(p)
    \/ PodCrash(p) \/ ExpireWarm(p)
    \/ \E turn \in 1..MaxSeq :
          \/ OpenInterruptAdmission(p, turn)
          \/ \E c \in {NullSeq} \cup 1..MaxSeq : CloseInterruptAdmission(p, turn, c)
    \/ \E s \in 1..MaxSeq :
          AdmitDelivery(p, s) \/ UnadmitDelivery(p, s) \/ ReclaimDelivery(p, s)
    \/ FinalizeControl(p)
    \/ \E c \in 1..MaxSeq : ConsumeStopLive(p, c)
    \/ \E c \in {NullSeq} \cup 0..MaxSeq :
          /\ claim[p].unit \in Units /\ c <= row[claim[p].unit].input_seq
          /\ CompleteUnit(p, c)
    \/ \E due \in BOOLEAN : ReleaseUnit(p, due)
    \/ ReleaseUnitDeterministic(p)
    \/ \E reason \in {"none", "executor"} : ParkUnit(p, reason)
    \/ \E sig \in AttachSignatures : RecordAttachFailureOf(p, sig)

ReaperStep(r) ==
    \/ \E some \in SUBSET Units : ReapScan(r, some)
    \/ \E f \in found[r] :
          ReapStealUnit(r, f[1], f[2], f[3]) \/ ReapMiss(r, f[1], f[2], f[3])
    \/ ReaperCrash(r)

OperatorStep(u) ==
    \/ UnparkUnit(u)
    \/ \E c \in {NullSeq} \cup 1..MaxSeq :
          c <= row[u].input_seq /\ SettleParkedUnit(u, c)
    \/ \E c \in 1..MaxSeq : SettleStopIdle(u, c)
    \/ \E refund \in 0..1 : ParkWorkerForRecovery(u, refund)
    \/ HoldWorkerForRecovery(u)
    \/ ReleaseWorkerFromRecovery(u)

Clock(u) ==
    \/ LeaseLapses(u) \/ BackoffElapses(u) \/ GraceElapses(u)
    \/ RowLocked(u) \/ RowUnlocked(u)

Next ==
    \/ Admission
    \/ \E p \in Pods : PodStep(p)
    \/ \E r \in Reapers : ReaperStep(r)
    \/ \E u \in Units : OperatorStep(u) \/ Clock(u)

Spec == Init /\ [][Next]_vars
-----------------------------------------------------------------------------
(***************************************************************************)
(* Properties.                                                             *)
(***************************************************************************)

\* A pod with a persist transaction open (fence_lease succeeded, commit still
\* to come) holds the lease recorded in the row: no steal, release, recovery
\* or claim slips in between the token check and the write.
FenceExcludesSteal == \A p \in Pods : fence[p] => Holds(p)

\* At most one pod is the holder of a unit, it is the one leased_by names,
\* and no pod has a claim the row never granted, whatever zombies remember.
OneHolder ==
    \A p \in Pods : Holds(p) =>
        /\ row[claim[p].unit].leased_by = p
        /\ \A q \in Pods \ {p} : claim[q] /= claim[p]

\* A unit is 'done' only when nothing is owed: complete_unit and
\* settle_parked_unit never lose input, a control or an event delivery that
\* was admitted while the unit was leased or parked.
NoStrandedWork ==
    \A u \in Units : row[u].state = "done" =>
        /\ row[u].input_seq <= row[u].consumed_seq
        /\ row[u].control_input_seq <= row[u].control_consumed_seq
        /\ owed[u] = {}

\* The table constraint run_queue_interrupt_admission_shape: an interrupt
\* window exists only on a leased row and carries its current token, so no
\* statement of any client is refused by the constraint and no window
\* outlives the lease that opened it.
InterruptWindowOwned ==
    \A u \in Units :
        LET r == row[u] IN
        /\ (r.adm_token = 0) <=> (r.adm_turn = 0)
        /\ r.adm_token /= 0 => u \in Sessions /\ Leased(r, r.adm_token)

\* While a workspace recovery of a worker is unresolved the unit is parked:
\* nobody runs it, no reaper steals it, no operator revives it.
RecoveryExcludesExecution ==
    \A u \in recovering :
        row[u].state = "parked" /\ \A p \in Pods : claim[p].unit = u => ~ Holds(p)

\* The watermarks: what is consumed never passes what was recorded.
ConsumedBehindInput ==
    \A u \in Units :
        /\ row[u].consumed_seq <= row[u].input_seq
        /\ row[u].control_consumed_seq <= row[u].control_input_seq
        /\ row[u].input_seq <= IF u \in Sessions THEN top[u] ELSE MaxSeq

\* The lane-flip boundary: what a thread said before its first queue signal
\* was answered by its pinned life.  The watermark of a session that has a
\* row covers it, so no claim answers it again and no turn is opened on it.
HistoryNeverReplayed ==
    \A u \in Sessions : Exists(row[u]) =>
        /\ row[u].consumed_seq >= History
        /\ row[u].adm_turn \notin 1..History

\* The failure record bounds every loop of releases the reaper cannot see: a
\* deterministic failure that repeats max_attempts times, or an attach failure
\* that reaches its threshold, parks the unit, however steals, transient
\* releases and other failures are mixed in.  A session leaves that park with
\* its record only through a stop settled at rest, and still shows the reason.
FailureBudget ==
    \A u \in Units :
        LET r == row[u] IN
        /\ (r.signature = "none") <=> (r.attach_failures = 0)
        /\ r.state /= "parked" /\ (u \in Workers \/ r.park_reason = "none") =>
              /\ r.signature = "deterministic" => r.attach_failures < MaxAttempts
              /\ r.signature \in AttachSignatures =>
                    r.attach_failures < SignatureThreshold

\* A lease that has not lapsed ends only by the hand of the pod that holds it
\* or by a workspace recovery: a zombie never disposes of its successor's
\* lease and a reaper never takes one whose heartbeat arrived after its scan.
LiveLeaseEndsByHolder ==
    [][\A u \in Units :
         row[u].state = "leased" /\ ~ row[u].lapsed /\ ~ Leased(row'[u], row[u].lease_token)
            => \/ u \in recovering'
               \/ \E p \in Pods :
                    /\ claim[p] = [unit |-> u, token |-> row[u].lease_token]
                    /\ claim'[p] = NoClaim]_vars

\* Tokens and watermarks never go back (lease_token is never reset, GREATEST
\* merges every admission), and neither do the durable writes: a commit
\* under an older lease never follows one under a newer lease.
NeverGoesBack ==
    [][\A u \in Units :
         /\ row'[u].lease_token >= row[u].lease_token
         /\ row'[u].input_seq >= row[u].input_seq
         /\ row'[u].consumed_seq >= row[u].consumed_seq
         /\ row'[u].control_input_seq >= row[u].control_input_seq
         /\ row'[u].control_consumed_seq >= row[u].control_consumed_seq
         /\ persisted'[u] >= persisted[u]]_vars

\* The queue implements the fenced lease of every unit.
Lease == INSTANCE FencedLease WITH
    epoch   <- [u \in Units |-> row[u].lease_token],
    live    <- [u \in Units |-> row[u].state = "leased"],
    written <- persisted

ImplementsFencedLease == Lease!LeaseSpec
=============================================================================
