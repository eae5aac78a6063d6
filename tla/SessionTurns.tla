---------------------------- MODULE SessionTurns ----------------------------
(***************************************************************************)
(* The turns of one session on the stateless lane, from the claim to the   *)
(* disposition (src/agent/api/turn_executor.py), with the user's stop      *)
(* requests (src/shared/thread_interrupts/queries.py and their consumer in *)
(* src/agent/api/persistent_app.py) and the reaper's atomic session steal  *)
(* (src/orchestrator/services/run_queue_reaper.py).                        *)
(*                                                                         *)
(* The row is the one of RunQueueRows.  A message gets a turn of its own,  *)
(* named by its seq.  A stop is admitted for the turn whose window is      *)
(* open, then acknowledged by one durable receipt and finalized from it;   *)
(* between any two of these a pod may die, and whoever owns the row next   *)
(* finishes what is left.                                                  *)
(***************************************************************************)
EXTENDS RunQueueRows, FiniteSets, FiniteSetsExt

CONSTANTS Requests,    \* stop requests (client_request_id)
          NoRequest,
          EventSeqs,   \* messages that are event deliveries, not human input
          MaxSeq, MaxToken,
          Faults,      \* kinds of fault that may happen, of FaultKinds
          MaxFaults    \* bound on how many do

FaultKinds == {"crash", "stall", "refuse", "loop", "journal", "shutdown"}

ASSUME TurnConstants ==
    /\ NoRequest \notin Requests
    /\ MaxSeq \in Nat /\ MaxToken \in Nat /\ MaxFaults \in Nat
    /\ EventSeqs \subseteq 1..MaxSeq
    /\ Faults \subseteq FaultKinds

VARIABLES
    row,        \* the session's run_queue row
    top,        \* newest message of the thread
    owed,       \* event deliveries not yet admitted to a turn
    admitted,   \* <<seq, lease token>> of admitted event deliveries
    settled,    \* event deliveries settled after their turn
    answered,   \* turns whose end is durable in the transcript
    started,    \* turns some pod has started (history)
    stop,       \* the thread_interrupt_requests rows with their receipts
    pod,        \* what each executor is doing
    draining,   \* executors told to shut down
    active,     \* lease token of _stateless_active_claim, 0 if none
    hold,       \* _stateless_claim_loss_hold with the one unresolved loss
    faults

eventVars == <<owed, admitted, settled>>
threadVars == <<top, eventVars, answered, started>>
claimVars == <<active, hold>>
vars == <<row, threadVars, stop, pod, draining, claimVars, faults>>

Stages == {"idle", "claimed", "bound", "running", "ended", "died",
           "settling", "leaving"}
Verdicts == {"none", "applied", "rejected"}
Stops == [turn : 0..MaxSeq, token : 0..MaxToken,
          outcome : Verdicts \cup {"pending"}, receipt : Verdicts]
NoStop == [turn |-> 0, token |-> 0, outcome |-> "none", receipt |-> "none"]
PodStates == [stage : Stages, token : 0..MaxToken, turn : 0..MaxSeq,
              input : Seqs, req : Requests \cup {NoRequest},
              verdict : Verdicts]
Idle == [stage |-> "idle", token |-> 0, turn |-> 0, input |-> NullSeq,
         req |-> NoRequest, verdict |-> "none"]
NoHold == [token |-> 0, state |-> "done", reason |-> "none"]

TypeOK ==
    /\ row \in Row
    /\ top \in 0..MaxSeq
    /\ owed \subseteq EventSeqs
    /\ admitted \subseteq EventSeqs \X (1..MaxToken)
    /\ settled \subseteq EventSeqs
    /\ answered \subseteq 1..MaxSeq /\ started \subseteq 1..MaxSeq
    /\ stop \in [Requests -> Stops]
    /\ pod \in [Pods -> PodStates]
    /\ draining \subseteq Pods
    /\ active \in 0..MaxToken
    /\ hold \in [token : 0..MaxToken, state : {"queued", "parked", "done"},
                 reason : Reasons]
    /\ faults \in 0..MaxFaults

Init ==
    /\ row = NoRow
    /\ top = 0
    /\ owed = {} /\ admitted = {} /\ settled = {}
    /\ answered = {} /\ started = {}
    /\ stop = [r \in Requests |-> NoStop]
    /\ pod = [p \in Pods |-> Idle]
    /\ draining = {}
    /\ active = 0 /\ hold = NoHold
    /\ faults = 0

-----------------------------------------------------------------------------
Human(s) == s \notin EventSeqs

Owns(p) == pod[p].stage /= "idle" /\ Leased(row, pod[p].token)

\* A fault the environment may inject, within the bound.
Fault(kind) ==
    kind \in Faults /\ faults < MaxFaults /\ faults' = faults + 1

\* The pod gives its claim up; the row is left to whoever finds it.
Abandon(p) == pod' = [pod EXCEPT ![p] = Idle]

\* One fenced statement that ends the lease.
Dispose(p, r) == Owns(p) /\ row' = r /\ Abandon(p)

Advance(p, stage) == pod' = [pod EXCEPT ![p].stage = stage]

-----------------------------------------------------------------------------
(***************************************************************************)
(* Messages and stops.                                                     *)
(***************************************************************************)

\* A human input, or an event with its delivery, and the watermark.
AdmitMessage ==
    /\ top < MaxSeq
    /\ top' = top + 1
    /\ owed' = IF Human(top + 1) THEN owed ELSE owed \cup {top + 1}
    /\ row' = RecordInput(row, top + 1)
    /\ UNCHANGED <<admitted, settled, answered, started, stop, pod, draining,
                   claimVars, faults>>

\* admit_thread_interrupt: only for the exact lease and turn whose window is
\* open; whose turn it is, is not looked at.  A repeated UUID changes nothing.
AdmitStop(r) ==
    /\ stop[r] = NoStop
    /\ row.adm_turn /= 0 /\ Leased(row, row.adm_token)
    /\ stop' = [stop EXCEPT ![r] =
                  [turn |-> row.adm_turn, token |-> row.lease_token,
                   outcome |-> "pending", receipt |-> "none"]]
    /\ UNCHANGED <<row, threadVars, pod, draining, claimVars, faults>>

Pending(r) == stop[r].outcome = "pending"

\* Mutant: the request's own outcome is taken for the receipt's.
VerdictOfRequest(r) == stop[r].outcome

\* What a receipt, or without one the admission itself, decides.
Verdict(r) ==
    IF stop[r].receipt = "none" THEN "applied" ELSE stop[r].receipt

\* Stops that consume their input, out of those in some.
Applied(some) == {r \in some : Verdict(r) = "applied"}

\* Mutant: the target must still be unconsumed.
SettleableUnconsumed(some) ==
    \A r \in Applied(some) :
        Human(stop[r].turn) /\ stop[r].turn > row.consumed_seq

\* An applied stop must map to one human row, or its transaction raises.
Settleable(some) == \A r \in Applied(some) : Human(stop[r].turn)

\* Mutant: the receipt is written and the request forgotten.
SettledReceiptOnly(some) ==
    [r \in Requests |->
       IF r \in some THEN [stop[r] EXCEPT !.receipt = Verdict(r)] ELSE stop[r]]

Settled(some) ==
    [r \in Requests |->
       IF r \in some THEN [stop[r] EXCEPT !.outcome = Verdict(r),
                                          !.receipt = Verdict(r)]
                     ELSE stop[r]]

\* Mutant: the watermark stays behind the stopped input.
ConsumeNothing(q, some) == q

\* consume_applied_interrupt_input_live, for one request group.
ConsumeLive(q, some) ==
    IF Applied(some) = {} THEN q
    ELSE ConsumeStop(q, Max({stop[r].turn : r \in Applied(some)}))

\* consume_applied_interrupt_input_idle: nobody owns the row.
ConsumeIdle(q, some) ==
    IF Applied(some) = {} THEN q
    ELSE SettleStop(q, Max({stop[r].turn : r \in Applied(some)}))

-----------------------------------------------------------------------------
(***************************************************************************)
(* What a claim finds to do.                                               *)
(***************************************************************************)

Humans == {s \in 1..top : Human(s) /\ s > row.consumed_seq}

\* Mutant: an admission of a dead lease is never found again.
StaleAdmissionsNever == {}

\* stale_stateless_admission_sql: admitted under an older lease and never
\* settled; above the watermark, or answered wherever it sits.
StaleAdmissions ==
    {s \in EventSeqs \ settled :
       /\ \E t \in 1..MaxToken : t < row.lease_token /\ <<s, t>> \in admitted
       /\ s > row.consumed_seq \/ s \in answered}

\* _PENDING_EVENT_EXISTS_SQL
EventOwed == owed \cup StaleAdmissions /= {}

\* Mutant: events are served before the humans ahead of them.
PendingEventsFirst == IF owed /= {} THEN owed ELSE Humans

\* _PENDING_INPUT_SQL, once the answered admissions in it are settled.
PendingInput == Humans \cup owed \cup (StaleAdmissions \ answered)

\* Mutant: the transcript is not asked.
AnsweredNever(p) == {}

\* _ANSWERED_BY_TRANSCRIPT_SQL: the oldest human row the claim covers.
AnsweredOldest(p) ==
    {s \in Humans : /\ s <= pod[p].input /\ s \in answered
                    /\ \A h \in Humans : s <= h}

\* Skip-if-answered, by the watermark or by the transcript.
Skips(p) ==
    IF EventOwed THEN {}
    ELSE IF row.consumed_seq >= pod[p].input THEN {row.consumed_seq}
    ELSE AnsweredOldest(p)

Claim(p) ==
    /\ pod[p].stage = "idle" /\ p \notin draining
    /\ VisiblePreferred(row) /\ row.lease_token < MaxToken
    /\ row' = ClaimUpdateTail(row, p)
    /\ pod' = [pod EXCEPT ![p] = [Idle EXCEPT
                 !.stage = "claimed", !.token = row.lease_token + 1,
                 !.input = row.input_seq]]
    /\ UNCHANGED <<threadVars, stop, draining, claimVars, faults>>

Skip(p) ==
    /\ pod[p].stage = "claimed"
    /\ \E c \in Skips(p) :
         pod' = [pod EXCEPT ![p].stage = "settling", ![p].input = c]
    /\ UNCHANGED <<row, threadVars, stop, draining, claimVars, faults>>

\* The claim bundle: credentials go out, and the claimant is stamped on the
\* thread in the same transaction.
Bind(p) ==
    /\ pod[p].stage = "claimed" /\ Owns(p) /\ Skips(p) = {}
    /\ active' = pod[p].token
    /\ Advance(p, "bound")
    /\ UNCHANGED <<row, threadVars, stop, draining, hold, faults>>

\* Bundle, attach, or a query fails: the claim is released, and counted if
\* the failure is one that a retry cannot mend.
GiveBack(p) ==
    /\ pod[p].stage \in {"claimed", "bound"} /\ Fault("refuse")
    /\ \E r \in {Release(row, FALSE), ReleaseDeterministic(row)} : Dispose(p, r)
    /\ UNCHANGED <<threadVars, stop, draining, claimVars>>

-----------------------------------------------------------------------------
(***************************************************************************)
(* _reconcile_stale_thread_interrupts: before any input is chosen, the     *)
(* stops of earlier leases are acknowledged, all of them, then finalized.  *)
(***************************************************************************)

\* Mutant: the successor leaves them alone.
StaleNone(p) == {}

Stale(p) == {r \in Requests : Pending(r) /\ stop[r].token < pod[p].token}

AckStale(p, r) ==
    /\ pod[p].stage = "bound" /\ Owns(p)
    /\ r \in Stale(p) /\ stop[r].receipt = "none"
    /\ stop' = [stop EXCEPT ![r].receipt = "applied"]
    /\ UNCHANGED <<row, threadVars, pod, draining, claimVars, faults>>

StaleAcked(p) == \A r \in Stale(p) : stop[r].receipt /= "none"

FinalizeStale(p, r) ==
    /\ pod[p].stage = "bound" /\ Owns(p)
    /\ r \in Stale(p) /\ StaleAcked(p) /\ Settleable({r})
    /\ stop' = Settled({r})
    /\ row' = ConsumeLive(row, {r})
    /\ UNCHANGED <<threadVars, pod, draining, claimVars, faults>>

\* The finalizing transaction raised: nothing of this claim is served.
RecoveryFails(p) ==
    /\ pod[p].stage = "bound"
    /\ StaleAcked(p) /\ ~Settleable(Stale(p))
    /\ Dispose(p, Release(row, FALSE))
    /\ UNCHANGED <<threadVars, stop, draining, claimVars, faults>>

-----------------------------------------------------------------------------
(***************************************************************************)
(* The turn.                                                               *)
(***************************************************************************)

\* The oldest pending input; its window opens before its first output.  An
\* event some older lease had admitted is owed again under this one.
StartTurn(p) ==
    /\ pod[p].stage = "bound" /\ Stale(p) = {}
    /\ PendingInput /= {}
    /\ LET s == Min(PendingInput) IN
         /\ OpenAllowed(row, pod[p].token, s)
         /\ row' = OpenInterrupt(row, pod[p].token, s)
         /\ started' = started \cup {s}
         /\ owed' = IF Human(s) THEN owed ELSE owed \cup {s}
         /\ admitted' = {a \in admitted : a[1] /= s}
         /\ pod' = [pod EXCEPT ![p].stage = "running", ![p].turn = s]
    /\ settled' = settled \cup (StaleAdmissions \cap answered)
    /\ UNCHANGED <<top, answered, stop, draining, claimVars, faults>>

\* Nothing to answer: what the claim saw of the input is consumed.
NothingPending(p) ==
    /\ pod[p].stage = "bound" /\ Owns(p) /\ Stale(p) = {}
    /\ PendingInput = {}
    /\ settled' = settled \cup (StaleAdmissions \cap answered)
    /\ Advance(p, "settling")
    /\ UNCHANGED <<row, top, owed, admitted, answered, started, stop, draining,
                   claimVars, faults>>

AdmittedHere(p) == <<pod[p].turn, pod[p].token>> \in admitted

\* An event delivery is admitted at the first provider request.
AdmitDelivery(p) ==
    /\ pod[p].stage = "running" /\ Owns(p) /\ p \notin draining
    /\ pod[p].turn \in owed
    /\ owed' = owed \ {pod[p].turn}
    /\ admitted' = admitted \cup {<<pod[p].turn, pod[p].token>>}
    /\ UNCHANGED <<row, top, settled, answered, started, stop, pod, draining,
                   claimVars, faults>>

\* The fenced write of the final answer, or of the turn's final reconcile.
Answer(p) ==
    /\ pod[p].stage = "running" /\ Owns(p)
    /\ Human(pod[p].turn) \/ AdmittedHere(p)
    /\ answered' = answered \cup {pod[p].turn}
    /\ UNCHANGED <<row, top, eventVars, started, stop, pod, draining,
                   claimVars, faults>>

TurnEnds(p) ==
    /\ pod[p].stage = "running" /\ pod[p].turn \in answered
    /\ Advance(p, "ended")
    /\ UNCHANGED <<row, threadVars, stop, draining, claimVars, faults>>

\* The process is shutting down before the first provider request: the loop
\* reports that the input stays durable, and reports the turn settled.
TurnRefused(p) ==
    /\ pod[p].stage = "running" /\ p \in draining
    /\ pod[p].turn \notin answered /\ ~AdmittedHere(p)
    /\ Advance(p, "ended")
    /\ UNCHANGED <<row, threadVars, stop, draining, claimVars, faults>>

LoopDies(p) ==
    /\ pod[p].stage = "running" /\ Fault("loop")
    /\ Advance(p, "died")
    /\ UNCHANGED <<row, threadVars, stop, draining, claimVars>>

\* The loop settles the delivery once the executor has been told; the
\* completion may overtake it.
SettleDelivery(p) ==
    /\ pod[p].stage \in {"ended", "settling"} /\ Owns(p)
    /\ AdmittedHere(p) /\ pod[p].turn \notin settled
    /\ settled' = settled \cup {pod[p].turn}
    /\ UNCHANGED <<row, top, owed, admitted, answered, started, stop, pod,
                   draining, claimVars, faults>>

\* Mutant: a turn whose loop died is checkpointed too.
CheckpointAlways(p) == pod[p].turn

\* The checkpoint of a settled turn, none for a dead one.
Checkpoint(p) == IF pod[p].stage = "ended" THEN pod[p].turn ELSE NullSeq

\* The checkpoint names this turn's row: human and next in line (or already
\* consumed by a stop), or an event admitted under this lease.
Exact(p) ==
    IF Human(pod[p].turn)
    THEN \/ row.consumed_seq >= pod[p].turn
         \/ Humans /= {} /\ Min(Humans) = pod[p].turn
    ELSE AdmittedHere(p)

Close(p) ==
    /\ pod[p].stage \in {"ended", "died"}
    /\ CloseAllowed(row, pod[p].token, pod[p].turn, Checkpoint(p), Exact(p))
    /\ row' = CloseInterrupt(row, Checkpoint(p))
    /\ pod' = [pod EXCEPT ![p].stage = IF @ = "ended" THEN "settling"
                                                      ELSE "leaving",
                          ![p].input = Checkpoint(p)]
    /\ UNCHANGED <<threadVars, stop, draining, claimVars, faults>>

\* The close is refused: the executor treats the lease as lost.
CloseRefused(p) ==
    /\ pod[p].stage \in {"ended", "died"} /\ Owns(p)
    /\ ~CloseAllowed(row, pod[p].token, pod[p].turn, Checkpoint(p), Exact(p))
    /\ Abandon(p)
    /\ UNCHANGED <<row, threadVars, stop, draining, claimVars, faults>>

-----------------------------------------------------------------------------
(***************************************************************************)
(* _drain_thread_interrupts: by the watcher while the turn is open, and    *)
(* once more after the close.  RAM is signalled before the receipt exists. *)
(***************************************************************************)

Serving == {"running", "ended", "died", "settling", "leaving"}

\* The stops this claim's drain selects.
Undrained(p) ==
    {r \in Requests : /\ Pending(r) /\ stop[r].token = pod[p].token
                      /\ stop[r].turn = pod[p].turn}

\* A durable receipt decides; otherwise whether the turn is still active.
SignalVerdicts(p, r) ==
    CASE stop[r].receipt /= "none" -> {stop[r].receipt}
      [] pod[p].stage = "running" -> {"applied"}
      [] pod[p].stage \in {"ended", "settling"} -> {"rejected"}
      [] OTHER -> {"applied", "rejected"}

Signal(p, r) ==
    /\ pod[p].stage \in Serving /\ pod[p].req = NoRequest /\ Owns(p)
    /\ r \in Undrained(p)
    /\ \E v \in SignalVerdicts(p, r) :
         pod' = [pod EXCEPT ![p].req = r, ![p].verdict = v]
    /\ UNCHANGED <<row, threadVars, stop, draining, claimVars, faults>>

CommitReceipt(p) ==
    /\ pod[p].req /= NoRequest /\ Owns(p)
    /\ stop[pod[p].req].receipt = "none"
    /\ stop' = [stop EXCEPT ![pod[p].req].receipt = pod[p].verdict]
    /\ UNCHANGED <<row, threadVars, pod, draining, claimVars, faults>>

Polled(p) == pod' = [pod EXCEPT ![p].req = NoRequest, ![p].verdict = "none"]

Finalize(p) ==
    LET r == pod[p].req IN
    /\ r /= NoRequest /\ Owns(p)
    /\ stop[r].receipt /= "none" /\ Settleable({r})
    /\ stop' = Settled({r})
    /\ row' = ConsumeLive(row, {r})
    /\ Polled(p)
    /\ UNCHANGED <<threadVars, draining, claimVars, faults>>

\* The drain raises.  The watcher tries again; the final drain gives the
\* lease up, and parks the unit first if the turn had run a tool.
DrainFails(p) ==
    \/ /\ pod[p].stage \in {"running", "ended", "died"}
       /\ Polled(p)
       /\ UNCHANGED row
    \/ /\ pod[p].stage \in {"settling", "leaving"}
       /\ Abandon(p)
       /\ UNCHANGED row
    \/ /\ pod[p].stage \in {"settling", "leaving"}
       /\ Dispose(p, Park(row, "executor"))

FinalizeFails(p) ==
    /\ pod[p].req /= NoRequest /\ Owns(p)
    /\ stop[pod[p].req].receipt /= "none" /\ ~Settleable({pod[p].req})
    /\ DrainFails(p)
    /\ UNCHANGED <<threadVars, stop, draining, claimVars, faults>>

JournalFails(p) ==
    /\ pod[p].req /= NoRequest /\ Fault("journal")
    /\ DrainFails(p)
    /\ UNCHANGED <<threadVars, stop, draining, claimVars>>

-----------------------------------------------------------------------------
(***************************************************************************)
(* Disposition and loss of the claim.                                      *)
(***************************************************************************)

Drained(p) == pod[p].req = NoRequest /\ Undrained(p) = {}

Finish(p) ==
    /\ pod[p].stage = "settling" /\ Drained(p)
    /\ Dispose(p, Complete(row, pod[p].input, owed /= {}))
    /\ UNCHANGED <<threadVars, stop, draining, claimVars, faults>>

\* The completion could not be written: the checkpoint protects the answer,
\* so that the unit is released even after tool effects.
CompletionFails(p) ==
    /\ pod[p].stage = "settling" /\ pod[p].turn /= 0 /\ Drained(p)
    /\ Fault("refuse")
    /\ Dispose(p, Release(row, FALSE))
    /\ UNCHANGED <<threadVars, stop, draining, claimVars>>

\* A dead loop: released as a counted failure, or parked if the turn had run
\* a tool.
Leave(p) ==
    /\ pod[p].stage = "leaving" /\ Drained(p)
    /\ \E r \in {ReleaseDeterministic(row), Park(row, "executor")} : Dispose(p, r)
    /\ UNCHANGED <<threadVars, stop, draining, claimVars, faults>>

\* SIGTERM.  No more claims; the turn in flight goes on.
Terminate(p) ==
    /\ pod[p].stage /= "idle" /\ p \notin draining /\ Fault("shutdown")
    /\ draining' = draining \cup {p}
    /\ UNCHANGED <<row, threadVars, stop, pod, claimVars>>

\* The shutdown timeout cancels the claim wherever it is, drained or not; a
\* turn cut short after a tool call without a result is parked.
HandBack(p) ==
    /\ p \in draining
    /\ \/ Dispose(p, Release(row, row.attempts = 0))
       \/ /\ pod[p].stage \in {"running", "died", "leaving"}
          /\ Dispose(p, Park(row, "executor"))
    /\ UNCHANGED <<threadVars, stop, draining, claimVars, faults>>

\* Another executor takes the place of one that has shut down.
Replace(p) ==
    /\ p \in draining /\ pod[p].stage = "idle"
    /\ draining' = draining \ {p}
    /\ UNCHANGED <<row, threadVars, stop, pod, claimVars, faults>>

Crash(p) ==
    /\ pod[p].stage /= "idle" /\ Fault("crash")
    /\ Abandon(p)
    /\ draining' = draining \ {p}
    /\ UNCHANGED <<row, threadVars, stop, claimVars>>

\* The heartbeat, or any fenced statement, finds the lease gone.
LearnLost(p) ==
    /\ pod[p].stage /= "idle" /\ ~Owns(p)
    /\ Abandon(p)
    /\ UNCHANGED <<row, threadVars, stop, draining, claimVars, faults>>

HeartbeatRow(p) ==
    /\ Owns(p) /\ row.lapsed
    /\ row' = Heartbeat(row)
    /\ UNCHANGED <<threadVars, stop, pod, draining, claimVars, faults>>

\* The lease runs out: at once if nobody renews it, else by a stall.
LeaseLapses ==
    /\ row.state = "leased" /\ ~row.lapsed
    /\ IF \E p \in Pods : Owns(p) THEN Fault("stall") ELSE UNCHANGED faults
    /\ row' = [row EXCEPT !.lapsed = TRUE]
    /\ UNCHANGED <<threadVars, stop, pod, draining, claimVars>>

BackoffElapses ==
    /\ row.state = "queued" /\ ~row.ready
    /\ row' = [row EXCEPT !.ready = TRUE]
    /\ UNCHANGED <<threadVars, stop, pod, draining, claimVars, faults>>

-----------------------------------------------------------------------------
(***************************************************************************)
(* The reaper, the reconciler and the operator.                            *)
(***************************************************************************)

\* Mutant: the row goes straight back to the queue.
NoHoldEver(q) == FALSE

\* The lost claimant had its credentials: it may still be writing.
MustHold(q) == active = q.lease_token

\* _steal_session_with_claim_loss, one transaction: the token, the stops of
\* the stolen lease, and the hold that keeps the row from the next claim
\* until the claimant is known to be gone.
Steal ==
    LET old    == row.lease_token
        group  == {r \in Requests : Pending(r) /\ stop[r].token = old}
        stolen == ConsumeIdle(ReapSteal(row, FALSE), group)
    IN
    /\ ReapCandidate(row) /\ old < MaxToken /\ Settleable(group)
    /\ stop' = Settled(group)
    /\ IF MustHold(row)
       THEN /\ row' = [stolen EXCEPT !.state = "parked",
                                     !.park_reason = "claim_loss_hold",
                                     !.last_leased_by = NoPod]
            /\ hold' = [token  |-> old, state |-> stolen.state,
                        reason |-> IF stolen.state = "parked"
                                   THEN stolen.park_reason ELSE "none"]
       ELSE row' = stolen /\ hold' = NoHold
    /\ active' = 0
    /\ UNCHANGED <<threadVars, pod, draining, faults>>

\* acknowledge_session_claim_quiesced: the claimant has detached, or its
\* containers are terminated; the row gets its disposition back.
AckQuiesced ==
    /\ hold.token /= 0
    /\ \A p \in Pods : pod[p].token /= hold.token
    /\ row' = [row EXCEPT
                 !.state = IF hold.state = "done"
                              /\ Debt(row, row.consumed_seq, FALSE)
                           THEN "queued" ELSE hold.state,
                 !.park_reason = hold.reason]
    /\ hold' = NoHold
    /\ UNCHANGED <<threadVars, stop, pod, draining, active, faults>>

\* Mutant: the hold is not looked at.
RetryStaleHeld ==
    LET group == {r \in Requests : Pending(r) /\ stop[r].token < row.lease_token}
    IN
    /\ row.state = "parked"
    /\ group /= {} /\ Settleable(group)
    /\ stop' = Settled(group)
    /\ row' = ConsumeIdle(row, group)
    /\ UNCHANGED <<threadVars, pod, draining, claimVars, faults>>

\* _retry_stale_interrupt_thread: stops of earlier leases on a parked row.
RetryStale ==
    LET group == {r \in Requests : Pending(r) /\ stop[r].token < row.lease_token}
    IN
    /\ row.state = "parked" /\ hold.token = 0
    /\ group /= {} /\ Settleable(group)
    /\ stop' = Settled(group)
    /\ row' = ConsumeIdle(row, group)
    /\ UNCHANGED <<threadVars, pod, draining, claimVars, faults>>

UnparkUnit ==
    /\ row.state = "parked" /\ hold.token = 0
    /\ row' = Unpark(row)
    /\ UNCHANGED <<threadVars, stop, pod, draining, claimVars, faults>>

-----------------------------------------------------------------------------
\* The claim's own progress, from the skip checks to the disposition.
Turn(p) ==
    \/ Skip(p) \/ Bind(p) \/ RecoveryFails(p)
    \/ \E r \in Requests : AckStale(p, r) \/ FinalizeStale(p, r)
    \/ StartTurn(p) \/ NothingPending(p) \/ AdmitDelivery(p) \/ Answer(p)
    \/ TurnEnds(p) \/ TurnRefused(p) \/ Close(p) \/ CloseRefused(p)
    \/ Finish(p) \/ Leave(p) \/ LearnLost(p)

\* The drain of the stops, by the watcher or after the close.
Drain(p) ==
    \/ \E r \in Requests : Signal(p, r)
    \/ CommitReceipt(p) \/ Finalize(p) \/ FinalizeFails(p)

Executor(p) ==
    \/ Claim(p) \/ Turn(p) \/ Drain(p) \/ SettleDelivery(p)
    \/ HeartbeatRow(p) \/ HandBack(p) \/ Replace(p)
    \/ GiveBack(p) \/ CompletionFails(p) \/ LoopDies(p) \/ JournalFails(p)
    \/ Terminate(p) \/ Crash(p)

Control == LeaseLapses \/ BackoffElapses \/ Steal \/ AckQuiesced \/ RetryStale

Next ==
    \/ AdmitMessage
    \/ \E r \in Requests : AdmitStop(r)
    \/ \E p \in Pods : Executor(p)
    \/ Control
    \/ UnparkUnit

Spec == Init /\ [][Next]_vars

-----------------------------------------------------------------------------
(***************************************************************************)
(* Safety.                                                                 *)
(***************************************************************************)

Stopped(s) == \E r \in Requests : stop[r].turn = s /\ stop[r].outcome = "applied"

\* Pod p starts turn s in this step.
Starts(p, s) ==
    /\ pod[p].stage = "bound" /\ pod'[p].stage = "running"
    /\ pod'[p].turn = s

\* A turn the user has asked to stop is never started again: not while the
\* request is pending and not after it was applied, however many executors
\* died in between.
StopNotReplayed ==
    [][\A p \in Pods, s \in 1..MaxSeq : Starts(p, s) =>
         \A r \in Requests : stop[r].turn = s =>
            stop[r].outcome \notin {"pending", "applied"}]_vars

\* The watermark passes a human message only once its turn has a durable end
\* or a stop was applied to it.
ServedBeforeConsumed ==
    \A s \in 1..top : Human(s) /\ s <= row.consumed_seq =>
                         s \in answered \/ Stopped(s)

\* A session at rest owes no event delivery: every one was answered, those
\* whose executor died or was shut down in the turn included.
EventsServed == row.state = "done" => (1..top) \cap EventSeqs \subseteq answered

\* No message is skipped: the watermark, which events move too, passes a
\* human message only after some executor started its turn.
NothingSkipped ==
    \A s \in 1..top : Human(s) /\ s <= row.consumed_seq => s \in started

\* An answered input is not answered again: no executor starts a turn whose
\* end is already durable.
AnsweredOnce ==
    [][\A p \in Pods, s \in 1..MaxSeq : Starts(p, s) => s \notin answered]_vars

\* The pods that hold the session's credentials and may write its workspace.
Attached(p) ==
    \/ pod[p].stage \in {"bound", "running", "ended", "died", "leaving"}
    \/ pod[p].stage = "settling" /\ pod[p].turn /= 0

\* At most one executor has the workspace attached, the ones that have lost
\* their lease and do not know it included.
OneAttached == \A p, q \in Pods : Attached(p) /\ Attached(q) => p = q

\* The stops waiting at any time were all admitted for one lease and turn, so
\* that settling them moves the watermark at most once.
OneStopGeneration ==
    \A r, q \in Requests : Pending(r) /\ Pending(q) =>
        stop[r].token = stop[q].token /\ stop[r].turn = stop[q].turn

\* The hold in the thread's metadata and the reason in the queue row, two
\* tables, agree: the row shows claim_loss_hold exactly while the loss is
\* unresolved, and is then parked behind the token of the steal, so that no
\* claim, stop or operator frees it while the lost claimant may still write,
\* and no reason outlives its hold and refuses the owner's retry for ever.
HoldIsShown ==
    /\ (hold.token /= 0) <=> (row.park_reason = "claim_loss_hold")
    /\ hold.token /= 0 =>
          row.state = "parked" /\ row.lease_token = hold.token + 1

-----------------------------------------------------------------------------
(***************************************************************************)
(* Liveness.  Executors that are up make progress, a turn ends, a lease    *)
(* nobody renews lapses, and the reaper, the reconciler and the clock run. *)
(* Messages, stops, faults and the operator are free.                      *)
(***************************************************************************)

Fairness ==
    /\ WF_vars(Control /\ UNCHANGED faults)
    /\ WF_vars(\E p \in Pods : Claim(p))
    /\ \A p \in Pods : WF_vars(Turn(p)) /\ WF_vars(Drain(p)) /\ WF_vars(Replace(p))

FairSpec == Spec /\ Fairness

\* Every lease ends: its executor disposes of it or the reaper steals it.
LeaseIsGivenUp == []<>(row.state /= "leased")

\* A stop is settled, by its own executor, the reaper or a successor, unless
\* the session comes to rest first: done, or parked for the operator.  The hold
\* of a lost claim is no such rest.
StopIsSettled ==
    \A r \in Requests :
        Pending(r) ~> \/ ~Pending(r) \/ row.state = "done"
                      \/ row.state = "parked" /\ hold.token = 0
=============================================================================
