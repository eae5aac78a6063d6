---------------------------- MODULE RunQueueRows ----------------------------
(***************************************************************************)
(* The run_queue table of src/shared/run_queue/queries.py: one row per     *)
(* unit of work, and one operator per SQL statement of that module, from   *)
(* the row before the statement to the row after it.                       *)
(*                                                                         *)
(* Time is abstracted to what a WHERE clause can see of it.  lapsed says   *)
(* that leased_until is more than the reaper's grace in the past, ready    *)
(* that run_after has been reached, aged that queued_at is older than the  *)
(* affinity grace.  The order of the queued_at column between rows is kept *)
(* by the module that holds the rows.  A NULL watermark is NullSeq: it is  *)
(* below every sequence number, so GREATEST, which ignores NULL, is Max2,  *)
(* and COALESCE(consumed_seq, -1) is the column itself.                    *)
(***************************************************************************)
EXTENDS Integers

CONSTANTS Pods,               \* executor pods
          NoPod,              \* NULL in leased_by and last_leased_by
          AttachSignatures,   \* signatures of attach failures
          MaxAttempts,        \* the max_attempts column
          SignatureThreshold  \* ATTACH_FAILURE_SIGNATURE_PARK_THRESHOLD

ASSUME RowConstants ==
    /\ NoPod \notin Pods
    /\ MaxAttempts \in Nat \ {0}
    /\ SignatureThreshold \in Nat \ {0}
    /\ AttachSignatures \cap {"none", "deterministic"} = {}

NullSeq == -1

Max2(a, b) == IF a >= b THEN a ELSE b

States == {"absent", "queued", "leased", "done", "parked"}
Signatures == AttachSignatures \cup {"none", "deterministic"}
Reasons == {"none", "reaper_max_attempts", "attach_failed", "refused",
            "executor", "workspace_recovery", "claim_loss_hold"}
Seqs == Nat \cup {NullSeq}

Row == [state : States, lease_token : Nat, leased_by : Pods \cup {NoPod},
        last_leased_by : Pods \cup {NoPod}, lapsed : BOOLEAN,
        ready : BOOLEAN, aged : BOOLEAN, priority : Nat,
        input_seq : Seqs, consumed_seq : Seqs,
        control_input_seq : Nat, control_consumed_seq : Nat,
        attempts : Nat, attach_failures : Nat, signature : Signatures,
        park_reason : Reasons, adm_token : Nat, adm_turn : Nat]

\* The column defaults of a row that does not exist yet.
NoRow == [state |-> "absent", lease_token |-> 0, leased_by |-> NoPod,
          last_leased_by |-> NoPod, lapsed |-> FALSE,
          ready |-> TRUE, aged |-> FALSE, priority |-> 0,
          input_seq |-> NullSeq, consumed_seq |-> NullSeq,
          control_input_seq |-> 0, control_consumed_seq |-> 0,
          attempts |-> 0, attach_failures |-> 0, signature |-> "none",
          park_reason |-> "none", adm_token |-> 0, adm_turn |-> 0]

Exists(r) == r.state /= "absent"

(***************************************************************************)
(* Admission.                                                              *)
(***************************************************************************)

\* Mutant: a row starts with no watermark.
BoundaryNull(s) == NullSeq

\* consumed_seq of a row created for input s: everything before s is the
\* thread's earlier life and is never answered again.  NULL - 1 is NULL.
Boundary(s) == IF s = NullSeq THEN NullSeq ELSE s - 1

Enqueue(r, prio, due, s) ==
    CASE r.state = "absent" ->
           [r EXCEPT !.state = "queued", !.priority = prio, !.ready = due,
                     !.input_seq = s, !.consumed_seq = Boundary(s)]
      [] r.state = "done" ->
           [r EXCEPT !.state = "queued", !.priority = Max2(@, prio),
                     !.ready = due, !.aged = FALSE, !.input_seq = Max2(@, s)]
      [] r.state = "queued" ->
           [r EXCEPT !.priority = Max2(@, prio), !.ready = @ \/ due,
                     !.input_seq = Max2(@, s)]
      [] OTHER -> [r EXCEPT !.input_seq = Max2(@, s)]

RecordInput(r, s) ==
    CASE r.state = "absent" ->
           [r EXCEPT !.state = "queued", !.input_seq = s,
                     !.consumed_seq = Boundary(s)]
      [] r.state = "done" ->
           [r EXCEPT !.state = "queued", !.ready = TRUE, !.aged = FALSE,
                     !.input_seq = Max2(@, s)]
      [] OTHER -> [r EXCEPT !.input_seq = Max2(@, s)]

\* baseline is the thread's newest human message, 0 if it has none.
RecordControl(r, k, baseline) ==
    IF r.state = "absent"
    THEN [r EXCEPT !.state = "queued", !.input_seq = baseline,
                   !.consumed_seq = baseline,
                   !.control_input_seq = k, !.control_consumed_seq = k - 1]
    ELSE [r EXCEPT
            !.control_input_seq = Max2(@, k),
            !.control_consumed_seq =
                IF r.control_input_seq = @ THEN Max2(@, k - 1) ELSE @,
            !.state = IF @ = "done" THEN "queued" ELSE @,
            !.ready = @ \/ r.state = "done",
            !.aged  = @ /\ r.state /= "done"]

(***************************************************************************)
(* The lease.                                                              *)
(***************************************************************************)

\* Mutant: the token is not compared.
LeasedByAnyone(r, t) == r.state = "leased"

\* WHERE lease_token = t AND state = 'leased': the guard of every fenced
\* statement, and the whole of the persist fence.
Leased(r, t) == r.state = "leased" /\ r.lease_token = t

\* The general claim's WHERE clause for pod p, and the affinity claim's.
Visible(r, p) ==
    /\ r.state = "queued" /\ r.ready
    /\ r.last_leased_by \in {NoPod, p} \/ r.aged
VisiblePreferred(r) == r.state = "queued" /\ r.ready

ClaimUpdateTail(r, p) ==
    [r EXCEPT !.state = "leased", !.lease_token = @ + 1, !.leased_by = p,
              !.last_leased_by = p, !.lapsed = FALSE, !.adm_token = 0,
              !.adm_turn = 0, !.attempts = @ + 1]

Heartbeat(r) == [r EXCEPT !.lapsed = FALSE]

\* Mutant: the interrupt window survives the lease.
EndLeaseKeepsWindow(r) ==
    [r EXCEPT !.leased_by = NoPod, !.lapsed = FALSE, !.aged = FALSE]

\* Mutant: the window's columns get the watermark's NULL.
EndLeaseBadNull(r) ==
    [r EXCEPT !.leased_by = NoPod, !.lapsed = FALSE, !.aged = FALSE,
              !.adm_token = 0, !.adm_turn = NullSeq]

\* SET clauses shared by every statement that ends a lease: the lease and
\* the interrupt window go, queued_at is now().
EndLease(r) ==
    [r EXCEPT !.leased_by = NoPod, !.lapsed = FALSE, !.aged = FALSE,
              !.adm_token = 0, !.adm_turn = 0]

\* Mutant: only the input watermark counts.
DebtInputOnly(r, consumed, owed) ==
    r.input_seq /= NullSeq /\ (consumed = NullSeq \/ r.input_seq > consumed)

\* Work that keeps a unit out of 'done': input beyond the watermark, a
\* control not yet consumed, or an event delivery not yet admitted.
Debt(r, consumed, owed) ==
    \/ r.input_seq /= NullSeq /\ (consumed = NullSeq \/ r.input_seq > consumed)
    \/ r.control_input_seq > r.control_consumed_seq
    \/ owed

\* Mutant: the watermark is assigned, not merged.
CompletePlain(r, c, owed) ==
    LET consumed == IF c = NullSeq THEN r.consumed_seq ELSE c
    IN  [EndLease(r) EXCEPT
           !.consumed_seq = consumed, !.attempts = 0, !.attach_failures = 0,
           !.signature = "none", !.ready = TRUE,
           !.state = IF Debt(r, consumed, owed) THEN "queued" ELSE "done"]

\* c = NullSeq leaves the watermark and re-queues any unit that has input.
Complete(r, c, owed) ==
    LET consumed == Max2(r.consumed_seq, c)
        answered == IF c = NullSeq THEN NullSeq ELSE consumed
    IN  [EndLease(r) EXCEPT
           !.consumed_seq = consumed, !.attempts = 0, !.attach_failures = 0,
           !.signature = "none", !.ready = TRUE,
           !.state = IF Debt(r, answered, owed) THEN "queued" ELSE "done"]

\* A released pod is not an affinity holder; due says the backoff is zero.
Release(r, due) ==
    [EndLease(r) EXCEPT !.state = "queued", !.last_leased_by = NoPod,
                        !.ready = due]

\* The failure record: a repeated signature counts on, a new one restarts.
NextFailures(r, sig) == IF r.signature = sig THEN r.attach_failures + 1 ELSE 1

ReleaseDeterministic(r) ==
    LET failures == NextFailures(r, "deterministic")
        park     == failures >= MaxAttempts
    IN  [EndLease(r) EXCEPT
           !.state = IF park THEN "parked" ELSE "queued",
           !.park_reason = IF park THEN "refused" ELSE @,
           !.last_leased_by = NoPod, !.ready = FALSE,
           !.attach_failures = failures, !.signature = "deterministic"]

RecordAttachFailure(r, sig) ==
    LET failures == NextFailures(r, sig)
        park     == r.attempts >= MaxAttempts \/ failures >= SignatureThreshold
    IN  [EndLease(r) EXCEPT
           !.state = IF park THEN "parked" ELSE "queued",
           !.park_reason = IF park THEN "attach_failed" ELSE @,
           !.last_leased_by = NoPod, !.ready = FALSE,
           !.attach_failures = failures, !.signature = sig]

\* A NULL reason ("none") keeps the one the row carries.
Park(r, reason) ==
    [EndLease(r) EXCEPT
       !.state = "parked", !.last_leased_by = NoPod, !.ready = TRUE,
       !.park_reason = IF reason = "none" THEN @ ELSE reason]

(***************************************************************************)
(* The interrupt admission window, a (lease, turn) pair on the row.        *)
(***************************************************************************)

OpenAllowed(r, t, turn) ==
    /\ Leased(r, t)
    /\ <<r.adm_token, r.adm_turn>> \in {<<0, 0>>, <<t, turn>>}

OpenInterrupt(r, t, turn) == [r EXCEPT !.adm_token = t, !.adm_turn = turn]

\* c is the checkpoint (NullSeq: none); exact says that c names the row of
\* this turn: the oldest unanswered human row, or an event admitted under t.
CloseAllowed(r, t, turn, c, exact) ==
    /\ Leased(r, t)
    /\ \/ /\ r.adm_token = t /\ r.adm_turn = turn
          /\ c = NullSeq \/ exact
       \/ /\ r.adm_token = 0
          /\ c = NullSeq \/ r.consumed_seq >= c

CloseInterrupt(r, c) ==
    [r EXCEPT !.adm_token = 0, !.adm_turn = 0,
              !.consumed_seq = Max2(@, c),
              !.attempts = IF c = NullSeq THEN @ ELSE 0]

(***************************************************************************)
(* Reaper, operator and recovery statements.                               *)
(***************************************************************************)

ReapCandidate(r) == r.state = "leased" /\ r.lapsed

\* due says that the backoff, computed from the attempts the candidate scan
\* read, is zero.
ReapSteal(r, due) ==
    LET park == r.attempts >= MaxAttempts
    IN  [EndLease(r) EXCEPT
           !.lease_token = @ + 1,
           !.state = IF park THEN "parked" ELSE "queued",
           !.park_reason = IF park THEN "reaper_max_attempts" ELSE @,
           !.last_leased_by = NoPod, !.ready = due]

\* Mutant: the failure record survives.
LiftParkKeepsRecord(r) ==
    [r EXCEPT !.attempts = 0, !.park_reason = "none", !.ready = TRUE,
              !.aged = FALSE]

\* SET clauses shared by the two ways an owner or operator lifts a park.
LiftPark(r) ==
    [r EXCEPT !.attempts = 0, !.attach_failures = 0, !.signature = "none",
              !.park_reason = "none", !.ready = TRUE, !.aged = FALSE]

Unpark(r) == [LiftPark(r) EXCEPT !.state = "queued"]

SettleParked(r, c, owed) ==
    LET consumed == Max2(r.consumed_seq, c)
    IN  [LiftPark(r) EXCEPT
           !.consumed_seq = consumed,
           !.state = IF Debt(r, consumed, owed) THEN "queued" ELSE "done"]

\* The input c of a stopped turn is consumed, under a running lease.
ConsumeStop(r, c) == [r EXCEPT !.consumed_seq = Max2(@, c), !.attempts = 0]

\* The same on a row nobody holds, which also decides whether the unit is
\* runnable.  Event deliveries are not looked at, and a park that ends this
\* way leaves its reason and the failure record in the row.
SettleStop(r, c) ==
    LET s == ConsumeStop(r, c) IN
    [s EXCEPT !.state = IF Debt(s, s.consumed_seq, FALSE) THEN "queued" ELSE "done",
              !.ready = TRUE, !.aged = FALSE, !.adm_token = 0, !.adm_turn = 0]

\* run_after = 'infinity': only the recovery's own release makes it ready.
ParkForRecovery(r, refund) ==
    [r EXCEPT !.state = "parked", !.lease_token = @ + 1,
              !.attempts = @ - refund, !.leased_by = NoPod,
              !.last_leased_by = NoPod, !.lapsed = FALSE, !.adm_token = 0,
              !.adm_turn = 0, !.ready = FALSE,
              !.park_reason = "workspace_recovery"]

HoldForRecovery(r) ==
    [ParkForRecovery(r, 0) EXCEPT
       !.park_reason = IF r.park_reason = "none" THEN @ ELSE r.park_reason]

ReleaseFromRecovery(r) ==
    [r EXCEPT !.state = "queued", !.ready = TRUE, !.aged = FALSE,
              !.park_reason = "none",
              !.input_seq = Max2(Max2(@, r.consumed_seq), 0) + 1]
=============================================================================
