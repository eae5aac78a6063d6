-------------------------- MODULE RunQueueRowsProofs --------------------------
(***************************************************************************)
(* What each statement of RunQueueRows does to a row: the result is a row, *)
(* and the lease is kept, granted, ended or moved on.                      *)
(***************************************************************************)
EXTENDS RunQueueRows, TLAPS

\* The statement leaves the lease alone: same token, same holder, and the
\* row is leased after it exactly if it was leased before.
SameLease(r, s) ==
    /\ s.lease_token = r.lease_token
    /\ s.leased_by = r.leased_by
    /\ s.state = "leased" <=> r.state = "leased"

\* The statement ends the lease and keeps the token.
EndsLease(r, s) == s.lease_token = r.lease_token /\ s.state /= "leased"

-----------------------------------------------------------------------------
(***************************************************************************)
(* Rows.                                                                   *)
(***************************************************************************)

\* The column values the statements write.
LEMMA ColumnValues ==
  /\ {"queued", "leased", "done", "parked"} \subseteq States
  /\ {"none", "deterministic"} \cup AttachSignatures \subseteq Signatures
  /\ {"none", "reaper_max_attempts", "attach_failed", "refused", "executor",
      "workspace_recovery"} \subseteq Reasons
  /\ NoPod \in Pods \cup {NoPod}
  /\ NullSeq \in Seqs /\ Nat \subseteq Seqs
BY DEF States, Signatures, Reasons, Seqs

\* Merging and initialising watermarks.
LEMMA MergeType ==
  /\ \A a, b \in Seqs : Max2(a, b) \in Seqs
  /\ \A a, b \in Nat : Max2(a, b) \in Nat
  /\ \A s \in Nat : Boundary(s) \in Seqs
BY DEF Max2, Seqs, NullSeq, Boundary

\* enqueue_unit never touches a lease.
LEMMA EnqueueRow ==
  ASSUME NEW r \in Row, NEW prio \in Nat, NEW due \in BOOLEAN, NEW s \in Nat
  PROVE  Enqueue(r, prio, due, s) \in Row /\ SameLease(r, Enqueue(r, prio, due, s))
<1>1. /\ s \in Seqs /\ Boundary(s) \in Seqs
      /\ Max2(r.input_seq, s) \in Seqs /\ Max2(r.priority, prio) \in Nat
      /\ (r.ready \/ due) \in BOOLEAN /\ "queued" \in States
  BY ColumnValues, MergeType DEF Row
<1>2. Enqueue(r, prio, due, s) \in Row
  <2>1. CASE r.state = "absent"
    BY <1>1, <2>1 DEF Enqueue, Row
  <2>2. CASE r.state = "done"
    BY <1>1, <2>2 DEF Enqueue, Row
  <2>3. CASE r.state = "queued"
    BY <1>1, <2>3 DEF Enqueue, Row
  <2>4. CASE r.state \notin {"absent", "done", "queued"}
    BY <1>1, <2>4 DEF Enqueue, Row
  <2> QED
    BY <2>1, <2>2, <2>3, <2>4
<1> QED
  BY <1>2 DEF Enqueue, Row, SameLease

\* record_input_seq never touches a lease (s is a real sequence number).
LEMMA RecordInputRow ==
  ASSUME NEW r \in Row, NEW s \in Nat
  PROVE  RecordInput(r, s) \in Row /\ SameLease(r, RecordInput(r, s))
<1>1. /\ s \in Seqs /\ Boundary(s) \in Seqs
      /\ Max2(r.input_seq, s) \in Seqs /\ "queued" \in States
  BY ColumnValues, MergeType DEF Row
<1>2. RecordInput(r, s) \in Row
  <2>1. CASE r.state = "absent"
    BY <1>1, <2>1 DEF RecordInput, Row
  <2>2. CASE r.state = "done"
    BY <1>1, <2>2 DEF RecordInput, Row
  <2>3. CASE r.state \notin {"absent", "done"}
    BY <1>1, <2>3 DEF RecordInput, Row
  <2> QED
    BY <2>1, <2>2, <2>3
<1> QED
  BY <1>2 DEF RecordInput, Row, SameLease

\* record_control_seq never touches a lease.
LEMMA RecordControlRow ==
  ASSUME NEW r \in Row, NEW k \in Nat \ {0}, NEW b \in Nat
  PROVE  RecordControl(r, k, b) \in Row /\ SameLease(r, RecordControl(r, k, b))
<1> DEFINE newest == Max2(r.control_input_seq, k)
           before == k - 1
           done == IF r.control_input_seq = r.control_consumed_seq
                     THEN Max2(r.control_consumed_seq, before)
                     ELSE r.control_consumed_seq
           next == IF r.state = "done" THEN "queued" ELSE r.state
           due == r.ready \/ r.state = "done"
           old == r.aged /\ r.state /= "done"
<1>1. r.control_input_seq \in Nat /\ r.control_consumed_seq \in Nat
  BY DEF Row
<1>2. k \in Nat /\ before \in Nat
  OBVIOUS
<1> HIDE DEF before
<1>3. newest \in Nat
  BY <1>1, <1>2, MergeType
<1>4. done \in Nat
  BY <1>1, <1>2, MergeType
<1>5. next \in States /\ (next = "leased" <=> r.state = "leased")
  BY ColumnValues DEF Row
<1>6. due \in BOOLEAN /\ old \in BOOLEAN
  OBVIOUS
<1>7. b \in Seqs /\ "queued" \in States
  BY ColumnValues
<1>8. CASE r.state = "absent"
  <2>1. RecordControl(r, k, b) =
          [r EXCEPT !.state = "queued", !.input_seq = b, !.consumed_seq = b,
                    !.control_input_seq = k, !.control_consumed_seq = before]
    BY <1>8 DEF RecordControl, before
  <2> HIDE DEF newest, done, next, due, old
  <2>2. RecordControl(r, k, b) \in Row
    BY <1>2, <1>7, <2>1, ZenonT(60) DEF Row
  <2> QED
    BY <1>8, <2>1, <2>2 DEF Row, SameLease
<1>9. CASE r.state /= "absent"
  <2>1. RecordControl(r, k, b) =
          [r EXCEPT !.control_input_seq = newest, !.control_consumed_seq = done,
                    !.state = next, !.ready = due, !.aged = old]
    BY <1>9 DEF RecordControl, before
  <2> HIDE DEF newest, done, next, due, old
  <2>2. RecordControl(r, k, b) \in Row
    BY <1>3, <1>4, <1>5, <1>6, <2>1, ZenonT(60) DEF Row
  <2> QED
    BY <1>5, <2>1, <2>2 DEF Row, SameLease
<1> QED
  BY <1>8, <1>9

\* A claim leases the row to the pod under the next token.
LEMMA ClaimRow ==
  ASSUME NEW r \in Row, NEW p \in Pods
  PROVE  /\ ClaimUpdateTail(r, p) \in Row
         /\ ClaimUpdateTail(r, p).state = "leased"
         /\ ClaimUpdateTail(r, p).leased_by = p
         /\ ClaimUpdateTail(r, p).lease_token = r.lease_token + 1
<1>1. /\ r.lease_token + 1 \in Nat /\ r.attempts + 1 \in Nat
      /\ p \in Pods \cup {NoPod} /\ "leased" \in States
  BY ColumnValues DEF Row
<1>2. ClaimUpdateTail(r, p) \in Row
  BY <1>1 DEF ClaimUpdateTail, Row
<1> QED
  BY <1>2 DEF ClaimUpdateTail, Row

\* Renewal, the interrupt window, a finalized control and the passing of
\* time keep the lease.
LEMMA RenewRow ==
  ASSUME NEW r \in Row
  PROVE  Heartbeat(r) \in Row /\ SameLease(r, Heartbeat(r))
BY DEF Heartbeat, Row, SameLease

\* open_interrupt_admission writes the window only.
LEMMA OpenInterruptRow ==
  ASSUME NEW r \in Row, NEW t \in Nat, NEW turn \in Nat
  PROVE  OpenInterrupt(r, t, turn) \in Row /\ SameLease(r, OpenInterrupt(r, t, turn))
BY DEF OpenInterrupt, Row, SameLease

\* close_interrupt_admission writes window, watermark and attempts only.
LEMMA CloseInterruptRow ==
  ASSUME NEW r \in Row, NEW c \in Seqs
  PROVE  CloseInterrupt(r, c) \in Row /\ SameLease(r, CloseInterrupt(r, c))
<1>1. /\ Max2(r.consumed_seq, c) \in Seqs
      /\ (IF c = NullSeq THEN r.attempts ELSE 0) \in Nat
  BY MergeType DEF Row
<1>2. CloseInterrupt(r, c) \in Row
  BY <1>1 DEF CloseInterrupt, Row
<1> QED
  BY <1>2 DEF CloseInterrupt, Row, SameLease

\* Finalizing a control writes its watermark only.
LEMMA FinalizeControlRow ==
  ASSUME NEW r \in Row
  PROVE  /\ [r EXCEPT !.control_consumed_seq = @ + 1] \in Row
         /\ SameLease(r, [r EXCEPT !.control_consumed_seq = @ + 1])
<1>1. r.control_consumed_seq + 1 \in Nat
  BY DEF Row
<1> QED
  BY <1>1 DEF Row, SameLease

\* Time changes what a WHERE clause sees of it, never the lease.
LEMMA TickRow ==
  ASSUME NEW r \in Row
  PROVE  /\ [r EXCEPT !.lapsed = TRUE] \in Row
         /\ SameLease(r, [r EXCEPT !.lapsed = TRUE])
         /\ [r EXCEPT !.ready = TRUE] \in Row
         /\ SameLease(r, [r EXCEPT !.ready = TRUE])
         /\ [r EXCEPT !.aged = TRUE] \in Row
         /\ SameLease(r, [r EXCEPT !.aged = TRUE])
BY DEF Row, SameLease

\* Every disposition ends the lease and keeps the token.
LEMMA EndLeaseRow ==
  ASSUME NEW r \in Row
  PROVE  EndLease(r) \in Row /\ EndLease(r).lease_token = r.lease_token
<1>1. EndLease(r) \in Row
  BY ColumnValues DEF EndLease, Row
<1> QED
  BY <1>1 DEF EndLease, Row

\* complete_unit, whatever the checkpoint.
LEMMA CompleteRow ==
  ASSUME NEW r \in Row, NEW c \in Seqs, NEW o \in BOOLEAN
  PROVE  Complete(r, c, o) \in Row /\ EndsLease(r, Complete(r, c, o))
<1> DEFINE consumed == Max2(r.consumed_seq, c)
           answered == IF c = NullSeq THEN NullSeq ELSE consumed
           next == IF Debt(r, answered, o) THEN "queued" ELSE "done"
           reset == [EndLease(r) EXCEPT !.consumed_seq = consumed,
                                        !.attempts = 0, !.attach_failures = 0]
<1>1. consumed \in Seqs
  BY MergeType DEF Row
<1>2. next \in States /\ next /= "leased" /\ "none" \in Signatures
  BY ColumnValues
<1>3. Complete(r, c, o) =
        [reset EXCEPT !.signature = "none", !.ready = TRUE, !.state = next]
  BY DEF Complete
<1> HIDE DEF consumed, next
<1>4. reset \in Row
  BY <1>1, EndLeaseRow, ZenonT(60) DEF Row
<1>5. reset.lease_token = r.lease_token
  BY <1>4, EndLeaseRow DEF Row
<1> HIDE DEF reset
<1>6. Complete(r, c, o) \in Row
  BY <1>2, <1>3, <1>4, ZenonT(60) DEF Row
<1> QED
  BY <1>2, <1>3, <1>4, <1>5, <1>6 DEF Row, EndsLease

\* release_unit without a failure record.
LEMMA ReleaseRow ==
  ASSUME NEW r \in Row, NEW due \in BOOLEAN
  PROVE  Release(r, due) \in Row /\ EndsLease(r, Release(r, due))
<1>1. Release(r, due) \in Row
  BY EndLeaseRow, ColumnValues, ZenonT(60) DEF Release, Row
<1> QED
  BY <1>1, EndLeaseRow DEF Release, Row, EndsLease

\* The failure record is a count.
LEMMA NextFailuresType ==
  ASSUME NEW r \in Row, NEW sig
  PROVE  NextFailures(r, sig) \in Nat
BY DEF NextFailures, Row

\* release_unit with a deterministic failure, parking or not.
LEMMA ReleaseDeterministicRow ==
  ASSUME NEW r \in Row
  PROVE  ReleaseDeterministic(r) \in Row /\ EndsLease(r, ReleaseDeterministic(r))
<1> DEFINE failures == NextFailures(r, "deterministic")
           next == IF failures >= MaxAttempts THEN "parked" ELSE "queued"
           reason == IF failures >= MaxAttempts THEN "refused"
                                                ELSE EndLease(r).park_reason
<1>1. /\ failures \in Nat /\ next \in States /\ next /= "leased"
      /\ reason \in Reasons /\ "deterministic" \in Signatures
  BY NextFailuresType, ColumnValues, EndLeaseRow DEF Row
<1>2. ReleaseDeterministic(r) = [EndLease(r) EXCEPT
           !.state = next, !.park_reason = reason, !.last_leased_by = NoPod,
           !.ready = FALSE, !.attach_failures = failures,
           !.signature = "deterministic"]
  BY DEF ReleaseDeterministic
<1> HIDE DEF failures, next, reason
<1>3. ReleaseDeterministic(r) \in Row
  BY <1>1, <1>2, EndLeaseRow, ColumnValues, ZenonT(60) DEF Row
<1> QED
  BY <1>1, <1>2, <1>3, EndLeaseRow DEF Row, EndsLease

\* record_attach_failure, parking or not.
LEMMA RecordAttachFailureRow ==
  ASSUME NEW r \in Row, NEW sig \in AttachSignatures
  PROVE  RecordAttachFailure(r, sig) \in Row /\ EndsLease(r, RecordAttachFailure(r, sig))
<1> DEFINE failures == NextFailures(r, sig)
           park == r.attempts >= MaxAttempts \/ failures >= SignatureThreshold
           next == IF park THEN "parked" ELSE "queued"
           reason == IF park THEN "attach_failed" ELSE EndLease(r).park_reason
<1>1. /\ failures \in Nat /\ next \in States /\ next /= "leased"
      /\ reason \in Reasons /\ sig \in Signatures
  BY NextFailuresType, ColumnValues, EndLeaseRow DEF Row
<1>2. RecordAttachFailure(r, sig) = [EndLease(r) EXCEPT
           !.state = next, !.park_reason = reason, !.last_leased_by = NoPod,
           !.ready = FALSE, !.attach_failures = failures, !.signature = sig]
  BY DEF RecordAttachFailure
<1> HIDE DEF failures, next, reason
<1>3. RecordAttachFailure(r, sig) \in Row
  BY <1>1, <1>2, EndLeaseRow, ColumnValues, ZenonT(60) DEF Row
<1> QED
  BY <1>1, <1>2, <1>3, EndLeaseRow DEF Row, EndsLease

\* park_unit, with a reason or without.
LEMMA ParkRow ==
  ASSUME NEW r \in Row, NEW reason \in {"none", "executor"}
  PROVE  Park(r, reason) \in Row /\ EndsLease(r, Park(r, reason))
<1>1. /\ (IF reason = "none" THEN EndLease(r).park_reason ELSE reason) \in Reasons
      /\ "parked" \in States
  BY EndLeaseRow, ColumnValues DEF Row
<1>2. Park(r, reason) \in Row
  BY <1>1, EndLeaseRow, ColumnValues, ZenonT(60) DEF Park, Row
<1> QED
  BY <1>2, EndLeaseRow DEF Park, Row, EndsLease

\* A steal ends the lease under the next token.
LEMMA ReapStealRow ==
  ASSUME NEW r \in Row, NEW due \in BOOLEAN
  PROVE  /\ ReapSteal(r, due) \in Row
         /\ ReapSteal(r, due).state /= "leased"
         /\ ReapSteal(r, due).lease_token = r.lease_token + 1
<1> DEFINE park == r.attempts >= MaxAttempts
           next == IF park THEN "parked" ELSE "queued"
           reason == IF park THEN "reaper_max_attempts" ELSE EndLease(r).park_reason
           token == EndLease(r).lease_token + 1
<1>1. /\ token \in Nat /\ next \in States /\ next /= "leased"
      /\ reason \in Reasons /\ token = r.lease_token + 1
  BY ColumnValues, EndLeaseRow DEF Row
<1>2. ReapSteal(r, due) = [EndLease(r) EXCEPT
           !.lease_token = token, !.state = next, !.park_reason = reason,
           !.last_leased_by = NoPod, !.ready = due]
  BY DEF ReapSteal
<1> HIDE DEF next, reason, token
<1>3. ReapSteal(r, due) \in Row
  BY <1>1, <1>2, EndLeaseRow, ColumnValues, ZenonT(60) DEF Row
<1> QED
  BY <1>1, <1>2, <1>3, EndLeaseRow DEF Row

\* Lifting a park starts no lease.
LEMMA LiftParkRow ==
  ASSUME NEW r \in Row
  PROVE  /\ LiftPark(r) \in Row
         /\ LiftPark(r).lease_token = r.lease_token
         /\ LiftPark(r).leased_by = r.leased_by
<1>1. LiftPark(r) \in Row
  BY ColumnValues DEF LiftPark, Row
<1> QED
  BY <1>1 DEF LiftPark, Row

\* unpark_unit.
LEMMA UnparkRow ==
  ASSUME NEW r \in Row, r.state = "parked"
  PROVE  Unpark(r) \in Row /\ SameLease(r, Unpark(r))
<1>1. Unpark(r) \in Row
  BY LiftParkRow, ColumnValues DEF Unpark, Row
<1> QED
  BY <1>1, LiftParkRow DEF Unpark, Row, SameLease

\* settle_parked_unit, whether work is left or not.
LEMMA SettleParkedRow ==
  ASSUME NEW r \in Row, r.state = "parked", NEW c \in Seqs, NEW o \in BOOLEAN
  PROVE  SettleParked(r, c, o) \in Row /\ SameLease(r, SettleParked(r, c, o))
<1> DEFINE consumed == Max2(r.consumed_seq, c)
           next == IF Debt(r, consumed, o) THEN "queued" ELSE "done"
<1>1. consumed \in Seqs /\ next \in States /\ next /= "leased"
  BY MergeType, ColumnValues DEF Row
<1>2. SettleParked(r, c, o) =
        [LiftPark(r) EXCEPT !.consumed_seq = consumed, !.state = next]
  BY DEF SettleParked
<1> HIDE DEF consumed, next
<1>3. SettleParked(r, c, o) \in Row
  BY <1>1, <1>2, LiftParkRow, ZenonT(60) DEF Row
<1> QED
  BY <1>1, <1>2, <1>3, LiftParkRow DEF Row, SameLease

\* A stop consumed in place keeps the lease; one settled on a row at rest
\* leaves it at rest.
LEMMA ConsumeStopRow ==
  ASSUME NEW r \in Row, NEW c \in Seqs
  PROVE  ConsumeStop(r, c) \in Row /\ SameLease(r, ConsumeStop(r, c))
<1>1. Max2(r.consumed_seq, c) \in Seqs
  BY MergeType DEF Row
<1>2. ConsumeStop(r, c) \in Row
  BY <1>1 DEF ConsumeStop, Row
<1> QED
  BY <1>2 DEF ConsumeStop, Row, SameLease

LEMMA SettleStopRow ==
  ASSUME NEW r \in Row, r.state /= "leased", NEW c \in Seqs
  PROVE  SettleStop(r, c) \in Row /\ SameLease(r, SettleStop(r, c))
<1> DEFINE s == ConsumeStop(r, c)
           next == IF Debt(s, s.consumed_seq, FALSE) THEN "queued" ELSE "done"
           moved == [s EXCEPT !.state = next]
           e == SettleStop(r, c)
<1>1. s \in Row /\ SameLease(r, s)
  BY ConsumeStopRow
<1>2. next \in States /\ next /= "leased"
  BY ColumnValues
<1>3. e = [moved EXCEPT !.ready = TRUE, !.aged = FALSE, !.adm_token = 0, !.adm_turn = 0]
  BY <1>1 DEF SettleStop, Row
<1>4. moved = [s EXCEPT !.state = next]
  OBVIOUS
<1> HIDE DEF s, next, moved, e
<1>5. moved \in Row /\ moved.state = next /\ moved.lease_token = s.lease_token
      /\ moved.leased_by = s.leased_by
  BY <1>1, <1>2, <1>4 DEF Row
<1>6. e \in Row /\ e.state = next /\ e.lease_token = moved.lease_token
      /\ e.leased_by = moved.leased_by
  BY <1>3, <1>5 DEF Row
<1>7. SameLease(r, e)
  BY <1>1, <1>2, <1>5, <1>6 DEF SameLease
<1> QED BY <1>6, <1>7 DEF e

\* A recovery hold parks the row under the next token.
LEMMA ParkForRecoveryRow ==
  ASSUME NEW r \in Row, NEW refund \in 0..1, refund <= r.attempts
  PROVE  /\ ParkForRecovery(r, refund) \in Row
         /\ ParkForRecovery(r, refund).state = "parked"
         /\ ParkForRecovery(r, refund).lease_token = r.lease_token + 1
<1>1. r.lease_token + 1 \in Nat /\ r.attempts - refund \in Nat
  BY DEF Row
<1>2. ParkForRecovery(r, refund) \in Row
  BY <1>1, ColumnValues DEF ParkForRecovery, Row
<1> QED
  BY <1>2 DEF ParkForRecovery, Row

\* A sibling is held in the same way, keeping an older reason.
LEMMA HoldForRecoveryRow ==
  ASSUME NEW r \in Row
  PROVE  /\ HoldForRecovery(r) \in Row
         /\ HoldForRecovery(r).state = "parked"
         /\ HoldForRecovery(r).lease_token = r.lease_token + 1
<1>1. /\ ParkForRecovery(r, 0) \in Row
      /\ ParkForRecovery(r, 0).state = "parked"
      /\ ParkForRecovery(r, 0).lease_token = r.lease_token + 1
  BY ParkForRecoveryRow DEF Row
<1>2. HoldForRecovery(r) \in Row
  BY <1>1 DEF HoldForRecovery, Row
<1> QED
  BY <1>1, <1>2 DEF HoldForRecovery, Row

\* The release re-queues it with input beyond the watermark.
LEMMA ReleaseFromRecoveryRow ==
  ASSUME NEW r \in Row, r.state = "parked"
  PROVE  ReleaseFromRecovery(r) \in Row /\ SameLease(r, ReleaseFromRecovery(r))
<1>1. Max2(Max2(r.input_seq, r.consumed_seq), 0) + 1 \in Seqs
  BY DEF Row, Max2, Seqs, NullSeq
<1>2. ReleaseFromRecovery(r) \in Row
  BY <1>1, ColumnValues DEF ReleaseFromRecovery, Row
<1> QED
  BY <1>2 DEF ReleaseFromRecovery, Row, SameLease
=============================================================================
