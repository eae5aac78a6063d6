------------------------- MODULE RunQueueRecordProofs -------------------------
(***************************************************************************)
(* What each statement of RunQueueRows records: watermarks, the interrupt  *)
(* window, the failure record and the park reason.  A statement keeps the  *)
(* row sound (Sound) and moves its counters forward (Forward).             *)
(***************************************************************************)
EXTENDS RunQueueRowsProofs

\* The failure record has reached its bound.
Exhausted(r) ==
    \/ r.signature = "deterministic" /\ r.attach_failures >= MaxAttempts
    \/ r.signature \in AttachSignatures /\ r.attach_failures >= SignatureThreshold

\* An exhausted record comes with the reason of the park it caused, or of a
\* later one; a recovery that finds no reason finds no such record either.
Explained(r) == Exhausted(r) => r.park_reason \notin {"none", "workspace_recovery"}

\* A reason belongs to a park: so it is with workers, and with sessions until
\* a stop is settled at rest.
Reasoned(r) == r.park_reason /= "none" => r.state = "parked"

\* A row by itself: it has the defaults until it exists, a lease has a token,
\* the window belongs to the lease, and the record is explained.
Sound(r) ==
    /\ r.state = "absent" => r = NoRow
    /\ r.state = "leased" => r.lease_token /= 0
    /\ (r.adm_token = 0) <=> (r.adm_turn = 0)
    /\ r.adm_token /= 0 => r.state = "leased" /\ r.adm_token = r.lease_token
    /\ (r.signature = "none") <=> (r.attach_failures = 0)
    /\ Explained(r)
    /\ r.consumed_seq <= r.input_seq
    /\ r.control_consumed_seq <= r.control_input_seq

\* Tokens and watermarks do not go back.
Forward(r, s) ==
    /\ s.lease_token >= r.lease_token
    /\ s.input_seq >= r.input_seq
    /\ s.consumed_seq >= r.consumed_seq
    /\ s.control_input_seq >= r.control_input_seq
    /\ s.control_consumed_seq >= r.control_consumed_seq

\* No input is recorded, no interrupt window is opened.
Closing(r, s) ==
    /\ s.input_seq = r.input_seq
    /\ s.adm_token \in {0, r.adm_token} /\ s.adm_turn \in {0, r.adm_turn}

\* A statement that takes no input and does not finish the unit.
Continues(r, s) ==
    /\ Sound(s) /\ Forward(r, s) /\ Closing(r, s) /\ s.state /= "done"
    /\ Reasoned(r) => Reasoned(s)

\* Nothing is owed: the condition of 'done'.
Settled(r, owes) ==
    /\ r.input_seq <= r.consumed_seq
    /\ r.control_input_seq <= r.control_consumed_seq
    /\ ~ owes

\* A statement that finishes the unit only when nothing is owed.
Settles(r, s, owes) ==
    /\ Sound(s) /\ Forward(r, s) /\ Closing(r, s)
    /\ s.state = "done" => Settled(s, owes)

\* And that takes the reason away with the park.
Finishes(r, s, owes) == Settles(r, s, owes) /\ (Reasoned(r) => Reasoned(s))

-----------------------------------------------------------------------------
(***************************************************************************)
(* Statements.                                                             *)
(***************************************************************************)

\* The larger of two numbers is at least each and at most a common bound.
LEMMA MaxFacts ==
  ASSUME NEW a \in Int, NEW b \in Int
  PROVE  /\ Max2(a, b) \in Int /\ Max2(a, b) >= a /\ Max2(a, b) >= b
         /\ Max2(a, b) \in {a, b}
BY DEF Max2

\* Numbers of a row.
LEMMA RowNumbers ==
  ASSUME NEW r \in Row
  PROVE  /\ r.input_seq \in Int /\ r.input_seq >= -1
         /\ r.consumed_seq \in Int /\ r.consumed_seq >= -1
         /\ r.lease_token \in Nat /\ r.attempts \in Nat /\ r.attach_failures \in Nat
         /\ r.control_input_seq \in Nat /\ r.control_consumed_seq \in Nat
BY DEF Row, Seqs, NullSeq

\* The thresholds, and the values a signature has.
LEMMA Thresholds ==
  /\ MaxAttempts \in Nat /\ MaxAttempts >= 1
  /\ SignatureThreshold \in Nat /\ SignatureThreshold >= 1
  /\ "none" \notin AttachSignatures /\ "deterministic" \notin AttachSignatures
BY RowConstants

\* A statement that writes neither lease, window, record, reason nor a smaller
\* watermark keeps the row sound.
LEMMA WatermarkSound ==
  ASSUME NEW r \in Row, Sound(r), NEW s \in Row,
         s.state /= "absent",
         s.state = r.state \/ (r.state \in {"absent", "done"} /\ s.state = "queued"),
         s.lease_token = r.lease_token, s.adm_token = r.adm_token,
         s.adm_turn = r.adm_turn, s.park_reason = r.park_reason,
         s.signature = r.signature, s.attach_failures = r.attach_failures,
         s.consumed_seq <= s.input_seq,
         s.control_consumed_seq <= s.control_input_seq
  PROVE  Sound(s)
BY DEF Sound, Explained, Exhausted

\* One that only adds input, and may revive the row.
LEMMA InputSound ==
  ASSUME NEW r \in Row, Sound(r), r.state /= "absent", NEW s \in Nat, NEW e \in Row,
         e.state = r.state \/ (r.state = "done" /\ e.state = "queued"),
         e.input_seq = Max2(r.input_seq, s), e.consumed_seq = r.consumed_seq,
         e.lease_token = r.lease_token, e.adm_token = r.adm_token,
         e.adm_turn = r.adm_turn, e.park_reason = r.park_reason,
         e.signature = r.signature, e.attach_failures = r.attach_failures,
         e.control_input_seq = r.control_input_seq,
         e.control_consumed_seq = r.control_consumed_seq
  PROVE  Sound(e) /\ Forward(r, e)
<1>1. e.input_seq \in Int /\ e.input_seq >= r.input_seq
  BY RowNumbers DEF Max2
<1>2. e.consumed_seq <= e.input_seq
  BY <1>1, RowNumbers DEF Sound
<1>3. Sound(e)
  BY <1>2, WatermarkSound DEF Sound
<1> QED
  BY <1>1, <1>3, RowNumbers DEF Forward

\* And one that creates it.
LEMMA CreateSound ==
  ASSUME NEW r \in Row, Sound(r), r.state = "absent", NEW e \in Row,
         e.state = "queued", e.consumed_seq <= e.input_seq,
         e.lease_token = r.lease_token, e.adm_token = r.adm_token,
         e.adm_turn = r.adm_turn, e.park_reason = r.park_reason,
         e.signature = r.signature, e.attach_failures = r.attach_failures,
         e.control_consumed_seq <= e.control_input_seq
  PROVE  Sound(e) /\ Forward(r, e)
<1>1. /\ r.input_seq = -1 /\ r.consumed_seq = -1
      /\ r.control_input_seq = 0 /\ r.control_consumed_seq = 0
  BY DEF Sound, NoRow, NullSeq
<1>2. Sound(e)
  BY WatermarkSound DEF Sound
<1> QED
  BY <1>1, <1>2, RowNumbers DEF Forward

\* enqueue_unit.
LEMMA EnqueueSound ==
  ASSUME NEW r \in Row, Sound(r), NEW prio \in Nat, NEW due \in BOOLEAN, NEW s \in Nat
  PROVE  /\ Sound(Enqueue(r, prio, due, s))
         /\ Forward(r, Enqueue(r, prio, due, s))
<1> DEFINE e == Enqueue(r, prio, due, s)
<1>1. e \in Row BY EnqueueRow
<1>2. CASE r.state = "absent"
  <2>1. e = [r EXCEPT !.state = "queued", !.priority = prio, !.ready = due,
                      !.input_seq = s, !.consumed_seq = Boundary(s)]
    BY <1>2 DEF Enqueue
  <2>2. r.control_consumed_seq <= r.control_input_seq /\ Boundary(s) <= s
    BY DEF Sound, Boundary, NullSeq
  <2> HIDE DEF e
  <2>3. /\ e.state = "queued" /\ e.input_seq = s /\ e.consumed_seq = Boundary(s)
        /\ e.lease_token = r.lease_token /\ e.adm_token = r.adm_token
        /\ e.adm_turn = r.adm_turn /\ e.park_reason = r.park_reason
        /\ e.signature = r.signature /\ e.attach_failures = r.attach_failures
        /\ e.control_input_seq = r.control_input_seq
        /\ e.control_consumed_seq = r.control_consumed_seq
    BY <2>1 DEF Row
  <2>4. Sound(e) /\ Forward(r, e)
    BY <1>1, <1>2, <2>2, <2>3, CreateSound
  <2> QED BY <2>4 DEF e
<1>3. CASE r.state = "done"
  <2>1. e = [r EXCEPT !.state = "queued", !.priority = Max2(@, prio), !.ready = due,
                      !.aged = FALSE, !.input_seq = Max2(@, s)]
    BY <1>3 DEF Enqueue
  <2> QED BY <1>1, <1>3, <2>1, InputSound DEF Row
<1>4. CASE r.state = "queued"
  <2>1. e = [r EXCEPT !.priority = Max2(@, prio), !.ready = @ \/ due,
                      !.input_seq = Max2(@, s)]
    BY <1>4 DEF Enqueue
  <2> QED BY <1>1, <1>4, <2>1, InputSound DEF Row
<1>5. CASE r.state \notin {"absent", "done", "queued"}
  <2>1. e = [r EXCEPT !.input_seq = Max2(@, s)]
    BY <1>5 DEF Enqueue
  <2> QED BY <1>1, <1>5, <2>1, InputSound DEF Row
<1> QED BY <1>2, <1>3, <1>4, <1>5

\* record_input_seq.
LEMMA RecordInputSound ==
  ASSUME NEW r \in Row, Sound(r), NEW s \in Nat
  PROVE  Sound(RecordInput(r, s)) /\ Forward(r, RecordInput(r, s))
<1> DEFINE e == RecordInput(r, s)
<1>1. e \in Row BY RecordInputRow
<1>2. CASE r.state = "absent"
  <2>1. e = [r EXCEPT !.state = "queued", !.input_seq = s,
                      !.consumed_seq = Boundary(s)]
    BY <1>2 DEF RecordInput
  <2>2. r.control_consumed_seq <= r.control_input_seq /\ Boundary(s) <= s
    BY DEF Sound, Boundary, NullSeq
  <2> QED BY <1>1, <1>2, <2>1, <2>2, CreateSound DEF Row
<1>3. CASE r.state = "done"
  <2>1. e = [r EXCEPT !.state = "queued", !.ready = TRUE, !.aged = FALSE,
                      !.input_seq = Max2(@, s)]
    BY <1>3 DEF RecordInput
  <2> QED BY <1>1, <1>3, <2>1, InputSound DEF Row
<1>4. CASE r.state \notin {"absent", "done"}
  <2>1. e = [r EXCEPT !.input_seq = Max2(@, s)]
    BY <1>4 DEF RecordInput
  <2> QED BY <1>1, <1>4, <2>1, InputSound DEF Row
<1> QED BY <1>2, <1>3, <1>4

\* record_control_seq.
LEMMA RecordControlSound ==
  ASSUME NEW r \in Row, Sound(r), NEW k \in Nat \ {0}, NEW b \in Nat
  PROVE  Sound(RecordControl(r, k, b)) /\ Forward(r, RecordControl(r, k, b))
<1> DEFINE e == RecordControl(r, k, b)
<1>1. e \in Row BY RecordControlRow
<1>2. CASE r.state = "absent"
  <2>1. e = [r EXCEPT !.state = "queued", !.input_seq = b, !.consumed_seq = b,
                      !.control_input_seq = k, !.control_consumed_seq = k - 1]
    BY <1>2 DEF RecordControl
  <2> HIDE DEF e
  <2>2. /\ e.state = "queued" /\ e.input_seq = b /\ e.consumed_seq = b
        /\ e.lease_token = r.lease_token /\ e.adm_token = r.adm_token
        /\ e.adm_turn = r.adm_turn /\ e.park_reason = r.park_reason
        /\ e.signature = r.signature /\ e.attach_failures = r.attach_failures
        /\ e.control_input_seq = k /\ e.control_consumed_seq = k - 1
    BY <2>1 DEF Row
  <2>3. e.consumed_seq <= e.input_seq /\ e.control_consumed_seq <= e.control_input_seq
    BY <2>2
  <2>4. Sound(e) /\ Forward(r, e)
    BY <1>1, <1>2, <2>2, <2>3, CreateSound DEF e
  <2> QED BY <2>4 DEF e
<1>3. CASE r.state /= "absent"
  <2> DEFINE newest == Max2(r.control_input_seq, k)
             past == IF r.control_input_seq = r.control_consumed_seq
                     THEN Max2(r.control_consumed_seq, k - 1)
                     ELSE r.control_consumed_seq
             next == IF r.state = "done" THEN "queued" ELSE r.state
             due == r.ready \/ r.state = "done"
             old == r.aged /\ r.state /= "done"
  <2>1. e = [r EXCEPT !.control_input_seq = newest, !.control_consumed_seq = past,
                      !.state = next, !.ready = due, !.aged = old]
    BY <1>3 DEF RecordControl
  <2>2. /\ newest >= r.control_input_seq /\ past >= r.control_consumed_seq
        /\ past <= newest
    BY RowNumbers DEF Sound, Max2
  <2>3. next = r.state \/ (r.state = "done" /\ next = "queued")
    OBVIOUS
  <2> HIDE DEF e, newest, past, next, due, old
  <2>4. /\ e.state = next /\ e.input_seq = r.input_seq
        /\ e.consumed_seq = r.consumed_seq
        /\ e.lease_token = r.lease_token /\ e.adm_token = r.adm_token
        /\ e.adm_turn = r.adm_turn /\ e.park_reason = r.park_reason
        /\ e.signature = r.signature /\ e.attach_failures = r.attach_failures
        /\ e.control_input_seq = newest /\ e.control_consumed_seq = past
    BY <2>1 DEF Row
  <2>5. e.consumed_seq <= e.input_seq /\ e.control_consumed_seq <= e.control_input_seq
    BY <2>2, <2>4 DEF Sound
  <2>6. e \in Row /\ e.state /= "absent"
    BY <1>1, <1>3, <2>3, <2>4 DEF e
  <2>7. Sound(e)
    BY <2>3, <2>4, <2>5, <2>6, WatermarkSound
  <2>8. Forward(r, e)
    BY <2>2, <2>4, RowNumbers DEF Forward
  <2> QED BY <2>7, <2>8 DEF e
<1> QED BY <1>2, <1>3

\* claim_unit: the token is new, the window is shut.
LEMMA ClaimSound ==
  ASSUME NEW r \in Row, Sound(r), r.state = "queued", NEW p \in Pods
  PROVE  Continues(r, ClaimUpdateTail(r, p))
<1> DEFINE e == ClaimUpdateTail(r, p)
<1>1. /\ e.state = "leased" /\ e.lease_token = r.lease_token + 1
      /\ e.adm_token = 0 /\ e.adm_turn = 0
      /\ e.park_reason = r.park_reason /\ e.signature = r.signature
      /\ e.attach_failures = r.attach_failures
      /\ e.input_seq = r.input_seq /\ e.consumed_seq = r.consumed_seq
      /\ e.control_input_seq = r.control_input_seq
      /\ e.control_consumed_seq = r.control_consumed_seq
  BY DEF ClaimUpdateTail, Row
<1> HIDE DEF e
<1>2. Continues(r, e)
  BY <1>1, RowNumbers
     DEF Continues, Closing, Sound, Forward, Explained, Exhausted, Reasoned
<1> QED BY <1>2 DEF e

\* heartbeat_unit and the passing of time.
LEMMA TickSound ==
  ASSUME NEW r \in Row, Sound(r), r.state \in {"queued", "leased"}, NEW e,
         \/ e = Heartbeat(r) \/ e = [r EXCEPT !.lapsed = TRUE]
         \/ e = [r EXCEPT !.ready = TRUE] \/ e = [r EXCEPT !.aged = TRUE]
  PROVE  Continues(r, e)
<1>1. e \in Row
  BY RenewRow, TickRow
<1>2. /\ e.state = r.state /\ e.lease_token = r.lease_token
      /\ e.adm_token = r.adm_token /\ e.adm_turn = r.adm_turn
      /\ e.park_reason = r.park_reason /\ e.signature = r.signature
      /\ e.attach_failures = r.attach_failures
      /\ e.input_seq = r.input_seq /\ e.consumed_seq = r.consumed_seq
      /\ e.control_input_seq = r.control_input_seq
      /\ e.control_consumed_seq = r.control_consumed_seq
  BY DEF Heartbeat, Row
<1> QED
  BY <1>1, <1>2, RowNumbers, WatermarkSound
     DEF Continues, Closing, Forward, Sound, Reasoned

\* open_interrupt_admission, under the row's token and for a real turn.
LEMMA OpenSound ==
  ASSUME NEW r \in Row, Sound(r), NEW t \in Nat, NEW turn \in Nat \ {0}, Leased(r, t)
  PROVE  Sound(OpenInterrupt(r, t, turn)) /\ Forward(r, OpenInterrupt(r, t, turn))
<1> DEFINE e == OpenInterrupt(r, t, turn)
<1>1. /\ e.state = r.state /\ e.lease_token = r.lease_token
      /\ e.adm_token = t /\ e.adm_turn = turn
      /\ e.park_reason = r.park_reason /\ e.signature = r.signature
      /\ e.attach_failures = r.attach_failures
      /\ e.input_seq = r.input_seq /\ e.consumed_seq = r.consumed_seq
      /\ e.control_input_seq = r.control_input_seq
      /\ e.control_consumed_seq = r.control_consumed_seq
  BY DEF OpenInterrupt, Row
<1> HIDE DEF e
<1>2. Sound(e) /\ Forward(r, e)
  BY <1>1, RowNumbers DEF Sound, Forward, Explained, Exhausted, Leased
<1> QED BY <1>2 DEF e

\* close_interrupt_admission, with a checkpoint of recorded input.
LEMMA CloseSound ==
  ASSUME NEW r \in Row, Sound(r), NEW c \in Seqs, c <= r.input_seq \/ c <= r.consumed_seq,
         r.state = "leased"
  PROVE  Continues(r, CloseInterrupt(r, c))
<1> DEFINE e == CloseInterrupt(r, c)
<1>1. /\ e.state = r.state /\ e.lease_token = r.lease_token
      /\ e.adm_token = 0 /\ e.adm_turn = 0
      /\ e.park_reason = r.park_reason /\ e.signature = r.signature
      /\ e.attach_failures = r.attach_failures
      /\ e.input_seq = r.input_seq /\ e.consumed_seq = Max2(r.consumed_seq, c)
      /\ e.control_input_seq = r.control_input_seq
      /\ e.control_consumed_seq = r.control_consumed_seq
  BY DEF CloseInterrupt, Row
<1> HIDE DEF e
<1>2. Max2(r.consumed_seq, c) >= r.consumed_seq /\ Max2(r.consumed_seq, c) <= r.input_seq
  BY RowNumbers DEF Max2, Sound, Seqs, NullSeq
<1>3. Continues(r, e)
  BY <1>1, <1>2, RowNumbers
     DEF Continues, Closing, Sound, Forward, Explained, Exhausted, Reasoned
<1> QED BY <1>3 DEF e

\* A control finalized.
LEMMA FinalizeSound ==
  ASSUME NEW r \in Row, Sound(r), r.state = "leased",
         r.control_consumed_seq < r.control_input_seq,
         NEW e, e = [r EXCEPT !.control_consumed_seq = @ + 1]
  PROVE  Continues(r, e)
<1>1. /\ e.state = r.state /\ e.lease_token = r.lease_token
      /\ e.adm_token = r.adm_token /\ e.adm_turn = r.adm_turn
      /\ e.park_reason = r.park_reason /\ e.signature = r.signature
      /\ e.attach_failures = r.attach_failures
      /\ e.input_seq = r.input_seq /\ e.consumed_seq = r.consumed_seq
      /\ e.control_input_seq = r.control_input_seq
      /\ e.control_consumed_seq = r.control_consumed_seq + 1
  BY DEF Row
<1>2. e \in Row
  BY FinalizeControlRow
<1>3. /\ e.state /= "absent" /\ e.consumed_seq <= e.input_seq
      /\ e.control_consumed_seq <= e.control_input_seq
  BY <1>1, RowNumbers DEF Sound
<1>4. Sound(e)
  BY <1>1, <1>2, <1>3, WatermarkSound
<1> QED
  BY <1>1, <1>4, RowNumbers DEF Continues, Closing, Forward, Reasoned

\* A statement that ends a lease leaves a row without window; what the park
\* and the record must agree on is left to each.
LEMMA EndSound ==
  ASSUME NEW r \in Row, Sound(r), NEW e \in Row,
         e.state \in {"queued", "done", "parked"},
         e.lease_token = r.lease_token \/ e.lease_token = r.lease_token + 1,
         e.adm_token = 0, e.adm_turn = 0,
         (e.signature = "none") <=> (e.attach_failures = 0),
         Explained(e),
         e.consumed_seq >= r.consumed_seq, e.consumed_seq <= e.input_seq,
         e.input_seq = r.input_seq,
         e.control_input_seq = r.control_input_seq,
         e.control_consumed_seq = r.control_consumed_seq
  PROVE  Sound(e) /\ Forward(r, e) /\ Closing(r, e)
BY RowNumbers DEF Sound, Forward, Closing

\* The columns EndLease leaves alone.
LEMMA EndLeaseKeeps ==
  ASSUME NEW r \in Row, NEW e, e = EndLease(r)
  PROVE  /\ e \in Row /\ e.adm_token = 0 /\ e.adm_turn = 0
         /\ e.lease_token = r.lease_token /\ e.attempts = r.attempts
         /\ e.park_reason = r.park_reason /\ e.signature = r.signature
         /\ e.attach_failures = r.attach_failures
         /\ e.input_seq = r.input_seq /\ e.consumed_seq = r.consumed_seq
         /\ e.control_input_seq = r.control_input_seq
         /\ e.control_consumed_seq = r.control_consumed_seq
BY EndLeaseRow DEF EndLease, Row

\* complete_unit: the record is cleared, the watermark stays behind the input.
LEMMA CompleteSound ==
  ASSUME NEW r \in Row, Sound(r), r.state = "leased",
         NEW c \in Seqs, c <= r.input_seq, NEW o \in BOOLEAN
  PROVE  Finishes(r, Complete(r, c, o), o)
<1> DEFINE e == Complete(r, c, o)
           base == EndLease(r)
           consumed == Max2(r.consumed_seq, c)
           next == IF Debt(r, IF c = NullSeq THEN NullSeq ELSE consumed, o)
                   THEN "queued" ELSE "done"
<1>1. e = [base EXCEPT !.consumed_seq = consumed, !.attempts = 0,
                       !.attach_failures = 0, !.signature = "none", !.ready = TRUE,
                       !.state = next]
  BY DEF Complete
<1>2. consumed >= r.consumed_seq /\ consumed <= r.input_seq
  BY RowNumbers DEF Max2, Sound, Seqs, NullSeq
<1>3. /\ next \in {"queued", "done"}
      /\ next = "done" => /\ r.input_seq <= consumed
                          /\ r.control_input_seq <= r.control_consumed_seq
                          /\ ~ o
  BY RowNumbers DEF Debt, NullSeq, Max2, Seqs
<1>4. e \in Row
  BY CompleteRow
<1>5. /\ base \in Row /\ base.adm_token = 0 /\ base.adm_turn = 0
      /\ base.lease_token = r.lease_token /\ base.park_reason = r.park_reason
      /\ base.input_seq = r.input_seq
      /\ base.control_input_seq = r.control_input_seq
      /\ base.control_consumed_seq = r.control_consumed_seq
  BY EndLeaseKeeps
<1> HIDE DEF e, base, consumed, next
<1>6. /\ e.state = next /\ e.lease_token = r.lease_token
      /\ e.adm_token = 0 /\ e.adm_turn = 0 /\ e.park_reason = r.park_reason
      /\ e.signature = "none" /\ e.attach_failures = 0
      /\ e.input_seq = r.input_seq /\ e.consumed_seq = consumed
      /\ e.control_input_seq = r.control_input_seq
      /\ e.control_consumed_seq = r.control_consumed_seq
  BY <1>1, <1>5 DEF Row
<1>7. Explained(e)
  BY <1>6, Thresholds DEF Explained, Exhausted
<1>8. Sound(e) /\ Forward(r, e) /\ Closing(r, e)
  BY <1>2, <1>3, <1>4, <1>6, <1>7, EndSound
<1>9. Finishes(r, e, o)
  BY <1>3, <1>6, <1>8 DEF Finishes, Settles, Settled, Reasoned
<1> QED BY <1>9 DEF e

\* release_unit: the record stays as it is.
LEMMA ReleaseSound ==
  ASSUME NEW r \in Row, Sound(r), r.state = "leased", NEW due \in BOOLEAN
  PROVE  Continues(r, Release(r, due))
<1> DEFINE e == Release(r, due)
           base == EndLease(r)
<1>1. e = [base EXCEPT !.state = "queued", !.last_leased_by = NoPod, !.ready = due]
  BY DEF Release
<1>2. e \in Row
  BY ReleaseRow
<1>3. /\ base \in Row /\ base.adm_token = 0 /\ base.adm_turn = 0
      /\ base.lease_token = r.lease_token /\ base.park_reason = r.park_reason
      /\ base.signature = r.signature /\ base.attach_failures = r.attach_failures
      /\ base.input_seq = r.input_seq /\ base.consumed_seq = r.consumed_seq
      /\ base.control_input_seq = r.control_input_seq
      /\ base.control_consumed_seq = r.control_consumed_seq
  BY EndLeaseKeeps
<1> HIDE DEF e, base
<1>4. /\ e.state = "queued" /\ e.lease_token = r.lease_token
      /\ e.adm_token = 0 /\ e.adm_turn = 0 /\ e.park_reason = r.park_reason
      /\ e.signature = r.signature /\ e.attach_failures = r.attach_failures
      /\ e.input_seq = r.input_seq /\ e.consumed_seq = r.consumed_seq
      /\ e.control_input_seq = r.control_input_seq
      /\ e.control_consumed_seq = r.control_consumed_seq
  BY <1>1, <1>3 DEF Row
<1>5. Explained(e)
  BY <1>4 DEF Sound, Explained, Exhausted
<1>6. Continues(r, e)
  BY <1>2, <1>4, <1>5, RowNumbers, EndSound DEF Continues, Sound, Reasoned
<1> QED BY <1>6 DEF e

\* One statement of the shape: the lease ends and the failure record counts on.
LEMMA FailureSound ==
  ASSUME NEW r \in Row, Sound(r), r.state = "leased",
         NEW sig \in Signatures \ {"none"}, NEW park \in BOOLEAN,
         NEW reason \in {"refused", "attach_failed"},
         NEW e \in Row, NEW f \in Nat \ {0},
         sig = "deterministic" /\ f >= MaxAttempts => park,
         sig \in AttachSignatures /\ f >= SignatureThreshold => park,
         e = [EndLease(r) EXCEPT
                !.state = IF park THEN "parked" ELSE "queued",
                !.park_reason = IF park THEN reason ELSE @,
                !.last_leased_by = NoPod, !.ready = FALSE,
                !.attach_failures = f, !.signature = sig]
  PROVE  Continues(r, e)
<1> DEFINE base == EndLease(r)
           next == IF park THEN "parked" ELSE "queued"
           why == IF park THEN reason ELSE base.park_reason
<1>1. /\ base \in Row /\ base.adm_token = 0 /\ base.adm_turn = 0
      /\ base.lease_token = r.lease_token /\ base.park_reason = r.park_reason
      /\ base.input_seq = r.input_seq /\ base.consumed_seq = r.consumed_seq
      /\ base.control_input_seq = r.control_input_seq
      /\ base.control_consumed_seq = r.control_consumed_seq
  BY EndLeaseKeeps
<1>2. e = [base EXCEPT !.state = next, !.park_reason = why,
                       !.last_leased_by = NoPod, !.ready = FALSE,
                       !.attach_failures = f, !.signature = sig]
  OBVIOUS
<1>3. /\ next \in {"queued", "parked"} /\ (park <=> next = "parked")
      /\ (park => why = reason) /\ (~ park => why = r.park_reason)
  BY <1>1
<1> HIDE DEF base, next, why
<1>4. /\ e.state = next /\ e.lease_token = r.lease_token
      /\ e.adm_token = 0 /\ e.adm_turn = 0 /\ e.park_reason = why
      /\ e.signature = sig /\ e.attach_failures = f
      /\ e.input_seq = r.input_seq /\ e.consumed_seq = r.consumed_seq
      /\ e.control_input_seq = r.control_input_seq
      /\ e.control_consumed_seq = r.control_consumed_seq
  BY <1>1, <1>2 DEF Row
<1>5. Explained(e)
  BY <1>3, <1>4 DEF Explained, Exhausted
<1>6. Reasoned(r) => Reasoned(e)
  BY <1>3, <1>4 DEF Reasoned
<1>7. (e.signature = "none") <=> (e.attach_failures = 0)
  BY <1>4
<1>8. e.consumed_seq >= r.consumed_seq /\ e.consumed_seq <= e.input_seq
  BY <1>4, RowNumbers DEF Sound
<1> QED
  BY <1>3, <1>4, <1>5, <1>6, <1>7, <1>8, EndSound DEF Continues

\* The count of a failure starts at one.
LEMMA FailuresCount ==
  ASSUME NEW r \in Row, NEW sig
  PROVE  NextFailures(r, sig) \in Nat \ {0}
BY DEF NextFailures, Row

\* release_unit with a deterministic failure parks when the record is full.
LEMMA DeterministicSound ==
  ASSUME NEW r \in Row, Sound(r), r.state = "leased"
  PROVE  Continues(r, ReleaseDeterministic(r))
<1> DEFINE e == ReleaseDeterministic(r)
           f == NextFailures(r, "deterministic")
           park == f >= MaxAttempts
<1>1. e = [EndLease(r) EXCEPT
             !.state = IF park THEN "parked" ELSE "queued",
             !.park_reason = IF park THEN "refused" ELSE @,
             !.last_leased_by = NoPod, !.ready = FALSE,
             !.attach_failures = f, !.signature = "deterministic"]
  BY DEF ReleaseDeterministic
<1>2. /\ e \in Row /\ f \in Nat \ {0} /\ park \in BOOLEAN
      /\ "deterministic" \in Signatures \ {"none"}
      /\ "deterministic" \notin AttachSignatures
  BY ReleaseDeterministicRow, FailuresCount, ColumnValues, Thresholds
<1>3. f >= MaxAttempts => park
  OBVIOUS
<1> HIDE DEF e, f, park
<1>4. Continues(r, e)
  BY <1>1, <1>2, <1>3, FailureSound
<1> QED BY <1>4 DEF e

\* record_attach_failure parks at the threshold of its signature.
LEMMA AttachFailureSound ==
  ASSUME NEW r \in Row, Sound(r), r.state = "leased", NEW sig \in AttachSignatures
  PROVE  Continues(r, RecordAttachFailure(r, sig))
<1> DEFINE e == RecordAttachFailure(r, sig)
           f == NextFailures(r, sig)
           park == r.attempts >= MaxAttempts \/ f >= SignatureThreshold
<1>1. e = [EndLease(r) EXCEPT
             !.state = IF park THEN "parked" ELSE "queued",
             !.park_reason = IF park THEN "attach_failed" ELSE @,
             !.last_leased_by = NoPod, !.ready = FALSE,
             !.attach_failures = f, !.signature = sig]
  BY DEF RecordAttachFailure
<1>2. /\ e \in Row /\ f \in Nat \ {0} /\ park \in BOOLEAN
      /\ sig \in Signatures \ {"none"} /\ sig /= "deterministic"
  BY RecordAttachFailureRow, FailuresCount, ColumnValues, Thresholds
<1>3. f >= SignatureThreshold => park
  OBVIOUS
<1> HIDE DEF e, f, park
<1>4. Continues(r, e)
  BY <1>1, <1>2, <1>3, FailureSound
<1> QED BY <1>4 DEF e

\* park_unit keeps the record, and a reason unless it has its own.
LEMMA ParkSound ==
  ASSUME NEW r \in Row, Sound(r), r.state = "leased", NEW reason \in {"none", "executor"}
  PROVE  Continues(r, Park(r, reason))
<1> DEFINE e == Park(r, reason)
           base == EndLease(r)
           why == IF reason = "none" THEN base.park_reason ELSE reason
<1>1. e = [base EXCEPT !.state = "parked", !.last_leased_by = NoPod,
                       !.ready = TRUE, !.park_reason = why]
  BY DEF Park
<1>2. e \in Row
  BY ParkRow
<1>3. /\ base \in Row /\ base.adm_token = 0 /\ base.adm_turn = 0
      /\ base.lease_token = r.lease_token /\ base.park_reason = r.park_reason
      /\ base.signature = r.signature /\ base.attach_failures = r.attach_failures
      /\ base.input_seq = r.input_seq /\ base.consumed_seq = r.consumed_seq
      /\ base.control_input_seq = r.control_input_seq
      /\ base.control_consumed_seq = r.control_consumed_seq
  BY EndLeaseKeeps
<1>a. why \in {"executor", r.park_reason}
  BY <1>3
<1> HIDE DEF e, base, why
<1>4. /\ e.state = "parked" /\ e.lease_token = r.lease_token /\ e.park_reason = why
      /\ e.adm_token = 0 /\ e.adm_turn = 0
      /\ e.signature = r.signature /\ e.attach_failures = r.attach_failures
      /\ e.input_seq = r.input_seq /\ e.consumed_seq = r.consumed_seq
      /\ e.control_input_seq = r.control_input_seq
      /\ e.control_consumed_seq = r.control_consumed_seq
  BY <1>1, <1>3 DEF Row
<1>5. Explained(e)
  BY <1>a, <1>4 DEF Sound, Explained, Exhausted
<1>6. Continues(r, e)
  BY <1>2, <1>4, <1>5, RowNumbers, EndSound DEF Continues, Sound, Reasoned
<1> QED BY <1>6 DEF e

\* A steal keeps the record, and the watermark.
LEMMA StealSound ==
  ASSUME NEW r \in Row, Sound(r), r.state = "leased", NEW due \in BOOLEAN
  PROVE  /\ Continues(r, ReapSteal(r, due))
         /\ ReapSteal(r, due).state \in {"queued", "parked"}
         /\ ReapSteal(r, due).consumed_seq = r.consumed_seq
<1> DEFINE e == ReapSteal(r, due)
           base == EndLease(r)
           park == r.attempts >= MaxAttempts
           next == IF park THEN "parked" ELSE "queued"
           why == IF park THEN "reaper_max_attempts" ELSE base.park_reason
           token == base.lease_token + 1
<1>1. e = [base EXCEPT !.lease_token = token, !.state = next,
                       !.park_reason = why, !.last_leased_by = NoPod, !.ready = due]
  BY DEF ReapSteal
<1>2. e \in Row
  BY ReapStealRow
<1>3. /\ base \in Row /\ base.adm_token = 0 /\ base.adm_turn = 0
      /\ base.lease_token = r.lease_token /\ base.park_reason = r.park_reason
      /\ base.signature = r.signature /\ base.attach_failures = r.attach_failures
      /\ base.input_seq = r.input_seq /\ base.consumed_seq = r.consumed_seq
      /\ base.control_input_seq = r.control_input_seq
      /\ base.control_consumed_seq = r.control_consumed_seq
  BY EndLeaseKeeps
<1>4. /\ next \in {"queued", "parked"} /\ token = r.lease_token + 1
      /\ why = r.park_reason \/ (why = "reaper_max_attempts" /\ next = "parked")
  BY <1>3
<1> HIDE DEF e, base, park, next, why, token
<1>5. /\ e.state = next /\ e.lease_token = token /\ e.park_reason = why
      /\ e.adm_token = 0 /\ e.adm_turn = 0
      /\ e.signature = r.signature /\ e.attach_failures = r.attach_failures
      /\ e.input_seq = r.input_seq /\ e.consumed_seq = r.consumed_seq
      /\ e.control_input_seq = r.control_input_seq
      /\ e.control_consumed_seq = r.control_consumed_seq
  BY <1>1, <1>3 DEF Row
<1>6. Explained(e)
  BY <1>4, <1>5 DEF Sound, Explained, Exhausted
<1>7. Continues(r, e)
  BY <1>2, <1>4, <1>5, <1>6, RowNumbers, EndSound DEF Continues, Sound, Reasoned
<1> QED BY <1>4, <1>5, <1>7 DEF e

\* What LiftPark resets, and what it keeps.
LEMMA LiftParkKeeps ==
  ASSUME NEW r \in Row, Sound(r), r.state = "parked", NEW e, e = LiftPark(r)
  PROVE  /\ e \in Row /\ e.adm_token = 0 /\ e.adm_turn = 0
         /\ e.lease_token = r.lease_token /\ e.park_reason = "none"
         /\ e.signature = "none" /\ e.attach_failures = 0
         /\ e.input_seq = r.input_seq /\ e.consumed_seq = r.consumed_seq
         /\ e.control_input_seq = r.control_input_seq
         /\ e.control_consumed_seq = r.control_consumed_seq
<1>1. r.adm_token = 0 /\ r.adm_turn = 0
  BY DEF Sound
<1> QED
  BY <1>1, LiftParkRow DEF LiftPark, Row

\* unpark_unit clears the record with the reason.
LEMMA UnparkSound ==
  ASSUME NEW r \in Row, Sound(r), r.state = "parked"
  PROVE  Continues(r, Unpark(r))
<1> DEFINE e == Unpark(r)
           base == LiftPark(r)
<1>1. e = [base EXCEPT !.state = "queued"] /\ e \in Row
  BY UnparkRow DEF Unpark
<1>2. /\ base \in Row /\ base.adm_token = 0 /\ base.adm_turn = 0
      /\ base.lease_token = r.lease_token /\ base.park_reason = "none"
      /\ base.signature = "none" /\ base.attach_failures = 0
      /\ base.input_seq = r.input_seq /\ base.consumed_seq = r.consumed_seq
      /\ base.control_input_seq = r.control_input_seq
      /\ base.control_consumed_seq = r.control_consumed_seq
  BY LiftParkKeeps
<1> HIDE DEF e, base
<1>3. /\ e.state = "queued" /\ e.lease_token = r.lease_token
      /\ e.adm_token = 0 /\ e.adm_turn = 0 /\ e.park_reason = "none"
      /\ e.signature = "none" /\ e.attach_failures = 0
      /\ e.input_seq = r.input_seq /\ e.consumed_seq = r.consumed_seq
      /\ e.control_input_seq = r.control_input_seq
      /\ e.control_consumed_seq = r.control_consumed_seq
  BY <1>1, <1>2 DEF Row
<1>4. Explained(e)
  BY <1>3, Thresholds DEF Explained, Exhausted
<1>5. e.consumed_seq >= r.consumed_seq /\ e.consumed_seq <= e.input_seq
  BY <1>3, RowNumbers DEF Sound
<1>6. Continues(r, e)
  BY <1>1, <1>3, <1>4, <1>5, EndSound DEF Continues, Reasoned
<1> QED BY <1>6 DEF e

\* settle_parked_unit also merges a watermark of recorded input.
LEMMA SettleSound ==
  ASSUME NEW r \in Row, Sound(r), r.state = "parked",
         NEW c \in Seqs, c <= r.input_seq, NEW o \in BOOLEAN
  PROVE  Finishes(r, SettleParked(r, c, o), o)
<1> DEFINE e == SettleParked(r, c, o)
           base == LiftPark(r)
           consumed == Max2(r.consumed_seq, c)
           next == IF Debt(r, consumed, o) THEN "queued" ELSE "done"
<1>1. e = [base EXCEPT !.consumed_seq = consumed, !.state = next] /\ e \in Row
  BY SettleParkedRow DEF SettleParked
<1>2. /\ base \in Row /\ base.adm_token = 0 /\ base.adm_turn = 0
      /\ base.lease_token = r.lease_token /\ base.park_reason = "none"
      /\ base.signature = "none" /\ base.attach_failures = 0
      /\ base.input_seq = r.input_seq
      /\ base.control_input_seq = r.control_input_seq
      /\ base.control_consumed_seq = r.control_consumed_seq
  BY LiftParkKeeps
<1>3. consumed >= r.consumed_seq /\ consumed <= r.input_seq
  BY RowNumbers DEF Max2, Sound, Seqs, NullSeq
<1>4. /\ next \in {"queued", "done"}
      /\ next = "done" => /\ r.input_seq <= consumed
                          /\ r.control_input_seq <= r.control_consumed_seq
                          /\ ~ o
  BY RowNumbers DEF Debt, NullSeq, Max2, Seqs
<1> HIDE DEF e, base, consumed, next
<1>5. /\ e.state = next /\ e.lease_token = r.lease_token
      /\ e.adm_token = 0 /\ e.adm_turn = 0 /\ e.park_reason = "none"
      /\ e.signature = "none" /\ e.attach_failures = 0
      /\ e.input_seq = r.input_seq /\ e.consumed_seq = consumed
      /\ e.control_input_seq = r.control_input_seq
      /\ e.control_consumed_seq = r.control_consumed_seq
  BY <1>1, <1>2 DEF Row
<1>6. Explained(e)
  BY <1>5, Thresholds DEF Explained, Exhausted
<1>7. Sound(e) /\ Forward(r, e) /\ Closing(r, e)
  BY <1>1, <1>3, <1>4, <1>5, <1>6, EndSound
<1>8. Finishes(r, e, o)
  BY <1>4, <1>5, <1>7 DEF Finishes, Settles, Settled, Reasoned
<1> QED BY <1>8 DEF e

\* A recovery parks under its own reason, unless the record or an operator gave
\* one before: that one stays, and with it what an exhausted record demands.
LEMMA HoldSound ==
  ASSUME NEW r \in Row, Sound(r), Reasoned(r), r.state /= "absent", NEW e \in Row,
         \/ /\ r.state = "leased"
            /\ \E refund \in 0..1 :
                  refund <= r.attempts /\ e = ParkForRecovery(r, refund)
         \/ e = HoldForRecovery(r)
  PROVE  Continues(r, e)
<1> DEFINE Held(h) ==
      /\ h.state = "parked" /\ h.lease_token = r.lease_token + 1
      /\ h.adm_token = 0 /\ h.adm_turn = 0
      /\ h.signature = r.signature /\ h.attach_failures = r.attach_failures
      /\ h.input_seq = r.input_seq /\ h.consumed_seq = r.consumed_seq
      /\ h.control_input_seq = r.control_input_seq
      /\ h.control_consumed_seq = r.control_consumed_seq
<1>a. ASSUME NEW refund \in 0..1, refund <= r.attempts
      PROVE  Held(ParkForRecovery(r, refund))
  <2> DEFINE h == ParkForRecovery(r, refund)
  <2>1. h.state = "parked" /\ h.lease_token = r.lease_token + 1
    BY DEF ParkForRecovery, Row
  <2>2. h.adm_token = 0 /\ h.adm_turn = 0
    BY DEF ParkForRecovery, Row
  <2>3. h.signature = r.signature /\ h.attach_failures = r.attach_failures
    BY DEF ParkForRecovery, Row
  <2>4. h.input_seq = r.input_seq /\ h.consumed_seq = r.consumed_seq
    BY DEF ParkForRecovery, Row
  <2>5. /\ h.control_input_seq = r.control_input_seq
        /\ h.control_consumed_seq = r.control_consumed_seq
    BY DEF ParkForRecovery, Row
  <2> QED
    BY <2>1, <2>2, <2>3, <2>4, <2>5
<1>b. Held(HoldForRecovery(r))
  <2> DEFINE p == ParkForRecovery(r, 0)
             why == IF r.park_reason = "none" THEN p.park_reason ELSE r.park_reason
  <2>1. p \in Row /\ Held(p)
    BY <1>a, ParkForRecoveryRow, RowNumbers
  <2>2. HoldForRecovery(r) = [p EXCEPT !.park_reason = why]
    BY DEF HoldForRecovery
  <2> HIDE DEF p, why
  <2> QED
    BY <2>1, <2>2 DEF Row
<1>1. Held(e)
  BY <1>a, <1>b
<1>2. r.park_reason /= "none" => e.park_reason = r.park_reason
  BY DEF Reasoned, ParkForRecovery, HoldForRecovery, Row
<1>3. Explained(e)
  BY <1>1, <1>2 DEF Explained, Exhausted, Sound
<1>4. /\ Reasoned(e)
      /\ (e.signature = "none") <=> (e.attach_failures = 0)
      /\ e.consumed_seq >= r.consumed_seq /\ e.consumed_seq <= e.input_seq
  BY <1>1, RowNumbers DEF Sound, Reasoned
<1> QED
  BY <1>1, <1>3, <1>4, EndSound DEF Continues

\* The end of a recovery gives the unit input to answer; a park of another
\* cause, and with it an exhausted record, is not lifted.
LEMMA RecoveredSound ==
  ASSUME NEW r \in Row, Sound(r), r.state = "parked",
         r.park_reason = "workspace_recovery"
  PROVE  /\ Sound(ReleaseFromRecovery(r)) /\ Forward(r, ReleaseFromRecovery(r))
         /\ Reasoned(ReleaseFromRecovery(r))
<1> DEFINE e == ReleaseFromRecovery(r)
           seq == Max2(Max2(r.input_seq, r.consumed_seq), 0) + 1
<1>1. e = [r EXCEPT !.state = "queued", !.ready = TRUE, !.aged = FALSE,
                    !.park_reason = "none", !.input_seq = seq]
  BY DEF ReleaseFromRecovery
<1>2. seq >= r.input_seq /\ r.consumed_seq <= seq
  BY RowNumbers DEF Max2
<1>3. e \in Row
  BY ReleaseFromRecoveryRow
<1> HIDE DEF e, seq
<1>4. /\ e.state = "queued" /\ e.lease_token = r.lease_token
      /\ e.park_reason = "none" /\ e.input_seq = seq
      /\ e.adm_token = r.adm_token /\ e.adm_turn = r.adm_turn
      /\ e.signature = r.signature /\ e.attach_failures = r.attach_failures
      /\ e.consumed_seq = r.consumed_seq
      /\ e.control_input_seq = r.control_input_seq
      /\ e.control_consumed_seq = r.control_consumed_seq
  BY <1>1, <1>3 DEF Row
<1>5. Sound(e)
  BY <1>2, <1>4 DEF Sound, Explained, Exhausted
<1> QED
  BY <1>2, <1>4, <1>5, RowNumbers DEF Forward, Reasoned, e

-----------------------------------------------------------------------------
(***************************************************************************)
(* Stops.                                                                  *)
(***************************************************************************)

\* The watermark of a settled stop stays behind the input.
LEMMA StopMark ==
  ASSUME NEW r \in Row, Sound(r), NEW c \in Nat, c <= r.input_seq
  PROVE  /\ Max2(r.consumed_seq, c) \in Seqs
         /\ r.consumed_seq <= Max2(r.consumed_seq, c)
         /\ Max2(r.consumed_seq, c) <= r.input_seq
BY RowNumbers DEF Max2, Sound, Seqs, NullSeq

\* A stop consumed under the lease.
LEMMA ConsumeStopSound ==
  ASSUME NEW r \in Row, Sound(r), r.state = "leased", NEW c \in Nat, c <= r.input_seq
  PROVE  Continues(r, ConsumeStop(r, c))
<1> DEFINE e == ConsumeStop(r, c)
           consumed == Max2(r.consumed_seq, c)
<1>1. e = [r EXCEPT !.consumed_seq = consumed, !.attempts = 0]
  BY DEF ConsumeStop
<1>2. r.consumed_seq <= consumed /\ consumed <= r.input_seq
  BY StopMark
<1> HIDE DEF e, consumed
<1>3. /\ e.state = r.state /\ e.lease_token = r.lease_token
      /\ e.adm_token = r.adm_token /\ e.adm_turn = r.adm_turn
      /\ e.park_reason = r.park_reason /\ e.signature = r.signature
      /\ e.attach_failures = r.attach_failures
      /\ e.input_seq = r.input_seq /\ e.consumed_seq = consumed
      /\ e.control_input_seq = r.control_input_seq
      /\ e.control_consumed_seq = r.control_consumed_seq
  BY <1>1 DEF Row
<1>4. Continues(r, e)
  BY <1>2, <1>3, RowNumbers
     DEF Continues, Closing, Sound, Forward, Explained, Exhausted, Reasoned
<1> QED BY <1>4 DEF e

\* A stop settled on a row at rest: an event that is still owed lies above
\* both watermarks, so that it keeps the unit from 'done' without being read.
LEMMA SettleStopSound ==
  ASSUME NEW r \in Row, Sound(r), r.state \in {"queued", "parked"},
         NEW c \in Nat, c <= r.input_seq, NEW o \in BOOLEAN,
         o => Max2(r.consumed_seq, c) < r.input_seq
  PROVE  Settles(r, SettleStop(r, c), o)
<1> DEFINE e == SettleStop(r, c)
           s == ConsumeStop(r, c)
           consumed == Max2(r.consumed_seq, c)
           next == IF Debt(s, s.consumed_seq, FALSE) THEN "queued" ELSE "done"
<1>1. s = [r EXCEPT !.consumed_seq = consumed, !.attempts = 0]
  BY DEF ConsumeStop
<1>2. e = [s EXCEPT !.state = next, !.ready = TRUE, !.aged = FALSE,
                    !.adm_token = 0, !.adm_turn = 0]
  BY DEF SettleStop
<1>3. r.consumed_seq <= consumed /\ consumed <= r.input_seq /\ consumed \in Seqs
  BY StopMark
<1>4. /\ s.consumed_seq = consumed /\ s.input_seq = r.input_seq
      /\ s.control_input_seq = r.control_input_seq
      /\ s.control_consumed_seq = r.control_consumed_seq
  BY <1>1 DEF Row
<1>5. /\ next \in {"queued", "done"}
      /\ next = "done" => /\ r.input_seq <= consumed
                          /\ r.control_input_seq <= r.control_consumed_seq
                          /\ ~ o
  BY <1>3, <1>4, RowNumbers DEF Debt, NullSeq, Seqs
<1>6. e \in Row
  BY ColumnValues, SettleStopRow
<1> HIDE DEF e, s, consumed, next
<1>7. /\ e.state = next /\ e.lease_token = r.lease_token
      /\ e.adm_token = 0 /\ e.adm_turn = 0 /\ e.park_reason = r.park_reason
      /\ e.signature = r.signature /\ e.attach_failures = r.attach_failures
      /\ e.input_seq = r.input_seq /\ e.consumed_seq = consumed
      /\ e.control_input_seq = r.control_input_seq
      /\ e.control_consumed_seq = r.control_consumed_seq
  BY <1>1, <1>2 DEF Row
<1>8. Explained(e)
  BY <1>7 DEF Sound, Explained, Exhausted
<1>9. Sound(e) /\ Forward(r, e) /\ Closing(r, e)
  <2>1. (e.signature = "none") <=> (e.attach_failures = 0)
    BY <1>7 DEF Sound
  <2> QED
    BY <1>3, <1>5, <1>6, <1>7, <1>8, <2>1, EndSound
<1>10. Settles(r, e, o)
  BY <1>5, <1>7, <1>9 DEF Settles, Settled
<1> QED BY <1>10 DEF e

\* One statement after another, as the steal that settles its stops.
LEMMA ThenSettles ==
  ASSUME NEW r \in Row, NEW s \in Row, NEW e \in Row, NEW o,
         Continues(r, s), Settles(s, e, o)
  PROVE  Settles(r, e, o)
<1>1. Forward(r, e)
  BY RowNumbers DEF Continues, Settles, Forward
<1>2. Closing(r, e)
  BY DEF Continues, Settles, Closing
<1> QED
  BY <1>1, <1>2 DEF Settles

=============================================================================
