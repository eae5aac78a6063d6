-------------------------- MODULE SessionTurnsProofs --------------------------
(***************************************************************************)
(* Theorems of SessionTurns, for every set of executors and stop requests, *)
(* every choice of events and faults, and every bound.                     *)
(***************************************************************************)
EXTENDS SessionTurns, RunQueueRowsProofs, WellFoundedInduction

\* What statement s keeps of row r: the token, the input and the watermark.
KeepsWork(r, s) ==
    /\ s \in Row
    /\ s.lease_token = r.lease_token
    /\ s.input_seq = r.input_seq /\ s.consumed_seq = r.consumed_seq

\* And the state with the interrupt window.
KeepsTurn(r, s) ==
    /\ KeepsWork(r, s)
    /\ s.state = r.state
    /\ s.adm_token = r.adm_token /\ s.adm_turn = r.adm_turn

\* No window is open.
Shut(s) == s.adm_token = 0 /\ s.adm_turn = 0

\* A lease is given up with its work undone.
GivesUp(r, s) ==
    KeepsWork(r, s) /\ Shut(s) /\ s.state \in {"queued", "parked"}

\* The watermark passes the applied stops of some, and goes no further.
PassesStops(r, s, some) ==
    /\ s.consumed_seq >= r.consumed_seq
    /\ \A q \in Applied(some) : stop[q].turn <= s.consumed_seq
    /\ \/ s.consumed_seq = r.consumed_seq
       \/ \E q \in Applied(some) : s.consumed_seq = stop[q].turn

-----------------------------------------------------------------------------
(***************************************************************************)
(* Numbers.                                                                *)
(***************************************************************************)

\* Messages are numbered from one; the number of no turn is no event.
LEMMA Numbers ==
  /\ MaxSeq \in Nat /\ MaxToken \in Nat /\ MaxFaults \in Nat
  /\ 0..MaxSeq \subseteq Seqs /\ Human(0)
  /\ EventSeqs \subseteq 1..MaxSeq /\ NoRequest \notin Requests
BY TurnConstants DEF Seqs, Human

\* The larger of two numbers.
LEMMA LargerOf ==
  ASSUME NEW a \in Int, NEW b \in Int
  PROVE  /\ Max2(a, b) \in {a, b} /\ Max2(a, b) >= a /\ Max2(a, b) >= b
BY DEF Max2

\* A non-empty set of message numbers has a smallest one.
LEMMA SmallestOf ==
  ASSUME NEW S \in SUBSET (0..MaxSeq), S /= {}
  PROVE  Min(S) \in S /\ \A y \in S : Min(S) <= y
<1> DEFINE less == OpToRel(<, Nat)
<1>1. S \subseteq Nat
  OBVIOUS
<1>2. IsWellFoundedOn(less, Nat)
  BY NatLessThanWellFounded
<1>3. PICK x \in S : \A y \in S : ~(<<y, x>> \in less)
  <2> HIDE DEF less
  <2> QED BY <1>1, <1>2, WFMin
<1>4. \A y \in S : ~(y < x)
  BY <1>1, <1>3 DEF OpToRel
<1>5. \A y \in S : x <= y
  BY <1>1, <1>4
<1> QED
  BY <1>5 DEF Min

\* And a largest one.
LEMMA LargestOf ==
  ASSUME NEW S \in SUBSET (0..MaxSeq), S /= {}
  PROVE  Max(S) \in S /\ \A y \in S : Max(S) >= y
<1> DEFINE above == {n \in 0..MaxSeq : \A y \in S : y <= n}
<1>1. MaxSeq \in above /\ above \in SUBSET (0..MaxSeq)
  BY Numbers
<1> HIDE DEF above
<1>2. Min(above) \in above /\ \A n \in above : Min(above) <= n
  BY <1>1, SmallestOf
<1> DEFINE m == Min(above)
<1>3. m \in 0..MaxSeq /\ \A y \in S : y <= m
  BY <1>2 DEF above
<1>6. m = Min(above) /\ \A n \in above : m <= n
  BY <1>2
<1> HIDE DEF m
<1>4. m \in S
  <2>1. SUFFICES ASSUME m \notin S PROVE FALSE
    OBVIOUS
  <2>2. \A y \in S : y <= m - 1
    BY <1>3, <2>1
  <2>3. PICK y \in S : y \in 0..MaxSeq
    OBVIOUS
  <2>4. m - 1 \in 0..MaxSeq
    BY <1>3, <2>2, <2>3, Numbers
  <2>5. m - 1 \in above
    BY <2>2, <2>4 DEF above
  <2> QED
    BY <1>6, <1>3, <2>5
<1>5. \A y \in S : m >= y
  BY <1>3, <1>4
<1> QED
  BY <1>4, <1>5 DEF Max

-----------------------------------------------------------------------------
(***************************************************************************)
(* What the statements of a turn do to the row.                            *)
(***************************************************************************)

\* Numbers of a row.
LEMMA RowNumbers ==
  ASSUME NEW r \in Row
  PROVE  /\ r.input_seq \in Int /\ r.input_seq >= -1
         /\ r.consumed_seq \in Int /\ r.consumed_seq >= -1
         /\ r.lease_token \in Nat /\ r.adm_token \in Nat /\ r.adm_turn \in Nat
BY DEF Row, Seqs, NullSeq

\* The columns EndLease leaves alone.
LEMMA EndLeaseKeeps ==
  ASSUME NEW r \in Row
  PROVE  KeepsWork(r, EndLease(r)) /\ Shut(EndLease(r))
<1>1. EndLease(r) \in Row
  BY EndLeaseRow
<1> QED
  BY <1>1 DEF EndLease, Row, KeepsWork, Shut

\* release_unit, with a failure or without, and park_unit.
LEMMA GivingUp ==
  ASSUME NEW r \in Row, NEW due \in BOOLEAN
  PROVE  /\ GivesUp(r, Release(r, due))
         /\ GivesUp(r, ReleaseDeterministic(r))
         /\ GivesUp(r, Park(r, "executor"))
<1> DEFINE base == EndLease(r)
<1>1. base \in Row /\ KeepsWork(r, base) /\ Shut(base)
  BY EndLeaseKeeps DEF KeepsWork
<1>2. /\ Release(r, due) \in Row /\ ReleaseDeterministic(r) \in Row
      /\ Park(r, "executor") \in Row
  BY ReleaseRow, ReleaseDeterministicRow, ParkRow
<1> DEFINE failures == NextFailures(r, "deterministic")
           next == IF failures >= MaxAttempts THEN "parked" ELSE "queued"
           reason == IF failures >= MaxAttempts THEN "refused" ELSE base.park_reason
           why == IF "executor" = "none" THEN base.park_reason ELSE "executor"
<1>3. /\ Release(r, due) = [base EXCEPT !.state = "queued",
                              !.last_leased_by = NoPod, !.ready = due]
      /\ ReleaseDeterministic(r) = [base EXCEPT !.state = next,
           !.park_reason = reason, !.last_leased_by = NoPod, !.ready = FALSE,
           !.attach_failures = failures, !.signature = "deterministic"]
      /\ Park(r, "executor") = [base EXCEPT !.state = "parked",
           !.last_leased_by = NoPod, !.ready = TRUE, !.park_reason = why]
  BY DEF Release, ReleaseDeterministic, Park
<1>4. next \in {"queued", "parked"}
  OBVIOUS
<1> HIDE DEF base, failures, next, reason, why
<1>5. GivesUp(r, Release(r, due))
  BY <1>1, <1>2, <1>3 DEF GivesUp, KeepsWork, Shut, Row
<1>6. GivesUp(r, ReleaseDeterministic(r))
  BY <1>1, <1>2, <1>3, <1>4 DEF GivesUp, KeepsWork, Shut, Row
<1>7. GivesUp(r, Park(r, "executor"))
  BY <1>1, <1>2, <1>3 DEF GivesUp, KeepsWork, Shut, Row
<1> QED
  BY <1>5, <1>6, <1>7

\* complete_unit: done only if the watermark has reached the input.
LEMMA Completing ==
  ASSUME NEW r \in Row, NEW c \in Seqs, NEW o \in BOOLEAN
  PROVE  LET s == Complete(r, c, o) IN
         /\ s \in Row /\ s.lease_token = r.lease_token
         /\ s.input_seq = r.input_seq /\ s.consumed_seq = Max2(r.consumed_seq, c)
         /\ s.state \in {"queued", "done"} /\ Shut(s)
         /\ s.state = "done" => r.input_seq <= s.consumed_seq
<1> DEFINE base == EndLease(r)
           consumed == Max2(r.consumed_seq, c)
           next == IF Debt(r, IF c = NullSeq THEN NullSeq ELSE consumed, o)
                   THEN "queued" ELSE "done"
           s == Complete(r, c, o)
<1>1. s = [base EXCEPT !.consumed_seq = consumed, !.attempts = 0,
                       !.attach_failures = 0, !.signature = "none", !.ready = TRUE,
                       !.state = next]
  BY DEF Complete
<1>2. /\ next \in {"queued", "done"}
      /\ next = "done" => r.input_seq <= consumed
  BY RowNumbers DEF Debt, NullSeq, Max2, Seqs
<1>3. s \in Row /\ base \in Row /\ KeepsWork(r, base) /\ Shut(base)
  BY CompleteRow, EndLeaseKeeps DEF KeepsWork
<1> HIDE DEF s, base, consumed, next
<1>4. /\ s.state = next /\ s.consumed_seq = consumed
      /\ s.lease_token = r.lease_token /\ s.input_seq = r.input_seq /\ Shut(s)
  BY <1>1, <1>3 DEF Row, KeepsWork, Shut
<1>5. /\ s \in Row /\ s.lease_token = r.lease_token
      /\ s.input_seq = r.input_seq /\ s.consumed_seq = consumed
      /\ s.state \in {"queued", "done"} /\ Shut(s)
      /\ s.state = "done" => r.input_seq <= s.consumed_seq
  BY <1>2, <1>3, <1>4
<1> QED
  BY <1>5 DEF s, consumed

\* The reaper's steal, before its hook.
LEMMA Stealing ==
  ASSUME NEW r \in Row
  PROVE  LET s == ReapSteal(r, FALSE) IN
         /\ s \in Row /\ s.lease_token = r.lease_token + 1
         /\ s.input_seq = r.input_seq /\ s.consumed_seq = r.consumed_seq
         /\ s.state \in {"queued", "parked"} /\ Shut(s)
<1> DEFINE base == EndLease(r)
           park == r.attempts >= MaxAttempts
           next == IF park THEN "parked" ELSE "queued"
           why == IF park THEN "reaper_max_attempts" ELSE base.park_reason
           token == base.lease_token + 1
           s == ReapSteal(r, FALSE)
<1>1. s = [base EXCEPT !.lease_token = token, !.state = next,
                       !.park_reason = why, !.last_leased_by = NoPod, !.ready = FALSE]
  BY DEF ReapSteal
<1>2. s \in Row /\ base \in Row /\ KeepsWork(r, base) /\ Shut(base)
  BY ReapStealRow, EndLeaseKeeps DEF KeepsWork
<1>3. next \in {"queued", "parked"} /\ token = r.lease_token + 1
  BY <1>2 DEF KeepsWork
<1> HIDE DEF s, base, park, next, why, token
<1>4. /\ s \in Row /\ s.lease_token = r.lease_token + 1
      /\ s.input_seq = r.input_seq /\ s.consumed_seq = r.consumed_seq
      /\ s.state \in {"queued", "parked"} /\ Shut(s)
  BY <1>1, <1>2, <1>3 DEF Row, KeepsWork, Shut
<1> QED
  BY <1>4 DEF s

\* Renewal and the clocks.
LEMMA Ticking ==
  ASSUME NEW r \in Row
  PROVE  /\ KeepsTurn(r, Heartbeat(r))
         /\ KeepsTurn(r, [r EXCEPT !.lapsed = TRUE])
         /\ KeepsTurn(r, [r EXCEPT !.ready = TRUE])
<1>1. Heartbeat(r) \in Row
  BY RenewRow
<1> QED
  BY <1>1, TickRow DEF Heartbeat, Row, KeepsTurn, KeepsWork

\* unpark_unit.
LEMMA Unparking ==
  ASSUME NEW r \in Row, r.state = "parked"
  PROVE  /\ KeepsWork(r, Unpark(r)) /\ Unpark(r).state = "queued"
         /\ Unpark(r).adm_token = r.adm_token /\ Unpark(r).adm_turn = r.adm_turn
<1> DEFINE base == LiftPark(r)
<1>1. /\ base \in Row /\ KeepsWork(r, base)
      /\ base.adm_token = r.adm_token /\ base.adm_turn = r.adm_turn
  BY LiftParkRow DEF LiftPark, Row, KeepsWork
<1>2. Unpark(r) = [base EXCEPT !.state = "queued"] /\ Unpark(r) \in Row
  BY UnparkRow DEF Unpark
<1> HIDE DEF base
<1> QED
  BY <1>1, <1>2 DEF Row, KeepsWork

\* A claim takes the next token and opens no window.
LEMMA Claiming ==
  ASSUME NEW r \in Row, NEW p \in Pods
  PROVE  LET s == ClaimUpdateTail(r, p) IN
         /\ s \in Row /\ s.state = "leased" /\ s.lease_token = r.lease_token + 1
         /\ s.input_seq = r.input_seq /\ s.consumed_seq = r.consumed_seq /\ Shut(s)
<1>1. ClaimUpdateTail(r, p) \in Row
  BY ClaimRow
<1> QED
  BY <1>1 DEF ClaimUpdateTail, Row, Shut

\* open_interrupt_admission and close_interrupt_admission keep the lease.
LEMMA Opening ==
  ASSUME NEW r \in Row, NEW t \in Nat, NEW turn \in Nat
  PROVE  LET s == OpenInterrupt(r, t, turn) IN
         /\ KeepsWork(r, s) /\ s.state = r.state
         /\ s.adm_token = t /\ s.adm_turn = turn
<1>1. OpenInterrupt(r, t, turn) \in Row
  BY OpenInterruptRow
<1> QED
  BY <1>1 DEF OpenInterrupt, Row, KeepsWork

\* The close keeps the lease too, and merges its checkpoint into the watermark.
LEMMA Closing ==
  ASSUME NEW r \in Row, NEW c \in Seqs
  PROVE  LET s == CloseInterrupt(r, c) IN
         /\ s \in Row /\ s.lease_token = r.lease_token /\ s.state = r.state
         /\ s.input_seq = r.input_seq /\ s.consumed_seq = Max2(r.consumed_seq, c)
         /\ Shut(s)
<1>1. CloseInterrupt(r, c) \in Row
  BY CloseInterruptRow
<1> QED
  BY <1>1 DEF CloseInterrupt, Row, Shut

\* record_input_seq of the next message: a row that is done is queued again, one
\* that does not exist begins behind the message.
LEMMA Recording ==
  ASSUME NEW r \in Row, NEW n \in Nat, n > r.input_seq
  PROVE  LET s == RecordInput(r, n) IN
         /\ s \in Row /\ s.lease_token = r.lease_token /\ s.input_seq = n
         /\ s.adm_token = r.adm_token /\ s.adm_turn = r.adm_turn
         /\ s.state = IF r.state \in {"absent", "done"} THEN "queued" ELSE r.state
         /\ s.consumed_seq = IF r.state = "absent" THEN n - 1 ELSE r.consumed_seq
<1>1. RecordInput(r, n) \in Row
  BY RecordInputRow
<1>2. Max2(r.input_seq, n) = n
  BY RowNumbers DEF Max2
<1>3. Boundary(n) = n - 1
  BY DEF Boundary, NullSeq
<1>4. CASE r.state = "absent"
  BY <1>1, <1>3, <1>4 DEF RecordInput, Row
<1>5. CASE r.state = "done"
  BY <1>1, <1>2, <1>5 DEF RecordInput, Row
<1>6. CASE r.state \notin {"absent", "done"}
  BY <1>1, <1>2, <1>6 DEF RecordInput, Row
<1> QED
  BY <1>4, <1>5, <1>6

\* The largest turn that some stops name.
LEMMA LargestTurn ==
  ASSUME stop \in [Requests -> Stops], NEW some \in SUBSET Requests,
         Applied(some) /= {}
  PROVE  LET m == Max({stop[r].turn : r \in Applied(some)}) IN
         /\ m \in 0..MaxSeq
         /\ \E r \in Applied(some) : m = stop[r].turn
         /\ \A r \in Applied(some) : stop[r].turn <= m
<1> DEFINE turns == {stop[r].turn : r \in Applied(some)}
<1>1. Applied(some) \subseteq Requests
  BY DEF Applied
<1>2. \A r \in Applied(some) : stop[r].turn \in 0..MaxSeq
  BY <1>1 DEF Stops
<1>3. turns \in SUBSET (0..MaxSeq) /\ turns /= {}
  BY <1>2
<1>4. Max(turns) \in turns /\ \A y \in turns : Max(turns) >= y
  BY <1>3, LargestOf
<1>5. \A r \in Applied(some) : stop[r].turn \in turns
  OBVIOUS
<1>6. PICK r \in Applied(some) : Max(turns) = stop[r].turn
  BY <1>4
<1>7. \A r1 \in Applied(some) : stop[r1].turn <= Max(turns)
  BY <1>2, <1>4, <1>5, <1>6
<1> QED
  BY <1>2, <1>6, <1>7

\* consume_applied_interrupt_input_live merges the largest into the watermark.
LEMMA ConsumingLive ==
  ASSUME stop \in [Requests -> Stops], NEW some \in SUBSET Requests, NEW r \in Row
  PROVE  LET s == ConsumeLive(r, some) IN
         /\ s \in Row /\ s.lease_token = r.lease_token /\ s.state = r.state
         /\ s.input_seq = r.input_seq
         /\ s.adm_token = r.adm_token /\ s.adm_turn = r.adm_turn
         /\ PassesStops(r, s, some)
<1>1. CASE Applied(some) = {}
  BY <1>1, RowNumbers DEF ConsumeLive, PassesStops
<1>2. CASE Applied(some) /= {}
  <2> DEFINE m == Max({stop[q].turn : q \in Applied(some)})
             c == Max2(r.consumed_seq, m)
             s == ConsumeLive(r, some)
  <2>1. /\ m \in 0..MaxSeq
        /\ \E q \in Applied(some) : m = stop[q].turn
        /\ \A q \in Applied(some) : stop[q].turn <= m
    BY <1>2, LargestTurn
  <2>2. s = [r EXCEPT !.attempts = 0, !.consumed_seq = c]
    BY <1>2 DEF ConsumeLive, ConsumeStop
  <2> HIDE DEF m
  <2>3. m \in Int /\ m \in Seqs
    BY <2>1, Numbers
  <2>4. c \in Seqs /\ c \in {r.consumed_seq, m} /\ c >= r.consumed_seq /\ c >= m
    BY <2>3, MergeType, LargerOf, RowNumbers DEF Row
  <2> HIDE DEF c, s
  <2>5. /\ s \in Row /\ s.lease_token = r.lease_token /\ s.state = r.state
        /\ s.input_seq = r.input_seq /\ s.consumed_seq = c
        /\ s.adm_token = r.adm_token /\ s.adm_turn = r.adm_turn
    BY <2>2, <2>4 DEF Row
  <2>6. \A q \in Applied(some) : stop[q].turn \in Int
    BY DEF Applied, Stops
  <2>7. c \in Int
    BY <2>3, <2>4, RowNumbers
  <2>8. \A q \in Applied(some) : stop[q].turn <= c
    BY <2>1, <2>3, <2>4, <2>6, <2>7
  <2>9. PassesStops(r, s, some)
    BY <2>1, <2>4, <2>5, <2>8 DEF PassesStops
  <2> QED
    BY <2>5, <2>9 DEF s
<1> QED
  BY <1>1, <1>2

\* consume_applied_interrupt_input_idle also decides whether work is left.
LEMMA ConsumingIdle ==
  ASSUME stop \in [Requests -> Stops], NEW some \in SUBSET Requests, NEW r \in Row
  PROVE  LET s == ConsumeIdle(r, some) IN
         /\ s \in Row /\ s.lease_token = r.lease_token
         /\ s.input_seq = r.input_seq
         /\ PassesStops(r, s, some)
         /\ \/ /\ s.state = r.state
               /\ s.adm_token = r.adm_token /\ s.adm_turn = r.adm_turn
            \/ /\ s.state \in {"queued", "done"} /\ Shut(s)
               /\ s.state = "done" => s.input_seq <= s.consumed_seq
<1>1. CASE Applied(some) = {}
  BY <1>1, RowNumbers DEF ConsumeIdle, PassesStops
<1>2. CASE Applied(some) /= {}
  <2> DEFINE c == ConsumeLive(r, some)
             next == IF Debt(c, c.consumed_seq, FALSE) THEN "queued" ELSE "done"
             s == ConsumeIdle(r, some)
  <2>1. /\ c \in Row /\ c.lease_token = r.lease_token /\ c.input_seq = r.input_seq
        /\ PassesStops(r, c, some)
    BY ConsumingLive
  <2>6. /\ c = ConsumeStop(r, Max({stop[q].turn : q \in Applied(some)}))
        /\ s = SettleStop(r, Max({stop[q].turn : q \in Applied(some)}))
    BY <1>2, Zenon DEF ConsumeIdle, ConsumeLive
  <2>2. s = [c EXCEPT !.state = next, !.ready = TRUE, !.aged = FALSE,
                      !.adm_token = 0, !.adm_turn = 0]
    <3> HIDE DEF c, s
    <3> QED
      BY <2>6, Zenon DEF SettleStop
  <2> HIDE DEF c
  <2>3. /\ next \in {"queued", "done"} /\ next \in States
        /\ next = "done" => c.input_seq <= c.consumed_seq
    BY <2>1, RowNumbers, ColumnValues DEF Debt, NullSeq
  <2> HIDE DEF next, s
  <2>4. /\ s \in Row /\ s.lease_token = r.lease_token /\ s.state = next
        /\ s.input_seq = r.input_seq /\ s.consumed_seq = c.consumed_seq /\ Shut(s)
    BY <2>1, <2>2, <2>3 DEF Row, Shut
  <2>5. PassesStops(r, s, some)
    BY <2>1, <2>4 DEF PassesStops
  <2> QED
    BY <2>1, <2>3, <2>4, <2>5 DEF s
<1> QED
  BY <1>1, <1>2

-----------------------------------------------------------------------------
(***************************************************************************)
(* The shape of a state: ranges, and what the parts of a row and of an     *)
(* executor have to do with each other.                                    *)
(***************************************************************************)

\* A row exists from the first message on and has recorded all of them; it is
\* done only when the watermark has reached the last; the window belongs to the
\* running lease.
RowFits ==
    /\ row.lease_token <= MaxToken
    /\ row.adm_turn <= top /\ row.input_seq <= top /\ row.consumed_seq <= top
    /\ row.state = "absent" => top = 0
    /\ row.state /= "absent" => row.input_seq = top /\ row.consumed_seq >= 0
    /\ row.state = "done" => row.consumed_seq >= top
    /\ (row.adm_turn = 0) <=> (row.adm_token = 0)
    /\ row.adm_turn /= 0 => Leased(row, row.adm_token)

\* A claim has a token that was granted, and a turn from its start on.
PodFits(p) ==
    /\ pod[p].stage = "idle" => pod[p] = Idle
    /\ pod[p].stage /= "idle" => pod[p].token \in 1..row.lease_token
    /\ pod[p].stage \in {"claimed", "bound"} => pod[p].turn = 0
    /\ pod[p].stage \in {"running", "ended", "died", "leaving"} => pod[p].turn /= 0
    /\ pod[p].turn <= top /\ pod[p].input <= top

\* The hold keeps the row parked; the claim it waits for is an older one.
HoldFits == hold.token /= 0 => row.state = "parked" /\ hold.token < row.lease_token

\* Nothing names a message that was not sent or a lease that was not granted.
EventsFit ==
    /\ owed \subseteq 1..top /\ answered \subseteq 1..top
    /\ \A a \in admitted : a[1] <= top /\ a[2] <= row.lease_token
    /\ \A r \in Requests : stop[r].turn <= top

Shape ==
    TypeOK /\ RowFits /\ (\A p \in Pods : PodFits(p)) /\ HoldFits /\ EventsFit

-----------------------------------------------------------------------------
(***************************************************************************)
(* The kinds of steps.  Every step of Next is one of them.                 *)
(***************************************************************************)

\* No executor is told to shut down in this run of the system.
Calm == "shutdown" \notin Faults

Steady == Calm => draining' \subseteq draining

PodsBut(p) == \A q \in Pods \ {p} : pod'[q] = pod[q]

\* Time, renewal, and what only concerns shutdown and faults.
TickStep ==
    /\ KeepsTurn(row, row')
    /\ UNCHANGED <<threadVars, stop, pod, claimVars>>

\* A message is recorded.
MessageStep ==
    /\ top' = top + 1
    /\ owed' = IF Human(top + 1) THEN owed ELSE owed \cup {top + 1}
    /\ row'.lease_token = row.lease_token
    /\ row'.adm_token = row.adm_token /\ row'.adm_turn = row.adm_turn
    /\ row'.state = IF row.state \in {"absent", "done"} THEN "queued" ELSE row.state
    /\ row'.consumed_seq = IF row.state = "absent" THEN 0 ELSE row.consumed_seq
    /\ UNCHANGED <<admitted, settled, answered, started, stop, pod, claimVars>>

\* A stop is admitted for the open window.
AskStep(r) ==
    /\ stop[r] = NoStop /\ row.adm_turn /= 0
    /\ stop' = [stop EXCEPT ![r] = [turn |-> row.adm_turn, token |-> row.lease_token,
                                    outcome |-> "pending", receipt |-> "none"]]
    /\ UNCHANGED <<row, threadVars, pod, claimVars>>

\* A stop gets its receipt.
ReceiptStep(r) ==
    /\ stop[r].receipt = "none"
    /\ \E v \in Verdicts : stop' = [stop EXCEPT ![r].receipt = v]
    /\ UNCHANGED <<row, threadVars, pod, claimVars>>

\* The holder settles a stop that belongs to it or to an older lease.
SettleStep(p, r) ==
    /\ Owns(p) /\ stop[r].receipt /= "none" /\ Settleable({r})
    /\ stop' = Settled({r})
    /\ row'.lease_token = row.lease_token /\ row'.state = row.state
    /\ row'.adm_token = row.adm_token /\ row'.adm_turn = row.adm_turn
    /\ PassesStops(row, row', {r})
    /\ pod'[p].stage = pod[p].stage /\ pod'[p].token = pod[p].token
    /\ pod'[p].turn = pod[p].turn /\ pod'[p].input = pod[p].input
    /\ PodsBut(p)
    /\ UNCHANGED <<threadVars, claimVars>>

\* A claim is granted.
GrantStep(p) ==
    /\ pod[p].stage = "idle" /\ row.state = "queued"
    /\ row'.state = "leased" /\ row'.lease_token = row.lease_token + 1
    /\ row'.consumed_seq = row.consumed_seq /\ Shut(row')
    /\ pod'[p].stage = "claimed" /\ pod'[p].token = row.lease_token + 1
    /\ pod'[p].turn = 0 /\ pod'[p].input = row.input_seq
    /\ PodsBut(p)
    /\ UNCHANGED <<threadVars, stop, claimVars>>

\* An executor moves on with nothing written.
Passes(p) ==
    \/ pod'[p].stage = pod[p].stage /\ pod'[p].input = pod[p].input
    \/ /\ pod[p].stage = "running" /\ pod'[p].stage \in {"ended", "died"}
       /\ Calm /\ draining = {} /\ pod'[p].stage = "ended" => pod[p].turn \in answered
       /\ pod'[p].stage = "ended" /\ AdmittedHere(p) => pod[p].turn \in answered
    \/ /\ pod[p].stage = "claimed" /\ pod'[p].stage = "settling"
       /\ pod'[p].input \in Skips(p)

PassStep(p) ==
    /\ Passes(p)
    /\ pod'[p].token = pod[p].token /\ pod'[p].turn = pod[p].turn
    /\ PodsBut(p)
    /\ UNCHANGED <<row, threadVars, stop, claimVars>>

\* The claim bundle.
BindStep(p) ==
    /\ pod[p].stage = "claimed" /\ Owns(p) /\ Skips(p) = {}
    /\ pod'[p].stage = "bound"
    /\ pod'[p].token = pod[p].token /\ pod'[p].turn = pod[p].turn
    /\ pod'[p].input = pod[p].input
    /\ PodsBut(p)
    /\ active' = pod[p].token
    /\ UNCHANGED <<row, threadVars, stop, hold>>

\* Nothing is pending: the claim goes to its end without a turn.
NothingStep(p) ==
    /\ pod[p].stage = "bound" /\ Owns(p) /\ PendingInput = {}
    /\ pod'[p].stage = "settling"
    /\ pod'[p].token = pod[p].token /\ pod'[p].turn = pod[p].turn
    /\ pod'[p].input = pod[p].input
    /\ PodsBut(p)
    /\ settled' = settled \cup (StaleAdmissions \cap answered)
    /\ UNCHANGED <<row, top, owed, admitted, answered, started, stop, claimVars>>

\* The turn of the oldest pending input begins.
BeginStep(p, s) ==
    /\ pod[p].stage = "bound" /\ Stale(p) = {} /\ Leased(row, pod[p].token)
    /\ s \in PendingInput /\ \A y \in PendingInput : s <= y
    /\ KeepsWork(row, row') /\ row'.state = row.state
    /\ row'.adm_token = pod[p].token /\ row'.adm_turn = s
    /\ started' = started \cup {s}
    /\ owed' = IF Human(s) THEN owed ELSE owed \cup {s}
    /\ admitted' = {a \in admitted : a[1] /= s}
    /\ settled' = settled \cup (StaleAdmissions \cap answered)
    /\ pod'[p].stage = "running"
    /\ pod'[p].token = pod[p].token /\ pod'[p].turn = s
    /\ pod'[p].input = pod[p].input
    /\ PodsBut(p)
    /\ UNCHANGED <<top, answered, stop, claimVars>>

\* The turn's own writes: admission, answer and settlement.
WriteStep(p) ==
    /\ Owns(p)
    /\ \/ /\ pod[p].stage = "running" /\ pod[p].turn \in owed
          /\ owed' = owed \ {pod[p].turn}
          /\ admitted' = admitted \cup {<<pod[p].turn, pod[p].token>>}
          /\ UNCHANGED <<settled, answered>>
       \/ /\ pod[p].stage = "running"
          /\ answered' = answered \cup {pod[p].turn}
          /\ UNCHANGED eventVars
       \/ /\ pod[p].stage \in {"ended", "settling"} /\ AdmittedHere(p)
          /\ settled' = settled \cup {pod[p].turn}
          /\ UNCHANGED <<owed, admitted, answered>>
    /\ UNCHANGED <<row, top, started, stop, pod, claimVars>>

\* The close with its checkpoint.
CloseStep(p) ==
    /\ pod[p].stage \in {"ended", "died"}
    /\ CloseAllowed(row, pod[p].token, pod[p].turn, Checkpoint(p), Exact(p))
    /\ row'.lease_token = row.lease_token /\ row'.state = row.state /\ Shut(row')
    /\ row'.consumed_seq = Max2(row.consumed_seq, Checkpoint(p))
    /\ pod'[p].stage = IF pod[p].stage = "ended" THEN "settling" ELSE "leaving"
    /\ pod'[p].token = pod[p].token /\ pod'[p].turn = pod[p].turn
    /\ pod'[p].input = Checkpoint(p)
    /\ PodsBut(p)
    /\ UNCHANGED <<threadVars, stop, claimVars>>

\* A claim is forgotten; the row stays.
ForgetStep(p) ==
    /\ pod'[p] = Idle /\ PodsBut(p)
    /\ UNCHANGED <<row, threadVars, stop, claimVars>>

\* The holder ends its lease.
DisposeStep(p) ==
    /\ Owns(p)
    /\ row'.lease_token = row.lease_token /\ Shut(row')
    /\ row'.state \in {"queued", "parked", "done"}
    /\ \/ row'.consumed_seq = row.consumed_seq
       \/ /\ pod[p].stage = "settling"
          /\ row'.consumed_seq = Max2(row.consumed_seq, pod[p].input)
    /\ pod'[p] = Idle /\ PodsBut(p)
    /\ UNCHANGED <<threadVars, stop, claimVars>>

\* The reaper's steal with its hook, and the settlement on a parked row.
TakeStep(some) ==
    /\ \A r \in some : Pending(r) /\ stop[r].token <= row.lease_token
    /\ Settleable(some)
    /\ stop' = Settled(some)
    /\ row'.state \in {"queued", "parked", "done"} /\ Shut(row')
    /\ PassesStops(row, row', some)
    /\ \/ /\ row.state = "leased"
          /\ \A r \in Requests : Pending(r) /\ stop[r].token = row.lease_token => r \in some
          /\ row'.lease_token = row.lease_token + 1
          /\ IF active = row.lease_token
             THEN row'.state = "parked" /\ hold'.token = row.lease_token
             ELSE hold'.token = 0
          /\ active' = 0
       \/ /\ row.state = "parked" /\ hold.token = 0
          /\ row'.lease_token = row.lease_token
          /\ UNCHANGED claimVars
    /\ UNCHANGED <<threadVars, pod>>

\* A park or a hold is lifted.
LiftStep ==
    /\ row.state = "parked" /\ row'.state \in {"queued", "parked", "done"}
    /\ row'.lease_token = row.lease_token
    /\ row'.consumed_seq = row.consumed_seq
    /\ row'.adm_token = row.adm_token /\ row'.adm_turn = row.adm_turn
    /\ \/ hold.token = 0 /\ UNCHANGED hold
       \/ (\A p \in Pods : pod[p].token /= hold.token) /\ hold'.token = 0
    /\ UNCHANGED <<threadVars, stop, pod, active>>

Kinds ==
    \/ TickStep \/ MessageStep \/ LiftStep
    \/ \E some \in SUBSET Requests : TakeStep(some)
    \/ \E r \in Requests : AskStep(r) \/ ReceiptStep(r)
    \/ \E p \in Pods : \/ \E r \in Requests : SettleStep(p, r)
                       \/ GrantStep(p) \/ PassStep(p) \/ BindStep(p)
                       \/ NothingStep(p) \/ (\E s \in 1..MaxSeq : BeginStep(p, s))
                       \/ WriteStep(p) \/ CloseStep(p)
                       \/ ForgetStep(p) \/ DisposeStep(p)

Kept == Shape' /\ Kinds /\ Steady

-----------------------------------------------------------------------------
(***************************************************************************)
(* Each action has one of these kinds and keeps the shape.                 *)
(***************************************************************************)

\* One executor changes.
LEMMA PodUpdate ==
  ASSUME TypeOK, NEW p \in Pods, NEW x \in PodStates, pod' = [pod EXCEPT ![p] = x]
  PROVE  pod' \in [Pods -> PodStates] /\ pod'[p] = x /\ PodsBut(p)
BY DEF TypeOK, PodsBut

\* The others still fit.
LEMMA OthersFit ==
  ASSUME Shape, NEW p \in Pods, PodsBut(p),
         row' \in Row, row'.lease_token >= row.lease_token, top' \in Nat, top' >= top,
         PodFits(p)'
  PROVE  \A q \in Pods : PodFits(q)'
<1> SUFFICES ASSUME NEW q \in Pods, q /= p
             PROVE  PodFits(q)'
  OBVIOUS
<1>1. pod'[q] = pod[q] /\ PodFits(q) /\ pod[q] \in PodStates
  BY DEF Shape, PodsBut, TypeOK
<1>2. /\ row.lease_token \in Nat /\ row'.lease_token \in Nat /\ top \in Nat
      /\ pod[q].token \in Nat /\ pod[q].turn \in Nat /\ pod[q].input \in Int
  BY <1>1, RowNumbers, Numbers DEF Shape, TypeOK, PodStates, Seqs, NullSeq
<1> QED
  BY <1>1, <1>2 DEF PodFits

\* Nobody's claim changes.
LEMMA PodsFit ==
  ASSUME Shape, UNCHANGED pod,
         row' \in Row, row'.lease_token >= row.lease_token, top' \in Nat, top' >= top
  PROVE  \A q \in Pods : PodFits(q)'
<1> SUFFICES ASSUME NEW q \in Pods
             PROVE  PodFits(q)'
  OBVIOUS
<1>1. pod'[q] = pod[q] /\ PodFits(q) /\ pod[q] \in PodStates
  BY DEF Shape, TypeOK
<1>2. /\ row.lease_token \in Nat /\ row'.lease_token \in Nat /\ top \in Nat
      /\ pod[q].token \in Nat /\ pod[q].turn \in Nat /\ pod[q].input \in Int
  BY <1>1, RowNumbers, Numbers DEF Shape, TypeOK, PodStates, Seqs, NullSeq
<1> QED
  BY <1>1, <1>2 DEF PodFits

\* The numbers that stops, admissions and executors carry.
LEMMA Elements ==
  ASSUME TypeOK
  PROVE  /\ \A r \in Requests :
              /\ stop[r] \in Stops
              /\ stop[r].turn \in 0..MaxSeq /\ stop[r].turn \in Nat
              /\ stop[r].token \in 0..MaxToken /\ stop[r].token \in Nat
         /\ \A a \in admitted :
              /\ a[1] \in EventSeqs /\ a[1] \in 1..MaxSeq /\ a[1] \in Nat
              /\ a[2] \in 1..MaxToken /\ a[2] \in Nat
         /\ \A p \in Pods :
              /\ pod[p] \in PodStates
              /\ pod[p].turn \in 0..MaxSeq /\ pod[p].turn \in Nat
              /\ pod[p].token \in 0..MaxToken /\ pod[p].token \in Nat
              /\ pod[p].input \in Seqs /\ pod[p].input \in Int
<1>1. ASSUME NEW r \in Requests
      PROVE  /\ stop[r] \in Stops
             /\ stop[r].turn \in 0..MaxSeq /\ stop[r].turn \in Nat
             /\ stop[r].token \in 0..MaxToken /\ stop[r].token \in Nat
  BY Numbers DEF TypeOK, Stops
<1>2. ASSUME NEW a \in admitted
      PROVE  /\ a[1] \in EventSeqs /\ a[1] \in 1..MaxSeq /\ a[1] \in Nat
             /\ a[2] \in 1..MaxToken /\ a[2] \in Nat
  <2>1. PICK s \in EventSeqs, t \in 1..MaxToken : a = <<s, t>>
    BY DEF TypeOK
  <2> QED
    BY <2>1, Numbers
<1>3. ASSUME NEW p \in Pods
      PROVE  /\ pod[p] \in PodStates
             /\ pod[p].turn \in 0..MaxSeq /\ pod[p].turn \in Nat
             /\ pod[p].token \in 0..MaxToken /\ pod[p].token \in Nat
             /\ pod[p].input \in Seqs /\ pod[p].input \in Int
  BY Numbers DEF TypeOK, PodStates, Seqs, NullSeq
<1> QED
  BY <1>1, <1>2, <1>3

\* An executor with nothing to do.
LEMMA IdleType ==
  /\ Idle \in PodStates
  /\ Idle.stage = "idle" /\ Idle.token = 0 /\ Idle.turn = 0 /\ Idle.input = NullSeq
BY Numbers DEF Idle, PodStates, Stages, Verdicts, Seqs

\* The fault that an action takes.
LEMMA FaultType ==
  ASSUME TypeOK, NEW kind, Fault(kind)
  PROVE  faults' \in 0..MaxFaults /\ kind \in Faults
BY Numbers DEF TypeOK, Fault

\* A message is admitted with its watermark.
LEMMA AdmitMessageKind ==
  ASSUME Shape, AdmitMessage
  PROVE  Kept
<1> USE DEF AdmitMessage, threadVars, eventVars, claimVars
<1>1. row \in Row /\ top \in Nat /\ top + 1 \in 1..MaxSeq /\ top' = top + 1
  BY Numbers DEF Shape, TypeOK
<1>2. top + 1 > row.input_seq
  BY <1>1, RowNumbers DEF Shape, RowFits
<1>3. /\ row' \in Row /\ row'.lease_token = row.lease_token /\ row'.input_seq = top + 1
      /\ row'.adm_token = row.adm_token /\ row'.adm_turn = row.adm_turn
      /\ row'.state = IF row.state \in {"absent", "done"} THEN "queued" ELSE row.state
      /\ row'.consumed_seq = IF row.state = "absent" THEN top ELSE row.consumed_seq
  BY <1>1, <1>2, Recording
<1>4. TypeOK'
  BY <1>1, <1>3 DEF Shape, TypeOK, Human
<1>5. RowFits'
  BY <1>1, <1>3, RowNumbers DEF Shape, RowFits, Leased
<1>6. \A q \in Pods : PodFits(q)'
  BY <1>1, <1>3, RowNumbers, PodsFit
<1>7. HoldFits' /\ EventsFit'
  <2>1. HoldFits'
    BY <1>3 DEF Shape, HoldFits
  <2>2. /\ \A a \in admitted : a[1] \in Nat
        /\ \A r \in Requests : stop[r].turn \in Nat
    BY Elements DEF Shape
  <2> QED
    BY <1>1, <1>3, <2>1, <2>2 DEF Shape, EventsFit
<1>8. MessageStep /\ Steady
  BY <1>1, <1>3 DEF MessageStep, Steady, Shape, RowFits
<1> QED
  BY <1>4, <1>5, <1>6, <1>7, <1>8 DEF Kept, Kinds, Shape

\* A stop is admitted: it names the turn and the lease of the open window.
LEMMA AdmitStopKind ==
  ASSUME Shape, NEW r \in Requests, AdmitStop(r)
  PROVE  Kept
<1> USE DEF threadVars, eventVars, claimVars
<1> DEFINE x == [turn |-> row.adm_turn, token |-> row.lease_token,
                 outcome |-> "pending", receipt |-> "none"]
<1>1. /\ row \in Row /\ top \in 0..MaxSeq
      /\ row.adm_turn \in 0..MaxSeq /\ row.lease_token \in 0..MaxToken
  BY RowNumbers, Numbers DEF Shape, TypeOK, RowFits
<1>2. x \in Stops
  BY <1>1 DEF Stops, Verdicts
<1>3. stop' = [stop EXCEPT ![r] = x]
  BY DEF AdmitStop
<1> HIDE DEF x
<1>4. TypeOK'
  BY <1>2, <1>3 DEF Shape, TypeOK, AdmitStop
<1>5. RowFits' /\ HoldFits'
  BY DEF Shape, RowFits, HoldFits, AdmitStop, Leased
<1>6. \A q \in Pods : PodFits(q)'
  BY <1>1, RowNumbers, PodsFit DEF AdmitStop
<1>7. EventsFit'
  <2>1. \A q \in Requests : stop'[q] = IF q = r THEN x ELSE stop[q]
    BY <1>3 DEF Shape, TypeOK
  <2>2. x.turn <= top
    BY DEF x, Shape, RowFits
  <2> QED
    BY <2>1, <2>2 DEF Shape, EventsFit, AdmitStop
<1>8. AskStep(r) /\ Steady
  BY DEF AskStep, Steady, AdmitStop
<1> QED
  BY <1>4, <1>5, <1>6, <1>7, <1>8 DEF Kept, Kinds, Shape

\* Time, renewal, shutdown and replacement.
LEMMA TickKind ==
  ASSUME Shape, row' \in Row, KeepsTurn(row, row'), faults' \in 0..MaxFaults,
         Calm => draining' \subseteq draining, draining' \subseteq Pods,
         UNCHANGED <<threadVars, stop, pod, claimVars>>
  PROVE  Kept
<1> USE DEF threadVars, eventVars, claimVars
<1>1. TypeOK'
  BY DEF Shape, TypeOK
<1>2. RowFits' /\ HoldFits' /\ EventsFit'
  BY RowNumbers DEF Shape, RowFits, HoldFits, EventsFit, KeepsTurn, KeepsWork, Leased, TypeOK
<1>3. \A q \in Pods : PodFits(q)'
  BY RowNumbers, PodsFit, Numbers DEF KeepsTurn, KeepsWork, Shape, TypeOK
<1> QED
  BY <1>1, <1>2, <1>3 DEF Kept, Kinds, Shape, TickStep, Steady

\* The clocks, renewal, shutdown, replacement and stuttering are ticks.
LEMMA ClockKinds ==
  ASSUME Shape,
         \/ LeaseLapses \/ BackoffElapses \/ UNCHANGED vars
         \/ \E p \in Pods : HeartbeatRow(p) \/ Terminate(p) \/ Replace(p)
  PROVE  Kept
<1>1. /\ row \in Row /\ KeepsTurn(row, row) /\ faults \in 0..MaxFaults
      /\ draining \subseteq Pods
  BY DEF Shape, TypeOK, KeepsTurn, KeepsWork
<1>2. CASE LeaseLapses
  <2>1. KeepsTurn(row, row') /\ row' \in Row
    BY <1>1, <1>2, Ticking DEF LeaseLapses, KeepsTurn, KeepsWork
  <2>2. faults' \in 0..MaxFaults
    BY <1>1, <1>2, FaultType DEF LeaseLapses, Shape
  <2> QED
    BY <1>1, <1>2, <2>1, <2>2, TickKind DEF LeaseLapses
<1>3. CASE BackoffElapses
  <2>1. KeepsTurn(row, row') /\ row' \in Row
    BY <1>1, <1>3, Ticking DEF BackoffElapses, KeepsTurn, KeepsWork
  <2> QED
    BY <1>1, <1>3, <2>1, TickKind DEF BackoffElapses
<1>4. CASE UNCHANGED vars
  BY <1>1, <1>4, TickKind DEF vars
<1>5. ASSUME NEW p \in Pods, HeartbeatRow(p) PROVE Kept
  <2>1. KeepsTurn(row, row') /\ row' \in Row
    BY <1>1, <1>5, Ticking DEF HeartbeatRow, KeepsTurn, KeepsWork
  <2> QED
    BY <1>1, <1>5, <2>1, TickKind DEF HeartbeatRow
<1>6. ASSUME NEW p \in Pods, Terminate(p) PROVE Kept
  <2>1. faults' \in 0..MaxFaults /\ ~Calm
    BY <1>6, FaultType DEF Terminate, Shape, Calm
  <2>2. draining' \subseteq Pods
    BY <1>1, <1>6 DEF Terminate
  <2> QED
    BY <1>1, <1>6, <2>1, <2>2, TickKind DEF Terminate
<1>7. ASSUME NEW p \in Pods, Replace(p) PROVE Kept
  BY <1>1, <1>7, TickKind DEF Replace
<1> QED
  BY <1>2, <1>3, <1>4, <1>5, <1>6, <1>7

\* A claim.
LEMMA ClaimKind ==
  ASSUME Shape, NEW p \in Pods, Claim(p)
  PROVE  Kept
<1> USE DEF threadVars, eventVars, claimVars
<1> DEFINE x == [Idle EXCEPT !.stage = "claimed", !.token = row.lease_token + 1,
                             !.input = row.input_seq]
<1>1. row \in Row /\ pod[p].stage = "idle" /\ row.state = "queued" /\ top \in 0..MaxSeq
  BY DEF Shape, TypeOK, Claim, VisiblePreferred
<1>2. row.lease_token + 1 \in 1..MaxToken
  BY <1>1, RowNumbers, Numbers DEF Claim
<1>3. /\ row' \in Row /\ row'.state = "leased" /\ row'.lease_token = row.lease_token + 1
      /\ row'.input_seq = row.input_seq /\ row'.consumed_seq = row.consumed_seq
      /\ Shut(row')
  BY <1>1, Claiming DEF Claim
<1>4. /\ x \in PodStates
      /\ x.stage = "claimed" /\ x.token = row.lease_token + 1 /\ x.turn = 0
      /\ x.input = row.input_seq
  <2>1. /\ row.lease_token + 1 \in 0..MaxToken /\ row.input_seq \in Seqs
        /\ "claimed" \in Stages
    BY <1>1, <1>2 DEF Row, Stages
  <2> QED
    BY <2>1, IdleType DEF PodStates
<1>5. pod' = [pod EXCEPT ![p] = x]
  BY DEF Claim
<1> HIDE DEF x
<1>6. pod' \in [Pods -> PodStates] /\ pod'[p] = x /\ PodsBut(p)
  BY <1>4, <1>5, PodUpdate DEF Shape
<1>7. TypeOK'
  BY <1>3, <1>6 DEF Shape, TypeOK, Claim
<1>8. RowFits' /\ HoldFits'
  BY <1>1, <1>2, <1>3, RowNumbers DEF Shape, RowFits, HoldFits, Claim, Shut, Leased
<1>9. PodFits(p)'
  <2>1. row.input_seq <= top /\ top >= 0 /\ top' = top
    BY <1>1 DEF Claim, Shape, RowFits
  <2> QED
    BY <1>2, <1>3, <1>4, <1>6, <2>1 DEF PodFits
<1>10. \A q \in Pods : PodFits(q)'
  BY <1>1, <1>3, <1>6, <1>9, RowNumbers, OthersFit DEF Claim
<1>11. EventsFit'
  BY <1>1, <1>3, RowNumbers DEF Shape, EventsFit, Claim, TypeOK
<1>12. GrantStep(p) /\ Steady
  BY <1>1, <1>3, <1>4, <1>6 DEF GrantStep, Steady, Claim
<1> QED
  BY <1>7, <1>8, <1>10, <1>11, <1>12 DEF Kept, Kinds, Shape

\* One executor changes, and what concerns nobody else.
LEMMA PodShape ==
  ASSUME Shape, NEW p \in Pods, NEW x \in PodStates, pod' = [pod EXCEPT ![p] = x],
         PodFits(p)',
         UNCHANGED <<row, top, owed, admitted, answered, started, stop, hold>>,
         settled' \subseteq EventSeqs, active' \in 0..MaxToken,
         draining' \subseteq Pods, faults' \in 0..MaxFaults
  PROVE  Shape' /\ pod'[p] = x /\ PodsBut(p)
<1>1. pod' \in [Pods -> PodStates] /\ pod'[p] = x /\ PodsBut(p)
  BY PodUpdate DEF Shape
<1>2. TypeOK'
  BY <1>1 DEF Shape, TypeOK
<1>3. row \in Row /\ top \in Nat
  BY Numbers DEF Shape, TypeOK
<1>4. RowFits' /\ HoldFits' /\ EventsFit'
  BY DEF Shape, RowFits, HoldFits, EventsFit, Leased
<1>5. \A q \in Pods : PodFits(q)'
  BY <1>1, <1>3, RowNumbers, OthersFit
<1> QED
  BY <1>1, <1>2, <1>4, <1>5 DEF Shape

\* A claim in another stage, with its token and turn.
LEMMA StageFits ==
  ASSUME Shape, NEW p \in Pods, pod[p].stage /= "idle",
         NEW x \in PodStates, pod' = [pod EXCEPT ![p] = x],
         x.token = pod[p].token, x.turn = pod[p].turn,
         x.stage /= "idle", x.input <= top,
         x.stage \in {"claimed", "bound"} => x.turn = 0,
         x.stage \in {"running", "ended", "died", "leaving"} => x.turn /= 0,
         UNCHANGED <<row, top>>
  PROVE  PodFits(p)'
<1>1. pod[p] \in PodStates /\ PodFits(p)
  BY DEF Shape, TypeOK
<1>2. pod'[p] = x
  BY PodUpdate DEF Shape
<1> QED
  BY <1>1, <1>2 DEF PodFits

\* Without a change of the input.
LEMMA AdvanceUpdate ==
  ASSUME Shape, NEW p \in Pods, pod[p].stage /= "idle",
         NEW stage \in Stages, stage /= "idle", Advance(p, stage),
         stage \in {"claimed", "bound"} => pod[p].turn = 0,
         stage \in {"running", "ended", "died", "leaving"} => pod[p].turn /= 0,
         UNCHANGED <<row, top>>
  PROVE  \E x \in PodStates : 
           /\ pod' = [pod EXCEPT ![p] = x] /\ PodFits(p)'
           /\ x.stage = stage /\ x.input = pod[p].input
           /\ x.token = pod[p].token /\ x.turn = pod[p].turn
<1> DEFINE x == [pod[p] EXCEPT !.stage = stage]
<1>1. pod[p].input <= top /\ pod[p] \in PodStates
  BY Elements DEF Shape, PodFits
<1>2. pod' = [pod EXCEPT ![p] = x]
  BY DEF Advance
<1>3. /\ x \in PodStates /\ x.stage = stage /\ x.input = pod[p].input
      /\ x.token = pod[p].token /\ x.turn = pod[p].turn
  BY <1>1 DEF PodStates
<1> HIDE DEF x
<1>4. PodFits(p)'
  BY <1>1, <1>2, <1>3, StageFits
<1> QED
  BY <1>2, <1>3, <1>4

\* The skip checks.
LEMMA SkipKind ==
  ASSUME Shape, NEW p \in Pods, Skip(p)
  PROVE  Kept
<1> USE DEF threadVars, eventVars, claimVars
<1>1. PICK c \in Skips(p) :
        pod' = [pod EXCEPT ![p].stage = "settling", ![p].input = c]
  BY DEF Skip
<1>2. c \in Seqs /\ c <= top
  <2>1. CASE row.consumed_seq >= pod[p].input /\ c = row.consumed_seq
    BY <2>1 DEF Shape, RowFits, TypeOK, Row
  <2>2. CASE c \in AnsweredOldest(p)
    <3>1. c \in 1..top
      BY <2>2 DEF AnsweredOldest, Humans
    <3> QED
      BY <3>1, Numbers DEF Shape, TypeOK
  <2> QED
    BY <1>1, <2>1, <2>2 DEF Skips
<1> DEFINE x == [pod[p] EXCEPT !.stage = "settling", !.input = c]
<1>3. pod' = [pod EXCEPT ![p] = x] /\ pod[p].stage = "claimed"
  BY <1>1 DEF Skip
<1>4. /\ x \in PodStates /\ x.stage = "settling" /\ x.input = c
      /\ x.token = pod[p].token /\ x.turn = pod[p].turn
  BY <1>2, Elements DEF PodStates, Stages, Shape
<1> HIDE DEF x
<1>5. PodFits(p)'
  BY <1>2, <1>3, <1>4, StageFits DEF Skip
<1>6. Shape' /\ pod'[p] = x /\ PodsBut(p)
  BY <1>3, <1>4, <1>5, PodShape DEF Skip, Shape, TypeOK
<1>7. PassStep(p) /\ Steady
  BY <1>1, <1>3, <1>4, <1>6 DEF PassStep, Passes, Steady, Skip
<1> QED
  BY <1>6, <1>7 DEF Kept, Kinds

\* The claim bundle.
LEMMA BindKind ==
  ASSUME Shape, NEW p \in Pods, Bind(p)
  PROVE  Kept
<1> USE DEF threadVars, eventVars, claimVars
<1>1. pod[p].stage = "claimed" /\ pod[p].turn = 0 /\ pod[p].token \in 0..MaxToken
  BY Elements DEF Bind, Shape, PodFits
<1>2. PICK x \in PodStates :
        /\ pod' = [pod EXCEPT ![p] = x] /\ PodFits(p)'
        /\ x.stage = "bound" /\ x.input = pod[p].input
        /\ x.token = pod[p].token /\ x.turn = pod[p].turn
  BY <1>1, AdvanceUpdate DEF Bind, Stages
<1>3. Shape' /\ pod'[p] = x /\ PodsBut(p)
  BY <1>1, <1>2, PodShape DEF Bind, Shape, TypeOK
<1>4. BindStep(p) /\ Steady
  BY <1>1, <1>2, <1>3 DEF BindStep, Steady, Bind
<1> QED
  BY <1>3, <1>4 DEF Kept, Kinds

\* Nothing is pending.
LEMMA NothingPendingKind ==
  ASSUME Shape, NEW p \in Pods, NothingPending(p)
  PROVE  Kept
<1> USE DEF threadVars, eventVars, claimVars
<1>1. PICK x \in PodStates :
        /\ pod' = [pod EXCEPT ![p] = x] /\ PodFits(p)'
        /\ x.stage = "settling" /\ x.input = pod[p].input
        /\ x.token = pod[p].token /\ x.turn = pod[p].turn
  BY AdvanceUpdate DEF NothingPending, Stages
<1>2. settled' \subseteq EventSeqs
  BY DEF NothingPending, StaleAdmissions, Shape, TypeOK
<1>3. Shape' /\ pod'[p] = x /\ PodsBut(p)
  BY <1>1, <1>2, PodShape DEF NothingPending, Shape, TypeOK
<1>4. NothingStep(p) /\ Steady
  BY <1>1, <1>3 DEF NothingStep, Steady, NothingPending
<1> QED
  BY <1>3, <1>4 DEF Kept, Kinds

\* The turn ends, is refused by a process that shuts down, or its loop dies.
LEMMA TurnStopsKind ==
  ASSUME Shape, NEW p \in Pods, TurnEnds(p) \/ TurnRefused(p) \/ LoopDies(p)
  PROVE  Kept
<1> USE DEF threadVars, eventVars, claimVars
<1>1. pod[p].stage = "running" /\ pod[p].turn /= 0
  BY DEF TurnEnds, TurnRefused, LoopDies, Shape, PodFits
<1>2. PICK stage \in {"ended", "died"} :
        /\ Advance(p, stage)
        /\ stage = "ended" => TurnEnds(p) \/ TurnRefused(p)
  BY DEF TurnEnds, TurnRefused, LoopDies
<1>3. UNCHANGED <<row, threadVars, stop, draining, claimVars>> /\ faults' \in 0..MaxFaults
  BY FaultType DEF TurnEnds, TurnRefused, LoopDies, Shape, TypeOK
<1>4. PICK x \in PodStates :
        /\ pod' = [pod EXCEPT ![p] = x] /\ PodFits(p)'
        /\ x.stage = stage /\ x.input = pod[p].input
        /\ x.token = pod[p].token /\ x.turn = pod[p].turn
  BY <1>1, <1>2, <1>3, AdvanceUpdate DEF Stages
<1>5. Shape' /\ pod'[p] = x /\ PodsBut(p)
  BY <1>3, <1>4, PodShape DEF Shape, TypeOK
<1>6. /\ Calm /\ draining = {} /\ stage = "ended" => pod[p].turn \in answered
      /\ stage = "ended" /\ AdmittedHere(p) => pod[p].turn \in answered
  BY <1>2 DEF TurnEnds, TurnRefused
<1>7. PassStep(p) /\ Steady
  BY <1>1, <1>3, <1>4, <1>5, <1>6 DEF PassStep, Passes, Steady
<1> QED
  BY <1>5, <1>7 DEF Kept, Kinds

\* What a drain remembers of a request changes nothing else of the claim.
LEMMA RequestUpdate ==
  ASSUME Shape, NEW p \in Pods, NEW r \in Requests \cup {NoRequest}, NEW v \in Verdicts,
         pod' = [pod EXCEPT ![p].req = r, ![p].verdict = v],
         row' \in Row, row'.lease_token = row.lease_token, UNCHANGED top
  PROVE  /\ pod' \in [Pods -> PodStates] /\ PodsBut(p)
         /\ pod'[p].stage = pod[p].stage /\ pod'[p].token = pod[p].token
         /\ pod'[p].turn = pod[p].turn /\ pod'[p].input = pod[p].input
<1> DEFINE x == [pod[p] EXCEPT !.req = r, !.verdict = v]
<1>1. pod[p] \in PodStates /\ pod' = [pod EXCEPT ![p] = x]
  BY Elements DEF Shape
<1>2. /\ x \in PodStates /\ x.stage = pod[p].stage /\ x.token = pod[p].token
      /\ x.turn = pod[p].turn /\ x.input = pod[p].input
  BY <1>1 DEF PodStates
<1> HIDE DEF x
<1> QED
  BY <1>1, <1>2, PodUpdate DEF Shape

\* The drain signals the loop.
LEMMA SignalKind ==
  ASSUME Shape, NEW p \in Pods, NEW r \in Requests, Signal(p, r)
  PROVE  Kept
<1> USE DEF threadVars, eventVars, claimVars
<1>1. PICK v \in SignalVerdicts(p, r) :
        pod' = [pod EXCEPT ![p].req = r, ![p].verdict = v]
  BY DEF Signal
<1>2. v \in Verdicts
  <2>1. stop[r].receipt \in Verdicts
    BY Elements DEF Shape, Stops
  <2> QED
    BY <1>1, <2>1 DEF SignalVerdicts, Verdicts
<1>3. pod[p].stage /= "idle"
  BY DEF Signal, Serving
<1> DEFINE x == [pod[p] EXCEPT !.req = r, !.verdict = v]
<1>4. pod' = [pod EXCEPT ![p] = x]
  BY <1>1
<1>5. /\ x \in PodStates /\ x.stage = pod[p].stage /\ x.token = pod[p].token
      /\ x.turn = pod[p].turn /\ x.input = pod[p].input
  BY <1>2, Elements DEF PodStates, Shape
<1> HIDE DEF x
<1>6. PodFits(p)'
  BY <1>3, <1>4, <1>5, StageFits DEF Signal, Shape, PodFits
<1>7. Shape' /\ pod'[p] = x /\ PodsBut(p)
  BY <1>4, <1>5, <1>6, PodShape DEF Signal, Shape, TypeOK
<1>8. PassStep(p) /\ Steady
  BY <1>5, <1>7 DEF PassStep, Passes, Steady, Signal
<1> QED
  BY <1>7, <1>8 DEF Kept, Kinds

\* The watcher's drain fails and is tried again.
LEMMA PolledKind ==
  ASSUME Shape, NEW p \in Pods, pod[p].stage /= "idle", Polled(p),
         faults' \in 0..MaxFaults,
         UNCHANGED <<row, threadVars, stop, draining, claimVars>>
  PROVE  Kept
<1> USE DEF threadVars, eventVars, claimVars
<1> DEFINE x == [pod[p] EXCEPT !.req = NoRequest, !.verdict = "none"]
<1>1. pod' = [pod EXCEPT ![p] = x]
  BY DEF Polled
<1>2. /\ x \in PodStates /\ x.stage = pod[p].stage /\ x.token = pod[p].token
      /\ x.turn = pod[p].turn /\ x.input = pod[p].input
  BY Elements DEF PodStates, Shape, Verdicts
<1> HIDE DEF x
<1>3. PodFits(p)'
  BY <1>1, <1>2, StageFits DEF Shape, PodFits
<1>4. Shape' /\ pod'[p] = x /\ PodsBut(p)
  BY <1>1, <1>2, <1>3, PodShape DEF Shape, TypeOK
<1>5. PassStep(p) /\ Steady
  BY <1>2, <1>4 DEF PassStep, Passes, Steady
<1> QED
  BY <1>4, <1>5 DEF Kept, Kinds

\* A receipt is written.
LEMMA ReceiptKind ==
  ASSUME Shape, NEW r \in Requests, NEW v \in Verdicts, stop[r].receipt = "none",
         stop' = [stop EXCEPT ![r].receipt = v],
         UNCHANGED <<row, threadVars, pod, draining, claimVars, faults>>
  PROVE  Kept
<1> USE DEF threadVars, eventVars, claimVars
<1> DEFINE x == [stop[r] EXCEPT !.receipt = v]
<1>1. stop[r] \in Stops /\ stop' = [stop EXCEPT ![r] = x]
  BY Elements DEF Shape
<1>2. x \in Stops /\ x.turn = stop[r].turn
  BY <1>1 DEF Stops
<1> HIDE DEF x
<1>3. stop' \in [Requests -> Stops] /\ \A q \in Requests : stop'[q].turn = stop[q].turn
  BY <1>1, <1>2 DEF Shape, TypeOK
<1>4. TypeOK'
  BY <1>3 DEF Shape, TypeOK
<1>5. RowFits' /\ HoldFits' /\ EventsFit' /\ \A q \in Pods : PodFits(q)'
  BY <1>3 DEF Shape, RowFits, HoldFits, EventsFit, PodFits, Leased
<1>6. ReceiptStep(r) /\ Steady
  BY DEF ReceiptStep, Steady
<1> QED
  BY <1>4, <1>5, <1>6 DEF Kept, Kinds, Shape

\* By the successor for the stops it found, or by the drain.
LEMMA ReceiptKinds ==
  ASSUME Shape, NEW p \in Pods,
         (\E r \in Requests : AckStale(p, r)) \/ CommitReceipt(p)
  PROVE  Kept
<1>1. ASSUME NEW r \in Requests, AckStale(p, r) PROVE Kept
  <2>1. "applied" \in Verdicts
    BY DEF Verdicts
  <2> QED
    BY <1>1, <2>1, ReceiptKind DEF AckStale
<1>2. CASE CommitReceipt(p)
  <2>1. pod[p].req \in Requests /\ pod[p].verdict \in Verdicts
    BY <1>2, Elements DEF CommitReceipt, Shape, PodStates
  <2> QED
    BY <1>2, <2>1, ReceiptKind DEF CommitReceipt
<1> QED
  BY <1>1, <1>2

\* Settled stops are stops, with the turns and tokens they had.
LEMMA SettledType ==
  ASSUME TypeOK, NEW some \in SUBSET Requests, stop' = Settled(some)
  PROVE  /\ stop' \in [Requests -> Stops]
         /\ \A q \in Requests :
              /\ stop'[q].turn = stop[q].turn /\ stop'[q].token = stop[q].token
              /\ q \notin some => stop'[q] = stop[q]
              /\ q \in some => /\ stop'[q].outcome = Verdict(q)
                               /\ stop'[q].receipt = Verdict(q)
<1>1. ASSUME NEW q \in Requests
      PROVE  /\ stop'[q] \in Stops
             /\ stop'[q].turn = stop[q].turn /\ stop'[q].token = stop[q].token
             /\ q \notin some => stop'[q] = stop[q]
             /\ q \in some => /\ stop'[q].outcome = Verdict(q)
                              /\ stop'[q].receipt = Verdict(q)
  <2>1. stop[q] \in Stops /\ Verdict(q) \in Verdicts
    BY Elements DEF Stops, Verdict, Verdicts
  <2>2. CASE q \in some
    <3> DEFINE x == [stop[q] EXCEPT !.outcome = Verdict(q), !.receipt = Verdict(q)]
    <3>1. stop'[q] = x
      BY <2>2 DEF Settled
    <3> HIDE DEF x
    <3>2. /\ x \in Stops /\ x.turn = stop[q].turn /\ x.token = stop[q].token
          /\ x.outcome = Verdict(q) /\ x.receipt = Verdict(q)
      BY <2>1 DEF x, Stops
    <3> QED
      BY <2>2, <3>1, <3>2
  <2>3. CASE q \notin some
    BY <2>1, <2>3 DEF Settled
  <2> QED
    BY <2>2, <2>3
<1>2. stop' = [q \in Requests |-> stop'[q]]
  BY DEF Settled
<1> QED
  BY <1>1, <1>2

\* The watermark passes a stop's turn, and a turn is a message.
LEMMA PassesWithin ==
  ASSUME Shape, NEW some \in SUBSET Requests, NEW r \in Row, NEW s \in Row,
         r.consumed_seq <= top, PassesStops(r, s, some)
  PROVE  s.consumed_seq <= top /\ s.consumed_seq >= r.consumed_seq
<1>1. \A q \in Applied(some) : stop[q].turn <= top
  BY DEF Applied, Shape, EventsFit
<1> QED
  BY <1>1 DEF PassesStops

\* A settlement by the holder, of its own drain or of what it found.
LEMMA SettleKind ==
  ASSUME Shape, NEW p \in Pods, NEW r \in Requests, Owns(p),
         stop[r].receipt /= "none", Settleable({r}),
         stop' = Settled({r}), row' = ConsumeLive(row, {r}),
         UNCHANGED pod \/ Polled(p),
         UNCHANGED <<threadVars, draining, claimVars, faults>>
  PROVE  Kept
<1> USE DEF threadVars, eventVars, claimVars
<1>1. row \in Row /\ top \in Nat /\ {r} \in SUBSET Requests
  BY Numbers DEF Shape, TypeOK
<1>2. /\ row' \in Row /\ row'.lease_token = row.lease_token /\ row'.state = row.state
      /\ row'.input_seq = row.input_seq
      /\ row'.adm_token = row.adm_token /\ row'.adm_turn = row.adm_turn
      /\ PassesStops(row, row', {r})
  BY <1>1, ConsumingLive DEF Shape, TypeOK
<1>3. row'.consumed_seq <= top /\ row'.consumed_seq >= row.consumed_seq
  BY <1>1, <1>2, PassesWithin DEF Shape, RowFits
<1>4. /\ stop' \in [Requests -> Stops]
      /\ \A q \in Requests : stop'[q].turn = stop[q].turn
  BY <1>1, SettledType DEF Shape
<1>5. /\ pod' \in [Pods -> PodStates] /\ PodsBut(p)
      /\ pod'[p].stage = pod[p].stage /\ pod'[p].token = pod[p].token
      /\ pod'[p].turn = pod[p].turn /\ pod'[p].input = pod[p].input
  <2>1. CASE UNCHANGED pod
    BY <2>1 DEF Shape, TypeOK, PodsBut
  <2>2. CASE Polled(p)
    <3>1. /\ NoRequest \in Requests \cup {NoRequest} /\ "none" \in Verdicts
          /\ pod' = [pod EXCEPT ![p].req = NoRequest, ![p].verdict = "none"]
      BY <2>2 DEF Polled, Verdicts
    <3> QED
      BY <1>2, <3>1, RequestUpdate
  <2> QED
    BY <2>1, <2>2
<1>6. TypeOK'
  BY <1>2, <1>4, <1>5 DEF Shape, TypeOK
<1>7. RowFits' /\ HoldFits' /\ EventsFit'
  <2>1. RowFits'
    BY <1>1, <1>2, <1>3, RowNumbers DEF Shape, RowFits, Leased
  <2>2. HoldFits'
    BY <1>2 DEF Shape, HoldFits
  <2>3. EventsFit'
    BY <1>2, <1>4 DEF Shape, EventsFit
  <2> QED
    BY <2>1, <2>2, <2>3
<1>8. PodFits(p)'
  BY <1>2, <1>5, Elements DEF Shape, PodFits, Owns
<1>9. \A q \in Pods : PodFits(q)'
  <2>1. row'.lease_token >= row.lease_token /\ top' \in Nat /\ top' >= top
    BY <1>1, <1>2, RowNumbers
  <2> QED
    BY <1>2, <1>5, <1>8, <2>1, OthersFit
<1>10. SettleStep(p, r) /\ Steady
  BY <1>2, <1>5 DEF SettleStep, Steady
<1> QED
  BY <1>6, <1>7, <1>9, <1>10 DEF Kept, Kinds, Shape

\* By the successor for the stops it found, or by the drain.
LEMMA SettleKinds ==
  ASSUME Shape, NEW p \in Pods,
         (\E r \in Requests : FinalizeStale(p, r)) \/ Finalize(p)
  PROVE  Kept
<1>1. ASSUME NEW r \in Requests, FinalizeStale(p, r) PROVE Kept
  BY <1>1, SettleKind DEF FinalizeStale, StaleAcked
<1>2. CASE Finalize(p)
  <2>1. pod[p].req \in Requests
    BY <1>2, Elements DEF Finalize, Shape, PodStates
  <2> QED
    BY <1>2, <2>1, SettleKind DEF Finalize
<1> QED
  BY <1>1, <1>2

\* What is pending is a message.
LEMMA PendingMessages ==
  ASSUME Shape
  PROVE  /\ PendingInput \subseteq 1..top /\ PendingInput \in SUBSET (0..MaxSeq)
         /\ StaleAdmissions \subseteq EventSeqs
<1>1. StaleAdmissions \subseteq 1..top /\ StaleAdmissions \subseteq EventSeqs
  <2> SUFFICES ASSUME NEW s \in StaleAdmissions PROVE s \in 1..top /\ s \in EventSeqs
    OBVIOUS
  <2>1. PICK t \in 1..MaxToken : <<s, t>> \in admitted
    BY DEF StaleAdmissions
  <2>2. s <= top /\ s \in EventSeqs
    BY <2>1 DEF Shape, EventsFit, StaleAdmissions
  <2> QED
    BY <2>2, Numbers DEF Shape, TypeOK
<1>2. owed \subseteq 1..top /\ Humans \subseteq 1..top
  BY DEF Humans, Shape, EventsFit
<1>3. 1..top \subseteq 0..MaxSeq
  BY Numbers DEF Shape, TypeOK
<1> QED
  BY <1>1, <1>2, <1>3 DEF PendingInput

\* The turn of the oldest pending input begins and its window opens.
LEMMA StartTurnKind ==
  ASSUME Shape, NEW p \in Pods, StartTurn(p)
  PROVE  Kept
<1> USE DEF threadVars, eventVars, claimVars
<1> DEFINE s == Min(PendingInput)
<1>1. s \in PendingInput /\ \A y \in PendingInput : s <= y
  BY PendingMessages, SmallestOf DEF StartTurn
<1>2. /\ OpenAllowed(row, pod[p].token, s)
      /\ row' = OpenInterrupt(row, pod[p].token, s)
      /\ started' = started \cup {s}
      /\ owed' = IF Human(s) THEN owed ELSE owed \cup {s}
      /\ admitted' = {a \in admitted : a[1] /= s}
      /\ pod' = [pod EXCEPT ![p].stage = "running", ![p].turn = s]
      /\ settled' = settled \cup (StaleAdmissions \cap answered)
      /\ pod[p].stage = "bound" /\ Stale(p) = {}
      /\ UNCHANGED <<top, answered, stop, draining, active, hold, faults>>
  BY DEF StartTurn
<1> HIDE DEF s
<1>3. s \in 1..top /\ s \in 1..MaxSeq /\ s \in Nat /\ top \in Nat
  BY <1>1, PendingMessages, Numbers DEF Shape, TypeOK
<1>4. /\ pod[p].token \in Nat /\ pod[p].token >= 1 /\ row \in Row
      /\ Leased(row, pod[p].token)
  BY <1>2, Elements DEF Shape, TypeOK, PodFits, OpenAllowed
<1>5. /\ row' \in Row /\ KeepsWork(row, row') /\ row'.state = row.state
      /\ row'.adm_token = pod[p].token /\ row'.adm_turn = s
  <2>1. /\ KeepsWork(row, row') /\ row'.state = row.state
        /\ row'.adm_token = pod[p].token /\ row'.adm_turn = s
    BY <1>2, <1>3, <1>4, Opening
  <2> QED
    BY <2>1 DEF KeepsWork
<1> DEFINE x == [pod[p] EXCEPT !.stage = "running", !.turn = s]
<1>6. pod' = [pod EXCEPT ![p] = x]
  BY <1>2
<1>7. /\ x \in PodStates /\ x.stage = "running" /\ x.turn = s
      /\ x.token = pod[p].token /\ x.input = pod[p].input
  <2>1. pod[p] \in PodStates /\ s \in 0..MaxSeq /\ "running" \in Stages
    BY <1>3, Elements DEF Shape, Stages
  <2> QED
    BY <2>1 DEF PodStates
<1> HIDE DEF x
<1>8. pod' \in [Pods -> PodStates] /\ pod'[p] = x /\ PodsBut(p)
  BY <1>6, <1>7, PodUpdate DEF Shape
<1>9. TypeOK'
  <2>1. owed' \subseteq EventSeqs /\ settled' \subseteq EventSeqs
    BY <1>2, <1>3, PendingMessages DEF Human, Shape, TypeOK
  <2>2. started' \subseteq 1..MaxSeq /\ admitted' \subseteq EventSeqs \X (1..MaxToken)
    BY <1>2, <1>3 DEF Shape, TypeOK
  <2> QED
    BY <1>2, <1>5, <1>8, <2>1, <2>2 DEF Shape, TypeOK
<1>10. RowFits' /\ HoldFits'
  BY <1>2, <1>3, <1>4, <1>5, RowNumbers DEF Shape, RowFits, HoldFits, KeepsWork, Leased
<1>11. PodFits(p)'
  BY <1>2, <1>3, <1>4, <1>5, <1>7, <1>8 DEF Shape, PodFits, KeepsWork
<1>12. \A q \in Pods : PodFits(q)'
  BY <1>2, <1>3, <1>4, <1>5, <1>8, <1>11, RowNumbers, OthersFit DEF KeepsWork
<1>13. EventsFit'
  BY <1>2, <1>3, <1>5 DEF Shape, EventsFit, KeepsWork
<1>14. BeginStep(p, s) /\ Steady
  BY <1>1, <1>2, <1>4, <1>5, <1>7, <1>8 DEF BeginStep, Steady
<1> QED
  BY <1>3, <1>9, <1>10, <1>12, <1>13, <1>14 DEF Kept, Kinds, Shape

\* The turn's own writes.
LEMMA WriteKind ==
  ASSUME Shape, NEW p \in Pods, AdmitDelivery(p) \/ Answer(p) \/ SettleDelivery(p)
  PROVE  Kept
<1> USE DEF threadVars, eventVars, claimVars
<1>1. /\ Owns(p) /\ UNCHANGED <<row, top, started, stop, pod, draining, active, hold, faults>>
      /\ pod[p].stage /= "idle" /\ pod[p].token = row.lease_token
      /\ pod[p].token \in 1..MaxToken
      /\ pod[p].turn \in 0..MaxSeq /\ pod[p].turn <= top
  BY Elements DEF AdmitDelivery, Answer, SettleDelivery, Owns, Leased, Shape, PodFits
<1>2. CASE AdmitDelivery(p)
  <2>1. /\ pod[p].stage = "running" /\ pod[p].turn \in owed
        /\ owed' = owed \ {pod[p].turn}
        /\ admitted' = admitted \cup {<<pod[p].turn, pod[p].token>>}
        /\ UNCHANGED <<settled, answered>>
    BY <1>2 DEF AdmitDelivery
  <2>2. TypeOK'
    BY <1>1, <2>1 DEF Shape, TypeOK
  <2>3. EventsFit'
    <3>1. \A a \in admitted' : a \in admitted \/ a = <<pod[p].turn, pod[p].token>>
      BY <2>1
    <3>2. \A a \in admitted' : a[1] <= top /\ a[2] <= row.lease_token
      BY <1>1, <3>1, RowNumbers DEF Shape, EventsFit, TypeOK
    <3> QED
      BY <1>1, <2>1, <3>2 DEF Shape, EventsFit
  <2> QED
    BY <1>1, <2>1, <2>2, <2>3
       DEF Shape, RowFits, HoldFits, PodFits, Leased, Kept, Kinds, WriteStep, Steady
<1>3. CASE Answer(p)
  <2>1. /\ pod[p].stage = "running" /\ answered' = answered \cup {pod[p].turn}
        /\ UNCHANGED eventVars
    BY <1>3 DEF Answer
  <2>2. pod[p].turn \in 1..top /\ pod[p].turn \in 1..MaxSeq
    BY <1>1, <2>1 DEF Shape, PodFits
  <2>3. TypeOK' /\ EventsFit'
    BY <1>1, <2>1, <2>2 DEF Shape, TypeOK, EventsFit
  <2> QED
    BY <1>1, <2>1, <2>3
       DEF Shape, RowFits, HoldFits, PodFits, Leased, Kept, Kinds, WriteStep, Steady
<1>4. CASE SettleDelivery(p)
  <2>1. /\ pod[p].stage \in {"ended", "settling"} /\ AdmittedHere(p)
        /\ settled' = settled \cup {pod[p].turn}
        /\ UNCHANGED <<owed, admitted, answered>>
    BY <1>4 DEF SettleDelivery
  <2>2. pod[p].turn \in EventSeqs
    BY <2>1 DEF AdmittedHere, Shape, TypeOK
  <2>3. TypeOK' /\ EventsFit'
    BY <1>1, <2>1, <2>2 DEF Shape, TypeOK, EventsFit
  <2> QED
    BY <1>1, <2>1, <2>3
       DEF Shape, RowFits, HoldFits, PodFits, Leased, Kept, Kinds, WriteStep, Steady
<1> QED
  BY <1>2, <1>3, <1>4

\* The close of the window with the checkpoint.
LEMMA CloseKind ==
  ASSUME Shape, NEW p \in Pods, Close(p)
  PROVE  Kept
<1> USE DEF threadVars, eventVars, claimVars
<1> DEFINE c == Checkpoint(p)
           stage == IF pod[p].stage = "ended" THEN "settling" ELSE "leaving"
           x == [pod[p] EXCEPT !.stage = stage, !.input = c]
<1>1. /\ pod[p].stage \in {"ended", "died"}
      /\ CloseAllowed(row, pod[p].token, pod[p].turn, c, Exact(p))
      /\ row' = CloseInterrupt(row, c)
      /\ pod' = [pod EXCEPT ![p] = x]
      /\ UNCHANGED <<threadVars, stop, draining, claimVars, faults>>
  BY DEF Close
<1>2. /\ row \in Row /\ top \in Nat /\ pod[p] \in PodStates /\ PodFits(p)
      /\ pod[p].turn \in Nat /\ pod[p].turn <= top
  BY Elements, Numbers DEF Shape, TypeOK, PodFits
<1>3. c \in Seqs /\ c \in Int /\ c <= top
  BY <1>2, Numbers DEF Checkpoint, NullSeq, Seqs
<1> HIDE DEF c
<1>4. /\ row' \in Row /\ row'.lease_token = row.lease_token /\ row'.state = row.state
      /\ row'.input_seq = row.input_seq /\ row'.consumed_seq = Max2(row.consumed_seq, c)
      /\ Shut(row')
  BY <1>1, <1>2, <1>3, Closing
<1>5. row'.consumed_seq >= row.consumed_seq /\ row'.consumed_seq <= top
  BY <1>2, <1>3, <1>4, RowNumbers, LargerOf DEF Shape, RowFits
<1>6. stage \in {"settling", "leaving"} /\ stage \in Stages
  BY DEF Stages
<1> HIDE DEF stage
<1>7. /\ x \in PodStates /\ x.stage = stage /\ x.input = c
      /\ x.token = pod[p].token /\ x.turn = pod[p].turn
  BY <1>2, <1>3, <1>6 DEF PodStates
<1> HIDE DEF x
<1>8. pod' \in [Pods -> PodStates] /\ pod'[p] = x /\ PodsBut(p)
  BY <1>1, <1>7, PodUpdate DEF Shape
<1>9. TypeOK'
  BY <1>1, <1>4, <1>8 DEF Shape, TypeOK
<1>10. RowFits'
  BY <1>1, <1>2, <1>4, <1>5, RowNumbers DEF Shape, RowFits, Shut
<1>11. HoldFits' /\ EventsFit'
  BY <1>1, <1>4 DEF Shape, HoldFits, EventsFit
<1>12. PodFits(p)'
  BY <1>1, <1>2, <1>3, <1>4, <1>6, <1>7, <1>8 DEF PodFits
<1>13. \A q \in Pods : PodFits(q)'
  BY <1>1, <1>2, <1>4, <1>8, <1>12, RowNumbers, OthersFit
<1>14. CloseStep(p) /\ Steady
  BY <1>1, <1>4, <1>7, <1>8 DEF CloseStep, Steady, c, stage
<1> QED
  BY <1>9, <1>10, <1>11, <1>13, <1>14 DEF Kept, Kinds, Shape

\* An executor without a claim fits.
LEMMA IdleFits ==
  ASSUME Shape, NEW p \in Pods, Abandon(p), row' \in Row, UNCHANGED top
  PROVE  /\ pod' \in [Pods -> PodStates] /\ pod'[p] = Idle /\ PodsBut(p)
         /\ PodFits(p)'
<1>1. pod' \in [Pods -> PodStates] /\ pod'[p] = Idle /\ PodsBut(p)
  BY IdleType, PodUpdate DEF Shape, Abandon
<1>2. top \in Nat
  BY Numbers DEF Shape, TypeOK
<1> QED
  BY <1>1, <1>2, IdleType DEF PodFits, NullSeq

\* A claim is forgotten: by a crash, or by whoever finds it lost.
LEMMA ForgetKind ==
  ASSUME Shape, NEW p \in Pods, Abandon(p), draining' \subseteq draining,
         faults' \in 0..MaxFaults, UNCHANGED <<row, threadVars, stop, claimVars>>
  PROVE  Kept
<1> USE DEF threadVars, eventVars, claimVars
<1>1. pod' = [pod EXCEPT ![p] = Idle]
  BY DEF Abandon
<1>2. Shape' /\ pod'[p] = Idle /\ PodsBut(p)
  BY <1>1, IdleType, IdleFits, PodShape DEF Shape, TypeOK
<1> QED
  BY <1>2 DEF Kept, Kinds, ForgetStep, Steady

\* The holder gives its lease up, its work undone.
LEMMA DisposeKind ==
  ASSUME Shape, NEW p \in Pods, NEW r \in Row, Dispose(p, r), GivesUp(row, r),
         draining' = draining, faults' \in 0..MaxFaults,
         UNCHANGED <<threadVars, stop, claimVars>>
  PROVE  Kept
<1> USE DEF threadVars, eventVars, claimVars
<1>1. row' = r /\ Owns(p) /\ Abandon(p) /\ row \in Row /\ top \in Nat
  BY Numbers DEF Dispose, Shape, TypeOK
<1>2. pod' \in [Pods -> PodStates] /\ pod'[p] = Idle /\ PodsBut(p) /\ PodFits(p)'
  BY <1>1, IdleFits
<1>3. TypeOK'
  BY <1>1, <1>2 DEF Shape, TypeOK
<1>4. RowFits' /\ EventsFit'
  BY <1>1, RowNumbers
     DEF Shape, RowFits, EventsFit, GivesUp, KeepsWork, Shut, Owns, Leased
<1>5. HoldFits'
  BY <1>1 DEF Shape, HoldFits, Owns, Leased
<1>6. \A q \in Pods : PodFits(q)'
  BY <1>1, <1>2, RowNumbers, OthersFit DEF GivesUp, KeepsWork
<1>7. DisposeStep(p) /\ Steady
  BY <1>1, <1>2 DEF DisposeStep, GivesUp, KeepsWork, Steady
<1> QED
  BY <1>3, <1>4, <1>5, <1>6, <1>7 DEF Kept, Kinds, Shape

\* By one of the statements that do so.
LEMMA GiveUpKind ==
  ASSUME Shape, NEW p \in Pods,
         \/ \E due \in BOOLEAN : Dispose(p, Release(row, due))
         \/ Dispose(p, ReleaseDeterministic(row))
         \/ Dispose(p, Park(row, "executor")),
         draining' = draining, faults' \in 0..MaxFaults,
         UNCHANGED <<threadVars, stop, claimVars>>
  PROVE  Kept
<1>1. row \in Row
  BY DEF Shape, TypeOK
<1>2. ASSUME NEW due \in BOOLEAN
      PROVE  /\ Release(row, due) \in Row /\ GivesUp(row, Release(row, due))
             /\ ReleaseDeterministic(row) \in Row
             /\ GivesUp(row, ReleaseDeterministic(row))
             /\ Park(row, "executor") \in Row /\ GivesUp(row, Park(row, "executor"))
  BY <1>1, GivingUp DEF GivesUp, KeepsWork
<1>3. ASSUME NEW due \in BOOLEAN, Dispose(p, Release(row, due)) PROVE Kept
  BY <1>2, <1>3, DisposeKind
<1>4. CASE Dispose(p, ReleaseDeterministic(row))
  BY <1>2, <1>4, DisposeKind
<1>5. CASE Dispose(p, Park(row, "executor"))
  BY <1>2, <1>5, DisposeKind
<1> QED
  BY <1>3, <1>4, <1>5

\* The claim comes to its end: complete_unit.
LEMMA FinishKind ==
  ASSUME Shape, NEW p \in Pods, Finish(p)
  PROVE  Kept
<1> USE DEF threadVars, eventVars, claimVars
<1> DEFINE c == pod[p].input
           o == owed /= {}
<1>1. /\ row' = Complete(row, c, o) /\ Owns(p) /\ Abandon(p)
      /\ pod[p].stage = "settling" /\ row \in Row /\ top \in Nat
      /\ c \in Seqs /\ c \in Int /\ c <= top /\ o \in BOOLEAN
      /\ UNCHANGED <<threadVars, stop, draining, claimVars, faults>>
  BY Elements, Numbers DEF Finish, Dispose, Shape, TypeOK, PodFits
<1> HIDE DEF o
<1>2. /\ row' \in Row /\ row'.lease_token = row.lease_token
      /\ row'.input_seq = row.input_seq /\ row'.consumed_seq = Max2(row.consumed_seq, c)
      /\ row'.state \in {"queued", "done"} /\ Shut(row')
      /\ row'.state = "done" => row.input_seq <= row'.consumed_seq
  BY <1>1, Completing
<1>3. /\ row'.consumed_seq >= row.consumed_seq /\ row'.consumed_seq <= top
      /\ row.state = "leased" /\ row.input_seq = top
  BY <1>1, <1>2, RowNumbers, LargerOf DEF Shape, RowFits, Owns, Leased
<1>4. pod' \in [Pods -> PodStates] /\ pod'[p] = Idle /\ PodsBut(p) /\ PodFits(p)'
  BY <1>1, <1>2, IdleFits
<1>5. TypeOK'
  BY <1>1, <1>2, <1>4 DEF Shape, TypeOK
<1>6. RowFits'
  BY <1>1, <1>2, <1>3, RowNumbers DEF Shape, RowFits, Shut
<1>7. HoldFits' /\ EventsFit'
  BY <1>1, <1>2, <1>3 DEF Shape, HoldFits, EventsFit
<1>8. \A q \in Pods : PodFits(q)'
  BY <1>1, <1>2, <1>4, RowNumbers, OthersFit
<1>9. DisposeStep(p) /\ Steady
  BY <1>1, <1>2, <1>4 DEF DisposeStep, Steady
<1> QED
  BY <1>5, <1>6, <1>7, <1>8, <1>9 DEF Kept, Kinds, Shape

\* The reaper and the reconciler change the row, the stops and the hold.
LEMMA TakeShape ==
  ASSUME Shape, NEW some \in SUBSET Requests, stop' = Settled(some),
         row' \in Row, row.state /= "absent", row'.input_seq = row.input_seq,
         row'.lease_token \in {row.lease_token, row.lease_token + 1},
         row'.lease_token <= MaxToken, Shut(row'),
         row'.state \in {"queued", "parked", "done"},
         row'.state = "done" => row'.input_seq <= row'.consumed_seq,
         PassesStops(row, row', some),
         active' \in 0..MaxToken, HoldFits',
         hold' \in [token : 0..MaxToken, state : {"queued", "parked", "done"},
                    reason : Reasons],
         UNCHANGED <<threadVars, pod, draining, faults>>
  PROVE  Shape'
<1> USE DEF threadVars, eventVars
<1>1. row \in Row /\ top \in Nat
  BY Numbers DEF Shape, TypeOK
<1>2. row'.consumed_seq <= top /\ row'.consumed_seq >= row.consumed_seq
  BY <1>1, PassesWithin DEF Shape, RowFits
<1>3. /\ stop' \in [Requests -> Stops]
      /\ \A q \in Requests : stop'[q].turn = stop[q].turn
  BY SettledType DEF Shape
<1>4. TypeOK'
  BY <1>3 DEF Shape, TypeOK
<1>5. RowFits'
  BY <1>1, <1>2, RowNumbers DEF Shape, RowFits, Shut
<1>6. row'.lease_token >= row.lease_token /\ top' \in Nat /\ top' >= top
  BY <1>1, RowNumbers
<1>7. \A q \in Pods : PodFits(q)'
  BY <1>6, PodsFit
<1>8. EventsFit'
  <2>1. \A a \in admitted : a[2] \in Nat
    BY Elements DEF Shape
  <2> QED
    BY <1>1, <1>3, <1>6, <2>1, RowNumbers DEF Shape, EventsFit
<1> QED
  BY <1>4, <1>5, <1>7, <1>8 DEF Shape

\* The stops that the reaper and the reconciler take along.
LEMMA StolenStops ==
  ASSUME Shape, NEW r \in Row, row.lease_token <= r.lease_token,
         r.consumed_seq = row.consumed_seq, NEW some \in SUBSET Requests
  PROVE  LET s == ConsumeIdle(r, some) IN
         /\ s \in Row /\ s.lease_token = r.lease_token
         /\ s.input_seq = r.input_seq
         /\ PassesStops(row, s, some)
         /\ \/ /\ s.state = r.state
               /\ s.adm_token = r.adm_token /\ s.adm_turn = r.adm_turn
            \/ /\ s.state \in {"queued", "done"} /\ Shut(s)
               /\ s.state = "done" => s.input_seq <= s.consumed_seq
<1>1. stop \in [Requests -> Stops]
  BY DEF Shape, TypeOK
<1> DEFINE s == ConsumeIdle(r, some)
<1>2. /\ s \in Row /\ s.lease_token = r.lease_token
      /\ s.input_seq = r.input_seq
      /\ PassesStops(r, s, some)
      /\ \/ /\ s.state = r.state
            /\ s.adm_token = r.adm_token /\ s.adm_turn = r.adm_turn
         \/ /\ s.state \in {"queued", "done"} /\ Shut(s)
            /\ s.state = "done" => s.input_seq <= s.consumed_seq
  BY <1>1, ConsumingIdle
<1> HIDE DEF s
<1>3. PassesStops(row, s, some)
  BY <1>2 DEF PassesStops
<1> QED
  BY <1>2, <1>3 DEF s

\* The steal of a session.
LEMMA StealKind ==
  ASSUME Shape, Steal
  PROVE  Kept
<1> USE DEF threadVars, eventVars, claimVars
<1> DEFINE old == row.lease_token
           group == {r \in Requests : Pending(r) /\ stop[r].token = old}
           reaped == ReapSteal(row, FALSE)
           stolen == ConsumeIdle(reaped, group)
           reason == IF stolen.state = "parked" THEN stolen.park_reason ELSE "none"
<1>1. /\ row.state = "leased" /\ old < MaxToken /\ Settleable(group)
      /\ stop' = Settled(group) /\ active' = 0
      /\ UNCHANGED <<threadVars, pod, draining, faults>>
      /\ IF MustHold(row)
         THEN /\ row' = [stolen EXCEPT !.state = "parked",
                           !.park_reason = "claim_loss_hold", !.last_leased_by = NoPod]
              /\ hold' = [token |-> old, state |-> stolen.state, reason |-> reason]
         ELSE row' = stolen /\ hold' = NoHold
  BY DEF Steal, ReapCandidate
<1>2. row \in Row /\ old \in Nat /\ old \in 0..MaxToken
  BY RowNumbers, Numbers DEF Shape, TypeOK, RowFits
<1>3. /\ reaped \in Row /\ reaped.lease_token = old + 1
      /\ reaped.input_seq = row.input_seq /\ reaped.consumed_seq = row.consumed_seq
      /\ reaped.state \in {"queued", "parked"} /\ Shut(reaped)
  BY <1>2, Stealing
<1>4. group \in SUBSET Requests /\ \A r \in group : Pending(r) /\ stop[r].token = old
  OBVIOUS
<1>5. \A r \in Requests : Pending(r) /\ stop[r].token = old => r \in group
  OBVIOUS
<1> HIDE DEF old, group, reaped
<1>6. row.lease_token <= reaped.lease_token
  BY <1>2, <1>3 DEF old
<1>7. /\ stolen \in Row /\ stolen.lease_token = old + 1
      /\ stolen.input_seq = row.input_seq /\ PassesStops(row, stolen, group)
      /\ stolen.state \in {"queued", "parked", "done"} /\ Shut(stolen)
      /\ stolen.state = "done" => stolen.input_seq <= stolen.consumed_seq
  BY <1>3, <1>4, <1>6, StolenStops DEF Shut
<1>8. reason \in Reasons /\ "claim_loss_hold" \in Reasons /\ "none" \in Reasons
  BY <1>7 DEF Row, Reasons
<1> HIDE DEF stolen, reason
<1>9. /\ row' \in Row /\ row'.lease_token = old + 1
      /\ row'.input_seq = row.input_seq /\ PassesStops(row, row', group)
      /\ row'.state \in {"queued", "parked", "done"} /\ Shut(row')
      /\ row'.state = "done" => row'.input_seq <= row'.consumed_seq
      /\ MustHold(row) => row'.state = "parked"
  <2>1. CASE MustHold(row)
    <3>1. row' = [stolen EXCEPT !.state = "parked",
                    !.park_reason = "claim_loss_hold", !.last_leased_by = NoPod]
      BY <1>1, <2>1
    <3>2. /\ row' \in Row /\ row'.lease_token = stolen.lease_token
          /\ row'.input_seq = stolen.input_seq
          /\ row'.consumed_seq = stolen.consumed_seq
          /\ row'.state = "parked" /\ Shut(row')
      BY <1>7, <1>8, <3>1, ColumnValues DEF Row, Shut
    <3>3. PassesStops(row, row', group)
      BY <1>7, <3>2 DEF PassesStops
    <3> QED
      BY <1>7, <3>2, <3>3
  <2>2. CASE ~MustHold(row)
    BY <1>1, <1>7, <2>2
  <2> QED
    BY <2>1, <2>2
<1>10. /\ hold' \in [token : 0..MaxToken, state : {"queued", "parked", "done"},
                     reason : Reasons]
       /\ IF MustHold(row) THEN hold'.token = old ELSE hold'.token = 0
  BY <1>1, <1>2, <1>7, <1>8, Numbers DEF NoHold
<1>11. HoldFits'
  BY <1>2, <1>9, <1>10 DEF HoldFits
<1>12. Shape'
  BY <1>1, <1>2, <1>4, <1>9, <1>10, <1>11, Numbers, TakeShape DEF old
<1>13. TakeStep(group) /\ Steady
  BY <1>1, <1>2, <1>4, <1>5, <1>9, <1>10 DEF TakeStep, Steady, MustHold, old
<1> QED
  BY <1>4, <1>12, <1>13 DEF Kept, Kinds

\* The stops of earlier leases on a parked row.
LEMMA RetryStaleKind ==
  ASSUME Shape, RetryStale
  PROVE  Kept
<1> USE DEF threadVars, eventVars, claimVars
<1> DEFINE group == {r \in Requests : Pending(r) /\ stop[r].token < row.lease_token}
<1>1. /\ row.state = "parked" /\ hold.token = 0 /\ Settleable(group)
      /\ stop' = Settled(group) /\ row' = ConsumeIdle(row, group)
      /\ UNCHANGED <<threadVars, pod, draining, claimVars, faults>>
  BY DEF RetryStale
<1>2. row \in Row /\ row.lease_token \in Nat /\ Shut(row)
  BY <1>1, RowNumbers DEF Shape, TypeOK, RowFits, Shut, Leased
<1>3. /\ group \in SUBSET Requests
      /\ \A r \in group : Pending(r) /\ stop[r].token <= row.lease_token
  BY <1>2, Elements DEF Shape
<1> HIDE DEF group
<1>4. /\ row' \in Row /\ row'.lease_token = row.lease_token
      /\ row'.input_seq = row.input_seq /\ PassesStops(row, row', group)
      /\ row'.state \in {"queued", "parked", "done"} /\ Shut(row')
      /\ row'.state = "done" => row'.input_seq <= row'.consumed_seq
  BY <1>1, <1>2, <1>3, StolenStops DEF Shut
<1>5. Shape'
  BY <1>1, <1>3, <1>4, TakeShape DEF Shape, TypeOK, RowFits, HoldFits
<1>6. TakeStep(group) /\ Steady
  BY <1>1, <1>3, <1>4 DEF TakeStep, Steady
<1> QED
  BY <1>3, <1>5, <1>6 DEF Kept, Kinds

\* The hold is released: the row gets back what the steal decided.
LEMMA AckQuiescedKind ==
  ASSUME Shape, AckQuiesced
  PROVE  Kept
<1> USE DEF threadVars, eventVars, claimVars
<1> DEFINE next == IF hold.state = "done" /\ Debt(row, row.consumed_seq, FALSE)
                   THEN "queued" ELSE hold.state
<1>1. /\ hold.token /= 0 /\ \A p \in Pods : pod[p].token /= hold.token
      /\ row' = [row EXCEPT !.state = next, !.park_reason = hold.reason]
      /\ hold' = NoHold
      /\ UNCHANGED <<threadVars, stop, pod, draining, active, faults>>
  BY DEF AckQuiesced
<1>2. /\ row \in Row /\ top \in Nat /\ row.state = "parked"
      /\ hold.state \in {"queued", "parked", "done"} /\ hold.reason \in Reasons
  BY <1>1, Numbers DEF Shape, TypeOK, HoldFits
<1>3. /\ next \in {"queued", "parked", "done"} /\ next \in States
      /\ next = "done" => row.input_seq <= row.consumed_seq
  BY <1>2, RowNumbers, ColumnValues DEF Debt, NullSeq
<1> HIDE DEF next
<1>4. /\ row' \in Row /\ row'.lease_token = row.lease_token /\ row'.state = next
      /\ row'.input_seq = row.input_seq /\ row'.consumed_seq = row.consumed_seq
      /\ row'.adm_token = row.adm_token /\ row'.adm_turn = row.adm_turn
  BY <1>1, <1>2, <1>3 DEF Row
<1>5. hold' \in [token : 0..MaxToken, state : {"queued", "parked", "done"},
                 reason : Reasons] /\ hold'.token = 0
  BY <1>1, Numbers DEF NoHold, Reasons
<1>6. TypeOK' /\ HoldFits' /\ EventsFit'
  BY <1>1, <1>4, <1>5 DEF Shape, TypeOK, HoldFits, EventsFit
<1>7. RowFits'
  BY <1>1, <1>2, <1>3, <1>4 DEF Shape, RowFits, Leased
<1>8. \A q \in Pods : PodFits(q)'
  BY <1>1, <1>2, <1>4, RowNumbers, PodsFit
<1>9. LiftStep /\ Steady
  BY <1>1, <1>2, <1>3, <1>4, <1>5 DEF LiftStep, Steady
<1> QED
  BY <1>6, <1>7, <1>8, <1>9 DEF Kept, Kinds, Shape

\* The operator lifts a park.
LEMMA UnparkUnitKind ==
  ASSUME Shape, UnparkUnit
  PROVE  Kept
<1> USE DEF threadVars, eventVars, claimVars
<1>1. /\ row.state = "parked" /\ hold.token = 0 /\ row \in Row /\ top \in Nat
      /\ row' = Unpark(row)
      /\ UNCHANGED <<threadVars, stop, pod, draining, claimVars, faults>>
  BY Numbers DEF UnparkUnit, Shape, TypeOK
<1>2. /\ KeepsWork(row, row') /\ row' \in Row /\ row'.state = "queued"
      /\ row'.adm_token = row.adm_token /\ row'.adm_turn = row.adm_turn
  BY <1>1, Unparking DEF KeepsWork
<1>3. TypeOK' /\ HoldFits' /\ EventsFit'
  BY <1>1, <1>2 DEF Shape, TypeOK, HoldFits, EventsFit, KeepsWork
<1>4. RowFits'
  BY <1>1, <1>2 DEF Shape, RowFits, Leased, KeepsWork
<1>5. \A q \in Pods : PodFits(q)'
  BY <1>1, <1>2, RowNumbers, PodsFit DEF KeepsWork
<1>6. LiftStep /\ Steady
  BY <1>1, <1>2 DEF LiftStep, Steady, KeepsWork
<1> QED
  BY <1>3, <1>4, <1>5, <1>6 DEF Kept, Kinds, Shape

\* A claim that is forgotten by its executor.
LEMMA ForgetKinds ==
  ASSUME Shape, NEW p \in Pods, CloseRefused(p) \/ LearnLost(p) \/ Crash(p)
  PROVE  Kept
<1>1. /\ Abandon(p) /\ draining' \subseteq draining
      /\ faults' \in 0..MaxFaults /\ UNCHANGED <<row, threadVars, stop, claimVars>>
  BY FaultType DEF CloseRefused, LearnLost, Crash, Shape, TypeOK
<1> QED
  BY <1>1, ForgetKind

\* A claim that is given up.
LEMMA GiveUpKinds ==
  ASSUME Shape, NEW p \in Pods,
         GiveBack(p) \/ RecoveryFails(p) \/ CompletionFails(p) \/ Leave(p) \/ HandBack(p)
  PROVE  Kept
<1>1. /\ draining' = draining /\ faults' \in 0..MaxFaults
      /\ UNCHANGED <<threadVars, stop, claimVars>>
  BY FaultType DEF GiveBack, RecoveryFails, CompletionFails, Leave, HandBack, Shape,
     TypeOK
<1>2. \/ \E due \in BOOLEAN : Dispose(p, Release(row, due))
      \/ Dispose(p, ReleaseDeterministic(row))
      \/ Dispose(p, Park(row, "executor"))
  BY DEF GiveBack, RecoveryFails, CompletionFails, Leave, HandBack
<1> QED
  BY <1>1, <1>2, GiveUpKind

\* The drain raises.
LEMMA DrainFailsKind ==
  ASSUME Shape, NEW p \in Pods, DrainFails(p), draining' = draining,
         faults' \in 0..MaxFaults, UNCHANGED <<threadVars, stop, claimVars>>
  PROVE  Kept
<1>1. CASE Polled(p) /\ UNCHANGED row /\ pod[p].stage \in {"running", "ended", "died"}
  BY <1>1, PolledKind
<1>2. CASE Abandon(p) /\ UNCHANGED row
  BY <1>2, ForgetKind
<1>3. CASE Dispose(p, Park(row, "executor"))
  BY <1>3, GiveUpKind
<1> QED
  BY <1>1, <1>2, <1>3 DEF DrainFails

\* Because the stop cannot be mapped to its input, or the journal is down.
LEMMA DrainFailsKinds ==
  ASSUME Shape, NEW p \in Pods, FinalizeFails(p) \/ JournalFails(p)
  PROVE  Kept
<1>1. /\ DrainFails(p) /\ draining' = draining /\ faults' \in 0..MaxFaults
      /\ UNCHANGED <<threadVars, stop, claimVars>>
  BY FaultType DEF FinalizeFails, JournalFails, Shape, TypeOK
<1> QED
  BY <1>1, DrainFailsKind

-----------------------------------------------------------------------------
(***************************************************************************)
(* Types.                                                                  *)
(***************************************************************************)

\* An executor's step.
LEMMA ExecutorKinds ==
  ASSUME Shape, NEW p \in Pods, Executor(p)
  PROVE  Kept
<1>1. CASE Claim(p)
  BY <1>1, ClaimKind
<1>2. CASE Turn(p)
  <2>1. CASE Skip(p) \/ Bind(p) \/ NothingPending(p)
    BY <2>1, SkipKind, BindKind, NothingPendingKind
  <2>2. CASE RecoveryFails(p) \/ Leave(p)
    BY <2>2, GiveUpKinds
  <2>3. ASSUME NEW r \in Requests, AckStale(p, r) \/ FinalizeStale(p, r) PROVE Kept
    BY <2>3, ReceiptKinds, SettleKinds
  <2>4. CASE StartTurn(p) \/ AdmitDelivery(p) \/ Answer(p)
    BY <2>4, StartTurnKind, WriteKind
  <2>5. CASE TurnEnds(p) \/ TurnRefused(p)
    BY <2>5, TurnStopsKind
  <2>6. CASE Close(p) \/ Finish(p)
    BY <2>6, CloseKind, FinishKind
  <2>7. CASE CloseRefused(p) \/ LearnLost(p)
    BY <2>7, ForgetKinds
  <2> QED
    BY <1>2, <2>1, <2>2, <2>3, <2>4, <2>5, <2>6, <2>7 DEF Turn
<1>3. CASE Drain(p)
  <2>1. ASSUME NEW r \in Requests, Signal(p, r) PROVE Kept
    BY <2>1, SignalKind
  <2>2. CASE CommitReceipt(p) \/ Finalize(p) \/ FinalizeFails(p)
    BY <2>2, ReceiptKinds, SettleKinds, DrainFailsKinds
  <2> QED
    BY <1>3, <2>1, <2>2 DEF Drain
<1>4. CASE SettleDelivery(p)
  BY <1>4, WriteKind
<1>5. CASE HeartbeatRow(p) \/ Replace(p) \/ Terminate(p)
  BY <1>5, ClockKinds
<1>6. CASE HandBack(p) \/ GiveBack(p) \/ CompletionFails(p)
  BY <1>6, GiveUpKinds
<1>7. CASE LoopDies(p)
  BY <1>7, TurnStopsKind
<1>8. CASE JournalFails(p)
  BY <1>8, DrainFailsKinds
<1>9. CASE Crash(p)
  BY <1>9, ForgetKinds
<1> QED
  BY <1>1, <1>2, <1>3, <1>4, <1>5, <1>6, <1>7, <1>8, <1>9 DEF Executor

\* Every step.
LEMMA StepKinds ==
  ASSUME Shape, [Next]_vars
  PROVE  Kept
<1>1. CASE AdmitMessage
  BY <1>1, AdmitMessageKind
<1>2. ASSUME NEW r \in Requests, AdmitStop(r) PROVE Kept
  BY <1>2, AdmitStopKind
<1>3. ASSUME NEW p \in Pods, Executor(p) PROVE Kept
  BY <1>3, ExecutorKinds
<1>4. CASE LeaseLapses \/ BackoffElapses \/ UNCHANGED vars
  BY <1>4, ClockKinds
<1>5. CASE Steal \/ RetryStale
  BY <1>5, StealKind, RetryStaleKind
<1>6. CASE AckQuiesced \/ UnparkUnit
  BY <1>6, AckQuiescedKind, UnparkUnitKind
<1> QED
  BY <1>1, <1>2, <1>3, <1>4, <1>5, <1>6 DEF Next, Control

\* Nothing has happened yet.
LEMMA InitShape ==
  Init => Shape
<1> SUFFICES ASSUME Init PROVE Shape
  OBVIOUS
<1>1. NoRow \in Row
  BY ColumnValues DEF NoRow, Row, States, Signatures
<1>2. NoStop \in Stops /\ NoStop.turn = 0
  BY Numbers DEF NoStop, Stops, Verdicts
<1>3. NoHold \in [token : 0..MaxToken, state : {"queued", "parked", "done"},
                  reason : Reasons] /\ NoHold.token = 0
  BY Numbers DEF NoHold, Reasons
<1>4. TypeOK
  BY <1>1, <1>2, <1>3, IdleType, Numbers DEF Init, TypeOK
<1>5. RowFits
  BY Numbers DEF Init, RowFits, NoRow, NullSeq
<1>6. HoldFits /\ EventsFit /\ \A p \in Pods : PodFits(p)
  BY <1>2, <1>3, IdleType DEF Init, HoldFits, EventsFit, PodFits, NullSeq
<1> QED
  BY <1>4, <1>5, <1>6 DEF Shape

\* In every state: the ranges of TypeOK, and that rows, claims, stops, holds and
\* events name only messages that were sent and leases that were granted.
THEOREM ShapeHolds ==
  Spec => []Shape
<1>1. Shape /\ [Next]_vars => Shape'
  BY StepKinds DEF Kept
<1> QED
  BY <1>1, InitShape, PTL DEF Spec

\* Type correctness: no operation takes a column, a claim or a stop out of its
\* range, whatever the bounds are.
THEOREM TypesHold ==
  Spec => []TypeOK
<1>1. Shape => TypeOK
  BY DEF Shape
<1> QED
  BY <1>1, ShapeHolds, PTL

-----------------------------------------------------------------------------
(***************************************************************************)
(* One executor in the workspace.  A steal makes two claims of one session *)
(* alive at once; the hold keeps the second from the credentials until the *)
(* first is gone.                                                          *)
(***************************************************************************)

\* No two claims have one token.
Apart == \A p, q \in Pods : p /= q /\ pod[p].stage /= "idle" =>
             pod[p].token /= pod[q].token

\* Whoever is in the workspace is the claimant that the thread names, or the one
\* that the hold waits for.
Known == \A p \in Pods : Attached(p) =>
            \/ hold.token = pod[p].token
            \/ Leased(row, pod[p].token) /\ active = pod[p].token

\* Claims whose stage, token and turn stay are as they were.
LEMMA SameClaims ==
  ASSUME Apart, Known,
         \A q \in Pods : /\ pod'[q].stage = pod[q].stage
                         /\ pod'[q].token = pod[q].token /\ pod'[q].turn = pod[q].turn
  PROVE  /\ Apart'
         /\ \A q \in Pods : Attached(q)' <=> Attached(q)
         /\ row'.state = row.state /\ row'.lease_token = row.lease_token
              /\ UNCHANGED claimVars => Known'
<1>1. Apart'
  BY DEF Apart
<1>2. \A q \in Pods : Attached(q)' <=> Attached(q)
  BY DEF Attached
<1> QED
  BY <1>1, <1>2 DEF Known, Leased, claimVars

\* The claims of the others, when one changes.
LEMMA OthersKnown ==
  ASSUME Known, NEW p \in Pods, PodsBut(p), row'.state = row.state,
         row'.lease_token = row.lease_token, UNCHANGED claimVars,
         pod'[p].token = pod[p].token, Attached(p)' => Attached(p)
  PROVE  Known'
<1> SUFFICES ASSUME NEW q \in Pods, Attached(q)'
             PROVE  \/ hold'.token = pod'[q].token
                    \/ Leased(row', pod'[q].token) /\ active' = pod'[q].token
  BY DEF Known, Leased
<1> QED
  BY DEF Known, PodsBut, Attached, Leased, claimVars

\* Every kind of step keeps the claims apart and the claimants known.
LEMMA ClaimsStep ==
  ASSUME Shape, Shape', Apart, Known, Kinds
  PROVE  Apart' /\ Known'
<1> USE DEF threadVars, eventVars, claimVars
<1>1. /\ row \in Row /\ row.lease_token \in Nat
      /\ \A q \in Pods : /\ pod[q].token \in Nat
                         /\ pod[q].stage /= "idle" => pod[q].token \in 1..row.lease_token
                         /\ pod[q].stage = "idle" => pod[q].token = 0
                         /\ pod[q].stage \in {"claimed", "bound"} => pod[q].turn = 0
  BY RowNumbers, Elements, IdleType DEF Shape, TypeOK, PodFits
<1>2. \A q \in Pods : Attached(q) => pod[q].stage /= "idle"
  BY DEF Attached
<1>3. row.state /= "parked" => hold.token = 0
  BY DEF Shape, HoldFits
<1>4. CASE TickStep
  BY <1>4, SameClaims DEF TickStep, KeepsTurn, KeepsWork
<1>5. CASE MessageStep
  <2>1. Apart' /\ \A q \in Pods : Attached(q)' <=> Attached(q)
    BY <1>5, SameClaims DEF MessageStep
  <2>2. ASSUME NEW q \in Pods, Leased(row, pod[q].token)
        PROVE  Leased(row, pod[q].token)'
    BY <1>5, <2>2 DEF MessageStep, Leased
  <2>3. Known'
    BY <1>5, <2>1, <2>2 DEF MessageStep, Known
  <2> QED
    BY <2>1, <2>3
<1>6. ASSUME NEW r \in Requests, AskStep(r) \/ ReceiptStep(r)
      PROVE  Apart' /\ Known'
  BY <1>6, SameClaims DEF AskStep, ReceiptStep
<1>7. ASSUME NEW p \in Pods, NEW r \in Requests, SettleStep(p, r)
      PROVE  Apart' /\ Known'
  BY <1>7, SameClaims DEF SettleStep, PodsBut
<1>8. ASSUME NEW p \in Pods, GrantStep(p)
      PROVE  Apart' /\ Known'
  <2>1. /\ row.state = "queued" /\ pod'[p].stage = "claimed"
        /\ pod'[p].token = row.lease_token + 1 /\ PodsBut(p) /\ UNCHANGED claimVars
    BY <1>8 DEF GrantStep
  <2>2. \A q \in Pods \ {p} : pod'[q] = pod[q] /\ pod'[q].token <= row.lease_token
    BY <1>1, <2>1 DEF PodsBut
  <2>3. \A q \in Pods \ {p} : pod'[q].token /= pod'[p].token
    BY <1>1, <2>1, <2>2
  <2>4. Apart'
    BY <2>2, <2>3 DEF Apart
  <2>5. \A q \in Pods : ~Attached(q)
    BY <1>1, <1>2, <1>3, <2>1 DEF Known, Leased
  <2>6. \A q \in Pods : ~Attached(q)'
    BY <2>1, <2>2, <2>5 DEF Attached
  <2> QED
    BY <2>4, <2>6 DEF Known
<1>9. ASSUME NEW p \in Pods, PassStep(p)
      PROVE  Apart' /\ Known'
  <2>1. Apart'
    BY <1>9, <1>1 DEF PassStep, Passes, PodsBut, Apart
  <2>2. Attached(p)' => Attached(p)
    BY <1>9, <1>1 DEF PassStep, Passes, Attached
  <2> QED
    BY <1>9, <2>1, <2>2, OthersKnown DEF PassStep
<1>10. ASSUME NEW p \in Pods, BindStep(p)
       PROVE  Apart' /\ Known'
  <2>1. Apart'
    BY <1>10 DEF BindStep, PodsBut, Apart
  <2>2. ASSUME NEW q \in Pods \ {p} PROVE ~Attached(q)'
    <3>1. ~Attached(q)
      BY <1>1, <1>2, <1>3, <1>10 DEF BindStep, Owns, Leased, Known, Apart
    <3> QED
      BY <1>10, <3>1 DEF BindStep, PodsBut, Attached
  <2> QED
    BY <1>10, <2>1, <2>2 DEF BindStep, Known, Owns
<1>11. ASSUME NEW p \in Pods, NothingStep(p)
       PROVE  Apart' /\ Known'
  <2>1. Apart'
    BY <1>11 DEF NothingStep, PodsBut, Apart
  <2>2. ~Attached(p)'
    BY <1>1, <1>11 DEF NothingStep, Attached
  <2> QED
    BY <1>11, <2>1, <2>2, OthersKnown DEF NothingStep
<1>12. ASSUME NEW p \in Pods, NEW s, BeginStep(p, s)
       PROVE  Apart' /\ Known'
  <2>1. Apart'
    BY <1>12 DEF BeginStep, PodsBut, Apart
  <2> QED
    BY <1>12, <2>1, OthersKnown DEF BeginStep, KeepsWork, Attached
<1>13. ASSUME NEW p \in Pods, WriteStep(p)
       PROVE  Apart' /\ Known'
  BY <1>13, SameClaims DEF WriteStep
<1>14. ASSUME NEW p \in Pods, CloseStep(p)
       PROVE  Apart' /\ Known'
  <2>1. Apart'
    BY <1>14, <1>1 DEF CloseStep, PodsBut, Apart
  <2> QED
    BY <1>14, <2>1, OthersKnown DEF CloseStep, Attached
<1>15. ASSUME NEW p \in Pods, pod'[p] = Idle, PodsBut(p)
       PROVE  /\ Apart' /\ ~Attached(p)'
              /\ \A q \in Pods \ {p} : Attached(q)' <=> Attached(q)
  <2>1. \A q \in Pods \ {p} : pod'[q] = pod[q]
    BY <1>15 DEF PodsBut
  <2>2. Apart'
    BY <1>1, <1>15, <2>1, IdleType DEF Apart
  <2> QED
    BY <1>15, <2>1, <2>2, IdleType DEF Attached
<1>16. ASSUME NEW p \in Pods, ForgetStep(p)
       PROVE  Apart' /\ Known'
  BY <1>15, <1>16 DEF ForgetStep, PodsBut, Known, Leased
<1>17. ASSUME NEW p \in Pods, DisposeStep(p)
       PROVE  Apart' /\ Known'
  <2>1. \A q \in Pods \ {p} : ~Attached(q)
    BY <1>1, <1>2, <1>3, <1>17 DEF DisposeStep, Owns, Leased, Known, Apart
  <2> QED
    BY <1>15, <1>17, <2>1 DEF DisposeStep, Known
<1>18. ASSUME NEW some \in SUBSET Requests, TakeStep(some)
       PROVE  Apart' /\ Known'
  <2>1. Apart' /\ \A q \in Pods : (Attached(q)' <=> Attached(q)) /\ pod'[q] = pod[q]
    BY <1>18, SameClaims DEF TakeStep
  <2>2. ASSUME NEW q \in Pods, Attached(q) PROVE hold'.token = pod[q].token
    BY <1>1, <1>2, <1>3, <1>18, <2>2 DEF TakeStep, Known, Leased
  <2> QED
    BY <2>1, <2>2 DEF Known
<1>19. CASE LiftStep
  <2>1. Apart' /\ \A q \in Pods : Attached(q)' <=> Attached(q)
    BY <1>19, SameClaims DEF LiftStep
  <2>2. \A q \in Pods : ~Attached(q)
    BY <1>1, <1>2, <1>19 DEF LiftStep, Known, Leased
  <2> QED
    BY <2>1, <2>2 DEF Known
<1> QED
  BY <1>4, <1>5, <1>6, <1>7, <1>8, <1>9, <1>10, <1>11, <1>12, <1>13, <1>14, <1>16,
     <1>17, <1>18, <1>19 DEF Kinds

\* At most one executor has the workspace attached, even right after a steal, when
\* the one that lost the session has not noticed yet.
THEOREM AttachedOnce ==
  Spec => []OneAttached
<1> DEFINE Claims == Shape /\ Apart /\ Known
<1>1. Init => Claims
  BY InitShape, IdleType DEF Init, Apart, Known, Attached
<1>2. Claims /\ [Next]_vars => Claims'
  BY StepKinds, ClaimsStep DEF Kept
<1>3. Claims => OneAttached
  <2> SUFFICES ASSUME Claims, NEW p \in Pods, NEW q \in Pods, Attached(p), Attached(q),
                      p /= q
               PROVE  FALSE
    BY DEF OneAttached
  <2>1. pod[p].stage /= "idle" /\ pod[p].token /= 0 /\ pod[q].token /= 0
    BY Elements DEF Attached, Shape, PodFits
  <2>2. pod[p].token /= pod[q].token
    BY <2>1 DEF Apart
  <2> QED
    BY <2>1, <2>2 DEF Known, Shape, HoldFits, Leased
<1> QED
  BY <1>1, <1>2, <1>3, PTL DEF Spec

-----------------------------------------------------------------------------
(***************************************************************************)
(* Stops.  All that wait were admitted for one lease and turn; when a      *)
(* window opens none waits any more, and the applied ones lie behind the   *)
(* watermark.                                                              *)
(***************************************************************************)

\* A claim that has not begun a turn.
Fresh(p) == pod[p].stage \in {"claimed", "bound"} /\ Owns(p)

\* Waiting stops belong to the open window, or to an older lease.
PendingFits ==
    /\ \A r \in Requests : Pending(r) => stop[r].token <= row.lease_token
    /\ row.adm_turn /= 0 => \A r \in Requests : Pending(r) =>
           stop[r].token = row.adm_token /\ stop[r].turn = row.adm_turn
    /\ \A p \in Pods : Fresh(p) =>
           /\ row.adm_turn = 0
           /\ \A r \in Requests : Pending(r) => stop[r].token < row.lease_token

\* The watermark has passed the turn of an applied stop.
AppliedFits ==
    \A r \in Requests : stop[r].outcome = "applied" =>
        /\ stop[r].receipt = "applied"
        /\ Human(stop[r].turn) /\ stop[r].turn <= row.consumed_seq

StopFits == PendingFits /\ OneStopGeneration /\ AppliedFits

\* The token and the watermark never go back.
LEMMA Watermarks ==
  ASSUME Shape, Shape', Kinds
  PROVE  /\ row'.consumed_seq >= row.consumed_seq
         /\ row'.lease_token >= row.lease_token
<1> USE DEF threadVars, eventVars, claimVars
<1>1. /\ row \in Row /\ row.consumed_seq \in Int /\ row.lease_token \in Nat
      /\ row.state = "absent" => row.consumed_seq <= 0
      /\ \A p \in Pods : pod[p].input \in Int /\ pod[p].turn \in Int
  BY RowNumbers, Elements DEF Shape, TypeOK, RowFits
<1>2. \A p \in Pods : Checkpoint(p) \in Int
  BY <1>1 DEF Checkpoint, NullSeq
<1>3. CASE TickStep
  BY <1>1, <1>3 DEF TickStep, KeepsTurn, KeepsWork
<1>4. CASE MessageStep \/ LiftStep
  BY <1>1, <1>4 DEF MessageStep, LiftStep
<1>5. ASSUME NEW some \in SUBSET Requests, TakeStep(some)
      PROVE  /\ row'.consumed_seq >= row.consumed_seq
             /\ row'.lease_token >= row.lease_token
  BY <1>1, <1>5 DEF TakeStep, PassesStops
<1>6. ASSUME NEW r \in Requests, AskStep(r) \/ ReceiptStep(r)
      PROVE  UNCHANGED row
  BY <1>6 DEF AskStep, ReceiptStep
<1>7. ASSUME NEW p \in Pods, NEW r \in Requests, SettleStep(p, r)
      PROVE  /\ row'.consumed_seq >= row.consumed_seq
             /\ row'.lease_token >= row.lease_token
  BY <1>1, <1>7 DEF SettleStep, PassesStops
<1>8. ASSUME NEW p \in Pods, GrantStep(p)
      PROVE  /\ row'.consumed_seq >= row.consumed_seq
             /\ row'.lease_token >= row.lease_token
  BY <1>1, <1>8 DEF GrantStep
<1>9. ASSUME NEW p \in Pods,
             PassStep(p) \/ BindStep(p) \/ NothingStep(p) \/ WriteStep(p) \/ ForgetStep(p)
      PROVE  UNCHANGED row
  BY <1>9 DEF PassStep, BindStep, NothingStep, WriteStep, ForgetStep
<1>10. ASSUME NEW p \in Pods, NEW s, BeginStep(p, s)
       PROVE  /\ row'.consumed_seq = row.consumed_seq
              /\ row'.lease_token = row.lease_token
  BY <1>10 DEF BeginStep, KeepsWork
<1>11. ASSUME NEW p \in Pods, CloseStep(p) \/ DisposeStep(p)
       PROVE  /\ row'.consumed_seq >= row.consumed_seq
              /\ row'.lease_token = row.lease_token
  BY <1>1, <1>2, <1>11, LargerOf DEF CloseStep, DisposeStep
<1> QED
  BY <1>1, <1>3, <1>4, <1>5, <1>6, <1>7, <1>8, <1>9, <1>10, <1>11 DEF Kinds

\* What a step does to one stop: nothing, its admission, its receipt, or its
\* settlement, which moves the watermark past it if it is applied.
StopChange(r) ==
    \/ stop'[r] = stop[r]
    \/ AskStep(r) /\ stop'[r].turn = row.adm_turn /\ stop'[r].token = row.lease_token
         /\ stop'[r].outcome = "pending"
    \/ /\ stop'[r].turn = stop[r].turn /\ stop'[r].token = stop[r].token
       /\ stop'[r].outcome = stop[r].outcome /\ stop[r].receipt = "none"
    \/ /\ stop'[r].turn = stop[r].turn /\ stop'[r].token = stop[r].token
       /\ stop'[r].outcome /= "pending"
       /\ stop[r].receipt = "applied" => stop'[r].outcome = "applied"
       /\ stop'[r].outcome = "applied" =>
            /\ stop'[r].receipt = "applied"
            /\ Human(stop[r].turn) /\ stop[r].turn <= row'.consumed_seq

\* A settlement is such a change.
LEMMA SettlingStops ==
  ASSUME Shape, NEW some \in SUBSET Requests, stop' = Settled(some), Settleable(some),
         PassesStops(row, row', some)
  PROVE  \A r \in Requests : StopChange(r)
<1> SUFFICES ASSUME NEW r \in Requests, r \in some
             PROVE  StopChange(r)
  BY SettledType DEF Shape, StopChange
<1>1. /\ stop'[r].turn = stop[r].turn /\ stop'[r].token = stop[r].token
      /\ stop'[r].outcome = Verdict(r) /\ stop'[r].receipt = Verdict(r)
  BY SettledType DEF Shape
<1>2. Verdict(r) /= "pending"
  BY Elements DEF Shape, Verdict, Stops, Verdicts
<1>3. Verdict(r) = "applied" => Human(stop[r].turn) /\ stop[r].turn <= row'.consumed_seq
  BY DEF Settleable, PassesStops, Applied
<1>4. stop[r].receipt = "applied" => Verdict(r) = "applied"
  BY DEF Verdict
<1> QED
  BY <1>1, <1>2, <1>3, <1>4 DEF StopChange

\* And so is every other step.
LEMMA StopChanges ==
  ASSUME Shape, Kinds
  PROVE  \A r \in Requests : StopChange(r)
<1> USE DEF threadVars, eventVars, claimVars
<1>1. CASE UNCHANGED stop
  BY <1>1 DEF StopChange
<1>2. ASSUME NEW some \in SUBSET Requests, TakeStep(some)
      PROVE  \A r \in Requests : StopChange(r)
  BY <1>2, SettlingStops DEF TakeStep
<1>3. ASSUME NEW p \in Pods, NEW r \in Requests, SettleStep(p, r)
      PROVE  \A q \in Requests : StopChange(q)
  BY <1>3, SettlingStops DEF SettleStep
<1>4. ASSUME NEW r \in Requests, AskStep(r)
      PROVE  \A q \in Requests : StopChange(q)
  BY <1>4 DEF AskStep, StopChange, Shape, TypeOK
<1>5. ASSUME NEW r \in Requests, ReceiptStep(r)
      PROVE  \A q \in Requests : StopChange(q)
  <2>1. PICK v \in Verdicts : stop' = [stop EXCEPT ![r].receipt = v]
    BY <1>5 DEF ReceiptStep
  <2>2. stop[r] \in Stops /\ stop[r].receipt = "none"
    BY <1>5, Elements DEF Shape, ReceiptStep
  <2> DEFINE x == [stop[r] EXCEPT !.receipt = v]
  <2>3. /\ x.turn = stop[r].turn /\ x.token = stop[r].token
        /\ x.outcome = stop[r].outcome
    BY <2>2 DEF Stops
  <2>4. stop' = [stop EXCEPT ![r] = x]
    BY <2>1
  <2> HIDE DEF x
  <2>5. \A q \in Requests : stop'[q] = IF q = r THEN x ELSE stop[q]
    BY <2>4 DEF Shape, TypeOK
  <2> QED
    BY <2>2, <2>3, <2>5 DEF StopChange
<1>6. \/ UNCHANGED stop
      \/ \E some \in SUBSET Requests : TakeStep(some)
      \/ \E r \in Requests : AskStep(r) \/ ReceiptStep(r)
      \/ \E p \in Pods, r \in Requests : SettleStep(p, r)
  BY DEF Kinds, TickStep, MessageStep, LiftStep, GrantStep, PassStep, BindStep,
     NothingStep, BeginStep, WriteStep, CloseStep, ForgetStep, DisposeStep
<1> QED
  BY <1>1, <1>2, <1>3, <1>4, <1>5, <1>6

\* A claim that has not begun was one before the step, and the step changed neither
\* the lease nor opened a window; or the step granted it.
LEMMA FreshClaims ==
  ASSUME Shape, Shape', Apart, Kinds, NEW q \in Pods, Fresh(q)'
  PROVE  \/ GrantStep(q)
         \/ /\ Fresh(q) /\ row'.lease_token = row.lease_token
            /\ row'.adm_turn \in {0, row.adm_turn}
<1> USE DEF threadVars, eventVars, claimVars
<1>1. /\ pod'[q].stage \in {"claimed", "bound"} /\ row'.state = "leased"
      /\ row'.lease_token = pod'[q].token
  BY DEF Fresh, Owns, Leased
<1>2. /\ row.lease_token \in Nat
      /\ pod[q].stage /= "idle" => pod[q].token <= row.lease_token
  BY RowNumbers, Elements DEF Shape, TypeOK, PodFits
<1>3. ASSUME pod'[q] = pod[q], row'.state = row.state,
             row'.lease_token = row.lease_token
      PROVE  Fresh(q)
  BY <1>1, <1>3 DEF Fresh, Owns, Leased
<1>4. CASE TickStep
  BY <1>3, <1>4 DEF TickStep, KeepsTurn, KeepsWork
<1>5. CASE MessageStep
  BY <1>1, <1>5 DEF MessageStep, Fresh, Owns, Leased
<1>6. ASSUME NEW r \in Requests, AskStep(r) \/ ReceiptStep(r)
      PROVE  Fresh(q) /\ UNCHANGED row
  BY <1>3, <1>6 DEF AskStep, ReceiptStep
<1>7. ASSUME NEW p \in Pods, NEW r \in Requests, SettleStep(p, r)
      PROVE  Fresh(q) /\ row'.lease_token = row.lease_token /\ row'.adm_turn = row.adm_turn
  BY <1>1, <1>7 DEF SettleStep, PodsBut, Fresh, Owns, Leased
<1>8. ASSUME NEW p \in Pods, GrantStep(p), p /= q
      PROVE  FALSE
  <2>1. pod'[q] = pod[q] /\ pod[q].token = row.lease_token + 1
    BY <1>1, <1>8 DEF GrantStep, PodsBut
  <2> QED
    BY <1>1, <1>2, <2>1
<1>9. ASSUME NEW p \in Pods, PassStep(p) \/ BindStep(p) \/ NothingStep(p)
      PROVE  Fresh(q) /\ UNCHANGED row
  BY <1>1, <1>9
     DEF PassStep, Passes, BindStep, NothingStep, PodsBut, Fresh, Owns, Leased
<1>10. ASSUME NEW p \in Pods, NEW s, BeginStep(p, s)
       PROVE  FALSE
  <2>1. p /= q /\ pod'[q] = pod[q] /\ pod[q].token = pod[p].token
    BY <1>1, <1>10 DEF BeginStep, PodsBut, KeepsWork, Leased
  <2> QED
    BY <1>10, <2>1 DEF Apart, BeginStep
<1>11. ASSUME NEW p \in Pods, WriteStep(p) \/ ForgetStep(p)
       PROVE  Fresh(q) /\ UNCHANGED row
  <2>1. pod'[q] = pod[q]
    BY <1>1, <1>11, IdleType DEF WriteStep, ForgetStep, PodsBut
  <2> QED
    BY <1>3, <1>11, <2>1 DEF WriteStep, ForgetStep
<1>12. ASSUME NEW p \in Pods, CloseStep(p)
       PROVE  Fresh(q) /\ row'.lease_token = row.lease_token /\ row'.adm_turn = 0
  <2>1. pod'[q] = pod[q]
    BY <1>1, <1>12 DEF CloseStep, PodsBut
  <2> QED
    BY <1>3, <1>12, <2>1 DEF CloseStep, Shut
<1>13. ~LiftStep /\ (\A p \in Pods : ~DisposeStep(p))
       /\ \A some \in SUBSET Requests : ~TakeStep(some)
  BY <1>1 DEF LiftStep, DisposeStep, TakeStep
<1> QED
  BY <1>4, <1>5, <1>6, <1>7, <1>8, <1>9, <1>10, <1>11, <1>12, <1>13
     DEF Kinds, TickStep, MessageStep, KeepsTurn, KeepsWork

\* When a turn begins no stop waits: not one of an older lease, for they have been
\* settled, and none of this lease, for its window has not been open.
LEMMA BeginsClear ==
  ASSUME Shape, StopFits, NEW p \in Pods, NEW s, BeginStep(p, s)
  PROVE  /\ \A r \in Requests : ~Pending(r)
         /\ \A r \in Requests : stop[r].outcome = "applied" => stop[r].turn /= s
<1>1. Fresh(p) /\ pod[p].token = row.lease_token
  BY DEF Fresh, Owns, BeginStep, Leased
<1>2. \A r \in Requests : ~Pending(r)
  BY <1>1 DEF StopFits, PendingFits, BeginStep, Stale
<1>3. Human(s) => s > row.consumed_seq
  BY DEF BeginStep, PendingInput, Human, Humans, StaleAdmissions, Shape, TypeOK
<1>4. ASSUME NEW r \in Requests, stop[r].outcome = "applied"
      PROVE  stop[r].turn /= s
  <2>1. stop[r].turn \in Nat /\ row.consumed_seq \in Int
    BY Elements, RowNumbers DEF Shape, TypeOK
  <2> QED
    BY <1>3, <1>4, <2>1 DEF StopFits, AppliedFits
<1> QED
  BY <1>2, <1>4

\* Every kind of step keeps the stops in order.
LEMMA StopsStep ==
  ASSUME Shape, Shape', Apart, StopFits, Kinds
  PROVE  StopFits'
<1>1. /\ row.lease_token \in Nat /\ row'.lease_token \in Nat
      /\ row'.lease_token >= row.lease_token
      /\ row.consumed_seq \in Int /\ row'.consumed_seq \in Int
      /\ row'.consumed_seq >= row.consumed_seq
      /\ \A r \in Requests : stop[r].token \in Nat /\ stop[r].turn \in Nat
  BY RowNumbers, Elements, Watermarks DEF Shape, TypeOK
<1>2. \A r \in Requests : StopChange(r)
  BY StopChanges
<1>3. ASSUME NEW r \in Requests, Pending(r)'
      PROVE  \/ /\ Pending(r)
                /\ stop'[r].turn = stop[r].turn /\ stop'[r].token = stop[r].token
             \/ /\ AskStep(r) /\ stop'[r].turn = row.adm_turn
                /\ stop'[r].token = row.lease_token
  BY <1>2, <1>3 DEF StopChange, Pending
<1>4. ASSUME NEW r \in Requests, AskStep(r)
      PROVE  /\ row.adm_turn /= 0 /\ row.lease_token = row.adm_token /\ UNCHANGED row
             /\ \A q \in Requests : Pending(q) =>
                  stop[q].token = row.lease_token /\ stop[q].turn = row.adm_turn
  BY <1>4 DEF AskStep, StopFits, PendingFits, Shape, RowFits, Leased
<1>5. ASSUME NEW r \in Requests, Pending(r)'
      PROVE  stop'[r].token <= row'.lease_token
  BY <1>1, <1>3, <1>5 DEF StopFits, PendingFits
<1>6. OneStopGeneration'
  BY <1>3, <1>4 DEF StopFits, OneStopGeneration
<1>7. ASSUME NEW r \in Requests, Pending(r)', row'.adm_turn /= 0
      PROVE  stop'[r].token = row'.adm_token /\ stop'[r].turn = row'.adm_turn
  <2>1. CASE row'.adm_turn = row.adm_turn /\ row'.adm_token = row.adm_token
    BY <1>3, <1>4, <1>7, <2>1 DEF StopFits, PendingFits
  <2>2. ASSUME NEW p \in Pods, NEW s, BeginStep(p, s)
        PROVE  FALSE
    <3>1. UNCHANGED stop
      BY <2>2 DEF BeginStep
    <3> QED
      BY <1>7, <2>2, <3>1, BeginsClear DEF Pending
  <2>3. \/ row'.adm_turn = row.adm_turn /\ row'.adm_token = row.adm_token
        \/ row'.adm_turn = 0
        \/ \E p \in Pods, s \in 1..MaxSeq : BeginStep(p, s)
    BY DEF Kinds, TickStep, KeepsTurn, KeepsWork, MessageStep, LiftStep, TakeStep, AskStep,
       ReceiptStep, SettleStep, GrantStep, PassStep, BindStep, NothingStep,
       WriteStep, CloseStep, ForgetStep, DisposeStep, Shut
  <2> QED
    BY <1>7, <2>1, <2>2, <2>3
<1>8. ASSUME NEW p \in Pods, Fresh(p)'
      PROVE  /\ row'.adm_turn = 0
             /\ \A r \in Requests : Pending(r)' => stop'[r].token < row'.lease_token
  <2>1. CASE GrantStep(p)
    <3>1. /\ row'.adm_turn = 0 /\ row'.lease_token = row.lease_token + 1
          /\ UNCHANGED stop
      BY <2>1 DEF GrantStep, Shut
    <3> QED
      BY <1>1, <3>1 DEF StopFits, PendingFits, Pending
  <2>2. CASE /\ Fresh(p) /\ row'.lease_token = row.lease_token
             /\ row'.adm_turn \in {0, row.adm_turn}
    <3>1. row.adm_turn = 0 /\ row'.adm_turn = 0
      BY <2>2 DEF StopFits, PendingFits
    <3>2. \A r \in Requests : Pending(r)' => Pending(r) /\ stop'[r].token = stop[r].token
      BY <1>3, <1>4, <3>1
    <3> QED
      BY <2>2, <3>1, <3>2 DEF StopFits, PendingFits
  <2> QED
    BY <1>8, <2>1, <2>2, FreshClaims
<1>9. PendingFits'
  BY <1>5, <1>7, <1>8 DEF PendingFits
<1>10. AppliedFits'
  <2> SUFFICES ASSUME NEW r \in Requests, stop'[r].outcome = "applied"
               PROVE  /\ stop'[r].receipt = "applied"
                      /\ Human(stop'[r].turn) /\ stop'[r].turn <= row'.consumed_seq
    BY DEF AppliedFits, Human
  <2>1. CASE stop'[r] = stop[r]
    BY <1>1, <2>1 DEF StopFits, AppliedFits
  <2>2. CASE stop[r].outcome = "applied" /\ stop[r].receipt = "none"
    BY <2>2 DEF StopFits, AppliedFits
  <2> QED
    BY <1>2, <2>1, <2>2 DEF StopChange
<1> QED
  BY <1>6, <1>9, <1>10 DEF StopFits

-----------------------------------------------------------------------------
\* The claims and the stops together.
ClaimsAndStops == Shape /\ Apart /\ Known /\ StopFits

\* They hold in every state.
THEOREM ClaimsAndStopsHold ==
  Spec => []ClaimsAndStops
<1>1. Init => ClaimsAndStops
  <2> SUFFICES ASSUME Init PROVE ClaimsAndStops
    OBVIOUS
  <2>1. /\ \A p \in Pods : pod[p].stage = "idle"
        /\ \A r \in Requests : stop[r].outcome = "none" /\ row.adm_turn = 0
    BY IdleType DEF Init, NoStop, NoRow
  <2>2. row.adm_turn = 0
    BY DEF Init, NoRow
  <2> QED
    BY <2>1, <2>2, InitShape DEF ClaimsAndStops, Apart, Known, Attached, StopFits,
       PendingFits, OneStopGeneration, AppliedFits, Pending, Fresh
<1>2. ClaimsAndStops /\ [Next]_vars => ClaimsAndStops'
  BY StepKinds, ClaimsStep, StopsStep DEF Kept, ClaimsAndStops
<1> QED
  BY <1>1, <1>2, PTL DEF Spec

\* All waiting stops were admitted for one lease and one turn: a steal, a crash or a
\* successor never leaves stops of two turns to settle together.
THEOREM OneGenerationOfStops ==
  Spec => []OneStopGeneration
<1>1. ClaimsAndStops => OneStopGeneration
  BY DEF ClaimsAndStops, StopFits
<1> QED
  BY <1>1, ClaimsAndStopsHold, PTL

\* A turn starts in a step of its kind.
LEMMA StartsBegin ==
  ASSUME Kinds, NEW p \in Pods, NEW s, Starts(p, s)
  PROVE  BeginStep(p, s)
<1>1. pod[p].stage = "bound" /\ pod'[p].stage = "running" /\ pod'[p].turn = s
  BY DEF Starts
<1>2. pod'[p] /= pod[p]
  BY <1>1
<1>3. ASSUME NEW q \in Pods, NEW t, BeginStep(q, t) PROVE BeginStep(p, s)
  <2>1. p = q
    BY <1>2, <1>3 DEF BeginStep, PodsBut
  <2> QED
    BY <1>1, <1>3, <2>1 DEF BeginStep
<1> QED
  BY <1>1, <1>2, <1>3, IdleType
     DEF Kinds, TickStep, KeepsTurn, MessageStep, LiftStep, TakeStep, AskStep,
         ReceiptStep, SettleStep, GrantStep, PassStep, Passes, BindStep, NothingStep,
         WriteStep, CloseStep, ForgetStep, DisposeStep, PodsBut

\* A turn that the user has asked to stop is not started again by any successor,
\* neither before the request is settled nor after.
THEOREM StoppedStaysStopped ==
  Spec => StopNotReplayed
<1>1. ClaimsAndStops /\ [Next]_vars =>
        [\A p \in Pods, s \in 1..MaxSeq : Starts(p, s) =>
           \A r \in Requests : stop[r].turn = s =>
              stop[r].outcome \notin {"pending", "applied"}]_vars
  <2> SUFFICES ASSUME ClaimsAndStops, [Next]_vars,
                      NEW p \in Pods, NEW s \in 1..MaxSeq, Starts(p, s),
                      NEW r \in Requests, stop[r].turn = s
               PROVE  stop[r].outcome \notin {"pending", "applied"}
    OBVIOUS
  <2>1. BeginStep(p, s)
    BY StepKinds, StartsBegin DEF ClaimsAndStops, Kept
  <2> QED
    BY <2>1, BeginsClear DEF ClaimsAndStops, Pending
<1> QED
  BY <1>1, ClaimsAndStopsHold, PTL DEF Spec, StopNotReplayed

-----------------------------------------------------------------------------
(***************************************************************************)
(* The watermark.  Each message below it was passed: a human one by a turn *)
(* that was started, an event by its answer; and while nobody is told to   *)
(* shut down, a human one by its answer or by a stop.                      *)
(***************************************************************************)

Passed(s) ==
    /\ IF Human(s) THEN s \in started ELSE s \in answered
    /\ Calm => s \in answered \/ Stopped(s)

\* All messages before t, and t included.
Before(t) == \A s \in 1..top : s < t => Passed(s)
Through(t) == \A s \in 1..top : s <= t => Passed(s)

\* The turns of windows, stops and claims are in the order of the messages.
Reached(t) == Before(t) /\ (Human(t) /\ t /= 0 => t \in started)

Order ==
    /\ Through(row.consumed_seq) /\ Reached(row.adm_turn)
    /\ \A r \in Requests : Reached(stop[r].turn)
    /\ \A p \in Pods : Reached(pod[p].turn)
    /\ \A p \in Pods : pod[p].stage = "settling" /\ Owns(p) => Through(pod[p].input)

\* An event is owed, admitted or answered; an admission belongs to the claim with
\* its token; what has ended under an admission, and what is settled, is answered.
Events ==
    /\ \A s \in EventSeqs : s <= top =>
           s \in owed \cup answered \/ \E a \in admitted : a[1] = s
    /\ \A s \in answered : Human(s) => s \in started
    /\ settled \subseteq answered
    /\ \A p \in Pods : \A a \in admitted :
           a[2] = pod[p].token => a[1] = pod[p].turn
    /\ \A p \in Pods : pod[p].stage \in {"ended", "settling"} /\ AdmittedHere(p) =>
           pod[p].turn \in answered

\* Without a shutdown no turn ends unanswered.
CalmFits ==
    Calm => /\ draining = {}
            /\ \A p \in Pods : pod[p].stage = "ended" => pod[p].turn \in answered

\* A claim with the lease had it before the step, or the step granted it.
LEMMA OwnsBefore ==
  ASSUME Shape, Shape', Kinds, NEW q \in Pods, Owns(q)'
  PROVE  \/ GrantStep(q)
         \/ Owns(q) /\ pod'[q].token = pod[q].token
              /\ row'.lease_token = row.lease_token
<1> USE DEF threadVars, eventVars, claimVars
<1>1. /\ pod'[q].stage /= "idle" /\ row'.state = "leased"
      /\ row'.lease_token = pod'[q].token /\ pod'[q] /= Idle
  BY IdleType DEF Owns, Leased
<1>2. /\ row.lease_token \in Nat
      /\ pod[q].token \in Nat /\ pod[q].token <= row.lease_token
      /\ pod[q].stage = "idle" => pod[q] = Idle
  BY RowNumbers, Elements, IdleType DEF Shape, TypeOK, PodFits
<1>3. ASSUME pod'[q].stage = "idle" <=> pod[q].stage = "idle",
             pod'[q].token = pod[q].token, row.state = "leased",
             row'.lease_token = row.lease_token
      PROVE  Owns(q)
  BY <1>1, <1>3 DEF Owns, Leased
<1>4. CASE TickStep
  BY <1>1, <1>3, <1>4 DEF TickStep, KeepsTurn, KeepsWork
<1>5. CASE MessageStep
  BY <1>1, <1>3, <1>5 DEF MessageStep
<1>6. ASSUME NEW r \in Requests, AskStep(r) \/ ReceiptStep(r)
      PROVE  Owns(q) /\ UNCHANGED <<row, pod>>
  BY <1>1, <1>3, <1>6 DEF AskStep, ReceiptStep
<1>7. ASSUME NEW p \in Pods, NEW r \in Requests, SettleStep(p, r)
      PROVE  Owns(q) /\ pod'[q].token = pod[q].token /\ row'.lease_token = row.lease_token
  BY <1>1, <1>3, <1>7 DEF SettleStep, PodsBut
<1>8. ASSUME NEW p \in Pods, GrantStep(p), p /= q
      PROVE  FALSE
  <2>1. pod'[q] = pod[q] /\ pod[q].token = row.lease_token + 1
    BY <1>1, <1>8 DEF GrantStep, PodsBut
  <2> QED
    BY <1>2, <2>1
<1>9. ASSUME NEW p \in Pods, PassStep(p) \/ BindStep(p) \/ NothingStep(p)
      PROVE  Owns(q) /\ pod'[q].token = pod[q].token /\ row'.lease_token = row.lease_token
  <2>1. /\ pod'[q].stage = "idle" <=> pod[q].stage = "idle"
        /\ pod'[q].token = pod[q].token /\ UNCHANGED row
    BY <1>1, <1>9 DEF PassStep, Passes, BindStep, NothingStep, PodsBut
  <2> QED
    BY <1>1, <1>3, <2>1
<1>10. ASSUME NEW p \in Pods, NEW s, BeginStep(p, s)
       PROVE  Owns(q) /\ pod'[q].token = pod[q].token /\ row'.lease_token = row.lease_token
  BY <1>1, <1>3, <1>10 DEF BeginStep, PodsBut, KeepsWork
<1>11. ASSUME NEW p \in Pods, WriteStep(p) \/ ForgetStep(p)
       PROVE  Owns(q) /\ pod'[q].token = pod[q].token /\ row'.lease_token = row.lease_token
  <2>1. pod'[q] = pod[q] /\ UNCHANGED row
    BY <1>1, <1>11 DEF WriteStep, ForgetStep, PodsBut
  <2> QED
    BY <1>1, <1>3, <2>1
<1>12. ASSUME NEW p \in Pods, CloseStep(p)
       PROVE  Owns(q) /\ pod'[q].token = pod[q].token /\ row'.lease_token = row.lease_token
  BY <1>1, <1>3, <1>12 DEF CloseStep, PodsBut
<1>13. ~LiftStep /\ (\A p \in Pods : ~DisposeStep(p))
       /\ \A some \in SUBSET Requests : ~TakeStep(some)
  BY <1>1 DEF LiftStep, DisposeStep, TakeStep
<1> QED
  BY <1>4, <1>5, <1>6, <1>7, <1>8, <1>9, <1>10, <1>11, <1>12, <1>13
     DEF Kinds, TickStep, MessageStep, KeepsTurn, KeepsWork

\* Started, answered and stopped turns stay so; messages are only added.
LEMMA Growth ==
  ASSUME ClaimsAndStops, Kinds
  PROVE  /\ started \subseteq started' /\ answered \subseteq answered'
         /\ top \in Nat /\ top' \in {top, top + 1} /\ \A s : Stopped(s) => Stopped(s)'
<1> USE DEF threadVars, eventVars
<1>1. top \in Nat
  BY Numbers DEF ClaimsAndStops, Shape, TypeOK
<1>2. /\ started \subseteq started' /\ answered \subseteq answered'
      /\ top' \in {top, top + 1}
  BY DEF Kinds, TickStep, MessageStep, LiftStep, TakeStep, AskStep, ReceiptStep,
     SettleStep, GrantStep, PassStep, BindStep, NothingStep, BeginStep, WriteStep,
     CloseStep, ForgetStep, DisposeStep
<1>3. ASSUME NEW s, Stopped(s)
      PROVE  Stopped(s)'
  <2>1. PICK r \in Requests : stop[r].turn = s /\ stop[r].outcome = "applied"
    BY <1>3 DEF Stopped
  <2>2. stop[r].receipt = "applied" /\ StopChange(r)
    BY <2>1, StopChanges DEF ClaimsAndStops, StopFits, AppliedFits
  <2>3. ~AskStep(r)
    BY <2>1 DEF AskStep, NoStop
  <2>4. stop'[r].turn = s /\ stop'[r].outcome = "applied"
    BY <2>1, <2>2, <2>3 DEF StopChange
  <2> QED
    BY <2>4 DEF Stopped
<1> QED
  BY <1>1, <1>2, <1>3

\* What was passed stays passed.
LEMMA PassedStays ==
  ASSUME ClaimsAndStops, Kinds
  PROVE  \A s \in Nat : Passed(s) => Passed(s)'
<1> SUFFICES ASSUME NEW s \in Nat, Passed(s)
             PROVE  Passed(s)'
  OBVIOUS
<1>1. /\ s \in started => s \in started'
      /\ s \in answered => s \in answered'
      /\ Stopped(s) => Stopped(s)'
  BY Growth
<1> QED
  BY <1>1 DEF Passed, Human, Calm

\* A claim finds pending whatever has not been passed yet.
LEMMA PendingIsComplete ==
  ASSUME ClaimsAndStops, Order, Events, NEW p \in Pods, Fresh(p),
         NEW y \in 1..top, y \notin Humans, y \notin owed, y \notin StaleAdmissions \ answered
  PROVE  Passed(y)
<1>1. /\ pod[p].token = row.lease_token /\ pod[p].turn = 0
      /\ row.consumed_seq \in Int /\ y \in Nat /\ y /= 0
  BY RowNumbers, Numbers
     DEF Fresh, Owns, Leased, ClaimsAndStops, Shape, PodFits, TypeOK
<1>2. CASE y <= row.consumed_seq
  BY <1>2 DEF Order, Through
<1>3. CASE y > row.consumed_seq
  <2>1. ~Human(y)
    BY <1>3 DEF Humans
  <2>2. y \in answered
    <3> SUFFICES ASSUME y \notin answered PROVE FALSE
      OBVIOUS
    <3>1. PICK a \in admitted : a[1] = y
      BY <2>1, <1>1 DEF Events, Human
    <3>2. PICK s \in EventSeqs, t \in 1..MaxToken : a = <<s, t>>
      BY DEF ClaimsAndStops, Shape, TypeOK
    <3>3. s = y /\ <<y, t>> \in admitted /\ t <= row.lease_token
      BY <3>1, <3>2 DEF ClaimsAndStops, Shape, EventsFit
    <3>4. t /= row.lease_token
      BY <1>1, <3>3 DEF Events
    <3>5. t < row.lease_token
      BY <3>3, <3>4, RowNumbers, Numbers DEF ClaimsAndStops, Shape, TypeOK
    <3>6. y \notin settled
      BY DEF Events
    <3> QED
      BY <1>3, <2>1, <3>3, <3>5, <3>6 DEF StaleAdmissions, Human
  <2> QED
    BY <2>1, <2>2 DEF Passed
<1> QED
  BY <1>1, <1>2, <1>3

\* When a turn begins, everything before it was passed.
LEMMA BeginReaches ==
  ASSUME ClaimsAndStops, Order, Events, NEW p \in Pods, NEW s, BeginStep(p, s)
  PROVE  \A y \in 1..top : y < s => Passed(y)
<1> SUFFICES ASSUME NEW y \in 1..top, y < s
             PROVE  Passed(y)
  OBVIOUS
<1>1. Fresh(p) /\ s \in PendingInput /\ \A x \in PendingInput : s <= x
  BY DEF BeginStep, Fresh, Owns
<1>2. s \in Nat /\ y \in Nat
  BY <1>1, PendingMessages DEF ClaimsAndStops
<1>3. y \notin PendingInput
  BY <1>1, <1>2
<1> QED
  BY <1>1, <1>3, PendingIsComplete DEF PendingInput

\* When a settled turn is closed, everything up to it was passed.
LEMMA CloseReaches ==
  ASSUME ClaimsAndStops, Order, Events, CalmFits, NEW p \in Pods, CloseStep(p),
         pod[p].stage = "ended"
  PROVE  \A y \in 1..top : y <= pod[p].turn => Passed(y)
<1> SUFFICES ASSUME NEW y \in 1..top, y <= pod[p].turn
             PROVE  Passed(y)
  OBVIOUS
<1>1. /\ y \in Nat /\ y /= 0 /\ pod[p].turn \in Nat /\ row.consumed_seq \in Int
      /\ Checkpoint(p) = pod[p].turn /\ pod[p].turn /= NullSeq
  BY Elements, RowNumbers DEF ClaimsAndStops, Shape, TypeOK, Checkpoint, NullSeq
<1>2. CASE y < pod[p].turn
  BY <1>2 DEF Order, Reached, Before
<1>3. CASE y = pod[p].turn /\ row.consumed_seq >= y
  BY <1>3 DEF Order, Through
<1>4. CASE y = pod[p].turn /\ ~(row.consumed_seq >= y)
  <2>1. Exact(p)
    BY <1>1, <1>4 DEF CloseStep, CloseAllowed
  <2>2. IF Human(y) THEN y \in started ELSE y \in answered
    BY <1>1, <1>4, <2>1 DEF Exact, Order, Reached, Events
  <2>3. Calm => y \in answered
    BY <1>4 DEF CalmFits
  <2> QED
    BY <2>2, <2>3 DEF Passed
<1> QED
  BY <1>1, <1>2, <1>3, <1>4

\* When the skip checks or the empty queue end a claim, everything up to its
\* checkpoint was passed.
LEMMA SkipReaches ==
  ASSUME ClaimsAndStops, Order, Events, NEW p \in Pods, Fresh(p),
         pod[p].stage = "claimed", NEW c \in Skips(p)
  PROVE  \A y \in 1..top : y <= c => Passed(y)
<1> SUFFICES ASSUME NEW y \in 1..top, y <= c
             PROVE  Passed(y)
  OBVIOUS
<1>1. owed = {} /\ StaleAdmissions = {}
  BY DEF Skips, EventOwed
<1>2. CASE c = row.consumed_seq
  BY <1>2 DEF Order, Through
<1>3. CASE c \in AnsweredOldest(p)
  <2>1. c \in Humans /\ c \in answered /\ c \in Nat /\ \A h \in Humans : c <= h
    BY <1>3 DEF AnsweredOldest, Humans
  <2>2. CASE y = c
    BY <2>1, <2>2 DEF Humans, Events, Passed
  <2>3. CASE y /= c
    <3>1. y \notin Humans
      BY <2>1, <2>3
    <3> QED
      BY <1>1, <3>1, PendingIsComplete
  <2> QED
    BY <2>2, <2>3
<1> QED
  BY <1>2, <1>3 DEF Skips

\* And when nothing is pending, everything was passed.
LEMMA NothingReaches ==
  ASSUME ClaimsAndStops, Order, Events, NEW p \in Pods, NothingStep(p)
  PROVE  \A y \in 1..top : Passed(y)
<1>1. Fresh(p) /\ PendingInput = {}
  BY DEF NothingStep, Fresh
<1> QED
  BY <1>1, PendingIsComplete DEF PendingInput

\* A step moves the watermark no further than what was passed.
LEMMA WatermarkPasses ==
  ASSUME ClaimsAndStops, Shape', Order, Events, CalmFits, Kinds
  PROVE  Through(row.consumed_seq)'
<1> USE DEF threadVars, eventVars, claimVars
<1> SUFFICES ASSUME NEW s \in 1..top', s <= row'.consumed_seq
             PROVE  Passed(s)'
  BY DEF Through
<1>1. /\ top \in Nat /\ top' \in {top, top + 1} /\ s \in Nat /\ s /= 0
      /\ row.consumed_seq \in Int /\ row'.consumed_seq \in Int
      /\ row.consumed_seq <= top
      /\ row.state = "absent" => row.consumed_seq <= 0
  BY Growth, RowNumbers DEF ClaimsAndStops, Shape, TypeOK, RowFits
<1>2. Passed(s) => Passed(s)'
  BY <1>1, PassedStays
<1>3. CASE s <= row.consumed_seq
  <2>1. s \in 1..top
    BY <1>1, <1>3
  <2> QED
    BY <1>2, <1>3, <2>1 DEF Order, Through
<1>4. ASSUME NEW some \in SUBSET Requests, stop' = Settled(some), Settleable(some),
             PassesStops(row, row', some), UNCHANGED top, ~(s <= row.consumed_seq)
      PROVE  Passed(s)'
  <2>1. PICK q \in Applied(some) : row'.consumed_seq = stop[q].turn
    BY <1>1, <1>4 DEF PassesStops
  <2>2. q \in Requests /\ q \in some /\ Verdict(q) = "applied"
    BY DEF Applied
  <2>3. s <= stop[q].turn /\ stop[q].turn \in Nat /\ Reached(stop[q].turn)
    BY <2>1, <2>2, Elements DEF Order, ClaimsAndStops, Shape
  <2>4. CASE s < stop[q].turn
    BY <1>2, <1>4, <2>3, <2>4 DEF Reached, Before
  <2>5. CASE s = stop[q].turn
    <3>1. Human(s) /\ s \in started
      BY <1>1, <1>4, <2>1, <2>3, <2>5 DEF Settleable, Reached
    <3>2. stop'[q].turn = s /\ stop'[q].outcome = "applied"
      BY <1>4, <2>2, <2>5, SettledType DEF ClaimsAndStops, Shape
    <3>3. Stopped(s)'
      BY <2>2, <3>2 DEF Stopped
    <3>4. s \in started'
      BY <3>1, Growth
    <3> QED
      BY <3>1, <3>3, <3>4 DEF Passed, Human
  <2> QED
    BY <2>3, <2>4, <2>5, <1>1
<1>5. ASSUME NEW some \in SUBSET Requests, TakeStep(some)
      PROVE  Passed(s)'
  BY <1>3, <1>4, <1>5 DEF TakeStep
<1>6. ASSUME NEW p \in Pods, NEW r \in Requests, SettleStep(p, r)
      PROVE  Passed(s)'
  <2>1. {r} \in SUBSET Requests
    OBVIOUS
  <2> QED
    BY <1>3, <1>4, <1>6, <2>1 DEF SettleStep
<1>7. ASSUME NEW p \in Pods, CloseStep(p), ~(s <= row.consumed_seq)
      PROVE  Passed(s)'
  <2>1. /\ row'.consumed_seq = Max2(row.consumed_seq, Checkpoint(p))
        /\ pod[p].turn \in Nat /\ s \in 1..top
    BY <1>7, Elements DEF CloseStep, ClaimsAndStops, Shape
  <2>2. CASE pod[p].stage = "ended"
    <3>1. Checkpoint(p) = pod[p].turn /\ s <= pod[p].turn
      BY <1>1, <1>7, <2>1, <2>2, LargerOf DEF Checkpoint
    <3> QED
      BY <1>2, <1>7, <2>1, <2>2, <3>1, CloseReaches
  <2>3. CASE pod[p].stage /= "ended"
    BY <1>1, <1>7, <2>1, <2>3, LargerOf DEF Checkpoint, NullSeq
  <2> QED
    BY <2>2, <2>3
<1>8. ASSUME NEW p \in Pods, DisposeStep(p), ~(s <= row.consumed_seq)
      PROVE  Passed(s)'
  <2>1. /\ pod[p].stage = "settling" /\ Owns(p) /\ s \in 1..top
        /\ row'.consumed_seq = Max2(row.consumed_seq, pod[p].input)
        /\ pod[p].input \in Int
    BY <1>1, <1>8, Elements DEF DisposeStep, ClaimsAndStops, Shape
  <2>2. s <= pod[p].input
    BY <1>1, <1>8, <2>1, LargerOf
  <2> QED
    BY <1>2, <2>1, <2>2 DEF Order, Through
<1>9. \/ row'.consumed_seq = row.consumed_seq
      \/ row.state = "absent" /\ row'.consumed_seq = 0
      \/ \E some \in SUBSET Requests : TakeStep(some)
      \/ \E p \in Pods, r \in Requests : SettleStep(p, r)
      \/ \E p \in Pods : CloseStep(p) \/ DisposeStep(p)
  BY DEF Kinds, TickStep, KeepsTurn, KeepsWork, MessageStep, LiftStep, AskStep, ReceiptStep,
     GrantStep, PassStep, BindStep, NothingStep, BeginStep, WriteStep, ForgetStep
<1> QED
  BY <1>1, <1>3, <1>5, <1>6, <1>7, <1>8, <1>9

\* What a turn had reached stays reached.
LEMMA ReachedStays ==
  ASSUME ClaimsAndStops, Kinds
  PROVE  \A t \in Nat : t <= top /\ Reached(t) =>
           /\ \A s \in 1..top' : s < t => Passed(s)'
           /\ Human(t) /\ t /= 0 => t \in started'
<1> SUFFICES ASSUME NEW t \in Nat, t <= top, Reached(t)
             PROVE  /\ \A s \in 1..top' : s < t => Passed(s)'
                    /\ Human(t) /\ t /= 0 => t \in started'
  OBVIOUS
<1>1. ASSUME NEW s \in 1..top', s < t
      PROVE  Passed(s)'
  <2>1. s \in 1..top /\ s \in Nat
    BY <1>1, Growth
  <2> QED
    BY <1>1, <2>1, PassedStays DEF Reached, Before
<1> QED
  BY <1>1, Growth DEF Reached

\* The turn that begins.
LEMMA BeginReached ==
  ASSUME ClaimsAndStops, Order, Events, Kinds, NEW p \in Pods, NEW s, BeginStep(p, s)
  PROVE  /\ \A y \in 1..top' : y < s => Passed(y)'
         /\ s \in started'
<1>1. top' = top /\ s \in started'
  BY DEF BeginStep
<1>2. ASSUME NEW y \in 1..top', y < s
      PROVE  Passed(y)'
  <2>1. y \in 1..top /\ y \in Nat
    BY <1>1, <1>2, Growth
  <2> QED
    BY <1>2, <2>1, BeginReaches, PassedStays
<1> QED
  BY <1>1, <1>2

\* What a step does to one claim.
LEMMA PodChanges ==
  ASSUME Kinds, NEW p \in Pods
  PROVE  \/ pod'[p] = pod[p] \/ pod'[p] = Idle
         \/ \E r \in Requests : SettleStep(p, r)
         \/ GrantStep(p) \/ PassStep(p) \/ BindStep(p) \/ NothingStep(p)
         \/ \E s \in 1..MaxSeq : BeginStep(p, s)
         \/ CloseStep(p)
<1>1. ASSUME NEW q \in Pods, q /= p,
             \/ \E r \in Requests : SettleStep(q, r)
             \/ GrantStep(q) \/ PassStep(q) \/ BindStep(q) \/ NothingStep(q)
             \/ \E s \in 1..MaxSeq : BeginStep(q, s)
             \/ CloseStep(q) \/ ForgetStep(q) \/ DisposeStep(q)
      PROVE  pod'[p] = pod[p]
  <2>1. PodsBut(q)
    BY <1>1 DEF SettleStep, GrantStep, PassStep, BindStep, NothingStep, BeginStep,
       CloseStep, ForgetStep, DisposeStep
  <2> QED
    BY <1>1, <2>1 DEF PodsBut
<1>2. CASE UNCHANGED pod
  BY <1>2
<1>3. CASE ForgetStep(p) \/ DisposeStep(p)
  BY <1>3 DEF ForgetStep, DisposeStep
<1>4. \/ UNCHANGED pod
      \/ \E q \in Pods : \/ \E r \in Requests : SettleStep(q, r)
                         \/ GrantStep(q) \/ PassStep(q) \/ BindStep(q) \/ NothingStep(q)
                         \/ \E s \in 1..MaxSeq : BeginStep(q, s)
                         \/ CloseStep(q) \/ ForgetStep(q) \/ DisposeStep(q)
  BY DEF Kinds, TickStep, MessageStep, LiftStep, TakeStep, AskStep, ReceiptStep,
     WriteStep
<1> QED
  BY <1>1, <1>2, <1>3, <1>4

\* Every kind of step keeps the order.
LEMMA OrderStep ==
  ASSUME ClaimsAndStops, Shape', Order, Events, CalmFits, Kinds
  PROVE  Order'
<1> USE DEF threadVars, eventVars, claimVars
<1>1. /\ top \in Nat /\ top' \in {top, top + 1}
      /\ row.adm_turn \in Nat /\ row.adm_turn <= top
      /\ \A r \in Requests : stop[r].turn \in Nat /\ stop[r].turn <= top
      /\ \A p \in Pods : /\ pod[p].turn \in Nat /\ pod[p].turn <= top
                         /\ pod[p].input \in Int /\ pod[p].input <= top
                         /\ pod[p].stage \in {"claimed", "bound"} => pod[p].turn = 0
  BY Growth, Elements, RowNumbers
     DEF ClaimsAndStops, Shape, TypeOK, RowFits, EventsFit, PodFits
<1>2. \A t \in Nat : t <= top /\ Reached(t) =>
        /\ \A s \in 1..top' : s < t => Passed(s)'
        /\ Human(t) /\ t /= 0 => t \in started'
  BY ReachedStays
<1>3. Through(row.consumed_seq)'
  BY WatermarkPasses
<1>4. Reached(row.adm_turn)'
  <2>1. CASE row'.adm_turn = row.adm_turn
    BY <1>1, <1>2, <2>1 DEF Order, Reached, Before, Human
  <2>2. CASE row'.adm_turn = 0
    BY <2>2 DEF Reached, Before
  <2>3. ASSUME NEW p \in Pods, NEW s \in 1..MaxSeq, BeginStep(p, s)
        PROVE  Reached(row.adm_turn)'
    <3>1. row'.adm_turn = s
      BY <2>3 DEF BeginStep
    <3> QED
      BY <2>3, <3>1, BeginReached DEF Reached, Before
  <2>4. \/ row'.adm_turn = row.adm_turn \/ row'.adm_turn = 0
        \/ \E p \in Pods, s \in 1..MaxSeq : BeginStep(p, s)
    BY DEF Kinds, TickStep, KeepsTurn, KeepsWork, MessageStep, LiftStep, TakeStep, AskStep,
       ReceiptStep, SettleStep, GrantStep, PassStep, BindStep, NothingStep,
       WriteStep, CloseStep, ForgetStep, DisposeStep, Shut
  <2> QED
    BY <2>1, <2>2, <2>3, <2>4
<1>5. ASSUME NEW r \in Requests
      PROVE  Reached(stop[r].turn)'
  <2>1. stop'[r].turn \in {stop[r].turn, row.adm_turn}
    BY StopChanges DEF ClaimsAndStops, StopChange
  <2> QED
    BY <1>1, <1>2, <2>1 DEF Order, Reached, Before, Human
<1>6. ASSUME NEW p \in Pods
      PROVE  Reached(pod[p].turn)'
  <2>1. CASE pod'[p].turn = pod[p].turn
    BY <1>1, <1>2, <2>1 DEF Order, Reached, Before, Human
  <2>2. CASE pod'[p].turn = 0
    BY <2>2 DEF Reached, Before
  <2>3. ASSUME NEW q \in Pods, NEW s \in 1..MaxSeq, BeginStep(q, s)
        PROVE  Reached(pod[p].turn)'
    <3>1. pod'[p].turn = s \/ pod'[p].turn = pod[p].turn
      BY <2>3 DEF BeginStep, PodsBut
    <3> QED
      BY <2>1, <2>3, <3>1, BeginReached DEF Reached, Before
  <2>4. \/ pod'[p].turn = pod[p].turn \/ pod'[p].turn = 0
        \/ \E q \in Pods, s \in 1..MaxSeq : BeginStep(q, s)
    BY IdleType
       DEF Kinds, TickStep, MessageStep, LiftStep, TakeStep, AskStep,
       ReceiptStep, SettleStep, GrantStep, PassStep, BindStep, NothingStep,
       WriteStep, CloseStep, ForgetStep, DisposeStep, PodsBut
  <2> QED
    BY <2>1, <2>2, <2>3, <2>4
<1>7. ASSUME NEW p \in Pods, pod'[p].stage = "settling", Owns(p)'
      PROVE  Through(pod[p].input)'
  <2>1. Owns(p)
    BY <1>7, OwnsBefore DEF ClaimsAndStops, GrantStep
  <2>2. /\ pod'[p].input \in Int /\ pod'[p].input <= top
        /\ \A s \in 1..top : s <= pod'[p].input => Passed(s)
    <3>1. CASE pod[p].stage = "settling" /\ pod'[p].input = pod[p].input
      BY <1>1, <2>1, <3>1 DEF Order, Through
    <3>2. CASE PassStep(p) /\ pod[p].stage = "claimed"
      <4>1. Fresh(p) /\ pod'[p].input \in Skips(p)
        BY <1>7, <2>1, <3>2 DEF Fresh, PassStep, Passes
      <4>2. pod'[p].input \in Int /\ pod'[p].input <= top
        <5>1. pod'[p] \in PodStates /\ PodFits(p)' /\ top' = top
          BY <3>2 DEF Shape, TypeOK, PassStep
        <5> QED
          BY <5>1 DEF PodFits, PodStates, Seqs, NullSeq
      <4> QED
        BY <3>2, <4>1, <4>2, SkipReaches
    <3>3. CASE NothingStep(p)
      BY <1>1, <3>3, NothingReaches DEF NothingStep
    <3>4. CASE CloseStep(p)
      <4>1. pod[p].stage = "ended" /\ pod'[p].input = pod[p].turn
        BY <1>7, <3>4 DEF CloseStep, Checkpoint
      <4> QED
        BY <1>1, <3>4, <4>1, CloseReaches
    <3>5. \/ pod[p].stage = "settling" /\ pod'[p].input = pod[p].input
          \/ PassStep(p) /\ pod[p].stage = "claimed"
          \/ NothingStep(p) \/ CloseStep(p)
      <4>1. CASE pod'[p] = pod[p]
        BY <1>7, <4>1
      <4>2. CASE pod'[p] /= pod[p]
        <5>1. pod'[p].stage \notin {"idle", "claimed", "bound", "running"}
              /\ pod'[p] /= Idle
          BY <1>7, IdleType
        <5>2. \/ \E r \in Requests : SettleStep(p, r)
              \/ PassStep(p) \/ NothingStep(p) \/ CloseStep(p)
          BY <4>2, <5>1, PodChanges DEF GrantStep, BindStep, BeginStep
        <5> QED
          BY <1>7, <5>2 DEF SettleStep, PassStep, Passes
      <4> QED
        BY <4>1, <4>2
    <3> QED
      BY <3>1, <3>2, <3>3, <3>4, <3>5
  <2>3. ASSUME NEW s \in 1..top', s <= pod'[p].input
        PROVE  Passed(s)'
    <3>1. s \in 1..top /\ s \in Nat
      BY <1>1, <2>2, <2>3
    <3> QED
      BY <2>2, <2>3, <3>1, PassedStays
  <2> QED
    BY <2>3 DEF Through
<1> QED
  BY <1>3, <1>4, <1>5, <1>6, <1>7 DEF Order

\* Every kind of step keeps account of the events.
LEMMA EventsStep ==
  ASSUME ClaimsAndStops, Shape', Order, Events, Kinds
  PROVE  Events'
<1> USE DEF threadVars, eventVars, claimVars
<1>1. /\ top \in Nat /\ top' \in {top, top + 1} /\ row.lease_token \in Nat
      /\ \A a \in admitted : /\ a[1] \in Nat /\ a[1] /= 0
                             /\ a[2] \in Nat /\ a[2] /= 0 /\ a[2] <= row.lease_token
      /\ \A p \in Pods : /\ pod[p].token \in Nat
                         /\ pod[p].stage \in {"claimed", "bound"} => pod[p].turn = 0
  BY Growth, Elements, RowNumbers, Numbers
     DEF ClaimsAndStops, Shape, TypeOK, EventsFit, PodFits
<1>2. \/ UNCHANGED eventVars /\ UNCHANGED <<answered, started>>
      \/ \E p \in Pods : NothingStep(p) \/ WriteStep(p)
      \/ \E p \in Pods, s \in 1..MaxSeq : BeginStep(p, s)
      \/ MessageStep
  BY DEF Kinds, TickStep, LiftStep, TakeStep, AskStep, ReceiptStep, SettleStep,
     GrantStep, PassStep, BindStep, CloseStep, ForgetStep, DisposeStep
<1>3. \A s \in EventSeqs : s <= top' =>
        s \in owed' \cup answered' \/ \E a \in admitted' : a[1] = s
  <2> SUFFICES ASSUME NEW s \in EventSeqs, s <= top'
               PROVE  s \in owed' \cup answered' \/ \E a \in admitted' : a[1] = s
    OBVIOUS
  <2>1. s <= top => s \in owed \cup answered \/ \E a \in admitted : a[1] = s
    BY DEF Events
  <2>2. CASE MessageStep
    <3>1. s <= top \/ s = top + 1
      BY <2>2, <1>1, Numbers DEF MessageStep
    <3>2. CASE s = top + 1
      BY <2>2, <3>2 DEF MessageStep, Human
    <3>3. CASE s <= top
      BY <2>1, <2>2, <3>3 DEF MessageStep
    <3> QED
      BY <3>1, <3>2, <3>3
  <2>3. ASSUME NEW p \in Pods, NothingStep(p)
        PROVE  s \in owed' \cup answered' \/ \E a \in admitted' : a[1] = s
    BY <2>1, <2>3 DEF NothingStep
  <2>4. ASSUME NEW p \in Pods, WriteStep(p)
        PROVE  s \in owed' \cup answered' \/ \E a \in admitted' : a[1] = s
    <3>1. s \in owed \cup answered \/ \E a \in admitted : a[1] = s
      BY <2>1, <2>4 DEF WriteStep
    <3>2. CASE admitted' = admitted \cup {<<pod[p].turn, pod[p].token>>}
               /\ owed' = owed \ {pod[p].turn} /\ UNCHANGED answered
      <4> DEFINE a == <<pod[p].turn, pod[p].token>>
      <4>1. a \in admitted' /\ a[1] = pod[p].turn
        BY <3>2
      <4> HIDE DEF a
      <4> QED
        BY <3>1, <3>2, <4>1
    <3>3. CASE UNCHANGED <<owed, admitted>> /\ answered \subseteq answered'
      BY <3>1, <3>3
    <3> QED
      BY <2>4, <3>2, <3>3 DEF WriteStep
  <2>5. ASSUME NEW p \in Pods, NEW t \in 1..MaxSeq, BeginStep(p, t)
        PROVE  s \in owed' \cup answered' \/ \E a \in admitted' : a[1] = s
    <3>1. s \in owed \cup answered \/ \E a \in admitted : a[1] = s
      BY <2>1, <2>5 DEF BeginStep
    <3>2. CASE s = t
      BY <2>5, <3>2 DEF BeginStep, Human
    <3>3. CASE s /= t
      BY <2>5, <3>1, <3>3 DEF BeginStep
    <3> QED
      BY <3>2, <3>3
  <2>6. CASE UNCHANGED eventVars /\ UNCHANGED answered /\ UNCHANGED top
    BY <2>1, <2>6
  <2>7. MessageStep \/ UNCHANGED top
    BY DEF Kinds, TickStep, LiftStep, TakeStep, AskStep, ReceiptStep, SettleStep,
       GrantStep, PassStep, BindStep, NothingStep, BeginStep, WriteStep, CloseStep,
       ForgetStep, DisposeStep
  <2> QED
    BY <1>2, <2>2, <2>3, <2>4, <2>5, <2>6, <2>7
<1>4. \A s \in answered' : Human(s) => s \in started'
  <2>1. ASSUME NEW s \in answered', s \notin answered, Human(s)
        PROVE  s \in started'
    <3>1. PICK p \in Pods : WriteStep(p)
      BY <1>2, <2>1 DEF NothingStep, BeginStep, MessageStep
    <3>2. s = pod[p].turn /\ pod[p].stage = "running" /\ started' = started
      BY <2>1, <3>1 DEF WriteStep
    <3>3. s /= 0
      BY <3>2 DEF ClaimsAndStops, Shape, PodFits
    <3> QED
      BY <2>1, <3>2, <3>3 DEF Order, Reached
  <2> QED
    BY <2>1, Growth DEF Events
<1>5. settled' \subseteq answered'
  <2>1. ASSUME NEW s \in settled', s \notin settled
        PROVE  s \in answered
    BY <1>2, <2>1 DEF NothingStep, WriteStep, BeginStep, MessageStep, Events
  <2> QED
    BY <2>1, Growth DEF Events
<1>6. ASSUME NEW a \in admitted', a \notin admitted
      PROVE  \E p \in Pods : /\ WriteStep(p) /\ pod[p].stage = "running" /\ UNCHANGED pod
                             /\ a = <<pod[p].turn, pod[p].token>>
  BY <1>2, <1>6 DEF NothingStep, WriteStep, BeginStep, MessageStep
<1>7. ASSUME NEW p \in Pods, NEW q \in Pods, pod[p].stage /= "idle",
             pod[p].token = pod[q].token
      PROVE  p = q
  BY <1>7 DEF ClaimsAndStops, Apart
<1>8. ASSUME NEW p \in Pods, NEW a \in admitted', a[2] = pod'[p].token
      PROVE  a[1] = pod'[p].turn
  <2>1. CASE a \notin admitted
    <3>1. PICK q \in Pods : /\ pod[q].stage = "running" /\ UNCHANGED pod
                            /\ a = <<pod[q].turn, pod[q].token>>
      BY <1>6, <2>1
    <3>2. p = q
      BY <1>7, <1>8, <3>1
    <3> QED
      BY <3>1, <3>2
  <2>2. CASE a \in admitted
    <3>1. a[2] = pod[p].token => a[1] = pod[p].turn
      BY <2>2 DEF Events
    <3>2. CASE pod'[p].token = pod[p].token /\ pod'[p].turn = pod[p].turn
      BY <1>8, <3>1, <3>2
    <3>3. CASE pod'[p] = Idle
      BY <1>1, <1>8, <2>2, <3>3, IdleType
    <3>4. CASE GrantStep(p)
      BY <1>1, <1>8, <2>2, <3>4 DEF GrantStep
    <3>5. ASSUME NEW s \in 1..MaxSeq, BeginStep(p, s)
          PROVE  FALSE
      <4>1. pod'[p].token = pod[p].token /\ pod[p].turn = 0
        BY <1>1, <3>5 DEF BeginStep
      <4> QED
        BY <1>1, <1>8, <2>2, <3>1, <4>1
    <3> QED
      BY <3>2, <3>3, <3>4, <3>5, PodChanges
         DEF SettleStep, PassStep, BindStep, NothingStep, CloseStep
  <2> QED
    BY <2>1, <2>2
<1>9. ASSUME NEW p \in Pods, pod'[p].stage \in {"ended", "settling"},
             <<pod'[p].turn, pod'[p].token>> \in admitted'
      PROVE  pod'[p].turn \in answered'
  <2> DEFINE a == <<pod'[p].turn, pod'[p].token>>
  <2>1. CASE a \notin admitted
    <3>1. PICK q \in Pods : /\ pod[q].stage = "running" /\ UNCHANGED pod
                            /\ a = <<pod[q].turn, pod[q].token>>
      BY <1>6, <1>9, <2>1
    <3>2. p = q
      BY <1>7, <3>1
    <3> QED
      BY <1>9, <3>1, <3>2
  <2>2. CASE a \in admitted
    <3>1. pod[p].stage \in {"ended", "settling"} /\ AdmittedHere(p) => pod[p].turn \in answered
      BY DEF Events
    <3>2. pod'[p].turn /= 0
      BY <1>1, <2>2
    <3>3. CASE /\ pod'[p].token = pod[p].token /\ pod'[p].turn = pod[p].turn
               /\ pod[p].stage \in {"ended", "settling"}
      BY <2>2, <3>1, <3>3, Growth DEF AdmittedHere
    <3>4. CASE PassStep(p) /\ pod[p].stage \notin {"ended", "settling"}
      <4>1. pod'[p].turn = pod[p].turn /\ pod'[p].token = pod[p].token
        BY <3>4 DEF PassStep
      <4>2. AdmittedHere(p) /\ pod[p].turn /= 0
        BY <2>2, <3>2, <4>1 DEF AdmittedHere
      <4>3. pod[p].stage = "running" /\ pod'[p].stage = "ended"
        BY <1>1, <1>9, <3>4, <4>2 DEF PassStep, Passes
      <4>4. pod[p].turn \in answered
        BY <3>4, <4>2, <4>3 DEF PassStep, Passes
      <4> QED
        BY <4>1, <4>4, Growth
    <3>5. CASE NothingStep(p)
      BY <1>1, <3>2, <3>5 DEF NothingStep
    <3>6. CASE CloseStep(p)
      <4>1. pod[p].stage = "ended"
        BY <1>9, <3>6 DEF CloseStep
      <4> QED
        BY <3>3, <3>6, <4>1 DEF CloseStep
    <3>7. pod'[p] /= Idle /\ ~GrantStep(p) /\ ~BindStep(p)
          /\ \A s \in 1..MaxSeq : ~BeginStep(p, s)
      BY <1>9, IdleType DEF GrantStep, BindStep, BeginStep
    <3>8. ASSUME NEW r \in Requests, SettleStep(p, r)
          PROVE  pod'[p].turn \in answered'
      BY <1>9, <3>3, <3>8 DEF SettleStep
    <3>9. CASE pod'[p] = pod[p]
      BY <1>9, <3>3, <3>9
    <3>10. CASE PassStep(p) /\ pod[p].stage \in {"ended", "settling"}
      BY <3>3, <3>10 DEF PassStep
    <3> QED
      BY <3>4, <3>5, <3>6, <3>7, <3>8, <3>9, <3>10, PodChanges
  <2> QED
    BY <2>1, <2>2
<1> QED
  BY <1>3, <1>4, <1>5, <1>8, <1>9 DEF Events, AdmittedHere, Human

\* Without a shutdown a turn ends when its end is durable.
LEMMA CalmStep ==
  ASSUME ClaimsAndStops, CalmFits, Kinds, Steady
  PROVE  CalmFits'
<1> SUFFICES ASSUME Calm
             PROVE  /\ draining' = {}
                    /\ \A p \in Pods : pod'[p].stage = "ended" =>
                                         pod'[p].turn \in answered'
  BY DEF CalmFits, Calm
<1>1. draining = {} /\ draining' = {}
  BY DEF CalmFits, Steady
<1>2. ASSUME NEW p \in Pods, pod'[p].stage = "ended"
      PROVE  pod'[p].turn \in answered
  <2>1. pod[p].stage = "ended" => pod[p].turn \in answered
    BY DEF CalmFits
  <2>2. CASE pod'[p] = pod[p]
    BY <1>2, <2>1, <2>2
  <2>3. ASSUME NEW r \in Requests, SettleStep(p, r)
        PROVE  pod'[p].turn \in answered
    BY <1>2, <2>1, <2>3 DEF SettleStep
  <2>4. CASE PassStep(p)
    <3>1. pod'[p].turn = pod[p].turn /\ Passes(p)
      BY <2>4 DEF PassStep
    <3>2. CASE pod'[p].stage = pod[p].stage
      BY <1>2, <2>1, <3>1, <3>2
    <3>3. CASE pod[p].stage = "running"
      BY <1>1, <1>2, <3>1, <3>3 DEF Passes
    <3> QED
      BY <1>2, <3>1, <3>2, <3>3 DEF Passes
  <2> QED
    BY <1>2, <2>2, <2>3, <2>4, PodChanges, IdleType
       DEF GrantStep, BindStep, NothingStep, BeginStep, CloseStep
<1> QED
  BY <1>1, <1>2, Growth

-----------------------------------------------------------------------------
\* The invariant of a session, whole.
TurnsInv == ClaimsAndStops /\ Order /\ Events /\ CalmFits

\* It holds in every state: from the claims and the stops follow the turns, from
\* the turns the watermark.
THEOREM TurnsInvariant ==
  Spec => []TurnsInv
<1>1. Init /\ ClaimsAndStops => TurnsInv
  <2> SUFFICES ASSUME Init PROVE Order /\ Events /\ CalmFits
    BY DEF TurnsInv
  <2>1. /\ top = 0 /\ owed = {} /\ admitted = {} /\ settled = {} /\ answered = {}
        /\ draining = {} /\ row.adm_turn = 0 /\ 1..top = {}
        /\ \A p \in Pods : pod[p].stage = "idle" /\ pod[p].turn = 0
        /\ \A r \in Requests : stop[r].turn = 0
    BY IdleType DEF Init, NoStop, NoRow
  <2>2. Order /\ CalmFits
    BY <2>1 DEF Order, Through, Reached, Before, CalmFits
  <2>3. \A s \in EventSeqs : ~(s <= top)
    BY <2>1, Numbers
  <2>4. Events
    BY <2>1, <2>3 DEF Events
  <2> QED
    BY <2>2, <2>4
<1>2. TurnsInv /\ [Next]_vars /\ ClaimsAndStops' => TurnsInv'
  BY StepKinds, OrderStep, EventsStep, CalmStep DEF Kept, TurnsInv, ClaimsAndStops
<1> QED
  BY <1>1, <1>2, ClaimsAndStopsHold, PTL DEF Spec

\* No human message is skipped: the watermark, which events, stops, checkpoints and
\* skip checks all move, passes one only after some executor has started its turn.
THEOREM NoneSkipped ==
  Spec => []NothingSkipped
<1>1. TurnsInv => NothingSkipped
  BY DEF TurnsInv, Order, Through, Passed, NothingSkipped
<1> QED
  BY <1>1, TurnsInvariant, PTL

\* A session comes to rest only when every event was answered, also those whose
\* executor died or was shut down in their turn.
THEOREM EventsAreServed ==
  Spec => []EventsServed
<1>1. TurnsInv => EventsServed
  <2> SUFFICES ASSUME TurnsInv, row.state = "done", NEW s \in 1..top, s \in EventSeqs
               PROVE  s \in answered
    BY DEF EventsServed
  <2>1. row.consumed_seq >= top /\ row.consumed_seq \in Int /\ top \in Nat
    BY RowNumbers, Numbers DEF TurnsInv, ClaimsAndStops, Shape, RowFits, TypeOK
  <2>2. s <= row.consumed_seq
    BY <2>1
  <2> QED
    BY <2>2 DEF TurnsInv, Order, Through, Passed, Human
<1> QED
  BY <1>1, TurnsInvariant, PTL

\* Where no executor is shut down, the watermark passes a human message only once
\* its turn has a durable end or a stop was applied to it.
THEOREM ConsumedIsServed ==
  ASSUME "shutdown" \notin Faults
  PROVE  Spec => []ServedBeforeConsumed
<1>1. TurnsInv => ServedBeforeConsumed
  BY DEF TurnsInv, Order, Through, Passed, Calm, ServedBeforeConsumed
<1> QED
  BY <1>1, TurnsInvariant, PTL

-----------------------------------------------------------------------------
(***************************************************************************)
(* One answer.  Among human messages, turns are started in order, each the *)
(* one after the watermark, and a claim that finds that one answered skips *)
(* it.                                                                     *)
(***************************************************************************)

InTurn ==
    /\ \A s \in started : s <= row.consumed_seq + 1
    /\ \A p \in Pods : pod[p].stage = "bound" /\ Owns(p) =>
           row.consumed_seq + 1 \notin answered

\* The turn that begins is the next after the watermark.
LEMMA BeginsNext ==
  ASSUME TurnsInv, EventSeqs = {}, NEW p \in Pods, NEW s \in 1..MaxSeq, BeginStep(p, s)
  PROVE  s = row.consumed_seq + 1
<1>1. /\ row.consumed_seq \in Int /\ row.consumed_seq >= 0 /\ top \in Nat
  BY RowNumbers, Numbers
     DEF TurnsInv, ClaimsAndStops, Shape, TypeOK, RowFits, BeginStep, Leased
<1>2. PendingInput = {y \in 1..top : y > row.consumed_seq}
  BY DEF PendingInput, Humans, Human, StaleAdmissions, TurnsInv, ClaimsAndStops, Shape,
     TypeOK
<1>3. s \in PendingInput /\ \A y \in PendingInput : s <= y
  BY DEF BeginStep
<1>4. s \in 1..top /\ s > row.consumed_seq
  BY <1>2, <1>3
<1>5. row.consumed_seq + 1 \in 1..top /\ row.consumed_seq + 1 > row.consumed_seq
  BY <1>1, <1>4
<1>6. row.consumed_seq + 1 \in PendingInput
  BY <1>2, <1>5
<1> QED
  BY <1>1, <1>3, <1>4, <1>6

\* A claim that binds has found the next message unanswered.
LEMMA BindsUnanswered ==
  ASSUME TurnsInv, EventSeqs = {}, NEW p \in Pods, BindStep(p)
  PROVE  row.consumed_seq + 1 \notin answered
<1>1. /\ row.consumed_seq \in Int /\ row.consumed_seq >= 0 /\ top \in Nat
      /\ pod[p].input \in Int /\ pod[p].input <= top
  BY RowNumbers, Elements, Numbers
     DEF TurnsInv, ClaimsAndStops, Shape, TypeOK, RowFits, PodFits, BindStep, Owns, Leased
<1>2. ~EventOwed
  BY DEF EventOwed, StaleAdmissions, TurnsInv, ClaimsAndStops, Shape, TypeOK
<1>3. ~(row.consumed_seq >= pod[p].input) /\ AnsweredOldest(p) = {}
  BY <1>2 DEF BindStep, Skips
<1>4. Humans = {y \in 1..top : y > row.consumed_seq}
  BY DEF Humans, Human
<1>5. /\ row.consumed_seq + 1 \in Humans /\ row.consumed_seq + 1 <= pod[p].input
      /\ \A h \in Humans : row.consumed_seq + 1 <= h
  BY <1>1, <1>3, <1>4
<1> QED
  BY <1>3, <1>5 DEF AnsweredOldest

\* Every kind of step keeps the turns in order.
LEMMA InTurnStep ==
  ASSUME TurnsInv, TurnsInv', EventSeqs = {}, InTurn, Kinds
  PROVE  InTurn'
<1> USE DEF threadVars, eventVars, claimVars
<1>1. /\ row.consumed_seq \in Int /\ row'.consumed_seq \in Int
      /\ row'.consumed_seq >= row.consumed_seq
      /\ \A s \in started : s \in Nat
  BY RowNumbers, Watermarks, Numbers DEF TurnsInv, ClaimsAndStops, Shape, TypeOK
<1>2. ASSUME NEW s \in started'
      PROVE  s <= row'.consumed_seq + 1
  <2>1. CASE s \in started
    BY <1>1, <2>1 DEF InTurn
  <2>2. ASSUME NEW p \in Pods, NEW t \in 1..MaxSeq, BeginStep(p, t), s \notin started
        PROVE  s <= row'.consumed_seq + 1
    <3>1. s = t /\ row'.consumed_seq = row.consumed_seq
      BY <1>2, <2>2 DEF BeginStep, KeepsWork
    <3> QED
      BY <1>1, <2>2, <3>1, BeginsNext
  <2>3. UNCHANGED started \/ \E p \in Pods, t \in 1..MaxSeq : BeginStep(p, t)
    BY DEF Kinds, TickStep, MessageStep, LiftStep, TakeStep, AskStep, ReceiptStep,
       SettleStep, GrantStep, PassStep, BindStep, NothingStep, WriteStep, CloseStep,
       ForgetStep, DisposeStep
  <2> QED
    BY <1>2, <2>1, <2>2, <2>3
<1>3. ASSUME NEW p \in Pods, pod'[p].stage = "bound", Owns(p)'
      PROVE  row'.consumed_seq + 1 \notin answered'
  <2>1. Owns(p) /\ pod'[p].token = pod[p].token /\ row'.lease_token = row.lease_token
    BY <1>3, OwnsBefore DEF TurnsInv, ClaimsAndStops, GrantStep
  <2>2. CASE BindStep(p)
    BY <2>2, BindsUnanswered DEF BindStep
  <2>3. CASE pod[p].stage = "bound"
    <3>1. \A q \in Pods \ {p} : ~Owns(q)
      BY <2>1 DEF Owns, Leased, TurnsInv, ClaimsAndStops, Apart
    <3>2. UNCHANGED answered
      <4>1. UNCHANGED answered \/ \E q \in Pods : WriteStep(q) /\ pod[q].stage = "running"
        BY DEF Kinds, TickStep, MessageStep, LiftStep, TakeStep, AskStep, ReceiptStep,
           SettleStep, GrantStep, PassStep, BindStep, NothingStep, BeginStep, WriteStep,
           CloseStep, ForgetStep, DisposeStep
      <4> QED
        BY <2>3, <3>1, <4>1 DEF WriteStep
    <3>3. CASE row'.consumed_seq = row.consumed_seq
      BY <2>1, <2>3, <3>2, <3>3 DEF InTurn
    <3>4. CASE row'.consumed_seq /= row.consumed_seq
      <4>1. row'.consumed_seq + 1 > row.consumed_seq + 1
        BY <1>1, <3>4
      <4>2. row'.consumed_seq + 1 \notin started
        BY <1>1, <4>1 DEF InTurn
      <4>3. \A s \in answered : s \in started
        BY DEF TurnsInv, Events, Human
      <4> QED
        BY <3>2, <4>2, <4>3
    <3> QED
      BY <3>3, <3>4
  <2>4. BindStep(p) \/ pod[p].stage = "bound"
    BY <1>3, PodChanges, IdleType
       DEF SettleStep, GrantStep, PassStep, Passes, NothingStep, BeginStep, CloseStep
  <2> QED
    BY <2>2, <2>3, <2>4
<1> QED
  BY <1>2, <1>3 DEF InTurn

\* In a session of human messages no answered input is answered again, whoever
\* crashed, was stolen from or shut down in between.
THEOREM NoSecondAnswer ==
  ASSUME EventSeqs = {}
  PROVE  Spec => AnsweredOnce
<1>1. Init => InTurn
  BY IdleType DEF Init, InTurn
<1>2. TurnsInv /\ InTurn /\ [Next]_vars /\ TurnsInv' => InTurn'
  BY StepKinds, InTurnStep DEF TurnsInv, ClaimsAndStops, Kept
<1>3. TurnsInv /\ InTurn /\ [Next]_vars =>
        [\A p \in Pods, s \in 1..MaxSeq : Starts(p, s) => s \notin answered]_vars
  <2> SUFFICES ASSUME TurnsInv, InTurn, [Next]_vars,
                      NEW p \in Pods, NEW s \in 1..MaxSeq, Starts(p, s)
               PROVE  s \notin answered
    OBVIOUS
  <2>1. BeginStep(p, s)
    BY StepKinds, StartsBegin DEF TurnsInv, ClaimsAndStops, Kept
  <2>2. s = row.consumed_seq + 1
    BY <2>1, BeginsNext
  <2> QED
    BY <2>1, <2>2 DEF InTurn, BeginStep, Owns
<1> QED
  BY <1>1, <1>2, <1>3, TurnsInvariant, PTL DEF Spec, AnsweredOnce
-----------------------------------------------------------------------------
(***************************************************************************)
(* The hold and the reason.  Only the steal and the acknowledgement write  *)
(* claim_loss_hold or take it away; every other statement runs where there *)
(* is no hold, or leaves the reason alone.                                 *)
(***************************************************************************)

\* The statement brings no claim_loss_hold into the row.
NoNewHold(r, s) ==
    s.park_reason = "claim_loss_hold" => r.park_reason = "claim_loss_hold"

\* EndLease leaves the reason alone.
LEMMA EndLeaseReason ==
  ASSUME NEW r \in Row
  PROVE  EndLease(r) \in Row /\ EndLease(r).park_reason = r.park_reason
BY EndLeaseRow DEF EndLease, Row

\* The statements that end a lease give reasons of their own, or none.
LEMMA EndingReasons ==
  ASSUME NEW r \in Row, NEW due \in BOOLEAN, NEW c \in Seqs, NEW o \in BOOLEAN
  PROVE  /\ NoNewHold(r, Release(r, due)) /\ NoNewHold(r, ReleaseDeterministic(r))
         /\ NoNewHold(r, Park(r, "executor")) /\ NoNewHold(r, Complete(r, c, o))
         /\ NoNewHold(r, ReapSteal(r, FALSE))
<1> DEFINE base == EndLease(r)
           failures == NextFailures(r, "deterministic")
           refused == failures >= MaxAttempts
           next == IF refused THEN "parked" ELSE "queued"
           reason == IF refused THEN "refused" ELSE base.park_reason
           why == IF "executor" = "none" THEN base.park_reason ELSE "executor"
           consumed == Max2(r.consumed_seq, c)
           end == IF Debt(r, IF c = NullSeq THEN NullSeq ELSE consumed, o)
                  THEN "queued" ELSE "done"
           lost == r.attempts >= MaxAttempts
           state == IF lost THEN "parked" ELSE "queued"
           because == IF lost THEN "reaper_max_attempts" ELSE base.park_reason
           token == base.lease_token + 1
<1>1. base \in Row /\ base.park_reason = r.park_reason
  BY EndLeaseReason
<1>2. /\ Release(r, due) = [base EXCEPT !.state = "queued",
                              !.last_leased_by = NoPod, !.ready = due]
      /\ ReleaseDeterministic(r) = [base EXCEPT !.state = next,
           !.park_reason = reason, !.last_leased_by = NoPod, !.ready = FALSE,
           !.attach_failures = failures, !.signature = "deterministic"]
      /\ Park(r, "executor") = [base EXCEPT !.state = "parked",
           !.last_leased_by = NoPod, !.ready = TRUE, !.park_reason = why]
      /\ Complete(r, c, o) = [base EXCEPT !.consumed_seq = consumed,
           !.attempts = 0, !.attach_failures = 0, !.signature = "none",
           !.ready = TRUE, !.state = end]
      /\ ReapSteal(r, FALSE) = [base EXCEPT !.lease_token = token, !.state = state,
           !.park_reason = because, !.last_leased_by = NoPod, !.ready = FALSE]
  BY DEF Release, ReleaseDeterministic, Park, Complete, ReapSteal
<1>3. /\ reason \in {base.park_reason, "refused"} /\ why = "executor"
      /\ because \in {base.park_reason, "reaper_max_attempts"}
  OBVIOUS
<1> HIDE DEF base, failures, refused, next, reason, why, consumed, end, lost, state,
             because, token
<1>4. NoNewHold(r, Release(r, due))
  BY <1>1, <1>2 DEF NoNewHold, Row
<1>5. NoNewHold(r, ReleaseDeterministic(r))
  BY <1>1, <1>2, <1>3 DEF NoNewHold, Row
<1>6. NoNewHold(r, Park(r, "executor"))
  BY <1>1, <1>2, <1>3 DEF NoNewHold, Row
<1>7. NoNewHold(r, Complete(r, c, o))
  BY <1>1, <1>2 DEF NoNewHold, Row
<1>8. NoNewHold(r, ReapSteal(r, FALSE))
  BY <1>1, <1>2, <1>3 DEF NoNewHold, Row
<1> QED
  BY <1>4, <1>5, <1>6, <1>7, <1>8

\* A message leaves the reason alone, and a parked row parked.
LEMMA MessageReason ==
  ASSUME NEW r \in Row, NEW n \in Nat
  PROVE  LET s == RecordInput(r, n) IN
         /\ s.park_reason = r.park_reason /\ s.lease_token = r.lease_token
         /\ r.state = "parked" => s.state = "parked"
BY DEF RecordInput, Row

\* Lifting a park clears the reason.
LEMMA UnparkReason ==
  ASSUME NEW r \in Row
  PROVE  NoNewHold(r, Unpark(r))
<1> DEFINE base == LiftPark(r)
<1>1. base \in Row /\ base.park_reason = "none"
  BY LiftParkRow DEF LiftPark, Row
<1>2. Unpark(r) = [base EXCEPT !.state = "queued"]
  BY DEF Unpark
<1> HIDE DEF base
<1> QED
  BY <1>1, <1>2 DEF NoNewHold, Row

\* Settling stops leaves the reason alone, under a lease and on an idle row.
LEMMA SettlingReasons ==
  ASSUME NEW r \in Row, NEW some
  PROVE  /\ ConsumeLive(r, some).park_reason = r.park_reason
         /\ ConsumeIdle(r, some).park_reason = r.park_reason
<1> DEFINE c == Max({stop[q].turn : q \in Applied(some)})
           consumed == Max2(r.consumed_seq, c)
           live == ConsumeStop(r, c)
           next == IF Debt(live, live.consumed_seq, FALSE) THEN "queued" ELSE "done"
           idle == SettleStop(r, c)
<1>1. /\ ConsumeLive(r, some) \in {r, live}
      /\ ConsumeIdle(r, some) \in {r, idle}
  BY DEF ConsumeLive, ConsumeIdle
<1>2. live = [r EXCEPT !.consumed_seq = consumed, !.attempts = 0]
  BY DEF ConsumeStop
<1>3. idle = [live EXCEPT !.state = next, !.ready = TRUE, !.aged = FALSE,
                          !.adm_token = 0, !.adm_turn = 0]
  <2> HIDE DEF live, idle
  <2>1. live = ConsumeStop(r, c) /\ idle = SettleStop(r, c)
    BY DEF live, idle
  <2> QED
    BY <2>1, Zenon DEF SettleStop
<1> HIDE DEF c, consumed, live, next, idle
<1>4. live.park_reason = r.park_reason
  BY <1>2 DEF Row
<1>5. idle.park_reason = live.park_reason
  BY <1>3
<1> QED
  BY <1>1, <1>4, <1>5
\* Where there is no hold, a step that leaves the hold alone brings no reason of it.
PlainStep ==
    /\ UNCHANGED hold
    /\ UNCHANGED row \/ (hold.token = 0 /\ NoNewHold(row, row'))

\* A row that is not parked has no hold.
LEMMA NoHoldOn ==
  ASSUME Shape
  PROVE  /\ row \in Row
         /\ row.state /= "parked" => hold.token = 0
         /\ \A p \in Pods : Owns(p) => hold.token = 0
BY DEF Shape, TypeOK, HoldFits, Owns, Leased

\* The executor that ends its lease.
LEMMA DisposesPlainly ==
  ASSUME Shape, NEW p \in Pods, UNCHANGED hold,
         \/ \E due \in BOOLEAN : Dispose(p, Release(row, due))
         \/ Dispose(p, ReleaseDeterministic(row))
         \/ Dispose(p, Park(row, "executor"))
         \/ \E c \in Seqs, o \in BOOLEAN : Dispose(p, Complete(row, c, o))
  PROVE  PlainStep
<1>1. row \in Row /\ Owns(p) /\ hold.token = 0 /\ NullSeq \in Seqs
  BY NoHoldOn DEF Dispose, Seqs
<1>2. ASSUME NEW due \in BOOLEAN, Dispose(p, Release(row, due)) PROVE PlainStep
  BY <1>1, <1>2, EndingReasons DEF Dispose, PlainStep
<1>3. CASE Dispose(p, ReleaseDeterministic(row))
  BY <1>1, <1>3, EndingReasons DEF Dispose, PlainStep
<1>4. CASE Dispose(p, Park(row, "executor"))
  BY <1>1, <1>4, EndingReasons DEF Dispose, PlainStep
<1>5. ASSUME NEW c \in Seqs, NEW o \in BOOLEAN, Dispose(p, Complete(row, c, o))
      PROVE  PlainStep
  BY <1>1, <1>5, EndingReasons DEF Dispose, PlainStep
<1> QED
  BY <1>2, <1>3, <1>4, <1>5

\* The drain that raises.
LEMMA DrainsPlainly ==
  ASSUME Shape, NEW p \in Pods, DrainFails(p), UNCHANGED hold
  PROVE  PlainStep
BY DisposesPlainly DEF DrainFails, PlainStep

\* No step of an executor is about the hold.
LEMMA ExecutesPlainly ==
  ASSUME Shape, NEW p \in Pods, Executor(p)
  PROVE  PlainStep
<1> USE DEF claimVars
<1>1. row \in Row /\ (Owns(p) => hold.token = 0) /\ pod[p] \in PodStates
  BY NoHoldOn DEF Shape, TypeOK
<1>2. CASE Claim(p)
  BY <1>1, <1>2, NoHoldOn
     DEF Claim, VisiblePreferred, ClaimUpdateTail, PlainStep, NoNewHold, Row
<1>3. CASE \/ Skip(p) \/ Bind(p) \/ NothingPending(p) \/ AdmitDelivery(p) \/ Answer(p)
           \/ TurnEnds(p) \/ TurnRefused(p) \/ CloseRefused(p) \/ LearnLost(p)
           \/ SettleDelivery(p) \/ Replace(p) \/ LoopDies(p) \/ Terminate(p) \/ Crash(p)
           \/ CommitReceipt(p)
  BY <1>3 DEF Skip, Bind, NothingPending, AdmitDelivery, Answer, TurnEnds, TurnRefused,
     CloseRefused, LearnLost, SettleDelivery, Replace, LoopDies, Terminate, Crash,
     CommitReceipt, PlainStep
<1>4. ASSUME NEW r \in Requests, AckStale(p, r) \/ Signal(p, r) PROVE PlainStep
  BY <1>4 DEF AckStale, Signal, PlainStep
<1>5. ASSUME NEW r \in Requests, FinalizeStale(p, r) PROVE PlainStep
  BY <1>1, <1>5, SettlingReasons DEF FinalizeStale, PlainStep, NoNewHold
<1>6. CASE Finalize(p)
  BY <1>1, <1>6, SettlingReasons DEF Finalize, PlainStep, NoNewHold
<1>7. CASE \/ RecoveryFails(p) \/ Leave(p) \/ GiveBack(p) \/ CompletionFails(p)
           \/ HandBack(p)
  <2>1. /\ UNCHANGED hold
        /\ \/ \E due \in BOOLEAN : Dispose(p, Release(row, due))
           \/ Dispose(p, ReleaseDeterministic(row))
           \/ Dispose(p, Park(row, "executor"))
    BY <1>7 DEF GiveBack, RecoveryFails, CompletionFails, Leave, HandBack
  <2> QED
    BY <2>1, DisposesPlainly
<1>8. CASE Finish(p)
  <2>1. UNCHANGED hold /\ pod[p].input \in Seqs /\ (owed /= {}) \in BOOLEAN
        /\ Dispose(p, Complete(row, pod[p].input, owed /= {}))
    BY <1>1, <1>8 DEF Finish, PodStates
  <2> QED
    BY <2>1, DisposesPlainly
<1>9. CASE FinalizeFails(p) \/ JournalFails(p)
  BY <1>9, DrainsPlainly DEF FinalizeFails, JournalFails
<1>10. CASE HeartbeatRow(p)
  BY <1>1, <1>10 DEF HeartbeatRow, Heartbeat, PlainStep, NoNewHold, Row
<1>11. CASE StartTurn(p)
  BY <1>1, <1>11 DEF StartTurn, OpenAllowed, Owns, OpenInterrupt, PlainStep, NoNewHold,
     Row
<1>12. CASE Close(p)
  BY <1>1, <1>12 DEF Close, CloseAllowed, Owns, CloseInterrupt, PlainStep, NoNewHold,
     Row
<1> QED
  BY <1>2, <1>3, <1>4, <1>5, <1>6, <1>7, <1>8, <1>9, <1>10, <1>11, <1>12
     DEF Executor, Turn, Drain

\* Nor are the clocks, the reconciler's settlement and the operator.
LEMMA OthersPlainly ==
  ASSUME Shape,
         \/ LeaseLapses \/ BackoffElapses \/ RetryStale \/ UnparkUnit
         \/ UNCHANGED vars \/ \E r \in Requests : AdmitStop(r)
  PROVE  PlainStep
<1> USE DEF claimVars
<1>1. row \in Row /\ (row.state /= "parked" => hold.token = 0)
  BY NoHoldOn
<1>2. CASE LeaseLapses
  BY <1>1, <1>2 DEF LeaseLapses, PlainStep, NoNewHold, Row
<1>3. CASE BackoffElapses
  BY <1>1, <1>3 DEF BackoffElapses, PlainStep, NoNewHold, Row
<1>4. CASE RetryStale
  BY <1>1, <1>4, SettlingReasons DEF RetryStale, PlainStep, NoNewHold
<1>5. CASE UnparkUnit
  BY <1>1, <1>5, UnparkReason DEF UnparkUnit, PlainStep
<1>6. CASE UNCHANGED vars \/ \E r \in Requests : AdmitStop(r)
  BY <1>6 DEF vars, AdmitStop, PlainStep
<1> QED
  BY <1>2, <1>3, <1>4, <1>5, <1>6

-----------------------------------------------------------------------------
\* A lease has a number.
Numbered == row.state = "leased" => row.lease_token /= 0

\* A hold has ended for good when its reason is given back.
HoldInv == Numbered /\ HoldIsShown /\ hold.reason /= "claim_loss_hold"

\* Only a claim makes a row leased, and it counts the token up.
LEMMA NumberedStep ==
  ASSUME Shape, Kinds, Numbered
  PROVE  Numbered'
<1> USE DEF threadVars, claimVars
<1>1. row.lease_token \in Nat
  BY RowNumbers DEF Shape, TypeOK
<1>2. CASE TickStep \/ MessageStep \/ LiftStep \/ \E some \in SUBSET Requests : TakeStep(some)
  BY <1>2 DEF Numbered, TickStep, KeepsTurn, KeepsWork, MessageStep, LiftStep, TakeStep
<1>3. ASSUME NEW r \in Requests, AskStep(r) \/ ReceiptStep(r) PROVE Numbered'
  BY <1>3 DEF Numbered, AskStep, ReceiptStep
<1>4. ASSUME NEW p \in Pods, GrantStep(p) PROVE Numbered'
  BY <1>1, <1>4 DEF Numbered, GrantStep
<1>5. ASSUME NEW p \in Pods,
             \/ \E r \in Requests : SettleStep(p, r)
             \/ PassStep(p) \/ BindStep(p) \/ NothingStep(p)
             \/ \E s \in 1..MaxSeq : BeginStep(p, s)
             \/ WriteStep(p) \/ CloseStep(p) \/ ForgetStep(p) \/ DisposeStep(p)
      PROVE  Numbered'
  BY <1>5 DEF Numbered, SettleStep, PassStep, BindStep, NothingStep, BeginStep, KeepsWork,
     WriteStep, CloseStep, ForgetStep, DisposeStep
<1> QED
  BY <1>2, <1>3, <1>4, <1>5 DEF Kinds

\* The steal writes both or neither.
LEMMA StealShown ==
  ASSUME Shape, HoldInv, Steal
  PROVE  HoldIsShown' /\ hold'.reason /= "claim_loss_hold"
<1> DEFINE old == row.lease_token
           group == {r \in Requests : Pending(r) /\ stop[r].token = old}
           reaped == ReapSteal(row, FALSE)
           stolen == ConsumeIdle(reaped, group)
           reason == IF stolen.state = "parked" THEN stolen.park_reason ELSE "none"
<1>1. /\ row.state = "leased"
      /\ IF MustHold(row)
         THEN /\ row' = [stolen EXCEPT !.state = "parked",
                           !.park_reason = "claim_loss_hold", !.last_leased_by = NoPod]
              /\ hold' = [token |-> old, state |-> stolen.state, reason |-> reason]
         ELSE row' = stolen /\ hold' = NoHold
  BY DEF Steal, ReapCandidate
<1>2. row \in Row /\ hold.token = 0 /\ old /= 0
  BY <1>1, NoHoldOn DEF HoldInv, Numbered
<1>3. row.park_reason /= "claim_loss_hold"
  BY <1>2 DEF HoldInv, HoldIsShown
<1>4. reaped \in Row /\ reaped.lease_token = old + 1
      /\ reaped.park_reason /= "claim_loss_hold"
  BY <1>2, <1>3, Stealing, EndingReasons DEF NoNewHold, Seqs
<1>5. group \in SUBSET Requests /\ stop \in [Requests -> Stops]
  BY DEF Shape, TypeOK
<1> HIDE DEF old, group, reaped
<1>6. stolen \in Row /\ stolen.lease_token = old + 1
      /\ stolen.park_reason /= "claim_loss_hold"
  BY <1>4, <1>5, ConsumingIdle, SettlingReasons
<1>7. reason /= "claim_loss_hold"
  BY <1>6
<1> HIDE DEF stolen, reason
<1>8. CASE MustHold(row)
  <2>1. /\ row' = [stolen EXCEPT !.state = "parked",
                     !.park_reason = "claim_loss_hold", !.last_leased_by = NoPod]
        /\ hold' = [token |-> old, state |-> stolen.state, reason |-> reason]
    BY <1>1, <1>8
  <2>2. /\ row'.park_reason = "claim_loss_hold" /\ row'.state = "parked"
        /\ row'.lease_token = old + 1
    BY <1>6, <2>1 DEF Row
  <2>3. hold'.token = old /\ hold'.reason = reason
    BY <2>1
  <2> QED
    BY <1>2, <1>7, <2>2, <2>3 DEF HoldIsShown
<1>9. CASE ~MustHold(row)
  BY <1>1, <1>6, <1>9 DEF HoldIsShown, NoHold
<1> QED
  BY <1>8, <1>9

\* Every step keeps hold and reason together.
LEMMA HoldStep ==
  ASSUME Shape, HoldInv, [Next]_vars
  PROVE  HoldInv'
<1>1. Numbered'
  BY StepKinds, NumberedStep DEF Kept, HoldInv
<1>2. CASE PlainStep
  BY <1>1, <1>2 DEF PlainStep, HoldInv, HoldIsShown, NoNewHold
<1>3. CASE AdmitMessage
  <2>1. row \in Row /\ top + 1 \in Nat
    BY Numbers DEF Shape, TypeOK
  <2>2. /\ row'.park_reason = row.park_reason /\ row'.lease_token = row.lease_token
        /\ row.state = "parked" => row'.state = "parked"
        /\ hold' = hold
    BY <1>3, <2>1, MessageReason DEF AdmitMessage, claimVars
  <2> QED
    BY <1>1, <2>2 DEF HoldInv, HoldIsShown
<1>4. CASE Steal
  BY <1>1, <1>4, StealShown DEF HoldInv
<1>5. CASE AckQuiesced
  <2> DEFINE next == IF hold.state = "done" /\ Debt(row, row.consumed_seq, FALSE)
                     THEN "queued" ELSE hold.state
  <2>1. row' = [row EXCEPT !.state = next, !.park_reason = hold.reason]
        /\ hold' = NoHold /\ row \in Row
    BY <1>5, NoHoldOn DEF AckQuiesced
  <2> HIDE DEF next
  <2>2. row'.park_reason = hold.reason
    BY <2>1 DEF Row
  <2> QED
    BY <1>1, <2>1, <2>2 DEF HoldInv, HoldIsShown, NoHold
<1>6. ASSUME NEW p \in Pods, Executor(p) PROVE HoldInv'
  BY <1>2, <1>6, ExecutesPlainly
<1>7. CASE \/ LeaseLapses \/ BackoffElapses \/ RetryStale \/ UnparkUnit
           \/ UNCHANGED vars \/ \E r \in Requests : AdmitStop(r)
  BY <1>2, <1>7, OthersPlainly
<1> QED
  BY <1>3, <1>4, <1>5, <1>6, <1>7 DEF Next, Control

\* The hold in the thread's metadata and the reason in the queue row agree in every
\* state: no claim, message, stop, settlement or operator takes one away without the
\* other, and no reason outlives its hold.
THEOREM HoldAndReasonAgree ==
  Spec => []HoldIsShown
<1>1. Init => HoldInv
  BY DEF Init, HoldInv, Numbered, HoldIsShown, NoHold, NoRow
<1>2. Shape /\ HoldInv /\ [Next]_vars => HoldInv'
  BY HoldStep
<1>3. HoldInv => HoldIsShown
  BY DEF HoldInv
<1> QED
  BY <1>1, <1>2, <1>3, ShapeHolds, PTL DEF Spec
=============================================================================
