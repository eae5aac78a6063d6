------------------------- MODULE RunQueueLedgerProofs -------------------------
(***************************************************************************)
(* The accounts between the rows of the queue, the threads behind them and *)
(* the recoveries, for every instance: nothing owed is lost, no history is *)
(* answered again, the interrupt window belongs to the lease, the failure  *)
(* record is bounded, nothing that only grows goes back, and units of one  *)
(* kind and priority are claimed in turn.                                  *)
(*                                                                         *)
(* Ledger is the inductive invariant.  A step writes at most one row by    *)
(* one statement (RunQueueRecordProofs says what that does to the row), so *)
(* each action is an account of one unit and all the others are kept.      *)
(***************************************************************************)
EXTENDS RunQueueOrder, RunQueueProofs, RunQueueRecordProofs

\* What the row r of unit u must agree on with a thread whose newest message is
\* newest, whose human messages are said, with events still owed and bound
\* events admitted under a lease.
Account(u, r, newest, said, events, bound) ==
    /\ Sound(r)
    /\ r.state = "done" => Settled(r, events /= {})
    /\ u \in Workers =>
          /\ Reasoned(r)
          /\ r.adm_token = 0 /\ events = {} /\ bound = {}
          /\ r.input_seq <= MaxSeq
          /\ Exists(r) => r.input_seq >= 0
    /\ u \in Sessions =>
          /\ r.input_seq <= newest /\ History <= newest
          /\ 1..History \subseteq said
          /\ \A h \in said : 1 <= h /\ h <= newest
          /\ \A s \in events : History < s /\ s <= r.input_seq
          /\ \A m \in bound : History < m[1] /\ m[1] <= r.input_seq
          /\ Exists(r) => r.consumed_seq >= History
          /\ r.adm_turn \notin 1..History

Ledger ==
    /\ recovering \subseteq Workers
    /\ \A u \in Units :
          /\ Account(u, row[u], top[u], human[u], owed[u], admitted[u])
          /\ u \in recovering => row[u].state = "parked"

\* A step keeps the ledger, and no number in a row goes back.
LedgerStep == Ledger' /\ \A u \in Units : Forward(row[u], row'[u])

-----------------------------------------------------------------------------
(***************************************************************************)
(* One unit at a time.                                                     *)
(***************************************************************************)

\* A row does not go back when it is not written.
LEMMA ForwardSame ==
  ASSUME NEW r \in Row
  PROVE  Forward(r, r)
BY RowNumbers DEF Forward

\* A step that balances the account of one unit, and touches no other.
LEMMA OneUnit ==
  ASSUME TypeOK, Ledger, NEW u \in Units, NEW e \in Row,
         row' = [row EXCEPT ![u] = e], Forward(row[u], e),
         Account(u, e, top'[u], human'[u], owed'[u], admitted'[u]),
         recovering' \subseteq Workers, u \in recovering' => e.state = "parked",
         \A v \in Units \ {u} :
            /\ top'[v] = top[v] /\ human'[v] = human[v] /\ owed'[v] = owed[v]
            /\ admitted'[v] = admitted[v]
            /\ v \in recovering' => v \in recovering
  PROVE  LedgerStep
<1> SUFFICES ASSUME NEW v \in Units
             PROVE  /\ Account(v, row'[v], top'[v], human'[v], owed'[v], admitted'[v])
                    /\ v \in recovering' => row'[v].state = "parked"
                    /\ Forward(row[v], row'[v])
  BY DEF LedgerStep, Ledger
<1>1. row'[u] = e /\ \A w \in Units \ {u} : row'[w] = row[w]
  BY DEF TypeOK
<1>2. CASE v = u
  BY <1>1, <1>2
<1>3. CASE v /= u
  <2>1. row[v] \in Row /\ row'[v] = row[v]
    BY <1>1, <1>3 DEF TypeOK
  <2> QED
    BY <1>3, <2>1, ForwardSame DEF Ledger
<1> QED
  BY <1>2, <1>3

\* One that writes a row and nothing behind it.
LEMMA OneRow ==
  ASSUME TypeOK, Ledger, NEW u \in Units, NEW e \in Row,
         row' = [row EXCEPT ![u] = e], Forward(row[u], e),
         UNCHANGED threadVars, UNCHANGED recovering,
         Account(u, e, top[u], human[u], owed[u], admitted[u]),
         u \in recovering => e.state = "parked"
  PROVE  LedgerStep
BY OneUnit DEF threadVars, Ledger

\* And one that touches neither rows, threads nor recoveries.
LEMMA NoUnitTouched ==
  ASSUME TypeOK, Ledger, UNCHANGED <<row, threadVars, recovering>>
  PROVE  LedgerStep
<1>1. \A u \in Units : row[u] \in Row
  BY DEF TypeOK
<1> QED
  BY <1>1, ForwardSame DEF LedgerStep, Ledger, threadVars

\* A statement that takes no input, of a unit that owes something if owes.
\* Only a session's stop leaves the reason behind when the park ends.
Keeps(u, r, e, owes) ==
    \/ Continues(r, e) \/ Finishes(r, e, owes)
    \/ u \in Sessions /\ Settles(r, e, owes)

\* A statement that takes no input keeps the account, finished or not.
LEMMA AccountKept ==
  ASSUME NEW u \in Units, NEW r \in Row, NEW T, NEW H, NEW O, NEW B,
         Account(u, r, T, H, O, B), Exists(r), NEW e \in Row, Keeps(u, r, e, O /= {})
  PROVE  Account(u, e, T, H, O, B)
<1>1. /\ Sound(e) /\ Forward(r, e) /\ Closing(r, e)
      /\ e.state = "done" => Settled(e, O /= {})
      /\ u \in Sessions \/ (Reasoned(r) => Reasoned(e))
  BY DEF Keeps, Continues, Finishes, Settles
<1>2. CASE u \in Workers
  <2>1. u \notin Sessions
    BY <1>2, QueueConstants
  <2> QED
    BY <1>1, <1>2, <2>1 DEF Account, Closing
<1>3. CASE u \in Sessions
  <2>1. u \notin Workers
    BY <1>3, QueueConstants
  <2>2. e.consumed_seq >= History
    BY <1>1, <1>3, RowNumbers, QueueConstants DEF Account, Forward
  <2>3. e.adm_turn \notin 1..History
    BY <1>1, <1>3, QueueConstants DEF Account, Closing
  <2> QED
    BY <1>1, <1>3, <2>1, <2>2, <2>3 DEF Account, Closing
<1> QED
  BY <1>2, <1>3 DEF Units

\* So does the step that is nothing but such a statement.
LEMMA KeepingStep ==
  ASSUME TypeOK, Ledger, NEW u \in Units, row[u].state /= "absent", NEW e \in Row,
         Keeps(u, row[u], e, owed[u] /= {}),
         row' = [row EXCEPT ![u] = e], UNCHANGED threadVars, UNCHANGED recovering,
         u \in recovering => e.state = "parked"
  PROVE  LedgerStep
<1>1. row[u] \in Row /\ Account(u, row[u], top[u], human[u], owed[u], admitted[u])
  BY DEF TypeOK, Ledger
<1>2. Account(u, e, top[u], human[u], owed[u], admitted[u])
  BY <1>1, AccountKept DEF Exists
<1>3. Forward(row[u], e)
  BY DEF Keeps, Continues, Finishes, Settles
<1> QED
  BY <1>2, <1>3, OneRow

-----------------------------------------------------------------------------
(***************************************************************************)
(* Admission.                                                              *)
(***************************************************************************)

\* What the ledger says of one row.
LEMMA LedgerRow ==
  ASSUME TypeOK, Ledger, NEW u \in Units
  PROVE  /\ row[u] \in Row /\ Sound(row[u])
         /\ Account(u, row[u], top[u], human[u], owed[u], admitted[u])
         /\ u \in recovering => row[u].state = "parked"
         /\ u \in Workers <=> u \notin Sessions
         /\ recovering \subseteq Workers
BY QueueConstants DEF TypeOK, Ledger, Account, Units

\* enqueue_unit of a worker, within the bound of the input it may name.
LEMMA EnqueueLedger ==
  ASSUME TypeOK, Ledger, NEW u \in Units, NEW prio \in Priorities,
         NEW due \in BOOLEAN, NEW s \in 1..MaxSeq, EnqueueUnit(u, prio, due, s)
  PROVE  LedgerStep
<1> DEFINE r == row[u]
           e == Enqueue(r, prio, due, s)
<1>1. /\ u \in Workers /\ u \notin Sessions /\ r \in Row /\ Sound(r)
      /\ Account(u, r, top[u], human[u], owed[u], admitted[u])
  BY LedgerRow DEF EnqueueUnit
<1>2. prio \in Nat /\ s \in Nat /\ 0 <= s /\ s <= MaxSeq
  BY QueueConstants
<1>3. /\ e \in Row /\ Sound(e) /\ Forward(r, e)
  BY <1>1, <1>2, EnqueueRow, EnqueueSound
<1>4. /\ e.adm_token = r.adm_token /\ e.state /= "done"
      /\ e.input_seq = s \/ (Exists(r) /\ e.input_seq = Max2(r.input_seq, s))
      /\ e.state = "parked" \/ r.state /= "parked"
      /\ e.park_reason = r.park_reason
  BY <1>1 DEF Enqueue, Row, Exists
<1>5. 0 <= e.input_seq /\ e.input_seq <= MaxSeq
  BY <1>1, <1>2, <1>4, RowNumbers, QueueConstants DEF Account, Max2
<1>6. Account(u, e, top[u], human[u], owed[u], admitted[u])
  BY <1>1, <1>3, <1>4, <1>5 DEF Account, Reasoned
<1>7. u \in recovering => e.state = "parked"
  BY <1>4, LedgerRow
<1>8. row' = [row EXCEPT ![u] = e] /\ UNCHANGED threadVars /\ UNCHANGED recovering
  BY DEF EnqueueUnit, UpdateRevived, Update
<1> HIDE DEF e
<1> QED
  BY <1>3, <1>6, <1>7, <1>8, OneRow

\* The row after record_input_seq: the input is the thread's newest message.
LEMMA InputRecorded ==
  ASSUME NEW r \in Row, NEW s \in Nat, NEW e, e = RecordInput(r, s)
  PROVE  /\ e.state /= "done" /\ e.adm_turn = r.adm_turn
         /\ e.state = "parked" \/ r.state /= "parked"
         /\ \/ Exists(r) /\ e.consumed_seq = r.consumed_seq
                         /\ e.input_seq = Max2(r.input_seq, s)
            \/ ~ Exists(r) /\ e.consumed_seq = s - 1 /\ e.input_seq = s
BY DEF RecordInput, Row, Exists, Boundary, NullSeq

\* A human message or an event: the newest message of the thread is recorded.
LEMMA MessageLedger ==
  ASSUME TypeOK, Ledger, NEW u \in Sessions,
         top' = [top EXCEPT ![u] = @ + 1],
         row' = [row EXCEPT ![u] = RecordInput(row[u], top[u] + 1)],
         UNCHANGED <<admitted, recovering>>,
         \/ human' = [human EXCEPT ![u] = @ \cup {top[u] + 1}] /\ UNCHANGED owed
         \/ owed' = [owed EXCEPT ![u] = @ \cup {top[u] + 1}] /\ UNCHANGED human
  PROVE  LedgerStep
<1> DEFINE r == row[u]
           t == top[u] + 1
           e == RecordInput(r, t)
<1>1. /\ u \in Units /\ u \notin Workers /\ r \in Row /\ Sound(r)
      /\ Account(u, r, top[u], human[u], owed[u], admitted[u])
  BY LedgerRow DEF Units
<1>2. /\ top[u] \in Nat /\ t \in Nat /\ top'[u] = t /\ History \in Nat
      /\ History < t /\ r.input_seq < t
  BY <1>1, RowNumbers, QueueConstants DEF TypeOK, Account
<1>3. e \in Row /\ Sound(e) /\ Forward(r, e)
  BY <1>1, <1>2, RecordInputRow, RecordInputSound
<1>4. /\ e.state /= "done" /\ e.adm_turn = r.adm_turn /\ e.input_seq = t
      /\ e.state = "parked" \/ r.state /= "parked"
      /\ e.consumed_seq >= History
  <2>1. /\ e.state /= "done" /\ e.adm_turn = r.adm_turn
        /\ e.state = "parked" \/ r.state /= "parked"
        /\ \/ Exists(r) /\ e.consumed_seq = r.consumed_seq
                        /\ e.input_seq = Max2(r.input_seq, t)
           \/ ~ Exists(r) /\ e.consumed_seq = t - 1 /\ e.input_seq = t
    BY <1>1, <1>2, InputRecorded
  <2>2. e.input_seq = t
    BY <1>1, <1>2, <2>1, RowNumbers DEF Max2
  <2>3. e.consumed_seq >= History
    BY <1>1, <1>2, <2>1 DEF Account
  <2> QED
    BY <2>1, <2>2, <2>3
<1> HIDE DEF e, t
<1>5. \A h \in human'[u] : h \in human[u] \/ h = t
  BY <1>1, <1>2 DEF TypeOK, t
<1>6. \A s \in owed'[u] : s \in owed[u] \/ s = t
  BY <1>1, <1>2 DEF TypeOK, t
<1>7. human[u] \subseteq human'[u] /\ human[u] \subseteq Nat /\ owed[u] \subseteq Nat
  BY <1>1 DEF TypeOK
<1>8. \A h \in human'[u] : 1 <= h /\ h <= t
  BY <1>1, <1>2, <1>5, <1>7 DEF Account, t
<1>9. \A s \in owed'[u] : History < s /\ s <= t
  BY <1>1, <1>2, <1>6, <1>7, RowNumbers DEF Account
<1>10. \A m \in admitted[u] : m[1] \in Nat /\ History < m[1] /\ m[1] <= t
  BY <1>1, <1>2, RowNumbers DEF Account, TypeOK
<1>11. Account(u, e, top'[u], human'[u], owed'[u], admitted'[u])
  <2>1. 1..History \subseteq human'[u] /\ e.adm_turn \notin 1..History
    BY <1>1, <1>4, <1>7 DEF Account
  <2> QED
    BY <1>1, <1>2, <1>3, <1>4, <1>8, <1>9, <1>10, <2>1 DEF Account
<1>12. u \in recovering' => e.state = "parked"
  BY <1>1, <1>4, LedgerRow
<1>13. \A v \in Units \ {u} :
          /\ top'[v] = top[v] /\ human'[v] = human[v] /\ owed'[v] = owed[v]
          /\ admitted'[v] = admitted[v]
          /\ v \in recovering' => v \in recovering
  BY DEF TypeOK
<1>14. row' = [row EXCEPT ![u] = e]
  BY DEF e, t
<1> QED
  BY <1>1, <1>3, <1>11, <1>12, <1>13, <1>14, OneUnit DEF Ledger

\* Both kinds of message.
LEMMA AdmissionLedger ==
  ASSUME TypeOK, Ledger, NEW u \in Units, AdmitInput(u) \/ PersistEvent(u)
  PROVE  LedgerStep
BY MessageLedger DEF AdmitInput, PersistEvent, UpdateRevived, Update

\* The row after record_control_seq.
LEMMA ControlRecorded ==
  ASSUME NEW r \in Row, NEW k \in Nat \ {0}, NEW b \in Nat,
         NEW e, e = RecordControl(r, k, b)
  PROVE  /\ r.state /= "parked" => e.state /= "parked"
         /\ e.state /= "done" /\ e.adm_turn = r.adm_turn
         /\ \/ Exists(r) /\ e.consumed_seq = r.consumed_seq
                         /\ e.input_seq = r.input_seq
            \/ ~ Exists(r) /\ e.consumed_seq = b /\ e.input_seq = b
<1>1. CASE r.state = "absent"
  BY <1>1 DEF RecordControl, Row, Exists
<1>2. CASE r.state /= "absent"
  <2> DEFINE newest == Max2(r.control_input_seq, k)
             past == IF r.control_input_seq = r.control_consumed_seq
                     THEN Max2(r.control_consumed_seq, k - 1)
                     ELSE r.control_consumed_seq
             next == IF r.state = "done" THEN "queued" ELSE r.state
             due == r.ready \/ r.state = "done"
             old == r.aged /\ r.state /= "done"
  <2>1. e = [r EXCEPT !.control_input_seq = newest, !.control_consumed_seq = past,
                      !.state = next, !.ready = due, !.aged = old]
    BY <1>2 DEF RecordControl
  <2>2. next /= "done" /\ (r.state /= "parked" => next /= "parked")
    OBVIOUS
  <2> HIDE DEF newest, past, next, due, old
  <2>3. /\ e.state = next /\ e.adm_turn = r.adm_turn
        /\ e.consumed_seq = r.consumed_seq /\ e.input_seq = r.input_seq
    BY <2>1 DEF Row
  <2> QED
    BY <1>2, <2>2, <2>3 DEF Exists
<1> QED
  BY <1>1, <1>2

\* A control that creates the row takes the newest human message as its
\* baseline: all of the thread's history is behind it.
LEMMA ControlLedger ==
  ASSUME TypeOK, Ledger, NEW u \in Units, NEW k \in 1..MaxControl, AdmitControl(u, k)
  PROVE  LedgerStep
<1> DEFINE r == row[u]
<1>1. PICK b \in human[u] \cup {0} :
         /\ \A h \in human[u] : h <= b
         /\ UpdateRevived(u, RecordControl(r, k, b))
  BY DEF AdmitControl
<1> DEFINE e == RecordControl(r, k, b)
<1>2. /\ u \in Sessions /\ u \notin Workers /\ r \in Row /\ Sound(r)
      /\ Account(u, r, top[u], human[u], owed[u], admitted[u])
      /\ r.state /= "parked" /\ u \notin recovering
  BY LedgerRow DEF AdmitControl
<1>3. k \in Nat \ {0} /\ b \in Nat /\ top[u] \in Nat /\ History \in Nat
  BY QueueConstants DEF TypeOK
<1>4. History <= b /\ b <= top[u]
  <2>1. History = 0 \/ History \in human[u]
    BY <1>2, <1>3 DEF Account
  <2>2. History <= b
    BY <1>1, <1>3, <2>1
  <2>3. b <= top[u]
    BY <1>2, <1>3 DEF Account
  <2> QED
    BY <2>2, <2>3
<1>5. e \in Row /\ Sound(e) /\ Forward(r, e)
  BY <1>2, <1>3, RecordControlRow, RecordControlSound
<1>6. /\ e.state /= "done" /\ e.adm_turn = r.adm_turn
      /\ \/ Exists(r) /\ e.consumed_seq = r.consumed_seq
                      /\ e.input_seq = r.input_seq
         \/ ~ Exists(r) /\ e.consumed_seq = b /\ e.input_seq = b
  BY <1>2, <1>3, ControlRecorded
<1>7. row' = [row EXCEPT ![u] = e] /\ UNCHANGED threadVars /\ UNCHANGED recovering
  BY <1>1 DEF AdmitControl, UpdateRevived, Update
<1> HIDE DEF e
<1>8. /\ e.input_seq <= top[u] /\ e.input_seq >= r.input_seq
      /\ e.consumed_seq >= History
  BY <1>2, <1>4, <1>5, <1>6 DEF Account, Forward
<1>9. \A s \in owed[u] : s \in Nat /\ History < s /\ s <= e.input_seq
  BY <1>2, <1>5, <1>8, RowNumbers DEF Account, TypeOK
<1>10. \A m \in admitted[u] : m[1] \in Nat /\ History < m[1] /\ m[1] <= e.input_seq
  BY <1>2, <1>5, <1>8, RowNumbers DEF Account, TypeOK
<1>11. Account(u, e, top[u], human[u], owed[u], admitted[u])
  BY <1>2, <1>5, <1>6, <1>8, <1>9, <1>10 DEF Account
<1> QED
  BY <1>2, <1>5, <1>7, <1>11, OneRow

-----------------------------------------------------------------------------
(***************************************************************************)
(* The lease and the claimant's work.                                      *)
(***************************************************************************)

\* Both claim statements.
LEMMA ClaimLedger ==
  ASSUME TypeOK, Ledger, NEW p \in Pods, NEW u \in Units,
         Claim(p, u) \/ ClaimPreferred(p, u)
  PROVE  LedgerStep
<1> DEFINE e == ClaimUpdateTail(row[u], p)
<1>1. row[u].state = "queued" /\ Grant(p, u)
  BY DEF Claim, ClaimPreferred, Claimable, Visible, VisiblePreferred
<1>2. e \in Row /\ Continues(row[u], e) /\ u \notin recovering
  BY <1>1, LedgerRow, ClaimRow, ClaimSound
<1>3. row' = [row EXCEPT ![u] = e] /\ UNCHANGED threadVars /\ UNCHANGED recovering
  BY <1>1 DEF Grant
<1> HIDE DEF e
<1> QED
  BY <1>1, <1>2, <1>3, KeepingStep DEF Keeps

\* What a holder holds is not parked, so no recovery of it is open.
LEMMA HeldRow ==
  ASSUME TypeOK, Ledger, NEW p \in Pods, Holds(p)
  PROVE  /\ claim[p].unit \in Units /\ claim[p].unit \notin recovering
         /\ row[claim[p].unit] \in Row /\ Sound(row[claim[p].unit])
         /\ row[claim[p].unit].state = "leased"
         /\ row[claim[p].unit].lease_token = claim[p].token
BY LedgerRow, HolderFacts

\* heartbeat_unit.
LEMMA HeartbeatLedger ==
  ASSUME TypeOK, Ledger, NEW p \in Pods, HeartbeatUnit(p)
  PROVE  LedgerStep
<1> DEFINE u == claim[p].unit
           e == Heartbeat(row[u])
<1>1. /\ u \in Units /\ u \notin recovering /\ row[u] \in Row /\ Sound(row[u])
      /\ row[u].state = "leased"
  BY HeldRow DEF HeartbeatUnit
<1>2. e \in Row /\ Continues(row[u], e)
  BY <1>1, RenewRow, TickSound
<1>3. row' = [row EXCEPT ![u] = e] /\ UNCHANGED threadVars /\ UNCHANGED recovering
  BY DEF HeartbeatUnit, UpdateInPlace, Update
<1> HIDE DEF e, u
<1> QED
  BY <1>1, <1>2, <1>3, KeepingStep DEF Keeps

\* open_interrupt_admission: the turn answers new input, not history.
LEMMA OpenLedger ==
  ASSUME TypeOK, Ledger, NEW p \in Pods, NEW turn \in 1..MaxSeq,
         OpenInterruptAdmission(p, turn)
  PROVE  LedgerStep
<1> DEFINE u == claim[p].unit
           r == row[u]
           t == claim[p].token
           e == OpenInterrupt(r, t, turn)
<1>1. /\ u \in Sessions /\ u \in Units /\ u \notin Workers /\ r \in Row /\ Sound(r)
      /\ Account(u, r, top[u], human[u], owed[u], admitted[u])
      /\ u \in recovering => r.state = "parked"
  BY LedgerRow DEF OpenInterruptAdmission, Units
<1>2. t \in Nat /\ turn \in Nat \ {0} /\ Leased(r, t) /\ r.state = "leased"
  BY HolderFacts DEF OpenInterruptAdmission, OpenAllowed, Leased
<1>3. /\ e \in Row /\ Sound(e) /\ Forward(r, e)
  BY <1>1, <1>2, OpenInterruptRow, OpenSound
<1>4. turn \notin 1..History
  <2>1. CASE turn \in human[u] /\ turn > r.consumed_seq
    BY <1>1, <1>2, <2>1, RowNumbers, QueueConstants DEF Account, Exists
  <2>2. CASE turn \in owed[u]
    BY <1>1, <2>2, QueueConstants DEF Account
  <2> QED
    BY <2>1, <2>2 DEF OpenInterruptAdmission
<1>5. /\ e.state = "leased" /\ e.adm_turn = turn
      /\ e.input_seq = r.input_seq /\ e.consumed_seq = r.consumed_seq
  BY <1>1, <1>2 DEF OpenInterrupt, Row
<1>6. row' = [row EXCEPT ![u] = e] /\ UNCHANGED threadVars /\ UNCHANGED recovering
  BY DEF OpenInterruptAdmission, UpdateInPlace, Update
<1> HIDE DEF e
<1>7. Account(u, e, top[u], human[u], owed[u], admitted[u])
  BY <1>1, <1>2, <1>3, <1>4, <1>5 DEF Account, Exists
<1>8. u \in recovering => e.state = "parked"
  BY <1>1, <1>2
<1> QED
  BY <1>1, <1>3, <1>6, <1>7, <1>8, OneRow

\* close_interrupt_admission: the checkpoint names recorded input.
LEMMA CloseLedger ==
  ASSUME TypeOK, Ledger, NEW p \in Pods, NEW turn \in 1..MaxSeq,
         NEW c \in {NullSeq} \cup 1..MaxSeq, CloseInterruptAdmission(p, turn, c)
  PROVE  LedgerStep
<1> DEFINE u == claim[p].unit
           r == row[u]
           t == claim[p].token
           e == CloseInterrupt(r, c)
<1>1. /\ u \in Sessions /\ u \in Units /\ r \in Row /\ Sound(r)
      /\ Account(u, r, top[u], human[u], owed[u], admitted[u])
      /\ u \in recovering => r.state = "parked"
  BY LedgerRow DEF CloseInterruptAdmission, Units
<1>2. c \in Seqs /\ r.state = "leased"
  BY BoundedSeqs DEF CloseInterruptAdmission, CloseAllowed, Leased
<1>3. c <= r.input_seq \/ c <= r.consumed_seq
  <2>1. CASE c = NullSeq
    BY <1>1, <2>1, RowNumbers DEF NullSeq
  <2>2. CASE c /= NullSeq /\ ExactCheckpoint(u, t, turn, c)
    <3>1. <<c, t>> \in admitted[u] => c <= r.input_seq
      BY <1>1 DEF Account
    <3> QED
      BY <1>1, <1>2, <2>2, <3>1, RowNumbers DEF ExactCheckpoint, Seqs, NullSeq
  <2>3. CASE c /= NullSeq /\ r.consumed_seq >= c
    BY <1>1, <1>2, <2>3, RowNumbers DEF Seqs, NullSeq
  <2> QED
    BY <2>1, <2>2, <2>3 DEF CloseInterruptAdmission, CloseAllowed
<1>4. e \in Row /\ Continues(r, e) /\ u \notin recovering
  BY <1>1, <1>2, <1>3, CloseInterruptRow, CloseSound
<1>5. row' = [row EXCEPT ![u] = e] /\ UNCHANGED threadVars /\ UNCHANGED recovering
  BY DEF CloseInterruptAdmission, UpdateInPlace, Update
<1> HIDE DEF e
<1> QED
  BY <1>1, <1>2, <1>4, <1>5, KeepingStep DEF Keeps

\* Event deliveries move between owed and admitted under a live lease, so a
\* unit is never 'done' with one of them given back.
LEMMA DeliveryLedger ==
  ASSUME TypeOK, Ledger, NEW p \in Pods, NEW s \in 1..MaxSeq,
         AdmitDelivery(p, s) \/ UnadmitDelivery(p, s) \/ ReclaimDelivery(p, s)
  PROVE  LedgerStep
<1> DEFINE u == claim[p].unit
           r == row[u]
           t == claim[p].token
<1>1. /\ u \in Sessions /\ u \in Units /\ u \notin Workers /\ u \notin recovering
      /\ r \in Row /\ r.state = "leased"
      /\ Account(u, r, top[u], human[u], owed[u], admitted[u])
  BY HeldRow, LedgerRow DEF AdmitDelivery, UnadmitDelivery, ReclaimDelivery
<1>2. UNCHANGED <<row, top, human, recovering>>
  BY DEF AdmitDelivery, UnadmitDelivery, ReclaimDelivery, queueVars
<1>3. History < s /\ s <= r.input_seq
  <2>1. CASE s \in owed[u]
    BY <1>1, <2>1 DEF Account
  <2>2. CASE \E m \in admitted[u] : m[1] = s
    BY <1>1, <2>2 DEF Account
  <2> QED
    BY <2>1, <2>2 DEF AdmitDelivery, UnadmitDelivery, ReclaimDelivery
<1>4. \A x \in owed'[u] : x \in owed[u] \/ x = s
  BY <1>1 DEF TypeOK, AdmitDelivery, UnadmitDelivery, ReclaimDelivery
<1>5. \A m \in admitted'[u] : m \in admitted[u] \/ m = <<s, t>>
  BY <1>1 DEF TypeOK, AdmitDelivery, UnadmitDelivery, ReclaimDelivery
<1>6. \A v \in Units \ {u} : owed'[v] = owed[v] /\ admitted'[v] = admitted[v]
  BY DEF TypeOK, AdmitDelivery, UnadmitDelivery, ReclaimDelivery
<1>7. \A x \in owed'[u] : History < x /\ x <= r.input_seq
  BY <1>1, <1>3, <1>4 DEF Account
<1>8. \A m \in admitted'[u] : History < m[1] /\ m[1] <= r.input_seq
  BY <1>1, <1>3, <1>5 DEF Account
<1> HIDE DEF u
<1>9. Account(u, r, top'[u], human'[u], owed'[u], admitted'[u])
  BY <1>1, <1>2, <1>7, <1>8 DEF Account
<1>10. row' = [row EXCEPT ![u] = r]
  BY <1>2 DEF TypeOK
<1>11. u \notin recovering'
  BY <1>1, <1>2
<1>12. \A v \in Units \ {u} :
          /\ top'[v] = top[v] /\ human'[v] = human[v] /\ owed'[v] = owed[v]
          /\ admitted'[v] = admitted[v]
          /\ v \in recovering' => v \in recovering
  BY <1>2, <1>6
<1> QED
  BY <1>1, <1>2, <1>9, <1>10, <1>11, <1>12, ForwardSame, OneUnit DEF Ledger

\* A control finalized under the fence.
LEMMA FinalizeLedger ==
  ASSUME TypeOK, Ledger, NEW p \in Pods, FinalizeControl(p)
  PROVE  LedgerStep
<1> DEFINE u == claim[p].unit
           e == [row[u] EXCEPT !.control_consumed_seq = @ + 1]
<1>1. /\ u \in Units /\ u \notin recovering /\ row[u] \in Row /\ Sound(row[u])
      /\ row[u].state = "leased"
      /\ row[u].control_consumed_seq < row[u].control_input_seq
  BY HeldRow DEF FinalizeControl
<1>2. e \in Row /\ Continues(row[u], e)
  BY <1>1, FinalizeControlRow, FinalizeSound
<1>3. row' = [row EXCEPT ![u] = e] /\ UNCHANGED threadVars /\ UNCHANGED recovering
  BY DEF FinalizeControl, UpdateInPlace, Update
<1> HIDE DEF e, u
<1> QED
  BY <1>1, <1>2, <1>3, KeepingStep DEF Keeps

\* What a stop consumes was recorded, and an event that is owed lies above it.
LEMMA StopTargetFacts ==
  ASSUME TypeOK, Ledger, NEW u \in Units, NEW c \in StopTargets(u)
  PROVE  /\ u \in Sessions /\ c \in Nat /\ c <= row[u].input_seq
         /\ owed[u] /= {} => Max2(row[u].consumed_seq, c) < row[u].input_seq
<1>1. u \in Sessions /\ c \in Nat /\ c <= row[u].input_seq
  BY StopTargetTypes DEF StopTargets
<1>2. ASSUME NEW s \in owed[u]
      PROVE  Max2(row[u].consumed_seq, c) < row[u].input_seq
  <2>1. s \in Nat /\ s <= row[u].input_seq /\ s > Max2(row[u].consumed_seq, c)
    <3>1. s \in Nat
      BY DEF TypeOK
    <3>2. s <= row[u].input_seq
      BY <1>1, LedgerRow DEF Account
    <3>3. s > Max2(row[u].consumed_seq, c)
      BY DEF StopTargets
    <3> QED
      BY <3>1, <3>2, <3>3
  <2>2. row[u].input_seq \in Int /\ Max2(row[u].consumed_seq, c) \in Int
    <3>1. row[u].input_seq \in Int /\ row[u].consumed_seq \in Int /\ c \in Int
      BY <1>1, LedgerRow, RowNumbers
    <3> QED
      BY <3>1, MaxFacts
  <2> QED
    BY <2>1, <2>2
<1> QED
  BY <1>1, <1>2

\* A stop consumed under the lease.
LEMMA ConsumeStopLedger ==
  ASSUME TypeOK, Ledger, NEW p \in Pods, NEW c \in 1..MaxSeq, ConsumeStopLive(p, c)
  PROVE  LedgerStep
<1> DEFINE u == claim[p].unit
           e == ConsumeStop(row[u], c)
<1>1. /\ u \in Units /\ u \notin recovering /\ row[u] \in Row /\ Sound(row[u])
      /\ row[u].state = "leased"
  BY HeldRow DEF ConsumeStopLive
<1>2. c \in Nat /\ c <= row[u].input_seq
  BY <1>1, StopTargetFacts DEF ConsumeStopLive
<1>3. c \in Seqs
  BY <1>2 DEF Seqs
<1>4. e \in Row /\ Continues(row[u], e)
  BY <1>1, <1>2, <1>3, ConsumeStopRow, ConsumeStopSound
<1>5. row' = [row EXCEPT ![u] = e] /\ UNCHANGED threadVars /\ UNCHANGED recovering
  BY DEF ConsumeStopLive, UpdateInPlace, Update
<1> HIDE DEF e, u
<1> QED
  BY <1>1, <1>4, <1>5, KeepingStep DEF Keeps

\* A disposition writes its row and nothing behind it.
LEMMA DisposeLedger ==
  ASSUME TypeOK, Ledger, NEW p \in Pods, NEW e \in Row, NEW w, Dispose(p, e, w),
         LET u == claim[p].unit
         IN  Continues(row[u], e) \/ Finishes(row[u], e, owed[u] /= {})
  PROVE  LedgerStep
<1> DEFINE u == claim[p].unit
<1>1. u \in Units /\ u \notin recovering /\ row[u].state = "leased"
  BY HeldRow DEF Dispose
<1>2. row' = [row EXCEPT ![u] = e] /\ UNCHANGED threadVars /\ UNCHANGED recovering
  BY DEF Dispose, UpdateAtBack, Update
<1> QED
  BY <1>1, <1>2, KeepingStep DEF Keeps

\* complete_unit, release_unit, park_unit and record_attach_failure.
LEMMA DispositionLedger ==
  ASSUME TypeOK, Ledger, NEW p \in Pods,
         \/ \E c \in {NullSeq} \cup 0..MaxSeq :
               /\ claim[p].unit \in Units /\ c <= row[claim[p].unit].input_seq
               /\ CompleteUnit(p, c)
         \/ \E due \in BOOLEAN : ReleaseUnit(p, due)
         \/ ReleaseUnitDeterministic(p)
         \/ \E reason \in {"none", "executor"} : ParkUnit(p, reason)
         \/ \E sig \in AttachSignatures : RecordAttachFailureOf(p, sig)
  PROVE  LedgerStep
<1> DEFINE u == claim[p].unit
           r == row[u]
<1>1. Holds(p)
  BY DEF CompleteUnit, ReleaseUnit, ReleaseUnitDeterministic, ParkUnit,
         RecordAttachFailureOf, Dispose
<1>2. r \in Row /\ Sound(r) /\ r.state = "leased"
  BY <1>1, HeldRow
<1>3. ASSUME NEW c \in {NullSeq} \cup 0..MaxSeq, c <= r.input_seq, CompleteUnit(p, c)
      PROVE  LedgerStep
  <2> DEFINE e == Complete(r, c, owed[u] /= {})
  <2>1. c \in Seqs /\ (owed[u] /= {}) \in BOOLEAN
    BY BoundedSeqs
  <2>2. e \in Row /\ Finishes(r, e, owed[u] /= {})
    BY <1>2, <1>3, <2>1, CompleteRow, CompleteSound
  <2>3. Dispose(p, e, IF u \in WarmReuse THEN u ELSE NoUnit)
    BY <1>3 DEF CompleteUnit
  <2> HIDE DEF e
  <2> QED
    BY <2>2, <2>3, DisposeLedger
<1>4. ASSUME NEW due \in BOOLEAN, ReleaseUnit(p, due)
      PROVE  LedgerStep
  BY <1>2, <1>4, ReleaseRow, ReleaseSound, DisposeLedger DEF ReleaseUnit
<1>5. ASSUME ReleaseUnitDeterministic(p)
      PROVE  LedgerStep
  BY <1>2, <1>5, ReleaseDeterministicRow, DeterministicSound, DisposeLedger
     DEF ReleaseUnitDeterministic
<1>6. ASSUME NEW reason \in {"none", "executor"}, ParkUnit(p, reason)
      PROVE  LedgerStep
  BY <1>2, <1>6, ParkRow, ParkSound, DisposeLedger DEF ParkUnit
<1>7. ASSUME NEW sig \in AttachSignatures, RecordAttachFailureOf(p, sig)
      PROVE  LedgerStep
  BY <1>2, <1>7, RecordAttachFailureRow, AttachFailureSound, DisposeLedger
     DEF RecordAttachFailureOf
<1> QED
  BY <1>3, <1>4, <1>5, <1>6, <1>7

-----------------------------------------------------------------------------
(***************************************************************************)
(* Reapers, operators, recovery and time.                                  *)
(***************************************************************************)

\* A steal re-queues or parks; settling its stop finishes the unit only when
\* nothing is owed.
LEMMA StealLedger ==
  ASSUME TypeOK, Ledger, NEW r \in Reapers, NEW u \in Units, NEW t \in Nat,
         NEW due \in BOOLEAN, ReapStealUnit(r, u, t, due)
  PROVE  LedgerStep
<1> DEFINE stolen == ReapSteal(row[u], due)
<1>1. /\ row[u] \in Row /\ Sound(row[u]) /\ row[u].state = "leased"
      /\ u \notin recovering
  BY LedgerRow DEF ReapStealUnit, StealAllowed, Leased
<1>2. PICK e \in {stolen} \cup {SettleStop(stolen, c) : c \in StopTargets(u)} :
             UpdateAtBack(u, e)
  BY DEF ReapStealUnit
<1>3. /\ stolen \in Row /\ Continues(row[u], stolen)
      /\ stolen.state \in {"queued", "parked"}
      /\ stolen.consumed_seq = row[u].consumed_seq
      /\ stolen.input_seq = row[u].input_seq
  BY <1>1, ReapStealRow, StealSound DEF Continues, Closing
<1> HIDE DEF stolen
<1>4. ASSUME NEW c \in StopTargets(u), e = SettleStop(stolen, c)
      PROVE  e \in Row /\ u \in Sessions /\ Settles(row[u], e, owed[u] /= {})
  <2>1. /\ u \in Sessions /\ c \in Nat /\ c <= row[u].input_seq
        /\ owed[u] /= {} => Max2(row[u].consumed_seq, c) < row[u].input_seq
    BY StopTargetFacts
  <2>2. c \in Seqs /\ (owed[u] /= {}) \in BOOLEAN
    BY <2>1 DEF Seqs
  <2>3. e \in Row
    BY <1>3, <1>4, <2>2, SettleStopRow
  <2>4. Settles(stolen, e, owed[u] /= {})
    BY <1>3, <1>4, <2>1, <2>2, SettleStopSound DEF Continues
  <2> QED
    BY <1>1, <1>3, <2>1, <2>3, <2>4, ThenSettles
<1>5. e \in Row /\ Keeps(u, row[u], e, owed[u] /= {})
  BY <1>2, <1>3, <1>4 DEF Keeps
<1>6. row' = [row EXCEPT ![u] = e] /\ UNCHANGED threadVars /\ UNCHANGED recovering
  BY <1>2 DEF ReapStealUnit, UpdateAtBack, Update
<1> QED
  BY <1>1, <1>5, <1>6, KeepingStep

\* unpark_unit and settle_parked_unit leave a recovery alone, and a stop settled
\* at rest is a session's.
LEMMA ParkLiftedLedger ==
  ASSUME TypeOK, Ledger, NEW u \in Units,
         \/ UnparkUnit(u)
         \/ \E c \in {NullSeq} \cup 1..MaxSeq :
               c <= row[u].input_seq /\ SettleParkedUnit(u, c)
         \/ \E c \in 1..MaxSeq : SettleStopIdle(u, c)
  PROVE  LedgerStep
<1>1. /\ row[u] \in Row /\ Sound(row[u]) /\ row[u].state = "parked"
      /\ u \notin recovering
  BY LedgerRow DEF UnparkUnit, SettleParkedUnit, SettleStopIdle, StopTargets
<1>2. ASSUME UnparkUnit(u)
      PROVE  LedgerStep
  <2> DEFINE e == Unpark(row[u])
  <2>1. e \in Row /\ Continues(row[u], e)
    BY <1>1, UnparkRow, UnparkSound
  <2>2. row' = [row EXCEPT ![u] = e] /\ UNCHANGED threadVars /\ UNCHANGED recovering
    BY <1>2 DEF UnparkUnit, UpdateAtBack, Update
  <2> HIDE DEF e
  <2> QED
    BY <1>1, <2>1, <2>2, KeepingStep DEF Keeps
<1>3. ASSUME NEW c \in {NullSeq} \cup 1..MaxSeq, c <= row[u].input_seq,
             SettleParkedUnit(u, c)
      PROVE  LedgerStep
  <2> DEFINE e == SettleParked(row[u], c, owed[u] /= {})
  <2>1. c \in Seqs /\ (owed[u] /= {}) \in BOOLEAN
    BY BoundedSeqs
  <2>2. e \in Row /\ Finishes(row[u], e, owed[u] /= {})
    BY <1>1, <1>3, <2>1, SettleParkedRow, SettleSound
  <2>3. row' = [row EXCEPT ![u] = e] /\ UNCHANGED threadVars /\ UNCHANGED recovering
    BY <1>3 DEF SettleParkedUnit, UpdateAtBack, Update
  <2> HIDE DEF e
  <2> QED
    BY <1>1, <2>2, <2>3, KeepingStep DEF Keeps
<1>4. ASSUME NEW c \in 1..MaxSeq, SettleStopIdle(u, c)
      PROVE  LedgerStep
  <2> DEFINE e == SettleStop(row[u], c)
  <2>1. /\ u \in Sessions /\ c \in Nat /\ c <= row[u].input_seq
        /\ owed[u] /= {} => Max2(row[u].consumed_seq, c) < row[u].input_seq
    BY <1>4, StopTargetFacts DEF SettleStopIdle
  <2>2. c \in Seqs /\ (owed[u] /= {}) \in BOOLEAN
    BY <2>1 DEF Seqs
  <2>3. e \in Row /\ Settles(row[u], e, owed[u] /= {})
    BY <1>1, <2>1, <2>2, SettleStopRow, SettleStopSound
  <2>4. row' = [row EXCEPT ![u] = e] /\ UNCHANGED threadVars /\ UNCHANGED recovering
    BY <1>4 DEF SettleStopIdle, UpdateAtBack, Update
  <2> HIDE DEF e
  <2> QED
    BY <1>1, <2>1, <2>3, <2>4, KeepingStep DEF Keeps
<1> QED
  BY <1>2, <1>3, <1>4

\* A recovery begins by parking the unit, running or not.
LEMMA HoldLedger ==
  ASSUME TypeOK, Ledger, NEW u \in Units,
         \/ \E refund \in 0..1 : ParkWorkerForRecovery(u, refund)
         \/ HoldWorkerForRecovery(u)
  PROVE  LedgerStep
<1>1. /\ row[u] \in Row /\ Sound(row[u]) /\ row[u].state /= "absent"
      /\ Account(u, row[u], top[u], human[u], owed[u], admitted[u])
      /\ Reasoned(row[u])
  BY LedgerRow DEF ParkWorkerForRecovery, HoldWorkerForRecovery, Account
<1>2. PICK e \in Row :
         /\ row' = [row EXCEPT ![u] = e] /\ e.state = "parked"
         /\ \/ /\ row[u].state = "leased"
               /\ \E refund \in 0..1 :
                     refund <= row[u].attempts /\ e = ParkForRecovery(row[u], refund)
            \/ e = HoldForRecovery(row[u])
  <2>1. ASSUME NEW refund \in 0..1, ParkWorkerForRecovery(u, refund)
        PROVE  /\ row' = [row EXCEPT ![u] = ParkForRecovery(row[u], refund)]
               /\ row[u].state = "leased" /\ refund <= row[u].attempts
               /\ ParkForRecovery(row[u], refund) \in Row
               /\ ParkForRecovery(row[u], refund).state = "parked"
    BY <1>1, <2>1, ParkForRecoveryRow DEF ParkWorkerForRecovery, UpdateInPlace, Update
  <2>2. ASSUME HoldWorkerForRecovery(u)
        PROVE  /\ row' = [row EXCEPT ![u] = HoldForRecovery(row[u])]
               /\ HoldForRecovery(row[u]) \in Row
               /\ HoldForRecovery(row[u]).state = "parked"
    BY <1>1, <2>2, HoldForRecoveryRow DEF HoldWorkerForRecovery, UpdateInPlace, Update
  <2> QED
    BY <2>1, <2>2
<1>3. Continues(row[u], e)
  BY <1>1, <1>2, HoldSound
<1>4. Account(u, e, top[u], human[u], owed[u], admitted[u]) /\ Forward(row[u], e)
  BY <1>1, <1>3, AccountKept DEF Exists, Continues, Keeps
<1>5. /\ UNCHANGED threadVars /\ recovering' = recovering \cup {u}
      /\ recovering' \subseteq Workers
  BY LedgerRow DEF ParkWorkerForRecovery, HoldWorkerForRecovery
<1> QED
  BY <1>2, <1>4, <1>5, OneUnit DEF threadVars

\* Its end gives the unit one more input, within the bound.
LEMMA RecoveredLedger ==
  ASSUME TypeOK, Ledger, NEW u \in Units, ReleaseWorkerFromRecovery(u)
  PROVE  LedgerStep
<1> DEFINE r == row[u]
           e == ReleaseFromRecovery(r)
<1>1. /\ r \in Row /\ Sound(r) /\ r.state = "parked"
      /\ r.park_reason = "workspace_recovery" /\ r.input_seq < MaxSeq
      /\ Account(u, r, top[u], human[u], owed[u], admitted[u])
  BY LedgerRow DEF ReleaseWorkerFromRecovery
<1>2. u \in Workers /\ u \notin Sessions
  BY LedgerRow DEF ReleaseWorkerFromRecovery
<1>3. e \in Row /\ Sound(e) /\ Forward(r, e) /\ Reasoned(e)
  BY <1>1, ReleaseFromRecoveryRow, RecoveredSound
<1>4. /\ e.state = "queued" /\ e.adm_token = r.adm_token
      /\ e.input_seq = Max2(Max2(r.input_seq, r.consumed_seq), 0) + 1
  BY DEF ReleaseFromRecovery, Row
<1>5. 0 <= e.input_seq /\ e.input_seq <= MaxSeq
  BY <1>1, <1>2, <1>4, RowNumbers, QueueConstants
     DEF Account, Sound, Max2, Exists
<1>6. Account(u, e, top[u], human[u], owed[u], admitted[u])
  BY <1>1, <1>2, <1>3, <1>4, <1>5 DEF Account
<1>7. row' = [row EXCEPT ![u] = e] /\ UNCHANGED threadVars
  BY DEF ReleaseWorkerFromRecovery, UpdateAtBack, Update
<1>8. recovering' = recovering \ {u} /\ recovering' \subseteq Workers
  BY LedgerRow DEF ReleaseWorkerFromRecovery
<1> HIDE DEF e
<1> QED
  BY <1>3, <1>6, <1>7, <1>8, OneUnit DEF threadVars

\* Time passes in rows that are queued or leased.
LEMMA ClockLedger ==
  ASSUME TypeOK, Ledger, NEW u \in Units, Clock(u)
  PROVE  LedgerStep
<1>1. row[u] \in Row /\ Sound(row[u]) /\ (u \in recovering => row[u].state = "parked")
  BY LedgerRow
<1>2. ASSUME NEW e, row[u].state \in {"queued", "leased"}, ClockTick(u, e),
             \/ e = [row[u] EXCEPT !.lapsed = TRUE]
             \/ e = [row[u] EXCEPT !.ready = TRUE]
             \/ e = [row[u] EXCEPT !.aged = TRUE]
      PROVE  LedgerStep
  <2>1. e \in Row /\ Continues(row[u], e)
    BY <1>1, <1>2, TickRow, TickSound
  <2>2. row' = [row EXCEPT ![u] = e] /\ UNCHANGED threadVars /\ UNCHANGED recovering
    BY <1>2 DEF ClockTick
  <2> QED
    BY <1>1, <1>2, <2>1, <2>2, KeepingStep DEF Keeps
<1>3. CASE LeaseLapses(u) \/ BackoffElapses(u) \/ GraceElapses(u)
  BY <1>2, <1>3 DEF LeaseLapses, BackoffElapses, GraceElapses
<1>4. CASE RowLocked(u) \/ RowUnlocked(u)
  BY <1>4, NoUnitTouched DEF RowLocked, RowUnlocked, queueVars
<1> QED
  BY <1>3, <1>4 DEF Clock

-----------------------------------------------------------------------------
(***************************************************************************)
(* The whole next-state relation.                                          *)
(***************************************************************************)

\* Every step keeps the ledger and moves the rows forward.
LEMMA StepKeepsLedger ==
  ASSUME TypeOK, Ledger, [Next]_vars
  PROVE  LedgerStep
<1>1. CASE UNCHANGED vars
  BY <1>1, NoUnitTouched DEF vars, threadVars
<1>2. CASE Admission
  BY <1>2, EnqueueLedger, AdmissionLedger, ControlLedger DEF Admission
<1>3. ASSUME NEW p \in Pods, PodStep(p)
      PROVE  LedgerStep
  <2>1. CASE \E u \in Units : Claim(p, u) \/ ClaimPreferred(p, u)
    BY <2>1, ClaimLedger
  <2>2. CASE \/ HeartbeatUnit(p) \/ FinalizeControl(p)
             \/ \E c \in 1..MaxSeq : ConsumeStopLive(p, c)
    BY <2>2, HeartbeatLedger, FinalizeLedger, ConsumeStopLedger
  <2>3. CASE \/ LearnLeaseLost(p) \/ FenceLease(p) \/ PersistCommit(p)
             \/ PersistAbort(p) \/ PodCrash(p) \/ ExpireWarm(p)
    BY <2>3, NoUnitTouched
       DEF LearnLeaseLost, FenceLease, PersistCommit, PersistAbort, PodCrash,
           ExpireWarm, queueVars
  <2>4. CASE \E turn \in 1..MaxSeq :
               \/ OpenInterruptAdmission(p, turn)
               \/ \E c \in {NullSeq} \cup 1..MaxSeq :
                     CloseInterruptAdmission(p, turn, c)
    BY <2>4, OpenLedger, CloseLedger
  <2>5. CASE \E s \in 1..MaxSeq :
               AdmitDelivery(p, s) \/ UnadmitDelivery(p, s) \/ ReclaimDelivery(p, s)
    BY <2>5, DeliveryLedger
  <2>6. CASE \/ \E c \in {NullSeq} \cup 0..MaxSeq :
                  /\ claim[p].unit \in Units /\ c <= row[claim[p].unit].input_seq
                  /\ CompleteUnit(p, c)
             \/ \E due \in BOOLEAN : ReleaseUnit(p, due)
             \/ ReleaseUnitDeterministic(p)
             \/ \E reason \in {"none", "executor"} : ParkUnit(p, reason)
             \/ \E sig \in AttachSignatures : RecordAttachFailureOf(p, sig)
    BY <2>6, DispositionLedger
  <2> QED
    BY <1>3, <2>1, <2>2, <2>3, <2>4, <2>5, <2>6 DEF PodStep
<1>4. ASSUME NEW r \in Reapers, ReaperStep(r)
      PROVE  LedgerStep
  <2>1. CASE (\E some \in SUBSET Units : ReapScan(r, some)) \/ ReaperCrash(r)
    BY <2>1, NoUnitTouched DEF ReapScan, ReaperCrash, queueVars
  <2>2. ASSUME NEW f \in found[r],
               \/ ReapStealUnit(r, f[1], f[2], f[3])
               \/ ReapMiss(r, f[1], f[2], f[3])
        PROVE  LedgerStep
    <3>1. f[1] \in Units /\ f[2] \in Nat /\ f[3] \in BOOLEAN
      BY DEF TypeOK
    <3>2. CASE ReapStealUnit(r, f[1], f[2], f[3])
      BY <3>1, <3>2, StealLedger
    <3>3. CASE ReapMiss(r, f[1], f[2], f[3])
      BY <3>3, NoUnitTouched DEF ReapMiss, queueVars
    <3> QED
      BY <2>2, <3>2, <3>3
  <2> QED
    BY <1>4, <2>1, <2>2 DEF ReaperStep
<1>5. ASSUME NEW u \in Units, OperatorStep(u)
      PROVE  LedgerStep
  BY <1>5, ParkLiftedLedger, HoldLedger, RecoveredLedger DEF OperatorStep
<1>6. ASSUME NEW u \in Units, Clock(u)
      PROVE  LedgerStep
  BY <1>6, ClockLedger
<1> QED
  BY <1>1, <1>2, <1>3, <1>4, <1>5, <1>6 DEF Next

\* The empty table balances.
LEMMA InitLedger == Init => Ledger
<1> SUFFICES ASSUME Init
             PROVE  Ledger
  OBVIOUS
<1>1. Sound(NoRow)
  BY Thresholds DEF Sound, NoRow, NullSeq, Exhausted, Explained
<1>2. ASSUME NEW u \in Units
      PROVE  Account(u, NoRow, History, 1..History, {}, {})
  BY <1>1, QueueConstants DEF Account, NoRow, NullSeq, Exists, Reasoned
<1> QED
  BY <1>2 DEF Init, Ledger

\* The ledger holds in every reachable state.
THEOREM LedgerInvariant == Spec => [](TypeOK /\ Ledger)
<1>1. Init => TypeOK /\ Ledger
  BY InitLeaseInv, InitLedger DEF LeaseInv
<1>2. TypeOK /\ Ledger /\ [Next]_vars => TypeOK' /\ Ledger'
  BY StepIsLeaseStep, StepKeepsLedger DEF LedgerStep
<1> QED
  BY <1>1, <1>2, PTL DEF Spec

-----------------------------------------------------------------------------
(***************************************************************************)
(* Theorems.                                                               *)
(***************************************************************************)

\* Nothing is lost when a unit becomes 'done': no input, control or event
\* delivery admitted while it was leased or parked is left behind.
THEOREM NothingStranded == Spec => []NoStrandedWork
<1>1. TypeOK /\ Ledger => NoStrandedWork
  BY DEF Ledger, Account, Settled, NoStrandedWork
<1> QED
  BY <1>1, LedgerInvariant, PTL

\* The table constraint on the interrupt window is never violated: a window
\* belongs to the running lease of a session.
THEOREM WindowOwned == Spec => []InterruptWindowOwned
<1>1. ASSUME TypeOK, Ledger
      PROVE  InterruptWindowOwned
  <2> SUFFICES ASSUME NEW u \in Units
               PROVE  /\ (row[u].adm_token = 0) <=> (row[u].adm_turn = 0)
                      /\ row[u].adm_token /= 0 =>
                            u \in Sessions /\ Leased(row[u], row[u].adm_token)
    BY DEF InterruptWindowOwned
  <2>1. Sound(row[u]) /\ (u \in Workers => row[u].adm_token = 0)
    BY <1>1 DEF Ledger, Account
  <2> QED
    BY <2>1 DEF Sound, Leased, Units
<1> QED
  BY <1>1, LedgerInvariant, PTL

\* A watermark stays behind what was recorded, and the record behind the
\* thread.
THEOREM WatermarksBehind == Spec => []ConsumedBehindInput
<1>1. ASSUME TypeOK, Ledger
      PROVE  ConsumedBehindInput
  BY <1>1 DEF Ledger, Account, Sound, ConsumedBehindInput, Units
<1> QED
  BY <1>1, LedgerInvariant, PTL

\* What a thread said before it used the queue is never answered again.
THEOREM HistoryBehind == Spec => []HistoryNeverReplayed
<1>1. ASSUME TypeOK, Ledger
      PROVE  HistoryNeverReplayed
  BY <1>1 DEF Ledger, Account, HistoryNeverReplayed, Units
<1> QED
  BY <1>1, LedgerInvariant, PTL

\* The failure record bounds every loop of releases, however steals, transient
\* releases and other failures are mixed in.  A session that left the park with
\* its record, through a stop settled at rest, still shows the reason.
THEOREM FailuresBounded == Spec => []FailureBudget
<1>1. ASSUME TypeOK, Ledger
      PROVE  FailureBudget
  <2> SUFFICES ASSUME NEW u \in Units
               PROVE  /\ (row[u].signature = "none") <=> (row[u].attach_failures = 0)
                      /\ row[u].state /= "parked"
                           /\ (u \in Workers \/ row[u].park_reason = "none") =>
                            /\ row[u].signature = "deterministic" =>
                                  row[u].attach_failures < MaxAttempts
                            /\ row[u].signature \in AttachSignatures =>
                                  row[u].attach_failures < SignatureThreshold
    BY DEF FailureBudget
  <2>1. row[u] \in Row /\ Sound(row[u]) /\ (u \in Workers => Reasoned(row[u]))
    BY <1>1, LedgerRow DEF Account
  <2>2. row[u].state /= "parked" /\ (u \in Workers \/ row[u].park_reason = "none")
           => ~ Exhausted(row[u])
    BY <2>1 DEF Sound, Explained, Reasoned
  <2> QED
    BY <2>1, <2>2, RowNumbers, Thresholds DEF Sound, Exhausted
<1> QED
  BY <1>1, LedgerInvariant, PTL

\* A unit with an unresolved workspace recovery is parked and nobody's.
THEOREM RecoveryExcludes == Spec => []RecoveryExcludesExecution
<1>1. ASSUME TypeOK, Ledger
      PROVE  RecoveryExcludesExecution
  BY <1>1 DEF Ledger, RecoveryExcludesExecution, TypeOK, Holds, Leased
<1> QED
  BY <1>1, LedgerInvariant, PTL

\* Neither the rows nor the durable writes go back.
THEOREM Forwards == Spec => NeverGoesBack
<1> DEFINE Ahead ==
      \A u \in Units :
         /\ row'[u].lease_token >= row[u].lease_token
         /\ row'[u].input_seq >= row[u].input_seq
         /\ row'[u].consumed_seq >= row[u].consumed_seq
         /\ row'[u].control_input_seq >= row[u].control_input_seq
         /\ row'[u].control_consumed_seq >= row[u].control_consumed_seq
         /\ persisted'[u] >= persisted[u]
<1>1. ASSUME LeaseInv, Ledger, [Next]_vars
      PROVE  Ahead
  <2>1. /\ TypeOK /\ FenceExcludesSteal /\ PersistedBehind
        /\ TypeOK' /\ LeaseStep /\ LedgerStep
    BY <1>1, StepIsLeaseStep, StepKeepsLedger DEF LeaseInv
  <2>2. ASSUME NEW u \in Units
        PROVE  persisted'[u] >= persisted[u]
    <3>1. persisted[u] <= row[u].lease_token
      BY <2>1 DEF PersistedBehind
    <3>2. CASE persisted' = persisted
      BY <2>1, <3>2, TokenTypes
    <3>3. CASE persisted' /= persisted
      <4>1. persisted'[u] \in {persisted[u], row[u].lease_token}
        BY <2>1, <3>3, WriteInLease DEF TypeOK
      <4> QED
        BY <2>1, <3>1, <4>1, TokenTypes
    <3> QED
      BY <3>2, <3>3
  <2> QED
    BY <2>1, <2>2 DEF LedgerStep, Forward
<1>2. LeaseInv /\ (TypeOK /\ Ledger) /\ [Next]_vars => [Ahead]_vars
  BY <1>1
<1>3. Spec => [][Ahead]_vars
  BY <1>2, LeaseInvariant, LedgerInvariant, PTL DEF Spec
<1> QED
  BY <1>3 DEF NeverGoesBack

\* A live lease ends by its holder, or by a recovery that says so.
THEOREM LiveLeaseHeld == Spec => LiveLeaseEndsByHolder
<1> DEFINE Ended ==
      \A u \in Units :
         row[u].state = "leased" /\ ~ row[u].lapsed /\ ~ Leased(row'[u], row[u].lease_token)
            => \/ u \in recovering'
               \/ \E p \in Pods :
                    /\ claim[p] = [unit |-> u, token |-> row[u].lease_token]
                    /\ claim'[p] = NoClaim
<1>1. ASSUME LeaseInv, [Next]_vars
      PROVE  Ended
  <2>1. TypeOK /\ TypeOK' /\ LeaseStep
    BY <1>1, StepIsLeaseStep DEF LeaseInv
  <2> SUFFICES ASSUME NEW u \in Units, row[u].state = "leased", ~ row[u].lapsed,
                      ~ Leased(row'[u], row[u].lease_token)
               PROVE  \/ u \in recovering'
                      \/ \E p \in Pods :
                           /\ claim[p] = [unit |-> u, token |-> row[u].lease_token]
                           /\ claim'[p] = NoClaim
    OBVIOUS
  <2>2. row'[u] /= row[u] /\ ~ SameLease(row[u], row'[u])
    BY DEF Leased, SameLease
  <2>3. CASE \E p \in Pods : DisposeStep(p)
    <3> PICK p \in Pods : DisposeStep(p)
      BY <2>3
    <3>1. claim[p].unit = u /\ claim[p].token = row[u].lease_token
      BY <2>2 DEF DisposeStep, OthersKept, Holds, Leased
    <3>2. claim[p] = [unit |-> u, token |-> row[u].lease_token]
      BY <2>1, <3>1 DEF TypeOK, Claims
    <3>3. claim'[p] = NoClaim
      BY <2>1 DEF DisposeStep, TypeOK
    <3> QED
      BY <3>2, <3>3
  <2>4. ASSUME NEW v \in Units, RevokeStep(v)
        PROVE  u \in recovering'
    BY <2>2, <2>4 DEF RevokeStep, OthersKept
  <2>5. CASE ~ (\E p \in Pods : DisposeStep(p)) /\ ~ \E v \in Units : RevokeStep(v)
    BY <2>1, <2>2, <2>5
       DEF LeaseStep, QuietStep, GrantStep, ForgetStep, FenceStep, UnfenceStep,
           FenceIdleStep, OthersKept
  <2> QED
    BY <2>3, <2>4, <2>5
<1>2. LeaseInv /\ [Next]_vars => [Ended]_vars
  BY <1>1
<1>3. Spec => [][Ended]_vars
  BY <1>2, LeaseInvariant, PTL DEF Spec
<1> QED
  BY <1>3 DEF LiveLeaseEndsByHolder

-----------------------------------------------------------------------------
(***************************************************************************)
(* The order of claims.  A step grants a unit to a pod, sends one unit     *)
(* that was not waiting to the back, or leaves every unit where it is.     *)
(***************************************************************************)

GrantsUnit == \E p \in Pods, u \in Units : Claim(p, u) \/ ClaimPreferred(p, u)

\* No row enters the queue or is leased, and nobody changes places.
KeepsPlaces ==
    /\ ahead' = ahead
    /\ \A u \in Units : \/ row'[u].state = row[u].state
                        \/ row'[u].state \notin {"queued", "leased"}

\* The unit u enters, or leaves, the queue from outside, behind all others.
EntersAtBack(u) ==
    /\ row[u].state /= "queued"
    /\ ToBack(u)
    /\ \A v \in Units \ {u} : row'[v] = row[v]

Places == GrantsUnit \/ KeepsPlaces \/ \E u \in Units : EntersAtBack(u)

\* An UPDATE in place that does not queue the unit keeps the places.
LEMMA InPlace ==
  ASSUME TypeOK, NEW u \in Units, NEW e, row' = [row EXCEPT ![u] = e],
         UNCHANGED ahead,
         e.state = row[u].state \/ e.state \notin {"queued", "leased"}
  PROVE  Places
<1>1. row'[u] = e /\ \A v \in Units \ {u} : row'[v] = row[v]
  BY DEF TypeOK
<1> QED
  BY <1>1 DEF Places, KeepsPlaces

\* An UPDATE of a unit that is not waiting, with queued_at = now().
LEMMA AtBack ==
  ASSUME TypeOK, NEW u \in Units, NEW e, row[u].state /= "queued",
         UpdateAtBack(u, e)
  PROVE  Places
BY DEF Places, EntersAtBack, UpdateAtBack, Update, TypeOK

\* A step that writes no row leaves every unit where it is.
LEMMA NoRowWritten ==
  ASSUME UNCHANGED queueVars
  PROVE  Places
BY DEF queueVars, Places, KeepsPlaces

\* An admission takes a place only for a row it creates or revives.
LEMMA RevivedPlace ==
  ASSUME TypeOK, NEW u \in Units, NEW e, UpdateRevived(u, e),
         row[u].state \notin {"absent", "done"} => e.state = row[u].state
  PROVE  Places
<1>1. CASE row[u].state \in {"absent", "done"}
  BY <1>1, AtBack DEF UpdateRevived, UpdateAtBack
<1>2. CASE row[u].state \notin {"absent", "done"}
  BY <1>2, InPlace DEF UpdateRevived, Update
<1> QED
  BY <1>1, <1>2

\* Every admission does.
LEMMA AdmissionPlace ==
  ASSUME TypeOK, Admission
  PROVE  Places
<1> PICK u \in Units :
           \/ \E prio \in Priorities, due \in BOOLEAN, s \in 1..MaxSeq :
                 EnqueueUnit(u, prio, due, s)
           \/ AdmitInput(u)
           \/ PersistEvent(u)
           \/ \E k \in 1..MaxControl : AdmitControl(u, k)
  BY DEF Admission
<1> DEFINE r == row[u]
<1>1. r \in Row
  BY DEF TypeOK
<1>2. ASSUME NEW prio \in Priorities, NEW due \in BOOLEAN, NEW s \in 1..MaxSeq,
             EnqueueUnit(u, prio, due, s)
      PROVE  Places
  <2>1. r.state \notin {"absent", "done"} => Enqueue(r, prio, due, s).state = r.state
    BY <1>1 DEF Enqueue, Row
  <2> QED
    BY <1>2, <2>1, RevivedPlace DEF EnqueueUnit
<1>3. CASE AdmitInput(u) \/ PersistEvent(u)
  <2>1. r.state \notin {"absent", "done"}
           => RecordInput(r, top[u] + 1).state = r.state
    BY <1>1 DEF RecordInput, Row
  <2> QED
    BY <1>3, <2>1, RevivedPlace DEF AdmitInput, PersistEvent
<1>4. ASSUME NEW k \in 1..MaxControl, AdmitControl(u, k)
      PROVE  Places
  <2>1. ASSUME NEW b
        PROVE  r.state \notin {"absent", "done"} => RecordControl(r, k, b).state = r.state
    BY <1>1 DEF RecordControl, Row
  <2> QED
    BY <1>4, <2>1, RevivedPlace DEF AdmitControl
<1> QED
  BY <1>2, <1>3, <1>4

\* A pod claims, works in place, or disposes of a unit it holds.
LEMMA PodPlace ==
  ASSUME TypeOK, NEW p \in Pods, PodStep(p)
  PROVE  Places
<1> DEFINE u == claim[p].unit
<1>1. u \in Units => row[u] \in Row
  BY DEF TypeOK
<1>2. CASE \E v \in Units : Claim(p, v) \/ ClaimPreferred(p, v)
  BY <1>2 DEF Places, GrantsUnit
<1>3. CASE \/ HeartbeatUnit(p) \/ FinalizeControl(p)
           \/ \E c \in 1..MaxSeq : ConsumeStopLive(p, c)
  <2>1. u \in Units
    BY <1>3 DEF HeartbeatUnit, FinalizeControl, ConsumeStopLive, Holds
  <2>2. /\ Heartbeat(row[u]).state = row[u].state
        /\ [row[u] EXCEPT !.control_consumed_seq = @ + 1].state = row[u].state
        /\ \A c \in 1..MaxSeq : ConsumeStop(row[u], c).state = row[u].state
    BY <1>1, <2>1 DEF Heartbeat, ConsumeStop, Row
  <2> QED
    BY <1>3, <2>1, <2>2, InPlace
       DEF HeartbeatUnit, FinalizeControl, ConsumeStopLive, UpdateInPlace, Update
<1>4. CASE \/ LearnLeaseLost(p) \/ FenceLease(p) \/ PersistCommit(p)
           \/ PersistAbort(p) \/ PodCrash(p) \/ ExpireWarm(p)
  BY <1>4, NoRowWritten
     DEF LearnLeaseLost, FenceLease, PersistCommit, PersistAbort, PodCrash,
         ExpireWarm
<1>5. ASSUME NEW turn \in 1..MaxSeq, OpenInterruptAdmission(p, turn)
      PROVE  Places
  <2>1. u \in Units
    BY <1>5 DEF OpenInterruptAdmission, Units
  <2>2. OpenInterrupt(row[u], claim[p].token, turn).state = row[u].state
    BY <1>1, <2>1 DEF OpenInterrupt, Row
  <2> QED
    BY <1>5, <2>1, <2>2, InPlace DEF OpenInterruptAdmission, UpdateInPlace, Update
<1>6. ASSUME NEW turn, NEW c, CloseInterruptAdmission(p, turn, c)
      PROVE  Places
  <2>1. u \in Units
    BY <1>6 DEF CloseInterruptAdmission, Units
  <2>2. CloseInterrupt(row[u], c).state = row[u].state
    BY <1>1, <2>1 DEF CloseInterrupt, Row
  <2> QED
    BY <1>6, <2>1, <2>2, InPlace DEF CloseInterruptAdmission, UpdateInPlace, Update
<1>7. CASE \E s \in 1..MaxSeq :
             AdmitDelivery(p, s) \/ UnadmitDelivery(p, s) \/ ReclaimDelivery(p, s)
  BY <1>7, NoRowWritten DEF AdmitDelivery, UnadmitDelivery, ReclaimDelivery
<1>8. ASSUME NEW e, NEW w, Dispose(p, e, w)
      PROVE  Places
  BY <1>8, AtBack DEF Dispose, Holds, Leased
<1>9. CASE \/ \E c \in {NullSeq} \cup 0..MaxSeq :
                /\ claim[p].unit \in Units /\ c <= row[claim[p].unit].input_seq
                /\ CompleteUnit(p, c)
           \/ \E due \in BOOLEAN : ReleaseUnit(p, due)
           \/ ReleaseUnitDeterministic(p)
           \/ \E reason \in {"none", "executor"} : ParkUnit(p, reason)
           \/ \E sig \in AttachSignatures : RecordAttachFailureOf(p, sig)
  BY <1>8, <1>9
     DEF CompleteUnit, ReleaseUnit, ReleaseUnitDeterministic, ParkUnit,
         RecordAttachFailureOf
<1> QED
  BY <1>2, <1>3, <1>4, <1>5, <1>6, <1>7, <1>9 DEF PodStep

\* A steal sends its unit to the back.
LEMMA ReaperPlace ==
  ASSUME TypeOK, NEW r \in Reapers, ReaperStep(r)
  PROVE  Places
<1>1. CASE (\E some \in SUBSET Units : ReapScan(r, some)) \/ ReaperCrash(r)
  BY <1>1, NoRowWritten DEF ReapScan, ReaperCrash
<1>2. ASSUME NEW f \in found[r],
             \/ ReapStealUnit(r, f[1], f[2], f[3])
             \/ ReapMiss(r, f[1], f[2], f[3])
      PROVE  Places
  <2>1. f[1] \in Units
    BY DEF TypeOK
  <2>2. CASE ReapStealUnit(r, f[1], f[2], f[3])
    BY <2>1, <2>2, AtBack DEF ReapStealUnit, StealAllowed, Leased
  <2>3. CASE ReapMiss(r, f[1], f[2], f[3])
    BY <2>3, NoRowWritten DEF ReapMiss
  <2> QED
    BY <1>2, <2>2, <2>3
<1> QED
  BY <1>1, <1>2 DEF ReaperStep

\* Lifting a park sends the unit to the back; a recovery takes it out of the
\* queue; time moves nothing.
LEMMA OperatorPlace ==
  ASSUME TypeOK, NEW u \in Units, OperatorStep(u) \/ Clock(u)
  PROVE  Places
<1>1. row[u] \in Row
  BY DEF TypeOK
<1>2. CASE \/ UnparkUnit(u) \/ ReleaseWorkerFromRecovery(u)
           \/ \E c \in {NullSeq} \cup 1..MaxSeq : SettleParkedUnit(u, c)
           \/ \E c \in 1..MaxSeq : SettleStopIdle(u, c)
  BY <1>2, AtBack
     DEF UnparkUnit, ReleaseWorkerFromRecovery, SettleParkedUnit, SettleStopIdle
<1>3. CASE \/ HoldWorkerForRecovery(u)
           \/ \E refund \in 0..1 : ParkWorkerForRecovery(u, refund)
  <2>1. ASSUME NEW refund
        PROVE  ParkForRecovery(row[u], refund).state = "parked"
    BY <1>1 DEF ParkForRecovery, Row
  <2>2. HoldForRecovery(row[u]).state = "parked"
    BY <1>1 DEF HoldForRecovery, ParkForRecovery, Row
  <2> QED
    BY <1>3, <2>1, <2>2, InPlace
       DEF HoldWorkerForRecovery, ParkWorkerForRecovery, UpdateInPlace, Update
<1>4. CASE LeaseLapses(u) \/ BackoffElapses(u) \/ GraceElapses(u)
  <2>1. /\ [row[u] EXCEPT !.lapsed = TRUE].state = row[u].state
        /\ [row[u] EXCEPT !.ready = TRUE].state = row[u].state
        /\ [row[u] EXCEPT !.aged = TRUE].state = row[u].state
    BY <1>1 DEF Row
  <2> QED
    BY <1>4, <2>1, InPlace DEF LeaseLapses, BackoffElapses, GraceElapses, ClockTick
<1>5. CASE RowLocked(u) \/ RowUnlocked(u)
  BY <1>5, NoRowWritten DEF RowLocked, RowUnlocked
<1> QED
  BY <1>2, <1>3, <1>4, <1>5 DEF OperatorStep, Clock

\* Every step keeps, takes or gives up places in one of the three ways.
LEMMA StepPlaces ==
  ASSUME TypeOK, [Next]_vars
  PROVE  Places
<1>1. CASE UNCHANGED vars
  BY <1>1, NoRowWritten DEF vars, queueVars
<1> QED
  BY <1>1, AdmissionPlace, PodPlace, ReaperPlace, OperatorPlace DEF Next

-----------------------------------------------------------------------------
(***************************************************************************)
(* What went past an open unit stands behind it, if it waits at all.       *)
(***************************************************************************)

PassedIsBehind ==
    /\ passed \in [Units -> SUBSET Units]
    /\ \A u \in Units : \A v \in passed[u] :
          /\ v \in Kind(u) /\ v /= u
          /\ row[v].state = "queued" => u \in ahead[v]

\* A grant is a claim of that unit, in its place.
LEMMA GrantIsClaim ==
  ASSUME TypeOK, Places, NEW v \in Units, Granted(v)
  PROVE  \E p \in Pods : Claim(p, v) \/ ClaimPreferred(p, v)
<1>1. ~ KeepsPlaces /\ \A u \in Units : ~ EntersAtBack(u)
  BY DEF Granted, KeepsPlaces, EntersAtBack
<1>2. PICK p \in Pods, u \in Units : Claim(p, u) \/ ClaimPreferred(p, u)
  BY <1>1 DEF Places, GrantsUnit
<1>3. u = v
  BY <1>2 DEF Claim, ClaimPreferred, Grant, Granted, TypeOK
<1> QED
  BY <1>2, <1>3

\* Who went past an open unit, and waits again, stands behind it.
LEMMA StepKeepsPassed ==
  ASSUME TypeOK, PassedIsBehind, [OrderNext]_<<vars, passed>>
  PROVE  PassedIsBehind'
<1>1. CASE UNCHANGED <<vars, passed>>
  BY <1>1 DEF PassedIsBehind, vars, Kind
<1>2. CASE OrderNext
  <2>1. Places
    BY <1>2, StepPlaces DEF OrderNext
  <2>2. passed' \in [Units -> SUBSET Units]
    BY <1>2 DEF OrderNext, PassedIsBehind
  <2> SUFFICES ASSUME NEW u \in Units, NEW v \in passed'[u]
               PROVE  /\ v \in Kind(u) /\ v /= u
                      /\ row'[v].state = "queued" => u \in ahead'[v]
    BY <2>2 DEF PassedIsBehind, Kind
  <2>3. /\ OpenToAll(u) /\ OpenToAll(u)'
        /\ v \in passed[u] \/ (v \in Units \ {u} /\ GoesPast(v, u))
    BY <1>2 DEF OrderNext
  <2>4. v \in Units /\ v \in Kind(u) /\ v /= u
    BY <2>2, <2>3 DEF PassedIsBehind, GoesPast
  <2>5. ASSUME row'[v].state = "queued"
        PROVE  u \in ahead'[v]
    <3>1. v \in passed[u] /\ (row[v].state = "queued" => u \in ahead[v])
      BY <2>3, <2>5 DEF GoesPast, Granted, PassedIsBehind
    <3>2. CASE GrantsUnit
      <4>1. PICK p \in Pods, w \in Units : Grant(p, w)
        BY <3>2 DEF GrantsUnit, Claim, ClaimPreferred
      <4>2. ahead' = ahead /\ row' = [row EXCEPT ![w] = ClaimUpdateTail(row[w], p)]
        BY <4>1 DEF Grant
      <4>3. ClaimUpdateTail(row[w], p).state = "leased"
        BY DEF ClaimUpdateTail, TypeOK, Row
      <4>4. row'[v] = row[v]
        BY <2>4, <2>5, <4>2, <4>3 DEF TypeOK
      <4> QED
        BY <2>5, <3>1, <4>2, <4>4
    <3>3. CASE KeepsPlaces
      BY <2>4, <2>5, <3>1, <3>3 DEF KeepsPlaces
    <3>4. ASSUME NEW w \in Units, EntersAtBack(w)
          PROVE  u \in ahead'[v]
      <4>1. w /= u
        BY <2>3, <3>4 DEF EntersAtBack, OpenToAll
      <4>2. CASE w = v
        BY <2>4, <3>4, <4>2 DEF EntersAtBack, ToBack
      <4>3. CASE w /= v
        <5>1. row[v].state = "queued"
          BY <2>4, <2>5, <3>4, <4>3 DEF EntersAtBack
        <5> QED
          BY <2>4, <3>1, <3>4, <4>1, <4>3, <5>1 DEF EntersAtBack, ToBack
      <4> QED
        BY <4>2, <4>3
    <3> QED
      BY <2>1, <3>2, <3>3, <3>4 DEF Places
  <2> QED
    BY <2>4, <2>5
<1> QED
  BY <1>1, <1>2

\* An open unit that stands ahead of v hides v from the general claim.
LEMMA OvertakenOnce ==
  ASSUME TypeOK, PassedIsBehind, NEW p \in Pods, NEW u \in Units,
         NEW v \in passed[u], OpenToAll(u), Claim(p, v)
  PROVE  row[v].priority > row[u].priority
<1>1. /\ v \in Units /\ v \in Kind(u) /\ v /= u
      /\ row[v].state = "queued" => u \in ahead[v]
  BY DEF PassedIsBehind
<1>2. row[v].state = "queued" /\ Claimable(p, u)
  BY DEF Claim, Claimable, Visible, OpenToAll
<1>3. u \in Kind(v)
  BY <1>1, QueueConstants DEF Kind, Units
<1>4. ~ Before(u, v)
  BY <1>1, <1>2, <1>3 DEF Claim
<1>5. row[u].priority \in Nat /\ row[v].priority \in Nat
  BY <1>1 DEF TypeOK, Row
<1> QED
  BY <1>1, <1>2, <1>4, <1>5 DEF Before

\* The history is kept beside the queue and does not steer it.
LEMMA OrderOfQueue ==
  /\ OrderSpec => Spec
  /\ OrderSpec => [](TypeOK /\ PassedIsBehind)
<1>1. OrderInit => Init /\ PassedIsBehind
  BY DEF OrderInit, PassedIsBehind
<1>2. [OrderNext]_<<vars, passed>> => [Next]_vars
  BY DEF OrderNext, vars
<1>3. OrderSpec => Spec
  BY <1>1, <1>2, PTL DEF OrderSpec, Spec
<1>4. TypeOK /\ PassedIsBehind /\ [OrderNext]_<<vars, passed>> => PassedIsBehind'
  BY StepKeepsPassed
<1> QED
  BY <1>1, <1>3, <1>4, LedgerInvariant, PTL DEF OrderSpec

\* The unit of a second overtaking is the one its pod keeps warm.
OnlyPreferred ==
    \A u, v \in Units :
       v \in passed[u] /\ OpenToAll(u) /\ GoesPast(v, u)
          => \E p \in Pods : warm[p] = v /\ ClaimPreferred(p, v)

\* Whatever is kept warm, only a pod that prefers its warm unit takes a unit
\* past an open one of its kind for the second time.
THEOREM OnlyWarmGoesPastTwice == OrderSpec => [][OnlyPreferred]_<<vars, passed>>
<1>1. ASSUME TypeOK, PassedIsBehind, OrderNext
      PROVE  OnlyPreferred
  <2> SUFFICES ASSUME NEW u \in Units, NEW v \in Units, v \in passed[u],
                      OpenToAll(u), GoesPast(v, u)
               PROVE  \E p \in Pods : warm[p] = v /\ ClaimPreferred(p, v)
    BY DEF OnlyPreferred
  <2>1. Places
    BY <1>1, StepPlaces DEF OrderNext
  <2>2. PICK p \in Pods : Claim(p, v) \/ ClaimPreferred(p, v)
    BY <1>1, <2>1, GrantIsClaim DEF GoesPast
  <2>3. row[v].priority <= row[u].priority
    BY DEF GoesPast
  <2>4. row[u].priority \in Nat /\ row[v].priority \in Nat
    BY <1>1 DEF TypeOK, Row
  <2>5. ~ Claim(p, v)
    BY <1>1, <2>3, <2>4, OvertakenOnce
  <2> QED
    BY <2>2, <2>5 DEF ClaimPreferred
<1>2. TypeOK /\ PassedIsBehind /\ [OrderNext]_<<vars, passed>>
        => [OnlyPreferred]_<<vars, passed>>
  BY <1>1
<1> QED
  BY <1>2, OrderOfQueue, PTL DEF OrderSpec

\* No pod prefers a unit.
AllCold == \A p \in Pods : warm[p] = NoUnit

\* Without warm reuse no pod ever does.
LEMMA StaysCold ==
  ASSUME WarmReuse = {}
  PROVE  Spec => []AllCold
<1>1. Init => AllCold
  BY DEF Init, AllCold
<1>2. ASSUME TypeOK, AllCold, [Next]_vars
      PROVE  AllCold'
  <2>1. CASE UNCHANGED warm
    BY <1>2, <2>1 DEF AllCold
  <2>2. ASSUME NEW p \in Pods, warm' = [warm EXCEPT ![p] = NoUnit]
        PROVE  AllCold'
    BY <1>2, <2>2 DEF AllCold, TypeOK
  <2>3. ASSUME NEW p \in Pods, PodStep(p)
        PROVE  AllCold'
    <3>1. CASE \/ \E u \in Units : Claim(p, u) \/ ClaimPreferred(p, u)
               \/ HeartbeatUnit(p) \/ FenceLease(p)
               \/ PersistCommit(p) \/ PersistAbort(p) \/ FinalizeControl(p)
               \/ \E c \in 1..MaxSeq : ConsumeStopLive(p, c)
               \/ \E turn \in 1..MaxSeq :
                     \/ OpenInterruptAdmission(p, turn)
                     \/ \E c \in {NullSeq} \cup 1..MaxSeq :
                           CloseInterruptAdmission(p, turn, c)
               \/ \E s \in 1..MaxSeq :
                     \/ AdmitDelivery(p, s) \/ UnadmitDelivery(p, s)
                     \/ ReclaimDelivery(p, s)
      <4>1. UNCHANGED warm
        BY <3>1 DEF Claim, ClaimPreferred, Grant, HeartbeatUnit, FenceLease,
             PersistCommit, PersistAbort, FinalizeControl, ConsumeStopLive,
             OpenInterruptAdmission, CloseInterruptAdmission, AdmitDelivery,
             UnadmitDelivery, ReclaimDelivery, podVars
      <4> QED
        BY <2>1, <4>1
    <3>2. CASE LearnLeaseLost(p) \/ PodCrash(p) \/ ExpireWarm(p)
      BY <2>2, <3>2 DEF LearnLeaseLost, PodCrash, ExpireWarm
    <3>3. CASE \/ \E c \in {NullSeq} \cup 0..MaxSeq :
                    /\ claim[p].unit \in Units /\ c <= row[claim[p].unit].input_seq
                    /\ CompleteUnit(p, c)
               \/ \E due \in BOOLEAN : ReleaseUnit(p, due)
               \/ ReleaseUnitDeterministic(p)
               \/ \E reason \in {"none", "executor"} : ParkUnit(p, reason)
               \/ \E sig \in AttachSignatures : RecordAttachFailureOf(p, sig)
      BY <2>2, <3>3
         DEF CompleteUnit, ReleaseUnit, ReleaseUnitDeterministic, ParkUnit,
             RecordAttachFailureOf, Dispose
    <3> QED
      BY <2>3, <3>1, <3>2, <3>3 DEF PodStep
  <2>4. ASSUME Admission \/ (\E r \in Reapers : ReaperStep(r))
               \/ \E u \in Units : OperatorStep(u) \/ Clock(u)
        PROVE  UNCHANGED warm
    <3>1. CASE Admission
      BY <3>1 DEF Admission, EnqueueUnit, AdmitInput, PersistEvent, AdmitControl,
                  podVars
    <3>2. CASE \E r \in Reapers : ReaperStep(r)
      BY <3>2 DEF ReaperStep, ReapScan, ReapStealUnit, ReapMiss, ReaperCrash, podVars
    <3>3. CASE \E u \in Units : OperatorStep(u)
      BY <3>3 DEF OperatorStep, UnparkUnit, SettleParkedUnit, SettleStopIdle,
                  ParkWorkerForRecovery, HoldWorkerForRecovery,
                  ReleaseWorkerFromRecovery, podVars
    <3>4. CASE \E u \in Units : Clock(u)
      BY <3>4 DEF Clock, LeaseLapses, BackoffElapses, GraceElapses, ClockTick,
                  RowLocked, RowUnlocked, podVars
    <3> QED
      BY <2>4, <3>1, <3>2, <3>3, <3>4
  <2>5. CASE UNCHANGED vars
    BY <2>1, <2>5 DEF vars
  <2> QED
    BY <1>2, <2>1, <2>3, <2>4, <2>5 DEF Next
<1>3. TypeOK /\ AllCold /\ [Next]_vars => AllCold'
  BY <1>2
<1> QED
  BY <1>1, <1>3, LedgerInvariant, PTL DEF Spec

\* Round robin: without warm reuse no unit goes past an open unit of its kind
\* twice.
THEOREM GoesPastOnce ==
  ASSUME WarmReuse = {}
  PROVE  OrderSpec => RoundRobin
<1> DEFINE Once ==
      \A u, v \in Units : v \in passed[u] /\ OpenToAll(u) => ~ GoesPast(v, u)
<1>1. AllCold /\ OnlyPreferred => Once
  BY QueueConstants DEF AllCold, OnlyPreferred, Units
<1>2. AllCold /\ [OnlyPreferred]_<<vars, passed>> => [Once]_<<vars, passed>>
  BY <1>1
<1>3. OrderSpec => [][Once]_<<vars, passed>>
  BY <1>2, OnlyWarmGoesPastTwice, StaysCold, OrderOfQueue, PTL
<1> QED
  BY <1>3 DEF RoundRobin
=============================================================================
