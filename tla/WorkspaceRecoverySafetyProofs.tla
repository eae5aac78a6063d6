------------------- MODULE WorkspaceRecoverySafetyProofs -------------------
(***************************************************************************)
(* What the holds are for: nobody works in a workspace under recovery, its *)
(* disk stays, nothing is attested without the pin, and an attempt with an *)
(* unknown outcome is not followed by another.                             *)
(***************************************************************************)
EXTENDS WorkspaceRecoveryProofs

Gone == {"none"} \cup Terminal

\* No cleanup is admitted beside an open operation; the members that could run
\* all stand in its roster; and who holds a lease runs, or was cancelled.
QuietInv ==
    /\ permit => \A i \in Ops : ~ Open(i)
    /\ \A i \in Ops, j \in Jobs :
         Open(i) /\ job[j].status \notin Gone => Standing(i, j)
    /\ \A j \in Jobs : Holding(j) => job[j].status \in {"processing", "cancelled"}

LEMMA QuietInvQuiet == HoldInv /\ QuietInv => WorkspaceQuiet
  BY DEF HoldInv, Held, QuietInv, WorkspaceQuiet, Gone, Terminal

LEMMA QuietInit == Init => QuietInv
  BY DEF Init, QuietInv, Open, Holding

\* A step that opens no operation, puts no job back to life, takes nobody out
\* of a roster that stays open, and grants no lease to a job that may not run.
LEMMA QuietFrame ==
    ASSUME QuietInv,
           \A i \in Ops : Open(i)' => Open(i),
           permit' => permit \/ \A i \in Ops : ~ Open(i),
           \A i \in Ops, j \in Jobs : Open(i)' /\ job'[j].status \notin Gone =>
              job[j].status \notin Gone /\ (Standing(i, j) => Standing(i, j)'),
           \A j \in Jobs : Holding(j)' =>
              job'[j].status \in {"processing", "cancelled"}
    PROVE  QuietInv'
  <1>1. permit' => \A i \in Ops : ~ Open(i)'
    BY DEF QuietInv
  <1>2. \A i \in Ops, j \in Jobs :
           Open(i)' /\ job'[j].status \notin Gone => Standing(i, j)'
    BY DEF QuietInv
  <1> QED
    BY <1>1, <1>2 DEF QuietInv, Gone, Terminal

LEMMA WorkerQuiet ==
    ASSUME TypeOK, HoldInv, QuietInv, NEW j \in Jobs,
           \/ CreateChild(j) \/ EnqueueWorker(j) \/ ClaimWorker(j)
           \/ AuthorizeBundle(j) \/ RenewWorker(j) \/ LeaseLapses(j)
           \/ RequeueWorker(j) \/ ParkExhausted(j) \/ FinishWorker(j)
           \/ StopCooperatively(j)
    PROVE  QuietInv'
  <1> DEFINE Disposes == \E to \in {"queued", "parked", "done"},
                            status \in {job[j].status} \cup Terminal :
                            Dispose(j, to, status)
  <1>0. unit \in [Jobs -> Unit] /\ job \in [Jobs -> Job]
    BY DEF TypeOK
  <1>1. \/ CreateChild(j) \/ EnqueueWorker(j) \/ ClaimWorker(j)
        \/ AuthorizeBundle(j) \/ RenewWorker(j) \/ LeaseLapses(j) \/ Disposes
    <2>1. \A to \in {"queued", "parked", "done"},
             status \in {job[j].status} \cup Terminal :
             Dispose(j, to, status) => Disposes
      OBVIOUS
    <2>2. /\ job[j].status \in {job[j].status} \cup Terminal
          /\ "completed" \in {job[j].status} \cup Terminal
          /\ "cancelled" \in {job[j].status} \cup Terminal
      BY DEF Terminal
    <2> HIDE DEF Disposes
    <2> QED
      BY <2>1, <2>2
      DEF RequeueWorker, ParkExhausted, FinishWorker, StopCooperatively
  <1>2. UNCHANGED <<part, op, permit>>
    BY <1>1 DEF CreateChild, EnqueueWorker, ClaimWorker, AuthorizeBundle,
                RenewWorker, LeaseLapses, Dispose, store
  <1>3. \A i \in Ops, k \in Jobs :
           (Open(i)' <=> Open(i)) /\ (Standing(i, k)' <=> Standing(i, k))
    BY <1>2 DEF Open, Standing
  <1>4. \A k \in Jobs \ {j} : unit'[k] = unit[k] /\ job'[k] = job[k]
    BY <1>0, <1>1 DEF CreateChild, EnqueueWorker, ClaimWorker, AuthorizeBundle,
                RenewWorker, LeaseLapses, Dispose
  <1>5. /\ job'[j].status \notin Gone =>
             job[j].status \notin Gone \/ \A i \in Ops : ~ Open(i)
        /\ Holding(j)' => job'[j].status \in {"processing", "cancelled"}
    <2>1. CASE CreateChild(j)
      BY <1>0, <2>1 DEF CreateChild, QuietInv, Holding
    <2>2. CASE EnqueueWorker(j)
      <3>1. unit'[j].state = "queued" /\ job' = job
        BY <1>0, <2>2 DEF EnqueueWorker, Unit
      <3> QED BY <3>1 DEF Holding
    <2>3. CASE ClaimWorker(j)
      <3>1. job'[j].status = "processing" \/ unit'[j].state = "done"
        BY <1>0, <2>3 DEF ClaimWorker, Job
      <3>2. job'[j].status = job[j].status \/ job[j].status \notin Gone
        BY <2>3 DEF ClaimWorker, Eligible, Gone, Terminal
      <3> QED BY <3>1, <3>2 DEF Holding
    <2>4. CASE AuthorizeBundle(j) \/ RenewWorker(j) \/ LeaseLapses(j)
      BY <2>4 DEF AuthorizeBundle, RenewWorker, LeaseLapses, QuietInv, Holding
    <2>5. CASE Disposes
      <3>1. PICK to \in {"queued", "parked", "done"},
                 status \in {job[j].status} \cup Terminal :
                 Dispose(j, to, status)
        BY <2>5
      <3>2. unit'[j].state = to
        BY <1>0, <3>1 DEF Dispose, Unit
      <3>3. job'[j].status = status
        BY <1>0, <3>1 DEF Dispose, Job
      <3> QED BY <3>1, <3>2, <3>3 DEF Holding, Gone
    <2> QED BY <1>1, <2>1, <2>2, <2>3, <2>4, <2>5
  <1>6. \A k \in Jobs : Holding(k)' => job'[k].status \in {"processing", "cancelled"}
    BY <1>4, <1>5 DEF QuietInv, Holding
  <1>7. \A i \in Ops, k \in Jobs : Open(i)' /\ job'[k].status \notin Gone =>
           job[k].status \notin Gone /\ (Standing(i, k) => Standing(i, k)')
    BY <1>3, <1>4, <1>5
  <1> HIDE DEF Disposes
  <1> QED
    BY <1>2, <1>3, <1>6, <1>7, QuietFrame

LEMMA AdmitHoldQuiet ==
    ASSUME TypeOK, HoldInv, QuietInv, NEW j \in Jobs, NEW attention,
           AdmitHold(j, attention), UNCHANGED permit
    PROVE  QuietInv'
  <1>0. /\ unit \in [Jobs -> Unit] /\ job \in [Jobs -> Job]
        /\ op \in [Ops -> Operation]
        /\ part \in [Ops -> [Jobs -> Participant]]
    BY DEF TypeOK
  <1> DEFINE who == Members(j)
  <1>1. PICK i \in Ops, how \in {"held", "attention"} : HoldsAs(i, who, how)
    BY AdmitHoldParts
  <1>2. ~ permit' /\ \A k \in Ops : ~ Open(k)
    BY AdmitHoldParts
  <1>3. \A k \in Ops : Open(k)' => k = i
    BY <1>0, <1>1, <1>2 DEF HoldsAs, Open
  <1>4. \A k \in Jobs : k \notin who => job[k].status \in Gone
    BY DEF Members, Gone
  <1> HIDE DEF who
  <1>5. \A k \in Jobs : k \in who => Standing(i, k)' /\ ~ Holding(k)'
    BY <1>0, <1>1 DEF HoldsAs, Standing, Holding
  <1>6. \A k \in Jobs : k \notin who =>
           job'[k] = job[k] /\ (Holding(k)' <=> Holding(k))
    BY <1>1 DEF HoldsAs, Holding
  <1>7. \A k \in Ops, l \in Jobs :
           Open(k)' /\ job'[l].status \notin Gone => Standing(k, l)'
    BY <1>3, <1>4, <1>5, <1>6
  <1>8. \A k \in Jobs : Holding(k)' =>
           job'[k].status \in {"processing", "cancelled"}
    BY <1>5, <1>6 DEF QuietInv
  <1> QED
    BY <1>2, <1>7, <1>8 DEF QuietInv, Gone, Terminal

LEMMA PausesQuiet ==
    ASSUME TypeOK, QuietInv, NEW i \in Ops, Active(i), Pauses(i),
           UNCHANGED <<unit, job, permit>>
    PROVE  QuietInv'
  <1>1. \A k \in Ops : Open(k)' => Open(k)
    BY PausesParts DEF Open, Active
  <1>2. \A k \in Ops, j \in Jobs : Standing(k, j) => Standing(k, j)'
    BY PausesParts
  <1>3. \A j \in Jobs : Holding(j)' => job'[j].status \in {"processing", "cancelled"}
    BY DEF QuietInv, Holding
  <1> QED
    BY <1>1, <1>2, <1>3, QuietFrame

LEMMA RetryQuiet ==
    ASSUME TypeOK, HoldInv, QuietInv, NEW i \in Ops, Retry(i)
    PROVE  QuietInv'
  <1>0. /\ job \in [Jobs -> Job] /\ op \in [Ops -> Operation]
        /\ part \in [Ops -> [Jobs -> Participant]]
    BY DEF TypeOK
  <1>1. PICK n \in Ops :
          /\ op' = [op EXCEPT
               ![i] = [op[i] EXCEPT !.phase = "superseded", !.successor = n],
               ![n] = [@ EXCEPT !.phase = "active"]]
          /\ part' = [part EXCEPT
               ![i] = Marked(i, "transferred"),
               ![n] = [j \in Jobs |-> IF Standing(i, j)
                         THEN [part[i][j] EXCEPT !.how = "held"] ELSE part[n][j]]]
          /\ New(n) /\ TransfersFreeze(i, n)
    BY DEF Retry
  <1>2. /\ op[i].phase = "attention" /\ op[n].phase = "none" /\ i /= n
        /\ UNCHANGED <<unit, permit>>
    BY <1>1 DEF Retry, New
  <1>3. \A j \in Jobs : job'[j].status = job[j].status
    BY <1>0, <1>1 DEF TransfersFreeze, Job
  <1>4. Open(i) /\ ~ permit
    BY <1>2 DEF Open, QuietInv
  <1>5. op'[i].phase = "superseded" /\ \A k \in Ops \ {i, n} : op'[k] = op[k]
    BY <1>0, <1>1, <1>2 DEF Operation
  <1>6. \A j \in Jobs : Standing(i, j) => Standing(n, j)'
    BY <1>0, <1>1, <1>2 DEF Standing, Participant
  <1>7. \A k \in Ops \ {i, n}, j \in Jobs : Standing(k, j)' <=> Standing(k, j)
    BY <1>0, <1>1 DEF Standing
  <1>8. \A k \in Ops, j \in Jobs :
           Open(k)' /\ job'[j].status \notin Gone => Standing(k, j)'
    <2> SUFFICES ASSUME NEW k \in Ops, NEW j \in Jobs, Open(k)',
                        job'[j].status \notin Gone
                 PROVE  Standing(k, j)'
      OBVIOUS
    <2>1. job[j].status \notin Gone BY <1>3
    <2>2. CASE k = n
      <3>1. Standing(i, j) BY <1>4, <2>1 DEF QuietInv
      <3> QED BY <1>6, <2>2, <3>1 DEF Standing
    <2>3. CASE k \notin {i, n}
      <3>1. Open(k) BY <1>5, <2>3 DEF Open
      <3> QED BY <1>7, <2>1, <2>3, <3>1 DEF QuietInv
    <2>4. k /= i BY <1>5 DEF Open
    <2> QED BY <2>2, <2>3, <2>4
  <1>9. \A j \in Jobs : Holding(j)' => job'[j].status \in {"processing", "cancelled"}
    BY <1>2, <1>3 DEF QuietInv, Holding
  <1> QED
    BY <1>2, <1>4, <1>8, <1>9 DEF QuietInv, Gone, Terminal

\* A cancellation closes an operation or none, and moves one participant.
LEMMA CancelParts ==
    ASSUME TypeOK, NEW j \in Jobs, CancelJob(j)
    PROVE  /\ \A k \in Ops : op'[k].phase \in {op[k].phase, "cancelled"}
           /\ \A k \in Ops, l \in Jobs \ {j} : part'[k][l] = part[k][l]
           /\ \A k \in Ops : part'[k][j] = part[k][j] \/ ~ Standing(k, j)'
  <1>0. op \in [Ops -> Operation] /\ part \in [Ops -> [Jobs -> Participant]]
    BY DEF TypeOK
  <1>1. CASE Fenced(j)
    <2>1. PICK i \in Ops :
            /\ part' = [part EXCEPT ![i][j].how = "cancelled"]
            /\ op' = op \/ op' = [op EXCEPT ![i] = Unclaimed(@, "cancelled")]
      <3> DEFINE i == CHOOSE k \in Ops : Standing(k, j)
      <3>1. i \in Ops BY <1>1 DEF Fenced
      <3>2. /\ part' = [part EXCEPT ![i][j].how = "cancelled"]
            /\ op' = op \/ op' = [op EXCEPT ![i] = Unclaimed(@, "cancelled")]
        BY <1>1 DEF CancelJob
      <3> HIDE DEF i
      <3> QED BY <3>1, <3>2
    <2>2. \A k \in Ops : op'[k].phase \in {op[k].phase, "cancelled"}
      <3>1. \A o \in Operation : Unclaimed(o, "cancelled").phase = "cancelled"
        BY DEF Unclaimed, Operation
      <3> QED BY <1>0, <2>1, <3>1
    <2>3. /\ \A k \in Ops \ {i} : part'[k] = part[k]
          /\ part'[i] = [part[i] EXCEPT ![j] =
                           [part[i][j] EXCEPT !.how = "cancelled"]]
      BY <1>0, <2>1
    <2>4. /\ \A l \in Jobs \ {j} : part'[i][l] = part[i][l]
          /\ part'[i][j].how = "cancelled"
      BY <1>0, <2>3 DEF Participant
    <2>5. ~ Standing(i, j)' BY <2>4 DEF Standing
    <2> QED BY <2>2, <2>3, <2>4, <2>5
  <1>2. CASE ~ Fenced(j)
    BY <1>2 DEF CancelJob, store
  <1> QED BY <1>1, <1>2

LEMMA CancelQuiet ==
    ASSUME TypeOK, QuietInv, NEW j \in Jobs, CancelJob(j)
    PROVE  QuietInv'
  <1>0. unit \in [Jobs -> Unit] /\ job \in [Jobs -> Job]
    BY DEF TypeOK
  <1>1. /\ \A k \in Jobs \ {j} : unit'[k] = unit[k] /\ job'[k] = job[k]
        /\ job'[j].status = "cancelled" /\ UNCHANGED permit
    BY <1>0 DEF CancelJob
  <1>2. \A k \in Ops : Open(k)' => Open(k)
    BY CancelParts DEF Open
  <1>3. \A k \in Ops, l \in Jobs : Open(k)' /\ job'[l].status \notin Gone =>
           job[l].status \notin Gone /\ (Standing(k, l) => Standing(k, l)')
    BY <1>1, CancelParts DEF Gone, Terminal, Standing
  <1>4. \A l \in Jobs : Holding(l)' => job'[l].status \in {"processing", "cancelled"}
    BY <1>1 DEF QuietInv, Holding
  <1> QED BY <1>1, <1>2, <1>3, <1>4, QuietFrame

LEMMA SettleQuiet ==
    ASSUME TypeOK, QuietInv, NEW j \in Jobs,
           SettleFinalizes(j) \/ SettleCompletes(j)
    PROVE  QuietInv'
  <1>0. unit \in [Jobs -> Unit] /\ job \in [Jobs -> Job]
    BY DEF TypeOK
  <1>1. UNCHANGED <<op, part, permit>>
    BY DEF SettleFinalizes, SettleCompletes, store
  <1>2. \A l \in Jobs : job'[l].status = job[l].status /\ (Holding(l)' => Holding(l))
    BY <1>0, SettleParts DEF Holding
  <1> QED BY <1>1, <1>2 DEF QuietInv, Open, Standing

LEMMA ReleaseQuiet ==
    ASSUME TypeOK, HoldInv, QuietInv, NEW w \in Services, Release(w)
    PROVE  QuietInv'
  <1>0. /\ unit \in [Jobs -> Unit] /\ job \in [Jobs -> Job]
        /\ op \in [Ops -> Operation] /\ part \in [Ops -> [Jobs -> Participant]]
    BY DEF TypeOK
  <1>1. PICK i \in Ops :
          /\ Active(i) /\ UNCHANGED permit
          /\ \/ Pauses(i) /\ UNCHANGED <<unit, job>>
             \/ /\ \A j \in Jobs : Standing(i, j) => Projected(i, j)
                /\ unit' = [j \in Jobs |-> IF Standing(i, j)
                      THEN [unit[j] EXCEPT !.state = "queued"] ELSE unit[j]]
                /\ job' = [j \in Jobs |-> IF Standing(i, j)
                      THEN [job[j] EXCEPT !.freeze = 0,
                              !.status = IF part[i][j].fresh THEN "created"
                                         ELSE @]
                      ELSE job[j]]
                /\ part' = [part EXCEPT ![i] = Marked(i, "released")]
                /\ op' = [op EXCEPT ![i] = Unclaimed(@, "recovered")]
    BY ReleaseCases
  <1>2. CASE Pauses(i) /\ UNCHANGED <<unit, job>>
    BY <1>1, <1>2, PausesQuiet
  <1>3. CASE ~ (Pauses(i) /\ UNCHANGED <<unit, job>>)
    <2>1. op'[i].phase = "recovered" /\ \A k \in Ops \ {i} : op'[k] = op[k]
      <3>1. \A o \in Operation : Unclaimed(o, "recovered").phase = "recovered"
        BY DEF Unclaimed, Operation
      <3> QED BY <1>0, <1>1, <1>3, <3>1
    <2>2. \A k \in Ops : Open(k)' => k /= i /\ Open(k)
      BY <2>1 DEF Open
    <2>3. \A k \in Ops \ {i} : part'[k] = part[k]
      BY <1>0, <1>1, <1>3
    <2>4. \A l \in Jobs : job'[l].status \notin Gone => job[l].status \notin Gone
      <3> SUFFICES ASSUME NEW l \in Jobs, job'[l].status \notin Gone
                   PROVE  job[l].status \notin Gone
        OBVIOUS
      <3>1. CASE Standing(i, l)
        BY <1>1, <1>3, <3>1 DEF Projected, Gone, Terminal
      <3>2. CASE ~ Standing(i, l)
        BY <1>1, <1>3, <3>2
      <3> QED BY <3>1, <3>2
    <2>5. \A l \in Jobs : Holding(l)' => Holding(l) /\ job'[l] = job[l]
      <3> SUFFICES ASSUME NEW l \in Jobs, Holding(l)'
                   PROVE  Holding(l) /\ job'[l] = job[l]
        OBVIOUS
      <3>1. ~ Standing(i, l)
        BY <1>0, <1>1, <1>3 DEF Holding, Unit
      <3> QED BY <1>1, <1>3, <3>1 DEF Holding
    <2>6. \A k \in Ops, l \in Jobs : Open(k)' /\ job'[l].status \notin Gone =>
             job[l].status \notin Gone /\ (Standing(k, l) => Standing(k, l)')
      BY <2>2, <2>3, <2>4 DEF Standing
    <2>7. \A l \in Jobs : Holding(l)' => job'[l].status \in {"processing", "cancelled"}
      BY <2>5 DEF QuietInv
    <2> QED BY <1>1, <2>2, <2>6, <2>7, QuietFrame
  <1> QED BY <1>2, <1>3

LEMMA OtherQuiet ==
    ASSUME TypeOK, QuietInv, OtherStep
    PROVE  QuietInv'
  <1>1. /\ UNCHANGED <<unit, job, part>>
        /\ \A i \in Ops : Open(i)' <=> Open(i)
    BY OtherFrame DEF Open
  <1>2. permit' => permit \/ \A i \in Ops : ~ Open(i)
    BY DEF OtherStep, ReaperLooks, ReaperMisses, SettleLooks, ClaimLapses,
           DeadlinePasses, ClaimDue, SendPin, ServePin, PinAcknowledged, Stage,
           LoseClaim, Defer, AcquireCleanup, DeleteDisk, CompleteCleanup, vars
  <1>3. \A i \in Ops, j \in Jobs : Standing(i, j)' <=> Standing(i, j)
    BY <1>1 DEF Standing
  <1>4. \A j \in Jobs : Holding(j)' => job'[j].status \in {"processing", "cancelled"}
    BY <1>1 DEF QuietInv, Holding
  <1> QED
    BY <1>1, <1>2, <1>3, <1>4, QuietFrame

LEMMA QuietStep ==
    ASSUME TypeOK, HoldInv, QuietInv, [Next]_vars
    PROVE  QuietInv'
  <1>1. CASE \E j \in Jobs :
               \/ CreateChild(j) \/ EnqueueWorker(j) \/ ClaimWorker(j)
               \/ AuthorizeBundle(j) \/ RenewWorker(j) \/ LeaseLapses(j)
               \/ RequeueWorker(j) \/ ParkExhausted(j) \/ FinishWorker(j)
               \/ StopCooperatively(j)
    BY <1>1, WorkerQuiet
  <1>2. CASE \E j \in Jobs :
               \/ \E attention \in BOOLEAN : Report(j, attention)
               \/ ReaperHolds(j)
    BY <1>2, AdmitHoldQuiet DEF Report, ReaperHolds
  <1>3. CASE \E j \in Jobs : CancelJob(j) \/ SettleFinalizes(j) \/ SettleCompletes(j)
    BY <1>3, CancelQuiet, SettleQuiet
  <1>4. CASE \E i \in Ops : Retry(i)
    BY <1>4, RetryQuiet
  <1>5. CASE PauseDisabled \/ \E i \in Ops : ExpireDue(i)
    BY <1>5, PausesQuiet DEF PauseDisabled, ExpireDue, rows
  <1>6. CASE \E w \in Services : Release(w)
    BY <1>6, ReleaseQuiet
  <1>7. CASE \E w \in Services :
               PauseForAttention(w) \/ (Defer(w) /\ Pauses(svc[w].op))
    <2>1. PICK w \in Services :
             PauseForAttention(w) \/ (Defer(w) /\ Pauses(svc[w].op))
      BY <1>7
    <2>2. svc[w].op \in Ops /\ Active(svc[w].op)
      <3>1. svc[w].op \in Ops \cup {0} BY DEF TypeOK, Pass
      <3> QED BY <2>1, <3>1 DEF PauseForAttention, Defer, Current
    <2> QED BY <2>1, <2>2, PausesQuiet DEF PauseForAttention, Defer, rows
  <1>8. CASE OtherStep
    BY <1>8, OtherQuiet
  <1> QED
    BY <1>1, <1>2, <1>3, <1>4, <1>5, <1>6, <1>7, <1>8 DEF Next, OtherStep

\* WorkspaceQuiet: no worker holds a member of a workspace under recovery but
\* one whose job was cancelled.
THEOREM RecoveryWorkspaceQuiet == Spec => [](QuietInv /\ WorkspaceQuiet)
  <1>1. TypeOK /\ HoldInv /\ QuietInv /\ [Next]_vars => QuietInv'
    BY QuietStep
  <1> QED
    BY <1>1, QuietInit, QuietInvQuiet, RecoveryTypeCorrect, RecoveryHoldsExact,
       PTL DEF Spec

\* DiskKept: a cleanup that deletes the disk was admitted, and no operation is
\* opened beside it.
THEOREM RecoveryDiskKept == Spec => DiskKept
  <1>1. TypeOK /\ QuietInv /\ [Next]_vars
          => [disk /\ ~ disk' => \A i \in Ops : ~ Open(i)]_vars
    <2> SUFFICES ASSUME TypeOK, QuietInv, Next, disk, ~ disk'
                 PROVE  \A i \in Ops : ~ Open(i)
      OBVIOUS
    <2>1. permit
      BY DEF Next, CreateChild, EnqueueWorker, ClaimWorker, AuthorizeBundle,
             RenewWorker, RequeueWorker, ParkExhausted, FinishWorker,
             StopCooperatively, Dispose, LeaseLapses, Report, ReaperLooks,
             ReaperHolds, ReaperMisses, CancelJob, SettleLooks, SettleFinalizes,
             SettleCompletes,
             Retry, ExpireDue, ClaimLapses, DeadlinePasses, ClaimDue, SendPin,
             ServePin, PinAcknowledged, Stage, Defer, PauseForAttention,
             Release, LoseClaim, PauseDisabled, AcquireCleanup, DeleteDisk,
             CompleteCleanup
    <2> QED BY <2>1 DEF QuietInv
  <1> QED
    BY <1>1, RecoveryTypeCorrect, RecoveryWorkspaceQuiet, PTL DEF Spec, DiskKept

-----------------------------------------------------------------------------
(***************************************************************************)
(* The pin.                                                                *)
(***************************************************************************)

\* A pass gets past the pin only with the controller's acknowledgement.
PinInv ==
    /\ AttestedUnderPin
    /\ \A w \in Services : svc[w].stage \in {"pinned", "attesting"} =>
         svc[w].op \in Ops /\ pin[svc[w].op].acked

LEMMA PinFrame ==
    ASSUME PinInv,
           \A i \in Ops : pin[i].acked => pin'[i].acked,
           \A i \in Ops : op'[i].phase = "recovered" =>
              op[i].phase = "recovered" \/ pin[i].acked,
           \A w \in Services :
              \/ svc'[w] = svc[w]
              \/ svc'[w].stage \notin {"pinned", "attesting"}
              \/ svc'[w].op \in Ops /\ pin[svc'[w].op].acked
    PROVE  PinInv'
  <1>1. AttestedUnderPin' BY DEF PinInv, AttestedUnderPin
  <1>2. \A w \in Services : svc'[w].stage \in {"pinned", "attesting"} =>
           svc'[w].op \in Ops /\ pin'[svc'[w].op].acked
    BY DEF PinInv
  <1> QED BY <1>1, <1>2 DEF PinInv

LEMMA AckedStays ==
    ASSUME TypeOK, [Next]_vars, NEW i \in Ops, pin[i].acked
    PROVE  pin'[i].acked
  <1>0. pin \in [Ops -> Pin]
    BY DEF TypeOK
  <1>1. \/ pin' = pin
        \/ \E k \in Ops, state \in {"active", "released"} :
             pin' = [pin EXCEPT ![k].state = state]
        \/ \E k, n \in Ops :
             pin' = [pin EXCEPT ![k].state = "released", ![n].state = "active"]
        \/ \E k \in Ops : \/ pin' = [pin EXCEPT ![k].acked = TRUE]
                          \/ pin' = [pin EXCEPT ![k].freed = TRUE]
    <2>1. CASE \E j \in Jobs : \/ \E attention \in BOOLEAN : Report(j, attention)
                               \/ ReaperHolds(j)
      BY <2>1, AdmitHoldParts DEF Report, ReaperHolds, HoldsAs
    <2>2. CASE \E j \in Jobs : CancelJob(j)
      <3>1. PICK j \in Jobs : CancelJob(j) BY <2>2
      <3>2. CASE Fenced(j)
        <4> DEFINE l == CHOOSE k \in Ops : Standing(k, j)
        <4>1. l \in Ops BY <3>2 DEF Fenced
        <4>2. pin' = pin \/ pin' = [pin EXCEPT ![l].state = "released"]
          BY <3>1, <3>2 DEF CancelJob
        <4> HIDE DEF l
        <4> QED BY <4>1, <4>2
      <3> QED BY <3>1, <3>2 DEF CancelJob, store
    <2>3. CASE \E k \in Ops : Retry(k)
      BY <2>3 DEF Retry
    <2>4. CASE \E w \in Services : Release(w)
      BY <2>4, ReleaseCases
    <2>5. CASE \E k \in Ops, desired \in {"active", "released"} : ServePin(k, desired)
      BY <2>5 DEF ServePin
    <2> QED
      BY <2>1, <2>2, <2>3, <2>4, <2>5
      DEF Next, CreateChild, EnqueueWorker, ClaimWorker, AuthorizeBundle,
          RenewWorker, RequeueWorker, ParkExhausted, FinishWorker,
          StopCooperatively, Dispose, LeaseLapses, ReaperLooks, ReaperMisses,
          SettleLooks, SettleFinalizes, SettleCompletes, ExpireDue, ClaimLapses,
          DeadlinePasses,
          ClaimDue, SendPin, PinAcknowledged, Stage, Defer, PauseForAttention,
          LoseClaim, PauseDisabled, AcquireCleanup, DeleteDisk,
          CompleteCleanup, vars, store
  <1>2. pin[i] \in Pin
    BY <1>0
  <1>3. ASSUME NEW k \in Ops, NEW state, pin' = [pin EXCEPT ![k].state = state]
        PROVE  pin'[i].acked
    BY <1>0, <1>2, <1>3 DEF Pin
  <1>4. ASSUME NEW k \in Ops, NEW n \in Ops,
               pin' = [pin EXCEPT ![k].state = "released", ![n].state = "active"]
        PROVE  pin'[i].acked
    <2> DEFINE mid == [pin EXCEPT ![k].state = "released"]
    <2>1. mid \in [Ops -> Pin] /\ mid[i].acked BY <1>0, <1>2 DEF Pin
    <2>2. pin' = [mid EXCEPT ![n].state = "active"] BY <1>4
    <2> HIDE DEF mid
    <2> QED BY <2>1, <2>2 DEF Pin
  <1>5. ASSUME NEW k \in Ops, \/ pin' = [pin EXCEPT ![k].acked = TRUE]
                              \/ pin' = [pin EXCEPT ![k].freed = TRUE]
        PROVE  pin'[i].acked
    BY <1>0, <1>2, <1>5 DEF Pin
  <1> QED
    BY <1>1, <1>3, <1>4, <1>5

LEMMA PinStep ==
    ASSUME TypeOK, PinInv, [Next]_vars
    PROVE  PinInv'
  <1>0. /\ op \in [Ops -> Operation] /\ svc \in [Services -> Pass]
        /\ part \in [Ops -> [Jobs -> Participant]]
    BY DEF TypeOK
  <1>1. \A i \in Ops : pin[i].acked => pin'[i].acked
    BY AckedStays
  <1>2. CASE \E j \in Jobs :
               \/ CreateChild(j) \/ EnqueueWorker(j) \/ ClaimWorker(j)
               \/ AuthorizeBundle(j) \/ RenewWorker(j) \/ LeaseLapses(j)
               \/ RequeueWorker(j) \/ ParkExhausted(j) \/ FinishWorker(j)
               \/ StopCooperatively(j) \/ SettleFinalizes(j)
               \/ SettleCompletes(j)
    <2>1. UNCHANGED <<op, svc>>
      BY <1>2
      DEF CreateChild, EnqueueWorker, ClaimWorker, AuthorizeBundle, RenewWorker,
          RequeueWorker, ParkExhausted, FinishWorker, StopCooperatively, Dispose,
          LeaseLapses, SettleFinalizes, SettleCompletes, store
    <2> QED BY <1>1, <2>1, PinFrame
  <1>3. CASE \E j \in Jobs :
               \/ \E attention \in BOOLEAN : Report(j, attention)
               \/ ReaperHolds(j)
    <2>1. PICK j \in Jobs, attention \in BOOLEAN : AdmitHold(j, attention)
      BY <1>3 DEF Report, ReaperHolds
    <2>2. PICK i \in Ops, how \in {"held", "attention"} : HoldsAs(i, Members(j), how)
      BY <2>1, AdmitHoldParts
    <2>3. \A k \in Ops : op'[k].phase = "recovered" => op[k].phase = "recovered"
      BY <1>0, <2>2 DEF HoldsAs, Operation
    <2>4. UNCHANGED svc BY <1>3 DEF Report, ReaperHolds
    <2> QED BY <1>1, <2>3, <2>4, PinFrame
  <1>4. CASE \E j \in Jobs : CancelJob(j)
    <2>1. \A k \in Ops : op'[k].phase = "recovered" => op[k].phase = "recovered"
      BY <1>4, CancelParts
    <2>2. UNCHANGED svc BY <1>4 DEF CancelJob
    <2> QED BY <1>1, <2>1, <2>2, PinFrame
  <1>5. CASE \E i \in Ops : Retry(i)
    <2>1. PICK i \in Ops, n \in Ops : op' = [op EXCEPT
               ![i] = [op[i] EXCEPT !.phase = "superseded", !.successor = n],
               ![n] = [@ EXCEPT !.phase = "active"]]
      BY <1>5 DEF Retry
    <2>2. \A k \in Ops : op'[k].phase = "recovered" => op[k].phase = "recovered"
      <3>1. /\ \A o \in Operation : [o EXCEPT !.phase = "active"].phase = "active"
            /\ \A o \in Operation :
                 [o EXCEPT !.phase = "superseded", !.successor = n].phase
                   = "superseded"
        BY DEF Operation
      <3>2. i /= n => op'[i].phase = "superseded" /\ op'[n].phase = "active"
        BY <1>0, <2>1, <3>1
      <3>3. i = n => op'[i].phase = "active"
        <4> HAVE i = n
        <4>1. [op[i] EXCEPT !.phase = "superseded", !.successor = n] \in Operation
          BY <1>0 DEF Operation
        <4> QED BY <1>0, <2>1, <3>1, <4>1
      <3>4. \A k \in Ops \ {i, n} : op'[k] = op[k]
        BY <1>0, <2>1
      <3> QED BY <3>2, <3>3, <3>4
    <2>3. UNCHANGED svc BY <1>5 DEF Retry
    <2> QED BY <1>1, <2>2, <2>3, PinFrame
  <1>6. CASE PauseDisabled \/ \E i \in Ops : ExpireDue(i)
    <2>1. PICK i \in Ops : Pauses(i) BY <1>6 DEF PauseDisabled, ExpireDue
    <2>2. \A k \in Ops : op'[k].phase = "recovered" => op[k].phase = "recovered"
      BY <2>1, PausesParts
    <2>3. UNCHANGED svc BY <1>6 DEF PauseDisabled, ExpireDue
    <2> QED BY <1>1, <2>2, <2>3, PinFrame
  <1>7. CASE \E w \in Services :
               PauseForAttention(w) \/ (Defer(w) /\ Pauses(svc[w].op))
    <2>1. PICK w \in Services :
             PauseForAttention(w) \/ (Defer(w) /\ Pauses(svc[w].op))
      BY <1>7
    <2>2. svc[w].op \in Ops
      <3>1. svc[w].op \in Ops \cup {0} BY DEF TypeOK, Pass
      <3> QED BY <2>1, <3>1 DEF PauseForAttention, Defer, Current
    <2>3. \A k \in Ops : op'[k].phase = "recovered" => op[k].phase = "recovered"
      BY <2>1, <2>2, PausesParts DEF PauseForAttention
    <2>4. svc' = [svc EXCEPT ![w] = Idle]
      BY <2>1 DEF PauseForAttention, Defer, Ends
    <2>5. \A v \in Services :
             svc'[v] = svc[v] \/ svc'[v].stage \notin {"pinned", "attesting"}
      BY <1>0, <2>4 DEF Idle
    <2> QED BY <1>1, <2>3, <2>5, PinFrame
  <1>8. CASE \E w \in Services : Release(w)
    <2>1. PICK w \in Services : Release(w) BY <1>8
    <2>2. PICK i \in Ops :
            /\ i = svc[w].op /\ svc[w].stage = "attesting"
            /\ Pauses(i) \/ op' = [op EXCEPT ![i] = Unclaimed(@, "recovered")]
      BY <2>1, ReleaseCases
    <2>3. pin[i].acked BY <2>2 DEF PinInv
    <2>4. \A k \in Ops \ {i} : op'[k] = op[k]
      BY <1>0, <2>2, PausesParts
    <2>5. \A v \in Services :
             svc'[v] = svc[v] \/ svc'[v].stage \notin {"pinned", "attesting"}
      BY <1>0, <2>1 DEF Release, Ends, Idle
    <2> QED BY <1>1, <2>3, <2>4, <2>5, PinFrame
  <1>9. CASE OtherStep
    <2>1. \A k \in Ops : op'[k].phase = op[k].phase
      BY <1>9, OtherFrame
    <2>2. \A v \in Services :
              \/ svc'[v] = svc[v]
              \/ svc'[v].stage \notin {"pinned", "attesting"}
              \/ svc'[v].op \in Ops /\ pin[svc'[v].op].acked
      <3>1. CASE \E w \in Services : PinAcknowledged(w) \/ Stage(w)
        <4>1. PICK w \in Services : PinAcknowledged(w) \/ Stage(w) BY <3>1
        <4>2. svc[w].op \in Ops /\ pin[svc[w].op].acked
          <5>1. svc[w].op \in Ops \cup {0} BY DEF TypeOK, Pass
          <5> QED BY <4>1, <5>1 DEF PinAcknowledged, Stage, Current, PinInv
        <4>3. svc'[w].op = svc[w].op
          BY <1>0, <4>1 DEF PinAcknowledged, Stage, Steps, Pass
        <4>4. \A v \in Services \ {w} : svc'[v] = svc[v]
          BY <1>0, <4>1 DEF PinAcknowledged, Stage, Steps
        <4> QED BY <4>2, <4>3, <4>4
      <3>2. CASE \E w \in Services :
                   \/ LoseClaim(w) \/ Defer(w) \/ \E i \in Ops : ClaimDue(w, i)
        <4>1. PICK w \in Services, i \in Ops \cup {0}, stage \in {"idle", "claimed"} :
                 svc' = [svc EXCEPT ![w] = [op |-> i, stage |-> stage]]
          BY <3>2 DEF LoseClaim, Defer, ClaimDue, Ends, Idle
        <4> QED BY <1>0, <4>1
      <3> QED
        BY <1>9, <3>1, <3>2
        DEF OtherStep, ReaperLooks, ReaperMisses, SettleLooks, ClaimLapses,
            DeadlinePasses, SendPin, ServePin, AcquireCleanup, DeleteDisk,
            CompleteCleanup, vars
    <2> QED BY <1>1, <2>1, <2>2, PinFrame
  <1> QED
    BY <1>2, <1>3, <1>4, <1>5, <1>6, <1>7, <1>8, <1>9 DEF Next, OtherStep

LEMMA PinInit == Init => PinInv
  BY DEF Init, PinInv, AttestedUnderPin, Idle

\* AttestedUnderPin: nothing is released before the controller acknowledged
\* the pin, whichever reconciler asked for it.
THEOREM RecoveryAttestedUnderPin == Spec => [](PinInv /\ AttestedUnderPin)
  <1>1. TypeOK /\ PinInv /\ [Next]_vars => PinInv'
    BY PinStep
  <1>2. PinInv => AttestedUnderPin
    BY DEF PinInv
  <1> QED
    BY <1>1, <1>2, PinInit, RecoveryTypeCorrect, PTL DEF Spec

-----------------------------------------------------------------------------
(***************************************************************************)
(* The attempts.                                                           *)
(***************************************************************************)

\* No attempt up to this token is left with an outcome nobody accounted for.
Clean(j, last) == \A t \in Tokens :
    t <= last => ledger[j][t] \notin {"authorized", "unknown"}

\* Beyond the row's token nothing is recorded; an attempt recorded under it was
\* claimed over a clean past; a row that can be claimed has one; and so has a
\* participant whose continuation was judged safe.
Account(j) ==
    /\ \A t \in Tokens : t > unit[j].token => ledger[j][t] = "none"
    /\ unit[j].token /= 0 /\
         ledger[j][unit[j].token] \in {"claimed", "authorized", "refunded", "settled"}
         => Clean(j, unit[j].token - 1)
    /\ Holding(j) => unit[j].token /= 0 /\
         ledger[j][unit[j].token] \in {"claimed", "authorized"}
    /\ unit[j].state \in {"absent", "queued"} => Clean(j, unit[j].token)
    /\ \A i \in Ops : Standing(i, j) /\ part[i][j].safe => Clean(j, unit[j].token)

LedgerInv == \A j \in Jobs : Account(j)

LEMMA LedgerAccounts == TypeOK /\ LedgerInv => UnknownOutcomeNotReplayed
  <1> SUFFICES ASSUME TypeOK, LedgerInv, NEW j \in Jobs, Holding(j),
                      NEW t \in Tokens, t < unit[j].token
               PROVE  ledger[j][t] \notin {"authorized", "unknown"}
    BY DEF UnknownOutcomeNotReplayed
  <1>1. unit[j].token \in Nat /\ t \in Nat
    BY RecoveryConstants DEF TypeOK, Unit, Tokens
  <1>2. Clean(j, unit[j].token - 1)
    BY DEF LedgerInv, Account
  <1> QED
    BY <1>1, <1>2 DEF Clean

LEMMA LedgerInit == Init => LedgerInv
  <1> SUFFICES ASSUME Init, NEW j \in Jobs PROVE Account(j)
    BY DEF LedgerInv
  <1>1. \A t \in Tokens : ledger[j][t] = "none"
    BY DEF Init
  <1>2. \A last : Clean(j, last)
    BY <1>1 DEF Clean
  <1>3. unit[j].token = 0 /\ unit[j].state = "absent"
    BY DEF Init
  <1> QED
    BY <1>1, <1>2, <1>3 DEF Account, Holding

\* A member whose attempts a step does not write: its row stays or leaves
\* service, and it is judged safe in no roster where it was not.
LEMMA AccountFrame ==
    ASSUME NEW j \in Jobs, Account(j),
           ledger'[j] = ledger[j], unit'[j].token = unit[j].token,
           \/ unit'[j].state = unit[j].state
           \/ unit'[j].state \in {"parked", "done"}
           \/ unit'[j].state = "queued" /\ Clean(j, unit[j].token),
           \A i \in Ops : Standing(i, j)' /\ part'[i][j].safe =>
              \E k \in Ops : Standing(k, j) /\ part[k][j].safe
    PROVE  Account(j)'
  <1>1. Clean(j, unit[j].token) => Clean(j, unit[j].token)'
    BY DEF Clean
  <1>2. Clean(j, unit[j].token - 1) => Clean(j, unit[j].token - 1)'
    BY DEF Clean
  <1> QED
    BY <1>1, <1>2 DEF Account, Holding

LEMMA ClaimAccount ==
    ASSUME TypeOK, LedgerInv, NEW j \in Jobs, ClaimWorker(j)
    PROVE  LedgerInv'
  <1>0. /\ unit \in [Jobs -> Unit] /\ ledger \in [Jobs -> [Tokens -> Evidence]]
        /\ MaxToken \in Nat
    BY RecoveryConstants DEF TypeOK
  <1>1. /\ unit[j].state = "queued" /\ unit[j].token < MaxToken
        /\ UNCHANGED part /\ \A i \in Ops : ~ Standing(i, j)
    BY DEF ClaimWorker, Fenced, store
  <1>2. PICK n \in Nat : n = unit[j].token
    BY <1>0 DEF Unit
  <1>3. PICK t \in Tokens : t \in Nat /\ t = n + 1
    BY <1>0, <1>1, <1>2 DEF Tokens
  <1>4. \A k \in Jobs \ {j} : unit'[k] = unit[k] /\ ledger'[k] = ledger[k]
    BY <1>0 DEF ClaimWorker
  <1>5. /\ unit'[j].token = t
        /\ \/ /\ unit'[j].state = "leased"
              /\ ledger' = [ledger EXCEPT ![j][t] = "claimed"]
           \/ unit'[j].state = "done" /\ ledger' = ledger
    BY <1>0, <1>2, <1>3 DEF ClaimWorker
  <1>6. Clean(j, n) /\ \A s \in Tokens : s > n => ledger[j][s] = "none"
    BY <1>1, <1>2 DEF LedgerInv, Account
  <1>7. \A s \in Tokens \ {t} : ledger'[j][s] = ledger[j][s]
    BY <1>0, <1>3, <1>5
  <1>8. \A s \in Tokens : s \in Nat
    BY DEF Tokens
  <1>9. \A s \in Tokens : s > t => ledger'[j][s] = "none"
    BY <1>3, <1>6, <1>7, <1>8
  <1>10. Clean(j, t - 1)'
    <2> SUFFICES ASSUME NEW s \in Tokens, s <= t - 1
                 PROVE  ledger'[j][s] \notin {"authorized", "unknown"}
      BY DEF Clean
    <2>1. s /= t /\ s <= n BY <1>3, <1>8
    <2> QED BY <1>6, <1>7, <2>1 DEF Clean
  <1>11. unit'[j].state = "leased" => ledger'[j][t] = "claimed"
    BY <1>0, <1>3, <1>5
  <1>12. \A i \in Ops, k \in Jobs : Standing(i, k)' <=> Standing(i, k)
    BY <1>1 DEF Standing
  <1>13. Account(j)'
    <2>1. Holding(j)' => unit'[j].token /= 0 /\
             ledger'[j][unit'[j].token] \in {"claimed", "authorized"}
      BY <1>3, <1>5, <1>11 DEF Holding
    <2>2. unit'[j].state \notin {"absent", "queued"} BY <1>5
    <2>3. \A i \in Ops : ~ Standing(i, j)' BY <1>1, <1>12
    <2>4. Clean(j, unit[j].token - 1)'
      BY <1>5, <1>10 DEF Clean
    <2> QED
      BY <1>5, <1>9, <2>1, <2>2, <2>3, <2>4 DEF Account
  <1>14. ASSUME NEW k \in Jobs \ {j} PROVE Account(k)'
    BY <1>1, <1>4, <1>12, AccountFrame DEF LedgerInv
  <1> QED
    BY <1>13, <1>14 DEF LedgerInv

\* The bundle, and the holder's own account: an attempt is written under the
\* token of a lease, for a member that stands in no roster.
LEMMA WriteAccount ==
    ASSUME TypeOK, LedgerInv, NEW j \in Jobs, NEW e,
           Holding(j), ~ Fenced(j), UNCHANGED part,
           ledger' = [ledger EXCEPT ![j][unit[j].token] = e],
           \A k \in Jobs \ {j} : unit'[k] = unit[k],
           unit'[j].token = unit[j].token,
           \/ unit'[j] = unit[j] /\ e \in {"claimed", "authorized"}
           \/ unit'[j].state \in {"queued", "parked", "done"}
                /\ e \in {"claimed", "settled"}
    PROVE  LedgerInv'
  <1>0. /\ unit \in [Jobs -> Unit] /\ ledger \in [Jobs -> [Tokens -> Evidence]]
        /\ MaxToken \in Nat
    BY RecoveryConstants DEF TypeOK
  <1>1. PICK t \in Tokens : t = unit[j].token /\ t \in Nat
    <2>1. unit[j].token \in 0..MaxToken BY <1>0 DEF Unit
    <2>2. unit[j].token /= 0 BY DEF LedgerInv, Account
    <2> QED BY <1>0, <2>1, <2>2 DEF Tokens
  <1>2. /\ ledger'[j][t] = e
        /\ \A s \in Tokens \ {t} : ledger'[j][s] = ledger[j][s]
        /\ \A k \in Jobs \ {j} : ledger'[k] = ledger[k]
    BY <1>0, <1>1
  <1>3. Clean(j, t - 1)
    BY <1>1 DEF LedgerInv, Account
  <1>4. \A s \in Tokens : s \in Nat
    BY DEF Tokens
  <1>5. Clean(j, t - 1)'
    <2> SUFFICES ASSUME NEW s \in Tokens, s <= t - 1
                 PROVE  ledger'[j][s] \notin {"authorized", "unknown"}
      BY DEF Clean
    <2>1. s /= t BY <1>1, <1>4
    <2> QED BY <1>2, <1>3, <2>1 DEF Clean
  <1>6. e /= "authorized" /\ e /= "unknown" => Clean(j, t)'
    <2> SUFFICES ASSUME e /= "authorized", e /= "unknown",
                        NEW s \in Tokens, s <= t
                 PROVE  ledger'[j][s] \notin {"authorized", "unknown"}
      BY DEF Clean
    <2>1. s = t \/ s <= t - 1 BY <1>1, <1>4
    <2> QED BY <1>2, <1>5, <2>1 DEF Clean
  <1>7. \A i \in Ops, k \in Jobs : Standing(i, k)' <=> Standing(i, k)
    BY DEF Standing
  <1>8. Account(j)'
    <2>1. unit'[j].token = t BY <1>1
    <2>2. \A s \in Tokens : s > t => ledger'[j][s] = "none"
      BY <1>1, <1>2 DEF LedgerInv, Account
    <2>3. Holding(j)' => t /= 0 /\ ledger'[j][t] \in {"claimed", "authorized"}
      BY <1>1, <1>2 DEF LedgerInv, Account, Holding
    <2>4. unit'[j].state \in {"absent", "queued"} => Clean(j, t)'
      BY <1>6 DEF Holding
    <2>5. \A i \in Ops : ~ Standing(i, j)'
      BY <1>7 DEF Fenced
    <2>6. Clean(j, unit[j].token - 1)' BY <1>5, <2>1 DEF Clean
    <2>7. unit'[j].state \in {"absent", "queued"} => Clean(j, unit[j].token)'
      BY <2>1, <2>4 DEF Clean
    <2> QED
      BY <2>1, <2>2, <2>3, <2>5, <2>6, <2>7 DEF Account
  <1>9. ASSUME NEW k \in Jobs \ {j} PROVE Account(k)'
    BY <1>2, <1>7, AccountFrame DEF LedgerInv
  <1> QED
    BY <1>8, <1>9 DEF LedgerInv

LEMMA WorkerAccount ==
    ASSUME TypeOK, HoldInv, LedgerInv, NEW j \in Jobs,
           \/ CreateChild(j) \/ EnqueueWorker(j) \/ ClaimWorker(j)
           \/ AuthorizeBundle(j) \/ RenewWorker(j) \/ LeaseLapses(j)
           \/ RequeueWorker(j) \/ ParkExhausted(j) \/ FinishWorker(j)
           \/ StopCooperatively(j)
    PROVE  LedgerInv'
  <1>0. /\ unit \in [Jobs -> Unit] /\ ledger \in [Jobs -> [Tokens -> Evidence]]
    BY DEF TypeOK
  <1>1. CASE CreateChild(j) \/ RenewWorker(j) \/ LeaseLapses(j)
    <2>1. UNCHANGED <<unit, ledger, part>>
      BY <1>1 DEF CreateChild, RenewWorker, LeaseLapses, store
    <2> QED BY <2>1 DEF LedgerInv, Account, Clean, Holding, Standing
  <1>2. CASE EnqueueWorker(j)
    <2>1. /\ unit' = [unit EXCEPT ![j].state = "queued"]
          /\ unit[j].state = "absent" /\ UNCHANGED <<ledger, part>>
      BY <1>2 DEF EnqueueWorker, store
    <2>2. /\ unit'[j].state = "queued" /\ unit'[j].token = unit[j].token
          /\ \A k \in Jobs \ {j} : unit'[k] = unit[k]
      BY <1>0, <2>1 DEF Unit
    <2>3. Clean(j, unit[j].token) BY <2>1 DEF LedgerInv, Account
    <2>4. \A i \in Ops, k \in Jobs : Standing(i, k)' <=> Standing(i, k)
      BY <2>1 DEF Standing
    <2>5. Account(j)'
      BY <2>1, <2>2, <2>3, <2>4, AccountFrame DEF LedgerInv
    <2>6. ASSUME NEW k \in Jobs \ {j} PROVE Account(k)'
      BY <2>1, <2>2, <2>4, AccountFrame DEF LedgerInv
    <2> QED BY <2>5, <2>6 DEF LedgerInv
  <1>3. CASE ClaimWorker(j)
    BY <1>3, ClaimAccount
  <1>4. CASE AuthorizeBundle(j)
    BY <1>4, WriteAccount DEF AuthorizeBundle, store
  <1>5. CASE \/ RequeueWorker(j) \/ ParkExhausted(j) \/ FinishWorker(j)
             \/ StopCooperatively(j)
    <2>1. PICK to, status :
             to \in {"queued", "parked", "done"} /\ Dispose(j, to, status)
      BY <1>5
      DEF RequeueWorker, ParkExhausted, FinishWorker, StopCooperatively
    <2>2. Holding(j) /\ ~ Fenced(j) /\ UNCHANGED part
      BY <2>1 DEF Dispose, store
    <2>3. /\ unit'[j].state = to /\ unit'[j].token = unit[j].token
          /\ \A k \in Jobs \ {j} : unit'[k] = unit[k]
      BY <1>0, <2>1 DEF Dispose, Unit
    <2>4. unit[j].token \in Tokens
      <3>1. unit[j].token \in 0..MaxToken BY <1>0 DEF Unit
      <3>2. unit[j].token /= 0 BY <2>2 DEF LedgerInv, Account
      <3> QED BY <3>1, <3>2, RecoveryConstants DEF Tokens
    <2>5. ledger[j][unit[j].token] \in {"claimed", "authorized"}
      BY <2>2 DEF LedgerInv, Account
    <2>6. PICK e \in {"claimed", "settled"} :
             ledger' = [ledger EXCEPT ![j][unit[j].token] = e]
      BY <2>1, <2>5 DEF Dispose
    <2> QED BY <2>1, <2>2, <2>3, <2>6, WriteAccount
  <1> QED
    BY <1>1, <1>2, <1>3, <1>4, <1>5

LEMMA AdmitHoldAccount ==
    ASSUME TypeOK, HoldInv, LedgerInv, NEW j \in Jobs, NEW attention,
           AdmitHold(j, attention)
    PROVE  LedgerInv'
  <1>0. /\ unit \in [Jobs -> Unit] /\ ledger \in [Jobs -> [Tokens -> Evidence]]
        /\ part \in [Ops -> [Jobs -> Participant]] /\ MaxToken \in Nat
    BY RecoveryConstants DEF TypeOK
  <1> DEFINE who == Members(j)
  <1>1. PICK i \in Ops, how \in {"held", "attention"} : HoldsAs(i, who, how)
    BY AdmitHoldParts
  <1>2. \A k \in Ops, l \in Jobs : ~ Standing(k, l)
    BY AdmitHoldParts DEF HoldInv, Held
  <1> HIDE DEF who
  <1>3. \A k \in Ops, l \in Jobs : Standing(k, l)' => k = i /\ l \in who
    BY <1>0, <1>1, <1>2 DEF HoldsAs, Standing
  <1>4. ASSUME NEW l \in Jobs, l \notin who PROVE Account(l)'
    <2>1. unit'[l] = unit[l] /\ \A t \in Tokens : ledger'[l][t] = ledger[l][t]
      BY <1>1, <1>4 DEF HoldsAs
    <2>2. ledger'[l] = ledger[l]
      BY <1>0, <1>1, <1>4, <2>1 DEF HoldsAs
    <2> QED BY <1>3, <1>4, <2>1, <2>2, AccountFrame DEF LedgerInv
  <1>5. ASSUME NEW l \in Jobs, l \in who PROVE Account(l)'
    <2>1. PICK n \in Nat : n = unit[l].token
      BY <1>0 DEF Unit
    <2>2. PICK t \in Tokens : t \in Nat /\ t = n + 1
      <3>1. n < MaxToken BY <1>1, <1>5, <2>1 DEF HoldsAs
      <3> QED BY <1>0, <2>1, <3>1 DEF Tokens
    <2>3. unit'[l].token = t /\ unit'[l].state = "parked"
      BY <1>1, <1>5, <2>1, <2>2 DEF HoldsAs
    <2>4. \A s \in Tokens : s \in Nat
      BY DEF Tokens
    <2>5. \A s \in Tokens : ledger'[l][s] =
             IF Holding(l) /\ s = n
             THEN IF ledger[l][s] = "claimed" THEN "refunded" ELSE "unknown"
             ELSE ledger[l][s]
      BY <1>1, <1>5, <2>1 DEF HoldsAs
    <2>6. \A s \in Tokens : s > n => ledger[l][s] = "none"
      BY <2>1 DEF LedgerInv, Account
    <2>7. \A s \in Tokens : s > n => ledger'[l][s] = "none"
      BY <2>1, <2>4, <2>5, <2>6
    <2>8. ASSUME Safe(l) PROVE Clean(l, t)'
      <3> SUFFICES ASSUME NEW s \in Tokens, s <= t
                   PROVE  ledger'[l][s] \notin {"authorized", "unknown"}
        BY DEF Clean
      <3>1. CASE s > n
        BY <2>7, <3>1
      <3>2. CASE s <= n
        <4>1. n /= 0 BY <2>4, <3>2 DEF Tokens
        <4>2. ledger[l][n] \in {"claimed", "refunded"}
          BY <2>1, <2>8, <4>1 DEF Safe, NeverStarted, Attempt
        <4>3. Clean(l, n - 1) BY <2>1, <4>1, <4>2 DEF LedgerInv, Account
        <4>4. CASE s = n
          <5>1. Holding(l) => ledger[l][n] = "claimed"
            BY <2>1, <4>2 DEF LedgerInv, Account
          <5> QED BY <2>5, <4>2, <4>4, <5>1
        <4>5. CASE s <= n - 1
          <5>1. ledger'[l][s] = ledger[l][s] BY <2>4, <2>5, <4>5
          <5> QED BY <4>3, <4>5, <5>1 DEF Clean
        <4> QED BY <2>4, <3>2, <4>4, <4>5
      <3> QED BY <2>4, <3>1, <3>2
    <2>9. \A k \in Ops : Standing(k, l)' /\ part'[k][l].safe => Clean(l, t)'
      <3> SUFFICES ASSUME NEW k \in Ops, Standing(k, l)', part'[k][l].safe
                   PROVE  Clean(l, t)'
        OBVIOUS
      <3>1. k = i BY <1>3
      <3>2. part'[i][l].safe = Safe(l)
        BY <1>0, <1>1, <1>5 DEF HoldsAs
      <3> QED BY <2>8, <3>1, <3>2
    <2>10. \A s \in Tokens : s > t => ledger'[l][s] = "none"
      BY <2>2, <2>4, <2>7
    <2>11. ledger'[l][t] = "none" BY <2>2, <2>7
    <2>12. \A k \in Ops : (Standing(k, l) /\ part[k][l].safe => Clean(l, unit[l].token))'
      BY <2>3, <2>9 DEF Clean, Standing
    <2> QED
      BY <2>3, <2>10, <2>11, <2>12 DEF Account, Holding
  <1> QED
    BY <1>4, <1>5 DEF LedgerInv

\* The others write no attempt.
LEMMA RosterAccount ==
    ASSUME TypeOK, HoldInv, LedgerInv, [Next]_vars,
           \/ \E j \in Jobs : CancelJob(j) \/ SettleFinalizes(j) \/ SettleCompletes(j)
           \/ \E i \in Ops : Retry(i)
           \/ \E i \in Ops : Pauses(i) /\ UNCHANGED <<unit, ledger>>
           \/ \E w \in Services : Release(w)
           \/ OtherStep /\ UNCHANGED ledger
    PROVE  LedgerInv'
  <1>0. /\ unit \in [Jobs -> Unit] /\ part \in [Ops -> [Jobs -> Participant]]
    BY DEF TypeOK
  <1>1. CASE \E j \in Jobs : CancelJob(j) \/ SettleFinalizes(j) \/ SettleCompletes(j)
    <2>1. PICK j \in Jobs : CancelJob(j) \/ SettleFinalizes(j) \/ SettleCompletes(j) BY <1>1
    <2>2. UNCHANGED ledger BY <2>1 DEF CancelJob, SettleFinalizes, SettleCompletes
    <2>3. ASSUME NEW k \in Jobs
          PROVE  /\ unit'[k].token = unit[k].token
                 /\ unit'[k].state = unit[k].state \/ unit'[k].state = "done"
      BY <1>0, <2>1 DEF CancelJob, SettleFinalizes, SettleCompletes, Unit
    <2>4. \A i \in Ops, k \in Jobs : Standing(i, k)' =>
             Standing(i, k) /\ part'[i][k] = part[i][k]
      <3>1. CASE CancelJob(j) BY <3>1, CancelParts DEF Standing
      <3>2. CASE SettleFinalizes(j) \/ SettleCompletes(j)
        BY <3>2 DEF SettleFinalizes, SettleCompletes, store, Standing
      <3> QED BY <2>1, <3>1, <3>2
    <2>5. ASSUME NEW k \in Jobs PROVE Account(k)'
      BY <2>2, <2>3, <2>4, AccountFrame DEF LedgerInv
    <2> QED BY <2>5 DEF LedgerInv
  <1>2. CASE \E i \in Ops : Retry(i)
    <2>1. PICK i \in Ops, n \in Ops :
            /\ part' = [part EXCEPT
               ![i] = Marked(i, "transferred"),
               ![n] = [j \in Jobs |-> IF Standing(i, j)
                         THEN [part[i][j] EXCEPT !.how = "held"] ELSE part[n][j]]]
            /\ i /= n /\ UNCHANGED <<unit, ledger>>
      BY <1>2 DEF Retry, New
    <2>2. \A k \in Ops \ {i, n} : part'[k] = part[k]
      BY <1>0, <2>1
    <2>3. ASSUME NEW j \in Jobs
          PROVE  /\ ~ Standing(i, j)'
                 /\ Standing(i, j) => part'[n][j].safe = part[i][j].safe
                 /\ ~ Standing(i, j) => part'[n][j] = part[n][j]
      <3>1. part'[i] = Marked(i, "transferred") BY <1>0, <2>1
      <3>2. ~ Standing(i, j)'
        BY <1>0, <3>1 DEF Marked, Standing, Participant
      <3>3. part'[n][j] = IF Standing(i, j)
               THEN [part[i][j] EXCEPT !.how = "held"] ELSE part[n][j]
        BY <1>0, <2>1
      <3> QED BY <1>0, <3>2, <3>3 DEF Participant
    <2>4. ASSUME NEW j \in Jobs, NEW k \in Ops, Standing(k, j)', part'[k][j].safe
          PROVE  \E l \in Ops : Standing(l, j) /\ part[l][j].safe
      <3>1. k /= i BY <2>3, <2>4 DEF Standing
      <3>2. CASE k = n
        BY <2>3, <2>4, <3>2 DEF Standing
      <3>3. CASE k /= n
        BY <2>2, <2>4, <3>1, <3>3 DEF Standing
      <3> QED BY <3>2, <3>3
    <2>5. ASSUME NEW k \in Jobs PROVE Account(k)'
      BY <2>1, <2>4, AccountFrame DEF LedgerInv
    <2> QED BY <2>5 DEF LedgerInv
  <1>3. ASSUME NEW i \in Ops, Pauses(i), UNCHANGED <<unit, ledger>>
        PROVE  LedgerInv'
    <2>1. \A k \in Ops, j \in Jobs : Standing(k, j)' /\ part'[k][j].safe =>
             Standing(k, j) /\ part[k][j].safe
      BY <1>3, PausesParts
    <2>2. ASSUME NEW k \in Jobs PROVE Account(k)'
      BY <1>3, <2>1, AccountFrame DEF LedgerInv
    <2> QED BY <2>2 DEF LedgerInv
  <1>4. CASE \E w \in Services : Release(w)
    <2>1. PICK i \in Ops :
            /\ UNCHANGED ledger
            /\ \/ Pauses(i) /\ UNCHANGED unit
               \/ /\ ContinuationSafe(i)
                  /\ unit' = [j \in Jobs |-> IF Standing(i, j)
                        THEN [unit[j] EXCEPT !.state = "queued"] ELSE unit[j]]
                  /\ part' = [part EXCEPT ![i] = Marked(i, "released")]
      BY <1>4, ReleaseCases
    <2>2. CASE Pauses(i) /\ UNCHANGED unit
      BY <1>3, <2>1, <2>2
    <2>3. CASE ~ (Pauses(i) /\ UNCHANGED unit)
      <3>1. \A j \in Jobs : ~ Standing(i, j)'
        <4>1. part'[i] = Marked(i, "released") BY <1>0, <2>1, <2>3
        <4> QED BY <1>0, <4>1 DEF Marked, Standing, Participant
      <3>2. \A k \in Ops \ {i} : part'[k] = part[k] BY <1>0, <2>1, <2>3
      <3>3. \A k \in Ops, j \in Jobs : Standing(k, j)' =>
               Standing(k, j) /\ part'[k][j] = part[k][j]
        BY <3>1, <3>2 DEF Standing
      <3>4. ASSUME NEW j \in Jobs
            PROVE  /\ unit'[j].token = unit[j].token
                   /\ \/ unit'[j].state = unit[j].state
                      \/ unit'[j].state = "queued" /\ Clean(j, unit[j].token)
        <4>1. CASE Standing(i, j)
          <5>1. Clean(j, unit[j].token)
            BY <2>1, <2>3, <4>1 DEF ContinuationSafe, LedgerInv, Account
          <5> QED BY <1>0, <2>1, <2>3, <4>1, <5>1 DEF Unit
        <4>2. CASE ~ Standing(i, j) BY <2>1, <2>3, <4>2
        <4> QED BY <4>1, <4>2
      <3>5. ASSUME NEW k \in Jobs PROVE Account(k)'
        BY <2>1, <3>3, <3>4, AccountFrame DEF LedgerInv
      <3> QED BY <3>5 DEF LedgerInv
    <2> QED BY <2>2, <2>3
  <1>5. CASE OtherStep /\ UNCHANGED ledger
    <2>1. UNCHANGED <<unit, part, ledger>> BY <1>5, OtherFrame
    <2> QED BY <2>1 DEF LedgerInv, Account, Clean, Holding, Standing
  <1> QED
    BY <1>1, <1>2, <1>3, <1>4, <1>5

LEMMA LedgerStep ==
    ASSUME TypeOK, HoldInv, LedgerInv, [Next]_vars
    PROVE  LedgerInv'
  <1>1. CASE \E j \in Jobs :
               \/ CreateChild(j) \/ EnqueueWorker(j) \/ ClaimWorker(j)
               \/ AuthorizeBundle(j) \/ RenewWorker(j) \/ LeaseLapses(j)
               \/ RequeueWorker(j) \/ ParkExhausted(j) \/ FinishWorker(j)
               \/ StopCooperatively(j)
    BY <1>1, WorkerAccount
  <1>2. CASE \E j \in Jobs :
               \/ \E attention \in BOOLEAN : Report(j, attention)
               \/ ReaperHolds(j)
    BY <1>2, AdmitHoldAccount DEF Report, ReaperHolds
  <1>3. CASE \/ \E j \in Jobs : CancelJob(j) \/ SettleFinalizes(j) \/ SettleCompletes(j)
             \/ \E i \in Ops : Retry(i)
             \/ \E w \in Services : Release(w)
    BY <1>3, RosterAccount
  <1>4. CASE PauseDisabled \/ \E i \in Ops : ExpireDue(i)
    <2>1. \E i \in Ops : Pauses(i) /\ UNCHANGED <<unit, ledger>>
      BY <1>4 DEF PauseDisabled, ExpireDue, rows
    <2> QED BY <2>1, RosterAccount
  <1>5. CASE \E w \in Services :
               PauseForAttention(w) \/ (Defer(w) /\ Pauses(svc[w].op))
    <2>1. PICK w \in Services :
             PauseForAttention(w) \/ (Defer(w) /\ Pauses(svc[w].op))
      BY <1>5
    <2>2. svc[w].op \in Ops
      <3>1. svc[w].op \in Ops \cup {0} BY DEF TypeOK, Pass
      <3> QED BY <2>1, <3>1 DEF PauseForAttention, Defer, Current
    <2>3. Pauses(svc[w].op) /\ UNCHANGED <<unit, ledger>>
      BY <2>1 DEF PauseForAttention, Defer, rows
    <2> QED BY <2>2, <2>3, RosterAccount
  <1>6. CASE OtherStep
    <2>1. UNCHANGED ledger
      BY <1>6
      DEF OtherStep, ReaperLooks, ReaperMisses, SettleLooks, ClaimLapses,
          DeadlinePasses, ClaimDue, SendPin, ServePin, PinAcknowledged, Stage,
          LoseClaim, Defer, AcquireCleanup, DeleteDisk, CompleteCleanup, vars,
          rows
    <2> QED BY <1>6, <2>1, RosterAccount
  <1> QED
    BY <1>1, <1>2, <1>3, <1>4, <1>5, <1>6 DEF Next, OtherStep

\* UnknownOutcomeNotReplayed: no worker ever runs after an attempt that may
\* have run commands and that nobody accounted for.
THEOREM RecoveryUnknownNotReplayed ==
    Spec => [](LedgerInv /\ UnknownOutcomeNotReplayed)
  <1>1. TypeOK /\ HoldInv /\ LedgerInv /\ [Next]_vars => LedgerInv'
    BY LedgerStep
  <1> QED
    BY <1>1, LedgerInit, LedgerAccounts, RecoveryTypeCorrect, RecoveryHoldsExact,
       PTL DEF Spec

-----------------------------------------------------------------------------
(***************************************************************************)
(* The Leases.                                                             *)
(***************************************************************************)

\* The pin of i is released, and a successor's is acknowledged.
Given(i) ==
    /\ pin[i].state = "released"
    /\ op[i].successor /= 0 => pin[op[i].successor].acked

\* A Lease stands behind each acknowledgement; the pin of an open operation is
\* active and that of a future one unwritten; and only a pin that was given
\* back has its Lease deleted, or a call under way that would delete it.
GuardInv ==
    /\ \A i \in Ops : pin[i].acked => lease[i] /= "never"
    /\ \A i \in Ops : Open(i) => pin[i].state = "active"
    /\ \A i \in Ops : op[i].phase = "none" => pin[i].state = "none"
    /\ \A i \in Ops :
         lease[i] = "deleted" \/ <<i, "released">> \in calls => Given(i)

LEMMA GuardNoGap == TypeOK /\ GuardInv => NoPinGap
  <1> SUFFICES ASSUME TypeOK, GuardInv, NEW i \in Ops, NEW n \in Ops, Open(n),
                      pin[i].acked, i = n \/ op[i].successor = n
               PROVE  Present /= {}
    BY DEF NoPinGap
  <1>1. \A k \in Ops : lease[k] \in {"never", "held", "deleted", "remade"}
    BY DEF TypeOK
  <1>2. pin[n].acked => n \in Present
    BY <1>1 DEF GuardInv, Given, Present
  <1>3. CASE i = n
    BY <1>2, <1>3
  <1>4. CASE op[i].successor = n
    <2>1. n /= 0 BY DEF Ops
    <2>2. lease[i] = "deleted" => pin[n].acked
      BY <1>4, <2>1 DEF GuardInv, Given
    <2>3. lease[i] /= "deleted" => i \in Present
      BY <1>1 DEF GuardInv, Present
    <2> QED BY <1>2, <2>2, <2>3
  <1> QED BY <1>3, <1>4

LEMMA GuardInit == Init => GuardInv
  BY DEF Init, GuardInv, Open

\* A step that leaves the controller, opens no operation and names no successor.
LEMMA GuardFrame ==
    ASSUME TypeOK, GuardInv, UNCHANGED controller,
           \A k \in Ops :
             /\ pin'[k].acked = pin[k].acked
             /\ op'[k].successor = op[k].successor
             /\ Open(k)' => Open(k) /\ pin'[k].state = pin[k].state
             /\ op'[k].phase = "none" =>
                  op[k].phase = "none" /\ pin'[k].state = pin[k].state
             /\ pin[k].state = "released" => pin'[k].state = "released"
    PROVE  GuardInv'
  <1>1. \A k \in Ops : op[k].successor \in Ops \cup {0}
    BY DEF TypeOK, Operation
  <1>2. \A k \in Ops : Given(k) => Given(k)'
    BY <1>1 DEF Given
  <1> QED
    BY <1>2 DEF GuardInv, controller

\* A write of a pin's state leaves the rest of the pins.
LEMMA PinStateWrite ==
    ASSUME TypeOK, NEW i \in Ops, NEW state,
           pin' = [pin EXCEPT ![i].state = state]
    PROVE  /\ pin'[i].state = state
           /\ \A k \in Ops : pin'[k].acked = pin[k].acked
           /\ \A k \in Ops \ {i} : pin'[k] = pin[k]
  <1>1. pin \in [Ops -> Pin]
    BY DEF TypeOK
  <1> QED
    BY <1>1 DEF Pin

LEMMA AdmitHoldGuard ==
    ASSUME TypeOK, GuardInv, NEW j \in Jobs, NEW attention,
           AdmitHold(j, attention), UNCHANGED controller
    PROVE  GuardInv'
  <1>0. op \in [Ops -> Operation]
    BY DEF TypeOK
  <1>1. PICK i \in Ops, how \in {"held", "attention"} :
          New(i) /\ HoldsAs(i, Members(j), how)
    <2> DEFINE how == IF attention \/ \E k \in Members(j) : Doubtful(k)
                      THEN "attention" ELSE "held"
    <2>1. \E i \in Ops : New(i) /\ HoldsAs(i, Members(j), how)
      BY DEF AdmitHold
    <2>2. how \in {"held", "attention"}
      OBVIOUS
    <2> HIDE DEF how
    <2> QED BY <2>1, <2>2
  <1>2. op[i].phase = "none" /\ pin[i].state = "none"
    BY <1>1 DEF New, GuardInv
  <1>3. /\ pin'[i].state = "active" /\ \A k \in Ops \ {i} : pin'[k] = pin[k]
        /\ \A k \in Ops : pin'[k].acked = pin[k].acked
    BY <1>1, PinStateWrite DEF HoldsAs
  <1>4. /\ op'[i].phase \in {"active", "attention"}
        /\ \A k \in Ops \ {i} : op'[k] = op[k]
        /\ \A k \in Ops : op'[k].successor = op[k].successor
    <2>1. op' = [op EXCEPT ![i] =
                   [op[i] EXCEPT !.phase = IF how = "held" THEN "active" ELSE how]]
      BY <1>1 DEF HoldsAs
    <2>2. \A o \in Operation, phase \in {"active", "attention"} :
             /\ [o EXCEPT !.phase = phase].phase = phase
             /\ [o EXCEPT !.phase = phase].successor = o.successor
      BY DEF Operation
    <2>3. (IF how = "held" THEN "active" ELSE how) \in {"active", "attention"}
      OBVIOUS
    <2> QED BY <1>0, <2>1, <2>2, <2>3
  <1>5. ~ Given(i) BY <1>2 DEF Given
  <1>6. \A k \in Ops : op[k].successor \in Ops \cup {0}
    BY <1>0 DEF Operation
  <1>7. \A k \in Ops \ {i} : Given(k) => Given(k)'
    BY <1>3, <1>4, <1>6 DEF Given
  <1>8. \A k \in Ops : lease'[k] = "deleted" \/ <<k, "released">> \in calls' => Given(k)'
    BY <1>5, <1>7 DEF GuardInv, controller
  <1>9. \A k \in Ops : Open(k)' => pin'[k].state = "active"
    BY <1>3, <1>4 DEF GuardInv, Open
  <1>10. \A k \in Ops : op'[k].phase = "none" => pin'[k].state = "none"
    BY <1>3, <1>4 DEF GuardInv
  <1>11. \A k \in Ops : pin'[k].acked => lease'[k] /= "never"
    BY <1>3 DEF GuardInv, controller
  <1> QED
    BY <1>8, <1>9, <1>10, <1>11 DEF GuardInv

LEMMA RetryGuard ==
    ASSUME TypeOK, GuardInv, NEW i \in Ops, Retry(i)
    PROVE  GuardInv'
  <1>0. op \in [Ops -> Operation] /\ pin \in [Ops -> Pin]
    BY DEF TypeOK
  <1>1. PICK n \in Ops :
          /\ op' = [op EXCEPT
               ![i] = [op[i] EXCEPT !.phase = "superseded", !.successor = n],
               ![n] = [@ EXCEPT !.phase = "active"]]
          /\ pin' = [pin EXCEPT ![i].state = "released", ![n].state = "active"]
          /\ New(n)
    BY DEF Retry
  <1>2. /\ op[i].phase = "attention" /\ op[n].phase = "none" /\ i /= n
        /\ UNCHANGED controller
    BY <1>1 DEF Retry, New
  <1>3. pin[i].state = "active" /\ pin[n].state = "none"
    BY <1>2 DEF GuardInv, Open
  <1>4. /\ op'[i] = [op[i] EXCEPT !.phase = "superseded", !.successor = n]
        /\ op'[n] = [op[n] EXCEPT !.phase = "active"]
        /\ \A k \in Ops \ {i, n} : op'[k] = op[k]
    BY <1>0, <1>1, <1>2
  <1>5. op'[i].phase = "superseded" /\ op'[n].phase = "active"
    BY <1>0, <1>4 DEF Operation
  <1>6. /\ pin'[i] = [pin[i] EXCEPT !.state = "released"]
        /\ pin'[n] = [pin[n] EXCEPT !.state = "active"]
        /\ \A k \in Ops \ {i, n} : pin'[k] = pin[k]
    BY <1>0, <1>1, <1>2
  <1>7. /\ pin'[n].state = "active"
        /\ \A k \in Ops : pin'[k].acked = pin[k].acked
    <2>1. pin[i] \in Pin /\ pin[n] \in Pin BY <1>0
    <2>2. /\ pin'[n].state = "active" /\ pin'[n].acked = pin[n].acked
          /\ pin'[i].acked = pin[i].acked
      BY <1>6, <2>1 DEF Pin
    <2> QED BY <1>6, <2>2
  <1>8. ~ Given(i) /\ ~ Given(n) BY <1>3 DEF Given
  <1>9. \A k \in Ops : op[k].successor \in Ops \cup {0}
    BY <1>0 DEF Operation
  <1>10. \A k \in Ops \ {i, n} : Given(k) => Given(k)'
    BY <1>4, <1>6, <1>7, <1>9 DEF Given
  <1>11. \A k \in Ops : lease'[k] = "deleted" \/ <<k, "released">> \in calls' => Given(k)'
    BY <1>2, <1>8, <1>10 DEF GuardInv, controller
  <1>12. \A k \in Ops : Open(k)' => pin'[k].state = "active"
    <2> SUFFICES ASSUME NEW k \in Ops, Open(k)' PROVE pin'[k].state = "active"
      OBVIOUS
    <2>1. k /= i BY <1>5 DEF Open
    <2>2. CASE k = n BY <1>7, <2>2
    <2>3. CASE k /= n
      <3>1. op'[k] = op[k] /\ pin'[k] = pin[k] BY <1>4, <1>6, <2>1, <2>3
      <3> QED BY <3>1 DEF GuardInv, Open
    <2> QED BY <2>2, <2>3
  <1>13. \A k \in Ops : op'[k].phase = "none" => pin'[k].state = "none"
    BY <1>4, <1>5, <1>6 DEF GuardInv
  <1>14. \A k \in Ops : pin'[k].acked => lease'[k] /= "never"
    BY <1>2, <1>7 DEF GuardInv, controller
  <1> QED
    BY <1>11, <1>12, <1>13, <1>14 DEF GuardInv

LEMMA CallGuard ==
    ASSUME TypeOK, GuardInv, NEW i \in Ops, NEW desired \in {"active", "released"},
           SendPin(i, desired) \/ ServePin(i, desired)
    PROVE  GuardInv'
  <1>0. /\ op \in [Ops -> Operation] /\ pin \in [Ops -> Pin]
        /\ lease \in [Ops -> {"never", "held", "deleted", "remade"}]
    BY DEF TypeOK
  <1>1. \A k \in Ops : op[k].successor \in Ops \cup {0}
    BY <1>0 DEF Operation
  <1>2. CASE SendPin(i, desired)
    <2>1. UNCHANGED <<op, pin, lease>> /\ calls' = calls \cup {<<i, desired>>}
      BY <1>2 DEF SendPin, store
    <2>2. desired = "released" => Given(i)
      BY <1>2 DEF SendPin, Superseded, Given
    <2>3. \A k \in Ops : Given(k) => Given(k)'
      BY <2>1 DEF Given
    <2>4. \A k \in Ops : <<k, "released">> \in calls' =>
             <<k, "released">> \in calls \/ (k = i /\ desired = "released")
      BY <2>1
    <2>5. \A k \in Ops : lease'[k] = "deleted" \/ <<k, "released">> \in calls' => Given(k)'
      BY <2>1, <2>2, <2>3, <2>4 DEF GuardInv
    <2> QED BY <2>1, <2>5 DEF GuardInv, Open
  <1>3. CASE ServePin(i, desired)
    <2>1. /\ UNCHANGED op /\ calls' \subseteq calls /\ <<i, desired>> \in calls
          /\ lease' = [lease EXCEPT ![i] =
                   IF desired = "released" THEN "deleted"
                   ELSE IF @ = "never" THEN "held"
                   ELSE IF @ = "deleted" THEN "remade" ELSE @]
          /\ \/ UNCHANGED pin
             \/ pin' = IF desired = "active" THEN [pin EXCEPT ![i].acked = TRUE]
                       ELSE [pin EXCEPT ![i].freed = TRUE]
      BY <1>3 DEF ServePin
    <2>2. /\ \A k \in Ops : pin'[k].state = pin[k].state
                            /\ (pin[k].acked => pin'[k].acked)
          /\ \A k \in Ops \ {i} : pin'[k] = pin[k]
      BY <1>0, <2>1 DEF Pin
    <2>3. /\ \A k \in Ops \ {i} : lease'[k] = lease[k]
          /\ lease'[i] /= "never"
          /\ lease'[i] = "deleted" => desired = "released"
      BY <1>0, <2>1
    <2>4. \A k \in Ops : Given(k) => Given(k)'
      BY <1>1, <2>1, <2>2 DEF Given
    <2>5. \A k \in Ops : lease'[k] = "deleted" \/ <<k, "released">> \in calls' => Given(k)'
      BY <2>1, <2>3, <2>4 DEF GuardInv
    <2>6. \A k \in Ops : pin'[k].acked => lease'[k] /= "never"
      BY <2>2, <2>3 DEF GuardInv
    <2> QED BY <2>1, <2>2, <2>5, <2>6 DEF GuardInv, Open
  <1> QED BY <1>2, <1>3

LEMMA CloseGuard ==
    ASSUME TypeOK, HoldInv, GuardInv,
           \/ \E j \in Jobs : CancelJob(j)
           \/ \E w \in Services : Release(w)
    PROVE  GuardInv'
  <1>0. op \in [Ops -> Operation] /\ pin \in [Ops -> Pin]
    BY DEF TypeOK
  <1>1. UNCHANGED controller
    BY DEF CancelJob, Release
  <1>2. \/ UNCHANGED <<op, pin>>
        \/ \E i \in Ops : Pauses(i) /\ Active(i) /\ UNCHANGED pin
        \/ \E i \in Ops, phase \in {"cancelled", "recovered"} :
             /\ op' = [op EXCEPT ![i] = Unclaimed(@, phase)]
             /\ pin' = [pin EXCEPT ![i].state = "released"]
    <2>1. CASE \E j \in Jobs : CancelJob(j)
      <3>1. PICK j \in Jobs : CancelJob(j) BY <2>1
      <3>2. CASE Fenced(j)
        <4> DEFINE l == CHOOSE k \in Ops : Standing(k, j)
        <4>1. l \in Ops BY <3>2 DEF Fenced
        <4>2. \/ op' = op /\ pin' = pin
              \/ /\ op' = [op EXCEPT ![l] = Unclaimed(@, "cancelled")]
                 /\ pin' = [pin EXCEPT ![l].state = "released"]
          BY <3>1, <3>2 DEF CancelJob
        <4> HIDE DEF l
        <4> QED BY <4>1, <4>2
      <3> QED BY <3>1, <3>2 DEF CancelJob, store
    <2>2. CASE \E w \in Services : Release(w)
      BY <2>2, ReleaseCases
    <2> QED BY <2>1, <2>2
  <1>3. CASE UNCHANGED <<op, pin>>
    BY <1>1, <1>3, GuardFrame DEF Open
  <1>4. ASSUME NEW i \in Ops, Pauses(i), Active(i), UNCHANGED pin
        PROVE  GuardInv'
    <2>1. \A k \in Ops : op'[k].successor = op[k].successor
      BY <1>0, <1>4 DEF Pauses, Unclaimed, Operation
    <2> QED BY <1>1, <1>4, <2>1, PausesParts, GuardFrame DEF Open, Active
  <1>5. ASSUME NEW i \in Ops, NEW phase \in {"cancelled", "recovered"},
               op' = [op EXCEPT ![i] = Unclaimed(@, phase)],
               pin' = [pin EXCEPT ![i].state = "released"]
        PROVE  GuardInv'
    <2>1. \A o \in Operation : /\ Unclaimed(o, phase).phase = phase
                               /\ Unclaimed(o, phase).successor = o.successor
      BY DEF Unclaimed, Operation
    <2>2. /\ op'[i].phase = phase /\ \A k \in Ops \ {i} : op'[k] = op[k]
          /\ \A k \in Ops : op'[k].successor = op[k].successor
      BY <1>0, <1>5, <2>1
    <2>3. /\ pin'[i].state = "released" /\ \A k \in Ops \ {i} : pin'[k] = pin[k]
          /\ \A k \in Ops : pin'[k].acked = pin[k].acked
      BY <1>5, PinStateWrite
    <2> QED BY <1>1, <2>2, <2>3, GuardFrame DEF Open
  <1> QED BY <1>2, <1>3, <1>4, <1>5

LEMMA GuardStep ==
    ASSUME TypeOK, HoldInv, GuardInv, [Next]_vars
    PROVE  GuardInv'
  <1>0. op \in [Ops -> Operation]
    BY DEF TypeOK
  <1>1. CASE \E j \in Jobs :
               \/ CreateChild(j) \/ EnqueueWorker(j) \/ ClaimWorker(j)
               \/ AuthorizeBundle(j) \/ RenewWorker(j) \/ LeaseLapses(j)
               \/ RequeueWorker(j) \/ ParkExhausted(j) \/ FinishWorker(j)
               \/ StopCooperatively(j) \/ SettleFinalizes(j)
               \/ SettleCompletes(j)
               \/ ReaperLooks(j) \/ ReaperMisses(j) \/ SettleLooks(j)
    <2>1. UNCHANGED <<op, pin, controller>>
      BY <1>1
      DEF CreateChild, EnqueueWorker, ClaimWorker, AuthorizeBundle, RenewWorker,
          RequeueWorker, ParkExhausted, FinishWorker, StopCooperatively, Dispose,
          LeaseLapses, SettleFinalizes, SettleCompletes, ReaperLooks,
          ReaperMisses, SettleLooks,
          store
    <2> QED BY <2>1, GuardFrame DEF Open
  <1>2. CASE \E j \in Jobs :
               \/ \E attention \in BOOLEAN : Report(j, attention)
               \/ ReaperHolds(j)
    BY <1>2, AdmitHoldGuard DEF Report, ReaperHolds
  <1>3. CASE \/ \E j \in Jobs : CancelJob(j)
             \/ \E w \in Services : Release(w)
    BY <1>3, CloseGuard
  <1>4. CASE \E i \in Ops : Retry(i)
    BY <1>4, RetryGuard
  <1>5. CASE \E i \in Ops, desired \in {"active", "released"} :
               SendPin(i, desired) \/ ServePin(i, desired)
    BY <1>5, CallGuard
  <1>6. CASE \/ PauseDisabled
             \/ \E i \in Ops : \/ ExpireDue(i) \/ ClaimLapses(i)
                               \/ DeadlinePasses(i)
                               \/ \E w \in Services : ClaimDue(w, i)
             \/ \E w \in Services : PauseForAttention(w) \/ Defer(w)
    <2>1. UNCHANGED <<pin, controller>>
      BY <1>6 DEF PauseDisabled, ExpireDue, ClaimLapses, DeadlinePasses,
                  ClaimDue, PauseForAttention, Defer
    <2>2. \E i \in Ops :
            \/ op' = [op EXCEPT ![i] = Unclaimed(op[i], "attention")] /\ Active(i)
            \/ op' = [op EXCEPT ![i] = Unclaimed(op[i], "active")] /\ Active(i)
            \/ op' = [op EXCEPT ![i] = [op[i] EXCEPT !.live = FALSE]]
            \/ op' = [op EXCEPT ![i] = [op[i] EXCEPT !.late = TRUE]]
            \/ \E w \in Services :
                 op' = [op EXCEPT
                          ![i] = [op[i] EXCEPT !.claimed = w, !.live = TRUE]]
      <3>1. \A w \in Services : PauseForAttention(w) \/ Defer(w) =>
               svc[w].op \in Ops /\ Active(svc[w].op)
        <4>1. \A w \in Services : svc[w].op \in Ops \cup {0} BY DEF TypeOK, Pass
        <4> QED BY <4>1 DEF PauseForAttention, Defer, Current
      <3>2. \A i \in Ops : Pauses(i) =>
               op' = [op EXCEPT ![i] = Unclaimed(op[i], "attention")]
        BY DEF Pauses
      <3>3. CASE PauseDisabled \/ \E i \in Ops : ExpireDue(i)
        BY <3>2, <3>3 DEF PauseDisabled, ExpireDue
      <3>4. CASE \E i \in Ops : ClaimLapses(i) \/ DeadlinePasses(i)
        BY <3>4 DEF ClaimLapses, DeadlinePasses
      <3>5. CASE \E i \in Ops, w \in Services : ClaimDue(w, i)
        BY <3>5 DEF ClaimDue
      <3>6. CASE \E w \in Services : PauseForAttention(w) \/ Defer(w)
        <4>1. PICK w \in Services : PauseForAttention(w) \/ Defer(w) BY <3>6
        <4>2. \/ Pauses(svc[w].op)
              \/ op' = [op EXCEPT ![svc[w].op] = Unclaimed(op[svc[w].op], "active")]
          BY <4>1 DEF PauseForAttention, Defer
        <4>3. svc[w].op \in Ops /\ Active(svc[w].op) BY <3>1, <4>1
        <4>4. CASE Pauses(svc[w].op) BY <3>2, <4>3, <4>4
        <4>5. CASE op' = [op EXCEPT ![svc[w].op] = Unclaimed(op[svc[w].op], "active")]
          BY <4>3, <4>5
        <4> QED BY <4>2, <4>4, <4>5
      <3> QED BY <1>6, <3>3, <3>4, <3>5, <3>6
    <2>3. \A k \in Ops :
            /\ op'[k].successor = op[k].successor
            /\ Open(k)' => Open(k)
            /\ op'[k].phase = "none" => op[k].phase = "none"
      <3>1. \A o \in Operation :
              /\ Unclaimed(o, "attention").phase = "attention"
              /\ Unclaimed(o, "active").phase = "active"
              /\ [o EXCEPT !.live = FALSE].phase = o.phase
              /\ [o EXCEPT !.late = TRUE].phase = o.phase
              /\ \A w \in Services :
                   [o EXCEPT !.claimed = w, !.live = TRUE].phase = o.phase
        BY DEF Unclaimed, Operation
      <3>2. \A o \in Operation :
              /\ Unclaimed(o, "attention").successor = o.successor
              /\ Unclaimed(o, "active").successor = o.successor
              /\ [o EXCEPT !.live = FALSE].successor = o.successor
              /\ [o EXCEPT !.late = TRUE].successor = o.successor
              /\ \A w \in Services :
                   [o EXCEPT !.claimed = w, !.live = TRUE].successor = o.successor
        BY DEF Unclaimed, Operation
      <3>3. \A i \in Ops : op[i] \in Operation BY DEF TypeOK
      <3>4. \E i \in Ops : \E o :
              /\ op' = [op EXCEPT ![i] = o]
              /\ o.successor = op[i].successor
              /\ \/ o.phase = op[i].phase
                 \/ Active(i) /\ o.phase \in {"active", "attention"}
        <4>1. PICK i \in Ops :
            \/ op' = [op EXCEPT ![i] = Unclaimed(op[i], "attention")] /\ Active(i)
            \/ op' = [op EXCEPT ![i] = Unclaimed(op[i], "active")] /\ Active(i)
            \/ op' = [op EXCEPT ![i] = [op[i] EXCEPT !.live = FALSE]]
            \/ op' = [op EXCEPT ![i] = [op[i] EXCEPT !.late = TRUE]]
            \/ \E w \in Services :
                 op' = [op EXCEPT
                          ![i] = [op[i] EXCEPT !.claimed = w, !.live = TRUE]]
          BY <2>2
        <4> DEFINE Keeps(o) ==
                     /\ o.successor = op[i].successor
                     /\ \/ o.phase = op[i].phase
                        \/ Active(i) /\ o.phase \in {"active", "attention"}
        <4>2. /\ Active(i) => Keeps(Unclaimed(op[i], "attention"))
              /\ Active(i) => Keeps(Unclaimed(op[i], "active"))
              /\ Keeps([op[i] EXCEPT !.live = FALSE])
              /\ Keeps([op[i] EXCEPT !.late = TRUE])
              /\ \A w \in Services :
                   Keeps([op[i] EXCEPT !.claimed = w, !.live = TRUE])
          <5>1. op[i] \in Operation BY <3>3
          <5>2. Active(i) => Keeps(Unclaimed(op[i], "attention"))
            BY <5>1, <3>1, <3>2
          <5>3. Active(i) => Keeps(Unclaimed(op[i], "active"))
            BY <5>1, <3>1, <3>2
          <5>4. Keeps([op[i] EXCEPT !.live = FALSE])
            BY <5>1 DEF Operation
          <5>5. Keeps([op[i] EXCEPT !.late = TRUE])
            BY <5>1 DEF Operation
          <5>6. \A w \in Services :
                  Keeps([op[i] EXCEPT !.claimed = w, !.live = TRUE])
            BY <5>1 DEF Operation
          <5> QED BY <5>2, <5>3, <5>4, <5>5, <5>6
        <4>3. \E o : op' = [op EXCEPT ![i] = o] /\ Keeps(o)
          <5> HIDE DEF Keeps
          <5> QED BY <4>1, <4>2, Zenon
        <4> QED BY <4>3
      <3>5. PICK i \in Ops :
            /\ \A k \in Ops \ {i} : op'[k] = op[k]
            /\ op'[i].successor = op[i].successor
            /\ \/ op'[i].phase = op[i].phase
               \/ Active(i) /\ op'[i].phase \in {"active", "attention"}
        <4>1. op \in [Ops -> Operation] BY DEF TypeOK
        <4> QED BY <3>4, <4>1
      <3> QED BY <3>5 DEF Open, Active
    <2> QED BY <2>1, <2>3, GuardFrame
  <1>7. CASE \/ \E w \in Services :
                  PinAcknowledged(w) \/ Stage(w) \/ LoseClaim(w)
             \/ AcquireCleanup \/ DeleteDisk \/ CompleteCleanup
             \/ UNCHANGED vars
    <2>1. UNCHANGED <<op, pin, controller>>
      BY <1>7
      DEF PinAcknowledged, Stage, LoseClaim, AcquireCleanup, DeleteDisk,
          CompleteCleanup, vars, store
    <2> QED BY <2>1, GuardFrame DEF Open
  <1> QED
    BY <1>1, <1>2, <1>3, <1>4, <1>5, <1>6, <1>7 DEF Next

\* NoPinGap: from the first acknowledgement on, some Lease guards the disk of
\* an open operation, in whatever order the controller serves calls.
THEOREM RecoveryNoPinGap == Spec => [](GuardInv /\ NoPinGap)
  <1>1. TypeOK /\ HoldInv /\ GuardInv /\ [Next]_vars => GuardInv'
    BY GuardStep
  <1> QED
    BY <1>1, GuardInit, GuardNoGap, RecoveryTypeCorrect, RecoveryHoldsExact,
       PTL DEF Spec
=============================================================================
