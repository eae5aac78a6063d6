---------------------- MODULE WorkspaceRecoveryProofs ----------------------
(***************************************************************************)
(* What holds of the recovery of a workspace for any number of jobs,       *)
(* reconcilers, lease tokens and operations.                               *)
(***************************************************************************)
EXTENDS WorkspaceRecovery, TLAPS

Lapsed == lapsed \in SUBSET {j \in Jobs : unit[j].state = "leased"}

\* The tables, without what TypeOK says of the rest.
Tables ==
    /\ unit \in [Jobs -> Unit] /\ Lapsed /\ job \in [Jobs -> Job]
    /\ ledger \in [Jobs -> [Tokens -> Evidence]]
    /\ op \in [Ops -> Operation] /\ pin \in [Ops -> Pin]
    /\ part \in [Ops -> [Jobs -> Participant]]

Processes ==
    /\ lease \in [Ops -> {"never", "held", "deleted", "remade"}]
    /\ calls \in SUBSET (Ops \X {"active", "released"})
    /\ svc \in [Services -> Pass] /\ scan \in [Jobs -> 0..MaxToken]
    /\ settling \in SUBSET Jobs /\ permit \in BOOLEAN /\ disk \in BOOLEAN

LEMMA TypeParts == TypeOK <=> Tables /\ Processes
  BY DEF TypeOK, Tables, Processes, Lapsed

LEMMA TypeInit == Init => TypeOK
  <1> SUFFICES ASSUME Init PROVE TypeOK
    OBVIOUS
  <1> USE RecoveryConstants
  <1>1. unit \in [Jobs -> Unit] /\ Lapsed /\ job \in [Jobs -> Job]
    BY DEF Init, Unit, Job, Lapsed
  <1>2. ledger \in [Jobs -> [Tokens -> Evidence]]
    BY DEF Init, Evidence
  <1>3. op \in [Ops -> Operation] /\ pin \in [Ops -> Pin]
    BY DEF Init, Operation, Pin
  <1>4. part \in [Ops -> [Jobs -> Participant]]
    BY DEF Init, Participant
  <1>5. /\ lease \in [Ops -> {"never", "held", "deleted", "remade"}]
        /\ scan \in [Jobs -> 0..MaxToken]
    BY DEF Init
  <1>6. svc \in [Services -> Pass]
    BY DEF Init, Pass, Idle
  <1>7. calls = {} /\ settling = {} /\ permit = FALSE /\ disk = TRUE
    BY DEF Init
  <1>8. Processes
    BY <1>5, <1>6, <1>7 DEF Processes
  <1> QED
    BY <1>1, <1>2, <1>3, <1>4, <1>8, TypeParts DEF Tables

-----------------------------------------------------------------------------

\* A participant that is marked stays one.
LEMMA MarkedType ==
    ASSUME part \in [Ops -> [Jobs -> Participant]], NEW i \in Ops,
           NEW how \in {"held", "attention", "released", "transferred"}
    PROVE  Marked(i, how) \in [Jobs -> Participant]
  <1>1. \A j \in Jobs : part[i][j] \in Participant
    OBVIOUS
  <1>2. \A p \in Participant : [p EXCEPT !.how = how] \in Participant
    BY DEF Participant
  <1> QED
    BY <1>1, <1>2 DEF Marked

LEMMA PausesType ==
    ASSUME Tables, NEW i \in Ops, Pauses(i)
    PROVE  /\ op' \in [Ops -> Operation]
           /\ part' \in [Ops -> [Jobs -> Participant]]
  <1>1. op \in [Ops -> Operation] /\ part \in [Ops -> [Jobs -> Participant]]
    BY DEF Tables
  <1>2. op' = [op EXCEPT ![i] = [op[i] EXCEPT !.phase = "attention",
                                   !.claimed = NoService, !.live = FALSE]]
    BY DEF Pauses, Unclaimed
  <1>3. part' = [part EXCEPT ![i] = Marked(i, "attention")]
    BY DEF Pauses
  <1>4. op' \in [Ops -> Operation]
    BY <1>1, <1>2 DEF Operation
  <1>5. part' \in [Ops -> [Jobs -> Participant]]
    <2>1. Marked(i, "attention") \in [Jobs -> Participant]
      BY <1>1, MarkedType
    <2> QED BY <1>1, <1>3, <2>1
  <1> QED BY <1>4, <1>5

\* An attempt that is recorded leaves the ledger a ledger; a row that never had
\* a token has no attempt to write.
LEMMA LedgerWrite ==
    ASSUME ledger \in [Jobs -> [Tokens -> Evidence]], NEW j \in Jobs,
           NEW t, NEW e, t \in Tokens => e \in Evidence
    PROVE  [ledger EXCEPT ![j][t] = e] \in [Jobs -> [Tokens -> Evidence]]
  <1>1. [ledger[j] EXCEPT ![t] = e] \in [Tokens -> Evidence]
    OBVIOUS
  <1> QED
    BY <1>1

\* What a worker's step writes.
LEMMA WorkerType ==
    ASSUME Tables, NEW j \in Jobs,
           CreateChild(j) \/ EnqueueWorker(j) \/ ClaimWorker(j)
             \/ AuthorizeBundle(j) \/ RenewWorker(j) \/ LeaseLapses(j)
    PROVE  Tables'
  <1>0. /\ unit \in [Jobs -> Unit] /\ job \in [Jobs -> Job] /\ Lapsed
        /\ ledger \in [Jobs -> [Tokens -> Evidence]]
    BY DEF Tables
  <1>1. CASE CreateChild(j)
    <2>1. job' = [job EXCEPT ![j].status = "created"] BY <1>1 DEF CreateChild
    <2>2. job' \in [Jobs -> Job] BY <1>0, <2>1 DEF Job
    <2> QED BY <1>1, <2>2 DEF CreateChild, Tables, Lapsed, store
  <1>2. CASE EnqueueWorker(j)
    <2>1. /\ unit' = [unit EXCEPT ![j].state = "queued"]
          /\ unit[j].state /= "leased"
      BY <1>2 DEF EnqueueWorker
    <2>2. unit' \in [Jobs -> Unit] BY <1>0, <2>1 DEF Unit
    <2>3. Lapsed' BY <1>0, <1>2, <2>1 DEF EnqueueWorker, Lapsed
    <2> QED BY <1>2, <2>2, <2>3 DEF EnqueueWorker, Tables, store
  <1>3. CASE ClaimWorker(j)
    <2> DEFINE t == unit[j].token + 1
    <2>1. unit[j].state /= "leased" /\ unit[j].token < MaxToken
      BY <1>3 DEF ClaimWorker
    <2>2. t \in 0..MaxToken /\ t \in Tokens
      BY <1>0, <2>1, RecoveryConstants DEF Unit, Tokens
    <2>3. \E s \in {"leased", "done"} :
            unit' = [unit EXCEPT ![j] =
                       [state |-> s, token |-> t]]
      BY <1>3 DEF ClaimWorker
    <2>4. job' = [job EXCEPT ![j].status = "processing"] \/ job' = job
      BY <1>3 DEF ClaimWorker
    <2>5. ledger' = [ledger EXCEPT ![j][t] = "claimed"] \/ ledger' = ledger
      BY <1>3 DEF ClaimWorker
    <2>6. unit' \in [Jobs -> Unit] BY <1>0, <2>2, <2>3 DEF Unit
    <2>7. Lapsed' BY <1>0, <1>3, <2>1, <2>3 DEF ClaimWorker, Lapsed
    <2>8. job' \in [Jobs -> Job] BY <1>0, <2>4 DEF Job
    <2>9. ledger' \in [Jobs -> [Tokens -> Evidence]]
      <3>1. "claimed" \in Evidence BY DEF Evidence
      <3> QED BY <1>0, <2>5, <3>1, LedgerWrite
    <2> QED BY <1>3, <2>6, <2>7, <2>8, <2>9 DEF ClaimWorker, Tables, store
  <1>4. CASE AuthorizeBundle(j)
    <2>1. ledger' = [ledger EXCEPT ![j][unit[j].token] = "authorized"]
      BY <1>4 DEF AuthorizeBundle
    <2>2. ledger' \in [Jobs -> [Tokens -> Evidence]]
      <3>1. "authorized" \in Evidence BY DEF Evidence
      <3> QED BY <1>0, <2>1, <3>1, LedgerWrite
    <2> QED BY <1>4, <2>2 DEF AuthorizeBundle, Tables, Lapsed, store
  <1>5. CASE RenewWorker(j)
    BY <1>5 DEF RenewWorker, Tables, Lapsed, store
  <1>6. CASE LeaseLapses(j)
    BY <1>6 DEF LeaseLapses, Holding, Tables, Lapsed, store
  <1> QED BY <1>1, <1>2, <1>3, <1>4, <1>5, <1>6

LEMMA DisposeType ==
    ASSUME Tables, NEW j \in Jobs, NEW to \in {"queued", "parked", "done"},
           NEW status \in {"none", "created", "processing", "paused",
                           "cancelled", "completed"},
           Dispose(j, to, status)
    PROVE  Tables'
  <1>0. /\ unit \in [Jobs -> Unit] /\ job \in [Jobs -> Job] /\ Lapsed
        /\ ledger \in [Jobs -> [Tokens -> Evidence]]
    BY DEF Tables
  <1>1. /\ unit' = [unit EXCEPT ![j].state = to]
        /\ job' = [job EXCEPT ![j].status = status]
        /\ lapsed' = lapsed \ {j}
    BY DEF Dispose, ClearsExpiry
  <1>2. \E e \in {"settled", ledger[j][unit[j].token]} :
           ledger' = [ledger EXCEPT ![j][unit[j].token] = e]
    BY DEF Dispose
  <1>3. unit' \in [Jobs -> Unit] BY <1>0, <1>1 DEF Unit
  <1>4. Lapsed' BY <1>0, <1>1 DEF Lapsed
  <1>5. job' \in [Jobs -> Job] BY <1>0, <1>1 DEF Job
  <1>6. ledger' \in [Jobs -> [Tokens -> Evidence]]
    <2>1. PICK e \in {"settled", ledger[j][unit[j].token]} :
             ledger' = [ledger EXCEPT ![j][unit[j].token] = e]
      BY <1>2
    <2>2. unit[j].token \in Tokens => e \in Evidence
      BY <1>0, <2>1 DEF Evidence
    <2> QED BY <1>0, <2>1, <2>2, LedgerWrite
  <1> QED BY <1>3, <1>4, <1>5, <1>6 DEF Dispose, Tables, store

LEMMA AdmitHoldParts ==
    ASSUME NEW j \in Jobs, NEW attention, AdmitHold(j, attention)
    PROVE  /\ \E i \in Ops, how \in {"held", "attention"} :
                HoldsAs(i, Members(j), how)
           /\ ~ permit /\ \A k \in Ops : ~ Open(k)
  <1> DEFINE how == IF attention \/ \E k \in Members(j) : Doubtful(k)
                    THEN "attention" ELSE "held"
  <1>1. \E i \in Ops : HoldsAs(i, Members(j), how)
    BY DEF AdmitHold
  <1>2. how \in {"held", "attention"}
    OBVIOUS
  <1> HIDE DEF how
  <1> QED BY <1>1, <1>2 DEF AdmitHold, NoCleanup

\* What a hold writes has the types of the tables.
LEMMA AdmitHoldType ==
    ASSUME Tables, NEW j \in Jobs, NEW attention, AdmitHold(j, attention)
    PROVE  Tables'
  <1>0. /\ unit \in [Jobs -> Unit] /\ job \in [Jobs -> Job] /\ Lapsed
        /\ ledger \in [Jobs -> [Tokens -> Evidence]]
        /\ op \in [Ops -> Operation] /\ pin \in [Ops -> Pin]
        /\ part \in [Ops -> [Jobs -> Participant]]
    BY DEF Tables
  <1> DEFINE who == Members(j)
  <1>1. PICK i \in Ops, how \in {"held", "attention"} : HoldsAs(i, who, how)
    BY AdmitHoldParts
  <1>3. \A k \in Jobs : unit[k] \in Unit /\ job[k] \in Job /\ part[i][k] \in Participant
    BY <1>0
  <1>4. \A k \in Jobs : k \in who => unit[k].token + 1 \in 0..MaxToken
    <2> SUFFICES ASSUME NEW k \in Jobs, k \in who
                 PROVE  unit[k].token + 1 \in 0..MaxToken
      OBVIOUS
    <2>1. unit[k].token \in 0..MaxToken BY <1>3 DEF Unit
    <2>2. unit[k].token < MaxToken BY <1>1 DEF HoldsAs
    <2> HIDE DEF who
    <2> QED BY <2>1, <2>2, RecoveryConstants
  <1>5. op' \in [Ops -> Operation]
    <2>1. PICK phase \in {"active", "attention"} :
             op' = [op EXCEPT ![i].phase = phase]
      BY <1>1 DEF HoldsAs
    <2> QED BY <1>0, <2>1 DEF Operation
  <1>6. pin' \in [Ops -> Pin]
    BY <1>0, <1>1 DEF HoldsAs, Pin
  <1>7. part' \in [Ops -> [Jobs -> Participant]]
    <2>1. \A k \in Jobs : Safe(k) \in BOOLEAN
      BY DEF Safe, NeverStarted
    <2>2. \A k \in Jobs : k \in who =>
            [how |-> how, token |-> unit[k].token + 1, safe |-> Safe(k),
             fresh |-> job[k].status = "created"] \in Participant
      BY <1>4, <2>1 DEF Participant
    <2>3. part'[i] \in [Jobs -> Participant]
      BY <1>0, <1>1, <1>3, <2>2 DEF HoldsAs
    <2> QED BY <1>0, <1>1, <2>3 DEF HoldsAs
  <1>8. unit' \in [Jobs -> Unit]
    <2>1. \A k \in Jobs : k \in who =>
            [state |-> "parked", token |-> unit[k].token + 1] \in Unit
      BY <1>4 DEF Unit
    <2> QED BY <1>1, <1>3, <2>1 DEF HoldsAs
  <1>9. Lapsed'
    BY <1>0, <1>1 DEF HoldsAs, ClearsExpiry, Lapsed
  <1>10. job' \in [Jobs -> Job]
    <2>1. \A k \in Jobs : [job[k] EXCEPT !.status = "paused", !.freeze = i] \in Job
      BY <1>3 DEF Job
    <2> QED BY <1>1, <1>3, <2>1 DEF HoldsAs
  <1>11. ledger' \in [Jobs -> [Tokens -> Evidence]]
    BY <1>0, <1>1 DEF HoldsAs, Evidence
  <1> QED BY <1>5, <1>6, <1>7, <1>8, <1>9, <1>10, <1>11 DEF Tables

\* What the operator and the settle loop write.
LEMMA RetryType ==
    ASSUME Tables, NEW i \in Ops, Retry(i)
    PROVE  Tables'
  <1>0. /\ job \in [Jobs -> Job] /\ op \in [Ops -> Operation]
        /\ pin \in [Ops -> Pin] /\ part \in [Ops -> [Jobs -> Participant]]
    BY DEF Tables
  <1>1. PICK n \in Ops :
          /\ op' = [op EXCEPT
               ![i] = [op[i] EXCEPT !.phase = "superseded", !.successor = n],
               ![n] = [@ EXCEPT !.phase = "active"]]
          /\ part' = [part EXCEPT
               ![i] = Marked(i, "transferred"),
               ![n] = [j \in Jobs |-> IF Standing(i, j)
                         THEN [part[i][j] EXCEPT !.how = "held"] ELSE part[n][j]]]
          /\ TransfersFreeze(i, n)
          /\ pin' = [pin EXCEPT ![i].state = "released", ![n].state = "active"]
    BY DEF Retry
  <1>2. op' \in [Ops -> Operation]
    <2>1. [op[i] EXCEPT !.phase = "superseded", !.successor = n] \in Operation
      BY <1>0 DEF Operation
    <2>2. \A o \in Operation : [o EXCEPT !.phase = "active"] \in Operation
      BY DEF Operation
    <2>3. \A k \in Ops : op'[k] \in Operation
      BY <1>0, <1>1, <2>1, <2>2
    <2> QED BY <1>0, <1>1, <2>3
  <1>3. part' \in [Ops -> [Jobs -> Participant]]
    <2>1. Marked(i, "transferred") \in [Jobs -> Participant]
      BY <1>0, MarkedType
    <2>2. \A p \in Participant : [p EXCEPT !.how = "held"] \in Participant
      BY DEF Participant
    <2>3. [j \in Jobs |-> IF Standing(i, j)
             THEN [part[i][j] EXCEPT !.how = "held"] ELSE part[n][j]]
             \in [Jobs -> Participant]
      BY <1>0, <2>2
    <2> QED BY <1>0, <1>1, <2>1, <2>3
  <1>4. job' \in [Jobs -> Job]
    <2>1. \A r \in Job : [r EXCEPT !.freeze = n] \in Job
      BY DEF Job
    <2> QED BY <1>0, <1>1, <2>1 DEF TransfersFreeze
  <1>5. pin' \in [Ops -> Pin]
    <2>1. \A p \in Pin : /\ [p EXCEPT !.state = "released"] \in Pin
                         /\ [p EXCEPT !.state = "active"] \in Pin
      BY DEF Pin
    <2>2. \A k \in Ops : pin'[k] \in Pin
      BY <1>0, <1>1, <2>1
    <2> QED BY <1>0, <1>1, <2>2
  <1> QED BY <1>2, <1>3, <1>4, <1>5 DEF Retry, Tables, Lapsed

\* A row that waits is closed, and no other.
LEMMA CloseType ==
    ASSUME unit \in [Jobs -> Unit], Lapsed, NEW j \in Jobs,
           unit' = [unit EXCEPT ![j].state =
                      IF @ \in {"queued", "parked"} THEN "done" ELSE @],
           lapsed' = lapsed
    PROVE  unit' \in [Jobs -> Unit] /\ Lapsed'
  <1>1. \A r \in Unit :
           [r EXCEPT !.state = IF r.state \in {"queued", "parked"} THEN "done"
                               ELSE r.state] \in Unit
    BY DEF Unit
  <1>2. unit' = [unit EXCEPT ![j] =
           [unit[j] EXCEPT !.state =
              IF unit[j].state \in {"queued", "parked"} THEN "done"
              ELSE unit[j].state]]
    OBVIOUS
  <1>3. unit' \in [Jobs -> Unit]
    BY <1>1, <1>2
  <1>4. \A k \in Jobs : unit[k].state = "leased" => unit'[k].state = "leased"
    <2>1. \A r \in Unit : r.state = "leased" =>
           [r EXCEPT !.state = IF r.state \in {"queued", "parked"} THEN "done"
                               ELSE r.state].state = "leased"
      BY DEF Unit
    <2> QED BY <1>2, <2>1
  <1> QED BY <1>3, <1>4 DEF Lapsed

LEMMA CancelType ==
    ASSUME Tables, NEW j \in Jobs, CancelJob(j)
    PROVE  Tables'
  <1>0. /\ unit \in [Jobs -> Unit] /\ Lapsed
        /\ job \in [Jobs -> Job] /\ op \in [Ops -> Operation]
        /\ pin \in [Ops -> Pin] /\ part \in [Ops -> [Jobs -> Participant]]
    BY DEF Tables
  <1>1. /\ unit' = [unit EXCEPT ![j].state =
                     IF @ \in {"queued", "parked"} THEN "done" ELSE @]
        /\ lapsed' = lapsed
    BY DEF CancelJob
  <1>2. PICK f \in {0, job[j].freeze} :
          job' = [job EXCEPT ![j] =
                    [status |-> "cancelled", marker |-> TRUE, freeze |-> f]]
    BY DEF CancelJob
  <1>3. unit' \in [Jobs -> Unit] /\ Lapsed'
    BY <1>0, <1>1, CloseType
  <1>5. job' \in [Jobs -> Job] BY <1>0, <1>2 DEF Job
  <1>6. CASE Fenced(j)
    <2> DEFINE i == CHOOSE k \in Ops : Standing(k, j)
    <2>1. i \in Ops BY <1>6 DEF Fenced
    <2>2. part' = [part EXCEPT ![i] = [part[i] EXCEPT ![j].how = "cancelled"]]
      BY <1>6 DEF CancelJob
    <2>3. op' = op \/ op' = [op EXCEPT ![i] =
             [op[i] EXCEPT !.phase = "cancelled", !.claimed = NoService,
                           !.live = FALSE]]
      BY <1>6 DEF CancelJob, Unclaimed
    <2>4. pin' = pin \/ pin' = [pin EXCEPT ![i].state = "released"]
      BY <1>6 DEF CancelJob
    <2> HIDE DEF i
    <2>5. part' \in [Ops -> [Jobs -> Participant]]
      <3>1. [part[i] EXCEPT ![j].how = "cancelled"] \in [Jobs -> Participant]
        BY <1>0, <2>1 DEF Participant
      <3> QED BY <1>0, <2>1, <2>2, <3>1
    <2>6. op' \in [Ops -> Operation]
      <3>1. [op[i] EXCEPT !.phase = "cancelled", !.claimed = NoService,
                          !.live = FALSE] \in Operation
        <4>1. op[i] \in Operation BY <1>0, <2>1
        <4>2. \A o \in Operation :
                [o EXCEPT !.phase = "cancelled", !.claimed = NoService,
                          !.live = FALSE] \in Operation
          BY DEF Operation
        <4> QED BY <4>1, <4>2
      <3> QED BY <1>0, <2>1, <2>3, <3>1
    <2>7. pin' \in [Ops -> Pin] BY <1>0, <2>1, <2>4 DEF Pin
    <2> QED BY <1>3, <1>5, <2>5, <2>6, <2>7 DEF CancelJob, Tables
  <1>7. CASE ~ Fenced(j)
    BY <1>3, <1>5, <1>7 DEF CancelJob, Tables, store
  <1> QED BY <1>6, <1>7

LEMMA SettleType ==
    ASSUME Tables, NEW j \in Jobs, SettleFinalizes(j) \/ SettleCompletes(j)
    PROVE  Tables'
  <1>0. unit \in [Jobs -> Unit] /\ Lapsed /\ job \in [Jobs -> Job]
    BY DEF Tables
  <1>1. CASE SettleFinalizes(j)
    <2>1. /\ unit' = [unit EXCEPT ![j].state =
                       IF @ \in {"queued", "parked"} THEN "done" ELSE @]
          /\ lapsed' = lapsed
      BY <1>1 DEF SettleFinalizes
    <2>2. unit' \in [Jobs -> Unit] /\ Lapsed' BY <1>0, <2>1, CloseType
    <2> QED BY <1>1, <2>2 DEF SettleFinalizes, Tables, store
  <1>2. CASE SettleCompletes(j)
    <2>1. PICK m \in BOOLEAN : job' = [job EXCEPT ![j].marker = m]
      BY <1>0, <1>2 DEF SettleCompletes
    <2>2. job' \in [Jobs -> Job] BY <1>0, <2>1 DEF Job
    <2> QED BY <1>2, <2>2 DEF SettleCompletes, Tables, Lapsed, store
  <1> QED BY <1>1, <1>2

\* What a reconciler writes, and time and the controller's answers.
LEMMA ReleaseType ==
    ASSUME Tables, Processes, NEW w \in Services, Release(w)
    PROVE  Tables'
  <1>0. /\ unit \in [Jobs -> Unit] /\ job \in [Jobs -> Job] /\ Lapsed
        /\ op \in [Ops -> Operation] /\ pin \in [Ops -> Pin]
        /\ part \in [Ops -> [Jobs -> Participant]]
    BY DEF Tables
  <1>1. svc[w].op \in Ops
    <2>1. svc[w].op \in Ops \cup {0} BY DEF Processes, Pass
    <2> QED BY <2>1 DEF Release, Current
  <1> DEFINE i == svc[w].op
             who == {j \in Jobs : Standing(i, j)}
  <1>2. CASE Pauses(i) /\ UNCHANGED <<unit, job, pin>>
    <2>1. /\ op' \in [Ops -> Operation]
          /\ part' \in [Ops -> [Jobs -> Participant]]
      BY <1>1, <1>2, PausesType
    <2> QED BY <1>2, <2>1 DEF Release, Tables, Lapsed
  <1>3. CASE
      /\ \A j \in Jobs : j \in who => unit[j].state = "parked"
      /\ unit' = [j \in Jobs |->
                    IF j \in who THEN [unit[j] EXCEPT !.state = "queued"]
                                 ELSE unit[j]]
      /\ job' = [j \in Jobs |->
                    IF j \in who
                    THEN [job[j] EXCEPT !.freeze = 0,
                            !.status = IF part[i][j].fresh THEN "created"
                                       ELSE @]
                    ELSE job[j]]
      /\ part' = [part EXCEPT ![i] = Marked(i, "released")]
      /\ pin' = [pin EXCEPT ![i].state = "released"]
      /\ op' = [op EXCEPT ![i] = Unclaimed(@, "recovered")]
    <2>1. \A r \in Unit : [r EXCEPT !.state = "queued"] \in Unit
      BY DEF Unit
    <2>2. \A r \in Job, fresh \in BOOLEAN :
             [r EXCEPT !.freeze = 0,
                !.status = IF fresh THEN "created" ELSE r.status] \in Job
      BY DEF Job
    <2>3. \A o \in Operation : Unclaimed(o, "recovered") \in Operation
      BY DEF Unclaimed, Operation
    <2>4. unit' \in [Jobs -> Unit] BY <1>0, <1>1, <1>3, <2>1
    <2>5. Lapsed' BY <1>0, <1>1, <1>3 DEF Release, Lapsed
    <2>6. job' \in [Jobs -> Job]
      <3>1. \A j \in Jobs :
               [job[j] EXCEPT !.freeze = 0,
                  !.status = IF part[i][j].fresh THEN "created" ELSE @] \in Job
        <4>1. \A j \in Jobs : job[j] \in Job /\ part[i][j].fresh \in BOOLEAN
          BY <1>0, <1>1 DEF Participant
        <4> QED BY <2>2, <4>1
      <3> QED BY <1>0, <1>1, <1>3, <3>1
    <2>7. part' \in [Ops -> [Jobs -> Participant]]
      <3>1. Marked(i, "released") \in [Jobs -> Participant]
        BY <1>0, <1>1, MarkedType
      <3> QED BY <1>0, <1>1, <1>3, <3>1
    <2>8. pin' \in [Ops -> Pin] BY <1>0, <1>1, <1>3 DEF Pin
    <2>9. op' \in [Ops -> Operation] BY <1>0, <1>1, <1>3, <2>3
    <2> QED BY <2>4, <2>5, <2>6, <2>7, <2>8, <2>9 DEF Release, Tables
  <1> QED BY <1>2, <1>3 DEF Release, Projected

LEMMA ReconcilerType ==
    ASSUME Tables, Processes, NEW w \in Services,
           \/ \E i \in Ops : ClaimDue(w, i)
           \/ Defer(w) \/ PauseForAttention(w)
    PROVE  Tables'
  <1>0. op \in [Ops -> Operation] /\ part \in [Ops -> [Jobs -> Participant]]
    BY DEF Tables
  <1>1. \A o \in Operation :
          /\ [o EXCEPT !.claimed = w, !.live = TRUE] \in Operation
          /\ Unclaimed(o, "active") \in Operation
    BY DEF Unclaimed, Operation
  <1>2. CASE \E i \in Ops : ClaimDue(w, i)
    <2>1. PICK i \in Ops : ClaimDue(w, i) BY <1>2
    <2>2. op' = [op EXCEPT ![i] = [@ EXCEPT !.claimed = w, !.live = TRUE]]
      BY <2>1 DEF ClaimDue
    <2>3. op' \in [Ops -> Operation] BY <1>0, <1>1, <2>2
    <2> QED BY <2>1, <2>3 DEF ClaimDue, Tables, Lapsed, rows
  <1>3. CASE Defer(w) \/ PauseForAttention(w)
    <2>1. svc[w].op \in Ops
      <3>1. svc[w].op \in Ops \cup {0} BY DEF Processes, Pass
      <3> QED BY <1>3, <3>1 DEF Defer, PauseForAttention, Current
    <2>2. \/ Pauses(svc[w].op)
          \/ /\ op' = [op EXCEPT ![svc[w].op] = Unclaimed(@, "active")]
             /\ part' = part
      BY <1>3 DEF Defer, PauseForAttention
    <2>3. /\ op' \in [Ops -> Operation]
          /\ part' \in [Ops -> [Jobs -> Participant]]
      BY <1>0, <1>1, <2>1, <2>2, PausesType
    <2> QED BY <1>3, <2>3 DEF Defer, PauseForAttention, Tables, Lapsed, rows
  <1> QED BY <1>2, <1>3

LEMMA OperationType ==
    ASSUME Tables, Processes, NEW i \in Ops,
           \/ ExpireDue(i) \/ ClaimLapses(i) \/ DeadlinePasses(i)
           \/ Active(i) /\ Pauses(i) /\ UNCHANGED <<rows, pin>>
           \/ \E desired \in {"active", "released"} :
                SendPin(i, desired) \/ ServePin(i, desired)
    PROVE  Tables'
  <1>0. /\ op \in [Ops -> Operation] /\ part \in [Ops -> [Jobs -> Participant]]
        /\ pin \in [Ops -> Pin]
    BY DEF Tables
  <1>1. CASE ExpireDue(i) \/ (Active(i) /\ Pauses(i) /\ UNCHANGED <<rows, pin>>)
    <2>1. Pauses(i) /\ UNCHANGED <<rows, pin>> BY <1>1 DEF ExpireDue
    <2> QED BY <2>1, PausesType DEF Tables, Lapsed, rows
  <1>2. CASE ClaimLapses(i)
    <2>1. op' \in [Ops -> Operation]
      BY <1>0, <1>2 DEF ClaimLapses, Operation
    <2> QED BY <1>2, <2>1 DEF ClaimLapses, Tables, Lapsed, rows
  <1>3. CASE DeadlinePasses(i)
    <2>1. op' \in [Ops -> Operation]
      BY <1>0, <1>3 DEF DeadlinePasses, Operation
    <2> QED BY <1>3, <2>1 DEF DeadlinePasses, Tables, Lapsed, rows
  <1>4. CASE \E desired \in {"active", "released"} : SendPin(i, desired)
    BY <1>4 DEF SendPin, Tables, Lapsed, rows, store
  <1>5. CASE \E desired \in {"active", "released"} : ServePin(i, desired)
    <2>1. \/ pin' = pin
          \/ pin' = [pin EXCEPT ![i].acked = TRUE]
          \/ pin' = [pin EXCEPT ![i].freed = TRUE]
      BY <1>5 DEF ServePin
    <2>2. pin' \in [Ops -> Pin] BY <1>0, <2>1 DEF Pin
    <2> QED BY <1>5, <2>2 DEF ServePin, Tables, Lapsed, rows
  <1> QED BY <1>1, <1>2, <1>3, <1>4, <1>5

-----------------------------------------------------------------------------

\* A step of a reconciler moves its own pass to a stage of its own.
LEMMA PassType ==
    ASSUME svc \in [Services -> Pass], NEW w \in Services,
           \/ Ends(w) \/ Steps(w, "pinned") \/ Steps(w, "attesting")
           \/ \E i \in Ops : svc' = [svc EXCEPT ![w] = [op |-> i, stage |-> "claimed"]]
    PROVE  svc' \in [Services -> Pass]
  <1>1. CASE Ends(w) BY <1>1 DEF Ends, Idle, Pass
  <1>2. CASE Steps(w, "pinned") BY <1>2 DEF Steps, Pass
  <1>3. CASE Steps(w, "attesting") BY <1>3 DEF Steps, Pass
  <1>4. CASE \E i \in Ops :
               svc' = [svc EXCEPT ![w] = [op |-> i, stage |-> "claimed"]]
    BY <1>4 DEF Pass
  <1> QED BY <1>1, <1>2, <1>3, <1>4

LEMMA ProcessesStep ==
    ASSUME Tables, Processes, [Next]_vars
    PROVE  Processes'
  <1>0. /\ lease \in [Ops -> {"never", "held", "deleted", "remade"}]
        /\ calls \in SUBSET (Ops \X {"active", "released"})
        /\ svc \in [Services -> Pass] /\ scan \in [Jobs -> 0..MaxToken]
        /\ settling \in SUBSET Jobs /\ permit \in BOOLEAN /\ disk \in BOOLEAN
    BY DEF Processes
  <1>1. \A j \in Jobs : unit[j].token \in 0..MaxToken
    BY DEF Tables, Unit
  <1>2. 0 \in 0..MaxToken
    BY RecoveryConstants
  <1>3. CASE UNCHANGED <<controller, svc, scan, settling, permit, disk>>
    BY <1>0, <1>3 DEF Processes, controller
  <1>4. CASE \E j \in Jobs :
               \/ ReaperLooks(j) \/ ReaperHolds(j) \/ ReaperMisses(j)
               \/ SettleLooks(j) \/ SettleFinalizes(j) \/ SettleCompletes(j)
    <2>1. /\ \/ UNCHANGED scan
             \/ \E j \in Jobs, t \in 0..MaxToken : scan' = [scan EXCEPT ![j] = t]
          /\ settling' = settling
               \/ \E j \in Jobs : settling' \in {settling \cup {j}, settling \ {j}}
          /\ UNCHANGED <<controller, svc, permit, disk>>
      BY <1>1, <1>2, <1>4
      DEF ReaperLooks, ReaperHolds, ReaperMisses, SettleLooks, SettleFinalizes,
          SettleCompletes
    <2> QED BY <1>0, <2>1 DEF Processes, controller
  <1>5. CASE \E w \in Services :
               \/ \E i \in Ops : ClaimDue(w, i)
               \/ PinAcknowledged(w) \/ Stage(w) \/ Defer(w)
               \/ PauseForAttention(w) \/ Release(w) \/ LoseClaim(w)
    <2>1. PICK w \in Services :
            /\ \/ Ends(w) \/ Steps(w, "pinned") \/ Steps(w, "attesting")
               \/ \E i \in Ops : svc' =
                    [svc EXCEPT ![w] = [op |-> i, stage |-> "claimed"]]
            /\ UNCHANGED <<controller, scan, settling, permit, disk>>
      BY <1>5 DEF ClaimDue, PinAcknowledged, Stage, Defer, PauseForAttention,
                  Release, LoseClaim
    <2>2. svc' \in [Services -> Pass] BY <1>0, <2>1, PassType
    <2> QED BY <1>0, <2>1, <2>2 DEF Processes, controller
  <1>6. CASE \E i \in Ops, desired \in {"active", "released"} :
               SendPin(i, desired) \/ ServePin(i, desired)
    <2>1. PICK i \in Ops, desired \in {"active", "released"} :
             SendPin(i, desired) \/ ServePin(i, desired)
      BY <1>6
    <2>2. calls' \in SUBSET (Ops \X {"active", "released"})
      BY <1>0, <2>1 DEF SendPin, ServePin
    <2>3. lease' \in [Ops -> {"never", "held", "deleted", "remade"}]
      BY <1>0, <2>1 DEF SendPin, ServePin
    <2> QED BY <1>0, <2>1, <2>2, <2>3 DEF SendPin, ServePin, Processes
  <1>7. CASE AcquireCleanup \/ DeleteDisk \/ CompleteCleanup
    BY <1>0, <1>7
    DEF AcquireCleanup, DeleteDisk, CompleteCleanup, Processes, controller
  <1>8. CASE \E j \in Jobs :
               \/ CreateChild(j) \/ EnqueueWorker(j) \/ ClaimWorker(j)
               \/ AuthorizeBundle(j) \/ RenewWorker(j) \/ RequeueWorker(j)
               \/ ParkExhausted(j) \/ FinishWorker(j) \/ StopCooperatively(j)
               \/ LeaseLapses(j) \/ CancelJob(j)
               \/ \E attention \in BOOLEAN : Report(j, attention)
    BY <1>3, <1>8
    DEF CreateChild, EnqueueWorker, ClaimWorker, AuthorizeBundle, RenewWorker,
        RequeueWorker, ParkExhausted, FinishWorker, StopCooperatively, Dispose,
        LeaseLapses, CancelJob, Report
  <1>9. CASE \/ \E i \in Ops : \/ Retry(i) \/ ExpireDue(i) \/ ClaimLapses(i)
                               \/ DeadlinePasses(i)
             \/ PauseDisabled
    BY <1>3, <1>9
    DEF Retry, ExpireDue, ClaimLapses, DeadlinePasses, PauseDisabled
  <1>10. CASE UNCHANGED vars
    BY <1>3, <1>10 DEF vars, controller
  <1> QED
    BY <1>4, <1>5, <1>6, <1>7, <1>8, <1>9, <1>10 DEF Next

LEMMA TablesStep ==
    ASSUME Tables, Processes, [Next]_vars
    PROVE  Tables'
  <1>1. CASE \E j \in Jobs :
               \/ CreateChild(j) \/ EnqueueWorker(j) \/ ClaimWorker(j)
               \/ AuthorizeBundle(j) \/ RenewWorker(j) \/ LeaseLapses(j)
    BY <1>1, WorkerType
  <1>2. CASE \E j \in Jobs :
               \/ RequeueWorker(j) \/ ParkExhausted(j) \/ FinishWorker(j)
               \/ StopCooperatively(j)
    <2>1. \A j \in Jobs : job[j].status \in {"none", "created", "processing",
                             "paused", "cancelled", "completed"}
      BY DEF Tables, Job
    <2> QED
      BY <1>2, <2>1, DisposeType
      DEF RequeueWorker, ParkExhausted, FinishWorker, StopCooperatively
  <1>3. CASE \E j \in Jobs :
               \/ \E attention \in BOOLEAN : Report(j, attention)
               \/ ReaperHolds(j)
    BY <1>3, AdmitHoldType DEF Report, ReaperHolds
  <1>4. CASE \E j \in Jobs :
               \/ ReaperLooks(j) \/ ReaperMisses(j) \/ SettleLooks(j)
    BY <1>4 DEF ReaperLooks, ReaperMisses, SettleLooks, Tables, Lapsed, rows, store
  <1>5. CASE \E j \in Jobs : CancelJob(j) \/ SettleFinalizes(j) \/ SettleCompletes(j)
    BY <1>5, CancelType, SettleType
  <1>6. CASE \E i \in Ops : Retry(i)
    BY <1>6, RetryType
  <1>7. CASE \E i \in Ops :
               \/ ExpireDue(i) \/ ClaimLapses(i) \/ DeadlinePasses(i)
               \/ \E desired \in {"active", "released"} :
                    SendPin(i, desired) \/ ServePin(i, desired)
    BY <1>7, OperationType
  <1>8. CASE PauseDisabled
    BY <1>8, OperationType DEF PauseDisabled
  <1>9. CASE \E w \in Services :
               \/ \E i \in Ops : ClaimDue(w, i)
               \/ Defer(w) \/ PauseForAttention(w)
    BY <1>9, ReconcilerType
  <1>10. CASE \E w \in Services : Release(w)
    BY <1>10, ReleaseType
  <1>11. CASE \E w \in Services :
                PinAcknowledged(w) \/ Stage(w) \/ LoseClaim(w)
    BY <1>11 DEF PinAcknowledged, Stage, LoseClaim, Tables, Lapsed, rows, store
  <1>12. CASE AcquireCleanup \/ DeleteDisk \/ CompleteCleanup \/ UNCHANGED vars
    BY <1>12 DEF AcquireCleanup, DeleteDisk, CompleteCleanup, vars, Tables,
                 Lapsed, rows, store
  <1> QED
    BY <1>1, <1>2, <1>3, <1>4, <1>5, <1>6, <1>7, <1>8, <1>9, <1>10, <1>11, <1>12
    DEF Next

\* TypeOK: every table keeps its type, however many members, reconcilers,
\* claims and operations there are.
THEOREM RecoveryTypeCorrect == Spec => []TypeOK
  <1>1. TypeOK /\ [Next]_vars => TypeOK'
    BY TypeParts, TablesStep, ProcessesStep DEF TypeOK, Tables, Processes, Lapsed
  <1> QED
    BY <1>1, TypeInit, PTL DEF Spec

-----------------------------------------------------------------------------
(***************************************************************************)
(* The holds.                                                              *)
(***************************************************************************)

\* What the four tables say of a participant that is held.
Held(i, j) ==
    /\ Open(i)
    /\ part[i][j].how = (IF Active(i) THEN "held" ELSE "attention")
    /\ job[j].status = "paused" /\ job[j].freeze = i
    /\ unit[j].token = part[i][j].token
    /\ job[j].marker \/ unit[j].state = "parked"

\* HoldIsExact, with the converse it needs (a closed operation has no standing
\* participant) and the marker that the settle loop found and only it clears.
HoldInv ==
    /\ \A i \in Ops, j \in Jobs : Standing(i, j) => Held(i, j)
    /\ \A j \in Jobs : job[j].freeze /= 0 =>
         job[j].freeze \in Ops /\ Standing(job[j].freeze, j)
    /\ \A j \in settling : job[j].marker

LEMMA HoldInvExact == HoldInv => HoldIsExact
  BY DEF HoldInv, HoldIsExact, Held

\* A step that changes no roster, no phase and no member under a hold.
LEMMA HoldFrame ==
    ASSUME TypeOK, HoldInv, UNCHANGED part,
           \A i \in Ops : op'[i].phase = op[i].phase,
           \A j \in Jobs : /\ job'[j].freeze = job[j].freeze
                           /\ job'[j].marker = job[j].marker,
           \A i \in Ops, j \in Jobs : Standing(i, j) =>
              unit'[j] = unit[j] /\ job'[j].status = job[j].status,
           \A j \in settling' : j \in settling \/ (j \in Jobs /\ job[j].marker)
    PROVE  HoldInv'
  <1>1. \A i \in Ops, j \in Jobs : Standing(i, j)' <=> Standing(i, j)
    BY DEF Standing
  <1>2. \A i \in Ops : (Active(i)' <=> Active(i)) /\ (Open(i)' <=> Open(i))
    BY DEF Active, Open
  <1>3. \A i \in Ops, j \in Jobs : Standing(i, j)' => Held(i, j)'
    BY <1>1, <1>2 DEF HoldInv, Held
  <1>4. (\A j \in Jobs : job[j].freeze /= 0 =>
           job[j].freeze \in Ops /\ Standing(job[j].freeze, j))'
    <2>1. \A j \in Jobs : job[j].freeze /= 0 =>
             job[j].freeze \in Ops /\ Standing(job[j].freeze, j)
      BY DEF HoldInv
    <2> QED BY <2>1 DEF Standing
  <1>5. \A j \in settling' : job'[j].marker
    BY DEF HoldInv, TypeOK
  <1> QED BY <1>3, <1>4, <1>5 DEF HoldInv

LEMMA WorkerHold ==
    ASSUME TypeOK, HoldInv, NEW j \in Jobs,
           \/ CreateChild(j) \/ EnqueueWorker(j) \/ ClaimWorker(j)
           \/ AuthorizeBundle(j) \/ RenewWorker(j) \/ LeaseLapses(j)
           \/ \E to, status : Dispose(j, to, status)
    PROVE  HoldInv'
  <1>0. unit \in [Jobs -> Unit] /\ job \in [Jobs -> Job]
    BY DEF TypeOK
  <1>1. UNCHANGED <<part, op, settling>>
    BY DEF CreateChild, EnqueueWorker, ClaimWorker, AuthorizeBundle, RenewWorker,
           LeaseLapses, Dispose, store
  <1>2. \A k \in Jobs \ {j} : unit'[k] = unit[k] /\ job'[k] = job[k]
    BY <1>0 DEF CreateChild, EnqueueWorker, ClaimWorker, AuthorizeBundle,
                RenewWorker, LeaseLapses, Dispose
  <1>3. job'[j].freeze = job[j].freeze /\ job'[j].marker = job[j].marker
    <2>1. job' = job \/ \E s : job' = [job EXCEPT ![j].status = s]
      BY DEF CreateChild, EnqueueWorker, ClaimWorker, AuthorizeBundle,
             RenewWorker, LeaseLapses, Dispose
    <2> QED BY <1>0, <2>1 DEF Job
  <1>4. (\A i \in Ops : ~ Standing(i, j)) \/ (unit'[j] = unit[j] /\ job'[j] = job[j])
    <2>1. CASE CreateChild(j) \/ EnqueueWorker(j)
      <3>1. job[j].status /= "paused"
        BY <2>1 DEF CreateChild, EnqueueWorker
      <3> QED BY <3>1 DEF HoldInv, Held
    <2>2. CASE ClaimWorker(j) \/ \E to, status : Dispose(j, to, status)
      BY <2>2 DEF ClaimWorker, Dispose, Fenced
    <2>3. CASE AuthorizeBundle(j) \/ RenewWorker(j) \/ LeaseLapses(j)
      BY <2>3 DEF AuthorizeBundle, RenewWorker, LeaseLapses
    <2> QED BY <2>1, <2>2, <2>3
  <1>5. \A k \in Jobs : /\ job'[k].freeze = job[k].freeze
                        /\ job'[k].marker = job[k].marker
    BY <1>2, <1>3
  <1>6. \A i \in Ops, k \in Jobs : Standing(i, k) =>
           unit'[k] = unit[k] /\ job'[k].status = job[k].status
    BY <1>2, <1>4
  <1> QED BY <1>1, <1>5, <1>6, HoldFrame

LEMMA AdmitHoldHold ==
    ASSUME TypeOK, HoldInv, NEW j \in Jobs, NEW attention,
           AdmitHold(j, attention), UNCHANGED settling
    PROVE  HoldInv'
  <1>0. /\ unit \in [Jobs -> Unit] /\ job \in [Jobs -> Job]
        /\ op \in [Ops -> Operation]
        /\ part \in [Ops -> [Jobs -> Participant]]
        /\ settling \subseteq Jobs
    BY DEF TypeOK
  <1> DEFINE who == Members(j)
  <1>1. PICK i \in Ops, how \in {"held", "attention"} : HoldsAs(i, who, how)
    BY AdmitHoldParts
  <1>2. \A k \in Ops, l \in Jobs : ~ Standing(k, l)
    BY AdmitHoldParts DEF HoldInv, Held
  <1>3. \A l \in Jobs : job[l].freeze = 0
    BY <1>2 DEF HoldInv
  <1> HIDE DEF who
  <1>4. \A k \in Ops, l \in Jobs : Standing(k, l)' <=> k = i /\ l \in who
    BY <1>0, <1>1, <1>2 DEF HoldsAs, Standing
  <1>5. ASSUME NEW l \in Jobs, l \in who PROVE Held(i, l)' /\ job'[l].freeze = i
    <2>1. op'[i].phase = IF how = "held" THEN "active" ELSE how
      BY <1>0, <1>1 DEF HoldsAs, Operation
    <2>2. part'[i][l].how = how /\ part'[i][l].token = unit'[l].token
      BY <1>0, <1>1, <1>5 DEF HoldsAs
    <2>3. unit'[l].state = "parked"
      BY <1>0, <1>1, <1>5 DEF HoldsAs
    <2>4. job'[l].status = "paused" /\ job'[l].freeze = i
      BY <1>0, <1>1, <1>5 DEF HoldsAs, Job
    <2> QED BY <2>1, <2>2, <2>3, <2>4 DEF Held, Open, Active
  <1>6. ASSUME NEW l \in Jobs, l \notin who PROVE job'[l].freeze = 0
    BY <1>1, <1>3, <1>6 DEF HoldsAs
  <1>7. \A l \in settling' : job'[l].marker
    BY <1>0, <1>1 DEF HoldsAs, HoldInv, Job
  <1> QED
    BY <1>4, <1>5, <1>6, <1>7 DEF HoldInv

\* A pause marks the standing participants and leaves them standing.
LEMMA PausesParts ==
    ASSUME TypeOK, NEW i \in Ops, Pauses(i)
    PROVE  /\ op'[i].phase = "attention" /\ \A k \in Ops \ {i} : op'[k] = op[k]
           /\ \A k \in Ops \ {i} : part'[k] = part[k]
           /\ \A k \in Ops, j \in Jobs :
                /\ Standing(k, j)' <=> Standing(k, j)
                /\ part'[k][j].token = part[k][j].token
                /\ part'[k][j].safe = part[k][j].safe
           /\ \A j \in Jobs : Standing(i, j) => part'[i][j].how = "attention"
  <1>0. op \in [Ops -> Operation] /\ part \in [Ops -> [Jobs -> Participant]]
    BY DEF TypeOK
  <1>1. op'[i].phase = "attention" /\ \A k \in Ops \ {i} : op'[k] = op[k]
    BY <1>0 DEF Pauses, Unclaimed, Operation
  <1>2. part'[i] = Marked(i, "attention") /\ \A k \in Ops \ {i} : part'[k] = part[k]
    BY <1>0 DEF Pauses
  <1>3. ASSUME NEW j \in Jobs
        PROVE  /\ Standing(i, j)' <=> Standing(i, j)
               /\ Standing(i, j) => part'[i][j].how = "attention"
               /\ part'[i][j].token = part[i][j].token
               /\ part'[i][j].safe = part[i][j].safe
    BY <1>0, <1>2 DEF Marked, Standing, Participant
  <1>4. \A k \in Ops \ {i}, j \in Jobs : Standing(k, j)' <=> Standing(k, j)
    BY <1>2 DEF Standing
  <1> QED BY <1>1, <1>2, <1>3, <1>4

LEMMA PausesHold ==
    ASSUME TypeOK, HoldInv, NEW i \in Ops, Active(i), Pauses(i),
           UNCHANGED <<unit, job, settling>>
    PROVE  HoldInv'
  <1>1. \A k \in Ops, j \in Jobs : Standing(k, j)' => Held(k, j)'
    BY PausesParts DEF HoldInv, Held, Open, Active
  <1>2. (\A j \in Jobs : job[j].freeze /= 0 =>
           job[j].freeze \in Ops /\ Standing(job[j].freeze, j))'
    BY PausesParts DEF HoldInv
  <1> QED BY <1>1, <1>2 DEF HoldInv

LEMMA RetryHold ==
    ASSUME TypeOK, HoldInv, NEW i \in Ops, Retry(i)
    PROVE  HoldInv'
  <1>0. /\ job \in [Jobs -> Job] /\ op \in [Ops -> Operation]
        /\ part \in [Ops -> [Jobs -> Participant]]
    BY DEF TypeOK
  <1>1. PICK n \in Ops :
          /\ New(n)
          /\ op' = [op EXCEPT
               ![i] = [op[i] EXCEPT !.phase = "superseded", !.successor = n],
               ![n] = [@ EXCEPT !.phase = "active"]]
          /\ part' = [part EXCEPT
               ![i] = Marked(i, "transferred"),
               ![n] = [j \in Jobs |-> IF Standing(i, j)
                         THEN [part[i][j] EXCEPT !.how = "held"] ELSE part[n][j]]]
          /\ TransfersFreeze(i, n)
    BY DEF Retry
  <1>2. op[i].phase = "attention" /\ op[n].phase = "none" /\ UNCHANGED <<unit, settling>>
    BY <1>1 DEF Retry, New
  <1>3. \A j \in Jobs : ~ Standing(n, j)
    BY <1>2 DEF HoldInv, Held, Open
  <1>4. i /= n
    BY <1>2
  <1>5. op'[n].phase = "active" /\ \A k \in Ops \ {i, n} : op'[k] = op[k]
    BY <1>0, <1>1, <1>4 DEF Operation
  <1>6. ASSUME NEW j \in Jobs
        PROVE  /\ ~ Standing(i, j)'
               /\ Standing(n, j)' <=> Standing(i, j)
               /\ Standing(i, j) => /\ part'[n][j].how = "held"
                                    /\ part'[n][j].token = part[i][j].token
    <2>1. part'[i] = Marked(i, "transferred")
      BY <1>0, <1>1, <1>4
    <2>2. part'[n][j] = IF Standing(i, j)
             THEN [part[i][j] EXCEPT !.how = "held"] ELSE part[n][j]
      BY <1>0, <1>1, <1>4
    <2>3. ~ Standing(i, j)'
      BY <1>0, <2>1 DEF Marked, Standing, Participant
    <2>4. CASE Standing(i, j)
      BY <1>0, <2>2, <2>3, <2>4 DEF Standing, Participant
    <2>5. CASE ~ Standing(i, j)
      BY <1>3, <2>2, <2>3, <2>5 DEF Standing
    <2> QED BY <2>4, <2>5
  <1>7. \A k \in Ops \ {i, n}, j \in Jobs :
           (Standing(k, j)' <=> Standing(k, j)) /\ part'[k] = part[k]
    BY <1>0, <1>1 DEF Standing
  <1>8. ASSUME NEW j \in Jobs
        PROVE  /\ job'[j].status = job[j].status /\ job'[j].marker = job[j].marker
               /\ job'[j].freeze = IF Standing(i, j) THEN n ELSE job[j].freeze
    <2>1. Standing(i, j) => job[j].status = "paused" /\ job[j].freeze = i
      BY DEF HoldInv, Held
    <2> QED BY <1>0, <1>1, <2>1 DEF TransfersFreeze, Job
  <1>9. ASSUME NEW k \in Ops, NEW j \in Jobs, Standing(k, j)'
        PROVE  Held(k, j)'
    <2>1. CASE k = n
      <3>1. Standing(i, j) BY <1>6, <1>9, <2>1
      <3>2. Held(i, j) BY <3>1 DEF HoldInv
      <3> QED
        BY <1>2, <1>5, <1>6, <1>8, <2>1, <3>1, <3>2 DEF Held, Open, Active
    <2>2. CASE k \notin {i, n}
      <3>1. Standing(k, j) BY <1>7, <1>9, <2>2
      <3>2. Held(k, j) BY <3>1 DEF HoldInv
      <3>3. ~ Standing(i, j) BY <2>2, <3>2 DEF HoldInv, Held
      <3> QED
        BY <1>2, <1>5, <1>7, <1>8, <2>2, <3>2, <3>3 DEF Held, Open, Active
    <2> QED BY <1>6, <1>9, <2>1, <2>2
  <1>10. (\A j \in Jobs : job[j].freeze /= 0 =>
            job[j].freeze \in Ops /\ Standing(job[j].freeze, j))'
    <2> SUFFICES ASSUME NEW j \in Jobs, job'[j].freeze /= 0
                 PROVE  (job[j].freeze \in Ops /\ Standing(job[j].freeze, j))'
      OBVIOUS
    <2>1. CASE Standing(i, j)
      <3>1. job'[j].freeze = n BY <1>8, <2>1
      <3>2. Standing(n, j)' BY <1>6, <2>1
      <3> QED BY <3>1, <3>2 DEF Standing
    <2>2. CASE ~ Standing(i, j)
      <3>1. job'[j].freeze = job[j].freeze BY <1>8, <2>2
      <3>2. job[j].freeze \in Ops /\ Standing(job[j].freeze, j)
        BY <3>1 DEF HoldInv
      <3>3. job[j].freeze \notin {i, n} BY <1>3, <2>2, <3>2
      <3>4. part'[job[j].freeze] = part[job[j].freeze] BY <1>7, <3>2, <3>3
      <3> QED BY <3>1, <3>2, <3>4 DEF Standing
    <2> QED BY <2>1, <2>2
  <1>11. \A j \in settling' : job'[j].marker
    BY <1>2, <1>8 DEF HoldInv, TypeOK
  <1> QED BY <1>9, <1>10, <1>11 DEF HoldInv

\* A settle step closes the row or rewrites the marker, of its own job alone.
LEMMA SettleParts ==
    ASSUME unit \in [Jobs -> Unit], job \in [Jobs -> Job], NEW j \in Jobs,
           SettleFinalizes(j) \/ SettleCompletes(j)
    PROVE  \A k \in Jobs :
             /\ job'[k].status = job[k].status /\ job'[k].freeze = job[k].freeze
             /\ unit'[k].token = unit[k].token
             /\ unit'[k].state = unit[k].state \/ unit'[k].state = "done"
             /\ k /= j => unit'[k] = unit[k] /\ job'[k] = job[k]
  <1>1. CASE SettleFinalizes(j)
    <2>1. PICK s \in {unit[j].state, "done"} : unit' = [unit EXCEPT ![j].state = s]
      BY <1>1 DEF SettleFinalizes
    <2>2. UNCHANGED job BY <1>1 DEF SettleFinalizes
    <2> QED BY <2>1, <2>2 DEF Unit
  <1>2. CASE SettleCompletes(j)
    <2>1. PICK m : job' = [job EXCEPT ![j].marker = m]
      BY <1>2 DEF SettleCompletes
    <2>2. UNCHANGED unit BY <1>2 DEF SettleCompletes
    <2> QED BY <2>1, <2>2 DEF Job
  <1> QED BY <1>1, <1>2

LEMMA SettleHold ==
    ASSUME TypeOK, HoldInv, NEW j \in Jobs,
           SettleFinalizes(j) \/ SettleCompletes(j)
    PROVE  HoldInv'
  <1>0. unit \in [Jobs -> Unit] /\ job \in [Jobs -> Job] /\ settling \subseteq Jobs
    BY DEF TypeOK
  <1>1. /\ UNCHANGED <<op, part>> /\ j \in settling
        /\ settling' \subseteq settling /\ (j \in settling' => job' = job)
    BY DEF SettleFinalizes, SettleCompletes, store
  <1>2. \A k \in Jobs \ {j} : unit'[k] = unit[k] /\ job'[k] = job[k]
    BY <1>0, SettleParts
  <1>3. /\ job'[j].status = job[j].status /\ job'[j].freeze = job[j].freeze
        /\ unit'[j].token = unit[j].token
    BY <1>0, SettleParts
  <1>4. job[j].status = "paused" => job'[j].marker
    <2>1. job[j].marker BY <1>1 DEF HoldInv
    <2>2. CASE SettleFinalizes(j) BY <2>1, <2>2 DEF SettleFinalizes
    <2>3. CASE SettleCompletes(j)
      <3> DEFINE m == job[j].marker /\ ~ /\ unit[j].state \in {"absent", "done"}
                                         /\ job[j].status = "cancelled"
      <3>1. job' = [job EXCEPT ![j].marker = m]
        BY <2>3 DEF SettleCompletes
      <3>2. job[j].status = "paused" => m
        BY <2>1
      <3> HIDE DEF m
      <3> QED BY <1>0, <3>1, <3>2 DEF Job
    <2> QED BY <2>2, <2>3
  <1>5. \A i \in Ops, k \in Jobs : Standing(i, k)' <=> Standing(i, k)
    BY <1>1 DEF Standing
  <1>6. ASSUME NEW i \in Ops, NEW k \in Jobs, Standing(i, k)'
        PROVE  Held(i, k)'
    <2>1. Held(i, k) BY <1>5, <1>6 DEF HoldInv
    <2>2. CASE k = j BY <1>1, <1>3, <1>4, <2>1, <2>2 DEF Held, Open, Active
    <2>3. CASE k /= j BY <1>1, <1>2, <2>1, <2>3 DEF Held, Open, Active
    <2> QED BY <2>2, <2>3
  <1>7. (\A k \in Jobs : job[k].freeze /= 0 =>
            job[k].freeze \in Ops /\ Standing(job[k].freeze, k))'
    BY <1>1, <1>2, <1>3 DEF HoldInv, Standing
  <1>8. \A k \in settling' : job'[k].marker
    BY <1>0, <1>1, <1>2 DEF HoldInv
  <1> QED BY <1>6, <1>7, <1>8 DEF HoldInv

LEMMA CancelHold ==
    ASSUME TypeOK, HoldInv, NEW j \in Jobs, CancelJob(j)
    PROVE  HoldInv'
  <1>0. /\ unit \in [Jobs -> Unit] /\ job \in [Jobs -> Job]
        /\ op \in [Ops -> Operation] /\ settling \subseteq Jobs
        /\ part \in [Ops -> [Jobs -> Participant]]
    BY DEF TypeOK
  <1>1. /\ \A k \in Jobs \ {j} : unit'[k] = unit[k] /\ job'[k] = job[k]
        /\ UNCHANGED settling
    BY <1>0 DEF CancelJob
  <1>2. /\ job'[j].marker = TRUE
        /\ job'[j].freeze = IF Fenced(j) /\ Standing(job[j].freeze, j)
                            THEN 0 ELSE job[j].freeze
    BY <1>0 DEF CancelJob
  <1>3. job'[j].freeze = 0
    BY <1>2 DEF HoldInv, Fenced
  <1>4. \A k \in settling' : job'[k].marker
    BY <1>0, <1>1, <1>2 DEF HoldInv
  <1>5. CASE Fenced(j)
    <2>0. PICK i \in Ops :
            /\ Standing(i, j)
            /\ part' = [part EXCEPT ![i][j].how = "cancelled"]
            /\ op' = IF \A k \in Jobs \ {j} : ~ Standing(i, k)
                     THEN [op EXCEPT ![i] = Unclaimed(@, "cancelled")] ELSE op
      <3> DEFINE i == CHOOSE k \in Ops : Standing(k, j)
      <3>1. i \in Ops /\ Standing(i, j) BY <1>5 DEF Fenced
      <3>2. part' = [part EXCEPT ![i][j].how = "cancelled"]
        BY <1>5 DEF CancelJob
      <3>3. op' = IF \A k \in Jobs \ {j} : ~ Standing(i, k)
                  THEN [op EXCEPT ![i] = Unclaimed(@, "cancelled")] ELSE op
        BY <1>5 DEF CancelJob
      <3> HIDE DEF i
      <3> QED BY <3>1, <3>2, <3>3
    <2>1. Standing(i, j) BY <2>0
    <2>2. part' = [part EXCEPT ![i][j].how = "cancelled"]
      BY <2>0
    <2>3. op' = IF \A k \in Jobs \ {j} : ~ Standing(i, k)
                THEN [op EXCEPT ![i] = Unclaimed(@, "cancelled")] ELSE op
      BY <2>0
    <2>4. \A k \in Ops \ {i} : op'[k] = op[k] /\ part'[k] = part[k]
      BY <1>0, <2>1, <2>2, <2>3
    <2>5. ~ Standing(i, j)' /\ \A l \in Jobs \ {j} : part'[i][l] = part[i][l]
      <3>1. part'[i] = [part[i] EXCEPT ![j] =
                          [part[i][j] EXCEPT !.how = "cancelled"]]
        BY <1>0, <2>1, <2>2
      <3>2. part'[i][j].how = "cancelled"
        BY <1>0, <2>1, <3>1 DEF Participant
      <3>3. ~ Standing(i, j)' BY <3>2 DEF Standing
      <3> QED BY <1>0, <2>1, <3>1, <3>3
    <2>6. \A k \in Ops : Standing(k, j) => k = i
      BY <2>1 DEF HoldInv, Held
    <2>7. ASSUME NEW k \in Ops, NEW l \in Jobs, Standing(k, l)'
          PROVE  Held(k, l)'
      <3>1. l /= j
        <4> SUFFICES ASSUME l = j PROVE FALSE
          OBVIOUS
        <4>1. Standing(k, j)' BY <2>7
        <4>2. k /= i BY <2>5, <4>1 DEF Standing
        <4>3. Standing(k, j) BY <2>4, <4>1, <4>2 DEF Standing
        <4> QED BY <2>6, <4>2, <4>3
      <3>2. Standing(k, l) /\ part'[k][l] = part[k][l]
        BY <2>4, <2>5, <2>7, <3>1 DEF Standing
      <3>3. op'[k] = op[k]
        BY <2>3, <2>4, <3>1, <3>2
      <3>4. Held(k, l) BY <3>2 DEF HoldInv
      <3> QED
        BY <1>1, <3>1, <3>2, <3>3, <3>4 DEF Held, Open, Active
    <2>8. (\A l \in Jobs : job[l].freeze /= 0 =>
              job[l].freeze \in Ops /\ Standing(job[l].freeze, l))'
      <3> SUFFICES ASSUME NEW l \in Jobs, job'[l].freeze /= 0
                   PROVE  (job[l].freeze \in Ops /\ Standing(job[l].freeze, l))'
        OBVIOUS
      <3>1. l /= j BY <1>3
      <3>2. job'[l] = job[l] BY <1>1, <3>1
      <3>3. job[l].freeze \in Ops /\ Standing(job[l].freeze, l)
        BY <3>2 DEF HoldInv
      <3>4. part'[job[l].freeze][l] = part[job[l].freeze][l]
        BY <2>4, <2>5, <3>1, <3>3
      <3> QED BY <3>2, <3>3, <3>4 DEF Standing
    <2> QED BY <1>4, <2>7, <2>8 DEF HoldInv
  <1>6. CASE ~ Fenced(j)
    <2>1. UNCHANGED <<op, part>> BY <1>6 DEF CancelJob, store
    <2>2. \A k \in Ops : ~ Standing(k, j) BY <1>6 DEF Fenced
    <2>3. \A k \in Ops, l \in Jobs : Standing(k, l)' <=> Standing(k, l)
      BY <2>1 DEF Standing
    <2>4. \A k \in Ops, l \in Jobs : Standing(k, l)' => Held(k, l)'
      BY <1>1, <2>1, <2>2, <2>3 DEF HoldInv, Held, Open, Active
    <2>5. (\A l \in Jobs : job[l].freeze /= 0 =>
              job[l].freeze \in Ops /\ Standing(job[l].freeze, l))'
      BY <1>1, <1>3, <2>1 DEF HoldInv, Standing
    <2> QED BY <1>4, <2>4, <2>5 DEF HoldInv
  <1> QED BY <1>5, <1>6

\* What a release does, if it does not pause: every row it touches is a
\* member's, as the hold left it.
LEMMA ReleaseCases ==
    ASSUME TypeOK, NEW w \in Services, Release(w)
    PROVE  \E i \in Ops :
             /\ i = svc[w].op /\ svc[w].stage = "attesting" /\ Active(i)
             /\ UNCHANGED <<lapsed, ledger, settling, permit>>
             /\ \/ Pauses(i) /\ UNCHANGED <<unit, job, pin>>
                \/ /\ ContinuationSafe(i) /\ \A j \in Jobs :
                        Standing(i, j) => Projected(i, j)
                   /\ unit' = [j \in Jobs |-> IF Standing(i, j)
                         THEN [unit[j] EXCEPT !.state = "queued"] ELSE unit[j]]
                   /\ job' = [j \in Jobs |-> IF Standing(i, j)
                         THEN [job[j] EXCEPT !.freeze = 0,
                                 !.status = IF part[i][j].fresh THEN "created"
                                            ELSE @]
                         ELSE job[j]]
                   /\ part' = [part EXCEPT ![i] = Marked(i, "released")]
                   /\ pin' = [pin EXCEPT ![i].state = "released"]
                   /\ op' = [op EXCEPT ![i] = Unclaimed(@, "recovered")]
  <1>1. svc[w].op \in Ops /\ Active(svc[w].op)
    <2>1. svc[w].op \in Ops \cup {0} BY DEF TypeOK, Pass
    <2> QED BY <2>1 DEF Release, Current
  <1> QED BY <1>1 DEF Release

LEMMA ReleaseHold ==
    ASSUME TypeOK, HoldInv, NEW w \in Services, Release(w)
    PROVE  HoldInv'
  <1>0. /\ unit \in [Jobs -> Unit] /\ job \in [Jobs -> Job]
        /\ op \in [Ops -> Operation] /\ settling \subseteq Jobs
        /\ part \in [Ops -> [Jobs -> Participant]]
    BY DEF TypeOK
  <1>1. PICK i \in Ops :
          /\ Active(i) /\ UNCHANGED settling
          /\ \/ Pauses(i) /\ UNCHANGED <<unit, job>>
             \/ /\ unit' = [j \in Jobs |-> IF Standing(i, j)
                      THEN [unit[j] EXCEPT !.state = "queued"] ELSE unit[j]]
                /\ job' = [j \in Jobs |-> IF Standing(i, j)
                      THEN [job[j] EXCEPT !.freeze = 0,
                              !.status = IF part[i][j].fresh THEN "created"
                                         ELSE @]
                      ELSE job[j]]
                /\ part' = [part EXCEPT ![i] = Marked(i, "released")]
                /\ op' = [op EXCEPT ![i] = Unclaimed(@, "recovered")]
    BY ReleaseCases
  <1>2. CASE Pauses(i) /\ UNCHANGED <<unit, job>>
    BY <1>1, <1>2, PausesHold
  <1>3. CASE ~ (Pauses(i) /\ UNCHANGED <<unit, job>>)
    <2>1. \A k \in Ops \ {i} : op'[k] = op[k] /\ part'[k] = part[k]
      BY <1>0, <1>1, <1>3
    <2>2. \A j \in Jobs : ~ Standing(i, j)'
      <3>1. part'[i] = Marked(i, "released") BY <1>0, <1>1, <1>3
      <3> QED BY <1>0, <3>1 DEF Marked, Standing, Participant
    <2>3. ASSUME NEW j \in Jobs
          PROVE  /\ Standing(i, j) => job'[j].freeze = 0
                 /\ ~ Standing(i, j) => job'[j] = job[j] /\ unit'[j] = unit[j]
                 /\ job'[j].marker = job[j].marker
      <3>1. job[j] \in Job BY <1>0
      <3>2. CASE ~ Standing(i, j) BY <1>1, <1>3, <3>2
      <3>3. CASE Standing(i, j)
        <4>1. PICK s : job'[j] = [job[j] EXCEPT !.freeze = 0, !.status = s]
          BY <1>1, <1>3, <3>3
        <4> QED BY <3>1, <3>3, <4>1 DEF Job
      <3> QED BY <3>2, <3>3
    <2>4. ASSUME NEW k \in Ops, NEW j \in Jobs, Standing(k, j)'
          PROVE  Held(k, j)'
      <3>1. k /= i BY <2>2, <2>4
      <3>2. Standing(k, j) BY <2>1, <2>4, <3>1 DEF Standing
      <3>3. Held(k, j) BY <3>2 DEF HoldInv
      <3>4. ~ Standing(i, j) BY <3>1, <3>3 DEF HoldInv, Held
      <3> QED BY <2>1, <2>3, <3>1, <3>3, <3>4 DEF Held, Open, Active
    <2>5. (\A j \in Jobs : job[j].freeze /= 0 =>
              job[j].freeze \in Ops /\ Standing(job[j].freeze, j))'
      <3> SUFFICES ASSUME NEW j \in Jobs, job'[j].freeze /= 0
                   PROVE  (job[j].freeze \in Ops /\ Standing(job[j].freeze, j))'
        OBVIOUS
      <3>1. ~ Standing(i, j) /\ job'[j] = job[j] BY <2>3
      <3>2. job[j].freeze \in Ops /\ Standing(job[j].freeze, j)
        BY <3>1 DEF HoldInv
      <3>3. part'[job[j].freeze] = part[job[j].freeze] BY <2>1, <3>1, <3>2
      <3> QED BY <3>1, <3>2, <3>3 DEF Standing
    <2>6. \A j \in settling' : job'[j].marker
      BY <1>0, <1>1, <2>3 DEF HoldInv
    <2> QED BY <2>4, <2>5, <2>6 DEF HoldInv
  <1> QED BY <1>2, <1>3

\* The steps of the processes around them that touch no hold.
OtherStep ==
    \/ \E j \in Jobs :
         ReaperLooks(j) \/ ReaperMisses(j) \/ SettleLooks(j)
    \/ \E i \in Ops :
         \/ ClaimLapses(i) \/ DeadlinePasses(i)
         \/ \E w \in Services : ClaimDue(w, i)
         \/ \E desired \in {"active", "released"} :
              SendPin(i, desired) \/ ServePin(i, desired)
    \/ \E w \in Services :
         \/ PinAcknowledged(w) \/ Stage(w) \/ LoseClaim(w)
         \/ Defer(w) /\ ~ Pauses(svc[w].op)
    \/ AcquireCleanup \/ DeleteDisk \/ CompleteCleanup
    \/ UNCHANGED vars

LEMMA OtherFrame ==
    ASSUME TypeOK, OtherStep
    PROVE  /\ UNCHANGED <<unit, job, part>>
           /\ \A i \in Ops : op'[i].phase = op[i].phase
           /\ \A j \in settling' : j \in settling \/ (j \in Jobs /\ job[j].marker)
  <1>0. op \in [Ops -> Operation] /\ part \in [Ops -> [Jobs -> Participant]]
    BY DEF TypeOK
  <1>1. UNCHANGED <<unit, job, part>>
    BY DEF OtherStep, ReaperLooks, ReaperMisses, SettleLooks, ClaimLapses,
           DeadlinePasses, ClaimDue, SendPin, ServePin, PinAcknowledged, Stage, LoseClaim,
           Defer, AcquireCleanup, DeleteDisk, CompleteCleanup, vars, rows, store
  <1>2. \A j \in settling' : j \in settling \/ (j \in Jobs /\ job[j].marker)
    BY DEF OtherStep, ReaperLooks, ReaperMisses, SettleLooks, ClaimLapses,
           DeadlinePasses, ClaimDue, SendPin, ServePin, PinAcknowledged, Stage, LoseClaim,
           Defer, AcquireCleanup, DeleteDisk, CompleteCleanup, vars
  <1>3. \A i \in Ops : op'[i].phase = op[i].phase
    <2>1. \A o \in Operation :
            /\ [o EXCEPT !.live = FALSE].phase = o.phase
            /\ [o EXCEPT !.late = TRUE].phase = o.phase
            /\ \A w \in Services :
                 [o EXCEPT !.claimed = w, !.live = TRUE].phase = o.phase
            /\ Unclaimed(o, "active").phase = "active"
      BY DEF Unclaimed, Operation
    <2>2. CASE \E i \in Ops : ClaimLapses(i) \/ DeadlinePasses(i)
      <3>1. PICK i \in Ops :
              \/ op' = [op EXCEPT ![i] = [op[i] EXCEPT !.live = FALSE]]
              \/ op' = [op EXCEPT ![i] = [op[i] EXCEPT !.late = TRUE]]
        BY <2>2 DEF ClaimLapses, DeadlinePasses
      <3>2. op[i] \in Operation BY <1>0
      <3>3. op'[i].phase = op[i].phase BY <1>0, <2>1, <3>1, <3>2
      <3> QED BY <1>0, <3>1, <3>3
    <2>3. CASE \E i \in Ops, w \in Services : ClaimDue(w, i)
      <3>1. PICK i \in Ops, w \in Services : op' =
              [op EXCEPT ![i] = [op[i] EXCEPT !.claimed = w, !.live = TRUE]]
        BY <2>3 DEF ClaimDue
      <3>2. op[i] \in Operation BY <1>0
      <3>3. op'[i].phase = op[i].phase BY <1>0, <2>1, <3>1, <3>2
      <3> QED BY <1>0, <3>1, <3>3
    <2>4. CASE \E w \in Services : Defer(w) /\ ~ Pauses(svc[w].op)
      <3>1. PICK w \in Services : Defer(w) /\ ~ Pauses(svc[w].op) BY <2>4
      <3>2. svc[w].op \in Ops /\ op[svc[w].op].phase = "active"
        <4>1. svc[w].op \in Ops \cup {0} BY DEF TypeOK, Pass
        <4> QED BY <3>1, <4>1 DEF Defer, Current, Active
      <3>3. op' = [op EXCEPT ![svc[w].op] = Unclaimed(op[svc[w].op], "active")]
        BY <3>1 DEF Defer
      <3>4. op'[svc[w].op].phase = op[svc[w].op].phase
        BY <1>0, <2>1, <3>2, <3>3
      <3> QED BY <1>0, <3>2, <3>3, <3>4
    <2> QED
      BY <2>2, <2>3, <2>4
      DEF OtherStep, ReaperLooks, ReaperMisses, SettleLooks, SendPin, ServePin,
          PinAcknowledged, Stage, LoseClaim, AcquireCleanup, DeleteDisk,
          CompleteCleanup, vars, store
  <1> QED BY <1>1, <1>2, <1>3

LEMMA OtherHold ==
    ASSUME TypeOK, HoldInv, OtherStep
    PROVE  HoldInv'
  BY OtherFrame, HoldFrame

LEMMA HoldStep ==
    ASSUME TypeOK, HoldInv, [Next]_vars
    PROVE  HoldInv'
  <1>1. CASE \E j \in Jobs :
               \/ CreateChild(j) \/ EnqueueWorker(j) \/ ClaimWorker(j)
               \/ AuthorizeBundle(j) \/ RenewWorker(j) \/ LeaseLapses(j)
               \/ RequeueWorker(j) \/ ParkExhausted(j) \/ FinishWorker(j)
               \/ StopCooperatively(j)
    BY <1>1, WorkerHold
    DEF RequeueWorker, ParkExhausted, FinishWorker, StopCooperatively
  <1>2. CASE \E j \in Jobs :
               \/ \E attention \in BOOLEAN : Report(j, attention)
               \/ ReaperHolds(j)
    BY <1>2, AdmitHoldHold DEF Report, ReaperHolds
  <1>3. CASE \E j \in Jobs : CancelJob(j) \/ SettleFinalizes(j) \/ SettleCompletes(j)
    BY <1>3, CancelHold, SettleHold
  <1>4. CASE \E i \in Ops : Retry(i)
    BY <1>4, RetryHold
  <1>5. CASE PauseDisabled \/ \E i \in Ops : ExpireDue(i)
    BY <1>5, PausesHold DEF PauseDisabled, ExpireDue, rows
  <1>6. CASE \E w \in Services : Release(w)
    BY <1>6, ReleaseHold
  <1>7. CASE \E w \in Services :
               PauseForAttention(w) \/ (Defer(w) /\ Pauses(svc[w].op))
    <2>1. PICK w \in Services :
             PauseForAttention(w) \/ (Defer(w) /\ Pauses(svc[w].op))
      BY <1>7
    <2>2. svc[w].op \in Ops /\ Active(svc[w].op)
      <3>1. svc[w].op \in Ops \cup {0} BY DEF TypeOK, Pass
      <3> QED BY <2>1, <3>1 DEF PauseForAttention, Defer, Current
    <2> QED BY <2>1, <2>2, PausesHold DEF PauseForAttention, Defer, rows
  <1>8. CASE OtherStep
    BY <1>8, OtherHold
  <1> QED
    BY <1>1, <1>2, <1>3, <1>4, <1>5, <1>6, <1>7, <1>8 DEF Next, OtherStep

LEMMA HoldInit == Init => HoldInv
  BY DEF Init, HoldInv, Held, Standing

\* HoldIsExact: the same hold in the four tables, through reports, reapers,
\* retries, cancellations and releases in any order.
THEOREM RecoveryHoldsExact == Spec => [](HoldInv /\ HoldIsExact)
  <1>1. TypeOK /\ HoldInv /\ [Next]_vars => HoldInv'
    BY HoldStep
  <1> QED
    BY <1>1, HoldInit, HoldInvExact, RecoveryTypeCorrect, PTL DEF Spec
=============================================================================
