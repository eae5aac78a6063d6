--------------------------- MODULE RunQueueProofs ---------------------------
(***************************************************************************)
(* Theorems of RunQueue, for every set of units, pods and reapers and for  *)
(* every bound.                                                            *)
(*                                                                         *)
(* Every step of Next is shown to preserve the types and to be one of      *)
(* eight kinds of lease step.  The invariant of the lease, and the         *)
(* refinement of FencedLease, follow from the kinds alone.                 *)
(***************************************************************************)
EXTENDS RunQueue, RunQueueRowsProofs

\* Rows other than the one of u stay as they are.
OthersKept(u) == \A v \in Units \ {u} : row'[v] = row[v]

\* No lease begins, ends or moves.
QuietStep ==
    /\ \A u \in Units : SameLease(row[u], row'[u])
    /\ UNCHANGED <<claim, fence, persisted>>

\* Pod p gets the next token of the idle unit u.
GrantStep(p, u) ==
    /\ claim[p] = NoClaim
    /\ row[u].state /= "leased" /\ row'[u].state = "leased"
    /\ row'[u].lease_token = row[u].lease_token + 1
    /\ row'[u].leased_by = p
    /\ OthersKept(u)
    /\ claim' = [claim EXCEPT ![p] = [unit |-> u, token |-> row'[u].lease_token]]
    /\ UNCHANGED <<fence, persisted>>

\* The holder ends its lease; no persist transaction is open.
DisposeStep(p) ==
    /\ Holds(p) /\ Unfenced(claim[p].unit)
    /\ EndsLease(row[claim[p].unit], row'[claim[p].unit])
    /\ OthersKept(claim[p].unit)
    /\ claim' = [claim EXCEPT ![p] = NoClaim]
    /\ UNCHANGED <<fence, persisted>>

\* A claim is forgotten, with the transaction it had open.
ForgetStep(p) ==
    /\ claim' = [claim EXCEPT ![p] = NoClaim]
    /\ fence' = [fence EXCEPT ![p] = FALSE]
    /\ UNCHANGED <<row, persisted>>

\* A persist transaction begins under the lease.
FenceStep(p) ==
    /\ Holds(p)
    /\ fence' = [fence EXCEPT ![p] = TRUE]
    /\ UNCHANGED <<row, claim, persisted>>

\* It ends, with or without its write.
UnfenceStep(p) ==
    /\ fence[p]
    /\ fence' = [fence EXCEPT ![p] = FALSE]
    /\ \/ persisted' = [persisted EXCEPT ![claim[p].unit] = claim[p].token]
       \/ UNCHANGED persisted
    /\ UNCHANGED <<row, claim>>

\* The lease of u is taken, because it lapsed or by a recovery: the token
\* moves on with it.
RevokeStep(u) ==
    /\ row[u].lapsed \/ u \in recovering'
    /\ row[u].state = "leased" /\ row'[u].state /= "leased"
    /\ row'[u].lease_token = row[u].lease_token + 1
    /\ Unfenced(u) /\ OthersKept(u)
    /\ UNCHANGED <<claim, fence, persisted>>

\* An idle unit is fenced.
FenceIdleStep(u) ==
    /\ row[u].state /= "leased" /\ row'[u].state /= "leased"
    /\ row'[u].lease_token = row[u].lease_token + 1
    /\ OthersKept(u)
    /\ UNCHANGED <<claim, fence, persisted>>

LeaseStep ==
    \/ QuietStep
    \/ \E p \in Pods : \/ \E u \in Units : GrantStep(p, u)
                       \/ DisposeStep(p) \/ ForgetStep(p)
                       \/ FenceStep(p) \/ UnfenceStep(p)
    \/ \E u \in Units : RevokeStep(u) \/ FenceIdleStep(u)

-----------------------------------------------------------------------------
(***************************************************************************)
(* Updates of one row.                                                     *)
(***************************************************************************)

\* One UPDATE writes a row of the table and no other.
LEMMA UpdateType ==
  ASSUME TypeOK, NEW u \in Units, NEW r \in Row, row' = [row EXCEPT ![u] = r]
  PROVE  row' \in [Units -> Row] /\ row'[u] = r /\ OthersKept(u)
BY DEF TypeOK, OthersKept

\* queued_at is a column of the same units.
LEMMA OrderType ==
  ASSUME TypeOK, NEW u \in Units, ToBack(u) \/ UNCHANGED ahead
  PROVE  ahead' \in [Units -> SUBSET Units]
BY DEF TypeOK, ToBack

\* An update that keeps the lease of its row is quiet.
LEMMA QuietUpdate ==
  ASSUME TypeOK, NEW u \in Units, NEW r \in Row, SameLease(row[u], r),
         row' = [row EXCEPT ![u] = r], UNCHANGED <<claim, fence, persisted>>
  PROVE  row' \in [Units -> Row] /\ QuietStep
<1>1. row' \in [Units -> Row] /\ row'[u] = r /\ OthersKept(u)
  BY UpdateType
<1> QED
  BY <1>1 DEF QuietStep, OthersKept, SameLease

\* A step that leaves the table and the pods' claims alone is quiet.
LEMMA QuietUnchanged ==
  ASSUME UNCHANGED <<row, claim, fence, persisted>>
  PROVE  QuietStep
BY DEF QuietStep, SameLease

\* Every sequence number the next-state relation uses is one.
LEMMA BoundedSeqs ==
  /\ 1..MaxSeq \subseteq Nat /\ 1..MaxControl \subseteq Nat \ {0}
  /\ {NullSeq} \cup 0..MaxSeq \subseteq Seqs
  /\ {NullSeq} \cup 1..MaxSeq \subseteq Seqs
BY QueueConstants DEF Seqs, NullSeq

-----------------------------------------------------------------------------
(***************************************************************************)
(* Admission.                                                              *)
(***************************************************************************)

\* enqueue_unit keeps the types and moves no lease.
LEMMA EnqueueUnitStep ==
  ASSUME TypeOK, NEW u \in Units, NEW prio \in Priorities, NEW due \in BOOLEAN,
         NEW s \in 1..MaxSeq, EnqueueUnit(u, prio, due, s)
  PROVE  TypeOK' /\ QuietStep
<1>1. row[u] \in Row /\ prio \in Nat /\ s \in Nat
  BY QueueConstants DEF TypeOK
<1>2. row' \in [Units -> Row] /\ QuietStep
  BY <1>1, EnqueueRow, QuietUpdate DEF EnqueueUnit, UpdateRevived, Update, podVars
<1>3. ahead' \in [Units -> SUBSET Units]
  BY OrderType DEF EnqueueUnit, UpdateRevived
<1> QED
  BY <1>2, <1>3 DEF TypeOK, EnqueueUnit, threadVars, podVars

\* A human message is admitted without moving a lease.
LEMMA AdmitInputStep ==
  ASSUME TypeOK, NEW u \in Units, AdmitInput(u)
  PROVE  TypeOK' /\ QuietStep
<1>1. row[u] \in Row /\ top[u] + 1 \in Nat
  BY DEF TypeOK
<1>2. row' \in [Units -> Row] /\ QuietStep
  BY <1>1, RecordInputRow, QuietUpdate DEF AdmitInput, UpdateRevived, Update, podVars
<1>3. ahead' \in [Units -> SUBSET Units]
  BY OrderType DEF AdmitInput, UpdateRevived
<1>4. top' \in [Units -> Nat] /\ human' \in [Units -> SUBSET Nat]
  BY <1>1 DEF TypeOK, AdmitInput
<1> QED
  BY <1>2, <1>3, <1>4 DEF TypeOK, AdmitInput, podVars

\* So is an event delivery.
LEMMA PersistEventStep ==
  ASSUME TypeOK, NEW u \in Units, PersistEvent(u)
  PROVE  TypeOK' /\ QuietStep
<1>1. row[u] \in Row /\ top[u] + 1 \in Nat
  BY DEF TypeOK
<1>2. row' \in [Units -> Row] /\ QuietStep
  BY <1>1, RecordInputRow, QuietUpdate DEF PersistEvent, UpdateRevived, Update, podVars
<1>3. ahead' \in [Units -> SUBSET Units]
  BY OrderType DEF PersistEvent, UpdateRevived
<1>4. top' \in [Units -> Nat] /\ owed' \in [Units -> SUBSET Nat]
  BY <1>1 DEF TypeOK, PersistEvent
<1> QED
  BY <1>2, <1>3, <1>4 DEF TypeOK, PersistEvent, podVars

\* So is a thread control.
LEMMA AdmitControlStep ==
  ASSUME TypeOK, NEW u \in Units, NEW k \in 1..MaxControl, AdmitControl(u, k)
  PROVE  TypeOK' /\ QuietStep
<1>1. PICK baseline \in human[u] \cup {0} :
             UpdateRevived(u, RecordControl(row[u], k, baseline))
  BY DEF AdmitControl
<1>2. row[u] \in Row /\ baseline \in Nat /\ k \in Nat \ {0}
  BY BoundedSeqs DEF TypeOK
<1>3. row' \in [Units -> Row] /\ QuietStep
  BY <1>1, <1>2, RecordControlRow, QuietUpdate
     DEF AdmitControl, UpdateRevived, Update, podVars
<1>4. ahead' \in [Units -> SUBSET Units]
  BY <1>1, OrderType DEF UpdateRevived
<1> QED
  BY <1>3, <1>4 DEF TypeOK, AdmitControl, threadVars, podVars

-----------------------------------------------------------------------------
(***************************************************************************)
(* Claim, renewal, the persist fence, and the loss of a claim.             *)
(***************************************************************************)

\* Both claim statements grant the next token of a queued unit.
LEMMA GrantIsGrant ==
  ASSUME TypeOK, NEW p \in Pods, NEW u \in Units, claim[p] = NoClaim,
         row[u].state = "queued", Grant(p, u)
  PROVE  TypeOK' /\ GrantStep(p, u)
<1>1. row[u] \in Row
  BY DEF TypeOK
<1>2. /\ ClaimUpdateTail(row[u], p) \in Row
      /\ ClaimUpdateTail(row[u], p).state = "leased"
      /\ ClaimUpdateTail(row[u], p).leased_by = p
      /\ ClaimUpdateTail(row[u], p).lease_token = row[u].lease_token + 1
  BY <1>1, ClaimRow
<1>3. row' = [row EXCEPT ![u] = ClaimUpdateTail(row[u], p)]
  BY DEF Grant
<1>4. /\ row' \in [Units -> Row] /\ row'[u] = ClaimUpdateTail(row[u], p)
      /\ OthersKept(u)
  BY <1>2, <1>3, UpdateType
<1>5. row[u].lease_token + 1 \in Nat
  BY <1>1 DEF Row
<1>6. claim' \in [Pods -> Claims]
  BY <1>5 DEF TypeOK, Grant, Claims
<1>7. TypeOK'
  BY <1>4, <1>6 DEF TypeOK, Grant, threadVars
<1> QED
  BY <1>2, <1>4, <1>7 DEF GrantStep, Grant

\* claim_unit, the general statement and the affinity statement.
LEMMA ClaimStep ==
  ASSUME TypeOK, NEW p \in Pods, NEW u \in Units,
         Claim(p, u) \/ ClaimPreferred(p, u)
  PROVE  TypeOK' /\ GrantStep(p, u)
BY GrantIsGrant
   DEF Claim, ClaimPreferred, Claimable, Visible, VisiblePreferred

\* A pod that holds its claim holds a unit's lease.
LEMMA HolderFacts ==
  ASSUME TypeOK, NEW p \in Pods
  PROVE  /\ claim[p] \in Claims /\ claim[p].token \in Nat
         /\ Holds(p) => /\ claim[p].unit \in Units
                        /\ row[claim[p].unit] \in Row
                        /\ row[claim[p].unit].state = "leased"
                        /\ row[claim[p].unit].lease_token = claim[p].token
BY DEF TypeOK, Claims, Holds, Leased

\* heartbeat_unit renews and no more.
LEMMA HeartbeatStep ==
  ASSUME TypeOK, NEW p \in Pods, HeartbeatUnit(p)
  PROVE  TypeOK' /\ QuietStep
<1> DEFINE u == claim[p].unit
<1>1. u \in Units /\ row[u] \in Row
  BY HolderFacts DEF HeartbeatUnit
<1>2. row' \in [Units -> Row] /\ QuietStep
  BY <1>1, RenewRow, QuietUpdate DEF HeartbeatUnit, UpdateInPlace, Update, podVars
<1> QED
  BY <1>2 DEF TypeOK, HeartbeatUnit, UpdateInPlace, threadVars, podVars

\* The claimant that learns it lost the lease, or dies, forgets the claim.
LEMMA ForgetClaimStep ==
  ASSUME TypeOK, NEW p \in Pods, LearnLeaseLost(p) \/ PodCrash(p)
  PROVE  TypeOK' /\ ForgetStep(p)
<1>1. NoClaim \in Claims
  BY DEF NoClaim, Claims
<1>2. CASE LearnLeaseLost(p)
  <2>1. TypeOK'
    BY <1>1, <1>2 DEF TypeOK, LearnLeaseLost, queueVars, threadVars
  <2>2. fence' = [fence EXCEPT ![p] = FALSE]
    BY <1>2 DEF TypeOK, LearnLeaseLost
  <2> QED
    BY <1>2, <2>1, <2>2 DEF ForgetStep, LearnLeaseLost, queueVars
<1>3. CASE PodCrash(p)
  <2>1. TypeOK'
    BY <1>1, <1>3 DEF TypeOK, PodCrash, queueVars, threadVars
  <2> QED
    BY <1>3, <2>1 DEF ForgetStep, PodCrash, queueVars
<1> QED
  BY <1>2, <1>3

\* fence_lease and the end of the transaction it opened.
LEMMA FenceLeaseStep ==
  ASSUME TypeOK, NEW p \in Pods, FenceLease(p)
  PROVE  TypeOK' /\ FenceStep(p)
<1>1. TypeOK'
  BY DEF TypeOK, FenceLease, queueVars, threadVars
<1> QED
  BY <1>1 DEF FenceStep, FenceLease, queueVars

\* Commit and abort release the row lock.
LEMMA PersistStep ==
  ASSUME TypeOK, NEW p \in Pods, PersistCommit(p) \/ PersistAbort(p)
  PROVE  TypeOK' /\ UnfenceStep(p)
<1>1. claim[p].token \in Nat
  BY HolderFacts
<1>2. persisted' \in [Units -> Nat]
  BY <1>1 DEF TypeOK, PersistCommit, PersistAbort
<1>3. TypeOK'
  BY <1>2 DEF TypeOK, PersistCommit, PersistAbort, queueVars, threadVars
<1> QED
  BY <1>3 DEF UnfenceStep, PersistCommit, PersistAbort, queueVars

\* The warm session is no lease.
LEMMA ExpireWarmStep ==
  ASSUME TypeOK, NEW p \in Pods, ExpireWarm(p)
  PROVE  TypeOK' /\ QuietStep
<1>1. TypeOK'
  BY DEF TypeOK, ExpireWarm, queueVars, threadVars
<1> QED
  BY <1>1, QuietUnchanged DEF ExpireWarm, queueVars

-----------------------------------------------------------------------------
(***************************************************************************)
(* The claimant's work.                                                    *)
(***************************************************************************)

\* Opening the interrupt window keeps the lease.
LEMMA OpenStep ==
  ASSUME TypeOK, NEW p \in Pods, NEW turn \in 1..MaxSeq,
         OpenInterruptAdmission(p, turn)
  PROVE  TypeOK' /\ QuietStep
<1> DEFINE u == claim[p].unit
<1>1. u \in Units /\ row[u] \in Row /\ claim[p].token \in Nat /\ turn \in Nat
  BY HolderFacts, BoundedSeqs DEF OpenInterruptAdmission, TypeOK, Units
<1>2. row' \in [Units -> Row] /\ QuietStep
  BY <1>1, OpenInterruptRow, QuietUpdate
     DEF OpenInterruptAdmission, UpdateInPlace, Update, podVars
<1> QED
  BY <1>2 DEF TypeOK, OpenInterruptAdmission, UpdateInPlace, threadVars, podVars

\* Closing it with a checkpoint keeps the lease.
LEMMA CloseStep ==
  ASSUME TypeOK, NEW p \in Pods, NEW turn \in 1..MaxSeq,
         NEW c \in {NullSeq} \cup 1..MaxSeq, CloseInterruptAdmission(p, turn, c)
  PROVE  TypeOK' /\ QuietStep
<1> DEFINE u == claim[p].unit
<1>1. u \in Units /\ row[u] \in Row /\ c \in Seqs
  BY BoundedSeqs DEF CloseInterruptAdmission, TypeOK, Units
<1>2. row' \in [Units -> Row] /\ QuietStep
  BY <1>1, CloseInterruptRow, QuietUpdate
     DEF CloseInterruptAdmission, UpdateInPlace, Update, podVars
<1> QED
  BY <1>2 DEF TypeOK, CloseInterruptAdmission, UpdateInPlace, threadVars, podVars

\* Admitting a delivery touches no row of the queue.
LEMMA AdmitDeliveryStep ==
  ASSUME TypeOK, NEW p \in Pods, NEW s \in 1..MaxSeq, AdmitDelivery(p, s)
  PROVE  TypeOK' /\ QuietStep
<1> DEFINE u == claim[p].unit
<1>1. s \in Nat /\ claim[p].token \in Nat
  BY HolderFacts, BoundedSeqs
<1>2. owed' \in [Units -> SUBSET Nat]
  BY DEF TypeOK, AdmitDelivery
<1>3. admitted' \in [Units -> SUBSET (Nat \X Nat)]
  <2>1. {<<s, claim[p].token>>} \in SUBSET (Nat \X Nat)
    BY <1>1
  <2> DEFINE mark == {<<s, claim[p].token>>}
             Marks == SUBSET (Nat \X Nat)
  <2>2. admitted' = [admitted EXCEPT ![u] = admitted[u] \cup mark]
    BY DEF AdmitDelivery
  <2>3. admitted \in [Units -> Marks] /\ \A A, B \in Marks : A \cup B \in Marks
    BY DEF TypeOK
  <2> HIDE DEF mark, Marks
  <2>4. mark \in Marks
    BY <2>1 DEF mark, Marks
  <2>5. admitted' \in [Units -> Marks]
    BY <2>2, <2>3, <2>4
  <2> QED
    BY <2>5 DEF Marks
<1>4. TypeOK'
  BY <1>2, <1>3 DEF TypeOK, AdmitDelivery, queueVars, podVars
<1> QED
  BY <1>4, QuietUnchanged DEF AdmitDelivery, queueVars, podVars

\* Nor does giving it back, or taking it over from a lost lease.
LEMMA OwedAgainStep ==
  ASSUME TypeOK, NEW p \in Pods, NEW s \in 1..MaxSeq,
         UnadmitDelivery(p, s) \/ ReclaimDelivery(p, s)
  PROVE  TypeOK' /\ QuietStep
<1>1. s \in Nat /\ owed' \in [Units -> SUBSET Nat]
  BY BoundedSeqs DEF TypeOK, UnadmitDelivery, ReclaimDelivery
<1>2. admitted' \in [Units -> SUBSET (Nat \X Nat)]
  BY DEF TypeOK, UnadmitDelivery, ReclaimDelivery
<1>3. TypeOK'
  BY <1>1, <1>2 DEF TypeOK, UnadmitDelivery, ReclaimDelivery, queueVars, podVars
<1> QED
  BY <1>3, QuietUnchanged DEF UnadmitDelivery, ReclaimDelivery, queueVars, podVars

\* So does a stop consumed under it.
LEMMA ConsumeStopLiveStep ==
  ASSUME TypeOK, NEW p \in Pods, NEW c \in 1..MaxSeq, ConsumeStopLive(p, c)
  PROVE  TypeOK' /\ QuietStep
<1> DEFINE u == claim[p].unit
<1>1. u \in Units /\ row[u] \in Row /\ c \in Seqs
  BY HolderFacts, BoundedSeqs DEF ConsumeStopLive
<1>2. row' \in [Units -> Row] /\ QuietStep
  BY <1>1, ConsumeStopRow, QuietUpdate
     DEF ConsumeStopLive, UpdateInPlace, Update, podVars
<1> QED
  BY <1>2 DEF TypeOK, ConsumeStopLive, UpdateInPlace, threadVars, podVars

\* Finalizing a control keeps the lease.
LEMMA FinalizeStep ==
  ASSUME TypeOK, NEW p \in Pods, FinalizeControl(p)
  PROVE  TypeOK' /\ QuietStep
<1> DEFINE u == claim[p].unit
<1>1. u \in Units /\ row[u] \in Row
  BY HolderFacts DEF FinalizeControl
<1>2. row' \in [Units -> Row] /\ QuietStep
  BY <1>1, FinalizeControlRow, QuietUpdate
     DEF FinalizeControl, UpdateInPlace, Update, podVars
<1> QED
  BY <1>2 DEF TypeOK, FinalizeControl, UpdateInPlace, threadVars, podVars

\* Whatever row a disposition writes, it ends the holder's lease.
LEMMA DisposeIsDispose ==
  ASSUME TypeOK, NEW p \in Pods, NEW r \in Row, NEW w \in Units \cup {NoUnit},
         EndsLease(row[claim[p].unit], r), Dispose(p, r, w)
  PROVE  TypeOK' /\ DisposeStep(p)
<1> DEFINE u == claim[p].unit
<1>1. u \in Units /\ row[u] \in Row
  BY HolderFacts DEF Dispose
<1>2. row' \in [Units -> Row] /\ row'[u] = r /\ OthersKept(u)
  BY <1>1, UpdateType DEF Dispose, UpdateAtBack, Update
<1>3. ahead' \in [Units -> SUBSET Units]
  BY <1>1, OrderType DEF Dispose, UpdateAtBack
<1>4. NoClaim \in Claims
  BY DEF NoClaim, Claims
<1>5. TypeOK'
  BY <1>2, <1>3, <1>4 DEF TypeOK, Dispose, threadVars
<1> QED
  BY <1>2, <1>5 DEF DisposeStep, Dispose, UpdateAtBack, Update, Writable

\* complete_unit, release_unit (transient and deterministic), park_unit and
\* record_attach_failure.
LEMMA DispositionStep ==
  ASSUME TypeOK, NEW p \in Pods,
         \/ \E c \in {NullSeq} \cup 0..MaxSeq : CompleteUnit(p, c)
         \/ \E due \in BOOLEAN : ReleaseUnit(p, due)
         \/ ReleaseUnitDeterministic(p)
         \/ \E reason \in {"none", "executor"} : ParkUnit(p, reason)
         \/ \E sig \in AttachSignatures : RecordAttachFailureOf(p, sig)
  PROVE  TypeOK' /\ DisposeStep(p)
<1> DEFINE u == claim[p].unit
<1>1. Holds(p)
  BY DEF CompleteUnit, ReleaseUnit, ReleaseUnitDeterministic, ParkUnit,
         RecordAttachFailureOf, Dispose
<1>2. u \in Units /\ row[u] \in Row
  BY <1>1, HolderFacts
<1>3. ASSUME NEW c \in {NullSeq} \cup 0..MaxSeq, CompleteUnit(p, c)
      PROVE  TypeOK' /\ DisposeStep(p)
  <2>1. c \in Seqs /\ (owed[u] /= {}) \in BOOLEAN
    BY BoundedSeqs
  <2>2. (IF u \in WarmReuse THEN u ELSE NoUnit) \in Units \cup {NoUnit}
    BY <1>2
  <2> QED
    BY <1>2, <1>3, <2>1, <2>2, CompleteRow, DisposeIsDispose DEF CompleteUnit
<1>4. ASSUME NEW due \in BOOLEAN, ReleaseUnit(p, due)
      PROVE  TypeOK' /\ DisposeStep(p)
  BY <1>2, <1>4, ReleaseRow, DisposeIsDispose DEF ReleaseUnit
<1>5. ASSUME ReleaseUnitDeterministic(p)
      PROVE  TypeOK' /\ DisposeStep(p)
  BY <1>2, <1>5, ReleaseDeterministicRow, DisposeIsDispose
     DEF ReleaseUnitDeterministic
<1>6. ASSUME NEW reason \in {"none", "executor"}, ParkUnit(p, reason)
      PROVE  TypeOK' /\ DisposeStep(p)
  BY <1>2, <1>6, ParkRow, DisposeIsDispose DEF ParkUnit
<1>7. ASSUME NEW sig \in AttachSignatures, RecordAttachFailureOf(p, sig)
      PROVE  TypeOK' /\ DisposeStep(p)
  BY <1>2, <1>7, RecordAttachFailureRow, DisposeIsDispose DEF RecordAttachFailureOf
<1> QED
  BY <1>3, <1>4, <1>5, <1>6, <1>7

-----------------------------------------------------------------------------
(***************************************************************************)
(* Reapers, operators and recovery.                                        *)
(***************************************************************************)

\* A scan, a lost race and a dead reaper change no row.
LEMMA ReaperIdleStep ==
  ASSUME TypeOK, NEW r \in Reapers,
         \/ \E some \in SUBSET Units : ReapScan(r, some)
         \/ \E u \in Units, t \in Nat, due \in BOOLEAN : ReapMiss(r, u, t, due)
         \/ ReaperCrash(r)
  PROVE  TypeOK' /\ QuietStep
<1>1. \A u \in Units : row[u].lease_token \in Nat
  BY DEF TypeOK, Row
<1>2. ASSUME NEW some \in SUBSET Units, ReapScan(r, some)
      PROVE  found' \in [Reapers -> SUBSET (Units \X Nat \X BOOLEAN)]
  <2> DEFINE read == {<<u, row[u].lease_token, row[u].attempts = 0>> : u \in some}
             Reads == SUBSET (Units \X Nat \X BOOLEAN)
  <2>1. read \in Reads
    <3>1. \A u \in some :
             <<u, row[u].lease_token, row[u].attempts = 0>> \in Units \X Nat \X BOOLEAN
      BY <1>1
    <3> QED
      BY <3>1, Zenon
  <2>2. found' = [found EXCEPT ![r] = read] /\ found \in [Reapers -> Reads]
    BY <1>2 DEF TypeOK, ReapScan
  <2> HIDE DEF read, Reads
  <2>3. found' \in [Reapers -> Reads]
    BY <2>1, <2>2
  <2> QED
    BY <2>3 DEF Reads
<1>3. ASSUME NEW u \in Units, NEW t \in Nat, NEW due \in BOOLEAN, ReapMiss(r, u, t, due)
      PROVE  found' \in [Reapers -> SUBSET (Units \X Nat \X BOOLEAN)]
  BY <1>3 DEF TypeOK, ReapMiss
<1>4. ASSUME ReaperCrash(r)
      PROVE  found' \in [Reapers -> SUBSET (Units \X Nat \X BOOLEAN)]
  BY <1>4 DEF TypeOK, ReaperCrash
<1>5. found' \in [Reapers -> SUBSET (Units \X Nat \X BOOLEAN)]
  BY <1>2, <1>3, <1>4
<1>6. UNCHANGED <<queueVars, threadVars, recovering, locked, podVars, persisted>>
  BY DEF ReapScan, ReapMiss, ReaperCrash
<1>7. TypeOK'
  BY <1>5, <1>6 DEF TypeOK, queueVars, threadVars, podVars
<1> QED
  BY <1>6, <1>7, QuietUnchanged DEF queueVars, podVars

\* What a stop consumes is a message.
LEMMA StopTargetTypes ==
  ASSUME TypeOK, NEW u \in Units, NEW c \in StopTargets(u)
  PROVE  c \in Nat
BY DEF TypeOK, StopTargets

\* A steal takes the lease with the next token, and settling its stop changes
\* neither the token nor that nobody holds the row.
LEMMA StealStep ==
  ASSUME TypeOK, NEW r \in Reapers, NEW u \in Units, NEW t \in Nat,
         NEW due \in BOOLEAN, ReapStealUnit(r, u, t, due)
  PROVE  TypeOK' /\ RevokeStep(u)
<1>1. row[u] \in Row
  BY DEF TypeOK
<1> DEFINE stolen == ReapSteal(row[u], due)
<1>2. PICK q \in {stolen} \cup {SettleStop(stolen, c) : c \in StopTargets(u)} :
             UpdateAtBack(u, q)
  BY DEF ReapStealUnit
<1>3. /\ stolen \in Row /\ stolen.state /= "leased"
      /\ stolen.lease_token = row[u].lease_token + 1
  BY <1>1, ReapStealRow
<1>4. q \in Row /\ q.state /= "leased" /\ q.lease_token = row[u].lease_token + 1
  <2>1. CASE q = stolen
    BY <1>3, <2>1
  <2>2. ASSUME NEW c \in StopTargets(u), q = SettleStop(stolen, c)
        PROVE  q \in Row /\ SameLease(stolen, q)
    <3>1. c \in Seqs
      BY StopTargetTypes DEF Seqs
    <3> HIDE DEF stolen
    <3> QED
      BY <1>3, <2>2, <3>1, SettleStopRow
  <2> HIDE DEF stolen
  <2> QED
    BY <1>2, <1>3, <2>1, <2>2 DEF SameLease
<1> HIDE DEF stolen
<1>5. row' \in [Units -> Row] /\ row'[u] = q /\ OthersKept(u)
  BY <1>2, <1>4, UpdateType DEF UpdateAtBack, Update
<1>6. ahead' \in [Units -> SUBSET Units]
  BY <1>2, OrderType DEF UpdateAtBack
<1>7. found' \in [Reapers -> SUBSET (Units \X Nat \X BOOLEAN)]
  BY DEF TypeOK, ReapStealUnit
<1>8. TypeOK'
  BY <1>5, <1>6, <1>7 DEF TypeOK, ReapStealUnit, threadVars, podVars
<1>9. /\ row[u].lapsed /\ row[u].state = "leased" /\ Unfenced(u)
      /\ UNCHANGED <<claim, fence, persisted>>
  BY <1>2 DEF ReapStealUnit, StealAllowed, Leased, UpdateAtBack, Update, Writable, podVars
<1> QED
  BY <1>5, <1>8, <1>9, <1>4 DEF RevokeStep

\* unpark_unit, settle_parked_unit and a stop settled at rest move a parked row.
LEMMA ParkLiftedStep ==
  ASSUME TypeOK, NEW u \in Units,
         \/ UnparkUnit(u)
         \/ \E c \in {NullSeq} \cup 1..MaxSeq : SettleParkedUnit(u, c)
         \/ \E c \in 1..MaxSeq : SettleStopIdle(u, c)
  PROVE  TypeOK' /\ QuietStep
<1>1. row[u] \in Row
  BY DEF TypeOK
<1>2. ASSUME UnparkUnit(u)
      PROVE  row' \in [Units -> Row] /\ QuietStep
  BY <1>1, <1>2, UnparkRow, QuietUpdate DEF UnparkUnit, UpdateAtBack, Update, podVars
<1>3. ASSUME NEW c \in {NullSeq} \cup 1..MaxSeq, SettleParkedUnit(u, c)
      PROVE  row' \in [Units -> Row] /\ QuietStep
  <2>1. c \in Seqs /\ (owed[u] /= {}) \in BOOLEAN
    BY BoundedSeqs
  <2> QED
    BY <1>1, <1>3, <2>1, SettleParkedRow, QuietUpdate
       DEF SettleParkedUnit, UpdateAtBack, Update, podVars
<1>4. ASSUME NEW c \in 1..MaxSeq, SettleStopIdle(u, c)
      PROVE  row' \in [Units -> Row] /\ QuietStep
  <2>1. c \in Seqs
    BY BoundedSeqs
  <2> QED
    BY <1>1, <1>4, <2>1, SettleStopRow, QuietUpdate
       DEF SettleStopIdle, UpdateAtBack, Update, podVars
<1>5. row' \in [Units -> Row] /\ QuietStep
  BY <1>2, <1>3, <1>4
<1>6. ahead' \in [Units -> SUBSET Units]
  BY OrderType DEF UnparkUnit, SettleParkedUnit, SettleStopIdle, UpdateAtBack
<1>7. UNCHANGED <<threadVars, recovering, locked, podVars, found, persisted>>
  BY DEF UnparkUnit, SettleParkedUnit, SettleStopIdle
<1> QED
  BY <1>5, <1>6, <1>7 DEF TypeOK, threadVars, podVars

\* A recovery takes a live worker's lease with the next token.
LEMMA ParkWorkerStep ==
  ASSUME TypeOK, NEW u \in Units, NEW refund \in 0..1,
         ParkWorkerForRecovery(u, refund)
  PROVE  TypeOK' /\ RevokeStep(u)
<1>1. row[u] \in Row /\ refund <= row[u].attempts
  BY DEF TypeOK, ParkWorkerForRecovery
<1>2. /\ ParkForRecovery(row[u], refund) \in Row
      /\ ParkForRecovery(row[u], refund).state = "parked"
      /\ ParkForRecovery(row[u], refund).lease_token = row[u].lease_token + 1
  BY <1>1, ParkForRecoveryRow
<1>3. /\ row' \in [Units -> Row] /\ row'[u] = ParkForRecovery(row[u], refund)
      /\ OthersKept(u)
  BY <1>2, UpdateType DEF ParkWorkerForRecovery, UpdateInPlace, Update
<1>4. recovering' \in SUBSET Units
  BY DEF TypeOK, ParkWorkerForRecovery
<1>5. TypeOK'
  BY <1>3, <1>4 DEF TypeOK, ParkWorkerForRecovery, UpdateInPlace, threadVars, podVars
<1>6. /\ u \in recovering' /\ row[u].state = "leased" /\ Unfenced(u)
      /\ UNCHANGED <<claim, fence, persisted>>
  BY DEF ParkWorkerForRecovery, UpdateInPlace, Update, Writable, podVars
<1> QED
  BY <1>2, <1>3, <1>5, <1>6 DEF RevokeStep

\* It fences a sibling nobody holds.
LEMMA HoldWorkerStep ==
  ASSUME TypeOK, NEW u \in Units, HoldWorkerForRecovery(u)
  PROVE  TypeOK' /\ FenceIdleStep(u)
<1>1. row[u] \in Row
  BY DEF TypeOK
<1>2. /\ HoldForRecovery(row[u]) \in Row
      /\ HoldForRecovery(row[u]).state = "parked"
      /\ HoldForRecovery(row[u]).lease_token = row[u].lease_token + 1
  BY <1>1, HoldForRecoveryRow
<1>3. row' \in [Units -> Row] /\ row'[u] = HoldForRecovery(row[u]) /\ OthersKept(u)
  BY <1>2, UpdateType DEF HoldWorkerForRecovery, UpdateInPlace, Update
<1>4. recovering' \in SUBSET Units
  BY DEF TypeOK, HoldWorkerForRecovery
<1>5. TypeOK'
  BY <1>3, <1>4 DEF TypeOK, HoldWorkerForRecovery, UpdateInPlace, threadVars, podVars
<1>6. row[u].state /= "leased" /\ UNCHANGED <<claim, fence, persisted>>
  BY DEF HoldWorkerForRecovery, podVars
<1> QED
  BY <1>2, <1>3, <1>5, <1>6 DEF FenceIdleStep

\* Its end makes the unit claimable, not leased.
LEMMA ReleaseWorkerStep ==
  ASSUME TypeOK, NEW u \in Units, ReleaseWorkerFromRecovery(u)
  PROVE  TypeOK' /\ QuietStep
<1>1. row[u] \in Row
  BY DEF TypeOK
<1>2. row' \in [Units -> Row] /\ QuietStep
  BY <1>1, ReleaseFromRecoveryRow, QuietUpdate
     DEF ReleaseWorkerFromRecovery, UpdateAtBack, Update, podVars
<1>3. ahead' \in [Units -> SUBSET Units]
  BY OrderType DEF ReleaseWorkerFromRecovery, UpdateAtBack
<1>4. recovering' \in SUBSET Units
  BY DEF TypeOK, ReleaseWorkerFromRecovery
<1> QED
  BY <1>2, <1>3, <1>4 DEF TypeOK, ReleaseWorkerFromRecovery, threadVars, podVars

\* Time and foreign row locks move no lease.
LEMMA ClockStep ==
  ASSUME TypeOK, NEW u \in Units, Clock(u)
  PROVE  TypeOK' /\ QuietStep
<1>1. row[u] \in Row
  BY DEF TypeOK
<1>2. ASSUME NEW r \in Row, SameLease(row[u], r), ClockTick(u, r)
      PROVE  TypeOK' /\ QuietStep
  <2>1. row' \in [Units -> Row] /\ QuietStep
    BY <1>2, QuietUpdate DEF ClockTick, podVars
  <2> QED
    BY <1>2, <2>1 DEF TypeOK, ClockTick, threadVars, podVars
<1>3. CASE LeaseLapses(u) \/ BackoffElapses(u) \/ GraceElapses(u)
  BY <1>1, <1>2, <1>3, TickRow DEF LeaseLapses, BackoffElapses, GraceElapses
<1>4. CASE RowLocked(u) \/ RowUnlocked(u)
  <2>1. /\ locked' \in SUBSET Units
        /\ UNCHANGED <<queueVars, threadVars, recovering, podVars, found, persisted>>
    BY <1>4 DEF TypeOK, RowLocked, RowUnlocked
  <2>2. QuietStep
    BY <2>1, QuietUnchanged DEF queueVars, podVars
  <2> QED
    BY <2>1, <2>2 DEF TypeOK, queueVars, threadVars, podVars
<1> QED
  BY <1>3, <1>4 DEF Clock

-----------------------------------------------------------------------------
(***************************************************************************)
(* The whole next-state relation.                                          *)
(***************************************************************************)

\* Every step preserves the types and is a lease step.
LEMMA StepIsLeaseStep ==
  ASSUME TypeOK, [Next]_vars
  PROVE  TypeOK' /\ LeaseStep
<1>1. CASE UNCHANGED vars
  <2>1. QuietStep
    BY <1>1, QuietUnchanged DEF vars
  <2>2. TypeOK'
    BY <1>1 DEF TypeOK, vars
  <2> QED
    BY <2>1, <2>2 DEF LeaseStep
<1>2. CASE Admission
  <2>1. TypeOK' /\ QuietStep
    BY <1>2, EnqueueUnitStep, AdmitInputStep, PersistEventStep, AdmitControlStep
       DEF Admission
  <2> QED
    BY <2>1 DEF LeaseStep
<1>3. ASSUME NEW p \in Pods, PodStep(p)
      PROVE  TypeOK' /\ LeaseStep
  <2>1. CASE \E u \in Units : Claim(p, u) \/ ClaimPreferred(p, u)
    BY <2>1, ClaimStep DEF LeaseStep
  <2>2. CASE \/ HeartbeatUnit(p) \/ ExpireWarm(p) \/ FinalizeControl(p)
             \/ \E c \in 1..MaxSeq : ConsumeStopLive(p, c)
    BY <2>2, HeartbeatStep, ExpireWarmStep, FinalizeStep, ConsumeStopLiveStep
       DEF LeaseStep
  <2>3. CASE LearnLeaseLost(p) \/ PodCrash(p)
    BY <2>3, ForgetClaimStep DEF LeaseStep
  <2>4. CASE FenceLease(p)
    BY <2>4, FenceLeaseStep DEF LeaseStep
  <2>5. CASE PersistCommit(p) \/ PersistAbort(p)
    BY <2>5, PersistStep DEF LeaseStep
  <2>6. CASE \E turn \in 1..MaxSeq :
               \/ OpenInterruptAdmission(p, turn)
               \/ \E c \in {NullSeq} \cup 1..MaxSeq :
                     CloseInterruptAdmission(p, turn, c)
    BY <2>6, OpenStep, CloseStep DEF LeaseStep
  <2>7. CASE \E s \in 1..MaxSeq :
               AdmitDelivery(p, s) \/ UnadmitDelivery(p, s) \/ ReclaimDelivery(p, s)
    BY <2>7, AdmitDeliveryStep, OwedAgainStep DEF LeaseStep
  <2>8. CASE \/ \E c \in {NullSeq} \cup 0..MaxSeq : CompleteUnit(p, c)
             \/ \E due \in BOOLEAN : ReleaseUnit(p, due)
             \/ ReleaseUnitDeterministic(p)
             \/ \E reason \in {"none", "executor"} : ParkUnit(p, reason)
             \/ \E sig \in AttachSignatures : RecordAttachFailureOf(p, sig)
    BY <2>8, DispositionStep DEF LeaseStep
  <2> QED
    BY <1>3, <2>1, <2>2, <2>3, <2>4, <2>5, <2>6, <2>7, <2>8 DEF PodStep
<1>4. ASSUME NEW r \in Reapers, ReaperStep(r)
      PROVE  TypeOK' /\ LeaseStep
  <2>1. CASE (\E some \in SUBSET Units : ReapScan(r, some)) \/ ReaperCrash(r)
    BY <2>1, ReaperIdleStep DEF LeaseStep
  <2>2. ASSUME NEW f \in found[r],
               \/ ReapStealUnit(r, f[1], f[2], f[3])
               \/ ReapMiss(r, f[1], f[2], f[3])
        PROVE  TypeOK' /\ LeaseStep
    <3>1. f[1] \in Units /\ f[2] \in Nat /\ f[3] \in BOOLEAN
      BY DEF TypeOK
    <3> QED
      BY <2>2, <3>1, StealStep, ReaperIdleStep DEF LeaseStep
  <2> QED
    BY <1>4, <2>1, <2>2 DEF ReaperStep
<1>5. ASSUME NEW u \in Units, OperatorStep(u)
      PROVE  TypeOK' /\ LeaseStep
  <2>1. CASE \/ UnparkUnit(u)
             \/ \E c \in {NullSeq} \cup 1..MaxSeq : SettleParkedUnit(u, c)
             \/ \E c \in 1..MaxSeq : SettleStopIdle(u, c)
    BY <2>1, ParkLiftedStep DEF LeaseStep
  <2>2. CASE \E refund \in 0..1 : ParkWorkerForRecovery(u, refund)
    BY <2>2, ParkWorkerStep DEF LeaseStep
  <2>3. CASE HoldWorkerForRecovery(u)
    BY <2>3, HoldWorkerStep DEF LeaseStep
  <2>4. CASE ReleaseWorkerFromRecovery(u)
    BY <2>4, ReleaseWorkerStep DEF LeaseStep
  <2> QED
    BY <1>5, <2>1, <2>2, <2>3, <2>4 DEF OperatorStep
<1>6. ASSUME NEW u \in Units, Clock(u)
      PROVE  TypeOK' /\ LeaseStep
  BY <1>6, ClockStep DEF LeaseStep
<1> QED
  BY <1>1, <1>2, <1>3, <1>4, <1>5, <1>6 DEF Next

-----------------------------------------------------------------------------
(***************************************************************************)
(* The invariant of the lease.  FenceExcludesSteal alone is not inductive: *)
(* a claim must not carry a token the row has yet to grant (ClaimsGranted),*)
(* or a new lease would turn an old claim into a holder's; then two pods   *)
(* never remember the same token (DistinctClaims), and the holder is the   *)
(* pod the row names (HolderRecorded).                                     *)
(***************************************************************************)
ClaimsGranted ==
    \A p \in Pods : claim[p].unit \in Units =>
        claim[p].token <= row[claim[p].unit].lease_token

DistinctClaims ==
    \A p, q \in Pods : p /= q /\ claim[p].unit \in Units => claim[p] /= claim[q]

HolderRecorded == \A p \in Pods : Holds(p) => row[claim[p].unit].leased_by = p

PersistedBehind == \A u \in Units : persisted[u] <= row[u].lease_token

LeaseInv ==
    /\ TypeOK
    /\ FenceExcludesSteal
    /\ ClaimsGranted
    /\ DistinctClaims
    /\ HolderRecorded
    /\ PersistedBehind

\* Arithmetic of tokens, before and after a step.
LEMMA TokenTypes ==
  ASSUME TypeOK, TypeOK'
  PROVE  /\ \A u \in Units : /\ row[u].lease_token \in Nat /\ row'[u].lease_token \in Nat
                             /\ persisted[u] \in Nat
         /\ \A p \in Pods : claim[p].token \in Nat /\ claim[p] \in Claims
         /\ NoClaim.unit \notin Units /\ NoClaim.token = 0
BY QueueConstants DEF TypeOK, Row, Claims, NoClaim, Units

\* An open persist transaction keeps its lease through every kind of step.
LEMMA FencePreserved ==
  ASSUME TypeOK, TypeOK', FenceExcludesSteal, LeaseStep
  PROVE  FenceExcludesSteal'
<1> SUFFICES ASSUME NEW q \in Pods, fence'[q]
             PROVE  Holds(q)'
  BY DEF FenceExcludesSteal
<1> USE DEF Holds, Leased
<1>1. CASE QuietStep
  BY <1>1 DEF QuietStep, SameLease, FenceExcludesSteal
<1>2. ASSUME NEW p \in Pods, NEW u \in Units, GrantStep(p, u)
      PROVE  Holds(q)'
  <2>1. q /= p /\ claim[q].unit /= u /\ Holds(q)
    BY <1>2, TokenTypes DEF GrantStep, FenceExcludesSteal
  <2>2. claim'[q] = claim[q]
    BY <1>2, <2>1 DEF GrantStep, TypeOK
  <2> QED
    BY <1>2, <2>1, <2>2 DEF GrantStep, OthersKept
<1>3. ASSUME NEW p \in Pods, DisposeStep(p)
      PROVE  Holds(q)'
  <2>1. Holds(q) /\ claim[q].unit /= claim[p].unit
    BY <1>3 DEF DisposeStep, Unfenced, FenceExcludesSteal
  <2>2. claim'[q] = claim[q]
    BY <1>3, <2>1 DEF DisposeStep, TypeOK
  <2> QED
    BY <1>3, <2>1, <2>2 DEF DisposeStep, OthersKept
<1>4. ASSUME NEW p \in Pods, ForgetStep(p)
      PROVE  Holds(q)'
  BY <1>4 DEF ForgetStep, TypeOK, FenceExcludesSteal
<1>5. ASSUME NEW p \in Pods, FenceStep(p)
      PROVE  Holds(q)'
  BY <1>5 DEF FenceStep, TypeOK, FenceExcludesSteal
<1>6. ASSUME NEW p \in Pods, UnfenceStep(p)
      PROVE  Holds(q)'
  BY <1>6 DEF UnfenceStep, TypeOK, FenceExcludesSteal
<1>7. ASSUME NEW u \in Units, RevokeStep(u) \/ FenceIdleStep(u)
      PROVE  Holds(q)'
  <2>1. Holds(q) /\ claim[q].unit /= u /\ claim'[q] = claim[q]
    BY <1>7 DEF RevokeStep, FenceIdleStep, Unfenced, FenceExcludesSteal
  <2> QED
    BY <1>7, <2>1 DEF RevokeStep, FenceIdleStep, OthersKept
<1> QED
  BY <1>1, <1>2, <1>3, <1>4, <1>5, <1>6, <1>7 DEF LeaseStep

\* Tokens never move back, whatever the step.
LEMMA TokensGrow ==
  ASSUME TypeOK, TypeOK', LeaseStep
  PROVE  \A u \in Units : row'[u].lease_token >= row[u].lease_token
<1> SUFFICES ASSUME NEW v \in Units
             PROVE  row'[v].lease_token >= row[v].lease_token
  OBVIOUS
<1>1. row[v].lease_token \in Nat /\ row'[v].lease_token \in Nat
  BY TokenTypes
<1>2. \/ row'[v].lease_token = row[v].lease_token
      \/ row'[v].lease_token = row[v].lease_token + 1
  BY DEF LeaseStep, QuietStep, SameLease, GrantStep, DisposeStep, ForgetStep,
         FenceStep, UnfenceStep, RevokeStep, FenceIdleStep, EndsLease, OthersKept,
         Holds
<1> QED
  BY <1>1, <1>2

\* After a step a pod has the claim it had, none, or the one just granted.
LEMMA ClaimAfter ==
  ASSUME TypeOK, LeaseStep, NEW q \in Pods
  PROVE  \/ claim'[q] = claim[q]
         \/ claim'[q] = NoClaim
         \/ \E u \in Units : GrantStep(q, u) /\
               claim'[q] = [unit |-> u, token |-> row'[u].lease_token]
<1>1. CASE \E p \in Pods, u \in Units : GrantStep(p, u)
  <2> PICK p \in Pods, u \in Units : GrantStep(p, u)
    BY <1>1
  <2>1. CASE p = q
    BY <2>1 DEF GrantStep, TypeOK
  <2>2. CASE p /= q
    BY <2>2 DEF GrantStep, TypeOK
  <2> QED
    BY <2>1, <2>2
<1>2. CASE ~ \E p \in Pods, u \in Units : GrantStep(p, u)
  <2>1. \/ UNCHANGED claim
        \/ \E p \in Pods : claim' = [claim EXCEPT ![p] = NoClaim]
    BY <1>2 DEF LeaseStep, QuietStep, DisposeStep, ForgetStep, FenceStep,
                UnfenceStep, RevokeStep, FenceIdleStep
  <2> QED
    BY <2>1 DEF TypeOK
<1> QED
  BY <1>1, <1>2

\* No pod has a token the row has not granted yet.
LEMMA GrantedPreserved ==
  ASSUME TypeOK, TypeOK', ClaimsGranted, LeaseStep
  PROVE  ClaimsGranted'
<1> SUFFICES ASSUME NEW q \in Pods, claim'[q].unit \in Units
             PROVE  claim'[q].token <= row'[claim'[q].unit].lease_token
  BY DEF ClaimsGranted
<1>1. CASE claim'[q] = claim[q]
  <2>1. claim[q].token <= row[claim[q].unit].lease_token
    BY <1>1 DEF ClaimsGranted
  <2>2. row'[claim[q].unit].lease_token >= row[claim[q].unit].lease_token
    BY <1>1, TokensGrow
  <2> QED
    BY <1>1, <2>1, <2>2, TokenTypes
<1>2. CASE claim'[q] = NoClaim
  BY <1>2, TokenTypes
<1>3. ASSUME NEW u \in Units,
             claim'[q] = [unit |-> u, token |-> row'[u].lease_token]
      PROVE  claim'[q].token <= row'[claim'[q].unit].lease_token
  BY <1>3, TokenTypes
<1> QED
  BY <1>1, <1>2, <1>3, ClaimAfter

\* A granted token is new: no other pod remembers it.
LEMMA DistinctPreserved ==
  ASSUME TypeOK, TypeOK', ClaimsGranted, DistinctClaims, LeaseStep
  PROVE  DistinctClaims'
<1> SUFFICES ASSUME NEW p \in Pods, NEW q \in Pods, p /= q,
                    claim'[p].unit \in Units, claim'[p] = claim'[q]
             PROVE  FALSE
  BY DEF DistinctClaims
<1>1. claim'[p] /= NoClaim /\ claim'[q] /= NoClaim
  BY TokenTypes
<1>2. ASSUME NEW r \in Pods, NEW s \in Pods, NEW u \in Units, r /= s,
             GrantStep(r, u), claim'[r] = claim'[s], claim'[s] = claim[s]
      PROVE  FALSE
  <2>1. claim'[r] = [unit |-> u, token |-> row'[u].lease_token]
    BY <1>2 DEF GrantStep, TypeOK
  <2>2. claim[s].unit = u /\ claim[s].token = row[u].lease_token + 1
    BY <1>2, <2>1 DEF GrantStep
  <2>3. claim[s].token <= row[u].lease_token
    BY <2>2 DEF ClaimsGranted
  <2> QED
    BY <2>2, <2>3, TokenTypes
<1>3. ASSUME NEW u \in Units, GrantStep(p, u)
      PROVE  claim'[q] = claim[q]
  BY <1>3 DEF GrantStep, TypeOK
<1>4. ASSUME NEW u \in Units, GrantStep(q, u)
      PROVE  claim'[p] = claim[p]
  BY <1>4 DEF GrantStep, TypeOK
<1>5. CASE \E u \in Units : GrantStep(p, u)
  BY <1>2, <1>3, <1>5
<1>6. CASE \E u \in Units : GrantStep(q, u)
  BY <1>2, <1>4, <1>6
<1>7. CASE claim'[p] = claim[p] /\ claim'[q] = claim[q]
  BY <1>7 DEF DistinctClaims
<1> QED
  BY <1>1, <1>5, <1>6, <1>7, ClaimAfter

\* leased_by names the holder.
LEMMA HolderPreserved ==
  ASSUME TypeOK, TypeOK', ClaimsGranted, HolderRecorded, LeaseStep
  PROVE  HolderRecorded'
<1> SUFFICES ASSUME NEW q \in Pods, Holds(q)'
             PROVE  row'[claim'[q].unit].leased_by = q
  BY DEF HolderRecorded
<1> USE DEF Holds, Leased
<1>1. CASE QuietStep
  BY <1>1 DEF QuietStep, SameLease, HolderRecorded
<1>2. ASSUME NEW p \in Pods, NEW u \in Units, GrantStep(p, u)
      PROVE  row'[claim'[q].unit].leased_by = q
  <2>1. CASE q = p
    BY <1>2, <2>1 DEF GrantStep, TypeOK
  <2>2. CASE q /= p
    <3>1. claim'[q] = claim[q]
      BY <1>2, <2>2 DEF GrantStep, TypeOK
    <3>2. claim[q].unit /= u
      BY <1>2, <3>1, TokenTypes DEF GrantStep, ClaimsGranted
    <3> QED
      BY <1>2, <3>1, <3>2 DEF GrantStep, OthersKept, HolderRecorded
  <2> QED
    BY <2>1, <2>2
<1>3. ASSUME NEW p \in Pods, DisposeStep(p)
      PROVE  row'[claim'[q].unit].leased_by = q
  <2>1. q /= p
    BY <1>3, TokenTypes DEF DisposeStep, TypeOK
  <2>2. claim'[q] = claim[q]
    BY <1>3, <2>1 DEF DisposeStep, TypeOK
  <2>3. claim[q].unit /= claim[p].unit
    BY <1>3, <2>2 DEF DisposeStep, EndsLease
  <2> QED
    BY <1>3, <2>2, <2>3 DEF DisposeStep, OthersKept, HolderRecorded
<1>4. ASSUME NEW p \in Pods, ForgetStep(p)
      PROVE  row'[claim'[q].unit].leased_by = q
  <2>1. q /= p
    BY <1>4, TokenTypes DEF ForgetStep, TypeOK
  <2> QED
    BY <1>4, <2>1 DEF ForgetStep, TypeOK, HolderRecorded
<1>5. ASSUME NEW p \in Pods, FenceStep(p) \/ UnfenceStep(p)
      PROVE  row'[claim'[q].unit].leased_by = q
  BY <1>5 DEF FenceStep, UnfenceStep, HolderRecorded
<1>6. ASSUME NEW u \in Units, RevokeStep(u) \/ FenceIdleStep(u)
      PROVE  row'[claim'[q].unit].leased_by = q
  <2>1. claim'[q] = claim[q] /\ claim[q].unit /= u
    BY <1>6 DEF RevokeStep, FenceIdleStep
  <2> QED
    BY <1>6, <2>1 DEF RevokeStep, FenceIdleStep, OthersKept, HolderRecorded
<1> QED
  BY <1>1, <1>2, <1>3, <1>4, <1>5, <1>6 DEF LeaseStep

\* What a step writes, it writes under the token of the row.
LEMMA WriteInLease ==
  ASSUME TypeOK, FenceExcludesSteal, LeaseStep, persisted' /= persisted
  PROVE  \E p \in Pods :
            /\ Holds(p) /\ UNCHANGED <<row, claim>>
            /\ persisted' = [persisted EXCEPT ![claim[p].unit] =
                                                 row[claim[p].unit].lease_token]
<1> PICK p \in Pods : UnfenceStep(p)
  BY DEF LeaseStep, QuietStep, GrantStep, DisposeStep, ForgetStep, FenceStep,
         RevokeStep, FenceIdleStep
<1> QED
  BY DEF UnfenceStep, FenceExcludesSteal, Holds, Leased

\* No durable write is ahead of the row's token.
LEMMA PersistedPreserved ==
  ASSUME TypeOK, TypeOK', FenceExcludesSteal, PersistedBehind, LeaseStep
  PROVE  PersistedBehind'
<1> SUFFICES ASSUME NEW u \in Units
             PROVE  persisted'[u] <= row'[u].lease_token
  BY DEF PersistedBehind
<1>1. persisted[u] <= row[u].lease_token /\ row'[u].lease_token >= row[u].lease_token
  BY TokensGrow DEF PersistedBehind
<1>2. CASE persisted' = persisted
  BY <1>1, <1>2, TokenTypes
<1>3. CASE persisted' /= persisted
  <2>1. persisted'[u] \in {persisted[u], row[u].lease_token}
    BY <1>3, WriteInLease DEF TypeOK
  <2> QED
    BY <1>1, <2>1, TokenTypes
<1> QED
  BY <1>2, <1>3

-----------------------------------------------------------------------------
(***************************************************************************)
(* Theorems.                                                               *)
(***************************************************************************)

\* The initial table is empty: nothing is held, nothing was written.
LEMMA InitLeaseInv == Init => LeaseInv
<1> SUFFICES ASSUME Init
             PROVE  LeaseInv
  OBVIOUS
<1>1. NoRow \in Row
  BY ColumnValues DEF NoRow, Row, States
<1>2. NoClaim \in Claims /\ NoClaim.unit \notin Units
  BY QueueConstants DEF NoClaim, Claims, Units
<1>3. History \in Nat /\ 1..History \in SUBSET Nat
  BY QueueConstants
<1>4. TypeOK
  BY <1>1, <1>2, <1>3 DEF Init, TypeOK
<1>5. \A u \in Units : row[u].lease_token = 0 /\ persisted[u] = 0
  BY DEF Init, NoRow
<1>6. FenceExcludesSteal /\ ClaimsGranted /\ DistinctClaims /\ HolderRecorded
  BY <1>2 DEF Init, FenceExcludesSteal, ClaimsGranted, DistinctClaims,
              HolderRecorded, Holds
<1>7. PersistedBehind
  BY <1>5 DEF PersistedBehind
<1> QED
  BY <1>4, <1>6, <1>7 DEF LeaseInv

\* The invariant is inductive.
LEMMA NextLeaseInv == LeaseInv /\ [Next]_vars => LeaseInv'
<1> SUFFICES ASSUME LeaseInv, [Next]_vars
             PROVE  LeaseInv'
  OBVIOUS
<1>1. /\ TypeOK /\ FenceExcludesSteal /\ ClaimsGranted /\ DistinctClaims
      /\ HolderRecorded /\ PersistedBehind
  BY DEF LeaseInv
<1>2. TypeOK' /\ LeaseStep
  BY <1>1, StepIsLeaseStep
<1>3. FenceExcludesSteal'
  BY <1>1, <1>2, FencePreserved
<1>4. ClaimsGranted'
  BY <1>1, <1>2, GrantedPreserved
<1>5. DistinctClaims'
  BY <1>1, <1>2, DistinctPreserved
<1>6. HolderRecorded'
  BY <1>1, <1>2, HolderPreserved
<1>7. PersistedBehind'
  BY <1>1, <1>2, PersistedPreserved
<1> QED
  BY <1>2, <1>3, <1>4, <1>5, <1>6, <1>7 DEF LeaseInv

\* The lease invariant holds in every reachable state.
THEOREM LeaseInvariant == Spec => []LeaseInv
BY InitLeaseInv, NextLeaseInv, PTL DEF Spec

\* Every column and every client's memory keeps its type: no statement
\* writes a value the next one cannot read.
THEOREM TypeCorrect == Spec => []TypeOK
<1>1. LeaseInv => TypeOK
  BY DEF LeaseInv
<1> QED
  BY <1>1, LeaseInvariant, PTL

\* An open persist transaction excludes every steal, release and claim of
\* its unit, for any number of pods, reapers and units.
THEOREM FenceIsExclusive == Spec => []FenceExcludesSteal
<1>1. LeaseInv => FenceExcludesSteal
  BY DEF LeaseInv
<1> QED
  BY <1>1, LeaseInvariant, PTL

\* At most one pod holds a unit, and the row names it.
THEOREM SingleHolder == Spec => []OneHolder
<1>1. LeaseInv => OneHolder
  BY DEF LeaseInv, OneHolder, DistinctClaims, HolderRecorded, Holds
<1> QED
  BY <1>1, LeaseInvariant, PTL

\* Every step of the queue is a step of the abstract lease, or none.
LEMMA StepRefines ==
  LeaseInv /\ [Next]_vars => [Lease!LeaseNext]_(Lease!leaseVars)
<1> SUFFICES ASSUME LeaseInv, [Next]_vars
             PROVE  Lease!LeaseNext \/ UNCHANGED Lease!leaseVars
  OBVIOUS
<1>1. TypeOK /\ FenceExcludesSteal
  BY DEF LeaseInv
<1>2. TypeOK' /\ LeaseStep
  BY <1>1, StepIsLeaseStep
<1>3. CASE persisted' /= persisted
  <2> PICK p \in Pods :
         /\ Holds(p) /\ UNCHANGED <<row, claim>>
         /\ persisted' = [persisted EXCEPT ![claim[p].unit] =
                                              row[claim[p].unit].lease_token]
    BY <1>1, <1>2, <1>3, WriteInLease
  <2>1. Lease!WriteInEpoch(claim[p].unit)
    BY DEF Lease!WriteInEpoch, Holds, Leased
  <2> QED
    BY <2>1 DEF Lease!LeaseNext, Holds
<1>4. CASE persisted' = persisted
  <2>1. CASE QuietStep
    BY <1>4, <2>1 DEF QuietStep, SameLease, Lease!leaseVars
  <2>2. ASSUME NEW p \in Pods, NEW u \in Units, GrantStep(p, u)
        PROVE  Lease!LeaseNext
    <3>1. Lease!GrantEpoch(u)
      BY <1>4, <2>2 DEF GrantStep, OthersKept, Lease!GrantEpoch
    <3> QED
      BY <3>1 DEF Lease!LeaseNext
  <2>3. ASSUME NEW p \in Pods, DisposeStep(p)
        PROVE  Lease!LeaseNext
    <3>1. PICK u \in Units : /\ row[u].state = "leased"
                             /\ EndsLease(row[u], row'[u]) /\ OthersKept(u)
      BY <2>3 DEF DisposeStep, Holds, Leased
    <3>2. Lease!RevokeEpoch(u)
      BY <1>4, <3>1 DEF OthersKept, EndsLease, Lease!RevokeEpoch
    <3> QED
      BY <3>2 DEF Lease!LeaseNext
  <2>4. ASSUME NEW p \in Pods, ForgetStep(p) \/ FenceStep(p) \/ UnfenceStep(p)
        PROVE  UNCHANGED Lease!leaseVars
    BY <1>4, <2>4 DEF ForgetStep, FenceStep, UnfenceStep, Lease!leaseVars
  <2>5. ASSUME NEW u \in Units, RevokeStep(u)
        PROVE  Lease!LeaseNext
    <3>1. Lease!RevokeEpoch(u)
      BY <1>4, <2>5 DEF RevokeStep, OthersKept, Lease!RevokeEpoch
    <3> QED
      BY <3>1 DEF Lease!LeaseNext
  <2>6. ASSUME NEW u \in Units, FenceIdleStep(u)
        PROVE  Lease!LeaseNext
    <3>1. Lease!FenceEpoch(u)
      BY <1>4, <2>6 DEF FenceIdleStep, OthersKept, Lease!FenceEpoch
    <3> QED
      BY <3>1 DEF Lease!LeaseNext
  <2> QED
    BY <1>2, <2>1, <2>2, <2>3, <2>4, <2>5, <2>6 DEF LeaseStep
<1> QED
  BY <1>3, <1>4

\* The queue with its zombies, reapers, recoveries and row locks implements
\* the fenced lease: one live epoch per unit, writes only in it.
THEOREM QueueRefinesLease == Spec => ImplementsFencedLease
<1>1. Init => Lease!LeaseInit
  <2> SUFFICES ASSUME Init
               PROVE  Lease!LeaseInit
    OBVIOUS
  <2>1. \A u \in Units : row[u].lease_token = 0 /\ (row[u].state = "leased") = FALSE
    BY DEF Init, NoRow
  <2>2. [u \in Units |-> row[u].state = "leased"] = [u \in Units |-> FALSE]
    BY <2>1, Zenon
  <2>3. [u \in Units |-> row[u].lease_token] = [u \in Units |-> 0]
    BY <2>1, Zenon
  <2> QED
    BY <2>2, <2>3 DEF Init, Lease!LeaseInit
<1> QED
  BY <1>1, StepRefines, LeaseInvariant, PTL
     DEF Spec, ImplementsFencedLease, Lease!LeaseSpec
=============================================================================
