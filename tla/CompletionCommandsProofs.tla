--------------------- MODULE CompletionCommandsProofs ---------------------
(***************************************************************************)
(* What holds of the completion commands of a job for any number of        *)
(* finalizers, reports, attempts, controls and rearmed commands.           *)
(*                                                                         *)
(* The inductive invariant adds three things to the properties: what a row *)
(* of job_completion_commands may look like (GoodRow), what a finalizer    *)
(* that holds its term knows of its command at each stage (Fits), and the  *)
(* authority a delivery marker stands for.                                 *)
(*                                                                         *)
(* Three more invariants rest on it.  For their proofs the actions are put *)
(* into a few kinds of steps (Moves, AcceptKind) first: the order of the   *)
(* dispositions (Queue), the authority they are written with (Authority,   *)
(* NoFailed), and the teardown that is handed on (Deferral).               *)
(***************************************************************************)
EXTENDS CompletionCommands, TLAPS

ActiveRow(k) == k.fx["tear"].state = "pending" /\ k.active
UnfinishedRow(k) == k.state \in {"pending", "finalizing", "parked"}
Withheld(k) == k.reordered /\ k.want \in Terminal /\ k.disp = "none"
Decides(k) == k.entry \in {"processing", "failed"}
TearsDown(k) == LateEntry(k.entry) \/ k.disp \in {"completed", "failed"}

\* A claim has an attempt, an effect that was not begun has none; S17 writes
\* what the report asked for, from a status that is not settled yet, and never
\* processing; only a begun teardown is authorized, only one a command has a
\* right to settles, and it has an outcome; a reordered command has delivered
\* before it published.
GoodRow(k) ==
    /\ k \in CommandRows
    /\ k.state = "finalizing" => k.attempts >= 1
    /\ \A e \in Effects : k.fx[e].state = "none" => k.fx[e].tries = 0
    /\ k.disp /= "processing"
    /\ k.disp /= "none" => k.disp = k.want /\ Decides(k)
    /\ k.fx["tear"].state = "done" => k.out /= "none"
    /\ k.out /= "none" /\ UnfinishedRow(k) => TearsDown(k)
    /\ k.active => k.fx["tear"].state = "pending"
    /\ k.reordered /\ k.disp \in Terminal => k.fx["ship"].state = "done"

\* What a process relies on at stage st of the command k it holds.
FitsAt(st, k) ==
    /\ st \in {"control", "ship", "assert", "shipping"} =>
          Withheld(k) \/ k.disp /= "none"
    /\ st \in {"control", "ship", "assert", "shipping", "status"} => Decides(k)
    /\ st = "authority" => k.disp /= "none"
    /\ st = "status" => /\ k.want /= "none" /\ k.disp = "none"
                        /\ Withheld(k) => k.fx["ship"].state = "done"
    /\ st \in {"tear", "authorize", "tearing"} => TearsDown(k)
    /\ st \in {"authorize", "tearing"} => k.fx["tear"].state = "pending"

Fits(p, k) ==
    /\ p.at = "guard" => p.entry /= "none" /\ k.entry \in {"none", p.entry}
    /\ FitsAt(p.at, k)

Stage(f) ==
    /\ fin[f].at /= "idle" => fin[f].c \in Reports
    /\ Holds(f) => Fits(fin[f], cmd[fin[f].c])

Rows == \A c \in Reports : GoodRow(cmd[c])
StagesFit == \A f \in Finalizers : Stage(f)

IInv ==
    TypeOK /\ Rows /\ StagesFit /\ TeardownHoldsJob /\ DeliveryExcludesPeople

\* A step of a command that authorizes nothing, revives nothing and leaves
\* its entry status alone.
Tame(k, l) ==
    /\ GoodRow(l)
    /\ ActiveRow(l) => ActiveRow(k) /\ (UnfinishedRow(k) => UnfinishedRow(l))
    /\ UnfinishedRow(l) => UnfinishedRow(k) /\ k.entry \in {"none", l.entry}

-----------------------------------------------------------------------------
(***************************************************************************)
(* The row operators.                                                      *)
(***************************************************************************)

\* A command that gives its claim up stays open and well formed
\* (_release_for_pending_effects, _retry_or_park, _park_unclaimable).
LEMMA ReleasedTame ==
    ASSUME NEW k, GoodRow(k), UnfinishedRow(k), NEW s \in {"pending", "parked"}
    PROVE  /\ Tame(k, Released(k, s))
           /\ Released(k, s).state = s
<1>1. Released(k, s) \in CommandRows
  BY ZenonT(60) DEF GoodRow, CommandRows, Released, CommandStates
<1>2. QED
  BY <1>1 DEF Tame, GoodRow, ActiveRow, UnfinishedRow, Released, CommandRows,
      Decides, TearsDown

\* The row of a report that was not made yet is well formed.
LEMMA NoCommandRow == NoCommand \in CommandRows
<1>1. NoEffect \in EffectRows
  BY CompletionConstants DEF NoEffect, EffectRows
<1>2. [e \in Effects |-> NoEffect] \in [Effects -> EffectRows]
  BY <1>1
<1>3. /\ 0 \in 0..MaxControls /\ 0 \in 0..1 /\ 0 \in 0..MaxAttempts
      /\ "none" \in Statuses \cup {"none"}
      /\ NoOne \in Finalizers \cup {NoOne}
      /\ "none" \in CommandStates
  BY CompletionConstants DEF CommandStates
<1>4. QED
  BY <1>2, <1>3 DEF NoCommand, CommandRows

\* A command that ends leaves no authorized teardown behind (_finish,
\* _supersede, the force resolution).
LEMMA EndedTame ==
    ASSUME NEW k, GoodRow(k), NEW r \in Statuses \cup {"none"},
           NEW s \in {"done", "superseded", "force_resolved"}
    PROVE  /\ Tame(k, Ended(k, s, r))
           /\ Ended(k, s, r).state = s
<1>a. k.out \in {"none", "completed", "deferred"}
  BY DEF GoodRow, CommandRows
<1>b. s \in CommandStates
  BY DEF CommandStates
<1>1. Ended(k, s, r) \in CommandRows
  BY <1>a, <1>b, NoCommandRow DEF CommandRows, Ended
<1>2. QED
  BY <1>1 DEF Tame, GoodRow, ActiveRow, UnfinishedRow, Ended, CommandRows,
      NoCommand, NoEffect, Effects

\* A command row with the row x of effect e.
Put(k, e, x) == [k EXCEPT !.fx = [k.fx EXCEPT ![e] = x]]

\* A command has a row for each of its effects (completion_effects).
LEMMA EffectTypes ==
    ASSUME NEW k \in CommandRows
    PROVE  /\ k.fx \in [Effects -> EffectRows]
           /\ k.fx["ship"] \in EffectRows /\ k.fx["tear"] \in EffectRows
  BY DEF CommandRows, Effects

\* Writing the row of one effect leaves everything else of the command alone
\* (_prepare, _settle).
LEMMA PutRow ==
    ASSUME NEW k \in CommandRows, NEW e \in Effects, NEW x \in EffectRows
    PROVE  /\ Put(k, e, x) \in CommandRows
           /\ Put(k, e, x).fx[e] = x
           /\ \A d \in Effects \ {e} : Put(k, e, x).fx[d] = k.fx[d]
           /\ Put(k, e, x).state = k.state
           /\ Put(k, e, x).owner = k.owner
           /\ Put(k, e, x).live = k.live
           /\ Put(k, e, x).attempts = k.attempts
           /\ Put(k, e, x).want = k.want
           /\ Put(k, e, x).disp = k.disp
           /\ Put(k, e, x).entry = k.entry
           /\ Put(k, e, x).active = k.active
           /\ Put(k, e, x).reordered = k.reordered
           /\ Put(k, e, x).out = k.out
<1>1. k.fx \in [Effects -> EffectRows]
  BY EffectTypes
<1>2. [k.fx EXCEPT ![e] = x] \in [Effects -> EffectRows]
  BY <1>1
<1>3. Put(k, e, x) \in CommandRows
  BY <1>2 DEF CommandRows, Put
<1>4. Put(k, e, x).fx = [k.fx EXCEPT ![e] = x]
  BY DEF CommandRows, Put
<1>5. QED
  BY <1>1, <1>3, <1>4 DEF Put, CommandRows

\* An effect's row that keeps what GoodRow asks of it.
LEMMA PutTame ==
    ASSUME NEW k, GoodRow(k), NEW e \in Effects, NEW x \in EffectRows,
           x.state = "none" => x.tries = 0,
           e = "tear" => /\ ~ k.active \/ x.state = "pending"
                         /\ x.state = "done" => k.out /= "none",
           e = "ship" => (k.fx["ship"].state = "done" => x.state = "done")
    PROVE  Tame(k, Put(k, e, x))
<1>. DEFINE l == Put(k, e, x)
<1>1. k \in CommandRows
  BY DEF GoodRow
<1>2. /\ l \in CommandRows
      /\ l.fx[e] = x
      /\ \A d \in Effects \ {e} : l.fx[d] = k.fx[d]
      /\ l.state = k.state /\ l.attempts = k.attempts /\ l.disp = k.disp
      /\ l.entry = k.entry /\ l.active = k.active
      /\ l.reordered = k.reordered /\ l.want = k.want /\ l.out = k.out
  BY <1>1, PutRow
<1>. HIDE DEF l
<1>3. GoodRow(l)
  BY <1>2 DEF GoodRow, Effects, Decides, TearsDown, UnfinishedRow
<1>4. ActiveRow(l) => ActiveRow(k)
  BY <1>2 DEF GoodRow, ActiveRow, Effects
<1>5. UnfinishedRow(l) = UnfinishedRow(k) /\ l.entry = k.entry
  BY <1>2 DEF UnfinishedRow
<1>. QED
  BY <1>3, <1>4, <1>5 DEF Tame, l

\* A delivery settles (_settle).
LEMMA CompletedTame ==
    ASSUME NEW k, GoodRow(k)
    PROVE  Tame(k, Completed(k, "ship"))
<1>. DEFINE e == "ship"
            x == [k.fx[e] EXCEPT !.state = "done", !.open = FALSE]
<1>1. k.fx[e] \in EffectRows /\ e \in Effects
  BY EffectTypes DEF GoodRow, Effects
<1>2. x \in EffectRows /\ x.state = "done"
  BY <1>1 DEF EffectRows
<1>3. Completed(k, e) = Put(k, e, x)
  BY DEF Completed, Put
<1>. HIDE DEF x
<1>. QED
  BY <1>1, <1>2, <1>3, PutTame

\* A group retry (_schedule_group_retry) closes the window of an effect and no
\* more.
LEMMA GroupRetryTame ==
    ASSUME NEW k, GoodRow(k), NEW e \in Effects
    PROVE  Tame(k, GroupRetry(k, e))
<1>. DEFINE x == [k.fx[e] EXCEPT !.open = FALSE]
<1>1. k.fx[e] \in EffectRows
  BY EffectTypes DEF GoodRow
<1>2. /\ x \in EffectRows
      /\ x.state = k.fx[e].state /\ x.tries = k.fx[e].tries
  BY <1>1 DEF EffectRows
<1>3. GroupRetry(k, e) = Put(k, e, x)
  BY DEF GroupRetry, Put
<1>4. /\ x.state = "none" => x.tries = 0
      /\ e = "tear" => /\ ~ k.active \/ x.state = "pending"
                       /\ x.state = "done" => k.out /= "none"
      /\ e = "ship" => (k.fx["ship"].state = "done" => x.state = "done")
  BY <1>2 DEF GoodRow
<1>. HIDE DEF x
<1>. QED
  BY <1>2, <1>3, <1>4, PutTame

\* An attempt at an effect (_prepare) stays within the effect's budget.
LEMMA PreparedTame ==
    ASSUME NEW k, GoodRow(k), NEW e \in Effects, k.fx[e].state /= "done",
           ~ (k.fx[e].state = "pending" /\ k.fx[e].tries >= MaxTries)
    PROVE  Tame(k, Prepared(k, e))
<1>. DEFINE x == [state |-> "pending", tries |-> k.fx[e].tries + 1,
                  open |-> TRUE]
<1>1. k.fx[e] \in EffectRows
  BY EffectTypes DEF GoodRow
<1>2. k.fx[e].tries \in 0..MaxTries /\ k.fx[e].tries < MaxTries
  BY <1>1, CompletionConstants DEF GoodRow, EffectRows
<1>3. x \in EffectRows /\ x.state = "pending"
  BY <1>2, CompletionConstants DEF EffectRows
<1>4. Prepared(k, e) = Put(k, e, x)
  BY DEF Prepared, Put
<1>5. e = "ship" => k.fx["ship"].state /= "done"
  OBVIOUS
<1>. HIDE DEF x
<1>. QED
  BY <1>3, <1>4, <1>5, PutTame

\* When clocks run out, what was authorized stays authorized (lease_expires_at,
\* deadline_at).
LEMMA LapsedTame ==
    ASSUME NEW k, GoodRow(k), NEW b \in BOOLEAN
    PROVE  LET l == [Lapsed(k) EXCEPT !.late = b] IN
           Tame(k, l) /\ ~ l.live
<1>. DEFINE y == [e \in Effects |-> [k.fx[e] EXCEPT !.open = FALSE]]
            l == [Lapsed(k) EXCEPT !.late = b]
<1>1. k \in CommandRows /\ k.fx \in [Effects -> EffectRows]
  BY EffectTypes DEF GoodRow
<1>2. \A e \in Effects : /\ [k.fx[e] EXCEPT !.open = FALSE] \in EffectRows
                         /\ y[e].state = k.fx[e].state
                         /\ y[e].tries = k.fx[e].tries
  BY <1>1 DEF EffectRows
<1>3. y \in [Effects -> EffectRows]
  BY <1>2
<1>4. l = [k EXCEPT !.live = FALSE, !.fx = y, !.late = b]
  BY <1>1 DEF Lapsed, CommandRows
<1>. HIDE DEF y
<1>5. /\ l \in CommandRows /\ l.fx = y /\ ~ l.live
      /\ l.state = k.state /\ l.attempts = k.attempts /\ l.disp = k.disp
      /\ l.entry = k.entry /\ l.active = k.active
      /\ l.reordered = k.reordered /\ l.want = k.want /\ l.out = k.out
  BY ZenonT(60), <1>1, <1>3, <1>4 DEF CommandRows
<1>. HIDE DEF l
<1>6. GoodRow(l)
  BY <1>2, <1>5 DEF GoodRow, Effects, Decides, TearsDown, UnfinishedRow
<1>7. ActiveRow(l) => ActiveRow(k)
  BY <1>2, <1>5 DEF ActiveRow, Effects
<1>8. UnfinishedRow(l) = UnfinishedRow(k)
  BY <1>5 DEF UnfinishedRow
<1>. QED
  BY <1>5, <1>6, <1>7, <1>8 DEF Tame, l

\* The same without a deadline.
LEMMA LapsedOnlyTame ==
    ASSUME NEW k, GoodRow(k)
    PROVE  Tame(k, Lapsed(k)) /\ ~ Lapsed(k).live
<1>1. k \in CommandRows /\ k.late \in BOOLEAN
  BY DEF GoodRow, CommandRows
<1>2. [Lapsed(k) EXCEPT !.late = k.late] = Lapsed(k)
  BY <1>1 DEF Lapsed, CommandRows
<1>. QED
  BY <1>1, <1>2, LapsedTame

\* Rearming a parked command (unpark) resets its budgets and nothing it proved.
LEMMA RearmedTame ==
    ASSUME NEW k, GoodRow(k), k.state = "parked"
    PROVE  Tame(k, Rearmed(k)) /\ Rearmed(k).state = "pending"
<1>. DEFINE y == [e \in Effects |-> IF k.fx[e].state = "pending"
                                   THEN [k.fx[e] EXCEPT !.tries = 0]
                                   ELSE k.fx[e]]
            l == Rearmed(k)
<1>1. k \in CommandRows /\ k.fx \in [Effects -> EffectRows]
  BY EffectTypes DEF GoodRow
<1>2. \A e \in Effects : /\ y[e] \in EffectRows
                         /\ y[e].state = k.fx[e].state
                         /\ y[e].tries = 0 \/ y[e].tries = k.fx[e].tries
  BY <1>1, CompletionConstants DEF EffectRows
<1>3. y \in [Effects -> EffectRows]
  BY <1>2
<1>4. l = [k EXCEPT !.state = "pending", !.attempts = 0, !.late = FALSE,
                    !.fx = y]
  BY <1>1 DEF Rearmed, CommandRows
<1>. HIDE DEF y
<1>a. 0 \in 0..MaxAttempts /\ "pending" \in CommandStates
  BY CompletionConstants DEF CommandStates
<1>5. /\ l \in CommandRows /\ l.fx = y /\ l.state = "pending"
      /\ l.disp = k.disp
      /\ l.entry = k.entry /\ l.active = k.active
      /\ l.reordered = k.reordered /\ l.want = k.want /\ l.out = k.out
  BY ZenonT(60), <1>1, <1>3, <1>4, <1>a DEF CommandRows
<1>. HIDE DEF l
<1>6. GoodRow(l)
  BY <1>2, <1>5 DEF GoodRow, Effects, Decides, TearsDown, UnfinishedRow
<1>7. ActiveRow(l) => ActiveRow(k)
  BY <1>2, <1>5 DEF ActiveRow, Effects
<1>8. UnfinishedRow(l) /\ UnfinishedRow(k)
  BY <1>5 DEF UnfinishedRow
<1>. QED
  BY <1>5, <1>6, <1>7, <1>8 DEF Tame, l

\* A claim (_claim) stays within the attempts and keeps the journal.
LEMMA ClaimedTame ==
    ASSUME NEW k, GoodRow(k), k.state \in {"pending", "finalizing"},
           NEW f \in Finalizers, k.attempts < MaxAttempts
    PROVE  Tame(k, Claimed(k, f))
<1>1. k \in CommandRows /\ k.attempts \in 0..MaxAttempts
  BY DEF GoodRow, CommandRows
<1>2. k.attempts + 1 \in 0..MaxAttempts /\ k.attempts + 1 >= 1
  BY <1>1, CompletionConstants
<1>3. /\ Claimed(k, f) \in CommandRows
      /\ Claimed(k, f).attempts >= 1
      /\ Claimed(k, f).state = "finalizing"
  BY ZenonT(60), <1>1, <1>2 DEF CommandRows, Claimed, CommandStates
<1>. QED
  BY <1>1, <1>3 DEF Tame, GoodRow, ActiveRow, UnfinishedRow, Claimed,
     CommandRows, Decides, TearsDown

-----------------------------------------------------------------------------
(***************************************************************************)
(* How a step of one command carries the invariant.                        *)
(***************************************************************************)

\* A holder's step on its own command leaves the others as they were.
LEMMA HolderStep ==
    ASSUME TypeOK, Rows, StagesFit, NEW f \in Finalizers, Holds(f),
           NEW k, GoodRow(k), k.owner \in {f, NoOne},
           NEW p \in Processes, p.at /= "idle" => p.c = fin[f].c /\ Fits(p, k),
           cmd' = [cmd EXCEPT ![fin[f].c] = k],
           fin' = [fin EXCEPT ![f] = p]
    PROVE  /\ cmd' \in [Reports -> CommandRows]
           /\ fin' \in [Finalizers -> Processes]
           /\ Rows' /\ StagesFit'
<1>. DEFINE c == fin[f].c
<1>1. c \in Reports
  BY DEF StagesFit, Stage, Holds
<1>2. /\ cmd \in [Reports -> CommandRows] /\ fin \in [Finalizers -> Processes]
      /\ k \in CommandRows
  BY DEF TypeOK, GoodRow
<1>3. cmd'[c] = k /\ \A d \in Reports \ {c} : cmd'[d] = cmd[d]
  BY <1>1, <1>2
<1>4. fin'[f] = p /\ \A g \in Finalizers \ {f} : fin'[g] = fin[g]
  BY <1>2
<1>5. Rows'
  BY <1>3 DEF Rows
<1>6. ASSUME NEW g \in Finalizers PROVE Stage(g)'
  <2>1. CASE g = f
    BY <1>1, <1>3, <1>4, <2>1 DEF Stage, Holds
  <2>2. CASE g /= f
    <3>1. Stage(g)
      BY DEF StagesFit
    <3>2. fin'[g] = fin[g]
      BY <1>4, <2>2
    <3>3. CASE fin[g].at = "idle"
      BY <3>2, <3>3 DEF Stage, Holds
    <3>4. CASE fin[g].at /= "idle" /\ fin[g].c = c
      <4>1. ~ Holds(g)'
        BY <1>3, <2>2, <3>2, <3>4, CompletionConstants DEF Holds
      <4>2. QED
        BY <3>1, <3>2, <4>1 DEF Stage
    <3>5. CASE fin[g].at /= "idle" /\ fin[g].c /= c
      <4>1. fin[g].c \in Reports /\ cmd'[fin[g].c] = cmd[fin[g].c]
        BY <1>3, <3>1, <3>5 DEF Stage
      <4>2. Holds(g)' => Holds(g)
        BY <3>2, <4>1 DEF Holds
      <4>3. QED
        BY <3>1, <3>2, <4>1, <4>2 DEF Stage
    <3>. QED
      BY <3>3, <3>4, <3>5
  <2>. QED
    BY <2>1, <2>2
<1>. QED
  BY <1>1, <1>2, <1>5, <1>6 DEF StagesFit

\* A step of anyone else on command c: its holder, if it keeps one, finds
\* there what it relied on.
LEMMA OutsideStep ==
    ASSUME TypeOK, Rows, StagesFit, NEW c \in Reports, NEW k, GoodRow(k),
           k.state = "finalizing" /\ k.live =>
              /\ cmd[c].state = "finalizing" /\ cmd[c].live
              /\ k.owner = cmd[c].owner
              /\ k.want = cmd[c].want /\ k.disp = cmd[c].disp
              /\ k.entry = cmd[c].entry /\ k.reordered = cmd[c].reordered
              /\ \A e \in Effects : k.fx[e].state = cmd[c].fx[e].state,
           cmd' = [cmd EXCEPT ![c] = k], fin' = fin
    PROVE  /\ cmd' \in [Reports -> CommandRows]
           /\ fin' \in [Finalizers -> Processes]
           /\ Rows' /\ StagesFit'
<1>1. /\ cmd \in [Reports -> CommandRows] /\ fin \in [Finalizers -> Processes]
      /\ k \in CommandRows
  BY DEF TypeOK, GoodRow
<1>2. cmd'[c] = k /\ \A d \in Reports \ {c} : cmd'[d] = cmd[d]
  BY <1>1
<1>3. Rows'
  BY <1>2 DEF Rows
<1>4. ASSUME NEW g \in Finalizers PROVE Stage(g)'
  <2>1. Stage(g)
    BY DEF StagesFit
  <2>2. CASE fin[g].at = "idle"
    BY <2>2 DEF Stage, Holds
  <2>3. CASE fin[g].at /= "idle" /\ fin[g].c /= c
    <3>1. fin[g].c \in Reports /\ cmd'[fin[g].c] = cmd[fin[g].c]
      BY <1>2, <2>1, <2>3 DEF Stage
    <3>2. QED
      BY <2>1, <3>1 DEF Stage, Holds
  <2>4. CASE fin[g].at /= "idle" /\ fin[g].c = c
    <3>1. Holds(g)' => Holds(g)
      BY <1>2, <2>4 DEF Holds
    <3>2. Holds(g)' /\ Fits(fin[g], cmd[c]) => Fits(fin[g], k)
      BY <1>2, <2>4
      DEF Holds, Fits, FitsAt, Withheld, Effects, Decides, TearsDown
    <3>3. QED
      BY <1>2, <2>1, <2>4, <3>1, <3>2 DEF Stage
  <2>. QED
    BY <2>2, <2>3, <2>4
<1>. QED
  BY <1>1, <1>3, <1>4 DEF StagesFit

\* Tame steps of a command keep the exclusion of an authorized teardown
\* (authorize_workspace_teardown).
LEMMA TameTeardown ==
    ASSUME TypeOK, Rows, TeardownHoldsJob, NEW c \in Reports, NEW k,
           Tame(cmd[c], k), cmd' = [cmd EXCEPT ![c] = k],
           job'.hwm = job.hwm,
           job'.status = job.status \/ job'.status /= "processing"
    PROVE  TeardownHoldsJob'
<1>1. cmd'[c] = k /\ \A d \in Reports \ {c} : cmd'[d] = cmd[d]
  BY DEF TypeOK
<1>2. ASSUME NEW d \in Reports, ActiveTeardown(d)'
      PROVE  ActiveTeardown(d) /\ Unfinished(d)'
  BY <1>1, <1>2
  DEF TeardownHoldsJob, ActiveTeardown, Unfinished, Tame, ActiveRow,
      UnfinishedRow
<1>. QED
  BY <1>2 DEF TeardownHoldsJob

\* Tame steps keep what the marker of a delivery stands for
\* (acquire_delivery_control).
LEMMA TameMarker ==
    ASSUME TypeOK, DeliveryExcludesPeople, NEW c \in Reports, NEW k,
           Tame(cmd[c], k),
           cmd' = [cmd EXCEPT ![c] = k], job' \in JobRows,
           job'.ctl \in Reports =>
              \/ /\ job'.ctl = job.ctl /\ job'.status = job.status
                 /\ job'.lane = job.lane
              \/ job'.status = cmd[job'.ctl].entry
    PROVE  DeliveryExcludesPeople'
<1>1. cmd'[c] = k /\ \A d \in Reports \ {c} : cmd'[d] = cmd[d]
  BY DEF TypeOK
<1>2. job.status /= "none" /\ job'.status /= "none"
  BY DEF TypeOK, JobRows, Statuses
<1>. QED
  BY <1>1, <1>2
  DEF DeliveryExcludesPeople, Unfinished, Tame, UnfinishedRow

\* What a finalizer that holds its term may rely on (_assert_command_owner).
LEMMA Holder ==
    ASSUME IInv, NEW f \in Finalizers, Holds(f)
    PROVE  /\ fin[f].c \in Reports
           /\ fin[f] \in Processes
           /\ GoodRow(cmd[fin[f].c])
           /\ cmd[fin[f].c].state = "finalizing"
           /\ cmd[fin[f].c].owner = f
           /\ UnfinishedRow(cmd[fin[f].c])
           /\ Fits(fin[f], cmd[fin[f].c])
           /\ Tame(cmd[fin[f].c], cmd[fin[f].c])
           /\ cmd = [cmd EXCEPT ![fin[f].c] = cmd[fin[f].c]]
<1>1. fin[f].c \in Reports /\ fin[f] \in Processes
  BY DEF IInv, StagesFit, Stage, Holds, TypeOK
<1>2. GoodRow(cmd[fin[f].c])
  BY <1>1 DEF IInv, Rows
<1>3. Fits(fin[f], cmd[fin[f].c])
  BY DEF IInv, StagesFit, Stage
<1>4. cmd[fin[f].c].state = "finalizing" /\ cmd[fin[f].c].owner = f
  BY DEF Holds
<1>5. UnfinishedRow(cmd[fin[f].c])
  BY <1>4 DEF UnfinishedRow
<1>6. Tame(cmd[fin[f].c], cmd[fin[f].c])
  BY <1>2 DEF Tame
<1>7. cmd = [cmd EXCEPT ![fin[f].c] = cmd[fin[f].c]]
  BY <1>1 DEF IInv, TypeOK
<1>. QED
  BY <1>1, <1>2, <1>3, <1>4, <1>5, <1>6, <1>7

\* A tame step of the holder on its own command keeps the invariant.
LEMMA HolderMoves ==
    ASSUME IInv, NEW f \in Finalizers, Holds(f),
           NEW k, Tame(cmd[fin[f].c], k), k.owner \in {f, NoOne},
           NEW p \in Processes, p.at /= "idle" => p.c = fin[f].c /\ Fits(p, k),
           cmd' = [cmd EXCEPT ![fin[f].c] = k],
           fin' = [fin EXCEPT ![f] = p],
           job' \in JobRows, job'.hwm = job.hwm,
           job'.status = job.status \/ job'.status /= "processing",
           job'.ctl \in Reports =>
              \/ /\ job'.ctl = job.ctl /\ job'.status = job.status
                 /\ job'.lane = job.lane
              \/ job'.status = cmd[job'.ctl].entry,
           reorder' \in BOOLEAN, writes' \in Seq(Reports),
           unparks' \in 0..MaxUnparks
    PROVE  IInv'
<1>1. fin[f].c \in Reports /\ GoodRow(k)
  BY Holder DEF Tame
<1>2. /\ cmd' \in [Reports -> CommandRows]
      /\ fin' \in [Finalizers -> Processes]
      /\ Rows' /\ StagesFit'
  BY <1>1, HolderStep DEF IInv
<1>3. TeardownHoldsJob'
  BY <1>1, TameTeardown DEF IInv
<1>4. DeliveryExcludesPeople'
  BY <1>1, TameMarker DEF IInv
<1>. QED
  BY <1>2, <1>3, <1>4 DEF IInv, TypeOK

\* So does a tame step of anybody else that leaves the journal to a live term.
LEMMA OutsideMoves ==
    ASSUME IInv, NEW c \in Reports, NEW k, Tame(cmd[c], k),
           k.state = "finalizing" /\ k.live =>
              /\ cmd[c].state = "finalizing" /\ cmd[c].live
              /\ k.owner = cmd[c].owner
              /\ k.want = cmd[c].want /\ k.disp = cmd[c].disp
              /\ k.entry = cmd[c].entry /\ k.reordered = cmd[c].reordered
              /\ \A e \in Effects : k.fx[e].state = cmd[c].fx[e].state,
           cmd' = [cmd EXCEPT ![c] = k], fin' = fin,
           job' \in JobRows, job'.hwm = job.hwm,
           job'.status = job.status \/ job'.status /= "processing",
           job'.ctl \in Reports =>
              \/ /\ job'.ctl = job.ctl /\ job'.status = job.status
                 /\ job'.lane = job.lane
              \/ job'.status = cmd[job'.ctl].entry,
           reorder' \in BOOLEAN, writes' \in Seq(Reports),
           unparks' \in 0..MaxUnparks
    PROVE  IInv'
<1>1. GoodRow(k)
  BY DEF Tame
<1>2. /\ cmd' \in [Reports -> CommandRows]
      /\ fin' \in [Finalizers -> Processes]
      /\ Rows' /\ StagesFit'
  BY <1>1, OutsideStep DEF IInv
<1>3. TeardownHoldsJob'
  BY TameTeardown DEF IInv
<1>4. DeliveryExcludesPeople'
  BY TameMarker DEF IInv
<1>. QED
  BY <1>2, <1>3, <1>4 DEF IInv, TypeOK

\* The job is not moved, or by the sweep that ignores the marker.
MarkerHonoured ==
    \/ job'.ctl = job.ctl /\ job'.status = job.status /\ job'.lane = job.lane
    \/ job'.lane = "pinned" /\ job'.status = "cancelled"

\* A write of the jobs row alone.
LEMMA JobMoves ==
    ASSUME IInv, UNCHANGED <<cmd, fin, writes>>,
           job' \in JobRows, job'.hwm = job.hwm,
           \/ job'.status = job.status \/ job'.status /= "processing"
           \/ ~ Excluded,
           job'.ctl \in Reports => MarkerHonoured,
           reorder' \in BOOLEAN, unparks' \in 0..MaxUnparks
    PROVE  IInv'
<1>1. TypeOK' /\ Rows' /\ StagesFit'
  BY DEF IInv, TypeOK, Rows, StagesFit, Stage, Holds
<1>2. TeardownHoldsJob'
  BY DEF IInv, TeardownHoldsJob, Excluded, ActiveTeardown, Unfinished
<1>3. DeliveryExcludesPeople'
  BY DEF IInv, DeliveryExcludesPeople, MarkerHonoured, Unfinished
<1>. QED
  BY <1>1, <1>2, <1>3 DEF IInv

\* A finalizer lets go of everything.
LEMMA LeaveMoves ==
    ASSUME IInv, NEW f \in Finalizers, Leave(f),
           UNCHANGED <<job, cmd, reorder, writes, unparks>>
    PROVE  IInv'
<1>1. Free \in Processes
  BY CompletionConstants DEF Free, Processes, Stages
<1>2. fin' \in [Finalizers -> Processes]
  BY <1>1 DEF Leave, IInv, TypeOK
<1>3. fin'[f].at = "idle" /\ \A g \in Finalizers \ {f} : fin'[g] = fin[g]
  BY DEF Leave, Free, IInv, TypeOK
<1>4. TypeOK' /\ Rows' /\ TeardownHoldsJob' /\ DeliveryExcludesPeople'
  BY <1>2
  DEF IInv, TypeOK, Rows, TeardownHoldsJob, DeliveryExcludesPeople,
      ActiveTeardown, Unfinished
<1>5. StagesFit'
  BY <1>3 DEF IInv, StagesFit, Stage, Holds
<1>. QED
  BY <1>4, <1>5 DEF IInv

\* The same for a step that changes nothing but its command and its stage.
LEMMA HolderGoes ==
    ASSUME IInv, NEW f \in Finalizers, Holds(f),
           NEW k, Tame(cmd[fin[f].c], k), k.owner \in {f, NoOne},
           NEW st \in Stages \ {"guard"}, FitsAt(st, k),
           cmd' = [cmd EXCEPT ![fin[f].c] = k], Go(f, st),
           UNCHANGED <<job, reorder, writes, unparks>>
    PROVE  IInv'
<1>. DEFINE p == [fin[f] EXCEPT !.at = st]
<1>1. fin[f] \in Processes /\ fin[f].c \in Reports
  BY Holder
<1>2. /\ p \in Processes /\ p.at = st /\ p.c = fin[f].c
      /\ fin' = [fin EXCEPT ![f] = p]
  BY <1>1 DEF Processes, Go
<1>. HIDE DEF p
<1>3. Fits(p, k)
  BY <1>2 DEF Fits
<1>4. TypeOK
  BY DEF IInv
<1>. QED
  BY <1>1, <1>2, <1>3, <1>4, HolderMoves DEF TypeOK

\* So does a step that goes on with an effect left pending.
LEMMA HolderBlocks ==
    ASSUME IInv, NEW f \in Finalizers, Holds(f),
           NEW k, Tame(cmd[fin[f].c], k), k.owner \in {f, NoOne},
           NEW st \in Stages \ {"guard"}, FitsAt(st, k),
           cmd' = [cmd EXCEPT ![fin[f].c] = k], Block(f, st),
           UNCHANGED <<job, reorder, writes, unparks>>
    PROVE  IInv'
<1>. DEFINE p == [fin[f] EXCEPT !.at = st, !.blocked = TRUE]
<1>1. fin[f] \in Processes /\ fin[f].c \in Reports
  BY Holder
<1>2. /\ p \in Processes /\ p.at = st /\ p.c = fin[f].c
      /\ fin' = [fin EXCEPT ![f] = p]
  BY <1>1 DEF Processes, Block
<1>. HIDE DEF p
<1>3. Fits(p, k)
  BY <1>2 DEF Fits
<1>4. TypeOK
  BY DEF IInv
<1>. QED
  BY <1>1, <1>2, <1>3, <1>4, HolderMoves DEF TypeOK

\* So does the last step of a holder.
LEMMA HolderLeaves ==
    ASSUME IInv, NEW f \in Finalizers, Holds(f),
           NEW k, Tame(cmd[fin[f].c], k), k.owner \in {f, NoOne},
           cmd' = [cmd EXCEPT ![fin[f].c] = k], Leave(f),
           UNCHANGED <<job, reorder, writes, unparks>>
    PROVE  IInv'
<1>1. Free \in Processes /\ Free.at = "idle"
  BY CompletionConstants DEF Free, Processes, Stages
<1>2. TypeOK /\ fin' = [fin EXCEPT ![f] = Free]
  BY DEF IInv, Leave
<1>. QED
  BY <1>1, <1>2, HolderMoves DEF TypeOK

\* Nobody's term: only the clocks, the operator and the next claim.
LEMMA OutsideKeepsJob ==
    ASSUME IInv, NEW c \in Reports, NEW k, Tame(cmd[c], k),
           ~ (k.state = "finalizing" /\ k.live),
           cmd' = [cmd EXCEPT ![c] = k], fin' = fin,
           UNCHANGED <<job, reorder, writes>>, unparks' \in 0..MaxUnparks
    PROVE  IInv'
<1>1. TypeOK
  BY DEF IInv
<1>. QED
  BY <1>1, OutsideMoves DEF TypeOK

-----------------------------------------------------------------------------
(***************************************************************************)
(* The steps of a finalizer.                                               *)
(***************************************************************************)

\* A lost term or a crash changes no row (finalize_command).
LEMMA LostSteps ==
    ASSUME IInv, NEW f \in Finalizers, LoseTerm(f) \/ Crash(f)
    PROVE  IInv'
  BY LeaveMoves DEF LoseTerm, Crash

\* A raised exception goes to _retry_or_park.
LEMMA WorkflowFailsStep ==
    ASSUME IInv, NEW f \in Finalizers, WorkflowFails(f)
    PROVE  IInv'
<1>1. "retry" \in Stages \ {"guard"} /\ FitsAt("retry", cmd[fin[f].c])
  BY DEF Stages, FitsAt
<1>2. /\ Holds(f) /\ Go(f, "retry")
      /\ UNCHANGED <<job, cmd, reorder, writes, unparks>>
  BY DEF WorkflowFails
<1>3. cmd' = [cmd EXCEPT ![fin[f].c] = cmd[fin[f].c]]
  BY <1>2, Holder
<1>. QED
  BY <1>1, <1>2, <1>3, Holder, HolderGoes

\* _retry_or_park keeps the invariant.
LEMMA RetryOrParkStep ==
    ASSUME IInv, NEW f \in Finalizers, RetryOrPark(f)
    PROVE  IInv'
<1>. DEFINE s == IF cmd[fin[f].c].attempts >= MaxAttempts THEN "parked"
                 ELSE "pending"
            k == Released(cmd[fin[f].c], s)
<1>1. Holds(f)
  BY DEF RetryOrPark, At
<1>2. Tame(cmd[fin[f].c], k) /\ k.owner \in {f, NoOne}
  <2>1. s \in {"pending", "parked"}
    OBVIOUS
  <2>2. k.owner = NoOne
    BY <1>1, Holder DEF Released, GoodRow, CommandRows
  <2>. QED
    BY <1>1, <2>1, <2>2, Holder, ReleasedTame
<1>3. /\ cmd' = [cmd EXCEPT ![fin[f].c] = k] /\ Leave(f)
      /\ UNCHANGED <<job, reorder, writes, unparks>>
  BY <1>1, Holder DEF RetryOrPark
<1>. QED
  BY <1>1, <1>2, <1>3, HolderLeaves

\* _release_for_pending_effects: an attempt that is given back was taken.
LEMMA ReleaseForPendingEffectsStep ==
    ASSUME IInv, NEW f \in Finalizers, ReleaseForPendingEffects(f)
    PROVE  IInv'
<1>. DEFINE c == fin[f].c
            k == IF \E e \in Effects : Spent(c, e)
                 THEN Released(cmd[c], "parked") ELSE Returned(cmd[c])
<1>1. Holds(f)
  BY DEF ReleaseForPendingEffects, At
<1>2. /\ cmd' = [cmd EXCEPT ![c] = k] /\ Leave(f)
      /\ UNCHANGED <<job, reorder, writes, unparks>>
  BY DEF ReleaseForPendingEffects
<1>3. /\ GoodRow(cmd[c]) /\ cmd[c] \in CommandRows
      /\ UnfinishedRow(cmd[c])
  BY <1>1, Holder DEF GoodRow
<1>4. cmd[c].attempts \in 1..MaxAttempts
  BY <1>1, Holder, CompletionConstants DEF GoodRow, CommandRows
<1>5. cmd[c].attempts - 1 \in 0..MaxAttempts /\ "pending" \in CommandStates
  BY <1>4, CompletionConstants DEF CommandStates
<1>6. /\ Returned(cmd[c]) \in CommandRows
      /\ Returned(cmd[c]).state = "pending"
      /\ Returned(cmd[c]).owner = NoOne
      /\ Returned(cmd[c]).fx = cmd[c].fx
      /\ Returned(cmd[c]).disp = cmd[c].disp
      /\ Returned(cmd[c]).entry = cmd[c].entry
      /\ Returned(cmd[c]).active = cmd[c].active
      /\ Returned(cmd[c]).reordered = cmd[c].reordered
      /\ Returned(cmd[c]).want = cmd[c].want
      /\ Returned(cmd[c]).out = cmd[c].out
  BY ZenonT(60), <1>3, <1>5 DEF CommandRows, Returned
<1>7. Tame(cmd[c], Returned(cmd[c]))
  BY <1>3, <1>6 DEF Tame, GoodRow, ActiveRow, UnfinishedRow, Decides,
     TearsDown
<1>8. /\ Tame(cmd[c], Released(cmd[c], "parked"))
      /\ Released(cmd[c], "parked").owner = NoOne
  BY <1>3, ReleasedTame DEF Released, CommandRows
<1>9. Tame(cmd[c], k) /\ k.owner \in {f, NoOne}
  BY <1>6, <1>7, <1>8
<1>. HIDE DEF k
<1>. QED
  BY <1>1, <1>2, <1>9, HolderLeaves

\* _resolve_entry_authority hands the guard a status that agrees with S1's.
LEMMA ResolveStep ==
    ASSUME IInv, NEW f \in Finalizers, Resolve(f)
    PROVE  IInv'
<1>. DEFINE c == fin[f].c
            p == [fin[f] EXCEPT !.at = "guard", !.entry = EntryAuthority(c)]
<1>1. Holds(f) /\ TypeOK
  BY DEF Resolve, At, IInv
<1>2. /\ EntryAuthority(c) \in Statuses
      /\ cmd[c].entry \in {"none", EntryAuthority(c)}
  <2>1. job.status \in Statuses /\ cmd[c].entry \in Statuses \cup {"none"}
    BY <1>1, Holder DEF TypeOK, JobRows, GoodRow, CommandRows
  <2>2. EntryAuthority(c) /= "none"
    BY DEF Resolve
  <2>. QED
    BY <2>1, <2>2 DEF EntryAuthority
<1>3. fin[f] \in Processes
  BY <1>1, Holder
<1>4. /\ p \in Processes /\ p.at = "guard" /\ p.c = c
      /\ p.entry = EntryAuthority(c)
  BY <1>2, <1>3 DEF Processes, Stages, Workflow
<1>5. fin' = [fin EXCEPT ![f] = p]
  BY <1>1, <1>3 DEF Resolve, TypeOK, Processes
<1>. HIDE DEF p
<1>6. Fits(p, cmd[c])
  BY <1>2, <1>4 DEF Fits, FitsAt, Statuses
<1>7. /\ cmd' = [cmd EXCEPT ![c] = cmd[c]]
      /\ UNCHANGED <<job, reorder, writes, unparks>>
  BY <1>1, Holder DEF Resolve
<1>. QED
  BY <1>1, <1>4, <1>5, <1>6, <1>7, Holder, HolderMoves DEF TypeOK

\* _supersede never ends a command with an authorized teardown.
LEMMA SupersedeStep ==
    ASSUME IInv, NEW f \in Finalizers, Supersede(f)
    PROVE  IInv'
<1>. DEFINE c == fin[f].c
            k == Ended(cmd[c], "superseded", "none")
            l == Released(cmd[c], "parked")
<1>1. Holds(f) /\ TypeOK
  BY DEF Supersede, At, IInv
<1>2. cmd[c] \in CommandRows
  BY <1>1, Holder DEF GoodRow
<1>3. /\ Tame(cmd[c], k) /\ k.owner = NoOne
      /\ Tame(cmd[c], l) /\ l.owner = NoOne
  BY ZenonT(60), <1>1, <1>2, Holder, EndedTame, ReleasedTame, NoCommandRow
  DEF Ended, Released, CommandRows, NoCommand
<1>4. UNCHANGED <<reorder, writes, unparks>>
  BY DEF Supersede
<1>5. CASE /\ cmd' = [cmd EXCEPT ![c] = l] /\ Leave(f) /\ UNCHANGED job
  BY <1>1, <1>3, <1>4, <1>5, HolderLeaves
<1>6. CASE Go(f, "retry") /\ UNCHANGED <<job, cmd>>
  <2>1. "retry" \in Stages \ {"guard"} /\ FitsAt("retry", cmd[c])
    BY DEF Stages, FitsAt
  <2>. QED
    BY <1>1, <1>4, <1>6, <2>1, Holder, HolderGoes
<1>7. CASE /\ cmd' = [cmd EXCEPT ![c] = k] /\ Leave(f)
           /\ job' \in {job, [job EXCEPT !.decision = 0]}
  <2>1. /\ job' \in JobRows /\ job'.hwm = job.hwm
        /\ job'.status = job.status /\ job'.ctl = job.ctl
        /\ job'.lane = job.lane
    BY <1>1, <1>7 DEF TypeOK, JobRows
  <2>2. Free \in Processes /\ Free.at = "idle"
    BY CompletionConstants DEF Free, Processes, Stages
  <2>3. fin' = [fin EXCEPT ![f] = Free]
    BY <1>7 DEF Leave
  <2>. QED
    BY <1>1, <1>3, <1>4, <1>7, <2>1, <2>2, <2>3, HolderMoves DEF TypeOK
<1>. QED
  BY <1>5, <1>6, <1>7 DEF Supersede

\* The entry guard (S1) sends a command only where it fits.
LEMMA GuardStep ==
    ASSUME IInv, NEW f \in Finalizers, Guard(f)
    PROVE  IInv'
<1>. DEFINE c == fin[f].c
            entry == fin[f].entry
            k == [cmd[c] EXCEPT !.entry = entry]
            st == IF job.status \in {entry, cmd[c].disp}
                  THEN AfterGuard(c, entry) ELSE "supersede"
            p == [fin[f] EXCEPT !.at = st, !.entry = "none"]
<1>1. Holds(f) /\ TypeOK /\ fin[f].at = "guard"
  BY DEF Guard, At, IInv
<1>2. cmd[c] \in CommandRows /\ c \in Reports /\ fin[f] \in Processes
  BY <1>1, Holder DEF GoodRow
<1>3. entry \in Statuses /\ cmd[c].entry \in {"none", entry}
  BY <1>1, <1>2, Holder DEF Fits, Processes
<1>4. /\ k \in CommandRows
      /\ k.entry = entry /\ k.state = cmd[c].state
      /\ k.owner = cmd[c].owner /\ k.attempts = cmd[c].attempts
      /\ k.fx = cmd[c].fx /\ k.disp = cmd[c].disp /\ k.want = cmd[c].want
      /\ k.active = cmd[c].active /\ k.reordered = cmd[c].reordered
      /\ k.out = cmd[c].out
  BY <1>2, <1>3 DEF CommandRows
<1>. HIDE DEF k
<1>5. Tame(cmd[c], k) /\ k.owner = f
  <2>1. GoodRow(cmd[c]) /\ UnfinishedRow(cmd[c]) /\ cmd[c].owner = f
    BY <1>1, Holder
  <2>2. GoodRow(k)
    BY <1>3, <1>4, <2>1
    DEF GoodRow, Decides, TearsDown, LateEntry, UnfinishedRow
  <2>3. ActiveRow(k) = ActiveRow(cmd[c]) /\ UnfinishedRow(k)
    BY <1>4, <2>1 DEF ActiveRow, UnfinishedRow
  <2>. QED
    BY <1>3, <1>4, <2>1, <2>2, <2>3 DEF Tame
<1>6. /\ st \in {"tear", "finish", "authority", "control", "status",
                 "supersede"}
      /\ st \in {"control", "status"} => entry \in {"processing", "failed"}
      /\ st = "authority" => k.disp /= "none"
      /\ st = "tear" => LateEntry(entry)
      /\ st = "control" => Withheld(k)
      /\ st = "status" => /\ k.want /= "none" /\ k.disp = "none"
                          /\ ~ Withheld(k)
  BY <1>3, <1>4 DEF AfterGuard, PreStatus, Withheld, Refused, RepeatedEnd,
     LateCompletion, LateEntry, Statuses
<1>. HIDE DEF st
<1>7. FitsAt(st, k) /\ st \in Stages \ {"guard"}
  BY <1>4, <1>6 DEF FitsAt, Stages, Workflow, Decides, TearsDown
<1>8. p \in Processes /\ p.at = st /\ p.c = c
  BY <1>2, <1>7 DEF Processes
<1>9. /\ cmd' = [cmd EXCEPT ![c] = k] /\ fin' = [fin EXCEPT ![f] = p]
      /\ UNCHANGED <<job, reorder, writes, unparks>>
  BY <1>2 DEF Guard, k, st, Processes
<1>. HIDE DEF p
<1>a. Fits(p, k)
  BY <1>7, <1>8 DEF Fits
<1>. QED
  BY <1>1, <1>5, <1>8, <1>9, <1>a, HolderMoves DEF TypeOK

\* acquire_delivery_control: the marker is taken in the entry status.
LEMMA AcquireDeliveryControlStep ==
    ASSUME IInv, NEW f \in Finalizers, AcquireDeliveryControl(f)
    PROVE  IInv'
<1>. DEFINE c == fin[f].c
            p == [fin[f] EXCEPT !.at = "ship"]
<1>1. /\ Holds(f) /\ TypeOK /\ fin[f].at = "control"
      /\ UNCHANGED <<cmd, reorder, writes, unparks>>
  BY DEF AcquireDeliveryControl, At, IInv
<1>2. c \in Reports /\ fin[f] \in Processes /\ FitsAt("control", cmd[c])
  BY <1>1, Holder DEF Fits
<1>3. CASE /\ job.status = cmd[c].entry
           /\ job' = [job EXCEPT !.ctl = c] /\ Go(f, "ship")
  <2>a. c \in 0..(MaxReports + 1)
    BY <1>2, CompletionConstants DEF Reports
  <2>1. /\ job' \in JobRows /\ job'.hwm = job.hwm
        /\ job'.status = job.status /\ job'.ctl = c
    BY <1>1, <1>3, <2>a DEF TypeOK, JobRows
  <2>2. p \in Processes /\ p.at = "ship" /\ p.c = c
    BY <1>2 DEF Processes, Stages, Workflow
  <2>3. fin' = [fin EXCEPT ![f] = p]
    BY <1>2, <1>3 DEF Go, Processes
  <2>. HIDE DEF p
  <2>4. Fits(p, cmd[c])
    BY <1>2, <2>2 DEF Fits, FitsAt
  <2>5. /\ job'.status = cmd[job'.ctl].entry
        /\ reorder' \in BOOLEAN /\ writes' \in Seq(Reports)
        /\ unparks' \in 0..MaxUnparks
    BY <1>1, <1>3, <2>1 DEF TypeOK
  <2>6. /\ Tame(cmd[c], cmd[c]) /\ cmd[c].owner \in {f, NoOne}
        /\ cmd' = [cmd EXCEPT ![c] = cmd[c]]
    BY <1>1, Holder
  <2>. QED
    BY <1>1, <2>1, <2>2, <2>3, <2>4, <2>5, <2>6, HolderMoves
<1>4. CASE Go(f, "supersede") /\ UNCHANGED job
  <2>1. "supersede" \in Stages \ {"guard"} /\ FitsAt("supersede", cmd[c])
    BY DEF Stages, FitsAt
  <2>. QED
    BY <1>1, <1>4, <2>1, Holder, HolderGoes
<1>. QED
  BY <1>3, <1>4 DEF AcquireDeliveryControl

\* assert_delivery_control changes nothing but the way.
LEMMA AssertDeliveryControlStep ==
    ASSUME IInv, NEW f \in Finalizers, AssertDeliveryControl(f)
    PROVE  IInv'
<1>. DEFINE c == fin[f].c
            st == IF job.status = cmd[c].entry /\ job.ctl = c THEN "shipping"
                  ELSE "supersede"
<1>1. /\ Holds(f) /\ fin[f].at = "assert" /\ Go(f, st)
      /\ UNCHANGED <<job, cmd, reorder, writes, unparks>>
  BY DEF AssertDeliveryControl, At
<1>2. st \in Stages \ {"guard"} /\ FitsAt(st, cmd[c])
  BY <1>1, Holder DEF Fits, FitsAt, Stages, Workflow
<1>. HIDE DEF st
<1>. QED
  BY <1>1, <1>2, Holder, HolderGoes

\* Where a delivery leads, with what its command needs there.
LEMMA AfterShipFits ==
    ASSUME NEW c, NEW k, Withheld(cmd[c]) \/ cmd[c].disp /= "none",
           Decides(cmd[c]), cmd[c].disp \in {"none", cmd[c].want},
           k.want = cmd[c].want, k.disp = cmd[c].disp,
           k.reordered = cmd[c].reordered, k.entry = cmd[c].entry,
           Withheld(k) => k.fx["ship"].state = "done"
    PROVE  AfterShip(c) \in Stages \ {"guard"} /\ FitsAt(AfterShip(c), k)
  BY DEF AfterShip, PreStatus, Withheld, FitsAt, Stages, Workflow, Terminal,
     Decides, TearsDown

\* Where a delivery that failed goes on (legacy_job_completion.py, ship gate).
LEMMA UnshippedFits ==
    ASSUME NEW c, NEW k, Withheld(cmd[c]) \/ cmd[c].disp /= "none",
           cmd[c].disp \in {"none", cmd[c].want},
           k.want = cmd[c].want, k.disp = cmd[c].disp,
           k.reordered = cmd[c].reordered
    PROVE  LET st == IF PreStatus(c) THEN "finish" ELSE AfterShip(c) IN
           st \in Stages \ {"guard"} /\ FitsAt(st, k)
  BY DEF AfterShip, PreStatus, Withheld, FitsAt, Stages, Workflow, Terminal,
     Decides, TearsDown

\* What a step of an effect leaves alone.
LEMMA EffectKeeps ==
    ASSUME NEW k, GoodRow(k), NEW e \in Effects,
           NEW l \in {Completed(k, e), GroupRetry(k, e), Prepared(k, e)}
    PROVE  /\ l.owner = k.owner /\ l.live = k.live /\ l.state = k.state
           /\ l.want = k.want /\ l.disp = k.disp /\ l.entry = k.entry
           /\ l.reordered = k.reordered /\ l.active = k.active
           /\ l = Completed(k, e) => l.fx[e].state = "done"
           /\ l = Prepared(k, e) => l.fx[e].state = "pending"
           /\ l = GroupRetry(k, e) =>
                 \A d \in Effects : l.fx[d].state = k.fx[d].state
<1>1. k \in CommandRows /\ k.fx \in [Effects -> EffectRows]
  BY EffectTypes DEF GoodRow
<1>2. \E y : l = [k EXCEPT !.fx = y]
  BY DEF Completed, GroupRetry, Prepared
<1>3. /\ l.owner = k.owner /\ l.live = k.live /\ l.state = k.state
      /\ l.want = k.want /\ l.disp = k.disp /\ l.entry = k.entry
      /\ l.reordered = k.reordered /\ l.active = k.active
  BY <1>1, <1>2 DEF CommandRows
<1>4. Completed(k, e).fx[e].state = "done"
  BY <1>1 DEF Completed, CommandRows, EffectRows
<1>6. Prepared(k, e).fx[e].state = "pending"
  BY <1>1 DEF Prepared, CommandRows
<1>5. \A d \in Effects : GroupRetry(k, e).fx[d].state = k.fx[d].state
  BY <1>1 DEF GroupRetry, CommandRows, EffectRows
<1>. QED
  BY <1>3, <1>4, <1>5, <1>6

\* The delivery is begun, skipped or spent (_prepare).
LEMMA BeginShipStep ==
    ASSUME IInv, NEW f \in Finalizers, BeginShip(f)
    PROVE  IInv'
<1>. DEFINE c == fin[f].c
<1>1. /\ Holds(f) /\ fin[f].at = "ship"
      /\ UNCHANGED <<job, reorder, writes, unparks>>
  BY DEF BeginShip, At
<1>2. /\ GoodRow(cmd[c]) /\ cmd[c].owner = f
      /\ Withheld(cmd[c]) \/ cmd[c].disp /= "none"
      /\ Decides(cmd[c]) /\ cmd[c].disp \in {"none", cmd[c].want}
  BY <1>1, Holder DEF Fits, FitsAt, GoodRow
<1>3. CASE Settled(c, "ship") /\ Go(f, AfterShip(c)) /\ UNCHANGED cmd
  <2>1. AfterShip(c) \in Stages \ {"guard"} /\ FitsAt(AfterShip(c), cmd[c])
    BY <1>2, <1>3, AfterShipFits DEF Settled
  <2>. QED
    BY <1>1, <1>3, <2>1, Holder, HolderGoes
<1>4. CASE Spent(c, "ship") /\ Unshipped(f, c) /\ UNCHANGED cmd
  <2>. DEFINE st == IF PreStatus(c) THEN "finish" ELSE AfterShip(c)
  <2>1. st \in Stages \ {"guard"} /\ FitsAt(st, cmd[c])
    BY <1>2, UnshippedFits
  <2>2. Block(f, st)
    BY <1>4 DEF Unshipped
  <2>. HIDE DEF st
  <2>. QED
    BY <1>1, <1>4, <2>1, <2>2, Holder, HolderBlocks
<1>5. CASE /\ ~ Settled(c, "ship") /\ ~ Spent(c, "ship")
           /\ cmd' = [cmd EXCEPT ![c] = Prepared(@, "ship")]
           /\ Go(f, IF PreStatus(c) THEN "assert" ELSE "shipping")
  <2>. DEFINE k == Prepared(cmd[c], "ship")
              st == IF PreStatus(c) THEN "assert" ELSE "shipping"
  <2>1. Tame(cmd[c], k)
    BY <1>2, <1>5, PreparedTame DEF Settled, Spent, Effects
  <2>2. /\ k.owner = f /\ k.want = cmd[c].want /\ k.disp = cmd[c].disp
        /\ k.reordered = cmd[c].reordered /\ k.entry = cmd[c].entry
    BY <1>2, EffectKeeps DEF Effects
  <2>3. cmd' = [cmd EXCEPT ![c] = k] /\ Go(f, st)
    BY <1>5
  <2>. HIDE DEF k
  <2>4. st \in Stages \ {"guard"} /\ FitsAt(st, k)
    BY <1>2, <2>2 DEF FitsAt, Withheld, Stages, Workflow, Decides
  <2>. HIDE DEF st
  <2>. QED
    BY <1>1, <2>1, <2>2, <2>3, <2>4, HolderGoes
<1>6. CASE Spent(c, "ship") /\ Go(f, "retry") /\ UNCHANGED cmd
  <2>1. "retry" \in Stages \ {"guard"} /\ FitsAt("retry", cmd[c])
    BY DEF Stages, FitsAt
  <2>. QED
    BY <1>1, <1>6, <2>1, Holder, HolderGoes
<1>. QED
  BY <1>3, <1>4, <1>5, <1>6 DEF BeginShip

\* A settled delivery lets S17 go on (_settle).
LEMMA ShipDoneStep ==
    ASSUME IInv, NEW f \in Finalizers, ShipDone(f)
    PROVE  IInv'
<1>. DEFINE c == fin[f].c
            k == Completed(cmd[c], "ship")
<1>1. /\ Holds(f) /\ fin[f].at = "shipping"
      /\ cmd' = [cmd EXCEPT ![c] = k] /\ Go(f, AfterShip(c))
      /\ UNCHANGED <<job, reorder, writes, unparks>>
  BY DEF ShipDone, At
<1>2. /\ GoodRow(cmd[c]) /\ cmd[c].owner = f
      /\ Withheld(cmd[c]) \/ cmd[c].disp /= "none"
      /\ Decides(cmd[c]) /\ cmd[c].disp \in {"none", cmd[c].want}
  BY <1>1, Holder DEF Fits, FitsAt, GoodRow
<1>3. Tame(cmd[c], k)
  BY <1>2, CompletedTame DEF Effects
<1>4. /\ k.owner = f /\ k.want = cmd[c].want /\ k.disp = cmd[c].disp
      /\ k.reordered = cmd[c].reordered /\ k.entry = cmd[c].entry
      /\ k.fx["ship"].state = "done"
  BY <1>2, EffectKeeps DEF Effects
<1>. HIDE DEF k
<1>5. AfterShip(c) \in Stages \ {"guard"} /\ FitsAt(AfterShip(c), k)
  BY <1>2, <1>4, AfterShipFits
<1>. QED
  BY <1>1, <1>3, <1>4, <1>5, HolderGoes

\* A failed delivery of a withheld command never reaches S17.
LEMMA ShipFailsStep ==
    ASSUME IInv, NEW f \in Finalizers, ShipFails(f)
    PROVE  IInv'
<1>. DEFINE c == fin[f].c
            k == GroupRetry(cmd[c], "ship")
            st == IF PreStatus(c) THEN "finish" ELSE AfterShip(c)
<1>1. /\ Holds(f) /\ fin[f].at = "shipping"
      /\ cmd' = [cmd EXCEPT ![c] = k] /\ Block(f, st)
      /\ UNCHANGED <<job, reorder, writes, unparks>>
  BY DEF ShipFails, At, Unshipped
<1>2. /\ GoodRow(cmd[c]) /\ cmd[c].owner = f
      /\ Withheld(cmd[c]) \/ cmd[c].disp /= "none"
      /\ Decides(cmd[c]) /\ cmd[c].disp \in {"none", cmd[c].want}
  BY <1>1, Holder DEF Fits, FitsAt, GoodRow
<1>3. Tame(cmd[c], k)
  BY <1>2, GroupRetryTame DEF Effects
<1>4. /\ k.owner = f /\ k.want = cmd[c].want /\ k.disp = cmd[c].disp
      /\ k.reordered = cmd[c].reordered
  BY <1>2, EffectKeeps DEF Effects
<1>. HIDE DEF k
<1>5. st \in Stages \ {"guard"} /\ FitsAt(st, k)
  BY <1>2, <1>4, UnshippedFits
<1>. HIDE DEF st
<1>. QED
  BY <1>1, <1>3, <1>4, <1>5, HolderBlocks

\* S17 publishes what was delivered, and gives the marker back.
LEMMA WriteStatusStep ==
    ASSUME IInv, NEW f \in Finalizers, WriteStatus(f)
    PROVE  IInv'
<1>. DEFINE c == fin[f].c
            want == cmd[c].want
            k == [cmd[c] EXCEPT !.disp = want]
            p == [fin[f] EXCEPT !.at = "authority"]
<1>1. /\ Holds(f) /\ fin[f].at = "status" /\ TypeOK
      /\ UNCHANGED <<reorder, unparks>>
  BY DEF WriteStatus, At, IInv
<1>2. /\ GoodRow(cmd[c]) /\ cmd[c] \in CommandRows /\ cmd[c].owner = f
      /\ UnfinishedRow(cmd[c]) /\ c \in Reports /\ fin[f] \in Processes
      /\ want /= "none" /\ cmd[c].disp = "none"
      /\ Withheld(cmd[c]) => cmd[c].fx["ship"].state = "done"
      /\ Decides(cmd[c])
  BY ZenonT(60), <1>1, Holder DEF Fits, FitsAt, GoodRow
<1>3. want \in Statuses \ {"processing"}
  BY <1>2, CompletionConstants DEF CommandRows
<1>4. CASE Go(f, "supersede") /\ UNCHANGED <<job, cmd, writes>>
  <2>1. "supersede" \in Stages \ {"guard"} /\ FitsAt("supersede", cmd[c])
    BY DEF Stages, FitsAt
  <2>. QED
    BY <1>1, <1>4, <2>1, Holder, HolderGoes
<1>5. CASE /\ \E d : job' = [job EXCEPT
                  !.status = want, !.ctl = Nobody, !.decision = d,
                  !.agent = @ /\ want /= "paused"] /\ d \in {0, job.decision}
           /\ cmd' = [cmd EXCEPT ![c].disp = want]
           /\ writes' = Append(writes, c)
           /\ Go(f, "authority")
  <2>1. PICK d : /\ job' = [job EXCEPT !.status = want, !.ctl = Nobody,
                        !.decision = d, !.agent = @ /\ want /= "paused"]
                 /\ d \in {0, job.decision}
    BY <1>5
  <2>2. /\ job' \in JobRows /\ job'.hwm = job.hwm /\ job'.ctl = 0
        /\ job'.status = want
    <3>1. /\ 0 \in 0..(MaxReports + 1) /\ d \in 0..1
          /\ (job.agent /\ want /= "paused") \in BOOLEAN
      BY <1>1, <2>1, CompletionConstants DEF TypeOK, JobRows
    <3>. QED
      BY <1>1, <1>3, <2>1, <3>1 DEF TypeOK, JobRows, Nobody
  <2>3. job'.ctl \notin Reports
    BY <2>2, CompletionConstants DEF Reports
  <2>4. /\ k \in CommandRows /\ k.disp = want /\ k.owner = f
        /\ k.state = cmd[c].state /\ k.attempts = cmd[c].attempts
        /\ k.fx = cmd[c].fx /\ k.entry = cmd[c].entry
        /\ k.active = cmd[c].active /\ k.reordered = cmd[c].reordered
        /\ k.want = want /\ k.out = cmd[c].out
    BY <1>2, <1>3 DEF CommandRows
  <2>5. cmd' = [cmd EXCEPT ![c] = k]
    BY <1>5
  <2>. HIDE DEF k
  <2>6. GoodRow(k)
    BY <1>2, <1>3, <2>4
    DEF GoodRow, Withheld, Decides, TearsDown, UnfinishedRow
  <2>7. ActiveRow(k) = ActiveRow(cmd[c]) /\ UnfinishedRow(k)
    BY <1>2, <2>4 DEF ActiveRow, UnfinishedRow
  <2>8. Tame(cmd[c], k)
    BY <1>2, <2>4, <2>6, <2>7 DEF Tame
  <2>9. p \in Processes /\ p.at = "authority" /\ p.c = c
    BY <1>2 DEF Processes, Stages, Workflow
  <2>a. fin' = [fin EXCEPT ![f] = p]
    BY <1>2, <1>5 DEF Go, Processes
  <2>. HIDE DEF p
  <2>b. Fits(p, k)
    BY <1>2, <2>4, <2>9 DEF Fits, FitsAt
  <2>c. /\ writes' \in Seq(Reports) /\ reorder' \in BOOLEAN
        /\ unparks' \in 0..MaxUnparks
    BY <1>1, <1>2, <1>5 DEF TypeOK
  <2>d. job'.status /= "processing"
    BY <1>3, <2>2
  <2>e. k.owner \in {f, NoOne}
    BY <2>4
  <2>. QED
    BY <1>1, <2>2, <2>3, <2>5, <2>8, <2>9, <2>a, <2>b, <2>c, <2>d, <2>e,
       HolderMoves
<1>. QED
  BY <1>4, <1>5 DEF WriteStatus

\* assert_disposition_authority changes nothing but the way.
LEMMA AssertDispositionAuthorityStep ==
    ASSUME IInv, NEW f \in Finalizers, AssertDispositionAuthority(f)
    PROVE  IInv'
<1>. DEFINE c == fin[f].c
            st == IF job.status = cmd[c].disp
                  THEN IF cmd[c].disp \in Terminal THEN "ship" ELSE "finish"
                  ELSE IF ActiveTeardown(c) THEN "retry" ELSE "supersede"
<1>1. /\ Holds(f) /\ fin[f].at = "authority" /\ Go(f, st)
      /\ UNCHANGED <<job, cmd, reorder, writes, unparks>>
  BY DEF AssertDispositionAuthority, At
<1>2. cmd[c].disp /= "none" /\ Decides(cmd[c])
  BY <1>1, Holder DEF Fits, FitsAt, GoodRow
<1>3. st \in Stages \ {"guard"} /\ FitsAt(st, cmd[c])
  BY <1>2 DEF FitsAt, Stages, Workflow, Terminal
<1>. HIDE DEF st
<1>. QED
  BY <1>1, <1>3, Holder, HolderGoes

\* The teardown is begun, skipped or spent (_prepare).
LEMMA BeginTearStep ==
    ASSUME IInv, NEW f \in Finalizers, BeginTear(f)
    PROVE  IInv'
<1>. DEFINE c == fin[f].c
<1>1. /\ Holds(f) /\ fin[f].at = "tear"
      /\ UNCHANGED <<job, reorder, writes, unparks>>
  BY DEF BeginTear, At
<1>2. /\ GoodRow(cmd[c]) /\ cmd[c].owner = f /\ TearsDown(cmd[c])
  BY <1>1, Holder DEF Fits, FitsAt
<1>3. ASSUME NEW st \in {"finish", "retry"}, Go(f, st), UNCHANGED cmd
      PROVE  IInv'
  <2>1. st \in Stages \ {"guard"} /\ FitsAt(st, cmd[c])
    BY DEF Stages, FitsAt
  <2>. QED
    BY <1>1, <1>3, <2>1, Holder, HolderGoes
<1>4. CASE /\ ~ Settled(c, "tear") /\ ~ Spent(c, "tear")
           /\ cmd' = [cmd EXCEPT ![c] = Prepared(@, "tear")]
           /\ Go(f, "authorize")
  <2>. DEFINE k == Prepared(cmd[c], "tear")
  <2>1. Tame(cmd[c], k)
    BY <1>2, <1>4, PreparedTame DEF Settled, Spent, Effects
  <2>2. /\ k.owner = f /\ k.disp = cmd[c].disp /\ k.entry = cmd[c].entry
        /\ k.fx["tear"].state = "pending"
    <3>1. "tear" \in Effects
      BY DEF Effects
    <3>2. /\ k.owner = cmd[c].owner /\ k.disp = cmd[c].disp
          /\ k.entry = cmd[c].entry /\ k.fx["tear"].state = "pending"
      BY <1>2, <3>1, EffectKeeps
    <3>. QED
      BY <1>2, <3>2
  <2>3. cmd' = [cmd EXCEPT ![c] = k]
    BY <1>4
  <2>. HIDE DEF k
  <2>4. "authorize" \in Stages \ {"guard"} /\ FitsAt("authorize", k)
    BY <1>2, <2>2 DEF FitsAt, Stages, Workflow, TearsDown
  <2>. QED
    BY <1>1, <1>4, <2>1, <2>2, <2>3, <2>4, HolderGoes
<1>. QED
  BY <1>3, <1>4 DEF BeginTear

\* A failed teardown stays authorized (run_completion_workspace_teardown).
LEMMA TeardownFailsStep ==
    ASSUME IInv, NEW f \in Finalizers, TeardownFails(f)
    PROVE  IInv'
<1>. DEFINE c == fin[f].c
            k == GroupRetry(cmd[c], "tear")
<1>1. /\ Holds(f) /\ cmd' = [cmd EXCEPT ![c] = k] /\ Block(f, "finish")
      /\ UNCHANGED <<job, reorder, writes, unparks>>
  BY DEF TeardownFails, At
<1>2. Tame(cmd[c], k) /\ k.owner = f
  BY <1>1, Holder, GroupRetryTame, EffectKeeps DEF Effects
<1>. HIDE DEF k
<1>3. "finish" \in Stages \ {"guard"} /\ FitsAt("finish", k)
  BY DEF Stages, FitsAt
<1>. QED
  BY <1>1, <1>2, <1>3, HolderBlocks

\* A teardown that settles has an outcome, and is authorized no longer.
LEMMA TearSettles ==
    ASSUME NEW k, GoodRow(k), UnfinishedRow(k), TearsDown(k),
           NEW o \in {"completed", "deferred"}, NEW a \in BOOLEAN, ~ a,
           NEW l, l = [Completed(k, "tear") EXCEPT !.out = o, !.active = a]
    PROVE  /\ Tame(k, l) /\ l.owner = k.owner /\ l.out = o
           /\ l.state = k.state /\ l.entry = k.entry /\ l.disp = k.disp
<1>. DEFINE m == Completed(k, "tear")
            x == [k.fx["tear"] EXCEPT !.state = "done", !.open = FALSE]
<1>1. k \in CommandRows /\ k.fx["tear"] \in EffectRows
  BY EffectTypes DEF GoodRow
<1>2. x \in EffectRows /\ x.state = "done"
  BY <1>1 DEF EffectRows
<1>3. m = Put(k, "tear", x)
  BY DEF Completed, Put
<1>. HIDE DEF x
<1>4. /\ m \in CommandRows /\ m.fx["tear"].state = "done"
      /\ m.fx["ship"] = k.fx["ship"] /\ m.state = k.state
      /\ m.owner = k.owner /\ m.attempts = k.attempts
      /\ m.disp = k.disp /\ m.entry = k.entry /\ m.want = k.want
      /\ m.reordered = k.reordered
  <2>1. "tear" \in Effects /\ "ship" \in Effects \ {"tear"}
    BY DEF Effects
  <2>. QED
    BY <1>1, <1>2, <1>3, <2>1, PutRow
<1>. HIDE DEF m
<1>5. l = [m EXCEPT !.out = o, !.active = a]
  BY DEF m
<1>6. /\ l \in CommandRows /\ l.fx = m.fx /\ l.state = m.state
      /\ l.owner = m.owner /\ l.attempts = m.attempts /\ l.disp = m.disp
      /\ l.entry = m.entry /\ l.reordered = m.reordered /\ ~ l.active
      /\ l.want = m.want /\ l.out = o
  BY ZenonT(60), <1>4, <1>5 DEF CommandRows
<1>7. GoodRow(l)
  BY <1>4, <1>6 DEF GoodRow, Effects, Decides, TearsDown
<1>8. Tame(k, l)
  BY <1>4, <1>6, <1>7 DEF Tame, ActiveRow, UnfinishedRow
<1>. QED
  BY <1>4, <1>6, <1>8

\* A settled teardown frees the job.
LEMMA TeardownDoneStep ==
    ASSUME IInv, NEW f \in Finalizers, TeardownDone(f)
    PROVE  IInv'
<1>. DEFINE c == fin[f].c
            k == [Completed(cmd[c], "tear") EXCEPT !.out = "completed",
                                                   !.active = FALSE]
<1>1. /\ Holds(f) /\ fin[f].at = "tearing"
      /\ cmd' = [cmd EXCEPT ![c] = k] /\ Go(f, "finish")
      /\ UNCHANGED <<job, reorder, writes, unparks>>
  BY DEF TeardownDone, At
<1>2. /\ GoodRow(cmd[c]) /\ UnfinishedRow(cmd[c]) /\ cmd[c].owner = f
      /\ TearsDown(cmd[c])
  BY <1>1, Holder DEF Fits, FitsAt
<1>. HIDE DEF k
<1>3. Tame(cmd[c], k) /\ k.owner \in {f, NoOne}
  BY <1>2, TearSettles DEF k
<1>4. "finish" \in Stages \ {"guard"} /\ FitsAt("finish", k)
  BY DEF Stages, FitsAt
<1>. QED
  BY <1>1, <1>3, <1>4, HolderGoes

\* _finish ends a command that left nothing pending.
LEMMA FinishStep ==
    ASSUME IInv, NEW f \in Finalizers, Finish(f)
    PROVE  IInv'
<1>. DEFINE c == fin[f].c
            k == Ended(cmd[c], "done", Outcome(c))
<1>1. /\ Holds(f) /\ cmd' = [cmd EXCEPT ![c] = k] /\ Leave(f)
      /\ UNCHANGED <<job, reorder, writes, unparks>>
  BY DEF Finish, At
<1>2. GoodRow(cmd[c]) /\ cmd[c] \in CommandRows
  BY <1>1, Holder DEF GoodRow
<1>3. Outcome(c) \in Statuses \cup {"none"}
  BY <1>2 DEF Outcome, CommandRows
<1>4. Tame(cmd[c], k)
  BY <1>2, <1>3, EndedTame
<1>5. k.owner = NoOne
  BY NoCommandRow DEF Ended, CommandRows, NoCommand
<1>. HIDE DEF k
<1>. QED
  BY <1>1, <1>4, <1>5, HolderLeaves

\* authorize_workspace_teardown: only the newest report of a job that is not
\* at work gets its teardown authorized.
LEMMA AuthorizeTeardownStep ==
    ASSUME IInv, NEW f \in Finalizers, AuthorizeTeardown(f)
    PROVE  IInv'
<1>. DEFINE c == fin[f].c
            expected == IF cmd[c].disp /= "none" THEN cmd[c].disp
                        ELSE cmd[c].entry
<1>1. /\ Holds(f) /\ fin[f].at = "authorize" /\ TypeOK
      /\ UNCHANGED <<job, reorder, writes, unparks>>
  BY DEF AuthorizeTeardown, At, IInv
<1>2. /\ GoodRow(cmd[c]) /\ cmd[c].owner = f /\ UnfinishedRow(cmd[c])
      /\ cmd[c] \in CommandRows /\ c \in Reports /\ fin[f] \in Processes
      /\ TearsDown(cmd[c]) /\ cmd[c].fx["tear"].state = "pending"
  BY ZenonT(60), <1>1, Holder DEF Fits, FitsAt, GoodRow
<1>3. ASSUME NEW st \in {"finish", "supersede"}, Block(f, st),
             cmd' = [cmd EXCEPT ![c] = GroupRetry(@, "tear")]
      PROVE  IInv'
  <2>. DEFINE k == GroupRetry(cmd[c], "tear")
  <2>1. Tame(cmd[c], k) /\ k.owner = f
    <3>1. "tear" \in Effects
      BY DEF Effects
    <3>2. Tame(cmd[c], k)
      BY <1>2, <3>1, GroupRetryTame
    <3>3. k.owner = cmd[c].owner
      BY <1>2, <3>1, EffectKeeps
    <3>. QED
      BY <1>2, <3>2, <3>3
  <2>2. cmd' = [cmd EXCEPT ![c] = k]
    BY <1>3
  <2>. HIDE DEF k
  <2>3. st \in Stages \ {"guard"} /\ FitsAt(st, k)
    BY DEF Stages, FitsAt
  <2>. QED
    BY <1>1, <1>3, <2>1, <2>2, <2>3, HolderBlocks
<1>4. CASE /\ ~ cmd[c].active /\ Go(f, "finish")
           /\ cmd' = [cmd EXCEPT ![c] =
                        [Completed(@, "tear") EXCEPT !.out = "deferred"]]
  <2>. DEFINE k == [Completed(cmd[c], "tear") EXCEPT !.out = "deferred",
                                                     !.active = FALSE]
  <2>1. cmd' = [cmd EXCEPT ![c] = k]
    <3>1. /\ Completed(cmd[c], "tear").active = FALSE
          /\ \A o : [Completed(cmd[c], "tear") EXCEPT !.out = o]
                  = [Completed(cmd[c], "tear") EXCEPT !.out = o,
                                                      !.active = FALSE]
      BY <1>2, <1>4 DEF Completed, CommandRows
    <3>. QED
      BY <1>4, <3>1
  <2>. HIDE DEF k
  <2>2. Tame(cmd[c], k) /\ k.owner \in {f, NoOne}
    BY <1>2, TearSettles DEF k
  <2>3. "finish" \in Stages \ {"guard"} /\ FitsAt("finish", k)
    BY DEF Stages, FitsAt
  <2>. QED
    BY <1>1, <1>4, <2>1, <2>2, <2>3, HolderGoes
<1>5. CASE /\ job.hwm = c /\ job.status = expected
           /\ cmd' = [cmd EXCEPT ![c].active = TRUE] /\ Go(f, "tearing")
  <2>. DEFINE k == [cmd[c] EXCEPT !.active = TRUE]
              p == [fin[f] EXCEPT !.at = "tearing"]
  <2>1. cmd' = [cmd EXCEPT ![c] = k] /\ fin' = [fin EXCEPT ![f] = p]
    BY <1>2, <1>5 DEF Go, Processes
  <2>2. /\ k \in CommandRows /\ k.fx = cmd[c].fx /\ k.state = cmd[c].state
        /\ k.owner = f /\ k.attempts = cmd[c].attempts
        /\ k.disp = cmd[c].disp /\ k.entry = cmd[c].entry
        /\ k.reordered = cmd[c].reordered /\ k.want = cmd[c].want
        /\ k.out = cmd[c].out
    BY <1>2 DEF CommandRows
  <2>3. p \in Processes /\ p.at = "tearing" /\ p.c = c
    BY <1>2 DEF Processes, Stages, Workflow
  <2>. HIDE DEF k, p
  <2>4. GoodRow(k)
    BY <1>2, <2>2 DEF GoodRow, Decides, TearsDown, UnfinishedRow
  <2>5. Fits(p, k)
    BY <1>2, <2>2, <2>3 DEF Fits, FitsAt, TearsDown
  <2>6. /\ cmd' \in [Reports -> CommandRows]
        /\ fin' \in [Finalizers -> Processes] /\ Rows' /\ StagesFit'
    BY <1>1, <2>1, <2>2, <2>3, <2>4, <2>5, HolderStep DEF IInv
  <2>7. cmd'[c] = k /\ \A d \in Reports \ {c} : cmd'[d] = cmd[d]
    BY <1>1, <1>2, <2>1 DEF TypeOK
  <2>8. expected /= "processing"
    BY <1>2 DEF GoodRow, LateEntry, TearsDown
  <2>9. TeardownHoldsJob'
    <3>1. job' = job
      BY <1>1
    <3>2. SUFFICES ASSUME NEW d \in Reports, ActiveTeardown(d)'
                   PROVE  /\ job'.hwm = d
                          /\ Unfinished(d)'
                          /\ job'.status /= "processing"
      BY DEF TeardownHoldsJob
    <3>3. CASE d = c
      BY <1>2, <1>5, <2>2, <2>7, <2>8, <3>1, <3>3 DEF Unfinished, UnfinishedRow
    <3>4. CASE d /= c
      <4>1. cmd'[d] = cmd[d]
        BY <2>7, <3>4
      <4>2. ActiveTeardown(d)
        BY <3>2, <4>1 DEF ActiveTeardown
      <4>. QED
        BY <1>1, <3>1, <4>1, <4>2 DEF IInv, TeardownHoldsJob, Unfinished
    <3>. QED
      BY <3>3, <3>4
  <2>a. DeliveryExcludesPeople'
    BY <1>1, <2>2, <2>7
    DEF IInv, DeliveryExcludesPeople, Unfinished
  <2>. QED
    BY <1>1, <2>6, <2>9, <2>a DEF IInv, TypeOK
<1>. QED
  BY <1>3, <1>4, <1>5 DEF AuthorizeTeardown

\* _claim starts a process at the resolution of a command with attempts left.
LEMMA ClaimStep ==
    ASSUME IInv, NEW f \in Finalizers, NEW c \in Reports, Claim(f, c)
    PROVE  IInv'
<1>. DEFINE k == Claimed(cmd[c], f)
            p == [Free EXCEPT !.at = "resolve", !.c = c]
<1>1. /\ TypeOK /\ fin[f].at = "idle"
      /\ cmd' = [cmd EXCEPT ![c] = k] /\ fin' = [fin EXCEPT ![f] = p]
      /\ UNCHANGED <<job, reorder, writes, unparks>>
  BY DEF Claim, IInv
<1>2. GoodRow(cmd[c]) /\ cmd[c] \in CommandRows
  BY DEF IInv, Rows, GoodRow
<1>3. /\ cmd[c].state \in {"pending", "finalizing"}
      /\ cmd[c].state = "finalizing" => ~ cmd[c].live
      /\ cmd[c].attempts < MaxAttempts
  BY <1>2, CompletionConstants DEF Claim, Claimable, Exhausted, CommandRows
<1>4. Tame(cmd[c], k) /\ k.owner = f
  BY <1>2, <1>3, ClaimedTame DEF Claimed, CommandRows
<1>5. p \in Processes /\ p.at = "resolve" /\ p.c = c
  <2>1. c \in 0..MaxReports /\ "resolve" \in Stages
    BY CompletionConstants DEF Reports, Stages
  <2>2. Free \in Processes
    BY CompletionConstants DEF Free, Processes, Stages
  <2>. QED
    BY <2>1, <2>2 DEF Processes
<1>. HIDE DEF k, p
<1>6. GoodRow(k)
  BY <1>4 DEF Tame
<1>7. cmd'[c] = k /\ \A d \in Reports \ {c} : cmd'[d] = cmd[d]
  BY <1>1
  DEF TypeOK
<1>8. fin'[f] = p /\ \A g \in Finalizers \ {f} : fin'[g] = fin[g]
  BY <1>1 DEF TypeOK
<1>9. Rows'
  BY <1>6, <1>7 DEF IInv, Rows
<1>a. ASSUME NEW g \in Finalizers PROVE Stage(g)'
  <2>1. Stage(g)
    BY DEF IInv, StagesFit
  <2>2. CASE g = f
    BY <1>5, <1>8, <2>2 DEF Stage, Fits, FitsAt
  <2>3. CASE g /= f
    BY <1>4, <1>7, <1>8, <2>1, <2>3 DEF Stage, Holds
  <2>. QED
    BY <2>2, <2>3
<1>b. TypeOK'
  BY <1>1, <1>5, <1>6 DEF TypeOK, GoodRow
<1>c. TeardownHoldsJob'
  BY <1>1, <1>4, TameTeardown DEF IInv
<1>d. DeliveryExcludesPeople'
  <2>1. \A d \in Reports : Unfinished(d)' => Unfinished(d)
    BY <1>4, <1>7 DEF Tame, Unfinished, UnfinishedRow
  <2>2. \A d \in Reports : cmd'[d].entry = cmd[d].entry
    BY ZenonT(60), <1>2, <1>7 DEF k, Claimed, CommandRows
  <2>. QED
    BY <1>1, <2>1, <2>2 DEF IInv, DeliveryExcludesPeople
<1>. QED
  BY <1>9, <1>a, <1>b, <1>c, <1>d DEF IInv, StagesFit

-----------------------------------------------------------------------------
(***************************************************************************)
(* The agent, the clocks, the operator and the other writers.              *)
(***************************************************************************)

\* _park_unclaimable keeps the invariant.
LEMMA ParkUnclaimableStep ==
    ASSUME IInv, NEW c \in Reports, ParkUnclaimable(c)
    PROVE  IInv'
<1>. DEFINE k == Released(cmd[c], "parked")
<1>1. /\ cmd' = [cmd EXCEPT ![c] = k] /\ fin' = fin
      /\ UNCHANGED <<job, reorder, writes, unparks>>
      /\ UnfinishedRow(cmd[c])
  BY DEF ParkUnclaimable, Claimable, UnfinishedRow
<1>2. GoodRow(cmd[c]) /\ unparks' \in 0..MaxUnparks
  BY <1>1 DEF IInv, Rows, TypeOK
<1>3. Tame(cmd[c], k) /\ k.state = "parked"
  BY <1>1, <1>2, ReleasedTame
<1>. HIDE DEF k
<1>. QED
  BY <1>1, <1>2, <1>3, OutsideKeepsJob

\* accept admits no report past an authorized teardown.
LEMMA AcceptStep ==
    ASSUME IInv, NEW want \in Dispositions, Accept(want)
    PROVE  IInv'
<1>. DEFINE c == job.hwm + 1
            k == Accepted(want)
<1>1. /\ TypeOK /\ ~ Controlled /\ \A d \in Reports : ~ ActiveTeardown(d)
      /\ cmd' = [cmd EXCEPT ![c] = k] /\ fin' = fin
      /\ job' = [job EXCEPT !.hwm = c, !.agent = job.lane = "pinned"]
      /\ UNCHANGED <<reorder, writes, unparks>>
  BY DEF Accept, MayAccept, IInv
<1>2. c \in Reports /\ c \in 0..MaxReports
  BY <1>1, CompletionConstants DEF Accept, TypeOK, JobRows, Reports
<1>3. /\ k \in CommandRows /\ k.state = "pending" /\ ~ k.active
      /\ k.disp = "none" /\ \A e \in Effects : k.fx[e] = NoEffect
      /\ k.out = "none"
  <2>1. /\ job.status \in Statuses \cup {"none"} /\ job.ver \in 0..MaxControls
        /\ job.decision \in 0..1 /\ want \in Dispositions \cup {"none"}
        /\ reorder \in BOOLEAN /\ "pending" \in CommandStates
    BY <1>1 DEF TypeOK, JobRows, CommandStates
  <2>2. k \in CommandRows
    BY <2>1, NoCommandRow DEF Accepted, CommandRows
  <2>. QED
    BY <2>2 DEF Accepted, NoCommand
<1>4. GoodRow(k)
  BY <1>3 DEF GoodRow, NoEffect, Effects, Terminal
<1>5. /\ job' \in JobRows /\ job'.hwm = c /\ job'.ctl = job.ctl
      /\ job'.status = job.status /\ job'.lane = job.lane
  BY <1>1, <1>2 DEF TypeOK, JobRows
<1>. HIDE DEF k
<1>6. /\ cmd' \in [Reports -> CommandRows]
      /\ fin' \in [Finalizers -> Processes] /\ Rows' /\ StagesFit'
  BY <1>1, <1>2, <1>3, <1>4, OutsideStep DEF IInv
<1>7. TypeOK'
  BY <1>1, <1>5, <1>6 DEF TypeOK
<1>8. cmd'[c] = k /\ \A d \in Reports \ {c} : cmd'[d] = cmd[d]
  BY <1>1, <1>2 DEF TypeOK
<1>9. TeardownHoldsJob'
  BY <1>1, <1>3, <1>8 DEF TeardownHoldsJob, ActiveTeardown
<1>a. DeliveryExcludesPeople'
  BY <1>1, <1>5, CompletionConstants
  DEF DeliveryExcludesPeople, Controlled, Nobody, Reports
<1>. QED
  BY <1>6, <1>7, <1>9, <1>a DEF IInv

\* The job_complete tool touches the context of the job only.
LEMMA RecordDecisionStep ==
    ASSUME IInv, RecordDecision
    PROVE  IInv'
<1>1. TypeOK /\ 1 \in 0..1
  BY DEF IInv
<1>2. /\ job' = [job EXCEPT !.decision = 1, !.calls = 1]
      /\ UNCHANGED <<cmd, fin, reorder, writes, unparks>>
  BY DEF RecordDecision
<1>3. /\ job' \in JobRows /\ job'.hwm = job.hwm
      /\ job'.status = job.status /\ job'.ctl = job.ctl
      /\ job'.lane = job.lane
  BY <1>1, <1>2 DEF TypeOK, JobRows
<1>. QED
  BY <1>1, <1>2, <1>3, JobMoves DEF TypeOK, MarkerHonoured

\* A status write of another actor, which leaves no delivery marker behind
\* unless it is the sweep's.
LEMMA ForeignStep ==
    ASSUME IInv, NEW status \in Statuses, NEW agent \in BOOLEAN,
           NEW ctl \in 0..(MaxReports + 1), NEW decision \in 0..1,
           Foreign(status, agent, ctl, decision),
           status /= "processing" \/ ~ Excluded,
           ctl \in Reports => job.lane = "pinned" /\ status = "cancelled",
           UNCHANGED <<cmd, fin, reorder, writes, unparks>>
    PROVE  IInv'
<1>1. TypeOK
  BY DEF IInv
<1>2. job.ver + 1 \in 0..MaxControls
  BY <1>1, CompletionConstants DEF Foreign, TypeOK, JobRows
<1>3. /\ job' \in JobRows /\ job'.hwm = job.hwm
      /\ job'.status = status /\ job'.ctl = ctl /\ job'.lane = job.lane
  BY <1>1, <1>2 DEF Foreign, TypeOK, JobRows
<1>. QED
  BY <1>1, <1>3, JobMoves DEF TypeOK, MarkerHonoured

\* Neither the absence of a marker nor a person's is a command's.
LEMMA NoMarker ==
    /\ Nobody \in 0..(MaxReports + 1) /\ Human \in 0..(MaxReports + 1)
    /\ Nobody \notin Reports /\ Human \notin Reports
  BY CompletionConstants DEF Nobody, Human, Reports

\* Pauses, cancels, resumes, decisions and dispatch keep the invariant: those
\* that would put the job to work wait for every unfinished command.
LEMMA ControlsStep ==
    ASSUME IInv, Controls
    PROVE  IInv'
<1>1. /\ TypeOK /\ job.agent \in BOOLEAN /\ job.decision \in 0..1
      /\ 0 \in 0..1 /\ job.ctl \in 0..(MaxReports + 1)
  BY DEF IInv, TypeOK, JobRows
<1>2. ~ Controlled => job.ctl = Nobody
  BY DEF Controlled
<1>3. CASE Pause
  BY <1>1, <1>2, <1>3, NoMarker, ForeignStep DEF Pause, Statuses
<1>4. CASE Cancel
  BY <1>1, <1>2, <1>4, NoMarker, ForeignStep DEF Cancel, Statuses
<1>5. CASE DelegationTimeout
  BY <1>1, <1>5, ForeignStep DEF DelegationTimeout, Statuses
<1>6. CASE ClaimControl
  <2>1. /\ job' \in JobRows /\ job'.hwm = job.hwm
        /\ job'.status = job.status /\ job'.ctl = Human
        /\ UNCHANGED <<cmd, fin, writes>>
        /\ reorder' \in BOOLEAN /\ unparks' \in 0..MaxUnparks
    BY <1>1, <1>6, NoMarker DEF ClaimControl, TypeOK, JobRows
  <2>. QED
    BY <2>1, NoMarker, JobMoves
<1>7. CASE Requeue
  BY <1>1, <1>2, <1>7, NoMarker, ForeignStep DEF Requeue, Statuses
<1>8. CASE Dispatch
  BY <1>1, <1>2, <1>8, NoMarker, ForeignStep DEF Dispatch, Statuses
<1>9. ASSUME NEW status \in Terminal \cup {"paused"}, FinishControl(status)
      PROVE  IInv'
  BY <1>1, <1>9, NoMarker, ForeignStep DEF FinishControl, Statuses, Terminal
<1>. QED
  BY <1>3, <1>4, <1>5, <1>6, <1>7, <1>8, <1>9 DEF Controls

\* The operator and the safety net pass by an authorized teardown.
LEMMA OperatorStep ==
    ASSUME IInv, Operator
    PROVE  IInv'
<1>1. TypeOK
  BY DEF IInv
<1>2. CASE SwitchReorder
  BY <1>1, <1>2, JobMoves DEF SwitchReorder, TypeOK, MarkerHonoured
<1>3. ASSUME NEW c \in Reports, SafetyNet(c)
      PROVE  IInv'
  <2>. DEFINE k == Ended(cmd[c], "superseded", "none")
  <2>1. /\ cmd' = [cmd EXCEPT ![c] = k]
        /\ UNCHANGED <<job, fin, reorder, writes, unparks>>
    BY <1>3 DEF SafetyNet
  <2>2. Tame(cmd[c], k) /\ k.state = "superseded"
    BY EndedTame DEF IInv, Rows
  <2>. HIDE DEF k
  <2>. QED
    BY <1>1, <2>1, <2>2, OutsideKeepsJob DEF TypeOK
<1>4. ASSUME NEW c \in Reports, Unpark(c)
      PROVE  IInv'
  <2>. DEFINE k == Rearmed(cmd[c])
  <2>1. /\ cmd' = [cmd EXCEPT ![c] = k] /\ fin' = fin
        /\ UNCHANGED <<job, reorder, writes>>
        /\ cmd[c].state = "parked"
    BY <1>4 DEF Unpark
  <2>2. Tame(cmd[c], k) /\ k.state = "pending"
    BY <2>1, RearmedTame DEF IInv, Rows
  <2>3. unparks' \in 0..MaxUnparks
    BY <1>1, <1>4, CompletionConstants DEF Unpark, TypeOK
  <2>. HIDE DEF k
  <2>. QED
    BY <2>1, <2>2, <2>3, OutsideKeepsJob
<1>5. ASSUME NEW c \in Reports, NEW status \in Terminal, ForceResolve(c, status)
      PROVE  IInv'
  <2>. DEFINE k == Ended(cmd[c], "force_resolved", "none")
  <2>1. /\ cmd' = [cmd EXCEPT ![c] = k] /\ fin' = fin
        /\ UNCHANGED <<reorder, writes, unparks>>
        /\ Foreign(status, FALSE, Nobody, job.decision)
    BY <1>5 DEF ForceResolve
  <2>2. Tame(cmd[c], k) /\ k.state = "force_resolved"
    BY EndedTame DEF IInv, Rows
  <2>. HIDE DEF k
  <2>3. job.ver + 1 \in 0..MaxControls
    BY <1>1, <2>1, CompletionConstants DEF Foreign, TypeOK, JobRows
  <2>4. status \in Statuses \ {"processing"}
    BY DEF Terminal, Statuses
  <2>5. /\ job' \in JobRows /\ job'.hwm = job.hwm
        /\ job'.status = status /\ job'.ctl = Nobody
    BY <1>1, <2>1, <2>3, <2>4, NoMarker DEF Foreign, TypeOK, JobRows
  <2>6. job'.ctl \notin Reports /\ job'.status /= "processing"
    BY <2>4, <2>5, NoMarker
  <2>. QED
    BY <1>1, <2>1, <2>2, <2>5, <2>6, OutsideMoves DEF TypeOK
<1>. QED
  BY <1>2, <1>3, <1>4, <1>5 DEF Operator

\* Leases, windows, deadlines and markers run out.
LEMMA ClocksStep ==
    ASSUME IInv, Clocks
    PROVE  IInv'
<1>1. TypeOK
  BY DEF IInv
<1>2. CASE ControlEnds
  <2>1. /\ job' \in JobRows /\ job'.hwm = job.hwm
        /\ job'.status = job.status /\ job'.ctl = Nobody
        /\ UNCHANGED <<cmd, fin, reorder, writes, unparks>>
    BY <1>1, <1>2, NoMarker DEF ControlEnds, TypeOK, JobRows
  <2>. QED
    BY <1>1, <2>1, NoMarker, JobMoves DEF TypeOK
<1>3. ASSUME NEW c \in Reports, LeaseExpires(c)
      PROVE  IInv'
  <2>. DEFINE k == Lapsed(cmd[c])
  <2>1. /\ cmd' = [cmd EXCEPT ![c] = k]
        /\ UNCHANGED <<job, fin, reorder, writes, unparks>>
    BY <1>3 DEF LeaseExpires
  <2>2. Tame(cmd[c], k) /\ ~ k.live
    BY LapsedOnlyTame DEF IInv, Rows
  <2>. HIDE DEF k
  <2>. QED
    BY <1>1, <2>1, <2>2, OutsideKeepsJob DEF TypeOK
<1>4. ASSUME NEW c \in Reports, DeadlinePasses(c)
      PROVE  IInv'
  <2>. DEFINE k == [Lapsed(cmd[c]) EXCEPT !.late = TRUE]
  <2>1. /\ cmd' = [cmd EXCEPT ![c] = k]
        /\ UNCHANGED <<job, fin, reorder, writes, unparks>>
    BY <1>4 DEF DeadlinePasses
  <2>2. Tame(cmd[c], k) /\ ~ k.live
    BY LapsedTame DEF IInv, Rows
  <2>. HIDE DEF k
  <2>. QED
    BY <1>1, <2>1, <2>2, OutsideKeepsJob DEF TypeOK
<1>5. ASSUME NEW c \in Reports, NEW e \in Effects, WindowCloses(c, e)
      PROVE  IInv'
  <2>. DEFINE k == GroupRetry(cmd[c], e)
  <2>1. /\ cmd' = [cmd EXCEPT ![c] = k]
        /\ UNCHANGED <<job, fin, reorder, writes, unparks>>
    BY <1>5 DEF WindowCloses
  <2>2. GoodRow(cmd[c])
    BY DEF IInv, Rows
  <2>3. Tame(cmd[c], k)
    BY <2>2, GroupRetryTame
  <2>4. /\ k.owner = cmd[c].owner /\ k.live = cmd[c].live
        /\ k.state = cmd[c].state /\ k.want = cmd[c].want
        /\ k.disp = cmd[c].disp /\ k.entry = cmd[c].entry
        /\ k.reordered = cmd[c].reordered
        /\ \A d \in Effects : k.fx[d].state = cmd[c].fx[d].state
    BY <2>2, EffectKeeps
  <2>. HIDE DEF k
  <2>. QED
    BY <1>1, <2>1, <2>3, <2>4, OutsideMoves DEF TypeOK
<1>. QED
  BY <1>2, <1>3, <1>4, <1>5 DEF Clocks

-----------------------------------------------------------------------------
(***************************************************************************)
(* The invariant and what it gives.                                        *)
(***************************************************************************)

\* Every step of a finalizer keeps the invariant.
LEMMA StepKeeps ==
    ASSUME IInv, NEW f \in Finalizers, Step(f)
    PROVE  IInv'
<1>1. CASE \/ LoseTerm(f) \/ RetryOrPark(f) \/ ReleaseForPendingEffects(f)
           \/ Resolve(f) \/ Supersede(f) \/ Guard(f)
  BY <1>1, LostSteps, RetryOrParkStep, ReleaseForPendingEffectsStep,
     ResolveStep, SupersedeStep, GuardStep
<1>2. CASE \/ AcquireDeliveryControl(f) \/ AssertDeliveryControl(f)
           \/ BeginShip(f) \/ ShipDone(f) \/ ShipFails(f)
           \/ WriteStatus(f) \/ AssertDispositionAuthority(f)
  BY <1>2, AcquireDeliveryControlStep, AssertDeliveryControlStep,
     BeginShipStep, ShipDoneStep, ShipFailsStep, WriteStatusStep,
     AssertDispositionAuthorityStep
<1>3. CASE \/ BeginTear(f) \/ AuthorizeTeardown(f)
           \/ TeardownDone(f) \/ TeardownFails(f) \/ Finish(f)
  BY <1>3, BeginTearStep, AuthorizeTeardownStep, TeardownDoneStep,
     TeardownFailsStep, FinishStep
<1>. QED
  BY <1>1, <1>2, <1>3 DEF Step

\* Every step of the system keeps the invariant.
LEMMA NextKeeps ==
    ASSUME IInv, [Next]_vars
    PROVE  IInv'
<1>1. ASSUME NEW f \in Finalizers,
             Step(f) \/ Crash(f) \/ WorkflowFails(f)
      PROVE  IInv'
  BY <1>1, StepKeeps, LostSteps, WorkflowFailsStep
<1>2. ASSUME NEW f \in Finalizers, NEW c \in Reports, Claim(f, c)
      PROVE  IInv'
  BY <1>2, ClaimStep
<1>3. ASSUME NEW c \in Reports, ParkUnclaimable(c)
      PROVE  IInv'
  BY <1>3, ParkUnclaimableStep
<1>4. CASE Agent
  BY <1>4, RecordDecisionStep, AcceptStep DEF Agent
<1>5. CASE Controls
  BY <1>5, ControlsStep
<1>6. CASE Operator
  BY <1>6, OperatorStep
<1>7. CASE Clocks
  BY <1>7, ClocksStep
<1>8. CASE UNCHANGED vars
  BY <1>8
  DEF vars, IInv, TypeOK, Rows, StagesFit, Stage, Holds, TeardownHoldsJob,
      ActiveTeardown, Unfinished, DeliveryExcludesPeople
<1>. QED
  BY <1>1, <1>2, <1>3, <1>4, <1>5, <1>6, <1>7, <1>8 DEF Next

\* A job with no report yet satisfies the invariant.
LEMMA InitGives ==
    ASSUME Init
    PROVE  IInv
<1>1. cmd \in [Reports -> CommandRows] /\ \A c \in Reports : cmd[c] = NoCommand
  BY NoCommandRow DEF Init
<1>2. job \in JobRows
  <2>1. /\ "processing" \in Statuses /\ 0 \in 0..MaxReports
        /\ 0 \in 0..(MaxReports + 1) /\ 0 \in 0..1 /\ 0 \in 0..MaxControls
    BY CompletionConstants DEF Statuses
  <2>. QED
    BY <2>1 DEF Init, JobRows, Nobody
<1>3. /\ Free \in Processes /\ Free.at = "idle"
      /\ fin = [f \in Finalizers |-> Free]
  BY CompletionConstants DEF Init, Free, Processes, Stages
<1>4. TypeOK
  BY <1>1, <1>2, <1>3, CompletionConstants DEF Init, TypeOK
<1>5. Rows
  BY <1>1, NoCommandRow
  DEF Rows, GoodRow, NoCommand, NoEffect, Terminal, Effects
<1>6. StagesFit
  BY <1>3 DEF StagesFit, Stage, Holds
<1>7. TeardownHoldsJob /\ DeliveryExcludesPeople
  BY <1>1
  DEF TeardownHoldsJob, ActiveTeardown, NoCommand, DeliveryExcludesPeople,
      Unfinished
<1>. QED
  BY <1>4, <1>5, <1>6, <1>7 DEF IInv

\* The inductive invariant, for every number of finalizers, reports, attempts,
\* tries, controls and rearmed commands (completion_finalizer.py).
THEOREM CompletionInvariant == Spec => []IInv
<1>1. Init => IInv
  BY InitGives
<1>2. IInv /\ [Next]_vars => IInv'
  BY NextKeeps
<1>. QED
  BY <1>1, <1>2, PTL DEF Spec

\* Every row and every process is of its type: no claim beyond the attempts,
\* no effect beyond its tries (job_completion_commands' CHECK constraints).
THEOREM CompletionTypes == Spec => []TypeOK
<1>1. IInv => TypeOK
  BY DEF IInv
<1>. QED
  BY <1>1, CompletionInvariant, PTL

\* An authorized teardown holds its job until it settles, whatever crashes,
\* lapses, is reported, controlled or repaired meanwhile.
THEOREM TeardownIsExclusive == Spec => []TeardownHoldsJob
<1>1. IInv => TeardownHoldsJob
  BY DEF IInv
<1>. QED
  BY <1>1, CompletionInvariant, PTL

\* A reordered command publishes a terminal status only of what it delivered.
THEOREM DeliveryComesFirst == Spec => []DeliveredBeforePublished
<1>1. IInv => DeliveredBeforePublished
  BY DEF IInv, Rows, GoodRow, DeliveredBeforePublished
<1>. QED
  BY <1>1, CompletionInvariant, PTL

\* The marker of a delivery keeps the job in the status the delivery was
\* decided on, but for the sweep that cancels pinned jobs and ignores it.
THEOREM PeopleExcluded == Spec => []DeliveryExcludesPeople
<1>1. IInv => DeliveryExcludesPeople
  BY DEF IInv
<1>. QED
  BY <1>1, CompletionInvariant, PTL

-----------------------------------------------------------------------------
(***************************************************************************)
(* The kinds of steps there are, as far as the order of the dispositions   *)
(* and the authority they are written with are concerned.  Every action is *)
(* of one of them, and what follows is proved kind by kind.                *)
(***************************************************************************)
Others(c) == \A d \in Reports \ {c} : cmd'[d] = cmd[d]

\* A write of the jobs row by anyone but S17: only a dispatch returns the job
\* to processing, and only it hands the job to an agent; none takes a
\* cancelled job up again while a report is unfinished.
JobStep ==
    /\ job'.lane = job.lane /\ job'.hwm = job.hwm
    /\ job'.status = "processing" =>
          \/ job.status = "processing" /\ job'.ver = job.ver
          \/ ~ Excluded
    /\ job.status = "cancelled" /\ Excluded => job'.status = "cancelled"
    /\ job'.agent =>
          \/ /\ job.agent
             /\ \/ job'.status = job.status
                \/ job.lane = "stateless" /\ job'.status \in {"paused", "cancelled"}
                \/ job.ctl = Human
          \/ job'.status = "processing" /\ job'.ctl = Nobody /\ ~ Excluded
    /\ job'.ctl = Human => ~ job'.agent \/ (job.ctl = Human /\ job.agent)

\* A holder comes to its guard only by the resolution, and to the end of its
\* workflow blocked, with its teardown decided, or after a decision.
FinKept ==
    \A g \in Finalizers :
       Holds(g)' /\ fin'[g].at \in {"guard", "finish"} =>
          \/ Holds(g) /\ fin'[g] = fin[g]
          \/ /\ fin'[g].at = "finish"
             /\ \/ fin'[g].blocked
                \/ cmd'[fin'[g].c].out /= "none"
                \/ Decides(cmd'[fin'[g].c])

\* What a command keeps until it ends.
Journal(k, l) ==
    /\ l.accepted = k.accepted /\ l.seen = k.seen /\ l.want = k.want
    /\ l.entry = k.entry /\ l.disp = k.disp /\ l.result = k.result

JobKind == JobStep /\ FinKept /\ UNCHANGED <<cmd, writes>>

\* A command changes hands, or goes on with its effects.
RowKind(c) ==
    LET k == cmd[c]
        l == cmd'[c]
    IN
    /\ Others(c) /\ Journal(k, l)
    /\ l.state = k.state \/ (UnfinishedRow(k) /\ UnfinishedRow(l))
    /\ k.state = "pending" => l.state = "pending" \/ Oldest(c)
    /\ \/ l.out = k.out
       \/ /\ k.state = "finalizing" /\ l.out /= "none"
          /\ l.out = "deferred" => job.hwm > c
    /\ FinKept /\ UNCHANGED <<job, writes>>

ResolveKind(f) ==
    /\ Holds(f) /\ EntryAuthority(fin[f].c) /= "none"
    /\ fin'[f].c = fin[f].c /\ fin'[f].entry = EntryAuthority(fin[f].c)
    /\ fin'[f].at = "guard"
    /\ \A g \in Finalizers \ {f} : fin'[g] = fin[g]
    /\ UNCHANGED <<job, cmd, writes>>

GuardKind(f) ==
    LET c == fin[f].c
        entry == fin[f].entry
    IN
    /\ Holds(f) /\ fin[f].at = "guard"
    /\ Others(c) /\ cmd'[c] = [cmd[c] EXCEPT !.entry = entry]
    /\ fin'[f].c = c
    /\ fin'[f].at /= "guard"
    /\ fin'[f].at = "finish" => AfterGuard(c, entry) = "finish"
    /\ \A g \in Finalizers \ {f} : fin'[g] = fin[g]
    /\ UNCHANGED <<job, writes>>

WriteKind(f) ==
    LET c == fin[f].c
        want == cmd[c].want
    IN
    /\ Holds(f) /\ fin[f].at = "status"
    /\ Others(c) /\ cmd'[c] = [cmd[c] EXCEPT !.disp = want]
    /\ job.status = cmd[c].entry /\ job'.status = want
    /\ job'.lane = job.lane /\ job'.hwm = job.hwm /\ job'.ver = job.ver
    /\ job'.ctl = Nobody /\ (job'.agent => job.agent /\ want /= "paused")
    /\ writes' = Append(writes, c)
    /\ FinKept

EndKind(c) ==
    /\ Unfinished(c) /\ (Oldest(c) \/ cmd[c].state = "finalizing")
    /\ \E s \in {"done", "superseded", "force_resolved"},
          r \in Statuses \cup {"none"} :
          /\ cmd'[c] = Ended(cmd[c], s, r)
          /\ IF s = "done"
             THEN /\ r = Outcome(c)
                  /\ \E f \in Finalizers :
                        /\ Holds(f) /\ fin[f].c = c
                        /\ fin[f].at = "finish" /\ ~ fin[f].blocked
             ELSE r = "none"
    /\ Others(c) /\ JobStep /\ FinKept /\ UNCHANGED writes

AcceptKind(want) ==
    LET c == job.hwm + 1 IN
    /\ c \in Reports /\ job.agent
    /\ Others(c) /\ cmd'[c] = Accepted(want)
    /\ job' = [job EXCEPT !.hwm = c, !.agent = job.lane = "pinned"]
    /\ UNCHANGED <<fin, writes>>

\* A step that accepts no report.
Moves ==
    \/ JobKind
    \/ \E c \in Reports : RowKind(c) \/ EndKind(c)
    \/ \E f \in Finalizers : ResolveKind(f) \/ GuardKind(f) \/ WriteKind(f)

\* How a step of one process, or of none, leaves the holders.
LEMMA KeptFin ==
    ASSUME IInv, NEW f \in Finalizers, NEW c \in Reports, Others(c),
           cmd'[c] = cmd[c] \/ cmd'[c].owner \in {f, NoOne},
           \A g \in Finalizers \ {f} : fin'[g] = fin[g],
           fin'[f].at /= "guard",
           fin'[f].at = "finish" =>
              \/ fin'[f].blocked \/ cmd'[fin'[f].c].out /= "none"
              \/ Decides(cmd'[fin'[f].c])
    PROVE  FinKept
<1>1. SUFFICES ASSUME NEW g \in Finalizers, Holds(g)',
                      fin'[g].at \in {"guard", "finish"}, g /= f
               PROVE  Holds(g) /\ fin'[g] = fin[g]
  BY DEF FinKept
<1>2. fin'[g] = fin[g] /\ fin[g].c \in Reports
  BY <1>1 DEF IInv, StagesFit, Stage
<1>3. CASE fin[g].c = c /\ cmd'[c] /= cmd[c]
  BY <1>1, <1>2, <1>3, CompletionConstants DEF Holds
<1>4. CASE cmd'[fin[g].c] = cmd[fin[g].c]
  BY <1>1, <1>2, <1>4 DEF Holds
<1>. QED
  BY <1>2, <1>3, <1>4 DEF Others

\* A holder stays one, or stops being one, when others touch its command.
LEMMA KeptHolders ==
    ASSUME IInv, NEW c \in Reports, Others(c), fin' = fin,
           cmd'[c].state = "finalizing" /\ cmd'[c].live =>
              /\ cmd[c].state = "finalizing" /\ cmd[c].live
              /\ cmd'[c].owner = cmd[c].owner
    PROVE  FinKept
<1>1. SUFFICES ASSUME NEW g \in Finalizers, Holds(g)'
               PROVE  Holds(g)
  BY DEF FinKept
<1>2. fin[g].c \in Reports
  BY <1>1 DEF IInv, StagesFit, Stage, Holds
<1>. QED
  BY <1>1, <1>2 DEF Holds, Others

\* A command that changes hands keeps its journal (_claim, _retry_or_park,
\* _release_for_pending_effects, unpark).
LEMMA HandsKeep ==
    ASSUME NEW k, GoodRow(k)
    PROVE  /\ \A s : /\ Journal(k, Released(k, s))
                     /\ Released(k, s).state = s
                     /\ Released(k, s).out = k.out
                     /\ Released(k, s).owner = NoOne
           /\ Journal(k, Returned(k)) /\ Returned(k).state = "pending"
           /\ Returned(k).out = k.out /\ Returned(k).owner = NoOne
           /\ \A f : /\ Journal(k, Claimed(k, f))
                     /\ Claimed(k, f).state = "finalizing"
                     /\ Claimed(k, f).out = k.out /\ Claimed(k, f).owner = f
           /\ Journal(k, Rearmed(k)) /\ Rearmed(k).state = "pending"
           /\ Rearmed(k).out = k.out
  BY DEF GoodRow, CommandRows, Journal, Released, Returned, Claimed, Rearmed

\* So does one whose effects go on, and one whose teardown is authorized
\* (_prepare, _settle, authorize_workspace_teardown).
LEMMA EffectsKeep ==
    ASSUME NEW k, GoodRow(k), NEW l,
           \/ \E y : l = [k EXCEPT !.fx = y]
           \/ \E b : l = [k EXCEPT !.active = b]
    PROVE  /\ Journal(k, l) /\ l.state = k.state /\ l.out = k.out
           /\ l.owner = k.owner /\ l.live = k.live
  BY DEF GoodRow, CommandRows, Journal

\* And one whose clocks stop (lease_expires_at, deadline_at).
LEMMA ClocksKeep ==
    ASSUME NEW k, GoodRow(k), NEW l, l = Lapsed(k) \/
           l = [Lapsed(k) EXCEPT !.late = TRUE]
    PROVE  /\ Journal(k, l) /\ l.state = k.state /\ l.out = k.out
           /\ ~ l.live
<1>1. k \in CommandRows
  BY DEF GoodRow
<1>2. /\ Journal(k, Lapsed(k)) /\ Lapsed(k).state = k.state
      /\ Lapsed(k).out = k.out /\ ~ Lapsed(k).live
  BY <1>1 DEF CommandRows, Journal, Lapsed
<1>3. LET m == [Lapsed(k) EXCEPT !.late = TRUE] IN
      /\ Journal(k, m) /\ m.state = k.state /\ m.out = k.out /\ ~ m.live
  BY <1>1 DEF CommandRows, Journal, Lapsed
<1>. QED
  BY <1>2, <1>3

\* Only the decision recorded in the context of the job changes, or a marker
\* that is not a person's.
LEMMA SameJob ==
    ASSUME IInv, job'.lane = job.lane, job'.hwm = job.hwm,
           job'.status = job.status, job'.ver = job.ver,
           job'.agent = job.agent, job'.ctl = job.ctl \/ job'.ctl /= Human
    PROVE  JobStep
<1>1. job'.agent <=> job.agent
  BY Zenon
<1>2. job'.status = "processing" => job.status = "processing"
  OBVIOUS
<1>3. job'.agent => job.agent /\ job'.status = job.status
  BY <1>1
<1>4. job'.ctl = Human => ~ job'.agent \/ (job.ctl = Human /\ job.agent)
  BY <1>1
<1>. QED
  BY <1>2, <1>3, <1>4 DEF JobStep

\* Nothing happens to the jobs row.
LEMMA JobStays ==
    ASSUME IInv, UNCHANGED job
    PROVE  JobStep
  BY SameJob

\* A process moves to a stage, or leaves.
LEMMA Moved ==
    ASSUME IInv, NEW f \in Finalizers
    PROVE  /\ \A st : Go(f, st) =>
                 /\ fin'[f].at = st /\ fin'[f].c = fin[f].c
                 /\ \A g \in Finalizers \ {f} : fin'[g] = fin[g]
           /\ \A st : Block(f, st) =>
                 /\ fin'[f].at = st /\ fin'[f].c = fin[f].c
                 /\ fin'[f].blocked
                 /\ \A g \in Finalizers \ {f} : fin'[g] = fin[g]
           /\ Leave(f) =>
                 /\ fin'[f].at = "idle"
                 /\ \A g \in Finalizers \ {f} : fin'[g] = fin[g]
<1>1. fin \in [Finalizers -> Processes]
  BY DEF IInv, TypeOK
<1>2. ASSUME NEW st, Go(f, st)
      PROVE  /\ fin'[f].at = st /\ fin'[f].c = fin[f].c
             /\ \A g \in Finalizers \ {f} : fin'[g] = fin[g]
  BY <1>1, <1>2 DEF Go, Processes
<1>3. ASSUME NEW st, Block(f, st)
      PROVE  /\ fin'[f].at = st /\ fin'[f].c = fin[f].c /\ fin'[f].blocked
             /\ \A g \in Finalizers \ {f} : fin'[g] = fin[g]
  BY <1>1, <1>3 DEF Block, Processes
<1>4. ASSUME Leave(f)
      PROVE  /\ fin'[f].at = "idle"
             /\ \A g \in Finalizers \ {f} : fin'[g] = fin[g]
  BY <1>1, <1>4 DEF Leave, Free
<1>. QED
  BY <1>2, <1>3, <1>4

\* A step of a process that changes no command.
LEMMA ProcessKind ==
    ASSUME IInv, NEW f \in Finalizers, fin[f].at /= "idle",
           UNCHANGED <<cmd, writes>>, JobStep,
           \A g \in Finalizers \ {f} : fin'[g] = fin[g],
           fin'[f].at /= "guard",
           fin'[f].at = "finish" =>
              \/ fin'[f].blocked \/ cmd[fin'[f].c].out /= "none"
              \/ Decides(cmd[fin'[f].c])
    PROVE  JobKind
<1>1. fin[f].c \in Reports
  BY DEF IInv, StagesFit, Stage
<1>2. Others(fin[f].c)
  BY DEF Others
<1>. QED
  BY <1>1, <1>2, KeptFin DEF JobKind

\* A step of a holder that changes its command's row.
LEMMA HolderKind ==
    ASSUME IInv, NEW f \in Finalizers, Holds(f),
           NEW l, Journal(cmd[fin[f].c], l), UnfinishedRow(l),
           l.owner \in {f, NoOne},
           \/ l.out = cmd[fin[f].c].out
           \/ l.out /= "none" /\ (l.out = "deferred" => job.hwm > fin[f].c),
           cmd' = [cmd EXCEPT ![fin[f].c] = l],
           \A g \in Finalizers \ {f} : fin'[g] = fin[g],
           fin'[f].at /= "guard",
           fin'[f].at = "finish" =>
              /\ fin'[f].c = fin[f].c
              /\ fin'[f].blocked \/ l.out /= "none" \/ Decides(l),
           UNCHANGED <<job, writes>>
    PROVE  RowKind(fin[f].c)
<1>. DEFINE c == fin[f].c
<1>1. /\ c \in Reports /\ cmd[c].state = "finalizing"
      /\ UnfinishedRow(cmd[c])
  BY Holder
<1>2. cmd \in [Reports -> CommandRows]
  BY DEF IInv, TypeOK
<1>3. cmd'[c] = l /\ Others(c)
  BY <1>1, <1>2 DEF Others
<1>4. FinKept
  BY <1>1, <1>3, KeptFin
<1>. QED
  BY <1>1, <1>3, <1>4 DEF RowKind

\* A step of anybody else on a command's row.
LEMMA OutsideKind ==
    ASSUME IInv, NEW c \in Reports,
           NEW l, Journal(cmd[c], l), l.out = cmd[c].out,
           l.state = cmd[c].state \/ (UnfinishedRow(cmd[c]) /\ UnfinishedRow(l)),
           cmd[c].state = "pending" => l.state = "pending" \/ Oldest(c),
           l.state = "finalizing" /\ l.live =>
              /\ cmd[c].state = "finalizing" /\ cmd[c].live
              /\ l.owner = cmd[c].owner,
           cmd' = [cmd EXCEPT ![c] = l], UNCHANGED <<job, fin, writes>>
    PROVE  RowKind(c)
<1>1. cmd \in [Reports -> CommandRows]
  BY DEF IInv, TypeOK
<1>2. cmd'[c] = l /\ Others(c)
  BY <1>1 DEF Others
<1>3. FinKept
  BY <1>2, KeptHolders
<1>. QED
  BY <1>2, <1>3 DEF RowKind

\* The way out of the workflow of a lost term, a crash, or an exception.
LEMMA LostKinds ==
    ASSUME IInv, NEW f \in Finalizers,
           LoseTerm(f) \/ Crash(f) \/ WorkflowFails(f)
    PROVE  Moves
<1>1. CASE LoseTerm(f) \/ Crash(f)
  BY <1>1, Moved, JobStays, ProcessKind DEF LoseTerm, Crash, Moves
<1>2. CASE WorkflowFails(f)
  BY <1>2, Moved, JobStays, ProcessKind DEF WorkflowFails, Holds, Moves
<1>. QED
  BY <1>1, <1>2

\* A finalizer gives its command back.
LEMMA GiveBackKinds ==
    ASSUME IInv, NEW f \in Finalizers,
           RetryOrPark(f) \/ ReleaseForPendingEffects(f)
    PROVE  Moves
<1>. DEFINE c == fin[f].c
<1>1. Holds(f) /\ Leave(f) /\ UNCHANGED <<job, writes>>
  BY DEF RetryOrPark, ReleaseForPendingEffects, At
<1>2. c \in Reports /\ GoodRow(cmd[c])
  BY <1>1, Holder
<1>3. PICK l : /\ cmd' = [cmd EXCEPT ![c] = l]
               /\ \/ l = Released(cmd[c], "parked")
                  \/ l = Released(cmd[c], "pending")
                  \/ l = Returned(cmd[c])
  BY DEF RetryOrPark, ReleaseForPendingEffects
<1>4. /\ Journal(cmd[c], l) /\ l.state \in {"parked", "pending"}
      /\ l.owner = NoOne /\ l.out = cmd[c].out
  BY <1>2, <1>3, HandsKeep
<1>5. UnfinishedRow(l)
  BY <1>4 DEF UnfinishedRow
<1>. QED
  BY <1>1, <1>2, <1>3, <1>4, <1>5, Moved, HolderKind DEF Moves

\* The resolution and the guard.
LEMMA EntryKinds ==
    ASSUME IInv, NEW f \in Finalizers, Resolve(f) \/ Guard(f)
    PROVE  Moves
<1>. DEFINE c == fin[f].c
            entry == fin[f].entry
<1>1. /\ Holds(f) /\ UNCHANGED <<job, writes>> /\ c \in Reports
      /\ fin \in [Finalizers -> Processes]
      /\ cmd \in [Reports -> CommandRows]
  BY Holder DEF Resolve, Guard, At, IInv, TypeOK
<1>2. CASE Resolve(f)
  BY <1>1, <1>2 DEF Resolve, ResolveKind, Moves, Processes
<1>3. CASE Guard(f)
  <2>1. /\ fin[f].at = "guard"
        /\ cmd'[c] = [cmd[c] EXCEPT !.entry = entry] /\ Others(c)
    BY <1>1, <1>3 DEF Guard, At, Others
  <2>2. PICK st : /\ fin' = [fin EXCEPT ![f].entry = "none", ![f].at = st]
                  /\ st \in {AfterGuard(c, entry), "supersede"}
    BY <1>3 DEF Guard
  <2>3. AfterGuard(c, entry) /= "guard"
    BY DEF AfterGuard
  <2>4. /\ fin'[f].at = st /\ fin'[f].c = c
        /\ \A g \in Finalizers \ {f} : fin'[g] = fin[g]
    BY <1>1, <2>2 DEF Processes
  <2>5. GuardKind(f)
    BY <1>1, <2>1, <2>2, <2>3, <2>4 DEF GuardKind
  <2>. QED
    BY <2>5 DEF Moves
<1>. QED
  BY <1>2, <1>3

\* A status race.
LEMMA SupersedeKinds ==
    ASSUME IInv, NEW f \in Finalizers, Supersede(f)
    PROVE  Moves
<1>. DEFINE c == fin[f].c
            k == Ended(cmd[c], "superseded", "none")
            l == Released(cmd[c], "parked")
<1>1. /\ Holds(f) /\ UNCHANGED writes /\ fin[f].at /= "idle"
      /\ c \in Reports /\ GoodRow(cmd[c]) /\ UnfinishedRow(cmd[c])
      /\ cmd[c].state = "finalizing" /\ cmd \in [Reports -> CommandRows]
  BY Holder DEF Supersede, At, Holds, IInv, TypeOK
<1>2. CASE /\ cmd' = [cmd EXCEPT ![c] = l] /\ Leave(f) /\ UNCHANGED job
  <2>1. /\ Journal(cmd[c], l) /\ l.state = "parked" /\ l.owner = NoOne
        /\ l.out = cmd[c].out
    BY <1>1, HandsKeep
  <2>. HIDE DEF l
  <2>. QED
    BY <1>1, <1>2, <2>1, Moved, HolderKind DEF Moves, UnfinishedRow
<1>3. CASE Go(f, "retry") /\ UNCHANGED <<job, cmd>>
  BY <1>1, <1>3, Moved, JobStays, ProcessKind DEF Moves
<1>4. CASE /\ cmd' = [cmd EXCEPT ![c] = k] /\ Leave(f)
           /\ job' \in {job, [job EXCEPT !.decision = 0]}
  <2>1. JobStep
    BY <1>4, SameJob DEF IInv, TypeOK, JobRows
  <2>2. cmd'[c] = k /\ Others(c)
    BY <1>1, <1>4 DEF Others
  <2>3. k.owner = NoOne
    BY NoCommandRow DEF Ended, CommandRows, NoCommand
  <2>4. FinKept
    BY <1>1, <1>4, <2>2, <2>3, Moved, KeptFin
  <2>5. EndKind(c)
    BY <1>1, <2>1, <2>2, <2>4 DEF EndKind, Unfinished
  <2>. QED
    BY <1>1, <2>5 DEF Moves
<1>. QED
  BY <1>2, <1>3, <1>4 DEF Supersede

\* The delivery of the products.
LEMMA ShipKinds ==
    ASSUME IInv, NEW f \in Finalizers,
           \/ AcquireDeliveryControl(f) \/ AssertDeliveryControl(f)
           \/ BeginShip(f) \/ ShipDone(f) \/ ShipFails(f)
    PROVE  Moves
<1>. DEFINE c == fin[f].c
<1>1. /\ Holds(f) /\ UNCHANGED writes /\ fin[f].at /= "idle"
      /\ fin[f].at \in {"control", "assert", "ship", "shipping"}
  BY DEF AcquireDeliveryControl, AssertDeliveryControl, BeginShip, ShipDone,
     ShipFails, At
<1>2. /\ c \in Reports /\ GoodRow(cmd[c]) /\ UnfinishedRow(cmd[c])
      /\ Decides(cmd[c]) /\ cmd[c].owner = f
  BY <1>1, Holder DEF Fits, FitsAt
<1>3. AfterShip(c) /= "guard"
  BY DEF AfterShip
<1>4. CASE AcquireDeliveryControl(f)
  <2>1. JobStep
    <3>1. job \in JobRows /\ c /= Human
      BY <1>2, CompletionConstants DEF IInv, TypeOK, Human, Reports
    <3>2. job' = job \/ job' = [job EXCEPT !.ctl = c]
      BY <1>4 DEF AcquireDeliveryControl
    <3>3. /\ job'.lane = job.lane /\ job'.hwm = job.hwm
          /\ job'.status = job.status /\ job'.ver = job.ver
          /\ job'.agent = job.agent /\ job'.ctl \in {job.ctl, c}
      BY <3>1, <3>2 DEF JobRows
    <3>. QED
      BY <3>1, <3>3, SameJob
  <2>. QED
    BY <1>1, <1>4, <2>1, Moved, ProcessKind
    DEF AcquireDeliveryControl, Moves
<1>5. CASE AssertDeliveryControl(f)
  BY <1>1, <1>5, Moved, JobStays, ProcessKind
  DEF AssertDeliveryControl, Moves
<1>6. ASSUME NEW st \in {AfterShip(c), "finish", "retry"},
             Go(f, st) \/ Block(f, st), UNCHANGED <<job, cmd>>
      PROVE  Moves
  BY <1>1, <1>2, <1>3, <1>6, Moved, JobStays, ProcessKind DEF Moves
<1>7. ASSUME NEW l, \E y : l = [cmd[c] EXCEPT !.fx = y],
             cmd' = [cmd EXCEPT ![c] = l], UNCHANGED job,
             NEW st \in {AfterShip(c), "finish", "assert", "shipping"},
             Go(f, st) \/ Block(f, st)
      PROVE  Moves
  <2>1. /\ Journal(cmd[c], l) /\ l.state = cmd[c].state
        /\ l.out = cmd[c].out /\ l.owner = f
    BY <1>2, <1>7, EffectsKeep
  <2>2. UnfinishedRow(l) /\ Decides(l)
    BY <1>2, <2>1 DEF UnfinishedRow, Decides, Journal
  <2>3. /\ fin'[f].at = st /\ fin'[f].c = c
        /\ \A g \in Finalizers \ {f} : fin'[g] = fin[g]
    BY <1>7, Moved
  <2>4. RowKind(c)
    BY <1>1, <1>3, <1>7, <2>1, <2>2, <2>3, HolderKind
  <2>. QED
    BY <1>2, <2>4 DEF Moves
<1>8. CASE BeginShip(f)
  <2>. DEFINE st == IF PreStatus(c) THEN "finish" ELSE AfterShip(c)
              at == IF PreStatus(c) THEN "assert" ELSE "shipping"
              l == Prepared(cmd[c], "ship")
  <2>0. UNCHANGED job
    BY <1>8 DEF BeginShip
  <2>1. CASE Go(f, AfterShip(c)) /\ UNCHANGED cmd
    BY <1>6, <2>0, <2>1
  <2>2. CASE Block(f, st) /\ UNCHANGED cmd
    BY <1>6, <2>0, <2>2
  <2>3. CASE Go(f, "retry") /\ UNCHANGED cmd
    BY <1>6, <2>0, <2>3
  <2>4. CASE cmd' = [cmd EXCEPT ![c] = l] /\ Go(f, at)
    <3>1. \E y : l = [cmd[c] EXCEPT !.fx = y]
      BY DEF Prepared
    <3>. HIDE DEF l
    <3>. QED
      BY <1>7, <2>0, <2>4, <3>1
  <2>. QED
    BY <1>8, <2>1, <2>2, <2>3, <2>4 DEF BeginShip, Unshipped
<1>9. CASE ShipDone(f)
  BY <1>7, <1>9 DEF ShipDone, Completed
<1>a. CASE ShipFails(f)
  BY <1>7, <1>a DEF ShipFails, Unshipped, GroupRetry
<1>. QED
  BY <1>4, <1>5, <1>8, <1>9, <1>a

\* The disposition and its authority.
LEMMA StatusKinds ==
    ASSUME IInv, NEW f \in Finalizers,
           WriteStatus(f) \/ AssertDispositionAuthority(f)
    PROVE  Moves
<1>. DEFINE c == fin[f].c
            want == cmd[c].want
<1>1. /\ Holds(f) /\ fin[f].at /= "idle" /\ c \in Reports
      /\ GoodRow(cmd[c]) /\ cmd[c].owner = f
      /\ cmd \in [Reports -> CommandRows] /\ job \in JobRows
  BY Holder
  DEF WriteStatus, AssertDispositionAuthority, At, Holds, IInv, TypeOK
<1>2. CASE AssertDispositionAuthority(f)
  <2>1. cmd[c].disp /= "none" /\ Decides(cmd[c])
    BY <1>1, <1>2, Holder
    DEF AssertDispositionAuthority, At, Fits, FitsAt, GoodRow
  <2>2. PICK st \in {"ship", "finish", "retry", "supersede"} : Go(f, st)
    BY <1>2 DEF AssertDispositionAuthority
  <2>3. UNCHANGED <<job, cmd, writes>>
    BY <1>2 DEF AssertDispositionAuthority
  <2>. QED
    BY <1>1, <2>1, <2>2, <2>3, Moved, JobStays, ProcessKind DEF Moves
<1>3. CASE WriteStatus(f) /\ Go(f, "supersede") /\ UNCHANGED <<job, cmd, writes>>
  BY <1>1, <1>3, Moved, JobStays, ProcessKind DEF Moves
<1>4. CASE /\ WriteStatus(f) /\ Go(f, "authority")
           /\ cmd' = [cmd EXCEPT ![c].disp = want]
           /\ writes' = Append(writes, c)
           /\ job.status = cmd[c].entry
           /\ \E d : job' = [job EXCEPT
                 !.status = want, !.ctl = Nobody, !.decision = d,
                 !.agent = @ /\ want /= "paused"]
  <2>1. fin[f].at = "status"
    BY <1>4 DEF WriteStatus, At
  <2>2. cmd'[c] = [cmd[c] EXCEPT !.disp = want] /\ Others(c)
    BY <1>1, <1>4 DEF Others
  <2>3. cmd'[c].owner = f
    BY <1>1, <2>2 DEF CommandRows
  <2>4. FinKept
    BY <1>1, <1>4, <2>2, <2>3, Moved, KeptFin
  <2>5. /\ job'.status = want /\ job'.lane = job.lane
        /\ job'.hwm = job.hwm /\ job'.ver = job.ver /\ job'.ctl = Nobody
        /\ job'.agent = (job.agent /\ want /= "paused")
    BY <1>1, <1>4 DEF JobRows
  <2>6. job'.agent => job.agent /\ want /= "paused"
    BY <2>5
  <2>7. WriteKind(f)
    BY <1>1, <1>4, <2>1, <2>2, <2>4, <2>5, <2>6 DEF WriteKind
  <2>. QED
    BY <2>7 DEF Moves
<1>. QED
  BY <1>2, <1>3, <1>4 DEF WriteStatus

\* The teardown.
LEMMA TearKinds ==
    ASSUME IInv, NEW f \in Finalizers,
           \/ BeginTear(f) \/ AuthorizeTeardown(f)
           \/ TeardownDone(f) \/ TeardownFails(f)
    PROVE  Moves
<1>. DEFINE c == fin[f].c
<1>1. /\ Holds(f) /\ UNCHANGED <<job, writes>> /\ fin[f].at /= "idle"
  BY DEF BeginTear, AuthorizeTeardown, TeardownDone, TeardownFails, At
<1>2. /\ c \in Reports /\ GoodRow(cmd[c]) /\ UnfinishedRow(cmd[c])
      /\ cmd[c].owner = f /\ cmd[c] \in CommandRows
  BY <1>1, Holder DEF GoodRow
<1>3. ASSUME NEW l, Journal(cmd[c], l), l.state = cmd[c].state, l.owner = f,
             \/ l.out = cmd[c].out
             \/ l.out /= "none" /\ (l.out = "deferred" => job.hwm > c),
             cmd' = [cmd EXCEPT ![c] = l],
             NEW st \in {"authorize", "tearing", "finish", "supersede"},
             \/ Go(f, st) /\ (st = "finish" => l.out /= "none")
             \/ Block(f, st)
      PROVE  Moves
  <2>1. UnfinishedRow(l)
    BY <1>2, <1>3 DEF UnfinishedRow
  <2>2. /\ fin'[f].at = st /\ fin'[f].c = c
        /\ \A g \in Finalizers \ {f} : fin'[g] = fin[g]
        /\ st = "finish" => fin'[f].blocked \/ l.out /= "none"
    BY <1>3, Moved
  <2>3. RowKind(c)
    BY <1>1, <1>3, <2>1, <2>2, HolderKind
  <2>. QED
    BY <1>2, <2>3 DEF Moves
<1>4. ASSUME NEW l, \/ \E y : l = [cmd[c] EXCEPT !.fx = y]
                    \/ \E b : l = [cmd[c] EXCEPT !.active = b],
             cmd' = [cmd EXCEPT ![c] = l],
             NEW st \in {"authorize", "tearing", "finish", "supersede"},
             (Go(f, st) /\ st /= "finish") \/ Block(f, st)
      PROVE  Moves
  <2>1. /\ Journal(cmd[c], l) /\ l.state = cmd[c].state
        /\ l.out = cmd[c].out /\ l.owner = f
    BY <1>2, <1>4, EffectsKeep
  <2>. QED
    BY <1>3, <1>4, <2>1
<1>5. ASSUME NEW o \in {"completed", "deferred"}, NEW l,
             \/ l = [Completed(cmd[c], "tear") EXCEPT !.out = o]
             \/ l = [Completed(cmd[c], "tear") EXCEPT !.out = o,
                                                      !.active = FALSE],
             o = "deferred" => job.hwm > c,
             cmd' = [cmd EXCEPT ![c] = l], Go(f, "finish")
      PROVE  Moves
  <2>1. /\ Journal(cmd[c], l) /\ l.state = cmd[c].state /\ l.out = o
        /\ l.owner = cmd[c].owner
    BY <1>2, <1>5 DEF Completed, CommandRows, Journal
  <2>. QED
    BY <1>2, <1>3, <1>5, <2>1
<1>6. CASE BeginTear(f)
  <2>1. CASE Settled(c, "tear") /\ Go(f, "finish") /\ UNCHANGED cmd
    <3>1. cmd[c].out /= "none"
      BY <1>2, <2>1 DEF Settled, GoodRow
    <3>. QED
      BY <1>1, <2>1, <3>1, Moved, JobStays, ProcessKind DEF Moves
  <2>2. CASE Go(f, "retry") /\ UNCHANGED cmd
    BY <1>1, <2>2, Moved, JobStays, ProcessKind DEF Moves
  <2>3. CASE /\ cmd' = [cmd EXCEPT ![c] = Prepared(@, "tear")]
             /\ Go(f, "authorize")
    BY <1>4, <2>3 DEF Prepared
  <2>. QED
    BY <1>6, <2>1, <2>2, <2>3 DEF BeginTear
<1>7. CASE AuthorizeTeardown(f)
  <2>1. ASSUME cmd' = [cmd EXCEPT ![c] = GroupRetry(@, "tear")],
               NEW st \in {"finish", "supersede"}, Block(f, st)
        PROVE  Moves
    BY <1>4, <2>1 DEF GroupRetry
  <2>2. CASE /\ job.hwm > c /\ Go(f, "finish")
             /\ cmd' = [cmd EXCEPT ![c] =
                          [Completed(@, "tear") EXCEPT !.out = "deferred"]]
    BY <1>5, <2>2
  <2>3. CASE cmd' = [cmd EXCEPT ![c].active = TRUE] /\ Go(f, "tearing")
    BY <1>4, <2>3
  <2>. QED
    BY <1>7, <2>1, <2>2, <2>3 DEF AuthorizeTeardown
<1>8. CASE TeardownDone(f)
  BY <1>5, <1>8 DEF TeardownDone
<1>9. CASE TeardownFails(f)
  BY <1>4, <1>9 DEF TeardownFails, GroupRetry
<1>. QED
  BY <1>6, <1>7, <1>8, <1>9

\* The end of a command, by its finalizer, the safety net or the operator.
LEMMA EndKinds ==
    ASSUME IInv,
           \/ \E f \in Finalizers : Finish(f)
           \/ \E c \in Reports : SafetyNet(c)
           \/ \E c \in Reports, s \in Terminal : ForceResolve(c, s)
    PROVE  Moves
<1>1. cmd \in [Reports -> CommandRows] /\ job \in JobRows
  BY DEF IInv, TypeOK
<1>2. ASSUME NEW f \in Finalizers, Finish(f)
      PROVE  Moves
  <2>. DEFINE c == fin[f].c
              k == Ended(cmd[c], "done", Outcome(c))
  <2>1. /\ Holds(f) /\ fin[f].at = "finish" /\ ~ fin[f].blocked
        /\ cmd' = [cmd EXCEPT ![c] = k] /\ Leave(f)
        /\ UNCHANGED <<job, writes>>
    BY <1>2 DEF Finish, At
  <2>2. /\ c \in Reports /\ GoodRow(cmd[c]) /\ cmd[c] \in CommandRows
        /\ cmd[c].state = "finalizing"
    BY <2>1, Holder DEF GoodRow
  <2>3. Outcome(c) \in Statuses \cup {"none"}
    BY <2>2 DEF Outcome, CommandRows
  <2>4. cmd'[c] = k /\ Others(c)
    BY <1>1, <2>1, <2>2 DEF Others
  <2>5. k.owner = NoOne
    BY NoCommandRow DEF Ended, CommandRows, NoCommand
  <2>6. FinKept
    BY <2>1, <2>2, <2>4, <2>5, Moved, KeptFin
  <2>. HIDE DEF k
  <2>7. EndKind(c)
    BY <2>1, <2>2, <2>3, <2>4, <2>6, JobStays DEF EndKind, Unfinished, k
  <2>. QED
    BY <2>2, <2>7 DEF Moves
<1>3. ASSUME NEW c \in Reports, NEW s \in {"superseded", "force_resolved"},
             Unfinished(c), Oldest(c), JobStep,
             cmd' = [cmd EXCEPT ![c] = Ended(@, s, "none")],
             UNCHANGED <<fin, writes>>
      PROVE  Moves
  <2>1. cmd'[c] = Ended(cmd[c], s, "none") /\ Others(c)
    BY <1>1, <1>3 DEF Others
  <2>2. cmd'[c].state = s
    BY <2>1 DEF Ended, NoCommand
  <2>3. FinKept
    BY <1>3, <2>1, <2>2, KeptHolders
  <2>4. EndKind(c)
    BY <1>3, <2>1, <2>3 DEF EndKind
  <2>. QED
    BY <2>4 DEF Moves
<1>4. ASSUME NEW c \in Reports, SafetyNet(c)
      PROVE  Moves
  BY <1>3, <1>4, JobStays DEF SafetyNet, Unheld
<1>5. ASSUME NEW c \in Reports, NEW s \in Terminal, ForceResolve(c, s)
      PROVE  Moves
  <2>1. Foreign(s, FALSE, Nobody, job.decision)
    BY <1>5 DEF ForceResolve
  <2>a. job.status = "cancelled" => s = "cancelled"
    BY <1>5 DEF ForceResolve, Terminal
  <2>b. /\ job'.lane = job.lane /\ job'.hwm = job.hwm /\ job'.status = s
        /\ job'.agent = FALSE /\ job'.ctl = Nobody
    BY <1>1, <2>1 DEF Foreign, JobRows
  <2>c. s /= "processing"
    BY DEF Terminal
  <2>2. JobStep
    BY <2>a, <2>b, <2>c DEF JobStep
  <2>. QED
    BY <1>3, <1>5, <2>2 DEF ForceResolve, Unheld
<1>. QED
  BY <1>2, <1>4, <1>5

\* A claim, a command parked before its claim, a command rearmed, and clocks
\* that run out.
LEMMA HandKinds ==
    ASSUME IInv,
           \/ \E f \in Finalizers, c \in Reports : Claim(f, c)
           \/ \E c \in Reports : ParkUnclaimable(c) \/ Unpark(c)
           \/ \E c \in Reports : LeaseExpires(c) \/ DeadlinePasses(c)
           \/ \E c \in Reports, e \in Effects : WindowCloses(c, e)
    PROVE  Moves
<1>1. cmd \in [Reports -> CommandRows] /\ fin \in [Finalizers -> Processes]
  BY DEF IInv, TypeOK
<1>2. \A c \in Reports : GoodRow(cmd[c])
  BY DEF IInv, Rows
<1>3. ASSUME NEW f \in Finalizers, NEW c \in Reports, Claim(f, c)
      PROVE  Moves
  <2>. DEFINE l == Claimed(cmd[c], f)
  <2>1. /\ Journal(cmd[c], l) /\ l.state = "finalizing" /\ l.owner = f
        /\ l.out = cmd[c].out
    BY <1>2, HandsKeep
  <2>2. cmd' = [cmd EXCEPT ![c] = l] /\ UNCHANGED <<job, writes>>
    BY <1>3 DEF Claim
  <2>. HIDE DEF l
  <2>3. cmd'[c] = l /\ Others(c)
    BY <1>1, <2>2 DEF Others
  <2>4. /\ fin'[f].at = "resolve"
        /\ \A g \in Finalizers \ {f} : fin'[g] = fin[g]
    BY <1>1, <1>3 DEF Claim, Free
  <2>5. FinKept
    BY <2>1, <2>3, <2>4, KeptFin
  <2>6. Oldest(c) /\ cmd[c].state \in {"pending", "finalizing"}
    BY <1>3 DEF Claim, Claimable
  <2>7. RowKind(c)
    BY <2>1, <2>2, <2>3, <2>5, <2>6 DEF RowKind, UnfinishedRow
  <2>. QED
    BY <2>7 DEF Moves
<1>4. ASSUME NEW c \in Reports, ParkUnclaimable(c)
      PROVE  Moves
  <2>. DEFINE l == Released(cmd[c], "parked")
  <2>1. /\ Journal(cmd[c], l) /\ l.state = "parked" /\ l.out = cmd[c].out
    BY <1>2, HandsKeep
  <2>2. cmd' = [cmd EXCEPT ![c] = l] /\ UNCHANGED <<job, fin, writes>>
    BY <1>4 DEF ParkUnclaimable
  <2>3. Oldest(c) /\ cmd[c].state \in {"pending", "finalizing"}
    BY <1>4 DEF ParkUnclaimable, Claimable
  <2>. HIDE DEF l
  <2>4. RowKind(c)
    BY <2>1, <2>2, <2>3, OutsideKind DEF UnfinishedRow
  <2>. QED
    BY <2>4 DEF Moves
<1>5. ASSUME NEW c \in Reports, Unpark(c)
      PROVE  Moves
  <2>. DEFINE l == Rearmed(cmd[c])
  <2>1. /\ Journal(cmd[c], l) /\ l.state = "pending" /\ l.out = cmd[c].out
    BY <1>2, HandsKeep
  <2>2. /\ cmd' = [cmd EXCEPT ![c] = l] /\ UNCHANGED <<job, fin, writes>>
        /\ cmd[c].state = "parked"
    BY <1>5 DEF Unpark
  <2>. HIDE DEF l
  <2>3. RowKind(c)
    BY <2>1, <2>2, OutsideKind DEF UnfinishedRow
  <2>. QED
    BY <2>3 DEF Moves
<1>6. ASSUME NEW c \in Reports, LeaseExpires(c) \/ DeadlinePasses(c)
      PROVE  Moves
  <2>1. PICK l : /\ l = Lapsed(cmd[c]) \/ l = [Lapsed(cmd[c]) EXCEPT !.late = TRUE]
                 /\ cmd' = [cmd EXCEPT ![c] = l]
                 /\ UNCHANGED <<job, fin, writes>>
    BY <1>6 DEF LeaseExpires, DeadlinePasses
  <2>2. /\ Journal(cmd[c], l) /\ l.state = cmd[c].state
        /\ l.out = cmd[c].out /\ ~ l.live
    BY <1>2, <2>1, ClocksKeep
  <2>3. RowKind(c)
    BY <2>1, <2>2, OutsideKind
  <2>. QED
    BY <2>3 DEF Moves
<1>7. ASSUME NEW c \in Reports, NEW e \in Effects, WindowCloses(c, e)
      PROVE  Moves
  <2>1. PICK l : /\ \E y : l = [cmd[c] EXCEPT !.fx = y]
                 /\ cmd' = [cmd EXCEPT ![c] = l]
                 /\ UNCHANGED <<job, fin, writes>>
    BY <1>7 DEF WindowCloses, GroupRetry
  <2>2. /\ Journal(cmd[c], l) /\ l.state = cmd[c].state
        /\ l.out = cmd[c].out /\ l.owner = cmd[c].owner
        /\ l.live = cmd[c].live
    BY <1>2, <2>1, EffectsKeep
  <2>3. RowKind(c)
    BY <2>1, <2>2, OutsideKind
  <2>. QED
    BY <2>3 DEF Moves
<1>. QED
  BY <1>3, <1>4, <1>5, <1>6, <1>7

\* The other writers of the jobs row.
LEMMA JobKinds ==
    ASSUME IInv, \/ RecordDecision \/ Controls \/ SwitchReorder \/ ControlEnds
                 \/ UNCHANGED vars
    PROVE  Moves
<1>1. job \in JobRows /\ Nobody /= Human /\ job.agent \in BOOLEAN
  BY CompletionConstants DEF IInv, TypeOK, JobRows, Nobody, Human
<1>2. UNCHANGED <<cmd, fin, writes>>
  BY DEF RecordDecision, Controls, SwitchReorder, ControlEnds, vars, Pause,
     Cancel, DelegationTimeout, ClaimControl, FinishControl, Requeue, Dispatch
<1>3. FinKept
  BY <1>2 DEF FinKept, Holds
<1>4. SUFFICES JobStep
  BY <1>2, <1>3 DEF JobKind, Moves
<1>5. CASE RecordDecision \/ SwitchReorder \/ ControlEnds \/ UNCHANGED vars
  <2>1. /\ job'.lane = job.lane /\ job'.hwm = job.hwm
        /\ job'.status = job.status /\ job'.ver = job.ver
        /\ job'.agent = job.agent /\ job'.ctl \in {job.ctl, Nobody}
    BY <1>1, <1>5
    DEF RecordDecision, SwitchReorder, ControlEnds, vars, JobRows
  <2>. QED
    BY <1>1, <2>1, SameJob
<1>6. ASSUME NEW status, NEW agent \in BOOLEAN, NEW ctl, NEW decision,
             Foreign(status, agent, ctl, decision)
      PROVE  /\ job'.lane = job.lane /\ job'.hwm = job.hwm
             /\ job'.status = status /\ job'.agent = agent
             /\ job'.ctl = ctl
  BY <1>1, <1>6 DEF Foreign, JobRows
<1>7. CASE Pause
  <2>1. CASE job.lane = "pinned"
    <3>1. Foreign("paused", FALSE, Human, job.decision)
      BY <1>7, <2>1 DEF Pause
    <3>2. /\ job'.lane = job.lane /\ job'.hwm = job.hwm
          /\ job'.status = "paused" /\ job'.agent = FALSE
          /\ job.status = "processing"
      BY <1>6, <1>7, <3>1 DEF Pause
    <3>. QED
      BY <3>2 DEF JobStep
  <2>2. CASE job.lane /= "pinned"
    <3>1. /\ Foreign("paused", job.agent, job.ctl, job.decision)
          /\ job.ctl = Nobody
      BY <1>7, <2>2 DEF Pause, Controlled
    <3>2. job.lane = "stateless"
      BY <1>1, <2>2, CompletionConstants DEF JobRows
    <3>3. /\ job'.lane = job.lane /\ job'.hwm = job.hwm
          /\ job'.status = "paused" /\ job'.agent = job.agent
          /\ job'.ctl = Nobody /\ job.status = "processing"
      BY <1>1, <1>6, <1>7, <3>1 DEF Pause
    <3>. QED
      BY <1>1, <3>2, <3>3 DEF JobStep
  <2>. QED
    BY <2>1, <2>2
<1>8. CASE Cancel
  <2>. DEFINE a == job.agent /\ job.lane = "stateless"
  <2>1. Foreign("cancelled", a, job.ctl, job.decision) /\ job.ctl = Nobody
    BY <1>8 DEF Cancel, Controlled
  <2>2. /\ job'.lane = job.lane /\ job'.hwm = job.hwm
        /\ job'.status = "cancelled" /\ job'.agent = a /\ job'.ctl = Nobody
    BY <1>1, <1>6, <2>1
  <2>3. job'.agent => job.agent /\ job.lane = "stateless"
    BY <2>2
  <2>. HIDE DEF a
  <2>. QED
    BY <1>1, <2>2, <2>3 DEF JobStep
<1>9. CASE DelegationTimeout
  <2>1. Foreign("cancelled", FALSE, job.ctl, job.decision)
    BY <1>9 DEF DelegationTimeout
  <2>2. /\ job'.lane = job.lane /\ job'.hwm = job.hwm
        /\ job'.status = "cancelled" /\ job'.agent = FALSE
    BY <1>6, <2>1
  <2>. QED
    BY <2>2 DEF JobStep
<1>a. CASE ClaimControl
  <2>1. /\ job'.lane = job.lane /\ job'.hwm = job.hwm
        /\ job'.status = job.status /\ job'.ver = job.ver
        /\ job'.agent = FALSE
    BY <1>1, <1>a DEF ClaimControl, JobRows
  <2>. QED
    BY <2>1 DEF JobStep
<1>b. ASSUME NEW status \in Terminal \cup {"paused"}, FinishControl(status)
      PROVE  JobStep
  <2>1. /\ Foreign(status, job.agent, Nobody, job.decision)
        /\ job.ctl = Human /\ ~ Excluded
    BY <1>b DEF FinishControl
  <2>2. /\ job'.lane = job.lane /\ job'.hwm = job.hwm
        /\ job'.status = status /\ job'.agent = job.agent
        /\ job'.ctl = Nobody
    BY <1>1, <1>6, <2>1
  <2>3. job'.agent => job.agent
    BY <2>2
  <2>4. status /= "processing"
    BY DEF Terminal
  <2>. QED
    BY <1>1, <2>1, <2>2, <2>3, <2>4 DEF JobStep
<1>c. CASE Requeue
  BY <1>6, <1>c DEF Requeue, JobStep
<1>d. CASE Dispatch
  BY <1>1, <1>6, <1>d DEF Dispatch, JobStep, Controlled
<1>. QED
  BY <1>5, <1>7, <1>8, <1>9, <1>a, <1>b, <1>c, <1>d DEF Controls

\* Every step moves the system in one of these ways, or accepts a report.
LEMMA StepKinds ==
    ASSUME IInv, [Next]_vars
    PROVE  Moves \/ \E want \in Dispositions : AcceptKind(want)
<1>1. ASSUME NEW f \in Finalizers, Step(f)
      PROVE  Moves
  <2>1. CASE \/ LoseTerm(f) \/ RetryOrPark(f) \/ ReleaseForPendingEffects(f)
             \/ Resolve(f) \/ Supersede(f) \/ Guard(f) \/ Finish(f)
    BY <2>1, LostKinds, GiveBackKinds, EntryKinds, SupersedeKinds, EndKinds
  <2>2. CASE \/ AcquireDeliveryControl(f) \/ AssertDeliveryControl(f)
             \/ BeginShip(f) \/ ShipDone(f) \/ ShipFails(f)
             \/ WriteStatus(f) \/ AssertDispositionAuthority(f)
    BY <2>2, ShipKinds, StatusKinds
  <2>3. CASE \/ BeginTear(f) \/ AuthorizeTeardown(f)
             \/ TeardownDone(f) \/ TeardownFails(f)
    BY <2>3, TearKinds
  <2>. QED
    BY <1>1, <2>1, <2>2, <2>3 DEF Step
<1>2. ASSUME NEW f \in Finalizers, Crash(f) \/ WorkflowFails(f)
      PROVE  Moves
  BY <1>2, LostKinds
<1>3. ASSUME NEW f \in Finalizers, NEW c \in Reports, Claim(f, c)
      PROVE  Moves
  BY <1>3, HandKinds
<1>4. ASSUME NEW c \in Reports, ParkUnclaimable(c)
      PROVE  Moves
  BY <1>4, HandKinds
<1>5. CASE Controls \/ UNCHANGED vars
  BY <1>5, JobKinds
<1>6. CASE Operator
  BY <1>6, JobKinds, EndKinds, HandKinds DEF Operator
<1>7. CASE Clocks
  BY <1>7, JobKinds, HandKinds DEF Clocks
<1>8. CASE Agent
  <2>1. CASE RecordDecision
    BY <2>1, JobKinds
  <2>2. ASSUME NEW want \in Dispositions, Accept(want)
        PROVE  AcceptKind(want)
    <3>1. cmd \in [Reports -> CommandRows] /\ job \in JobRows
      BY DEF IInv, TypeOK
    <3>2. job.hwm + 1 \in Reports
      BY <2>2, <3>1, CompletionConstants DEF Accept, JobRows, Reports
    <3>. QED
      BY <2>2, <3>1, <3>2 DEF Accept, MayAccept, AcceptKind, Others
  <2>. QED
    BY <1>8, <2>1, <2>2 DEF Agent
<1>. QED
  BY <1>1, <1>2, <1>3, <1>4, <1>5, <1>6, <1>7, <1>8 DEF Next

-----------------------------------------------------------------------------
(***************************************************************************)
(* The order of the dispositions.  Reports are numbered without gaps, only *)
(* the oldest unfinished one has ever been worked on, and what has written *)
(* the status has no unfinished report before it.                          *)
(***************************************************************************)
Fresh(k) ==
    /\ k.state \in {"none", "pending"}
    /\ k.entry = "none" /\ k.disp = "none" /\ k.out = "none"

Numbered == \A c \in Reports : cmd[c].state = "none" <=> c > job.hwm
Untouched ==
    \A c \in Reports :
       Fresh(cmd[c]) \/ (Oldest(c) /\ cmd[c].state /= "none")
WroteStatus(c) ==
    /\ c <= job.hwm /\ Oldest(c)
    /\ Unfinished(c) => cmd[c].disp /= "none"
Written == \A i \in DOMAIN writes : WroteStatus(writes[i])

Queue == Numbered /\ Untouched /\ Written /\ DispositionsInOrder

\* What is left of a command that ended.
LEMMA EndedRow ==
    ASSUME NEW k, NEW s, NEW r
    PROVE  LET l == Ended(k, s, r) IN
           /\ l.state = s /\ l.result = r /\ l.out = k.out
           /\ l.accepted = "none" /\ l.entry = "none" /\ l.disp = "none"
  BY DEF Ended, NoCommand

\* What the acceptance of a report writes (accept_completion_command).
LEMMA AcceptedRow ==
    ASSUME NEW want
    PROVE  LET l == Accepted(want) IN
           /\ l.state = "pending" /\ l.accepted = job.status
           /\ l.seen = job.ver /\ l.result = "none"
           /\ l.entry = "none" /\ l.disp = "none" /\ l.out = "none"
  BY DEF Accepted, NoCommand

\* What S17 and the guard rely on, of a holder.
LEMMA WriterHolds ==
    ASSUME IInv, NEW f \in Finalizers, WriteKind(f)
    PROVE  /\ fin[f].c \in Reports /\ cmd[fin[f].c].state = "finalizing"
           /\ cmd[fin[f].c].disp = "none" /\ Decides(cmd[fin[f].c])
           /\ cmd[fin[f].c].want \in Dispositions
           /\ cmd[fin[f].c].want \in Statuses \ {"processing"}
<1>. DEFINE c == fin[f].c
<1>1. /\ c \in Reports /\ cmd[c].state = "finalizing"
      /\ cmd[c] \in CommandRows
      /\ Fits(fin[f], cmd[c]) /\ fin[f].at = "status"
  BY Holder DEF WriteKind, GoodRow
<1>2. /\ cmd[c].disp = "none" /\ Decides(cmd[c]) /\ cmd[c].want /= "none"
  BY <1>1 DEF Fits, FitsAt
<1>3. cmd[c].want \in Dispositions /\ cmd[c].want \in Statuses \ {"processing"}
  BY <1>1, <1>2, CompletionConstants DEF CommandRows
<1>. QED
  BY <1>1, <1>2, <1>3

\* A command that nobody has ended keeps what it was accepted with; no step
\* but an acceptance adds one.
LEMMA Followed ==
    ASSUME IInv, Moves, NEW d \in Reports
    PROVE  /\ job'.hwm = job.hwm /\ job'.lane = job.lane
           /\ cmd'[d].state = "none" <=> cmd[d].state = "none"
           /\ cmd'[d].state = "pending" => Unfinished(d)
           /\ cmd[d].out /= "none" => cmd'[d].out /= "none"
           /\ cmd'[d].accepted \in {cmd[d].accepted, "none"}
           /\ Unfinished(d)' =>
                 /\ Unfinished(d) /\ cmd'[d].seen = cmd[d].seen
                 /\ cmd[d].disp /= "none" => cmd'[d].disp /= "none"
<1>1. cmd[d] \in CommandRows
  BY DEF IInv, TypeOK
<1>2. CASE cmd'[d] = cmd[d] /\ job'.hwm = job.hwm /\ job'.lane = job.lane
  BY <1>2 DEF Unfinished
<1>3. CASE JobKind
  BY <1>2, <1>3 DEF JobKind, JobStep
<1>4. ASSUME NEW c \in Reports, RowKind(c)
      PROVE  \/ cmd'[d] = cmd[d] /\ job'.hwm = job.hwm /\ job'.lane = job.lane
             \/ /\ d = c /\ job' = job
                /\ Journal(cmd[d], cmd'[d])
                /\ \/ cmd'[d].state = cmd[d].state
                   \/ UnfinishedRow(cmd[d]) /\ UnfinishedRow(cmd'[d])
                /\ cmd[d].out /= "none" => cmd'[d].out /= "none"
  BY <1>4 DEF RowKind, Others
<1>5. ASSUME /\ job' = job /\ Journal(cmd[d], cmd'[d])
             /\ \/ cmd'[d].state = cmd[d].state
                \/ UnfinishedRow(cmd[d]) /\ UnfinishedRow(cmd'[d])
             /\ cmd[d].out /= "none" => cmd'[d].out /= "none"
      PROVE  /\ job'.hwm = job.hwm /\ job'.lane = job.lane
             /\ cmd'[d].state = "none" <=> cmd[d].state = "none"
             /\ cmd'[d].state = "pending" => Unfinished(d)
             /\ cmd[d].out /= "none" => cmd'[d].out /= "none"
             /\ cmd'[d].accepted \in {cmd[d].accepted, "none"}
             /\ Unfinished(d)' =>
                   /\ Unfinished(d) /\ cmd'[d].seen = cmd[d].seen
                   /\ cmd[d].disp /= "none" => cmd'[d].disp /= "none"
  BY <1>5 DEF Journal, Unfinished, UnfinishedRow
<1>6. ASSUME NEW c \in Reports, EndKind(c)
      PROVE  \/ cmd'[d] = cmd[d] /\ job'.hwm = job.hwm /\ job'.lane = job.lane
             \/ /\ d = c /\ Unfinished(d)
                /\ job'.hwm = job.hwm /\ job'.lane = job.lane
                /\ cmd'[d].state \in {"done", "superseded", "force_resolved"}
                /\ cmd'[d].accepted = "none" /\ cmd'[d].out = cmd[d].out
  BY <1>6, EndedRow DEF EndKind, Others, JobStep
<1>7. ASSUME NEW f \in Finalizers, ResolveKind(f)
      PROVE  cmd'[d] = cmd[d] /\ job'.hwm = job.hwm /\ job'.lane = job.lane
  BY <1>7 DEF ResolveKind
<1>8. ASSUME NEW f \in Finalizers, GuardKind(f)
      PROVE  \/ cmd'[d] = cmd[d] /\ job'.hwm = job.hwm /\ job'.lane = job.lane
             \/ /\ job' = job /\ cmd'[d].state = cmd[d].state
                /\ cmd'[d].out = cmd[d].out /\ cmd'[d].seen = cmd[d].seen
                /\ cmd'[d].accepted = cmd[d].accepted
                /\ cmd'[d].disp = cmd[d].disp
  BY <1>1, <1>8 DEF GuardKind, Others, CommandRows
<1>9. ASSUME NEW f \in Finalizers, WriteKind(f)
      PROVE  /\ job'.hwm = job.hwm /\ job'.lane = job.lane
             /\ cmd'[d].state = cmd[d].state
             /\ cmd'[d].out = cmd[d].out /\ cmd'[d].seen = cmd[d].seen
             /\ cmd'[d].accepted = cmd[d].accepted
             /\ cmd[d].disp /= "none" => cmd'[d].disp /= "none"
  BY <1>1, <1>9, WriterHolds DEF WriteKind, Others, CommandRows
<1>a. CASE \E c \in Reports : RowKind(c)
  BY <1>2, <1>4, <1>5, <1>a
<1>b. CASE \E c \in Reports : EndKind(c)
  BY <1>2, <1>6, <1>b DEF Unfinished
<1>c. CASE \E f \in Finalizers : GuardKind(f)
  BY <1>2, <1>8, <1>c DEF Unfinished
<1>d. CASE \E f \in Finalizers : WriteKind(f)
  BY <1>9, <1>d DEF Unfinished
<1>. QED
  BY <1>2, <1>3, <1>7, <1>a, <1>b, <1>c, <1>d DEF Moves

\* What has no unfinished report before it never gets one.
LEMMA OldestStays ==
    ASSUME IInv, Moves, NEW d \in Reports, Oldest(d)
    PROVE  Oldest(d)'
<1>1. SUFFICES ASSUME NEW e \in 1..(d - 1)
               PROVE  ~ Unfinished(e)'
  BY DEF Oldest
<1>2. e \in Reports
  BY CompletionConstants DEF Reports
<1>. QED
  BY <1>2, Followed DEF Oldest

\* A report that was not touched stays so, or nothing is before it.
LEMMA UntouchedStays ==
    ASSUME IInv, Untouched, Moves, NEW d \in Reports, Fresh(cmd[d])
    PROVE  Fresh(cmd'[d]) \/ (Oldest(d)' /\ cmd'[d].state /= "none")
<1>1. CASE cmd'[d] = cmd[d]
  BY <1>1
<1>2. ASSUME NEW c \in Reports, RowKind(c)
      PROVE  \/ Fresh(cmd'[d])
             \/ Oldest(d) /\ cmd[d].state /= "none"
  <2>1. CASE d = c
    BY <1>2, <2>1 DEF RowKind, Fresh, Journal, UnfinishedRow
  <2>. QED
    BY <1>1, <1>2, <2>1 DEF RowKind, Others
<1>3. ASSUME NEW c \in Reports, EndKind(c)
      PROVE  cmd'[d] = cmd[d] \/ (Oldest(d) /\ cmd[d].state /= "none")
  BY <1>3 DEF EndKind, Others, Fresh, Unfinished
<1>4. ASSUME NEW f \in Finalizers, GuardKind(f) \/ WriteKind(f)
      PROVE  cmd'[d] = cmd[d]
  BY <1>4 DEF GuardKind, WriteKind, Others, Fresh, Holds
<1>5. CASE JobKind \/ \E f \in Finalizers : ResolveKind(f)
  BY <1>1, <1>5 DEF JobKind, ResolveKind
<1>. QED
  BY <1>1, <1>2, <1>3, <1>4, <1>5, OldestStays, Followed DEF Moves

\* No step but S17 writes the history of dispositions.
LEMMA HistoryStays ==
    ASSUME Moves
    PROVE  writes' = writes \/ \E f \in Finalizers : WriteKind(f)
  BY DEF Moves, JobKind, RowKind, EndKind, ResolveKind, GuardKind

\* It is enough to look at the reports one by one.
LEMMA WrittenByOne ==
    ASSUME writes' \in Seq(Reports),
           ASSUME NEW i \in DOMAIN writes', NEW d \in Reports, d = writes'[i]
           PROVE  WroteStatus(d)'
    PROVE  Written'
  BY DEF Written, WroteStatus, Oldest, Unfinished

\* Every step but an acceptance keeps the order.
LEMMA MovesKeepQueue ==
    ASSUME IInv, Queue, Moves
    PROVE  Queue'
<1>1. job'.hwm = job.hwm
  BY DEF Moves, JobKind, RowKind, EndKind, ResolveKind, GuardKind, WriteKind,
     JobStep
<1>2. Numbered'
  BY <1>1, Followed DEF Queue, Numbered
<1>3. Untouched'
  <2>1. SUFFICES ASSUME NEW d \in Reports
                 PROVE  Fresh(cmd'[d]) \/ (Oldest(d)' /\ cmd'[d].state /= "none")
    BY DEF Untouched
  <2>2. CASE Fresh(cmd[d])
    BY <2>2, UntouchedStays DEF Queue
  <2>3. CASE Oldest(d) /\ cmd[d].state /= "none"
    BY <2>3, OldestStays, Followed
  <2>. QED
    BY <2>2, <2>3 DEF Queue, Untouched
<1>4. writes \in Seq(Reports)
  BY DEF IInv, TypeOK
<1>5. ASSUME NEW d \in Reports, WroteStatus(d)
      PROVE  WroteStatus(d)'
  BY <1>1, <1>5, OldestStays, Followed DEF WroteStatus
<1>6. CASE writes' = writes
  <2>1. Written'
    BY <1>4, <1>5, <1>6, WrittenByOne DEF Queue, Written
  <2>2. DispositionsInOrder'
    BY <1>6 DEF Queue, DispositionsInOrder
  <2>. QED
    BY <1>2, <1>3, <2>1, <2>2 DEF Queue
<1>7. ASSUME NEW f \in Finalizers, WriteKind(f)
      PROVE  Queue'
  <2>. DEFINE c == fin[f].c
  <2>1. /\ c \in Reports /\ cmd[c].state = "finalizing"
        /\ cmd[c].disp = "none" /\ cmd[c].want /= "none"
        /\ cmd[c] \in CommandRows
    BY <1>7, WriterHolds DEF IInv, TypeOK, Statuses
  <2>2. /\ writes' = Append(writes, c) /\ job'.hwm = job.hwm
        /\ cmd'[c].disp = cmd[c].want /\ cmd'[c].state = "finalizing"
    BY <1>7, <2>1 DEF WriteKind, CommandRows
  <2>3. Oldest(c) /\ c <= job.hwm
    <3>1. ~ Fresh(cmd[c]) /\ cmd[c].state /= "none"
      BY <2>1 DEF Fresh
    <3>2. job.hwm \in Nat /\ c \in Nat
      BY <2>1, CompletionConstants DEF IInv, TypeOK, JobRows, Reports
    <3>. QED
      BY <2>1, <3>1, <3>2 DEF Queue, Untouched, Numbered
  <2>4. Unfinished(c)
    BY <2>1 DEF Unfinished
  <2>5. \A i \in DOMAIN writes : writes[i] < c
    <3>1. SUFFICES ASSUME NEW i \in DOMAIN writes, writes[i] >= c
                   PROVE  FALSE
      BY <1>4, <2>1, CompletionConstants DEF Reports
    <3>2. writes[i] \in Reports
      BY <1>4
    <3>3. CASE writes[i] = c
      BY <2>1, <2>4, <3>3 DEF Queue, Written, WroteStatus
    <3>4. CASE writes[i] > c
      <4>1. c \in 1..(writes[i] - 1)
        BY <2>1, <3>2, <3>4, CompletionConstants DEF Reports
      <4>. QED
        BY <2>4, <4>1 DEF Queue, Written, WroteStatus, Oldest
    <3>. QED
      BY <2>1, <3>1, <3>2, <3>3, <3>4, CompletionConstants DEF Reports
  <2>6. ASSUME NEW i \in DOMAIN writes'
        PROVE  \/ i \in DOMAIN writes /\ writes'[i] = writes[i]
               \/ i = Len(writes) + 1 /\ writes'[i] = c
    BY <1>4, <2>1, <2>2
  <2>7. Written'
    <3>1. ASSUME NEW d \in Reports, d = c
          PROVE  WroteStatus(d)'
      BY <1>1, <2>1, <2>2, <2>3, <3>1, OldestStays DEF WroteStatus
    <3>2. writes' \in Seq(Reports)
      BY <1>4, <2>1, <2>2
    <3>3. ASSUME NEW i \in DOMAIN writes', NEW d \in Reports, d = writes'[i]
          PROVE  WroteStatus(d)'
      <4>1. CASE i \in DOMAIN writes /\ writes'[i] = writes[i]
        <5>1. d = writes[i] /\ i \in DOMAIN writes
          BY <3>3, <4>1
        <5>2. WroteStatus(d)
          BY <5>1 DEF Queue, Written
        <5>. QED
          BY <1>5, <5>2
      <4>2. CASE writes'[i] = c
        <5>1. d = c
          BY <3>3, <4>2
        <5>. QED
          BY <3>1, <5>1
      <4>. QED
        BY <2>6, <3>3, <4>1, <4>2
    <3>. QED
      BY <3>2, <3>3, WrittenByOne
  <2>8. DispositionsInOrder'
    BY <1>4, <2>1, <2>2, <2>5, <2>6 DEF DispositionsInOrder, Queue
  <2>. QED
    BY <1>2, <1>3, <2>7, <2>8 DEF Queue
<1>. QED
  BY <1>6, <1>7, HistoryStays

\* The new report is the newest.
LEMMA AcceptKeepsQueue ==
    ASSUME IInv, Queue, NEW want \in Dispositions, AcceptKind(want)
    PROVE  Queue'
<1>. DEFINE c == job.hwm + 1
<1>1. /\ c \in Reports /\ job.hwm \in Nat /\ Reports \subseteq Nat
      /\ writes \in Seq(Reports) /\ job \in JobRows
  BY CompletionConstants DEF AcceptKind, IInv, TypeOK, JobRows, Reports
<1>2. /\ Others(c) /\ cmd'[c] = Accepted(want) /\ writes' = writes
      /\ job'.hwm = c
  BY <1>1 DEF AcceptKind, JobRows
<1>3. cmd'[c].state = "pending" /\ Fresh(cmd'[c])
  BY <1>2, AcceptedRow DEF Fresh
<1>4. Numbered'
  <2>1. ASSUME NEW d \in Reports \ {c}
        PROVE  cmd'[d].state = "none" <=> d > job.hwm + 1
    <3>1. cmd'[d] = cmd[d] /\ (cmd[d].state = "none" <=> d > job.hwm)
      BY <1>2, <2>1 DEF Queue, Numbered, Others
    <3>2. d \in Nat /\ d /= job.hwm + 1
      BY <1>1, <2>1
    <3>. QED
      BY <1>1, <3>1, <3>2
  <2>2. cmd'[c].state /= "none" /\ ~ (c > job.hwm + 1)
    BY <1>1, <1>3
  <2>. QED
    BY <1>2, <2>1, <2>2 DEF Numbered
<1>5. ASSUME NEW d \in Reports, d <= job.hwm, Oldest(d)
      PROVE  Oldest(d)'
  <2>1. \A e \in 1..(d - 1) : e \in Reports \ {c}
    BY <1>1, <1>5, CompletionConstants DEF Reports
  <2>. QED
    BY <1>2, <1>5, <2>1 DEF Oldest, Unfinished, Others
<1>6. Untouched'
  <2>1. SUFFICES ASSUME NEW d \in Reports, d /= c
                 PROVE  Fresh(cmd'[d]) \/ (Oldest(d)' /\ cmd'[d].state /= "none")
    BY <1>3 DEF Untouched
  <2>2. cmd'[d] = cmd[d]
    BY <1>2, <2>1 DEF Others
  <2>3. CASE cmd[d].state = "none"
    BY <2>2, <2>3 DEF Queue, Untouched
  <2>4. CASE cmd[d].state /= "none"
    <3>1. d <= job.hwm
      BY <1>1, <2>4 DEF Queue, Numbered
    <3>. QED
      BY <1>5, <2>2, <2>4, <3>1 DEF Queue, Untouched
  <2>. QED
    BY <2>3, <2>4
<1>7. Written'
  <2>1. ASSUME NEW d \in Reports, WroteStatus(d)
        PROVE  WroteStatus(d)'
    <3>1. d <= job.hwm /\ Oldest(d) /\ d \in Nat
      BY <1>1, <2>1 DEF WroteStatus
    <3>2. d /= c /\ d <= job'.hwm
      BY <1>1, <1>2, <3>1
    <3>3. cmd'[d] = cmd[d]
      BY <1>2, <3>2 DEF Others
    <3>. QED
      BY <1>5, <2>1, <3>1, <3>2, <3>3 DEF WroteStatus, Unfinished
  <2>. QED
    BY <1>1, <1>2, <2>1, WrittenByOne DEF Queue, Written
<1>. QED
  BY <1>2, <1>4, <1>6, <1>7 DEF Queue, DispositionsInOrder

\* So does every step.
LEMMA QueueKept ==
    ASSUME IInv, Queue, [Next]_vars
    PROVE  Queue'
  BY StepKinds, MovesKeepQueue, AcceptKeepsQueue

\* No report, no order.
LEMMA QueueInit ==
    ASSUME Init
    PROVE  Queue
<1>1. \A c \in Reports : cmd[c] = NoCommand /\ c > job.hwm
  BY CompletionConstants DEF Init, Reports
<1>2. \A c \in Reports : Fresh(cmd[c]) /\ cmd[c].state = "none"
  BY <1>1 DEF Fresh, NoCommand
<1>. QED
  BY <1>1, <1>2 DEF Init, Queue, Numbered, Untouched, Written,
     DispositionsInOrder

\* Reports take effect in the order of their acceptance, each at most once,
\* whoever finalizes them and however often they are parked, rearmed and
\* claimed again (the FIFO guard of _claim and the marker of S17).
THEOREM DecidedInOrder == Spec => []DispositionsInOrder
<1>1. Init => Queue
  BY QueueInit
<1>2. IInv /\ Queue /\ [Next]_vars => Queue'
  BY QueueKept
<1>3. Queue => DispositionsInOrder
  BY DEF Queue
<1>4. Spec => []IInv
  BY CompletionInvariant
<1>. QED
  BY <1>1, <1>2, <1>3, <1>4, PTL DEF Spec

-----------------------------------------------------------------------------
(***************************************************************************)
(* The authority of a disposition.  While a report waits, only the status  *)
(* it was admitted under can be processing, so the compare-and-set of S17  *)
(* on the value tells whether anyone wrote it in the meantime.             *)
(***************************************************************************)
Admitted ==
    \A c \in Reports :
       Unfinished(c) /\ job.status = "processing" => cmd[c].seen = job.ver
HumanHolds == job.ctl = Human => ~ job.agent
Past ==
    \A c \in Reports :
       Unfinished(c) /\ (cmd[c].disp /= "none" \/ LateEntry(cmd[c].entry))
       => job.status /= "processing"
PastGuard ==
    \A f \in Finalizers :
       Holds(f) /\ fin[f].at = "guard" /\ LateEntry(fin[f].entry)
       => job.status /= "processing"

Authority == Admitted /\ HumanHolds /\ Past /\ PastGuard

\* Nothing returns the job to processing while a report is unfinished
\* (job_completion_sweep_exclusions).
LEMMA Processing ==
    ASSUME IInv, Moves, job'.status = "processing",
           NEW c \in Reports, Unfinished(c)'
    PROVE  job.status = "processing" /\ job'.ver = job.ver
<1>1. Excluded
  BY Followed DEF Excluded
<1>2. CASE JobStep
  BY <1>1, <1>2 DEF JobStep
<1>3. ASSUME NEW f \in Finalizers
      PROVE  ~ WriteKind(f)
  BY WriterHolds DEF WriteKind
<1>. QED
  BY <1>2, <1>3 DEF Moves, JobKind, RowKind, EndKind, ResolveKind, GuardKind

\* Where the holders at the guard and at the end of the workflow come from.
LEMMA HolderStays ==
    ASSUME IInv, Moves, NEW g \in Finalizers, Holds(g)'
    PROVE  /\ fin'[g].at = "guard" =>
                 (Holds(g) /\ fin'[g] = fin[g]) \/ ResolveKind(g)
           /\ fin'[g].at = "finish" /\ ~ fin'[g].blocked =>
                 \/ Holds(g) /\ fin'[g] = fin[g]
                 \/ cmd'[fin'[g].c].out /= "none"
                 \/ Decides(cmd'[fin'[g].c])
                 \/ /\ GuardKind(g)
                    /\ AfterGuard(fin[g].c, fin[g].entry) = "finish"
<1>1. CASE FinKept
  BY <1>1 DEF FinKept
<1>2. ASSUME NEW f \in Finalizers, ResolveKind(f), f /= g
      PROVE  Holds(g) /\ fin'[g] = fin[g]
  BY <1>2 DEF ResolveKind, Holds
<1>3. ASSUME NEW f \in Finalizers, GuardKind(f), f /= g
      PROVE  Holds(g) /\ fin'[g] = fin[g]
  <2>. DEFINE c == fin[f].c
  <2>1. fin'[g] = fin[g] /\ fin[g].at /= "idle" /\ fin[g].c \in Reports
    BY <1>3 DEF GuardKind, Holds, IInv, StagesFit, Stage
  <2>2. /\ cmd[c] \in CommandRows
        /\ cmd'[c] = [cmd[c] EXCEPT !.entry = fin[f].entry]
    BY <1>3, Holder DEF GuardKind, GoodRow
  <2>3. /\ cmd'[c].state = cmd[c].state /\ cmd'[c].owner = cmd[c].owner
        /\ cmd'[c].live = cmd[c].live
    BY <2>2 DEF CommandRows
  <2>4. cmd'[fin[g].c].state = "finalizing" /\ cmd'[fin[g].c].owner = g
        /\ cmd'[fin[g].c].live
    BY <2>1 DEF Holds
  <2>5. CASE fin[g].c = c
    BY <2>1, <2>3, <2>4, <2>5 DEF Holds
  <2>6. CASE fin[g].c /= c
    BY <1>3, <2>1, <2>4, <2>6 DEF GuardKind, Others, Holds
  <2>. QED
    BY <2>1, <2>5, <2>6
<1>4. CASE ResolveKind(g)
  BY <1>4 DEF ResolveKind
<1>5. CASE GuardKind(g)
  BY <1>5 DEF GuardKind
<1>. QED
  BY <1>1, <1>2, <1>3, <1>4, <1>5
  DEF Moves, JobKind, RowKind, EndKind, WriteKind

\* What a step does to the journal of a command that stays unfinished.
LEMMA JournalMoves ==
    ASSUME IInv, Moves, NEW d \in Reports, Unfinished(d)'
    PROVE  /\ \/ cmd'[d].disp = cmd[d].disp
              \/ \E f \in Finalizers : WriteKind(f) /\ fin[f].c = d
           /\ \/ cmd'[d].entry = cmd[d].entry
              \/ \E f \in Finalizers :
                    /\ GuardKind(f) /\ fin[f].c = d
                    /\ cmd'[d].entry = fin[f].entry
<1>1. cmd[d] \in CommandRows
  BY DEF IInv, TypeOK
<1>2. CASE cmd'[d] = cmd[d]
  BY <1>2
<1>3. ASSUME NEW c \in Reports, RowKind(c)
      PROVE  cmd'[d] = cmd[d] \/ Journal(cmd[d], cmd'[d])
  BY <1>3 DEF RowKind, Others
<1>4. ASSUME NEW c \in Reports, EndKind(c)
      PROVE  cmd'[d] = cmd[d]
  <2>1. CASE d = c
    <3>1. cmd'[d].state \in {"done", "superseded", "force_resolved"}
      BY <1>4, <2>1, EndedRow DEF EndKind
    <3>. QED
      BY <3>1 DEF Unfinished
  <2>. QED
    BY <1>4, <2>1 DEF EndKind, Others
<1>5. ASSUME NEW f \in Finalizers, GuardKind(f)
      PROVE  \/ cmd'[d] = cmd[d]
             \/ /\ fin[f].c = d /\ cmd'[d].disp = cmd[d].disp
                /\ cmd'[d].entry = fin[f].entry
  BY <1>1, <1>5 DEF GuardKind, Others, CommandRows
<1>6. ASSUME NEW f \in Finalizers, WriteKind(f)
      PROVE  \/ cmd'[d] = cmd[d]
             \/ fin[f].c = d /\ cmd'[d].entry = cmd[d].entry
  BY <1>1, <1>6 DEF WriteKind, Others, CommandRows
<1>7. CASE JobKind \/ \E f \in Finalizers : ResolveKind(f)
  BY <1>2, <1>7 DEF JobKind, ResolveKind
<1>. QED
  BY <1>3, <1>4, <1>5, <1>6, <1>7 DEF Moves, Journal

\* The authority that S1 resolves.
LEMMA Resolved ==
    ASSUME IInv, NEW c \in Reports, EntryAuthority(c) /= "none"
    PROVE  \/ EntryAuthority(c) = cmd[c].entry
           \/ /\ EntryAuthority(c) = job.status
              /\ \/ job.status = cmd[c].accepted
                 \/ /\ c - 1 \in Reports /\ cmd[c - 1].state = "done"
                    /\ cmd[c - 1].result = job.status
<1>1. c > 1 => c - 1 \in Reports
  BY CompletionConstants DEF Reports
<1>. QED
  BY <1>1 DEF EntryAuthority

\* Every step but an acceptance keeps the authority.
LEMMA MovesKeepAuthority ==
    ASSUME IInv, Authority, Moves
    PROVE  Authority'
<1>1. Admitted'
  <2>1. SUFFICES ASSUME NEW c \in Reports, Unfinished(c)',
                        job'.status = "processing"
                 PROVE  cmd'[c].seen = job'.ver
    BY DEF Admitted
  <2>. QED
    BY <2>1, Processing, Followed DEF Authority, Admitted
<1>2. HumanHolds'
  <2>1. CASE JobStep
    BY <2>1, CompletionConstants
    DEF JobStep, Authority, HumanHolds, Human, Nobody
  <2>2. CASE UNCHANGED job
    BY <2>2 DEF Authority, HumanHolds
  <2>3. ASSUME NEW f \in Finalizers, WriteKind(f)
        PROVE  HumanHolds'
    BY <2>3, CompletionConstants DEF WriteKind, HumanHolds, Human, Nobody
  <2>. QED
    BY <2>1, <2>2, <2>3
    DEF Moves, JobKind, RowKind, EndKind, ResolveKind, GuardKind
<1>3. Past'
  <2>1. SUFFICES ASSUME NEW c \in Reports, Unfinished(c)',
                        cmd'[c].disp /= "none" \/ LateEntry(cmd'[c].entry),
                        job'.status = "processing"
                 PROVE  FALSE
    BY DEF Past
  <2>2. job.status = "processing" /\ Unfinished(c)
    BY <2>1, Processing, Followed
  <2>3. cmd'[c].disp = cmd[c].disp
    <3>1. ASSUME NEW f \in Finalizers, WriteKind(f)
          PROVE  FALSE
      BY <2>1, <3>1, WriterHolds DEF WriteKind
    <3>. QED
      BY <2>1, <3>1, JournalMoves
  <2>4. CASE cmd'[c].entry = cmd[c].entry
    BY <2>1, <2>2, <2>3, <2>4 DEF Authority, Past
  <2>5. ASSUME NEW f \in Finalizers, GuardKind(f), fin[f].c = c,
               cmd'[c].entry = fin[f].entry
        PROVE  FALSE
    BY <2>1, <2>2, <2>3, <2>5 DEF Authority, Past, PastGuard, GuardKind
  <2>. QED
    BY <2>1, <2>4, <2>5, JournalMoves
<1>4. PastGuard'
  <2>1. SUFFICES ASSUME NEW g \in Finalizers, Holds(g)',
                        fin'[g].at = "guard", LateEntry(fin'[g].entry),
                        job'.status = "processing"
                 PROVE  FALSE
    BY DEF PastGuard
  <2>2. Holds(g) /\ fin'[g].c = fin[g].c
    BY <2>1, HolderStays DEF ResolveKind
  <2>3. PICK c \in Reports : c = fin[g].c
    BY <2>2, Holder
  <2>a. Unfinished(c)'
    BY <2>1, <2>2, <2>3 DEF Holds, Unfinished
  <2>4. job.status = "processing" /\ Unfinished(c)
    BY <2>1, <2>a, Processing, Followed
  <2>5. CASE fin'[g] = fin[g]
    BY <2>1, <2>2, <2>3, <2>4, <2>5 DEF Authority, PastGuard
  <2>6. CASE ResolveKind(g)
    BY <2>1, <2>3, <2>4, <2>6, Resolved
    DEF ResolveKind, Authority, Past, LateEntry
  <2>. QED
    BY <2>1, <2>5, <2>6, HolderStays
<1>. QED
  BY <1>1, <1>2, <1>3, <1>4 DEF Authority

\* A new report is admitted under the status of the moment.
LEMMA AcceptKeepsAuthority ==
    ASSUME IInv, Authority, NEW want \in Dispositions, AcceptKind(want)
    PROVE  Authority'
<1>. DEFINE c == job.hwm + 1
<1>1. /\ c \in Reports /\ Others(c) /\ cmd'[c] = Accepted(want)
      /\ fin' = fin /\ job \in JobRows /\ job.agent
      /\ job'.status = job.status /\ job'.ver = job.ver /\ job'.ctl = job.ctl
  BY DEF AcceptKind, IInv, TypeOK, JobRows
<1>2. /\ cmd'[c].seen = job.ver /\ cmd'[c].state = "pending"
      /\ cmd'[c].disp = "none" /\ ~ LateEntry(cmd'[c].entry)
  BY <1>1, AcceptedRow DEF LateEntry
<1>3. Admitted' /\ Past'
  BY <1>1, <1>2 DEF Authority, Admitted, Past, Others, Unfinished
<1>4. HumanHolds'
  BY <1>1 DEF Authority, HumanHolds, Human
<1>5. ASSUME NEW g \in Finalizers, Holds(g)'
      PROVE  Holds(g)
  <2>1. fin[g].c \in Reports
    BY <1>1, <1>5 DEF IInv, StagesFit, Stage, Holds
  <2>. QED
    BY <1>1, <1>2, <1>5, <2>1 DEF Holds, Others
<1>6. PastGuard'
  BY <1>1, <1>5 DEF Authority, PastGuard
<1>. QED
  BY <1>3, <1>4, <1>6 DEF Authority

\* So does every step.
LEMMA AuthorityKept ==
    ASSUME IInv, Authority, [Next]_vars
    PROVE  Authority'
  BY StepKinds, MovesKeepAuthority, AcceptKeepsAuthority

\* No report, nothing to prove.
LEMMA AuthorityInit ==
    ASSUME Init
    PROVE  Authority
<1>1. \A c \in Reports : cmd[c].state = "none"
  BY DEF Init, NoCommand
<1>2. \A f \in Finalizers : fin[f].at = "idle"
  BY DEF Init, Free
<1>3. job.ctl /= Human
  BY CompletionConstants DEF Init, Human, Nobody
<1>. QED
  BY <1>1, <1>2, <1>3
  DEF Authority, Admitted, HumanHolds, Past, PastGuard, Unfinished, Holds

\* The writer of a disposition proved the status it writes over.
LEMMA WriteProved ==
    ASSUME IInv, NEW f \in Finalizers, WriteKind(f)
    PROVE  LET c == fin[f].c IN
           /\ c \in Reports /\ Unfinished(c)
           /\ writes'[Len(writes')] = c
           /\ cmd'[c].seen = cmd[c].seen
           /\ job.status = cmd[c].entry
           /\ job.status \in {"processing", "failed"}
<1>. DEFINE c == fin[f].c
<1>1. c \in Reports /\ Unfinished(c) /\ Decides(cmd[c])
  BY WriterHolds DEF Unfinished
<1>2. writes \in Seq(Reports) /\ cmd[c] \in CommandRows
  BY <1>1 DEF IInv, TypeOK
<1>3. /\ writes' = Append(writes, c) /\ job.status = cmd[c].entry
      /\ cmd'[c] = [cmd[c] EXCEPT !.disp = cmd[c].want]
  BY DEF WriteKind
<1>4. writes'[Len(writes')] = c
  BY <1>1, <1>2, <1>3
<1>5. cmd'[c].seen = cmd[c].seen
  BY <1>2, <1>3 DEF CommandRows
<1>. QED
  BY <1>1, <1>3, <1>4, <1>5 DEF Decides

\* A disposition is written by an acceptance nobody has overtaken, or over a
\* failure that came from outside.
AdmittedOrFailed ==
    Len(writes') > Len(writes)
    => \/ job.ver = cmd[writes'[Len(writes')]].seen
       \/ job.status = "failed"

\* Every step of the writers.
LEMMA WritesProved ==
    ASSUME IInv, Authority, [Next]_vars
    PROVE  AdmittedOrFailed
<1>1. CASE writes' = writes
  BY <1>1 DEF AdmittedOrFailed, IInv, TypeOK
<1>2. ASSUME NEW f \in Finalizers, WriteKind(f)
      PROVE  AdmittedOrFailed
  BY <1>2, WriteProved DEF AdmittedOrFailed, Authority, Admitted
<1>3. ASSUME NEW want, AcceptKind(want)
      PROVE  writes' = writes
  BY <1>3 DEF AcceptKind
<1>. QED
  BY <1>1, <1>2, <1>3, HistoryStays, StepKinds

\* Whatever statuses reports ask for, one writes the status of the job only if
\* nobody else has written it since its acceptance, or over "failed", which a
\* late completion re-resolves on purpose (is_late_completion_report).
THEOREM DecidedAsAdmittedOrFailed == Spec => [][AdmittedOrFailed]_vars
<1>1. Init => Authority
  BY AuthorityInit
<1>2. IInv /\ Authority /\ [Next]_vars => Authority'
  BY AuthorityKept
<1>3. IInv /\ Authority /\ [Next]_vars => [AdmittedOrFailed]_vars
  BY WritesProved
<1>4. Spec => []IInv
  BY CompletionInvariant
<1>. QED
  BY <1>1, <1>2, <1>3, <1>4, PTL DEF Spec

-----------------------------------------------------------------------------
(***************************************************************************)
(* When no report asks for "failed", a failure comes from outside, the job *)
(* has no agent from then on, and no report is admitted under it.          *)
(***************************************************************************)
NoFailed ==
    /\ job.status = "failed" => ~ job.agent
    /\ \A c \in Reports :
          /\ cmd[c].accepted /= "failed" /\ cmd[c].entry /= "failed"
          /\ cmd[c].result /= "failed"
    /\ \A f \in Finalizers :
          Holds(f) /\ fin[f].at = "guard" => fin[f].entry /= "failed"

\* What can become of the result of a command.
LEMMA ResultMoves ==
    ASSUME IInv, Moves, NEW d \in Reports
    PROVE  \/ /\ cmd'[d].result = cmd[d].result
              /\ cmd'[d].state = "done" => cmd[d].state = "done"
           \/ cmd'[d].result = "none" /\ cmd'[d].state /= "done"
           \/ /\ EndKind(d) /\ cmd'[d].result = Outcome(d)
              /\ cmd'[d].state = "done" /\ cmd'[d].out = cmd[d].out
              /\ cmd[d].state = "finalizing"
              /\ \E f \in Finalizers : /\ Holds(f) /\ fin[f].c = d
                                       /\ fin[f].at = "finish"
                                       /\ ~ fin[f].blocked
<1>1. cmd[d] \in CommandRows
  BY DEF IInv, TypeOK
<1>2. CASE cmd'[d] = cmd[d]
  BY <1>2
<1>3. ASSUME NEW c \in Reports, RowKind(c)
      PROVE  \/ cmd'[d] = cmd[d]
             \/ /\ cmd'[d].result = cmd[d].result
                /\ cmd'[d].state = "done" => cmd[d].state = "done"
  BY <1>3 DEF RowKind, Others, Journal, UnfinishedRow
<1>4. ASSUME EndKind(d)
      PROVE  \/ cmd'[d].result = "none" /\ cmd'[d].state /= "done"
             \/ /\ cmd'[d].result = Outcome(d) /\ cmd'[d].state = "done"
                /\ cmd'[d].out = cmd[d].out
                /\ \E f \in Finalizers : /\ Holds(f) /\ fin[f].c = d
                                         /\ fin[f].at = "finish"
                                         /\ ~ fin[f].blocked
  BY <1>4, EndedRow DEF EndKind
<1>5. ASSUME NEW c \in Reports, EndKind(c), c /= d
      PROVE  cmd'[d] = cmd[d]
  BY <1>5 DEF EndKind, Others
<1>6. ASSUME NEW f \in Finalizers, GuardKind(f) \/ WriteKind(f)
      PROVE  cmd'[d].result = cmd[d].result /\ cmd'[d].state = cmd[d].state
  BY <1>1, <1>6 DEF GuardKind, WriteKind, Others, CommandRows
<1>7. CASE JobKind \/ \E f \in Finalizers : ResolveKind(f)
  BY <1>2, <1>7 DEF JobKind, ResolveKind
<1>8. ASSUME NEW f \in Finalizers, Holds(f), fin[f].c = d
      PROVE  cmd[d].state = "finalizing"
  BY <1>8 DEF Holds
<1>. QED
  BY <1>2, <1>3, <1>4, <1>5, <1>6, <1>7, <1>8 DEF Moves

\* A command that ended has no entry left.
LEMMA EntryMoves ==
    ASSUME IInv, Moves, NEW d \in Reports
    PROVE  \/ cmd'[d].entry \in {cmd[d].entry, "none"}
           \/ \E f \in Finalizers :
                 /\ GuardKind(f) /\ fin[f].c = d
                 /\ cmd'[d].entry = fin[f].entry
<1>1. cmd[d] \in CommandRows
  BY DEF IInv, TypeOK
<1>2. ASSUME NEW c \in Reports, RowKind(c) \/ EndKind(c)
      PROVE  cmd'[d].entry \in {cmd[d].entry, "none"}
  BY <1>2, EndedRow DEF RowKind, EndKind, Others, Journal
<1>3. ASSUME NEW f \in Finalizers, WriteKind(f)
      PROVE  cmd'[d].entry = cmd[d].entry
  BY <1>1, <1>3 DEF WriteKind, Others, CommandRows
<1>4. ASSUME NEW f \in Finalizers, GuardKind(f)
      PROVE  \/ cmd'[d].entry = cmd[d].entry
             \/ fin[f].c = d /\ cmd'[d].entry = fin[f].entry
  BY <1>1, <1>4 DEF GuardKind, Others, CommandRows
<1>5. CASE JobKind \/ \E f \in Finalizers : ResolveKind(f)
  BY <1>5 DEF JobKind, ResolveKind
<1>. QED
  BY <1>2, <1>3, <1>4, <1>5 DEF Moves

\* Only a dispatch gives the job an agent, and a job that has one is not
\* failed under it.
LEMMA AgentMoves ==
    ASSUME IInv, Authority, Moves, job'.agent
    PROVE  \/ job'.status = "processing" /\ ~ Excluded
           \/ /\ job.agent
              /\ \/ job'.status = job.status
                 \/ /\ job.lane = "stateless"
                    /\ job'.status \in {"paused", "cancelled"}
                 \/ \E f \in Finalizers :
                       /\ WriteKind(f) /\ job'.status = cmd[fin[f].c].want
                       /\ cmd[fin[f].c].want /= "paused"
<1>1. CASE JobStep
  BY <1>1 DEF JobStep, Authority, HumanHolds
<1>2. CASE UNCHANGED job
  BY <1>2
<1>3. ASSUME NEW f \in Finalizers, WriteKind(f)
      PROVE  /\ job.agent /\ job'.status = cmd[fin[f].c].want
             /\ cmd[fin[f].c].want /= "paused"
  BY <1>3 DEF WriteKind
<1>. QED
  BY <1>1, <1>2, <1>3
  DEF Moves, JobKind, RowKind, EndKind, ResolveKind, GuardKind

\* Every step but an acceptance keeps it so.
LEMMA MovesKeepNoFailed ==
    ASSUME "failed" \notin Dispositions, IInv, Authority, NoFailed, Moves
    PROVE  NoFailed'
<1>1. job'.status = "failed" => ~ job'.agent
  <2>1. SUFFICES ASSUME job'.status = "failed", job'.agent
                 PROVE  FALSE
    OBVIOUS
  <2>2. PICK f \in Finalizers :
               WriteKind(f) /\ job'.status = cmd[fin[f].c].want
    BY <2>1, AgentMoves DEF NoFailed
  <2>. QED
    BY <2>1, <2>2, WriterHolds
<1>2. ASSUME NEW c \in Reports
      PROVE  cmd'[c].accepted /= "failed" /\ cmd'[c].entry /= "failed"
  <2>1. cmd'[c].accepted /= "failed"
    BY Followed DEF NoFailed
  <2>2. cmd'[c].entry /= "failed"
    <3>1. ASSUME NEW f \in Finalizers, GuardKind(f)
          PROVE  fin[f].entry /= "failed"
      BY <3>1 DEF GuardKind, NoFailed
    <3>2. cmd[c].entry /= "failed"
      BY DEF NoFailed
    <3>. QED
      BY <3>1, <3>2, EntryMoves
  <2>. QED
    BY <2>1, <2>2
<1>3. ASSUME NEW c \in Reports
      PROVE  cmd'[c].result /= "failed"
  <2>1. cmd[c] \in CommandRows /\ GoodRow(cmd[c])
    BY DEF IInv, Rows, TypeOK
  <2>2. Outcome(c) \in {cmd[c].entry, cmd[c].disp, "none"}
    BY DEF Outcome
  <2>3. cmd[c].disp /= "none" => cmd[c].disp \in Dispositions
    BY <2>1 DEF GoodRow, CommandRows
  <2>. QED
    BY <2>2, <2>3, ResultMoves DEF NoFailed
<1>4. ASSUME NEW g \in Finalizers, Holds(g)', fin'[g].at = "guard"
      PROVE  fin'[g].entry /= "failed"
  <2>1. CASE Holds(g) /\ fin'[g] = fin[g]
    BY <1>4, <2>1 DEF NoFailed
  <2>2. CASE ResolveKind(g)
    <3>1. fin[g].c \in Reports
      BY <2>2, Holder DEF ResolveKind
    <3>. QED
      BY <2>2, <3>1, Resolved DEF ResolveKind, NoFailed
  <2>. QED
    BY <1>4, <2>1, <2>2, HolderStays
<1>. QED
  BY <1>1, <1>2, <1>3, <1>4 DEF NoFailed

\* How an acceptance leaves the holders (accept_completion_command).
LEMMA AcceptShape ==
    ASSUME IInv, NEW want \in Dispositions, AcceptKind(want)
    PROVE  LET c == job.hwm + 1 IN
           /\ c \in Reports /\ Others(c) /\ cmd'[c] = Accepted(want)
           /\ fin' = fin /\ writes' = writes /\ job.agent
           /\ job'.status = job.status /\ job'.lane = job.lane
           /\ job'.hwm = c /\ job'.agent = (job.lane = "pinned")
           /\ \A g \in Finalizers : Holds(g)' => Holds(g) /\ fin[g].c /= c
<1>. DEFINE c == job.hwm + 1
<1>1. /\ c \in Reports /\ Others(c) /\ cmd'[c] = Accepted(want)
      /\ fin' = fin /\ writes' = writes /\ job.agent
      /\ job'.status = job.status /\ job'.lane = job.lane
      /\ job'.hwm = c /\ job'.agent = (job.lane = "pinned")
  BY DEF AcceptKind, IInv, TypeOK, JobRows
<1>2. cmd'[c].state = "pending"
  BY <1>1, AcceptedRow
<1>3. ASSUME NEW g \in Finalizers, Holds(g)'
      PROVE  Holds(g) /\ fin[g].c /= c
  <2>1. fin[g].c \in Reports
    BY <1>1, <1>3 DEF IInv, StagesFit, Stage, Holds
  <2>. QED
    BY <1>1, <1>2, <1>3, <2>1 DEF Holds, Others
<1>. QED
  BY <1>1, <1>3

\* A report is admitted only while the job has an agent.
LEMMA AcceptKeepsNoFailed ==
    ASSUME IInv, NoFailed, NEW want \in Dispositions, AcceptKind(want)
    PROVE  NoFailed'
<1>. DEFINE c == job.hwm + 1
<1>1. /\ c \in Reports /\ Others(c) /\ cmd'[c] = Accepted(want)
      /\ fin' = fin /\ job.agent /\ job'.status = job.status
      /\ \A g \in Finalizers : Holds(g)' => Holds(g)
  BY AcceptShape
<1>2. /\ cmd'[c].accepted = job.status /\ cmd'[c].entry = "none"
      /\ cmd'[c].result = "none"
  BY <1>1, AcceptedRow
<1>. QED
  BY <1>1, <1>2 DEF NoFailed, Others

\* A report decides the job only if nobody else wrote the status since its
\* acceptance: the compare-and-set of S17 on the value is enough.  Reports
\* that ask for "failed" are left out: a late completion re-resolves such a
\* job, whoever failed it.
THEOREM DecidedAsAdmitted ==
    ASSUME "failed" \notin Dispositions
    PROVE  Spec => StatusIsTheOneAdmitted
<1>1. Init => Authority /\ NoFailed
  <2>1. SUFFICES ASSUME Init PROVE NoFailed
    BY AuthorityInit
  <2>2. \A c \in Reports : cmd[c] = NoCommand
    BY <2>1 DEF Init
  <2>3. \A f \in Finalizers : fin[f].at = "idle"
    BY <2>1 DEF Init, Free
  <2>4. job.status = "processing"
    BY <2>1 DEF Init
  <2>. QED
    BY <2>2, <2>3, <2>4 DEF NoFailed, NoCommand, Holds
<1>2. IInv /\ Authority /\ NoFailed /\ [Next]_vars => Authority' /\ NoFailed'
  BY AuthorityKept, StepKinds, MovesKeepNoFailed, AcceptKeepsNoFailed
<1>3. IInv /\ Authority /\ NoFailed /\ [Next]_vars
      => [Len(writes') > Len(writes)
          => job.ver = cmd[writes'[Len(writes')]].seen]_vars
  <2>1. SUFFICES ASSUME IInv, Authority, NoFailed, [Next]_vars,
                        Len(writes') > Len(writes)
                 PROVE  job.ver = cmd[writes'[Len(writes')]].seen
    OBVIOUS
  <2>2. ASSUME NEW f \in Finalizers, WriteKind(f)
        PROVE  job.ver = cmd[writes'[Len(writes')]].seen
    BY <2>1, <2>2, WriteProved DEF Authority, Admitted, NoFailed
  <2>3. ASSUME NEW want, AcceptKind(want)
        PROVE  writes' = writes
    BY <2>3 DEF AcceptKind
  <2>4. writes' /= writes
    BY <2>1 DEF IInv, TypeOK
  <2>. QED
    BY <2>1, <2>2, <2>3, <2>4, HistoryStays, StepKinds
<1>4. Spec => []IInv
  BY CompletionInvariant
<1>. QED
  BY <1>1, <1>2, <1>3, <1>4, PTL DEF Spec, StatusIsTheOneAdmitted

-----------------------------------------------------------------------------
(***************************************************************************)
(* The teardown that is handed on to the next report.  Reports that ask    *)
(* for "failed" are left out: a report that comes after one of them is     *)
(* refused at its entry, and drops the teardown.  One that comes after a   *)
(* cancelled job is refused too, but nothing is ever handed on to it.      *)
(***************************************************************************)
Continued == {"processing", "completed", "pending_review", "cancelled"}

\* A stateless job has one report at a time.
OneAtATime ==
    job.lane = "stateless" =>
       \A c \in Reports : Unfinished(c) => c = job.hwm /\ ~ job.agent

\* The statuses an agent of a pinned job reports from.
Settling ==
    job.lane = "pinned" =>
       /\ job.agent => job.status \in Continued
       /\ \A c \in Reports : cmd[c].accepted \in Continued \cup {"none"}

\* No command up to report n has anything to tear down.
Untorn(n) ==
    /\ \A d \in Reports :
          d <= n /\ Unfinished(d) => ~ TearsDown(cmd[d])
    /\ \A f \in Finalizers :
          Holds(f) /\ fin[f].at = "guard" /\ fin[f].c <= n
          => ~ LateEntry(fin[f].entry)

\* A report that comes after a cancelled job: nothing before it tears down.
Cancelled ==
    job.lane = "pinned" =>
       /\ job.agent /\ job.status = "cancelled" => Untorn(MaxReports)
       /\ \A c \in Reports :
             Unfinished(c) /\ cmd[c].accepted = "cancelled" =>
                /\ job.status = "cancelled" /\ ~ TeardownHandoff(c)
                /\ Untorn(c)

\* What is handed on has someone to take it, and settled for the next report.
Deferred ==
    \A c \in Reports :
       cmd[c].out = "deferred" =>
          /\ job.lane = "pinned" /\ c < job.hwm
          /\ cmd[c].state = "done" => LateEntry(cmd[c].result)

\* The report that takes it comes late, and knows it.
HandedOn ==
    \A c \in Reports :
       TeardownHandoff(c) /\ Unfinished(c) =>
          /\ job.status /= "processing"
          /\ cmd[c].entry = "none" \/ LateEntry(cmd[c].entry)
HandedStage ==
    \A f \in Finalizers :
       Holds(f) /\ TeardownHandoff(fin[f].c) =>
          /\ fin[f].at = "guard" => LateEntry(fin[f].entry)
          /\ fin[f].at = "finish" /\ ~ fin[f].blocked
             => cmd[fin[f].c].out /= "none"

Deferral ==
    /\ OneAtATime /\ Settling /\ Cancelled
    /\ Deferred /\ HandedOn /\ HandedStage
    /\ DeferredTeardownServed

\* The reports this is about.
Served == "failed" \notin Dispositions

\* A command that decides under these reports.
LEMMA ServedWants ==
    ASSUME IInv, Served, NEW c \in Reports, cmd[c].disp /= "none"
    PROVE  /\ cmd[c].disp = cmd[c].want /\ Decides(cmd[c])
           /\ cmd[c].disp \in {"paused", "completed", "pending_review",
                              "cancelled"}
<1>1. GoodRow(cmd[c])
  BY DEF IInv, Rows
<1>2. cmd[c].want \in Dispositions \cup {"none"}
  BY <1>1 DEF GoodRow, CommandRows
<1>. QED
  BY <1>1, <1>2, CompletionConstants DEF GoodRow, Served, Statuses

\* A teardown that was settled was one of a late report, or of one that
\* completed the job (S36).
LEMMA SettledLate ==
    ASSUME IInv, Served, NEW c \in Reports, Unfinished(c),
           cmd[c].out /= "none"
    PROVE  LateEntry(cmd[c].entry) \/ cmd[c].disp = "completed"
<1>1. GoodRow(cmd[c])
  BY DEF IInv, Rows
<1>2. TearsDown(cmd[c])
  BY <1>1 DEF GoodRow, Unfinished, UnfinishedRow
<1>. QED
  BY <1>2, ServedWants DEF TearsDown

\* The status such a command ends with is one its successor comes late under.
LEMMA SettledOutcome ==
    ASSUME IInv, Served, NEW c \in Reports, Unfinished(c),
           cmd[c].out /= "none", job.lane = "pinned"
    PROVE  LateEntry(Outcome(c))
<1>1. CASE LateEntry(cmd[c].entry)
  BY <1>1 DEF Outcome
<1>2. CASE ~ LateEntry(cmd[c].entry) /\ cmd[c].disp = "completed"
  <2>1. /\ cmd[c].want = "completed"
        /\ cmd[c].entry \in {"processing", "failed"}
    BY <1>2, ServedWants DEF Decides
  <2>2. ~ Refused(c, cmd[c].entry)
    BY <2>1 DEF Refused, LateCompletion
  <2>3. ~ RepeatedEnd(cmd[c].entry)
    BY DEF RepeatedEnd
  <2>4. Outcome(c) = cmd[c].disp
    BY <1>2, <2>1, <2>2, <2>3 DEF Outcome
  <2>. QED
    BY <1>2, <2>4 DEF LateEntry
<1>. QED
  BY <1>1, <1>2, SettledLate

\* What becomes of the teardown of a command.
LEMMA OutMoves ==
    ASSUME IInv, Moves, NEW c \in Reports
    PROVE  \/ cmd'[c].out = cmd[c].out
           \/ /\ RowKind(c) /\ cmd[c].state = "finalizing"
              /\ cmd'[c].out /= "none"
              /\ cmd'[c].out = "deferred" => c < job.hwm
<1>1. cmd[c] \in CommandRows /\ job.hwm \in Nat /\ c \in Nat
  BY CompletionConstants DEF IInv, TypeOK, JobRows, Reports
<1>2. ASSUME NEW d \in Reports, RowKind(d)
      PROVE  \/ cmd'[c].out = cmd[c].out
             \/ /\ RowKind(c) /\ cmd[c].state = "finalizing"
                /\ cmd'[c].out /= "none"
                /\ cmd'[c].out = "deferred" => c < job.hwm
  <2>1. CASE c = d
    BY <1>1, <1>2, <2>1 DEF RowKind
  <2>. QED
    BY <1>2, <2>1 DEF RowKind, Others
<1>3. ASSUME NEW d \in Reports, EndKind(d)
      PROVE  cmd'[c].out = cmd[c].out
  BY <1>3, EndedRow DEF EndKind, Others
<1>4. ASSUME NEW f \in Finalizers, GuardKind(f) \/ WriteKind(f)
      PROVE  cmd'[c].out = cmd[c].out
  BY <1>1, <1>4 DEF GuardKind, WriteKind, Others, CommandRows
<1>5. CASE JobKind \/ \E f \in Finalizers : ResolveKind(f)
  BY <1>5 DEF JobKind, ResolveKind
<1>. QED
  BY <1>2, <1>3, <1>4, <1>5 DEF Moves

\* A handoff is there, or it is made to a report nobody has touched.
LEMMA HandoffMoves ==
    ASSUME IInv, Queue, Moves, NEW c \in Reports, TeardownHandoff(c)'
    PROVE  \/ TeardownHandoff(c)
           \/ /\ c - 1 \in Reports /\ RowKind(c - 1)
              /\ cmd[c - 1].state = "finalizing"
              /\ cmd'[c - 1].out = "deferred"
              /\ Fresh(cmd[c]) /\ cmd'[c] = cmd[c]
<1>1. c > 1 /\ cmd'[c - 1].out = "deferred"
  BY DEF TeardownHandoff
<1>2. c - 1 \in Reports /\ c \in Nat /\ c - 1 /= c /\ c - 1 \in 1..(c - 1)
  BY <1>1, CompletionConstants DEF Reports
<1>3. CASE cmd'[c - 1].out = cmd[c - 1].out
  BY <1>1, <1>3 DEF TeardownHandoff
<1>4. CASE RowKind(c - 1) /\ cmd[c - 1].state = "finalizing"
  <2>1. cmd'[c] = cmd[c]
    BY <1>2, <1>4 DEF RowKind, Others
  <2>2. ~ Oldest(c)
    BY <1>2, <1>4 DEF Oldest, Unfinished
  <2>3. Fresh(cmd[c])
    BY <2>2 DEF Queue, Untouched
  <2>. QED
    BY <1>1, <1>2, <1>4, <2>1, <2>3
<1>. QED
  BY <1>2, <1>3, <1>4, OutMoves

\* The report that holds a claim was handed the teardown before.
LEMMA HandoffHeld ==
    ASSUME IInv, Queue, Moves, NEW c \in Reports, TeardownHandoff(c)',
           cmd[c].state \notin {"none", "pending"}
    PROVE  TeardownHandoff(c)
  BY HandoffMoves DEF Fresh

\* A stateless job keeps having one report at a time.
LEMMA KeepOneAtATime ==
    ASSUME IInv, Authority, Deferral, Moves
    PROVE  OneAtATime'
<1>1. SUFFICES ASSUME job'.lane = "stateless",
                      NEW c \in Reports, Unfinished(c)'
               PROVE  c = job'.hwm /\ ~ job'.agent
  BY DEF OneAtATime
<1>2. Unfinished(c) /\ job.lane = "stateless" /\ job'.hwm = job.hwm
  BY <1>1, Followed
<1>3. c = job.hwm /\ ~ job.agent /\ Excluded
  BY <1>2 DEF Deferral, OneAtATime, Excluded
<1>. QED
  BY <1>2, <1>3, AgentMoves

\* An agent stays under a status its report is served under.
LEMMA KeepSettling ==
    ASSUME IInv, Authority, Served, Deferral, Moves
    PROVE  Settling'
<1>1. SUFFICES ASSUME job'.lane = "pinned" PROVE Settling'
  BY DEF Settling
<1>2. job.lane = "pinned"
  BY <1>1 DEF Moves, JobKind, RowKind, EndKind, ResolveKind, GuardKind,
     WriteKind, JobStep
<1>3. ASSUME NEW c \in Reports
      PROVE  cmd'[c].accepted \in Continued \cup {"none"}
  BY <1>2, Followed DEF Deferral, Settling
<1>4. ASSUME job'.agent
      PROVE  job'.status \in Continued
  <2>1. ASSUME NEW f \in Finalizers, WriteKind(f),
               cmd[fin[f].c].want /= "paused"
        PROVE  cmd[fin[f].c].want \in Continued
    <3>1. /\ cmd[fin[f].c].want \in Dispositions
          /\ cmd[fin[f].c].want \in Statuses \ {"processing"}
      BY <2>1, WriterHolds
    <3>. QED
      BY <2>1, <3>1 DEF Served, Statuses, Continued
  <2>2. job.agent => job.status \in Continued
    BY <1>2 DEF Deferral, Settling
  <2>3. job.lane /= "stateless" /\ "processing" \in Continued
    BY <1>2 DEF Continued
  <2>. QED
    BY <1>4, <2>1, <2>2, <2>3, AgentMoves
<1>. QED
  BY <1>3, <1>4 DEF Settling

\* A cancelled job stays cancelled while a report is unfinished.
LEMMA CancelStays ==
    ASSUME IInv, Moves, job.status = "cancelled", NEW c \in Reports,
           Unfinished(c)
    PROVE  /\ job'.status = "cancelled"
           /\ \A f \in Finalizers : ~ WriteKind(f)
<1>1. Excluded
  BY DEF Excluded
<1>2. ASSUME NEW f \in Finalizers
      PROVE  ~ WriteKind(f)
  BY WriterHolds DEF WriteKind, Decides
<1>. QED
  BY <1>1, <1>2 DEF Moves, JobKind, RowKind, EndKind, ResolveKind, GuardKind,
     JobStep

\* In it no command gets a right to a teardown.
LEMMA UntornStays ==
    ASSUME IInv, Moves, job.status = "cancelled", NEW n \in Nat, Untorn(n)
    PROVE  Untorn(n)'
<1>1. ASSUME NEW d \in Reports, d <= n, Unfinished(d)'
      PROVE  ~ TearsDown(cmd'[d])
  <2>1. Unfinished(d) /\ ~ TearsDown(cmd[d])
    BY <1>1, Followed DEF Untorn
  <2>2. cmd'[d].disp = cmd[d].disp
    BY <1>1, <2>1, JournalMoves, CancelStays
  <2>3. ASSUME NEW f \in Finalizers, GuardKind(f), fin[f].c = d
        PROVE  ~ LateEntry(fin[f].entry)
    BY <1>1, <2>3 DEF GuardKind, Untorn
  <2>. QED
    BY <1>1, <2>1, <2>2, <2>3, JournalMoves DEF TearsDown
<1>2. ASSUME NEW g \in Finalizers, Holds(g)', fin'[g].at = "guard",
             fin'[g].c <= n
      PROVE  ~ LateEntry(fin'[g].entry)
  <2>1. CASE Holds(g) /\ fin'[g] = fin[g]
    BY <1>2, <2>1 DEF Untorn
  <2>2. CASE ResolveKind(g)
    <3>1. PICK c \in Reports : c = fin[g].c
      BY <2>2, Holder DEF ResolveKind
    <3>2. /\ EntryAuthority(c) /= "none" /\ c <= n
          /\ fin'[g].entry = EntryAuthority(c) /\ Unfinished(c)
      BY <1>2, <2>2, <3>1 DEF ResolveKind, Holds, Unfinished
    <3>3. ~ LateEntry(cmd[c].entry)
      BY <3>1, <3>2 DEF Untorn, TearsDown
    <3>. QED
      BY <3>2, <3>3, Resolved DEF LateEntry
  <2>. QED
    BY <1>2, <2>1, <2>2, HolderStays
<1>. QED
  BY <1>1, <1>2 DEF Untorn

\* A report that cancels the job leaves nothing to tear down: what was accepted
\* after it is untouched.
LEMMA CancelledUntorn ==
    ASSUME IInv, Queue, Moves, NEW f \in Finalizers, WriteKind(f),
           job'.status = "cancelled"
    PROVE  Untorn(MaxReports)'
<1>. DEFINE c == fin[f].c
<1>1. /\ c \in Reports /\ cmd[c].state = "finalizing" /\ Unfinished(c)
      /\ Decides(cmd[c]) /\ cmd[c] \in CommandRows /\ Reports \subseteq Nat
  BY WriterHolds, CompletionConstants
  DEF Unfinished, IInv, TypeOK, Reports
<1>2. /\ Others(c) /\ cmd'[c] = [cmd[c] EXCEPT !.disp = cmd[c].want]
      /\ cmd[c].want = "cancelled" /\ job.status \in {"processing", "failed"}
  BY <1>1 DEF WriteKind, Decides
<1>3. /\ cmd'[c].disp = "cancelled" /\ cmd'[c].entry = cmd[c].entry
  BY <1>1, <1>2 DEF CommandRows
<1>4. ASSUME NEW d \in Reports, Unfinished(d), d /= c
      PROVE  Fresh(cmd[d])
  <2>1. CASE d < c
    <3>1. Fresh(cmd[c])
      BY <1>1, <1>4, <2>1, CompletionConstants
      DEF Queue, Untouched, Oldest, Reports
    <3>. QED
      BY <1>1, <3>1 DEF Fresh
  <2>2. CASE d > c
    BY <1>1, <1>4, <2>2, CompletionConstants
    DEF Queue, Untouched, Oldest, Reports
  <2>. QED
    BY <1>1, <1>4, <2>1, <2>2
<1>5. ASSUME NEW d \in Reports, Unfinished(d)'
      PROVE  ~ TearsDown(cmd'[d])
  <2>1. CASE d = c
    BY <1>1, <1>3, <2>1 DEF TearsDown, Decides, LateEntry
  <2>2. CASE d /= c
    BY <1>2, <1>4, <1>5, <2>2
    DEF Others, Unfinished, Fresh, TearsDown, LateEntry
  <2>. QED
    BY <2>1, <2>2
<1>6. ASSUME NEW g \in Finalizers, Holds(g)', fin'[g].at = "guard"
      PROVE  FALSE
  <2>1. ~ ResolveKind(g)
    BY <1>2 DEF ResolveKind
  <2>2. Holds(g) /\ fin'[g] = fin[g]
    BY <1>6, <2>1, HolderStays
  <2>3. PICK d \in Reports : d = fin[g].c
    BY <2>2, Holder
  <2>4. cmd[d].state = "finalizing" /\ cmd[d].owner = g /\ Unfinished(d)
    BY <2>2, <2>3 DEF Holds, Unfinished
  <2>5. d = c
    BY <1>4, <2>4 DEF Fresh
  <2>. QED
    BY <1>6, <2>2, <2>4, <2>5 DEF WriteKind, Holds
<1>. QED
  BY <1>5, <1>6 DEF Untorn

\* Reports after a cancelled job stay without a teardown.
LEMMA KeepCancelled ==
    ASSUME IInv, IInv', Queue, Authority, Deferral, Moves
    PROVE  Cancelled'
<1>1. SUFFICES ASSUME job'.lane = "pinned" PROVE Cancelled'
  BY DEF Cancelled
<1>2. job.lane = "pinned" /\ MaxReports \in Nat /\ Reports \subseteq Nat
  <2>1. job.lane = "pinned"
    BY <1>1 DEF Moves, JobKind, RowKind, EndKind, ResolveKind, GuardKind,
       WriteKind, JobStep
  <2>. QED
    BY <2>1, CompletionConstants DEF Reports
<1>3. ASSUME job'.agent, job'.status = "cancelled"
      PROVE  Untorn(MaxReports)'
  <2>1. CASE job.agent /\ job.status = "cancelled"
    BY <1>2, <2>1, UntornStays DEF Deferral, Cancelled
  <2>2. CASE \E f \in Finalizers : WriteKind(f)
    BY <1>3, <2>2, CancelledUntorn
  <2>. QED
    BY <1>2, <1>3, <2>1, <2>2, AgentMoves
<1>4. ASSUME NEW c \in Reports, Unfinished(c)',
             cmd'[c].accepted = "cancelled"
      PROVE  /\ job'.status = "cancelled" /\ ~ TeardownHandoff(c)'
             /\ Untorn(c)'
  <2>1. Unfinished(c) /\ cmd[c].accepted = "cancelled"
    BY <1>4, Followed
  <2>2. job.status = "cancelled" /\ ~ TeardownHandoff(c) /\ Untorn(c)
    BY <1>2, <2>1 DEF Deferral, Cancelled
  <2>3. job'.status = "cancelled" /\ Untorn(c)'
    BY <1>2, <2>1, <2>2, CancelStays, UntornStays
  <2>4. ASSUME TeardownHandoff(c)'
        PROVE  FALSE
    <3>1. /\ c - 1 \in Reports /\ RowKind(c - 1)
          /\ cmd[c - 1].state = "finalizing"
          /\ cmd'[c - 1].out = "deferred"
      BY <2>2, <2>4, HandoffMoves
    <3>2. UnfinishedRow(cmd'[c - 1])
      BY <3>1 DEF RowKind, UnfinishedRow
    <3>3. TearsDown(cmd'[c - 1])
      BY <3>1, <3>2 DEF IInv, Rows, GoodRow
    <3>. QED
      BY <1>2, <2>3, <3>1, <3>2, <3>3 DEF Untorn, Unfinished, UnfinishedRow
  <2>. QED
    BY <2>3, <2>4
<1>. QED
  BY <1>3, <1>4 DEF Cancelled

\* What is handed on keeps its taker.
LEMMA KeepDeferred ==
    ASSUME IInv, IInv', Served, Deferral, Moves
    PROVE  Deferred'
<1>1. SUFFICES ASSUME NEW c \in Reports, cmd'[c].out = "deferred"
               PROVE  /\ job'.lane = "pinned" /\ c < job'.hwm
                      /\ cmd'[c].state = "done" => LateEntry(cmd'[c].result)
  BY DEF Deferred
<1>2. job'.lane = job.lane /\ job'.hwm = job.hwm
  BY Followed
<1>3. CASE cmd[c].out = "deferred"
  <2>1. /\ job.lane = "pinned" /\ c < job.hwm
        /\ cmd[c].state = "done" => LateEntry(cmd[c].result)
    BY <1>3 DEF Deferral, Deferred
  <2>2. CASE /\ cmd'[c].result = cmd[c].result
             /\ cmd'[c].state = "done" => cmd[c].state = "done"
    BY <1>2, <2>1, <2>2
  <2>3. CASE cmd'[c].result = Outcome(c) /\ cmd[c].state = "finalizing"
    <3>1. LateEntry(Outcome(c))
      BY <1>3, <2>1, <2>3, SettledOutcome DEF Unfinished
    <3>. QED
      BY <1>2, <2>1, <2>3, <3>1
  <2>4. CASE cmd'[c].state /= "done"
    BY <1>2, <2>1, <2>4
  <2>. QED
    BY <2>2, <2>3, <2>4, ResultMoves
<1>4. CASE /\ RowKind(c) /\ cmd[c].state = "finalizing" /\ c < job.hwm
  <2>1. job.lane = "pinned"
    <3>1. job.lane /= "stateless"
      BY <1>4, CompletionConstants
      DEF Deferral, OneAtATime, Unfinished, Reports, IInv, TypeOK, JobRows
    <3>. QED
      BY <3>1, CompletionConstants DEF IInv, TypeOK, JobRows
  <2>2. cmd'[c].state /= "done"
    BY <1>4 DEF RowKind, UnfinishedRow
  <2>. QED
    BY <1>2, <1>4, <2>1, <2>2
<1>. QED
  BY <1>1, <1>3, <1>4, OutMoves

\* The report that takes a teardown stays late.
LEMMA KeepHandedOn ==
    ASSUME IInv, IInv', Queue, Authority, Served, Deferral, Moves
    PROVE  HandedOn'
<1>1. SUFFICES ASSUME NEW c \in Reports, TeardownHandoff(c)', Unfinished(c)'
               PROVE  /\ job'.status /= "processing"
                      /\ cmd'[c].entry = "none" \/ LateEntry(cmd'[c].entry)
  BY DEF HandedOn
<1>2. Unfinished(c)
  BY <1>1, Followed
<1>3. CASE TeardownHandoff(c)
  <2>1. /\ job.status /= "processing"
        /\ cmd[c].entry = "none" \/ LateEntry(cmd[c].entry)
    BY <1>2, <1>3 DEF Deferral, HandedOn
  <2>2. job'.status /= "processing"
    BY <1>1, <2>1, Processing
  <2>3. ASSUME NEW f \in Finalizers, GuardKind(f), fin[f].c = c
        PROVE  LateEntry(fin[f].entry)
    BY <1>3, <2>3 DEF Deferral, HandedStage, GuardKind
  <2>. QED
    BY <1>1, <2>1, <2>2, <2>3, JournalMoves
<1>4. CASE /\ c - 1 \in Reports /\ RowKind(c - 1)
           /\ cmd[c - 1].state = "finalizing"
           /\ cmd'[c - 1].out = "deferred"
           /\ Fresh(cmd[c]) /\ cmd'[c] = cmd[c]
  <2>1. cmd'[c].entry = "none"
    BY <1>4 DEF Fresh
  <2>2. /\ Journal(cmd[c - 1], cmd'[c - 1]) /\ job' = job
        /\ UnfinishedRow(cmd'[c - 1])
    BY <1>4 DEF RowKind, UnfinishedRow
  <2>3. TearsDown(cmd'[c - 1])
    BY <1>4, <2>2 DEF IInv, Rows, GoodRow
  <2>4. cmd[c - 1].disp /= "none" \/ LateEntry(cmd[c - 1].entry)
    BY <2>2, <2>3 DEF Journal, TearsDown
  <2>5. job.status /= "processing"
    BY <1>4, <2>4 DEF Authority, Past, Unfinished
  <2>. QED
    BY <2>1, <2>2, <2>5
<1>. QED
  BY <1>1, <1>3, <1>4, HandoffMoves

\* So does whoever finalizes it.
LEMMA KeepHandedStage ==
    ASSUME IInv, IInv', Queue, Authority, Served, Deferral, Moves, HandedOn'
    PROVE  HandedStage'
<1>1. SUFFICES ASSUME NEW g \in Finalizers, NEW c \in Reports,
                      c = fin'[g].c, Holds(g)', TeardownHandoff(c)'
               PROVE  /\ fin'[g].at = "guard" => LateEntry(fin'[g].entry)
                      /\ fin'[g].at = "finish" /\ ~ fin'[g].blocked
                         => cmd'[c].out /= "none"
  <2>1. \A g \in Finalizers : Holds(g)' => fin'[g].c \in Reports
    BY DEF IInv, StagesFit, Stage, Holds
  <2>. QED
    BY <1>1, <2>1 DEF HandedStage, TeardownHandoff
<1>2. Unfinished(c)'
  BY <1>1 DEF Holds, Unfinished
<1>3. ASSUME Holds(g), fin[g].c = c
      PROVE  TeardownHandoff(c) /\ Unfinished(c)
  BY <1>1, <1>3, HandoffHeld DEF Holds, Unfinished
<1>4. ASSUME fin'[g].at = "guard"
      PROVE  LateEntry(fin'[g].entry)
  <2>1. CASE Holds(g) /\ fin'[g] = fin[g]
    BY <1>1, <1>3, <1>4, <2>1 DEF Deferral, HandedStage
  <2>2. CASE ResolveKind(g)
    <3>1. /\ Holds(g) /\ fin[g].c = c /\ EntryAuthority(c) /= "none"
          /\ fin'[g].entry = EntryAuthority(c)
      BY <1>1, <2>2 DEF ResolveKind
    <3>2. TeardownHandoff(c) /\ Unfinished(c)
      BY <1>3, <3>1
    <3>3. /\ job.status /= "processing"
          /\ cmd[c].entry = "none" \/ LateEntry(cmd[c].entry)
      BY <3>2 DEF Deferral, HandedOn
    <3>4. CASE EntryAuthority(c) = cmd[c].entry
      BY <3>1, <3>3, <3>4
    <3>5. c - 1 \in Reports /\ cmd[c - 1].out = "deferred"
      BY <3>2, CompletionConstants DEF TeardownHandoff, Reports
    <3>6. /\ job.lane = "pinned"
          /\ cmd[c - 1].state = "done" => LateEntry(cmd[c - 1].result)
      BY <3>5 DEF Deferral, Deferred
    <3>7. CASE EntryAuthority(c) = job.status /\ job.status = cmd[c].accepted
      <4>1. cmd[c].accepted /= "cancelled"
        BY <3>2, <3>6 DEF Deferral, Cancelled
      <4>. QED
        BY <3>1, <3>3, <3>6, <3>7, <4>1
        DEF Deferral, Settling, Continued, LateEntry
    <3>8. CASE /\ EntryAuthority(c) = job.status
               /\ cmd[c - 1].state = "done"
               /\ cmd[c - 1].result = job.status
      BY <3>1, <3>6, <3>8
    <3>. QED
      BY <3>1, <3>4, <3>7, <3>8, Resolved
  <2>. QED
    BY <1>1, <1>4, <2>1, <2>2, HolderStays
<1>5. ASSUME fin'[g].at = "finish", ~ fin'[g].blocked
      PROVE  cmd'[c].out /= "none"
  <2>1. CASE Holds(g) /\ fin'[g] = fin[g]
    <3>1. cmd[c].out /= "none"
      BY <1>1, <1>3, <1>5, <2>1 DEF Deferral, HandedStage
    <3>. QED
      BY <3>1, Followed
  <2>2. CASE Decides(cmd'[c])
    BY <1>1, <1>2, <2>2 DEF HandedOn, Decides, LateEntry
  <2>3. CASE GuardKind(g) /\ AfterGuard(fin[g].c, fin[g].entry) = "finish"
    <3>1. Holds(g) /\ fin[g].at = "guard" /\ fin[g].c = c
      BY <1>1, <2>3 DEF GuardKind
    <3>2. TeardownHandoff(c)
      BY <1>3, <3>1
    <3>3. LateEntry(fin[g].entry)
      BY <3>1, <3>2 DEF Deferral, HandedStage
    <3>. QED
      BY <2>3, <3>1, <3>2, <3>3
      DEF AfterGuard, RepeatedEnd, Refused, LateEntry
  <2>. QED
    BY <1>1, <1>5, <2>1, <2>2, <2>3, HolderStays
<1>. QED
  BY <1>4, <1>5

\* A teardown is served before the report it was handed to ends.
LEMMA KeepServed ==
    ASSUME IInv, Queue, Deferral, Moves
    PROVE  DeferredTeardownServed'
<1>1. SUFFICES ASSUME NEW c \in Reports, cmd'[c].state = "done",
                      TeardownHandoff(c)'
               PROVE  cmd'[c].out /= "none"
  BY DEF DeferredTeardownServed
<1>2. cmd[c].state \notin {"none", "pending"}
  <2>1. cmd[c].state /= "none"
    BY <1>1, Followed
  <2>2. cmd[c].state /= "pending" \/ cmd[c].state = "finalizing"
    BY <1>1, ResultMoves
  <2>. QED
    BY <2>1, <2>2
<1>3. TeardownHandoff(c)
  BY <1>1, <1>2, HandoffHeld
<1>4. CASE cmd[c].state = "done"
  BY <1>3, <1>4, Followed DEF Deferral, DeferredTeardownServed
<1>5. ASSUME NEW f \in Finalizers, Holds(f), fin[f].c = c,
             fin[f].at = "finish", ~ fin[f].blocked
      PROVE  cmd'[c].out /= "none"
  BY <1>3, <1>5, Followed DEF Deferral, HandedStage
<1>. QED
  BY <1>1, <1>4, <1>5, ResultMoves

\* Every step but an acceptance keeps all of it.
LEMMA MovesKeepDeferral ==
    ASSUME IInv, IInv', Queue, Authority, Served, Deferral, Moves
    PROVE  Deferral'
  BY KeepOneAtATime, KeepSettling, KeepCancelled, KeepDeferred, KeepHandedOn,
     KeepHandedStage, KeepServed DEF Deferral

\* A report is admitted of an agent, which no unfinished report of a stateless
\* job has left one of, and nothing was handed on to it yet.
LEMMA AcceptKeepsDeferral ==
    ASSUME IInv, Deferral, NEW want \in Dispositions, AcceptKind(want)
    PROVE  Deferral'
<1>. DEFINE c == job.hwm + 1
<1>1. /\ c \in Reports /\ Others(c) /\ cmd'[c] = Accepted(want)
      /\ fin' = fin /\ job.agent /\ job'.status = job.status
      /\ job'.lane = job.lane /\ job'.hwm = c
      /\ job'.agent = (job.lane = "pinned")
      /\ \A g \in Finalizers : Holds(g)' => Holds(g) /\ fin[g].c /= c
  BY AcceptShape
<1>2. /\ cmd'[c].accepted = job.status /\ cmd'[c].state = "pending"
      /\ cmd'[c].entry = "none" /\ cmd'[c].out = "none"
  BY <1>1, AcceptedRow
<1>3. job.hwm \in Nat /\ Reports \subseteq Nat /\ job.lane \in Lanes
  BY CompletionConstants DEF IInv, TypeOK, JobRows, Reports
<1>. HIDE DEF c
<1>4. OneAtATime'
  <2>1. SUFFICES ASSUME job.lane = "stateless", NEW d \in Reports,
                        Unfinished(d)'
                 PROVE  d = c /\ ~ job'.agent
    BY <1>1 DEF OneAtATime
  <2>2. d = c
    BY <1>1, <2>1 DEF Deferral, OneAtATime, Others, Unfinished
  <2>. QED
    BY <1>1, <2>1, <2>2
<1>5. Settling'
  BY <1>1, <1>2 DEF Deferral, Settling, Others
<1>b. ASSUME NEW n \in Nat, Untorn(n)
      PROVE  Untorn(n)'
  <2>1. ~ TearsDown(cmd'[c])
    BY <1>1, AcceptedRow DEF TearsDown, LateEntry
  <2>2. ASSUME NEW d \in Reports, d <= n, Unfinished(d)'
        PROVE  ~ TearsDown(cmd'[d])
    BY <1>1, <1>b, <2>1, <2>2 DEF Untorn, Others, Unfinished
  <2>. QED
    BY <1>1, <1>b, <2>2 DEF Untorn
<1>6. Deferred'
  <2>1. SUFFICES ASSUME NEW d \in Reports, cmd'[d].out = "deferred"
                 PROVE  /\ job'.lane = "pinned" /\ d < job'.hwm
                        /\ cmd'[d].state = "done" => LateEntry(cmd'[d].result)
    BY DEF Deferred
  <2>2. d /= c /\ cmd'[d] = cmd[d]
    BY <1>1, <1>2, <2>1 DEF Others
  <2>. QED
    BY <1>1, <1>3, <2>1, <2>2 DEF Deferral, Deferred, c
<1>7. ASSUME NEW d \in Reports, TeardownHandoff(d)'
      PROVE  TeardownHandoff(d) /\ d /= c /\ cmd'[d] = cmd[d]
  <2>1. d - 1 \in Reports /\ d > 1 /\ cmd'[d - 1].out = "deferred"
    BY <1>7, CompletionConstants DEF TeardownHandoff, Reports
  <2>2. d - 1 /= c /\ cmd[d - 1].out = "deferred"
    BY <1>1, <1>2, <2>1 DEF Others
  <2>3. d - 1 < job.hwm
    BY <2>1, <2>2 DEF Deferral, Deferred
  <2>4. d /= c
    BY <1>3, <2>3 DEF c
  <2>. QED
    BY <1>1, <2>1, <2>2, <2>4 DEF TeardownHandoff, Others
<1>c. Cancelled'
  <2>1. SUFFICES ASSUME job.lane = "pinned" PROVE Cancelled'
    BY <1>1 DEF Cancelled
  <2>2. ASSUME job.status = "cancelled"
        PROVE  Untorn(MaxReports)'
    BY <1>1, <1>b, <2>1, <2>2, CompletionConstants DEF Deferral, Cancelled
  <2>3. ASSUME NEW d \in Reports, Unfinished(d)',
               cmd'[d].accepted = "cancelled"
        PROVE  /\ job'.status = "cancelled" /\ ~ TeardownHandoff(d)'
               /\ Untorn(d)'
    <3>1. CASE d = c
      <4>1. job.status = "cancelled"
        BY <1>2, <2>3, <3>1
      <4>2. ~ TeardownHandoff(d)'
        BY <1>7, <3>1
      <4>3. Untorn(d)'
        <5>1. \A g \in Finalizers : Holds(g)' => fin'[g].c \in Reports
          BY <1>1, Holder
        <5>2. \A n \in Reports : n <= MaxReports
          BY CompletionConstants DEF Reports
        <5>3. Untorn(MaxReports)'
          BY <2>2, <4>1
        <5>. QED
          BY <5>1, <5>2, <5>3 DEF Untorn
      <4>. QED
        BY <1>1, <4>1, <4>2, <4>3
    <3>2. CASE d /= c
      <4>1. cmd'[d] = cmd[d] /\ Unfinished(d)
        BY <1>1, <2>3, <3>2 DEF Others, Unfinished
      <4>2. job.status = "cancelled" /\ ~ TeardownHandoff(d) /\ Untorn(d)
        BY <2>1, <2>3, <4>1 DEF Deferral, Cancelled
      <4>3. ~ TeardownHandoff(d)'
        BY <1>7, <4>2
      <4>. QED
        BY <1>1, <1>3, <1>b, <4>2, <4>3
    <3>. QED
      BY <3>1, <3>2
  <2>. QED
    BY <1>1, <2>2, <2>3 DEF Cancelled
<1>8. HandedOn'
  BY <1>1, <1>7 DEF Deferral, HandedOn, Unfinished
<1>9. HandedStage'
  <2>1. SUFFICES ASSUME NEW g \in Finalizers, NEW d \in Reports,
                        d = fin[g].c, Holds(g)', TeardownHandoff(d)'
                 PROVE  /\ fin[g].at = "guard" => LateEntry(fin[g].entry)
                        /\ fin[g].at = "finish" /\ ~ fin[g].blocked
                           => cmd'[d].out /= "none"
    <3>1. \A g \in Finalizers : Holds(g)' => fin[g].c \in Reports
      BY <1>1, Holder
    <3>. QED
      BY <1>1, <2>1, <3>1 DEF HandedStage, TeardownHandoff
  <2>. QED
    BY <1>1, <1>7, <2>1 DEF Deferral, HandedStage
<1>a. DeferredTeardownServed'
  BY <1>7 DEF Deferral, DeferredTeardownServed
<1>. QED
  BY <1>4, <1>5, <1>6, <1>c, <1>8, <1>9, <1>a DEF Deferral

\* No report, no teardown.
LEMMA DeferralInit ==
    ASSUME Init
    PROVE  Deferral
<1>1. \A c \in Reports : /\ cmd[c].state = "none" /\ cmd[c].out = "none"
                         /\ cmd[c].accepted = "none"
  BY DEF Init, NoCommand
<1>2. \A f \in Finalizers : fin[f].at = "idle"
  BY DEF Init, Free
<1>3. job.status = "processing"
  BY DEF Init
<1>. QED
  BY <1>1, <1>2, <1>3
  DEF Deferral, OneAtATime, Settling, Cancelled, Deferred, HandedOn, HandedStage,
      DeferredTeardownServed, Unfinished, Holds, Continued

\* A teardown handed on to a later report is carried out by it or handed on
\* again (S36: "the no-op must nevertheless run only the teardown tail").
\* The reports that ask for "failed" are left out: the later report is refused
\* at its entry and drops the teardown.
THEOREM DeferredIsServed ==
    ASSUME "failed" \notin Dispositions
    PROVE  Spec => []DeferredTeardownServed
<1>1. Init => Queue /\ Authority /\ Deferral
  BY QueueInit, AuthorityInit, DeferralInit
<1>2. IInv /\ IInv' /\ Queue /\ Authority /\ Deferral /\ [Next]_vars
      => Queue' /\ Authority' /\ Deferral'
  <2>1. SUFFICES ASSUME IInv, IInv', Queue, Authority, Deferral, [Next]_vars
                 PROVE  Deferral'
    BY QueueKept, AuthorityKept
  <2>2. Served
    BY DEF Served
  <2>. QED
    BY <2>1, <2>2, StepKinds, MovesKeepDeferral, AcceptKeepsDeferral
<1>3. Deferral => DeferredTeardownServed
  BY DEF Deferral
<1>4. Spec => []IInv
  BY CompletionInvariant
<1>. QED
  BY <1>1, <1>2, <1>3, <1>4, PTL DEF Spec
=============================================================================
