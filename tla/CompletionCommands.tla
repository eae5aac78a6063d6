------------------------- MODULE CompletionCommands -------------------------
(***************************************************************************)
(* The durable completion commands of one job                              *)
(* (src/orchestrator/services/job_completion_commands.py, the finalizer in *)
(* completion_finalizer.py, the workflow in legacy_job_completion.py, and  *)
(* the controls that share the jobs row with them).                        *)
(*                                                                         *)
(* An accepted report is a command, named by its report_seq.  A finalizer  *)
(* claims the oldest unfinished one under a lease, resolves the status it  *)
(* may act on, and runs journaled effects: the entry guard (S1), product   *)
(* delivery (S26/S33), the job's disposition (S17) and the teardown of its *)
(* workspace (S36).  A claim may lapse between any two transactions; the   *)
(* next claim resumes from the journal.  Meanwhile agents report again and *)
(* people pause, cancel, resume and decide.                                *)
(***************************************************************************)
EXTENDS Naturals, Sequences, FiniteSets

CONSTANTS Finalizers, NoOne,
          Lanes,         \* execution lanes the job may be in
          MaxReports,    \* reports the job's agents make
          MaxAttempts,   \* max_attempts of a command
          MaxTries,      \* max_attempts of an effect
          MaxControls,   \* bound: status writes by other actors
          MaxUnparks,    \* bound: parked commands rearmed by an operator
          Dispositions   \* new statuses a report may ask for

Statuses == {"processing", "paused", "pending_review", "completed", "failed",
             "cancelled"}
Terminal == {"completed", "failed", "cancelled"}
Reports == 1..MaxReports

ASSUME CompletionConstants ==
    /\ Lanes \subseteq {"pinned", "stateless"}
    /\ MaxReports \in Nat /\ MaxAttempts \in Nat \ {0}
    /\ MaxTries \in Nat \ {0}
    /\ MaxControls \in Nat /\ MaxUnparks \in Nat
    /\ NoOne \notin Finalizers
    /\ Dispositions \subseteq (Statuses \ {"processing"}) \cup {"none"}

VARIABLES
    job,       \* the jobs row
    cmd,       \* job_completion_commands with their completion_effects
    fin,       \* what each finalizer process is doing
    reorder,   \* the status-reorder setting of the deployment
    writes,    \* report_seqs in the order they wrote the status (history)
    unparks

vars == <<job, cmd, fin, reorder, writes, unparks>>

\* Owners of the jobs row's control marker (_completion_control_claim).
Nobody == 0
Human == MaxReports + 1

Effects == {"ship", "tear"}
NoEffect == [state |-> "none", tries |-> 0, open |-> FALSE]
NoCommand ==
    [state |-> "none", accepted |-> "none", seen |-> 0, decision |-> 0,
     want |-> "none", reordered |-> FALSE, owner |-> NoOne, live |-> FALSE,
     late |-> FALSE, attempts |-> 0, entry |-> "none", disp |-> "none",
     fx |-> [e \in Effects |-> NoEffect], active |-> FALSE, out |-> "none",
     result |-> "none"]

CommandStates == {"none", "pending", "finalizing", "parked", "done",
                  "superseded", "force_resolved"}
Workflow == {"guard", "control", "ship", "assert", "shipping", "status",
             "authority", "tear", "authorize", "tearing"}
Stages == Workflow \cup {"idle", "resolve", "finish", "supersede", "retry"}
Free == [at |-> "idle", c |-> 0, entry |-> "none", blocked |-> FALSE]

JobRows ==
    [lane : Lanes, status : Statuses, agent : BOOLEAN, hwm : 0..MaxReports,
     ctl : 0..(MaxReports + 1), decision : 0..1, calls : 0..1,
     ver : 0..MaxControls]
EffectRows ==
    [state : {"none", "pending", "done"}, tries : 0..MaxTries, open : BOOLEAN]
CommandRows ==
    [state : CommandStates, accepted : Statuses \cup {"none"},
     seen : 0..MaxControls, decision : 0..1,
     want : Dispositions \cup {"none"}, reordered : BOOLEAN,
     owner : Finalizers \cup {NoOne}, live : BOOLEAN, late : BOOLEAN,
     attempts : 0..MaxAttempts, entry : Statuses \cup {"none"},
     disp : Statuses \cup {"none"}, fx : [Effects -> EffectRows],
     active : BOOLEAN, out : {"none", "completed", "deferred"},
     result : Statuses \cup {"none"}]
Processes ==
    [at : Stages, c : 0..MaxReports, entry : Statuses \cup {"none"},
     blocked : BOOLEAN]

TypeOK ==
    /\ job \in JobRows
    /\ cmd \in [Reports -> CommandRows]
    /\ fin \in [Finalizers -> Processes]
    /\ reorder \in BOOLEAN
    /\ writes \in Seq(Reports)
    /\ unparks \in 0..MaxUnparks

Init ==
    /\ job \in [lane : Lanes, status : {"processing"},
                agent : {TRUE}, hwm : {0}, ctl : {Nobody}, decision : {0},
                calls : {0}, ver : {0}]
    /\ cmd = [c \in Reports |-> NoCommand]
    /\ fin = [f \in Finalizers |-> Free]
    /\ reorder \in BOOLEAN
    /\ writes = <<>>
    /\ unparks = 0

-----------------------------------------------------------------------------
\* Mutant: a parked command no longer stands in the way.
UnfinishedUnlessParked(c) == cmd[c].state \in {"pending", "finalizing"}

Unfinished(c) == cmd[c].state \in {"pending", "finalizing", "parked"}
Oldest(c) == \A d \in 1..(c - 1) : ~Unfinished(d)

\* The job has a row in job_completion_sweep_exclusions.
Excluded == \E c \in Reports : Unfinished(c)

\* S36 was authorized and has not settled, whatever became of its clocks.
ActiveTeardown(c) == cmd[c].fx["tear"].state = "pending" /\ cmd[c].active

Settled(c, e) == cmd[c].fx[e].state = "done"
Spent(c, e) == cmd[c].fx[e].state = "pending" /\ cmd[c].fx[e].tries >= MaxTries
InFlight(c) == \E e \in Effects : cmd[c].fx[e].open

\* The exact live term every write of a finalizer is fenced with.
Holds(f) ==
    /\ fin[f].at /= "idle"
    /\ cmd[fin[f].c].state = "finalizing"
    /\ cmd[fin[f].c].owner = f
    /\ cmd[fin[f].c].live

At(f, stage) == fin[f].at = stage /\ Holds(f)

Go(f, stage) == fin' = [fin EXCEPT ![f].at = stage]
Block(f, stage) == fin' = [fin EXCEPT ![f].at = stage, ![f].blocked = TRUE]
Leave(f) == fin' = [fin EXCEPT ![f] = Free]

\* A command that gives up its claim to wait in a state.
Released(k, state) ==
    [k EXCEPT !.state = state, !.owner = NoOne, !.live = FALSE]

\* A command given back with its attempt.
Returned(k) ==
    [k EXCEPT !.state = "pending", !.owner = NoOne, !.live = FALSE,
              !.attempts = @ - 1]

\* A command that ended.  Its new_status and its teardown are all that later
\* steps read of it; the rest is forgotten.
Ended(k, state, result) ==
    [NoCommand EXCEPT !.state = state, !.result = result, !.out = k.out]

\* A command whose clocks stopped: a window ends before its lease does.
Lapsed(k) ==
    [k EXCEPT !.live = FALSE,
              !.fx = [e \in Effects |-> [k.fx[e] EXCEPT !.open = FALSE]]]

\* Mutant: only the marker of a person counts.
ControlledByHuman == job.ctl = Human

Controlled == job.ctl /= Nobody

-----------------------------------------------------------------------------
(***************************************************************************)
(* The agent: it records a decision, and it reports.                       *)
(***************************************************************************)

\* The job_complete tool leaves its decision in the job's context.
RecordDecision ==
    /\ job.agent /\ job.status = "processing" /\ job.calls = 0
    /\ job' = [job EXCEPT !.decision = 1, !.calls = 1]
    /\ UNCHANGED <<cmd, fin, reorder, writes, unparks>>

\* Mutant: admission does not look for an authorized teardown.
MayAcceptAnyway == ~Controlled /\ job.agent

\* No control is active, the reporter owns the lane's fence (the assigned
\* agent, or the leased unit, which a stateless accept closes), and no
\* authorized teardown is outstanding.
MayAccept ==
    /\ ~Controlled
    /\ job.agent
    /\ \A c \in Reports : ~ActiveTeardown(c)

Accepted(want) ==
    [NoCommand EXCEPT !.state = "pending", !.accepted = job.status,
                      !.seen = job.ver, !.decision = job.decision,
                      !.want = want, !.reordered = reorder]

Accept(want) ==
    /\ job.hwm < MaxReports
    /\ MayAccept
    /\ want = "none" => job.lane = "pinned"
    /\ LET c == job.hwm + 1 IN
       /\ cmd' = [cmd EXCEPT ![c] = Accepted(want)]
       /\ job' = [job EXCEPT !.hwm = c, !.agent = job.lane = "pinned"]
    /\ UNCHANGED <<fin, reorder, writes, unparks>>

-----------------------------------------------------------------------------
(***************************************************************************)
(* The finalizer takes a command, and gives it back.                       *)
(***************************************************************************)

\* No term is live on the command and nothing older is in the way.
Claimable(c) ==
    /\ \/ cmd[c].state = "pending"
       \/ cmd[c].state = "finalizing" /\ ~cmd[c].live
    /\ Oldest(c)

\* Mutant: only the deadline ends a command.
ExhaustedByTime(c) == cmd[c].late

Exhausted(c) == cmd[c].late \/ cmd[c].attempts >= MaxAttempts

Claimed(k, f) ==
    [k EXCEPT !.state = "finalizing", !.owner = f, !.live = TRUE,
              !.attempts = @ + 1]

\* The retry delay (run_after) is not modelled: any delay may have passed.
Claim(f, c) ==
    /\ fin[f].at = "idle"
    /\ Claimable(c) /\ ~Exhausted(c) /\ ~InFlight(c)
    /\ cmd' = [cmd EXCEPT ![c] = Claimed(@, f)]
    /\ fin' = [fin EXCEPT ![f] = [Free EXCEPT !.at = "resolve", !.c = c]]
    /\ UNCHANGED <<job, reorder, writes, unparks>>

ParkUnclaimable(c) ==
    /\ Claimable(c) /\ Exhausted(c)
    /\ cmd' = [cmd EXCEPT ![c] = Released(@, "parked")]
    /\ UNCHANGED <<job, fin, reorder, writes, unparks>>

\* A step of the owner finds its term or its effect's window gone, or its
\* heartbeat does: the runner stops, the claim stays as it is.
LoseTerm(f) ==
    /\ fin[f].at /= "idle"
    /\ \/ ~Holds(f)
       \/ fin[f].at = "shipping" /\ ~cmd[fin[f].c].fx["ship"].open
       \/ /\ fin[f].at \in {"authorize", "tearing"}
          /\ ~cmd[fin[f].c].fx["tear"].open
    /\ Leave(f)
    /\ UNCHANGED <<job, cmd, reorder, writes, unparks>>

\* The process dies or is cancelled in the middle of anything.
Crash(f) ==
    /\ fin[f].at /= "idle"
    /\ Leave(f)
    /\ UNCHANGED <<job, cmd, reorder, writes, unparks>>

\* A callback or a statement raises outside a retryable effect.
WorkflowFails(f) ==
    /\ fin[f].at \in Workflow /\ Holds(f)
    /\ Go(f, "retry")
    /\ UNCHANGED <<job, cmd, reorder, writes, unparks>>

RetryOrPark(f) ==
    /\ At(f, "retry")
    /\ LET c == fin[f].c IN
       cmd' = [cmd EXCEPT ![c] =
                  Released(@, IF cmd[c].attempts >= MaxAttempts THEN "parked"
                              ELSE "pending")]
    /\ Leave(f)
    /\ UNCHANGED <<job, reorder, writes, unparks>>

\* A pass that left an effect pending is progress: it returns its attempt,
\* unless the effect has none left.
ReleaseForPendingEffects(f) ==
    /\ At(f, "finish") /\ fin[f].blocked
    /\ LET c == fin[f].c IN
       /\ \E e \in Effects : cmd[c].fx[e].state = "pending"
       /\ cmd' = [cmd EXCEPT ![c] =
                     IF \E e \in Effects : Spent(c, e)
                     THEN Released(@, "parked")
                     ELSE Returned(@)]
    /\ Leave(f)
    /\ UNCHANGED <<job, reorder, writes, unparks>>

-----------------------------------------------------------------------------
(***************************************************************************)
(* Which status a command may act on, and what becomes of one that may not *)
(***************************************************************************)

\* The status the command may act on, or "none": what S1 journaled, else the
\* status at its acceptance, else what its immediate predecessor produced.
EntryAuthority(c) ==
    IF cmd[c].entry /= "none" THEN cmd[c].entry
    ELSE IF \/ job.status = cmd[c].accepted
            \/ /\ c > 1 /\ cmd[c - 1].state = "done"
               /\ cmd[c - 1].result = job.status
         THEN job.status
         ELSE "none"

\* A status race ends the whole command.  It voids its own decision when
\* no later report may still need it; a decision of someone else parks it.
Supersede(f) ==
    /\ \/ At(f, "resolve") /\ EntryAuthority(fin[f].c) = "none"
       \/ At(f, "supersede")
    /\ LET c == fin[f].c
           alone == /\ \A d \in (c + 1)..MaxReports :
                          cmd[d].state \in {"none", "superseded"}
                    /\ job.status \notin Terminal
       IN
       IF alone /\ job.decision /= 0 /\ cmd[c].decision /= job.decision
       THEN /\ cmd' = [cmd EXCEPT ![c] = Released(@, "parked")]
            /\ Leave(f)
            /\ UNCHANGED job
       ELSE IF ActiveTeardown(c)
       THEN Go(f, "retry") /\ UNCHANGED <<job, cmd>>
       ELSE /\ cmd' = [cmd EXCEPT ![c] = Ended(@, "superseded", "none")]
            /\ job' = IF alone THEN [job EXCEPT !.decision = 0] ELSE job
            /\ Leave(f)
    /\ UNCHANGED <<reorder, writes, unparks>>

Resolve(f) ==
    /\ At(f, "resolve")
    /\ EntryAuthority(fin[f].c) /= "none"
    /\ fin' = [fin EXCEPT ![f].at = "guard",
                          ![f].entry = EntryAuthority(fin[f].c)]
    /\ UNCHANGED <<job, cmd, reorder, writes, unparks>>

-----------------------------------------------------------------------------
(***************************************************************************)
(* The workflow: the entry guard, which decides what there is to do.       *)
(***************************************************************************)

\* The report comes after the job was handed on: a no-op, but for a teardown.
LateEntry(entry) == entry \in {"completed", "pending_review"}

\* A stateless end report repeated after an ambiguous answer.
RepeatedEnd(entry) ==
    job.lane = "stateless" /\ entry \in {"paused", "failed", "cancelled"}

\* A job failed from outside while its agent was finishing is re-resolved.
LateCompletion(c, entry) ==
    entry = "failed" /\ cmd[c].want \in {"completed", "pending_review"}

\* Any other status is refused (HTTP 400), which ends the command as done.
Refused(c, entry) ==
    /\ entry /= "processing"
    /\ ~LateEntry(entry) /\ ~RepeatedEnd(entry) /\ ~LateCompletion(c, entry)

\* The immediate predecessor handed its teardown on to this report.
TeardownHandoff(c) ==
    c > 1 /\ cmd[c - 1].out = "deferred"

\* Terminal dispositions of a reordered command deliver before S17.
PreStatus(c) ==
    /\ cmd[c].reordered /\ cmd[c].want \in Terminal
    /\ cmd[c].disp = "none"

\* Mutant: a late report is a no-op whatever its predecessor left to it.
AfterGuardNoTail(c, entry) ==
    IF \/ LateEntry(entry) \/ RepeatedEnd(entry) \/ Refused(c, entry)
       \/ cmd[c].want = "none"
    THEN "finish"
    ELSE IF cmd[c].disp /= "none" THEN "authority"
    ELSE IF PreStatus(c) THEN "control" ELSE "status"

AfterGuard(c, entry) ==
    CASE LateEntry(entry) -> IF TeardownHandoff(c) THEN "tear" ELSE "finish"
      [] RepeatedEnd(entry) \/ Refused(c, entry) -> "finish"
      [] OTHER -> CASE cmd[c].want = "none" -> "finish"
                    [] cmd[c].disp /= "none" -> "authority"
                    [] PreStatus(c) -> "control"
                    [] OTHER -> "status"

\* What the outcome calls new_status.
Outcome(c) ==
    LET entry == cmd[c].entry IN
    IF LateEntry(entry) \/ RepeatedEnd(entry) THEN entry
    ELSE IF Refused(c, entry) THEN "none"
    ELSE IF cmd[c].want = "none" THEN entry
    ELSE cmd[c].disp

\* S1 journals the entry status; a status other than that is the command's
\* own only when its S17 wrote it.
Guard(f) ==
    /\ At(f, "guard")
    /\ LET c == fin[f].c
           entry == fin[f].entry
           own == job.status \in {entry, cmd[c].disp}
       IN
       /\ cmd' = [cmd EXCEPT ![c].entry = entry]
       /\ fin' = [fin EXCEPT ![f].entry = "none",
                    ![f].at = IF own THEN AfterGuard(c, entry)
                              ELSE "supersede"]
    /\ UNCHANGED <<job, reorder, writes, unparks>>

-----------------------------------------------------------------------------
(***************************************************************************)
(* Journaled effects: intent, the external work, the settled result.       *)
(***************************************************************************)

\* Mutant: the attempt at an effect is not counted.
PreparedUncounted(k, e) ==
    [k EXCEPT !.fx[e] =
       [state |-> "pending", tries |-> k.fx[e].tries, open |-> TRUE]]

Prepared(k, e) ==
    [k EXCEPT !.fx[e] =
       [state |-> "pending", tries |-> k.fx[e].tries + 1, open |-> TRUE]]
Completed(k, e) ==
    [k EXCEPT !.fx[e] = [@ EXCEPT !.state = "done", !.open = FALSE]]
GroupRetry(k, e) == [k EXCEPT !.fx[e] = [@ EXCEPT !.open = FALSE]]

\* Product delivery is before S17 withheld, after S17 only retried.
AfterShip(c) ==
    IF PreStatus(c) THEN "status"
    ELSE IF cmd[c].want \in {"completed", "failed"} THEN "tear" ELSE "finish"

\* Mutant: a failed delivery is only retried, before S17 too.
UnshippedGoesOn(f, c) == Block(f, AfterShip(c))

Unshipped(f, c) ==
    Block(f, IF PreStatus(c) THEN "finish" ELSE AfterShip(c))

\* The marker that keeps every control away while products are delivered;
\* a retry adopts the marker of its command.
AcquireDeliveryControl(f) ==
    /\ At(f, "control")
    /\ LET c == fin[f].c IN
       IF job.status = cmd[c].entry /\ job.ctl \in {Nobody, c}
       THEN job' = [job EXCEPT !.ctl = c] /\ Go(f, "ship")
       ELSE Go(f, "supersede") /\ UNCHANGED job
    /\ UNCHANGED <<cmd, reorder, writes, unparks>>

\* A graft without tries left blocks its group, a merge raises.
BeginShip(f) ==
    /\ At(f, "ship")
    /\ LET c == fin[f].c IN
       \/ /\ Settled(c, "ship")
          /\ Go(f, AfterShip(c)) /\ UNCHANGED cmd
       \/ /\ Spent(c, "ship")
          /\ Unshipped(f, c) \/ Go(f, "retry")
          /\ UNCHANGED cmd
       \/ /\ ~Settled(c, "ship") /\ ~Spent(c, "ship")
          /\ cmd' = [cmd EXCEPT ![c] = Prepared(@, "ship")]
          /\ Go(f, IF PreStatus(c) THEN "assert" ELSE "shipping")
    /\ UNCHANGED <<job, reorder, writes, unparks>>

AssertDeliveryControl(f) ==
    /\ At(f, "assert")
    /\ LET c == fin[f].c IN
       Go(f, IF job.status = cmd[c].entry /\ job.ctl = c THEN "shipping"
             ELSE "supersede")
    /\ UNCHANGED <<job, cmd, reorder, writes, unparks>>

ShipDone(f) ==
    /\ At(f, "shipping") /\ cmd[fin[f].c].fx["ship"].open
    /\ cmd' = [cmd EXCEPT ![fin[f].c] = Completed(@, "ship")]
    /\ Go(f, AfterShip(fin[f].c))
    /\ UNCHANGED <<job, reorder, writes, unparks>>

ShipFails(f) ==
    /\ At(f, "shipping") /\ cmd[fin[f].c].fx["ship"].open
    /\ cmd' = [cmd EXCEPT ![fin[f].c] = GroupRetry(@, "ship")]
    /\ Unshipped(f, fin[f].c)
    /\ UNCHANGED <<job, reorder, writes, unparks>>

-----------------------------------------------------------------------------
(***************************************************************************)
(* The disposition (S17), and the authority of everything that follows it. *)
(***************************************************************************)

\* One transaction: the compare-and-set of the jobs row and the marker of
\* the effect.  A reordered command consumes its delivery control in it.
WriteStatus(f) ==
    /\ At(f, "status")
    /\ LET c == fin[f].c
           want == cmd[c].want
           wins == /\ job.status = cmd[c].entry
                   /\ job.ctl = IF PreStatus(c) THEN c ELSE Nobody
           consumes == want \in Terminal /\ cmd[c].decision = job.decision
       IN
       IF wins
       THEN /\ job' = [job EXCEPT
                   !.status = want, !.ctl = Nobody,
                   !.decision = IF consumes THEN 0 ELSE @,
                   !.agent = @ /\ want /= "paused"]
            /\ cmd' = [cmd EXCEPT ![c].disp = want]
            /\ writes' = Append(writes, c)
            /\ Go(f, "authority")
       ELSE Go(f, "supersede") /\ UNCHANGED <<job, cmd, writes>>
    /\ UNCHANGED <<reorder, unparks>>

\* Checked once, under the lock of the jobs row, before the tail.
AssertDispositionAuthority(f) ==
    /\ At(f, "authority")
    /\ LET c == fin[f].c IN
       Go(f, IF job.status = cmd[c].disp
             THEN IF cmd[c].disp \in Terminal THEN "ship" ELSE "finish"
             ELSE IF ActiveTeardown(c) THEN "retry" ELSE "supersede")
    /\ UNCHANGED <<job, cmd, reorder, writes, unparks>>

-----------------------------------------------------------------------------
(***************************************************************************)
(* The teardown of the workspace (S36).                                    *)
(***************************************************************************)

BeginTear(f) ==
    /\ At(f, "tear")
    /\ LET c == fin[f].c IN
       \/ Settled(c, "tear") /\ Go(f, "finish") /\ UNCHANGED cmd
       \/ Spent(c, "tear") /\ Go(f, "retry") /\ UNCHANGED cmd
       \/ /\ ~Settled(c, "tear") /\ ~Spent(c, "tear")
          /\ cmd' = [cmd EXCEPT ![c] = Prepared(@, "tear")]
          /\ Go(f, "authorize")
    /\ UNCHANGED <<job, reorder, writes, unparks>>

\* Ordered against admission by the lock of the jobs row.  A later report
\* takes the teardown over, unless it was authorized already; nothing is torn
\* down of a job whose status is not the one the command proved.
AuthorizeTeardown(f) ==
    /\ At(f, "authorize") /\ cmd[fin[f].c].fx["tear"].open
    /\ LET c == fin[f].c
           expected == IF cmd[c].disp /= "none" THEN cmd[c].disp
                       ELSE cmd[c].entry
           held == cmd[c].active
                   /\ (job.hwm > c \/ job.status /= expected)
       IN
       \/ /\ held
          /\ cmd' = [cmd EXCEPT ![c] = GroupRetry(@, "tear")]
          /\ Block(f, "finish")
       \/ /\ job.hwm > c /\ ~held
          /\ cmd' = [cmd EXCEPT ![c] =
                        [Completed(@, "tear") EXCEPT !.out = "deferred"]]
          /\ Go(f, "finish")
       \/ /\ job.hwm = c /\ job.status /= expected /\ ~held
          /\ cmd' = [cmd EXCEPT ![c] = GroupRetry(@, "tear")]
          /\ Block(f, "supersede")
       \/ /\ job.hwm = c /\ job.status = expected
          /\ cmd' = [cmd EXCEPT ![c].active = TRUE]
          /\ Go(f, "tearing")
    /\ UNCHANGED <<job, reorder, writes, unparks>>

TeardownDone(f) ==
    /\ At(f, "tearing") /\ cmd[fin[f].c].fx["tear"].open
    /\ cmd' = [cmd EXCEPT ![fin[f].c] =
                  [Completed(@, "tear") EXCEPT !.out = "completed",
                                               !.active = FALSE]]
    /\ Go(f, "finish")
    /\ UNCHANGED <<job, reorder, writes, unparks>>

TeardownFails(f) ==
    /\ At(f, "tearing") /\ cmd[fin[f].c].fx["tear"].open
    /\ cmd' = [cmd EXCEPT ![fin[f].c] = GroupRetry(@, "tear")]
    /\ Block(f, "finish")
    /\ UNCHANGED <<job, reorder, writes, unparks>>

Finish(f) ==
    /\ At(f, "finish") /\ ~fin[f].blocked
    /\ LET c == fin[f].c IN
       /\ \A e \in Effects : cmd[c].fx[e].state /= "pending"
       /\ cmd' = [cmd EXCEPT ![c] = Ended(@, "done", Outcome(c))]
    /\ Leave(f)
    /\ UNCHANGED <<job, reorder, writes, unparks>>

-----------------------------------------------------------------------------
(***************************************************************************)
(* Clocks.                                                                 *)
(***************************************************************************)
LeaseExpires(c) ==
    /\ cmd[c].state = "finalizing" /\ cmd[c].live
    /\ cmd' = [cmd EXCEPT ![c] = Lapsed(@)]
    /\ UNCHANGED <<job, fin, reorder, writes, unparks>>

WindowCloses(c, e) ==
    /\ cmd[c].fx[e].open
    /\ cmd' = [cmd EXCEPT ![c] = GroupRetry(@, e)]
    /\ UNCHANGED <<job, fin, reorder, writes, unparks>>

\* No lease and no window goes beyond the deadline.
DeadlinePasses(c) ==
    /\ Unfinished(c) /\ ~cmd[c].late
    /\ cmd' = [cmd EXCEPT ![c] = [Lapsed(@) EXCEPT !.late = TRUE]]
    /\ UNCHANGED <<job, fin, reorder, writes, unparks>>

\* The marker of a delivery outlasts the longest window it was set for.
ControlEnds ==
    /\ Controlled
    /\ job.ctl \in Reports => ~InFlight(job.ctl)
    /\ job' = [job EXCEPT !.ctl = Nobody]
    /\ UNCHANGED <<cmd, fin, reorder, writes, unparks>>

-----------------------------------------------------------------------------
(***************************************************************************)
(* The other writers of the jobs row.  job.ver counts their status writes, *)
(* MaxControls bounds them.                                                *)
(***************************************************************************)
Foreign(status, agent, ctl, decision) ==
    /\ job.ver < MaxControls
    /\ job' = [job EXCEPT !.status = status, !.agent = agent, !.ctl = ctl,
                          !.decision = decision, !.ver = @ + 1]

\* A pause does not wait for an accepted report: the first write wins.  The
\* pinned one keeps a marker until the old agent is quiet; the holder of a
\* stateless unit keeps its lease to find out.
Pause ==
    /\ job.status = "processing" /\ ~Controlled
    /\ IF job.lane = "pinned"
       THEN Foreign("paused", FALSE, Human, job.decision)
       ELSE Foreign("paused", job.agent, job.ctl, job.decision)
    /\ UNCHANGED <<cmd, fin, reorder, writes, unparks>>

Cancel ==
    /\ job.status \notin {"completed", "cancelled"} /\ ~Controlled
    /\ Foreign("cancelled", job.agent /\ job.lane = "stateless", job.ctl,
               job.decision)
    /\ UNCHANGED <<cmd, fin, reorder, writes, unparks>>

\* The sweep that cancels the children of a delegation that took too long.
\* cancel_job looks at no marker.
DelegationTimeout ==
    /\ job.lane = "pinned"
    /\ job.status \notin {"completed", "cancelled"}
    /\ Foreign("cancelled", FALSE, job.ctl, job.decision)
    /\ UNCHANGED <<cmd, fin, reorder, writes, unparks>>

\* A human decision first claims the row, then writes its outcome.
ClaimControl ==
    /\ ~Excluded /\ ~Controlled
    /\ job' = [job EXCEPT !.ctl = Human, !.agent = FALSE]
    /\ UNCHANGED <<cmd, fin, reorder, writes, unparks>>

FinishControl(status) ==
    /\ job.ctl = Human /\ ~Excluded
    /\ Foreign(status, job.agent, Nobody, job.decision)
    /\ UNCHANGED <<cmd, fin, reorder, writes, unparks>>

\* A resume that demands new work voids the recorded decision.
Requeue ==
    /\ ~Excluded /\ ~Controlled /\ job.status /= "processing"
    /\ Foreign("paused", FALSE, job.ctl, 0)
    /\ UNCHANGED <<cmd, fin, reorder, writes, unparks>>

\* Mutant: dispatch does not look for unfinished reports.
DispatchAnyway ==
    /\ job.status = "paused" /\ ~job.agent /\ ~Controlled
    /\ Foreign("processing", TRUE, job.ctl, job.decision)
    /\ UNCHANGED <<cmd, fin, reorder, writes, unparks>>

Dispatch ==
    /\ job.status = "paused" /\ ~job.agent
    /\ ~Excluded /\ ~Controlled
    /\ Foreign("processing", TRUE, job.ctl, job.decision)
    /\ UNCHANGED <<cmd, fin, reorder, writes, unparks>>

-----------------------------------------------------------------------------
(***************************************************************************)
(* The operator and the safety net.                                        *)
(***************************************************************************)
SwitchReorder ==
    /\ ~reorder
    /\ reorder' = TRUE
    /\ UNCHANGED <<job, cmd, fin, writes, unparks>>

\* No term of the command is live; own names the markers it may pass.
Unheld(c, own) ==
    /\ Oldest(c)
    /\ ~cmd[c].live /\ ~InFlight(c) /\ ~ActiveTeardown(c)
    /\ job.ctl \in own

\* After the switch to the reordered mode, what an old command left of a
\* terminal job, or one that is stale and got no further than S1, is dropped.
SafetyNet(c) ==
    /\ reorder /\ Unfinished(c) /\ ~cmd[c].reordered
    /\ Unheld(c, {Nobody})
    /\ \/ job.status \in Terminal
       \/ /\ cmd[c].state = "parked" \/ Exhausted(c)
          /\ cmd[c].disp = "none"
          /\ \A e \in Effects : cmd[c].fx[e].state = "none"
    /\ cmd' = [cmd EXCEPT ![c] = Ended(@, "superseded", "none")]
    /\ UNCHANGED <<job, fin, reorder, writes, unparks>>

\* Its budgets are reset, but for effects that settled.
Rearmed(k) ==
    [k EXCEPT !.state = "pending", !.attempts = 0, !.late = FALSE,
              !.fx = [e \in Effects |->
                        IF k.fx[e].state = "pending"
                        THEN [k.fx[e] EXCEPT !.tries = 0] ELSE k.fx[e]]]

Unpark(c) ==
    /\ cmd[c].state = "parked" /\ Unheld(c, {Nobody, c})
    /\ unparks < MaxUnparks
    /\ unparks' = unparks + 1
    /\ cmd' = [cmd EXCEPT ![c] = Rearmed(@)]
    /\ UNCHANGED <<job, fin, reorder, writes>>

\* The operator abandons the tail and decides the job, once its executor is
\* dead (any may be: the liveness of agents is not modelled).
ForceResolve(c, status) ==
    /\ Unfinished(c) /\ Unheld(c, {Nobody, c})
    /\ job.status \in Terminal => job.status = status
    /\ Foreign(status, FALSE, Nobody, job.decision)
    /\ cmd' = [cmd EXCEPT ![c] = Ended(@, "force_resolved", "none")]
    /\ UNCHANGED <<fin, reorder, writes, unparks>>

-----------------------------------------------------------------------------
Step(f) ==
    \/ LoseTerm(f) \/ RetryOrPark(f) \/ ReleaseForPendingEffects(f)
    \/ Resolve(f) \/ Supersede(f) \/ Guard(f)
    \/ AcquireDeliveryControl(f) \/ AssertDeliveryControl(f)
    \/ BeginShip(f) \/ ShipDone(f) \/ ShipFails(f)
    \/ WriteStatus(f) \/ AssertDispositionAuthority(f)
    \/ BeginTear(f) \/ AuthorizeTeardown(f)
    \/ TeardownDone(f) \/ TeardownFails(f)
    \/ Finish(f)

Agent ==
    \/ RecordDecision
    \/ \E want \in Dispositions : Accept(want)

Controls ==
    \/ Pause \/ Cancel \/ DelegationTimeout
    \/ ClaimControl \/ Requeue \/ Dispatch
    \/ \E status \in Terminal \cup {"paused"} : FinishControl(status)

Operator ==
    \/ SwitchReorder
    \/ \E c \in Reports :
          \/ SafetyNet(c) \/ Unpark(c)
          \/ \E status \in Terminal : ForceResolve(c, status)

Clocks ==
    \/ ControlEnds
    \/ \E c \in Reports :
          \/ LeaseExpires(c) \/ DeadlinePasses(c)
          \/ \E e \in Effects : WindowCloses(c, e)

Next ==
    \/ \E f \in Finalizers :
          \/ Step(f) \/ Crash(f) \/ WorkflowFails(f)
          \/ \E c \in Reports : Claim(f, c)
    \/ \E c \in Reports : ParkUnclaimable(c)
    \/ Agent \/ Controls \/ Operator \/ Clocks

Spec == Init /\ [][Next]_vars

\* Nobody renews the lease of a command whose finalizer is gone.
OrphanExpires(c) ==
    LeaseExpires(c) /\ \A f \in Finalizers : fin[f].c /= c

\* A running workflow goes on or times out, the drain polls for commands,
\* and leases and windows that nobody extends run out.
Fairness ==
    /\ \A f \in Finalizers : WF_vars(Step(f))
    /\ \A c \in Reports :
          /\ WF_vars(\E f \in Finalizers : Claim(f, c))
          /\ WF_vars(ParkUnclaimable(c))
          /\ WF_vars(OrphanExpires(c))
          /\ \A e \in Effects : WF_vars(WindowCloses(c, e))

FairSpec == Spec /\ Fairness

-----------------------------------------------------------------------------
(***************************************************************************)
(* Properties.                                                             *)
(***************************************************************************)

\* From the moment a workspace teardown is authorized until it has settled,
\* over every crash, expiry and retry, no later report is admitted, its
\* command stays open, and no agent is put back to work in that workspace
\* (authorize_workspace_teardown against accept_completion_command).
TeardownHoldsJob ==
    \A c \in Reports :
       ActiveTeardown(c) => /\ job.hwm = c
                            /\ Unfinished(c)
                            /\ job.status /= "processing"

\* Reports take effect in the order of their acceptance, each at most once,
\* whoever finalizes them, however often, and also when one was parked and
\* rearmed while the job went on (FIFO guard of _claim, S17's marker).
DispositionsInOrder ==
    \A i, j \in DOMAIN writes : i < j => writes[i] < writes[j]

\* A report decides the job only if nobody else wrote the status since the
\* report was accepted: the compare-and-set on the status value is enough,
\* no sequence of controls brings the same value back in the meantime.
StatusIsTheOneAdmitted ==
    [][Len(writes') > Len(writes)
       => job.ver = cmd[writes'[Len(writes')]].seen]_vars

\* While a command delivers products under its marker, nobody moves the job
\* to another status: "Cancel/pause/resume/admission paths already honor
\* this reserved marker" (legacy_job_completion.py).
DeliveryExcludesForeignWrites ==
    \A c \in Reports :
       job.ctl = c /\ Unfinished(c) => job.status = cmd[c].entry

\* The writers that do honour the marker: of all controls only the delegation
\* sweep, which cancels pinned jobs, moves a job during a delivery, over every
\* expiry of the claim, adoption of the marker and entry by a retry.
DeliveryExcludesPeople ==
    \A c \in Reports :
       job.ctl = c /\ Unfinished(c) =>
          \/ job.status = cmd[c].entry
          \/ job.lane = "pinned" /\ job.status = "cancelled"

\* In the reordered mode a terminal status is visible only after everything
\* was delivered, over every failed delivery, spent budget and takeover.
DeliveredBeforePublished ==
    \A c \in Reports :
       cmd[c].reordered /\ cmd[c].disp \in Terminal
       => cmd[c].fx["ship"].state = "done"

\* A teardown handed on to a later report is carried out by it or handed on
\* again: "the no-op must nevertheless run only the teardown tail".
DeferredTeardownServed ==
    \A c \in Reports :
       cmd[c].state = "done" /\ TeardownHandoff(c) => cmd[c].out /= "none"

\* The oldest command of a job comes to rest: it ends or is parked for the
\* operator, although passes that leave an effect pending give their attempt
\* back and every lease may lapse.
CommandSettles ==
    \A c \in Reports :
       cmd[c].state \in {"pending", "finalizing"} /\ Oldest(c)
          ~> cmd[c].state \notin {"pending", "finalizing"}
=============================================================================
