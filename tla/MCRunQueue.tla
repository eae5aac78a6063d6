---------------------------- MODULE MCRunQueue ----------------------------
(***************************************************************************)
(* RunQueue for TLC: pods and reapers are interchangeable, so the runs     *)
(* that check invariants and action properties use their symmetry.         *)
(***************************************************************************)
EXTENDS RunQueue, TLC

\* Bounds of the run, two regions that overlap.  Who holds the lease: all pods
\* and reapers act, on one human message after the thread's history.
LeaseFocus ==
    \A s \in Sessions :
        /\ row[s].control_input_seq = 0 /\ top[s] <= History + 1
        /\ owed[s] = {} /\ admitted[s] = {}

\* What the unit still owes: messages, events, controls and stops in any order
\* over two leases, under one pod and one reaper at a time.
OnePod ==
    /\ \A p \in Pods : warm[p] = NoUnit /\ ~ fence[p]
    /\ \A p, q \in Pods : p = q \/ NoClaim \in {claim[p], claim[q]}

OneReaper == \A r, q \in Reapers : r = q \/ {} \in {found[r], found[q]}

DebtFocus ==
    /\ OnePod /\ OneReaper
    /\ \A s \in Sessions :
        /\ row[s].lease_token <= 2 /\ row[s].attach_failures = 0
        /\ top[s] <= History + 1 \/ row[s].control_input_seq <= 1

SessionAlone == locked = {} /\ \A w \in Workers : row[w] = NoRow

\* A worker alone, through one lease and one recovery; the run of several units
\* takes it further.
WorkerFocus ==
    /\ OnePod /\ OneReaper
    /\ \A s \in Sessions : row[s] = NoRow /\ top[s] = History /\ owed[s] = {}
    /\ \A w \in Workers : row[w].lease_token <= 2 /\ row[w].input_seq <= 2

LeaseOrDebt ==
    \/ SessionAlone /\ (LeaseFocus \/ DebtFocus)
    \/ WorkerFocus

PodSymmetry == Permutations(Pods) \cup Permutations(Reapers)
=============================================================================
