------------------------ MODULE MCWorkspaceRecovery ------------------------
(***************************************************************************)
(* WorkspaceRecovery for TLC: an owner and a child, two reconcilers.       *)
(***************************************************************************)
EXTENDS WorkspaceRecovery, FiniteSets, TLC

CONSTANTS owner, child, w1, w2

\* Reconcilers are interchangeable.
RecoverySymmetry == Permutations(Services)

\* The holds: both jobs, one reconciler whose claim does not lapse unnoticed,
\* pins acknowledged as soon as they are served.
HoldFocus ==
    /\ \E w \in Services : \A v \in Services \ {w} : svc[v] = Idle
    /\ \A w \in Services : svc[w] /= Idle => Current(w)
    /\ \A i \in Ops : op[i].live => \E w \in Services : svc[w].op = i
    /\ \A i \in Ops : ~ op[i].late /\ (lease[i] = "held" <=> pin[i].acked)
    /\ \A c \in calls : c[2] = "active" /\ ~ pin[c[1]].acked
    /\ disk /\ ~ permit
    /\ Cardinality({j \in Jobs : scan[j] /= 0 \/ j \in settling \/ j \in lapsed}) <= 1
    /\ unit[owner].token + unit[child].token
         <= (IF op[1].phase = "recovered" THEN 6 ELSE 4)

\* The disk: the owner alone and held once, two reconcilers, deadlines, and
\* calls as late and as often as they come.
DiskFocus ==
    /\ job[child].status = "none"
    /\ unit[owner].token <= 2
    /\ scan[owner] = 0 /\ settling = {} /\ lapsed = {}

Focus == HoldFocus \/ DiskFocus

=============================================================================
