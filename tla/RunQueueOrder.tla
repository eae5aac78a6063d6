--------------------------- MODULE RunQueueOrder ---------------------------
(***************************************************************************)
(* The order in which claims take units, with a history variable for what  *)
(* went past a waiting unit.  passed[u] holds the units of u's kind that   *)
(* were claimed, at no higher priority, since u last became visible to     *)
(* every pod (queued, backoff and affinity grace over, row not locked).    *)
(***************************************************************************)
EXTENDS RunQueue

VARIABLE passed

OpenToAll(u) ==
    /\ row[u].state = "queued" /\ row[u].ready
    /\ row[u].aged \/ row[u].last_leased_by = NoPod
    /\ u \notin locked /\ u \notin recovering

Granted(v) == row[v].state = "queued" /\ row'[v].state = "leased"

GoesPast(v, u) ==
    v \in Kind(u) /\ Granted(v) /\ row[v].priority <= row[u].priority

OrderInit == Init /\ passed = [u \in Units |-> {}]

OrderNext ==
    /\ Next
    /\ passed' = [u \in Units |->
                    IF OpenToAll(u) /\ OpenToAll(u)'
                    THEN passed[u] \cup {v \in Units \ {u} : GoesPast(v, u)}
                    ELSE {}]

OrderSpec == OrderInit /\ [][OrderNext]_<<vars, passed>>

\* Round robin within a priority class (claim_unit: queued_at is reset on
\* completion, release and steal): while a unit is open to every pod, no
\* unit of the same kind and of no higher priority is claimed twice.
RoundRobin ==
    [][\A u, v \in Units :
         v \in passed[u] /\ OpenToAll(u) => ~ GoesPast(v, u)]_<<vars, passed>>
=============================================================================
