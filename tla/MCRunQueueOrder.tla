-------------------------- MODULE MCRunQueueOrder --------------------------
EXTENDS RunQueueOrder, TLC

\* Bound of the run: a worker alone lives through everything; of two sessions
\* the order of claims is the question, which the interrupt window, the event
\* deliveries, the parked units, the stops and the reaper's scans have no part
\* in.
OneWorker == \A s \in Sessions : row[s] = NoRow

OrderFocus ==
    /\ \A u \in Units :
        /\ u \in Workers => row[u] = NoRow
        /\ row[u].state /= "parked" /\ row[u].park_reason = "none"
        /\ row[u].adm_token = 0
        /\ row[u].state = "leased" => row[u].attempts > 0
        /\ owed[u] = {} /\ admitted[u] = {}
        /\ top[u] <= 1
        /\ \A v \in Units \ {u} : row[u].lease_token + row[v].lease_token <= 4
    /\ \A r \in Reapers : found[r] = {}

WorkerOrOrder == OneWorker \/ OrderFocus

OrderSymmetry == Permutations(Pods) \cup Permutations(Sessions)
=============================================================================
