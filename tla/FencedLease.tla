---------------------------- MODULE FencedLease ----------------------------
(***************************************************************************)
(* What the run queue promises to the stores that persist under its fence: *)
(* for every unit there is a sequence of epochs, at most one of them is    *)
(* live, and durable writes are made only in the live epoch.  An epoch     *)
(* that was revoked never writes again, so the writes of a unit are        *)
(* ordered by epoch.  Who holds an epoch, why it ends and what is written  *)
(* is left open.                                                           *)
(***************************************************************************)
EXTENDS Naturals

CONSTANT Units

VARIABLES epoch,    \* newest epoch of each unit
          live,     \* the newest epoch is granted and not revoked
          written   \* epoch of the newest durable write, 0 if none

leaseVars == <<epoch, live, written>>

LeaseTypeOK ==
    /\ epoch \in [Units -> Nat]
    /\ live \in [Units -> BOOLEAN]
    /\ written \in [Units -> Nat]

LeaseInit ==
    /\ epoch = [u \in Units |-> 0]
    /\ live = [u \in Units |-> FALSE]
    /\ written = [u \in Units |-> 0]

\* A claimant gets the next epoch; nobody may hold the one before.
GrantEpoch(u) ==
    /\ ~ live[u]
    /\ epoch' = [epoch EXCEPT ![u] = @ + 1]
    /\ live' = [live EXCEPT ![u] = TRUE]
    /\ UNCHANGED written

\* The holder gives the epoch back, or it is taken: then the number moves on
\* at once, before anyone else claims.
RevokeEpoch(u) ==
    /\ live[u]
    /\ live' = [live EXCEPT ![u] = FALSE]
    /\ \/ UNCHANGED epoch
       \/ epoch' = [epoch EXCEPT ![u] = @ + 1]
    /\ UNCHANGED written

\* A unit nobody holds is fenced as well.
FenceEpoch(u) ==
    /\ ~ live[u]
    /\ epoch' = [epoch EXCEPT ![u] = @ + 1]
    /\ UNCHANGED <<live, written>>

WriteInEpoch(u) ==
    /\ live[u]
    /\ written' = [written EXCEPT ![u] = epoch[u]]
    /\ UNCHANGED <<epoch, live>>

LeaseNext ==
    \E u \in Units :
        GrantEpoch(u) \/ RevokeEpoch(u) \/ FenceEpoch(u) \/ WriteInEpoch(u)

LeaseSpec == LeaseInit /\ [][LeaseNext]_leaseVars
=============================================================================
