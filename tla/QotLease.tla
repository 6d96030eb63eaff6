------------------------------ MODULE QotLease ------------------------------
(***************************************************************************)
(* What the election among brokers promises: a lease that at most one      *)
(* broker holds at a time, that is never handed over in one step, that     *)
(* ends with the holder's session, and that is not left unused for ever    *)
(* while a broker could take it.  QotElection implements it.               *)
(***************************************************************************)
CONSTANT Broker

VARIABLES
    candidates,     \* brokers that run and have a session
    leaders         \* those of them that lead

lease == <<candidates, leaders>>

LeaseInit == candidates = {} /\ leaders = {}

Join(b) ==
    /\ b \notin candidates
    /\ candidates' = candidates \cup {b}
    /\ UNCHANGED leaders

Leave(b) ==
    /\ b \in candidates
    /\ candidates' = candidates \ {b}
    /\ leaders' = leaders \ {b}

Acquire(b) ==
    /\ b \in candidates /\ leaders = {}
    /\ leaders' = {b}
    /\ UNCHANGED candidates

StepDown ==
    /\ leaders # {}
    /\ leaders' = {}
    /\ UNCHANGED candidates

LeaseNext == StepDown \/ \E b \in Broker : Join(b) \/ Leave(b) \/ Acquire(b)

LeaseSafe == LeaseInit /\ [][LeaseNext]_lease

\* Weak fairness of Acquire: candidates without a leader do not stay so.
LeaseSpec == LeaseSafe /\ []<>(candidates = {} \/ leaders # {})
=============================================================================
