--------------------------- MODULE MCQotElection ---------------------------
(* Small instances of QotElection.                                           *)
EXTENDS QotElection

CONSTANTS b1, b2, b3

Distinct == [b \in Broker |-> b]

\* Started in the same second.
Equal == [b \in Broker |-> b1]
=============================================================================
