--------------------------- MODULE MCQotScheduler ---------------------------
(***************************************************************************)
(* Small instances of QotScheduler.  The unit of time is coarse: a second  *)
(* has Giga = 4 units.                                                     *)
(***************************************************************************)
EXTENDS QotScheduler, TLC

Symmetry == Permutations(Task)

\* The discipline arguments of the runs with time changes.
BothWays == {-2, 2}
Forward  == {2}
Back     == {-2}
Rates    == {-1, 1}
Halved   == {-8}    \* with Giga = 16
=============================================================================
