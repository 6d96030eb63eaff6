--------------------------- MODULE MCQotNotifier ---------------------------
(***************************************************************************)
(* Instances of QotNotifier.                                               *)
(***************************************************************************)
EXTENDS QotNotifier

CONSTANTS t1, t2, na

\* The index in a timeline_t that has not been filled in: that of the first device.
AnyIndex == {0}
=============================================================================
