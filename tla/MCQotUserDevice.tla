-------------------------- MODULE MCQotUserDevice --------------------------
(***************************************************************************)
(* Instances of QotUserDevice.                                             *)
(***************************************************************************)
EXTENDS QotUserDevice, TLC

CONSTANTS t1, t2, a1, na, nb

\* Of two connections, either may come first in the tree: both tasks create,
\* connect and leave.
Addresses == t1 :> 1 @@ t2 :> 2 @@ a1 :> 3

\* The index that a timeline_t holds by chance: none, or that of a device.
AnyIndex == {-1, 0}
=============================================================================
