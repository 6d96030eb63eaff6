----------------------------- MODULE MCQotVirt -----------------------------
(* Small instances of QotVirt.                                               *)
EXTENDS QotVirt

CONSTANTS g1, g2, na, nb, nh
=============================================================================
