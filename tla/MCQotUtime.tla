----------------------------- MODULE MCQotUtime -----------------------------
(* Small instances of QotUtime: a second of four units, scalars of two.      *)
EXTENDS QotUtime

AroundZero == -3 .. 3
Lopsided   == {[estimate |-> 1, below |-> 0, above |-> 1],
               [estimate |-> 3, below |-> 2, above |-> 1]}
Even       == {[estimate |-> 1, below |-> 1, above |-> 1],
               [estimate |-> 3, below |-> 2, above |-> 2]}
=============================================================================
