-------------------------- MODULE MCQotCoordinator --------------------------
(* Small instances of QotCoordinator.                                        *)
EXTENDS QotCoordinator

Pair == {<<1, 7>>, <<2, 7>>}

\* Two nodes on a timeline and one on another.
TwoAndOne == Pair \cup {<<3, 8>>}

\* Both nodes on both timelines.
Crossed == {1, 2} \X {7, 8}

Alike     == [c \in Names \X Uuids |-> {2}]
Stricter  == [c \in Names \X Uuids |-> IF c[1] = 2 THEN {1, 2} ELSE {2}]
Weakening == [c \in Names \X Uuids |-> IF c[1] = 2 THEN {1, 3} ELSE {2}]
=============================================================================
