----------------------------- MODULE MCQotPtp ------------------------------
(* Small instances of QotPtp.                                                *)
EXTENDS QotPtp

\* The configuration leaves priorities and quality alike: identities decide.
Alike == [c \in Clock |-> 128]
=============================================================================
