------------------------------ MODULE QotUtime ------------------------------
(***************************************************************************)
(* A client of the uncertain-time arithmetic of qot_types.h, as the clocks *)
(* and latency estimates of the core module use it: it takes a reading and *)
(* adds or subtracts uncertain lengths of time.  actual is the time the    *)
(* reading is an estimate of.                                              *)
(***************************************************************************)
EXTENDS QotTime

CONSTANTS
    Rate, Unit,     \* scalars are in units of 1/Rate second, Unit * Rate = Asec
    Readings,       \* scalars read from a clock
    Added,          \* uncertain lengths to add: records of scalars
    Subtracted,     \* uncertain lengths to subtract
    MaxSteps        \* bound on the operations

ULength == [estimate : Nat, below : Nat, above : Nat]

ASSUME UtimeAssumption ==
    /\ Rate \in Nat \ {0} /\ Unit \in Nat \ {0} /\ Rate * Unit = Asec
    /\ Readings \subseteq Int
    /\ Added \subseteq ULength /\ Subtracted \subseteq ULength
    /\ MaxSteps \in Nat

VARIABLES t, actual, steps

vars == <<t, actual, steps>>

Zero == [sec |-> 0, asec |-> 0]

tp(x) == scalar_to_timepoint(x, Rate, Unit)

\* The utimelength_t of a record of scalars, and the lengths it stands for.
utl(v) == [estimate |-> tp(v.estimate), below |-> tp(v.below), above |-> tp(v.above)]
Actuals(v) == Unit * (v.estimate - v.below) .. Unit * (v.estimate + v.above)

\* TP_FROM_nSEC of a reading, with an empty interval.
Read(x) ==
    /\ t = [estimate |-> tp(x), below |-> Zero, above |-> Zero]
    /\ actual = x * Unit

Init == steps = 0 /\ \E x \in Readings : Read(x)

Add(v) ==
    /\ t' = utimepoint_add(t, utl(v))
    /\ \E x \in Actuals(v) : actual' = actual + x

Sub(v) ==
    /\ t' = utimepoint_sub(t, utl(v))
    /\ \E x \in Actuals(v) : actual' = actual - x

Next ==
    /\ steps < MaxSteps
    /\ steps' = steps + 1
    /\ (\E v \in Added : Add(v)) \/ (\E v \in Subtracted : Sub(v))

Spec == Init /\ [][Next]_vars

-----------------------------------------------------------------------------
\* Every operation leaves its result normalised: less than a second in the
\* sub-second parts, no negative length.
Normalised == t \in Utimepoint

\* The interval around the estimate contains the actual time (the comment
\* "Uncertainty interval around timepoint" of qot_types.h:327).
Contains ==
    /\ Value(t.estimate) - Value(t.below) <= actual
    /\ actual <= Value(t.estimate) + Value(t.above)

\* timepoint_cmp and the conversion back to a scalar agree with the order of
\* integers, negative times included.
Ordered ==
    \A x \in Readings :
        /\ timepoint_cmp(t.estimate, tp(x)) < 0 <=> Value(t.estimate) > x * Unit
        /\ timepoint_cmp(t.estimate, tp(x)) > 0 <=> Value(t.estimate) < x * Unit
        /\ TP_TO_GEN(t.estimate, Rate, Unit) > x => timepoint_cmp(t.estimate, tp(x)) < 0

=============================================================================
