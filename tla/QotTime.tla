------------------------------ MODULE QotTime ------------------------------
(***************************************************************************)
(* The time arithmetic of qot_types.h.  A timepoint_t or timelength_t is a *)
(* record of whole seconds and a sub-second part: attoseconds in the code, *)
(* Asec of them to the second here.  The integer a record stands for is    *)
(* Value(t); a timelength has sec >= 0.                                    *)
(***************************************************************************)
EXTENDS Integers

CONSTANT Asec   \* sub-second units per second: 10^18 attoseconds in the code

ASSUME TimeAssumption == Asec \in Nat \ {0}

Timepoint  == [sec : Int, asec : 0 .. Asec - 1]
Timelength == [sec : Nat, asec : 0 .. Asec - 1]

Value(t) == t.sec * Asec + t.asec

Abs(x) == IF x < 0 THEN -x ELSE x

-----------------------------------------------------------------------------
\* A signed scalar in units of 1/dv second, ml sub-second units each
\* (dv * ml = Asec), to a timepoint: divide the magnitude, then restore the
\* sign keeping T = sec + asec with asec >= 0.
scalar_to_timepoint(t, dv, ml) ==
    LET sec  == Abs(t) \div dv
        asec == (Abs(t) - dv * sec) * ml
    IN  IF t >= 0      THEN [sec |-> sec, asec |-> asec]
        ELSE IF asec = 0 THEN [sec |-> -sec, asec |-> 0]
        ELSE [sec |-> -sec - 1, asec |-> Asec - asec]

\* A timepoint to a scalar in units of 1/dv second.
TP_TO_GEN(t, dv, ml) == t.sec * dv + t.asec \div ml

\* Mutant: no carry.
add_without_carry(t, l) == [sec |-> t.sec + l.sec, asec |-> t.asec + l.asec]

\* timelength_add, and timepoint_add, which has the same body: add the parts,
\* then move whole seconds of the sub-second part into sec.
timepoint_add(t, l) ==
    LET asec == t.asec + l.asec
    IN  [sec  |-> t.sec + l.sec + asec \div Asec,
         asec |-> asec % Asec]

\* Subtract the parts, borrowing a second when the sub-second part is short.
timepoint_sub(t, l) ==
    IF t.asec < l.asec
    THEN [sec |-> t.sec - l.sec - 1, asec |-> Asec - (l.asec - t.asec)]
    ELSE [sec |-> t.sec - l.sec, asec |-> t.asec - l.asec]

\* Mutant: the sub-second parts left out.
cmp_of_seconds(t1, t2) ==
    IF t1.sec > t2.sec THEN -1 ELSE IF t1.sec < t2.sec THEN 1 ELSE 0

\* -1 when t1 is the later, 1 when t1 is the earlier.
timepoint_cmp(t1, t2) ==
    CASE t1.sec > t2.sec -> -1
      [] t1.sec < t2.sec -> 1
      [] t1.sec = t2.sec -> IF t1.asec > t2.asec THEN -1
                            ELSE IF t1.asec < t2.asec THEN 1 ELSE 0

\* The same convention for timelengths.
timelength_cmp(l1, l2) ==
    CASE l1.sec > l2.sec -> -1
      [] l1.sec < l2.sec -> 1
      [] l1.sec = l2.sec -> IF l1.asec > l2.asec THEN -1
                            ELSE IF l1.asec < l2.asec THEN 1 ELSE 0

\* The distances of the two parts, each on its own.
timepoint_diff(t1, t2) ==
    [sec |-> Abs(t1.sec - t2.sec), asec |-> Abs(t1.asec - t2.asec)]

-----------------------------------------------------------------------------
\* Uncertain times: an estimate with an interval (below, above) around it.

Utimepoint == [estimate : Timepoint, below : Timelength, above : Timelength]

utimepoint_add(t, v) ==
    [estimate |-> timepoint_add(t.estimate, v.estimate),
     below    |-> timepoint_add(t.below, v.below),
     above    |-> timepoint_add(t.above, v.above)]

\* Mutant: the interval shrinks with the estimate.
usub_shrinking(t, v) ==
    [estimate |-> timepoint_sub(t.estimate, v.estimate),
     below    |-> t.below,
     above    |-> t.above]

utimepoint_sub(t, v) ==
    [estimate |-> timepoint_sub(t.estimate, v.estimate),
     below    |-> timepoint_add(t.below, v.below),
     above    |-> timepoint_add(t.above, v.above)]
=============================================================================
