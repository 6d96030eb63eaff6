-------------------------- MODULE QotUtime_proofs --------------------------
(***************************************************************************)
(* The time arithmetic of qot_types.h computes what the integers that its  *)
(* records stand for compute, at any resolution and for any chain of       *)
(* operations.                                                             *)
(***************************************************************************)
EXTENDS QotUtime, TLAPS

-----------------------------------------------------------------------------
\* Integers.

LEMMA Distribute ==
    ASSUME NEW a \in Int, NEW b \in Int, NEW c \in Int
    PROVE  (a + b) * c = a * c + b * c /\ (a - b) * c = a * c - b * c
    OBVIOUS

LEMMA Associate ==
    ASSUME NEW a \in Int, NEW b \in Int, NEW c \in Int
    PROVE  (a * b) * c = a * (b * c)
    OBVIOUS

LEMMA Monotone ==
    ASSUME NEW a \in Int, NEW b \in Int, NEW c \in Nat, a <= b
    PROVE  a * c <= b * c
    OBVIOUS

LEMMA Division ==
    ASSUME NEW a \in Nat, NEW b \in Nat \ {0}
    PROVE  /\ a \div b \in Nat /\ a % b \in 0 .. b - 1
           /\ a = b * (a \div b) + (a % b)
<1>1. a \div b \in Nat
  OBVIOUS
<1>2. a % b \in 0 .. b - 1
  OBVIOUS
<1>3. a = b * (a \div b) + (a % b)
  OBVIOUS
<1> QED
  BY <1>1, <1>2, <1>3

LEMMA OneCarry ==
    ASSUME NEW a \in Nat, NEW b \in Nat \ {0}, a < 2 * b
    PROVE  /\ a < b => a \div b = 0 /\ a % b = a
           /\ a >= b => a \div b = 1 /\ a % b = a - b
    OBVIOUS

-----------------------------------------------------------------------------
\* Records of seconds and parts of a second.

LEMMA ValueType ==
    ASSUME NEW t1 \in Timepoint
    PROVE  Value(t1) \in Int
    BY TimeAssumption DEF Timepoint, Value

LEMMA LengthIsPoint == Timelength \subseteq Timepoint
    BY DEF Timelength, Timepoint

LEMMA LengthValue ==
    ASSUME NEW l \in Timelength
    PROVE  Value(l) \in Nat
    BY TimeAssumption, Monotone DEF Timelength, Value

\* One second more is Asec more.
LEMMA Carry ==
    ASSUME NEW a \in Int, NEW b \in Int
    PROVE  /\ (a + b) * Asec = a * Asec + b * Asec /\ (a - b) * Asec = a * Asec - b * Asec
           /\ (a + b + 1) * Asec = a * Asec + b * Asec + Asec
           /\ (a - b - 1) * Asec = a * Asec - b * Asec - Asec
    BY TimeAssumption, Distribute

\* timepoint_add carries at most one second.
LEMMA AddValue ==
    ASSUME NEW t1 \in Timepoint, NEW l \in Timepoint
    PROVE  /\ timepoint_add(t1, l) \in Timepoint
           /\ t1 \in Timelength /\ l \in Timelength => timepoint_add(t1, l) \in Timelength
           /\ Value(timepoint_add(t1, l)) = Value(t1) + Value(l)
<1> DEFINE s == t1.asec + l.asec
<1>1. /\ t1.sec \in Int /\ l.sec \in Int /\ Asec \in Nat \ {0} /\ s \in Nat /\ s < 2 * Asec
      /\ t1 \in Timelength /\ l \in Timelength => t1.sec \in Nat /\ l.sec \in Nat
  BY TimeAssumption DEF Timepoint, Timelength
<1>2. \/ s < Asec /\ s \div Asec = 0 /\ s % Asec = s
      \/ s >= Asec /\ s \div Asec = 1 /\ s % Asec = s - Asec
  BY <1>1, OneCarry
<1>3. timepoint_add(t1, l) = [sec |-> t1.sec + l.sec + s \div Asec, asec |-> s % Asec]
  BY DEF timepoint_add
<1>4. Value(t1) + Value(l) = t1.sec * Asec + l.sec * Asec + s
  BY <1>1 DEF Value, Timepoint
<1>5. CASE s < Asec
  <2>1. timepoint_add(t1, l) = [sec |-> t1.sec + l.sec, asec |-> s]
    BY <1>1, <1>2, <1>3, <1>5
  <2> QED
    BY <1>1, <1>4, <1>5, <2>1, Carry DEF Value, Timepoint, Timelength
<1>6. CASE s >= Asec
  <2>1. timepoint_add(t1, l) = [sec |-> t1.sec + l.sec + 1, asec |-> s - Asec]
    BY <1>1, <1>2, <1>3, <1>6
  <2> QED
    BY <1>1, <1>4, <1>6, <2>1, Carry DEF Value, Timepoint, Timelength
<1> QED
  BY <1>1, <1>5, <1>6

LEMMA SubValue ==
    ASSUME NEW t1 \in Timepoint, NEW l \in Timepoint
    PROVE  /\ timepoint_sub(t1, l) \in Timepoint
           /\ Value(timepoint_sub(t1, l)) = Value(t1) - Value(l)
    BY TimeAssumption, Carry DEF Timepoint, timepoint_sub, Value

\* timepoint_cmp and timelength_cmp compare the integers.
LEMMA CmpValue ==
    ASSUME NEW t1 \in Timepoint, NEW t2 \in Timepoint
    PROVE  /\ timepoint_cmp(t1, t2) \in {-1, 0, 1} /\ timelength_cmp(t1, t2) = timepoint_cmp(t1, t2)
           /\ timepoint_cmp(t1, t2) < 0 <=> Value(t1) > Value(t2)
           /\ timepoint_cmp(t1, t2) > 0 <=> Value(t1) < Value(t2)
<1> DEFINE A == t1.sec * Asec
           B == t2.sec * Asec
<1>1. /\ t1.sec \in Int /\ t2.sec \in Int /\ Asec \in Nat \ {0}
      /\ t1.asec \in 0 .. Asec - 1 /\ t2.asec \in 0 .. Asec - 1
  BY TimeAssumption DEF Timepoint
<1>2. /\ A \in Int /\ B \in Int
      /\ t1.sec > t2.sec => A >= B + Asec
      /\ t1.sec < t2.sec => B >= A + Asec
      /\ t1.sec = t2.sec => A = B
  <2>1. t1.sec > t2.sec => (t2.sec + 1) * Asec <= A
    BY <1>1, Monotone
  <2>2. t1.sec < t2.sec => (t1.sec + 1) * Asec <= B
    BY <1>1, Monotone
  <2> QED
    BY <1>1, <2>1, <2>2, Distribute
<1>3. Value(t1) = A + t1.asec /\ Value(t2) = B + t2.asec
  BY DEF Value
<1>4. /\ t1.sec > t2.sec => timepoint_cmp(t1, t2) = -1
      /\ t1.sec < t2.sec => timepoint_cmp(t1, t2) = 1
      /\ t1.sec = t2.sec => timepoint_cmp(t1, t2) =
            IF t1.asec > t2.asec THEN -1 ELSE IF t1.asec < t2.asec THEN 1 ELSE 0
      /\ timelength_cmp(t1, t2) = timepoint_cmp(t1, t2)
  <2>1. CASE t1.sec > t2.sec
    <3>1. timepoint_cmp(t1, t2) = -1
      BY <1>1, <2>1 DEF timepoint_cmp
    <3>2. timelength_cmp(t1, t2) = -1
      BY <1>1, <2>1 DEF timelength_cmp
    <3> QED
      BY <1>1, <2>1, <3>1, <3>2
  <2>2. CASE t1.sec < t2.sec
    <3>1. timepoint_cmp(t1, t2) = 1
      BY <1>1, <2>2 DEF timepoint_cmp
    <3>2. timelength_cmp(t1, t2) = 1
      BY <1>1, <2>2 DEF timelength_cmp
    <3> QED
      BY <1>1, <2>2, <3>1, <3>2
  <2>3. CASE t1.sec = t2.sec
    BY <1>1, <2>3 DEF timepoint_cmp, timelength_cmp
  <2> QED
    BY <1>1, <2>1, <2>2, <2>3
<1> HIDE DEF A, B
<1> QED
  BY <1>1, <1>2, <1>3, <1>4

-----------------------------------------------------------------------------
\* Scalars.

LEMMA Scalar ==
    ASSUME NEW x \in Int
    PROVE  /\ tp(x) \in Timepoint /\ Value(tp(x)) = x * Unit
           /\ x \in Nat => tp(x) \in Timelength
<1> DEFINE a == Abs(x)
           s == a \div Rate
           r == a % Rate
<1>0. Rate \in Nat \ {0} /\ Unit \in Nat \ {0} /\ Asec \in Nat \ {0} /\ Rate * Unit = Asec
  BY UtimeAssumption, TimeAssumption
<1>1. a \in Nat /\ x = (IF x >= 0 THEN a ELSE -a)
  BY DEF Abs
<1>2. s \in Nat /\ r \in 0 .. Rate - 1 /\ a = Rate * s + r
  BY <1>0, <1>1, Division, Zenon
<1>3. a - Rate * s = r
  BY <1>0, <1>1, <1>2
<1> HIDE DEF a, s, r
<1>4. r * Unit \in 0 .. Asec - 1
  <2>1. r * Unit <= (Rate - 1) * Unit /\ 0 * Unit <= r * Unit
    BY <1>0, <1>2, Monotone
  <2>2. (Rate - 1) * Unit = Asec - Unit
    BY <1>0, Distribute
  <2> QED
    BY <1>0, <1>2, <2>1, <2>2
<1>5. a * Unit = s * Asec + r * Unit
  <2>1. a * Unit = (Rate * s) * Unit + r * Unit
    BY <1>0, <1>2, Distribute
  <2>2. (Rate * s) * Unit = s * (Rate * Unit)
    BY <1>0, <1>2
  <2> QED
    BY <1>0, <2>1, <2>2
<1>6. tp(x) = IF x >= 0 THEN [sec |-> s, asec |-> r * Unit]
              ELSE IF r * Unit = 0 THEN [sec |-> -s, asec |-> 0]
              ELSE [sec |-> -s - 1, asec |-> Asec - r * Unit]
  BY <1>3 DEF tp, scalar_to_timepoint, a, s
<1>7. (-s) * Asec = -(s * Asec) /\ (-s - 1) * Asec = -(s * Asec) - Asec /\ (-a) * Unit = -(a * Unit)
  BY <1>0, <1>1, <1>2
<1> DEFINE sA == s * Asec
           rU == r * Unit
<1>8. sA \in Int
  BY <1>0, <1>2
<1>9. CASE x >= 0
  <2>1. tp(x) = [sec |-> s, asec |-> rU] /\ x * Unit = sA + rU
    BY <1>1, <1>5, <1>6, <1>9
  <2> QED
    BY <1>2, <1>4, <2>1 DEF Timepoint, Timelength, Value
<1>10. CASE x < 0
  <2>1. x * Unit = -(sA + rU)
    BY <1>1, <1>5, <1>7, <1>10
  <2>2. CASE rU = 0
    <3>1. tp(x) = [sec |-> -s, asec |-> 0]
      BY <1>6, <1>10, <2>2
    <3> QED
      BY <1>0, <1>2, <1>7, <1>8, <1>10, <2>1, <2>2, <3>1 DEF Timepoint, Value
  <2>3. CASE rU # 0
    <3>1. tp(x) = [sec |-> -s - 1, asec |-> Asec - rU]
      BY <1>6, <1>10, <2>3
    <3> QED
      BY <1>0, <1>2, <1>4, <1>7, <1>8, <1>10, <2>1, <2>3, <3>1 DEF Timepoint, Value
  <2> QED
    BY <2>2, <2>3
<1> QED
  BY <1>9, <1>10

\* The conversion back to a scalar rounds down.
LEMMA Rounds ==
    ASSUME NEW t1 \in Timepoint
    PROVE  /\ TP_TO_GEN(t1, Rate, Unit) \in Int
           /\ TP_TO_GEN(t1, Rate, Unit) * Unit <= Value(t1)
<1> DEFINE d == t1.asec \div Unit
           m == t1.asec % Unit
<1>0. Rate \in Nat \ {0} /\ Unit \in Nat \ {0} /\ Asec \in Nat \ {0} /\ Rate * Unit = Asec
  BY UtimeAssumption, TimeAssumption
<1>1. t1.sec \in Int /\ t1.asec \in Nat
  BY <1>0 DEF Timepoint
<1>2. d \in Nat /\ m \in Nat /\ t1.asec = Unit * d + m
  <2>1. d \in Nat /\ m \in 0 .. Unit - 1
    BY <1>0, <1>1, Division, Zenon
  <2>2. t1.asec = Unit * d + m
    BY <1>0, <1>1, Division, Zenon
  <2> QED
    BY <1>0, <2>1, <2>2
<1>3. TP_TO_GEN(t1, Rate, Unit) = t1.sec * Rate + d
  BY DEF TP_TO_GEN
<1> HIDE DEF d, m
<1>4. (t1.sec * Rate + d) * Unit = t1.sec * Asec + Unit * d
  <2>1. (t1.sec * Rate + d) * Unit = (t1.sec * Rate) * Unit + d * Unit
    BY <1>0, <1>1, <1>2, Distribute
  <2>2. (t1.sec * Rate) * Unit = t1.sec * Asec
    BY <1>0, <1>1, Associate
  <2> QED
    BY <1>0, <1>2, <2>1, <2>2
<1>5. t1.sec * Rate + d \in Int /\ t1.sec * Asec \in Int /\ Unit * d \in Int
  BY <1>0, <1>1, <1>2
<1> QED
  BY <1>2, <1>3, <1>4, <1>5 DEF Value

-----------------------------------------------------------------------------
\* The client.

LEMMA Lengths ==
    ASSUME NEW v \in ULength
    PROVE  /\ utl(v).estimate \in Timelength /\ Value(utl(v).estimate) = v.estimate * Unit
           /\ utl(v).below \in Timelength /\ Value(utl(v).below) = v.below * Unit
           /\ utl(v).above \in Timelength /\ Value(utl(v).above) = v.above * Unit
    BY Scalar DEF ULength, utl

\* The sides of the intervals that are subtracted are as long as each other.  The
\* code adds each side to the same side of the result.
Even == \A v \in Subtracted : v.below = v.above

LEMMA NormalisedInit == Init => Normalised
<1>1. Zero \in Timelength
  BY TimeAssumption DEF Zero, Timelength
<1> QED
  BY <1>1, Scalar, UtimeAssumption DEF Init, Read, Normalised, Utimepoint

\* What an operation does to the three integers of the record.
LEMMA AddStep ==
    ASSUME Normalised, NEW v \in Added, Add(v)
    PROVE  /\ Normalised'
           /\ Value(t'.estimate) = Value(t.estimate) + v.estimate * Unit
           /\ Value(t'.below) = Value(t.below) + v.below * Unit
           /\ Value(t'.above) = Value(t.above) + v.above * Unit
<1>1. /\ t.estimate \in Timepoint /\ t.below \in Timelength /\ t.above \in Timelength
      /\ v \in ULength
  BY UtimeAssumption DEF Normalised, Utimepoint
<1>2. t' = [estimate |-> timepoint_add(t.estimate, utl(v).estimate),
            below |-> timepoint_add(t.below, utl(v).below),
            above |-> timepoint_add(t.above, utl(v).above)]
  BY DEF Add, utimepoint_add
<1> QED
  BY <1>1, <1>2, Lengths, LengthIsPoint, AddValue DEF Normalised, Utimepoint

LEMMA SubStep ==
    ASSUME Normalised, NEW v \in Subtracted, Sub(v)
    PROVE  /\ Normalised'
           /\ Value(t'.estimate) = Value(t.estimate) - v.estimate * Unit
           /\ Value(t'.below) = Value(t.below) + v.below * Unit
           /\ Value(t'.above) = Value(t.above) + v.above * Unit
<1>1. /\ t.estimate \in Timepoint /\ t.below \in Timelength /\ t.above \in Timelength
      /\ v \in ULength
  BY UtimeAssumption DEF Normalised, Utimepoint
<1>2. t' = [estimate |-> timepoint_sub(t.estimate, utl(v).estimate),
            below |-> timepoint_add(t.below, utl(v).below),
            above |-> timepoint_add(t.above, utl(v).above)]
  BY DEF Sub, utimepoint_sub
<1> QED
  BY <1>1, <1>2, Lengths, LengthIsPoint, AddValue, SubValue DEF Normalised, Utimepoint

LEMMA NormalisedStep == Normalised /\ [Next]_vars => Normalised'
    BY AddStep, SubStep DEF Next, vars, Normalised

\* Every chain of utimepoint_add and utimepoint_sub leaves its result normalised.
THEOREM StaysNormalised == Spec => []Normalised
    BY NormalisedInit, NormalisedStep, PTL DEF Spec

\* The lengths that a record of scalars stands for, as integers.
LEMMA ActualLength ==
    ASSUME NEW v \in ULength, NEW x \in Actuals(v)
    PROVE  /\ x \in Int /\ v.estimate * Unit \in Int /\ v.below * Unit \in Int /\ v.above * Unit \in Int
           /\ v.estimate * Unit - v.below * Unit <= x
           /\ x <= v.estimate * Unit + v.above * Unit
<1>1. v.estimate \in Nat /\ v.below \in Nat /\ v.above \in Nat /\ Unit \in Nat
  BY UtimeAssumption DEF ULength
<1>2. /\ Unit * (v.estimate - v.below) = v.estimate * Unit - v.below * Unit
      /\ Unit * (v.estimate + v.above) = v.estimate * Unit + v.above * Unit
  BY <1>1
<1> QED
  BY <1>1, <1>2 DEF Actuals

ContainsInv == Normalised /\ actual \in Int /\ Contains

LEMMA ContainsInit == Init => ContainsInv
<1> SUFFICES ASSUME NEW x \in Readings, Read(x), Init PROVE ContainsInv
  BY DEF Init
<1>1. x \in Int /\ Unit \in Nat /\ Value(tp(x)) = x * Unit /\ Value(Zero) = 0
  BY Scalar, UtimeAssumption, TimeAssumption DEF Zero, Value
<1>2. t.estimate = tp(x) /\ t.below = Zero /\ t.above = Zero /\ actual = x * Unit
  BY DEF Read
<1> QED
  BY <1>1, <1>2, NormalisedInit DEF ContainsInv, Contains

LEMMA ContainsStep == Even /\ ContainsInv /\ [Next]_vars => ContainsInv'
<1> SUFFICES ASSUME Even, ContainsInv, [Next]_vars PROVE ContainsInv'
  OBVIOUS
<1>1. /\ Normalised /\ actual \in Int
      /\ Value(t.estimate) \in Int /\ Value(t.below) \in Int /\ Value(t.above) \in Int
      /\ Value(t.estimate) - Value(t.below) <= actual
      /\ actual <= Value(t.estimate) + Value(t.above)
  BY ValueType, LengthIsPoint DEF ContainsInv, Contains, Normalised, Utimepoint
<1>2. ASSUME NEW v \in Added, Add(v) PROVE ContainsInv'
  <2>1. PICK x \in Actuals(v) : actual' = actual + x
    BY <1>2 DEF Add
  <2>2. v \in ULength
    BY UtimeAssumption
  <2> QED
    BY <1>1, <1>2, <2>1, <2>2, AddStep, ActualLength DEF ContainsInv, Contains
<1>3. ASSUME NEW v \in Subtracted, Sub(v) PROVE ContainsInv'
  <2>1. PICK x \in Actuals(v) : actual' = actual - x
    BY <1>3 DEF Sub
  <2>2. v \in ULength /\ v.below = v.above
    BY UtimeAssumption DEF Even
  <2> QED
    BY <1>1, <1>3, <2>1, <2>2, SubStep, ActualLength DEF ContainsInv, Contains
<1>4. CASE UNCHANGED vars
  BY <1>4 DEF vars, ContainsInv, Contains, Normalised
<1> QED
  BY <1>2, <1>3, <1>4 DEF Next

\* The interval of an uncertain time contains the time, after any chain of additions,
\* and of subtractions of lengths with an even interval.
THEOREM IntervalContains == Even => (Spec => []Contains)
<1> SUFFICES ASSUME Even PROVE Spec => []Contains
  OBVIOUS
<1>1. ContainsInv /\ [Next]_vars => ContainsInv'
  BY ContainsStep
<1>2. ContainsInv => Contains
  BY DEF ContainsInv
<1> QED
  BY <1>1, <1>2, ContainsInit, PTL DEF Spec

\* The comparison of times is that of the integers they stand for, negative times
\* included, and so is that of the scalars they convert to, but for rounding.
THEOREM ComparisonIsOrder == Spec => []Ordered
<1>1. Normalised => Ordered
  <2> SUFFICES ASSUME Normalised, NEW x \in Readings
               PROVE  /\ timepoint_cmp(t.estimate, tp(x)) < 0 <=> Value(t.estimate) > x * Unit
                      /\ timepoint_cmp(t.estimate, tp(x)) > 0 <=> Value(t.estimate) < x * Unit
                      /\ TP_TO_GEN(t.estimate, Rate, Unit) > x => timepoint_cmp(t.estimate, tp(x)) < 0
    BY DEF Ordered
  <2> DEFINE g == TP_TO_GEN(t.estimate, Rate, Unit)
  <2>1. t.estimate \in Timepoint /\ x \in Int /\ Unit \in Nat \ {0}
    BY UtimeAssumption DEF Normalised, Utimepoint
  <2>2. tp(x) \in Timepoint /\ Value(tp(x)) = x * Unit
    BY <2>1, Scalar
  <2>3. /\ timepoint_cmp(t.estimate, tp(x)) < 0 <=> Value(t.estimate) > x * Unit
        /\ timepoint_cmp(t.estimate, tp(x)) > 0 <=> Value(t.estimate) < x * Unit
    BY <2>1, <2>2, CmpValue
  <2>4. g \in Int /\ g * Unit <= Value(t.estimate) /\ Value(t.estimate) \in Int
    BY <2>1, Rounds, ValueType
  <2>5. ASSUME g > x PROVE Value(t.estimate) > x * Unit
    <3> HIDE DEF g
    <3>1. (x + 1) * Unit <= g * Unit
      BY <2>1, <2>4, <2>5, Monotone
    <3>2. (x + 1) * Unit = x * Unit + Unit
      BY <2>1, Distribute
    <3> QED
      BY <2>1, <2>4, <3>1, <3>2
  <2> QED
    BY <2>3, <2>5
<1> QED
  BY <1>1, NormalisedInit, NormalisedStep, PTL DEF Spec
=============================================================================
