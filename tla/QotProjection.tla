--------------------------- MODULE QotProjection ---------------------------
(***************************************************************************)
(* The linear projection between the core clock and a timeline, and the    *)
(* disciplining operations that change it (qot_timeline_chdev.c for local  *)
(* timelines, qot_clock_gl.c for global ones).  Times are integers: the    *)
(* nanoseconds of the code.  A parameter record holds the three fields the *)
(* projection uses:                                                        *)
(*     nsec   timeline time at the last discipline                         *)
(*     last   core time at the last discipline                             *)
(*     mult   rate correction in parts per Giga (ppb in the code)          *)
(***************************************************************************)
EXTENDS Integers

CONSTANTS
    Giga,   \* nanoseconds per second: 1000000000 in the code
    Word    \* 2^64: the values of a u64

ASSUME ProjectionAssumption ==
    /\ Giga \in Nat \ {0}
    /\ Word \in Nat \ {0}

\* A timeline runs forward.
Ppb == {ppb \in Int : ppb + Giga > 0}

Params == [nsec : Int, last : Int, mult : Ppb]

\* timeline_impl is zero-allocated, clkgl_params is cleared at init.
InitParams == [nsec |-> 0, last |-> 0, mult |-> 0]

-----------------------------------------------------------------------------
\* C integer arithmetic.

\* div_s64 truncates towards zero, \div rounds down.
div_s64(a, b) == IF a >= 0 THEN a \div b ELSE -((-a) \div b)

\* (s64) of a u64.
s64(x) == IF x % Word < Word \div 2 THEN x % Word ELSE (x % Word) - Word

-----------------------------------------------------------------------------
\* The projection.

\* Core time to timeline time.
qot_loc2rem(p, val) ==
    p.nsec + (val - p.last) + div_s64(p.mult * (val - p.last), Giga)

\* Timeline time to core time: an unsigned division whose remainder is added
\* unscaled.
qot_rem2loc(p, val) ==
    LET diff == (val - p.nsec) % Word
        rate == p.mult + Giga
    IN  p.last + s64((diff \div rate) * Giga) + (diff % rate)

-----------------------------------------------------------------------------
\* The disciplining operations, at core time ns.

adjfreq(p, ns, ppb) ==
    [nsec |-> qot_loc2rem(p, ns), last |-> ns, mult |-> ppb]

adjtime(p, delta) == [p EXCEPT !.nsec = @ + delta]

settime(p, ns, val) == [p EXCEPT !.nsec = val, !.last = ns]
=============================================================================
