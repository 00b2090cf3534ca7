---------------------------- MODULE MCSpokeWheel ----------------------------
(***************************************************************************)
(* Wheels for SpokeWheel, in units of 10 us.  A wheel is primitive when it *)
(* is not a shorter wheel written several times.                           *)
(***************************************************************************)
EXTENDS SpokeWheel

Intervals == {10, 13, 20}

Primitive(w) ==
    \A d \in 1 .. Len(w) - 1 :
        Len(w) % d = 0 => \E i \in 1 .. Len(w) - d : w[i] # w[i + d]

\* Non-uniform wheels whose count has no multiple in Counts.
IdentifiableWheels ==
    {w \in UNION {[1 .. n -> Intervals] : n \in (COUNT_MAX \div 2) + 1 .. COUNT_MAX} :
        Primitive(w)}

UniformWheels == {[i \in 1 .. n |-> t] : n \in Counts, t \in Intervals}

MCWheels == IdentifiableWheels \cup UniformWheels

\* Two uneven wheels of three spokes, with spokes missed anywhere.
UnevenWheels == {<<10, 10, 13>>, <<10, 20, 13>>}

\* The smallest non-uniform wheel: its double is a candidate, too.
TwoSpokes == {<<10, 20>>}
=============================================================================
