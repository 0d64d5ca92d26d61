---------------------------- MODULE SplitAmount ----------------------------
(***************************************************************************)
(* splitAmount, with the one rounding in it: total / parts is the double   *)
(* nearest to the quotient, and Math.floor is applied to that.  The other  *)
(* operations are exact as long as the total is below 2^53.                *)
(***************************************************************************)
EXTENDS Integers, FiniteSets

CONSTANTS Significands,  \* how many significands a number has: 2^53
          Scales         \* the powers of two a significand is divided by

ASSUME NumberAssumption ==
    /\ Significands \in Nat \ {0}
    /\ Scales \subseteq Nat \ {0}

Accepts(totalCents, parts) == totalCents \in Nat /\ parts \in Nat \ {0}

Distance(one, other) == IF one < other THEN other - one ELSE one - other

\* The nearest number to total / parts: significand / scale, where the scale is as large as the
\* significands allow.  Of two that are equally near, either.
Quotients(totalCents, parts) ==
    {number \in [significand: 0 .. Significands, scale: Scales] :
        /\ totalCents # 0 => Significands * parts <= 2 * number.scale * totalCents
        /\ 2 * Distance(number.significand * parts, totalCents * number.scale) <= parts}

Floor(number) == number.significand \div number.scale

Leftover(totalCents, parts, share) == totalCents - share * parts

Shares(totalCents, parts, share) ==
    [i \in 1 .. parts |-> share + IF i <= Leftover(totalCents, parts, share) THEN 1 ELSE 0]

\* The results that the rounding allows.
splitAmount(totalCents, parts) ==
    IF ~ Accepts(totalCents, parts) THEN {"RangeError"}
    ELSE {Shares(totalCents, parts, Floor(quotient)) : quotient \in Quotients(totalCents, parts)}

-----------------------------------------------------------------------------
\* The shares add up to the total to the cent: every share is the exact quotient, and of the first
\* ones as many as cents are left over are one more.
IsFairSplit(shares, totalCents, parts) ==
    LET share    == totalCents \div parts
        leftover == totalCents - share * parts
    IN  /\ leftover \in 0 .. parts - 1
        /\ DOMAIN shares = 1 .. parts
        /\ \A i \in 1 .. parts : shares[i] = IF i <= leftover THEN share + 1 ELSE share
        /\ Cardinality({i \in 1 .. parts : shares[i] = share + 1}) = leftover
=============================================================================
