------------------------- MODULE MCRequestHandlers -------------------------
EXTENDS RequestHandlers, SplitAmount

MCIds      == {1, 2}
MCMembers  == {1}
MCAccounts == {[id |-> 1, roles |-> {"admin"}], [id |-> 2, roles |-> {"member"}]}

MCScales == {2 ^ k : k \in 0 .. 10}

(***************************************************************************)
(* splitAmount keeps no state, so TLC evaluates it before the run: with    *)
(* numbers of 5 bits, every amount below 2^5 in up to 12 parts.            *)
(***************************************************************************)
ASSUME SplitsAreFair ==
    \A totalCents \in 0 .. Significands - 1, parts \in 1 .. 12 :
        /\ splitAmount(totalCents, parts) # {}
        /\ \A shares \in splitAmount(totalCents, parts) : IsFairSplit(shares, totalCents, parts)
=============================================================================
