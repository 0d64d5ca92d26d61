-------------------------- MODULE MCBookingsStores --------------------------
EXTENDS BookingsStores

MCMaxIds == [halls |-> 2, bookings |-> 3]

\* Dates and users are only compared for equality.
Symmetry == Permutations(Dates) \cup Permutations(Callers)

(***************************************************************************)
(* Counting gives the sums and the lists that adding up and sorting give,  *)
(* for every set of up to four rows: TLC evaluates this before the run.    *)
(***************************************************************************)
ASSUME QueriesCountRight ==
    \A rows \in SUBSET (1 .. 4) :
        /\ \A amount \in [rows -> 0 .. 2] : SumOf(rows, amount) = SumFunctionOnSet(amount, rows)
        /\ \A key \in [rows -> 1 .. 5] :
              IsInjective(key) =>
                  OrderedBy(rows, key) = SetToSortSeq(rows, LAMBDA x, y : key[x] < key[y])
=============================================================================
