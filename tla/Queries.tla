------------------------------- MODULE Queries -------------------------------
(***************************************************************************)
(* What SQL's SUM and ORDER BY, and the array methods that stand in for    *)
(* them, make of a finite set of rows.  Stated by counting, so that one    *)
(* answer over two different representations can be compared by a          *)
(* bijection between them.                                                 *)
(***************************************************************************)
EXTENDS Integers, FiniteSets

\* The sum of amount[x] over the rows x: each row stands for as many units.
SumOf(rows, amount) == Cardinality(UNION {{x} \X (1 .. amount[x]) : x \in rows})

\* The rows as a list, smallest key first: k - 1 rows come before the k-th.
OrderedBy(rows, key) ==
    [k \in 1 .. Cardinality(rows) |->
        CHOOSE x \in rows : Cardinality({y \in rows : key[y] < key[x]}) = k - 1]
=============================================================================
