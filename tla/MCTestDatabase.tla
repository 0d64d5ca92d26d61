--------------------------- MODULE MCTestDatabase ---------------------------
(***************************************************************************)
(* A schema with one table of each kind.  Triggers: deleting a user writes *)
(* a log row, deleting a log row writes an archive row.                    *)
(* The second migration adds a log row and a right.                        *)
(***************************************************************************)
EXTENDS TestDatabase

CONSTANTS archive, codes, ledger, log, rights, users

MCTableOrder == <<archive, codes, ledger, log, rights, users>>
MCKeepTables == {ledger}
MCIdColumn   == [t \in Tables |-> CASE t = codes -> "text" [] t = rights -> "none"
                                    [] OTHER -> "number"]
MCAudits     == [t \in Tables |-> CASE t = users -> {log} [] t = log -> {archive}
                                    [] OTHER -> {}]
MCSeeds      == << [t \in Tables |-> CASE t = users -> {2} [] t \in {codes, ledger} -> {1}
                                       [] OTHER -> {}],
                   [t \in Tables |-> IF t \in {log, rights} THEN {1} ELSE {}] >>
=============================================================================
