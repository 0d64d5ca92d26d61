---------------------------- MODULE TestDatabase ----------------------------
(***************************************************************************)
(* The test database of `npm run test:integration` over many runs: each    *)
(* run migrates it (runSqlFiles), records which rows are seeds             *)
(* (recordSeededRows), and then every test starts with resetDatabase().    *)
(* A container kept between runs (TESTCONTAINERS_REUSE_ENABLE) carries the *)
(* rows of one run into the next; any run may be interrupted anywhere.     *)
(*                                                                         *)
(* pc is where the one Jest worker (maxWorkers: 1) is:                     *)
(*   down -> migrate -> record -> between                                  *)
(*   between -> connect -> read -> uncheck -> first -> second -> check     *)
(*           -> clean -> body -> between           (one test)              *)
(*                                                                         *)
(* A row is its id, 1 .. AutoId; AutoId stands for all the rows the server *)
(* numbers itself after the migrations, so for any id above the seeds.     *)
(***************************************************************************)
EXTENDS Integers, Sequences, FiniteSets

CONSTANTS TableOrder,  \* the base tables in the order information_schema lists them
          KeepTables,  \* project.ts keepTables: the migration ledgers
          IdColumn,    \* the id column of each table: "number", "text" or "none"
          Audits,      \* the tables a DELETE trigger of a table writes a row to
          Seeds,       \* for each SQL file, in name order, the rows it inserts into each table
          AutoId,      \* the rows the server numbers itself
          Conns        \* the connections of testDb()'s pool (connectionLimit)

Tables == {TableOrder[i] : i \in 1 .. Len(TableOrder)}
Ids    == 1 .. AutoId

ASSUME TestDatabaseAssumption ==
    /\ TableOrder \in Seq(Tables)
    /\ \A i, j \in 1 .. Len(TableOrder) : TableOrder[i] = TableOrder[j] => i = j
    /\ TableOrder # <<>>
    /\ KeepTables \subseteq Tables
    /\ IdColumn \in [Tables -> {"number", "text", "none"}]
    /\ Audits \in [Tables -> SUBSET Tables]
    /\ AutoId \in Nat \ {0}
    /\ Seeds \in Seq([Tables -> SUBSET (1 .. AutoId - 1)])
    /\ Seeds # <<>>
    /\ Conns # {}

VARIABLES pc,        \* where the run is
          files,     \* how many of the SQL files exist by now
          at,        \* the next file or table of a loop
          rows,      \* the rows of each table
          seeded,    \* test_kit_seed: the highest seeded id of each table, 0 where it has none
          recorded,  \* whether test_kit_seed has its row
          pool,      \* each connection: taken, and whether its session checks foreign keys
          mine,      \* the connection resetDatabase took
          threw,     \* an error is on its way through resetDatabase's finally
          migrated,  \* history: the rows the migrations inserted
          fresh      \* history: the rows that were in the tables when they were recorded

vars == <<pc, files, at, rows, seeded, recorded, pool, mine, threw, migrated, fresh>>

database == <<rows, seeded, recorded, migrated, fresh>>

Resetting == {"read", "uncheck", "first", "second"}
Steps     == Resetting \cup {"down", "migrate", "record", "between", "connect",
                             "check", "clean", "body"}
NewConn   == [taken |-> FALSE, checks |-> TRUE]
NewPool   == [c \in Conns |-> NewConn]
NoRows    == [t \in Tables |-> {}]

TypeOK ==
    /\ pc \in Steps
    /\ files \in 1 .. Len(Seeds)
    /\ at \in 1 .. Len(Seeds) + Len(TableOrder)
    /\ pc = "migrate" => at <= files
    /\ pc \in {"first", "second"} => at <= Len(TableOrder)
    /\ rows \in [Tables -> SUBSET Ids]
    /\ seeded \in [Tables -> 0 .. AutoId]
    /\ recorded \in BOOLEAN
    /\ pool \in [Conns -> [taken: BOOLEAN, checks: BOOLEAN]]
    /\ mine \in Conns
    /\ threw \in BOOLEAN
    /\ migrated \in [Tables -> SUBSET (1 .. AutoId - 1)]
    /\ fresh \in [Tables -> SUBSET Ids]

Init ==
    /\ pc = "down"
    /\ files \in 1 .. Len(Seeds)
    /\ at = 1
    /\ rows = NoRows
    /\ seeded = [t \in Tables |-> 0]
    /\ recorded = FALSE
    /\ pool = NewPool
    /\ mine = CHOOSE c \in Conns : TRUE
    /\ threw = FALSE
    /\ migrated = NoRows
    /\ fresh = NoRows

-----------------------------------------------------------------------------
(***************************************************************************)
(* The run: containers, migrations, and what each test file leaves.        *)
(***************************************************************************)
\* A kept container has the database of the run before; any other starts empty.
StartMySql(kept) ==
    /\ pc = "down"
    /\ pc' = "migrate"
    /\ at' = 1
    /\ IF kept
       THEN UNCHANGED database
       ELSE /\ rows' = NoRows
            /\ seeded' = [t \in Tables |-> 0]
            /\ recorded' = FALSE
            /\ migrated' = NoRows
            /\ fresh' = NoRows
    /\ pool' = NewPool
    /\ threw' = FALSE
    /\ UNCHANGED <<files, mine>>

\* The next file of runSqlFiles.  Files are re-runnable: what they inserted before, they leave.
RunSqlFile ==
    /\ pc = "migrate"
    /\ rows' = [t \in Tables |-> rows[t] \cup Seeds[at][t]]
    /\ migrated' = [t \in Tables |-> migrated[t] \cup Seeds[at][t]]
    /\ IF at < files
       THEN at' = at + 1 /\ pc' = pc
       ELSE at' = 1 /\ pc' = "record"
    /\ UNCHANGED <<files, seeded, recorded, pool, mine, threw, fresh>>

\* SELECT MAX(id) of a table that has an id column, rows, and is no ledger.
IsSeedOf(t, n) ==
    IF t \in KeepTables \/ IdColumn[t] = "none" \/ rows[t] = {}
    THEN n = 0
    ELSE n \in rows[t] /\ \A id \in rows[t] : id <= n

SaveSeeds ==
    /\ fresh' = rows
    /\ \E ranges \in [Tables -> 0 .. AutoId] :
          /\ \A t \in Tables : IsSeedOf(t, ranges[t])
          /\ seeded' = ranges

\* Mutant: recorded anew in every run.
RecordAlways ==
    /\ pc = "record"
    /\ pc' = "between"
    /\ SaveSeeds
    /\ recorded' = TRUE
    /\ UNCHANGED <<files, at, rows, pool, mine, threw, migrated>>

\* The single INSERT is what counts: a run interrupted before it records nothing.
RecordSeededRows ==
    /\ pc = "record"
    /\ pc' = "between"
    /\ IF recorded THEN UNCHANGED <<seeded, fresh>> ELSE SaveSeeds
    /\ recorded' = TRUE
    /\ UNCHANGED <<files, at, rows, pool, mine, threw, migrated>>

\* closeTestDb() after each test file: the next one makes a pool of its own.
CloseTestDb ==
    /\ pc = "between"
    /\ pool' = NewPool
    /\ UNCHANGED <<pc, files, at, mine, threw, database>>

\* The run ends, is killed, or globalSetup throws.  What is in the database stays there.
EndRun ==
    /\ pc # "down"
    /\ pc' = "down"
    /\ at' = 1
    /\ threw' = FALSE
    /\ pool' = NewPool
    /\ UNCHANGED <<files, mine, database>>

\* Between runs somebody adds a migration.
AddSqlFile ==
    /\ pc = "down"
    /\ files < Len(Seeds)
    /\ files' = files + 1
    /\ UNCHANGED <<pc, at, pool, mine, threw, database>>

-----------------------------------------------------------------------------
(***************************************************************************)
(* resetDatabase(), one action per await.                                  *)
(***************************************************************************)
BeforeEach ==
    /\ pc = "between"
    /\ pc' = "connect"
    /\ UNCHANGED <<files, at, pool, mine, threw, database>>

GetConnection(c) ==
    /\ pc = "connect"
    /\ ~ pool[c].taken
    /\ pool' = [pool EXCEPT ![c].taken = TRUE]
    /\ mine' = c
    /\ pc' = "read"
    /\ UNCHANGED <<files, at, threw, database>>

\* getConnection rejects, or none is free and the hook times out: Jest fails the test
\* without running it.
GetNoConnection ==
    /\ pc = "connect"
    /\ pc' = "between"
    /\ UNCHANGED <<files, at, pool, mine, threw, database>>

\* Both SELECTs: no other writer of test_kit_seed or of the schema runs by then.
ReadSeedsAndTables ==
    /\ pc = "read"
    /\ pc' = "uncheck"
    /\ UNCHANGED <<files, at, pool, mine, threw, database>>

\* SET FOREIGN_KEY_CHECKS = 0, of this session.
UncheckForeignKeys ==
    /\ pc = "uncheck"
    /\ pool' = [pool EXCEPT ![mine].checks = FALSE]
    /\ pc' = "first"
    /\ at' = 1
    /\ UNCHANGED <<files, mine, threw, database>>

\* The rows after a DELETE, the rows its triggers write among them.
After(t, gone) ==
    [u \in Tables |->
        (IF u = t THEN rows[u] \ gone ELSE rows[u])
           \cup (IF gone # {} /\ u \in Audits[t] THEN {AutoId} ELSE {})]

\* Mutant: the comparison with the seed takes the seed itself.
AboveOrAt(t) == {id \in rows[t] : IdColumn[t] = "number" /\ id >= seeded[t]}

\* WHERE id > ?.  Of an id that is no number, Number() makes NaN and JSON null, and no id
\* is above NULL.
AboveSeeds(t) == {id \in rows[t] : IdColumn[t] = "number" /\ id > seeded[t]}

Trim(t) ==
    CASE t \in KeepTables -> {}
      [] t \notin KeepTables /\ seeded[t] # 0 -> AboveSeeds(t)
      [] OTHER -> rows[t]

Advance(next) ==
    IF at < Len(TableOrder)
    THEN at' = at + 1 /\ pc' = pc
    ELSE at' = 1 /\ pc' = next

DeleteInFirstPass ==
    /\ pc = "first"
    /\ rows' = After(TableOrder[at], Trim(TableOrder[at]))
    /\ Advance("second")
    /\ UNCHANGED <<files, seeded, recorded, pool, mine, threw, migrated, fresh>>

\* Mutant: one pass is enough.
SkipSecondPass ==
    /\ pc = "second"
    /\ Advance("check")
    /\ UNCHANGED <<files, pool, mine, threw, database>>

DeleteInSecondPass ==
    /\ pc = "second"
    /\ LET t == TableOrder[at]
       IN  rows' = IF t \in KeepTables \/ seeded[t] # 0 THEN rows ELSE After(t, rows[t])
    /\ Advance("check")
    /\ UNCHANGED <<files, seeded, recorded, pool, mine, threw, migrated, fresh>>

\* Mutant: the connection goes back as it is.
ReleaseOnly ==
    /\ pc = "check"
    /\ pool' = [pool EXCEPT ![mine].taken = FALSE]
    /\ threw' = FALSE
    /\ pc' = IF threw THEN "between" ELSE "clean"
    /\ UNCHANGED <<files, at, mine, database>>

\* The finally: checks on again, then the connection is released.
CheckAndRelease ==
    /\ pc = "check"
    /\ pool' = [pool EXCEPT ![mine] = NewConn]
    /\ threw' = FALSE
    /\ pc' = IF threw THEN "between" ELSE "clean"
    /\ UNCHANGED <<files, at, mine, database>>

\* A statement of the try is refused.
StatementFails ==
    /\ pc \in Resetting
    /\ pc' = "check"
    /\ at' = 1
    /\ threw' = TRUE
    /\ UNCHANGED <<files, pool, mine, database>>

\* SET FOREIGN_KEY_CHECKS = 1 is refused: release() is not reached.
CheckFails ==
    /\ pc = "check"
    /\ pc' = "between"
    /\ threw' = FALSE
    /\ UNCHANGED <<files, at, pool, mine, database>>

\* The connection breaks: the pool replaces it, and every statement that is left rejects.
ConnectionBreaks ==
    /\ pc \in Resetting \cup {"check"}
    /\ pool' = [pool EXCEPT ![mine] = NewConn]
    /\ pc' = "between"
    /\ at' = 1
    /\ threw' = FALSE
    /\ UNCHANGED <<files, mine, database>>

-----------------------------------------------------------------------------
(***************************************************************************)
(* The test.  Tests create rows, with ids of their own choice or the       *)
(* server's, and do not edit seeded ones.                                  *)
(***************************************************************************)
TestInserts(t, id) ==
    /\ pc \in {"clean", "body"}
    /\ t \notin KeepTables
    /\ id \notin rows[t] \cup migrated[t]
    /\ rows' = [rows EXCEPT ![t] = @ \cup {id}]
    /\ pc' = "body"
    /\ UNCHANGED <<files, at, seeded, recorded, pool, mine, threw, migrated, fresh>>

EndTest ==
    /\ pc \in {"clean", "body"}
    /\ pc' = "between"
    /\ UNCHANGED <<files, at, pool, mine, threw, database>>

-----------------------------------------------------------------------------
Reset ==
    \/ \E c \in Conns : GetConnection(c)
    \/ GetNoConnection
    \/ ReadSeedsAndTables
    \/ UncheckForeignKeys
    \/ DeleteInFirstPass
    \/ DeleteInSecondPass
    \/ CheckAndRelease
    \/ StatementFails
    \/ CheckFails
    \/ ConnectionBreaks

Next ==
    \/ \E kept \in BOOLEAN : StartMySql(kept)
    \/ RunSqlFile
    \/ RecordSeededRows
    \/ CloseTestDb
    \/ EndRun
    \/ AddSqlFile
    \/ BeforeEach
    \/ Reset
    \/ \E t \in Tables, id \in Ids : TestInserts(t, id)
    \/ EndTest

Spec == Init /\ [][Next]_vars

-----------------------------------------------------------------------------
\* A migration wrote it after the seeds of this database were recorded.
SeededLater(t, id) == id \in migrated[t] \ fresh[t]

\* A table that is trimmed gets a row when another is emptied after it; one that is emptied
\* gets one in the second pass when its writer was written to in the first.
TriggersMayWrite(t) ==
    \E u \in Tables :
       /\ t \in Audits[u]
       /\ seeded[t] # 0 \/ \E v \in Tables : u \in Audits[v]

MayBeMissing(t, id) == IdColumn[t] = "none" \/ SeededLater(t, id)

MayBeLeft(t, id) ==
    \/ IdColumn[t] = "text" /\ fresh[t] # {}
    \/ IdColumn[t] = "number" /\ \E above \in fresh[t] : id < above
    \/ id = AutoId /\ TriggersMayWrite(t)

\* resetDatabase "puts the database back to how the migrations left it": where a test starts
\* with a table in any other state, it is for one of the causes named here, and for no
\* interrupted run, failed reset, broken connection or row of an earlier run or test.  The
\* causes: seeds of a table without an id column, seeds of a migration added while the
\* container is kept; rows of a seeded table whose ids are no numbers, rows with an id
\* between two seeds, and rows triggers write while the reset itself deletes.
LeftoverIsExplained ==
    pc = "clean" =>
       \A t \in Tables \ KeepTables :
          /\ \A id \in migrated[t] \ rows[t] : MayBeMissing(t, id)
          /\ \A id \in rows[t] \ migrated[t] : MayBeLeft(t, id)

\* What test_kit_seed says is a seed was inserted by a migration, on a container kept over any
\* number of runs too: rows that tests left are never taken for seeds.
OnlySeedsAreRecorded ==
    \A t \in Tables : seeded[t] # 0 => seeded[t] \in migrated[t]

\* "Seeded rows are kept": from the moment they are recorded, no reset deletes them, wherever it
\* is interrupted (of the tables that have an id column; of the ledgers whatever they have).
SeededRowsAreKept ==
    recorded =>
       \A t \in Tables : IdColumn[t] # "none" \/ t \in KeepTables => fresh[t] \subseteq rows[t]

\* A connection that anyone can get from the pool checks foreign keys: the setting is the
\* session's and would let the code under test write what production refuses.
FreeSessionsCheckForeignKeys ==
    \A c \in Conns : ~ pool[c].taken => pool[c].checks

=============================================================================
