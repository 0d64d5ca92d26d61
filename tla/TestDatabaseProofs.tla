------------------------- MODULE TestDatabaseProofs -------------------------
(***************************************************************************)
(* What holds of the test database for every schema, every series of       *)
(* migrations and every size of the pool.                                  *)
(***************************************************************************)
EXTENDS TestDatabase, TLAPS

\* The constants, in the form the steps below use them.
LEMMA Shape ==
    /\ Len(Seeds) \in Nat /\ Len(Seeds) >= 1
    /\ Len(TableOrder) \in Nat /\ Len(TableOrder) >= 1
    /\ \A i \in 1 .. Len(TableOrder) : TableOrder[i] \in Tables
    /\ \A i \in 1 .. Len(Seeds) : Seeds[i] \in [Tables -> SUBSET (1 .. AutoId - 1)]
    /\ AutoId \in Ids
    /\ 1 .. AutoId - 1 \subseteq Ids
  <1>1. Seeds \in Seq([Tables -> SUBSET (1 .. AutoId - 1)]) /\ Seeds # <<>>
    BY TestDatabaseAssumption
  <1>2. /\ Len(Seeds) \in Nat /\ Len(Seeds) >= 1
        /\ \A i \in 1 .. Len(Seeds) : Seeds[i] \in [Tables -> SUBSET (1 .. AutoId - 1)]
    BY <1>1
  <1>3. TableOrder \in Seq(Tables) /\ TableOrder # <<>>
    BY TestDatabaseAssumption
  <1>4. /\ Len(TableOrder) \in Nat /\ Len(TableOrder) >= 1
        /\ \A i \in 1 .. Len(TableOrder) : TableOrder[i] \in Tables
    BY <1>3
  <1>5. AutoId \in Ids /\ 1 .. AutoId - 1 \subseteq Ids
    BY TestDatabaseAssumption DEF Ids
  <1> QED
    BY <1>2, <1>4, <1>5

LEMMA TypeInit == Init => TypeOK
  <1> SUFFICES ASSUME Init PROVE TypeOK
    OBVIOUS
  <1>1. files \in 1 .. Len(Seeds) /\ at = 1 /\ 1 \in 1 .. Len(Seeds) + Len(TableOrder)
    BY Shape DEF Init
  <1>2. rows \in [Tables -> SUBSET Ids] /\ migrated \in [Tables -> SUBSET (1 .. AutoId - 1)]
        /\ fresh \in [Tables -> SUBSET Ids]
    BY DEF Init, NoRows
  <1>3. seeded \in [Tables -> 0 .. AutoId]
    BY TestDatabaseAssumption DEF Init
  <1>4. pool \in [Conns -> [taken: BOOLEAN, checks: BOOLEAN]]
    BY DEF Init, NewPool, NewConn
  <1>5. mine \in Conns
    BY TestDatabaseAssumption DEF Init
  <1> QED
    BY <1>1, <1>2, <1>3, <1>4, <1>5 DEF Init, TypeOK, Steps, Resetting

\* A pool of new connections, and a pool with one connection changed, is a pool.
LEMMA PoolTypes ==
    ASSUME TypeOK, NEW c \in Conns
    PROVE  /\ NewPool \in [Conns -> [taken: BOOLEAN, checks: BOOLEAN]]
           /\ [pool EXCEPT ![c] = NewConn] \in [Conns -> [taken: BOOLEAN, checks: BOOLEAN]]
           /\ [pool EXCEPT ![c].taken = TRUE] \in [Conns -> [taken: BOOLEAN, checks: BOOLEAN]]
           /\ [pool EXCEPT ![c].checks = FALSE] \in [Conns -> [taken: BOOLEAN, checks: BOOLEAN]]
  BY DEF TypeOK, NewPool, NewConn

\* What a DELETE takes from a table, and what it leaves of every table.
LEMMA AfterDelete ==
    ASSUME TypeOK, NEW t \in Tables, NEW gone \in SUBSET Ids
    PROVE  /\ After(t, gone) \in [Tables -> SUBSET Ids]
           /\ \A u \in Tables : rows[u] \ gone \subseteq After(t, gone)[u]
           /\ \A u \in Tables : u # t => rows[u] \subseteq After(t, gone)[u]
  BY Shape DEF TypeOK, After

LEMMA TrimTypes ==
    ASSUME TypeOK, NEW t \in Tables
    PROVE  Trim(t) \in SUBSET Ids
  <1>1. rows[t] \in SUBSET Ids /\ AboveSeeds(t) \in SUBSET Ids
    BY DEF TypeOK, AboveSeeds
  <1>2. CASE t \in KeepTables
    BY <1>2 DEF Trim
  <1>3. CASE t \notin KeepTables /\ seeded[t] # 0
    BY <1>1, <1>3 DEF Trim
  <1>4. CASE t \notin KeepTables /\ seeded[t] = 0
    BY <1>1, <1>4 DEF Trim
  <1> QED
    BY <1>2, <1>3, <1>4

LEMMA TypeStep == TypeOK /\ [Next]_vars => TypeOK'
  <1> SUFFICES ASSUME TypeOK, [Next]_vars PROVE TypeOK'
    OBVIOUS
  <1> USE Shape
  <1>0. mine \in Conns
    BY DEF TypeOK
  <1>a. 1 \in 1 .. Len(Seeds) + Len(TableOrder) /\ 1 <= files /\ 1 <= Len(TableOrder)
    BY DEF TypeOK
  <1>1. CASE UNCHANGED vars
    BY <1>1 DEF vars, TypeOK
  <1>2. ASSUME NEW kept \in BOOLEAN, StartMySql(kept) PROVE TypeOK'
    <2>1. /\ pool' \in [Conns -> [taken: BOOLEAN, checks: BOOLEAN]]
          /\ pc' = "migrate" /\ at' = 1 /\ files' = files /\ mine' = mine /\ threw' = FALSE
      BY <1>2, PoolTypes, <1>0 DEF StartMySql
    <2>2. /\ rows' \in [Tables -> SUBSET Ids] /\ seeded' \in [Tables -> 0 .. AutoId]
          /\ recorded' \in BOOLEAN /\ fresh' \in [Tables -> SUBSET Ids]
          /\ migrated' \in [Tables -> SUBSET (1 .. AutoId - 1)]
      <3>1. CASE kept
        BY <1>2, <3>1 DEF StartMySql, database, TypeOK
      <3>2. CASE ~ kept
        <4>1. NoRows \in [Tables -> SUBSET Ids]
              /\ NoRows \in [Tables -> SUBSET (1 .. AutoId - 1)]
          BY DEF NoRows
        <4>2. [t \in Tables |-> 0] \in [Tables -> 0 .. AutoId]
          BY TestDatabaseAssumption
        <4> QED
          BY <1>2, <3>2, <4>1, <4>2 DEF StartMySql
      <3> QED
        BY <3>1, <3>2
    <2> QED
      BY <1>a, <2>1, <2>2 DEF TypeOK, Steps, Resetting
  <1>3. CASE RunSqlFile
    <2>1. at \in 1 .. Len(Seeds)
      BY <1>3 DEF RunSqlFile, TypeOK
    <2>2. Seeds[at] \in [Tables -> SUBSET (1 .. AutoId - 1)]
      BY <2>1
    <2>3. rows' \in [Tables -> SUBSET Ids] /\ migrated' \in [Tables -> SUBSET (1 .. AutoId - 1)]
      BY <1>3, <2>2 DEF RunSqlFile, TypeOK, Ids
    <2>4. at' \in 1 .. Len(Seeds) + Len(TableOrder) /\ pc' \in {"migrate", "record"}
          /\ (pc' = "migrate" => at' <= files)
      BY <1>3 DEF RunSqlFile, TypeOK
    <2> QED
      BY <1>3, <2>3, <2>4 DEF RunSqlFile, TypeOK, Steps, Resetting
  <1>4. CASE RecordSeededRows
    <2>1. seeded' \in [Tables -> 0 .. AutoId] /\ fresh' \in [Tables -> SUBSET Ids]
      BY <1>4 DEF RecordSeededRows, SaveSeeds, TypeOK
    <2> QED
      BY <1>4, <2>1 DEF RecordSeededRows, TypeOK, Steps, Resetting
  <1>5. CASE CloseTestDb
    BY <1>5, PoolTypes, <1>0 DEF CloseTestDb, TypeOK, database
  <1>6. CASE EndRun
    BY <1>6, <1>a, PoolTypes, <1>0 DEF EndRun, TypeOK, database, Steps, Resetting
  <1>7. CASE AddSqlFile
    BY <1>7 DEF AddSqlFile, TypeOK, database
  <1>8. CASE BeforeEach
    BY <1>8 DEF BeforeEach, TypeOK, database, Steps, Resetting
  <1>9. ASSUME NEW c \in Conns, GetConnection(c) PROVE TypeOK'
    BY <1>9, PoolTypes, <1>0 DEF GetConnection, TypeOK, database, Steps, Resetting
  <1>10. CASE GetNoConnection
    BY <1>10 DEF GetNoConnection, TypeOK, database, Steps, Resetting
  <1>11. CASE ReadSeedsAndTables
    BY <1>11 DEF ReadSeedsAndTables, TypeOK, database, Steps, Resetting
  <1>12. CASE UncheckForeignKeys
    <2>1. pool' \in [Conns -> [taken: BOOLEAN, checks: BOOLEAN]]
      BY <1>12, PoolTypes, <1>0 DEF UncheckForeignKeys, TypeOK
    <2> QED
      BY <1>12, <2>1 DEF UncheckForeignKeys, TypeOK, database, Steps, Resetting
  <1>13. CASE DeleteInFirstPass
    <2>1. TableOrder[at] \in Tables
      BY <1>13 DEF DeleteInFirstPass, TypeOK
    <2>2. rows' \in [Tables -> SUBSET Ids]
      BY <1>13, <2>1, AfterDelete, TrimTypes DEF DeleteInFirstPass
    <2>3. /\ at' \in 1 .. Len(Seeds) + Len(TableOrder)
          /\ pc' \in {"first", "second"} /\ at' <= Len(TableOrder)
      BY <1>13 DEF DeleteInFirstPass, Advance, TypeOK
    <2> QED
      BY <1>13, <2>2, <2>3 DEF DeleteInFirstPass, TypeOK, Steps, Resetting
  <1>14. CASE DeleteInSecondPass
    <2>1. TableOrder[at] \in Tables
      BY <1>14 DEF DeleteInSecondPass, TypeOK
    <2>2. rows[TableOrder[at]] \in SUBSET Ids
      BY <2>1 DEF TypeOK
    <2>3. After(TableOrder[at], rows[TableOrder[at]]) \in [Tables -> SUBSET Ids]
      BY <2>1, <2>2, AfterDelete
    <2>4. rows' \in [Tables -> SUBSET Ids]
      BY <1>14, <2>3 DEF DeleteInSecondPass, TypeOK
    <2>5. /\ at' \in 1 .. Len(Seeds) + Len(TableOrder)
          /\ pc' \in {"second", "check"} /\ at' <= Len(TableOrder)
      BY <1>14 DEF DeleteInSecondPass, Advance, TypeOK
    <2> QED
      BY <1>14, <2>4, <2>5 DEF DeleteInSecondPass, TypeOK, Steps, Resetting
  <1>15. CASE CheckAndRelease
    <2>1. pool' \in [Conns -> [taken: BOOLEAN, checks: BOOLEAN]]
      BY <1>15, PoolTypes, <1>0 DEF CheckAndRelease, TypeOK
    <2> QED
      BY <1>15, <2>1 DEF CheckAndRelease, TypeOK, database, Steps, Resetting
  <1>16. CASE StatementFails
    BY <1>16 DEF StatementFails, TypeOK, database, Steps, Resetting
  <1>17. CASE CheckFails
    BY <1>17 DEF CheckFails, TypeOK, database, Steps, Resetting
  <1>18. CASE ConnectionBreaks
    <2>1. pool' \in [Conns -> [taken: BOOLEAN, checks: BOOLEAN]]
      BY <1>18, PoolTypes, <1>0 DEF ConnectionBreaks, TypeOK
    <2> QED
      BY <1>18, <1>a, <2>1 DEF ConnectionBreaks, TypeOK, database, Steps, Resetting
  <1>19. ASSUME NEW t \in Tables, NEW id \in Ids, TestInserts(t, id) PROVE TypeOK'
    <2>1. rows' \in [Tables -> SUBSET Ids]
      BY <1>19 DEF TestInserts, TypeOK
    <2> QED
      BY <1>19, <2>1 DEF TestInserts, TypeOK, Steps, Resetting
  <1>20. CASE EndTest
    BY <1>20 DEF EndTest, TypeOK, database, Steps, Resetting
  <1> QED
    BY <1>1, <1>2, <1>3, <1>4, <1>5, <1>6, <1>7, <1>8, <1>9, <1>10, <1>11, <1>12, <1>13, <1>14,
       <1>15, <1>16, <1>17, <1>18, <1>19, <1>20
    DEF Next, Reset

\* The types of the test database, for every schema.
THEOREM TypeCorrect == Spec => []TypeOK
  BY TypeInit, TypeStep, PTL DEF Spec

-----------------------------------------------------------------------------
(***************************************************************************)
(* Sessions.  From getConnection to the finally the reset holds its        *)
(* connection, so a session that does not check is never a free one.       *)
(***************************************************************************)
PoolInv ==
    /\ pc \in Resetting \cup {"check"} => pool[mine].taken
    /\ FreeSessionsCheckForeignKeys

LEMMA PoolInit == Init => PoolInv
  BY DEF Init, PoolInv, FreeSessionsCheckForeignKeys, Resetting, NewPool, NewConn

LEMMA PoolStep == TypeOK /\ PoolInv /\ [Next]_vars => PoolInv'
  <1> SUFFICES ASSUME TypeOK, PoolInv, [Next]_vars PROVE PoolInv'
    OBVIOUS
  <1> USE DEF PoolInv, FreeSessionsCheckForeignKeys, Resetting
  <1>0. mine \in Conns /\ pool \in [Conns -> [taken: BOOLEAN, checks: BOOLEAN]]
    BY DEF TypeOK
  <1>1. CASE UNCHANGED vars
    BY <1>1 DEF vars
  <1>2. ASSUME NEW kept \in BOOLEAN, StartMySql(kept) PROVE PoolInv'
    BY <1>2 DEF StartMySql, NewPool, NewConn
  <1>3. CASE RunSqlFile
    BY <1>3 DEF RunSqlFile
  <1>4. CASE RecordSeededRows
    BY <1>4 DEF RecordSeededRows
  <1>5. CASE CloseTestDb
    BY <1>5 DEF CloseTestDb, NewPool, NewConn
  <1>6. CASE EndRun
    BY <1>6 DEF EndRun, NewPool, NewConn
  <1>7. CASE AddSqlFile
    BY <1>7 DEF AddSqlFile
  <1>8. CASE BeforeEach
    BY <1>8 DEF BeforeEach
  <1>9. ASSUME NEW c \in Conns, GetConnection(c) PROVE PoolInv'
    BY <1>0, <1>9 DEF GetConnection
  <1>10. CASE GetNoConnection
    BY <1>10 DEF GetNoConnection
  <1>11. CASE ReadSeedsAndTables
    BY <1>11 DEF ReadSeedsAndTables
  <1>12. CASE UncheckForeignKeys
    BY <1>0, <1>12 DEF UncheckForeignKeys
  <1>13. CASE DeleteInFirstPass
    BY <1>13 DEF DeleteInFirstPass, Advance
  <1>14. CASE DeleteInSecondPass
    BY <1>14 DEF DeleteInSecondPass, Advance
  <1>15. CASE CheckAndRelease
    BY <1>0, <1>15 DEF CheckAndRelease, NewConn
  <1>16. CASE StatementFails
    BY <1>16 DEF StatementFails
  <1>17. CASE CheckFails
    BY <1>17 DEF CheckFails
  <1>18. CASE ConnectionBreaks
    BY <1>0, <1>18 DEF ConnectionBreaks, NewConn
  <1>19. ASSUME NEW t \in Tables, NEW id \in Ids, TestInserts(t, id) PROVE PoolInv'
    BY <1>19 DEF TestInserts
  <1>20. CASE EndTest
    BY <1>20 DEF EndTest
  <1> QED
    BY <1>1, <1>2, <1>3, <1>4, <1>5, <1>6, <1>7, <1>8, <1>9, <1>10, <1>11, <1>12, <1>13, <1>14,
       <1>15, <1>16, <1>17, <1>18, <1>19, <1>20
    DEF Next, Reset

\* Whatever fails in a reset, a connection that can be taken from the pool checks foreign keys.
THEOREM FreeSessionsCheck == Spec => []FreeSessionsCheckForeignKeys
  <1>1. PoolInv => FreeSessionsCheckForeignKeys
    BY DEF PoolInv
  <1> QED
    BY <1>1, TypeInit, TypeStep, PoolInit, PoolStep, PTL DEF Spec

-----------------------------------------------------------------------------
(***************************************************************************)
(* Seeds.  Until they are recorded only the migrations have written, and   *)
(* no reset runs; from then on what was recorded does not change and lies  *)
(* at or below the id that test_kit_seed has for its table.                *)
(***************************************************************************)
BeforeRecording ==
    /\ pc \in {"down", "migrate", "record"}
    /\ \A t \in Tables : rows[t] = migrated[t] /\ seeded[t] = 0

HighestOf(t) ==
    IF t \in KeepTables \/ IdColumn[t] = "none" \/ fresh[t] = {}
    THEN seeded[t] = 0
    ELSE seeded[t] \in fresh[t] /\ \A id \in fresh[t] : id <= seeded[t]

Kept(t) == IdColumn[t] # "none" \/ t \in KeepTables => fresh[t] \subseteq rows[t]

SeedInv ==
    /\ ~ recorded => BeforeRecording
    /\ recorded => \A t \in Tables : fresh[t] \subseteq migrated[t] /\ HighestOf(t) /\ Kept(t)

LEMMA SeedInit == Init => SeedInv
  BY DEF Init, SeedInv, BeforeRecording, NoRows

\* A step that leaves the records alone and takes no recorded row away keeps the invariant.
LEMMA SeedsKept ==
    ASSUME TypeOK, SeedInv,
           recorded,
           UNCHANGED <<seeded, recorded, fresh>>,
           \A t \in Tables : migrated[t] \subseteq migrated'[t],
           \A t \in Tables : Kept(t) => Kept(t)'
    PROVE  SeedInv'
  BY DEF SeedInv, HighestOf

\* The first pass takes no recorded row: a table with a seed loses what is above it only.
LEMMA TrimSparesSeeds ==
    ASSUME TypeOK, SeedInv, recorded, NEW t \in Tables,
           IdColumn[t] # "none" \/ t \in KeepTables
    PROVE  fresh[t] \cap Trim(t) = {}
  <1>1. HighestOf(t) /\ seeded[t] \in 0 .. AutoId /\ fresh[t] \subseteq Ids /\ rows[t] \subseteq Ids
    BY DEF SeedInv, TypeOK
  <1>2. CASE t \in KeepTables
    BY <1>2 DEF Trim
  <1>3. CASE t \notin KeepTables /\ seeded[t] # 0
    <2>1. \A id \in fresh[t] : id <= seeded[t]
      BY <1>1, <1>3 DEF HighestOf
    <2>2. \A id \in AboveSeeds(t) : id > seeded[t] /\ id \in Ids
      BY <1>1 DEF AboveSeeds
    <2>3. \A id \in Ids : ~ (id <= seeded[t] /\ id > seeded[t])
      BY <1>1, TestDatabaseAssumption DEF Ids
    <2>4. Trim(t) = AboveSeeds(t)
      BY <1>3 DEF Trim
    <2> QED
      BY <1>1, <2>1, <2>2, <2>3, <2>4
  <1>4. CASE t \notin KeepTables /\ seeded[t] = 0
    <2>1. fresh[t] = {}
      BY <1>1, <1>4, TestDatabaseAssumption DEF HighestOf, Ids
    <2> QED
      BY <2>1
  <1> QED
    BY <1>2, <1>3, <1>4

LEMMA SeedStep == TypeOK /\ SeedInv /\ [Next]_vars => SeedInv'
  <1> SUFFICES ASSUME TypeOK, SeedInv, [Next]_vars PROVE SeedInv'
    OBVIOUS
  \* Most steps leave the database alone.
  <1>0. ASSUME UNCHANGED database, ~ recorded => pc' \in {"down", "migrate", "record"}
        PROVE  SeedInv'
    BY <1>0 DEF SeedInv, BeforeRecording, HighestOf, Kept, database
  <1>1. CASE UNCHANGED vars
    BY <1>0, <1>1 DEF vars, database, SeedInv, BeforeRecording
  <1>2. ASSUME NEW kept \in BOOLEAN, StartMySql(kept) PROVE SeedInv'
    <2>1. CASE kept
      BY <1>0, <1>2, <2>1 DEF StartMySql
    <2>2. CASE ~ kept
      BY <1>2, <2>2 DEF StartMySql, SeedInv, BeforeRecording, NoRows
    <2> QED
      BY <2>1, <2>2
  <1>3. CASE RunSqlFile
    <2>1. /\ UNCHANGED <<seeded, recorded, fresh>>
          /\ \A t \in Tables : migrated'[t] = migrated[t] \cup Seeds[at][t]
          /\ \A t \in Tables : rows'[t] = rows[t] \cup Seeds[at][t]
          /\ pc' \in {"migrate", "record"}
      BY <1>3 DEF RunSqlFile
    <2>2. CASE recorded
      <3>1. \A t \in Tables : migrated[t] \subseteq migrated'[t] /\ (Kept(t) => Kept(t)')
        BY <2>1 DEF Kept
      <3> QED
        BY <2>1, <2>2, <3>1, SeedsKept
    <2>3. CASE ~ recorded
      BY <2>1, <2>3 DEF SeedInv, BeforeRecording
    <2> QED
      BY <2>2, <2>3
  <1>4. CASE RecordSeededRows
    <2>1. recorded' = TRUE /\ UNCHANGED <<rows, migrated>>
      BY <1>4 DEF RecordSeededRows
    <2>2. CASE recorded
      BY <1>4, <2>1, <2>2 DEF RecordSeededRows, SeedInv, HighestOf, Kept
    <2>3. CASE ~ recorded
      <3>1. fresh' = rows /\ \A t \in Tables : IsSeedOf(t, seeded'[t])
        BY <1>4, <2>3 DEF RecordSeededRows, SaveSeeds
      <3>2. \A t \in Tables : rows[t] = migrated[t]
        BY <2>3 DEF SeedInv, BeforeRecording
      <3>3. ASSUME NEW t \in Tables
            PROVE  fresh'[t] \subseteq migrated'[t] /\ HighestOf(t)' /\ Kept(t)'
        BY <2>1, <3>1, <3>2, <3>3 DEF IsSeedOf, HighestOf, Kept
      <3> QED
        BY <2>1, <3>3 DEF SeedInv
    <2> QED
      BY <2>2, <2>3
  <1>5. CASE CloseTestDb
    BY <1>0, <1>5 DEF CloseTestDb, SeedInv, BeforeRecording
  <1>6. CASE EndRun
    BY <1>0, <1>6 DEF EndRun
  <1>7. CASE AddSqlFile
    BY <1>0, <1>7 DEF AddSqlFile
  <1>8. CASE BeforeEach
    BY <1>0, <1>8 DEF BeforeEach, SeedInv, BeforeRecording
  <1>9. ASSUME NEW c \in Conns, GetConnection(c) PROVE SeedInv'
    BY <1>0, <1>9 DEF GetConnection, SeedInv, BeforeRecording
  <1>10. CASE GetNoConnection
    BY <1>0, <1>10 DEF GetNoConnection, SeedInv, BeforeRecording
  <1>11. CASE ReadSeedsAndTables
    BY <1>0, <1>11 DEF ReadSeedsAndTables, SeedInv, BeforeRecording
  <1>12. CASE UncheckForeignKeys
    BY <1>0, <1>12 DEF UncheckForeignKeys, SeedInv, BeforeRecording
  <1>13. CASE DeleteInFirstPass
    <2> DEFINE t == TableOrder[at]
    <2>1. recorded
      BY <1>13 DEF DeleteInFirstPass, SeedInv, BeforeRecording
    <2>2. t \in Tables /\ Trim(t) \in SUBSET Ids
      BY <1>13, Shape, TrimTypes DEF DeleteInFirstPass, TypeOK
    <2>3. UNCHANGED <<seeded, recorded, migrated, fresh>> /\ rows' = After(t, Trim(t))
      BY <1>13 DEF DeleteInFirstPass
    <2>4. ASSUME NEW u \in Tables, Kept(u) PROVE Kept(u)'
      <3>1. CASE u # t
        BY <2>2, <2>3, <2>4, <3>1, AfterDelete DEF Kept
      <3>2. CASE u = t
        BY <2>1, <2>2, <2>3, <2>4, <3>2, AfterDelete, TrimSparesSeeds DEF Kept
      <3> QED
        BY <3>1, <3>2
    <2> QED
      BY <2>1, <2>3, <2>4, SeedsKept
  <1>14. CASE DeleteInSecondPass
    <2> DEFINE t == TableOrder[at]
    <2>1. recorded
      BY <1>14 DEF DeleteInSecondPass, SeedInv, BeforeRecording
    <2>2. t \in Tables /\ rows[t] \in SUBSET Ids
      BY <1>14, Shape DEF DeleteInSecondPass, TypeOK
    <2>3. /\ UNCHANGED <<seeded, recorded, migrated, fresh>>
          /\ rows' = IF t \in KeepTables \/ seeded[t] # 0 THEN rows ELSE After(t, rows[t])
      BY <1>14 DEF DeleteInSecondPass
    <2>4. ASSUME NEW u \in Tables, Kept(u) PROVE Kept(u)'
      <3>1. CASE u # t
        BY <2>2, <2>3, <2>4, <3>1, AfterDelete DEF Kept
      <3>2. CASE t \in KeepTables \/ seeded[t] # 0
        BY <2>3, <2>4, <3>2 DEF Kept
      <3>3. CASE u = t /\ t \notin KeepTables /\ seeded[t] = 0
        <4>1. HighestOf(t) /\ fresh[t] \subseteq Ids /\ 0 \notin Ids
          BY <2>1, <2>2 DEF SeedInv, TypeOK, Ids
        <4>2. IdColumn[t] = "none" \/ fresh[t] = {}
          BY <3>3, <4>1 DEF HighestOf
        <4> QED
          BY <2>3, <3>3, <4>2 DEF Kept
      <3> QED
        BY <3>1, <3>2, <3>3
    <2> QED
      BY <2>1, <2>3, <2>4, SeedsKept
  <1>15. CASE CheckAndRelease
    BY <1>0, <1>15 DEF CheckAndRelease, SeedInv, BeforeRecording
  <1>16. CASE StatementFails
    BY <1>0, <1>16 DEF StatementFails, SeedInv, BeforeRecording, Resetting
  <1>17. CASE CheckFails
    BY <1>0, <1>17 DEF CheckFails, SeedInv, BeforeRecording
  <1>18. CASE ConnectionBreaks
    BY <1>0, <1>18 DEF ConnectionBreaks, SeedInv, BeforeRecording, Resetting
  <1>19. ASSUME NEW t \in Tables, NEW id \in Ids, TestInserts(t, id) PROVE SeedInv'
    <2>1. recorded /\ UNCHANGED <<seeded, recorded, migrated, fresh>>
      BY <1>19 DEF TestInserts, SeedInv, BeforeRecording
    <2>2. \A u \in Tables : rows[u] \subseteq rows'[u]
      BY <1>19 DEF TestInserts, TypeOK
    <2>3. \A u \in Tables : Kept(u) => Kept(u)'
      BY <2>1, <2>2 DEF Kept
    <2> QED
      BY <2>1, <2>3, SeedsKept
  <1>20. CASE EndTest
    BY <1>0, <1>20 DEF EndTest, SeedInv, BeforeRecording
  <1> QED
    BY <1>1, <1>2, <1>3, <1>4, <1>5, <1>6, <1>7, <1>8, <1>9, <1>10, <1>11, <1>12, <1>13, <1>14,
       <1>15, <1>16, <1>17, <1>18, <1>19, <1>20
    DEF Next, Reset

\* No row that a test or a trigger left is ever taken for a seed, over any number of runs.
THEOREM SeedsAreMigrated == Spec => []OnlySeedsAreRecorded
  <1>1. TypeOK /\ SeedInv => OnlySeedsAreRecorded
    BY DEF TypeOK, SeedInv, BeforeRecording, HighestOf, OnlySeedsAreRecorded
  <1> QED
    BY <1>1, TypeInit, TypeStep, SeedInit, SeedStep, PTL DEF Spec

\* No reset, finished or not, takes a recorded row of a table that has an id column.
THEOREM SeedsSurvive == Spec => []SeededRowsAreKept
  <1>1. SeedInv => SeededRowsAreKept
    BY DEF SeedInv, Kept, SeededRowsAreKept
  <1> QED
    BY <1>1, TypeInit, TypeStep, SeedInit, SeedStep, PTL DEF Spec

-----------------------------------------------------------------------------
(***************************************************************************)
(* What a reset leaves.  The first pass leaves a table Swept: without a    *)
(* seed it is empty, but for what triggers write to it afterwards.  The    *)
(* second leaves it Settled: by then only a table that was itself written  *)
(* to still has a row whose deletion can fire a trigger.                   *)
(***************************************************************************)
Audited(t) == \E u \in Tables : t \in Audits[u]

Swept(t) ==
    t \notin KeepTables =>
       /\ seeded[t] = 0 => \A id \in rows[t] : id = AutoId /\ Audited(t)
       /\ seeded[t] # 0 => \A id \in rows[t] \ migrated[t] :
             IdColumn[t] = "text" \/ id < seeded[t] \/ (id = AutoId /\ Audited(t))

Settled(t) ==
    t \notin KeepTables /\ seeded[t] = 0 => \A id \in rows[t] : id = AutoId /\ TriggersMayWrite(t)

SweptBefore(n)   == \A i \in 1 .. Len(TableOrder) : i < n => Swept(TableOrder[i])
SettledBefore(n) == \A i \in 1 .. Len(TableOrder) : i < n => Settled(TableOrder[i])
AllSwept         == \A t \in Tables : Swept(t)
AllSettled       == \A t \in Tables : Settled(t)

Done == pc = "clean" \/ (pc = "check" /\ ~ threw)

LeftInv ==
    /\ pc = "first" => SweptBefore(at)
    /\ pc = "second" => AllSwept /\ SettledBefore(at)
    /\ Done => AllSwept /\ AllSettled

LEMMA LeftInit == Init => LeftInv
  BY DEF Init, LeftInv, Done

\* A DELETE writes AutoId to the tables its triggers name, and nothing to any other.
LEMMA DeleteWrites ==
    ASSUME TypeOK, NEW t \in Tables, NEW gone \in SUBSET Ids
    PROVE  \A u \in Tables : \A id \in After(t, gone)[u] :
              id \notin rows[u] \/ (u = t /\ id \in gone) =>
                 id = AutoId /\ u \in Audits[t] /\ gone # {}
  BY DEF After

\* The first pass sweeps the table it is at ...
LEMMA FirstPassSweeps ==
    ASSUME TypeOK, SeedInv, recorded, NEW t \in Tables, rows' = After(t, Trim(t)),
           UNCHANGED <<seeded, recorded, migrated, fresh>>
    PROVE  Swept(t)'
  <1> SUFFICES ASSUME t \notin KeepTables PROVE Swept(t)'
    BY DEF Swept
  <1>0. /\ HighestOf(t) /\ fresh[t] \subseteq migrated[t] /\ seeded[t] \in 0 .. AutoId
        /\ rows[t] \in SUBSET Ids
    BY DEF SeedInv, TypeOK
  <1>1. Trim(t) \in SUBSET Ids
    BY TrimTypes
  <1>2. ASSUME NEW id \in rows'[t], id \notin rows[t] \/ id \in Trim(t)
        PROVE  id = AutoId /\ Audited(t)
    BY <1>1, <1>2, DeleteWrites DEF Audited
  <1>3. CASE seeded[t] = 0
    BY <1>2, <1>3 DEF Trim, Swept, Audited
  <1>4. CASE seeded[t] # 0
    <2>1. ASSUME NEW id \in rows[t] \ Trim(t), id \notin migrated[t]
          PROVE  IdColumn[t] = "text" \/ id < seeded[t]
      <3>1. Trim(t) = AboveSeeds(t)
        BY <1>4 DEF Trim
      <3>2. IdColumn[t] # "none" /\ seeded[t] \in fresh[t]
        BY <1>0, <1>4 DEF HighestOf
      <3>3. id # seeded[t]
        BY <1>0, <2>1, <3>2
      <3>4. CASE IdColumn[t] = "number"
        <4>1. ~ (id > seeded[t])
          BY <2>1, <3>1, <3>4 DEF AboveSeeds
        <4> QED
          BY <1>0, <2>1, <3>3, <4>1, TestDatabaseAssumption DEF Ids
      <3> QED
        BY <3>2, <3>4, TestDatabaseAssumption
    <2> QED
      BY <1>2, <1>4, <2>1 DEF Swept, Audited
  <1> QED
    BY <1>3, <1>4

\* ... and a DELETE leaves every other swept table swept.
LEMMA DeleteKeepsSwept ==
    ASSUME TypeOK, NEW t \in Tables, NEW gone \in SUBSET Ids, rows' = After(t, gone),
           UNCHANGED <<seeded, migrated>>,
           NEW u \in Tables, Swept(u)
    PROVE  Swept(u)'
  <1>1. ASSUME NEW id \in rows'[u], id \notin rows[u]
        PROVE  id = AutoId /\ Audited(u)
    BY <1>1, DeleteWrites DEF Audited
  <1> QED
    BY <1>1 DEF Swept, Audited

\* In the second pass a DELETE that finds a row is of a table a trigger wrote to.
LEMMA DeleteKeepsSettled ==
    ASSUME TypeOK, NEW t \in Tables, t \notin KeepTables, seeded[t] = 0, Swept(t),
           rows' = After(t, rows[t]),
           UNCHANGED <<seeded, migrated>>,
           NEW u \in Tables, Settled(u) \/ u = t
    PROVE  Settled(u)'
  <1>0. rows[t] \in SUBSET Ids
    BY DEF TypeOK
  <1>1. ASSUME NEW id \in rows'[u], id \notin rows[u] \/ u = t
        PROVE  id = AutoId /\ TriggersMayWrite(u)
    <2>1. id = AutoId /\ u \in Audits[t] /\ rows[t] # {}
      BY <1>0, <1>1, DeleteWrites
    <2>2. Audited(t)
      BY <2>1 DEF Swept
    <2> QED
      BY <2>1, <2>2 DEF Audited, TriggersMayWrite
  <1>2. TriggersMayWrite(u)' = TriggersMayWrite(u)
    BY DEF TriggersMayWrite
  <1> QED
    BY <1>1, <1>2 DEF Settled

\* Steps between the resets' deletes: the invariant speaks of no state they reach.
LEMMA LeftElsewhere ==
    ASSUME pc' \notin {"first", "second", "check", "clean"}
    PROVE  LeftInv'
  BY DEF LeftInv, Done

LEMMA LeftStep == TypeOK /\ SeedInv /\ LeftInv /\ [Next]_vars => LeftInv'
  <1> SUFFICES ASSUME TypeOK, SeedInv, LeftInv, [Next]_vars PROVE LeftInv'
    OBVIOUS
  <1>1. CASE UNCHANGED vars
    BY <1>1 DEF vars, LeftInv, Done, SweptBefore, SettledBefore, AllSwept, AllSettled, Swept,
                Settled, Audited, TriggersMayWrite
  <1>2. ASSUME NEW kept \in BOOLEAN, StartMySql(kept) PROVE LeftInv'
    BY <1>2, LeftElsewhere DEF StartMySql
  <1>3. CASE RunSqlFile
    BY <1>3, LeftElsewhere DEF RunSqlFile
  <1>4. CASE RecordSeededRows
    BY <1>4, LeftElsewhere DEF RecordSeededRows
  <1>5. CASE CloseTestDb
    BY <1>5, LeftElsewhere DEF CloseTestDb
  <1>6. CASE EndRun
    BY <1>6, LeftElsewhere DEF EndRun
  <1>7. CASE AddSqlFile
    BY <1>7, LeftElsewhere DEF AddSqlFile
  <1>8. CASE BeforeEach
    BY <1>8, LeftElsewhere DEF BeforeEach
  <1>9. ASSUME NEW c \in Conns, GetConnection(c) PROVE LeftInv'
    BY <1>9, LeftElsewhere DEF GetConnection
  <1>10. CASE GetNoConnection
    BY <1>10, LeftElsewhere DEF GetNoConnection
  <1>11. CASE ReadSeedsAndTables
    BY <1>11, LeftElsewhere DEF ReadSeedsAndTables
  <1>12. CASE UncheckForeignKeys
    <2>1. pc' = "first" /\ at' = 1
      BY <1>12 DEF UncheckForeignKeys
    <2>2. \A i \in 1 .. Len(TableOrder) : ~ (i < 1)
      BY Shape
    <2>3. SweptBefore(at)'
      BY <2>1, <2>2 DEF SweptBefore
    <2> QED
      BY <2>1, <2>3 DEF LeftInv, Done
  <1>13. CASE DeleteInFirstPass
    <2> DEFINE t == TableOrder[at]
    <2>1. /\ recorded /\ pc = "first" /\ at \in 1 .. Len(TableOrder)
          /\ t \in Tables /\ Trim(t) \in SUBSET Ids
      BY <1>13, Shape, TrimTypes DEF DeleteInFirstPass, TypeOK, SeedInv, BeforeRecording
    <2>2. UNCHANGED <<seeded, recorded, migrated, fresh>> /\ rows' = After(t, Trim(t))
      BY <1>13 DEF DeleteInFirstPass
    <2>3. \A u \in Tables : Swept(u) \/ u = t => Swept(u)'
      BY <2>1, <2>2, FirstPassSweeps, DeleteKeepsSwept
    <2>4. \A i \in 1 .. Len(TableOrder) : i < at + 1 => Swept(TableOrder[i])'
      <3>1. SUFFICES ASSUME NEW i \in 1 .. Len(TableOrder), i < at + 1
                     PROVE  Swept(TableOrder[i])'
        OBVIOUS
      <3>2. i < at \/ i = at
        BY <2>1, <3>1, Shape
      <3>3. Swept(TableOrder[i]) \/ TableOrder[i] = t
        BY <2>1, <3>2 DEF LeftInv, SweptBefore
      <3> QED
        BY <2>3, <3>3, Shape
    <2>5. CASE at < Len(TableOrder)
      <3>1. pc' = "first" /\ at' = at + 1
        BY <1>13, <2>5 DEF DeleteInFirstPass, Advance
      <3>2. SweptBefore(at)'
        BY <2>4, <3>1 DEF SweptBefore
      <3> QED
        BY <3>1, <3>2 DEF LeftInv, Done
    <2>6. CASE ~ (at < Len(TableOrder))
      <3>1. pc' = "second" /\ at' = 1
        BY <1>13, <2>6 DEF DeleteInFirstPass, Advance
      <3>2. \A i \in 1 .. Len(TableOrder) : i < at + 1 /\ ~ (i < 1)
        BY <2>1, <2>6, Shape
      <3>3. \A i \in 1 .. Len(TableOrder) : Swept(TableOrder[i])'
        BY <2>4, <3>2
      <3>4. AllSwept'
        BY <3>3 DEF AllSwept, Tables
      <3>5. SettledBefore(at)'
        BY <3>1, <3>2 DEF SettledBefore
      <3> QED
        BY <3>1, <3>4, <3>5 DEF LeftInv, Done
    <2> QED
      BY <2>5, <2>6
  <1>14. CASE DeleteInSecondPass
    <2> DEFINE t == TableOrder[at]
    <2>1. pc = "second" /\ at \in 1 .. Len(TableOrder) /\ t \in Tables /\ rows[t] \in SUBSET Ids
      BY <1>14, Shape DEF DeleteInSecondPass, TypeOK
    <2>2. /\ UNCHANGED <<seeded, recorded, migrated, fresh>>
          /\ rows' = IF t \in KeepTables \/ seeded[t] # 0 THEN rows ELSE After(t, rows[t])
      BY <1>14 DEF DeleteInSecondPass
    <2>3. AllSwept
      BY <2>1 DEF LeftInv
    <2>4. \A u \in Tables : Swept(u)' /\ (Settled(u) \/ u = t => Settled(u)')
      <3>1. CASE t \in KeepTables \/ seeded[t] # 0
        BY <2>2, <2>3, <3>1 DEF AllSwept, Swept, Settled, Audited, TriggersMayWrite
      <3>2. CASE t \notin KeepTables /\ seeded[t] = 0
        BY <2>1, <2>2, <2>3, <3>2, DeleteKeepsSwept, DeleteKeepsSettled DEF AllSwept
      <3> QED
        BY <3>1, <3>2
    <2>5. AllSwept'
      BY <2>4 DEF AllSwept
    <2>6. \A i \in 1 .. Len(TableOrder) : i < at + 1 => Settled(TableOrder[i])'
      <3>1. SUFFICES ASSUME NEW i \in 1 .. Len(TableOrder), i < at + 1
                     PROVE  Settled(TableOrder[i])'
        OBVIOUS
      <3>2. i < at \/ i = at
        BY <2>1, <3>1, Shape
      <3>3. Settled(TableOrder[i]) \/ TableOrder[i] = t
        BY <2>1, <3>2 DEF LeftInv, SettledBefore
      <3> QED
        BY <2>4, <3>3, Shape
    <2>7. CASE at < Len(TableOrder)
      <3>1. pc' = "second" /\ at' = at + 1
        BY <1>14, <2>7 DEF DeleteInSecondPass, Advance
      <3>2. SettledBefore(at)'
        BY <2>6, <3>1 DEF SettledBefore
      <3> QED
        BY <2>5, <3>1, <3>2 DEF LeftInv, Done
    <2>8. CASE ~ (at < Len(TableOrder))
      <3>1. pc' = "check"
        BY <1>14, <2>8 DEF DeleteInSecondPass, Advance
      <3>2. \A i \in 1 .. Len(TableOrder) : i < at + 1
        BY <2>1, <2>8, Shape
      <3>3. \A i \in 1 .. Len(TableOrder) : Settled(TableOrder[i])'
        BY <2>6, <3>2
      <3>4. AllSettled'
        BY <3>3 DEF AllSettled, Tables
      <3> QED
        BY <2>5, <3>1, <3>4 DEF LeftInv, Done
    <2> QED
      BY <2>7, <2>8
  <1>15. CASE CheckAndRelease
    <2>1. CASE threw
      BY <1>15, <2>1, LeftElsewhere DEF CheckAndRelease
    <2>2. CASE ~ threw
      <3>1. AllSwept /\ AllSettled /\ pc' = "clean" /\ UNCHANGED database
        BY <1>15, <2>2 DEF CheckAndRelease, LeftInv, Done
      <3> QED
        BY <3>1 DEF LeftInv, Done, database, AllSwept, AllSettled, Swept, Settled, Audited,
                    TriggersMayWrite
    <2> QED
      BY <2>1, <2>2
  <1>16. CASE StatementFails
    BY <1>16 DEF StatementFails, LeftInv, Done
  <1>17. CASE CheckFails
    BY <1>17, LeftElsewhere DEF CheckFails
  <1>18. CASE ConnectionBreaks
    BY <1>18, LeftElsewhere DEF ConnectionBreaks
  <1>19. ASSUME NEW t \in Tables, NEW id \in Ids, TestInserts(t, id) PROVE LeftInv'
    BY <1>19, LeftElsewhere DEF TestInserts
  <1>20. CASE EndTest
    BY <1>20, LeftElsewhere DEF EndTest
  <1> QED
    BY <1>1, <1>2, <1>3, <1>4, <1>5, <1>6, <1>7, <1>8, <1>9, <1>10, <1>11, <1>12, <1>13, <1>14,
       <1>15, <1>16, <1>17, <1>18, <1>19, <1>20
    DEF Next, Reset

\* For every schema, every set of triggers and every history of runs, failures and interruptions:
\* a test starts from what the migrations left, but for the named causes.
THEOREM LeftoverHasACause == Spec => []LeftoverIsExplained
  <1>1. ASSUME TypeOK, SeedInv, LeftInv PROVE LeftoverIsExplained
    <2> SUFFICES ASSUME pc = "clean", NEW t \in Tables, t \notin KeepTables
                 PROVE  /\ \A id \in migrated[t] \ rows[t] : MayBeMissing(t, id)
                        /\ \A id \in rows[t] \ migrated[t] : MayBeLeft(t, id)
      BY DEF LeftoverIsExplained
    <2>1. recorded
      BY <1>1 DEF SeedInv, BeforeRecording
    <2>2. HighestOf(t) /\ Kept(t) /\ fresh[t] \subseteq migrated[t]
      BY <1>1, <2>1 DEF SeedInv
    <2>3. Swept(t) /\ Settled(t)
      BY <1>1 DEF LeftInv, Done, AllSwept, AllSettled
    <2>4. ASSUME NEW id \in migrated[t] \ rows[t] PROVE MayBeMissing(t, id)
      BY <2>2, <2>4 DEF Kept, MayBeMissing, SeededLater
    <2>5. ASSUME NEW id \in rows[t] \ migrated[t] PROVE MayBeLeft(t, id)
      <3>1. CASE seeded[t] = 0
        BY <2>3, <2>5, <3>1 DEF Settled, MayBeLeft
      <3>2. CASE seeded[t] # 0
        <4>1. IdColumn[t] # "none" /\ seeded[t] \in fresh[t]
          BY <2>2, <3>2 DEF HighestOf
        <4>2. IdColumn[t] \in {"number", "text"}
          BY <4>1, TestDatabaseAssumption
        <4>3. CASE IdColumn[t] = "text"
          BY <4>1, <4>3 DEF MayBeLeft
        <4>4. CASE IdColumn[t] = "number" /\ id < seeded[t]
          BY <4>1, <4>4 DEF MayBeLeft
        <4>5. CASE id = AutoId /\ Audited(t)
          BY <3>2, <4>5 DEF Audited, MayBeLeft, TriggersMayWrite
        <4> QED
          BY <2>3, <2>5, <3>2, <4>2, <4>3, <4>4, <4>5 DEF Swept
      <3> QED
        BY <3>1, <3>2
    <2> QED
      BY <2>4, <2>5
  <1> QED
    BY <1>1, TypeInit, TypeStep, SeedInit, SeedStep, LeftInit, LeftStep, PTL DEF Spec
=============================================================================
