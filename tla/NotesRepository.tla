-------------------------- MODULE NotesRepository --------------------------
(***************************************************************************)
(* NotesRepository over a pool of MySQL connections, with several callers. *)
(*                                                                         *)
(*   createAll: waiting -> begin -> insert ... -> commit -> committed      *)
(*                 any rejection -> rollback -> release                    *)
(*   create:    waiting -> insert -> committed -> release  (no transaction)*)
(*   list:      waiting -> query -> release                                *)
(* and waiting -> unserved where the pool has no connection to give.       *)
(*                                                                         *)
(* "committed" is a commit, or the statement of create, that the server    *)
(* has done and not yet answered.  A connection can be lost at any await:  *)
(* the server then rolls its transaction back.  A rollback is taken to     *)
(* reject only for that reason.  The body of a note is left out.           *)
(***************************************************************************)
EXTENDS Integers, Sequences, FiniteSets

CONSTANTS Callers,  \* whatever calls the repository, all in one process
          Titles,   \* the titles of notes, in their alphabetical order
          Batches,  \* the titles of the notes of a createAll, in their order
          Conns,    \* the connections of the pool
          Nobody,   \* holds a connection that is free
          MaxCalls  \* bound of the model: calls in all

ASSUME NotesAssumption ==
    /\ Titles \subseteq Nat
    /\ Batches \subseteq Seq(Titles)
    /\ Nobody \notin Callers
    /\ MaxCalls \in Nat

\* The titles that the calls save: those of create, of createAll, and those of list.
Saves == Batches \cup {<<title>> : title \in Titles} \cup {<< >>}

VARIABLES rows,    \* the committed rows of example_notes
          nextId,  \* AUTO_INCREMENT
          conns,   \* each connection: who holds it, its transaction and the rows that wait in it
          calls,   \* each caller's call
          made,    \* how many calls were made
          savedTo  \* history: the highest id whose call has resolved

vars == <<rows, nextId, conns, calls, made, savedTo>>

(***************************************************************************)
(* after is a history variable: savedTo when the call of the row began.    *)
(***************************************************************************)
Row     == [id: Nat, title: Titles, after: Nat]
Conn    == [holder: Callers \cup {Nobody}, open: BOOLEAN, pending: SUBSET Row]
Session == [holder |-> Nobody, open |-> FALSE, pending |-> {}]

Steps   == {"idle", "waiting", "begin", "insert", "commit", "committed", "query",
            "rollback", "release", "unserved"}
Answers == {"none", "ok", "duplicate", "refused", "lost"}

(***************************************************************************)
(* at is the note the loop is at; last, since and saved are history: the   *)
(* call's highest id, savedTo when it began, whether its notes are saved.  *)
(***************************************************************************)
Call == [pc: Steps, op: {"create", "createAll", "list"}, batch: Saves,
         at: Nat, answer: Answers, last: Nat, since: Nat, saved: BOOLEAN]

NewCall(op, batch) ==
    [pc |-> "waiting", op |-> op, batch |-> batch, at |-> 1, answer |-> "none",
     last |-> 0, since |-> savedTo, saved |-> FALSE]

Idle == [pc |-> "idle", op |-> "list", batch |-> << >>, at |-> 1, answer |-> "none",
         last |-> 0, since |-> 0, saved |-> FALSE]

TypeOK ==
    /\ rows \in SUBSET Row
    /\ nextId \in Nat
    /\ conns \in [Conns -> Conn]
    /\ calls \in [Callers -> Call]
    /\ made \in 0 .. MaxCalls
    /\ savedTo \in Nat

Init ==
    /\ rows = {}
    /\ nextId = 1
    /\ conns = [k \in Conns |-> Session]
    /\ calls = [c \in Callers |-> Idle]
    /\ made = 0
    /\ savedTo = 0

-----------------------------------------------------------------------------
\* Caller c is at pc and holds k.
At(c, k, pc) == calls[c].pc = pc /\ conns[k].holder = c

GoTo(c, pc) == calls' = [calls EXCEPT ![c].pc = pc]

\* Mutant: the catch that rolls back is left out.
RejectOnly(c, answer) ==
    calls' = [calls EXCEPT ![c] = [@ EXCEPT !.pc = "release", !.answer = answer]]

\* What createAll awaits rejects: to the catch.  pool.execute and pool.query just release.
Reject(c, answer) ==
    calls' = [calls EXCEPT ![c] = [@ EXCEPT
        !.pc = IF calls[c].op = "createAll" THEN "rollback" ELSE "release",
        !.answer = answer]]

-----------------------------------------------------------------------------
(***************************************************************************)
(* The calls.                                                              *)
(***************************************************************************)
Begins(c, op, batch) ==
    /\ calls[c].pc = "idle"
    /\ made < MaxCalls
    /\ made' = made + 1
    /\ calls' = [calls EXCEPT ![c] = NewCall(op, batch)]
    /\ UNCHANGED <<rows, nextId, conns, savedTo>>

Create(c, title)    == Begins(c, "create", <<title>>)
CreateAll(c, batch) == Begins(c, "createAll", batch)
List(c)             == Begins(c, "list", << >>)

FirstStep(op) ==
    CASE op = "create" -> "insert" [] op = "createAll" -> "begin" [] op = "list" -> "query"

\* pool.getConnection(), of which pool.execute and pool.query have their own.
GetConnection(c, k) ==
    /\ calls[c].pc = "waiting"
    /\ conns[k].holder = Nobody
    /\ conns' = [conns EXCEPT ![k].holder = c]
    /\ GoTo(c, FirstStep(calls[c].op))
    /\ UNCHANGED <<rows, nextId, made, savedTo>>

\* The pool rejects instead: no server, or a closed pool.  createAll calls getConnection before its
\* try, so nothing is rolled back or released.
NoConnection(c) ==
    /\ calls[c].pc = "waiting"
    /\ calls' = [calls EXCEPT ![c] = [@ EXCEPT !.pc = "unserved", !.answer = "refused"]]
    /\ UNCHANGED <<rows, nextId, conns, made, savedTo>>

\* Mutant: createAll without a transaction.
NoTransaction(c, k) ==
    /\ At(c, k, "begin")
    /\ GoTo(c, IF calls[c].batch = << >> THEN "commit" ELSE "insert")
    /\ UNCHANGED <<rows, nextId, conns, made, savedTo>>

\* START TRANSACTION commits what a transaction still open on the connection holds.
BeginTransaction(c, k) ==
    /\ At(c, k, "begin")
    /\ rows' = rows \cup conns[k].pending
    /\ conns' = [conns EXCEPT ![k] = [@ EXCEPT !.open = TRUE, !.pending = {}]]
    /\ GoTo(c, IF calls[c].batch = << >> THEN "commit" ELSE "insert")
    /\ UNCHANGED <<nextId, made, savedTo>>

-----------------------------------------------------------------------------
(***************************************************************************)
(* INSERT INTO example_notes.  UNIQUE (title): a title that another        *)
(* transaction has inserted and not committed makes the statement wait for *)
(* the end of that transaction, for the server's choice of it as the       *)
(* victim of a deadlock, or for innodb_lock_wait_timeout.                  *)
(***************************************************************************)
Title(c) == calls[c].batch[calls[c].at]

Blocked(c, k) ==
    \E other \in Conns \ {k} : \E row \in conns[other].pending : row.title = Title(c)

Taken(c, k) == \E row \in rows \cup conns[k].pending : row.title = Title(c)

\* After the last note of the loop, or the only one of create.
Inserted(c) ==
    LET call == [calls[c] EXCEPT !.last = nextId, !.at = @ + 1]
    IN  calls' = [calls EXCEPT ![c] =
            IF call.op = "create" THEN [call EXCEPT !.pc = "committed", !.saved = TRUE]
            ELSE [call EXCEPT !.pc = IF call.at > Len(call.batch) THEN "commit" ELSE "insert"]]

\* With no transaction open the statement commits itself.
Insert(c, k) ==
    /\ At(c, k, "insert")
    /\ ~ Blocked(c, k)
    /\ ~ Taken(c, k)
    /\ LET row == [id |-> nextId, title |-> Title(c), after |-> calls[c].since]
       IN  IF conns[k].open
           THEN conns' = [conns EXCEPT ![k].pending = @ \cup {row}] /\ UNCHANGED rows
           ELSE rows' = rows \cup {row} /\ UNCHANGED conns
    /\ nextId' = nextId + 1
    /\ Inserted(c)
    /\ UNCHANGED <<made, savedTo>>

\* ER_DUP_ENTRY.  Only the statement fails; the transaction goes on.
InsertDuplicate(c, k) ==
    /\ At(c, k, "insert")
    /\ ~ Blocked(c, k)
    /\ Taken(c, k)
    /\ Reject(c, "duplicate")
    /\ UNCHANGED <<rows, nextId, conns, made, savedTo>>

\* ER_LOCK_WAIT_TIMEOUT rolls back the statement alone.
LockWaitTimeout(c, k) ==
    /\ At(c, k, "insert")
    /\ Blocked(c, k)
    /\ Reject(c, "refused")
    /\ UNCHANGED <<rows, nextId, conns, made, savedTo>>

\* ER_LOCK_DEADLOCK: statements wait for each other, and the server rolls back this transaction.
Deadlock(c, k) ==
    /\ At(c, k, "insert")
    /\ Blocked(c, k)
    /\ conns[k].open
    /\ \E d \in Callers \ {c}, l \in Conns : At(d, l, "insert") /\ Blocked(d, l)
    /\ conns' = [conns EXCEPT ![k] = [@ EXCEPT !.open = FALSE, !.pending = {}]]
    /\ Reject(c, "refused")
    /\ UNCHANGED <<rows, nextId, made, savedTo>>

Commit(c, k) ==
    /\ At(c, k, "commit")
    /\ rows' = rows \cup conns[k].pending
    /\ conns' = [conns EXCEPT ![k] = [@ EXCEPT !.open = FALSE, !.pending = {}]]
    /\ calls' = [calls EXCEPT ![c] = [@ EXCEPT !.pc = "committed", !.saved = TRUE]]
    /\ UNCHANGED <<nextId, made, savedTo>>

\* The answer of the server arrives: to the commit, the insert of create, or the query of list.
Confirmed(c, k) ==
    /\ At(c, k, "committed") \/ At(c, k, "query")
    /\ calls' = [calls EXCEPT ![c] = [@ EXCEPT !.pc = "release", !.answer = "ok"]]
    /\ UNCHANGED <<rows, nextId, conns, made, savedTo>>

Rollback(c, k) ==
    /\ At(c, k, "rollback")
    /\ conns' = [conns EXCEPT ![k] = [@ EXCEPT !.open = FALSE, !.pending = {}]]
    /\ GoTo(c, "release")
    /\ UNCHANGED <<rows, nextId, made, savedTo>>

Ended(c) == calls' = [calls EXCEPT ![c] = Idle]

Resolved(c) == IF calls[c].answer = "ok" /\ calls[c].last > savedTo THEN calls[c].last ELSE savedTo

\* Mutant: release is the last line of the try, not its finally.
ReleaseAfterCommit(c, k) ==
    /\ At(c, k, "release")
    /\ conns' = [conns EXCEPT ![k].holder = IF calls[c].answer = "ok" THEN Nobody ELSE c]
    /\ savedTo' = Resolved(c)
    /\ Ended(c)
    /\ UNCHANGED <<rows, nextId, made>>

\* The connection goes back to the pool, and the caller has its answer.
Release(c, k) ==
    /\ At(c, k, "release")
    /\ conns' = [conns EXCEPT ![k].holder = Nobody]
    /\ savedTo' = Resolved(c)
    /\ Ended(c)
    /\ UNCHANGED <<rows, nextId, made>>

\* A caller the pool rejected has its answer.
Unserved(c) ==
    /\ calls[c].pc = "unserved"
    /\ Ended(c)
    /\ UNCHANGED <<rows, nextId, conns, made, savedTo>>

-----------------------------------------------------------------------------
(***************************************************************************)
(* The server or the network drops connection k, and the server rolls its  *)
(* transaction back.  What the caller awaits rejects, so does its rollback *)
(* (whose error replaces the one it was handling), and the pool makes a    *)
(* new connection when this one is released.                               *)
(***************************************************************************)
LoseConnection(c, k) ==
    /\ conns[k].holder = c
    /\ calls[c].pc # "release"
    /\ conns' = [conns EXCEPT ![k] = [Session EXCEPT !.holder = c]]
    /\ calls' = [calls EXCEPT ![c] = [@ EXCEPT !.pc = "release", !.answer = "lost"]]
    /\ UNCHANGED <<rows, nextId, made, savedTo>>

\* The process of all the callers stops; the server drops its connections.
Stop ==
    /\ \E c \in Callers : calls[c].pc # "idle"
    /\ conns' = [k \in Conns |-> Session]
    /\ calls' = [c \in Callers |-> Idle]
    /\ UNCHANGED <<rows, nextId, made, savedTo>>

-----------------------------------------------------------------------------
Resume(c, k) ==
    \/ GetConnection(c, k)
    \/ BeginTransaction(c, k)
    \/ Insert(c, k)
    \/ InsertDuplicate(c, k)
    \/ LockWaitTimeout(c, k)
    \/ Deadlock(c, k)
    \/ Commit(c, k)
    \/ Confirmed(c, k)
    \/ Rollback(c, k)
    \/ Release(c, k)

Next ==
    \/ \E c \in Callers :
          \/ \E title \in Titles : Create(c, title)
          \/ \E batch \in Batches : CreateAll(c, batch)
          \/ List(c)
          \/ NoConnection(c)
          \/ Unserved(c)
    \/ \E c \in Callers, k \in Conns : Resume(c, k) \/ LoseConnection(c, k)
    \/ Stop

(***************************************************************************)
(* MySQL answers every statement in the end (a wait for a lock ends with   *)
(* innodb_lock_wait_timeout), and the pool serves its queue in order.      *)
(***************************************************************************)
Fairness == \A c \in Callers : WF_vars(Unserved(c) \/ \E k \in Conns : Resume(c, k))

Spec == Init /\ [][Next]_vars /\ Fairness

-----------------------------------------------------------------------------
(***************************************************************************)
(* list: SELECT ... ORDER BY id.                                           *)
(***************************************************************************)
\* Mutant: ORDER BY title.
TitleBefore(a, b) == a.title < b.title

ListedBefore(a, b) == a.id < b.id

(***************************************************************************)
(* createAll "saves all the notes or none of them", each caller is told    *)
(* what became of its own, and ER_DUP_ENTRY means a title was taken:       *)
(* whatever fails, waits, or is cut off at the awaits of the repository.   *)
(***************************************************************************)
LedgerState(call) ==
    IF call.pc = "idle" THEN "idle"
    ELSE IF call.pc \in {"release", "unserved"} THEN call.answer ELSE "running"

Ledger == INSTANCE NotesLedger WITH
    Batches <- Saves,
    titles  <- {row.title : row \in rows},
    state   <- [c \in Callers |-> LedgerState(calls[c])],
    batch   <- [c \in Callers |-> calls[c].batch],
    saved   <- {c \in Callers : calls[c].saved}

ImplementsLedger == Ledger!Spec

\* No transaction, no row and so no lock is left on a connection that went back to the pool: the
\* next caller's START TRANSACTION would commit it (the catch and the finally of createAll).
FreeConnsAreClean ==
    \A k \in Conns : conns[k].holder = Nobody => conns[k] = Session

\* list shows the notes in the order they were saved: a note whose call had resolved when the call
\* of another began comes before it, although ids are given at the insert and rows seen at the commit.
ListedInOrderSaved ==
    \A a, b \in rows : a.id <= b.after => ListedBefore(a, b)

\* Every call is answered: connections come back whatever rejected, and waits for locks end.
CallsEnd ==
    \A c \in Callers : calls[c].pc # "idle" ~> calls[c].pc = "idle"
=============================================================================
