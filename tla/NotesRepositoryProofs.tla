----------------------- MODULE NotesRepositoryProofs -----------------------
(***************************************************************************)
(* What holds of the notes repository for any callers, titles, batches and *)
(* pool of connections.                                                    *)
(***************************************************************************)
EXTENDS NotesRepository, TLAPS

(***************************************************************************)
(* What a call is like at each of its awaits.  That the loop of createAll  *)
(* stays within its notes belongs to the types: the row it inserts has the *)
(* title of a note only for that reason.                                   *)
(***************************************************************************)
Shape(call) ==
    /\ call.op = "list" => call.batch = << >>
    /\ call.op = "create" => Len(call.batch) = 1
    /\ call.pc \in {"idle", "waiting", "begin"} => call.at = 1
    /\ call.pc = "idle" => call = Idle
    /\ call.pc = "query" => call.op = "list"
    /\ call.pc \in {"begin", "commit", "rollback"} => call.op = "createAll"
    /\ call.pc = "insert" => call.op # "list" /\ call.at \in 1 .. Len(call.batch)
    /\ call.pc = "commit" => call.at = Len(call.batch) + 1
    /\ call.pc = "committed" => call.op # "list" /\ call.saved
    /\ call.saved => call.pc \in {"committed", "release"}
    /\ call.pc \notin {"rollback", "release", "unserved"} => call.answer = "none"
    /\ call.pc = "unserved" => call.answer = "refused"
    /\ call.pc = "rollback" => call.answer \in {"duplicate", "refused"}
    /\ call.pc = "release" => call.answer # "none"
    /\ call.answer = "ok" => call.saved \/ call.batch = << >>
    /\ call.answer \in {"duplicate", "refused"} => ~ call.saved

CallInv == TypeOK /\ \A c \in Callers : Shape(calls[c])

LEMMA SavesAreBatches ==
    \A batch \in Saves : batch \in Seq(Titles) /\ Len(batch) \in Nat
  <1>1. \A title \in Titles : <<title>> \in Seq(Titles)
    OBVIOUS
  <1>2. << >> \in Seq(Titles)
    OBVIOUS
  <1>3. \A batch \in Seq(Titles) : Len(batch) \in Nat
    OBVIOUS
  <1>4. Saves \subseteq Seq(Titles)
    BY <1>1, <1>2, NotesAssumption DEF Saves
  <1> QED
    BY <1>3, <1>4

LEMMA IdleCall == Idle \in Call /\ Shape(Idle) /\ Session \in Conn
  BY DEF Idle, Session, Call, Conn, Steps, Answers, Saves, Shape

LEMMA CallInit == Init => CallInv
  BY IdleCall, NotesAssumption DEF Init, CallInv, TypeOK

\* A step that gives one caller another call keeps the invariant if the call fits.
LEMMA OneCall ==
    ASSUME CallInv, NEW c \in Callers, NEW call \in Call, Shape(call),
           calls' = [calls EXCEPT ![c] = call],
           rows' \in SUBSET Row, nextId' \in Nat, conns' \in [Conns -> Conn],
           made' \in 0 .. MaxCalls, savedTo' \in Nat
    PROVE  CallInv'
  BY DEF CallInv, TypeOK

LEMMA Rejected ==
    ASSUME CallInv, NEW c \in Callers, calls[c].pc = "insert",
           NEW answer \in {"duplicate", "refused"}, Reject(c, answer)
    PROVE  \E call \in Call : Shape(call) /\ calls' = [calls EXCEPT ![c] = call]
  <1> DEFINE call == [calls[c] EXCEPT
                        !.pc = IF calls[c].op = "createAll" THEN "rollback" ELSE "release",
                        !.answer = answer]
  <1>1. call \in Call
    BY DEF CallInv, TypeOK, Call, Steps, Answers
  <1>2. calls[c] \in Call /\ Shape(calls[c])
    BY DEF CallInv, TypeOK
  <1>3. Shape(call)
    BY <1>2 DEF Shape, Call
  <1>4. calls' = [calls EXCEPT ![c] = call]
    BY DEF Reject
  <1> QED
    BY <1>1, <1>3, <1>4

LEMMA CallStep == CallInv /\ [Next]_vars => CallInv'
  <1> SUFFICES ASSUME CallInv, [Next]_vars PROVE CallInv'
    OBVIOUS
  <1> USE NotesAssumption
  <1>0. CASE UNCHANGED vars
    BY <1>0 DEF vars, CallInv, TypeOK
  <1>t. /\ rows \in SUBSET Row /\ nextId \in Nat /\ conns \in [Conns -> Conn]
        /\ made \in 0 .. MaxCalls /\ savedTo \in Nat
        /\ \A c \in Callers : calls[c] \in Call /\ Shape(calls[c])
    BY DEF CallInv, TypeOK
  <1>1. ASSUME NEW c \in Callers, NEW op \in {"create", "createAll", "list"}, NEW batch \in Saves,
               op = "list" => batch = << >>, op = "create" => Len(batch) = 1,
               Begins(c, op, batch)
        PROVE  CallInv'
    <2>1. NewCall(op, batch) \in Call
      BY <1>t DEF NewCall, Call, Steps, Answers
    <2>2. Shape(NewCall(op, batch))
      BY <1>1 DEF NewCall, Shape
    <2>3. made' \in 0 .. MaxCalls
      BY <1>1, <1>t DEF Begins
    <2>4. calls' = [calls EXCEPT ![c] = NewCall(op, batch)]
      BY <1>1 DEF Begins
    <2>5. UNCHANGED <<rows, nextId, conns, savedTo>>
      BY <1>1 DEF Begins
    <2> QED
      BY <1>t, <2>1, <2>2, <2>3, <2>4, <2>5, OneCall
  <1>2. ASSUME NEW c \in Callers, NEW k \in Conns, GetConnection(c, k) PROVE CallInv'
    <2> DEFINE call == [calls[c] EXCEPT !.pc = FirstStep(calls[c].op)]
    <2>0. calls[c] \in Call /\ Shape(calls[c]) /\ calls[c].pc = "waiting"
      BY <1>2, <1>t DEF GetConnection
    <2>1. call \in Call
      BY <2>0 DEF FirstStep, Steps, Call
    <2>2. conns' \in [Conns -> Conn]
      BY <1>2, <1>t DEF GetConnection, Conn
    <2>3. /\ calls[c].op = "list" => FirstStep(calls[c].op) = "query"
          /\ calls[c].op = "create" => FirstStep(calls[c].op) = "insert"
          /\ calls[c].op = "createAll" => FirstStep(calls[c].op) = "begin"
          /\ calls[c].op \in {"list", "create", "createAll"}
      BY <2>0 DEF FirstStep, Call
    <2>4. Shape(call)
      <3>1. CASE calls[c].op = "list"
        BY <2>0, <2>3, <3>1 DEF Shape, Call
      <3>2. CASE calls[c].op = "create"
        <4>1. /\ Len(calls[c].batch) = 1 /\ calls[c].at = 1 /\ calls[c].answer = "none"
              /\ ~ calls[c].saved /\ 1 \in 1 .. 1
          BY <2>0, <3>2 DEF Shape, Call
        <4> QED
          BY <2>0, <2>3, <3>2, <4>1 DEF Shape, Call
      <3>3. CASE calls[c].op = "createAll"
        BY <2>0, <2>3, <3>3 DEF Shape, Call
      <3> QED
        BY <2>3, <3>1, <3>2, <3>3
    <2> QED
      BY <2>4, <1>2, <1>t, <2>1, <2>2, <2>3, OneCall DEF GetConnection, GoTo
  <1>3. ASSUME NEW c \in Callers, NEW k \in Conns, BeginTransaction(c, k) PROVE CallInv'
    <2> DEFINE pc   == IF calls[c].batch = << >> THEN "commit" ELSE "insert"
               call == [calls[c] EXCEPT !.pc = pc]
    <2>0. calls[c] \in Call /\ Shape(calls[c]) /\ calls[c].pc = "begin"
      BY <1>3, <1>t DEF BeginTransaction, At
    <2>1. call \in Call
      BY <2>0 DEF Steps, Call
    <2>2. conns' \in [Conns -> Conn] /\ rows' \in SUBSET Row
      BY <1>3, <1>t DEF BeginTransaction, Conn
    <2>3. calls[c].batch # << >> => Len(calls[c].batch) >= 1
      BY <2>0, SavesAreBatches DEF Call
    <2>4. Len(calls[c].batch) \in Nat /\ Len(<< >>) = 0
      BY <2>0, SavesAreBatches DEF Call
    <2>5. Shape(call)
      BY <2>0, <2>3, <2>4 DEF Shape, Call
    <2> QED
      BY <1>3, <1>t, <2>1, <2>2, <2>5, OneCall DEF BeginTransaction, GoTo
  <1>4. ASSUME NEW c \in Callers, NEW k \in Conns, InsertDuplicate(c, k) \/ LockWaitTimeout(c, k)
        PROVE  CallInv'
    <2>1. PICK answer \in {"duplicate", "refused"} : calls[c].pc = "insert" /\ Reject(c, answer)
      BY <1>4 DEF InsertDuplicate, LockWaitTimeout, At
    <2>2. PICK call \in Call : Shape(call) /\ calls' = [calls EXCEPT ![c] = call]
      BY <2>1, Rejected
    <2> QED
      BY <1>4, <1>t, <2>2, OneCall DEF InsertDuplicate, LockWaitTimeout
  <1>5. ASSUME NEW c \in Callers, NEW k \in Conns, Deadlock(c, k) PROVE CallInv'
    <2>1. calls[c].pc = "insert" /\ Reject(c, "refused")
      BY <1>5 DEF Deadlock, At
    <2>2. PICK call \in Call : Shape(call) /\ calls' = [calls EXCEPT ![c] = call]
      BY <2>1, Rejected
    <2>3. conns' \in [Conns -> Conn]
      BY <1>5, <1>t DEF Deadlock, Conn
    <2> QED
      BY <1>5, <1>t, <2>2, <2>3, OneCall DEF Deadlock
  <1>6. ASSUME NEW c \in Callers, NEW k \in Conns, Commit(c, k) PROVE CallInv'
    <2> DEFINE call == [calls[c] EXCEPT !.pc = "committed", !.saved = TRUE]
    <2>0. calls[c] \in Call /\ Shape(calls[c]) /\ calls[c].pc = "commit"
      BY <1>6, <1>t DEF Commit, At
    <2>1. call \in Call
      BY <2>0 DEF Steps, Call
    <2>2. conns' \in [Conns -> Conn] /\ rows' \in SUBSET Row
      BY <1>6, <1>t DEF Commit, Conn
    <2>3. Shape(call)
      BY <2>0 DEF Shape, Call
    <2> QED
      BY <1>6, <1>t, <2>1, <2>2, <2>3, OneCall DEF Commit
  <1>7. ASSUME NEW c \in Callers, NEW k \in Conns, Confirmed(c, k) PROVE CallInv'
    <2> DEFINE call == [calls[c] EXCEPT !.pc = "release", !.answer = "ok"]
    <2>0. calls[c] \in Call /\ Shape(calls[c]) /\ calls[c].pc \in {"committed", "query"}
      BY <1>7, <1>t DEF Confirmed, At
    <2>1. call \in Call
      BY <2>0 DEF Steps, Call, Answers
    <2>2. Shape(call)
      BY <2>0 DEF Shape, Call
    <2> QED
      BY <1>7, <1>t, <2>1, <2>2, OneCall DEF Confirmed
  <1>8. ASSUME NEW c \in Callers, NEW k \in Conns, Rollback(c, k) PROVE CallInv'
    <2> DEFINE call == [calls[c] EXCEPT !.pc = "release"]
    <2>0. calls[c] \in Call /\ Shape(calls[c]) /\ calls[c].pc = "rollback"
      BY <1>8, <1>t DEF Rollback, At
    <2>1. call \in Call
      BY <2>0 DEF Steps, Call
    <2>2. Shape(call)
      BY <2>0 DEF Shape, Call
    <2>3. conns' \in [Conns -> Conn]
      BY <1>8, <1>t DEF Rollback, Conn
    <2> QED
      BY <1>8, <1>t, <2>1, <2>2, <2>3, OneCall DEF Rollback, GoTo
  <1>9. ASSUME NEW c \in Callers, NEW k \in Conns, Release(c, k) PROVE CallInv'
    <2>1. conns' \in [Conns -> Conn]
      BY <1>9, <1>t DEF Release, Conn
    <2>2. savedTo' \in Nat
      BY <1>9, <1>t DEF Release, Resolved, Call
    <2> QED
      BY <1>9, <1>t, <2>1, <2>2, IdleCall, OneCall DEF Release, Ended
  <1>10. ASSUME NEW c \in Callers, NEW k \in Conns, LoseConnection(c, k) PROVE CallInv'
    <2> DEFINE call == [calls[c] EXCEPT !.pc = "release", !.answer = "lost"]
    <2>0. calls[c] \in Call /\ Shape(calls[c])
      BY <1>t
    <2>1. call \in Call
      BY <2>0 DEF Steps, Call, Answers
    <2>2. Shape(call)
      BY <2>0 DEF Shape, Call
    <2>3. conns' \in [Conns -> Conn]
      BY <1>10, <1>t, IdleCall DEF LoseConnection, Conn
    <2> QED
      BY <1>10, <1>t, <2>1, <2>2, <2>3, OneCall DEF LoseConnection
  <1>11. ASSUME Stop PROVE CallInv'
    BY <1>11, IdleCall DEF Stop, CallInv, TypeOK
  <1>12. ASSUME NEW c \in Callers, NEW k \in Conns, Insert(c, k) PROVE CallInv'
    <2> DEFINE row  == [id |-> nextId, title |-> Title(c), after |-> calls[c].since]
               next == [calls[c] EXCEPT !.last = nextId, !.at = calls[c].at + 1]
               call == IF next.op = "create" THEN [next EXCEPT !.pc = "committed", !.saved = TRUE]
                       ELSE [next EXCEPT !.pc = IF next.at > Len(next.batch) THEN "commit"
                                                ELSE "insert"]
    <2>0. calls[c] \in Call /\ Shape(calls[c]) /\ calls[c].pc = "insert"
      BY <1>12, <1>t DEF Insert, At
    <2>1. Title(c) \in Titles
      BY <2>0, SavesAreBatches DEF Title, Shape, Call
    <2>2. row \in Row
      BY <2>0, <2>1, <1>t DEF Row, Call
    <2>3. conns' \in [Conns -> Conn] /\ rows' \in SUBSET Row
      BY <1>12, <1>t, <2>2 DEF Insert, Conn
    <2>4. /\ Len(calls[c].batch) \in Nat /\ calls[c].at \in 1 .. Len(calls[c].batch)
          /\ calls[c].op \in {"create", "createAll"} /\ calls[c].answer = "none"
          /\ ~ calls[c].saved /\ calls[c].at \in Nat
      BY <2>0, SavesAreBatches DEF Call, Shape
    <2>c. calls[c].at + 1 \in Nat /\ nextId \in Nat
      BY <2>4, <1>t
    <2>d. next \in Call
      BY <2>0, <2>c DEF Call
    <2>5. /\ next \in Call /\ next.op = calls[c].op /\ next.batch = calls[c].batch
          /\ next.at = calls[c].at + 1 /\ next.answer = "none" /\ ~ next.saved
      BY <2>0, <2>4, <2>d DEF Call
    <2>9. nextId' \in Nat /\ made' \in 0 .. MaxCalls /\ savedTo' \in Nat
      BY <1>12, <1>t DEF Insert
    <2>8. calls' = [calls EXCEPT ![c] = call]
      BY <1>12 DEF Insert, Inserted
    <2> HIDE DEF next
    <2>6. call \in Call
      BY <2>5 DEF Call, Steps
    <2>7. Shape(call)
      <3>1. CASE next.op = "create"
        BY <2>0, <2>4, <2>5, <3>1 DEF Shape, Call
      <3>2. CASE next.op # "create" /\ next.at > Len(next.batch)
        BY <2>0, <2>4, <2>5, <3>2 DEF Shape, Call
      <3>3. CASE next.op # "create" /\ ~ (next.at > Len(next.batch))
        BY <2>0, <2>4, <2>5, <3>3 DEF Shape, Call
      <3> QED
        BY <3>1, <3>2, <3>3
    <2> QED
      BY <1>t, <2>3, <2>6, <2>7, <2>8, <2>9, OneCall
  <1>13. \A title \in Titles : <<title>> \in Saves /\ Len(<<title>>) = 1
    BY DEF Saves
  <1>14. << >> \in Saves /\ Batches \subseteq Saves
    BY DEF Saves
  <1>15. ASSUME NEW c \in Callers, NoConnection(c) PROVE CallInv'
    <2> DEFINE call == [calls[c] EXCEPT !.pc = "unserved", !.answer = "refused"]
    <2>0. calls[c] \in Call /\ Shape(calls[c]) /\ calls[c].pc = "waiting"
      BY <1>15, <1>t DEF NoConnection
    <2>1. call \in Call
      BY <2>0 DEF Steps, Call, Answers
    <2>2. Shape(call)
      BY <2>0 DEF Shape, Call
    <2> QED
      BY <1>15, <1>t, <2>1, <2>2, OneCall DEF NoConnection
  <1>16. ASSUME NEW c \in Callers, Unserved(c) PROVE CallInv'
    BY <1>16, <1>t, IdleCall, OneCall DEF Unserved, Ended
  <1> QED
    BY <1>0, <1>1, <1>2, <1>3, <1>4, <1>5, <1>6, <1>7, <1>8, <1>9, <1>10, <1>11, <1>12, <1>13, <1>14,
       <1>15, <1>16
    DEF Next, Resume, Create, CreateAll, List

\* The types of the repository.
THEOREM TypeCorrect == Spec => []TypeOK
  <1>1. CallInv => TypeOK
    BY DEF CallInv
  <1> QED
    BY <1>1, CallInit, CallStep, PTL DEF Spec

-----------------------------------------------------------------------------
(***************************************************************************)
(* What a connection holds, by the await its holder is at: a transaction   *)
(* only between the BEGIN and the end of createAll, with exactly the rows  *)
(* of the notes the loop has passed, whose titles differ.                  *)
(***************************************************************************)
Passed(call) == 1 .. call.at - 1

Written(conn, call) ==
    /\ \A title \in Titles : (\E row \in conn.pending : row.title = title)
                                <=> (\E i \in Passed(call) : call.batch[i] = title)
    /\ \A i, j \in Passed(call) : call.batch[i] = call.batch[j] => i = j

Holds(conn, call) ==
    /\ call.pc \notin {"idle", "waiting", "unserved"}
    /\ conn.open => call.op = "createAll" /\ call.pc \in {"insert", "commit", "rollback"}
    /\ call.op = "createAll" /\ call.pc \in {"insert", "commit"} => conn.open
    /\ call.pc \in {"insert", "commit"} => Written(conn, call)

ConnInv ==
    /\ FreeConnsAreClean
    /\ \A k \in Conns : ~ conns[k].open => conns[k].pending = {}
    /\ \A k \in Conns, c \in Callers :
          conns[k].holder = c => /\ Holds(conns[k], calls[c])
                                 /\ \A l \in Conns : conns[l].holder = c => l = k

LEMMA ConnInit == Init => ConnInv
  BY NotesAssumption DEF Init, ConnInv, FreeConnsAreClean, Session

\* A step of one caller and one connection keeps the invariant if the two fit.
LEMMA OneConn ==
    ASSUME CallInv, ConnInv, NEW c \in Callers, NEW k \in Conns, NEW call, NEW conn,
           conns[k].holder = c \/ (conns[k].holder = Nobody /\ calls[c].pc = "waiting"),
           calls' = [calls EXCEPT ![c] = call], conns' = [conns EXCEPT ![k] = conn],
           conn = Session \/ (/\ conn.holder = c /\ Holds(conn, call)
                              /\ ~ conn.open => conn.pending = {})
    PROVE  ConnInv'
  <1>1. conns \in [Conns -> Conn] /\ calls \in [Callers -> Call]
    BY DEF CallInv, TypeOK
  <1>2. \A l \in Conns : l # k => conns[l].holder # c
    BY DEF ConnInv, Holds
  <1>3. \A l \in Conns : conns'[l] = IF l = k THEN conn ELSE conns[l]
    BY <1>1
  <1>4. \A d \in Callers : calls'[d] = IF d = c THEN call ELSE calls[d]
    BY <1>1
  <1>5. Session.holder = Nobody /\ Session.pending = {}
    BY DEF Session
  <1>6. FreeConnsAreClean'
    BY <1>3, NotesAssumption DEF ConnInv, FreeConnsAreClean
  <1>7. \A l \in Conns : ~ conns'[l].open => conns'[l].pending = {}
    BY <1>3, <1>5 DEF ConnInv
  <1>8. ASSUME NEW l \in Conns, NEW d \in Callers, conns'[l].holder = d
        PROVE  /\ Holds(conns'[l], calls'[d])
               /\ \A m \in Conns : conns'[m].holder = d => m = l
    <2>1. CASE d = c
      <3>1. l = k /\ conn.holder = c
        BY <1>2, <1>3, <1>8, <2>1
      <3>2. conn # Session
        BY <3>1, <1>5, NotesAssumption
      <3> QED
        BY <3>1, <3>2, <2>1, <1>2, <1>3, <1>4
    <2>2. CASE d # c
      <3>1. l # k
        BY <1>3, <1>5, <1>8, <2>2, NotesAssumption
      <3>2. conns[l].holder = d /\ calls'[d] = calls[d] /\ conns'[l] = conns[l]
        BY <3>1, <1>3, <1>4, <1>8, <2>2
      <3>3. \A m \in Conns : conns'[m].holder = d => conns[m].holder = d
        BY <1>3, <1>5, <2>2, NotesAssumption
      <3> QED
        BY <3>2, <3>3 DEF ConnInv
    <2> QED
      BY <2>1, <2>2
  <1>9. (\A l \in Conns, d \in Callers :
            conns[l].holder = d => /\ Holds(conns[l], calls[d])
                                   /\ \A m \in Conns : conns[m].holder = d => m = l)'
    BY <1>8
  <1> QED
    BY <1>6, <1>7, <1>9 DEF ConnInv

LEMMA ConnStep == CallInv /\ ConnInv /\ [Next]_vars => ConnInv'
  <1> SUFFICES ASSUME CallInv, ConnInv, [Next]_vars PROVE ConnInv'
    OBVIOUS
  <1> USE NotesAssumption
  <1>0. CASE UNCHANGED vars
    BY <1>0 DEF vars, ConnInv, FreeConnsAreClean, Holds, Written
  <1>t. /\ conns \in [Conns -> Conn] /\ calls \in [Callers -> Call]
        /\ \A c \in Callers : calls[c] \in Call /\ Shape(calls[c])
    BY DEF CallInv, TypeOK
  <1>h. ASSUME NEW c \in Callers, NEW k \in Conns, conns[k].holder = c
        PROVE  /\ conns[k] \in Conn /\ calls[c] \in Call /\ Shape(calls[c])
               /\ Holds(conns[k], calls[c]) /\ (~ conns[k].open => conns[k].pending = {})
    BY <1>t, <1>h DEF ConnInv
  <1>1. ASSUME NEW c \in Callers, NEW op, NEW batch, Begins(c, op, batch) PROVE ConnInv'
    <2>1. /\ calls' = [calls EXCEPT ![c] = NewCall(op, batch)] /\ conns' = conns
          /\ calls[c].pc = "idle"
      BY <1>1 DEF Begins
    <2>2. \A k \in Conns : conns[k].holder # c
      BY <2>1 DEF ConnInv, Holds
    <2>3. \A d \in Callers : d # c => calls'[d] = calls[d]
      BY <2>1, <1>t
    <2>4. \A k \in Conns, d \in Callers :
              conns'[k].holder = d => /\ Holds(conns'[k], calls'[d])
                                      /\ \A l \in Conns : conns'[l].holder = d => l = k
      BY <2>1, <2>2, <2>3 DEF ConnInv
    <2> QED
      BY <2>1, <2>4 DEF ConnInv, FreeConnsAreClean
  <1>2. ASSUME NEW c \in Callers, NEW k \in Conns, GetConnection(c, k) PROVE ConnInv'
    <2> DEFINE call == [calls[c] EXCEPT !.pc = FirstStep(calls[c].op)]
               conn == [conns[k] EXCEPT !.holder = c]
    <2>0. /\ calls[c] \in Call /\ Shape(calls[c]) /\ calls[c].pc = "waiting"
          /\ conns[k].holder = Nobody /\ conns[k] = Session
      BY <1>2, <1>t DEF GetConnection, ConnInv, FreeConnsAreClean
    <2>1. conn.holder = c /\ conn.pending = {} /\ conn.open = FALSE
      BY <2>0 DEF Session
    <2>2. call.pc \in {"insert", "begin", "query"} /\ call.at = 1 /\ call.op = calls[c].op
          /\ (call.pc = "insert" => call.op = "create")
      BY <2>0 DEF FirstStep, Call, Shape
    <2>3. Passed(call) = {}
      BY <2>2 DEF Passed
    <2>4. Holds(conn, call)
      BY <2>1, <2>2, <2>3 DEF Holds, Written
    <2>5. calls' = [calls EXCEPT ![c] = call] /\ conns' = [conns EXCEPT ![k] = conn]
      BY <1>2 DEF GetConnection, GoTo
    <2> HIDE DEF call, conn
    <2> QED
      BY <2>0, <2>1, <2>4, <2>5, OneConn
  <1>3. ASSUME NEW c \in Callers, NEW k \in Conns, BeginTransaction(c, k) PROVE ConnInv'
    <2> DEFINE pc   == IF calls[c].batch = << >> THEN "commit" ELSE "insert"
               call == [calls[c] EXCEPT !.pc = pc]
               conn == [conns[k] EXCEPT !.open = TRUE, !.pending = {}]
    <2>0. calls[c].pc = "begin" /\ conns[k].holder = c
      BY <1>3 DEF BeginTransaction, At
    <2>1. conn.holder = c /\ conn.pending = {} /\ conn.open
      BY <2>0, <1>h DEF Conn
    <2>2. call.pc \in {"insert", "commit"} /\ call.at = 1 /\ call.op = "createAll"
      BY <2>0, <1>h DEF Call, Shape
    <2>3. Passed(call) = {}
      BY <2>2 DEF Passed
    <2>4. Holds(conn, call)
      BY <2>1, <2>2, <2>3 DEF Holds, Written
    <2>5. calls' = [calls EXCEPT ![c] = call] /\ conns' = [conns EXCEPT ![k] = conn]
      BY <1>3 DEF BeginTransaction, GoTo
    <2> HIDE DEF call, conn
    <2> QED
      BY <2>0, <2>1, <2>4, <2>5, OneConn
  <1>4. ASSUME NEW c \in Callers, NEW k \in Conns, InsertDuplicate(c, k) \/ LockWaitTimeout(c, k)
        PROVE  ConnInv'
    <2> PICK answer \in {"duplicate", "refused"} : Reject(c, answer)
      BY <1>4 DEF InsertDuplicate, LockWaitTimeout
    <2> DEFINE call == [calls[c] EXCEPT
                          !.pc = IF calls[c].op = "createAll" THEN "rollback" ELSE "release",
                          !.answer = answer]
    <2>0. calls[c].pc = "insert" /\ conns[k].holder = c /\ UNCHANGED conns
      BY <1>4 DEF InsertDuplicate, LockWaitTimeout, At
    <2>2. /\ call.op = calls[c].op /\ call.pc \in {"rollback", "release"}
          /\ (calls[c].op = "createAll" => call.pc = "rollback")
      BY <2>0, <1>h DEF Call
    <2>4. Holds(conns[k], call)
      BY <2>0, <2>2, <1>h DEF Holds
    <2>5. calls' = [calls EXCEPT ![c] = call] /\ conns' = [conns EXCEPT ![k] = conns[k]]
      BY <2>0, <1>t DEF Reject
    <2> HIDE DEF call
    <2> QED
      BY <2>0, <2>4, <2>5, <1>h, OneConn
  <1>5. ASSUME NEW c \in Callers, NEW k \in Conns, Deadlock(c, k) PROVE ConnInv'
    <2> DEFINE call == [calls[c] EXCEPT
                          !.pc = IF calls[c].op = "createAll" THEN "rollback" ELSE "release",
                          !.answer = "refused"]
               conn == [conns[k] EXCEPT !.open = FALSE, !.pending = {}]
    <2>0. conns[k].holder = c
      BY <1>5 DEF Deadlock, At
    <2>1. conn.holder = c /\ conn.pending = {} /\ ~ conn.open
      BY <2>0, <1>h DEF Conn
    <2>2. call.pc \in {"rollback", "release"}
      BY <2>0, <1>h DEF Call
    <2>4. Holds(conn, call)
      BY <2>1, <2>2 DEF Holds
    <2>5. calls' = [calls EXCEPT ![c] = call] /\ conns' = [conns EXCEPT ![k] = conn]
      BY <1>5 DEF Deadlock, Reject
    <2> HIDE DEF call, conn
    <2> QED
      BY <2>0, <2>1, <2>4, <2>5, OneConn
  <1>6. ASSUME NEW c \in Callers, NEW k \in Conns, Commit(c, k) PROVE ConnInv'
    <2> DEFINE call == [calls[c] EXCEPT !.pc = "committed", !.saved = TRUE]
               conn == [conns[k] EXCEPT !.open = FALSE, !.pending = {}]
    <2>0. conns[k].holder = c
      BY <1>6 DEF Commit, At
    <2>1. conn.holder = c /\ conn.pending = {} /\ ~ conn.open
      BY <2>0, <1>h DEF Conn
    <2>2. call.pc = "committed"
      BY <1>t DEF Call
    <2>4. Holds(conn, call)
      BY <2>1, <2>2 DEF Holds
    <2>5. calls' = [calls EXCEPT ![c] = call] /\ conns' = [conns EXCEPT ![k] = conn]
      BY <1>6 DEF Commit
    <2> HIDE DEF call, conn
    <2> QED
      BY <2>0, <2>1, <2>4, <2>5, OneConn
  <1>12. ASSUME NEW c \in Callers, NEW k \in Conns, Rollback(c, k) PROVE ConnInv'
    <2> DEFINE call == [calls[c] EXCEPT !.pc = "release"]
               conn == [conns[k] EXCEPT !.open = FALSE, !.pending = {}]
    <2>0. conns[k].holder = c
      BY <1>12 DEF Rollback, At
    <2>1. conn.holder = c /\ conn.pending = {} /\ ~ conn.open
      BY <2>0, <1>h DEF Conn
    <2>2. call.pc = "release"
      BY <1>t DEF Call
    <2>4. Holds(conn, call)
      BY <2>1, <2>2 DEF Holds
    <2>5. calls' = [calls EXCEPT ![c] = call] /\ conns' = [conns EXCEPT ![k] = conn]
      BY <1>12 DEF Rollback, GoTo
    <2> HIDE DEF call, conn
    <2> QED
      BY <2>0, <2>1, <2>4, <2>5, OneConn
  <1>7. ASSUME NEW c \in Callers, NEW k \in Conns, Confirmed(c, k) PROVE ConnInv'
    <2> DEFINE call == [calls[c] EXCEPT !.pc = "release", !.answer = "ok"]
    <2>0. conns[k].holder = c /\ calls[c].pc \in {"committed", "query"} /\ UNCHANGED conns
      BY <1>7 DEF Confirmed, At
    <2>1. ~ conns[k].open /\ call.pc = "release"
      BY <2>0, <1>h DEF Holds, Call
    <2>4. Holds(conns[k], call)
      BY <2>1 DEF Holds
    <2>5. calls' = [calls EXCEPT ![c] = call] /\ conns' = [conns EXCEPT ![k] = conns[k]]
      BY <2>0, <1>7, <1>t DEF Confirmed
    <2>6. ~ conns[k].open => conns[k].pending = {}
      BY <2>0, <1>h
    <2> HIDE DEF call
    <2> QED
      BY <2>0, <2>4, <2>5, <2>6, OneConn
  <1>8. ASSUME NEW c \in Callers, NEW k \in Conns, Release(c, k) PROVE ConnInv'
    <2> DEFINE conn == [conns[k] EXCEPT !.holder = Nobody]
    <2>0. conns[k].holder = c /\ calls[c].pc = "release"
      BY <1>8 DEF Release, At
    <2>1. ~ conns[k].open /\ conns[k].pending = {} /\ conns[k] \in Conn
      BY <2>0, <1>h DEF Holds
    <2>2. conn = Session
      <3>1. /\ conn \in Conn /\ conn.holder = Nobody /\ conn.pending = {}
            /\ conn.open = FALSE
        BY <2>1 DEF Conn
      <3> HIDE DEF conn
      <3>2. conn = [holder |-> conn.holder, open |-> conn.open, pending |-> conn.pending]
        BY <3>1 DEF Conn
      <3> QED
        BY <3>1, <3>2 DEF Session
    <2>5. calls' = [calls EXCEPT ![c] = Idle] /\ conns' = [conns EXCEPT ![k] = conn]
      BY <1>8 DEF Release, Ended
    <2> HIDE DEF conn
    <2> QED
      BY <2>0, <2>2, <2>5, OneConn
  <1>9. ASSUME NEW c \in Callers, NEW k \in Conns, LoseConnection(c, k) PROVE ConnInv'
    <2> DEFINE call == [calls[c] EXCEPT !.pc = "release", !.answer = "lost"]
               conn == [Session EXCEPT !.holder = c]
    <2>0. conns[k].holder = c
      BY <1>9 DEF LoseConnection
    <2>1. conn.holder = c /\ conn.pending = {} /\ ~ conn.open /\ call.pc = "release"
      BY <2>0, <1>h DEF Session, Call
    <2>4. Holds(conn, call)
      BY <2>1 DEF Holds
    <2>5. calls' = [calls EXCEPT ![c] = call] /\ conns' = [conns EXCEPT ![k] = conn]
      BY <1>9 DEF LoseConnection
    <2> HIDE DEF call, conn
    <2> QED
      BY <2>0, <2>1, <2>4, <2>5, OneConn
  <1>10. ASSUME Stop PROVE ConnInv'
    <2>1. \A k \in Conns : conns'[k] = Session
      BY <1>10 DEF Stop
    <2>2. Session.holder \notin Callers /\ Session.pending = {}
      BY DEF Session
    <2> QED
      BY <2>1, <2>2 DEF ConnInv, FreeConnsAreClean
  <1>11. ASSUME NEW c \in Callers, NEW k \in Conns, Insert(c, k) PROVE ConnInv'
    <2> DEFINE row  == [id |-> nextId, title |-> Title(c), after |-> calls[c].since]
               next == [calls[c] EXCEPT !.last = nextId, !.at = calls[c].at + 1]
               call == IF next.op = "create" THEN [next EXCEPT !.pc = "committed", !.saved = TRUE]
                       ELSE [next EXCEPT !.pc = IF next.at > Len(next.batch) THEN "commit"
                                                ELSE "insert"]
               conn == IF conns[k].open THEN [conns[k] EXCEPT !.pending = @ \cup {row}] ELSE conns[k]
    <2>0. /\ conns[k].holder = c /\ calls[c].pc = "insert" /\ ~ Taken(c, k)
          /\ calls[c].at \in Nat /\ calls[c].at >= 1
          /\ Holds(conns[k], calls[c]) /\ conns[k] \in Conn
          /\ (~ conns[k].open => conns[k].pending = {})
      BY <1>11, <1>h DEF Insert, At, Call, Shape
    <2>1. /\ next.op = calls[c].op /\ next.batch = calls[c].batch /\ next.at = calls[c].at + 1
          /\ calls[c].op \in {"create", "createAll"}
      BY <2>0, <1>t DEF Call, Shape
    <2>2. calls' = [calls EXCEPT ![c] = call]
      BY <1>11 DEF Insert, Inserted
    <2>3. conns' = [conns EXCEPT ![k] = conn]
      BY <1>11, <1>t DEF Insert
    <2>4. conn.holder = c /\ conn.open = conns[k].open
      BY <2>0 DEF Conn
    <2>5. ~ conn.open => conn.pending = {}
      BY <2>0, <2>4
    <2>6. CASE calls[c].op = "create"
      <3>1. call.pc = "committed" /\ call.op = "create"
        BY <2>1, <2>6, <1>t DEF Call
      <3>2. ~ conns[k].open
        BY <2>0, <2>6 DEF Holds
      <3>3. Holds(conn, call)
        BY <3>1, <3>2, <2>4 DEF Holds
      <3> HIDE DEF call, conn
      <3> QED
        BY <2>0, <2>2, <2>3, <2>4, <2>5, <3>3, OneConn
    <2>7. CASE calls[c].op = "createAll"
      <3>1. /\ call.pc \in {"commit", "insert"} /\ call.op = "createAll"
            /\ call.at = calls[c].at + 1 /\ call.batch = calls[c].batch
        BY <2>1, <2>7, <1>t DEF Call
      <3>2. conns[k].open /\ Written(conns[k], calls[c])
        BY <2>0, <2>7 DEF Holds
      <3>3. conn.pending = conns[k].pending \cup {row} /\ row.title = Title(c)
        BY <3>2, <2>0 DEF Conn
      <3>4. Passed(call) = Passed(calls[c]) \cup {calls[c].at} /\ calls[c].at \notin Passed(calls[c])
        BY <3>1, <2>0 DEF Passed
      <3>5. \A r \in conns[k].pending : r.title # Title(c)
        BY <2>0 DEF Taken
      <3>6. Title(c) \in Titles /\ Title(c) = calls[c].batch[calls[c].at]
        BY <2>0, <1>t, SavesAreBatches DEF Title, Call, Shape
      <3>7. \A i \in Passed(calls[c]) : calls[c].batch[i] # Title(c)
        BY <3>2, <3>5, <3>6 DEF Written
      <3> HIDE DEF call, conn, row, next
      <3>8. Written(conn, call)
        BY <3>1, <3>2, <3>3, <3>4, <3>5, <3>6, <3>7 DEF Written
      <3>9. Holds(conn, call)
        BY <3>1, <3>2, <3>8, <2>4 DEF Holds
      <3> QED
        BY <2>0, <2>2, <2>3, <2>4, <2>5, <3>9, OneConn
    <2> QED
      BY <2>1, <2>6, <2>7
  <1>13. ASSUME NEW c \in Callers, NoConnection(c) \/ Unserved(c) PROVE ConnInv'
    <2>1. conns' = conns /\ calls[c].pc \in {"waiting", "unserved"}
      BY <1>13 DEF NoConnection, Unserved
    <2>2. \A k \in Conns : conns[k].holder # c
      BY <2>1 DEF ConnInv, Holds
    <2>3. \A d \in Callers : d # c => calls'[d] = calls[d]
      BY <1>13, <1>t DEF NoConnection, Unserved, Ended
    <2>4. \A k \in Conns, d \in Callers :
              conns'[k].holder = d => /\ Holds(conns'[k], calls'[d])
                                      /\ \A l \in Conns : conns'[l].holder = d => l = k
      BY <2>1, <2>2, <2>3 DEF ConnInv
    <2> QED
      BY <2>1, <2>4 DEF ConnInv, FreeConnsAreClean
  <1> QED
    BY <1>0, <1>1, <1>2, <1>3, <1>4, <1>5, <1>6, <1>7, <1>8, <1>9, <1>10, <1>11, <1>12, <1>13
    DEF Next, Resume, Create, CreateAll, List

\* A connection in the pool has no transaction, whatever the calls that used it came to.
THEOREM PoolIsClean == Spec => []FreeConnsAreClean
  <1>1. ConnInv => FreeConnsAreClean
    BY DEF ConnInv
  <1> QED
    BY <1>1, CallInit, CallStep, ConnInit, ConnStep, PTL DEF Spec

-----------------------------------------------------------------------------
(***************************************************************************)
(* The rows, committed or waiting in a transaction.  Every step but an     *)
(* INSERT leaves them where they are, throws some away, or commits those   *)
(* of one connection.                                                      *)
(***************************************************************************)
Inserting == \E c \in Callers, k \in Conns : Insert(c, k)

Dropped ==
    /\ rows' = rows
    /\ \A k \in Conns : conns'[k].pending \subseteq conns[k].pending

Committed ==
    \E k \in Conns :
        /\ rows' = rows \cup conns[k].pending
        /\ conns'[k].pending = {}
        /\ \A l \in Conns : l # k => conns'[l].pending = conns[l].pending

LEMMA RowsMove ==
    CallInv /\ ConnInv /\ [Next]_vars => Inserting \/ Dropped \/ Committed
  <1> SUFFICES ASSUME CallInv, ConnInv, [Next]_vars, ~ Inserting PROVE Dropped \/ Committed
    OBVIOUS
  <1>t. conns \in [Conns -> Conn] /\ Session.pending = {}
    BY DEF CallInv, TypeOK, Session
  <1>0. CASE UNCHANGED vars
    BY <1>0 DEF vars, Dropped
  <1>1. ASSUME NEW c \in Callers, NEW op, NEW batch, Begins(c, op, batch) PROVE Dropped
    BY <1>1 DEF Begins, Dropped
  <1>2. ASSUME NEW c \in Callers, NEW k \in Conns,
               GetConnection(c, k) \/ InsertDuplicate(c, k) \/ LockWaitTimeout(c, k)
                 \/ Deadlock(c, k) \/ Confirmed(c, k) \/ Rollback(c, k) \/ Release(c, k)
                 \/ LoseConnection(c, k)
        PROVE  Dropped
    <2>1. \A l \in Conns : l # k => conns'[l] = conns[l]
      BY <1>2, <1>t DEF GetConnection, InsertDuplicate, LockWaitTimeout, Deadlock, Confirmed,
                        Rollback, Release, LoseConnection
    <2>2. conns'[k].pending \in {conns[k].pending, {}}
      BY <1>2, <1>t DEF GetConnection, InsertDuplicate, LockWaitTimeout, Deadlock, Confirmed,
                        Rollback, Release, LoseConnection, Conn, Session
    <2>3. rows' = rows
      BY <1>2 DEF GetConnection, InsertDuplicate, LockWaitTimeout, Deadlock, Confirmed,
                  Rollback, Release, LoseConnection
    <2> QED
      BY <2>1, <2>2, <2>3 DEF Dropped
  <1>3. ASSUME NEW c \in Callers, NEW k \in Conns, BeginTransaction(c, k) \/ Commit(c, k)
        PROVE  Committed
    BY <1>3, <1>t DEF BeginTransaction, Commit, Committed, Conn
  <1>4. CASE Stop
    BY <1>4, <1>t DEF Stop, Dropped
  <1>5. ASSUME NEW c \in Callers, NoConnection(c) \/ Unserved(c) PROVE Dropped
    BY <1>5 DEF NoConnection, Unserved, Dropped
  <1> QED
    BY <1>0, <1>1, <1>2, <1>3, <1>4, <1>5 DEF Next, Resume, Create, CreateAll, List, Inserting

\* What an INSERT adds, and where.
NewRow(c) == [id |-> nextId, title |-> Title(c), after |-> calls[c].since]

LEMMA InsertAdds ==
    ASSUME CallInv, NEW c \in Callers, NEW k \in Conns, Insert(c, k)
    PROVE  /\ NewRow(c).title = Title(c) /\ NewRow(c).id = nextId
           /\ NewRow(c).after = calls[c].since
           /\ \A row \in rows \cup conns[k].pending : row.title # Title(c)
           /\ \A l \in Conns \ {k} : \A row \in conns[l].pending : row.title # Title(c)
           /\ \A l \in Conns \ {k} : conns'[l].pending = conns[l].pending
           /\ \/ /\ rows' = rows /\ conns[k].open
                 /\ conns'[k].pending = conns[k].pending \cup {NewRow(c)}
              \/ /\ rows' = rows \cup {NewRow(c)} /\ ~ conns[k].open
                 /\ conns'[k].pending = conns[k].pending
  <1>1. conns \in [Conns -> Conn]
    BY DEF CallInv, TypeOK
  <1>2. /\ \A row \in rows \cup conns[k].pending : row.title # Title(c)
        /\ \A l \in Conns \ {k} : \A row \in conns[l].pending : row.title # Title(c)
    BY DEF Insert, Blocked, Taken
  <1>3. CASE conns[k].open
    BY <1>1, <1>2, <1>3 DEF Insert, NewRow, Conn
  <1>4. CASE ~ conns[k].open
    BY <1>1, <1>2, <1>4 DEF Insert, NewRow, Conn
  <1> QED
    BY <1>3, <1>4

\* UNIQUE (title) between transactions: no two rows that may still be committed share a title.
TitlesAreUnique ==
    /\ \A a, b \in rows : a.title = b.title => a = b
    /\ \A k \in Conns : \A a \in rows, b \in conns[k].pending : a.title # b.title
    /\ \A k, l \in Conns : \A a \in conns[k].pending, b \in conns[l].pending :
          a.title = b.title => k = l /\ a = b

LEMMA UniqueInit == Init => TitlesAreUnique
  BY DEF Init, TitlesAreUnique, Session

LEMMA UniqueStep == CallInv /\ ConnInv /\ TitlesAreUnique /\ [Next]_vars => TitlesAreUnique'
  <1> SUFFICES ASSUME CallInv, ConnInv, TitlesAreUnique, [Next]_vars PROVE TitlesAreUnique'
    OBVIOUS
  <1>1. CASE Dropped
    BY <1>1 DEF Dropped, TitlesAreUnique
  <1>2. CASE Committed
    <2> PICK k \in Conns : /\ rows' = rows \cup conns[k].pending
                           /\ conns'[k].pending = {}
                           /\ \A l \in Conns : l # k => conns'[l].pending = conns[l].pending
      BY <1>2 DEF Committed
    <2>1. (\A a, b \in rows : a.title = b.title => a = b)'
      BY DEF TitlesAreUnique
    <2>2. (\A l \in Conns : \A a \in rows, b \in conns[l].pending : a.title # b.title)'
      BY DEF TitlesAreUnique
    <2>3. (\A l, m \in Conns : \A a \in conns[l].pending, b \in conns[m].pending :
              a.title = b.title => l = m /\ a = b)'
      BY DEF TitlesAreUnique
    <2> QED
      BY <2>1, <2>2, <2>3 DEF TitlesAreUnique
  <1>3. CASE Inserting
    <2> PICK c \in Callers, k \in Conns : Insert(c, k)
      BY <1>3 DEF Inserting
    <2> HIDE DEF NewRow
    <2>1. CASE rows' = rows
      BY <2>1, InsertAdds DEF TitlesAreUnique
    <2>2. CASE rows' # rows
      BY <2>2, InsertAdds DEF TitlesAreUnique
    <2> QED
      BY <2>1, <2>2
  <1> QED
    BY <1>1, <1>2, <1>3, RowsMove

(***************************************************************************)
(* Ids grow with the calls: a row has a later id than all that was saved   *)
(* when its call began.                                                    *)
(***************************************************************************)
Late(row) == row.after < row.id /\ row.id < nextId

OrderInv ==
    /\ savedTo < nextId
    /\ \A c \in Callers : calls[c].since < nextId /\ calls[c].last < nextId
    /\ \A row \in rows : Late(row)
    /\ \A k \in Conns : \A row \in conns[k].pending : Late(row)

LEMMA OrderInit == Init => OrderInv
  BY DEF Init, OrderInv, Session, Idle

LEMMA OrderStep == CallInv /\ ConnInv /\ OrderInv /\ [Next]_vars => OrderInv'
  <1> SUFFICES ASSUME CallInv, ConnInv, OrderInv, [Next]_vars PROVE OrderInv'
    OBVIOUS
  <1>t. /\ nextId \in Nat /\ savedTo \in Nat /\ calls \in [Callers -> Call]
        /\ conns \in [Conns -> Conn] /\ rows \in SUBSET Row
        /\ \A c \in Callers : calls[c].since \in Nat /\ calls[c].last \in Nat
    BY DEF CallInv, TypeOK, Call
  <1>1. CASE ~ Inserting
    <2>1. nextId' = nextId
      BY <1>1 DEF Next, Resume, Create, CreateAll, List, Inserting, Begins, GetConnection,
                  BeginTransaction, InsertDuplicate, LockWaitTimeout, Deadlock, Commit, Confirmed,
                  Rollback, Release, LoseConnection, Stop, NoConnection, Unserved, vars
    <2>2. /\ \A row \in rows' : Late(row)
          /\ \A k \in Conns : \A row \in conns'[k].pending : Late(row)
      <3>1. CASE Dropped
        BY <3>1 DEF Dropped, OrderInv
      <3>2. CASE Committed
        BY <3>2 DEF Committed, OrderInv
      <3> QED
        BY <1>1, <3>1, <3>2, RowsMove
    <2>3. \A row : Late(row) => Late(row)'
      BY <2>1 DEF Late
    <2>4. savedTo' \in {savedTo} \cup {calls[c].last : c \in Callers}
      <3>1. ASSUME NEW c \in Callers, NEW k \in Conns, Release(c, k)
            PROVE  savedTo' \in {savedTo} \cup {calls[d].last : d \in Callers}
        BY <3>1 DEF Release, Resolved
      <3> QED
        BY <3>1, <1>1 DEF Next, Resume, Create, CreateAll, List, Inserting, Begins, GetConnection,
                  BeginTransaction, InsertDuplicate, LockWaitTimeout, Deadlock, Commit, Confirmed,
                  Rollback, LoseConnection, Stop, NoConnection, Unserved, vars
    <2>5. savedTo' < nextId
      BY <2>4 DEF OrderInv
    <2>6. ASSUME NEW d \in Callers
          PROVE  /\ calls'[d].since \in {calls[d].since, savedTo, 0}
                 /\ calls'[d].last \in {calls[d].last, 0}
      <3> USE <1>t DEF Call
      <3>0. Idle.since = 0 /\ Idle.last = 0
        BY DEF Idle
      <3>1. ASSUME NEW c \in Callers, NEW op, NEW batch, Begins(c, op, batch)
            PROVE  /\ calls'[d].since \in {calls[d].since, savedTo, 0}
                   /\ calls'[d].last \in {calls[d].last, 0}
        BY <3>1 DEF Begins, NewCall
      <3>2. ASSUME NEW c \in Callers, NEW answer, Reject(c, answer)
            PROVE  /\ calls'[d].since \in {calls[d].since, savedTo, 0}
                   /\ calls'[d].last \in {calls[d].last, 0}
        BY <3>2 DEF Reject
      <3>3. ASSUME NEW c \in Callers, NEW pc, GoTo(c, pc)
            PROVE  /\ calls'[d].since \in {calls[d].since, savedTo, 0}
                   /\ calls'[d].last \in {calls[d].last, 0}
        BY <3>3 DEF GoTo
      <3>4. ASSUME NEW c \in Callers, NEW k \in Conns, Commit(c, k) \/ Confirmed(c, k)
                     \/ Release(c, k) \/ LoseConnection(c, k)
            PROVE  /\ calls'[d].since \in {calls[d].since, savedTo, 0}
                   /\ calls'[d].last \in {calls[d].last, 0}
        <4>1. CASE Commit(c, k)
          BY <4>1 DEF Commit
        <4>2. CASE Confirmed(c, k)
          BY <4>2 DEF Confirmed
        <4>3. CASE Release(c, k)
          BY <4>3, <3>0 DEF Release, Ended
        <4>4. CASE LoseConnection(c, k)
          BY <4>4 DEF LoseConnection
        <4> QED
          BY <3>4, <4>1, <4>2, <4>3, <4>4
      <3>5. CASE Stop
        BY <3>5, <3>0 DEF Stop
      <3>6. CASE UNCHANGED vars
        BY <3>6 DEF vars
      <3>7. ASSUME NEW c \in Callers, NEW k \in Conns,
                   InsertDuplicate(c, k) \/ LockWaitTimeout(c, k) \/ Deadlock(c, k)
            PROVE  /\ calls'[d].since \in {calls[d].since, savedTo, 0}
                   /\ calls'[d].last \in {calls[d].last, 0}
        <4>1. Reject(c, "duplicate") \/ Reject(c, "refused")
          BY <3>7 DEF InsertDuplicate, LockWaitTimeout, Deadlock
        <4> QED
          BY <4>1, <3>2
      <3>8. ASSUME NEW c \in Callers, NEW k \in Conns,
                   GetConnection(c, k) \/ BeginTransaction(c, k) \/ Rollback(c, k)
            PROVE  /\ calls'[d].since \in {calls[d].since, savedTo, 0}
                   /\ calls'[d].last \in {calls[d].last, 0}
        <4>1. \E pc : GoTo(c, pc)
          BY <3>8 DEF GetConnection, BeginTransaction, Rollback
        <4> QED
          BY <4>1, <3>3
      <3>9. ASSUME NEW c \in Callers, NoConnection(c) \/ Unserved(c)
            PROVE  /\ calls'[d].since \in {calls[d].since, savedTo, 0}
                   /\ calls'[d].last \in {calls[d].last, 0}
        <4>1. CASE NoConnection(c)
          BY <4>1 DEF NoConnection
        <4>2. CASE Unserved(c)
          BY <4>2, <3>0 DEF Unserved, Ended
        <4> QED
          BY <3>9, <4>1, <4>2
      <3> QED
        BY <1>1, <3>1, <3>4, <3>5, <3>6, <3>7, <3>8, <3>9
        DEF Next, Resume, Create, CreateAll, List, Inserting
    <2>7. 0 < nextId
      BY <1>t DEF OrderInv
    <2>8. \A d \in Callers : calls'[d].since < nextId /\ calls'[d].last < nextId
      BY <2>6, <2>7 DEF OrderInv
    <2> QED
      BY <2>1, <2>2, <2>3, <2>5, <2>8 DEF OrderInv
  <1>2. CASE Inserting
    <2> PICK c \in Callers, k \in Conns : Insert(c, k)
      BY <1>2 DEF Inserting
    <2>1. nextId' = nextId + 1 /\ savedTo' = savedTo
      BY DEF Insert
    <2>2. \A row \in Row : Late(row) => Late(row)'
      BY <2>1, <1>t DEF Late, Row
    <2> PICK new : new = NewRow(c)
      OBVIOUS
    <2>a. new.id = nextId /\ new.after = calls[c].since
      BY InsertAdds
    <2>3. Late(new)'
      BY <2>1, <2>a, <1>t DEF Late, OrderInv
    <2>b. /\ rows' \subseteq rows \cup {new}
          /\ \A l \in Conns : conns'[l].pending \subseteq conns[l].pending \cup {new}
      BY InsertAdds
    <2>4. \A row \in rows' : Late(row)'
      BY <2>2, <2>3, <2>b, <1>t DEF OrderInv
    <2>5. \A l \in Conns : conns[l].pending \subseteq Row
      BY <1>t DEF Conn
    <2>6. \A l \in Conns : \A row \in conns'[l].pending : Late(row)'
      BY <2>2, <2>3, <2>b, <2>5 DEF OrderInv
    <2>7. \A d \in Callers : /\ calls'[d].since = calls[d].since
                             /\ calls'[d].last \in {calls[d].last, nextId}
      BY <1>t DEF Insert, Inserted, Call
    <2> QED
      BY <2>1, <2>4, <2>6, <2>7, <1>t DEF OrderInv
  <1> QED
    BY <1>1, <1>2

\* A note whose call had resolved when the call of another began is listed before it.
THEOREM ListFollowsSaves == Spec => []ListedInOrderSaved
  <1>1. CallInv /\ OrderInv => ListedInOrderSaved
    <2> SUFFICES ASSUME CallInv, OrderInv, NEW a \in rows, NEW b \in rows, a.id <= b.after
                 PROVE  a.id < b.id
      BY DEF ListedInOrderSaved, ListedBefore
    <2>1. a \in Row /\ b \in Row /\ b.after < b.id
      BY DEF CallInv, TypeOK, OrderInv, Late
    <2> QED
      BY <2>1 DEF Row
  <1> QED
    BY <1>1, CallInit, CallStep, ConnInit, ConnStep, OrderInit, OrderStep, PTL DEF Spec

-----------------------------------------------------------------------------
(***************************************************************************)
(* The refinement: a call rejects as a duplicate only if its title is in   *)
(* the table or comes twice in its batch.                                  *)
(***************************************************************************)
TitlesIn(set) == {row.title : row \in set}

DuplicateInv ==
    \A c \in Callers : calls[c].answer = "duplicate" =>
        Ledger!Repeats(calls[c].batch) \/ Ledger!SavedBy(calls[c].batch) \cap TitlesIn(rows) # {}

LEMMA DuplicateInit == Init => DuplicateInv
  BY DEF Init, DuplicateInv, Idle

LEMMA DuplicateStep ==
    CallInv /\ ConnInv /\ DuplicateInv /\ [Next]_vars => DuplicateInv'
  <1> SUFFICES ASSUME CallInv, ConnInv, DuplicateInv, [Next]_vars PROVE DuplicateInv'
    OBVIOUS
  <1> DEFINE Known(d) == /\ calls'[d].answer = "duplicate"
                         => /\ calls[d].answer = "duplicate"
                            /\ calls'[d].batch = calls[d].batch
  <1>t. calls \in [Callers -> Call] /\ \A d \in Callers : calls[d] \in Call /\ Shape(calls[d])
    BY DEF CallInv, TypeOK
  <1>r. rows \subseteq rows'
    <2>1. CASE Inserting
      BY <2>1, InsertAdds DEF Inserting
    <2> QED
      BY <2>1, RowsMove DEF Dropped, Committed
  <1>k. ASSUME \A d \in Callers : Known(d) PROVE DuplicateInv'
    <2> SUFFICES ASSUME NEW d \in Callers, calls'[d].answer = "duplicate"
                 PROVE  \/ Ledger!Repeats(calls'[d].batch)
                        \/ Ledger!SavedBy(calls'[d].batch) \cap TitlesIn(rows') # {}
      BY DEF DuplicateInv, TitlesIn, Ledger!Repeats, Ledger!SavedBy
    <2>1. calls[d].answer = "duplicate" /\ calls'[d].batch = calls[d].batch
      BY <1>k
    <2>2. \/ Ledger!Repeats(calls[d].batch)
          \/ Ledger!SavedBy(calls[d].batch) \cap TitlesIn(rows) # {}
      BY <2>1 DEF DuplicateInv
    <2>3. TitlesIn(rows) \subseteq TitlesIn(rows')
      BY <1>r DEF TitlesIn
    <2> QED
      BY <2>1, <2>2, <2>3
  <1>0. CASE UNCHANGED vars
    BY <1>0, <1>k DEF vars
  <1>1. ASSUME NEW c \in Callers, NEW op, NEW batch, Begins(c, op, batch)
        PROVE  \A d \in Callers : Known(d)
    BY <1>1, <1>t DEF Begins, NewCall
  <1>2. ASSUME NEW c \in Callers, NEW k \in Conns,
               LockWaitTimeout(c, k) \/ Deadlock(c, k)
        PROVE  \A d \in Callers : Known(d)
    <2>1. CASE LockWaitTimeout(c, k)
      BY <2>1, <1>t DEF LockWaitTimeout, Reject, Call
    <2>2. CASE Deadlock(c, k)
      BY <2>2, <1>t DEF Deadlock, Reject, Call
    <2> QED
      BY <1>2, <2>1, <2>2
  <1>3. ASSUME NEW c \in Callers, NEW k \in Conns,
               GetConnection(c, k) \/ BeginTransaction(c, k) \/ Rollback(c, k)
        PROVE  \A d \in Callers : Known(d)
    <2>1. CASE GetConnection(c, k)
      BY <2>1, <1>t DEF GetConnection, GoTo, Call
    <2>2. CASE BeginTransaction(c, k)
      BY <2>2, <1>t DEF BeginTransaction, GoTo, Call
    <2>3. CASE Rollback(c, k)
      BY <2>3, <1>t DEF Rollback, GoTo, Call
    <2> QED
      BY <1>3, <2>1, <2>2, <2>3
  <1>4. ASSUME NEW c \in Callers, NEW k \in Conns,
               Commit(c, k) \/ Confirmed(c, k) \/ LoseConnection(c, k)
        PROVE  \A d \in Callers : Known(d)
    <2>1. CASE Commit(c, k)
      BY <2>1, <1>t DEF Commit, Call
    <2>2. CASE Confirmed(c, k)
      BY <2>2, <1>t DEF Confirmed, Call
    <2>3. CASE LoseConnection(c, k)
      BY <2>3, <1>t DEF LoseConnection, Call
    <2> QED
      BY <1>4, <2>1, <2>2, <2>3
  <1>5. ASSUME NEW c \in Callers, NEW k \in Conns, Release(c, k) PROVE \A d \in Callers : Known(d)
    BY <1>5, <1>t DEF Release, Ended, Idle
  <1>6. CASE Stop
    BY <1>6, <1>k DEF Stop, Idle
  <1>7. ASSUME NEW c \in Callers, NEW k \in Conns, Insert(c, k) PROVE \A d \in Callers : Known(d)
    BY <1>7, <1>t DEF Insert, Inserted, Call
  <1>8. ASSUME NEW c \in Callers, NEW k \in Conns, InsertDuplicate(c, k) PROVE DuplicateInv'
    <2>0. /\ calls[c].pc = "insert" /\ conns[k].holder = c /\ Taken(c, k) /\ rows' = rows
          /\ Reject(c, "duplicate")
      BY <1>8 DEF InsertDuplicate, At
    <2>1. /\ calls[c].at \in 1 .. Len(calls[c].batch) /\ calls[c].batch \in Seq(Titles)
          /\ calls[c].at \in Nat /\ Len(calls[c].batch) \in Nat
      BY <2>0, <1>t, SavesAreBatches DEF Shape, Call
    <2>2. calls[c].at \in DOMAIN calls[c].batch /\ Title(c) = calls[c].batch[calls[c].at]
          /\ Title(c) \in Titles
      BY <2>1 DEF Title
    <2>3. calls'[c].batch = calls[c].batch
      BY <2>0, <1>t DEF Reject, Call
    <2>6. Ledger!Repeats(calls[c].batch) \/ Ledger!SavedBy(calls[c].batch) \cap TitlesIn(rows) # {}
      <3>1. CASE \E row \in rows : row.title = Title(c)
        <4>1. Title(c) \in Ledger!SavedBy(calls[c].batch) /\ Title(c) \in TitlesIn(rows)
          BY <2>2, <3>1 DEF Ledger!SavedBy, TitlesIn
        <4> QED
          BY <4>1
      <3>2. CASE \E row \in conns[k].pending : row.title = Title(c)
        <4>1. Written(conns[k], calls[c])
          BY <2>0 DEF ConnInv, Holds
        <4>2. PICK i \in Passed(calls[c]) : calls[c].batch[i] = Title(c)
          BY <4>1, <2>2, <3>2 DEF Written
        <4>3. i \in DOMAIN calls[c].batch /\ i # calls[c].at
          BY <4>2, <2>1 DEF Passed
        <4> QED
          BY <4>2, <4>3, <2>2 DEF Ledger!Repeats
      <3> QED
        BY <3>1, <3>2, <2>0 DEF Taken
    <2>7. \A d \in Callers \ {c} : calls'[d] = calls[d]
      BY <2>0, <1>t DEF Reject
    <2> QED
      BY <2>0, <2>3, <2>6, <2>7 DEF DuplicateInv, TitlesIn, Ledger!Repeats, Ledger!SavedBy
  <1>9. ASSUME NEW c \in Callers, NoConnection(c) \/ Unserved(c) PROVE \A d \in Callers : Known(d)
    <2>1. CASE NoConnection(c)
      BY <2>1, <1>t DEF NoConnection, Call
    <2>2. CASE Unserved(c)
      BY <2>2, <1>t DEF Unserved, Ended, Idle
    <2> QED
      BY <1>9, <2>1, <2>2
  <1> QED
    BY <1>k, <1>0, <1>1, <1>2, <1>3, <1>4, <1>5, <1>6, <1>7, <1>8, <1>9
    DEF Next, Resume, Create, CreateAll, List

LEMMA LedgerInit == Init => Ledger!Init
  <1> SUFFICES ASSUME Init PROVE Ledger!Init
    OBVIOUS
  <1>1. \A c \in Callers : /\ calls[c].pc = "idle" /\ calls[c].batch = << >> /\ ~ calls[c].saved
                           /\ LedgerState(calls[c]) = "idle"
    BY DEF Init, Idle, LedgerState
  <1> QED
    BY <1>1 DEF Init, Ledger!Init

(***************************************************************************)
(* A step of one caller, as the ledger sees it.                            *)
(***************************************************************************)
States == [c \in Callers |-> LedgerState(calls[c])]
Sent   == [c \in Callers |-> calls[c].batch]
Done   == {c \in Callers : calls[c].saved}

LEMMA OneLedger ==
    ASSUME calls \in [Callers -> Call], NEW c \in Callers, NEW call,
           calls' = [calls EXCEPT ![c] = call]
    PROVE  /\ States' = [States EXCEPT ![c] = LedgerState(call)]
           /\ Sent' = [Sent EXCEPT ![c] = call.batch]
           /\ Done' = IF call.saved THEN Done \cup {c} ELSE Done \ {c}
  <1>1. \A d \in Callers : calls'[d] = IF d = c THEN call ELSE calls[d]
    OBVIOUS
  <1>2. States' = [States EXCEPT ![c] = LedgerState(call)]
    BY <1>1 DEF States
  <1>3. Sent' = [Sent EXCEPT ![c] = call.batch]
    BY <1>1 DEF Sent
  <1>4. Done' = IF call.saved THEN Done \cup {c} ELSE Done \ {c}
    BY <1>1 DEF Done
  <1> QED
    BY <1>2, <1>3, <1>4

\* What leaves the state, the batch and the titles of a call alone is no step of the ledger.
LEMMA Unseen ==
    ASSUME calls \in [Callers -> Call], NEW c \in Callers, NEW call,
           calls' = [calls EXCEPT ![c] = call],
           LedgerState(call) = LedgerState(calls[c]), call.batch = calls[c].batch,
           call.saved = calls[c].saved, TitlesIn(rows)' = TitlesIn(rows)
    PROVE  UNCHANGED Ledger!vars
  <1>1. \A d \in Callers : calls'[d] = IF d = c THEN call ELSE calls[d]
    OBVIOUS
  <1>2. States' = States
    BY <1>1 DEF States
  <1>3. Sent' = Sent
    BY <1>1 DEF Sent
  <1>4. Done' = Done
    BY <1>1 DEF Done
  <1> QED
    BY <1>2, <1>3, <1>4 DEF Ledger!vars, States, Sent, Done, TitlesIn

\* A call is answered: the answer fits what became of its titles.
LEMMA Answered ==
    ASSUME CallInv, NEW c \in Callers, NEW call, calls' = [calls EXCEPT ![c] = call],
           calls[c].pc \notin {"idle", "release", "unserved"}, call.pc \in {"release", "unserved"},
           call.batch = calls[c].batch, call.saved = calls[c].saved,
           TitlesIn(rows)' = TitlesIn(rows), call.answer \in Answers \ {"none"},
           Ledger!Fits(c, call.answer)
    PROVE  Ledger!Answer(c)
  <1>t. calls \in [Callers -> Call]
    BY DEF CallInv, TypeOK
  <1>1. \A d \in Callers : calls'[d] = IF d = c THEN call ELSE calls[d]
    BY <1>t
  <1>0. LedgerState(calls[c]) = "running" /\ LedgerState(call) = call.answer
    BY DEF LedgerState
  <1>2. States' = [States EXCEPT ![c] = LedgerState(call)]
    BY <1>t, OneLedger
  <1>6. States[c] = "running" /\ States' = [States EXCEPT ![c] = call.answer]
    <2>1. States[c] = LedgerState(calls[c])
      BY DEF States
    <2> QED
      BY <1>0, <1>2, <2>1
  <1>3. Sent' = Sent
    BY <1>1 DEF Sent
  <1>4. Done' = Done
    BY <1>1 DEF Done
  <1>5. call.answer \in Ledger!Answers
    BY DEF Answers, Ledger!Answers
  <1> QED
    BY <1>3, <1>4, <1>5, <1>6 DEF Ledger!Answer, States, Sent, Done, TitlesIn

\* What a connection has inserted is what Ledger!Save adds, and it is not there yet.
LEMMA Saved ==
    ASSUME CallInv, NEW c \in Callers, NEW call, calls' = [calls EXCEPT ![c] = call],
           calls[c].pc \notin {"idle", "release", "unserved"},
           call.pc \notin {"idle", "release", "unserved"},
           call.batch = calls[c].batch, ~ calls[c].saved, call.saved,
           ~ Ledger!Repeats(calls[c].batch),
           Ledger!SavedBy(calls[c].batch) \cap TitlesIn(rows) = {},
           TitlesIn(rows)' = TitlesIn(rows) \cup Ledger!SavedBy(calls[c].batch)
    PROVE  Ledger!Save(c)
  <1>t. calls \in [Callers -> Call]
    BY DEF CallInv, TypeOK
  <1>1. \A d \in Callers : calls'[d] = IF d = c THEN call ELSE calls[d]
    BY <1>t
  <1>0. LedgerState(calls[c]) = "running" /\ LedgerState(call) = "running"
    BY DEF LedgerState
  <1>2. States' = States
    BY <1>0, <1>1 DEF States
  <1>5. States[c] = "running"
    BY <1>0 DEF States
  <1>3. Sent' = Sent /\ Sent[c] = calls[c].batch
    BY <1>1 DEF Sent
  <1>4. Done' = Done \cup {c} /\ c \notin Done
    BY <1>1 DEF Done
  <1>6. ~ Ledger!Repeats(Sent[c]) /\ Ledger!SavedBy(Sent[c]) = Ledger!SavedBy(calls[c].batch)
    BY <1>3
  <1>7. /\ Ledger!SavedBy(Sent[c]) \cap TitlesIn(rows) = {}
        /\ TitlesIn(rows)' = TitlesIn(rows) \cup Ledger!SavedBy(Sent[c])
    BY <1>6
  <1> QED
    BY <1>2, <1>3, <1>4, <1>5, <1>6, <1>7
    DEF Ledger!Save, Ledger!Repeats, Ledger!SavedBy, States, Sent, Done, TitlesIn

LEMMA FitsCall ==
    ASSUME NEW c \in Callers, NEW answer,
           answer = "ok" => calls[c].saved \/ calls[c].batch = << >>,
           answer \in {"duplicate", "refused"} => ~ calls[c].saved,
           answer = "duplicate" => \/ Ledger!Repeats(calls[c].batch)
                                   \/ Ledger!SavedBy(calls[c].batch) \cap TitlesIn(rows) # {}
    PROVE  Ledger!Fits(c, answer)
  BY DEF Ledger!Fits, Ledger!Repeats, Ledger!SavedBy, TitlesIn

LEMMA LedgerStep ==
    CallInv /\ ConnInv /\ TitlesAreUnique /\ DuplicateInv /\ DuplicateInv' /\ [Next]_vars
        => [Ledger!Next]_(Ledger!vars)
  <1> SUFFICES ASSUME CallInv, ConnInv, TitlesAreUnique, DuplicateInv, DuplicateInv', [Next]_vars
               PROVE  [Ledger!Next]_(Ledger!vars)
    OBVIOUS
  <1>t. /\ calls \in [Callers -> Call] /\ conns \in [Conns -> Conn] /\ rows \in SUBSET Row
        /\ \A c \in Callers : calls[c] \in Call /\ Shape(calls[c])
    BY DEF CallInv, TypeOK
  <1>a. ASSUME NEW c \in Callers, Ledger!Call(c) \/ Ledger!Save(c) \/ Ledger!Answer(c) \/ Ledger!Return(c)
        PROVE  Ledger!Next
    BY <1>a DEF Ledger!Next
  <1>0. CASE UNCHANGED vars
    BY <1>0 DEF vars, Ledger!vars, LedgerState
  <1>1. ASSUME NEW c \in Callers, NEW op \in {"create", "createAll", "list"}, NEW batch \in Saves,
               Begins(c, op, batch)
        PROVE  Ledger!Call(c)
    <2> DEFINE call == NewCall(op, batch)
    <2>1. calls[c] = Idle /\ calls' = [calls EXCEPT ![c] = call] /\ rows' = rows
      BY <1>1, <1>t DEF Begins, Shape
    <2>2. /\ LedgerState(Idle) = "idle" /\ ~ Idle.saved
          /\ LedgerState(call) = "running" /\ call.batch = batch /\ ~ call.saved
      BY DEF LedgerState, Idle, NewCall
    <2> HIDE DEF call
    <2>5. /\ States' = [States EXCEPT ![c] = LedgerState(call)]
          /\ Sent' = [Sent EXCEPT ![c] = call.batch]
          /\ Done' = IF call.saved THEN Done \cup {c} ELSE Done \ {c}
      BY <1>t, <2>1, OneLedger
    <2>3. /\ States' = [States EXCEPT ![c] = "running"] /\ Sent' = [Sent EXCEPT ![c] = batch]
          /\ Done' = Done \ {c}
      BY <2>2, <2>5
    <2>4. States[c] = "idle" /\ c \notin Done
      BY <2>1, <2>2 DEF States, Done
    <2> QED
      BY <2>1, <2>3, <2>4 DEF Ledger!Call, States, Sent, Done
  <1>2. ASSUME NEW c \in Callers, NEW k \in Conns, GetConnection(c, k) PROVE UNCHANGED Ledger!vars
    <2> DEFINE call == [calls[c] EXCEPT !.pc = FirstStep(calls[c].op)]
    <2>1. /\ calls' = [calls EXCEPT ![c] = call] /\ calls[c].pc = "waiting" /\ rows' = rows
      BY <1>2 DEF GetConnection, GoTo
    <2>2. /\ call.pc \in {"insert", "begin", "query"} /\ call.batch = calls[c].batch
          /\ call.saved = calls[c].saved
      BY <1>t DEF FirstStep, Call
    <2> HIDE DEF call
    <2>3. LedgerState(call) = LedgerState(calls[c])
      BY <2>1, <2>2 DEF LedgerState
    <2> QED
      BY <1>t, <2>1, <2>2, <2>3, Unseen DEF TitlesIn
  <1>3. ASSUME NEW c \in Callers, NEW k \in Conns, BeginTransaction(c, k) PROVE UNCHANGED Ledger!vars
    <2> DEFINE pc   == IF calls[c].batch = << >> THEN "commit" ELSE "insert"
               call == [calls[c] EXCEPT !.pc = pc]
    <2>1. /\ calls' = [calls EXCEPT ![c] = call] /\ calls[c].pc = "begin"
          /\ conns[k].holder = c /\ rows' = rows \cup conns[k].pending
      BY <1>3 DEF BeginTransaction, GoTo, At
    <2>2. /\ call.pc \in {"insert", "commit"} /\ call.batch = calls[c].batch
          /\ call.saved = calls[c].saved
      BY <1>t DEF Call
    <2>4. rows' = rows
      BY <2>1 DEF ConnInv, Holds
    <2> HIDE DEF call
    <2>3. LedgerState(call) = LedgerState(calls[c])
      BY <2>1, <2>2 DEF LedgerState
    <2> QED
      BY <1>t, <2>1, <2>2, <2>3, <2>4, Unseen DEF TitlesIn
  <1>4. ASSUME NEW c \in Callers, NEW k \in Conns, NEW answer \in {"duplicate", "refused"},
               calls[c].pc = "insert", conns[k].holder = c, Reject(c, answer), rows' = rows
        PROVE  Ledger!Answer(c) \/ UNCHANGED Ledger!vars
    <2> DEFINE call == [calls[c] EXCEPT
                          !.pc = IF calls[c].op = "createAll" THEN "rollback" ELSE "release",
                          !.answer = answer]
    <2>1. calls' = [calls EXCEPT ![c] = call]
      BY <1>4 DEF Reject
    <2>2. /\ call.batch = calls[c].batch /\ call.saved = calls[c].saved /\ call.answer = answer
          /\ call.pc = IF calls[c].op = "createAll" THEN "rollback" ELSE "release"
      BY <1>t DEF Call
    <2> HIDE DEF call
    <2>3. calls'[c] = call
      BY <1>t, <2>1
    <2>4. CASE calls[c].op = "createAll"
      <3>1. LedgerState(call) = LedgerState(calls[c])
        BY <1>4, <2>2, <2>4 DEF LedgerState
      <3> QED
        BY <1>t, <1>4, <2>1, <2>2, <3>1, Unseen DEF TitlesIn
    <2>5. CASE calls[c].op # "createAll"
      <3>1. answer = "duplicate" => \/ Ledger!Repeats(calls[c].batch)
                                    \/ Ledger!SavedBy(calls[c].batch) \cap TitlesIn(rows) # {}
        <4>1. calls'[c].answer = answer /\ calls'[c].batch = calls[c].batch /\ rows' = rows
          BY <1>4, <2>2, <2>3
        <4>2. calls'[c].answer = "duplicate" =>
                 (Ledger!Repeats(calls[c].batch) \/ Ledger!SavedBy(calls[c].batch) \cap TitlesIn(rows) # {})
          BY <4>1 DEF DuplicateInv, TitlesIn, Ledger!Repeats, Ledger!SavedBy
        <4> QED
          BY <4>1, <4>2
      <3>2. ~ calls[c].saved
        BY <1>t, <1>4 DEF Shape
      <3>3. Ledger!Fits(c, answer)
        BY <3>1, <3>2, <1>4, FitsCall
      <3>4. answer \in Answers \ {"none"}
        BY <1>4 DEF Answers
      <3> QED
        BY <1>4, <2>1, <2>2, <2>5, <3>3, <3>4, Answered DEF TitlesIn
    <2> QED
      BY <2>4, <2>5
  <1>5. ASSUME NEW c \in Callers, NEW k \in Conns,
               InsertDuplicate(c, k) \/ LockWaitTimeout(c, k) \/ Deadlock(c, k)
        PROVE  Ledger!Answer(c) \/ UNCHANGED Ledger!vars
    BY <1>4, <1>5 DEF InsertDuplicate, LockWaitTimeout, Deadlock, At
  <1>6. ASSUME NEW c \in Callers, NEW k \in Conns, Commit(c, k) PROVE Ledger!Save(c)
    <2> DEFINE call == [calls[c] EXCEPT !.pc = "committed", !.saved = TRUE]
    <2>1. /\ calls' = [calls EXCEPT ![c] = call] /\ calls[c].pc = "commit"
          /\ conns[k].holder = c /\ rows' = rows \cup conns[k].pending
      BY <1>6 DEF Commit, At
    <2>2. call.batch = calls[c].batch /\ call.saved /\ call.pc = "committed"
      BY <1>t DEF Call
    <2>3. /\ ~ calls[c].saved /\ calls[c].at = Len(calls[c].batch) + 1
          /\ calls[c].batch \in Seq(Titles)
      BY <1>t, <2>1, SavesAreBatches DEF Shape, Call
    <2>4. Written(conns[k], calls[c]) /\ Passed(calls[c]) = DOMAIN calls[c].batch
      BY <2>1, <2>3 DEF ConnInv, Holds, Passed
    <2>5. ~ Ledger!Repeats(calls[c].batch)
      BY <2>4 DEF Written, Ledger!Repeats
    <2>6. TitlesIn(conns[k].pending) = Ledger!SavedBy(calls[c].batch)
      <3>1. \A row \in conns[k].pending : row.title \in Titles
        BY <1>t DEF Conn, Row
      <3>2. \A i \in DOMAIN calls[c].batch : calls[c].batch[i] \in Titles
        BY <2>3
      <3> QED
        BY <2>4, <3>1, <3>2 DEF Written, TitlesIn, Ledger!SavedBy
    <2>7. TitlesIn(conns[k].pending) \cap TitlesIn(rows) = {}
      BY DEF TitlesAreUnique, TitlesIn
    <2>8. TitlesIn(rows)' = TitlesIn(rows) \cup TitlesIn(conns[k].pending)
      BY <2>1 DEF TitlesIn
    <2>9. /\ Ledger!SavedBy(calls[c].batch) \cap TitlesIn(rows) = {}
          /\ TitlesIn(rows)' = TitlesIn(rows) \cup Ledger!SavedBy(calls[c].batch)
      BY <2>6, <2>7, <2>8
    <2> HIDE DEF call
    <2> QED
      BY <2>1, <2>2, <2>3, <2>5, <2>9, Saved
  <1>7. ASSUME NEW c \in Callers, NEW k \in Conns, Confirmed(c, k) PROVE Ledger!Answer(c)
    <2> DEFINE call == [calls[c] EXCEPT !.pc = "release", !.answer = "ok"]
    <2>1. /\ calls' = [calls EXCEPT ![c] = call] /\ calls[c].pc \in {"committed", "query"} /\ rows' = rows
      BY <1>7 DEF Confirmed, At
    <2>2. /\ call.batch = calls[c].batch /\ call.saved = calls[c].saved /\ call.answer = "ok"
          /\ call.pc = "release"
      BY <1>t DEF Call
    <2>3. calls[c].saved \/ calls[c].batch = << >>
      BY <1>t, <2>1 DEF Shape
    <2>4. Ledger!Fits(c, "ok") /\ "ok" \in Answers \ {"none"}
      BY <2>3, FitsCall DEF Answers
    <2> HIDE DEF call
    <2> QED
      BY <2>1, <2>2, <2>4, Answered DEF TitlesIn
  <1>8. ASSUME NEW c \in Callers, NEW k \in Conns, Rollback(c, k) PROVE Ledger!Answer(c)
    <2> DEFINE call == [calls[c] EXCEPT !.pc = "release"]
    <2>1. /\ calls' = [calls EXCEPT ![c] = call] /\ calls[c].pc = "rollback" /\ rows' = rows
      BY <1>8 DEF Rollback, GoTo, At
    <2>2. /\ call.batch = calls[c].batch /\ call.saved = calls[c].saved
          /\ call.answer = calls[c].answer /\ call.pc = "release"
      BY <1>t DEF Call
    <2>3. calls[c].answer \in {"duplicate", "refused"} /\ ~ calls[c].saved
      BY <1>t, <2>1 DEF Shape
    <2>4. Ledger!Fits(c, calls[c].answer) /\ calls[c].answer \in Answers \ {"none"}
      BY <2>3, FitsCall DEF Answers, DuplicateInv
    <2> HIDE DEF call
    <2> QED
      BY <2>1, <2>2, <2>4, Answered DEF TitlesIn
  <1>9. ASSUME NEW c \in Callers, NEW k \in Conns, LoseConnection(c, k) PROVE Ledger!Answer(c)
    <2> DEFINE call == [calls[c] EXCEPT !.pc = "release", !.answer = "lost"]
    <2>1. /\ calls' = [calls EXCEPT ![c] = call] /\ conns[k].holder = c
          /\ calls[c].pc # "release" /\ rows' = rows
      BY <1>9 DEF LoseConnection
    <2>2. /\ call.batch = calls[c].batch /\ call.saved = calls[c].saved
          /\ call.answer = "lost" /\ call.pc = "release"
      BY <1>t DEF Call
    <2>3. calls[c].pc \notin {"idle", "unserved"}
      BY <2>1 DEF ConnInv, Holds
    <2>4. Ledger!Fits(c, "lost") /\ "lost" \in Answers \ {"none"}
      BY FitsCall DEF Answers
    <2> HIDE DEF call
    <2> QED
      BY <2>1, <2>2, <2>3, <2>4, Answered DEF TitlesIn
  <1>10. ASSUME NEW c \in Callers, Unserved(c) \/ \E k \in Conns : Release(c, k)
         PROVE  Ledger!Return(c)
    <2>1. /\ calls' = [calls EXCEPT ![c] = Idle] /\ calls[c].pc \in {"release", "unserved"}
          /\ rows' = rows
      BY <1>10 DEF Release, Unserved, Ended, At
    <2>2. LedgerState(Idle) = "idle" /\ Idle.batch = << >> /\ ~ Idle.saved
      BY DEF LedgerState, Idle
    <2>3. /\ States' = [States EXCEPT ![c] = LedgerState(Idle)]
          /\ Sent' = [Sent EXCEPT ![c] = Idle.batch]
          /\ Done' = IF Idle.saved THEN Done \cup {c} ELSE Done \ {c}
      BY <1>t, <2>1, OneLedger
    <2>4. LedgerState(calls[c]) = calls[c].answer /\ calls[c].answer \in Ledger!Answers
      BY <1>t, <2>1 DEF LedgerState, Shape, Call, Answers, Ledger!Answers
    <2>5. States[c] \in Ledger!Answers
      BY <2>4 DEF States
    <2>6. /\ States' = [States EXCEPT ![c] = "idle"] /\ Sent' = [Sent EXCEPT ![c] = << >>]
          /\ Done' = Done \ {c}
      BY <2>2, <2>3
    <2> QED
      BY <2>1, <2>5, <2>6 DEF Ledger!Return, States, Sent, Done
  <1>11. CASE Stop
    <2>1. \A c \in Callers : calls'[c] = Idle
      BY <1>11 DEF Stop
    <2>2. LedgerState(Idle) = "idle" /\ Idle.batch = << >> /\ ~ Idle.saved
      BY DEF LedgerState, Idle
    <2>3. /\ States' = [c \in Callers |-> "idle"] /\ Sent' = [c \in Callers |-> << >>] /\ Done' = {}
      BY <2>1, <2>2 DEF States, Sent, Done
    <2>4. Ledger!Stop
      BY <2>3, <1>11 DEF Stop, Ledger!Stop, States, Sent, Done
    <2> QED
      BY <2>4 DEF Ledger!Next
  <1>12. ASSUME NEW c \in Callers, NEW k \in Conns, Insert(c, k)
         PROVE  Ledger!Save(c) \/ UNCHANGED Ledger!vars
    <2> DEFINE note == [id |-> nextId, title |-> Title(c), after |-> calls[c].since]
               next == [calls[c] EXCEPT !.last = nextId, !.at = calls[c].at + 1]
               call == IF next.op = "create" THEN [next EXCEPT !.pc = "committed", !.saved = TRUE]
                       ELSE [next EXCEPT !.pc = IF next.at > Len(next.batch) THEN "commit"
                                                ELSE "insert"]
    <2>0. /\ calls[c].pc = "insert" /\ conns[k].holder = c /\ ~ Taken(c, k)
          /\ Holds(conns[k], calls[c]) /\ calls[c].op \in {"create", "createAll"}
      BY <1>12, <1>t DEF Insert, At, ConnInv, Call, Shape
    <2>1. calls' = [calls EXCEPT ![c] = call]
      BY <1>12 DEF Insert, Inserted
    <2>2. ~ calls[c].saved /\ next.op = calls[c].op /\ next.batch = calls[c].batch /\ next.saved = calls[c].saved
      BY <2>0, <1>t DEF Call, Shape
    <2>3. CASE calls[c].op = "createAll"
      <3>1. call.pc \in {"commit", "insert"} /\ call.batch = calls[c].batch /\ call.saved = calls[c].saved
        BY <2>2, <2>3, <1>t DEF Call
      <3>2. rows' = rows
        BY <1>12, <2>0, <2>3 DEF Insert, Holds
      <3> HIDE DEF call
      <3>3. LedgerState(call) = LedgerState(calls[c])
        BY <2>0, <3>1 DEF LedgerState
      <3> QED
        BY <1>t, <2>1, <3>1, <3>2, <3>3, Unseen DEF TitlesIn
    <2>4. CASE calls[c].op = "create"
      <3>1. call.pc = "committed" /\ call.batch = calls[c].batch /\ call.saved
        BY <2>2, <2>4, <1>t DEF Call
      <3>2. rows' = rows \cup {note} /\ note.title = Title(c)
        BY <1>12, <2>0, <2>4 DEF Insert, Holds
      <3>3. calls[c].at \in 1 .. Len(calls[c].batch) /\ Len(calls[c].batch) = 1
            /\ calls[c].batch \in Seq(Titles)
        BY <2>0, <2>4, <1>t, SavesAreBatches DEF Shape, Call
      <3>4. DOMAIN calls[c].batch = {1} /\ calls[c].batch[1] = Title(c)
        BY <3>3 DEF Title
      <3>5. ~ Ledger!Repeats(calls[c].batch) /\ Ledger!SavedBy(calls[c].batch) = {Title(c)}
        BY <3>4 DEF Ledger!Repeats, Ledger!SavedBy
      <3>6. Title(c) \notin TitlesIn(rows)
        BY <2>0 DEF Taken, TitlesIn
      <3> HIDE DEF call, note
      <3>7. TitlesIn(rows)' = TitlesIn(rows) \cup {Title(c)}
        BY <3>2 DEF TitlesIn
      <3> QED
        BY <2>0, <2>1, <2>2, <3>1, <3>5, <3>6, <3>7, Saved
    <2> QED
      BY <2>0, <2>3, <2>4
  <1>15. ASSUME NEW c \in Callers, NoConnection(c) PROVE Ledger!Answer(c)
    <2> DEFINE call == [calls[c] EXCEPT !.pc = "unserved", !.answer = "refused"]
    <2>1. calls' = [calls EXCEPT ![c] = call] /\ calls[c].pc = "waiting" /\ rows' = rows
      BY <1>15 DEF NoConnection
    <2>2. /\ call.batch = calls[c].batch /\ call.saved = calls[c].saved
          /\ call.answer = "refused" /\ call.pc = "unserved"
      BY <1>t DEF Call
    <2>3. ~ calls[c].saved
      BY <1>t, <2>1 DEF Shape
    <2>4. Ledger!Fits(c, "refused") /\ "refused" \in Answers \ {"none"}
      BY <2>3, FitsCall DEF Answers
    <2> HIDE DEF call
    <2> QED
      BY <2>1, <2>2, <2>4, Answered DEF TitlesIn
  <1>13. \A title \in Titles : <<title>> \in Saves
    BY DEF Saves
  <1>14. << >> \in Saves /\ Batches \subseteq Saves
    BY DEF Saves
  <1> QED
    BY <1>a, <1>0, <1>1, <1>2, <1>3, <1>5, <1>6, <1>7, <1>8, <1>9, <1>10, <1>11, <1>12, <1>13, <1>14,
       <1>15
    DEF Next, Resume, Create, CreateAll, List

\* Notes are saved all or none, and each caller is told what became of its own, whatever rejects,
\* waits, deadlocks or is lost between createAll and the server, and wherever the process stops.
THEOREM ImplementsTheLedger == Spec => ImplementsLedger
  <1> QED
    BY CallInit, CallStep, ConnInit, ConnStep, UniqueInit, UniqueStep, DuplicateInit, DuplicateStep,
       LedgerInit, LedgerStep, PTL DEF Spec, ImplementsLedger, Ledger!Spec
=============================================================================
