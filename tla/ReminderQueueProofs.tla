------------------------ MODULE ReminderQueueProofs ------------------------
(***************************************************************************)
(* What holds of the queue for any bookings, workers, and numbers of       *)
(* attempts and stalls.                                                    *)
(***************************************************************************)
EXTENDS ReminderQueue, FiniteSetTheorems, TLAPS

(***************************************************************************)
(* Types.  They are not inductive by themselves: the counters stay within  *)
(* their limits because a job that has used them up is failed, and nobody  *)
(* has the lock of a failed job.                                           *)
(***************************************************************************)
Limits ==
    \A b \in Bookings :
       /\ state[b] # "failed" => made[b] < Attempts /\ stalls[b] <= MaxStalled
       /\ made[b] < Attempts \/ stalls[b] <= MaxStalled

JobInv == TypeOK /\ Limits /\ FailedForAReason

LEMMA JobInit == Init => JobInv
  BY QueueAssumption DEF Init, JobInv, TypeOK, Limits, FailedForAReason, States

LEMMA JobStep == JobInv /\ [Next]_vars => JobInv'
  <1> SUFFICES ASSUME JobInv, [Next]_vars PROVE JobInv'
    OBVIOUS
  <1> USE QueueAssumption DEF JobInv, Limits, FailedForAReason
  <1>0. CASE UNCHANGED vars
    BY <1>0 DEF vars, TypeOK
  <1>1. ASSUME NEW b \in Bookings, Enqueue(b) PROVE JobInv'
    BY <1>1 DEF Enqueue, Put, TypeOK, States
  <1>2. ASSUME NEW b \in Bookings, DelayEnds(b) PROVE JobInv'
    BY <1>2 DEF DelayEnds, Put, TypeOK, States
  <1>3. ASSUME NEW b \in Bookings, FindStalled(b) PROVE JobInv'
    <2> DEFINE s == IF stalls[b] < MaxStalled THEN "waiting" ELSE "failed"
    <2>1. /\ state[b] = "active" /\ stalls[b] \in Nat /\ stalls[b] <= MaxStalled
          /\ made[b] < Attempts
      BY <1>3 DEF FindStalled, TypeOK
    <2>2. /\ state' = [state EXCEPT ![b] = s] /\ lock' = [lock EXCEPT ![b] = Nobody]
          /\ stalls' = [stalls EXCEPT ![b] = stalls[b] + 1]
          /\ UNCHANGED <<made, doing, sent, doubts>>
      BY <1>3 DEF FindStalled, Put
    <2>3. stalls[b] + 1 \in 0 .. MaxStalled + 1 /\ s \in {"waiting", "failed"}
      BY <2>1
    <2>4. TypeOK'
      BY <2>2, <2>3 DEF TypeOK, States
    <2>5. ASSUME NEW c \in Bookings
          PROVE  /\ state'[c] # "failed" => made'[c] < Attempts /\ stalls'[c] <= MaxStalled
                 /\ made'[c] < Attempts \/ stalls'[c] <= MaxStalled
                 /\ state'[c] = "failed" => made'[c] = Attempts \/ stalls'[c] > MaxStalled
      BY <2>1, <2>2 DEF TypeOK
    <2> QED
      BY <2>4, <2>5
  <1>4. ASSUME NEW w \in Workers, NEW arrives \in BOOLEAN, NEW throws \in BOOLEAN,
               SendEnds(w, arrives, throws)
        PROVE  JobInv'
    BY <1>4 DEF SendEnds, TypeOK, Work, Idle
  <1>5. ASSUME NEW w \in Workers, Complete(w) PROVE JobInv'
    BY <1>5 DEF Complete, Put, TypeOK, States, Work, Idle
  <1>6. ASSUME NEW w \in Workers, Retry(w) PROVE JobInv'
    <2> DEFINE b == doing[w].job
               s == IF made[b] + 1 < Attempts THEN "delayed" ELSE "failed"
    <2>1. /\ b \in Bookings /\ lock[b] = w /\ w # Nobody
      BY <1>6 DEF Retry, TypeOK, Work, Idle
    <2>2. state[b] = "active" /\ made[b] \in Nat /\ made[b] < Attempts
      BY <2>1 DEF TypeOK
    <2>3. /\ state' = [state EXCEPT ![b] = s] /\ lock' = [lock EXCEPT ![b] = Nobody]
          /\ made' = [made EXCEPT ![b] = made[b] + 1]
          /\ doing' = [doing EXCEPT ![w] = Idle]
          /\ UNCHANGED <<stalls, sent, doubts>>
      BY <1>6 DEF Retry, Put
    <2>4. made[b] + 1 \in 0 .. Attempts /\ s \in {"delayed", "failed"}
      BY <2>2
    <2>5. TypeOK'
      BY <2>1, <2>3, <2>4 DEF TypeOK, States
    <2>6. ASSUME NEW c \in Bookings
          PROVE  /\ state'[c] # "failed" => made'[c] < Attempts /\ stalls'[c] <= MaxStalled
                 /\ made'[c] < Attempts \/ stalls'[c] <= MaxStalled
                 /\ state'[c] = "failed" => made'[c] = Attempts \/ stalls'[c] > MaxStalled
      BY <2>1, <2>2, <2>3 DEF TypeOK
    <2> QED
      BY <2>5, <2>6
  <1>7. ASSUME NEW w \in Workers, ReportTooLate(w) PROVE JobInv'
    BY <1>7 DEF ReportTooLate, TypeOK
  <1>8. ASSUME NEW w \in Workers, Restart(w) PROVE JobInv'
    BY <1>8 DEF Restart, TypeOK
  <1>9. ASSUME NEW w \in Workers, NEW b \in Bookings, Take(w, b) PROVE JobInv'
    BY <1>9 DEF Take, Put, TypeOK, States, Work
  <1> QED
    BY <1>0, <1>1, <1>2, <1>3, <1>4, <1>5, <1>6, <1>7, <1>8, <1>9 DEF Next, Proceed, Ends

\* The types of the queue.
THEOREM TypeCorrect == Spec => []TypeOK
  <1>1. JobInv => TypeOK
    BY DEF JobInv
  <1> QED
    BY <1>1, JobInit, JobStep, PTL DEF Spec

\* A job is kept as failed only after its last attempt or its last stall.
THEOREM FailureHasAReason == Spec => []FailedForAReason
  <1>1. JobInv => FailedForAReason
    BY DEF JobInv
  <1> QED
    BY <1>1, JobInit, JobStep, PTL DEF Spec

\* Only the worker with the lock changes what Redis keeps of a job, and a finished job has none.
THEOREM FinishedJobsStay == Spec => FinishedStays
  <1>1. ASSUME JobInv, [Next]_vars, NEW b \in Bookings, state[b] \in Finished
        PROVE  state'[b] = state[b]
    <2> USE <1>1 DEF JobInv, TypeOK, Finished
    <2>1. state[b] \notin {"none", "active", "waiting", "delayed"} /\ lock[b] = Nobody
      OBVIOUS
    <2>2. CASE UNCHANGED vars
      BY <2>2 DEF vars
    <2>3. ASSUME NEW c \in Bookings, Enqueue(c) \/ DelayEnds(c) \/ FindStalled(c)
          PROVE  state'[b] = state[b]
      BY <2>1, <2>3 DEF Enqueue, DelayEnds, FindStalled, Put
    <2>4. ASSUME NEW w \in Workers, Ends(w) \/ ReportTooLate(w) \/ Restart(w)
          PROVE  state'[b] = state[b]
      BY <2>4 DEF Ends, SendEnds, ReportTooLate, Restart
    <2>5. ASSUME NEW w \in Workers, Complete(w) \/ Retry(w) PROVE state'[b] = state[b]
      BY <2>1, <2>5, QueueAssumption DEF Complete, Retry, Put
    <2>6. ASSUME NEW w \in Workers, NEW c \in Bookings, Take(w, c) PROVE state'[b] = state[b]
      BY <2>1, <2>6 DEF Take, Put
    <2> QED
      BY <2>2, <2>3, <2>4, <2>5, <2>6 DEF Next, Proceed
  <1>2. JobInv /\ [Next]_vars => [\A b \in Bookings : state[b] \in Finished => state'[b] = state[b]]_vars
    BY <1>1
  <1> QED
    BY <1>2, JobInit, JobStep, PTL DEF Spec, FinishedStays

-----------------------------------------------------------------------------
(***************************************************************************)
(* A completed job was sent: who reports well has sent.                    *)
(***************************************************************************)
SentInv ==
    /\ CompletedWasSent
    /\ \A w \in Workers : doing[w] # Idle /\ doing[w].ended = "well" => sent[doing[w].job] > 0

\* What the queue keeps as completed reached the guest.
THEOREM CompletedReached == Spec => []CompletedWasSent
  <1>1. Init => SentInv
    BY DEF Init, SentInv, CompletedWasSent
  <1>2. JobInv /\ SentInv /\ [Next]_vars => SentInv'
    <2> SUFFICES ASSUME JobInv, SentInv, [Next]_vars PROVE SentInv'
      OBVIOUS
    <2> USE QueueAssumption DEF JobInv, TypeOK, SentInv, CompletedWasSent
    <2>0. CASE UNCHANGED vars
      BY <2>0 DEF vars
    <2>1. ASSUME NEW b \in Bookings, Enqueue(b) \/ DelayEnds(b) \/ FindStalled(b) PROVE SentInv'
      BY <2>1 DEF Enqueue, DelayEnds, FindStalled, Put
    <2>2. ASSUME NEW w \in Workers, NEW arrives \in BOOLEAN, NEW throws \in BOOLEAN,
                 SendEnds(w, arrives, throws)
          PROVE  SentInv'
      BY <2>2 DEF SendEnds, Work, Idle
    <2>3. ASSUME NEW w \in Workers, Complete(w) PROVE SentInv'
      BY <2>3 DEF Complete, Put, Work, Idle
    <2>4. ASSUME NEW w \in Workers, Retry(w) PROVE SentInv'
      BY <2>4 DEF Retry, Put, Work, Idle
    <2>5. ASSUME NEW w \in Workers, ReportTooLate(w) \/ Restart(w) PROVE SentInv'
      BY <2>5 DEF ReportTooLate, Restart, Work, Idle
    <2>6. ASSUME NEW w \in Workers, NEW b \in Bookings, Take(w, b) PROVE SentInv'
      BY <2>6 DEF Take, Put, Work, Idle
    <2> QED
      BY <2>0, <2>1, <2>2, <2>3, <2>4, <2>5, <2>6 DEF Next, Proceed, Ends
  <1>3. SentInv => CompletedWasSent
    BY DEF SentInv
  <1> QED
    BY <1>1, <1>2, <1>3, JobInit, JobStep, PTL DEF Spec

-----------------------------------------------------------------------------
(***************************************************************************)
(* How often a reminder goes out.  A worker whose send has not ended may   *)
(* still add to sent, so the invariants count these workers in; each run   *)
(* of a job is paid for by a failed attempt, a stall, or the one run that  *)
(* is under way or was the last.                                           *)
(***************************************************************************)
Pending(work, b)  == work.job = b /\ work.ended = "no"
Senders(d, b)     == {w \in Workers : Pending(d[w], b)}
Sending(d, b)     == Cardinality(Senders(d, b))

LEMMA SendingTypes ==
    ASSUME NEW d, NEW b
    PROVE  IsFiniteSet(Senders(d, b)) /\ Sending(d, b) \in Nat
  BY QueueAssumption, FS_Subset, FS_CardinalityType DEF Senders, Sending

\* One worker goes on to something else: the count follows whether it was and is sending.
LEMMA SendingChanges ==
    ASSUME NEW d, NEW e, NEW w \in Workers, NEW b,
           \A v \in Workers : v # w => e[v] = d[v]
    PROVE  /\ Pending(e[w], b) /\ ~ Pending(d[w], b) => Sending(e, b) = Sending(d, b) + 1
           /\ ~ Pending(e[w], b) /\ Pending(d[w], b) => Sending(e, b) = Sending(d, b) - 1
           /\ (Pending(e[w], b) <=> Pending(d[w], b)) => Sending(e, b) = Sending(d, b)
  <1>0. IsFiniteSet(Senders(d, b)) /\ Sending(d, b) \in Nat
    BY SendingTypes
  <1>2. CASE Pending(e[w], b) /\ ~ Pending(d[w], b)
    <2>1. Senders(e, b) = Senders(d, b) \cup {w} /\ w \notin Senders(d, b)
      BY <1>2 DEF Senders
    <2> QED
      BY <1>0, <1>2, <2>1, FS_AddElement DEF Sending
  <1>3. CASE ~ Pending(e[w], b) /\ Pending(d[w], b)
    <2>1. Senders(e, b) = Senders(d, b) \ {w} /\ w \in Senders(d, b)
      BY <1>3 DEF Senders
    <2> QED
      BY <1>0, <1>3, <2>1, FS_RemoveElement DEF Sending
  <1>4. CASE Pending(e[w], b) <=> Pending(d[w], b)
    <2>1. Senders(e, b) = Senders(d, b)
      BY <1>4 DEF Senders
    <2> QED
      BY <1>4, <2>1 DEF Sending
  <1> QED
    BY <1>2, <1>3, <1>4

\* The run that is under way or was the last, and whether it may have sent without a doubt.
LastRun(b) == IF state[b] \in {"active", "completed"} THEN 1 ELSE 0

EndedBadly(b) == doing[lock[b]].job = b /\ doing[lock[b]].ended = "badly"

Counts(b) ==
    IF state[b] = "completed" \/ (state[b] = "active" /\ ~ EndedBadly(b)) THEN 1 ELSE 0

RunsPaid(b)   == sent[b] + Sending(doing, b) <= made[b] + stalls[b] + LastRun(b)
DoublesPaid(b) == sent[b] + Sending(doing, b) <= doubts[b] + stalls[b] + Counts(b)

CountInv == \A b \in Bookings : RunsPaid(b) /\ DoublesPaid(b)

LEMMA CountInit == Init => CountInv
  <1> SUFFICES ASSUME Init, NEW b \in Bookings PROVE RunsPaid(b) /\ DoublesPaid(b)
    BY DEF CountInv
  <1>1. Senders(doing, b) = {}
    BY QueueAssumption DEF Init, Senders, Pending, Idle
  <1>2. Sending(doing, b) = 0
    BY <1>1, FS_EmptySet DEF Sending
  <1> QED
    BY <1>2 DEF Init, RunsPaid, DoublesPaid, LastRun, Counts

\* The sums the steps below compare are of natural numbers.
LEMMA CountTypes ==
    ASSUME JobInv, NEW b \in Bookings
    PROVE  /\ sent[b] \in Nat /\ made[b] \in Nat /\ stalls[b] \in Nat /\ doubts[b] \in Nat
           /\ Sending(doing, b) \in Nat /\ Sending(doing', b) \in Nat
           /\ Sending(doing, b)' = Sending(doing', b)
  <1>1. /\ sent[b] \in Nat /\ made[b] \in Nat /\ stalls[b] \in Nat /\ doubts[b] \in Nat
    BY QueueAssumption DEF JobInv, TypeOK
  <1>2. Sending(doing, b) \in Nat /\ Sending(doing', b) \in Nat
    BY SendingTypes
  <1>3. Sending(doing, b)' = Sending(doing', b)
    BY DEF Sending, Senders, Pending
  <1> QED
    BY <1>1, <1>2, <1>3

LEMMA CountStep == JobInv /\ CountInv /\ [Next]_vars => CountInv'
  <1> SUFFICES ASSUME JobInv, CountInv, [Next]_vars, NEW c \in Bookings
               PROVE  (RunsPaid(c) /\ DoublesPaid(c))'
    BY DEF CountInv
  <1> USE QueueAssumption
  <1> DEFINE Goal == /\ sent'[c] + Sending(doing', c) <= made'[c] + stalls'[c] + LastRun(c)'
                     /\ sent'[c] + Sending(doing', c) <= doubts'[c] + stalls'[c] + Counts(c)'
  <1>a. /\ RunsPaid(c) /\ DoublesPaid(c)
        /\ sent[c] \in Nat /\ made[c] \in Nat /\ stalls[c] \in Nat /\ doubts[c] \in Nat
        /\ Sending(doing, c) \in Nat /\ Sending(doing', c) \in Nat
        /\ Sending(doing, c)' = Sending(doing', c)
    BY CountTypes DEF CountInv
  \* The count after a step in which one worker goes on to something else.
  <1>d. ASSUME NEW w \in Workers, \A v \in Workers : v # w => doing'[v] = doing[v]
        PROVE  /\ Pending(doing'[w], c) /\ ~ Pending(doing[w], c)
                     => Sending(doing', c) = Sending(doing, c) + 1
               /\ ~ Pending(doing'[w], c) /\ Pending(doing[w], c)
                     => Sending(doing', c) = Sending(doing, c) - 1
               /\ (Pending(doing'[w], c) <=> Pending(doing[w], c))
                     => Sending(doing', c) = Sending(doing, c)
    <2>1. \A d, e : (\A v \in Workers : v # w => e[v] = d[v]) =>
             /\ Pending(e[w], c) /\ ~ Pending(d[w], c) => Sending(e, c) = Sending(d, c) + 1
             /\ ~ Pending(e[w], c) /\ Pending(d[w], c) => Sending(e, c) = Sending(d, c) - 1
             /\ (Pending(e[w], c) <=> Pending(d[w], c)) => Sending(e, c) = Sending(d, c)
      BY SendingChanges
    <2> QED
      BY <1>d, <2>1
  <1>b. SUFFICES Goal
    BY <1>a DEF RunsPaid, DoublesPaid
  <1>c. TypeOK
    BY DEF JobInv
  <1> USE DEF RunsPaid, DoublesPaid, LastRun, Counts, EndedBadly
  <1>0. CASE UNCHANGED vars
    BY <1>0, <1>a DEF vars
  <1>1. ASSUME NEW b \in Bookings, Enqueue(b) \/ DelayEnds(b) PROVE Goal
    <2>1. UNCHANGED <<made, stalls, doing, sent, doubts>>
      BY <1>1 DEF Enqueue, DelayEnds
    <2>2. \/ state'[c] = state[c] /\ lock'[c] = lock[c]
          \/ state[c] \in {"none", "delayed"} /\ state'[c] = "waiting"
      BY <1>1, <1>c DEF Enqueue, DelayEnds, Put, TypeOK
    <2> QED
      BY <1>a, <2>1, <2>2
  <1>2. ASSUME NEW b \in Bookings, FindStalled(b) PROVE Goal
    <2>1. UNCHANGED <<made, doing, sent, doubts>>
      BY <1>2 DEF FindStalled
    <2>2. \/ state'[c] = state[c] /\ lock'[c] = lock[c] /\ stalls'[c] = stalls[c]
          \/ state[c] = "active" /\ state'[c] \in {"waiting", "failed"} /\ stalls'[c] = stalls[c] + 1
      BY <1>2, <1>c DEF FindStalled, Put, TypeOK
    <2> QED
      BY <1>a, <2>1, <2>2
  <1>3. ASSUME NEW w \in Workers, NEW b \in Bookings, Take(w, b) PROVE Goal
    <2> DEFINE x == [job |-> b, ended |-> "no"]
    <2>1. /\ UNCHANGED <<made, stalls, sent, doubts>> /\ doing[w] = Idle
          /\ doing' = [doing EXCEPT ![w] = x]
          /\ doing \in [Workers -> Work \cup {Idle}]
      BY <1>3, <1>c DEF Take, TypeOK
    <2>2. CASE c = b
      <3>1. state[c] = "waiting" /\ state'[c] = "active" /\ lock'[c] = w
        BY <1>3, <1>c, <2>2 DEF Take, Put, TypeOK
      <3>2. Pending(doing'[w], c) /\ ~ Pending(doing[w], c)
        BY <2>1, <2>2 DEF Pending, Idle
      <3>3. Sending(doing', c) = Sending(doing, c) + 1
        BY <2>1, <3>2, <1>d
      <3>4. doing'[w].ended = "no"
        BY <2>1
      <3> QED
        BY <1>a, <2>1, <3>1, <3>3, <3>4
    <2>3. CASE c # b
      <3>1. state'[c] = state[c] /\ lock'[c] = lock[c]
        BY <1>3, <1>c, <2>3 DEF Take, Put, TypeOK
      <3>2. ~ Pending(doing'[w], c) /\ ~ Pending(doing[w], c)
        BY <2>1, <2>3 DEF Pending, Idle
      <3>3. Sending(doing', c) = Sending(doing, c)
        BY <2>1, <3>2, <1>d
      <3>4. doing'[w].job # c /\ \A v \in Workers : v # w => doing'[v] = doing[v]
        BY <2>1, <2>3
      <3>5. state[c] = "active" => lock[c] \in Workers
        BY <1>c DEF TypeOK
      <3>6. state[c] = "active" /\ EndedBadly(c)' => EndedBadly(c)
        BY <3>1, <3>4, <3>5
      <3> QED
        BY <1>a, <2>1, <3>1, <3>3, <3>6
    <2> QED
      BY <2>2, <2>3
  <1>4. ASSUME NEW w \in Workers, NEW arrives \in BOOLEAN, NEW throws \in BOOLEAN,
               SendEnds(w, arrives, throws)
        PROVE  Goal
    <2> DEFINE x == [doing[w] EXCEPT !.ended = IF throws THEN "badly" ELSE "well"]
    <2>1. /\ UNCHANGED <<state, made, stalls, lock>> /\ doing[w] \in Work
          /\ doing[w].ended = "no" /\ (arrives \/ throws)
          /\ doing' = [doing EXCEPT ![w] = x]
          /\ doing \in [Workers -> Work \cup {Idle}]
      BY <1>4, <1>c DEF SendEnds, TypeOK
    <2>2. x.job = doing[w].job /\ x.ended = (IF throws THEN "badly" ELSE "well")
      BY <2>1 DEF Work
    <2>3. \A v \in Workers : doing'[v] = IF v = w THEN x ELSE doing[v]
      BY <2>1
    <2>4. state[c] = "active" => lock[c] \in Workers
      BY <1>c DEF TypeOK
    <2>5. CASE c = doing[w].job
      <3>1. ~ Pending(doing'[w], c) /\ Pending(doing[w], c)
        BY <2>1, <2>2, <2>3, <2>5 DEF Pending
      <3>2. Sending(doing', c) = Sending(doing, c) - 1
        BY <2>3, <3>1, <1>d
      <3>3. /\ sent'[c] = IF arrives THEN sent[c] + 1 ELSE sent[c]
            /\ doubts'[c] = IF arrives /\ throws THEN doubts[c] + 1 ELSE doubts[c]
        BY <1>4, <1>c, <2>5 DEF SendEnds, TypeOK
      <3>4. state[c] = "active" /\ EndedBadly(c)' => EndedBadly(c) \/ (throws /\ lock[c] = w)
        BY <2>1, <2>2, <2>3, <2>4
      <3>5. state[c] = "active" /\ lock[c] = w => ~ EndedBadly(c)
        BY <2>1
      <3> QED
        BY <1>a, <2>1, <3>2, <3>3, <3>4, <3>5
    <2>6. CASE c # doing[w].job
      <3>1. ~ Pending(doing'[w], c) /\ ~ Pending(doing[w], c)
        BY <2>2, <2>3, <2>6 DEF Pending
      <3>2. Sending(doing', c) = Sending(doing, c)
        BY <2>3, <3>1, <1>d
      <3>3. sent'[c] = sent[c] /\ doubts'[c] = doubts[c]
        BY <1>4, <1>c, <2>6 DEF SendEnds, TypeOK
      <3>4. state[c] = "active" /\ EndedBadly(c)' => EndedBadly(c)
        BY <2>1, <2>2, <2>3, <2>4, <2>6
      <3> QED
        BY <1>a, <2>1, <3>2, <3>3, <3>4
    <2> QED
      BY <2>5, <2>6
  <1>5. ASSUME NEW w \in Workers, doing[w] # Idle, doing' = [doing EXCEPT ![w] = Idle],
               UNCHANGED <<sent, doubts, stalls>>,
               \/ UNCHANGED <<state, lock, made>> /\ (lock[c] = w => state[c] = "active")
               \/ /\ lock[doing[w].job] = w
                  /\ \/ Complete(w)
                     \/ Retry(w)
        PROVE  Goal
    <2>1. doing \in [Workers -> Work \cup {Idle}] /\ doing[w] \in Work
      BY <1>5, <1>c DEF TypeOK
    <2>4. \A v \in Workers : doing'[v] = IF v = w THEN Idle ELSE doing[v]
      BY <1>5, <2>1
    <2>2. ~ Pending(doing'[w], c)
      BY <2>4 DEF Pending, Idle
    <2>3. Sending(doing', c) <= Sending(doing, c)
      BY <1>a, <1>d, <2>2, <2>4
    <2>5. state[c] = "active" => lock[c] \in Workers
      BY <1>c DEF TypeOK
    <2>6. state[c] = "active" /\ lock'[c] = lock[c] /\ EndedBadly(c)' => EndedBadly(c)
      BY <2>4, <2>5 DEF Idle
    <2>7. CASE UNCHANGED <<state, lock, made>>
      BY <1>5, <1>a, <2>3, <2>6, <2>7
    <2>8. CASE lock[doing[w].job] = w /\ Complete(w)
      <3>1. \/ state'[c] = state[c] /\ lock'[c] = lock[c]
            \/ state[c] = "active" /\ state'[c] = "completed"
        BY <2>1, <2>8, <1>c DEF Complete, Put, TypeOK, Work
      <3>2. made' = made
        BY <2>8 DEF Complete
      <3>3. state[c] = "active" /\ state'[c] = "completed" => ~ EndedBadly(c) \/ state[c] = state'[c]
        BY <2>1, <2>8, <1>c DEF Complete, Put, TypeOK, Work
      <3> QED
        BY <1>5, <1>a, <2>3, <2>6, <3>1, <3>2, <3>3
    <2>9. CASE lock[doing[w].job] = w /\ Retry(w)
      <3>1. \/ state'[c] = state[c] /\ lock'[c] = lock[c] /\ made'[c] = made[c]
            \/ /\ state[c] = "active" /\ state'[c] \in {"delayed", "failed"}
               /\ made'[c] = made[c] + 1 /\ EndedBadly(c)
        BY <2>1, <2>9, <1>c DEF Retry, Put, TypeOK, Work
      <3> QED
        BY <1>5, <1>a, <2>3, <2>6, <3>1
    <2> QED
      BY <1>5, <2>7, <2>8, <2>9
  <1>6. ASSUME NEW w \in Workers, Complete(w) \/ Retry(w) \/ ReportTooLate(w) \/ Restart(w)
        PROVE  Goal
    <2>1. lock[c] = w => state[c] = "active"
      BY <1>c DEF TypeOK
    <2> QED
      BY <1>5, <1>6, <2>1 DEF Complete, Retry, ReportTooLate, Restart
  <1> QED
    BY <1>0, <1>1, <1>2, <1>3, <1>4, <1>6 DEF Next, Proceed, Ends

\* For any number of workers: a guest gets at most one reminder for each attempt and each stall.
THEOREM SendsAreBounded == Spec => []SentBounded
  <1>1. ASSUME JobInv, CountInv, NEW b \in Bookings PROVE sent[b] <= Attempts + MaxStalled
    <2>1. /\ sent[b] \in Nat /\ Sending(doing, b) \in Nat
          /\ sent[b] + Sending(doing, b) <= made[b] + stalls[b] + LastRun(b)
      BY <1>1, CountTypes DEF CountInv, RunsPaid
    <2>2. /\ made[b] \in 0 .. Attempts /\ stalls[b] \in 0 .. MaxStalled + 1
          /\ Attempts \in Nat /\ MaxStalled \in Nat
      BY <1>1, QueueAssumption DEF JobInv, TypeOK
    <2>3. CASE state[b] # "failed"
      <3>1. made[b] < Attempts /\ stalls[b] <= MaxStalled /\ LastRun(b) \in {0, 1}
        BY <1>1, <2>3 DEF JobInv, Limits, LastRun
      <3> QED
        BY <2>1, <2>2, <3>1
    <2>4. CASE state[b] = "failed"
      <3>1. (made[b] < Attempts \/ stalls[b] <= MaxStalled) /\ LastRun(b) = 0
        BY <1>1, <2>4 DEF JobInv, Limits, LastRun
      <3> QED
        BY <2>1, <2>2, <3>1
    <2> QED
      BY <2>3, <2>4
  <1>2. JobInv /\ CountInv => SentBounded
    BY <1>1 DEF SentBounded
  <1> QED
    BY <1>2, JobInit, JobStep, CountInit, CountStep, PTL DEF Spec

\* A second reminder for a booking has a send in doubt or a stall behind it.
THEOREM DoublesHaveACause == Spec => []OncePerCause
  <1>1. ASSUME JobInv, CountInv, NEW b \in Bookings PROVE sent[b] <= 1 + doubts[b] + stalls[b]
    <2>1. /\ sent[b] \in Nat /\ Sending(doing, b) \in Nat /\ doubts[b] \in Nat /\ stalls[b] \in Nat
          /\ sent[b] + Sending(doing, b) <= doubts[b] + stalls[b] + Counts(b)
      BY <1>1, CountTypes DEF CountInv, DoublesPaid
    <2>2. Counts(b) \in {0, 1}
      BY DEF Counts
    <2> QED
      BY <2>1, <2>2
  <1>2. JobInv /\ CountInv => OncePerCause
    BY <1>1 DEF OncePerCause
  <1> QED
    BY <1>2, JobInit, JobStep, CountInit, CountStep, PTL DEF Spec
=============================================================================
