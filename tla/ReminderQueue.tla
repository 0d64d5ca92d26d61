---------------------------- MODULE ReminderQueue ----------------------------
(***************************************************************************)
(* The queue booking-reminders: ReminderQueue.enqueue in the API process,  *)
(* the workers of startReminderWorker, and between them BullMQ on Redis,   *)
(* as the code configures and uses it.  A worker takes a job, calls send,  *)
(* and reports how it ended; BullMQ keeps the job of a worker that does    *)
(* not renew its lock (it crashed, or its process is blocked) as stalled   *)
(* and gives it to another.                                                *)
(***************************************************************************)
EXTENDS Integers, FiniteSets

CONSTANTS Bookings,   \* what reminders are asked for; the booking makes the job id
          Workers,    \* worker processes
          Attempts,   \* attempts: 3
          MaxStalled, \* how often BullMQ gives a stalled job back (maxStalledCount)
          Nobody

ASSUME QueueAssumption ==
    /\ Attempts \in Nat \ {0}
    /\ MaxStalled \in Nat
    /\ IsFiniteSet(Workers)
    /\ Nobody \notin Workers \cup Bookings

VARIABLES state,     \* of each job in Redis
          made,      \* attempts that have failed
          stalls,    \* how often it was found stalled
          lock,      \* the worker that has the job's lock
          doing,     \* the job each worker works on, and how its send ended
          sent,      \* history: reminders that reached the guest
          doubts     \* history: those of them that send threw after all the same

vars == <<state, made, stalls, lock, doing, sent, doubts>>

States   == {"none", "waiting", "active", "delayed", "completed", "failed"}
Finished == {"completed", "failed"}
Idle     == [job |-> Nobody, ended |-> "no"]
Work     == [job: Bookings, ended: {"no", "well", "badly"}]

TypeOK ==
    /\ state \in [Bookings -> States]
    /\ made \in [Bookings -> 0 .. Attempts]
    /\ stalls \in [Bookings -> 0 .. MaxStalled + 1]
    /\ lock \in [Bookings -> Workers \cup {Nobody}]
    /\ doing \in [Workers -> Work \cup {Idle}]
    /\ sent \in [Bookings -> Nat]
    /\ doubts \in [Bookings -> Nat]
    /\ \A b \in Bookings : lock[b] # Nobody <=> state[b] = "active"

Init ==
    /\ state = [b \in Bookings |-> "none"]
    /\ made = [b \in Bookings |-> 0]
    /\ stalls = [b \in Bookings |-> 0]
    /\ lock = [b \in Bookings |-> Nobody]
    /\ doing = [w \in Workers |-> Idle]
    /\ sent = [b \in Bookings |-> 0]
    /\ doubts = [b \in Bookings |-> 0]

-----------------------------------------------------------------------------
Put(b, s, holder) ==
    /\ state' = [state EXCEPT ![b] = s]
    /\ lock' = [lock EXCEPT ![b] = holder]

\* Mutant: no job id of its own, so asking again queues the reminder again.
EnqueueAgain(b) ==
    /\ state[b] \notin {"active"}
    /\ Put(b, "waiting", Nobody)
    /\ UNCHANGED <<made, stalls, doing, sent, doubts>>

\* A job with the id of one that Redis still has, finished ones too, is not added.
Enqueue(b) ==
    /\ IF state[b] = "none" THEN Put(b, "waiting", Nobody) ELSE UNCHANGED <<state, lock>>
    /\ UNCHANGED <<made, stalls, doing, sent, doubts>>

\* The worker calls job => send(job.data).
Take(w, b) ==
    /\ doing[w] = Idle
    /\ state[b] = "waiting"
    /\ Put(b, "active", w)
    /\ doing' = [doing EXCEPT ![w] = [job |-> b, ended |-> "no"]]
    /\ UNCHANGED <<made, stalls, sent, doubts>>

\* send resolves, or throws; it may throw for a reminder that went out.
SendEnds(w, arrives, throws) ==
    /\ doing[w] # Idle
    /\ doing[w].ended = "no"
    /\ arrives \/ throws
    /\ doing' = [doing EXCEPT ![w].ended = IF throws THEN "badly" ELSE "well"]
    /\ IF arrives
       THEN sent' = [sent EXCEPT ![doing[w].job] = @ + 1]
       ELSE sent' = sent
    /\ IF arrives /\ throws
       THEN doubts' = [doubts EXCEPT ![doing[w].job] = @ + 1]
       ELSE doubts' = doubts
    /\ UNCHANGED <<state, made, stalls, lock>>

Complete(w) ==
    /\ doing[w] # Idle
    /\ doing[w].ended = "well"
    /\ lock[doing[w].job] = w
    /\ Put(doing[w].job, "completed", Nobody)
    /\ doing' = [doing EXCEPT ![w] = Idle]
    /\ UNCHANGED <<made, stalls, sent, doubts>>

\* attempts: 3 with a fixed backoff: the job waits for its next attempt, or is kept as failed.
Retry(w) ==
    /\ doing[w] # Idle
    /\ doing[w].ended = "badly"
    /\ LET b == doing[w].job
       IN  /\ lock[b] = w
           /\ made' = [made EXCEPT ![b] = @ + 1]
           /\ Put(b, IF made[b] + 1 < Attempts THEN "delayed" ELSE "failed", Nobody)
    /\ doing' = [doing EXCEPT ![w] = Idle]
    /\ UNCHANGED <<stalls, sent, doubts>>

\* What a worker reports of a job whose lock it has lost does not count.
ReportTooLate(w) ==
    /\ doing[w] # Idle
    /\ doing[w].ended # "no"
    /\ lock[doing[w].job] # w
    /\ doing' = [doing EXCEPT ![w] = Idle]
    /\ UNCHANGED <<state, made, stalls, lock, sent, doubts>>

\* The worker process stops and comes back; its job stays active until it is found stalled.
Restart(w) ==
    /\ doing[w] # Idle
    /\ doing' = [doing EXCEPT ![w] = Idle]
    /\ UNCHANGED <<state, made, stalls, lock, sent, doubts>>

DelayEnds(b) ==
    /\ state[b] = "delayed"
    /\ Put(b, "waiting", Nobody)
    /\ UNCHANGED <<made, stalls, doing, sent, doubts>>

\* Mutant: stalled jobs are not looked for while a worker has the lock.
StallUnseen(b) ==
    /\ state[b] = "active"
    /\ lock[b] = Nobody
    /\ Put(b, "waiting", Nobody)
    /\ UNCHANGED <<made, stalls, doing, sent, doubts>>

\* The lock of an active job has run out.
FindStalled(b) ==
    /\ state[b] = "active"
    /\ stalls' = [stalls EXCEPT ![b] = @ + 1]
    /\ Put(b, IF stalls[b] < MaxStalled THEN "waiting" ELSE "failed", Nobody)
    /\ UNCHANGED <<made, doing, sent, doubts>>

-----------------------------------------------------------------------------
Ends(w) == \E arrives, throws \in BOOLEAN : SendEnds(w, arrives, throws)

Proceed(w) == Ends(w) \/ Complete(w) \/ Retry(w) \/ ReportTooLate(w)

Next ==
    \/ \E b \in Bookings : Enqueue(b) \/ DelayEnds(b) \/ FindStalled(b)
    \/ \E w \in Workers : Proceed(w) \/ Restart(w) \/ \E b \in Bookings : Take(w, b)

Abandoned(b) == state[b] = "active" /\ doing[lock[b]].job # b

\* Calls settle, delays end, a worker that is free takes what waits, and the lock of an
\* abandoned job is found to have run out.
Fairness ==
    /\ \A w \in Workers : WF_vars(Proceed(w))
    /\ \A b \in Bookings : /\ WF_vars(\E w \in Workers : Take(w, b))
                           /\ WF_vars(DelayEnds(b))
                           /\ WF_vars(Abandoned(b) /\ FindStalled(b))

Spec == Init /\ [][Next]_vars /\ Fairness

-----------------------------------------------------------------------------
\* "Stops once it succeeds" and "the same job is not done twice", as far as they go: a guest
\* gets a second reminder only for a send that threw after the first had gone out, or for a
\* job that was found stalled after it.
OncePerCause == \A b \in Bookings : sent[b] <= 1 + doubts[b] + stalls[b]

\* Whatever fails, crashes or is asked for again, the guest gets no more reminders than there
\* are attempts and stalls to give: three attempts, and one more for a stalled job.
SentBounded == \A b \in Bookings : sent[b] <= Attempts + MaxStalled

\* A job is kept as failed after the last attempt and not before, or when it stalled too often.
FailedForAReason ==
    \A b \in Bookings : state[b] = "failed" => made[b] = Attempts \/ stalls[b] > MaxStalled

\* What Redis keeps as completed reached the guest.
CompletedWasSent == \A b \in Bookings : state[b] = "completed" => sent[b] > 0

\* A finished job is not taken up again, by a repeated enqueue or by a worker that reports late.
FinishedStays ==
    [][\A b \in Bookings : state[b] \in Finished => state'[b] = state[b]]_vars

\* A reminder that was queued ends as completed or failed, whatever its workers do.
JobsEnd == \A b \in Bookings : state[b] = "waiting" ~> state[b] \in Finished
=============================================================================
