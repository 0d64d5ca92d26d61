------------------------- MODULE BookingSystemProofs -------------------------
(***************************************************************************)
(* Theorems about BookingReminders and BookingSystem, for any number of    *)
(* servers, requests, bookings and days.  Of the job alone: its types,     *)
(* that a booking recorded as reminded was mailed, that a run accounts for *)
(* every booking it read, and that a booking gets at most one reminder     *)
(* from each server.  Of the system: that neither component disturbs the   *)
(* other, what each keeps because of that, and that a reminder goes only   *)
(* to a booking its run had read.                                          *)
(***************************************************************************)
EXTENDS BookingSystem, BookingsServiceProofs, WellFoundedInduction

-----------------------------------------------------------------------------
(***************************************************************************)
(* The booking the loop is at is one of those left.                        *)
(***************************************************************************)
NatLess == {pair \in Nat \X Nat : pair[1] < pair[2]}

LEMMA LeastOf ==
    ASSUME NEW S \in SUBSET Nat, S # {}
    PROVE  \E least \in S : \A other \in S : least <= other
<1>1. IsWellFoundedOn(NatLess, Nat)
  BY NatLessThanWellFounded, Zenon DEF OpToRel, NatLess
<1>2. PICK least \in S : \A other \in S : <<other, least>> \notin NatLess
  BY <1>1, WFMin
<1>3. ASSUME NEW other \in S
      PROVE  least <= other
  <2>1. least \in Nat /\ other \in Nat
    OBVIOUS
  <2>2. <<other, least>> \in NatLess <=> other < least
    BY <2>1 DEF NatLess
  <2> QED
    BY <1>2, <2>1, <2>2
<1> QED
  BY <1>3
LEMMA CurrentIsLeft ==
    ASSUME StoreAssumption, JobTypeOK, NEW run \in Runs, runs[run].left # {}
    PROVE  /\ Current(run) \in runs[run].left
           /\ Current(run) \in BookingIds
           /\ Current(run) \in Ids
<1>1. runs[run].left \in SUBSET Ids /\ runs[run].left \subseteq BookingIds
  BY DEF JobTypeOK, RunState
<1>2. Ids \subseteq Nat
  BY DEF Ids, StoreAssumption
<1>3. \E least \in runs[run].left : \A other \in runs[run].left : least <= other
  BY <1>1, <1>2, LeastOf
<1>4. Current(run) \in runs[run].left
  BY <1>3 DEF Current
<1> QED
  BY <1>1, <1>4

-----------------------------------------------------------------------------
(***************************************************************************)
(* The type invariant.                                                     *)
(***************************************************************************)
LEMMA RowIds ==
    ASSUME StoreAssumption, JobTypeOK
    PROVE  /\ BookingIds = 1 .. Len(bookings)
           /\ Len(bookings) \in 0 .. MaxBookings
           /\ BookingIds \subseteq Ids
<1>1. Len(bookings) \in Nat /\ BookingIds = 1 .. Len(bookings)
  BY DEF JobTypeOK, StoreTypeOK, BookingIds
<1> QED
  BY <1>1 DEF JobTypeOK, Ids, StoreAssumption

\* A step of one run that writes a well-typed state for it.
LEMMA RunType ==
    ASSUME JobTypeOK, NEW run \in Runs, NEW state \in RunState,
           runs' = [runs EXCEPT ![run] = state],
           state.left \subseteq BookingIds,
           state.upTo <= Len(bookings),
           state.pc \in {"send", "mark"} => state.left # {},
           UNCHANGED <<bookings, today>>,
           reminded' \subseteq BookingIds,
           emails' \in [Servers \X Ids -> Nat]
    PROVE  JobTypeOK'
<1>1. StoreTypeOK' /\ BookingIds' = BookingIds
  BY DEF JobTypeOK, StoreTypeOK, BookingIds
<1>2. runs' \in [Runs -> RunState]
  BY DEF JobTypeOK
<1>3. ASSUME NEW other \in Runs
      PROVE  /\ runs'[other].left \subseteq BookingIds
             /\ runs'[other].upTo <= Len(bookings)
             /\ runs'[other].pc \in {"send", "mark"} => runs'[other].left # {}
  <2>1. CASE other = run
    BY <2>1 DEF JobTypeOK
  <2>2. CASE other # run
    BY <2>2 DEF JobTypeOK
  <2> QED
    BY <2>1, <2>2
<1> QED
  BY <1>1, <1>2, <1>3 DEF JobTypeOK

\* The state MoveTo writes.
LEMMA MoveToType ==
    ASSUME JobTypeOK, NEW run \in Runs, NEW next \in {"fetch", "mark", "aborted"},
           MoveTo(run, next),
           next = "mark" => runs[run].left # {},
           UNCHANGED <<bookings, today, reminded>>,
           emails' \in [Servers \X Ids -> Nat]
    PROVE  JobTypeOK'
<1> DEFINE state == [runs[run] EXCEPT !.pc = next]
<1>1. runs[run] \in RunState
  BY DEF JobTypeOK
<1>2. /\ state \in RunState
      /\ state.pc = next
      /\ state.left = runs[run].left
      /\ state.upTo = runs[run].upTo
  BY <1>1 DEF RunState
<1>3. runs' = [runs EXCEPT ![run] = state]
  BY DEF MoveTo
<1>4. /\ state.left \subseteq BookingIds
      /\ state.upTo <= Len(bookings)
      /\ state.pc \in {"send", "mark"} => state.left # {}
  BY <1>2 DEF JobTypeOK
<1>5. reminded' \subseteq BookingIds
  BY DEF JobTypeOK
<1> HIDE DEF state
<1> QED
  BY <1>2, <1>3, <1>4, <1>5, RunType

\* The state Leave writes.
LEMMA LeaveType ==
    ASSUME StoreAssumption, JobTypeOK, NEW run \in Runs, NEW failedHere \in SUBSET Ids,
           Leave(run, failedHere),
           UNCHANGED <<bookings, today>>,
           reminded' \subseteq BookingIds,
           emails' \in [Servers \X Ids -> Nat]
    PROVE  JobTypeOK'
<1> DEFINE rest  == runs[run].left \ {Current(run)}
           state == [pc     |-> IF rest = {} THEN "done" ELSE "send",
                     left   |-> rest,
                     failed |-> runs[run].failed \cup failedHere,
                     upTo   |-> runs[run].upTo]
<1>1. runs[run] \in RunState /\ runs[run].left \subseteq BookingIds
  BY DEF JobTypeOK
<1>2. state \in RunState
  BY <1>1 DEF RunState
<1>3. runs' = [runs EXCEPT ![run] = state]
  BY DEF Leave, JobTypeOK
<1>4. /\ state.left \subseteq BookingIds
      /\ state.upTo <= Len(bookings)
      /\ state.pc \in {"send", "mark"} => state.left # {}
  BY <1>1 DEF JobTypeOK
<1> HIDE DEF state
<1> QED
  BY <1>2, <1>3, <1>4, RunType

\* What a delivery does to the emails.
LEMMA DeliverEffect ==
    ASSUME JobTypeOK, NEW run \in Runs, NEW at \in Ids, Deliver(run, at)
    PROVE  /\ run[1] \in Servers
           /\ emails' \in [Servers \X Ids -> Nat]
           /\ emails'[<<run[1], at>>] = emails[<<run[1], at>>] + 1
           /\ \A sent \in Servers \X Ids : sent # <<run[1], at>> => emails'[sent] = emails[sent]
<1>1. run[1] \in Servers /\ <<run[1], at>> \in Servers \X Ids
  BY DEF Runs
<1> QED
  BY <1>1 DEF JobTypeOK, Deliver

LEMMA EmailsType ==
    ASSUME JobTypeOK, NEW run \in Runs, NEW id \in Ids, Deliver(run, id) \/ UNCHANGED emails
    PROVE  emails' \in [Servers \X Ids -> Nat]
  BY DeliverEffect DEF JobTypeOK

LEMMA JobTypeInit == ASSUME StoreAssumption, JobInit PROVE JobTypeOK
<1>1. [pc |-> "due", left |-> {}, failed |-> {}, upTo |-> 0] \in RunState
  BY DEF RunState, StoreAssumption
<1>2. runs \in [Runs -> RunState]
  BY <1>1 DEF JobInit
<1>3. emails \in [Servers \X Ids -> Nat]
  BY DEF JobInit
<1>4. StoreTypeOK /\ Len(bookings) <= MaxBookings
  BY DEF JobInit, StoreInit, StoreTypeOK, Dates, StoreAssumption
<1> QED
  BY <1>2, <1>3, <1>4 DEF JobInit, StoreInit, JobTypeOK, BookingIds

LEMMA JobTypeStep ==
    ASSUME StoreAssumption, JobTypeOK, [JobNext]_jobVars
    PROVE  JobTypeOK'
<1>1. ASSUME NEW run \in Runs, Start(run)
      PROVE  JobTypeOK'
  <2>1. emails' \in [Servers \X Ids -> Nat]
    BY <1>1 DEF Start, JobTypeOK
  <2> QED
    BY <1>1, <2>1, MoveToType DEF Start
<1>2. ASSUME NEW run \in Runs, FetchDue(run)
      PROVE  JobTypeOK'
  <2> DEFINE due   == DueForReminder(Tomorrow(run))
             state == [pc     |-> IF due = {} THEN "done" ELSE "send",
                       left   |-> due,
                       failed |-> {},
                       upTo   |-> Len(bookings)]
  <2>1. due \subseteq BookingIds /\ due \subseteq Ids
    BY RowIds DEF DueForReminder
  <2>2. state \in RunState
    BY <2>1, RowIds DEF RunState
  <2>3. runs' = [runs EXCEPT ![run] = state]
    BY <1>2 DEF FetchDue
  <2>4. state.upTo <= Len(bookings)
    BY RowIds
  <2>5. /\ state.left \subseteq BookingIds
        /\ state.pc \in {"send", "mark"} => state.left # {}
    BY <2>1
  <2>6. reminded' \subseteq BookingIds /\ emails' \in [Servers \X Ids -> Nat]
    BY <1>2 DEF FetchDue, JobTypeOK
  <2>7. UNCHANGED <<bookings, today>>
    BY <1>2 DEF FetchDue
  <2> HIDE DEF state
  <2> QED
    BY <2>2, <2>3, <2>4, <2>5, <2>6, <2>7, RunType
<1>3. ASSUME NEW run \in Runs, FetchRejects(run)
      PROVE  JobTypeOK'
  <2>1. emails' \in [Servers \X Ids -> Nat]
    BY <1>3 DEF FetchRejects, JobTypeOK
  <2> QED
    BY <1>3, <2>1, MoveToType DEF FetchRejects
<1>4. ASSUME NEW run \in Runs, Send(run)
      PROVE  JobTypeOK'
  <2>1. runs[run].left # {}
    BY <1>4 DEF Send, JobTypeOK
  <2>2. emails' \in [Servers \X Ids -> Nat]
    BY <1>4, <2>1, CurrentIsLeft, EmailsType DEF Send
  <2> QED
    BY <1>4, <2>1, <2>2, MoveToType DEF Send
<1>5. ASSUME NEW run \in Runs, SendRejects(run)
      PROVE  JobTypeOK'
  <2>1. Current(run) \in Ids
    BY <1>5, CurrentIsLeft DEF SendRejects, JobTypeOK
  <2>2. emails' \in [Servers \X Ids -> Nat]
    BY <1>5, <2>1, EmailsType DEF SendRejects
  <2>3. reminded' \subseteq BookingIds
    BY <1>5 DEF SendRejects, JobTypeOK
  <2>4. {Current(run)} \in SUBSET Ids
    BY <2>1
  <2> QED
    BY <1>5, <2>2, <2>3, <2>4, LeaveType DEF SendRejects
<1>6. ASSUME NEW run \in Runs, MarkReminderSent(run)
      PROVE  JobTypeOK'
  <2>1. Current(run) \in BookingIds
    BY <1>6, CurrentIsLeft DEF MarkReminderSent, JobTypeOK
  <2>2. reminded' \subseteq BookingIds /\ emails' \in [Servers \X Ids -> Nat]
    BY <1>6, <2>1 DEF MarkReminderSent, JobTypeOK
  <2>3. {} \in SUBSET Ids
    OBVIOUS
  <2> QED
    BY <1>6, <2>2, <2>3, LeaveType DEF MarkReminderSent
<1>7. ASSUME NEW run \in Runs, MarkRejects(run)
      PROVE  JobTypeOK'
  <2>1. Current(run) \in BookingIds /\ Current(run) \in Ids
    BY <1>7, CurrentIsLeft DEF MarkRejects, JobTypeOK
  <2>2. reminded' \subseteq BookingIds /\ emails' \in [Servers \X Ids -> Nat]
    BY <1>7, <2>1 DEF MarkRejects, JobTypeOK
  <2>3. {Current(run)} \in SUBSET Ids
    BY <2>1
  <2> QED
    BY <1>7, <2>2, <2>3, LeaveType DEF MarkRejects
<1>8. ASSUME NEW server \in Servers, Crash(server)
      PROVE  JobTypeOK'
  <2>1. ASSUME NEW run \in Runs
        PROVE  /\ runs'[run] \in RunState
               /\ runs'[run].left = runs[run].left
               /\ runs'[run].upTo = runs[run].upTo
               /\ runs'[run].pc \in {"send", "mark"} => runs[run].pc = runs'[run].pc
    <3>1. runs[run] \in RunState
      BY DEF JobTypeOK
    <3> QED
      BY <1>8, <3>1 DEF Crash, RunState
  <2>2. runs' \in [Runs -> RunState]
    BY <1>8, <2>1 DEF Crash
  <2>3. StoreTypeOK' /\ BookingIds' = BookingIds
    BY <1>8 DEF Crash, JobTypeOK, StoreTypeOK, BookingIds
  <2> QED
    BY <1>8, <2>1, <2>2, <2>3 DEF Crash, JobTypeOK
<1>9. ASSUME NEW booking \in NewBooking, Book(booking)
      PROVE  JobTypeOK'
  <2>1. /\ bookings' = Append(bookings, booking)
        /\ bookings \in Seq(NewBooking)
        /\ Len(bookings) < MaxBookings
    BY <1>9 DEF Book, Save, JobTypeOK, StoreTypeOK
  <2>2. /\ bookings' \in Seq(NewBooking)
        /\ Len(bookings') = Len(bookings) + 1
        /\ Len(bookings) \in Nat
        /\ BookingIds \subseteq BookingIds'
    BY <2>1 DEF BookingIds
  <2>3. StoreTypeOK' /\ Len(bookings') <= MaxBookings
    BY <1>9, <2>1, <2>2 DEF Book, JobTypeOK, StoreTypeOK, StoreAssumption
  <2>4. ASSUME NEW run \in Runs
        PROVE  /\ runs[run].left \subseteq BookingIds'
               /\ runs[run].upTo <= Len(bookings')
    <3>1. runs[run].upTo \in 0 .. MaxBookings /\ MaxBookings \in Nat
      BY DEF JobTypeOK, RunState, StoreAssumption
    <3>2. runs[run].left \subseteq BookingIds /\ runs[run].upTo <= Len(bookings)
      BY DEF JobTypeOK
    <3> QED
      BY <2>2, <3>1, <3>2
  <2> QED
    BY <1>9, <2>2, <2>3, <2>4 DEF Book, JobTypeOK
<1>10. CASE JobMidnight
  <2>1. StoreTypeOK' /\ BookingIds' = BookingIds
    BY <1>10 DEF JobMidnight, NextDay, JobTypeOK, StoreTypeOK, Dates, StoreAssumption, BookingIds
  <2> QED
    BY <1>10, <2>1 DEF JobMidnight, JobTypeOK
<1>11. CASE UNCHANGED jobVars
  BY <1>11 DEF jobVars, JobTypeOK, StoreTypeOK, BookingIds
<1> QED
  BY <1>1, <1>2, <1>3, <1>4, <1>5, <1>6, <1>7, <1>8, <1>9, <1>10, <1>11 DEF JobNext, ResumeRun

(***************************************************************************)
(* The variables keep their types; a run that sends or records is at one   *)
(* of the bookings it has left.                                            *)
(***************************************************************************)
THEOREM JobTypeCorrect == JobSpec => []JobTypeOK
<1>1. JobInit => JobTypeOK
  BY JobTypeInit, StoreAssumption
<1>2. JobTypeOK /\ [JobNext]_jobVars => JobTypeOK'
  BY JobTypeStep, StoreAssumption
<1> QED
  BY <1>1, <1>2, PTL DEF JobSpec
-----------------------------------------------------------------------------
(***************************************************************************)
(* Recorded means mailed.  Between the email and its record the run is at  *)
(* "mark", and the invariant says of it what RemindedWasMailed will say of *)
(* its booking.                                                            *)
(***************************************************************************)
MarkedWasMailed == \A run \in Runs : runs[run].pc = "mark" => Mailed(Current(run))

MailInv == JobTypeOK /\ MarkedWasMailed /\ RemindedWasMailed

LEMMA CurrentKept ==
    ASSUME NEW run \in Runs, runs'[run].left = runs[run].left
    PROVE  Current(run)' = Current(run)
  BY DEF Current

\* A booking that was mailed stays so.
LEMMA EmailsGrow ==
    ASSUME JobTypeOK, NEW run \in Runs, NEW at \in Ids, Deliver(run, at) \/ UNCHANGED emails
    PROVE  \A id \in Ids : Mailed(id) => Mailed(id)'
<1> SUFFICES ASSUME NEW id \in Ids, NEW server \in Servers, emails[<<server, id>>] > 0
             PROVE  emails'[<<server, id>>] > 0
  BY DEF Mailed
<1>1. <<server, id>> \in Servers \X Ids /\ emails[<<server, id>>] \in Nat
  BY DEF JobTypeOK
<1>2. CASE <<server, id>> = <<run[1], at>> /\ Deliver(run, at)
  BY <1>1, <1>2, DeliverEffect
<1>3. CASE <<server, id>> # <<run[1], at>> /\ Deliver(run, at)
  BY <1>1, <1>3, DeliverEffect
<1> QED
  BY <1>2, <1>3

\* A step that takes no run to "mark" and records only mailed bookings.
LEMMA MailKept ==
    ASSUME StoreAssumption, MailInv,
           \A run \in Runs : runs'[run].pc = "mark" =>
              runs[run].pc = "mark" /\ runs'[run].left = runs[run].left,
           \A id \in Ids : Mailed(id) => Mailed(id)',
           reminded' \subseteq reminded \cup {id \in Ids : Mailed(id)}
    PROVE  MarkedWasMailed' /\ RemindedWasMailed'
<1>1. MarkedWasMailed'
  <2> SUFFICES ASSUME NEW run \in Runs, runs'[run].pc = "mark"
               PROVE  Mailed(Current(run))'
    BY DEF MarkedWasMailed
  <2>1. runs[run].pc = "mark" /\ Current(run)' = Current(run)
    BY CurrentKept
  <2>2. Current(run) \in Ids
    BY <2>1, CurrentIsLeft DEF MailInv, JobTypeOK
  <2>3. Mailed(Current(run))
    BY <2>1 DEF MailInv, MarkedWasMailed
  <2>4. Mailed(Current(run))' <=> \E server \in Servers : emails'[<<server, Current(run)>>] > 0
    BY <2>1 DEF Mailed
  <2> QED
    BY <2>2, <2>3, <2>4 DEF Mailed
<1>2. RemindedWasMailed'
  <2> SUFFICES ASSUME NEW id \in reminded' PROVE Mailed(id)'
    BY DEF RemindedWasMailed
  <2>1. id \in Ids /\ Mailed(id)
    BY RowIds DEF MailInv, RemindedWasMailed, JobTypeOK
  <2> QED
    BY <2>1
<1> QED
  BY <1>1, <1>2

\* What Leave does to each run.
LEMMA LeaveEffect ==
    ASSUME JobTypeOK, NEW run \in Runs, NEW failedHere, Leave(run, failedHere)
    PROVE  /\ \A other \in Runs \ {run} : runs'[other] = runs[other]
           /\ runs'[run].left = runs[run].left \ {Current(run)}
           /\ runs'[run].failed = runs[run].failed \cup failedHere
           /\ runs'[run].upTo = runs[run].upTo
           /\ runs'[run].pc \in {"done", "send"}
  BY DEF Leave, JobTypeOK

LEMMA MoveToEffect ==
    ASSUME JobTypeOK, NEW run \in Runs, NEW next, MoveTo(run, next)
    PROVE  /\ \A other \in Runs \ {run} : runs'[other] = runs[other]
           /\ runs'[run].left = runs[run].left
           /\ runs'[run].failed = runs[run].failed
           /\ runs'[run].upTo = runs[run].upTo
           /\ runs'[run].pc = next
<1>1. runs[run] \in RunState
  BY DEF JobTypeOK
<1>2. runs'[run] = [runs[run] EXCEPT !.pc = next]
  BY DEF MoveTo, JobTypeOK
<1>3. \A other \in Runs \ {run} : runs'[other] = runs[other]
  BY DEF MoveTo, JobTypeOK
<1> QED
  BY <1>1, <1>2, <1>3 DEF RunState

LEMMA FetchEffect ==
    ASSUME JobTypeOK, NEW run \in Runs, FetchDue(run)
    PROVE  /\ \A other \in Runs \ {run} : runs'[other] = runs[other]
           /\ runs'[run].left = DueForReminder(Tomorrow(run))
           /\ runs'[run].upTo = Len(bookings)
           /\ runs'[run].pc \in {"done", "send"}
  BY DEF FetchDue, JobTypeOK

LEMMA CrashEffect ==
    ASSUME JobTypeOK, NEW server \in Servers, Crash(server), NEW run \in Runs
    PROVE  /\ runs'[run].left = runs[run].left
           /\ runs'[run].failed = runs[run].failed
           /\ runs'[run].upTo = runs[run].upTo
           /\ \/ runs'[run].pc = runs[run].pc
              \/ runs[run].pc \in {"fetch", "send", "mark"} /\ runs'[run].pc = "aborted"
<1>1. runs[run] \in RunState
  BY DEF JobTypeOK
<1>2. runs'[run] = IF run[1] = server /\ InProgress(run)
                   THEN [runs[run] EXCEPT !.pc = "aborted"]
                   ELSE runs[run]
  BY DEF Crash
<1> QED
  BY <1>1, <1>2 DEF RunState, InProgress

LEMMA MailStep ==
    ASSUME StoreAssumption, MailInv, [JobNext]_jobVars
    PROVE  MarkedWasMailed' /\ RemindedWasMailed'
<1> USE DEF MailInv
<1>1. UNCHANGED emails => \A id \in Ids : Mailed(id) => Mailed(id)'
  BY DEF Mailed
<1>2. ASSUME NEW run \in Runs, Start(run) \/ FetchRejects(run)
      PROVE  MarkedWasMailed' /\ RemindedWasMailed'
  <2>1. \A other \in Runs : runs'[other].pc = "mark" =>
           runs[other].pc = "mark" /\ runs'[other].left = runs[other].left
    BY <1>2, MoveToEffect DEF Start, FetchRejects
  <2>2. UNCHANGED <<reminded, emails>>
    BY <1>2 DEF Start, FetchRejects
  <2> QED
    BY <1>1, <2>1, <2>2, MailKept
<1>3. ASSUME NEW run \in Runs, FetchDue(run)
      PROVE  MarkedWasMailed' /\ RemindedWasMailed'
  <2>1. \A other \in Runs : runs'[other].pc = "mark" =>
           runs[other].pc = "mark" /\ runs'[other].left = runs[other].left
    BY <1>3, FetchEffect
  <2>2. UNCHANGED <<reminded, emails>>
    BY <1>3 DEF FetchDue
  <2> QED
    BY <1>1, <2>1, <2>2, MailKept
<1>4. ASSUME NEW run \in Runs, Send(run)
      PROVE  MarkedWasMailed' /\ RemindedWasMailed'
  <2>1. Current(run) \in Ids
    BY <1>4, CurrentIsLeft DEF Send, JobTypeOK
  <2>2. \A id \in Ids : Mailed(id) => Mailed(id)'
    BY <1>4, <2>1, EmailsGrow DEF Send
  <2>3. \E server \in Servers : emails'[<<server, Current(run)>>] > 0
    <3>1. run[1] \in Servers /\ emails[<<run[1], Current(run)>>] \in Nat
      BY <2>1 DEF Runs, JobTypeOK
    <3> QED
      BY <1>4, <2>1, <3>1, DeliverEffect DEF Send
  <2>4. /\ \A other \in Runs \ {run} : runs'[other] = runs[other]
        /\ Current(run)' = Current(run)
    BY <1>4, MoveToEffect, CurrentKept DEF Send
  <2>5. ASSUME NEW other \in Runs, runs'[other].pc = "mark"
        PROVE  Mailed(Current(other))'
    <3>1. CASE other = run
      BY <2>3, <2>4, <3>1 DEF Mailed
    <3>2. CASE other # run
      <4>1. runs[other].pc = "mark" /\ Current(other)' = Current(other)
        BY <2>4, <2>5, <3>2, CurrentKept
      <4>2. Current(other) \in Ids /\ Mailed(Current(other))
        BY <4>1, CurrentIsLeft DEF MarkedWasMailed, JobTypeOK
      <4>3. \E server \in Servers : emails'[<<server, Current(other)>>] > 0
        BY <2>2, <4>2 DEF Mailed
      <4> QED
        BY <4>1, <4>3 DEF Mailed
    <3> QED
      BY <3>1, <3>2
  <2>6. MarkedWasMailed'
    BY <2>5 DEF MarkedWasMailed
  <2>7. reminded' = reminded /\ reminded \subseteq Ids
    BY <1>4, RowIds DEF Send, JobTypeOK
  <2>8. RemindedWasMailed'
    BY <2>2, <2>7 DEF RemindedWasMailed
  <2> QED
    BY <2>6, <2>8
<1>5. ASSUME NEW run \in Runs, SendRejects(run)
      PROVE  MarkedWasMailed' /\ RemindedWasMailed'
  <2>1. Current(run) \in Ids
    BY <1>5, CurrentIsLeft DEF SendRejects, JobTypeOK
  <2>2. \A id \in Ids : Mailed(id) => Mailed(id)'
    BY <1>5, <2>1, EmailsGrow DEF SendRejects
  <2>3. \A other \in Runs : runs'[other].pc = "mark" =>
           runs[other].pc = "mark" /\ runs'[other].left = runs[other].left
    BY <1>5, LeaveEffect DEF SendRejects
  <2>4. reminded' = reminded
    BY <1>5 DEF SendRejects
  <2> QED
    BY <2>2, <2>3, <2>4, MailKept
<1>6. ASSUME NEW run \in Runs, MarkReminderSent(run) \/ MarkRejects(run)
      PROVE  MarkedWasMailed' /\ RemindedWasMailed'
  <2>1. Current(run) \in Ids /\ Mailed(Current(run))
    BY <1>6, CurrentIsLeft DEF MarkReminderSent, MarkRejects, MarkedWasMailed, JobTypeOK
  <2>2. reminded' \subseteq reminded \cup {id \in Ids : Mailed(id)}
    BY <1>6, <2>1 DEF MarkReminderSent, MarkRejects
  <2>3. \A other \in Runs : runs'[other].pc = "mark" =>
           runs[other].pc = "mark" /\ runs'[other].left = runs[other].left
    BY <1>6, LeaveEffect DEF MarkReminderSent, MarkRejects
  <2>4. UNCHANGED emails
    BY <1>6 DEF MarkReminderSent, MarkRejects
  <2> QED
    BY <1>1, <2>2, <2>3, <2>4, MailKept
<1>7. ASSUME NEW server \in Servers, Crash(server)
      PROVE  MarkedWasMailed' /\ RemindedWasMailed'
  <2>1. \A other \in Runs : runs'[other].pc = "mark" =>
           runs[other].pc = "mark" /\ runs'[other].left = runs[other].left
    BY <1>7, CrashEffect
  <2>2. UNCHANGED <<reminded, emails>>
    BY <1>7 DEF Crash
  <2> QED
    BY <1>1, <2>1, <2>2, MailKept
<1>8. ASSUME UNCHANGED <<reminded, runs, emails>>
      PROVE  MarkedWasMailed' /\ RemindedWasMailed'
  BY <1>1, <1>8, MailKept
<1> QED
  BY <1>2, <1>3, <1>4, <1>5, <1>6, <1>7, <1>8 DEF JobNext, ResumeRun, Book, JobMidnight, jobVars

(***************************************************************************)
(* A booking recorded as reminded was sent an email: neither a rejection   *)
(* nor a crash, on any server, records one that was not.                   *)
(***************************************************************************)
THEOREM RecordedMeansMailed == JobSpec => []RemindedWasMailed
<1>1. JobInit => MailInv
  <2> SUFFICES ASSUME JobInit PROVE MailInv
    OBVIOUS
  <2>1. JobTypeOK
    BY JobTypeInit, StoreAssumption
  <2> QED
    BY <2>1 DEF JobInit, MailInv, MarkedWasMailed, RemindedWasMailed
<1>2. MailInv /\ [JobNext]_jobVars => MailInv'
  BY JobTypeStep, MailStep, StoreAssumption DEF MailInv
<1>3. MailInv => RemindedWasMailed
  BY DEF MailInv
<1> QED
  BY <1>1, <1>2, <1>3, PTL DEF JobSpec
-----------------------------------------------------------------------------
(***************************************************************************)
(* A run accounts for the bookings it read.  With the types this invariant *)
(* is inductive: only FetchDue starts a run's account, and afterwards a    *)
(* booking leaves `left` for `failed` or `reminded` alone.                 *)
(***************************************************************************)
AccountInv == JobTypeOK /\ RunAccountsForAll

Accounted(run) == reminded \cup runs[run].failed \cup runs[run].left

LEMMA RowsStay ==
    ASSUME JobTypeOK, [JobNext]_jobVars
    PROVE  \A id \in BookingIds : id \in BookingIds' /\ bookings'[id] = bookings[id]
<1>1. ASSUME UNCHANGED bookings
      PROVE  \A id \in BookingIds : id \in BookingIds' /\ bookings'[id] = bookings[id]
  BY <1>1 DEF BookingIds
<1>2. ASSUME NEW booking \in NewBooking, Book(booking)
      PROVE  \A id \in BookingIds : id \in BookingIds' /\ bookings'[id] = bookings[id]
  BY <1>2 DEF Book, Save, JobTypeOK, StoreTypeOK, BookingIds
<1> QED
  BY <1>1, <1>2 DEF JobNext, ResumeRun, Start, FetchDue, FetchRejects, Send, SendRejects,
                    MarkReminderSent, MarkRejects, Crash, JobMidnight, jobVars

\* A run that keeps its account open keeps what it has accounted for.
KeepsAccount(run) ==
    runs'[run].pc \in {"send", "mark", "done"} =>
        /\ runs[run].pc \in {"send", "mark", "done"}
        /\ runs'[run].upTo = runs[run].upTo
        /\ Accounted(run) \subseteq Accounted(run)'

LEMMA AccountKept ==
    ASSUME StoreAssumption, AccountInv, [JobNext]_jobVars, NEW run \in Runs, KeepsAccount(run),
           runs'[run].pc \in {"send", "mark", "done"},
           NEW id \in 1 .. runs'[run].upTo, bookings'[id].date = Tomorrow(run)
    PROVE  id \in Accounted(run)'
<1>1. runs[run].upTo \in 0 .. MaxBookings /\ runs[run].upTo <= Len(bookings)
  BY DEF AccountInv, JobTypeOK, RunState
<1>2. id \in 1 .. runs[run].upTo
  BY DEF KeepsAccount
<1>3. id \in BookingIds
  BY <1>1, <1>2, RowIds DEF AccountInv, StoreAssumption
<1>4. bookings[id].date = Tomorrow(run)
  BY <1>3, RowsStay DEF AccountInv
<1>5. id \in Accounted(run)
  BY <1>2, <1>4 DEF AccountInv, RunAccountsForAll, KeepsAccount, Accounted
<1> QED
  BY <1>5 DEF KeepsAccount

LEMMA AccountStep ==
    ASSUME StoreAssumption, AccountInv, [JobNext]_jobVars
    PROVE  RunAccountsForAll'
<1> SUFFICES ASSUME NEW run \in Runs, runs'[run].pc \in {"send", "mark", "done"},
                    NEW id \in 1 .. runs'[run].upTo, bookings'[id].date = Tomorrow(run)
             PROVE  id \in Accounted(run)'
  BY DEF RunAccountsForAll, Accounted, Tomorrow
<1> USE DEF AccountInv
<1>1. ASSUME NEW other \in Runs, Start(other) \/ FetchRejects(other)
      PROVE  KeepsAccount(run)
  <2>1. reminded' = reminded
    BY <1>1 DEF Start, FetchRejects
  <2>2. MoveTo(other, "fetch") \/ MoveTo(other, "aborted")
    BY <1>1 DEF Start, FetchRejects
  <2>3. CASE run = other
    BY <2>2, <2>3, MoveToEffect DEF KeepsAccount
  <2>4. CASE run # other
    <3>1. runs'[run] = runs[run]
      BY <2>2, <2>4, MoveToEffect
    <3> QED
      BY <2>1, <3>1 DEF KeepsAccount, Accounted
  <2> QED
    BY <2>3, <2>4
<1>2. ASSUME NEW other \in Runs, Send(other)
      PROVE  KeepsAccount(run)
  <2>1. reminded' = reminded /\ MoveTo(other, "mark") /\ runs[other].pc = "send"
    BY <1>2 DEF Send
  <2>2. CASE run = other
    BY <2>1, <2>2, MoveToEffect DEF KeepsAccount, Accounted
  <2>3. CASE run # other
    <3>1. runs'[run] = runs[run]
      BY <2>1, <2>3, MoveToEffect
    <3> QED
      BY <2>1, <3>1 DEF KeepsAccount, Accounted
  <2> QED
    BY <2>2, <2>3
<1>3. ASSUME NEW other \in Runs,
             SendRejects(other) \/ MarkReminderSent(other) \/ MarkRejects(other)
      PROVE  KeepsAccount(run)
  <2>1. /\ reminded \subseteq reminded'
        /\ runs[other].pc \in {"send", "mark"}
    BY <1>3 DEF SendRejects, MarkReminderSent, MarkRejects
  <2>2. CASE run = other
    <3>1. PICK failedHere : /\ Leave(other, failedHere)
                            /\ Current(other) \in failedHere \cup reminded'
      BY <1>3 DEF SendRejects, MarkReminderSent, MarkRejects
    <3>2. /\ runs'[run].left = runs[run].left \ {Current(run)}
          /\ runs'[run].failed = runs[run].failed \cup failedHere
          /\ runs'[run].upTo = runs[run].upTo
      BY <2>2, <3>1, LeaveEffect
    <3>3. Accounted(run) \subseteq Accounted(run)'
      BY <2>1, <2>2, <3>1, <3>2 DEF Accounted
    <3> QED
      BY <2>1, <2>2, <3>2, <3>3 DEF KeepsAccount
  <2>3. CASE run # other
    <3>1. runs'[run] = runs[run]
      BY <1>3, <2>3, LeaveEffect DEF SendRejects, MarkReminderSent, MarkRejects
    <3> QED
      BY <2>1, <3>1 DEF KeepsAccount, Accounted
  <2> QED
    BY <2>2, <2>3
<1>4. ASSUME NEW server \in Servers, Crash(server)
      PROVE  KeepsAccount(run)
  BY <1>4, CrashEffect DEF Crash, KeepsAccount, Accounted
<1>5. ASSUME UNCHANGED <<reminded, runs>>
      PROVE  KeepsAccount(run)
  BY <1>5 DEF KeepsAccount, Accounted
<1>6. ASSUME NEW other \in Runs, FetchDue(other)
      PROVE  id \in Accounted(run)'
  <2>1. UNCHANGED <<bookings, reminded>>
    BY <1>6 DEF FetchDue
  <2>2. CASE run = other
    <3>1. runs'[run].upTo = Len(bookings) /\ runs'[run].left = DueForReminder(Tomorrow(run))
      BY <1>6, <2>2, FetchEffect
    <3>2. id \in BookingIds /\ bookings[id].date = Tomorrow(run)
      BY <2>1, <3>1, RowIds
    <3> QED
      BY <2>1, <3>1, <3>2 DEF Accounted, DueForReminder
  <2>3. CASE run # other
    <3>1. runs'[run] = runs[run]
      BY <1>6, <2>3, FetchEffect
    <3>2. KeepsAccount(run)
      BY <2>1, <3>1 DEF KeepsAccount, Accounted
    <3> QED
      BY <3>2, AccountKept
  <2> QED
    BY <2>2, <2>3
<1> QED
  BY <1>1, <1>2, <1>3, <1>4, <1>5, <1>6, AccountKept
     DEF JobNext, ResumeRun, Book, JobMidnight, jobVars

(***************************************************************************)
(* Once a run is done, each booking for its tomorrow that it could read is *)
(* recorded or among its failures: none is skipped, with any number of     *)
(* servers running beside it.                                              *)
(***************************************************************************)
THEOREM RunsAccountForAll == JobSpec => []RunAccountsForAll
<1>1. JobInit => AccountInv
  <2> SUFFICES ASSUME JobInit PROVE AccountInv
    OBVIOUS
  <2>1. JobTypeOK
    BY JobTypeInit, StoreAssumption
  <2> QED
    BY <2>1 DEF JobInit, AccountInv, RunAccountsForAll
<1>2. AccountInv /\ [JobNext]_jobVars => AccountInv'
  BY JobTypeStep, AccountStep, StoreAssumption DEF AccountInv
<1>3. AccountInv => RunAccountsForAll
  BY DEF AccountInv
<1> QED
  BY <1>1, <1>2, <1>3, PTL DEF JobSpec
-----------------------------------------------------------------------------
(***************************************************************************)
(* At most one reminder from each server.  A server that has mailed a      *)
(* booking has passed it in its run of the booking's eve: a run sends to a *)
(* booking it has not passed, and has passed it from then on; and a run    *)
(* picks up only bookings for its own tomorrow, so each server has one run *)
(* that can.                                                               *)
(***************************************************************************)
Passed(run, id) ==
    \/ runs[run].pc = "aborted"
    \/ runs[run].pc \in {"send", "mark", "done"} /\ id \notin runs[run].left
    \/ runs[run].pc = "mark" /\ id = Current(run)

PassedBy(server, id) ==
    \E day \in Dates : day + 1 = bookings[id].date /\ Passed(<<server, day>>, id)

LeftIsForTomorrow ==
    \A run \in Runs : \A id \in runs[run].left : bookings[id].date = Tomorrow(run)

NothingLeftBeforeFetch ==
    \A run \in Runs : runs[run].pc \in {"due", "fetch"} => runs[run].left = {}

UnsavedUnmailed == \A server \in Servers, id \in Ids \ BookingIds : emails[<<server, id>>] = 0

MailedOnceIfPassed ==
    \A server \in Servers, id \in BookingIds :
        \/ emails[<<server, id>>] = 0
        \/ emails[<<server, id>>] = 1 /\ PassedBy(server, id)

OnceInv == /\ JobTypeOK
           /\ LeftIsForTomorrow
           /\ NothingLeftBeforeFetch
           /\ UnsavedUnmailed
           /\ MailedOnceIfPassed

\* A run that has passed a booking has passed it after the step.
LEMMA PassedStays ==
    ASSUME StoreAssumption, JobTypeOK, [JobNext]_jobVars, NEW run \in Runs, NEW id, Passed(run, id)
    PROVE  Passed(run, id)'
<1>1. runs[run].pc \in {"send", "mark", "done", "aborted"}
  BY DEF Passed
<1>2. CASE runs'[run] = runs[run]
  BY <1>2 DEF Passed, Current
<1>3. ASSUME NEW other \in Runs, Start(other) \/ FetchRejects(other)
      PROVE  runs'[run] = runs[run]
  <2>1. other # run /\ (MoveTo(other, "fetch") \/ MoveTo(other, "aborted"))
    BY <1>1, <1>3 DEF Start, FetchRejects
  <2> QED
    BY <2>1, MoveToEffect
<1>4. ASSUME NEW other \in Runs, FetchDue(other)
      PROVE  runs'[run] = runs[run]
  <2>1. other # run
    BY <1>1, <1>4 DEF FetchDue
  <2> QED
    BY <1>4, <2>1, FetchEffect
<1>5. ASSUME NEW other \in Runs, Send(other), runs'[run] # runs[run]
      PROVE  Passed(run, id)'
  <2>1. /\ other = run
        /\ runs'[run].left = runs[run].left
        /\ runs'[run].pc = "mark"
        /\ runs[run].pc = "send"
    BY <1>5, MoveToEffect DEF Send
  <2> QED
    BY <2>1 DEF Passed
<1>6. ASSUME NEW other \in Runs, runs'[run] # runs[run],
             SendRejects(other) \/ MarkReminderSent(other) \/ MarkRejects(other)
      PROVE  Passed(run, id)'
  <2>1. /\ other = run
        /\ runs'[run].left = runs[run].left \ {Current(run)}
        /\ runs'[run].pc \in {"done", "send"}
        /\ runs[run].pc \in {"send", "mark"}
    BY <1>6, LeaveEffect DEF SendRejects, MarkReminderSent, MarkRejects
  <2> QED
    BY <2>1 DEF Passed
<1>7. ASSUME NEW server \in Servers, Crash(server)
      PROVE  Passed(run, id)'
  <2>1. /\ runs'[run].left = runs[run].left
        /\ runs'[run].pc \in {runs[run].pc, "aborted"}
    BY <1>7, CrashEffect
  <2>2. Current(run)' = Current(run)
    BY <2>1, CurrentKept
  <2> QED
    BY <2>1, <2>2 DEF Passed
<1>8. UNCHANGED runs => runs'[run] = runs[run]
  OBVIOUS
<1> QED
  BY <1>2, <1>3, <1>4, <1>5, <1>6, <1>7, <1>8 DEF JobNext, ResumeRun, Book, JobMidnight, jobVars

LEMMA PassedByStays ==
    ASSUME StoreAssumption, JobTypeOK, [JobNext]_jobVars, NEW id \in BookingIds, NEW server \in Servers,
           PassedBy(server, id)
    PROVE  PassedBy(server, id)'
<1>1. bookings'[id] = bookings[id]
  BY RowsStay
<1>2. PICK day \in Dates : day + 1 = bookings[id].date /\ Passed(<<server, day>>, id)
  BY DEF PassedBy
<1>3. Passed(<<server, day>>, id)'
  <2>1. <<server, day>> \in Runs
    BY DEF Runs
  <2> QED
    BY <1>2, <2>1, PassedStays
<1> QED
  BY <1>1, <1>2, <1>3 DEF PassedBy, Dates

\* A step that delivers nothing.
LEMMA CountKept ==
    ASSUME StoreAssumption, OnceInv, [JobNext]_jobVars, UNCHANGED emails
    PROVE  UnsavedUnmailed' /\ MailedOnceIfPassed'
<1>1. JobTypeOK' /\ BookingIds \subseteq BookingIds'
  BY JobTypeStep, RowsStay DEF OnceInv
<1>2. UnsavedUnmailed'
  BY <1>1 DEF OnceInv, UnsavedUnmailed
<1>3. BookingIds' \subseteq Ids
  <2>1. JobTypeOK' => BookingIds' \subseteq Ids
    BY DEF JobTypeOK, StoreTypeOK, BookingIds, Ids, StoreAssumption
  <2> QED
    BY <1>1, <2>1
<1>4. ASSUME NEW server \in Servers, NEW id \in BookingIds'
      PROVE  \/ emails'[<<server, id>>] = 0
             \/ emails'[<<server, id>>] = 1 /\ PassedBy(server, id)'
  <2>1. CASE id \in BookingIds
    BY <2>1, PassedByStays DEF OnceInv, MailedOnceIfPassed
  <2>2. CASE id \notin BookingIds
    BY <1>3, <2>2 DEF OnceInv, UnsavedUnmailed
  <2> QED
    BY <2>1, <2>2
<1> QED
  BY <1>2, <1>4 DEF MailedOnceIfPassed

\* A delivery: the server had not passed the booking, and now has.
LEMMA CountDelivery ==
    ASSUME StoreAssumption, OnceInv, [JobNext]_jobVars,
           NEW run \in Runs, runs[run].pc = "send",
           NEW at, at = Current(run), Deliver(run, at),
           UNCHANGED <<bookings, reminded>>,
           Passed(run, at)'
    PROVE  UnsavedUnmailed' /\ MailedOnceIfPassed'
<1>1. at \in runs[run].left /\ at \in BookingIds /\ at \in Ids
  BY CurrentIsLeft DEF OnceInv, JobTypeOK
<1>2. /\ run[1] \in Servers
      /\ emails'[<<run[1], at>>] = emails[<<run[1], at>>] + 1
      /\ \A sent \in Servers \X Ids : sent # <<run[1], at>> => emails'[sent] = emails[sent]
  BY <1>1, DeliverEffect DEF OnceInv
<1>3. BookingIds' = BookingIds /\ BookingIds \subseteq Ids
  BY RowIds DEF OnceInv, BookingIds
<1>4. UnsavedUnmailed'
  <2>1. \A server \in Servers, id \in Ids \ BookingIds : emails'[<<server, id>>] = emails[<<server, id>>]
    BY <1>1, <1>2
  <2> QED
    BY <1>3, <2>1 DEF OnceInv, UnsavedUnmailed
<1>5. run[2] \in Dates /\ run = <<run[1], run[2]>>
  BY DEF Runs
<1>6. bookings[at].date = run[2] + 1
  BY <1>1 DEF OnceInv, LeftIsForTomorrow, Tomorrow
<1>7. ~ PassedBy(run[1], at)
  <2> SUFFICES ASSUME NEW day \in Dates, day + 1 = bookings[at].date,
                      Passed(<<run[1], day>>, at)
               PROVE  FALSE
    BY DEF PassedBy
  <2>1. day \in Int /\ run[2] \in Int
    BY <1>5 DEF Dates
  <2>2. day = run[2]
    BY <1>6, <2>1
  <2>3. Passed(run, at)
    BY <1>5, <2>2
  <2> QED
    BY <1>1, <2>3 DEF Passed
<1>8. PassedBy(run[1], at)'
  BY <1>5, <1>6 DEF PassedBy
<1>9. ASSUME NEW server \in Servers, NEW id \in BookingIds
      PROVE  \/ emails'[<<server, id>>] = 0
             \/ emails'[<<server, id>>] = 1 /\ PassedBy(server, id)'
  <2>1. \/ emails[<<server, id>>] = 0
        \/ emails[<<server, id>>] = 1 /\ PassedBy(server, id)
    BY DEF OnceInv, MailedOnceIfPassed
  <2>2. CASE server = run[1] /\ id = at
    BY <1>2, <1>7, <1>8, <2>1, <2>2
  <2>3. CASE ~ (server = run[1] /\ id = at)
    <3>1. emails'[<<server, id>>] = emails[<<server, id>>]
      BY <1>2, <1>3, <1>9, <2>3
    <3> QED
      BY <1>9, <2>1, <3>1, PassedByStays DEF OnceInv
  <2> QED
    BY <2>2, <2>3
<1> QED
  BY <1>3, <1>4, <1>9 DEF MailedOnceIfPassed

\* Each run has left only bookings for its tomorrow, and none before it reads them.
LEMMA LeftStep ==
    ASSUME StoreAssumption, OnceInv, [JobNext]_jobVars
    PROVE  LeftIsForTomorrow' /\ NothingLeftBeforeFetch'
<1>1. ASSUME NEW run \in Runs,
             \/ /\ runs'[run].left \subseteq runs[run].left
                /\ runs'[run].pc \in {"due", "fetch"} => runs'[run].left = {}
             \/ FetchDue(run)
      PROVE  /\ \A id \in runs'[run].left : bookings'[id].date = Tomorrow(run)
             /\ runs'[run].pc \in {"due", "fetch"} => runs'[run].left = {}
  <2>1. CASE runs'[run].left \subseteq runs[run].left
    <3>1. \A id \in runs[run].left : id \in BookingIds /\ bookings[id].date = Tomorrow(run)
      BY DEF OnceInv, JobTypeOK, LeftIsForTomorrow
    <3>2. \A id \in runs[run].left : bookings'[id] = bookings[id]
      BY <3>1, RowsStay DEF OnceInv
    <3>3. FetchDue(run) => runs'[run].pc \notin {"due", "fetch"}
      BY FetchEffect DEF OnceInv
    <3> QED
      BY <1>1, <2>1, <3>1, <3>2, <3>3
  <2>2. CASE FetchDue(run)
    <3>1. /\ runs'[run].left = DueForReminder(Tomorrow(run))
          /\ runs'[run].pc \in {"done", "send"}
          /\ UNCHANGED bookings
      BY <2>2, FetchEffect DEF OnceInv, FetchDue
    <3> QED
      BY <3>1 DEF DueForReminder
  <2> QED
    BY <1>1, <2>1, <2>2
<1>2. ASSUME NEW run \in Runs
      PROVE  \/ /\ runs'[run].left \subseteq runs[run].left
                /\ runs'[run].pc \in {"due", "fetch"} => runs'[run].left = {}
             \/ FetchDue(run)
  <2>1. runs[run].pc \in {"due", "fetch"} => runs[run].left = {}
    BY DEF OnceInv, NothingLeftBeforeFetch
  <2>2. CASE runs'[run] = runs[run]
    BY <2>1, <2>2
  <2>3. ASSUME NEW other \in Runs, runs'[run] # runs[run],
               Start(other) \/ FetchRejects(other) \/ Send(other)
        PROVE  /\ runs'[run].left \subseteq runs[run].left
               /\ runs'[run].pc \in {"due", "fetch"} => runs'[run].left = {}
    BY <2>1, <2>3, MoveToEffect DEF OnceInv, Start, FetchRejects, Send
  <2>4. ASSUME NEW other \in Runs, runs'[run] # runs[run], FetchDue(other)
        PROVE  other = run
    BY <2>4, FetchEffect DEF OnceInv
  <2>5. ASSUME NEW other \in Runs, runs'[run] # runs[run],
               SendRejects(other) \/ MarkReminderSent(other) \/ MarkRejects(other)
        PROVE  /\ runs'[run].left \subseteq runs[run].left
               /\ runs'[run].pc \notin {"due", "fetch"}
    BY <2>5, LeaveEffect DEF OnceInv, SendRejects, MarkReminderSent, MarkRejects
  <2>6. ASSUME NEW server \in Servers, Crash(server)
        PROVE  /\ runs'[run].left = runs[run].left
               /\ runs'[run].pc \in {runs[run].pc, "aborted"}
    BY <2>6, CrashEffect DEF OnceInv
  <2>7. UNCHANGED runs => runs'[run] = runs[run]
    OBVIOUS
  <2> QED
    BY <2>1, <2>2, <2>3, <2>4, <2>5, <2>6, <2>7 DEF JobNext, ResumeRun, Book, JobMidnight, jobVars
<1> QED
  BY <1>1, <1>2 DEF LeftIsForTomorrow, NothingLeftBeforeFetch, Tomorrow

LEMMA CountStep ==
    ASSUME StoreAssumption, OnceInv, [JobNext]_jobVars
    PROVE  UnsavedUnmailed' /\ MailedOnceIfPassed'
<1>1. CASE UNCHANGED emails
  BY <1>1, CountKept
<1>2. ASSUME NEW run \in Runs, Send(run)
      PROVE  UnsavedUnmailed' /\ MailedOnceIfPassed'
  <2>1. PICK at : at = Current(run)
    OBVIOUS
  <2>2. runs'[run].pc = "mark" /\ Current(run)' = at
    BY <1>2, <2>1, MoveToEffect, CurrentKept DEF OnceInv, Send
  <2>3. Passed(run, at)'
    BY <2>2 DEF Passed
  <2>4. runs[run].pc = "send" /\ Deliver(run, at) /\ UNCHANGED <<bookings, reminded>>
    BY <1>2, <2>1 DEF Send
  <2> QED
    BY <2>1, <2>3, <2>4, CountDelivery
<1>3. ASSUME NEW run \in Runs, SendRejects(run), ~ UNCHANGED emails
      PROVE  UnsavedUnmailed' /\ MailedOnceIfPassed'
  <2>1. PICK at : at = Current(run)
    OBVIOUS
  <2>2. runs'[run].pc \in {"done", "send"} /\ at \notin runs'[run].left
    BY <1>3, <2>1, LeaveEffect DEF OnceInv, SendRejects
  <2>3. Passed(run, at)'
    BY <2>2 DEF Passed
  <2>4. runs[run].pc = "send" /\ Deliver(run, at) /\ UNCHANGED <<bookings, reminded>>
    BY <1>3, <2>1 DEF SendRejects
  <2> QED
    BY <2>1, <2>3, <2>4, CountDelivery
<1> QED
  BY <1>1, <1>2, <1>3 DEF JobNext, ResumeRun, Start, FetchDue, FetchRejects, MarkReminderSent,
                          MarkRejects, Crash, Book, JobMidnight, jobVars

LEMMA OnceInit ==
    ASSUME StoreAssumption, JobInit
    PROVE  OnceInv
<1>1. JobTypeOK
  BY JobTypeInit
<1>2. LeftIsForTomorrow /\ NothingLeftBeforeFetch
  BY DEF JobInit, LeftIsForTomorrow, NothingLeftBeforeFetch
<1>3. BookingIds = {} /\ \A server \in Servers, id \in Ids : emails[<<server, id>>] = 0
  BY DEF JobInit, StoreInit, BookingIds
<1> QED
  BY <1>1, <1>2, <1>3 DEF OnceInv, UnsavedUnmailed, MailedOnceIfPassed

LEMMA OnceInvariant == JobSpec => []OnceInv
<1>1. JobInit => OnceInv
  BY OnceInit, StoreAssumption
<1>2. OnceInv /\ [JobNext]_jobVars => OnceInv'
  BY JobTypeStep, LeftStep, CountStep, StoreAssumption DEF OnceInv
<1> QED
  BY <1>1, <1>2, PTL DEF JobSpec

(***************************************************************************)
(* A booking gets at most one reminder from each server, over all the days *)
(* and however its runs fail, overlap or crash.                            *)
(***************************************************************************)
THEOREM AtMostOncePerServer == JobSpec => []OncePerServer
<1>1. OnceInv => OncePerServer
  <2> SUFFICES ASSUME OnceInv, NEW server \in Servers, NEW id \in Ids
               PROVE  emails[<<server, id>>] <= 1
    BY DEF OncePerServer
  <2>1. emails[<<server, id>>] \in {0, 1}
    BY DEF OnceInv, MailedOnceIfPassed, UnsavedUnmailed
  <2> QED
    BY <2>1
<1> QED
  BY <1>1, OnceInvariant, PTL

(***************************************************************************)
(* What the job's comment promises holds with one server: a booking gets   *)
(* at most one reminder, after a restart too.                              *)
(***************************************************************************)
THEOREM OneServerRemindsOnce ==
    ASSUME \A server \in Servers, other \in Servers : server = other
    PROVE  JobSpec => []EachReminderOnce
<1>1. OnceInv => EachReminderOnce
  <2> SUFFICES ASSUME OnceInv, NEW id \in Ids, NEW server \in Servers, emails[<<server, id>>] > 0
               PROVE  emails[<<server, id>>] = 1 /\ Servers \ {server} = {}
    BY DEF EachReminderOnce
  <2> QED
    BY DEF OnceInv, MailedOnceIfPassed, UnsavedUnmailed
<1> QED
  BY <1>1, OnceInvariant, PTL

-----------------------------------------------------------------------------
(***************************************************************************)
(* A reminder goes only to what its run read.  What a run has left are     *)
(* rows that were in the table when it read them, and rows it has not read *)
(* have higher ids.                                                        *)
(***************************************************************************)
LeftWasRead == \A run \in Runs : \A id \in runs[run].left : id <= runs[run].upTo

ReadInv == OnceInv /\ LeftWasRead

LEMMA ReadStep ==
    ASSUME StoreAssumption, ReadInv, [JobNext]_jobVars
    PROVE  LeftWasRead'
<1> SUFFICES ASSUME NEW run \in Runs, NEW id \in runs'[run].left
             PROVE  id <= runs'[run].upTo
  BY DEF LeftWasRead, Runs, Dates
<1>1. JobTypeOK
  BY DEF ReadInv, OnceInv
<1>2. CASE runs'[run] = runs[run]
  BY <1>2 DEF ReadInv, LeftWasRead
<1>3. ASSUME NEW other \in Runs, runs'[run] # runs[run],
             Start(other) \/ FetchRejects(other) \/ Send(other)
      PROVE  runs'[run].left = runs[run].left /\ runs'[run].upTo = runs[run].upTo
  BY <1>1, <1>3, MoveToEffect DEF Start, FetchRejects, Send
<1>4. ASSUME NEW other \in Runs, runs'[run] # runs[run], FetchDue(other)
      PROVE  id <= runs'[run].upTo
  <2>1. other = run /\ runs'[run].upTo = Len(bookings) /\ runs'[run].left = DueForReminder(Tomorrow(run))
    BY <1>1, <1>4 DEF FetchDue, JobTypeOK
  <2>2. id \in BookingIds
    BY <2>1 DEF DueForReminder
  <2> QED
    BY <1>1, <2>1, <2>2, RowIds
<1>5. ASSUME NEW other \in Runs, runs'[run] # runs[run],
             SendRejects(other) \/ MarkReminderSent(other) \/ MarkRejects(other)
      PROVE  runs'[run].left \subseteq runs[run].left /\ runs'[run].upTo = runs[run].upTo
  BY <1>1, <1>5, LeaveEffect DEF SendRejects, MarkReminderSent, MarkRejects
<1>6. ASSUME NEW server \in Servers, Crash(server)
      PROVE  runs'[run].left = runs[run].left /\ runs'[run].upTo = runs[run].upTo
  BY <1>1, <1>6, CrashEffect
<1>7. ASSUME runs'[run].left \subseteq runs[run].left, runs'[run].upTo = runs[run].upTo
      PROVE  id <= runs'[run].upTo
  BY <1>7 DEF ReadInv, LeftWasRead
<1>8. UNCHANGED runs => runs'[run] = runs[run]
  OBVIOUS
<1> QED
  BY <1>2, <1>3, <1>4, <1>5, <1>6, <1>7, <1>8 DEF JobNext, ResumeRun, Book, JobMidnight, jobVars

LEMMA ReadInvariant == JobSpec => []ReadInv
<1>1. JobInit => LeftWasRead
  BY DEF JobInit, LeftWasRead
<1>2. ReadInv /\ [JobNext]_jobVars => LeftWasRead'
  BY ReadStep, StoreAssumption
<1> QED
  BY <1>1, <1>2, OnceInvariant, PTL DEF JobSpec, ReadInv

\* Only a run at "send" mails, and only the booking its loop is at.
LEMMA MailedByARun ==
    ASSUME StoreAssumption, ReadInv, [JobNext]_jobVars, NEW server \in Servers, NEW id \in Ids,
           emails'[<<server, id>>] # emails[<<server, id>>]
    PROVE  \E run \in Runs :
              /\ run[1] = server
              /\ runs[run].pc = "send"
              /\ runs'[run] # runs[run]
              /\ id <= runs[run].upTo
              /\ bookings[id].date = Tomorrow(run)
<1>1. JobTypeOK
  BY DEF ReadInv, OnceInv
<1>2. PICK run \in Runs : (Send(run) \/ SendRejects(run)) /\ Deliver(run, Current(run))
  BY DEF JobNext, ResumeRun, Start, FetchDue, FetchRejects, Send, SendRejects, MarkReminderSent,
         MarkRejects, Crash, Book, JobMidnight, jobVars
<1>3. runs[run].pc = "send" /\ runs[run].left # {}
  BY <1>1, <1>2 DEF Send, SendRejects, JobTypeOK
<1>4. id = Current(run) /\ run[1] = server
  <2>1. Current(run) \in Ids
    BY <1>1, <1>3, CurrentIsLeft
  <2>2. \A sent \in Servers \X Ids : sent # <<run[1], Current(run)>> => emails'[sent] = emails[sent]
    BY <1>1, <1>2, <2>1, DeliverEffect
  <2>3. <<server, id>> \in Servers \X Ids
    OBVIOUS
  <2>4. <<server, id>> = <<run[1], Current(run)>>
    BY <2>2, <2>3
  <2> QED
    BY <2>4
<1>5. id \in runs[run].left
  BY <1>1, <1>3, <1>4, CurrentIsLeft
<1>6. runs'[run] # runs[run]
  <2>1. CASE Send(run)
    BY <1>1, <1>3, <2>1, MoveToEffect DEF Send
  <2>2. CASE SendRejects(run)
    BY <1>1, <1>4, <1>5, <2>2, LeaveEffect DEF SendRejects
  <2> QED
    BY <1>2, <2>1, <2>2
<1> QED
  BY <1>3, <1>4, <1>5, <1>6 DEF ReadInv, OnceInv, LeftIsForTomorrow, LeftWasRead

-----------------------------------------------------------------------------
(***************************************************************************)
(* The system.  A step of it is a step of the service and a step of the    *)
(* job, one of which is a stutter, or a save: that is a booking somebody   *)
(* makes, for the job.                                                     *)
(***************************************************************************)
LEMMA StepOfService ==
    ASSUME [Next]_vars
    PROVE  [ServiceNext]_serviceVars
<1>1. ASSUME NEW r \in Requests, ServeRequest(r)
      PROVE  ServiceNext
  BY <1>1 DEF ServeRequest, ServiceNext
<1>2. ASSUME NEW run \in Runs, RunJob(run)
      PROVE  UNCHANGED serviceVars
  BY <1>2 DEF RunJob, Start, ResumeRun, FetchDue, FetchRejects, Send, SendRejects, MarkReminderSent,
              MarkRejects, requestVars, serviceVars
<1>3. ASSUME NEW server \in Servers, StopServer(server)
      PROVE  UNCHANGED serviceVars
  BY <1>3 DEF StopServer, Crash, requestVars, serviceVars
<1>4. ASSUME Midnight
      PROVE  ServiceNext
  BY <1>4 DEF Midnight, ServiceMidnight, ServiceNext, requestVars
<1>5. ASSUME UNCHANGED vars
      PROVE  UNCHANGED serviceVars
  BY <1>5 DEF vars, requestVars, serviceVars
<1> QED
  BY <1>1, <1>2, <1>3, <1>4, <1>5 DEF Next

LEMMA StepOfJob ==
    ASSUME ServiceTypeOK, [Next]_vars
    PROVE  [JobNext]_jobVars
<1>1. ASSUME NEW r \in Requests, ServeRequest(r)
      PROVE  JobNext \/ UNCHANGED jobVars
  <2>1. CASE SaveBooking(r) \/ SaveUnconfirmed(r)
    <3>1. call[r] \in NewBooking
      BY <2>1, CallType DEF SaveBooking, SaveUnconfirmed
    <3>2. Book(call[r])
      BY <1>1, <2>1 DEF ServeRequest, SaveBooking, SaveUnconfirmed, Insert, Book, reminderVars
    <3> QED
      BY <3>1, <3>2 DEF JobNext
  <2>2. CASE Arrive(r) \/ FindHall(r) \/ CountGuests(r) \/ FindOne(r) \/ ListMine(r) \/ StoreFails(r)
    BY <1>1, <2>2 DEF ServeRequest, Arrive, RefuseCaller, RefuseInput, PostBooking, GetBooking,
                      GetBookings, FindHall, CountGuests, FindOne, ListMine, StoreFails,
                      reminderVars, jobVars
  <2> QED
    BY <1>1, <2>1, <2>2 DEF ServeRequest, ResumeRequest
<1>2. ASSUME NEW run \in Runs, RunJob(run)
      PROVE  JobNext
  BY <1>2 DEF RunJob, JobNext
<1>3. ASSUME NEW server \in Servers, StopServer(server)
      PROVE  JobNext
  BY <1>3 DEF StopServer, JobNext
<1>4. ASSUME Midnight
      PROVE  JobNext
  BY <1>4 DEF Midnight, JobMidnight, JobNext, reminderVars
<1>5. ASSUME UNCHANGED vars
      PROVE  UNCHANGED jobVars
  BY <1>5 DEF vars, reminderVars, jobVars
<1> QED
  BY <1>1, <1>2, <1>3, <1>4, <1>5 DEF Next

LEMMA SystemRunsService == Spec => ServiceSpec
<1>1. Init => ServiceInit
  BY DEF Init
<1>2. [Next]_vars => [ServiceNext]_serviceVars
  BY StepOfService
<1> QED
  BY <1>1, <1>2, PTL DEF Spec, ServiceSpec

(***************************************************************************)
(* Neither component disturbs the other: the system is the service of      *)
(* BookingsService and the job of BookingReminders, fairness included, for *)
(* any number of requests and servers over one table.                      *)
(***************************************************************************)
THEOREM NeitherDisturbsTheOther == Spec => EachUndisturbed
<1>1. Init => JobInit
  BY DEF Init
<1>2. ServiceTypeOK /\ [Next]_vars => [JobNext]_jobVars
  BY StepOfJob
<1>3. Spec => JobSpec
  BY <1>1, <1>2, SystemRunsService, ServiceTypeCorrect, PTL DEF Spec, JobSpec
<1> QED
  BY <1>3, SystemRunsService, PTL DEF EachUndisturbed

(***************************************************************************)
(* What the service promises alone it keeps beside the job: the bound on   *)
(* overbooking, that only a race overbooks, whose bookings it shows, and   *)
(* that it takes bookings as the desk does.                                *)
(***************************************************************************)
THEOREM SystemKeepsServicePromises ==
    Spec => []OverbookingBounded /\ []OverbookingNeedsARace /\ OnlyOwnBookings /\ ImplementsDesk
BY SystemRunsService, OverbookingIsBounded, OverbookingIsARace, OnlyOwnAreShown, ImplementsTheDesk, PTL

(***************************************************************************)
(* And so does the job, whatever requests race or fail over its table:     *)
(* recorded means mailed, nobody it read is forgotten, and no booking gets *)
(* two reminders from one server.                                          *)
(***************************************************************************)
THEOREM SystemKeepsJobPromises ==
    Spec => []RemindedWasMailed /\ []RunAccountsForAll /\ []OncePerServer
BY NeitherDisturbsTheOther, RecordedMeansMailed, RunsAccountForAll, AtMostOncePerServer, PTL
   DEF EachUndisturbed

(***************************************************************************)
(* A reminder goes out only for a booking that its run read, and that is   *)
(* for the day after the run: a booking saved after the read waits.        *)
(***************************************************************************)
THEOREM OnlyWhatWasReadIsReminded == Spec => RemindsOnlyWhatItRead
<1>1. Spec => []ReadInv /\ []ServiceTypeOK
  BY NeitherDisturbsTheOther, SystemRunsService, ReadInvariant, ServiceTypeCorrect, PTL DEF EachUndisturbed
<1>2. ReadInv /\ ServiceTypeOK /\ [Next]_vars
        => [\A server \in Servers, id \in Ids : emails'[<<server, id>>] # emails[<<server, id>>] =>
              \E run \in Runs :
                 /\ run[1] = server
                 /\ runs[run].pc = "send"
                 /\ runs'[run] # runs[run]
                 /\ id <= runs[run].upTo
                 /\ bookings[id].date = Tomorrow(run)]_vars
  BY StepOfJob, MailedByARun, StoreAssumption
<1> QED
  BY <1>1, <1>2, PTL DEF Spec, RemindsOnlyWhatItRead
=============================================================================
