-------------------------- MODULE BookingReminders --------------------------
(***************************************************************************)
(* BookingRemindersJob: at 08:00 every server starts sendReminders, which  *)
(* reads the bookings for tomorrow without a reminder, and for each, in    *)
(* the order of their ids, sends an email and then records it.  Every      *)
(* server runs on its own; nothing tells one what another is sending.      *)
(*                                                                         *)
(*   a run: "due" -> "fetch" -> "send" <-> "mark" -> "done"                *)
(*                                                                         *)
(* An await may reject: dueForReminder ends the run, the mailer or         *)
(* markReminderSent ends that booking only.  A rejected call may have had  *)
(* its effect.  A server that stops loses the runs it had in progress.     *)
(***************************************************************************)
EXTENDS BookingsStore

CONSTANT Servers  \* the processes that schedule the job

VARIABLES reminded,  \* the ids whose reminderSentAt is not null
          runs,      \* each server's run of each day
          emails     \* how many reminders each server delivered for each id

jobVars == <<bookings, today, reminded, runs, emails>>

Ids  == 1 .. MaxBookings
Runs == Servers \X Dates

\* Computed once, when the run starts.
Tomorrow(run) == run[2] + 1

(***************************************************************************)
(* left holds the bookings not yet attempted; upTo is the last id there    *)
(* was when they were read (a history variable, as `failed` is: the job    *)
(* only counts its failures).                                              *)
(***************************************************************************)
RunState == [pc: {"due", "fetch", "send", "mark", "done", "aborted"},
             left: SUBSET Ids, failed: SUBSET Ids, upTo: 0 .. MaxBookings]

JobTypeOK ==
    /\ StoreTypeOK
    /\ Len(bookings) <= MaxBookings
    /\ reminded \subseteq BookingIds
    /\ runs \in [Runs -> RunState]
    /\ emails \in [Servers \X Ids -> Nat]
    /\ \A run \in Runs :
          /\ runs[run].left \subseteq BookingIds
          /\ runs[run].upTo <= Len(bookings)
          /\ runs[run].pc \in {"send", "mark"} => runs[run].left # {}

JobInit ==
    /\ StoreInit
    /\ reminded = {}
    /\ runs = [run \in Runs |-> [pc |-> "due", left |-> {}, failed |-> {}, upTo |-> 0]]
    /\ emails = [sent \in Servers \X Ids |-> 0]

-----------------------------------------------------------------------------
InProgress(run) == runs[run].pc \in {"fetch", "send", "mark"}

\* The booking the loop is at.
Current(run) ==
    CHOOSE id \in runs[run].left : \A other \in runs[run].left : id <= other

\* Mutant: overdue bookings are picked up too.
DueOrOverdue(date) == {id \in BookingIds : bookings[id].date <= date /\ id \notin reminded}

DueForReminder(date) == {id \in BookingIds : bookings[id].date = date /\ id \notin reminded}

MoveTo(run, pc) == runs' = [runs EXCEPT ![run] = [@ EXCEPT !.pc = pc]]

\* Mutant: at the end of the list, it is read again.
LeaveThenFetch(run, failedHere) ==
    LET rest == runs[run].left \ {Current(run)}
    IN  runs' = [runs EXCEPT ![run] = [pc     |-> IF rest = {} THEN "fetch" ELSE "send",
                                       left   |-> rest,
                                       failed |-> @.failed \cup failedHere,
                                       upTo   |-> @.upTo]]

\* On to the next booking, or the end.
Leave(run, failedHere) ==
    LET rest == runs[run].left \ {Current(run)}
    IN  runs' = [runs EXCEPT ![run] = [pc     |-> IF rest = {} THEN "done" ELSE "send",
                                       left   |-> rest,
                                       failed |-> @.failed \cup failedHere,
                                       upTo   |-> @.upTo]]

Deliver(run, id) == emails' = [emails EXCEPT ![<<run[1], id>>] = @ + 1]

-----------------------------------------------------------------------------
\* 08:00 on the day of the run, if the server is up then.
Start(run) ==
    /\ run[2] = today
    /\ runs[run].pc = "due"
    /\ MoveTo(run, "fetch")
    /\ UNCHANGED <<bookings, today, reminded, emails>>

FetchDue(run) ==
    /\ runs[run].pc = "fetch"
    /\ LET due == DueForReminder(Tomorrow(run))
       IN  runs' = [runs EXCEPT ![run] = [pc     |-> IF due = {} THEN "done" ELSE "send",
                                          left   |-> due,
                                          failed |-> {},
                                          upTo   |-> Len(bookings)]]
    /\ UNCHANGED <<bookings, today, reminded, emails>>

\* dueForReminder is awaited outside the try: its rejection ends sendReminders.
FetchRejects(run) ==
    /\ runs[run].pc = "fetch"
    /\ MoveTo(run, "aborted")
    /\ UNCHANGED <<bookings, today, reminded, emails>>

Send(run) ==
    /\ runs[run].pc = "send"
    /\ Deliver(run, Current(run))
    /\ MoveTo(run, "mark")
    /\ UNCHANGED <<bookings, today, reminded>>

\* Mutant: the catch encloses the email alone, and the record is written after it.
SendRejectsMarks(run) ==
    /\ runs[run].pc = "send"
    /\ MoveTo(run, "mark")
    /\ UNCHANGED <<bookings, today, reminded, emails>>

\* A mailer that rejects may have delivered all the same (a timeout).
SendRejects(run) ==
    /\ runs[run].pc = "send"
    /\ Deliver(run, Current(run)) \/ UNCHANGED emails
    /\ Leave(run, {Current(run)})
    /\ UNCHANGED <<bookings, today, reminded>>

\* Mutant: the record is saved as a whole row, with a default for a column left out.
MarkByReplacing(run) ==
    /\ runs[run].pc = "mark"
    /\ bookings' = [bookings EXCEPT ![Current(run)].guests = 1]
    /\ reminded' = reminded \cup {Current(run)}
    /\ Leave(run, {})
    /\ UNCHANGED <<today, emails>>

MarkReminderSent(run) ==
    /\ runs[run].pc = "mark"
    /\ reminded' = reminded \cup {Current(run)}
    /\ Leave(run, {})
    /\ UNCHANGED <<bookings, today, emails>>

\* Mutant: a failure to record is not counted.
MarkRejectsSilently(run) ==
    /\ runs[run].pc = "mark"
    /\ reminded' \in {reminded, reminded \cup {Current(run)}}
    /\ Leave(run, {})
    /\ UNCHANGED <<bookings, today, emails>>

\* An UPDATE that rejects may have been applied all the same.
MarkRejects(run) ==
    /\ runs[run].pc = "mark"
    /\ reminded' \in {reminded, reminded \cup {Current(run)}}
    /\ Leave(run, {Current(run)})
    /\ UNCHANGED <<bookings, today, emails>>

\* The process ends; cron starts nothing again until the next 08:00.
Crash(server) ==
    /\ \E day \in Dates : InProgress(<<server, day>>)
    /\ runs' = [run \in Runs |-> IF run[1] = server /\ InProgress(run)
                                 THEN [runs[run] EXCEPT !.pc = "aborted"]
                                 ELSE runs[run]]
    /\ UNCHANGED <<bookings, today, reminded, emails>>

\* The environment: someone books, at any time, for any day.
Book(booking) ==
    /\ Save(booking)
    /\ UNCHANGED <<today, reminded, runs, emails>>

JobMidnight ==
    /\ NextDay
    /\ UNCHANGED <<bookings, reminded, runs, emails>>

-----------------------------------------------------------------------------
ResumeRun(run) ==
    \/ FetchDue(run)
    \/ FetchRejects(run)
    \/ Send(run)
    \/ SendRejects(run)
    \/ MarkReminderSent(run)
    \/ MarkRejects(run)

JobNext ==
    \/ \E run \in Runs : Start(run) \/ ResumeRun(run)
    \/ \E server \in Servers : Crash(server)
    \/ \E booking \in NewBooking : Book(booking)
    \/ JobMidnight

\* What a run awaits settles, and the event loop resumes it.  Nothing else is fair.
JobFairness == \A run \in Runs : WF_jobVars(ResumeRun(run))

JobSpec == JobInit /\ [][JobNext]_jobVars /\ JobFairness

-----------------------------------------------------------------------------
(***************************************************************************)
(* Properties.                                                             *)
(***************************************************************************)

\* Some server sent a reminder for the booking.
Mailed(id) == \E server \in Servers : emails[<<server, id>>] > 0

(***************************************************************************)
(* A booking recorded as reminded was really sent an email, whatever       *)
(* rejects or stops in between: the job sends before it records.           *)
(***************************************************************************)
RemindedWasMailed == \A id \in reminded : Mailed(id)

(***************************************************************************)
(* Each booking gets at most one reminder from each server, over all the   *)
(* days and however its runs fail or stop: with one server, at most one.   *)
(***************************************************************************)
OncePerServer == \A sent \in Servers \X Ids : emails[sent] <= 1

(***************************************************************************)
(* The comment of the job, lines 8-9: "Safe to run twice (after a restart, *)
(* or on two servers): each sent reminder is recorded, and only unrecorded *)
(* bookings are picked up."  Two runs that read before either records      *)
(* break it.                                                               *)
(***************************************************************************)
EachReminderOnce ==
    \A id \in Ids, server \in Servers :
        emails[<<server, id>>] > 0 =>
            /\ emails[<<server, id>>] = 1
            /\ \A other \in Servers \ {server} : emails[<<other, id>>] = 0

(***************************************************************************)
(* No booking falls through a run: once a run is done, each booking for    *)
(* its tomorrow that was in the table when it read them is recorded or is  *)
(* one of the run's failures; before that, it may also be still to come.   *)
(* Two servers may record for each other.                                  *)
(***************************************************************************)
RunAccountsForAll ==
    \A run \in Runs : runs[run].pc \in {"send", "mark", "done"} =>
        \A id \in 1 .. runs[run].upTo :
            bookings[id].date = Tomorrow(run) =>
                id \in reminded \cup runs[run].failed \cup runs[run].left

(***************************************************************************)
(* The comments of lines 9-10 and 35: "A reminder that fails is not        *)
(* recorded, so the next run tries it again."  The next run is the next    *)
(* morning's, and that one reads the bookings of the day after.            *)
(***************************************************************************)
NextRunRetriesFailures ==
    [][\A run \in Runs :
          runs[run].pc = "fetch" /\ runs'[run].pc \in {"send", "done"} =>
              \A earlier \in Runs :
                  runs[earlier].pc = "done"
                      => runs[earlier].failed \ reminded \subseteq runs'[run].left]_jobVars

(***************************************************************************)
(* A run that starts ends: it does not wait for ever, and visits each      *)
(* booking once.                                                           *)
(***************************************************************************)
RunsEnd == \A run \in Runs : InProgress(run) ~> ~ InProgress(run)
=============================================================================
