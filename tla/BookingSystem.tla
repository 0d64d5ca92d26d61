---------------------------- MODULE BookingSystem ----------------------------
(***************************************************************************)
(* The booking feature as it is deployed: BookingsService in the API       *)
(* process and BookingRemindersJob on every server, over one table and one *)
(* calendar.  A step of one component leaves the variables of the other    *)
(* alone; they meet in `bookings`, which the service appends to and the    *)
(* job reads, and in `today`, which both read.                             *)
(***************************************************************************)
EXTENDS BookingsService, BookingReminders

requestVars  == <<pc, call, answer, raced>>
reminderVars == <<reminded, runs, emails>>
vars == <<bookings, today, requestVars, reminderVars>>

Init == ServiceInit /\ JobInit

-----------------------------------------------------------------------------
ServeRequest(r) ==
    /\ Arrive(r) \/ ResumeRequest(r)
    /\ UNCHANGED reminderVars

RunJob(run) ==
    /\ Start(run) \/ ResumeRun(run)
    /\ UNCHANGED requestVars

\* A server that stops takes its runs with it; requests are served by the others.
StopServer(server) ==
    /\ Crash(server)
    /\ UNCHANGED requestVars

Midnight ==
    /\ NextDay
    /\ UNCHANGED <<bookings, requestVars, reminderVars>>

Next ==
    \/ \E r \in Requests : ServeRequest(r)
    \/ \E run \in Runs : RunJob(run)
    \/ \E server \in Servers : StopServer(server)
    \/ Midnight

\* What each component may rely on by itself: awaited promises settle.
Spec == Init /\ [][Next]_vars /\ ServiceFairness /\ JobFairness

-----------------------------------------------------------------------------
(***************************************************************************)
(* Properties.                                                             *)
(***************************************************************************)

(***************************************************************************)
(* Neither component disturbs the other.  The service behaves as           *)
(* BookingsService says also while the job runs on its table: what         *)
(* markReminderSent writes is nothing the service reads.  And the job sees *)
(* the service as BookingReminders assumes: rows are appended one at a     *)
(* time and never change, whichever requests race or fail.  What is proved *)
(* of each alone therefore holds of the system.                            *)
(***************************************************************************)
EachUndisturbed == ServiceSpec /\ JobSpec

(***************************************************************************)
(* A reminder goes out only for a booking that was in the table when a run *)
(* of its eve read it, and from the server of that run: not for one the    *)
(* service saves after that read, even for tomorrow, nor of another day.   *)
(***************************************************************************)
RemindsOnlyWhatItRead ==
    [][\A server \in Servers, id \in Ids : emails'[<<server, id>>] # emails[<<server, id>>] =>
          \E run \in Runs :
             /\ run[1] = server
             /\ runs[run].pc = "send"
             /\ runs'[run] # runs[run]
             /\ id <= runs[run].upTo
             /\ bookings[id].date = Tomorrow(run)]_vars
=============================================================================
