----------------------- MODULE BookingsStoreContract -----------------------
(***************************************************************************)
(* What bookings-store.contract.ts asks of every BookingsStore.  Its tests *)
(* never look at an id that addHall or save did not answer, so halls and   *)
(* bookings are named here by the order they were added in.                *)
(***************************************************************************)
EXTENDS Queries, SequencesExt

CONSTANTS Capacities,  \* of the halls a test adds
          Dates,       \* the dates of bookings
          Parties,     \* how many guests a booking is for
          Callers,     \* the users that book
          Times,       \* when reminders are sent, in half seconds
          Never        \* null, as reminderSentAt

VARIABLES halls,    \* the capacities of the halls
          bookings  \* the bookings, oldest first

Init ==
    /\ halls = << >>
    /\ bookings = << >>

AddHall ==
    /\ \E capacity \in Capacities : halls' = Append(halls, capacity)
    /\ UNCHANGED bookings

\* One booking more, the last of all, for a hall that exists.
Save ==
    /\ bookings' # << >> /\ Front(bookings') = bookings
    /\ Last(bookings') \in [hall: DOMAIN halls, date: Dates, guests: Parties, bookedBy: Callers,
                            reminded: {Never}]
    /\ UNCHANGED halls

\* A whole second is read back as it was given; the tests know of no fraction, so either way is good.
ReadBack(at) ==
    IF at = Never THEN {Never} ELSE IF at % 2 = 0 THEN {at} ELSE {at - 1, at, at + 1}

MarkReminderSent(n) ==
    /\ bookings' \in {[bookings EXCEPT ![n].reminded = time] : time \in UNION {ReadBack(at) : at \in Times}}
    /\ UNCHANGED halls

\* beforeEach makes a harness, with nothing in its store.
NextTest ==
    /\ halls' = << >>
    /\ bookings' = << >>

Next ==
    \/ AddHall
    \/ Save
    \/ \E n \in DOMAIN bookings : MarkReminderSent(n)
    \/ NextTest

Spec == Init /\ [][Next]_<<halls, bookings>>

-----------------------------------------------------------------------------
\* What the tests expect of the queries: guests, and the bookings of a list, oldest first.
OldestFirst(found) == OrderedBy(found, [n \in found |-> n])

GuestsBooked(hall, date) ==
    SumOf({n \in DOMAIN bookings : bookings[n].hall = hall /\ bookings[n].date = date},
          [n \in DOMAIN bookings |-> bookings[n].guests])

BookingsFor(user) == OldestFirst({n \in DOMAIN bookings : bookings[n].bookedBy = user})

DueForReminder(date) ==
    OldestFirst({n \in DOMAIN bookings : bookings[n].date = date /\ bookings[n].reminded = Never})
=============================================================================
