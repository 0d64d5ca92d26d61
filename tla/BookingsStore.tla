---------------------------- MODULE BookingsStore ----------------------------
(***************************************************************************)
(* What BookingsService and BookingRemindersJob share: the halls, the      *)
(* table of bookings (bookings.store.ts) and the calendar (clock.ts).      *)
(*                                                                         *)
(* Rows are only ever appended, and the id of a row is its position: this  *)
(* is `bookings.length + 1` of the in-memory store; AUTO_INCREMENT may     *)
(* leave gaps, which nothing here tells apart.  The contact email and the  *)
(* hall's name are left out.  The column reminderSentAt, which only the    *)
(* reminders job writes and reads, is the variable `reminded` of           *)
(* BookingReminders.                                                       *)
(*                                                                         *)
(* Every operation of the store is one SQL statement in its own            *)
(* transaction, so it is atomic; the awaits between two of them are what   *)
(* the modules that use the store model.                                   *)
(***************************************************************************)
EXTENDS Integers, Sequences, FiniteSets

CONSTANTS Halls,        \* the ids of the halls that exist
          Capacity,     \* the capacity of each hall
          Users,        \* the signed-in users
          MaxGuests,    \* the largest party a booking may be for (500 in the DTO)
          MaxBookings,  \* bound of the model: rows the table holds at most
          LastDay       \* bound of the model: the last day of the calendar

ASSUME StoreAssumption ==
    /\ Halls \subseteq Nat \ {0}
    /\ Capacity \in [Halls -> Nat]
    /\ MaxGuests \in Nat \ {0}
    /\ MaxBookings \in Nat
    /\ LastDay \in Nat

VARIABLES bookings,  \* the table, oldest first
          today      \* dateOf(clock.now())

\* A date is a day number; YYYY-MM-DD strings compare as their days do.
Dates == 0 .. LastDay

NewBooking == [hallId: Halls, date: Dates, guests: 1 .. MaxGuests, bookedBy: Users]

BookingIds == DOMAIN bookings

StoreTypeOK ==
    /\ bookings \in Seq(NewBooking)
    /\ today \in Dates

StoreInit ==
    /\ bookings = << >>
    /\ today = 0

-----------------------------------------------------------------------------
(***************************************************************************)
(* SUM(guests) over the rows of a hall and date, as the number of places   *)
(* those rows take: row i takes the places <<i, 1>> .. <<i, guests>>.       *)
(***************************************************************************)
PlacesTaken(hall, date) ==
    {place \in BookingIds \X (1 .. MaxGuests) :
        /\ bookings[place[1]].hallId = hall
        /\ bookings[place[1]].date = date
        /\ place[2] <= bookings[place[1]].guests}

GuestsBooked(hall, date) == Cardinality(PlacesTaken(hall, date))

BookingsFor(user) == {id \in BookingIds : bookings[id].bookedBy = user}

Save(booking) ==
    /\ Len(bookings) < MaxBookings
    /\ bookings' = Append(bookings, booking)

\* Midnight, UTC.
NextDay ==
    /\ today < LastDay
    /\ today' = today + 1
=============================================================================
