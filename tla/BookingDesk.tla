----------------------------- MODULE BookingDesk -----------------------------
(***************************************************************************)
(* What taking bookings promises, without HTTP, the store's awaits or the  *)
(* clock: a desk with one clerk per concurrent request.  A clerk looks at  *)
(* the book, promises a booking that fits beside what is written there,    *)
(* and later writes it or drops it.  Promises are not in the book, so two  *)
(* clerks may promise the same places: what a clerk sees is right, and     *)
(* what all of them write can exceed the hall by the promises of all but   *)
(* one.  BookingsService implements this module.                           *)
(***************************************************************************)
EXTENDS BookingsStore

CONSTANTS Clerks, Nothing

VARIABLE promised  \* what each clerk has promised and not written yet

deskVars == <<bookings, today, promised>>

Init ==
    /\ StoreInit
    /\ promised = [c \in Clerks |-> Nothing]

Promise(c, booking) ==
    /\ promised[c] = Nothing
    /\ promised' = [promised EXCEPT ![c] = booking]
    /\ GuestsBooked(booking.hallId, booking.date) + booking.guests <= Capacity[booking.hallId]
    /\ UNCHANGED <<bookings, today>>

Write(c) ==
    /\ promised[c] # Nothing
    /\ Save(promised[c])
    /\ promised' = [promised EXCEPT ![c] = Nothing]
    /\ UNCHANGED today

Drop(c) ==
    /\ promised[c] # Nothing
    /\ promised' = [promised EXCEPT ![c] = Nothing]
    /\ UNCHANGED <<bookings, today>>

Next ==
    \/ \E c \in Clerks :
          \/ \E booking \in NewBooking : Promise(c, booking)
          \/ Write(c)
          \/ Drop(c)
    \/ NextDay /\ UNCHANGED <<bookings, promised>>

Spec == Init /\ [][Next]_deskVars
=============================================================================
