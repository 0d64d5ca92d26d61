------------------------ MODULE BookingsServiceProofs ------------------------
(***************************************************************************)
(* Theorems about BookingsService, for any number of concurrent requests,  *)
(* halls, capacities and bookings: its type invariant, the bound on        *)
(* overbooking, that overbooking needs a race, that nobody is shown        *)
(* another's booking, and that the service implements BookingDesk.         *)
(***************************************************************************)
EXTENDS BookingsService, FiniteSetTheorems, TLAPS

-----------------------------------------------------------------------------
(***************************************************************************)
(* Counting places.  GuestsBooked is the SUM of TypeOrmBookingsStore        *)
(* (lines 24-32), written as a cardinality: the lemmas say it is finite,   *)
(* starts at zero, and grows by a saved row's guests on its hall and date  *)
(* alone.                                                                  *)
(***************************************************************************)
\* The places 1 .. n of one row or request.
LEMMA PlacesOfOne ==
    ASSUME NEW x, NEW n \in Nat
    PROVE  IsFiniteSet({x} \X (1 .. n)) /\ Cardinality({x} \X (1 .. n)) = n
<1>1. IsFiniteSet({x}) /\ Cardinality({x}) = 1
  BY FS_Singleton
<1>2. IsFiniteSet(1 .. n) /\ Cardinality(1 .. n) = n
  BY FS_Interval
<1>3. /\ IsFiniteSet({x} \X (1 .. n))
      /\ Cardinality({x} \X (1 .. n)) = Cardinality({x}) * Cardinality(1 .. n)
  BY <1>1, <1>2, FS_Product
<1>4. Cardinality({x}) * Cardinality(1 .. n) = n
  BY <1>1, <1>2
<1> QED
  BY <1>3, <1>4

\* A sum of guests over a finite table is a natural number.
LEMMA PlacesTakenFinite ==
    ASSUME StoreAssumption, StoreTypeOK, NEW hall, NEW date
    PROVE  IsFiniteSet(PlacesTaken(hall, date)) /\ GuestsBooked(hall, date) \in Nat
<1>1. BookingIds = 1 .. Len(bookings) /\ Len(bookings) \in Nat
  BY DEF StoreTypeOK, BookingIds
<1>2. IsFiniteSet(BookingIds) /\ IsFiniteSet(1 .. MaxGuests)
  BY <1>1, FS_Interval DEF StoreAssumption
<1>3. IsFiniteSet(BookingIds \X (1 .. MaxGuests))
  BY <1>2, FS_Product
<1>4. IsFiniteSet(PlacesTaken(hall, date))
  BY <1>3, FS_Subset DEF PlacesTaken
<1> QED
  BY <1>4, FS_CardinalityType DEF GuestsBooked

LEMMA NoGuestsAtFirst ==
    ASSUME bookings = << >>, NEW hall, NEW date
    PROVE  GuestsBooked(hall, date) = 0
<1>1. PlacesTaken(hall, date) = {}
  BY DEF PlacesTaken, BookingIds
<1> QED
  BY <1>1, FS_EmptySet DEF GuestsBooked

\* Saving a row adds its guests to its own hall and date, and to no other.
LEMMA SaveAddsGuests ==
    ASSUME StoreAssumption, StoreTypeOK, NEW b \in NewBooking, Save(b), NEW hall, NEW date
    PROVE  GuestsBooked(hall, date)' = GuestsBooked(hall, date)
               + IF b.hallId = hall /\ b.date = date THEN b.guests ELSE 0
<1> DEFINE n   == Len(bookings) + 1
           new == {n} \X (1 .. b.guests)
<1>1. /\ bookings \in Seq(NewBooking)
      /\ bookings' = Append(bookings, b)
      /\ n \in Nat
      /\ b.guests \in 1 .. MaxGuests
      /\ MaxGuests \in Nat
  BY DEF StoreAssumption, StoreTypeOK, Save, NewBooking
<1>2. /\ DOMAIN bookings = 1 .. (n - 1)
      /\ DOMAIN bookings' = 1 .. n
      /\ bookings'[n] = b
      /\ \A i \in 1 .. (n - 1) : bookings'[i] = bookings[i]
  BY <1>1
<1>3. CASE b.hallId = hall /\ b.date = date
  <2>1. PlacesTaken(hall, date)' = PlacesTaken(hall, date) \cup new
    BY <1>1, <1>2, <1>3 DEF PlacesTaken, BookingIds
  <2>2. PlacesTaken(hall, date) \cap new = {}
    BY <1>1, <1>2 DEF PlacesTaken, BookingIds
  <2>3. IsFiniteSet(new) /\ Cardinality(new) = b.guests
    <3>1. b.guests \in Nat
      BY <1>1
    <3> QED
      BY <3>1, PlacesOfOne
  <2>4. IsFiniteSet(PlacesTaken(hall, date))
    BY PlacesTakenFinite
  <2>5. Cardinality(PlacesTaken(hall, date) \cup new)
          = Cardinality(PlacesTaken(hall, date)) + Cardinality(new)
            - Cardinality(PlacesTaken(hall, date) \cap new)
    BY <2>3, <2>4, FS_Union
  <2>6. Cardinality(PlacesTaken(hall, date) \cap new) = 0
    BY <2>2, FS_EmptySet
  <2>7. GuestsBooked(hall, date) \in Nat
    BY PlacesTakenFinite
  <2> QED
    BY <1>1, <1>3, <2>1, <2>3, <2>5, <2>6, <2>7 DEF GuestsBooked
<1>4. CASE ~ (b.hallId = hall /\ b.date = date)
  <2>1. PlacesTaken(hall, date)' = PlacesTaken(hall, date)
    BY <1>1, <1>2, <1>4 DEF PlacesTaken, BookingIds
  <2>2. GuestsBooked(hall, date) \in Nat
    BY PlacesTakenFinite
  <2> QED
    BY <1>4, <2>1, <2>2 DEF GuestsBooked
<1> QED
  BY <1>3, <1>4
-----------------------------------------------------------------------------
(***************************************************************************)
(* The type invariant.                                                     *)
(***************************************************************************)
LEMMA ServiceTypeInit == ASSUME StoreAssumption, ServiceAssumption PROVE ServiceInit => ServiceTypeOK
<1> SUFFICES ASSUME ServiceInit PROVE ServiceTypeOK
  OBVIOUS
<1>1. StoreTypeOK
  BY DEF ServiceInit, StoreInit, StoreTypeOK, Dates, StoreAssumption
<1>2. NoAnswer \in Answer
  BY DEF NoAnswer, Answer
<1> QED
  BY <1>1, <1>2 DEF ServiceInit, ServiceTypeOK, Waiting, Creating

\* An answered request is typed as an idle one.
LEMMA RespondType ==
    ASSUME ServiceTypeOK, NEW r \in Requests,
           NEW status \in {200, 201, 400, 401, 403, 404, 409, 500}, NEW ids \in SUBSET Nat,
           Respond(r, status, ids),
           StoreTypeOK', raced' \subseteq Halls \X Dates
    PROVE  ServiceTypeOK'
<1>1. [status |-> status, shown |-> ids] \in Answer
  BY DEF Answer
<1>2. answer' \in [Requests -> Answer]
  BY <1>1 DEF Respond, ServiceTypeOK
<1> QED
  BY <1>2 DEF Respond, ServiceTypeOK, Waiting, Creating

\* A request that waits is typed when what it asks is typed for where it waits.
LEMMA WaitForType ==
    ASSUME ServiceTypeOK, NEW r \in Requests, NEW where \in Waiting, NEW asked,
           WaitFor(r, where, asked),
           asked \in BookingRequest \cup FindRequest \cup ListRequest,
           where = "hall" => asked \in BookingRequest,
           where \in {"count", "save"} => asked \in NewBooking,
           where = "find" => asked \in FindRequest,
           where = "list" => asked \in ListRequest,
           UNCHANGED <<bookings, today, raced>>
    PROVE  ServiceTypeOK'
<1>1. NoAnswer \in Answer
  BY DEF Answer, NoAnswer
<1>2. answer' \in [Requests -> Answer]
  BY <1>1 DEF WaitFor, ServiceTypeOK
<1>3. StoreTypeOK'
  BY DEF ServiceTypeOK, StoreTypeOK
<1> QED
  BY <1>2, <1>3 DEF WaitFor, ServiceTypeOK, Waiting, Creating

\* What a request asks, by the place where it waits.
LEMMA CallType ==
    ASSUME ServiceTypeOK, NEW r \in Requests
    PROVE  /\ pc[r] = "hall" => call[r] \in BookingRequest
           /\ pc[r] \in {"count", "save"} => call[r] \in NewBooking
           /\ pc[r] = "find" => call[r] \in FindRequest
           /\ pc[r] = "list" => call[r] \in ListRequest
  BY DEF ServiceTypeOK

LEMMA NewBookingAsked ==
    ASSUME StoreAssumption, ServiceAssumption
    PROVE  NewBooking \subseteq BookingRequest
  BY DEF ServiceAssumption, NewBooking, BookingRequest

LEMMA InsertType ==
    ASSUME ServiceTypeOK, NEW r \in Requests, pc[r] = "save", Insert(r), UNCHANGED today
    PROVE  StoreTypeOK' /\ raced' \subseteq Halls \X Dates
<1>1. call[r] \in NewBooking
  BY DEF ServiceTypeOK
<1>2. bookings' \in Seq(NewBooking)
  BY <1>1 DEF Insert, Save, ServiceTypeOK, StoreTypeOK
<1>3. <<call[r].hallId, call[r].date>> \in Halls \X Dates
  BY <1>1 DEF NewBooking
<1> QED
  BY <1>2, <1>3 DEF Insert, ServiceTypeOK, StoreTypeOK

LEMMA ServiceTypeStep ==
    ASSUME StoreAssumption, ServiceAssumption, ServiceTypeOK, [ServiceNext]_serviceVars
    PROVE  ServiceTypeOK'
<1>1. ASSUME UNCHANGED <<bookings, today, raced>>
      PROVE  StoreTypeOK' /\ raced' \subseteq Halls \X Dates
  BY <1>1 DEF ServiceTypeOK, StoreTypeOK
<1>2. ASSUME NEW r \in Requests, NEW caller \in Users \cup {Nobody}, RefuseCaller(r, caller)
      PROVE  ServiceTypeOK'
  <2>1. (IF caller = Nobody THEN 401 ELSE 403) \in {401, 403}
    OBVIOUS
  <2> QED
    BY <1>1, <1>2, <2>1, RespondType DEF RefuseCaller
<1>3. ASSUME NEW r \in Requests, NEW user \in Users, RefuseInput(r, user)
      PROVE  ServiceTypeOK'
  BY <1>1, <1>3, RespondType DEF RefuseInput
<1>4. ASSUME NEW r \in Requests, NEW user \in Users, NEW body \in Body,
             PostBooking(r, user, body)
      PROVE  ServiceTypeOK'
  <2>1. [hallId |-> body.hallId, date |-> body.date, guests |-> body.guests, bookedBy |-> user]
          \in BookingRequest
    BY <1>4 DEF Body, BookingRequest
  <2> QED
    BY <1>4, <2>1, WaitForType DEF PostBooking, Waiting, Creating
<1>5. ASSUME NEW r \in Requests, NEW user \in Users, NEW id \in 1 .. MaxBookings,
             GetBooking(r, user, id)
      PROVE  ServiceTypeOK'
  <2>1. [bookingId |-> id, user |-> user] \in FindRequest
    BY <1>5 DEF FindRequest, StoreAssumption
  <2> QED
    BY <1>5, <2>1, WaitForType DEF GetBooking, Waiting, Creating
<1>6. ASSUME NEW r \in Requests, NEW user \in Users, GetBookings(r, user)
      PROVE  ServiceTypeOK'
  <2>1. [user |-> user] \in ListRequest
    BY <1>6 DEF ListRequest
  <2> QED
    BY <1>6, <2>1, WaitForType DEF GetBookings, Waiting, Creating
<1>7. ASSUME NEW r \in Requests, FindHall(r)
      PROVE  ServiceTypeOK'
  <2>1. call[r] \in BookingRequest
    BY <1>7, CallType DEF FindHall
  <2>2. CASE WaitFor(r, "count", call[r]) /\ call[r].hallId \in Halls
    <3>1. call[r] \in NewBooking
      BY <2>1, <2>2 DEF BookingRequest, NewBooking
    <3> QED
      BY <1>7, <2>1, <2>2, <3>1, WaitForType DEF FindHall, Waiting, Creating
  <2>3. CASE Respond(r, 404, {}) \/ Respond(r, 400, {})
    BY <1>1, <1>7, <2>3, RespondType DEF FindHall
  <2> QED
    BY <1>7, <2>2, <2>3 DEF FindHall
<1>8. ASSUME NEW r \in Requests, CountGuests(r)
      PROVE  ServiceTypeOK'
  <2>1. call[r] \in NewBooking /\ call[r] \in BookingRequest
    BY <1>8, CallType, NewBookingAsked DEF CountGuests
  <2>2. CASE WaitFor(r, "save", call[r])
    BY <1>8, <2>1, <2>2, WaitForType DEF CountGuests, Waiting, Creating
  <2>3. CASE Respond(r, 409, {})
    BY <1>1, <1>8, <2>3, RespondType DEF CountGuests
  <2> QED
    BY <1>8, <2>2, <2>3 DEF CountGuests
<1>9. ASSUME NEW r \in Requests, SaveBooking(r)
      PROVE  ServiceTypeOK'
  <2>1. StoreTypeOK' /\ raced' \subseteq Halls \X Dates
    BY <1>9, InsertType DEF SaveBooking
  <2>2. {Len(bookings) + 1} \in SUBSET Nat
    BY DEF ServiceTypeOK, StoreTypeOK
  <2> QED
    BY <1>9, <2>1, <2>2, RespondType DEF SaveBooking
<1>10. ASSUME NEW r \in Requests, SaveUnconfirmed(r)
       PROVE  ServiceTypeOK'
  <2>1. StoreTypeOK' /\ raced' \subseteq Halls \X Dates
    BY <1>10, InsertType DEF SaveUnconfirmed
  <2> QED
    BY <1>10, <2>1, RespondType DEF SaveUnconfirmed
<1>11. ASSUME NEW r \in Requests, FindOne(r)
       PROVE  ServiceTypeOK'
  <2>1. {call[r].bookingId} \in SUBSET Nat
    BY <1>11, CallType DEF FindOne, FindRequest
  <2> QED
    BY <1>1, <1>11, <2>1, RespondType DEF FindOne
<1>12. ASSUME NEW r \in Requests, ListMine(r)
       PROVE  ServiceTypeOK'
  <2>1. BookingsFor(call[r].user) \in SUBSET Nat
    BY DEF BookingsFor, BookingIds, ServiceTypeOK, StoreTypeOK
  <2> QED
    BY <1>1, <1>12, <2>1, RespondType DEF ListMine
<1>13. ASSUME NEW r \in Requests, StoreFails(r)
       PROVE  ServiceTypeOK'
  BY <1>1, <1>13, RespondType DEF StoreFails
<1>14. CASE ServiceMidnight
  <2>1. StoreTypeOK'
    BY <1>14 DEF ServiceMidnight, NextDay, ServiceTypeOK, StoreTypeOK, Dates, StoreAssumption
  <2> QED
    BY <1>14, <2>1 DEF ServiceMidnight, ServiceTypeOK
<1>15. CASE UNCHANGED serviceVars
  BY <1>15 DEF serviceVars, ServiceTypeOK, StoreTypeOK
<1> QED
  BY <1>2, <1>3, <1>4, <1>5, <1>6, <1>7, <1>8, <1>9, <1>10, <1>11, <1>12, <1>13, <1>14, <1>15
     DEF ServiceNext, Arrive, ResumeRequest

(***************************************************************************)
(* The variables keep their types, and a request waits at each await of    *)
(* create, findOne and listMine with the arguments that await needs.       *)
(***************************************************************************)
THEOREM ServiceTypeCorrect == ServiceSpec => []ServiceTypeOK
<1>1. ServiceInit => ServiceTypeOK
  BY ServiceTypeInit, StoreAssumption, ServiceAssumption
<1>2. ServiceTypeOK /\ [ServiceNext]_serviceVars => ServiceTypeOK'
  BY ServiceTypeStep, StoreAssumption, ServiceAssumption
<1> QED
  BY <1>1, <1>2, PTL DEF ServiceSpec
-----------------------------------------------------------------------------
(***************************************************************************)
(* Overbooking.  OverbookingBounded alone is not inductive: a save raises  *)
(* the guests booked, and only the count behind it says by how much it     *)
(* may.  So the invariant adds what the requests that wait to save have    *)
(* been promised (PromisesBounded), and that each of them fits the hall.   *)
(***************************************************************************)
PromisesFitTheHall ==
    \A r \in Requests : pc[r] = "save" => call[r].guests <= Capacity[call[r].hallId]

BoundInv == ServiceTypeOK /\ PromisesFitTheHall /\ PromisesBounded

\* A request that keeps its promise, or has none, keeps its places.
KeepsPromise(q) == pc'[q] = "save" => pc[q] = "save" /\ call'[q] = call[q]

LEMMA NumberOfRequests ==
    ASSUME ServiceAssumption
    PROVE  Cardinality(Requests) \in Nat \ {0}
<1>1. Cardinality(Requests) \in Nat /\ (Cardinality(Requests) = 0 <=> Requests = {})
  BY FS_CardinalityType, FS_EmptySet DEF ServiceAssumption
<1> QED
  BY <1>1 DEF ServiceAssumption

LEMMA LargestPartyNat ==
    ASSUME StoreAssumption, NEW hall \in Halls
    PROVE  LargestParty(hall) \in Nat /\ Capacity[hall] \in Nat
  BY DEF StoreAssumption, LargestParty

LEMMA PlacesPromisedFinite ==
    ASSUME StoreAssumption, ServiceAssumption, NEW hall, NEW date
    PROVE  /\ IsFiniteSet(PlacesPromised(hall, date))
           /\ Cardinality(PlacesPromised(hall, date)) \in Nat
<1>1. IsFiniteSet(Requests) /\ IsFiniteSet(1 .. MaxGuests)
  BY FS_Interval DEF StoreAssumption, ServiceAssumption
<1>2. IsFiniteSet(Requests \X (1 .. MaxGuests))
  BY <1>1, FS_Product
<1>3. IsFiniteSet(PlacesPromised(hall, date))
  BY <1>2, FS_Subset DEF PlacesPromised
<1> QED
  BY <1>3, FS_CardinalityType

\* The requests other than r hold at most one largest party each.
LEMMA OthersPromised ==
    ASSUME StoreAssumption, ServiceAssumption, ServiceTypeOK, PromisesFitTheHall,
           NEW r \in Requests, NEW hall \in Halls, NEW date
    PROVE  LET others == PlacesPromised(hall, date) \cap ((Requests \ {r}) \X (1 .. MaxGuests))
           IN  /\ IsFiniteSet(others)
               /\ Cardinality(others) \in Nat
               /\ Cardinality(others) <= (Cardinality(Requests) - 1) * LargestParty(hall)
<1> DEFINE others == PlacesPromised(hall, date) \cap ((Requests \ {r}) \X (1 .. MaxGuests))
           room   == (Requests \ {r}) \X (1 .. LargestParty(hall))
<1>1. /\ IsFiniteSet(Requests \ {r})
      /\ Cardinality(Requests \ {r}) = Cardinality(Requests) - 1
  BY FS_RemoveElement DEF ServiceAssumption
<1>2. /\ IsFiniteSet(1 .. LargestParty(hall))
      /\ Cardinality(1 .. LargestParty(hall)) = LargestParty(hall)
  <2>1. LargestParty(hall) \in Nat
    BY LargestPartyNat
  <2> QED
    BY <2>1, FS_Interval
<1>3. /\ IsFiniteSet(room)
      /\ Cardinality(room)
            = Cardinality(Requests \ {r}) * Cardinality(1 .. LargestParty(hall))
  BY <1>1, <1>2, FS_Product
<1>4. others \subseteq room
  <2> SUFFICES ASSUME NEW place \in others PROVE place \in room
    OBVIOUS
  <2> DEFINE q == place[1]
  <2>1. /\ place \in Requests \X (1 .. MaxGuests)
        /\ q \in Requests \ {r}
        /\ pc[q] = "save"
        /\ call[q].hallId = hall
        /\ place[2] <= call[q].guests
    BY DEF PlacesPromised, Accepted
  <2>2. call[q].guests \in 1 .. MaxGuests
    BY <2>1, CallType DEF NewBooking
  <2>3. call[q].guests <= LargestParty(hall)
    BY <2>1, <2>2, LargestPartyNat DEF PromisesFitTheHall, LargestParty, StoreAssumption
  <2>4. place[2] \in 1 .. LargestParty(hall)
    BY <2>1, <2>2, <2>3, LargestPartyNat DEF StoreAssumption
  <2> QED
    BY <2>1, <2>4
<1>5. /\ IsFiniteSet(others)
      /\ Cardinality(others) <= Cardinality(room)
  BY <1>3, <1>4, FS_Subset
<1>6. Cardinality(others) \in Nat
  BY <1>5, FS_CardinalityType
<1> QED
  BY <1>1, <1>2, <1>3, <1>5, <1>6

\* What one more promise adds.
LEMMA PromisedWithOne ==
    ASSUME StoreAssumption, ServiceAssumption, ServiceTypeOK, PromisesFitTheHall,
           NEW r \in Requests, NEW hall \in Halls, NEW date, NEW n \in Nat, NEW places,
           places \subseteq (PlacesPromised(hall, date)
                                 \cap ((Requests \ {r}) \X (1 .. MaxGuests)))
                            \cup ({r} \X (1 .. n))
    PROVE  Cardinality(places) <= (Cardinality(Requests) - 1) * LargestParty(hall) + n
<1> DEFINE others == PlacesPromised(hall, date) \cap ((Requests \ {r}) \X (1 .. MaxGuests))
           mine   == {r} \X (1 .. n)
<1>1. /\ IsFiniteSet(others)
      /\ Cardinality(others) \in Nat
      /\ Cardinality(others) <= (Cardinality(Requests) - 1) * LargestParty(hall)
  BY OthersPromised
<1>2. IsFiniteSet(mine) /\ Cardinality(mine) = n
  BY PlacesOfOne
<1>3. others \cap mine = {}
  OBVIOUS
<1>4. /\ IsFiniteSet(others \cup mine)
      /\ Cardinality(others \cup mine) = Cardinality(others) + Cardinality(mine)
  <2>1. /\ IsFiniteSet(others \cup mine)
        /\ Cardinality(others \cup mine)
             = Cardinality(others) + Cardinality(mine) - Cardinality(others \cap mine)
    BY <1>1, <1>2, FS_Union
  <2>2. Cardinality(others \cap mine) = 0
    BY <1>3, FS_EmptySet
  <2> QED
    BY <1>1, <1>2, <2>1, <2>2
<1>5. IsFiniteSet(places) /\ Cardinality(places) <= Cardinality(others \cup mine)
  BY <1>4, FS_Subset
<1>6. Cardinality(places) \in Nat
  BY <1>5, FS_CardinalityType
<1>7. (Cardinality(Requests) - 1) * LargestParty(hall) \in Int
  BY NumberOfRequests, LargestPartyNat
<1> QED
  BY <1>1, <1>2, <1>4, <1>5, <1>6, <1>7
\* The arithmetic of the bound, apart from the terms it is about.
LEMMA TogetherBounded ==
    ASSUME NEW booked \in Nat, NEW pending \in Nat, NEW g \in Nat, NEW cap \in Nat,
           NEW others \in Int,
           pending <= others + g, booked + g <= cap
    PROVE  booked + pending <= cap + others
  OBVIOUS

(***************************************************************************)
(* Steps that save nothing and accept nothing keep every promise or drop   *)
(* it.                                                                     *)
(***************************************************************************)
LEMMA QuietBound ==
    ASSUME StoreAssumption, ServiceAssumption, BoundInv,
           bookings' = bookings, \A q \in Requests : KeepsPromise(q)
    PROVE  PromisesFitTheHall' /\ PromisesBounded'
<1>1. PromisesFitTheHall'
  BY DEF BoundInv, PromisesFitTheHall, KeepsPromise
<1>2. ASSUME NEW hall \in Halls, NEW date \in Dates
      PROVE  GuestsBooked(hall, date)' + Cardinality(PlacesPromised(hall, date)')
                <= Capacity[hall] + (Cardinality(Requests) - 1) * LargestParty(hall)
  <2>1. GuestsBooked(hall, date)' = GuestsBooked(hall, date)
    BY DEF GuestsBooked, PlacesTaken, BookingIds
  <2>2. PlacesPromised(hall, date)' \subseteq PlacesPromised(hall, date)
    BY DEF PlacesPromised, Accepted, KeepsPromise
  <2>3. /\ Cardinality(PlacesPromised(hall, date)') \in Nat
        /\ Cardinality(PlacesPromised(hall, date)')
             <= Cardinality(PlacesPromised(hall, date))
    BY <2>2, PlacesPromisedFinite, FS_Subset, FS_CardinalityType
  <2>4. /\ Cardinality(PlacesPromised(hall, date)) \in Nat
        /\ GuestsBooked(hall, date) \in Nat
    BY PlacesPromisedFinite, PlacesTakenFinite DEF BoundInv, ServiceTypeOK
  <2>5. GuestsBooked(hall, date) + Cardinality(PlacesPromised(hall, date))
           <= Capacity[hall] + (Cardinality(Requests) - 1) * LargestParty(hall)
    BY DEF BoundInv, PromisesBounded
  <2>6. Capacity[hall] + (Cardinality(Requests) - 1) * LargestParty(hall) \in Int
    BY NumberOfRequests, LargestPartyNat
  <2> QED
    BY <2>1, <2>3, <2>4, <2>5, <2>6
<1> QED
  BY <1>1, <1>2 DEF PromisesBounded, LargestParty

(***************************************************************************)
(* A count that accepts: the booking fits beside the rows, and the other   *)
(* requests hold at most a largest party each.                             *)
(***************************************************************************)
LEMMA AcceptBound ==
    ASSUME StoreAssumption, ServiceAssumption, BoundInv, NEW r \in Requests,
           pc[r] = "count", Fits(call[r]), WaitFor(r, "save", call[r]),
           bookings' = bookings
    PROVE  PromisesFitTheHall' /\ PromisesBounded'
<1> DEFINE g == call[r].guests
<1>1. /\ call[r] \in NewBooking
      /\ g \in 1 .. MaxGuests
      /\ call[r].hallId \in Halls
      /\ MaxGuests \in Nat
  BY CallType DEF BoundInv, NewBooking, StoreAssumption
<1>2. /\ \A q \in Requests \ {r} : pc'[q] = pc[q] /\ call'[q] = call[q]
      /\ pc'[r] = "save" /\ call'[r] = call[r]
  BY DEF WaitFor, BoundInv, ServiceTypeOK
<1>3. GuestsBooked(call[r].hallId, call[r].date) \in Nat
  BY PlacesTakenFinite DEF BoundInv, ServiceTypeOK
<1>4. g <= Capacity[call[r].hallId]
  <2>1. g \in Nat
    BY <1>1
  <2>2. Capacity[call[r].hallId] \in Nat
    BY <1>1 DEF StoreAssumption
  <2> QED
    BY <1>3, <2>1, <2>2 DEF Fits
<1>5. PromisesFitTheHall'
  BY <1>2, <1>4 DEF BoundInv, PromisesFitTheHall
<1>6. ASSUME NEW hall \in Halls, NEW date \in Dates
      PROVE  GuestsBooked(hall, date)' + Cardinality(PlacesPromised(hall, date)')
                <= Capacity[hall] + (Cardinality(Requests) - 1) * LargestParty(hall)
  <2> DEFINE N == (Cardinality(Requests) - 1) * LargestParty(hall)
  <2>1. GuestsBooked(hall, date)' = GuestsBooked(hall, date)
    BY DEF GuestsBooked, PlacesTaken, BookingIds
  <2>2. /\ GuestsBooked(hall, date) \in Nat
        /\ Capacity[hall] \in Nat
        /\ N \in Int
    BY PlacesTakenFinite, LargestPartyNat, NumberOfRequests DEF BoundInv, ServiceTypeOK
  <2>3. CASE call[r].hallId = hall /\ call[r].date = date
    <3>1. PlacesPromised(hall, date)'
            \subseteq (PlacesPromised(hall, date) \cap ((Requests \ {r}) \X (1 .. MaxGuests)))
                      \cup ({r} \X (1 .. g))
      BY <1>1, <1>2 DEF PlacesPromised, Accepted
    <3>2. g \in Nat
      BY <1>1
    <3>3. Cardinality(PlacesPromised(hall, date)') <= N + g
      BY <3>1, <3>2, PromisedWithOne DEF BoundInv
    <3>4. GuestsBooked(hall, date) + g <= Capacity[hall]
      BY <1>1, <2>2, <2>3 DEF Fits
    <3>5. Cardinality(PlacesPromised(hall, date)') \in Nat
      <4>1. IsFiniteSet(PlacesPromised(hall, date)')
        <5>1. PlacesPromised(hall, date)' \subseteq Requests \X (1 .. MaxGuests)
          BY DEF PlacesPromised
        <5>2. IsFiniteSet(Requests) /\ IsFiniteSet(1 .. MaxGuests)
          BY FS_Interval DEF StoreAssumption, ServiceAssumption
        <5> QED
          BY <5>1, <5>2, FS_Product, FS_Subset
      <4> QED
        BY <4>1, FS_CardinalityType
    <3> QED
      BY <2>1, <2>2, <3>2, <3>3, <3>4, <3>5, TogetherBounded
  <2>4. CASE ~ (call[r].hallId = hall /\ call[r].date = date)
    <3>1. PlacesPromised(hall, date)' = PlacesPromised(hall, date)
      <4>1. \A q \in Requests : Accepted(q, hall, date)' <=> Accepted(q, hall, date)
        BY <1>2, <2>4 DEF Accepted
      <4>2. \A q \in Requests : call'[q] = call[q]
        BY <1>2
      <4> QED
        BY <4>1, <4>2 DEF PlacesPromised
    <3> QED
      BY <2>1, <3>1 DEF BoundInv, PromisesBounded
  <2> QED
    BY <2>3, <2>4
<1> QED
  BY <1>5, <1>6 DEF PromisesBounded, LargestParty

(***************************************************************************)
(* A save moves a request's places from the promised to the booked.        *)
(***************************************************************************)
LEMMA InsertBound ==
    ASSUME StoreAssumption, ServiceAssumption, BoundInv, NEW r \in Requests,
           pc[r] = "save", Insert(r), NEW status, NEW ids, Respond(r, status, ids)
    PROVE  PromisesFitTheHall' /\ PromisesBounded'
<1> DEFINE g == call[r].guests
<1>1. /\ call[r] \in NewBooking
      /\ g \in 1 .. MaxGuests
      /\ MaxGuests \in Nat
      /\ Save(call[r])
  BY CallType DEF BoundInv, NewBooking, StoreAssumption, Insert
<1>2. /\ \A q \in Requests \ {r} : pc'[q] = pc[q] /\ call'[q] = call[q]
      /\ pc'[r] = "idle"
  BY DEF Respond, BoundInv, ServiceTypeOK
<1>3. PromisesFitTheHall'
  BY <1>2 DEF BoundInv, PromisesFitTheHall
<1>4. ASSUME NEW hall \in Halls, NEW date \in Dates
      PROVE  GuestsBooked(hall, date)' + Cardinality(PlacesPromised(hall, date)')
                <= Capacity[hall] + (Cardinality(Requests) - 1) * LargestParty(hall)
  <2> DEFINE here == call[r].hallId = hall /\ call[r].date = date
             mine == {r} \X (1 .. g)
             then == PlacesPromised(hall, date)'
  <2>1. GuestsBooked(hall, date)' = GuestsBooked(hall, date) + IF here THEN g ELSE 0
    BY <1>1, SaveAddsGuests DEF BoundInv, ServiceTypeOK
  <2>2. /\ GuestsBooked(hall, date) \in Nat
        /\ IsFiniteSet(PlacesPromised(hall, date))
        /\ Cardinality(PlacesPromised(hall, date)) \in Nat
    BY PlacesTakenFinite, PlacesPromisedFinite DEF BoundInv, ServiceTypeOK
  <2>3. GuestsBooked(hall, date) + Cardinality(PlacesPromised(hall, date))
           <= Capacity[hall] + (Cardinality(Requests) - 1) * LargestParty(hall)
    BY DEF BoundInv, PromisesBounded
  <2>4. then \subseteq PlacesPromised(hall, date)
    BY <1>2 DEF PlacesPromised, Accepted
  <2>5. IsFiniteSet(then) /\ Cardinality(then) \in Nat
    BY <2>2, <2>4, FS_Subset, FS_CardinalityType
  <2>6. Capacity[hall] + (Cardinality(Requests) - 1) * LargestParty(hall) \in Int
    BY NumberOfRequests, LargestPartyNat
  <2>7. CASE here
    <3>1. then \cup mine \subseteq PlacesPromised(hall, date) /\ then \cap mine = {}
      BY <1>1, <1>2, <2>4, <2>7 DEF PlacesPromised, Accepted
    <3>2. g \in Nat
      BY <1>1
    <3>3. IsFiniteSet(mine) /\ Cardinality(mine) = g
      BY <3>2, PlacesOfOne
    <3>4. Cardinality(then \cup mine)
            = Cardinality(then) + Cardinality(mine) - Cardinality(then \cap mine)
      BY <2>5, <3>3, FS_Union
    <3>5. Cardinality(then \cap mine) = 0
      BY <3>1, FS_EmptySet
    <3>6. Cardinality(then \cup mine) <= Cardinality(PlacesPromised(hall, date))
      BY <2>2, <3>1, FS_Subset
    <3>7. Cardinality(then) + g <= Cardinality(PlacesPromised(hall, date))
      BY <2>5, <3>2, <3>3, <3>4, <3>5, <3>6
    <3> QED
      BY <2>1, <2>2, <2>3, <2>5, <2>6, <2>7, <3>2, <3>7
  <2>8. CASE ~ here
    <3>1. Cardinality(then) <= Cardinality(PlacesPromised(hall, date))
      BY <2>2, <2>4, FS_Subset
    <3> QED
      BY <2>1, <2>2, <2>3, <2>5, <2>6, <2>8, <3>1
  <2> QED
    BY <2>7, <2>8
<1> QED
  BY <1>3, <1>4 DEF PromisesBounded, LargestParty

(***************************************************************************)
(* Every step of ServiceNext is one of: quiet, an accepting count, a save. *)
(***************************************************************************)
Quiet == /\ bookings' = bookings
         /\ raced' = raced
         /\ \A q \in Requests : KeepsPromise(q)

Accepting(r) == /\ pc[r] = "count"
                /\ Fits(call[r])
                /\ WaitFor(r, "save", call[r])
                /\ UNCHANGED <<bookings, raced>>

Saving(r) == /\ pc[r] = "save"
             /\ Insert(r)
             /\ \E status \in {201, 500}, ids \in SUBSET Nat : Respond(r, status, ids)

LEMMA StepKinds ==
    ASSUME ServiceTypeOK, [ServiceNext]_serviceVars
    PROVE  Quiet \/ \E r \in Requests : Accepting(r) \/ Saving(r)
<1>1. ASSUME NEW r \in Requests, NEW status, NEW ids, Respond(r, status, ids)
      PROVE  \A q \in Requests : KeepsPromise(q)
  BY <1>1 DEF Respond, KeepsPromise, ServiceTypeOK
<1>2. ASSUME NEW r \in Requests, NEW where, where # "save", NEW asked,
             WaitFor(r, where, asked)
      PROVE  \A q \in Requests : KeepsPromise(q)
  BY <1>2 DEF WaitFor, KeepsPromise, ServiceTypeOK
<1>3. ASSUME NEW r \in Requests, Arrive(r)
      PROVE  Quiet
  BY <1>1, <1>2, <1>3
     DEF Arrive, RefuseCaller, RefuseInput, PostBooking, GetBooking, GetBookings, Quiet
<1>4. ASSUME NEW r \in Requests, FindHall(r) \/ FindOne(r) \/ ListMine(r) \/ StoreFails(r)
      PROVE  Quiet
  BY <1>1, <1>2, <1>4 DEF FindHall, FindOne, ListMine, StoreFails, Quiet
<1>5. ASSUME NEW r \in Requests, CountGuests(r)
      PROVE  Quiet \/ Accepting(r)
  BY <1>1, <1>5 DEF CountGuests, Quiet, Accepting
<1>6. ASSUME NEW r \in Requests, SaveBooking(r)
      PROVE  Saving(r)
  <2>1. {Len(bookings) + 1} \in SUBSET Nat
    BY DEF ServiceTypeOK, StoreTypeOK
  <2> QED
    BY <1>6, <2>1 DEF SaveBooking, Saving
<1>7. ASSUME NEW r \in Requests, SaveUnconfirmed(r)
      PROVE  Saving(r)
  BY <1>7 DEF SaveUnconfirmed, Saving
<1>8. CASE ServiceMidnight
  BY <1>8 DEF ServiceMidnight, Quiet, KeepsPromise
<1>9. CASE UNCHANGED serviceVars
  BY <1>9 DEF serviceVars, Quiet, KeepsPromise
<1> QED
  BY <1>3, <1>4, <1>5, <1>6, <1>7, <1>8, <1>9 DEF ServiceNext, ResumeRequest

LEMMA BoundStep ==
    ASSUME StoreAssumption, ServiceAssumption, BoundInv, [ServiceNext]_serviceVars
    PROVE  BoundInv'
<1>1. ServiceTypeOK'
  BY ServiceTypeStep DEF BoundInv
<1>2. CASE Quiet
  BY <1>1, <1>2, QuietBound DEF BoundInv, Quiet
<1>3. ASSUME NEW r \in Requests, Accepting(r)
      PROVE  BoundInv'
  BY <1>1, <1>3, AcceptBound DEF BoundInv, Accepting
<1>4. ASSUME NEW r \in Requests, Saving(r)
      PROVE  BoundInv'
  BY <1>1, <1>4, InsertBound DEF BoundInv, Saving
<1> QED
  BY <1>2, <1>3, <1>4, StepKinds DEF BoundInv

LEMMA BoundInit == ASSUME StoreAssumption, ServiceAssumption, ServiceInit PROVE BoundInv
<1>1. ServiceTypeOK
  BY ServiceTypeInit
<1>2. PromisesFitTheHall
  BY DEF ServiceInit, PromisesFitTheHall
<1>3. ASSUME NEW hall \in Halls, NEW date \in Dates
      PROVE  GuestsBooked(hall, date) + Cardinality(PlacesPromised(hall, date))
                <= Capacity[hall] + (Cardinality(Requests) - 1) * LargestParty(hall)
  <2>1. GuestsBooked(hall, date) = 0
    BY NoGuestsAtFirst DEF ServiceInit, StoreInit
  <2>2. PlacesPromised(hall, date) = {}
    BY DEF ServiceInit, PlacesPromised, Accepted
  <2>3. Cardinality(PlacesPromised(hall, date)) = 0
    BY <2>2, FS_EmptySet
  <2>4. (Cardinality(Requests) - 1) * LargestParty(hall) >= 0
    BY NumberOfRequests, LargestPartyNat
  <2>5. (Cardinality(Requests) - 1) * LargestParty(hall) \in Int
    BY NumberOfRequests, LargestPartyNat
  <2> QED
    BY <2>1, <2>3, <2>4, <2>5, LargestPartyNat
<1> QED
  BY <1>1, <1>2, <1>3 DEF BoundInv, PromisesBounded

(***************************************************************************)
(* What is booked and promised for a hall and date never exceeds its       *)
(* capacity by more than a largest party for each other request.           *)
(***************************************************************************)
THEOREM PromisesAreBounded == ServiceSpec => []PromisesBounded
<1>1. ServiceInit => BoundInv
  BY BoundInit, StoreAssumption, ServiceAssumption
<1>2. BoundInv /\ [ServiceNext]_serviceVars => BoundInv'
  BY BoundStep, StoreAssumption, ServiceAssumption
<1>3. BoundInv => PromisesBounded
  BY DEF BoundInv
<1> QED
  BY <1>1, <1>2, <1>3, PTL DEF ServiceSpec

LEMMA BoundOfRows ==
    ASSUME StoreAssumption, ServiceAssumption, BoundInv
    PROVE  OverbookingBounded
<1> SUFFICES ASSUME NEW hall \in Halls, NEW date \in Dates
             PROVE  GuestsBooked(hall, date)
                      <= Capacity[hall] + (Cardinality(Requests) - 1) * LargestParty(hall)
  BY DEF OverbookingBounded
<1>1. /\ GuestsBooked(hall, date) \in Nat
      /\ Cardinality(PlacesPromised(hall, date)) \in Nat
  BY PlacesTakenFinite, PlacesPromisedFinite DEF BoundInv, ServiceTypeOK
<1>2. Capacity[hall] + (Cardinality(Requests) - 1) * LargestParty(hall) \in Int
  BY NumberOfRequests, LargestPartyNat
<1> QED
  BY <1>1, <1>2 DEF BoundInv, PromisesBounded

(***************************************************************************)
(* The rows of a hall and date exceed its capacity by at most a largest    *)
(* party for each request served at once but one.                          *)
(***************************************************************************)
THEOREM OverbookingIsBounded == ServiceSpec => []OverbookingBounded
<1>1. ServiceInit => BoundInv
  BY BoundInit, StoreAssumption, ServiceAssumption
<1>2. BoundInv /\ [ServiceNext]_serviceVars => BoundInv'
  BY BoundStep, StoreAssumption, ServiceAssumption
<1>3. BoundInv => OverbookingBounded
  BY BoundOfRows, StoreAssumption, ServiceAssumption
<1> QED
  BY <1>1, <1>2, <1>3, PTL DEF ServiceSpec

(***************************************************************************)
(* So a server that takes one request at a time never overbooks: the       *)
(* README's rule fails only under concurrency.                             *)
(***************************************************************************)
THEOREM OneRequestNeverOverbooks ==
    Cardinality(Requests) = 1 => (ServiceSpec => []NeverOverbooked)
<1> SUFFICES ASSUME Cardinality(Requests) = 1 PROVE ServiceSpec => []NeverOverbooked
  OBVIOUS
<1>1. OverbookingBounded => NeverOverbooked
  <2> SUFFICES ASSUME OverbookingBounded, NEW hall \in Halls, NEW date \in Dates
               PROVE  GuestsBooked(hall, date) <= Capacity[hall]
    BY DEF NeverOverbooked
  <2>1. (Cardinality(Requests) - 1) * LargestParty(hall) = 0
    BY LargestPartyNat, StoreAssumption
  <2> QED
    BY <2>1, LargestPartyNat, StoreAssumption DEF OverbookingBounded
<1> QED
  BY <1>1, OverbookingIsBounded, PTL
-----------------------------------------------------------------------------
(***************************************************************************)
(* The race.  While nobody has saved behind another request's count, every *)
(* count still holds: each request that waits to save fits beside the rows *)
(* there are now.                                                          *)
(***************************************************************************)
CountsHold ==
    \A hall \in Halls, date \in Dates : <<hall, date>> \notin raced =>
        /\ GuestsBooked(hall, date) <= Capacity[hall]
        /\ \A r \in Requests : Accepted(r, hall, date) =>
              GuestsBooked(hall, date) + call[r].guests <= Capacity[hall]

RaceInv == ServiceTypeOK /\ CountsHold

LEMMA QuietRace ==
    ASSUME RaceInv, Quiet
    PROVE  CountsHold'
<1> SUFFICES ASSUME NEW hall \in Halls, NEW date \in Dates, <<hall, date>> \notin raced'
             PROVE  /\ GuestsBooked(hall, date)' <= Capacity[hall]
                    /\ \A r \in Requests : Accepted(r, hall, date)' =>
                          GuestsBooked(hall, date)' + call'[r].guests <= Capacity[hall]
  BY DEF CountsHold
<1>1. GuestsBooked(hall, date)' = GuestsBooked(hall, date)
  BY DEF Quiet, GuestsBooked, PlacesTaken, BookingIds
<1>2. ASSUME NEW r \in Requests, Accepted(r, hall, date)'
      PROVE  Accepted(r, hall, date) /\ call'[r] = call[r]
  BY <1>2 DEF Quiet, KeepsPromise, Accepted
<1> QED
  BY <1>1, <1>2 DEF RaceInv, CountsHold, Quiet

LEMMA AcceptRace ==
    ASSUME StoreAssumption, RaceInv, NEW r \in Requests, Accepting(r)
    PROVE  CountsHold'
<1> SUFFICES ASSUME NEW hall \in Halls, NEW date \in Dates, <<hall, date>> \notin raced'
             PROVE  /\ GuestsBooked(hall, date)' <= Capacity[hall]
                    /\ \A q \in Requests : Accepted(q, hall, date)' =>
                          GuestsBooked(hall, date)' + call'[q].guests <= Capacity[hall]
  BY DEF CountsHold
<1>1. GuestsBooked(hall, date)' = GuestsBooked(hall, date)
  BY DEF Accepting, GuestsBooked, PlacesTaken, BookingIds
<1>2. /\ \A q \in Requests : call'[q] = call[q]
      /\ \A q \in Requests \ {r} : pc'[q] = pc[q]
  BY DEF Accepting, WaitFor, RaceInv, ServiceTypeOK
<1>3. <<hall, date>> \notin raced
  BY DEF Accepting
<1>4. CASE call[r].hallId = hall /\ call[r].date = date
  <2>1. call[r] \in NewBooking
    BY CallType DEF Accepting, RaceInv
  <2>2. call[r].guests \in 1 .. MaxGuests /\ MaxGuests \in Nat
    BY <2>1 DEF NewBooking, StoreAssumption
  <2>3. call[r].guests \in Nat
    BY <2>2
  <2>4. GuestsBooked(hall, date) \in Nat
    BY PlacesTakenFinite DEF RaceInv, ServiceTypeOK
  <2>5. Capacity[hall] \in Nat
    BY DEF StoreAssumption
  <2>6. GuestsBooked(hall, date) + call[r].guests <= Capacity[hall]
    BY <1>4, <2>3, <2>4, <2>5 DEF Accepting, Fits
  <2> QED
    BY <1>1, <1>2, <1>3, <2>6 DEF RaceInv, CountsHold, Accepted
<1>5. CASE ~ (call[r].hallId = hall /\ call[r].date = date)
  <2>1. ASSUME NEW q \in Requests, Accepted(q, hall, date)'
        PROVE  Accepted(q, hall, date) /\ call'[q] = call[q]
    BY <1>2, <1>5, <2>1 DEF Accepted
  <2>2. /\ GuestsBooked(hall, date) <= Capacity[hall]
        /\ \A q \in Requests : Accepted(q, hall, date) =>
              GuestsBooked(hall, date) + call[q].guests <= Capacity[hall]
    BY <1>3 DEF RaceInv, CountsHold
  <2> QED
    BY <1>1, <2>1, <2>2
<1> QED
  BY <1>4, <1>5

LEMMA SaveRace ==
    ASSUME StoreAssumption, RaceInv, NEW r \in Requests, Saving(r)
    PROVE  CountsHold'
<1> SUFFICES ASSUME NEW hall \in Halls, NEW date \in Dates, <<hall, date>> \notin raced'
             PROVE  /\ GuestsBooked(hall, date)' <= Capacity[hall]
                    /\ \A q \in Requests : Accepted(q, hall, date)' =>
                          GuestsBooked(hall, date)' + call'[q].guests <= Capacity[hall]
  BY DEF CountsHold
<1> DEFINE here == call[r].hallId = hall /\ call[r].date = date
<1>1. call[r] \in NewBooking /\ Save(call[r])
  BY CallType DEF Saving, RaceInv, Insert
<1>2. GuestsBooked(hall, date)'
        = GuestsBooked(hall, date) + IF here THEN call[r].guests ELSE 0
  BY <1>1, SaveAddsGuests DEF RaceInv, ServiceTypeOK
<1>3. GuestsBooked(hall, date) \in Nat
  BY PlacesTakenFinite DEF RaceInv, ServiceTypeOK
<1>4. /\ \A q \in Requests \ {r} : call'[q] = call[q] /\ pc'[q] = pc[q]
      /\ pc'[r] = "idle"
  BY DEF Saving, Respond, RaceInv, ServiceTypeOK
<1>5. <<hall, date>> \notin raced
  BY DEF Saving, Insert
<1>6. CASE here
  \* Nobody else had counted here, or the place would be in raced.
  <2>1. \A q \in Requests \ {r} : ~ Accepted(q, hall, date)
    BY <1>6 DEF Saving, Insert
  <2>2. \A q \in Requests : ~ Accepted(q, hall, date)'
    BY <1>4, <2>1 DEF Accepted
  <2>3. Accepted(r, hall, date)
    BY <1>6 DEF Saving, Accepted
  <2>4. GuestsBooked(hall, date) + call[r].guests <= Capacity[hall]
    BY <1>5, <2>3 DEF RaceInv, CountsHold
  <2> QED
    BY <1>2, <1>6, <2>2, <2>4
<1>7. CASE ~ here
  <2>1. GuestsBooked(hall, date)' = GuestsBooked(hall, date)
    BY <1>2, <1>3, <1>7
  <2>2. \A q \in Requests : Accepted(q, hall, date)' =>
            Accepted(q, hall, date) /\ call'[q] = call[q]
    BY <1>4 DEF Accepted
  <2> QED
    BY <1>5, <2>1, <2>2 DEF RaceInv, CountsHold
<1> QED
  BY <1>6, <1>7

LEMMA RaceInit == ASSUME StoreAssumption, ServiceAssumption, ServiceInit PROVE RaceInv
<1>1. ServiceTypeOK
  BY ServiceTypeInit
<1>2. \A hall, date : GuestsBooked(hall, date) = 0
  BY NoGuestsAtFirst DEF ServiceInit, StoreInit
<1>3. \A r \in Requests : pc[r] # "save"
  BY DEF ServiceInit
<1>4. ASSUME NEW hall \in Halls, NEW date \in Dates
      PROVE  GuestsBooked(hall, date) <= Capacity[hall]
  <2>1. Capacity[hall] \in Nat
    BY DEF StoreAssumption
  <2> QED
    BY <1>2, <2>1
<1>5. CountsHold
  BY <1>3, <1>4 DEF CountsHold, Accepted
<1> QED
  BY <1>1, <1>5 DEF RaceInv

(***************************************************************************)
(* A hall is overbooked on a date only where a row was saved behind the    *)
(* count of another request: with any number of requests, halls and rows.  *)
(***************************************************************************)
THEOREM OverbookingIsARace == ServiceSpec => []OverbookingNeedsARace
<1>1. ServiceInit => RaceInv
  BY RaceInit, StoreAssumption, ServiceAssumption
<1>2. RaceInv /\ [ServiceNext]_serviceVars => RaceInv'
  <2> SUFFICES ASSUME RaceInv, [ServiceNext]_serviceVars PROVE RaceInv'
    OBVIOUS
  <2>1. ServiceTypeOK'
    BY ServiceTypeStep, StoreAssumption, ServiceAssumption DEF RaceInv
  <2>2. CountsHold'
    BY StepKinds, QuietRace, AcceptRace, SaveRace, StoreAssumption DEF RaceInv
  <2> QED
    BY <2>1, <2>2 DEF RaceInv
<1>3. RaceInv => OverbookingNeedsARace
  <2> SUFFICES ASSUME RaceInv, NEW hall \in Halls, NEW date \in Dates,
                      GuestsBooked(hall, date) > Capacity[hall]
               PROVE  <<hall, date>> \in raced
    BY DEF OverbookingNeedsARace
  <2>1. GuestsBooked(hall, date) \in Nat /\ Capacity[hall] \in Nat
    BY PlacesTakenFinite, StoreAssumption DEF RaceInv, ServiceTypeOK, StoreAssumption
  <2> QED
    BY <2>1 DEF RaceInv, CountsHold
<1> QED
  BY <1>1, <1>2, <1>3, PTL DEF ServiceSpec
-----------------------------------------------------------------------------
(***************************************************************************)
(* Whose bookings the answers show, and the desk that the service is.      *)
(* Both follow from the types alone, step by step.                         *)
(***************************************************************************)
\* What a request that is answered may be shown.
ShownTo(r) ==
    pc[r] # "idle" /\ pc'[r] = "idle" =>
       \A id \in answer'[r].shown :
          /\ id \in BookingIds'
          /\ Caller(r) \in Admins \cup {bookings'[id].bookedBy}

LEMMA NothingShown ==
    ASSUME ServiceTypeOK, NEW r \in Requests, NEW q \in Requests, NEW status, Respond(q, status, {})
    PROVE  ShownTo(r)
<1>1. CASE r = q
  <2>1. answer'[r] = [status |-> status, shown |-> {}]
    BY <1>1 DEF Respond, ServiceTypeOK
  <2> QED
    BY <2>1 DEF ShownTo
<1>2. CASE r # q
  BY <1>2 DEF Respond, ServiceTypeOK, ShownTo
<1> QED
  BY <1>1, <1>2

LEMMA WaitingShowsNothing ==
    ASSUME ServiceTypeOK, NEW r \in Requests, NEW q \in Requests, NEW where \in Waiting, NEW asked,
           WaitFor(q, where, asked)
    PROVE  ShownTo(r)
  BY DEF WaitFor, ServiceTypeOK, ShownTo, Waiting, Creating

LEMMA ShownAnswer ==
    ASSUME ServiceTypeOK, NEW r \in Requests, NEW q \in Requests, NEW status, NEW ids, Respond(q, status, ids),
           \A id \in ids : id \in BookingIds' /\ Caller(q) \in Admins \cup {bookings'[id].bookedBy}
    PROVE  ShownTo(r)
<1>1. CASE r = q
  <2>1. answer'[r] = [status |-> status, shown |-> ids]
    BY <1>1 DEF Respond, ServiceTypeOK
  <2>2. answer'[r].shown = ids
    BY <2>1
  <2> QED
    BY <1>1, <2>2 DEF ShownTo
<1>2. CASE r # q
  BY <1>2 DEF Respond, ServiceTypeOK, ShownTo
<1> QED
  BY <1>1, <1>2

LEMMA ShownStep ==
    ASSUME ServiceTypeOK, [ServiceNext]_serviceVars, NEW r \in Requests
    PROVE  ShownTo(r)
<1>1. ASSUME NEW q \in Requests, Arrive(q)
      PROVE  ShownTo(r)
  BY <1>1, NothingShown, WaitingShowsNothing
     DEF Arrive, RefuseCaller, RefuseInput, PostBooking, GetBooking, GetBookings, Waiting, Creating
<1>2. ASSUME NEW q \in Requests, FindHall(q) \/ CountGuests(q) \/ StoreFails(q) \/ SaveUnconfirmed(q)
      PROVE  ShownTo(r)
  BY <1>2, NothingShown, WaitingShowsNothing
     DEF FindHall, CountGuests, StoreFails, SaveUnconfirmed, Waiting, Creating
<1>3. ASSUME NEW q \in Requests, SaveBooking(q)
      PROVE  ShownTo(r)
  <2>1. /\ bookings \in Seq(NewBooking) /\ call[q] \in NewBooking
        /\ bookings' = Append(bookings, call[q])
    BY <1>3, CallType DEF SaveBooking, Insert, Save, ServiceTypeOK, StoreTypeOK
  <2>2. Len(bookings) + 1 \in BookingIds' /\ bookings'[Len(bookings) + 1] = call[q]
    BY <2>1 DEF BookingIds
  <2>3. Caller(q) = call[q].bookedBy
    BY <1>3 DEF SaveBooking, Caller, Creating
  <2> QED
    BY <1>3, <2>2, <2>3, ShownAnswer DEF SaveBooking
<1>4. ASSUME NEW q \in Requests, FindOne(q)
      PROVE  ShownTo(r)
  <2>1. CASE Respond(q, 404, {})
    BY <2>1, NothingShown
  <2>2. CASE Respond(q, 200, {call[q].bookingId}) /\ MayRead(call[q].user, call[q].bookingId)
    <3>1. Caller(q) = call[q].user
      BY <1>4 DEF FindOne, Caller, Creating
    <3> QED
      BY <1>4, <2>2, <3>1, ShownAnswer DEF FindOne, MayRead, BookingIds
  <2> QED
    BY <1>4, <2>1, <2>2 DEF FindOne
<1>5. ASSUME NEW q \in Requests, ListMine(q)
      PROVE  ShownTo(r)
  <2>1. Caller(q) = call[q].user
    BY <1>5 DEF ListMine, Caller, Creating
  <2> QED
    BY <1>5, <2>1, ShownAnswer DEF ListMine, BookingsFor, BookingIds
<1>6. CASE ServiceMidnight \/ UNCHANGED serviceVars
  BY <1>6 DEF ServiceMidnight, serviceVars, ShownTo
<1> QED
  BY <1>1, <1>2, <1>3, <1>4, <1>5, <1>6 DEF ServiceNext, ResumeRequest

(***************************************************************************)
(* No answer of BookingsController shows a booking to anyone but the user  *)
(* who made it and the admins: for any users, roles and requests at once.  *)
(***************************************************************************)
THEOREM OnlyOwnAreShown == ServiceSpec => OnlyOwnBookings
<1>1. ServiceTypeOK /\ [ServiceNext]_serviceVars
        => [\A r \in Requests :
              pc[r] # "idle" /\ pc'[r] = "idle" =>
                 \A id \in answer'[r].shown :
                    /\ id \in BookingIds'
                    /\ Caller(r) \in Admins \cup {bookings'[id].bookedBy}]_serviceVars
  BY ShownStep DEF ShownTo
<1> QED
  BY <1>1, ServiceTypeCorrect, PTL DEF ServiceSpec, OnlyOwnBookings

-----------------------------------------------------------------------------
\* The desk's promises, as the requests that wait to save.
Promised == [r \in Requests |-> IF pc[r] = "save" THEN call[r] ELSE NoCall]

LEMMA NoCallIsNoBooking == NoCall \notin NewBooking
<1>1. ASSUME NEW b \in NewBooking PROVE "hallId" \in DOMAIN b
  BY DEF NewBooking
<1>2. "hallId" \notin DOMAIN NoCall
  BY DEF NoCall
<1> QED
  BY <1>1, <1>2

LEMMA OnePromise ==
    ASSUME ServiceTypeOK, NEW r \in Requests,
           \A q \in Requests \ {r} : pc'[q] = pc[q] /\ call'[q] = call[q]
    PROVE  Promised' = [Promised EXCEPT ![r] = IF pc'[r] = "save" THEN call'[r] ELSE NoCall]
  BY DEF Promised

LEMMA SamePromises ==
    ASSUME \A q \in Requests : (pc'[q] = "save" <=> pc[q] = "save")
                               /\ (pc[q] = "save" => call'[q] = call[q])
    PROVE  Promised' = Promised
  BY DEF Promised

\* A request that is not at save, and does not come to it, promises nothing new.
LEMMA AnsweredElsewhere ==
    ASSUME ServiceTypeOK, NEW r \in Requests, pc[r] # "save", NEW where, where # "save", NEW asked,
           pc' = [pc EXCEPT ![r] = where], call' = [call EXCEPT ![r] = asked]
    PROVE  Promised' = Promised
<1>1. \A q \in Requests : /\ pc'[q] = "save" <=> pc[q] = "save"
                          /\ pc[q] = "save" => call'[q] = call[q]
  BY DEF ServiceTypeOK
<1> QED
  BY <1>1, SamePromises

LEMMA DeskStep ==
    ASSUME StoreAssumption, ServiceTypeOK, [ServiceNext]_serviceVars
    PROVE  [Desk!Next]_(Desk!deskVars)
<1>1. ASSUME NEW r \in Requests, Arrive(r) \/ FindHall(r) \/ FindOne(r) \/ ListMine(r)
      PROVE  UNCHANGED <<bookings, today, Promised>>
  <2>1. pc[r] # "save"
    BY <1>1 DEF Arrive, RefuseCaller, RefuseInput, PostBooking, GetBooking, GetBookings,
                FindHall, FindOne, ListMine
  <2>2. \E where, asked : /\ where # "save"
                          /\ pc' = [pc EXCEPT ![r] = where]
                          /\ call' = [call EXCEPT ![r] = asked]
    <3>1. CASE Arrive(r)
      BY <3>1 DEF Arrive, RefuseCaller, RefuseInput, PostBooking, GetBooking, GetBookings,
                  Respond, WaitFor
    <3>2. CASE FindHall(r)
      BY <3>2 DEF FindHall, Respond, WaitFor
    <3>3. CASE FindOne(r) \/ ListMine(r)
      BY <3>3 DEF FindOne, ListMine, Respond
    <3> QED
      BY <1>1, <3>1, <3>2, <3>3
  <2>3. Promised' = Promised
    BY <2>1, <2>2, AnsweredElsewhere
  <2> QED
    BY <1>1, <2>3 DEF Arrive, RefuseCaller, RefuseInput, PostBooking, GetBooking, GetBookings,
                      FindHall, FindOne, ListMine
<1>2. ASSUME NEW r \in Requests, CountGuests(r)
      PROVE  \/ Desk!Promise(r, call[r]) /\ call[r] \in NewBooking
             \/ UNCHANGED <<bookings, today, Promised>>
  <2>1. CASE Respond(r, 409, {})
    <3>1. Promised' = Promised
      BY <1>2, <2>1, AnsweredElsewhere DEF CountGuests, Respond
    <3> QED
      BY <1>2, <3>1 DEF CountGuests
  <2>2. CASE Fits(call[r]) /\ WaitFor(r, "save", call[r])
    <3>1. call[r] \in NewBooking
      BY <1>2, CallType DEF CountGuests
    <3>2. Promised[r] = NoCall
      BY <1>2 DEF CountGuests, Promised
    <3>3. Promised' = [Promised EXCEPT ![r] = call[r]]
      BY <2>2, OnePromise DEF WaitFor, ServiceTypeOK
    <3>4. GuestsBooked(call[r].hallId, call[r].date) + call[r].guests <= Capacity[call[r].hallId]
      <4>1. call[r].guests \in Nat
        BY <3>1 DEF NewBooking, StoreAssumption
      <4>2. Capacity[call[r].hallId] \in Nat
        BY <3>1 DEF NewBooking, StoreAssumption
      <4>3. GuestsBooked(call[r].hallId, call[r].date) \in Nat
        BY PlacesTakenFinite DEF ServiceTypeOK
      <4> QED
        BY <2>2, <4>1, <4>2, <4>3 DEF Fits
    <3>5. Desk!GuestsBooked(call[r].hallId, call[r].date) = GuestsBooked(call[r].hallId, call[r].date)
      <4>1. Desk!PlacesTaken(call[r].hallId, call[r].date) = PlacesTaken(call[r].hallId, call[r].date)
        BY DEF Desk!PlacesTaken, Desk!BookingIds, PlacesTaken, BookingIds
      <4> QED
        BY <4>1, Zenon DEF Desk!GuestsBooked, GuestsBooked, Desk!Cardinality, Cardinality
    <3> QED
      BY <1>2, <3>1, <3>2, <3>3, <3>4, <3>5 DEF CountGuests, Promised, Desk!Promise
  <2> QED
    BY <1>2, <2>1, <2>2 DEF CountGuests
<1>3. ASSUME NEW r \in Requests, SaveBooking(r) \/ SaveUnconfirmed(r)
      PROVE  Desk!Write(r)
  <2>1. call[r] \in NewBooking /\ pc[r] = "save" /\ Save(call[r]) /\ today' = today
    BY <1>3, CallType DEF SaveBooking, SaveUnconfirmed, Insert
  <2>2. Promised[r] = call[r] /\ Promised[r] # NoCall
    BY <2>1, NoCallIsNoBooking DEF Promised
  <2>3. Promised' = [Promised EXCEPT ![r] = NoCall]
    BY <1>3, OnePromise DEF SaveBooking, SaveUnconfirmed, Respond, ServiceTypeOK
  <2> QED
    BY <2>1, <2>2, <2>3 DEF Promised, Desk!Write, Desk!Save, Save
<1>4. ASSUME NEW r \in Requests, StoreFails(r)
      PROVE  Desk!Drop(r) \/ UNCHANGED <<bookings, today, Promised>>
  <2>1. CASE pc[r] # "save"
    BY <1>4, <2>1, AnsweredElsewhere DEF StoreFails, Respond
  <2>2. CASE pc[r] = "save"
    <3>1. Promised[r] # NoCall
      BY <2>2, CallType, NoCallIsNoBooking DEF Promised
    <3>2. Promised' = [Promised EXCEPT ![r] = NoCall]
      BY <1>4, OnePromise DEF StoreFails, Respond, ServiceTypeOK
    <3> QED
      BY <1>4, <3>1, <3>2 DEF StoreFails, Promised, Desk!Drop
  <2> QED
    BY <2>1, <2>2
<1>5. CASE ServiceMidnight
  <2>1. Promised' = Promised
    BY <1>5 DEF ServiceMidnight, Promised
  <2> QED
    BY <1>5, <2>1 DEF ServiceMidnight, NextDay, Promised, Desk!Next, Desk!NextDay
<1>6. CASE UNCHANGED serviceVars
  <2>1. Promised' = Promised
    BY <1>6 DEF serviceVars, Promised
  <2> QED
    BY <1>6, <2>1 DEF serviceVars, Promised, Desk!deskVars
<1>7. UNCHANGED <<bookings, today, Promised>> => UNCHANGED Desk!deskVars
  BY DEF Promised, Desk!deskVars
<1>8. Desk!NewBooking = NewBooking
  BY DEF Desk!NewBooking, NewBooking, Desk!Dates, Dates
<1>9. ASSUME NEW r \in Requests,
             \/ Desk!Promise(r, call[r]) /\ call[r] \in NewBooking
             \/ Desk!Write(r)
             \/ Desk!Drop(r)
      PROVE  Desk!Next
  <2>1. CASE Desk!Promise(r, call[r]) /\ call[r] \in NewBooking
    <3>1. \E booking \in Desk!NewBooking : Desk!Promise(r, booking)
      BY <2>1, <1>8 DEF Desk!Promise
    <3> QED
      BY <3>1, Zenon DEF Desk!Next
  <2>2. CASE Desk!Write(r)
    BY <2>2, Zenon DEF Desk!Next
  <2>3. CASE Desk!Drop(r)
    BY <2>3, Zenon DEF Desk!Next
  <2> QED
    BY <1>9, <2>1, <2>2, <2>3
<1>10. ASSUME NEW r \in Requests, Arrive(r) \/ ResumeRequest(r)
       PROVE  [Desk!Next]_(Desk!deskVars)
  BY <1>1, <1>2, <1>3, <1>4, <1>7, <1>9, <1>10 DEF ResumeRequest
<1> QED
  BY <1>5, <1>6, <1>10 DEF ServiceNext

LEMMA DeskInit == ASSUME ServiceInit PROVE Desk!Init
<1>1. Promised = [r \in Requests |-> NoCall]
  BY DEF ServiceInit, Promised
<1> QED
  BY <1>1 DEF ServiceInit, StoreInit, Promised, Desk!Init, Desk!StoreInit

(***************************************************************************)
(* The service implements the desk: whatever awaits, fails and interleaves *)
(* between findHall and save, every row written was promised while it      *)
(* fitted, and nothing else ever happens to the book.                      *)
(***************************************************************************)
THEOREM ImplementsTheDesk == ServiceSpec => ImplementsDesk
<1>1. ServiceInit => Desk!Init
  BY DeskInit
<1>2. ServiceTypeOK /\ [ServiceNext]_serviceVars => [Desk!Next]_(Desk!deskVars)
  BY DeskStep, StoreAssumption
<1> QED
  BY <1>1, <1>2, ServiceTypeCorrect, PTL DEF ServiceSpec, ImplementsDesk, Desk!Spec
=============================================================================
