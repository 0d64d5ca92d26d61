--------------------------- MODULE BookingsService ---------------------------
(***************************************************************************)
(* BookingsService behind its controller: Requests is the set of HTTP      *)
(* requests the API process works on at once.  A request runs up to its    *)
(* next await and waits there for the store, while the others run; pc says *)
(* for which store operation it waits.                                     *)
(*                                                                         *)
(*   arrive: RolesGuard, then the pipes, then the handler up to its first  *)
(*           await (all synchronous)                                       *)
(*   create: "hall" -> "count" -> "save" -> answered                       *)
(*   findOne: "find" -> answered         listMine: "list" -> answered      *)
(*                                                                         *)
(* Nothing locks the hall between "count" and "save".                      *)
(***************************************************************************)
EXTENDS BookingsStore

CONSTANTS Requests,   \* the requests served at once
          Admins,     \* users with the role admin
          FrontDesk,  \* users with the role front-desk
          Nobody,     \* a caller who is not signed in
          HallIds     \* the hall ids a client asks for, the existing ones among them

ASSUME ServiceAssumption ==
    /\ IsFiniteSet(Requests)
    /\ Requests # {}
    /\ Admins \subseteq Users
    /\ FrontDesk \subseteq Users
    /\ Nobody \notin Users
    /\ Halls \subseteq HallIds
    /\ HallIds \subseteq Nat \ {0}

VARIABLES pc,      \* what each request waits for
          call,    \* what it was asked, as the service receives it
          answer,  \* the answer sent, until the next request arrives
          raced    \* history: halls and dates where a row was saved behind another's count

serviceVars == <<bookings, today, pc, call, answer, raced>>

Body           == [hallId: HallIds, date: Dates, guests: 1 .. MaxGuests]
BookingRequest == [hallId: HallIds, date: Dates, guests: 1 .. MaxGuests, bookedBy: Users]
FindRequest    == [bookingId: Nat, user: Users]
ListRequest    == [user: Users]
NoCall         == [user |-> Nobody]
NoAnswer       == [status |-> 0, shown |-> {}]

Creating == {"hall", "count", "save"}
Waiting  == Creating \cup {"find", "list"}

Answer == [status: {0, 200, 201, 400, 401, 403, 404, 409, 500}, shown: SUBSET Nat]

(***************************************************************************)
(* The types of the variables, and what a request waiting at each await    *)
(* carries: in particular, one that waits for a count or a save is for a   *)
(* hall that exists.                                                       *)
(***************************************************************************)
ServiceTypeOK ==
    /\ StoreTypeOK
    /\ pc \in [Requests -> Waiting \cup {"idle"}]
    /\ call \in [Requests -> BookingRequest \cup FindRequest \cup ListRequest \cup {NoCall}]
    /\ \A r \in Requests :
          /\ pc[r] = "idle" => call[r] = NoCall
          /\ pc[r] = "hall" => call[r] \in BookingRequest
          /\ pc[r] \in {"count", "save"} => call[r] \in NewBooking
          /\ pc[r] = "find" => call[r] \in FindRequest
          /\ pc[r] = "list" => call[r] \in ListRequest
    /\ answer \in [Requests -> Answer]
    /\ raced \subseteq Halls \X Dates

ServiceInit ==
    /\ StoreInit
    /\ pc = [r \in Requests |-> "idle"]
    /\ call = [r \in Requests |-> NoCall]
    /\ answer = [r \in Requests |-> NoAnswer]
    /\ raced = {}

-----------------------------------------------------------------------------
Caller(r) == IF pc[r] \in Creating THEN call[r].bookedBy ELSE call[r].user

Respond(r, status, ids) ==
    /\ pc' = [pc EXCEPT ![r] = "idle"]
    /\ call' = [call EXCEPT ![r] = NoCall]
    /\ answer' = [answer EXCEPT ![r] = [status |-> status, shown |-> ids]]

WaitFor(r, where, asked) ==
    /\ pc' = [pc EXCEPT ![r] = where]
    /\ call' = [call EXCEPT ![r] = asked]
    /\ answer' = [answer EXCEPT ![r] = NoAnswer]

-----------------------------------------------------------------------------
(***************************************************************************)
(* The HTTP layer.  @Roles('admin', 'front-desk') covers every route.      *)
(***************************************************************************)
MayCall(user) == user \in Admins \cup FrontDesk

RefuseCaller(r, caller) ==
    /\ pc[r] = "idle"
    /\ ~ MayCall(caller)
    /\ Respond(r, IF caller = Nobody THEN 401 ELSE 403, {})
    /\ UNCHANGED <<bookings, today, raced>>

\* A body that CreateBookingDto refuses (no hall id or party it allows, among others),
\* or an :id that ParseIntPipe refuses.
RefuseInput(r, user) ==
    /\ pc[r] = "idle"
    /\ MayCall(user)
    /\ Respond(r, 400, {})
    /\ UNCHANGED <<bookings, today, raced>>

\* A body the DTO lets through.  bookedBy is the session's user, not part of the body.
PostBooking(r, user, body) ==
    /\ pc[r] = "idle"
    /\ MayCall(user)
    /\ WaitFor(r, "hall", [hallId |-> body.hallId, date |-> body.date,
                           guests |-> body.guests, bookedBy |-> user])
    /\ UNCHANGED <<bookings, today, raced>>

GetBooking(r, user, id) ==
    /\ pc[r] = "idle"
    /\ MayCall(user)
    /\ WaitFor(r, "find", [bookingId |-> id, user |-> user])
    /\ UNCHANGED <<bookings, today, raced>>

GetBookings(r, user) ==
    /\ pc[r] = "idle"
    /\ MayCall(user)
    /\ WaitFor(r, "list", [user |-> user])
    /\ UNCHANGED <<bookings, today, raced>>

-----------------------------------------------------------------------------
(***************************************************************************)
(* BookingsService.create, one action per await.                           *)
(***************************************************************************)
\* Mutant: nobody counts the guests.
FindHallTrusting(r) ==
    /\ pc[r] = "hall"
    /\ IF call[r].hallId \notin Halls
       THEN Respond(r, 404, {})
       ELSE IF call[r].date < today
       THEN Respond(r, 400, {})
       ELSE WaitFor(r, "save", call[r])
    /\ UNCHANGED <<bookings, today, raced>>

FindHall(r) ==
    /\ pc[r] = "hall"
    /\ IF call[r].hallId \notin Halls
       THEN Respond(r, 404, {})
       ELSE IF call[r].date < today
       THEN Respond(r, 400, {})
       ELSE WaitFor(r, "count", call[r])
    /\ UNCHANGED <<bookings, today, raced>>

\* Mutants: the capacity alone decides; one guest too many is let in.
FitsAlone(booking) == booking.guests <= Capacity[booking.hallId]

FitsOneMore(booking) ==
    booking.guests <= Capacity[booking.hallId] - GuestsBooked(booking.hallId, booking.date) + 1

Fits(booking) ==
    booking.guests <= Capacity[booking.hallId] - GuestsBooked(booking.hallId, booking.date)

\* Mutant: a full hall is tried again from the start, until places are free.
CountGuestsAgain(r) ==
    /\ pc[r] = "count"
    /\ WaitFor(r, IF Fits(call[r]) THEN "save" ELSE "hall", call[r])
    /\ UNCHANGED <<bookings, today, raced>>

CountGuests(r) ==
    /\ pc[r] = "count"
    /\ IF Fits(call[r])
       THEN WaitFor(r, "save", call[r])
       ELSE Respond(r, 409, {})
    /\ UNCHANGED <<bookings, today, raced>>

\* r has been told that its booking fits, and has not saved it yet.
Accepted(r, hall, date) ==
    pc[r] = "save" /\ call[r].hallId = hall /\ call[r].date = date

Insert(r) ==
    /\ Save(call[r])
    /\ raced' = IF \E q \in Requests \ {r} : Accepted(q, call[r].hallId, call[r].date)
                THEN raced \cup {<<call[r].hallId, call[r].date>>}
                ELSE raced

SaveBooking(r) ==
    /\ pc[r] = "save"
    /\ Insert(r)
    /\ Respond(r, 201, {Len(bookings) + 1})
    /\ UNCHANGED today

\* The row is in the table, but the connection failed before the store said so.
SaveUnconfirmed(r) ==
    /\ pc[r] = "save"
    /\ Insert(r)
    /\ Respond(r, 500, {})
    /\ UNCHANGED today

-----------------------------------------------------------------------------
\* Mutant: any user may read any booking.
MayReadAny(user, id) == id \in BookingIds

\* Someone else's booking gets the answer of one that does not exist.
MayRead(user, id) ==
    /\ id \in BookingIds
    /\ bookings[id].bookedBy = user \/ user \in Admins

FindOne(r) ==
    /\ pc[r] = "find"
    /\ IF MayRead(call[r].user, call[r].bookingId)
       THEN Respond(r, 200, {call[r].bookingId})
       ELSE Respond(r, 404, {})
    /\ UNCHANGED <<bookings, today, raced>>

ListMine(r) ==
    /\ pc[r] = "list"
    /\ Respond(r, 200, BookingsFor(call[r].user))
    /\ UNCHANGED <<bookings, today, raced>>

\* A store call that rejects: Nest answers 500.  Nothing was written.
StoreFails(r) ==
    /\ pc[r] \in Waiting
    /\ Respond(r, 500, {})
    /\ UNCHANGED <<bookings, today, raced>>

ServiceMidnight ==
    /\ NextDay
    /\ UNCHANGED <<bookings, pc, call, answer, raced>>

-----------------------------------------------------------------------------
Arrive(r) ==
    \/ \E caller \in Users \cup {Nobody} : RefuseCaller(r, caller)
    \/ \E user \in Users :
          \/ RefuseInput(r, user)
          \/ \E body \in Body : PostBooking(r, user, body)
          \/ \E id \in 1 .. MaxBookings : GetBooking(r, user, id)
          \/ GetBookings(r, user)

ResumeRequest(r) ==
    \/ FindHall(r)
    \/ CountGuests(r)
    \/ SaveBooking(r)
    \/ SaveUnconfirmed(r)
    \/ FindOne(r)
    \/ ListMine(r)
    \/ StoreFails(r)

ServiceNext ==
    \/ \E r \in Requests : Arrive(r) \/ ResumeRequest(r)
    \/ ServiceMidnight

(***************************************************************************)
(* Every promise of the store settles, and the event loop runs what waits  *)
(* for it.  Nothing makes clients send requests or the day end.            *)
(***************************************************************************)
ServiceFairness == \A r \in Requests : WF_serviceVars(ResumeRequest(r))

ServiceSpec == ServiceInit /\ [][ServiceNext]_serviceVars /\ ServiceFairness
-----------------------------------------------------------------------------
(***************************************************************************)
(* Properties.                                                             *)
(***************************************************************************)

\* The largest party that can be promised a place in the hall.
LargestParty(hall) == IF MaxGuests < Capacity[hall] THEN MaxGuests ELSE Capacity[hall]

\* The places of the requests that wait to save, counted as GuestsBooked counts rows.
PlacesPromised(hall, date) ==
    {place \in Requests \X (1 .. MaxGuests) :
        /\ Accepted(place[1], hall, date)
        /\ place[2] <= call[place[1]].guests}

(***************************************************************************)
(* However the requests of BookingsService.create interleave, a hall and   *)
(* date exceed the capacity by less than one largest party per concurrent  *)
(* request: counting and saving apart (lines 40-47) costs at most that.    *)
(* With a single request at a time the hall is never overbooked.           *)
(***************************************************************************)
OverbookingBounded ==
    \A hall \in Halls, date \in Dates :
        GuestsBooked(hall, date)
            <= Capacity[hall] + (Cardinality(Requests) - 1) * LargestParty(hall)

\* The same, counting the promised places too: the inductive form.
PromisesBounded ==
    \A hall \in Halls, date \in Dates :
        GuestsBooked(hall, date) + Cardinality(PlacesPromised(hall, date))
            <= Capacity[hall] + (Cardinality(Requests) - 1) * LargestParty(hall)

(***************************************************************************)
(* A hall is overbooked on a date only if some row was saved there while   *)
(* another request had counted and not saved: the race is the only cause,  *)
(* for rows saved without confirmation too.                                *)
(***************************************************************************)
OverbookingNeedsARace ==
    \A hall \in Halls, date \in Dates :
        GuestsBooked(hall, date) > Capacity[hall] => <<hall, date>> \in raced

(***************************************************************************)
(* README.md:194-195: "a booking bigger than the places left that day is   *)
(* refused (409)", "exactly filling the hall is allowed; one guest more is *)
(* not".  Two requests that count before either saves break it.            *)
(***************************************************************************)
NeverOverbooked ==
    \A hall \in Halls, date \in Dates : GuestsBooked(hall, date) <= Capacity[hall]

(***************************************************************************)
(* Whatever the route, an answer shows a booking only to the user who made *)
(* it or to an admin: findOne's check, listMine's filter and the bookedBy  *)
(* the controller takes from the session agree on whose row it is.         *)
(***************************************************************************)
OnlyOwnBookings ==
    [][\A r \in Requests :
          pc[r] # "idle" /\ pc'[r] = "idle" =>
             \A id \in answer'[r].shown :
                /\ id \in BookingIds'
                /\ Caller(r) \in Admins \cup {bookings'[id].bookedBy}]_serviceVars

(***************************************************************************)
(* Every request is answered in the end, also when the store fails: no     *)
(* path of the handlers waits for ever or loops.                           *)
(***************************************************************************)
EveryRequestAnswered == \A r \in Requests : pc[r] # "idle" ~> pc[r] = "idle"

(***************************************************************************)
(* The service is a desk whose clerks are the requests: a clerk's promise  *)
(* is a request that waits to save.                                        *)
(***************************************************************************)
Desk == INSTANCE BookingDesk WITH
    Clerks   <- Requests,
    Nothing  <- NoCall,
    promised <- [r \in Requests |-> IF pc[r] = "save" THEN call[r] ELSE NoCall]

ImplementsDesk == Desk!Spec
=============================================================================
