--------------------------- MODULE BookingsStores ---------------------------
(***************************************************************************)
(* The two implementations of BookingsStore side by side, given the same   *)
(* calls: InMemoryBookingsStore, the fake that unit tests trust, and       *)
(* TypeOrmBookingsStore over the MySQL tables of its integration test.     *)
(*                                                                         *)
(* They differ in three ways that the shared contract must not notice: the *)
(* fake numbers by position and starts again with each test, AUTO_INCREMENT*)
(* leaves gaps and never goes back; the fake keeps arrays in the order of  *)
(* the calls, a table has no order; and a DATETIME column rounds to the    *)
(* second, while the fake keeps the Date it was given.                     *)
(***************************************************************************)
EXTENDS Queries, SequencesExt

CONSTANTS Capacities, Dates, Parties, Callers, Times, Never,  \* see BookingsStoreContract
          MaxIds   \* bounds of the model: the highest id of each table

ASSUME StoresAssumption ==
    /\ Parties \subseteq Nat
    /\ Times \subseteq Nat
    /\ Never \notin Nat
    /\ MaxIds \in [halls: Nat, bookings: Nat]

VARIABLES fake,    \* the arrays of the fake
          tables,  \* example_halls and example_bookings, as sets of rows
          nextId,  \* AUTO_INCREMENT of the tables
          given    \* for each call of addHall and of save the ids that the fake and the tables answered,
                   \* and for a booking when its last reminder was sent

storesVars == <<fake, tables, nextId, given>>

\* What find and findOne answer when there is none.
Null == [id |-> 0]

StoresInit ==
    /\ fake = [halls |-> << >>, bookings |-> << >>]
    /\ tables = [halls |-> {}, bookings |-> {}]
    /\ nextId = [halls |-> 1, bookings |-> 1]
    /\ given = [halls |-> << >>, bookings |-> << >>]

-----------------------------------------------------------------------------
(***************************************************************************)
(* InMemoryBookingsStore.                                                  *)
(***************************************************************************)
\* Array.prototype.find, by id: the first that has it, or null.
Find(array, id) ==
    IF \E n \in DOMAIN array : array[n].id = id
    THEN array[CHOOSE n \in DOMAIN array :
                  array[n].id = id /\ \A earlier \in 1 .. n - 1 : ~ (array[earlier].id = id)]
    ELSE Null

\* Array.prototype.filter: what is at the positions that pass, in their order.
Filter(array, passing) ==
    LET at == OrderedBy(passing, [n \in passing |-> n])
    IN  [k \in DOMAIN at |-> array[at[k]]]

FakeFindHall(id) == Find(fake.halls, id)

FakeGuestsBooked(hallId, date) ==
    SumOf({n \in DOMAIN fake.bookings : fake.bookings[n].hallId = hallId /\ fake.bookings[n].date = date},
          [n \in DOMAIN fake.bookings |-> fake.bookings[n].guests])

FakeFindBooking(id) == Find(fake.bookings, id)

FakeBookingsFor(user) ==
    Filter(fake.bookings, {n \in DOMAIN fake.bookings : fake.bookings[n].bookedBy = user})

FakeDueForReminder(date) ==
    Filter(fake.bookings, {n \in DOMAIN fake.bookings :
                             fake.bookings[n].date = date /\ fake.bookings[n].reminded = Never})

\* Mutant: save copies the booking and its id, and leaves reminderSentAt undefined.
FakeSaveAsGiven(booking) == Append(fake.bookings, [booking EXCEPT !.id = Len(fake.bookings) + 1])

FakeSave(booking) ==
    Append(fake.bookings, [booking EXCEPT !.id = Len(fake.bookings) + 1, !.reminded = Never])

FakeMarkReminderSent(id, at) ==
    [n \in DOMAIN fake.bookings |->
        IF fake.bookings[n].id = id THEN [fake.bookings[n] EXCEPT !.reminded = at] ELSE fake.bookings[n]]

-----------------------------------------------------------------------------
(***************************************************************************)
(* TypeOrmBookingsStore, and what MySQL makes of its statements.           *)
(***************************************************************************)
FindById(table, id) == IF \E row \in table : row.id = id THEN CHOOSE row \in table : row.id = id ELSE Null

OrderedById(found) == OrderedBy(found, [row \in found |-> row.id])

RealFindHall(id) == FindById(tables.halls, id)

\* SUM is NULL over no rows, COALESCE makes it 0.
RealGuestsBooked(hallId, date) ==
    SumOf({row \in tables.bookings : row.hallId = hallId /\ row.date = date},
          [row \in tables.bookings |-> row.guests])

RealFindBooking(id) == FindById(tables.bookings, id)

\* Mutant: order: { id: 'DESC' }.
RealNewestFirst(user) ==
    LET found == {row \in tables.bookings : row.bookedBy = user}
    IN  OrderedBy(found, [row \in found |-> 0 - row.id])

RealBookingsFor(user) == OrderedById({row \in tables.bookings : row.bookedBy = user})

RealDueForReminder(date) == OrderedById({row \in tables.bookings : row.date = date /\ row.reminded = Never})

RealSave(booking) == tables.bookings \cup {[booking EXCEPT !.id = nextId.bookings, !.reminded = Never]}

\* DATETIME keeps whole seconds, half a second rounds up.
ToSecond(at) == 2 * ((at + 1) \div 2)

\* Mutant: every booking that has no reminder yet is updated.
RealMarkAllDue(id, at) ==
    {IF row.reminded = Never THEN [row EXCEPT !.reminded = ToSecond(at)] ELSE row : row \in tables.bookings}

\* Mutant: update({ id, reminderSentAt: IsNull() }, ...), which keeps the first reminder.
RealMarkOnce(id, at) ==
    {IF row.id = id /\ row.reminded = Never THEN [row EXCEPT !.reminded = ToSecond(at)] ELSE row :
        row \in tables.bookings}

RealMarkReminderSent(id, at) ==
    {IF row.id = id THEN [row EXCEPT !.reminded = ToSecond(at)] ELSE row : row \in tables.bookings}

-----------------------------------------------------------------------------
(***************************************************************************)
(* The calls of a test, one after the other, each on both stores.          *)
(***************************************************************************)
AddHall(capacity) ==
    LET fakeId == Len(fake.halls) + 1
    IN  /\ nextId.halls <= MaxIds.halls
        /\ fake' = [fake EXCEPT !.halls = Append(@, [id |-> fakeId, capacity |-> capacity])]
        /\ tables' = [tables EXCEPT !.halls = @ \cup {[id |-> nextId.halls, capacity |-> capacity]}]
        /\ nextId' = [nextId EXCEPT !.halls = @ + 1]
        /\ given' = [given EXCEPT !.halls = Append(@, [fake |-> fakeId, real |-> nextId.halls])]

\* hall is what addHall answered; id and reminded are not the caller's to give.
Save(hall, date, guests, user) ==
    LET New(hallId) == [id |-> 0, hallId |-> hallId, date |-> date, guests |-> guests,
                        bookedBy |-> user, reminded |-> 0]
    IN  /\ nextId.bookings <= MaxIds.bookings
        /\ fake' = [fake EXCEPT !.bookings = FakeSave(New(hall.fake))]
        /\ tables' = [tables EXCEPT !.bookings = RealSave(New(hall.real))]
        /\ nextId' = [nextId EXCEPT !.bookings = @ + 1]
        /\ given' = [given EXCEPT !.bookings =
                        Append(@, [fake |-> Last(fake'.bookings).id, real |-> nextId.bookings,
                                   sentAt |-> Never])]

\* An id that no booking has is none that save answered.
Unknown == [fake |-> Len(fake.bookings) + 1, real |-> nextId.bookings]

MarkReminderSent(ids, at) ==
    /\ fake' = [fake EXCEPT !.bookings = FakeMarkReminderSent(ids.fake, at)]
    /\ tables' = [tables EXCEPT !.bookings = RealMarkReminderSent(ids.real, at)]
    /\ given' = [given EXCEPT !.bookings =
                    [n \in DOMAIN @ |-> IF @[n] = ids THEN [ids EXCEPT !.sentAt = at] ELSE @[n]]]
    /\ UNCHANGED nextId

\* An INSERT that is rolled back has used its id.
RollBackInsert(table) ==
    /\ nextId[table] <= MaxIds[table]
    /\ nextId' = [nextId EXCEPT ![table] = @ + 1]
    /\ UNCHANGED <<fake, tables, given>>

\* The fake is a new one; resetDatabase deletes the rows, and AUTO_INCREMENT goes on.
NextTest ==
    /\ fake' = [halls |-> << >>, bookings |-> << >>]
    /\ tables' = [halls |-> {}, bookings |-> {}]
    /\ given' = [halls |-> << >>, bookings |-> << >>]
    /\ UNCHANGED nextId

StoresNext ==
    \/ \E capacity \in Capacities : AddHall(capacity)
    \/ \E hall \in ToSet(given.halls), date \in Dates, guests \in Parties, user \in Callers :
          Save(hall, date, guests, user)
    \/ \E ids \in ToSet(given.bookings) \cup {Unknown}, at \in Times : MarkReminderSent(ids, at)
    \/ \E table \in {"halls", "bookings"} : RollBackInsert(table)
    \/ NextTest

StoresSpec == StoresInit /\ [][StoresNext]_storesVars

-----------------------------------------------------------------------------
(***************************************************************************)
(* The contract, as each store keeps it: its n-th hall is the one that the *)
(* store finds by the n-th id that it answered.                            *)
(***************************************************************************)
PositionIn(ids, store, id) == CHOOSE n \in DOMAIN ids : ids[n][store] = id

InContract(booking, store) ==
    IF booking = Null THEN Null
    ELSE [hall |-> PositionIn(given.halls, store, booking.hallId), date |-> booking.date,
          guests |-> booking.guests, bookedBy |-> booking.bookedBy, reminded |-> booking.reminded]

FakeHalls    == [n \in DOMAIN given.halls |-> FakeFindHall(given.halls[n].fake).capacity]
FakeBookings == [n \in DOMAIN given.bookings |-> InContract(FakeFindBooking(given.bookings[n].fake), "fake")]
RealHalls    == [n \in DOMAIN given.halls |-> RealFindHall(given.halls[n].real).capacity]
RealBookings == [n \in DOMAIN given.bookings |-> InContract(RealFindBooking(given.bookings[n].real), "real")]

FakeContract == INSTANCE BookingsStoreContract WITH halls <- FakeHalls, bookings <- FakeBookings
RealContract == INSTANCE BookingsStoreContract WITH halls <- RealHalls, bookings <- RealBookings

\* The fake keeps the contract: what addHall, save and markReminderSent did is what findHall and
\* findBooking answer for the ids it gave, whatever was called in between.
FakeKeepsContract == FakeContract!Spec

\* And so does the TypeORM store, over tables whose ids have gaps and do not start again at 1.
RealKeepsContract == RealContract!Spec

NamedBy(answers, store) == [n \in DOMAIN answers |-> PositionIn(given.bookings, store, answers[n].id)]

\* What a store answers is what the contract says: sums over one hall and date, lists oldest first,
\* the whole second a reminder was sent at, and null for an id that was not given, the next one
\* of each table included.
AnswersAsPromised ==
    /\ \A hall \in DOMAIN given.halls, date \in Dates :
        /\ FakeGuestsBooked(given.halls[hall].fake, date) = FakeContract!GuestsBooked(hall, date)
        /\ RealGuestsBooked(given.halls[hall].real, date) = RealContract!GuestsBooked(hall, date)
    /\ \A user \in Callers :
        /\ NamedBy(FakeBookingsFor(user), "fake") = FakeContract!BookingsFor(user)
        /\ NamedBy(RealBookingsFor(user), "real") = RealContract!BookingsFor(user)
    /\ \A date \in Dates :
        /\ NamedBy(FakeDueForReminder(date), "fake") = FakeContract!DueForReminder(date)
        /\ NamedBy(RealDueForReminder(date), "real") = RealContract!DueForReminder(date)
    /\ \A n \in DOMAIN given.bookings :
        {FakeBookings[n].reminded, RealBookings[n].reminded} \subseteq
            FakeContract!ReadBack(given.bookings[n].sentAt)
    /\ FakeFindBooking(Unknown.fake) = Null /\ RealFindBooking(Unknown.real) = Null
    /\ FakeFindHall(Len(given.halls) + 1) = Null /\ RealFindHall(nextId.halls) = Null

\* The fake has not drifted: after the same calls the two stores hold the same halls and bookings,
\* but for the fraction of a second that a DATETIME column rounds.
StoresAgree ==
    /\ FakeHalls = RealHalls
    /\ \A n \in DOMAIN given.bookings :
        RealBookings[n] = [FakeBookings[n] EXCEPT !.reminded = IF @ = Never THEN Never ELSE ToSecond(@)]
=============================================================================
