--------------------------- MODULE ExamplesProofs ---------------------------
(***************************************************************************)
(* What holds of splitAmount for every amount below 2^53, of the Express   *)
(* services for any number of requests, users and members, and of the two  *)
(* stores of bookings for any number of halls and bookings.                *)
(***************************************************************************)
EXTENDS RequestHandlers, SplitAmount, BookingsStores, FiniteSetTheorems,
        SequenceTheorems, TLAPS

-----------------------------------------------------------------------------
(***************************************************************************)
(* splitAmount.  A quotient that is no whole number is at least 1 / parts  *)
(* below the next one, and the nearest number to it is closer than that.   *)
(***************************************************************************)
LEMMA Division ==
    ASSUME NEW total \in Nat, NEW parts \in Nat \ {0}
    PROVE  /\ total \div parts \in Nat
           /\ (total \div parts) * parts <= total
           /\ total <= (total \div parts) * parts + parts - 1
BY SMTT(30)

LEMMA DivisionIsUnique ==
    ASSUME NEW total \in Nat, NEW parts \in Nat \ {0}, NEW share \in Nat,
           share * parts <= total, total < (share + 1) * parts
    PROVE  total \div parts = share
BY SMTT(30)

\* Math.floor of the rounded quotient is the exact one, for every amount below the number of
\* significands (split-amount.ts:12).
THEOREM FloorIsExact ==
    ASSUME NEW totalCents \in Nat, NEW parts \in Nat \ {0}, totalCents < Significands,
           NEW quotient \in Quotients(totalCents, parts)
    PROVE  Floor(quotient) = totalCents \div parts
<1> DEFINE m == quotient.significand
           d == quotient.scale
           k == totalCents \div parts
<1>1. /\ m \in Nat /\ d \in Nat \ {0}
      /\ totalCents # 0 => Significands * parts <= 2 * d * totalCents
      /\ 2 * Distance(m * parts, totalCents * d) <= parts
  <2>1. quotient \in [significand: 0 .. Significands, scale: Scales]
    BY DEF Quotients
  <2>2. m \in 0 .. Significands /\ d \in Scales
    BY <2>1
  <2>3. m \in Nat /\ d \in Nat \ {0}
    <3> HIDE DEF m, d
    <3> QED  BY <2>2, NumberAssumption
  <2>4. /\ totalCents # 0 => Significands * parts <= 2 * quotient.scale * totalCents
        /\ 2 * Distance(quotient.significand * parts, totalCents * quotient.scale) <= parts
    BY Zenon DEF Quotients
  <2> QED  BY <2>3, <2>4
<1>2. k \in Nat /\ k * parts <= totalCents /\ totalCents <= k * parts + parts - 1
  BY Division
<1> HIDE DEF m, d, k
<1> DEFINE mp == m * parts
           td == totalCents * d
<1>3. mp \in Nat /\ td \in Nat
  BY <1>1
<1>4. 2 * mp <= 2 * td + parts /\ 2 * td <= 2 * mp + parts
  <2>1. 2 * Distance(mp, td) <= parts
    BY <1>1
  <2> HIDE DEF mp, td
  <2> QED  BY <2>1, <1>3 DEF Distance
<1>5. k * d <= m
  <2>1. SUFFICES ASSUME m + 1 <= k * d PROVE FALSE
    BY <1>1, <1>2
  <2>2. (m + 1) * parts <= (k * d) * parts
    BY <2>1, <1>1, <1>2
  <2>3. (k * d) * parts = (k * parts) * d
    BY <1>1, <1>2
  <2>4. (k * parts) * d <= td
    BY <1>1, <1>2
  <2>5. (m + 1) * parts = mp + parts
    BY <1>1
  <2> DEFINE x == (k * d) * parts
  <2>7. x \in Nat
    BY <1>1, <1>2
  <2> HIDE DEF mp, td, x
  <2>6. mp + parts <= td
    BY <2>2, <2>3, <2>4, <2>5, <2>7, <1>3 DEF x
  <2> QED  BY <2>6, <1>3, <1>4
<1>6. m < (k + 1) * d
  <2>1. CASE totalCents = 0
    <3>1. td = 0
      BY <2>1, <1>1
    <3>2. m = 0
      BY <3>1, <1>1, <1>4
    <3>3. (k + 1) * d \in Nat \ {0}
      BY <1>1, <1>2
    <3> QED  BY <3>2, <3>3
  <2>2. CASE totalCents # 0
    <3>1. parts < 2 * d
      <4>1. SUFFICES ASSUME 2 * d <= parts PROVE FALSE
        BY <1>1
      <4>2. (2 * d) * totalCents <= parts * totalCents
        BY <4>1, <1>1
      <4>3. parts * totalCents < parts * Significands
        BY NumberAssumption
      <4>4. Significands * parts <= (2 * d) * totalCents
        BY <1>1, <2>2
      <4>5. parts * Significands = Significands * parts
        BY NumberAssumption
      <4> DEFINE x == (2 * d) * totalCents
                 y == parts * totalCents
                 z == Significands * parts
      <4>6. x \in Nat /\ y \in Nat /\ z \in Nat
        BY <1>1, NumberAssumption
      <4> HIDE DEF x, y, z
      <4> QED  BY <4>2, <4>3, <4>4, <4>5, <4>6 DEF x, y, z
    <3>2. SUFFICES ASSUME (k + 1) * d <= m PROVE FALSE
      BY <1>1, <1>2
    <3>3. ((k + 1) * d) * parts <= mp
      BY <3>2, <1>1, <1>2
    <3>4. ((k + 1) * d) * parts = ((k + 1) * parts) * d
      BY <1>1, <1>2
    <3>5. totalCents + 1 <= (k + 1) * parts
      BY <1>2
    <3>6. (totalCents + 1) * d <= ((k + 1) * parts) * d
      BY <3>5, <1>1, <1>2
    <3>7. (totalCents + 1) * d = td + d
      BY <1>1
    <3> DEFINE x == ((k + 1) * d) * parts
    <3>9. x \in Nat
      BY <1>1, <1>2
    <3> HIDE DEF mp, td, x
    <3>8. td + d <= mp
      BY <3>3, <3>4, <3>6, <3>7, <3>9, <1>1, <1>3 DEF x
    <3> QED  BY <3>1, <3>8, <1>1, <1>3, <1>4
  <2> QED  BY <2>1, <2>2
<1>7. m \div d = k
  BY <1>1, <1>2, <1>5, <1>6, DivisionIsUnique
<1> QED  BY <1>7 DEF Floor, m, d, k

LEMMA FirstShares ==
    ASSUME NEW parts \in Nat, NEW leftover \in Nat, leftover <= parts
    PROVE  Cardinality({i \in 1 .. parts : i <= leftover}) = leftover
<1>1. {i \in 1 .. parts : i <= leftover} = 1 .. leftover
  OBVIOUS
<1>2. Cardinality(1 .. leftover) = leftover
  BY FS_Interval
<1> QED  BY <1>1, <1>2

\* For every amount below 2^53 and every number of parts the shares add up to the amount, and no two
\* of them are more than a cent apart (split-amount.ts).
THEOREM SplitsAreExact ==
    ASSUME NEW totalCents \in Nat, NEW parts \in Nat \ {0}, totalCents < Significands,
           NEW shares \in splitAmount(totalCents, parts)
    PROVE  IsFairSplit(shares, totalCents, parts)
<1> DEFINE share == totalCents \div parts
           leftover == totalCents - share * parts
<1>1. PICK quotient \in Quotients(totalCents, parts) :
          shares = Shares(totalCents, parts, Floor(quotient))
  BY DEF splitAmount, Accepts
<1>2. shares = Shares(totalCents, parts, share)
  BY <1>1, FloorIsExact
<1>3. share \in Nat /\ leftover \in 0 .. parts - 1
  <2>1. share \in Nat /\ share * parts <= totalCents /\ totalCents <= share * parts + parts - 1
    BY Division
  <2> HIDE DEF share
  <2> QED  BY <2>1
<1> HIDE DEF share
<1>4. /\ DOMAIN shares = 1 .. parts
      /\ \A i \in 1 .. parts : shares[i] = share + IF i <= leftover THEN 1 ELSE 0
  BY <1>2 DEF Shares, Leftover
<1> HIDE DEF leftover
<1>5. \A i \in 1 .. parts : shares[i] = IF i <= leftover THEN share + 1 ELSE share
  BY <1>3, <1>4
<1>6. {i \in 1 .. parts : shares[i] = share + 1} = {i \in 1 .. parts : i <= leftover}
  BY <1>3, <1>5
<1>7. Cardinality({i \in 1 .. parts : shares[i] = share + 1}) = leftover
  BY <1>3, <1>6, FirstShares
<1> QED  BY <1>3, <1>4, <1>5, <1>7 DEF IsFairSplit, share, leftover

-----------------------------------------------------------------------------
(***************************************************************************)
(* The request handlers.  AnswersFit is not inductive: the answer depends  *)
(* on what the middlewares had seen before the handler's await, and on the *)
(* row it saved.  Good says what a request carries at each of its awaits.  *)
(***************************************************************************)
IsAdmin(user) == user # Nobody /\ "admin" \in user.roles

Good(request, rows) ==
    /\ request.pc \in {"save", "saved"} =>
          request.route = "postHall" /\ request.body = "parsed" /\ IsAdmin(request.user)
    /\ request.pc = "list" => request.route = "getBookings" /\ MayRead(request.user, request.text.reads)
    /\ request.pc = "fetch" => request.route = "getMember"
    /\ request.pc = "json" => request.route = "getMember" /\ request.text.reads \in Members
    /\ request.pc = "saved" => request.hall # None
    /\ request.hall # None =>
          /\ request.pc \in {"saved", "done", "closed"}
          /\ request.hall \in DOMAIN rows
          /\ rows[request.hall] = [by |-> request.user, body |-> request.body]
    /\ request.pc = "done" => Fits(request, rows)

IInv ==
    /\ TypeOK
    /\ HallsAreValid
    /\ \A r \in Requests : Good(requests[r], halls)

LEMMA TextReads ==
    ASSUME NEW text \in Text \cup {NoText}
    PROVE  text.reads \in Nat \cup {NaN}
<1>1. CASE text \in Text
  <2>1. text \in [digits: BOOLEAN, reads: Ids \cup {NaN}]
    BY <1>1 DEF Text
  <2>2. text.reads \in Ids \cup {NaN}
    BY <2>1
  <2> QED  BY <2>2, RequestAssumption
<1>2. CASE text = NoText
  BY <1>2 DEF NoText
<1> QED  BY <1>1, <1>2

LEMMA IdleIsGood ==
    /\ Idle \in Request
    /\ \A rows : Good(Idle, rows)
<1>1. Idle \in Request
  BY DEF Idle, Request, Routes, Users, Bodies, None, Statuses
<1>2. \A rows : Good(Idle, rows)
  BY DEF Idle, Good, None
<1> QED  BY <1>1, <1>2

LEMMA InitiallyGood == Init => IInv
<1> SUFFICES ASSUME Init PROVE IInv
  OBVIOUS
<1>1. TypeOK
  BY IdleIsGood DEF Init, TypeOK
<1>2. HallsAreValid
  BY DEF Init, HallsAreValid
<1>3. \A r \in Requests : Good(requests[r], halls)
  BY IdleIsGood DEF Init
<1> QED  BY <1>1, <1>2, <1>3 DEF IInv

\* A step that changes one request, and no hall.
LEMMA OneRequest ==
    ASSUME IInv, NEW r \in Requests, NEW request \in Request,
           requests' = [requests EXCEPT ![r] = request],
           Good(request, halls), halls' = halls, up' \in SUBSET Processes
    PROVE  IInv'
<1>1. TypeOK'
  BY DEF IInv, TypeOK
<1>2. HallsAreValid'
  BY DEF IInv, HallsAreValid
<1>3. ASSUME NEW other \in Requests PROVE Good(requests'[other], halls')
  <2>1. requests'[other] = IF other = r THEN request ELSE requests[other]
    BY DEF IInv, TypeOK
  <2>2. Good(requests[other], halls)
    BY DEF IInv
  <2> QED  BY <2>1, <2>2
<1> QED  BY <1>1, <1>2, <1>3 DEF IInv

\* The middlewares answer, or the handler starts: what a request carries to its first await.
LEMMA BeginsKeeps ==
    ASSUME IInv, NEW r \in Requests, NEW call \in Request, NEW status \in Statuses \cup {None},
           NEW pc \in {"save", "list", "fetch"}, Begins(r, call, status, pc),
           call.hall = None, status \notin {200, 201, 404},
           status = None => Good([call EXCEPT !.pc = pc], halls)
    PROVE  IInv'
<1>1. halls' = halls /\ up' \in SUBSET Processes
  BY DEF Begins, IInv, TypeOK
<1>2. CASE status = None
  <2> DEFINE begun == [call EXCEPT !.pc = pc]
  <2>1. begun \in Request
    BY SMT DEF Request
  <2>2. requests' = [requests EXCEPT ![r] = begun]
    BY <1>2, Zenon DEF Begins
  <2>3. Good(begun, halls)
    BY <1>2
  <2> HIDE DEF begun
  <2> QED  BY <1>1, <2>1, <2>2, <2>3, OneRequest
<1>3. CASE status # None
  <2> DEFINE answered == [call EXCEPT !.pc = "done", !.status = status]
  <2>1. answered \in Request
    <3> DEFINE ended == [call EXCEPT !.pc = "done"]
    <3>1. ended \in Request
      BY SMT DEF Request
    <3>2. answered = [ended EXCEPT !.status = status]
      BY Zenon DEF Request
    <3> HIDE DEF ended, answered
    <3> QED
      BY <3>1, <3>2, SMT DEF Request
  <2>2. answered.pc = "done" /\ answered.status = status /\ answered.hall = None
    BY DEF Request
  <2>3. requests' = [requests EXCEPT ![r] = answered]
    BY <1>3 DEF Begins
  <2> HIDE DEF answered
  <2>4. Good(answered, halls)
    BY <2>2 DEF Good, Fits
  <2> QED  BY <1>1, <2>1, <2>3, <2>4, OneRequest
<1> QED  BY <1>2, <1>3

LEMMA AdminRole ==
    ASSUME NEW user, RequireRole(user, {"admin"}) = None
    PROVE  IsAdmin(user)
BY DEF RequireRole, HasOneOf, IsAdmin, None

LEMMA PostHallKeeps ==
    ASSUME IInv, NEW r \in Requests, NEW user \in Users, NEW body \in {"bad", "sent"},
           PostHall(r, user, body)
    PROVE  IInv'
<1> DEFINE role   == RequireRole(user, {"admin"})
           status == IF role = None THEN ValidateBody(body) ELSE role
           parsed == IF status = None THEN "parsed" ELSE body
           call   == [Idle EXCEPT !.route = "postHall", !.user = user, !.body = parsed]
<1>1. Begins(r, call, status, "save")
  BY DEF PostHall
<1>2. status \in {None, 400, 401, 403}
  BY DEF RequireRole, ValidateBody
<1>3. parsed \in Bodies
  BY DEF Bodies
<1>4. status = None => IsAdmin(user) /\ parsed = "parsed"
  BY AdminRole
<1> HIDE DEF status, parsed
<1>5. /\ call \in Request /\ call.hall = None
      /\ call.user = user /\ call.route = "postHall" /\ call.body = parsed
  BY <1>3, IdleIsGood DEF Request, Routes, Idle
<1> HIDE DEF call
<1>6. status = None => Good([call EXCEPT !.pc = "save"], halls)
  BY <1>4, <1>5 DEF Good, Request
<1>7. status \in Statuses \cup {None} /\ status \notin {200, 201, 404}
  BY <1>2 DEF Statuses, None
<1> QED  BY <1>1, <1>5, <1>6, <1>7, BeginsKeeps

LEMMA GetBookingsKeeps ==
    ASSUME IInv, NEW r \in Requests, NEW user \in Users, NEW text \in Text,
           GetBookings(r, user, text)
    PROVE  IInv'
<1> DEFINE status == RequireSelfOrRole(user, text, {"admin"})
           call   == [Idle EXCEPT !.route = "getBookings", !.user = user, !.text = text]
<1>1. Begins(r, call, status, "list")
  BY DEF GetBookings
<1>2. status \in {None, 401, 403}
  BY DEF RequireSelfOrRole
<1>3. status = None => MayRead(user, text.reads)
  BY DEF RequireSelfOrRole, MayRead, HasOneOf, None
<1> HIDE DEF status
<1>4. /\ call \in Request /\ call.hall = None
      /\ call.user = user /\ call.route = "getBookings" /\ call.text = text
  BY IdleIsGood DEF Request, Routes, Idle
<1> HIDE DEF call
<1>5. status = None => Good([call EXCEPT !.pc = "list"], halls)
  BY <1>3, <1>4 DEF Good, Request
<1>6. status \in Statuses \cup {None} /\ status \notin {200, 201, 404}
  BY <1>2 DEF Statuses, None
<1> QED  BY <1>1, <1>4, <1>5, <1>6, BeginsKeeps

LEMMA GetMemberKeeps ==
    ASSUME IInv, NEW r \in Requests, NEW user \in Users, NEW text \in Text,
           GetMember(r, user, text)
    PROVE  IInv'
<1> DEFINE status == IF ~ text.digits THEN 400 ELSE IF user = Nobody THEN 401 ELSE None
           call   == [Idle EXCEPT !.route = "getMember", !.user = user, !.text = text]
<1>1. Begins(r, call, status, "fetch")
  BY DEF GetMember
<1>2. status \in {None, 400, 401}
  OBVIOUS
<1> HIDE DEF status
<1>3. call \in Request /\ call.hall = None /\ call.route = "getMember"
  BY IdleIsGood DEF Request, Routes, Idle
<1> HIDE DEF call
<1>4. Good([call EXCEPT !.pc = "fetch"], halls)
  BY <1>3 DEF Good, Request
<1>5. status \in Statuses \cup {None} /\ status \notin {200, 201, 404}
  BY <1>2 DEF Statuses, None
<1> QED  BY <1>1, <1>3, <1>4, <1>5, BeginsKeeps

\* A handler answers: what becomes of its request.
WithAnswer(request, status, about) ==
    [request EXCEPT !.pc = "done", !.status = status, !.about = about]

LEMMA AnswerKeeps ==
    ASSUME IInv, NEW r \in Requests, NEW status \in Statuses, NEW about \in Nat \cup {NaN},
           Answer(r, status, about), UNCHANGED <<halls, up>>, 
           NEW answered, answered = WithAnswer(requests[r], status, about),
           Fits(answered, halls)
    PROVE  IInv'
<1>1. requests[r] \in Request
  BY DEF IInv, TypeOK
<1>2. answered \in Request
  BY <1>1 DEF Request, WithAnswer
<1>3. /\ answered.pc = "done" /\ answered.hall = requests[r].hall
      /\ answered.user = requests[r].user /\ answered.body = requests[r].body
  BY <1>1 DEF Request, WithAnswer
<1>4. requests' = [requests EXCEPT ![r] = answered]
  BY DEF Answer, WithAnswer
<1>5. Good(requests[r], halls)
  BY DEF IInv
<1>6. Good(answered, halls)
  BY <1>3, <1>5 DEF Good
<1>7. halls' = halls /\ up' \in SUBSET Processes
  BY DEF IInv, TypeOK
<1> QED  BY <1>2, <1>4, <1>6, <1>7, OneRequest

\* The fields of an answered request.
LEMMA Answered ==
    ASSUME NEW request \in Request, NEW status, NEW about
    PROVE  LET answered == WithAnswer(request, status, about)
           IN  /\ answered.status = status /\ answered.about = about
               /\ answered.hall = request.hall /\ answered.user = request.user
               /\ answered.body = request.body /\ answered.route = request.route
BY DEF Request, WithAnswer

LEMMA AnswerHallKeeps ==
    ASSUME IInv, NEW r \in Requests, AnswerHall(r)
    PROVE  IInv'
<1> DEFINE hall     == requests[r].hall
           answered == WithAnswer(requests[r], 201, hall)
<1>1. requests[r] \in Request /\ Good(requests[r], halls)
  BY DEF IInv, TypeOK
<1>2. hall \in Nat
  BY <1>1 DEF Request
<1>3. /\ hall # None /\ hall \in DOMAIN halls
      /\ halls[hall] = [by |-> requests[r].user, body |-> requests[r].body]
  BY <1>1 DEF AnswerHall, Good
<1>4. /\ answered.status = 201 /\ answered.about = hall /\ answered.hall = hall
      /\ answered.user = requests[r].user /\ answered.body = requests[r].body
  BY <1>1, Answered
<1> HIDE DEF answered
<1>5. Fits(answered, halls)
  BY <1>3, <1>4 DEF Fits
<1>6. 201 \in Statuses
  BY DEF Statuses
<1> QED  BY <1>2, <1>5, <1>6, AnswerKeeps DEF AnswerHall, answered

LEMMA ListBookingsKeeps ==
    ASSUME IInv, NEW r \in Requests, ListBookings(r)
    PROVE  IInv'
<1> DEFINE reads    == requests[r].text.reads
           answered == WithAnswer(requests[r], 200, reads)
<1>1. requests[r] \in Request /\ Good(requests[r], halls)
  BY DEF IInv, TypeOK
<1>2. reads \in Nat \cup {NaN}
  <2>1. requests[r].text \in Text \cup {NoText}
    BY <1>1 DEF Request
  <2> QED  BY <2>1, TextReads
<1>3. /\ requests[r].route = "getBookings" /\ MayRead(requests[r].user, reads)
      /\ requests[r].hall = None
  BY <1>1 DEF ListBookings, Good
<1>4. /\ answered.status = 200 /\ answered.about = reads /\ answered.hall = requests[r].hall
      /\ answered.user = requests[r].user /\ answered.route = requests[r].route
  BY <1>1, Answered
<1> HIDE DEF answered
<1>5. Fits(answered, halls)
  BY <1>3, <1>4 DEF Fits
<1>6. 200 \in Statuses
  BY DEF Statuses
<1>7. answered = WithAnswer(requests[r], 200, reads)
  BY DEF answered
<1>8. Answer(r, 200, reads) /\ UNCHANGED <<halls, up>>
  BY DEF ListBookings
<1> HIDE DEF reads
<1> QED  BY <1>2, <1>5, <1>6, <1>7, <1>8, AnswerKeeps

\* A row more takes nothing from what other requests carry.
LEMMA GoodBesideMore ==
    ASSUME NEW request, NEW rows \in Seq([by: Users, body: Bodies]), NEW row,
           Good(request, rows)
    PROVE  Good(request, Append(rows, row))
<1>1. /\ DOMAIN rows \subseteq DOMAIN Append(rows, row)
      /\ \A h \in DOMAIN rows : Append(rows, row)[h] = rows[h]
  OBVIOUS
<1> QED  BY <1>1 DEF Good, Fits

LEMMA SaveHallKeeps ==
    ASSUME IInv, NEW r \in Requests, SaveHall(r)
    PROVE  IInv'
<1> DEFINE row   == [by |-> requests[r].user, body |-> requests[r].body]
           hall  == Len(halls) + 1
           saved == [requests[r] EXCEPT !.pc = "saved", !.hall = hall]
<1>1. requests[r] \in Request /\ Good(requests[r], halls) /\ halls \in Seq([by: Users, body: Bodies])
  BY DEF IInv, TypeOK
<1>2. /\ requests[r].pc = "save" /\ halls' = Append(halls, row)
      /\ requests' = [requests EXCEPT ![r] = saved] /\ up' = up
  BY DEF SaveHall
<1>3. /\ requests[r].route = "postHall" /\ requests[r].body = "parsed" /\ IsAdmin(requests[r].user)
  BY <1>1, <1>2 DEF Good
<1>4. row \in [by: Users, body: Bodies]
  BY <1>1 DEF Request
<1>5. row.body = "parsed" /\ row.by # Nobody /\ "admin" \in row.by.roles
  BY <1>3 DEF IsAdmin
<1>6. /\ saved.pc = "saved" /\ saved.hall = hall /\ saved.route = requests[r].route
      /\ saved.user = requests[r].user /\ saved.body = requests[r].body
  BY <1>1 DEF Request
<1>7. hall \in Nat \ {0}
  BY <1>1
<1>8. saved \in Request
  BY <1>1, <1>7 DEF Request
<1>9. halls' \in Seq([by: Users, body: Bodies]) /\ hall \in DOMAIN halls' /\ halls'[hall] = row
  <2> HIDE DEF row
  <2> QED  BY <1>1, <1>2, <1>4
<1>10. TypeOK'
  BY <1>2, <1>8, <1>9 DEF IInv, TypeOK
<1>11. HallsAreValid'
  <2> HIDE DEF row
  <2>1. \A h \in DOMAIN halls' : (h \in DOMAIN halls /\ halls'[h] = halls[h]) \/ halls'[h] = row
    BY <1>1, <1>2, <1>4
  <2>2. ASSUME NEW h \in DOMAIN halls'
        PROVE  halls'[h].body = "parsed" /\ halls'[h].by # Nobody /\ "admin" \in halls'[h].by.roles
    <3>1. CASE h \in DOMAIN halls /\ halls'[h] = halls[h]
      BY <3>1 DEF IInv, HallsAreValid
    <3>2. CASE halls'[h] = row
      BY <3>2, <1>5
    <3> QED  BY <2>1, <3>1, <3>2
  <2> QED  BY <2>2 DEF HallsAreValid
<1>12. ASSUME NEW other \in Requests PROVE Good(requests'[other], halls')
  <2>1. CASE other = r
    <3>1. requests'[other] = saved
      BY <1>2, <2>1 DEF IInv, TypeOK
    <3>2. halls'[hall] = [by |-> saved.user, body |-> saved.body]
      BY <1>6, <1>9
    <3> HIDE DEF saved, hall
    <3>3. Good(saved, halls')
      BY <1>3, <1>6, <1>7, <1>9, <3>2 DEF Good, None
    <3> QED  BY <3>1, <3>3
  <2>2. CASE other # r
    <3>1. requests'[other] = requests[other] /\ Good(requests[other], halls)
      BY <1>2, <2>2 DEF IInv, TypeOK
    <3> HIDE DEF row
    <3> QED  BY <3>1, <1>1, <1>2, GoodBesideMore
  <2> QED  BY <2>1, <2>2
<1> QED  BY <1>10, <1>11, <1>12 DEF IInv

LEMMA RejectKeeps ==
    ASSUME IInv, NEW r \in Requests, Reject(r)
    PROVE  IInv'
<1>1. ASSUME NEW other \in Requests
      PROVE  requests'[other] \in Request /\ Good(requests'[other], halls)
  <2> DEFINE closed == [requests[other] EXCEPT !.pc = "closed"]
  <2>1. requests[other] \in Request /\ Good(requests[other], halls)
    BY DEF IInv, TypeOK
  <2>2. requests'[other] \in {closed, requests[other]}
    BY DEF Reject
  <2>3. /\ closed \in Request /\ closed.pc = "closed" /\ closed.hall = requests[other].hall
        /\ closed.user = requests[other].user /\ closed.body = requests[other].body
    BY <2>1 DEF Request
  <2> HIDE DEF closed
  <2>4. Good(closed, halls)
    BY <2>1, <2>3 DEF Good
  <2> QED  BY <2>1, <2>2, <2>3, <2>4
<1>2. halls' = halls /\ up' \in SUBSET Processes /\ requests' = [other \in Requests |-> requests'[other]]
  BY DEF Reject, IInv, TypeOK
<1>3. TypeOK'
  <2>1. requests' \in [Requests -> Request]
    BY <1>1, <1>2
  <2> QED  BY <1>2, <2>1 DEF IInv, TypeOK
<1>4. HallsAreValid'
  BY <1>2 DEF IInv, HallsAreValid
<1>5. \A other \in Requests : Good(requests'[other], halls')
  BY <1>1, <1>2
<1> QED  BY <1>3, <1>4, <1>5 DEF IInv

\* What the members app answers: its request has saved no hall.
LEMMA MembersAnswerKeeps ==
    ASSUME IInv, NEW r \in Requests, requests[r].pc \in {"fetch", "json"},
           NEW status \in {200, 404, 502}, NEW about \in Nat \cup {NaN},
           status = 200 => about \in Members, status = 404 => about \notin Members,
           Answer(r, status, about), UNCHANGED <<halls, up>>
    PROVE  IInv'
<1> DEFINE answered == WithAnswer(requests[r], status, about)
<1>1. requests[r] \in Request /\ Good(requests[r], halls)
  BY DEF IInv, TypeOK
<1>2. requests[r].route = "getMember" /\ requests[r].hall = None
  BY <1>1 DEF Good
<1>3. /\ answered.status = status /\ answered.about = about
      /\ answered.hall = requests[r].hall /\ answered.route = requests[r].route
  BY <1>1, Answered
<1>4. answered = WithAnswer(requests[r], status, about)
  OBVIOUS
<1> HIDE DEF answered
<1>5. Fits(answered, halls)
  BY <1>2, <1>3 DEF Fits
<1>6. status \in Statuses
  BY DEF Statuses
<1> QED  BY <1>4, <1>5, <1>6, AnswerKeeps

LEMMA FailureAnswerKeeps ==
    ASSUME IInv, NEW r \in Requests, requests[r].pc \in {"fetch", "json"},
           Answer(r, 502, NaN), UNCHANGED <<halls, up>>
    PROVE  IInv'
<1> DEFINE status == 502
           about  == NaN
<1>1. /\ status \in {200, 404, 502} /\ about \in Nat \cup {NaN}
      /\ status = 200 => about \in Members
      /\ status = 404 => about \notin Members
      /\ Answer(r, status, about)
  OBVIOUS
<1> HIDE DEF status, about
<1> QED  BY <1>1, MembersAnswerKeeps

LEMMA MemberReads ==
    ASSUME IInv, NEW r \in Requests
    PROVE  requests[r].text.reads \in Nat \cup {NaN}
<1>1. requests[r].text \in Text \cup {NoText}
  <2>1. requests[r] \in Request
    BY DEF IInv, TypeOK
  <2> QED  BY <2>1 DEF Request
<1> QED  BY <1>1, TextReads

LEMMA FetchKeeps ==
    ASSUME IInv, NEW r \in Requests, NEW upstream \in {200, 401, 404, 500}, Fetch(r, upstream)
    PROVE  IInv'
<1> DEFINE reads == requests[r].text.reads
<1>1. requests[r].pc = "fetch" /\ UNCHANGED <<halls, up>>
  BY DEF Fetch
<1>2. upstream = 200 => reads \in Members
  BY DEF Fetch, FindOne
<1>3. upstream = 404 => reads \notin Members
  BY DEF Fetch, FindOne
<1>4. CASE upstream = 200 /\ requests' = [requests EXCEPT ![r].pc = "json"]
  <2> DEFINE next == [requests[r] EXCEPT !.pc = "json"]
  <2>1. requests[r] \in Request /\ Good(requests[r], halls)
    BY DEF IInv, TypeOK
  <2>2. requests[r].route = "getMember" /\ requests[r].hall = None
    BY <1>1, <2>1 DEF Good
  <2>3. /\ next \in Request /\ next.pc = "json" /\ next.hall = requests[r].hall
        /\ next.route = requests[r].route /\ next.text = requests[r].text
    BY <2>1 DEF Request
  <2>4. requests' = [requests EXCEPT ![r] = next]
    BY <1>4
  <2> HIDE DEF next
  <2>5. Good(next, halls)
    BY <1>2, <1>4, <2>2, <2>3 DEF Good
  <2>6. halls' = halls /\ up' \in SUBSET Processes
    BY <1>1 DEF IInv, TypeOK
  <2> QED  BY <2>3, <2>4, <2>5, <2>6, OneRequest
<1>5. CASE upstream = 404 /\ Answer(r, 404, reads)
  <2>1. reads \in Nat \cup {NaN}
    BY MemberReads
  <2>2. /\ 404 = 200 => reads \in Members
        /\ 404 = 404 => reads \notin Members
    BY <1>3, <1>5
  <2> HIDE DEF reads
  <2> QED  BY <1>1, <1>5, <2>1, <2>2, MembersAnswerKeeps
<1>6. CASE upstream \notin {200, 404} /\ Answer(r, 502, NaN)
  <2> QED  BY <1>1, <1>6, FailureAnswerKeeps
<1> QED  BY <1>4, <1>5, <1>6 DEF Fetch

LEMMA ReadMemberKeeps ==
    ASSUME IInv, NEW r \in Requests, ReadMember(r)
    PROVE  IInv'
<1>1. requests[r].pc = "json" /\ Answer(r, 200, requests[r].text.reads) /\ UNCHANGED <<halls, up>>
  BY DEF ReadMember
<1>2. requests[r].text.reads \in Members
  BY <1>1 DEF IInv, Good
<1> DEFINE status == 200
           reads  == requests[r].text.reads
<1>3. /\ status \in {200, 404, 502} /\ reads \in Nat \cup {NaN}
      /\ status = 200 => reads \in Members
      /\ status = 404 => reads \notin Members
      /\ Answer(r, status, reads)
  BY <1>1, <1>2, MemberReads
<1> HIDE DEF status, reads
<1> QED  BY <1>1, <1>3, MembersAnswerKeeps

LEMMA CatchAllKeeps ==
    ASSUME IInv, NEW r \in Requests, CatchAll(r)
    PROVE  IInv'
BY FailureAnswerKeeps DEF CatchAll

LEMMA LeaveKeeps ==
    ASSUME IInv, NEW r \in Requests, Leave(r)
    PROVE  IInv'
<1>1. requests' = [requests EXCEPT ![r] = Idle] /\ halls' = halls /\ up' \in SUBSET Processes
  BY DEF Leave, IInv, TypeOK
<1> QED  BY <1>1, IdleIsGood, OneRequest

LEMMA StepKeeps == IInv /\ [Next]_vars => IInv'
<1> SUFFICES ASSUME IInv, [Next]_vars PROVE IInv'
  OBVIOUS
<1>1. ASSUME NEW r \in Requests, NEW user \in Users, NEW body \in {"bad", "sent"}, PostHall(r, user, body)
      PROVE  IInv'
  BY <1>1, PostHallKeeps
<1>2. ASSUME NEW r \in Requests, NEW user \in Users, NEW text \in Text,
             GetBookings(r, user, text) \/ GetMember(r, user, text)
      PROVE  IInv'
  BY <1>2, GetBookingsKeeps, GetMemberKeeps
<1>3. ASSUME NEW r \in Requests, SaveHall(r) \/ AnswerHall(r) \/ ListBookings(r) \/ Reject(r)
      PROVE  IInv'
  BY <1>3, SaveHallKeeps, AnswerHallKeeps, ListBookingsKeeps, RejectKeeps
<1>4. ASSUME NEW r \in Requests, NEW upstream \in {200, 401, 404, 500}, Fetch(r, upstream)
      PROVE  IInv'
  BY <1>4, FetchKeeps
<1>5. ASSUME NEW r \in Requests, ReadMember(r) \/ CatchAll(r) \/ Leave(r)
      PROVE  IInv'
  BY <1>5, ReadMemberKeeps, CatchAllKeeps, LeaveKeeps
<1>6. CASE Restart
  BY <1>6 DEF Restart, IInv, TypeOK, HallsAreValid
<1>7. CASE UNCHANGED vars
  BY <1>7 DEF vars, IInv, TypeOK, HallsAreValid
<1> QED  BY <1>1, <1>2, <1>3, <1>4, <1>5, <1>6, <1>7 DEF Next, Arrive, Resume

LEMMA AlwaysGood == Spec => []IInv
<1>1. Init => IInv
  BY InitiallyGood
<1>2. IInv /\ [Next]_vars => IInv'
  BY StepKeeps
<1> QED  BY <1>1, <1>2, PTL DEF Spec

\* The types of the requests and of the halls.
THEOREM TypeCorrect == Spec => []TypeOK
<1>1. IInv => TypeOK
  BY DEF IInv
<1> QED  BY <1>1, AlwaysGood, PTL

\* Every row of the table of halls is an admin's body that zod had parsed (halls.routes.ts:13,
\* auth.middleware.ts:52), whatever was rejected, restarted or in progress beside it.
THEOREM HallsStayValid == Spec => []HallsAreValid
<1>1. IInv => HallsAreValid
  BY DEF IInv
<1> QED  BY <1>1, AlwaysGood, PTL

\* Every answer fits what became of its request, for any number of requests, users and members.
THEOREM AnswersAlwaysFit == Spec => []AnswersFit
<1>1. IInv => AnswersFit
  BY DEF IInv, Good, AnswersFit
<1> QED  BY <1>1, AlwaysGood, PTL

-----------------------------------------------------------------------------
(***************************************************************************)
(* Sums and ordered lists.  The rank of a row, how many rows come before   *)
(* it, tells the rows of a list apart and takes each value below their     *)
(* number; so a bijection that keeps the order keeps sums and lists.       *)
(***************************************************************************)
Before(rows, key, x) == {y \in rows : key[y] < key[x]}

LEMMA RankBound ==
    ASSUME NEW rows, IsFiniteSet(rows), NEW key \in [rows -> Int], NEW x \in rows
    PROVE  /\ IsFiniteSet(Before(rows, key, x))
           /\ Cardinality(Before(rows, key, x)) \in 0 .. Cardinality(rows) - 1
<1>1. Before(rows, key, x) \in SUBSET rows /\ x \notin Before(rows, key, x)
  BY DEF Before
<1>2. /\ IsFiniteSet(Before(rows, key, x))
      /\ Cardinality(Before(rows, key, x)) <= Cardinality(rows)
      /\ Cardinality(rows) # Cardinality(Before(rows, key, x))
  BY <1>1, FS_Subset
<1>3. Cardinality(Before(rows, key, x)) \in Nat /\ Cardinality(rows) \in Nat
  BY <1>2, FS_CardinalityType
<1> QED
  BY <1>2, <1>3

LEMMA RankIsOwn ==
    ASSUME NEW rows, IsFiniteSet(rows), NEW key \in [rows -> Int],
           \A x, y \in rows : key[x] = key[y] => x = y,
           NEW x \in rows, NEW y \in rows,
           Cardinality(Before(rows, key, x)) = Cardinality(Before(rows, key, y))
    PROVE  x = y
<1>1. ASSUME NEW one \in rows, NEW other \in rows, key[one] < key[other]
      PROVE  Cardinality(Before(rows, key, one)) # Cardinality(Before(rows, key, other))
  <2>1. Before(rows, key, one) \in SUBSET Before(rows, key, other)
    BY <1>1 DEF Before
  <2>2. one \in Before(rows, key, other) /\ one \notin Before(rows, key, one)
    BY <1>1 DEF Before
  <2>3. IsFiniteSet(Before(rows, key, other))
    BY RankBound
  <2> QED
    BY <2>1, <2>2, <2>3, FS_Subset
<1>2. ~ (key[x] < key[y]) /\ ~ (key[y] < key[x])
  BY <1>1
<1>3. key[x] \in Int /\ key[y] \in Int
  OBVIOUS
<1> QED
  BY <1>2, <1>3

LEMMA EachRankTaken ==
    ASSUME NEW rows, IsFiniteSet(rows), NEW key \in [rows -> Int],
           \A x, y \in rows : key[x] = key[y] => x = y,
           NEW k \in 1 .. Cardinality(rows)
    PROVE  \E x \in rows : Cardinality(Before(rows, key, x)) = k - 1
<1> DEFINE Ranks == 0 .. Cardinality(rows) - 1
           rank  == [x \in rows |-> Cardinality(Before(rows, key, x))]
<1>1. Cardinality(rows) \in Nat
  BY FS_CardinalityType
<1>2. IsFiniteSet(Ranks) /\ Cardinality(Ranks) = Cardinality(rows)
  <2>1. 0 \in Int /\ Cardinality(rows) - 1 \in Int
    BY <1>1
  <2>2. /\ IsFiniteSet(Ranks)
        /\ Cardinality(Ranks) = IF 0 > Cardinality(rows) - 1 THEN 0 ELSE (Cardinality(rows) - 1) - 0 + 1
    BY <2>1, FS_Interval
  <2> QED
    BY <1>1, <2>2
<1>3. rank \in [rows -> Ranks]
  BY RankBound
<1>4. \A x, y \in rows : rank[x] = rank[y] => x = y
  BY RankIsOwn
<1>5. rank \in Injection(rows, Ranks)
  BY <1>3, <1>4 DEF Injection, IsInjective
<1>6. rank \in Surjection(rows, Ranks)
  BY <1>2, <1>5, FS_Injection
<1>7. k - 1 \in Ranks
  BY <1>1
<1>8. \E x \in rows : rank[x] = k - 1
  BY <1>6, <1>7 DEF Surjection
<1> QED
  BY <1>8

LEMMA OrderedRows ==
    ASSUME NEW rows, IsFiniteSet(rows), NEW key \in [rows -> Int],
           \A x, y \in rows : key[x] = key[y] => x = y
    PROVE  /\ OrderedBy(rows, key) \in [1 .. Cardinality(rows) -> rows]
           /\ \A k \in 1 .. Cardinality(rows) :
                 /\ OrderedBy(rows, key)[k] \in rows
                 /\ Cardinality(Before(rows, key, OrderedBy(rows, key)[k])) = k - 1
<1>1. \A k \in 1 .. Cardinality(rows) : \E x \in rows : Cardinality(Before(rows, key, x)) = k - 1
  BY EachRankTaken
<1>2. \A k \in 1 .. Cardinality(rows) :
        OrderedBy(rows, key)[k] = CHOOSE x \in rows : Cardinality(Before(rows, key, x)) = k - 1
  BY DEF OrderedBy, Before
<1>3. \A k \in 1 .. Cardinality(rows) :
        /\ OrderedBy(rows, key)[k] \in rows
        /\ Cardinality(Before(rows, key, OrderedBy(rows, key)[k])) = k - 1
  BY <1>1, <1>2
<1>4. OrderedBy(rows, key) \in [1 .. Cardinality(rows) -> rows]
  BY <1>1 DEF OrderedBy, Before
<1> QED
  BY <1>3, <1>4

\* f pairs the rows of one representation with those of the other, in the same order.
LEMMA SameOrder ==
    ASSUME NEW rows, IsFiniteSet(rows), NEW key \in [rows -> Int],
           NEW others, NEW otherKey \in [others -> Int],
           NEW f \in Bijection(rows, others),
           \A x, y \in rows : key[x] = key[y] => x = y,
           \A x, y \in rows : otherKey[f[x]] < otherKey[f[y]] <=> key[x] < key[y]
    PROVE  /\ OrderedBy(others, otherKey) \in [1 .. Cardinality(rows) -> others]
           /\ \A k \in 1 .. Cardinality(rows) : OrderedBy(others, otherKey)[k] = f[OrderedBy(rows, key)[k]]
<1>1. /\ f \in [rows -> others]
      /\ \A x, y \in rows : f[x] = f[y] => x = y
      /\ \A z \in others : \E x \in rows : f[x] = z
  BY DEF Bijection, Injection, Surjection, IsInjective
<1>2. IsFiniteSet(others) /\ Cardinality(others) = Cardinality(rows)
  BY FS_Bijection DEF ExistsBijection
<1>3. \A x, y \in others : otherKey[x] = otherKey[y] => x = y
  <2> SUFFICES ASSUME NEW x \in rows, NEW y \in rows, otherKey[f[x]] = otherKey[f[y]]
               PROVE  f[x] = f[y]
    BY <1>1
  <2>1. otherKey[f[x]] \in Int /\ otherKey[f[y]] \in Int /\ key[x] \in Int /\ key[y] \in Int
    BY <1>1
  <2>2. ~ (key[x] < key[y]) /\ ~ (key[y] < key[x])
    BY <2>1
  <2> QED
    BY <2>1, <2>2
<1>4. ASSUME NEW x \in rows
      PROVE  Cardinality(Before(others, otherKey, f[x])) = Cardinality(Before(rows, key, x))
  <2> DEFINE g == [y \in Before(rows, key, x) |-> f[y]]
  <2>1. \A y \in Before(rows, key, x) : g[y] \in Before(others, otherKey, f[x])
    BY <1>1 DEF Before
  <2>2. \A y, z \in Before(rows, key, x) : g[y] = g[z] => y = z
    BY <1>1 DEF Before
  <2>3. \A z \in Before(others, otherKey, f[x]) : \E y \in Before(rows, key, x) : g[y] = z
    BY <1>1 DEF Before
  <2>4. g \in Bijection(Before(rows, key, x), Before(others, otherKey, f[x]))
    BY <2>1, <2>2, <2>3 DEF Bijection, Injection, Surjection, IsInjective
  <2>5. IsFiniteSet(Before(rows, key, x))
    BY RankBound
  <2> QED
    BY <2>4, <2>5, FS_Bijection DEF ExistsBijection
<1>5. ASSUME NEW k \in 1 .. Cardinality(rows)
      PROVE  OrderedBy(others, otherKey)[k] = f[OrderedBy(rows, key)[k]]
  <2>1. /\ OrderedBy(rows, key)[k] \in rows
        /\ Cardinality(Before(rows, key, OrderedBy(rows, key)[k])) = k - 1
    BY OrderedRows
  <2>2. /\ OrderedBy(others, otherKey)[k] \in others
        /\ Cardinality(Before(others, otherKey, OrderedBy(others, otherKey)[k])) = k - 1
    BY <1>2, <1>3, OrderedRows
  <2>3. f[OrderedBy(rows, key)[k]] \in others
    BY <1>1, <2>1
  <2> QED
    BY <1>2, <1>3, <1>4, <2>1, <2>2, <2>3, RankIsOwn
<1>6. OrderedBy(others, otherKey) \in [1 .. Cardinality(rows) -> others]
  BY <1>2, <1>3, OrderedRows
<1> QED
  BY <1>5, <1>6

LEMMA SameSum ==
    ASSUME NEW rows, IsFiniteSet(rows), NEW amount, \A x \in rows : amount[x] \in Nat,
           NEW others, NEW otherAmount, NEW f \in Bijection(rows, others),
           \A x \in rows : otherAmount[f[x]] = amount[x]
    PROVE  SumOf(others, otherAmount) = SumOf(rows, amount)
<1>1. /\ f \in [rows -> others]
      /\ \A x, y \in rows : f[x] = f[y] => x = y
      /\ \A z \in others : \E x \in rows : f[x] = z
  BY DEF Bijection, Injection, Surjection, IsInjective
<1> DEFINE units      == UNION {{x} \X (1 .. amount[x]) : x \in rows}
           otherUnits == UNION {{x} \X (1 .. otherAmount[x]) : x \in others}
           g          == [unit \in units |-> <<f[unit[1]], unit[2]>>]
<1>2. \A unit \in units : unit = <<unit[1], unit[2]>> /\ unit[1] \in rows /\ unit[2] \in 1 .. amount[unit[1]]
  OBVIOUS
<1>3. \A x \in rows : \A i \in 1 .. amount[x] : <<x, i>> \in units
  OBVIOUS
<1>4. \A unit \in otherUnits :
        unit = <<unit[1], unit[2]>> /\ unit[1] \in others /\ unit[2] \in 1 .. otherAmount[unit[1]]
  OBVIOUS
<1>5. \A x \in others : \A i \in 1 .. otherAmount[x] : <<x, i>> \in otherUnits
  OBVIOUS
<1>6. IsFiniteSet(units)
  <2> DEFINE parts == {{x} \X (1 .. amount[x]) : x \in rows}
             part  == [x \in rows |-> {x} \X (1 .. amount[x])]
  <2>1. \A x \in rows : IsFiniteSet({x} \X (1 .. amount[x]))
    <3> SUFFICES ASSUME NEW x \in rows PROVE IsFiniteSet({x} \X (1 .. amount[x]))
      OBVIOUS
    <3>1. 1 \in Int /\ amount[x] \in Int
      OBVIOUS
    <3>2. IsFiniteSet({x}) /\ IsFiniteSet(1 .. amount[x])
      BY <3>1, FS_Singleton, FS_Interval
    <3> QED
      BY <3>2, FS_Product
  <2>2. part \in Surjection(rows, parts)
    BY DEF Surjection
  <2>3. IsFiniteSet(parts)
    BY <2>2, FS_Surjection
  <2> QED
    BY <2>1, <2>3, FS_UNION
<1> HIDE DEF units, otherUnits
<1>7. \A unit \in units : g[unit] \in otherUnits
  BY <1>1, <1>2, <1>5
<1>8. \A one, other \in units : g[one] = g[other] => one = other
  BY <1>1, <1>2
<1>9. \A z \in otherUnits : \E unit \in units : g[unit] = z
  <2> SUFFICES ASSUME NEW z \in otherUnits PROVE \E unit \in units : g[unit] = z
    OBVIOUS
  <2>1. z = <<z[1], z[2]>> /\ z[1] \in others /\ z[2] \in 1 .. otherAmount[z[1]]
    BY <1>4
  <2>2. PICK x \in rows : f[x] = z[1]
    BY <1>1, <2>1
  <2>3. <<x, z[2]>> \in units
    BY <1>3, <2>1, <2>2
  <2> QED
    BY <2>1, <2>2, <2>3
<1>10. g \in Bijection(units, otherUnits)
  BY <1>7, <1>8, <1>9 DEF Bijection, Injection, Surjection, IsInjective
<1>11. Cardinality(otherUnits) = Cardinality(units)
  BY <1>6, <1>10, FS_Bijection DEF ExistsBijection
<1> QED
  BY <1>11 DEF SumOf, units, otherUnits

-----------------------------------------------------------------------------
(***************************************************************************)
(* The two stores hold the same halls and bookings: the n-th row of the    *)
(* arrays and of given is one row of the tables, under the id that the     *)
(* tables answered.                                                        *)
(***************************************************************************)
Reminders == Times \cup {Never}

FakeHall    == [id: Nat, capacity: Capacities]
FakeBooking == [id: Nat, hallId: Nat, date: Dates, guests: Parties, bookedBy: Callers, reminded: Reminders]
HallIds     == [fake: Nat, real: Nat]
BookingIds  == [fake: Nat, real: Nat, sentAt: Reminders]

StoresTypeOK ==
    /\ fake \in [halls: Seq(FakeHall), bookings: Seq(FakeBooking)]
    /\ given \in [halls: Seq(HallIds), bookings: Seq(BookingIds)]
    /\ nextId \in [halls: Nat \ {0}, bookings: Nat \ {0}]

\* The fake numbers by position.
FakeNumbered ==
    /\ Len(fake.halls) = Len(given.halls) /\ Len(fake.bookings) = Len(given.bookings)
    /\ \A n \in DOMAIN given.halls : fake.halls[n].id = n /\ given.halls[n].fake = n
    /\ \A n \in DOMAIN given.bookings :
          /\ fake.bookings[n].id = n /\ given.bookings[n].fake = n
          /\ fake.bookings[n].hallId \in DOMAIN given.halls
          /\ fake.bookings[n].reminded = given.bookings[n].sentAt

\* AUTO_INCREMENT only goes up.
Ascending(ids, next) ==
    /\ \A n \in DOMAIN ids : 0 < ids[n].real /\ ids[n].real < next
    /\ \A n, m \in DOMAIN ids : n < m => ids[n].real < ids[m].real

Stored(at) == IF at = Never THEN Never ELSE ToSecond(at)

HallRow(n) == [id |-> given.halls[n].real, capacity |-> fake.halls[n].capacity]

BookingRow(n) ==
    [id |-> given.bookings[n].real, hallId |-> given.halls[fake.bookings[n].hallId].real,
     date |-> fake.bookings[n].date, guests |-> fake.bookings[n].guests,
     bookedBy |-> fake.bookings[n].bookedBy, reminded |-> Stored(fake.bookings[n].reminded)]

SameRows ==
    tables = [halls    |-> {HallRow(n) : n \in DOMAIN given.halls},
              bookings |-> {BookingRow(n) : n \in DOMAIN given.bookings}]

StoresInv ==
    /\ StoresTypeOK
    /\ FakeNumbered
    /\ Ascending(given.halls, nextId.halls) /\ Ascending(given.bookings, nextId.bookings)
    /\ SameRows

LEMMA Longer ==
    ASSUME NEW S, NEW rows \in Seq(S), NEW row \in S
    PROVE  /\ Append(rows, row) \in Seq(S)
           /\ Len(rows) \in Nat /\ DOMAIN rows = 1 .. Len(rows)
           /\ Len(Append(rows, row)) = Len(rows) + 1
           /\ DOMAIN Append(rows, row) = DOMAIN rows \cup {Len(rows) + 1}
           /\ \A n \in DOMAIN rows : Append(rows, row)[n] = rows[n]
           /\ Append(rows, row)[Len(rows) + 1] = row
OBVIOUS

LEMMA NextIsAbove ==
    ASSUME NEW S, NEW ids \in Seq(S), NEW next \in Nat \ {0}, NEW id \in S, id.real = next,
           \A n \in DOMAIN ids : ids[n].real \in Nat,
           Ascending(ids, next)
    PROVE  Ascending(Append(ids, id), next + 1)
<1> DEFINE more == Append(ids, id)
<1>1. /\ Len(ids) \in Nat /\ DOMAIN ids = 1 .. Len(ids)
      /\ DOMAIN more = 1 .. Len(ids) + 1
      /\ \A n \in DOMAIN ids : more[n] = ids[n]
      /\ more[Len(ids) + 1] = id
  BY Longer
<1> HIDE DEF more
<1>2. \A n \in DOMAIN more : n \in DOMAIN ids \/ n = Len(ids) + 1
  BY <1>1
<1>3. \A n \in DOMAIN more : 0 < more[n].real /\ more[n].real < next + 1
  BY <1>1, <1>2 DEF Ascending
<1>4. \A n, m \in DOMAIN more : n < m => n \in DOMAIN ids
  BY <1>1
<1>5. \A n, m \in DOMAIN more : n < m => more[n].real < more[m].real
  BY <1>1, <1>2, <1>4 DEF Ascending
<1> QED
  BY <1>3, <1>5 DEF Ascending, more

NothingStored ==
    /\ fake = [halls |-> << >>, bookings |-> << >>]
    /\ tables = [halls |-> {}, bookings |-> {}]
    /\ given = [halls |-> << >>, bookings |-> << >>]
    /\ nextId \in [halls: Nat \ {0}, bookings: Nat \ {0}]

LEMMA NothingIsWrong == NothingStored => StoresInv
<1> SUFFICES ASSUME NothingStored PROVE StoresInv
  OBVIOUS
<1> USE DEF NothingStored
<1>1. StoresTypeOK
  BY DEF StoresTypeOK
<1>2. DOMAIN given.halls = {} /\ DOMAIN given.bookings = {}
  OBVIOUS
<1>3. FakeNumbered
  BY <1>2 DEF FakeNumbered
<1>4. Ascending(given.halls, nextId.halls) /\ Ascending(given.bookings, nextId.bookings)
  BY <1>2 DEF Ascending
<1>5. SameRows
  BY <1>2 DEF SameRows
<1> QED
  BY <1>1, <1>3, <1>4, <1>5 DEF StoresInv

LEMMA Fields ==
    ASSUME StoresInv
    PROVE  /\ fake = [halls |-> fake.halls, bookings |-> fake.bookings]
           /\ given = [halls |-> given.halls, bookings |-> given.bookings]
           /\ tables = [halls |-> tables.halls, bookings |-> tables.bookings]
           /\ nextId = [halls |-> nextId.halls, bookings |-> nextId.bookings]
BY DEF StoresInv, StoresTypeOK, SameRows

LEMMA Lengths ==
    ASSUME StoresInv
    PROVE  /\ Len(fake.halls) = Len(given.halls) /\ Len(fake.bookings) = Len(given.bookings)
           /\ Len(given.halls) \in Nat /\ Len(given.bookings) \in Nat
           /\ DOMAIN given.halls = 1 .. Len(given.halls) /\ DOMAIN fake.halls = DOMAIN given.halls
           /\ DOMAIN given.bookings = 1 .. Len(given.bookings)
           /\ DOMAIN fake.bookings = DOMAIN given.bookings
<1>1. /\ fake.halls \in Seq(FakeHall) /\ fake.bookings \in Seq(FakeBooking)
      /\ given.halls \in Seq(HallIds) /\ given.bookings \in Seq(BookingIds)
  BY DEF StoresInv, StoresTypeOK
<1>2. Len(fake.halls) = Len(given.halls) /\ Len(fake.bookings) = Len(given.bookings)
  BY DEF StoresInv, FakeNumbered
<1> QED
  BY <1>1, <1>2, LenProperties

\* What the invariant says of each position.
LEMMA AtPositions ==
    ASSUME StoresInv
    PROVE  /\ nextId.halls \in Nat \ {0} /\ nextId.bookings \in Nat \ {0}
           /\ fake.halls \in Seq(FakeHall) /\ fake.bookings \in Seq(FakeBooking)
           /\ given.halls \in Seq(HallIds) /\ given.bookings \in Seq(BookingIds)
           /\ \A n \in DOMAIN given.halls : given.halls[n] \in HallIds /\ fake.halls[n] \in FakeHall
           /\ \A n \in DOMAIN given.bookings :
                 given.bookings[n] \in BookingIds /\ fake.bookings[n] \in FakeBooking
<1>1. /\ nextId.halls \in Nat \ {0} /\ nextId.bookings \in Nat \ {0}
      /\ fake.halls \in Seq(FakeHall) /\ fake.bookings \in Seq(FakeBooking)
      /\ given.halls \in Seq(HallIds) /\ given.bookings \in Seq(BookingIds)
  BY DEF StoresInv, StoresTypeOK
<1>2. /\ \A n \in DOMAIN given.halls : given.halls[n] \in HallIds
      /\ \A n \in DOMAIN fake.halls : fake.halls[n] \in FakeHall
  BY <1>1
<1>3. /\ \A n \in DOMAIN given.bookings : given.bookings[n] \in BookingIds
      /\ \A n \in DOMAIN fake.bookings : fake.bookings[n] \in FakeBooking
  BY <1>1
<1> QED
  BY <1>1, <1>2, <1>3, Lengths

LEMMA AddHallKeeps ==
    ASSUME StoresInv, NEW capacity \in Capacities, AddHall(capacity)
    PROVE  StoresInv'
<1>1. PICK n : n = Len(given.halls) + 1
  OBVIOUS
<1>2. PICK hall : hall = [id |-> n, capacity |-> capacity]
  OBVIOUS
<1>3. PICK ids : ids = [fake |-> n, real |-> nextId.halls]
  OBVIOUS
<1>4. Len(given.halls) \in Nat /\ n \in Nat /\ hall \in FakeHall /\ ids \in HallIds
  BY <1>1, <1>2, <1>3, AtPositions DEF FakeHall, HallIds
<1>5. /\ fake' = [halls |-> Append(fake.halls, hall), bookings |-> fake.bookings]
      /\ tables' = [halls |-> tables.halls \cup {[id |-> nextId.halls, capacity |-> capacity]},
                    bookings |-> tables.bookings]
      /\ nextId' = [halls |-> nextId.halls + 1, bookings |-> nextId.bookings]
      /\ given' = [halls |-> Append(given.halls, ids), bookings |-> given.bookings]
  BY <1>1, <1>2, <1>3, Fields, Lengths DEF AddHall
<1>6. /\ fake'.halls \in Seq(FakeHall) /\ Len(fake'.halls) = n
      /\ \A k \in DOMAIN given.halls : fake'.halls[k] = fake.halls[k]
      /\ fake'.halls[n] = hall
  <2>1. fake'.halls = Append(fake.halls, hall) /\ fake.halls \in Seq(FakeHall)
    BY <1>5, AtPositions
  <2>2. Len(fake.halls) + 1 = n /\ DOMAIN fake.halls = DOMAIN given.halls
    BY <1>1, Lengths
  <2> QED
    BY <1>4, <2>1, <2>2, Longer
<1>7. /\ given'.halls \in Seq(HallIds) /\ Len(given'.halls) = n
      /\ DOMAIN given'.halls = DOMAIN given.halls \cup {n}
      /\ \A k \in DOMAIN given.halls : given'.halls[k] = given.halls[k]
      /\ given'.halls[n] = ids
  <2>1. given'.halls = Append(given.halls, ids) /\ given.halls \in Seq(HallIds)
    BY <1>5, AtPositions
  <2> QED
    BY <1>1, <1>4, <2>1, Longer
<1>8. /\ fake'.bookings = fake.bookings /\ given'.bookings = given.bookings
      /\ nextId'.halls = nextId.halls + 1 /\ nextId'.bookings = nextId.bookings
  BY <1>5
<1>9. StoresTypeOK'
  <2>1. fake' \in [halls: Seq(FakeHall), bookings: Seq(FakeBooking)]
    BY <1>5, <1>6, AtPositions
  <2>2. given' \in [halls: Seq(HallIds), bookings: Seq(BookingIds)]
    BY <1>5, <1>7, AtPositions
  <2>3. nextId' \in [halls: Nat \ {0}, bookings: Nat \ {0}]
    BY <1>5, AtPositions
  <2> QED
    BY <2>1, <2>2, <2>3 DEF StoresTypeOK, FakeHall, FakeBooking, HallIds, BookingIds, Reminders
<1>10. FakeNumbered'
  <2>1. hall.id = n /\ ids.fake = n
    BY <1>2, <1>3
  <2> QED
    BY <2>1, <1>6, <1>7, <1>8 DEF StoresInv, FakeNumbered
<1>11. Ascending(given'.halls, nextId'.halls) /\ Ascending(given'.bookings, nextId'.bookings)
  <2>1. \A k \in DOMAIN given.halls : given.halls[k].real \in Nat
    BY AtPositions DEF HallIds
  <2>2. Ascending(Append(given.halls, ids), nextId.halls + 1)
    BY <1>3, <1>4, <2>1, NextIsAbove, AtPositions DEF StoresInv
  <2> QED
    BY <1>5, <1>8, <2>2 DEF StoresInv
<1>12. SameRows'
  <2>1. \A k \in DOMAIN given.halls : HallRow(k)' = HallRow(k)
    BY <1>6, <1>7 DEF HallRow
  <2>2. HallRow(n)' = [id |-> nextId.halls, capacity |-> capacity]
    BY <1>2, <1>3, <1>6, <1>7 DEF HallRow
  <2>3. \A k \in DOMAIN given.bookings : fake.bookings[k].hallId \in DOMAIN given.halls
    BY DEF StoresInv, FakeNumbered
  <2>4. \A k \in DOMAIN given.bookings : BookingRow(k)' = BookingRow(k)
    BY <1>7, <1>8, <2>3 DEF BookingRow
  <2>5. tables.halls = {HallRow(k) : k \in DOMAIN given.halls}
    BY DEF StoresInv, SameRows
  <2>6. tables.bookings = {BookingRow(k) : k \in DOMAIN given.bookings}
    BY DEF StoresInv, SameRows
  <2>7. tables'.halls = {HallRow(k)' : k \in DOMAIN given'.halls}
    BY <1>5, <1>7, <2>1, <2>2, <2>5
  <2>8. tables'.bookings = {BookingRow(k)' : k \in DOMAIN given'.bookings}
    BY <1>5, <1>8, <2>4, <2>6
  <2> QED
    BY <1>5, <2>7, <2>8 DEF SameRows
<1> QED
  BY <1>9, <1>10, <1>11, <1>12 DEF StoresInv

LEMMA SaveKeeps ==
    ASSUME StoresInv, NEW hall \in ToSet(given.halls), NEW date \in Dates, NEW guests \in Parties,
           NEW user \in Callers, Save(hall, date, guests, user)
    PROVE  StoresInv'
<1>1. PICK h \in DOMAIN given.halls : hall = given.halls[h]
  BY DEF ToSet
<1>2. PICK n : n = Len(given.bookings) + 1
  OBVIOUS
<1>3. PICK booking : booking = [id |-> n, hallId |-> h, date |-> date, guests |-> guests,
                                bookedBy |-> user, reminded |-> Never]
  OBVIOUS
<1>4. PICK row : row = [id |-> nextId.bookings, hallId |-> given.halls[h].real, date |-> date,
                        guests |-> guests, bookedBy |-> user, reminded |-> Never]
  OBVIOUS
<1>5. PICK ids : ids = [fake |-> n, real |-> nextId.bookings, sentAt |-> Never]
  OBVIOUS
<1>6. given.halls[h].fake = h /\ h \in Nat
  BY AtPositions DEF StoresInv, FakeNumbered
<1>7. Len(given.bookings) \in Nat /\ n \in Nat /\ booking \in FakeBooking /\ ids \in BookingIds
  BY <1>2, <1>3, <1>5, <1>6, AtPositions, StoresAssumption DEF FakeBooking, BookingIds, Reminders
<1>8. Len(fake.bookings) + 1 = n /\ DOMAIN fake.bookings = DOMAIN given.bookings
  BY <1>2, Lengths
<1>9. /\ fake' = [halls |-> fake.halls, bookings |-> Append(fake.bookings, booking)]
      /\ tables' = [halls |-> tables.halls, bookings |-> tables.bookings \cup {row}]
      /\ nextId' = [halls |-> nextId.halls, bookings |-> nextId.bookings + 1]
  <2> DEFINE asked(hallId) == [id |-> 0, hallId |-> hallId, date |-> date, guests |-> guests,
                               bookedBy |-> user, reminded |-> 0]
         numbered(id, hallId) == [id |-> id, hallId |-> hallId, date |-> date, guests |-> guests,
                                  bookedBy |-> user, reminded |-> 0]
  <2>1. [asked(hall.fake) EXCEPT !.id = Len(fake.bookings) + 1, !.reminded = Never] = booking
    <3>1. asked(hall.fake) = asked(h) /\ Len(fake.bookings) + 1 = n
      BY <1>1, <1>6, <1>8
    <3>2. [asked(h) EXCEPT !.id = n] = numbered(n, h)
      OBVIOUS
    <3>3. [numbered(n, h) EXCEPT !.reminded = Never] = booking
      BY <1>3
    <3>4. [asked(h) EXCEPT !.id = n, !.reminded = Never] =
          [[asked(h) EXCEPT !.id = n] EXCEPT !.reminded = Never]
      OBVIOUS
    <3> HIDE DEF asked, numbered
    <3> QED
      BY <3>1, <3>2, <3>3, <3>4
  <2>2. [asked(hall.real) EXCEPT !.id = nextId.bookings, !.reminded = Never] = row
    <3>1. asked(hall.real) = asked(given.halls[h].real)
      BY <1>1
    <3>2. [asked(given.halls[h].real) EXCEPT !.id = nextId.bookings] =
            numbered(nextId.bookings, given.halls[h].real)
      OBVIOUS
    <3>3. [numbered(nextId.bookings, given.halls[h].real) EXCEPT !.reminded = Never] = row
      BY <1>4
    <3>4. [asked(given.halls[h].real) EXCEPT !.id = nextId.bookings, !.reminded = Never] =
          [[asked(given.halls[h].real) EXCEPT !.id = nextId.bookings] EXCEPT !.reminded = Never]
      OBVIOUS
    <3> HIDE DEF asked, numbered
    <3> QED
      BY <3>1, <3>2, <3>3, <3>4
  <2>3. fake' = [fake EXCEPT !.bookings = Append(fake.bookings, booking)]
    BY <2>1, Zenon DEF Save, FakeSave
  <2>4. tables' = [tables EXCEPT !.bookings = tables.bookings \cup {row}]
    BY <2>2, Zenon DEF Save, RealSave
  <2>5. nextId' = [nextId EXCEPT !.bookings = nextId.bookings + 1]
    BY DEF Save
  <2> QED
    BY <2>3, <2>4, <2>5, Fields
<1>10. /\ fake'.bookings \in Seq(FakeBooking) /\ Len(fake'.bookings) = n
       /\ \A k \in DOMAIN given.bookings : fake'.bookings[k] = fake.bookings[k]
       /\ fake'.bookings[n] = booking
  <2>1. fake'.bookings = Append(fake.bookings, booking) /\ fake.bookings \in Seq(FakeBooking)
    BY <1>9, AtPositions
  <2> QED
    BY <1>7, <1>8, <2>1, Longer
<1>11. given' = [halls |-> given.halls, bookings |-> Append(given.bookings, ids)]
  <2>1. Last(fake'.bookings).id = n
    BY <1>3, <1>10 DEF Last
  <2>2. given' = [given EXCEPT !.bookings = Append(given.bookings, ids)]
    BY <1>5, <2>1 DEF Save
  <2> QED
    BY <2>2, Fields
<1>12. /\ given'.bookings \in Seq(BookingIds) /\ Len(given'.bookings) = n
       /\ DOMAIN given'.bookings = DOMAIN given.bookings \cup {n}
       /\ \A k \in DOMAIN given.bookings : given'.bookings[k] = given.bookings[k]
       /\ given'.bookings[n] = ids
  <2>1. given'.bookings = Append(given.bookings, ids) /\ given.bookings \in Seq(BookingIds)
    BY <1>11, AtPositions
  <2> QED
    BY <1>2, <1>7, <2>1, Longer
<1>13. /\ fake'.halls = fake.halls /\ given'.halls = given.halls
       /\ nextId'.bookings = nextId.bookings + 1 /\ nextId'.halls = nextId.halls
  BY <1>9, <1>11
<1>14. StoresTypeOK'
  <2>1. fake' \in [halls: Seq(FakeHall), bookings: Seq(FakeBooking)]
    BY <1>9, <1>10, AtPositions
  <2>2. given' \in [halls: Seq(HallIds), bookings: Seq(BookingIds)]
    BY <1>11, <1>12, AtPositions
  <2>3. nextId' \in [halls: Nat \ {0}, bookings: Nat \ {0}]
    BY <1>9, AtPositions
  <2> QED
    BY <2>1, <2>2, <2>3 DEF StoresTypeOK, FakeHall, FakeBooking, HallIds, BookingIds, Reminders
<1>15. FakeNumbered'
  <2>1. booking.id = n /\ ids.fake = n /\ booking.hallId = h /\ booking.reminded = ids.sentAt
    BY <1>3, <1>5
  <2>2. Len(fake'.halls) = Len(given'.halls) /\ Len(fake'.bookings) = Len(given'.bookings)
    BY <1>10, <1>12, <1>13, Lengths
  <2>3. \A k \in DOMAIN given'.halls : fake'.halls[k].id = k /\ given'.halls[k].fake = k
    BY <1>13 DEF StoresInv, FakeNumbered
  <2>4. \A k \in DOMAIN given.bookings :
          /\ fake'.bookings[k].id = k /\ given'.bookings[k].fake = k
          /\ fake'.bookings[k].hallId \in DOMAIN given'.halls
          /\ fake'.bookings[k].reminded = given'.bookings[k].sentAt
    BY <1>10, <1>12, <1>13 DEF StoresInv, FakeNumbered
  <2>5. /\ fake'.bookings[n].id = n /\ given'.bookings[n].fake = n
        /\ fake'.bookings[n].hallId \in DOMAIN given'.halls
        /\ fake'.bookings[n].reminded = given'.bookings[n].sentAt
    BY <2>1, <1>10, <1>12, <1>13
  <2> QED
    BY <1>12, <2>2, <2>3, <2>4, <2>5 DEF FakeNumbered
<1>16. Ascending(given'.halls, nextId'.halls) /\ Ascending(given'.bookings, nextId'.bookings)
  <2>1. \A k \in DOMAIN given.bookings : given.bookings[k].real \in Nat
    BY AtPositions DEF BookingIds
  <2>2. Ascending(Append(given.bookings, ids), nextId.bookings + 1)
    BY <1>5, <1>7, <2>1, NextIsAbove, AtPositions DEF StoresInv
  <2> QED
    BY <1>11, <1>13, <2>2 DEF StoresInv
<1>17. SameRows'
  <2>1. \A k \in DOMAIN given.halls : HallRow(k)' = HallRow(k)
    BY <1>13 DEF HallRow
  <2>2. \A k \in DOMAIN given.bookings : BookingRow(k)' = BookingRow(k)
    BY <1>10, <1>12, <1>13 DEF BookingRow
  <2>3. BookingRow(n)' = row
    <3>1. /\ booking.hallId = h /\ booking.date = date /\ booking.guests = guests
          /\ booking.bookedBy = user /\ booking.reminded = Never /\ ids.real = nextId.bookings
      BY <1>3, <1>5
    <3> QED
      BY <1>4, <1>10, <1>12, <1>13, <3>1 DEF BookingRow, Stored
  <2>4. tables.halls = {HallRow(k) : k \in DOMAIN given.halls}
    BY DEF StoresInv, SameRows
  <2>5. tables.bookings = {BookingRow(k) : k \in DOMAIN given.bookings}
    BY DEF StoresInv, SameRows
  <2>6. tables'.halls = {HallRow(k)' : k \in DOMAIN given'.halls}
    BY <1>9, <1>13, <2>1, <2>4
  <2>7. tables'.bookings = {BookingRow(k)' : k \in DOMAIN given'.bookings}
    BY <1>9, <1>12, <2>2, <2>3, <2>5
  <2> QED
    BY <1>9, <2>6, <2>7 DEF SameRows
<1> QED
  BY <1>14, <1>15, <1>16, <1>17 DEF StoresInv

\* What markReminderSent changes: at most one position, the same in all three representations.
LEMMA Marks ==
    ASSUME StoresInv, NEW ids \in ToSet(given.bookings) \cup {Unknown}, NEW at \in Times,
           MarkReminderSent(ids, at)
    PROVE  \E m \in Nat \ {0} :
             /\ m \in DOMAIN given.bookings => ids = given.bookings[m]
             /\ fake' = [halls |-> fake.halls,
                         bookings |-> [n \in DOMAIN given.bookings |->
                             IF n = m THEN [fake.bookings[n] EXCEPT !.reminded = at] ELSE fake.bookings[n]]]
             /\ given' = [halls |-> given.halls,
                          bookings |-> [n \in DOMAIN given.bookings |->
                              IF n = m THEN [given.bookings[n] EXCEPT !.sentAt = at] ELSE given.bookings[n]]]
             /\ tables'.halls = tables.halls
             /\ tables'.bookings = {IF n = m THEN [BookingRow(n) EXCEPT !.reminded = ToSecond(at)]
                                    ELSE BookingRow(n) : n \in DOMAIN given.bookings}
             /\ tables' = [halls |-> tables'.halls, bookings |-> tables'.bookings]
<1>1. PICK m \in Nat \ {0} :
        /\ ids.fake = m
        /\ m \in DOMAIN given.bookings => ids = given.bookings[m]
        /\ m \notin DOMAIN given.bookings => ids.real = nextId.bookings
  <2>1. CASE ids = Unknown
    <3>1. ids.fake = Len(given.bookings) + 1 /\ ids.real = nextId.bookings
      BY <2>1, Lengths DEF Unknown
    <3>2. Len(given.bookings) + 1 \notin DOMAIN given.bookings /\ Len(given.bookings) + 1 \in Nat \ {0}
      BY AtPositions
    <3> QED
      BY <3>1, <3>2
  <2>2. CASE ids \in ToSet(given.bookings)
    <3>1. PICK m \in DOMAIN given.bookings : ids = given.bookings[m]
      BY <2>2 DEF ToSet
    <3>2. ids.fake = m /\ m \in Nat \ {0}
      BY <3>1, AtPositions DEF StoresInv, FakeNumbered
    <3> QED
      BY <3>1, <3>2
  <2> QED
    BY <2>1, <2>2
<1>2. \A n \in DOMAIN given.bookings : fake.bookings[n].id = n /\ given.bookings[n].fake = n
  BY DEF StoresInv, FakeNumbered
<1>3. fake' = [halls |-> fake.halls,
               bookings |-> [n \in DOMAIN given.bookings |->
                   IF n = m THEN [fake.bookings[n] EXCEPT !.reminded = at] ELSE fake.bookings[n]]]
  <2>1. FakeMarkReminderSent(ids.fake, at) =
          [n \in DOMAIN given.bookings |->
              IF n = m THEN [fake.bookings[n] EXCEPT !.reminded = at] ELSE fake.bookings[n]]
    BY <1>1, <1>2, Lengths DEF FakeMarkReminderSent
  <2> QED
    BY <2>1, Fields DEF MarkReminderSent
<1>4. given' = [halls |-> given.halls,
                bookings |-> [n \in DOMAIN given.bookings |->
                    IF n = m THEN [given.bookings[n] EXCEPT !.sentAt = at] ELSE given.bookings[n]]]
  <2>1. \A n \in DOMAIN given.bookings : given.bookings[n] = ids <=> n = m
    BY <1>1, <1>2
  <2>2. [n \in DOMAIN given.bookings |->
            IF given.bookings[n] = ids THEN [ids EXCEPT !.sentAt = at] ELSE given.bookings[n]] =
        [n \in DOMAIN given.bookings |->
            IF n = m THEN [given.bookings[n] EXCEPT !.sentAt = at] ELSE given.bookings[n]]
    BY <2>1
  <2> QED
    BY <2>2, Fields DEF MarkReminderSent
<1>5. /\ tables' = [halls |-> tables.halls, bookings |-> RealMarkReminderSent(ids.real, at)]
  BY Fields DEF MarkReminderSent
<1>6. \A n \in DOMAIN given.bookings : BookingRow(n).id = ids.real <=> n = m
  <2> SUFFICES ASSUME NEW n \in DOMAIN given.bookings
               PROVE  given.bookings[n].real = ids.real <=> n = m
    BY DEF BookingRow
  <2>1. given.bookings[n].real \in Nat /\ given.bookings[n].real < nextId.bookings
    BY AtPositions DEF BookingIds, StoresInv, Ascending
  <2>2. ASSUME m \in DOMAIN given.bookings, given.bookings[n].real = given.bookings[m].real
        PROVE  n = m
    <3>1. n \in Nat /\ m \in Nat
      BY <2>2, AtPositions
    <3>2. ~ (n < m) /\ ~ (m < n)
      BY <2>1, <2>2 DEF StoresInv, Ascending
    <3> QED
      BY <3>1, <3>2
  <2>3. ASSUME m \notin DOMAIN given.bookings
        PROVE  given.bookings[n].real # ids.real /\ n # m
    BY <1>1, <2>1, <2>3, AtPositions
  <2> QED
    BY <1>1, <2>2, <2>3
<1>7. tables.bookings = {BookingRow(n) : n \in DOMAIN given.bookings}
  BY DEF StoresInv, SameRows
<1>8. RealMarkReminderSent(ids.real, at) =
        {IF n = m THEN [BookingRow(n) EXCEPT !.reminded = ToSecond(at)] ELSE BookingRow(n) :
            n \in DOMAIN given.bookings}
  BY <1>6, <1>7 DEF RealMarkReminderSent
<1>9. /\ tables'.halls = tables.halls /\ tables'.bookings = RealMarkReminderSent(ids.real, at)
      /\ tables' = [halls |-> tables'.halls, bookings |-> tables'.bookings]
  BY <1>5
<1> WITNESS m \in Nat \ {0}
<1> QED
  BY <1>1, <1>3, <1>4, <1>8, <1>9

LEMMA MarkKeeps ==
    ASSUME StoresInv, NEW ids \in ToSet(given.bookings) \cup {Unknown}, NEW at \in Times,
           MarkReminderSent(ids, at)
    PROVE  StoresInv'
<1>1. PICK m \in Nat \ {0} :
        /\ m \in DOMAIN given.bookings => ids = given.bookings[m]
        /\ fake' = [halls |-> fake.halls,
                    bookings |-> [n \in DOMAIN given.bookings |->
                        IF n = m THEN [fake.bookings[n] EXCEPT !.reminded = at] ELSE fake.bookings[n]]]
        /\ given' = [halls |-> given.halls,
                     bookings |-> [n \in DOMAIN given.bookings |->
                         IF n = m THEN [given.bookings[n] EXCEPT !.sentAt = at] ELSE given.bookings[n]]]
        /\ tables'.halls = tables.halls
        /\ tables'.bookings = {IF n = m THEN [BookingRow(n) EXCEPT !.reminded = ToSecond(at)]
                               ELSE BookingRow(n) : n \in DOMAIN given.bookings}
        /\ tables' = [halls |-> tables'.halls, bookings |-> tables'.bookings]
  BY Marks
<1>2. nextId' = nextId
  BY DEF MarkReminderSent
<1>3. /\ fake'.halls = fake.halls /\ given'.halls = given.halls
      /\ DOMAIN fake'.bookings = DOMAIN given.bookings /\ DOMAIN given'.bookings = DOMAIN given.bookings
      /\ \A n \in DOMAIN given.bookings :
            /\ fake'.bookings[n] =
                  IF n = m THEN [fake.bookings[n] EXCEPT !.reminded = at] ELSE fake.bookings[n]
            /\ given'.bookings[n] =
                  IF n = m THEN [given.bookings[n] EXCEPT !.sentAt = at] ELSE given.bookings[n]
  BY <1>1
<1>4. \A n \in DOMAIN given.bookings :
        /\ fake.bookings[n] \in FakeBooking /\ fake'.bookings[n] \in FakeBooking
        /\ fake'.bookings[n].id = fake.bookings[n].id
        /\ fake'.bookings[n].hallId = fake.bookings[n].hallId
        /\ fake'.bookings[n].date = fake.bookings[n].date
        /\ fake'.bookings[n].guests = fake.bookings[n].guests
        /\ fake'.bookings[n].bookedBy = fake.bookings[n].bookedBy
        /\ fake'.bookings[n].reminded = IF n = m THEN at ELSE fake.bookings[n].reminded
  <2> SUFFICES ASSUME NEW n \in DOMAIN given.bookings
               PROVE  /\ fake.bookings[n] \in FakeBooking /\ fake'.bookings[n] \in FakeBooking
                      /\ fake'.bookings[n].id = fake.bookings[n].id
                      /\ fake'.bookings[n].hallId = fake.bookings[n].hallId
                      /\ fake'.bookings[n].date = fake.bookings[n].date
                      /\ fake'.bookings[n].guests = fake.bookings[n].guests
                      /\ fake'.bookings[n].bookedBy = fake.bookings[n].bookedBy
                      /\ fake'.bookings[n].reminded = IF n = m THEN at ELSE fake.bookings[n].reminded
    OBVIOUS
  <2>1. fake.bookings[n] \in FakeBooking
    BY AtPositions
  <2>2. CASE n = m
    <3>1. fake'.bookings[n] = [fake.bookings[n] EXCEPT !.reminded = at]
      BY <1>3, <2>2
    <3> QED
      BY <2>1, <2>2, <3>1 DEF FakeBooking, Reminders
  <2>3. CASE n # m
    BY <1>3, <2>1, <2>3
  <2> QED
    BY <2>2, <2>3
<1>5. \A n \in DOMAIN given.bookings :
        /\ given'.bookings[n] \in BookingIds
        /\ given'.bookings[n].fake = given.bookings[n].fake
        /\ given'.bookings[n].real = given.bookings[n].real
        /\ given'.bookings[n].sentAt = IF n = m THEN at ELSE given.bookings[n].sentAt
  BY <1>3, AtPositions DEF BookingIds, Reminders
<1>6. StoresTypeOK'
  <2>1. fake'.bookings \in Seq(FakeBooking) /\ given'.bookings \in Seq(BookingIds)
    <3>1. fake'.bookings \in [1 .. Len(given.bookings) -> FakeBooking]
      BY <1>1, <1>4, Lengths
    <3>2. given'.bookings \in [1 .. Len(given.bookings) -> BookingIds]
      BY <1>1, <1>5, Lengths
    <3>3. Len(given.bookings) \in Nat
      BY AtPositions
    <3> QED
      BY <3>1, <3>2, <3>3, SeqDef
  <2>2. fake' \in [halls: Seq(FakeHall), bookings: Seq(FakeBooking)]
    BY <1>1, <2>1, AtPositions
  <2>3. given' \in [halls: Seq(HallIds), bookings: Seq(BookingIds)]
    BY <1>1, <2>1, AtPositions
  <2>4. nextId' \in [halls: Nat \ {0}, bookings: Nat \ {0}]
    BY <1>2, AtPositions, Fields
  <2> QED
    BY <2>2, <2>3, <2>4 DEF StoresTypeOK, FakeHall, FakeBooking, HallIds, BookingIds, Reminders
<1>7. FakeNumbered'
  <2>1. Len(fake'.bookings) = Len(given'.bookings)
    <3>1. DOMAIN fake'.bookings = 1 .. Len(given.bookings) /\ DOMAIN given'.bookings = 1 .. Len(given.bookings)
      BY <1>3, AtPositions
    <3>2. fake'.bookings \in Seq(FakeBooking) /\ given'.bookings \in Seq(BookingIds)
      BY <1>6 DEF StoresTypeOK, FakeHall, FakeBooking, HallIds, BookingIds, Reminders
    <3> QED
      BY <3>1, <3>2, AtPositions
  <2> QED
    BY <1>3, <1>4, <1>5, <2>1 DEF StoresInv, FakeNumbered
<1>8. Ascending(given'.halls, nextId'.halls) /\ Ascending(given'.bookings, nextId'.bookings)
  BY <1>2, <1>3, <1>5 DEF StoresInv, Ascending
<1>9. SameRows'
  <2>1. tables'.halls = {HallRow(k)' : k \in DOMAIN given'.halls}
    BY <1>1, <1>3 DEF StoresInv, SameRows, HallRow
  <2>2. \A n \in DOMAIN given.bookings :
          BookingRow(n)' = IF n = m THEN [BookingRow(n) EXCEPT !.reminded = ToSecond(at)] ELSE BookingRow(n)
    <3>1. at # Never
      BY StoresAssumption
    <3> QED
      BY <1>3, <1>4, <1>5, <3>1 DEF BookingRow, Stored
  <2>3. tables'.bookings = {BookingRow(n)' : n \in DOMAIN given'.bookings}
    BY <1>1, <1>3, <2>2
  <2> QED
    BY <1>1, <2>1, <2>3 DEF SameRows
<1> QED
  BY <1>6, <1>7, <1>8, <1>9 DEF StoresInv

LEMMA RollBackKeeps ==
    ASSUME StoresInv, NEW table \in {"halls", "bookings"}, RollBackInsert(table)
    PROVE  StoresInv'
<1>1. UNCHANGED <<fake, tables, given>>
  BY DEF RollBackInsert
<1>2. /\ nextId' \in [halls: Nat \ {0}, bookings: Nat \ {0}]
      /\ nextId'.halls >= nextId.halls /\ nextId'.bookings >= nextId.bookings
  BY AtPositions, Fields DEF RollBackInsert
<1>3. /\ \A n \in DOMAIN given.halls : given.halls[n].real \in Nat
      /\ \A n \in DOMAIN given.bookings : given.bookings[n].real \in Nat
  BY AtPositions DEF HallIds, BookingIds
<1>4. StoresTypeOK' /\ FakeNumbered' /\ SameRows'
  BY <1>1, <1>2
     DEF StoresInv, StoresTypeOK, FakeNumbered, SameRows, HallRow, BookingRow,
         FakeHall, FakeBooking, HallIds, BookingIds, Reminders
<1>5. Ascending(given'.halls, nextId'.halls) /\ Ascending(given'.bookings, nextId'.bookings)
  BY <1>1, <1>2, <1>3, AtPositions DEF StoresInv, Ascending
<1> QED
  BY <1>4, <1>5 DEF StoresInv

LEMMA NextTestKeeps == StoresInv /\ NextTest => StoresInv'
<1> SUFFICES ASSUME StoresInv, NextTest PROVE StoresInv'
  OBVIOUS
<1>1. nextId' \in [halls: Nat \ {0}, bookings: Nat \ {0}]
  BY AtPositions, Fields DEF NextTest
<1>2. NothingStored'
  BY <1>1 DEF NextTest, NothingStored
<1> QED
  BY <1>2, NothingIsWrong, PTL

LEMMA StoresInitially == StoresInit => StoresInv
<1> SUFFICES ASSUME StoresInit PROVE NothingStored
  BY NothingIsWrong
<1> QED
  BY DEF StoresInit, NothingStored

LEMMA StoresStep == StoresInv /\ [StoresNext]_storesVars => StoresInv'
<1> SUFFICES ASSUME StoresInv, [StoresNext]_storesVars PROVE StoresInv'
  OBVIOUS
<1>1. ASSUME NEW capacity \in Capacities, AddHall(capacity) PROVE StoresInv'
  BY <1>1, AddHallKeeps
<1>2. ASSUME NEW hall \in ToSet(given.halls), NEW date \in Dates, NEW guests \in Parties,
             NEW user \in Callers, Save(hall, date, guests, user)
      PROVE  StoresInv'
  BY <1>2, SaveKeeps
<1>3. ASSUME NEW ids \in ToSet(given.bookings) \cup {Unknown}, NEW at \in Times,
             MarkReminderSent(ids, at)
      PROVE  StoresInv'
  BY <1>3, MarkKeeps
<1>4. ASSUME NEW table \in {"halls", "bookings"}, RollBackInsert(table) PROVE StoresInv'
  BY <1>4, RollBackKeeps
<1>5. CASE NextTest
  BY <1>5, NextTestKeeps
<1>6. CASE UNCHANGED storesVars
  BY <1>6 DEF storesVars, StoresInv, StoresTypeOK, FakeNumbered, SameRows, HallRow, BookingRow, Ascending,
              FakeHall, FakeBooking, HallIds, BookingIds, Reminders
<1> QED
  BY <1>1, <1>2, <1>3, <1>4, <1>5, <1>6 DEF StoresNext

LEMMA StoresAlways == StoresSpec => []StoresInv
<1> QED
  BY StoresInitially, StoresStep, PTL DEF StoresSpec

-----------------------------------------------------------------------------
(***************************************************************************)
(* What the finds answer for the ids that were given, and so what each     *)
(* store holds of the contract's halls and bookings.                       *)
(***************************************************************************)
LEMMA FirstById ==
    ASSUME NEW len \in Nat, NEW array, DOMAIN array = 1 .. len, \A n \in 1 .. len : array[n].id = n,
           NEW n \in 1 .. len
    PROVE  n = CHOOSE k \in DOMAIN array :
                 array[k].id = n /\ \A earlier \in 1 .. k - 1 : ~ (array[earlier].id = n)
<1>1. \A k \in DOMAIN array :
        (array[k].id = n /\ \A earlier \in 1 .. k - 1 : ~ (array[earlier].id = n)) <=> k = n
  OBVIOUS
<1> QED
  BY <1>1

LEMMA FakeFinds ==
    ASSUME StoresInv
    PROVE  /\ \A n \in DOMAIN given.halls : FakeFindHall(given.halls[n].fake) = fake.halls[n]
           /\ \A n \in DOMAIN given.bookings : FakeFindBooking(given.bookings[n].fake) = fake.bookings[n]
           /\ FakeFindHall(Len(given.halls) + 1) = Null
           /\ FakeFindBooking(Len(given.bookings) + 1) = Null
<1>1. /\ \A n \in DOMAIN given.halls : fake.halls[n].id = n /\ given.halls[n].fake = n
      /\ \A n \in DOMAIN given.bookings : fake.bookings[n].id = n /\ given.bookings[n].fake = n
  BY DEF StoresInv, FakeNumbered
<1>2. /\ DOMAIN fake.halls = DOMAIN given.halls /\ DOMAIN given.halls = 1 .. Len(given.halls)
      /\ DOMAIN fake.bookings = DOMAIN given.bookings
      /\ DOMAIN given.bookings = 1 .. Len(given.bookings)
      /\ Len(given.halls) \in Nat /\ Len(given.bookings) \in Nat
  BY Lengths
<1>3. ASSUME NEW n \in DOMAIN given.halls PROVE FakeFindHall(given.halls[n].fake) = fake.halls[n]
  <2>1. n = CHOOSE k \in DOMAIN fake.halls :
              fake.halls[k].id = n /\ \A earlier \in 1 .. k - 1 : ~ (fake.halls[earlier].id = n)
    BY <1>1, <1>2, FirstById
  <2>2. given.halls[n].fake = n /\ fake.halls[n].id = n /\ n \in DOMAIN fake.halls
    BY <1>1, <1>2
  <2> QED
    BY <2>1, <2>2, Zenon DEF FakeFindHall, Find
<1>4. ASSUME NEW n \in DOMAIN given.bookings
      PROVE  FakeFindBooking(given.bookings[n].fake) = fake.bookings[n]
  <2>1. n = CHOOSE k \in DOMAIN fake.bookings :
              fake.bookings[k].id = n /\ \A earlier \in 1 .. k - 1 : ~ (fake.bookings[earlier].id = n)
    BY <1>1, <1>2, FirstById
  <2>2. given.bookings[n].fake = n /\ fake.bookings[n].id = n /\ n \in DOMAIN fake.bookings
    BY <1>1, <1>2
  <2> QED
    BY <2>1, <2>2, Zenon DEF FakeFindBooking, Find
<1>5. /\ \A k \in DOMAIN fake.halls : fake.halls[k].id # Len(given.halls) + 1
      /\ \A k \in DOMAIN fake.bookings : fake.bookings[k].id # Len(given.bookings) + 1
  <2>1. \A k \in DOMAIN fake.halls : fake.halls[k].id # Len(given.halls) + 1
    BY <1>1, <1>2
  <2>2. \A k \in DOMAIN fake.bookings : fake.bookings[k].id # Len(given.bookings) + 1
    BY <1>1, <1>2
  <2> QED
    BY <2>1, <2>2
<1>6. FakeFindHall(Len(given.halls) + 1) = Null /\ FakeFindBooking(Len(given.bookings) + 1) = Null
  BY <1>5 DEF FakeFindHall, FakeFindBooking, Find
<1> QED
  BY <1>3, <1>4, <1>6

\* An id tells the rows of a table apart.
LEMMA OwnIds ==
    ASSUME StoresInv
    PROVE  /\ \A n, m \in DOMAIN given.halls : given.halls[n].real = given.halls[m].real => n = m
           /\ \A n, m \in DOMAIN given.bookings : given.bookings[n].real = given.bookings[m].real => n = m
           /\ \A n \in DOMAIN given.halls :
                 given.halls[n].real \in Nat \ {0} /\ given.halls[n].real # nextId.halls
           /\ \A n \in DOMAIN given.bookings :
                 given.bookings[n].real \in Nat \ {0} /\ given.bookings[n].real # nextId.bookings
<1>1. /\ \A n \in DOMAIN given.halls : n \in Nat /\ given.halls[n].real \in Nat
      /\ \A n \in DOMAIN given.bookings : n \in Nat /\ given.bookings[n].real \in Nat
      /\ nextId.halls \in Nat /\ nextId.bookings \in Nat
  <2>1. \A n \in DOMAIN given.halls : given.halls[n].real \in Nat
    BY AtPositions DEF HallIds
  <2>2. \A n \in DOMAIN given.bookings : given.bookings[n].real \in Nat
    BY AtPositions DEF BookingIds
  <2>3. nextId.halls \in Nat /\ nextId.bookings \in Nat
    BY AtPositions
  <2>4. \A n \in DOMAIN given.halls \cup DOMAIN given.bookings : n \in Nat
    BY Lengths
  <2> QED
    BY <2>1, <2>2, <2>3, <2>4
<1>2. Ascending(given.halls, nextId.halls) /\ Ascending(given.bookings, nextId.bookings)
  BY DEF StoresInv
<1>3. \A n, m \in DOMAIN given.halls : given.halls[n].real = given.halls[m].real => n = m
  <2> SUFFICES ASSUME NEW n \in DOMAIN given.halls, NEW m \in DOMAIN given.halls,
                      given.halls[n].real = given.halls[m].real
               PROVE  n = m
    OBVIOUS
  <2>1. ~ (n < m) /\ ~ (m < n)
    BY <1>1, <1>2 DEF Ascending
  <2> QED
    BY <1>1, <2>1
<1>4. \A n, m \in DOMAIN given.bookings : given.bookings[n].real = given.bookings[m].real => n = m
  <2> SUFFICES ASSUME NEW n \in DOMAIN given.bookings, NEW m \in DOMAIN given.bookings,
                      given.bookings[n].real = given.bookings[m].real
               PROVE  n = m
    OBVIOUS
  <2>1. ~ (n < m) /\ ~ (m < n)
    BY <1>1, <1>2 DEF Ascending
  <2> QED
    BY <1>1, <2>1
<1>5. /\ \A n \in DOMAIN given.halls : given.halls[n].real \in Nat \ {0} /\ given.halls[n].real # nextId.halls
      /\ \A n \in DOMAIN given.bookings :
            given.bookings[n].real \in Nat \ {0} /\ given.bookings[n].real # nextId.bookings
  BY <1>1, <1>2 DEF Ascending
<1> QED
  BY <1>3, <1>4, <1>5

LEMMA RealFinds ==
    ASSUME StoresInv
    PROVE  /\ \A n \in DOMAIN given.halls : RealFindHall(given.halls[n].real) = HallRow(n)
           /\ \A n \in DOMAIN given.bookings : RealFindBooking(given.bookings[n].real) = BookingRow(n)
           /\ RealFindHall(nextId.halls) = Null
           /\ RealFindBooking(nextId.bookings) = Null
<1>1. /\ tables.halls = {HallRow(n) : n \in DOMAIN given.halls}
      /\ tables.bookings = {BookingRow(n) : n \in DOMAIN given.bookings}
  BY DEF StoresInv, SameRows
<1>2. \A n : HallRow(n).id = given.halls[n].real /\ BookingRow(n).id = given.bookings[n].real
  BY DEF HallRow, BookingRow
<1>3. ASSUME NEW n \in DOMAIN given.halls PROVE RealFindHall(given.halls[n].real) = HallRow(n)
  <2>1. HallRow(n) \in tables.halls /\ HallRow(n).id = given.halls[n].real
    BY <1>1, <1>2
  <2>2. \A row \in tables.halls : row.id = given.halls[n].real => row = HallRow(n)
    BY <1>1, <1>2, OwnIds
  <2> QED
    BY <2>1, <2>2 DEF RealFindHall, FindById
<1>4. ASSUME NEW n \in DOMAIN given.bookings
      PROVE  RealFindBooking(given.bookings[n].real) = BookingRow(n)
  <2>1. BookingRow(n) \in tables.bookings /\ BookingRow(n).id = given.bookings[n].real
    BY <1>1, <1>2
  <2>2. \A row \in tables.bookings : row.id = given.bookings[n].real => row = BookingRow(n)
    BY <1>1, <1>2, OwnIds
  <2> QED
    BY <2>1, <2>2 DEF RealFindBooking, FindById
<1>5. RealFindHall(nextId.halls) = Null /\ RealFindBooking(nextId.bookings) = Null
  <2>1. /\ \A row \in tables.halls : row.id # nextId.halls
        /\ \A row \in tables.bookings : row.id # nextId.bookings
    BY <1>1, <1>2, OwnIds
  <2> QED
    BY <2>1 DEF RealFindHall, RealFindBooking, FindById
<1> QED
  BY <1>3, <1>4, <1>5

LEMMA Positions ==
    ASSUME StoresInv
    PROVE  /\ \A n \in DOMAIN given.halls :
                 /\ PositionIn(given.halls, "fake", n) = n
                 /\ PositionIn(given.halls, "real", given.halls[n].real) = n
           /\ \A n \in DOMAIN given.bookings :
                 /\ PositionIn(given.bookings, "fake", n) = n
                 /\ PositionIn(given.bookings, "real", given.bookings[n].real) = n
<1>1. /\ \A n \in DOMAIN given.halls : given.halls[n].fake = n
      /\ \A n \in DOMAIN given.bookings : given.bookings[n].fake = n
  BY DEF StoresInv, FakeNumbered
<1>2. /\ \A n, m \in DOMAIN given.halls : given.halls[n].real = given.halls[m].real => n = m
      /\ \A n, m \in DOMAIN given.bookings : given.bookings[n].real = given.bookings[m].real => n = m
  BY OwnIds
<1> QED
  BY <1>1, <1>2 DEF PositionIn

\* A booking of the fake, as the contract names its hall.
Booked(booking, reminded) ==
    [hall |-> booking.hallId, date |-> booking.date, guests |-> booking.guests,
     bookedBy |-> booking.bookedBy, reminded |-> reminded]

LEMMA HeldByStores ==
    ASSUME StoresInv
    PROVE  /\ FakeHalls = [n \in DOMAIN given.halls |-> fake.halls[n].capacity]
           /\ RealHalls = [n \in DOMAIN given.halls |-> fake.halls[n].capacity]
           /\ FakeBookings = [n \in DOMAIN given.bookings |->
                                Booked(fake.bookings[n], fake.bookings[n].reminded)]
           /\ RealBookings = [n \in DOMAIN given.bookings |->
                                Booked(fake.bookings[n], Stored(fake.bookings[n].reminded))]
<1>1. FakeHalls = [n \in DOMAIN given.halls |-> fake.halls[n].capacity]
  BY FakeFinds DEF FakeHalls
<1>2. RealHalls = [n \in DOMAIN given.halls |-> fake.halls[n].capacity]
  <2>1. \A n \in DOMAIN given.halls : HallRow(n).capacity = fake.halls[n].capacity
    BY DEF HallRow
  <2> QED
    BY <2>1, RealFinds DEF RealHalls
<1>3. \A n \in DOMAIN given.bookings : fake.bookings[n].hallId \in DOMAIN given.halls
  BY DEF StoresInv, FakeNumbered
<1>4. ASSUME NEW n \in DOMAIN given.bookings
      PROVE  InContract(FakeFindBooking(given.bookings[n].fake), "fake") =
                Booked(fake.bookings[n], fake.bookings[n].reminded)
  <2>1. fake.bookings[n].id # 0
    BY AtPositions DEF StoresInv, FakeNumbered
  <2>2. fake.bookings[n] # Null
    BY <2>1 DEF Null
  <2>3. PositionIn(given.halls, "fake", fake.bookings[n].hallId) = fake.bookings[n].hallId
    BY <1>3, Positions
  <2> QED
    BY <2>2, <2>3, FakeFinds DEF InContract, Booked
<1>5. ASSUME NEW n \in DOMAIN given.bookings
      PROVE  InContract(RealFindBooking(given.bookings[n].real), "real") =
                Booked(fake.bookings[n], Stored(fake.bookings[n].reminded))
  <2>1. BookingRow(n).id # 0
    BY OwnIds DEF BookingRow
  <2>2. BookingRow(n) # Null
    BY <2>1 DEF Null
  <2>3. PositionIn(given.halls, "real", BookingRow(n).hallId) = fake.bookings[n].hallId
    BY <1>3, Positions DEF BookingRow
  <2> QED
    <3>1. RealFindBooking(given.bookings[n].real) = BookingRow(n)
      BY RealFinds
    <3>2. /\ BookingRow(n).date = fake.bookings[n].date /\ BookingRow(n).guests = fake.bookings[n].guests
          /\ BookingRow(n).bookedBy = fake.bookings[n].bookedBy
          /\ BookingRow(n).reminded = Stored(fake.bookings[n].reminded)
      BY DEF BookingRow
    <3> QED
      BY <2>2, <2>3, <3>1, <3>2 DEF InContract, Booked
<1> QED
  BY <1>1, <1>2, <1>4, <1>5 DEF FakeBookings, RealBookings

LEMMA AgreeingStores == StoresInv => StoresAgree
<1> SUFFICES ASSUME StoresInv PROVE StoresAgree
  OBVIOUS
<1>1. FakeHalls = RealHalls
  BY HeldByStores
<1>2. ASSUME NEW n \in DOMAIN given.bookings
      PROVE  RealBookings[n] =
               [FakeBookings[n] EXCEPT !.reminded = IF @ = Never THEN Never ELSE ToSecond(@)]
  <2>1. /\ FakeBookings[n] = Booked(fake.bookings[n], fake.bookings[n].reminded)
        /\ RealBookings[n] = Booked(fake.bookings[n], Stored(fake.bookings[n].reminded))
    BY HeldByStores
  <2> QED
    BY <2>1 DEF Booked, Stored
<1> QED
  BY <1>1, <1>2 DEF StoresAgree

\* After the same calls both stores hold the same halls and bookings, whatever ids the tables
\* gave, but for the fraction of a second that DATETIME rounds (in-memory-bookings.store.ts:12,
\* typeorm-bookings.store.ts:14).
THEOREM FakeHasNotDrifted == StoresSpec => []StoresAgree
<1> QED
  BY StoresAlways, AgreeingStores, PTL

-----------------------------------------------------------------------------
(***************************************************************************)
(* What each store answers.  The positions that a query selects and the    *)
(* rows of the table that it selects are paired by BookingRow, which keeps *)
(* their order.                                                            *)
(***************************************************************************)
LEMMA RowsOfPositions ==
    ASSUME StoresInv, NEW kept \in SUBSET DOMAIN given.bookings, NEW found,
           found = {BookingRow(n) : n \in kept}
    PROVE  /\ IsFiniteSet(kept)
           /\ [n \in kept |-> BookingRow(n)] \in Bijection(kept, found)
           /\ [n \in kept |-> n] \in [kept -> Int]
           /\ [row \in found |-> row.id] \in [found -> Int]
           /\ \A n, m \in kept : BookingRow(n).id < BookingRow(m).id <=> n < m
<1>1. DOMAIN given.bookings = 1 .. Len(given.bookings) /\ Len(given.bookings) \in Nat
  BY AtPositions
<1>2. IsFiniteSet(kept)
  <2>1. 1 \in Int /\ Len(given.bookings) \in Int
    BY <1>1
  <2>2. IsFiniteSet(DOMAIN given.bookings)
    BY <1>1, <2>1, FS_Interval
  <2> QED
    BY <2>2, FS_Subset
<1>3. \A n \in kept : n \in Nat /\ BookingRow(n).id = given.bookings[n].real /\ BookingRow(n).id \in Nat
  BY <1>1, OwnIds DEF BookingRow
<1>4. \A n, m \in kept : BookingRow(n).id = BookingRow(m).id => n = m
  BY <1>3, OwnIds
<1>5. \A n, m \in kept : n < m => BookingRow(n).id < BookingRow(m).id
  BY <1>3 DEF StoresInv, Ascending
<1>6. \A n, m \in kept : BookingRow(n).id < BookingRow(m).id <=> n < m
  BY <1>3, <1>4, <1>5
<1>7. [n \in kept |-> BookingRow(n)] \in Bijection(kept, found)
  <2> DEFINE f == [n \in kept |-> BookingRow(n)]
  <2>1. f \in [kept -> found]
    OBVIOUS
  <2>2. \A n, m \in kept : f[n] = f[m] => n = m
    BY <1>4
  <2>3. \A row \in found : \E n \in kept : f[n] = row
    OBVIOUS
  <2> QED
    BY <2>1, <2>2, <2>3 DEF Bijection, Injection, Surjection, IsInjective
<1>8. [n \in kept |-> n] \in [kept -> Int] /\ [row \in found |-> row.id] \in [found -> Int]
  BY <1>3
<1> QED
  BY <1>2, <1>6, <1>7, <1>8

\* The fake's filter is in the order of the positions, and so is the table's ORDER BY id.
LEMMA ListsOfPositions ==
    ASSUME StoresInv, NEW kept \in SUBSET DOMAIN given.bookings, NEW found,
           found = {BookingRow(n) : n \in kept}
    PROVE  /\ OrderedBy(kept, [n \in kept |-> n]) \in [1 .. Cardinality(kept) -> kept]
           /\ NamedBy([k \in DOMAIN OrderedBy(kept, [n \in kept |-> n]) |->
                           fake.bookings[OrderedBy(kept, [n \in kept |-> n])[k]]], "fake") =
                 OrderedBy(kept, [n \in kept |-> n])
           /\ NamedBy(OrderedById(found), "real") = OrderedBy(kept, [n \in kept |-> n])
<1> DEFINE key == [n \in kept |-> n]
           at  == OrderedBy(kept, key)
           ids == [row \in found |-> row.id]
           f   == [n \in kept |-> BookingRow(n)]
<1>1. /\ IsFiniteSet(kept) /\ key \in [kept -> Int] /\ f \in Bijection(kept, found)
      /\ ids \in [found -> Int]
      /\ \A n, m \in kept : BookingRow(n).id < BookingRow(m).id <=> n < m
  BY RowsOfPositions
<1>2. \A n, m \in kept : key[n] = key[m] => n = m
  OBVIOUS
<1>3. at \in [1 .. Cardinality(kept) -> kept]
  BY <1>1, <1>2, OrderedRows
<1>4. \A n \in kept : key[n] = n /\ f[n] = BookingRow(n)
  BY Zenon
<1>5. \A n \in kept : ids[f[n]] = BookingRow(n).id /\ f[n].id = given.bookings[n].real
  BY DEF BookingRow
<1> HIDE DEF key, at, ids, f
<1>6. NamedBy([k \in DOMAIN at |-> fake.bookings[at[k]]], "fake") = at
  <2>1. \A n \in kept : PositionIn(given.bookings, "fake", fake.bookings[n].id) = n
    BY Positions DEF StoresInv, FakeNumbered
  <2>2. NamedBy([k \in DOMAIN at |-> fake.bookings[at[k]]], "fake") =
          [k \in DOMAIN at |-> PositionIn(given.bookings, "fake", fake.bookings[at[k]].id)]
    BY DEF NamedBy
  <2> QED
    BY <1>3, <2>1, <2>2
<1>7. NamedBy(OrderedById(found), "real") = at
  <2>1. \A n, m \in kept : ids[f[n]] < ids[f[m]] <=> key[n] < key[m]
    BY <1>1, <1>4, <1>5
  <2>2. /\ OrderedBy(found, ids) \in [1 .. Cardinality(kept) -> found]
        /\ \A k \in 1 .. Cardinality(kept) : OrderedBy(found, ids)[k] = f[at[k]]
    <3>1. OrderedBy(found, ids) \in [1 .. Cardinality(kept) -> found]
      BY <1>1, <1>2, <2>1, SameOrder
    <3>2. \A k \in 1 .. Cardinality(kept) : OrderedBy(found, ids)[k] = f[OrderedBy(kept, key)[k]]
      BY <1>1, <1>2, <2>1, SameOrder
    <3> QED
      BY <3>1, <3>2 DEF at
  <2>3. \A n \in kept : PositionIn(given.bookings, "real", f[n].id) = n
    BY <1>5, Positions
  <2>4. NamedBy(OrderedById(found), "real") =
          [k \in 1 .. Cardinality(kept) |-> PositionIn(given.bookings, "real", f[at[k]].id)]
    BY <2>2 DEF NamedBy, OrderedById, ids
  <2> QED
    BY <1>3, <2>3, <2>4
<1> QED
  BY <1>3, <1>6, <1>7 DEF at, key

LEMMA SumsOfPositions ==
    ASSUME StoresInv, NEW kept \in SUBSET DOMAIN given.bookings, NEW found,
           found = {BookingRow(n) : n \in kept}
    PROVE  SumOf(found, [row \in tables.bookings |-> row.guests]) =
             SumOf(kept, [n \in DOMAIN given.bookings |-> fake.bookings[n].guests])
<1> DEFINE f       == [n \in kept |-> BookingRow(n)]
           guests  == [n \in DOMAIN given.bookings |-> fake.bookings[n].guests]
           rowsFor == [row \in tables.bookings |-> row.guests]
<1>1. IsFiniteSet(kept) /\ f \in Bijection(kept, found)
  BY RowsOfPositions
<1>2. \A n \in kept : guests[n] \in Nat
  BY AtPositions, StoresAssumption DEF FakeBooking
<1>3. \A n \in kept : rowsFor[f[n]] = guests[n]
  <2> SUFFICES ASSUME NEW n \in kept PROVE rowsFor[f[n]] = guests[n]
    OBVIOUS
  <2>1. BookingRow(n) \in tables.bookings /\ f[n] = BookingRow(n)
    BY DEF StoresInv, SameRows
  <2>2. BookingRow(n).guests = fake.bookings[n].guests
    BY DEF BookingRow
  <2> QED
    BY <2>1, <2>2
<1> HIDE DEF f, guests, rowsFor
<1>4. SumOf(found, rowsFor) = SumOf(kept, guests)
  BY <1>1, <1>2, <1>3, SameSum
<1> QED
  BY <1>4 DEF guests, rowsFor

-----------------------------------------------------------------------------
(***************************************************************************)
(* The answers of the contract, over what either store holds.              *)
(***************************************************************************)
LEMMA StoredOrNever ==
    ASSUME StoresInv
    PROVE  \A n \in DOMAIN given.bookings :
             Stored(fake.bookings[n].reminded) = Never <=> fake.bookings[n].reminded = Never
<1> SUFFICES ASSUME NEW n \in DOMAIN given.bookings, fake.bookings[n].reminded # Never
             PROVE  Stored(fake.bookings[n].reminded) # Never
  BY DEF Stored
<1>1. fake.bookings[n].reminded \in Nat
  BY AtPositions, StoresAssumption DEF FakeBooking, Reminders
<1>2. ToSecond(fake.bookings[n].reminded) \in Nat
  BY <1>1 DEF ToSecond
<1> QED
  BY <1>2, StoresAssumption DEF Stored

LEMMA HeldFields ==
    ASSUME StoresInv
    PROVE  /\ DOMAIN FakeBookings = DOMAIN given.bookings /\ DOMAIN RealBookings = DOMAIN given.bookings
           /\ \A n \in DOMAIN given.bookings :
                 /\ FakeBookings[n].hall = fake.bookings[n].hallId
                 /\ FakeBookings[n].date = fake.bookings[n].date
                 /\ FakeBookings[n].guests = fake.bookings[n].guests
                 /\ FakeBookings[n].bookedBy = fake.bookings[n].bookedBy
                 /\ FakeBookings[n].reminded = fake.bookings[n].reminded
           /\ \A n \in DOMAIN given.bookings :
                 /\ RealBookings[n].hall = fake.bookings[n].hallId
                 /\ RealBookings[n].date = fake.bookings[n].date
                 /\ RealBookings[n].guests = fake.bookings[n].guests
                 /\ RealBookings[n].bookedBy = fake.bookings[n].bookedBy
                 /\ RealBookings[n].reminded = Stored(fake.bookings[n].reminded)
BY HeldByStores DEF Booked

LEMMA SelectedPositions ==
    ASSUME StoresInv, NEW user, NEW date
    PROVE  /\ {n \in DOMAIN FakeBookings : FakeBookings[n].bookedBy = user} =
                 {n \in DOMAIN given.bookings : fake.bookings[n].bookedBy = user}
           /\ {n \in DOMAIN RealBookings : RealBookings[n].bookedBy = user} =
                 {n \in DOMAIN given.bookings : fake.bookings[n].bookedBy = user}
           /\ {n \in DOMAIN FakeBookings : FakeBookings[n].date = date /\ FakeBookings[n].reminded = Never} =
                 {n \in DOMAIN given.bookings :
                     fake.bookings[n].date = date /\ fake.bookings[n].reminded = Never}
           /\ {n \in DOMAIN RealBookings : RealBookings[n].date = date /\ RealBookings[n].reminded = Never} =
                 {n \in DOMAIN given.bookings :
                     fake.bookings[n].date = date /\ fake.bookings[n].reminded = Never}
<1>1. DOMAIN FakeBookings = DOMAIN given.bookings /\ DOMAIN RealBookings = DOMAIN given.bookings
  BY HeldFields
<1>2. \A n \in DOMAIN given.bookings :
        Stored(fake.bookings[n].reminded) = Never <=> fake.bookings[n].reminded = Never
  BY StoredOrNever
<1> QED
  BY <1>1, <1>2, HeldFields

LEMMA SummedPositions ==
    ASSUME StoresInv, NEW hall, NEW date
    PROVE  /\ {n \in DOMAIN FakeBookings : FakeBookings[n].hall = hall /\ FakeBookings[n].date = date} =
                 {n \in DOMAIN given.bookings : fake.bookings[n].hallId = hall /\ fake.bookings[n].date = date}
           /\ {n \in DOMAIN RealBookings : RealBookings[n].hall = hall /\ RealBookings[n].date = date} =
                 {n \in DOMAIN given.bookings : fake.bookings[n].hallId = hall /\ fake.bookings[n].date = date}
           /\ [n \in DOMAIN FakeBookings |-> FakeBookings[n].guests] =
                 [n \in DOMAIN given.bookings |-> fake.bookings[n].guests]
           /\ [n \in DOMAIN RealBookings |-> RealBookings[n].guests] =
                 [n \in DOMAIN given.bookings |-> fake.bookings[n].guests]
BY HeldFields

LEMMA SelectedRows ==
    ASSUME StoresInv, NEW user, NEW date
    PROVE  /\ {row \in tables.bookings : row.bookedBy = user} =
                 {BookingRow(n) : n \in {n \in DOMAIN given.bookings : fake.bookings[n].bookedBy = user}}
           /\ {row \in tables.bookings : row.date = date /\ row.reminded = Never} =
                 {BookingRow(n) : n \in {n \in DOMAIN given.bookings :
                                           fake.bookings[n].date = date /\ fake.bookings[n].reminded = Never}}
<1>1. tables.bookings = {BookingRow(n) : n \in DOMAIN given.bookings}
  BY DEF StoresInv, SameRows
<1>2. \A n \in DOMAIN given.bookings :
        /\ BookingRow(n).bookedBy = fake.bookings[n].bookedBy /\ BookingRow(n).date = fake.bookings[n].date
        /\ BookingRow(n).reminded = Stored(fake.bookings[n].reminded)
  BY DEF BookingRow
<1>3. \A n \in DOMAIN given.bookings :
        Stored(fake.bookings[n].reminded) = Never <=> fake.bookings[n].reminded = Never
  BY StoredOrNever
<1> QED
  BY <1>1, <1>2, <1>3

LEMMA SelectedHallRows ==
    ASSUME StoresInv, NEW hall \in DOMAIN given.halls, NEW date
    PROVE  {row \in tables.bookings : row.hallId = given.halls[hall].real /\ row.date = date} =
           {BookingRow(n) : n \in {n \in DOMAIN given.bookings :
                                     fake.bookings[n].hallId = hall /\ fake.bookings[n].date = date}}
<1>1. tables.bookings = {BookingRow(n) : n \in DOMAIN given.bookings}
  BY DEF StoresInv, SameRows
<1>2. \A n \in DOMAIN given.bookings :
        /\ BookingRow(n).date = fake.bookings[n].date
        /\ BookingRow(n).hallId = given.halls[fake.bookings[n].hallId].real
  BY DEF BookingRow
<1>3. \A n \in DOMAIN given.bookings :
        given.halls[fake.bookings[n].hallId].real = given.halls[hall].real <=> fake.bookings[n].hallId = hall
  BY OwnIds DEF StoresInv, FakeNumbered
<1> QED
  BY <1>1, <1>2, <1>3

LEMMA AnswersTheSums ==
    ASSUME StoresInv, NEW hall \in DOMAIN given.halls, NEW date \in Dates
    PROVE  /\ FakeGuestsBooked(given.halls[hall].fake, date) = FakeContract!GuestsBooked(hall, date)
           /\ RealGuestsBooked(given.halls[hall].real, date) = RealContract!GuestsBooked(hall, date)
<1> DEFINE kept   == {n \in DOMAIN given.bookings :
                        fake.bookings[n].hallId = hall /\ fake.bookings[n].date = date}
           guests == [n \in DOMAIN given.bookings |-> fake.bookings[n].guests]
           found  == {row \in tables.bookings : row.hallId = given.halls[hall].real /\ row.date = date}
<1>1. FakeContract!GuestsBooked(hall, date) = SumOf(kept, guests)
  <2>1. FakeContract!GuestsBooked(hall, date) = FakeContract!SumOf(kept, guests)
    <3>1. {n \in DOMAIN FakeBookings : FakeBookings[n].hall = hall /\ FakeBookings[n].date = date} = kept
      BY SummedPositions
    <3>2. [n \in DOMAIN FakeBookings |-> FakeBookings[n].guests] = guests
      BY SummedPositions
    <3> QED
      BY <3>1, <3>2, Zenon DEF FakeContract!GuestsBooked
  <2>2. FakeContract!SumOf(kept, guests) = SumOf(kept, guests)
    BY Zenon DEF FakeContract!SumOf, SumOf, FakeContract!Cardinality, Cardinality
  <2> QED
    BY <2>1, <2>2
<1>2. RealContract!GuestsBooked(hall, date) = SumOf(kept, guests)
  <2>1. RealContract!GuestsBooked(hall, date) = RealContract!SumOf(kept, guests)
    <3>1. {n \in DOMAIN RealBookings : RealBookings[n].hall = hall /\ RealBookings[n].date = date} = kept
      BY SummedPositions
    <3>2. [n \in DOMAIN RealBookings |-> RealBookings[n].guests] = guests
      BY SummedPositions
    <3> QED
      BY <3>1, <3>2, Zenon DEF RealContract!GuestsBooked
  <2>2. RealContract!SumOf(kept, guests) = SumOf(kept, guests)
    BY Zenon DEF RealContract!SumOf, SumOf, RealContract!Cardinality, Cardinality
  <2> QED
    BY <2>1, <2>2
<1>3. FakeGuestsBooked(given.halls[hall].fake, date) = SumOf(kept, guests)
  <2>1. given.halls[hall].fake = hall /\ DOMAIN fake.bookings = DOMAIN given.bookings
    BY AtPositions DEF StoresInv, FakeNumbered
  <2> QED
    BY <2>1, Zenon DEF FakeGuestsBooked
<1>4. RealGuestsBooked(given.halls[hall].real, date) = SumOf(kept, guests)
  <2>1. found = {BookingRow(n) : n \in kept}
    BY SelectedHallRows
  <2>2. RealGuestsBooked(given.halls[hall].real, date) = SumOf(found, [row \in tables.bookings |-> row.guests])
    BY Zenon DEF RealGuestsBooked
  <2>3. kept \in SUBSET DOMAIN given.bookings
    OBVIOUS
  <2> HIDE DEF kept, found
  <2> QED
    BY <2>1, <2>2, <2>3, SumsOfPositions
<1> QED
  BY <1>1, <1>2, <1>3, <1>4

LEMMA AnswersTheLists ==
    ASSUME StoresInv, NEW user, NEW date
    PROVE  /\ NamedBy(FakeBookingsFor(user), "fake") = FakeContract!BookingsFor(user)
           /\ NamedBy(RealBookingsFor(user), "real") = RealContract!BookingsFor(user)
           /\ NamedBy(FakeDueForReminder(date), "fake") = FakeContract!DueForReminder(date)
           /\ NamedBy(RealDueForReminder(date), "real") = RealContract!DueForReminder(date)
<1> DEFINE mine      == {n \in DOMAIN given.bookings : fake.bookings[n].bookedBy = user}
           due       == {n \in DOMAIN given.bookings :
                           fake.bookings[n].date = date /\ fake.bookings[n].reminded = Never}
           inOrder(kept) == OrderedBy(kept, [n \in kept |-> n])
<1>1. \A kept : FakeContract!OldestFirst(kept) = inOrder(kept) /\ RealContract!OldestFirst(kept) = inOrder(kept)
  BY Zenon DEF FakeContract!OldestFirst, FakeContract!OrderedBy, FakeContract!Cardinality,
               RealContract!OldestFirst, RealContract!OrderedBy, RealContract!Cardinality,
               OrderedBy, Cardinality
<1>2. /\ FakeContract!BookingsFor(user) = inOrder(mine) /\ RealContract!BookingsFor(user) = inOrder(mine)
      /\ FakeContract!DueForReminder(date) = inOrder(due) /\ RealContract!DueForReminder(date) = inOrder(due)
  BY <1>1, SelectedPositions, Zenon
     DEF FakeContract!BookingsFor, RealContract!BookingsFor, FakeContract!DueForReminder,
         RealContract!DueForReminder
<1>3. /\ FakeBookingsFor(user) = [k \in DOMAIN inOrder(mine) |-> fake.bookings[inOrder(mine)[k]]]
      /\ FakeDueForReminder(date) = [k \in DOMAIN inOrder(due) |-> fake.bookings[inOrder(due)[k]]]
  <2>1. DOMAIN fake.bookings = DOMAIN given.bookings
    BY Lengths
  <2> QED
    BY <2>1, Zenon DEF FakeBookingsFor, FakeDueForReminder, Filter
<1>4. /\ RealBookingsFor(user) = OrderedById({BookingRow(n) : n \in mine})
      /\ RealDueForReminder(date) = OrderedById({BookingRow(n) : n \in due})
  BY SelectedRows, Zenon DEF RealBookingsFor, RealDueForReminder
<1>5. mine \in SUBSET DOMAIN given.bookings /\ due \in SUBSET DOMAIN given.bookings
  OBVIOUS
<1> HIDE DEF mine, due
<1>6. /\ NamedBy([k \in DOMAIN inOrder(mine) |-> fake.bookings[inOrder(mine)[k]]], "fake") = inOrder(mine)
      /\ NamedBy(OrderedById({BookingRow(n) : n \in mine}), "real") = inOrder(mine)
  BY <1>5, ListsOfPositions
<1>7. /\ NamedBy([k \in DOMAIN inOrder(due) |-> fake.bookings[inOrder(due)[k]]], "fake") = inOrder(due)
      /\ NamedBy(OrderedById({BookingRow(n) : n \in due}), "real") = inOrder(due)
  BY <1>5, ListsOfPositions
<1> HIDE DEF inOrder
<1> QED
  BY <1>2, <1>3, <1>4, <1>6, <1>7

\* A DATETIME column moves a time by at most half a second, and a whole second not at all.
LEMMA ToSecondRounds ==
    ASSUME NEW at \in Nat
    PROVE  ToSecond(at) \in (IF at % 2 = 0 THEN {at} ELSE {at - 1, at, at + 1})
BY DEF ToSecond

LEMMA ReadsBack ==
    ASSUME NEW at \in Reminders
    PROVE  /\ {at, Stored(at)} \subseteq FakeContract!ReadBack(at)
           /\ {at, Stored(at)} \subseteq RealContract!ReadBack(at)
<1>1. CASE at = Never
  BY <1>1 DEF Stored, FakeContract!ReadBack, RealContract!ReadBack
<1>2. CASE at # Never
  <2>1. at \in Nat
    BY <1>2, StoresAssumption DEF Reminders
  <2>2. {at, ToSecond(at)} \subseteq IF at % 2 = 0 THEN {at} ELSE {at - 1, at, at + 1}
    BY <2>1, ToSecondRounds
  <2> QED
    BY <1>2, <2>2 DEF Stored, FakeContract!ReadBack, RealContract!ReadBack
<1> QED
  BY <1>1, <1>2

LEMMA AnswersHold == StoresInv => AnswersAsPromised
<1> SUFFICES ASSUME StoresInv PROVE AnswersAsPromised
  OBVIOUS
<1>1. ASSUME NEW n \in DOMAIN given.bookings
      PROVE  {FakeBookings[n].reminded, RealBookings[n].reminded} \subseteq
                FakeContract!ReadBack(given.bookings[n].sentAt)
  <2>1. fake.bookings[n].reminded = given.bookings[n].sentAt
    BY DEF StoresInv, FakeNumbered
  <2>2. fake.bookings[n].reminded \in Reminders
    BY AtPositions DEF FakeBooking
  <2> QED
    BY <2>1, <2>2, ReadsBack, HeldFields
<1>2. /\ FakeFindBooking(Unknown.fake) = Null /\ RealFindBooking(Unknown.real) = Null
      /\ FakeFindHall(Len(given.halls) + 1) = Null /\ RealFindHall(nextId.halls) = Null
  <2>1. Unknown.fake = Len(given.bookings) + 1 /\ Unknown.real = nextId.bookings
    BY Lengths DEF Unknown
  <2> QED
    BY <2>1, FakeFinds, RealFinds
<1>3. \A hall \in DOMAIN given.halls, date \in Dates :
        /\ FakeGuestsBooked(given.halls[hall].fake, date) = FakeContract!GuestsBooked(hall, date)
        /\ RealGuestsBooked(given.halls[hall].real, date) = RealContract!GuestsBooked(hall, date)
  BY AnswersTheSums
<1>4. /\ \A user \in Callers :
          /\ NamedBy(FakeBookingsFor(user), "fake") = FakeContract!BookingsFor(user)
          /\ NamedBy(RealBookingsFor(user), "real") = RealContract!BookingsFor(user)
      /\ \A date \in Dates :
          /\ NamedBy(FakeDueForReminder(date), "fake") = FakeContract!DueForReminder(date)
          /\ NamedBy(RealDueForReminder(date), "real") = RealContract!DueForReminder(date)
  BY AnswersTheLists
<1> QED
  BY <1>1, <1>2, <1>3, <1>4, Zenon DEF AnswersAsPromised

\* Both stores answer as the shared contract says, for any number of halls and bookings: the sums,
\* the lists oldest first, the second a reminder was sent at, and null for an id they never gave
\* (in-memory-bookings.store.ts:12, typeorm-bookings.store.ts:14, bookings-store.contract.ts:14).
THEOREM StoresAnswerAsPromised == StoresSpec => []AnswersAsPromised
<1> QED
  BY StoresAlways, AnswersHold, PTL

-----------------------------------------------------------------------------
(***************************************************************************)
(* Each call on a store is the same call of the contract, or none.         *)
(***************************************************************************)
LEMMA OneMore ==
    ASSUME NEW S, NEW seq \in Seq(S), NEW more \in Seq(S), Len(more) = Len(seq) + 1,
           \A n \in 1 .. Len(seq) : more[n] = seq[n]
    PROVE  /\ more = Append(seq, more[Len(seq) + 1])
           /\ more # << >> /\ Last(more) = more[Len(seq) + 1] /\ Front(more) = seq
<1>1. Len(seq) \in Nat /\ more[Len(seq) + 1] \in S
  OBVIOUS
<1>2. /\ Append(seq, more[Len(seq) + 1]) \in Seq(S)
      /\ Len(Append(seq, more[Len(seq) + 1])) = Len(seq) + 1
      /\ \A n \in 1 .. Len(seq) : Append(seq, more[Len(seq) + 1])[n] = seq[n]
      /\ Append(seq, more[Len(seq) + 1])[Len(seq) + 1] = more[Len(seq) + 1]
  BY <1>1, AppendProperties
<1>3. \A n \in 1 .. Len(seq) + 1 : n \in 1 .. Len(seq) \/ n = Len(seq) + 1
  BY <1>1
<1>4. more = Append(seq, more[Len(seq) + 1])
  BY <1>2, <1>3, SeqEqual
<1>5. Last(more) = more[Len(seq) + 1] /\ more # << >>
  BY <1>1 DEF Last
<1>6. Front(more) = seq
  BY <1>1, <1>4 DEF Front
<1> QED
  BY <1>4, <1>5, <1>6

\* What the stores hold, as the contract's two lists.
ContractBooking ==
    [hall: Nat, date: Dates, guests: Parties, bookedBy: Callers, reminded: Nat \cup {Never}]

Held ==
    /\ Len(given.halls) \in Nat /\ DOMAIN given.halls = 1 .. Len(given.halls)
    /\ Len(given.bookings) \in Nat /\ DOMAIN given.bookings = 1 .. Len(given.bookings)
    /\ Len(fake.halls) = Len(given.halls) /\ Len(fake.bookings) = Len(given.bookings)
    /\ \A n \in DOMAIN given.bookings :
          fake.bookings[n] \in FakeBooking /\ fake.bookings[n].hallId \in DOMAIN given.halls
    /\ FakeHalls = [n \in DOMAIN given.halls |-> fake.halls[n].capacity]
    /\ RealHalls = [n \in DOMAIN given.halls |-> fake.halls[n].capacity]
    /\ FakeBookings = [n \in DOMAIN given.bookings |-> Booked(fake.bookings[n], fake.bookings[n].reminded)]
    /\ RealBookings = [n \in DOMAIN given.bookings |->
                         Booked(fake.bookings[n], Stored(fake.bookings[n].reminded))]
    /\ FakeHalls \in Seq(Capacities) /\ RealHalls \in Seq(Capacities)
    /\ FakeBookings \in Seq(ContractBooking) /\ RealBookings \in Seq(ContractBooking)
    /\ Len(FakeHalls) = Len(given.halls) /\ Len(RealHalls) = Len(given.halls)
    /\ Len(FakeBookings) = Len(given.bookings) /\ Len(RealBookings) = Len(given.bookings)

LEMMA HoldsLists == StoresInv => Held
<1> SUFFICES ASSUME StoresInv PROVE Held
  OBVIOUS
<1>1. /\ Len(given.halls) \in Nat /\ DOMAIN given.halls = 1 .. Len(given.halls)
      /\ Len(given.bookings) \in Nat /\ DOMAIN given.bookings = 1 .. Len(given.bookings)
  BY AtPositions
<1>2. /\ FakeHalls \in [1 .. Len(given.halls) -> Capacities]
      /\ RealHalls \in [1 .. Len(given.halls) -> Capacities]
  <2>1. \A n \in DOMAIN given.halls : fake.halls[n].capacity \in Capacities
    BY AtPositions DEF FakeHall
  <2> QED
    BY <1>1, <2>1, HeldByStores
<1>3. \A n \in DOMAIN given.bookings :
        /\ fake.bookings[n].hallId \in Nat /\ fake.bookings[n].date \in Dates
        /\ fake.bookings[n].guests \in Parties /\ fake.bookings[n].bookedBy \in Callers
        /\ fake.bookings[n].reminded \in Reminders
  BY AtPositions DEF FakeBooking
<1>4. \A at \in Reminders : {at, Stored(at)} \subseteq Nat \cup {Never}
  <2> SUFFICES ASSUME NEW at \in Reminders PROVE {at, Stored(at)} \subseteq Nat \cup {Never}
    OBVIOUS
  <2>1. CASE at = Never
    BY <2>1 DEF Stored
  <2>2. CASE at \in Nat
    <3>1. ToSecond(at) \in Nat
      BY <2>2 DEF ToSecond
    <3> QED
      BY <2>2, <3>1 DEF Stored
  <2> QED
    BY <2>1, <2>2, StoresAssumption DEF Reminders
<1>5. \A n \in DOMAIN given.bookings :
        /\ Booked(fake.bookings[n], fake.bookings[n].reminded) \in ContractBooking
        /\ Booked(fake.bookings[n], Stored(fake.bookings[n].reminded)) \in ContractBooking
  BY <1>3, <1>4 DEF Booked, ContractBooking
<1>6. /\ FakeBookings \in [1 .. Len(given.bookings) -> ContractBooking]
      /\ RealBookings \in [1 .. Len(given.bookings) -> ContractBooking]
  BY <1>1, <1>5, HeldByStores
<1>7. FakeHalls \in Seq(Capacities) /\ RealHalls \in Seq(Capacities)
  BY <1>1, <1>2, SeqDef
<1>8. FakeBookings \in Seq(ContractBooking) /\ RealBookings \in Seq(ContractBooking)
  BY <1>1, <1>6, SeqDef
<1>9. /\ Len(FakeHalls) = Len(given.halls) /\ Len(RealHalls) = Len(given.halls)
      /\ Len(FakeBookings) = Len(given.bookings) /\ Len(RealBookings) = Len(given.bookings)
  BY <1>1, <1>2, <1>6, <1>7, <1>8, LenProperties
<1>10. /\ Len(fake.halls) = Len(given.halls) /\ Len(fake.bookings) = Len(given.bookings)
       /\ \A n \in DOMAIN given.bookings :
             fake.bookings[n] \in FakeBooking /\ fake.bookings[n].hallId \in DOMAIN given.halls
  BY AtPositions DEF StoresInv, FakeNumbered
<1> QED
  BY <1>1, <1>7, <1>8, <1>9, <1>10, HeldByStores DEF Held

LEMMA AddHallAdds ==
    ASSUME StoresInv, StoresInv', NEW capacity \in Capacities, AddHall(capacity)
    PROVE  /\ FakeHalls' = Append(FakeHalls, capacity) /\ RealHalls' = Append(RealHalls, capacity)
           /\ FakeBookings' = FakeBookings /\ RealBookings' = RealBookings
<1>1. Held /\ Held'
  BY HoldsLists, PTL
<1>2. PICK hall : hall = [id |-> Len(fake.halls) + 1, capacity |-> capacity]
  OBVIOUS
<1>3. /\ fake'.halls = Append(fake.halls, hall) /\ fake'.bookings = fake.bookings
      /\ given'.bookings = given.bookings
  BY <1>2, AtPositions DEF AddHall
<1>4. /\ Len(fake'.halls) = Len(fake.halls) + 1
      /\ \A n \in 1 .. Len(fake.halls) : fake'.halls[n] = fake.halls[n]
      /\ fake'.halls[Len(fake.halls) + 1].capacity = capacity
  <2>1. Len(fake.halls) \in Nat /\ fake.halls \in Seq(FakeHall) /\ hall \in FakeHall /\ hall.capacity = capacity
    BY <1>2, AtPositions DEF FakeHall
  <2> QED
    BY <1>3, <2>1, AppendProperties
<1>5. Len(given'.halls) = Len(given.halls) + 1
  BY <1>1, <1>4 DEF Held
<1>6. \A n \in 1 .. Len(given.halls) : FakeHalls'[n] = FakeHalls[n] /\ RealHalls'[n] = RealHalls[n]
  BY <1>1, <1>4, <1>5 DEF Held
<1>7. /\ FakeHalls'[Len(given.halls) + 1] = capacity
      /\ RealHalls'[Len(given.halls) + 1] = capacity
  BY <1>1, <1>4, <1>5 DEF Held
<1>8. FakeHalls' = Append(FakeHalls, capacity)
  <2>1. /\ FakeHalls \in Seq(Capacities) /\ FakeHalls' \in Seq(Capacities)
        /\ Len(FakeHalls') = Len(FakeHalls) + 1 /\ Len(FakeHalls) = Len(given.halls)
    BY <1>1, <1>5 DEF Held
  <2> QED
    BY <1>6, <1>7, <2>1, OneMore
<1>9. RealHalls' = Append(RealHalls, capacity)
  <2>1. /\ RealHalls \in Seq(Capacities) /\ RealHalls' \in Seq(Capacities)
        /\ Len(RealHalls') = Len(RealHalls) + 1 /\ Len(RealHalls) = Len(given.halls)
    BY <1>1, <1>5 DEF Held
  <2> QED
    BY <1>6, <1>7, <2>1, OneMore
<1>10. FakeBookings' = FakeBookings /\ RealBookings' = RealBookings
  BY <1>1, <1>3 DEF Held
<1> QED
  BY <1>8, <1>9, <1>10

LEMMA SaveAdds ==
    ASSUME StoresInv, StoresInv', NEW hall, NEW date, NEW guests, NEW user,
           Save(hall, date, guests, user)
    PROVE  /\ FakeHalls' = FakeHalls /\ RealHalls' = RealHalls
           /\ FakeBookings' # << >> /\ Front(FakeBookings') = FakeBookings
           /\ RealBookings' # << >> /\ Front(RealBookings') = RealBookings
           /\ {Last(FakeBookings'), Last(RealBookings')} \subseteq
                 [hall: DOMAIN FakeHalls, date: Dates, guests: Parties, bookedBy: Callers, reminded: {Never}]
<1>1. Held /\ Held'
  BY HoldsLists, PTL
<1>2. PICK booking : fake'.bookings = Append(fake.bookings, booking) /\ booking.reminded = Never
  <2> DEFINE asked == [id |-> 0, hallId |-> hall.fake, date |-> date, guests |-> guests,
                       bookedBy |-> user, reminded |-> 0]
             saved == [asked EXCEPT !.id = Len(fake.bookings) + 1, !.reminded = Never]
  <2>1. fake' = [fake EXCEPT !.bookings = Append(fake.bookings, saved)]
    BY Zenon DEF Save, FakeSave
  <2>2. saved.reminded = Never
    OBVIOUS
  <2> HIDE DEF saved
  <2>3. fake'.bookings = Append(fake.bookings, saved)
    BY <2>1, AtPositions
  <2> QED
    BY <2>2, <2>3
<1>3. fake'.halls = fake.halls /\ given'.halls = given.halls
  BY AtPositions DEF Save
<1>4. /\ Len(fake'.bookings) = Len(fake.bookings) + 1
      /\ \A n \in 1 .. Len(fake.bookings) : fake'.bookings[n] = fake.bookings[n]
      /\ fake'.bookings[Len(fake.bookings) + 1].reminded = Never
  <2>1. fake.bookings \in Seq(FakeBooking \cup {booking}) /\ booking \in FakeBooking \cup {booking}
    BY AtPositions, SeqMonotonic
  <2> QED
    BY <1>2, <2>1, AppendProperties
<1>5. Len(given'.bookings) = Len(given.bookings) + 1
  BY <1>1, <1>4 DEF Held
<1>6. FakeHalls' = FakeHalls /\ RealHalls' = RealHalls /\ DOMAIN FakeHalls = DOMAIN given.halls
  BY <1>1, <1>3 DEF Held
<1>7. \A n \in 1 .. Len(given.bookings) :
        FakeBookings'[n] = FakeBookings[n] /\ RealBookings'[n] = RealBookings[n]
  BY <1>1, <1>4, <1>5 DEF Held
<1>8. PICK n : n = Len(given.bookings) + 1
  OBVIOUS
<1>9. /\ fake'.bookings[n] \in FakeBooking /\ fake'.bookings[n].hallId \in DOMAIN given.halls
      /\ fake'.bookings[n].reminded = Never
      /\ FakeBookings'[n] = Booked(fake'.bookings[n], Never)
      /\ RealBookings'[n] = Booked(fake'.bookings[n], Never)
  <2>1. n \in DOMAIN given'.bookings
    BY <1>1, <1>5, <1>8 DEF Held
  <2>2. fake'.bookings[n].reminded = Never
    BY <1>1, <1>4, <1>8 DEF Held
  <2>3. fake'.bookings[n].hallId \in DOMAIN given.halls
    BY <1>1, <1>3, <2>1 DEF Held
  <2>4. fake'.bookings[n] \in FakeBooking
    BY <1>1, <2>1 DEF Held, FakeBooking, Reminders
  <2>5. FakeBookings'[n] = Booked(fake'.bookings[n], fake'.bookings[n].reminded)
    BY <1>1, <2>1 DEF Held
  <2>6. RealBookings'[n] = Booked(fake'.bookings[n], Stored(fake'.bookings[n].reminded))
    BY <1>1, <2>1 DEF Held
  <2>7. Stored(Never) = Never
    BY DEF Stored
  <2> QED
    BY <2>2, <2>3, <2>4, <2>5, <2>6, <2>7
<1>10. Booked(fake'.bookings[n], Never) \in
         [hall: DOMAIN FakeHalls, date: Dates, guests: Parties, bookedBy: Callers, reminded: {Never}]
  BY <1>6, <1>9 DEF Booked, FakeBooking, Reminders
<1>11. /\ FakeBookings' # << >> /\ Front(FakeBookings') = FakeBookings
       /\ Last(FakeBookings') = Booked(fake'.bookings[n], Never)
  <2>1. /\ FakeBookings \in Seq(ContractBooking) /\ FakeBookings' \in Seq(ContractBooking)
        /\ Len(FakeBookings') = Len(FakeBookings) + 1 /\ Len(FakeBookings) = Len(given.bookings)
    BY <1>1, <1>5 DEF Held, ContractBooking
  <2> QED
    BY <1>7, <1>8, <1>9, <2>1, OneMore
<1>12. /\ RealBookings' # << >> /\ Front(RealBookings') = RealBookings
       /\ Last(RealBookings') = Booked(fake'.bookings[n], Never)
  <2>1. /\ RealBookings \in Seq(ContractBooking) /\ RealBookings' \in Seq(ContractBooking)
        /\ Len(RealBookings') = Len(RealBookings) + 1 /\ Len(RealBookings) = Len(given.bookings)
    BY <1>1, <1>5 DEF Held, ContractBooking
  <2> QED
    BY <1>7, <1>8, <1>9, <2>1, OneMore
<1> QED
  BY <1>6, <1>10, <1>11, <1>12

LEMMA MarkInContract ==
    ASSUME StoresInv, StoresInv', NEW ids \in ToSet(given.bookings) \cup {Unknown}, NEW at \in Times,
           MarkReminderSent(ids, at)
    PROVE  /\ FakeHalls' = FakeHalls /\ RealHalls' = RealHalls
           /\ \/ FakeBookings' = FakeBookings /\ RealBookings' = RealBookings
              \/ \E n \in DOMAIN given.bookings :
                    /\ FakeBookings' = [FakeBookings EXCEPT ![n].reminded = at]
                    /\ RealBookings' = [RealBookings EXCEPT ![n].reminded = ToSecond(at)]
<1>1. Held /\ Held'
  BY HoldsLists, PTL
<1>2. PICK m \in Nat \ {0} :
        /\ fake' = [halls |-> fake.halls,
                    bookings |-> [n \in DOMAIN given.bookings |->
                        IF n = m THEN [fake.bookings[n] EXCEPT !.reminded = at] ELSE fake.bookings[n]]]
        /\ given' = [halls |-> given.halls,
                     bookings |-> [n \in DOMAIN given.bookings |->
                         IF n = m THEN [given.bookings[n] EXCEPT !.sentAt = at] ELSE given.bookings[n]]]
  BY Marks
<1>3. /\ fake'.halls = fake.halls /\ given'.halls = given.halls
      /\ DOMAIN given'.bookings = DOMAIN given.bookings
      /\ \A n \in DOMAIN given.bookings : fake'.bookings[n] =
            IF n = m THEN [fake.bookings[n] EXCEPT !.reminded = at] ELSE fake.bookings[n]
  BY <1>2
<1>4. FakeHalls' = FakeHalls /\ RealHalls' = RealHalls
  BY <1>1, <1>3 DEF Held
<1>5. \A n \in DOMAIN given.bookings : n # m =>
        FakeBookings'[n] = FakeBookings[n] /\ RealBookings'[n] = RealBookings[n]
  BY <1>1, <1>3 DEF Held
<1>6. /\ FakeBookings = [n \in DOMAIN given.bookings |-> FakeBookings[n]]
      /\ FakeBookings' = [n \in DOMAIN given.bookings |-> FakeBookings'[n]]
      /\ RealBookings = [n \in DOMAIN given.bookings |-> RealBookings[n]]
      /\ RealBookings' = [n \in DOMAIN given.bookings |-> RealBookings'[n]]
  BY <1>1, <1>3 DEF Held
<1>7. CASE m \notin DOMAIN given.bookings
  BY <1>4, <1>5, <1>6, <1>7
<1>8. CASE m \in DOMAIN given.bookings
  <2>1. fake'.bookings[m] = [fake.bookings[m] EXCEPT !.reminded = at] /\ fake.bookings[m] \in FakeBooking
    BY <1>1, <1>3, <1>8 DEF Held
  <2>2. /\ FakeBookings[m] = Booked(fake.bookings[m], fake.bookings[m].reminded)
        /\ RealBookings[m] = Booked(fake.bookings[m], Stored(fake.bookings[m].reminded))
        /\ FakeBookings'[m] = Booked(fake'.bookings[m], fake'.bookings[m].reminded)
        /\ RealBookings'[m] = Booked(fake'.bookings[m], Stored(fake'.bookings[m].reminded))
    BY <1>1, <1>3, <1>8 DEF Held
  <2>3. /\ fake'.bookings[m].hallId = fake.bookings[m].hallId /\ fake'.bookings[m].date = fake.bookings[m].date
        /\ fake'.bookings[m].guests = fake.bookings[m].guests
        /\ fake'.bookings[m].bookedBy = fake.bookings[m].bookedBy /\ fake'.bookings[m].reminded = at
    BY <2>1 DEF FakeBooking
  <2>4. Stored(at) = ToSecond(at)
    BY StoresAssumption DEF Stored
  <2>5. FakeBookings'[m] = [FakeBookings[m] EXCEPT !.reminded = at]
    BY <2>2, <2>3 DEF Booked
  <2>6. RealBookings'[m] = [RealBookings[m] EXCEPT !.reminded = ToSecond(at)]
    BY <2>2, <2>3, <2>4 DEF Booked
  <2>7. /\ FakeBookings' = [FakeBookings EXCEPT ![m].reminded = at]
        /\ RealBookings' = [RealBookings EXCEPT ![m].reminded = ToSecond(at)]
    BY <1>5, <1>6, <1>8, <2>5, <2>6
  <2> QED
    BY <1>4, <1>8, <2>7
<1> QED
  BY <1>7, <1>8

LEMMA NoneHeld ==
    ASSUME StoresInv, given.halls = << >>, given.bookings = << >>
    PROVE  FakeHalls = << >> /\ RealHalls = << >> /\ FakeBookings = << >> /\ RealBookings = << >>
<1>1. Held
  BY HoldsLists
<1>2. /\ FakeHalls \in Seq(Capacities) /\ RealHalls \in Seq(Capacities)
      /\ FakeBookings \in Seq(ContractBooking) /\ RealBookings \in Seq(ContractBooking)
      /\ Len(FakeHalls) = 0 /\ Len(RealHalls) = 0 /\ Len(FakeBookings) = 0 /\ Len(RealBookings) = 0
  BY <1>1 DEF Held
<1> QED
  BY <1>2, EmptySeq

LEMMA SameInContract ==
    ASSUME StoresInv, StoresInv', UNCHANGED <<fake, tables, given>>
    PROVE  UNCHANGED <<FakeHalls, RealHalls, FakeBookings, RealBookings>>
<1>1. Held /\ Held'
  BY HoldsLists, PTL
<1> QED
  BY <1>1 DEF Held

LEMMA FakeContractInitially == StoresInit => FakeContract!Init
<1> SUFFICES ASSUME StoresInit PROVE FakeContract!Init
  OBVIOUS
<1>1. StoresInv
  BY StoresInitially
<1>2. given.halls = << >> /\ given.bookings = << >>
  BY DEF StoresInit
<1> QED
  BY <1>1, <1>2, NoneHeld DEF FakeContract!Init

LEMMA FakeContractStep ==
    StoresInv /\ StoresInv' /\ [StoresNext]_storesVars => [FakeContract!Next]_<<FakeHalls, FakeBookings>>
<1> SUFFICES ASSUME StoresInv, StoresInv', [StoresNext]_storesVars
             PROVE  FakeContract!Next \/ UNCHANGED <<FakeHalls, FakeBookings>>
  OBVIOUS
<1>1. ASSUME NEW capacity \in Capacities, AddHall(capacity) PROVE FakeContract!Next
  <2>1. FakeHalls' = Append(FakeHalls, capacity) /\ FakeBookings' = FakeBookings
    BY <1>1, AddHallAdds
  <2> QED
    BY <2>1 DEF FakeContract!Next, FakeContract!AddHall
<1>2. ASSUME NEW hall \in ToSet(given.halls), NEW date \in Dates, NEW guests \in Parties,
             NEW user \in Callers, Save(hall, date, guests, user)
      PROVE  FakeContract!Next
  <2>1. /\ FakeHalls' = FakeHalls /\ FakeBookings' # << >> /\ Front(FakeBookings') = FakeBookings
        /\ Last(FakeBookings') \in [hall: DOMAIN FakeHalls, date: Dates, guests: Parties,
                                  bookedBy: Callers, reminded: {Never}]
    BY <1>2, SaveAdds
  <2>2. FakeContract!Front(FakeBookings') = Front(FakeBookings')
    BY Zenon DEF FakeContract!Front, Front
  <2>3. FakeContract!Last(FakeBookings') = Last(FakeBookings')
    BY Zenon DEF FakeContract!Last, Last
  <2> QED
    BY <2>1, <2>2, <2>3, Zenon DEF FakeContract!Next, FakeContract!Save
<1>3. ASSUME NEW ids \in ToSet(given.bookings) \cup {Unknown}, NEW at \in Times,
             MarkReminderSent(ids, at)
      PROVE  FakeContract!Next \/ UNCHANGED <<FakeHalls, FakeBookings>>
  <2>1. CASE FakeHalls' = FakeHalls /\ FakeBookings' = FakeBookings
    BY <2>1
  <2>2. ASSUME NEW n \in DOMAIN given.bookings, FakeHalls' = FakeHalls,
               FakeBookings' = [FakeBookings EXCEPT ![n].reminded = at]
        PROVE  FakeContract!Next
    <3>1. n \in DOMAIN FakeBookings
      BY HeldFields
    <3>2. at \in FakeContract!ReadBack(at)
      BY ReadsBack, StoresAssumption DEF Reminders, Stored
    <3>3. at \in UNION {FakeContract!ReadBack(any) : any \in Times}
      BY <3>2
    <3> QED
      BY <2>2, <3>1, <3>3 DEF FakeContract!Next, FakeContract!MarkReminderSent
  <2> QED
    BY <1>3, <2>1, <2>2, MarkInContract
<1>4. ASSUME NEW table \in {"halls", "bookings"}, RollBackInsert(table)
      PROVE  UNCHANGED <<FakeHalls, FakeBookings>>
  BY <1>4, SameInContract DEF RollBackInsert
<1>5. CASE NextTest
  <2>1. given'.halls = << >> /\ given'.bookings = << >>
    BY <1>5 DEF NextTest
  <2>2. FakeHalls' = << >> /\ FakeBookings' = << >>
    <3>1. Held'
      BY HoldsLists, PTL
    <3>2. /\ FakeHalls' \in Seq(Capacities) /\ FakeBookings' \in Seq(ContractBooking)
          /\ Len(FakeHalls') = 0 /\ Len(FakeBookings') = 0
      BY <2>1, <3>1 DEF Held, ContractBooking
    <3> QED
      BY <3>2, EmptySeq
  <2> QED
    BY <2>2 DEF FakeContract!Next, FakeContract!NextTest
<1>6. CASE UNCHANGED storesVars
  BY <1>6, SameInContract DEF storesVars
<1> QED
  BY <1>1, <1>2, <1>3, <1>4, <1>5, <1>6 DEF StoresNext

LEMMA RealContractInitially == StoresInit => RealContract!Init
<1> SUFFICES ASSUME StoresInit PROVE RealContract!Init
  OBVIOUS
<1>1. StoresInv
  BY StoresInitially
<1>2. given.halls = << >> /\ given.bookings = << >>
  BY DEF StoresInit
<1> QED
  BY <1>1, <1>2, NoneHeld DEF RealContract!Init

LEMMA RealContractStep ==
    StoresInv /\ StoresInv' /\ [StoresNext]_storesVars => [RealContract!Next]_<<RealHalls, RealBookings>>
<1> SUFFICES ASSUME StoresInv, StoresInv', [StoresNext]_storesVars
             PROVE  RealContract!Next \/ UNCHANGED <<RealHalls, RealBookings>>
  OBVIOUS
<1>1. ASSUME NEW capacity \in Capacities, AddHall(capacity) PROVE RealContract!Next
  <2>1. RealHalls' = Append(RealHalls, capacity) /\ RealBookings' = RealBookings
    BY <1>1, AddHallAdds
  <2> QED
    BY <2>1 DEF RealContract!Next, RealContract!AddHall
<1>2. ASSUME NEW hall \in ToSet(given.halls), NEW date \in Dates, NEW guests \in Parties,
             NEW user \in Callers, Save(hall, date, guests, user)
      PROVE  RealContract!Next
  <2>1. /\ RealHalls' = RealHalls /\ RealBookings' # << >> /\ Front(RealBookings') = RealBookings
        /\ Last(RealBookings') \in [hall: DOMAIN RealHalls, date: Dates, guests: Parties,
                                  bookedBy: Callers, reminded: {Never}]
    BY <1>2, SaveAdds
  <2>2. RealContract!Front(RealBookings') = Front(RealBookings')
    BY Zenon DEF RealContract!Front, Front
  <2>3. RealContract!Last(RealBookings') = Last(RealBookings')
    BY Zenon DEF RealContract!Last, Last
  <2> QED
    BY <2>1, <2>2, <2>3, Zenon DEF RealContract!Next, RealContract!Save
<1>3. ASSUME NEW ids \in ToSet(given.bookings) \cup {Unknown}, NEW at \in Times,
             MarkReminderSent(ids, at)
      PROVE  RealContract!Next \/ UNCHANGED <<RealHalls, RealBookings>>
  <2>1. CASE RealHalls' = RealHalls /\ RealBookings' = RealBookings
    BY <2>1
  <2>2. ASSUME NEW n \in DOMAIN given.bookings, RealHalls' = RealHalls,
               RealBookings' = [RealBookings EXCEPT ![n].reminded = ToSecond(at)]
        PROVE  RealContract!Next
    <3>1. n \in DOMAIN RealBookings
      BY HeldFields
    <3>2. ToSecond(at) \in RealContract!ReadBack(at)
      BY ReadsBack, StoresAssumption DEF Reminders, Stored
    <3>3. ToSecond(at) \in UNION {RealContract!ReadBack(any) : any \in Times}
      BY <3>2
    <3> QED
      BY <2>2, <3>1, <3>3 DEF RealContract!Next, RealContract!MarkReminderSent
  <2> QED
    BY <1>3, <2>1, <2>2, MarkInContract
<1>4. ASSUME NEW table \in {"halls", "bookings"}, RollBackInsert(table)
      PROVE  UNCHANGED <<RealHalls, RealBookings>>
  BY <1>4, SameInContract DEF RollBackInsert
<1>5. CASE NextTest
  <2>1. given'.halls = << >> /\ given'.bookings = << >>
    BY <1>5 DEF NextTest
  <2>2. RealHalls' = << >> /\ RealBookings' = << >>
    <3>1. Held'
      BY HoldsLists, PTL
    <3>2. /\ RealHalls' \in Seq(Capacities) /\ RealBookings' \in Seq(ContractBooking)
          /\ Len(RealHalls') = 0 /\ Len(RealBookings') = 0
      BY <2>1, <3>1 DEF Held, ContractBooking
    <3> QED
      BY <3>2, EmptySeq
  <2> QED
    BY <2>2 DEF RealContract!Next, RealContract!NextTest
<1>6. CASE UNCHANGED storesVars
  BY <1>6, SameInContract DEF storesVars
<1> QED
  BY <1>1, <1>2, <1>3, <1>4, <1>5, <1>6 DEF StoresNext

\* InMemoryBookingsStore keeps the contract that bookings-store.contract.ts runs against it, whatever
\* is called in whatever order (in-memory-bookings.store.ts:12): every call on it is that call of the
\* contract.
THEOREM FakeStoreKeepsContract == StoresSpec => FakeKeepsContract
<1> QED
  BY StoresAlways, FakeContractInitially, FakeContractStep, PTL
     DEF StoresSpec, FakeKeepsContract, FakeContract!Spec

\* And so does TypeOrmBookingsStore, over tables whose ids have gaps (typeorm-bookings.store.ts:14).
THEOREM RealStoreKeepsContract == StoresSpec => RealKeepsContract
<1> QED
  BY StoresAlways, RealContractInitially, RealContractStep, PTL
     DEF StoresSpec, RealKeepsContract, RealContract!Spec
=============================================================================
