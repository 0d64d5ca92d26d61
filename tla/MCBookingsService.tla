------------------------- MODULE MCBookingsService -------------------------
(* Two requests on one hall of three places; hall 2 does not exist. *)
EXTENDS BookingsService

CONSTANTS r1, r2, admin, clerk, guest  \* guest is signed in and has no role

MCHalls == {1}
MCHallIds == {1, 2}
MCCapacity == [h \in MCHalls |-> 3]
=============================================================================
