-------------------------- MODULE MCBookingSystem --------------------------
(* One request at a time beside one server's job; guest has no role. *)
EXTENDS BookingSystem

CONSTANTS r1, s1, admin, clerk, guest

MCHalls == {1}
MCCapacity == [h \in MCHalls |-> 3]
=============================================================================
