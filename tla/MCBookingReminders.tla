------------------------ MODULE MCBookingReminders ------------------------
(* Two servers over one eve; parties, halls and users make no difference. *)
EXTENDS BookingReminders

CONSTANTS s1, s2, u

MCHalls == {1}
MCCapacity == [h \in MCHalls |-> 1]
=============================================================================
