SPECIFICATION ServiceSpec
CONSTANTS
  admin = admin
  clerk = clerk
  guest = guest
  Nobody = Nobody
  r1 = r1
  r2 = r2
  Requests = {r1, r2}
  Users = {clerk}
  Admins = {}
  FrontDesk = {clerk}
  Halls <- MCHalls
  HallIds <- MCHallIds
  Capacity <- MCCapacity
  MaxGuests = 2
  MaxBookings = 3
  LastDay = 1
INVARIANTS
  OverbookingBounded
  OverbookingNeedsARace
PROPERTIES
  EveryRequestAnswered
  ImplementsDesk
