SPECIFICATION Spec
CONSTANTS
  r1 = r1
  s1 = s1
  admin = admin
  clerk = clerk
  guest = guest
  Nobody = Nobody
  Requests = {r1}
  Servers = {s1}
  Users = {admin, clerk, guest}
  Admins = {admin}
  FrontDesk = {clerk}
  Halls <- MCHalls
  HallIds <- MCHalls
  Capacity <- MCCapacity
  MaxGuests = 2
  MaxBookings = 2
  LastDay = 1
PROPERTIES
  EachUndisturbed
  OnlyOwnBookings
  RemindsOnlyWhatItRead
