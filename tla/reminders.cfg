SPECIFICATION JobSpec
CONSTANTS
  s1 = s1
  s2 = s2
  u = u
  Servers = {s1, s2}
  Users = {u}
  Halls <- MCHalls
  Capacity <- MCCapacity
  MaxGuests = 1
  MaxBookings = 2
  LastDay = 1
INVARIANTS
  RemindedWasMailed
  OncePerServer
  RunAccountsForAll
PROPERTIES
  RunsEnd
CHECK_DEADLOCK FALSE
