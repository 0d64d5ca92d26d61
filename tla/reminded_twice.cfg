\* Two servers run the job on the same morning.
SPECIFICATION JobSpec
CONSTANTS
  s1 = s1
  s2 = s2
  u = u
  Servers = {s1, s2}
  Users = {u}
  Halls <- MCHalls
  Capacity <- MCCapacity
  MaxGuests = 1
  MaxBookings = 1
  LastDay = 1
INVARIANT EachReminderOnce
CHECK_DEADLOCK FALSE
