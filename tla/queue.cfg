\* Two workers; three attempts and one stall, as the code and BullMQ's default have them.
SPECIFICATION Spec
CONSTANTS
    Bookings = {b1, b2}
    Workers  = {w1, w2}
    Attempts = 3
    MaxStalled = 1
    Nobody = Nobody
INVARIANTS
    OncePerCause
PROPERTIES
    FinishedStays
    JobsEnd
