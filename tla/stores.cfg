SPECIFICATION StoresSpec
CONSTANTS
    Capacities = {1}
    Dates = {d1, d2}
    Parties = {1, 2}
    Callers = {u1, u2}
    Times = {2, 3}
    Never = Never
    MaxIds <- MCMaxIds
SYMMETRY Symmetry
INVARIANTS
    AnswersAsPromised
    StoresAgree
PROPERTIES
    FakeKeepsContract
    RealKeepsContract
