SPECIFICATION Spec
CONSTANTS
    Requests = {r1, r2}
    Ids <- MCIds
    Accounts <- MCAccounts
    Members <- MCMembers
    NaN = NaN
    Nobody = Nobody
    MaxHalls = 2
    Significands = 32
    Scales <- MCScales
INVARIANTS
    HallsAreValid
    AnswersFit
PROPERTIES
    EveryRequestEnds
    MembersAppAnswers
