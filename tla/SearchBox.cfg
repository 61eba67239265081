SPECIFICATION BoxSpec
CONSTANTS
    Text <- MCText
    Mode <- MCMode
    Answers <- MCAnswers
    MaxRequests = 3
    Loading = "loading"
INVARIANTS
    BoxTypeOK
    LoadingIsOpen
PROPERTY
    LatestWins
