SPECIFICATION Spec
CONSTANTS
    Sessions <- FiveSessions
    Can <- EachItsOwn
INVARIANTS
    SavesOutOfCircles
    OneDeadlock
PROPERTIES
    TransactionsEnd
