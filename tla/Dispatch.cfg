\* A run and two messages or connections, for agents of five applications.
SPECIFICATION FairSpec
CONSTANTS
    Star = Star
    Malformed = Malformed
    Garbage = Garbage
    Base = Base
    Derived = Derived
    Namesake = Namesake
    Local = Local
    Own = Own
    Bid = Bid
    News = News
    Name <- Names
    Scope <- Scopes
    Programs <- AllPrograms
    Requests <- AllRequests
    MaxEvents = 3
CHECK_DEADLOCK FALSE
INVARIANTS
    TypeOK
    OverlapNeedsFailure
    CallsWhatIsDue
PROPERTIES
    ImplementsCallbacks
    ListenerMovesOn
