\* One client and the admin, over a network that loses messages and may close
\* the connection.
SPECIFICATION FairSpec
CONSTANTS
    c1 = c1
    c2 = c2
    Admin = Admin
    Clients <- OneClient
    Lossy = TRUE
    LinksDrop = TRUE
CHECK_DEADLOCK FALSE
INVARIANTS
    StopsOnlyWhenKnown
PROPERTIES
    EventuallyKnown
    IntroductionsCease
    ImplementsRoster
