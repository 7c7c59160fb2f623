\* Two clients that also hear one another, over a network that loses nothing.
SPECIFICATION Spec
CONSTANTS
    c1 = c1
    c2 = c2
    Admin = Admin
    Clients <- TwoClients
    Lossy = FALSE
    LinksDrop = FALSE
SYMMETRY ClientSymmetry
CHECK_DEADLOCK FALSE
INVARIANTS
    TypeOK
    AckHonest
    KeepsTrying
    KnownThroughAdmin
    LockedOutByAnother
    SettledIsKnown
PROPERTY ImplementsRoster
