\* An admin with two clients and the smallest channels in which the tasks can
\* wait for one another in a circle.
SPECIFICATION Spec
CONSTANTS
    p1 = p1
    p2 = p2
    NoEvent = NoEvent
    Mode = "Admin"
    Peers <- AdminPeers
    BroadcastBuffer = 1
    PeerBuffer = 1
    CallbackSends = TRUE
    MaxMsgs = 3
    MaxArrivals = 3
SYMMETRY PeerSymmetry
CHECK_DEADLOCK FALSE
INVARIANTS
    TypeOK
    NothingLost
    PanicNeedsCause
    AtMostOneLateCallback
    StandstillExplained
PROPERTIES
    WedgeOnlyEndsByStop
    ImplementsFifoPipe
