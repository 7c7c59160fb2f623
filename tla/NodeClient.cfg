\* A client: its only peer is the admin, whose subscription starts the
\* introduction loop.
SPECIFICATION FairSpec
CONSTANTS
    p1 = p1
    p2 = p2
    NoEvent = NoEvent
    Mode = "Client"
    Peers <- ClientPeers
    BroadcastBuffer = 1
    PeerBuffer = 1
    CallbackSends = FALSE
    MaxMsgs = 1
    MaxArrivals = 4
CHECK_DEADLOCK FALSE
INVARIANTS
    AtMostOneLateIntro
    PanicNeedsCause
PROPERTIES
    AcceptedIsHandled
    StopEndsTasks
