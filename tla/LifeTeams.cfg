\* Two calls of start by an admin or a client, one after the other or at once.
SPECIFICATION FairSpec
CONSTANTS
    a1 = a1
    a2 = a2
    c1 = c1
    c2 = c2
    gone = gone
    None = None
    PeerIds <- KnownPeers
    Ports <- KnownPorts
    Addresses <- KnownAddresses
    Glued <- RunOn
    Tails <- SomeTails
    Admins <- OneAdmin
    Clients <- OneClient
    Sessions = {1, 2}
    MaxTeam <- NoWorkers
    Given <- PlainConfigs
    FileReaders <- OneClient
    FirstFiles <- NoLeftover
CHECK_DEADLOCK FALSE
INVARIANTS
    NoWaitingInCircles
    ReturnsOnlyWhenCancelled
PROPERTIES
    StartReturns
