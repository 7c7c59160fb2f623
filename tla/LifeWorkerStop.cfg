\* An admin that starts a client.
SPECIFICATION FairSpec
CONSTANTS
    a1 = a1
    a2 = a2
    c1 = c1
    c2 = c2
    gone = gone
    None = None
    PeerIds <- KnownPeers
    Ports <- KnownPorts
    Addresses <- KnownAddresses
    Glued <- RunOn
    Tails <- SomeTails
    Admins <- OneAdmin
    Clients <- OneClient
    Sessions = {1}
    MaxTeam <- OneWorker
    Given <- PlainConfigs
    FileReaders <- OneClient
    FirstFiles <- NoLeftover
CHECK_DEADLOCK FALSE
PROPERTIES
    StopEndsTheAgent
