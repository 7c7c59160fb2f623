\* Two admins, a client and one call of start, with a file left by an earlier program.
SPECIFICATION FairSpec
CONSTANTS
    a1 = a1
    a2 = a2
    c1 = c1
    c2 = c2
    gone = gone
    None = None
    PeerIds <- KnownPeers
    Ports <- KnownPorts
    Addresses <- KnownAddresses
    Glued <- RunOn
    Tails <- SomeTails
    Admins <- TwoAdmins
    Clients <- OneClient
    Sessions = {1}
    MaxTeam <- OneWorker
    Given <- GivenConfigs
    FileReaders <- Everyone
    FirstFiles <- Leftover
CHECK_DEADLOCK FALSE
INVARIANTS
    TypeOK
    WorkersJoinTheirAdmin
    WholeTarget
PROPERTIES
    AdvertSuffices
    StartReturns
