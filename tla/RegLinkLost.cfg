\* Is a connection that closes made again, or the client taken off the list?
SPECIFICATION FairSpec
CONSTANTS
    c1 = c1
    c2 = c2
    Admin = Admin
    Clients <- OneClient
    Lossy = FALSE
    LinksDrop = TRUE
CHECK_DEADLOCK FALSE
PROPERTY LossIsRepaired
