\* Is every client of two registered before it falls silent?
SPECIFICATION Spec
CONSTANTS
    c1 = c1
    c2 = c2
    Admin = Admin
    Clients <- TwoClients
    Lossy = FALSE
    LinksDrop = FALSE
SYMMETRY ClientSymmetry
CHECK_DEADLOCK FALSE
INVARIANT StopsOnlyWhenKnown
