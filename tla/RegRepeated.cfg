\* Is on_agent_connected called for new agents only?
SPECIFICATION Spec
CONSTANTS
    c1 = c1
    c2 = c2
    Admin = Admin
    Clients <- OneClient
    Lossy = FALSE
    LinksDrop = FALSE
CHECK_DEADLOCK FALSE
INVARIANT NewAgentsOnly
