--------------------------- MODULE NetworkConfig ---------------------------
(***************************************************************************)
(* UnifiedAgentConfig and the file .ceylon_network (uniffied_agent.rs).    *)
(* A file is a function from the keys it has lines for to their values; to *)
(* its readers a missing file is an empty one.  A configuration gives      *)
(* every key a value or None.                                              *)
(***************************************************************************)
CONSTANTS
    None,        \* an Option without a value
    PeerIds,     \* what PeerId::from_str accepts
    Ports,       \* what parses as a u16
    Addresses,   \* what Ipv4Addr::from_str accepts
    Glued,       \* what a line says that runs on into the rest of another
    Tails        \* bound: how a longer file ends that is written over, as the last
                 \* line written and the keys of the lines left after it

Keys == {"WORKSPACE_ID", "WORKSPACE_PEER", "WORKSPACE_PORT", "WORKSPACE_IP"}

EmptyFile == [k \in {} |-> None]

IsConfig(c) ==
    /\ c = [k \in Keys |-> c[k]]
    /\ c["WORKSPACE_PORT"] \in Ports \cup {None}

Parsed(k, v) == IF k = "WORKSPACE_PORT" /\ v \notin Ports THEN None ELSE v

\* Mutant: the file only fills in what the agent was not given.
Updated_GivenWins(config, f) ==
    [k \in Keys |-> IF k \in DOMAIN f /\ config[k] = None
                    THEN Parsed(k, f[k]) ELSE config[k]]

\* update_from_file: what the file says wins over what the agent was given.
Updated(config, f) ==
    [k \in Keys |-> IF k \in DOMAIN f THEN Parsed(k, f[k]) ELSE config[k]]

Default(value, default) == IF value = None THEN default ELSE value

\* write_to_file unwraps everything but the address.
Writable(config) == \A k \in Keys \ {"WORKSPACE_IP"} : config[k] # None

\* Mutant: no address, no line.
Written_OmitsMissingIp(config) ==
    [k \in {x \in Keys : config[x] # None} |-> config[k]]

Written(config) ==
    [config EXCEPT !["WORKSPACE_IP"] = Default(@, "127.0.0.1")]

\* write(2) from the beginning of a file: a longer one keeps its last lines, and the
\* last line written may run on into the rest of a line.  Of two lines for a key the
\* later counts.  (The order of the lines is a HashMap's, hence any.)
Overwritten(old, new) ==
    {new} \cup
    {[k \in DOMAIN new \cup t.left |->
        IF k \in t.left THEN old[k] ELSE IF k = t.last THEN g ELSE new[k]] :
            t \in {x \in Tails : old # EmptyFile /\ x.left \subseteq DOMAIN old}, g \in Glued}

\* new_admin: what the admin listens on; port 0 is any free port.
Listens(config) ==
    [workspace |-> Default(config["WORKSPACE_ID"], "CEYLON-AI-AGENT-NETWORK"),
     port |-> Default(config["WORKSPACE_PORT"], "0")]

\* new_member: whom a client dials and the topic it subscribes to.  The unwrap()
\* of the admin's id and of both conversions is Dialable.
Dials(config) ==
    [workspace |-> Default(config["WORKSPACE_ID"], "CEYLON-AI-AGENT-NETWORK"),
     peer |-> config["WORKSPACE_PEER"],
     port |-> Default(config["WORKSPACE_PORT"], "0"),
     ip |-> config["WORKSPACE_IP"]]

Dialable(config) ==
    /\ config["WORKSPACE_PEER"] \in PeerIds
    /\ config["WORKSPACE_IP"] \in Addresses

=============================================================================
