---------------------------- MODULE MCLifecycle ----------------------------
(* Small instances of Lifecycle for TLC. *)
EXTENDS Lifecycle

CONSTANTS a1, a2, c1, c2, gone

Settings(id, peer, port, ip) ==
    [k \in Keys |-> CASE k = "WORKSPACE_ID" -> id
                      [] k = "WORKSPACE_PEER" -> peer
                      [] k = "WORKSPACE_PORT" -> port
                      [] k = "WORKSPACE_IP" -> ip]

OneAdmin == {a1}
TwoAdmins == {a1, a2}
OneClient == {c1}
Everyone == Admins \cup Clients

NoWorkers == [s \in Sessions |-> 0]
OneWorker == [s \in Sessions |-> IF s = 1 THEN 1 ELSE 0]

KnownPeers == {a1, a2, gone}
KnownPorts == {"8888", "7000", "6000"}
RunOn == {"glued"}
SomeTails == {[last |-> "WORKSPACE_IP", left |-> {}],
              [last |-> "WORKSPACE_ID", left |-> {"WORKSPACE_PEER", "WORKSPACE_PORT"}]}
KnownAddresses == {"127.0.0.1", "10.0.0.1"}

\* a1 may lack the port, a2 has an address that does not parse; a client is given
\* nothing or a complete address of its own.
Configs(a) ==
    CASE a = a1 -> {Settings("default", None, "8888", None),
                    Settings("default", None, None, None)}
      [] a = a2 -> {Settings("other", None, "7000", "localhost")}
      [] OTHER -> {Settings("default", None, None, None),
                   Settings("mine", gone, "7000", "10.0.0.1")}

\* The client is given nothing: whether its run panics is up to the file.
PlainConfigs == [a \in Agents |->
    {Settings("default", None, IF a \in Admins THEN "8888" ELSE None, None)}]

GivenConfigs == [a \in Agents |-> Configs(a)]

\* The admin of an earlier program, gone since; the file of
\* docs/examples/connect-through-network.md:68-72, which names no admin.
Leftover == {Settings("default", gone, "6000", "127.0.0.1"),
             [k \in Keys \ {"WORKSPACE_PEER"} |->
                 CASE k = "WORKSPACE_ID" -> "default"
                   [] k = "WORKSPACE_PORT" -> "8888"
                   [] k = "WORKSPACE_IP" -> "127.0.0.1"]}
NoLeftover == {}

=============================================================================
