---------------------------- MODULE Registration ----------------------------
(***************************************************************************)
(* How clients become known to the admin: the connection and rendezvous    *)
(* steps of the peers (node.rs), and the introductions and                 *)
(* acknowledgements of the agents on top of them (uniffied_agent.rs).      *)
(*                                                                         *)
(* The topology is the star the code builds: a client dials the admin and  *)
(* nobody else, so what a client publishes reaches the other clients only  *)
(* through the admin, which gossipsub makes forward it.                    *)
(*                                                                         *)
(* A listener handles one event per step and what the handler sends is     *)
(* published in that step; the time a message spends in the channels of    *)
(* AgentNode and in the network is the time it spends in an inbox.  A      *)
(* message may be lost on its way to any node (a refused publish is only   *)
(* logged, a full gossipsub queue drops) and messages of different nodes   *)
(* overtake one another.                                                   *)
(***************************************************************************)
EXTENDS Naturals, FiniteSets

CONSTANTS
    Admin,      \* the admin node
    Clients,    \* the client nodes
    Lossy,      \* may messages be lost?
    LinksDrop   \* may dials fail and connections close?

Nodes == Clients \cup {Admin}

Introductions == [kind : {"introduction"}, from : Nodes, about : Nodes]
Acks == [kind : {"ack"}, from : Nodes, about : Nodes]
Message == Introductions \cup Acks

Introduction(n) == [kind |-> "introduction", from |-> n, about |-> n]
Ack(n, p) == [kind |-> "ack", from |-> n, about |-> p]

ASSUME RegistrationAssumption ==
    /\ Admin \notin Clients
    /\ Lossy \in BOOLEAN
    /\ LinksDrop \in BOOLEAN

VARIABLES
    link,            \* per client: how far its connection has come
    adminSubscribed, \* has the admin's peer subscribed to the topic?
    greeted,         \* clients whose listener handled the admin's Subscribe
    noticed,         \* clients whose Subscribe the admin's listener handled
    connected,       \* per node: _connected_agents
    token,           \* per client: is the registration token cancelled?
    loop,            \* per client: its introduction loop
    inbox,           \* per node: messages on their way to its listener
    calledAgain      \* history: an on_agent_connected call named a known agent

vars == <<link, adminSubscribed, greeted, noticed, connected, token, loop,
          inbox, calledAgain>>

LinkState == {"dialing", "registering", "served", "registered", "down"}
LoopState == {"none", "check", "send", "done"}

TypeOK ==
    /\ link \in [Clients -> LinkState]
    /\ adminSubscribed \in BOOLEAN
    /\ greeted \subseteq Clients
    /\ noticed \subseteq Clients
    /\ connected \in [Nodes -> SUBSET Nodes]
    /\ token \in [Clients -> BOOLEAN]
    /\ loop \in [Clients -> LoopState]
    /\ inbox \in [Nodes -> SUBSET Message]
    /\ calledAgain \in BOOLEAN

Init ==
    /\ link = [c \in Clients |-> "dialing"]
    /\ adminSubscribed = FALSE
    /\ greeted = {}
    /\ noticed = {}
    /\ connected = [n \in Nodes |-> {}]
    /\ token = [c \in Clients |-> FALSE]
    /\ loop = [c \in Clients |-> "none"]
    /\ inbox = [n \in Nodes |-> {}]
    /\ calledAgain = FALSE

Up(c) == link[c] \in {"registering", "served", "registered"}

-----------------------------------------------------------------------------
(* Publishing: gossipsub takes a message of node n and carries it to some  *)
(* of the other nodes.                                                     *)

\* Mutant: the admin passes a client's messages on without reading them.
Reachable_ClientsOnly(n) ==
    IF n # Admin /\ ~Up(n) THEN {} ELSE {c \in Clients : Up(c)} \ {n}

\* The nodes that a message of n can reach: the admin reaches the clients
\* connected to it, a client reaches the admin and through it the others.
Reachable(n) ==
    IF n = Admin THEN {c \in Clients : Up(c)}
    ELSE IF Up(n) THEN ({c \in Clients : Up(c)} \cup {Admin}) \ {n}
    ELSE {}

\* Which of them it does reach.  It comes to another client only if the admin
\* has received it.
Receivers(n) ==
    IF ~Lossy THEN {Reachable(n)}
    ELSE {R \in SUBSET Reachable(n) : n # Admin /\ R # {} => Admin \in R}

\* An ack that reaches the admin only cancels a token nobody reads there (the
\* admin runs no introduction loop), so it is not kept.
Deliver(boxes, R, m) ==
    [n \in Nodes |-> IF n \in R /\ ~(n = Admin /\ m.kind = "ack")
                     THEN boxes[n] \cup {m} ELSE boxes[n]]

\* Node n's listener has taken m out of its inbox and answers it with reply.
Answer(n, m, reply) ==
    \E R \in Receivers(n) :
        inbox' = Deliver([inbox EXCEPT ![n] = @ \ {m}], R, reply)

-----------------------------------------------------------------------------
(* The peers: connection, rendezvous, subscription                         *)

\* ConnectionEstablished at a client: it registers with the rendezvous server.
Connect(c) ==
    /\ link[c] = "dialing"
    /\ link' = [link EXCEPT ![c] = "registering"]
    /\ UNCHANGED <<adminSubscribed, greeted, noticed, connected, token, loop,
                   inbox, calledAgain>>

\* OutgoingConnectionError is not handled: the one dial of run is not repeated.
DialFails(c) ==
    /\ LinksDrop
    /\ link[c] = "dialing"
    /\ link' = [link EXCEPT ![c] = "down"]
    /\ UNCHANGED <<adminSubscribed, greeted, noticed, connected, token, loop,
                   inbox, calledAgain>>

\* PeerRegistered at the admin: it subscribes to the workspace topic.
AdminServes(c) ==
    /\ link[c] = "registering"
    /\ link' = [link EXCEPT ![c] = "served"]
    /\ adminSubscribed' = TRUE
    /\ UNCHANGED <<greeted, noticed, connected, token, loop, inbox, calledAgain>>

\* Registered at the client: it subscribes too.
ClientRegistered(c) ==
    /\ link[c] = "served"
    /\ link' = [link EXCEPT ![c] = "registered"]
    /\ UNCHANGED <<adminSubscribed, greeted, noticed, connected, token, loop,
                   inbox, calledAgain>>

\* ConnectionClosed is only logged: nobody forgets the peer, nobody dials
\* again.  What was under way between the two may be lost.
Disconnect(c) ==
    /\ LinksDrop
    /\ Up(c)
    /\ link' = [link EXCEPT ![c] = "down"]
    /\ \E kept \in SUBSET inbox[c],
          keptAtAdmin \in SUBSET {m \in inbox[Admin] : m.from = c} :
          inbox' = [inbox EXCEPT
                        ![c] = kept,
                        ![Admin] = {m \in @ : m.from = c => m \in keptAtAdmin}]
    /\ UNCHANGED <<adminSubscribed, greeted, noticed, connected, token, loop,
                   calledAgain>>

-----------------------------------------------------------------------------
(* The listeners                                                           *)

\* A client learns of the admin's subscription: unless it knows the admin
\* already it starts to introduce itself.
HearAdmin(c) ==
    /\ Up(c)
    /\ adminSubscribed
    /\ c \notin greeted
    /\ greeted' = greeted \cup {c}
    /\ loop' = IF Admin \in connected[c] THEN loop
               ELSE [loop EXCEPT ![c] = "check"]
    /\ UNCHANGED <<link, adminSubscribed, noticed, connected, token, inbox,
                   calledAgain>>

\* Mutant: the admin introduces itself to the clients it knows, not to the others.
HearClient_OnlyKnown(c) ==
    /\ link[c] = "registered"
    /\ c \notin noticed
    /\ noticed' = noticed \cup {c}
    /\ IF c \notin connected[Admin] THEN inbox' = inbox
       ELSE \E R \in Receivers(Admin) :
                inbox' = Deliver(inbox, R, Introduction(Admin))
    /\ UNCHANGED <<link, adminSubscribed, greeted, connected, token, loop,
                   calledAgain>>

\* The admin learns of a client's subscription: unless it knows the client
\* already it introduces itself, once.
HearClient(c) ==
    /\ link[c] = "registered"
    /\ c \notin noticed
    /\ noticed' = noticed \cup {c}
    /\ IF c \in connected[Admin] THEN inbox' = inbox
       ELSE \E R \in Receivers(Admin) :
                inbox' = Deliver(inbox, R, Introduction(Admin))
    /\ UNCHANGED <<link, adminSubscribed, greeted, connected, token, loop,
                   calledAgain>>

\* gossipsub hands a message only to a subscriber, and a client's connection to
\* the admin carries the admin's subscription before anything else.
CanReceive(n) == IF n = Admin THEN adminSubscribed
                 ELSE n \in greeted /\ link[n] \in {"registered", "down"}

\* Mutant: the agent is acknowledged but not recorded.
HandleIntroduction_NotRecorded(n, m) ==
    /\ CanReceive(n)
    /\ m \in inbox[n]
    /\ m.kind = "introduction"
    /\ Answer(n, m, Ack(n, m.about))
    /\ UNCHANGED <<link, adminSubscribed, greeted, noticed, connected, token,
                   loop, calledAgain>>

\* Mutant: the map is keyed by the message instead of the agent.
HandleIntroduction_KeyedByMessage(n, m) ==
    /\ CanReceive(n)
    /\ m \in inbox[n]
    /\ m.kind = "introduction"
    /\ connected' = [connected EXCEPT ![n] = @ \cup {m}]
    /\ Answer(n, m, Ack(n, m.about))
    /\ UNCHANGED <<link, adminSubscribed, greeted, noticed, token, loop,
                   calledAgain>>

\* Mutant: an agent that is known already is not acknowledged again.
HandleIntroduction_AckOnce(n, m) ==
    /\ CanReceive(n)
    /\ m \in inbox[n]
    /\ m.kind = "introduction"
    /\ connected' = [connected EXCEPT ![n] = @ \cup {m.about}]
    /\ IF m.about \in connected[n] THEN inbox' = [inbox EXCEPT ![n] = @ \ {m}]
       ELSE Answer(n, m, Ack(n, m.about))
    /\ UNCHANGED <<link, adminSubscribed, greeted, noticed, token, loop,
                   calledAgain>>

\* Mutant: the other's introduction is taken for its answer.
HandleIntroduction_CancelsToken(n, m) ==
    /\ CanReceive(n)
    /\ m \in inbox[n]
    /\ m.kind = "introduction"
    /\ connected' = [connected EXCEPT ![n] = @ \cup {m.about}]
    /\ token' = [c \in Clients |-> token[c] \/ c = n]
    /\ Answer(n, m, Ack(n, m.about))
    /\ UNCHANGED <<link, adminSubscribed, greeted, noticed, loop, calledAgain>>

\* AgentIntroduction: record the agent, acknowledge to everybody, and call
\* on_agent_connected, whether or not the agent was known.
HandleIntroduction(n, m) ==
    /\ CanReceive(n)
    /\ m \in inbox[n]
    /\ m.kind = "introduction"
    /\ connected' = [connected EXCEPT ![n] = @ \cup {m.about}]
    /\ Answer(n, m, Ack(n, m.about))
    /\ calledAgain' = (calledAgain \/ m.about \in connected[n])
    /\ UNCHANGED <<link, adminSubscribed, greeted, noticed, token, loop>>

\* AgentRegistrationAck: cancel the token.  The id in the ack is not looked at.
HandleAck(c, m) ==
    /\ CanReceive(c)
    /\ m \in inbox[c]
    /\ m.kind = "ack"
    /\ token' = [token EXCEPT ![c] = TRUE]
    /\ inbox' = [inbox EXCEPT ![c] = @ \ {m}]
    /\ UNCHANGED <<link, adminSubscribed, greeted, noticed, connected, loop,
                   calledAgain>>

-----------------------------------------------------------------------------
(* The client's introduction loop                                          *)

\* Mutant: one introduction is thought to be enough.
LoopCheck_Once(c) ==
    /\ loop[c] = "check"
    /\ \E R \in Receivers(c) : inbox' = Deliver(inbox, R, Introduction(c))
    /\ loop' = [loop EXCEPT ![c] = "done"]
    /\ UNCHANGED <<link, adminSubscribed, greeted, noticed, connected, token,
                   calledAgain>>

\* Mutant: the loop ends once the admin is known to the client.
LoopCheck_UntilAdminKnown(c) ==
    /\ loop[c] = "check"
    /\ loop' = [loop EXCEPT ![c] = IF token[c] \/ Admin \in connected[c]
                                  THEN "done" ELSE "send"]
    /\ UNCHANGED <<link, adminSubscribed, greeted, noticed, connected, token,
                   inbox, calledAgain>>

LoopCheck(c) ==
    /\ loop[c] = "check"
    /\ loop' = [loop EXCEPT ![c] = IF token[c] THEN "done" ELSE "send"]
    /\ UNCHANGED <<link, adminSubscribed, greeted, noticed, connected, token,
                   inbox, calledAgain>>

LoopSend(c, R) ==
    /\ loop[c] = "send"
    /\ R \in Receivers(c)
    /\ loop' = [loop EXCEPT ![c] = "check"]
    /\ inbox' = Deliver(inbox, R, Introduction(c))
    /\ UNCHANGED <<link, adminSubscribed, greeted, noticed, connected, token,
                   calledAgain>>

-----------------------------------------------------------------------------
Next ==
    \/ \E c \in Clients : Connect(c)
    \/ \E c \in Clients : DialFails(c)
    \/ \E c \in Clients : AdminServes(c)
    \/ \E c \in Clients : ClientRegistered(c)
    \/ \E c \in Clients : Disconnect(c)
    \/ \E c \in Clients : HearAdmin(c)
    \/ \E c \in Clients : HearClient(c)
    \/ \E n \in Nodes : \E m \in inbox[n] : HandleIntroduction(n, m)
    \/ \E c \in Clients : \E m \in inbox[c] : HandleAck(c, m)
    \/ \E c \in Clients : LoopCheck(c)
    \/ \E c \in Clients, R \in SUBSET Nodes : LoopSend(c, R)

Spec == Init /\ [][Next]_vars

\* A dial answered, a registration served, a message in an inbox handled: each
\* happens if it stays possible.  The network is fair-lossy: of the messages that
\* a client publishes again and again some reach the admin, and some of the
\* admin's acknowledgements reach the client.
Fairness ==
    \A c \in Clients :
        /\ WF_vars(Connect(c))
        /\ WF_vars(AdminServes(c))
        /\ WF_vars(ClientRegistered(c))
        /\ WF_vars(HearAdmin(c))
        /\ WF_vars(HearClient(c))
        /\ WF_vars(LoopCheck(c))
        /\ WF_vars(\E R \in SUBSET Nodes : LoopSend(c, R))
        /\ SF_vars(\E R \in SUBSET Nodes : Admin \in R /\ LoopSend(c, R))
        /\ SF_vars(/\ HandleIntroduction(Admin, Introduction(c))
                   /\ Ack(Admin, c) \in inbox'[c])

MessageFairness ==
    \A m \in Message :
        /\ \A n \in Nodes : WF_vars(HandleIntroduction(n, m))
        /\ \A c \in Clients : WF_vars(HandleAck(c, m))

FairSpec == Spec /\ Fairness /\ MessageFairness

-----------------------------------------------------------------------------
(* Safety                                                                  *)

\* An acknowledgement is true: whoever sent it has recorded the agent it names
\* (uniffied_agent.rs:451-458 inserts before it sends).
AckHonest ==
    \A n \in Nodes : \A m \in inbox[n] :
        m.kind = "ack" => m.about \in connected[m.from]

\* A client that has heard the admin and whose token is not cancelled is still
\* introducing itself.  This rests on the order of the connection: were the
\* admin's introduction handled before its subscription, the client would know
\* the admin already and never begin (uniffied_agent.rs:484).
KeepsTrying ==
    \A c \in Clients : c \in greeted /\ ~token[c] => loop[c] \in {"check", "send"}

\* The admin knows c, is about to know it, or has lost it.
OnItsWay(c) ==
    \/ c \in connected[Admin]
    \/ Introduction(c) \in inbox[Admin]
    \/ link[c] = "down"

\* Another client is recorded somewhere or has recorded the admin.
OtherAnswered(c) ==
    \E d \in Clients \ {c} : Admin \in connected[d] \/ \E n \in Nodes : d \in connected[n]

\* A client that another client knows is known to the admin or about to be, or its
\* connection is gone: client messages travel through the admin.
KnownThroughAdmin == \A c, d \in Clients : c \in connected[d] => OnItsWay(c)

\* A client that has stopped introducing itself, which it never resumes, is known
\* to the admin or about to be.  It holds of a client alone with the admin; with
\* two it does not, because an acknowledgement of anybody's introduction cancels
\* the token (uniffied_agent.rs:456-458, 468-473).
StopsOnlyWhenKnown == \A c \in Clients : loop[c] = "done" => OnItsWay(c)

\* What two clients can do to each other is all that goes wrong: a client that
\* stopped introducing itself and that the admin will not learn of was answered in
\* place of another client, one that is recorded somewhere or has recorded the
\* admin (uniffied_agent.rs:456-458, 468-473, 503-531).
LockedOutByAnother ==
    \A c \in Clients : loop[c] = "done" => OnItsWay(c) \/ OtherAnswered(c)

\* The two ends have heard of each other's subscription, c has stopped introducing
\* itself, and no message for c, nor of c to the admin, is under way.
Settled(c) ==
    /\ link[c] = "registered"
    /\ c \in greeted \cap noticed
    /\ loop[c] \notin {"check", "send"}
    /\ inbox[c] = {}
    /\ \A m \in inbox[Admin] : m.from # c

\* When all is settled the admin knows the client; if it never will, that is because
\* another client was answered in its place, and the client at least knows the
\* admin, unless the network lost the one introduction the admin sends for it: the
\* admin leaves that out only for a client it has recorded
\* (uniffied_agent.rs:451-473, 484-500).
SettledIsKnown ==
    \A c \in Clients :
        Settled(c) =>
            \/ c \in connected[Admin]
            \/ OtherAnswered(c) /\ (Lossy \/ Admin \in connected[c])

\* The agents keep what Roster promises: a client becomes known by way of the admin,
\* no client with a connection is forgotten, and a client stops for good after an
\* acknowledgement that somebody else has sent (uniffied_agent.rs:451-473).
Promise == INSTANCE Roster WITH
    known <- connected,
    through <- {c \in Clients : c \in connected[Admin] \/ Introduction(c) \in inbox[Admin]},
    lost <- {c \in Clients : link[c] = "down"},
    silent <- {c \in Clients : token[c]}
ImplementsRoster == Promise!Spec

\* "Handle new agent connections" (docs/tutorials.md:20): on_agent_connected is
\* for agents that were not connected.  The handler calls it for every
\* introduction, repeated ones included (uniffied_agent.rs:451-464).
NewAgentsOnly == ~calledAgain

-----------------------------------------------------------------------------
(* Liveness, under Fairness                                                *)

\* A client alone with the admin becomes known to it, however many messages are
\* lost, unless the connection closes.
EventuallyKnown ==
    \A c \in Clients : <>(c \in connected[Admin] \/ link[c] = "down")

\* And it stops introducing itself: the loop does not flood the network for ever.
IntroductionsCease ==
    \A c \in Clients : <>[](loop[c] = "done" \/ link[c] = "down")

\* "Automatic reconnection" (docs/technology.md:31), of a client node, and "Update
\* connected agents" when a worker disconnects
\* (docs/examples/connect-through-network.md:172-174): a client that is in the admin's
\* list without a connection gets one again, or leaves the list.  ConnectionClosed is
\* only logged (node.rs:193-195), run dials once, and nothing removes from the list.
LossIsRepaired ==
    \A c \in Clients :
        link[c] = "down" /\ c \in connected[Admin]
            ~> link[c] # "down" \/ c \notin connected[Admin]

=============================================================================
