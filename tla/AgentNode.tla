----------------------------- MODULE AgentNode -----------------------------
(***************************************************************************)
(* One running UnifiedAgent: the tasks that UnifiedAgent::run spawns       *)
(* (uniffied_agent.rs) and the three bounded channels that join them.      *)
(*                                                                         *)
(*   application --bcast--> forwarder --inside--> peer --> gossipsub       *)
(*   callbacks <-- listener <------outside------- peer <-- gossipsub       *)
(*                                                                         *)
(* The listener also sends into `inside' (acknowledgements and             *)
(* introductions), and a client's introduction loops send there too, so    *)
(* the two directions form a cycle of bounded channels.                    *)
(*                                                                         *)
(* A user message is the number of its acceptance by the broadcast         *)
(* channel; an introduction or an acknowledgement in `inside' is Control.  *)
(* A task's await points are the values of its program counter.            *)
(* A panic ends the task it happens in and nothing else: JoinHandle keeps  *)
(* it, and nobody looks at it.                                             *)
(***************************************************************************)
EXTENDS Naturals, Sequences, FiniteSets, Functions

CONSTANTS
    Mode,            \* "Admin" or "Client": config.mode
    Peers,           \* the remote peers this node can hear of
    NoEvent,         \* no event in a task's hands
    BroadcastBuffer, \* capacity of the broadcast_emitter channel
    PeerBuffer,      \* capacity of the peer's inside and outside channels
    CallbackSends,   \* may on_message / on_agent_connected call broadcast?
    MaxMsgs,         \* bound: user messages the application sends
    MaxArrivals      \* bound: network events the swarm reports

Control == 0

\* What the peer forwards.  Others may publish to the topic as well, so that the
\* payload of a message need not be an AgentMessage: it is malformed.
Event == [kind : {"message", "introduction", "ack", "subscribe", "malformed"},
          from : Peers]

ASSUME NodeAssumption ==
    /\ Mode \in {"Admin", "Client"}
    /\ NoEvent \notin Event
    /\ IsFiniteSet(Peers)
    /\ BroadcastBuffer \in Nat \ {0}
    /\ PeerBuffer \in Nat \ {0}
    /\ CallbackSends \in BOOLEAN
    /\ MaxMsgs \in Nat
    /\ MaxArrivals \in Nat

VARIABLES
    accepted,    \* how many user messages the broadcast channel took
    bcast,       \* the broadcast_emitter channel
    forwarder,   \* task_broadcast: where it awaits
    fwdMsg,      \* the message it has received and not yet sent on
    inside,      \* the channel into the peer
    peer,        \* task_peer
    peerEvent,   \* the event it is forwarding to the listener
    outside,     \* the channel out of the peer
    listener,    \* task_peer_listener
    event,       \* the event it has taken and not yet dispatched
    loop,        \* per peer: the introduction loop spawned for it
    connected,   \* _connected_agents
    registered,  \* registration_intro_send_cancel_token.is_cancelled()
    cancelled,   \* cancel_token.is_cancelled()
    wire,        \* history: user messages gossipsub took, in order
    refused,     \* history: user messages gossipsub refused
    announced,   \* environment: peers whose subscription was reported
    arrivals,    \* environment: events reported so far
    poisoned,    \* history: a malformed payload reached the listener
    lateCalls,   \* history: callbacks begun after cancellation
    lateIntros   \* history: loop introductions sent after registration

appVars == <<accepted, bcast>>
fwdVars == <<forwarder, fwdMsg>>
peerVars == <<peer, peerEvent, wire, refused>>
lisVars == <<listener, event, connected, registered, lateCalls>>
loopVars == <<loop, lateIntros>>
envVars == <<announced, arrivals, poisoned>>
vars == <<accepted, bcast, forwarder, fwdMsg, inside, peer, peerEvent, outside,
          listener, event, loop, connected, registered, cancelled, wire,
          refused, announced, arrivals, poisoned, lateCalls, lateIntros>>

ForwarderPC == {"select", "send", "done", "panicked"}
PeerPC == {"start", "select", "forward", "done", "panicked"}
ListenerPC == {"select", "handle", "ack", "intro", "callback", "callbackSend",
               "done", "panicked"}
LoopPC == {"none", "check", "send", "done", "panicked"}

TypeOK ==
    /\ accepted \in 0..MaxMsgs
    /\ bcast \in Seq(1..MaxMsgs)
    /\ forwarder \in ForwarderPC
    /\ fwdMsg \in 0..MaxMsgs
    /\ inside \in Seq(0..MaxMsgs)
    /\ peer \in PeerPC
    /\ peerEvent \in Event \cup {NoEvent}
    /\ outside \in Seq(Event)
    /\ listener \in ListenerPC
    /\ event \in Event \cup {NoEvent}
    /\ loop \in [Peers -> LoopPC]
    /\ connected \subseteq Peers
    /\ registered \in BOOLEAN
    /\ cancelled \in BOOLEAN
    /\ wire \in Seq(1..MaxMsgs)
    /\ refused \subseteq 1..MaxMsgs
    /\ announced \subseteq Peers
    /\ arrivals \in 0..MaxArrivals
    /\ poisoned \in BOOLEAN
    /\ lateCalls \in Nat
    /\ lateIntros \in Nat

Init ==
    /\ accepted = 0
    /\ bcast = <<>>
    /\ forwarder = "select"
    /\ fwdMsg = Control
    /\ inside = <<>>
    /\ peer = "start"
    /\ peerEvent = NoEvent
    /\ outside = <<>>
    /\ listener = "select"
    /\ event = NoEvent
    /\ loop = [p \in Peers |-> "none"]
    /\ connected = {}
    /\ registered = FALSE
    /\ cancelled = FALSE
    /\ wire = <<>>
    /\ refused = {}
    /\ announced = {}
    /\ arrivals = 0
    /\ poisoned = FALSE
    /\ lateCalls = 0
    /\ lateIntros = 0

PeerOver == peer \in {"done", "panicked"}

\* Mutant: try_send().unwrap() takes a full channel for a closed one.
InsideClosed_WhenFull == PeerOver \/ Len(inside) >= PeerBuffer

\* Mutant: the receiver outlives its task, as broadcast_receiver does.
InsideClosed_Never == FALSE

InsideClosed == PeerOver     \* the peer task dropped inside_rx
OutsideClosed == listener \in {"done", "panicked"}
InsideFull == Len(inside) >= PeerBuffer
OutsideFull == Len(outside) >= PeerBuffer
BcastFull == Len(bcast) >= BroadcastBuffer

Late(counter) == IF cancelled THEN counter + 1 ELSE counter

-----------------------------------------------------------------------------
(* The application: any task of the program that owns the agent.           *)

Enqueue ==
    /\ ~BcastFull
    /\ accepted' = accepted + 1
    /\ bcast' = Append(bcast, accepted + 1)

\* broadcast() or send_direct() from the processor or any other application
\* task.  The guard on MaxMsgs leaves room for a callback already sending.
AppBroadcast ==
    /\ accepted + (IF listener = "callbackSend" THEN 1 ELSE 0) < MaxMsgs
    /\ Enqueue
    /\ UNCHANGED <<fwdVars, inside, peerVars, outside, lisVars, loopVars,
                   cancelled, envVars>>

\* stop(), ctrl-c or the shutdown channel: the token is cancelled once.
Cancel ==
    /\ ~cancelled
    /\ cancelled' = TRUE
    /\ UNCHANGED <<appVars, fwdVars, inside, peerVars, outside, lisVars,
                   loopVars, envVars>>

-----------------------------------------------------------------------------
(* task_broadcast *)

FwdTake ==
    /\ forwarder = "select"
    /\ bcast # <<>>
    /\ bcast' = Tail(bcast)
    /\ fwdMsg' = Head(bcast)
    /\ forwarder' = "send"
    /\ UNCHANGED <<accepted, inside, peerVars, outside, lisVars, loopVars,
                   cancelled, envVars>>

\* Mutant: try_send, its error ignored.
FwdSend_DropWhenFull ==
    /\ forwarder = "send"
    /\ forwarder' = "select"
    /\ inside' = IF InsideClosed \/ InsideFull THEN inside ELSE Append(inside, fwdMsg)
    /\ fwdMsg' = Control
    /\ UNCHANGED <<appVars, peerVars, outside, lisVars, loopVars, cancelled,
                   envVars>>

\* Mutant: a message that finds no room goes back to the end of the queue.
FwdSend_Requeue ==
    /\ forwarder = "send"
    /\ forwarder' = "select"
    /\ inside' = IF InsideFull THEN inside ELSE Append(inside, fwdMsg)
    /\ bcast' = IF InsideFull THEN Append(bcast, fwdMsg) ELSE bcast
    /\ fwdMsg' = Control
    /\ UNCHANGED <<accepted, peerVars, outside, lisVars, loopVars, cancelled,
                   envVars>>

\* inside_tx.send(raw_data).await.unwrap(): waits for room, panics when closed.
FwdSend ==
    /\ forwarder = "send"
    /\ \/ /\ InsideClosed
          /\ forwarder' = "panicked"
          /\ inside' = inside
       \/ /\ ~InsideClosed
          /\ ~InsideFull
          /\ forwarder' = "select"
          /\ inside' = Append(inside, fwdMsg)
    /\ fwdMsg' = Control
    /\ UNCHANGED <<appVars, peerVars, outside, lisVars, loopVars, cancelled,
                   envVars>>

FwdStop ==
    /\ forwarder = "select"
    /\ cancelled
    /\ forwarder' = "done"
    /\ UNCHANGED <<appVars, fwdMsg, inside, peerVars, outside, lisVars,
                   loopVars, cancelled, envVars>>

-----------------------------------------------------------------------------
(* task_peer *)

\* listen_on or dial succeeds and the loop begins.
PeerStart ==
    /\ peer = "start"
    /\ peer' = "select"
    /\ UNCHANGED <<appVars, fwdVars, inside, peerEvent, outside, lisVars,
                   loopVars, cancelled, wire, refused, envVars>>

PeerPanics ==
    /\ peer' = "panicked"
    /\ inside' = <<>>
    /\ UNCHANGED <<appVars, fwdVars, peerEvent, outside, lisVars, loopVars,
                   cancelled, wire, refused>>

\* listen_on(..).unwrap(), dial(..).unwrap(): an admin's port may be taken.
PeerCannotStart ==
    /\ peer = "start"
    /\ PeerPanics
    /\ UNCHANGED envVars

\* A client hears only through the admin, which announces itself first; the admin
\* may hear a client that has not subscribed yet (flood publishing).
Hears == Mode = "Client" => announced # {}

\* A swarm event the node forwards.  gossipsub reports a peer's subscription once.
PeerReceive(e) ==
    /\ peer = "select"
    /\ arrivals < MaxArrivals
    /\ IF e.kind = "subscribe" THEN e.from \notin announced ELSE Hears
    /\ arrivals' = arrivals + 1
    /\ announced' = IF e.kind = "subscribe" THEN announced \cup {e.from}
                                            ELSE announced
    /\ peer' = "forward"
    /\ peerEvent' = e
    /\ UNCHANGED <<appVars, fwdVars, inside, outside, lisVars, loopVars,
                   cancelled, wire, refused, poisoned>>

\* NodeMessage::from_bytes(..).unwrap(): what arrived is no NodeMessage.
PeerCannotDecode ==
    /\ peer = "select"
    /\ arrivals < MaxArrivals
    /\ Hears
    /\ arrivals' = arrivals + 1
    /\ PeerPanics
    /\ UNCHANGED <<announced, poisoned>>

\* Mutant: try_send towards the listener, a full channel only logged.
PeerForward_DropWhenFull ==
    /\ peer = "forward"
    /\ outside' = IF OutsideClosed \/ OutsideFull THEN outside
                  ELSE Append(outside, peerEvent)
    /\ peer' = "select"
    /\ peerEvent' = NoEvent
    /\ UNCHANGED <<appVars, fwdVars, inside, lisVars, loopVars, cancelled,
                   wire, refused, envVars>>

\* outside_tx.send(..).await: waits for room; a closed channel is only logged.
PeerForward ==
    /\ peer = "forward"
    /\ OutsideClosed \/ ~OutsideFull
    /\ outside' = IF OutsideClosed THEN outside ELSE Append(outside, peerEvent)
    /\ peer' = "select"
    /\ peerEvent' = NoEvent
    /\ UNCHANGED <<appVars, fwdVars, inside, lisVars, loopVars, cancelled,
                   wire, refused, envVars>>

\* Mutant: an introduction or ack is taken for a user message.
PeerPublish_Untyped(taken) ==
    /\ peer = "select"
    /\ inside # <<>>
    /\ inside' = Tail(inside)
    /\ wire' = IF taken THEN Append(wire, Head(inside)) ELSE wire
    /\ refused' = IF taken THEN refused ELSE refused \cup {Head(inside)}
    /\ UNCHANGED <<appVars, fwdVars, peer, peerEvent, outside, lisVars,
                   loopVars, cancelled, envVars>>

\* inside_rx.recv() and gossip_sub.publish: an error is logged and the message
\* is gone.
PeerPublish(taken) ==
    /\ peer = "select"
    /\ inside # <<>>
    /\ inside' = Tail(inside)
    /\ LET m == Head(inside) IN
       /\ wire' = IF taken /\ m # Control THEN Append(wire, m) ELSE wire
       /\ refused' = IF ~taken /\ m # Control THEN refused \cup {m} ELSE refused
    /\ UNCHANGED <<appVars, fwdVars, peer, peerEvent, outside, lisVars,
                   loopVars, cancelled, envVars>>

\* Either select sees the cancellation: peer.run is dropped at whatever await
\* it had reached, and with it the receiving end of `inside'.
PeerStop ==
    /\ ~PeerOver
    /\ cancelled
    /\ peer' = "done"
    /\ peerEvent' = NoEvent
    /\ inside' = <<>>
    /\ UNCHANGED <<appVars, fwdVars, outside, lisVars, loopVars, cancelled,
                   wire, refused, envVars>>

-----------------------------------------------------------------------------
(* task_peer_listener *)

\* Mutant: the event is dispatched without looking at the cancellation.
LisTake_NoCheck ==
    /\ listener = "select"
    /\ outside # <<>>
    /\ listener' = "handle"
    /\ event' = Head(outside)
    /\ outside' = Tail(outside)
    /\ UNCHANGED <<appVars, fwdVars, inside, peerVars, connected, registered,
                   lateCalls, loopVars, cancelled, envVars>>

\* recv(), then the is_cancelled() check before the event is dispatched.
LisTake ==
    /\ listener = "select"
    /\ outside # <<>>
    /\ \/ /\ ~cancelled
          /\ listener' = "handle"
          /\ event' = Head(outside)
          /\ outside' = Tail(outside)
       \/ /\ cancelled
          /\ listener' = "done"
          /\ event' = event
          /\ outside' = <<>>
    /\ UNCHANGED <<appVars, fwdVars, inside, peerVars, connected, registered,
                   lateCalls, loopVars, cancelled, envVars>>

LisStop ==
    /\ listener = "select"
    /\ cancelled
    /\ listener' = "done"
    /\ outside' = <<>>
    /\ UNCHANGED <<appVars, fwdVars, inside, peerVars, event, connected,
                   registered, lateCalls, loopVars, cancelled, envVars>>

Dispatch(kind, next) ==
    /\ listener = "handle"
    /\ event.kind = kind
    /\ listener' = next
    /\ event' = NoEvent

HandleMessage ==
    /\ Dispatch("message", "callback")
    /\ lateCalls' = Late(lateCalls)
    /\ UNCHANGED <<appVars, fwdVars, inside, peerVars, outside, connected,
                   registered, loopVars, cancelled, envVars>>

\* AgentMessage::from_bytes(..).unwrap(): the payload is no AgentMessage.
HandleMalformed ==
    /\ Dispatch("malformed", "panicked")
    /\ outside' = <<>>
    /\ poisoned' = TRUE
    /\ UNCHANGED <<appVars, fwdVars, inside, peerVars, connected, registered,
                   lateCalls, loopVars, cancelled, announced, arrivals>>

HandleIntroduction ==
    /\ Dispatch("introduction", "ack")
    /\ connected' = connected \cup {event.from}
    /\ UNCHANGED <<appVars, fwdVars, inside, peerVars, outside, registered,
                   lateCalls, loopVars, cancelled, envVars>>

HandleAck ==
    /\ Dispatch("ack", "select")
    /\ registered' = TRUE
    /\ UNCHANGED <<appVars, fwdVars, inside, peerVars, outside, connected,
                   lateCalls, loopVars, cancelled, envVars>>

\* An unknown subscriber: the admin introduces itself once, a client spawns a
\* loop that keeps introducing it until the registration token is cancelled.
HandleSubscribe ==
    /\ Dispatch("subscribe",
                IF Mode = "Admin" /\ event.from \notin connected
                THEN "intro" ELSE "select")
    /\ loop' = IF Mode = "Client" /\ event.from \notin connected
               THEN [loop EXCEPT ![event.from] = "check"] ELSE loop
    /\ UNCHANGED <<appVars, fwdVars, inside, peerVars, outside, connected,
                   registered, lateCalls, lateIntros, cancelled, envVars>>

\* The listener's own send(..).await.unwrap(): after an ack comes the
\* on_agent_connected callback, after an introduction the next event.
LisSend ==
    /\ listener \in {"ack", "intro"}
    /\ \/ /\ InsideClosed
          /\ listener' = "panicked"
          /\ outside' = <<>>
          /\ UNCHANGED <<inside, lateCalls>>
       \/ /\ ~InsideClosed
          /\ ~InsideFull
          /\ inside' = Append(inside, Control)
          /\ listener' = IF listener = "ack" THEN "callback" ELSE "select"
          /\ lateCalls' = IF listener = "ack" THEN Late(lateCalls) ELSE lateCalls
          /\ outside' = outside
    /\ UNCHANGED <<appVars, fwdVars, peerVars, event, connected, registered,
                   loopVars, cancelled, envVars>>

CallbackReturn ==
    /\ listener = "callback"
    /\ listener' = "select"
    /\ UNCHANGED <<appVars, fwdVars, inside, peerVars, outside, event,
                   connected, registered, lateCalls, loopVars, cancelled,
                   envVars>>

\* The callback calls broadcast() or send_direct() and awaits it.
CallbackCall ==
    /\ CallbackSends
    /\ listener = "callback"
    /\ accepted < MaxMsgs
    /\ listener' = "callbackSend"
    /\ UNCHANGED <<appVars, fwdVars, inside, peerVars, outside, event,
                   connected, registered, lateCalls, loopVars, cancelled,
                   envVars>>

CallbackEnqueue ==
    /\ listener = "callbackSend"
    /\ Enqueue
    /\ listener' = "callback"
    /\ UNCHANGED <<fwdVars, inside, peerVars, outside, event, connected,
                   registered, lateCalls, loopVars, cancelled, envVars>>

-----------------------------------------------------------------------------
(* The introduction loop a client spawns; it never looks at cancel_token.  *)

\* Mutant: the loop never looks at the registration token.
LoopCheck_NoToken(p) ==
    /\ loop[p] = "check"
    /\ loop' = [loop EXCEPT ![p] = "send"]
    /\ UNCHANGED <<appVars, fwdVars, inside, peerVars, outside, lisVars,
                   lateIntros, cancelled, envVars>>

LoopCheck(p) ==
    /\ loop[p] = "check"
    /\ loop' = [loop EXCEPT ![p] = IF registered THEN "done" ELSE "send"]
    /\ UNCHANGED <<appVars, fwdVars, inside, peerVars, outside, lisVars,
                   lateIntros, cancelled, envVars>>

\* After the 100 ms sleep the token is not looked at again.
LoopSend(p) ==
    /\ loop[p] = "send"
    /\ \/ /\ InsideClosed
          /\ loop' = [loop EXCEPT ![p] = "panicked"]
          /\ UNCHANGED <<inside, lateIntros>>
       \/ /\ ~InsideClosed
          /\ ~InsideFull
          /\ loop' = [loop EXCEPT ![p] = "check"]
          /\ inside' = Append(inside, Control)
          /\ lateIntros' = IF registered THEN lateIntros + 1 ELSE lateIntros
    /\ UNCHANGED <<appVars, fwdVars, peerVars, outside, lisVars, cancelled,
                   envVars>>

-----------------------------------------------------------------------------
Next ==
    \/ AppBroadcast
    \/ Cancel
    \/ FwdTake
    \/ FwdSend
    \/ FwdStop
    \/ PeerStart
    \/ PeerCannotStart
    \/ \E e \in Event : PeerReceive(e)
    \/ PeerCannotDecode
    \/ PeerForward
    \/ \E taken \in BOOLEAN : PeerPublish(taken)
    \/ PeerStop
    \/ LisTake
    \/ LisStop
    \/ HandleMessage
    \/ HandleMalformed
    \/ HandleIntroduction
    \/ HandleAck
    \/ HandleSubscribe
    \/ LisSend
    \/ CallbackReturn
    \/ CallbackCall
    \/ CallbackEnqueue
    \/ \E p \in Peers : LoopCheck(p)
    \/ \E p \in Peers : LoopSend(p)

Spec == Init /\ [][Next]_vars

\* Every task is polled again when it can move.  A task that waits for room is
\* served in the order of arrival (tokio's channel semaphore is a FIFO queue),
\* hence strong fairness for the sends.  A callback returns: an assumption on
\* the application.
Fairness ==
    /\ WF_vars(FwdTake)
    /\ WF_vars(FwdStop)
    /\ SF_vars(FwdSend)
    /\ WF_vars(PeerStart \/ PeerCannotStart)
    /\ WF_vars(PeerForward)
    /\ WF_vars(\E taken \in BOOLEAN : PeerPublish(taken))
    /\ WF_vars(PeerStop)
    /\ WF_vars(LisTake)
    /\ WF_vars(LisStop)
    /\ WF_vars(\/ HandleMessage \/ HandleMalformed
               \/ HandleIntroduction \/ HandleAck \/ HandleSubscribe)
    /\ SF_vars(LisSend)
    /\ SF_vars(CallbackEnqueue)
    /\ SF_vars(CallbackReturn)
    /\ \A p \in Peers : WF_vars(LoopCheck(p)) /\ SF_vars(LoopSend(p))

FairSpec == Spec /\ Fairness

-----------------------------------------------------------------------------
(* Safety                                                                  *)

\* The agent's user messages reach gossipsub in the order in which broadcast()
\* and send_direct() accepted them, each at most once, whatever the forwarder,
\* the peer and the cancellation do in between (uniffied_agent.rs:544-559,
\* node.rs:205-235).
Pipe == INSTANCE FifoPipe WITH accepted <- accepted, wire <- wire
ImplementsFifoPipe == Pipe!Spec

\* Until the agent is stopped, or its peer panics, no accepted message disappears
\* inside it: it is in one of the channels, in the forwarder's hands, on the wire
\* or was refused by gossipsub.
NothingLost ==
    ~cancelled /\ peer # "panicked" =>
        1..accepted \subseteq
            Range(bcast) \cup {fwdMsg} \cup Range(inside) \cup Range(wire) \cup refused

\* A panic has its cause.  The unwrap() of a send into the peer panics only when
\* the peer is over, which takes a stop or a panic of the peer itself (node.rs:143,
\* 161, data.rs:42), and the listener's panic at a malformed payload
\* (message.rs:48) takes no other task with it.
PanicNeedsCause ==
    \/ forwarder = "panicked"
    \/ listener = "panicked" /\ ~poisoned
    \/ \E p \in Peers : loop[p] = "panicked"
    => peer = "panicked" \/ (peer = "done" /\ cancelled)

\* The listener checks the cancellation before it dispatches, so stopping the
\* agent lets at most one more application callback begin, however many events
\* are queued (uniffied_agent.rs:409-414).
AtMostOneLateCallback == lateCalls <= 1

\* Once the registration token is cancelled each introduction loop sends at most
\* the one introduction it was already sleeping on (uniffied_agent.rs:502-510).
AtMostOneLateIntro == lateIntros <= Cardinality(Peers)


\* The wedge: the peer task waits for room in `outside', which only the listener
\* empties, while the listener waits, directly or through its callback's
\* broadcast and the forwarder, for room in `inside', which only the peer empties.
ListenerBlocked ==
    \/ listener \in {"ack", "intro"} /\ InsideFull
    \/ listener = "callbackSend" /\ BcastFull /\ forwarder = "send" /\ InsideFull

Wedged ==
    /\ ~cancelled
    /\ peer = "forward"
    /\ OutsideFull
    /\ ListenerBlocked

\* Nothing but a cancellation ever resolves the wedge.
WedgeOnlyEndsByStop == [][Wedged => Wedged' \/ cancelled']_vars

\* What a task can do of itself: take what has come, send where there is room or
\* the channel is closed, see the cancellation, go on with what it has in hand.
CanSend == InsideClosed \/ ~InsideFull

ForwarderMoves ==
    \/ forwarder = "select" /\ (bcast # <<>> \/ cancelled)
    \/ forwarder = "send" /\ CanSend

PeerMoves ==
    \/ peer = "start"
    \/ peer = "select" /\ inside # <<>>
    \/ peer = "forward" /\ (OutsideClosed \/ ~OutsideFull)
    \/ ~PeerOver /\ cancelled

ListenerMoves ==
    \/ listener = "select" /\ (outside # <<>> \/ cancelled)
    \/ listener \in {"handle", "callback"}
    \/ listener \in {"ack", "intro"} /\ CanSend
    \/ listener = "callbackSend" /\ ~BcastFull

LoopMoves(p) == loop[p] = "check" \/ (loop[p] = "send" /\ CanSend)

Standstill ==
    ~ForwarderMoves /\ ~PeerMoves /\ ~ListenerMoves /\ \A p \in Peers : ~LoopMoves(p)

\* No task has anything in hand or before it; the listener may have panicked.
AtRest ==
    /\ forwarder = "select" /\ bcast = <<>>
    /\ peer = "select" /\ inside = <<>>
    /\ listener = "panicked" \/ (listener = "select" /\ outside = <<>>)
    /\ \A p \in Peers : loop[p] \in {"none", "done"}

CoreEnded ==
    /\ forwarder \in {"done", "panicked"}
    /\ PeerOver
    /\ \A p \in Peers : loop[p] \in {"none", "done", "panicked"}

\* A callback that broadcasts waits for room that nobody makes: the forwarder has
\* gone and the receiving end, kept in the agent, has not.
CallbackStuck == listener = "callbackSend" /\ BcastFull /\ forwarder \in {"done", "panicked"}

\* The peer has panicked in a running agent: each sender is idle or panics as well.
CutOff ==
    /\ peer = "panicked"
    /\ forwarder = "panicked" \/ (forwarder = "select" /\ bcast = <<>>)
    /\ \/ listener = "panicked"
       \/ listener = "select" /\ outside = <<>>
       \/ CallbackStuck
    /\ \A p \in Peers : loop[p] \in {"none", "done", "panicked"}

\* The ways in which all tasks can come to a standstill: at rest, or in the wedge, or
\* cut off from the network, while the agent runs; and at the end after a stop, but
\* for a callback whose broadcast waits for ever (uniffied_agent.rs:197-225).
StandstillExplained ==
    Standstill =>
        \/ ~cancelled /\ AtRest
        \/ Wedged
        \/ ~cancelled /\ CutOff
        \/ cancelled /\ CoreEnded /\ (OutsideClosed \/ CallbackStuck)

-----------------------------------------------------------------------------
(* Liveness, under Fairness                                                *)

\* An accepted message is eventually handed to gossipsub or refused by it,
\* unless the agent is stopped, its peer panics or it has run into the wedge: there is
\* no other way for a message to get stuck.
AcceptedIsHandled ==
    \A m \in 1..MaxMsgs :
        accepted >= m ~> \/ m \in Range(wire) \cup refused
                         \/ cancelled
                         \/ peer = "panicked"
                         \/ Wedged

\* After the cancellation every task of the agent ends, by itself or by a panic.
\* This needs callbacks that do not send: see README.
StopEndsTasks ==
    cancelled ~> CoreEnded /\ OutsideClosed

=============================================================================
