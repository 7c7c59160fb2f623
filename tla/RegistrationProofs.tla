------------------------- MODULE RegistrationProofs -------------------------
(***************************************************************************)
(* Theorems about Registration, for any number of clients and whatever the *)
(* network loses.                                                          *)
(***************************************************************************)
EXTENDS Registration, TLAPS

-----------------------------------------------------------------------------
(* Publishing                                                              *)

LEMMA ReceiversFacts ==
    ASSUME NEW n \in Nodes, NEW R \in Receivers(n)
    PROVE  /\ R \subseteq Nodes /\ n \notin R
           /\ n # Admin /\ R # {} => Admin \in R
<1>1. R \subseteq Reachable(n) /\ (n # Admin /\ R # {} => Admin \in R)
  BY DEF Receivers, Reachable
<1>2. Reachable(n) \subseteq Nodes /\ n \notin Reachable(n)
  BY RegistrationAssumption DEF RegistrationAssumption, Reachable, Nodes
<1> QED BY <1>1, <1>2

LEMMA DeliverFacts ==
    ASSUME NEW boxes, NEW R, NEW m
    PROVE  /\ DOMAIN Deliver(boxes, R, m) = Nodes
           /\ \A n \in Nodes :
                /\ boxes[n] \subseteq Deliver(boxes, R, m)[n]
                /\ Deliver(boxes, R, m)[n] \subseteq boxes[n] \cup {m}
                /\ n \notin R => Deliver(boxes, R, m)[n] = boxes[n]
                /\ n \in R /\ m.kind # "ack" => m \in Deliver(boxes, R, m)[n]
  BY DEF Deliver

LEMMA MessageFacts ==
    ASSUME NEW n \in Nodes, NEW p \in Nodes
    PROVE  /\ Introduction(n) \in Message /\ Ack(n, p) \in Message
           /\ Introduction(n).kind = "introduction"
           /\ Introduction(n).from = n /\ Introduction(n).about = n
           /\ Ack(n, p).kind = "ack" /\ Ack(n, p).from = n /\ Ack(n, p).about = p
  BY DEF Introduction, Ack, Message, Introductions, Acks

\* What a step does to the inboxes: messages are removed, and at most one new
\* message, sent by a node other than the receiver, is added.
Sent(boxes, new, n, m) ==
    /\ new \in [Nodes -> SUBSET Message]
    /\ \A k \in Nodes : /\ new[k] \subseteq boxes[k] \cup {m}
                        /\ k = n => new[k] \subseteq boxes[k]

LEMMA AnswerFacts ==
    ASSUME TypeOK, NEW n \in Nodes, NEW m, NEW reply \in Message, Answer(n, m, reply)
    PROVE  /\ Sent(inbox, inbox', n, reply)
           /\ \A k \in Nodes : inbox[k] \ {m} \subseteq inbox'[k]
           /\ \A k \in Nodes \ {n} : inbox[k] \subseteq inbox'[k]
<1> DEFINE boxes == [inbox EXCEPT ![n] = @ \ {m}]
<1>1. PICK R \in Receivers(n) : inbox' = Deliver(boxes, R, reply)
  BY DEF Answer
<1>2. inbox \in [Nodes -> SUBSET Message]
  BY DEF TypeOK
<1>3. /\ \A k \in Nodes : boxes[k] \subseteq inbox[k] /\ inbox[k] \ {m} \subseteq boxes[k]
      /\ \A k \in Nodes \ {n} : boxes[k] = inbox[k]
  BY <1>2
<1>4. n \notin R
  BY ReceiversFacts
<1> HIDE DEF boxes
<1>5. /\ \A k \in Nodes : /\ boxes[k] \subseteq inbox'[k]
                          /\ inbox'[k] \subseteq boxes[k] \cup {reply}
                          /\ k \notin R => inbox'[k] = boxes[k]
  BY <1>1, DeliverFacts
<1>6. inbox' \in [Nodes -> SUBSET Message]
  <2>1. inbox' = [k \in Nodes |-> inbox'[k]]
    BY <1>1 DEF Deliver
  <2>2. \A k \in Nodes : inbox'[k] \subseteq Message
    BY <1>2, <1>3, <1>5
  <2> QED BY <2>1, <2>2
<1>7. \A k \in Nodes : /\ inbox'[k] \subseteq inbox[k] \cup {reply}
                       /\ k = n => inbox'[k] \subseteq inbox[k]
  BY <1>3, <1>4, <1>5
<1> QED BY <1>3, <1>5, <1>6, <1>7 DEF Sent

LEMMA PublishFacts ==
    ASSUME TypeOK, NEW n \in Nodes, NEW R \in Receivers(n),
           inbox' = Deliver(inbox, R, Introduction(n))
    PROVE  /\ Sent(inbox, inbox', n, Introduction(n))
           /\ \A k \in Nodes : inbox[k] \subseteq inbox'[k]
           /\ n # Admin /\ R # {} => Introduction(n) \in inbox'[Admin]
           /\ R = {} => inbox' = inbox
<1>1. inbox \in [Nodes -> SUBSET Message] /\ Introduction(n) \in Message
  BY MessageFacts DEF TypeOK
<1>2. n \notin R /\ R \subseteq Nodes /\ (n # Admin /\ R # {} => Admin \in R)
  BY ReceiversFacts
<1>3. \A k \in Nodes :
        /\ inbox[k] \subseteq inbox'[k]
        /\ inbox'[k] \subseteq inbox[k] \cup {Introduction(n)}
        /\ k \notin R => inbox'[k] = inbox[k]
        /\ k \in R => Introduction(n) \in inbox'[k]
  BY DeliverFacts, MessageFacts
<1>4. inbox' = [k \in Nodes |-> inbox'[k]]
  BY DEF Deliver
<1>5. inbox' \in [Nodes -> SUBSET Message]
  BY <1>1, <1>3, <1>4
<1>6. R = {} => inbox' = inbox
  BY <1>1, <1>3, <1>4
<1>7. Admin \in Nodes
  BY DEF Nodes
<1> QED BY <1>2, <1>3, <1>5, <1>6, <1>7 DEF Sent

-----------------------------------------------------------------------------
(* Type correctness                                                        *)

LEMMA HandleIntroductionFacts ==
    ASSUME TypeOK, NEW n \in Nodes, NEW m \in Message, HandleIntroduction(n, m)
    PROVE  /\ m \in inbox[n] /\ m.kind = "introduction" /\ m.about \in Nodes
           /\ connected' = [connected EXCEPT ![n] = @ \cup {m.about}]
           /\ connected' \in [Nodes -> SUBSET Nodes]
           /\ Answer(n, m, Ack(n, m.about))
           /\ Ack(n, m.about) \in Message
           /\ inbox' \in [Nodes -> SUBSET Message]
<1>1. /\ m \in inbox[n] /\ m.kind = "introduction"
      /\ connected' = [connected EXCEPT ![n] = @ \cup {m.about}]
      /\ Answer(n, m, Ack(n, m.about))
  BY DEF HandleIntroduction
<1>2. m.about \in Nodes
  BY DEF Message, Introductions, Acks
<1>3. connected' \in [Nodes -> SUBSET Nodes]
  BY <1>1, <1>2 DEF TypeOK
<1>4. Ack(n, m.about) \in Message
  BY <1>2, MessageFacts
<1>5. inbox' \in [Nodes -> SUBSET Message]
  BY <1>1, <1>4, AnswerFacts DEF Sent
<1> QED BY <1>1, <1>2, <1>3, <1>4, <1>5

\* What a listener takes out of its inbox is a message.
LEMMA InboxTyped ==
    ASSUME TypeOK
    PROVE  /\ \A n \in Nodes : inbox[n] \subseteq Message
           /\ \A c \in Clients : inbox[c] \subseteq Message
  BY DEF TypeOK, Nodes

LEMMA TypeStep == TypeOK /\ [Next]_vars => TypeOK'
<1> SUFFICES ASSUME TypeOK, [Next]_vars PROVE TypeOK'
  OBVIOUS
<1> USE DEF TypeOK, LinkState, LoopState
<1>1. ASSUME NEW c \in Clients, Connect(c) \/ DialFails(c) \/ AdminServes(c) \/ ClientRegistered(c)
      PROVE TypeOK'
  BY <1>1 DEF Connect, DialFails, AdminServes, ClientRegistered
<1>2. ASSUME NEW c \in Clients, Disconnect(c) PROVE TypeOK'
  <2>1. inbox' \in [Nodes -> SUBSET Message]
    BY <1>2 DEF Disconnect, Nodes
  <2> QED BY <1>2, <2>1 DEF Disconnect
<1>3. ASSUME NEW c \in Clients, HearAdmin(c) PROVE TypeOK'
  BY <1>3 DEF HearAdmin
<1>4. ASSUME NEW c \in Clients, HearClient(c) PROVE TypeOK'
  <2>1. Admin \in Nodes
    BY DEF Nodes
  <2>2. inbox' \in [Nodes -> SUBSET Message]
    BY <1>4, <2>1, PublishFacts DEF HearClient, Sent
  <2> QED BY <1>4, <2>2 DEF HearClient
<1>5. ASSUME NEW n \in Nodes, NEW m \in Message, HandleIntroduction(n, m) PROVE TypeOK'
  <2>1. calledAgain' \in BOOLEAN
    BY <1>5 DEF HandleIntroduction
  <2>2. connected' \in [Nodes -> SUBSET Nodes] /\ inbox' \in [Nodes -> SUBSET Message]
    BY <1>5, HandleIntroductionFacts
  <2> QED BY <1>5, <2>1, <2>2 DEF HandleIntroduction
<1>6. ASSUME NEW c \in Clients, NEW m \in Message, HandleAck(c, m) PROVE TypeOK'
  BY <1>6 DEF HandleAck, Nodes
<1>7. ASSUME NEW c \in Clients, LoopCheck(c) PROVE TypeOK'
  BY <1>7 DEF LoopCheck
<1>8. ASSUME NEW c \in Clients, NEW R \in SUBSET Nodes, LoopSend(c, R) PROVE TypeOK'
  <2>1. c \in Nodes
    BY DEF Nodes
  <2>2. inbox' \in [Nodes -> SUBSET Message]
    BY <1>8, <2>1, PublishFacts DEF LoopSend, Sent
  <2> QED BY <1>8, <2>2 DEF LoopSend
<1>9. CASE UNCHANGED vars
  BY <1>9 DEF vars
<1> QED BY <1>1, <1>2, <1>3, <1>4, <1>5, <1>6, <1>7, <1>8, <1>9, InboxTyped DEF Next

\* Every reachable state of any number of clients is well typed.
THEOREM TypeSafety == Spec => []TypeOK
<1>1. Init => TypeOK
  BY DEF Init, TypeOK, LinkState, LoopState
<1> QED BY <1>1, TypeStep, PTL DEF Spec

-----------------------------------------------------------------------------
(* Acknowledgements are true                                               *)

\* Nobody receives its own message, introduces another or acknowledges itself.
Sane ==
    \A n \in Nodes : \A m \in inbox[n] :
        /\ m.from \in Nodes \ {n}
        /\ m.kind = "introduction" => m.about = m.from
        /\ m.kind = "ack" => m.about # m.from

MessageInv == Sane /\ AckHonest

LEMMA MessageKept ==
    ASSUME TypeOK, MessageInv,
           \A k \in Nodes : inbox'[k] \subseteq inbox[k],
           \A k \in Nodes : connected[k] \subseteq connected'[k]
    PROVE  MessageInv'
  BY DEF MessageInv, Sane, AckHonest

LEMMA MessageSent ==
    ASSUME TypeOK, MessageInv, NEW n \in Nodes, NEW msg, Sent(inbox, inbox', n, msg),
           msg.from = n,
           msg.kind = "introduction" => msg.about = n,
           msg.kind = "ack" => msg.about # n /\ msg.about \in connected'[n],
           \A k \in Nodes : connected[k] \subseteq connected'[k]
    PROVE  MessageInv'
<1> SUFFICES ASSUME NEW k \in Nodes, NEW m \in inbox'[k]
             PROVE  /\ m.from \in Nodes \ {k}
                    /\ m.kind = "introduction" => m.about = m.from
                    /\ m.kind = "ack" => m.about # m.from /\ m.about \in connected'[m.from]
  BY DEF MessageInv, Sane, AckHonest
<1>1. CASE m \in inbox[k]
  BY <1>1 DEF MessageInv, Sane, AckHonest
<1>2. CASE m \notin inbox[k]
  <2>1. m = msg /\ k # n
    BY <1>2 DEF Sent
  <2> QED BY <2>1
<1> QED BY <1>1, <1>2

LEMMA MessageStep ==
    ASSUME TypeOK, MessageInv, [Next]_vars
    PROVE  MessageInv'
<1>1. ASSUME NEW c \in Clients,
             Connect(c) \/ DialFails(c) \/ AdminServes(c) \/ ClientRegistered(c)
             \/ HearAdmin(c) \/ LoopCheck(c)
      PROVE MessageInv'
  BY <1>1, MessageKept DEF Connect, DialFails, AdminServes, ClientRegistered, HearAdmin, LoopCheck
<1>2. ASSUME NEW c \in Clients, Disconnect(c) PROVE MessageInv'
  <2>1. \A k \in Nodes : inbox'[k] \subseteq inbox[k]
    BY <1>2, RegistrationAssumption DEF Disconnect, TypeOK, RegistrationAssumption
  <2> QED BY <1>2, <2>1, MessageKept DEF Disconnect
<1>3. ASSUME NEW c \in Clients, HearClient(c) PROVE MessageInv'
  <2>1. connected' = connected /\ Admin \in Nodes
    BY <1>3 DEF HearClient, Nodes
  <2>2. CASE inbox' = inbox
    BY <2>1, <2>2, MessageKept
  <2>3. ASSUME NEW R \in Receivers(Admin),
               inbox' = Deliver(inbox, R, Introduction(Admin))
        PROVE MessageInv'
    BY <2>1, <2>3, PublishFacts, MessageFacts, MessageSent
  <2> QED BY <1>3, <2>2, <2>3 DEF HearClient
<1>4. ASSUME NEW n \in Nodes, NEW m \in Message, HandleIntroduction(n, m)
      PROVE MessageInv'
  <2>1. /\ m \in inbox[n] /\ m.kind = "introduction" /\ m.about \in Nodes
        /\ connected' = [connected EXCEPT ![n] = @ \cup {m.about}]
        /\ Answer(n, m, Ack(n, m.about)) /\ Ack(n, m.about) \in Message
    BY <1>4, HandleIntroductionFacts
  <2>2. m.about # n
    BY <2>1 DEF MessageInv, Sane
  <2>3. /\ m.about \in connected'[n]
        /\ \A k \in Nodes : connected[k] \subseteq connected'[k]
    BY <2>1 DEF TypeOK
  <2>4. Sent(inbox, inbox', n, Ack(n, m.about))
    BY <2>1, AnswerFacts
  <2>5. /\ Ack(n, m.about).kind = "ack" /\ Ack(n, m.about).from = n
        /\ Ack(n, m.about).about = m.about
    BY <2>1, MessageFacts
  <2> QED BY <2>2, <2>3, <2>4, <2>5, MessageSent
<1>5. ASSUME NEW c \in Clients, NEW m \in Message, HandleAck(c, m) PROVE MessageInv'
  <2>1. \A k \in Nodes : inbox'[k] \subseteq inbox[k]
    BY <1>5 DEF HandleAck, TypeOK
  <2> QED BY <1>5, <2>1, MessageKept DEF HandleAck
<1>6. ASSUME NEW c \in Clients, NEW R \in SUBSET Nodes, LoopSend(c, R)
      PROVE MessageInv'
  <2>1. /\ connected' = connected /\ c \in Nodes /\ R \in Receivers(c)
        /\ inbox' = Deliver(inbox, R, Introduction(c))
    BY <1>6 DEF LoopSend, Nodes
  <2> QED BY <2>1, PublishFacts, MessageFacts, MessageSent
<1>7. CASE UNCHANGED vars
  BY <1>7, MessageKept DEF vars
<1> QED BY <1>1, <1>2, <1>3, <1>4, <1>5, <1>6, <1>7, InboxTyped DEF Next

LEMMA MessageCorrect == Spec => []MessageInv
<1>1. Init => MessageInv
  BY DEF Init, MessageInv, Sane, AckHonest
<1> QED BY <1>1, MessageStep, TypeSafety, PTL DEF Spec

\* Whoever acknowledges an agent has recorded it, whatever is lost, repeated or
\* overtaken.
THEOREM AckSafety == Spec => []AckHonest
<1>1. MessageInv => AckHonest
  BY DEF MessageInv
<1> QED BY <1>1, MessageCorrect, PTL

-----------------------------------------------------------------------------
(* A client that was not acknowledged keeps introducing itself             *)

\* A client knows nobody before it has handled the admin's subscription, which
\* is why it then begins its loop.
TryingInv ==
    /\ \A c \in Clients : c \notin greeted => connected[c] = {}
    /\ KeepsTrying

THEOREM KeepsTryingSafety == Spec => []KeepsTrying
<1> USE DEF TryingInv, KeepsTrying
<1>1. Init => TryingInv
  BY DEF Init, Nodes
<1>2. TypeOK /\ TryingInv /\ [Next]_vars => TryingInv'
  <2> SUFFICES ASSUME TypeOK, TryingInv, [Next]_vars PROVE TryingInv'
    OBVIOUS
  <2> USE DEF TypeOK
  <2>1. ASSUME NEW c \in Clients,
               \/ Connect(c) \/ DialFails(c) \/ AdminServes(c) \/ ClientRegistered(c) \/ Disconnect(c)
               \/ HearClient(c)
        PROVE TryingInv'
    BY <2>1 DEF Connect, DialFails, AdminServes, ClientRegistered, Disconnect, HearClient
  <2>2. ASSUME NEW c \in Clients, HearAdmin(c) PROVE TryingInv'
    BY <2>2 DEF HearAdmin
  <2>3. ASSUME NEW n \in Nodes, NEW m \in Message, HandleIntroduction(n, m)
        PROVE TryingInv'
    <3>1. /\ n \in Clients => n \in greeted
          /\ connected' = [connected EXCEPT ![n] = @ \cup {m.about}]
          /\ UNCHANGED <<greeted, token, loop>>
      BY <2>3, RegistrationAssumption
         DEF HandleIntroduction, CanReceive, RegistrationAssumption
    <3> QED BY <3>1 DEF Nodes
  <2>4. ASSUME NEW c \in Clients, NEW m \in Message, HandleAck(c, m) PROVE TryingInv'
    BY <2>4 DEF HandleAck
  <2>5. ASSUME NEW c \in Clients, LoopCheck(c) PROVE TryingInv'
    BY <2>5 DEF LoopCheck
  <2>6. ASSUME NEW c \in Clients, NEW R \in SUBSET Nodes, LoopSend(c, R)
        PROVE TryingInv'
    BY <2>6 DEF LoopSend
  <2>7. CASE UNCHANGED vars
    BY <2>7 DEF vars
  <2> QED BY <2>1, <2>2, <2>3, <2>4, <2>5, <2>6, <2>7, InboxTyped DEF Next
<1>3. TryingInv => KeepsTrying
  OBVIOUS
<1> QED BY <1>1, <1>2, <1>3, TypeSafety, PTL DEF Spec

-----------------------------------------------------------------------------
(* What the clients know, the admin knows or is about to know              *)

\* A client's introduction reaches nobody before it has reached the admin.
ThroughInv ==
    \A c, d \in Clients :
        c \in connected[d] \/ Introduction(c) \in inbox[d] => OnItsWay(c)

LEMMA IntroductionNamesSender ==
    ASSUME TypeOK, MessageInv, NEW n \in Nodes, NEW m \in inbox[n], m.kind = "introduction"
    PROVE  m = Introduction(m.about)
<1>1. m \in Message /\ m.about = m.from
  BY DEF TypeOK, MessageInv, Sane
<1>2. m \in Introductions
  BY <1>1 DEF Message, Introductions, Acks
<1> QED BY <1>1, <1>2 DEF Introductions, Introduction

\* Once the admin knows a client or is about to, this stays so.
LEMMA OnItsWayStays ==
    ASSUME TypeOK, MessageInv, [Next]_vars, NEW a \in Clients, OnItsWay(a)
    PROVE  OnItsWay(a)'
<1>0. /\ Admin \in Nodes /\ Admin \notin Clients /\ \A c \in Clients : c \in Nodes
      /\ Introduction(a).from = a /\ Introduction(a).kind = "introduction"
  BY RegistrationAssumption, MessageFacts DEF RegistrationAssumption, Nodes
<1>1. ASSUME NEW c \in Clients, Connect(c) \/ DialFails(c) \/ AdminServes(c) \/ ClientRegistered(c)
      PROVE  OnItsWay(a)'
  <2>1. link[a] = "down" => link'[a] = "down"
    BY <1>1 DEF Connect, DialFails, AdminServes, ClientRegistered, TypeOK
  <2>2. connected' = connected /\ inbox' = inbox
    BY <1>1 DEF Connect, DialFails, AdminServes, ClientRegistered
  <2> QED BY <2>1, <2>2 DEF OnItsWay
<1>2. ASSUME NEW c \in Clients, Disconnect(c) PROVE OnItsWay(a)'
  <2>1. connected' = connected /\ link' = [link EXCEPT ![c] = "down"] /\ link \in [Clients -> LinkState]
    BY <1>2 DEF Disconnect, TypeOK
  <2>2. \A m \in inbox[Admin] : m.from # c => m \in inbox'[Admin]
    BY <1>0, <1>2 DEF Disconnect, TypeOK
  <2> QED BY <1>0, <2>1, <2>2 DEF OnItsWay
<1>3. ASSUME NEW c \in Clients, HearAdmin(c) \/ LoopCheck(c) PROVE OnItsWay(a)'
  BY <1>3 DEF HearAdmin, LoopCheck, OnItsWay
<1>4. ASSUME NEW c \in Clients, HearClient(c) PROVE OnItsWay(a)'
  <2>1. connected' = connected /\ link' = link
    BY <1>4 DEF HearClient
  <2>2. inbox[Admin] \subseteq inbox'[Admin]
    BY <1>0, <1>4, PublishFacts DEF HearClient
  <2> QED BY <2>1, <2>2 DEF OnItsWay
<1>5. ASSUME NEW n \in Nodes, NEW m \in Message, HandleIntroduction(n, m)
      PROVE  OnItsWay(a)'
  <2>1. /\ m \in inbox[n] /\ m.kind = "introduction" /\ m.about \in Nodes
        /\ connected' = [connected EXCEPT ![n] = @ \cup {m.about}]
        /\ Answer(n, m, Ack(n, m.about)) /\ Ack(n, m.about) \in Message
    BY <1>5, HandleIntroductionFacts
  <2>2. /\ \A k \in Nodes : inbox[k] \ {m} \subseteq inbox'[k]
        /\ \A k \in Nodes \ {n} : inbox[k] \subseteq inbox'[k]
    BY <2>1, AnswerFacts
  <2>3. CASE n = Admin /\ m = Introduction(a)
    <3>1. m.about = a
      BY <1>0, <2>3, MessageFacts
    <3> QED BY <1>0, <2>1, <2>3, <3>1 DEF OnItsWay, TypeOK
  <2>4. CASE ~(n = Admin /\ m = Introduction(a))
    <3>1. Introduction(a) \in inbox[Admin] => Introduction(a) \in inbox'[Admin]
      BY <1>0, <2>2, <2>4
    <3>2. connected[Admin] \subseteq connected'[Admin] /\ link' = link
      BY <1>0, <1>5, <2>1 DEF HandleIntroduction, TypeOK
    <3> QED BY <3>1, <3>2 DEF OnItsWay
  <2> QED BY <2>3, <2>4
<1>6. ASSUME NEW c \in Clients, NEW m \in Message, HandleAck(c, m) PROVE OnItsWay(a)'
  <2>1. connected' = connected /\ inbox'[Admin] = inbox[Admin] /\ link' = link
    BY <1>0, <1>6 DEF HandleAck, TypeOK
  <2> QED BY <2>1 DEF OnItsWay
<1>7. ASSUME NEW c \in Clients, NEW R \in SUBSET Nodes, LoopSend(c, R)
      PROVE  OnItsWay(a)'
  <2>1. /\ connected' = connected /\ link' = link /\ c \in Nodes /\ R \in Receivers(c)
        /\ inbox' = Deliver(inbox, R, Introduction(c))
    BY <1>0, <1>7 DEF LoopSend
  <2>2. inbox[Admin] \subseteq inbox'[Admin]
    BY <1>0, <2>1, PublishFacts
  <2> QED BY <2>1, <2>2 DEF OnItsWay
<1>8. CASE UNCHANGED vars
  BY <1>8 DEF vars, OnItsWay
<1> QED BY <1>1, <1>2, <1>3, <1>4, <1>5, <1>6, <1>7, <1>8, InboxTyped DEF Next

LEMMA ThroughStep ==
    ASSUME TypeOK, MessageInv, ThroughInv, [Next]_vars
    PROVE  ThroughInv'
<1>0. Admin \in Nodes /\ Admin \notin Clients /\ \A c \in Clients : c \in Nodes
  BY RegistrationAssumption DEF RegistrationAssumption, Nodes
<1>1. SUFFICES ASSUME NEW a \in Clients, NEW b \in Clients,
                      a \in connected'[b] \/ Introduction(a) \in inbox'[b],
                      ~(a \in connected[b] \/ Introduction(a) \in inbox[b])
               PROVE  OnItsWay(a) \/ OnItsWay(a)'
  BY OnItsWayStays DEF ThroughInv
<1>2. ASSUME NEW c \in Clients,
             \/ Connect(c) \/ DialFails(c) \/ AdminServes(c) \/ ClientRegistered(c)
             \/ HearAdmin(c) \/ LoopCheck(c)
      PROVE  FALSE
  BY <1>1, <1>2 DEF Connect, DialFails, AdminServes, ClientRegistered, HearAdmin, LoopCheck
<1>3. ASSUME NEW c \in Clients, Disconnect(c) PROVE FALSE
  <2>1. connected' = connected /\ inbox'[b] \subseteq inbox[b]
    BY <1>0, <1>3 DEF Disconnect, TypeOK
  <2> QED BY <1>1, <2>1
<1>4. ASSUME NEW c \in Clients, HearClient(c) PROVE FALSE
  <2>1. connected' = connected
    BY <1>4 DEF HearClient
  <2>2. inbox'[b] \subseteq inbox[b] \cup {Introduction(Admin)}
    BY <1>0, <1>4, PublishFacts DEF HearClient, Sent
  <2>3. Introduction(a) # Introduction(Admin)
    BY <1>0, MessageFacts
  <2> QED BY <1>1, <2>1, <2>2, <2>3
\* A client learns of another from the introduction, which had passed the admin.
<1>5. ASSUME NEW n \in Nodes, NEW m \in Message, HandleIntroduction(n, m)
      PROVE  OnItsWay(a)
  <2>1. /\ m \in inbox[n] /\ m.kind = "introduction" /\ m.about \in Nodes
        /\ connected' = [connected EXCEPT ![n] = @ \cup {m.about}]
        /\ Answer(n, m, Ack(n, m.about)) /\ Ack(n, m.about) \in Message
    BY <1>5, HandleIntroductionFacts
  <2>2. m = Introduction(m.about)
    BY <2>1, IntroductionNamesSender
  <2>3. inbox'[b] \subseteq inbox[b] \cup {Ack(n, m.about)}
    BY <1>0, <2>1, AnswerFacts DEF Sent
  <2>4. Introduction(a) # Ack(n, m.about)
    BY <1>0, <2>1, MessageFacts
  <2>5. b = n /\ a = m.about
    BY <1>0, <1>1, <2>1, <2>3, <2>4 DEF TypeOK
  <2> QED BY <2>1, <2>2, <2>5 DEF ThroughInv
<1>6. ASSUME NEW c \in Clients, NEW m \in Message, HandleAck(c, m) PROVE FALSE
  <2>1. connected' = connected /\ inbox'[b] \subseteq inbox[b]
    BY <1>0, <1>6 DEF HandleAck, TypeOK
  <2> QED BY <1>1, <2>1
<1>7. ASSUME NEW c \in Clients, NEW R \in SUBSET Nodes, LoopSend(c, R)
      PROVE  OnItsWay(a)'
  <2>1. /\ connected' = connected /\ c \in Nodes /\ R \in Receivers(c)
        /\ inbox' = Deliver(inbox, R, Introduction(c))
    BY <1>0, <1>7 DEF LoopSend
  <2>2. /\ inbox'[b] \subseteq inbox[b] \cup {Introduction(c)}
        /\ R # {} => Introduction(c) \in inbox'[Admin]
        /\ R = {} => inbox' = inbox
    BY <1>0, <2>1, PublishFacts DEF Sent
  <2>3. Introduction(a) = Introduction(c) /\ R # {}
    BY <1>1, <2>1, <2>2
  <2> QED BY <2>2, <2>3 DEF OnItsWay
<1>8. CASE UNCHANGED vars
  BY <1>1, <1>8 DEF vars
<1> QED BY <1>2, <1>3, <1>4, <1>5, <1>6, <1>7, <1>8, InboxTyped DEF Next

LEMMA ThroughCorrect == Spec => []ThroughInv
<1>1. Init => ThroughInv
  BY RegistrationAssumption DEF RegistrationAssumption, Init, ThroughInv, OnItsWay, Nodes
<1> QED BY <1>1, ThroughStep, TypeSafety, MessageCorrect, PTL DEF Spec

\* Every client that another client knows is known to the admin or about to be, or
\* has lost its connection, for any number of clients, whatever the network loses
\* and whichever connections close.
THEOREM ThroughAdminSafety == Spec => []KnownThroughAdmin
<1>1. ThroughInv => KnownThroughAdmin
  BY DEF ThroughInv, OnItsWay, KnownThroughAdmin
<1> QED BY <1>1, ThroughCorrect, PTL

-----------------------------------------------------------------------------
(* Whose acknowledgements silence a client                                 *)

\* An acknowledgement c receives is another node's, of a node other than that:
\* true of c itself, or of another client, or of the admin to another client.
LockedInv ==
    \A c \in Clients : /\ token[c] => OnItsWay(c) \/ OtherAnswered(c)
                       /\ loop[c] = "done" => token[c]

LEMMA AckedForAReason ==
    ASSUME TypeOK, MessageInv, ThroughInv, NEW c \in Clients, NEW m \in inbox[c], m.kind = "ack"
    PROVE  OnItsWay(c) \/ OtherAnswered(c)
<1>1. /\ c \in Nodes /\ m.from \in Nodes \ {c} /\ m.about \in Nodes
      /\ m.about # m.from /\ m.about \in connected[m.from]
  BY DEF TypeOK, Nodes, MessageInv, Sane, AckHonest, Message, Introductions, Acks
<1>2. CASE m.about = c
  <2>1. CASE m.from = Admin
    BY <1>1, <1>2, <2>1 DEF OnItsWay
  <2>2. CASE m.from # Admin
    BY <1>1, <1>2, <2>2 DEF ThroughInv, Nodes
  <2> QED BY <2>1, <2>2
<1>3. CASE m.about = Admin
  BY <1>1, <1>3 DEF OtherAnswered, Nodes
<1>4. CASE m.about # c /\ m.about # Admin
  BY <1>1, <1>4 DEF OtherAnswered, Nodes
<1> QED BY <1>2, <1>3, <1>4

LEMMA OtherAnsweredStays ==
    ASSUME TypeOK, [Next]_vars, NEW c \in Clients, OtherAnswered(c)
    PROVE  OtherAnswered(c)'
<1>1. \A n \in Nodes : connected[n] \subseteq connected'[n]
  <2>1. ASSUME NEW n \in Nodes, NEW m \in Message, HandleIntroduction(n, m)
        PROVE  \A k \in Nodes : connected[k] \subseteq connected'[k]
    BY <2>1, HandleIntroductionFacts DEF TypeOK
  <2>2. CASE \A n \in Nodes, m \in Message : ~HandleIntroduction(n, m)
    <3>1. connected' = connected
      BY <2>2, InboxTyped
         DEF Next, vars, Connect, DialFails, AdminServes, ClientRegistered, Disconnect, HearAdmin,
             HearClient, HandleAck, LoopCheck, LoopSend
    <3> QED BY <3>1
  <2> QED BY <2>1, <2>2
<1> QED BY <1>1 DEF OtherAnswered, Nodes

LEMMA LockedCorrect == Spec => []LockedInv
<1>1. Init => LockedInv
  BY DEF Init, LockedInv
<1>2. TypeOK /\ MessageInv /\ ThroughInv /\ LockedInv /\ [Next]_vars => LockedInv'
  <2> SUFFICES ASSUME TypeOK, MessageInv, ThroughInv, LockedInv, [Next]_vars,
                      NEW c \in Clients
               PROVE  /\ token'[c] => (OnItsWay(c) \/ OtherAnswered(c))'
                      /\ loop'[c] = "done" => token'[c]
    BY DEF LockedInv
  <2>1. OnItsWay(c) \/ OtherAnswered(c) => (OnItsWay(c) \/ OtherAnswered(c))'
    BY OnItsWayStays, OtherAnsweredStays
  <2>2. ASSUME NEW b \in Clients,
               \/ Connect(b) \/ DialFails(b) \/ AdminServes(b) \/ ClientRegistered(b)
               \/ Disconnect(b) \/ HearAdmin(b) \/ HearClient(b)
        PROVE  token'[c] = token[c] /\ (loop'[c] = "done" => token[c])
    BY <2>2 DEF Connect, DialFails, AdminServes, ClientRegistered, Disconnect, HearAdmin, HearClient,
                LockedInv, TypeOK
  <2>3. ASSUME NEW n \in Nodes, NEW m \in Message, HandleIntroduction(n, m)
        PROVE  token'[c] = token[c] /\ (loop'[c] = "done" => token[c])
    BY <2>3 DEF HandleIntroduction, LockedInv
  <2>4. ASSUME NEW b \in Clients, NEW m \in Message, HandleAck(b, m)
        PROVE  /\ token'[c] => token[c] \/ OnItsWay(c) \/ OtherAnswered(c)
               /\ loop'[c] = "done" => token'[c]
    <3>1. token' = [token EXCEPT ![b] = TRUE] /\ loop' = loop /\ m \in inbox[b] /\ m.kind = "ack"
      BY <2>4 DEF HandleAck
    <3>2. b = c => OnItsWay(c) \/ OtherAnswered(c)
      BY <3>1, AckedForAReason
    <3> QED BY <3>1, <3>2 DEF LockedInv, TypeOK
  <2>5. ASSUME NEW b \in Clients, NEW R \in SUBSET Nodes, LoopCheck(b) \/ LoopSend(b, R)
        PROVE  token'[c] = token[c] /\ (loop'[c] = "done" => token[c])
    BY <2>5 DEF LoopCheck, LoopSend, LockedInv, TypeOK
  <2>6. CASE UNCHANGED vars
    BY <2>1, <2>6 DEF vars, LockedInv
  <2>7. ASSUME token'[c] = token[c] /\ (loop'[c] = "done" => token[c])
        PROVE  /\ token'[c] => (OnItsWay(c) \/ OtherAnswered(c))'
               /\ loop'[c] = "done" => token'[c]
    BY <2>1, <2>7 DEF LockedInv
  <2>8. ASSUME NEW b \in Clients, NEW m \in Message, HandleAck(b, m)
        PROVE  /\ token'[c] => (OnItsWay(c) \/ OtherAnswered(c))'
               /\ loop'[c] = "done" => token'[c]
    BY <2>1, <2>4, <2>8 DEF LockedInv
  <2> QED BY <2>2, <2>3, <2>5, <2>6, <2>7, <2>8, InboxTyped DEF Next
<1> QED BY <1>1, <1>2, TypeSafety, MessageCorrect, ThroughCorrect, PTL DEF Spec

\* A client whose acknowledgement was not its own was locked out by another client:
\* for any number of clients, whatever is lost and whichever connections close.
THEOREM LockedOutSafety == Spec => []LockedOutByAnother
<1>1. LockedInv => LockedOutByAnother
  BY DEF LockedInv, LockedOutByAnother
<1> QED BY <1>1, LockedCorrect, PTL

\* A client alone with the admin stops introducing itself only once the admin
\* has recorded it, or is about to, or has lost it, whatever the network loses.
THEOREM SingleClientSafety ==
    ASSUME \A c, d \in Clients : c = d
    PROVE  Spec => []StopsOnlyWhenKnown
<1>1. LockedOutByAnother => StopsOnlyWhenKnown
  BY DEF LockedOutByAnother, OtherAnswered, StopsOnlyWhenKnown
<1> QED BY <1>1, LockedOutSafety, PTL

-----------------------------------------------------------------------------
(* What is known when all is settled                                       *)

\* The admin knows c, or c knows the admin or is about to.
Acquainted(c) ==
    \/ c \in connected[Admin]
    \/ Admin \in connected[c]
    \/ Introduction(Admin) \in inbox[c]
    \/ link[c] = "down"

\* A client whose subscription the admin has handled is registered, so that the
\* admin's introduction reaches it unless it is lost, and the admin leaves the
\* introduction out only for a client it knows.
NoticedInv ==
    \A c \in noticed : /\ link[c] \in {"registered", "down"}
                       /\ Lossy \/ Acquainted(c)

LEMMA AcquaintedStays ==
    ASSUME TypeOK, [Next]_vars, NEW a \in Clients, Acquainted(a)
    PROVE  Acquainted(a)'
<1>0. /\ Admin \in Nodes /\ Admin \notin Clients /\ \A c \in Clients : c \in Nodes
      /\ Introduction(Admin).kind = "introduction" /\ Introduction(Admin).about = Admin
  BY RegistrationAssumption, MessageFacts DEF RegistrationAssumption, Nodes
<1>1. ASSUME NEW c \in Clients,
             Connect(c) \/ DialFails(c) \/ AdminServes(c) \/ ClientRegistered(c) \/ Disconnect(c)
      PROVE  Acquainted(a)'
  <2>1. connected' = connected /\ (link[a] = "down" => link'[a] = "down")
    BY <1>1 DEF Connect, DialFails, AdminServes, ClientRegistered, Disconnect, TypeOK
  <2>2. inbox'[a] = inbox[a] \/ link'[a] = "down"
    BY <1>0, <1>1 DEF Connect, DialFails, AdminServes, ClientRegistered, Disconnect, TypeOK
  <2> QED BY <2>1, <2>2 DEF Acquainted
<1>2. ASSUME NEW c \in Clients, HearAdmin(c) \/ LoopCheck(c) PROVE Acquainted(a)'
  BY <1>2 DEF HearAdmin, LoopCheck, Acquainted
<1>3. ASSUME NEW c \in Clients, HearClient(c) \/ \E R \in SUBSET Nodes : LoopSend(c, R)
      PROVE  Acquainted(a)'
  <2>1. connected' = connected /\ link' = link
    BY <1>3 DEF HearClient, LoopSend
  <2>2. inbox[a] \subseteq inbox'[a]
    BY <1>0, <1>3, PublishFacts DEF HearClient, LoopSend
  <2> QED BY <2>1, <2>2 DEF Acquainted
\* The client handles the admin's introduction: now it knows the admin.
<1>4. ASSUME NEW n \in Nodes, NEW m \in Message, HandleIntroduction(n, m)
      PROVE  Acquainted(a)'
  <2>1. /\ connected' = [connected EXCEPT ![n] = @ \cup {m.about}]
        /\ Answer(n, m, Ack(n, m.about)) /\ Ack(n, m.about) \in Message /\ link' = link
    BY <1>4, HandleIntroductionFacts DEF HandleIntroduction
  <2>2. /\ inbox[a] \ {m} \subseteq inbox'[a]
        /\ n # a => inbox[a] \subseteq inbox'[a]
    BY <1>0, <2>1, AnswerFacts
  <2>3. \A k \in Nodes : connected[k] \subseteq connected'[k]
    BY <2>1 DEF TypeOK
  <2>4. CASE n = a /\ m = Introduction(Admin)
    BY <1>0, <2>1, <2>4 DEF Acquainted, TypeOK
  <2>5. CASE ~(n = a /\ m = Introduction(Admin))
    BY <1>0, <2>1, <2>2, <2>3, <2>5 DEF Acquainted
  <2> QED BY <2>4, <2>5
<1>5. ASSUME NEW c \in Clients, NEW m \in Message, HandleAck(c, m) PROVE Acquainted(a)'
  <2>1. /\ connected' = connected /\ link' = link /\ m.kind = "ack"
        /\ inbox' = [inbox EXCEPT ![c] = @ \ {m}]
    BY <1>5 DEF HandleAck
  <2>2. Introduction(Admin) \in inbox[a] => Introduction(Admin) \in inbox'[a]
    BY <1>0, <2>1 DEF TypeOK
  <2> QED BY <2>1, <2>2 DEF Acquainted
<1>6. CASE UNCHANGED vars
  BY <1>6 DEF vars, Acquainted
<1> QED BY <1>1, <1>2, <1>3, <1>4, <1>5, <1>6, InboxTyped DEF Next

\* The one introduction of the admin.
LEMMA GreetingFacts ==
    ASSUME TypeOK, NEW c \in Clients, HearClient(c)
    PROVE  /\ noticed' = noticed \cup {c} /\ link' = link /\ link[c] = "registered"
           /\ Lossy \/ Acquainted(c)'
<1>0. Admin \in Nodes /\ Admin \notin Clients /\ c \in Nodes
  BY RegistrationAssumption DEF RegistrationAssumption, Nodes
<1>1. /\ noticed' = noticed \cup {c} /\ link' = link /\ link[c] = "registered"
      /\ connected' = connected
  BY DEF HearClient
<1>2. CASE c \in connected[Admin]
  BY <1>1, <1>2 DEF Acquainted
<1>3. CASE c \notin connected[Admin] /\ ~Lossy
  <2>1. inbox' = Deliver(inbox, Reachable(Admin), Introduction(Admin))
    BY <1>3 DEF HearClient, Receivers
  <2>2. c \in Reachable(Admin)
    BY <1>1 DEF Reachable, Up
  <2>3. Introduction(Admin) \in inbox'[c]
    BY <1>0, <2>1, <2>2, DeliverFacts, MessageFacts
  <2> QED BY <1>1, <2>3 DEF Acquainted
<1> QED BY <1>1, <1>2, <1>3

LEMMA NoticedCorrect == Spec => []NoticedInv
<1>1. Init => NoticedInv
  BY DEF Init, NoticedInv
<1>2. TypeOK /\ NoticedInv /\ [Next]_vars => NoticedInv'
  <2> SUFFICES ASSUME TypeOK, NoticedInv, [Next]_vars, NEW a \in noticed'
               PROVE  /\ link'[a] \in {"registered", "down"}
                      /\ Lossy \/ Acquainted(a)'
    BY DEF NoticedInv
  <2>1. CASE a \in noticed
    <3>1. a \in Clients /\ link[a] \in {"registered", "down"} /\ (Lossy \/ Acquainted(a))
      BY <2>1 DEF NoticedInv, TypeOK
    <3>2. link'[a] \in {"registered", "down"}
      BY <3>1 DEF Next, vars, Connect, DialFails, AdminServes, ClientRegistered, Disconnect,
             HearAdmin, HearClient, HandleIntroduction, HandleAck, LoopCheck, LoopSend, TypeOK
    <3> QED BY <3>1, <3>2, AcquaintedStays
  <2>2. CASE a \notin noticed
    <3>1. PICK c \in Clients : HearClient(c)
      BY <2>2 DEF Next, vars, Connect, DialFails, AdminServes, ClientRegistered, Disconnect,
             HearAdmin, HandleIntroduction, HandleAck, LoopCheck, LoopSend
    <3>2. a = c
      BY <2>2, <3>1, GreetingFacts
    <3> QED BY <3>1, <3>2, GreetingFacts
  <2> QED BY <2>1, <2>2
<1> QED BY <1>1, <1>2, TypeSafety, PTL DEF Spec

\* When a client has settled, the admin knows it, or it was answered in another
\* client's place and, unless the network loses messages, knows the admin: for any
\* number of clients, whichever other connections close.
THEOREM SettledSafety == Spec => []SettledIsKnown
<1>1. TypeOK /\ KeepsTrying /\ LockedInv /\ NoticedInv => SettledIsKnown
  <2> SUFFICES ASSUME TypeOK, KeepsTrying, LockedInv, NoticedInv,
                      NEW c \in Clients, Settled(c), c \notin connected[Admin]
               PROVE  OtherAnswered(c) /\ (Lossy \/ Admin \in connected[c])
    BY DEF SettledIsKnown
  <2>1. Introduction(c).from = c
    BY DEF Introduction
  <2>2. ~OnItsWay(c)
    BY <2>1 DEF OnItsWay, Settled
  <2>3. token[c]
    BY DEF KeepsTrying, Settled
  <2>4. Lossy \/ Acquainted(c)
    BY DEF NoticedInv, Settled
  <2>5. Lossy \/ Admin \in connected[c]
    BY <2>4 DEF Acquainted, Settled
  <2> QED BY <2>2, <2>3, <2>5 DEF LockedInv
<1> QED BY <1>1, TypeSafety, KeepsTryingSafety, LockedCorrect, NoticedCorrect, PTL

-----------------------------------------------------------------------------
(* The agents keep the promise of Roster                                   *)

Through == {c \in Clients : c \in connected[Admin] \/ Introduction(c) \in inbox[Admin]}
Lost == {c \in Clients : link[c] = "down"}
Silent == {c \in Clients : token[c]}

\* No inbox gains an introduction from the handling of a message, and the admin's
\* loses only what the admin records.
LEMMA HandlingKeeps ==
    ASSUME TypeOK, MessageInv, NEW n \in Nodes, NEW msg \in Message,
           HandleIntroduction(n, msg) \/ (n \in Clients /\ HandleAck(n, msg))
    PROVE  Through' = Through /\ Lost' = Lost
<1>0. /\ Admin \in Nodes /\ Admin \notin Clients /\ \A c \in Clients : c \in Nodes
  BY RegistrationAssumption DEF RegistrationAssumption, Nodes
<1>1. CASE HandleIntroduction(n, msg)
  <2>1. /\ msg \in inbox[n] /\ msg.kind = "introduction" /\ msg.about \in Nodes
        /\ connected' = [connected EXCEPT ![n] = @ \cup {msg.about}]
        /\ Answer(n, msg, Ack(n, msg.about)) /\ Ack(n, msg.about) \in Message
    BY <1>1, HandleIntroductionFacts
  <2>2. msg = Introduction(msg.about) /\ link' = link
    BY <1>1, <2>1, IntroductionNamesSender DEF HandleIntroduction
  <2>3. /\ inbox'[Admin] \subseteq inbox[Admin] \cup {Ack(n, msg.about)}
        /\ inbox[Admin] \ {msg} \subseteq inbox'[Admin]
        /\ n # Admin => inbox[Admin] \subseteq inbox'[Admin]
    BY <1>0, <2>1, AnswerFacts DEF Sent
  <2>4. \A a \in Clients : Introduction(a) # Ack(n, msg.about)
    BY <1>0, <2>1, MessageFacts
  <2>5. /\ n # Admin => connected'[Admin] = connected[Admin]
        /\ n = Admin => connected'[Admin] = connected[Admin] \cup {msg.about}
    BY <1>0, <2>1 DEF TypeOK
  <2>6. \A a \in Clients : a \in Through' <=> a \in Through
    <3> SUFFICES ASSUME NEW a \in Clients PROVE a \in Through' <=> a \in Through
      OBVIOUS
    <3>1. Introduction(a).about = a /\ a \in Nodes
      BY <1>0, MessageFacts
    <3>2. CASE n = Admin /\ msg.about = a
      BY <2>1, <2>2, <2>5, <3>2 DEF Through
    <3>3. CASE ~(n = Admin /\ msg.about = a)
      <4>1. Introduction(a) \in inbox'[Admin] <=> Introduction(a) \in inbox[Admin]
        BY <2>3, <2>4, <3>1, <3>3
      <4>2. a \in connected'[Admin] <=> a \in connected[Admin]
        BY <2>5, <3>3
      <4> QED BY <4>1, <4>2 DEF Through
    <3> QED BY <3>2, <3>3
  <2> QED BY <2>2, <2>6 DEF Lost, Through
<1>2. CASE n \in Clients /\ HandleAck(n, msg)
  <2>1. connected' = connected /\ link' = link /\ inbox'[Admin] = inbox[Admin]
    BY <1>0, <1>2 DEF HandleAck, TypeOK
  <2> QED BY <2>1 DEF Lost, Through
<1> QED BY <1>1, <1>2

\* A client's own introduction gets it through, and nobody else.
LEMMA SendingThrough ==
    ASSUME TypeOK, NEW c \in Clients, NEW R \in SUBSET Nodes, LoopSend(c, R)
    PROVE  /\ Lost' = Lost
           /\ Through' = Through \/ Through' = Through \cup {c}
<1>0. Admin \in Nodes /\ Admin \notin Clients /\ \A a \in Clients : a \in Nodes
  BY RegistrationAssumption DEF RegistrationAssumption, Nodes
<1>1. /\ connected' = connected /\ link' = link /\ R \in Receivers(c)
      /\ inbox' = Deliver(inbox, R, Introduction(c))
  BY DEF LoopSend
<1>2. /\ inbox'[Admin] \subseteq inbox[Admin] \cup {Introduction(c)}
      /\ inbox[Admin] \subseteq inbox'[Admin]
  BY <1>0, <1>1, PublishFacts DEF Sent
<1>3. \A a \in Clients \ {c} : Introduction(a) # Introduction(c)
  BY <1>0, MessageFacts
<1>4. \A a \in Clients \ {c} : a \in Through' <=> a \in Through
  BY <1>1, <1>2, <1>3 DEF Through
<1>5. c \in Through => c \in Through'
  BY <1>1, <1>2 DEF Through
<1>6. Through \subseteq Clients /\ Through' \subseteq Clients
  BY DEF Through
<1> QED BY <1>1, <1>4, <1>5, <1>6 DEF Lost

\* The loss of a connection takes along what its client had on the way to the admin.
LEMMA LossOfOne ==
    ASSUME TypeOK, MessageInv, NEW c \in Clients, DialFails(c) \/ Disconnect(c)
    PROVE  /\ Lost' = Lost \cup {c}
           /\ Through' = Through \/ Through' = Through \ {c}
<1>0. Admin \in Nodes /\ Admin \notin Clients /\ \A a \in Clients : a \in Nodes
  BY RegistrationAssumption DEF RegistrationAssumption, Nodes
<1>1. connected' = connected /\ link' = [link EXCEPT ![c] = "down"] /\ link \in [Clients -> LinkState]
  BY DEF DialFails, Disconnect, TypeOK
<1>2. /\ inbox'[Admin] \subseteq inbox[Admin]
      /\ \A m \in inbox[Admin] : m.from # c => m \in inbox'[Admin]
  BY <1>0 DEF DialFails, Disconnect, TypeOK
<1>3. \A a \in Clients : Introduction(a).from = a
  BY <1>0, MessageFacts
<1>4. \A a \in Clients \ {c} : a \in Through' <=> a \in Through
  BY <1>1, <1>2, <1>3 DEF Through
<1>5. c \in Through' => c \in Through
  BY <1>1, <1>2 DEF Through
<1>6. Through \subseteq Clients /\ Through' \subseteq Clients
  BY DEF Through
<1>7. Lost' = Lost \cup {c}
  BY <1>1 DEF Lost
<1> QED BY <1>4, <1>5, <1>6, <1>7

\* No other step changes who is through or lost.
LEMMA OtherStepsKeep ==
    ASSUME TypeOK, NEW c \in Clients,
           \/ Connect(c) \/ AdminServes(c) \/ ClientRegistered(c)
           \/ HearAdmin(c) \/ HearClient(c) \/ LoopCheck(c)
    PROVE  Through' = Through /\ Lost' = Lost
<1>0. Admin \in Nodes /\ Admin \notin Clients /\ \A a \in Clients : a \in Nodes
  BY RegistrationAssumption DEF RegistrationAssumption, Nodes
<1>1. connected' = connected
  BY DEF Connect, AdminServes, ClientRegistered, HearAdmin, HearClient, LoopCheck
<1>2. \A a \in Clients : link'[a] = "down" <=> link[a] = "down"
  BY DEF Connect, AdminServes, ClientRegistered, HearAdmin, HearClient, LoopCheck, TypeOK
<1>3. inbox'[Admin] = inbox[Admin]
  <2>1. CASE HearClient(c)
    BY <1>0, <2>1, PublishFacts DEF HearClient, Sent
  <2>2. CASE ~HearClient(c)
    BY <2>2 DEF Connect, AdminServes, ClientRegistered, HearAdmin, LoopCheck
  <2> QED BY <2>1, <2>2
<1> QED BY <1>1, <1>2, <1>3 DEF Through, Lost

LEMMA RosterStep ==
    ASSUME TypeOK, MessageInv, ThroughInv, [Next]_vars
    PROVE  [Promise!Next]_<<connected, Through, Lost, Silent>>
<1>0. /\ Admin \in Nodes /\ Admin \notin Clients /\ \A c \in Clients : c \in Nodes
      /\ Promise!Nodes = Nodes
  BY RegistrationAssumption DEF RegistrationAssumption, Nodes, Promise!Nodes
<1>1. ASSUME NEW c \in Clients,
             \/ Connect(c) \/ AdminServes(c) \/ ClientRegistered(c)
             \/ HearAdmin(c) \/ HearClient(c) \/ LoopCheck(c)
      PROVE  UNCHANGED <<connected, Through, Lost, Silent>>
  <2>1. connected' = connected /\ token' = token
    BY <1>1 DEF Connect, AdminServes, ClientRegistered, HearAdmin, HearClient, LoopCheck
  <2> QED BY <1>1, <2>1, OtherStepsKeep DEF Silent
<1>2. ASSUME NEW c \in Clients, DialFails(c) \/ Disconnect(c)
      PROVE  Promise!Next
  <2>1. connected' = connected /\ Silent' = Silent
    BY <1>2 DEF DialFails, Disconnect, Silent
  <2>2. Promise!Lose(c)
    BY <1>2, <2>1, LossOfOne DEF Promise!Lose, Through, Lost, Silent
  <2> QED BY <2>2 DEF Promise!Next
<1>6. ASSUME NEW c \in Clients, NEW R \in SUBSET Nodes, LoopSend(c, R)
      PROVE  [Promise!Next]_<<connected, Through, Lost, Silent>>
  <2>1. connected' = connected /\ Silent' = Silent
    BY <1>6 DEF LoopSend, Silent
  <2>2. CASE Through' = Through
    BY <1>6, <2>1, <2>2, SendingThrough
  <2>3. CASE Through' = Through \cup {c}
    <3>1. Promise!GetThrough(c)
      BY <1>6, <2>1, <2>3, SendingThrough DEF Promise!GetThrough, Through, Lost, Silent
    <3> QED BY <3>1 DEF Promise!Next
  <2> QED BY <1>6, <2>2, <2>3, SendingThrough
\* Whoever is learned of has come by way of the admin.
<1>3. ASSUME NEW n \in Nodes, NEW m \in Message, HandleIntroduction(n, m)
      PROVE  Promise!Next
  <2>1. /\ m \in inbox[n] /\ m.kind = "introduction" /\ m.about \in Nodes
        /\ connected' = [connected EXCEPT ![n] = @ \cup {m.about}] /\ token' = token
    BY <1>3, HandleIntroductionFacts DEF HandleIntroduction
  <2>2. m.about # n
    BY <2>1 DEF MessageInv, Sane
  <2>3. m.about \in Through \cup Lost \cup {Admin}
    BY <2>1, <2>2, IntroductionNamesSender DEF Through, Lost, ThroughInv, OnItsWay, Nodes
  <2>4. Through' = Through /\ Lost' = Lost
    BY <1>3, HandlingKeeps
  <2>5. Silent' = Silent
    BY <2>1 DEF Silent
  <2>6. Promise!Learn(n, m.about)
    BY <2>1, <2>2, <2>3, <2>4, <2>5 DEF Promise!Learn, Through, Lost, Silent
  <2> QED BY <1>0, <2>1, <2>6 DEF Promise!Next
<1>4. ASSUME NEW c \in Clients, NEW m \in Message, HandleAck(c, m)
      PROVE  Promise!Next
  <2>1. /\ m \in inbox[c] /\ m.kind = "ack" /\ connected' = connected
        /\ token' = [token EXCEPT ![c] = TRUE] /\ token \in [Clients -> BOOLEAN]
    BY <1>4 DEF HandleAck, TypeOK
  <2>2. m.from \in Nodes \ {c} /\ connected[m.from] # {}
    BY <1>0, <2>1 DEF MessageInv, Sane, AckHonest
  <2>3. Silent' = Silent \cup {c}
    BY <2>1 DEF Silent
  <2>4. Through' = Through /\ Lost' = Lost
    BY <1>0, <1>4, HandlingKeeps
  <2>5. \E n \in Promise!Nodes \ {c} : connected[n] # {}
    BY <1>0, <2>2
  <2>6. Promise!FallSilent(c)
    BY <2>1, <2>3, <2>4, <2>5 DEF Promise!FallSilent, Through, Lost, Silent
  <2> QED BY <2>6 DEF Promise!Next
<1>5. CASE UNCHANGED vars
  BY <1>5 DEF vars, Through, Lost, Silent
<1> QED BY <1>1, <1>2, <1>3, <1>4, <1>5, <1>6, InboxTyped DEF Next

\* Any number of agents, over links that lose messages and close, keep the promise
\* of Roster: what happens among them is explained by getting through, losing a
\* connection, learning of somebody and falling silent.
THEOREM RosterRefinement == Spec => ImplementsRoster
<1>1. Init => Promise!Init
  BY RegistrationAssumption
     DEF RegistrationAssumption, Init, Promise!Init, Nodes, Promise!Nodes
<1>2. TypeOK /\ MessageInv /\ ThroughInv /\ [Next]_vars
        => [Promise!Next]_<<connected, Through, Lost, Silent>>
  BY RosterStep
<1> QED BY <1>1, <1>2, TypeSafety, MessageCorrect, ThroughCorrect, PTL
        DEF Spec, ImplementsRoster, Promise!Spec, Through, Lost, Silent

=============================================================================
