-------------------------- MODULE AgentPipeProofs --------------------------
(***************************************************************************)
(* AgentNode implements FifoPipe, and loses nothing until it is stopped    *)
(* or its peer panics.                                                     *)
(*                                                                         *)
(* The argument for the order: along wire, inside, the forwarder's hands   *)
(* and bcast, in this order, the numbers of the user messages increase.    *)
(* Every task takes from the front of one stage and puts at the end of the *)
(* next, which keeps it so.                                                *)
(***************************************************************************)
EXTENDS AgentNodeProofs

-----------------------------------------------------------------------------
(* Increasing sequences; Control does not count.                           *)

Increasing(s) ==
    \A i, j \in 1..Len(s) :
        i < j /\ s[i] # Control /\ s[j] # Control => s[i] < s[j]

Above(s, m) == \A i \in 1..Len(s) : s[i] # Control => m < s[i]
Below(s, m) == \A i \in 1..Len(s) : s[i] < m

LEMMA IncreasingAppend ==
    ASSUME NEW s \in Seq(Nat), NEW m \in Nat, Increasing(s),
           m # Control => Below(s, m)
    PROVE  Increasing(Append(s, m))
<1>1. /\ Len(Append(s, m)) = Len(s) + 1
      /\ \A i \in 1..Len(s) : Append(s, m)[i] = s[i]
      /\ Append(s, m)[Len(s) + 1] = m
  BY AppendFacts
<1>2. Len(s) \in Nat
  OBVIOUS
<1> QED BY <1>1, <1>2 DEF Increasing, Below

LEMMA IncreasingTail ==
    ASSUME NEW s \in Seq(Nat), s # <<>>, Increasing(s)
    PROVE  /\ Increasing(Tail(s))
           /\ Head(s) # Control => Above(Tail(s), Head(s))
<1>1. /\ Len(s) \in Nat \ {0}
      /\ Head(s) = s[1]
      /\ Len(Tail(s)) = Len(s) - 1
      /\ \A i \in 1..(Len(s) - 1) : Tail(s)[i] = s[i + 1]
  BY TailFacts
<1> QED BY <1>1 DEF Increasing, Above

LEMMA AboveAppend ==
    ASSUME NEW s \in Seq(Nat), NEW x \in Nat, NEW m \in Nat, Above(s, m),
           x # Control => m < x
    PROVE  Above(Append(s, x), m)
<1>1. /\ Len(Append(s, x)) = Len(s) + 1
      /\ \A i \in 1..Len(s) : Append(s, x)[i] = s[i]
      /\ Append(s, x)[Len(s) + 1] = x
  BY AppendFacts
<1>2. Len(s) \in Nat
  OBVIOUS
<1> QED BY <1>1, <1>2 DEF Above

LEMMA BelowAppend ==
    ASSUME NEW s \in Seq(Nat), NEW x \in Nat, NEW m \in Nat, Below(s, m), x < m
    PROVE  Below(Append(s, x), m)
<1>1. /\ Len(Append(s, x)) = Len(s) + 1
      /\ \A i \in 1..Len(s) : Append(s, x)[i] = s[i]
      /\ Append(s, x)[Len(s) + 1] = x
  BY AppendFacts
<1>2. Len(s) \in Nat
  OBVIOUS
<1> QED BY <1>1, <1>2 DEF Below

LEMMA BoundsTail ==
    ASSUME NEW s \in Seq(Nat), s # <<>>, NEW m \in Nat
    PROVE  /\ Above(s, m) => Above(Tail(s), m)
           /\ Below(s, m) => Below(Tail(s), m)
<1>1. /\ Len(s) \in Nat \ {0}
      /\ Len(Tail(s)) = Len(s) - 1
      /\ \A i \in 1..(Len(s) - 1) : Tail(s)[i] = s[i + 1]
  BY TailFacts
<1> QED BY <1>1 DEF Above, Below

-----------------------------------------------------------------------------
(* The order along the pipeline                                            *)

LastSent == IF wire = <<>> THEN 0 ELSE wire[Len(wire)]

OrderInv ==
    /\ Increasing(inside) /\ Above(inside, LastSent) /\ Below(inside, accepted + 1)
    /\ Increasing(bcast) /\ Above(bcast, LastSent) /\ Above(bcast, fwdMsg)
    /\ Below(bcast, accepted + 1)
    /\ \A i \in 1..Len(bcast) : Below(inside, bcast[i])
    /\ fwdMsg # Control => LastSent < fwdMsg /\ Below(inside, fwdMsg)
    /\ fwdMsg <= accepted
    /\ LastSent <= accepted

\* What the type invariant says of the numbers in the pipeline.
PipeTyped ==
    /\ accepted \in Nat /\ fwdMsg \in Nat /\ LastSent \in Nat
    /\ inside \in Seq(Nat) /\ bcast \in Seq(Nat)
    /\ \A i \in 1..Len(bcast) : bcast[i] \in Nat \ {0}
    /\ \A i \in 1..Len(inside) : inside[i] \in Nat
    /\ Len(bcast) \in Nat /\ Len(inside) \in Nat
    /\ forwarder = "send" <=> fwdMsg # Control

LEMMA PipeTypes == TypeInv => PipeTyped
<1> SUFFICES ASSUME TypeInv PROVE PipeTyped
  OBVIOUS
<1> USE NodeAssumption DEF NodeAssumption, TypeInv, TypeOK, HandsFull
<1>1. accepted \in Nat /\ fwdMsg \in Nat
  OBVIOUS
<1>2. LastSent \in Nat
  <2>1. wire # <<>> => wire[Len(wire)] \in 1..MaxMsgs
    OBVIOUS
  <2> QED BY <2>1 DEF LastSent
<1>3. inside \in Seq(Nat) /\ bcast \in Seq(Nat)
  OBVIOUS
<1>4. /\ \A i \in 1..Len(bcast) : bcast[i] \in Nat \ {0}
      /\ \A i \in 1..Len(inside) : inside[i] \in Nat
      /\ Len(bcast) \in Nat /\ Len(inside) \in Nat
  OBVIOUS
<1> QED BY <1>1, <1>2, <1>3, <1>4 DEF PipeTyped

\* A message enters at the back, above everything in the pipeline.
LEMMA OrderEnqueue ==
    ASSUME TypeInv, OrderInv, Enqueue,
           UNCHANGED <<forwarder, fwdMsg, inside, wire>>
    PROVE  OrderInv'
<1>0. PipeTyped
  BY PipeTypes
<1> USE <1>0 DEF PipeTyped, OrderInv
<1>1. /\ bcast' = Append(bcast, accepted + 1) /\ accepted' = accepted + 1
      /\ fwdMsg' = fwdMsg /\ inside' = inside /\ wire' = wire
  BY DEF Enqueue
<1>2. LastSent' = LastSent
  BY DEF LastSent
<1>3. Increasing(bcast')
  BY <1>1, IncreasingAppend
<1>4. Above(bcast', LastSent) /\ Above(bcast', fwdMsg)
  BY <1>1, AboveAppend
<1>5. Below(bcast', accepted' + 1) /\ Below(inside, accepted' + 1)
  <2>1. accepted' + 1 = (accepted + 1) + 1 /\ accepted \in Nat
    BY <1>1
  <2>2. ASSUME NEW q \in Seq(Nat), Below(q, accepted + 1) PROVE Below(q, accepted' + 1)
    <3> HIDE DEF OrderInv, PipeTyped
    <3> QED BY <2>1, <2>2 DEF Below
  <2> QED BY <1>1, <2>2, BelowAppend
<1>6. \A i \in 1..Len(bcast') : Below(inside, bcast'[i])
  <2>1. /\ Len(bcast') = Len(bcast) + 1
        /\ \A i \in 1..Len(bcast) : bcast'[i] = bcast[i]
        /\ bcast'[Len(bcast) + 1] = accepted + 1
    BY <1>1, AppendFacts
  <2> SUFFICES ASSUME NEW i \in 1..Len(bcast') PROVE Below(inside, bcast'[i])
    OBVIOUS
  <2>2. CASE i \in 1..Len(bcast)
    BY <2>1, <2>2
  <2>3. CASE i = Len(bcast) + 1
    BY <2>1, <2>3
  <2> QED BY <2>1, <2>2, <2>3
<1>7. fwdMsg' <= accepted' /\ LastSent' <= accepted'
  BY <1>1, <1>2
<1>8. /\ Increasing(inside') /\ Above(inside', LastSent')
      /\ fwdMsg' # Control => LastSent' < fwdMsg' /\ Below(inside', fwdMsg')
  BY <1>1, <1>2
<1>9. /\ Above(bcast', LastSent') /\ Above(bcast', fwdMsg')
      /\ Below(inside', accepted' + 1)
      /\ \A i \in 1..Len(bcast') : Below(inside', bcast'[i])
  BY <1>1, <1>2, <1>4, <1>5, <1>6
<1> QED BY <1>3, <1>5, <1>7, <1>8, <1>9

LEMMA OrderTake ==
    ASSUME TypeInv, OrderInv, FwdTake
    PROVE  OrderInv'
<1>0. PipeTyped
  BY PipeTypes
<1> USE <1>0 DEF PipeTyped, OrderInv
<1>1. /\ bcast # <<>> /\ bcast' = Tail(bcast)
      /\ fwdMsg = Control /\ fwdMsg' = Head(bcast)
      /\ UNCHANGED <<accepted, inside, wire>>
  BY DEF FwdTake, peerVars
<1>2. LastSent' = LastSent
  BY <1>1 DEF LastSent
<1>3. /\ Head(bcast) = bcast[1] /\ Head(bcast) # Control
      /\ 1 \in 1..Len(bcast)
  BY <1>1, TailFacts DEF Control
<1>4. Increasing(bcast') /\ Above(bcast', fwdMsg')
  BY <1>1, <1>3, IncreasingTail
<1>5. Above(bcast', LastSent) /\ Below(bcast', accepted + 1)
  BY <1>1, BoundsTail
<1>6. LastSent < fwdMsg' /\ Below(inside, fwdMsg') /\ fwdMsg' <= accepted
  BY <1>1, <1>3 DEF Above, Below
<1>7. \A i \in 1..Len(bcast') : Below(inside, bcast'[i])
  <2>1. /\ Len(bcast') = Len(bcast) - 1
        /\ \A i \in 1..(Len(bcast) - 1) : bcast'[i] = bcast[i + 1]
    BY <1>1, TailFacts
  <2> SUFFICES ASSUME NEW i \in 1..Len(bcast') PROVE Below(inside, bcast'[i])
    OBVIOUS
  <2>2. i + 1 \in 1..Len(bcast) /\ bcast'[i] = bcast[i + 1]
    BY <2>1
  <2> QED BY <2>2
<1> QED BY <1>1, <1>2, <1>4, <1>5, <1>6, <1>7

LEMMA OrderSend ==
    ASSUME TypeInv, OrderInv, FwdSend
    PROVE  OrderInv'
<1>0. PipeTyped
  BY PipeTypes
<1> USE <1>0 DEF PipeTyped, OrderInv
<1>1. /\ fwdMsg # Control /\ fwdMsg' = Control
      /\ inside' = inside \/ inside' = Append(inside, fwdMsg)
      /\ UNCHANGED <<accepted, bcast, wire>>
  BY DEF FwdSend, appVars, peerVars
<1>2. LastSent' = LastSent
  BY <1>1 DEF LastSent
<1>3. Increasing(inside') /\ Above(inside', LastSent)
  BY <1>1, IncreasingAppend, AboveAppend
<1>4. Below(inside', accepted + 1)
  <2>1. fwdMsg < accepted + 1 /\ accepted + 1 \in Nat
    OBVIOUS
  <2> QED BY <1>1, <2>1, BelowAppend
<1>5. \A i \in 1..Len(bcast) : Below(inside', bcast[i])
  <2> SUFFICES ASSUME NEW i \in 1..Len(bcast) PROVE Below(inside', bcast[i])
    OBVIOUS
  <2>1. fwdMsg < bcast[i]
    BY DEF Above, Control
  <2> QED BY <1>1, <2>1, BelowAppend
<1>6. Above(bcast, Control)
  BY DEF Above, Control
<1> QED BY <1>1, <1>2, <1>3, <1>4, <1>5, <1>6 DEF Control

\* An introduction or an acknowledgement joins the queue anywhere.
LEMMA OrderControl ==
    ASSUME TypeInv, OrderInv,
           inside' = inside \/ inside' = Append(inside, Control),
           accepted' = accepted, bcast' = bcast, fwdMsg' = fwdMsg, wire' = wire
    PROVE  OrderInv'
<1>0. PipeTyped
  BY PipeTypes
<1> USE <1>0 DEF PipeTyped, OrderInv
<1>1. LastSent' = LastSent
  BY DEF LastSent
<1>2. Control \in Nat /\ accepted + 1 \in Nat /\ Control < accepted + 1
  BY DEF Control
<1>3. Increasing(inside') /\ Above(inside', LastSent) /\ Below(inside', accepted + 1)
  <2>1. Increasing(inside')
    BY <1>2, IncreasingAppend
  <2>2. Above(inside', LastSent)
    BY <1>2, AboveAppend
  <2>3. Below(inside', accepted + 1)
    BY <1>2, BelowAppend
  <2> QED BY <2>1, <2>2, <2>3
<1>4. \A i \in 1..Len(bcast) : Below(inside', bcast[i])
  <2> SUFFICES ASSUME NEW i \in 1..Len(bcast) PROVE Below(inside', bcast[i])
    OBVIOUS
  <2>1. Control < bcast[i]
    BY DEF Control
  <2> QED BY <1>2, <2>1, BelowAppend
<1>5. fwdMsg # Control => Below(inside', fwdMsg)
  <2> SUFFICES ASSUME fwdMsg # Control PROVE Below(inside', fwdMsg)
    OBVIOUS
  <2>1. Control < fwdMsg
    BY DEF Control
  <2> QED BY <1>2, <2>1, BelowAppend
<1> QED BY <1>1, <1>3, <1>4, <1>5

LEMMA OrderPublish ==
    ASSUME TypeInv, OrderInv, NEW taken \in BOOLEAN, PeerPublish(taken)
    PROVE  /\ OrderInv'
           /\ wire' = wire \/ \E m \in (LastSent + 1)..accepted : wire' = Append(wire, m)
<1>0. PipeTyped
  BY PipeTypes
<1> USE <1>0 DEF PipeTyped, OrderInv
<1> DEFINE m == Head(inside)
<1>1. /\ inside # <<>> /\ inside' = Tail(inside)
      /\ wire' = IF taken /\ m # Control THEN Append(wire, m) ELSE wire
      /\ UNCHANGED <<accepted, bcast, forwarder, fwdMsg>>
  BY DEF PeerPublish, appVars, fwdVars
<1>2. m = inside[1] /\ 1 \in 1..Len(inside) /\ m \in Nat
  BY <1>1, TailFacts
<1>3. Increasing(inside') /\ (m # Control => Above(inside', m))
  BY <1>1, IncreasingTail
<1>4. /\ Above(inside', LastSent) /\ Below(inside', accepted + 1)
      /\ fwdMsg # Control => Below(inside', fwdMsg)
      /\ \A i \in 1..Len(bcast) : Below(inside', bcast[i])
  BY <1>1, BoundsTail
<1>5. CASE wire' = wire
  <2>1. LastSent' = LastSent
    BY <1>5 DEF LastSent
  <2> QED BY <1>1, <1>3, <1>4, <1>5, <2>1
<1>6. CASE taken /\ m # Control
  <2>1. wire' = Append(wire, m)
    BY <1>1, <1>6
  <2>2. m \in (LastSent + 1)..accepted
    BY <1>2, <1>6 DEF Above, Below
  <2>3. LastSent' = m
    <3>1. wire \in Seq(1..MaxMsgs) /\ m \in 1..MaxMsgs
      BY <1>2, <1>6, NodeAssumption DEF NodeAssumption, TypeInv, TypeOK, Control
    <3> HIDE DEF m
    <3>2. /\ Len(Append(wire, m)) = Len(wire) + 1
          /\ Append(wire, m)[Len(wire) + 1] = m
          /\ Append(wire, m) # <<>>
      BY ONLY <3>1, AppendFacts
    <3> QED BY <2>1, <3>2 DEF LastSent
  <2>4. Above(bcast, m) /\ (fwdMsg # Control => m < fwdMsg) /\ m <= accepted
    BY <1>2 DEF Above, Below
  <2> QED BY <1>1, <1>3, <1>4, <1>6, <2>1, <2>2, <2>3, <2>4
<1> QED BY <1>1, <1>5, <1>6

\* The end of the peer task empties the channel.
LEMMA OrderDrop ==
    ASSUME TypeInv, OrderInv, inside' = <<>>,
           accepted' = accepted, bcast' = bcast, fwdMsg' = fwdMsg, wire' = wire
    PROVE  OrderInv'
<1>1. LastSent' = LastSent
  BY DEF LastSent
<1>2. Len(<<>>) = 0
  OBVIOUS
<1>3. \A m : Increasing(<<>>) /\ Above(<<>>, m) /\ Below(<<>>, m)
  BY <1>2 DEF Increasing, Above, Below
<1> QED BY <1>1, <1>3 DEF OrderInv

\* Each step keeps the order and is a step of FifoPipe or changes nothing there.
LEMMA OrderStep ==
    ASSUME TypeInv, OrderInv, [Next]_vars
    PROVE  OrderInv' /\ [Pipe!Next]_<<accepted, wire>>
<1> DEFINE Unmoved == /\ accepted' = accepted /\ bcast' = bcast
                      /\ fwdMsg' = fwdMsg /\ wire' = wire
           Goal == OrderInv' /\ [Pipe!Next]_<<accepted, wire>>
<1> USE DEF appVars, fwdVars, peerVars, lisVars, loopVars, envVars
<1>1. ASSUME Unmoved, inside' = inside \/ inside' = Append(inside, Control)
      PROVE Goal
  BY <1>1, OrderControl
<1>2. ASSUME Unmoved, inside' = <<>> PROVE Goal
  BY <1>2, OrderDrop
<1>3. CASE AppBroadcast \/ CallbackEnqueue
  <2>1. Enqueue /\ UNCHANGED <<forwarder, fwdMsg, inside, wire>>
    BY <1>3 DEF AppBroadcast, CallbackEnqueue
  <2>2. Pipe!Accept
    BY <2>1 DEF Pipe!Accept, Enqueue
  <2> QED BY <2>1, <2>2, OrderEnqueue DEF Pipe!Next
<1>4. CASE FwdTake
  BY <1>4, OrderTake DEF FwdTake
<1>5. CASE FwdSend
  BY <1>5, OrderSend DEF FwdSend
<1>6. ASSUME NEW taken \in BOOLEAN, PeerPublish(taken) PROVE Goal
  <2>1. OrderInv' /\ accepted' = accepted
    BY <1>6, OrderPublish DEF PeerPublish
  <2>2. CASE wire' = wire
    BY <2>1, <2>2
  <2>3. ASSUME NEW m \in (LastSent + 1)..accepted, wire' = Append(wire, m) PROVE Goal
    <3>1. Pipe!LastOnWire = LastSent
      BY DEF Pipe!LastOnWire, LastSent
    <3>2. m \in 1..accepted
      BY PipeTypes DEF PipeTyped
    <3>3. Pipe!Transmit(m)
      BY <2>1, <2>3, <3>1 DEF Pipe!Transmit
    <3> QED BY <2>1, <3>2, <3>3 DEF Pipe!Next
  <2> QED BY <1>6, <2>2, <2>3, OrderPublish
<1>7. CASE PeerStop \/ PeerCannotStart \/ PeerCannotDecode
  BY <1>2, <1>7 DEF PeerStop, PeerCannotStart, PeerCannotDecode, PeerPanics
<1>8. CASE Cancel \/ FwdStop \/ PeerStart \/ PeerForward \/ \E e \in Event : PeerReceive(e)
  BY <1>1, <1>8 DEF Cancel, FwdStop, PeerStart, PeerForward, PeerReceive
<1>9. CASE LisTake \/ LisStop \/ LisSend
  BY <1>1, <1>9 DEF LisTake, LisStop, LisSend
<1>10. CASE HandleMessage \/ HandleMalformed
            \/ HandleIntroduction \/ HandleAck \/ HandleSubscribe
  BY <1>1, <1>10 DEF HandleMessage, HandleMalformed, HandleIntroduction, HandleAck,
                     HandleSubscribe
<1>11. CASE CallbackReturn \/ CallbackCall
  BY <1>1, <1>11 DEF CallbackReturn, CallbackCall
<1>12. ASSUME NEW p \in Peers, LoopCheck(p) \/ LoopSend(p) PROVE Goal
  BY <1>1, <1>12 DEF LoopCheck, LoopSend
<1>13. CASE UNCHANGED vars
  BY <1>1, <1>13 DEF vars
<1> QED BY <1>3, <1>4, <1>5, <1>6, <1>7, <1>8, <1>9, <1>10, <1>11, <1>12, <1>13 DEF Next

LEMMA OrderInit ==
    ASSUME Init
    PROVE  OrderInv /\ Pipe!Init
<1>1. Len(<<>>) = 0
  OBVIOUS
<1>2. \A m : Increasing(<<>>) /\ Above(<<>>, m) /\ Below(<<>>, m)
  BY <1>1 DEF Increasing, Above, Below
<1> QED BY <1>1, <1>2 DEF Init, OrderInv, LastSent, Control, Pipe!Init

\* An agent with channels of any capacity is a FIFO pipe from broadcast() and
\* send_direct() to the network: nothing is overtaken, repeated or invented.
THEOREM Refinement == Spec => ImplementsFifoPipe
<1>1. Init => OrderInv /\ Pipe!Init
  BY OrderInit
<1>2. TypeInv /\ OrderInv /\ [Next]_vars => OrderInv' /\ [Pipe!Next]_<<accepted, wire>>
  BY OrderStep
<1> QED BY <1>1, <1>2, TypeCorrect, PTL DEF Spec, ImplementsFifoPipe, Pipe!Spec

-----------------------------------------------------------------------------
(* Nothing is lost                                                         *)

LEMMA RangeAppend ==
    ASSUME NEW s \in Seq(Nat), NEW x \in Nat
    PROVE  Range(Append(s, x)) = Range(s) \cup {x}
<1>1. /\ DOMAIN Append(s, x) = 1..(Len(s) + 1) /\ DOMAIN s = 1..Len(s)
      /\ Len(s) \in Nat
      /\ \A i \in 1..Len(s) : Append(s, x)[i] = s[i]
      /\ Append(s, x)[Len(s) + 1] = x
  OBVIOUS
<1> QED BY <1>1 DEF Range

LEMMA RangeTail ==
    ASSUME NEW s \in Seq(Nat), s # <<>>
    PROVE  Range(s) = {Head(s)} \cup Range(Tail(s))
<1>1. /\ DOMAIN Tail(s) = 1..(Len(s) - 1) /\ DOMAIN s = 1..Len(s)
      /\ Len(s) \in Nat \ {0}
      /\ Head(s) = s[1]
      /\ \A i \in 1..(Len(s) - 1) : Tail(s)[i] = s[i + 1]
  OBVIOUS
<1>2. ASSUME NEW i \in 2..Len(s) PROVE s[i] \in Range(Tail(s))
  <2>1. i - 1 \in 1..(Len(s) - 1) /\ Tail(s)[i - 1] = s[i]
    BY <1>1
  <2> QED BY <1>1, <2>1 DEF Range
<1>3. ASSUME NEW i \in 1..(Len(s) - 1) PROVE Tail(s)[i] \in Range(s)
  <2>1. i \in 1..(Len(s) - 1) /\ i + 1 \in 1..Len(s)
    BY <1>1
  <2>2. Tail(s)[i] = s[i + 1] /\ i + 1 \in DOMAIN s
    BY <1>1, <2>1
  <2> QED BY <2>2 DEF Range
<1>4. Range(s) \subseteq {Head(s)} \cup Range(Tail(s))
  <2> SUFFICES ASSUME NEW i \in 1..Len(s) PROVE s[i] \in {Head(s)} \cup Range(Tail(s))
    BY <1>1 DEF Range
  <2> QED BY <1>1, <1>2
<1>5. {Head(s)} \cup Range(Tail(s)) \subseteq Range(s)
  <2>1. Head(s) \in Range(s)
    BY <1>1 DEF Range
  <2>2. \A x \in Range(Tail(s)) : \E i \in 1..(Len(s) - 1) : x = Tail(s)[i]
    BY <1>1 DEF Range
  <2> QED BY <1>3, <2>1, <2>2
<1> QED BY <1>4, <1>5

Held == Range(bcast) \cup {fwdMsg} \cup Range(inside) \cup Range(wire) \cup refused

\* While the agent runs and its peer does, no step drops a message it holds.
LEMMA HeldStep ==
    ASSUME TypeInv, PanicInv, [Next]_vars, ~cancelled', peer' # "panicked"
    PROVE  /\ Held \subseteq Held' \cup {Control}
           /\ \A m \in 1..accepted' : m \in 1..accepted \/ m \in Held'
<1> DEFINE Goal == /\ Held \subseteq Held' \cup {Control}
                   /\ \A m \in 1..accepted' : m \in 1..accepted \/ m \in Held'
<1>0. PipeTyped /\ wire \in Seq(Nat)
  <2>1. wire \in Seq(1..MaxMsgs)
    BY DEF TypeInv, TypeOK
  <2>2. wire \in Seq(Nat)
    BY <2>1, NodeAssumption DEF NodeAssumption
  <2> QED BY <2>2, PipeTypes
<1> USE <1>0 DEF PipeTyped, appVars, fwdVars, peerVars, lisVars, loopVars, envVars
<1>1. CASE AppBroadcast \/ CallbackEnqueue
  <2>1. /\ accepted' = accepted + 1 /\ bcast' = Append(bcast, accepted + 1)
        /\ fwdMsg' = fwdMsg /\ inside' = inside /\ wire' = wire /\ refused' = refused
    BY <1>1 DEF AppBroadcast, CallbackEnqueue, Enqueue
  <2>2. Held' = Held \cup {accepted + 1}
    BY <2>1, RangeAppend DEF Held
  <2> QED BY <2>1, <2>2
<1>2. CASE FwdTake
  <2>1. /\ bcast # <<>> /\ bcast' = Tail(bcast) /\ fwdMsg' = Head(bcast)
        /\ fwdMsg = Control
        /\ accepted' = accepted /\ inside' = inside /\ wire' = wire /\ refused' = refused
    BY <1>2 DEF FwdTake
  <2>2. Held \subseteq Held' \cup {Control}
    BY <2>1, RangeTail DEF Held
  <2> QED BY <2>1, <2>2
<1>3. CASE FwdSend
  <2>1. ~InsideClosed
    BY <1>3 DEF FwdSend, InsideClosed, PeerOver, PanicInv
  <2>2. /\ inside' = Append(inside, fwdMsg) /\ fwdMsg' = Control
        /\ accepted' = accepted /\ bcast' = bcast /\ wire' = wire /\ refused' = refused
    BY <1>3, <2>1 DEF FwdSend
  <2>3. Held \subseteq Held'
    BY <2>2, RangeAppend DEF Held
  <2> QED BY <2>2, <2>3
<1>4. ASSUME NEW taken \in BOOLEAN, PeerPublish(taken) PROVE Goal
  <2> DEFINE m == Head(inside)
  <2>1. /\ inside # <<>> /\ inside' = Tail(inside)
        /\ wire' = IF taken /\ m # Control THEN Append(wire, m) ELSE wire
        /\ refused' = IF ~taken /\ m # Control THEN refused \cup {m} ELSE refused
        /\ accepted' = accepted /\ bcast' = bcast /\ fwdMsg' = fwdMsg
    BY <1>4 DEF PeerPublish
  <2>2. m \in Nat
    BY <2>1, TailFacts
  <2>3. Range(inside) = {m} \cup Range(inside')
    BY <2>1, RangeTail
  <2>4. /\ Range(wire) \subseteq Range(wire') /\ refused \subseteq refused'
        /\ m = Control \/ m \in Range(wire') \cup refused'
    <3>1. Range(Append(wire, m)) = Range(wire) \cup {m}
      BY <2>2, RangeAppend
    <3> QED BY <2>1, <3>1
  <2> HIDE DEF m
  <2> QED BY <2>1, <2>3, <2>4 DEF Held
<1>5. ASSUME UNCHANGED <<accepted, bcast, fwdMsg, inside, wire, refused>> PROVE Goal
  BY <1>5 DEF Held
<1>6. CASE PeerStop \/ Cancel \/ FwdStop
  BY <1>5, <1>6 DEF PeerStop, Cancel, FwdStop
<1>7. CASE PeerForward \/ \E e \in Event : PeerReceive(e)
  BY <1>5, <1>7 DEF PeerForward, PeerReceive
<1>8. CASE LisTake \/ LisStop
  BY <1>5, <1>8 DEF LisTake, LisStop
<1>9. ASSUME inside' = Append(inside, Control),
             UNCHANGED <<accepted, bcast, fwdMsg, wire, refused>>
      PROVE Goal
  <2>1. Range(inside') = Range(inside) \cup {Control}
    BY <1>9, RangeAppend DEF Control
  <2> QED BY <1>9, <2>1 DEF Held
<1>10. CASE LisSend
  BY <1>5, <1>9, <1>10 DEF LisSend
<1>11. CASE HandleMessage \/ HandleMalformed
            \/ HandleIntroduction \/ HandleAck \/ HandleSubscribe
  BY <1>5, <1>11 DEF HandleMessage, HandleMalformed, HandleIntroduction, HandleAck,
                     HandleSubscribe
<1>12. CASE CallbackReturn \/ CallbackCall
  BY <1>5, <1>12 DEF CallbackReturn, CallbackCall
<1>13. ASSUME NEW p \in Peers, LoopCheck(p) \/ LoopSend(p) PROVE Goal
  BY <1>5, <1>9, <1>13 DEF LoopCheck, LoopSend
<1>14. CASE UNCHANGED vars
  BY <1>5, <1>14 DEF vars
<1>15. CASE PeerStart \/ PeerCannotStart \/ PeerCannotDecode
  BY <1>5, <1>15 DEF PeerStart, PeerCannotStart, PeerCannotDecode, PeerPanics
<1> QED BY <1>1, <1>2, <1>3, <1>4, <1>6, <1>7, <1>8, <1>10, <1>11, <1>12, <1>13, <1>14,
           <1>15 DEF Next

LEMMA OverStaysOver ==
    ASSUME [Next]_vars, cancelled \/ peer = "panicked"
    PROVE  cancelled' \/ peer' = "panicked"
<1> USE DEF peerVars, PeerOver, PeerPanics
<1>1. CASE AppBroadcast \/ Cancel \/ FwdTake \/ FwdSend \/ FwdStop
  BY <1>1 DEF AppBroadcast, Cancel, FwdTake, FwdSend, FwdStop
<1>2. CASE \/ PeerStart \/ PeerCannotStart \/ PeerCannotDecode \/ PeerForward \/ PeerStop
           \/ \E e \in Event : PeerReceive(e)
           \/ \E taken \in BOOLEAN : PeerPublish(taken)
  BY <1>2 DEF PeerStart, PeerCannotStart, PeerCannotDecode, PeerForward, PeerStop, PeerReceive,
              PeerPublish
<1>3. CASE \/ LisTake \/ LisStop \/ LisSend
           \/ HandleMessage \/ HandleMalformed
           \/ HandleIntroduction \/ HandleAck \/ HandleSubscribe
  BY <1>3 DEF LisTake, LisStop, LisSend, HandleMessage, HandleMalformed, HandleIntroduction,
              HandleAck, HandleSubscribe
<1>4. CASE \/ CallbackReturn \/ CallbackCall \/ CallbackEnqueue
           \/ \E p \in Peers : LoopCheck(p) \/ LoopSend(p)
  BY <1>4 DEF CallbackReturn, CallbackCall, CallbackEnqueue, LoopCheck, LoopSend
<1>5. CASE UNCHANGED vars
  BY <1>5 DEF vars
<1> QED BY <1>1, <1>2, <1>3, <1>4, <1>5 DEF Next

\* Until the agent is stopped or its peer panics every accepted message is still
\* inside it, on the wire, or was refused by gossipsub.
THEOREM Lossless == Spec => []NothingLost
<1>1. Init => NothingLost
  BY DEF Init, NothingLost
<1>2. TypeInv /\ PanicInv /\ NothingLost /\ [Next]_vars => NothingLost'
  <2> SUFFICES ASSUME TypeInv, PanicInv, NothingLost, [Next]_vars,
                      ~cancelled', peer' # "panicked", NEW m \in 1..accepted'
               PROVE  m \in Held'
    BY DEF NothingLost, Held
  <2>1. ~cancelled /\ peer # "panicked"
    BY OverStaysOver
  <2>2. m \in 1..accepted => m \in Held
    BY <2>1 DEF NothingLost, Held
  <2>3. m # Control
    BY DEF Control
  <2> QED BY <2>2, <2>3, HeldStep
<1> QED BY <1>1, <1>2, TypeCorrect, PanicCorrect, PTL DEF Spec

=============================================================================
