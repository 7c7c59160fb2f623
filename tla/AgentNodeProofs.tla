-------------------------- MODULE AgentNodeProofs --------------------------
(***************************************************************************)
(* Theorems about AgentNode, for every value of its constants.             *)
(***************************************************************************)
EXTENDS AgentNode, FiniteSetTheorems, TLAPS

-----------------------------------------------------------------------------
(* Sequences                                                               *)

LEMMA EmptySeq == ASSUME NEW S PROVE <<>> \in Seq(S)
    OBVIOUS

LEMMA AppendFacts ==
    ASSUME NEW S, NEW s \in Seq(S), NEW x \in S
    PROVE  /\ Append(s, x) \in Seq(S)
           /\ Len(Append(s, x)) = Len(s) + 1
           /\ \A i \in 1..Len(s) : Append(s, x)[i] = s[i]
           /\ Append(s, x)[Len(s) + 1] = x
           /\ Append(s, x) # <<>>
    OBVIOUS

LEMMA TailFacts ==
    ASSUME NEW S, NEW s \in Seq(S), s # <<>>
    PROVE  /\ Len(s) \in Nat \ {0}
           /\ Head(s) = s[1]
           /\ Head(s) \in S
           /\ Tail(s) \in Seq(S)
           /\ Len(Tail(s)) = Len(s) - 1
           /\ \A i \in 1..(Len(s) - 1) : Tail(s)[i] = s[i + 1]
    OBVIOUS

-----------------------------------------------------------------------------
(* Type correctness                                                        *)

LEMMA TypeInit == Init => TypeOK
<1> SUFFICES ASSUME Init PROVE TypeOK
  OBVIOUS
<1>1. /\ bcast \in Seq(1..MaxMsgs)
      /\ inside \in Seq(0..MaxMsgs)
      /\ outside \in Seq(Event)
      /\ wire \in Seq(1..MaxMsgs)
  BY DEF Init
<1>2. /\ accepted \in 0..MaxMsgs
      /\ fwdMsg \in 0..MaxMsgs
      /\ arrivals \in 0..MaxArrivals
      /\ lateCalls \in Nat
      /\ lateIntros \in Nat
  BY NodeAssumption DEF NodeAssumption, Init, Control
<1>3. loop \in [Peers -> LoopPC]
  BY DEF Init, LoopPC
<1> QED BY <1>1, <1>2, <1>3 DEF Init, TypeOK, ForwarderPC, PeerPC, ListenerPC

\* TypeOK is not inductive by itself.  A task that is about to use what it took
\* from a channel holds it, and a callback that waits to broadcast has room left
\* under MaxMsgs.
HandsFull ==
    /\ forwarder = "send" <=> fwdMsg # Control
    /\ peer = "forward" => peerEvent \in Event
    /\ listener = "handle" => event \in Event

CallbackBudget == listener = "callbackSend" => accepted < MaxMsgs

TypeInv == TypeOK /\ HandsFull /\ CallbackBudget

LEMMA TypeApp ==
    ASSUME TypeInv, AppBroadcast \/ Cancel
    PROVE  TypeInv'
<1> USE NodeAssumption DEF NodeAssumption, TypeInv, TypeOK, HandsFull, CallbackBudget,
           Control
<1>1. CASE AppBroadcast
  <2>1. /\ accepted + 1 \in 1..MaxMsgs
        /\ listener = "callbackSend" => accepted + 1 < MaxMsgs
    BY <1>1 DEF AppBroadcast
  <2>2. bcast' \in Seq(1..MaxMsgs)
    BY <1>1, <2>1, AppendFacts DEF AppBroadcast, Enqueue
  <2> QED BY <1>1, <2>1, <2>2 DEF AppBroadcast, Enqueue, fwdVars, peerVars, lisVars,
                                  loopVars, envVars
<1>2. CASE Cancel
  BY <1>2 DEF Cancel, appVars, fwdVars, peerVars, lisVars, loopVars, envVars
<1> QED BY <1>1, <1>2

LEMMA TypeForwarder ==
    ASSUME TypeInv, FwdTake \/ FwdSend \/ FwdStop
    PROVE  TypeInv'
<1> USE NodeAssumption DEF NodeAssumption, TypeInv, TypeOK, HandsFull, CallbackBudget, Control,
           ForwarderPC
<1>1. CASE FwdTake
  <2>1. Head(bcast) \in 1..MaxMsgs /\ Tail(bcast) \in Seq(1..MaxMsgs)
    BY <1>1, TailFacts DEF FwdTake
  <2> QED BY <1>1, <2>1 DEF FwdTake, peerVars, lisVars, loopVars, envVars
<1>2. CASE FwdSend
  <2>0. Append(inside, fwdMsg) \in Seq(0..MaxMsgs)
    BY AppendFacts
  <2>1. inside' \in Seq(0..MaxMsgs)
    BY <1>2, <2>0 DEF FwdSend
  <2>2. fwdMsg' \in 0..MaxMsgs /\ forwarder' \in ForwarderPC
    BY <1>2 DEF FwdSend
  <2> QED BY <1>2, <2>1, <2>2 DEF FwdSend, appVars, peerVars, lisVars, loopVars, envVars
<1>3. CASE FwdStop
  BY <1>3 DEF FwdStop, appVars, peerVars, lisVars, loopVars, envVars
<1> QED BY <1>1, <1>2, <1>3

LEMMA TypePeer ==
    ASSUME TypeInv,
           \/ \E e \in Event : PeerReceive(e)
           \/ PeerForward
           \/ \E taken \in BOOLEAN : PeerPublish(taken)
           \/ PeerStop
           \/ PeerStart \/ PeerCannotStart \/ PeerCannotDecode
    PROVE  TypeInv'
<1> USE NodeAssumption DEF NodeAssumption, TypeInv, TypeOK, HandsFull, CallbackBudget, Control,
           PeerPC
<1>1. ASSUME NEW e \in Event, PeerReceive(e) PROVE TypeInv'
  <2>1. announced' \subseteq Peers
    BY <1>1 DEF PeerReceive, Event
  <2>2. arrivals' \in 0..MaxArrivals
    BY <1>1 DEF PeerReceive
  <2> QED BY <1>1, <2>1, <2>2 DEF PeerReceive, appVars, fwdVars, lisVars, loopVars
<1>2. CASE PeerForward
  <2>1. outside' \in Seq(Event)
    BY <1>2, AppendFacts DEF PeerForward
  <2> QED BY <1>2, <2>1 DEF PeerForward, appVars, fwdVars, lisVars, loopVars, envVars
<1>3. ASSUME NEW taken \in BOOLEAN, PeerPublish(taken) PROVE TypeInv'
  <2> DEFINE m == Head(inside)
  <2>1. m \in 0..MaxMsgs /\ inside' \in Seq(0..MaxMsgs)
    BY <1>3, TailFacts DEF PeerPublish
  <2>2. m # Control => m \in 1..MaxMsgs
    BY <2>1
  <2>3. wire' \in Seq(1..MaxMsgs)
    BY <1>3, <2>2, AppendFacts DEF PeerPublish
  <2>4. refused' \subseteq 1..MaxMsgs
    BY <1>3, <2>2 DEF PeerPublish
  <2> QED BY <1>3, <2>1, <2>3, <2>4 DEF PeerPublish, appVars, fwdVars, lisVars, loopVars,
                                        envVars
<1>4. CASE PeerStop
  <2>1. inside' \in Seq(0..MaxMsgs)
    BY <1>4 DEF PeerStop
  <2> QED BY <1>4, <2>1 DEF PeerStop, appVars, fwdVars, lisVars, loopVars, envVars
<1>5. CASE PeerStart
  BY <1>5 DEF PeerStart, appVars, fwdVars, lisVars, loopVars, envVars
<1>6. ASSUME PeerPanics, arrivals' \in 0..MaxArrivals, UNCHANGED <<announced, poisoned>>
      PROVE  TypeInv'
  <2>1. inside' \in Seq(0..MaxMsgs)
    BY <1>6 DEF PeerPanics
  <2> QED BY <1>6, <2>1 DEF PeerPanics, appVars, fwdVars, lisVars, loopVars
<1>7. CASE PeerCannotStart
  BY <1>6, <1>7 DEF PeerCannotStart, envVars
<1>8. CASE PeerCannotDecode
  <2>1. arrivals' \in 0..MaxArrivals
    BY <1>8 DEF PeerCannotDecode
  <2> QED BY <1>6, <1>8, <2>1 DEF PeerCannotDecode
<1> QED BY <1>1, <1>2, <1>3, <1>4, <1>5, <1>7, <1>8

LEMMA TypeListener ==
    ASSUME TypeInv,
           \/ LisTake \/ LisStop
           \/ HandleMessage \/ HandleMalformed
           \/ HandleIntroduction \/ HandleAck \/ HandleSubscribe
           \/ LisSend
    PROVE  TypeInv'
<1> USE NodeAssumption DEF NodeAssumption, TypeInv, TypeOK, HandsFull, CallbackBudget,
           Control, ListenerPC
<1>1. CASE LisTake
  <2>1. Head(outside) \in Event /\ Tail(outside) \in Seq(Event)
    BY <1>1, TailFacts DEF LisTake
  <2>2. outside' \in Seq(Event)
    BY <1>1, <2>1, EmptySeq DEF LisTake
  <2> QED BY <1>1, <2>1, <2>2 DEF LisTake, appVars, fwdVars, peerVars, loopVars, envVars
<1>2. CASE LisStop
  <2>1. outside' \in Seq(Event)
    BY <1>2 DEF LisStop
  <2> QED BY <1>2, <2>1 DEF LisStop, appVars, fwdVars, peerVars, loopVars, envVars
<1>3. CASE HandleMessage
  <2>1. lateCalls' \in Nat
    BY <1>3 DEF HandleMessage, Late
  <2> QED BY <1>3, <2>1 DEF HandleMessage, Dispatch, appVars, fwdVars, peerVars, loopVars,
                            envVars
<1>4. CASE HandleIntroduction
  <2>1. connected' \subseteq Peers
    BY <1>4 DEF HandleIntroduction, Dispatch, Event
  <2> QED BY <1>4, <2>1 DEF HandleIntroduction, Dispatch, appVars, fwdVars, peerVars,
                            loopVars, envVars
<1>5. CASE HandleAck
  BY <1>5 DEF HandleAck, Dispatch, appVars, fwdVars, peerVars, loopVars, envVars
<1>6. CASE HandleSubscribe
  <2>1. loop' \in [Peers -> LoopPC]
    BY <1>6 DEF HandleSubscribe, LoopPC
  <2>2. /\ listener' \in {"intro", "select"}
        /\ event' = NoEvent
    BY <1>6 DEF HandleSubscribe, Dispatch
  <2> QED BY <1>6, <2>1, <2>2 DEF HandleSubscribe, appVars, fwdVars, peerVars, envVars
<1>7. CASE LisSend
  <2>0. Append(inside, Control) \in Seq(0..MaxMsgs)
    BY AppendFacts
  <2>1. inside' \in Seq(0..MaxMsgs) /\ outside' \in Seq(Event)
    BY <1>7, <2>0, EmptySeq DEF LisSend
  <2>2. lateCalls' \in Nat
    BY <1>7 DEF LisSend, Late
  <2>3. listener' \in {"panicked", "callback", "select"}
    BY <1>7 DEF LisSend
  <2> QED BY <1>7, <2>1, <2>2, <2>3 DEF LisSend, appVars, fwdVars, peerVars, loopVars,
                                        envVars
<1>8. CASE HandleMalformed
  <2>1. outside' \in Seq(Event)
    BY <1>8 DEF HandleMalformed
  <2> QED BY <1>8, <2>1 DEF HandleMalformed, Dispatch, appVars, fwdVars, peerVars, loopVars
<1> QED BY <1>1, <1>2, <1>3, <1>4, <1>5, <1>6, <1>7, <1>8

LEMMA TypeCallback ==
    ASSUME TypeInv, CallbackReturn \/ CallbackCall \/ CallbackEnqueue
    PROVE  TypeInv'
<1> USE NodeAssumption DEF NodeAssumption, TypeInv, TypeOK, HandsFull, CallbackBudget,
           Control, ListenerPC
<1>1. CASE CallbackReturn
  BY <1>1 DEF CallbackReturn, appVars, fwdVars, peerVars, loopVars, envVars
<1>2. CASE CallbackCall
  BY <1>2 DEF CallbackCall, appVars, fwdVars, peerVars, loopVars, envVars
<1>3. CASE CallbackEnqueue
  <2>1. accepted + 1 \in 1..MaxMsgs
    BY <1>3 DEF CallbackEnqueue
  <2>2. bcast' \in Seq(1..MaxMsgs)
    BY <1>3, <2>1, AppendFacts DEF CallbackEnqueue, Enqueue
  <2> QED BY <1>3, <2>1, <2>2 DEF CallbackEnqueue, Enqueue, fwdVars, peerVars, loopVars,
                                  envVars
<1> QED BY <1>1, <1>2, <1>3

LEMMA TypeLoop ==
    ASSUME TypeInv, NEW p \in Peers, LoopCheck(p) \/ LoopSend(p)
    PROVE  TypeInv'
<1> USE NodeAssumption DEF NodeAssumption, TypeInv, TypeOK, HandsFull, CallbackBudget,
           Control, LoopPC
<1>1. CASE LoopCheck(p)
  BY <1>1 DEF LoopCheck, appVars, fwdVars, peerVars, lisVars, envVars
<1>2. CASE LoopSend(p)
  <2>0. Append(inside, Control) \in Seq(0..MaxMsgs)
    BY AppendFacts
  <2>1. inside' \in Seq(0..MaxMsgs)
    BY <1>2, <2>0 DEF LoopSend
  <2>2. loop' \in [Peers -> LoopPC]
    BY <1>2 DEF LoopSend
  <2>3. lateIntros' \in Nat
    BY <1>2 DEF LoopSend
  <2> QED BY <1>2, <2>1, <2>2, <2>3 DEF LoopSend, appVars, fwdVars, peerVars, lisVars, envVars
<1> QED BY <1>1, <1>2

LEMMA TypeStep == TypeInv /\ [Next]_vars => TypeInv'
<1> SUFFICES ASSUME TypeInv, [Next]_vars PROVE TypeInv'
  OBVIOUS
<1>1. CASE UNCHANGED vars
  BY <1>1 DEF vars, TypeInv, TypeOK, HandsFull, CallbackBudget
<1>2. CASE Next
  BY <1>2, TypeApp, TypeForwarder, TypePeer, TypeListener, TypeCallback, TypeLoop DEF Next
<1> QED BY <1>1, <1>2

\* Every reachable state of a node of any size is well typed, and every task
\* holds a message exactly when it is about to use one.
THEOREM TypeCorrect == Spec => []TypeInv
<1>1. Init => TypeInv
  BY TypeInit DEF TypeInv, HandsFull, CallbackBudget, Init
<1> QED BY <1>1, TypeStep, PTL DEF Spec

THEOREM TypeSafety == Spec => []TypeOK
<1>1. TypeInv => TypeOK
  BY DEF TypeInv
<1> QED BY <1>1, TypeCorrect, PTL

-----------------------------------------------------------------------------
(* Panics                                                                  *)

\* The peer task is over by the cancellation or by a panic, and only its end closes
\* the channel whose closing makes the senders panic.
PanicInv ==
    /\ peer = "done" \/ forwarder = "done" \/ listener = "done" => cancelled
    /\ \/ forwarder = "panicked"
       \/ listener = "panicked" /\ ~poisoned
       \/ \E p \in Peers : loop[p] = "panicked"
       => PeerOver

LEMMA PanicCorrect == Spec => []PanicInv
<1> USE DEF PanicInv
<1>1. Init => PanicInv
  BY DEF Init
<1>2. TypeInv /\ PanicInv /\ [Next]_vars => PanicInv'
  <2> SUFFICES ASSUME TypeInv, PanicInv, [Next]_vars PROVE PanicInv'
    OBVIOUS
  <2> USE DEF TypeInv, TypeOK, PeerOver, InsideClosed, appVars, fwdVars, peerVars, lisVars,
              loopVars, envVars
  <2>1. CASE AppBroadcast
    BY <2>1 DEF AppBroadcast, Enqueue
  <2>2. CASE Cancel
    BY <2>2 DEF Cancel
  <2>3. CASE FwdTake
    BY <2>3 DEF FwdTake
  <2>4. CASE FwdSend
    BY <2>4 DEF FwdSend
  <2>5. CASE FwdStop
    BY <2>5 DEF FwdStop
  <2>6. ASSUME NEW e \in Event, PeerReceive(e) PROVE PanicInv'
    BY <2>6 DEF PeerReceive
  <2>7. CASE PeerForward
    BY <2>7 DEF PeerForward
  <2>8. ASSUME NEW taken \in BOOLEAN, PeerPublish(taken) PROVE PanicInv'
    BY <2>8 DEF PeerPublish
  <2>9. CASE PeerStop
    BY <2>9 DEF PeerStop
  <2>10. CASE LisTake
    BY <2>10 DEF LisTake
  <2>11. CASE LisStop
    BY <2>11 DEF LisStop
  <2>12. CASE HandleMessage
    BY <2>12 DEF HandleMessage, Dispatch
  <2>13. CASE HandleIntroduction
    BY <2>13 DEF HandleIntroduction, Dispatch
  <2>14. CASE HandleAck
    BY <2>14 DEF HandleAck, Dispatch
  <2>15. CASE HandleSubscribe
    BY <2>15 DEF HandleSubscribe, Dispatch
  <2>16. CASE LisSend
    BY <2>16 DEF LisSend
  <2>17. CASE CallbackReturn \/ CallbackCall \/ CallbackEnqueue
    BY <2>17 DEF CallbackReturn, CallbackCall, CallbackEnqueue, Enqueue
  <2>18. ASSUME NEW p \in Peers, LoopCheck(p) PROVE PanicInv'
    BY <2>18 DEF LoopCheck
  <2>19. ASSUME NEW p \in Peers, LoopSend(p) PROVE PanicInv'
    BY <2>19 DEF LoopSend
  <2>20. CASE UNCHANGED vars
    BY <2>20 DEF vars
  <2>21. CASE PeerStart \/ PeerCannotStart \/ PeerCannotDecode
    BY <2>21 DEF PeerStart, PeerCannotStart, PeerCannotDecode, PeerPanics
  <2>22. CASE HandleMalformed
    BY <2>22 DEF HandleMalformed, Dispatch
  <2> QED BY <2>1, <2>2, <2>3, <2>4, <2>5, <2>6, <2>7, <2>8, <2>9, <2>10, <2>11, <2>12,
             <2>13, <2>14, <2>15, <2>16, <2>17, <2>18, <2>19, <2>20, <2>21, <2>22 DEF Next
<1> QED BY <1>1, <1>2, TypeCorrect, PTL DEF Spec

\* No unwrap() of a send into the peer panics before the peer is over, by a stop or
\* by a panic of its own.
THEOREM PanicSafety == Spec => []PanicNeedsCause
<1>1. PanicInv => PanicNeedsCause
  BY DEF PanicInv, PanicNeedsCause, PeerOver
<1> QED BY <1>1, PanicCorrect, PTL

-----------------------------------------------------------------------------
(* Where all tasks wait                                                    *)

LEMMA RunningStandstill ==
    ASSUME TypeInv, PanicInv, Standstill, ~cancelled
    PROVE  AtRest \/ Wedged \/ CutOff
<1>1. /\ PeerBuffer >= 1 /\ BroadcastBuffer >= 1 /\ PeerBuffer \in Nat /\ BroadcastBuffer \in Nat
  BY NodeAssumption DEF NodeAssumption
<1>2. /\ peer \in {"select", "forward", "panicked"}
      /\ forwarder \in {"select", "send", "panicked"}
      /\ listener \in ListenerPC \ {"done"}
      /\ \A p \in Peers : loop[p] \in LoopPC
  BY DEF TypeInv, TypeOK, PanicInv, PeerPC, ForwarderPC, ListenerPC, Standstill, PeerMoves
<1>3. /\ inside = <<>> => ~InsideFull
      /\ bcast = <<>> => ~BcastFull
      /\ outside = <<>> => ~OutsideFull
  BY <1>1 DEF InsideFull, BcastFull, OutsideFull
<1>4. ASSUME peer # "panicked"
      PROVE  /\ ~PeerOver /\ ~InsideClosed
             /\ forwarder # "panicked"
             /\ \A p \in Peers : loop[p] # "panicked"
  BY <1>2, <1>4 DEF PanicInv, PeerOver, InsideClosed
<1>5. CASE peer = "select"
  <2>1. inside = <<>> /\ CanSend
    BY <1>3, <1>5 DEF Standstill, PeerMoves, CanSend
  <2>2. forwarder = "select" /\ bcast = <<>>
    BY <1>2, <1>4, <1>5, <2>1 DEF Standstill, ForwarderMoves
  <2>3. listener = "panicked" \/ (listener = "select" /\ outside = <<>>)
    BY <1>2, <1>3, <2>1, <2>2 DEF Standstill, ListenerMoves, ListenerPC
  <2>4. \A p \in Peers : loop[p] \in {"none", "done"}
    BY <1>2, <1>4, <1>5, <2>1 DEF Standstill, LoopMoves, LoopPC
  <2> QED BY <1>5, <2>1, <2>2, <2>3, <2>4 DEF AtRest
<1>6. CASE peer = "forward"
  <2>1. OutsideFull /\ ~OutsideClosed
    BY <1>6 DEF Standstill, PeerMoves
  <2>2. listener \notin {"select", "done", "panicked"}
    BY <1>3, <2>1 DEF Standstill, ListenerMoves, OutsideClosed
  <2>3. CASE listener \in {"ack", "intro"}
    BY <1>6, <2>1, <2>3 DEF Standstill, ListenerMoves, CanSend, Wedged, ListenerBlocked
  <2>4. CASE listener = "callbackSend"
    <3>1. BcastFull
      BY <2>4 DEF Standstill, ListenerMoves
    <3>2. forwarder = "send" /\ InsideFull
      BY <1>2, <1>3, <1>4, <1>6, <3>1 DEF Standstill, ForwarderMoves, CanSend
    <3> QED BY <1>6, <2>1, <2>4, <3>1, <3>2 DEF Wedged, ListenerBlocked
  <2> QED BY <1>2, <2>2, <2>3, <2>4 DEF Standstill, ListenerMoves, ListenerPC
<1>7. CASE peer = "panicked"
  <2>1. CanSend
    BY <1>7 DEF CanSend, InsideClosed, PeerOver
  <2>2. forwarder = "panicked" \/ (forwarder = "select" /\ bcast = <<>>)
    BY <1>2, <2>1 DEF Standstill, ForwarderMoves
  <2>3. \/ listener = "panicked"
        \/ listener = "select" /\ outside = <<>>
        \/ listener = "callbackSend" /\ BcastFull
    BY <1>2, <2>1 DEF Standstill, ListenerMoves, ListenerPC
  <2>4. \A p \in Peers : loop[p] \in {"none", "done", "panicked"}
    BY <1>2, <2>1 DEF Standstill, LoopMoves, LoopPC
  <2> QED BY <1>3, <1>7, <2>2, <2>3, <2>4 DEF CutOff, CallbackStuck
<1> QED BY <1>2, <1>5, <1>6, <1>7

LEMMA StoppedStandstill ==
    ASSUME TypeInv, Standstill, cancelled
    PROVE  CoreEnded /\ (OutsideClosed \/ CallbackStuck)
<1>1. PeerOver /\ CanSend
  BY DEF Standstill, PeerMoves, CanSend, InsideClosed
<1>2. forwarder \in {"done", "panicked"}
  BY <1>1 DEF Standstill, ForwarderMoves, TypeInv, TypeOK, ForwarderPC
<1>3. \A p \in Peers : loop[p] \in {"none", "done", "panicked"}
  BY <1>1 DEF Standstill, LoopMoves, TypeInv, TypeOK, LoopPC
<1>4. listener \in {"done", "panicked"} \/ (listener = "callbackSend" /\ BcastFull)
  BY <1>1 DEF Standstill, ListenerMoves, TypeInv, TypeOK, ListenerPC
<1> QED BY <1>1, <1>2, <1>3, <1>4 DEF CoreEnded, OutsideClosed, CallbackStuck

\* The tasks never wait for one another but in the wedge, and without the peer only a
\* callback's broadcast can wait for ever, whatever the capacities.
THEOREM StandstillSafety == Spec => []StandstillExplained
<1>1. TypeInv /\ PanicInv => StandstillExplained
  BY RunningStandstill, StoppedStandstill DEF StandstillExplained
<1> QED BY <1>1, TypeCorrect, PanicCorrect, PTL

\* At a standstill the tasks of the agent have no step: only the application, a stop
\* or the network moves.
LEMMA OutsideStep ==
    ASSUME Standstill, Next
    PROVE  \/ AppBroadcast
           \/ Cancel
           \/ peer = "select" /\ ((\E e \in Event : PeerReceive(e)) \/ PeerCannotDecode)
<1> USE DEF Standstill, ForwarderMoves, PeerMoves, ListenerMoves, CanSend
<1>1. ~(FwdTake \/ FwdSend \/ FwdStop)
  BY DEF FwdTake, FwdSend, FwdStop
<1>2. ~(PeerForward \/ PeerStop \/ \E taken \in BOOLEAN : PeerPublish(taken))
  BY DEF PeerForward, PeerStop, PeerPublish
<1>3. ~(PeerStart \/ PeerCannotStart)
  BY DEF PeerStart, PeerCannotStart
<1>4. ~(LisTake \/ LisStop \/ LisSend)
  BY DEF LisTake, LisStop, LisSend
<1>5. ~(HandleMessage \/ HandleMalformed
        \/ HandleIntroduction \/ HandleAck \/ HandleSubscribe)
  BY DEF HandleMessage, HandleMalformed, HandleIntroduction, HandleAck, HandleSubscribe,
         Dispatch
<1>6. ~(CallbackReturn \/ CallbackCall \/ CallbackEnqueue)
  BY DEF CallbackReturn, CallbackCall, CallbackEnqueue, Enqueue
<1>7. ~\E p \in Peers : LoopCheck(p) \/ LoopSend(p)
  BY DEF LoopMoves, LoopCheck, LoopSend
<1> QED BY <1>1, <1>2, <1>3, <1>4, <1>5, <1>6, <1>7 DEF Next, PeerReceive, PeerCannotDecode

\* A stopped agent that has come to a standstill stays so, and its tasks stay over:
\* no task takes what the application still broadcasts.
THEOREM StoppedForGood ==
    Spec => [][cancelled /\ Standstill => cancelled' /\ Standstill']_vars
<1>1. ASSUME TypeInv, cancelled, Standstill, [Next]_vars
      PROVE  cancelled' /\ Standstill'
  <2>1. PeerOver /\ forwarder \in {"done", "panicked"}
    BY <1>1 DEF Standstill, PeerMoves, ForwarderMoves, CanSend, InsideClosed, TypeInv, TypeOK,
                ForwarderPC
  <2>2. CASE AppBroadcast
    <3>1. UNCHANGED <<forwarder, peer, inside, outside, listener, loop, cancelled>>
      BY <2>2 DEF AppBroadcast, fwdVars, peerVars, lisVars, loopVars
    <3>2. listener # "callbackSend"
      BY <1>1, <2>2 DEF Standstill, ListenerMoves, AppBroadcast, Enqueue
    <3> QED BY <1>1, <2>1, <3>1, <3>2
            DEF Standstill, PeerMoves, ForwarderMoves, ListenerMoves, LoopMoves, CanSend,
                PeerOver, InsideClosed, InsideFull, OutsideClosed
  <2>3. CASE UNCHANGED vars
    BY <1>1, <2>3
    DEF vars, Standstill, PeerMoves, ForwarderMoves, ListenerMoves, LoopMoves, CanSend,
        PeerOver, InsideClosed, OutsideClosed, InsideFull, OutsideFull, BcastFull
  <2>4. ~Cancel /\ peer # "select"
    BY <1>1, <2>1 DEF Cancel, PeerOver
  <2> QED BY <1>1, <2>2, <2>3, <2>4, OutsideStep
<1>2. TypeInv /\ [Next]_vars
        => [cancelled /\ Standstill => cancelled' /\ Standstill']_vars
  BY <1>1
<1> QED BY <1>2, TypeCorrect, PTL DEF Spec

-----------------------------------------------------------------------------
(* Callbacks after the cancellation                                        *)

\* The one late callback is the event that had passed the check when the token
\* was cancelled; after it the listener cannot pass the check again.
LateInv ==
    /\ lateCalls <= 1
    /\ lateCalls = 1 => cancelled /\ listener \notin {"handle", "ack", "intro"}

\* Stopping the agent lets at most one more callback begin.
THEOREM LateCallbackSafety == Spec => []AtMostOneLateCallback
<1> USE DEF LateInv
<1>1. Init => LateInv
  BY DEF Init
<1>2. TypeInv /\ LateInv /\ [Next]_vars => LateInv'
  <2> SUFFICES ASSUME TypeInv, LateInv, [Next]_vars PROVE LateInv'
    OBVIOUS
  <2> USE DEF TypeInv, TypeOK, Late, Dispatch, appVars, fwdVars, peerVars, lisVars, loopVars,
              envVars
  <2>1. CASE AppBroadcast
    BY <2>1 DEF AppBroadcast
  <2>2. CASE Cancel
    BY <2>2 DEF Cancel
  <2>3. CASE FwdTake \/ FwdSend \/ FwdStop
    BY <2>3 DEF FwdTake, FwdSend, FwdStop
  <2>4. ASSUME NEW e \in Event, PeerReceive(e) PROVE LateInv'
    BY <2>4 DEF PeerReceive
  <2>5. CASE PeerForward \/ PeerStop \/ PeerStart \/ PeerCannotStart \/ PeerCannotDecode
    BY <2>5 DEF PeerForward, PeerStop, PeerStart, PeerCannotStart, PeerCannotDecode, PeerPanics
  <2>6. ASSUME NEW taken \in BOOLEAN, PeerPublish(taken) PROVE LateInv'
    BY <2>6 DEF PeerPublish
  <2>7. CASE LisTake
    BY <2>7 DEF LisTake
  <2>8. CASE LisStop
    BY <2>8 DEF LisStop
  <2>9. CASE HandleMessage
    BY <2>9 DEF HandleMessage
  <2>10. CASE HandleMalformed \/ HandleIntroduction \/ HandleAck \/ HandleSubscribe
    BY <2>10 DEF HandleMalformed, HandleIntroduction, HandleAck, HandleSubscribe
  <2>11. CASE LisSend
    BY <2>11 DEF LisSend
  <2>12. CASE CallbackReturn \/ CallbackCall \/ CallbackEnqueue
    BY <2>12 DEF CallbackReturn, CallbackCall, CallbackEnqueue
  <2>13. ASSUME NEW p \in Peers, LoopCheck(p) \/ LoopSend(p) PROVE LateInv'
    BY <2>13 DEF LoopCheck, LoopSend
  <2>14. CASE UNCHANGED vars
    BY <2>14 DEF vars
  <2> QED BY <2>1, <2>2, <2>3, <2>4, <2>5, <2>6, <2>7, <2>8, <2>9, <2>10, <2>11, <2>12,
             <2>13, <2>14 DEF Next
<1>3. LateInv => AtMostOneLateCallback
  BY DEF AtMostOneLateCallback
<1> QED BY <1>1, <1>2, <1>3, TypeCorrect, PTL DEF Spec

-----------------------------------------------------------------------------
(* The wedge                                                               *)

LEMMA WedgeStep == TypeInv /\ [Next]_vars => (Wedged => Wedged' \/ cancelled')
<1> SUFFICES ASSUME TypeInv, [Next]_vars, Wedged PROVE Wedged' \/ cancelled'
  OBVIOUS
<1> USE DEF TypeInv, TypeOK, Wedged, ListenerBlocked, OutsideFull, InsideFull, BcastFull,
            appVars, fwdVars, peerVars, lisVars, loopVars, envVars
<1>1. CASE AppBroadcast
  BY <1>1 DEF AppBroadcast, Enqueue
<1>2. CASE Cancel
  BY <1>2 DEF Cancel
<1>3. CASE FwdTake \/ FwdSend \/ FwdStop
  BY <1>3 DEF FwdTake, FwdSend, FwdStop, InsideClosed, PeerOver
<1>4. CASE \E e \in Event : PeerReceive(e)
  BY <1>4 DEF PeerReceive
<1>5. CASE PeerForward \/ PeerStop \/ \E taken \in BOOLEAN : PeerPublish(taken)
  BY <1>5 DEF PeerForward, PeerStop, PeerPublish, OutsideClosed
<1>6. CASE LisTake \/ LisStop
  BY <1>6 DEF LisTake, LisStop
<1>7. CASE HandleMessage \/ HandleMalformed
           \/ HandleIntroduction \/ HandleAck \/ HandleSubscribe
  BY <1>7 DEF HandleMessage, HandleMalformed, HandleIntroduction, HandleAck, HandleSubscribe,
              Dispatch
<1>8. CASE LisSend
  BY <1>8 DEF LisSend, InsideClosed, PeerOver
<1>9. CASE CallbackReturn \/ CallbackCall \/ CallbackEnqueue
  BY <1>9 DEF CallbackReturn, CallbackCall, CallbackEnqueue, Enqueue
<1>10. CASE \E p \in Peers : LoopCheck(p) \/ LoopSend(p)
  BY <1>10 DEF LoopCheck, LoopSend, InsideClosed, PeerOver
<1>11. CASE UNCHANGED vars
  BY <1>11 DEF vars
<1>12. CASE PeerStart \/ PeerCannotStart \/ PeerCannotDecode
  BY <1>12 DEF PeerStart, PeerCannotStart, PeerCannotDecode
<1> QED BY <1>1, <1>2, <1>3, <1>4, <1>5, <1>6, <1>7, <1>8, <1>9, <1>10, <1>11, <1>12 DEF Next

\* A node whose peer task and listener wait for one another stays so until it is
\* stopped, whatever the capacities of its channels.
THEOREM WedgeIsPermanent == Spec => WedgeOnlyEndsByStop
<1>1. TypeInv /\ [Next]_vars => [Wedged => Wedged' \/ cancelled']_vars
  BY WedgeStep
<1> QED BY <1>1, TypeCorrect, PTL DEF Spec, WedgeOnlyEndsByStop

-----------------------------------------------------------------------------
(* Late introductions.  Every loop asleep before its send may still add    *)
(* one, and after the registration no loop falls asleep again.             *)

Sleeping == {p \in Peers : loop[p] = "send"}

IntroInv ==
    /\ ~registered => lateIntros = 0
    /\ lateIntros + Cardinality(Sleeping) <= Cardinality(Peers)

LEMMA SleepingFinite ==
    ASSUME NEW S \in SUBSET Peers
    PROVE  IsFiniteSet(S) /\ Cardinality(S) \in Nat /\ Cardinality(S) <= Cardinality(Peers)
           /\ Cardinality(Peers) \in Nat
<1>1. IsFiniteSet(Peers)
  BY NodeAssumption DEF NodeAssumption
<1> QED BY <1>1, FS_Subset, FS_CardinalityType

\* A step after which no more loops sleep and no introduction was late.
LEMMA FewerSleeping ==
    ASSUME TypeInv, IntroInv, Sleeping' \subseteq Sleeping, lateIntros' = lateIntros,
           ~registered' => ~registered
    PROVE  IntroInv'
<1>1. Sleeping \in SUBSET Peers /\ IsFiniteSet(Sleeping) /\ Cardinality(Sleeping) \in Nat
  BY SleepingFinite DEF Sleeping
<1>2. Cardinality(Sleeping') <= Cardinality(Sleeping) /\ Cardinality(Sleeping') \in Nat
  BY <1>1, FS_Subset, FS_CardinalityType
<1>3. lateIntros \in Nat /\ Cardinality(Peers) \in Nat
  BY <1>1, SleepingFinite DEF TypeInv, TypeOK
<1> QED BY <1>1, <1>2, <1>3 DEF IntroInv

LEMMA IntroLoop ==
    ASSUME TypeInv, IntroInv, NEW p \in Peers, LoopCheck(p) \/ LoopSend(p)
    PROVE  IntroInv'
<1>1. loop \in [Peers -> LoopPC] /\ lateIntros \in Nat
  BY DEF TypeInv, TypeOK
<1>2. CASE LoopCheck(p) /\ registered
  <2>1. Sleeping' \subseteq Sleeping
    BY <1>1, <1>2 DEF LoopCheck, Sleeping
  <2> QED BY <1>2, <2>1, FewerSleeping DEF LoopCheck, lisVars
<1>3. CASE LoopCheck(p) /\ ~registered
  <2>1. lateIntros' = 0 /\ ~registered'
    BY <1>3 DEF LoopCheck, IntroInv, lisVars
  <2>2. Sleeping' \in SUBSET Peers
    BY DEF Sleeping
  <2>3. Cardinality(Sleeping') \in Nat /\ Cardinality(Sleeping') <= Cardinality(Peers)
    BY <2>2, SleepingFinite
  <2> QED BY <2>1, <2>3 DEF IntroInv
<1>4. CASE LoopSend(p)
  <2>1. Sleeping' = Sleeping \ {p} /\ p \in Sleeping
    BY <1>1, <1>4 DEF LoopSend, Sleeping
  <2>2. CASE lateIntros' = lateIntros
    BY <1>4, <2>1, <2>2, FewerSleeping DEF LoopSend, lisVars
  <2>3. CASE lateIntros' = lateIntros + 1 /\ registered
    <3>1. Sleeping \in SUBSET Peers
      BY DEF Sleeping
    <3>2. IsFiniteSet(Sleeping) /\ Cardinality(Sleeping) \in Nat /\ Cardinality(Peers) \in Nat
      BY <3>1, SleepingFinite
    <3>3. Cardinality(Sleeping') = Cardinality(Sleeping) - 1
      BY <2>1, <3>2, FS_RemoveElement
    <3> QED BY <1>1, <1>4, <2>3, <3>2, <3>3 DEF IntroInv, LoopSend, lisVars
  <2> QED BY <1>4, <2>2, <2>3 DEF LoopSend
<1> QED BY <1>2, <1>3, <1>4

\* After its registration a client sends at most one introduction more for each
\* peer it has heard of, however the loops, the listener and the peer interleave.
THEOREM LateIntroSafety == Spec => []AtMostOneLateIntro
<1>1. Init => IntroInv
  <2> SUFFICES ASSUME Init PROVE IntroInv
    OBVIOUS
  <2>1. Sleeping = {}
    BY DEF Init, Sleeping
  <2>2. Cardinality(Sleeping) = 0 /\ Cardinality(Peers) \in Nat
    BY <2>1, FS_EmptySet, SleepingFinite
  <2> QED BY <2>2 DEF Init, IntroInv
<1>2. TypeInv /\ IntroInv /\ [Next]_vars => IntroInv'
  <2> SUFFICES ASSUME TypeInv, IntroInv, [Next]_vars PROVE IntroInv'
    OBVIOUS
  <2>1. CASE UNCHANGED <<loop, lateIntros, registered>>
    BY <2>1, FewerSleeping DEF Sleeping
  <2>2. CASE HandleAck
    BY <2>2, FewerSleeping DEF HandleAck, Sleeping, loopVars
  <2>3. CASE HandleSubscribe
    <3>1. Sleeping' \subseteq Sleeping
      BY <2>3 DEF HandleSubscribe, Sleeping, TypeInv, TypeOK
    <3> QED BY <2>3, <3>1, FewerSleeping DEF HandleSubscribe
  <2>4. ASSUME NEW p \in Peers, LoopCheck(p) \/ LoopSend(p) PROVE IntroInv'
    BY <2>4, IntroLoop
  <2>5. CASE AppBroadcast \/ Cancel \/ FwdTake \/ FwdSend \/ FwdStop
    BY <2>1, <2>5 DEF AppBroadcast, Cancel, FwdTake, FwdSend, FwdStop, lisVars, loopVars
  <2>6. CASE \/ \E e \in Event : PeerReceive(e)
             \/ \E taken \in BOOLEAN : PeerPublish(taken)
             \/ PeerForward \/ PeerStop \/ PeerStart \/ PeerCannotStart \/ PeerCannotDecode
    BY <2>1, <2>6 DEF PeerReceive, PeerPublish, PeerForward, PeerStop, PeerStart,
                      PeerCannotStart, PeerCannotDecode, PeerPanics, lisVars, loopVars
  <2>7. CASE LisTake \/ LisStop \/ HandleMessage \/ HandleMalformed \/ HandleIntroduction
             \/ LisSend \/ CallbackReturn \/ CallbackCall \/ CallbackEnqueue
    BY <2>1, <2>7 DEF LisTake, LisStop, HandleMessage, HandleMalformed, HandleIntroduction,
                      LisSend, CallbackReturn, CallbackCall, CallbackEnqueue, loopVars
  <2>8. CASE UNCHANGED vars
    BY <2>1, <2>8 DEF vars
  <2> QED BY <2>2, <2>3, <2>4, <2>5, <2>6, <2>7, <2>8 DEF Next
<1>3. TypeInv /\ IntroInv => AtMostOneLateIntro
  <2> SUFFICES ASSUME TypeInv, IntroInv PROVE AtMostOneLateIntro
    OBVIOUS
  <2>1. Sleeping \in SUBSET Peers /\ lateIntros \in Nat
    BY DEF Sleeping, TypeInv, TypeOK
  <2>2. Cardinality(Sleeping) \in Nat /\ Cardinality(Peers) \in Nat
    BY <2>1, SleepingFinite
  <2> QED BY <2>1, <2>2 DEF IntroInv, AtMostOneLateIntro
<1> QED BY <1>1, <1>2, <1>3, TypeCorrect, PTL DEF Spec

=============================================================================
