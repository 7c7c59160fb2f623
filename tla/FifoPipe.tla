------------------------------ MODULE FifoPipe ------------------------------
(***************************************************************************)
(* What an agent promises for the messages its application sends: they     *)
(* reach the network in the order in which broadcast and send_direct       *)
(* accepted them, each at most once.  A message may be left out (the       *)
(* network refused it, the agent was stopped); it is never overtaken.      *)
(***************************************************************************)
EXTENDS Naturals, Sequences

VARIABLES
    accepted, \* messages accepted so far: 1, 2, ..., accepted
    wire      \* the messages handed to the network, in order

LastOnWire == IF wire = <<>> THEN 0 ELSE wire[Len(wire)]

Init ==
    /\ accepted = 0
    /\ wire = <<>>

Accept ==
    /\ accepted' = accepted + 1
    /\ wire' = wire

Transmit(m) ==
    /\ m \in (LastOnWire + 1)..accepted
    /\ wire' = Append(wire, m)
    /\ accepted' = accepted

Next == Accept \/ \E m \in 1..accepted : Transmit(m)

Spec == Init /\ [][Next]_<<accepted, wire>>

=============================================================================
