------------------------------- MODULE Roster -------------------------------
(***************************************************************************)
(* What the registration of agents promises, with neither messages nor     *)
(* connections: who knows whom, and which clients are to stop introducing  *)
(* themselves.  A client comes to be known by way of the admin, which      *)
(* knows it, is about to, or has lost its connection.  It stops, for good, *)
(* after somebody else has learned of somebody: the promise does not say   *)
(* of whom.                                                                *)
(*                                                                         *)
(* Nobody is forgotten but who has lost its connection.  That one may be   *)
(* forgotten and may come back: it is what the documents say of a loss,    *)
(* and the promise leaves room for it.                                     *)
(***************************************************************************)

CONSTANTS
    Admin,
    Clients

Nodes == Clients \cup {Admin}

VARIABLES
    known,   \* per node: the nodes it has learned of
    through, \* the clients that the admin knows or is about to know
    lost,    \* the clients without a connection that had one or tried to
    silent   \* the clients that are to stop introducing themselves

Init ==
    /\ known = [n \in Nodes |-> {}]
    /\ through = {}
    /\ lost = {}
    /\ silent = {}

GetThrough(c) ==
    /\ through' = through \cup {c}
    /\ UNCHANGED <<known, lost, silent>>

\* What was on its way to the admin may be lost with the connection.
Lose(c) ==
    /\ lost' = lost \cup {c}
    /\ through' \in {through, through \ {c}}
    /\ UNCHANGED <<known, silent>>

Return(c) ==
    /\ lost' = lost \ {c}
    /\ UNCHANGED <<known, through, silent>>

Forget(n, p) ==
    /\ p \in lost
    /\ known' = [known EXCEPT ![n] = @ \ {p}]
    /\ through' \in {through, through \ {p}}
    /\ UNCHANGED <<lost, silent>>

Learn(n, p) ==
    /\ p \in (through \cup lost \cup {Admin}) \ {n}
    /\ known' = [known EXCEPT ![n] = @ \cup {p}]
    /\ UNCHANGED <<through, lost, silent>>

FallSilent(c) ==
    /\ \E n \in Nodes \ {c} : known[n] # {}
    /\ silent' = silent \cup {c}
    /\ UNCHANGED <<known, through, lost>>

Next ==
    \/ \E c \in Clients : GetThrough(c)
    \/ \E c \in Clients : Lose(c)
    \/ \E c \in Clients : Return(c)
    \/ \E n, p \in Nodes : Forget(n, p)
    \/ \E n, p \in Nodes : Learn(n, p)
    \/ \E c \in Clients : FallSilent(c)

Spec == Init /\ [][Next]_<<known, through, lost, silent>>

=============================================================================
