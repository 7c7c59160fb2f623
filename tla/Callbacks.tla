------------------------------ MODULE Callbacks ------------------------------
(***************************************************************************)
(* What an agent promises an application for its callbacks, with neither   *)
(* tables nor chains of handlers.  It takes one message or connection at a *)
(* time, its run beside them, and has done with one before it takes the    *)
(* next.  What failed is the exception: the agent leaves it behind with    *)
(* its other handlers at work, beside what comes next and after the end of *)
(* start.  Nothing that is over is taken up again.                         *)
(***************************************************************************)
EXTENDS Naturals, Sequences

VARIABLES
    came,    \* what has come so far: messages and connections ("event"), the run
    handled, \* of these, the ones whose callback is awaited
    loose,   \* the ones left behind with handlers at work
    failed,  \* the ones of which a handler raised
    stopped  \* has start ended?

Init ==
    /\ came = <<>>
    /\ handled = {}
    /\ loose = {}
    /\ failed = {}
    /\ stopped = FALSE

Take(what) ==
    /\ ~stopped
    /\ IF what = "run" THEN \A e \in DOMAIN came : came[e] # "run"
       ELSE \A e \in handled : came[e] = "run"
    /\ came' = Append(came, what)
    /\ handled' = handled \cup {Len(came) + 1}
    /\ UNCHANGED <<loose, failed, stopped>>

\* One of its handlers raises, which may have been its last.
Fail(e) ==
    /\ e \in handled \cup loose
    /\ failed' = failed \cup {e}
    /\ loose' \in {loose, loose \ {e}}
    /\ UNCHANGED <<came, handled, stopped>>

\* Only what failed leaves handlers at work behind.
Finish(e) ==
    /\ e \in handled
    /\ handled' = handled \ {e}
    /\ loose' \in {loose, loose \cup (failed \cap {e})}
    /\ UNCHANGED <<came, failed, stopped>>

ComeToRest(e) ==
    /\ e \in loose
    /\ loose' = loose \ {e}
    /\ UNCHANGED <<came, handled, failed, stopped>>

Stop ==
    /\ ~stopped
    /\ stopped' = TRUE
    /\ handled' = {}
    /\ \E left \in SUBSET (handled \cap failed) : loose' = loose \cup left
    /\ UNCHANGED <<came, failed>>

Next ==
    \/ \E what \in {"event", "run"} : Take(what)
    \/ \E e \in DOMAIN came : Fail(e) \/ Finish(e) \/ ComeToRest(e)
    \/ Stop

Spec == Init /\ [][Next]_<<came, handled, loose, failed, stopped>>

=============================================================================
