--------------------------- MODULE DispatchProofs ---------------------------
(* Theorems about Dispatch: which handlers may be at work together, and    *)
(* that the callbacks keep the promise of Callbacks.                       *)
EXTENDS Dispatch, SequenceTheorems, TLAPS

Listened(e) == events[e].kind # "run"

\* A chain at work is awaited, or left over by an event that failed; the event the
\* listener awaits is the last it took.
WorkInv ==
    /\ \A t \in live : t.event \in awaited \/ Failed(t.event)
    /\ \A e \in awaited, f \in DOMAIN events :
            Listened(e) /\ f > e => ~Listened(f)
    /\ stopped => awaited = {}

LEMMA BoundIsNat == MaxEvents \in Nat
BY DispatchAssumption DEF DispatchAssumption

LEMMA TypeInit == Init => TypeOK
<1> SUFFICES ASSUME Init PROVE TypeOK
    OBVIOUS
<1>1. Len(events) = 0 /\ events \in Seq(Requests) /\ DOMAIN called = 1..0
    BY DEF Init
<1> QED
    <2>1. Len(events) <= MaxEvents
        BY <1>1, BoundIsNat
    <2>2. program \in Programs /\ live = {} /\ raised = {} /\ awaited = {} /\ cut = {}
             /\ stopped = FALSE
        BY DEF Init
    <2> QED
        BY <1>1, <2>1, <2>2 DEF TypeOK

\* What a callback adds when it begins.
LEMMA BeginFacts ==
    ASSUME TypeOK, NEW r \in Requests, Begin(r)
    PROVE  /\ events' \in Seq(Requests) /\ Len(events') = Len(events) + 1
           /\ Len(events) \in Nat /\ Len(events') <= MaxEvents
           /\ events'[Len(events) + 1] = r
           /\ \A e \in 1..Len(events) : events'[e] = events[e]
           /\ live \subseteq live'
           /\ \A t \in live' \ live :
                /\ t = [event |-> t.event, chain |-> t.chain, rest |-> t.rest]
                /\ t.event = Len(events) + 1
                /\ t.rest # <<>>
           /\ awaited' = awaited \cup {Len(events) + 1}
           /\ ~stopped /\ UNCHANGED <<program, raised, cut, stopped>>
<1>1. events' = Append(events, r) /\ events \in Seq(Requests)
    BY DEF Begin, TypeOK
<1>2. Len(events) + 1 <= MaxEvents
    BY DEF Begin
<1>3. \A t \in live' \ live : /\ t = [event |-> t.event, chain |-> t.chain, rest |-> t.rest]
                              /\ t.event = Len(events) + 1
                              /\ t.rest # <<>>
    BY DEF Begin
<1> QED
    BY <1>1, <1>2, <1>3, AppendProperties DEF Begin

LEMMA TypeStep == TypeOK /\ [Next]_vars => TypeOK'
<1> SUFFICES ASSUME TypeOK, [Next]_vars PROVE TypeOK'
    OBVIOUS
<1>1. ASSUME NEW r \in Requests, Begin(r) PROVE TypeOK'
    <2>1. DOMAIN called' = 1..Len(events')
        <3> DEFINE chains == IF Rejected(program, r) THEN <<>> ELSE Chains(program, r)
                   firsts == [i \in DOMAIN chains |-> First(chains[i])]
        <3>1. called' = [f \in DOMAIN called \cup {Len(events) + 1} |->
                            IF f = Len(events) + 1 THEN firsts ELSE called[f]]
            BY <1>1 DEF Begin
        <3> HIDE DEF firsts
        <3>2. DOMAIN called' = DOMAIN called \cup {Len(events) + 1}
            BY <3>1
        <3> QED
            BY <3>2, <1>1, BeginFacts DEF TypeOK
    <2>2. \A t \in live' :
              /\ t = [event |-> t.event, chain |-> t.chain, rest |-> t.rest]
              /\ t.event \in 1..Len(events')
              /\ t.rest # <<>>
        BY <1>1, BeginFacts DEF TypeOK
    <2>3. /\ awaited' \subseteq 1..Len(events')
          /\ cut' \subseteq 1..Len(events')
          /\ \A x \in raised' : x[1] \in 1..Len(events')
        BY <1>1, BeginFacts DEF TypeOK
    <2> QED
        BY <1>1, <2>1, <2>2, <2>3, BeginFacts DEF TypeOK
<1>2. ASSUME NEW t \in live, HandlerReturns(t) PROVE TypeOK'
    <2>1. \A u \in live' \ live :
              u = [event |-> t.event, chain |-> t.chain, rest |-> Tail(t.rest)]
                /\ Tail(t.rest) # <<>>
        BY <1>2 DEF HandlerReturns, TypeOK
    <2>2. DOMAIN called' = DOMAIN called
        BY <1>2 DEF HandlerReturns
    <2> QED
        BY <1>2, <2>1, <2>2 DEF HandlerReturns, TypeOK
<1>3. ASSUME NEW t \in live, HandlerRaises(t) PROVE TypeOK'
    BY <1>3 DEF HandlerRaises, TypeOK
<1>4. ASSUME NEW e \in awaited, GatherReturns(e) PROVE TypeOK'
    BY <1>4 DEF GatherReturns, TypeOK
<1>5. CASE Stop
    BY <1>5 DEF Stop, TypeOK
<1>6. CASE UNCHANGED vars
    BY <1>6 DEF vars, TypeOK
<1> QED
    BY <1>1, <1>2, <1>3, <1>4, <1>5, <1>6 DEF Next, Receive, Run

\* Every reachable state is well typed: no chain is at work without a handler.
THEOREM TypeSafety == Spec => []TypeOK
<1> QED
    BY TypeInit, TypeStep, PTL DEF Spec

LEMMA WorkInit == Init => WorkInv
BY DEF Init, WorkInv

LEMMA WorkStep == TypeOK /\ WorkInv /\ [Next]_vars => WorkInv'
<1> SUFFICES ASSUME TypeOK, WorkInv, [Next]_vars PROVE WorkInv'
    OBVIOUS
<1>1. ASSUME NEW r \in Requests, Receive(r) \/ Run(r) PROVE WorkInv'
    <2>1. Begin(r)
        BY <1>1 DEF Receive, Run
    <2>2. DOMAIN events = 1..Len(events) /\ DOMAIN events' = 1..(Len(events) + 1)
        BY <2>1, BeginFacts DEF TypeOK
    <2>3. \A t \in live' : t.event \in awaited' \/ Failed(t.event)'
        BY <2>1, BeginFacts DEF WorkInv, Failed
    <2>4. ASSUME NEW e \in awaited', NEW f \in DOMAIN events', Listened(e)', f > e
          PROVE  ~Listened(f)'
        <3>1. e \in awaited /\ e \in 1..Len(events) /\ Listened(e)
            BY <2>1, <2>2, <2>4, BeginFacts DEF TypeOK, Listened
        <3>2. CASE f \in 1..Len(events)
            BY <2>1, <2>2, <2>4, <3>1, <3>2, BeginFacts DEF WorkInv, Listened
        <3>3. CASE f = Len(events) + 1
            <4>1. r.kind = "run"
                BY <1>1, <3>1 DEF Receive, Run, Listened
            <4> QED
                BY <2>1, <3>3, <4>1, BeginFacts DEF Listened
        <3> QED
            BY <2>1, <2>2, <3>2, <3>3, BeginFacts
    <2> QED
        BY <2>1, <2>3, <2>4, BeginFacts DEF WorkInv
<1>2. ASSUME NEW t \in live, HandlerReturns(t) PROVE WorkInv'
    BY <1>2 DEF HandlerReturns, WorkInv, Failed, Listened, TypeOK
<1>3. ASSUME NEW t \in live, HandlerRaises(t) PROVE WorkInv'
    BY <1>3 DEF HandlerRaises, WorkInv, Failed, Listened
<1>4. ASSUME NEW e \in awaited, GatherReturns(e) PROVE WorkInv'
    BY <1>4 DEF GatherReturns, WorkInv, Failed, Listened, Of
<1>5. CASE Stop
    BY <1>5 DEF Stop, WorkInv, Failed, Listened
<1>6. CASE UNCHANGED vars
    BY <1>6 DEF vars, WorkInv, Failed, Listened
<1> QED
    BY <1>1, <1>2, <1>3, <1>4, <1>5, <1>6 DEF Next

THEOREM WorkSafety == Spec => []WorkInv
<1> QED
    BY TypeInit, TypeStep, WorkInit, WorkStep, PTL DEF Spec

\* Handlers of two messages or connections are never at work together unless one
\* of the earlier event raised, for every application and any number of events.
THEOREM OverlapSafety == Spec => []OverlapNeedsFailure
<1>1. TypeOK /\ WorkInv => OverlapNeedsFailure
    BY DEF TypeOK, WorkInv, OverlapNeedsFailure, Listened
<1> QED
    BY <1>1, TypeSafety, WorkSafety, PTL

-----------------------------------------------------------------------------
(* The promise of Callbacks is kept                                        *)

Came == [e \in DOMAIN events |-> IF events[e].kind = "run" THEN "run" ELSE "event"]
Unfinished == {t.event : t \in live}
Loose == Unfinished \ awaited
Failures == {x[1] : x \in raised}

promised == <<Came, awaited, Loose, Failures, stopped>>

LEMMA FailureFacts == \A e : Failed(e) <=> e \in Failures
BY DEF Failed, Failures

\* A request comes.
LEMMA TakeStep ==
    ASSUME TypeOK, NEW r \in Requests, Receive(r) \/ Run(r)
    PROVE  Promise!Next
<1> DEFINE what == IF r.kind = "run" THEN "run" ELSE "event"
<1>1. Begin(r)
    BY DEF Receive, Run
<1>2. /\ DOMAIN events = 1..Len(events) /\ DOMAIN events' = 1..(Len(events) + 1)
      /\ Len(events) \in Nat
    BY <1>1, BeginFacts DEF TypeOK
<1>3. Came \in Seq({"run", "event"}) /\ Len(Came) = Len(events)
    BY <1>2 DEF Came
<1>4. Came' = Append(Came, what)
    <2>1. Came' \in Seq({"run", "event"}) /\ Len(Came') = Len(Came) + 1
        BY <1>2, <1>3 DEF Came
    <2>2. \A e \in 1..Len(Came) : Came'[e] = Came[e]
        BY <1>1, <1>2, <1>3, BeginFacts DEF Came
    <2>3. Came'[Len(Came) + 1] = what
        BY <1>1, <1>2, <1>3, BeginFacts DEF Came
    <2> QED
        BY <1>3, <2>1, <2>2, <2>3
<1>5. Loose' = Loose
    <2>1. Unfinished' \subseteq Unfinished \cup {Len(events) + 1} /\ Unfinished \subseteq Unfinished'
        BY <1>1, BeginFacts DEF Unfinished
    <2>2. Len(events) + 1 \notin Unfinished
        BY <1>2 DEF Unfinished, TypeOK
    <2> QED
        BY <1>1, <2>1, <2>2, BeginFacts DEF Loose
<1>6. IF what = "run" THEN \A e \in DOMAIN Came : Came[e] # "run"
      ELSE \A e \in awaited : Came[e] = "run"
    BY <1>2 DEF Receive, Run, Came, TypeOK
<1>7. /\ awaited' = awaited \cup {Len(Came) + 1} /\ ~stopped
      /\ Failures' = Failures /\ stopped' = stopped
    BY <1>1, <1>3, BeginFacts DEF Failures
<1>8. Promise!Take(what)
    BY <1>4, <1>5, <1>6, <1>7 DEF Promise!Take, Came, Loose, Unfinished, Failures
<1> QED
    BY <1>8 DEF Promise!Next

\* A handler returns: if nothing of a loose event is left, that has come to rest.
LEMMA ReturnStep ==
    ASSUME TypeOK, NEW t \in live, HandlerReturns(t)
    PROVE  [Promise!Next]_promised
<1>1. /\ t.event \in DOMAIN Came /\ Came' = Came /\ awaited' = awaited
      /\ Failures' = Failures /\ stopped' = stopped
    BY DEF HandlerReturns, Came, Failures, TypeOK
<1>2. Unfinished' = Unfinished \/ Unfinished' = Unfinished \ {t.event}
    <2>1. \A u \in live' \ live : u.event = t.event
        BY DEF HandlerReturns, TypeOK
    <2>2. \A u \in live \ live' : u = t
        BY DEF HandlerReturns
    <2> QED
        BY <2>1, <2>2 DEF Unfinished
<1>3. CASE Loose' = Loose
    BY <1>1, <1>3 DEF promised
<1>4. CASE Loose' # Loose
    <2>1. t.event \in Loose /\ Loose' = Loose \ {t.event}
        BY <1>1, <1>2, <1>4 DEF Loose
    <2>2. Promise!ComeToRest(t.event)
        BY <1>1, <2>1 DEF Promise!ComeToRest, Came, Loose, Unfinished, Failures
    <2> QED
        BY <1>1, <2>2 DEF Promise!Next, Came
<1> QED
    BY <1>3, <1>4

LEMMA RaiseStep ==
    ASSUME TypeOK, NEW t \in live, HandlerRaises(t)
    PROVE  Promise!Next
<1>1. /\ t.event \in DOMAIN Came /\ Came' = Came /\ awaited' = awaited /\ stopped' = stopped
    BY DEF HandlerRaises, Came, TypeOK
<1>2. Failures' = Failures \cup {t.event}
    <2>1. raised' = raised \cup {<<t.event, t.chain>>}
        BY DEF HandlerRaises
    <2>2. <<t.event, t.chain>>[1] = t.event
        OBVIOUS
    <2> QED
        BY <2>1, <2>2 DEF Failures
<1>3. Unfinished' \subseteq Unfinished /\ Unfinished \ {t.event} \subseteq Unfinished' /\ t.event \in Unfinished
    BY DEF HandlerRaises, Unfinished
<1>4. Loose' \in {Loose, Loose \ {t.event}} /\ t.event \in awaited \cup Loose
    BY <1>1, <1>3 DEF Loose
<1>5. Promise!Fail(t.event)
    BY <1>1, <1>2, <1>4 DEF Promise!Fail, Came, Loose, Unfinished, Failures
<1> QED
    BY <1>1, <1>5 DEF Promise!Next, Came

LEMMA FinishStep ==
    ASSUME TypeOK, NEW e \in awaited, GatherReturns(e)
    PROVE  Promise!Next
<1>1. /\ e \in DOMAIN Came /\ Came' = Came /\ awaited' = awaited \ {e}
      /\ Failures' = Failures /\ stopped' = stopped /\ Unfinished' = Unfinished
    BY DEF GatherReturns, Came, Failures, Unfinished, TypeOK
<1>2. e \in Unfinished => e \in Failures
    BY FailureFacts DEF GatherReturns, Of, Unfinished
<1>3. Loose' \in {Loose, Loose \cup (Failures \cap {e})}
    BY <1>1, <1>2 DEF Loose
<1>4. Promise!Finish(e)
    BY <1>1, <1>3 DEF Promise!Finish, Came, Loose, Unfinished, Failures
<1> QED
    BY <1>1, <1>4 DEF Promise!Next, Came

LEMMA StopStep ==
    ASSUME TypeOK, Stop
    PROVE  Promise!Next
<1>1. /\ Came' = Came /\ awaited' = {} /\ Failures' = Failures /\ ~stopped /\ stopped' = TRUE
    BY DEF Stop, Came, Failures
<1>2. Unfinished' = Unfinished \ (awaited \ Failures)
    BY FailureFacts DEF Stop, Unfinished
<1>3. Loose' = Loose \cup (Unfinished \cap awaited \cap Failures)
    BY <1>1, <1>2 DEF Loose
<1>4. \E left \in SUBSET (awaited \cap Failures) : Loose' = Loose \cup left
    BY <1>3
<1>5. Promise!Stop
    BY <1>1, <1>4 DEF Promise!Stop, Came, Loose, Unfinished, Failures
<1> QED
    BY <1>5 DEF Promise!Next

\* For any application and any number of events an agent's callbacks do what
\* Callbacks promises: each step is one of its steps or a stutter.
THEOREM CallbacksRefinement == Spec => ImplementsCallbacks
<1>1. Init => Promise!Init
    BY DEF Init, Promise!Init
<1>2. TypeOK /\ [Next]_vars => [Promise!Next]_promised
    <2> SUFFICES ASSUME TypeOK, [Next]_vars PROVE [Promise!Next]_promised
        OBVIOUS
    <2>1. CASE UNCHANGED vars
        BY <2>1 DEF vars, promised, Came, Loose, Unfinished, Failures
    <2> QED
        BY <2>1, TakeStep, ReturnStep, RaiseStep, FinishStep, StopStep DEF Next
<1> QED
    BY <1>1, <1>2, TypeSafety, PTL
    DEF Spec, ImplementsCallbacks, Promise!Spec, promised, Came, Loose, Unfinished, Failures

=============================================================================
