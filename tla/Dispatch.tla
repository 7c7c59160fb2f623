------------------------------ MODULE Dispatch ------------------------------
(***************************************************************************)
(* How a BaseAgent hands messages, connections and its run to the          *)
(* application (bindings/ceylon/ceylon/base).  A decorator puts a method   *)
(* into a table under its class's NAME, or a function into a table of the  *)
(* agent.  For an event the methods of the classes make one chain, called  *)
(* one after the other, and each function a chain of its own; the chains   *)
(* run concurrently under asyncio.gather, which returns at the first       *)
(* exception and leaves the other chains running.                          *)
(*                                                                         *)
(* The listener awaits a message or a connection before it takes the next; *)
(* the run goes on beside them.  A chain moves where its handler awaits.   *)
(***************************************************************************)
EXTENDS SequencesExt

CONSTANTS
    Star,        \* the pattern '*', or its part before or after the colon
    Malformed,  \* a pattern with more than one colon
    Garbage,    \* bytes that pickle.loads rejects
    Programs,   \* what an application's decorators registered
    Name,       \* __name__ of a class
    Scope,      \* what __qualname__ of its methods begins with
    Requests,   \* the messages, connections and runs that may come
    MaxEvents   \* bound: how many come

Kinds == {"message", "connect", "run"}

Entries(s) == {s[i] : i \in DOMAIN s}

\* A program has the agent's classes in __mro__ order, and the decorated methods
\* and functions in the order of their decoration.  A handler names one
\* decoration; of a function, `class' is the agent itself.
ASSUME DispatchAssumption ==
    /\ MaxEvents \in Nat
    /\ \A r \in Requests : r.kind \in Kinds
    /\ \A p \in Programs :
        /\ p.mro \in Seq(Entries(p.mro))
        /\ p.methods \in Seq(Entries(p.methods))
        /\ p.functions \in Seq(Entries(p.functions))
        /\ \A x \in Entries(p.methods) \cup Entries(p.functions) : x.kind \in Kinds
        /\ \A i, j \in DOMAIN p.mro : p.mro[i] = p.mro[j] => i = j
        /\ \A i, j \in DOMAIN p.methods :
                p.methods[i].handler = p.methods[j].handler => i = j
        /\ \A i, j \in DOMAIN p.functions :
                /\ p.functions[i].handler = p.functions[j].handler => i = j
                /\ p.functions[i].class = p.functions[j].class
        /\ \A x \in Entries(p.methods), y \in Entries(p.functions) :
                x.handler # y.handler

-----------------------------------------------------------------------------
(* The tables *)

\* A dict keeps the place of a key and the last value given to it.
Put(dict, entry) ==
    IF \E i \in DOMAIN dict : dict[i].key = entry.key
    THEN [i \in DOMAIN dict |-> IF dict[i].key = entry.key THEN entry ELSE dict[i]]
    ELSE Append(dict, entry)

\* The dict after the entries of s that are in S were put into it, in this order.
Dict(s, S) ==
    LET dict[n \in 0..Len(s)] ==
            IF n = 0 THEN <<>>
            ELSE IF s[n] \in S THEN Put(dict[n - 1], s[n]) ELSE dict[n - 1]
    IN  dict[Len(s)]

ClassTable(p, name, kind) ==
    Dict(p.methods, {m \in Entries(p.methods) : Scope[m.class] = name /\ m.kind = kind})

OwnTable(p, kind) ==
    Dict(p.functions, {f \in Entries(p.functions) : f.kind = kind})

\* A plain topic t is the pattern 't:*'.
_matches_pattern(pattern, agent) ==
    /\ pattern.topic \in {Star, agent.topic}
    /\ pattern.role \in {Star, agent.role}

\* A malformed pattern is a handler that can only raise.
Applies(key, r) ==
    CASE r.kind = "message" -> key = r.what
      [] r.kind = "connect" -> key \in {Star, Malformed} \/ _matches_pattern(key, r.what)
      [] r.kind = "run" -> TRUE

\* The entries of a table that apply, those for '*' first.
Picked(table, r) ==
    LET due == {x \in Entries(table) : Applies(x.key, r)} IN
    Dict(table, {x \in due : x.key = Star}) \o Dict(table, {x \in due : x.key # Star})

Found(p, r) ==
    [i \in DOMAIN p.mro |-> Picked(ClassTable(p, Name[p.mro[i]], r.kind), r)]

\* Mutant: the break is missing from the search for a message's method.
ClassChain_NoBreak(p, r) == FlattenSeq(Found(p, r))

\* A message goes to the first class that has a method for its type, a
\* connection or the run to all of them.
ClassChain(p, r) ==
    LET has == {i \in DOMAIN p.mro : Found(p, r)[i] # <<>>} IN
    IF r.kind = "message" /\ has # {} THEN Found(p, r)[Min(has)]
    ELSE FlattenSeq(Found(p, r))

Chains(p, r) ==
    LET own == Picked(OwnTable(p, r.kind), r)
    IN  [i \in 1..Len(own) + 1 |-> IF i = 1 THEN ClassChain(p, r) ELSE <<own[i - 1]>>]

\* Some errors come before anything is called.
Rejected(p, r) ==
    \/ r.what = Garbage
    \/ r.kind = "connect" /\ \E i \in DOMAIN p.functions :
            p.functions[i].kind = "connect" /\ p.functions[i].key = Malformed

-----------------------------------------------------------------------------
VARIABLES
    program,  \* what was registered
    events,   \* the requests that have come
    live,     \* the chains at work: what is left of each, its head running
    awaited,  \* the events whose gather has not returned
    raised,   \* history: the chains that ended with an exception
    called,   \* history: per event and chain, the handlers called
    cut,      \* history: the events cancelled by the end of start
    stopped   \* has start ended?

vars == <<program, events, live, awaited, raised, called, cut, stopped>>

Failed(e) == \E x \in raised : x[1] = e
Of(e) == {t \in live : t.event = e}

TypeOK ==
    /\ program \in Programs
    /\ events \in Seq(Requests)
    /\ Len(events) <= MaxEvents
    /\ awaited \subseteq 1..Len(events)
    /\ \A t \in live :
        /\ t = [event |-> t.event, chain |-> t.chain, rest |-> t.rest]
        /\ t.event \in 1..Len(events)
        /\ t.rest # <<>>
    /\ \A x \in raised : x[1] \in 1..Len(events)
    /\ DOMAIN called = 1..Len(events)
    /\ cut \subseteq 1..Len(events)
    /\ stopped \in BOOLEAN

Init ==
    /\ program \in Programs
    /\ events = <<>>
    /\ live = {}
    /\ awaited = {}
    /\ raised = {}
    /\ called = <<>>
    /\ cut = {}
    /\ stopped = FALSE

First(chain) == IF chain = <<>> THEN <<>> ELSE <<chain[1].handler>>

\* common_on_message, common_on_agent_connected or common_on_run begins: gather
\* starts every chain before it can return.
Begin(r) ==
    LET e == Len(events) + 1
        chains == IF Rejected(program, r) THEN <<>> ELSE Chains(program, r)
    IN  /\ ~stopped
        /\ e <= MaxEvents
        /\ events' = Append(events, r)
        /\ live' = live \cup {[event |-> e, chain |-> i, rest |-> chains[i]] :
                                i \in {j \in DOMAIN chains : chains[j] # <<>>}}
        /\ awaited' = awaited \cup {e}
        /\ called' = [f \in DOMAIN called \cup {e} |->
                        IF f = e THEN [i \in DOMAIN chains |-> First(chains[i])]
                        ELSE called[f]]
        /\ UNCHANGED <<program, raised, cut, stopped>>

\* Mutant: the listener does not wait for the callback.
Receive_Anytime(r) ==
    /\ r.kind # "run"
    /\ Begin(r)

\* The listener, which awaits on_message and on_agent_connected.
Receive(r) ==
    /\ r.kind # "run"
    /\ \A e \in awaited : events[e].kind = "run"
    /\ Begin(r)

\* The processor, once in a start.
Run(r) ==
    /\ r.kind = "run"
    /\ \A i \in DOMAIN events : events[i].kind # "run"
    /\ Begin(r)

\* Mutant: a chain does not end with its last handler.
HandlerReturns_NoEnd(t) ==
    /\ t \in live
    /\ Head(t.rest).key # Malformed
    /\ live' = (live \ {t}) \cup {[t EXCEPT !.rest = Tail(@)]}
    /\ UNCHANGED <<program, events, awaited, raised, called, cut, stopped>>

\* The handler returns and the next of its chain is called at once.
HandlerReturns(t) ==
    /\ t \in live
    /\ Head(t.rest).key # Malformed
    /\ LET next == Tail(t.rest) IN
       IF next = <<>>
       THEN live' = live \ {t} /\ called' = called
       ELSE /\ live' = (live \ {t}) \cup {[t EXCEPT !.rest = next]}
            /\ called' = [called EXCEPT ![t.event][t.chain] = Append(@, Head(next).handler)]
    /\ UNCHANGED <<program, events, awaited, raised, cut, stopped>>

\* It raises: the rest of its chain is never called.
HandlerRaises(t) ==
    /\ t \in live
    /\ live' = live \ {t}
    /\ raised' = raised \cup {<<t.event, t.chain>>}
    /\ UNCHANGED <<program, events, awaited, called, cut, stopped>>

\* Mutant: gather waits for whatever is on the event loop.
GatherReturns_AfterAll(e) ==
    /\ e \in awaited
    /\ live = {}
    /\ awaited' = awaited \ {e}
    /\ UNCHANGED <<program, events, live, raised, called, cut, stopped>>

\* gather returns, or raises what the caller logs: the callback is over.
GatherReturns(e) ==
    /\ e \in awaited
    /\ Failed(e) \/ Of(e) = {}
    /\ awaited' = awaited \ {e}
    /\ UNCHANGED <<program, events, live, raised, called, cut, stopped>>

\* Mutant: the callbacks are forgotten, not cancelled.
Stop_NoCancel ==
    /\ ~stopped
    /\ stopped' = TRUE
    /\ awaited' = {}
    /\ UNCHANGED <<program, events, live, raised, called, cut>>

\* start ends and drops the futures of the callbacks, for which uniffi cancels
\* their coroutines.  A gather passes that on to its chains unless it is over.
Stop ==
    /\ ~stopped
    /\ stopped' = TRUE
    /\ cut' = {e \in awaited : ~Failed(e)}
    /\ live' = {t \in live : t.event \notin cut'}
    /\ awaited' = {}
    /\ UNCHANGED <<program, events, raised, called>>

Next ==
    \/ \E r \in Requests : Receive(r) \/ Run(r)
    \/ \E t \in live : HandlerReturns(t) \/ HandlerRaises(t)
    \/ \E e \in awaited : GatherReturns(e)
    \/ Stop

Spec == Init /\ [][Next]_vars

\* The event loop is fair.  Handlers of messages and connections end, which is an
\* assumption on the application; a run need not.
HandlerEnds(e) ==
    \E t \in Of(e) : events[e].kind # "run" /\ (HandlerReturns(t) \/ HandlerRaises(t))

Fairness == \A e \in 1..MaxEvents : WF_vars(HandlerEnds(e)) /\ WF_vars(GatherReturns(e))

FairSpec == Spec /\ Fairness

-----------------------------------------------------------------------------
(* Properties *)

\* The handlers of two messages or connections are at work at the same time only
\* if one of the earlier event raised: the application's state is otherwise safe
\* between its awaits from other events (support.py:118-143).
OverlapNeedsFailure ==
    \A t, u \in live :
        /\ t.event < u.event
        /\ events[t.event].kind # "run"
        /\ events[u.event].kind # "run"
        => Failed(t.event)

\* The agent keeps what Callbacks promises: one event at a time, left behind with
\* handlers at work only if one of them raised, whether by gather's return or by the
\* end of start, and over once they are done (support.py:118-155, uni_agent.py:110-117).
Promise == INSTANCE Callbacks WITH
    came <- [e \in DOMAIN events |-> IF events[e].kind = "run" THEN "run" ELSE "event"],
    handled <- awaited,
    loose <- {t.event : t \in live} \ awaited,
    failed <- {x[1] : x \in raised}
ImplementsCallbacks == Promise!Spec

\* The handlers Python's own lookup would give: of the methods with the same key
\* the last one defined in a class, of a message's methods the one of the first
\* class in __mro__ order.
Latest(s, i) ==
    ~\E j \in DOMAIN s : /\ j > i
                         /\ s[j].class = s[i].class
                         /\ s[j].kind = s[i].kind
                         /\ s[j].key = s[i].key

Wanted(s, r) == {i \in DOMAIN s : s[i].kind = r.kind /\ Applies(s[i].key, r) /\ Latest(s, i)}

Methods(p, r, n) == {i \in Wanted(p.methods, r) : p.methods[i].class = p.mro[n]}

DueMethods(p, r) ==
    {p.methods[i].handler :
        i \in UNION {Methods(p, r, n) : n \in {m \in DOMAIN p.mro :
                r.kind = "message" => \A k \in 1..m - 1 : Methods(p, r, k) = {}}}}

DueFunctions(p, r) == {p.functions[i].handler : i \in Wanted(p.functions, r)}

\* No two classes share a name and none is inside a function or another class.
WellNamed(p) ==
    LET classes == ToSet(p.mro) \cup {p.methods[i].class : i \in DOMAIN p.methods}
    IN  \A c \in classes : Scope[c] = Name[c] /\ \A d \in classes \ {c} : Name[d] # Name[c]

Calls(e) == UNION {Entries(called[e][c]) : c \in DOMAIN called[e]}

\* In a program with plain class names an event calls the handlers due to it and
\* no others, each once; a handler is left out only if one before it in the
\* chain of the methods raised or the agent was stopped.
CallsWhatIsDue ==
    WellNamed(program) =>
        \A e \in {f \in DOMAIN events : ~Rejected(program, events[f])} :
            LET methods == DueMethods(program, events[e])
                functions == DueFunctions(program, events[e])
            IN  /\ \A c, d \in DOMAIN called[e] :
                        \A i \in DOMAIN called[e][c], j \in DOMAIN called[e][d] :
                            called[e][c][i] = called[e][d][j] => c = d /\ i = j
                /\ Calls(e) \subseteq methods \cup functions
                /\ functions \subseteq Calls(e)
                /\ Of(e) = {} /\ e \notin cut /\ <<e, 1>> \notin raised =>
                        methods \subseteq Calls(e)

\* A message or a connection never holds up the listener for ever, whatever
\* handlers raise and even if the agent's run never returns.
ListenerMovesOn ==
    \A e \in 1..MaxEvents :
        e \in DOMAIN events /\ events[e].kind # "run" ~> e \notin awaited

=============================================================================
