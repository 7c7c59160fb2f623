----------------------------- MODULE MCDispatch -----------------------------
(* A small instance of Dispatch for TLC. *)
EXTENDS Dispatch

CONSTANTS Base, Derived, Namesake, Local, Own, Bid, News

Method(class, kind, key, handler) ==
    [class |-> class, kind |-> kind, key |-> key, handler |-> handler]
Function(kind, key, handler) == Method(Own, kind, key, handler)
Pattern(topic, role) == [topic |-> topic, role |-> role]

\* Namesake is another module's Base, Local is defined inside a function.
Names == Base :> "Base" @@ Derived :> "Derived" @@ Namesake :> "Base" @@ Local :> "Local"
Scopes == Base :> "Base" @@ Derived :> "Derived" @@ Namesake :> "Base" @@ Local :> "main"

BaseMethods == <<
    Method(Base, "message", Bid, "base_bid"),
    Method(Base, "message", News, "base_news"),
    Method(Base, "connect", Pattern("market", Star), "base_market"),
    Method(Base, "connect", Star, "base_all"),
    Method(Base, "run", "run", "base_run")>>

DerivedMethods == <<
    Method(Derived, "message", Bid, "first_bid"),
    Method(Derived, "message", Bid, "derived_bid"),
    Method(Derived, "connect", Pattern(Star, "bidder"), "derived_bidder"),
    Method(Derived, "run", "run", "derived_run")>>

OwnFunctions == <<
    Function("message", Bid, "own_bid"),
    Function("connect", Star, "own_all")>>

Inherits == [mro |-> <<Derived, Base>>, methods |-> BaseMethods \o DerivedMethods,
             functions |-> OwnFunctions]

Clashes == [mro |-> <<Base>>,
            methods |-> Append(BaseMethods, Method(Namesake, "message", Bid, "other_bid")),
            functions |-> <<>>]

Hides == [mro |-> <<Local>>, methods |-> <<Method(Local, "message", Bid, "local_bid")>>,
          functions |-> Append(OwnFunctions, Function("run", "main", "own_run"))]

Mistakes == [mro |-> <<Base>>,
             methods |-> <<Method(Base, "connect", Malformed, "never"),
                           Method(Base, "connect", Pattern("market", "bidder"), "late")>>,
             functions |-> <<Function("connect", Pattern("market", "seller"), "own_seller")>>]

Rejects == [mro |-> <<Base>>, methods |-> BaseMethods,
            functions |-> <<Function("connect", Malformed, "never")>>]

AllPrograms == {Inherits, Clashes, Hides, Mistakes, Rejects}

AllRequests ==
    {[kind |-> "message", what |-> w] : w \in {Bid, News, Garbage}}
        \cup {[kind |-> "connect", what |-> [topic |-> "market", role |-> r]] :
                r \in {"bidder", "seller"}}
        \cup {[kind |-> "run", what |-> w] : w \in {Bid, Garbage}}

=============================================================================
