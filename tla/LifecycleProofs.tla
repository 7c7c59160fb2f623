--------------------------- MODULE LifecycleProofs ---------------------------
(* Theorems about Lifecycle: types, sessions, and the configuration file. *)
EXTENDS Lifecycle, SequenceTheorems, TLAPS

USE DEF sessionVars, fileVars

\* A team, with its owner in front, is a sequence of agents.
LEMMA TeamIsSeq ==
    ASSUME NEW s \in Sessions, NEW a \in Agents, NEW team \in Teams(s)
    PROVE  /\ team \in Seq(Clients)
           /\ <<a>> \o team \in Seq(Agents)
           /\ <<a>> \o team # <<>>
           /\ Head(<<a>> \o team) = a
           /\ \A i \in DOMAIN (<<a>> \o team) :
                 (<<a>> \o team)[i] = a \/ \E j \in DOMAIN team : (<<a>> \o team)[i] = team[j]
<1>1. PICK n \in 0..MaxTeam[s] : team \in [1..n -> Clients]
    BY DEF Teams
<1>2. n \in Nat
    BY <1>1, LifecycleAssumption DEF LifecycleAssumption
<1>3. team \in Seq(Clients)
    BY <1>1, <1>2
<1>4. team \in Seq(Agents) /\ <<a>> \in Seq(Agents)
    BY <1>3 DEF Agents
<1> QED
    BY <1>3, <1>4

-----------------------------------------------------------------------------
(* Types *)

\* What an admin writes is a configuration, and names the admin.
LEMMA AdminConfig ==
    ASSUME NEW a \in Admins, NEW given \in Given[a]
    PROVE  /\ IsConfig(WithId(a, given))
           /\ WithId(a, given)["WORKSPACE_PEER"] = a
<1>1. IsConfig(given)
    BY ConfigAssumption DEF ConfigAssumption, Agents
<1> QED
    BY <1>1 DEF IsConfig, WithId, Keys

\* Where the tasks of the model live.
LEMMA TaskFacts ==
    /\ \A a \in Agents : Tasks(a) \subseteq Task /\ <<a, "shutdown", "waits">> \in Task
    /\ \A t \in Task :
        /\ t = <<t[1], t[2], t[3]>> /\ t[1] \in Agents
        /\ t[3] = "waits" => <<t[1], t[2], "holds">> \in Task
        /\ t[2] = "processor" => <<t[1], t[2], "polls">> \in Task
        /\ t[2] = "node" <=> t[3] = "on"
BY DEF Tasks, Task

LEMMA TypeInit == Init => TypeOK
<1> SUFFICES ASSUME Init PROVE TypeOK
    OBVIOUS
<1>2. \A a \in Agents : a \notin built \cup writing
    BY DEF Init
<1>3. config = [a \in Agents |-> config[a]]
    BY DEF Init
<1>4. todo \in [Sessions -> Seq(Agents)] /\ live \in [Sessions -> SUBSET Task]
    BY DEF Init
<1> QED
    BY <1>2, <1>3, <1>4 DEF Init, TypeOK

\* Moving a task from one stage of its kind to another keeps live well typed.
LEMMA MoveTyped ==
    ASSUME TypeOK, NEW s \in Sessions, NEW t \in live[s],
           NEW stage, <<t[1], t[2], stage>> \in Task, Move(s, t, stage)
    PROVE  live' \in [Sessions -> SUBSET Task]
BY DEF TypeOK, Move

LEMMA TypeStep == TypeOK /\ [Next]_vars => TypeOK'
<1> SUFFICES ASSUME TypeOK, [Next]_vars PROVE TypeOK'
    OBVIOUS
<1>1. ASSUME NEW c \in Clients, NewClient(c) PROVE TypeOK'
    <2>1. PICK given \in Given[c] : config' = [config EXCEPT ![c] = given]
        BY <1>1 DEF NewClient
    <2>2. IsConfig(given) /\ c \in Agents
        BY ConfigAssumption DEF ConfigAssumption, Agents
    <2> QED
        BY <1>1, <2>1, <2>2 DEF NewClient, TypeOK
<1>2. ASSUME NEW a \in Admins, NewAdmin(a) PROVE TypeOK'
    <2>1. PICK given \in Given[a] : config' = [config EXCEPT ![a] = WithId(a, given)]
        BY <1>2 DEF NewAdmin
    <2>2. IsConfig(WithId(a, given)) /\ a \in Agents
        BY AdminConfig DEF Agents
    <2>3. /\ UNCHANGED <<token, owner, pc, todo, live, built, network>>
          /\ writing' = writing \cup {a} /\ overlapped' \in BOOLEAN
        BY <1>2 DEF NewAdmin
    <2>4. config' = [x \in Agents |-> config'[x]]
        BY <2>1 DEF TypeOK
    <2>5. ASSUME NEW x \in Agents, x \in built' \cup writing'
          PROVE  IsConfig(config'[x])
        BY <2>1, <2>2, <2>3, <2>5 DEF TypeOK
    <2> QED
        BY <2>3, <2>4, <2>5 DEF TypeOK
<1>3. ASSUME NEW a \in Admins, WriteFile(a) PROVE TypeOK'
    BY <1>3, LifecycleAssumption DEF LifecycleAssumption, WriteFile, TypeOK, Agents
<1>4. ASSUME NEW a \in Agents, Stop(a) PROVE TypeOK'
    BY <1>4 DEF Stop, Cancel, TypeOK
<1>5. ASSUME NEW s \in Sessions, NEW a \in Agents, NEW team \in Teams(s),
             Start(s, a, team)
      PROVE  TypeOK'
    BY <1>5, TeamIsSeq DEF Start, TypeOK
<1>6. ASSUME NEW s \in Sessions, RunNext(s) PROVE TypeOK'
    <2> DEFINE a == Head(todo[s])
    <2>1. a \in Agents /\ Tail(todo[s]) \in Seq(Agents)
        BY <1>6 DEF RunNext, TypeOK
    <2>2. Tasks(a) \subseteq Task
        BY <2>1, TaskFacts
    <2>3. live' \in [Sessions -> SUBSET Task]
        <3>1. \/ live' = [live EXCEPT ![s] = @ \cup Tasks(a)]
              \/ live' = [live EXCEPT ![s] = {}]
            BY <1>6 DEF RunNext, End
        <3> QED
            BY <2>2, <3>1 DEF TypeOK
    <2>4. todo' \in [Sessions -> Seq(Agents)]
        BY <1>6, <2>1 DEF RunNext, End, TypeOK
    <2> QED
        BY <1>6, <2>3, <2>4 DEF RunNext, End, TypeOK
<1>7. ASSUME NEW s \in Sessions, BeginWait(s) PROVE TypeOK'
    <2>1. owner[s] \in Agents
        BY <1>7 DEF BeginWait, TypeOK
    <2> QED
        BY <1>7, <2>1, TaskFacts DEF BeginWait, TypeOK
<1>8. ASSUME NEW s \in Sessions, Return(s) \/ CtrlC(s) PROVE TypeOK'
    BY <1>8 DEF Return, CtrlC, Cancel, End, TypeOK
<1>9. ASSUME NEW s \in Sessions, ShutdownMessage(s) PROVE TypeOK'
    BY <1>9 DEF ShutdownMessage, Cancel, TypeOK
<1>10. ASSUME NEW s \in Sessions, NEW t \in live[s], Acquire(s, t) PROVE TypeOK'
    BY <1>10, TaskFacts DEF Acquire, Move, TypeOK
<1>11. ASSUME NEW s \in Sessions, NEW t \in live[s], UserReturns(s, t) PROVE TypeOK'
    BY <1>11, TaskFacts DEF UserReturns, Move, TypeOK
<1>12. ASSUME NEW s \in Sessions, NEW t \in live[s], SeesCancel(s, t) PROVE TypeOK'
    BY <1>12 DEF SeesCancel, TypeOK
<1>13. ASSUME NEW s \in Sessions, NEW t \in live[s], TaskPanics(s, t) PROVE TypeOK'
    BY <1>13 DEF TaskPanics, TypeOK
<1>14. CASE UNCHANGED vars
    BY <1>14 DEF vars, TypeOK
<1> QED
    BY <1>1, <1>2, <1>3, <1>4, <1>5, <1>6, <1>7, <1>8, <1>9, <1>10, <1>11, <1>12, <1>13, <1>14
    DEF Next

\* Every reachable state is well typed, in particular every task is at a stage of
\* its own kind.
THEOREM TypeSafety == Spec => []TypeOK
<1> QED
    BY TypeInit, TypeStep, PTL DEF Spec

-----------------------------------------------------------------------------
(* Sessions.  Until its owner is cancelled, a session that waits has the   *)
(* owner's node and its shutdown task; before that, the owner is run or    *)
(* next to be run.                                                         *)

OwnerRun(s) == \/ Has(s, owner[s])
               \/ pc[s] = "run" /\ todo[s] # <<>> /\ Head(todo[s]) = owner[s]

SafeSession(s) ==
    /\ pc[s] = "idle" \/ Over(s) => live[s] = {}
    /\ pc[s] = "returned" => token[owner[s]]
    /\ pc[s] \in {"run", "wait"} => token[owner[s]] \/ OwnerRun(s)
    /\ pc[s] = "wait" => token[owner[s]] \/ Shutdown(s) # {}

SessionInv == \A s \in Sessions : SafeSession(s)

LEMMA SessionInit == Init => SessionInv
BY DEF Init, SessionInv, SafeSession, Over

\* A session whose own state does not change, other than by losing no task that
\* matters, stays safe: tokens are never reset.
LEMMA SessionFrame ==
    ASSUME TypeOK, NEW r \in Sessions, SafeSession(r),
           pc'[r] = pc[r], owner'[r] = owner[r], todo'[r] = todo[r],
           \A a \in Agents : token[a] => token'[a],
           live[r] = {} => live'[r] = {},
           token'[owner[r]] \/ (/\ Has(r, owner[r]) => Has(r, owner[r])'
                                /\ Shutdown(r) # {} => Shutdown(r)' # {})
    PROVE  SafeSession(r)'
<1>1. pc[r] # "idle" => owner[r] \in Agents
    BY DEF TypeOK
<1>2. (pc[r] = "idle" \/ Over(r) => live[r] = {})'
    BY DEF SafeSession, Over
<1>3. (pc[r] = "returned" => token[owner[r]])'
    BY <1>1 DEF SafeSession
<1>4. (pc[r] \in {"run", "wait"} => token[owner[r]] \/ OwnerRun(r))'
    <2> SUFFICES ASSUME pc[r] \in {"run", "wait"}, ~token'[owner[r]]
                 PROVE  OwnerRun(r)'
        OBVIOUS
    <2>1. ~token[owner[r]] /\ OwnerRun(r)
        BY <1>1 DEF SafeSession
    <2>2. CASE Has(r, owner[r])
        BY <2>2 DEF OwnerRun
    <2>3. CASE ~Has(r, owner[r])
        BY <2>1, <2>3 DEF OwnerRun
    <2> QED
        BY <2>2, <2>3
<1>5. (pc[r] = "wait" => token[owner[r]] \/ Shutdown(r) # {})'
    BY <1>1 DEF SafeSession
<1> QED
    BY <1>2, <1>3, <1>4, <1>5 DEF SafeSession

LEMMA TokensStay ==
    ASSUME TypeOK, [Next]_vars
    PROVE  \A a \in Agents : token[a] => token'[a]
<1>1. ASSUME NEW b, Cancel(b) PROVE \A a \in Agents : token[a] => token'[a]
    BY <1>1 DEF Cancel, TypeOK
<1> QED
    BY <1>1 DEF Next, vars, NewClient, NewAdmin, WriteFile, Stop, Start, RunNext, End,
                BeginWait, Return, CtrlC, Acquire, UserReturns, TaskPanics, SeesCancel,
                ShutdownMessage

LEMMA SessionStep == TypeOK /\ SessionInv /\ [Next]_vars => SessionInv'
<1> SUFFICES ASSUME TypeOK, SessionInv, [Next]_vars, NEW r \in Sessions
             PROVE  SafeSession(r)'
    BY DEF SessionInv
<1>0. SafeSession(r)
    BY DEF SessionInv
<1>t. \A a \in Agents : token[a] => token'[a]
    BY TokensStay
<1>1. ASSUME UNCHANGED <<owner, pc, todo, live>> PROVE SafeSession(r)'
    BY <1>0, <1>t, <1>1, SessionFrame DEF Has, Shutdown
<1>2. ASSUME NEW s \in Sessions, NEW a \in Agents, NEW team \in Teams(s),
             Start(s, a, team)
      PROVE  SafeSession(r)'
    <2>1. CASE r = s
        <3>1. pc'[s] = "run" /\ owner'[s] = a /\ todo'[s] = <<a>> \o team
            BY <1>2 DEF Start, TypeOK
        <3> QED
            BY <2>1, <3>1, TeamIsSeq DEF SafeSession, OwnerRun, Over
    <2>2. CASE r # s
        <3>1. /\ pc'[r] = pc[r] /\ owner'[r] = owner[r] /\ todo'[r] = todo[r]
              /\ live'[r] = live[r]
            BY <1>2, <2>2 DEF Start, TypeOK
        <3> QED
            BY <1>0, <1>t, <3>1, SessionFrame DEF Has, Shutdown
    <2> QED
        BY <2>1, <2>2
<1>3. ASSUME NEW s \in Sessions, RunNext(s) PROVE SafeSession(r)'
    <2>1. CASE r = s
        <3> DEFINE a == Head(todo[s])
        <3>1. CASE a \in Admins \/ Dialable(Read(a))
            <4>1. /\ pc'[s] = "run" /\ owner'[s] = owner[s]
                  /\ live'[s] = live[s] \cup Tasks(a) /\ token' = token
                BY <1>3, <3>1 DEF RunNext, TypeOK
            <4>2. a = owner[s] => Has(s, owner[s])'
                BY <4>1 DEF Has, Tasks
            <4>3. Has(s, owner[s]) => Has(s, owner[s])'
                BY <4>1 DEF Has
            <4> QED
                BY <1>0, <1>3, <2>1, <4>1, <4>2, <4>3
                DEF SafeSession, OwnerRun, Over, RunNext
        <3>2. CASE ~(a \in Admins \/ Dialable(Read(a)))
            BY <1>3, <2>1, <3>2 DEF RunNext, End, SafeSession, Over, TypeOK
        <3> QED
            BY <3>1, <3>2
    <2>2. CASE r # s
        <3>1. /\ pc'[r] = pc[r] /\ owner'[r] = owner[r] /\ todo'[r] = todo[r]
              /\ live'[r] = live[r]
            BY <1>3, <2>2 DEF RunNext, End, TypeOK
        <3> QED
            BY <1>0, <1>t, <3>1, SessionFrame DEF Has, Shutdown
    <2> QED
        BY <2>1, <2>2
<1>4. ASSUME NEW s \in Sessions, BeginWait(s) PROVE SafeSession(r)'
    <2>1. CASE r = s
        <3>1. /\ pc'[s] = "wait" /\ owner'[s] = owner[s] /\ token' = token
              /\ live'[s] = live[s] \cup {<<owner[s], "shutdown", "waits">>}
              /\ pc[s] = "run" /\ todo[s] = <<>>
            BY <1>4 DEF BeginWait, TypeOK
        <3>2. <<owner[s], "shutdown", "waits">> \in Shutdown(s)'
            BY <3>1 DEF Shutdown
        <3> QED
            BY <1>0, <2>1, <3>1, <3>2 DEF SafeSession, OwnerRun, Has, Over
    <2>2. CASE r # s
        <3>1. /\ pc'[r] = pc[r] /\ owner'[r] = owner[r] /\ todo'[r] = todo[r]
              /\ live'[r] = live[r]
            BY <1>4, <2>2 DEF BeginWait, TypeOK
        <3> QED
            BY <1>0, <1>t, <3>1, SessionFrame DEF Has, Shutdown
    <2> QED
        BY <2>1, <2>2
<1>5. ASSUME NEW s \in Sessions, Return(s) \/ CtrlC(s) PROVE SafeSession(r)'
    <2>1. CASE r = s
        <3>1. pc[s] = "wait" /\ owner[s] \in Agents /\ token \in [Agents -> BOOLEAN]
            BY <1>5 DEF Return, CtrlC, TypeOK
        <3>2. CASE Return(s)
            <4>1. Has(s, owner[s]) => AllTasks(s) # {}
                BY DEF Has, AllTasks, Shutdown
            <4>2. token[owner[s]]
                BY <1>0, <2>1, <3>1, <3>2, <4>1 DEF Return, SafeSession, OwnerRun
            <4> QED
                BY <2>1, <3>2, <4>2 DEF Return, End, SafeSession, Over, TypeOK
        <3>3. CASE CtrlC(s)
            <4>1. token'[owner[s]] /\ pc'[s] = "returned" /\ live'[s] = {} /\ owner' = owner
                BY <3>1, <3>3 DEF CtrlC, Cancel, End, TypeOK
            <4> QED
                BY <2>1, <4>1 DEF SafeSession, Over
        <3> QED
            BY <1>5, <3>2, <3>3
    <2>2. CASE r # s
        <3>1. /\ pc'[r] = pc[r] /\ owner'[r] = owner[r] /\ todo'[r] = todo[r]
              /\ live'[r] = live[r]
            BY <1>5, <2>2 DEF Return, CtrlC, End, TypeOK
        <3> QED
            BY <1>0, <1>t, <3>1, SessionFrame DEF Has, Shutdown
    <2> QED
        BY <2>1, <2>2
<1>6. ASSUME NEW s \in Sessions, NEW t \in live[s], NEW stage, Move(s, t, stage),
             t[2] # "node", UNCHANGED <<owner, pc, todo>>
      PROVE  SafeSession(r)'
    <2>1. live'[r] = IF r = s THEN (live[s] \ {t}) \cup {<<t[1], t[2], stage>>} ELSE live[r]
        BY <1>6 DEF Move, TypeOK
    <2>2. \A a \in Agents : Has(r, a) => Has(r, a)'
        BY <1>6, <2>1 DEF Has
    <2>3. Shutdown(r) # {} => Shutdown(r)' # {}
        <3>1. ASSUME NEW u \in Shutdown(r) PROVE Shutdown(r)' # {}
            <4>1. u \in live[r] /\ u[2] = "shutdown"
                BY <3>1 DEF Shutdown
            <4>2. CASE r = s /\ u = t
                <5>1. <<t[1], t[2], stage>> \in live'[r] /\ t[2] = "shutdown"
                    BY <2>1, <4>1, <4>2
                <5> QED
                    BY <5>1 DEF Shutdown
            <4>3. CASE r # s \/ u # t
                BY <2>1, <4>1, <4>3 DEF Shutdown
            <4> QED
                BY <4>2, <4>3
        <3> QED
            BY <3>1
    <2>4. live[r] = {} => live'[r] = {}
        BY <2>1
    <2>5. pc[r] # "idle" => owner[r] \in Agents
        BY DEF TypeOK
    <2> QED
        BY <1>0, <1>t, <1>6, <2>2, <2>3, <2>4, <2>5, SessionFrame
        DEF SafeSession, OwnerRun, Over
<1>7. ASSUME NEW s \in Sessions, NEW t \in live[s], token'[owner[s]],
             live' = [live EXCEPT ![s] = @ \ {t}], UNCHANGED <<owner, pc, todo>>
      PROVE  SafeSession(r)'
    <2>1. live'[r] = IF r = s THEN live[s] \ {t} ELSE live[r]
        BY <1>7 DEF TypeOK
    <2> QED
        BY <1>0, <1>t, <1>7, <2>1, SessionFrame DEF Has, Shutdown
<1>8. ASSUME NEW s \in Sessions, NEW t \in live[s],
             Acquire(s, t) \/ UserReturns(s, t)
      PROVE  SafeSession(r)'
    <2>1. t \in Task
        BY DEF TypeOK
    <2>2. t[2] # "node"
        BY <1>8, <2>1, TaskFacts DEF Acquire, UserReturns
    <2> QED
        BY <1>6, <1>8, <2>2 DEF Acquire, UserReturns
<1>9. ASSUME NEW s \in Sessions, NEW t \in live[s], SeesCancel(s, t) PROVE SafeSession(r)'
    BY <1>7, <1>9 DEF SeesCancel
<1>10. ASSUME NEW s \in Sessions, ShutdownMessage(s) PROVE SafeSession(r)'
    <2>1. live[s] # {} /\ owner[s] \in Agents
        BY <1>10, TaskFacts DEF ShutdownMessage, TypeOK, Task
    <2>2. token'[owner[s]]
        BY <1>10, <2>1 DEF ShutdownMessage, Cancel, TypeOK
    <2> QED
        BY <1>7, <1>10, <2>2 DEF ShutdownMessage
<1>11. ASSUME NEW s \in Sessions, NEW t \in live[s], TaskPanics(s, t) PROVE SafeSession(r)'
    <2>1. /\ live'[r] = IF r = s THEN live[s] \ {t} ELSE live[r]
          /\ t[2] \in {"processor", "forwarder"} /\ UNCHANGED <<owner, pc, todo>>
        BY <1>11 DEF TaskPanics, TypeOK
    <2>2. Has(r, owner[r]) => Has(r, owner[r])'
        BY <2>1 DEF Has
    <2>3. Shutdown(r)' = Shutdown(r)
        BY <2>1 DEF Shutdown
    <2> QED
        BY <1>0, <1>t, <2>1, <2>2, <2>3, SessionFrame
<1> QED
    BY <1>1, <1>2, <1>3, <1>4, <1>5, <1>8, <1>9, <1>10, <1>11
    DEF Next, vars, NewClient, NewAdmin, WriteFile, Stop

\* Every reachable state satisfies what the sessions promise.
THEOREM SessionSafety == Spec => []SessionInv
<1> QED
    BY TypeInit, TypeStep, SessionInit, SessionStep, PTL DEF Spec

\* start returns only when its owner has been cancelled, whatever its workers and
\* the applications' runs do.
THEOREM ReturnSafety == Spec => []ReturnsOnlyWhenCancelled
<1>1. SessionInv => ReturnsOnlyWhenCancelled
    BY DEF SessionInv, SafeSession, ReturnsOnlyWhenCancelled
<1> QED
    BY <1>1, SessionSafety, PTL

-----------------------------------------------------------------------------
(* Locks.  Two sessions that run the same agent share its mutexes.         *)

\* A shutdown task is its owner's and is there while start waits; a mutex has one
\* holder, however many sessions its agent is in.
LockInv ==
    /\ \A s \in Sessions : \A t \in Shutdown(s) : t[1] = owner[s] /\ pc[s] = "wait"
    /\ \A r, s \in Sessions : \A a, kind :
            <<a, kind, "holds">> \in live[r] /\ <<a, kind, "holds">> \in live[s] => r = s

\* A step gives a session a task that holds a lock only if nobody held it, and
\* then it leaves the other sessions' tasks alone.
LEMMA HoldersComeOneByOne ==
    ASSUME TypeOK, [Next]_vars, NEW r \in Sessions, NEW a, NEW kind,
           <<a, kind, "holds">> \in live'[r], <<a, kind, "holds">> \notin live[r]
    PROVE  Free(a, kind) /\ \A q \in Sessions \ {r} : live'[q] = live[q]
<1> DEFINE h == <<a, kind, "holds">>
<1>1. live' # live
    OBVIOUS
<1>2. ASSUME NEW s \in Sessions, NEW c \in Agents, NEW team \in Teams(s), Start(s, c, team)
      PROVE  FALSE
    BY <1>1, <1>2 DEF Start
<1>3. ASSUME NEW s \in Sessions,
             RunNext(s) \/ BeginWait(s) \/ Return(s) \/ CtrlC(s) \/ ShutdownMessage(s)
      PROVE  FALSE
    <2>1. CASE RunNext(s)
        <3>a. \/ live' = [live EXCEPT ![s] = live[s] \cup Tasks(Head(todo[s]))]
              \/ live' = [live EXCEPT ![s] = {}]
            BY <2>1 DEF RunNext, End
        <3>1. live'[r] \subseteq live[r] \cup Tasks(Head(todo[s]))
            BY <3>a DEF TypeOK
        <3> QED
            BY <3>1 DEF Tasks
    <2>2. CASE BeginWait(s)
        <3>1. live'[r] \subseteq live[r] \cup {<<owner[s], "shutdown", "waits">>}
            BY <2>2 DEF BeginWait, TypeOK
        <3> QED
            BY <3>1
    <2>3. CASE Return(s) \/ CtrlC(s) \/ ShutdownMessage(s)
        BY <2>3 DEF Return, CtrlC, ShutdownMessage, End, TypeOK
    <2> QED
        BY <1>3, <2>1, <2>2, <2>3
<1>4. ASSUME NEW s \in Sessions, NEW t \in live[s],
             UserReturns(s, t) \/ SeesCancel(s, t) \/ TaskPanics(s, t)
      PROVE  FALSE
    <2>1. CASE UserReturns(s, t)
        <3>1. live'[r] \subseteq live[r] \cup {<<t[1], t[2], "polls">>}
            BY <2>1 DEF UserReturns, Move, TypeOK
        <3> QED
            BY <3>1
    <2>2. CASE SeesCancel(s, t) \/ TaskPanics(s, t)
        BY <2>2 DEF SeesCancel, TaskPanics, TypeOK
    <2> QED
        BY <1>4, <2>1, <2>2
<1>5. ASSUME NEW s \in Sessions, NEW t \in live[s], Acquire(s, t)
      PROVE  Free(a, kind) /\ \A q \in Sessions \ {r} : live'[q] = live[q]
    <2>1. live' = [live EXCEPT ![s] = (live[s] \ {t}) \cup {<<t[1], t[2], "holds">>}]
        BY <1>5 DEF Acquire, Move
    <2>2. \A q \in Sessions : live'[q] =
              IF q = s THEN (live[s] \ {t}) \cup {<<t[1], t[2], "holds">>} ELSE live[q]
        BY <2>1 DEF TypeOK
    <2>3. r = s /\ h = <<t[1], t[2], "holds">>
        BY <2>2
    <2> QED
        BY <1>5, <2>2, <2>3 DEF Acquire
<1> QED
    BY <1>1, <1>2, <1>3, <1>4, <1>5
    DEF Next, vars, NewClient, NewAdmin, WriteFile, Stop

\* A step gives a session a shutdown task when start begins to wait; otherwise
\* there is one only if there was one, and start still waits.
LEMMA ShutdownStep ==
    ASSUME TypeOK, LockInv, [Next]_vars, NEW s \in Sessions, NEW t \in Shutdown(s)'
    PROVE  t[1] = owner'[s] /\ pc'[s] = "wait"
<1> USE DEF Shutdown
<1>0. t \in live'[s] /\ t[2] = "shutdown"
    OBVIOUS
<1>k. ASSUME pc'[s] = pc[s], owner'[s] = owner[s],
             \E u \in live[s] : u[1] = t[1] /\ u[2] = "shutdown"
      PROVE  t[1] = owner'[s] /\ pc'[s] = "wait"
    BY <1>k DEF LockInv
<1>1. ASSUME UNCHANGED <<owner, pc, live>> PROVE t[1] = owner'[s] /\ pc'[s] = "wait"
    BY <1>0, <1>1, <1>k
<1>2. ASSUME NEW r \in Sessions, NEW c \in Agents, NEW team \in Teams(r), Start(r, c, team)
      PROVE  t[1] = owner'[s] /\ pc'[s] = "wait"
    <2>1. r # s
        BY <1>0, <1>2 DEF Start, LockInv
    <2> QED
        BY <1>0, <1>2, <1>k, <2>1 DEF Start, TypeOK
<1>3. ASSUME NEW r \in Sessions, RunNext(r) PROVE t[1] = owner'[s] /\ pc'[s] = "wait"
    <2>1. t \in live[s] /\ owner' = owner
        <3>1. live'[s] \subseteq live[s] \cup Tasks(Head(todo[r])) /\ owner' = owner
            BY <1>3 DEF RunNext, End, TypeOK
        <3> QED
            BY <1>0, <3>1 DEF Tasks
    <2>2. pc'[s] = pc[s]
        <3>1. CASE r = s
            BY <1>0, <1>3, <2>1, <3>1 DEF RunNext, LockInv
        <3>2. CASE r # s
            BY <1>3, <3>2 DEF RunNext, End, TypeOK
        <3> QED
            BY <3>1, <3>2
    <2> QED
        BY <1>0, <1>k, <2>1, <2>2
<1>4. ASSUME NEW r \in Sessions, BeginWait(r) PROVE t[1] = owner'[s] /\ pc'[s] = "wait"
    <2>1. CASE r = s
        <3>1. pc'[s] = "wait" /\ owner' = owner
            BY <1>4, <2>1 DEF BeginWait, TypeOK
        <3>2. t = <<owner[s], "shutdown", "waits">> \/ t \in live[s]
            BY <1>0, <1>4, <2>1 DEF BeginWait, TypeOK
        <3> QED
            BY <1>0, <3>1, <3>2 DEF LockInv
    <2>2. CASE r # s
        BY <1>0, <1>4, <1>k, <2>2 DEF BeginWait, TypeOK
    <2> QED
        BY <2>1, <2>2
<1>5. ASSUME NEW r \in Sessions, Return(r) \/ CtrlC(r)
      PROVE  t[1] = owner'[s] /\ pc'[s] = "wait"
    <2>1. r # s
        BY <1>0, <1>5 DEF Return, CtrlC, End, TypeOK
    <2> QED
        BY <1>0, <1>5, <1>k, <2>1 DEF Return, CtrlC, End, TypeOK
<1>6. ASSUME NEW r \in Sessions, NEW u \in live[r], Acquire(r, u) \/ UserReturns(r, u)
      PROVE  t[1] = owner'[s] /\ pc'[s] = "wait"
    <2>1. PICK stage : live' = [live EXCEPT ![r] = (live[r] \ {u}) \cup {<<u[1], u[2], stage>>}]
        BY <1>6 DEF Acquire, UserReturns, Move
    <2>2. live'[s] = IF s = r THEN (live[r] \ {u}) \cup {<<u[1], u[2], stage>>} ELSE live[s]
        BY <2>1 DEF TypeOK
    <2>3. t \in live[s] \/ (s = r /\ t = <<u[1], u[2], stage>>)
        BY <1>0, <2>2
    <2>4. \E v \in live[s] : v[1] = t[1] /\ v[2] = "shutdown"
        <3>1. CASE t \in live[s]
            BY <1>0, <3>1
        <3>2. CASE s = r /\ t = <<u[1], u[2], stage>>
            <4>1. t[1] = u[1] /\ t[2] = u[2]
                BY <3>2
            <4> QED
                BY <1>0, <3>2, <4>1
        <3> QED
            BY <2>3, <3>1, <3>2
    <2>5. pc' = pc /\ owner' = owner
        BY <1>6 DEF Acquire, UserReturns
    <2> QED
        BY <1>k, <2>4, <2>5
<1>7. ASSUME NEW r \in Sessions,
             \/ ShutdownMessage(r)
             \/ \E u \in live[r] : SeesCancel(r, u) \/ TaskPanics(r, u)
      PROVE  t[1] = owner'[s] /\ pc'[s] = "wait"
    <2>1. t \in live[s] /\ UNCHANGED <<owner, pc>>
        <3>1. \E u : live' = [live EXCEPT ![r] = @ \ {u}] /\ UNCHANGED <<owner, pc>>
            BY <1>7 DEF ShutdownMessage, SeesCancel, TaskPanics
        <3> QED
            BY <1>0, <3>1 DEF TypeOK
    <2> QED
        BY <1>0, <1>k, <2>1
<1> QED
    BY <1>1, <1>2, <1>3, <1>4, <1>5, <1>6, <1>7
    DEF Next, vars, NewClient, NewAdmin, WriteFile, Stop

\* A mutex has one holder, whichever sessions its agent is in, and a shutdown task
\* is that of the owner of a start that waits (uniffied_agent.rs:268-293, 522-560).
THEOREM LockSafety == Spec => []LockInv
<1>1. Init => LockInv
    BY DEF Init, LockInv, Shutdown
<1>2. TypeOK /\ LockInv /\ [Next]_vars => LockInv'
    <2> SUFFICES ASSUME TypeOK, LockInv, [Next]_vars PROVE LockInv'
        OBVIOUS
    <2>1. ASSUME NEW r \in Sessions, NEW s \in Sessions, NEW a, NEW kind, r # s,
                 <<a, kind, "holds">> \in live'[r], <<a, kind, "holds">> \in live'[s]
          PROVE  FALSE
        <3>1. <<a, kind, "holds">> \notin live[r] \/ <<a, kind, "holds">> \notin live[s]
            BY <2>1 DEF LockInv
        <3>2. CASE <<a, kind, "holds">> \notin live[r]
            BY <2>1, <3>2, HoldersComeOneByOne DEF Free
        <3>3. CASE <<a, kind, "holds">> \notin live[s]
            BY <2>1, <3>3, HoldersComeOneByOne DEF Free
        <3> QED
            BY <3>1, <3>2, <3>3
    <2> QED
        BY <2>1, ShutdownStep DEF LockInv
<1> QED
    BY <1>1, <1>2, TypeInit, TypeStep, PTL DEF Spec

\* No start that is cancelled waits on a circle of locks: the lock of a shutdown
\* task is held by a start with the same token (uniffied_agent.rs:268-313).
THEOREM NoLockCircle == Spec => []NoWaitingInCircles
<1>1. TypeOK /\ LockInv => NoWaitingInCircles
    <2> SUFFICES ASSUME TypeOK, LockInv, NEW s \in Sessions, token[owner[s]],
                        Shutdown(s) # {},
                        <<owner[s], "shutdown", "holds">> \notin live[s]
                 PROVE  MayEnd(s)
        BY DEF MayEnd, NoWaitingInCircles
    <2>1. PICK t \in live[s] : t[2] = "shutdown" /\ t[1] = owner[s]
        BY DEF Shutdown, LockInv
    <2>2. t = <<owner[s], "shutdown", "waits">>
        <3>1. live[s] \subseteq Task
            BY DEF TypeOK
        <3>2. t = <<t[1], t[2], t[3]>> /\ t[3] \in {"waits", "holds"}
            BY <2>1, <3>1, TaskFacts DEF Task
        <3> QED
            BY <2>1, <3>2
    <2>3. CASE Free(owner[s], "shutdown")
        BY <2>2, <2>3 DEF MayEnd
    <2>4. ASSUME NEW r \in Sessions, <<owner[s], "shutdown", "holds">> \in live[r]
          PROVE  MayEnd(s)
        <3>1. r # s /\ owner[r] = owner[s] /\ pc[r] = "wait"
            BY <2>4 DEF LockInv, Shutdown
        <3>2. \A q \in Sessions \ {r} : <<owner[s], "shutdown", "holds">> \notin live[q]
            BY <2>4 DEF LockInv
        <3> QED
            BY <2>4, <3>1, <3>2 DEF MayEnd
    <2> QED
        BY <2>3, <2>4 DEF Free
<1> QED
    BY <1>1, LockSafety, TypeSafety, PTL

=============================================================================
