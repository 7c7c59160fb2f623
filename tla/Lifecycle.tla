----------------------------- MODULE Lifecycle -----------------------------
(***************************************************************************)
(* Agents from `new' to the end of `start' (uniffied_agent.rs).  A call of *)
(* start is a session: it makes a tokio runtime, runs its owner and then   *)
(* each worker on it, all under the OWNER's cancellation token, and ends   *)
(* with the runtime, which takes every task left with it.  Agents share    *)
(* the file .ceylon_network, and an agent that runs in two sessions shares *)
(* its receivers and its processor, each behind a mutex.                   *)
(*                                                                         *)
(* A task is <<agent, kind, stage>>.  "node" stands for the peer, the      *)
(* listener and the holder, which share their life; AgentNode has their    *)
(* inside.  Sessions may be in different processes of one directory.       *)
(***************************************************************************)
EXTENDS NetworkConfig, Naturals, Sequences

CONSTANTS
    Admins, Clients,
    Sessions,    \* bound: calls of start
    MaxTeam,     \* bound: workers given to a call of start
    Given,       \* per agent, the configurations it may be constructed with
    FileReaders, \* agents with the default config_path; another path has no file
    FirstFiles   \* what a program or a hand may have left in .ceylon_network

Agents == Admins \cup Clients

ASSUME LifecycleAssumption ==
    /\ Admins \cap Clients = {}
    /\ None \notin Agents
    /\ MaxTeam \in [Sessions -> Nat]

\* Ports are numbers by their type.  Nothing else about a configuration, and
\* nothing about a file that was there before, is checked or assumed.
ASSUME ConfigAssumption ==
    /\ Admins \subseteq PeerIds
    /\ "127.0.0.1" \in Addresses
    /\ \A a \in Agents : \A g \in Given[a] : IsConfig(g)

VARIABLES
    file,     \* .ceylon_network
    built,    \* the agents whose constructor has returned
    config,   \* _config of an agent
    writing,  \* the admins between the truncation and the writing of the file
    overlapped, \* history: the writes of two constructors have overlapped
    token,    \* _cancel_token.is_cancelled()
    owner,    \* the agent whose start this session is
    pc,       \* where start is
    todo,     \* the agents it has yet to run
    live,     \* the tasks on its runtime
    network   \* what an agent's last run listens on or dials

vars == <<file, built, config, writing, overlapped, token, owner, pc, todo, live,
          network>>
fileVars == <<file, built, config, writing, overlapped>>
sessionVars == <<owner, pc, todo, network>>

\* Mutant: every run spawns a shutdown task, under the token it is given.
Tasks_WithShutdown(a) ==
    {<<a, "node", "on">>, <<a, "processor", "waits">>,
     <<a, "forwarder", "waits">>, <<a, "shutdown", "waits">>}

\* What run() spawns; start adds the shutdown task of the owner.
Tasks(a) == {<<a, "node", "on">>, <<a, "processor", "waits">>,
             <<a, "forwarder", "waits">>}

Task == Agents \X {"node"} \X {"on"}
            \cup Agents \X {"processor"} \X {"waits", "holds", "polls"}
            \cup Agents \X {"forwarder", "shutdown"} \X {"waits", "holds"}

TypeOK ==
    /\ built \subseteq Agents
    /\ config = [a \in Agents |-> config[a]]
    /\ \A a \in Agents : a \in built \cup writing => IsConfig(config[a])
    /\ writing \subseteq Admins
    /\ overlapped \in BOOLEAN
    /\ token \in [Agents -> BOOLEAN]
    /\ owner \in [Sessions -> Agents \cup {None}]
    /\ \A s \in Sessions : pc[s] # "idle" => owner[s] \in Agents
    /\ pc \in [Sessions -> {"idle", "run", "wait", "returned", "panicked"}]
    /\ todo \in [Sessions -> Seq(Agents)]
    /\ live \in [Sessions -> SUBSET Task]
    /\ network = [a \in Agents |-> network[a]]

Init ==
    /\ file \in FirstFiles \cup {EmptyFile}
    /\ built = {}
    /\ config = [a \in Agents |-> EmptyFile]
    /\ writing = {}
    /\ overlapped = FALSE
    /\ token = [a \in Agents |-> FALSE]
    /\ owner = [s \in Sessions |-> None]
    /\ pc = [s \in Sessions |-> "idle"]
    /\ todo = [s \in Sessions |-> <<>>]
    /\ live = [s \in Sessions |-> {}]
    /\ network = [a \in Agents |-> None]

-----------------------------------------------------------------------------
(* UnifiedAgent::new.  Nothing keeps the constructors of two admins apart. *)

NewClient(c) ==
    /\ c \notin built
    /\ built' = built \cup {c}
    /\ \E given \in Given[c] : config' = [config EXCEPT ![c] = given]
    /\ UNCHANGED <<file, writing, overlapped, token, live, sessionVars>>

\* The configuration an admin writes: what it was given, with its own id.
WithId(a, given) == [given EXCEPT !["WORKSPACE_PEER"] = a]

\* Mutant: the file is opened without being truncated.
NewAdmin_KeepsFile(a) ==
    /\ a \notin built \cup writing
    /\ \E given \in Given[a] :
        /\ Writable(WithId(a, given))
        /\ config' = [config EXCEPT ![a] = WithId(a, given)]
    /\ writing' = writing \cup {a}
    /\ overlapped' = (overlapped \/ writing # {})
    /\ UNCHANGED <<file, built, token, live, sessionVars>>

\* fs::write truncates the file before it writes.  Without a port or a workspace
\* the constructor panics before it touches the file, and there is no agent.
NewAdmin(a) ==
    /\ a \notin built \cup writing
    /\ \E given \in Given[a] :
        /\ Writable(WithId(a, given))
        /\ config' = [config EXCEPT ![a] = WithId(a, given)]
    /\ file' = EmptyFile
    /\ writing' = writing \cup {a}
    /\ overlapped' = (overlapped \/ writing # {})
    /\ UNCHANGED <<built, token, live, sessionVars>>

\* A file that is no longer empty is written over from its beginning.
WriteFile(a) ==
    /\ a \in writing
    /\ file' \in Overwritten(file, Written(config[a]))
    /\ writing' = writing \ {a}
    /\ built' = built \cup {a}
    /\ UNCHANGED <<config, overlapped, token, live, sessionVars>>

-----------------------------------------------------------------------------
(* start *)

Teams(s) == UNION {[1..n -> Clients] : n \in 0..MaxTeam[s]}

\* The workers are other agents than the owner, each listed once.
Start(s, a, team) ==
    /\ pc[s] = "idle"
    /\ a \in built
    /\ \A i \in DOMAIN team : team[i] \in built \ {a}
    /\ \A i, j \in DOMAIN team : team[i] = team[j] => i = j
    /\ owner' = [owner EXCEPT ![s] = a]
    /\ todo' = [todo EXCEPT ![s] = <<a>> \o team]
    /\ pc' = [pc EXCEPT ![s] = "run"]
    /\ UNCHANGED <<fileVars, token, live, network>>

Read(a) == Updated(config[a], IF a \in FileReaders THEN file ELSE EmptyFile)

\* start is left, by a return or a panic: the runtime is dropped with its tasks.
End(s, how) ==
    /\ pc' = [pc EXCEPT ![s] = how]
    /\ live' = [live EXCEPT ![s] = {}]
    /\ UNCHANGED <<fileVars, owner, todo, network>>

\* run(): read the file, build the peer, spawn the tasks.  What a client cannot
\* parse panics and unwinds start, which ends the agents already run as well.
RunNext(s) ==
    /\ pc[s] = "run"
    /\ todo[s] # <<>>
    /\ UNCHANGED token
    /\ LET a == Head(todo[s]) IN
       IF a \in Admins \/ Dialable(Read(a))
       THEN /\ live' = [live EXCEPT ![s] = @ \cup Tasks(a)]
            /\ network' = [network EXCEPT ![a] =
                   IF a \in Admins THEN Listens(Read(a)) ELSE Dials(Read(a))]
            /\ todo' = [todo EXCEPT ![s] = Tail(@)]
            /\ UNCHANGED <<fileVars, owner, pc>>
       ELSE End(s, "panicked")

\* task_shutdown is spawned and start waits in its select.
BeginWait(s) ==
    /\ pc[s] = "run"
    /\ todo[s] = <<>>
    /\ pc' = [pc EXCEPT ![s] = "wait"]
    /\ live' = [live EXCEPT ![s] = @ \cup {<<owner[s], "shutdown", "waits">>}]
    /\ UNCHANGED <<fileVars, token, owner, todo, network>>

Shutdown(s) == {t \in live[s] : t[2] = "shutdown"}
AllTasks(s) == live[s] \ Shutdown(s)

\* Mutant: start waits for the tasks, as the disabled all_tasks.await would.
Return_AfterAllTasks(s) ==
    /\ pc[s] = "wait"
    /\ live[s] = {}
    /\ End(s, "returned")
    /\ UNCHANGED token

\* Mutant: start is done when every processor's run is.
Return_AfterProcessors(s) ==
    /\ pc[s] = "wait"
    /\ Shutdown(s) = {} \/ \A t \in AllTasks(s) : t[2] = "processor" => t[3] = "polls"
    /\ End(s, "returned")
    /\ UNCHANGED token

\* The select: the shutdown task is done, or all tasks of the agents are.
Return(s) ==
    /\ pc[s] = "wait"
    /\ Shutdown(s) = {} \/ AllTasks(s) = {}
    /\ End(s, "returned")
    /\ UNCHANGED token

Cancel(a) == token' = [token EXCEPT ![a] = TRUE]

CtrlC(s) ==
    /\ pc[s] = "wait"
    /\ Cancel(owner[s])
    /\ End(s, "returned")

-----------------------------------------------------------------------------
(* The tasks of a session *)

Free(a, kind) == \A s \in Sessions : <<a, kind, "holds">> \notin live[s]

Move(s, t, stage) ==
    live' = [live EXCEPT ![s] = (@ \ {t}) \cup {<<t[1], t[2], stage>>}]

\* Mutant: a task that does not wait for the lock takes it.
Acquire_Anytime(s, t) ==
    /\ t \in live[s]
    /\ Free(t[1], t[2])
    /\ Move(s, t, "holds")
    /\ UNCHANGED <<fileVars, token, sessionVars>>

\* The lock is awaited outside any select: a cancellation does not end the wait.
Acquire(s, t) ==
    /\ t \in live[s]
    /\ t[3] = "waits"
    /\ Free(t[1], t[2])
    /\ Move(s, t, "holds")
    /\ UNCHANGED <<fileVars, token, sessionVars>>

\* The application's run returns; the processor task looks at the token only now.
UserReturns(s, t) ==
    /\ t \in live[s]
    /\ t[2] = "processor"
    /\ t[3] = "holds"
    /\ Move(s, t, "polls")
    /\ UNCHANGED <<fileVars, token, sessionVars>>

SeesCancel(s, t) ==
    /\ t \in live[s]
    /\ token[owner[s]]
    /\ IF t[2] = "processor" THEN t[3] = "polls" ELSE t[3] \in {"on", "holds"}
    /\ live' = [live EXCEPT ![s] = @ \ {t}]
    /\ UNCHANGED <<fileVars, token, sessionVars>>

\* The forwarder's peer has panicked, or the application's run panics: the task ends
\* and gives its lock back, and its JoinHandle keeps the panic to itself.
TaskPanics(s, t) ==
    /\ t \in live[s]
    /\ t[2] \in {"processor", "forwarder"}
    /\ t[3] = "holds"
    /\ live' = [live EXCEPT ![s] = @ \ {t}]
    /\ UNCHANGED <<fileVars, token, sessionVars>>

\* The owner's own id arrives through shutdown_send, which is public.
ShutdownMessage(s) ==
    LET t == <<owner[s], "shutdown", "holds">> IN
    /\ t \in live[s]
    /\ Cancel(owner[s])
    /\ live' = [live EXCEPT ![s] = @ \ {t}]
    /\ UNCHANGED <<fileVars, sessionVars>>

\* stop() cancels the token of the agent it is called on, and nothing else: the
\* sender that cleanup() drops is a clone.
Stop(a) ==
    /\ a \in built
    /\ ~token[a]
    /\ Cancel(a)
    /\ UNCHANGED <<fileVars, live, sessionVars>>

-----------------------------------------------------------------------------
Next ==
    \/ \E c \in Clients : NewClient(c)
    \/ \E a \in Admins : NewAdmin(a) \/ WriteFile(a)
    \/ \E a \in Agents : Stop(a)
    \/ \E s \in Sessions :
        \/ \E a \in Agents, team \in Teams(s) : Start(s, a, team)
        \/ RunNext(s)
        \/ BeginWait(s)
        \/ Return(s)
        \/ CtrlC(s)
        \/ ShutdownMessage(s)
        \/ \E t \in live[s] :
            Acquire(s, t) \/ UserReturns(s, t) \/ TaskPanics(s, t) \/ SeesCancel(s, t)

Spec == Init /\ [][Next]_vars

\* start makes progress and tokio polls its tasks; the mutexes are FIFO queues,
\* hence strong fairness for the waiting tasks of a session, which are finitely
\* many.  Nothing makes the application's run return.
Fairness ==
    /\ \A a \in Admins : WF_vars(WriteFile(a))
    /\ \A s \in Sessions :
        /\ WF_vars(RunNext(s) \/ BeginWait(s) \/ Return(s))
        /\ SF_vars(\E t \in live[s] : Acquire(s, t))
        /\ WF_vars(\E t \in live[s] : SeesCancel(s, t))

FairSpec == Spec /\ Fairness

-----------------------------------------------------------------------------
(* Properties *)

Over(s) == pc[s] \in {"returned", "panicked"}

\* start returns for a cancellation of its owner only: not because an
\* application's run is over, nor because a worker was stopped
\* (uniffied_agent.rs:293-313).
ReturnsOnlyWhenCancelled ==
    \A s \in Sessions : pc[s] = "returned" => token[owner[s]]

Has(s, a) == <<a, "node", "on">> \in live[s]

\* What a cancelled start waits for: nothing (the guard of Return), its own shutdown
\* task, which has the lock (SeesCancel) or can take it (Acquire), or that of the
\* one start which has it, which sees the same cancellation (SeesCancel there).
MayEnd(s) ==
    \/ Shutdown(s) = {}
    \/ <<owner[s], "shutdown", "holds">> \in live[s]
    \/ <<owner[s], "shutdown", "waits">> \in live[s] /\ Free(owner[s], "shutdown")
    \/ \E r \in Sessions \ {s} :
            /\ <<owner[s], "shutdown", "holds">> \in live[r]
            /\ token[owner[r]]
            /\ pc[r] = "wait"
            /\ \A q \in Sessions \ {r} : <<owner[s], "shutdown", "holds">> \notin live[q]

\* No start that is cancelled waits on a circle of locks: the lock of its shutdown
\* task is free, its own, or held by a start with the same token, whichever other
\* starts the agents take part in (uniffied_agent.rs:268-313).
NoWaitingInCircles == \A s \in Sessions : pc[s] = "wait" /\ token[owner[s]] => MayEnd(s)

\* While there is one admin, the clients it starts that read the file dial the id,
\* the port and the workspace it listens with, whatever they were given and whatever
\* file was there before (uniffied_agent.rs:164-169, 323-361).
WorkersJoinTheirAdmin ==
    \A s \in Sessions, c \in Clients \cap FileReaders :
        LET o == owner[s] IN
        Has(s, c) /\ o \in Admins /\ Has(s, o) =>
            \/ /\ network[c].peer = o
               /\ network[c].port = network[o].port
               /\ network[c].workspace = network[o].workspace
            \/ (built \cup writing) \cap Admins # {o}

Adverts == {Written(config[a]) : a \in built \cap Admins} \cup FirstFiles

\* A client dials what it was given, or that with the lines of ONE file over it: of
\* an admin's or of what was there before.  Only the writes of two constructors that
\* overlap can mix two files (uniffied_agent.rs:80-102, 164-169).
WholeTarget ==
    \A c \in Clients :
        network[c] # None =>
            \/ overlapped
            \/ network[c] \in {Dials(Updated(config[c], f)) : f \in Adverts \cup {EmptyFile}}

\* A client that finds the file as an admin wrote it panics in run for one reason,
\* that the admin was given an address that does not parse, which nothing checks:
\* whatever else the client or the admin were given, the file has every line that
\* run unwraps (uniffied_agent.rs:86-96, 360; node.rs:66, 77).
AdvertSuffices ==
    [][\A s \in Sessions, a \in built \cap Admins :
        pc[s] # "panicked" /\ pc'[s] = "panicked" =>
            \/ Head(todo[s]) \notin FileReaders
            \/ file # Written(config[a])
            \/ config[a]["WORKSPACE_IP"] \notin Addresses \cup {None}]_vars

\* Once its owner is cancelled, before or after it began, start ends, and with it
\* every task, even of an application whose run never returns.
StartReturns ==
    \A s \in Sessions :
        pc[s] # "idle" /\ token[owner[s]] ~> Over(s) /\ live[s] = {}

\* "Stop workers: for worker in workers: await worker.stop()"
\* (docs/core-concepts.md:277-280): a stopped agent's tasks end.
StopEndsTheAgent ==
    \A s \in Sessions, a \in Agents : token[a] /\ Has(s, a) ~> ~Has(s, a)

=============================================================================
