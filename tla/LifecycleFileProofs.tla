------------------------ MODULE LifecycleFileProofs ------------------------
(* Theorems about Lifecycle: what the shared file makes of an agent.       *)
EXTENDS LifecycleProofs

USE DEF sessionVars, fileVars

\* A file with every line replaces whatever configuration its reader had.
LEMMA CompleteReplaces ==
    ASSUME NEW c, NEW f, IsConfig(f)
    PROVE  Updated(c, f) = f
BY DEF IsConfig, Updated, Parsed, Keys

\* A missing or truncated file changes nothing.
LEMMA EmptyKeeps ==
    ASSUME NEW c, IsConfig(c)
    PROVE  Updated(c, EmptyFile) = c
BY DEF IsConfig, Updated, EmptyFile

\* What an admin writes has every line: its own, but for the address.
LEMMA WrittenLines ==
    ASSUME NEW c, IsConfig(c)
    PROVE  /\ IsConfig(Written(c))
           /\ \A k \in Keys \ {"WORKSPACE_IP"} : Written(c)[k] = c[k]
           /\ Written(c)["WORKSPACE_IP"] = Default(c["WORKSPACE_IP"], "127.0.0.1")
BY DEF IsConfig, Written, Keys

\* A file that is empty is written, not written over.
LEMMA EmptyIsWritten ==
    ASSUME NEW new
    PROVE  Overwritten(EmptyFile, new) = {new}
BY DEF Overwritten

AdminReady(a) ==
    /\ Writable(config[a])
    /\ config[a]["WORKSPACE_PEER"] = a

\* The admins whose constructors have begun.
Constructed == (built \cup writing) \cap Admins
Alone(o) == Constructed = {o}

\* Unless two constructors overlapped, the file is what one of them wrote, or what
\* was there before; of an admin that is alone, the file is its own.
OneWriter ==
    /\ overlapped => \E a, b \in Constructed : a # b
    /\ ~overlapped =>
        /\ file \in {EmptyFile} \cup Adverts
        /\ \A a, b \in writing : a = b
        /\ writing # {} => file = EmptyFile
    /\ \A o \in built \cap Admins : Alone(o) => file = Written(config[o])

\* What the agents of a session that has an admin alone have read.
ReadInv ==
    /\ \A s \in Sessions, o \in Admins :
            Has(s, o) /\ Alone(o) => network[o] = Listens(config[o])
    /\ \A s \in Sessions, c \in Clients \cap FileReaders :
            Has(s, c) /\ owner[s] \in Admins /\ Alone(owner[s]) =>
                network[c] = Dials(Written(config[owner[s]]))

BuiltInv ==
    /\ \A s \in Sessions : pc[s] # "idle" =>
            owner[s] \in built /\ \A i \in DOMAIN todo[s] : todo[s][i] \in built
    /\ \A s \in Sessions, a \in Agents : Has(s, a) => a \in built
    /\ \A c \in Clients : network[c] # None => c \in built

FileInv ==
    /\ built \cap writing = {}
    /\ \A a \in Constructed : AdminReady(a)
    /\ OneWriter
    /\ BuiltInv
    /\ ReadInv
    /\ WholeTarget

\* A client that is run with an admin that is alone, and what they agree on.
LEMMA ReadersJoin == TypeOK /\ FileInv => WorkersJoinTheirAdmin
<1> SUFFICES ASSUME TypeOK, FileInv, NEW s \in Sessions, NEW c \in Clients \cap FileReaders,
                    Has(s, c), owner[s] \in Admins, Has(s, owner[s]), Alone(owner[s])
             PROVE  /\ network[c].peer = owner[s]
                    /\ network[c].port = network[owner[s]].port
                    /\ network[c].workspace = network[owner[s]].workspace
    BY DEF WorkersJoinTheirAdmin, Alone, Constructed
<1> DEFINE o == owner[s]
<1>1. network[o] = Listens(config[o]) /\ network[c] = Dials(Written(config[o]))
    BY DEF FileInv, ReadInv
<1>2. IsConfig(config[o]) /\ config[o]["WORKSPACE_PEER"] = o
    BY DEF TypeOK, FileInv, AdminReady, Alone, Constructed, Agents
<1>3. \A k \in {"WORKSPACE_ID", "WORKSPACE_PEER", "WORKSPACE_PORT"} :
          Written(config[o])[k] = config[o][k]
    BY <1>2, WrittenLines DEF Keys
<1> QED
    BY <1>1, <1>2, <1>3 DEF Listens, Dials

LEMMA FileInit == Init => FileInv
<1> SUFFICES ASSUME Init PROVE FileInv
    OBVIOUS
<1>1. Constructed = {}
    BY DEF Init, Constructed
<1>2. \A c \in Clients : network[c] = None
    BY DEF Init, Agents
<1>3. \A s \in Sessions : \A a : ~Has(s, a)
    BY DEF Init, Has
<1> QED
    BY <1>1, <1>2, <1>3
    DEF Init, FileInv, OneWriter, BuiltInv, ReadInv, Adverts, WholeTarget, Alone

\* Constructors leave the configurations of constructed agents alone.
LEMMA BuiltStays ==
    ASSUME TypeOK, FileInv, [Next]_vars
    PROVE  /\ \A a \in built : a \in built' /\ config'[a] = config[a]
           /\ Adverts \subseteq Adverts'
<1>1. \A a \in built : a \in built' /\ config'[a] = config[a]
    <2>1. ASSUME NEW a \in Agents, NewClient(a) \/ NewAdmin(a)
          PROVE  built \subseteq built' /\ \A b \in built : config'[b] = config[b]
        <3>1. a \notin built /\ built \subseteq built' /\ \E c : config' = [config EXCEPT ![a] = c]
            BY <2>1 DEF NewClient, NewAdmin
        <3>2. built \subseteq Agents /\ DOMAIN config = Agents
            BY DEF TypeOK
        <3> QED
            BY <3>1, <3>2
    <2>2. ASSUME NEW a \in Agents, WriteFile(a) \/ Stop(a)
          PROVE  built \subseteq built' /\ config' = config
        BY <2>2 DEF WriteFile, Stop, fileVars
    <2>3. ASSUME NEW s \in Sessions,
                 \/ \E a \in Agents, team \in Teams(s) : Start(s, a, team)
                 \/ RunNext(s)
          PROVE  built' = built /\ config' = config
        BY <2>3 DEF Start, RunNext, End, fileVars
    <2>4. ASSUME NEW s \in Sessions,
                 \/ BeginWait(s) \/ Return(s) \/ CtrlC(s) \/ ShutdownMessage(s)
                 \/ \E t \in live[s] :
                      Acquire(s, t) \/ UserReturns(s, t) \/ TaskPanics(s, t) \/ SeesCancel(s, t)
          PROVE  built' = built /\ config' = config
        BY <2>4 DEF BeginWait, Return, CtrlC, ShutdownMessage, Acquire, UserReturns, TaskPanics,
                    SeesCancel, End, fileVars
    <2>5. CASE UNCHANGED vars
        BY <2>5 DEF vars, fileVars
    <2> QED
        BY <2>1, <2>2, <2>3, <2>4, <2>5 DEF Next, Agents
<1> QED
    BY <1>1 DEF Adverts

\* The steps of start and of the tasks that run no agent read and write no file.
LEMMA FileFrame ==
    ASSUME TypeOK, FileInv, [Next]_vars, UNCHANGED <<fileVars, network>>,
           \A s \in Sessions : pc'[s] # "idle" =>
               owner'[s] \in built /\ \A i \in DOMAIN todo'[s] : todo'[s][i] \in built,
           \A s \in Sessions, a \in Agents : Has(s, a)' => Has(s, a) /\ owner'[s] = owner[s]
    PROVE  FileInv'
<1>1. Adverts' = Adverts /\ Constructed' = Constructed
    BY DEF Adverts, Constructed
<1>2. OneWriter'
    BY <1>1 DEF FileInv, OneWriter, Alone
<1>3. WholeTarget'
    BY <1>1 DEF FileInv, WholeTarget
<1>4. ReadInv'
    BY <1>1 DEF FileInv, ReadInv, Alone, Agents
<1>5. BuiltInv'
    BY DEF FileInv, BuiltInv
<1> QED
    BY <1>1, <1>2, <1>3, <1>4, <1>5 DEF FileInv, AdminReady

\* Constructors leave what agents have read: an admin that is alone afterwards was
\* so before, unless it is the one that begins, which is in no session.
LEMMA ConstructorFrame ==
    ASSUME TypeOK, SessionInv, FileInv, [Next]_vars, UNCHANGED <<owner, pc, todo, live, network>>,
           \A a \in Constructed : a \in Constructed', overlapped => overlapped'
    PROVE  WholeTarget' /\ ReadInv' /\ BuiltInv'
<1>1. \A a \in built : a \in built' /\ config'[a] = config[a]
    BY BuiltStays
<1>2. BuiltInv'
    BY <1>1 DEF FileInv, BuiltInv, Has
<1>3. WholeTarget'
    <2> SUFFICES ASSUME NEW c \in Clients, network'[c] # None, ~overlapped
                 PROVE  network'[c] \in
                            {Dials(Updated(config'[c], f)) : f \in Adverts' \cup {EmptyFile}}
        BY DEF WholeTarget
    <2>1. network[c] \in {Dials(Updated(config[c], f)) : f \in Adverts \cup {EmptyFile}}
        BY DEF FileInv, WholeTarget
    <2>2. config'[c] = config[c]
        BY <1>1 DEF FileInv, BuiltInv
    <2> QED
        BY <2>1, <2>2, BuiltStays
<1>4. ASSUME NEW o \in built \cap Admins, Alone(o)' PROVE Alone(o)
    <2>1. o \in Constructed
        BY DEF Constructed
    <2> QED
        BY <1>4, <2>1 DEF Alone
<1>5. ReadInv'
    <2>1. ASSUME NEW s \in Sessions, NEW o \in Admins, Has(s, o)', Alone(o)'
          PROVE  network'[o] = Listens(config'[o])
        <3>1. Has(s, o) /\ o \in built
            BY <2>1 DEF Has, FileInv, BuiltInv, Agents
        <3> QED
            BY <1>1, <1>4, <2>1, <3>1 DEF FileInv, ReadInv
    <2>2. ASSUME NEW s \in Sessions, NEW c \in Clients \cap FileReaders, Has(s, c)',
                 owner[s] \in Admins, Alone(owner[s])'
          PROVE  network'[c] = Dials(Written(config'[owner[s]]))
        <3>1. Has(s, c) /\ owner[s] \in built
            BY <2>2 DEF Has, FileInv, BuiltInv, SessionInv, SafeSession
        <3> QED
            BY <1>1, <1>4, <2>2, <3>1 DEF FileInv, ReadInv
    <2> QED
        BY <2>1, <2>2 DEF ReadInv
<1> QED
    BY <1>2, <1>3, <1>5

LEMMA FileStep == TypeOK /\ SessionInv /\ FileInv /\ [Next]_vars => FileInv'
<1> SUFFICES ASSUME TypeOK, SessionInv, FileInv, [Next]_vars PROVE FileInv'
    OBVIOUS
<1>1. ASSUME NEW c \in Clients, NewClient(c) PROVE FileInv'
    <2>1. c \notin Admins
        BY LifecycleAssumption DEF LifecycleAssumption
    <2>2. /\ UNCHANGED <<file, writing, overlapped, owner, pc, todo, live, network>>
          /\ built' = built \cup {c} /\ built' \cap Admins = built \cap Admins
          /\ \A a \in Admins : config'[a] = config[a]
        BY <1>1, <2>1 DEF NewClient, TypeOK, Agents
    <2>3. Constructed' = Constructed /\ Adverts' = Adverts
        BY <2>2 DEF Constructed, Adverts
    <2>4. built' \cap writing' = {}
        BY <2>1, <2>2 DEF FileInv, TypeOK
    <2>5. \A a \in Constructed' : AdminReady(a)'
        BY <2>2, <2>3 DEF FileInv, AdminReady, Constructed
    <2>6. OneWriter'
        BY <2>2, <2>3 DEF FileInv, OneWriter, Alone
    <2> QED
        BY <2>2, <2>3, <2>4, <2>5, <2>6, ConstructorFrame DEF FileInv
<1>2. ASSUME NEW a \in Admins, NewAdmin(a) PROVE FileInv'
    <2>1. PICK given \in Given[a] :
              Writable(WithId(a, given)) /\ config' = [config EXCEPT ![a] = WithId(a, given)]
        BY <1>2 DEF NewAdmin
    <2>2. /\ UNCHANGED <<built, owner, pc, todo, live, network>>
          /\ file' = EmptyFile /\ writing' = writing \cup {a}
          /\ overlapped' = (overlapped \/ writing # {})
          /\ a \notin built \cup writing
        BY <1>2 DEF NewAdmin
    <2>3. Constructed' = Constructed \cup {a}
        BY <2>2 DEF Constructed
    <2>4. AdminReady(a)'
        BY <2>1, AdminConfig DEF AdminReady, TypeOK, Agents
    <2>5. \A b \in Constructed' : AdminReady(b)'
        <3>1. ASSUME NEW b \in Constructed, b # a PROVE AdminReady(b)'
            <4>1. config'[b] = config[b]
                BY <2>1, <3>1 DEF TypeOK, Constructed, Agents
            <4> QED
                BY <4>1 DEF FileInv, AdminReady
        <3> QED
            BY <2>2, <2>3, <2>4, <3>1 DEF Constructed
    <2>6. OneWriter'
        <3>1. writing # {} => \E b \in Constructed : b # a
            BY <2>2 DEF TypeOK, Constructed
        <3>2. overlapped' => \E x, y \in Constructed' : x # y
            BY <2>2, <2>3, <3>1 DEF FileInv, OneWriter
        <3>3. \A o \in built' \cap Admins : ~Alone(o)'
            BY <2>2, <2>3 DEF Alone, Constructed
        <3> QED
            BY <2>2, <3>2, <3>3 DEF OneWriter
    <2> QED
        BY <2>2, <2>3, <2>5, <2>6, ConstructorFrame DEF FileInv
<1>3. ASSUME NEW a \in Admins, WriteFile(a) PROVE FileInv'
    <2>1. /\ UNCHANGED <<config, overlapped, owner, pc, todo, live, network>>
          /\ a \in writing /\ writing' = writing \ {a} /\ built' = built \cup {a}
          /\ file' \in Overwritten(file, Written(config[a]))
        BY <1>3 DEF WriteFile
    <2>2. Constructed' = Constructed
        BY <2>1 DEF Constructed
    <2>3. \A b \in Constructed' : AdminReady(b)'
        BY <2>1, <2>2 DEF FileInv, AdminReady
    <2>4. built' \cap writing' = {}
        BY <2>1 DEF FileInv
    <2>5. ~overlapped => file' = Written(config[a])
        BY <2>1, EmptyIsWritten DEF FileInv, OneWriter
    <2>6. OneWriter'
        <3>1. Written(config'[a]) \in Adverts'
            BY <2>1 DEF Adverts
        <3>2. ~overlapped => writing' = {}
            BY <2>1 DEF FileInv, OneWriter
        <3>3. ASSUME NEW o \in built' \cap Admins, Alone(o)' PROVE file' = Written(config'[o])
            <4>1. o = a /\ ~overlapped
                BY <2>1, <2>2, <3>3 DEF Alone, Constructed, FileInv, OneWriter
            <4> QED
                BY <2>1, <2>5, <4>1
        <3> QED
            BY <2>1, <2>2, <2>5, <3>1, <3>2, <3>3 DEF FileInv, OneWriter
    <2> QED
        BY <2>1, <2>2, <2>3, <2>4, <2>6, ConstructorFrame DEF FileInv
<1>4. ASSUME NEW s \in Sessions, NEW a \in Agents, NEW team \in Teams(s),
             Start(s, a, team)
      PROVE  FileInv'
    <2>1. /\ pc[s] = "idle" /\ live[s] = {} /\ live' = live
          /\ \A r \in Sessions \ {s} :
                pc'[r] = pc[r] /\ owner'[r] = owner[r] /\ todo'[r] = todo[r]
          /\ owner'[s] = a /\ todo'[s] = <<a>> \o team /\ a \in built
        BY <1>4 DEF Start, TypeOK, SessionInv, SafeSession
    <2>2. \A i \in DOMAIN todo'[s] : todo'[s][i] \in built
        <3>1. \A i \in DOMAIN team : team[i] \in built
            BY <1>4 DEF Start
        <3>2. ASSUME NEW i \in DOMAIN (<<a>> \o team) PROVE (<<a>> \o team)[i] \in built
            <4>1. (<<a>> \o team)[i] = a \/ \E j \in DOMAIN team : (<<a>> \o team)[i] = team[j]
                BY <1>4, TeamIsSeq
            <4> QED
                BY <2>1, <3>1, <4>1
        <3> QED
            BY <2>1, <3>2
    <2>3. \A r \in Sessions : pc'[r] # "idle" =>
              owner'[r] \in built /\ \A i \in DOMAIN todo'[r] : todo'[r][i] \in built
        BY <2>1, <2>2 DEF FileInv, BuiltInv
    <2>4. \A r \in Sessions, c \in Agents :
              Has(r, c)' => Has(r, c) /\ owner'[r] = owner[r]
        BY <2>1 DEF Has
    <2> QED
        BY <1>4, <2>3, <2>4, FileFrame DEF Start
<1>5. ASSUME NEW s \in Sessions, RunNext(s) PROVE FileInv'
    <2> DEFINE a == Head(todo[s])
    <2>1. /\ pc[s] = "run" /\ todo[s] # <<>> /\ todo[s] \in Seq(Agents)
          /\ UNCHANGED <<fileVars, token>>
        BY <1>5 DEF RunNext, End, TypeOK
    <2>2. /\ a \in built /\ a \in Agents /\ owner[s] \in built
          /\ \A i \in DOMAIN Tail(todo[s]) : Tail(todo[s])[i] \in built
        BY <2>1 DEF FileInv, BuiltInv
    <2>3. CASE ~(a \in Admins \/ Dialable(Read(a)))
        <3>1. /\ UNCHANGED <<owner, todo, network>> /\ pc' = [pc EXCEPT ![s] = "panicked"]
              /\ live' = [live EXCEPT ![s] = {}]
            BY <1>5, <2>3 DEF RunNext, End
        <3>2. \A r \in Sessions, b \in Agents : Has(r, b)' => Has(r, b)
            BY <3>1 DEF Has, TypeOK
        <3>3. \A r \in Sessions : pc'[r] # "idle" =>
                  owner'[r] \in built /\ \A i \in DOMAIN todo'[r] : todo'[r][i] \in built
            BY <2>1, <3>1 DEF FileInv, BuiltInv, TypeOK
        <3> QED
            BY <2>1, <3>1, <3>2, <3>3, FileFrame
    <2>4. CASE a \in Admins \/ Dialable(Read(a))
        <3>1. /\ UNCHANGED <<owner, pc>> /\ todo' = [todo EXCEPT ![s] = Tail(@)]
              /\ live' = [live EXCEPT ![s] = @ \cup Tasks(a)]
              /\ network' = [network EXCEPT ![a] =
                   IF a \in Admins THEN Listens(Read(a)) ELSE Dials(Read(a))]
            BY <1>5, <2>4 DEF RunNext
        <3>2. /\ \A b \in Agents \ {a} : network'[b] = network[b]
              /\ a \in Admins => network'[a] = Listens(Read(a))
              /\ a \in Clients => network'[a] = Dials(Read(a))
            BY <2>2, <3>1, LifecycleAssumption DEF LifecycleAssumption, TypeOK
        <3>3. Adverts' = Adverts /\ Constructed' = Constructed
            BY <2>1 DEF Adverts, Constructed
        <3>4. \A r \in Sessions, b \in Agents : Has(r, b)' => Has(r, b) \/ (r = s /\ b = a)
            BY <3>1 DEF Has, Tasks, TypeOK
        <3>5. BuiltInv'
            <4>1. \A r \in Sessions : pc'[r] # "idle" =>
                      owner'[r] \in built /\ \A i \in DOMAIN todo'[r] : todo'[r][i] \in built
                BY <2>2, <3>1 DEF FileInv, BuiltInv, TypeOK
            <4> QED
                BY <2>1, <2>2, <3>2, <3>4, <4>1 DEF FileInv, BuiltInv, Agents
        <3>6. WholeTarget'
            <4> SUFFICES ASSUME NEW c \in Clients, network'[c] # None, ~overlapped
                         PROVE  network'[c] \in
                            {Dials(Updated(config[c], f)) : f \in Adverts \cup {EmptyFile}}
                BY <2>1, <3>3 DEF WholeTarget
            <4>1. CASE c # a
                BY <3>2, <4>1 DEF FileInv, WholeTarget, Agents
            <4>2. CASE c = a
                BY <3>2, <4>2 DEF Read, FileInv, OneWriter
            <4> QED
                BY <4>1, <4>2
        <3>7. ASSUME NEW o \in Admins \cap built, Alone(o)
              PROVE  file = Written(config[o]) /\ IsConfig(config[o]) /\ IsConfig(file)
            <4>1. file = Written(config[o])
                BY <3>7 DEF FileInv, OneWriter
            <4>2. IsConfig(config[o])
                BY <3>7 DEF TypeOK, Agents
            <4>3. IsConfig(Written(config[o]))
                BY <4>2, WrittenLines
            <4> QED
                BY <4>1, <4>2, <4>3
        <3>8. ASSUME NEW r \in Sessions, NEW o \in Admins, Has(r, o)', Alone(o)
              PROVE  network'[o] = Listens(config[o])
            <4>1. CASE o # a
                BY <3>2, <3>4, <3>8, <4>1 DEF FileInv, ReadInv, Agents
            <4>2. CASE o = a
                <5>1. file = Written(config[o]) /\ IsConfig(config[o]) /\ IsConfig(file)
                    BY <2>2, <3>7, <3>8, <4>2
                <5>2. Read(o) \in {config[o], Written(config[o])}
                    BY <5>1, CompleteReplaces, EmptyKeeps DEF Read
                <5>3. Listens(Written(config[o])) = Listens(config[o])
                    BY <5>1, WrittenLines DEF Listens, Keys
                <5> QED
                    BY <3>2, <4>2, <5>2, <5>3
            <4> QED
                BY <4>1, <4>2
        <3>9. ASSUME NEW r \in Sessions, NEW c \in Clients \cap FileReaders, Has(r, c)',
                     owner[r] \in Admins, Alone(owner[r])
              PROVE  network'[c] = Dials(Written(config[owner[r]]))
            <4>1. CASE c # a
                BY <3>2, <3>4, <3>9, <4>1 DEF FileInv, ReadInv, Agents
            <4>2. CASE c = a
                <5>1. owner[r] \in built
                    <6>1. CASE r = s
                        BY <2>2, <6>1
                    <6>2. CASE r # s
                        BY <3>4, <3>9, <6>2 DEF Has, FileInv, BuiltInv, SessionInv, SafeSession, Agents
                    <6> QED
                        BY <6>1, <6>2
                <5>2. file = Written(config[owner[r]]) /\ IsConfig(file)
                    BY <3>7, <3>9, <5>1
                <5>3. Read(c) = file
                    BY <5>2, CompleteReplaces DEF Read
                <5> QED
                    BY <3>2, <4>2, <5>2, <5>3
            <4> QED
                BY <4>1, <4>2
        <3>10. ReadInv'
            BY <2>1, <3>1, <3>3, <3>8, <3>9 DEF ReadInv, Alone
        <3>11. OneWriter'
            BY <2>1, <3>3 DEF FileInv, OneWriter, Alone
        <3> QED
            BY <2>1, <3>3, <3>5, <3>6, <3>10, <3>11 DEF FileInv, AdminReady
    <2> QED
        BY <2>3, <2>4
<1>6. ASSUME NEW s \in Sessions, NEW stuff,
             live' = [live EXCEPT ![s] = stuff],
             \A c \in Agents : <<c, "node", "on">> \in stuff => Has(s, c),
             UNCHANGED <<fileVars, owner, todo, network>>,
             \A r \in Sessions : pc'[r] # "idle" => pc[r] # "idle"
      PROVE  FileInv'
    <2>1. \A r \in Sessions, c \in Agents : Has(r, c)' => Has(r, c)
        BY <1>6 DEF Has, TypeOK
    <2>2. \A r \in Sessions : pc'[r] # "idle" =>
              owner'[r] \in built /\ \A i \in DOMAIN todo'[r] : todo'[r][i] \in built
        BY <1>6 DEF FileInv, BuiltInv
    <2> QED
        BY <1>6, <2>1, <2>2, FileFrame
<1>7. ASSUME NEW s \in Sessions, BeginWait(s) PROVE FileInv'
    <2>1. \A c \in Agents :
              <<c, "node", "on">> \in live[s] \cup {<<owner[s], "shutdown", "waits">>} => Has(s, c)
        BY DEF Has
    <2>2. /\ live' = [live EXCEPT ![s] = live[s] \cup {<<owner[s], "shutdown", "waits">>}]
          /\ UNCHANGED <<fileVars, owner, todo, network>>
          /\ \A r \in Sessions : pc'[r] # "idle" => pc[r] # "idle"
        BY <1>7 DEF BeginWait, TypeOK
    <2> QED
        BY <1>6, <2>1, <2>2
<1>8. ASSUME NEW s \in Sessions, Return(s) \/ CtrlC(s) PROVE FileInv'
    <2> DEFINE stuff == {}
    <2>1. /\ live' = [live EXCEPT ![s] = stuff]
          /\ \A c \in Agents : <<c, "node", "on">> \in stuff => Has(s, c)
          /\ UNCHANGED <<fileVars, owner, todo, network>>
          /\ \A r \in Sessions : pc'[r] # "idle" => pc[r] # "idle"
        BY <1>8 DEF Return, CtrlC, End, TypeOK
    <2> HIDE DEF stuff
    <2> QED
        BY <1>6, <2>1
<1>9. ASSUME NEW s \in Sessions, ShutdownMessage(s) PROVE FileInv'
    <2> DEFINE stuff == live[s] \ {<<owner[s], "shutdown", "holds">>}
    <2>1. /\ live' = [live EXCEPT ![s] = stuff]
          /\ \A c \in Agents : <<c, "node", "on">> \in stuff => Has(s, c)
          /\ UNCHANGED <<fileVars, owner, pc, todo, network>>
        BY <1>9 DEF ShutdownMessage, Has
    <2> HIDE DEF stuff
    <2> QED
        BY <1>6, <2>1
<1>10. ASSUME NEW s \in Sessions, NEW t \in live[s],
              Acquire(s, t) \/ UserReturns(s, t) \/ TaskPanics(s, t) \/ SeesCancel(s, t)
       PROVE  FileInv'
    <2>1. t \in Task
        BY DEF TypeOK
    <2>2. CASE Acquire(s, t) \/ UserReturns(s, t)
        <3>1. t[2] # "node"
            BY <2>1, <2>2, TaskFacts DEF Acquire, UserReturns
        <3> QED
            <4>1. PICK stage : Move(s, t, stage) /\ UNCHANGED <<fileVars, sessionVars>>
                BY <2>2 DEF Acquire, UserReturns
            <4> DEFINE stuff == (live[s] \ {t}) \cup {<<t[1], t[2], stage>>}
            <4>2. live' = [live EXCEPT ![s] = stuff]
                BY <4>1 DEF Move
            <4>3. \A c \in Agents : <<c, "node", "on">> \in stuff => Has(s, c)
                BY <3>1 DEF Has
            <4> HIDE DEF stuff
            <4> QED
                BY <1>6, <4>1, <4>2, <4>3
    <2>3. CASE SeesCancel(s, t) \/ TaskPanics(s, t)
        <3> DEFINE stuff == live[s] \ {t}
        <3>1. /\ live' = [live EXCEPT ![s] = stuff]
              /\ \A c \in Agents : <<c, "node", "on">> \in stuff => Has(s, c)
              /\ UNCHANGED <<fileVars, owner, pc, todo, network>>
            BY <2>3 DEF SeesCancel, TaskPanics, Has
        <3> HIDE DEF stuff
        <3> QED
            BY <1>6, <3>1
    <2> QED
        BY <1>10, <2>2, <2>3
<1>11. CASE UNCHANGED <<fileVars, owner, pc, todo, live, network>>
    BY <1>11, FileFrame DEF FileInv, BuiltInv, Has
<1> QED
    BY <1>1, <1>2, <1>3, <1>4, <1>5, <1>7, <1>8, <1>9, <1>10, <1>11
    DEF Next, vars, Stop

THEOREM FileSafety == Spec => []FileInv
<1> QED
    BY TypeInit, TypeStep, SessionInit, SessionStep, FileInit, FileStep, PTL DEF Spec

\* A client that reads the file dials the id, the port and the workspace of the admin
\* it was started by, while that is the only one, whatever either was given, whatever
\* file was there before and however the reads and the writes interleave.
THEOREM WorkersSafety == Spec => []WorkersJoinTheirAdmin
<1> QED
    BY ReadersJoin, TypeSafety, FileSafety, PTL

\* A client's target is its own configuration under the lines of one file, unless the
\* constructors of two admins have overlapped.
THEOREM TargetSafety == Spec => []WholeTarget
<1>1. FileInv => WholeTarget
    BY DEF FileInv
<1> QED
    BY <1>1, FileSafety, PTL

LEMMA AdvertStep ==
    ASSUME TypeOK, FileInv, [Next]_vars, NEW s \in Sessions, NEW a \in built \cap Admins,
           pc[s] # "panicked", pc'[s] = "panicked",
           Head(todo[s]) \in FileReaders, file = Written(config[a])
    PROVE  config[a]["WORKSPACE_IP"] \notin Addresses \cup {None}
<1>1. RunNext(s) /\ ~Dialable(Read(Head(todo[s])))
    <2>1. ASSUME NEW b \in Agents, NewClient(b) \/ NewAdmin(b) \/ WriteFile(b) \/ Stop(b)
          PROVE  pc' = pc
        BY <2>1 DEF NewClient, NewAdmin, WriteFile, Stop
    <2>2. ASSUME NEW r \in Sessions, \E b \in Agents, team \in Teams(r) : Start(r, b, team)
          PROVE  pc'[s] # "panicked"
        BY <2>2 DEF Start, TypeOK
    <2>3. ASSUME NEW r \in Sessions,
                 BeginWait(r) \/ Return(r) \/ CtrlC(r) \/ ShutdownMessage(r)
          PROVE  pc'[s] # "panicked"
        BY <2>3 DEF BeginWait, Return, CtrlC, ShutdownMessage, End, TypeOK
    <2>4. ASSUME NEW r \in Sessions, NEW t \in live[r],
                 Acquire(r, t) \/ UserReturns(r, t) \/ TaskPanics(r, t) \/ SeesCancel(r, t)
          PROVE  pc' = pc
        BY <2>4 DEF Acquire, UserReturns, TaskPanics, SeesCancel
    <2>5. ASSUME NEW r \in Sessions, RunNext(r)
          PROVE  r = s /\ ~Dialable(Read(Head(todo[s])))
        BY <2>5 DEF RunNext, End, TypeOK
    <2>6. CASE UNCHANGED vars
        BY <2>6 DEF vars
    <2> QED
        BY <2>1, <2>2, <2>3, <2>4, <2>5, <2>6 DEF Next, Agents
<1>2. IsConfig(config[a]) /\ config[a]["WORKSPACE_PEER"] = a
    BY DEF TypeOK, FileInv, AdminReady, Constructed
<1>3. Read(Head(todo[s])) = file
    BY <1>2, CompleteReplaces, WrittenLines DEF Read
<1>4. /\ file["WORKSPACE_PEER"] = a
      /\ file["WORKSPACE_IP"] = Default(config[a]["WORKSPACE_IP"], "127.0.0.1")
    BY <1>2, WrittenLines DEF Keys
<1> QED
    BY <1>1, <1>3, <1>4, ConfigAssumption DEF ConfigAssumption, Dialable, Default

\* A client that finds the file as an admin wrote it panics in run only for an address
\* that does not parse, for every configuration it or the admins may have been given.
THEOREM AdvertSafety == Spec => AdvertSuffices
<1>1. TypeOK /\ FileInv /\ [Next]_vars =>
        [\A s \in Sessions, a \in built \cap Admins :
            pc[s] # "panicked" /\ pc'[s] = "panicked" =>
                \/ Head(todo[s]) \notin FileReaders
                \/ file # Written(config[a])
                \/ config[a]["WORKSPACE_IP"] \notin Addresses \cup {None}]_vars
    BY AdvertStep
<1> QED
    BY <1>1, TypeSafety, FileSafety, PTL DEF Spec, AdvertSuffices

=============================================================================
