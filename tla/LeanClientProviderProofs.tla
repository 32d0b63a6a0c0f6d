---------------------- MODULE LeanClientProviderProofs ----------------------
(* The safety of LeanClientProvider for every set of folders, clients, servers  *)
(* and calls, and for every setting of a run.                                   *)
(*                                                                              *)
(* The inductive invariant has three layers, by what a setting leaves out: what *)
(* always holds, what holds when every server comes up before the next command, *)
(* and what holds when elan and the toolchains also do what they are asked. A    *)
(* step is first shown to be one of a few moves of a LeanClient and a server,    *)
(* which change their fields alike whichever handler makes them; the first two  *)
(* layers are about moves, and only the third is about the handlers again.       *)
EXTENDS LeanClientProvider, TLAPS

-----------------------------------------------------------------------------
(* The inductive invariant *)

\* A server process has an owner.
LiveOwned == \A s \in Server : Live(s) => server[s].owner \in Client

\* The process behind the language client of a LeanClient in use is its own. An
\* unused LeanClient may still name one that was reused.
OwnServer ==
    \A c \in Client :
        ~Unused(c) /\ leanClient[c].client \in Server /\ Live(leanClient[c].client)
            => server[leanClient[c].client].owner = c

\* The start that a restart awaits is that of a server that is starting.
StartAwaited ==
    \A c \in Client : leanClient[c].task = "start" =>
        /\ leanClient[c].starting \in Server
        /\ server[leanClient[c].starting].state = "starting"
        /\ server[leanClient[c].starting].owner = c

\* The suppressed prompt belongs to the stop of the client's own server.
OwnStop ==
    \A c \in Client : leanClient[c].noPrompt =>
        /\ leanClient[c].client \in Server
        /\ server[leanClient[c].client].state = "stopping"
        /\ server[leanClient[c].client].owner = c

\* A toolchain is chosen, and a project action runs, without a language client.
WithoutServer ==
    \A c \in Client :
        leanClient[c].task \in {"toolchain", "action"} => ~IsStarted(leanClient[c])

\* The provider finds a client under the client's folder.
FoundByFolder == \A f \in Folder : clients[f] # None => leanClient[clients[f]].folder = f

\* What holds in every setting.
Always ==
    /\ LiveOwned /\ OwnServer /\ StartAwaited /\ OwnStop /\ WithoutServer
    /\ FoundByFolder

\* Every process is the one its owner knows of.
KnownServer ==
    \A s \in Server : Live(s) =>
        /\ leanClient[server[s].owner].client = s
        /\ server[s].state = "starting" => leanClient[server[s].owner].task = "start"
        /\ server[s].state = "running" => leanClient[server[s].owner].running
        /\ server[s].state = "stopping" => leanClient[server[s].owner].noPrompt

\* A client that takes itself to be running is right.
OwnRunning ==
    \A c \in Client : leanClient[c].running =>
        /\ leanClient[c].client \in Server
        /\ server[leanClient[c].client].state = "running"
        /\ server[leanClient[c].client].owner = c

\* No server is being stopped while elan is asked about it.
ElanFirst == \A c \in Client : leanClient[c].task = "elan" => ~leanClient[c].noPrompt

\* No restart begins while 'Stop Server' waits.
StopAlone ==
    \A s \in Server : server[s].state = "stopping" /\ server[s].waiter = "stopClient" =>
        leanClient[server[s].owner].task = "idle"

\* What holds besides when every server comes up before the next command.
PatientInv == KnownServer /\ OwnRunning /\ ElanFirst /\ StopAlone

\* The provider finds c for the folder of c.
Registered(c) ==
    /\ leanClient[c].folder \in Folder
    /\ clients[leanClient[c].folder] = c

\* A client that is busy or has a language client is registered, and so is the
\* active one.
InUseRegistered ==
    /\ \A c \in Client : IsRestarting(leanClient[c]) \/ IsStarted(leanClient[c]) => Registered(c)
    /\ activeClient # None => Registered(activeClient)
    /\ \A c \in Client : leanClient[c].prompt => leanClient[c].folder \in Folder

\* A folder whose preconditions are being checked is pending and has no client
\* yet, and is checked once.
CheckedOnce ==
    \A k \in Call : checks[k] # None =>
        /\ checks[k].folder \in pending
        /\ clients[checks[k].folder] = None
        /\ \A j \in Call : checks[j] # None /\ checks[j].folder = checks[k].folder => j = k

\* What holds besides in an orderly run.
OrderlyInv == InUseRegistered /\ CheckedOnce /\ RestartServerActs

\* The inductive invariant: a setting that is orderly is patient, so the layers add up.
IInv == TypeOK /\ Always /\ (Patient => PatientInv) /\ (Orderly => OrderlyInv)

-----------------------------------------------------------------------------
(* Moves: what a step does to the LeanClients and the servers, field by field. *)

\* What a LeanClient and a server are.
Object == [folder : Folder \cup {None}, client : Server \cup {None},
           running : BOOLEAN, noPrompt : BOOLEAN, prompt : BOOLEAN,
           task : Tasks, awaited : {"none", "ensure", "operation"},
           starting : Server \cup {None}]

Process == [state : {"none", "starting", "running", "stopping"},
            owner : Client \cup {None},
            waiter : {"none", "task", "stopClient", "dispose"}]

\* The LeanClients and the servers are typed.
Objects == leanClient \in [Client -> Object] /\ server \in [Server -> Process]

\* c is the only LeanClient that changes, and s the only server.
OnlyClient(c) ==
    /\ leanClient' \in [Client -> Object]
    /\ \A d \in Client \ {c} : leanClient'[d] = leanClient[d]

OnlyServer(s) ==
    /\ server' \in [Server -> Process]
    /\ \A t \in Server \ {s} : server'[t] = server[t]

\* A restart is answered, refused, or waits for elan: only the task and the
\* prompt change.
Notes(c, task) ==
    LET o == leanClient[c]
        n == leanClient'[c]
    IN  /\ OnlyClient(c) /\ UNCHANGED server
        /\ n.folder = o.folder /\ n.client = o.client /\ (n.running <=> o.running)
        /\ (n.noPrompt <=> o.noPrompt) /\ n.starting = o.starting
        /\ n.prompt => o.prompt
        /\ n.task = task

\* stop() of c: its task becomes waits when there is a server to wait for and
\* goes otherwise.
Stops(c, waiter, waits, goes) ==
    LET o == leanClient[c]
        n == leanClient'[c]
    IN  /\ OnlyClient(c)
        /\ n.folder = o.folder
        /\ n.prompt => o.prompt
        /\ n.task = "start" => n.starting = o.starting
        /\ \/ /\ o.client \in Server /\ o.running /\ server[o.client].state = "running"
              /\ OnlyServer(o.client)
              /\ server'[o.client].state = "stopping"
              /\ server'[o.client].owner = server[o.client].owner
              /\ server'[o.client].waiter = waiter
              /\ n.client = o.client /\ ~n.running /\ n.noPrompt
              /\ n.task = waits
           \/ /\ ~(o.client # None /\ o.running /\ server[o.client].state = "running")
              /\ UNCHANGED server
              /\ n.client = None
              /\ n.running => o.running /\ o.client = None
              /\ n.noPrompt => o.noPrompt /\ o.client = None
              /\ n.task = goes

\* A client is made for folder f and begins to start.
Born(c, f) ==
    LET n == leanClient'[c]
    IN  /\ OnlyClient(c) /\ UNCHANGED server
        /\ n.folder = f /\ n.client = None /\ n.task \in {"elan", "toolchain"}
        /\ ~n.running /\ ~n.noPrompt /\ ~n.prompt

\* The language client of c is made and its server s begins to start.
SetsUp(c, s) ==
    LET o == leanClient[c]
        n == leanClient'[c]
    IN  /\ o.task = "toolchain" /\ Free(s)
        /\ OnlyClient(c) /\ OnlyServer(s)
        /\ n.folder = o.folder /\ (n.running <=> o.running)
        /\ (n.noPrompt <=> o.noPrompt) /\ (n.prompt <=> o.prompt)
        /\ n.client = s /\ n.starting = s /\ n.task = "start"
        /\ server'[s].state = "starting" /\ server'[s].owner = c

\* The server that c was starting runs, whether c still wants it or not.
Starts(c) ==
    LET o == leanClient[c]
        n == leanClient'[c]
    IN  /\ o.task = "start" /\ o.client \in {o.starting, None}
        /\ OnlyClient(c) /\ OnlyServer(o.starting)
        /\ n.folder = o.folder /\ n.client = o.client
        /\ (n.noPrompt <=> o.noPrompt) /\ (n.prompt <=> o.prompt)
        /\ n.running /\ n.task = "idle"
        /\ server'[o.starting].state = "running"
        /\ server'[o.starting].owner = server[o.starting].owner

\* The server that c was starting does not come up.
StartFails(c) ==
    LET o == leanClient[c]
        n == leanClient'[c]
    IN  /\ "start" \in Mishaps /\ o.task = "start"
        /\ OnlyClient(c) /\ OnlyServer(o.starting)
        /\ n.folder = o.folder /\ n.client = None
        /\ n.noPrompt => o.noPrompt /\ o.client = None
        /\ ~n.running /\ n.task = "idle"
        /\ server'[o.starting].state = "none"

\* A running server of c exits.
Exits(c, s) ==
    LET o == leanClient[c]
        n == leanClient'[c]
    IN  /\ server[s].state = "running" /\ server[s].owner = c
        /\ OnlyClient(c) /\ OnlyServer(s)
        /\ n.folder = o.folder /\ n.client = o.client /\ (n.noPrompt <=> o.noPrompt)
        /\ n.starting = o.starting /\ n.task = o.task /\ ~n.running
        /\ server'[s].state = "none"

\* A server of c that was asked to stop has stopped.
HasStopped(c, s) ==
    LET o == leanClient[c]
        n == leanClient'[c]
    IN  /\ server[s].state = "stopping" /\ server[s].owner = c
        /\ OnlyClient(c) /\ OnlyServer(s)
        /\ n.folder = o.folder /\ (n.prompt <=> o.prompt) /\ n.starting = o.starting
        /\ n.client = None /\ ~n.running /\ ~n.noPrompt
        /\ n.task = IF server[s].waiter # "task" THEN o.task
                    ELSE IF o.task = "stop" THEN "toolchain" ELSE "action"
        /\ server'[s].state = "none"

\* A client that a command may find: see Reachable.
Ready(c) == leanClient[c].task = "idle" /\ (Patient => ~leanClient[c].noPrompt)

\* Who may be stopped and restarted.
Restarts(c) ==
    \/ Notes(c, leanClient[c].task)
    \/ /\ Ready(c) \/ leanClient[c].task = "action"
       /\ Notes(c, "elan") \/ Stops(c, "task", "stop", "toolchain")

\* A step makes one move at most.
Move ==
    \/ UNCHANGED <<leanClient, server>>
    \/ \E c \in Client : Unused(c) /\ \E f \in Folder : Born(c, f)
    \/ \E c \in Client :
        /\ ~Unused(c)
        /\ \/ Restarts(c)
           \/ leanClient[c].task = "elan" /\ Stops(c, "task", "stop", "toolchain")
           \/ Ready(c) /\ Stops(c, "task", "actionStop", "action")
           \/ (Patient => Ready(c)) /\ Stops(c, "stopClient",
                                             leanClient[c].task, leanClient[c].task)
           \/ /\ leanClient[c].task \in {"elan", "toolchain"}
              /\ Stops(c, "dispose", "idle", "idle")
           \/ Starts(c) \/ StartFails(c)
           \/ \E s \in Server : SetsUp(c, s) \/ Exits(c, s) \/ HasStopped(c, s)
\* None is nothing that it could be taken for.
LEMMA NoneOutside ==
    /\ None \notin Folder /\ None \notin Client /\ None \notin Server
    /\ None \notin [folder : Folder, existing : SUBSET Folder]
BY ProviderAssumption DEF ProviderAssumption

\* TypeOK types the LeanClients and the servers.
LEMMA ObjectsTyped == TypeOK => Objects
BY DEF TypeOK, Objects, Object, Process

\* A LeanClient with another task is as it was otherwise.
LEMMA NewTask ==
    ASSUME NEW o \in Object, NEW t \in Tasks
    PROVE  LET n == [o EXCEPT !.task = t] IN
           /\ n \in Object
           /\ n.folder = o.folder /\ n.client = o.client /\ n.running = o.running
           /\ n.noPrompt = o.noPrompt /\ n.prompt = o.prompt /\ n.awaited = o.awaited
           /\ n.starting = o.starting /\ n.task = t
BY DEF Object

\* What setStopped leaves of a LeanClient.
LEMMA ClearedState ==
    ASSUME NEW o \in Object
    PROVE  LET n == Cleared(o) IN
           /\ n \in Object
           /\ n.folder = o.folder /\ n.prompt = o.prompt /\ n.awaited = o.awaited
           /\ n.starting = o.starting /\ n.task = o.task
           /\ n.client = None /\ ~n.running /\ ~n.noPrompt
BY DEF Object, Cleared

\* What a LeanClient is while its server stops.
LEMMA StoppingState ==
    ASSUME NEW o \in Object
    PROVE  LET n == Stopping(o) IN
           /\ n \in Object
           /\ n.folder = o.folder /\ n.prompt = o.prompt /\ n.awaited = o.awaited
           /\ n.starting = o.starting /\ n.task = o.task
           /\ n.client = o.client /\ ~n.running /\ n.noPrompt
BY DEF Object, Stopping

\* What the end of its task leaves of a LeanClient.
LEMMA TaskEndsState ==
    ASSUME NEW o \in Object
    PROVE  LET n == TaskEnds(o) IN
           /\ n \in Object
           /\ n.folder = o.folder /\ n.prompt = o.prompt /\ n.client = o.client
           /\ n.running = o.running /\ n.noPrompt = o.noPrompt
           /\ n.awaited = "none" /\ n.task = "idle"
BY DEF Object, TaskEnds, Tasks

\* A LeanClient that becomes o is the only one to change.
LEMMA Becomes ==
    ASSUME Objects, NEW c \in Client, NEW o \in Object,
           leanClient' = [leanClient EXCEPT ![c] = o]
    PROVE  OnlyClient(c) /\ leanClient'[c] = o
BY DEF Objects, OnlyClient

\* stop() asks the server of the client to exit, and no other.
LEMMA StopBeginsState ==
    ASSUME Objects, NEW o \in Object, o.client \in Server,
           NEW w \in {"task", "stopClient", "dispose"},
           StopBegins(o, w)
    PROVE  /\ OnlyServer(o.client)
           /\ server'[o.client].state = "stopping"
           /\ server'[o.client].owner = server[o.client].owner
           /\ server'[o.client].waiter = w
BY DEF Objects, OnlyServer, StopBegins, Process

\* The state that stop() leaves, before the task goes on.
Stopped(o) == IF StopWaits(o) THEN Stopping(o)
              ELSE IF IsStarted(o) THEN Cleared(o) ELSE o

\* o is the state of c, but for what the caller just noted in it.
Noted(c, o) ==
    /\ o \in Object
    /\ o.folder = leanClient[c].folder /\ o.client = leanClient[c].client
    /\ o.running = leanClient[c].running /\ o.noPrompt = leanClient[c].noPrompt
    /\ o.starting = leanClient[c].starting
    /\ o.prompt => leanClient[c].prompt

\* Whoever calls stop() for c makes the move Stops, whatever task follows.
LEMMA StopsState ==
    ASSUME Objects, NEW c \in Client, NEW o, Noted(c, o), NEW n \in Object,
           NEW w \in {"task", "stopClient", "dispose"},
           NEW waits \in Tasks, NEW goes \in Tasks,
           leanClient' = [leanClient EXCEPT ![c] = n],
           n.folder = Stopped(o).folder, n.prompt = Stopped(o).prompt,
           n.client = Stopped(o).client, n.running = Stopped(o).running,
           n.noPrompt = Stopped(o).noPrompt,
           n.task = "start" => n.starting = o.starting,
           n.task = IF StopWaits(o) THEN waits ELSE goes,
           IF StopWaits(o) THEN StopBegins(o, w) ELSE UNCHANGED server
    PROVE  Stops(c, w, waits, goes)
<1>1. OnlyClient(c) /\ leanClient'[c] = n
  BY Becomes
<1>2. leanClient[c] \in Object /\ (o.client # None => o.client \in Server)
  BY DEF Objects, Object, Noted
<1>3. CASE StopWaits(o)
  <2>1. o.client \in Server
    BY <1>2, <1>3 DEF StopWaits, IsStarted
  <2> QED
    BY <1>1, <1>2, <1>3, <2>1, StoppingState, StopBeginsState
       DEF Stops, Stopped, Noted, StopWaits, IsStarted
<1>4. CASE ~StopWaits(o)
  BY <1>1, <1>2, <1>4, ClearedState DEF Stops, Stopped, Noted, StopWaits, IsStarted
<1> QED
  BY <1>3, <1>4

\* The part of restart() after the toolchain update: stop, then choose the toolchain.
LEMMA RestartFromMoves ==
    ASSUME Objects, NEW c \in Client, NEW o, Noted(c, o), RestartFrom(c, o)
    PROVE  Stops(c, "task", "stop", "toolchain")
<1> DEFINE t == IF StopWaits(o) THEN "stop" ELSE "toolchain"
           n == [Stopped(o) EXCEPT !.task = t]
<1>1. o \in Object /\ t \in Tasks /\ Stopped(o) \in Object
  BY StoppingState, ClearedState DEF Noted, Stopped, Tasks
<1>2. leanClient' = [leanClient EXCEPT ![c] = n]
  BY DEF RestartFrom, Stopped
<1>3. /\ n \in Object /\ n.task = t /\ n.task # "start"
      /\ n.folder = Stopped(o).folder /\ n.prompt = Stopped(o).prompt
      /\ n.client = Stopped(o).client /\ n.running = Stopped(o).running
      /\ n.noPrompt = Stopped(o).noPrompt
  BY <1>1, NewTask
<1>4. IF StopWaits(o) THEN StopBegins(o, "task") ELSE UNCHANGED server
  BY DEF RestartFrom
<1> HIDE DEF n
<1> QED
  BY <1>1, <1>2, <1>3, <1>4, StopsState DEF Tasks
\* stopClient and what follows it in the same turn.
LEMMA StopClientMoves ==
    ASSUME Objects, NEW c \in Client, StopClient(c)
    PROVE  Stops(c, "stopClient", leanClient[c].task, leanClient[c].task)
<1> DEFINE o == leanClient[c]
<1>1. Noted(c, o) /\ o \in Object /\ Stopped(o) \in Object /\ Stopped(o).task = o.task
  BY StoppingState, ClearedState DEF Noted, Stopped, Objects
<1>2. leanClient' = [leanClient EXCEPT ![c] = Stopped(o)]
  BY DEF StopClient, Stopped
<1>3. IF StopWaits(o) THEN StopBegins(o, "stopClient") ELSE UNCHANGED server
  BY DEF StopClient
<1>4. o.task \in Tasks
  BY <1>1 DEF Object
<1> HIDE DEF o
<1>5. Stopped(o).task = IF StopWaits(o) THEN o.task ELSE o.task
  BY <1>1
<1>6. Stops(c, "stopClient", o.task, o.task)
  <2>1. Stopped(o).task = "start" => Stopped(o).starting = o.starting
    BY <1>1, StoppingState, ClearedState DEF Stopped
  <2> QED
    BY <1>1, <1>2, <1>3, <1>4, <1>5, <2>1, StopsState
<1> QED
  BY <1>6 DEF o

\* A restart that fails before it has a server disposes the language client.
LEMMA ServerFailsMoves ==
    ASSUME Objects, NEW c \in Client, ServerFails(c, leanClient[c])
    PROVE  Stops(c, "dispose", "idle", "idle")
<1> DEFINE o == leanClient[c]
           n == TaskEnds(Stopped(o))
<1>1. Noted(c, o) /\ o \in Object /\ Stopped(o) \in Object
  BY StoppingState, ClearedState DEF Noted, Stopped, Objects
<1>2. leanClient' = [leanClient EXCEPT ![c] = n]
  BY DEF ServerFails, Stopped
<1>3. IF StopWaits(o) THEN StopBegins(o, "dispose") ELSE UNCHANGED server
  BY DEF ServerFails
<1>4. /\ n \in Object /\ n.task = "idle"
      /\ n.folder = Stopped(o).folder /\ n.prompt = Stopped(o).prompt
      /\ n.client = Stopped(o).client /\ n.running = Stopped(o).running
      /\ n.noPrompt = Stopped(o).noPrompt
  BY <1>1, TaskEndsState
<1> HIDE DEF o, n
<1> QED
  BY <1>1, <1>2, <1>3, <1>4, StopsState DEF Tasks

\* restart(): refused while one is running, or begun.
LEMMA RestartMoves ==
    ASSUME Objects, NEW c \in Client, NEW o, Noted(c, o), Restart(c, o),
           \/ o.task = leanClient[c].task
           \/ o.task = "idle" /\ leanClient[c].task = "action"
    PROVE  \/ o.task # "idle" /\ Notes(c, leanClient[c].task)
           \/ /\ o.task = "idle"
              /\ Notes(c, "elan") \/ Stops(c, "task", "stop", "toolchain")
<1>1. CASE IsRestarting(o)
  BY <1>1, Becomes DEF Restart, Noted, Notes, IsRestarting
<1>2. CASE ~IsRestarting(o) /\ o.folder \in Untitled
  <2> DEFINE n == [o EXCEPT !.task = "elan"]
  <2>1. leanClient' = [leanClient EXCEPT ![c] = n] /\ UNCHANGED server
    BY <1>2 DEF Restart
  <2>2. o \in Object /\ "elan" \in Tasks
    BY DEF Noted, Tasks
  <2>3. /\ n \in Object /\ n.task = "elan"
        /\ n.folder = o.folder /\ n.client = o.client /\ n.running = o.running
        /\ n.noPrompt = o.noPrompt /\ n.prompt = o.prompt /\ n.starting = o.starting
    BY <2>2, NewTask
  <2> HIDE DEF n
  <2>4. OnlyClient(c) /\ leanClient'[c] = n
    BY <2>1, <2>3, Becomes
  <2> QED
    BY <1>2, <2>1, <2>3, <2>4 DEF Notes, Noted, IsRestarting
<1>3. CASE ~IsRestarting(o) /\ o.folder \notin Untitled
  BY <1>3, RestartFromMoves DEF Restart, IsRestarting
<1> QED
  BY <1>1, <1>2, <1>3

\* A project action stops the server of the active client.
LEMMA BeginOperationMoves ==
    ASSUME Objects, BeginOperation, activeClient \in Client
    PROVE  /\ Stops(activeClient, "task", "actionStop", "action")
           /\ leanClient[activeClient].task = "idle"
           /\ Reachable(activeClient)
<1> DEFINE c == activeClient
           o == [leanClient[c] EXCEPT !.awaited = "operation"]
           t == IF StopWaits(o) THEN "actionStop" ELSE "action"
           n == [Stopped(o) EXCEPT !.task = t]
<1>1. leanClient[c] \in Object
  BY DEF Objects
<1>2. Noted(c, o) /\ o.task = leanClient[c].task
  BY <1>1 DEF Noted, Object
<1>3. o \in Object /\ t \in Tasks /\ Stopped(o) \in Object
  BY <1>2, StoppingState, ClearedState DEF Noted, Stopped, Tasks
<1>4. leanClient' = [leanClient EXCEPT ![c] = n]
  BY DEF BeginOperation, Stopped
<1>5. IF StopWaits(o) THEN StopBegins(o, "task") ELSE UNCHANGED server
  BY DEF BeginOperation
<1>6. Reachable(c) /\ o.task = "idle"
  BY DEF BeginOperation, IsRestarting
<1> HIDE DEF o
<1>7. /\ n \in Object /\ n.task = t /\ n.task # "start"
      /\ n.folder = Stopped(o).folder /\ n.prompt = Stopped(o).prompt
      /\ n.client = Stopped(o).client /\ n.running = Stopped(o).running
      /\ n.noPrompt = Stopped(o).noPrompt
  BY <1>3, NewTask
<1> HIDE DEF n
<1>8. Stops(c, "task", "actionStop", "action")
  BY <1>2, <1>3, <1>4, <1>5, <1>7, StopsState DEF Tasks
<1> QED
  BY <1>2, <1>6, <1>8

\* A new LeanClient is made and its first restart begins.
LEMMA BornMoves ==
    ASSUME Objects, None \notin Server, NEW c \in Client, NEW f \in Folder,
           Restart(c, [NewClient(f) EXCEPT !.awaited = "ensure"])
    PROVE  Born(c, f)
<1> DEFINE o == [NewClient(f) EXCEPT !.awaited = "ensure"]
<1>1. /\ o \in Object /\ o.folder = f /\ o.client = None /\ o.task = "idle"
      /\ ~o.running /\ ~o.noPrompt /\ ~o.prompt
  BY DEF Object, NewClient, Tasks
<1> HIDE DEF o
<1>2. \E t \in {"elan", "toolchain"} :
         leanClient' = [leanClient EXCEPT ![c] = [o EXCEPT !.task = t]] /\ UNCHANGED server
  BY <1>1 DEF o, Restart, RestartFrom, IsRestarting, IsStarted, StopWaits
<1>3. PICK t \in {"elan", "toolchain"} :
         leanClient' = [leanClient EXCEPT ![c] = [o EXCEPT !.task = t]] /\ UNCHANGED server
  BY <1>2
<1> DEFINE n == [o EXCEPT !.task = t]
<1>4. t \in Tasks
  BY DEF Tasks
<1>5. /\ n \in Object /\ n.folder = o.folder /\ n.client = o.client
      /\ n.running = o.running /\ n.noPrompt = o.noPrompt /\ n.prompt = o.prompt
      /\ n.task = t
  BY <1>1, <1>4, NewTask
<1>6. OnlyClient(c) /\ leanClient'[c] = n
  BY <1>3, <1>5, Becomes
<1> HIDE DEF n
<1> QED
  BY <1>1, <1>3, <1>5, <1>6 DEF Born

\* The language client is made once the toolchain is known.
LEMMA SetUpClientMoves ==
    ASSUME Objects, NEW c \in Client, SetUpClient(c)
    PROVE  \E s \in Server : SetsUp(c, s)
<1>1. PICK s \in Server :
          /\ Free(s)
          /\ leanClient' = [leanClient EXCEPT ![c].client = s,
                                              ![c].starting = s,
                                              ![c].task = "start"]
          /\ server' = [server EXCEPT ![s] =
                [state |-> "starting", owner |-> c, waiter |-> "none"]]
  BY DEF SetUpClient
<1> DEFINE n == [leanClient[c] EXCEPT !.client = s, !.starting = s, !.task = "start"]
<1>2. leanClient[c] \in Object
  BY DEF Objects
<1>3. leanClient' = [leanClient EXCEPT ![c] = n]
  BY <1>1 DEF Objects
<1>4. /\ n \in Object /\ n.folder = leanClient[c].folder
      /\ n.running = leanClient[c].running /\ n.noPrompt = leanClient[c].noPrompt
      /\ n.prompt = leanClient[c].prompt
      /\ n.client = s /\ n.starting = s /\ n.task = "start"
  BY <1>2 DEF Object, Tasks
<1> HIDE DEF n
<1>5. OnlyClient(c) /\ leanClient'[c] = n
  BY <1>3, <1>4, Becomes
<1>6. OnlyServer(s) /\ server'[s].state = "starting" /\ server'[s].owner = c
  BY <1>1 DEF OnlyServer, Objects, Process
<1> QED
  BY <1>1, <1>4, <1>5, <1>6 DEF SetsUp, SetUpClient

\* What the end of a start or an exit leaves of a server.
LEMMA ServerState ==
    ASSUME Objects, NEW s \in Server
    PROVE  /\ server' = [server EXCEPT ![s].state = "running"] =>
                /\ OnlyServer(s) /\ server'[s].state = "running"
                /\ server'[s].owner = server[s].owner
           /\ server' = [server EXCEPT ![s] = NoServer] =>
                OnlyServer(s) /\ server'[s].state = "none"
BY DEF OnlyServer, Objects, Process, NoServer

\* The start of a server returns.
LEMMA StartReturnsMoves ==
    ASSUME Objects, StartAwaited, NEW c \in Client,
           StartReturns(c) \/ StartReturnsTooLate(c)
    PROVE  Starts(c)
<1> DEFINE o == [leanClient[c] EXCEPT !.running = TRUE]
<1>1. leanClient[c] \in Object
  BY DEF Objects
<1>2. /\ o \in Object /\ o.folder = leanClient[c].folder /\ o.client = leanClient[c].client
      /\ o.noPrompt = leanClient[c].noPrompt /\ o.prompt = leanClient[c].prompt
      /\ o.starting = leanClient[c].starting /\ o.running /\ o.task = leanClient[c].task
  BY <1>1 DEF Object
<1>3. /\ leanClient[c].task = "start"
      /\ leanClient[c].client \in {leanClient[c].starting, None}
      /\ leanClient' = [leanClient EXCEPT ![c] = TaskEnds(o)]
      /\ server' = [server EXCEPT ![leanClient[c].starting].state = "running"]
  BY <1>2 DEF StartReturns, StartReturnsTooLate
<1> HIDE DEF o
<1>4. leanClient[c].starting \in Server
  BY <1>3 DEF StartAwaited
<1> DEFINE n == TaskEnds(o)
<1>5. /\ n \in Object
      /\ n.folder = o.folder /\ n.prompt = o.prompt /\ n.client = o.client
      /\ n.running = o.running /\ n.noPrompt = o.noPrompt /\ n.task = "idle"
  BY <1>2, TaskEndsState
<1>6. OnlyClient(c) /\ leanClient'[c] = n
  BY <1>3, <1>5, Becomes
<1>7. /\ OnlyServer(leanClient[c].starting)
      /\ server'[leanClient[c].starting].state = "running"
      /\ server'[leanClient[c].starting].owner = server[leanClient[c].starting].owner
  BY <1>3, <1>4, ServerState
<1> HIDE DEF n
<1> QED
  BY <1>2, <1>3, <1>5, <1>6, <1>7 DEF Starts

\* The start of a server rejects.
LEMMA StartRejectsMoves ==
    ASSUME Objects, StartAwaited, NEW c \in Client, StartRejects(c)
    PROVE  StartFails(c)
<1> DEFINE o == [leanClient[c] EXCEPT !.running = FALSE,
                                      !.prompt = ~leanClient[c].noPrompt \/ @]
           n == IF IsStarted(o) THEN Cleared(o) ELSE o
<1>1. leanClient[c] \in Object
  BY DEF Objects
<1>2. /\ o \in Object /\ o.folder = leanClient[c].folder /\ o.client = leanClient[c].client
      /\ o.noPrompt = leanClient[c].noPrompt
      /\ o.starting = leanClient[c].starting /\ ~o.running /\ o.task = leanClient[c].task
  BY <1>1 DEF Object
<1>3. /\ "start" \in Mishaps /\ leanClient[c].task = "start"
      /\ leanClient' = [leanClient EXCEPT ![c] = TaskEnds(n)]
      /\ server' = [server EXCEPT ![leanClient[c].starting] = NoServer]
  BY <1>2 DEF StartRejects
<1> HIDE DEF o
<1>4. /\ n \in Object /\ n.folder = leanClient[c].folder /\ n.client = None /\ ~n.running
      /\ n.noPrompt => leanClient[c].noPrompt /\ leanClient[c].client = None
  BY <1>2, ClearedState DEF IsStarted
<1> HIDE DEF n
<1>5. leanClient[c].starting \in Server
  BY <1>3 DEF StartAwaited
<1> DEFINE m == TaskEnds(n)
<1>6. /\ m \in Object
      /\ m.folder = n.folder /\ m.client = n.client
      /\ m.running = n.running /\ m.noPrompt = n.noPrompt /\ m.task = "idle"
  BY <1>4, TaskEndsState
<1>7. OnlyClient(c) /\ leanClient'[c] = m
  BY <1>3, <1>6, Becomes
<1>8. /\ OnlyServer(leanClient[c].starting)
      /\ server'[leanClient[c].starting].state = "none"
  BY <1>3, <1>5, ServerState
<1> HIDE DEF m
<1> QED
  BY <1>3, <1>4, <1>6, <1>7, <1>8 DEF StartFails

\* A server crashes.
LEMMA ServerCrashesMoves ==
    ASSUME Objects, LiveOwned, NEW s \in Server, ServerCrashes(s)
    PROVE  server[s].owner \in Client /\ Exits(server[s].owner, s)
<1> DEFINE c == server[s].owner
           n == [leanClient[c] EXCEPT !.running = FALSE,
                                      !.prompt = ~leanClient[c].noPrompt \/ @]
<1>1. server[s].state = "running" /\ c \in Client
  BY DEF ServerCrashes, LiveOwned, Live
<1>2. leanClient[c] \in Object
  BY <1>1 DEF Objects
<1>3. leanClient' = [leanClient EXCEPT ![c] = n]
  BY <1>1 DEF ServerCrashes, Objects
<1>4. /\ n \in Object /\ n.folder = leanClient[c].folder /\ n.client = leanClient[c].client
      /\ n.noPrompt = leanClient[c].noPrompt
      /\ n.starting = leanClient[c].starting /\ ~n.running /\ n.task = leanClient[c].task
  BY <1>2 DEF Object
<1> HIDE DEF n
<1>5. OnlyClient(c) /\ leanClient'[c] = n
  BY <1>1, <1>3, <1>4, Becomes
<1>6. OnlyServer(s) /\ server'[s].state = "none"
  BY ServerState DEF ServerCrashes
<1> QED
  BY <1>1, <1>4, <1>5, <1>6 DEF Exits

\* A server has stopped.
LEMMA StopReturnsMoves ==
    ASSUME Objects, LiveOwned, NEW s \in Server, StopReturns(s)
    PROVE  server[s].owner \in Client /\ HasStopped(server[s].owner, s)
<1> DEFINE c == server[s].owner
           o == Cleared(leanClient[c])
           t == IF server[s].waiter # "task" THEN leanClient[c].task
                ELSE IF leanClient[c].task = "stop" THEN "toolchain" ELSE "action"
<1>1. server[s].state = "stopping" /\ c \in Client
  BY DEF StopReturns, LiveOwned, Live
<1>2. leanClient[c] \in Object
  BY <1>1 DEF Objects
<1>3. /\ o \in Object
      /\ o.folder = leanClient[c].folder /\ o.prompt = leanClient[c].prompt
      /\ o.starting = leanClient[c].starting /\ o.task = leanClient[c].task
      /\ o.client = None /\ ~o.running /\ ~o.noPrompt
  BY <1>2, ClearedState
<1>4. leanClient' = [leanClient EXCEPT ![c] =
         IF server[s].waiter # "task" THEN o
         ELSE [o EXCEPT !.task = IF @ = "stop" THEN "toolchain" ELSE "action"]]
  BY DEF StopReturns
<1> HIDE DEF o
<1> DEFINE n == IF server[s].waiter # "task" THEN o
                ELSE [o EXCEPT !.task = IF @ = "stop" THEN "toolchain" ELSE "action"]
<1>5. /\ n \in Object /\ n.folder = o.folder /\ n.prompt = o.prompt
      /\ n.starting = o.starting
      /\ n.client = o.client /\ n.running = o.running /\ n.noPrompt = o.noPrompt
      /\ n.task = t
  BY <1>3 DEF Object, Tasks
<1> HIDE DEF n
<1>6. OnlyClient(c) /\ leanClient'[c] = n
  BY <1>1, <1>4, <1>5, Becomes DEF n
<1>7. OnlyServer(s) /\ server'[s].state = "none"
  BY ServerState DEF StopReturns
<1> QED
  BY <1>1, <1>3, <1>5, <1>6, <1>7 DEF HasStopped
\* What a command finds is ready to be restarted.
LEMMA ReachableReady ==
    ASSUME NEW c \in Client, Reachable(c)
    PROVE  /\ leanClient[c].task = "idle" => Ready(c)
           /\ Patient => Ready(c)
BY DEF Reachable, Ready, Patient, IsRestarting

\* Nothing noted is noted.
LEMMA SameNoted ==
    ASSUME Objects, NEW c \in Client
    PROVE  Noted(c, leanClient[c])
BY DEF Objects, Noted

\* A restart that a command asks for.
LEMMA CommandRestarts ==
    ASSUME Objects, NEW c \in Client, NEW o, Noted(c, o), o.task = leanClient[c].task,
           Reachable(c), Restart(c, o)
    PROVE  Restarts(c)
BY RestartMoves, ReachableReady DEF Restarts

\* ensureClient and restart, for a new client or for one that was found.
LEMMA EnsureRestartedMoves ==
    ASSUME TypeOK, None \notin Client, NEW f \in Folder, EnsureRestarted(f)
    PROVE  Move
<1>1. CASE clients[f] = None
  BY <1>1 DEF EnsureRestarted, EnsureClient, Move, vars
<1>2. CASE clients[f] # None
  <2>1. clients[f] \in Client /\ ~Unused(clients[f])
    BY <1>2 DEF TypeOK, Unused
  <2>2. Reachable(clients[f]) /\ Restart(clients[f], leanClient[clients[f]])
    BY <1>2 DEF EnsureRestarted
  <2>3. Restarts(clients[f])
    BY <2>1, <2>2, ObjectsTyped, SameNoted, CommandRestarts
  <2> QED
    BY <2>1, <2>3 DEF Move
<1> QED
  BY <1>1, <1>2

\* Every step is a move.
LEMMA NextMoves ==
    ASSUME TypeOK, LiveOwned, StartAwaited, [Next]_vars
    PROVE  Move
<1>1. /\ None \notin Client /\ None \notin Server /\ setting.folders \subseteq Folder
      /\ Objects
  BY ProviderAssumption, ObjectsTyped DEF ProviderAssumption, TypeOK, Settings
<1>2. ASSUME NEW f \in setting.folders, EnsureClient(f) PROVE Move
  BY <1>2 DEF EnsureClient, Move, vars
<1>3. ASSUME NEW f \in setting.folders, InstallChanged(f) PROVE Move
  BY <1>1, <1>3, EnsureRestartedMoves DEF InstallChanged
<1>4. ASSUME NEW f \in setting.folders, StopOtherServer(f) PROVE Move
  <2>1. CASE clients[f] = None
    BY <1>4, <2>1 DEF StopOtherServer, Move
  <2>2. CASE clients[f] # None
    <3>1. clients[f] \in Client /\ ~Unused(clients[f])
      BY <1>1, <2>2 DEF TypeOK, Unused
    <3>2. Reachable(clients[f]) /\ StopClient(clients[f])
      BY <1>4, <2>2 DEF StopOtherServer
    <3> QED
      BY <1>1, <3>1, <3>2, ReachableReady, StopClientMoves DEF Move
  <2> QED
    BY <2>1, <2>2
<1>5. ASSUME NEW k \in Call, PreconditionsFatal(k) PROVE Move
  BY <1>5 DEF PreconditionsFatal, Move
<1>6. ASSUME NEW k \in Call, PreconditionsFulfilled(k) PROVE Move
  <2>1. checks[k].folder \in Folder
    BY <1>6 DEF PreconditionsFulfilled, TypeOK
  <2> QED
    BY <1>1, <1>6, <2>1, BornMoves DEF PreconditionsFulfilled, Move
<1>7. ASSUME NEW c \in Client, ElanFails(c) \/ ToolchainFails(c) PROVE Move
  <2>1. ServerFails(c, leanClient[c]) /\ leanClient[c].task \in {"elan", "toolchain"}
    BY <1>7 DEF ElanFails, ToolchainFails
  <2> QED
    BY <1>1, <2>1, ServerFailsMoves DEF Move, Unused
<1>8. ASSUME NEW c \in Client, ElanAnswers(c) PROVE Move
  BY <1>1, <1>8, SameNoted, RestartFromMoves DEF ElanAnswers, Move, Unused
<1>9. ASSUME NEW c \in Client, SetUpClient(c) PROVE Move
  BY <1>1, <1>9, SetUpClientMoves DEF SetsUp, Move, Unused
<1>10. ASSUME NEW c \in Client, StartReturns(c) \/ StartReturnsTooLate(c) PROVE Move
  BY <1>1, <1>10, StartReturnsMoves DEF Starts, Move, Unused
<1>11. ASSUME NEW c \in Client, StartRejects(c) PROVE Move
  BY <1>1, <1>11, StartRejectsMoves DEF StartFails, Move, Unused
<1>12. ASSUME NEW c \in Client, PromptAnswered(c) PROVE Move
  <2> DEFINE o == [leanClient[c] EXCEPT !.prompt = FALSE]
  <2>1. Noted(c, o) /\ o.task = leanClient[c].task
    BY <1>1 DEF Noted, Object, Objects
  <2>2. leanClient[c].prompt
    BY <1>12 DEF PromptAnswered
  <2>3. \/ Reachable(c) /\ Restart(c, o)
        \/ leanClient' = [leanClient EXCEPT ![c] = o] /\ UNCHANGED server
    BY <1>12 DEF PromptAnswered
  <2> HIDE DEF o
  <2>4. CASE Reachable(c) /\ Restart(c, o)
    BY <1>1, <2>1, <2>2, <2>4, CommandRestarts DEF Move, Unused
  <2>5. CASE leanClient' = [leanClient EXCEPT ![c] = o] /\ UNCHANGED server
    <3>1. Notes(c, leanClient[c].task)
      BY <1>1, <2>1, <2>5, Becomes DEF Noted, Notes
    <3> QED
      BY <2>2, <3>1 DEF Move, Restarts, Unused
  <2> QED
    BY <2>3, <2>4, <2>5
<1>13. ASSUME NEW c \in Client, EndOperation(c) PROVE Move
  <2> DEFINE o == [leanClient[c] EXCEPT !.task = "idle"]
  <2>1. leanClient[c].task = "action" /\ Restart(c, o)
    BY <1>13 DEF EndOperation
  <2>2. Noted(c, o) /\ o.task = "idle"
    BY <1>1 DEF Noted, Object, Objects, Tasks
  <2> HIDE DEF o
  <2> QED
    BY <1>1, <2>1, <2>2, RestartMoves DEF Move, Restarts, Unused
<1>14. ASSUME NEW s \in Server, ServerCrashes(s) PROVE Move
  BY <1>1, <1>14, ServerCrashesMoves DEF Exits, Move, Unused, Live
<1>15. ASSUME NEW s \in Server, StopReturns(s) PROVE Move
  BY <1>1, <1>15, StopReturnsMoves DEF HasStopped, Move, Unused, Live
<1>16. CASE StopServer
  <2>1. activeClient \in Client /\ ~Unused(activeClient)
    BY <1>16 DEF StopServer, TypeOK, Unused
  <2> QED
    BY <1>1, <1>16, <2>1, ReachableReady, StopClientMoves DEF StopServer, Move
<1>17. CASE RestartServer
  <2>1. CASE activeClient = None
    BY <1>1, <1>17, <2>1, EnsureRestartedMoves DEF RestartServer
  <2>2. CASE activeClient # None
    <3>1. activeClient \in Client /\ ~Unused(activeClient)
      BY <2>2 DEF TypeOK, Unused
    <3>2. Reachable(activeClient) /\ Restart(activeClient, leanClient[activeClient])
      BY <1>17, <2>2 DEF RestartServer
    <3> QED
      BY <1>1, <3>1, <3>2, SameNoted, CommandRestarts DEF Move
  <2> QED
    BY <2>1, <2>2
<1>18. CASE BeginOperation
  <2>1. activeClient \in Client /\ ~Unused(activeClient)
    BY <1>18 DEF BeginOperation, TypeOK, Unused
  <2> QED
    BY <1>1, <1>18, <2>1, ReachableReady, BeginOperationMoves DEF Move
<1>19. CASE UNCHANGED vars
  BY <1>19 DEF vars, Move
<1> QED
  BY <1>2, <1>3, <1>4, <1>5, <1>6, <1>7, <1>8, <1>9, <1>10, <1>11, <1>12, <1>13,
     <1>14, <1>15, <1>16, <1>17, <1>18, <1>19 DEF Next
\* Only the making of a client refers to one that was unused.
LEMMA UnusedNotFound ==
    ASSUME TypeOK, [Next]_vars, NEW c \in Client, Unused(c)
    PROVE  \/ (\A f \in Folder : clients'[f] # c) /\ activeClient' # c
           \/ \E f \in Folder : Born(c, f)
<1> DEFINE Same == (\A f \in Folder : clients'[f] # c) /\ activeClient' # c
<1>1. /\ None \notin Client /\ None \notin Server /\ setting.folders \subseteq Folder
      /\ Objects
  BY ProviderAssumption, ObjectsTyped DEF ProviderAssumption, TypeOK, Settings
<1>2. (\A f \in Folder : clients[f] # c) /\ activeClient # c /\ leanClient[c].task = "idle"
  BY DEF Unused
<1>3. ASSUME NEW d \in Client, Forget(d) PROVE Same
  BY <1>1, <1>2, <1>3 DEF Forget, TypeOK
<1>4. ASSUME NEW d \in Client, StopClient(d) PROVE Same
  BY <1>2, <1>3, <1>4 DEF StopClient
<1>5. ASSUME NEW d \in Client, d # c, EnsureReturns(d, leanClient[d], activeClient),
             UNCHANGED clients PROVE Same
  BY <1>2, <1>5 DEF EnsureReturns
<1>6. ASSUME NEW d \in Client, d # c, ServerFails(d, leanClient[d]),
             EnsureReturns(d, leanClient[d], Deactivated(d)) PROVE Same
  BY <1>1, <1>2, <1>6 DEF ServerFails, EnsureReturns, Deactivated, TypeOK
<1>7. ASSUME NEW f \in Folder, EnsureRestarted(f) PROVE Same
  BY <1>2, <1>7 DEF EnsureRestarted, EnsureClient, vars
<1>8. ASSUME NEW f \in setting.folders,
             EnsureClient(f) \/ InstallChanged(f) \/ StopOtherServer(f) PROVE Same
  <2>1. CASE EnsureClient(f)
    BY <1>1, <1>2, <2>1 DEF EnsureClient, vars
  <2>2. CASE InstallChanged(f)
    BY <1>1, <1>7, <2>2 DEF InstallChanged
  <2>3. CASE StopOtherServer(f)
    BY <1>1, <1>2, <1>4, <2>3 DEF StopOtherServer, TypeOK
  <2> QED
    BY <1>8, <2>1, <2>2, <2>3
<1>9. ASSUME NEW k \in Call, PreconditionsFatal(k) PROVE Same
  BY <1>1, <1>2, <1>9 DEF PreconditionsFatal
<1>10. ASSUME NEW k \in Call, PreconditionsFulfilled(k)
       PROVE  Same \/ \E f \in Folder : Born(c, f)
  <2>1. checks[k].folder \in Folder
    BY <1>10 DEF PreconditionsFulfilled, TypeOK
  <2>2. PICK d \in Client :
            /\ clients' = [clients EXCEPT ![checks[k].folder] = d]
            /\ Restart(d, [NewClient(checks[k].folder) EXCEPT !.awaited = "ensure"])
            /\ UNCHANGED activeClient
    BY <1>10 DEF PreconditionsFulfilled
  <2>3. CASE d = c
    BY <1>1, <2>1, <2>2, <2>3, BornMoves
  <2>4. CASE d # c
    BY <1>2, <2>2, <2>4 DEF TypeOK
  <2> QED
    BY <2>3, <2>4
<1>11. ASSUME NEW d \in Client, ElanFails(d) \/ ToolchainFails(d) PROVE Same
  BY <1>2, <1>6, <1>11 DEF ElanFails, ToolchainFails
<1>12. ASSUME NEW d \in Client,
              ElanAnswers(d) \/ SetUpClient(d) \/ PromptAnswered(d) \/ EndOperation(d)
       PROVE  Same
  BY <1>2, <1>12 DEF ElanAnswers, SetUpClient, PromptAnswered, EndOperation
<1>13. ASSUME NEW d \in Client, StartReturns(d) PROVE Same
  BY <1>2, <1>5, <1>13 DEF StartReturns
<1>14. ASSUME NEW d \in Client, StartReturnsTooLate(d) \/ StartRejects(d) PROVE Same
  BY <1>1, <1>2, <1>14 DEF StartReturnsTooLate, StartRejects, Deactivated, TypeOK
<1>15. ASSUME NEW s \in Server, ServerCrashes(s) PROVE Same
  BY <1>2, <1>15 DEF ServerCrashes
<1>16. ASSUME NEW s \in Server, StopReturns(s) PROVE Same
  BY <1>1, <1>2, <1>16 DEF StopReturns, Forget, TypeOK
<1>17. CASE StopServer
  BY <1>4, <1>17 DEF StopServer, TypeOK
<1>18. CASE RestartServer
  BY <1>1, <1>2, <1>7, <1>18 DEF RestartServer
<1>19. CASE BeginOperation
  BY <1>2, <1>19 DEF BeginOperation
<1>20. CASE UNCHANGED vars
  BY <1>2, <1>20 DEF vars
<1> QED
  BY <1>8, <1>9, <1>10, <1>11, <1>12, <1>13, <1>14, <1>15, <1>16, <1>17, <1>18, <1>19,
     <1>20 DEF Next

\* So an unused client stays unused until it is made again.
LEMMA UnusedStays ==
    ASSUME TypeOK, Move, LiveOwned, OwnServer, StartAwaited, [Next]_vars,
           NEW c \in Client, Unused(c)
    PROVE  Unused(c)' \/ \E f \in Folder : Born(c, f)
<1> SUFFICES ASSUME ~ \E f \in Folder : Born(c, f)
             PROVE  Unused(c)'
  OBVIOUS
<1>1. (\A f \in Folder : clients'[f] # c) /\ activeClient' # c
  BY UnusedNotFound
<1>2. None \notin Server
  BY ProviderAssumption DEF ProviderAssumption
<1>3. leanClient'[c] = leanClient[c]
      /\ \A s \in Server : Live(s)' => \/ Live(s) /\ server'[s].owner = server[s].owner
                                       \/ server'[s].owner # c
  <2>1. CASE UNCHANGED <<leanClient, server>>
    BY <2>1 DEF Live
  <2>2. ASSUME NEW d \in Client, NEW f \in Folder, Born(d, f)
        PROVE  <1>3
    BY <2>2 DEF Born, OnlyClient, Live
  <2>3. ASSUME NEW d \in Client, d # c, NEW t, Notes(d, t)
        PROVE  <1>3
    BY <2>3 DEF Notes, OnlyClient, Live
  <2>4. ASSUME NEW d \in Client, d # c, NEW w, NEW t, NEW u, Stops(d, w, t, u)
        PROVE  <1>3
    BY <2>4 DEF Stops, OnlyClient, OnlyServer, Live
  <2>5. ASSUME NEW d \in Client, d # c, Starts(d) \/ StartFails(d)
        PROVE  <1>3
    BY <2>5 DEF Starts, StartFails, OnlyClient, OnlyServer, Live, StartAwaited
  <2>6. ASSUME NEW d \in Client, d # c, NEW s \in Server,
               SetsUp(d, s) \/ Exits(d, s) \/ HasStopped(d, s)
        PROVE  <1>3
    BY <2>6 DEF SetsUp, Exits, HasStopped, OnlyClient, OnlyServer, Live
  <2> QED
    BY <2>1, <2>2, <2>3, <2>4, <2>5, <2>6 DEF Move, Restarts
<1> QED
  BY <1>1, <1>3 DEF Unused

\* Which tasks are noted, and of which clients.
MayNote(c, task) ==
    /\ Notes(c, task)
    /\ \/ task = leanClient[c].task
       \/ task = "elan" /\ (Ready(c) \/ leanClient[c].task = "action")

\* Which stops there are, and of which clients.
MayStop(c, waiter, waits, goes) ==
    LET task == leanClient[c].task IN
    /\ Stops(c, waiter, waits, goes)
    /\ waits \in {"stop", "actionStop", "idle", task}
    /\ goes \in {"toolchain", "action", "idle", task}
    /\ waiter = "stopClient" => waits = task /\ goes = task
    /\ Patient => Ready(c) \/ task \in {"action", "elan", "toolchain"}
    /\ Patient /\ task \in {waits, goes} => Ready(c)

\* The moves, one by one.
LEMMA MoveCases ==
    ASSUME Move
    PROVE
    \/ UNCHANGED <<leanClient, server>>
    \/ \E c \in Client : Unused(c) /\ \E f \in Folder : Born(c, f)
    \/ \E c \in Client :
        /\ ~Unused(c)
        /\ \/ \E task : MayNote(c, task)
           \/ \E waiter, waits, goes : MayStop(c, waiter, waits, goes)
           \/ Starts(c) \/ StartFails(c)
           \/ \E s \in Server : SetsUp(c, s) \/ Exits(c, s) \/ HasStopped(c, s)
<1>1. ASSUME NEW c \in Client, Restarts(c)
      PROVE  \/ \E task : MayNote(c, task)
             \/ MayStop(c, "task", "stop", "toolchain")
  BY <1>1 DEF Restarts, MayStop, MayNote
<1>2. ASSUME NEW c \in Client,
             \/ leanClient[c].task = "elan" /\ Stops(c, "task", "stop", "toolchain")
             \/ Ready(c) /\ Stops(c, "task", "actionStop", "action")
             \/ (Patient => Ready(c)) /\ Stops(c, "stopClient",
                                               leanClient[c].task, leanClient[c].task)
             \/ /\ leanClient[c].task \in {"elan", "toolchain"}
                /\ Stops(c, "dispose", "idle", "idle")
      PROVE  \E waiter, waits, goes : MayStop(c, waiter, waits, goes)
  BY <1>2 DEF MayStop
<1> QED
  BY <1>1, <1>2 DEF Move

\* A server keeps its owner.
LEMMA LiveOwnedStep ==
    ASSUME TypeOK, Move, LiveOwned, StartAwaited
    PROVE  LiveOwned'
<1> SUFFICES ASSUME NEW r \in Server, Live(r)'
             PROVE  server'[r].owner \in Client
  BY DEF LiveOwned
<1> DEFINE Goal == server'[r].owner \in Client
<1>1. ASSUME UNCHANGED <<leanClient, server>> PROVE Goal
  BY <1>1 DEF LiveOwned, Live
<1>2. ASSUME NEW c \in Client, Unused(c), NEW f \in Folder, Born(c, f) PROVE Goal
  BY <1>2 DEF Born, LiveOwned, Live
<1>3. ASSUME NEW c \in Client, ~Unused(c), NEW task, MayNote(c, task) PROVE Goal
  BY <1>3 DEF MayNote, Notes, LiveOwned, Live
<1>4. ASSUME NEW c \in Client, ~Unused(c), NEW waiter, NEW waits, NEW goes,
             MayStop(c, waiter, waits, goes) PROVE Goal
  BY <1>4 DEF Stops, MayStop, OnlyServer, LiveOwned, Live
<1>5. ASSUME NEW c \in Client, ~Unused(c), Starts(c) PROVE Goal
  BY <1>5 DEF Starts, OnlyServer, LiveOwned, StartAwaited, Live
<1>6. ASSUME NEW c \in Client, ~Unused(c), StartFails(c) PROVE Goal
  BY <1>6 DEF StartFails, OnlyServer, LiveOwned, Live
<1>7. ASSUME NEW c \in Client, ~Unused(c), NEW s \in Server, SetsUp(c, s) PROVE Goal
  BY <1>7 DEF SetsUp, OnlyServer, LiveOwned, Live
<1>8. ASSUME NEW c \in Client, ~Unused(c), NEW s \in Server, Exits(c, s) PROVE Goal
  BY <1>8 DEF Exits, OnlyServer, LiveOwned, Live
<1>9. ASSUME NEW c \in Client, ~Unused(c), NEW s \in Server, HasStopped(c, s) PROVE Goal
  BY <1>9 DEF HasStopped, OnlyServer, LiveOwned, Live
<1> HIDE DEF Goal
<1> QED
  <2> Goal
    BY <1>1, <1>2, <1>3, <1>4, <1>5, <1>6, <1>7, <1>8, <1>9, MoveCases
  <2> QED
    BY DEF Goal

\* Only the start itself ends what a restart awaits.
LEMMA StartAwaitedStep ==
    ASSUME TypeOK, Move, LiveOwned, StartAwaited
    PROVE  StartAwaited'
<1> SUFFICES ASSUME NEW d \in Client, leanClient'[d].task = "start"
             PROVE  /\ leanClient'[d].starting \in Server
                    /\ server'[leanClient'[d].starting].state = "starting"
                    /\ server'[leanClient'[d].starting].owner = d
  BY DEF StartAwaited
<1> DEFINE Goal == /\ leanClient'[d].starting \in Server
                   /\ server'[leanClient'[d].starting].state = "starting"
                   /\ server'[leanClient'[d].starting].owner = d
<1>1. ASSUME UNCHANGED <<leanClient, server>> PROVE Goal
  BY <1>1 DEF StartAwaited
<1>2. ASSUME NEW c \in Client, Unused(c), NEW f \in Folder, Born(c, f) PROVE Goal
  BY <1>2 DEF Born, OnlyClient, StartAwaited
<1>3. ASSUME NEW c \in Client, ~Unused(c), NEW task, MayNote(c, task) PROVE Goal
  BY <1>3 DEF MayNote, Notes, OnlyClient, StartAwaited
<1>4. ASSUME NEW c \in Client, ~Unused(c), NEW waiter, NEW waits, NEW goes,
             MayStop(c, waiter, waits, goes) PROVE Goal
  BY <1>4 DEF Stops, MayStop, OnlyClient, OnlyServer, StartAwaited
<1>5. ASSUME NEW c \in Client, ~Unused(c), Starts(c) PROVE Goal
  BY <1>5 DEF Starts, OnlyClient, OnlyServer, StartAwaited
<1>6. ASSUME NEW c \in Client, ~Unused(c), StartFails(c) PROVE Goal
  BY <1>6 DEF StartFails, OnlyClient, OnlyServer, StartAwaited
<1>7. ASSUME NEW c \in Client, ~Unused(c), NEW s \in Server, SetsUp(c, s) PROVE Goal
  BY <1>7 DEF SetsUp, Free, OnlyClient, OnlyServer, StartAwaited, Live
<1>8. ASSUME NEW c \in Client, ~Unused(c), NEW s \in Server, Exits(c, s) PROVE Goal
  BY <1>8 DEF Exits, OnlyClient, OnlyServer, StartAwaited
<1>9. ASSUME NEW c \in Client, ~Unused(c), NEW s \in Server, HasStopped(c, s) PROVE Goal
  BY <1>9 DEF HasStopped, OnlyClient, OnlyServer, StartAwaited
<1> HIDE DEF Goal
<1> QED
  <2> Goal
    BY <1>1, <1>2, <1>3, <1>4, <1>5, <1>6, <1>7, <1>8, <1>9, MoveCases
  <2> QED
    BY DEF Goal

\* The tasks without a server.
LEMMA WithoutServerStep ==
    ASSUME TypeOK, Move, WithoutServer
    PROVE  WithoutServer'
<1> SUFFICES ASSUME NEW d \in Client, leanClient'[d].task \in {"toolchain", "action"}
             PROVE  leanClient'[d].client = None
  BY DEF WithoutServer, IsStarted
<1> DEFINE Goal == leanClient'[d].client = None
<1>1. ASSUME UNCHANGED <<leanClient, server>> PROVE Goal
  BY <1>1 DEF WithoutServer, IsStarted
<1>2. ASSUME NEW c \in Client, Unused(c), NEW f \in Folder, Born(c, f) PROVE Goal
  BY <1>2 DEF Born, OnlyClient, WithoutServer, IsStarted
<1>3. ASSUME NEW c \in Client, ~Unused(c), NEW task, MayNote(c, task) PROVE Goal
  BY <1>3 DEF MayNote, Notes, OnlyClient, WithoutServer, IsStarted
<1>4. ASSUME NEW c \in Client, ~Unused(c), NEW waiter, NEW waits, NEW goes,
             MayStop(c, waiter, waits, goes) PROVE Goal
  BY <1>4 DEF Stops, MayStop, OnlyClient, WithoutServer, IsStarted
<1>5. ASSUME NEW c \in Client, ~Unused(c), Starts(c) PROVE Goal
  BY <1>5 DEF Starts, OnlyClient, WithoutServer, IsStarted
<1>6. ASSUME NEW c \in Client, ~Unused(c), StartFails(c) PROVE Goal
  BY <1>6 DEF StartFails, OnlyClient, WithoutServer, IsStarted
<1>7. ASSUME NEW c \in Client, ~Unused(c), NEW s \in Server, SetsUp(c, s) PROVE Goal
  BY <1>7 DEF SetsUp, OnlyClient, WithoutServer, IsStarted
<1>8. ASSUME NEW c \in Client, ~Unused(c), NEW s \in Server, Exits(c, s) PROVE Goal
  BY <1>8 DEF Exits, OnlyClient, WithoutServer, IsStarted
<1>9. ASSUME NEW c \in Client, ~Unused(c), NEW s \in Server, HasStopped(c, s) PROVE Goal
  BY <1>9 DEF HasStopped, OnlyClient, WithoutServer, IsStarted
<1> HIDE DEF Goal
<1> QED
  <2> Goal
    BY <1>1, <1>2, <1>3, <1>4, <1>5, <1>6, <1>7, <1>8, <1>9, MoveCases
  <2> QED
    BY DEF Goal

\* The suppressed prompt ends with the stop.
LEMMA OwnStopStep ==
    ASSUME TypeOK, Move, LiveOwned, OwnServer, StartAwaited, OwnStop, WithoutServer
    PROVE  OwnStop'
<1> SUFFICES ASSUME NEW d \in Client, leanClient'[d].noPrompt
             PROVE  /\ leanClient'[d].client \in Server
                    /\ server'[leanClient'[d].client].state = "stopping"
                    /\ server'[leanClient'[d].client].owner = d
  BY DEF OwnStop
<1> DEFINE Goal == /\ leanClient'[d].client \in Server
                   /\ server'[leanClient'[d].client].state = "stopping"
                   /\ server'[leanClient'[d].client].owner = d
<1>1. ASSUME UNCHANGED <<leanClient, server>> PROVE Goal
  BY <1>1 DEF OwnStop
<1>2. ASSUME NEW c \in Client, Unused(c), NEW f \in Folder, Born(c, f) PROVE Goal
  BY <1>2 DEF Born, OnlyClient, OwnStop
<1>3. ASSUME NEW c \in Client, ~Unused(c), NEW task, MayNote(c, task) PROVE Goal
  BY <1>3 DEF MayNote, Notes, OnlyClient, OwnStop
<1>4. ASSUME NEW c \in Client, ~Unused(c), NEW waiter, NEW waits, NEW goes,
             MayStop(c, waiter, waits, goes) PROVE Goal
  BY <1>4 DEF Stops, MayStop, OnlyClient, OnlyServer, OwnServer, OwnStop, Live
<1>5. ASSUME NEW c \in Client, ~Unused(c), Starts(c) PROVE Goal
  BY <1>5 DEF Starts, OnlyClient, OnlyServer, StartAwaited, OwnStop
<1>6. ASSUME NEW c \in Client, ~Unused(c), StartFails(c) PROVE Goal
  BY <1>6 DEF StartFails, OnlyClient, OnlyServer, StartAwaited, OwnStop
<1>7. ASSUME NEW c \in Client, ~Unused(c), NEW s \in Server, SetsUp(c, s) PROVE Goal
  BY <1>7, NoneOutside
     DEF SetsUp, Free, OnlyClient, OnlyServer, OwnStop, WithoutServer, IsStarted, Live
<1>8. ASSUME NEW c \in Client, ~Unused(c), NEW s \in Server, Exits(c, s) PROVE Goal
  BY <1>8 DEF Exits, OnlyClient, OnlyServer, OwnStop
<1>9. ASSUME NEW c \in Client, ~Unused(c), NEW s \in Server, HasStopped(c, s) PROVE Goal
  BY <1>9 DEF HasStopped, OnlyClient, OnlyServer, OwnStop
<1> HIDE DEF Goal
<1> QED
  <2> Goal
    BY <1>1, <1>2, <1>3, <1>4, <1>5, <1>6, <1>7, <1>8, <1>9, MoveCases
  <2> QED
    BY DEF Goal

\* A server in use is not given away.
LEMMA OwnServerStep ==
    ASSUME TypeOK, Move, LiveOwned, OwnServer, StartAwaited, WithoutServer, [Next]_vars
    PROVE  OwnServer'
<1> SUFFICES ASSUME NEW d \in Client, ~Unused(d)', leanClient'[d].client \in Server,
                    Live(leanClient[d].client)'
             PROVE  server'[leanClient'[d].client].owner = d
  BY DEF OwnServer
<1>0. ~Unused(d) \/ leanClient'[d].client = None
  BY UnusedStays DEF Born
<1> DEFINE Goal == server'[leanClient'[d].client].owner = d
<1>1. ASSUME UNCHANGED <<leanClient, server>> PROVE Goal
  BY <1>1, NoneOutside, <1>0 DEF OwnServer, Live
<1>2. ASSUME NEW c \in Client, Unused(c), NEW f \in Folder, Born(c, f) PROVE Goal
  BY <1>2, NoneOutside, <1>0 DEF Born, OnlyClient, OwnServer, Live
<1>3. ASSUME NEW c \in Client, ~Unused(c), NEW task, MayNote(c, task) PROVE Goal
  BY <1>3, NoneOutside, <1>0 DEF MayNote, Notes, OnlyClient, OwnServer, Live
<1>4. ASSUME NEW c \in Client, ~Unused(c), NEW waiter, NEW waits, NEW goes,
             MayStop(c, waiter, waits, goes) PROVE Goal
  BY <1>4, NoneOutside, <1>0 DEF Stops, MayStop, OnlyClient, OnlyServer, OwnServer, Live
<1>5. ASSUME NEW c \in Client, ~Unused(c), Starts(c) PROVE Goal
  BY <1>5, NoneOutside, <1>0
     DEF Starts, OnlyClient, OnlyServer, OwnServer, StartAwaited, Live
<1>6. ASSUME NEW c \in Client, ~Unused(c), StartFails(c) PROVE Goal
  BY <1>6, NoneOutside, <1>0 DEF StartFails, OnlyClient, OnlyServer, OwnServer, Live
<1>7. ASSUME NEW c \in Client, ~Unused(c), NEW s \in Server, SetsUp(c, s) PROVE Goal
  BY <1>7, NoneOutside, <1>0 DEF SetsUp, Free, OnlyClient, OnlyServer, OwnServer, Live
<1>8. ASSUME NEW c \in Client, ~Unused(c), NEW s \in Server, Exits(c, s) PROVE Goal
  BY <1>8, NoneOutside, <1>0 DEF Exits, OnlyClient, OnlyServer, OwnServer, Live
<1>9. ASSUME NEW c \in Client, ~Unused(c), NEW s \in Server, HasStopped(c, s) PROVE Goal
  BY <1>9, NoneOutside, <1>0 DEF HasStopped, OnlyClient, OnlyServer, OwnServer, Live
<1> HIDE DEF Goal
<1> QED
  <2> Goal
    BY <1>1, <1>2, <1>3, <1>4, <1>5, <1>6, <1>7, <1>8, <1>9, MoveCases
  <2> QED
    BY DEF Goal

\* A client learns of the end of its server in the step that ends it.
LEMMA OwnRunningStep ==
    ASSUME Patient, TypeOK, Move, Always, PatientInv
    PROVE  OwnRunning'
<1> SUFFICES ASSUME NEW d \in Client, leanClient'[d].running
             PROVE  /\ leanClient'[d].client \in Server
                    /\ server'[leanClient'[d].client].state = "running"
                    /\ server'[leanClient'[d].client].owner = d
  BY DEF OwnRunning
<1> DEFINE Goal == /\ leanClient'[d].client \in Server
                   /\ server'[leanClient'[d].client].state = "running"
                   /\ server'[leanClient'[d].client].owner = d
<1>1. ASSUME UNCHANGED <<leanClient, server>> PROVE Goal
  BY <1>1 DEF PatientInv, OwnRunning
<1>2. ASSUME NEW c \in Client, Unused(c), NEW f \in Folder, Born(c, f) PROVE Goal
  BY <1>2 DEF Born, OnlyClient, PatientInv, OwnRunning
<1>3. ASSUME NEW c \in Client, ~Unused(c), NEW task, MayNote(c, task) PROVE Goal
  BY <1>3 DEF MayNote, Notes, OnlyClient, PatientInv, OwnRunning
<1>4. ASSUME NEW c \in Client, ~Unused(c), NEW waiter, NEW waits, NEW goes,
             MayStop(c, waiter, waits, goes) PROVE Goal
  BY <1>4 DEF Stops, MayStop, OnlyClient, OnlyServer, PatientInv, OwnRunning
<1>5. ASSUME NEW c \in Client, ~Unused(c), Starts(c) PROVE Goal
  BY <1>5
     DEF Starts, OnlyClient, OnlyServer, Always, PatientInv, StartAwaited, KnownServer,
     OwnRunning, Live
<1>6. ASSUME NEW c \in Client, ~Unused(c), StartFails(c) PROVE Goal
  BY <1>6
     DEF StartFails, OnlyClient, OnlyServer, Always, PatientInv, StartAwaited, OwnRunning
<1>7. ASSUME NEW c \in Client, ~Unused(c), NEW s \in Server, SetsUp(c, s) PROVE Goal
  BY <1>7, NoneOutside
     DEF SetsUp, Free, OnlyClient, OnlyServer, Always, PatientInv, WithoutServer,
     OwnRunning, IsStarted, Live
<1>8. ASSUME NEW c \in Client, ~Unused(c), NEW s \in Server, Exits(c, s) PROVE Goal
  BY <1>8 DEF Exits, OnlyClient, OnlyServer, PatientInv, OwnRunning
<1>9. ASSUME NEW c \in Client, ~Unused(c), NEW s \in Server, HasStopped(c, s) PROVE Goal
  BY <1>9 DEF HasStopped, OnlyClient, OnlyServer, PatientInv, OwnRunning
<1> HIDE DEF Goal
<1> QED
  <2> Goal
    BY <1>1, <1>2, <1>3, <1>4, <1>5, <1>6, <1>7, <1>8, <1>9, MoveCases
  <2> QED
    BY DEF Goal

\* A client lets go of its server only when the server has ended.
LEMMA KnownServerStep ==
    ASSUME Patient, TypeOK, Move, Always, PatientInv
    PROVE  KnownServer'
<1> SUFFICES ASSUME NEW r \in Server, Live(r)'
             PROVE  /\ leanClient'[server'[r].owner].client = r
                    /\ server'[r].state = "starting" =>
                         leanClient'[server'[r].owner].task = "start"
                    /\ server'[r].state = "running" => leanClient'[server'[r].owner].running
                    /\ server'[r].state = "stopping" => leanClient'[server'[r].owner].noPrompt
  BY DEF KnownServer
<1> DEFINE Goal == /\ leanClient'[server'[r].owner].client = r
                   /\ server'[r].state = "starting" =>
                        leanClient'[server'[r].owner].task = "start"
                   /\ server'[r].state = "running" => leanClient'[server'[r].owner].running
                   /\ server'[r].state = "stopping" => leanClient'[server'[r].owner].noPrompt
<1>1. ASSUME UNCHANGED <<leanClient, server>> PROVE Goal
  BY <1>1 DEF PatientInv, KnownServer, Live
<1>2. ASSUME NEW c \in Client, Unused(c), NEW f \in Folder, Born(c, f) PROVE Goal
  BY <1>2 DEF Born, OnlyClient, Always, PatientInv, LiveOwned, KnownServer, Live, Unused
<1>3. ASSUME NEW c \in Client, ~Unused(c), NEW task, MayNote(c, task) PROVE Goal
  BY <1>3
     DEF MayNote, Notes, OnlyClient, Ready, Always, PatientInv, LiveOwned, KnownServer, Live
<1>4. ASSUME NEW c \in Client, ~Unused(c), NEW waiter, NEW waits, NEW goes,
             MayStop(c, waiter, waits, goes) PROVE Goal
  BY <1>4, NoneOutside
     DEF Stops, MayStop, OnlyClient, OnlyServer, Ready, Always, PatientInv, LiveOwned,
     OwnServer, WithoutServer, KnownServer, ElanFirst, IsStarted, Live
<1>5. ASSUME NEW c \in Client, ~Unused(c), Starts(c) PROVE Goal
  BY <1>5
     DEF Starts, OnlyClient, OnlyServer, Always, PatientInv, LiveOwned, StartAwaited,
     KnownServer, Live
<1>6. ASSUME NEW c \in Client, ~Unused(c), StartFails(c) PROVE Goal
  BY <1>6
     DEF StartFails, OnlyClient, OnlyServer, Always, PatientInv, LiveOwned, StartAwaited,
     KnownServer, Live
<1>7. ASSUME NEW c \in Client, ~Unused(c), NEW s \in Server, SetsUp(c, s) PROVE Goal
  BY <1>7, NoneOutside
     DEF SetsUp, OnlyClient, OnlyServer, Always, PatientInv, LiveOwned, WithoutServer,
     KnownServer, IsStarted, Live
<1>8. ASSUME NEW c \in Client, ~Unused(c), NEW s \in Server, Exits(c, s) PROVE Goal
  BY <1>8
     DEF Exits, OnlyClient, OnlyServer, Always, PatientInv, LiveOwned, KnownServer, Live
<1>9. ASSUME NEW c \in Client, ~Unused(c), NEW s \in Server, HasStopped(c, s) PROVE Goal
  BY <1>9
     DEF HasStopped, OnlyClient, OnlyServer, Always, PatientInv, LiveOwned, KnownServer,
     Live
<1> HIDE DEF Goal
<1> QED
  <2> Goal
    BY <1>1, <1>2, <1>3, <1>4, <1>5, <1>6, <1>7, <1>8, <1>9, MoveCases
  <2> QED
    BY DEF Goal

\* elan is asked only on behalf of a client whose server is not stopping.
LEMMA ElanFirstStep ==
    ASSUME Patient, TypeOK, Move, Always, PatientInv
    PROVE  ElanFirst'
<1> SUFFICES ASSUME NEW d \in Client, leanClient'[d].task = "elan"
             PROVE  ~leanClient'[d].noPrompt
  BY DEF ElanFirst
<1> DEFINE Goal == ~leanClient'[d].noPrompt
<1>1. ASSUME UNCHANGED <<leanClient, server>> PROVE Goal
  BY <1>1 DEF PatientInv, ElanFirst
<1>2. ASSUME NEW c \in Client, Unused(c), NEW f \in Folder, Born(c, f) PROVE Goal
  BY <1>2 DEF Born, OnlyClient, PatientInv, ElanFirst
<1>3. ASSUME NEW c \in Client, ~Unused(c), NEW task, MayNote(c, task) PROVE Goal
  BY <1>3, NoneOutside
     DEF MayNote, Notes, OnlyClient, Ready, Always, PatientInv, OwnStop, WithoutServer,
     ElanFirst, IsStarted
<1>4. ASSUME NEW c \in Client, ~Unused(c), NEW waiter, NEW waits, NEW goes,
             MayStop(c, waiter, waits, goes) PROVE Goal
  BY <1>4 DEF Stops, MayStop, OnlyClient, Ready, PatientInv, ElanFirst
<1>5. ASSUME NEW c \in Client, ~Unused(c), Starts(c) PROVE Goal
  BY <1>5 DEF Starts, OnlyClient, PatientInv, ElanFirst
<1>6. ASSUME NEW c \in Client, ~Unused(c), StartFails(c) PROVE Goal
  BY <1>6 DEF StartFails, OnlyClient, PatientInv, ElanFirst
<1>7. ASSUME NEW c \in Client, ~Unused(c), NEW s \in Server, SetsUp(c, s) PROVE Goal
  BY <1>7 DEF SetsUp, OnlyClient, PatientInv, ElanFirst
<1>8. ASSUME NEW c \in Client, ~Unused(c), NEW s \in Server, Exits(c, s) PROVE Goal
  BY <1>8 DEF Exits, OnlyClient, PatientInv, ElanFirst
<1>9. ASSUME NEW c \in Client, ~Unused(c), NEW s \in Server, HasStopped(c, s) PROVE Goal
  BY <1>9 DEF HasStopped, OnlyClient, PatientInv, ElanFirst
<1> HIDE DEF Goal
<1> QED
  <2> Goal
    BY <1>1, <1>2, <1>3, <1>4, <1>5, <1>6, <1>7, <1>8, <1>9, MoveCases
  <2> QED
    BY DEF Goal

\* A restart waits for 'Stop Server' to end.
LEMMA StopAloneStep ==
    ASSUME Patient, TypeOK, Move, Always, PatientInv
    PROVE  StopAlone'
<1> SUFFICES ASSUME NEW r \in Server, server'[r].state = "stopping",
                    server'[r].waiter = "stopClient"
             PROVE  leanClient'[server'[r].owner].task = "idle"
  BY DEF StopAlone
<1> DEFINE Goal == leanClient'[server'[r].owner].task = "idle"
<1>1. ASSUME UNCHANGED <<leanClient, server>> PROVE Goal
  BY <1>1 DEF PatientInv, StopAlone
<1>2. ASSUME NEW c \in Client, Unused(c), NEW f \in Folder, Born(c, f) PROVE Goal
  BY <1>2 DEF Born, OnlyClient, Always, PatientInv, LiveOwned, StopAlone, Live, Unused
<1>3. ASSUME NEW c \in Client, ~Unused(c), NEW task, MayNote(c, task) PROVE Goal
  BY <1>3
     DEF MayNote, Notes, OnlyClient, Ready, Always, PatientInv, LiveOwned, KnownServer,
     StopAlone, Live
<1>4. ASSUME NEW c \in Client, ~Unused(c), NEW waiter, NEW waits, NEW goes,
             MayStop(c, waiter, waits, goes) PROVE Goal
  BY <1>4
     DEF Stops, MayStop, OnlyClient, OnlyServer, Ready, Always, PatientInv, LiveOwned,
     OwnServer, KnownServer, StopAlone, Live
<1>5. ASSUME NEW c \in Client, ~Unused(c), Starts(c) PROVE Goal
  BY <1>5 DEF Starts, OnlyClient, OnlyServer, Always, PatientInv, LiveOwned, StopAlone, Live
<1>6. ASSUME NEW c \in Client, ~Unused(c), StartFails(c) PROVE Goal
  BY <1>6
     DEF StartFails, OnlyClient, OnlyServer, Always, PatientInv, LiveOwned, StopAlone, Live
<1>7. ASSUME NEW c \in Client, ~Unused(c), NEW s \in Server, SetsUp(c, s) PROVE Goal
  BY <1>7 DEF SetsUp, OnlyClient, OnlyServer, Always, PatientInv, LiveOwned, StopAlone, Live
<1>8. ASSUME NEW c \in Client, ~Unused(c), NEW s \in Server, Exits(c, s) PROVE Goal
  BY <1>8 DEF Exits, OnlyClient, OnlyServer, Always, PatientInv, LiveOwned, StopAlone, Live
<1>9. ASSUME NEW c \in Client, ~Unused(c), NEW s \in Server, HasStopped(c, s) PROVE Goal
  BY <1>9
     DEF HasStopped, OnlyClient, OnlyServer, Always, PatientInv, LiveOwned, KnownServer,
     StopAlone, Live
<1> HIDE DEF Goal
<1> QED
  <2> Goal
    BY <1>1, <1>2, <1>3, <1>4, <1>5, <1>6, <1>7, <1>8, <1>9, MoveCases
  <2> QED
    BY DEF Goal

-----------------------------------------------------------------------------
\* A step leaves the setting of the run alone.
LEMMA SettingStays == [Next]_vars => UNCHANGED setting
<1>1. ASSUME NEW f, EnsureRestarted(f) \/ EnsureClient(f) PROVE UNCHANGED setting
  BY <1>1 DEF EnsureRestarted, EnsureClient, vars
<1> QED
  BY <1>1 DEF Next, vars, InstallChanged, StopOtherServer, PreconditionsFatal,
     PreconditionsFulfilled, ElanFails, ElanAnswers, ToolchainFails, SetUpClient,
     StartReturns, StartReturnsTooLate, StartRejects, PromptAnswered, EndOperation,
     ServerCrashes, StopReturns, StopServer, RestartServer, BeginOperation

\* Moves keep the types of the LeanClients and the servers.
LEMMA ObjectsStay ==
    ASSUME Objects, Move
    PROVE  Objects'
<1>1. ASSUME NEW c \in Client, NEW task, Notes(c, task) PROVE Objects'
  BY <1>1 DEF Objects, Notes, OnlyClient
<1>2. ASSUME NEW c \in Client, NEW waiter, NEW waits, NEW goes,
             Stops(c, waiter, waits, goes) PROVE Objects'
  BY <1>2 DEF Objects, Stops, OnlyClient, OnlyServer
<1>3. ASSUME NEW c \in Client, Starts(c) \/ StartFails(c) PROVE Objects'
  BY <1>3 DEF Objects, Starts, StartFails, OnlyClient, OnlyServer
<1>4. ASSUME NEW c \in Client, NEW s \in Server, SetsUp(c, s) \/ Exits(c,
s) \/ HasStopped(c, s)
      PROVE  Objects'
  BY <1>4 DEF Objects, SetsUp, Exits, HasStopped, OnlyClient, OnlyServer
<1>5. ASSUME NEW c \in Client, NEW f \in Folder, Born(c, f) PROVE Objects'
  BY <1>5 DEF Objects, Born, OnlyClient
<1>6. CASE UNCHANGED <<leanClient, server>>
  BY <1>6 DEF Objects
<1> QED
  BY <1>1, <1>2, <1>3, <1>4, <1>5, <1>6 DEF Move, Restarts

\* The provider's own variables.
Provider ==
    /\ clients \in [Folder -> Client \cup {None}]
    /\ pending \subseteq Folder
    /\ activeClient \in Client \cup {None}
    /\ checks \in [Call -> {None} \cup [folder : Folder, existing : SUBSET Folder]]
    /\ offers \subseteq Folder

\* A step keeps their types, and only the making of a client registers one.
LEMMA ProviderStays ==
    ASSUME TypeOK, LiveOwned, [Next]_vars
    PROVE  /\ Provider'
           /\ \/ \A f \in Folder : clients'[f] \in {clients[f], None}
              \/ \E k \in Call : PreconditionsFulfilled(k)
<1> DEFINE Kept == /\ Provider'
                   /\ \A f \in Folder : clients'[f] \in {clients[f], None}
<1>1. Provider /\ setting.folders \subseteq Folder /\ setting.calls \subseteq Call
  BY ProviderAssumption DEF ProviderAssumption, TypeOK, Provider, Settings
<1>2. ASSUME UNCHANGED <<clients, pending, activeClient, checks, offers>> PROVE Kept
  BY <1>1, <1>2 DEF Provider
<1>3. ASSUME NEW c \in Client, Forget(c), UNCHANGED <<checks, offers>> PROVE Kept
  BY <1>1, <1>3 DEF Forget, Provider
<1>4. ASSUME NEW c \in Client, StopClient(c), UNCHANGED <<checks, offers>> PROVE Kept
  BY <1>2, <1>3, <1>4 DEF StopClient
<1>5. ASSUME NEW f \in Folder, EnsureClient(f) PROVE Kept
  <2>1. {g \in Folder : clients[g] # None} \in SUBSET Folder
    OBVIOUS
  <2>2. ASSUME NEW k \in setting.calls,
               checks' = [checks EXCEPT ![k] =
                   [folder |-> f, existing |-> {g \in Folder : clients[g] # None}]]
        PROVE  checks' \in [Call -> {None} \cup [folder : Folder, existing : SUBSET Folder]]
    BY <1>1, <2>1, <2>2 DEF Provider
  <2> QED
    BY <1>1, <1>5, <2>2 DEF EnsureClient, Provider, vars
<1>6. ASSUME NEW f \in Folder, EnsureRestarted(f) PROVE Kept
  BY <1>1, <1>5, <1>6 DEF EnsureRestarted, Provider
<1>7. ASSUME NEW c \in Client, ServerFails(c, leanClient[c]),
             EnsureReturns(c, leanClient[c], Deactivated(c)), UNCHANGED <<checks, offers>>
      PROVE  Kept
  BY <1>1, <1>7 DEF ServerFails, EnsureReturns, Deactivated, Provider
<1>8. ASSUME NEW f \in setting.folders,
             EnsureClient(f) \/ InstallChanged(f) PROVE Kept
  BY <1>1, <1>5, <1>6, <1>8 DEF InstallChanged
<1>9. ASSUME NEW f \in setting.folders, StopOtherServer(f) PROVE Kept
  <2>1. CASE clients[f] = None
    BY <1>1, <1>9, <2>1 DEF StopOtherServer, Provider
  <2>2. CASE clients[f] # None
    <3>1. clients[f] \in Client /\ StopClient(clients[f])
      BY <1>1, <1>9, <2>2 DEF StopOtherServer, Provider
    <3>2. Kept \/ Forget(clients[f])
      BY <1>1, <1>9, <2>2, <3>1 DEF StopOtherServer, StopClient, Provider
    <3>3. UNCHANGED checks /\ offers' \subseteq Folder
      BY <1>1, <1>9 DEF StopOtherServer, Provider
    <3> QED
      BY <1>1, <3>1, <3>2, <3>3 DEF Forget, Provider
  <2> QED
    BY <2>1, <2>2
<1>10. ASSUME NEW k \in Call, PreconditionsFatal(k) PROVE Kept
  <2>1. Conflicts(k) \subseteq Folder
    BY <1>1, <1>10 DEF Conflicts, PreconditionsFatal, Provider
  <2> QED
    BY <1>1, <1>10, <2>1 DEF PreconditionsFatal, Provider
<1>11. ASSUME NEW k \in Call, PreconditionsFulfilled(k) PROVE Provider'
  BY <1>1, <1>11 DEF PreconditionsFulfilled, Provider
<1>12. ASSUME NEW c \in Client, ElanFails(c) \/ ToolchainFails(c) PROVE Kept
  BY <1>7, <1>12 DEF ElanFails, ToolchainFails
<1>13. ASSUME NEW c \in Client,
              ElanAnswers(c) \/ SetUpClient(c) \/ PromptAnswered(c) \/ EndOperation(c)
       PROVE  Kept
  BY <1>2, <1>13 DEF ElanAnswers, SetUpClient, PromptAnswered, EndOperation
<1>14. ASSUME NEW c \in Client, StartReturns(c) PROVE Kept
  BY <1>1, <1>14 DEF StartReturns, EnsureReturns, Provider
<1>15. ASSUME NEW c \in Client, StartReturnsTooLate(c) \/ StartRejects(c) PROVE Kept
  BY <1>1, <1>15 DEF StartReturnsTooLate, StartRejects, Deactivated, Provider
<1>16. ASSUME NEW s \in Server, ServerCrashes(s) PROVE Kept
  BY <1>2, <1>16 DEF ServerCrashes
<1>17. ASSUME NEW s \in Server, StopReturns(s) PROVE Kept
  <2>1. server[s].owner \in Client
    BY <1>17 DEF StopReturns, LiveOwned, Live
  <2> QED
    BY <1>2, <1>3, <1>17, <2>1 DEF StopReturns
<1>18. CASE StopServer
  BY <1>1, <1>4, <1>18 DEF StopServer, Provider
<1>19. CASE RestartServer
  BY <1>1, <1>2, <1>6, <1>19 DEF RestartServer
<1>20. CASE BeginOperation
  BY <1>2, <1>20 DEF BeginOperation
<1>21. CASE UNCHANGED vars
  BY <1>2, <1>21 DEF vars
<1> QED
  BY <1>8, <1>9, <1>10, <1>11, <1>12, <1>13, <1>14, <1>15, <1>16, <1>17, <1>18, <1>19,
     <1>20, <1>21 DEF Next

\* Types are kept.
LEMMA TypeStep ==
    ASSUME TypeOK, LiveOwned, Move, [Next]_vars
    PROVE  TypeOK'
<1>1. Objects' /\ Provider' /\ UNCHANGED setting
  BY ObjectsTyped, ObjectsStay, ProviderStays, SettingStays
<1> QED
  BY <1>1 DEF TypeOK, Objects, Object, Process, Provider

\* A client keeps its folder until it is garbage.
LEMMA FolderStays ==
    ASSUME Move, NEW d \in Client, ~Unused(d)
    PROVE  leanClient'[d].folder = leanClient[d].folder
<1> DEFINE Goal == leanClient'[d].folder = leanClient[d].folder
<1>1. ASSUME NEW c \in Client, NEW task, MayNote(c, task) PROVE Goal
  BY <1>1 DEF MayNote, Notes, OnlyClient
<1>2. ASSUME NEW c \in Client, NEW waiter, NEW waits, NEW goes,
             MayStop(c, waiter, waits, goes) PROVE Goal
  <2>1. Stops(c, waiter, waits, goes)
    BY <1>2 DEF MayStop
  <2>2. OnlyClient(c) /\ leanClient'[c].folder = leanClient[c].folder
    BY <2>1 DEF Stops
  <2> QED
    BY <2>2 DEF OnlyClient
<1>3. ASSUME NEW c \in Client, Starts(c) \/ StartFails(c) PROVE Goal
  BY <1>3 DEF Starts, StartFails, OnlyClient
<1>4. ASSUME NEW c \in Client, NEW s \in Server, SetsUp(c, s) \/ Exits(c,
s) \/ HasStopped(c, s)
      PROVE  Goal
  BY <1>4 DEF SetsUp, Exits, HasStopped, OnlyClient
<1>5. ASSUME NEW c \in Client, Unused(c), NEW f \in Folder, Born(c, f) PROVE Goal
  BY <1>5 DEF Born, OnlyClient
<1>6. ASSUME UNCHANGED <<leanClient, server>> PROVE Goal
  BY <1>6
<1> HIDE DEF Goal
<1> QED
  <2> Goal
    BY <1>1, <1>2, <1>3, <1>4, <1>5, <1>6, MoveCases
  <2> QED
    BY DEF Goal

\* The client is made for the folder it is registered under.
LEMMA FoundByFolderStep ==
    ASSUME TypeOK, LiveOwned, FoundByFolder, Move, [Next]_vars
    PROVE  FoundByFolder'
<1>1. CASE \A f \in Folder : clients'[f] \in {clients[f], None}
  <2> SUFFICES ASSUME NEW f \in Folder, clients'[f] # None
               PROVE  leanClient'[clients'[f]].folder = f
    BY DEF FoundByFolder
  <2>1. clients'[f] = clients[f]
    BY <1>1
  <2>2. clients[f] \in Client /\ ~Unused(clients[f])
    BY <2>1 DEF TypeOK, Unused
  <2> QED
    BY <2>1, <2>2, FolderStays DEF FoundByFolder
<1>2. ASSUME NEW k \in Call, PreconditionsFulfilled(k) PROVE FoundByFolder'
  <2> DEFINE g == checks[k].folder
  <2>1. g \in Folder
    BY <1>2 DEF PreconditionsFulfilled, TypeOK
  <2>2. PICK c \in Client :
           /\ Unused(c)
           /\ clients' = [clients EXCEPT ![g] = c]
           /\ Restart(c, [NewClient(g) EXCEPT !.awaited = "ensure"])
    BY <1>2 DEF PreconditionsFulfilled
  <2>3. Born(c, g)
    BY <2>1, <2>2, ObjectsTyped, NoneOutside, BornMoves
  <2> HIDE DEF g
  <2> QED
    BY <2>1, <2>2, <2>3, NoneOutside DEF FoundByFolder, Born, OnlyClient, Unused, TypeOK
<1> QED
  BY <1>1, <1>2, ProviderStays

-----------------------------------------------------------------------------
(* An orderly run. *)

\* Only the fields of c change, and its folder stays.
Within(c) == OnlyClient(c) /\ leanClient'[c].folder = leanClient[c].folder

\* While the provider goes on finding c, and what is checked stays, the order does:
\* c may be busy or not, and be the active client or not.
LEMMA KeepsOrder ==
    ASSUME TypeOK, InUseRegistered, CheckedOnce, RestartServerActs,
           NEW c \in Client, Within(c), Registered(c), UNCHANGED <<clients, checks>>,
           pending' \in {pending, pending \ {leanClient[c].folder}},
           activeClient' \in {activeClient, c, None}
    PROVE  OrderlyInv'
<1>1. ASSUME NEW d \in Client, Registered(d) PROVE Registered(d)'
  BY <1>1 DEF Within, OnlyClient, Registered
<1>2. InUseRegistered'
  <2>1. ASSUME NEW d \in Client, d # c,
               IsRestarting(leanClient'[d]) \/ IsStarted(leanClient'[d]) \/ leanClient'[d].prompt
        PROVE  leanClient'[d] = leanClient[d]
    BY <2>1 DEF Within, OnlyClient
  <2>2. Registered(c)' /\ leanClient'[c].folder \in Folder
    BY <1>1 DEF Registered
  <2>3. (activeClient # None => activeClient \in Client /\ Registered(activeClient))'
    BY <1>1, <2>2, NoneOutside DEF TypeOK, InUseRegistered
  <2> QED
    BY <1>1, <2>1, <2>2, <2>3 DEF InUseRegistered
<1>3. CheckedOnce'
  BY NoneOutside DEF CheckedOnce, Registered
<1>4. RestartServerActs'
  BY DEF RestartServerActs
<1> QED
  BY <1>2, <1>3, <1>4 DEF OrderlyInv

\* The provider forgets a client that is at rest and has no language client.
LEMMA ForgetsOrder ==
    ASSUME TypeOK, InUseRegistered, CheckedOnce, RestartServerActs,
           NEW c \in Client, Within(c), Registered(c), Forget(c), UNCHANGED checks,
           leanClient'[c].task = "idle", leanClient'[c].client = None
    PROVE  OrderlyInv'
<1> DEFINE f == leanClient[c].folder
<1>1. /\ f \in Folder /\ clients[f] = c
      /\ clients' = [clients EXCEPT ![f] = None]
      /\ pending' = pending \ {f}
      /\ activeClient' = IF activeClient = c THEN None ELSE activeClient
  BY DEF Registered, Forget
<1> HIDE DEF f
<1>2. \A g \in Folder : clients'[g] = IF g = f THEN None ELSE clients[g]
  BY <1>1 DEF TypeOK
<1>3. ASSUME NEW d \in Client, d # c, Registered(d) PROVE Registered(d)'
  BY <1>1, <1>2, <1>3 DEF Within, OnlyClient, Registered
<1>4. InUseRegistered'
  <2>1. ASSUME NEW d \in Client, d # c PROVE leanClient'[d] = leanClient[d]
    BY <2>1 DEF Within, OnlyClient
  <2>2. ~IsRestarting(leanClient'[c]) /\ ~IsStarted(leanClient'[c])
        /\ leanClient'[c].folder \in Folder
    BY <1>1 DEF IsRestarting, IsStarted, Within, f
  <2>3. (activeClient # None => activeClient \in Client /\ Registered(activeClient))'
    BY <1>1, <1>3 DEF TypeOK, InUseRegistered
  <2> QED
    BY <1>3, <2>1, <2>2, <2>3 DEF InUseRegistered
<1>5. CheckedOnce'
  <2>1. \A k \in Call : checks[k] # None => checks[k].folder \in Folder /\ checks[k].folder # f
    BY <1>1, NoneOutside DEF CheckedOnce, TypeOK
  <2> QED
    BY <1>1, <1>2, <2>1 DEF CheckedOnce
<1>6. RestartServerActs'
  BY <1>1, <1>2 DEF RestartServerActs, TypeOK
<1> QED
  BY <1>4, <1>5, <1>6 DEF OrderlyInv

\* As long as the provider finds the same clients, the LeanClients stay in use by
\* the same.
LEMMA SameInUse ==
    ASSUME TypeOK, InUseRegistered, UNCHANGED <<clients, leanClient>>,
           activeClient' # None => activeClient' \in Client /\ Registered(activeClient')
    PROVE  InUseRegistered'
BY DEF InUseRegistered, Registered

\* ensureClient, whichever way it goes.
LEMMA EnsureClientOrder ==
    ASSUME TypeOK, FoundByFolder, InUseRegistered, CheckedOnce, RestartServerActs,
           NEW f \in Folder, EnsureClient(f)
    PROVE  OrderlyInv'
<1>1. CASE UNCHANGED vars
  BY <1>1 DEF vars, OrderlyInv, InUseRegistered, CheckedOnce, RestartServerActs, Registered
<1>2. CASE clients[f] # None
  <2>1. activeClient' = clients[f] /\ UNCHANGED <<clients, pending, checks, leanClient>>
    BY <1>2 DEF EnsureClient
  <2>2. clients[f] \in Client /\ Registered(clients[f])
    BY <1>2 DEF FoundByFolder, Registered, TypeOK
  <2>3. InUseRegistered'
    BY <2>1, <2>2, SameInUse
  <2> QED
    BY <2>1, <2>3 DEF OrderlyInv, CheckedOnce, RestartServerActs
<1>3. CASE clients[f] = None /\ f \notin pending
  <2>1. PICK k \in Call :
           /\ checks[k] = None
           /\ checks' = [checks EXCEPT ![k] =
                 [folder |-> f, existing |-> {g \in Folder : clients[g] # None}]]
           /\ pending' = pending \cup {f}
           /\ UNCHANGED <<clients, activeClient, leanClient>>
    BY <1>3, ProviderAssumption DEF EnsureClient, ProviderAssumption, TypeOK, Settings
  <2>2. checks'[k] # None => checks'[k].folder = f
    BY <2>1 DEF TypeOK
  <2>3. \A j \in Call \ {k} : checks'[j] = checks[j]
    BY <2>1 DEF TypeOK
  <2>4. InUseRegistered'
    <3>1. activeClient' # None => activeClient' \in Client /\ Registered(activeClient')
      BY <2>1 DEF InUseRegistered, TypeOK
    <3> QED
      BY <2>1, <3>1, SameInUse
  <2>5. CheckedOnce'
    BY <1>3, <2>1, <2>2, <2>3 DEF CheckedOnce
  <2>6. RestartServerActs'
    <3>1. checks'[k] # None
      BY <2>1, NoneOutside DEF TypeOK
    <3> QED
      BY <2>1, <2>2, <2>3, <3>1 DEF RestartServerActs
  <2> QED
    BY <2>4, <2>5, <2>6 DEF OrderlyInv
<1> QED
  BY <1>1, <1>2, <1>3 DEF EnsureClient

\* A precondition is not met: the folder is no longer pending and no longer checked.
LEMMA FatalOrder ==
    ASSUME TypeOK, InUseRegistered, CheckedOnce, RestartServerActs,
           NEW k \in Call, PreconditionsFatal(k)
    PROVE  OrderlyInv'
<1>1. /\ checks[k] # None
      /\ checks' = [checks EXCEPT ![k] = None]
      /\ pending' = pending \ {checks[k].folder}
      /\ activeClient' = None
      /\ UNCHANGED <<clients, leanClient>>
  BY DEF PreconditionsFatal
<1>2. checks'[k] = None /\ \A j \in Call \ {k} : checks'[j] = checks[j]
  BY <1>1 DEF TypeOK
<1>3. InUseRegistered'
  BY <1>1, SameInUse
<1>4. CheckedOnce'
  BY <1>1, <1>2 DEF CheckedOnce
<1>5. RestartServerActs'
  BY <1>1, <1>2 DEF RestartServerActs
<1> QED
  BY <1>3, <1>4, <1>5 DEF OrderlyInv

\* They are met: the folder has a client instead of a check.
LEMMA FulfilledOrder ==
    ASSUME TypeOK, InUseRegistered, CheckedOnce, RestartServerActs,
           NEW k \in Call, PreconditionsFulfilled(k)
    PROVE  OrderlyInv'
<1> DEFINE f == checks[k].folder
<1>1. /\ checks[k] # None /\ f \in Folder
      /\ clients[f] = None
      /\ \A j \in Call \ {k} : checks[j] # None => checks[j].folder # f
  BY DEF PreconditionsFulfilled, TypeOK, CheckedOnce
<1>2. PICK c \in Client :
         /\ Unused(c)
         /\ clients' = [clients EXCEPT ![f] = c]
         /\ Restart(c, [NewClient(f) EXCEPT !.awaited = "ensure"])
  BY DEF PreconditionsFulfilled
<1>3. Born(c, f)
  BY <1>1, <1>2, ObjectsTyped, NoneOutside, BornMoves
<1>4. /\ checks' = [checks EXCEPT ![k] = None]
      /\ UNCHANGED <<pending, activeClient>>
  BY DEF PreconditionsFulfilled
<1> HIDE DEF f
<1>5. clients'[f] = c /\ \A g \in Folder \ {f} : clients'[g] = clients[g]
  BY <1>1, <1>2 DEF TypeOK
<1>6. checks'[k] = None /\ \A j \in Call \ {k} : checks'[j] = checks[j]
  BY <1>4 DEF TypeOK
<1>7. ASSUME NEW d \in Client, d # c PROVE leanClient'[d] = leanClient[d]
  BY <1>3, <1>7 DEF Born, OnlyClient
<1>8. leanClient'[c].folder = f /\ Registered(c)'
  BY <1>1, <1>3, <1>5 DEF Born, Registered
<1>9. ASSUME NEW d \in Client, d # c, Registered(d) PROVE Registered(d)'
  BY <1>1, <1>5, <1>7, <1>9, NoneOutside DEF Registered
<1>10. InUseRegistered'
  <2>1. (activeClient # None => activeClient \in Client /\ Registered(activeClient))'
    BY <1>2, <1>4, <1>9 DEF TypeOK, InUseRegistered, Unused
  <2> QED
    BY <1>1, <1>7, <1>8, <1>9, <2>1 DEF InUseRegistered
<1>11. CheckedOnce'
  <2>1. \A j \in Call : checks[j] # None => checks[j].folder \in Folder
    BY DEF TypeOK
  <2> QED
    BY <1>1, <1>4, <1>5, <1>6, <2>1 DEF CheckedOnce
<1>12. RestartServerActs'
  BY <1>1, <1>2, <1>4, <1>5, <1>6, NoneOutside DEF RestartServerActs, TypeOK, f
<1> QED
  BY <1>10, <1>11, <1>12 DEF OrderlyInv

\* What is noted of a restart, for whichever client.
LEMMA NotesOrder ==
    ASSUME TypeOK, InUseRegistered, CheckedOnce, RestartServerActs,
           NEW c \in Client, Notes(c, leanClient[c].task),
           UNCHANGED <<clients, pending, activeClient, checks>>
    PROVE  OrderlyInv'
<1>1. ASSUME NEW d \in Client
      PROVE  /\ leanClient'[d].folder = leanClient[d].folder
             /\ leanClient'[d].task = leanClient[d].task
             /\ leanClient'[d].client = leanClient[d].client
             /\ leanClient'[d].prompt => leanClient[d].prompt
  BY DEF Notes, OnlyClient
<1>2. (activeClient # None => Registered(activeClient))'
  BY <1>1 DEF InUseRegistered, TypeOK, Registered
<1>3. InUseRegistered'
  BY <1>1, <1>2 DEF InUseRegistered, Registered, IsRestarting, IsStarted
<1> QED
  BY <1>3 DEF OrderlyInv, CheckedOnce, RestartServerActs

\* A restart touches nothing but the client.
LEMMA RestartWithin ==
    ASSUME Objects, NEW c \in Client, NEW o, Noted(c, o), Restart(c, o),
           \/ o.task = leanClient[c].task
           \/ o.task = "idle" /\ leanClient[c].task = "action"
    PROVE  Within(c)
BY RestartMoves DEF Within, Notes, Stops

\* stopClient of a client at rest.
LEMMA StopClientOrder ==
    ASSUME TypeOK, InUseRegistered, CheckedOnce, RestartServerActs,
           NEW c \in Client, Registered(c), leanClient[c].task = "idle", StopClient(c),
           UNCHANGED checks
    PROVE  OrderlyInv'
<1>1. Stops(c, "stopClient", "idle", "idle") /\ Within(c)
  BY ObjectsTyped, StopClientMoves DEF Within, Stops
<1>2. CASE UNCHANGED <<clients, pending, activeClient>>
  BY <1>1, <1>2, KeepsOrder
<1>3. CASE ~StopWaits(leanClient[c]) /\ Forget(c)
  <2>1. leanClient'[c].task = "idle" /\ leanClient'[c].client = None
    BY <1>1, <1>3, NoneOutside DEF Stops, StopWaits, IsStarted
  <2> QED
    BY <1>1, <1>3, <2>1, ForgetsOrder
<1> QED
  BY <1>2, <1>3 DEF StopClient

\* ensureClient with a restart.
LEMMA EnsureRestartedOrder ==
    ASSUME TypeOK, FoundByFolder, InUseRegistered, CheckedOnce, RestartServerActs,
           NEW f \in Folder, EnsureRestarted(f)
    PROVE  OrderlyInv'
<1>1. CASE clients[f] = None
  BY <1>1, EnsureClientOrder DEF EnsureRestarted
<1>2. CASE clients[f] # None
  <2> DEFINE c == clients[f]
  <2>1. c \in Client /\ Registered(c)
    BY <1>2 DEF FoundByFolder, Registered, TypeOK
  <2>2. /\ activeClient' = c /\ Restart(c, leanClient[c])
        /\ UNCHANGED <<clients, pending, checks>>
    BY <1>2 DEF EnsureRestarted
  <2> HIDE DEF c
  <2>3. Within(c)
    BY <2>1, <2>2, ObjectsTyped, SameNoted, RestartWithin
  <2> QED
    BY <2>1, <2>2, <2>3, KeepsOrder
<1> QED
  BY <1>1, <1>2

\* An orderly run stays in order.
LEMMA OrderlyStep ==
    ASSUME Orderly, TypeOK, Always, PatientInv, OrderlyInv, [Next]_vars
    PROVE  OrderlyInv'
<1>1. /\ InUseRegistered /\ CheckedOnce /\ RestartServerActs
      /\ LiveOwned /\ OwnServer /\ StartAwaited /\ FoundByFolder /\ KnownServer /\ StopAlone
  BY DEF OrderlyInv, Always, PatientInv
<1>2. Objects /\ setting.folders \subseteq Folder
  BY ProviderAssumption, ObjectsTyped DEF ProviderAssumption, TypeOK, Settings
<1>3. /\ "toolchain" \notin Mishaps /\ "start" \notin Mishaps
      /\ "impatient" \notin Mishaps /\ "stale" \notin Mishaps
  BY DEF Orderly
<1>4. ASSUME NEW c \in Client, Reachable(c) PROVE leanClient[c].task = "idle"
  BY <1>3, <1>4 DEF Reachable, IsRestarting
<1>5. ASSUME NEW c \in Client,
leanClient[c].task # "idle" \/ leanClient[c].client \in Server
      PROVE  Registered(c)
  BY <1>1, <1>5, NoneOutside DEF InUseRegistered, IsRestarting, IsStarted
<1>6. activeClient # None => activeClient \in Client /\ Registered(activeClient)
  BY <1>1 DEF InUseRegistered, TypeOK
<1>7. \A f \in Folder : clients[f] # None => clients[f] \in Client /\ Registered(clients[f])
  BY <1>1 DEF FoundByFolder, Registered, TypeOK
<1>8. ASSUME NEW f \in setting.folders, EnsureClient(f) \/ InstallChanged(f)
      PROVE  OrderlyInv'
  BY <1>1, <1>2, <1>8, EnsureClientOrder, EnsureRestartedOrder DEF InstallChanged
<1>9. ASSUME NEW f \in setting.folders, StopOtherServer(f) PROVE OrderlyInv'
  <2>1. CASE clients[f] = None
    BY <1>1, <1>9, <2>1 DEF StopOtherServer, OrderlyInv, InUseRegistered, CheckedOnce,
       RestartServerActs, Registered
  <2>2. CASE clients[f] # None
    <3>1. clients[f] \in Client /\ Registered(clients[f])
      BY <1>2, <1>7, <2>2
    <3>2. Reachable(clients[f]) /\ StopClient(clients[f]) /\ UNCHANGED checks
      BY <1>9, <2>2 DEF StopOtherServer
    <3> QED
      BY <1>1, <1>4, <3>1, <3>2, StopClientOrder
  <2> QED
    BY <2>1, <2>2
<1>10. ASSUME NEW k \in Call, PreconditionsFatal(k) \/ PreconditionsFulfilled(k)
       PROVE  OrderlyInv'
  BY <1>1, <1>10, FatalOrder, FulfilledOrder
<1>11. ASSUME NEW c \in Client, ElanFails(c) \/ ToolchainFails(c) \/ StartRejects(c)
       PROVE  OrderlyInv'
  BY <1>3, <1>11 DEF ElanFails, ToolchainFails, StartRejects
<1>12. ASSUME NEW c \in Client, ElanAnswers(c) PROVE OrderlyInv'
  <2>1. Within(c) /\ Registered(c) /\ UNCHANGED <<clients, checks, pending, activeClient>>
    BY <1>2, <1>5, <1>12, SameNoted, RestartFromMoves DEF ElanAnswers, Within, Stops
  <2> QED
    BY <1>1, <2>1, KeepsOrder
<1>13. ASSUME NEW c \in Client, SetUpClient(c) PROVE OrderlyInv'
  <2>1. Within(c) /\ Registered(c)
    BY <1>2, <1>5, <1>13, SetUpClientMoves DEF SetsUp, Within
  <2>2. UNCHANGED <<clients, checks, pending, activeClient>>
    BY <1>13 DEF SetUpClient
  <2> QED
    BY <1>1, <2>1, <2>2, KeepsOrder
<1>14. ASSUME NEW c \in Client, StartReturns(c) PROVE OrderlyInv'
  <2>1. Within(c) /\ Registered(c)
    BY <1>1, <1>2, <1>5, <1>14, StartReturnsMoves DEF Starts, Within
  <2>2. /\ UNCHANGED <<clients, checks>>
        /\ pending' \in {pending, pending \ {leanClient[c].folder}}
        /\ activeClient' \in {activeClient, c}
    BY <1>14 DEF StartReturns, EnsureReturns
  <2> QED
    BY <1>1, <2>1, <2>2, KeepsOrder
<1>15. ASSUME NEW c \in Client, StartReturnsTooLate(c) PROVE FALSE
  <2>1. leanClient[c].task = "start" /\ leanClient[c].client = None
    BY <1>15 DEF StartReturnsTooLate
  <2>2. leanClient[c].client = leanClient[c].starting /\ leanClient[c].starting \in Server
    BY <1>1, <2>1 DEF StartAwaited, KnownServer, Live
  <2> QED
    BY <2>1, <2>2, NoneOutside
<1>16. ASSUME NEW c \in Client, PromptAnswered(c) PROVE OrderlyInv'
  <2> DEFINE o == [leanClient[c] EXCEPT !.prompt = FALSE]
  <2>1. Noted(c, o) /\ o.task = leanClient[c].task
    BY <1>2 DEF Noted, Object, Objects
  <2>2. /\ leanClient[c].prompt
        /\ UNCHANGED <<clients, pending, activeClient, checks>>
        /\ \/ clients[o.folder] = c /\ Restart(c, o)
           \/ leanClient' = [leanClient EXCEPT ![c] = o] /\ UNCHANGED server
    BY <1>3, <1>16 DEF PromptAnswered
  <2> HIDE DEF o
  <2>3. CASE clients[o.folder] = c /\ Restart(c, o)
    <3>1. Within(c)
      BY <1>2, <2>1, <2>3, RestartWithin
    <3>2. Registered(c)
      BY <1>1, <2>1, <2>2, <2>3 DEF Registered, InUseRegistered, Noted
    <3> QED
      BY <1>1, <2>2, <3>1, <3>2, KeepsOrder
  <2>4. CASE leanClient' = [leanClient EXCEPT ![c] = o] /\ UNCHANGED server
    <3>1. Notes(c, leanClient[c].task)
      BY <1>2, <2>1, <2>4, Becomes DEF Noted, Notes
    <3> QED
      BY <1>1, <2>2, <3>1, NotesOrder
  <2> QED
    BY <2>2, <2>3, <2>4
<1>17. ASSUME NEW c \in Client, EndOperation(c) PROVE OrderlyInv'
  <2> DEFINE o == [leanClient[c] EXCEPT !.task = "idle"]
  <2>1. /\ leanClient[c].task = "action" /\ Restart(c, o)
        /\ UNCHANGED <<clients, pending, activeClient, checks>>
    BY <1>17 DEF EndOperation
  <2>2. Noted(c, o) /\ o.task = "idle"
    BY <1>2 DEF Noted, Object, Objects, Tasks
  <2> HIDE DEF o
  <2>3. Within(c) /\ Registered(c)
    BY <1>2, <1>5, <2>1, <2>2, RestartWithin
  <2> QED
    BY <1>1, <2>1, <2>3, KeepsOrder
<1>18. ASSUME NEW s \in Server, server[s].state \in {"running", "stopping"}
       PROVE  /\ server[s].owner \in Client
              /\ Registered(server[s].owner)
  BY <1>1, <1>5, <1>18 DEF LiveOwned, KnownServer, Live
<1>19. ASSUME NEW s \in Server, ServerCrashes(s) PROVE OrderlyInv'
  <2>1. server[s].state = "running" /\ UNCHANGED <<clients, pending, activeClient, checks>>
    BY <1>19 DEF ServerCrashes
  <2>2. Within(server[s].owner)
    BY <1>1, <1>2, <1>19, ServerCrashesMoves DEF Exits, Within
  <2> QED
    BY <1>1, <1>18, <2>1, <2>2, KeepsOrder
<1>20. ASSUME NEW s \in Server, StopReturns(s) PROVE OrderlyInv'
  <2> DEFINE c == server[s].owner
  <2>1. /\ server[s].state = "stopping" /\ UNCHANGED checks
        /\ IF server[s].waiter = "stopClient"
           THEN Forget(c)
           ELSE UNCHANGED <<clients, pending, activeClient>>
    BY <1>20 DEF StopReturns
  <2>2. c \in Client /\ Registered(c)
    BY <1>18, <2>1
  <2>3. HasStopped(c, s)
    BY <1>1, <1>2, <1>20, StopReturnsMoves
  <2> HIDE DEF c
  <2>4. Within(c) /\ leanClient'[c].client = None
    BY <2>3 DEF HasStopped, Within
  <2>5. CASE server[s].waiter # "stopClient"
    BY <1>1, <2>1, <2>2, <2>4, <2>5, KeepsOrder
  <2>6. CASE server[s].waiter = "stopClient"
    <3>1. leanClient'[c].task = "idle"
      BY <1>1, <2>1, <2>3, <2>6 DEF HasStopped, StopAlone, c
    <3> QED
      BY <1>1, <2>1, <2>2, <2>4, <2>6, <3>1, ForgetsOrder
  <2> QED
    BY <2>5, <2>6
<1>21. CASE StopServer
  BY <1>1, <1>4, <1>6, <1>21, StopClientOrder DEF StopServer
<1>22. CASE RestartServer
  <2>1. CASE activeClient = None
    BY <1>1, <1>2, <1>22, <2>1, EnsureRestartedOrder DEF RestartServer
  <2>2. CASE activeClient # None
    <3>1. /\ Restart(activeClient, leanClient[activeClient])
          /\ UNCHANGED <<clients, pending, activeClient, checks>>
      BY <1>22, <2>2 DEF RestartServer
    <3>2. Within(activeClient)
      BY <1>2, <1>6, <2>2, <3>1, SameNoted, RestartWithin
    <3> QED
      BY <1>1, <1>6, <2>2, <3>1, <3>2, KeepsOrder
  <2> QED
    BY <2>1, <2>2
<1>23. CASE BeginOperation
  <2>1. activeClient # None /\ UNCHANGED <<clients, pending, activeClient, checks>>
    BY <1>23 DEF BeginOperation
  <2>2. Within(activeClient)
    BY <1>2, <1>6, <1>23, <2>1, BeginOperationMoves DEF Stops, Within
  <2> QED
    BY <1>1, <1>6, <2>1, <2>2, KeepsOrder
<1>24. CASE UNCHANGED vars
  BY <1>1, <1>24 DEF vars, OrderlyInv, InUseRegistered, CheckedOnce, RestartServerActs,
     Registered
<1> QED
  BY <1>8, <1>9, <1>10, <1>11, <1>12, <1>13, <1>14, <1>15, <1>16, <1>17, <1>19, <1>20,
     <1>21, <1>22, <1>23, <1>24 DEF Next

-----------------------------------------------------------------------------
(* The invariant and what follows from it. *)

\* The invariant holds at first,
LEMMA InitIInv == Init => IInv
<1> SUFFICES ASSUME Init PROVE IInv
  OBVIOUS
<1>1. TypeOK
  <2>1. NewClient(None) \in Object
    BY DEF NewClient, Object, Tasks
  <2>2. NoServer \in Process
    BY DEF NoServer, Process
  <2> QED
    BY <2>1, <2>2 DEF Init, TypeOK, Object, Process
<1>2. /\ \A c \in Client : leanClient[c] = NewClient(None)
      /\ \A s \in Server : server[s] = NoServer
      /\ \A f \in Folder : clients[f] = None
      /\ \A k \in Call : checks[k] = None
      /\ activeClient = None /\ pending = {}
  BY DEF Init
<1>3. Always
  BY <1>2, NoneOutside
     DEF Always, LiveOwned, OwnServer, StartAwaited, OwnStop, WithoutServer,
     FoundByFolder, Live, NewClient, NoServer, IsStarted
<1>4. PatientInv
  BY <1>2
     DEF PatientInv, KnownServer, OwnRunning, ElanFirst, StopAlone, Live, NewClient,
     NoServer
<1>5. OrderlyInv
  BY <1>2 DEF OrderlyInv, InUseRegistered, CheckedOnce, RestartServerActs, NewClient,
     IsRestarting, IsStarted
<1> QED
  BY <1>1, <1>3, <1>4, <1>5 DEF IInv

\* and every step keeps it.
LEMMA StepIInv == IInv /\ [Next]_vars => IInv'
<1> SUFFICES ASSUME IInv, [Next]_vars PROVE IInv'
  OBVIOUS
<1>1. /\ TypeOK /\ Always
      /\ LiveOwned /\ OwnServer /\ StartAwaited /\ OwnStop /\ WithoutServer /\ FoundByFolder
  BY DEF IInv, Always
<1>2. Move
  BY <1>1, NextMoves
<1>3. TypeOK'
  BY <1>1, <1>2, TypeStep
<1>4. Always'
  <2>1. LiveOwned' /\ StartAwaited' /\ WithoutServer'
    BY <1>1, <1>2, LiveOwnedStep, StartAwaitedStep, WithoutServerStep
  <2>2. OwnServer' /\ OwnStop'
    BY <1>1, <1>2, OwnServerStep, OwnStopStep
  <2>3. FoundByFolder'
    BY <1>1, <1>2, FoundByFolderStep
  <2> QED
    BY <2>1, <2>2, <2>3 DEF Always
<1>5. (Patient' <=> Patient) /\ (Orderly' <=> Orderly)
  BY SettingStays DEF Patient, Orderly, Mishaps
<1>6. Patient' => PatientInv'
  <2> SUFFICES ASSUME Patient PROVE PatientInv'
    BY <1>5
  <2>1. PatientInv
    BY DEF IInv
  <2>2. KnownServer' /\ OwnRunning' /\ ElanFirst' /\ StopAlone'
    BY <1>1, <1>2, <2>1, KnownServerStep, OwnRunningStep, ElanFirstStep, StopAloneStep
  <2> QED
    BY <2>2 DEF PatientInv
<1>7. Orderly' => OrderlyInv'
  <2> SUFFICES ASSUME Orderly PROVE OrderlyInv'
    BY <1>5
  <2>1. PatientInv /\ OrderlyInv
    BY DEF IInv, Orderly, Patient
  <2> QED
    BY <1>1, <2>1, OrderlyStep
<1> QED
  BY <1>3, <1>4, <1>6, <1>7 DEF IInv

\* In every behaviour, for every set of folders, clients, servers and calls and every
\* setting, the layers of the inductive invariant hold that the setting calls for.
THEOREM Invariance == Spec => []IInv
BY InitIInv, StepIInv, PTL DEF Spec

\* TypeOK: the tables of the provider, the LeanClients and the servers are typed.
THEOREM TypeCorrect == Spec => []TypeOK
<1>1. IInv => TypeOK
  BY DEF IInv
<1> QED
  BY <1>1, Invariance, PTL

\* NoPromptWhileStopping: whatever fails and whoever is impatient, stop() suppresses the
\* restart prompt no longer than the server takes to stop, since setStopped and the end
\* of stop() reset it together with the language client.
THEOREM PromptBack == Spec => []NoPromptWhileStopping
<1>1. IInv => NoPromptWhileStopping
  BY NoneOutside DEF IInv, Always, OwnStop, NoPromptWhileStopping, IsStarted
<1> QED
  BY <1>1, Invariance, PTL

\* EveryServerOwned: when no start fails and commands wait, no server process is left
\* to itself by a restart; each is the one its LeanClient would stop.
THEOREM ServersOwned == Spec => []EveryServerOwned
<1>1. IInv => EveryServerOwned
  BY DEF IInv, PatientInv, KnownServer, EveryServerOwned, Live
<1> QED
  BY <1>1, Invariance, PTL

\* RunningTruth: then running is set only while the client's process runs, so stop() is
\* never called on a server that is gone.
THEOREM RunningIsTrue == Spec => []RunningTruth
<1>1. IInv => RunningTruth
  BY DEF IInv, PatientInv, OwnRunning, RunningTruth
<1> QED
  BY <1>1, Invariance, PTL

\* OneClientPerFolder: in an orderly run a LeanClient has a language client only while
\* the provider finds it under its folder, so no two have one for the same folder.
THEOREM OneForFolder == Spec => []OneClientPerFolder
<1>1. IInv => OneClientPerFolder
  BY DEF IInv, OrderlyInv, InUseRegistered, Registered, OneClientPerFolder
<1> QED
  BY <1>1, Invariance, PTL

\* ActiveRegistered: in an orderly run the active client is the one under its folder,
\* since the provider forgets both together.
THEOREM ActiveFound == Spec => []ActiveRegistered
<1>1. IInv => ActiveRegistered
  BY DEF IInv, OrderlyInv, InUseRegistered, Registered, ActiveRegistered
<1> QED
  BY <1>1, Invariance, PTL

\* RestartServerActsOrderly: in an orderly run a pending folder without a client has its
\* preconditions being checked, so restarting is not refused for ever.
THEOREM RestartActs == Spec => []RestartServerActsOrderly
<1>1. IInv => RestartServerActsOrderly
  BY DEF IInv, OrderlyInv, RestartServerActsOrderly
<1> QED
  BY <1>1, Invariance, PTL

\* ActionAlone: the server of the folder of a project action would be that of the one
\* client of the folder, which has stopped it before the action began.
THEOREM ActionsAlone == Spec => []ActionAlone
<1>1. IInv => ActionAlone
  <2> SUFFICES ASSUME IInv, Orderly,
                      NEW c \in Client, leanClient[c].task = "action",
                      NEW s \in Server, Live(s),
                      leanClient[server[s].owner].folder = leanClient[c].folder
               PROVE  FALSE
    BY DEF ActionAlone
  <2>1. Always /\ PatientInv /\ OrderlyInv
    BY DEF IInv, Orderly, Patient
  <2>2. server[s].owner \in Client /\ leanClient[server[s].owner].client = s
    BY <2>1 DEF Always, PatientInv, LiveOwned, KnownServer
  <2>3. Registered(c) /\ Registered(server[s].owner)
    BY <2>1, <2>2, NoneOutside DEF OrderlyInv, InUseRegistered, IsRestarting, IsStarted
  <2>4. server[s].owner = c
    BY <2>3 DEF Registered
  <2> QED
    BY <2>1, <2>2, <2>4, NoneOutside DEF Always, WithoutServer, IsStarted
<1> QED
  BY <1>1, Invariance, PTL

=============================================================================
