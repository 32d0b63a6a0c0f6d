------------------------- MODULE LeanClientProvider -------------------------
(* The language servers of the Lean extension: LeanClientProvider, which      *)
(* keeps one LeanClient for each project folder, and the life cycle of each   *)
(* LeanClient around its LanguageClient.                                      *)
(*                                                                            *)
(* The extension is single threaded, so every action is the code that runs    *)
(* between two awaits. The awaits at which another handler can get in are the *)
(* precondition checks of ensureClient (checks), the elan query of an         *)
(* untitled folder, the wait for a server to stop, the choice of a toolchain, *)
(* the start of the server and the project action (the field task). An await  *)
(* before which nothing was read and nothing changed is no step of its own.   *)
(*                                                                            *)
(* A LeanClient nothing refers to any more is garbage and its name is used    *)
(* again, and so is that of a LanguageClient, so Client and Server bound what *)
(* is alive at a time and not what is ever made.                              *)
EXTENDS Naturals, FiniteSets

CONSTANTS Folder,    \* project roots
          Client,    \* LeanClient objects
          Server,    \* LanguageClients with their server processes
          Call,      \* ensureClient calls that wait for the preconditions
          None,      \* undefined
          Setting    \* the settings a run may be in: see Settings

\* toolchain: elan or the choice of a toolchain fails. start: LanguageClient.start
\* rejects. crash: a running server exits. stop: the user stops a server.
\* action: the user runs a project action. refuse: a precondition is not met.
\* impatient: commands reach a client that is still being started or stopped.
\* stale: a restart prompt is answered after its client was forgotten.
AllMishaps == {"toolchain", "start", "crash", "stop", "action", "refuse",
               "impatient", "stale"}

\* What a run is about, which never changes: the folders the user works in, those
\* of them with scheme 'untitled', the pairs of folders one of which contains the
\* other, the calls there are at a time and the mishaps that may happen.
Settings ==
    [folders : SUBSET Folder, untitled : SUBSET Folder,
     nested : SUBSET (Folder \X Folder), calls : SUBSET Call,
     mishaps : SUBSET AllMishaps]

ASSUME ProviderAssumption ==
    /\ Setting \subseteq Settings
    /\ \A w \in Setting : \A e \in w.nested : <<e[2], e[1]>> \in w.nested
    /\ None \notin Folder \cup Client \cup Server
    /\ None \notin [folder : Folder, existing : SUBSET Folder]

VARIABLES clients,      \* clients: folder -> its client
          pending,      \* pending: folders a client is being made for
          activeClient, \* activeClient
          checks,       \* the calls waiting for checkLean4ProjectPreconditions
          offers,       \* folders named in an open 'Stop Other Server' notification
          leanClient,   \* the fields of each LeanClient
          server,       \* the LanguageClient and the process behind it
          setting       \* the setting of this run

vars == <<clients, pending, activeClient, checks, offers, leanClient, server, setting>>

Untitled == setting.untitled
Nested == setting.nested
Mishaps == setting.mishaps

Tasks == {"idle", "elan", "stop", "toolchain", "start", "actionStop", "action"}

NewClient(f) == [folder |-> f, client |-> None, running |-> FALSE,
                 noPrompt |-> FALSE, prompt |-> FALSE,
                 task |-> "idle", awaited |-> "none", starting |-> None]

NoServer == [state |-> "none", owner |-> None, waiter |-> "none"]

Init ==
    /\ clients = [f \in Folder |-> None]
    /\ pending = {}
    /\ activeClient = None
    /\ checks = [k \in Call |-> None]
    /\ offers = {}
    /\ leanClient = [c \in Client |-> NewClient(None)]
    /\ server = [s \in Server |-> NoServer]
    /\ setting \in Setting

-----------------------------------------------------------------------------
\* isRestarting: a restart or a project action holds the client.
IsRestarting(o) == o.task # "idle"

\* isStarted
IsStarted(o) == o.client # None

\* The process behind a LanguageClient exists.
Live(s) == server[s].state \in {"starting", "running", "stopping"}

\* Mutant: the suppressed prompt is not allowed again.
Cleared_NoPromptStays(o) == [o EXCEPT !.client = None, !.running = FALSE]

\* What stop() does after it waited, or at once when there is nothing to wait for.
Cleared(o) == [o EXCEPT !.client = None, !.running = FALSE, !.noPrompt = FALSE]

\* stop() awaits LanguageClient.stop() only when the client believes its server
\* to be running, and the call returns late only when it is.
StopWaits(o) == IsStarted(o) /\ o.running /\ server[o.client].state = "running"

\* LanguageClient.stop() on a running server: its state changes to Stopped at
\* once, which the handler reports to the client as running = FALSE.
StopBegins(o, w) ==
    server' = [server EXCEPT ![o.client].state = "stopping",
                             ![o.client].waiter = w]
Stopping(o) == [o EXCEPT !.running = FALSE, !.noPrompt = TRUE]

\* The end of the awaited restart: the operation's flag is reset with the task.
TaskEnds(o) == [o EXCEPT !.task = "idle", !.awaited = "none", !.starting = None]

\* Mutant: the old server is not stopped.
RestartFrom_OldServerRuns(c, o) ==
    /\ leanClient' = [leanClient EXCEPT ![c] = [o EXCEPT !.task = "toolchain"]]
    /\ UNCHANGED server

\* restart() after the elan query: stop the old server, then choose a toolchain.
RestartFrom(c, o) ==
    \/ /\ StopWaits(o)
       /\ leanClient' = [leanClient EXCEPT ![c] = [Stopping(o) EXCEPT !.task = "stop"]]
       /\ StopBegins(o, "task")
    \/ /\ ~StopWaits(o)
       /\ leanClient' = [leanClient EXCEPT ![c] =
              [(IF IsStarted(o) THEN Cleared(o) ELSE o) EXCEPT !.task = "toolchain"]]
       /\ UNCHANGED server

\* restart(): nothing while the client is already being started.
Restart(c, o) ==
    IF IsRestarting(o)
    THEN leanClient' = [leanClient EXCEPT ![c] = o] /\ UNCHANGED server
    ELSE IF o.folder \in Untitled
    THEN leanClient' = [leanClient EXCEPT ![c] = [o EXCEPT !.task = "elan"]]
         /\ UNCHANGED server
    ELSE RestartFrom(c, o)

\* Mutant: the forgotten client stays the active one.
Forget_StaysActive(c) ==
    LET f == leanClient[c].folder
    IN /\ clients' = [clients EXCEPT ![f] = None]
       /\ pending' = pending \ {f}
       /\ activeClient' = activeClient

\* The end of stopClient(): the provider forgets the client.
Forget(c) ==
    LET f == leanClient[c].folder
    IN /\ clients' = [clients EXCEPT ![f] = None]
       /\ pending' = pending \ {f}
       /\ activeClient' = IF activeClient = c THEN None ELSE activeClient

\* stopClient() once it knows which client to stop.
StopClient(c) ==
    LET o == leanClient[c]
    IN \/ /\ StopWaits(o)
          /\ leanClient' = [leanClient EXCEPT ![c] = Stopping(o)]
          /\ StopBegins(o, "stopClient")
          /\ UNCHANGED <<clients, pending, activeClient>>
       \/ /\ ~StopWaits(o)
          /\ leanClient' = [leanClient EXCEPT ![c] =
                                IF IsStarted(o) THEN Cleared(o) ELSE o]
          /\ UNCHANGED server
          /\ Forget(c)

\* The provider's serverFailed handler, with which the restart of c ends. It
\* deletes whatever client the folder has by now and disposes the one that
\* failed, which stops it when started. o is the state of c as the event fires.
ServerFails(c, o) ==
    /\ clients' = [clients EXCEPT ![o.folder] = None]
    /\ IF StopWaits(o)
       THEN /\ leanClient' = [leanClient EXCEPT ![c] = TaskEnds(Stopping(o))]
            /\ StopBegins(o, "dispose")
       ELSE /\ leanClient' = [leanClient EXCEPT ![c] =
                   TaskEnds(IF IsStarted(o) THEN Cleared(o) ELSE o)]
            /\ UNCHANGED server

\* Mutant: the folder stays pending.
EnsureReturns_StaysPending(c, o, active) ==
    /\ pending' = pending
    /\ activeClient' = IF o.awaited = "ensure" THEN c ELSE active

\* Mutant: the folder takes the place of its client.
EnsureReturns_Folder(c, o, active) ==
    IF o.awaited = "ensure"
    THEN pending' = pending \ {o.folder} /\ activeClient' = o.folder
    ELSE pending' = pending /\ activeClient' = active

\* The rest of the ensureClient call that awaited client.start(), when it returns.
EnsureReturns(c, o, active) ==
    IF o.awaited = "ensure"
    THEN pending' = pending \ {o.folder} /\ activeClient' = c
    ELSE pending' = pending /\ activeClient' = active

Deactivated(c) == IF activeClient = c THEN None ELSE activeClient

-----------------------------------------------------------------------------
\* What a command finds: in a patient run, a client at rest.
Reachable(c) ==
    \/ "impatient" \in Mishaps
    \/ ~IsRestarting(leanClient[c]) /\ ~leanClient[c].noPrompt

\* Mutant: a folder whose client is on its way is not noticed.
EnsureClient_NotPending(f) ==
    \/ /\ clients[f] # None
       /\ activeClient' = clients[f]
       /\ UNCHANGED <<clients, pending, checks, offers, leanClient, server, setting>>
    \/ /\ clients[f] = None
       /\ \E k \in setting.calls :
             /\ checks[k] = None
             /\ checks' = [checks EXCEPT ![k] =
                   [folder |-> f, existing |-> {g \in Folder : clients[g] # None}]]
       /\ pending' = pending \cup {f}
       /\ UNCHANGED <<clients, activeClient, offers, leanClient, server, setting>>

\* ensureClient(uri) up to its precondition checks; uri lies in f. It is called
\* when a document is opened and when the active editor changes.
EnsureClient(f) ==
    \/ /\ clients[f] # None
       /\ activeClient' = clients[f]
       /\ UNCHANGED <<clients, pending, checks, offers, leanClient, server, setting>>
    \/ /\ clients[f] = None
       /\ f \in pending
       /\ UNCHANGED vars
    \/ /\ clients[f] = None
       /\ f \notin pending
       /\ \E k \in setting.calls :
             /\ checks[k] = None
             /\ checks' = [checks EXCEPT ![k] =
                   [folder |-> f, existing |-> {g \in Folder : clients[g] # None}]]
       /\ pending' = pending \cup {f}
       /\ UNCHANGED <<clients, activeClient, offers, leanClient, server, setting>>

\* ensureClient(uri), and restart when the client was there already: 'Restart
\* Server' without an active client, and onInstallChanged.
EnsureRestarted(f) ==
    \/ /\ clients[f] # None
       /\ Reachable(clients[f])
       /\ activeClient' = clients[f]
       /\ Restart(clients[f], leanClient[clients[f]])
       /\ UNCHANGED <<clients, pending, checks, offers, setting>>
    \/ /\ clients[f] = None
       /\ EnsureClient(f)

Conflicts(k) == {g \in checks[k].existing : <<checks[k].folder, g>> \in Nested}

\* Mutant: the refused folder stays pending.
PreconditionsFatal_StaysPending(k) ==
    /\ checks[k] # None
    /\ \/ "refuse" \in Mishaps /\ UNCHANGED offers
       \/ \E g \in Conflicts(k) : offers' = offers \cup {g}
    /\ checks' = [checks EXCEPT ![k] = None]
    /\ activeClient' = None
    /\ UNCHANGED <<clients, pending, leanClient, server, setting>>

\* A precondition is not met. The nested-folder check offers to stop the server
\* of the other folder; it compares with the folders the call began with.
PreconditionsFatal(k) ==
    /\ checks[k] # None
    /\ \/ "refuse" \in Mishaps /\ UNCHANGED offers
       \/ \E g \in Conflicts(k) : offers' = offers \cup {g}
    /\ checks' = [checks EXCEPT ![k] = None]
    /\ pending' = pending \ {checks[k].folder}
    /\ activeClient' = None
    /\ UNCHANGED <<clients, leanClient, server, setting>>

\* A LeanClient nothing refers to.
Unused(c) ==
    /\ \A f \in Folder : clients[f] # c
    /\ activeClient # c
    /\ leanClient[c].task = "idle"
    /\ ~leanClient[c].prompt
    /\ \A s \in Server : Live(s) => server[s].owner # c

\* The preconditions are met: the client is made, registered and started.
PreconditionsFulfilled(k) ==
    /\ checks[k] # None
    /\ Conflicts(k) = {}
    /\ \E c \in Client :
          /\ Unused(c)
          /\ clients' = [clients EXCEPT ![checks[k].folder] = c]
          /\ Restart(c, [NewClient(checks[k].folder) EXCEPT !.awaited = "ensure"])
    /\ checks' = [checks EXCEPT ![k] = None]
    /\ UNCHANGED <<pending, activeClient, offers, setting>>

-----------------------------------------------------------------------------
\* elanInstalledToolchains failed or found no default toolchain: the client of
\* the unsaved files fails before its server was stopped, and restart returns.
ElanFails(c) ==
    LET o == leanClient[c] IN
    /\ "toolchain" \in Mishaps
    /\ o.task = "elan"
    /\ ServerFails(c, o)
    /\ EnsureReturns(c, o, Deactivated(c))
    /\ UNCHANGED <<checks, offers, setting>>

ElanAnswers(c) ==
    /\ leanClient[c].task = "elan"
    /\ RestartFrom(c, leanClient[c])
    /\ UNCHANGED <<clients, pending, activeClient, checks, offers, setting>>

\* determineToolchainOverride failed: startClient reports it and returns.
ToolchainFails(c) ==
    LET o == leanClient[c] IN
    /\ "toolchain" \in Mishaps
    /\ o.task = "toolchain"
    /\ ServerFails(c, o)
    /\ EnsureReturns(c, o, Deactivated(c))
    /\ UNCHANGED <<checks, offers, setting>>

\* A LanguageClient that is gone.
Free(s) ==
    /\ ~Live(s)
    /\ \A c \in Client : Unused(c) \/ leanClient[c].client # s

\* The toolchain is chosen and setupClient has made the LanguageClient, which
\* startClient now starts.
SetUpClient(c) ==
    /\ leanClient[c].task = "toolchain"
    /\ \E s \in Server :
          /\ Free(s)
          /\ leanClient' = [leanClient EXCEPT ![c].client = s,
                                              ![c].starting = s,
                                              ![c].task = "start"]
          /\ server' = [server EXCEPT ![s] =
                [state |-> "starting", owner |-> c, waiter |-> "none"]]
    /\ UNCHANGED <<clients, pending, activeClient, checks, offers, setting>>

\* LanguageClient.start() returned and this.client is still the one that was
\* started: the client is running, restarted fires and the caller goes on.
StartReturns(c) ==
    LET o == leanClient[c] IN
    /\ o.task = "start"
    /\ o.client = o.starting
    /\ leanClient' = [leanClient EXCEPT ![c] = TaskEnds([o EXCEPT !.running = TRUE])]
    /\ server' = [server EXCEPT ![o.starting].state = "running"]
    /\ EnsureReturns(c, o, activeClient)
    /\ UNCHANGED <<clients, checks, offers, setting>>

\* Mutant: the exception leaves isRestarting set, with nothing awaited any more.
StartReturnsTooLate_NoFinally(c) ==
    LET o == [leanClient[c] EXCEPT !.running = TRUE] IN
    /\ o.task = "start"
    /\ o.client = None
    /\ clients' = [clients EXCEPT ![o.folder] = None]
    /\ activeClient' = Deactivated(c)
    /\ leanClient' = [leanClient EXCEPT ![c] = [TaskEnds(o) EXCEPT !.task = "stop"]]
    /\ server' = [server EXCEPT ![o.starting].state = "running"]
    /\ UNCHANGED <<pending, checks, offers, setting>>

\* LanguageClient.start() returned after a stop() had reset this.client: reading
\* it throws, the failure is reported, and the next use of this.client throws
\* out of restart, so the caller's remaining code is skipped. The server runs.
StartReturnsTooLate(c) ==
    LET o == [leanClient[c] EXCEPT !.running = TRUE] IN
    /\ o.task = "start"
    /\ o.client = None
    /\ clients' = [clients EXCEPT ![o.folder] = None]
    /\ activeClient' = Deactivated(c)
    /\ leanClient' = [leanClient EXCEPT ![c] = TaskEnds(o)]
    /\ server' = [server EXCEPT ![o.starting].state = "running"]
    /\ UNCHANGED <<pending, checks, offers, setting>>

\* LanguageClient.start() rejects: the Stopped event raises the restart prompt,
\* serverFailed disposes the client, which resets this.client, and the use of
\* this.client after the catch throws out of restart.
StartRejects(c) ==
    LET o == [leanClient[c] EXCEPT !.running = FALSE, !.prompt = ~leanClient[c].noPrompt \/ @]
    IN
    /\ "start" \in Mishaps
    /\ o.task = "start"
    /\ clients' = [clients EXCEPT ![o.folder] = None]
    /\ activeClient' = Deactivated(c)
    /\ leanClient' = [leanClient EXCEPT ![c] =
           TaskEnds(IF IsStarted(o) THEN Cleared(o) ELSE o)]
    /\ server' = [server EXCEPT ![o.starting] = NoServer]
    /\ UNCHANGED <<pending, checks, offers, setting>>

-----------------------------------------------------------------------------
\* Mutant: the client goes on taking its server to be running.
ServerCrashes_StillRunning(s) ==
    LET c == server[s].owner IN
    /\ "crash" \in Mishaps
    /\ server[s].state = "running"
    /\ server' = [server EXCEPT ![s] = NoServer]
    /\ leanClient' = [leanClient EXCEPT ![c].prompt = ~leanClient[c].noPrompt \/ @]
    /\ UNCHANGED <<clients, pending, activeClient, checks, offers, setting>>

\* A running server exits. The handler of the LanguageClient's state resets
\* running whichever server it belongs to, and prompts for a restart unless the
\* client is being stopped. maxRestartCount is 0: nothing restarts it by itself.
ServerCrashes(s) ==
    LET c == server[s].owner IN
    /\ "crash" \in Mishaps
    /\ server[s].state = "running"
    /\ server' = [server EXCEPT ![s] = NoServer]
    /\ leanClient' = [leanClient EXCEPT ![c].running = FALSE,
                                        ![c].prompt = ~leanClient[c].noPrompt \/ @]
    /\ UNCHANGED <<clients, pending, activeClient, checks, offers, setting>>

\* The awaited LanguageClient.stop() returns, to whoever awaits it.
StopReturns(s) ==
    LET c == server[s].owner
        o == Cleared(leanClient[c])
    IN
    /\ server[s].state = "stopping"
    /\ server' = [server EXCEPT ![s] = NoServer]
    /\ leanClient' = [leanClient EXCEPT ![c] =
           IF server[s].waiter # "task" THEN o
           ELSE [o EXCEPT !.task = IF @ = "stop" THEN "toolchain" ELSE "action"]]
    /\ IF server[s].waiter = "stopClient"
       THEN Forget(c)
       ELSE UNCHANGED <<clients, pending, activeClient>>
    /\ UNCHANGED <<checks, offers, setting>>

-----------------------------------------------------------------------------
\* 'Stop Server'
StopServer ==
    /\ "stop" \in Mishaps
    /\ activeClient # None
    /\ Reachable(activeClient)
    /\ StopClient(activeClient)
    /\ UNCHANGED <<checks, offers, setting>>

\* 'Stop Other Server' in the notification of the nested-folder check. The
\* ensureClient call that follows is EnsureClient of the refused folder.
StopOtherServer(f) ==
    /\ f \in offers
    /\ "stop" \in Mishaps
    /\ clients[f] # None => Reachable(clients[f])
    /\ offers' = offers \ {f}
    /\ IF clients[f] = None
       THEN UNCHANGED <<clients, pending, activeClient, leanClient, server>>
       ELSE StopClient(clients[f])
    /\ UNCHANGED <<checks, setting>>

\* 'Restart Server'; without an active client it ensures the one of the last
\* active document.
RestartServer ==
    \/ /\ activeClient # None
       /\ Reachable(activeClient)
       /\ Restart(activeClient, leanClient[activeClient])
       /\ UNCHANGED <<clients, pending, activeClient, checks, offers, setting>>
    \/ /\ activeClient = None
       /\ \E f \in setting.folders : EnsureRestarted(f)

\* onInstallChanged for one folder.
InstallChanged(f) == EnsureRestarted(f)

\* The user closes the restart prompt, with or without asking for a restart.
PromptAnswered(c) ==
    LET o == [leanClient[c] EXCEPT !.prompt = FALSE] IN
    /\ leanClient[c].prompt
    /\ \/ /\ Reachable(c)
          /\ "stale" \in Mishaps \/ clients[o.folder] = c
          /\ Restart(c, o)
       \/ leanClient' = [leanClient EXCEPT ![c] = o] /\ UNCHANGED server
    /\ UNCHANGED <<clients, pending, activeClient, checks, offers, setting>>

\* isRunningOperation
IsRunningOperation == \E c \in Client : leanClient[c].awaited = "operation"

\* Mutant: the action starts without waiting for the server to stop.
BeginOperation_NotAwaited ==
    LET c == activeClient
        o == [leanClient[c] EXCEPT !.awaited = "operation"]
    IN
    /\ "action" \in Mishaps
    /\ ~IsRunningOperation
    /\ c # None
    /\ Reachable(c)
    /\ o.folder \notin Untitled
    /\ StopWaits(o)
    /\ leanClient' = [leanClient EXCEPT ![c] = [Stopping(o) EXCEPT !.task = "action"]]
    /\ StopBegins(o, "dispose")
    /\ UNCHANGED <<clients, pending, activeClient, checks, offers, setting>>

\* runOperation and withStoppedClient up to the action: the client is held as if
\* it were being restarted, and its server stopped.
BeginOperation ==
    LET c == activeClient
        o == [leanClient[c] EXCEPT !.awaited = "operation"]
    IN
    /\ "action" \in Mishaps
    /\ ~IsRunningOperation
    /\ c # None
    /\ Reachable(c)
    /\ o.folder \notin Untitled
    /\ ~IsRestarting(o)
    /\ \/ /\ StopWaits(o)
          /\ leanClient' = [leanClient EXCEPT ![c] =
                               [Stopping(o) EXCEPT !.task = "actionStop"]]
          /\ StopBegins(o, "task")
       \/ /\ ~StopWaits(o)
          /\ leanClient' = [leanClient EXCEPT ![c] =
                 [(IF IsStarted(o) THEN Cleared(o) ELSE o) EXCEPT !.task = "action"]]
          /\ UNCHANGED server
    /\ UNCHANGED <<clients, pending, activeClient, checks, offers, setting>>

\* The action is done: the client is released and restarted without an await
\* in between.
EndOperation(c) ==
    /\ leanClient[c].task = "action"
    /\ Restart(c, [leanClient[c] EXCEPT !.task = "idle"])
    /\ UNCHANGED <<clients, pending, activeClient, checks, offers, setting>>

-----------------------------------------------------------------------------
Next ==
    \/ \E f \in setting.folders : EnsureClient(f) \/ InstallChanged(f) \/ StopOtherServer(f)
    \/ \E k \in Call : PreconditionsFatal(k) \/ PreconditionsFulfilled(k)
    \/ \E c \in Client : \/ ElanFails(c) \/ ElanAnswers(c)
                         \/ ToolchainFails(c) \/ SetUpClient(c)
                         \/ StartReturns(c) \/ StartReturnsTooLate(c) \/ StartRejects(c)
                         \/ PromptAnswered(c) \/ EndOperation(c)
    \/ \E s \in Server : ServerCrashes(s) \/ StopReturns(s)
    \/ StopServer
    \/ RestartServer
    \/ BeginOperation

Spec == Init /\ [][Next]_vars

\* The awaits that end by themselves do end: the checks of the preconditions,
\* elan, the toolchain's choice, the project action, the start and the stop of a
\* server. Some of them ask the user in a modal dialog (leanCmdRunner.ts:195 and
\* 311, projectoperations.ts:64): he is assumed to answer or dismiss it. He need
\* not give a command, nor answer an offer to restart or to stop a server.
Fairness ==
    /\ \A k \in Call : WF_vars(PreconditionsFatal(k) \/ PreconditionsFulfilled(k))
    /\ \A c \in Client :
          /\ WF_vars(ElanFails(c) \/ ElanAnswers(c))
          /\ WF_vars(ToolchainFails(c) \/ SetUpClient(c))
          /\ WF_vars(EndOperation(c))
          /\ WF_vars(StartReturns(c) \/ StartReturnsTooLate(c) \/ StartRejects(c))
    /\ \A s \in Server : WF_vars(StopReturns(s))

FairSpec == Spec /\ Fairness

-----------------------------------------------------------------------------
\* Every variable has its type.
TypeOK ==
    /\ clients \in [Folder -> Client \cup {None}]
    /\ pending \subseteq Folder
    /\ activeClient \in Client \cup {None}
    /\ checks \in [Call -> {None} \cup [folder : Folder, existing : SUBSET Folder]]
    /\ offers \subseteq Folder
    /\ leanClient \in [Client ->
          [folder : Folder \cup {None}, client : Server \cup {None},
           running : BOOLEAN, noPrompt : BOOLEAN, prompt : BOOLEAN,
           task : Tasks, awaited : {"none", "ensure", "operation"},
           starting : Server \cup {None}]]
    /\ server \in [Server ->
          [state : {"none", "starting", "running", "stopping"},
           owner : Client \cup {None},
           waiter : {"none", "task", "stopClient", "dispose"}]]
    /\ setting \in Setting

\* Elan, the toolchains and the servers do what they are asked, the preconditions
\* apart, and commands come one at a time. Servers may crash.
Orderly == Mishaps \subseteq {"crash", "stop", "action", "refuse"}

\* Every server that is started comes up before the next command.
Patient == Mishaps \cap {"start", "impatient"} = {}

\* Two LeanClients that have a language client never are for the same folder:
\* "This class ensures we have one LeanClient per folder."
OneClientPerFolder ==
    Orderly => \A c, d \in Client :
        /\ IsStarted(leanClient[c])
        /\ IsStarted(leanClient[d])
        /\ leanClient[c].folder = leanClient[d].folder
        => c = d

\* The active client, which the InfoView and the commands talk to, is the one
\* that the provider finds for its folder.
ActiveRegistered ==
    Orderly /\ activeClient # None =>
        clients[leanClient[activeClient].folder] = activeClient

\* A folder marked pending without a client is one whose client is on its way.
\* Otherwise ensureClient returns early for it from then on, and 'Restart Server'
\* does nothing.
RestartServerActs ==
    \A f \in pending :
        clients[f] = None => \E k \in Call : checks[k] # None /\ checks[k].folder = f

\* In an orderly run that holds always: however stops, crashes,
\* refusals and project actions interleave, 'Restart Server' acts.
RestartServerActsOrderly == Orderly => RestartServerActs

\* While a project action (a build, a clean) runs in a folder, no language
\* server process works on the folder.
ActionAlone ==
    Orderly => \A c \in Client : leanClient[c].task = "action" =>
        \A s \in Server :
            Live(s) => leanClient[server[s].owner].folder # leanClient[c].folder

\* A server process that works is the one its client knows of and can stop.
EveryServerOwned ==
    Patient => \A s \in Server :
        server[s].state \in {"starting", "running"} => leanClient[server[s].owner].client = s

\* A client that takes itself to be running has a running server.
RunningTruth ==
    Patient => \A c \in Client : IsStarted(leanClient[c]) /\ leanClient[c].running =>
        server[leanClient[c].client].state = "running"

\* The restart prompt is suppressed only while the client's server is stopping,
\* so a server that crashes later is always noticed.
NoPromptWhileStopping ==
    \A c \in Client : leanClient[c].noPrompt =>
        /\ IsStarted(leanClient[c])
        /\ server[leanClient[c].client].state = "stopping"

\* A folder does not stay pending: its client comes up, fails or is refused.
PendingSettles == \A f \in Folder : Patient /\ f \in pending ~> f \notin pending

\* isRestarting is not left set, whichever way the restart or the project action
\* that set it ends: a client refuses commands for a while only.
RestartEnds ==
    \A c \in Client : IsRestarting(leanClient[c]) ~> ~IsRestarting(leanClient[c])
=============================================================================
