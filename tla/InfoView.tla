------------------------------ MODULE InfoView ------------------------------
(* InfoProvider, the extension's end of the InfoView: the web page in a panel *)
(* that shows the goals at the cursor. It keeps the RPC sessions that the     *)
(* page has with the language servers, the page's subscription to what the    *)
(* clients report, and the folders whose servers have failed.                 *)
(*                                                                            *)
(* A call of the page's API is awaited until the page answers, and a page     *)
(* that has been closed never does: the code behind the await is lost. Calls  *)
(* to one page arrive in order, so what it shows is what it was told last. A  *)
(* run of awaits on the page with nothing but such calls between them is one  *)
(* await here.                                                                *)
(*                                                                            *)
(* The life of the clients is reduced to the events they fire; all of it is   *)
(* in LeanClientProvider. Here commands wait until a client has started, no   *)
(* forgotten client is restarted, and a client does not fail, or restart,     *)
(* twice before the page has answered the first time.                         *)
EXTENDS Naturals, FiniteSets

CONSTANTS Client,  \* LeanClients, each with a folder of its own
          Session, \* RPC sessions that are asked for or kept at a time
          None,
          MaxCount \* bound: subscriptions of the page to one method

ASSUME InfoViewAssumption ==
    /\ None \notin Client
    /\ None \notin [client : Client, state : {"connecting", "live", "dead"}]
    /\ MaxCount \in Nat

VARIABLES panel,         \* webviewPanel is defined
          shown,         \* what the page was told last about the server
          focus,         \* the client of the active Lean editor
          client,        \* the state of each client
          sessions,      \* rpcSessions, and the sessions being connected
          count,         \* the page's subscriptions to one method
          heard,         \* the clients there is a handler for
          clientsFailed, \* clientsFailed
          stopped,       \* where onActiveClientStopped is for each client
          restarted,     \* where onClientRestarted is for each client
          hurried        \* clients one of whose handlers was lost or overtaken

vars == <<panel, shown, focus, client, sessions, count, heard, clientsFailed,
          stopped, restarted, hurried>>

(* A client is "absent" (not in LeanClientProvider.clients), "off" (stopped, or  *)
(* starting), "running" (requests get through, restarted is about to be fired),  *)
(* "up", or "crashed" (also while it starts anew).                               *)
Listed == {c \in Client : client[c] # "absent"}

\* The client's running flag: requests are sent.
Takes(c) == client[c] \in {"running", "up"}

Init ==
    /\ panel = FALSE
    /\ shown = "ok"
    /\ focus = None
    /\ client = [c \in Client |-> "absent"]
    /\ sessions = [s \in Session |-> None]
    /\ count = 0
    /\ heard = {}
    /\ clientsFailed = {}
    /\ stopped = [c \in Client |-> "no"]
    /\ restarted = [c \in Client |-> "no"]
    /\ hurried = {}

-----------------------------------------------------------------------------
\* The page and its sessions.

\* openPreview. What initInfoView then tells the page is as in MovesCursor.
OpenPreview ==
    /\ ~panel /\ focus # None
    /\ panel' = TRUE
    /\ shown' = "ok"
    /\ UNCHANGED <<focus, client, sessions, count, heard, clientsFailed, stopped,
                   restarted, hurried>>

\* The handlers that wait for the page.
Waiting == {c \in Client : stopped[c] # "no" \/ restarted[c] # "no"}

Kept(s) == sessions[s] # None /\ sessions[s].state # "connecting"

\* clearRpcSessions(null); a session that is being connected is not in the map.
Cleared == [s \in Session |-> IF Kept(s) THEN None ELSE sessions[s]]

\* onDidDispose of the panel.
ClosePanel ==
    /\ panel
    /\ panel' = FALSE
    /\ count' = 0
    /\ heard' = {}
    /\ sessions' = Cleared
    /\ stopped' = [c \in Client |-> "no"]
    /\ restarted' = [c \in Client |-> "no"]
    /\ hurried' = hurried \cup Waiting
    /\ UNCHANGED <<shown, focus, client, clientsFailed>>

\* createRpcSession up to its await; it throws when no client is found, and the
\* request is refused when the client does not run.
CreateRpcSession(s, c) ==
    /\ panel
    /\ sessions[s] = None
    /\ Takes(c)
    /\ sessions' = [sessions EXCEPT ![s] = [client |-> c, state |-> "connecting"]]
    /\ UNCHANGED <<panel, shown, focus, client, count, heard, clientsFailed, stopped,
                   restarted, hurried>>

\* Mutant: the panel is not looked at after the await.
SessionConnected_Unchecked(s) ==
    /\ sessions[s] # None
    /\ ~Kept(s)
    /\ sessions' = [sessions EXCEPT ![s].state = "live"]
    /\ UNCHANGED <<panel, shown, focus, client, count, heard, clientsFailed, stopped,
                   restarted, hurried>>

\* The server has answered: the session is kept alive, if there is a panel.
SessionConnected(s) ==
    /\ sessions[s] # None
    /\ ~Kept(s)
    /\ sessions' = [sessions EXCEPT ![s] = IF panel THEN [@ EXCEPT !.state = "live"] ELSE None]
    /\ UNCHANGED <<panel, shown, focus, client, count, heard, clientsFailed, stopped,
                   restarted, hurried>>

\* closeRpcSession
CloseRpcSession(s) ==
    /\ panel
    /\ Kept(s)
    /\ sessions' = [sessions EXCEPT ![s] = None]
    /\ UNCHANGED <<panel, shown, focus, client, count, heard, clientsFailed, stopped,
                   restarted, hurried>>

\* subscribeServerNotifications and subscribeClientNotifications.
Subscribe ==
    /\ panel
    /\ count < MaxCount
    /\ count' = count + 1
    /\ heard' = IF count = 0 THEN Listed ELSE heard
    /\ UNCHANGED <<panel, shown, focus, client, sessions, clientsFailed, stopped,
                   restarted, hurried>>

\* unsubscribeServerNotifications and unsubscribeClientNotifications, by a page
\* that has subscribed.
Unsubscribe ==
    /\ panel
    /\ count > 0
    /\ count' = count - 1
    /\ heard' = IF count = 1 THEN {} ELSE heard
    /\ UNCHANGED <<panel, shown, focus, client, sessions, clientsFailed, stopped,
                   restarted, hurried>>

-----------------------------------------------------------------------------
\* What the page shows.

\* Mutant: the page is told of a failure, and never that there is none.
Position_Sticky(f, failed, before) == IF f \in failed THEN "stopped" ELSE before

\* sendPosition to a page that shows before, with f the client of the active
\* editor and these failed. None is no active editor; when somebody has failed
\* and the editor has no client, the page is not told either.
Position(f, failed, before) ==
    IF f = None \/ (failed # {} /\ f \notin Listed) THEN before
    ELSE IF f \in failed THEN "stopped" ELSE "ok"

\* The user moves the cursor, edits, or goes to the editor of another project.
MovesCursor ==
    /\ \E f \in Client \cup {None} :
          /\ focus' = f
          /\ shown' = IF panel THEN Position(f, clientsFailed, shown) ELSE shown
    /\ UNCHANGED <<panel, client, sessions, count, heard, clientsFailed, stopped,
                   restarted, hurried>>

\* Clients one of whose handlers is at clientsFailed.
Clashes(c) == stopped[c] # "no" \/ restarted[c] = "clear"

\* onActiveClientStopped begins; active says whether c is the active client. The
\* page is told, then the position is sent, and then the failure is remembered.
StoppedBegins(c, active) ==
    /\ stopped[c] = "no"
    /\ IF ~panel
       THEN /\ clientsFailed' = clientsFailed \cup {c}
            /\ UNCHANGED <<shown, stopped>>
       ELSE /\ shown' = IF active THEN "stopped" ELSE Position(focus, clientsFailed, shown)
            /\ stopped' = [stopped EXCEPT ![c] = IF active THEN "told" ELSE "position"]
            /\ UNCHANGED clientsFailed
    /\ hurried' = IF Clashes(c) THEN hurried \cup {c} ELSE hurried \ {c}

\* The page has answered serverStopped.
StoppedTold(c) ==
    /\ stopped[c] = "told"
    /\ stopped' = [stopped EXCEPT ![c] = "position"]
    /\ shown' = Position(focus, clientsFailed, shown)
    /\ UNCHANGED <<panel, focus, client, sessions, count, heard, clientsFailed, restarted,
                   hurried>>

\* Mutant: only who was reached after the page answered is remembered.
StoppedRemembered_OnlyFocus(c) ==
    /\ stopped[c] = "position"
    /\ stopped' = [stopped EXCEPT ![c] = "no"]
    /\ clientsFailed' = clientsFailed \cup ({c} \cap {focus})
    /\ UNCHANGED <<panel, shown, focus, client, sessions, count, heard, restarted, hurried>>

\* The page has taken the position.
StoppedRemembered(c) ==
    /\ stopped[c] = "position"
    /\ stopped' = [stopped EXCEPT ![c] = "no"]
    /\ clientsFailed' = clientsFailed \cup {c}
    /\ UNCHANGED <<panel, shown, focus, client, sessions, count, heard, restarted, hurried>>

-----------------------------------------------------------------------------
\* The clients and the events they fire.

Becomes(c, state) == client' = [client EXCEPT ![c] = state]

\* A client is made: clientAdded. Its handlers are those of a new object.
AddClient(c) ==
    /\ client[c] = "absent"
    /\ Becomes(c, "off")
    /\ UNCHANGED <<panel, shown, focus, sessions, count, heard, clientsFailed, stopped,
                   restarted, hurried>>

\* A server has been started and initialized: State.Running.
ServerRuns(c) ==
    /\ client[c] \in {"off", "crashed"}
    /\ Becomes(c, "running")
    /\ UNCHANGED <<panel, shown, focus, sessions, count, heard, clientsFailed, stopped,
                   restarted, hurried>>

\* Mutant: the sessions with the former server are kept.
SessionsCleared_Kept(c) == sessions

\* clearRpcSessions(client)
SessionsCleared(c) == [s \in Session |->
    IF Kept(s) /\ sessions[s].client = c THEN None ELSE sessions[s]]

\* Mutant: subscribing to a new client is left to the page.
HeardToo_ByPage(c) == heard

\* The page's subscriptions are made with c too; onClientAdded leaves it to this.
HeardToo(c) == IF count > 0 THEN heard \cup {c} ELSE heard

\* The restarted event, and onClientRestarted up to its first await.
Restarted(c) ==
    /\ client[c] = "running"
    /\ restarted[c] # "clear"
    /\ Becomes(c, "up")
    /\ sessions' = SessionsCleared(c)
    /\ heard' = HeardToo(c)
    /\ hurried' = IF Clashes(c) THEN hurried \cup {c} ELSE hurried \ {c}
    /\ IF panel
       THEN /\ shown' = "ok"
            /\ restarted' = [restarted EXCEPT ![c] = "clear"]
            /\ UNCHANGED clientsFailed
       ELSE /\ clientsFailed' = clientsFailed \ {c}
            /\ UNCHANGED <<shown, restarted>>
    /\ UNCHANGED <<panel, focus, count, stopped>>

\* The page has answered: the failure is forgotten, and initInfoView begins.
RestartedCleared(c) ==
    /\ restarted[c] = "clear"
    /\ restarted' = [restarted EXCEPT ![c] = "init"]
    /\ clientsFailed' = clientsFailed \ {c}
    /\ UNCHANGED <<panel, shown, focus, client, sessions, count, heard, stopped, hurried>>

\* initInfoView tells the page of a client that has not stopped meanwhile, and
\* then the position.
RestartedInit(c) ==
    /\ restarted[c] = "init"
    /\ restarted' = [restarted EXCEPT ![c] = "no"]
    /\ shown' = IF Takes(c) THEN Position(focus, clientsFailed, "ok") ELSE shown
    /\ UNCHANGED <<panel, focus, client, sessions, count, heard, clientsFailed, stopped, hurried>>

\* The server process is gone: requests under way reject, sessions are no more.
ProcessGone(c) ==
    sessions' = [s \in Session |->
        IF sessions[s] = None \/ sessions[s].client # c THEN sessions[s]
        ELSE IF Kept(s) THEN [sessions[s] EXCEPT !.state = "dead"] ELSE None]

\* The server exits by itself: stopped.
ServerCrashes(c) ==
    /\ client[c] = "up"
    /\ Becomes(c, "crashed")
    /\ ProcessGone(c)
    /\ \E active \in BOOLEAN : StoppedBegins(c, active)
    /\ UNCHANGED <<panel, focus, count, heard, restarted>>

\* stop(): no event is fired.
Stop(c) ==
    /\ client[c] \in {"up", "crashed"}
    /\ Becomes(c, "off")
    /\ ProcessGone(c)
    /\ UNCHANGED <<panel, shown, focus, count, heard, clientsFailed, stopped, restarted, hurried>>

\* The client is taken out of LeanClientProvider.clients. What is left of it in
\* the InfoView belongs to an object that nobody uses any more, also the sessions
\* that stay in rpcSessions until the panel closes.
Removed(c) ==
    /\ Becomes(c, "absent")
    /\ sessions' = [s \in Session |->
          IF sessions[s] # None /\ sessions[s].client = c THEN None ELSE sessions[s]]
    /\ heard' = heard \ {c}

\* stopClient, after stop(); or serverFailed, when there is no toolchain.
RemoveClient(c) ==
    /\ client[c] \in {"off", "crashed"}
    /\ Removed(c)
    /\ UNCHANGED <<panel, shown, focus, count, clientsFailed, stopped, restarted, hurried>>

\* LanguageClient.start() rejects, which the library reports as stopped before
\* serverFailed is fired.
StartFails(c) ==
    /\ client[c] \in {"off", "crashed"}
    /\ Removed(c)
    /\ \E active \in BOOLEAN : StoppedBegins(c, active)
    /\ UNCHANGED <<panel, focus, count, restarted>>

Next ==
    \/ OpenPreview \/ ClosePanel \/ Subscribe \/ Unsubscribe \/ MovesCursor
    \/ \E s \in Session :
          \/ SessionConnected(s) \/ CloseRpcSession(s)
          \/ \E c \in Client : CreateRpcSession(s, c)
    \/ \E c \in Client :
          \/ AddClient(c) \/ ServerRuns(c) \/ Restarted(c)
          \/ RestartedCleared(c) \/ RestartedInit(c)
          \/ ServerCrashes(c) \/ StoppedTold(c) \/ StoppedRemembered(c)
          \/ Stop(c) \/ RemoveClient(c) \/ StartFails(c)

Spec == Init /\ [][Next]_vars

-----------------------------------------------------------------------------
\* Every variable has its type.
TypeOK ==
    /\ panel \in BOOLEAN
    /\ shown \in {"ok", "stopped"}
    /\ focus \in Client \cup {None}
    /\ client \in [Client -> {"absent", "off", "running", "up", "crashed"}]
    /\ sessions \in [Session -> {None} \cup
          [client : Client, state : {"connecting", "live", "dead"}]]
    /\ count \in 0..MaxCount
    /\ heard \subseteq Client
    /\ clientsFailed \subseteq Client
    /\ stopped \in [Client -> {"no", "told", "position"}]
    /\ restarted \in [Client -> {"no", "clear", "init"}]
    /\ hurried \subseteq Client

\* No session is kept alive without a panel, although a session that was being
\* connected when the panel closed arrives afterwards.
SessionsEndWithPanel ==
    ~panel => \A s \in Session : ~Kept(s)

\* Once a client has announced its server, no session with an earlier server
\* process of it is kept, whenever its connection was asked for and answered.
SessionsOfServer ==
    \A s \in Session :
        Kept(s) /\ client[sessions[s].client] = "up" => sessions[s].state = "live"

\* While the page has subscriptions it hears of every client that is up, also of
\* those added or restarted since; when it has none, nobody is listened to.
EveryoneHeard ==
    /\ count > 0 => \A c \in Client : client[c] = "up" => c \in heard
    /\ count = 0 => heard = {}

\* "add failed client into a list (will be removed in case the client is
\* restarted)": once the handlers have ended, clientsFailed has the clients whose
\* server crashed and none whose server is up. Handlers that were lost with their
\* page, or overtaken by one another, are excepted, see hurried.
FailedTruth ==
    \A c \in Client \ hurried : ~Clashes(c) =>
        /\ client[c] = "crashed" => c \in clientsFailed
        /\ client[c] = "up" => c \notin clientsFailed

\* When no handler is at work, the page does not show that the server of the
\* active editor has stopped while that is up.
NotShownStopped ==
    panel /\ Waiting = {} /\ focus \in Client \ hurried /\ client[focus] = "up" => shown = "ok"
=============================================================================
