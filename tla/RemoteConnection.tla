-------------------------- MODULE RemoteConnection --------------------------
(* The connections of a window to a remote server across sockets that break:  *)
(* PersistentConnection on the window's side, which reconnects until it gives *)
(* up for good; RemoteExtensionHostAgentServer, which knows its connections   *)
(* by their reconnection tokens; ManagementConnection and                     *)
(* ExtensionHostConnection, which keep what a client left behind for a grace  *)
(* time; and the extension host process, which is handed the sockets of its   *)
(* connection one after the other. What is said over a socket once it is up   *)
(* is the subject of PersistentProtocol.                                      *)
(*                                                                            *)
(* A connection here is a reconnection token. The first attempts to connect   *)
(* each have a new one, so there are as many connections of a kind as there   *)
(* are first attempts. A socket that both ends closed and nobody refers to is *)
(* free to be used again. The token and version checks of the handshake pass. *)
EXTENDS Naturals, Sequences, SequencesExt

CONSTANTS Management,  \* the tokens for management connections
          ExtHost,     \* the tokens for extension host connections
          Socket,      \* sockets alive at a time
          None,
          MaxAttempts, \* attempts to reconnect before the client gives up (360)
          MaxFaults    \* sockets cut, attempts failed, processes died: how often

ASSUME RemoteAssumption ==
    /\ Management \cap ExtHost = {}
    /\ None \notin Socket /\ None \notin Management \cup ExtHost
    /\ MaxAttempts \in Nat
    /\ MaxFaults \in Nat

Connection == Management \cup ExtHost
Kin(c) == IF c \in Management THEN Management ELSE ExtHost

VARIABLES client,    \* PersistentConnection and the attempt to make one
          instances, \* PersistentConnection._instances
          permanent, \* PersistentConnection._permanentFailure
          socket,    \* both ends of each socket and the handshake on it
          entry,     \* _managementConnections, _extHostConnections, _allReconnectionTokens
          grace,     \* the timers and the socket of whoever holds the protocol
          exthost,   \* ExtensionHostConnection and its process
          faults

vars == <<client, instances, permanent, socket, entry, grace, exthost, faults>>

NewClient == [phase |-> "none", socket |-> None, again |-> FALSE, attempt |-> 0,
              failed |-> FALSE, leaving |-> "no"]

NoSocket == [of |-> None, again |-> FALSE, client |-> FALSE, server |-> FALSE,
             cut |-> FALSE, bye |-> FALSE, step |-> "spent"]

\* disconnectRunner1, disconnectRunner2, the timer for the first socket, and
\* the socket of the server's or the extension host's protocol.
NoGrace == [socket |-> None, long |-> FALSE, short |-> FALSE, first |-> FALSE]

\* data: _connectionData; draining: sockets whose writes are being drained;
\* inbox: messages on their way to the process; ready: its READY on the way.
NoProcess == [state |-> "none", data |-> None, ready |-> FALSE,
              draining |-> {}, inbox |-> <<>>]

Init ==
    /\ client = [c \in Connection |-> NewClient]
    /\ instances = <<>>
    /\ permanent = FALSE
    /\ socket = [s \in Socket |-> NoSocket]
    /\ entry = [c \in Connection |-> "never"]
    /\ grace = [c \in Connection |-> NoGrace]
    /\ exthost = [c \in Connection |-> NoProcess]
    /\ faults = 0

-----------------------------------------------------------------------------
\* Sockets.

HandedOver(c) == {m.handle : m \in ToSet(exthost[c].inbox)} \ {None}

\* Those of the server's side who hold s.
Holders(s) == {c \in Connection :
    \/ s = grace[c].socket
    \/ s = exthost[c].data
    \/ s \in exthost[c].draining \cup HandedOver(c)}

\* Nobody has s: the window does not use it and no one refers to it.
Free(s) ==
    /\ ~socket[s].client /\ ~socket[s].server /\ socket[s].step # "port"
    /\ Holders(s) = {}
    /\ \A c \in Connection : client[c].socket # s

\* Nothing more will be heard on s by the client: it was cut or closed, or no
\* one at the other end answers.
Silent(s) ==
    \/ socket[s].cut
    \/ ~socket[s].server
    \/ socket[s].step \in {"up", "spent"} /\ Holders(s) = {}

\* A socket that is closed at both ends is forgotten, unless the server is about
\* to accept it.
Forgotten(r) == IF r.client \/ r.server \/ r.step = "port" THEN r ELSE NoSocket

CloseClient(sockets) ==
    [s \in Socket |-> IF s \notin sockets THEN socket[s]
                      ELSE Forgotten([socket[s] EXCEPT !.client = FALSE])]

CloseServer(sockets) ==
    [s \in Socket |-> IF s \notin sockets THEN socket[s]
                      ELSE Forgotten([socket[s] EXCEPT !.server = FALSE, !.step = "spent"])]

Fault == faults < MaxFaults /\ faults' = faults + 1

-----------------------------------------------------------------------------
\* The window.

\* createInitialConnection makes one attempt after the other.
Begin(c) ==
    /\ \A d \in Kin(c) : client[d].phase \in {"none", "dropped"}
    /\ client[c].phase = "none"
    /\ c \in ExtHost => \E d \in Management : client[d].again
    /\ ~permanent
    /\ client' = [client EXCEPT ![c].phase = "connecting"]
    /\ UNCHANGED <<instances, permanent, socket, entry, grace, exthost, faults>>

\* Whom forEach reaches in triggerPermanentFailure. A management connection is
\* disposed when it hears of the failure (onDidDispose), which takes it out of
\* the array under forEach, so the instance after it is passed over.
Reached == {instances[i] : i \in {j \in DOMAIN instances :
                                     j > 1 => instances[j - 1] \notin Management}}

\* _instances without d, which is disposed: splice(indexOf(this), 1).
Without(d) ==
    IF d \notin ToSet(instances) THEN instances
    ELSE RemoveAt(instances, CHOOSE i \in DOMAIN instances : instances[i] = d)

\* _gotoPermanentFailure of the instances in hearing: the protocol and its socket
\* are disposed; a loop that is under way goes on until it looks. c ends its own.
\* At most one management connection is there to hear of it.
GoToPermanentFailure(hearing, c) ==
    /\ client' = [d \in Connection |->
          IF d \notin hearing \cup {c} THEN client[d]
          ELSE [client[d] EXCEPT
                   !.phase = IF d = c THEN IF client[c].again THEN "over" ELSE "dropped"
                             ELSE IF @ = "up" THEN "over" ELSE @,
                   !.socket = IF d = c \/ client[d].phase = "up" THEN None ELSE @,
                   !.failed = d \in hearing \/ @,
                   !.leaving = IF d \in hearing \cap Management THEN "disposed" ELSE @]]
    /\ socket' = CloseClient({client[d].socket : d \in hearing \cup {c}} \ {None})
    /\ IF hearing \cap Management = {} THEN UNCHANGED instances
       ELSE \E d \in hearing \cap Management : instances' = Without(d)

\* triggerPermanentFailure
TriggerPermanentFailure(c) == permanent' = TRUE /\ GoToPermanentFailure(Reached, c)

\* _onReconnectionPermanentFailure: fatal for a management connection.
GivesUp(c) ==
    IF c \in Management
    THEN TriggerPermanentFailure(c)
    ELSE UNCHANGED permanent /\ GoToPermanentFailure({c}, c)

\* Mutant: one attempt more.
Exhausted_OneMore(c) == client[c].attempt > MaxAttempts + 1

\* "ReconnectionGraceTime is 3hrs, with 30s between attempts"
Exhausted(c) == client[c].attempt > MaxAttempts

\* An attempt ended with an error after which the next one may follow. The first
\* attempts have no protocol to return to, and dispose theirs.
AttemptEnds(c) ==
    IF ~client[c].again
    THEN IF \E d \in Kin(c) : client[d].phase = "none"
         THEN /\ client' = [client EXCEPT ![c].phase = "dropped", ![c].socket = None]
              /\ socket' = CloseClient({client[c].socket} \ {None})
              /\ UNCHANGED <<instances, permanent>>
         ELSE TriggerPermanentFailure(c)
    ELSE IF Exhausted(c)
    THEN GivesUp(c)
    ELSE /\ client' = [client EXCEPT
                ![c].phase = IF permanent \/ client[c].leaving = "disposed"
                             THEN "over" ELSE "wait",
                ![c].attempt = @ + 1]
         /\ UNCHANGED <<socket, instances, permanent>>

\* The address is not resolved or the socket not opened: ECONNREFUSED, a timeout.
ConnectFails(c) ==
    /\ client[c].phase = "connecting"
    /\ AttemptEnds(c)
    /\ UNCHANGED <<entry, grace, exthost, faults>>

\* createSocket is done: beginAcceptReconnection disposes the protocol's previous
\* socket, and the authentication request is sent.
SocketOpens(c) ==
    /\ client[c].phase = "connecting"
    /\ \E s \in Socket : Free(s)
    /\ LET s == CHOOSE t \in Socket : Free(t) IN
          /\ socket' = [CloseClient({client[c].socket} \ {None}) EXCEPT ![s] =
                [of |-> c, again |-> client[c].again, client |-> TRUE, server |-> TRUE,
                 cut |-> FALSE, bye |-> FALSE, step |-> "auth"]]
          /\ client' = [client EXCEPT ![c].phase = "handshake", ![c].socket = s]
    /\ UNCHANGED <<instances, permanent, entry, grace, exthost, faults>>

\* A message or an answer that the other end sent on s arrives.
Arrives(s) == socket[s].client /\ ~socket[s].cut

\* Mutant: a reconnection is given no time limit either.
HasTimeout_SignOnly(c) == socket[client[c].socket].step = "auth"

\* Only the first answer of a first attempt is waited for with a timeout, a
\* reconnection as a whole has one.
HasTimeout(c) == client[c].again \/ socket[client[c].socket].step = "auth"

\* The handshake takes too long.
HandshakeTimesOut(c) ==
    LET s == client[c].socket IN
    /\ client[c].phase = "handshake"
    /\ HasTimeout(c)
    /\ IF Silent(s) \/ ~socket[s].client THEN UNCHANGED faults ELSE Fault
    /\ AttemptEnds(c)
    /\ UNCHANGED <<entry, grace, exthost>>

\* The server refused: permanent, except for a first attempt.
HandshakeRefused(c) ==
    LET s == client[c].socket IN
    /\ client[c].phase = "handshake"
    /\ socket[s].step = "error" /\ Arrives(s)
    /\ IF client[c].again THEN GivesUp(c) ELSE AttemptEnds(c)
    /\ UNCHANGED <<entry, grace, exthost, faults>>

\* The server's answer is the end of the handshake: ConnectionGain. A new
\* PersistentConnection goes to the permanent failure there may be already.
HandshakeDone(c) ==
    LET s == client[c].socket
        late == permanent /\ ~client[c].again
    IN
    /\ client[c].phase = "handshake"
    /\ socket[s].step = "ok" /\ Arrives(s)
    /\ client' = [client EXCEPT ![c].phase = IF late THEN "over" ELSE "up",
                                ![c].failed = late \/ @,
                                ![c].again = TRUE, ![c].attempt = 0]
    /\ socket' = [socket EXCEPT ![s].step = "up", ![s].client = ~late]
    /\ instances' = IF client[c].again THEN instances ELSE Append(instances, c)
    /\ UNCHANGED <<permanent, entry, grace, exthost, faults>>

\* The client notices that its socket is dead, by a close event or because its
\* messages are not acknowledged; the latter may be an error of judgement. It
\* begins to reconnect, at once the first time.
LosesSocket(c) ==
    /\ client[c].phase = "up"
    /\ \/ /\ permanent \/ client[c].leaving = "disposed"
          /\ Silent(client[c].socket)
          /\ client' = [client EXCEPT ![c].phase = "over", ![c].socket = None]
          /\ socket' = CloseClient({client[c].socket})
          /\ UNCHANGED faults
       \/ /\ ~permanent /\ client[c].leaving # "disposed"
          /\ client' = [client EXCEPT ![c].phase = "connecting"]
          /\ IF Silent(client[c].socket) THEN UNCHANGED faults ELSE Fault
          /\ UNCHANGED socket
    /\ UNCHANGED <<instances, permanent, entry, grace, exthost>>

\* The wait before the next attempt is over.
WaitEnds(c) ==
    /\ client[c].phase = "wait"
    /\ client' = [client EXCEPT ![c].phase = IF permanent THEN "over" ELSE "connecting"]
    /\ UNCHANGED <<instances, permanent, socket, entry, grace, exthost, faults>>

\* RemoteExtensionHost.disconnect: Terminate and Disconnect are sent on the
\* protocol's socket, be it up or not.
Disconnects(c) ==
    /\ c \in ExtHost
    /\ client[c].again /\ client[c].leaving = "no" /\ client[c].phase # "gone"
    /\ grace[c].socket # None \/ client[c].failed
    /\ client' = [client EXCEPT ![c].leaving = "disconnected"]
    /\ socket' = [s \in Socket |-> IF s # client[c].socket THEN socket[s]
                                   ELSE [socket[s] EXCEPT !.bye = socket[s].client]]
    /\ UNCHANGED <<instances, permanent, entry, grace, exthost, faults>>

\* RemoteExtensionHost.dispose, after the drain: the PersistentConnection hears
\* nothing any more and its socket is ended. A loop under way is not told.
Disposes(c) ==
    /\ client[c].leaving = "disconnected"
    /\ client[c].phase # "gone"
    /\ client' = [client EXCEPT ![c].leaving = "disposed",
                                ![c].phase = IF @ = "up" THEN "over" ELSE @,
                                ![c].socket = IF client[c].phase = "up" THEN None ELSE @]
    /\ socket' = CloseClient({client[c].socket} \ {None})
    /\ instances' = Without(c)
    /\ UNCHANGED <<permanent, entry, grace, exthost, faults>>

\* The window closes, saying goodbye on the management connection, or crashes.
WindowCloses ==
    /\ \E c \in Connection : client[c].phase # "gone"
    /\ \E goodbye \in SUBSET {c \in Management : client[c].phase = "up"} :
          socket' = [s \in Socket |-> Forgotten([socket[s] EXCEPT
                        !.client = FALSE,
                        !.bye = @ \/ \E c \in goodbye : client[c].socket = s])]
    /\ client' = [c \in Connection |-> [NewClient EXCEPT !.phase = "gone"]]
    /\ UNCHANGED <<instances, permanent, entry, grace, exthost, faults>>

-----------------------------------------------------------------------------
\* The server.

\* shortenReconnectionGraceTimeIfNecessary, in the server and in the process.
Shortened(g) == [g EXCEPT !.short = g.long \/ @]

\* A client has shown that there is a network: all grace times are shortened,
\* those of the extension hosts by a message. Of equal messages waiting in a
\* row one is kept.
GraceShortened == [c \in Connection |->
    IF c \in Management /\ entry[c] = "live" THEN Shortened(grace[c]) ELSE grace[c]]

Reduce == [type |-> "reduce", handle |-> None]

ProcessesTold == [c \in Connection |->
    IF \/ entry[c] # "live"
       \/ exthost[c].state \notin {"booting", "listening"}
       \/ exthost[c].inbox # <<>> /\ Last(exthost[c].inbox) = Reduce
    THEN exthost[c]
    ELSE [exthost[c] EXCEPT !.inbox = Append(@, Reduce)]]

\* Another window connects to the server while somebody is lost.
OtherWindowConnects ==
    /\ \E c \in Connection : grace[c].long
    /\ grace' = GraceShortened
    /\ exthost' = ProcessesTold
    /\ UNCHANGED <<client, instances, permanent, socket, entry, faults>>

\* A message of the client arrives at the server.
Received(s) == socket[s].server /\ ~socket[s].cut

\* WaitingForAuth: the client's signature is asked for, and given.
Authenticates(s) ==
    /\ socket[s].step = "auth" /\ Received(s) /\ socket[s].client
    /\ socket' = [socket EXCEPT ![s].step = "type"]
    /\ UNCHANGED <<client, instances, permanent, entry, grace, exthost, faults>>

Rejected(s) ==
    [socket EXCEPT ![s] = Forgotten([@ EXCEPT !.step = "error", !.server = FALSE])]

\* Mutant: the timers go on when the client is back.
Accepted_TimersGoOn(g, s) == [g EXCEPT !.socket = s]

\* acceptReconnection of a protocol: the timers are cancelled.
Accepted(g, s) == [NoGrace EXCEPT !.socket = s]

\* Mutant: the token is not looked up again.
Known_Seen(s) == entry[socket[s].of] # "never"

\* A reconnection finds its connection, a new connection is always welcome.
Known(s) == entry[socket[s].of] = "live"

\* WaitingForConnectionType, for a management connection: the socket becomes that
\* of a new or of the known connection.
HandleManagement(s) ==
    LET c == socket[s].of IN
    /\ c \in Management
    /\ socket[s].step = "type" /\ Received(s)
    /\ IF socket[s].again /\ ~Known(s)
       THEN /\ grace' = GraceShortened
            /\ socket' = Rejected(s)
            /\ UNCHANGED entry
       ELSE /\ grace' = [GraceShortened EXCEPT ![c] = Accepted(@, s)]
            /\ socket' = [CloseServer({grace[c].socket} \ {None}) EXCEPT ![s].step = "ok"]
            /\ entry' = [entry EXCEPT ![c] = "live"]
    /\ exthost' = ProcessesTold
    /\ UNCHANGED <<client, instances, permanent, faults>>

\* The same for an extension host connection, which first waits for a debug port.
FindPort(s) ==
    /\ socket[s].of \in ExtHost
    /\ socket[s].step = "type" /\ Received(s)
    /\ socket' = [socket EXCEPT ![s].step = "port"]
    /\ grace' = GraceShortened
    /\ exthost' = ProcessesTold
    /\ UNCHANGED <<client, instances, permanent, entry, faults>>

\* ExtensionHostConnection.acceptReconnection: until there is a process the socket
\* replaces the one kept for it, afterwards it is sent to the process.
TakesSocket(p, s) ==
    IF p.state \in {"none", "env"} THEN [p EXCEPT !.data = s]
    ELSE [p EXCEPT !.draining = @ \cup {s}]

\* The port is found. The socket may have been closed meanwhile.
HandleExtHost(s) ==
    LET c == socket[s].of IN
    /\ socket[s].step = "port"
    /\ IF socket[s].again /\ ~Known(s)
       THEN /\ socket' = Rejected(s)
            /\ UNCHANGED <<entry, exthost>>
       ELSE /\ socket' = [socket EXCEPT ![s] = Forgotten([@ EXCEPT !.step = "ok"])]
            /\ entry' = [entry EXCEPT ![c] = "live"]
            /\ exthost' = [exthost EXCEPT ![c] =
                  IF socket[s].again THEN TakesSocket(@, s)
                  ELSE [NoProcess EXCEPT !.state = "env", !.data = s]]
    /\ UNCHANGED <<client, instances, permanent, grace, faults>>

\* start: the environment is there and the process is forked.
Forks(c) ==
    /\ exthost[c].state = "env"
    /\ exthost' = [exthost EXCEPT ![c].state = "booting"]
    /\ UNCHANGED <<client, instances, permanent, socket, entry, grace, faults>>

\* READY arrives: the socket that was kept is sent.
SendsFirstSocket(c) ==
    /\ exthost[c].ready
    /\ exthost' = [exthost EXCEPT ![c].ready = FALSE, ![c].data = None,
                                  ![c].draining = @ \cup {exthost[c].data}]
    /\ UNCHANGED <<client, instances, permanent, socket, entry, grace, faults>>

\* _sendSocketToExtensionHost after the drain. Of a socket that has been closed
\* only the message is sent, and a process that has exited receives nothing.
Drains(c, s) ==
    LET handle == IF socket[s].server THEN s ELSE None IN
    /\ s \in exthost[c].draining
    /\ exthost' = [exthost EXCEPT
          ![c].draining = @ \ {s},
          ![c].inbox = IF exthost[c].state \in {"none", "exited"} THEN @
                       ELSE Append(@, [type |-> "socket", handle |-> handle])]
    /\ UNCHANGED <<client, instances, permanent, socket, entry, grace, faults>>

\* Mutant: nothing is scheduled.
Lost_NoTimer(g) == g

\* onSocketClose of the protocol
Lost(g) == [g EXCEPT !.long = TRUE]

\* The server sees the end of a socket: the holder of the protocol starts the
\* long timer. A goodbye that was received before is dealt with first, and a
\* socket on its way to the process is read by nobody.
SocketEnds(s) ==
    LET keepers == {c \in Connection : grace[c].socket = s} IN
    /\ socket[s].server
    /\ ~socket[s].client \/ socket[s].cut
    /\ socket[s].bye /\ ~socket[s].cut => keepers = {}
    /\ \A c \in ExtHost : s \notin HandedOver(c)
    /\ socket' = [socket EXCEPT ![s] = Forgotten([@ EXCEPT !.server = FALSE])]
    /\ grace' = [c \in Connection |->
                    IF c \in keepers THEN Lost(grace[c]) ELSE grace[c]]
    /\ UNCHANGED <<client, instances, permanent, entry, exthost, faults>>

\* ManagementConnection._cleanResources
CleansUp(c) ==
    /\ entry' = [entry EXCEPT ![c] = "gone"]
    /\ grace' = [grace EXCEPT ![c] = NoGrace]
    /\ socket' = CloseServer({grace[c].socket})
    /\ UNCHANGED <<client, instances, permanent, exthost, faults>>

SaidGoodbye(c) ==
    /\ grace[c].socket # None
    /\ socket[grace[c].socket].bye /\ Received(grace[c].socket)

ManagementEnds(c) ==
    /\ c \in Management /\ entry[c] = "live"
    /\ grace[c].long \/ grace[c].short \/ SaidGoodbye(c)
    /\ CleansUp(c)

-----------------------------------------------------------------------------
\* The extension host process.

\* It listens for messages, sends READY and gives the server 60 s to answer.
Boots(c) ==
    /\ exthost[c].state = "booting"
    /\ exthost' = [exthost EXCEPT ![c].state = "listening", ![c].ready = TRUE]
    /\ grace' = [grace EXCEPT ![c].first = TRUE]
    /\ UNCHANGED <<client, instances, permanent, socket, entry, faults>>

\* A message of the server. Without a socket its handler throws, which is logged.
ProcessReceives(c) ==
    /\ exthost[c].state = "listening"
    /\ exthost[c].inbox # <<>>
    /\ LET m == Head(exthost[c].inbox) IN
          /\ grace' = [grace EXCEPT ![c] =
                IF m = Reduce THEN Shortened(@)
                ELSE IF m.handle = None THEN @ ELSE Accepted(@, m.handle)]
          /\ socket' = CloseServer(IF m.handle = None THEN {} ELSE {grace[c].socket} \ {None})
    /\ exthost' = [exthost EXCEPT ![c].inbox = Tail(@)]
    /\ UNCHANGED <<client, instances, permanent, entry, faults>>

\* The process ends, because a timer fired, its client left or it crashed. The
\* system closes its sockets.
ProcessExits(c) ==
    /\ exthost[c].state \in {"booting", "listening"}
    /\ IF \/ grace[c].long \/ grace[c].short \/ grace[c].first
          \/ SaidGoodbye(c)
       THEN UNCHANGED faults ELSE Fault
    /\ exthost' = [exthost EXCEPT ![c].state = "exited", ![c].inbox = <<>>, ![c].ready = FALSE]
    /\ grace' = [grace EXCEPT ![c] = NoGrace]
    /\ socket' = CloseServer(({grace[c].socket} \cup HandedOver(c)) \ {None})
    /\ UNCHANGED <<client, instances, permanent, entry>>

\* The exit event, or the error of a send to it: ExtensionHostConnection cleans up.
ExitSeen(c) ==
    /\ exthost[c].state = "exited" /\ entry[c] = "live"
    /\ entry' = [entry EXCEPT ![c] = "gone"]
    /\ exthost' = [exthost EXCEPT ![c] = [NoProcess EXCEPT !.draining = exthost[c].draining]]
    /\ socket' = CloseServer({exthost[c].data} \ {None})
    /\ UNCHANGED <<client, instances, permanent, grace, faults>>

-----------------------------------------------------------------------------
\* The network between them fails without a word, or the server is restarted
\* and has forgotten all tokens.
SocketCut(s) ==
    /\ Fault
    /\ socket[s].client \/ socket[s].server
    /\ ~socket[s].cut
    /\ socket' = [socket EXCEPT ![s].cut = TRUE]
    /\ UNCHANGED <<client, instances, permanent, entry, grace, exthost>>

ServerRestarts ==
    /\ Fault
    /\ \E c \in Connection : entry[c] # "never"
    /\ entry' = [c \in Connection |-> "never"]
    /\ grace' = [c \in Connection |-> NoGrace]
    /\ exthost' = [c \in Connection |-> NoProcess]
    /\ socket' = CloseServer({s \in Socket : socket[s].server \/ socket[s].step = "port"})
    /\ UNCHANGED <<client, instances, permanent>>

-----------------------------------------------------------------------------
Next ==
    \/ \E c \in Connection :
          \/ Begin(c) \/ ConnectFails(c) \/ SocketOpens(c) \/ HandshakeTimesOut(c)
          \/ HandshakeRefused(c) \/ HandshakeDone(c) \/ LosesSocket(c) \/ WaitEnds(c)
          \/ Disconnects(c) \/ Disposes(c) \/ ManagementEnds(c)
    \/ \E c \in ExtHost :
          \/ Forks(c) \/ SendsFirstSocket(c) \/ Boots(c) \/ ProcessReceives(c)
          \/ ProcessExits(c) \/ ExitSeen(c)
          \/ \E s \in Socket : Drains(c, s)
    \/ \E s \in Socket :
          \/ Authenticates(s) \/ HandleManagement(s) \/ FindPort(s) \/ HandleExtHost(s)
          \/ SocketEnds(s) \/ SocketCut(s)
    \/ WindowCloses \/ OtherWindowConnects \/ ServerRestarts

Spec == Init /\ [][Next]_vars

(* Messages over a socket that works arrive, timers fire, processes boot and     *)
(* exit, and the operating system reports a dead socket to either end in the     *)
(* end. Nothing is assumed of the user and of the faults.                        *)
ClientGoesOn(c) ==
    \/ SocketOpens(c) \/ HandshakeRefused(c) \/ HandshakeDone(c) \/ WaitEnds(c)
    \/ HandshakeTimesOut(c) /\ UNCHANGED faults
    \/ LosesSocket(c) /\ UNCHANGED faults

SocketGoesOn(s) ==
    \/ Authenticates(s) \/ HandleManagement(s) \/ FindPort(s) \/ HandleExtHost(s)
    \/ SocketEnds(s)

Fairness ==
    /\ \A c \in Connection : WF_vars(ClientGoesOn(c))
    /\ \A s \in Socket : WF_vars(SocketGoesOn(s))
    /\ \A c \in Management : WF_vars(ManagementEnds(c))
    /\ \A c \in ExtHost :
          /\ WF_vars(Forks(c) \/ Boots(c) \/ SendsFirstSocket(c)
                     \/ \E s \in Socket : Drains(c, s))
          /\ WF_vars(ProcessReceives(c))
          /\ WF_vars((ProcessExits(c) /\ UNCHANGED faults) \/ ExitSeen(c))

FairSpec == Spec /\ Fairness

-----------------------------------------------------------------------------
\* Properties.

TypeOK ==
    /\ client \in [Connection ->
          [phase : {"none", "connecting", "handshake", "up", "wait", "over", "dropped", "gone"},
           socket : Socket \cup {None}, again : BOOLEAN, attempt : 0 .. MaxAttempts + 1,
           failed : BOOLEAN, leaving : {"no", "disconnected", "disposed"}]]
    /\ ToSet(instances) \subseteq Connection /\ Len(instances) <= 2
    /\ permanent \in BOOLEAN
    /\ socket \in [Socket ->
          [of : Connection \cup {None}, again : BOOLEAN, client : BOOLEAN, server : BOOLEAN,
           cut : BOOLEAN, bye : BOOLEAN,
           step : {"auth", "type", "port", "ok", "error", "up", "spent"}]]
    /\ entry \in [Connection -> {"never", "live", "gone"}]
    /\ grace \in [Connection -> [socket : Socket \cup {None}, long : BOOLEAN,
                                 short : BOOLEAN, first : BOOLEAN]]
    /\ \A c \in Connection :
          /\ exthost[c].state \in {"none", "env", "booting", "listening", "exited"}
          /\ exthost[c].data \in Socket \cup {None}
          /\ exthost[c].ready \in BOOLEAN
          /\ exthost[c].draining \subseteq Socket
          /\ HandedOver(c) \subseteq Socket
    /\ faults \in 0 .. MaxFaults

\* Whoever keeps the protocol of a lost client is on the clock, and only he: the
\* grace timers run exactly while its socket is closed, whichever sockets came
\* and went, and the short timer never runs without the long one.
GraceWhileLost ==
    \A c \in Connection : grace[c].socket # None =>
        /\ grace[c].long <=> ~socket[grace[c].socket].server
        /\ grace[c].short => grace[c].long
        /\ ~grace[c].first

\* "This is a connection that was seen in the past, but is no longer valid": no
\* reconnection brings back a connection the server has cleaned up.
NeverRevived == [][\A c \in Connection : entry[c] = "gone" => entry'[c] # "live"]_vars

\* The client that is up and whose socket is sound is the one that the keeper of
\* the connection listens to, or will.
Served(c) == LET s == client[c].socket IN
    /\ client[c].phase = "up"
    /\ socket[s].client /\ socket[s].server /\ ~socket[s].cut
    /\ grace[c].socket = s

\* A connection that was made once is served again after faults, or given up.
Settles == \A c \in Connection :
    client[c].again ~> [](client[c].phase \in {"over", "gone"}) \/ Served(c)

\* The server forgets a client that is gone, in the first attempt or later, and
\* its extension host process ends.
ClientForgotten == \A c \in Connection :
    client[c].phase \in {"dropped", "gone"} ~>
        entry[c] # "live" /\ exthost[c].state \in {"none", "exited"}

\* "Will attempt to connect 5 times. If it fails 5 consecutive times, it will
\* give up": the first attempt to connect ends.
FirstAttemptEnds == \A c \in Connection :
    client[c].phase = "connecting" /\ ~client[c].again ~>
        client[c].again \/ client[c].phase \in {"dropped", "gone"}
=============================================================================
