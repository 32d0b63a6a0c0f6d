------------------------- MODULE PersistentProtocol -------------------------
(***************************************************************************)
(* The two PersistentProtocol ends of one remote connection (a renderer and *)
(* the server, or the renderer and a remote extension host) and the sockets *)
(* between them (base/parts/ipc/common/ipc.net.ts).  Each end numbers its   *)
(* regular messages, keeps them until they are acknowledged, and writes all *)
(* unacknowledged ones again on the socket a reconnection brings.           *)
(*                                                                         *)
(* The client runs the reconnection loop of PersistentConnection            *)
(* (platform/remote/common/remoteAgentConnection.ts).  A fresh socket first *)
(* belongs to a temporary protocol of the server, which reads the handshake *)
(* and hands the socket over, either in the same turn (management           *)
(* connection, ~Handover) or to the extension host process (Handover), with *)
(* the client's writer paused meanwhile.                                    *)
(*                                                                         *)
(* A message is the unit of the wire: framing into chunks is left out.  Of  *)
(* the handshake, the connection request and its answer are messages; the   *)
(* authentication round before them is a step of the client.                *)
(***************************************************************************)
EXTENDS Integers, Sequences

CONSTANTS
    Client, Server,   \* the two ends
    Data, NoData,     \* payloads of regular messages; the payload of the others
    KeepAlive,        \* the ends built with the sendKeepAlive option
    MaxSend,          \* bound: how many regular messages each end sends
    MaxSocket,        \* bound: the last socket the client can open
    MaxFaults,        \* bound: faults of the environment (see Fault)
    Handover,         \* the socket is handed over to the extension host process
    Lossy             \* the wire may lose a message in the middle

ASSUME ProtocolAssumption ==
    /\ Client # Server
    /\ NoData \notin Data
    /\ KeepAlive \subseteq {Client, Server}
    /\ MaxSend \in [{Client, Server} -> Nat]
    /\ MaxSocket \in Nat /\ MaxFaults \in Nat
    /\ Handover \in BOOLEAN /\ Lossy \in BOOLEAN

End == {Client, Server}
Peer(e) == IF e = Client THEN Server ELSE Client
Socket == 0..MaxSocket

VARIABLES
    \* what the users of the two ends see
    sent,          \* payloads passed to send()
    recv,          \* payloads onMessage has delivered
    \* the fields of PersistentProtocol
    unack,         \* _outgoingUnackMsg
    outMsgId,      \* _outgoingMsgId
    outAckId,      \* _outgoingAckId
    inMsgId,       \* _incomingMsgId
    inAckId,       \* _incomingAckId
    ackTimer,      \* _incomingAckTimeout: "off", "due" (fires 2s after the last
                   \* message) or "early" (a message came since it was set)
    outTimer,      \* _outgoingAckTimeout is set
    replayQuiet,   \* a replay was requested less than 10s ago
    reconnecting,  \* _isReconnecting
    \* the writer and the socket of each end
    buf,           \* ProtocolWriter._data
    paused,        \* ProtocolWriter._isPaused
    sock,          \* the socket an end is attached to
    \* the network and the owners of the server's sockets
    wire,          \* wire[e][n]: messages travelling to e on socket n
    open,          \* socket n can still be written to
    owner,         \* who reads socket n at the server's side
    loop,          \* the client's reconnection loop: "up" (not running), "wait"
                   \* (between attempts), "auth" and "shake" (handshake)
    faults         \* faults the environment has spent

users  == <<sent, recv>>
ids    == <<outMsgId, outAckId, inMsgId, inAckId>>
timers == <<ackTimer, outTimer, replayQuiet>>
network == <<wire, open, owner>>
vars == <<users, unack, ids, timers, reconnecting, buf, paused, sock, network,
          loop, faults>>

-----------------------------------------------------------------------------
(* Messages *)

MessageType == {"Regular", "Control", "Ack", "ReplayRequest", "Pause", "Resume",
                "KeepAlive"}

Message == [type : MessageType, id : Nat, ack : Nat, data : Data \cup {NoData}]

Regular(i, a, d) == [type |-> "Regular", id |-> i, ack |-> a, data |-> d]

Plain(t, a) == [type |-> t, id |-> 0, ack |-> a, data |-> NoData]

Init ==
    /\ sent = [e \in End |-> <<>>] /\ recv = [e \in End |-> <<>>]
    /\ unack = [e \in End |-> <<>>]
    /\ outMsgId = [e \in End |-> 0] /\ outAckId = [e \in End |-> 0]
    /\ inMsgId = [e \in End |-> 0] /\ inAckId = [e \in End |-> 0]
    /\ ackTimer = [e \in End |-> "off"] /\ outTimer = [e \in End |-> FALSE]
    /\ replayQuiet = [e \in End |-> FALSE]
    /\ reconnecting = [e \in End |-> FALSE]
    /\ buf = [e \in End |-> <<>>] /\ paused = [e \in End |-> FALSE]
    /\ sock = [e \in End |-> 0]
    /\ wire = [e \in End |-> [n \in Socket |-> <<>>]]
    /\ open = [n \in Socket |-> n = 0]
    /\ owner = [n \in Socket |-> IF n = 0 THEN "protocol" ELSE "none"]
    /\ loop = "up" /\ faults = 0

-----------------------------------------------------------------------------
(* The writer.  Writes are buffered and go to the socket in a later turn; a *)
(* closed socket swallows them, a paused writer keeps them.                 *)

Write(e, msgs) == buf' = [buf EXCEPT ![e] = @ \o msgs]

WriteNow(e) ==
    /\ buf[e] # <<>> /\ ~paused[e]
    /\ buf' = [buf EXCEPT ![e] = <<>>]
    /\ wire' = IF open[sock[e]]
               THEN [wire EXCEPT ![Peer(e)][sock[e]] = @ \o buf[e]]
               ELSE wire
    /\ UNCHANGED <<users, unack, ids, timers, reconnecting, paused, sock, open,
                   owner, loop, faults>>

-----------------------------------------------------------------------------
(* Sending *)

Send(e, d) ==
    /\ outMsgId[e] < MaxSend[e]
    /\ sent' = [sent EXCEPT ![e] = Append(@, d)]
    /\ outMsgId' = [outMsgId EXCEPT ![e] = @ + 1]
    /\ inAckId' = [inAckId EXCEPT ![e] = inMsgId[e]]
    /\ LET m == Regular(outMsgId[e] + 1, inMsgId[e], d) IN
        /\ unack' = [unack EXCEPT ![e] = Append(@, m)]
        /\ IF reconnecting[e]
           THEN UNCHANGED <<buf, outTimer>>
           ELSE /\ Write(e, <<m>>)
                /\ outTimer' = [outTimer EXCEPT ![e] = TRUE]
    /\ UNCHANGED <<recv, outAckId, inMsgId, ackTimer, replayQuiet, reconnecting,
                   paused, sock, network, loop, faults>>

\* The keep-alive interval.  Bound: at most one keep-alive under way.
SendKeepAlive(e) ==
    /\ e \in KeepAlive
    /\ \A q \in {buf[e], wire[Peer(e)][sock[e]]} :
          \A i \in DOMAIN q : q[i].type # "KeepAlive"
    /\ inAckId' = [inAckId EXCEPT ![e] = inMsgId[e]]
    /\ Write(e, <<Plain("KeepAlive", inMsgId[e])>>)
    /\ UNCHANGED <<users, unack, outMsgId, outAckId, inMsgId, timers,
                   reconnecting, paused, sock, network, loop, faults>>

\* Mutant: a timer that fired early is not set again.
RestOfDelay_Forgotten == "off"

RestOfDelay == "due"

\* _sendAckCheck from its timer: acknowledge, or wait for the rest of the two
\* seconds when a message came after the timer was set.
AckTimerFires(e) ==
    /\ ackTimer[e] # "off"
    /\ \/ /\ inMsgId[e] <= inAckId[e]
          /\ ackTimer' = [ackTimer EXCEPT ![e] = "off"]
          /\ UNCHANGED <<inAckId, buf>>
       \/ /\ inMsgId[e] > inAckId[e]
          /\ ackTimer' = [ackTimer EXCEPT ![e] = "off"]
          /\ inAckId' = [inAckId EXCEPT ![e] = inMsgId[e]]
          /\ Write(e, <<Plain("Ack", inMsgId[e])>>)
       \/ /\ inMsgId[e] > inAckId[e] /\ ackTimer[e] = "early"
          /\ ackTimer' = [ackTimer EXCEPT ![e] = RestOfDelay]
          /\ UNCHANGED <<inAckId, buf>>
    /\ UNCHANGED <<users, unack, outMsgId, outAckId, inMsgId, outTimer,
                   replayQuiet, reconnecting, paused, sock, network, loop, faults>>

-----------------------------------------------------------------------------
(* Receiving: _receiveMessage, one action per message type *)

Arrives(e, types) ==
    /\ wire[e][sock[e]] # <<>>
    /\ Head(wire[e][sock[e]]).type \in types

Arrived(e) == Head(wire[e][sock[e]])

Consume(e) == wire' = [wire EXCEPT ![e][sock[e]] = Tail(@)]

\* Mutant: a message is popped before its id is looked at.
DropConfirmed_OneMore(q, a) ==
    LET k == CHOOSE k \in 0..Len(q) :
               /\ \A i \in 1..k : q[i].id <= a
               /\ k < Len(q) => q[k + 1].id > a
    IN  SubSeq(q, k + 2, Len(q))

\* The queue without the messages that a confirms, popped from its front.
DropConfirmed(q, a) ==
    LET k == CHOOSE k \in 0..Len(q) :
               /\ \A i \in 1..k : q[i].id <= a
               /\ k < Len(q) => q[k + 1].id > a
    IN  SubSeq(q, k + 1, Len(q))

TakeAck(e) ==
    LET a == Arrived(e).ack IN
    IF a > outAckId[e]
    THEN /\ outAckId' = [outAckId EXCEPT ![e] = a]
         /\ unack' = [unack EXCEPT ![e] = DropConfirmed(@, a)]
    ELSE UNCHANGED <<outAckId, unack>>

\* Mutants: a message is accepted again; any newer message is accepted.
IsNext_Again(e) == Arrived(e).id \in {inMsgId[e], inMsgId[e] + 1}
IsNext_AnyNewer(e) == Arrived(e).id > inMsgId[e]

IsNext(e) == Arrived(e).id = inMsgId[e] + 1

\* The next message in order is delivered and an acknowledgement scheduled.
ReceiveNext(e) ==
    /\ Arrives(e, {"Regular"})
    /\ IsNext(e)
    /\ TakeAck(e) /\ Consume(e)
    /\ inMsgId' = [inMsgId EXCEPT ![e] = Arrived(e).id]
    /\ recv' = [recv EXCEPT ![e] = Append(@, Arrived(e).data)]
    /\ ackTimer' = [ackTimer EXCEPT ![e] = IF @ = "off" THEN "due" ELSE "early"]
    /\ UNCHANGED <<sent, outMsgId, inAckId, outTimer, replayQuiet, reconnecting,
                   buf, paused, sock, open, owner, loop, faults>>

\* A message that was already received is dropped.
ReceiveDuplicate(e) ==
    /\ Arrives(e, {"Regular"})
    /\ Arrived(e).id <= inMsgId[e]
    /\ TakeAck(e) /\ Consume(e)
    /\ UNCHANGED <<users, outMsgId, inMsgId, inAckId, timers, reconnecting, buf,
                   paused, sock, open, owner, loop, faults>>

\* After a gap a replay is requested, at most once every ten seconds.
ReceiveAfterGap(e) ==
    /\ Arrives(e, {"Regular"})
    /\ Arrived(e).id > inMsgId[e] + 1
    /\ TakeAck(e) /\ Consume(e)
    /\ replayQuiet' = [replayQuiet EXCEPT ![e] = TRUE]
    /\ IF replayQuiet[e] THEN UNCHANGED buf
                         ELSE Write(e, <<Plain("ReplayRequest", 0)>>)
    /\ UNCHANGED <<users, outMsgId, inMsgId, inAckId, ackTimer, outTimer,
                   reconnecting, paused, sock, open, owner, loop, faults>>

ReplayQuietEnds(e) ==
    /\ replayQuiet[e]
    /\ replayQuiet' = [replayQuiet EXCEPT ![e] = FALSE]
    /\ UNCHANGED <<users, unack, ids, ackTimer, outTimer, reconnecting, buf,
                   paused, sock, network, loop, faults>>

ReceiveAck(e) ==
    /\ Arrives(e, {"Ack", "KeepAlive"})
    /\ TakeAck(e) /\ Consume(e)
    /\ UNCHANGED <<users, outMsgId, inMsgId, inAckId, timers, reconnecting, buf,
                   paused, sock, open, owner, loop, faults>>

ReceiveReplayRequest(e) ==
    /\ Arrives(e, {"ReplayRequest"})
    /\ Consume(e)
    /\ Write(e, unack[e])
    /\ outTimer' = [outTimer EXCEPT
                      ![e] = @ \/ (outMsgId[e] > outAckId[e] /\ ~reconnecting[e])]
    /\ UNCHANGED <<users, unack, ids, ackTimer, replayQuiet, reconnecting,
                   paused, sock, open, owner, loop, faults>>

ReceivePause(e) ==
    /\ Arrives(e, {"Pause"})
    /\ Consume(e)
    /\ paused' = [paused EXCEPT ![e] = TRUE]
    /\ UNCHANGED <<users, unack, ids, timers, reconnecting, buf, sock, open,
                   owner, loop, faults>>

ReceiveResume(e) ==
    /\ Arrives(e, {"Resume"})
    /\ Consume(e)
    /\ paused' = [paused EXCEPT ![e] = FALSE]
    /\ UNCHANGED <<users, unack, ids, timers, reconnecting, buf, sock, open,
                   owner, loop, faults>>

-----------------------------------------------------------------------------
(* Reconnecting *)

\* beginAcceptReconnection's part on the wire: the writer flushes into the old
\* socket, which is then disposed; what was under way to e is not read any more.
LeaveSocket(e, w) ==
    LET flushed == IF open[sock[e]] /\ ~paused[e]
                   THEN [w EXCEPT ![Peer(e)][sock[e]] = @ \o buf[e]]
                   ELSE w
    IN  [flushed EXCEPT ![e][sock[e]] = <<>>]

\* Mutants: only the acknowledgement is written; the check is not started again.
Rewrite_AckOnly(e) == <<Plain("Ack", inMsgId[e])>>
ArmedAfterEnd_Unchanged(e) == outTimer[e]

\* endAcceptReconnection's writes: the acknowledgement, then everything that
\* is unacknowledged.
Rewrite(e) == <<Plain("Ack", inMsgId[e])>> \o unack[e]

ArmedAfterEnd(e) == outTimer[e] \/ outMsgId[e] > outAckId[e]

\* The socket's close event, or a timeout, starts the reconnection loop.
ClientSeesClose ==
    /\ loop = "up" /\ ~open[sock[Client]]
    /\ loop' = "wait"
    /\ UNCHANGED <<users, unack, ids, timers, reconnecting, buf, paused, sock,
                   network, faults>>

\* _recvAckCheck from its timer, when it does not simply run again: all is
\* acknowledged, a reconnection is under way, or the connection has timed out.
\* Only the client listens to onSocketTimeout.  A timeout of an open socket is
\* a fault of the environment.
AckTimeout(e) ==
    /\ outTimer[e]
    /\ outTimer' = [outTimer EXCEPT ![e] = FALSE]
    /\ \/ /\ outMsgId[e] <= outAckId[e] \/ reconnecting[e]
          /\ UNCHANGED <<loop, faults>>
       \/ /\ outMsgId[e] > outAckId[e] /\ ~reconnecting[e]
          /\ IF open[sock[e]] THEN faults < MaxFaults /\ faults' = faults + 1
                              ELSE UNCHANGED faults
          /\ loop' = IF e = Client /\ loop = "up" THEN "wait" ELSE loop
    /\ UNCHANGED <<users, unack, ids, ackTimer, replayQuiet, reconnecting, buf,
                   paused, sock, network>>

\* An attempt of the reconnecting loop: a new socket, beginAcceptReconnection and
\* the request for authentication.
ClientConnects ==
    /\ loop = "wait" /\ sock[Client] < MaxSocket
    /\ LET n == sock[Client] + 1 IN
        /\ sock' = [sock EXCEPT ![Client] = n]
        /\ open' = [open EXCEPT ![sock[Client]] = FALSE, ![n] = TRUE]
        /\ owner' = [owner EXCEPT ![n] = "handshake"]
    /\ wire' = LeaveSocket(Client, wire)
    /\ reconnecting' = [reconnecting EXCEPT ![Client] = TRUE]
    /\ replayQuiet' = [replayQuiet EXCEPT ![Client] = FALSE]
    /\ buf' = [buf EXCEPT ![Client] = <<>>]
    /\ paused' = [paused EXCEPT ![Client] = FALSE]
    /\ loop' = "auth"
    /\ UNCHANGED <<users, unack, ids, ackTimer, outTimer, faults>>

\* The server has answered the authentication: the connection is requested.
ClientAsks ==
    /\ loop = "auth" /\ open[sock[Client]]
    /\ Write(Client, <<Plain("Control", 0)>>)
    /\ loop' = "shake"
    /\ UNCHANGED <<users, unack, ids, timers, reconnecting, paused, sock, network,
                   faults>>

\* The attempt fails: its socket is dead, or the handshake took too long.
HandshakeFails ==
    /\ loop \in {"auth", "shake"} /\ ~open[sock[Client]]
    /\ loop' = "wait"
    /\ UNCHANGED <<users, unack, ids, timers, reconnecting, buf, paused, sock,
                   network, faults>>

HandshakeTimesOut ==
    /\ loop \in {"auth", "shake"} /\ open[sock[Client]] /\ faults < MaxFaults
    /\ loop' = "wait" /\ faults' = faults + 1
    /\ UNCHANGED <<users, unack, ids, timers, reconnecting, buf, paused, sock,
                   network>>

\* The server's answer ends the handshake (endAcceptReconnection), unless the
\* attempt has been given up meanwhile.
ReceiveControl ==
    /\ Arrives(Client, {"Control"})
    /\ Consume(Client)
    /\ IF loop = "shake"
       THEN /\ loop' = "up"
            /\ reconnecting' = [reconnecting EXCEPT ![Client] = FALSE]
            /\ inAckId' = [inAckId EXCEPT ![Client] = inMsgId[Client]]
            /\ Write(Client, Rewrite(Client))
            /\ outTimer' = [outTimer EXCEPT ![Client] = ArmedAfterEnd(Client)]
       ELSE UNCHANGED <<loop, reconnecting, inAckId, buf, outTimer>>
    /\ UNCHANGED <<users, unack, outMsgId, outAckId, inMsgId, ackTimer,
                   replayQuiet, paused, sock, open, owner, faults>>

\* The server's temporary protocol answers on socket n before it lets it go.
Answer(n, msgs) ==
    [wire EXCEPT ![Server][n] = Tail(@),
                 ![Client][n] = IF open[n] THEN @ \o msgs ELSE @]

Asked(n) ==
    /\ owner[n] = "handshake" /\ wire[Server][n] # <<>>
    /\ Head(wire[Server][n]).type = "Control"

\* The temporary protocol has no use for anything but the handshake.
HandshakeIgnores(n) ==
    /\ owner[n] = "handshake" /\ wire[Server][n] # <<>>
    /\ Head(wire[Server][n]).type # "Control"
    /\ wire' = [wire EXCEPT ![Server][n] = Tail(@)]
    /\ UNCHANGED <<users, unack, ids, timers, reconnecting, buf, paused, sock,
                   open, owner, loop, faults>>

\* The server's protocol moves to socket n: beginAcceptReconnection and
\* endAcceptReconnection in one turn.  w is the wire it finds.
Adopt(n, w, last) ==
    /\ sock' = [sock EXCEPT ![Server] = n]
    /\ open' = [open EXCEPT ![sock[Server]] = FALSE]
    /\ owner' = [owner EXCEPT ![sock[Server]] = "gone", ![n] = "protocol"]
    /\ wire' = LeaveSocket(Server, w)
    /\ buf' = [buf EXCEPT ![Server] = Rewrite(Server) \o last]
    /\ paused' = [paused EXCEPT ![Server] = FALSE]
    /\ replayQuiet' = [replayQuiet EXCEPT ![Server] = FALSE]
    /\ inAckId' = [inAckId EXCEPT ![Server] = inMsgId[Server]]
    /\ outTimer' = [outTimer EXCEPT ![Server] = ArmedAfterEnd(Server)]
    /\ UNCHANGED <<users, unack, outMsgId, outAckId, inMsgId, ackTimer,
                   reconnecting, loop, faults>>

\* A management connection is reconnected in the turn of the request.
ServerAccepts(n) ==
    /\ ~Handover /\ Asked(n)
    /\ Adopt(n, Answer(n, <<Plain("Control", 0)>>), <<>>)

\* Mutant: the client is paused after it was told to go on.
HandoverAnswer_PauseLast == <<Plain("Control", 0), Plain("Pause", 0)>>

HandoverAnswer == <<Plain("Pause", 0), Plain("Control", 0)>>

\* An extension host connection: the client is paused, and the socket is on
\* its way to the extension host process.
ServerPauses(n) ==
    /\ Handover /\ Asked(n)
    /\ wire' = Answer(n, HandoverAnswer)
    /\ owner' = [owner EXCEPT ![n] = "moving"]
    /\ UNCHANGED <<users, unack, ids, timers, reconnecting, buf, paused, sock,
                   open, loop, faults>>

\* What arrives meanwhile is read by nobody.
MovingLoses(n) ==
    /\ owner[n] = "moving" /\ wire[Server][n] # <<>>
    /\ wire' = [wire EXCEPT ![Server][n] = Tail(@)]
    /\ UNCHANGED <<users, unack, ids, timers, reconnecting, buf, paused, sock,
                   open, owner, loop, faults>>

ExtHostAdopts(n) ==
    /\ owner[n] = "moving"
    /\ Adopt(n, wire, <<Plain("Resume", 0)>>)

-----------------------------------------------------------------------------
(* Faults of the environment.  Bound: MaxFaults of them in a behaviour. *)

Fault == faults < MaxFaults /\ faults' = faults + 1

\* A connection breaks; every socket but the client's last one is closed.
SocketDies ==
    /\ Fault
    /\ open[sock[Client]]
    /\ open' = [open EXCEPT ![sock[Client]] = FALSE]
    /\ UNCHANGED <<users, unack, ids, timers, reconnecting, buf, paused, sock,
                   wire, owner, loop>>

\* A regular message is missed, which sockets in order do not do: it is what
\* replay requests are for.
WireLoses(e) ==
    /\ Lossy /\ Fault
    /\ \E i \in DOMAIN wire[e][sock[e]] :
        /\ wire[e][sock[e]][i].type = "Regular"
        /\ wire' = [wire EXCEPT ![e][sock[e]] =
                      SubSeq(@, 1, i - 1) \o SubSeq(@, i + 1, Len(@))]
    /\ UNCHANGED <<users, unack, ids, timers, reconnecting, buf, paused, sock,
                   open, owner, loop>>

-----------------------------------------------------------------------------
Receive(e) ==
    \/ ReceiveNext(e) \/ ReceiveDuplicate(e) \/ ReceiveAfterGap(e)
    \/ ReceiveAck(e) \/ ReceiveReplayRequest(e)
    \/ ReceivePause(e) \/ ReceiveResume(e)

Next ==
    \/ \E e \in End :
        \/ \E d \in Data : Send(e, d)
        \/ WriteNow(e) \/ SendKeepAlive(e)
        \/ AckTimerFires(e) \/ AckTimeout(e) \/ ReplayQuietEnds(e)
        \/ Receive(e) \/ WireLoses(e)
    \/ ClientSeesClose \/ ClientConnects \/ ClientAsks \/ ReceiveControl
    \/ HandshakeFails \/ HandshakeTimesOut \/ SocketDies
    \/ \E n \in Socket :
        \/ HandshakeIgnores(n) \/ ServerAccepts(n)
        \/ ServerPauses(n) \/ MovingLoses(n) \/ ExtHostAdopts(n)

Spec == Init /\ [][Next]_vars

-----------------------------------------------------------------------------
(* Properties *)

\* The types of the variables.
TypeOK ==
    /\ sent \in [End -> Seq(Data)] /\ recv \in [End -> Seq(Data)]
    /\ unack \in [End -> Seq(Message)]
    /\ outMsgId \in [End -> Nat] /\ outAckId \in [End -> Nat]
    /\ inMsgId \in [End -> Nat] /\ inAckId \in [End -> Nat]
    /\ ackTimer \in [End -> {"off", "due", "early"}]
    /\ outTimer \in [End -> BOOLEAN] /\ replayQuiet \in [End -> BOOLEAN]
    /\ reconnecting \in [End -> BOOLEAN]
    /\ buf \in [End -> Seq(Message)] /\ paused \in [End -> BOOLEAN]
    /\ sock \in [End -> Socket]
    /\ wire \in [End -> [Socket -> Seq(Message)]]
    /\ open \in [Socket -> BOOLEAN]
    /\ owner \in [Socket -> {"none", "handshake", "moving", "protocol", "gone"}]
    /\ loop \in {"up", "wait", "auth", "shake"} /\ faults \in Nat

\* What an end has received is what the other end sent, in order, without a
\* hole and without a repetition, across any number of reconnections.
DeliveredInOrder ==
    \A e \in End :
        /\ Len(recv[e]) <= Len(sent[Peer(e)])
        /\ \A i \in 1..Len(recv[e]) : recv[e][i] = sent[Peer(e)][i]

\* The queue of an end holds exactly its messages after the last acknowledged
\* one, and none is acknowledged that the other end has not received: so every
\* message that may still be needed after a reconnection is still there, and
\* _recvAckCheck never peeks into an empty queue.
NothingForgotten ==
    \A e \in End :
        /\ outAckId[e] <= inMsgId[Peer(e)]
        /\ Len(unack[e]) = outMsgId[e] - outAckId[e]
        /\ \A i \in 1..Len(unack[e]) :
              /\ unack[e][i].id = outAckId[e] + i
              /\ unack[e][i].data = sent[e][outAckId[e] + i]

\* No end ever sees a gap: an old socket is not read after the new one, an
\* adopted socket carries everything unacknowledged before anything new, and
\* Pause keeps regular messages away from a socket that is changing hands.
NoGap ==
    \A e \in End : Arrives(e, {"Regular"}) => Arrived(e).id <= inMsgId[e] + 1

\* A received message that has not been acknowledged has an acknowledgement
\* scheduled.
AckScheduled ==
    \A e \in End : inMsgId[e] > inAckId[e] => ackTimer[e] # "off"

\* The client never waits unwatched for an acknowledgement: unless it is
\* reconnecting, the timer that detects a dead connection is running.
TimeoutWatches ==
    (outMsgId[Client] > outAckId[Client] /\ loop = "up") => outTimer[Client]

\* The users of the two ends see two reliable queues.
Link == INSTANCE ReliableLink
ImplementsLink == Link!Spec

-----------------------------------------------------------------------------
(* Liveness.  Timers fire, what is in a socket that is read arrives, and the *)
(* loop goes on; sending, keep-alives and faults are never forced.           *)

Fairness ==
    /\ \A e \in End :
        /\ WF_vars(WriteNow(e)) /\ WF_vars(Receive(e))
        /\ WF_vars(AckTimerFires(e))
    /\ WF_vars(ReceiveControl)
    /\ WF_vars(ClientConnects) /\ WF_vars(ClientAsks) /\ WF_vars(HandshakeFails)
    /\ \A n \in Socket :
        /\ WF_vars(HandshakeIgnores(n)) /\ WF_vars(ServerAccepts(n))
        /\ WF_vars(ServerPauses(n)) /\ WF_vars(ExtHostAdopts(n))

FairSpec == Spec /\ Fairness

\* Every message is in the end acknowledged, so received, as the environment
\* commits finitely many faults and a broken socket is in the end reported as
\* closed.
EveryMessageAcknowledged ==
    WF_vars(ClientSeesClose) =>
        \A e \in End : \A i \in 1..MaxSend[e] :
            (outMsgId[e] >= i) ~> (outAckId[e] >= i)

\* The acknowledgement timer alone is enough for the client's own messages: a
\* broken socket need never be reported as closed.
ClientMessagesAcknowledged ==
    WF_vars(AckTimeout(Client)) =>
        \A i \in 1..MaxSend[Client] :
            (outMsgId[Client] >= i) ~> (outAckId[Client] >= i)

=============================================================================
