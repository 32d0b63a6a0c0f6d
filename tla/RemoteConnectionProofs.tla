----------------------- MODULE RemoteConnectionProofs -----------------------
(* Proofs about RemoteConnection, for every number of tokens, sockets, attempts  *)
(* and faults.                                                                   *)
(*                                                                               *)
(* That the grace timers run exactly while the client is lost (GraceWhileLost)   *)
(* rests on where sockets are: a socket that a process takes from its queue is   *)
(* open and nobody else's, so closing the previous one does not close it. That   *)
(* no connection is revived (NeverRevived) rests on first attempts: their one    *)
(* socket is accepted before the server knows the token, or not at all.          *)
EXTENDS RemoteConnection, SequenceTheorems, TLAPS

-----------------------------------------------------------------------------
(* The inductive invariant. *)

ClientRec ==
    [phase : {"none", "connecting", "handshake", "up", "wait", "over", "dropped", "gone"},
     socket : Socket \cup {None}, again : BOOLEAN, attempt : 0 .. MaxAttempts + 1,
     failed : BOOLEAN, leaving : {"no", "disconnected", "disposed"}]

SocketRec ==
    [of : Connection \cup {None}, again : BOOLEAN, client : BOOLEAN, server : BOOLEAN,
     cut : BOOLEAN, bye : BOOLEAN,
     step : {"auth", "type", "port", "ok", "error", "up", "spent"}]

GraceRec == [socket : Socket \cup {None}, long : BOOLEAN, short : BOOLEAN, first : BOOLEAN]

Message == [type : {"socket", "reduce"}, handle : Socket \cup {None}]

ProcessRec ==
    [state : {"none", "env", "booting", "listening", "exited"},
     data : Socket \cup {None}, ready : BOOLEAN,
     draining : SUBSET Socket, inbox : Seq(Message)]

Types ==
    /\ client \in [Connection -> ClientRec]
    /\ instances \in Seq(Connection)
    /\ permanent \in BOOLEAN
    /\ socket \in [Socket -> SocketRec]
    /\ entry \in [Connection -> {"never", "live", "gone"}]
    /\ grace \in [Connection -> GraceRec]
    /\ exthost \in [Connection -> ProcessRec]
    /\ faults \in 0 .. MaxFaults

\* An attempt has begun and was not given up.
Active(c) == client[c].phase \notin {"none", "dropped"}

WindowGone == \A c \in Connection : client[c].phase = "gone"

\* One connection of a kind is made at a time, and one that was made stays.
OneOfAKind ==
    /\ \A c, d \in Connection : Active(c) /\ Active(d) /\ Kin(c) = Kin(d) => c = d \/ WindowGone
    /\ \A c \in Connection :
          /\ client[c].again => Active(c)
          /\ client[c].phase \in {"up", "wait", "over"} => client[c].again

\* _instances are connections that were made, one of a kind.
InstancesMade ==
    /\ \A i \in DOMAIN instances : client[instances[i]].again \/ WindowGone
    /\ \A i, j \in DOMAIN instances : Kin(instances[i]) = Kin(instances[j]) => i = j

\* No socket was opened for c, nor can the server know it.
Fresh(c) == ~client[c].again /\ client[c].phase \in {"none", "connecting"}

Unadmitted == {"auth", "type", "port"}
Admitted == {"ok", "up", "spent"}

\* A first attempt has one socket, and until the server has accepted it the server
\* has not known the connection.
FirstSocket ==
    /\ \A c \in Connection : Fresh(c) =>
          entry[c] = "never" /\ \A s \in Socket : socket[s].of # c
    /\ \A s \in Socket : socket[s].of # None /\ ~socket[s].again =>
          /\ socket[s].step \in Unadmitted => entry[socket[s].of] = "never"
          /\ \A t \in Socket : socket[t].of = socket[s].of /\ ~socket[t].again => s = t

PortForExtHost == \A s \in Socket : socket[s].step = "port" => socket[s].of \in ExtHost

\* The sockets that the server's side holds for c.
Held(c) ==
    ({grace[c].socket, exthost[c].data} \cup exthost[c].draining \cup HandedOver(c)) \ {None}

\* They are held for one connection and are past the handshake of the server.
HeldApart ==
    /\ \A c, d \in Connection, s \in Socket : s \in Held(c) /\ s \in Held(d) => c = d
    /\ \A c \in Connection, s \in Socket : s \in Held(c) => socket[s].step \in Admitted

\* No socket is twice in the messages to the process.
Once(inbox) ==
    \A i, j \in DOMAIN inbox :
        inbox[i].handle = inbox[j].handle => i = j \/ inbox[i].handle = None

\* What the server's side holds for c is in one place, and as the place requires.
Placed(c) ==
    /\ grace[c].socket # None =>
          /\ grace[c].socket # exthost[c].data
          /\ grace[c].socket \notin exthost[c].draining \cup HandedOver(c)
    /\ exthost[c].data # None => exthost[c].data \notin exthost[c].draining \cup HandedOver(c)
    /\ exthost[c].draining \cap HandedOver(c) = {}
    /\ Once(exthost[c].inbox)
    /\ \A s \in HandedOver(c) : socket[s].server
    /\ exthost[c].state \in {"env", "booting"} \/ exthost[c].ready => exthost[c].data \in Socket
    /\ exthost[c].ready => exthost[c].state = "listening"
    /\ grace[c].socket # None => c \in Management \/ exthost[c].state = "listening"
    /\ c \in Management => HandedOver(c) = {}
    /\ entry[c] = "never" => exthost[c].state = "none"

\* GraceWhileLost for c, and more of the short timer.
Clocked(c) ==
    /\ grace[c].socket # None =>
          (grace[c].long <=> ~socket[grace[c].socket].server) /\ ~grace[c].first
    /\ grace[c].short => grace[c].long

AllPlaced == \A c \in Connection : Placed(c) /\ Clocked(c)

IInv ==
    /\ Types /\ OneOfAKind /\ InstancesMade /\ FirstSocket /\ PortForExtHost
    /\ HeldApart /\ AllPlaced
-----------------------------------------------------------------------------
(* The operators. *)

\* None is no token and no socket.
LEMMA NoneOutside == None \notin Connection /\ None \notin Socket
BY RemoteAssumption DEF RemoteAssumption, Connection

\* The records of the tables are typed.
LEMMA RecordsOf ==
    ASSUME Types
    PROVE  /\ \A c \in Connection : client[c] \in ClientRec /\ grace[c] \in GraceRec
                                     /\ exthost[c] \in ProcessRec
           /\ \A s \in Socket : socket[s] \in SocketRec
BY DEF Types

\* A free socket is of nobody and past every handshake.
LEMMA NoSocketState ==
    /\ NoSocket \in SocketRec /\ NoSocket.of = None /\ ~NoSocket.again
    /\ ~NoSocket.server /\ ~NoSocket.client /\ NoSocket.step = "spent"
BY DEF NoSocket, SocketRec

\* Forgetting a socket keeps its server's end and makes it nobody's, or does nothing.
LEMMA ForgottenState ==
    ASSUME NEW r \in SocketRec
    PROVE  /\ Forgotten(r) \in SocketRec
           /\ Forgotten(r).server <=> r.server
           /\ \/ Forgotten(r) = r
              \/ Forgotten(r).of = None /\ ~Forgotten(r).again /\ Forgotten(r).step = "spent"
BY NoSocketState DEF Forgotten

\* A closing at the client's end: nothing changes for the server, unless the socket
\* was closed and is forgotten.
Quiet(s) ==
    /\ socket'[s].server <=> socket[s].server
    /\ \/ /\ socket'[s].of = socket[s].of /\ (socket'[s].again <=> socket[s].again)
          /\ socket'[s].step = socket[s].step
       \/ socket'[s].of = None /\ ~socket'[s].again /\ socket'[s].step = "spent"

\* What _gotoPermanentFailure, dispose and beginAcceptReconnection leave of a socket.
LEMMA CloseClientState ==
    ASSUME Types, NEW S, NEW s \in Socket
    PROVE  LET r == CloseClient(S)[s] IN
           /\ r \in SocketRec
           /\ r.server <=> socket[s].server
           /\ \/ /\ r.of = socket[s].of /\ (r.again <=> socket[s].again)
                 /\ r.step = socket[s].step
              \/ r.of = None /\ ~r.again /\ r.step = "spent"
<1> DEFINE o == [socket[s] EXCEPT !.client = FALSE]
<1>1. socket[s] \in SocketRec
  BY DEF Types
<1>2. /\ o \in SocketRec /\ (o.server <=> socket[s].server) /\ o.of = socket[s].of
      /\ (o.again <=> socket[s].again) /\ o.step = socket[s].step
  BY <1>1 DEF SocketRec
<1>3. CloseClient(S)[s] = IF s \notin S THEN socket[s] ELSE Forgotten(o)
  BY DEF CloseClient
<1> HIDE DEF o
<1> QED
  BY <1>1, <1>2, <1>3, ForgottenState

\* A closing at the client's end is quiet.
LEMMA ClosesClient ==
    ASSUME Types, NEW S, socket' = CloseClient(S)
    PROVE  socket' \in [Socket -> SocketRec] /\ \A s \in Socket : Quiet(s)
<1>1. \A s \in Socket : CloseClient(S)[s] \in SocketRec
  BY CloseClientState
<1>2. DOMAIN CloseClient(S) = Socket /\ CloseClient(S) = [s \in Socket |-> CloseClient(S)[s]]
  BY DEF CloseClient
<1> QED
  BY <1>1, <1>2, CloseClientState DEF Quiet

\* What closing at the server's end leaves of a socket.
LEMMA CloseServerState ==
    ASSUME Types, NEW S, NEW s \in Socket
    PROVE  LET r == CloseServer(S)[s] IN
           /\ r \in SocketRec
           /\ s \notin S => r = socket[s]
           /\ s \in S => /\ ~r.server /\ r.step = "spent"
                         /\ \/ r.of = socket[s].of /\ (r.again <=> socket[s].again)
                            \/ r.of = None /\ ~r.again
<1> DEFINE o == [socket[s] EXCEPT !.server = FALSE, !.step = "spent"]
<1>1. socket[s] \in SocketRec
  BY DEF Types
<1>2. /\ o \in SocketRec /\ ~o.server /\ o.of = socket[s].of
      /\ (o.again <=> socket[s].again) /\ o.step = "spent"
  BY <1>1 DEF SocketRec
<1>3. CloseServer(S)[s] = IF s \notin S THEN socket[s] ELSE Forgotten(o)
  BY DEF CloseServer
<1> HIDE DEF o
<1> QED
  BY <1>1, <1>2, <1>3, ForgottenState

\* CloseServer gives typed sockets.
LEMMA CloseServerType ==
    ASSUME Types, NEW S
    PROVE  CloseServer(S) \in [Socket -> SocketRec]
<1>1. \A s \in Socket : CloseServer(S)[s] \in SocketRec
  BY CloseServerState
<1>2. CloseServer(S) = [s \in Socket |-> CloseServer(S)[s]]
  BY DEF CloseServer
<1> QED
  BY <1>1, <1>2

\* The sockets in a queue of messages.
Handles(q) == {q[i].handle : i \in DOMAIN q} \ {None}

\* The sockets handed over are those in the queue to the process.
LEMMA HandedHandles == ASSUME NEW c PROVE HandedOver(c) = Handles(exthost[c].inbox)
BY DEF HandedOver, Handles, ToSet

\* A message added to the queue adds the socket it carries.
LEMMA AppendHandles ==
    ASSUME NEW q \in Seq(Message), NEW m \in Message, Once(q), m.handle \notin Handles(q)
    PROVE  /\ Append(q, m) \in Seq(Message)
           /\ Once(Append(q, m))
           /\ Handles(Append(q, m)) = Handles(q) \cup ({m.handle} \ {None})
<1> DEFINE a == Append(q, m)
<1>1. /\ a \in Seq(Message) /\ Len(a) = Len(q) + 1 /\ Len(q) \in Nat
      /\ DOMAIN q = 1 .. Len(q) /\ DOMAIN a = 1 .. Len(q) + 1
      /\ a[Len(q) + 1] = m /\ \A i \in 1 .. Len(q) : a[i] = q[i]
  OBVIOUS
<1> HIDE DEF a
<1>2. Once(a)
  BY <1>1 DEF Once, Handles
<1>3. Handles(a) = Handles(q) \cup ({m.handle} \ {None})
  <2>1. ASSUME NEW x \in Handles(a) PROVE x \in Handles(q) \cup ({m.handle} \ {None})
    BY <1>1, <2>1 DEF Handles
  <2>2. ASSUME NEW x \in Handles(q) PROVE x \in Handles(a)
    <3>1. PICK i \in 1 .. Len(q) : x = q[i].handle
      BY <1>1, <2>2 DEF Handles
    <3>2. i \in DOMAIN a /\ a[i] = q[i]
      BY <1>1
    <3> QED
      BY <2>2, <3>1, <3>2 DEF Handles
  <2>3. ASSUME m.handle # None PROVE m.handle \in Handles(a)
    <3>1. Len(q) + 1 \in DOMAIN a
      BY <1>1
    <3> QED
      BY <1>1, <2>3, <3>1 DEF Handles
  <2> QED
    BY <2>1, <2>2, <2>3
<1> QED
  BY <1>1, <1>2, <1>3 DEF a

\* A message taken from the queue takes its socket, which is in no other.
LEMMA TailHandles ==
    ASSUME NEW q \in Seq(Message), q # <<>>, Once(q)
    PROVE  /\ Tail(q) \in Seq(Message) /\ Head(q) \in Message
           /\ Once(Tail(q))
           /\ Handles(Tail(q)) = Handles(q) \ {Head(q).handle}
           /\ Head(q).handle # None => Head(q).handle \in Handles(q)
<1> DEFINE t == Tail(q)
<1>1. /\ t \in Seq(Message) /\ Len(q) \in Nat \ {0} /\ Len(t) = Len(q) - 1
      /\ DOMAIN q = 1 .. Len(q) /\ DOMAIN t = 1 .. Len(q) - 1
      /\ \A i \in 1 .. Len(q) - 1 : t[i] = q[i + 1]
      /\ Head(q) = q[1] /\ q[1] \in Message
  OBVIOUS
<1> HIDE DEF t
<1>2. Once(t)
  <2> SUFFICES ASSUME NEW i \in 1 .. Len(q) - 1, NEW j \in 1 .. Len(q) - 1,
                      t[i].handle = t[j].handle
               PROVE  i = j \/ t[i].handle = None
    BY <1>1 DEF Once
  <2>1. i + 1 \in DOMAIN q /\ j + 1 \in DOMAIN q /\ t[i] = q[i + 1] /\ t[j] = q[j + 1]
    BY <1>1
  <2>2. i + 1 = j + 1 \/ q[i + 1].handle = None
    BY <2>1 DEF Once
  <2> QED
    BY <2>1, <2>2
<1>3. Handles(t) = Handles(q) \ {q[1].handle}
  <2>1. ASSUME NEW x \in Handles(t) PROVE x \in Handles(q) \ {q[1].handle}
    <3>1. PICK i \in 1 .. Len(q) - 1 : x = q[i + 1].handle /\ x # None
      BY <1>1, <2>1 DEF Handles
    <3>2. i + 1 \in DOMAIN q /\ 1 \in DOMAIN q /\ i + 1 # 1
      BY <1>1
    <3> QED
      BY <3>1, <3>2 DEF Handles, Once
  <2>2. ASSUME NEW x \in Handles(q), x # q[1].handle PROVE x \in Handles(t)
    <3>1. PICK i \in 1 .. Len(q) : x = q[i].handle /\ x # None
      BY <1>1, <2>2 DEF Handles
    <3>2. i # 1 /\ i - 1 \in 1 .. Len(q) - 1 /\ (i - 1) + 1 = i
      BY <1>1, <2>2, <3>1
    <3> QED
      BY <1>1, <3>1, <3>2 DEF Handles
  <2> QED
    BY <2>1, <2>2
<1>4. 1 \in DOMAIN q
  BY <1>1
<1> QED
  BY <1>1, <1>2, <1>3, <1>4 DEF t, Handles
-----------------------------------------------------------------------------
(* The window's steps. *)

\* What the phases of d go through when no attempt begins and the window stays.
Ages(d) ==
    /\ Fresh(d)' => Fresh(d)
    /\ Active(d)' => Active(d)
    /\ client[d].again => client'[d].again
    /\ client'[d].again => Active(d)'
    /\ client'[d].phase \in {"up", "wait", "over"} => client'[d].again

OnlyClient(c) ==
    /\ client' \in [Connection -> ClientRec]
    /\ \A d \in Connection \ {c} : client'[d] = client[d]

ClientsAge ==
    /\ client' \in [Connection -> ClientRec]
    /\ ~WindowGone
    /\ \A d \in Connection : Ages(d)

\* What becomes of _instances unless one is added.
InstancesShrink ==
    UNCHANGED instances \/ \E d \in Connection : instances' = Without(d)

SocketsQuiet == socket' \in [Socket -> SocketRec] /\ \A s \in Socket : Quiet(s)

\* One client that ages, the others as they were.
LEMMA OneAges ==
    ASSUME OneOfAKind, NEW c \in Connection, client[c].phase # "gone", OnlyClient(c), Ages(c)
    PROVE  ClientsAge
<1>1. ASSUME NEW d \in Connection, d # c PROVE Ages(d)
  BY <1>1 DEF Ages, OnlyClient, OneOfAKind, Fresh, Active
<1> QED
  BY <1>1 DEF ClientsAge, OnlyClient, WindowGone

\* _gotoPermanentFailure ages the clients, shrinks _instances and closes quietly.
LEMMA FailureMoves ==
    ASSUME Types, OneOfAKind, NEW hearing, NEW c \in Connection,
           client[c].phase \in {"connecting", "handshake"}, GoToPermanentFailure(hearing, c)
    PROVE  ClientsAge /\ InstancesShrink /\ SocketsQuiet
<1> DEFINE Failed(d) ==
       [client[d] EXCEPT
           !.phase = IF d = c THEN IF client[c].again THEN "over" ELSE "dropped"
                     ELSE IF @ = "up" THEN "over" ELSE @,
           !.socket = IF d = c \/ client[d].phase = "up" THEN None ELSE @,
           !.failed = d \in hearing \/ @,
           !.leaving = IF d \in hearing \cap Management THEN "disposed" ELSE @]
<1>1. ASSUME NEW d \in Connection
      PROVE  /\ Failed(d) \in ClientRec /\ (Failed(d).again <=> client[d].again)
             /\ Failed(d).phase = IF d = c THEN IF client[c].again THEN "over" ELSE "dropped"
                                  ELSE IF client[d].phase = "up" THEN "over"
                                  ELSE client[d].phase
  BY RecordsOf DEF ClientRec
<1>2. client' = [d \in Connection |->
                   IF d \notin hearing \cup {c} THEN client[d] ELSE Failed(d)]
  BY DEF GoToPermanentFailure
<1> HIDE DEF Failed
<1>3. client' \in [Connection -> ClientRec]
  BY <1>1, <1>2, RecordsOf
<1>4. ASSUME NEW d \in Connection PROVE Ages(d)
  BY <1>1, <1>2 DEF Ages, Fresh, Active, OneOfAKind
<1>5. InstancesShrink
  BY DEF GoToPermanentFailure, InstancesShrink, Connection
<1>6. SocketsQuiet
  BY ClosesClient DEF GoToPermanentFailure, SocketsQuiet
<1> QED
  BY <1>3, <1>4, <1>5, <1>6 DEF ClientsAge, WindowGone

\* So does giving up, whomever it is fatal to.
LEMMA GivesUpMoves ==
    ASSUME Types, OneOfAKind, NEW c \in Connection,
           client[c].phase \in {"connecting", "handshake"},
           GivesUp(c) \/ TriggerPermanentFailure(c)
    PROVE  ClientsAge /\ InstancesShrink /\ SocketsQuiet /\ permanent' \in BOOLEAN
BY FailureMoves DEF GivesUp, TriggerPermanentFailure, Types

\* So does the end of an attempt, in each of its outcomes.
LEMMA AttemptEndsMoves ==
    ASSUME Types, OneOfAKind, NEW c \in Connection,
           client[c].phase \in {"connecting", "handshake"}, AttemptEnds(c)
    PROVE  ClientsAge /\ InstancesShrink /\ SocketsQuiet /\ permanent' \in BOOLEAN
<1>1. client[c] \in ClientRec /\ MaxAttempts \in Nat /\ permanent \in BOOLEAN
  BY RecordsOf, RemoteAssumption DEF Types, RemoteAssumption
<1>2. CASE /\ ~client[c].again
           /\ client' = [client EXCEPT ![c].phase = "dropped", ![c].socket = None]
           /\ socket' = CloseClient({client[c].socket} \ {None})
           /\ UNCHANGED <<instances, permanent>>
  <2> DEFINE r == [client[c] EXCEPT !.phase = "dropped", !.socket = None]
  <2>1. client' = [client EXCEPT ![c] = r]
    BY <1>2 DEF Types
  <2>2. r \in ClientRec /\ r.phase = "dropped" /\ (r.again <=> client[c].again)
    BY <1>1 DEF ClientRec
  <2> HIDE DEF r
  <2>3. OnlyClient(c) /\ client'[c] = r
    BY <2>1, <2>2 DEF Types, OnlyClient
  <2>4. Ages(c)
    BY <1>2, <2>2, <2>3 DEF Ages, Fresh, Active
  <2> QED
    BY <1>1, <1>2, <2>3, <2>4, OneAges, ClosesClient DEF InstancesShrink, SocketsQuiet
<1>3. CASE /\ client[c].again /\ ~Exhausted(c)
           /\ client' = [client EXCEPT
                ![c].phase = IF permanent \/ client[c].leaving = "disposed"
                             THEN "over" ELSE "wait",
                ![c].attempt = @ + 1]
           /\ UNCHANGED <<socket, instances, permanent>>
  <2> DEFINE p == IF permanent \/ client[c].leaving = "disposed" THEN "over" ELSE "wait"
             r == [client[c] EXCEPT !.phase = p, !.attempt = @ + 1]
  <2>1. client' = [client EXCEPT ![c] = r]
    BY <1>3 DEF Types
  <2>2. client[c].attempt + 1 \in 0 .. MaxAttempts + 1
    BY <1>1, <1>3 DEF Exhausted, ClientRec
  <2>3. r \in ClientRec /\ r.phase \in {"over", "wait"} /\ (r.again <=> client[c].again)
    BY <1>1, <2>2 DEF ClientRec
  <2> HIDE DEF r
  <2>4. OnlyClient(c) /\ client'[c] = r
    BY <2>1, <2>3 DEF Types, OnlyClient
  <2>5. Ages(c)
    BY <1>3, <2>3, <2>4 DEF Ages, Fresh, Active
  <2>6. SocketsQuiet
    BY <1>3 DEF SocketsQuiet, Quiet, Types
  <2> QED
    BY <1>1, <1>3, <2>4, <2>5, <2>6, OneAges DEF InstancesShrink
<1>4. CASE GivesUp(c) \/ TriggerPermanentFailure(c)
  BY <1>4, GivesUpMoves
<1> QED
  BY <1>2, <1>3, <1>4 DEF AttemptEnds

\* What RemoveAt leaves.
LEMMA RemoveAtState ==
    ASSUME NEW S, NEW q \in Seq(S), NEW n \in Nat, Len(q) = n, NEW k \in 1 .. n
    PROVE  /\ RemoveAt(q, k) \in Seq(S) /\ Len(RemoveAt(q, k)) = n - 1
           /\ \A i \in 1 .. n - 1 : RemoveAt(q, k)[i] = q[IF i < k THEN i ELSE i + 1]
<1> DEFINE a == SubSeq(q, 1, k - 1)
           b == SubSeq(q, k + 1, n)
<1>1. \A i \in 1 .. n : q[i] \in S
  OBVIOUS
<1>2. k \in Int /\ n \in Int /\ 1 <= k /\ k <= n
  OBVIOUS
<1>3. /\ a \in Seq(S) /\ Len(a) = IF 1 <= k - 1 THEN (k - 1) - 1 + 1 ELSE 0
      /\ \A i \in 1 .. (k - 1) - 1 + 1 : a[i] = q[1 + i - 1]
  <2>1. \A i \in 1 .. k - 1 : q[i] \in S
    BY <1>1, <1>2
  <2> QED
    BY <1>2, <2>1, SubSeqProperties
<1>4. /\ b \in Seq(S) /\ Len(b) = IF k + 1 <= n THEN n - (k + 1) + 1 ELSE 0
      /\ \A i \in 1 .. n - (k + 1) + 1 : b[i] = q[(k + 1) + i - 1]
  <2>1. \A i \in k + 1 .. n : q[i] \in S
    BY <1>1, <1>2
  <2> QED
    BY <1>2, <2>1, SubSeqProperties
<1>5. RemoveAt(q, k) = a \o b
  BY DEF RemoveAt
<1> HIDE DEF a, b
<1>6. Len(a) = k - 1 /\ Len(b) = n - k
  BY <1>2, <1>3, <1>4
<1>7. /\ a \o b \in Seq(S) /\ Len(a \o b) = Len(a) + Len(b)
      /\ \A i \in 1 .. Len(a) + Len(b) : (a \o b)[i] =
             IF i <= Len(a) THEN a[i] ELSE b[i - Len(a)]
  BY <1>3, <1>4, ConcatProperties
<1>8. Len(a) + Len(b) = n - 1
  BY <1>2, <1>6
<1>9. ASSUME NEW i \in 1 .. n - 1
      PROVE  (a \o b)[i] = q[IF i < k THEN i ELSE i + 1]
  <2>1. (a \o b)[i] = IF i <= k - 1 THEN a[i] ELSE b[i - (k - 1)]
    BY <1>6, <1>7, <1>8
  <2>2. CASE i < k
    <3>1. i <= k - 1 /\ i \in 1 .. (k - 1) - 1 + 1 /\ 1 + i - 1 = i
      BY <1>2, <2>2
    <3> QED
      BY <1>3, <2>1, <2>2, <3>1
  <2>3. CASE ~(i < k)
    <3> DEFINE j == i - (k - 1)
    <3>1. ~(i <= k - 1) /\ j \in 1 .. n - (k + 1) + 1 /\ (k + 1) + j - 1 = i + 1
      BY <1>2, <2>3
    <3> HIDE DEF j
    <3>2. b[j] = q[i + 1]
      BY <1>4, <3>1
    <3> QED
      BY <2>1, <2>3, <3>1, <3>2 DEF j
  <2> QED
    BY <2>2, <2>3
<1> QED
  BY <1>5, <1>7, <1>8, <1>9

\* Without takes one position out.
LEMMA WithoutState ==
    ASSUME Types, NEW d
    PROVE  /\ Without(d) \in Seq(Connection)
           /\ \E k \in Nat : \A i \in DOMAIN Without(d) :
                 LET j == IF i < k THEN i ELSE i + 1 IN
                 j \in DOMAIN instances /\ Without(d)[i] = instances[j]
<1>1. instances \in Seq(Connection) /\ Len(instances) \in Nat
      /\ DOMAIN instances = 1 .. Len(instances)
  BY DEF Types
<1>2. CASE d \notin ToSet(instances)
  <2>1. Len(instances) + 1 \in Nat /\ \A i \in DOMAIN instances : i < Len(instances) + 1
    BY <1>1
  <2> QED
    BY <1>1, <1>2, <2>1 DEF Without
<1>3. CASE d \in ToSet(instances)
  <2> DEFINE k == CHOOSE i \in DOMAIN instances : instances[i] = d
             w == RemoveAt(instances, k)
  <2>1. k \in 1 .. Len(instances)
    BY <1>1, <1>3 DEF ToSet
  <2>2. Without(d) = w
    BY <1>3 DEF Without
  <2> HIDE DEF k
  <2>3. /\ w \in Seq(Connection) /\ Len(w) = Len(instances) - 1
        /\ \A i \in 1 .. Len(instances) - 1 : w[i] = instances[IF i < k THEN i ELSE i + 1]
    BY <1>1, <2>1, RemoveAtState
  <2> HIDE DEF w
  <2>4. DOMAIN w = 1 .. Len(instances) - 1
    BY <2>3
  <2>5. k \in Nat /\ \A i \in 1 .. Len(instances) - 1 :
                        (IF i < k THEN i ELSE i + 1) \in 1 .. Len(instances)
    BY <1>1, <2>1
  <2> QED
    BY <1>1, <2>2, <2>3, <2>4, <2>5
<1> QED
  BY <1>2, <1>3
-----------------------------------------------------------------------------
(* What the window's steps keep. *)

\* Ageing begins no attempt.
LEMMA OneOfAKindKept == ASSUME OneOfAKind, ClientsAge PROVE OneOfAKind'
BY DEF OneOfAKind, ClientsAge, Ages

\* What is spliced out of _instances leaves one instance of a kind.
LEMMA InstancesKept ==
    ASSUME Types, InstancesMade, ClientsAge, InstancesShrink
    PROVE  instances' \in Seq(Connection) /\ InstancesMade'
<1>1. CASE UNCHANGED instances
  <2>1. \A i \in DOMAIN instances : instances[i] \in Connection
    BY DEF Types
  <2> QED
    BY <1>1, <2>1 DEF Types, InstancesMade, ClientsAge, Ages
<1>2. ASSUME NEW d \in Connection, instances' = Without(d)
      PROVE  instances' \in Seq(Connection) /\ InstancesMade'
  <2>1. PICK k \in Nat : \A i \in DOMAIN instances' :
             LET j == IF i < k THEN i ELSE i + 1 IN
             j \in DOMAIN instances /\ instances'[i] = instances[j]
    BY <1>2, WithoutState
  <2>2. instances' \in Seq(Connection)
    BY <1>2, WithoutState
  <2>3. \A i \in DOMAIN instances' : client'[instances'[i]].again
    <3> SUFFICES ASSUME NEW i \in DOMAIN instances' PROVE client'[instances'[i]].again
      OBVIOUS
    <3>1. instances'[i] \in Connection /\ client[instances'[i]].again
      BY <2>1, <2>2 DEF InstancesMade, ClientsAge
    <3> QED
      BY <3>1 DEF ClientsAge, Ages
  <2>4. \A i, j \in DOMAIN instances' : Kin(instances'[i]) = Kin(instances'[j]) => i = j
    <3> SUFFICES ASSUME NEW i \in DOMAIN instances', NEW j \in DOMAIN instances',
                        Kin(instances'[i]) = Kin(instances'[j])
                 PROVE  i = j
      OBVIOUS
    <3>1. i \in Nat /\ j \in Nat
      BY <2>2
    <3>2. (IF i < k THEN i ELSE i + 1) = (IF j < k THEN j ELSE j + 1)
      BY <2>1 DEF InstancesMade
    <3> QED
      BY <3>1, <3>2
  <2> QED
    BY <2>2, <2>3, <2>4 DEF InstancesMade, Kin
<1> QED
  BY <1>1, <1>2 DEF InstancesShrink

\* How a socket goes on, unless it is opened.
Later(s) ==
    /\ socket'[s].of \in {socket[s].of, None}
    /\ socket'[s].of # None => (socket'[s].again <=> socket[s].again)
    /\ socket'[s].step \in Unadmitted =>
          socket[s].step \in Unadmitted /\ socket'[s].of = socket[s].of
    /\ socket[s].step \in Admitted => socket'[s].step \in Admitted
    /\ socket'[s].step = "port" => socket'[s].of \in ExtHost

\* How the server's knowledge of a connection goes on.
EntryMoves ==
    \A c \in Connection :
        \/ entry'[c] \in {entry[c], "never"}
        \/ entry[c] = "live" /\ entry'[c] = "gone"
        \/ /\ entry'[c] = "live"
           /\ \E s \in Socket :
                 /\ socket[s].of = c /\ socket[s].step \in Unadmitted
                 /\ socket'[s].step \notin Unadmitted
                 /\ socket[s].again => entry[c] = "live"

\* A socket closed by the client has only gone on.
LEMMA QuietLater ==
    ASSUME PortForExtHost, NEW s \in Socket, Quiet(s)
    PROVE  Later(s)
BY DEF PortForExtHost, Quiet, Later, Unadmitted, Admitted

\* When no socket is opened: the server learns of a connection with the acceptance of a
\* first socket, which was the only one, or it knew the connection.
LEMMA FirstSocketKept ==
    ASSUME Types, FirstSocket, EntryMoves, \A s \in Socket : Later(s),
           \A c \in Connection : Fresh(c)' => Fresh(c)
    PROVE  FirstSocket'
<1>1. ASSUME NEW c \in Connection, Fresh(c)'
      PROVE  entry'[c] = "never" /\ \A s \in Socket : socket'[s].of # c
  <2>1. entry[c] = "never" /\ \A s \in Socket : socket[s].of # c
    BY <1>1 DEF FirstSocket
  <2> QED
    BY <2>1, NoneOutside DEF Later, EntryMoves
<1>2. ASSUME NEW s \in Socket, socket'[s].of # None, ~socket'[s].again
      PROVE  /\ socket'[s].step \in Unadmitted => entry'[socket'[s].of] = "never"
             /\ \A t \in Socket : socket'[t].of = socket'[s].of /\ ~socket'[t].again => s = t
  <2>1. socket'[s].of = socket[s].of /\ socket[s].of # None /\ ~socket[s].again
    BY <1>2 DEF Later
  <2>2. \A t \in Socket : socket[t].of = socket[s].of /\ ~socket[t].again => s = t
    BY <2>1 DEF FirstSocket
  <2>3. ASSUME NEW t \in Socket, socket'[t].of = socket'[s].of, ~socket'[t].again PROVE s = t
    BY <1>2, <2>1, <2>2, <2>3 DEF Later
  <2>4. ASSUME socket'[s].step \in Unadmitted PROVE entry'[socket[s].of] = "never"
    <3>1. entry[socket[s].of] = "never" /\ socket[s].of \in Connection
      BY <2>1, <2>4, RecordsOf DEF FirstSocket, Later, SocketRec
    <3>2. ASSUME NEW t \in Socket, socket[t].of = socket[s].of,
                 socket'[t].step \notin Unadmitted,
                 socket[t].again => entry[socket[s].of] = "live"
          PROVE  FALSE
      BY <2>2, <2>4, <3>1, <3>2
    <3> QED
      BY <3>1, <3>2 DEF EntryMoves
  <2> QED
    BY <2>1, <2>3, <2>4
<1> QED
  BY <1>1, <1>2 DEF FirstSocket

\* A socket is opened for the attempt of c.
Opens(c, s) ==
    /\ Free(s)
    /\ socket'[s].of = c /\ (socket'[s].again <=> client[c].again)
    /\ socket'[s].step = "auth"
    /\ \A t \in Socket \ {s} : Quiet(t)
    /\ client[c].phase = "connecting"
    /\ client'[c].phase = "handshake" /\ (client'[c].again <=> client[c].again)
    /\ UNCHANGED entry

\* The socket of a first attempt is the first one of its token, and the server has not
\* heard of the token.
LEMMA OpensFirstSocket ==
    ASSUME Types, FirstSocket, NEW c \in Connection, NEW s \in Socket, Opens(c, s),
           \A d \in Connection : Fresh(d)' => Fresh(d)
    PROVE  FirstSocket'
<1>1. c # None
  BY NoneOutside
<1>2. ~client[c].again => entry[c] = "never" /\ \A t \in Socket : socket[t].of # c
  BY DEF Opens, FirstSocket, Fresh
<1>3. ASSUME NEW d \in Connection, Fresh(d)'
      PROVE  entry'[d] = "never" /\ \A t \in Socket : socket'[t].of # d
  <2>1. d # c /\ d # None
    BY <1>3, NoneOutside DEF Opens, Fresh
  <2>2. entry[d] = "never" /\ \A t \in Socket : socket[t].of # d
    BY <1>3 DEF FirstSocket
  <2> QED
    BY <2>1, <2>2 DEF Opens, Quiet
<1>4. ASSUME NEW t \in Socket, socket'[t].of # None, ~socket'[t].again
      PROVE  socket'[t].step \in Unadmitted => entry'[socket'[t].of] = "never"
  <2>1. CASE t = s
    BY <1>2, <1>4, <2>1 DEF Opens
  <2>2. CASE t # s
    BY <1>4, <2>2 DEF Opens, Quiet, FirstSocket
  <2> QED
    BY <2>1, <2>2
<1>5. ASSUME NEW t \in Socket, NEW u \in Socket, t # u, socket'[t].of # None,
             socket'[t].of = socket'[u].of, ~socket'[t].again, ~socket'[u].again
      PROVE  FALSE
  <2>1. CASE t = s
    BY <1>1, <1>2, <1>5, <2>1 DEF Opens, Quiet
  <2>2. CASE u = s
    BY <1>1, <1>2, <1>5, <2>2 DEF Opens, Quiet
  <2>3. CASE t # s /\ u # s
    BY <1>5, <2>3 DEF Opens, Quiet, FirstSocket
  <2> QED
    BY <2>1, <2>2, <2>3
<1> QED
  BY <1>3, <1>4, <1>5 DEF FirstSocket

\* A queue carries sockets.
LEMMA HandlesType ==
    ASSUME NEW q \in Seq(Message)
    PROVE  Handles(q) \subseteq Socket
<1>1. \A i \in DOMAIN q : q[i] \in Message
  OBVIOUS
<1> QED
  BY <1>1 DEF Handles, Message

\* What the server's side holds are sockets.
LEMMA HeldTypes ==
    ASSUME Types, NEW c \in Connection
    PROVE  /\ HandedOver(c) \subseteq Socket /\ exthost[c].draining \subseteq Socket
           /\ grace[c].socket \in Socket \cup {None} /\ exthost[c].data \in Socket \cup {None}
           /\ Held(c) \subseteq Socket
<1>1. exthost[c].inbox \in Seq(Message)
  BY RecordsOf DEF ProcessRec
<1>2. HandedOver(c) \subseteq Socket
  BY <1>1, HandlesType, HandedHandles
<1> QED
  BY <1>2, RecordsOf DEF ProcessRec, GraceRec, Held

\* The server's side is as it was, and so are the server's ends of its sockets.
LEMMA HeldKept ==
    ASSUME Types, HeldApart, AllPlaced, UNCHANGED <<entry, grace, exthost>>,
           \A c \in Connection, s \in Socket : s \in Held(c) =>
               (socket'[s].server <=> socket[s].server) /\ socket'[s].step \in Admitted
    PROVE  HeldApart' /\ AllPlaced'
<1>1. \A c : Held(c)' = Held(c) /\ HandedOver(c)' = HandedOver(c)
  BY DEF Held, HandedOver
<1>2. HeldApart'
  BY <1>1 DEF HeldApart
<1>3. ASSUME NEW c \in Connection PROVE Placed(c)' /\ Clocked(c)'
  <2>1. HandedOver(c) \subseteq Socket /\ grace[c].socket \in Socket \cup {None}
    BY HeldTypes
  <2>2. \A s \in HandedOver(c) : socket'[s].server
    BY <2>1, NoneOutside DEF AllPlaced, Placed, Held
  <2>3. grace[c].socket # None =>
           (socket'[grace[c].socket].server <=> socket[grace[c].socket].server)
    BY <2>1 DEF Held
  <2> QED
    BY <1>1, <2>2, <2>3 DEF AllPlaced, Placed, Clocked
<1> QED
  BY <1>2, <1>3 DEF AllPlaced
-----------------------------------------------------------------------------
(* Every step of the window. *)

\* The window moves and the server does not; no socket is opened.
WindowMoves ==
    /\ client' \in [Connection -> ClientRec]
    /\ instances' \in Seq(Connection)
    /\ permanent' \in BOOLEAN
    /\ faults' \in 0 .. MaxFaults
    /\ OneOfAKind' /\ InstancesMade'
    /\ \A c \in Connection : Fresh(c)' => Fresh(c)
    /\ socket' \in [Socket -> SocketRec]
    /\ \A s \in Socket :
          /\ Later(s)
          /\ socket[s].step \in Admitted => (socket'[s].server <=> socket[s].server)
    /\ UNCHANGED <<entry, grace, exthost>>

\* A step of the window keeps the invariant.
LEMMA WindowKeeps == ASSUME IInv, WindowMoves PROVE IInv'
<1>1. Types /\ HeldApart /\ AllPlaced /\ FirstSocket
  BY DEF IInv
<1>2. Types'
  BY <1>1 DEF Types, WindowMoves
<1>3. EntryMoves
  BY DEF EntryMoves, WindowMoves
<1>4. FirstSocket'
  BY <1>1, <1>3, FirstSocketKept DEF WindowMoves
<1>5. PortForExtHost'
  BY DEF PortForExtHost, WindowMoves, Later
<1>6. \A c \in Connection, s \in Socket : s \in Held(c) =>
         (socket'[s].server <=> socket[s].server) /\ socket'[s].step \in Admitted
  BY <1>1 DEF HeldApart, WindowMoves, Later
<1>7. HeldApart' /\ AllPlaced'
  BY <1>1, <1>6, HeldKept DEF WindowMoves
<1> QED
  BY <1>2, <1>4, <1>5, <1>7 DEF IInv, WindowMoves

\* The usual case.
LEMMA AgingKeeps ==
    ASSUME IInv, ClientsAge, InstancesShrink, SocketsQuiet, permanent' \in BOOLEAN,
           faults' \in 0 .. MaxFaults, UNCHANGED <<entry, grace, exthost>>
    PROVE  IInv'
<1>1. OneOfAKind'
  BY OneOfAKindKept DEF IInv
<1>2. instances' \in Seq(Connection) /\ InstancesMade'
  BY InstancesKept DEF IInv
<1>3. \A s \in Socket : Later(s) /\ (socket'[s].server <=> socket[s].server)
  BY QuietLater DEF IInv, SocketsQuiet, Quiet
<1>4. \A s \in Socket :
         /\ Later(s)
         /\ socket[s].step \in Admitted => (socket'[s].server <=> socket[s].server)
  BY <1>3
<1>5. WindowMoves
  BY <1>1, <1>2, <1>4 DEF WindowMoves, SocketsQuiet, ClientsAge, Ages
<1> QED
  BY <1>5, WindowKeeps

\* And a step of nobody.
LEMMA Unchanged == ASSUME IInv, UNCHANGED vars PROVE IInv'
<1>1. OneOfAKind' /\ InstancesMade'
  BY DEF vars, IInv, OneOfAKind, Active, WindowGone, InstancesMade
<1>2. \A s \in Socket : Later(s)
  BY DEF vars, IInv, PortForExtHost, Later
<1>3. WindowMoves
  BY <1>1, <1>2 DEF vars, IInv, Types, WindowMoves, Fresh
<1> QED
  BY <1>3, WindowKeeps

\* Faults are bounded.
LEMMA FaultType ==
    ASSUME Types, Fault \/ UNCHANGED faults
    PROVE  faults' \in 0 .. MaxFaults
BY RemoteAssumption DEF Types, Fault, RemoteAssumption

\* createInitialConnection begins an attempt when no other of the kind is active.
LEMMA BeginStep == ASSUME IInv, NEW c \in Connection, Begin(c) PROVE IInv'
<1>1. Types /\ OneOfAKind /\ InstancesMade /\ PortForExtHost /\ client[c] \in ClientRec
  BY RecordsOf DEF IInv
<1> DEFINE r == [client[c] EXCEPT !.phase = "connecting"]
<1>2. client' = [client EXCEPT ![c] = r]
  BY <1>1 DEF Begin, Types
<1>3. r \in ClientRec /\ r.phase = "connecting" /\ (r.again <=> client[c].again)
  BY <1>1 DEF ClientRec
<1> HIDE DEF r
<1>4. /\ client' \in [Connection -> ClientRec] /\ client'[c] = r
      /\ \A d \in Connection \ {c} : client'[d] = client[d]
  BY <1>1, <1>2, <1>3 DEF Types
<1>5. client[c].phase = "none" /\ ~Active(c) /\ ~client[c].again
  BY <1>1 DEF Begin, OneOfAKind, Active
<1>6. \A d \in Connection : Kin(d) = Kin(c) => d \in Kin(c)
  BY RemoteAssumption DEF Kin, Connection, RemoteAssumption
<1>7. \A d \in Connection : Kin(d) = Kin(c) => ~Active(d)
  BY <1>6 DEF Begin, Active
<1>8. OneOfAKind'
  <2>1. \A d \in Connection : Active(d)' => d = c \/ Active(d)
    BY <1>4 DEF Active
  <2>2. ~WindowGone
    BY <1>5 DEF WindowGone
  <2>3. \A d, e \in Connection : Active(d)' /\ Active(e)' /\ Kin(d) = Kin(e) => d = e
    BY <1>1, <1>7, <2>1, <2>2 DEF OneOfAKind
  <2>4. \A d \in Connection :
           /\ client'[d].again => Active(d)'
           /\ client'[d].phase \in {"up", "wait", "over"} => client'[d].again
    BY <1>1, <1>3, <1>4 DEF OneOfAKind, Active
  <2> QED
    BY <2>3, <2>4 DEF OneOfAKind, Kin
<1>9. InstancesMade'
  <2>1. /\ ~WindowGone /\ UNCHANGED instances
        /\ \A i \in DOMAIN instances : instances[i] \in Connection
    BY <1>1, <1>5 DEF WindowGone, Begin, Types
  <2> QED
    BY <1>1, <1>3, <1>4, <2>1 DEF InstancesMade, Kin
<1>10. \A d \in Connection : Fresh(d)' => Fresh(d)
  BY <1>4, <1>5 DEF Fresh
<1>11. \A s \in Socket : Later(s) /\ (socket'[s].server <=> socket[s].server)
  BY <1>1 DEF Begin, Later, PortForExtHost
<1> QED
  BY <1>1, <1>4, <1>8, <1>9, <1>10, <1>11, WindowKeeps DEF WindowMoves, Begin, Types

\* The steps of a client that is connecting.
LEMMA ConnectFailsStep == ASSUME IInv, NEW c \in Connection, ConnectFails(c) PROVE IInv'
BY AttemptEndsMoves, AgingKeeps, FaultType DEF IInv, ConnectFails

\* A handshake that is over by a timeout,
LEMMA HandshakeTimesOutStep ==
    ASSUME IInv, NEW c \in Connection, HandshakeTimesOut(c) PROVE IInv'
BY AttemptEndsMoves, AgingKeeps, FaultType DEF IInv, HandshakeTimesOut

\* or because the server refused,
LEMMA HandshakeRefusedStep ==
    ASSUME IInv, NEW c \in Connection, HandshakeRefused(c) PROVE IInv'
BY AttemptEndsMoves, GivesUpMoves, AgingKeeps, FaultType DEF IInv, HandshakeRefused

\* Steps of one client that has been connecting for the first time or was made.
LEMMA ClientStep ==
    ASSUME IInv, NEW c \in Connection, NEW r \in ClientRec,
           client' = [client EXCEPT ![c] = r],
           client[c].phase # "gone", Active(c), r.phase \notin {"none", "dropped"},
           (client[c].again <=> r.again), r.phase \in {"up", "wait", "over"} => r.again,
           ~client[c].again => r.phase # "connecting",
           InstancesShrink, SocketsQuiet, permanent' \in BOOLEAN,
           Fault \/ UNCHANGED faults, UNCHANGED <<entry, grace, exthost>>
    PROVE  IInv'
<1>1. OnlyClient(c) /\ client'[c] = r
  BY DEF IInv, Types, OnlyClient
<1>2. Ages(c)
  BY <1>1 DEF Ages, Fresh, Active
<1>3. ClientsAge
  BY <1>1, <1>2, OneAges DEF IInv
<1> QED
  BY <1>3, AgingKeeps, FaultType DEF IInv

\* No socket changes.
LEMMA SocketsStay == ASSUME Types, UNCHANGED socket PROVE SocketsQuiet
BY DEF Types, SocketsQuiet, Quiet

\* The steps of a client that was connected.
LEMMA LosesSocketStep == ASSUME IInv, NEW c \in Connection, LosesSocket(c) PROVE IInv'
<1>1. /\ Types /\ OneOfAKind /\ client[c] \in ClientRec
      /\ permanent' \in BOOLEAN /\ InstancesShrink
  BY RecordsOf DEF IInv, LosesSocket, Types, InstancesShrink
<1>2. client[c].phase = "up" /\ client[c].again /\ Active(c)
  BY <1>1 DEF LosesSocket, OneOfAKind, Active
<1>3. CASE /\ client' = [client EXCEPT ![c].phase = "over", ![c].socket = None]
           /\ socket' = CloseClient({client[c].socket})
  <2> DEFINE r == [client[c] EXCEPT !.phase = "over", !.socket = None]
  <2>1. client' = [client EXCEPT ![c] = r]
    BY <1>1, <1>3 DEF Types
  <2>2. r \in ClientRec /\ r.phase = "over" /\ r.again = client[c].again
    BY <1>1 DEF ClientRec
  <2>3. SocketsQuiet
    BY <1>1, <1>3, ClosesClient DEF SocketsQuiet
  <2> HIDE DEF r
  <2> QED
    BY <1>1, <1>2, <2>1, <2>2, <2>3, ClientStep DEF LosesSocket
<1>4. CASE client' = [client EXCEPT ![c].phase = "connecting"] /\ UNCHANGED socket
  <2> DEFINE r == [client[c] EXCEPT !.phase = "connecting"]
  <2>1. client' = [client EXCEPT ![c] = r]
    BY <1>1, <1>4 DEF Types
  <2>2. r \in ClientRec /\ r.phase = "connecting" /\ r.again = client[c].again
    BY <1>1 DEF ClientRec
  <2> HIDE DEF r
  <2> QED
    BY <1>1, <1>2, <1>4, <2>1, <2>2, ClientStep, SocketsStay DEF LosesSocket
<1> QED
  BY <1>3, <1>4 DEF LosesSocket

\* The wait before an attempt ends.
LEMMA WaitEndsStep == ASSUME IInv, NEW c \in Connection, WaitEnds(c) PROVE IInv'
<1>1. /\ Types /\ OneOfAKind /\ client[c] \in ClientRec
      /\ permanent' \in BOOLEAN /\ InstancesShrink
  BY RecordsOf DEF IInv, WaitEnds, Types, InstancesShrink
<1>2. client[c].phase = "wait" /\ client[c].again /\ Active(c)
  BY <1>1 DEF WaitEnds, OneOfAKind, Active
<1> DEFINE r == [client[c] EXCEPT !.phase = IF permanent THEN "over" ELSE "connecting"]
<1>3. client' = [client EXCEPT ![c] = r]
  BY <1>1 DEF Types, WaitEnds
<1>4. r \in ClientRec /\ r.phase \in {"over", "connecting"} /\ r.again = client[c].again
  BY <1>1 DEF ClientRec
<1> HIDE DEF r
<1> QED
  BY <1>1, <1>2, <1>3, <1>4, ClientStep, SocketsStay DEF WaitEnds

\* Disconnect marks the socket with a goodbye.
LEMMA DisconnectsStep == ASSUME IInv, NEW c \in Connection, Disconnects(c) PROVE IInv'
<1>1. /\ Types /\ OneOfAKind /\ client[c] \in ClientRec
      /\ permanent' \in BOOLEAN /\ InstancesShrink
  BY RecordsOf DEF IInv, Disconnects, Types, InstancesShrink
<1>2. client[c].phase # "gone" /\ client[c].again /\ Active(c)
  BY <1>1 DEF Disconnects, OneOfAKind, Active
<1> DEFINE r == [client[c] EXCEPT !.leaving = "disconnected"]
<1>3. client' = [client EXCEPT ![c] = r]
  BY <1>1 DEF Types, Disconnects
<1>4. r \in ClientRec /\ r.phase = client[c].phase /\ r.again = client[c].again
  BY <1>1 DEF ClientRec
<1>5. SocketsQuiet
  <2>1. ASSUME NEW s \in Socket
        PROVE  LET o == [socket[s] EXCEPT !.bye = socket[s].client] IN
               /\ o \in SocketRec /\ o.of = socket[s].of /\ (o.again <=> socket[s].again)
               /\ o.step = socket[s].step /\ (o.server <=> socket[s].server)
    BY <1>1, RecordsOf DEF SocketRec
  <2>2. ASSUME NEW s \in Socket PROVE socket'[s] \in SocketRec /\ Quiet(s)
    BY <1>1, <2>1, RecordsOf DEF Disconnects, Quiet
  <2> QED
    BY <2>2 DEF SocketsQuiet, Disconnects
<1> HIDE DEF r
<1> QED
  BY <1>1, <1>2, <1>3, <1>4, <1>5, ClientStep DEF Disconnects, Active

\* dispose takes the instance out and ends its socket.
LEMMA DisposesStep == ASSUME IInv, NEW c \in Connection, Disposes(c) PROVE IInv'
<1>1. /\ Types /\ OneOfAKind /\ client[c] \in ClientRec
      /\ permanent' \in BOOLEAN /\ InstancesShrink
  BY RecordsOf DEF IInv, Disposes, Types, InstancesShrink
<1> DEFINE r == [client[c] EXCEPT
                    !.leaving = "disposed",
                    !.phase = IF @ = "up" THEN "over" ELSE @,
                    !.socket = IF client[c].phase = "up" THEN None ELSE @]
<1>2. client' = [client EXCEPT ![c] = r]
  BY <1>1 DEF Types, Disposes
<1>3. /\ r \in ClientRec /\ r.again = client[c].again
      /\ r.phase = IF client[c].phase = "up" THEN "over" ELSE client[c].phase
  BY <1>1 DEF ClientRec
<1> HIDE DEF r
<1>4. SocketsQuiet
  BY <1>1, ClosesClient DEF SocketsQuiet, Disposes
<1>5. OnlyClient(c) /\ client'[c] = r
  BY <1>1, <1>2, <1>3 DEF Types, OnlyClient
<1>6. Ages(c)
  BY <1>1, <1>3, <1>5 DEF Ages, Fresh, Active, OneOfAKind
<1>7. ClientsAge
  BY <1>1, <1>5, <1>6, OneAges DEF Disposes
<1> QED
  BY <1>1, <1>4, <1>7, AgingKeeps, FaultType DEF Disposes

\* The window closes with all its clients.
LEMMA WindowClosesStep == ASSUME IInv, WindowCloses PROVE IInv'
<1>1. Types /\ PortForExtHost /\ \E c \in Connection : TRUE
  BY DEF IInv, WindowCloses
<1>2. /\ [NewClient EXCEPT !.phase = "gone"] \in ClientRec
      /\ [NewClient EXCEPT !.phase = "gone"].phase = "gone"
      /\ ~[NewClient EXCEPT !.phase = "gone"].again
  <2>2. 0 \in 0 .. MaxAttempts + 1
    BY RemoteAssumption DEF RemoteAssumption
  <2>3. NewClient \in ClientRec /\ ~NewClient.again
    BY <2>2 DEF ClientRec, NewClient
  <2> QED
    BY <2>3 DEF ClientRec
<1>3. /\ client' \in [Connection -> ClientRec]
      /\ \A c \in Connection : client'[c].phase = "gone" /\ ~client'[c].again
  BY <1>2 DEF WindowCloses
<1>4. OneOfAKind' /\ WindowGone' /\ \A c \in Connection : ~Fresh(c)'
  BY <1>3 DEF OneOfAKind, WindowGone, Fresh
<1>5. InstancesMade'
  BY <1>4 DEF WindowCloses, IInv, InstancesMade, Kin
<1>6. PICK goodbye \in SUBSET {c \in Management : client[c].phase = "up"} :
          socket' = [s \in Socket |-> Forgotten([socket[s] EXCEPT
                        !.client = FALSE,
                        !.bye = @ \/ \E c \in goodbye : client[c].socket = s])]
  BY DEF WindowCloses
<1>7. ASSUME NEW s \in Socket PROVE socket'[s] \in SocketRec /\ Quiet(s)
  <2> DEFINE b == \E c \in goodbye : client[c].socket = s
             o == [socket[s] EXCEPT !.client = FALSE, !.bye = @ \/ b]
  <2>1. socket'[s] = Forgotten(o)
    BY <1>6
  <2>2. b \in BOOLEAN
    OBVIOUS
  <2> HIDE DEF b
  <2>3. /\ o \in SocketRec /\ o.of = socket[s].of /\ (o.again <=> socket[s].again)
        /\ o.step = socket[s].step /\ (o.server <=> socket[s].server)
    BY <1>1, <2>2, RecordsOf DEF SocketRec
  <2> HIDE DEF o
  <2> QED
    BY <2>1, <2>3, ForgottenState DEF Quiet
<1>8. SocketsQuiet
  BY <1>6, <1>7 DEF SocketsQuiet
<1>9. \A s \in Socket : Later(s) /\ (socket'[s].server <=> socket[s].server)
  BY <1>1, <1>8, QuietLater DEF SocketsQuiet, Quiet
<1> QED
  BY <1>1, <1>3, <1>4, <1>5, <1>8, <1>9, WindowKeeps
     DEF WindowMoves, SocketsQuiet, WindowCloses, Types

\* or done: the new instance is the first of its kind, for an earlier one would be active.
LEMMA HandshakeDoneStep == ASSUME IInv, NEW c \in Connection, HandshakeDone(c) PROVE IInv'
<1> DEFINE s == client[c].socket
           late == permanent /\ ~client[c].again
           r == [client[c] EXCEPT !.phase = IF late THEN "over" ELSE "up",
                                  !.failed = late \/ @, !.again = TRUE, !.attempt = 0]
<1>1. /\ Types /\ OneOfAKind /\ InstancesMade /\ PortForExtHost
      /\ client[c] \in ClientRec /\ permanent \in BOOLEAN /\ permanent' = permanent
      /\ faults' \in 0 .. MaxFaults
  BY RecordsOf DEF IInv, HandshakeDone, Types
<1>2. client[c].phase = "handshake" /\ Active(c) /\ ~WindowGone
  BY DEF HandshakeDone, Active, WindowGone
<1>3. client' = [client EXCEPT ![c] = r]
  BY <1>1 DEF Types, HandshakeDone
<1>4. late \in BOOLEAN /\ 0 \in 0 .. MaxAttempts + 1
  BY <1>1, RemoteAssumption DEF ClientRec, RemoteAssumption
<1>5. r \in ClientRec /\ r.phase \in {"over", "up"} /\ r.again
  BY <1>1, <1>4 DEF ClientRec
<1>6. /\ socket' = [socket EXCEPT ![s].step = "up", ![s].client = ~late]
      /\ socket[s].step = "ok"
  BY DEF HandshakeDone
<1> HIDE DEF r, late
<1>7. OnlyClient(c) /\ client'[c] = r
  BY <1>1, <1>3, <1>5 DEF Types, OnlyClient
<1>8. Ages(c)
  BY <1>2, <1>5, <1>7 DEF Ages, Fresh, Active
<1>9. ClientsAge
  BY <1>1, <1>2, <1>7, <1>8, OneAges
<1>10. socket' \in [Socket -> SocketRec]
       /\ \A t \in Socket : Later(t) /\ (socket'[t].server <=> socket[t].server)
  <2> DEFINE o == [socket[s] EXCEPT !.step = "up", !.client = ~late]
  <2>1. socket' = [socket EXCEPT ![s] = o]
    BY <1>1, <1>6 DEF Types
  <2>2. s \in Socket => /\ o \in SocketRec /\ o.of = socket[s].of /\ o.step = "up"
                        /\ (o.again <=> socket[s].again) /\ (o.server <=> socket[s].server)
    BY <1>1, <1>4, RecordsOf DEF SocketRec
  <2> HIDE DEF o
  <2>3. /\ socket' \in [Socket -> SocketRec]
        /\ s \in Socket => socket'[s] = o
        /\ \A t \in Socket \ {s} : socket'[t] = socket[t]
    BY <1>1, <2>1, <2>2 DEF Types
  <2>4. \A t \in Socket \ {s} : Later(t)
    BY <1>1, <2>3 DEF Later, PortForExtHost
  <2>5. s \in Socket => Later(s)
    BY <1>6, <2>2, <2>3 DEF Later, Unadmitted, Admitted
  <2> QED
    BY <2>2, <2>3, <2>4, <2>5
<1>11. instances' \in Seq(Connection) /\ InstancesMade'
  <2>1. CASE client[c].again
    BY <1>1, <1>9, <2>1, InstancesKept DEF HandshakeDone, InstancesShrink
  <2>2. CASE ~client[c].again
    <3> DEFINE n == Len(instances)
    <3>1. instances' = Append(instances, c)
      BY <2>2 DEF HandshakeDone
    <3>2. /\ instances \in Seq(Connection) /\ n \in Nat /\ DOMAIN instances = 1 .. n
          /\ \A i \in 1 .. n : instances[i] \in Connection /\ client[instances[i]].again
      BY <1>1, <1>2 DEF Types, InstancesMade
    <3>3. /\ instances' \in Seq(Connection) /\ DOMAIN instances' = 1 .. n + 1
          /\ \A i \in 1 .. n : instances'[i] = instances[i]
          /\ instances'[n + 1] = c
      BY <3>1, <3>2
    <3> HIDE DEF n
    <3>4. \A i \in 1 .. n : Kin(instances[i]) # Kin(c)
      BY <1>1, <1>2, <2>2, <3>2 DEF OneOfAKind
    <3>5. \A i \in 1 .. n + 1 : i \in 1 .. n \/ i = n + 1
      BY <3>2
    <3>6. \A i \in DOMAIN instances' : client'[instances'[i]].again
      <4> SUFFICES ASSUME NEW i \in 1 .. n + 1 PROVE client'[instances'[i]].again
        BY <3>3
      <4>1. CASE i \in 1 .. n
        BY <3>2, <3>3, <4>1, <1>9 DEF ClientsAge, Ages
      <4>2. CASE i = n + 1
        BY <3>3, <4>2, <1>5, <1>7
      <4> QED
        BY <3>5, <4>1, <4>2
    <3>7. \A i, j \in DOMAIN instances' : Kin(instances'[i]) = Kin(instances'[j]) => i = j
      BY <1>1, <3>2, <3>3, <3>4, <3>5 DEF InstancesMade
    <3> QED
      BY <3>3, <3>6, <3>7 DEF InstancesMade, Kin
  <2> QED
    BY <2>1, <2>2
<1>12. OneOfAKind'
  BY <1>1, <1>9, OneOfAKindKept
<1> QED
  BY <1>1, <1>9, <1>10, <1>11, <1>12, WindowKeeps
     DEF WindowMoves, HandshakeDone, ClientsAge, Ages

\* A socket that is opened was free, so nobody on the server's side holds it.
LEMMA SocketOpensStep == ASSUME IInv, NEW c \in Connection, SocketOpens(c) PROVE IInv'
<1> DEFINE s == CHOOSE t \in Socket : Free(t)
           r == [client[c] EXCEPT !.phase = "handshake", !.socket = s]
           o == [of |-> c, again |-> client[c].again, client |-> TRUE, server |-> TRUE,
                 cut |-> FALSE, bye |-> FALSE, step |-> "auth"]
           closed == CloseClient({client[c].socket} \ {None})
<1>1. /\ Types /\ OneOfAKind /\ InstancesMade /\ PortForExtHost /\ FirstSocket
      /\ HeldApart /\ AllPlaced /\ client[c] \in ClientRec
  BY RecordsOf DEF IInv
<1>2. s \in Socket /\ Free(s)
  BY DEF SocketOpens
<1>3. client' = [client EXCEPT ![c] = r] /\ socket' = [closed EXCEPT ![s] = o]
  BY <1>1 DEF SocketOpens, Types
<1>4. /\ client[c].phase = "connecting"
      /\ UNCHANGED <<instances, permanent, entry, grace, exthost, faults>>
  BY DEF SocketOpens
<1> HIDE DEF s
<1>5. r \in ClientRec /\ r.phase = "handshake" /\ (r.again <=> client[c].again)
  BY <1>1, <1>2 DEF ClientRec
<1>6. /\ o \in SocketRec /\ o.of = c /\ (o.again <=> client[c].again) /\ o.step = "auth"
      /\ o.server
  BY <1>1 DEF SocketRec, ClientRec
<1>7. DOMAIN closed = Socket
  BY DEF CloseClient
<1> HIDE DEF r, o, closed
<1>8. OnlyClient(c) /\ client'[c] = r
  BY <1>1, <1>3, <1>5 DEF Types, OnlyClient
<1>9. Ages(c)
  BY <1>1, <1>4, <1>5, <1>8 DEF Ages, Fresh, Active
<1>10. ClientsAge
  BY <1>1, <1>4, <1>8, <1>9, OneAges
<1>11. socket'[s] = o /\ \A t \in Socket \ {s} : socket'[t] = closed[t]
  BY <1>2, <1>3, <1>7
<1>12. socket' \in [Socket -> SocketRec]
  <2>1. \A t \in Socket : socket'[t] \in SocketRec
    BY <1>1, <1>6, <1>11, CloseClientState DEF closed
  <2> QED
    BY <1>3, <1>7, <2>1
<1>13. \A t \in Socket \ {s} : Quiet(t)
  BY <1>1, <1>11, CloseClientState DEF closed, Quiet
<1>14. Opens(c, s)
  BY <1>2, <1>4, <1>5, <1>6, <1>8, <1>11, <1>13 DEF Opens
<1>15. FirstSocket'
  BY <1>1, <1>2, <1>10, <1>14, OpensFirstSocket DEF ClientsAge, Ages
<1>16. PortForExtHost'
  BY <1>1, <1>6, <1>11, <1>13 DEF PortForExtHost, Quiet
<1>17. \A d \in Connection, t \in Socket : t \in Held(d) =>
          (socket'[t].server <=> socket[t].server) /\ socket'[t].step \in Admitted
  <2> SUFFICES ASSUME NEW d \in Connection, NEW t \in Socket, t \in Held(d)
               PROVE  (socket'[t].server <=> socket[t].server) /\ socket'[t].step \in Admitted
    OBVIOUS
  <2>1. t # s
    BY <1>2 DEF Free, Holders, Held
  <2> QED
    BY <1>1, <1>13, <2>1 DEF HeldApart, Quiet, Admitted
<1>18. HeldApart' /\ AllPlaced'
  BY <1>1, <1>4, <1>17, HeldKept
<1>19. instances' \in Seq(Connection) /\ InstancesMade' /\ OneOfAKind'
  BY <1>1, <1>4, <1>10, InstancesKept, OneOfAKindKept DEF InstancesShrink
<1>20. Types'
  BY <1>1, <1>4, <1>10, <1>12, <1>19 DEF Types, ClientsAge
<1> QED
  BY <1>15, <1>16, <1>18, <1>19, <1>20 DEF IInv
-----------------------------------------------------------------------------
(* What the server's steps keep. *)

\* The server moves and the window does not.
ServerMoves ==
    /\ UNCHANGED <<client, instances, permanent>>
    /\ faults' \in 0 .. MaxFaults
    /\ socket' \in [Socket -> SocketRec]
    /\ entry' \in [Connection -> {"never", "live", "gone"}]
    /\ grace' \in [Connection -> GraceRec]
    /\ exthost' \in [Connection -> ProcessRec]
    /\ EntryMoves
    /\ \A s \in Socket : Later(s)

\* A step of the server keeps the invariant when it keeps what the server holds in place.
LEMMA ServerKeeps == ASSUME IInv, ServerMoves, HeldApart', AllPlaced' PROVE IInv'
<1>1. Types'
  BY DEF IInv, Types, ServerMoves
<1>2. OneOfAKind'
  BY DEF IInv, OneOfAKind, ServerMoves, Active, WindowGone
<1>3. InstancesMade'
  BY DEF IInv, InstancesMade, ServerMoves, WindowGone
<1>4. FirstSocket'
  BY FirstSocketKept DEF IInv, ServerMoves, Fresh
<1>5. PortForExtHost'
  BY DEF PortForExtHost, ServerMoves, Later
<1> QED
  BY <1>1, <1>2, <1>3, <1>4, <1>5 DEF IInv

\* The sockets that a record of the one kind and one of the other hold.
HeldBy(g, p) == ({g.socket, p.data} \cup p.draining \cup Handles(p.inbox)) \ {None}

\* Held and HandedOver are functions of the two records, before and after a step.
LEMMA HeldRecords ==
    ASSUME NEW c
    PROVE  /\ HandedOver(c) = Handles(exthost[c].inbox)
           /\ HandedOver(c)' = Handles(exthost'[c].inbox)
           /\ Held(c) = HeldBy(grace[c], exthost[c])
           /\ Held(c)' = HeldBy(grace'[c], exthost'[c])
<1>1. HandedOver(c) = Handles(exthost[c].inbox) /\ HandedOver(c)' = Handles(exthost'[c].inbox)
  BY DEF HandedOver, Handles, ToSet
<1> QED
  BY <1>1 DEF Held, HeldBy

\* What is held is held by whom it was, but for a socket the server accepts.
LEMMA HeldApartKept ==
    ASSUME HeldApart, \A s \in Socket : Later(s), NEW c, NEW new,
           \A d \in Connection : Held(d)' \subseteq Held(d) \cup (IF d = c THEN new ELSE {}),
           \A s \in new : socket[s].step \in Unadmitted /\ socket'[s].step \in Admitted
    PROVE  HeldApart'
<1>1. Unadmitted \cap Admitted = {}
  BY DEF Unadmitted, Admitted
<1>2. ASSUME NEW d \in Connection, NEW s \in Socket, s \in Held(d)'
      PROVE  /\ s \in Held(d) \/ (d = c /\ s \in new)
             /\ socket'[s].step \in Admitted
  <2>1. s \in Held(d) \/ (d = c /\ s \in new)
    BY <1>2
  <2> QED
    BY <2>1 DEF HeldApart, Later
<1>3. \A d \in Connection, s \in Socket : s \in Held(d) => s \notin new
  BY <1>1 DEF HeldApart
<1> QED
  BY <1>2, <1>3 DEF HeldApart

\* Nothing of d has changed, except that its grace time may have been shortened and
\* that messages without a socket may have been sent to its process.
Untouched(d) ==
    /\ exthost'[d].state = exthost[d].state
    /\ exthost'[d].data = exthost[d].data
    /\ exthost'[d].ready <=> exthost[d].ready
    /\ exthost'[d].draining = exthost[d].draining
    /\ HandedOver(d)' = HandedOver(d)
    /\ Once(exthost'[d].inbox)
    /\ grace'[d].socket = grace[d].socket
    /\ grace'[d].long <=> grace[d].long
    /\ grace'[d].first <=> grace[d].first
    /\ grace'[d].short => grace[d].short \/ grace[d].long
    /\ entry'[d] = "never" => entry[d] = "never"

\* The sockets of such a connection stay,
LEMMA UntouchedHeld == ASSUME NEW d, Untouched(d) PROVE Held(d)' = Held(d)
BY DEF Untouched, Held

\* and so does their place, if they stay open at the server's end.
LEMMA UntouchedKept ==
    ASSUME Types, AllPlaced, NEW d \in Connection, Untouched(d),
           \A s \in Held(d) : socket'[s].server <=> socket[s].server
    PROVE  Placed(d)' /\ Clocked(d)'
<1>1. Placed(d) /\ Clocked(d) /\ HandedOver(d) \subseteq Socket
  BY HeldTypes DEF AllPlaced
<1>2. \A s \in HandedOver(d) : socket'[s].server
  BY <1>1, NoneOutside DEF Placed, Held
<1>3. grace[d].socket # None =>
         (socket'[grace[d].socket].server <=> socket[grace[d].socket].server)
  BY DEF Held
<1>4. Placed(d)'
  BY <1>1, <1>2 DEF Untouched, Placed
<1>5. Clocked(d)'
  BY <1>1, <1>3 DEF Untouched, Clocked
<1> QED
  BY <1>4, <1>5

\* As good as unchanged: both records are.
LEMMA SameUntouched ==
    ASSUME Types, AllPlaced, NEW d \in Connection,
           exthost'[d] = exthost[d], grace'[d] = grace[d],
           entry'[d] = "never" => entry[d] = "never"
    PROVE  Untouched(d)
<1>1. HandedOver(d)' = HandedOver(d)
  BY HeldRecords
<1> QED
  BY <1>1 DEF Untouched, AllPlaced, Placed

\* What the shortening of all grace times does.
LEMMA ShortenedState ==
    ASSUME NEW g \in GraceRec
    PROVE  /\ Shortened(g) \in GraceRec /\ Shortened(g).socket = g.socket
           /\ Shortened(g).long <=> g.long
           /\ Shortened(g).first <=> g.first
           /\ Shortened(g).short => g.short \/ g.long
BY DEF Shortened, GraceRec

\* shortenReconnectionGraceTimeIfNecessary changes the short timers and hands over nothing.
LEMMA ToldState ==
    ASSUME Types, AllPlaced
    PROVE  /\ GraceShortened \in [Connection -> GraceRec]
           /\ ProcessesTold \in [Connection -> ProcessRec]
           /\ \A d \in Connection :
                 /\ GraceShortened[d].socket = grace[d].socket
                 /\ GraceShortened[d].long <=> grace[d].long
                 /\ GraceShortened[d].first <=> grace[d].first
                 /\ GraceShortened[d].short => grace[d].short \/ grace[d].long
                 /\ ProcessesTold[d].state = exthost[d].state
                 /\ ProcessesTold[d].data = exthost[d].data
                 /\ ProcessesTold[d].ready <=> exthost[d].ready
                 /\ ProcessesTold[d].draining = exthost[d].draining
                 /\ Handles(ProcessesTold[d].inbox) = HandedOver(d)
                 /\ Once(ProcessesTold[d].inbox)
<1>1. ASSUME NEW d \in Connection
      PROVE  /\ GraceShortened[d] \in GraceRec /\ GraceShortened[d].socket = grace[d].socket
             /\ GraceShortened[d].long <=> grace[d].long
             /\ GraceShortened[d].first <=> grace[d].first
             /\ GraceShortened[d].short => grace[d].short \/ grace[d].long
  BY RecordsOf, ShortenedState DEF GraceShortened
<1>2. ASSUME NEW d \in Connection
      PROVE  /\ ProcessesTold[d] \in ProcessRec
             /\ ProcessesTold[d].state = exthost[d].state
             /\ ProcessesTold[d].data = exthost[d].data
             /\ ProcessesTold[d].ready <=> exthost[d].ready
             /\ ProcessesTold[d].draining = exthost[d].draining
             /\ Handles(ProcessesTold[d].inbox) = HandedOver(d)
             /\ Once(ProcessesTold[d].inbox)
  <2> DEFINE q == exthost[d].inbox
             p == [exthost[d] EXCEPT !.inbox = Append(q, Reduce)]
  <2>1. exthost[d] \in ProcessRec /\ q \in Seq(Message) /\ Once(q)
    BY RecordsOf DEF ProcessRec, AllPlaced, Placed
  <2>2. Reduce \in Message /\ Reduce.handle = None
    BY DEF Reduce, Message
  <2>3. /\ Append(q, Reduce) \in Seq(Message) /\ Once(Append(q, Reduce))
        /\ Handles(Append(q, Reduce)) = Handles(q)
    BY <2>1, <2>2, AppendHandles DEF Handles
  <2>4. ProcessesTold[d] = exthost[d] \/ ProcessesTold[d] = p
    BY DEF ProcessesTold
  <2>5. /\ p \in ProcessRec /\ p.state = exthost[d].state /\ p.data = exthost[d].data
        /\ p.ready = exthost[d].ready /\ p.draining = exthost[d].draining
        /\ p.inbox = Append(q, Reduce)
    BY <2>1, <2>3 DEF ProcessRec
  <2> HIDE DEF p
  <2> QED
    BY <2>1, <2>3, <2>4, <2>5, HeldRecords
<1>3. DOMAIN GraceShortened = Connection /\ DOMAIN ProcessesTold = Connection
  BY DEF GraceShortened, ProcessesTold
<1>4. GraceShortened \in [Connection -> GraceRec]
  BY <1>1 DEF GraceShortened
<1>5. ProcessesTold \in [Connection -> ProcessRec]
  BY <1>2 DEF ProcessesTold
<1> QED
  BY <1>1, <1>2, <1>4, <1>5

\* For a connection that is only told.
LEMMA ToldUntouched ==
    ASSUME Types, AllPlaced, NEW d \in Connection,
           exthost'[d] = ProcessesTold[d], grace'[d] = GraceShortened[d],
           entry'[d] = "never" => entry[d] = "never"
    PROVE  Untouched(d)
<1>1. HandedOver(d)' = HandedOver(d)
  BY ToldState, HeldRecords
<1> QED
  BY <1>1, ToldState DEF Untouched

\* All connections are untouched.
LEMMA AllUntouched ==
    ASSUME Types, HeldApart, AllPlaced, \A d \in Connection : Untouched(d),
           \A s \in Socket : Later(s),
           \A s \in Socket : socket[s].step \in Admitted =>
                                (socket'[s].server <=> socket[s].server)
    PROVE  HeldApart' /\ AllPlaced'
<1>1. \A d \in Connection : Held(d)' = Held(d)
  BY UntouchedHeld
<1>2. HeldApart'
  BY <1>1 DEF HeldApart, Later
<1>3. ASSUME NEW d \in Connection
      PROVE  \A s \in Held(d) : socket'[s].server <=> socket[s].server
  BY HeldTypes DEF HeldApart
<1> QED
  BY <1>2, <1>3, UntouchedKept DEF AllPlaced

\* A closing at the server's end.
LEMMA ClosesServer ==
    ASSUME Types, PortForExtHost, NEW S, socket' = CloseServer(S)
    PROVE  /\ socket' \in [Socket -> SocketRec]
           /\ \A s \in Socket : Later(s) /\ (s \notin S => socket'[s] = socket[s])
           /\ \A s \in Socket : s \in S => ~socket'[s].server /\ socket'[s].step = "spent"
BY CloseServerState, CloseServerType DEF Later, PortForExtHost, Unadmitted, Admitted

\* One connection is acted upon, and sockets close that were held for it.
LEMMA OneTouched ==
    ASSUME Types, HeldApart, AllPlaced, NEW c \in Connection, NEW new,
           \A d \in Connection \ {c} : Untouched(d),
           \A s \in Socket : Later(s),
           \A s \in Socket : socket[s].step \in Admitted /\ s \notin Held(c) =>
                                (socket'[s].server <=> socket[s].server),
           \A s \in new : socket[s].step \in Unadmitted /\ socket'[s].step \in Admitted,
           Held(c)' \subseteq Held(c) \cup new,
           Placed(c)' /\ Clocked(c)'
    PROVE  HeldApart' /\ AllPlaced'
<1>1. \A d \in Connection : Held(d)' \subseteq Held(d) \cup (IF d = c THEN new ELSE {})
  BY UntouchedHeld
<1>2. HeldApart'
  BY <1>1, HeldApartKept
<1>3. ASSUME NEW d \in Connection \ {c}
      PROVE  \A s \in Held(d) : socket'[s].server <=> socket[s].server
  BY HeldTypes DEF HeldApart
<1> QED
  BY <1>2, <1>3, UntouchedKept DEF AllPlaced
-----------------------------------------------------------------------------
(* Every step of the server. *)

\* The parts of the invariant the server's steps rely on.
LEMMA Parts ==
    ASSUME IInv
    PROVE  Types /\ FirstSocket /\ PortForExtHost /\ HeldApart /\ AllPlaced
BY DEF IInv

\* The signature is no acceptance.
LEMMA AuthenticatesStep == ASSUME IInv, NEW s \in Socket, Authenticates(s) PROVE IInv'
<1>1. Types /\ PortForExtHost /\ socket[s] \in SocketRec
  BY Parts, RecordsOf
<1> DEFINE o == [socket[s] EXCEPT !.step = "type"]
<1>2. socket' = [socket EXCEPT ![s] = o] /\ socket[s].step = "auth"
  BY <1>1 DEF Authenticates, Types
<1>3. o \in SocketRec /\ o.of = socket[s].of /\ o.again = socket[s].again /\ o.step = "type"
  BY <1>1 DEF SocketRec
<1> HIDE DEF o
<1>4. /\ socket' \in [Socket -> SocketRec] /\ socket'[s] = o
      /\ \A t \in Socket \ {s} : socket'[t] = socket[t]
  BY <1>1, <1>2, <1>3 DEF Types
<1>5. \A t \in Socket :
         /\ Later(t)
         /\ socket[t].step \in Admitted => (socket'[t].server <=> socket[t].server)
  BY <1>1, <1>2, <1>3, <1>4 DEF Later, PortForExtHost, Unadmitted, Admitted
<1>6. OneOfAKind' /\ InstancesMade'
  BY DEF Authenticates, IInv, OneOfAKind, Active, WindowGone, InstancesMade
<1>7. WindowMoves
  BY <1>1, <1>4, <1>5, <1>6 DEF Authenticates, Types, WindowMoves, Fresh
<1> QED
  BY <1>7, WindowKeeps

\* A cut is seen by neither end.
LEMMA SocketCutStep == ASSUME IInv, NEW s \in Socket, SocketCut(s) PROVE IInv'
<1>1. Types /\ PortForExtHost /\ socket[s] \in SocketRec
  BY Parts, RecordsOf
<1> DEFINE o == [socket[s] EXCEPT !.cut = TRUE]
<1>2. socket' = [socket EXCEPT ![s] = o]
  BY <1>1 DEF SocketCut, Types
<1>3. /\ o \in SocketRec /\ o.of = socket[s].of /\ o.again = socket[s].again
      /\ o.step = socket[s].step /\ o.server = socket[s].server
  BY <1>1 DEF SocketRec
<1> HIDE DEF o
<1>4. /\ socket' \in [Socket -> SocketRec] /\ socket'[s] = o
      /\ \A t \in Socket \ {s} : socket'[t] = socket[t]
  BY <1>1, <1>2, <1>3 DEF Types
<1>5. \A t \in Socket :
         /\ Later(t)
         /\ socket[t].step \in Admitted => (socket'[t].server <=> socket[t].server)
  BY <1>1, <1>2, <1>3, <1>4 DEF Later, PortForExtHost, Unadmitted, Admitted
<1>6. OneOfAKind' /\ InstancesMade'
  BY DEF SocketCut, IInv, OneOfAKind, Active, WindowGone, InstancesMade
<1>7. faults' \in 0 .. MaxFaults
  BY <1>1, FaultType DEF SocketCut
<1>8. WindowMoves
  BY <1>1, <1>4, <1>5, <1>6, <1>7 DEF SocketCut, Types, WindowMoves, Fresh
<1> QED
  BY <1>8, WindowKeeps

\* Another window only shortens the grace times.
LEMMA OtherWindowConnectsStep == ASSUME IInv, OtherWindowConnects PROVE IInv'
<1>1. Types /\ HeldApart /\ AllPlaced /\ PortForExtHost
  BY Parts
<1>2. \A d \in Connection : Untouched(d)
  BY <1>1, ToldUntouched DEF OtherWindowConnects
<1>3. \A s \in Socket : Later(s)
  BY <1>1 DEF Later, PortForExtHost, OtherWindowConnects
<1>4. HeldApart' /\ AllPlaced'
  BY <1>1, <1>2, <1>3, AllUntouched DEF OtherWindowConnects
<1>5. ServerMoves
  BY <1>1, <1>3, ToldState DEF ServerMoves, OtherWindowConnects, Types, EntryMoves
<1> QED
  BY <1>4, <1>5, ServerKeeps

\* What becomes of the socket of a rejected client.
LEMMA RejectedState ==
    ASSUME Types, PortForExtHost, NEW s \in Socket, socket[s].step \in Unadmitted,
           socket' = Rejected(s)
    PROVE  /\ socket' \in [Socket -> SocketRec]
           /\ \A t \in Socket : Later(t)
           /\ \A t \in Socket : socket[t].step \in Admitted =>
                                    (socket'[t].server <=> socket[t].server)
<1> DEFINE o == [socket[s] EXCEPT !.step = "error", !.server = FALSE]
<1>1. socket' = [socket EXCEPT ![s] = Forgotten(o)] /\ socket[s] \in SocketRec
  BY RecordsOf DEF Rejected, Types
<1>2. o \in SocketRec /\ o.of = socket[s].of /\ o.again = socket[s].again /\ o.step = "error"
  BY <1>1 DEF SocketRec
<1> HIDE DEF o
<1>3. /\ Forgotten(o) \in SocketRec
      /\ \/ Forgotten(o) = o
         \/ /\ Forgotten(o).of = None /\ ~Forgotten(o).again /\ Forgotten(o).step = "spent"
  BY <1>2, ForgottenState
<1>4. /\ socket' \in [Socket -> SocketRec] /\ socket'[s] = Forgotten(o)
      /\ \A t \in Socket \ {s} : socket'[t] = socket[t]
  BY <1>1, <1>3 DEF Types
<1>5. Later(s)
  BY <1>2, <1>3, <1>4 DEF Later, Unadmitted, Admitted
<1>6. \A t \in Socket \ {s} : Later(t)
  BY <1>4 DEF Later, PortForExtHost
<1>7. socket[s].step \notin Admitted
  BY DEF Unadmitted, Admitted
<1> QED
  BY <1>4, <1>5, <1>6, <1>7

\* Nothing is accepted while the port is looked for.
LEMMA FindPortStep == ASSUME IInv, NEW s \in Socket, FindPort(s) PROVE IInv'
<1>1. Types /\ HeldApart /\ AllPlaced /\ PortForExtHost /\ socket[s] \in SocketRec
  BY Parts, RecordsOf
<1> DEFINE o == [socket[s] EXCEPT !.step = "port"]
<1>2. socket' = [socket EXCEPT ![s] = o] /\ socket[s].step = "type" /\ socket[s].of \in ExtHost
  BY <1>1 DEF FindPort, Types
<1>3. o \in SocketRec /\ o.of = socket[s].of /\ o.again = socket[s].again /\ o.step = "port"
  BY <1>1 DEF SocketRec
<1> HIDE DEF o
<1>4. /\ socket' \in [Socket -> SocketRec] /\ socket'[s] = o
      /\ \A t \in Socket \ {s} : socket'[t] = socket[t]
  BY <1>1, <1>2, <1>3 DEF Types
<1>5. \A t \in Socket :
         /\ Later(t)
         /\ socket[t].step \in Admitted => (socket'[t].server <=> socket[t].server)
  BY <1>1, <1>2, <1>3, <1>4 DEF Later, PortForExtHost, Unadmitted, Admitted
<1>6. \A d \in Connection : Untouched(d)
  BY <1>1, ToldUntouched DEF FindPort
<1>7. HeldApart' /\ AllPlaced'
  BY <1>1, <1>5, <1>6, AllUntouched
<1>8. ServerMoves
  BY <1>1, <1>4, <1>5, ToldState DEF ServerMoves, FindPort, Types, EntryMoves
<1> QED
  BY <1>7, <1>8, ServerKeeps

\* The socket replaces the one held for c, which is closed; the timers are off.
LEMMA HandleManagementStep == ASSUME IInv, NEW s \in Socket, HandleManagement(s) PROVE IInv'
<1>0. PICK c \in Connection : c = socket[s].of
  BY DEF HandleManagement, Connection
<1> DEFINE S == {grace[c].socket} \ {None}
           ok == [CloseServer(S)[s] EXCEPT !.step = "ok"]
           g == Accepted(GraceShortened[c], s)
<1>1. /\ Types /\ HeldApart /\ AllPlaced /\ PortForExtHost
      /\ socket[s].step = "type" /\ c \in Management /\ socket[s].server
  BY <1>0, Parts DEF HandleManagement, Received
<1>2. socket[s].step \in Unadmitted /\ "ok" \in Admitted \ Unadmitted
  BY <1>1 DEF Unadmitted, Admitted
<1>3. CASE /\ grace' = GraceShortened /\ socket' = Rejected(s) /\ UNCHANGED entry
  <2>1. /\ socket' \in [Socket -> SocketRec]
        /\ \A t \in Socket : Later(t)
        /\ \A t \in Socket : socket[t].step \in Admitted =>
                                 (socket'[t].server <=> socket[t].server)
    BY <1>1, <1>2, <1>3, RejectedState
  <2>2. \A d \in Connection : Untouched(d)
    BY <1>1, <1>3, ToldUntouched DEF HandleManagement
  <2>3. HeldApart' /\ AllPlaced'
    BY <1>1, <2>1, <2>2, AllUntouched
  <2>4. ServerMoves
    BY <1>1, <1>3, <2>1, ToldState DEF ServerMoves, HandleManagement, Types, EntryMoves
  <2> QED
    BY <2>3, <2>4, ServerKeeps
<1>4. CASE /\ grace' = [GraceShortened EXCEPT ![c] = g]
           /\ socket' = [CloseServer(S) EXCEPT ![s] = ok]
           /\ entry' = [entry EXCEPT ![c] = "live"]
           /\ socket[s].again => Known(s)
  <2>1. \A d \in Connection : s \notin Held(d)
    BY <1>1, <1>2 DEF HeldApart, Unadmitted, Admitted
  <2>2. s \notin S /\ S \subseteq Held(c) /\ S \subseteq Socket
    BY <1>1, <2>1, HeldTypes DEF Held
  <2>3. CloseServer(S)[s] = socket[s] /\ DOMAIN CloseServer(S) = Socket
    BY <1>1, <2>2, CloseServerState DEF CloseServer
  <2>4. /\ ok \in SocketRec /\ ok.step = "ok" /\ ok.of = c
        /\ ok.again = socket[s].again /\ ok.server = socket[s].server
    BY <1>0, <1>1, <2>3, RecordsOf DEF SocketRec
  <2>5. /\ g \in GraceRec /\ g.socket = s /\ ~g.long /\ ~g.short /\ ~g.first
    BY DEF Accepted, NoGrace, GraceRec
  <2> HIDE DEF ok, g, S
  <2>6. /\ socket'[s] = ok /\ socket' \in [Socket -> SocketRec]
        /\ \A t \in Socket \ {s} : socket'[t] = CloseServer(S)[t]
    BY <1>1, <1>4, <2>3, <2>4, CloseServerType
  <2>7. \A t \in Socket : Later(t) /\ (t \notin S \cup {s} => socket'[t] = socket[t])
    <3>1. Later(s)
      BY <1>0, <1>1, <1>2, <2>4, <2>6 DEF Later
    <3>2. \A t \in Socket \ {s} : Later(t) /\ (t \notin S => socket'[t] = socket[t])
      BY <1>1, <2>6, CloseServerState DEF Later, PortForExtHost, Unadmitted, Admitted
    <3> QED
      BY <3>1, <3>2
  <2>8. /\ grace' \in [Connection -> GraceRec] /\ grace'[c] = g
        /\ \A d \in Connection \ {c} : grace'[d] = GraceShortened[d]
    BY <1>1, <1>4, <2>5, ToldState
  <2>9. /\ entry' \in [Connection -> {"never", "live", "gone"}] /\ entry'[c] = "live"
        /\ \A d \in Connection \ {c} : entry'[d] = entry[d]
    BY <1>1, <1>4 DEF Types
  <2>10. exthost' = ProcessesTold
    BY DEF HandleManagement
  <2>11. \A d \in Connection \ {c} : Untouched(d)
    BY <1>1, <2>8, <2>9, <2>10, ToldUntouched
  <2>12. Handles(exthost'[c].inbox) = HandedOver(c) /\ HandedOver(c)' = HandedOver(c)
    BY <1>1, <2>10, ToldState, HeldRecords
  <2>13. Held(c)' \subseteq Held(c) \cup {s}
    BY <1>1, <2>5, <2>8, <2>10, <2>12, ToldState DEF Held
  <2>14. Placed(c)'
    <3>1. Placed(c) /\ HandedOver(c) = {}
      BY <1>1 DEF AllPlaced, Placed
    <3>2. s # exthost[c].data /\ s \notin exthost[c].draining \cup HandedOver(c) /\ s # None
      BY <1>1, <2>1, NoneOutside DEF Held
    <3> QED
      BY <1>1, <2>5, <2>8, <2>9, <2>10, <2>12, <3>1, <3>2, ToldState DEF Placed
  <2>15. Clocked(c)'
    BY <1>1, <2>4, <2>5, <2>6, <2>8 DEF Clocked
  <2>16. HeldApart' /\ AllPlaced'
    <3>1. \A t \in Socket : socket[t].step \in Admitted /\ t \notin Held(c) =>
                                 (socket'[t].server <=> socket[t].server)
      BY <1>1, <1>2, <2>2, <2>7 DEF Unadmitted, Admitted
    <3>2. \A t \in {s} : socket[t].step \in Unadmitted /\ socket'[t].step \in Admitted
      BY <1>2, <2>4, <2>6
    <3> QED
      BY <1>1, <2>7, <2>11, <2>13, <2>14, <2>15, <3>1, <3>2, OneTouched
  <2>17. EntryMoves
    <3>1. socket'[s].step \notin Unadmitted /\ (socket[s].again => entry[c] = "live")
      BY <1>0, <1>2, <1>4, <2>4, <2>6 DEF Known
    <3> QED
      BY <1>0, <1>2, <2>9, <3>1 DEF EntryMoves
  <2>18. ServerMoves
    BY <1>1, <2>6, <2>7, <2>8, <2>9, <2>10, <2>17, ToldState
       DEF ServerMoves, HandleManagement, Types
  <2> QED
    BY <2>16, <2>18, ServerKeeps
<1> QED
  BY <1>0, <1>3, <1>4 DEF HandleManagement

\* No process holds no socket.
LEMMA NoProcessState ==
    /\ NoProcess \in ProcessRec /\ NoProcess.state = "none" /\ NoProcess.data = None
    /\ ~NoProcess.ready /\ NoProcess.draining = {} /\ NoProcess.inbox = <<>>
    /\ Handles(<<>>) = {} /\ Once(<<>>)
<1>1. <<>> \in Seq(Message) /\ {} \in SUBSET Socket
  OBVIOUS
<1>2. Handles(<<>>) = {} /\ Once(<<>>)
  BY DEF Handles, Once
<1> QED
  BY <1>1, <1>2 DEF NoProcess, ProcessRec

\* The socket is kept for the process or drained, after those that are held for c.
LEMMA HandleExtHostStep == ASSUME IInv, NEW s \in Socket, HandleExtHost(s) PROVE IInv'
<1>1. /\ Types /\ HeldApart /\ AllPlaced /\ PortForExtHost /\ FirstSocket
      /\ socket[s].step = "port"
  BY Parts DEF HandleExtHost
<1>2. socket[s].step \in Unadmitted /\ {"ok", "spent"} \subseteq Admitted \ Unadmitted
  BY <1>1 DEF Unadmitted, Admitted
<1>3. PICK c \in ExtHost : c = socket[s].of
  BY <1>1 DEF PortForExtHost
<1>4. c \in Connection /\ c \notin Management /\ c # None
  BY NoneOutside, RemoteAssumption DEF Connection, RemoteAssumption
<1>5. CASE socket' = Rejected(s) /\ UNCHANGED <<entry, exthost>>
  <2>1. /\ socket' \in [Socket -> SocketRec]
        /\ \A t \in Socket : Later(t)
        /\ \A t \in Socket : socket[t].step \in Admitted =>
                                 (socket'[t].server <=> socket[t].server)
    BY <1>1, <1>2, <1>5, RejectedState
  <2>2. OneOfAKind' /\ InstancesMade'
    BY DEF HandleExtHost, IInv, OneOfAKind, Active, WindowGone, InstancesMade
  <2>3. WindowMoves
    BY <1>1, <1>5, <2>1, <2>2 DEF HandleExtHost, Types, WindowMoves, Fresh
  <2> QED
    BY <2>3, WindowKeeps
<1>6. CASE /\ socket' = [socket EXCEPT ![s] = Forgotten([@ EXCEPT !.step = "ok"])]
           /\ entry' = [entry EXCEPT ![c] = "live"]
           /\ exthost' = [exthost EXCEPT ![c] =
                IF socket[s].again THEN TakesSocket(@, s)
                ELSE [NoProcess EXCEPT !.state = "env", !.data = s]]
           /\ socket[s].again => Known(s)
  <2> DEFINE o == [socket[s] EXCEPT !.step = "ok"]
             p == IF socket[s].again THEN TakesSocket(exthost[c], s)
                  ELSE [NoProcess EXCEPT !.state = "env", !.data = s]
  <2>1. \A d \in Connection : s \notin Held(d)
    BY <1>1, <1>2 DEF HeldApart, Unadmitted, Admitted
  <2>2. /\ o \in SocketRec /\ o.step = "ok" /\ o.of = c /\ o.again = socket[s].again
    BY <1>1, <1>3, RecordsOf DEF SocketRec
  <2>3. socket' = [socket EXCEPT ![s] = Forgotten(o)] /\ exthost' = [exthost EXCEPT ![c] = p]
    BY <1>1, <1>4, <1>6 DEF Types
  <2> HIDE DEF o
  <2>4. /\ Forgotten(o) \in SocketRec
        /\ \/ Forgotten(o) = o
           \/ Forgotten(o).of = None /\ ~Forgotten(o).again /\ Forgotten(o).step = "spent"
    BY <2>2, ForgottenState
  <2>5. /\ socket' \in [Socket -> SocketRec] /\ socket'[s] = Forgotten(o)
        /\ socket'[s].step \in Admitted \ Unadmitted
        /\ \A t \in Socket \ {s} : socket'[t] = socket[t]
    BY <1>1, <1>2, <2>2, <2>3, <2>4 DEF Types
  <2>6. Later(s)
    BY <1>1, <1>2, <1>3, <2>2, <2>4, <2>5 DEF Later
  <2>7. \A t \in Socket : Later(t)
    BY <1>1, <2>5, <2>6 DEF Later, PortForExtHost
  <2>8. /\ entry' \in [Connection -> {"never", "live", "gone"}] /\ entry'[c] = "live"
        /\ \A d \in Connection \ {c} : entry'[d] = entry[d]
    BY <1>1, <1>4, <1>6 DEF Types
  <2>9. EntryMoves
    <3>1. socket[s].again => entry[c] = "live"
      BY <1>3, <1>6 DEF Known
    <3> QED
      BY <1>2, <1>3, <2>5, <2>8, <3>1 DEF EntryMoves
  <2>10. exthost[c] \in ProcessRec /\ Placed(c) /\ Clocked(c)
    BY <1>1, <1>4, RecordsOf DEF AllPlaced
  <2>11. ~socket[s].again => exthost[c].state = "none" /\ grace[c].socket = None
    BY <1>1, <1>2, <1>3, <1>4, <2>10 DEF FirstSocket, Placed
  <2>12. /\ s \notin {grace[c].socket, exthost[c].data}
         /\ s \notin exthost[c].draining \cup HandedOver(c)
         /\ s # None
    BY <1>4, <2>1, NoneOutside DEF Held
  \* What the record becomes: the socket is kept or drained, or the first of all.
  <2> DEFINE Made ==
             /\ exthost' \in [Connection -> ProcessRec]
             /\ \A d \in Connection \ {c} : exthost'[d] = exthost[d]
             /\ Held(c)' \subseteq Held(c) \cup {s}
             /\ Placed(c)'
  <2>13. ASSUME socket[s].again, exthost[c].state \in {"none", "env"} PROVE Made
    <3>1. p = [exthost[c] EXCEPT !.data = s]
      BY <2>13 DEF TakesSocket
    <3>2. /\ p \in ProcessRec /\ p.state = exthost[c].state /\ p.data = s
          /\ p.ready = exthost[c].ready /\ p.draining = exthost[c].draining
          /\ p.inbox = exthost[c].inbox
      BY <2>10, <3>1 DEF ProcessRec
    <3> HIDE DEF p
    <3>3. /\ exthost' \in [Connection -> ProcessRec] /\ exthost'[c] = p
          /\ \A d \in Connection \ {c} : exthost'[d] = exthost[d]
      BY <1>1, <1>4, <2>3, <3>2 DEF Types
    <3>4. HandedOver(c)' = HandedOver(c)
      BY <3>2, <3>3, HeldRecords
    <3>5. /\ Held(c)' \subseteq Held(c) \cup {s}
          /\ grace'[c] = grace[c]
      BY <3>2, <3>3, <3>4 DEF Held, HandleExtHost
    <3>6. \A t \in HandedOver(c) : socket'[t].server
      BY <1>1, <1>4, <2>5, <2>10, <2>12, HeldTypes DEF Placed
    <3>7. Placed(c)'
      BY <2>8, <2>10, <2>12, <3>2, <3>3, <3>4, <3>5, <3>6 DEF Placed
    <3> QED
      BY <3>3, <3>5, <3>7
  <2>14. ASSUME socket[s].again, exthost[c].state \notin {"none", "env"} PROVE Made
    <3>1. p = [exthost[c] EXCEPT !.draining = @ \cup {s}]
      BY <2>14 DEF TakesSocket
    <3>2. /\ p \in ProcessRec /\ p.state = exthost[c].state /\ p.data = exthost[c].data
          /\ p.ready = exthost[c].ready /\ p.draining = exthost[c].draining \cup {s}
          /\ p.inbox = exthost[c].inbox
      <4>1. exthost[c].draining \cup {s} \in SUBSET Socket
        BY <2>10 DEF ProcessRec
      <4> QED
        BY <2>10, <3>1, <4>1 DEF ProcessRec
    <3> HIDE DEF p
    <3>3. /\ exthost' \in [Connection -> ProcessRec] /\ exthost'[c] = p
          /\ \A d \in Connection \ {c} : exthost'[d] = exthost[d]
      BY <1>1, <1>4, <2>3, <3>2 DEF Types
    <3>4. HandedOver(c)' = HandedOver(c)
      BY <3>2, <3>3, HeldRecords
    <3>5. /\ Held(c)' \subseteq Held(c) \cup {s}
          /\ grace'[c] = grace[c]
      BY <3>2, <3>3, <3>4 DEF Held, HandleExtHost
    <3>6. \A t \in HandedOver(c) : socket'[t].server
      BY <1>1, <1>4, <2>5, <2>10, <2>12, HeldTypes DEF Placed
    <3>7. Placed(c)'
      BY <2>8, <2>10, <2>12, <3>2, <3>3, <3>4, <3>5, <3>6 DEF Placed
    <3> QED
      BY <3>3, <3>5, <3>7
  <2>15. ASSUME ~socket[s].again PROVE Made
    <3>1. p = [NoProcess EXCEPT !.state = "env", !.data = s]
      BY <2>15
    <3>2. /\ p \in ProcessRec /\ p.state = "env" /\ p.data = s
          /\ ~p.ready /\ p.draining = {} /\ p.inbox = <<>>
      BY <3>1, NoProcessState DEF ProcessRec
    <3> HIDE DEF p
    <3>3. /\ exthost' \in [Connection -> ProcessRec] /\ exthost'[c] = p
          /\ \A d \in Connection \ {c} : exthost'[d] = exthost[d]
      BY <1>1, <1>4, <2>3, <3>2 DEF Types
    <3>4. Handles(<<>>) = {} /\ Once(<<>>)
      BY DEF Handles, Once
    <3>5. HandedOver(c)' = {}
      BY <3>2, <3>3, <3>4, HeldRecords
    <3>6. /\ Held(c)' \subseteq Held(c) \cup {s}
          /\ grace'[c] = grace[c]
      BY <3>2, <3>3, <3>5 DEF Held, HandleExtHost
    <3>7. Placed(c)'
      BY <2>8, <2>11, <2>12, <2>15, <3>2, <3>3, <3>4, <3>5, <3>6 DEF Placed
    <3> QED
      BY <3>3, <3>6, <3>7
  <2>16. Made
    BY <2>13, <2>14, <2>15
  <2> HIDE DEF p
  <2>17. Clocked(c)'
    <3>1. grace' = grace
      BY DEF HandleExtHost
    <3>2. grace[c].socket # None => socket'[grace[c].socket] = socket[grace[c].socket]
      BY <1>1, <1>4, <2>5, <2>12, HeldTypes
    <3> QED
      BY <2>10, <3>1, <3>2 DEF Clocked
  <2>18. \A d \in Connection \ {c} : Untouched(d)
    BY <1>1, <2>8, <2>16, SameUntouched DEF HandleExtHost
  <2>19. HeldApart' /\ AllPlaced'
    <3>1. \A t \in Socket : socket[t].step \in Admitted /\ t \notin Held(c) =>
                                 (socket'[t].server <=> socket[t].server)
      BY <1>1, <1>2, <2>5 DEF Unadmitted, Admitted
    <3>2. \A t \in {s} : socket[t].step \in Unadmitted /\ socket'[t].step \in Admitted
      BY <1>2, <2>5
    <3>3. Held(c)' \subseteq Held(c) \cup {s} /\ Placed(c)'
      BY <2>16
    <3>4. Types /\ HeldApart /\ AllPlaced
      BY <1>1
    <3> QED
      BY <1>4, <2>7, <2>17, <2>18, <3>1, <3>2, <3>3, <3>4, OneTouched
  <2>20. ServerMoves
    BY <1>1, <2>5, <2>7, <2>8, <2>9, <2>16 DEF ServerMoves, HandleExtHost, Types
  <2> QED
    BY <2>19, <2>20, ServerKeeps
<1> QED
  BY <1>3, <1>5, <1>6 DEF HandleExtHost
-----------------------------------------------------------------------------
(* The steps of one connection. *)

\* Placed(c) of records.
Well(c, g, p, e) ==
    /\ g.socket # None => g.socket # p.data /\ g.socket \notin p.draining \cup Handles(p.inbox)
    /\ p.data # None => p.data \notin p.draining \cup Handles(p.inbox)
    /\ p.draining \cap Handles(p.inbox) = {}
    /\ Once(p.inbox)
    /\ p.state \in {"env", "booting"} \/ p.ready => p.data \in Socket
    /\ p.ready => p.state = "listening"
    /\ g.socket # None => c \in Management \/ p.state = "listening"
    /\ c \in Management => Handles(p.inbox) = {}
    /\ e = "never" => p.state = "none"

\* Placed in terms of the records.
LEMMA WellPlaced ==
    ASSUME NEW c
    PROVE  /\ Placed(c) <=> /\ Well(c, grace[c], exthost[c], entry[c])
                            /\ \A s \in Handles(exthost[c].inbox) : socket[s].server
           /\ Placed(c)' <=> /\ Well(c, grace'[c], exthost'[c], entry'[c])
                             /\ \A s \in Handles(exthost'[c].inbox) : socket'[s].server
BY HeldRecords DEF Placed, Well

\* Closing no socket is nothing.
LEMMA NothingCloses == ASSUME Types PROVE CloseServer({}) = socket
BY DEF CloseServer, Types

\* The server or the process acts for c: what the new records hold was held for c, and
\* what is closed is not handed over.
LEMMA OneStep ==
    ASSUME IInv, NEW c \in Connection, NEW g \in GraceRec, NEW p \in ProcessRec,
           NEW S \in SUBSET Held(c),
           grace' = [grace EXCEPT ![c] = g], exthost' = [exthost EXCEPT ![c] = p],
           socket' = CloseServer(S),
           entry' = entry \/ (entry[c] = "live" /\ entry' = [entry EXCEPT ![c] = "gone"]),
           UNCHANGED <<client, instances, permanent>>, faults' \in 0 .. MaxFaults,
           HeldBy(g, p) \subseteq Held(c),
           Well(c, g, p, entry[c]),
           \A s \in Handles(p.inbox) : s \notin S /\ socket[s].server,
           g.socket # None => (g.long <=> ~socket'[g.socket].server) /\ ~g.first,
           g.short => g.long
    PROVE  IInv'
<1>1. Types /\ HeldApart /\ AllPlaced /\ PortForExtHost
  BY Parts
<1>2. /\ grace' \in [Connection -> GraceRec] /\ grace'[c] = g
      /\ exthost' \in [Connection -> ProcessRec] /\ exthost'[c] = p
      /\ \A d \in Connection \ {c} : grace'[d] = grace[d] /\ exthost'[d] = exthost[d]
  BY <1>1 DEF Types
<1>3. /\ entry' \in [Connection -> {"never", "live", "gone"}]
      /\ \A d \in Connection \ {c} : entry'[d] = entry[d]
      /\ entry'[c] = entry[c] \/ (entry'[c] = "gone" /\ entry[c] = "live")
      /\ EntryMoves
  BY <1>1 DEF Types, EntryMoves
<1>4. /\ socket' \in [Socket -> SocketRec]
      /\ \A s \in Socket : Later(s) /\ (s \notin S => socket'[s] = socket[s])
  BY <1>1, ClosesServer
<1>5. \A d \in Connection \ {c} : Untouched(d)
  BY <1>1, <1>2, <1>3, SameUntouched
<1>6. Held(c)' \subseteq Held(c)
  BY <1>2, HeldRecords
<1>7. Placed(c)'
  <2>1. Well(c, g, p, entry'[c])
    BY <1>3 DEF Well
  <2>2. \A s \in Handles(p.inbox) : socket'[s].server
    <3>1. p.inbox \in Seq(Message)
      BY DEF ProcessRec
    <3> QED
      BY <1>4, <3>1, HandlesType
  <2> QED
    BY <1>2, <2>1, <2>2, WellPlaced
<1>8. Clocked(c)'
  BY <1>2 DEF Clocked
<1>9. HeldApart' /\ AllPlaced'
  <2>1. \A s \in Socket : socket[s].step \in Admitted /\ s \notin Held(c) =>
                               (socket'[s].server <=> socket[s].server)
    BY <1>4
  <2>2. \A s \in Socket : Later(s)
    BY <1>4
  <2> DEFINE new == {}
  <2>3. /\ Held(c)' \subseteq Held(c) \cup new
        /\ \A s \in new : socket[s].step \in Unadmitted /\ socket'[s].step \in Admitted
    BY <1>6
  <2> HIDE DEF new
  <2> QED
    BY <1>1, <1>5, <1>7, <1>8, <2>1, <2>2, <2>3, OneTouched
<1>10. ServerMoves
  BY <1>2, <1>3, <1>4 DEF ServerMoves
<1> QED
  BY <1>9, <1>10, ServerKeeps

\* What is known of c before such a step.
LEMMA Before ==
    ASSUME IInv, NEW c \in Connection
    PROVE  /\ Types /\ grace[c] \in GraceRec /\ exthost[c] \in ProcessRec
           /\ Well(c, grace[c], exthost[c], entry[c])
           /\ \A s \in Handles(exthost[c].inbox) : socket[s].server /\ s \in Socket
           /\ Held(c) = HeldBy(grace[c], exthost[c])
           /\ Clocked(c)
           /\ grace = [grace EXCEPT ![c] = grace[c]]
           /\ exthost = [exthost EXCEPT ![c] = exthost[c]]
           /\ c \in ExtHost => c \notin Management
<1>1. Types /\ AllPlaced /\ grace[c] \in GraceRec /\ exthost[c] \in ProcessRec
  BY Parts, RecordsOf
<1>2. exthost[c].inbox \in Seq(Message)
  BY <1>1 DEF ProcessRec
<1>3. c \in ExtHost => c \notin Management
  BY RemoteAssumption DEF RemoteAssumption
<1> QED
  BY <1>1, <1>2, <1>3, WellPlaced, HandlesType, HeldRecords DEF AllPlaced, Types

\* The process is forked.
LEMMA ForksStep == ASSUME IInv, NEW c \in ExtHost, Forks(c) PROVE IInv'
<1> DEFINE g == grace[c]
           q == exthost[c]
           p == [q EXCEPT !.state = "booting"]
<1>1. /\ c \in Connection /\ c \notin Management
      /\ Types /\ g \in GraceRec /\ q \in ProcessRec /\ Well(c, g, q, entry[c])
      /\ \A s \in Handles(q.inbox) : socket[s].server
      /\ Held(c) = HeldBy(g, q) /\ Clocked(c)
      /\ grace = [grace EXCEPT ![c] = g]
  BY Before DEF Connection
<1>2. /\ exthost' = [exthost EXCEPT ![c] = p] /\ q.state = "env"
      /\ UNCHANGED <<client, instances, permanent, socket, entry, grace, faults>>
  BY <1>1 DEF Forks, Types
<1>3. /\ p \in ProcessRec /\ p.state = "booting" /\ p.data = q.data /\ p.ready = q.ready
      /\ p.draining = q.draining /\ p.inbox = q.inbox
  BY <1>1 DEF ProcessRec
<1> HIDE DEF g, q, p
<1>4. HeldBy(g, p) \subseteq Held(c)
  BY <1>1, <1>3 DEF HeldBy
<1>5. Well(c, g, p, entry[c])
  BY <1>1, <1>2, <1>3 DEF Well
<1>6. faults' \in 0 .. MaxFaults /\ grace' = [grace EXCEPT ![c] = g]
      /\ socket' = CloseServer({}) /\ {} \in SUBSET Held(c) /\ entry' = entry
  BY <1>1, <1>2, NothingCloses DEF Types
<1>7. /\ g.socket # None => (g.long <=> ~socket'[g.socket].server) /\ ~g.first
      /\ g.short => g.long
  BY <1>1, <1>2 DEF Clocked, g
<1>8. \A s \in Handles(p.inbox) : s \notin {} /\ socket[s].server
  BY <1>1, <1>3
<1> QED
  BY <1>1, <1>2, <1>3, <1>4, <1>5, <1>6, <1>7, <1>8, OneStep

\* READY: the kept socket joins those that are drained.
LEMMA SendsFirstSocketStep == ASSUME IInv, NEW c \in ExtHost, SendsFirstSocket(c) PROVE IInv'
<1> DEFINE g == grace[c]
           q == exthost[c]
           p == [q EXCEPT !.ready = FALSE, !.data = None, !.draining = @ \cup {q.data}]
<1>1. /\ c \in Connection /\ c \notin Management
      /\ Types /\ g \in GraceRec /\ q \in ProcessRec /\ Well(c, g, q, entry[c])
      /\ \A s \in Handles(q.inbox) : socket[s].server
      /\ Held(c) = HeldBy(g, q) /\ Clocked(c)
      /\ grace = [grace EXCEPT ![c] = g]
  BY Before DEF Connection
<1>2. /\ exthost' = [exthost EXCEPT ![c] = p] /\ q.ready
      /\ UNCHANGED <<client, instances, permanent, socket, entry, grace, faults>>
  BY <1>1 DEF SendsFirstSocket, Types
<1>3. q.data \in Socket /\ q.state = "listening" /\ q.data # None
  BY <1>1, <1>2, NoneOutside DEF Well
<1>4. /\ p \in ProcessRec /\ p.state = q.state /\ p.data = None /\ ~p.ready
      /\ p.draining = q.draining \cup {q.data} /\ p.inbox = q.inbox
  <2>1. q.draining \cup {q.data} \in SUBSET Socket
    BY <1>1, <1>3 DEF ProcessRec
  <2> QED
    BY <1>1, <2>1 DEF ProcessRec
<1> HIDE DEF g, q, p
<1>5. HeldBy(g, p) \subseteq Held(c)
  BY <1>1, <1>4 DEF HeldBy
<1>6. Well(c, g, p, entry[c])
  BY <1>1, <1>3, <1>4 DEF Well
<1>7. faults' \in 0 .. MaxFaults /\ grace' = [grace EXCEPT ![c] = g]
      /\ socket' = CloseServer({}) /\ {} \in SUBSET Held(c) /\ entry' = entry
  BY <1>1, <1>2, NothingCloses DEF Types
<1>8. /\ g.socket # None => (g.long <=> ~socket'[g.socket].server) /\ ~g.first
      /\ g.short => g.long
  BY <1>1, <1>2 DEF Clocked, g
<1>9. \A s \in Handles(p.inbox) : s \notin {} /\ socket[s].server
  BY <1>1, <1>4
<1> QED
  BY <1>1, <1>2, <1>4, <1>5, <1>6, <1>7, <1>8, <1>9, OneStep

\* A drained socket moves into the queue, unless it has been closed.
LEMMA DrainsStep ==
    ASSUME IInv, NEW c \in ExtHost, NEW s \in Socket, Drains(c, s) PROVE IInv'
<1> DEFINE g == grace[c]
           q == exthost[c]
           m == [type |-> "socket", handle |-> IF socket[s].server THEN s ELSE None]
           i == IF q.state \in {"none", "exited"} THEN q.inbox ELSE Append(q.inbox, m)
           p == [q EXCEPT !.draining = @ \ {s}, !.inbox = i]
<1>1. /\ c \in Connection /\ c \notin Management
      /\ Types /\ g \in GraceRec /\ q \in ProcessRec /\ Well(c, g, q, entry[c])
      /\ \A t \in Handles(q.inbox) : socket[t].server
      /\ Held(c) = HeldBy(g, q) /\ Clocked(c)
      /\ grace = [grace EXCEPT ![c] = g]
  BY Before DEF Connection
<1>2. /\ exthost' = [exthost EXCEPT ![c] = p] /\ s \in q.draining
      /\ UNCHANGED <<client, instances, permanent, socket, entry, grace, faults>>
  BY <1>1 DEF Drains, Types
<1>3. /\ m \in Message /\ m.handle \in {s, None} /\ (m.handle = s => socket[s].server)
      /\ s # None
  BY NoneOutside DEF Message
<1>4. q.inbox \in Seq(Message) /\ Once(q.inbox) /\ s \notin Handles(q.inbox)
  BY <1>1, <1>2 DEF ProcessRec, Well
<1> HIDE DEF m
<1>5. /\ i \in Seq(Message) /\ Once(i)
      /\ Handles(i) \subseteq Handles(q.inbox) \cup ({m.handle} \ {None})
  <2>1. m.handle \notin Handles(q.inbox)
    BY <1>3, <1>4 DEF Handles
  <2> QED
    BY <1>3, <1>4, <2>1, AppendHandles
<1> HIDE DEF i
<1>6. /\ p \in ProcessRec /\ p.state = q.state /\ p.data = q.data /\ p.ready = q.ready
      /\ p.draining = q.draining \ {s} /\ p.inbox = i
  <2>1. q.draining \ {s} \in SUBSET Socket
    BY <1>1 DEF ProcessRec
  <2> QED
    BY <1>1, <1>5, <2>1 DEF ProcessRec
<1> HIDE DEF g, q, p
<1>7. HeldBy(g, p) \subseteq Held(c)
  BY <1>1, <1>2, <1>3, <1>5, <1>6 DEF HeldBy
<1>8. Well(c, g, p, entry[c])
  BY <1>1, <1>2, <1>3, <1>5, <1>6 DEF Well
<1>9. \A t \in Handles(p.inbox) : t \notin {} /\ socket[t].server
  BY <1>1, <1>3, <1>5, <1>6
<1>10. faults' \in 0 .. MaxFaults /\ grace' = [grace EXCEPT ![c] = g]
       /\ socket' = CloseServer({}) /\ {} \in SUBSET Held(c) /\ entry' = entry
  BY <1>1, <1>2, NothingCloses DEF Types
<1>11. /\ g.socket # None => (g.long <=> ~socket'[g.socket].server) /\ ~g.first
       /\ g.short => g.long
  BY <1>1, <1>2 DEF Clocked, g
<1> QED
  BY <1>1, <1>2, <1>6, <1>7, <1>8, <1>9, <1>10, <1>11, OneStep

\* The process begins to listen; it has no socket yet.
LEMMA BootsStep == ASSUME IInv, NEW c \in ExtHost, Boots(c) PROVE IInv'
<1> DEFINE h == grace[c]
           q == exthost[c]
           g == [h EXCEPT !.first = TRUE]
           p == [q EXCEPT !.state = "listening", !.ready = TRUE]
<1>1. /\ c \in Connection /\ c \notin Management
      /\ Types /\ h \in GraceRec /\ q \in ProcessRec /\ Well(c, h, q, entry[c])
      /\ \A s \in Handles(q.inbox) : socket[s].server
      /\ Held(c) = HeldBy(h, q) /\ Clocked(c)
  BY Before DEF Connection
<1>2. /\ exthost' = [exthost EXCEPT ![c] = p] /\ grace' = [grace EXCEPT ![c] = g]
      /\ q.state = "booting"
      /\ UNCHANGED <<client, instances, permanent, socket, entry, faults>>
  BY <1>1 DEF Boots, Types
<1>3. /\ p \in ProcessRec /\ p.state = "listening" /\ p.data = q.data /\ p.ready
      /\ p.draining = q.draining /\ p.inbox = q.inbox
  BY <1>1 DEF ProcessRec
<1>4. /\ g \in GraceRec /\ g.socket = h.socket /\ g.long = h.long /\ g.short = h.short
  BY <1>1 DEF GraceRec
<1> HIDE DEF g, h, q, p
<1>5. h.socket = None
  BY <1>1, <1>2 DEF Well
<1>6. HeldBy(g, p) \subseteq Held(c)
  BY <1>1, <1>3, <1>4 DEF HeldBy
<1>7. Well(c, g, p, entry[c])
  BY <1>1, <1>2, <1>3, <1>4, <1>5 DEF Well
<1>8. faults' \in 0 .. MaxFaults
      /\ socket' = CloseServer({}) /\ {} \in SUBSET Held(c) /\ entry' = entry
  BY <1>1, <1>2, NothingCloses DEF Types
<1>9. g.socket = None /\ (g.short => g.long)
  BY <1>1, <1>4, <1>5 DEF Clocked, h
<1>10. \A s \in Handles(p.inbox) : s \notin {} /\ socket[s].server
  BY <1>1, <1>3
<1> QED
  BY <1>1, <1>2, <1>3, <1>4, <1>6, <1>7, <1>8, <1>9, <1>10, OneStep

\* The process takes a socket from the queue and closes the one it had: the timers are
\* off and the new socket is open, for what is handed over is open.
LEMMA ProcessReceivesStep == ASSUME IInv, NEW c \in ExtHost, ProcessReceives(c) PROVE IInv'
<1> DEFINE h == grace[c]
           q == exthost[c]
           m == Head(q.inbox)
           g == IF m = Reduce THEN Shortened(h)
                ELSE IF m.handle = None THEN h ELSE Accepted(h, m.handle)
           S == IF m.handle = None THEN {} ELSE {h.socket} \ {None}
           p == [q EXCEPT !.inbox = Tail(@)]
<1>1. /\ c \in Connection /\ c \notin Management
      /\ Types /\ h \in GraceRec /\ q \in ProcessRec /\ Well(c, h, q, entry[c])
      /\ \A s \in Handles(q.inbox) : socket[s].server /\ s \in Socket
      /\ Held(c) = HeldBy(h, q) /\ Clocked(c)
  BY Before DEF Connection
<1>2. /\ exthost' = [exthost EXCEPT ![c] = p] /\ grace' = [grace EXCEPT ![c] = g]
      /\ socket' = CloseServer(S) /\ q.state = "listening" /\ q.inbox # <<>>
      /\ UNCHANGED <<client, instances, permanent, entry, faults>>
  BY <1>1 DEF ProcessReceives, Types
<1>3. q.inbox \in Seq(Message) /\ Once(q.inbox)
  BY <1>1 DEF ProcessRec, Well
<1>4. /\ Tail(q.inbox) \in Seq(Message) /\ m \in Message /\ Once(Tail(q.inbox))
      /\ Handles(Tail(q.inbox)) = Handles(q.inbox) \ {m.handle}
      /\ m.handle # None => m.handle \in Handles(q.inbox)
  BY <1>2, <1>3, TailHandles
<1> HIDE DEF m
<1>5. /\ p \in ProcessRec /\ p.state = "listening" /\ p.data = q.data /\ p.ready = q.ready
      /\ p.draining = q.draining /\ p.inbox = Tail(q.inbox)
  BY <1>1, <1>2, <1>4 DEF ProcessRec
<1>6. /\ g \in GraceRec
      /\ m.handle # None => g.socket = m.handle /\ ~g.long /\ ~g.short /\ ~g.first
      /\ m.handle = None => /\ g.socket = h.socket /\ (g.long <=> h.long)
                            /\ (g.first <=> h.first) /\ (g.short => h.short \/ h.long)
  <2>1. m = Reduce => m.handle = None
    BY DEF Reduce
  <2>2. m.handle # None => m.handle \in Socket
    BY <1>4 DEF Message
  <2> QED
    BY <1>1, <2>1, <2>2, ShortenedState DEF Accepted, NoGrace, GraceRec
<1> HIDE DEF g, h, q, p
<1>7. HeldBy(g, p) \subseteq Held(c)
  BY <1>1, <1>4, <1>5, <1>6 DEF HeldBy
<1>8. Well(c, g, p, entry[c])
  BY <1>1, <1>2, <1>4, <1>5, <1>6 DEF Well
<1>9. faults' \in 0 .. MaxFaults /\ S \in SUBSET Held(c) /\ entry' = entry
  BY <1>1, <1>2 DEF Types, HeldBy
<1>10. \A s \in Handles(p.inbox) : s \notin S /\ socket[s].server
  BY <1>1, <1>4, <1>5 DEF Well
<1>11. g.socket # None => (g.long <=> ~socket'[g.socket].server) /\ ~g.first
  <2>1. CASE m.handle = None
    BY <1>1, <1>2, <1>6, <2>1, NothingCloses DEF Clocked, h
  <2>2. CASE m.handle # None
    <3>1. m.handle \in Socket /\ socket[m.handle].server /\ m.handle \notin S
      BY <1>1, <1>4, <2>2 DEF Well
    <3> HIDE DEF S
    <3>2. socket'[m.handle] = socket[m.handle]
      BY <1>1, <1>2, <3>1, CloseServerState
    <3> QED
      BY <1>6, <2>2, <3>1, <3>2
  <2> QED
    BY <2>1, <2>2
<1>12. g.short => g.long
  BY <1>1, <1>6 DEF Clocked, h
<1> HIDE DEF S
<1> QED
  BY <1>1, <1>2, <1>5, <1>6, <1>7, <1>8, <1>9, <1>10, <1>11, <1>12, OneStep

\* The process exits and the system closes what it had or was on its way to it.
LEMMA ProcessExitsStep == ASSUME IInv, NEW c \in ExtHost, ProcessExits(c) PROVE IInv'
<1> DEFINE h == grace[c]
           q == exthost[c]
           S == ({h.socket} \cup HandedOver(c)) \ {None}
           p == [q EXCEPT !.state = "exited", !.inbox = <<>>, !.ready = FALSE]
<1>1. /\ c \in Connection /\ c \notin Management
      /\ Types /\ h \in GraceRec /\ q \in ProcessRec /\ Well(c, h, q, entry[c])
      /\ Held(c) = HeldBy(h, q)
  BY Before DEF Connection
<1>2. /\ exthost' = [exthost EXCEPT ![c] = p] /\ grace' = [grace EXCEPT ![c] = NoGrace]
      /\ socket' = CloseServer(S) /\ q.state \in {"booting", "listening"}
      /\ Fault \/ UNCHANGED faults
      /\ UNCHANGED <<client, instances, permanent, entry>>
  BY <1>1 DEF ProcessExits, Types
<1>3. S \in SUBSET Held(c)
  BY DEF Held
<1>4. /\ p \in ProcessRec /\ p.state = "exited" /\ p.data = q.data /\ ~p.ready
      /\ p.draining = q.draining /\ p.inbox = <<>>
  <2>1. <<>> \in Seq(Message)
    OBVIOUS
  <2> QED
    BY <1>1, <2>1 DEF ProcessRec
<1>5. NoGrace \in GraceRec /\ NoGrace.socket = None /\ ~NoGrace.short
  BY DEF NoGrace, GraceRec
<1> HIDE DEF h, q, p, S
<1>6. HeldBy(NoGrace, p) \subseteq Held(c)
  BY <1>1, <1>4, <1>5, NoProcessState DEF HeldBy
<1>7. Well(c, NoGrace, p, entry[c])
  BY <1>1, <1>2, <1>4, <1>5, NoProcessState DEF Well
<1>8. faults' \in 0 .. MaxFaults /\ entry' = entry
  BY <1>1, <1>2, FaultType
<1>9. \A s \in Handles(p.inbox) : s \notin S /\ socket[s].server
  BY <1>4, NoProcessState
<1> QED
  BY <1>1, <1>2, <1>3, <1>4, <1>5, <1>6, <1>7, <1>8, <1>9, OneStep

\* _cleanResources of an extension host connection: its process had a socket no more.
LEMMA ExitSeenStep == ASSUME IInv, NEW c \in ExtHost, ExitSeen(c) PROVE IInv'
<1> DEFINE g == grace[c]
           q == exthost[c]
           S == {q.data} \ {None}
           p == [NoProcess EXCEPT !.draining = q.draining]
<1>1. /\ c \in Connection /\ c \notin Management
      /\ Types /\ g \in GraceRec /\ q \in ProcessRec /\ Well(c, g, q, entry[c])
      /\ Held(c) = HeldBy(g, q) /\ Clocked(c)
      /\ grace = [grace EXCEPT ![c] = g]
  BY Before DEF Connection
<1>2. /\ exthost' = [exthost EXCEPT ![c] = p] /\ grace' = grace
      /\ socket' = CloseServer(S) /\ q.state = "exited" /\ entry[c] = "live"
      /\ entry' = [entry EXCEPT ![c] = "gone"]
      /\ UNCHANGED <<client, instances, permanent, faults>>
  BY <1>1 DEF ExitSeen, Types
<1>3. S \in SUBSET Held(c)
  BY DEF Held
<1>4. /\ p \in ProcessRec /\ p.state = "none" /\ p.data = None /\ ~p.ready
      /\ p.draining = q.draining /\ p.inbox = <<>>
  BY <1>1, NoProcessState DEF ProcessRec
<1> HIDE DEF q, p, S, g
<1>5. g.socket = None
  BY <1>1, <1>2 DEF Well
<1>6. HeldBy(g, p) \subseteq Held(c)
  BY <1>1, <1>4, <1>5, NoProcessState DEF HeldBy
<1>7. Well(c, g, p, entry[c])
  BY <1>1, <1>2, <1>4, <1>5, NoProcessState DEF Well
<1>8. faults' \in 0 .. MaxFaults
  BY <1>1, <1>2 DEF Types
<1>9. \A s \in Handles(p.inbox) : s \notin S /\ socket[s].server
  BY <1>4, NoProcessState
<1>10. g.short => g.long
  BY <1>1 DEF Clocked, g
<1> QED
  BY <1>1, <1>2, <1>3, <1>4, <1>5, <1>6, <1>7, <1>8, <1>9, <1>10, OneStep

\* _cleanResources of a management connection.
LEMMA ManagementEndsStep ==
    ASSUME IInv, NEW c \in Connection, ManagementEnds(c) PROVE IInv'
<1> DEFINE h == grace[c]
           p == exthost[c]
           S == {h.socket} \ {None}
<1>1. /\ Types /\ h \in GraceRec /\ p \in ProcessRec /\ Well(c, h, p, entry[c])
      /\ \A s \in Handles(p.inbox) : socket[s].server
      /\ Held(c) = HeldBy(h, p)
      /\ exthost = [exthost EXCEPT ![c] = p]
  BY Before
<1>2. /\ exthost' = exthost /\ grace' = [grace EXCEPT ![c] = NoGrace]
      /\ entry[c] = "live" /\ entry' = [entry EXCEPT ![c] = "gone"]
      /\ UNCHANGED <<client, instances, permanent, faults>>
  BY DEF ManagementEnds, CleansUp
<1>3. socket' = CloseServer(S)
  BY NoneOutside DEF ManagementEnds, CleansUp, CloseServer
<1>4. S \in SUBSET Held(c)
  BY DEF Held
<1>5. NoGrace \in GraceRec /\ NoGrace.socket = None /\ ~NoGrace.short
  BY DEF NoGrace, GraceRec
<1> HIDE DEF h, p
<1>6. HeldBy(NoGrace, p) \subseteq Held(c)
  BY <1>1, <1>5 DEF HeldBy
<1>7. Well(c, NoGrace, p, entry[c])
  BY <1>1, <1>5 DEF Well
<1>8. faults' \in 0 .. MaxFaults
  BY <1>1, <1>2 DEF Types
<1>9. \A s \in Handles(p.inbox) : s \notin S /\ socket[s].server
  BY <1>1 DEF Well
<1> HIDE DEF S
<1> QED
  BY <1>1, <1>2, <1>3, <1>4, <1>5, <1>6, <1>7, <1>8, <1>9, OneStep

\* The end of a socket is seen: whoever listens to it starts the long timer. A socket on
\* its way to a process is read by nobody, so it stays open.
LEMMA SocketEndsStep == ASSUME IInv, NEW s \in Socket, SocketEnds(s) PROVE IInv'
<1> DEFINE o == [socket[s] EXCEPT !.server = FALSE]
<1>1. /\ Types /\ HeldApart /\ AllPlaced /\ PortForExtHost
      /\ socket[s] \in SocketRec /\ socket[s].server
  BY Parts, RecordsOf DEF SocketEnds
<1>2. /\ socket' = [socket EXCEPT ![s] = Forgotten(o)]
      /\ UNCHANGED <<client, instances, permanent, entry, exthost, faults>>
  BY <1>1 DEF SocketEnds, Types
<1>3. /\ o \in SocketRec /\ o.of = socket[s].of /\ o.again = socket[s].again
      /\ o.step = socket[s].step /\ ~o.server
  BY <1>1 DEF SocketRec
<1> HIDE DEF o
<1>4. /\ socket' \in [Socket -> SocketRec] /\ socket'[s] = Forgotten(o)
      /\ ~socket'[s].server
      /\ \A t \in Socket \ {s} : socket'[t] = socket[t]
  BY <1>1, <1>2, <1>3, ForgottenState DEF Types
<1>5. Later(s)
  BY <1>1, <1>3, <1>4, ForgottenState DEF Later, PortForExtHost, Unadmitted, Admitted
<1>6. \A t \in Socket : Later(t)
  BY <1>1, <1>4, <1>5 DEF Later, PortForExtHost
<1>7. ASSUME NEW d \in Connection
      PROVE  /\ grace'[d] \in GraceRec /\ grace'[d].socket = grace[d].socket
             /\ grace'[d].long <=> (grace[d].long \/ grace[d].socket = s)
             /\ grace'[d].short <=> grace[d].short
             /\ grace'[d].first <=> grace[d].first
  <2>1. grace[d] \in GraceRec
    BY <1>1, RecordsOf
  <2>2. grace'[d] = IF grace[d].socket = s THEN [grace[d] EXCEPT !.long = TRUE] ELSE grace[d]
    BY DEF SocketEnds, Lost
  <2>3. LET g == [grace[d] EXCEPT !.long = TRUE] IN
        /\ g \in GraceRec /\ g.socket = grace[d].socket /\ g.long
        /\ g.short = grace[d].short /\ g.first = grace[d].first
    BY <2>1 DEF GraceRec
  <2> QED
    BY <2>1, <2>2, <2>3
<1>8. grace' \in [Connection -> GraceRec]
  BY <1>7 DEF SocketEnds
<1>9. ASSUME NEW d \in Connection
      PROVE  HandedOver(d)' = HandedOver(d) /\ Held(d)' = Held(d) /\ s \notin HandedOver(d)
  <2>1. HandedOver(d)' = HandedOver(d)
    BY <1>2, HeldRecords
  <2>2. d \in Management => HandedOver(d) = {}
    BY <1>1 DEF AllPlaced, Placed
  <2> QED
    BY <1>2, <1>7, <2>1, <2>2 DEF Held, SocketEnds, Connection
<1>10. HeldApart'
  BY <1>1, <1>6, <1>9 DEF HeldApart, Later
<1>11. ASSUME NEW d \in Connection PROVE Placed(d)' /\ Clocked(d)'
  <2>1. Placed(d) /\ Clocked(d) /\ HandedOver(d) \subseteq Socket
        /\ grace[d].socket \in Socket \cup {None}
    BY <1>1, HeldTypes DEF AllPlaced
  <2>2. \A t \in HandedOver(d) : socket'[t].server
    BY <1>4, <1>9, <2>1 DEF Placed
  <2>3. Placed(d)'
    BY <1>2, <1>7, <1>9, <2>1, <2>2 DEF Placed
  <2>4. Clocked(d)'
    <3>1. CASE grace[d].socket = s
      BY <1>4, <1>7, <2>1, <3>1 DEF Clocked
    <3>2. CASE grace[d].socket # s
      BY <1>4, <1>7, <2>1, <3>2 DEF Clocked
    <3> QED
      BY <3>1, <3>2
  <2> QED
    BY <2>3, <2>4
<1>12. HeldApart' /\ AllPlaced'
  BY <1>10, <1>11 DEF AllPlaced
<1>13. ServerMoves
  BY <1>1, <1>2, <1>4, <1>6, <1>8 DEF ServerMoves, Types, EntryMoves
<1> QED
  BY <1>12, <1>13, ServerKeeps

\* A server that restarts holds nothing.
LEMMA ServerRestartsStep == ASSUME IInv, ServerRestarts PROVE IInv'
<1> DEFINE S == {s \in Socket : socket[s].server \/ socket[s].step = "port"}
<1>1. /\ Types /\ PortForExtHost
      /\ UNCHANGED <<client, instances, permanent>>
      /\ socket' = CloseServer(S)
      /\ entry' = [c \in Connection |-> "never"]
      /\ grace' = [c \in Connection |-> NoGrace]
      /\ exthost' = [c \in Connection |-> NoProcess]
      /\ faults' \in 0 .. MaxFaults
  BY Parts, FaultType DEF ServerRestarts
<1>2. /\ NoGrace \in GraceRec /\ NoGrace.socket = None /\ ~NoGrace.short
  BY DEF NoGrace, GraceRec
<1>3. /\ socket' \in [Socket -> SocketRec] /\ \A s \in Socket : Later(s)
  BY <1>1, ClosesServer
<1> HIDE DEF S
<1>4. ASSUME NEW c \in Connection
      PROVE  HandedOver(c)' = {} /\ Held(c)' = {}
  <2>1. grace'[c] = NoGrace /\ exthost'[c] = NoProcess
    BY <1>1
  <2> QED
    BY <1>2, <2>1, NoProcessState, HeldRecords DEF HeldBy
<1>5. HeldApart'
  BY <1>4 DEF HeldApart
<1>6. ASSUME NEW c \in Connection PROVE Placed(c)' /\ Clocked(c)'
  <2>1. grace'[c] = NoGrace /\ exthost'[c] = NoProcess
    BY <1>1
  <2> QED
    BY <1>2, <1>4, <2>1, NoProcessState DEF Placed, Clocked
<1>7. ServerMoves
  <2>1. EntryMoves
    BY <1>1 DEF EntryMoves
  <2> QED
    BY <1>1, <1>2, <1>3, <2>1, NoProcessState DEF ServerMoves
<1> QED
  BY <1>5, <1>6, <1>7, ServerKeeps DEF AllPlaced
-----------------------------------------------------------------------------
(* The theorems. *)

\* The invariant holds at first,
LEMMA Initially == ASSUME Init PROVE IInv
<1>1. MaxAttempts \in Nat /\ MaxFaults \in Nat
  BY RemoteAssumption DEF RemoteAssumption
<1>2. NewClient \in ClientRec /\ NewClient.phase = "none" /\ ~NewClient.again
  BY <1>1 DEF NewClient, ClientRec
<1>3. NoGrace \in GraceRec /\ NoGrace.socket = None /\ ~NoGrace.short
  BY DEF NoGrace, GraceRec
<1>4. Types
  <2>1. <<>> \in Seq(Connection) /\ 0 \in 0 .. MaxFaults
    BY <1>1
  <2> QED
    BY <1>2, <1>3, <2>1, NoSocketState, NoProcessState DEF Init, Types
<1>5. OneOfAKind /\ InstancesMade
  BY <1>2 DEF Init, OneOfAKind, Active, InstancesMade
<1>6. FirstSocket /\ PortForExtHost
  BY NoneOutside, NoSocketState DEF Init, FirstSocket, PortForExtHost
<1>7. ASSUME NEW c \in Connection
      PROVE  HandedOver(c) = {} /\ Held(c) = {}
  <2>1. grace[c] = NoGrace /\ exthost[c] = NoProcess
    BY DEF Init
  <2> QED
    BY <1>3, <2>1, NoProcessState, HeldRecords DEF HeldBy
<1>8. HeldApart
  BY <1>7 DEF HeldApart
<1>9. ASSUME NEW c \in Connection PROVE Placed(c) /\ Clocked(c)
  <2>1. grace[c] = NoGrace /\ exthost[c] = NoProcess /\ entry[c] = "never"
    BY DEF Init
  <2> QED
    BY <1>3, <1>7, <2>1, NoProcessState DEF Placed, Clocked
<1> QED
  BY <1>4, <1>5, <1>6, <1>8, <1>9 DEF IInv, AllPlaced

\* and every step keeps it.
LEMMA Inductive == ASSUME IInv, [Next]_vars PROVE IInv'
<1> ExtHost \subseteq Connection
  BY DEF Connection
<1>1. ASSUME NEW c \in Connection,
             \/ Begin(c) \/ ConnectFails(c) \/ SocketOpens(c) \/ HandshakeTimesOut(c)
             \/ HandshakeRefused(c) \/ HandshakeDone(c) \/ LosesSocket(c) \/ WaitEnds(c)
             \/ Disconnects(c) \/ Disposes(c) \/ ManagementEnds(c)
      PROVE  IInv'
  BY <1>1, BeginStep, ConnectFailsStep, SocketOpensStep, HandshakeTimesOutStep,
     HandshakeRefusedStep, HandshakeDoneStep, LosesSocketStep, WaitEndsStep,
     DisconnectsStep, DisposesStep, ManagementEndsStep
<1>2. ASSUME NEW c \in ExtHost,
             \/ Forks(c) \/ SendsFirstSocket(c) \/ Boots(c) \/ ProcessReceives(c)
             \/ ProcessExits(c) \/ ExitSeen(c)
             \/ \E s \in Socket : Drains(c, s)
      PROVE  IInv'
  BY <1>2, ForksStep, SendsFirstSocketStep, BootsStep, ProcessReceivesStep,
     ProcessExitsStep, ExitSeenStep, DrainsStep
<1>3. ASSUME NEW s \in Socket,
             \/ Authenticates(s) \/ HandleManagement(s) \/ FindPort(s) \/ HandleExtHost(s)
             \/ SocketEnds(s) \/ SocketCut(s)
      PROVE  IInv'
  BY <1>3, AuthenticatesStep, HandleManagementStep, FindPortStep, HandleExtHostStep,
     SocketEndsStep, SocketCutStep
<1>4. CASE WindowCloses \/ OtherWindowConnects \/ ServerRestarts
  BY <1>4, WindowClosesStep, OtherWindowConnectsStep, ServerRestartsStep
<1>5. CASE UNCHANGED vars
  BY <1>5, Unchanged
<1> QED
  BY <1>1, <1>2, <1>3, <1>4, <1>5 DEF Next

\* In every behaviour, however many tokens and sockets there are and whatever fails,
\* the inductive invariant holds: each socket the server's side holds is held for one
\* connection and in one place, and the server knows a connection only from the
\* acceptance of its first socket on.
THEOREM Invariance == Spec => []IInv
<1>1. Init => IInv
  BY Initially
<1>2. IInv /\ [Next]_vars => IInv'
  BY Inductive
<1> QED
  BY <1>1, <1>2, PTL DEF Spec

\* TypeOK: the tables of the window, the server and the processes are typed, and
\* _instances has at most one management and one extension host connection.
THEOREM TypeCorrect == Spec => []TypeOK
<1>1. ASSUME IInv PROVE TypeOK
  <2>1. Types
    BY <1>1 DEF IInv
  <2>2. \A c \in Connection : HandedOver(c) \subseteq Socket
    BY <2>1, HeldTypes
  <2>3. ToSet(instances) \subseteq Connection
    BY <2>1 DEF Types, ToSet
  <2>4. Len(instances) <= 2
    <3>1. instances \in Seq(Connection)
      BY <2>1 DEF Types
    <3>2. SUFFICES ASSUME Len(instances) >= 3 PROVE FALSE
      BY <3>1
    <3>3. 1 \in DOMAIN instances /\ 2 \in DOMAIN instances /\ 3 \in DOMAIN instances
      BY <3>1, <3>2
    <3>4. \A i \in DOMAIN instances : Kin(instances[i]) \in {Management, ExtHost}
      BY DEF Kin
    <3>5. \A i, j \in DOMAIN instances : Kin(instances[i]) = Kin(instances[j]) => i = j
      BY <1>1 DEF IInv, InstancesMade
    <3>6. 1 # 2 /\ 1 # 3 /\ 2 # 3
      OBVIOUS
    <3> QED
      BY <3>3, <3>4, <3>5, <3>6
  <2>5. ASSUME NEW c \in Connection
        PROVE  /\ exthost[c].state \in {"none", "env", "booting", "listening", "exited"}
               /\ exthost[c].data \in Socket \cup {None}
               /\ exthost[c].ready \in BOOLEAN
               /\ exthost[c].draining \subseteq Socket
    BY <2>1, RecordsOf DEF ProcessRec
  <2> QED
    BY <2>1, <2>2, <2>3, <2>4, <2>5
       DEF Types, TypeOK, ClientRec, SocketRec, GraceRec
<1> QED
  BY <1>1, Invariance, PTL

\* GraceWhileLost: ManagementConnection and the process run disconnectRunner1 exactly
\* while the socket of the protocol they keep is closed, and disconnectRunner2 only then.
THEOREM OnTheClock == Spec => []GraceWhileLost
<1>1. IInv => GraceWhileLost
  BY DEF IInv, AllPlaced, Clocked, GraceWhileLost
<1> QED
  BY <1>1, Invariance, PTL

\* A token is put into the tables with its first socket, or by one the server knew.
LEMMA NotRevived ==
    ASSUME IInv, [Next]_vars, NEW c \in Connection, entry[c] = "gone"
    PROVE  entry'[c] # "live"
<1> DEFINE Goal == entry'[c] # "live"
<1>1. Types /\ FirstSocket
  BY Parts
<1>2. ASSUME NEW s \in Socket, socket[s].step \in Unadmitted, socket[s].of \in Connection,
             socket[s].again => Known(s), entry' = [entry EXCEPT ![socket[s].of] = "live"]
      PROVE  Goal
  <2>1. ~socket[s].again => entry[socket[s].of] = "never"
    BY <1>1, <1>2, NoneOutside DEF FirstSocket
  <2>2. socket[s].of # c
    BY <1>2, <2>1 DEF Known
  <2> QED
    BY <1>1, <1>2, <2>2 DEF Types
<1>3. CASE UNCHANGED entry
  BY <1>3
<1>4. ASSUME NEW d, entry' = [entry EXCEPT ![d] = "gone"] PROVE Goal
  BY <1>1, <1>4 DEF Types
<1>5. ASSUME NEW d \in Connection,
             \/ Begin(d) \/ ConnectFails(d) \/ SocketOpens(d) \/ HandshakeTimesOut(d)
             \/ HandshakeRefused(d) \/ HandshakeDone(d) \/ LosesSocket(d) \/ WaitEnds(d)
             \/ Disconnects(d) \/ Disposes(d) \/ ManagementEnds(d)
      PROVE  Goal
  <2>1. UNCHANGED entry \/ entry' = [entry EXCEPT ![d] = "gone"]
    BY <1>5 DEF Begin, ConnectFails, SocketOpens, HandshakeTimesOut, HandshakeRefused,
                HandshakeDone, LosesSocket, WaitEnds, Disconnects, Disposes,
                ManagementEnds, CleansUp
  <2> QED
    BY <1>3, <1>4, <2>1
<1>6. ASSUME NEW d \in ExtHost,
             \/ Forks(d) \/ SendsFirstSocket(d) \/ Boots(d) \/ ProcessReceives(d)
             \/ ProcessExits(d) \/ ExitSeen(d)
             \/ \E s \in Socket : Drains(d, s)
      PROVE  Goal
  <2>1. UNCHANGED entry \/ entry' = [entry EXCEPT ![d] = "gone"]
    BY <1>6 DEF Forks, SendsFirstSocket, Boots, ProcessReceives, ProcessExits, ExitSeen, Drains
  <2> QED
    BY <1>3, <1>4, <2>1
<1>7. ASSUME NEW s \in Socket, HandleManagement(s) PROVE Goal
  <2>1. socket[s].step \in Unadmitted /\ socket[s].of \in Connection
    BY <1>7 DEF HandleManagement, Unadmitted, Connection
  <2>2. UNCHANGED entry \/ ((socket[s].again => Known(s))
                            /\ entry' = [entry EXCEPT ![socket[s].of] = "live"])
    BY <1>7 DEF HandleManagement
  <2> QED
    BY <1>2, <1>3, <2>1, <2>2
<1>8. ASSUME NEW s \in Socket, HandleExtHost(s) PROVE Goal
  <2>1. socket[s].step \in Unadmitted /\ socket[s].of \in Connection
    BY <1>8 DEF HandleExtHost, Unadmitted, Connection, IInv, PortForExtHost
  <2>2. UNCHANGED entry \/ ((socket[s].again => Known(s))
                            /\ entry' = [entry EXCEPT ![socket[s].of] = "live"])
    BY <1>8 DEF HandleExtHost
  <2> QED
    BY <1>2, <1>3, <2>1, <2>2
<1>9. ASSUME NEW s \in Socket,
             Authenticates(s) \/ FindPort(s) \/ SocketEnds(s) \/ SocketCut(s)
      PROVE  Goal
  BY <1>3, <1>9 DEF Authenticates, FindPort, SocketEnds, SocketCut
<1>10. CASE WindowCloses \/ OtherWindowConnects \/ ServerRestarts
  BY <1>3, <1>10 DEF WindowCloses, OtherWindowConnects, ServerRestarts
<1>11. CASE UNCHANGED vars
  BY <1>3, <1>11 DEF vars
<1> QED
  BY <1>5, <1>6, <1>7, <1>8, <1>9, <1>10, <1>11 DEF Next

\* NeverRevived: a token that was cleaned up is never accepted again, since only a
\* first socket makes a connection and a first socket waiting to be accepted means that
\* the server has never known the token.
THEOREM NoneRevived == Spec => NeverRevived
<1>1. IInv /\ [Next]_vars =>
          [\A c \in Connection : entry[c] = "gone" => entry'[c] # "live"]_vars
  BY NotRevived
<1> QED
  BY <1>1, Invariance, PTL DEF Spec, NeverRevived
=============================================================================
