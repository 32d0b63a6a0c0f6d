---------------------- MODULE PersistentProtocolProofs ----------------------
(***************************************************************************)
(* The safety of PersistentProtocol for every set of payloads, any number   *)
(* of messages, sockets and faults, with and without a hand-over, and even  *)
(* on a wire that loses messages.                                           *)
(***************************************************************************)
EXTENDS PersistentProtocol, SequenceTheorems, TLAPS

-----------------------------------------------------------------------------
(* The inductive invariant *)

\* The messages e may have under way: their acknowledgement is true, and a
\* regular one carries what was sent under its id.
Truthful(e) ==
    {m \in Message :
        /\ m.ack <= inMsgId[e]
        /\ m.type = "Regular" => /\ m.id \in 1..outMsgId[e]
                                 /\ m.data = sent[e][m.id]}

\* The counters are the lengths of the histories.
Counted ==
    \A e \in End : outMsgId[e] = Len(sent[e]) /\ inMsgId[e] = Len(recv[e])

CoreType ==
    /\ sent \in [End -> Seq(Data)] /\ recv \in [End -> Seq(Data)]
    /\ outMsgId \in [End -> Nat] /\ outAckId \in [End -> Nat]
    /\ inMsgId \in [End -> Nat]

QueueOK ==
    /\ unack \in [End -> Seq(Message)]
    /\ \A e \in End : unack[e] \in Seq(Truthful(e))

TrafficOK ==
    /\ buf \in [End -> Seq(Message)]
    /\ wire \in [End -> [Socket -> Seq(Message)]]
    /\ \A e \in End : buf[e] \in Seq(Truthful(e))
    /\ \A e \in End, n \in Socket : wire[Peer(e)][n] \in Seq(Truthful(e))

RestType ==
    /\ inAckId \in [End -> Nat]
    /\ ackTimer \in [End -> {"off", "due", "early"}]
    /\ outTimer \in [End -> BOOLEAN] /\ replayQuiet \in [End -> BOOLEAN]
    /\ reconnecting \in [End -> BOOLEAN] /\ paused \in [End -> BOOLEAN]
    /\ sock \in [End -> Socket]
    /\ open \in [Socket -> BOOLEAN]
    /\ owner \in [Socket -> {"none", "handshake", "moving", "protocol", "gone"}]
    /\ loop \in {"up", "wait", "auth", "shake"} /\ faults \in Nat

Core == CoreType /\ Counted /\ DeliveredInOrder /\ NothingForgotten /\ QueueOK

IInv == Core /\ TrafficOK /\ RestType

-----------------------------------------------------------------------------
(* Lemmas *)

LEMMA PeerOfPeer ==
    \A e \in End : Peer(e) \in End /\ Peer(Peer(e)) = e /\ Peer(e) # e
  BY ProtocolAssumption DEF End, Peer

\* Messages without an id are truthful when their acknowledgement is.
LEMMA PlainTruthful ==
    ASSUME NEW e \in End, NEW t \in MessageType \ {"Regular"}, NEW a \in Nat,
           a <= inMsgId[e]
    PROVE  Plain(t, a) \in Truthful(e)
  BY DEF Plain, Truthful, Message

LEMMA SingletonSeq ==
    ASSUME NEW S, NEW x \in S
    PROVE  <<x>> \in Seq(S)
  OBVIOUS

\* While the histories stand still, so does what is truthful.
LEMMA TruthfulStays ==
    ASSUME UNCHANGED <<sent, outMsgId, inMsgId>>, NEW e \in End
    PROVE  Truthful(e)' = Truthful(e)
  BY DEF Truthful

\* The core of the invariant only speaks about the histories and the queue.
LEMMA CoreStays ==
    ASSUME Core, UNCHANGED <<users, unack, outMsgId, outAckId, inMsgId>>
    PROVE  Core'
  BY TruthfulStays
  DEF Core, CoreType, Counted, DeliveredInOrder, NothingForgotten, QueueOK, users

\* Steps that touch no message and no counter.
LEMMA TrafficStays ==
    ASSUME TrafficOK, UNCHANGED <<sent, outMsgId, inMsgId, buf, wire>>
    PROVE  TrafficOK'
  BY TruthfulStays, PeerOfPeer DEF TrafficOK

\* Truthful messages may be written.
LEMMA WriteTraffic ==
    ASSUME TrafficOK, NEW e \in End, NEW s \in Seq(Truthful(e)), Write(e, s),
           UNCHANGED <<sent, outMsgId, inMsgId, wire>>
    PROVE  TrafficOK'
<1>1. buf[e] \o s \in Seq(Truthful(e))
  BY ConcatProperties DEF TrafficOK
<1>2. buf[e] \o s \in Seq(Message)
  BY <1>1, SeqMonotonic DEF Truthful
<1> QED
  BY <1>1, <1>2, TruthfulStays, PeerOfPeer DEF TrafficOK, Write

-----------------------------------------------------------------------------
(* Receiving *)

\* The message at the head of a wire is truthful.
LEMMA ArrivedTruthful ==
    ASSUME TrafficOK, RestType, NEW e \in End, wire[e][sock[e]] # <<>>
    PROVE  Arrived(e) \in Truthful(Peer(e))
<1>1. wire[e][sock[e]] \in Seq(Truthful(Peer(e)))
  BY PeerOfPeer DEF TrafficOK, RestType
<1> QED
  BY <1>1, HeadTailProperties DEF Arrived

\* Reading one message leaves truthful ones.
LEMMA ConsumedWire ==
    ASSUME TrafficOK, RestType, NEW e \in End, wire[e][sock[e]] # <<>>, Consume(e)
    PROVE  /\ wire' \in [End -> [Socket -> Seq(Message)]]
           /\ \A d \in End, n \in Socket : wire'[Peer(d)][n] \in Seq(Truthful(d))
<1>1. sock[e] \in Socket
  BY DEF RestType
<1>2. /\ Tail(wire[e][sock[e]]) \in Seq(Truthful(Peer(e)))
      /\ Tail(wire[e][sock[e]]) \in Seq(Message)
  <2>1. wire[e][sock[e]] \in Seq(Truthful(Peer(e)))
    BY <1>1, PeerOfPeer DEF TrafficOK
  <2>2. Tail(wire[e][sock[e]]) \in Seq(Truthful(Peer(e)))
    BY <2>1, HeadTailProperties
  <2> QED
    BY <2>2, SeqMonotonic DEF Truthful
<1> QED
  BY <1>1, <1>2, PeerOfPeer DEF TrafficOK, Consume

\* Reading a message and changing nothing else.
LEMMA ConsumeTraffic ==
    ASSUME TrafficOK, RestType, NEW e \in End, wire[e][sock[e]] # <<>>,
           Consume(e), UNCHANGED <<sent, outMsgId, inMsgId, buf>>
    PROVE  TrafficOK'
  BY ConsumedWire, TruthfulStays DEF TrafficOK

\* The place, in a queue of n messages after base, of the one after id a.
LEMMA NextPlace ==
    ASSUME NEW n \in Nat, NEW base \in Nat, NEW a \in Nat, base < a, a - base < n
    PROVE  a - base + 1 \in 1..n /\ base + (a - base + 1) = a + 1
  OBVIOUS

\* A queue of consecutive ids loses exactly the confirmed ones.
LEMMA DropConfirmedPrefix ==
    ASSUME NEW q \in Seq(Message), NEW base \in Nat, NEW a \in Nat,
           \A i \in 1..Len(q) : q[i].id = base + i,
           base < a, a <= base + Len(q)
    PROVE  DropConfirmed(q, a) = SubSeq(q, a - base + 1, Len(q))
<1> DEFINE Front(k) == /\ \A i \in 1..k : q[i].id <= a
                       /\ k < Len(q) => q[k + 1].id > a
<1>1. Len(q) \in Nat
  BY LenProperties
<1>2. a - base \in 0..Len(q) /\ Front(a - base)
  <2>1. a - base \in 0..Len(q)
    BY <1>1
  <2>2. ASSUME NEW i \in 1..(a - base) PROVE q[i].id <= a
    <3>1. i \in 1..Len(q)
      BY <1>1
    <3> QED
      BY <3>1
  <2>3. ASSUME a - base < Len(q) PROVE q[a - base + 1].id > a
    <3>1. a - base + 1 \in 1..Len(q) /\ base + (a - base + 1) = a + 1
      BY <1>1, <2>3, NextPlace
    <3> QED
      BY <3>1
  <2> QED
    BY <2>1, <2>2, <2>3
<1>3. ASSUME NEW k \in 0..Len(q), Front(k)
      PROVE  k = a - base
  <2>1. CASE k < a - base
    BY <1>1, <1>3, <2>1
  <2>2. CASE k > a - base
    BY <1>1, <1>3, <2>2
  <2> QED
    BY <1>1, <2>1, <2>2
<1>4. (CHOOSE k \in 0..Len(q) : Front(k)) = a - base
  BY <1>2, <1>3
<1> QED
  BY <1>4 DEF DropConfirmed

\* What TakeAck leaves in the queue: nothing is dropped that the peer lacks.
LEMMA TakeAckQueue ==
    ASSUME Core, NEW e \in End, Arrived(e) \in Truthful(Peer(e)), TakeAck(e)
    PROVE  /\ outAckId' \in [End -> Nat] /\ unack' \in [End -> Seq(Message)]
           /\ \A d \in End :
                /\ unack'[d] \in Seq(Truthful(d))
                /\ outAckId'[d] <= inMsgId[Peer(d)]
                /\ Len(unack'[d]) = outMsgId[d] - outAckId'[d]
                /\ \A i \in 1..Len(unack'[d]) :
                      /\ unack'[d][i].id = outAckId'[d] + i
                      /\ unack'[d][i].data = sent[d][outAckId'[d] + i]
<1> DEFINE a == Arrived(e).ack
           q == unack[e]
           base == outAckId[e]
<1>1. a \in Nat /\ a <= inMsgId[Peer(e)]
  BY DEF Truthful, Message
<1>2. inMsgId[Peer(e)] <= outMsgId[e] /\ base <= outMsgId[e]
  BY PeerOfPeer
  DEF Core, CoreType, Counted, DeliveredInOrder, NothingForgotten
<1>3. CASE ~(a > base)
  BY ZenonT(60), <1>3 DEF TakeAck, Core, CoreType, QueueOK, NothingForgotten
<1>4. CASE a > base
  <2>1. /\ q \in Seq(Message) /\ q \in Seq(Truthful(e)) /\ base \in Nat
        /\ outMsgId[e] \in Nat /\ inMsgId[Peer(e)] \in Nat
        /\ Len(q) = outMsgId[e] - base
        /\ \A i \in 1..Len(q) : /\ q[i].id = base + i
                                /\ q[i].data = sent[e][base + i]
    BY PeerOfPeer DEF Core, CoreType, QueueOK, NothingForgotten
  <2>2. DropConfirmed(q, a) = SubSeq(q, a - base + 1, Len(q))
    <3>1. a <= base + Len(q)
      BY <1>1, <1>2, <2>1
    <3> HIDE DEF a, q, base
    <3> QED
      BY <1>1, <1>4, <2>1, <3>1, DropConfirmedPrefix
  <2> DEFINE r == SubSeq(q, a - base + 1, Len(q))
  <2>3. /\ r \in Seq(Message) /\ r \in Seq(Truthful(e))
        /\ Len(r) = outMsgId[e] - a
        /\ \A i \in 1..Len(r) : r[i] = q[a - base + i]
    <3>1. Len(q) \in Nat /\ a - base + 1 \in Int /\ a - base + 1 \in 1..(Len(q) + 1)
      BY SMTT(30), <1>1, <1>2, <1>4, <2>1
    <3>2. \A i \in (a - base + 1)..Len(q) : q[i] \in Message /\ q[i] \in Truthful(e)
      BY <1>1, <1>4, <2>1, <3>1, ElementOfSeq
    <3> HIDE DEF a, q, base
    <3>3. /\ r \in Seq(Message) /\ r \in Seq(Truthful(e))
          /\ Len(r) = IF a - base + 1 <= Len(q) THEN Len(q) - (a - base + 1) + 1 ELSE 0
          /\ \A i \in 1..(Len(q) - (a - base + 1) + 1) : r[i] = q[(a - base + 1) + i - 1]
      BY <3>1, <3>2, SubSeqProperties
    <3> HIDE DEF r
    <3>4. Len(q) - (a - base + 1) + 1 = outMsgId[e] - a
      BY <1>1, <2>1
    <3>5. Len(r) = outMsgId[e] - a
      BY <1>1, <2>1, <3>1, <3>3, <3>4
    <3>6. ASSUME NEW i \in 1..Len(r) PROVE r[i] = q[a - base + i]
      <4>1. i \in 1..(Len(q) - (a - base + 1) + 1)
        BY <3>4, <3>5
      <4>2. i \in Int /\ (a - base + 1) + i - 1 = a - base + i
        BY <1>1, <2>1, <4>1
      <4> QED
        BY <3>3, <4>1, <4>2
    <3> QED
      BY <3>3, <3>5, <3>6
  <2>4. \A i \in 1..Len(r) : r[i].id = a + i /\ r[i].data = sent[e][a + i]
    <3> SUFFICES ASSUME NEW i \in 1..Len(r)
                 PROVE  r[i].id = a + i /\ r[i].data = sent[e][a + i]
      OBVIOUS
    <3>1. a - base + i \in 1..Len(q) /\ base + (a - base + i) = a + i
      <4> HIDE DEF a, q, base, r
      <4> QED
        BY <1>1, <1>2, <1>4, <2>1, <2>3
    <3> HIDE DEF a, q, base, r
    <3> QED
      BY <2>1, <2>3, <3>1
  <2>5. outAckId' = [outAckId EXCEPT ![e] = a] /\ unack' = [unack EXCEPT ![e] = r]
    BY <1>4, <2>2 DEF TakeAck
  <2> HIDE DEF a, q, base, r
  <2> QED
    BY <1>1, <2>3, <2>4, <2>5, PeerOfPeer
    DEF Core, CoreType, QueueOK, NothingForgotten
<1> QED
  BY <1>3, <1>4

\* Taking an acknowledgement while the histories stand still.
LEMMA TakeAckCore ==
    ASSUME Core, NEW e \in End, Arrived(e) \in Truthful(Peer(e)), TakeAck(e),
           UNCHANGED <<users, outMsgId, inMsgId>>
    PROVE  Core'
  BY TakeAckQueue, TruthfulStays
  DEF Core, CoreType, Counted, DeliveredInOrder, NothingForgotten, QueueOK, users

-----------------------------------------------------------------------------
(* Writing to sockets and leaving them *)

\* A wire function fit for the traffic invariant.
WireOK(w) ==
    /\ w \in [End -> [Socket -> Seq(Message)]]
    /\ \A e \in End, n \in Socket : w[Peer(e)][n] \in Seq(Truthful(e))

\* Wires carry truthful messages after more of these are written, after the
\* wire was cleared, and after its first message was taken.
LEMMA AppendToWire ==
    ASSUME NEW w, WireOK(w), NEW e \in End, NEW n \in Socket,
           NEW s \in Seq(Truthful(e))
    PROVE  WireOK([w EXCEPT ![Peer(e)][n] = @ \o s])
<1>1. w[Peer(e)][n] \o s \in Seq(Truthful(e))
  BY ConcatProperties DEF WireOK
<1>2. w[Peer(e)][n] \o s \in Seq(Message)
  BY <1>1, SeqMonotonic DEF Truthful
<1> QED
  BY <1>1, <1>2, PeerOfPeer DEF WireOK

LEMMA ClearWire ==
    ASSUME NEW w, WireOK(w), NEW e \in End, NEW n \in Socket
    PROVE  WireOK([w EXCEPT ![e][n] = <<>>])
  BY PeerOfPeer DEF WireOK

LEMMA TailWire ==
    ASSUME NEW w, WireOK(w), NEW e \in End, NEW n \in Socket, w[e][n] # <<>>
    PROVE  WireOK([w EXCEPT ![e][n] = Tail(@)])
<1>1. w[e][n] \in Seq(Truthful(Peer(e)))
  BY PeerOfPeer DEF WireOK
<1>2. Tail(w[e][n]) \in Seq(Truthful(Peer(e)))
  BY <1>1, HeadTailProperties
<1>3. Tail(w[e][n]) \in Seq(Message)
  BY <1>2, SeqMonotonic DEF Truthful
<1> QED
  BY <1>2, <1>3, PeerOfPeer DEF WireOK

LEMMA LeaveWire ==
    ASSUME NEW w, WireOK(w), TrafficOK, RestType, NEW e \in End
    PROVE  WireOK(LeaveSocket(e, w))
<1>1. sock[e] \in Socket /\ buf[e] \in Seq(Truthful(e))
  BY DEF RestType, TrafficOK
<1> DEFINE f == IF open[sock[e]] /\ ~paused[e]
                THEN [w EXCEPT ![Peer(e)][sock[e]] = @ \o buf[e]]
                ELSE w
<1>2. WireOK(f)
  BY <1>1, AppendToWire
<1>3. WireOK([f EXCEPT ![e][sock[e]] = <<>>])
  <2> HIDE DEF f
  <2> QED
    BY <1>1, <1>2, ClearWire
<1> QED
  BY <1>3 DEF LeaveSocket

\* The reconnection's batch is truthful.
LEMMA RewriteTruthful ==
    ASSUME Core, NEW e \in End
    PROVE  Rewrite(e) \in Seq(Truthful(e))
<1>1. inMsgId[e] \in Nat /\ unack[e] \in Seq(Truthful(e))
  BY DEF Core, CoreType, QueueOK
<1>2. Plain("Ack", inMsgId[e]) \in Truthful(e)
  BY <1>1, PlainTruthful DEF MessageType
<1>3. <<Plain("Ack", inMsgId[e])>> \in Seq(Truthful(e))
  BY <1>2, SingletonSeq
<1> QED
  BY <1>1, <1>3, ConcatProperties DEF Rewrite

\* New buffers and wires while the histories stand still.
LEMMA NewTraffic ==
    ASSUME WireOK(wire'), UNCHANGED <<sent, outMsgId, inMsgId>>,
           buf' \in [End -> Seq(Message)],
           \A e \in End : buf'[e] \in Seq(Truthful(e))
    PROVE  TrafficOK'
  BY TruthfulStays, PeerOfPeer DEF TrafficOK, WireOK

\* The buffer of an end is replaced by truthful messages.
LEMMA NewBuffer ==
    ASSUME TrafficOK, NEW e \in End, NEW s \in Seq(Truthful(e)),
           buf' = [buf EXCEPT ![e] = s]
    PROVE  /\ buf' \in [End -> Seq(Message)]
           /\ \A d \in End : buf'[d] \in Seq(Truthful(d))
<1>1. s \in Seq(Message)
  BY SeqMonotonic DEF Truthful
<1> QED
  BY <1>1 DEF TrafficOK

\* The wires of the state are such wires.
LEMMA TrafficWire == TrafficOK => WireOK(wire)
  BY DEF TrafficOK, WireOK

-----------------------------------------------------------------------------
(* The actions of the two ends *)

LEMMA InitInvariant == Init => IInv
<1> SUFFICES ASSUME Init PROVE IInv
  OBVIOUS
<1>1. \A S : <<>> \in Seq(S)
  OBVIOUS
<1>2. Core
  BY <1>1, PeerOfPeer DEF Init, Core, CoreType, Counted, DeliveredInOrder,
       NothingForgotten, QueueOK
<1>3. TrafficOK
  BY <1>1, PeerOfPeer DEF Init, TrafficOK
<1>4. RestType
  BY ProtocolAssumption DEF Init, RestType, Socket
<1> QED
  BY <1>2, <1>3, <1>4 DEF IInv

LEMMA WriteNowStep ==
    ASSUME IInv, NEW e \in End, WriteNow(e) PROVE IInv'
<1>1. Core'
  BY CoreStays DEF IInv, WriteNow, ids
<1>2. WireOK(wire')
  <2>1. sock[e] \in Socket /\ buf[e] \in Seq(Truthful(e))
    BY DEF IInv, RestType, TrafficOK
  <2> QED
    BY <2>1, AppendToWire, TrafficWire DEF IInv, WriteNow
<1>3. TrafficOK'
  <2>1. <<>> \in Seq(Truthful(e))
    OBVIOUS
  <2> QED
    BY <1>2, <2>1, NewBuffer, NewTraffic DEF IInv, WriteNow, users, ids
<1>4. RestType'
  BY DEF IInv, RestType, WriteNow, ids, timers
<1> QED
  BY <1>1, <1>3, <1>4 DEF IInv

\* Sending lets the histories grow: what was truthful still is.
LEMMA SendStep ==
    ASSUME IInv, NEW e \in End, NEW d \in Data, Send(e, d) PROVE IInv'
<1> DEFINE i == outMsgId[e] + 1
           m == Regular(i, inMsgId[e], d)
<1>1. /\ sent[e] \in Seq(Data) /\ outMsgId[e] = Len(sent[e])
      /\ outMsgId[e] \in Nat /\ inMsgId[e] \in Nat /\ outAckId[e] \in Nat
      /\ unack[e] \in Seq(Message) /\ Len(unack[e]) = outMsgId[e] - outAckId[e]
  BY DEF IInv, Core, CoreType, Counted, QueueOK, NothingForgotten
<1>2. /\ sent' = [sent EXCEPT ![e] = Append(@, d)]
      /\ outMsgId' = [outMsgId EXCEPT ![e] = i]
      /\ unack' = [unack EXCEPT ![e] = Append(@, m)]
      /\ UNCHANGED <<recv, outAckId, inMsgId, wire>>
  BY DEF Send, network
<1>3. /\ Append(sent[e], d) \in Seq(Data)
      /\ Len(Append(sent[e], d)) = i
      /\ Append(sent[e], d)[i] = d
      /\ \A j \in 1..outMsgId[e] : Append(sent[e], d)[j] = sent[e][j]
  BY <1>1
<1>4. CoreType' /\ Counted'
  BY <1>1, <1>2, <1>3 DEF IInv, Core, CoreType, Counted
<1>5. DeliveredInOrder'
  <2> SUFFICES ASSUME NEW x \in End
               PROVE  /\ Len(recv[x]) <= Len(sent'[Peer(x)])
                      /\ \A j \in 1..Len(recv[x]) : recv[x][j] = sent'[Peer(x)][j]
    BY <1>2 DEF DeliveredInOrder
  <2>1. /\ Len(recv[x]) <= Len(sent[Peer(x)])
        /\ \A j \in 1..Len(recv[x]) : recv[x][j] = sent[Peer(x)][j]
        /\ Len(recv[x]) \in Nat /\ sent[Peer(x)] \in Seq(Data)
    <3>1. Peer(x) \in End /\ recv[x] \in Seq(Data)
      BY PeerOfPeer DEF IInv, Core, CoreType
    <3>2. Len(recv[x]) \in Nat /\ sent[Peer(x)] \in Seq(Data)
      BY <3>1 DEF IInv, Core, CoreType
    <3> QED
      BY <3>2 DEF IInv, Core, DeliveredInOrder
  <2>2. CASE Peer(x) = e
    BY SMTT(30), <1>1, <1>2, <1>3, <2>1, <2>2 DEF IInv, Core, CoreType
  <2>3. CASE Peer(x) # e
    BY <1>2, <2>1, <2>3 DEF IInv, Core, CoreType
  <2> QED
    BY <2>2, <2>3
<1>6. \A x \in End : Truthful(x) \subseteq Truthful(x)'
  <2> SUFFICES ASSUME NEW x \in End, NEW y \in Truthful(x)
               PROVE  y \in Truthful(x)'
    OBVIOUS
  <2>1. CASE x = e
    BY <1>1, <1>2, <1>3, <2>1 DEF Truthful, IInv, Core, CoreType
  <2>2. CASE x # e
    BY <1>2, <2>2 DEF Truthful, IInv, Core, CoreType
  <2> QED
    BY <2>1, <2>2
<1>7. m \in Truthful(e)' /\ m \in Message
  BY <1>1, <1>2, <1>3 DEF Truthful, Regular, Message, MessageType, IInv, Core, CoreType
<1>8. NothingForgotten'
  <2>0. UNCHANGED <<outAckId, inMsgId>>
    BY <1>2
  <2> SUFFICES ASSUME NEW x \in End
               PROVE  /\ outAckId[x] <= inMsgId[Peer(x)]
                      /\ Len(unack'[x]) = outMsgId'[x] - outAckId[x]
                      /\ \A j \in 1..Len(unack'[x]) :
                            /\ unack'[x][j].id = outAckId[x] + j
                            /\ unack'[x][j].data = sent'[x][outAckId[x] + j]
    BY <2>0 DEF NothingForgotten
  <2>1. /\ outAckId[x] <= inMsgId[Peer(x)]
        /\ Len(unack[x]) = outMsgId[x] - outAckId[x]
        /\ \A j \in 1..Len(unack[x]) :
              /\ unack[x][j].id = outAckId[x] + j
              /\ unack[x][j].data = sent[x][outAckId[x] + j]
    BY DEF IInv, Core, NothingForgotten
  <2>2. CASE x # e
    BY <1>2, <2>1, <2>2 DEF IInv, Core, CoreType, QueueOK
  <2>3. CASE x = e
    <3>1. /\ unack'[e] = Append(unack[e], m) /\ outMsgId'[e] = i
          /\ sent'[e] = Append(sent[e], d)
      BY <1>2 DEF IInv, Core, CoreType, QueueOK
    <3>2. /\ Len(unack'[e]) = i - outAckId[e]
          /\ unack'[e][i - outAckId[e]] = m
          /\ \A j \in 1..Len(unack[e]) : unack'[e][j] = unack[e][j]
      <4> HIDE DEF m
      <4>1. Len(Append(unack[e], m)) = Len(unack[e]) + 1
        BY <1>1, <1>7
      <4>2. Append(unack[e], m)[Len(unack[e]) + 1] = m
        BY <1>1, <1>7
      <4>3. \A j \in 1..Len(unack[e]) : Append(unack[e], m)[j] = unack[e][j]
        BY <1>1, <1>7
      <4>4. Len(unack[e]) + 1 = i - outAckId[e]
        BY <1>1
      <4> QED
        BY <3>1, <4>1, <4>2, <4>3, <4>4
    <3>3. m.id = i /\ m.data = d
      BY DEF Regular
    <3>4. \A j \in 1..Len(unack'[e]) :
              \/ j \in 1..Len(unack[e]) /\ outAckId[e] + j \in 1..outMsgId[e]
              \/ j = i - outAckId[e] /\ outAckId[e] + j = i
      <4> SUFFICES ASSUME NEW j \in 1..Len(unack'[e])
                   PROVE  \/ j \in 1..Len(unack[e]) /\ outAckId[e] + j \in 1..outMsgId[e]
                          \/ j = i - outAckId[e] /\ outAckId[e] + j = i
        OBVIOUS
      <4>1. Len(unack[e]) + 1 = i - outAckId[e]
        BY <1>1
      <4>2. j \in 1..(Len(unack[e]) + 1)
        BY <3>2, <4>1
      <4>3. CASE j = Len(unack[e]) + 1
        BY <1>1, <4>1, <4>3
      <4>4. CASE j \in 1..Len(unack[e])
        BY SMTT(30), <1>1, <4>4
      <4> QED
        BY <1>1, <4>2, <4>3, <4>4
    <3>5. ASSUME NEW j \in 1..Len(unack'[e])
          PROVE  /\ unack'[e][j].id = outAckId[e] + j
                 /\ unack'[e][j].data = sent'[e][outAckId[e] + j]
      <4> HIDE DEF m, i
      <4>1. CASE j \in 1..Len(unack[e]) /\ outAckId[e] + j \in 1..outMsgId[e]
        <5>1. sent'[e][outAckId[e] + j] = sent[e][outAckId[e] + j]
          BY <1>3, <3>1, <4>1
        <5>2. unack'[e][j] = unack[e][j]
          BY <3>2, <4>1
        <5> QED
          BY <2>1, <2>3, <4>1, <5>1, <5>2
      <4>2. CASE j = i - outAckId[e] /\ outAckId[e] + j = i
        BY <1>3, <3>1, <3>2, <3>3, <4>2
      <4> QED
        BY <3>4, <4>1, <4>2
    <3> HIDE DEF m, i
    <3> QED
      BY <2>1, <2>3, <3>1, <3>2, <3>5
  <2> QED
    BY <2>2, <2>3
<1>9. QueueOK'
  <2>1. \A x \in End : unack[x] \in Seq(Truthful(x)')
    BY <1>6, SeqMonotonic DEF IInv, Core, QueueOK
  <2>2. Append(unack[e], m) \in Seq(Truthful(e)') /\ Append(unack[e], m) \in Seq(Message)
    BY <1>1, <1>7, <2>1
  <2> QED
    BY <1>2, <2>1, <2>2 DEF IInv, Core, QueueOK
<1>10. TrafficOK'
  <2>1. \A x \in End : buf[x] \in Seq(Truthful(x)')
    BY <1>6, SeqMonotonic DEF IInv, TrafficOK
  <2>2. \A x \in End, n \in Socket : wire[Peer(x)][n] \in Seq(Truthful(x)')
    BY <1>6, SeqMonotonic DEF IInv, TrafficOK
  <2>3. buf[e] \o <<m>> \in Seq(Truthful(e)') /\ buf[e] \o <<m>> \in Seq(Message)
    BY <1>7, <2>1, SingletonSeq, ConcatProperties DEF IInv, TrafficOK
  <2>4. buf' \in [End -> Seq(Message)] /\ \A x \in End : buf'[x] \in Seq(Truthful(x)')
    BY <2>1, <2>3 DEF IInv, TrafficOK, Send, Write
  <2> QED
    BY <1>2, <2>2, <2>4, PeerOfPeer DEF IInv, TrafficOK
<1>11. RestType'
  BY <1>1 DEF IInv, RestType, Send, network
<1> QED
  BY <1>4, <1>5, <1>8, <1>9, <1>10, <1>11 DEF IInv, Core

LEMMA SendKeepAliveStep ==
    ASSUME IInv, NEW e \in End, SendKeepAlive(e) PROVE IInv'
<1>1. Core'
  BY CoreStays DEF IInv, SendKeepAlive
<1>2. TrafficOK'
  <2>1. inMsgId[e] \in Nat
    BY DEF IInv, Core, CoreType
  <2>2. <<Plain("KeepAlive", inMsgId[e])>> \in Seq(Truthful(e))
    BY <2>1, PlainTruthful, SingletonSeq DEF MessageType
  <2> QED
    BY <2>2, WriteTraffic DEF IInv, SendKeepAlive, users, network
<1>3. RestType'
  BY DEF IInv, Core, CoreType, RestType, SendKeepAlive, timers, network
<1> QED
  BY <1>1, <1>2, <1>3 DEF IInv

LEMMA AckTimerFiresStep ==
    ASSUME IInv, NEW e \in End, AckTimerFires(e) PROVE IInv'
<1>1. Core'
  BY CoreStays DEF IInv, AckTimerFires
<1>2. TrafficOK'
  <2>1. inMsgId[e] \in Nat
    BY DEF IInv, Core, CoreType
  <2>2. <<Plain("Ack", inMsgId[e])>> \in Seq(Truthful(e))
    BY <2>1, PlainTruthful, SingletonSeq DEF MessageType
  <2> QED
    BY <2>2, WriteTraffic, TrafficStays DEF IInv, AckTimerFires, users, network
<1>3. RestType'
  BY DEF IInv, Core, CoreType, RestType, AckTimerFires, RestOfDelay, network
<1> QED
  BY <1>1, <1>2, <1>3 DEF IInv

\* Receiving the next message lets the peer's acknowledgements grow.
LEMMA ReceiveNextStep ==
    ASSUME IInv, NEW e \in End, ReceiveNext(e) PROVE IInv'
<1> DEFINE p == Peer(e)
           m == Arrived(e)
<1>1. wire[e][sock[e]] # <<>> /\ m.type = "Regular" /\ m.id = inMsgId[e] + 1
  BY DEF ReceiveNext, Arrives, Arrived, IsNext
<1>2. m \in Truthful(p)
  BY <1>1, ArrivedTruthful DEF IInv
<1>3. /\ p \in End /\ Peer(p) = e
      /\ m.id \in 1..outMsgId[p] /\ m.data = sent[p][m.id]
      /\ sent[p] \in Seq(Data) /\ outMsgId[p] = Len(sent[p])
      /\ recv[e] \in Seq(Data) /\ inMsgId[e] = Len(recv[e]) /\ inMsgId[e] \in Nat
  BY <1>1, <1>2, PeerOfPeer DEF Truthful, IInv, Core, CoreType, Counted
<1>4. /\ inMsgId' = [inMsgId EXCEPT ![e] = inMsgId[e] + 1]
      /\ recv' = [recv EXCEPT ![e] = Append(@, m.data)]
      /\ UNCHANGED <<sent, outMsgId, buf>>
  BY <1>1 DEF ReceiveNext
<1>5. m.data \in Data
  BY <1>3, ElementOfSeq
<1>6. CoreType' /\ Counted'
  <2>1. Append(recv[e], m.data) \in Seq(Data) /\ Len(Append(recv[e], m.data)) = inMsgId[e] + 1
    BY <1>3, <1>5
  <2>2. outAckId' \in [End -> Nat]
    BY <1>2, TakeAckQueue DEF IInv, ReceiveNext
  <2>3. /\ sent \in [End -> Seq(Data)] /\ recv \in [End -> Seq(Data)]
        /\ outMsgId \in [End -> Nat] /\ inMsgId \in [End -> Nat]
        /\ \A x \in End : outMsgId[x] = Len(sent[x]) /\ inMsgId[x] = Len(recv[x])
    BY DEF IInv, Core, CoreType, Counted
  <2> HIDE DEF m
  <2>4. CoreType'
    BY <1>4, <2>1, <2>2, <2>3 DEF CoreType
  <2>5. Counted'
    BY <1>4, <2>1, <2>3 DEF Counted
  <2> QED
    BY <2>4, <2>5
<1>7. DeliveredInOrder'
  <2> SUFFICES ASSUME NEW x \in End
               PROVE  /\ Len(recv'[x]) <= Len(sent[Peer(x)])
                      /\ \A j \in 1..Len(recv'[x]) : recv'[x][j] = sent[Peer(x)][j]
    BY <1>4 DEF DeliveredInOrder
  <2>1. /\ Len(recv[x]) <= Len(sent[Peer(x)])
        /\ \A j \in 1..Len(recv[x]) : recv[x][j] = sent[Peer(x)][j]
    BY DEF IInv, Core, DeliveredInOrder
  <2>2. CASE x # e
    BY <1>4, <2>1, <2>2 DEF IInv, Core, CoreType
  <2>3. CASE x = e
    <3>1. recv'[e] = Append(recv[e], m.data)
      BY <1>4 DEF IInv, Core, CoreType
    <3>2. /\ Len(recv'[e]) = inMsgId[e] + 1
          /\ recv'[e][inMsgId[e] + 1] = m.data
          /\ \A j \in 1..inMsgId[e] : recv'[e][j] = recv[e][j]
      BY <1>3, <1>5, <3>1
    <3> HIDE DEF m, p
    <3>3. m.data = sent[p][inMsgId[e] + 1] /\ inMsgId[e] + 1 <= Len(sent[p])
      BY <1>1, <1>3
    <3> QED
      BY <1>3, <2>1, <2>3, <3>2, <3>3 DEF p
  <2> QED
    BY <2>2, <2>3
<1>8. \A x \in End : Truthful(x) \subseteq Truthful(x)'
  BY SMTT(30), <1>3, <1>4 DEF Truthful, Message, IInv, Core, CoreType
<1>9. NothingForgotten' /\ QueueOK'
  <2>1. /\ unack' \in [End -> Seq(Message)] /\ outAckId' \in [End -> Nat]
        /\ \A x \in End :
             /\ unack'[x] \in Seq(Truthful(x))
             /\ outAckId'[x] <= inMsgId[Peer(x)]
             /\ Len(unack'[x]) = outMsgId[x] - outAckId'[x]
             /\ \A i \in 1..Len(unack'[x]) :
                   /\ unack'[x][i].id = outAckId'[x] + i
                   /\ unack'[x][i].data = sent[x][outAckId'[x] + i]
    BY <1>2, TakeAckQueue DEF IInv, ReceiveNext
  <2>2. \A x \in End : inMsgId[x] \in Nat /\ inMsgId[x] <= inMsgId'[x]
    BY <1>4 DEF IInv, Core, CoreType
  <2>3. \A x \in End : outAckId'[x] <= inMsgId'[Peer(x)]
    <3> SUFFICES ASSUME NEW x \in End PROVE outAckId'[x] <= inMsgId'[Peer(x)]
      OBVIOUS
    <3>1. Peer(x) \in End /\ outAckId'[x] \in Nat /\ inMsgId'[Peer(x)] \in Nat
      BY <2>1, <1>6, PeerOfPeer DEF CoreType
    <3>2. outAckId'[x] <= inMsgId[Peer(x)]
      BY <2>1
    <3>3. inMsgId[Peer(x)] \in Nat /\ inMsgId[Peer(x)] <= inMsgId'[Peer(x)]
      BY <2>2, <3>1
    <3> QED
      BY <3>1, <3>2, <3>3
  <2>4. NothingForgotten'
    BY <1>4, <2>1, <2>3 DEF NothingForgotten
  <2>5. QueueOK'
    BY <1>8, <2>1, SeqMonotonic DEF QueueOK
  <2> QED
    BY <2>4, <2>5
<1>10. TrafficOK'
  <2>1. /\ wire' \in [End -> [Socket -> Seq(Message)]]
        /\ \A x \in End, n \in Socket : wire'[Peer(x)][n] \in Seq(Truthful(x))
    BY <1>1, ConsumedWire DEF IInv, ReceiveNext
  <2>2. \A x \in End : buf[x] \in Seq(Truthful(x)')
    BY <1>8, SeqMonotonic DEF IInv, TrafficOK
  <2>3. \A x \in End, n \in Socket : wire'[Peer(x)][n] \in Seq(Truthful(x)')
    BY <1>8, <2>1, SeqMonotonic
  <2> QED
    BY <1>4, <2>1, <2>2, <2>3 DEF IInv, TrafficOK
<1>11. RestType'
  BY DEF IInv, RestType, ReceiveNext
<1> QED
  BY <1>6, <1>7, <1>9, <1>10, <1>11 DEF IInv, Core

\* The other messages leave the histories alone.
LEMMA ReceiveOtherStep ==
    ASSUME IInv, NEW e \in End,
           \/ ReceiveDuplicate(e) \/ ReceiveAfterGap(e) \/ ReceiveAck(e)
           \/ ReceiveReplayRequest(e) \/ ReceivePause(e) \/ ReceiveResume(e)
    PROVE  IInv'
<1>1. wire[e][sock[e]] # <<>> /\ Consume(e)
  BY DEF ReceiveDuplicate, ReceiveAfterGap, ReceiveAck, ReceiveReplayRequest,
         ReceivePause, ReceiveResume, Arrives
<1>2. Arrived(e) \in Truthful(Peer(e))
  BY <1>1, ArrivedTruthful DEF IInv
<1>3. UNCHANGED <<users, outMsgId, inMsgId>>
  BY DEF ReceiveDuplicate, ReceiveAfterGap, ReceiveAck, ReceiveReplayRequest,
         ReceivePause, ReceiveResume, ids
<1>4. Core'
  <2>1. CASE TakeAck(e)
    BY <1>2, <1>3, <2>1, TakeAckCore DEF IInv
  <2>2. CASE UNCHANGED <<unack, ids>>
    BY <1>3, <2>2, CoreStays DEF IInv, ids
  <2> QED
    BY <2>1, <2>2
    DEF ReceiveDuplicate, ReceiveAfterGap, ReceiveAck, ReceiveReplayRequest,
        ReceivePause, ReceiveResume
<1>5. WireOK(wire')
  BY <1>1, ConsumedWire DEF IInv, WireOK
<1>6. ASSUME NEW s \in Seq(Truthful(e)), buf' = [buf EXCEPT ![e] = @ \o s]
      PROVE  TrafficOK'
  <2>1. buf[e] \o s \in Seq(Truthful(e))
    BY ConcatProperties DEF IInv, TrafficOK
  <2> QED
    BY <1>3, <1>5, <1>6, <2>1, NewBuffer, NewTraffic DEF IInv, users
<1>7. CASE UNCHANGED buf
  BY <1>1, <1>3, <1>4, <1>7, ConsumeTraffic
  DEF IInv, RestType, users, ReceiveDuplicate, ReceiveAfterGap, ReceiveAck,
      ReceiveReplayRequest, ReceivePause, ReceiveResume, ids, timers
<1>8. CASE ReceiveAfterGap(e)
  <2>1. 0 <= inMsgId[e]
    BY DEF IInv, Core, CoreType
  <2>2. <<Plain("ReplayRequest", 0)>> \in Seq(Truthful(e))
    BY <2>1, PlainTruthful, SingletonSeq DEF MessageType
  <2>3. CASE Write(e, <<Plain("ReplayRequest", 0)>>)
    <3>1. TrafficOK'
      BY <1>6, <2>2, <2>3 DEF Write
    <3> QED
      BY <1>4, <1>8, <3>1 DEF IInv, RestType, ReceiveAfterGap
  <2> QED
    BY <1>7, <1>8, <2>3 DEF ReceiveAfterGap
<1>9. CASE ReceiveReplayRequest(e)
  <2>1. unack[e] \in Seq(Truthful(e))
    BY DEF IInv, Core, QueueOK
  <2>2. TrafficOK'
    BY <1>6, <1>9, <2>1 DEF ReceiveReplayRequest, Write
  <2> QED
    BY <1>4, <1>9, <2>2 DEF IInv, RestType, ReceiveReplayRequest, ids
<1> QED
  BY <1>7, <1>8, <1>9
  DEF ReceiveDuplicate, ReceiveAck, ReceivePause, ReceiveResume

\* Nothing but timers, the loop and the environment.
LEMMA QuietStep ==
    ASSUME IInv,
           \/ \E e \in End : AckTimeout(e) \/ ReplayQuietEnds(e)
           \/ ClientSeesClose \/ HandshakeFails \/ HandshakeTimesOut \/ SocketDies
    PROVE  IInv'
<1>1. UNCHANGED <<users, unack, ids, buf, wire>>
  BY DEF AckTimeout, ReplayQuietEnds, ClientSeesClose, HandshakeFails,
         HandshakeTimesOut, SocketDies, network
<1>2. Core' /\ TrafficOK'
  BY <1>1, CoreStays, TrafficStays DEF IInv, users, ids
<1>3. RestType'
  <2>1. ASSUME NEW e \in End, AckTimeout(e) PROVE RestType'
    BY <2>1 DEF IInv, RestType, AckTimeout, ids, network
  <2>2. ASSUME NEW e \in End, ReplayQuietEnds(e) PROVE RestType'
    BY <2>2 DEF IInv, RestType, ReplayQuietEnds, ids, network
  <2>3. CASE ClientSeesClose \/ HandshakeFails \/ HandshakeTimesOut
    BY <2>3 DEF IInv, RestType, ClientSeesClose, HandshakeFails,
         HandshakeTimesOut, ids, timers, network
  <2>4. CASE SocketDies
    <3>1. faults' \in Nat
      BY <2>4 DEF IInv, RestType, SocketDies, Fault
    <3>2. open' \in [Socket -> BOOLEAN]
      BY <2>4 DEF IInv, RestType, SocketDies
    <3> QED
      BY <2>4, <3>1, <3>2 DEF IInv, RestType, SocketDies, ids, timers
  <2> QED
    BY <2>1, <2>2, <2>3, <2>4
<1> QED
  BY <1>2, <1>3 DEF IInv

LEMMA WireLosesStep ==
    ASSUME IInv, NEW e \in End, WireLoses(e) PROVE IInv'
<1>1. Core'
  BY CoreStays DEF IInv, WireLoses, ids
<1>2. TrafficOK'
  <2> DEFINE q == wire[e][sock[e]]
  <2>1. sock[e] \in Socket /\ q \in Seq(Truthful(Peer(e)))
    BY PeerOfPeer DEF IInv, RestType, TrafficOK
  <2>2. PICK i \in DOMAIN q :
          wire' = [wire EXCEPT ![e][sock[e]] =
                     SubSeq(@, 1, i - 1) \o SubSeq(@, i + 1, Len(@))]
    BY DEF WireLoses
  <2> DEFINE r == SubSeq(q, 1, i - 1) \o SubSeq(q, i + 1, Len(q))
  <2>3. r \in Seq(Truthful(Peer(e)))
    <3> HIDE DEF q
    <3>1. i \in 1..Len(q) /\ Len(q) \in Nat
      BY <2>1, <2>2, LenProperties
    <3>2. \A j \in 1..Len(q) : q[j] \in Truthful(Peer(e))
      BY <2>1, ElementOfSeq
    <3>3. SubSeq(q, 1, i - 1) \in Seq(Truthful(Peer(e)))
      BY <3>1, <3>2, SubSeqProperties
    <3>4. SubSeq(q, i + 1, Len(q)) \in Seq(Truthful(Peer(e)))
      BY <3>1, <3>2, SubSeqProperties
    <3> QED
      BY <3>3, <3>4, ConcatProperties
  <2>4. r \in Seq(Message)
    BY <2>3, SeqMonotonic DEF Truthful
  <2>5. WireOK(wire')
    <3>1. wire' = [wire EXCEPT ![e][sock[e]] = r]
      BY <2>2
    <3> HIDE DEF r, q
    <3> QED
      BY <2>1, <2>3, <2>4, <3>1, TrafficWire, PeerOfPeer DEF IInv, WireOK
  <2> QED
    BY <2>5, NewTraffic DEF IInv, TrafficOK, WireLoses, users, ids
<1>3. RestType'
  BY DEF IInv, RestType, WireLoses, Fault, ids, timers
<1> QED
  BY <1>1, <1>2, <1>3 DEF IInv

-----------------------------------------------------------------------------
(* Reconnecting *)

LEMMA ClientConnectsStep ==
    ASSUME IInv, ClientConnects PROVE IInv'
<1>1. Client \in End /\ 0 <= inMsgId[Client]
  BY DEF End, IInv, Core, CoreType
<1>2. Core'
  BY CoreStays DEF IInv, ClientConnects, ids
<1>3. WireOK(wire')
  BY <1>1, LeaveWire, TrafficWire DEF IInv, ClientConnects
<1>4. <<>> \in Seq(Truthful(Client))
  OBVIOUS
<1>5. TrafficOK'
  BY <1>1, <1>3, <1>4, NewBuffer, NewTraffic DEF IInv, ClientConnects, users, ids
<1>6. sock[Client] + 1 \in Socket /\ sock[Client] \in Socket
  BY <1>1, ProtocolAssumption DEF IInv, RestType, ClientConnects, Socket
<1>7. RestType'
  BY <1>1, <1>6 DEF IInv, RestType, ClientConnects, ids
<1> QED
  BY <1>2, <1>5, <1>7 DEF IInv

LEMMA ClientAsksStep ==
    ASSUME IInv, ClientAsks PROVE IInv'
<1>1. Client \in End /\ 0 <= inMsgId[Client]
  BY DEF End, IInv, Core, CoreType
<1>2. Core'
  BY CoreStays DEF IInv, ClientAsks, ids
<1>3. <<Plain("Control", 0)>> \in Seq(Truthful(Client))
  BY <1>1, PlainTruthful, SingletonSeq DEF MessageType
<1>4. TrafficOK'
  BY <1>1, <1>3, WriteTraffic DEF IInv, ClientAsks, users, ids, network
<1>5. RestType'
  BY DEF IInv, RestType, ClientAsks, ids, timers, network
<1> QED
  BY <1>2, <1>4, <1>5 DEF IInv

LEMMA ReceiveControlStep ==
    ASSUME IInv, ReceiveControl PROVE IInv'
<1>1. Client \in End /\ wire[Client][sock[Client]] # <<>> /\ Consume(Client)
  BY DEF End, ReceiveControl, Arrives
<1>2. UNCHANGED <<users, unack, outMsgId, outAckId, inMsgId>>
  BY DEF ReceiveControl
<1>3. Core'
  BY <1>2, CoreStays DEF IInv
<1>4. CASE loop = "shake"
  <2>1. Rewrite(Client) \in Seq(Truthful(Client))
    BY <1>1, RewriteTruthful DEF IInv
  <2>2. buf[Client] \o Rewrite(Client) \in Seq(Truthful(Client))
    BY <1>1, <2>1, ConcatProperties DEF IInv, TrafficOK
  <2>3. WireOK(wire')
    BY <1>1, ConsumedWire DEF IInv, WireOK
  <2>4. TrafficOK'
    BY <1>1, <1>2, <1>4, <2>2, <2>3, NewBuffer, NewTraffic
    DEF IInv, ReceiveControl, Write, users
  <2>5. inMsgId[Client] \in Nat /\ ArmedAfterEnd(Client) \in BOOLEAN
    BY <1>1 DEF IInv, Core, CoreType, RestType, ArmedAfterEnd
  <2>6. RestType'
    BY <1>1, <1>4, <2>5 DEF IInv, RestType, ReceiveControl
  <2> QED
    BY <1>3, <2>4, <2>6 DEF IInv
<1>5. CASE loop # "shake"
  <2>1. UNCHANGED <<loop, reconnecting, inAckId, buf, outTimer>>
    BY <1>5 DEF ReceiveControl
  <2>2. TrafficOK'
    BY <1>1, <1>2, <2>1, ConsumeTraffic DEF IInv, users
  <2>3. RestType'
    BY <2>1 DEF IInv, RestType, ReceiveControl
  <2> QED
    BY <1>3, <2>2, <2>3 DEF IInv
<1> QED
  BY <1>4, <1>5

\* What the temporary protocol answers is truthful, whatever the server's own
\* protocol has received.
LEMMA AnswerWire ==
    ASSUME IInv, NEW n \in Socket, wire[Server][n] # <<>>,
           NEW s \in Seq(Truthful(Server))
    PROVE  WireOK(Answer(n, s))
<1>1. Server \in End /\ Client \in End /\ Peer(Server) = Client /\ Client # Server
  BY ProtocolAssumption DEF End, Peer
<1> DEFINE w == [wire EXCEPT ![Server][n] = Tail(@)]
<1>2. WireOK(w)
  BY <1>1, TailWire, TrafficWire DEF IInv
<1>3. WireOK([w EXCEPT ![Client][n] = @ \o s])
  <2> HIDE DEF w
  <2> QED
    BY <1>1, <1>2, AppendToWire
<1>4. w[Client][n] = wire[Client][n]
  BY <1>1 DEF IInv, TrafficOK
<1>5. Answer(n, s) = IF open[n] THEN [w EXCEPT ![Client][n] = @ \o s] ELSE w
  <2>1. CASE open[n]
    BY <1>1, <2>1 DEF Answer, IInv, TrafficOK
  <2>2. CASE ~open[n]
    BY <1>1, <2>2 DEF Answer, IInv, TrafficOK
  <2> QED
    BY <2>1, <2>2
<1> QED
  BY <1>2, <1>3, <1>5

LEMMA ServerPlain ==
    ASSUME IInv, NEW t \in MessageType \ {"Regular"}
    PROVE  Plain(t, 0) \in Truthful(Server)
<1>1. Server \in End /\ 0 <= inMsgId[Server]
  BY DEF End, IInv, Core, CoreType
<1> QED
  BY <1>1, PlainTruthful

LEMMA AdoptStep ==
    ASSUME IInv, NEW n \in Socket, NEW w, WireOK(w),
           NEW s \in Seq(Truthful(Server)), Adopt(n, w, s)
    PROVE  IInv'
<1>1. Server \in End
  BY DEF End
<1>2. Core'
  BY CoreStays DEF IInv, Adopt
<1>3. WireOK(wire')
  BY <1>1, LeaveWire DEF IInv, Adopt
<1>4. Rewrite(Server) \o s \in Seq(Truthful(Server))
  BY <1>1, RewriteTruthful, ConcatProperties DEF IInv
<1>5. TrafficOK'
  BY <1>1, <1>3, <1>4, NewBuffer, NewTraffic DEF IInv, Adopt, users
<1>6. /\ inMsgId[Server] \in Nat /\ ArmedAfterEnd(Server) \in BOOLEAN
      /\ sock[Server] \in Socket
  BY <1>1 DEF IInv, Core, CoreType, RestType, ArmedAfterEnd
<1>7. RestType'
  BY <1>1, <1>6 DEF IInv, RestType, Adopt
<1> QED
  BY <1>2, <1>5, <1>7 DEF IInv

\* The server's side of the handshake.
LEMMA HandshakeStep ==
    ASSUME IInv, NEW n \in Socket,
           \/ HandshakeIgnores(n) \/ ServerAccepts(n) \/ ServerPauses(n)
           \/ MovingLoses(n) \/ ExtHostAdopts(n)
    PROVE  IInv'
<1>1. CASE HandshakeIgnores(n) \/ MovingLoses(n)
  <2>1. Server \in End
    BY DEF End
  <2>2. WireOK(wire')
    BY <1>1, <2>1, TailWire, TrafficWire DEF IInv, HandshakeIgnores, MovingLoses
  <2>3. UNCHANGED <<users, unack, ids, buf>>
    BY <1>1 DEF HandshakeIgnores, MovingLoses
  <2>4. Core' /\ TrafficOK'
    BY <2>2, <2>3, CoreStays, NewTraffic DEF IInv, TrafficOK, users, ids
  <2>5. RestType'
    BY <1>1 DEF IInv, RestType, HandshakeIgnores, MovingLoses, ids, timers
  <2> QED
    BY <2>4, <2>5 DEF IInv
<1>2. CASE ServerAccepts(n)
  <2>1. wire[Server][n] # <<>>
    BY <1>2 DEF ServerAccepts, Asked
  <2>2. <<Plain("Control", 0)>> \in Seq(Truthful(Server))
    BY ServerPlain, SingletonSeq DEF MessageType
  <2>3. <<>> \in Seq(Truthful(Server))
    OBVIOUS
  <2> QED
    BY <1>2, <2>1, <2>2, <2>3, AnswerWire, AdoptStep DEF ServerAccepts
<1>3. CASE ServerPauses(n)
  <2>1. wire[Server][n] # <<>>
    BY <1>3 DEF ServerPauses, Asked
  <2>2. HandoverAnswer \in Seq(Truthful(Server))
    <3>1. /\ Plain("Pause", 0) \in Truthful(Server)
          /\ Plain("Control", 0) \in Truthful(Server)
      BY ServerPlain DEF MessageType
    <3> QED
      BY <3>1 DEF HandoverAnswer
  <2>3. WireOK(wire')
    BY <1>3, <2>1, <2>2, AnswerWire DEF ServerPauses
  <2>4. Core' /\ TrafficOK'
    BY <1>3, <2>3, CoreStays, NewTraffic
    DEF IInv, TrafficOK, ServerPauses, users, ids
  <2>5. RestType'
    BY <1>3 DEF IInv, RestType, ServerPauses, ids, timers
  <2> QED
    BY <2>4, <2>5 DEF IInv
<1>4. CASE ExtHostAdopts(n)
  <2>1. <<Plain("Resume", 0)>> \in Seq(Truthful(Server))
    BY ServerPlain, SingletonSeq DEF MessageType
  <2> QED
    BY <1>4, <2>1, TrafficWire, AdoptStep DEF IInv, ExtHostAdopts
<1> QED
  BY <1>1, <1>2, <1>3, <1>4

-----------------------------------------------------------------------------
(* The theorems *)

\* Every step keeps the invariant: one case for each action.
LEMMA StepInvariant == IInv /\ [Next]_vars => IInv'
<1> SUFFICES ASSUME IInv, [Next]_vars PROVE IInv'
  OBVIOUS
<1>1. CASE UNCHANGED vars
  BY <1>1, CoreStays, TrafficStays
  DEF IInv, RestType, vars, users, ids, timers, network
<1>2. ASSUME NEW e \in End, \E d \in Data : Send(e, d) PROVE IInv'
  BY <1>2, SendStep
<1>3. ASSUME NEW e \in End,
             WriteNow(e) \/ SendKeepAlive(e) \/ AckTimerFires(e) \/ WireLoses(e)
      PROVE  IInv'
  BY <1>3, WriteNowStep, SendKeepAliveStep, AckTimerFiresStep, WireLosesStep
<1>4. ASSUME NEW e \in End, AckTimeout(e) \/ ReplayQuietEnds(e) PROVE IInv'
  BY <1>4, QuietStep
<1>5. ASSUME NEW e \in End, Receive(e) PROVE IInv'
  BY <1>5, ReceiveNextStep, ReceiveOtherStep DEF Receive
<1>6. CASE ClientSeesClose \/ HandshakeFails \/ HandshakeTimesOut \/ SocketDies
  BY <1>6, QuietStep
<1>7. CASE ClientConnects \/ ClientAsks \/ ReceiveControl
  BY <1>7, ClientConnectsStep, ClientAsksStep, ReceiveControlStep
<1>8. ASSUME NEW n \in Socket,
             \/ HandshakeIgnores(n) \/ ServerAccepts(n) \/ ServerPauses(n)
             \/ MovingLoses(n) \/ ExtHostAdopts(n)
      PROVE  IInv'
  BY <1>8, HandshakeStep
<1> QED
  BY <1>1, <1>2, <1>3, <1>4, <1>5, <1>6, <1>7, <1>8 DEF Next

\* The inductive invariant holds in every reachable state, with and without loss.
LEMMA Invariance == Spec => []IInv
  BY InitInvariant, StepInvariant, PTL DEF Spec

\* Every variable keeps its type, on every behaviour.
THEOREM TypeCorrect == Spec => []TypeOK
<1>1. IInv => TypeOK
  BY DEF IInv, Core, CoreType, QueueOK, TrafficOK, RestType, TypeOK
<1> QED
  BY <1>1, Invariance, PTL

\* What an end has received is a prefix of what the other end has sent,
\* whatever sockets break, time out, change hands or lose.
THEOREM InOrder == Spec => []DeliveredInOrder
<1>1. IInv => DeliveredInOrder
  BY DEF IInv, Core
<1> QED
  BY <1>1, Invariance, PTL

\* A message leaves the queue only when the other end has received it, so a
\* reconnection can always bring the missing ones.
THEOREM NothingLost == Spec => []NothingForgotten
<1>1. IInv => NothingForgotten
  BY DEF IInv, Core
<1> QED
  BY <1>1, Invariance, PTL

-----------------------------------------------------------------------------
(* The timers *)

\* The reconnection loop has ended with the end of the reconnection.
LoopEnded == loop = "up" => ~reconnecting[Client]

Timed == AckScheduled /\ TimeoutWatches /\ LoopEnded

\* An acknowledgement that is taken is a newer one.
LEMMA TakeAckGrows ==
    ASSUME Core, NEW e \in End, Arrived(e) \in Truthful(Peer(e)), TakeAck(e), NEW d \in End
    PROVE  outAckId'[d] >= outAckId[d]
<1>1. Arrived(e).ack \in Nat /\ outAckId \in [End -> Nat]
  BY DEF Truthful, Message, Core, CoreType
<1> QED
  BY <1>1 DEF TakeAck

LEMMA TimedSame ==
    ASSUME Timed, RestType, Core,
           UNCHANGED <<outMsgId, inMsgId, inAckId, ackTimer, outTimer, loop, reconnecting>>,
           \A d \in End : outAckId'[d] >= outAckId[d], outAckId' \in [End -> Nat]
    PROVE  Timed'
BY DEF Timed, AckScheduled, TimeoutWatches, LoopEnded, RestType, Core, CoreType, End

\* Every step schedules what it makes necessary.
LEMMA TimedStep ==
    ASSUME IInv, Timed, [Next]_vars PROVE Timed'
<1>1. Core /\ RestType /\ TrafficOK /\ Client \in End /\ Server \in End /\ Client # Server
  BY ProtocolAssumption DEF IInv, End
<1>2. Core' /\ RestType'
  BY StepInvariant DEF IInv
<1>0. /\ inAckId \in [End -> Nat] /\ ackTimer \in [End -> {"off", "due", "early"}]
      /\ outTimer \in [End -> BOOLEAN] /\ reconnecting \in [End -> BOOLEAN]
      /\ outMsgId \in [End -> Nat] /\ outAckId \in [End -> Nat] /\ inMsgId \in [End -> Nat]
  BY <1>1 DEF RestType, Core, CoreType
<1> DEFINE Goal == Timed'
<1>3. ASSUME \A d \in End : outAckId'[d] >= outAckId[d],
             UNCHANGED <<outMsgId, inMsgId, inAckId, ackTimer, outTimer, loop, reconnecting>>
      PROVE  Goal
  BY <1>1, <1>2, <1>3, TimedSame DEF Core, CoreType
<1>4. UNCHANGED outAckId => \A d \in End : outAckId'[d] >= outAckId[d]
  BY <1>1 DEF Core, CoreType
<1>5. ASSUME NEW e \in End, NEW d \in Data, Send(e, d) PROVE Goal
  <2>1. /\ inAckId' = [inAckId EXCEPT ![e] = inMsgId[e]]
        /\ outMsgId' = [outMsgId EXCEPT ![e] = @ + 1]
        /\ \/ reconnecting[e] /\ UNCHANGED outTimer
           \/ outTimer' = [outTimer EXCEPT ![e] = TRUE]
        /\ UNCHANGED <<outAckId, inMsgId, ackTimer, loop, reconnecting>>
    BY <1>5 DEF Send, network
  <2>2. AckScheduled'
    BY <1>0, <2>1 DEF Timed, AckScheduled
  <2>3. TimeoutWatches'
    <3>1. CASE e = Client
      BY <1>0, <1>1, <2>1, <3>1 DEF Timed, TimeoutWatches, LoopEnded
    <3>2. CASE e = Server
      BY <1>0, <1>1, <2>1, <3>2 DEF Timed, TimeoutWatches
    <3> QED
      BY <3>1, <3>2 DEF End
  <2> QED
    BY <2>1, <2>2, <2>3 DEF Timed, LoopEnded
<1>6. ASSUME NEW e \in End, WriteNow(e) \/ ReplayQuietEnds(e) \/ WireLoses(e) PROVE Goal
  <2>1. UNCHANGED <<outAckId, outMsgId, inMsgId, inAckId, ackTimer, outTimer, loop,
                    reconnecting>>
    BY <1>6 DEF WriteNow, ReplayQuietEnds, WireLoses, ids, timers
  <2> QED
    BY <1>3, <1>4, <2>1
<1>7. ASSUME NEW e \in End, SendKeepAlive(e) PROVE Goal
  <2>1. /\ inAckId' = [inAckId EXCEPT ![e] = inMsgId[e]]
        /\ UNCHANGED <<outAckId, outMsgId, inMsgId, ackTimer, outTimer, loop, reconnecting>>
    BY <1>7 DEF SendKeepAlive, timers
  <2>2. AckScheduled'
    BY <1>0, <2>1 DEF Timed, AckScheduled
  <2> QED
    BY <2>1, <2>2 DEF Timed, TimeoutWatches, LoopEnded
<1>8. ASSUME NEW e \in End, AckTimerFires(e) PROVE Goal
  <2>1. UNCHANGED <<outAckId, outMsgId, inMsgId, outTimer, loop, reconnecting>>
    BY <1>8 DEF AckTimerFires
  <2>2. \/ inMsgId[e] <= inAckId[e] /\ UNCHANGED inAckId
           /\ ackTimer' = [ackTimer EXCEPT ![e] = "off"]
        \/ /\ ackTimer' = [ackTimer EXCEPT ![e] = "off"]
           /\ inAckId' = [inAckId EXCEPT ![e] = inMsgId[e]]
        \/ ackTimer' = [ackTimer EXCEPT ![e] = "due"] /\ UNCHANGED inAckId
    BY <1>8 DEF AckTimerFires, RestOfDelay
  <2>3. SUFFICES ASSUME NEW d \in End, inMsgId[d] > inAckId'[d]
                 PROVE  ackTimer'[d] # "off"
    BY <2>1, <2>3 DEF Timed, AckScheduled, TimeoutWatches, LoopEnded
  <2>4. CASE d = e
    BY <1>0, <2>2, <2>3, <2>4
  <2>5. CASE d # e
    BY <1>0, <2>2, <2>3, <2>5 DEF Timed, AckScheduled
  <2> QED
    BY <2>4, <2>5
<1>9. ASSUME NEW e \in End, AckTimeout(e) PROVE Goal
  <2>1. UNCHANGED <<outAckId, outMsgId, inMsgId, inAckId, ackTimer, reconnecting>>
    BY <1>9 DEF AckTimeout, ids
  <2>2. outTimer' = [outTimer EXCEPT ![e] = FALSE]
    BY <1>9 DEF AckTimeout
  <2>3. \/ UNCHANGED loop /\ (outMsgId[e] <= outAckId[e] \/ reconnecting[e])
        \/ loop' = IF e = Client /\ loop = "up" THEN "wait" ELSE loop
    BY <1>9 DEF AckTimeout
  <2> QED
    BY <1>1, <2>1, <2>2, <2>3 DEF Timed, AckScheduled, TimeoutWatches, LoopEnded, RestType,
                                  Core, CoreType
<1>10. ASSUME NEW e \in End, Receive(e) PROVE Goal
  <2>1. wire[e][sock[e]] # <<>>
    BY <1>10 DEF Receive, ReceiveNext, ReceiveDuplicate, ReceiveAfterGap, ReceiveAck,
                 ReceiveReplayRequest, ReceivePause, ReceiveResume, Arrives
  <2>2. Arrived(e) \in Truthful(Peer(e))
    BY <1>1, <2>1, ArrivedTruthful
  <2>3. TakeAck(e) => \A d \in End : outAckId'[d] >= outAckId[d]
    BY <1>1, <2>2, TakeAckGrows
  <2>4. ASSUME ReceiveNext(e) PROVE Goal
    <3>1. \A d \in End : outAckId'[d] >= outAckId[d]
      BY <2>3, <2>4 DEF ReceiveNext
    <3>2. AckScheduled'
      <4>1. UNCHANGED inAckId /\ inMsgId' = [inMsgId EXCEPT ![e] = Arrived(e).id]
            /\ ackTimer' = [ackTimer EXCEPT ![e] = IF @ = "off" THEN "due" ELSE "early"]
        BY <2>4 DEF ReceiveNext
      <4> QED
        BY <1>0, <4>1 DEF Timed, AckScheduled
    <3>3. UNCHANGED <<outMsgId, outTimer, loop, reconnecting>>
      BY <2>4 DEF ReceiveNext
    <3>4. outAckId' \in [End -> Nat]
      BY <1>2 DEF Core, CoreType
    <3>5. TimeoutWatches'
      <4>1. /\ outAckId'[Client] \in Nat /\ outAckId[Client] \in Nat
            /\ outMsgId[Client] \in Nat /\ outAckId'[Client] >= outAckId[Client]
        BY <1>0, <1>1, <3>1, <3>4
      <4> QED
        BY <3>3, <4>1 DEF Timed, TimeoutWatches
    <3> QED
      BY <3>2, <3>3, <3>5 DEF Timed, LoopEnded
  <2>5. ASSUME ReceiveReplayRequest(e) PROVE Goal
    <3>1. /\ outTimer' = [outTimer EXCEPT
                     ![e] = @ \/ (outMsgId[e] > outAckId[e] /\ ~reconnecting[e])]
          /\ UNCHANGED <<outAckId, outMsgId, inMsgId, inAckId, ackTimer, loop, reconnecting>>
      BY <2>5 DEF ReceiveReplayRequest, ids
    <3>2. outTimer[Client] => outTimer'[Client]
      BY <1>0, <1>1, <3>1
    <3> QED
      BY <3>1, <3>2 DEF Timed, AckScheduled, TimeoutWatches, LoopEnded
  <2>6. ASSUME ReceiveDuplicate(e) \/ ReceiveAfterGap(e) \/ ReceiveAck(e) PROVE Goal
    <3>1. UNCHANGED <<outMsgId, inMsgId, inAckId, ackTimer, outTimer, loop, reconnecting>>
      BY <2>6 DEF ReceiveDuplicate, ReceiveAfterGap, ReceiveAck, timers
    <3>2. TakeAck(e)
      BY <2>6 DEF ReceiveDuplicate, ReceiveAfterGap, ReceiveAck
    <3> QED
      BY <1>3, <2>3, <3>1, <3>2
  <2>7. ASSUME ReceivePause(e) \/ ReceiveResume(e) PROVE Goal
    <3>1. UNCHANGED <<outAckId, outMsgId, inMsgId, inAckId, ackTimer, outTimer, loop,
                      reconnecting>>
      BY <2>7 DEF ReceivePause, ReceiveResume, ids, timers
    <3> QED
      BY <1>3, <1>4, <3>1
  <2> QED
    BY <1>10, <2>4, <2>5, <2>6, <2>7 DEF Receive
<1>11. ASSUME ClientSeesClose \/ HandshakeFails \/ HandshakeTimesOut \/ ClientAsks
       PROVE  Goal
  BY <1>11 DEF ClientSeesClose, HandshakeFails, HandshakeTimesOut, ClientAsks,
               Timed, AckScheduled, TimeoutWatches, LoopEnded, ids, timers
<1>12. ASSUME ClientConnects PROVE Goal
  BY <1>1, <1>12 DEF ClientConnects, Timed, AckScheduled, TimeoutWatches, LoopEnded, ids
<1>13. ASSUME ReceiveControl PROVE Goal
  <2>1. CASE loop = "shake"
    <3>1. /\ inAckId' = [inAckId EXCEPT ![Client] = inMsgId[Client]]
          /\ reconnecting' = [reconnecting EXCEPT ![Client] = FALSE]
          /\ outTimer' = [outTimer EXCEPT ![Client] = ArmedAfterEnd(Client)]
          /\ UNCHANGED <<outMsgId, outAckId, inMsgId, ackTimer>>
      BY <1>13, <2>1 DEF ReceiveControl
    <3>2. AckScheduled'
      BY <1>0, <3>1 DEF Timed, AckScheduled
    <3>3. TimeoutWatches'
      BY <1>0, <1>1, <3>1 DEF TimeoutWatches, ArmedAfterEnd
    <3>4. LoopEnded'
      BY <1>0, <1>1, <3>1 DEF LoopEnded
    <3> QED
      BY <3>2, <3>3, <3>4 DEF Timed
  <2>2. CASE loop # "shake"
    <3>1. UNCHANGED <<outAckId, outMsgId, inMsgId, inAckId, ackTimer, outTimer, loop,
                      reconnecting>>
      BY <1>13, <2>2 DEF ReceiveControl
    <3> QED
      BY <1>3, <1>4, <3>1
  <2> QED
    BY <2>1, <2>2
<1>14. ASSUME NEW n \in Socket, HandshakeIgnores(n) \/ ServerPauses(n) \/ MovingLoses(n)
       PROVE  Goal
  <2>1. UNCHANGED <<outAckId, outMsgId, inMsgId, inAckId, ackTimer, outTimer, loop,
                    reconnecting>>
    BY <1>14 DEF HandshakeIgnores, ServerPauses, MovingLoses, ids, timers
  <2> QED
    BY <1>3, <1>4, <2>1
<1>15. ASSUME NEW n \in Socket, ServerAccepts(n) \/ ExtHostAdopts(n) PROVE Goal
  <2>1. /\ inAckId' = [inAckId EXCEPT ![Server] = inMsgId[Server]]
        /\ outTimer' = [outTimer EXCEPT ![Server] = ArmedAfterEnd(Server)]
        /\ UNCHANGED <<outMsgId, outAckId, inMsgId, ackTimer, reconnecting, loop>>
    BY <1>15 DEF ServerAccepts, ExtHostAdopts, Adopt
  <2>2. AckScheduled'
    BY <1>0, <2>1 DEF Timed, AckScheduled
  <2>3. outTimer'[Client] = outTimer[Client]
    BY <1>0, <1>1, <2>1
  <2> QED
    BY <2>1, <2>2, <2>3 DEF Timed, TimeoutWatches, LoopEnded
<1>16. ASSUME SocketDies \/ UNCHANGED vars PROVE Goal
  <2>1. UNCHANGED <<outAckId, outMsgId, inMsgId, inAckId, ackTimer, outTimer, loop,
                    reconnecting>>
    BY <1>16 DEF SocketDies, vars, ids, timers
  <2> QED
    BY <1>3, <1>4, <2>1
<1> HIDE DEF Goal
<1>17. Goal
  BY <1>5, <1>6, <1>7, <1>8, <1>9, <1>10, <1>11, <1>12, <1>13, <1>14, <1>15, <1>16 DEF Next
<1> QED
  BY <1>17 DEF Goal

\* Timed holds in every behaviour.
LEMMA TimedInvariance == Spec => []Timed
<1>1. Init => Timed
  BY DEF Init, Timed, AckScheduled, TimeoutWatches, LoopEnded, End
<1>2. IInv /\ Timed /\ [Next]_vars => Timed'
  BY TimedStep
<1> QED
  BY <1>1, <1>2, Invariance, PTL DEF Spec

\* _receiveMessage and _sendAckCheck together forget no acknowledgement: while one is
\* owed the timer runs, also when it fired before its two seconds were over.
THEOREM AcksScheduled == Spec => []AckScheduled
<1>1. Timed => AckScheduled
  BY DEF Timed
<1> QED
  BY <1>1, TimedInvariance, PTL

\* The client's _outgoingAckTimeout runs while it waits for an acknowledgement and the
\* reconnection loop does not: _recvAckCheck gives it up only when all is acknowledged,
\* or under a reconnection, whose end sets it again.
THEOREM TimeoutRuns == Spec => []TimeoutWatches
<1>1. Timed => TimeoutWatches
  BY DEF Timed
<1> QED
  BY <1>1, TimedInvariance, PTL

-----------------------------------------------------------------------------
(* PersistentProtocol implements ReliableLink *)

\* The initial states of the protocol are initial states of the link.
LEMMA InitLink == Init => Link!Init
  BY DEF Init, Link!Init, End, Link!End

\* A step of the protocol sends, delivers, or moves nothing its users see.
LEMMA StepLink == IInv /\ [Next]_vars => [Link!Next]_<<sent, recv>>
<1> SUFFICES ASSUME IInv, [Next]_vars PROVE [Link!Next]_<<sent, recv>>
  OBVIOUS
<1>1. ASSUME NEW e \in End, NEW d \in Data, Send(e, d) PROVE Link!Next
  <2>1. Link!Send(e, d)
    BY <1>1 DEF Send, Link!Send, IInv, Core, Counted
  <2> QED
    BY <2>1 DEF Link!Next, End, Link!End
<1>2. ASSUME NEW e \in End, ReceiveNext(e) PROVE Link!Next
  <2> DEFINE p == Peer(e)
             m == Arrived(e)
  <2>1. /\ wire[e][sock[e]] # <<>> /\ m.type = "Regular" /\ m.id = inMsgId[e] + 1
        /\ recv' = [recv EXCEPT ![e] = Append(@, m.data)]
        /\ UNCHANGED sent
    BY <1>2 DEF ReceiveNext, Arrives, Arrived, IsNext
  <2>2. m \in Truthful(p)
    BY <2>1, ArrivedTruthful DEF IInv
  <2>3. /\ inMsgId[e] = Len(recv[e]) /\ outMsgId[p] = Len(sent[p])
        /\ m.id \in 1..outMsgId[p] /\ m.data = sent[p][m.id] /\ Len(recv[e]) \in Nat
    BY <2>1, <2>2, PeerOfPeer DEF Truthful, IInv, Core, CoreType, Counted
  <2>4. /\ Len(recv[e]) < Len(sent[p])
        /\ recv' = [recv EXCEPT ![e] = Append(@, sent[p][Len(@) + 1])]
    <3>1. m.data = sent[p][Len(recv[e]) + 1] /\ Len(recv[e]) < Len(sent[p])
      BY <2>1, <2>3
    <3> HIDE DEF m, p
    <3> QED
      BY <2>1, <3>1
  <2>5. p = Link!Other(e)
    BY DEF Peer, Link!Other
  <2>6. Link!Deliver(e)
    <3> HIDE DEF p
    <3> QED
      BY Zenon, <2>1, <2>4, <2>5 DEF Link!Deliver
  <2> QED
    BY <2>6 DEF Link!Next, End, Link!End
<1>3. ASSUME NEW e \in End,
             \/ WriteNow(e) \/ SendKeepAlive(e) \/ AckTimerFires(e)
             \/ WireLoses(e) \/ AckTimeout(e) \/ ReplayQuietEnds(e)
      PROVE  UNCHANGED users
  BY Zenon, <1>3 DEF WriteNow, SendKeepAlive, AckTimerFires, WireLoses, AckTimeout,
              ReplayQuietEnds
<1>4. ASSUME NEW e \in End, Receive(e), ~ReceiveNext(e) PROVE UNCHANGED users
  BY <1>4 DEF Receive, ReceiveDuplicate, ReceiveAfterGap, ReceiveAck,
              ReceiveReplayRequest, ReceivePause, ReceiveResume
<1>5. ASSUME \/ ClientSeesClose \/ HandshakeFails \/ HandshakeTimesOut
             \/ SocketDies \/ ClientConnects \/ ClientAsks \/ ReceiveControl
      PROVE  UNCHANGED users
  BY <1>5 DEF ClientSeesClose, HandshakeFails, HandshakeTimesOut, SocketDies,
              ClientConnects, ClientAsks, ReceiveControl
<1>6. ASSUME NEW n \in Socket,
             \/ HandshakeIgnores(n) \/ ServerAccepts(n) \/ ServerPauses(n)
             \/ MovingLoses(n) \/ ExtHostAdopts(n)
      PROVE  UNCHANGED users
  BY <1>6 DEF HandshakeIgnores, ServerAccepts, ServerPauses, MovingLoses,
              ExtHostAdopts, Adopt
<1>7. CASE UNCHANGED vars
  BY <1>7 DEF vars, users
<1>8. UNCHANGED users => UNCHANGED <<sent, recv>>
  BY DEF users
<1> QED
  BY <1>1, <1>2, <1>3, <1>4, <1>5, <1>6, <1>7, <1>8 DEF Next

\* The users of the two ends see two reliable queues, for any number of
\* sockets, faults and messages.
THEOREM Implementation == Spec => ImplementsLink
<1>1. Link!Init /\ [][Link!Next]_<<sent, recv>> => ImplementsLink
  BY DEF ImplementsLink, Link!Spec
<1>2. Spec => Link!Init /\ [][Link!Next]_<<sent, recv>>
  BY InitLink, StepLink, Invariance, PTL DEF Spec
<1> QED
  BY <1>1, <1>2

=============================================================================
