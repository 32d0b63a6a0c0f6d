-------------------- MODULE PersistentProtocolGapProofs ---------------------
(* The proof that no end of a PersistentProtocol sees a gap (NoGap) when the     *)
(* wire loses nothing, for every number of messages, sockets and faults.         *)
(*                                                                               *)
(* What counts is everything written to an end and not yet read: the messages on *)
(* the socket and, after them, those the other end has buffered. There is no gap *)
(* in it, and it goes up to the last message sent, so that a new one may follow. *)
(* A reconnection makes such a stream anew from the queue; until it does, a new  *)
(* socket carries no regular message, whoever owns its other end.                *)
EXTENDS PersistentProtocolProofs

-----------------------------------------------------------------------------
(* The inductive invariant *)

\* No message of q is a regular one.
Plains(q) == \A i \in DOMAIN q : q[i].type # "Regular"

\* A reader that has received the messages up to base meets no gap in q.
Chained(q, base) ==
    \A i \in DOMAIN q :
        q[i].type = "Regular" =>
            \/ q[i].id <= base + 1
            \/ \E j \in 1..(i - 1) : q[j].type = "Regular" /\ q[j].id = q[i].id - 1

\* After q it has met the message last.
Complete(q, base, last) ==
    last <= base \/ \E i \in DOMAIN q : q[i].type = "Regular" /\ q[i].id = last

\* What is written next on such a stream may be the message after last.
Ready(q, base, last) == Chained(q, base) /\ Complete(q, base, last)

\* The queues hold regular messages, and nobody asks for a replay.
NoReplay ==
    /\ \A e \in End : \A i \in DOMAIN unack[e] : unack[e][i].type = "Regular"
    /\ \A e \in End : \A i \in DOMAIN buf[e] : buf[e][i].type # "ReplayRequest"
    /\ \A e \in End, n \in Socket :
          \A i \in DOMAIN wire[e][n] : wire[e][n][i].type # "ReplayRequest"

\* The server's protocol owns its socket and no other, only the client's last socket
\* is open, and what is beyond it has not been used.
Sockets ==
    /\ \A n \in Socket : owner[n] = "protocol" <=> n = sock[Server]
    /\ \A n \in Socket : open[n] => n = sock[Client]
    /\ \A n \in Socket : n > sock[Client] =>
          owner[n] = "none" /\ \A e \in End : wire[e][n] = <<>>
    /\ owner[sock[Client]] # "none"

\* A client that reconnects has written no regular message on its new socket.
ClientSilent ==
    /\ ~reconnecting[Server]
    /\ loop \in {"auth", "shake"} => reconnecting[Client]
    /\ reconnecting[Client] => Plains(buf[Client]) /\ Plains(wire[Server][sock[Client]])

\* A socket that the server's protocol does not own yet carries no regular message.
NotYetOwned ==
    /\ \A n \in Socket :
          owner[n] \in {"handshake", "moving"} => Plains(wire[Server][n])
    /\ owner[sock[Client]] = "handshake" =>
          reconnecting[Client] /\ wire[Client][sock[Client]] = <<>>

\* While the server hands its socket over, the client has been told to pause, or not
\* yet that its reconnection is over.
Moving ==
    owner[sock[Client]] = "moving" =>
        \/ /\ reconnecting[Client]
           /\ wire[Client][sock[Client]] \in {<<>>, HandoverAnswer}
        \/ /\ paused[Client]
           /\ wire[Client][sock[Client]] \in {<<>>, Tail(HandoverAnswer)}

\* What is read has no gap, and neither has what is going to be written after it.
Streams ==
    /\ \A e \in End : Chained(wire[e][sock[e]], inMsgId[e])
    /\ open[sock[Client]] /\ ~reconnecting[Client] =>
          Ready(wire[Server][sock[Client]] \o buf[Client], inMsgId[Server], outMsgId[Client])
    /\ open[sock[Client]] /\ sock[Server] = sock[Client] =>
          Ready(wire[Client][sock[Client]] \o buf[Server], inMsgId[Client], outMsgId[Server])

GapInv == NoReplay /\ Sockets /\ ClientSilent /\ NotYetOwned /\ Moving /\ Streams

-----------------------------------------------------------------------------
(* Streams of messages *)

\* The two parts of a stream.
LEMMA ConcatParts ==
    ASSUME NEW q \in Seq(Message), NEW r \in Seq(Message)
    PROVE  /\ q \o r \in Seq(Message) /\ Len(q) \in Nat /\ Len(r) \in Nat
           /\ Len(q \o r) = Len(q) + Len(r)
           /\ DOMAIN (q \o r) = 1..(Len(q) + Len(r))
           /\ DOMAIN q = 1..Len(q) /\ DOMAIN r = 1..Len(r)
           /\ \A i \in 1..Len(q) : (q \o r)[i] = q[i]
           /\ \A i \in 1..Len(r) : (q \o r)[Len(q) + i] = r[i]
           /\ \A i \in 1..(Len(q) + Len(r)) : i > Len(q) =>
                /\ i - Len(q) \in 1..Len(r)
                /\ (q \o r)[i] = r[i - Len(q)]
<1>1. q \o r \in Seq(Message) /\ Len(q \o r) = Len(q) + Len(r)
      /\ \A i \in 1..(Len(q) + Len(r)) :
            (q \o r)[i] = IF i <= Len(q) THEN q[i] ELSE r[i - Len(q)]
  BY ConcatProperties
<1>2. Len(q) \in Nat /\ Len(r) \in Nat /\ DOMAIN q = 1..Len(q) /\ DOMAIN r = 1..Len(r)
      /\ DOMAIN (q \o r) = 1..(Len(q) + Len(r))
  BY <1>1, LenProperties
<1>3. \A i \in 1..Len(q) : (q \o r)[i] = q[i]
  BY <1>1, <1>2
<1>4. \A i \in 1..Len(r) : (q \o r)[Len(q) + i] = r[i]
  <2> TAKE i \in 1..Len(r)
  <2>1. Len(q) + i \in 1..(Len(q) + Len(r)) /\ ~(Len(q) + i <= Len(q))
        /\ (Len(q) + i) - Len(q) = i
    BY <1>2
  <2> QED
    BY <1>1, <2>1
<1>5. \A i \in 1..(Len(q) + Len(r)) : i > Len(q) =>
        i - Len(q) \in 1..Len(r) /\ (q \o r)[i] = r[i - Len(q)]
  <2> TAKE i \in 1..(Len(q) + Len(r))
  <2> HAVE i > Len(q)
  <2>1. i - Len(q) \in 1..Len(r) /\ ~(i <= Len(q))
    BY <1>2
  <2> QED
    BY <1>1, <2>1
<1> QED
  BY <1>1, <1>2, <1>3, <1>4, <1>5

\* The message taken from a stream and the rest of it.
LEMMA TailParts ==
    ASSUME NEW q \in Seq(Message), q # <<>>
    PROVE  /\ Tail(q) \in Seq(Message) /\ Len(q) \in Nat \ {0} /\ Head(q) = q[1]
           /\ Head(q) \in Message /\ DOMAIN q = 1..Len(q)
           /\ DOMAIN Tail(q) = 1..(Len(q) - 1)
           /\ \A i \in 1..(Len(q) - 1) : Tail(q)[i] = q[i + 1]
  BY HeadTailProperties, LenProperties, EmptySeq

\* The ids of a stream are numbers.
LEMMA MessageId ==
    ASSUME NEW q \in Seq(Message)
    PROVE  /\ DOMAIN q = 1..Len(q) /\ Len(q) \in Nat
           /\ \A i \in DOMAIN q : q[i] \in Message /\ q[i].id \in Nat
<1>1. DOMAIN q = 1..Len(q) /\ Len(q) \in Nat
  BY LenProperties
<1>2. \A i \in DOMAIN q : q[i] \in Message
  BY ElementOfSeq
<1>3. \A m \in Message : m.id \in Nat
  BY DEF Message
<1> QED
  BY <1>1, <1>2, <1>3

\* Three parts of a stream.
LEMMA Regroup ==
    ASSUME NEW q \in Seq(Message), NEW r \in Seq(Message), NEW s \in Seq(Message)
    PROVE  (q \o r) \o s = q \o (r \o s)
  BY ConcatAssociative

\* Streams of plain messages one after the other.
LEMMA PlainsConcat ==
    ASSUME NEW q \in Seq(Message), NEW r \in Seq(Message), Plains(q), Plains(r)
    PROVE  Plains(q \o r)
<1> SUFFICES ASSUME NEW i \in DOMAIN (q \o r) PROVE (q \o r)[i].type # "Regular"
  BY DEF Plains
<1>1. CASE i <= Len(q)
  BY <1>1, ConcatParts DEF Plains
<1>2. CASE i > Len(q)
  BY <1>2, ConcatParts DEF Plains
<1> QED
  BY <1>1, <1>2, ConcatParts

\* The same for streams without replay requests.
LEMMA TypesConcat ==
    ASSUME NEW q \in Seq(Message), NEW r \in Seq(Message), NEW t,
           \A i \in DOMAIN q : q[i].type # t, \A i \in DOMAIN r : r[i].type # t
    PROVE  \A i \in DOMAIN (q \o r) : (q \o r)[i].type # t
<1> TAKE i \in DOMAIN (q \o r)
<1>1. CASE i <= Len(q)
  BY <1>1, ConcatParts
<1>2. CASE i > Len(q)
  BY <1>2, ConcatParts
<1> QED
  BY <1>1, <1>2, ConcatParts

\* And the rest of such a stream.
LEMMA TypesTail ==
    ASSUME NEW q \in Seq(Message), q # <<>>, NEW t, \A i \in DOMAIN q : q[i].type # t
    PROVE  \A i \in DOMAIN Tail(q) : Tail(q)[i].type # t
<1> TAKE i \in DOMAIN Tail(q)
<1>1. i + 1 \in DOMAIN q /\ Tail(q)[i] = q[i + 1]
  BY TailParts
<1> QED
  BY <1>1

\* A reader that has received more meets no more gaps.
LEMMA ChainedGrows ==
    ASSUME NEW q \in Seq(Message), NEW b \in Nat, NEW c \in Nat, b <= c, Chained(q, b)
    PROVE  Chained(q, c)
  BY MessageId DEF Chained

\* The same for what may still be written on it.
LEMMA ReadyGrows ==
    ASSUME NEW q \in Seq(Message), NEW b \in Nat, NEW c \in Nat, b <= c, NEW n \in Nat,
           Ready(q, b, n)
    PROVE  Ready(q, c, n)
  BY ChainedGrows DEF Ready, Complete

\* The beginning of a stream without gaps has none.
LEMMA ChainedPrefix ==
    ASSUME NEW q \in Seq(Message), NEW r \in Seq(Message), NEW b \in Nat, Chained(q \o r, b)
    PROVE  Chained(q, b)
<1> SUFFICES ASSUME NEW i \in DOMAIN q, q[i].type = "Regular", ~(q[i].id <= b + 1)
             PROVE  \E j \in 1..(i - 1) : q[j].type = "Regular" /\ q[j].id = q[i].id - 1
  BY DEF Chained
<1>1. i \in 1..Len(q) /\ Len(q) \in Nat /\ i \in DOMAIN (q \o r) /\ (q \o r)[i] = q[i]
  BY ConcatParts
<1>2. PICK j \in 1..(i - 1) :
         (q \o r)[j].type = "Regular" /\ (q \o r)[j].id = q[i].id - 1
  BY <1>1 DEF Chained
<1>3. j \in 1..Len(q)
  BY <1>1
<1>4. (q \o r)[j] = q[j]
  BY <1>3, ConcatParts
<1> QED
  BY <1>2, <1>4

\* Plain messages after a stream,
LEMMA ChainedThenPlains ==
    ASSUME NEW q \in Seq(Message), NEW r \in Seq(Message), NEW b \in Nat, Chained(q, b),
           Plains(r)
    PROVE  Chained(q \o r, b)
<1> SUFFICES ASSUME NEW i \in DOMAIN (q \o r), (q \o r)[i].type = "Regular",
                    ~((q \o r)[i].id <= b + 1)
             PROVE  \E j \in 1..(i - 1) : /\ (q \o r)[j].type = "Regular"
                                          /\ (q \o r)[j].id = (q \o r)[i].id - 1
  BY DEF Chained
<1>1. i \in 1..(Len(q) + Len(r)) /\ Len(q) \in Nat /\ Len(r) \in Nat
  BY ConcatParts
<1>2. i <= Len(q)
  BY <1>1, ConcatParts DEF Plains
<1>3. i \in DOMAIN q /\ (q \o r)[i] = q[i]
  BY <1>1, <1>2, ConcatParts
<1>4. PICK j \in 1..(i - 1) : q[j].type = "Regular" /\ q[j].id = q[i].id - 1
  BY <1>3 DEF Chained
<1>5. j \in 1..Len(q)
  BY <1>1, <1>2
<1>6. (q \o r)[j] = q[j]
  BY <1>5, ConcatParts
<1> QED
  BY <1>3, <1>4, <1>6

\* which let the same message be the next,
LEMMA ReadyThenPlains ==
    ASSUME NEW q \in Seq(Message), NEW r \in Seq(Message), NEW b \in Nat, NEW n \in Nat,
           Ready(q, b, n), Plains(r)
    PROVE  Ready(q \o r, b, n)
<1>1. Chained(q \o r, b)
  BY ChainedThenPlains DEF Ready
<1>2. ASSUME NEW i \in DOMAIN q, q[i].type = "Regular", q[i].id = n
      PROVE  \E k \in DOMAIN (q \o r) : (q \o r)[k].type = "Regular" /\ (q \o r)[k].id = n
  <2>1. i \in DOMAIN (q \o r) /\ (q \o r)[i] = q[i]
    BY ConcatParts
  <2> QED
    BY <1>2, <2>1
<1> QED
  BY <1>1, <1>2 DEF Ready, Complete

\* and before one.
LEMMA PlainsThenReady ==
    ASSUME NEW q \in Seq(Message), NEW r \in Seq(Message), NEW b \in Nat, NEW n \in Nat,
           Plains(q), Ready(r, b, n)
    PROVE  Ready(q \o r, b, n)
<1>0. Len(q) \in Nat /\ Len(r) \in Nat /\ DOMAIN (q \o r) = 1..(Len(q) + Len(r))
      /\ DOMAIN q = 1..Len(q) /\ DOMAIN r = 1..Len(r)
  BY ConcatParts
<1>1. ASSUME NEW i \in DOMAIN r
      PROVE  Len(q) + i \in DOMAIN (q \o r) /\ (q \o r)[Len(q) + i] = r[i]
  BY <1>0, ConcatParts
<1>2. Chained(q \o r, b)
  <2> SUFFICES ASSUME NEW i \in DOMAIN (q \o r), (q \o r)[i].type = "Regular",
                      ~((q \o r)[i].id <= b + 1)
               PROVE  \E j \in 1..(i - 1) : /\ (q \o r)[j].type = "Regular"
                                            /\ (q \o r)[j].id = (q \o r)[i].id - 1
    BY DEF Chained
  <2>1. i > Len(q)
    BY <1>0, ConcatParts DEF Plains
  <2>2. i - Len(q) \in DOMAIN r /\ (q \o r)[i] = r[i - Len(q)]
    BY <1>0, <2>1, ConcatParts
  <2>3. PICK j \in 1..(i - Len(q) - 1) :
           r[j].type = "Regular" /\ r[j].id = r[i - Len(q)].id - 1
    BY <2>2 DEF Chained, Ready
  <2>4. j \in DOMAIN r /\ Len(q) + j \in 1..(i - 1)
    BY <1>0, <2>1, <2>2
  <2> QED
    BY <1>1, <2>2, <2>3, <2>4
<1>3. ASSUME NEW i \in DOMAIN r, r[i].type = "Regular", r[i].id = n
      PROVE  \E k \in DOMAIN (q \o r) : (q \o r)[k].type = "Regular" /\ (q \o r)[k].id = n
  BY <1>1, <1>3
<1> QED
  BY <1>2, <1>3 DEF Ready, Complete

\* The next message may follow.
LEMMA ReadyAppend ==
    ASSUME NEW q \in Seq(Message), NEW m \in Message, NEW b \in Nat, NEW n \in Nat,
           Ready(q, b, n), m.type = "Regular", m.id = n + 1
    PROVE  Ready(q \o <<m>>, b, n + 1)
<1> DEFINE s == q \o <<m>>
<1>0. <<m>> \in Seq(Message) /\ Len(<<m>>) = 1 /\ <<m>>[1] = m
  OBVIOUS
<1>1. /\ Len(q) \in Nat /\ DOMAIN q = 1..Len(q) /\ DOMAIN s = 1..(Len(q) + 1)
      /\ \A i \in 1..Len(q) : s[i] = q[i]
  BY <1>0, ConcatParts
<1>2. s[Len(q) + 1] = m
  BY <1>0, ConcatParts
<1> HIDE DEF s
<1>3. Chained(s, b)
  <2> SUFFICES ASSUME NEW i \in DOMAIN s, s[i].type = "Regular", ~(s[i].id <= b + 1)
               PROVE  \E j \in 1..(i - 1) : s[j].type = "Regular" /\ s[j].id = s[i].id - 1
    BY DEF Chained
  <2>1. CASE i \in DOMAIN q
    <3>1. PICK j \in 1..(i - 1) : q[j].type = "Regular" /\ q[j].id = q[i].id - 1
      BY <1>1, <2>1 DEF Ready, Chained
    <3>2. j \in 1..Len(q)
      BY <1>1, <2>1
    <3> QED
      BY <1>1, <2>1, <3>1, <3>2
  <2>2. CASE i = Len(q) + 1
    <3>1. ~(n <= b)
      BY <1>2, <2>2
    <3>2. PICK j \in DOMAIN q : q[j].type = "Regular" /\ q[j].id = n
      BY <3>1 DEF Ready, Complete
    <3>3. s[i].id - 1 = n
      BY <1>2, <2>2
    <3>4. j \in 1..(i - 1) /\ s[j] = q[j]
      BY <1>1, <2>2, <3>2
    <3> QED
      BY <3>2, <3>3, <3>4
  <2> QED
    BY <1>1, <2>1, <2>2
<1>4. Complete(s, b, n + 1)
  BY <1>1, <1>2 DEF Complete
<1> QED
  BY <1>3, <1>4 DEF Ready, s

\* The message that is read is the next one or an old one; then the rest has no gap.
LEMMA ChainedHead ==
    ASSUME NEW q \in Seq(Message), q # <<>>, NEW b \in Nat, Chained(q, b),
           Head(q).type = "Regular"
    PROVE  Head(q).id <= b + 1
<1>1. 1 \in DOMAIN q /\ Head(q) = q[1]
  BY TailParts
<1> QED
  BY <1>1 DEF Chained

\* and a stream without gaps has none after its first message was read,
LEMMA ChainedTail ==
    ASSUME NEW q \in Seq(Message), q # <<>>, NEW b \in Nat, Chained(q, b),
           NEW c \in Nat, b <= c, Head(q).type = "Regular" => Head(q).id <= c
    PROVE  Chained(Tail(q), c)
<1>0. /\ Tail(q) \in Seq(Message) /\ Head(q) = q[1] /\ Len(q) \in Nat
      /\ DOMAIN q = 1..Len(q) /\ DOMAIN Tail(q) = 1..(Len(q) - 1)
  BY TailParts
<1> SUFFICES ASSUME NEW i \in DOMAIN Tail(q), Tail(q)[i].type = "Regular",
                    ~(Tail(q)[i].id <= c + 1)
             PROVE  \E j \in 1..(i - 1) : /\ Tail(q)[j].type = "Regular"
                                          /\ Tail(q)[j].id = Tail(q)[i].id - 1
  BY DEF Chained
<1>1. i + 1 \in DOMAIN q /\ Tail(q)[i] = q[i + 1] /\ i \in Nat
  BY <1>0, TailParts
<1>2. q[i + 1].id \in Nat
  BY <1>1, MessageId
<1>3. PICK j \in 1..i : q[j].type = "Regular" /\ q[j].id = q[i + 1].id - 1
  BY <1>1, <1>2 DEF Chained
<1>4. j # 1
  BY <1>0, <1>1, <1>2, <1>3
<1>5. j - 1 \in 1..(i - 1) /\ j - 1 \in DOMAIN Tail(q) /\ (j - 1) + 1 = j
  BY <1>0, <1>1, <1>3, <1>4
<1>6. Tail(q)[j - 1] = q[j]
  BY <1>0, <1>5, TailParts
<1> QED
  BY <1>1, <1>3, <1>5, <1>6

\* with the same message to be written next.
LEMMA ReadyTail ==
    ASSUME NEW q \in Seq(Message), q # <<>>, NEW b \in Nat, NEW n \in Nat, Ready(q, b, n),
           NEW c \in Nat, b <= c, Head(q).type = "Regular" => Head(q).id <= c
    PROVE  Ready(Tail(q), c, n)
<1>0. /\ Tail(q) \in Seq(Message) /\ Head(q) = q[1] /\ Len(q) \in Nat
      /\ DOMAIN q = 1..Len(q) /\ DOMAIN Tail(q) = 1..(Len(q) - 1)
  BY TailParts
<1>1. Chained(Tail(q), c)
  BY ChainedTail DEF Ready
<1>2. ASSUME ~(n <= c)
      PROVE  \E i \in DOMAIN Tail(q) : Tail(q)[i].type = "Regular" /\ Tail(q)[i].id = n
  <2>1. PICK i \in DOMAIN q : q[i].type = "Regular" /\ q[i].id = n
    BY <1>2 DEF Ready, Complete
  <2>2. i # 1
    BY <1>0, <1>2, <2>1
  <2>3. i - 1 \in 1..(Len(q) - 1) /\ (i - 1) + 1 = i
    BY <1>0, <2>1, <2>2
  <2>4. Tail(q)[i - 1] = q[i]
    BY <2>3, TailParts
  <2> QED
    BY <1>0, <2>1, <2>3, <2>4
<1> QED
  BY <1>1, <1>2 DEF Ready, Complete

\* Taking the first message of the first of two parts.
LEMMA TailOfConcat ==
    ASSUME NEW q \in Seq(Message), NEW r \in Seq(Message), q # <<>>
    PROVE  q \o r # <<>> /\ Tail(q \o r) = Tail(q) \o r /\ Head(q \o r) = Head(q)
<1>1. Len(q) \in Nat \ {0} /\ Len(r) \in Nat
  BY TailParts, ConcatParts
<1>2. q \o r \in Seq(Message) /\ Len(q \o r) = Len(q) + Len(r)
  BY ConcatParts
<1>3. q \o r # <<>>
  BY <1>1, <1>2, EmptySeq
<1>4. Head(q \o r) = Head(q)
  BY <1>1, <1>3, <1>2, TailParts, ConcatParts
<1>5. /\ Tail(q) \in Seq(Message) /\ Len(Tail(q)) = Len(q) - 1
      /\ Tail(q \o r) \in Seq(Message) /\ Len(Tail(q \o r)) = Len(q) + Len(r) - 1
  BY <1>1, <1>2, <1>3, HeadTailProperties
<1>6. Tail(q) \o r \in Seq(Message) /\ Len(Tail(q) \o r) = Len(q) - 1 + Len(r)
  BY <1>1, <1>5, ConcatParts
<1>7. ASSUME NEW i \in 1..(Len(q) + Len(r) - 1)
      PROVE  Tail(q \o r)[i] = (Tail(q) \o r)[i]
  <2>1. Tail(q \o r)[i] = (q \o r)[i + 1] /\ i + 1 \in 1..(Len(q) + Len(r))
    BY <1>1, <1>2, <1>3, TailParts
  <2>2. CASE i <= Len(q) - 1
    <3>1. i \in 1..(Len(q) - 1) /\ i + 1 \in 1..Len(q)
      BY <1>1, <2>2
    <3>2. (q \o r)[i + 1] = q[i + 1] /\ Tail(q)[i] = q[i + 1]
      BY <3>1, ConcatParts, TailParts
    <3>3. (Tail(q) \o r)[i] = Tail(q)[i]
      BY <1>5, <3>1, ConcatParts
    <3> QED
      BY <2>1, <3>2, <3>3
  <2>3. CASE i > Len(q) - 1
    <3>1. /\ i + 1 > Len(q) /\ i + 1 - Len(q) = i - (Len(q) - 1)
          /\ i \in 1..((Len(q) - 1) + Len(r))
      BY <1>1, <2>3
    <3>2. (q \o r)[i + 1] = r[i + 1 - Len(q)]
      BY <2>1, <3>1, ConcatParts
    <3>3. (Tail(q) \o r)[i] = r[i - (Len(q) - 1)]
      BY <1>5, <2>3, <3>1, ConcatParts
    <3> QED
      BY <2>1, <3>1, <3>2, <3>3
  <2> QED
    BY <1>1, <2>2, <2>3
<1>8. Len(q) + Len(r) - 1 = Len(q) - 1 + Len(r)
  BY <1>1
<1>9. Tail(q \o r) = Tail(q) \o r
  <2> DEFINE s == Tail(q \o r)
             t == Tail(q) \o r
  <2>1. s \in Seq(Message) /\ t \in Seq(Message) /\ Len(s) = Len(t)
        /\ \A i \in 1..Len(s) : s[i] = t[i]
    BY <1>5, <1>6, <1>7, <1>8
  <2> HIDE DEF s, t
  <2>2. s = t
    BY <2>1, SeqEqual
  <2> QED
    BY <2>2 DEF s, t
<1> QED
  BY <1>3, <1>4, <1>9

\* What the end of a reconnection writes again.
LEMMA RewriteReady ==
    ASSUME IInv, NoReplay, NEW e \in End
    PROVE  /\ Rewrite(e) \in Seq(Message)
           /\ Ready(Rewrite(e), inMsgId[Peer(e)], outMsgId[e])
           /\ \A i \in DOMAIN Rewrite(e) : Rewrite(e)[i].type # "ReplayRequest"
<1> DEFINE a == outAckId[e]
           u == unack[e]
           p == <<Plain("Ack", inMsgId[e])>>
           b == inMsgId[Peer(e)]
           n == outMsgId[e]
<1>1. /\ a \in Nat /\ b \in Nat /\ n \in Nat /\ inMsgId[e] \in Nat /\ u \in Seq(Message)
  BY PeerOfPeer DEF IInv, Core, CoreType, QueueOK
<1>2. /\ a <= b /\ Len(u) = n - a
      /\ \A i \in 1..Len(u) : u[i].id = a + i
  BY DEF IInv, Core, NothingForgotten
<1>3. DOMAIN u = 1..Len(u) /\ Len(u) \in Nat /\ \A i \in 1..Len(u) : u[i].type = "Regular"
  BY <1>1, MessageId DEF NoReplay
<1>4. Plain("Ack", inMsgId[e]) \in Message
  BY <1>1 DEF Plain, Message, MessageType
<1>5. p \in Seq(Message) /\ Plains(p) /\ p[1].type = "Ack" /\ DOMAIN p = {1}
  BY <1>4 DEF Plains, Plain
<1> HIDE DEF p, u, a, b, n
<1>6. Chained(u, b)
  <2> SUFFICES ASSUME NEW i \in 1..Len(u), ~(u[i].id <= b + 1)
               PROVE  \E j \in 1..(i - 1) : u[j].type = "Regular" /\ u[j].id = u[i].id - 1
    BY <1>3 DEF Chained
  <2>1. u[i].id = a + i /\ i # 1
    BY <1>1, <1>2
  <2>2. i - 1 \in 1..(i - 1) /\ i - 1 \in 1..Len(u)
    BY <1>3, <2>1
  <2>3. u[i - 1].id = a + (i - 1) /\ u[i - 1].type = "Regular"
    BY <1>2, <1>3, <2>2
  <2>4. a + (i - 1) = (a + i) - 1
    BY <1>1
  <2> QED
    BY <2>1, <2>2, <2>3, <2>4
<1>7. Complete(u, b, n)
  <2>1. CASE n <= b
    BY <2>1 DEF Complete
  <2>2. CASE ~(n <= b)
    <3>1. Len(u) \in 1..Len(u) /\ a + Len(u) = n
      BY <1>1, <1>2, <1>3, <2>2
    <3> QED
      BY <1>2, <1>3, <3>1 DEF Complete
  <2> QED
    BY <2>1, <2>2
<1>8. Ready(u, b, n)
  BY <1>6, <1>7 DEF Ready
<1>9. Rewrite(e) = p \o u
  BY DEF Rewrite, p, u
<1>10. p \o u \in Seq(Message)
  BY <1>1, <1>5, ConcatParts
<1>11. Ready(p \o u, b, n)
  BY <1>1, <1>5, <1>8, PlainsThenReady
<1>12. /\ \A i \in DOMAIN p : p[i].type # "ReplayRequest"
       /\ \A i \in DOMAIN u : u[i].type # "ReplayRequest"
  BY <1>3, <1>5
<1>13. \A i \in DOMAIN (p \o u) : (p \o u)[i].type # "ReplayRequest"
  BY <1>1, <1>5, <1>12, TypesConcat
<1> QED
  BY <1>9, <1>10, <1>11, <1>13 DEF b, n

-----------------------------------------------------------------------------
(* The steps *)

\* The two ends.
LEMMA Ends ==
    /\ Client \in End /\ Server \in End /\ Client # Server
    /\ Peer(Client) = Server /\ Peer(Server) = Client
    /\ \A e \in End : e = Client \/ e = Server
  BY ProtocolAssumption DEF End, Peer

\* What the proofs below need of the types.
LEMMA GapTypes ==
    ASSUME TypeOK
    PROVE  /\ buf \in [End -> Seq(Message)] /\ wire \in [End -> [Socket -> Seq(Message)]]
           /\ unack \in [End -> Seq(Message)]
           /\ inMsgId \in [End -> Nat] /\ outMsgId \in [End -> Nat]
           /\ sock \in [End -> Socket] /\ open \in [Socket -> BOOLEAN]
           /\ reconnecting \in [End -> BOOLEAN] /\ paused \in [End -> BOOLEAN]
           /\ owner \in [Socket -> {"none", "handshake", "moving", "protocol", "gone"}]
           /\ \A e \in End : /\ buf[e] \in Seq(Message) /\ unack[e] \in Seq(Message)
                             /\ inMsgId[e] \in Nat /\ outMsgId[e] \in Nat /\ sock[e] \in Socket
           /\ \A e \in End, n \in Socket : wire[e][n] \in Seq(Message)
  BY DEF TypeOK

\* One queue of the wire is replaced.
LEMMA WireExcept ==
    ASSUME NEW w \in [End -> [Socket -> Seq(Message)]], NEW e \in End, NEW n \in Socket, NEW s
    PROVE  \A d \in End, m \in Socket :
              [w EXCEPT ![e][n] = s][d][m] = IF d = e /\ m = n THEN s ELSE w[d][m]
  OBVIOUS

\* Nothing moves.
LEMMA NothingMoves ==
    ASSUME GapInv,
           UNCHANGED <<unack, buf, wire, inMsgId, outMsgId, sock, owner, paused, reconnecting>>,
           \A n \in Socket : open'[n] => open[n],
           loop' \in {"auth", "shake"} => reconnecting[Client],
           sock[Client] \in Socket
    PROVE  GapInv'
<1>1. NoReplay'
  BY DEF GapInv, NoReplay
<1>2. Sockets'
  BY DEF GapInv, Sockets
<1>3. ClientSilent'
  BY DEF GapInv, ClientSilent
<1>4. NotYetOwned' /\ Moving'
  BY DEF GapInv, NotYetOwned, Moving
<1>5. Streams'
  BY DEF GapInv, Streams
<1> QED
  BY <1>1, <1>2, <1>3, <1>4, <1>5 DEF GapInv

\* An end writes plain messages.
LEMMA WritesPlain ==
    ASSUME GapInv, TypeOK, NEW e \in End, NEW p \in Seq(Message), Plains(p),
           \A i \in DOMAIN p : p[i].type # "ReplayRequest", Write(e, p),
           UNCHANGED <<unack, wire, inMsgId, outMsgId, sock, owner,
                       open, paused, reconnecting>>,
           loop' \in {"auth", "shake"} => reconnecting[Client]
    PROVE  GapInv'
<1>1. \A d \in End : buf'[d] = IF d = e THEN buf[e] \o p ELSE buf[d]
  BY GapTypes DEF Write
<1>2. NoReplay'
  <2>1. \A i \in DOMAIN (buf[e] \o p) : (buf[e] \o p)[i].type # "ReplayRequest"
    BY GapTypes, TypesConcat DEF GapInv, NoReplay
  <2>2. ASSUME NEW d \in End PROVE \A i \in DOMAIN buf'[d] : buf'[d][i].type # "ReplayRequest"
    <3>1. CASE d = e
      BY <1>1, <2>1, <3>1
    <3>2. CASE d # e
      BY <1>1, <3>2 DEF GapInv, NoReplay
    <3> QED
      BY <3>1, <3>2
  <2> QED
    BY <2>2 DEF GapInv, NoReplay
<1>3. Sockets' /\ NotYetOwned' /\ Moving'
  BY DEF GapInv, Sockets, NotYetOwned, Moving
<1>4. ClientSilent'
  <2>1. Plains(buf[Client]) => Plains(buf'[Client])
    <3>1. buf[Client] \in Seq(Message)
      BY GapTypes, Ends
    <3>2. Plains(buf[Client]) => Plains(buf[Client] \o p)
      BY <3>1, PlainsConcat
    <3>3. buf'[Client] \in {buf[Client], buf[Client] \o p}
      BY <1>1, Ends
    <3> QED
      BY <3>2, <3>3
  <2> QED
    BY <2>1 DEF GapInv, ClientSilent
<1>5. ASSUME NEW d \in End, NEW q \in Seq(Message), NEW b \in Nat, NEW n \in Nat,
             Ready(q \o buf[d], b, n)
      PROVE  Ready(q \o buf'[d], b, n)
  <2>1. buf[d] \in Seq(Message) /\ q \o buf[d] \in Seq(Message)
    BY GapTypes, ConcatParts
  <2>2. Ready((q \o buf[d]) \o p, b, n)
    BY <1>5, <2>1, ReadyThenPlains
  <2>3. (q \o buf[d]) \o p = q \o (buf[d] \o p)
    BY <2>1, Regroup
  <2> QED
    BY <1>1, <1>5, <2>2, <2>3
<1>6. Streams'
  <2>1. sock[Client] \in Socket /\ wire[Server][sock[Client]] \in Seq(Message)
        /\ wire[Client][sock[Client]] \in Seq(Message)
        /\ \A d \in End : inMsgId[d] \in Nat /\ outMsgId[d] \in Nat
    BY GapTypes, Ends
  <2> QED
    BY <1>5, <2>1, Ends DEF GapInv, Streams
<1> QED
  BY <1>2, <1>3, <1>4, <1>6 DEF GapInv

\* An end takes a message that is no gap.
LEMMA TakesMessage ==
    ASSUME GapInv, TypeOK, NEW e \in End, wire[e][sock[e]] # <<>>, Consume(e),
           NEW c \in Nat, inMsgId[e] <= c, inMsgId' = [inMsgId EXCEPT ![e] = c],
           Arrived(e).type = "Regular" => Arrived(e).id <= c,
           \A d \in End : \A i \in DOMAIN unack'[d] : unack'[d][i].type = "Regular",
           UNCHANGED <<buf, outMsgId, sock, owner, open, reconnecting, loop>>,
           Moving'
    PROVE  GapInv'
<1> DEFINE q == wire[e][sock[e]]
<1>1. q \in Seq(Message) /\ q # <<>> /\ Arrived(e) = Head(q) /\ Tail(q) \in Seq(Message)
  BY GapTypes, TailParts DEF Arrived
<1>2. \A d \in End, m \in Socket :
         wire'[d][m] = IF d = e /\ m = sock[e] THEN Tail(q) ELSE wire[d][m]
  BY GapTypes, WireExcept DEF Consume
<1>3. \A d \in End : inMsgId'[d] = IF d = e THEN c ELSE inMsgId[d]
  BY GapTypes
<1>4. sock[e] \in Socket /\ sock[Client] \in Socket /\ sock[Server] \in Socket
      /\ inMsgId[e] \in Nat
  BY GapTypes, Ends
<1> HIDE DEF q
<1>5. NoReplay'
  <2>1. \A i \in DOMAIN q : q[i].type # "ReplayRequest"
    BY <1>4 DEF GapInv, NoReplay, q
  <2>2. \A i \in DOMAIN Tail(q) : Tail(q)[i].type # "ReplayRequest"
    BY <1>1, <2>1, TypesTail
  <2>3. ASSUME NEW d \in End, NEW n \in Socket
        PROVE  \A i \in DOMAIN wire'[d][n] : wire'[d][n][i].type # "ReplayRequest"
    <3>1. CASE d = e /\ n = sock[e]
      BY <1>2, <2>2, <3>1
    <3>2. CASE ~(d = e /\ n = sock[e])
      BY <1>2, <3>2 DEF GapInv, NoReplay
    <3> QED
      BY <3>1, <3>2
  <2> QED
    BY <2>3 DEF GapInv, NoReplay
<1>6. Sockets'
  <2>1. \A n \in Socket : n > sock[Client] => ~(wire[e][n] # <<>>)
    BY DEF GapInv, Sockets
  <2>2. ~(sock[e] > sock[Client])
    BY <1>1, <1>4, <2>1 DEF q
  <2> QED
    BY <1>2, <1>4, <2>2 DEF GapInv, Sockets
<1>7. \A d \in End, n \in Socket : Plains(wire[d][n]) => Plains(wire'[d][n])
  <2>1. Plains(q) => Plains(Tail(q))
    BY <1>1, TypesTail DEF Plains
  <2> QED
    BY <1>2, <2>1 DEF q
<1>8. ClientSilent'
  BY <1>4, <1>7, Ends DEF GapInv, ClientSilent
<1>9. NotYetOwned'
  <2>1. owner[sock[Client]] = "handshake" => wire'[Client][sock[Client]] = <<>>
    BY <1>1, <1>2, <1>4, Ends DEF GapInv, NotYetOwned, q
  <2> QED
    BY <1>7, <2>1, Ends DEF GapInv, NotYetOwned
<1>10. Streams'
  <2>1. \A d \in End : Chained(wire'[d][sock[d]], inMsgId'[d])
    <3>1. Chained(q, inMsgId[e])
      BY DEF GapInv, Streams, q
    <3>2. Chained(Tail(q), c)
      BY <1>1, <1>4, <3>1, ChainedTail
    <3> QED
      BY <1>2, <1>3, <3>2, GapTypes DEF GapInv, Streams
  <2>2. ASSUME NEW r \in Seq(Message), NEW n \in Nat, Ready(q \o r, inMsgId[e], n)
        PROVE  Ready(Tail(q) \o r, c, n)
    <3>1. q \o r \in Seq(Message) /\ q \o r # <<>> /\ Tail(q \o r) = Tail(q) \o r
          /\ Head(q \o r) = Head(q)
      BY <1>1, TailOfConcat, ConcatParts
    <3>2. Ready(Tail(q \o r), c, n)
      BY <1>1, <1>4, <2>2, <3>1, ReadyTail
    <3> QED
      BY <3>1, <3>2
  <2>3. ASSUME NEW r \in Seq(Message), NEW n \in Nat, NEW s \in Seq(Message),
               Ready(s \o r, inMsgId[e], n)
        PROVE  Ready(s \o r, c, n)
    <3>1. s \o r \in Seq(Message)
      BY ConcatParts
    <3> QED
      BY <1>4, <2>3, <3>1, ReadyGrows
  <2>4. ASSUME open[sock[Client]], ~reconnecting[Client]
        PROVE  Ready(wire'[Server][sock[Client]] \o buf[Client], inMsgId'[Server],
                     outMsgId[Client])
    <3>1. Ready(wire[Server][sock[Client]] \o buf[Client], inMsgId[Server], outMsgId[Client])
      BY <2>4 DEF GapInv, Streams
    <3>2. buf[Client] \in Seq(Message) /\ outMsgId[Client] \in Nat
          /\ wire[Server][sock[Client]] \in Seq(Message)
      BY <1>4, GapTypes, Ends
    <3>3. CASE e = Client
      BY <1>2, <1>3, <1>4, <3>1, <3>3, Ends
    <3>4. CASE e = Server /\ sock[Client] = sock[Server]
      BY <1>2, <1>3, <1>4, <2>2, <3>1, <3>2, <3>4, Ends DEF q
    <3>5. CASE e = Server /\ sock[Client] # sock[Server]
      BY <1>2, <1>3, <1>4, <2>3, <3>1, <3>2, <3>5, Ends DEF q
    <3> QED
      BY <3>3, <3>4, <3>5, Ends
  <2>5. ASSUME open[sock[Client]], sock[Server] = sock[Client]
        PROVE  Ready(wire'[Client][sock[Client]] \o buf[Server], inMsgId'[Client],
                     outMsgId[Server])
    <3>1. Ready(wire[Client][sock[Client]] \o buf[Server], inMsgId[Client], outMsgId[Server])
      BY <2>5 DEF GapInv, Streams
    <3>2. buf[Server] \in Seq(Message) /\ outMsgId[Server] \in Nat
      BY GapTypes, Ends
    <3>3. CASE e = Server
      BY <1>2, <1>3, <1>4, <3>1, <3>3, Ends
    <3>4. CASE e = Client
      BY <1>2, <1>3, <1>4, <2>2, <3>1, <3>2, <3>4, Ends DEF q
    <3> QED
      BY <3>3, <3>4, Ends
  <2> QED
    BY <2>1, <2>4, <2>5 DEF Streams
<1> QED
  BY <1>5, <1>6, <1>8, <1>9, <1>10 DEF GapInv

\* The empty stream.
LEMMA EmptyParts ==
    ASSUME NEW q \in Seq(Message)
    PROVE  q \o <<>> = q /\ <<>> \o q = q /\ Plains(<<>>) /\ <<>> \in Seq(Message)
<1>1. <<>> \in Seq(Message) /\ Plains(<<>>)
  BY DEF Plains
<1>2. q \o <<>> = q /\ <<>> \o q = q
  BY ConcatEmptySeq
<1> QED
  BY <1>1, <1>2

\* Plain messages make no gap.
LEMMA PlainsChained ==
    ASSUME NEW q \in Seq(Message), NEW b \in Nat, Plains(q)
    PROVE  Chained(q, b)
  BY DEF Plains, Chained

\* What the queue of an end keeps after an acknowledgement was regular before.
LEMMA QueueRegular ==
    ASSUME IInv, NoReplay, NEW e \in End, Arrived(e) \in Truthful(Peer(e)), TakeAck(e)
    PROVE  \A d \in End : \A i \in DOMAIN unack'[d] : unack'[d][i].type = "Regular"
<1> DEFINE a == Arrived(e).ack
           q == unack[e]
           base == outAckId[e]
           r == SubSeq(q, a - base + 1, Len(q))
<1>1. a \in Nat /\ a <= inMsgId[Peer(e)]
  BY DEF Truthful, Message
<1>2. inMsgId[Peer(e)] <= outMsgId[e] /\ base <= outMsgId[e]
  BY PeerOfPeer DEF IInv, Core, CoreType, Counted, DeliveredInOrder, NothingForgotten
<1>3. /\ q \in Seq(Message) /\ base \in Nat /\ outMsgId[e] \in Nat
      /\ inMsgId[Peer(e)] \in Nat
      /\ Len(q) = outMsgId[e] - base /\ \A i \in 1..Len(q) : q[i].id = base + i
  BY PeerOfPeer DEF IInv, Core, CoreType, QueueOK, NothingForgotten
<1>4. DOMAIN q = 1..Len(q) /\ Len(q) \in Nat /\ \A i \in 1..Len(q) : q[i].type = "Regular"
  BY <1>3, MessageId DEF NoReplay
<1>5. CASE ~(a > base)
  BY <1>5 DEF TakeAck, NoReplay
<1>6. CASE a > base
  <2> HIDE DEF a, q, base
  <2>1. a <= base + Len(q)
    BY <1>1, <1>2, <1>3
  <2>2. DropConfirmed(q, a) = r
    BY <1>1, <1>3, <1>6, <2>1, DropConfirmedPrefix
  <2>3. a - base + 1 \in 1..(Len(q) + 1)
    BY <1>1, <1>3, <1>4, <1>6, <2>1
  <2>4. \A i \in (a - base + 1)..Len(q) : q[i] \in {m \in Message : m.type = "Regular"}
    <3> TAKE i \in (a - base + 1)..Len(q)
    <3>1. i \in 1..Len(q)
      BY <1>4, <2>3
    <3>2. q[i] \in Message
      BY <1>3, <1>4, <3>1, ElementOfSeq
    <3> QED
      BY <1>4, <3>1, <3>2
  <2>5. r \in Seq({m \in Message : m.type = "Regular"})
    <3> DEFINE k == a - base + 1
               l == Len(q)
    <3>1. k \in Int /\ l \in Int
      BY <1>4, <2>3
    <3> HIDE DEF k, l
    <3>2. \A i \in k..l : q[i] \in {m \in Message : m.type = "Regular"}
      BY <2>4 DEF k, l
    <3>3. SubSeq(q, k, l) \in Seq({m \in Message : m.type = "Regular"})
      BY <3>1, <3>2, SubSeqProperties
    <3> QED
      BY <3>3 DEF k, l
  <2> HIDE DEF r
  <2>6. \A i \in DOMAIN r : r[i].type = "Regular"
    BY <2>5, LenProperties, ElementOfSeq
  <2>7. unack' = [unack EXCEPT ![e] = r]
    BY <1>6, <2>2 DEF TakeAck, a, q, base
  <2>8. \A d \in End : unack'[d] = IF d = e THEN r ELSE unack[d]
    BY <2>7 DEF IInv, Core, QueueOK
  <2> TAKE d \in End
  <2> QED
    BY <2>6, <2>8 DEF NoReplay
<1> QED
  BY <1>5, <1>6

\* Where a socket that is written to reaches: only the client's last one is open.
LEMMA OpenSocket ==
    ASSUME GapInv, TypeOK, NEW e \in End, open[sock[e]]
    PROVE  sock[e] = sock[Client]
  BY GapTypes DEF GapInv, Sockets

\* What an end flushes into an open socket continues what its reader reads.
LEMMA Flushed ==
    ASSUME GapInv, TypeOK, NEW e \in End, open[sock[e]], ~paused[e]
    PROVE  LET n == sock[Client]
               s == wire[Peer(e)][n] \o buf[e]
           IN  /\ s \in Seq(Message)
               /\ \A i \in DOMAIN s : s[i].type # "ReplayRequest"
               /\ e = Client /\ reconnecting[Client] => Plains(s)
               /\ e = Client /\ owner[n] \in {"handshake", "moving"} => Plains(s)
               /\ sock[Peer(e)] = n /\ sock[e] = n => Chained(s, inMsgId[Peer(e)])
<1> DEFINE n == sock[Client]
           q == wire[Peer(e)][n]
           s == q \o buf[e]
<1>1. /\ n \in Socket /\ q \in Seq(Message) /\ buf[e] \in Seq(Message)
      /\ s \in Seq(Message) /\ inMsgId[Peer(e)] \in Nat /\ outMsgId[e] \in Nat
  BY GapTypes, Ends, ConcatParts
<1>2. \A i \in DOMAIN s : s[i].type # "ReplayRequest"
  <2>1. /\ \A i \in DOMAIN q : q[i].type # "ReplayRequest"
        /\ \A i \in DOMAIN buf[e] : buf[e][i].type # "ReplayRequest"
    BY <1>1, Ends DEF GapInv, NoReplay
  <2> HIDE DEF q
  <2> QED
    BY <1>1, <2>1, TypesConcat
<1>3. ASSUME e = Client, reconnecting[Client] PROVE Plains(s)
  <2>1. Plains(q) /\ Plains(buf[e])
    BY <1>3, Ends DEF GapInv, ClientSilent
  <2> HIDE DEF q
  <2> QED
    BY <1>1, <2>1, PlainsConcat
<1>4. ASSUME e = Client, owner[n] \in {"handshake", "moving"} PROVE reconnecting[Client]
  BY <1>4 DEF GapInv, NotYetOwned, Moving
<1>5. ASSUME sock[Peer(e)] = n, sock[e] = n PROVE Chained(s, inMsgId[Peer(e)])
  <2>1. CASE e = Client
    <3>1. CASE reconnecting[Client]
      BY <1>1, <1>3, <2>1, <3>1, PlainsChained
    <3>2. CASE ~reconnecting[Client]
      BY <2>1, <3>2, Ends DEF GapInv, Streams, Ready
    <3> QED
      BY <3>1, <3>2
  <2>2. CASE e = Server
    BY <1>5, <2>2, Ends DEF GapInv, Streams, Ready
  <2> QED
    BY <2>1, <2>2, Ends
<1> QED
  BY <1>1, <1>2, <1>3, <1>4, <1>5

\* The writer writes.
LEMMA WriteNowGap ==
    ASSUME GapInv, TypeOK, NEW e \in End, WriteNow(e)
    PROVE  GapInv'
<1>1. \A d \in End : buf'[d] = IF d = e THEN <<>> ELSE buf[d]
  BY GapTypes DEF WriteNow
<1>2. UNCHANGED <<unack, inMsgId, outMsgId, sock, owner, open, reconnecting, paused, loop>>
  BY DEF WriteNow, users, ids
<1> DEFINE n == sock[Client]
           s == wire[Peer(e)][n] \o buf[e]
<1>3. n \in Socket /\ Peer(e) \in End /\ sock[Server] \in Socket /\ sock[e] \in Socket
  BY GapTypes, Ends
<1>4. CASE ~open[sock[e]]
  <2>1. wire' = wire
    BY <1>4 DEF WriteNow
  <2>2. NoReplay'
    BY <1>1, <1>2, <2>1 DEF GapInv, NoReplay
  <2>3. Sockets' /\ NotYetOwned' /\ Moving'
    BY <1>2, <2>1 DEF GapInv, Sockets, NotYetOwned, Moving
  <2>4. ClientSilent'
    BY <1>1, <1>2, <2>1, Ends DEF GapInv, ClientSilent, Plains
  <2>5. Streams'
    BY <1>1, <1>2, <1>4, <2>1, Ends DEF GapInv, Streams
  <2> QED
    BY <2>2, <2>3, <2>4, <2>5 DEF GapInv
<1>5. CASE open[sock[e]]
  <2>1. ~paused[e] /\ sock[e] = n /\ open[n]
    BY <1>5, OpenSocket DEF WriteNow
  <2>2. \A d \in End, m \in Socket : wire'[d][m]
           = IF d = Peer(e) /\ m = n THEN s ELSE wire[d][m]
    <3>1. wire' = [wire EXCEPT ![Peer(e)][n] = s]
      BY <1>5, <2>1 DEF WriteNow
    <3>2. wire \in [End -> [Socket -> Seq(Message)]]
      BY GapTypes
    <3> HIDE DEF s, n
    <3> QED
      BY <1>3, <3>1, <3>2, WireExcept
  <2>3. /\ s \in Seq(Message)
        /\ \A i \in DOMAIN s : s[i].type # "ReplayRequest"
        /\ e = Client /\ reconnecting[Client] => Plains(s)
        /\ e = Client /\ owner[n] \in {"handshake", "moving"} => Plains(s)
        /\ sock[Peer(e)] = n => Chained(s, inMsgId[Peer(e)])
    BY <1>5, <2>1, Flushed
  <2> HIDE DEF s
  <2>4. NoReplay'
    <3>1. ASSUME NEW d \in End, NEW m \in Socket
          PROVE  \A i \in DOMAIN wire'[d][m] : wire'[d][m][i].type # "ReplayRequest"
      <4>1. CASE d = Peer(e) /\ m = n
        BY <2>2, <2>3, <4>1
      <4>2. CASE ~(d = Peer(e) /\ m = n)
        BY <2>2, <4>2 DEF GapInv, NoReplay
      <4> QED
        BY <4>1, <4>2
    <3>2. ASSUME NEW d \in End
          PROVE  \A i \in DOMAIN buf'[d] : buf'[d][i].type # "ReplayRequest"
      BY <1>1 DEF GapInv, NoReplay
    <3> QED
      BY <1>2, <3>1, <3>2 DEF GapInv, NoReplay
  <2>5. Sockets'
    BY <1>2, <1>3, <2>2 DEF GapInv, Sockets
  <2>6. ClientSilent'
    <3>1. ASSUME reconnecting[Client] PROVE Plains(buf'[Client]) /\ Plains(wire'[Server][n])
      <4>1. CASE e = Client
        BY <1>1, <1>3, <2>2, <2>3, <3>1, <4>1, Ends DEF Plains
      <4>2. CASE e = Server
        BY <1>1, <1>3, <2>2, <3>1, <4>2, Ends DEF GapInv, ClientSilent
      <4> QED
        BY <4>1, <4>2, Ends
    <3> QED
      BY <1>2, <3>1 DEF GapInv, ClientSilent
  <2>7. e = Server => owner[n] = "protocol"
    BY <1>3, <2>1 DEF GapInv, Sockets
  <2>8. NotYetOwned'
    <3>1. ASSUME NEW m \in Socket, owner[m] \in {"handshake", "moving"}
          PROVE  Plains(wire'[Server][m])
      <4>1. CASE Peer(e) = Server /\ m = n
        BY <2>2, <2>3, <3>1, <4>1, Ends
      <4>2. CASE ~(Peer(e) = Server /\ m = n)
        BY <2>2, <3>1, <4>2, Ends DEF GapInv, NotYetOwned
      <4> QED
        BY <4>1, <4>2
    <3>2. owner[n] = "handshake" => reconnecting[Client] /\ wire'[Client][n] = <<>>
      BY <1>3, <2>2, <2>7, Ends DEF GapInv, NotYetOwned
    <3> QED
      BY <1>2, <3>1, <3>2 DEF NotYetOwned
  <2>9. Moving'
    <3>1. owner[n] = "moving" => wire'[Client][n] = wire[Client][n]
      BY <1>3, <2>2, <2>7, Ends
    <3> QED
      BY <1>2, <3>1 DEF GapInv, Moving
  <2>10. Streams'
    <3>1. ASSUME NEW d \in End PROVE Chained(wire'[d][sock[d]], inMsgId[d])
      <4>1. CASE d = Peer(e) /\ sock[d] = n
        BY <1>3, <2>2, <2>3, <4>1
      <4>2. CASE ~(d = Peer(e) /\ sock[d] = n)
        BY <2>2, <4>2, GapTypes DEF GapInv, Streams
      <4> QED
        BY <4>1, <4>2
    <3>2. ASSUME NEW d \in End, NEW b \in Nat, NEW k \in Nat, d = e => sock[e] = n
          PROVE  Ready(wire[Peer(d)][n] \o buf[d], b, k)
                    => Ready(wire'[Peer(d)][n] \o buf'[d], b, k)
      <4>1. CASE d = e
        <5>1. wire'[Peer(d)][n] \o buf'[d] = s
          BY <1>1, <1>3, <2>2, <2>3, <4>1, EmptyParts
        <5> QED
          BY <4>1, <5>1 DEF s
      <4>2. CASE d # e
        BY <1>1, <1>3, <2>2, <4>2, Ends
      <4> QED
        BY <4>1, <4>2
    <3>3. \A d \in End : inMsgId[d] \in Nat /\ outMsgId[d] \in Nat
      BY GapTypes
    <3>4. ASSUME open[n], ~reconnecting[Client]
          PROVE  Ready(wire'[Server][n] \o buf'[Client], inMsgId[Server], outMsgId[Client])
      BY <2>1, <3>2, <3>3, <3>4, Ends DEF GapInv, Streams
    <3>5. ASSUME open[n], sock[Server] = n
          PROVE  Ready(wire'[Client][n] \o buf'[Server], inMsgId[Client], outMsgId[Server])
      BY <2>1, <3>2, <3>3, <3>5, Ends DEF GapInv, Streams
    <3> QED
      BY <1>2, <3>1, <3>4, <3>5 DEF Streams
  <2> QED
    BY <2>4, <2>5, <2>6, <2>8, <2>9, <2>10 DEF GapInv
<1> QED
  BY <1>4, <1>5

\* A regular message is written, or left to the end of the reconnection.
LEMMA SendGap ==
    ASSUME GapInv, TypeOK, NEW e \in End, NEW x \in Data, Send(e, x)
    PROVE  GapInv'
<1> DEFINE m == Regular(outMsgId[e] + 1, inMsgId[e], x)
<1>1. /\ unack' = [unack EXCEPT ![e] = Append(@, m)]
      /\ \/ reconnecting[e] /\ buf' = buf
         \/ ~reconnecting[e] /\ buf' = [buf EXCEPT ![e] = @ \o <<m>>]
      /\ outMsgId' = [outMsgId EXCEPT ![e] = @ + 1]
      /\ UNCHANGED <<inMsgId, reconnecting, paused, sock, wire, open, owner, loop>>
  BY DEF Send, Write, network
<1>2. m \in Message /\ m.type = "Regular" /\ m.id = outMsgId[e] + 1
  BY GapTypes DEF Regular, Message, MessageType
<1> HIDE DEF m
<1>3. <<m>> \in Seq(Message) /\ DOMAIN <<m>> = {1} /\ <<m>>[1] = m
  BY <1>2
<1>4. /\ \A d \in End : unack'[d] = IF d = e THEN Append(unack[e], m) ELSE unack[d]
      /\ \A d \in End : outMsgId'[d] = IF d = e THEN outMsgId[e] + 1 ELSE outMsgId[d]
      /\ ~reconnecting[e] =>
            \A d \in End : buf'[d] = IF d = e THEN buf[e] \o <<m>> ELSE buf[d]
  BY <1>1, GapTypes
<1>5. NoReplay'
  <2>1. \A i \in DOMAIN Append(unack[e], m) : Append(unack[e], m)[i].type = "Regular"
    <3>1. unack[e] \in Seq(Message) /\ DOMAIN unack[e] = 1..Len(unack[e])
          /\ Len(unack[e]) \in Nat /\ \A i \in DOMAIN unack[e] : unack[e][i].type = "Regular"
      BY GapTypes, MessageId DEF GapInv, NoReplay
    <3> QED
      BY <1>2, <3>1, AppendProperties
  <2>2. \A i \in DOMAIN (buf[e] \o <<m>>) : (buf[e] \o <<m>>)[i].type # "ReplayRequest"
    <3>1. buf[e] \in Seq(Message) /\ \A i \in DOMAIN buf[e] : buf[e][i].type # "ReplayRequest"
      BY GapTypes DEF GapInv, NoReplay
    <3>2. \A i \in DOMAIN <<m>> : <<m>>[i].type # "ReplayRequest"
      BY <1>2, <1>3
    <3> QED
      BY <1>3, <3>1, <3>2, TypesConcat
  <2>3. ASSUME NEW d \in End PROVE \A i \in DOMAIN buf'[d] : buf'[d][i].type # "ReplayRequest"
    <3>1. CASE d = e /\ ~reconnecting[e]
      BY <1>4, <2>2, <3>1
    <3>2. CASE ~(d = e /\ ~reconnecting[e])
      BY <1>1, <1>4, <3>2 DEF GapInv, NoReplay
    <3> QED
      BY <3>1, <3>2
  <2>4. ASSUME NEW d \in End PROVE \A i \in DOMAIN unack'[d] : unack'[d][i].type = "Regular"
    <3>1. CASE d = e
      BY <1>4, <2>1, <3>1
    <3>2. CASE d # e
      BY <1>4, <3>2 DEF GapInv, NoReplay
    <3> QED
      BY <3>1, <3>2
  <2> QED
    BY <1>1, <2>3, <2>4 DEF GapInv, NoReplay
<1>6. Sockets' /\ NotYetOwned' /\ Moving'
  BY <1>1 DEF GapInv, Sockets, NotYetOwned, Moving
<1>7. ClientSilent'
  <2>1. reconnecting[Client] => buf'[Client] = buf[Client]
    BY <1>1, <1>4, Ends
  <2> QED
    BY <1>1, <2>1 DEF GapInv, ClientSilent
<1>8. ASSUME NEW d \in End, ~reconnecting[d], NEW q \in Seq(Message), NEW b \in Nat,
             Ready(q \o buf[d], b, outMsgId[d])
      PROVE  Ready(q \o buf'[d], b, outMsgId'[d])
  <2>1. buf[d] \in Seq(Message) /\ q \o buf[d] \in Seq(Message) /\ outMsgId[d] \in Nat
    BY GapTypes, ConcatParts
  <2>2. CASE d = e
    <3>1. Ready((q \o buf[d]) \o <<m>>, b, outMsgId[d] + 1)
      BY <1>2, <1>8, <2>1, <2>2, ReadyAppend
    <3>2. (q \o buf[d]) \o <<m>> = q \o (buf[d] \o <<m>>)
      BY <1>3, <2>1, Regroup
    <3> QED
      BY <1>4, <1>8, <2>2, <3>1, <3>2
  <2>3. CASE d # e
    <3>1. buf'[d] = buf[d] /\ outMsgId'[d] = outMsgId[d]
      BY <1>1, <1>4, <2>3
    <3> QED
      BY <1>8, <3>1
  <2> QED
    BY <2>2, <2>3
<1>9. Streams'
  <2>1. /\ sock[Client] \in Socket /\ wire[Server][sock[Client]] \in Seq(Message)
        /\ wire[Client][sock[Client]] \in Seq(Message)
        /\ \A d \in End : inMsgId[d] \in Nat
        /\ ~reconnecting[Server]
    BY GapTypes, Ends DEF GapInv, ClientSilent
  <2>2. ASSUME open[sock[Client]], ~reconnecting[Client]
        PROVE  Ready(wire[Server][sock[Client]] \o buf'[Client], inMsgId[Server],
                     outMsgId'[Client])
    BY <1>8, <2>1, <2>2, Ends DEF GapInv, Streams
  <2>3. ASSUME open[sock[Client]], sock[Server] = sock[Client]
        PROVE  Ready(wire[Client][sock[Client]] \o buf'[Server], inMsgId[Client],
                     outMsgId'[Server])
    BY <1>8, <2>1, <2>3, Ends DEF GapInv, Streams
  <2>4. \A d \in End : Chained(wire[d][sock[d]], inMsgId[d])
    BY DEF GapInv, Streams
  <2> QED
    BY <1>1, <2>2, <2>3, <2>4 DEF Streams
<1> QED
  BY <1>5, <1>6, <1>7, <1>9 DEF GapInv

\* The messages of a hand-over.
LEMMA HandoverTypes ==
    /\ HandoverAnswer \in Seq(Message) /\ HandoverAnswer # <<>> /\ Plains(HandoverAnswer)
    /\ Head(HandoverAnswer).type = "Pause"
    /\ Tail(HandoverAnswer) = <<Plain("Control", 0)>>
    /\ Tail(HandoverAnswer) \in Seq(Message) /\ Tail(HandoverAnswer) # <<>>
    /\ Head(Tail(HandoverAnswer)).type = "Control"
    /\ Tail(Tail(HandoverAnswer)) = <<>>
    /\ \A i \in DOMAIN HandoverAnswer : HandoverAnswer[i].type # "ReplayRequest"
    /\ \A t \in MessageType \ {"Regular", "ReplayRequest"} :
          /\ <<Plain(t, 0)>> \in Seq(Message) /\ Plains(<<Plain(t, 0)>>)
          /\ \A i \in DOMAIN <<Plain(t, 0)>> : <<Plain(t, 0)>>[i].type # "ReplayRequest"
<1>1. \A t \in MessageType : Plain(t, 0) \in Message /\ Plain(t, 0).type = t
  BY DEF Plain, Message
<1> DEFINE x == Plain("Pause", 0)
           y == Plain("Control", 0)
<1>2. x \in Message /\ y \in Message /\ x.type = "Pause" /\ y.type = "Control"
  BY <1>1 DEF MessageType
<1>3. HandoverAnswer = <<x, y>>
  BY DEF HandoverAnswer
<1> HIDE DEF x, y
<1>4. /\ <<x, y>> \in Seq(Message) /\ <<x, y>> # <<>> /\ Head(<<x, y>>) = x
      /\ Tail(<<x, y>>) = <<y>> /\ <<y>> \in Seq(Message) /\ <<y>> # <<>> /\ Head(<<y>>) = y
      /\ Tail(<<y>>) = <<>> /\ DOMAIN <<x, y>> = {1, 2}
      /\ <<x, y>>[1] = x /\ <<x, y>>[2] = y
  BY <1>2
<1>5. Plains(<<x, y>>) /\ \A i \in DOMAIN <<x, y>> : <<x, y>>[i].type # "ReplayRequest"
  BY <1>2, <1>4 DEF Plains
<1>6. ASSUME NEW t \in MessageType \ {"Regular", "ReplayRequest"}
      PROVE  /\ <<Plain(t, 0)>> \in Seq(Message) /\ Plains(<<Plain(t, 0)>>)
             /\ \A i \in DOMAIN <<Plain(t, 0)>> : <<Plain(t, 0)>>[i].type # "ReplayRequest"
  <2> DEFINE z == Plain(t, 0)
  <2>1. z \in Message /\ z.type = t
    BY <1>1
  <2> HIDE DEF z
  <2>2. /\ <<z>> \in Seq(Message) /\ Plains(<<z>>)
        /\ \A i \in DOMAIN <<z>> : <<z>>[i].type # "ReplayRequest"
    BY <2>1 DEF Plains
  <2> QED
    BY <2>2 DEF z
<1>7. Tail(HandoverAnswer) = <<Plain("Control", 0)>>
  BY <1>3, <1>4 DEF y
<1> QED
  BY <1>2, <1>3, <1>4, <1>5, <1>6, <1>7

\* The server's answer ends the client's reconnection.
LEMMA ReceiveControlGap ==
    ASSUME GapInv, TypeOK, IInv, ReceiveControl, loop = "shake"
    PROVE  GapInv'
<1> DEFINE n == sock[Client]
           q == wire[Client][n]
           r == Rewrite(Client)
           s == buf[Client] \o r
<1>1. /\ q # <<>> /\ Head(q).type = "Control" /\ Consume(Client)
      /\ loop' = "up" /\ reconnecting' = [reconnecting EXCEPT ![Client] = FALSE]
      /\ buf' = [buf EXCEPT ![Client] = s]
      /\ UNCHANGED <<unack, outMsgId, inMsgId, paused, sock, open, owner>>
  BY DEF ReceiveControl, Arrives, Write, users
<1>2. /\ n \in Socket /\ q \in Seq(Message) /\ Tail(q) \in Seq(Message)
      /\ wire[Server][n] \in Seq(Message) /\ buf[Client] \in Seq(Message)
      /\ buf[Server] \in Seq(Message)
      /\ inMsgId[Client] \in Nat /\ inMsgId[Server] \in Nat
      /\ outMsgId[Client] \in Nat /\ outMsgId[Server] \in Nat
  BY <1>1, GapTypes, Ends, TailParts
<1>3. /\ r \in Seq(Message) /\ Ready(r, inMsgId[Server], outMsgId[Client])
      /\ \A i \in DOMAIN r : r[i].type # "ReplayRequest"
  BY RewriteReady, Ends DEF GapInv
<1>4. \A d \in End, m \in Socket :
         wire'[d][m] = IF d = Client /\ m = n THEN Tail(q) ELSE wire[d][m]
  <2>1. wire \in [End -> [Socket -> Seq(Message)]] /\ Client \in End /\ n \in Socket
    BY <1>2, GapTypes, Ends
  <2>2. wire' = [wire EXCEPT ![Client][n] = Tail(q)]
    BY <1>1 DEF Consume
  <2> HIDE DEF n, q
  <2> QED
    BY <2>1, <2>2, WireExcept
<1>5. /\ \A d \in End : buf'[d] = IF d = Client THEN s ELSE buf[d]
      /\ ~reconnecting'[Client] /\ reconnecting'[Server] = reconnecting[Server]
  BY <1>1, GapTypes, Ends
<1>6. reconnecting[Client] /\ Plains(buf[Client]) /\ Plains(wire[Server][n])
  BY DEF GapInv, ClientSilent
<1> HIDE DEF q, r
<1>7. s \in Seq(Message) /\ \A i \in DOMAIN s : s[i].type # "ReplayRequest"
  <2>1. \A i \in DOMAIN buf[Client] : buf[Client][i].type # "ReplayRequest"
    BY Ends DEF GapInv, NoReplay
  <2> QED
    BY <1>2, <1>3, <2>1, TypesConcat, ConcatParts
<1>8. Ready(wire[Server][n] \o s, inMsgId[Server], outMsgId[Client])
  <2>1. Ready(s, inMsgId[Server], outMsgId[Client])
    BY <1>2, <1>3, <1>6, PlainsThenReady
  <2> HIDE DEF s, n
  <2> QED
    BY <1>2, <1>6, <1>7, <2>1, PlainsThenReady
<1> HIDE DEF s
<1>9. NoReplay'
  <2>1. \A i \in DOMAIN Tail(q) : Tail(q)[i].type # "ReplayRequest"
    <3>1. \A i \in DOMAIN q : q[i].type # "ReplayRequest"
      BY <1>2, Ends DEF GapInv, NoReplay, q
    <3> QED
      BY <1>1, <1>2, <3>1, TypesTail DEF q
  <2>2. ASSUME NEW d \in End, NEW m \in Socket
        PROVE  \A i \in DOMAIN wire'[d][m] : wire'[d][m][i].type # "ReplayRequest"
    <3>1. CASE d = Client /\ m = n
      BY <1>4, <2>1, <3>1
    <3>2. CASE ~(d = Client /\ m = n)
      BY <1>4, <3>2 DEF GapInv, NoReplay
    <3> QED
      BY <3>1, <3>2
  <2>3. ASSUME NEW d \in End PROVE \A i \in DOMAIN buf'[d] : buf'[d][i].type # "ReplayRequest"
    <3>1. CASE d = Client
      BY <1>5, <1>7, <3>1
    <3>2. CASE d # Client
      BY <1>5, <3>2 DEF GapInv, NoReplay
    <3> QED
      BY <3>1, <3>2
  <2> QED
    BY <1>1, <2>2, <2>3 DEF GapInv, NoReplay
<1>10. Sockets'
  BY <1>1, <1>2, <1>4 DEF GapInv, Sockets
<1>11. ClientSilent'
  BY <1>1, <1>5 DEF GapInv, ClientSilent
<1>12. NotYetOwned'
  <2>1. owner[n] # "handshake"
    BY <1>1 DEF GapInv, NotYetOwned, q
  <2> QED
    BY <1>1, <1>4, <2>1, Ends DEF GapInv, NotYetOwned
<1>13. Moving'
  <2>1. owner[n] = "moving" => paused[Client] /\ Tail(q) = <<>>
    BY <1>1, HandoverTypes DEF GapInv, Moving, q
  <2> QED
    BY <1>1, <1>2, <1>4, <2>1, Ends DEF Moving
<1>14. Streams'
  <2>1. Chained(Tail(q), inMsgId[Client])
    <3>1. Chained(q, inMsgId[Client])
      BY Ends DEF GapInv, Streams, q
    <3> QED
      BY <1>1, <1>2, <3>1, ChainedTail DEF q
  <2>2. ASSUME NEW d \in End PROVE Chained(wire'[d][sock[d]], inMsgId[d])
    <3>1. CASE d = Client
      BY <1>2, <1>4, <2>1, <3>1
    <3>2. CASE d # Client
      BY <1>4, <3>2, GapTypes DEF GapInv, Streams
    <3> QED
      BY <3>1, <3>2
  <2>3. Ready(wire'[Server][n] \o buf'[Client], inMsgId[Server], outMsgId[Client])
    BY <1>2, <1>4, <1>5, <1>8, Ends
  <2>4. ASSUME open[n], sock[Server] = n
        PROVE  Ready(wire'[Client][n] \o buf'[Server], inMsgId[Client], outMsgId[Server])
    <3>1. Ready(q \o buf[Server], inMsgId[Client], outMsgId[Server])
      BY <2>4 DEF GapInv, Streams, q
    <3>2. /\ q \o buf[Server] \in Seq(Message) /\ q \o buf[Server] # <<>>
          /\ Tail(q \o buf[Server]) = Tail(q) \o buf[Server]
          /\ Head(q \o buf[Server]) = Head(q) /\ q # <<>> /\ Head(q).type = "Control"
      BY <1>1, <1>2, TailOfConcat, ConcatParts DEF q
    <3>3. Ready(Tail(q \o buf[Server]), inMsgId[Client], outMsgId[Server])
      <4> DEFINE z == q \o buf[Server]
      <4>1. /\ z \in Seq(Message) /\ z # <<>> /\ Head(z).type # "Regular"
            /\ Ready(z, inMsgId[Client], outMsgId[Server])
        BY <3>1, <3>2
      <4> HIDE DEF z
      <4>2. Ready(Tail(z), inMsgId[Client], outMsgId[Server])
        BY <1>2, <4>1, ReadyTail
      <4> QED
        BY <4>2 DEF z
    <3> QED
      BY <1>2, <1>4, <1>5, <3>2, <3>3, Ends
  <2> QED
    BY <1>1, <2>2, <2>3, <2>4 DEF Streams
<1> QED
  BY <1>9, <1>10, <1>11, <1>12, <1>13, <1>14 DEF GapInv

\* The client takes a new socket.
LEMMA ClientConnectsGap ==
    ASSUME GapInv, TypeOK, ClientConnects
    PROVE  GapInv'
<1> DEFINE o == sock[Client]
           n == sock[Client] + 1
           s == wire[Server][o] \o buf[Client]
           w == IF open[o] /\ ~paused[Client] THEN s ELSE wire[Server][o]
<1>1. /\ o \in Socket /\ n \in Socket /\ n > o /\ o # n /\ sock[Server] \in Socket
  <2>1. sock[Client] \in Socket /\ sock[Server] \in Socket
    BY GapTypes, Ends
  <2>2. sock[Client] < MaxSocket /\ MaxSocket \in Nat
    BY ProtocolAssumption DEF ClientConnects
  <2> QED
    BY <2>1, <2>2 DEF Socket
<1>2. /\ \A d \in End : sock'[d] = IF d = Client THEN n ELSE sock[d]
      /\ \A m \in Socket : open'[m] = IF m = n THEN TRUE ELSE IF m = o THEN FALSE ELSE open[m]
      /\ \A m \in Socket : owner'[m] = IF m = n THEN "handshake" ELSE owner[m]
      /\ \A d \in End : buf'[d] = IF d = Client THEN <<>> ELSE buf[d]
      /\ reconnecting'[Client] /\ reconnecting'[Server] = reconnecting[Server]
      /\ UNCHANGED <<unack, inMsgId, outMsgId>>
  BY <1>1, GapTypes, Ends DEF ClientConnects, ids
<1>3. /\ \A d \in End, m \in Socket : wire'[d][m] = IF d = Client /\ m = o THEN <<>>
                                                   ELSE IF d = Server /\ m = o THEN w
                                                   ELSE wire[d][m]
  <2> DEFINE f == IF open[o] /\ ~paused[Client]
                  THEN [wire EXCEPT ![Server][o] = s] ELSE wire
  <2>1. wire \in [End -> [Socket -> Seq(Message)]] /\ s \in Seq(Message)
    BY <1>1, GapTypes, Ends, ConcatParts
  <2>2. wire' = [f EXCEPT ![Client][o] = <<>>]
    BY Ends DEF ClientConnects, LeaveSocket
  <2> HIDE DEF s, o
  <2>3. f \in [End -> [Socket -> Seq(Message)]]
    BY <1>1, <2>1, Ends
  <2>4. \A d \in End, m \in Socket : f[d][m] = IF d = Server /\ m = o THEN w ELSE wire[d][m]
    <3>1. CASE open[o] /\ ~paused[Client]
      <4>1. f = [wire EXCEPT ![Server][o] = s] /\ w = s
        BY <3>1
      <4> QED
        BY <1>1, <2>1, <4>1, Ends, WireExcept
    <3>2. CASE ~(open[o] /\ ~paused[Client])
      BY <3>2
    <3> QED
      BY <3>1, <3>2
  <2> HIDE DEF f, w
  <2>5. \A d \in End, m \in Socket :
            wire'[d][m] = IF d = Client /\ m = o THEN <<>> ELSE f[d][m]
    BY <1>1, <2>2, <2>3, Ends, WireExcept
  <2> QED
    BY <2>4, <2>5, Ends
<1>4. /\ owner[n] = "none" /\ \A d \in End : wire[d][n] = <<>>
      /\ n # sock[Server]
  BY <1>1 DEF GapInv, Sockets
<1>5. /\ \A i \in DOMAIN w : w[i].type # "ReplayRequest"
      /\ owner[o] \in {"handshake", "moving"} => Plains(w)
      /\ sock[Server] = o => Chained(w, inMsgId[Server])
  <2>1. CASE open[o] /\ ~paused[Client]
    BY <2>1, Flushed, Ends
  <2>2. CASE ~(open[o] /\ ~paused[Client])
    <3>1. w = wire[Server][o]
      BY <2>2
    <3>2. \A i \in DOMAIN wire[Server][o] : wire[Server][o][i].type # "ReplayRequest"
      BY <1>1, Ends DEF GapInv, NoReplay
    <3>3. owner[o] \in {"handshake", "moving"} => Plains(wire[Server][o])
      BY <1>1 DEF GapInv, NotYetOwned
    <3>4. sock[Server] = o => Chained(wire[Server][o], inMsgId[Server])
      BY Ends DEF GapInv, Streams
    <3> HIDE DEF w
    <3> QED
      BY <3>1, <3>2, <3>3, <3>4
  <2> QED
    BY <2>1, <2>2
<1> HIDE DEF w, n, o
<1>6. NoReplay'
  <2>1. ASSUME NEW d \in End, NEW m \in Socket
        PROVE  \A i \in DOMAIN wire'[d][m] : wire'[d][m][i].type # "ReplayRequest"
    <3>1. CASE d = Client /\ m = o
      BY <1>3, <3>1
    <3>2. CASE d = Server /\ m = o
      BY <1>3, <1>5, <3>2, Ends
    <3>3. CASE m # o
      BY <1>3, <3>3 DEF GapInv, NoReplay
    <3> QED
      BY <3>1, <3>2, <3>3, Ends
  <2>2. ASSUME NEW d \in End PROVE \A i \in DOMAIN buf'[d] : buf'[d][i].type # "ReplayRequest"
    BY <1>2 DEF GapInv, NoReplay
  <2> QED
    BY <1>2, <2>1, <2>2 DEF GapInv, NoReplay
<1>7. sock'[Client] = n /\ sock'[Server] = sock[Server]
  BY <1>2, Ends
<1>8. Sockets'
  <2>1. ASSUME NEW m \in Socket PROVE owner'[m] = "protocol" <=> m = sock'[Server]
    BY <1>2, <1>4, <1>7 DEF GapInv, Sockets
  <2>2. ASSUME NEW m \in Socket, open'[m] PROVE m = n
    BY <1>2, <2>2 DEF GapInv, Sockets, o
  <2>3. ASSUME NEW m \in Socket, m > n
        PROVE  owner'[m] = "none" /\ \A d \in End : wire'[d][m] = <<>>
    <3>1. m > o /\ m # n /\ m # o
      BY <1>1, <2>3 DEF Socket
    <3>2. owner[m] = "none" /\ \A d \in End : wire[d][m] = <<>>
      BY <3>1 DEF GapInv, Sockets, o
    <3> QED
      BY <1>2, <1>3, <3>1, <3>2
  <2>4. owner'[n] # "none"
    BY <1>1, <1>2
  <2> QED
    BY <1>7, <2>1, <2>2, <2>3, <2>4 DEF Sockets
<1>9. ClientSilent'
  <2>1. Plains(buf'[Client]) /\ Plains(wire'[Server][n])
    BY <1>1, <1>2, <1>3, <1>4, Ends DEF Plains
  <2> QED
    BY <1>2, <1>7, <2>1 DEF GapInv, ClientSilent
<1>10. NotYetOwned'
  <2>1. ASSUME NEW m \in Socket, owner'[m] \in {"handshake", "moving"}
        PROVE  Plains(wire'[Server][m])
    <3>1. CASE m = n
      BY <1>1, <1>3, <1>4, <3>1, Ends DEF Plains
    <3>2. CASE m = o
      BY <1>1, <1>2, <1>3, <1>5, <2>1, <3>2, Ends
    <3>3. CASE m # n /\ m # o
      BY <1>2, <1>3, <2>1, <3>3, Ends DEF GapInv, NotYetOwned
    <3> QED
      BY <3>1, <3>2, <3>3
  <2>2. reconnecting'[Client] /\ wire'[Client][n] = <<>>
    BY <1>1, <1>2, <1>3, <1>4, Ends
  <2> QED
    BY <1>7, <2>1, <2>2 DEF NotYetOwned
<1>11. Moving'
  BY <1>1, <1>2, <1>7 DEF Moving
<1>12. Streams'
  <2>1. ASSUME NEW d \in End PROVE Chained(wire'[d][sock'[d]], inMsgId[d])
    <3>1. CASE d = Client
      BY <1>1, <1>3, <1>4, <1>7, <3>1 DEF Chained
    <3>2. CASE d = Server /\ sock[Server] = o
      BY <1>1, <1>3, <1>5, <1>7, <3>2, Ends
    <3>3. CASE d = Server /\ sock[Server] # o
      BY <1>1, <1>3, <1>7, <3>3, Ends DEF GapInv, Streams
    <3> QED
      BY <3>1, <3>2, <3>3, Ends
  <2>2. sock'[Server] # sock'[Client]
    BY <1>4, <1>7
  <2> QED
    BY <1>2, <2>1, <2>2 DEF Streams
<1> QED
  BY <1>6, <1>8, <1>9, <1>10, <1>11, <1>12 DEF GapInv

\* What arrives on a socket that the server's protocol does not own is dropped.
LEMMA DroppedGap ==
    ASSUME GapInv, TypeOK, NEW n \in Socket, owner[n] \in {"handshake", "moving"},
           wire[Server][n] # <<>>, wire' = [wire EXCEPT ![Server][n] = Tail(@)],
           UNCHANGED <<unack, inMsgId, outMsgId, reconnecting, buf, paused, sock, open,
                       owner, loop>>
    PROVE  GapInv'
<1> DEFINE q == wire[Server][n]
<1>1. /\ q \in Seq(Message) /\ q # <<>> /\ Tail(q) \in Seq(Message) /\ Head(q) = q[1]
      /\ 1 \in DOMAIN q
  BY GapTypes, Ends, TailParts
<1>2. Plains(q)
  BY DEF GapInv, NotYetOwned
<1>3. \A i \in DOMAIN q : q[i].type # "ReplayRequest"
  BY Ends DEF GapInv, NoReplay
<1>4. \A d \in End, m \in Socket :
         wire'[d][m] = IF d = Server /\ m = n THEN Tail(q) ELSE wire[d][m]
  <2>1. wire \in [End -> [Socket -> Seq(Message)]] /\ Server \in End
    BY GapTypes, Ends
  <2>2. wire' = [wire EXCEPT ![Server][n] = Tail(q)]
    OBVIOUS
  <2> DEFINE t == Tail(q)
  <2> HIDE DEF q, t
  <2>3. \A d \in End, m \in Socket :
           [wire EXCEPT ![Server][n] = t][d][m] = IF d = Server /\ m = n THEN t ELSE wire[d][m]
    BY <2>1, WireExcept
  <2> QED
    BY <2>2, <2>3 DEF t
<1>5. sock[Client] \in Socket /\ sock[Server] \in Socket
  BY GapTypes, Ends
<1>6. n # sock[Server] /\ ~(n > sock[Client])
  BY <1>5 DEF GapInv, Sockets
<1>7. /\ Plains(Tail(q)) /\ Head(q).type # "Regular"
      /\ \A i \in DOMAIN Tail(q) : Tail(q)[i].type # "ReplayRequest"
  <2> HIDE DEF q
  <2> QED
    BY <1>1, <1>2, <1>3, TypesTail DEF Plains
<1>8. NoReplay'
  <2> HIDE DEF q
  <2>1. ASSUME NEW d \in End, NEW m \in Socket
        PROVE  \A i \in DOMAIN wire'[d][m] : wire'[d][m][i].type # "ReplayRequest"
    <3>1. CASE d = Server /\ m = n
      BY <1>4, <1>7, <3>1
    <3>2. CASE ~(d = Server /\ m = n)
      BY <1>4, <3>2 DEF GapInv, NoReplay
    <3> QED
      BY <3>1, <3>2
  <2> QED
    BY <2>1 DEF GapInv, NoReplay
<1> HIDE DEF q
<1>9. Sockets'
  BY <1>4, <1>6 DEF GapInv, Sockets
<1>10. \A m \in Socket : Plains(wire[Server][m]) => Plains(wire'[Server][m])
  BY <1>4, <1>7, Ends
<1>11. \A m \in Socket : wire'[Client][m] = wire[Client][m]
  BY <1>4, Ends
<1>12. ClientSilent' /\ NotYetOwned' /\ Moving'
  BY <1>5, <1>10, <1>11 DEF GapInv, ClientSilent, NotYetOwned, Moving
<1>13. Streams'
  <2>1. \A d \in End : wire'[d][sock[d]] = wire[d][sock[d]]
    BY <1>4, <1>6, GapTypes
  <2>2. ASSUME open[sock[Client]], ~reconnecting[Client]
        PROVE  Ready(wire'[Server][sock[Client]] \o buf[Client], inMsgId[Server],
                     outMsgId[Client])
    <3>1. Ready(wire[Server][sock[Client]] \o buf[Client], inMsgId[Server], outMsgId[Client])
      BY <2>2 DEF GapInv, Streams
    <3>2. /\ buf[Client] \in Seq(Message) /\ outMsgId[Client] \in Nat
          /\ inMsgId[Server] \in Nat
      BY GapTypes, Ends
    <3>3. CASE n = sock[Client]
      <4> DEFINE z == q \o buf[Client]
      <4>1. /\ z \in Seq(Message) /\ z # <<>> /\ Head(z).type # "Regular"
            /\ Tail(z) = Tail(q) \o buf[Client]
        BY <1>1, <1>7, <3>2, TailOfConcat, ConcatParts
      <4>2. Ready(z, inMsgId[Server], outMsgId[Client])
        BY <3>1, <3>3 DEF q
      <4> HIDE DEF z
      <4>3. Ready(Tail(z), inMsgId[Server], outMsgId[Client])
        BY <3>2, <4>1, <4>2, ReadyTail
      <4> QED
        BY <1>4, <1>5, <3>3, <4>1, <4>3, Ends
    <3>4. CASE n # sock[Client]
      BY <1>4, <1>5, <3>1, <3>4, Ends
    <3> QED
      BY <3>3, <3>4
  <2> QED
    BY <1>5, <1>11, <2>1, <2>2 DEF GapInv, Streams
<1> QED
  BY <1>8, <1>9, <1>12, <1>13 DEF GapInv

\* The server answers and begins to hand the socket over.
LEMMA ServerPausesGap ==
    ASSUME GapInv, TypeOK, NEW n \in Socket, ServerPauses(n)
    PROVE  GapInv'
<1> DEFINE q == wire[Server][n]
           p == wire[Client][n]
           s == IF open[n] THEN p \o HandoverAnswer ELSE p
           c == sock[Client]
<1>1. /\ owner[n] = "handshake" /\ q # <<>>
      /\ wire' = [[wire EXCEPT ![Server][n] = Tail(q)] EXCEPT ![Client][n] = s]
      /\ owner' = [owner EXCEPT ![n] = "moving"]
      /\ UNCHANGED <<unack, inMsgId, outMsgId, reconnecting, buf, paused, sock, open, loop>>
  <2>1. wire' = Answer(n, HandoverAnswer)
    BY DEF ServerPauses
  <2>2. Answer(n, HandoverAnswer)
          = [[wire EXCEPT ![Server][n] = Tail(q)] EXCEPT ![Client][n] = s]
    BY Ends, GapTypes DEF Answer
  <2> QED
    BY <2>1, <2>2 DEF ServerPauses, Asked, users, ids
<1>2. /\ q \in Seq(Message) /\ Tail(q) \in Seq(Message) /\ p \in Seq(Message)
      /\ c \in Socket /\ sock[Server] \in Socket
  BY <1>1, GapTypes, Ends, TailParts
<1>3. \A d \in End, m \in Socket : wire'[d][m]
         = IF m = n THEN (IF d = Server THEN Tail(q) ELSE s)
                                                 ELSE wire[d][m]
  <2> DEFINE t == Tail(q)
             f == [wire EXCEPT ![Server][n] = t]
  <2>1. wire \in [End -> [Socket -> Seq(Message)]] /\ t \in Seq(Message)
    BY <1>2, GapTypes
  <2>2. wire' = [f EXCEPT ![Client][n] = s]
    BY <1>1
  <2> HIDE DEF t, s
  <2>3. f \in [End -> [Socket -> Seq(Message)]]
        /\ \A d \in End, m \in Socket : f[d][m] = IF d = Server /\ m = n THEN t ELSE wire[d][m]
    BY <2>1, Ends, WireExcept
  <2> HIDE DEF f
  <2>4. \A d \in End, m \in Socket :
           [f EXCEPT ![Client][n] = s][d][m] = IF d = Client /\ m = n THEN s ELSE f[d][m]
    BY <2>3, Ends, WireExcept
  <2>5. \A d \in End, m \in Socket : wire'[d][m] = IF m = n THEN (IF d = Server THEN t ELSE s)
                                                   ELSE wire[d][m]
    BY <2>2, <2>3, <2>4, Ends
  <2> QED
    BY <2>5 DEF t
<1>4. \A m \in Socket : owner'[m] = IF m = n THEN "moving" ELSE owner[m]
  BY <1>1, GapTypes
<1>5. n # sock[Server] /\ ~(n > c)
  BY <1>1, <1>2 DEF GapInv, Sockets
<1>6. /\ Plains(Tail(q)) /\ \A i \in DOMAIN Tail(q) : Tail(q)[i].type # "ReplayRequest"
  <2>1. Plains(q) /\ \A i \in DOMAIN q : q[i].type # "ReplayRequest"
    BY <1>1, Ends DEF GapInv, NotYetOwned, NoReplay
  <2> HIDE DEF q
  <2>2. q # <<>>
    BY <1>1 DEF q
  <2> QED
    BY <1>2, <2>1, <2>2, TypesTail DEF Plains
<1>7. \A i \in DOMAIN s : s[i].type # "ReplayRequest"
  <2>1. \A i \in DOMAIN p : p[i].type # "ReplayRequest"
    BY Ends DEF GapInv, NoReplay
  <2> HIDE DEF p
  <2>2. \A i \in DOMAIN (p \o HandoverAnswer) : (p \o HandoverAnswer)[i].type # "ReplayRequest"
    BY <1>2, <2>1, HandoverTypes, TypesConcat
  <2> QED
    BY <2>1, <2>2
<1>8. n = c => reconnecting[Client] /\ s \in {<<>>, HandoverAnswer}
  <2>1. n = c => reconnecting[Client] /\ p = <<>>
    BY <1>1 DEF GapInv, NotYetOwned
  <2>2. <<>> \o HandoverAnswer = HandoverAnswer
    BY HandoverTypes, EmptyParts
  <2> HIDE DEF p
  <2> QED
    BY <2>1, <2>2
<1> HIDE DEF q, s, c
<1>9. NoReplay'
  <2>1. ASSUME NEW d \in End, NEW m \in Socket
        PROVE  \A i \in DOMAIN wire'[d][m] : wire'[d][m][i].type # "ReplayRequest"
    <3>1. CASE m = n
      BY <1>3, <1>6, <1>7, <3>1
    <3>2. CASE m # n
      BY <1>3, <3>2 DEF GapInv, NoReplay
    <3> QED
      BY <3>1, <3>2
  <2> QED
    BY <1>1, <2>1 DEF GapInv, NoReplay
<1>10. Sockets'
  <2>1. \A m \in Socket : owner'[m] = "protocol" <=> owner[m] = "protocol"
    BY <1>1, <1>4
  <2>2. ASSUME NEW m \in Socket, m > c
        PROVE  owner'[m] = "none" /\ \A d \in End : wire'[d][m] = <<>>
    <3>1. m # n
      BY <1>5, <2>2
    <3> QED
      BY <1>3, <1>4, <2>2, <3>1 DEF GapInv, Sockets, c
  <2>3. owner'[c] # "none"
    BY <1>2, <1>4 DEF GapInv, Sockets, c
  <2> QED
    BY <1>1, <2>1, <2>2, <2>3 DEF GapInv, Sockets, c
<1>11. \A m \in Socket : Plains(wire[Server][m]) => Plains(wire'[Server][m])
  BY <1>3, <1>6, Ends
<1>12. ClientSilent'
  BY <1>1, <1>2, <1>11 DEF GapInv, ClientSilent, c
<1>13. NotYetOwned'
  <2>1. ASSUME NEW m \in Socket, owner'[m] \in {"handshake", "moving"}
        PROVE  owner[m] \in {"handshake", "moving"}
    BY <1>1, <1>4, <2>1
  <2>2. owner'[c] = "handshake" => owner[c] = "handshake" /\ wire'[Client][c] = wire[Client][c]
    BY <1>2, <1>3, <1>4, Ends
  <2> QED
    BY <1>1, <1>11, <2>1, <2>2 DEF GapInv, NotYetOwned, c
<1>14. Moving'
  <2>1. CASE n = c
    <3>1. wire'[Client][c] = s
      BY <1>2, <1>3, <2>1, Ends
    <3> QED
      BY <1>1, <1>8, <2>1, <3>1 DEF Moving, c
  <2>2. CASE n # c
    <3>1. wire'[Client][c] = wire[Client][c] /\ owner'[c] = owner[c]
      BY <1>2, <1>3, <1>4, <2>2, Ends
    <3> QED
      BY <1>1, <3>1 DEF GapInv, Moving, c
  <2> QED
    BY <2>1, <2>2
<1>15. Streams'
  <2>1. ASSUME NEW d \in End PROVE Chained(wire'[d][sock[d]], inMsgId[d])
    <3>1. CASE sock[d] = n
      <4>1. d = Client /\ n = c /\ wire'[d][sock[d]] = s
        BY <1>2, <1>3, <1>5, <3>1, Ends DEF c
      <4>2. Plains(s) /\ s \in Seq(Message) /\ inMsgId[d] \in Nat
        BY <1>8, <4>1, HandoverTypes, EmptyParts, GapTypes
      <4> QED
        BY <4>1, <4>2, PlainsChained
    <3>2. CASE sock[d] # n
      BY <1>3, <3>2, GapTypes DEF GapInv, Streams
    <3> QED
      BY <3>1, <3>2
  <2>2. ASSUME ~reconnecting[Client] \/ sock[Server] = c, NEW d \in End
        PROVE  wire'[d][c] = wire[d][c]
    BY <1>2, <1>3, <1>5, <1>8, <2>2
  <2>3. ASSUME open[c], ~reconnecting[Client]
        PROVE  Ready(wire'[Server][c] \o buf[Client], inMsgId[Server], outMsgId[Client])
    BY <2>2, <2>3, Ends DEF GapInv, Streams, c
  <2>4. ASSUME open[c], sock[Server] = c
        PROVE  Ready(wire'[Client][c] \o buf[Server], inMsgId[Client], outMsgId[Server])
    BY <2>2, <2>4, Ends DEF GapInv, Streams, c
  <2> QED
    BY <1>1, <2>1, <2>3, <2>4 DEF Streams, c
<1> QED
  BY <1>9, <1>10, <1>12, <1>13, <1>14, <1>15 DEF GapInv

\* The server's protocol moves to socket n, w being the wire it finds.
LEMMA AdoptGap ==
    ASSUME GapInv, TypeOK, IInv, NEW n \in Socket, owner[n] \in {"handshake", "moving"},
           NEW w \in [End -> [Socket -> Seq(Message)]],
           \A d \in End, m \in Socket : m # n => w[d][m] = wire[d][m],
           \A d \in End : \A i \in DOMAIN w[d][n] : w[d][n][i].type # "ReplayRequest",
           Plains(w[Server][n]), n = sock[Client] => Plains(w[Client][n]),
           n = sock[Client] /\ ~reconnecting[Client] => w[Server][n] = wire[Server][n],
           NEW l \in Seq(Message), Plains(l), \A i \in DOMAIN l : l[i].type # "ReplayRequest",
           Adopt(n, w, l)
    PROVE  GapInv'
<1> DEFINE o == sock[Server]
           c == sock[Client]
           s == wire[Client][o] \o buf[Server]
           v == IF open[o] /\ ~paused[Server] THEN s ELSE wire[Client][o]
           r == Rewrite(Server) \o l
<1>1. /\ o \in Socket /\ c \in Socket /\ n # o /\ ~(n > c) /\ ~(o > c)
  <2>1. o \in Socket /\ c \in Socket
    BY GapTypes, Ends
  <2> QED
    BY <2>1 DEF GapInv, Sockets
<1>2. /\ \A d \in End : sock'[d] = IF d = Server THEN n ELSE sock[d]
      /\ \A m \in Socket : open'[m] = IF m = o THEN FALSE ELSE open[m]
      /\ \A m \in Socket : owner'[m] = IF m = n THEN "protocol" ELSE IF m = o THEN "gone"
                                       ELSE owner[m]
      /\ \A d \in End : buf'[d] = IF d = Server THEN r ELSE buf[d]
      /\ paused'[Client] = paused[Client]
      /\ UNCHANGED <<unack, inMsgId, outMsgId, reconnecting, loop>>
  BY <1>1, GapTypes, Ends DEF Adopt
<1>3. \A d \in End, m \in Socket : wire'[d][m] = IF d = Server /\ m = o THEN <<>>
                                                 ELSE IF d = Client /\ m = o THEN v
                                                 ELSE w[d][m]
  <2> DEFINE f == IF open[o] /\ ~paused[Server] THEN [w EXCEPT ![Client][o] = s] ELSE w
  <2>1. s \in Seq(Message)
    BY <1>1, GapTypes, Ends, ConcatParts
  <2>2. w[Client][o] = wire[Client][o]
    BY <1>1, Ends
  <2>3. wire' = [f EXCEPT ![Server][o] = <<>>]
    BY <2>2, Ends DEF Adopt, LeaveSocket
  <2> HIDE DEF s, o
  <2>4. f \in [End -> [Socket -> Seq(Message)]]
    BY <1>1, <2>1, Ends
  <2>5. \A d \in End, m \in Socket : f[d][m] = IF d = Client /\ m = o THEN v ELSE w[d][m]
    <3>1. CASE open[o] /\ ~paused[Server]
      <4>1. f = [w EXCEPT ![Client][o] = s] /\ v = s
        BY <3>1
      <4> QED
        BY <1>1, <2>1, <4>1, Ends, WireExcept
    <3>2. CASE ~(open[o] /\ ~paused[Server])
      BY <2>2, <3>2
    <3> QED
      BY <3>1, <3>2
  <2> HIDE DEF f, v
  <2>6. \A d \in End, m \in Socket :
            [f EXCEPT ![Server][o] = <<>>][d][m] = IF d = Server /\ m = o THEN <<>> ELSE f[d][m]
    <3> DEFINE t == <<>>
    <3>1. Server \in End /\ o \in Socket
      BY <1>1, Ends
    <3> HIDE DEF t
    <3>2. \A d \in End, m \in Socket :
             [f EXCEPT ![Server][o] = t][d][m] = IF d = Server /\ m = o THEN t ELSE f[d][m]
      BY <2>4, <3>1, WireExcept
    <3> QED
      BY <3>2 DEF t
  <2> TAKE d \in End, m \in Socket
  <2>7. wire'[d][m] = IF d = Server /\ m = o THEN <<>> ELSE f[d][m]
    BY <2>3, <2>6
  <2>8. f[d][m] = IF d = Client /\ m = o THEN v ELSE w[d][m]
    BY <2>5
  <2> QED
    BY <2>7, <2>8
<1>4. /\ \A i \in DOMAIN v : v[i].type # "ReplayRequest"
      /\ c = o => Chained(v, inMsgId[Client])
  <2>1. CASE open[o] /\ ~paused[Server]
    <3>1. o = c
      BY <2>1, Ends, OpenSocket
    <3>2. LET z == wire[Client][c] \o buf[Server]
          IN  /\ \A i \in DOMAIN z : z[i].type # "ReplayRequest"
              /\ c = o => Chained(z, inMsgId[Client])
      <4>1. LET z == wire[Peer(Server)][c] \o buf[Server]
            IN  /\ \A i \in DOMAIN z : z[i].type # "ReplayRequest"
                /\ sock[Peer(Server)] = c /\ sock[Server] = c =>
                       Chained(z, inMsgId[Peer(Server)])
        BY <2>1, Flushed, Ends
      <4> QED
        BY <4>1, Ends
    <3>3. v = wire[Client][c] \o buf[Server]
      BY <2>1, <3>1
    <3> HIDE DEF v
    <3> QED
      BY <3>2, <3>3
  <2>2. CASE ~(open[o] /\ ~paused[Server])
    <3>1. v = wire[Client][o]
      BY <2>2
    <3>2. \A i \in DOMAIN wire[Client][o] : wire[Client][o][i].type # "ReplayRequest"
      BY <1>1, Ends DEF GapInv, NoReplay
    <3>3. c = o => Chained(wire[Client][o], inMsgId[Client])
      BY Ends DEF GapInv, Streams
    <3> HIDE DEF v
    <3> QED
      BY <3>1, <3>2, <3>3
  <2> QED
    BY <2>1, <2>2
<1>5. /\ r \in Seq(Message) /\ Ready(r, inMsgId[Client], outMsgId[Server])
      /\ \A i \in DOMAIN r : r[i].type # "ReplayRequest"
  <2> DEFINE t == Rewrite(Server)
  <2>1. /\ t \in Seq(Message) /\ Ready(t, inMsgId[Client], outMsgId[Server])
        /\ \A i \in DOMAIN t : t[i].type # "ReplayRequest"
        /\ inMsgId[Client] \in Nat /\ outMsgId[Server] \in Nat
    BY RewriteReady, GapTypes, Ends DEF GapInv
  <2> HIDE DEF t
  <2>2. /\ t \o l \in Seq(Message) /\ Ready(t \o l, inMsgId[Client], outMsgId[Server])
        /\ \A i \in DOMAIN (t \o l) : (t \o l)[i].type # "ReplayRequest"
    BY <2>1, ConcatParts, TypesConcat, ReadyThenPlains
  <2> QED
    BY <2>2 DEF t
<1>6. sock'[Client] = c /\ sock'[Server] = n
  BY <1>2, Ends
<1> HIDE DEF v, r, o, c
<1>7. NoReplay'
  <2>1. ASSUME NEW d \in End, NEW m \in Socket
        PROVE  \A i \in DOMAIN wire'[d][m] : wire'[d][m][i].type # "ReplayRequest"
    <3>1. CASE m = o
      <4>1. wire'[d][m] \in {<<>>, v}
        BY <1>3, <3>1, Ends
      <4> QED
        BY <1>4, <4>1
    <3>2. CASE m # o /\ m = n
      BY <1>3, <3>2
    <3>3. CASE m # o /\ m # n
      <4>1. wire'[d][m] = wire[d][m]
        BY <1>3, <3>3
      <4> QED
        BY <4>1 DEF GapInv, NoReplay
    <3> QED
      BY <3>1, <3>2, <3>3
  <2>2. ASSUME NEW d \in End PROVE \A i \in DOMAIN buf'[d] : buf'[d][i].type # "ReplayRequest"
    <3>1. CASE d = Server
      <4>1. buf'[d] = r
        BY <1>2, <3>1
      <4> QED
        BY <1>5, <4>1
    <3>2. CASE d # Server
      <4>1. buf'[d] = buf[d]
        BY <1>2, <3>2
      <4> QED
        BY <4>1 DEF GapInv, NoReplay
    <3> QED
      BY <3>1, <3>2
  <2> QED
    BY <1>2, <2>1, <2>2 DEF GapInv, NoReplay
<1>8. \A d \in End, m \in Socket : m # n /\ m # o => wire'[d][m] = wire[d][m]
  BY <1>3
<1>9. Sockets'
  <2>1. ASSUME NEW m \in Socket PROVE owner'[m] = "protocol" <=> m = n
    <3>1. owner[m] = "protocol" <=> m = o
      BY DEF GapInv, Sockets, o
    <3>2. owner'[m] = IF m = n THEN "protocol" ELSE IF m = o THEN "gone" ELSE owner[m]
      BY <1>2
    <3> QED
      BY <3>1, <3>2
  <2>2. ASSUME NEW m \in Socket, open'[m] PROVE m = c
    BY <1>2, <2>2 DEF GapInv, Sockets, c
  <2>3. ASSUME NEW m \in Socket, m > c
        PROVE  owner'[m] = "none" /\ \A d \in End : wire'[d][m] = <<>>
    <3>1. m # n /\ m # o
      BY <1>1, <2>3
    <3>2. owner[m] = "none" /\ \A d \in End : wire[d][m] = <<>>
      BY <2>3 DEF GapInv, Sockets, c
    <3> QED
      BY <1>2, <1>8, <3>1, <3>2
  <2>4. owner'[c] # "none"
    BY <1>1, <1>2 DEF GapInv, Sockets, c
  <2> QED
    BY <1>6, <2>1, <2>2, <2>3, <2>4 DEF Sockets
<1>10. ClientSilent'
  <2>1. ASSUME Plains(wire[Server][c]) PROVE Plains(wire'[Server][c])
    <3>1. CASE c = n
      BY <1>1, <1>3, <3>1, Ends
    <3>2. CASE c = o
      BY <1>1, <1>3, <3>2, Ends DEF Plains
    <3>3. CASE c # n /\ c # o
      BY <1>1, <1>8, <2>1, <3>3, Ends
    <3> QED
      BY <3>1, <3>2, <3>3
  <2>2. buf'[Client] = buf[Client]
    BY <1>2, Ends
  <2> QED
    BY <1>2, <1>6, <2>1, <2>2 DEF GapInv, ClientSilent, c
<1>11. ASSUME NEW m \in Socket, owner'[m] \in {"handshake", "moving"}
       PROVE  m # n /\ m # o /\ owner[m] = owner'[m]
              /\ \A d \in End : wire'[d][m] = wire[d][m]
  BY <1>2, <1>8, <1>11
<1>12. NotYetOwned'
  <2>1. ASSUME NEW m \in Socket, owner'[m] \in {"handshake", "moving"}
        PROVE  Plains(wire'[Server][m])
    <3>1. owner[m] \in {"handshake", "moving"} /\ wire'[Server][m] = wire[Server][m]
      BY <1>11, <2>1, Ends
    <3> QED
      BY <3>1 DEF GapInv, NotYetOwned
  <2>2. ASSUME owner'[c] = "handshake"
        PROVE  reconnecting[Client] /\ wire'[Client][c] = <<>>
    <3>1. owner[c] = "handshake" /\ wire'[Client][c] = wire[Client][c]
      BY <1>1, <1>11, <2>2, Ends
    <3> QED
      BY <3>1 DEF GapInv, NotYetOwned, c
  <2> QED
    BY <1>2, <1>6, <2>1, <2>2 DEF NotYetOwned
<1>13. Moving'
  <2>1. ASSUME owner'[c] = "moving"
        PROVE  owner[c] = "moving" /\ wire'[Client][c] = wire[Client][c]
    BY <1>1, <1>11, <2>1, Ends
  <2> QED
    BY <1>2, <1>6, <2>1 DEF GapInv, Moving, c
<1>14. Streams'
  <2>0. inMsgId[Client] \in Nat /\ inMsgId[Server] \in Nat /\ outMsgId[Server] \in Nat
        /\ w[Client][n] \in Seq(Message) /\ w[Server][n] \in Seq(Message)
    BY GapTypes, Ends
  <2>1. Chained(wire'[Client][c], inMsgId[Client])
    <3>1. CASE c = n
      BY <1>1, <1>3, <2>0, <3>1, PlainsChained, Ends DEF c
    <3>2. CASE c = o
      BY <1>1, <1>3, <1>4, <3>2, Ends
    <3>3. CASE c # n /\ c # o
      BY <1>1, <1>8, <3>3, Ends DEF GapInv, Streams, c
    <3> QED
      BY <3>1, <3>2, <3>3
  <2>2. Chained(wire'[Server][n], inMsgId[Server])
    BY <1>1, <1>3, <2>0, PlainsChained, Ends
  <2>3. ASSUME open'[c], ~reconnecting[Client]
        PROVE  Ready(wire'[Server][c] \o buf'[Client], inMsgId[Server], outMsgId[Client])
    <3>1. c # o /\ open[c] /\ buf'[Client] = buf[Client]
      BY <1>1, <1>2, <2>3, Ends
    <3>2. wire'[Server][c] = wire[Server][c]
      BY <1>1, <1>3, <2>3, <3>1, Ends DEF c
    <3> QED
      BY <2>3, <3>1, <3>2 DEF GapInv, Streams, c
  <2>4. ASSUME n = c
        PROVE  Ready(wire'[Client][c] \o buf'[Server], inMsgId[Client], outMsgId[Server])
    <3>1. wire'[Client][c] = w[Client][n] /\ buf'[Server] = r /\ Plains(w[Client][n])
      BY <1>1, <1>2, <1>3, <2>4, Ends DEF c
    <3> QED
      BY <1>5, <2>0, <3>1, PlainsThenReady
  <2>5. \A d \in End : Chained(wire'[d][sock'[d]], inMsgId[d])
    BY <1>6, <2>1, <2>2, Ends
  <2> QED
    BY <1>2, <1>6, <2>3, <2>4, <2>5 DEF Streams
<1> QED
  BY <1>7, <1>9, <1>10, <1>12, <1>13, <1>14 DEF GapInv

-----------------------------------------------------------------------------
(* NoGap *)

\* At first nothing has been written.
LEMMA InitGap == Init => GapInv
<1> SUFFICES ASSUME Init PROVE GapInv
  OBVIOUS
<1>1. /\ \A e \in End : unack[e] = <<>> /\ buf[e] = <<>> /\ sock[e] = 0
      /\ \A e \in End : inMsgId[e] = 0 /\ outMsgId[e] = 0 /\ ~reconnecting[e]
      /\ \A e \in End, n \in Socket : wire[e][n] = <<>>
      /\ \A n \in Socket : open[n] <=> n = 0
      /\ \A n \in Socket : owner[n] = IF n = 0 THEN "protocol" ELSE "none"
      /\ loop = "up" /\ 0 \in Socket /\ \A n \in Socket : n > 0 => n # 0
  <2>1. \A e \in End : unack[e] = <<>> /\ buf[e] = <<>> /\ sock[e] = 0
    BY DEF Init
  <2>2. \A e \in End : inMsgId[e] = 0 /\ outMsgId[e] = 0 /\ ~reconnecting[e]
    BY DEF Init
  <2>3. \A e \in End, n \in Socket : wire[e][n] = <<>>
    BY DEF Init
  <2>4. /\ \A n \in Socket : open[n] <=> n = 0
        /\ \A n \in Socket : owner[n] = IF n = 0 THEN "protocol" ELSE "none"
    BY DEF Init
  <2>5. loop = "up" /\ 0 \in Socket /\ \A n \in Socket : n > 0 => n # 0
    BY ProtocolAssumption DEF Init, Socket
  <2> QED
    BY <2>1, <2>2, <2>3, <2>4, <2>5
<1>2. NoReplay
  BY <1>1 DEF NoReplay
<1>3. Sockets /\ ClientSilent /\ NotYetOwned /\ Moving
  BY <1>1, Ends DEF Sockets, ClientSilent, NotYetOwned, Moving, Plains
<1>4. Streams
  <2> DEFINE t == <<>>
  <2>1. t \o t = t
    BY EmptyParts, HandoverTypes
  <2>2. Ready(t, 0, 0) /\ Chained(t, 0)
    BY DEF Ready, Chained, Complete
  <2>3. /\ wire[Server][sock[Client]] = t /\ wire[Client][sock[Client]] = t
        /\ wire[Server][sock[Server]] = t /\ buf[Client] = t /\ buf[Server] = t
        /\ inMsgId[Client] = 0 /\ inMsgId[Server] = 0
        /\ outMsgId[Client] = 0 /\ outMsgId[Server] = 0
    BY <1>1, Ends
  <2> HIDE DEF t
  <2>4. \A e \in End : Chained(wire[e][sock[e]], inMsgId[e])
    BY <2>2, <2>3, Ends
  <2>5. Ready(wire[Server][sock[Client]] \o buf[Client], inMsgId[Server], outMsgId[Client])
    BY <2>1, <2>2, <2>3
  <2>6. Ready(wire[Client][sock[Client]] \o buf[Server], inMsgId[Client], outMsgId[Server])
    BY <2>1, <2>2, <2>3
  <2> QED
    BY <2>4, <2>5, <2>6 DEF Streams
<1> QED
  BY <1>2, <1>3, <1>4 DEF GapInv

\* What an end reads is the next message or an old one, and no replay request.
LEMMA ReadsInOrder ==
    ASSUME GapInv, TypeOK, NEW e \in End, wire[e][sock[e]] # <<>>
    PROVE  /\ Arrived(e).type # "ReplayRequest"
           /\ Arrived(e).type = "Regular" => Arrived(e).id <= inMsgId[e] + 1
<1> DEFINE q == wire[e][sock[e]]
<1>1. /\ q \in Seq(Message) /\ q # <<>> /\ inMsgId[e] \in Nat /\ sock[e] \in Socket
      /\ Chained(q, inMsgId[e]) /\ \A i \in DOMAIN q : q[i].type # "ReplayRequest"
  BY GapTypes DEF GapInv, Streams, NoReplay
<1> HIDE DEF q
<1>2. /\ Head(q) = q[1] /\ 1 \in DOMAIN q
      /\ Head(q).type = "Regular" => Head(q).id <= inMsgId[e] + 1
  BY <1>1, TailParts, ChainedHead
<1> QED
  BY <1>1, <1>2 DEF Arrived, q

\* A step of an end that reads.
LEMMA ReceiveGap ==
    ASSUME GapInv, TypeOK, IInv, NEW e \in End, Receive(e)
    PROVE  GapInv'
<1>1. wire[e][sock[e]] # <<>> /\ Consume(e)
  BY DEF Receive, ReceiveNext, ReceiveDuplicate, ReceiveAfterGap, ReceiveAck,
         ReceiveReplayRequest, ReceivePause, ReceiveResume, Arrives
<1>2. /\ Arrived(e).type # "ReplayRequest"
      /\ Arrived(e).type = "Regular" => Arrived(e).id <= inMsgId[e] + 1
  BY <1>1, ReadsInOrder
<1>3. Arrived(e) \in Truthful(Peer(e))
  BY <1>1, ArrivedTruthful DEF IInv
<1>4. Arrived(e).id \in Nat /\ inMsgId[e] \in Nat
  BY <1>3, GapTypes DEF Truthful, Message
<1>5. \A d \in End : \A i \in DOMAIN unack[d] : unack[d][i].type = "Regular"
  BY DEF GapInv, NoReplay
<1>6. ASSUME TakeAck(e)
      PROVE  \A d \in End : \A i \in DOMAIN unack'[d] : unack'[d][i].type = "Regular"
  BY <1>3, <1>6, QueueRegular DEF GapInv
<1>7. inMsgId = [inMsgId EXCEPT ![e] = inMsgId[e]]
  BY GapTypes
<1>8. /\ \A m \in Socket : (e = Server \/ m # sock[e]) => wire'[Client][m] = wire[Client][m]
      /\ owner[sock[Client]] = "moving" /\ e = Client =>
            Arrived(e).type \in {"Pause", "Control"}
  <2>1. wire' = [wire EXCEPT ![e][sock[e]] = Tail(@)]
    BY <1>1 DEF Consume
  <2>2. \A m \in Socket : (e = Server \/ m # sock[e]) => wire'[Client][m] = wire[Client][m]
    BY <2>1, GapTypes, Ends
  <2>3. owner[sock[Client]] = "moving" /\ e = Client => Arrived(e).type \in {"Pause", "Control"}
    BY <1>1, HandoverTypes DEF GapInv, Moving, Arrived
  <2> QED
    BY <2>2, <2>3
<1>9. ASSUME UNCHANGED <<sock, owner, reconnecting>>, paused'[Client] = paused[Client],
             Arrived(e).type \notin {"Pause", "Control"}
      PROVE  Moving'
  <2>1. owner[sock[Client]] = "moving" =>
           wire'[Client][sock[Client]] = wire[Client][sock[Client]]
    BY <1>8, <1>9, GapTypes, Ends
  <2> QED
    BY <1>9, <2>1 DEF GapInv, Moving
<1>10. CASE ReceiveNext(e)
  <2>1. /\ TakeAck(e) /\ inMsgId' = [inMsgId EXCEPT ![e] = Arrived(e).id]
        /\ Arrived(e).id = inMsgId[e] + 1 /\ Arrived(e).type = "Regular"
        /\ UNCHANGED <<buf, outMsgId, sock, owner, open, reconnecting, loop, paused>>
    BY <1>10 DEF ReceiveNext, IsNext, Arrives, Arrived
  <2>2. Moving'
    BY <1>9, <2>1
  <2>3. \A d \in End : \A i \in DOMAIN unack'[d] : unack'[d][i].type = "Regular"
    BY <1>6, <2>1
  <2> DEFINE c == Arrived(e).id
  <2>4. /\ c \in Nat /\ inMsgId[e] <= c /\ inMsgId' = [inMsgId EXCEPT ![e] = c]
        /\ Arrived(e).id <= c
    BY <1>4, <2>1
  <2> HIDE DEF c
  <2>5. UNCHANGED <<buf, outMsgId, sock, owner, open, reconnecting, loop>>
    BY <2>1
  <2> QED
    BY <1>1, <2>2, <2>3, <2>4, <2>5, TakesMessage
<1>11. CASE ReceiveDuplicate(e) \/ ReceiveAck(e)
  <2>1. /\ TakeAck(e) /\ Arrived(e).type \notin {"Pause", "Control"}
        /\ Arrived(e).type = "Regular" => Arrived(e).id <= inMsgId[e]
        /\ UNCHANGED <<inMsgId, buf, outMsgId, sock, owner, open, reconnecting, loop, paused>>
    BY <1>11 DEF ReceiveDuplicate, ReceiveAck, Arrives, Arrived
  <2>2. Moving'
    BY <1>9, <2>1
  <2> QED
    BY <1>1, <1>4, <1>6, <1>7, <2>1, <2>2, TakesMessage
<1>12. ~ReceiveAfterGap(e) /\ ~ReceiveReplayRequest(e)
  BY <1>2, <1>4 DEF ReceiveAfterGap, ReceiveReplayRequest, Arrives, Arrived
<1>13. CASE ReceivePause(e) \/ ReceiveResume(e)
  <2>1. /\ Arrived(e).type \in {"Pause", "Resume"}
        /\ UNCHANGED <<unack, inMsgId, buf, outMsgId, sock, owner, open, reconnecting, loop>>
        /\ paused' = [paused EXCEPT ![e] = (Arrived(e).type = "Pause")]
    BY <1>13 DEF ReceivePause, ReceiveResume, Arrives, Arrived, ids
  <2>2. Moving'
    <3>1. CASE e = Client /\ owner[sock[Client]] = "moving"
      <4>1. Arrived(e).type = "Pause"
        BY <1>8, <2>1, <3>1
      <4>2. paused'[Client]
        BY <2>1, <3>1, <4>1, GapTypes, Ends
      <4>3. wire[Client][sock[Client]] = HandoverAnswer
        BY <1>1, <3>1, <4>1, HandoverTypes DEF GapInv, Moving, Arrived
      <4>4. wire'[Client][sock[Client]] = Tail(HandoverAnswer)
        BY <1>1, <3>1, <4>3, GapTypes, Ends DEF Consume
      <4> QED
        BY <2>1, <4>2, <4>4 DEF Moving
    <3>2. CASE e = Server
      <4>1. paused'[Client] = paused[Client]
        BY <2>1, <3>2, GapTypes, Ends
      <4>2. wire'[Client][sock[Client]] = wire[Client][sock[Client]]
        BY <1>8, <3>2, GapTypes, Ends
      <4> QED
        BY <2>1, <4>1, <4>2 DEF GapInv, Moving
    <3>3. CASE owner[sock[Client]] # "moving"
      BY <2>1, <3>3 DEF Moving
    <3> QED
      BY <3>1, <3>2, <3>3, Ends
  <2> QED
    BY <1>1, <1>4, <1>5, <1>7, <2>1, <2>2, TakesMessage
<1> QED
  BY <1>10, <1>11, <1>12, <1>13 DEF Receive

\* Every step of a system whose wire loses nothing keeps the invariant.
LEMMA StepGap ==
    ASSUME ~Lossy, IInv, GapInv, [Next]_vars
    PROVE  GapInv'
<1>1. TypeOK
  BY DEF IInv, Core, CoreType, QueueOK, TrafficOK, RestType, TypeOK
<1>2. sock[Client] \in Socket /\ sock[Server] \in Socket /\ \A e \in End : inMsgId[e] \in Nat
  BY <1>1, GapTypes, Ends
<1>3. loop \in {"auth", "shake"} => reconnecting[Client]
  BY DEF GapInv, ClientSilent
<1>4. ASSUME NEW e \in End, NEW d \in Data, Send(e, d) PROVE GapInv'
  BY <1>1, <1>4, SendGap
<1>5. ASSUME NEW e \in End, WriteNow(e) PROVE GapInv'
  BY <1>1, <1>5, WriteNowGap
<1>6. ASSUME NEW e \in End, NEW t \in MessageType \ {"Regular", "ReplayRequest"}, NEW a \in Nat
      PROVE  /\ <<Plain(t, a)>> \in Seq(Message) /\ Plains(<<Plain(t, a)>>)
             /\ \A i \in DOMAIN <<Plain(t, a)>> : <<Plain(t, a)>>[i].type # "ReplayRequest"
  <2> DEFINE z == Plain(t, a)
  <2>1. z \in Message /\ z.type = t
    BY DEF Plain, Message
  <2> HIDE DEF z
  <2>2. /\ <<z>> \in Seq(Message) /\ Plains(<<z>>)
        /\ \A i \in DOMAIN <<z>> : <<z>>[i].type # "ReplayRequest"
    BY <2>1 DEF Plains
  <2> QED
    BY <2>2 DEF z
<1>7. ASSUME NEW e \in End, NEW t \in MessageType \ {"Regular", "ReplayRequest"}, NEW a \in Nat,
             Write(e, <<Plain(t, a)>>),
             UNCHANGED <<unack, wire, inMsgId, outMsgId, sock, owner,
                         open, paused, reconnecting>>,
             loop' \in {"auth", "shake"} => reconnecting[Client]
      PROVE  GapInv'
  <2> DEFINE p == <<Plain(t, a)>>
  <2>1. /\ p \in Seq(Message) /\ Plains(p) /\ Write(e, p)
        /\ \A i \in DOMAIN p : p[i].type # "ReplayRequest"
    BY <1>6, <1>7
  <2> HIDE DEF p
  <2> QED
    BY <1>1, <1>7, <2>1, WritesPlain
<1>8. {"Ack", "KeepAlive", "Control"} \subseteq MessageType \ {"Regular", "ReplayRequest"}
  BY DEF MessageType
<1>9. ASSUME NEW e \in End, SendKeepAlive(e) PROVE GapInv'
  BY <1>2, <1>3, <1>7, <1>8, <1>9 DEF SendKeepAlive, network
<1>10. ASSUME UNCHANGED <<unack, buf, wire, inMsgId, outMsgId, sock, owner,
                          paused, reconnecting>>,
              \A n \in Socket : open'[n] => open[n],
              loop' = loop \/ loop' \in {"wait", "up"}
       PROVE  GapInv'
  <2>1. loop' \in {"auth", "shake"} => reconnecting[Client]
    BY <1>3, <1>10
  <2> QED
    BY <1>2, <1>10, <2>1, NothingMoves
<1>11. ASSUME NEW e \in End, AckTimerFires(e) PROVE GapInv'
  <2>1. UNCHANGED <<unack, wire, inMsgId, outMsgId, sock, owner,
                    open, paused, reconnecting, loop>>
    BY <1>11 DEF AckTimerFires, network
  <2>2. buf' = buf \/ Write(e, <<Plain("Ack", inMsgId[e])>>)
    BY <1>11 DEF AckTimerFires
  <2> QED
    BY <1>2, <1>3, <1>7, <1>8, <1>10, <2>1, <2>2
<1>12. ASSUME NEW e \in End, AckTimeout(e) \/ ReplayQuietEnds(e) PROVE GapInv'
  <2>1. /\ UNCHANGED <<unack, buf, wire, inMsgId, outMsgId, sock, owner, open, paused,
                       reconnecting>>
        /\ loop' = loop \/ loop' \in {"wait", "up"}
    BY <1>12 DEF AckTimeout, ReplayQuietEnds, network, ids
  <2> QED
    BY <1>10, <2>1
<1>13. ASSUME NEW e \in End, Receive(e) PROVE GapInv'
  BY <1>1, <1>13, ReceiveGap
<1>14. ASSUME NEW e \in End PROVE ~WireLoses(e)
  BY DEF WireLoses
<1>15. ASSUME ClientSeesClose \/ HandshakeFails \/ HandshakeTimesOut PROVE GapInv'
  <2>1. /\ UNCHANGED <<unack, buf, wire, inMsgId, outMsgId, sock, owner, open, paused,
                       reconnecting>>
        /\ loop' = "wait"
    BY <1>15 DEF ClientSeesClose, HandshakeFails, HandshakeTimesOut, network, ids
  <2> QED
    BY <1>10, <2>1
<1>16. ASSUME ClientConnects PROVE GapInv'
  BY <1>1, <1>16, ClientConnectsGap
<1>17. ASSUME ClientAsks PROVE GapInv'
  BY <1>3, <1>7, <1>8, <1>17, Ends DEF ClientAsks, network, ids
<1>18. ASSUME ReceiveControl PROVE GapInv'
  <2>1. CASE loop = "shake"
    BY <1>1, <1>18, <2>1, ReceiveControlGap
  <2>2. CASE loop # "shake"
    <3>1. /\ wire[Client][sock[Client]] # <<>> /\ Arrived(Client).type = "Control"
          /\ Consume(Client)
          /\ UNCHANGED <<unack, buf, inMsgId, outMsgId, sock, owner, open, paused,
                         reconnecting, loop>>
      BY <1>18, <2>2 DEF ReceiveControl, Arrives, Arrived, users
    <3>2. inMsgId' = [inMsgId EXCEPT ![Client] = inMsgId[Client]]
      BY <1>1, <3>1, GapTypes
    <3>3. Moving'
      <4>1. ASSUME owner[sock[Client]] = "moving"
            PROVE  paused[Client] /\ wire'[Client][sock[Client]] = <<>>
        <5>1. paused[Client] /\ wire[Client][sock[Client]] = Tail(HandoverAnswer)
          BY <3>1, <4>1, HandoverTypes DEF GapInv, Moving, Arrived
        <5> QED
          BY <1>1, <1>2, <3>1, <5>1, GapTypes, Ends, HandoverTypes DEF Consume
      <4> QED
        BY <3>1, <4>1 DEF Moving
    <3>4. \A d \in End : \A i \in DOMAIN unack'[d] : unack'[d][i].type = "Regular"
      BY <3>1 DEF GapInv, NoReplay
    <3> DEFINE c == inMsgId[Client]
    <3>5. /\ c \in Nat /\ inMsgId[Client] <= c /\ inMsgId' = [inMsgId EXCEPT ![Client] = c]
          /\ Arrived(Client).type # "Regular" /\ Client \in End
      <4>1. c \in Nat /\ Client \in End
        BY <1>2, Ends
      <4>2. c <= c
        BY <4>1
      <4>3. inMsgId' = [inMsgId EXCEPT ![Client] = c]
        BY <3>2
      <4>4. Arrived(Client).type # "Regular"
        BY <3>1
      <4> QED
        BY <4>1, <4>2, <4>3, <4>4
    <3> HIDE DEF c
    <3>6. UNCHANGED <<buf, outMsgId, sock, owner, open, reconnecting, loop>>
      BY <3>1
    <3> QED
      BY <1>1, <3>1, <3>3, <3>4, <3>5, <3>6, TakesMessage
  <2> QED
    BY <2>1, <2>2
<1>19. ASSUME SocketDies PROVE GapInv'
  <2>1. /\ UNCHANGED <<unack, buf, wire, inMsgId, outMsgId, sock, owner, paused, reconnecting,
                       loop>>
        /\ open' = [open EXCEPT ![sock[Client]] = FALSE]
    BY <1>19 DEF SocketDies, ids
  <2>2. \A n \in Socket : open'[n] => open[n]
    BY <1>1, <2>1, GapTypes
  <2> QED
    BY <1>10, <2>1, <2>2
<1>20. ASSUME NEW n \in Socket, HandshakeIgnores(n) \/ MovingLoses(n) PROVE GapInv'
  BY <1>1, <1>20, DroppedGap DEF HandshakeIgnores, MovingLoses, ids
<1>21. ASSUME NEW n \in Socket, ServerPauses(n) PROVE GapInv'
  BY <1>1, <1>21, ServerPausesGap
<1>22. ASSUME NEW n \in Socket, ExtHostAdopts(n) PROVE GapInv'
  <2> DEFINE l == <<Plain("Resume", 0)>>
  <2>1. /\ l \in Seq(Message) /\ Plains(l) /\ \A i \in DOMAIN l : l[i].type # "ReplayRequest"
        /\ Adopt(n, wire, l) /\ owner[n] = "moving"
    BY <1>22, HandoverTypes DEF ExtHostAdopts, MessageType
  <2>2. /\ wire \in [End -> [Socket -> Seq(Message)]]
        /\ \A d \in End : \A i \in DOMAIN wire[d][n] : wire[d][n][i].type # "ReplayRequest"
        /\ Plains(wire[Server][n])
    BY <1>1, <2>1, GapTypes DEF GapInv, NoReplay, NotYetOwned
  <2>3. n = sock[Client] => Plains(wire[Client][n])
    BY <2>1, HandoverTypes DEF GapInv, Moving, Plains
  <2> HIDE DEF l
  <2> QED
    BY <1>1, <2>1, <2>2, <2>3, AdoptGap
<1>23. ASSUME NEW n \in Socket, ServerAccepts(n) PROVE GapInv'
  <2> DEFINE p == <<Plain("Control", 0)>>
             q == wire[Server][n]
             t == Tail(q)
             s == IF open[n] THEN wire[Client][n] \o p ELSE wire[Client][n]
             f == [wire EXCEPT ![Server][n] = t]
             w == [f EXCEPT ![Client][n] = s]
  <2>1. /\ p \in Seq(Message) /\ Plains(p) /\ \A i \in DOMAIN p : p[i].type # "ReplayRequest"
        /\ owner[n] = "handshake" /\ q # <<>>
    BY <1>23, HandoverTypes DEF ServerAccepts, Asked, MessageType
  <2>2. Answer(n, p) = w
    BY <1>1, Ends, GapTypes DEF Answer
  <2>3. Adopt(n, w, <<>>)
    BY <1>23, <2>2 DEF ServerAccepts
  <2>4. /\ q \in Seq(Message) /\ wire[Client][n] \in Seq(Message)
        /\ wire \in [End -> [Socket -> Seq(Message)]]
    BY <1>1, GapTypes, Ends
  <2>5. /\ Plains(q) /\ \A i \in DOMAIN q : q[i].type # "ReplayRequest"
        /\ \A i \in DOMAIN wire[Client][n] : wire[Client][n][i].type # "ReplayRequest"
        /\ n = sock[Client] => wire[Client][n] = <<>> /\ reconnecting[Client]
    BY <2>1, Ends DEF GapInv, NotYetOwned, NoReplay
  <2>6. /\ t \in Seq(Message) /\ Plains(t) /\ \A i \in DOMAIN t : t[i].type # "ReplayRequest"
    <3> HIDE DEF q
    <3> QED
      BY <2>1, <2>4, <2>5, TailParts, TypesTail DEF Plains
  <2>7. s \in Seq(Message) /\ \A i \in DOMAIN s : s[i].type # "ReplayRequest"
    <3> HIDE DEF p
    <3> QED
      BY <2>1, <2>4, <2>5, ConcatParts, TypesConcat
  <2>8. n = sock[Client] => Plains(s)
    <3> HIDE DEF p
    <3>1. <<>> \o p = p /\ Plains(<<>>)
      BY <2>1, EmptyParts
    <3> QED
      BY <2>1, <2>5, <3>1
  <2> HIDE DEF p, q, t, s
  <2>9. /\ f \in [End -> [Socket -> Seq(Message)]]
        /\ \A d \in End, m \in Socket : f[d][m] = IF d = Server /\ m = n THEN t ELSE wire[d][m]
    BY <2>4, <2>6, Ends, WireExcept
  <2> HIDE DEF f
  <2>10. /\ w \in [End -> [Socket -> Seq(Message)]]
         /\ \A d \in End, m \in Socket : w[d][m] = IF d = Client /\ m = n THEN s ELSE f[d][m]
    BY <2>7, <2>9, Ends, WireExcept
  <2> HIDE DEF w
  <2>11. /\ w[Server][n] = t /\ w[Client][n] = s
         /\ \A d \in End, m \in Socket : m # n => w[d][m] = wire[d][m]
    BY <2>9, <2>10, Ends
  <2>12. \A d \in End : \A i \in DOMAIN w[d][n] : w[d][n][i].type # "ReplayRequest"
    BY <2>6, <2>7, <2>11, Ends
  <2> DEFINE l == <<>>
  <2>13. /\ l \in Seq(Message) /\ Plains(l) /\ Adopt(n, w, l)
         /\ \A i \in DOMAIN l : l[i].type # "ReplayRequest"
    BY <2>3 DEF Plains
  <2> HIDE DEF l
  <2>14. n = sock[Client] => Plains(w[Client][n]) /\ reconnecting[Client]
    BY <2>5, <2>8, <2>11
  <2>15. Plains(w[Server][n]) /\ owner[n] \in {"handshake", "moving"}
    BY <2>1, <2>6, <2>11
  <2>16. n = sock[Client] => Plains(w[Client][n])
    BY <2>14
  <2>17. n = sock[Client] /\ ~reconnecting[Client] => w[Server][n] = wire[Server][n]
    BY <2>14
  <2>18. w \in [End -> [Socket -> Seq(Message)]]
    BY <2>10
  <2>19. \A d \in End, m \in Socket : m # n => w[d][m] = wire[d][m]
    BY <2>11
  <2>20. n \in Socket
    BY <1>23
  <2> QED
    BY <1>1, <2>12, <2>13, <2>15, <2>16, <2>17, <2>18, <2>19, <2>20, AdoptGap
<1>24. ASSUME UNCHANGED vars PROVE GapInv'
  BY <1>10, <1>24 DEF vars, ids, network
<1> QED
  BY <1>4, <1>5, <1>9, <1>11, <1>12, <1>13, <1>14, <1>15, <1>16, <1>17, <1>18, <1>19, <1>20,
     <1>21, <1>22, <1>23, <1>24 DEF Next

\* NoGap: when sockets lose nothing in the middle, no end ever sees a gap, so no replay
\* is ever requested. The queue is written again to each socket before anything new, and
\* a socket that is changing hands carries nothing regular.
THEOREM GapFree ==
    ASSUME ~Lossy
    PROVE  Spec => []NoGap
<1>1. Init => GapInv
  BY InitGap
<1>2. IInv /\ GapInv /\ [Next]_vars => GapInv'
  BY StepGap
<1>3. IInv /\ GapInv => NoGap
  <2> SUFFICES ASSUME IInv, GapInv, NEW e \in End, Arrives(e, {"Regular"})
               PROVE  Arrived(e).id <= inMsgId[e] + 1
    BY DEF NoGap
  <2>1. TypeOK
    BY DEF IInv, Core, CoreType, QueueOK, TrafficOK, RestType, TypeOK
  <2> QED
    BY <2>1, ReadsInOrder DEF Arrives, Arrived
<1> QED
  BY <1>1, <1>2, <1>3, Invariance, PTL DEF Spec
=============================================================================
