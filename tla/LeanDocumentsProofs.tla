------------------------- MODULE LeanDocumentsProofs -------------------------
(* The server of a running client has open what openServerDocuments says, it  *)
(* is never told to open or close a document twice, and it ends up with the   *)
(* text the editor shows: for any documents, texts and restartFile calls.     *)
EXTENDS LeanDocuments, TLAPS

\* A call whose TextDocument is the one of the editor is at an open document.
CurrentIsOpen ==
    \A k \in Call : restarting[k] # None /\ restarting[k].text = Current =>
        IsOpen(restarting[k].doc)

\* Without a server there is nothing on its way and no call that waits.
Quiet ==
    client \notin {"running", "stopping"} =>
        /\ \A d \in Doc : toServer[d] = <<>> /\ server[d] = NotOpen
        /\ \A k \in Call : restarting[k] = None

\* A client that has no server yet takes no document to be open in it.
Fresh == client \in {"none", "starting"} => openServerDocuments = {}

\* The text the n-th of the notifications s leaves, t being the text before them.
LastText(s, t, n) == IF n = 0 THEN t ELSE s[n].text

\* The edits at the end of s each start from the text the one before left.
Chained(s, t) ==
    \A i \in 1..Len(s) :
        (\A j \in i..Len(s) : s[j].method = "didChange") => s[i].from = LastText(s, t, i - 1)

\* The part of OrderlyNotifications about one document.
OrderlySeq(s, open) ==
    \A i \in 1..Len(s) :
        /\ s[i].method = "didOpen" => ~Opens(s, open, i - 1)
        /\ s[i].method = "didClose" => Opens(s, open, i - 1)
Orderly(d) == OrderlySeq(toServer[d], server[d] # NotOpen)

\* The part of ServerAgrees about one document.
Agrees(d) == d \in openServerDocuments <=> OpenAfter(d, Len(toServer[d]))

\* A document that nobody closed too early is missing from openServerDocuments
\* only when it is closed or at a restartFile call, whose TextDocument is open.
Unhurried(d) ==
    /\ \A k \in CallsAt(d) : restarting[k].text = Current
    /\ ~IsOpen(d) => d \notin openServerDocuments /\ CallsAt(d) = {}
    /\ IsOpen(d) /\ d \notin openServerDocuments => CallsAt(d) # {}

\* The edits on their way lead from the server's text to the editor's.
TextFollows(d) ==
    /\ Chained(toServer[d], server[d])
    /\ LastText(toServer[d], server[d], Len(toServer[d])) = editor[d]

Facts(d) ==
    /\ Orderly(d)
    /\ IsRunning => Agrees(d)
    /\ IsRunning /\ d \notin hurried => Unhurried(d)
    /\ IsRunning /\ d \notin hurried /\ d \in openServerDocuments => TextFollows(d)

IInv == TypeOK /\ CurrentIsOpen /\ Quiet /\ Fresh /\ \A d \in Doc : Facts(d)

\* What a handled notification makes of a document that was open or not.
OpenBy(m, open) == m.method = "didOpen" \/ (open /\ m.method # "didClose")

\* What it makes of the server's text.
TextBy(m, t) ==
    IF m.method # "didChange" THEN m.text
    ELSE IF t = m.from THEN m.text
    ELSE IF t = NotOpen THEN NotOpen ELSE Garbled

-----------------------------------------------------------------------------
(* Sequences of notifications. *)

\* Before any notification is handled, the document is open in the server as it is.
LEMMA OpensNone ==
    ASSUME NEW s, NEW open \in BOOLEAN
    PROVE  Opens(s, open, 0) <=> open
BY DEF Opens

\* A notification at the end does not change what the ones before it lead to.
LEMMA OpensAppend ==
    ASSUME NEW s \in Seq(Notifications), NEW m \in Notifications, NEW open \in BOOLEAN,
           NEW n \in 0..Len(s)
    PROVE  Opens(Append(s, m), open, n) <=> Opens(s, open, n)
<1>1. \A i \in 1..n : Append(s, m)[i] = s[i]
  OBVIOUS
<1>2. QED
  BY <1>1 DEF Opens

\* The last notification has the last word.
LEMMA OpensLast ==
    ASSUME NEW s \in Seq(Notifications), NEW m \in Notifications, NEW open \in BOOLEAN
    PROVE  Opens(Append(s, m), open, Len(s) + 1) <=> OpenBy(m, Opens(s, open, Len(s)))
<1> DEFINE n == Len(s)
           a == Append(s, m)
<1>1. /\ n \in Nat
      /\ a[n + 1] = m
      /\ \A i \in 1..n : a[i] = s[i]
  OBVIOUS
<1> HIDE DEF n, a
<1>2. CASE m.method = "didOpen"
  <2>1. /\ n + 1 \in 1..(n + 1)
        /\ a[n + 1].method = "didOpen"
        /\ \A j \in ((n + 1) + 1)..(n + 1) : a[j].method # "didClose"
    BY <1>1, <1>2
  <2>2. Opens(a, open, n + 1)
    BY <2>1 DEF Opens
  <2>3. QED
    BY <2>2, <1>2 DEF OpenBy, n, a
<1>3. CASE m.method = "didClose"
  <2>1. ~Opens(a, open, n + 1)
    BY <1>1, <1>3 DEF Opens
  <2>2. QED
    BY <2>1, <1>3 DEF OpenBy, n, a
<1>4. CASE m.method = "didChange"
  <2>1. Opens(a, open, n + 1) <=> Opens(s, open, n)
    BY <1>1, <1>4 DEF Opens
  <2>2. QED
    BY <2>1, <1>4 DEF OpenBy, n, a
<1>5. m.method \in {"didOpen", "didClose", "didChange"}
  BY DEF Notifications, DidClose
<1>6. QED
  BY <1>2, <1>3, <1>4, <1>5

\* Handling the first notification leaves what the queue leads to.
LEMMA OpensTail ==
    ASSUME NEW s \in Seq(Notifications), s # <<>>, NEW open \in BOOLEAN,
           NEW n \in 1..Len(s)
    PROVE  Opens(Tail(s), OpenBy(Head(s), open), n - 1) <=> Opens(s, open, n)
<1> DEFINE r == Tail(s)
           h == Head(s)
<1>1. /\ n \in Nat \ {0}
      /\ h = s[1]
      /\ \A i \in 1..(n - 1) : r[i] = s[i + 1]
      /\ \A i \in 2..n : s[i] = r[i - 1] /\ i - 1 \in 1..(n - 1)
  OBVIOUS
<1> HIDE DEF r, h
<1>2. ASSUME Opens(s, open, n)
      PROVE  Opens(r, OpenBy(h, open), n - 1)
  <2>1. CASE \E i \in 2..n : s[i].method = "didOpen" /\ \A j \in (i + 1)..n : s[j].method # "didClose"
    <3>1. PICK i \in 2..n : s[i].method = "didOpen" /\ \A j \in (i + 1)..n : s[j].method # "didClose"
      BY <2>1
    <3>2. i - 1 \in 1..(n - 1) /\ r[i - 1].method = "didOpen"
      BY <3>1, <1>1
    <3>3. ASSUME NEW j \in ((i - 1) + 1)..(n - 1)
          PROVE  r[j].method # "didClose"
      <4>1. j \in 1..(n - 1) /\ j + 1 \in (i + 1)..n
        BY <1>1
      <4>2. QED
        BY <4>1, <3>1, <1>1
    <3>4. QED
      BY <3>2, <3>3 DEF Opens
  <2>2. CASE ~\E i \in 2..n : s[i].method = "didOpen" /\ \A j \in (i + 1)..n : s[j].method # "didClose"
    <3>1. /\ OpenBy(h, open)
          /\ \A j \in 2..n : s[j].method # "didClose"
      BY <1>1, <1>2, <2>2 DEF Opens, OpenBy
    <3>2. ASSUME NEW j \in 1..(n - 1)
          PROVE  r[j].method # "didClose"
      <4>1. j + 1 \in 2..n
        BY <1>1
      <4>2. QED
        BY <4>1, <3>1, <1>1
    <3>3. QED
      BY <3>1, <3>2 DEF Opens
  <2>3. QED
    BY <2>1, <2>2
<1>3. ASSUME Opens(r, OpenBy(h, open), n - 1)
      PROVE  Opens(s, open, n)
  <2>1. CASE \E i \in 1..(n - 1) : r[i].method = "didOpen"
                                /\ \A j \in (i + 1)..(n - 1) : r[j].method # "didClose"
    <3>1. PICK i \in 1..(n - 1) : r[i].method = "didOpen"
                                /\ \A j \in (i + 1)..(n - 1) : r[j].method # "didClose"
      BY <2>1
    <3>2. i + 1 \in 1..n /\ s[i + 1].method = "didOpen"
      BY <3>1, <1>1
    <3>3. ASSUME NEW j \in ((i + 1) + 1)..n
          PROVE  s[j].method # "didClose"
      <4>1. j \in 2..n /\ j - 1 \in (i + 1)..(n - 1)
        BY <1>1
      <4>2. QED
        BY <4>1, <3>1, <1>1
    <3>4. QED
      BY <3>2, <3>3 DEF Opens
  <2>2. CASE OpenBy(h, open) /\ \A j \in 1..(n - 1) : r[j].method # "didClose"
    <3>1. \A j \in 2..n : s[j].method # "didClose"
      BY <2>2, <1>1
    <3>2. QED
      BY <2>2, <3>1, <1>1 DEF Opens, OpenBy
  <2>3. QED
    BY <1>3, <2>1, <2>2 DEF Opens
<1>4. QED
  BY <1>2, <1>3 DEF r, h, OpenBy

\* A queue stays orderly when the next notification fits what it leads to.
LEMMA OrderlyAppend ==
    ASSUME NEW s \in Seq(Notifications), NEW m \in Notifications, NEW open \in BOOLEAN,
           OrderlySeq(s, open),
           m.method = "didOpen" => ~Opens(s, open, Len(s)),
           m.method = "didClose" => Opens(s, open, Len(s))
    PROVE  OrderlySeq(Append(s, m), open)
<1> DEFINE a == Append(s, m)
<1> SUFFICES ASSUME NEW i \in 1..Len(a)
             PROVE  /\ a[i].method = "didOpen" => ~Opens(a, open, i - 1)
                    /\ a[i].method = "didClose" => Opens(a, open, i - 1)
  BY DEF OrderlySeq
<1>1. Opens(a, open, i - 1) <=> Opens(s, open, i - 1)
  BY OpensAppend
<1>2. CASE i \in 1..Len(s)
  BY <1>1, <1>2 DEF OrderlySeq
<1>3. CASE i = Len(s) + 1
  BY <1>1, <1>3
<1>4. QED
  BY <1>2, <1>3

\* The rest of an orderly queue is orderly from where its head leads.
LEMMA OrderlyTail ==
    ASSUME NEW s \in Seq(Notifications), s # <<>>, NEW open \in BOOLEAN,
           OrderlySeq(s, open)
    PROVE  OrderlySeq(Tail(s), OpenBy(Head(s), open))
<1> SUFFICES ASSUME NEW i \in 1..Len(Tail(s))
             PROVE  LET r == Tail(s)
                        o == OpenBy(Head(s), open)
                    IN  /\ r[i].method = "didOpen" => ~Opens(r, o, i - 1)
                        /\ r[i].method = "didClose" => Opens(r, o, i - 1)
  BY DEF OrderlySeq
<1>1. Tail(s)[i] = s[i + 1] /\ i + 1 \in 1..Len(s) /\ i \in 1..Len(s)
  OBVIOUS
<1>2. Opens(Tail(s), OpenBy(Head(s), open), i - 1) <=> Opens(s, open, i)
  BY <1>1, OpensTail
<1>3. /\ s[i + 1].method = "didOpen" => ~Opens(s, open, (i + 1) - 1)
      /\ s[i + 1].method = "didClose" => Opens(s, open, (i + 1) - 1)
  BY <1>1 DEF OrderlySeq
<1>4. (i + 1) - 1 = i
  OBVIOUS
<1>5. QED
  BY <1>1, <1>2, <1>3, <1>4

\* A chain of edits is continued at its end.
LEMMA ChainedAppend ==
    ASSUME NEW s \in Seq(Notifications), NEW m \in Notifications, NEW t,
           m.method = "didChange" => /\ Chained(s, t)
                                     /\ m.from = LastText(s, t, Len(s))
    PROVE  /\ Chained(Append(s, m), t)
           /\ LastText(Append(s, m), t, Len(s) + 1) = m.text
           /\ Len(Append(s, m)) = Len(s) + 1
<1> DEFINE n == Len(s)
           a == Append(s, m)
<1>1. /\ n \in Nat
      /\ Len(a) = n + 1
      /\ a[n + 1] = m
      /\ \A i \in 1..n : a[i] = s[i]
  OBVIOUS
<1> HIDE DEF n, a
<1>2. LastText(a, t, n + 1) = m.text
  BY <1>1 DEF LastText
<1>3. ASSUME NEW i \in 1..(n + 1), \A j \in i..(n + 1) : a[j].method = "didChange"
      PROVE  a[i].from = LastText(a, t, i - 1)
  <2>1. m.method = "didChange"
    BY <1>1, <1>3
  <2>2. Chained(s, t) /\ m.from = LastText(s, t, n)
    BY <2>1 DEF n
  <2>3. LastText(a, t, i - 1) = LastText(s, t, i - 1)
    BY <1>1 DEF LastText
  <2>4. CASE i = n + 1
    BY <1>1, <2>2, <2>3, <2>4
  <2>5. CASE i \in 1..n
    <3>1. \A j \in i..n : s[j].method = "didChange"
      BY <1>1, <1>3, <2>5
    <3>2. s[i].from = LastText(s, t, i - 1)
      BY <2>2, <2>5, <3>1 DEF Chained, n
    <3>3. QED
      BY <1>1, <2>3, <2>5, <3>2
  <2>6. QED
    BY <2>4, <2>5, <1>1
<1>4. Chained(a, t)
  BY <1>1, <1>3 DEF Chained
<1>5. QED
  BY <1>1, <1>2, <1>4 DEF n, a

\* The rest of a chain starts where its first edit ends.
LEMMA ChainedTail ==
    ASSUME NEW s \in Seq(Notifications), s # <<>>, NEW t, Chained(s, t)
    PROVE  /\ Chained(Tail(s), TextBy(Head(s), t))
           /\ LastText(Tail(s), TextBy(Head(s), t), Len(Tail(s))) = LastText(s, t, Len(s))
<1> DEFINE n == Len(s)
           r == Tail(s)
           h == Head(s)
           u == TextBy(h, t)
<1>1. /\ n \in Nat \ {0}
      /\ Len(r) = n - 1
      /\ h = s[1]
      /\ h \in Notifications
      /\ \A i \in 1..(n - 1) : r[i] = s[i + 1]
  OBVIOUS
<1>2. \A i \in 1..n : (\A j \in i..n : s[j].method = "didChange") =>
          s[i].from = LastText(s, t, i - 1)
  BY DEF Chained
<1> HIDE DEF n, r, h, u
<1>3. ASSUME \A j \in 1..n : s[j].method = "didChange"
      PROVE  u = h.text
  <2>1. s[1].from = LastText(s, t, 0)
    BY <1>1, <1>2, <1>3
  <2>2. h.from = t
    BY <2>1, <1>1 DEF LastText
  <2>3. QED
    BY <2>2 DEF u, TextBy
<1>4. ASSUME h.method # "didChange"
      PROVE  u = h.text
  BY <1>4 DEF u, TextBy
<1>5. ASSUME NEW i \in 1..(n - 1), \A j \in i..(n - 1) : r[j].method = "didChange"
      PROVE  r[i].from = LastText(r, u, i - 1)
  <2>1. \A j \in (i + 1)..n : s[j].method = "didChange"
    <3>1. ASSUME NEW j \in (i + 1)..n
          PROVE  s[j].method = "didChange"
      <4>1. j - 1 \in i..(n - 1) /\ j - 1 \in 1..(n - 1) /\ (j - 1) + 1 = j
        BY <1>1
      <4>2. r[j - 1].method = "didChange" /\ r[j - 1] = s[(j - 1) + 1]
        BY <4>1, <1>1, <1>5
      <4>3. QED
        BY <4>1, <4>2
    <3>2. QED
      BY <3>1
  <2>2. s[i + 1].from = LastText(s, t, i)
    <3>1. i + 1 \in 1..n /\ (i + 1) - 1 = i
      BY <1>1
    <3>2. QED
      BY <1>2, <2>1, <3>1
  <2>3. r[i].from = s[i].text
    BY <1>1, <2>2 DEF LastText
  <2>4. CASE i = 1
    <3>1. u = h.text
      <4>1. CASE h.method = "didChange"
        BY <4>1, <2>1, <2>4, <1>1, <1>3
      <4>2. QED
        BY <4>1, <1>4
    <3>2. QED
      BY <3>1, <2>3, <2>4, <1>1 DEF LastText
  <2>5. CASE i # 1
    BY <2>3, <2>5, <1>1 DEF LastText
  <2>6. QED
    BY <2>4, <2>5
<1>6. Chained(r, u)
  BY <1>1, <1>5 DEF Chained
<1>7. LastText(r, u, n - 1) = LastText(s, t, n)
  <2>1. CASE n = 1
    <3>1. u = h.text
      <4>1. CASE h.method = "didChange"
        BY <4>1, <2>1, <1>1, <1>3
      <4>2. QED
        BY <4>1, <1>4
    <3>2. QED
      BY <3>1, <2>1, <1>1 DEF LastText
  <2>2. CASE n # 1
    BY <2>2, <1>1 DEF LastText
  <2>3. QED
    BY <2>1, <2>2
<1>8. QED
  BY <1>1, <1>6, <1>7 DEF n, r, h, u

-----------------------------------------------------------------------------
(* The types. *)

LEMMA MessageTypes ==
    /\ \A t \in Text : DidOpen(t) \in Notifications
    /\ DidClose \in Notifications
    /\ \A t, u \in Text : DidChange(t, u) \in Notifications
    /\ \A m \in Notifications : m.text \in Text \cup {NotOpen}
BY DEF DidOpen, DidClose, DidChange, Notifications

LEMMA FrozenType ==
    ASSUME TypeOK, NEW d \in Doc, IsOpen(d)
    PROVE  Frozen(d) \in [Call -> {None} \cup [doc : Doc, text : Text \cup {Current}]]
<1>1. ASSUME NEW k \in Call
      PROVE  (IF k \in CallsAt(d) /\ restarting[k].text = Current
              THEN [restarting[k] EXCEPT !.text = editor[d]]
              ELSE restarting[k]) \in {None} \cup [doc : Doc, text : Text \cup {Current}]
  <2>1. editor[d] \in Text
    BY DEF TypeOK, IsOpen
  <2>2. CASE k \in CallsAt(d) /\ restarting[k].text = Current
    <3>1. restarting[k] \in [doc : Doc, text : Text \cup {Current}]
      BY <2>2 DEF TypeOK, CallsAt
    <3>2. [restarting[k] EXCEPT !.text = editor[d]] \in [doc : Doc, text : Text \cup {Current}]
      BY <2>1, <3>1
    <3>3. QED
      BY <2>2, <3>2
  <2>3. CASE ~(k \in CallsAt(d) /\ restarting[k].text = Current)
    BY <2>3 DEF TypeOK
  <2>4. QED
    BY <2>2, <2>3
<1>2. QED
  BY <1>1 DEF Frozen

\* What Send does for a document.
LEMMA SendType ==
    ASSUME TypeOK, NEW d \in Doc, NEW m \in Notifications, Send(d, m)
    PROVE  /\ toServer' \in [Doc -> Seq(Notifications)]
           /\ toServer'[d] = Append(toServer[d], m)
           /\ \A e \in Doc \ {d} : toServer'[e] = toServer[e]
BY DEF TypeOK, Send

\* The text restartFile opens a document with.
LEMMA TextOfType ==
    ASSUME TypeOK, NEW k \in Call, restarting[k] # None,
           restarting[k].text = Current => IsOpen(restarting[k].doc)
    PROVE  restarting[k].doc \in Doc /\ TextOf(k) \in Text
<1>1. restarting[k] \in [doc : Doc, text : Text \cup {Current}]
  BY DEF TypeOK
<1>2. CASE restarting[k].text = Current
  BY <1>1, <1>2 DEF TypeOK, TextOf, IsOpen
<1>3. CASE restarting[k].text # Current
  BY <1>1, <1>3 DEF TextOf
<1>4. QED
  BY <1>1, <1>2, <1>3

\* Types are kept by every step.
LEMMA TypeStep ==
    ASSUME TypeOK, CurrentIsOpen, [Next]_vars
    PROVE  TypeOK' /\ CurrentIsOpen'
<1> USE DEF TypeOK, CurrentIsOpen, IsOpen
<1>1. ASSUME NEW d \in Doc, OpenDocument(d)
      PROVE  TypeOK' /\ CurrentIsOpen'
  <2>1. PICK t \in Text :
          /\ editor' = [editor EXCEPT ![d] = t]
          /\ IF IsRunning /\ d \notin openServerDocuments
             THEN /\ openServerDocuments' = openServerDocuments \cup {d}
                  /\ Send(d, DidOpen(t))
             ELSE UNCHANGED <<openServerDocuments, toServer>>
    BY <1>1 DEF OpenDocument
  <2>2. /\ openServerDocuments' \subseteq Doc
        /\ toServer' \in [Doc -> Seq(Notifications)]
    BY <2>1, MessageTypes, SendType
  <2>3. QED
    BY <1>1, <2>1, <2>2, DocumentsAssumption DEF OpenDocument
<1>2. ASSUME NEW d \in Doc, EditDocument(d)
      PROVE  TypeOK' /\ CurrentIsOpen'
  <2>1. PICK t \in Text :
          /\ editor' = [editor EXCEPT ![d] = t]
          /\ IF IsRunning THEN Send(d, DidChange(editor[d], t)) ELSE UNCHANGED toServer
    BY <1>2 DEF EditDocument
  <2>2. editor[d] \in Text
    BY <1>2 DEF EditDocument
  <2>3. toServer' \in [Doc -> Seq(Notifications)]
    BY <2>1, <2>2, MessageTypes, SendType
  <2>4. QED
    BY <1>2, <2>1, <2>3, DocumentsAssumption DEF EditDocument
<1>3. ASSUME NEW d \in Doc, CloseDocument(d)
      PROVE  TypeOK' /\ CurrentIsOpen'
  <2>1. restarting' \in [Call -> {None} \cup [doc : Doc, text : Text \cup {Current}]]
    BY <1>3, FrozenType DEF CloseDocument
  <2>2. toServer' \in [Doc -> Seq(Notifications)]
    BY <1>3, MessageTypes, SendType DEF CloseDocument
  <2>3. TypeOK'
    BY <1>3, <2>1, <2>2 DEF CloseDocument
  <2>4. ASSUME NEW k \in Call, restarting'[k] # None, restarting'[k].text = Current
        PROVE  editor'[restarting'[k].doc] # NotOpen
    <3>1. restarting'[k] = IF k \in CallsAt(d) /\ restarting[k].text = Current
                           THEN [restarting[k] EXCEPT !.text = editor[d]]
                           ELSE restarting[k]
      BY <1>3 DEF CloseDocument, Frozen
    <3>2. CASE k \in CallsAt(d) /\ restarting[k].text = Current
      <4>1. restarting[k] \in [doc : Doc, text : Text \cup {Current}]
        BY <3>2 DEF CallsAt
      <4>2. restarting'[k].text = editor[d]
        BY <3>1, <3>2, <4>1
      <4>3. editor[d] \in Text
        BY <1>3 DEF CloseDocument
      <4>4. QED
        BY <2>4, <4>2, <4>3, DocumentsAssumption
    <3>3. CASE ~(k \in CallsAt(d) /\ restarting[k].text = Current)
      <4>1. restarting'[k] = restarting[k] /\ restarting[k].doc \in Doc \ {d}
        BY <2>4, <3>1, <3>3 DEF CallsAt
      <4>2. QED
        BY <1>3, <2>4, <4>1 DEF CloseDocument
    <3>4. QED
      BY <3>2, <3>3
  <2>5. QED
    BY <2>3, <2>4
<1>4. ASSUME NEW d \in Doc, Handle(d)
      PROVE  TypeOK' /\ CurrentIsOpen'
  <2>1. /\ Head(toServer[d]) \in Notifications
        /\ Tail(toServer[d]) \in Seq(Notifications)
    BY <1>4 DEF Handle
  <2>2. QED
    BY <1>4, <2>1, MessageTypes DEF Handle
<1>5. ASSUME NEW k \in Call, NEW d \in Doc, RestartFile(k, d)
      PROVE  TypeOK' /\ CurrentIsOpen'
  <2>1. toServer' \in [Doc -> Seq(Notifications)]
    BY <1>5, MessageTypes, SendType DEF RestartFile
  <2>2. QED
    BY <1>5, <2>1 DEF RestartFile
<1>6. ASSUME NEW k \in Call, RestartFileReopens(k)
      PROVE  TypeOK' /\ CurrentIsOpen'
  <2>1. restarting[k].doc \in Doc /\ TextOf(k) \in Text
    BY <1>6, TextOfType DEF RestartFileReopens
  <2>2. /\ openServerDocuments' \subseteq Doc
        /\ toServer' \in [Doc -> Seq(Notifications)]
    BY <1>6, <2>1, MessageTypes, SendType DEF RestartFileReopens
  <2>3. QED
    BY <1>6, <2>1, <2>2 DEF RestartFileReopens
<1>7. ASSUME StartReturns
      PROVE  TypeOK' /\ CurrentIsOpen'
  <2>1. ASSUME NEW d \in Doc
        PROVE  (IF IsOpen(d) /\ d \notin openServerDocuments
                THEN Append(toServer[d], DidOpen(editor[d]))
                ELSE toServer[d]) \in Seq(Notifications)
    BY MessageTypes
  <2>2. toServer' \in [Doc -> Seq(Notifications)]
    BY <1>7, <2>1 DEF StartReturns
  <2>3. QED
    BY <1>7, <2>2 DEF StartReturns
<1>8. CASE Start \/ StartFails \/ Stop
  <2>1. /\ client' \in {"none", "starting", "running", "stopping", "failed"}
        /\ openServerDocuments' \subseteq Doc
        /\ UNCHANGED <<editor, restarting, toServer, server, hurried>>
    BY <1>8 DEF Start, StartFails, Stop, IsRunning
  <2>2. QED
    BY <2>1
<1>9. CASE StopReturns \/ ServerCrashes
  <2>1. /\ client' \in {"none", "failed"}
        /\ openServerDocuments' \subseteq Doc
        /\ toServer' = [d \in Doc |-> <<>>]
        /\ server' = [d \in Doc |-> NotOpen]
        /\ restarting' = [k \in Call |-> None]
        /\ hurried' = {}
        /\ UNCHANGED editor
    BY <1>9 DEF StopReturns, ServerCrashes, ServerGone
  <2>2. QED
    BY <2>1
<1>10. CASE UNCHANGED vars
  BY <1>10 DEF vars
<1>11. QED
  BY <1>1, <1>2, <1>3, <1>4, <1>5, <1>6, <1>7, <1>8, <1>9, <1>10 DEF Next

LEMMA TypeInit == Init => TypeOK /\ CurrentIsOpen
BY DocumentsAssumption DEF Init, TypeOK, CurrentIsOpen, IsOpen

\* Every variable has its type.
THEOREM TypeCorrect == Spec => []TypeOK
<1>1. TypeOK /\ CurrentIsOpen /\ [Next]_vars => TypeOK' /\ CurrentIsOpen'
  BY TypeStep
<1>2. QED
  BY TypeInit, <1>1, PTL DEF Spec

-----------------------------------------------------------------------------
(* The documents. *)

\* A document whose part of the state a step leaves alone keeps its facts.
LEMMA FactsKept ==
    ASSUME NEW e \in Doc, Facts(e), IsRunning' => IsRunning,
           editor'[e] = editor[e], toServer'[e] = toServer[e], server'[e] = server[e],
           e \in openServerDocuments' <=> e \in openServerDocuments,
           e \in hurried' <=> e \in hurried,
           CallsAt(e)' = CallsAt(e), \A k \in CallsAt(e) : restarting'[k] = restarting[k]
    PROVE  Facts(e)'
<1>1. Orderly(e)'
  BY DEF Facts, Orderly
<1>2. IsRunning' => Agrees(e)'
  BY DEF Facts, Agrees, OpenAfter
<1>3. (IsRunning /\ e \notin hurried)' => Unhurried(e)'
  BY DEF Facts, Unhurried, IsOpen
<1>4. (IsRunning /\ e \notin hurried /\ e \in openServerDocuments)' => TextFollows(e)'
  BY DEF Facts, TextFollows
<1>5. QED
  BY <1>1, <1>2, <1>3, <1>4 DEF Facts

\* A notification that is sent to a running server in good order.
LEMMA SendFacts ==
    ASSUME TypeOK, NEW d \in Doc, NEW m \in Notifications, Send(d, m),
           server'[d] = server[d], Orderly(d), Agrees(d),
           m.method = "didOpen" => d \notin openServerDocuments,
           m.method = "didClose" => d \in openServerDocuments
    PROVE  /\ Orderly(d)'
           /\ OpenAfter(d, Len(toServer[d]))' <=> OpenBy(m, d \in openServerDocuments)
<1> DEFINE s == toServer[d]
           o == server[d] # NotOpen
<1>1. /\ s \in Seq(Notifications)
      /\ toServer'[d] = Append(s, m)
      /\ Len(Append(s, m)) = Len(s) + 1
      /\ (server'[d] # NotOpen) = o
  BY SendType DEF TypeOK
<1>2. d \in openServerDocuments <=> Opens(s, o, Len(s))
  BY DEF Agrees, OpenAfter
<1>3. OrderlySeq(Append(s, m), o)
  <2>1. OrderlySeq(s, o)
    BY DEF Orderly
  <2>2. QED
    BY <1>1, <1>2, <2>1, OrderlyAppend
<1>4. Opens(Append(s, m), o, Len(s) + 1) <=> OpenBy(m, Opens(s, o, Len(s)))
  BY <1>1, OpensLast
<1>5. Orderly(d)'
  BY <1>1, <1>3 DEF Orderly
<1>6. OpenAfter(d, Len(toServer[d]))' <=> OpenBy(m, d \in openServerDocuments)
  BY <1>1, <1>2, <1>4 DEF OpenAfter, OpenBy
<1>7. QED
  BY <1>5, <1>6

LEMMA SendText ==
    ASSUME TypeOK, NEW d \in Doc, NEW m \in Notifications, Send(d, m),
           server'[d] = server[d], editor'[d] = m.text,
           m.method = "didChange" => TextFollows(d) /\ m.from = editor[d]
    PROVE  TextFollows(d)'
<1> DEFINE s == toServer[d]
           t == server[d]
<1>1. /\ s \in Seq(Notifications)
      /\ toServer'[d] = Append(s, m)
  BY SendType DEF TypeOK
<1>2. m.method = "didChange" => Chained(s, t) /\ m.from = LastText(s, t, Len(s))
  BY DEF TextFollows
<1>3. /\ Chained(Append(s, m), t)
      /\ LastText(Append(s, m), t, Len(s) + 1) = m.text
      /\ Len(Append(s, m)) = Len(s) + 1
  BY <1>1, <1>2, ChainedAppend
<1>4. QED
  BY <1>1, <1>3 DEF TextFollows

LEMMA OpenDocumentFacts ==
    ASSUME TypeOK, NEW d \in Doc, OpenDocument(d), \A e \in Doc : Facts(e), NEW e \in Doc
    PROVE  Facts(e)'
<1>1. PICK t \in Text :
          /\ editor' = [editor EXCEPT ![d] = t]
          /\ IF IsRunning /\ d \notin openServerDocuments
             THEN /\ openServerDocuments' = openServerDocuments \cup {d}
                  /\ Send(d, DidOpen(t))
             ELSE UNCHANGED <<openServerDocuments, toServer>>
  BY DEF OpenDocument
<1>2. /\ UNCHANGED <<client, restarting, server, hurried>>
      /\ ~IsOpen(d)
      /\ editor'[d] = t
      /\ CallsAt(e)' = CallsAt(e)
      /\ IsRunning' = IsRunning
  BY <1>1 DEF OpenDocument, TypeOK, CallsAt, IsRunning
<1>3. CASE e # d
  <2>1. /\ editor'[e] = editor[e]
        /\ toServer'[e] = toServer[e]
        /\ e \in openServerDocuments' <=> e \in openServerDocuments
    BY <1>1, <1>3, SendType, MessageTypes DEF TypeOK
  <2>2. QED
    BY <1>2, <2>1, FactsKept
<1>4. CASE e = d /\ IsRunning /\ d \notin openServerDocuments
  <2>1. /\ Send(d, DidOpen(t))
        /\ d \in openServerDocuments'
        /\ DidOpen(t) \in Notifications
        /\ DidOpen(t).method = "didOpen"
        /\ DidOpen(t).text = t
    BY <1>1, <1>4, MessageTypes DEF DidOpen
  <2>2. Orderly(d)' /\ Agrees(d)'
    BY <1>2, <1>4, <2>1, SendFacts DEF Facts, Agrees, OpenBy
  <2>3. TextFollows(d)'
    BY <1>2, <2>1, SendText
  <2>4. ASSUME (d \notin hurried)'
        PROVE  Unhurried(d)'
    <3>1. CallsAt(d) = {}
      BY <1>2, <1>4, <2>4 DEF Facts, Unhurried
    <3>2. IsOpen(d)' /\ CallsAt(d)' = {}
      BY <1>2, <1>4, <3>1, DocumentsAssumption DEF IsOpen
    <3>3. QED
      BY <2>1, <3>2 DEF Unhurried
  <2>5. QED
    BY <1>4, <2>2, <2>3, <2>4 DEF Facts
<1>5. CASE e = d /\ ~(IsRunning /\ d \notin openServerDocuments)
  <2>1. UNCHANGED <<openServerDocuments, toServer, server, hurried>>
    BY <1>1, <1>2, <1>5
  <2>2. Orderly(d)' /\ (IsRunning' => Agrees(d)')
    BY <1>2, <2>1 DEF Facts, Orderly, Agrees, OpenAfter
  <2>3. IsRunning' => d \in hurried'
    BY <1>2, <1>5, <2>1 DEF Facts, Unhurried
  <2>4. QED
    BY <1>5, <2>2, <2>3 DEF Facts
<1>6. QED
  BY <1>3, <1>4, <1>5

LEMMA EditDocumentFacts ==
    ASSUME TypeOK, NEW d \in Doc, EditDocument(d), \A e \in Doc : Facts(e), NEW e \in Doc
    PROVE  Facts(e)'
<1>1. PICK t \in Text :
          /\ editor' = [editor EXCEPT ![d] = t]
          /\ IF IsRunning THEN Send(d, DidChange(editor[d], t)) ELSE UNCHANGED toServer
  BY DEF EditDocument
<1> DEFINE m == DidChange(editor[d], t)
<1>2. /\ UNCHANGED <<client, openServerDocuments, restarting, server, hurried>>
      /\ IsOpen(d)
      /\ IsOpen(d)'
      /\ editor[d] \in Text
      /\ editor'[d] = t
      /\ CallsAt(e)' = CallsAt(e)
      /\ IsRunning' = IsRunning
  BY <1>1, DocumentsAssumption DEF EditDocument, TypeOK, CallsAt, IsRunning, IsOpen
<1>3. /\ m \in Notifications
      /\ m.method = "didChange"
      /\ m.from = editor[d]
      /\ m.text = t
  BY <1>2, MessageTypes DEF DidChange
<1> HIDE DEF m
<1>4. CASE e # d
  <2>1. editor'[e] = editor[e] /\ toServer'[e] = toServer[e]
    BY <1>1, <1>3, <1>4, SendType DEF TypeOK, m
  <2>2. QED
    BY <1>2, <2>1, FactsKept
<1>5. CASE e = d /\ IsRunning
  <2>1. Send(d, m)
    BY <1>1, <1>5 DEF m
  <2>2. Orderly(d)' /\ Agrees(d)'
    BY <1>2, <1>3, <1>5, <2>1, SendFacts DEF Facts, Agrees, OpenBy
  <2>3. (d \notin hurried)' => Unhurried(d)'
    BY <1>2, <1>5 DEF Facts, Unhurried
  <2>4. (d \notin hurried /\ d \in openServerDocuments)' => TextFollows(d)'
    BY <1>2, <1>3, <1>5, <2>1, SendText DEF Facts
  <2>5. QED
    BY <1>5, <2>2, <2>3, <2>4 DEF Facts
<1>6. CASE e = d /\ ~IsRunning
  <2>1. Orderly(d)'
    BY <1>1, <1>2, <1>6 DEF Facts, Orderly
  <2>2. QED
    BY <1>2, <1>6, <2>1 DEF Facts
<1>7. QED
  BY <1>4, <1>5, <1>6

\* Closing a document leaves every call where it is.
LEMMA FrozenCalls ==
    ASSUME TypeOK, NEW d \in Doc, IsOpen(d), restarting' = Frozen(d), NEW e \in Doc
    PROVE  /\ CallsAt(e)' = CallsAt(e)
           /\ e # d => \A k \in CallsAt(e) : restarting'[k] = restarting[k]
<1>1. ASSUME NEW k \in Call
      PROVE  /\ restarting'[k] = None <=> restarting[k] = None
             /\ restarting[k] # None => restarting'[k].doc = restarting[k].doc
             /\ restarting[k] # None /\ restarting[k].doc # d => restarting'[k] = restarting[k]
  <2>1. restarting'[k] = IF k \in CallsAt(d) /\ restarting[k].text = Current
                         THEN [restarting[k] EXCEPT !.text = editor[d]]
                         ELSE restarting[k]
    BY DEF Frozen
  <2>2. CASE k \in CallsAt(d) /\ restarting[k].text = Current
    <3>1. /\ restarting[k] \in [doc : Doc, text : Text \cup {Current}]
          /\ restarting[k].doc = d
          /\ editor[d] \in Text
      BY <2>2 DEF CallsAt, TypeOK, IsOpen
    <3>2. /\ [restarting[k] EXCEPT !.text = editor[d]] \in [doc : Doc, text : Text \cup {Current}]
          /\ [restarting[k] EXCEPT !.text = editor[d]].doc = restarting[k].doc
      BY <3>1
    <3>3. QED
      BY <2>1, <2>2, <3>1, <3>2, DocumentsAssumption DEF CallsAt
  <2>3. CASE ~(k \in CallsAt(d) /\ restarting[k].text = Current)
    BY <2>1, <2>3
  <2>4. QED
    BY <2>2, <2>3
<1>2. QED
  BY <1>1 DEF CallsAt

LEMMA CloseDocumentFacts ==
    ASSUME TypeOK, NEW d \in Doc, CloseDocument(d), \A e \in Doc : Facts(e), NEW e \in Doc
    PROVE  Facts(e)'
<1>1. /\ UNCHANGED <<client, server>>
      /\ editor'[d] = NotOpen
      /\ CallsAt(e)' = CallsAt(e)
      /\ e # d => \A k \in CallsAt(e) : restarting'[k] = restarting[k]
      /\ IsRunning' = IsRunning
  BY FrozenCalls DEF CloseDocument, TypeOK, IsRunning
<1>2. /\ DidClose \in Notifications
      /\ DidClose.method = "didClose"
  BY MessageTypes DEF DidClose
<1>3. CASE e # d
  <2>1. /\ editor'[e] = editor[e]
        /\ toServer'[e] = toServer[e]
        /\ e \in openServerDocuments' <=> e \in openServerDocuments
        /\ e \in hurried' <=> e \in hurried
    BY <1>2, <1>3, SendType DEF CloseDocument, TypeOK
  <2>2. QED
    BY <1>1, <1>3, <2>1, FactsKept
<1>4. CASE e = d
  <2>1. Orderly(d)' /\ (IsRunning' => Agrees(d)' /\ d \notin openServerDocuments')
    <3>1. CASE IsRunning /\ d \in openServerDocuments
      <4>1. Send(d, DidClose) /\ d \notin openServerDocuments'
        BY <3>1 DEF CloseDocument
      <4>2. QED
        BY <1>1, <1>2, <3>1, <4>1, SendFacts DEF Facts, Agrees, OpenBy
    <3>2. CASE ~(IsRunning /\ d \in openServerDocuments)
      <4>1. UNCHANGED <<openServerDocuments, toServer>>
        BY <3>2 DEF CloseDocument
      <4>2. QED
        BY <1>1, <3>2, <4>1 DEF Facts, Orderly, Agrees, OpenAfter
    <3>3. QED
      BY <3>1, <3>2
  <2>2. ASSUME IsRunning', (d \notin hurried)'
        PROVE  Unhurried(d)'
    <3>1. CallsAt(d)' = {}
      BY <1>1, <1>4, <2>2 DEF CloseDocument
    <3>2. ~IsOpen(d)'
      BY <1>1 DEF IsOpen
    <3>3. QED
      BY <2>1, <2>2, <3>1, <3>2 DEF Unhurried
  <2>3. QED
    BY <1>4, <2>1, <2>2 DEF Facts
<1>5. QED
  BY <1>3, <1>4

LEMMA HandleFacts ==
    ASSUME TypeOK, NEW d \in Doc, Handle(d), \A e \in Doc : Facts(e), NEW e \in Doc
    PROVE  Facts(e)'
<1> DEFINE s == toServer[d]
           m == Head(toServer[d])
           o == server[d] # NotOpen
<1>1. /\ UNCHANGED <<editor, client, openServerDocuments, restarting, hurried>>
      /\ CallsAt(e)' = CallsAt(e)
      /\ IsRunning' = IsRunning
  BY DEF Handle, CallsAt, IsRunning
<1>2. /\ s \in Seq(Notifications)
      /\ s # <<>>
      /\ m \in Notifications
      /\ Len(s) \in 1..Len(s)
      /\ Len(Tail(s)) = Len(s) - 1
      /\ toServer'[d] = Tail(s)
      /\ server'[d] = TextBy(m, server[d])
  BY DEF Handle, TypeOK, TextBy
<1>3. CASE e # d
  <2>1. toServer'[e] = toServer[e] /\ server'[e] = server[e]
    BY <1>3 DEF Handle, TypeOK
  <2>2. QED
    BY <1>1, <2>1, FactsKept
<1>4. CASE e = d
  <2>1. (server'[d] # NotOpen) <=> OpenBy(m, o)
    <3>1. \/ m.method = "didOpen" /\ m.text \in Text
          \/ m.method = "didClose" /\ m.text = NotOpen
          \/ m.method = "didChange" /\ m.from \in Text /\ m.text \in Text
      BY <1>2 DEF Notifications, DidClose
    <3>2. QED
      BY <1>2, <3>1, DocumentsAssumption DEF TextBy, OpenBy
  <2>2. Orderly(d)'
    <3>1. OrderlySeq(s, o)
      BY DEF Facts, Orderly
    <3>2. OrderlySeq(Tail(s), OpenBy(m, o))
      BY <1>2, <3>1, OrderlyTail
    <3>3. (server'[d] # NotOpen) = OpenBy(m, o)
      BY <2>1 DEF OpenBy
    <3>4. QED
      BY <1>2, <3>2, <3>3 DEF Orderly
  <2>3. IsRunning' => Agrees(d)'
    <3>1. Opens(Tail(s), OpenBy(m, o), Len(s) - 1) <=> Opens(s, o, Len(s))
      BY <1>2, OpensTail
    <3>2. (server'[d] # NotOpen) = OpenBy(m, o)
      BY <2>1 DEF OpenBy
    <3>3. QED
      BY <1>1, <1>2, <3>1, <3>2 DEF Facts, Agrees, OpenAfter
  <2>4. (IsRunning /\ d \notin hurried)' => Unhurried(d)'
    BY <1>1, <1>4 DEF Facts, Unhurried, IsOpen
  <2>5. ASSUME TextFollows(d)
        PROVE  TextFollows(d)'
    <3>1. Chained(s, server[d])
      BY <2>5 DEF TextFollows
    <3>2. /\ Chained(Tail(s), TextBy(m, server[d]))
          /\ LastText(Tail(s), TextBy(m, server[d]), Len(Tail(s)))
                = LastText(s, server[d], Len(s))
      BY <1>2, <3>1, ChainedTail
    <3>3. QED
      BY <1>1, <1>2, <2>5, <3>2 DEF TextFollows
  <2>6. QED
    BY <1>1, <1>4, <2>2, <2>3, <2>4, <2>5 DEF Facts
<1>5. QED
  BY <1>3, <1>4

LEMMA RestartFileFacts ==
    ASSUME TypeOK, NEW k \in Call, NEW d \in Doc, RestartFile(k, d),
           \A e \in Doc : Facts(e), NEW e \in Doc
    PROVE  Facts(e)'
<1>1. /\ UNCHANGED <<editor, client, server, hurried>>
      /\ IsRunning
      /\ IsRunning'
      /\ IsOpen(d)
      /\ d \in openServerDocuments
      /\ restarting[k] = None
      /\ openServerDocuments' = openServerDocuments \ {d}
      /\ Send(d, DidClose)
      /\ \A c \in Call \ {k} : restarting'[c] = restarting[c]
      /\ restarting'[k].doc = d
      /\ restarting'[k].text = Current
      /\ restarting'[k] # None
  BY DocumentsAssumption DEF RestartFile, TypeOK, IsRunning
<1>2. DidClose \in Notifications /\ DidClose.method = "didClose"
  BY MessageTypes DEF DidClose
<1>3. CASE e # d
  <2>1. CallsAt(e)' = CallsAt(e) /\ k \notin CallsAt(e)
    BY <1>1, <1>3 DEF CallsAt
  <2>2. toServer'[e] = toServer[e]
    BY <1>1, <1>2, <1>3, SendType
  <2>3. \A c \in CallsAt(e) : restarting'[c] = restarting[c]
    BY <1>1, <2>1 DEF CallsAt
  <2>4. e \in openServerDocuments' <=> e \in openServerDocuments
    BY <1>1, <1>3
  <2>5. QED
    BY <1>1, <2>1, <2>2, <2>3, <2>4, FactsKept
<1>4. CASE e = d
  <2>1. Orderly(d)' /\ Agrees(d)'
    BY <1>1, <1>2, SendFacts DEF Facts, Agrees, OpenBy
  <2>2. ASSUME d \notin hurried
        PROVE  Unhurried(d)'
    <3>1. k \in CallsAt(d)' /\ \A c \in CallsAt(d)' : c # k => c \in CallsAt(d)
      BY <1>1 DEF CallsAt
    <3>2. \A c \in CallsAt(d) : restarting[c].text = Current
      BY <1>1, <2>2 DEF Facts, Unhurried
    <3>3. \A c \in CallsAt(d)' : restarting'[c].text = Current
      BY <1>1, <3>1, <3>2 DEF CallsAt
    <3>4. IsOpen(d)'
      BY <1>1 DEF IsOpen
    <3>5. QED
      BY <3>1, <3>3, <3>4 DEF Unhurried
  <2>3. d \notin openServerDocuments'
    BY <1>1
  <2>4. QED
    BY <1>1, <1>4, <2>1, <2>2, <2>3 DEF Facts
<1>5. QED
  BY <1>3, <1>4

LEMMA RestartFileReopensFacts ==
    ASSUME TypeOK, CurrentIsOpen, NEW k \in Call, RestartFileReopens(k),
           \A e \in Doc : Facts(e), NEW e \in Doc
    PROVE  Facts(e)'
<1>1. PICK d \in Doc : d = restarting[k].doc /\ TextOf(k) \in Text
  BY TextOfType DEF RestartFileReopens, CurrentIsOpen
<1> DEFINE m == DidOpen(TextOf(k))
<1>2. m \in Notifications /\ m.method = "didOpen" /\ m.text = TextOf(k)
  BY <1>1, MessageTypes DEF DidOpen
<1>3. /\ UNCHANGED <<editor, client, server, hurried>>
      /\ IsRunning' = IsRunning
      /\ k \in CallsAt(d)
      /\ \A c \in Call \ {k} : restarting'[c] = restarting[c]
      /\ restarting'[k] = None
      /\ IF d \in openServerDocuments
         THEN UNCHANGED <<openServerDocuments, toServer>>
         ELSE /\ openServerDocuments' = openServerDocuments \cup {d}
              /\ IF IsRunning THEN Send(d, m) ELSE UNCHANGED toServer
  BY <1>1 DEF RestartFileReopens, IsRunning, CallsAt, TypeOK
<1> HIDE DEF m
<1>4. CASE e # d
  <2>1. CallsAt(e)' = CallsAt(e) /\ k \notin CallsAt(e)
    BY <1>1, <1>3, <1>4 DEF CallsAt
  <2>2. toServer'[e] = toServer[e]
    BY <1>1, <1>2, <1>3, <1>4, SendType DEF TypeOK
  <2>3. \A c \in CallsAt(e) : restarting'[c] = restarting[c]
    BY <1>3, <2>1 DEF CallsAt
  <2>4. e \in openServerDocuments' <=> e \in openServerDocuments
    BY <1>3, <1>4
  <2>5. QED
    BY <1>3, <2>1, <2>2, <2>3, <2>4, FactsKept
<1>5. CASE e = d
  <2>1. Facts(d)
    BY <1>1
  <2>2. d \in openServerDocuments'
    BY <1>3
  <2>3. Orderly(d)' /\ (IsRunning => Agrees(d)')
    <3>1. CASE d \notin openServerDocuments /\ IsRunning
      <4>1. Send(d, m) /\ server'[d] = server[d]
        BY <1>3, <3>1
      <4>2. QED
        BY <1>1, <1>2, <2>1, <2>2, <3>1, <4>1, SendFacts DEF Facts, Agrees, OpenBy
    <3>2. CASE ~(d \notin openServerDocuments /\ IsRunning)
      BY <1>3, <2>1, <2>2, <3>2 DEF Facts, Orderly, Agrees, OpenAfter
    <3>3. QED
      BY <3>1, <3>2
  <2>4. ASSUME IsRunning, d \notin hurried
        PROVE  IsOpen(d) /\ TextOf(k) = editor[d] /\ Unhurried(d)'
    <3>1. Unhurried(d)
      BY <2>1, <2>4 DEF Facts
    <3>2. IsOpen(d) /\ TextOf(k) = editor[d]
      BY <1>1, <1>3, <3>1 DEF Unhurried, TextOf
    <3>3. \A c \in CallsAt(d)' : c \in CallsAt(d) /\ restarting'[c] = restarting[c]
      BY <1>3 DEF CallsAt
    <3>4. IsOpen(d)'
      BY <1>3, <3>2 DEF IsOpen
    <3>5. QED
      BY <2>2, <3>1, <3>2, <3>3, <3>4 DEF Unhurried
  <2>5. ASSUME IsRunning, d \notin hurried
        PROVE  TextFollows(d)'
    <3>1. CASE d \in openServerDocuments
      BY <1>3, <2>1, <2>5, <3>1 DEF Facts, TextFollows
    <3>2. CASE d \notin openServerDocuments
      <4>1. Send(d, m) /\ server'[d] = server[d] /\ editor'[d] = m.text
        BY <1>2, <1>3, <2>4, <2>5, <3>2
      <4>2. QED
        BY <1>1, <1>2, <4>1, SendText
    <3>3. QED
      BY <3>1, <3>2
  <2>6. QED
    BY <1>3, <1>5, <2>3, <2>4, <2>5 DEF Facts
<1>6. QED
  BY <1>4, <1>5

LEMMA StartReturnsFacts ==
    ASSUME TypeOK, Quiet, Fresh, StartReturns, NEW d \in Doc
    PROVE  Facts(d)'
<1>1. /\ UNCHANGED <<editor, server>>
      /\ toServer[d] = <<>>
      /\ server'[d] = NotOpen
      /\ openServerDocuments = {}
      /\ \A k \in Call : restarting'[k] = None
      /\ d \in openServerDocuments' <=> IsOpen(d)
      /\ toServer'[d] = IF IsOpen(d) THEN Append(<<>>, DidOpen(editor[d])) ELSE <<>>
  BY DEF StartReturns, Quiet, Fresh
<1>2. Unhurried(d)'
  BY <1>1 DEF Unhurried, CallsAt, IsOpen
<1>3. CASE IsOpen(d)
  <2> DEFINE m == DidOpen(editor[d])
  <2>1. /\ m \in Notifications
        /\ m.method = "didOpen"
        /\ m.text = editor[d]
    BY <1>3, MessageTypes DEF DidOpen, TypeOK, IsOpen
  <2>2. /\ <<>> \in Seq(Notifications)
        /\ Len(<<>>) = 0
        /\ Len(Append(<<>>, m)) = 1
    BY <2>1
  <2> HIDE DEF m
  <2>3. ~Opens(<<>>, FALSE, 0)
    BY OpensNone
  <2>4. OrderlySeq(Append(<<>>, m), FALSE)
    <3>1. OrderlySeq(<<>>, FALSE)
      BY DEF OrderlySeq
    <3>2. QED
      BY <2>1, <2>2, <2>3, <3>1, OrderlyAppend
  <2>5. Opens(Append(<<>>, m), FALSE, 1)
    <3>1. Opens(Append(<<>>, m), FALSE, 0 + 1) <=> OpenBy(m, Opens(<<>>, FALSE, 0))
      BY <2>1, <2>2, OpensLast
    <3>2. OpenBy(m, Opens(<<>>, FALSE, 0)) /\ 0 + 1 = 1
      BY <2>1 DEF OpenBy
    <3>3. QED
      BY <3>1, <3>2
  <2>6. Chained(Append(<<>>, m), NotOpen) /\ LastText(Append(<<>>, m), NotOpen, 1) = m.text
    <3>1. /\ Chained(Append(<<>>, m), NotOpen)
          /\ LastText(Append(<<>>, m), NotOpen, 0 + 1) = m.text
      BY <2>1, <2>2, ChainedAppend
    <3>2. QED
      BY <3>1
  <2>7. (server'[d] # NotOpen) = FALSE /\ toServer'[d] = Append(<<>>, m)
    BY <1>1, <1>3 DEF m
  <2>8. Orderly(d)' /\ Agrees(d)' /\ TextFollows(d)'
    BY <1>1, <1>3, <2>1, <2>2, <2>4, <2>5, <2>6, <2>7
       DEF Orderly, Agrees, OpenAfter, TextFollows
  <2>9. QED
    BY <1>2, <2>8 DEF Facts
<1>4. CASE ~IsOpen(d)
  <2>1. /\ toServer'[d] = <<>>
        /\ Len(toServer'[d]) = 0
        /\ (server'[d] # NotOpen) = FALSE
        /\ d \notin openServerDocuments'
    BY <1>1, <1>4
  <2>2. Orderly(d)'
    BY <2>1 DEF Orderly, OrderlySeq
  <2>3. Agrees(d)'
    BY <2>1, OpensNone DEF Agrees, OpenAfter
  <2>4. QED
    BY <1>2, <2>1, <2>2, <2>3 DEF Facts
<1>5. QED
  BY <1>3, <1>4

\* A step after which the client does not run.
LEMMA NotRunningFacts ==
    ASSUME NEW d \in Doc, Facts(d), ~IsRunning',
           \/ toServer'[d] = toServer[d] /\ server'[d] = server[d]
           \/ toServer'[d] = <<>>
    PROVE  Facts(d)'
<1>1. Orderly(d)'
  BY DEF Facts, Orderly, OrderlySeq
<1>2. QED
  BY <1>1 DEF Facts

\* Every step keeps the facts about every document.
LEMMA FactsStep ==
    ASSUME IInv, [Next]_vars, NEW e \in Doc
    PROVE  Facts(e)'
<1> USE DEF IInv
<1>1. CASE \E d \in Doc : OpenDocument(d)
  BY <1>1, OpenDocumentFacts
<1>2. CASE \E d \in Doc : EditDocument(d)
  BY <1>2, EditDocumentFacts
<1>3. CASE \E d \in Doc : CloseDocument(d)
  BY <1>3, CloseDocumentFacts
<1>4. CASE \E d \in Doc : Handle(d)
  BY <1>4, HandleFacts
<1>5. CASE \E k \in Call, d \in Doc : RestartFile(k, d)
  BY <1>5, RestartFileFacts
<1>6. CASE \E k \in Call : RestartFileReopens(k)
  BY <1>6, RestartFileReopensFacts
<1>7. CASE StartReturns
  BY <1>7, StartReturnsFacts
<1>8. CASE Start \/ StartFails \/ Stop
  <2>1. ~IsRunning' /\ UNCHANGED <<toServer, server>>
    BY <1>8 DEF Start, StartFails, Stop, IsRunning
  <2>2. QED
    BY <2>1, NotRunningFacts
<1>9. CASE StopReturns \/ ServerCrashes
  <2>1. ~IsRunning' /\ toServer'[e] = <<>>
    BY <1>9 DEF StopReturns, ServerCrashes, ServerGone, IsRunning
  <2>2. QED
    BY <2>1, NotRunningFacts
<1>10. CASE UNCHANGED vars
  <2>1. CallsAt(e)' = CallsAt(e)
    BY <1>10 DEF vars, CallsAt
  <2>2. QED
    BY <1>10, <2>1, FactsKept DEF vars, IsRunning
<1>11. QED
  BY <1>1, <1>2, <1>3, <1>4, <1>5, <1>6, <1>7, <1>8, <1>9, <1>10 DEF Next

\* Nothing is sent to a server that does not run.
LEMMA QuietStep ==
    ASSUME IInv, [Next]_vars
    PROVE  Quiet' /\ Fresh'
<1> USE DEF IInv
<1>1. ASSUME NEW d \in Doc, OpenDocument(d)
      PROVE  Quiet' /\ Fresh'
  BY <1>1 DEF OpenDocument, Quiet, Fresh, IsRunning
<1>2. ASSUME NEW d \in Doc, EditDocument(d)
      PROVE  Quiet' /\ Fresh'
  BY <1>2 DEF EditDocument, Quiet, Fresh, IsRunning
<1>3. ASSUME NEW d \in Doc, CloseDocument(d)
      PROVE  Quiet' /\ Fresh'
  <2>1. \A k \in Call : restarting[k] = None => restarting'[k] = None
    BY <1>3 DEF CloseDocument, Frozen, CallsAt
  <2>2. /\ UNCHANGED <<client, server>>
        /\ ~IsRunning => UNCHANGED <<openServerDocuments, toServer>>
    BY <1>3 DEF CloseDocument
  <2>3. QED
    BY <2>1, <2>2 DEF Quiet, Fresh, IsRunning
<1>4. ASSUME NEW d \in Doc, Handle(d)
      PROVE  Quiet' /\ Fresh'
  BY <1>4 DEF Handle, Quiet, Fresh
<1>5. ASSUME NEW k \in Call, NEW d \in Doc, RestartFile(k, d)
      PROVE  Quiet' /\ Fresh'
  BY <1>5 DEF RestartFile, Quiet, Fresh, IsRunning
<1>6. ASSUME NEW k \in Call, RestartFileReopens(k)
      PROVE  Quiet' /\ Fresh'
  BY <1>6 DEF RestartFileReopens, Quiet, Fresh
<1>7. CASE Start \/ StartReturns \/ StartFails \/ Stop
  BY <1>7 DEF Start, StartReturns, StartFails, Stop, IsRunning, Quiet, Fresh
<1>8. CASE StopReturns \/ ServerCrashes
  BY <1>8 DEF StopReturns, ServerCrashes, ServerGone, Quiet, Fresh
<1>9. CASE UNCHANGED vars
  BY <1>9 DEF vars, Quiet, Fresh
<1>10. QED
  BY <1>1, <1>2, <1>3, <1>4, <1>5, <1>6, <1>7, <1>8, <1>9 DEF Next

LEMMA InitFacts == Init => IInv
<1> SUFFICES ASSUME Init PROVE IInv
  OBVIOUS
<1>1. TypeOK /\ CurrentIsOpen
  BY TypeInit
<1>2. Quiet /\ Fresh
  BY DEF Init, Quiet, Fresh
<1>3. ASSUME NEW d \in Doc
      PROVE  Facts(d)
  <2>1. toServer[d] = <<>> /\ ~IsRunning
    BY DEF Init, IsRunning
  <2>2. QED
    BY <2>1 DEF Facts, Orderly, OrderlySeq
<1>4. QED
  BY <1>1, <1>2, <1>3 DEF IInv

\* The inductive invariant holds in every reachable state.
LEMMA Invariance == Spec => []IInv
<1>1. IInv /\ [Next]_vars => IInv'
  <2> SUFFICES ASSUME IInv, [Next]_vars PROVE IInv'
    OBVIOUS
  <2>1. TypeOK' /\ CurrentIsOpen'
    BY TypeStep DEF IInv
  <2>2. \A e \in Doc : Facts(e)'
    BY FactsStep
  <2>3. QED
    BY <2>1, <2>2, QuietStep DEF IInv
<1>2. QED
  BY InitFacts, <1>1, PTL DEF Spec

\* openServerDocuments is what the server of a running client will have open.
THEOREM ServerKnowsDocuments == Spec => []ServerAgrees
<1>1. IInv => ServerAgrees
  BY DEF IInv, Facts, Agrees, ServerAgrees
<1>2. QED
  BY Invariance, <1>1, PTL

\* No document is opened twice in the server, and none closed that is not open.
THEOREM NotificationsInOrder == Spec => []OrderlyNotifications
<1>1. IInv => OrderlyNotifications
  BY DEF IInv, Facts, Orderly, OrderlySeq, OpenAfter, OrderlyNotifications
<1>2. QED
  BY Invariance, <1>1, PTL

\* Between restarts of a file, the server has open what the editor has.
THEOREM DocumentsMatchEditor == Spec => []EditorAgrees
<1>1. IInv => EditorAgrees
  BY DEF IInv, Facts, Unhurried, EditorAgrees
<1>2. QED
  BY Invariance, <1>1, PTL

\* A server that has handled everything has the text the editor shows.
THEOREM TextMatchesEditor == Spec => []TextAgrees
<1>1. ASSUME IInv, IsRunning, NEW d \in Doc \ hurried,
             IsOpen(d), CallsAt(d) = {}, toServer[d] = <<>>
      PROVE  server[d] = editor[d]
  <2>1. d \in openServerDocuments
    BY <1>1 DEF IInv, Facts, Unhurried
  <2>2. LastText(<<>>, server[d], Len(<<>>)) = editor[d]
    BY <1>1, <2>1 DEF IInv, Facts, TextFollows
  <2>3. QED
    BY <2>2 DEF LastText
<1>2. IInv => TextAgrees
  BY <1>1 DEF TextAgrees
<1>3. QED
  BY Invariance, <1>2, PTL
=============================================================================
