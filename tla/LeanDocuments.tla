---------------------------- MODULE LeanDocuments ----------------------------
(* The documents a LeanClient keeps open in its language server: the set      *)
(* openServerDocuments, the didOpen, didChange and didClose middleware, and   *)
(* restartFile, which closes a document and opens it again to start a new     *)
(* worker for it. Between the two it awaits the first notification, and the   *)
(* user may edit, close or reopen the document, restart it once more, or stop *)
(* the server, which may also crash.                                          *)
(*                                                                            *)
(* LeanClientProvider has the life cycle of the client in full; here it is    *)
(* reduced to what it does to the documents.                                  *)
EXTENDS Naturals, Sequences, FiniteSets

CONSTANTS Doc,     \* documents of the client's folder
          Text,    \* contents of a document
          Call,    \* restartFile calls
          NotOpen, \* what a document that is not open has for contents
          Garbled, \* the server's contents after an edit of some other text
          Current, \* the TextDocument of a call is the one the editor has open
          None,    \* no restartFile call
          MaxSent  \* bound: the user waits while so many notifications are on their way

ASSUME DocumentsAssumption ==
    /\ NotOpen \notin Text
    /\ Garbled \notin Text \cup {NotOpen}
    /\ Current \notin Text \cup {NotOpen}
    /\ None \notin [doc : Doc, text : Text \cup {Current}]
    /\ MaxSent \in Nat

VARIABLES editor,              \* what the editor has open: document -> its text
          client,              \* the LanguageClient: undefined, or its state
          openServerDocuments, \* openServerDocuments
          restarting,          \* the restartFile calls that await their didClose
          toServer,            \* the notifications about each document on their way
          server,              \* what the server has open: document -> its text
          hurried              \* documents closed while a restartFile call was at them

vars == <<editor, client, openServerDocuments, restarting, toServer, server, hurried>>

DidOpen(t) == [method |-> "didOpen", from |-> NotOpen, text |-> t]
DidClose == [method |-> "didClose", from |-> NotOpen, text |-> NotOpen]
DidChange(t, u) == [method |-> "didChange", from |-> t, text |-> u]

Init ==
    /\ editor = [d \in Doc |-> NotOpen]
    /\ client = "none"
    /\ openServerDocuments = {}
    /\ restarting = [k \in Call |-> None]
    /\ toServer = [d \in Doc |-> <<>>]
    /\ server = [d \in Doc |-> NotOpen]
    /\ hurried = {}

-----------------------------------------------------------------------------
IsOpen(d) == editor[d] # NotOpen

\* isRunning; also the time in which the library listens to the editor.
IsRunning == client = "running"

\* client.sendNotification(...) for d while the client is running.
Send(d, m) == toServer' = [toServer EXCEPT ![d] = Append(@, m)]

\* The user leaves time for the notifications to be sent.
MaySend(d) == Len(toServer[d]) < MaxSent

\* restartFile calls for d that await their didClose.
CallsAt(d) == {k \in Call : restarting[k] # None /\ restarting[k].doc = d}

\* The calls of restartFile whose TextDocument is closed: it keeps its last text.
Frozen(d) ==
    [k \in Call |-> IF k \in CallsAt(d) /\ restarting[k].text = Current
                    THEN [restarting[k] EXCEPT !.text = editor[d]]
                    ELSE restarting[k]]

\* The editor opens d, and the didOpen middleware passes the notification on
\* unless the document is taken to be open in the server.
OpenDocument(d) ==
    /\ ~IsOpen(d)
    /\ MaySend(d)
    /\ \E t \in Text :
          /\ editor' = [editor EXCEPT ![d] = t]
          /\ IF IsRunning /\ d \notin openServerDocuments
             THEN /\ openServerDocuments' = openServerDocuments \cup {d}
                  /\ Send(d, DidOpen(t))
             ELSE UNCHANGED <<openServerDocuments, toServer>>
    /\ UNCHANGED <<client, restarting, server, hurried>>

\* An edit: the didChange middleware passes every one on.
EditDocument(d) ==
    /\ IsOpen(d)
    /\ MaySend(d)
    /\ \E t \in Text \ {editor[d]} :
          /\ editor' = [editor EXCEPT ![d] = t]
          /\ IF IsRunning
             THEN Send(d, DidChange(editor[d], t))
             ELSE UNCHANGED toServer
    /\ UNCHANGED <<client, openServerDocuments, restarting, server, hurried>>

\* The editor closes d, and the didClose middleware passes the notification on
\* when the document is taken to be open in the server.
CloseDocument(d) ==
    /\ IsOpen(d)
    /\ MaySend(d)
    /\ editor' = [editor EXCEPT ![d] = NotOpen]
    /\ restarting' = Frozen(d)
    /\ IF IsRunning /\ d \in openServerDocuments
       THEN /\ openServerDocuments' = openServerDocuments \ {d}
            /\ Send(d, DidClose)
       ELSE UNCHANGED <<openServerDocuments, toServer>>
    /\ hurried' = IF CallsAt(d) = {} THEN hurried \ {d} ELSE hurried \cup {d}
    /\ UNCHANGED <<client, server>>

-----------------------------------------------------------------------------
\* Mutant: the text to reopen the document with is taken before the await.
RestartFile_TextBefore(k, d) ==
    /\ restarting[k] = None
    /\ IsOpen(d)
    /\ IsRunning
    /\ d \in openServerDocuments
    /\ MaySend(d)
    /\ openServerDocuments' = openServerDocuments \ {d}
    /\ Send(d, DidClose)
    /\ restarting' = [restarting EXCEPT ![k] = [doc |-> d, text |-> editor[d]]]
    /\ UNCHANGED <<editor, client, server, hurried>>

\* restartFile(leanDoc) up to its first await, for a document that is open in the
\* editor; it only shows an error when the client is not running or the document
\* is not open in the server.
RestartFile(k, d) ==
    /\ restarting[k] = None
    /\ IsOpen(d)
    /\ IsRunning
    /\ d \in openServerDocuments
    /\ MaySend(d)
    /\ openServerDocuments' = openServerDocuments \ {d}
    /\ Send(d, DidClose)
    /\ restarting' = [restarting EXCEPT ![k] = [doc |-> d, text |-> Current]]
    /\ UNCHANGED <<editor, client, server, hurried>>

\* The text of the TextDocument restartFile was called with.
TextOf(k) ==
    IF restarting[k].text = Current THEN editor[restarting[k].doc] ELSE restarting[k].text

\* Mutant: the document is not checked to have been opened meanwhile.
RestartFileReopens_Unchecked(k) ==
    LET d == restarting[k].doc IN
    /\ restarting[k] # None
    /\ openServerDocuments' = openServerDocuments \cup {d}
    /\ IF IsRunning THEN Send(d, DidOpen(TextOf(k))) ELSE UNCHANGED toServer
    /\ restarting' = [restarting EXCEPT ![k] = None]
    /\ UNCHANGED <<editor, client, server, hurried>>

\* Mutant: the document is not taken to be open in the server again.
RestartFileReopens_NotAdded(k) ==
    LET d == restarting[k].doc IN
    /\ restarting[k] # None
    /\ IF IsRunning THEN Send(d, DidOpen(TextOf(k))) ELSE UNCHANGED toServer
    /\ restarting' = [restarting EXCEPT ![k] = None]
    /\ UNCHANGED <<editor, client, openServerDocuments, server, hurried>>

\* The didClose of restartFile has been written: the document is opened again,
\* unless the user has reopened it. A client that is being stopped rejects the
\* notification, after the document was added.
RestartFileReopens(k) ==
    LET d == restarting[k].doc IN
    /\ restarting[k] # None
    /\ IF d \in openServerDocuments
       THEN UNCHANGED <<openServerDocuments, toServer>>
       ELSE /\ openServerDocuments' = openServerDocuments \cup {d}
            /\ IF IsRunning THEN Send(d, DidOpen(TextOf(k))) ELSE UNCHANGED toServer
    /\ restarting' = [restarting EXCEPT ![k] = None]
    /\ UNCHANGED <<editor, client, server, hurried>>

\* The server handles the next notification about d.
Handle(d) ==
    LET m == Head(toServer[d]) IN
    /\ client \in {"running", "stopping"}
    /\ toServer[d] # <<>>
    /\ toServer' = [toServer EXCEPT ![d] = Tail(@)]
    /\ server' = [server EXCEPT ![d] =
          IF m.method # "didChange" THEN m.text
          ELSE IF @ = m.from THEN m.text
          ELSE IF @ = NotOpen THEN NotOpen ELSE Garbled]
    /\ UNCHANGED <<editor, client, openServerDocuments, restarting, hurried>>

-----------------------------------------------------------------------------
\* The server process is gone, with what it knew, what was on its way to it and
\* the calls whose didClose was not written, which reject.
ServerGone ==
    /\ toServer' = [d \in Doc |-> <<>>]
    /\ server' = [d \in Doc |-> NotOpen]
    /\ restarting' = [k \in Call |-> None]
    /\ hurried' = {}

\* Mutant: a client whose server crashed does not forget the documents.
Start_NotReset ==
    /\ client \in {"none", "failed"}
    /\ client' = "starting"
    /\ UNCHANGED <<editor, openServerDocuments, restarting, toServer, server, hurried>>

\* restart() up to the start of the server: stop() does not wait for a client
\* that is not running, but forgets its documents.
Start ==
    /\ client \in {"none", "failed"}
    /\ client' = "starting"
    /\ openServerDocuments' = IF client = "failed" THEN {} ELSE openServerDocuments
    /\ UNCHANGED <<editor, restarting, toServer, server, hurried>>

\* LanguageClient.start() has initialized the server and hands every open
\* document to the didOpen middleware.
StartReturns ==
    /\ client = "starting"
    /\ client' = "running"
    /\ openServerDocuments' = openServerDocuments \cup {d \in Doc : IsOpen(d)}
    /\ toServer' = [d \in Doc |-> IF IsOpen(d) /\ d \notin openServerDocuments
                                  THEN Append(toServer[d], DidOpen(editor[d]))
                                  ELSE toServer[d]]
    /\ UNCHANGED <<editor, restarting, server, hurried>>

\* LanguageClient.start() rejects: serverFailed disposes the client, which stops.
StartFails ==
    /\ client = "starting"
    /\ client' = "none"
    /\ openServerDocuments' = {}
    /\ UNCHANGED <<editor, restarting, toServer, server, hurried>>

\* stop() up to its await; the library stops listening to the editor at once.
Stop ==
    /\ IsRunning
    /\ client' = "stopping"
    /\ UNCHANGED <<editor, openServerDocuments, restarting, toServer, server, hurried>>

\* Mutant: a stopped client does not forget the documents.
StopReturns_NotReset ==
    /\ client = "stopping"
    /\ client' = "none"
    /\ ServerGone
    /\ UNCHANGED <<editor, openServerDocuments>>

\* The rest of stop(), when the server has exited or did not answer in time.
StopReturns ==
    /\ client = "stopping"
    /\ client' = "none"
    /\ openServerDocuments' = {}
    /\ ServerGone
    /\ UNCHANGED editor

\* The server exits by itself; the client keeps what it knows of the documents.
ServerCrashes ==
    /\ IsRunning
    /\ client' = "failed"
    /\ ServerGone
    /\ UNCHANGED <<editor, openServerDocuments>>

-----------------------------------------------------------------------------
Next ==
    \/ \E d \in Doc : OpenDocument(d) \/ EditDocument(d) \/ CloseDocument(d) \/ Handle(d)
    \/ \E k \in Call, d \in Doc : RestartFile(k, d)
    \/ \E k \in Call : RestartFileReopens(k)
    \/ Start \/ StartReturns \/ StartFails
    \/ Stop \/ StopReturns \/ ServerCrashes

Spec == Init /\ [][Next]_vars

\* The server handles what it is sent, and an awaited notification is written.
Fairness ==
    /\ \A d \in Doc : WF_vars(Handle(d))
    /\ \A k \in Call : WF_vars(RestartFileReopens(k))
    /\ WF_vars(StartReturns \/ StartFails)
    /\ WF_vars(StopReturns)

FairSpec == Spec /\ Fairness

-----------------------------------------------------------------------------
Notifications ==
    [method : {"didOpen"}, from : {NotOpen}, text : Text] \cup {DidClose}
    \cup [method : {"didChange"}, from : Text, text : Text]

\* Every variable has its type.
TypeOK ==
    /\ editor \in [Doc -> Text \cup {NotOpen}]
    /\ client \in {"none", "starting", "running", "stopping", "failed"}
    /\ openServerDocuments \subseteq Doc
    /\ restarting \in [Call -> {None} \cup [doc : Doc, text : Text \cup {Current}]]
    /\ toServer \in [Doc -> Seq(Notifications)]
    /\ server \in [Doc -> Text \cup {NotOpen, Garbled}]
    /\ hurried \subseteq Doc

\* Whether a document is open after the first n of the notifications s when it is
\* before if open: one of them opened it, or it was open, and none closed it since.
Opens(s, open, n) ==
    \/ \E i \in 1..n : /\ s[i].method = "didOpen"
                       /\ \A j \in (i + 1)..n : s[j].method # "didClose"
    \/ open /\ \A j \in 1..n : s[j].method # "didClose"

\* Whether the server has d open after the first n notifications on their way.
OpenAfter(d, n) == Opens(toServer[d], server[d] # NotOpen, n)

\* openServerDocuments is what the server of a running client has open once it
\* has handled what it was sent.
ServerAgrees ==
    IsRunning => \A d \in Doc :
        d \in openServerDocuments <=> OpenAfter(d, Len(toServer[d]))

\* The server is told to open only documents it has not open, and to close only
\* documents it has open, whatever the user does while files are restarted: the
\* "language server is only resilient against requests for closed files, not the
\* didClose notification itself".
OrderlyNotifications ==
    \A d \in Doc : \A i \in 1..Len(toServer[d]) :
        /\ toServer[d][i].method = "didOpen" => ~OpenAfter(d, i - 1)
        /\ toServer[d][i].method = "didClose" => OpenAfter(d, i - 1)

\* When no restartFile is at work on a document, the server of a running client
\* has it open exactly when the editor has. A document closed while it was being
\* restarted is excepted, see hurried: restartFile opens it in the server for good.
EditorAgrees ==
    IsRunning => \A d \in Doc \ hurried :
        CallsAt(d) = {} => (d \in openServerDocuments <=> IsOpen(d))

\* A server that has handled all it was sent about an open document has the text
\* the editor shows, however edits, restarts and reopening were interleaved.
TextAgrees ==
    IsRunning => \A d \in Doc \ hurried :
        IsOpen(d) /\ CallsAt(d) = {} /\ toServer[d] = <<>> => server[d] = editor[d]

\* While a client stays running and a document keeps its text, the server gets
\* to have that text, again and again if the file is restarted again and again.
DocumentServed ==
    \A d \in Doc, t \in Text :
        <>[](IsRunning /\ editor[d] = t /\ d \notin hurried) => []<>(server[d] = t)
=============================================================================
