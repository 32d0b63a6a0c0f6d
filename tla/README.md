# Verification of Lean4Code in TLA+

Lean4Code is a build of the whole VS Code source (`src/vscode`, with the build
scripts and patches around it) that ships a Lean 4 extension and two panels for
LeanDojo and LeanCopilot. This directory models the parts of it whose
correctness depends on the order in which things happen: processes that talk
over sockets and channels, handlers cut by `await`, timers, crashes.

| module | what it is |
| --- | --- |
| `PersistentProtocol` | the two ends of a remote connection, their sockets, the reconnection loop |
| `ReliableLink` | what the protocol promises: two reliable queues |
| `PersistentProtocolProofs`, `PersistentProtocolGapProofs` | theorems about `PersistentProtocol` |
| `RemoteConnection` | the connections of a window to a server: tokens, attempts, grace timers, giving up |
| `RemoteConnectionProofs` | theorems about `RemoteConnection` |
| `LeanClientProvider` | the language servers of the Lean extension |
| `LeanClientProviderProofs` | theorems about `LeanClientProvider` |
| `LeanDocuments` | what a language server is told of the open documents, and `restartFile` |
| `LeanDocumentsProofs` | theorems about `LeanDocuments` |
| `InfoView` | the InfoView's sessions, subscriptions and what its page shows of stopped servers |
| `InfoViewProofs` | theorems about `InfoView` |
| `Storage` | the key-value storage of windows and main process |
| `WriteBehind` | what the main process promises of the storage's file |
| `StorageProofs` | theorems about `Storage` |
| `MC...`, `*.cfg` | the instances TLC checks |

`PROJECT.json` maps each definition to the lines it stands for, and lists the
runs, the hazards with the properties that cover them, one mutant for each
property (a plausible bug that the property catches), and the theorems.

## 1. Inventory

The upstream part is large (`src/vscode/src/vs`: 128k lines in `base`, 149k in
`platform`, 264k in `editor`, 823k in `workbench`, 10k in `server` and `code`),
the Lean part small (`extensions/lean4` 11.4k lines, `lean4dojo-panel` 0.8k,
`leancopilot-panel` 0.3k). What we look at is the Lean extension, and the
upstream mechanisms that everything stands on and that are hard to test.

| component | state | operations | talks to | hard because | correct when |
| --- | --- | --- | --- | --- | --- |
| remote connection protocol (`base/parts/ipc/common/ipc.net.ts`) | counters, queue of unacknowledged messages, timers, sockets | send, receive, acknowledge, replay, reconnect, pause, hand over | its peer over sockets that break | loss, duplicates, stale sockets, timers against answers | each message arrives once, in order; a dead socket is noticed |
| remote connections (`platform/remote/common/remoteAgentConnection.ts`, `server/node`) | tokens, attempts, `_instances`, grace timers, the extension host process and the sockets on their way to it | connect, reconnect, give up, disconnect, clean up, hand a socket over | `PersistentProtocol`, child processes | timers race reconnections, sockets reach the process out of order, restarts | a lost client is kept for the grace time and no longer; every connection is served again or given up |
| Lean language clients (`lean4/src/utils/clientProvider.ts`, `leanclient.ts`, `projectoperations.ts`) | the client of each folder, pending folders, the active client; flags and server of each client | ensure, restart, stop, project action, crash, failure | LanguageClient and its process, elan, the user's prompts | every handler awaits between reading and using its state | one client per folder, no server without an owner, no folder stuck |
| storage (`base/parts/storage`, `platform/storage`) | cache, pending inserts and deletes, timers, channel, SQLite file | set, delete, flush, close, change events, recovery | windows and main process over a channel | echoes, debounce, queued flushes, errors while closing | windows agree; nothing written is lost by closing |
| async primitives (`base/common/async.ts`) | timers, running and queued promise | trigger, queue, cancel | their callers | rejection, calls while one runs | a queued task runs and its promise settles |
| Lean setup checks (`lean4/src/diagnostics`) | none | run a command, notify | elan, lake | they are the awaits of the above | |
| Lean open documents (`lean4/src/leanclient.ts`, `leanEditorProvider.ts`) | documents the server was told of | open, close, change, restart file | the language server | restarts between open and close | the server knows exactly the open Lean documents |
| InfoView and its RPC (`lean4/src/infoview.ts`, `rpc.ts`) | sessions, subscriptions, waiting calls | connect, keep alive, subscribe, clear | the server, the web page | client stopped during connect, page reloaded | no session outlives its page or its server; what the page shows is so |
| Lean toolchains (`leanCmdRunner.ts`, `elan*.ts`, `leanInstaller.ts`) | none between calls | run elan and lake, decide, ask | processes, the user | cancellation | |
| LeanDojo and LeanCopilot panels | a few flags | spawn, fall back, report | Python, lake | an error event followed by a close event | one trace at a time, flags reset |
| IPC channels (`base/parts/ipc/common/ipc.ts`) | requests under way, listeners | call, listen, cancel | a protocol | cancellation against answers | each call settles once |
| extension host, working copies, life cycle (`workbench/services`, `platform/lifecycle`) | activation state, dirty files, vetoes and joiners | activate, save, back up, shut down | each other | crashes, saves while saving, shutdown | see the plan |
| editor, workbench UI, other services, Rust command line, built-in extensions, build scripts | | | | upstream code, or sequential scripts | not modelled |

The components and why each is left out, where it is, are in `PROJECT.json`
(`components`), and each hazard at its line (`hazards`).

## 2. PersistentProtocol

### State and actions

The variables are the fields of the class `PersistentProtocol` at both ends
(`unack` is `_outgoingUnackMsg`, `outMsgId` is `_outgoingMsgId`, and so on: see
the declarations), its `ProtocolWriter` (`buf`, `paused`), the client's
reconnection loop (`loop`), and the network: `wire[e][n]` are the messages that
travel to `e` on socket `n`, `owner[n]` says who reads the socket at the
server's side. `sent` and `recv` are histories: what the users passed to
`send()`, and what `onMessage` delivered.

| actions | code |
| --- | --- |
| `Send`, `SendKeepAlive`, `WriteNow` | `send`, the keep-alive interval, `ProtocolWriter` |
| `ReceiveNext`, `ReceiveDuplicate`, `ReceiveAfterGap`, `ReceiveAck`, `ReceiveReplayRequest`, `ReceivePause`, `ReceiveResume` | one for each branch of `_receiveMessage` |
| `AckTimerFires`, `AckTimeout`, `ReplayQuietEnds` | `_sendAckCheck`, `_recvAckCheck`, the 10 s after a replay request |
| `ClientSeesClose`, `ClientConnects`, `ClientAsks`, `ReceiveControl`, `HandshakeFails`, `HandshakeTimesOut` | `PersistentConnection`'s loop; `beginAcceptReconnection` and `endAcceptReconnection` |
| `ServerAccepts`; `ServerPauses`, `ExtHostAdopts`; `HandshakeIgnores` | the server: a management connection accepts in the turn of the request; an extension host connection hands the socket to another process, with the client paused |
| `SocketDies`, `MovingLoses`, `WireLoses` | faults |

A fresh socket first belongs to a temporary protocol that reads the handshake.
With `Handover` the socket then travels to the extension host process, and what
arrives meanwhile is read by nobody (`MovingLoses`): that is what Pause and
Resume are for. With `Lossy` the wire may drop a regular message in the middle,
which TCP does not do but the replay request is written for.

A message is the unit: the framing of chunks is left out. Timers have no
duration, a timer that is set may fire at any time, so every race of a timer
with an answer is there. `HandshakeTimesOut` gives an attempt up while its
answer is still on its way.

What decides whether there is a connection at all is the subject of
`RemoteConnection`. Not modelled: contents of control messages, and
`BufferedEmitter` (`onMessage` is taken to have its listener).

### Properties

`DeliveredInOrder`, `NothingForgotten` (the queue holds exactly what may still be
needed), `NoGap` (Pause does its work), `AckScheduled`, `TimeoutWatches` (the
client never waits unwatched), the refinement `ImplementsLink`, and two liveness
properties.

Fairness: timers fire, sockets that are read deliver, the loop goes on and the
server answers, since all of these are timers and event handlers of a live
process. Sending, keep-alives and faults are never forced. Each liveness property
names the one further thing it needs. `EveryMessageAcknowledged` takes a broken
socket to be reported as closed in the end. `ClientMessagesAcknowledged` does
not: there a broken socket may stay unreported for ever, and only the
acknowledgement timer can bring the client to reconnect.

## 3. RemoteConnection

### State and actions

A connection is a reconnection token. `client[c]` is the `PersistentConnection`
with its loop (`phase`, `attempt`, `failed`), or the first attempt to make one;
`instances` and `permanent` are its static fields. `socket[s]` holds both ends
of a socket and how far the handshake on it is (`step`). At the server, `entry`
says whether the token is known (`_managementConnections`,
`_extHostConnections`), `grace[c]` has the timers and the socket of whoever
keeps the protocol: the `ManagementConnection`, or the extension host process.
`exthost[c]` is the `ExtensionHostConnection` with the sockets and messages on
their way to its process.

| actions | code |
| --- | --- |
| `Begin`, `ConnectFails`, `SocketOpens`, `HandshakeTimesOut`, `HandshakeRefused`, `HandshakeDone` | `createInitialConnection`, `doConnectRemoteAgent...`, the constructor of `PersistentConnection` |
| `LosesSocket`, `WaitEnds`, with `GivesUp` and `TriggerPermanentFailure` | `_beginReconnecting`, `_runReconnectingLoop`, `_onReconnectionPermanentFailure` |
| `Disconnects`, `Disposes`, `WindowCloses` | `RemoteExtensionHost`, the end of the window with or without a goodbye |
| `Authenticates`, `HandleManagement`, `FindPort`, `HandleExtHost` | `_handleWebSocketConnection` and `_handleConnectionType`, with the await of a debug port between |
| `SocketEnds`, `ManagementEnds`, `OtherWindowConnects` | `ManagementConnection`: timers, goodbye, shortening |
| `Forks`, `SendsFirstSocket`, `Drains`, `ExitSeen` | `ExtensionHostConnection` |
| `Boots`, `ProcessReceives`, `ProcessExits` | the extension host process (`extensionHostProcess.ts`) |
| `SocketCut`, `ServerRestarts` | faults |

Abstractions: the checks of token, version and signature pass; of messages to
shorten the grace time that wait in a row one is kept, the second has no effect;
other windows connect only while somebody is lost; a socket is taken with
`CHOOSE`, since all free ones are alike; the connection to the extension host is
begun when the management connection is there (`extensionService.ts:286`). Not
modelled: an exception in `start()`, named pipes (`_pipeSockets`), tunnels, and
errors of the resolver other than a failed attempt.

### Properties

`GraceWhileLost`: the timers of a keeper run exactly while its socket is closed,
in whichever order sockets, sends and timers come. `NeverRevived`: a connection
that was cleaned up is not found again. Liveness: `Settles` (a connection is
served again by the keeper of its protocol, or given up), `ClientForgotten` (the
server does not keep what belongs to a client that is gone, and its process
ends).

Fairness: messages over a socket that works arrive, timers fire, processes boot
and exit, and the operating system reports a dead socket in the end. Of users
and faults nothing is assumed, and the address may fail to resolve for ever.

Worth knowing: `triggerPermanentFailure` calls `forEach` on `_instances`
(`remoteAgentConnection.ts:539`), and a management connection that hears of the
failure disposes itself (`abstractRemoteAgentService.ts:231`) and is spliced out
(603-605) under that loop. The instance after it is passed over, so the
extension host connection never reports its permanent failure (`Reached`).
`Settles` shows that it ends all the same.

## 4. LeanClientProvider

### State and actions

The extension runs in one thread, so an action is the code between two awaits.
The awaits at which another handler can get in are the precondition checks of
`ensureClient` (`checks`), the elan query for unsaved files, the wait for a
server to stop, the choice of the toolchain, the start, and the project action:
the field `task` of a client says at which of them its restart is.
`leanClient[c]` has the fields of the class (`client`, `running`, `noPrompt`),
whether a restart prompt is open, and who awaits `start()` (`awaited`).
`server[s]` is a `LanguageClient` with its process; that class is a library
which is not in the repository (`vscode-languageclient`), and is modelled from
how `leanclient.ts` uses it.

| actions | code |
| --- | --- |
| `EnsureClient`, `PreconditionsFatal`, `PreconditionsFulfilled` | `ensureClient` before and after the checks |
| `ElanFails`, `ElanAnswers`, `ToolchainFails`, `SetUpClient` | `restart`, `startClient` up to `client.start()` |
| `StartReturns`, `StartReturnsTooLate`, `StartRejects` | what follows the start: all well; the client was stopped meanwhile; the start failed |
| `ServerCrashes`, `PromptAnswered`, `StopReturns` | the `onDidChangeState` handler, the restart prompt, the end of `stop` |
| `StopServer`, `StopOtherServer`, `RestartServer`, `InstallChanged` | the commands and `onInstallChanged` for one folder |
| `BeginOperation`, `EndOperation` | `runOperation` and `withStoppedClient` |

A client nobody refers to is garbage and its name is used again, and so for
servers: `Client` and `Server` bound what is alive at a time, not what is made.

### Mishaps

`setting` says what a run is about and never changes: the folders, how many
calls there are at a time, and the `Mishaps`, that is, what the surroundings
do: `toolchain` (elan or the choice of a
toolchain fails), `start` (`LanguageClient.start` rejects), `crash`, `stop` and
`action` (the user stops a server, runs a project action), `refuse` (a
precondition is not met), `impatient` (commands reach a client that is being
started or stopped), `stale` (a restart prompt is answered after its client was
forgotten). TLC starts from three settings: two nested folders under the
mishaps of `Orderly`; a project beside the unsaved files under those of
`Patient`; one project and every mishap. A property says under which mishaps it
holds. These are the ones under which the code does not satisfy it, found by
adding them one at a time:

- With `impatient`, 'Stop Server' during `client.start()` resets `this.client`
  under the start. The server comes up without an owner, so `EveryServerOwned`
  and `RunningTruth` fail; and since the folder was taken out of `clients` and
  `pending`, the next document makes a second client for it, although the class
  comment (`clientProvider.ts:42`) says "This class ensures we have one
  LeanClient per folder": `OneClientPerFolder` fails. A restart on the heels of
  a stop, whose end then clears the new server, has like effects.
- With `toolchain`, `ensureClient` ends by making the client active that has
  just failed and was disposed: `ActiveRegistered` fails.
- With `stale`, a prompt restarts a client that the provider has forgotten, next
  to the one it has made since.
- With `start`, the folder stays pending: `PendingSettles` and
  `RestartServerActs` fail. This one contradicts the manual and is the finding
  `lc_stuck` below.

### Properties

`OneClientPerFolder`, `ActiveRegistered` (what the InfoView and the commands talk
to is what the provider finds), `RestartServerActsOrderly` (no folder is pending
without a call that works on it) and `ActionAlone` (no server in a folder during
its project action) in `Orderly` runs; `EveryServerOwned`, `RunningTruth` and,
live, `PendingSettles` in `Patient` ones; always `NoPromptWhileStopping` and
`RestartEnds` (the flag that makes a client refuse commands is released).

Fairness: the awaits of a handler end (checks, elan, toolchain, the action, start
and stop of a server). The checks, the choice of the toolchain and most project
actions may ask the user in a modal dialog before they go on
(`leanCmdRunner.ts:195` and `:311`, `projectoperations.ts:64`), so this does
assume that he answers or dismisses it in the end; while one stays open,
`PendingSettles` and `RestartEnds` say nothing. Nothing else is assumed of him: no
command is forced, and the offers to restart a crashed server or to stop the
server of another folder, which no handler awaits, need never be answered.

## 5. LeanDocuments

### State and actions

A `LeanClient` remembers in `openServerDocuments` what it has told its server to
open, because `restartFile` closes a document and opens it again behind the
back of the library. `editor` is what the editor has open, `restarting` the
`restartFile` calls that await their didClose, `toServer` the notifications
about each document that are on their way, `server` what the server has.

| actions | code |
| --- | --- |
| `OpenDocument`, `EditDocument`, `CloseDocument` | the editor, with the middleware `didOpen`, `didChange`, `didClose` of `setupClient` |
| `RestartFile`, `RestartFileReopens` | `restartFile` before and after its await |
| `Start`, `StartReturns`, `StartFails`, `Stop`, `StopReturns`, `ServerCrashes` | the life cycle, reduced to what it does to the documents |
| `Handle` | the server |

The library (`vscode-languageclient`) is not in the repository. What is taken
from its use: it listens to the editor only while it runs, hands every open
document to the didOpen middleware when it has started, rejects notifications
when it is stopping, and sends in order. Documents do not see each other, so a
queue for each is the one channel, and one document is enough for TLC (two were
tried with smaller bounds). When the process goes, the notifications that were
not written reject, and with them the `restartFile` calls.

A `restartFile` call holds a `TextDocument`: `Current` as long as that is the
one the editor shows; closed, it keeps its last text. `MaxSent` lets the user
wait while four notifications are on their way.

### Properties

`ServerAgrees` (`openServerDocuments` is what the server will have open),
`OrderlyNotifications` (no document is opened twice or closed twice, which the
server does not forgive), `EditorAgrees`, `TextAgrees` and, live,
`DocumentServed`. Fairness: notifications are written and handled, starts and
stops end.

`EditorAgrees` and `TextAgrees` except the documents in `hurried`: those the user
closed while a `restartFile` call awaited its didClose (`leanclient.ts:584`). Their
own didClose was filtered, since they were taken to be closed; the call then
opens them in the server for good. When the user opens one again its didOpen is
filtered as well, and the didChange notifications, which are not filtered
(`leanclient.ts:721`), apply to a stale text. That the properties hold
otherwise shows this is the only way to such a state.

## 6. InfoView

### State and actions

`InfoProvider` serves a web page in a panel. `sessions` are `rpcSessions` and
those being connected; `count` and `heard` are the page's subscriptions to one
method and the clients they reach; `clientsFailed` has the field's name; `shown`
is what the page was told last about the server, `focus` the client of the
active editor.

| actions | code |
| --- | --- |
| `OpenPreview`, `ClosePanel` | `openPreview`, `onDidDispose` of the panel |
| `CreateRpcSession`, `SessionConnected`, `CloseRpcSession`, `Subscribe`, `Unsubscribe` | `editorApi` |
| `MovesCursor` | the handlers that call `sendPosition` |
| `StoppedBegins`, `StoppedTold`, `StoppedRemembered` | `onActiveClientStopped` and its two awaits on the page |
| `Restarted`, `RestartedCleared`, `RestartedInit` | `onClientRestarted` and `initInfoView` |
| `AddClient`, `ServerRuns`, `ServerCrashes`, `Stop`, `RemoveClient`, `StartFails` | the events of `LeanClient` and `LeanClientProvider` |

A call of the page's API is awaited. A page that has been closed never answers
(`rpc.ts` keeps the promise pending), so the rest of the handler is lost:
`ClosePanel` drops the handlers under way and puts their clients in `hurried`.
A client whose handlers overlap is in `hurried` as well, until a handler begins
that nothing overlaps with.

Not modelled: `workersFailed`, `autoOpen`, configuration and styles, editing and
revealing for the page, disposal of the provider, and the handshake of `rpc.ts`.
A client does not fail, or restart, twice before the page has answered the
first time, commands wait for a start, and a forgotten client stays so. What is
left of a removed client in `rpcSessions` lasts until the panel closes and is not
followed.

### Properties

`SessionsEndWithPanel` and `SessionsOfServer`: a session whose connection is
answered late is kept neither without a page nor across a restart of its server.
`EveryoneHeard`: the one subscription of the page reaches clients added later.
`FailedTruth`: once the handlers have ended, `clientsFailed` is right about every
client that is not in `hurried`. `NotShownStopped`: the page does not go on to
show that a running server has stopped. They are safety properties of a system
that is never forced to do anything, so no fairness is stated.

Worth knowing, seen while modelling and checked by no run:

- `onActiveClientStopped` shows its message and then calls `sendPosition` before
  it sets `clientsFailed` (`infoview.ts:640-648`), which clears the message unless
  somebody else has failed before. The page shows it again at the next move of
  the cursor.
- `hurried` is needed: a page that closes in the middle of a handler leaves
  `clientsFailed` as it was, and a restart that overtakes the handler of the crash
  leaves a running client in it.
- `onClientRestarted` subscribes again at every restart of the same client, so
  after a restart the page is told everything twice. The comment at
  `infoview.ts:604` speaks of the first start only.

## 7. Storage

### State and actions

Windows and main process run the same class `Storage`. `st[n]` has its fields:
the cache, the pending inserts and deletes, and what the `ThrottledDelayer` is
at: `deferred` (its timer is set), `active` (the update under way), `queued`
(another flush follows). The database of a window is a channel to the main
process (`toMain`, `toWindow`); that of the main process is the SQLite file
(`disk`, `erroneous`). `changed` is the debounced change event. `asked` is a
history: what the latest `set` or `delete` of each key asked for.

| actions | code |
| --- | --- |
| `Write`, `Flush`, `WhenFlushed`, `FlushTimer` | `set`, `delete`, `flush`, `whenFlushed`, `ThrottledDelayer` with `flushPending` |
| `OpenWindow`, `WindowReceives` | `init`, the answer of the channel, `acceptExternal` |
| `MainReceives`, `Broadcast` | the channel in the main process and its change events |
| `DiskUpdates`, `DiskFails`, `ConnectionFails` | the end of a transaction; an error leaves any part of it, or marks the connection only |
| `Close`, `CloseWindowDatabase`, `CloseDatabase` | `doClose`, and the recovery of an erroneous file |
| `WindowDies` | a crash: what was not sent is gone |

`last` follows the promise of `close()`'s flush through delayer and throttler,
because what happens to it when an update fails is the interesting part.

Not modelled: opening the connection with its retries and backup, in-memory
storage, `optimize` beyond its flush (VACUUM), workspace storage (no change
events), the first-launch key, and switching profiles, but for what it makes
possible: windows in `Early` write to a storage that is still loading.
`Storage.set` accepts that (`base/parts/storage/common/storage.ts:265`), and the
items replace the cache afterwards. The workbench and the shared process await
`initialize()` before anybody gets the storage service
(`workbench/electron-sandbox/desktop.main.ts:386`, `sharedProcessMain.ts:272`), so
without a switch (`platform/storage/common/storageService.ts:169`) `Early` is
empty. `st_shared` has every window in it; the theorems hold for any. The main
process's storage starts loaded and empty, a storage is not closed while it
loads, a closed window does not open again, and what a failed transaction leaves
is chosen when it fails.

### Properties

`Converged` (windows and main process agree once all is delivered),
`WriteScheduled`, `CloseSaves`, the refinement `ImplementsWriteBehind`, and
liveness: `Propagates`, `CloseEndsUnlessFailed`, `WhenFlushedEnds`. `WriteBehind`
says what the file is good for, errors included: as long as none came it holds
the content of one moment, never goes back, and takes one flush at a time; after
an error (`damaged`) each of its items still is one that the cache has held, and
a recovery replaces it from the cache. `Propagates` says that writes reach the
main process, the windows and the file, unless that is erroneous.

Fairness: timers fire and processes answer. A timer that is set again before it
fires is due again, so this assumes that `flush()` is not called for ever
without a pause as long as its delay. Nobody is forced to write or to close.

Worth knowing, and checked by no run: `whenFlushed` looks at what is pending
only, and `flushPending` empties the pending maps before it awaits the database,
so a call made during an update returns at once although the update has not been
written (`base/parts/storage/common/storage.ts:406`; the comment at
`platform/storage/common/storage.ts:217` promises more). And SQLite statements
are cut into chunks by a test made before a pair of parameters is added
(`node/storage.ts:97`), so one may have 258 of them instead of 256.

## 8. Runs

| run | instance | states | shows |
| --- | --- | --- | --- |
| `pp_live` | extension host connection with hand-over, two messages in all, 3 reconnections, 2 faults | 72k | `TimeoutWatches`, `NoGap`, `AckScheduled`, `EveryMessageAcknowledged`, `ClientMessagesAcknowledged` |
| `pp_lossy` | lossy wire, two messages in all, keep-alives, 1 reconnection, 2 faults | 544k | `DeliveredInOrder`, `NothingForgotten`, `ImplementsLink` |
| `rc_lost` | a management and an extension host connection, 3 sockets, 1 fault | 123k | `TypeOK`, `GraceWhileLost`, `NeverRevived`, `Settles`, `ClientForgotten` |
| `lc_all` | the three settings of section 4 | 221k | `TypeOK` and the properties of section 4 |
| `ld_docs` | one document, 2 texts, 3 `restartFile` calls | 93k | `ServerAgrees`, `OrderlyNotifications`, `EditorAgrees`, `TextAgrees`, `DocumentServed` |
| `iv_page` | two clients, one session at a time, two subscriptions | 781k | `SessionsEndWithPanel`, `SessionsOfServer`, `EveryoneHeard`, `FailedTruth`, `NotShownStopped` |
| `st_shared` | two windows and the main process write one key, 3 writes, also while a window loads | 1010k | `Converged` |
| `st_failing` | a window and the main process, two keys, 2 writes, up to 2 errors | 179k | `CloseSaves`, `WriteScheduled`, `ImplementsWriteBehind`, `Propagates`, `CloseEndsUnlessFailed`, `WhenFlushedEnds` |
| `rc_first` | violation | to the first counterexample | `FirstAttemptEnds` |
| `lc_stuck` | violation | to the first counterexample | `RestartServerActs` |
| `st_lastwrite` | violation | to the first counterexample | `LastWriteKept` |
| `st_closing` | violation | to the first counterexample | `CloseEnds` |

Every type invariant is a theorem of section 9. Those of `RemoteConnection` and
`LeanClientProvider` are also checked by the runs `rc_lost` and `lc_all`.

### Bounds

- Protocol: two messages of one end are the fewest that can be reordered, or of
  which one can be skipped, and one of each end the fewest that can cross;
  `TwoInAll` leaves the choice between the two. Two faults make a reconnection
  that fails and is tried again; three reconnections leave an old, a failed and a new
  one. At most one keep-alive is under way, which only bounds how many equal
  ones queue up. `CHECK_DEADLOCK FALSE`: when everything was sent and
  acknowledged nothing more happens.
- Connections: `MaxAttempts` 0 lets the client give up after one attempt too
  many and before, one fault may be a cut socket, a timeout in spite of a
  server that answers, a process that dies or a server that restarts. Attempts
  that fail without a fault of these are not counted. Three sockets are the one
  that lingers, the one of an attempt given up, and the next.
- Clients: two folders are what nesting needs. Two clients and two servers allow
  an old and a new one of a folder, or one for each of two folders; two calls
  allow the checks of two documents at a time.
- Documents: two texts make a stale one visible; of three `restartFile` calls one
  may end while another begins and a third waits.
- InfoView: two clients, since what the page shows of one depends on whether
  another has failed. One session is enough: sessions do not see each other.
- Storage: two windows are what it takes for a write of one to race with a write
  of the other and with the echo of both; two keys make a mixed file possible;
  two writes of a key make an old value distinguishable from a new one (absent,
  set, deleted). Two errors let the recovery of a first error fail as well.
  Windows and main process may stop, hence `CHECK_DEADLOCK FALSE`.
- Symmetry is used in `iv_page`, `st_shared` and `lc_stuck` only, none of which
  checks liveness.

### Disagreements found

- `rc_first`. The answer that ends a first handshake is awaited without a timeout
  and without a look at the socket (`remoteAgentConnection.ts:323`). When the
  server goes away at that moment, the window waits for ever, and the five
  attempts that the comment at line 435 promises are not made.
- `lc_stuck`. When `LanguageClient.start()` rejects, the `serverFailed` handler
  disposes the client, `this.client` becomes undefined, and its next use
  (`leanclient.ts:408`) throws out of `restart` and `ensureClient`, past
  `pending.delete`. From then on 'Restart Server' does nothing, while the manual
  (`manual.md:784`) names it as what always helps.
- `st_lastwrite`. The change event also goes to the window that wrote, and
  overwrites its cache although a newer write is pending
  (`base/parts/storage/common/storage.ts:180`). A key set to a, then to b, then
  after the echo of a back to a ends up as b.
- `st_closing`. The promise of a flush queued behind a running one never settles
  when the queued one fails (`async.ts:270`), so `close()` waits for ever and the
  database is not closed, against `storage.ts:344`.

## 9. Proofs

The theorems hold for all values of the constants that the modules' assumptions
allow. Every safety property that a passing run checks is a theorem, the
refinements `ImplementsLink` and `ImplementsWriteBehind` and the action properties
included. The assumptions (`ASSUME` at the head of each module) say that distinct
things are distinct (a value that stands for "nothing" is none of the things it
replaces, `Main` is no window), that sets of one kind lie in one another as they
should, and that bounds are numbers.

`PersistentProtocolProofs`: `TypeCorrect`, `InOrder`, `NothingLost`,
`Implementation` (the protocol implements `ReliableLink`), `AcksScheduled`,
`TimeoutRuns`, with and without loss and hand-over. `DeliveredInOrder` is not
inductive: a message that is accepted has to be the right one, which depends on
what travels. The inductive invariant `IInv` says of all messages, in buffers, on
every wire of whatever age and in the queue, that they are `Truthful`: their
acknowledgement is not ahead of what was received, and a regular one carries what
was sent under its number. Together with `NothingForgotten` and the counters being
the lengths of the histories, that is preserved by every step, and whoever owns
which socket does not matter. There is one lemma for each group of actions; each
step that only moves messages follows from `TrafficStays` and `NewTraffic`. The
two properties of the timers are inductive on top of that, together with the fact
that a reconnection ends with its loop (`Timed`).

`PersistentProtocolGapProofs`: `GapFree`, that `NoGap` holds when sockets lose
nothing in the middle. That hypothesis is `~Lossy`, which is what TCP gives and
what the run `pp_live` has; with a lossy wire `NoGap` is false, and the replay
request is there for it. `NoGap` speaks of the message at the head of a wire
only. What is inductive is that the *stream* to each end, what is on its socket
followed by what the other end has buffered, has no gap anywhere (`Chained`) and
reaches the last message sent (`Complete`), so that the next one may follow. A
reconnection makes a new stream from the queue, which starts at or before what
the reader expects by `NothingForgotten`. Until then a new socket carries nothing
regular, and the rest of `GapInv` says why: a client that reconnects is silent
(`ClientSilent`), a socket the server's protocol does not own yet was written to
by such a client only (`NotYetOwned`), and while the socket travels to the
extension host process the client has been told to pause (`Moving`). `Sockets`
says which of the sockets, all but the last abandoned, is whose.

`RemoteConnectionProofs`: `TypeCorrect`, `OnTheClock`, `NoneRevived`, for any number
of tokens, sockets and faults. `GraceWhileLost` could fail when closing the socket
a keeper replaces closed another one, so the invariant follows every socket at
the server's side: it is held for one connection (`HeldApart`), in one place, be
it the keeper, the first socket of a fork, the queue to the process or a message
(`Placed`), and `Clocked` then has the timers run exactly while it is closed.
`NeverRevived` cannot be seen from the server's table: a token that was removed is
accepted again only by a first socket, and `FirstSocket` says that there is one
for each connection, which waits for its acceptance only as long as the server has
never known the token.

`LeanClientProviderProofs`: `TypeCorrect`, `PromptBack`, `ServersOwned`,
`RunningIsTrue`, `OneForFolder`, `ActiveFound`, `RestartActs`, `ActionsAlone`, for any
folders, nested or not, any number of clients, servers and calls, and any
setting. The inductive invariant has three layers. `Always` holds whatever the
mishaps: every process has an owner, the server a client waits for is its own
and in the state it waits in. `PatientInv` adds, when every server comes up before
the next command, that the owner's fields say what the process does.
`OrderlyInv` adds, when elan and the toolchains do their work too, that whoever is
busy or has a server is what the provider finds under its folder, and that a
folder is checked by one call at a time. The handlers make only a few *moves*
of one client and one server (`Notes`, `Stops`, and so on), so the first two
layers are proved of moves, and only the third looks at the handlers one by one.
The hypothesis on the mishaps is part of each property, as section 4 explains.

`StorageProofs`: `TypeCorrect`, `Scheduled`, `SavedOnClose`, `Implementation` (the
file implements `WriteBehind`, with any number of errors) and `WindowsAgree`. The
inductive invariant `Inv` has, for each Storage, `Coherent` (its timer, throttler
and closing fit together); for each window, `Channel`: one update at most is under
way, as a request or as an answer, while its throttler runs it; and for the file,
`Layered`: the cache is the file with the running update and the pending writes
applied, as long as no error came. After one that is lost, and what remains is
`Ahead`: what the main process has pending is what its cache holds. From it
follows that a flush, whole or in part, mixes values of file and cache
(`FlushMixes`), which is all that `WriteBehind` asks of a damaged file. The
functions of a Storage are treated once (`PutCoherent`, `FireCoherent`,
`FinishLayered`, `PutAhead` and so on), and the actions cite them.

`WindowsAgree` is that `Converged` holds, which speaks of quiet moments only. What
holds in between is `Agreement`, key by key (`View`). Unless the key is in the
change event to come, the last message on its way to a window that carries the
key has the main process' value (`LatestNews`); and when no message carries it,
the window shows either that value, or the one the main process will have when
the window's running update and pending writes have reached it (`Coming`). The
two differ while a window has written, and also after a change event has
overwritten a pending write, which is how `LastWriteKept` comes to fail while
`Converged` does not. `Session` adds that the requests of a window are its running
update, that it is sent the items once, and that the main process does not close
before its windows.

`LeanDocumentsProofs`: `TypeCorrect`, `ServerKnowsDocuments`,
`NotificationsInOrder`, `DocumentsMatchEditor`, `TextMatchesEditor`. The
inductive invariant has, for each document, `Facts`: besides the properties
themselves, that the edits on their way form a chain. Each starts from the text
the one before ends with, the first from the server's, and the last ends with
the editor's. `TextAgrees` alone is not inductive, for it speaks of an empty
queue only. `Quiet` and `Fresh` say that nothing is under way to a server that
does not run, and that a starting client has told it nothing. Lemmas on
`Opens` and `Chained` say what appending a notification and handling the first
one do, and are the place where sequences are reasoned about.

`InfoViewProofs`: `TypeCorrect`, `SessionsEnd`, `SessionsCurrent`, `Heard`,
`Failures`, `Shown`. `FailedTruth` and `NotShownStopped` speak of moments at which
no handler is at work. The inductive invariant says what holds in between: what
a handler under way tells about its client (`Unhurried`), and that a stop which
is shown of a running server is a failure remembered, or about to be corrected
by a handler that sends the position (`ShownForReason`).

Model-checked only: the liveness properties (`EveryMessageAcknowledged`,
`ClientMessagesAcknowledged`, `Settles`, `ClientForgotten`, `PendingSettles`,
`RestartEnds`, `DocumentServed`, `Propagates`, `CloseEndsUnlessFailed`,
`WhenFlushedEnds`). Liveness under fairness, and ENABLED, are out of the prover's
reach.

## 10. Not modelled, and the plan

Done: the connection (both levels), language clients, their documents, the
InfoView, storage, and the proofs of all their safety properties. What is left,
in order of what it would add:

1. An abstract specification of `RemoteConnection` (a token is kept, lost, or gone)
   and of the provider, with their refinements proved.
2. The handshake of `rpc.ts` with a page that reloads, `workersFailed`, and the
   queue of `onInstallChanged`.
3. The LeanDojo trace with its fall-back from one Python to the next and its
   close events; LeanCopilot's set-up; batches of commands with cancellation.
4. `BufferedEmitter` and the channels of `ipc.ts`.
5. `async.ts` on its own (`Limiter`, `Queue`, `TaskSequentializer`), saving of
   working copies, shutdown with vetoes and joiners, activation of extensions.

The rest of the repository, by far its largest part, is upstream VS Code:
editor, workbench, contributions, built-in extensions, each a system of its
own. The components in `PROJECT.json` say of each why it is left out. The share
of all lines that is modelled is accordingly small.

## 11. Running

    tlc -config PersistentProtocol_live.cfg MCPersistentProtocol
    tlapm PersistentProtocolProofs.tla

and likewise for the other configurations and proof modules.
