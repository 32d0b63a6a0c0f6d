------------------------------- MODULE Storage -------------------------------
(* The key-value storage of application and profile state. Every window has   *)
(* a Storage whose database is the main process, reached over a channel; the  *)
(* main process has a Storage whose database is the SQLite file. Both are the *)
(* same class: a cache that answers reads at once, pending inserts and        *)
(* deletes, and a ThrottledDelayer that flushes them, one update at a time.   *)
(*                                                                            *)
(* The main process tells every window, the one that wrote included, of the   *)
(* keys that changed, after a debounce and with the values they have then.    *)
(*                                                                            *)
(* Timers have no duration here: a pending timer may fire at any time.        *)
EXTENDS Naturals, Sequences, FiniteSets

CONSTANTS Window,      \* windows that share the storage
          Main,        \* the main process
          Writer,      \* the nodes whose code writes
          Early,       \* the windows whose code does not wait for init()
          Flusher,     \* the nodes whose code calls flush and whenFlushed
          Key, Val,
          Absent,      \* what a key that is not stored maps to
          NoRequest,   \* no update is in flight
          MaxWrites,   \* bound: calls of set and delete
          MaxFailures  \* bound: errors of the SQLite database

ASSUME StorageAssumption ==
    /\ Main \notin Window
    /\ Writer \cup Flusher \subseteq Window \cup {Main}
    /\ Early \subseteq Window
    /\ Absent \notin Val
    /\ NoRequest \notin [insert : [Key -> Val \cup {Absent}], delete : SUBSET Key]
    /\ MaxWrites \in Nat
    /\ MaxFailures \in Nat

VARIABLES st,        \* the Storage of each node
          toMain,    \* requests of each window on their way
          toWindow,  \* answers and change events to each window on their way
          changed,   \* keys in the debounced change event of the main process
          disk,      \* the SQLite file
          erroneous, \* isErroneous of the connection to it
          asked,     \* history: what the latest set or delete of a key asked for
          writes, failures

vars == <<st, toMain, toWindow, changed, disk, erroneous, asked, writes, failures>>

Node == Window \cup {Main}
Value == Val \cup {Absent}
Items == [Key -> Value]
Empty == [k \in Key |-> Absent]

(* One Storage. phase is its state: "none", "loading" (init awaits the items),  *)
(* "open", "flushing" (Closed, close() awaits the last flush), then "closed",   *)
(* or "lost" when closing the database failed, or "dead" for a crashed window.  *)
(* deferred: the delayer's timer is set; active: the update the throttler runs; *)
(* queued: it runs another flush afterwards. waiter is the promise of           *)
(* whenFlushed, and last is where the promise of close()'s flush has got to.    *)
NewStorage(phase) ==
    [phase |-> phase, cache |-> Empty, pendingInserts |-> Empty, pendingDeletes |-> {},
     deferred |-> FALSE, active |-> NoRequest, queued |-> FALSE,
     waiter |-> "none", last |-> "none"]

Init ==
    /\ st = [n \in Node |-> NewStorage(IF n = Main THEN "open" ELSE "none")]
    /\ toMain = [w \in Window |-> <<>>]
    /\ toWindow = [w \in Window |-> <<>>]
    /\ changed = {}
    /\ disk = Empty
    /\ erroneous = FALSE
    /\ asked = Empty
    /\ writes = 0
    /\ failures = 0

-----------------------------------------------------------------------------
\* The Storage class, as functions of its state o.

HasPending(o) == o.pendingDeletes # {} \/ \E k \in Key : o.pendingInserts[k] # Absent

\* doFlush: the flush is due when the timer fires, and a new call sets it again.
Trigger(o) == [o EXCEPT !.deferred = TRUE]

\* set and delete of the keys of items that differ from the cache; both return
\* early for the others, and call doFlush for each that changes.
Put(o, items) ==
    LET news == {k \in Key : items[k] # o.cache[k]}
        p == [o EXCEPT
                !.cache = items,
                !.pendingInserts = [k \in Key |-> IF k \in news THEN items[k] ELSE @[k]],
                !.pendingDeletes = (@ \ news) \cup {k \in news : items[k] = Absent}]
    IN IF news = {} THEN o ELSE Trigger(p)

\* flushPending, run by the throttler: what is pending, if anything, becomes the
\* update in flight.
FlushPending(o) ==
    IF HasPending(o)
    THEN [o EXCEPT !.active = [insert |-> o.pendingInserts, delete |-> o.pendingDeletes],
                   !.pendingInserts = Empty,
                   !.pendingDeletes = {},
                   !.queued = FALSE]
    ELSE [o EXCEPT !.queued = FALSE]

\* Mutant: who waits for a flush of nothing is not told.
Follow_Silent(o, from, to) ==
    [o EXCEPT !.last = IF @ = from /\ o.active # NoRequest THEN to ELSE @]

\* The promise of close(), if it waited at "from", waits for the update that the
\* flush has begun. When there is none it settles at once.
Follow(o, from, to) ==
    [o EXCEPT !.last = IF @ # from THEN @
                       ELSE IF o.active = NoRequest THEN "settled" ELSE to]

\* Mutant: a delayer without a throttler.
Fire_Unthrottled(o) ==
    Follow(FlushPending([o EXCEPT !.deferred = FALSE]), "timer", "active")

\* Mutant: the flush is skipped while an update runs.
Fire_SkippedWhenBusy(o) ==
    LET p == [o EXCEPT !.deferred = FALSE]
    IN IF o.active = NoRequest
       THEN Follow(FlushPending(p), "timer", "active")
       ELSE [p EXCEPT !.last = IF @ = "timer" THEN "settled" ELSE @]

\* Throttler.queue when the delayer's timer fires.
Fire(o) ==
    LET p == [o EXCEPT !.deferred = FALSE]
    IN IF o.active = NoRequest
       THEN Follow(FlushPending(p), "timer", "active")
       ELSE [p EXCEPT !.queued = TRUE, !.last = IF @ = "timer" THEN "queued" ELSE @]

\* The throttler passes a rejection on to who waits for the flush it ran at once,
\* but not to who waits for a queued one, whose promise then never settles.
Settle(last, rejected) ==
    CASE last = "active" -> "settled"
      [] last = "requeued" -> IF rejected THEN "hung" ELSE "settled"
      [] OTHER -> last

\* Mutant: the queued flush is forgotten when the update failed.
Finish_ForgetsQueued(o, rejected) ==
    LET p == [o EXCEPT !.active = NoRequest,
                       !.waiter = IF @ = "waiting" /\ ~HasPending(o) THEN "returned" ELSE @,
                       !.last = Settle(@, rejected)]
    IN IF o.queued /\ ~rejected
       THEN Follow(FlushPending(p), "queued", "requeued")
       ELSE [p EXCEPT !.queued = FALSE]

\* Mutant: "then" in the place of "finally".
Finish_NotFinally(o, rejected) ==
    LET p == [o EXCEPT !.active = NoRequest,
                       !.waiter = IF @ = "waiting" /\ ~rejected /\ ~HasPending(o)
                                  THEN "returned" ELSE @,
                       !.last = Settle(@, rejected)]
    IN IF o.queued THEN Follow(FlushPending(p), "queued", "requeued") ELSE p

\* The promise of updateItems settled: the waiter of whenFlushed goes on when
\* nothing is pending, and the throttler runs the flush that was queued.
Finish(o, rejected) ==
    LET p == [o EXCEPT !.active = NoRequest,
                       !.waiter = IF @ = "waiting" /\ ~HasPending(o) THEN "returned" ELSE @,
                       !.last = Settle(@, rejected)]
    IN IF o.queued THEN Follow(FlushPending(p), "queued", "requeued") ELSE p

\* acceptExternal for each item: it replaces the cache's value and nothing else.
AcceptExternal(o, items) ==
    [o EXCEPT !.cache = [k \in Key |-> IF k \in DOMAIN items THEN items[k] ELSE @[k]]]

\* An update in the database: inserts, then deletes.
Updated(items, request) ==
    [k \in Key |-> IF k \in request.delete THEN Absent
                   ELSE IF request.insert[k] # Absent THEN request.insert[k]
                   ELSE items[k]]

Touched(request) == request.delete \cup {k \in Key : request.insert[k] # Absent}

-----------------------------------------------------------------------------
\* A window is opened: it asks for the items, and waits for them with init().
OpenWindow(w) ==
    /\ st[w].phase = "none"
    /\ st[Main].phase = "open"
    /\ st' = [st EXCEPT ![w].phase = "loading"]
    /\ toMain' = [toMain EXCEPT ![w] = Append(@, [kind |-> "getItems"])]
    /\ UNCHANGED <<toWindow, changed, disk, erroneous, asked, writes, failures>>

(* Code in node n calls the storage. set, delete and flush return early only    *)
(* when it is Closed. The workbench and the shared process await initialize()   *)
(* before anybody gets the storage service; after a switch of profiles a window *)
(* uses a storage whose init() still runs, and which then replaces the cache.   *)
Called(n) == st[n].phase = "open" \/ (n \in Early /\ st[n].phase = "loading")

\* Code in node n calls set(k, v), or delete(k) when v is Absent.
Write(n, k, v) ==
    LET o == Put(st[n], [st[n].cache EXCEPT ![k] = v]) IN
    /\ Called(n)
    /\ writes < MaxWrites
    /\ st' = [st EXCEPT ![n] = o]
    /\ changed' = IF n = Main /\ st[n].cache[k] # v THEN changed \cup {k} ELSE changed
    /\ asked' = [asked EXCEPT ![k] = v]
    /\ writes' = writes + 1
    /\ UNCHANGED <<toMain, toWindow, disk, erroneous, failures>>

\* flush(), and optimize() up to its VACUUM.
Flush(n) ==
    /\ Called(n)
    /\ st' = [st EXCEPT ![n] = Trigger(@)]
    /\ UNCHANGED <<toMain, toWindow, changed, disk, erroneous, asked, writes, failures>>

\* whenFlushed() returns at once when nothing is pending.
WhenFlushed(n) ==
    /\ Called(n)
    /\ st[n].waiter # "waiting"
    /\ st' = [st EXCEPT ![n].waiter = IF HasPending(st[n]) THEN "waiting" ELSE "returned"]
    /\ UNCHANGED <<toMain, toWindow, changed, disk, erroneous, asked, writes, failures>>

\* What node n sends to its database when its storage becomes o, whose update is
\* new. The main process' update is written to disk by DiskUpdates.
Sends(n, o) ==
    toMain' = IF n \in Window /\ o.active # NoRequest
              THEN [toMain EXCEPT ![n] = Append(@, [kind |-> "updateItems",
                                                    request |-> o.active])]
              ELSE toMain

\* The delayer's timer fires.
FlushTimer(n) ==
    LET o == Fire(st[n]) IN
    /\ st[n].deferred
    /\ st' = [st EXCEPT ![n] = o]
    /\ IF st[n].active = NoRequest THEN Sends(n, o) ELSE toMain' = toMain
    /\ UNCHANGED <<toWindow, changed, disk, erroneous, asked, writes, failures>>

\* SQLite ran the transaction.
DiskUpdates ==
    /\ st[Main].active # NoRequest
    /\ disk' = Updated(disk, st[Main].active)
    /\ st' = [st EXCEPT ![Main] = Finish(@, FALSE)]
    /\ UNCHANGED <<toMain, toWindow, changed, erroneous, asked, writes, failures>>

\* A statement of the transaction failed, or its end, which rejects the promise.
\* Some of the items may have been written.
DiskFails ==
    /\ st[Main].active # NoRequest
    /\ failures < MaxFailures
    /\ \E written \in SUBSET Touched(st[Main].active) :
          disk' = [k \in Key |-> IF k \in written
                                 THEN Updated(disk, st[Main].active)[k]
                                 ELSE disk[k]]
    /\ erroneous' = TRUE
    /\ failures' = failures + 1
    /\ \E rejected \in BOOLEAN : st' = [st EXCEPT ![Main] = Finish(@, rejected)]
    /\ UNCHANGED <<toMain, toWindow, changed, asked, writes>>

\* The connection reports an error outside of a transaction.
ConnectionFails ==
    /\ st[Main].phase \in {"open", "flushing"}
    /\ failures < MaxFailures
    /\ failures' = failures + 1
    /\ erroneous' = TRUE
    /\ UNCHANGED <<st, toMain, toWindow, changed, disk, asked, writes>>

-----------------------------------------------------------------------------
\* The main process answers a request. An update is answered before the main
\* process has written it to disk, and ignored when its storage is closed.
MainReceives(w) ==
    LET m == Head(toMain[w])
        items == Updated(st[Main].cache, m.request)
    IN
    /\ toMain[w] # <<>>
    /\ toMain' = [toMain EXCEPT ![w] = Tail(@)]
    /\ \/ /\ m.kind = "getItems"
          /\ toWindow' = [toWindow EXCEPT ![w] =
                Append(@, [kind |-> "items", items |-> st[Main].cache])]
          /\ UNCHANGED <<st, changed>>
       \/ /\ m.kind = "updateItems"
          /\ IF st[Main].phase = "open"
             THEN /\ st' = [st EXCEPT ![Main] = Put(@, items)]
                  /\ changed' = changed \cup {k \in Key : items[k] # st[Main].cache[k]}
             ELSE UNCHANGED <<st, changed>>
          /\ toWindow' = [toWindow EXCEPT ![w] = Append(@, [kind |-> "done"])]
    /\ UNCHANGED <<disk, erroneous, asked, writes, failures>>

\* Mutant: a window listens when it has the items.
Listening_WhenOpen == {w \in Window : st[w].phase \in {"open", "flushing"}}

\* The windows that listen to the change events of the main process: from the
\* construction of their storage, before it asks for the items.
Listening == {w \in Window : st[w].phase \in {"loading", "open", "flushing"}}

\* The debounced event: the changed keys with the values they have now.
Broadcast ==
    /\ changed # {}
    /\ changed' = {}
    /\ toWindow' = [w \in Window |->
          IF w \in Listening
          THEN Append(toWindow[w], [kind |-> "changed",
                                    items |-> [k \in changed |-> st[Main].cache[k]]])
          ELSE toWindow[w]]
    /\ UNCHANGED <<st, toMain, disk, erroneous, asked, writes, failures>>

\* A window takes a message: the items it asked for, the end of its update, or
\* the change of some keys, which a closed storage ignores.
WindowReceives(w) ==
    LET m == Head(toWindow[w])
        o == Finish(st[w], FALSE)
    IN
    /\ toWindow[w] # <<>>
    /\ toWindow' = [toWindow EXCEPT ![w] = Tail(@)]
    /\ \/ /\ m.kind = "items"
          /\ st' = IF st[w].phase = "loading"
                   THEN [st EXCEPT ![w].cache = m.items, ![w].phase = "open"]
                   ELSE st
          /\ UNCHANGED toMain
       \/ /\ m.kind = "done"
          /\ IF st[w].phase = "dead"
             THEN UNCHANGED <<st, toMain>>
             ELSE st' = [st EXCEPT ![w] = o] /\ Sends(w, o)
       \/ /\ m.kind = "changed"
          /\ st' = IF st[w].phase \in {"loading", "open"}
                   THEN [st EXCEPT ![w] = AcceptExternal(@, m.items)]
                   ELSE st
          /\ UNCHANGED toMain
    /\ UNCHANGED <<changed, disk, erroneous, asked, writes, failures>>

-----------------------------------------------------------------------------
\* close(): no more writes are taken, and a last flush is due at once. The main
\* process closes its storage when no window is left.
Close(n) ==
    /\ st[n].phase = "open"
    /\ n = Main => \A w \in Window : st[w].phase \in {"none", "closed", "dead"}
    /\ st' = [st EXCEPT ![n] = Trigger([@ EXCEPT !.phase = "flushing", !.last = "timer"])]
    /\ UNCHANGED <<toMain, toWindow, changed, disk, erroneous, asked, writes, failures>>

\* The last flush has settled: a window stops listening.
CloseWindowDatabase(w) ==
    /\ st[w].phase = "flushing"
    /\ st[w].last = "settled"
    /\ st' = [st EXCEPT ![w].phase = "closed"]
    /\ UNCHANGED <<toMain, toWindow, changed, disk, erroneous, asked, writes, failures>>

\* Mutant: errors of the connection are not looked at.
CloseDatabase_NoRecovery ==
    /\ st[Main].phase = "flushing"
    /\ st[Main].last = "settled"
    /\ st' = [st EXCEPT ![Main].phase = "closed"]
    /\ UNCHANGED <<toMain, toWindow, changed, disk, erroneous, asked, writes, failures>>

\* The main process closes the connection to SQLite. If that had an error, the
\* file is removed and made anew from the cache, either of which may fail too.
CloseDatabase ==
    /\ st[Main].phase = "flushing"
    /\ st[Main].last = "settled"
    /\ \/ /\ disk' = IF erroneous THEN st[Main].cache ELSE disk
          /\ st' = [st EXCEPT ![Main].phase = "closed"]
          /\ UNCHANGED failures
       \/ /\ erroneous
          /\ failures < MaxFailures
          /\ failures' = failures + 1
          /\ st' = [st EXCEPT ![Main].phase = "lost"]
          /\ \/ UNCHANGED disk
             \/ \E written \in SUBSET Key :
                   disk' = [k \in Key |-> IF k \in written THEN st[Main].cache[k] ELSE Absent]
    /\ UNCHANGED <<toMain, toWindow, changed, erroneous, asked, writes>>

\* A window crashes or is killed: what it had not sent is gone.
WindowDies(w) ==
    /\ st[w].phase \in {"loading", "open", "flushing"}
    /\ st' = [st EXCEPT ![w] = NewStorage("dead")]
    /\ toWindow' = [toWindow EXCEPT ![w] = <<>>]
    /\ UNCHANGED <<toMain, changed, disk, erroneous, asked, writes, failures>>

Next ==
    \/ \E n \in Writer, k \in Key, v \in Value : Write(n, k, v)
    \/ \E n \in Flusher : Flush(n) \/ WhenFlushed(n)
    \/ \E n \in Node : FlushTimer(n) \/ Close(n)
    \/ \E w \in Window : \/ OpenWindow(w) \/ MainReceives(w) \/ WindowReceives(w)
                         \/ CloseWindowDatabase(w) \/ WindowDies(w)
    \/ DiskUpdates \/ DiskFails \/ ConnectionFails \/ Broadcast \/ CloseDatabase

Spec == Init /\ [][Next]_vars

(* Timers fire and the processes answer. A timer that is set again before it    *)
(* fires is due again, so this takes flush() not to be called for ever without  *)
(* a pause as long as the delay. Nothing makes anybody write or close.          *)
Fairness ==
    /\ \A n \in Node : WF_vars(FlushTimer(n))
    /\ \A w \in Window : /\ WF_vars(MainReceives(w)) /\ WF_vars(WindowReceives(w))
                         /\ WF_vars(CloseWindowDatabase(w))
    /\ WF_vars(DiskUpdates \/ DiskFails) /\ WF_vars(Broadcast) /\ WF_vars(CloseDatabase)

FairSpec == Spec /\ Fairness
-----------------------------------------------------------------------------
\* Properties.

Update == [insert : Items, delete : SUBSET Key]

StorageRecord ==
    [phase : {"none", "loading", "open", "flushing", "closed", "lost", "dead"},
     cache : Items, pendingInserts : Items, pendingDeletes : SUBSET Key,
     deferred : BOOLEAN, active : Update \cup {NoRequest}, queued : BOOLEAN,
     waiter : {"none", "waiting", "returned"},
     last : {"none", "timer", "active", "queued", "requeued", "settled", "hung"}]

Request == [kind : {"getItems"}] \cup [kind : {"updateItems"}, request : Update]

Change == UNION {[K -> Value] : K \in SUBSET Key}

Answer == [kind : {"done"}] \cup [kind : {"items"}, items : Items]
              \cup [kind : {"changed"}, items : Change]

\* Every variable has its type, no key is both inserted and deleted by the same
\* flush, and a flush is only queued behind a running one (Throttler.queue).
TypeOK ==
    /\ st \in [Node -> StorageRecord]
    /\ \A n \in Node :
          /\ \A k \in st[n].pendingDeletes : st[n].pendingInserts[k] = Absent
          /\ st[n].queued => st[n].active # NoRequest
    /\ toMain \in [Window -> Seq(Request)]
    /\ toWindow \in [Window -> Seq(Answer)]
    /\ changed \subseteq Key
    /\ disk \in Items
    /\ erroneous \in BOOLEAN
    /\ asked \in Items
    /\ writes \in 0 .. MaxWrites
    /\ failures \in 0 .. MaxFailures

\* Nothing that was written is on its way to the main process or from it.
Quiet ==
    /\ \A n \in Node : ~HasPending(st[n]) /\ st[n].active = NoRequest
    /\ \A w \in Window : toMain[w] = <<>> /\ toWindow[w] = <<>>
    /\ changed = {}

\* Windows and the main process agree once everything has been delivered,
\* however their writes, flushes, change events and openings were interleaved
\* (acceptExternal replaces cached values whatever is pending or in flight).
Converged ==
    Quiet => \A w \in Window : st[w].phase = "open" => st[w].cache = st[Main].cache

\* A pending write has a timer or a queued flush that will take it: no schedule
\* of the delayer and the throttler strands it. While the database works this
\* holds of the file as well: it differs from the cache only during a flush.
WriteScheduled ==
    /\ \A n \in Node : HasPending(st[n]) => st[n].deferred \/ st[n].queued
    /\ ~erroneous /\ disk # st[Main].cache =>
          st[Main].deferred \/ st[Main].active # NoRequest

\* A closed window has handed all its writes to the main process, and a closed
\* main process has left in the file what its cache holds, after errors of the
\* database too: doClose flushes, then recovers an erroneous file.
CloseSaves ==
    /\ \A w \in Window : st[w].phase = "closed" =>
          /\ ~HasPending(st[w])
          /\ st[w].active = NoRequest
          /\ \A i \in DOMAIN toMain[w] : toMain[w][i].kind # "updateItems"
    /\ st[Main].phase = "closed" => disk = st[Main].cache

\* What the main process promises of its file: while the database works it holds
\* the items of one moment, never a mixture of two (a flush takes all that is
\* pending, and the next waits for it); after an error it may be a mixture, but
\* still of values the main process had under each key.
FileBehind == INSTANCE WriteBehind WITH
    Start <- Empty,
    memory <- st[Main].cache,
    flushing <- IF st[Main].active = NoRequest THEN disk
                ELSE Updated(disk, st[Main].active),
    file <- disk,
    damaged <- erroneous

ImplementsWriteBehind == FileBehind!Spec

\* Every write reaches the main process, the other windows and, while the
\* database works, the file: a queued task of the throttler is always run.
Propagates == []<>(Quiet /\ (disk = st[Main].cache \/ erroneous))

\* doClose: "We must always ensure the DB is closed" - close() ends.
CloseEnds == \A n \in Node : st[n].phase = "flushing" ~> st[n].phase # "flushing"

\* close() ends whatever it met: a running update, a queued flush, a window that
\* writes at the last moment; unless an update of SQLite has failed.
CloseEndsUnlessFailed ==
    \A n \in Node : st[n].phase = "flushing" ~> st[n].phase # "flushing" \/ failures > 0

\* Who waits in whenFlushed goes on, after a failed update too.
WhenFlushedEnds == \A n \in Node : st[n].waiter = "waiting" ~> st[n].waiter # "waiting"

\* IStorageService.store: "Store a value under the given key to storage." When
\* one window alone writes and does not crash, its last write is what is stored.
LastWriteKept ==
    (Quiet /\ \A w \in Window : st[w].phase # "dead") => st[Main].cache = asked
=============================================================================
