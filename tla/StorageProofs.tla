---------------------------- MODULE StorageProofs ----------------------------
(* Proofs about Storage, for every number of windows, keys, values, writes and *)
(* errors of the database.                                                     *)
EXTENDS Storage, SequenceTheorems, TLAPS

-----------------------------------------------------------------------------
(* What holds of every Storage object between two calls. The last conjuncts say *)
(* where the promise of close()'s flush is, from the timer to the end of its    *)
(* update: they give what doClose relies on, that a settled flush has left      *)
(* nothing behind.                                                              *)
Coherent(o) ==
    /\ o \in StorageRecord
    /\ \A k \in o.pendingDeletes : o.pendingInserts[k] = Absent
    /\ o.queued => o.active # NoRequest
    /\ HasPending(o) => o.deferred \/ o.queued
    /\ o.phase \in {"none", "loading", "open", "dead"} => o.last = "none"
    /\ o.phase \in {"closed", "lost"} => o.last = "settled"
    /\ o.last = "timer" => o.deferred
    /\ o.last = "queued" => o.queued /\ ~o.deferred
    /\ o.last \in {"active", "requeued"} => o.active # NoRequest /\ ~o.deferred /\ ~o.queued
    /\ o.last \in {"settled", "hung"} => o.active = NoRequest /\ ~o.deferred /\ ~o.queued

Pending(o) == [insert |-> o.pendingInserts, delete |-> o.pendingDeletes]

\* The items of the database when the running update has ended.
Base(items, o) == IF o.active = NoRequest THEN items ELSE Updated(items, o.active)

LEMMA AbsentValue == Absent \in Value
BY DEF Value

LEMMA EmptyItems == Empty \in Items
BY AbsentValue DEF Empty, Items

\* What is pending is an update, and can be told from none.
LEMMA PendingUpdate ==
    ASSUME NEW o \in StorageRecord
    PROVE  Pending(o) \in Update /\ Pending(o) # NoRequest
BY StorageAssumption DEF Pending, Update, StorageRecord, Items, Value

LEMMA UpdatedItems ==
    ASSUME NEW items \in Items, NEW request \in Update
    PROVE  Updated(items, request) \in Items
BY AbsentValue DEF Updated, Items, Update

\* Storing items adds up: what the database holds after all that is pending has
\* been written is the new cache.
LEMMA PutCoherent ==
    ASSUME NEW o, Coherent(o), o.phase \in {"loading", "open"}, NEW items \in Items
    PROVE  /\ Coherent(Put(o, items))
           /\ Put(o, items).phase = o.phase
           /\ Put(o, items).active = o.active
           /\ Put(o, items).cache = items
<1> DEFINE news == {k \in Key : items[k] # o.cache[k]}
           p == [o EXCEPT
                !.cache = items,
                !.pendingInserts = [k \in Key |-> IF k \in news THEN items[k] ELSE @[k]],
                !.pendingDeletes = (@ \ news) \cup {k \in news : items[k] = Absent}]
           q == [p EXCEPT !.deferred = TRUE]
<1>1. o \in StorageRecord
  BY DEF Coherent
<1>2. CASE news = {}
  <2>1. Put(o, items) = o
    BY <1>2 DEF Put
  <2>2. o.cache = items
    BY <1>1, <1>2 DEF StorageRecord, Items
  <2> QED
    BY <2>1, <2>2
<1>3. CASE news # {}
  <2>1. Put(o, items) = q
    BY <1>3 DEF Put, Trigger
  <2>2. q.pendingInserts = [k \in Key |-> IF k \in news THEN items[k] ELSE o.pendingInserts[k]]
    BY <1>1 DEF StorageRecord
  <2>3. q.pendingDeletes = (o.pendingDeletes \ news) \cup {k \in news : items[k] = Absent}
    BY <1>1 DEF StorageRecord
  <2>4. /\ q.phase = o.phase /\ q.cache = items /\ q.deferred = TRUE /\ q.active = o.active
        /\ q.queued = o.queued /\ q.waiter = o.waiter /\ q.last = o.last
    BY <1>1 DEF StorageRecord
  <2>5. q.pendingInserts \in Items /\ q.pendingDeletes \in SUBSET Key
    BY <1>1, <2>2, <2>3 DEF StorageRecord, Items
  <2>6. q \in StorageRecord
    BY <1>1, <2>4, <2>5 DEF StorageRecord
  <2>7. \A k \in q.pendingDeletes : q.pendingInserts[k] = Absent
    BY <1>1, <2>2, <2>3 DEF Coherent, StorageRecord
  <2> HIDE DEF q
  <2>8. Coherent(q)
    BY <2>4, <2>6, <2>7 DEF Coherent
  <2> QED
    BY <2>1, <2>4, <2>8
<1> QED
  BY <1>2, <1>3

\* A flush is due.
LEMMA TriggerCoherent ==
    ASSUME NEW o, Coherent(o), o.phase \in {"loading", "open"}
    PROVE  Coherent(Trigger(o))
<1> DEFINE q == [o EXCEPT !.deferred = TRUE]
<1>1. q \in StorageRecord
  BY DEF Coherent, StorageRecord
<1>2. /\ q.phase = o.phase /\ q.deferred = TRUE /\ q.active = o.active
      /\ q.queued = o.queued /\ q.last = o.last /\ q.pendingInserts = o.pendingInserts
      /\ q.pendingDeletes = o.pendingDeletes
  BY DEF Coherent, StorageRecord
<1> HIDE DEF q
<1>3. Coherent(q)
  BY <1>1, <1>2 DEF Coherent, HasPending
<1> QED
  BY <1>3 DEF Trigger, q

\* A flush empties what is pending into the update in flight, or finds nothing.
LEMMA FlushPendingFields ==
    ASSUME NEW o \in StorageRecord, o.active = NoRequest
    PROVE  LET q == FlushPending(o) IN
           /\ q \in StorageRecord
           /\ ~HasPending(q)
           /\ q.pendingDeletes = {}
           /\ HasPending(o) => q.active = Pending(o) /\ q.pendingInserts = Empty
           /\ ~HasPending(o) => q.active = NoRequest /\ q.pendingInserts = o.pendingInserts
           /\ q.phase = o.phase /\ q.cache = o.cache /\ q.waiter = o.waiter
           /\ q.queued = FALSE /\ q.deferred = o.deferred /\ q.last = o.last
<1> DEFINE q == [o EXCEPT !.active = Pending(o),
                          !.pendingInserts = Empty,
                          !.pendingDeletes = {},
                          !.queued = FALSE]
           r == [o EXCEPT !.queued = FALSE]
<1>1. CASE HasPending(o)
  <2>1. FlushPending(o) = q
    BY <1>1 DEF FlushPending, Pending, StorageRecord
  <2>2. Empty \in Items /\ Pending(o) \in Update
    BY EmptyItems, PendingUpdate
  <2>3. /\ q.active = Pending(o) /\ q.pendingInserts = Empty /\ q.pendingDeletes = {}
        /\ q.queued = FALSE /\ q.last = o.last /\ q.phase = o.phase /\ q.cache = o.cache
        /\ q.waiter = o.waiter /\ q.deferred = o.deferred
    BY DEF StorageRecord
  <2>4. q \in StorageRecord
    BY <2>2, <2>3 DEF StorageRecord
  <2> HIDE DEF q
  <2>5. ~HasPending(q)
    BY <2>3 DEF HasPending, Empty
  <2> QED
    BY <1>1, <2>1, <2>3, <2>4, <2>5
<1>2. CASE ~HasPending(o)
  <2>1. FlushPending(o) = r
    BY <1>2 DEF FlushPending
  <2>2. o.pendingDeletes = {}
    BY <1>2 DEF HasPending
  <2>3. /\ r.active = o.active /\ r.pendingInserts = o.pendingInserts
        /\ r.pendingDeletes = o.pendingDeletes
        /\ r.queued = FALSE /\ r.last = o.last /\ r.phase = o.phase /\ r.cache = o.cache
        /\ r.waiter = o.waiter /\ r.deferred = o.deferred
        /\ r \in StorageRecord
    BY DEF StorageRecord
  <2> HIDE DEF r
  <2>4. ~HasPending(r)
    BY <1>2, <2>3 DEF HasPending
  <2> QED
    BY <1>2, <2>1, <2>2, <2>3, <2>4
<1> QED
  BY <1>1, <1>2

\* Follow moves close()'s promise on and nothing else.
LEMMA FollowFields ==
    ASSUME NEW o \in StorageRecord,
           NEW from \in {"timer", "queued"},
           NEW to \in {"active", "requeued"}
    PROVE  LET q == Follow(o, from, to) IN
           /\ q \in StorageRecord
           /\ HasPending(q) <=> HasPending(o)
           /\ q.pendingDeletes = o.pendingDeletes /\ q.pendingInserts = o.pendingInserts
           /\ q.active = o.active
           /\ q.phase = o.phase /\ q.cache = o.cache /\ q.waiter = o.waiter
           /\ q.queued = o.queued /\ q.deferred = o.deferred
           /\ q.last = IF o.last # from THEN o.last
                       ELSE IF o.active = NoRequest THEN "settled" ELSE to
<1> DEFINE l == IF o.last # from THEN o.last
                ELSE IF o.active = NoRequest THEN "settled" ELSE to
           q == [o EXCEPT !.last = l]
<1>1. Follow(o, from, to) = q
  BY DEF Follow, StorageRecord
<1>2. l \in {"none", "timer", "active", "queued", "requeued", "settled", "hung"}
  BY DEF StorageRecord
<1> HIDE DEF l
<1>3. /\ q \in StorageRecord
      /\ q.pendingDeletes = o.pendingDeletes /\ q.pendingInserts = o.pendingInserts
      /\ q.active = o.active
      /\ q.phase = o.phase /\ q.cache = o.cache /\ q.waiter = o.waiter
      /\ q.queued = o.queued /\ q.deferred = o.deferred /\ q.last = l
  BY <1>2 DEF StorageRecord
<1> HIDE DEF q
<1>4. HasPending(q) <=> HasPending(o)
  BY <1>3 DEF HasPending
<1> QED
  BY <1>1, <1>3, <1>4 DEF l

\* The flush the throttler runs when it is idle: what it does to the pipeline.
LEMMA FlushAndFollow ==
    ASSUME NEW o \in StorageRecord, o.active = NoRequest,
           NEW from \in {"timer", "queued"},
           NEW to \in {"active", "requeued"}
    PROVE  LET q == Follow(FlushPending(o), from, to) IN
           /\ q \in StorageRecord
           /\ ~HasPending(q)
           /\ q.pendingDeletes = {}
           /\ \/ q.active = NoRequest /\ q.pendingInserts = o.pendingInserts
                 /\ o.pendingDeletes = {}
              \/ q.active = Pending(o) /\ q.active # NoRequest /\ q.pendingInserts = Empty
           /\ q.phase = o.phase /\ q.cache = o.cache
           /\ q.queued = FALSE /\ q.deferred = o.deferred
           /\ q.last = IF o.last # from THEN o.last
                       ELSE IF q.active = NoRequest THEN "settled" ELSE to
<1> DEFINE p == FlushPending(o)
<1>1. /\ p \in StorageRecord
      /\ ~HasPending(p)
      /\ p.pendingDeletes = {}
      /\ HasPending(o) => p.active = Pending(o) /\ p.pendingInserts = Empty
      /\ ~HasPending(o) => p.active = NoRequest /\ p.pendingInserts = o.pendingInserts
      /\ p.phase = o.phase /\ p.cache = o.cache
      /\ p.queued = FALSE /\ p.deferred = o.deferred /\ p.last = o.last
  BY FlushPendingFields
<1>2. Pending(o) # NoRequest
  BY PendingUpdate
<1>3. ~HasPending(o) => o.pendingDeletes = {}
  BY DEF HasPending
<1> HIDE DEF p
<1> DEFINE q == Follow(p, from, to)
<1>4. /\ q \in StorageRecord
      /\ HasPending(q) <=> HasPending(p)
      /\ q.pendingDeletes = p.pendingDeletes /\ q.pendingInserts = p.pendingInserts
      /\ q.active = p.active
      /\ q.phase = p.phase /\ q.cache = p.cache
      /\ q.queued = p.queued /\ q.deferred = p.deferred
      /\ q.last = IF p.last # from THEN p.last
                  ELSE IF p.active = NoRequest THEN "settled" ELSE to
  BY <1>1, FollowFields
<1> HIDE DEF q
<1>5. QED
  BY <1>1, <1>2, <1>3, <1>4 DEF p, q

\* The timer fires: the flush begins, or is queued behind the running one.
LEMMA FireCoherent ==
    ASSUME NEW o, Coherent(o), o.deferred
    PROVE  LET q == Fire(o) IN
           /\ Coherent(q)
           /\ q.phase = o.phase /\ q.cache = o.cache
           /\ \/ q.active = o.active /\ q.pendingInserts = o.pendingInserts
                 /\ q.pendingDeletes = o.pendingDeletes
              \/ o.active = NoRequest /\ q.active = Pending(o) /\ q.pendingInserts = Empty
                 /\ q.pendingDeletes = {}
<1> DEFINE p == [o EXCEPT !.deferred = FALSE]
           l == IF o.last = "timer" THEN "queued" ELSE o.last
           r == [p EXCEPT !.queued = TRUE, !.last = l]
           q == Follow(FlushPending(p), "timer", "active")
<1>1. /\ p \in StorageRecord
      /\ p.deferred = FALSE /\ p.phase = o.phase /\ p.cache = o.cache /\ p.active = o.active
      /\ p.queued = o.queued /\ p.last = o.last /\ p.pendingInserts = o.pendingInserts
      /\ p.pendingDeletes = o.pendingDeletes /\ p.waiter = o.waiter
  BY DEF Coherent, StorageRecord
<1>2. Pending(p) = Pending(o)
  BY <1>1 DEF Pending
<1>3. CASE o.active = NoRequest
  <2>1. Fire(o) = q
    BY <1>3 DEF Fire
  <2>2. o.last \in {"none", "timer"}
    BY <1>3 DEF Coherent, StorageRecord
  <2> HIDE DEF p
  <2>3. /\ q \in StorageRecord
        /\ ~HasPending(q)
        /\ q.pendingDeletes = {}
        /\ \/ q.active = NoRequest /\ q.pendingInserts = p.pendingInserts
              /\ p.pendingDeletes = {}
           \/ q.active = Pending(p) /\ q.active # NoRequest /\ q.pendingInserts = Empty
        /\ q.phase = p.phase /\ q.cache = p.cache
        /\ q.queued = FALSE /\ q.deferred = p.deferred
        /\ q.last = IF p.last # "timer" THEN p.last
                    ELSE IF q.active = NoRequest THEN "settled" ELSE "active"
    BY <1>1, <1>3, FlushAndFollow
  <2> HIDE DEF q
  <2>4. Coherent(q)
    BY <1>1, <1>3, <2>2, <2>3 DEF Coherent
  <2> QED
    BY <1>1, <1>2, <1>3, <2>1, <2>3, <2>4
<1>4. CASE o.active # NoRequest
  <2>1. Fire(o) = r
    BY <1>1, <1>4 DEF Fire, StorageRecord
  <2>2. l \in {"none", "timer", "active", "queued", "requeued", "settled", "hung"}
    BY DEF Coherent, StorageRecord
  <2>3. l \in {"none", "queued"}
    BY <1>4 DEF Coherent, StorageRecord
  <2>4. l = "none" => o.last = "none"
    BY DEF l
  <2>5. l = "queued" => o.phase \notin {"none", "loading", "open", "dead", "closed", "lost"}
    BY <1>4 DEF l, Coherent
  <2> HIDE DEF l, p
  <2>6. /\ r.deferred = p.deferred /\ r.phase = p.phase /\ r.cache = p.cache
        /\ r.active = p.active /\ r.queued = TRUE /\ r.last = l
        /\ r.pendingInserts = p.pendingInserts /\ r.pendingDeletes = p.pendingDeletes
        /\ r \in StorageRecord
    BY <1>1, <2>2 DEF StorageRecord
  <2> HIDE DEF r
  <2>7. Coherent(r)
    BY <1>1, <1>4, <2>3, <2>4, <2>5, <2>6 DEF Coherent
  <2> QED
    BY <1>1, <1>4, <2>1, <2>6, <2>7
<1> QED
  BY <1>3, <1>4

\* The end of an update starts the flush that was queued, if any was. A promise
\* that hangs waited for a queued flush that failed.
LEMMA FinishCoherent ==
    ASSUME NEW o, Coherent(o), o.active # NoRequest, NEW rejected \in BOOLEAN
    PROVE  LET q == Finish(o, rejected) IN
           /\ Coherent(q)
           /\ q.phase = o.phase /\ q.cache = o.cache
           /\ \/ q.active = NoRequest /\ q.pendingInserts = o.pendingInserts
                 /\ q.pendingDeletes = o.pendingDeletes
              \/ q.active = Pending(o) /\ q.active # NoRequest /\ q.pendingInserts = Empty
                 /\ q.pendingDeletes = {} /\ o.queued
<1> DEFINE w == IF o.waiter = "waiting" /\ ~HasPending(o) THEN "returned" ELSE o.waiter
           l == Settle(o.last, rejected)
           p == [o EXCEPT !.active = NoRequest, !.waiter = w, !.last = l]
           q == Follow(FlushPending(p), "queued", "requeued")
<1>1. o \in StorageRecord
  BY DEF Coherent
<1>2. w \in {"none", "waiting", "returned"}
  BY <1>1 DEF StorageRecord
<1>3. /\ o.last = "none" => l = "none"
      /\ o.last = "timer" => l = "timer"
      /\ o.last = "queued" => l = "queued"
      /\ o.last = "active" => l = "settled"
      /\ o.last = "requeued" => l \in {"settled", "hung"}
  BY DEF Settle
<1>4. o.last \in {"none", "timer", "queued", "active", "requeued"}
  BY <1>1 DEF Coherent, StorageRecord
<1>5. Finish(o, rejected) = IF o.queued THEN q ELSE p
  BY <1>1 DEF Finish, StorageRecord
<1> HIDE DEF w, l
<1>6. /\ p \in StorageRecord /\ p.active = NoRequest /\ p.last = l
      /\ p.deferred = o.deferred /\ p.phase = o.phase /\ p.cache = o.cache
      /\ p.queued = o.queued /\ p.pendingInserts = o.pendingInserts
      /\ p.pendingDeletes = o.pendingDeletes
  BY <1>1, <1>2, <1>3, <1>4 DEF StorageRecord
<1> HIDE DEF p
<1>7. Pending(p) = Pending(o) /\ (HasPending(p) <=> HasPending(o))
  BY <1>6 DEF Pending, HasPending
<1>8. CASE o.queued
  <2>1. /\ q \in StorageRecord
        /\ ~HasPending(q)
        /\ q.pendingDeletes = {}
        /\ \/ q.active = NoRequest /\ q.pendingInserts = p.pendingInserts
              /\ p.pendingDeletes = {}
           \/ q.active = Pending(p) /\ q.active # NoRequest /\ q.pendingInserts = Empty
        /\ q.phase = p.phase /\ q.cache = p.cache
        /\ q.queued = FALSE /\ q.deferred = p.deferred
        /\ q.last = IF p.last # "queued" THEN p.last
                    ELSE IF q.active = NoRequest THEN "settled" ELSE "requeued"
    BY <1>6, FlushAndFollow
  <2> HIDE DEF q
  <2>2. o.last \in {"none", "timer", "queued"}
    BY <1>4, <1>8 DEF Coherent
  <2>3. o.last = "queued" => ~o.deferred
    BY DEF Coherent
  <2>4. Coherent(q)
    BY <1>3, <1>6, <2>1, <2>2, <2>3 DEF Coherent
  <2> QED
    BY <1>5, <1>6, <1>7, <1>8, <2>1, <2>4
<1>9. CASE ~o.queued
  <2>1. Coherent(p)
    BY <1>3, <1>4, <1>6, <1>7, <1>9 DEF Coherent
  <2> QED
    BY <1>5, <1>6, <1>9, <2>1
<1> QED
  BY <1>8, <1>9

\* A change event touches the cache only.
LEMMA AcceptExternalCoherent ==
    ASSUME NEW o, Coherent(o), NEW items \in Change
    PROVE  Coherent(AcceptExternal(o, items))
<1> DEFINE c == [k \in Key |-> IF k \in DOMAIN items THEN items[k] ELSE o.cache[k]]
           q == [o EXCEPT !.cache = c]
<1>1. o \in StorageRecord
  BY DEF Coherent
<1>2. AcceptExternal(o, items) = q
  BY <1>1 DEF AcceptExternal, StorageRecord
<1>3. c \in Items
  BY <1>1 DEF Change, Items, StorageRecord
<1> HIDE DEF c
<1>4. /\ q \in StorageRecord /\ q.phase = o.phase /\ q.active = o.active /\ q.last = o.last
      /\ q.deferred = o.deferred /\ q.queued = o.queued
      /\ q.pendingInserts = o.pendingInserts /\ q.pendingDeletes = o.pendingDeletes
  BY <1>1, <1>3 DEF StorageRecord
<1> HIDE DEF q
<1>5. Coherent(q)
  BY <1>4 DEF Coherent, HasPending
<1> QED
  BY <1>2, <1>5

LEMMA NewStorageCoherent ==
    ASSUME NEW phase \in {"none", "open", "dead"}
    PROVE  Coherent(NewStorage(phase))
<1>1. NewStorage(phase) \in StorageRecord
  BY EmptyItems DEF NewStorage, StorageRecord
<1> QED
  BY <1>1 DEF NewStorage, Coherent, HasPending, Empty

-----------------------------------------------------------------------------
(* The file of a Storage lags behind its cache by the running update and what   *)
(* is pending, and by nothing else.                                             *)
Layered(o, items) == o.cache = Updated(Base(items, o), Pending(o))

\* An update with what is pending, item by item.
LEMMA UpdatedPending ==
    ASSUME NEW o \in StorageRecord, NEW items \in Items
    PROVE  Updated(items, Pending(o)) =
             [k \in Key |-> IF k \in o.pendingDeletes THEN Absent
                            ELSE IF o.pendingInserts[k] # Absent THEN o.pendingInserts[k]
                            ELSE items[k]]
BY DEF Updated, Pending

\* An update with nothing changes nothing.
LEMMA NothingPending ==
    ASSUME NEW o \in StorageRecord, NEW items \in Items, ~HasPending(o)
    PROVE  Updated(items, Pending(o)) = items
BY UpdatedPending DEF HasPending, Items

LEMMA BaseItems ==
    ASSUME NEW o \in StorageRecord, NEW items \in Items
    PROVE  Base(items, o) \in Items
BY UpdatedItems DEF Base, StorageRecord

\* A write keeps the layers: the cache and what is pending change alike.
LEMMA PutLayered ==
    ASSUME NEW o, Coherent(o), NEW new \in Items, NEW items \in Items, Layered(o, items)
    PROVE  Layered(Put(o, new), items)
<1> DEFINE news == {k \in Key : new[k] # o.cache[k]}
           p == [o EXCEPT
                !.cache = new,
                !.pendingInserts = [k \in Key |-> IF k \in news THEN new[k] ELSE @[k]],
                !.pendingDeletes = (@ \ news) \cup {k \in news : new[k] = Absent}]
           q == [p EXCEPT !.deferred = TRUE]
           base == Base(items, o)
<1>1. o \in StorageRecord
  BY DEF Coherent
<1>2. CASE news = {}
  BY <1>2 DEF Put
<1>3. CASE news # {}
  <2>1. Put(o, new) = q
    BY <1>3 DEF Put, Trigger
  <2>2. /\ q.pendingInserts = [k \in Key |-> IF k \in news THEN new[k] ELSE o.pendingInserts[k]]
        /\ q.pendingDeletes = (o.pendingDeletes \ news) \cup {k \in news : new[k] = Absent}
        /\ q.cache = new /\ q.active = o.active
    BY <1>1 DEF StorageRecord
  <2>3. base \in Items /\ o.cache = Updated(base, Pending(o))
    BY <1>1, BaseItems DEF Layered
  <2>4. Base(items, q) = base
    BY <2>2 DEF Base
  <2> HIDE DEF q, base
  <2>5. \A k \in Key : o.cache[k] = IF k \in o.pendingDeletes THEN Absent
                            ELSE IF o.pendingInserts[k] # Absent THEN o.pendingInserts[k]
                            ELSE base[k]
    BY <1>1, <2>3, UpdatedPending
  <2>6. Updated(base, Pending(q)) =
             [k \in Key |-> IF k \in q.pendingDeletes THEN Absent
                            ELSE IF q.pendingInserts[k] # Absent THEN q.pendingInserts[k]
                            ELSE base[k]]
    BY DEF Updated, Pending
  <2>7. \A k \in Key : new[k] = IF k \in q.pendingDeletes THEN Absent
                            ELSE IF q.pendingInserts[k] # Absent THEN q.pendingInserts[k]
                            ELSE base[k]
    BY <2>2, <2>5
  <2>8. new = Updated(base, Pending(q))
    BY <2>6, <2>7 DEF Items
  <2> QED
    BY <2>1, <2>2, <2>4, <2>8 DEF Layered
<1> QED
  BY <1>2, <1>3

\* A flush moves the top layer into the update.
LEMMA FireLayered ==
    ASSUME NEW o, Coherent(o), o.deferred, NEW items \in Items, Layered(o, items)
    PROVE  Layered(Fire(o), items)
<1> DEFINE q == Fire(o)
<1>1. /\ Coherent(q)
      /\ q.phase = o.phase /\ q.cache = o.cache
      /\ \/ q.active = o.active /\ q.pendingInserts = o.pendingInserts
            /\ q.pendingDeletes = o.pendingDeletes
         \/ o.active = NoRequest /\ q.active = Pending(o) /\ q.pendingInserts = Empty
            /\ q.pendingDeletes = {}
  BY FireCoherent
<1>2. o \in StorageRecord /\ q \in StorageRecord
  BY <1>1 DEF Coherent
<1> HIDE DEF q
<1>3. CASE /\ q.active = o.active /\ q.pendingInserts = o.pendingInserts
           /\ q.pendingDeletes = o.pendingDeletes
  BY <1>1, <1>3 DEF Layered, Base, Pending, q
<1>4. CASE /\ o.active = NoRequest /\ q.active = Pending(o) /\ q.pendingInserts = Empty
           /\ q.pendingDeletes = {}
  <2>1. ~HasPending(q)
    BY <1>4 DEF HasPending, Empty
  <2>2. Base(items, q) \in Items
    BY <1>2, BaseItems
  <2>3. Updated(Base(items, q), Pending(q)) = Base(items, q)
    BY <1>2, <2>1, <2>2, NothingPending
  <2>4. Base(items, q) = Updated(items, Pending(o))
    BY <1>2, <1>4, PendingUpdate DEF Base
  <2>5. o.cache = Updated(items, Pending(o))
    BY <1>4 DEF Layered, Base
  <2> QED
    BY <1>1, <2>3, <2>4, <2>5 DEF Layered, q
<1> QED
  BY <1>1, <1>3, <1>4

\* The end of an update moves its layer into the file.
LEMMA FinishLayered ==
    ASSUME NEW o, Coherent(o), o.active # NoRequest, NEW rejected \in BOOLEAN,
           NEW items \in Items, Layered(o, items)
    PROVE  Layered(Finish(o, rejected), Updated(items, o.active))
<1> DEFINE q == Finish(o, rejected)
           written == Updated(items, o.active)
<1>1. /\ Coherent(q)
      /\ q.cache = o.cache
      /\ \/ q.active = NoRequest /\ q.pendingInserts = o.pendingInserts
            /\ q.pendingDeletes = o.pendingDeletes
         \/ q.active = Pending(o) /\ q.active # NoRequest /\ q.pendingInserts = Empty
            /\ q.pendingDeletes = {}
  BY FinishCoherent
<1>2. o \in StorageRecord /\ q \in StorageRecord /\ o.active \in Update
  BY <1>1 DEF Coherent, StorageRecord
<1>3. written \in Items
  BY <1>2, UpdatedItems
<1>4. o.cache = Updated(written, Pending(o))
  BY DEF Layered, Base
<1> HIDE DEF q, written
<1>5. CASE /\ q.active = NoRequest /\ q.pendingInserts = o.pendingInserts
           /\ q.pendingDeletes = o.pendingDeletes
  <2>1. Pending(q) = Pending(o)
    BY <1>5 DEF Pending
  <2>2. Base(written, q) = written
    BY <1>5 DEF Base
  <2> QED
    BY <1>1, <1>4, <2>1, <2>2 DEF Layered, q, written
<1>6. CASE /\ q.active = Pending(o) /\ q.active # NoRequest /\ q.pendingInserts = Empty
           /\ q.pendingDeletes = {}
  <2>1. ~HasPending(q)
    BY <1>6 DEF HasPending, Empty
  <2>2. Base(written, q) \in Items
    BY <1>2, <1>3, BaseItems
  <2>3. Updated(Base(written, q), Pending(q)) = Base(written, q)
    BY <1>2, <2>1, <2>2, NothingPending
  <2>4. Base(written, q) = Updated(written, Pending(o))
    BY <1>6 DEF Base
  <2> QED
    BY <1>1, <1>4, <2>3, <2>4 DEF Layered, q, written
<1> QED
  BY <1>1, <1>5, <1>6

-----------------------------------------------------------------------------
(* Messages of one kind in a channel. *)
AtMostOne(s, kind) ==
    \A i, j \in 1 .. Len(s) : s[i].kind = kind /\ s[j].kind = kind => i = j

NoneOf(s, kind) == \A i \in 1 .. Len(s) : s[i].kind # kind

LEMMA NoneAtMostOne ==
    ASSUME NEW s, NEW kind, NoneOf(s, kind)
    PROVE  AtMostOne(s, kind)
BY DEF NoneOf, AtMostOne

\* The kinds of messages in a channel after one more.
LEMMA AppendKind ==
    ASSUME NEW S, NEW s \in Seq(S), NEW m \in S, NEW kind
    PROVE  /\ NoneOf(s, kind) => AtMostOne(Append(s, m), kind)
           /\ m.kind # kind /\ NoneOf(s, kind) => NoneOf(Append(s, m), kind)
           /\ m.kind # kind /\ AtMostOne(s, kind) => AtMostOne(Append(s, m), kind)
BY AppendProperties DEF NoneOf, AtMostOne

\* The kinds of messages in a channel after the first was taken.
LEMMA TailKind ==
    ASSUME NEW S, NEW s \in Seq(S), s # <<>>, NEW kind
    PROVE  /\ NoneOf(s, kind) => NoneOf(Tail(s), kind) /\ Head(s).kind # kind
           /\ AtMostOne(s, kind) => AtMostOne(Tail(s), kind)
           /\ AtMostOne(s, kind) /\ Head(s).kind = kind => NoneOf(Tail(s), kind)
<1>1. /\ Len(s) \in Nat /\ Len(s) > 0
      /\ Len(Tail(s)) = Len(s) - 1
      /\ \A i \in 1 .. Len(Tail(s)) : Tail(s)[i] = s[i + 1]
      /\ Head(s) = s[1]
  BY HeadTailProperties, EmptySeq, LenProperties
<1> QED
  BY <1>1 DEF NoneOf, AtMostOne

-----------------------------------------------------------------------------
(* The inductive invariant. Channel says that a window has one update on its    *)
(* way at most, as a request or as an answer, while its throttler runs it.      *)
Nodes == st \in [Node -> StorageRecord] /\ \A n \in Node : Coherent(st[n])

Traffic ==
    /\ toMain \in [Window -> Seq(Request)]
    /\ toWindow \in [Window -> Seq(Answer)]
    /\ changed \subseteq Key

Data == disk \in Items /\ asked \in Items

Counters ==
    /\ erroneous \in BOOLEAN
    /\ writes \in 0 .. MaxWrites
    /\ failures \in 0 .. MaxFailures
    /\ erroneous => failures > 0

Channel(w) ==
    st[w].phase # "dead" =>
        /\ AtMostOne(toMain[w], "updateItems")
        /\ AtMostOne(toWindow[w], "done")
        /\ NoneOf(toMain[w], "updateItems") \/ NoneOf(toWindow[w], "done")
        /\ st[w].active = NoRequest =>
              NoneOf(toMain[w], "updateItems") /\ NoneOf(toWindow[w], "done")

File ==
    /\ ~erroneous => Layered(st[Main], disk)
    /\ st[Main].phase = "closed" => disk = st[Main].cache

Inv == Nodes /\ Traffic /\ Data /\ Counters /\ (\A w \in Window : Channel(w)) /\ File

LEMMA NodeTypes == Main \in Node /\ Window \subseteq Node /\ Main \notin Window
BY StorageAssumption DEF Node

\* One node's Storage changes to q.
LEMMA NodeUpdate ==
    ASSUME Nodes, NEW n \in Node, NEW q, Coherent(q), st' = [st EXCEPT ![n] = q]
    PROVE  /\ Nodes'
           /\ st'[n] = q
           /\ \A m \in Node : m # n => st'[m] = st[m]
<1>1. q \in StorageRecord
  BY DEF Coherent
<1>2. /\ st' \in [Node -> StorageRecord]
      /\ st'[n] = q
      /\ \A m \in Node : m # n => st'[m] = st[m]
  BY <1>1 DEF Nodes
<1> QED
  BY <1>2 DEF Nodes

\* What is to be shown of the file when only a window changes.
LEMMA WindowStep ==
    ASSUME File, st'[Main] = st[Main], UNCHANGED <<disk, erroneous>>
    PROVE  File'
BY DEF File

\* Channels are as they were when neither they nor the pipeline changed.
LEMMA ChannelKept ==
    ASSUME NEW w \in Window, Channel(w),
           st'[w].phase = st[w].phase \/ st[w].phase # "dead", st'[w].active = st[w].active,
           toMain'[w] = toMain[w], toWindow'[w] = toWindow[w]
    PROVE  Channel(w)'
BY DEF Channel

LEMMA InitInv ==
    ASSUME Init
    PROVE  Inv
<1>1. Nodes
  <2>1. \A n \in Node : Coherent(st[n])
    BY NewStorageCoherent DEF Init
  <2> QED
    BY <2>1 DEF Nodes, Coherent, Init
<1>2. Traffic /\ Data /\ Counters
  <2>1. Traffic
    BY DEF Init, Traffic
  <2>2. Data
    BY EmptyItems DEF Init, Data
  <2>3. Counters
    <3>1. writes \in 0 .. MaxWrites /\ failures \in 0 .. MaxFailures
      BY StorageAssumption DEF Init
    <3>2. erroneous = FALSE
      BY DEF Init
    <3> QED
      BY <3>1, <3>2 DEF Counters
  <2> QED
    BY <2>1, <2>2, <2>3
<1>3. \A w \in Window : Channel(w)
  BY EmptySeq DEF Init, Channel, AtMostOne, NoneOf
<1>4. File
  <2>1. st[Main] = NewStorage("open") /\ disk = Empty
    BY NodeTypes DEF Init
  <2>2. st[Main] \in StorageRecord
    BY <1>1, NodeTypes DEF Nodes
  <2>3. /\ st[Main].cache = Empty /\ st[Main].active = NoRequest /\ ~HasPending(st[Main])
        /\ st[Main].phase = "open"
    BY <2>1 DEF NewStorage, HasPending, Empty
  <2>4. Updated(Base(disk, st[Main]), Pending(st[Main])) = Empty
    BY <2>1, <2>2, <2>3, EmptyItems, NothingPending DEF Base
  <2> QED
    BY <2>3, <2>4 DEF File, Layered
<1> QED
  BY <1>1, <1>2, <1>3, <1>4 DEF Inv

-----------------------------------------------------------------------------
(* One lemma for each action. *)
LEMMA OpenWindowInv ==
    ASSUME Inv, NEW w \in Window, OpenWindow(w)
    PROVE  Inv'
<1> DEFINE q == [st[w] EXCEPT !.phase = "loading"]
<1> USE NodeTypes
<1>1. Coherent(st[w]) /\ st[w] \in StorageRecord /\ st[w].phase = "none"
  BY DEF Inv, Nodes, OpenWindow
<1>2. st' = [st EXCEPT ![w] = q]
  BY DEF OpenWindow
<1>3. /\ q \in StorageRecord /\ q.phase = "loading" /\ q.active = st[w].active
      /\ q.queued = st[w].queued /\ q.last = st[w].last /\ q.deferred = st[w].deferred
      /\ q.pendingInserts = st[w].pendingInserts
      /\ q.pendingDeletes = st[w].pendingDeletes
  BY <1>1 DEF StorageRecord
<1> HIDE DEF q
<1>4. Coherent(q)
  BY <1>1, <1>3 DEF Coherent, HasPending
<1>5. Nodes' /\ st'[w] = q /\ \A m \in Node : m # w => st'[m] = st[m]
  BY <1>2, <1>4, NodeUpdate DEF Inv
<1> DEFINE msg == [kind |-> "getItems"]
<1>6. /\ msg \in Request /\ msg.kind # "updateItems"
      /\ toMain' = [toMain EXCEPT ![w] = Append(toMain[w], msg)]
      /\ toMain[w] \in Seq(Request)
  BY DEF OpenWindow, Request, Inv, Traffic
<1> HIDE DEF msg
<1>7. Traffic'
  BY <1>6 DEF Inv, Traffic, OpenWindow
<1>8. ASSUME NEW v \in Window PROVE Channel(v)'
  <2>1. CASE v = w
    <3>1. /\ NoneOf(toMain[w], "updateItems") => NoneOf(Append(toMain[w], msg), "updateItems")
          /\ AtMostOne(toMain[w], "updateItems") => AtMostOne(Append(toMain[w], msg), "updateItems")
      BY <1>6, AppendKind
    <3>2. toMain'[w] = Append(toMain[w], msg) /\ toWindow'[w] = toWindow[w]
      BY <1>6 DEF OpenWindow, Inv, Traffic
    <3> QED
      BY <1>1, <1>3, <1>5, <2>1, <3>1, <3>2 DEF Inv, Channel
  <2>2. CASE v # w
    BY <1>5, <1>6, <2>2, ChannelKept DEF Inv, Traffic, OpenWindow
  <2> QED
    BY <2>1, <2>2
<1>9. File'
  BY <1>5, WindowStep DEF Inv, OpenWindow
<1>10. Data' /\ Counters'
  BY DEF Inv, Data, Counters, OpenWindow
<1> QED
  BY <1>5, <1>7, <1>8, <1>9, <1>10 DEF Inv

LEMMA WriteInv ==
    ASSUME Inv, NEW n \in Node, NEW k \in Key, NEW v \in Value, Write(n, k, v)
    PROVE  Inv'
<1> DEFINE items == [st[n].cache EXCEPT ![k] = v]
           q == Put(st[n], items)
<1> USE NodeTypes
<1>1. Coherent(st[n]) /\ st[n] \in StorageRecord /\ st[n].phase \in {"loading", "open"}
  BY DEF Inv, Nodes, Write, Called
<1>2. items \in Items
  BY <1>1 DEF StorageRecord, Items
<1>3. st' = [st EXCEPT ![n] = q]
  BY DEF Write
<1> HIDE DEF items
<1>4. Coherent(q) /\ q.phase = st[n].phase /\ q.active = st[n].active
  BY <1>1, <1>2, PutCoherent
<1>5. n = Main /\ ~erroneous => Layered(q, disk)
  BY <1>1, <1>2, PutLayered DEF Inv, File, Data
<1> HIDE DEF q
<1>6. Nodes' /\ st'[n] = q /\ \A m \in Node : m # n => st'[m] = st[m]
  BY <1>3, <1>4, NodeUpdate DEF Inv
<1>7. Traffic' /\ Data' /\ Counters'
  <2>1. asked' \in Items
    BY DEF Write, Inv, Data, Items
  <2>2. changed' \subseteq Key
    BY DEF Write, Inv, Traffic
  <2>3. writes' \in 0 .. MaxWrites
    BY StorageAssumption DEF Write, Inv, Counters
  <2> QED
    BY <2>1, <2>2, <2>3 DEF Write, Inv, Data, Counters, Traffic
<1>8. ASSUME NEW w \in Window PROVE Channel(w)'
  <2>1. st'[w].phase = st[w].phase /\ st'[w].active = st[w].active
    BY <1>4, <1>6
  <2> QED
    BY <2>1, ChannelKept DEF Inv, Write
<1>9. File'
  <2>1. CASE n = Main
    BY <1>1, <1>4, <1>5, <1>6, <2>1 DEF File, Write
  <2>2. CASE n # Main
    BY <1>6, <2>2, WindowStep DEF Inv, Write
  <2> QED
    BY <2>1, <2>2
<1> QED
  BY <1>6, <1>7, <1>8, <1>9 DEF Inv

\* Steps that change one Storage only, and neither its cache nor its update.
LEMMA PipelineKept ==
    ASSUME Inv, NEW n \in Node, NEW q, Coherent(q), st' = [st EXCEPT ![n] = q],
           q.cache = st[n].cache, q.active = st[n].active,
           Pending(q) = Pending(st[n]),
           q.phase = st[n].phase \/ (st[n].phase # "dead" /\ q.phase # "closed")
               \/ (n # Main /\ st[n].phase # "dead"),
           UNCHANGED <<toMain, toWindow, changed, disk, erroneous, asked, writes, failures>>
    PROVE  Inv'
<1> USE NodeTypes
<1>1. Nodes' /\ st'[n] = q /\ \A m \in Node : m # n => st'[m] = st[m]
  BY NodeUpdate DEF Inv
<1>2. Traffic' /\ Data' /\ Counters'
  BY DEF Inv, Traffic, Data, Counters
<1>3. ASSUME NEW w \in Window PROVE Channel(w)'
  BY <1>1, ChannelKept DEF Inv
<1>4. File'
  <2>1. CASE n = Main
    BY <1>1, <2>1 DEF Inv, File, Layered, Base
  <2>2. CASE n # Main
    BY <1>1, <2>2, WindowStep DEF Inv
  <2> QED
    BY <2>1, <2>2
<1> QED
  BY <1>1, <1>2, <1>3, <1>4 DEF Inv

LEMMA FlushInv ==
    ASSUME Inv, NEW n \in Node, Flush(n)
    PROVE  Inv'
<1> DEFINE q == Trigger(st[n])
<1>1. Coherent(st[n]) /\ st[n] \in StorageRecord /\ st[n].phase \in {"loading", "open"}
  BY DEF Inv, Nodes, Flush, Called
<1>2. Coherent(q)
  BY <1>1, TriggerCoherent
<1>3. /\ q.cache = st[n].cache /\ q.active = st[n].active /\ q.phase = st[n].phase
      /\ Pending(q) = Pending(st[n])
  BY <1>1 DEF Trigger, StorageRecord, Pending
<1> HIDE DEF q
<1> QED
  BY <1>2, <1>3, PipelineKept DEF Flush, q

LEMMA WhenFlushedInv ==
    ASSUME Inv, NEW n \in Node, WhenFlushed(n)
    PROVE  Inv'
<1> DEFINE x == IF HasPending(st[n]) THEN "waiting" ELSE "returned"
           q == [st[n] EXCEPT !.waiter = x]
<1>1. Coherent(st[n]) /\ st[n] \in StorageRecord
  BY DEF Inv, Nodes
<1>2. x \in {"waiting", "returned"}
  OBVIOUS
<1>3. st' = [st EXCEPT ![n] = q]
  BY DEF WhenFlushed
<1> HIDE DEF x
<1>4. /\ q \in StorageRecord /\ q.phase = st[n].phase /\ q.active = st[n].active
      /\ q.queued = st[n].queued /\ q.last = st[n].last /\ q.deferred = st[n].deferred
      /\ q.pendingInserts = st[n].pendingInserts /\ q.cache = st[n].cache
      /\ q.pendingDeletes = st[n].pendingDeletes
  BY <1>1, <1>2 DEF StorageRecord
<1> HIDE DEF q
<1>5. Coherent(q) /\ Pending(q) = Pending(st[n])
  BY <1>1, <1>4 DEF Coherent, HasPending, Pending
<1> QED
  BY <1>3, <1>4, <1>5, PipelineKept DEF WhenFlushed

LEMMA FlushTimerInv ==
    ASSUME Inv, NEW n \in Node, FlushTimer(n)
    PROVE  Inv'
<1> DEFINE q == Fire(st[n])
           msg == [kind |-> "updateItems", request |-> q.active]
<1> USE NodeTypes
<1>1. Coherent(st[n]) /\ st[n] \in StorageRecord /\ st[n].deferred
  BY DEF Inv, Nodes, FlushTimer
<1>2. /\ Coherent(q)
      /\ q.phase = st[n].phase /\ q.cache = st[n].cache
      /\ st[n].active # NoRequest => q.active = st[n].active
  <2>1. Pending(st[n]) # NoRequest
    BY <1>1, PendingUpdate
  <2> HIDE DEF q
  <2> QED
    BY <1>1, FireCoherent DEF q
<1>3. n = Main /\ ~erroneous => Layered(q, disk)
  BY <1>1, FireLayered DEF Inv, File, Data
<1>4. st' = [st EXCEPT ![n] = q]
  BY DEF FlushTimer
<1>5. toMain' = IF n \in Window /\ st[n].active = NoRequest /\ q.active # NoRequest
                THEN [toMain EXCEPT ![n] = Append(toMain[n], msg)]
                ELSE toMain
  BY DEF FlushTimer, Sends
<1>6. q.active # NoRequest => msg \in Request /\ msg.kind = "updateItems"
  BY <1>2 DEF Coherent, StorageRecord, Request
<1> HIDE DEF q, msg
<1>7. Nodes' /\ st'[n] = q /\ \A m \in Node : m # n => st'[m] = st[m]
  BY <1>2, <1>4, NodeUpdate DEF Inv
<1>8. Traffic' /\ Data' /\ Counters'
  BY <1>5, <1>6 DEF Inv, Traffic, Data, Counters, FlushTimer
<1>9. ASSUME NEW w \in Window PROVE Channel(w)'
  <2>1. CASE w # n \/ q.active = st[n].active
    <3>1. toMain'[w] = toMain[w]
      BY <1>2, <1>5, <2>1 DEF Inv, Traffic
    <3> QED
      BY <1>2, <1>7, <2>1, <3>1, ChannelKept DEF Inv, FlushTimer
  <2>2. CASE w = n /\ q.active # st[n].active
    <3>1. st[n].active = NoRequest /\ q.active # NoRequest
      BY <1>2, <2>2
    <3>2. toMain'[w] = Append(toMain[w], msg) /\ toMain[w] \in Seq(Request)
      BY <1>5, <2>2, <3>1 DEF Inv, Traffic
    <3>3. NoneOf(toMain[w], "updateItems") => AtMostOne(Append(toMain[w], msg), "updateItems")
      BY <1>6, <3>1, <3>2, AppendKind
    <3>4. toWindow'[w] = toWindow[w]
      BY DEF FlushTimer
    <3> QED
      BY <1>2, <1>7, <2>2, <3>1, <3>2, <3>3, <3>4, NoneAtMostOne DEF Inv, Channel
  <2> QED
    BY <2>1, <2>2
<1>10. File'
  <2>1. CASE n = Main
    BY <1>2, <1>3, <1>7, <2>1 DEF Inv, File, FlushTimer
  <2>2. CASE n # Main
    BY <1>7, <2>2, WindowStep DEF Inv, FlushTimer
  <2> QED
    BY <2>1, <2>2
<1> QED
  BY <1>7, <1>8, <1>9, <1>10 DEF Inv

\* An update of the main process ends, one way or the other.
LEMMA UpdateEnds ==
    ASSUME Inv, st[Main].active # NoRequest, NEW rejected \in BOOLEAN,
           st' = [st EXCEPT ![Main] = Finish(st[Main], rejected)],
           disk' \in Items, Counters',
           ~erroneous' => ~erroneous /\ disk' = Updated(disk, st[Main].active),
           UNCHANGED <<toMain, toWindow, changed, asked>>
    PROVE  Inv'
<1> DEFINE q == Finish(st[Main], rejected)
<1> USE NodeTypes
<1>1. Coherent(st[Main]) /\ st[Main] \in StorageRecord
  BY DEF Inv, Nodes
<1>2. Coherent(q) /\ q.phase = st[Main].phase /\ q.cache = st[Main].cache
  <2> HIDE DEF q
  <2> QED
    BY <1>1, FinishCoherent DEF q
<1>3. ~erroneous => Layered(q, Updated(disk, st[Main].active))
  BY <1>1, FinishLayered DEF Inv, File, Data
<1>4. st[Main].phase # "closed"
  BY <1>1 DEF Coherent
<1> HIDE DEF q
<1>5. Nodes' /\ st'[Main] = q /\ \A m \in Node : m # Main => st'[m] = st[m]
  BY <1>2, NodeUpdate DEF Inv, q
<1>6. Traffic' /\ Data'
  BY DEF Inv, Traffic, Data
<1>7. ASSUME NEW w \in Window PROVE Channel(w)'
  BY <1>5, ChannelKept DEF Inv
<1>8. File'
  BY <1>2, <1>3, <1>4, <1>5 DEF Inv, File
<1> QED
  BY <1>5, <1>6, <1>7, <1>8 DEF Inv

LEMMA DiskUpdatesInv ==
    ASSUME Inv, DiskUpdates
    PROVE  Inv'
<1> USE NodeTypes
<1>1. st[Main].active \in Update
  BY DEF Inv, Nodes, DiskUpdates, StorageRecord
<1>2. disk' \in Items
  BY <1>1, UpdatedItems DEF DiskUpdates, Inv, Data
<1>3. Counters'
  BY DEF DiskUpdates, Inv, Counters
<1> QED
  BY <1>2, <1>3, UpdateEnds DEF DiskUpdates

LEMMA DiskFailsInv ==
    ASSUME Inv, DiskFails
    PROVE  Inv'
<1> USE NodeTypes
<1>1. st[Main].active \in Update
  BY DEF Inv, Nodes, DiskFails, StorageRecord
<1>2. Updated(disk, st[Main].active) \in Items /\ disk \in Items
  BY <1>1, UpdatedItems DEF Inv, Data
<1>3. disk' \in Items
  BY <1>2 DEF DiskFails, Items
<1>4. Counters'
  BY StorageAssumption DEF DiskFails, Inv, Counters
<1>5. PICK rejected \in BOOLEAN : st' = [st EXCEPT ![Main] = Finish(st[Main], rejected)]
  BY DEF DiskFails
<1> QED
  BY <1>3, <1>4, <1>5, UpdateEnds DEF DiskFails

LEMMA ConnectionFailsInv ==
    ASSUME Inv, ConnectionFails
    PROVE  Inv'
<1>1. Counters'
  BY StorageAssumption DEF ConnectionFails, Inv, Counters
<1>2. Nodes' /\ Traffic' /\ Data' /\ File'
  BY DEF ConnectionFails, Inv, Nodes, Traffic, Data, File
<1>3. ASSUME NEW w \in Window PROVE Channel(w)'
  BY ChannelKept DEF ConnectionFails, Inv
<1> QED
  BY <1>1, <1>2, <1>3 DEF Inv

LEMMA MainReceivesInv ==
    ASSUME Inv, NEW w \in Window, MainReceives(w)
    PROVE  Inv'
<1> DEFINE m == Head(toMain[w])
<1> USE NodeTypes
<1>1. /\ toMain[w] \in Seq(Request) /\ toMain[w] # <<>> /\ m \in Request
      /\ toMain' = [toMain EXCEPT ![w] = Tail(toMain[w])]
      /\ Tail(toMain[w]) \in Seq(Request)
  BY HeadTailProperties DEF Inv, Traffic, MainReceives
<1>2. /\ toMain'[w] = Tail(toMain[w])
      /\ \A v \in Window : v # w => toMain'[v] = toMain[v]
  BY <1>1 DEF Inv, Traffic
<1>3. Coherent(st[Main]) /\ st[Main] \in StorageRecord
  BY DEF Inv, Nodes
<1>4. Data' /\ Counters'
  BY DEF Inv, Data, Counters, MainReceives
<1>5. /\ NoneOf(toMain[w], "updateItems") =>
            NoneOf(toMain'[w], "updateItems") /\ m.kind # "updateItems"
      /\ AtMostOne(toMain[w], "updateItems") => AtMostOne(toMain'[w], "updateItems")
      /\ AtMostOne(toMain[w], "updateItems") /\ m.kind = "updateItems" =>
            NoneOf(toMain'[w], "updateItems")
  BY <1>1, <1>2, TailKind
<1> HIDE DEF m
<1>6. CASE m.kind = "getItems"
  <2> DEFINE a == [kind |-> "items", items |-> st[Main].cache]
  <2>1. /\ toWindow' = [toWindow EXCEPT ![w] = Append(toWindow[w], a)]
        /\ UNCHANGED <<st, changed>>
    BY <1>6 DEF MainReceives, m
  <2>2. a \in Answer /\ a.kind # "done"
    BY <1>3 DEF Answer, StorageRecord
  <2> HIDE DEF a
  <2>3. /\ toWindow'[w] = Append(toWindow[w], a) /\ toWindow[w] \in Seq(Answer)
        /\ \A v \in Window : v # w => toWindow'[v] = toWindow[v]
    BY <2>1 DEF Inv, Traffic
  <2>4. /\ NoneOf(toWindow[w], "done") => NoneOf(toWindow'[w], "done")
        /\ AtMostOne(toWindow[w], "done") => AtMostOne(toWindow'[w], "done")
    BY <2>2, <2>3, AppendKind
  <2>5. Traffic'
    BY <1>1, <2>1, <2>2 DEF Inv, Traffic
  <2>6. Nodes' /\ File'
    BY <2>1 DEF Inv, Nodes, File, MainReceives
  <2>7. Channel(w)'
    BY <1>5, <2>1, <2>4 DEF Inv, Channel
  <2>8. ASSUME NEW v \in Window, v # w PROVE Channel(v)'
    BY <1>2, <2>1, <2>3, <2>8, ChannelKept DEF Inv
  <2> QED
    BY <1>4, <2>5, <2>6, <2>7, <2>8 DEF Inv
<1>7. CASE m.kind = "updateItems"
  <2> DEFINE a == [kind |-> "done"]
             items == Updated(st[Main].cache, m.request)
             q == Put(st[Main], items)
  <2>1. /\ toWindow' = [toWindow EXCEPT ![w] = Append(toWindow[w], a)]
        /\ IF st[Main].phase = "open"
           THEN /\ st' = [st EXCEPT ![Main] = q]
                /\ changed' = changed \cup {k \in Key : items[k] # st[Main].cache[k]}
           ELSE UNCHANGED <<st, changed>>
    BY <1>7 DEF MainReceives, m
  <2>2. a \in Answer /\ a.kind = "done"
    BY DEF Answer
  <2>3. items \in Items
    BY <1>1, <1>3, <1>7, UpdatedItems DEF Request, StorageRecord, m
  <2> HIDE DEF a, items
  <2>4. st[Main].phase = "open" =>
          Coherent(q) /\ q.phase = st[Main].phase /\ q.active = st[Main].active
    BY <1>3, <2>3, PutCoherent
  <2>5. ~erroneous => Layered(q, disk)
    BY <1>3, <2>3, PutLayered DEF Inv, File, Data
  <2> HIDE DEF q
  <2>6. Nodes' /\ \A n \in Node : n # Main => st'[n] = st[n]
    <3>1. CASE st[Main].phase = "open"
      BY <2>1, <2>4, <3>1, NodeUpdate DEF Inv
    <3>2. CASE st[Main].phase # "open"
      BY <2>1, <3>2 DEF Inv, Nodes
    <3> QED
      BY <3>1, <3>2
  <2>7. File'
    <3>1. CASE st[Main].phase = "open"
      <4>1. st'[Main] = q
        BY <2>1, <2>4, <3>1, NodeUpdate DEF Inv
      <4> QED
        BY <2>4, <2>5, <3>1, <4>1 DEF Inv, File, MainReceives
    <3>2. CASE st[Main].phase # "open"
      BY <2>1, <3>2 DEF Inv, File, MainReceives
    <3> QED
      BY <3>1, <3>2
  <2>8. /\ toWindow'[w] = Append(toWindow[w], a) /\ toWindow[w] \in Seq(Answer)
        /\ \A v \in Window : v # w => toWindow'[v] = toWindow[v]
    BY <2>1 DEF Inv, Traffic
  <2>9. NoneOf(toWindow[w], "done") => AtMostOne(toWindow'[w], "done")
    BY <2>2, <2>8, AppendKind
  <2>10. Traffic'
    BY <1>1, <2>1, <2>2 DEF Inv, Traffic
  <2>11. Channel(w)'
    BY <1>5, <1>7, <2>6, <2>9 DEF Inv, Channel
  <2>12. ASSUME NEW v \in Window, v # w PROVE Channel(v)'
    BY <1>2, <2>6, <2>8, <2>12, ChannelKept DEF Inv
  <2> QED
    BY <1>4, <2>6, <2>7, <2>10, <2>11, <2>12 DEF Inv
<1> QED
  BY <1>6, <1>7 DEF MainReceives, m

LEMMA BroadcastInv ==
    ASSUME Inv, Broadcast
    PROVE  Inv'
<1> DEFINE items == [k \in changed |-> st[Main].cache[k]]
           a == [kind |-> "changed", items |-> items]
<1> USE NodeTypes
<1>1. items \in Change
  BY DEF Inv, Nodes, Traffic, StorageRecord, Items, Change
<1>2. a \in Answer /\ a.kind # "done"
  BY <1>1 DEF Answer
<1>3. toWindow' = [w \in Window |-> IF w \in Listening THEN Append(toWindow[w], a)
                                    ELSE toWindow[w]]
  BY DEF Broadcast
<1> HIDE DEF a
<1>4. Traffic'
  <2>1. \A w \in Window : toWindow[w] \in Seq(Answer) /\ Append(toWindow[w], a) \in Seq(Answer)
    BY <1>2 DEF Inv, Traffic
  <2>2. toWindow' \in [Window -> Seq(Answer)]
    BY <1>3, <2>1
  <2>3. toMain' = toMain /\ changed' = {}
    BY DEF Broadcast
  <2> QED
    BY <2>2, <2>3 DEF Inv, Traffic
<1>5. Nodes' /\ File' /\ Data' /\ Counters'
  BY DEF Inv, Nodes, File, Data, Counters, Broadcast
<1>6. ASSUME NEW w \in Window PROVE Channel(w)'
  <2>1. UNCHANGED <<st, toMain>>
    BY DEF Broadcast
  <2>2. CASE w \in Listening
    <3>1. toWindow'[w] = Append(toWindow[w], a) /\ toWindow[w] \in Seq(Answer)
      BY <1>3, <2>2 DEF Inv, Traffic
    <3>2. /\ NoneOf(toWindow[w], "done") => NoneOf(toWindow'[w], "done")
          /\ AtMostOne(toWindow[w], "done") => AtMostOne(toWindow'[w], "done")
      BY <1>2, <3>1, AppendKind
    <3> QED
      BY <2>1, <3>2 DEF Inv, Channel
  <2>3. CASE w \notin Listening
    BY <1>3, <2>1, <2>3, ChannelKept DEF Inv
  <2> QED
    BY <2>2, <2>3
<1> QED
  BY <1>4, <1>5, <1>6 DEF Inv

\* The messages left in a window's channel after it took the first one.
LEMMA TakeFirst ==
    ASSUME Inv, NEW w \in Window, toWindow[w] # <<>>,
           toWindow' = [toWindow EXCEPT ![w] = Tail(toWindow[w])]
    PROVE  /\ Head(toWindow[w]) \in Answer
           /\ toWindow' \in [Window -> Seq(Answer)]
           /\ \A v \in Window : v # w => toWindow'[v] = toWindow[v]
           /\ NoneOf(toWindow[w], "done") =>
                 NoneOf(toWindow'[w], "done") /\ Head(toWindow[w]).kind # "done"
           /\ AtMostOne(toWindow[w], "done") => AtMostOne(toWindow'[w], "done")
           /\ AtMostOne(toWindow[w], "done") /\ Head(toWindow[w]).kind = "done" =>
                 NoneOf(toWindow'[w], "done")
<1>1. toWindow[w] \in Seq(Answer)
  BY DEF Inv, Traffic
<1>2. Tail(toWindow[w]) \in Seq(Answer) /\ Head(toWindow[w]) \in Answer
  BY <1>1, HeadTailProperties
<1>3. /\ toWindow' \in [Window -> Seq(Answer)]
      /\ toWindow'[w] = Tail(toWindow[w])
      /\ \A v \in Window : v # w => toWindow'[v] = toWindow[v]
  BY <1>2 DEF Inv, Traffic
<1>4. /\ NoneOf(toWindow[w], "done") =>
            NoneOf(Tail(toWindow[w]), "done") /\ Head(toWindow[w]).kind # "done"
      /\ AtMostOne(toWindow[w], "done") => AtMostOne(Tail(toWindow[w]), "done")
      /\ AtMostOne(toWindow[w], "done") /\ Head(toWindow[w]).kind = "done" =>
            NoneOf(Tail(toWindow[w]), "done")
  BY <1>1, TailKind
<1> QED
  BY <1>2, <1>3, <1>4

\* A window takes a message that does not end its update.
LEMMA WindowTakes ==
    ASSUME Inv, NEW w \in Window, toWindow[w] # <<>>,
           toWindow' = [toWindow EXCEPT ![w] = Tail(toWindow[w])],
           NEW q, Coherent(q), q.active = st[w].active,
           q.phase = st[w].phase \/ st[w].phase # "dead",
           st' = [st EXCEPT ![w] = q],
           UNCHANGED <<toMain, changed, disk, erroneous, asked, writes, failures>>
    PROVE  Inv'
<1> USE NodeTypes
<1>1. Nodes' /\ st'[w] = q /\ \A m \in Node : m # w => st'[m] = st[m]
  BY NodeUpdate DEF Inv
<1>2. Traffic' /\ Data' /\ Counters'
  BY TakeFirst DEF Inv, Traffic, Data, Counters
<1>3. Channel(w)'
  BY <1>1, TakeFirst DEF Inv, Channel
<1>4. ASSUME NEW v \in Window, v # w PROVE Channel(v)'
  BY <1>1, <1>4, TakeFirst, ChannelKept DEF Inv
<1>5. File'
  BY <1>1, WindowStep DEF Inv
<1> QED
  BY <1>1, <1>2, <1>3, <1>4, <1>5 DEF Inv

LEMMA WindowReceivesInv ==
    ASSUME Inv, NEW w \in Window, WindowReceives(w)
    PROVE  Inv'
<1> DEFINE m == Head(toWindow[w])
           o == st[w]
<1> USE NodeTypes
<1>1. Coherent(o) /\ o \in StorageRecord /\ st \in [Node -> StorageRecord]
  BY DEF Inv, Nodes
<1>2. /\ toWindow[w] # <<>>
      /\ toWindow' = [toWindow EXCEPT ![w] = Tail(toWindow[w])]
      /\ UNCHANGED <<changed, disk, erroneous, asked, writes, failures>>
  BY DEF WindowReceives
<1>3. m \in Answer
  BY <1>2, TakeFirst
<1>4. st = [st EXCEPT ![w] = o]
  BY <1>1
<1>5. CASE UNCHANGED <<st, toMain>>
  BY <1>1, <1>2, <1>4, <1>5, WindowTakes
<1>6. CASE m.kind = "items" /\ o.phase = "loading"
  <2> DEFINE q == [o EXCEPT !.cache = m.items, !.phase = "open"]
  <2>1. st' = [st EXCEPT ![w] = q] /\ toMain' = toMain
    BY <1>1, <1>6 DEF WindowReceives
  <2>2. m.items \in Items
    BY <1>3, <1>6 DEF Answer
  <2> HIDE DEF m
  <2>3. /\ q \in StorageRecord /\ q.phase = "open" /\ q.active = o.active
        /\ q.queued = o.queued /\ q.last = o.last /\ q.deferred = o.deferred
        /\ q.pendingInserts = o.pendingInserts /\ q.pendingDeletes = o.pendingDeletes
    BY <1>1, <2>2 DEF StorageRecord
  <2> HIDE DEF q
  <2>4. Coherent(q)
    BY <1>1, <1>6, <2>3 DEF Coherent, HasPending
  <2> QED
    BY <1>2, <1>6, <2>1, <2>3, <2>4, WindowTakes
<1>7. CASE m.kind = "changed" /\ o.phase \in {"loading", "open"}
  <2> DEFINE q == AcceptExternal(o, m.items)
  <2>1. st' = [st EXCEPT ![w] = q] /\ toMain' = toMain
    BY <1>1, <1>7 DEF WindowReceives
  <2>2. m.items \in Change
    BY <1>3, <1>7 DEF Answer
  <2>3. Coherent(q)
    BY <1>1, <2>2, AcceptExternalCoherent
  <2>4. q.phase = o.phase /\ q.active = o.active
    BY <1>1 DEF AcceptExternal, StorageRecord
  <2> HIDE DEF q, m
  <2> QED
    BY <1>2, <2>1, <2>3, <2>4, WindowTakes
<1>8. CASE m.kind = "done" /\ o.phase # "dead"
  <2> DEFINE q == Finish(o, FALSE)
             msg == [kind |-> "updateItems", request |-> q.active]
  <2>1. /\ st' = [st EXCEPT ![w] = q]
        /\ toMain' = IF q.active # NoRequest
                     THEN [toMain EXCEPT ![w] = Append(toMain[w], msg)]
                     ELSE toMain
    BY <1>8 DEF WindowReceives, Sends
  <2>2. /\ AtMostOne(toWindow[w], "done") /\ ~NoneOf(toWindow[w], "done")
        /\ NoneOf(toMain[w], "updateItems") /\ o.active # NoRequest
    BY <1>2, <1>8, TakeFirst DEF Inv, Channel
  <2>3. Coherent(q) /\ q.phase = o.phase
    <3> HIDE DEF q
    <3> QED
      BY <1>1, <2>2, FinishCoherent DEF q
  <2>4. q.active # NoRequest => msg \in Request /\ msg.kind = "updateItems"
    BY <2>3 DEF Coherent, StorageRecord, Request
  <2>5. toMain[w] \in Seq(Request)
    BY DEF Inv, Traffic
  <2> HIDE DEF q, msg
  <2>6. Nodes' /\ st'[w] = q /\ \A n \in Node : n # w => st'[n] = st[n]
    BY <2>1, <2>3, NodeUpdate DEF Inv
  <2>7. Traffic' /\ Data' /\ Counters'
    <3>1. toMain' \in [Window -> Seq(Request)]
      BY <2>1, <2>4 DEF Inv, Traffic
    <3> QED
      BY <1>2, <3>1, TakeFirst DEF Inv, Traffic, Data, Counters
  <2>8. NoneOf(toWindow'[w], "done")
    BY <1>2, <1>8, <2>2, TakeFirst
  <2>9. /\ q.active = NoRequest => NoneOf(toMain'[w], "updateItems")
        /\ AtMostOne(toMain'[w], "updateItems")
    <3>1. CASE q.active = NoRequest
      BY <2>1, <2>2, <3>1, NoneAtMostOne
    <3>2. CASE q.active # NoRequest
      <4>1. toMain'[w] = Append(toMain[w], msg)
        BY <2>1, <3>2 DEF Inv, Traffic
      <4> QED
        BY <2>2, <2>4, <2>5, <3>2, <4>1, AppendKind
    <3> QED
      BY <3>1, <3>2
  <2>10. Channel(w)'
    BY <2>6, <2>8, <2>9, NoneAtMostOne DEF Channel
  <2>11. ASSUME NEW v \in Window, v # w PROVE Channel(v)'
    <3>1. toMain'[v] = toMain[v] /\ toWindow'[v] = toWindow[v]
      BY <1>2, <2>1, <2>11, TakeFirst DEF Inv, Traffic
    <3> QED
      BY <2>6, <2>11, <3>1, ChannelKept DEF Inv
  <2>12. File'
    BY <1>2, <2>6, WindowStep DEF Inv
  <2> QED
    BY <2>6, <2>7, <2>10, <2>11, <2>12 DEF Inv
<1> QED
  BY <1>5, <1>6, <1>7, <1>8 DEF WindowReceives

LEMMA CloseInv ==
    ASSUME Inv, NEW n \in Node, Close(n)
    PROVE  Inv'
<1> DEFINE q == [st[n] EXCEPT !.phase = "flushing", !.last = "timer", !.deferred = TRUE]
<1>1. Coherent(st[n]) /\ st[n] \in StorageRecord /\ st[n].phase = "open"
  BY DEF Inv, Nodes, Close
<1>2. st' = [st EXCEPT ![n] = q]
  BY <1>1 DEF Close, Trigger, StorageRecord
<1>3. /\ q \in StorageRecord /\ q.phase = "flushing" /\ q.active = st[n].active
      /\ q.queued = st[n].queued /\ q.last = "timer" /\ q.deferred = TRUE
      /\ q.pendingInserts = st[n].pendingInserts /\ q.cache = st[n].cache
      /\ q.pendingDeletes = st[n].pendingDeletes
  BY <1>1 DEF StorageRecord
<1> HIDE DEF q
<1>4. Coherent(q) /\ Pending(q) = Pending(st[n])
  BY <1>1, <1>3 DEF Coherent, HasPending, Pending
<1> QED
  BY <1>1, <1>2, <1>3, <1>4, PipelineKept DEF Close

\* The last phase of close().
LEMMA ClosedCoherent ==
    ASSUME NEW n \in Node, Nodes, st[n].last = "settled",
           NEW phase \in {"closed", "lost"}
    PROVE  LET q == [st[n] EXCEPT !.phase = phase] IN
           /\ Coherent(q) /\ q.phase = phase /\ q.cache = st[n].cache
           /\ q.active = NoRequest /\ st[n].active = NoRequest
           /\ Pending(q) = Pending(st[n])
           /\ ~HasPending(st[n])
<1> DEFINE q == [st[n] EXCEPT !.phase = phase]
<1>1. Coherent(st[n]) /\ st[n] \in StorageRecord
  BY DEF Nodes
<1>2. /\ q \in StorageRecord /\ q.phase = phase /\ q.active = st[n].active
      /\ q.queued = st[n].queued /\ q.last = st[n].last /\ q.deferred = st[n].deferred
      /\ q.pendingInserts = st[n].pendingInserts /\ q.cache = st[n].cache
      /\ q.pendingDeletes = st[n].pendingDeletes
  BY <1>1 DEF StorageRecord
<1> HIDE DEF q
<1>3. Coherent(q) /\ Pending(q) = Pending(st[n])
  BY <1>1, <1>2 DEF Coherent, HasPending, Pending
<1> QED
  BY <1>1, <1>2, <1>3 DEF Coherent, q

LEMMA CloseWindowDatabaseInv ==
    ASSUME Inv, NEW w \in Window, CloseWindowDatabase(w)
    PROVE  Inv'
<1> DEFINE q == [st[w] EXCEPT !.phase = "closed"]
<1> USE NodeTypes
<1>1. st[w].phase = "flushing" /\ st[w].last = "settled" /\ st' = [st EXCEPT ![w] = q]
  BY DEF CloseWindowDatabase
<1>2. /\ Coherent(q) /\ q.cache = st[w].cache /\ q.active = st[w].active
      /\ Pending(q) = Pending(st[w])
  BY <1>1, ClosedCoherent DEF Inv
<1> HIDE DEF q
<1> QED
  BY <1>1, <1>2, PipelineKept DEF CloseWindowDatabase

LEMMA CloseDatabaseInv ==
    ASSUME Inv, CloseDatabase
    PROVE  Inv'
<1> USE NodeTypes
<1>1. PICK phase \in {"closed", "lost"} :
         /\ st' = [st EXCEPT ![Main] = [st[Main] EXCEPT !.phase = phase]]
         /\ phase = "closed" => disk' = IF erroneous THEN st[Main].cache ELSE disk
         /\ phase = "lost" => erroneous
  BY DEF CloseDatabase
<1> DEFINE q == [st[Main] EXCEPT !.phase = phase]
<1>2. /\ st[Main].phase = "flushing" /\ st[Main].last = "settled"
      /\ UNCHANGED <<toMain, toWindow, changed, erroneous, asked, writes>>
  BY DEF CloseDatabase
<1>3. /\ Coherent(q) /\ q.phase = phase /\ q.cache = st[Main].cache
      /\ q.active = NoRequest /\ st[Main].active = NoRequest
      /\ Pending(q) = Pending(st[Main]) /\ ~HasPending(st[Main])
  BY <1>2, ClosedCoherent DEF Inv
<1>4. st[Main] \in StorageRecord /\ disk \in Items
  BY DEF Inv, Nodes, Data
<1>5. ~erroneous => disk = st[Main].cache
  <2>1. Updated(disk, Pending(st[Main])) = disk
    BY <1>3, <1>4, NothingPending
  <2> QED
    BY <1>3, <2>1 DEF Inv, File, Layered, Base
<1>6. disk' \in Items
  BY <1>4, AbsentValue DEF CloseDatabase, StorageRecord, Items
<1>7. Counters'
  BY StorageAssumption DEF Inv, Counters, CloseDatabase
<1> HIDE DEF q
<1>8. Nodes' /\ st'[Main] = q /\ \A n \in Node : n # Main => st'[n] = st[n]
  BY <1>1, <1>3, NodeUpdate DEF Inv, q
<1>9. Traffic' /\ Data'
  BY <1>2, <1>6 DEF Inv, Traffic, Data
<1>10. ASSUME NEW w \in Window PROVE Channel(w)'
  BY <1>2, <1>8, ChannelKept DEF Inv
<1>11. File'
  <2>1. ~erroneous' => Layered(q, disk')
    <3>1. SUFFICES ASSUME ~erroneous PROVE Layered(q, disk')
      BY <1>2
    <3>2. disk' = disk
      BY <1>1, <3>1
    <3>3. Updated(disk, Pending(q)) = disk
      BY <1>3, <1>4, NothingPending
    <3> QED
      BY <1>3, <1>5, <3>1, <3>2, <3>3 DEF Layered, Base
  <2> QED
    BY <1>1, <1>3, <1>5, <1>8, <2>1 DEF File
<1> QED
  BY <1>7, <1>8, <1>9, <1>10, <1>11 DEF Inv

LEMMA WindowDiesInv ==
    ASSUME Inv, NEW w \in Window, WindowDies(w)
    PROVE  Inv'
<1> USE NodeTypes
<1>1. Nodes' /\ st'[w] = NewStorage("dead") /\ \A n \in Node : n # w => st'[n] = st[n]
  BY NewStorageCoherent, NodeUpdate DEF Inv, WindowDies
<1>2. /\ toWindow' \in [Window -> Seq(Answer)]
      /\ \A v \in Window : v # w => toWindow'[v] = toWindow[v]
  BY DEF Inv, Traffic, WindowDies
<1>3. Traffic' /\ Data' /\ Counters'
  BY <1>2 DEF Inv, Traffic, Data, Counters, WindowDies
<1>4. Channel(w)'
  BY <1>1 DEF Channel, NewStorage
<1>5. ASSUME NEW v \in Window, v # w PROVE Channel(v)'
  BY <1>1, <1>2, <1>5, ChannelKept DEF Inv, WindowDies
<1>6. File'
  BY <1>1, WindowStep DEF Inv, WindowDies
<1> QED
  BY <1>1, <1>3, <1>4, <1>5, <1>6 DEF Inv

\* Every step keeps the invariant.
LEMMA NextInv ==
    ASSUME Inv, [Next]_vars
    PROVE  Inv'
<1>1. CASE UNCHANGED vars
  BY <1>1 DEF vars, Inv, Nodes, Traffic, Data, Counters, Channel, File
<1>2. ASSUME NEW n \in Writer, NEW k \in Key, NEW v \in Value, Write(n, k, v)
      PROVE  Inv'
  BY <1>2, WriteInv, StorageAssumption DEF Node
<1>3. ASSUME NEW n \in Flusher, Flush(n) \/ WhenFlushed(n)
      PROVE  Inv'
  BY <1>3, FlushInv, WhenFlushedInv, StorageAssumption DEF Node
<1>4. ASSUME NEW n \in Node, FlushTimer(n) \/ Close(n)
      PROVE  Inv'
  BY <1>4, FlushTimerInv, CloseInv
<1>5. ASSUME NEW w \in Window,
             \/ OpenWindow(w) \/ MainReceives(w) \/ WindowReceives(w)
             \/ CloseWindowDatabase(w) \/ WindowDies(w)
      PROVE  Inv'
  BY <1>5, OpenWindowInv, MainReceivesInv, WindowReceivesInv, CloseWindowDatabaseInv,
     WindowDiesInv
<1>6. CASE DiskUpdates \/ DiskFails \/ ConnectionFails \/ Broadcast \/ CloseDatabase
  BY <1>6, DiskUpdatesInv, DiskFailsInv, ConnectionFailsInv, BroadcastInv, CloseDatabaseInv
<1> QED
  BY <1>1, <1>2, <1>3, <1>4, <1>5, <1>6 DEF Next

\* In every reachable state the pipelines are coherent, each window has one update
\* on its way at most, and the file lags behind the memory by what is pending.
THEOREM Invariance == Spec => []Inv
<1>1. Init => Inv
  BY InitInv
<1>2. Inv /\ [Next]_vars => Inv'
  BY NextInv
<1> QED
  BY <1>1, <1>2, PTL DEF Spec

-----------------------------------------------------------------------------
(* What the invariant gives. *)

\* Every variable keeps its type, whatever the schedule of the timers, the
\* messages and the errors of the database.
THEOREM TypeCorrect == Spec => []TypeOK
<1>1. Inv => TypeOK
  BY DEF Inv, Nodes, Coherent, Traffic, Data, Counters, TypeOK
<1> QED
  BY <1>1, Invariance, PTL

\* No pending write is ever stranded without a timer or a queued flush, and the
\* file of a working database is only behind while a flush is due or running.
THEOREM Scheduled == Spec => []WriteScheduled
<1>1. ASSUME Inv PROVE WriteScheduled
  <2> USE NodeTypes
  <2>1. \A n \in Node : HasPending(st[n]) => st[n].deferred \/ st[n].queued
    BY <1>1 DEF Inv, Nodes, Coherent
  <2>2. ASSUME ~erroneous, st[Main].active = NoRequest, ~st[Main].deferred
        PROVE  disk = st[Main].cache
    <3>1. Coherent(st[Main]) /\ st[Main] \in StorageRecord /\ disk \in Items
      BY <1>1 DEF Inv, Nodes, Data
    <3>2. ~HasPending(st[Main])
      BY <2>2, <3>1 DEF Coherent
    <3>3. Updated(disk, Pending(st[Main])) = disk
      BY <3>1, <3>2, NothingPending
    <3> QED
      BY <1>1, <2>2, <3>3 DEF Inv, File, Layered, Base
  <2> QED
    BY <2>1, <2>2 DEF WriteScheduled
<1> QED
  BY <1>1, Invariance, PTL

\* A window that has closed its storage has handed over all its writes, and the
\* main process closes with its file and its cache the same, for any number of
\* windows, crashes of windows and errors of the database.
THEOREM SavedOnClose == Spec => []CloseSaves
<1>1. ASSUME Inv PROVE CloseSaves
  <2> USE NodeTypes
  <2>1. ASSUME NEW w \in Window, st[w].phase = "closed"
        PROVE  /\ ~HasPending(st[w])
               /\ st[w].active = NoRequest
               /\ \A i \in DOMAIN toMain[w] : toMain[w][i].kind # "updateItems"
    <3>1. Coherent(st[w])
      BY <1>1 DEF Inv, Nodes
    <3>2. ~HasPending(st[w]) /\ st[w].active = NoRequest
      BY <2>1, <3>1 DEF Coherent
    <3>3. NoneOf(toMain[w], "updateItems")
      BY <1>1, <2>1, <3>2 DEF Inv, Channel
    <3>4. DOMAIN toMain[w] = 1 .. Len(toMain[w])
      BY <1>1 DEF Inv, Traffic
    <3> QED
      BY <3>2, <3>3, <3>4 DEF NoneOf
  <2>2. st[Main].phase = "closed" => disk = st[Main].cache
    BY <1>1 DEF Inv, File
  <2> QED
    BY <2>1, <2>2 DEF CloseSaves
<1> QED
  BY <1>1, Invariance, PTL

-----------------------------------------------------------------------------
(* What a step does to the Storage of the main process and to its file.         *)
Settled ==
    /\ UNCHANGED <<disk, erroneous>>
    /\ st'[Main].cache = st[Main].cache
    /\ st'[Main].active = st[Main].active
    /\ Pending(st'[Main]) = Pending(st[Main])

MainWrites ==
    /\ UNCHANGED <<disk, erroneous>>
    /\ \E items \in Items : st'[Main] = Put(st[Main], items)
    /\ st[Main].phase = "open"

\* The steps as the main process sees them.
LEMMA MainSteps ==
    ASSUME Inv, [Next]_vars
    PROVE  \/ Settled \/ MainWrites \/ FlushTimer(Main)
           \/ DiskUpdates \/ DiskFails \/ ConnectionFails \/ CloseDatabase
<1> USE NodeTypes
<1>1. st \in [Node -> StorageRecord] /\ Coherent(st[Main])
  BY DEF Inv, Nodes
<1>2. ASSUME st'[Main] = st[Main], UNCHANGED <<disk, erroneous>>
      PROVE  Settled
  BY <1>2 DEF Settled
<1>3. CASE UNCHANGED vars
  BY <1>2, <1>3 DEF vars
<1>4. ASSUME NEW n \in Writer, NEW k \in Key, NEW v \in Value, Write(n, k, v)
      PROVE  Settled \/ MainWrites
  <2> DEFINE items == [st[n].cache EXCEPT ![k] = v]
  <2>1. /\ n \in Node /\ st' = [st EXCEPT ![n] = Put(st[n], items)]
        /\ UNCHANGED <<disk, erroneous>>
    BY <1>4, StorageAssumption DEF Write, Node
  <2>2. CASE n = Main
    <3>1. items \in Items /\ st[Main].phase = "open"
      BY <1>1, <1>4, <2>2, StorageAssumption DEF Write, Called, StorageRecord, Items
    <3> HIDE DEF items
    <3> QED
      BY <1>1, <2>1, <2>2, <3>1 DEF MainWrites
  <2>3. CASE n # Main
    BY <1>1, <1>2, <2>1, <2>3
  <2> QED
    BY <2>2, <2>3
<1>5. ASSUME NEW n \in Node, Flush(n) \/ WhenFlushed(n) \/ Close(n)
      PROVE  Settled
  <2>1. ASSUME NEW q, q.cache = st[n].cache, q.active = st[n].active,
               q.pendingInserts = st[n].pendingInserts,
               q.pendingDeletes = st[n].pendingDeletes,
               st' = [st EXCEPT ![n] = q], UNCHANGED <<disk, erroneous>>
        PROVE  Settled
    <3>1. st'[n] = q /\ \A m \in Node : m # n => st'[m] = st[m]
      BY <1>1, <2>1
    <3> QED
      BY <1>2, <2>1, <3>1 DEF Settled, Pending
  <2>2. CASE Flush(n)
    <3> DEFINE q == Trigger(st[n])
    <3>1. /\ q.cache = st[n].cache /\ q.active = st[n].active
          /\ q.pendingInserts = st[n].pendingInserts /\ q.pendingDeletes = st[n].pendingDeletes
      BY <1>1 DEF Trigger, StorageRecord
    <3>2. st' = [st EXCEPT ![n] = q] /\ UNCHANGED <<disk, erroneous>>
      BY <2>2 DEF Flush
    <3> HIDE DEF q
    <3> QED
      BY <2>1, <3>1, <3>2
  <2>3. CASE WhenFlushed(n)
    <3> DEFINE x == IF HasPending(st[n]) THEN "waiting" ELSE "returned"
               q == [st[n] EXCEPT !.waiter = x]
    <3>1. st' = [st EXCEPT ![n] = q] /\ UNCHANGED <<disk, erroneous>>
      BY <2>3 DEF WhenFlushed
    <3> HIDE DEF x
    <3>2. /\ q.cache = st[n].cache /\ q.active = st[n].active
          /\ q.pendingInserts = st[n].pendingInserts /\ q.pendingDeletes = st[n].pendingDeletes
      BY <1>1 DEF StorageRecord
    <3> HIDE DEF q
    <3> QED
      BY <2>1, <3>1, <3>2
  <2>4. CASE Close(n)
    <3> DEFINE q == Trigger([st[n] EXCEPT !.phase = "flushing", !.last = "timer"])
    <3>1. st' = [st EXCEPT ![n] = q] /\ UNCHANGED <<disk, erroneous>>
      BY <2>4 DEF Close
    <3>2. /\ q.cache = st[n].cache /\ q.active = st[n].active
          /\ q.pendingInserts = st[n].pendingInserts /\ q.pendingDeletes = st[n].pendingDeletes
      BY <1>1 DEF Trigger, StorageRecord
    <3> HIDE DEF q
    <3> QED
      BY <2>1, <3>1, <3>2
  <2> QED
    BY <1>5, <2>2, <2>3, <2>4
<1>6. ASSUME NEW n \in Node, FlushTimer(n)
      PROVE  Settled \/ FlushTimer(Main)
  <2>1. CASE n # Main
    BY <1>1, <1>2, <1>6, <2>1 DEF FlushTimer
  <2> QED
    BY <1>6, <2>1
<1>7. ASSUME NEW w \in Window, MainReceives(w)
      PROVE  Settled \/ MainWrites
  <2> DEFINE m == Head(toMain[w])
             items == Updated(st[Main].cache, m.request)
  <2>1. UNCHANGED <<disk, erroneous>>
    BY <1>7 DEF MainReceives
  <2>2. CASE UNCHANGED st
    BY <1>2, <2>1, <2>2
  <2>3. CASE /\ m.kind = "updateItems" /\ st[Main].phase = "open"
             /\ st' = [st EXCEPT ![Main] = Put(st[Main], items)]
    <3>1. m \in Request
      BY <1>7, HeadTailProperties DEF MainReceives, Inv, Traffic
    <3>2. items \in Items
      BY <1>1, <2>3, <3>1, UpdatedItems DEF Request, StorageRecord
    <3> HIDE DEF items
    <3> QED
      BY <1>1, <2>1, <2>3, <3>2 DEF MainWrites
  <2> QED
    BY <1>7, <2>2, <2>3 DEF MainReceives
<1>8. ASSUME NEW w \in Window,
             \/ OpenWindow(w) \/ WindowReceives(w) \/ CloseWindowDatabase(w) \/ WindowDies(w)
      PROVE  Settled
  <2>1. st'[Main] = st[Main]
    BY <1>1, <1>8 DEF OpenWindow, WindowReceives, CloseWindowDatabase, WindowDies
  <2>2. UNCHANGED <<disk, erroneous>>
    BY <1>8 DEF OpenWindow, WindowReceives, CloseWindowDatabase, WindowDies
  <2> QED
    BY <1>2, <2>1, <2>2
<1>9. CASE Broadcast
  BY <1>2, <1>9 DEF Broadcast
<1> QED
  <2>1. \A n \in Flusher : n \in Node
    BY StorageAssumption DEF Node
  <2> QED
    BY <1>3, <1>4, <1>5, <1>6, <1>7, <1>8, <1>9, <2>1 DEF Next

-----------------------------------------------------------------------------
(* What the main process has yet to write is what its cache holds. That is not  *)
(* so of a window, whose cache follows the change events.                       *)
Ahead(o) ==
    /\ \A k \in o.pendingDeletes : o.cache[k] = Absent
    /\ \A k \in Key : o.pendingInserts[k] # Absent => o.pendingInserts[k] = o.cache[k]

\* A write keeps what is pending equal to the cache.
LEMMA PutAhead ==
    ASSUME NEW o \in StorageRecord, NEW items \in Items, Ahead(o)
    PROVE  Ahead(Put(o, items))
<1> DEFINE news == {k \in Key : items[k] # o.cache[k]}
           p == [o EXCEPT
                !.cache = items,
                !.pendingInserts = [k \in Key |-> IF k \in news THEN items[k] ELSE @[k]],
                !.pendingDeletes = (@ \ news) \cup {k \in news : items[k] = Absent}]
           q == [p EXCEPT !.deferred = TRUE]
<1>1. CASE news = {}
  BY <1>1 DEF Put
<1>2. CASE news # {}
  <2>1. Put(o, items) = q
    BY <1>2 DEF Put, Trigger
  <2>2. /\ q.pendingInserts = [k \in Key |-> IF k \in news THEN items[k] ELSE o.pendingInserts[k]]
        /\ q.pendingDeletes = (o.pendingDeletes \ news) \cup {k \in news : items[k] = Absent}
        /\ q.cache = items
        /\ o.pendingDeletes \subseteq Key
    BY DEF StorageRecord
  <2> HIDE DEF q
  <2>3. Ahead(q)
    BY <2>2 DEF Ahead
  <2> QED
    BY <2>1, <2>3
<1> QED
  BY <1>1, <1>2

LEMMA SamePendingAhead ==
    ASSUME NEW o, NEW q, Ahead(o), q.cache = o.cache,
           \/ q.pendingInserts = o.pendingInserts /\ q.pendingDeletes = o.pendingDeletes
           \/ q.pendingInserts = Empty /\ q.pendingDeletes = {}
    PROVE  Ahead(q)
BY DEF Ahead, Empty

\* So does every step of the main process.
LEMMA AheadStep ==
    ASSUME Inv, Ahead(st[Main]), [Next]_vars
    PROVE  Ahead(st'[Main])
<1> USE NodeTypes
<1> DEFINE o == st[Main]
<1>1. st \in [Node -> StorageRecord] /\ Coherent(o) /\ o \in StorageRecord
  BY DEF Inv, Nodes
<1>2. CASE Settled
  BY <1>2, SamePendingAhead DEF Settled, Pending
<1>3. CASE MainWrites
  BY <1>1, <1>3, PutAhead DEF MainWrites
<1>4. CASE FlushTimer(Main)
  <2>1. st'[Main] = Fire(o) /\ o.deferred
    BY <1>1, <1>4 DEF FlushTimer
  <2> QED
    BY <1>1, <2>1, FireCoherent, SamePendingAhead
<1>5. CASE DiskUpdates \/ DiskFails
  <2>1. PICK rejected \in BOOLEAN : st'[Main] = Finish(o, rejected)
    BY <1>1, <1>5 DEF DiskUpdates, DiskFails
  <2>2. o.active # NoRequest
    BY <1>5 DEF DiskUpdates, DiskFails
  <2> QED
    BY <1>1, <2>1, <2>2, FinishCoherent, SamePendingAhead
<1>6. CASE ConnectionFails
  BY <1>6 DEF ConnectionFails
<1>7. CASE CloseDatabase
  <2>1. /\ st'[Main].cache = o.cache /\ st'[Main].pendingInserts = o.pendingInserts
        /\ st'[Main].pendingDeletes = o.pendingDeletes
    BY <1>1, <1>7 DEF CloseDatabase, StorageRecord
  <2> QED
    BY <2>1, SamePendingAhead
<1> QED
  BY <1>2, <1>3, <1>4, <1>5, <1>6, <1>7, MainSteps

-----------------------------------------------------------------------------
(* The file of the main process as a WriteBehind. *)

\* Each item after a flush is one of the file or of the cache.
LEMMA FlushMixes ==
    ASSUME Inv, Ahead(st[Main]), NEW items \in Items
    PROVE  FileBehind!Mixture(Updated(items, Pending(st[Main])), items, st[Main].cache)
<1> DEFINE o == st[Main]
           content == Updated(items, Pending(o))
<1>1. o \in StorageRecord
  BY NodeTypes DEF Inv, Nodes
<1>2. content = [k \in Key |-> IF k \in o.pendingDeletes THEN Absent
                            ELSE IF o.pendingInserts[k] # Absent THEN o.pendingInserts[k]
                            ELSE items[k]]
  BY <1>1, UpdatedPending
<1>3. content \in [Key -> Value]
  BY <1>1, PendingUpdate, UpdatedItems DEF Items
<1> HIDE DEF content
<1>4. \A k \in Key : content[k] \in {items[k], o.cache[k]}
  BY <1>2 DEF Ahead
<1> QED
  BY <1>3, <1>4 DEF FileBehind!Mixture, content

\* A flush takes all that is pending, so as long as the file was the content of
\* one moment it is so after the flush. Of a damaged file we know each item.
LEMMA FlushTakes ==
    ASSUME Inv, Ahead(st[Main]), NEW items \in Items,
           ~erroneous => st[Main].cache = Updated(items, Pending(st[Main]))
    PROVE  FileBehind!Takes(Updated(items, Pending(st[Main])), items)
BY FlushMixes DEF FileBehind!Takes

\* The state of WriteBehind is that of the main process and the file.
LEMMA MainKept ==
    ASSUME UNCHANGED <<disk, erroneous>>, st'[Main].cache = st[Main].cache,
           st'[Main].active = st[Main].active
    PROVE  UNCHANGED FileBehind!vars
BY DEF FileBehind!vars, Updated

LEMMA MemoryChanges ==
    ASSUME UNCHANGED <<disk, erroneous>>, st'[Main].cache \in Items,
           st'[Main].active = st[Main].active
    PROVE  FileBehind!Next
BY DEF FileBehind!Next, FileBehind!Change, Updated, Items

\* The mapping of "flushing" is the base of the main process' Storage.
LEMMA FlushStep ==
    ASSUME Inv, Ahead(st[Main]), FlushTimer(Main)
    PROVE  FileBehind!Next \/ UNCHANGED FileBehind!vars
<1> DEFINE o == st[Main]
           q == Fire(o)
<1> USE NodeTypes
<1>1. /\ Coherent(o) /\ o.deferred /\ st'[Main] = q /\ disk \in Items
      /\ UNCHANGED <<disk, erroneous>>
  BY DEF Inv, Nodes, Data, FlushTimer
<1>2. /\ q.cache = o.cache
      /\ \/ q.active = o.active
         \/ o.active = NoRequest /\ q.active = Pending(o)
  <2> HIDE DEF q
  <2> QED
    BY <1>1, FireCoherent DEF q
<1>3. o \in StorageRecord
  BY <1>1 DEF Coherent
<1>4. CASE q.active = o.active
  BY <1>1, <1>2, <1>4, MainKept
<1>5. CASE o.active = NoRequest /\ q.active = Pending(o)
  <2>1. q.active # NoRequest
    BY <1>3, <1>5, PendingUpdate
  <2>2. ~erroneous => o.cache = Updated(disk, Pending(o))
    BY <1>5 DEF Inv, File, Layered, Base
  <2>3. FileBehind!Takes(Updated(disk, Pending(o)), disk)
    BY <1>1, <2>2, FlushTakes
  <2> HIDE DEF q
  <2>4. FileBehind!Begin
    BY <1>1, <1>2, <1>5, <2>1, <2>3 DEF FileBehind!Begin, FileBehind!Takes, Updated
  <2> QED
    BY <2>4 DEF FileBehind!Next
<1> QED
  BY <1>2, <1>4, <1>5

LEMMA UpdateStep ==
    ASSUME Inv, Ahead(st[Main]), DiskUpdates
    PROVE  FileBehind!Next
<1> DEFINE o == st[Main]
           q == Finish(o, FALSE)
<1> USE NodeTypes
<1>1. /\ Coherent(o) /\ o.active # NoRequest /\ st'[Main] = q
      /\ disk' = Updated(disk, o.active) /\ erroneous' = erroneous
  BY DEF Inv, Nodes, DiskUpdates
<1>2. /\ q.cache = o.cache
      /\ \/ q.active = NoRequest
         \/ q.active = Pending(o) /\ q.active # NoRequest
  <2> HIDE DEF q
  <2> QED
    BY <1>1, FinishCoherent DEF q
<1>3. disk' \in Items /\ o \in StorageRecord
  BY <1>1, UpdatedItems DEF Coherent, StorageRecord, Inv, Data
<1>4. ~erroneous => o.cache = Updated(disk', Pending(o))
  BY <1>1 DEF Inv, File, Layered, Base
<1>5. FileBehind!Takes(Updated(disk', Pending(o)), disk')
  BY <1>3, <1>4, FlushTakes
<1> HIDE DEF q
<1> DEFINE flushing == IF o.active = NoRequest THEN disk ELSE Updated(disk, o.active)
           next == IF q.active = NoRequest THEN disk' ELSE Updated(disk', q.active)
<1>6. disk' = flushing
  BY <1>1
<1>7. next = flushing \/ FileBehind!Takes(next, flushing)
  BY <1>2, <1>5, <1>6
<1>8. flushing' = next
  BY <1>1 DEF Updated
<1> HIDE DEF next, flushing
<1>9. next = flushing \/ next = o.cache \/ (erroneous /\ FileBehind!Mixture(next, flushing, o.cache))
  BY <1>7 DEF FileBehind!Takes
<1>10. FileBehind!End
  BY <1>1, <1>2, <1>6, <1>8, <1>9 DEF FileBehind!End, FileBehind!Takes, flushing
<1> QED
  BY <1>10 DEF FileBehind!Next

LEMMA FailureStep ==
    ASSUME Inv, Ahead(st[Main]), DiskFails
    PROVE  FileBehind!Next
<1> DEFINE o == st[Main]
           request == o.active
<1> USE NodeTypes
<1>1. /\ Coherent(o) /\ o \in StorageRecord /\ request # NoRequest /\ request \in Update
      /\ disk \in Items /\ erroneous' = TRUE
  BY DEF Inv, Nodes, Data, DiskFails, Coherent, StorageRecord
<1>2. PICK written \in SUBSET Touched(request) :
        disk' = [k \in Key |-> IF k \in written THEN Updated(disk, request)[k] ELSE disk[k]]
  BY DEF DiskFails
<1>3. PICK rejected \in BOOLEAN : st'[Main] = Finish(o, rejected)
  BY <1>1 DEF DiskFails, Inv, Nodes
<1> DEFINE q == Finish(o, rejected)
<1>4. /\ q.cache = o.cache
      /\ \/ q.active = NoRequest
         \/ q.active = Pending(o) /\ q.active # NoRequest
  <2> HIDE DEF q
  <2> QED
    BY <1>1, FinishCoherent DEF q
<1>5. Updated(disk, request) \in Items
  BY <1>1, UpdatedItems
<1>6. FileBehind!Mixture(disk', disk, Updated(disk, request))
  BY <1>1, <1>2, <1>5 DEF FileBehind!Mixture, Items
<1>7. disk' \in Items
  BY <1>1, <1>2, <1>5 DEF Items
<1> DEFINE content == IF q.active = NoRequest THEN disk' ELSE Updated(disk', q.active)
<1>8. FileBehind!Mixture(content, disk', o.cache)
  <2>1. FileBehind!Mixture(disk', disk', o.cache)
    BY <1>7 DEF FileBehind!Mixture, Items
  <2>2. FileBehind!Mixture(Updated(disk', Pending(o)), disk', o.cache)
    BY <1>7, FlushMixes
  <2> HIDE DEF q
  <2> QED
    BY <1>4, <2>1, <2>2
<1> HIDE DEF q
<1>9. FileBehind!Fail
  BY <1>1, <1>3, <1>4, <1>6, <1>8 DEF q, FileBehind!Fail, FileBehind!Mixture, Updated
<1> QED
  BY <1>9 DEF FileBehind!Next

LEMMA CloseStep ==
    ASSUME Inv, CloseDatabase
    PROVE  FileBehind!Next \/ UNCHANGED FileBehind!vars
<1> DEFINE o == st[Main]
<1> USE NodeTypes
<1>1. /\ Coherent(o) /\ o \in StorageRecord /\ o.last = "settled" /\ disk \in Items
      /\ st \in [Node -> StorageRecord] /\ erroneous' = erroneous
  BY DEF Inv, Nodes, Data, CloseDatabase, Coherent
<1>2. o.active = NoRequest /\ o.cache \in Items
  BY <1>1 DEF Coherent, StorageRecord
<1>3. st'[Main].cache = o.cache /\ st'[Main].active = o.active
  BY <1>1 DEF CloseDatabase, StorageRecord
<1>4. CASE disk' = disk
  BY <1>1, <1>3, <1>4, MainKept
<1>5. CASE erroneous /\ FileBehind!Mixture(disk', Empty, o.cache)
  <2>1. FileBehind!Recover
    BY <1>1, <1>2, <1>3, <1>5 DEF FileBehind!Recover, FileBehind!Mixture
  <2> QED
    BY <2>1 DEF FileBehind!Next
<1>6. \/ disk' = disk
      \/ erroneous /\ disk' = o.cache
      \/ erroneous /\ \E written \in SUBSET Key :
            disk' = [k \in Key |-> IF k \in written THEN o.cache[k] ELSE Absent]
  BY DEF CloseDatabase
<1>7. disk' = disk \/ (erroneous /\ FileBehind!Mixture(disk', Empty, o.cache))
  BY <1>2, <1>6, AbsentValue DEF FileBehind!Mixture, Items, Empty
<1> QED
  BY <1>4, <1>5, <1>7

LEMMA WriteBehindStep ==
    ASSUME Inv, Ahead(st[Main]), [Next]_vars
    PROVE  [FileBehind!Next]_FileBehind!vars
<1> USE NodeTypes
<1>1. Coherent(st[Main])
  BY DEF Inv, Nodes
<1>2. CASE Settled
  BY <1>2, MainKept DEF Settled
<1>3. CASE MainWrites
  <2>1. PICK items \in Items : st'[Main] = Put(st[Main], items)
    BY <1>3 DEF MainWrites
  <2>2. st'[Main].cache \in Items /\ st'[Main].active = st[Main].active
    BY <1>1, <1>3, <2>1, PutCoherent DEF MainWrites
  <2> QED
    BY <1>3, <2>2, MemoryChanges DEF MainWrites
<1>4. CASE FlushTimer(Main)
  BY <1>4, FlushStep
<1>5. CASE DiskUpdates
  BY <1>5, UpdateStep
<1>6. CASE DiskFails
  BY <1>6, FailureStep
<1>7. CASE ConnectionFails
  <2>1. FileBehind!Damage
    BY <1>7 DEF ConnectionFails, FileBehind!Damage, Updated
  <2> QED
    BY <2>1 DEF FileBehind!Next
<1>8. CASE CloseDatabase
  BY <1>8, CloseStep
<1> QED
  BY <1>2, <1>3, <1>4, <1>5, <1>6, <1>7, <1>8, MainSteps

\* While SQLite reports no error, the file always holds what the memory of the
\* main process held at one earlier moment, and follows it flush by flush: a
\* crash loses the latest writes, and never leaves some of a flush without the
\* rest of it, or an older value over a newer one. After an error every value in
\* the file is still one that its key has had.
THEOREM Implementation == Spec => ImplementsWriteBehind
<1>1. Init => FileBehind!Init /\ Ahead(st[Main])
  BY NodeTypes DEF Init, NewStorage, FileBehind!Init, Ahead, Empty
<1>2. Inv /\ Ahead(st[Main]) /\ [Next]_vars => [FileBehind!Next]_FileBehind!vars
  BY WriteBehindStep
<1>3. Inv /\ Ahead(st[Main]) /\ [Next]_vars => Ahead(st[Main])'
  BY AheadStep
<1> QED
  BY <1>1, <1>2, <1>3, Invariance, PTL DEF Spec, ImplementsWriteBehind, FileBehind!Spec

-----------------------------------------------------------------------------
(* Windows and the main process agree. What a window will show of a key is      *)
(* settled by the last message on its way that carries the key, and that holds  *)
(* what the main process has, unless the key is in the change event to come.    *)
(* When no message carries it, the window shows what the main process has, or   *)
(* what it will have once the window's own writes have reached it.              *)

Attached(w) == st[w].phase \in {"loading", "open", "flushing"}

\* A message with a value of key k.
Carries(m, k) == m.kind = "items" \/ (m.kind = "changed" /\ k \in DOMAIN m.items)

NoNews(s, k) == \A i \in 1 .. Len(s) : ~Carries(s[i], k)

\* The last message of s that carries k carries v.
LatestNews(s, k, v) ==
    \A i \in 1 .. Len(s) :
        Carries(s[i], k) =>
            \/ s[i].items[k] = v
            \/ \E j \in 1 .. Len(s) : j > i /\ Carries(s[j], k)

\* What an update makes of the value v of key k.
Applied(v, request, k) ==
    IF k \in request.delete THEN Absent
    ELSE IF request.insert[k] # Absent THEN request.insert[k] ELSE v

Sending(w) == ~NoneOf(toMain[w], "updateItems")

\* The value of k in the main process when w's update and pending writes have reached it.
Coming(w, k) ==
    Applied(IF Sending(w) THEN Applied(st[Main].cache[k], st[w].active, k)
                          ELSE st[Main].cache[k],
            Pending(st[w]), k)

View(w, k) ==
    k \notin changed =>
        /\ Attached(w) => LatestNews(toWindow[w], k, st[Main].cache[k])
        /\ st[w].phase = "open" /\ NoNews(toWindow[w], k) =>
              st[w].cache[k] = st[Main].cache[k] \/ st[w].cache[k] = Coming(w, k)

\* The requests of a window are its running update.
Requested(w) ==
    st[w].phase # "dead" =>
        \A i \in 1 .. Len(toMain[w]) :
            toMain[w][i].kind = "updateItems" => toMain[w][i].request = st[w].active

\* A window is sent the items once, while it loads them.
Loading(w) ==
    /\ st[w].phase = "none" => toMain[w] = <<>> /\ toWindow[w] = <<>> /\ ~st[w].deferred
    /\ st[w].phase = "loading" =>
          /\ AtMostOne(toMain[w], "getItems") /\ AtMostOne(toWindow[w], "items")
          /\ NoneOf(toMain[w], "getItems") \/ NoneOf(toWindow[w], "items")
    /\ st[w].phase = "open" => NoneOf(toMain[w], "getItems") /\ NoneOf(toWindow[w], "items")

\* The main process does not close its storage before its windows.
Session(w) == Requested(w) /\ Loading(w) /\ (Attached(w) => st[Main].phase = "open")

Agreed(w) == Session(w) /\ \A k \in Key : View(w, k)

Agreement == \A w \in Window : Agreed(w)

\* A message is added to a channel.
LEMMA AppendNews ==
    ASSUME NEW s \in Seq(Answer), NEW m \in Answer, NEW k, NEW v
    PROVE  /\ ~Carries(m, k) /\ LatestNews(s, k, v) => LatestNews(Append(s, m), k, v)
           /\ ~Carries(m, k) /\ NoNews(Append(s, m), k) => NoNews(s, k)
           /\ Carries(m, k) /\ m.items[k] = v => LatestNews(Append(s, m), k, v)
           /\ Carries(m, k) => ~NoNews(Append(s, m), k)
<1> DEFINE t == Append(s, m)
<1>1. /\ Len(s) \in Nat /\ Len(t) = Len(s) + 1 /\ t[Len(s) + 1] = m
      /\ \A i \in 1 .. Len(s) : t[i] = s[i]
  BY AppendProperties, LenProperties
<1>2. \A i \in 1 .. Len(t) : i \in 1 .. Len(s) \/ i = Len(s) + 1
  BY <1>1
<1>3. /\ Len(s) + 1 \in 1 .. Len(t) /\ \A i \in 1 .. Len(s) : i \in 1 .. Len(t)
      /\ \A i \in 1 .. Len(s) : Len(s) + 1 > i
  BY <1>1
<1> HIDE DEF t
<1>4. ASSUME ~Carries(m, k), LatestNews(s, k, v) PROVE LatestNews(t, k, v)
  <2> SUFFICES ASSUME NEW i \in 1 .. Len(t), Carries(t[i], k)
               PROVE  \/ t[i].items[k] = v
                      \/ \E j \in 1 .. Len(t) : j > i /\ Carries(t[j], k)
    BY DEF LatestNews
  <2>1. i \in 1 .. Len(s) /\ t[i] = s[i]
    BY <1>1, <1>2, <1>4
  <2> QED
    BY <1>1, <1>3, <1>4, <2>1 DEF LatestNews
<1>5. ASSUME ~Carries(m, k), NoNews(t, k) PROVE NoNews(s, k)
  BY <1>1, <1>3, <1>5 DEF NoNews
<1>6. ASSUME Carries(m, k), m.items[k] = v PROVE LatestNews(t, k, v)
  BY <1>1, <1>2, <1>3, <1>6 DEF LatestNews
<1>7. ASSUME Carries(m, k) PROVE ~NoNews(t, k)
  BY <1>1, <1>3, <1>7 DEF NoNews
<1> QED
  BY <1>4, <1>5, <1>6, <1>7 DEF t

\* The first message of a channel is taken.
LEMMA TakeNews ==
    ASSUME NEW s \in Seq(Answer), s # <<>>, NEW k, NEW v, LatestNews(s, k, v)
    PROVE  /\ LatestNews(Tail(s), k, v)
           /\ NoNews(Tail(s), k) /\ Carries(Head(s), k) => Head(s).items[k] = v
           /\ NoNews(Tail(s), k) /\ ~Carries(Head(s), k) => NoNews(s, k)
<1> DEFINE t == Tail(s)
<1>1. /\ Len(s) \in Nat /\ Len(s) > 0 /\ Len(t) = Len(s) - 1 /\ Head(s) = s[1]
      /\ \A i \in 1 .. Len(t) : t[i] = s[i + 1]
  BY HeadTailProperties, EmptySeq, LenProperties
<1>2. /\ \A i \in 1 .. Len(t) : i + 1 \in 1 .. Len(s)
      /\ \A i \in 1 .. Len(s) : i > 1 => i - 1 \in 1 .. Len(t) /\ s[i] = t[i - 1]
      /\ \A i \in 1 .. Len(s) : i = 1 \/ i > 1
      /\ \A i \in 1 .. Len(t), j \in 1 .. Len(s) : j > i + 1 => j > 1 /\ j - 1 > i
      /\ 1 \in 1 .. Len(s)
  BY <1>1
<1> HIDE DEF t
<1>3. LatestNews(t, k, v)
  <2> SUFFICES ASSUME NEW i \in 1 .. Len(t), Carries(t[i], k), t[i].items[k] # v
               PROVE  \E j \in 1 .. Len(t) : j > i /\ Carries(t[j], k)
    BY DEF LatestNews
  <2>1. PICK j \in 1 .. Len(s) : j > i + 1 /\ Carries(s[j], k)
    BY <1>1, <1>2 DEF LatestNews
  <2> QED
    BY <1>2, <2>1
<1>4. ASSUME NoNews(t, k), Carries(Head(s), k) PROVE Head(s).items[k] = v
  BY <1>1, <1>2, <1>4 DEF LatestNews, NoNews
<1>5. ASSUME NoNews(t, k), ~Carries(Head(s), k) PROVE NoNews(s, k)
  BY <1>1, <1>2, <1>5 DEF NoNews
<1> QED
  BY <1>3, <1>4, <1>5 DEF t

\* Updates key by key.
LEMMA UpdatedApplied ==
    ASSUME NEW items, NEW request, NEW k \in Key
    PROVE  Updated(items, request)[k] = Applied(items[k], request, k)
BY DEF Updated, Applied

\* Nothing is pending after a flush.
LEMMA NothingApplied ==
    ASSUME NEW o, ~HasPending(o), NEW k \in Key, NEW v
    PROVE  Applied(v, Pending(o), k) = v
BY DEF HasPending, Pending, Applied

\* What set and delete make of what is pending.
LEMMA PutApplied ==
    ASSUME NEW o, Coherent(o), NEW items \in Items, NEW k \in Key, NEW v
    PROVE  Applied(v, Pending(Put(o, items)), k) =
              IF items[k] = o.cache[k] THEN Applied(v, Pending(o), k) ELSE items[k]
<1> DEFINE news == {j \in Key : items[j] # o.cache[j]}
           p == [o EXCEPT
                !.cache = items,
                !.pendingInserts = [j \in Key |-> IF j \in news THEN items[j] ELSE @[j]],
                !.pendingDeletes = (@ \ news) \cup {j \in news : items[j] = Absent}]
           q == [p EXCEPT !.deferred = TRUE]
<1>1. o \in StorageRecord
  BY DEF Coherent
<1>2. CASE news = {}
  BY <1>2 DEF Put
<1>3. CASE news # {}
  <2>1. Put(o, items) = q
    BY <1>3 DEF Put, Trigger
  <2>2. /\ q.pendingInserts = [j \in Key |-> IF j \in news THEN items[j] ELSE o.pendingInserts[j]]
        /\ q.pendingDeletes = (o.pendingDeletes \ news) \cup {j \in news : items[j] = Absent}
    BY <1>1 DEF StorageRecord
  <2> HIDE DEF q
  <2>3. /\ k \in q.pendingDeletes <=> IF k \in news THEN items[k] = Absent
                                                      ELSE k \in o.pendingDeletes
        /\ q.pendingInserts[k] = IF k \in news THEN items[k] ELSE o.pendingInserts[k]
    BY <2>2
  <2> QED
    BY <2>1, <2>3 DEF Applied, Pending
<1> QED
  BY <1>2, <1>3

\* Nothing that w sees changes, and of the main process only what is announced.
LEMMA Bystander ==
    ASSUME NEW w \in Window, Agreed(w),
           st'[w] = st[w], toMain'[w] = toMain[w], toWindow'[w] = toWindow[w],
           changed \subseteq changed',
           \A k \in Key : k \notin changed' => st'[Main].cache[k] = st[Main].cache[k],
           Attached(w) => st'[Main].phase = "open"
    PROVE  Agreed(w)'
<1>1. Session(w)'
  BY DEF Agreed, Session, Requested, Loading, Attached
<1>2. ASSUME NEW k \in Key PROVE View(w, k)'
  <2> SUFFICES ASSUME k \notin changed' PROVE View(w, k)'
    BY DEF View
  <2>1. k \notin changed /\ st'[Main].cache[k] = st[Main].cache[k]
    OBVIOUS
  <2>2. Coming(w, k)' = Coming(w, k)
    BY <2>1 DEF Coming, Sending
  <2> QED
    BY <2>1, <2>2 DEF Agreed, View, Attached
<1> QED
  BY <1>1, <1>2 DEF Agreed

\* Everybody is a bystander of a step that leaves the caches and channels alone.
LEMMA AllBystanders ==
    ASSUME Agreement, NEW n \in Node, \A m \in Node : m # n => st'[m] = st[m],
           UNCHANGED <<toMain, toWindow, changed>>,
           n = Main => /\ st'[Main].cache = st[Main].cache
                       /\ \A w \in Window : Attached(w) => st'[Main].phase = "open",
           n \in Window => Agreed(n)'
    PROVE  Agreement'
<1> SUFFICES ASSUME NEW w \in Window PROVE Agreed(w)'
  BY DEF Agreement
<1>1. CASE w = n
  BY <1>1
<1>2. CASE w # n
  <2>1. st'[w] = st[w] /\ Agreed(w)
    BY <1>2, NodeTypes DEF Agreement
  <2>2. st'[Main].cache = st[Main].cache
    BY NodeTypes
  <2>3. Attached(w) => st'[Main].phase = "open"
    BY <2>1, NodeTypes DEF Agreed, Session
  <2> QED
    BY <2>1, <2>2, <2>3, Bystander
<1> QED
  BY <1>1, <1>2

\* A window whose cache and pipeline stay, perhaps closing.
LEMMA PhaseAgrees ==
    ASSUME NEW w \in Window, Agreed(w), st[w].phase # "none", st'[Main] = st[Main],
           UNCHANGED <<toMain, toWindow, changed>>,
           st'[w].cache = st[w].cache, st'[w].active = st[w].active,
           Pending(st'[w]) = Pending(st[w]),
           \/ st'[w].phase = st[w].phase
           \/ Attached(w) /\ st'[w].phase \in {"flushing", "closed"}
    PROVE  Agreed(w)'
<1>1. Session(w)'
  BY DEF Agreed, Session, Requested, Loading, Attached
<1>2. ASSUME NEW k \in Key PROVE View(w, k)'
  <2>1. Coming(w, k)' = Coming(w, k)
    BY DEF Coming, Sending
  <2> QED
    BY <2>1 DEF Agreed, View, Attached
<1> QED
  BY <1>1, <1>2 DEF Agreed

\* At first no window is attached.
LEMMA InitAgreement == Init => Agreement
<1> SUFFICES ASSUME Init, NEW w \in Window PROVE Agreed(w)
  BY DEF Agreement
<1>1. /\ st[w].phase = "none" /\ ~st[w].deferred
      /\ toMain[w] = <<>> /\ toWindow[w] = <<>> /\ Len(toMain[w]) = 0
  BY NodeTypes DEF Init, NewStorage
<1>2. Session(w)
  BY <1>1 DEF Session, Requested, Loading, Attached
<1>3. \A k \in Key : View(w, k)
  BY <1>1 DEF View, Attached
<1> QED
  BY <1>2, <1>3 DEF Agreed

\* One lemma for each action. A window asks for the items before it shows any.
LEMMA OpenWindowAgrees ==
    ASSUME Inv, Agreement, NEW w \in Window, OpenWindow(w)
    PROVE  Agreement'
<1> USE NodeTypes
<1> DEFINE msg == [kind |-> "getItems"]
<1>1. /\ st[w].phase = "none" /\ st[Main].phase = "open"
      /\ st' = [st EXCEPT ![w].phase = "loading"]
      /\ toMain' = [toMain EXCEPT ![w] = Append(toMain[w], msg)]
      /\ UNCHANGED <<toWindow, changed>>
  BY DEF OpenWindow
<1>2. st \in [Node -> StorageRecord] /\ toMain \in [Window -> Seq(Request)]
  BY DEF Inv, Nodes, Traffic
<1>3. /\ st'[w].phase = "loading" /\ \A m \in Node : m # w => st'[m] = st[m]
      /\ \A v \in Window : v # w => toMain'[v] = toMain[v]
      /\ toMain'[w] = Append(toMain[w], msg)
  BY <1>1, <1>2 DEF StorageRecord
<1>4. toMain[w] = <<>> /\ toWindow[w] = <<>>
  BY <1>1 DEF Agreement, Agreed, Session, Loading
<1>5. /\ Len(toMain'[w]) = 1 /\ toMain'[w][1].kind = "getItems"
      /\ Len(toWindow'[w]) = 0
  BY <1>1, <1>3, <1>4
<1>6. Agreed(w)'
  <2>1. Requested(w)' /\ Loading(w)'
    BY <1>3, <1>5 DEF Requested, Loading, AtMostOne, NoneOf
  <2>2. st'[Main].phase = "open"
    BY <1>1, <1>3
  <2>3. \A k \in Key : View(w, k)'
    BY <1>3, <1>5 DEF View, LatestNews
  <2> QED
    BY <2>1, <2>2, <2>3 DEF Agreed, Session
<1>7. ASSUME NEW v \in Window, v # w PROVE Agreed(v)'
  BY <1>1, <1>3, <1>7, Bystander DEF Agreement
<1> QED
  BY <1>6, <1>7 DEF Agreement

\* A write of a window is coming; one of the main process is to be announced.
LEMMA WriteAgrees ==
    ASSUME Inv, Agreement, NEW n \in Node, NEW k \in Key, NEW v \in Value, Write(n, k, v)
    PROVE  Agreement'
<1> USE NodeTypes
<1> DEFINE items == [st[n].cache EXCEPT ![k] = v]
           q == Put(st[n], items)
<1>1. Coherent(st[n]) /\ st[n] \in StorageRecord /\ st[n].phase \in {"loading", "open"}
  BY DEF Inv, Nodes, Write, Called
<1>2. items \in Items /\ \A j \in Key : items[j] = IF j = k THEN v ELSE st[n].cache[j]
  BY <1>1 DEF StorageRecord, Items
<1>3. /\ st' = [st EXCEPT ![n] = q]
      /\ changed' = IF n = Main /\ st[n].cache[k] # v THEN changed \cup {k} ELSE changed
      /\ UNCHANGED <<toMain, toWindow>>
  BY DEF Write
<1> HIDE DEF items
<1>4. Coherent(q) /\ q.phase = st[n].phase /\ q.active = st[n].active /\ q.cache = items
  BY <1>1, <1>2, PutCoherent
<1> HIDE DEF q
<1>6. st'[n] = q /\ \A m \in Node : m # n => st'[m] = st[m]
  BY <1>3, <1>4, NodeUpdate DEF Inv
<1>7. ASSUME n # Main PROVE Agreed(n)'
  <2>1. n \in Window /\ changed' = changed /\ st'[Main] = st[Main]
    BY <1>3, <1>6, <1>7 DEF Node
  <2>2. Session(n)'
    BY <1>1, <1>3, <1>4, <1>6, <2>1
       DEF Agreement, Agreed, Session, Requested, Loading, Attached
  <2>3. ASSUME NEW j \in Key PROVE View(n, j)'
    <3> DEFINE x == IF Sending(n) THEN Applied(st[Main].cache[j], st[n].active, j)
                                  ELSE st[Main].cache[j]
    <3>1. Coming(n, j)' = Applied(x, Pending(q), j) /\ Coming(n, j) = Applied(x, Pending(st[n]), j)
      BY <1>3, <1>4, <1>6, <2>1 DEF Coming, Sending
    <3>2. /\ items[j] # st[n].cache[j] => Coming(n, j)' = st'[n].cache[j]
          /\ items[j] = st[n].cache[j] => Coming(n, j)' = Coming(n, j)
      <4> HIDE DEF x
      <4>1. Applied(x, Pending(q), j) =
              IF items[j] = st[n].cache[j] THEN Applied(x, Pending(st[n]), j) ELSE items[j]
        BY <1>1, <1>2, PutApplied DEF q
      <4> QED
        BY <1>4, <1>6, <3>1, <4>1
    <3> QED
      BY <1>1, <1>3, <1>4, <1>6, <2>1, <3>2 DEF Agreement, Agreed, View, Attached
  <2> QED
    BY <2>2, <2>3 DEF Agreed
<1>8. ASSUME NEW w \in Window, w # n PROVE Agreed(w)'
  <2>1. st'[w] = st[w] /\ st'[Main].phase = st[Main].phase /\ changed \subseteq changed'
    BY <1>1, <1>3, <1>4, <1>6, <1>8
  <2>2. \A j \in Key : j \notin changed' => st'[Main].cache[j] = st[Main].cache[j]
    BY <1>2, <1>3, <1>4, <1>6
  <2>3. Agreed(w) /\ (Attached(w) => st[Main].phase = "open")
    BY DEF Agreement, Agreed, Session
  <2> QED
    BY <1>3, <2>1, <2>2, <2>3, Bystander
<1> QED
  BY <1>7, <1>8 DEF Agreement

\* The throttler hands what was pending over to the channel: to the window that
\* is all the same.
LEMMA HandedOver ==
    ASSUME Inv, NEW w \in Window, NoneOf(toMain[w], "updateItems"),
           NEW q, Coherent(q), st'[w] = q, st'[Main] = st[Main],
           q.active = Pending(st[w]), q.active # NoRequest, ~HasPending(q),
           toMain'[w] = Append(toMain[w], [kind |-> "updateItems", request |-> q.active])
    PROVE  /\ Requested(w)'
           /\ \A k \in Key : Coming(w, k)' = Coming(w, k)
           /\ NoneOf(toMain[w], "getItems") => NoneOf(toMain'[w], "getItems")
           /\ AtMostOne(toMain[w], "getItems") => AtMostOne(toMain'[w], "getItems")
<1> DEFINE msg == [kind |-> "updateItems", request |-> q.active]
<1>1. msg \in Request /\ msg.kind = "updateItems" /\ msg.request = q.active
  BY DEF Coherent, StorageRecord, Request
<1>2. toMain[w] \in Seq(Request) /\ toMain'[w] = Append(toMain[w], msg)
  BY DEF Inv, Traffic
<1> HIDE DEF msg
<1>3. /\ Len(toMain[w]) \in Nat /\ Len(toMain'[w]) = Len(toMain[w]) + 1
      /\ toMain'[w][Len(toMain[w]) + 1] = msg
      /\ \A i \in 1 .. Len(toMain[w]) : toMain'[w][i] = toMain[w][i]
  BY <1>1, <1>2, AppendProperties, LenProperties
<1>4. /\ \A i \in 1 .. Len(toMain'[w]) : i \in 1 .. Len(toMain[w]) \/ i = Len(toMain[w]) + 1
      /\ Len(toMain[w]) + 1 \in 1 .. Len(toMain'[w])
  BY <1>3
<1>5. Requested(w)'
  BY <1>1, <1>3, <1>4 DEF Requested, NoneOf
<1>6. Sending(w)' /\ ~Sending(w)
  BY <1>1, <1>3, <1>4 DEF Sending, NoneOf
<1>7. ASSUME NEW k \in Key PROVE Coming(w, k)' = Coming(w, k)
  <2>1. Coming(w, k)' = Applied(Applied(st[Main].cache[k], Pending(st[w]), k), Pending(q), k)
    BY <1>6 DEF Coming
  <2>2. Coming(w, k) = Applied(st[Main].cache[k], Pending(st[w]), k)
    BY <1>6 DEF Coming
  <2> QED
    BY <2>1, <2>2, NothingApplied
<1>8. /\ NoneOf(toMain[w], "getItems") => NoneOf(toMain'[w], "getItems")
      /\ AtMostOne(toMain[w], "getItems") => AtMostOne(toMain'[w], "getItems")
  BY <1>1, <1>2, AppendKind
<1> QED
  BY <1>5, <1>7, <1>8

\* A flush moves what is pending into the channel.
LEMMA FlushTimerAgrees ==
    ASSUME Inv, Agreement, NEW n \in Node, FlushTimer(n)
    PROVE  Agreement'
<1> USE NodeTypes
<1> DEFINE q == Fire(st[n])
           msg == [kind |-> "updateItems", request |-> q.active]
<1>1. Coherent(st[n]) /\ st[n] \in StorageRecord /\ st[n].deferred
  BY DEF Inv, Nodes, FlushTimer
<1>2. /\ Coherent(q)
      /\ q.phase = st[n].phase /\ q.cache = st[n].cache
      /\ \/ q.active = st[n].active /\ Pending(q) = Pending(st[n])
         \/ st[n].active = NoRequest /\ q.active = Pending(st[n]) /\ ~HasPending(q)
  <2> HIDE DEF q
  <2> QED
    BY <1>1, FireCoherent DEF q, Pending, HasPending, Empty
<1>3. /\ st' = [st EXCEPT ![n] = q]
      /\ toMain' = IF n \in Window /\ st[n].active = NoRequest /\ q.active # NoRequest
                   THEN [toMain EXCEPT ![n] = Append(toMain[n], msg)]
                   ELSE toMain
      /\ UNCHANGED <<toWindow, changed>>
  BY DEF FlushTimer, Sends
<1>4. q.active # NoRequest => msg \in Request /\ msg.kind = "updateItems" /\ msg.request = q.active
  BY <1>2 DEF Coherent, StorageRecord, Request
<1> HIDE DEF q, msg
<1>5. st'[n] = q /\ \A m \in Node : m # n => st'[m] = st[m]
  BY <1>2, <1>3, NodeUpdate DEF Inv
<1>10. n \in Window => st[n].phase # "none"
  BY <1>1 DEF Agreement, Agreed, Session, Loading
<1>11. UNCHANGED <<toWindow, changed>>
  BY <1>3
<1>6. CASE toMain' = toMain /\ (n = Main \/ (q.active = st[n].active /\ Pending(q) = Pending(st[n])))
  <2>1. n \in Window => Agreed(n)'
    BY <1>2, <1>3, <1>5, <1>6, <1>10, PhaseAgrees DEF Agreement
  <2>2. n = Main => /\ st'[Main].cache = st[Main].cache
                    /\ \A w \in Window : Attached(w) => st'[Main].phase = "open"
    BY <1>2, <1>5 DEF Agreement, Agreed, Session
  <2> QED
    BY <1>3, <1>5, <1>6, <2>1, <2>2, AllBystanders
<1>7. CASE /\ n \in Window /\ st[n].active = NoRequest /\ q.active = Pending(st[n])
           /\ ~HasPending(q) /\ q.active # NoRequest
  <2>1. /\ toMain' = [toMain EXCEPT ![n] = Append(toMain[n], msg)] /\ toMain[n] \in Seq(Request)
        /\ toMain \in [Window -> Seq(Request)]
    BY <1>3, <1>7 DEF Inv, Traffic
  <2>2. toMain'[n] = Append(toMain[n], msg) /\ \A v \in Window : v # n => toMain'[v] = toMain[v]
    BY <1>7, <2>1
  <2>3. st'[Main] = st[Main]
    BY <1>5, <1>7
  <2>4. Agreed(n)'
    <3> SUFFICES ASSUME st[n].phase # "dead" PROVE Agreed(n)'
      BY <1>2, <1>5 DEF Agreed, Session, Requested, Loading, View, Attached
    <3>1. NoneOf(toMain[n], "updateItems")
      BY <1>7 DEF Inv, Channel
    <3>2. /\ Requested(n)' /\ \A k \in Key : Coming(n, k)' = Coming(n, k)
          /\ NoneOf(toMain[n], "getItems") => NoneOf(toMain'[n], "getItems")
          /\ AtMostOne(toMain[n], "getItems") => AtMostOne(toMain'[n], "getItems")
      BY <1>2, <1>5, <1>7, <2>2, <2>3, <3>1, HandedOver DEF msg
    <3>6. Loading(n)'
      <4>2. Loading(n)
        BY <1>7 DEF Agreement, Agreed, Session
      <4> QED
        BY <1>2, <1>5, <1>7, <1>10, <1>11, <3>2, <4>2 DEF Loading
    <3>7. ASSUME NEW k \in Key PROVE View(n, k)'
      <4>4. View(n, k)
        BY <1>7 DEF Agreement, Agreed
      <4> QED
        BY <1>2, <1>5, <1>11, <2>3, <3>2, <4>4 DEF View, Attached
    <3>8. Session(n)'
      <4>1. Session(n)
        BY <1>7 DEF Agreement, Agreed
      <4> QED
        BY <1>2, <1>5, <2>3, <3>2, <3>6, <4>1 DEF Session, Attached
    <3> QED
      BY <3>7, <3>8 DEF Agreed
  <2>5. ASSUME NEW v \in Window, v # n PROVE Agreed(v)'
    <3>1. st'[v] = st[v] /\ toMain'[v] = toMain[v] /\ Agreed(v)
      BY <1>5, <2>2, <2>5 DEF Agreement
    <3>2. Attached(v) => st'[Main].phase = "open"
      BY <2>3, <3>1 DEF Agreed, Session
    <3> QED
      BY <1>3, <2>3, <3>1, <3>2, Bystander
  <2> QED
    BY <2>4, <2>5 DEF Agreement
<1>12. Pending(st[n]) # NoRequest
  BY <1>1, PendingUpdate
<1>13. n = Main \/ q.active = NoRequest \/ st[n].active # NoRequest => toMain' = toMain
  BY <1>3
<1>14. CASE q.active = st[n].active /\ Pending(q) = Pending(st[n])
  BY <1>6, <1>13, <1>14
<1>15. CASE st[n].active = NoRequest /\ q.active = Pending(st[n]) /\ ~HasPending(q)
  <2>1. n = Main \/ n \in Window
    BY DEF Node
  <2> QED
    BY <1>6, <1>7, <1>12, <1>13, <1>15, <2>1
<1> QED
  BY <1>2, <1>14, <1>15

\* The main process' own pipeline is nothing to the windows; it closes without them.
LEMMA MainAgrees ==
    ASSUME Inv, Agreement, NEW q, Coherent(q), st' = [st EXCEPT ![Main] = q],
           q.cache = st[Main].cache,
           q.phase = st[Main].phase \/ \A w \in Window : ~Attached(w),
           UNCHANGED <<toMain, toWindow, changed>>
    PROVE  Agreement'
<1> USE NodeTypes
<1>1. st'[Main] = q /\ \A m \in Node : m # Main => st'[m] = st[m]
  BY NodeUpdate DEF Inv
<1>2. \A w \in Window : Attached(w) => st'[Main].phase = "open"
  BY <1>1 DEF Agreement, Agreed, Session
<1> QED
  BY <1>1, <1>2, AllBystanders

\* Steps that change one Storage only, and neither its cache nor its update.
LEMMA SamePipelineAgrees ==
    ASSUME Inv, Agreement, NEW n \in Node, NEW q, Coherent(q), st' = [st EXCEPT ![n] = q],
           q.cache = st[n].cache, q.active = st[n].active, Pending(q) = Pending(st[n]),
           n = Main => q.phase = st[n].phase \/ \A w \in Window : ~Attached(w),
           n \in Window => /\ st[n].phase # "none"
                           /\ \/ q.phase = st[n].phase
                              \/ Attached(n) /\ q.phase \in {"flushing", "closed"},
           UNCHANGED <<toMain, toWindow, changed>>
    PROVE  Agreement'
<1> USE NodeTypes
<1>1. CASE n = Main
  BY <1>1, MainAgrees
<1>2. CASE n \in Window
  <2>1. st'[n] = q /\ \A m \in Node : m # n => st'[m] = st[m]
    BY NodeUpdate DEF Inv
  <2>2. Agreed(n)'
    <3>1. Agreed(n) /\ st'[Main] = st[Main]
      BY <1>2, <2>1 DEF Agreement
    <3> QED
      BY <1>2, <2>1, <3>1, PhaseAgrees
  <2> QED
    BY <1>2, <2>1, <2>2, AllBystanders
<1> QED
  BY <1>1, <1>2 DEF Node

LEMMA FlushAgrees ==
    ASSUME Inv, Agreement, NEW n \in Node, Flush(n)
    PROVE  Agreement'
<1> DEFINE q == Trigger(st[n])
<1>1. Coherent(st[n]) /\ st[n] \in StorageRecord /\ st[n].phase \in {"loading", "open"}
  BY DEF Inv, Nodes, Flush, Called
<1>2. Coherent(q)
  BY <1>1, TriggerCoherent
<1>3. /\ q.cache = st[n].cache /\ q.active = st[n].active /\ q.phase = st[n].phase
      /\ Pending(q) = Pending(st[n])
  BY <1>1 DEF Trigger, StorageRecord, Pending
<1>4. st' = [st EXCEPT ![n] = q] /\ UNCHANGED <<toMain, toWindow, changed>>
  BY DEF Flush
<1> HIDE DEF q
<1> QED
  BY <1>1, <1>2, <1>3, <1>4, SamePipelineAgrees

LEMMA WhenFlushedAgrees ==
    ASSUME Inv, Agreement, NEW n \in Node, WhenFlushed(n)
    PROVE  Agreement'
<1> DEFINE x == IF HasPending(st[n]) THEN "waiting" ELSE "returned"
           q == [st[n] EXCEPT !.waiter = x]
<1>1. Coherent(st[n]) /\ st[n] \in StorageRecord /\ st[n].phase \in {"loading", "open"}
  BY DEF Inv, Nodes, WhenFlushed, Called
<1>2. x \in {"waiting", "returned"}
  OBVIOUS
<1>3. st' = [st EXCEPT ![n] = q] /\ UNCHANGED <<toMain, toWindow, changed>>
  BY DEF WhenFlushed
<1> HIDE DEF x
<1>4. /\ q \in StorageRecord /\ q.phase = st[n].phase /\ q.active = st[n].active
      /\ q.queued = st[n].queued /\ q.last = st[n].last /\ q.deferred = st[n].deferred
      /\ q.pendingInserts = st[n].pendingInserts /\ q.cache = st[n].cache
      /\ q.pendingDeletes = st[n].pendingDeletes
  BY <1>1, <1>2 DEF StorageRecord
<1> HIDE DEF q
<1>5. Coherent(q) /\ Pending(q) = Pending(st[n])
  BY <1>1, <1>4 DEF Coherent, HasPending, Pending
<1> QED
  BY <1>1, <1>3, <1>4, <1>5, SamePipelineAgrees

LEMMA CloseAgrees ==
    ASSUME Inv, Agreement, NEW n \in Node, Close(n)
    PROVE  Agreement'
<1> DEFINE q == Trigger([st[n] EXCEPT !.phase = "flushing", !.last = "timer"])
<1>1. Coherent(st[n]) /\ st[n] \in StorageRecord /\ st[n].phase = "open"
  BY DEF Inv, Nodes, Close
<1>2. /\ q \in StorageRecord /\ q.phase = "flushing" /\ q.last = "timer" /\ q.deferred = TRUE
      /\ q.cache = st[n].cache /\ q.active = st[n].active /\ q.queued = st[n].queued
      /\ q.pendingInserts = st[n].pendingInserts /\ q.pendingDeletes = st[n].pendingDeletes
  BY <1>1 DEF Trigger, StorageRecord
<1>3. st' = [st EXCEPT ![n] = q] /\ UNCHANGED <<toMain, toWindow, changed>>
  BY DEF Close
<1> HIDE DEF q
<1>4. Coherent(q) /\ Pending(q) = Pending(st[n])
  BY <1>1, <1>2 DEF Coherent, HasPending, Pending
<1>5. n = Main => \A w \in Window : ~Attached(w)
  BY DEF Close, Attached
<1>6. n \in Window => st[n].phase # "none" /\ Attached(n)
  BY <1>1 DEF Attached
<1> QED
  BY <1>2, <1>3, <1>4, <1>5, <1>6, SamePipelineAgrees

LEMMA CloseWindowDatabaseAgrees ==
    ASSUME Inv, Agreement, NEW w \in Window, CloseWindowDatabase(w)
    PROVE  Agreement'
<1> DEFINE q == [st[w] EXCEPT !.phase = "closed"]
<1> USE NodeTypes
<1>1. Coherent(st[w]) /\ st[w] \in StorageRecord /\ st[w].phase = "flushing"
      /\ st[w].last = "settled"
  BY DEF Inv, Nodes, CloseWindowDatabase
<1>2. /\ Coherent(q) /\ q.cache = st[w].cache /\ q.active = st[w].active
      /\ q.phase = "closed" /\ Pending(q) = Pending(st[w])
  BY <1>1, ClosedCoherent DEF Inv
<1>4. st' = [st EXCEPT ![w] = q] /\ UNCHANGED <<toMain, toWindow, changed>>
  BY DEF CloseWindowDatabase
<1>5. Attached(w) /\ st[w].phase # "none"
  BY <1>1 DEF Attached
<1> HIDE DEF q
<1> QED
  BY <1>2, <1>4, <1>5, SamePipelineAgrees

LEMMA CloseDatabaseAgrees ==
    ASSUME Inv, Agreement, CloseDatabase
    PROVE  Agreement'
<1> USE NodeTypes
<1>1. Coherent(st[Main]) /\ st[Main] \in StorageRecord /\ st[Main].phase = "flushing"
      /\ st[Main].last = "settled"
  BY DEF Inv, Nodes, CloseDatabase
<1>2. \A w \in Window : ~Attached(w)
  BY <1>1 DEF Agreement, Agreed, Session
<1>3. PICK phase \in {"closed", "lost"} : st' = [st EXCEPT ![Main] = [st[Main] EXCEPT !.phase = phase]]
  BY DEF CloseDatabase
<1> DEFINE q == [st[Main] EXCEPT !.phase = phase]
<1>4. Coherent(q) /\ q.cache = st[Main].cache
  BY <1>1, ClosedCoherent DEF Inv
<1> HIDE DEF q
<1>6. st' = [st EXCEPT ![Main] = q] /\ UNCHANGED <<toMain, toWindow, changed>>
  BY <1>3 DEF q, CloseDatabase
<1> QED
  BY <1>2, <1>4, <1>6, MainAgrees

LEMMA DiskAgrees ==
    ASSUME Inv, Agreement, DiskUpdates \/ DiskFails
    PROVE  Agreement'
<1> USE NodeTypes
<1>1. Coherent(st[Main]) /\ st[Main].active # NoRequest
  BY DEF Inv, Nodes, DiskUpdates, DiskFails
<1>2. /\ \E rejected \in BOOLEAN : st' = [st EXCEPT ![Main] = Finish(st[Main], rejected)]
      /\ UNCHANGED <<toMain, toWindow, changed>>
  BY DEF DiskUpdates, DiskFails
<1>3. PICK rejected \in BOOLEAN : st' = [st EXCEPT ![Main] = Finish(st[Main], rejected)]
  BY <1>2
<1> DEFINE q == Finish(st[Main], rejected)
<1>4. Coherent(q) /\ q.phase = st[Main].phase /\ q.cache = st[Main].cache
  <2> HIDE DEF q
  <2> QED
    BY <1>1, FinishCoherent DEF q
<1> HIDE DEF q
<1>5. st' = [st EXCEPT ![Main] = q]
  BY <1>3 DEF q
<1> QED
  BY <1>2, <1>4, <1>5, MainAgrees

LEMMA ConnectionFailsAgrees ==
    ASSUME Inv, Agreement, ConnectionFails
    PROVE  Agreement'
<1> USE NodeTypes
<1>1. UNCHANGED <<st, toMain, toWindow, changed>>
  BY DEF ConnectionFails
<1>2. ASSUME NEW w \in Window PROVE Agreed(w)'
  <2>1. Agreed(w) /\ (Attached(w) => st[Main].phase = "open")
    BY DEF Agreement, Agreed, Session
  <2> QED
    BY <1>1, <2>1, Bystander
<1> QED
  BY <1>2 DEF Agreement

\* A crashed window shows nothing.
LEMMA WindowDiesAgrees ==
    ASSUME Inv, Agreement, NEW w \in Window, WindowDies(w)
    PROVE  Agreement'
<1> DEFINE q == NewStorage("dead")
<1> USE NodeTypes
<1>1. /\ st' = [st EXCEPT ![w] = q] /\ UNCHANGED <<toMain, changed>>
      /\ toWindow' = [toWindow EXCEPT ![w] = <<>>]
  BY DEF WindowDies
<1>2. Coherent(q) /\ q.phase = "dead"
  BY NewStorageCoherent DEF NewStorage
<1> HIDE DEF q
<1>3. st'[w] = q /\ \A m \in Node : m # w => st'[m] = st[m]
  BY <1>1, <1>2, NodeUpdate DEF Inv
<1>4. Agreed(w)'
  BY <1>2, <1>3 DEF Agreed, Session, Requested, Loading, View, Attached
<1>5. ASSUME NEW v \in Window, v # w PROVE Agreed(v)'
  <2>1. st'[v] = st[v] /\ st'[Main] = st[Main] /\ toMain'[v] = toMain[v] /\ Agreed(v)
    BY <1>1, <1>3, <1>5 DEF Agreement
  <2>2. toWindow'[v] = toWindow[v]
    BY <1>1, <1>5 DEF Inv, Traffic
  <2>3. Attached(v) => st[Main].phase = "open"
    BY <2>1 DEF Agreed, Session
  <2> QED
    BY <1>1, <2>1, <2>2, <2>3, Bystander
<1> QED
  BY <1>4, <1>5 DEF Agreement

\* The change event tells every attached window what the main process has now.
LEMMA BroadcastAgrees ==
    ASSUME Inv, Agreement, Broadcast
    PROVE  Agreement'
<1> DEFINE items == [k \in changed |-> st[Main].cache[k]]
           a == [kind |-> "changed", items |-> items]
<1> USE NodeTypes
<1>1. items \in Change
  BY DEF Inv, Nodes, Traffic, StorageRecord, Items, Change
<1>2. /\ a \in Answer /\ a.kind = "changed"
      /\ \A k \in Key : Carries(a, k) <=> k \in changed
      /\ \A k \in changed : a.items[k] = st[Main].cache[k]
  BY <1>1 DEF Answer, Carries
<1>3. /\ toWindow' = [w \in Window |-> IF w \in Listening THEN Append(toWindow[w], a)
                                    ELSE toWindow[w]]
      /\ changed' = {} /\ UNCHANGED <<st, toMain>>
  BY DEF Broadcast
<1> HIDE DEF a
<1> SUFFICES ASSUME NEW w \in Window PROVE Agreed(w)'
  BY DEF Agreement
<1>4. Agreed(w) /\ toWindow[w] \in Seq(Answer)
  BY DEF Agreement, Inv, Traffic
<1>5. w \in Listening <=> Attached(w)
  BY DEF Listening, Attached
<1>6. CASE ~Attached(w)
  <2>1. toWindow'[w] = toWindow[w]
    BY <1>3, <1>5, <1>6
  <2>2. st[w].phase # "open"
    BY <1>6 DEF Attached
  <2>3. Session(w)'
    BY <1>3, <1>4, <1>6, <2>1 DEF Agreed, Session, Requested, Loading, Attached
  <2>4. \A k \in Key : View(w, k)'
    BY <1>3, <1>6, <2>2 DEF View, Attached
  <2> QED
    BY <2>3, <2>4 DEF Agreed
<1>7. CASE Attached(w)
  <2>1. toWindow'[w] = Append(toWindow[w], a)
    BY <1>3, <1>5, <1>7
  <2>2. /\ NoneOf(toWindow[w], "items") => NoneOf(toWindow'[w], "items")
        /\ AtMostOne(toWindow[w], "items") => AtMostOne(toWindow'[w], "items")
    BY <1>2, <1>4, <2>1, AppendKind
  <2>3. Session(w)'
    BY <1>3, <1>4, <1>7, <2>2 DEF Agreed, Session, Requested, Loading, Attached
  <2>4. ASSUME NEW k \in Key PROVE View(w, k)'
    <3> DEFINE v == st[Main].cache[k]
    <3>1. /\ ~Carries(a, k) /\ LatestNews(toWindow[w], k, v) => LatestNews(toWindow'[w], k, v)
          /\ ~Carries(a, k) /\ NoNews(toWindow'[w], k) => NoNews(toWindow[w], k)
          /\ Carries(a, k) /\ a.items[k] = v => LatestNews(toWindow'[w], k, v)
          /\ Carries(a, k) => ~NoNews(toWindow'[w], k)
      BY <1>2, <1>4, <2>1, AppendNews
    <3>2. Coming(w, k)' = Coming(w, k)
      BY <1>3 DEF Coming, Sending
    <3>3. LatestNews(toWindow[w], k, v)' <=> LatestNews(toWindow'[w], k, v)
      BY <1>3 DEF LatestNews
    <3>4. CASE k \in changed
      BY <1>2, <1>3, <3>1, <3>3, <3>4 DEF View, NoNews
    <3>5. CASE k \notin changed
      <4>1. View(w, k) /\ ~Carries(a, k)
        BY <1>2, <1>4, <3>5 DEF Agreed
      <4> QED
        BY <1>3, <3>1, <3>2, <3>3, <3>5, <4>1 DEF View, NoNews, Attached
    <3> QED
      BY <3>4, <3>5
  <2> QED
    BY <2>3, <2>4 DEF Agreed
<1> QED
  BY <1>6, <1>7

\* The main process takes the first request of window w and answers a.
LEMMA AnsweredSession ==
    ASSUME Inv, NEW w \in Window, Agreed(w), toMain[w] # <<>>,
           NEW a \in Answer, toMain'[w] = Tail(toMain[w]), toWindow'[w] = Append(toWindow[w], a),
           st'[w] = st[w], st'[Main].phase = st[Main].phase,
           a.kind = "items" => Head(toMain[w]).kind = "getItems"
    PROVE  Session(w)'
<1>1. toMain[w] \in Seq(Request) /\ toWindow[w] \in Seq(Answer)
  BY DEF Inv, Traffic
<1>2. /\ Len(toMain[w]) \in Nat /\ Len(toMain'[w]) = Len(toMain[w]) - 1
      /\ \A i \in 1 .. Len(toMain'[w]) : toMain'[w][i] = toMain[w][i + 1]
  BY <1>1, HeadTailProperties, LenProperties, EmptySeq
<1>3. \A i \in 1 .. Len(toMain'[w]) : i + 1 \in 1 .. Len(toMain[w])
  BY <1>2
<1>4. Requested(w)'
  BY <1>2, <1>3 DEF Agreed, Session, Requested
<1>5. /\ NoneOf(toMain[w], "getItems") =>
            NoneOf(toMain'[w], "getItems") /\ Head(toMain[w]).kind # "getItems"
      /\ AtMostOne(toMain[w], "getItems") => AtMostOne(toMain'[w], "getItems")
      /\ AtMostOne(toMain[w], "getItems") /\ Head(toMain[w]).kind = "getItems" =>
            NoneOf(toMain'[w], "getItems")
  BY <1>1, TailKind
<1>6. /\ NoneOf(toWindow[w], "items") => AtMostOne(toWindow'[w], "items")
      /\ a.kind # "items" /\ NoneOf(toWindow[w], "items") => NoneOf(toWindow'[w], "items")
      /\ a.kind # "items" /\ AtMostOne(toWindow[w], "items") => AtMostOne(toWindow'[w], "items")
  BY <1>1, AppendKind
<1>7. Loading(w)'
  <2>1. Loading(w) /\ st[w].phase # "none"
    BY DEF Agreed, Session, Loading
  <2>2. CASE a.kind = "items"
    BY <1>5, <1>6, <2>1, <2>2 DEF Loading
  <2>3. CASE a.kind # "items"
    BY <1>5, <1>6, <2>1, <2>3 DEF Loading
  <2> QED
    BY <2>2, <2>3
<1> QED
  BY <1>4, <1>7 DEF Agreed, Session, Attached

\* An update of one window is news to the others, and has been coming to itself.
LEMMA MainReceivesAgrees ==
    ASSUME Inv, Agreement, NEW w \in Window, MainReceives(w)
    PROVE  Agreement'
<1> DEFINE m == Head(toMain[w])
<1> USE NodeTypes
<1>1. /\ toMain[w] \in Seq(Request) /\ toMain[w] # <<>> /\ m \in Request
      /\ toMain' = [toMain EXCEPT ![w] = Tail(toMain[w])]
  BY HeadTailProperties DEF Inv, Traffic, MainReceives
<1>2. /\ toMain'[w] = Tail(toMain[w])
      /\ \A v \in Window : v # w => toMain'[v] = toMain[v]
  BY <1>1 DEF Inv, Traffic
<1>3. Coherent(st[Main]) /\ st[Main] \in StorageRecord
  BY DEF Inv, Nodes
<1>4. /\ Agreed(w) /\ toWindow[w] \in Seq(Answer)
      /\ \A v \in Window : Agreed(v) /\ (Attached(v) => st[Main].phase = "open")
  BY DEF Agreement, Agreed, Session, Inv, Traffic
<1> HIDE DEF m
<1>5. CASE m.kind = "getItems"
  <2> DEFINE a == [kind |-> "items", items |-> st[Main].cache]
  <2>1. /\ toWindow' = [toWindow EXCEPT ![w] = Append(toWindow[w], a)]
        /\ UNCHANGED <<st, changed>>
    BY <1>5 DEF MainReceives, m
  <2>2. /\ a \in Answer /\ a.kind = "items" /\ a.items = st[Main].cache
        /\ \A k \in Key : Carries(a, k)
    BY <1>3 DEF Answer, StorageRecord, Carries
  <2> HIDE DEF a
  <2>3. /\ toWindow'[w] = Append(toWindow[w], a)
        /\ \A v \in Window : v # w => toWindow'[v] = toWindow[v]
    BY <2>1 DEF Inv, Traffic
  <2>4. Session(w)'
    BY <1>1, <1>2, <1>4, <1>5, <2>1, <2>2, <2>3, AnsweredSession DEF m
  <2>5. ASSUME NEW k \in Key PROVE View(w, k)'
    <3> DEFINE v == st[Main].cache[k]
    <3>1. LatestNews(toWindow'[w], k, v) /\ ~NoNews(toWindow'[w], k)
      BY <1>4, <2>2, <2>3, AppendNews
    <3>2. LatestNews(toWindow[w], k, v)' <=> LatestNews(toWindow'[w], k, v)
      BY <2>1 DEF LatestNews
    <3> QED
      BY <2>1, <3>1, <3>2 DEF View, NoNews
  <2>6. ASSUME NEW v \in Window, v # w PROVE Agreed(v)'
    BY <1>2, <1>4, <2>1, <2>3, <2>6, Bystander
  <2> QED
    BY <2>4, <2>5, <2>6 DEF Agreement, Agreed
<1>6. CASE m.kind = "updateItems"
  <2> DEFINE a == [kind |-> "done"]
             items == Updated(st[Main].cache, m.request)
             q == Put(st[Main], items)
  <2>1. /\ toWindow' = [toWindow EXCEPT ![w] = Append(toWindow[w], a)]
        /\ IF st[Main].phase = "open"
           THEN /\ st' = [st EXCEPT ![Main] = q]
                /\ changed' = changed \cup {k \in Key : items[k] # st[Main].cache[k]}
           ELSE UNCHANGED <<st, changed>>
    BY <1>6 DEF MainReceives, m
  <2>2. /\ a \in Answer /\ a.kind = "done" /\ \A k \in Key : ~Carries(a, k)
    BY DEF Answer, Carries
  <2>3. items \in Items /\ \A k \in Key : items[k] = Applied(st[Main].cache[k], m.request, k)
    <3>1. items \in Items
      BY <1>1, <1>3, <1>6, UpdatedItems DEF Request, StorageRecord
    <3> QED
      BY <3>1, UpdatedApplied
  <2> HIDE DEF a, items
  <2>4. st[Main].phase = "open" => Coherent(q) /\ q.phase = "open" /\ q.cache = items
    BY <1>3, <2>3, PutCoherent
  <2> HIDE DEF q
  <2>5. /\ \A n \in Node : n # Main => st'[n] = st[n]
        /\ st'[Main].phase = st[Main].phase
        /\ st[Main].phase = "open" => st'[Main].cache = items
        /\ \A k \in Key : k \notin changed' => st'[Main].cache[k] = st[Main].cache[k]
        /\ changed \subseteq changed'
    <3>1. CASE st[Main].phase = "open"
      <4>1. st'[Main] = q /\ \A n \in Node : n # Main => st'[n] = st[n]
        BY <2>1, <2>4, <3>1, NodeUpdate DEF Inv
      <4> QED
        BY <2>1, <2>4, <3>1, <4>1
    <3>2. CASE st[Main].phase # "open"
      BY <2>1, <3>2
    <3> QED
      BY <3>1, <3>2
  <2>6. /\ toWindow'[w] = Append(toWindow[w], a)
        /\ \A v \in Window : v # w => toWindow'[v] = toWindow[v]
    BY <2>1 DEF Inv, Traffic
  <2>7. st'[w] = st[w]
    BY <2>5
  <2>8. Session(w)'
    BY <1>1, <1>2, <1>4, <2>2, <2>5, <2>6, <2>7, AnsweredSession
  <2>9. ASSUME NEW k \in Key PROVE View(w, k)'
    <3> SUFFICES ASSUME Attached(w), k \notin changed' PROVE View(w, k)'
      BY <2>7 DEF View, Attached
    <3> DEFINE v == st[Main].cache[k]
    <3>1. st'[Main].cache[k] = v /\ items[k] = v /\ k \notin changed
      BY <1>4, <2>5
    <3>2. m.request = st[w].active /\ Sending(w) /\ ~Sending(w)'
      <4>1. 1 \in 1 .. Len(toMain[w]) /\ toMain[w][1] = m
        BY <1>1, HeadTailProperties, EmptySeq, LenProperties DEF m
      <4>2. AtMostOne(toMain[w], "updateItems") /\ st[w].phase # "dead"
        BY DEF Inv, Channel, Attached
      <4>3. NoneOf(toMain'[w], "updateItems")
        BY <1>1, <1>2, <1>6, <4>2, TailKind DEF m
      <4> QED
        BY <1>4, <1>6, <4>1, <4>2, <4>3 DEF Agreed, Session, Requested, Sending, NoneOf
    <3>3. Coming(w, k)' = Coming(w, k)
      BY <2>3, <2>7, <3>1, <3>2 DEF Coming
    <3>4. /\ LatestNews(toWindow[w], k, v) => LatestNews(toWindow'[w], k, v)
          /\ NoNews(toWindow'[w], k) => NoNews(toWindow[w], k)
      BY <1>4, <2>2, <2>6, AppendNews
    <3>5. LatestNews(toWindow[w], k, st[Main].cache[k])' <=> LatestNews(toWindow'[w], k, v)
      BY <3>1 DEF LatestNews
    <3>6. View(w, k)
      BY <1>4 DEF Agreed
    <3> QED
      BY <2>7, <3>1, <3>3, <3>4, <3>5, <3>6 DEF View, NoNews, Attached
  <2>10. ASSUME NEW v \in Window, v # w PROVE Agreed(v)'
    BY <1>2, <1>4, <2>5, <2>6, <2>10, Bystander
  <2> QED
    BY <2>8, <2>9, <2>10 DEF Agreement, Agreed
<1> QED
  BY <1>5, <1>6 DEF MainReceives, m

\* What a window takes from its channel is the latest of it.
LEMMA NewsTaken ==
    ASSUME Inv, NEW w \in Window, Agreed(w), toWindow[w] # <<>>,
           toWindow'[w] = Tail(toWindow[w]), st'[Main] = st[Main], changed' = changed,
           Attached(w)' => Attached(w), NEW k \in Key,
           st'[w].phase = "open" /\ Carries(Head(toWindow[w]), k) =>
               st'[w].cache[k] = Head(toWindow[w]).items[k],
           st'[w].phase = "open" /\ ~Carries(Head(toWindow[w]), k) =>
               /\ st[w].phase = "open" /\ st'[w].cache[k] = st[w].cache[k]
               /\ Coming(w, k)' = Coming(w, k)
    PROVE  View(w, k)'
<1> SUFFICES ASSUME Attached(w)', k \notin changed PROVE View(w, k)'
  BY DEF View, Attached
<1> DEFINE v == st[Main].cache[k]
<1>1. toWindow[w] \in Seq(Answer) /\ Attached(w) /\ View(w, k)
  BY DEF Inv, Traffic, Agreed
<1>2. LatestNews(toWindow[w], k, v)
  BY <1>1 DEF View
<1>3. /\ LatestNews(Tail(toWindow[w]), k, v)
      /\ NoNews(Tail(toWindow[w]), k) /\ Carries(Head(toWindow[w]), k) =>
            Head(toWindow[w]).items[k] = v
      /\ NoNews(Tail(toWindow[w]), k) /\ ~Carries(Head(toWindow[w]), k) =>
            NoNews(toWindow[w], k)
  BY <1>1, <1>2, TakeNews
<1>4. LatestNews(toWindow[w], k, st[Main].cache[k])' <=> LatestNews(Tail(toWindow[w]), k, v)
  BY DEF LatestNews
<1>5. NoNews(toWindow[w], k)' <=> NoNews(Tail(toWindow[w]), k)
  BY DEF NoNews
<1>6. CASE Carries(Head(toWindow[w]), k)
  BY <1>1, <1>3, <1>4, <1>5, <1>6 DEF View
<1>7. CASE ~Carries(Head(toWindow[w]), k)
  BY <1>1, <1>3, <1>4, <1>5, <1>7 DEF View
<1> QED
  BY <1>6, <1>7

\* It loads the items once.
LEMMA LoadingTaken ==
    ASSUME Inv, NEW w \in Window, Loading(w), toWindow[w] # <<>>,
           toWindow'[w] = Tail(toWindow[w]),
           NoneOf(toMain[w], "getItems") => NoneOf(toMain'[w], "getItems"),
           AtMostOne(toMain[w], "getItems") => AtMostOne(toMain'[w], "getItems"),
           \/ st'[w].phase = st[w].phase
           \/ /\ st[w].phase = "loading" /\ st'[w].phase = "open"
              /\ Head(toWindow[w]).kind = "items"
    PROVE  Loading(w)'
<1>1. toWindow[w] \in Seq(Answer) /\ st[w].phase # "none"
  BY DEF Inv, Traffic, Loading
<1>2. /\ NoneOf(toWindow[w], "items") =>
            NoneOf(toWindow'[w], "items") /\ Head(toWindow[w]).kind # "items"
      /\ AtMostOne(toWindow[w], "items") => AtMostOne(toWindow'[w], "items")
      /\ AtMostOne(toWindow[w], "items") /\ Head(toWindow[w]).kind = "items" =>
            NoneOf(toWindow'[w], "items")
  BY <1>1, TailKind
<1> QED
  BY <1>1, <1>2 DEF Loading

\* A window takes a message that does not end its update.
LEMMA OtherTaken ==
    ASSUME Inv, Agreement, NEW w \in Window, toWindow[w] # <<>>,
           toWindow' = [toWindow EXCEPT ![w] = Tail(toWindow[w])],
           NEW q, Coherent(q), q.active = st[w].active, Pending(q) = Pending(st[w]),
           \/ q.phase = st[w].phase
           \/ /\ st[w].phase = "loading" /\ q.phase = "open"
              /\ Head(toWindow[w]).kind = "items",
           \A k \in Key : q.phase = "open" =>
              IF Carries(Head(toWindow[w]), k) THEN q.cache[k] = Head(toWindow[w]).items[k]
              ELSE st[w].phase = "open" /\ q.cache[k] = st[w].cache[k],
           st' = [st EXCEPT ![w] = q],
           UNCHANGED <<toMain, changed>>
    PROVE  Agreement'
<1> USE NodeTypes
<1>1. st'[w] = q /\ \A m \in Node : m # w => st'[m] = st[m]
  BY NodeUpdate DEF Inv
<1>2. /\ toWindow'[w] = Tail(toWindow[w])
      /\ \A v \in Window : v # w => toWindow'[v] = toWindow[v]
  BY DEF Inv, Traffic
<1>3. /\ \A v \in Window : Agreed(v) /\ (Attached(v) => st[Main].phase = "open")
      /\ Session(w) /\ Loading(w) /\ Requested(w)
  BY DEF Agreement, Agreed, Session
<1>4. st'[Main] = st[Main] /\ (Attached(w)' => Attached(w))
  BY <1>1 DEF Attached
<1>5. Loading(w)'
  BY <1>1, <1>2, <1>3, LoadingTaken
<1>6. Requested(w)'
  BY <1>1, <1>3 DEF Requested
<1>7. ASSUME NEW k \in Key PROVE View(w, k)'
  <2>1. Coming(w, k)' = Coming(w, k)
    BY <1>1, <1>4 DEF Coming, Sending
  <2> QED
    BY <1>1, <1>2, <1>3, <1>4, <2>1, NewsTaken
<1>8. Session(w)'
  BY <1>3, <1>4, <1>5, <1>6 DEF Session
<1>9. ASSUME NEW v \in Window, v # w PROVE Agreed(v)'
  BY <1>1, <1>2, <1>3, <1>4, <1>9, Bystander
<1> QED
  BY <1>7, <1>8, <1>9 DEF Agreement, Agreed

\* The update of a window has ended, and the queued one may begin.
LEMMA UpdateDone ==
    ASSUME Inv, Agreement, NEW w \in Window, WindowReceives(w),
           Head(toWindow[w]).kind = "done", st[w].phase # "dead"
    PROVE  Agreement'
<1> DEFINE m == Head(toWindow[w])
           o == st[w]
           q == Finish(o, FALSE)
           msg == [kind |-> "updateItems", request |-> q.active]
<1> USE NodeTypes
<1>1. /\ st' = [st EXCEPT ![w] = q]
      /\ toMain' = IF q.active # NoRequest
                   THEN [toMain EXCEPT ![w] = Append(toMain[w], msg)]
                   ELSE toMain
      /\ toWindow[w] # <<>> /\ toWindow' = [toWindow EXCEPT ![w] = Tail(toWindow[w])]
      /\ changed' = changed
  BY DEF WindowReceives, Sends
<1>2. NoneOf(toMain[w], "updateItems") /\ o.active # NoRequest
  BY <1>1, TakeFirst DEF Inv, Channel
<1>3. /\ Coherent(q) /\ q.phase = o.phase /\ q.cache = o.cache
      /\ \/ q.active = NoRequest /\ Pending(q) = Pending(o)
         \/ q.active = Pending(o) /\ q.active # NoRequest /\ ~HasPending(q)
  <2>1. Coherent(o)
    BY DEF Inv, Nodes
  <2> HIDE DEF q
  <2>2. /\ Coherent(q) /\ q.phase = o.phase /\ q.cache = o.cache
        /\ \/ q.active = NoRequest /\ q.pendingInserts = o.pendingInserts
              /\ q.pendingDeletes = o.pendingDeletes
           \/ q.active = Pending(o) /\ q.active # NoRequest /\ q.pendingInserts = Empty
              /\ q.pendingDeletes = {} /\ o.queued
    BY <1>2, <2>1, FinishCoherent DEF q
  <2> QED
    BY <2>2 DEF Pending, HasPending, Empty
<1> HIDE DEF q
<1>4. st'[w] = q /\ \A n \in Node : n # w => st'[n] = st[n]
  BY <1>1, <1>3, NodeUpdate DEF Inv
<1>5. /\ toWindow'[w] = Tail(toWindow[w]) /\ st'[Main] = st[Main]
      /\ \A v \in Window : v # w => toWindow'[v] = toWindow[v] /\ toMain'[v] = toMain[v]
  BY <1>1, <1>4 DEF Inv, Traffic
<1>6. /\ \A v \in Window : Agreed(v) /\ (Attached(v) => st[Main].phase = "open")
      /\ Loading(w) /\ Requested(w)
  BY DEF Agreement, Agreed, Session
<1>7. /\ Requested(w)' /\ \A k \in Key : Coming(w, k)' = Coming(w, k)
      /\ NoneOf(toMain[w], "getItems") => NoneOf(toMain'[w], "getItems")
      /\ AtMostOne(toMain[w], "getItems") => AtMostOne(toMain'[w], "getItems")
  <2>1. CASE q.active = NoRequest
    <3>1. toMain' = toMain /\ ~Sending(w)
      BY <1>1, <1>2, <2>1 DEF Sending
    <3>2. Pending(q) = Pending(o)
      BY <1>3, <2>1
    <3>3. Requested(w)'
      BY <1>2, <3>1 DEF Requested, NoneOf
    <3>4. \A k \in Key : Coming(w, k)' = Coming(w, k)
      BY <1>4, <1>5, <3>1, <3>2 DEF Coming, Sending
    <3> QED
      BY <3>1, <3>3, <3>4
  <2>2. CASE q.active # NoRequest
    <3>1. toMain'[w] = Append(toMain[w], msg)
      BY <1>1, <2>2 DEF Inv, Traffic
    <3>2. q.active = Pending(o) /\ ~HasPending(q)
      BY <1>3, <2>2
    <3> QED
      BY <1>2, <1>3, <1>4, <1>5, <2>2, <3>1, <3>2, HandedOver
  <2> QED
    BY <2>1, <2>2
<1>8. Loading(w)'
  BY <1>1, <1>3, <1>4, <1>5, <1>6, <1>7, LoadingTaken
<1>9. ASSUME NEW k \in Key PROVE View(w, k)'
  <2>1. ~Carries(Head(toWindow[w]), k)
    BY DEF Carries
  <2>2. Attached(w)' => Attached(w)
    BY <1>3, <1>4 DEF Attached
  <2> QED
    BY <1>1, <1>3, <1>4, <1>5, <1>6, <1>7, <2>1, <2>2, NewsTaken
<1>10. Session(w)'
  BY <1>3, <1>4, <1>5, <1>6, <1>7, <1>8 DEF Session, Attached
<1>11. ASSUME NEW v \in Window, v # w PROVE Agreed(v)'
  BY <1>1, <1>4, <1>5, <1>6, <1>11, Bystander
<1> QED
  BY <1>9, <1>10, <1>11 DEF Agreement, Agreed

\* A window loads its items, learns of changes, and of the end of its update.
LEMMA WindowReceivesAgrees ==
    ASSUME Inv, Agreement, NEW w \in Window, WindowReceives(w)
    PROVE  Agreement'
<1> DEFINE m == Head(toWindow[w])
           o == st[w]
<1> USE NodeTypes
<1>1. Coherent(o) /\ o \in StorageRecord /\ st \in [Node -> StorageRecord]
  BY DEF Inv, Nodes
<1>2. /\ toWindow[w] # <<>>
      /\ toWindow' = [toWindow EXCEPT ![w] = Tail(toWindow[w])]
      /\ changed' = changed
  BY DEF WindowReceives
<1>3. m \in Answer
  BY <1>2, TakeFirst
<1>4. st = [st EXCEPT ![w] = o]
  BY <1>1
<1>5. CASE UNCHANGED <<st, toMain>> /\ o.phase # "open"
  BY <1>1, <1>2, <1>4, <1>5, OtherTaken
<1>6. CASE m.kind = "items" /\ o.phase = "loading"
  <2> DEFINE q == [o EXCEPT !.cache = m.items, !.phase = "open"]
  <2>1. st' = [st EXCEPT ![w] = q] /\ toMain' = toMain
    BY <1>1, <1>6 DEF WindowReceives
  <2>2. m.items \in Items /\ \A k \in Key : Carries(m, k)
    BY <1>3, <1>6 DEF Answer, Carries
  <2> HIDE DEF m
  <2>3. /\ q \in StorageRecord /\ q.phase = "open" /\ q.active = o.active /\ q.cache = m.items
        /\ q.queued = o.queued /\ q.last = o.last /\ q.deferred = o.deferred
        /\ q.pendingInserts = o.pendingInserts /\ q.pendingDeletes = o.pendingDeletes
    BY <1>1, <2>2 DEF StorageRecord
  <2> HIDE DEF q
  <2>4. Coherent(q) /\ Pending(q) = Pending(o)
    BY <1>1, <1>6, <2>3 DEF Coherent, HasPending, Pending
  <2>5. st[w].phase = "loading" /\ Head(toWindow[w]).kind = "items"
    BY <1>6 DEF m
  <2>6. \A k \in Key : /\ Carries(Head(toWindow[w]), k)
                       /\ q.cache[k] = Head(toWindow[w]).items[k]
    BY <2>2, <2>3 DEF m
  <2> QED
    BY <1>2, <2>1, <2>3, <2>4, <2>5, <2>6, OtherTaken
<1>7. CASE m.kind = "changed" /\ o.phase \in {"loading", "open"}
  <2> DEFINE q == AcceptExternal(o, m.items)
  <2>1. st' = [st EXCEPT ![w] = q] /\ toMain' = toMain
    BY <1>1, <1>7 DEF WindowReceives
  <2>2. m.items \in Change /\ \A k \in Key : Carries(m, k) <=> k \in DOMAIN m.items
    BY <1>3, <1>7 DEF Answer, Carries
  <2>3. Coherent(q)
    BY <1>1, <2>2, AcceptExternalCoherent
  <2>4. /\ q.phase = o.phase /\ q.active = o.active /\ Pending(q) = Pending(o)
        /\ q.cache = [k \in Key |-> IF k \in DOMAIN m.items THEN m.items[k] ELSE o.cache[k]]
    BY <1>1 DEF AcceptExternal, StorageRecord, Pending
  <2> HIDE DEF q
  <2>5. \A k \in Key : q.phase = "open" =>
              IF Carries(Head(toWindow[w]), k) THEN q.cache[k] = Head(toWindow[w]).items[k]
              ELSE st[w].phase = "open" /\ q.cache[k] = st[w].cache[k]
    BY <2>2, <2>4
  <2> HIDE DEF m
  <2> QED
    BY <1>2, <2>1, <2>3, <2>4, <2>5, OtherTaken
<1>8. CASE m.kind = "done" /\ o.phase # "dead"
  BY <1>8, UpdateDone
<1>9. m.kind = "items" => o.phase # "open"
  <2>1. NoneOf(toWindow[w], "items") => m.kind # "items"
    BY <1>2, TailKind DEF Inv, Traffic
  <2> QED
    BY <2>1 DEF Agreement, Agreed, Session, Loading
<1> QED
  BY <1>5, <1>6, <1>7, <1>8, <1>9 DEF WindowReceives

\* Every step keeps windows and main process in agreement.
LEMMA NextAgreement ==
    ASSUME Inv, Agreement, [Next]_vars
    PROVE  Agreement'
<1>1. CASE UNCHANGED vars
  <2>1. UNCHANGED <<st, toMain, toWindow, changed>>
    BY <1>1 DEF vars
  <2> SUFFICES ASSUME NEW w \in Window PROVE Agreed(w)'
    BY DEF Agreement
  <2>2. Agreed(w) /\ (Attached(w) => st[Main].phase = "open")
    BY DEF Agreement, Agreed, Session
  <2> QED
    BY <2>1, <2>2, Bystander
<1>2. ASSUME NEW n \in Writer, NEW k \in Key, NEW v \in Value, Write(n, k, v)
      PROVE  Agreement'
  BY <1>2, WriteAgrees, StorageAssumption DEF Node
<1>3. ASSUME NEW n \in Flusher, Flush(n) \/ WhenFlushed(n)
      PROVE  Agreement'
  BY <1>3, FlushAgrees, WhenFlushedAgrees, StorageAssumption DEF Node
<1>4. ASSUME NEW n \in Node, FlushTimer(n) \/ Close(n)
      PROVE  Agreement'
  BY <1>4, FlushTimerAgrees, CloseAgrees
<1>5. ASSUME NEW w \in Window,
             \/ OpenWindow(w) \/ MainReceives(w) \/ WindowReceives(w)
             \/ CloseWindowDatabase(w) \/ WindowDies(w)
      PROVE  Agreement'
  BY <1>5, OpenWindowAgrees, MainReceivesAgrees, WindowReceivesAgrees,
     CloseWindowDatabaseAgrees, WindowDiesAgrees
<1>6. CASE DiskUpdates \/ DiskFails \/ ConnectionFails \/ Broadcast \/ CloseDatabase
  BY <1>6, DiskAgrees, ConnectionFailsAgrees, BroadcastAgrees, CloseDatabaseAgrees
<1> QED
  BY <1>1, <1>2, <1>3, <1>4, <1>5, <1>6 DEF Next

\* When everything has been delivered, what was coming has come.
LEMMA AgreementConverged ==
    ASSUME Inv, Agreement
    PROVE  Converged
<1> SUFFICES ASSUME Quiet, NEW w \in Window, st[w].phase = "open"
             PROVE  st[w].cache = st[Main].cache
  BY DEF Converged
<1> USE NodeTypes
<1>1. st[w].cache \in Items /\ st[Main].cache \in Items
  BY DEF Inv, Nodes, StorageRecord
<1>2. ~HasPending(st[w]) /\ toMain[w] = <<>> /\ toWindow[w] = <<>> /\ changed = {}
  BY DEF Quiet
<1>3. ~Sending(w) /\ \A k \in Key : NoNews(toWindow[w], k)
  <2>1. Len(toMain[w]) = 0 /\ Len(toWindow[w]) = 0
    BY <1>2
  <2> QED
    BY <2>1 DEF Sending, NoneOf, NoNews
<1>4. ASSUME NEW k \in Key PROVE st[w].cache[k] = st[Main].cache[k]
  <2>1. Coming(w, k) = st[Main].cache[k]
    BY <1>2, <1>3, NothingApplied DEF Coming
  <2>2. View(w, k)
    BY DEF Agreement, Agreed
  <2> QED
    BY <1>2, <1>3, <2>1, <2>2 DEF View
<1> QED
  BY <1>1, <1>4 DEF Items

\* Whatever the order in which windows wrote, flushed, opened and took the
\* change events, each of them shows what the main process holds as soon as
\* nothing is pending or on its way: acceptExternal overwrites a value that is
\* still pending, but then a later event brings that value back.
THEOREM WindowsAgree == Spec => []Converged
<1>1. Init => Agreement
  BY InitAgreement
<1>2. Inv /\ Agreement /\ [Next]_vars => Agreement'
  BY NextAgreement
<1>3. Inv /\ Agreement => Converged
  BY AgreementConverged
<1> QED
  BY <1>1, <1>2, <1>3, Invariance, PTL DEF Spec
=============================================================================
