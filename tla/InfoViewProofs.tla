--------------------------- MODULE InfoViewProofs ---------------------------
(* The properties of InfoView, for any number of clients, of sessions and of  *)
(* subscriptions.                                                             *)
EXTENDS InfoView, TLAPS

\* A handler waits for a page, and a page has closed with its subscriptions.
Closed == ~panel => count = 0 /\ Waiting = {}

\* A handler that nothing has overtaken finds its client as the event left it.
Unhurried(c) ==
    /\ stopped[c] # "no" => client[c] # "up" /\ restarted[c] # "clear"
    /\ restarted[c] = "clear" => client[c] # "crashed"

\* Once the handlers of c have ended, clientsFailed tells whether c crashed.
Remembered(c) == ~Clashes(c) =>
    /\ client[c] = "crashed" => c \in clientsFailed
    /\ client[c] = "up" => c \notin clientsFailed

\* The page shows that a running server has stopped only until a handler sends
\* the position, or when the server counts as failed.
ShownForReason ==
    panel /\ focus \in Client /\ client[focus] = "up" /\ shown = "stopped" =>
        \/ focus \in clientsFailed
        \/ restarted[focus] = "init"
        \/ \E c \in Client : stopped[c] = "told"

\* The inductive invariant. What the page shows and what clientsFailed has depend
\* on how far the handlers are, so the runs' properties are not inductive alone.
IInv ==
    /\ TypeOK
    /\ Closed
    /\ \A c \in Client \ hurried : Unhurried(c) /\ Remembered(c)
    /\ ShownForReason
    /\ SessionsEndWithPanel
    /\ SessionsOfServer
    /\ EveryoneHeard

-----------------------------------------------------------------------------
\* Every action keeps the types.
LEMMA TypeStep ==
    ASSUME TypeOK, [Next]_vars
    PROVE  TypeOK'
<1> USE InfoViewAssumption DEF InfoViewAssumption, TypeOK
<1>1. CASE OpenPreview
    BY <1>1 DEF OpenPreview
<1>2. CASE ClosePanel
  <2>1. 0 \in 0..MaxCount
      BY InfoViewAssumption DEF InfoViewAssumption
  <2>2. sessions' \in [Session -> {None} \cup
               [client : Client, state : {"connecting", "live", "dead"}]]
      BY <1>2 DEF ClosePanel, Cleared
  <2>3. stopped' \in [Client -> {"no", "told", "position"}]
      BY <1>2 DEF ClosePanel
  <2>4. restarted' \in [Client -> {"no", "clear", "init"}]
      BY <1>2 DEF ClosePanel
  <2>5. hurried' \subseteq Client
      BY <1>2 DEF ClosePanel, Waiting
  <2> QED
      BY <1>2, <2>1, <2>2, <2>3, <2>4, <2>5 DEF ClosePanel
<1>3. CASE Subscribe
    BY <1>3 DEF Subscribe, Listed
<1>4. CASE Unsubscribe
    BY <1>4 DEF Unsubscribe
<1>5. CASE MovesCursor
    BY <1>5 DEF MovesCursor, Position, Listed
<1>6. CASE \E s \in Session : SessionConnected(s)
    BY <1>6 DEF SessionConnected, Kept
<1>7. CASE \E s \in Session : CloseRpcSession(s)
    BY <1>7 DEF CloseRpcSession, Kept
<1>8. CASE \E s \in Session : \E c \in Client : CreateRpcSession(s, c)
    BY <1>8 DEF CreateRpcSession, Takes
<1>9. CASE \E c \in Client : AddClient(c)
    BY <1>9 DEF AddClient, Becomes
<1>10. CASE \E c \in Client : ServerRuns(c)
    BY <1>10 DEF ServerRuns, Becomes
<1>11. CASE \E c \in Client : Restarted(c)
    BY <1>11 DEF Restarted, Becomes, SessionsCleared, Kept, HeardToo, Clashes
<1>12. CASE \E c \in Client : RestartedCleared(c)
    BY <1>12 DEF RestartedCleared
<1>13. CASE \E c \in Client : RestartedInit(c)
    BY <1>13 DEF RestartedInit, Takes, Position, Listed
<1>14. CASE \E c \in Client : ServerCrashes(c)
    BY <1>14 DEF ServerCrashes, Becomes, ProcessGone, Kept, StoppedBegins, Position, Listed, Clashes
<1>15. CASE \E c \in Client : StoppedTold(c)
    BY <1>15 DEF StoppedTold, Position, Listed
<1>16. CASE \E c \in Client : StoppedRemembered(c)
    BY <1>16 DEF StoppedRemembered
<1>17. CASE \E c \in Client : Stop(c)
    BY <1>17 DEF Stop, Becomes, ProcessGone, Kept
<1>18. CASE \E c \in Client : RemoveClient(c)
    BY <1>18 DEF RemoveClient, Removed, Becomes
<1>19. CASE \E c \in Client : StartFails(c)
    BY <1>19 DEF StartFails, Removed, Becomes, StoppedBegins, Position, Listed, Clashes
<1>20. CASE UNCHANGED vars
    BY <1>20 DEF vars
<1> QED
    BY <1>1, <1>2, <1>3, <1>4, <1>5, <1>6, <1>7, <1>8, <1>9, <1>10,
       <1>11, <1>12, <1>13, <1>14, <1>15, <1>16, <1>17, <1>18, <1>19, <1>20 DEF Next

\* Sessions are kept for a panel, and for the server that runs.
LEMMA SessionStep ==
    ASSUME TypeOK, SessionsEndWithPanel, SessionsOfServer, [Next]_vars
    PROVE  SessionsEndWithPanel' /\ SessionsOfServer'
<1> USE InfoViewAssumption DEF TypeOK, SessionsEndWithPanel, SessionsOfServer, Kept
<1>1. CASE OpenPreview
    BY <1>1 DEF OpenPreview
<1>2. CASE ClosePanel
    BY <1>2 DEF ClosePanel, Cleared, Waiting
<1>3. CASE Subscribe
    BY <1>3 DEF Subscribe, Listed
<1>4. CASE Unsubscribe
    BY <1>4 DEF Unsubscribe
<1>5. CASE MovesCursor
    BY <1>5 DEF MovesCursor, Position, Listed
<1>6. CASE \E s \in Session : SessionConnected(s)
    BY <1>6 DEF SessionConnected
<1>7. CASE \E s \in Session : CloseRpcSession(s)
    BY <1>7 DEF CloseRpcSession
<1>8. CASE \E s \in Session : \E c \in Client : CreateRpcSession(s, c)
    BY <1>8 DEF CreateRpcSession, Takes
<1>9. CASE \E c \in Client : AddClient(c)
    BY <1>9 DEF AddClient, Becomes
<1>10. CASE \E c \in Client : ServerRuns(c)
    BY <1>10 DEF ServerRuns, Becomes
<1>11. CASE \E c \in Client : Restarted(c)
    BY <1>11 DEF Restarted, Becomes, SessionsCleared, HeardToo, Clashes
<1>12. CASE \E c \in Client : RestartedCleared(c)
    BY <1>12 DEF RestartedCleared
<1>13. CASE \E c \in Client : RestartedInit(c)
    BY <1>13 DEF RestartedInit, Takes, Position, Listed
<1>14. CASE \E c \in Client : ServerCrashes(c)
    BY <1>14 DEF ServerCrashes, Becomes, ProcessGone, StoppedBegins, Position, Listed, Clashes
<1>15. CASE \E c \in Client : StoppedTold(c)
    BY <1>15 DEF StoppedTold, Position, Listed
<1>16. CASE \E c \in Client : StoppedRemembered(c)
    BY <1>16 DEF StoppedRemembered
<1>17. CASE \E c \in Client : Stop(c)
    BY <1>17 DEF Stop, Becomes, ProcessGone
<1>18. CASE \E c \in Client : RemoveClient(c)
    BY <1>18 DEF RemoveClient, Removed, Becomes
<1>19. CASE \E c \in Client : StartFails(c)
    BY <1>19 DEF StartFails, Removed, Becomes, StoppedBegins, Position, Listed, Clashes
<1>20. CASE UNCHANGED vars
    BY <1>20 DEF vars
<1> QED
    BY <1>1, <1>2, <1>3, <1>4, <1>5, <1>6, <1>7, <1>8, <1>9, <1>10,
       <1>11, <1>12, <1>13, <1>14, <1>15, <1>16, <1>17, <1>18, <1>19, <1>20 DEF Next

\* Whoever comes up is listened to while the page has subscriptions.
LEMMA HeardStep ==
    ASSUME TypeOK, EveryoneHeard, [Next]_vars
    PROVE  EveryoneHeard'
<1> USE DEF TypeOK, EveryoneHeard
<1>1. CASE OpenPreview
    BY <1>1 DEF OpenPreview
<1>2. CASE ClosePanel
    BY <1>2 DEF ClosePanel, Cleared, Kept, Waiting
<1>3. CASE Subscribe
    BY <1>3 DEF Subscribe, Listed
<1>4. CASE Unsubscribe
    BY <1>4 DEF Unsubscribe
<1>5. CASE MovesCursor
    BY <1>5 DEF MovesCursor, Position, Listed
<1>6. CASE \E s \in Session : SessionConnected(s)
    BY <1>6 DEF SessionConnected, Kept
<1>7. CASE \E s \in Session : CloseRpcSession(s)
    BY <1>7 DEF CloseRpcSession, Kept
<1>8. CASE \E s \in Session : \E c \in Client : CreateRpcSession(s, c)
    BY <1>8 DEF CreateRpcSession, Takes
<1>9. CASE \E c \in Client : AddClient(c)
    BY <1>9 DEF AddClient, Becomes
<1>10. CASE \E c \in Client : ServerRuns(c)
    BY <1>10 DEF ServerRuns, Becomes
<1>11. CASE \E c \in Client : Restarted(c)
    BY <1>11 DEF Restarted, Becomes, SessionsCleared, Kept, HeardToo, Clashes
<1>12. CASE \E c \in Client : RestartedCleared(c)
    BY <1>12 DEF RestartedCleared
<1>13. CASE \E c \in Client : RestartedInit(c)
    BY <1>13 DEF RestartedInit, Takes, Position, Listed
<1>14. CASE \E c \in Client : ServerCrashes(c)
    BY <1>14 DEF ServerCrashes, Becomes, ProcessGone, Kept, StoppedBegins, Position, Listed, Clashes
<1>15. CASE \E c \in Client : StoppedTold(c)
    BY <1>15 DEF StoppedTold, Position, Listed
<1>16. CASE \E c \in Client : StoppedRemembered(c)
    BY <1>16 DEF StoppedRemembered
<1>17. CASE \E c \in Client : Stop(c)
    BY <1>17 DEF Stop, Becomes, ProcessGone, Kept
<1>18. CASE \E c \in Client : RemoveClient(c)
    BY <1>18 DEF RemoveClient, Removed, Becomes
<1>19. CASE \E c \in Client : StartFails(c)
    BY <1>19 DEF StartFails, Removed, Becomes, StoppedBegins, Position, Listed, Clashes
<1>20. CASE UNCHANGED vars
    BY <1>20 DEF vars
<1> QED
    BY <1>1, <1>2, <1>3, <1>4, <1>5, <1>6, <1>7, <1>8, <1>9, <1>10,
       <1>11, <1>12, <1>13, <1>14, <1>15, <1>16, <1>17, <1>18, <1>19, <1>20 DEF Next

\* Without a page there is nothing to wait for.
LEMMA ClosedStep ==
    ASSUME TypeOK, Closed, [Next]_vars
    PROVE  Closed'
<1> USE InfoViewAssumption DEF TypeOK, Closed, Waiting
<1>1. CASE OpenPreview
    BY <1>1 DEF OpenPreview
<1>2. CASE ClosePanel
    BY <1>2 DEF ClosePanel, Cleared, Kept
<1>3. CASE Subscribe
    BY <1>3 DEF Subscribe, Listed
<1>4. CASE Unsubscribe
    BY <1>4 DEF Unsubscribe
<1>5. CASE MovesCursor
    BY <1>5 DEF MovesCursor, Position, Listed
<1>6. CASE \E s \in Session : SessionConnected(s)
    BY <1>6 DEF SessionConnected, Kept
<1>7. CASE \E s \in Session : CloseRpcSession(s)
    BY <1>7 DEF CloseRpcSession, Kept
<1>8. CASE \E s \in Session : \E c \in Client : CreateRpcSession(s, c)
    BY <1>8 DEF CreateRpcSession, Takes
<1>9. CASE \E c \in Client : AddClient(c)
    BY <1>9 DEF AddClient, Becomes
<1>10. CASE \E c \in Client : ServerRuns(c)
    BY <1>10 DEF ServerRuns, Becomes
<1>11. CASE \E c \in Client : Restarted(c)
    BY <1>11 DEF Restarted, Becomes, SessionsCleared, Kept, HeardToo, Clashes
<1>12. CASE \E c \in Client : RestartedCleared(c)
    BY <1>12 DEF RestartedCleared
<1>13. CASE \E c \in Client : RestartedInit(c)
    BY <1>13 DEF RestartedInit, Takes, Position, Listed
<1>14. CASE \E c \in Client : ServerCrashes(c)
    BY <1>14 DEF ServerCrashes, Becomes, ProcessGone, Kept, StoppedBegins, Position, Listed, Clashes
<1>15. CASE \E c \in Client : StoppedTold(c)
    BY <1>15 DEF StoppedTold, Position, Listed
<1>16. CASE \E c \in Client : StoppedRemembered(c)
    BY <1>16 DEF StoppedRemembered
<1>17. CASE \E c \in Client : Stop(c)
    BY <1>17 DEF Stop, Becomes, ProcessGone, Kept
<1>18. CASE \E c \in Client : RemoveClient(c)
    BY <1>18 DEF RemoveClient, Removed, Becomes
<1>19. CASE \E c \in Client : StartFails(c)
    BY <1>19 DEF StartFails, Removed, Becomes, StoppedBegins, Position, Listed, Clashes
<1>20. CASE UNCHANGED vars
    BY <1>20 DEF vars
<1> QED
    BY <1>1, <1>2, <1>3, <1>4, <1>5, <1>6, <1>7, <1>8, <1>9, <1>10,
       <1>11, <1>12, <1>13, <1>14, <1>15, <1>16, <1>17, <1>18, <1>19, <1>20 DEF Next

\* The handlers of a client, when none is lost or overtaken.
LEMMA HandlerStep ==
    ASSUME TypeOK, Closed, [Next]_vars, NEW d \in Client,
           d \notin hurried => Unhurried(d) /\ Remembered(d)
    PROVE  d \notin hurried' => Unhurried(d)' /\ Remembered(d)'
<1> USE InfoViewAssumption DEF TypeOK, Closed, Waiting, Unhurried, Remembered, Clashes
<1>1. CASE OpenPreview
    BY <1>1 DEF OpenPreview
<1>2. CASE ClosePanel
    BY <1>2 DEF ClosePanel, Cleared, Kept
<1>3. CASE Subscribe
    BY <1>3 DEF Subscribe, Listed
<1>4. CASE Unsubscribe
    BY <1>4 DEF Unsubscribe
<1>5. CASE MovesCursor
    BY <1>5 DEF MovesCursor, Position, Listed
<1>6. CASE \E s \in Session : SessionConnected(s)
    BY <1>6 DEF SessionConnected, Kept
<1>7. CASE \E s \in Session : CloseRpcSession(s)
    BY <1>7 DEF CloseRpcSession, Kept
<1>8. CASE \E s \in Session : \E c \in Client : CreateRpcSession(s, c)
    BY <1>8 DEF CreateRpcSession, Takes
<1>9. CASE \E c \in Client : AddClient(c)
    BY <1>9 DEF AddClient, Becomes
<1>10. CASE \E c \in Client : ServerRuns(c)
    BY <1>10 DEF ServerRuns, Becomes
<1>11. CASE \E c \in Client : Restarted(c)
    BY <1>11 DEF Restarted, Becomes, SessionsCleared, Kept, HeardToo
<1>12. CASE \E c \in Client : RestartedCleared(c)
    BY <1>12 DEF RestartedCleared
<1>13. CASE \E c \in Client : RestartedInit(c)
    BY <1>13 DEF RestartedInit, Takes, Position, Listed
<1>14. CASE \E c \in Client : ServerCrashes(c)
    BY <1>14 DEF ServerCrashes, Becomes, ProcessGone, Kept, StoppedBegins, Position, Listed
<1>15. CASE \E c \in Client : StoppedTold(c)
    BY <1>15 DEF StoppedTold, Position, Listed
<1>16. CASE \E c \in Client : StoppedRemembered(c)
    BY <1>16 DEF StoppedRemembered
<1>17. CASE \E c \in Client : Stop(c)
    BY <1>17 DEF Stop, Becomes, ProcessGone, Kept
<1>18. CASE \E c \in Client : RemoveClient(c)
    BY <1>18 DEF RemoveClient, Removed, Becomes
<1>19. CASE \E c \in Client : StartFails(c)
    BY <1>19 DEF StartFails, Removed, Becomes, StoppedBegins, Position, Listed
<1>20. CASE UNCHANGED vars
    BY <1>20 DEF vars
<1> QED
    BY <1>1, <1>2, <1>3, <1>4, <1>5, <1>6, <1>7, <1>8, <1>9, <1>10,
       <1>11, <1>12, <1>13, <1>14, <1>15, <1>16, <1>17, <1>18, <1>19, <1>20 DEF Next

\* The page shows a stop for a reason.
LEMMA ShownStep ==
    ASSUME TypeOK, Closed, ShownForReason, [Next]_vars
    PROVE  ShownForReason'
<1> USE InfoViewAssumption DEF TypeOK, Closed, Waiting, ShownForReason
<1>1. CASE OpenPreview
    BY <1>1 DEF OpenPreview
<1>2. CASE ClosePanel
    BY <1>2 DEF ClosePanel, Cleared, Kept
<1>3. CASE Subscribe
    BY <1>3 DEF Subscribe, Listed
<1>4. CASE Unsubscribe
    BY <1>4 DEF Unsubscribe
<1>5. CASE MovesCursor
    BY <1>5 DEF MovesCursor, Position, Listed
<1>6. CASE \E s \in Session : SessionConnected(s)
    BY <1>6 DEF SessionConnected, Kept
<1>7. CASE \E s \in Session : CloseRpcSession(s)
    BY <1>7 DEF CloseRpcSession, Kept
<1>8. CASE \E s \in Session : \E c \in Client : CreateRpcSession(s, c)
    BY <1>8 DEF CreateRpcSession, Takes
<1>9. CASE \E c \in Client : AddClient(c)
    BY <1>9 DEF AddClient, Becomes
<1>10. CASE \E c \in Client : ServerRuns(c)
    BY <1>10 DEF ServerRuns, Becomes
<1>11. CASE \E c \in Client : Restarted(c)
    BY <1>11 DEF Restarted, Becomes, SessionsCleared, Kept, HeardToo, Clashes
<1>12. CASE \E c \in Client : RestartedCleared(c)
    BY <1>12 DEF RestartedCleared
<1>13. CASE \E c \in Client : RestartedInit(c)
    BY <1>13 DEF RestartedInit, Takes, Position, Listed
<1>14. CASE \E c \in Client : ServerCrashes(c)
    BY <1>14 DEF ServerCrashes, Becomes, ProcessGone, Kept, StoppedBegins, Position, Listed, Clashes
<1>15. CASE \E c \in Client : StoppedTold(c)
    BY <1>15 DEF StoppedTold, Position, Listed
<1>16. CASE \E c \in Client : StoppedRemembered(c)
    BY <1>16 DEF StoppedRemembered
<1>17. CASE \E c \in Client : Stop(c)
    BY <1>17 DEF Stop, Becomes, ProcessGone, Kept
<1>18. CASE \E c \in Client : RemoveClient(c)
    BY <1>18 DEF RemoveClient, Removed, Becomes
<1>19. CASE \E c \in Client : StartFails(c)
    BY <1>19 DEF StartFails, Removed, Becomes, StoppedBegins, Position, Listed, Clashes
<1>20. CASE UNCHANGED vars
    BY <1>20 DEF vars
<1> QED
    BY <1>1, <1>2, <1>3, <1>4, <1>5, <1>6, <1>7, <1>8, <1>9, <1>10,
       <1>11, <1>12, <1>13, <1>14, <1>15, <1>16, <1>17, <1>18, <1>19, <1>20 DEF Next

\* Initially the invariant holds.
LEMMA Initially == Init => IInv
<1> SUFFICES ASSUME Init
             PROVE  IInv
    OBVIOUS
<1>1. TypeOK
  <2>1. 0 \in 0..MaxCount
      BY InfoViewAssumption DEF InfoViewAssumption
  <2>2. client \in [Client -> {"absent", "off", "running", "up", "crashed"}]
      BY DEF Init
  <2>3. sessions \in [Session -> {None} \cup
              [client : Client, state : {"connecting", "live", "dead"}]]
      BY DEF Init
  <2>4. stopped \in [Client -> {"no", "told", "position"}]
      BY DEF Init
  <2>5. restarted \in [Client -> {"no", "clear", "init"}]
      BY DEF Init
  <2> QED
      BY <2>1, <2>2, <2>3, <2>4, <2>5 DEF Init, TypeOK
<1>2. Closed /\ \A c \in Client : Unhurried(c) /\ Remembered(c)
    BY DEF Init, Closed, Waiting, Unhurried, Remembered, Clashes
<1>3. ShownForReason /\ SessionsEndWithPanel /\ SessionsOfServer /\ EveryoneHeard
    BY DEF Init, ShownForReason, SessionsEndWithPanel, SessionsOfServer, Kept, EveryoneHeard
<1> QED
    BY <1>1, <1>2, <1>3 DEF IInv

\* Every step keeps the invariant.
LEMMA Inductively == IInv /\ [Next]_vars => IInv'
<1> SUFFICES ASSUME IInv, [Next]_vars
             PROVE  IInv'
    OBVIOUS
<1>1. TypeOK'
    BY TypeStep DEF IInv
<1>2. Closed'
    BY ClosedStep DEF IInv
<1>3. ASSUME NEW c \in Client
      PROVE  c \notin hurried' => Unhurried(c)' /\ Remembered(c)'
    BY HandlerStep DEF IInv
<1>4. ShownForReason'
    BY ShownStep DEF IInv
<1>5. SessionsEndWithPanel' /\ SessionsOfServer'
    BY SessionStep DEF IInv
<1>6. EveryoneHeard'
    BY HeardStep DEF IInv
<1> QED
    BY <1>1, <1>2, <1>3, <1>4, <1>5, <1>6 DEF IInv

\* The inductive invariant holds of every behaviour.
THEOREM Invariance == Spec => []IInv
BY Initially, Inductively, PTL DEF Spec

\* Every variable keeps its type.
THEOREM TypeCorrect == Spec => []TypeOK
<1>1. IInv => TypeOK
    BY InfoViewAssumption DEF IInv
<1> QED
    BY <1>1, Invariance, PTL

\* No session is kept without a panel, whenever its connection was asked for and
\* answered.
THEOREM SessionsEnd == Spec => []SessionsEndWithPanel
<1>1. IInv => SessionsEndWithPanel
    BY InfoViewAssumption DEF IInv
<1> QED
    BY <1>1, Invariance, PTL

\* A server that has been announced has no session of its predecessor.
THEOREM SessionsCurrent == Spec => []SessionsOfServer
<1>1. IInv => SessionsOfServer
    BY InfoViewAssumption DEF IInv
<1> QED
    BY <1>1, Invariance, PTL

\* A page with subscriptions hears of every client that is up.
THEOREM Heard == Spec => []EveryoneHeard
<1>1. IInv => EveryoneHeard
    BY InfoViewAssumption DEF IInv
<1> QED
    BY <1>1, Invariance, PTL

\* clientsFailed is right about every client whose handlers ended in order.
THEOREM Failures == Spec => []FailedTruth
<1>1. IInv => FailedTruth
    BY InfoViewAssumption DEF IInv, FailedTruth, Remembered
<1> QED
    BY <1>1, Invariance, PTL

\* The page does not go on to show that a running server has stopped.
THEOREM Shown == Spec => []NotShownStopped
<1>1. IInv => NotShownStopped
    BY InfoViewAssumption
       DEF IInv, NotShownStopped, ShownForReason, Remembered, Clashes, Waiting, TypeOK
<1> QED
    BY <1>1, Invariance, PTL

=============================================================================
