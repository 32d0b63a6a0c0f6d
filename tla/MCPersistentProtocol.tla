------------------------ MODULE MCPersistentProtocol ------------------------
(* The instances of PersistentProtocol that TLC checks. *)
EXTENDS PersistentProtocol, TLC

TwoAndOne == (Client :> 2) @@ (Server :> 1)

\* The behaviours in which both ends together send at most two messages.
TwoInAll == Len(sent[Client]) + Len(sent[Server]) <= 2
FewSpec == Init /\ [][Next /\ TwoInAll']_vars
FewFairSpec == FewSpec /\ Fairness

=============================================================================
