---------------------------- MODULE ReliableLink ----------------------------
(***************************************************************************)
(* What PersistentProtocol promises its users ("it will track messages and  *)
(* acks ... no messages are lost"): between the two ends run two queues, one *)
(* in each direction, from which messages leave in the order of sending,    *)
(* each exactly once, whatever happens to the sockets underneath.           *)
(***************************************************************************)
EXTENDS Sequences, Naturals

CONSTANTS Client, Server, Data, MaxSend

VARIABLES sent,   \* payloads sent by each end
          recv    \* payloads delivered to each end

End == {Client, Server}
Other(e) == IF e = Client THEN Server ELSE Client

Init ==
    /\ sent = [e \in End |-> <<>>]
    /\ recv = [e \in End |-> <<>>]

Send(e, d) ==
    /\ Len(sent[e]) < MaxSend[e]
    /\ sent' = [sent EXCEPT ![e] = Append(@, d)]
    /\ UNCHANGED recv

\* The oldest message that has not been delivered yet.
Deliver(e) ==
    /\ Len(recv[e]) < Len(sent[Other(e)])
    /\ recv' = [recv EXCEPT ![e] = Append(@, sent[Other(e)][Len(@) + 1])]
    /\ UNCHANGED sent

Next == \E e \in End : Deliver(e) \/ \E d \in Data : Send(e, d)

Spec == Init /\ [][Next]_<<sent, recv>>

=============================================================================
