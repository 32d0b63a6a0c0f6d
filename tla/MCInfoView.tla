----------------------------- MODULE MCInfoView -----------------------------
(* Two clients, so that one fails while the user is with the other, one RPC  *)
(* session at a time, and two subscriptions to a method.                      *)
EXTENDS InfoView, TLC

Clients == Permutations(Client)
=============================================================================
