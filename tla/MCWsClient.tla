----------------------------- MODULE MCWsClient -----------------------------
(* Instances of WsClient for TLC. *)
EXTENDS WsClient, TLC

CONSTANTS c1, c2

(* What may go wrong on the network and at the center. *)
NetFaults == {"dial", "break", "write", "late", "nack", "store", "command", "heartbeat"}

(* ... until it stops, with a shutdown at any time.  No commands: without  *)
(* them nothing fills the send buffer before the sync request.  No store   *)
(* errors: one that loses the server key fails every later key exchange.   *)
CalmingFaults == (NetFaults \ {"command", "store"}) \cup {"calm", "close"}

Symmetry == Permutations({c1, c2})
=============================================================================
