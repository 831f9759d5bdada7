------------------------------- MODULE MCAgent -------------------------------
(* An instance of Agent for TLC: two peers and one ping slot, so that the  *)
(* pool is full with the second peer waiting.                              *)
EXTENDS Agent

CONSTANTS p1, p2, ifaceX

Peering(id, asn, iface) ==
  [id |-> id, asn |-> asn, cfg |-> "full", iface |-> iface, file |-> Unset]

TwoComplete == {Peering(p1, 1, Unset), Peering(p2, 2, ifaceX)}

ASSUME NamesStable /\ NamesUnique
==============================================================================
