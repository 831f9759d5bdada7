--------------------------- MODULE MCPeerLifecycle ---------------------------
(* Instances of PeerLifecycle for TLC. *)
EXTENDS PeerLifecycle

CONSTANTS p1, p2, ifaceX

Peering(id, asn, cfg, iface) ==
  [id |-> id, asn |-> asn, cfg |-> cfg, iface |-> iface, file |-> Unset]

(* Two peers, each with or without its key and its endpoint.  The first    *)
(* may come without an ASN; the second lives on an interface the center    *)
(* named.                                                                  *)
TwoPeers ==
  {Peering(p1, 0, "full", Unset)}
    \cup {Peering(p1, 1, cfg, Unset) : cfg \in Cfgs}
    \cup {Peering(p2, 2, cfg, ifaceX) : cfg \in Cfgs}

ASSUME (Peerings = TwoPeers) => NamesStable /\ NamesApart

(* Two complete peers, and the lists the center may settle on. *)
TwoComplete ==
  {Peering(p1, 1, "full", Unset), Peering(p2, 2, "full", ifaceX)}

Settled == {TwoComplete, {Peering(p1, 1, "full", Unset)}}

(* One peering deleted and created again by the center: a new id, the same *)
(* ASN.                                                                    *)
Recreated ==
  {Peering(p1, 1, "full", Unset), Peering(p2, 1, "full", Unset)}

AllFaults ==
  {"io", "wgUp", "wgDown", "birdCheck", "birdReload", "store", "crash", "reboot"}
=============================================================================
