----------------------------- MODULE ImportPeers -----------------------------
(***************************************************************************)
(* peers.import: the peerings found in the WireGuard and BIRD directories  *)
(* of a node, matched with each other and with the store                   *)
(* (handlePeersImportCommand and the two ScanPeers).                       *)
(*                                                                         *)
(* An interface name is a word and a number: <<"dn42", n>> and <<"wg", n>> *)
(* end in that number, <<"word", n>> contains no digit.  What may be       *)
(* missing is <<>>, or <<x>> if it is there.  Keys, endpoints, ports and   *)
(* addresses are copied along and left out.                                *)
(***************************************************************************)
EXTENDS Naturals, Sequences, FiniteSetsExt, Functions

(* A number moved left past the digits of n. *)
Pow10[n \in Nat] == IF n < 10 THEN 10 ELSE 10 * Pow10[n \div 10]

(* The first run of digits in the name: 42 and the ASN in dn42<ASN>, and 0 *)
(* in wg0.                                                                 *)
extractASNFromIface(name) ==
  CASE name[1] = "dn42" -> <<42 * Pow10[name[2]] + name[2]>>
    [] name[1] = "wg"   -> <<name[2]>>
    [] OTHER            -> <<>>

(* A loop over s that skips what is not in S. *)
Keep(r, x, S) == IF x \in S THEN Append(r, x) ELSE r
Kept(s, S) ==
  LET kept[n \in 0 .. Len(s)] == IF n = 0 THEN <<>> ELSE Keep(kept[n - 1], s[n], S)
  IN kept[Len(s)]

(* A directory is read in the order of its names, which are any. *)
Orders(entries) == Bijection(1 .. Cardinality(entries), entries)

(* wg.ScanPeers, of the configs [iface, comment, up]: the ASN is in the    *)
(* name or else in a comment, and only a live interface with a peer counts.*)
AsnOf(c) ==
  IF extractASNFromIface(c.iface) # <<>> THEN extractASNFromIface(c.iface) ELSE c.comment

WgScanPeers(confs) ==
  LET found == Kept(confs, {c \in Range(confs) : AsnOf(c) # <<>> /\ c.up})
  IN [i \in DOMAIN found |-> [iface |-> found[i].iface, asn |-> AsnOf(found[i])[1]]]

(* bird.ScanPeers, of the files [file, parses, iface, asn]. *)
BirdScanPeers(files) == Kept(files, {f \in Range(files) : f.parses})

(* bgpByIface and bgpByASN keep the last file; the interface goes first. *)
Match(bgps, w) ==
  LET byIface == {i \in DOMAIN bgps : bgps[i].iface = w.iface}
      byASN == {i \in DOMAIN bgps : bgps[i].asn = w.asn}
  IN IF byIface # {} THEN Max(byIface) ELSE IF byASN # {} THEN Max(byASN) ELSE 0

(* Seeded fault: the interface of the config is marked, not that of the    *)
(* file it was matched with.                                               *)
MatchedByIface(bgps, wgs) == {w.iface : w \in Range(wgs)}

MatchedBGP(bgps, wgs) ==
  {bgps[Match(bgps, w)].iface : w \in {v \in Range(wgs) : Match(bgps, v) # 0}}

(* The two kinds of entry of the answer. *)
Managed(bgps, w) ==
  LET m == Match(bgps, w)
  IN [asn |-> IF m = 0 THEN w.asn ELSE bgps[m].asn, iface |-> w.iface,
      file |-> IF m = 0 THEN <<>> ELSE bgps[m].file, managed |-> TRUE]

Unmanaged(b) == [asn |-> b.asn, iface |-> b.iface, file |-> b.file, managed |-> FALSE]

(* One entry for each scanned interface, then one for each BIRD file left  *)
(* over, in both cases of an ASN that is not tracked.                      *)
Import(wgs, bgps, tracked) ==
  LET left == Kept(bgps, {b \in Range(bgps) : b.iface \notin MatchedBGP(bgps, wgs)})
      all == [i \in DOMAIN wgs |-> Managed(bgps, wgs[i])]
             \o [i \in DOMAIN left |-> Unmanaged(left[i])]
  IN Kept(all, {e \in Range(all) : e.asn \notin tracked})

-----------------------------------------------------------------------------
(* The reference: a node is a set of peerings [asn, iface, comment, wg,    *)
(* sessions, birdIface]: with a WireGuard config ("up", "down") or without *)
(* ("none"), and a number of BIRD files, which name the interface          *)
(* birdIface.                                                              *)

Conf(p) == [iface |-> p.iface, comment |-> p.comment, up |-> p.wg = "up"]
ConfsOf(ps) == {Conf(p) : p \in {q \in ps : q.wg # "none"}}

File(p, n) ==
  [file |-> <<p.asn, n>>, parses |-> TRUE, iface |-> p.birdIface, asn |-> p.asn]
FilesOf(ps) == UNION {{File(p, n) : n \in 1 .. p.sessions} : p \in ps}

(* Peerings have an ASN and interface names of their own. *)
Distinct(ps) ==
  \A p, q \in ps :
    /\ p.sessions \in Nat
    /\ p # q => /\ p.asn # q.asn
                /\ {p.iface, p.birdIface} \cap {q.iface, q.birdIface} = {}

(* A live interface of which some ASN is known is one to adopt. *)
Live(p) == p.wg = "up" /\ AsnOf(Conf(p)) # <<>>

(* What cannot be told from the BIRD files is told by the name or comment. *)
WellNamed(p) ==
  Live(p) => \/ p.birdIface = p.iface /\ p.sessions > 0
             \/ AsnOf(Conf(p)) = <<p.asn>>

(* The entries due for a peering: one if it has a live interface, and else *)
(* one for each of its BIRD files.  That of an interface names one of the  *)
(* peering's own files, if it has any.                                     *)
Entries(p) == IF Live(p) THEN {0} ELSE 1 .. p.sessions

EntryFits(e, p, n) ==
  /\ e.asn = p.asn /\ (e.managed <=> Live(p))
  /\ e.iface = IF Live(p) THEN p.iface ELSE p.birdIface
  /\ IF Live(p) /\ p.sessions = 0 THEN e.file = <<>>
     ELSE \E k \in 1 .. p.sessions : e.file = <<p.asn, k>> /\ (Live(p) \/ k = n)

(* out holds every entry that is due exactly once, and no other. *)
ExactlyDue(out, ps, tracked) ==
  LET untracked == {p \in ps : p.asn \notin tracked}
  IN /\ \A k \in DOMAIN out : \E p \in untracked : \E n \in Entries(p) :
          EntryFits(out[k], p, n)
     /\ \A p \in untracked : \A n \in Entries(p) : \E k \in DOMAIN out :
          \A l \in DOMAIN out : EntryFits(out[l], p, n) <=> l = k
==============================================================================
