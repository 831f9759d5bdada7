------------------------------ MODULE MCQueries ------------------------------
(* The messages for TLC. *)
EXTENDS Queries, Integers

(* Nodes of up to two peerings, every combination of naming, comment,      *)
(* state and number of BIRD files, with a file that is not a peer's among  *)
(* them.                                                                   *)
Peerings(asn, names, most) ==
  {p \in [asn : {asn}, iface : names, comment : {<<>>, <<asn>>},
          wg : {"up", "down", "none"}, sessions : 0 .. most,
          birdIface : names \cup {<<"alias", asn>>}] :
     /\ p.wg # "none" \/ p.sessions > 0
     /\ p.birdIface \in {p.iface, <<"alias", asn>>}
     /\ p.sessions = 0 => p.birdIface = p.iface
     /\ p.comment = <<>> => p.iface[1] = "word" /\ p.wg # "none"}

Names(asn) == {<<"dn42", asn>>, <<"wg", asn>>, <<"word", asn>>}
First == Peerings(7, Names(7) \cup {<<"wg", 0>>}, 2)
Second == Peerings(12, Names(12), 1)

Foreign == [file |-> <<0, 0>>, parses |-> FALSE, iface |-> <<"alias", 7>>, asn |-> 12]

Nodes == {{p, q} : p \in First, q \in Second} \cup {{p} : p \in First}

Imports ==
  {[type |-> "peers.import", node |-> n, foreign |-> {Foreign}, tracked |-> t] :
     n \in Nodes, t \in SUBSET {7, 12}}

(* Up to three protocols with up to two channels, and every age up to two  *)
(* days at every time of the day.                                          *)
Protocol(n, bgp, info, age, channels) ==
  [name |-> n, bgp |-> bgp, info |-> info, age |-> age, channels |-> channels]

Shapes ==
  {Protocol("a", TRUE, i, 1, c) : i \in {"", "up"}, c \in {<<>>, <<1>>, <<2, 1>>}}
    \cup {Protocol("b", FALSE, "", 1, c) : c \in {<<>>, <<3>>}}

Lists == {<<x>> : x \in Shapes} \cup (Shapes \X Shapes) \cup (Shapes \X Shapes \X Shapes)
Aged == {<<Protocol("a", TRUE, "up", g, <<1>>)>> : g \in 0 .. 2 * Day}

Details ==
  {[type |-> t, protocols |-> ps, now |-> n] :
     t \in {"bird.details", "status.request"}, ps \in Aged, n \in 0 .. Day - 1}
  \cup {[type |-> t, protocols |-> ps, now |-> 0] :
     t \in {"bird.details", "status.request"}, ps \in Lists}

(* Addresses on both sides of every boundary of the ranges. *)
IPv4 ==
  {[v |-> 4, o |-> <<a, b, 0, 1>>] :
     a \in {0, 1, 9, 10, 11, 126, 127, 128, 168, 169, 170, 171, 172, 173, 191, 192,
            193, 223, 224, 239, 240, 255},
     b \in {0, 15, 16, 19, 20, 23, 24, 30, 31, 32, 126, 127, 128, 167, 168, 169, 253,
            254, 255}}
  \cup {[v |-> 4, o |-> <<0, 0, 0, 0>>], [v |-> 4, o |-> <<255, 255, 255, 255>>]}

IPv6 ==
  {[v |-> 6, o |-> <<a, b, r>>] :
     a \in {0, 32, 251, 252, 253, 254, 255}, b \in {0, 127, 128, 191, 192, 255},
     r \in {0, 1, 2}}

Some == {[v |-> 4, o |-> <<1, 1, 0, 1>>], [v |-> 4, o |-> <<172, 20, 0, 1>>],
         [v |-> 4, o |-> <<10, 0, 0, 1>>], [v |-> 6, o |-> <<254, 128, 1>>]}

Resolutions ==
  {<<>>} \cup {<<a>> : a \in IPv4 \cup IPv6} \cup (Some \X Some) \cup (Some \X Some \X Some)

Answers == {"", "r1", "r2"}
Traces == {<<a, b, c>> : a \in Answers, b \in Answers, c \in Answers}

Diagnostics ==
  {[type |-> "network.ping", bad |-> FALSE, ips |-> r, n |-> 0, probes |-> <<>>] : r \in Resolutions}
  \cup {[type |-> t, bad |-> b, ips |-> <<a>>, n |-> n, probes |-> <<"r1">>] :
          t \in Probes, b \in BOOLEAN, a \in Some, n \in {-1, 0, 1, 10, 11, 64, 65}}
  \cup {[type |-> "network.trace", bad |-> FALSE, n |-> 0, probes |-> p,
         ips |-> <<[v |-> 4, o |-> <<1, 1, 0, 1>>]>>] : p \in Traces}

Rest ==
  {[type |-> t, bad |-> b, proto |-> x, stored |-> y] :
     t \in {"bird.enable", "bird.disable"}, b \in BOOLEAN, x \in {"", "a"}, y \in {"", "b"}}
  \cup {[type |-> "network.bgp_route", bad |-> b, literal |-> l] :
          b \in BOOLEAN, l \in BOOLEAN}
  \cup {[type |-> "agent.resume"], [type |-> "no.such.type"]}

AllRequests == Imports \cup Details \cup Diagnostics \cup Rest
==============================================================================
