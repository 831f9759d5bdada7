---------------------------- MODULE NetworkTarget ----------------------------
(***************************************************************************)
(* The targets of the looking glass (internal/handler/network.go): which   *)
(* addresses may be probed, what a host name is pinned to, and what the    *)
(* answer to a traceroute is read as.                                      *)
(*                                                                         *)
(* An address has a version and octets; of an IPv6 address, the third is   *)
(* all the rest.                                                           *)
(***************************************************************************)
EXTENDS FiniteSetsExt, Lines

Octet == 0 .. 255
Address4 == [v : {4}, o : Octet \X Octet \X Octet \X Octet]
Address6 == [v : {6}, o : Octet \X Octet \X Nat]
Address == Address4 \cup Address6

Reserved(ip) ==
  IF ip.v = 4
  THEN \/ ip.o[1] = 127                       \* IsLoopback
       \/ ip.o[1] = 169 /\ ip.o[2] = 254      \* IsLinkLocalUnicast
       \/ ip.o[1] \div 16 = 14                \* IsMulticast
       \/ ip.o = <<0, 0, 0, 0>>               \* IsUnspecified
  ELSE \/ ip.o \in {<<0, 0, 0>>, <<0, 0, 1>>}
       \/ ip.o[1] = 254 /\ ip.o[2] \div 64 = 2
       \/ ip.o[1] = 255

isDN42(ip) ==
  IF ip.v = 4
  THEN \/ ip.o[1] = 172 /\ ip.o[2] \div 4 = 5
       \/ ip.o[1] = 172 /\ ip.o[2] = 31
       \/ ip.o[1] = 10 /\ ip.o[2] = 127
  ELSE ip.o[1] = 253

Private(ip) ==
  IF ip.v = 4
  THEN \/ ip.o[1] = 10
       \/ ip.o[1] = 172 /\ ip.o[2] \in 16 .. 31
       \/ ip.o[1] = 192 /\ ip.o[2] = 168
       \/ ip.o[1] = 169 /\ ip.o[2] = 254
       \/ ip.o = <<255, 255, 255, 255>>
  ELSE ip.o[1] \div 2 = 126

(* Seeded fault: private space is rejected before DN42 is considered. *)
validatePrivateFirst(ip) == ~Reserved(ip) /\ ~Private(ip)

validateNetworkTarget(ip) == ~Reserved(ip) /\ (isDN42(ip) \/ ~Private(ip))

(* The first address that passes, as a sequence of at most one.  A literal *)
(* address is its own only resolution.                                     *)
resolveAndValidate(ips) ==
  LET pass == {i \in DOMAIN ips : validateNetworkTarget(ips[i])}
  IN IF pass = {} THEN <<>> ELSE <<ips[Min(pass)]>>

(* Seeded fault: only a missing value is replaced. *)
ClampUnbounded(n, default, max) == IF n <= 0 THEN default ELSE n

Clamp(n, default, max) == IF n <= 0 THEN default ELSE IF n > max THEN max ELSE n

-----------------------------------------------------------------------------
(* parseTracerouteOutput, of one line's tokens [k, v]: a bracketed token   *)
(* is an address, any other without "ms" is one if none is known yet.      *)
NoIP == ""

(* Seeded fault: the first token stays. *)
HopStepFirst(ip, t) == IF t.k \in {"paren", "plain"} /\ ip = NoIP THEN t.v ELSE ip

HopStep(ip, t) ==
  IF t.k = "paren" THEN t.v ELSE IF t.k = "plain" /\ ip = NoIP THEN t.v ELSE ip

HopIP(line) ==
  LET ip[n \in 0 .. Len(line)] == IF n = 0 THEN NoIP ELSE HopStep(ip[n - 1], line[n])
  IN ip[Len(line)]

-----------------------------------------------------------------------------
(* The reference: DN42, and what is left of the address space without the  *)
(* loopback, link-local, multicast, unspecified, broadcast, private and    *)
(* ULA ranges.                                                             *)
Permitted(ip) ==
  LET hi == ip.o[1] * 256 + ip.o[2]
  IN IF ip.v = 4
     THEN \/ hi \in 172 * 256 + 20 .. 172 * 256 + 23 \cup {172 * 256 + 31, 10 * 256 + 127}
          \/ /\ hi < 224 * 256 \/ hi >= 240 * 256
             /\ hi \notin 10 * 256 .. 10 * 256 + 255 \cup 127 * 256 .. 127 * 256 + 255
                          \cup 172 * 256 + 16 .. 172 * 256 + 31
                          \cup {169 * 256 + 254, 192 * 256 + 168}
             /\ ip.o \notin {<<0, 0, 0, 0>>, <<255, 255, 255, 255>>}
     ELSE \/ ip.o[1] = 253
          \/ hi < 252 * 256 /\ ip.o \notin {<<0, 0, 0>>, <<0, 0, 1>>}
          \/ hi \in 254 * 256 .. 254 * 256 + 127 \cup 254 * 256 + 192 .. 254 * 256 + 255

(* The router that answered last among the first n probes. *)
Answering(probes, n) == {i \in 1 .. n : probes[i] # NoIP}
Heard(probes, n) ==
  IF Answering(probes, n) = {} THEN NoIP ELSE probes[Max(Answering(probes, n))]

LastHop(probes) == Heard(probes, Len(probes))

(* traceroute prints a star for a probe without an answer (NoIP) and       *)
(* otherwise name, address and time, the first two only when they change.  *)
Probe(probes, i) ==
  IF probes[i] = NoIP THEN <<[k |-> "star", v |-> "*"]>>
  ELSE (IF probes[i] = Heard(probes, i - 1) THEN <<>>
        ELSE <<[k |-> "plain", v |-> "name"], [k |-> "paren", v |-> probes[i]]>>)
       \o <<[k |-> "plain", v |-> "rtt"], [k |-> "ms", v |-> "ms"]>>

TraceLine(probes) == Joined([i \in DOMAIN probes |-> Probe(probes, i)])
==============================================================================
