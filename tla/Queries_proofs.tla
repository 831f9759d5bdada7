--------------------------- MODULE Queries_proofs ---------------------------
(***************************************************************************)
(* Proofs about Queries, for any messages that RequestsAssumption allows.  *)
(***************************************************************************)
EXTENDS Queries, Parsers_proofs, FiniteSetTheorems

-----------------------------------------------------------------------------
(* The targets of the diagnostics.  TLC looks at addresses on both sides   *)
(* of each boundary; here they are all addresses.                          *)

(* validateNetworkTarget accepts exactly the permitted addresses: the      *)
(* ranges it tests one after another, DN42 before private space, add up.   *)
LEMMA Ranges4 == \A ip \in Address4 : validateNetworkTarget(ip) <=> Permitted(ip)
<1> SUFFICES ASSUME NEW a \in Octet, NEW b \in Octet, NEW c \in Octet, NEW d \in Octet,
                    NEW ip, ip.v = 4, ip.o = <<a, b, c, d>>
             PROVE  validateNetworkTarget(ip) <=> Permitted(ip)
  BY SMTT(30) DEF Address4
<1>1. Reserved(ip) <=> \/ a = 127
                       \/ a = 169 /\ b = 254
                       \/ a \in 224 .. 239
                       \/ a = 0 /\ b = 0 /\ c = 0 /\ d = 0
  BY SMTT(30) DEF Reserved, Octet
<1>2. isDN42(ip) <=> \/ a = 172 /\ b \in 20 .. 23 \cup {31}
                     \/ a = 10 /\ b = 127
  BY SMTT(30) DEF isDN42, Octet
<1>3. Private(ip) <=> \/ a = 10
                      \/ a = 172 /\ b \in 16 .. 31
                      \/ a = 192 /\ b = 168
                      \/ a = 169 /\ b = 254
                      \/ a = 255 /\ b = 255 /\ c = 255 /\ d = 255
  BY DEF Private, Octet
<1> DEFINE hi == a * 256 + b
<1>4. /\ (hi < 224 * 256 \/ hi >= 240 * 256) <=> a \notin 224 .. 239
      /\ (10 * 256 <= hi /\ hi <= 10 * 256 + 255) <=> a = 10
      /\ (127 * 256 <= hi /\ hi <= 127 * 256 + 255) <=> a = 127
  <2>1. a \in 0 .. 255 /\ b \in 0 .. 255
    BY ZenonT(30) DEF Octet
  <2>2. (hi < 224 * 256 \/ hi >= 240 * 256) <=> a \notin 224 .. 239
    BY <2>1, SMTT(30)
  <2>3. (10 * 256 <= hi /\ hi <= 10 * 256 + 255) <=> a = 10
    BY <2>1, SMTT(30)
  <2>4. (127 * 256 <= hi /\ hi <= 127 * 256 + 255) <=> a = 127
    BY <2>1, SMTT(30)
  <2> QED
    BY <2>2, <2>3, <2>4, SMTT(30)
<1>5. /\ (172 * 256 + 20 <= hi /\ hi <= 172 * 256 + 23) <=> (a = 172 /\ b \in 20 .. 23)
      /\ (172 * 256 + 16 <= hi /\ hi <= 172 * 256 + 31) <=> (a = 172 /\ b \in 16 .. 31)
  BY SMTT(30) DEF Octet
<1>6. /\ hi = 172 * 256 + 31 <=> a = 172 /\ b = 31
      /\ hi = 10 * 256 + 127 <=> a = 10 /\ b = 127
      /\ hi = 169 * 256 + 254 <=> a = 169 /\ b = 254
      /\ hi = 192 * 256 + 168 <=> a = 192 /\ b = 168
  BY DEF Octet
<1>7. Permitted(ip) <=>
        \/ a = 172 /\ b \in 20 .. 23 \cup {31}
        \/ a = 10 /\ b = 127
        \/ /\ a \notin 224 .. 239 /\ a # 10 /\ a # 127
           /\ ~(a = 172 /\ b \in 16 .. 31)
           /\ ~(a = 169 /\ b = 254) /\ ~(a = 192 /\ b = 168)
           /\ <<a, b, c, d>> \notin {<<0, 0, 0, 0>>, <<255, 255, 255, 255>>}
  <2>1. ip.o[1] * 256 + ip.o[2] = hi /\ hi \in Int
    BY SMTT(30) DEF Octet
  <2>2. Permitted(ip) <=>
          \/ /\ 172 * 256 + 20 <= hi /\ hi <= 172 * 256 + 23
          \/ hi = 172 * 256 + 31
          \/ hi = 10 * 256 + 127
          \/ /\ hi < 224 * 256 \/ hi >= 240 * 256
             /\ ~(10 * 256 <= hi /\ hi <= 10 * 256 + 255)
             /\ ~(127 * 256 <= hi /\ hi <= 127 * 256 + 255)
             /\ ~(172 * 256 + 16 <= hi /\ hi <= 172 * 256 + 31)
             /\ hi # 169 * 256 + 254 /\ hi # 192 * 256 + 168
             /\ ip.o \notin {<<0, 0, 0, 0>>, <<255, 255, 255, 255>>}
    <3> HIDE DEF hi
    <3> QED
      BY <2>1, SMTT(30) DEF Permitted
  <2> HIDE DEF hi
  <2> QED
    BY <1>4, <1>5, <1>6, <2>2, SMTT(30)
<1> HIDE DEF hi
<1>8. /\ <<a, b, c, d>> = <<0, 0, 0, 0>> <=> a = 0 /\ b = 0 /\ c = 0 /\ d = 0
      /\ <<a, b, c, d>> = <<255, 255, 255, 255>>
           <=> a = 255 /\ b = 255 /\ c = 255 /\ d = 255
  OBVIOUS
<1> QED
  BY <1>1, <1>2, <1>3, <1>7, <1>8, SMTT(30) DEF validateNetworkTarget, Octet

(* The same for IPv6, with the unique local addresses of DN42. *)
LEMMA Ranges6 == \A ip \in Address6 : validateNetworkTarget(ip) <=> Permitted(ip)
<1> SUFFICES ASSUME NEW a \in Octet, NEW b \in Octet, NEW c \in Nat,
                    NEW ip, ip.v = 6, ip.o = <<a, b, c>>
             PROVE  validateNetworkTarget(ip) <=> Permitted(ip)
  BY SMTT(30) DEF Address6
<1>1. Reserved(ip) <=> \/ a = 0 /\ b = 0 /\ c \in {0, 1}
                       \/ a = 254 /\ b \in 128 .. 191
                       \/ a = 255
  BY DEF Reserved, Octet
<1>2. isDN42(ip) <=> a = 253
  BY DEF isDN42
<1>3. Private(ip) <=> a \in {252, 253}
  BY DEF Private, Octet
<1> QED
  BY <1>1, <1>2, <1>3, SMTT(30) DEF validateNetworkTarget, Permitted, Octet

(* resolveAndValidate finds an address that passes if there is one. *)
LEMMA Resolved ==
  ASSUME NEW ips \in Seq(Address)
  PROVE  \/ /\ resolveAndValidate(ips) = <<>>
            /\ \A i \in DOMAIN ips : ~Permitted(ips[i])
         \/ \E i \in DOMAIN ips : resolveAndValidate(ips) = <<ips[i]>> /\ Permitted(ips[i])
<1> DEFINE pass == {i \in DOMAIN ips : validateNetworkTarget(ips[i])}
<1>1. \A i \in DOMAIN ips : validateNetworkTarget(ips[i]) <=> Permitted(ips[i])
  BY Ranges4, Ranges6, SMTT(30) DEF Address
<1>2. resolveAndValidate(ips) = IF pass = {} THEN <<>> ELSE <<ips[Min(pass)]>>
  BY Zenon DEF resolveAndValidate
<1>3. CASE pass = {}
  BY <1>1, <1>2, <1>3, ZenonT(30)
<1>4. CASE pass # {}
  <2>1. pass \in SUBSET Nat
    OBVIOUS
  <2>2. Min(pass) \in pass
    <3> HIDE DEF pass
    <3>1. \E x \in pass : \A y \in pass : x <= y
      BY <1>4, <2>1, LeastNat, ZenonT(30)
    <3> QED
      BY <3>1, ZenonT(30) DEF Min
  <2> QED
    BY <1>1, <1>2, <1>4, <2>2, ZenonT(30)
<1> QED
  BY <1>3, <1>4, ZenonT(30)

(* Where the target comes from. *)
TargetResolved ==
  req \in Requests /\ req.type \in Probes =>
    LET resolved == resolveAndValidate(req.ips)
    IN /\ pc \in {"received", "first"} => target = <<>>
       /\ pc \in {"second", "fallback"} => target = resolved /\ resolved # <<>>
       /\ pc = "done" => \/ target = resolved /\ resolved # <<>>
                         \/ target = <<>> /\ (req.bad \/ resolved = <<>>)
       /\ pc \in {"received", "first", "second", "fallback", "done"}

(* Ping, trace and mtr only ever run against a permitted address that the  *)
(* target resolves to, and refuse no target that has one: for all          *)
(* addresses and all lists a resolver may return.                          *)
THEOREM OnlyPermittedTargets == Spec => []TargetPermitted
<1> DEFINE Inv == req \in Requests /\ TargetResolved
<1>1. Init => Inv
  BY Zenon DEF Init, TargetResolved
<1>2. ASSUME Inv, [Next]_queryVars PROVE Inv'
  <2>1. req' = req
    BY <1>2, ZenonT(30) DEF Next, queryVars, HandleMessage, handleStatusRequest,
       handleBirdDetailsCommand, handlePeersImportCommand, handleBirdDisable,
       handleBirdEnable, BirdControl, SwitchProtocol, handleAgentResume,
       handleNetworkPing, handleNetworkTrace, handleNetworkMTR, Resolve, Report,
       handleBirdRoute, ShowRoute, Reply, Call
  <2>2. ASSUME req.type \in Probes PROVE TargetResolved'
    <3>1. \/ HandleMessage \/ Resolve \/ UNCHANGED queryVars
          \/ /\ pc \in {"second", "fallback"} /\ pc' \in {"fallback", "done"}
             /\ target' = target
      BY <1>2, <2>2, ZenonT(30)
      DEF Next, Probes, handleStatusRequest, handleBirdDetailsCommand,
         handlePeersImportCommand, handleBirdDisable, handleBirdEnable,
         handleAgentResume, handleBirdRoute, handleNetworkPing, handleNetworkTrace,
         handleNetworkMTR, Report, Reply, Call
    <3>2. CASE HandleMessage
      BY <1>2, <2>1, <2>2, <3>2, ZenonT(30) DEF HandleMessage, Call, TargetResolved, Known
    <3>3. CASE Resolve
      BY <1>2, <2>1, <2>2, <3>3, ZenonT(30) DEF Resolve, Reply, TargetResolved
    <3>4. CASE /\ pc \in {"second", "fallback"} /\ pc' \in {"fallback", "done"}
               /\ target' = target
      BY <1>2, <2>1, <2>2, <3>4, ZenonT(30) DEF TargetResolved
    <3>5. CASE UNCHANGED queryVars
      BY <1>2, <3>5, ZenonT(30) DEF queryVars, TargetResolved
    <3> QED
      BY <3>1, <3>2, <3>3, <3>4, <3>5, ZenonT(30)
  <2> QED
    BY <1>2, <2>1, <2>2, ZenonT(30) DEF TargetResolved
<1>3. ASSUME Inv PROVE TargetPermitted
  <2> SUFFICES ASSUME req.type \in Probes
               PROVE  /\ target # <<>> => target[1] \in Range(req.ips) /\ Permitted(target[1])
                      /\ pc = "done" /\ target = <<>> /\ ~req.bad =>
                           \A i \in DOMAIN req.ips : ~Permitted(req.ips[i])
    BY Zenon DEF TargetPermitted
  <2>1. req.ips \in Seq(Address)
    BY <1>3, RequestsAssumption, ZenonT(30)
  <2>2. CASE /\ resolveAndValidate(req.ips) = <<>>
             /\ \A i \in DOMAIN req.ips : ~Permitted(req.ips[i])
    BY <1>3, <2>2, ZenonT(30) DEF TargetResolved
  <2>3. CASE \E i \in DOMAIN req.ips : /\ resolveAndValidate(req.ips) = <<req.ips[i]>>
                                       /\ Permitted(req.ips[i])
    <3>1. PICK i \in DOMAIN req.ips : /\ resolveAndValidate(req.ips) = <<req.ips[i]>>
                                      /\ Permitted(req.ips[i])
      BY <2>3, Zenon
    <3>2. target \in {<<>>, <<req.ips[i]>>}
      BY <1>3, <3>1, ZenonT(30) DEF TargetResolved
    <3>3. req.ips[i] \in Range(req.ips)
      BY <3>1, ZenonT(30) DEF Range
    <3>4. pc = "done" /\ target = <<>> => req.bad
      BY <1>3, <3>1, SMTT(30) DEF TargetResolved
    <3> QED
      BY <3>1, <3>2, <3>3, <3>4, SMTT(30)
  <2> QED
    BY <2>1, <2>2, <2>3, Resolved, ZenonT(30)
<1> HIDE DEF Inv
<1> QED
  BY <1>1, <1>2, <1>3, PTL DEF Spec

-----------------------------------------------------------------------------
(* What an answer that is no error says, of each type of query. *)
Right(a) ==
  /\ req.type = "status.request" =>
       a.states = GetPeerStates(Table(req.protocols, req.now))
  /\ req.type = "bird.details" =>
       a.details = GetPeerDetails(Output(req.protocols, req.now), req.now)
  /\ req.type = "peers.import" =>
       \E confs \in Orders(ConfsOf(req.node)),
         files \in Orders(FilesOf(req.node) \cup req.foreign) :
         a.peers = Import(WgScanPeers(confs), BirdScanPeers(files), req.tracked)
  /\ req.type = "network.ping" => a.limit = Clamp(req.n, 4, 20)
  /\ req.type = "network.mtr" => a.limit = Clamp(req.n, 5, 10)
  /\ req.type = "network.trace" =>
       a.limit = Clamp(req.n, 30, 64) /\ a.hop = HopIP(TraceLine(req.probes))

(* The inductive invariant: the handler has at most one target, and says   *)
(* nothing before its only answer.                                         *)
QueryInv ==
  /\ req \in Requests
  /\ pc \in {"received", "first", "second", "fallback", "done"}
  /\ target = <<>> \/ \E t : target = <<t>>
  /\ pc # "done" => answers = <<>>
  /\ pc \notin {"received", "done"} => req.type \in Known
  /\ pc = "done" => IF req.type \in Known
                    THEN \E a : answers = <<a>> /\ (a = Error \/ (a.ok /\ Right(a)))
                    ELSE answers = <<>>

(* An answer. *)
LEMMA ReplyKeeps ==
  ASSUME QueryInv, pc \notin {"received", "done"}, NEW a, a = Error \/ (a.ok /\ Right(a)),
         Reply(a)
  PROVE  QueryInv'
<1>1. answers' = <<a>> /\ pc' = "done" /\ req' = req /\ target' = target
  <2>1. Append(<<>>, a) = <<a>>
    OBVIOUS
  <2> QED
    BY <2>1, Zenon DEF QueryInv, Reply
<1>2. Right(a)' <=> Right(a)
  BY <1>1, ZenonT(30) DEF Right
<1>3. \E b : answers' = <<b>> /\ (b = Error \/ (b.ok /\ Right(b)'))
  BY <1>1, <1>2, Zenon
<1> QED
  BY <1>1, <1>3, ZenonT(30) DEF QueryInv

(* A further call. *)
LEMMA CallKeeps ==
  ASSUME QueryInv, pc \notin {"received", "done"}, NEW l \in {"second", "fallback"}, Call(l)
  PROVE  QueryInv'
BY Zenon DEF QueryInv, Call

(* The invariant holds of every query. *)
LEMMA QueryInvariant == Spec => []QueryInv
<1>1. Init => QueryInv
  BY Zenon DEF Init, QueryInv
<1>2. ASSUME QueryInv, [Next]_queryVars PROVE QueryInv'
  <2>a. ASSUME pc \notin {"received", "done"}, Reply(Error) PROVE QueryInv'
    BY <1>2, <2>a, ReplyKeeps, ZenonT(30)
  <2>b. ASSUME NEW l \in {"second", "fallback"}, pc \notin {"received", "done"}, Call(l)
        PROVE  QueryInv'
    BY <1>2, <2>b, CallKeeps, ZenonT(30)
  <2>c. ASSUME pc \notin {"received", "done"}, NEW a, a.ok, Right(a), Reply(a) PROVE QueryInv'
    BY <1>2, <2>c, ReplyKeeps, ZenonT(30)
  <2>d. ASSUME Resolve PROVE QueryInv'
    <3>1. pc = "first"
      BY <2>d, Zenon DEF Resolve
    <3>2. CASE Reply(Error)
      BY <2>a, <3>1, <3>2, ZenonT(30)
    <3>3. CASE /\ target' = resolveAndValidate(req.ips) /\ target' # <<>> /\ pc' = "second"
               /\ UNCHANGED <<req, answers>>
      <4>1. \E t : target' = <<t>>
        BY <3>3, ZenonT(30) DEF resolveAndValidate
      <4> QED
        BY <1>2, <3>1, <3>3, <4>1, ZenonT(30) DEF QueryInv
    <3> QED
      BY <2>d, <3>2, <3>3, ZenonT(30) DEF Resolve
  <2>1. CASE HandleMessage
    BY <1>2, <2>1, Zenon DEF HandleMessage, Call, QueryInv
  <2>2. CASE handleStatusRequest
    <3> DEFINE a == [ok |-> TRUE, states |-> GetPeerStates(Table(req.protocols, req.now))]
    <3>1. a.ok /\ Right(a)
      BY <2>2, Zenon DEF handleStatusRequest, Right
    <3>2. \/ pc = "first" /\ (Reply(Error) \/ Call("second"))
          \/ pc = "second" /\ (Reply(Error) \/ Reply(a))
      BY <2>2, Zenon DEF handleStatusRequest
    <3> HIDE DEF a
    <3> QED
      BY <2>a, <2>b, <2>c, <3>1, <3>2, ZenonT(30)
  <2>3. CASE handleBirdDetailsCommand
    <3> DEFINE a == [ok |-> TRUE,
                     details |-> GetPeerDetails(Output(req.protocols, req.now), req.now)]
    <3>1. a.ok /\ Right(a)
      BY <2>3, Zenon DEF handleBirdDetailsCommand, Right
    <3>2. pc = "first" /\ (Reply(Error) \/ Reply(a))
      BY <2>3, ZenonT(30) DEF handleBirdDetailsCommand
    <3> HIDE DEF a
    <3> QED
      BY <2>a, <2>c, <3>1, <3>2, ZenonT(30)
  <2>4. CASE handlePeersImportCommand
    <3> DEFINE a(confs, files) ==
                 [ok |-> TRUE,
                  peers |-> Import(WgScanPeers(confs), BirdScanPeers(files), req.tracked)]
               C == Orders(ConfsOf(req.node))
               F == Orders(FilesOf(req.node) \cup req.foreign)
    <3>1. ASSUME NEW confs \in C, NEW files \in F
          PROVE  a(confs, files).ok /\ Right(a(confs, files))
      <4>1. /\ a(confs, files).ok
            /\ a(confs, files).peers
                 = Import(WgScanPeers(confs), BirdScanPeers(files), req.tracked)
        BY Zenon
      <4>2. req.type = "peers.import"
        BY <2>4, Zenon DEF handlePeersImportCommand
      <4> HIDE DEF a
      <4> QED
        BY <4>1, <4>2, Zenon DEF Right
    <3>2. \/ pc = "first" /\ (Reply(Error) \/ Call("second"))
          \/ pc = "second" /\ (Reply(Error)
                               \/ \E confs \in C, files \in F : Reply(a(confs, files)))
      BY <2>4, ZenonT(30) DEF handlePeersImportCommand
    <3> HIDE DEF a, C, F
    <3> QED
      BY <2>a, <2>b, <2>c, <3>1, <3>2, SMTT(30)
  <2>5. CASE handleBirdDisable \/ handleBirdEnable
    <3> DEFINE a == [ok |-> TRUE, proto |-> protoName]
    <3>1. a.ok /\ Right(a)
      BY <2>5, Zenon DEF handleBirdDisable, handleBirdEnable, Right
    <3>2. pc = "first" /\ (Reply(Error) \/ Reply(a))
      BY <2>5, ZenonT(30)
      DEF handleBirdDisable, handleBirdEnable, BirdControl, SwitchProtocol
    <3> HIDE DEF a
    <3> QED
      BY <2>a, <2>c, <3>1, <3>2, Zenon
  <2>6. CASE handleAgentResume \/ handleBirdRoute
    <3> DEFINE a == [ok |-> TRUE]
    <3>1. a.ok /\ Right(a)
      BY <2>6, Zenon DEF handleAgentResume, handleBirdRoute, Right
    <3>2. pc = "first" /\ (Reply(Error) \/ Reply(a))
      BY <2>6, ZenonT(30) DEF handleAgentResume, handleBirdRoute, ShowRoute
    <3> HIDE DEF a
    <3> QED
      BY <2>a, <2>c, <3>1, <3>2, SMTT(30)
  <2>7. CASE handleNetworkPing
    <3> DEFINE a == [ok |-> TRUE, limit |-> Clamp(req.n, 4, 20)]
    <3>1. a.ok /\ Right(a)
      BY <2>7, Zenon DEF handleNetworkPing, Right
    <3>2. Resolve \/ (pc = "second" /\ (Reply(Error) \/ Reply(a)))
      BY <2>7, ZenonT(30) DEF handleNetworkPing
    <3> HIDE DEF a
    <3> QED
      BY <2>a, <2>c, <2>d, <3>1, <3>2, ZenonT(30)
  <2>8. CASE handleNetworkTrace
    <3> DEFINE a == [ok |-> TRUE, limit |-> Clamp(req.n, 30, 64),
                     hop |-> HopIP(TraceLine(req.probes))]
    <3>1. a.ok /\ Right(a)
      BY <2>8, Zenon DEF handleNetworkTrace, Right
    <3>2. Resolve \/ (pc = "second" /\ (Reply(Error) \/ Reply(a)))
      BY <2>8, Zenon DEF handleNetworkTrace
    <3> HIDE DEF a
    <3> QED
      BY <2>a, <2>c, <2>d, <3>1, <3>2, Zenon
  <2>9. CASE handleNetworkMTR
    <3> DEFINE a == [ok |-> TRUE, limit |-> Clamp(req.n, 5, 10)]
    <3>1. a.ok /\ Right(a)
      BY <2>9, Zenon DEF handleNetworkMTR, Right
    <3>2. \/ Resolve
          \/ pc = "second" /\ (Reply(a) \/ Call("fallback"))
          \/ pc = "fallback" /\ (Reply(Error) \/ Reply(a))
      BY <2>9, Zenon DEF handleNetworkMTR, Report
    <3> HIDE DEF a
    <3> QED
      BY <2>a, <2>b, <2>c, <2>d, <3>1, <3>2, SMTT(30)
  <2>10. CASE UNCHANGED queryVars
    BY <1>2, <2>10, ZenonT(30) DEF queryVars, QueryInv, Right
  <2> QED
    BY <1>2, <2>1, <2>2, <2>3, <2>4, <2>5, <2>6, <2>7, <2>8, <2>9, <2>10, ZenonT(30)
    DEF Next
<1> QED
  BY <1>1, <1>2, PTL DEF Spec

(* Every query gets exactly one answer, whichever external commands fail.  *)
THEOREM OneAnswerEach == Spec => []AnsweredOnce
<1>1. ASSUME QueryInv PROVE AnsweredOnce
  <2>1. \A a : Len(<<a>>) = 1 /\ Len(<<>>) = 0
    BY Zenon
  <2> QED
    BY <1>1, <2>1, Zenon DEF QueryInv, AnsweredOnce
<1> QED
  BY <1>1, QueryInvariant, PTL

(* An answer that is no error. *)
LEMMA AnswerRight ==
  ASSUME QueryInv, NEW t \in Known, Answered(t)
  PROVE  req \in Requests /\ req.type = t /\ Right(answers[1])
<1>1. req.type = t /\ pc = "done" /\ answers[1].ok
  BY Zenon DEF Answered
<1>2. PICK a : answers = <<a>> /\ (a = Error \/ (a.ok /\ Right(a)))
  BY <1>1, Zenon DEF QueryInv
<1>3. answers[1] = a
  BY <1>2, Zenon
<1>4. ~Error.ok
  BY ZenonT(30) DEF Error
<1> QED
  BY <1>1, <1>2, <1>3, <1>4, ZenonT(30) DEF QueryInv

(* At most one target is pinned, and a count the controller asks for is    *)
(* kept within the limits of docs/protocol.md, whatever number it is.      *)
THEOREM QueryTypes == Spec => []TypeOK
<1>1. \A n \in Int : /\ Clamp(n, 4, 20) \in 1 .. 20 /\ Clamp(n, 5, 10) \in 1 .. 10
                     /\ Clamp(n, 30, 64) \in 1 .. 64
  BY DEF Clamp
<1>2. ASSUME QueryInv PROVE TypeOK
  <2>1. Len(target) <= 1
    <3>1. CASE target = <<>>
      BY <3>1
    <3>2. CASE \E t : target = <<t>>
      BY <3>2
    <3> QED
      BY <1>2, <3>1, <3>2, ZenonT(30) DEF QueryInv
  <2>2. ASSUME req.type \in Probes, answers # <<>>, answers[1].ok
        PROVE  answers[1].limit \in 1 .. MaxLimit[req.type]
    <3>1. req.n \in Int
      BY <1>2, <2>2, RequestsAssumption, Zenon DEF QueryInv
    <3>2. Right(answers[1])
      <4>1. pc = "done" /\ req.type \in Known
        BY <1>2, <2>2, SMTT(30) DEF QueryInv, Known
      <4> QED
        BY <1>2, <2>2, <4>1, AnswerRight, ZenonT(30) DEF Answered
    <3> QED
      BY <1>1, <2>2, <3>1, <3>2, ZenonT(30) DEF Right, Probes, MaxLimit
  <2> QED
    BY <1>2, <2>1, <2>2, ZenonT(30) DEF QueryInv, TypeOK
<1> QED
  BY <1>2, QueryInvariant, PTL

(* parseTracerouteOutput: each hop has the address of the router that      *)
(* answered last, for any number of probes and any answers to them.        *)
THEOREM HopsExact == Spec => []HopExact
<1>1. ASSUME QueryInv PROVE HopExact
  <2>1. ASSUME Answered("network.trace") PROVE answers[1].hop = LastHop(req.probes)
    <3>1. req \in Requests /\ req.type = "network.trace" /\ Right(answers[1])
      BY <1>1, <2>1, AnswerRight, ZenonT(30) DEF Known, Probes
    <3>2. req.probes \in Seq(STRING)
      BY <3>1, RequestsAssumption, Zenon DEF Probes
    <3>3. answers[1].hop = HopIP(TraceLine(req.probes))
      BY <3>1, ZenonT(30) DEF Right
    <3> QED
      BY <3>2, <3>3, HopLast, ZenonT(30)
  <2> QED
    BY <2>1, Zenon DEF HopExact
<1> QED
  BY <1>1, QueryInvariant, PTL

(* handlePeersImportCommand returns exactly the entries due for the        *)
(* peerings that are not tracked, none of them twice: for nodes of any     *)
(* size, with any number of BIRD files, in whatever order the directories  *)
(* are read.                                                               *)
THEOREM ImportsExact == Spec => []ImportExact
<1>1. ASSUME QueryInv PROVE ImportExact
  <2>1. ASSUME Answered("peers.import"), \A p \in req.node : WellNamed(p)
        PROVE  ExactlyDue(answers[1].peers, req.node, req.tracked)
    <3>1. req \in Requests /\ req.type = "peers.import" /\ Right(answers[1])
      BY <1>1, <2>1, AnswerRight, ZenonT(30) DEF Known
    <3>2. /\ Distinct(req.node) /\ \A f \in req.foreign : ~f.parses
          /\ Cardinality(ConfsOf(req.node)) \in Nat
          /\ Cardinality(FilesOf(req.node) \cup req.foreign) \in Nat
      BY <3>1, RequestsAssumption, FS_CardinalityType, ZenonT(30)
    <3>3. PICK confs \in Orders(ConfsOf(req.node)),
               files \in Orders(FilesOf(req.node) \cup req.foreign) :
            answers[1].peers
              = Import(WgScanPeers(confs), BirdScanPeers(files), req.tracked)
      BY <3>1, SMTT(30) DEF Right
    <3> QED
      BY <2>1, <3>2, <3>3, ImportWhole, ZenonT(30)
  <2> QED
    BY <2>1, Zenon DEF ImportExact
<1> QED
  BY <1>1, QueryInvariant, PTL

(* GetPeerDetails and GetPeerStates report the BGP protocols exactly: for  *)
(* any number of protocols and channels, any counts and any uptime.        *)
THEOREM ReportsExact == Spec => []DetailsExact
<1>1. ASSUME QueryInv PROVE DetailsExact
  <2> DEFINE ps == req.protocols
             bgp == {i \in DOMAIN ps : ps[i].bgp}
             listed == {i \in DOMAIN ps : ps[i].bgp /\ ps[i].info # NoInfo}
  <2>a. ASSUME NEW t \in {"bird.details", "status.request"}, Answered(t)
        PROVE  /\ ps \in Seq(Protocols) /\ req.now \in 0 .. Day - 1
               /\ req.type = t /\ Right(answers[1])
    BY <1>1, <2>a, AnswerRight, RequestsAssumption, ZenonT(30) DEF Known
  <2>1. ASSUME Answered("bird.details"), OthersFirst(ps), NEW out, out = answers[1].details
        PROVE  \E at \in Numbered(Len(out), bgp) : \A k \in DOMAIN out :
                 DetailFits(out[k], ps[at[k]])
    <3>1. /\ ps \in Seq(Protocols) /\ req.now \in 0 .. Day - 1
          /\ out = GetPeerDetails(Output(ps, req.now), req.now)
      BY <2>1, <2>a, Zenon DEF Right
    <3> HIDE DEF ps
    <3> QED
      BY <2>1, <3>1, DetailsRight, ZenonT(30)
  <2>2. ASSUME Answered("status.request"), NEW out, out = answers[1].states
        PROVE  \E at \in Numbered(Len(out), listed) : \A k \in DOMAIN out :
                 out[k] = [name |-> ps[at[k]].name, state |-> ps[at[k]].info]
    <3>1. ps \in Seq(Protocols) /\ out = GetPeerStates(Table(ps, req.now))
      BY <2>2, <2>a, ZenonT(30) DEF Right
    <3> HIDE DEF ps
    <3>2. StatesOf(out, ps)
      BY <3>1, StatesExact, ZenonT(30)
    <3> QED
      BY <3>2, ZenonT(30) DEF StatesOf
  <2>3. Answered("bird.details") /\ OthersFirst(ps) =>
          LET out == answers[1].details
          IN \E at \in Numbered(Len(out), bgp) : \A k \in DOMAIN out :
               DetailFits(out[k], ps[at[k]])
    <3> HIDE DEF ps
    <3> QED
      BY <2>1, ZenonT(30)
  <2>4. Answered("status.request") =>
          LET out == answers[1].states
          IN \E at \in Numbered(Len(out), listed) : \A k \in DOMAIN out :
               out[k] = [name |-> ps[at[k]].name, state |-> ps[at[k]].info]
    <3> HIDE DEF ps
    <3> QED
      BY <2>2
  <2> QED
    BY <2>3, <2>4, ZenonT(30) DEF DetailsExact
<1> QED
  BY <1>1, QueryInvariant, PTL
=============================================================================
