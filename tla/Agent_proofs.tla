---------------------------- MODULE Agent_proofs ----------------------------
(***************************************************************************)
(* Proofs about Agent, for any number of peers and ping slots, whatever    *)
(* the handlers do between two reads of the collector.                     *)
(***************************************************************************)
EXTENDS Agent, PeerLifecycle_proofs

(* With the collector beside them, the handlers still behave as in         *)
(* PeerLifecycle: it changes nothing they use, so every theorem about Spec *)
(* is one about the agent.                                                 *)
THEOREM CollectorOnlyReads == AgentSpec => Spec
<1>1. AgentInit => Init
  BY Zenon DEF AgentInit
<1>2. [AgentNext]_agentVars => [Next]_vars
  BY Zenon DEF AgentNext, agentVars, HandlerMoves, CloseStore, ProcessRestarts,
         CollectorMoves, OnlyReading, Next
<1> QED
  BY <1>1, <1>2, PTL DEF AgentSpec, Spec

-----------------------------------------------------------------------------
(* The collector's state is well typed whatever the handlers leave in the  *)
(* store, in WireGuard and in BIRD when it reads them, and its count of    *)
(* ticks stays below birdDetailEvery for any configured interval, one      *)
(* below 1 included.                                                       *)
THEOREM CollectorTypes == AgentSpec => []CollectorTypeOK
<1>0. C!birdDetailEvery \in Nat \ {0}
  BY CollectorAssumption DEF C!birdDetailEvery
<1>a. \A f : f = C!NoMap => DOMAIN f = {}
  BY Zenon DEF C!NoMap
<1>b. 0 \in 0 .. C!birdDetailEvery - 1
  BY <1>0
<1>1. AgentInit => CollectorTypeOK
  BY <1>a, <1>b, Zenon DEF AgentInit, C!Init, CollectorTypeOK
<1>2. ASSUME TypeOK, CollectorTypeOK, [AgentNext]_agentVars PROVE CollectorTypeOK'
  <2>a. C!birdDetailEvery' = C!birdDetailEvery
    BY Zenon DEF C!birdDetailEvery
  <2>b. birdRunning \subseteq Files /\ wgUp \subseteq Ifaces
    BY <1>2, Zenon DEF TypeOK
  <2>c. ASSUME NEW found, C!FromBird(found)
        PROVE  found \subseteq Files /\ birdc' \in BOOLEAN
    BY <1>2, <2>b, <2>c, Zenon DEF C!FromBird, CollectorTypeOK
  <2>d. closed' \in BOOLEAN
    BY <1>2, Zenon
    DEF CollectorTypeOK, AgentNext, agentVars, HandlerMoves, CloseStore, ProcessRestarts,
        CollectorMoves, OnlyReading
  <2>1. CASE UNCHANGED collector
    BY <1>2, <2>1, <2>a, <2>d, Zenon DEF CollectorTypeOK, collector
  <2>2. CASE C!Restart
    BY <1>0, <1>a, <2>2, <2>a, <2>d DEF C!Restart, CollectorTypeOK
  <2>3. CASE C!GetStats
    BY <1>2, <2>3, <2>a, <2>d, <2>b, Zenon DEF C!GetStats, CollectorTypeOK
  <2>4. CASE C!ForEachPeer
    <3>1. /\ stats' \subseteq stats /\ DOMAIN ifToPeer' = stats'
          /\ \A i \in DOMAIN ifToPeer' : ifToPeer'[i] \in [id : PeerIds, info : PeerInfo]
      <4> DEFINE tracked == {id \in DOMAIN peers : peers[id] # NoPeer /\ ~closed}
                 ifaces == stats \cap {peers[id].iface : id \in tracked}
      <4>1. PICK f \in [ifaces -> [id : tracked, info : {peers[id] : id \in tracked}]] :
              ifToPeer' = f /\ stats' = ifaces
        BY <2>4, Zenon DEF C!ForEachPeer
      <4>2. tracked \subseteq PeerIds /\ {peers[id] : id \in tracked} \subseteq PeerInfo
        BY <1>2, Zenon DEF TypeOK
      <4> HIDE DEF tracked
      <4> QED
        BY <4>1, <4>2, Zenon
    <3> QED
      BY <1>2, <2>4, <2>a, <2>d, <3>1, Zenon DEF C!ForEachPeer, CollectorTypeOK
  <2>5. CASE C!GetBirdStates
    BY <1>2, <2>5, <2>a, <2>d, <2>c, Zenon DEF C!GetBirdStates, CollectorTypeOK
  <2>6. CASE C!GetBirdDetails
    <3>1. tick' \in 0 .. C!birdDetailEvery - 1
      <4>1. tick \in Nat /\ tick' = (tick + 1) % C!birdDetailEvery
        BY <1>0, <1>2, <2>6 DEF C!GetBirdDetails, CollectorTypeOK
      <4> QED
        BY <1>0, <4>1
    <3>2. details' \subseteq Files /\ birdc' \in BOOLEAN
      BY <1>2, <2>6, <2>c, Zenon DEF C!GetBirdDetails, CollectorTypeOK
    <3> QED
      BY <1>2, <2>6, <2>a, <2>d, <3>1, <3>2, Zenon DEF C!GetBirdDetails, CollectorTypeOK
  <2>7. CASE C!SpawnPings \/ (\E i \in waiting : C!TakeSlot(i))
             \/ (\E i \in pinging : C!PingPeer(i)) \/ C!SendHeartbeat
    BY <1>2, <2>7, <2>a, <2>d, ZenonT(30)
    DEF C!SpawnPings, C!TakeSlot, C!PingPeer, C!SendHeartbeat, CollectorTypeOK
  <2>8. CASE C!Return
    BY <1>2, <1>a, <2>8, <2>a, <2>d, Zenon DEF C!Return, CollectorTypeOK
  <2> QED
    BY <1>2, <2>1, <2>2, <2>3, <2>4, <2>5, <2>6, <2>7, <2>8, Zenon
    DEF AgentNext, agentVars, HandlerMoves, CloseStore, ProcessRestarts, CollectorMoves,
        C!Next, C!CollectStep
<1> QED
  BY <1>1, <1>2, TypeCorrect, CollectorOnlyReads, PTL DEF AgentSpec

-----------------------------------------------------------------------------
(* The ping goroutines.  Every interface to ping is at one place: without  *)
(* a slot, with one, answered or unanswered; and wg2.Wait lets collect go  *)
(* on when none is left in the first two.                                  *)
Pings ==
  /\ cpc # "pings" => waiting = {} /\ pinging = {}
  /\ cpc \in {"idle", "peers", "states", "details", "spawn"} =>
       rttResults = {} /\ unanswered = {}
  /\ cpc \in {"pings", "sent"} =>
       /\ waiting \cup pinging \cup rttResults \cup unanswered
            = {i \in stats : ifToPeer[i].id \notin NoLLA}
       /\ waiting \cap pinging = {} /\ rttResults \cap unanswered = {}
       /\ (waiting \cup pinging) \cap (rttResults \cup unanswered) = {}

(* No ping is lost and none is counted twice, for any number of peers and  *)
(* slots.                                                                  *)
LEMMA PingsAccounted == AgentSpec => []Pings
<1>1. AgentInit => Pings
  BY Zenon DEF AgentInit, C!Init, Pings
<1>2. ASSUME Pings, [AgentNext]_agentVars PROVE Pings'
  <2>1. CASE UNCHANGED collector
    BY <1>2, <2>1, Zenon DEF Pings, collector
  <2>2. CASE C!Restart
    BY <2>2, Zenon DEF C!Restart, Pings
  <2>3. CASE C!GetStats \/ C!ForEachPeer \/ C!GetBirdStates \/ C!GetBirdDetails \/ C!Return
    BY <1>2, <2>3, Zenon
    DEF Pings, C!GetStats, C!ForEachPeer, C!GetBirdStates, C!GetBirdDetails, C!Return
  <2>4. CASE C!SpawnPings
    BY <1>2, <2>4 DEF Pings, C!SpawnPings
  <2>5. ASSUME NEW i \in waiting, C!TakeSlot(i) PROVE Pings'
    <3>1. cpc = "pings" /\ UNCHANGED <<cpc, stats, ifToPeer, rttResults, unanswered>>
      BY <1>2, <2>5, Zenon DEF Pings, C!TakeSlot
    <3>2. waiting' = waiting \ {i} /\ pinging' = pinging \cup {i}
      BY <2>5, Zenon DEF C!TakeSlot
    <3> QED
      BY <1>2, <2>5, <3>1, <3>2 DEF Pings
  <2>6. ASSUME NEW i \in pinging, C!PingPeer(i) PROVE Pings'
    <3>1. cpc = "pings" /\ UNCHANGED <<cpc, stats, ifToPeer, waiting>>
      BY <1>2, <2>6, Zenon DEF Pings, C!PingPeer
    <3>2. /\ pinging' = pinging \ {i}
          /\ \/ rttResults' = rttResults \cup {i} /\ unanswered' = unanswered
             \/ unanswered' = unanswered \cup {i} /\ rttResults' = rttResults
      BY <2>6, Zenon DEF C!PingPeer
    <3> QED
      BY <1>2, <2>6, <3>1, <3>2 DEF Pings
  <2>7. CASE C!SendHeartbeat
    BY <1>2, <2>7, Zenon DEF Pings, C!SendHeartbeat
  <2> QED
    BY <1>2, <2>1, <2>2, <2>3, <2>4, <2>5, <2>6, <2>7, Zenon
    DEF AgentNext, agentVars, HandlerMoves, CloseStore, ProcessRestarts, CollectorMoves,
        C!Next, C!CollectStep
<1> QED
  BY <1>1, <1>2, PTL DEF AgentSpec

-----------------------------------------------------------------------------
(* The heartbeat.  A steady peering is still complete when the collector   *)
(* reads it; Snapshot says what each read has kept of it by then.          *)
Reads == {"peers", "states", "details", "spawn", "pings"}

Kin(s) ==
  /\ s.info.iface \in stats
  /\ ifToPeer[s.info.iface].id = s.id /\ ifToPeer[s.info.iface].info = s.info
  /\ \A i \in stats : ifToPeer[i].id = s.id => i = s.info.iface

(* collect may have found the store closed, and then has nobody to report. *)
Blind == closed /\ stats = {}

Snapshot ==
  /\ cpc \in Reads => steady \subseteq Complete
  /\ cpc = "idle" => steady = {}
  /\ \A s \in steady : s.info.file = C!protoName(s.info)
  /\ cpc = "peers" => \A s \in steady : s.info.iface \in stats
  /\ cpc \in (Reads \ {"peers"}) \cup {"sent"} => Blind \/ \A s \in steady : Kin(s)
  /\ cpc \in {"details", "spawn", "pings", "sent"} /\ birdc /\ ~Blind =>
       \A s \in steady : C!protoName(s.info) \in birdByProto
  /\ cpc \in {"idle", "peers", "states", "details"} => details = {}
  /\ cpc \in {"spawn", "pings", "sent"} /\ birdc /\ ~Blind =>
       IF tick = 0 THEN \A s \in steady : C!protoName(s.info) \in details
       ELSE details = {}
  /\ cpc = "sent" => heartbeat = C!Metrics

(* The names of a complete peering: its id and its interface are those of  *)
(* no other, and its BIRD file is named like its protocol.                 *)
LEMMA CompleteNames ==
  ASSUME NamesStable, NamesUnique, TypeOK, NamesKnown, NEW s \in Complete
  PROVE  /\ s.id \in Tracked /\ s.info = peers[s.id]
         /\ s.info.iface \in wgUp /\ s.info.file \in birdRunning
         /\ s.info.file = C!protoName(s.info)
         /\ \A t \in Tracked : peers[t].iface = s.info.iface => t = s.id
<1>1. PICK id \in Tracked : /\ peers[id].iface \in wgUp /\ peers[id].file \in birdRunning
                            /\ s = [id |-> id, info |-> peers[id]]
  BY Zenon DEF Complete
<1>2. Real(id, peers[id])
  BY Zenon DEF NamesKnown
<1>3. peers[id].file = BirdFileName(peers[id].asn)
  BY <1>2, RealNames, Zenon
<1>4. ASSUME NEW t \in Tracked, peers[t].iface = s.info.iface PROVE t = s.id
  BY <1>1, <1>2, <1>4, SMTT(30) DEF NamesKnown, NamesUnique, Real
<1> QED
  BY <1>1, <1>3, <1>4, Zenon DEF C!protoName, BirdFileName

(* A step that leaves the collector alone keeps the snapshot, if it only   *)
(* takes peerings that are no longer complete out of steady.               *)
LEMMA SnapshotFrame ==
  ASSUME Snapshot, UNCHANGED collector, closed => closed', steady' \subseteq steady,
         cpc \in Reads => steady' \subseteq Complete'
  PROVE  Snapshot'
<1>1. UNCHANGED <<cpc, stats, ifToPeer, birdByProto, details, tick, rttResults,
                  birdc, heartbeat>>
  BY Zenon DEF collector
<1>2. C!Metrics' = C!Metrics
  BY <1>1, Zenon DEF C!Metrics, C!PeerMetric, C!protoName
<1>3. \A s \in steady' : Kin(s) => Kin(s)'
  BY <1>1, Zenon DEF Kin
<1>4. Blind => Blind'
  BY <1>1, Zenon DEF Blind
<1> QED
  BY <1>1, <1>2, <1>3, <1>4, Zenon DEF Snapshot, C!protoName

(* Every read of the collector keeps what the snapshot says. *)
LEMMA SnapshotCollect ==
  ASSUME NamesStable, NamesUnique, TypeOK, NamesKnown, Pings, Snapshot,
         CollectorMoves
  PROVE  Snapshot'
<1>a. UNCHANGED <<peers, wgUp, birdRunning, closed>> /\ UNCHANGED vars
  BY Zenon DEF CollectorMoves, OnlyReading, vars
<1>b. Complete' = Complete
  BY <1>a, Zenon DEF Complete, Tracked
<1>c. steady' = IF cpc = "idle" /\ cpc' = "peers" THEN Complete
                ELSE IF cpc' = "idle" THEN {} ELSE steady
  BY Zenon DEF CollectorMoves, OnlyReading
<1>d. \A s \in Complete : s.info.file = C!protoName(s.info) /\ s.info.iface \in wgUp
  BY CompleteNames, Zenon
<1>e. UNCHANGED stats => (Blind' <=> Blind)
  BY <1>a, Zenon DEF Blind
<1> USE DEF Reads
<1>1. CASE C!GetStats
  BY <1>1, <1>b, <1>c, <1>d, Zenon DEF Snapshot, C!GetStats, C!protoName
<1>2. CASE C!ForEachPeer
  <2>1. cpc = "peers" /\ cpc' = "states" /\ steady' = steady /\ UNCHANGED <<birdc, details>>
    BY <1>2, <1>c, Zenon DEF C!ForEachPeer
  <2>a. closed => Blind'
    BY <1>2, <1>a, Zenon DEF C!ForEachPeer, Blind
  <2>2. ASSUME ~closed
        PROVE  /\ stats' = stats \cap {peers[id].iface : id \in Tracked}
               /\ \A i \in stats' : /\ ifToPeer'[i].id \in Tracked
                                    /\ ifToPeer'[i].info = peers[ifToPeer'[i].id]
                                    /\ ifToPeer'[i].info.iface = i
    <3>1. Tracked = {id \in DOMAIN peers : peers[id] # NoPeer /\ ~closed}
      BY <2>2, Zenon DEF Tracked, TypeOK
    <3> QED
      BY <1>2, <3>1, Zenon DEF C!ForEachPeer
  <2>3. ASSUME ~closed, NEW s \in steady PROVE Kin(s)'
    <3>1. s \in Complete /\ s.info.iface \in stats
      BY <2>1, <2>3, Zenon DEF Snapshot
    <3>2. /\ s.id \in Tracked /\ s.info = peers[s.id]
          /\ \A t \in Tracked : peers[t].iface = s.info.iface => t = s.id
      BY <3>1, CompleteNames, Zenon
    <3>3. s.info.iface \in stats'
      BY <2>2, <2>3, <3>1, <3>2, SMTT(30)
    <3> QED
      BY <2>2, <2>3, <3>2, <3>3 DEF Kin
  <2> QED
    BY <1>b, <2>1, <2>a, <2>3, Zenon DEF Snapshot, C!protoName
<1>3. CASE C!GetBirdStates
  <2>1. /\ cpc = "states" /\ cpc' = "details" /\ steady' = steady
        /\ UNCHANGED <<stats, ifToPeer, details>>
    BY <1>3, <1>c, Zenon DEF C!GetBirdStates
  <2>a. Blind' <=> Blind
    BY <1>e, <2>1, Zenon
  <2>2. ASSUME ~Blind PROVE \A s \in steady : Kin(s) /\ Kin(s)'
    BY <2>1, <2>2, Zenon DEF Snapshot, Kin
  <2>3. ASSUME birdc', ~Blind, NEW s \in steady PROVE C!protoName(s.info) \in birdByProto'
    <3>1. birdByProto' = birdRunning \cap {C!protoName(ifToPeer[i].info) : i \in stats}
      BY <1>3, <2>3, Zenon DEF C!GetBirdStates, C!FromBird
    <3>2. s \in Complete
      BY <2>1, Zenon DEF Snapshot
    <3>3. C!protoName(s.info) \in birdRunning
      BY <3>2, CompleteNames, Zenon
    <3> QED
      BY <2>2, <2>3, <3>1, <3>3 DEF Kin
  <2> QED
    BY <1>b, <2>1, <2>a, <2>2, <2>3, Zenon DEF Snapshot, C!protoName
<1>4. CASE C!GetBirdDetails
  <2>1. /\ cpc = "details" /\ cpc' = "spawn" /\ steady' = steady
        /\ UNCHANGED <<stats, ifToPeer, birdByProto>>
    BY <1>4, <1>c, Zenon DEF C!GetBirdDetails
  <2>2. (birdc' => birdc) /\ details = {}
    BY <1>4, <2>1, SMTT(30) DEF C!GetBirdDetails, C!FromBird, Snapshot
  <2>a. Blind' <=> Blind
    BY <1>e, <2>1, Zenon
  <2>3. ASSUME ~Blind PROVE \A s \in steady : Kin(s) /\ Kin(s)'
    BY <2>1, <2>3, ZenonT(30) DEF Snapshot, Kin
  <2>4. ASSUME birdc', ~Blind, tick' = 0, NEW s \in steady PROVE C!protoName(s.info) \in details'
    <3>1. details' = birdRunning \cap {C!protoName(ifToPeer[i].info) : i \in stats}
      BY <1>4, <2>4, Zenon DEF C!GetBirdDetails, C!FromBird
    <3>2. s \in Complete
      BY <2>1, Zenon DEF Snapshot
    <3>3. C!protoName(s.info) \in birdRunning
      BY <3>2, CompleteNames, Zenon
    <3> QED
      BY <2>3, <2>4, <3>1, <3>3 DEF Kin
  <2>5. tick' # 0 => details' = {}
    BY <1>4, <2>2, Zenon DEF C!GetBirdDetails
  <2> QED
    BY <1>b, <2>1, <2>a, <2>2, <2>3, <2>4, <2>5, Zenon DEF Snapshot, C!protoName
<1>5. CASE C!SpawnPings \/ (\E i \in waiting : C!TakeSlot(i)) \/ (\E i \in pinging : C!PingPeer(i))
           \/ (C!SendHeartbeat /\ cpc' = "return")
  <2>1. UNCHANGED <<stats, ifToPeer, birdByProto, details, tick, birdc>>
    BY <1>5, Zenon DEF C!SpawnPings, C!TakeSlot, C!PingPeer, C!SendHeartbeat
  <2>2. \/ cpc = "spawn" /\ cpc' = "pings"
        \/ cpc' = cpc /\ UNCHANGED heartbeat /\ cpc # "sent"
        \/ cpc' = "return"
    BY <1>5, Zenon
    DEF Pings, C!SpawnPings, C!TakeSlot, C!PingPeer, C!SendHeartbeat
  <2>3. \A s : Kin(s) => Kin(s)'
    BY <2>1, Zenon DEF Kin
  <2>4. steady' = steady \/ cpc' = "idle"
    BY <1>c, <2>2, Zenon
  <2> QED
    BY <1>b, <1>c, <1>e, <2>1, <2>2, <2>3, <2>4, Zenon DEF Snapshot, C!protoName
<1>6. CASE C!SendHeartbeat /\ cpc' = "sent"
  <2>1. /\ cpc = "pings" /\ steady' = steady /\ heartbeat' = C!Metrics
        /\ UNCHANGED <<stats, ifToPeer, birdByProto, details, tick, rttResults, birdc>>
    BY <1>6, <1>c, Zenon DEF C!SendHeartbeat
  <2>2. C!Metrics' = C!Metrics
    BY <2>1, Zenon DEF C!Metrics, C!PeerMetric, C!protoName
  <2>3. \A s : Kin(s) => Kin(s)'
    BY <2>1, Zenon DEF Kin
  <2> QED
    BY <1>6, <1>e, <2>1, <2>2, <2>3, Zenon DEF Snapshot, C!protoName
<1>7. CASE C!Return
  BY <1>7, <1>c, Zenon DEF C!Return, Snapshot
<1> QED
  BY <1>1, <1>2, <1>3, <1>4, <1>5, <1>6, <1>7, Zenon
  DEF CollectorMoves, C!Next, C!CollectStep, C!SendHeartbeat

AgentInv == TypeOK /\ NamesKnown /\ Pings /\ Snapshot

(* Every step of the agent keeps the snapshot. *)
LEMMA SnapshotStep ==
  ASSUME NamesStable, NamesUnique, AgentInv, [AgentNext]_agentVars
  PROVE  Snapshot'
<1> USE DEF AgentInv
<1>1. CASE HandlerMoves
  <2>1. /\ UNCHANGED <<collector, closed>>
        /\ steady' = IF cpc = "sent" THEN steady ELSE steady \cap Complete'
    BY <1>1, Zenon DEF HandlerMoves
  <2> QED
    BY <2>1, SnapshotFrame, Zenon DEF Reads
<1>2. CASE ProcessRestarts
  BY <1>2, Zenon DEF ProcessRestarts, C!Restart, Snapshot, Reads
<1>3. CASE CollectorMoves
  BY <1>3, SnapshotCollect, Zenon
<1>4. CASE CloseStore \/ UNCHANGED agentVars
  <2>1. UNCHANGED <<collector, steady>> /\ UNCHANGED <<peers, wgUp, birdRunning>>
    BY <1>4, Zenon DEF CloseStore, agentVars, vars
  <2>a. closed' = TRUE \/ closed' = closed
    BY <1>4, Zenon DEF CloseStore, agentVars
  <2>b. closed => closed'
    BY <2>a
  <2>2. Complete' = Complete
    BY <2>1, Zenon DEF Complete, Tracked
  <2> QED
    BY <2>1, <2>b, <2>2, SnapshotFrame, Zenon DEF Snapshot
<1> QED
  BY <1>1, <1>2, <1>3, <1>4, Zenon DEF AgentNext

(* A heartbeat built on such a snapshot has one entry for each steady      *)
(* peering, with what SteadyReported asks of it.                           *)
LEMMA SnapshotReported == Snapshot /\ Pings => SteadyReported
<1>1. ASSUME Snapshot, cpc = "sent", Blind PROVE closed /\ heartbeat = {}
  BY <1>1, Zenon DEF Snapshot, Blind, C!Metrics
<1>2. ASSUME Snapshot, Pings, cpc = "sent", ~Blind, NEW s \in steady PROVE Reported(s)
  <2> DEFINE own == C!PeerMetric(s.info.iface)
  <2>1. Kin(s) /\ heartbeat = C!Metrics
    BY <1>2, Zenon DEF Snapshot
  <2>2. own \in heartbeat
    BY <2>1, Zenon DEF C!Metrics, Kin
  <2>3. \A i : C!PeerMetric(i).iface = i /\ C!PeerMetric(i).peer = ifToPeer[i].id
    BY Zenon DEF C!PeerMetric
  <2>4. \A f \in heartbeat : f.peer = s.id \/ f.iface = s.info.iface => f = own
    BY <2>1, <2>3, SMTT(30) DEF C!Metrics, Kin
  <2>5. own.peer = s.id /\ own.iface = s.info.iface /\ own.asn = s.info.asn
    BY <2>1, Zenon DEF C!PeerMetric, Kin
  <2>6. birdc => own.bgp /\ (own.routes <=> tick = 0)
    BY <1>2, <2>1, Zenon DEF C!PeerMetric, Kin, Snapshot
  <2>7. own.rtt <=> s.id \notin NoLLA /\ own.iface \notin unanswered
    <3>1. own.rtt = (s.info.iface \in rttResults) /\ own.iface = s.info.iface
      BY Zenon DEF C!PeerMetric
    <3>2. /\ rttResults \cup unanswered = {i \in stats : ifToPeer[i].id \notin NoLLA}
          /\ rttResults \cap unanswered = {}
      BY <1>2 DEF Pings
    <3>3. s.info.iface \in rttResults \cup unanswered <=> s.id \notin NoLLA
      BY <2>1, <3>2, Zenon DEF Kin
    <3> HIDE DEF own
    <3> QED
      BY <3>1, <3>2, <3>3, Zenon
  <2>8. {f \in heartbeat : f.peer = s.id \/ f.iface = s.info.iface} = {own}
    BY <2>2, <2>4, <2>5, Zenon
  <2> HIDE DEF own
  <2> QED
    BY <2>2, <2>5, <2>6, <2>7, <2>8, Zenon DEF Reported
<1> QED
  BY <1>1, <1>2, Zenon DEF SteadyReported

(* A peering that stays complete while collect runs is in the heartbeat,   *)
(* once and with its own data, for any peers whose names are stable and    *)
(* their own and any number of ping slots: the other work of the peer      *)
(* commands never hides or mixes it up.  Only agent.update, which closes   *)
(* the store before it restarts the process, can empty a heartbeat.        *)
THEOREM HeartbeatComplete ==
  ASSUME NamesStable, NamesUnique
  PROVE  AgentSpec => []SteadyReported
<1>1. AgentInit => Snapshot
  BY Zenon DEF AgentInit, C!Init, Snapshot, Reads
<1>2. Ownership => TypeOK /\ NamesKnown
  BY Zenon DEF Ownership
<1>3. TypeOK /\ NamesKnown /\ Pings /\ Snapshot /\ [AgentNext]_agentVars => Snapshot'
  BY SnapshotStep, Zenon DEF AgentInv
<1> QED
  BY <1>1, <1>2, <1>3, SnapshotReported, CollectorOnlyReads, OwnershipInvariant,
     PingsAccounted, PTL DEF AgentSpec
=============================================================================
