-------------------------------- MODULE Agent --------------------------------
(***************************************************************************)
(* The two activities of a running agent that share the store, WireGuard   *)
(* and BIRD: the command handlers (PeerLifecycle), on the goroutine that   *)
(* reads the websocket, and the metrics collector (Collector), on one of   *)
(* its own.  They interleave at every call.  Of agent.update (OtaUpdate)   *)
(* only its end is here, which the collector can see: the store is closed  *)
(* some time before the process is replaced.                               *)
(***************************************************************************)
EXTENDS PeerLifecycle, Integers

CONSTANTS Slots, BirdDetailInterval, NoLLA, CollectFaults

ASSUME CollectorAssumption ==
  Slots \in Nat \ {0} /\ BirdDetailInterval \in Int /\ NoLLA \subseteq PeerIds

VARIABLES
  cpc, stats, ifToPeer, birdByProto, details, tick, waiting, pinging,
  rttResults, unanswered, birdc, heartbeat,
  closed, \* handleAgentUpdate has closed the store
  steady  \* history: the peerings that are complete since the last GetStats

C == INSTANCE Collector

collector == <<cpc, stats, ifToPeer, birdByProto, details, tick, waiting, pinging,
               rttResults, unanswered, birdc, heartbeat>>
agentVars == <<vars, collector, closed, steady>>

(* The peerings with everything that peer.add builds. *)
Complete ==
  {[id |-> id, info |-> peers[id]] :
     id \in {t \in Tracked : peers[t].iface \in wgUp /\ peers[t].file \in birdRunning}}

AgentInit == Init /\ C!Init /\ closed = FALSE /\ steady = {}

(* A command handler's step; a heartbeat's history ends when it is sent. *)
HandlerMoves ==
  /\ ~closed
  /\ \/ \E p \in Peerings : handlePeerAdd(p)
     \/ \E p \in Peerings : handlePeerRemove(p.id, p.asn) \/ handlePeerRemove(p.id, 0)
     \/ \E S \in SUBSET Peerings : handlePeersSync(S)
     \/ HandlerStep
  /\ UNCHANGED <<collector, closed>>
  /\ steady' = IF cpc = "sent" THEN steady ELSE steady \cap Complete'

(* handleAgentUpdate has installed the new binary: it closes the store and *)
(* sleeps.  No other command is read until the process is replaced, but    *)
(* the collector goes on.                                                  *)
CloseStore ==
  /\ pc = "idle" /\ ~closed
  /\ closed' = TRUE
  /\ UNCHANGED <<vars, collector, steady>>

(* The process ends in the middle of everything, or in RestartSelf, and is *)
(* started again.                                                          *)
ProcessRestarts ==
  /\ Crash \/ Reboot \/ (closed /\ UNCHANGED vars)
  /\ C!Restart
  /\ closed' = FALSE
  /\ steady' = {}

(* The collector's step. *)
OnlyReading ==
  /\ UNCHANGED <<vars, closed>>
  /\ steady' = IF cpc = "idle" /\ cpc' = "peers" THEN Complete
               ELSE IF cpc' = "idle" THEN {} ELSE steady

CollectorMoves == C!Next /\ OnlyReading

AgentNext == HandlerMoves \/ CloseStore \/ ProcessRestarts \/ CollectorMoves
AgentSpec == AgentInit /\ [][AgentNext]_agentVars

(* The scheduler runs every goroutine, and every command the collector     *)
(* starts has a timeout or ends by itself.                                 *)
FairAgentSpec ==
  /\ AgentSpec
  /\ WF_agentVars(C!CollectStep /\ OnlyReading)

-----------------------------------------------------------------------------
(* Type correctness of the collector's state. *)
CollectorTypeOK ==
  /\ cpc \in {"idle", "peers", "states", "details", "spawn", "pings", "sent",
              "return"}
  /\ stats \subseteq Ifaces /\ DOMAIN ifToPeer \subseteq Ifaces
  /\ \A i \in DOMAIN ifToPeer : ifToPeer[i] \in [id : PeerIds, info : PeerInfo]
  /\ birdByProto \subseteq Files /\ details \subseteq Files
  /\ tick \in 0 .. C!birdDetailEvery - 1
  /\ waiting \subseteq Ifaces /\ pinging \subseteq Ifaces
  /\ rttResults \subseteq Ifaces /\ unanswered \subseteq Ifaces
  /\ birdc \in BOOLEAN /\ closed \in BOOLEAN

(* Whatever the handlers do to other peers while collect reads WireGuard,  *)
(* the store and BIRD one after another and pings, a peering that is       *)
(* complete from GetStats until the heartbeat is sent has exactly one      *)
(* entry in it: with its own ASN, with a BGP state unless birdc failed,    *)
(* with its route counts on every birdDetailEvery-th tick, and with an RTT *)
(* unless it has no address or its own ping was not answered.  The one     *)
(* exception is a heartbeat between the end of agent.update and the        *)
(* restart: it may find the store closed, and then has no entry at all.    *)
Reported(s) ==
  \E e \in heartbeat :
    /\ {f \in heartbeat : f.peer = s.id \/ f.iface = s.info.iface} = {e}
    /\ e.peer = s.id /\ e.iface = s.info.iface /\ e.asn = s.info.asn
    /\ birdc => e.bgp /\ (e.routes <=> tick = 0)
    /\ e.rtt <=> s.id \notin NoLLA /\ e.iface \notin unanswered

SteadyReported ==
  cpc = "sent" => (closed /\ heartbeat = {}) \/ \A s \in steady : Reported(s)

(* Every collect comes to its end, whichever pings go unanswered and       *)
(* however few slots there are, so that the next tick is heard.            *)
CollectEnds == cpc = "peers" ~> cpc = "idle"
==============================================================================
