------------------------------ MODULE Collector ------------------------------
(***************************************************************************)
(* The metrics collector (internal/metrics): on every tick it reads        *)
(* WireGuard, the store and BIRD one after another, pings the peers from a *)
(* bounded pool of goroutines and sends a heartbeat.  It takes no lock     *)
(* that the command handlers hold over more than one call, so they may     *)
(* change anything between two of its reads.                               *)
(*                                                                         *)
(* Counters, handshakes and RTTs are left out: an entry says which parts   *)
(* it carries.  A protocol is named like the file that defines it.  bird's *)
(* RWMutex makes each call of the manager one step and nothing more.       *)
(***************************************************************************)
EXTENDS Naturals, FiniteSets

CONSTANTS
  NoPeer,             \* GetPeer's "not found"
  Slots,              \* capacity of the ping pool (5)
  BirdDetailInterval, \* bird_detail_interval of the configuration
  NoLLA,              \* peers without a remote link-local address
  CollectFaults       \* which calls may fail

VARIABLES
  peers,       \* read: the store
  wgUp,        \* read: interfaces that are up
  birdRunning, \* read: protocols BIRD runs
  closed,      \* read: handleAgentUpdate has closed the store
  cpc,         \* where collect is
  stats,       \* interfaces GetStats found
  ifToPeer,    \* ifToPeer and ifToInfo: interface -> peer id and info
  birdByProto, \* protocols with a state
  details,     \* protocols with route counts
  tick,        \* tickCount modulo birdDetailEvery
  waiting,     \* ping goroutines without a slot
  pinging,     \* ping goroutines with one
  rttResults,  \* interfaces with an RTT
  unanswered,  \* history: interfaces whose ping returned without one
  birdc,       \* history: every birdc call of this collect succeeded
  heartbeat    \* the peers[] of the heartbeat just sent

seen == <<peers, wgUp, birdRunning, closed>>

CFault(k) == k \in CollectFaults

birdDetailEvery == IF BirdDetailInterval < 1 THEN 2 ELSE BirdDetailInterval

NoMap == [i \in {} |-> NoPeer]

(* main starts one collector ... *)
Init ==
  /\ cpc = "idle" /\ stats = {} /\ ifToPeer = NoMap
  /\ birdByProto = {} /\ details = {} /\ tick = 0
  /\ waiting = {} /\ pinging = {} /\ rttResults = {} /\ unanswered = {}
  /\ birdc = TRUE /\ heartbeat = {}

(* ... and a new process starts another. *)
Restart ==
  /\ cpc' = "idle" /\ stats' = {} /\ ifToPeer' = NoMap
  /\ birdByProto' = {} /\ details' = {} /\ tick' = 0
  /\ waiting' = {} /\ pinging' = {} /\ rttResults' = {} /\ unanswered' = {}
  /\ birdc' = TRUE /\ heartbeat' = {}

-----------------------------------------------------------------------------
(* A tick: GetStats.  If wg fails there is no heartbeat and the tick does  *)
(* not count.                                                              *)
GetStats ==
  /\ cpc = "idle"
  /\ \/ stats' = wgUp /\ cpc' = "peers"
     \/ CFault("wg") /\ UNCHANGED <<stats, cpc>>
  /\ UNCHANGED <<seen, ifToPeer, birdByProto, details, tick, waiting, pinging,
                 rttResults, unanswered, birdc, heartbeat>>

(* ForEachPeer, one read transaction.  Of two peers on one interface the   *)
(* one visited last stays.  Interfaces without stats are not looked up     *)
(* again, nor are stats of interfaces without a peer.  A closed store      *)
(* yields an error, which collect ignores, and no peer.                    *)
ForEachPeer ==
  /\ cpc = "peers"
  /\ LET tracked == {id \in DOMAIN peers : peers[id] # NoPeer /\ ~closed}
         ifaces == stats \cap {peers[id].iface : id \in tracked}
     IN \E f \in [ifaces -> [id : tracked, info : {peers[id] : id \in tracked}]] :
          /\ \A i \in ifaces : f[i].info = peers[f[i].id] /\ f[i].info.iface = i
          /\ ifToPeer' = f
          /\ stats' = ifaces
  /\ cpc' = "states"
  /\ UNCHANGED <<seen, birdByProto, details, tick, waiting, pinging,
                 rttResults, unanswered, birdc, heartbeat>>

protoName(info) == <<"dn42_", info.asn>>

(* What a birdc query yields for the protocols that will be looked up; an  *)
(* error leaves the map empty.                                             *)
FromBird(found) ==
  \/ /\ found = birdRunning \cap {protoName(ifToPeer[i].info) : i \in stats}
     /\ UNCHANGED birdc
  \/ CFault("birdc") /\ found = {} /\ birdc' = FALSE

GetBirdStates ==
  /\ cpc = "states"
  /\ FromBird(birdByProto')
  /\ cpc' = "details"
  /\ UNCHANGED <<seen, stats, ifToPeer, details, tick, waiting, pinging,
                 rttResults, unanswered, heartbeat>>

(* Seeded fault: the count does not start again. *)
GetBirdDetailsOnce ==
  /\ cpc = "details"
  /\ tick' = tick + 1
  /\ \/ tick' = birdDetailEvery /\ FromBird(details')
     \/ tick' # birdDetailEvery /\ UNCHANGED <<details, birdc>>
  /\ cpc' = "spawn"
  /\ UNCHANGED <<seen, stats, ifToPeer, birdByProto, waiting, pinging,
                 rttResults, unanswered, heartbeat>>

(* The details, on every birdDetailEvery-th tick. *)
GetBirdDetails ==
  /\ cpc = "details"
  /\ tick' = (tick + 1) % birdDetailEvery
  /\ \/ tick' = 0 /\ FromBird(details')
     \/ tick' # 0 /\ UNCHANGED <<details, birdc>>
  /\ cpc' = "spawn"
  /\ UNCHANGED <<seen, stats, ifToPeer, birdByProto, waiting, pinging,
                 rttResults, unanswered, heartbeat>>

-----------------------------------------------------------------------------
(* One goroutine for each reported interface with an address to ping. *)
SpawnPings ==
  /\ cpc = "spawn"
  /\ waiting' = {i \in stats : ifToPeer[i].id \notin NoLLA}
  /\ cpc' = "pings"
  /\ UNCHANGED <<seen, stats, ifToPeer, birdByProto, details, tick, pinging,
                 rttResults, unanswered, birdc, heartbeat>>

TakeSlot(i) ==
  /\ i \in waiting
  /\ Cardinality(pinging) < Slots
  /\ waiting' = waiting \ {i}
  /\ pinging' = pinging \cup {i}
  /\ UNCHANGED <<seen, cpc, stats, ifToPeer, birdByProto, details, tick,
                 rttResults, unanswered, birdc, heartbeat>>

(* Seeded fault: a ping without an answer is tried again. *)
PingPeerRetrying(i) ==
  /\ i \in pinging
  /\ pinging' = pinging \ {i}
  /\ \/ rttResults' = rttResults \cup {i} /\ UNCHANGED waiting
     \/ CFault("ping") /\ waiting' = waiting \cup {i} /\ UNCHANGED rttResults
  /\ UNCHANGED <<seen, cpc, stats, ifToPeer, birdByProto, details, tick,
                 unanswered, birdc, heartbeat>>

(* PingPeer returns, with or without an RTT, and the slot is given back. *)
PingPeer(i) ==
  /\ i \in pinging
  /\ pinging' = pinging \ {i}
  /\ \/ rttResults' = rttResults \cup {i} /\ UNCHANGED unanswered
     \/ CFault("ping") /\ unanswered' = unanswered \cup {i} /\ UNCHANGED rttResults
  /\ UNCHANGED <<seen, cpc, stats, ifToPeer, birdByProto, details, tick, waiting,
                 birdc, heartbeat>>

-----------------------------------------------------------------------------
PeerMetric(i) ==
  LET p == ifToPeer[i]
  IN [peer |-> p.id, iface |-> i, asn |-> p.info.asn,
      bgp |-> protoName(p.info) \in birdByProto,
      routes |-> protoName(p.info) \in details,
      rtt |-> i \in rttResults]

Metrics == {PeerMetric(i) : i \in stats}

(* Seeded fault: the heartbeat does not wait for the pings. *)
SendHeartbeatEarly ==
  /\ cpc = "pings"
  /\ heartbeat' = Metrics /\ cpc' = "sent"
  /\ UNCHANGED <<seen, stats, ifToPeer, birdByProto, details, tick, waiting,
                 pinging, rttResults, unanswered, birdc>>

(* wg2.Wait, then the entries and Send; its error is only logged. *)
SendHeartbeat ==
  /\ cpc = "pings" /\ waiting = {} /\ pinging = {}
  /\ \/ heartbeat' = Metrics /\ cpc' = "sent"
     \/ CFault("send") /\ cpc' = "return" /\ UNCHANGED heartbeat
  /\ UNCHANGED <<seen, stats, ifToPeer, birdByProto, details, tick, waiting,
                 pinging, rttResults, unanswered, birdc>>

(* collect returns and its locals are gone. *)
Return ==
  /\ cpc \in {"sent", "return"}
  /\ cpc' = "idle" /\ stats' = {} /\ ifToPeer' = NoMap
  /\ birdByProto' = {} /\ details' = {} /\ rttResults' = {} /\ unanswered' = {}
  /\ birdc' = TRUE /\ heartbeat' = {}
  /\ UNCHANGED <<seen, tick, waiting, pinging>>

CollectStep ==
  \/ ForEachPeer \/ GetBirdStates \/ GetBirdDetails \/ SpawnPings
  \/ \E i \in waiting : TakeSlot(i)
  \/ \E i \in pinging : PingPeer(i)
  \/ SendHeartbeat \/ Return

Next == GetStats \/ CollectStep
==============================================================================
