---------------------------- MODULE PeerLifecycle ----------------------------
(***************************************************************************)
(* The peer commands of the agent: peer.add, peer.remove and peers.sync    *)
(* (internal/handler/handler.go), over the persistent peer map             *)
(* (internal/store), the WireGuard manager (internal/wg) and the BIRD      *)
(* manager (internal/bird).                                                *)
(*                                                                         *)
(* The handlers run one at a time, on the goroutine that reads the         *)
(* websocket, but none of them is atomic: each is a sequence of calls that *)
(* change a file, run wg-quick or birdc, or commit to the store, and every *)
(* call may fail or be the last one before the process dies.  One step     *)
(* here is one such call together with the branch the handler takes on its *)
(* result.                                                                 *)
(*                                                                         *)
(* Abstractions:                                                           *)
(*  - file contents are left out: a config is there or it is not;          *)
(*  - a sync list is a set, visited in any order;                          *)
(*  - what a peering carries besides its names is reduced to which of the  *)
(*    two fields AddPeerWithIface insists on are present (cfg).            *)
(***************************************************************************)
EXTENDS Naturals

CONSTANTS
  PeerIds,      \* peer_id values, keys of the store's peer bucket
  Peerings,     \* the peer payloads the center may send
  CustomIfaces, \* interface names the center may choose itself
  CustomFiles,  \* BIRD file names the center may choose itself
  FaultKinds,   \* which calls may fail in this instance
  Goals,        \* the lists the center may settle on, once failures have stopped
  NoPeer        \* GetPeer's "not found"

Unset == ""
Cfgs == {"full", "noEndpoint", "noKey"}

(* Names derived from the ASN: dn42<ASN> and dn42_<ASN>.conf. *)
InterfaceName(asn) == <<"dn42", asn>>
BirdFileName(asn) == <<"dn42_", asn>>

Ifaces == CustomIfaces \cup {InterfaceName(p.asn) : p \in Peerings}
Files == CustomFiles \cup {BirdFileName(p.asn) : p \in Peerings}
PeerInfo == [asn : {p.asn : p \in Peerings}, iface : Ifaces, file : Files]

ASSUME PeeringsAssumption ==
  /\ Peerings \subseteq [id : PeerIds, asn : Nat, cfg : Cfgs,
                         iface : CustomIfaces \cup {Unset},
                         file : CustomFiles \cup {Unset}]
  /\ Peerings # {}
  /\ Goals \subseteq SUBSET Peerings
  /\ NoPeer \notin PeerInfo

(* What the handlers resolve a payload to before they act on it. *)
Info(p) ==
  [asn   |-> p.asn,
   iface |-> IF p.iface = Unset THEN InterfaceName(p.asn) ELSE p.iface,
   file  |-> IF p.file = Unset THEN BirdFileName(p.asn) ELSE p.file]

Job(p) == [id |-> p.id, cfg |-> p.cfg, info |-> Info(p)]
Jobs == {Job(p) : p \in Peerings}

(* Before a handler has made its first call: any job will do. *)
NoJob == CHOOSE j \in Jobs : TRUE

(* A sync list names each peer once. *)
Consistent(S) == \A p, q \in S : p.id = q.id => p = q

-----------------------------------------------------------------------------
VARIABLES
  peers,       \* the store: PeerIds -> PeerInfo, or NoPeer
  wgConf,      \* interfaces whose <wg_dir>/<iface>.conf exists
  wgUp,        \* interfaces that are up in the kernel
  birdConf,    \* peer files in <bird_peer_dir>
  birdRunning, \* peer files in the configuration BIRD runs
  pc,          \* the call the running handler makes next
  cur,         \* the peer that call is about
  todo,        \* peers.sync: payload entries not visited yet
  m,           \* peers.sync: entries recorded for ReplaceAll
  applied,     \* peers.sync: result.Success
  notApplied,  \* peers.sync: result.Failed
  failed,      \* peers.sync: the current entry's WireGuard step failed
  stalePeers,  \* peers.sync: entries still to tear down
  reply,       \* the answer just sent
  hurt,        \* history: a failure that the handlers do not undo happened
  ignored,     \* history: a removal failed, which its callers do not notice
  calm,        \* the environment no longer fails ...
  goal         \* ... and the center now syncs this list only

store == <<peers>>
wg == <<wgConf, wgUp>>
bird == <<birdConf, birdRunning>>
sync == <<todo, m, applied, notApplied, failed, stalePeers>>
env == <<calm, goal>>
vars == <<peers, wgConf, wgUp, birdConf, birdRunning, pc, cur, todo, m, applied,
          notApplied, failed, stalePeers, reply, hurt, ignored, calm, goal>>

AddPcs == {"addEvict", "addWg", "addBird", "addUndoWg", "addPut", "addUndoBird"}
RemovePcs == {"remBird", "remWg", "remStore"}
SyncPcs == {"syncNext", "syncWg", "syncBird", "stale", "staleWg"}
Replies == {"none", "active", "added", "addFailed", "unknown", "removed", "synced"}

Tracked == {id \in PeerIds : peers[id] # NoPeer}
TrackedIfaces == {peers[id].iface : id \in Tracked}
TrackedFiles == {peers[id].file : id \in Tracked}

Fault(k) == k \in FaultKinds /\ ~calm

Init ==
  /\ peers = [id \in PeerIds |-> NoPeer]
  /\ wgConf = {} /\ wgUp = {} /\ birdConf = {} /\ birdRunning = {}
  /\ pc = "idle"
  /\ cur = NoJob
  /\ todo = {} /\ m = {} /\ applied = {} /\ notApplied = {}
  /\ failed = FALSE /\ stalePeers = {}
  /\ reply = "none" /\ hurt = FALSE /\ ignored = FALSE
  /\ calm = FALSE /\ goal = {}

-----------------------------------------------------------------------------
(* internal/wg.  wg-quick up refuses an interface that exists; wg-quick    *)
(* down needs the config file.  A failed write or up leaves the file       *)
(* behind.  The removal ignores its errors: what it could not take down    *)
(* or delete stays.                                                        *)

ValidConfig(j) == j.info.asn > 0 /\ j.cfg = "full"

AddPeerWithIfaceOk(j) ==
  /\ ValidConfig(j)
  /\ j.info.iface \notin wgUp
  /\ wgConf' = wgConf \cup {j.info.iface}
  /\ wgUp' = wgUp \cup {j.info.iface}
  /\ UNCHANGED <<hurt, ignored>>

AddPeerWithIfaceErr(j) ==
  \/ /\ ~ValidConfig(j) \/ Fault("io")
     /\ UNCHANGED <<wg, hurt, ignored>>
  \/ /\ ValidConfig(j)
     /\ j.info.iface \in wgUp \/ Fault("wgUp") \/ Fault("io")
     /\ wgConf' = wgConf \cup {j.info.iface}
     /\ hurt' = TRUE
     /\ UNCHANGED <<wgUp, ignored>>

RemovePeerByIface(i) ==
  /\ \/ wgUp' = IF i \in wgConf THEN wgUp \ {i} ELSE wgUp
     \/ Fault("wgDown") /\ UNCHANGED wgUp
  /\ \/ wgConf' = wgConf \ {i}
     \/ Fault("io") /\ UNCHANGED wgConf
  /\ hurt' = (hurt \/ i \in wgConf' \/ i \in wgConf \cap wgUp')
  /\ ignored' = (ignored \/ i \in wgConf' \/ i \in wgConf \cap wgUp')

(* internal/bird.  A failed or timed-out "birdc configure" may or may not  *)
(* have reached BIRD.  A failed write leaves the file behind, and so does  *)
(* os.Remove when it fails, whose error is ignored.                        *)

ReloadLockedOk ==
  /\ birdRunning' = birdConf'
  /\ UNCHANGED hurt

ReloadLockedErr ==
  /\ Fault("birdReload")
  /\ birdRunning' \in {birdRunning, birdConf'}
  /\ hurt' = TRUE

(* Seeded fault: the file is written, BIRD is not told. *)
BirdAddPeerWithoutReload(f) ==
  /\ birdConf' = birdConf \cup {f}
  /\ UNCHANGED <<birdRunning, hurt, ignored>>

BirdAddPeerOk(f) ==
  /\ birdConf' = birdConf \cup {f}
  /\ ReloadLockedOk
  /\ UNCHANGED ignored

BirdAddPeerErr(f) ==
  \/ /\ Fault("io")
     /\ UNCHANGED <<bird, hurt, ignored>>
  \/ /\ Fault("birdCheck")
     /\ birdConf' = birdConf \ {f}
     /\ UNCHANGED <<birdRunning, hurt, ignored>>
  \/ /\ Fault("io")
     /\ birdConf' = birdConf \cup {f}
     /\ hurt' = TRUE
     /\ UNCHANGED <<birdRunning, ignored>>
  \/ /\ birdConf' = birdConf \cup {f}
     /\ ReloadLockedErr
     /\ UNCHANGED ignored

RemovePeerByFilename(f) ==
  \/ /\ birdConf' = birdConf \ {f}
     /\ \/ ReloadLockedOk /\ UNCHANGED ignored
        \/ ReloadLockedErr /\ ignored' = TRUE
  \/ /\ Fault("io")
     /\ f \in birdConf
     /\ UNCHANGED birdConf
     /\ birdRunning' = birdConf \/ (Fault("birdReload") /\ UNCHANGED birdRunning)
     /\ hurt' = TRUE /\ ignored' = TRUE

(* internal/store: one transaction each. *)
PutPeer(id, info) == peers' = [peers EXCEPT ![id] = info]
DeletePeer(id) == peers' = [peers EXCEPT ![id] = NoPeer]

-----------------------------------------------------------------------------
Goto(l) == pc' = l /\ UNCHANGED reply
Respond(r) == pc' = "idle" /\ reply' = r

(* The locals of handlePeersSync go out of scope, at the latest when the   *)
(* next handler starts.                                                    *)
NoSync ==
  /\ todo' = {} /\ m' = {} /\ applied' = {} /\ notApplied' = {}
  /\ failed' = FALSE /\ stalePeers' = {}

(* peer.add.  The payload has no BIRD file name, so peerings that carry    *)
(* one only ever arrive in a sync.                                         *)
handlePeerAdd(p) ==
  /\ pc = "idle" /\ ~calm
  /\ p.file = Unset
  /\ cur' = Job(p)
  /\ IF p.id \in Tracked /\ Info(p).iface \in wgUp
     THEN Respond("active")
     ELSE /\ pc' = IF Info(p).iface \in wgUp THEN "addEvict" ELSE "addWg"
          /\ reply' = "none"
  /\ NoSync
  /\ UNCHANGED <<store, wg, bird, hurt, ignored, env>>

AddEvict ==
  /\ pc = "addEvict"
  /\ RemovePeerByIface(cur.info.iface)
  /\ Goto("addWg")
  /\ UNCHANGED <<store, bird, cur, sync, env>>

AddWg ==
  /\ pc = "addWg"
  /\ \/ AddPeerWithIfaceOk(cur) /\ Goto("addBird")
     \/ AddPeerWithIfaceErr(cur) /\ Respond("addFailed")
  /\ UNCHANGED <<store, bird, cur, sync, env>>

(* Seeded fault: a failed BIRD step does not undo the WireGuard step. *)
AddBirdWithoutUndo ==
  /\ pc = "addBird"
  /\ \/ BirdAddPeerOk(BirdFileName(cur.info.asn)) /\ Goto("addPut")
     \/ BirdAddPeerErr(BirdFileName(cur.info.asn)) /\ Respond("addFailed")
  /\ UNCHANGED <<store, wg, cur, sync, env>>

AddBird ==
  /\ pc = "addBird"
  /\ \/ BirdAddPeerOk(BirdFileName(cur.info.asn)) /\ Goto("addPut")
     \/ BirdAddPeerErr(BirdFileName(cur.info.asn)) /\ Goto("addUndoWg")
  /\ UNCHANGED <<store, wg, cur, sync, env>>

AddUndoWg ==
  /\ pc = "addUndoWg"
  /\ RemovePeerByIface(cur.info.iface)
  /\ Respond("addFailed")
  /\ UNCHANGED <<store, bird, cur, sync, env>>

AddPut ==
  /\ pc = "addPut"
  /\ \/ /\ PutPeer(cur.id, [cur.info EXCEPT !.file = BirdFileName(cur.info.asn)])
        /\ Respond("added")
     \/ Fault("store") /\ Goto("addUndoBird") /\ UNCHANGED store
  /\ UNCHANGED <<wg, bird, cur, sync, hurt, ignored, env>>

AddUndoBird ==
  /\ pc = "addUndoBird"
  /\ RemovePeerByFilename(BirdFileName(cur.info.asn))
  /\ Goto("addUndoWg")
  /\ UNCHANGED <<store, wg, cur, sync, env>>

-----------------------------------------------------------------------------
(* Seeded fault: the store's answer is used without a check. *)
handlePeerRemoveUnchecked(id, asn) ==
  /\ pc = "idle" /\ ~calm
  /\ cur' = [id |-> id, cfg |-> "noKey", info |-> peers[id]]
  /\ pc' = "remBird" /\ reply' = "none"
  /\ NoSync
  /\ UNCHANGED <<store, wg, bird, hurt, ignored, env>>

(* peer.remove, with the peer's ASN or without it.  The ASN of the payload *)
(* only matters for a peer the store does not know; entries of the store   *)
(* always carry both names.                                                *)
handlePeerRemove(id, asn) ==
  /\ pc = "idle" /\ ~calm
  /\ IF id \notin Tracked /\ asn = 0
     THEN Respond("unknown") /\ UNCHANGED cur
     ELSE /\ cur' = [id |-> id, cfg |-> "noKey",
                     info |-> IF id \in Tracked THEN peers[id]
                              ELSE [asn |-> asn, iface |-> InterfaceName(asn),
                                    file |-> BirdFileName(asn)]]
          /\ pc' = "remBird" /\ reply' = "none"
  /\ NoSync
  /\ UNCHANGED <<store, wg, bird, hurt, ignored, env>>

RemoveBird ==
  /\ pc = "remBird"
  /\ RemovePeerByFilename(cur.info.file)
  /\ Goto("remWg")
  /\ UNCHANGED <<store, wg, cur, sync, env>>

(* Seeded fault: the interface is named after the ASN, whatever its name. *)
RemoveWgByAsn ==
  /\ pc = "remWg"
  /\ RemovePeerByIface(InterfaceName(cur.info.asn))
  /\ Goto("remStore")
  /\ UNCHANGED <<store, bird, cur, sync, env>>

RemoveWg ==
  /\ pc = "remWg"
  /\ RemovePeerByIface(cur.info.iface)
  /\ Goto("remStore")
  /\ UNCHANGED <<store, bird, cur, sync, env>>

RemoveStore ==
  /\ pc = "remStore"
  /\ \/ DeletePeer(cur.id)
     \/ Fault("store") /\ UNCHANGED store
  /\ Respond("removed")
  /\ UNCHANGED <<wg, bird, cur, sync, hurt, ignored, env>>

-----------------------------------------------------------------------------
(* peers.sync. *)
handlePeersSync(S) ==
  /\ pc = "idle"
  /\ Consistent(S)
  /\ calm => S = goal
  /\ todo' = {Job(p) : p \in S}
  /\ m' = {} /\ applied' = {} /\ notApplied' = {}
  /\ failed' = FALSE /\ stalePeers' = {}
  /\ pc' = "syncNext" /\ reply' = "none"
  /\ cur' = NoJob
  /\ UNCHANGED <<store, wg, bird, hurt, ignored, env>>

(* The head of the loop: an entry is dropped, sent to the WireGuard step,  *)
(* or straight to the BIRD step.                                           *)
Dropped(j) ==
  \/ j.info.asn = 0
  \/ j.cfg = "noKey" /\ j.info.iface \notin wgConf

(* Seeded fault: a config file counts as an interface that is up. *)
NeedsWgByConf(j) == j.cfg # "noKey" /\ j.info.iface \notin wgConf

NeedsWg(j) == j.cfg # "noKey" /\ j.info.iface \notin wgConf \cap wgUp

SyncNext ==
  /\ pc = "syncNext"
  /\ \E j \in todo :
       /\ todo' = todo \ {j}
       /\ \/ Dropped(j) /\ Goto("syncNext") /\ UNCHANGED cur
          \/ ~Dropped(j) /\ NeedsWg(j) /\ Goto("syncWg") /\ cur' = j
          \/ ~Dropped(j) /\ ~NeedsWg(j) /\ Goto("syncBird") /\ cur' = j
  /\ failed' = FALSE
  /\ UNCHANGED <<store, wg, bird, m, applied, notApplied, stalePeers, hurt, ignored, env>>

(* Seeded fault: a failed WireGuard step is forgotten. *)
SyncWgForgiving ==
  /\ pc = "syncWg"
  /\ AddPeerWithIfaceOk(cur) \/ AddPeerWithIfaceErr(cur)
  /\ Goto("syncBird")
  /\ UNCHANGED <<store, bird, cur, todo, m, applied, notApplied, failed, stalePeers, env>>

SyncWg ==
  /\ pc = "syncWg"
  /\ \/ AddPeerWithIfaceOk(cur) /\ UNCHANGED failed
     \/ AddPeerWithIfaceErr(cur) /\ failed' = TRUE
  /\ Goto("syncBird")
  /\ UNCHANGED <<store, bird, cur, todo, m, applied, notApplied, stalePeers, env>>

(* The BIRD step and the bookkeeping at the end of the loop body.  A       *)
(* missing file is recreated under the default name.                       *)
Record(ok) ==
  /\ m' = m \cup {cur}
  /\ applied' = IF ok THEN applied \cup {cur.id} ELSE applied
  /\ notApplied' = IF ok THEN notApplied ELSE notApplied \cup {cur.id}

(* Seeded fault: an entry that could not be set up is not recorded. *)
SyncBirdForgetful ==
  /\ pc = "syncBird"
  /\ \/ cur.info.file \in birdConf /\ ~failed /\ Record(TRUE) /\ UNCHANGED <<bird, hurt, ignored>>
     \/ failed /\ UNCHANGED <<bird, m, applied, notApplied, hurt, ignored>>
     \/ /\ cur.info.file \notin birdConf /\ ~failed
        /\ BirdAddPeerOk(BirdFileName(cur.info.asn)) /\ Record(TRUE)
  /\ Goto("syncNext")
  /\ UNCHANGED <<store, wg, cur, todo, failed, stalePeers, env>>

SyncBird ==
  /\ pc = "syncBird"
  /\ \/ cur.info.file \in birdConf /\ Record(~failed) /\ UNCHANGED <<bird, hurt, ignored>>
     \/ /\ cur.info.file \notin birdConf
        /\ \/ BirdAddPeerOk(BirdFileName(cur.info.asn)) /\ Record(~failed)
           \/ BirdAddPeerErr(BirdFileName(cur.info.asn)) /\ Record(FALSE)
  /\ Goto("syncNext")
  /\ UNCHANGED <<store, wg, cur, todo, failed, stalePeers, env>>

(* Collect the stale entries, then replace the map in one transaction      *)
(* whose error the handler ignores.                                        *)
Ids(jobs) == {j.id : j \in jobs}

ReplacedBy(jobs) ==
  [id \in PeerIds |-> IF id \in Ids(jobs)
                      THEN (CHOOSE j \in jobs : j.id = id).info
                      ELSE NoPeer]

(* Seeded fault: every peer of the old map is stale. *)
ReplaceAllStale ==
  /\ pc = "syncNext" /\ todo = {}
  /\ stalePeers' = {peers[id] : id \in Tracked}
  /\ peers' = ReplacedBy(m)
  /\ Goto("stale")
  /\ UNCHANGED <<wg, bird, cur, todo, m, applied, notApplied, failed, hurt, ignored, env>>

(* Seeded fault: the list is written over the old map, which is not        *)
(* emptied first, so that no peer of it is stale.                          *)
ReplaceAllMerging ==
  /\ pc = "syncNext" /\ todo = {}
  /\ stalePeers' = {}
  /\ peers' = [id \in PeerIds |-> IF id \in Ids(m) THEN ReplacedBy(m)[id] ELSE peers[id]]
  /\ Goto("stale")
  /\ UNCHANGED <<wg, bird, cur, todo, m, applied, notApplied, failed, hurt, ignored, env>>

ReplaceAll ==
  /\ pc = "syncNext" /\ todo = {}
  /\ stalePeers' = {peers[id] : id \in Tracked \ Ids(m)}
  /\ \/ peers' = ReplacedBy(m) /\ UNCHANGED <<hurt, ignored>>
     \/ Fault("store") /\ hurt' = TRUE /\ UNCHANGED <<store, ignored>>
  /\ Goto("stale")
  /\ UNCHANGED <<wg, bird, cur, todo, m, applied, notApplied, failed, env>>

StaleBird ==
  /\ pc = "stale"
  /\ \E s \in stalePeers :
       /\ cur' = [cur EXCEPT !.info = s]
       /\ RemovePeerByFilename(s.file)
  /\ Goto("staleWg")
  /\ UNCHANGED <<store, wg, sync, env>>

StaleWg ==
  /\ pc = "staleWg"
  /\ RemovePeerByIface(cur.info.iface)
  /\ stalePeers' = stalePeers \ {cur.info}
  /\ Goto("stale")
  /\ UNCHANGED <<store, bird, cur, todo, m, applied, notApplied, failed, env>>

SyncReply ==
  /\ pc = "stale" /\ stalePeers = {}
  /\ Respond("synced")
  /\ UNCHANGED <<store, wg, bird, cur, sync, hurt, ignored, env>>

-----------------------------------------------------------------------------
(* The process dies.  Each manager call changes two things one after the   *)
(* other, so the crash may also fall between them.                         *)
TornCall ==
  \/ UNCHANGED <<wg, bird>>
  \/ /\ pc \in {"addWg", "syncWg"} /\ ValidConfig(cur)
     /\ wgConf' = wgConf \cup {cur.info.iface}
     /\ UNCHANGED <<wgUp, bird>>
  \/ /\ pc \in {"addEvict", "addUndoWg", "remWg", "staleWg"}
     /\ cur.info.iface \in wgConf
     /\ wgUp' = wgUp \ {cur.info.iface}
     /\ UNCHANGED <<wgConf, bird>>
  \/ /\ pc = "addBird" \/ (pc = "syncBird" /\ cur.info.file \notin birdConf)
     /\ birdConf' = birdConf \cup {BirdFileName(cur.info.asn)}
     /\ UNCHANGED <<birdRunning, wg>>
  \/ /\ pc \in {"addUndoBird", "remBird"}
     /\ birdConf' = birdConf \ {IF pc = "remBird" THEN cur.info.file
                                ELSE BirdFileName(cur.info.asn)}
     /\ UNCHANGED <<birdRunning, wg>>
  \/ /\ pc = "stale"
     /\ \E s \in stalePeers : birdConf' = birdConf \ {s.file}
     /\ UNCHANGED <<birdRunning, wg>>

Crash ==
  /\ Fault("crash")
  /\ pc # "idle"
  /\ TornCall
  /\ Respond("none")
  /\ cur' = NoJob /\ NoSync
  /\ hurt' = TRUE
  /\ UNCHANGED <<store, ignored, env>>

(* The node restarts: interfaces are gone, BIRD loads what is on disk. *)
Reboot ==
  /\ Fault("reboot")
  /\ pc = "idle"
  /\ wgUp' = {}
  /\ birdRunning' = birdConf
  /\ Respond("none")
  /\ cur' = NoJob /\ NoSync
  /\ UNCHANGED <<store, wgConf, birdConf, hurt, ignored, env>>

CalmDown ==
  /\ ~calm /\ pc = "idle"
  /\ calm' = TRUE
  /\ goal' \in Goals
  /\ UNCHANGED <<store, wg, bird, pc, cur, sync, reply, hurt, ignored>>

-----------------------------------------------------------------------------
HandlerStep ==
  \/ AddEvict \/ AddWg \/ AddBird \/ AddUndoWg \/ AddPut \/ AddUndoBird
  \/ RemoveBird \/ RemoveWg \/ RemoveStore
  \/ SyncNext \/ SyncWg \/ SyncBird \/ ReplaceAll
  \/ StaleBird \/ StaleWg \/ SyncReply

Next ==
  \/ \E p \in Peerings : handlePeerAdd(p)
  \/ \E p \in Peerings : handlePeerRemove(p.id, p.asn) \/ handlePeerRemove(p.id, 0)
  \/ \E S \in SUBSET Peerings : handlePeersSync(S)
  \/ HandlerStep
  \/ Crash
  \/ Reboot
  \/ CalmDown

Spec == Init /\ [][Next]_vars

(* A handler that was started runs to its end, and a center that has       *)
(* settled on a list keeps syncing it (the agent asks for a sync on every  *)
(* connect).                                                               *)
FairSpec ==
  /\ Spec
  /\ WF_vars(HandlerStep)
  /\ WF_vars(calm /\ handlePeersSync(goal))
-----------------------------------------------------------------------------
(* Type correctness. *)
CurType == [id : PeerIds, cfg : Cfgs, info : PeerInfo]

TypeOK ==
  /\ peers \in [PeerIds -> PeerInfo \cup {NoPeer}]
  /\ wgConf \subseteq Ifaces /\ wgUp \subseteq Ifaces
  /\ birdConf \subseteq Files /\ birdRunning \subseteq Files
  /\ pc \in {"idle"} \cup AddPcs \cup RemovePcs \cup SyncPcs
  /\ cur \in CurType
  /\ todo \subseteq Jobs /\ m \subseteq CurType
  /\ applied \subseteq PeerIds /\ notApplied \subseteq PeerIds
  /\ failed \in BOOLEAN /\ stalePeers \subseteq PeerInfo
  /\ reply \in Replies /\ hurt \in BOOLEAN /\ ignored \in BOOLEAN
  /\ calm \in BOOLEAN /\ goal \subseteq Peerings

(* What the center promises about names: a peer id always comes with the   *)
(* same ASN and names, BIRD files carry the default name ...               *)
NamesStable ==
  \A p, q \in Peerings :
     /\ p.file = Unset
     /\ p.id = q.id /\ p.asn > 0 /\ q.asn > 0 => Info(p) = Info(q)

(* ... and no two peers share an interface or an ASN. *)
NamesUnique ==
  \A p, q \in Peerings :
     p.id # q.id /\ p.asn > 0 /\ q.asn > 0
       => p.asn # q.asn /\ Info(p).iface # Info(q).iface

(* ... and no peer lives on an interface that another one's payload names, *)
(* with an ASN or without, or that is named after another one's ASN.       *)
NamesApart ==
  /\ NamesUnique
  /\ \A p, q \in Peerings :
       p.id # q.id /\ q.asn > 0
         => Info(q).iface \notin {Info(p).iface, InterfaceName(p.asn)}

(* handlePeerAdd, handlePeerRemove and handlePeersSync between them leave  *)
(* nothing on the node that the store does not know: at rest, whatever the *)
(* commands were and whichever of the failures the handlers undo occurred  *)
(* (a file that cannot be opened, a rejected BIRD configuration, a failed  *)
(* PutPeer, a failed DeletePeer, a reboot), every interface, WireGuard     *)
(* config, BIRD file and running BIRD protocol belongs to a tracked peer.  *)
NoOrphans ==
  pc = "idle" /\ ~hurt =>
    /\ wgConf \cup wgUp \subseteq TrackedIfaces
    /\ birdConf \cup birdRunning \subseteq TrackedFiles

(* "peer added successfully" is only answered when all of it is true: the  *)
(* peer is in the store under the names it was built with, its interface   *)
(* is up with a config on disk, its BIRD file exists and BIRD runs it.     *)
AddedIsReal ==
  reply = "added" =>
    /\ cur.id \in Tracked
    /\ peers[cur.id].iface \in wgConf \cap wgUp
    /\ peers[cur.id].file \in birdConf \cap birdRunning

(* "peer removed successfully" means that the interface is down, BIRD no   *)
(* longer runs the peer and both config files are gone, for a tracked peer *)
(* under whichever names it was set up and for one that is only known by   *)
(* its ASN, after whatever crashes and failed additions left of it, and    *)
(* even if DeletePeer then failed.  handlePeerRemove also answers so after *)
(* an os.Remove, a wg-quick down or a birdc configure that failed, and an  *)
(* interface that is up without its config is beyond every later removal:  *)
(* after such a failure (ignored) nothing is promised.                     *)
RemovedIsGone ==
  reply = "removed" /\ ~ignored =>
    /\ cur.info.iface \notin wgConf \cup wgUp
    /\ cur.info.file \notin birdConf \cup birdRunning

(* A peer that handlePeersSync reports as applied is there when the answer *)
(* is sent: the teardown of stale peers that runs after it was set up took *)
(* none of its files away, and its interface is up if it was given a key.  *)
AppliedIsReal ==
  reply = "synced" =>
    \A j \in m : j.id \in applied =>
      /\ j.info.iface \in wgConf
      /\ j.info.file \in birdConf
      /\ j.cfg # "noKey" => j.info.iface \in wgUp

(* After peers.sync the node is what the center asked for: the store has   *)
(* the entries handlePeersSync recorded (the list without those it has to  *)
(* drop), under the names they came with, and no others; if none of them   *)
(* is reported as not applied, the config files of WireGuard and BIRD are  *)
(* theirs and no others, whatever the node held before.                    *)
SyncedExact ==
  reply = "synced" /\ ~hurt =>
    /\ Tracked = Ids(m) /\ \A j \in m : peers[j.id] = j.info
    /\ notApplied = {} => wgConf = TrackedIfaces /\ birdConf = TrackedFiles

(* A handler takes nothing away from a tracked peer it was not asked       *)
(* about.  Of the peers in the store, only the one a command or the        *)
(* current sync entry is about may lose its interface, its config or its   *)
(* BIRD file, and the teardown at the end of handlePeersSync takes nothing *)
(* from any peer still in the store.  A failed ReplaceAll, whose error is  *)
(* ignored, is the exception (hurt).                                       *)
Kept(id) ==
  /\ peers[id].iface \in wgConf => peers[id].iface \in wgConf'
  /\ peers[id].iface \in wgUp => peers[id].iface \in wgUp'
  /\ peers[id].file \in birdConf => peers[id].file \in birdConf'

KeepsTracked ==
  [][pc # "idle" /\ ~hurt =>
       \A id \in Tracked :
          Kept(id) \/ (id = cur.id /\ pc \notin {"stale", "staleWg"})]_vars

(* peers.sync reconciles: once failures stop and the center keeps sending  *)
(* one list, the store converges to it and every complete entry of it gets *)
(* its WireGuard config, interface and BIRD file, from whatever the        *)
(* failures left, and keeps them.  That BIRD runs the file is not part of  *)
(* it: a sync that finds the file does not reload BIRD.                    *)
Converged ==
  /\ \A p \in goal : p.asn > 0 /\ p.cfg = "full" =>
       /\ peers[p.id] = Info(p)
       /\ Info(p).iface \in wgConf \cap wgUp
       /\ Info(p).file \in birdConf
  /\ Tracked \subseteq {p.id : p \in goal}

Reconciles == calm ~> []Converged

(* What a registry sees of a handler: the command, the entry it is to      *)
(* write, and the entries a sync is to commit.                             *)
CmdAt(l) ==
  IF l = "idle" THEN "idle"
  ELSE IF l \in AddPcs THEN "add"
  ELSE IF l \in RemovePcs THEN "remove"
  ELSE IF l \in {"stale", "staleWg"} THEN "synced" ELSE "sync"

WriteAt(l, j) ==
  IF l \in AddPcs
  THEN [id |-> j.id, info |-> [j.info EXCEPT !.file = BirdFileName(j.info.asn)]]
  ELSE IF l \in RemovePcs THEN [id |-> j.id, info |-> NoPeer] ELSE NoPeer

ListAt(l, left, done, j) ==
  IF l \notin SyncPcs THEN {}
  ELSE left \cup done \cup (IF l \in {"syncWg", "syncBird"} THEN {j} ELSE {})

Registry ==
  INSTANCE PeerRegistry WITH
    Entries <- Jobs,
    Usable <- {j \in Jobs : j.info.asn > 0 /\ j.cfg # "noKey"},
    cmd <- CmdAt(pc), write <- WriteAt(pc, cur), list <- ListAt(pc, todo, m, cur)

(* The peer map is a registry: handlePeerAdd, handlePeerRemove and         *)
(* handlePeersSync, for all their calls, failures and crashes, change it   *)
(* at most once each and in one step, answer accordingly, and a sync loses *)
(* no entry with an ASN and a key, even one whose interface or BIRD file   *)
(* it could not set up.                                                    *)
ImplementsRegistry == Registry!Spec

(* The rollback of handlePeerAdd as the architecture document has it: when *)
(* peer.add is answered with a failure, nothing of a peering that was not  *)
(* there before is left behind.                                            *)
NoPartialPeering ==
  reply = "addFailed" /\ cur.id \notin Tracked =>
    /\ cur.info.iface \notin wgConf \cup wgUp
    /\ BirdFileName(cur.info.asn) \notin birdConf
=============================================================================
