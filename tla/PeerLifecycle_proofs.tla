------------------------ MODULE PeerLifecycle_proofs ------------------------
(***************************************************************************)
(* Proofs about PeerLifecycle, for every set of peerings and whichever     *)
(* calls may fail.                                                         *)
(***************************************************************************)
EXTENDS PeerLifecycle, TLAPS

-----------------------------------------------------------------------------
(* Type correctness. *)

(* The names a payload resolves to are names of the model, so a resolved   *)
(* payload is a well-formed job.                                           *)
LEMMA JobsTyped == Jobs \subseteq CurType
<1> SUFFICES ASSUME NEW p \in Peerings PROVE Job(p) \in CurType
  BY Zenon DEF Jobs
<1>1. /\ p.id \in PeerIds /\ p.cfg \in Cfgs
      /\ p.iface \in CustomIfaces \cup {Unset}
      /\ p.file \in CustomFiles \cup {Unset}
  BY PeeringsAssumption, Zenon
<1>2. Info(p) \in PeerInfo
  BY <1>1, Zenon DEF Info, PeerInfo, Ifaces, Files
<1> QED
  BY <1>1, <1>2, Zenon DEF Job, CurType

(* The job that stands for none is well-formed too. *)
LEMMA NoJobTyped == NoJob \in CurType
<1>1. \E j \in Jobs : TRUE
  BY PeeringsAssumption DEF Jobs
<1>2. NoJob \in Jobs
  BY <1>1, Zenon DEF NoJob
<1> QED
  BY <1>2, JobsTyped, Zenon

(* A file named after the ASN of a well-formed job is a file of the model. *)
LEMMA BirdFileTyped ==
  ASSUME NEW j \in CurType
  PROVE  BirdFileName(j.info.asn) \in Files
BY Zenon DEF CurType, PeerInfo, Files

(* The initial state is well typed. *)
LEMMA InitTypeOK == Init => TypeOK
<1> SUFFICES ASSUME Init PROVE TypeOK
  BY Zenon
<1>1. cur \in CurType
  BY NoJobTyped, Zenon DEF Init
<1> QED
  BY <1>1, Zenon DEF Init, TypeOK, Replies

(* wg.AddPeerWithIface keeps the WireGuard side of the node well typed. *)
LEMMA WgAddTyped ==
  ASSUME TypeOK, NEW j \in CurType,
         AddPeerWithIfaceOk(j) \/ AddPeerWithIfaceErr(j)
  PROVE  /\ wgConf' \subseteq Ifaces /\ wgUp' \subseteq Ifaces
         /\ hurt' \in BOOLEAN /\ ignored' \in BOOLEAN
BY Zenon DEF TypeOK, CurType, PeerInfo, AddPeerWithIfaceOk, AddPeerWithIfaceErr, wg

(* So does wg.RemovePeerByIface. *)
LEMMA WgRemoveTyped ==
  ASSUME TypeOK, NEW i, RemovePeerByIface(i)
  PROVE  /\ wgConf' \subseteq Ifaces /\ wgUp' \subseteq Ifaces
         /\ hurt' \in BOOLEAN /\ ignored' \in BOOLEAN
BY Zenon DEF TypeOK, RemovePeerByIface

(* bird.AddPeer keeps the BIRD side of the node well typed. *)
LEMMA BirdAddTyped ==
  ASSUME TypeOK, NEW f \in Files, BirdAddPeerOk(f) \/ BirdAddPeerErr(f)
  PROVE  /\ birdConf' \subseteq Files /\ birdRunning' \subseteq Files
         /\ hurt' \in BOOLEAN /\ ignored' \in BOOLEAN
BY Zenon DEF TypeOK, BirdAddPeerOk, BirdAddPeerErr, ReloadLockedOk, ReloadLockedErr, bird

(* So does bird.RemovePeerByFilename. *)
LEMMA BirdRemoveTyped ==
  ASSUME TypeOK, NEW f, RemovePeerByFilename(f)
  PROVE  /\ birdConf' \subseteq Files /\ birdRunning' \subseteq Files
         /\ hurt' \in BOOLEAN /\ ignored' \in BOOLEAN
BY Zenon DEF TypeOK, RemovePeerByFilename, ReloadLockedOk, ReloadLockedErr

(* Every action keeps the state well typed. *)
LEMMA NextTypeOK == TypeOK /\ [Next]_vars => TypeOK'
<1> SUFFICES ASSUME TypeOK, [Next]_vars PROVE TypeOK'
  BY Zenon
<1> USE DEF store, wg, bird, sync, env, Goto, Respond, NoSync, Replies, AddPcs, RemovePcs, SyncPcs
<1>a. cur \in CurType /\ cur.id \in PeerIds /\ cur.info \in PeerInfo
  BY Zenon DEF TypeOK, CurType
<1>b. BirdFileName(cur.info.asn) \in Files
  BY <1>a, BirdFileTyped, Zenon
<1>1. ASSUME NEW p \in Peerings, handlePeerAdd(p) PROVE TypeOK'
  <2>1. Job(p) \in CurType
    BY JobsTyped, Zenon DEF Jobs
  <2> QED
    BY <1>1, <2>1, Zenon DEF TypeOK, handlePeerAdd
<1>2. ASSUME AddEvict PROVE TypeOK'
  BY <1>2, WgRemoveTyped, Zenon DEF TypeOK, AddEvict
<1>3. ASSUME AddWg PROVE TypeOK'
  BY <1>3, <1>a, WgAddTyped, Zenon DEF TypeOK, AddWg
<1>4. ASSUME AddBird PROVE TypeOK'
  BY <1>4, <1>b, BirdAddTyped, Zenon DEF TypeOK, AddBird
<1>5. ASSUME AddUndoWg PROVE TypeOK'
  BY <1>5, WgRemoveTyped, Zenon DEF TypeOK, AddUndoWg
<1>6. ASSUME AddPut PROVE TypeOK'
  <2>1. [cur.info EXCEPT !.file = BirdFileName(cur.info.asn)] \in PeerInfo
    BY <1>a, <1>b, Zenon DEF PeerInfo
  <2> QED
    BY <1>6, <1>a, <2>1, ZenonT(30) DEF TypeOK, AddPut, PutPeer
<1>7. ASSUME AddUndoBird PROVE TypeOK'
  BY <1>7, BirdRemoveTyped, Zenon DEF TypeOK, AddUndoBird
<1>8. ASSUME NEW p \in Peerings, NEW asn \in {0, p.asn}, handlePeerRemove(p.id, asn)
      PROVE  TypeOK'
  <2>1. p.id \in PeerIds
    BY PeeringsAssumption, Zenon
  <2>2. cur' \in CurType
    <3>1. CASE p.id \in Tracked
      <4>1. peers[p.id] \in PeerInfo
        BY <2>1, <3>1, Zenon DEF TypeOK, Tracked
      <4>2. cur' = [id |-> p.id, cfg |-> "noKey", info |-> peers[p.id]]
        BY <1>8, <3>1, Zenon DEF handlePeerRemove
      <4> QED
        BY <2>1, <4>1, <4>2, Zenon DEF CurType, Cfgs
    <3>2. CASE p.id \notin Tracked /\ asn = 0
      BY <1>8, <1>a, <3>2, Zenon DEF handlePeerRemove
    <3>3. CASE p.id \notin Tracked /\ asn # 0
      <4> DEFINE inf == [asn |-> p.asn, iface |-> InterfaceName(p.asn), file |-> BirdFileName(p.asn)]
      <4>1. inf \in PeerInfo
        BY Zenon DEF PeerInfo, Ifaces, Files
      <4>2. cur' = [id |-> p.id, cfg |-> "noKey", info |-> inf]
        BY <1>8, <3>3, Zenon DEF handlePeerRemove
      <4> HIDE DEF inf
      <4> QED
        BY <2>1, <4>1, <4>2, Zenon DEF CurType, Cfgs
    <3> QED
      BY <3>1, <3>2, <3>3, Zenon
  <2> QED
    BY <1>8, <2>2, Zenon DEF TypeOK, handlePeerRemove
<1>9. ASSUME RemoveBird PROVE TypeOK'
  BY <1>9, BirdRemoveTyped, Zenon DEF TypeOK, RemoveBird
<1>10. ASSUME RemoveWg PROVE TypeOK'
  BY <1>10, WgRemoveTyped, Zenon DEF TypeOK, RemoveWg
<1>11. ASSUME RemoveStore PROVE TypeOK'
  BY <1>11, <1>a, Zenon DEF TypeOK, RemoveStore, DeletePeer
<1>12. ASSUME NEW S \in SUBSET Peerings, handlePeersSync(S) PROVE TypeOK'
  BY <1>12, NoJobTyped, Zenon DEF TypeOK, handlePeersSync, Jobs
<1>13. ASSUME SyncNext PROVE TypeOK'
  BY <1>13, JobsTyped, ZenonT(30) DEF TypeOK, SyncNext
<1>14. ASSUME SyncWg PROVE TypeOK'
  BY <1>14, <1>a, WgAddTyped, Zenon DEF TypeOK, SyncWg
<1>15. ASSUME SyncBird PROVE TypeOK'
  <2>1. m' \subseteq CurType /\ applied' \subseteq PeerIds /\ notApplied' \subseteq PeerIds
    BY <1>15, <1>a, Zenon DEF TypeOK, SyncBird, Record
  <2>2. /\ birdConf' \subseteq Files /\ birdRunning' \subseteq Files
        /\ hurt' \in BOOLEAN /\ ignored' \in BOOLEAN
    BY <1>15, <1>b, BirdAddTyped, Zenon DEF TypeOK, SyncBird
  <2> QED
    BY <1>15, <2>1, <2>2, Zenon DEF TypeOK, SyncBird
<1>16. ASSUME ReplaceAll PROVE TypeOK'
  <2>1. stalePeers' \subseteq PeerInfo
    BY <1>16, Zenon DEF TypeOK, ReplaceAll, Tracked
  <2>2. ReplacedBy(m) \in [PeerIds -> PeerInfo \cup {NoPeer}]
    <3> SUFFICES ASSUME NEW id \in Ids(m)
                 PROVE  (CHOOSE j \in m : j.id = id).info \in PeerInfo
      BY Zenon DEF ReplacedBy
    <3>1. \E j \in m : j.id = id
      BY Zenon DEF Ids
    <3>2. (CHOOSE j \in m : j.id = id) \in m
      BY <3>1, Zenon
    <3> QED
      BY <3>2, Zenon DEF TypeOK, CurType
  <2> QED
    BY <1>16, <2>1, <2>2, Zenon DEF TypeOK, ReplaceAll
<1>17. ASSUME StaleBird PROVE TypeOK'
  <2>1. PICK s \in stalePeers : cur' = [cur EXCEPT !.info = s] /\ RemovePeerByFilename(s.file)
    BY <1>17, Zenon DEF StaleBird
  <2>2. cur' \in CurType
    BY <2>1, <1>a, Zenon DEF TypeOK, CurType
  <2> QED
    BY <1>17, <2>1, <2>2, BirdRemoveTyped, Zenon DEF TypeOK, StaleBird
<1>18. ASSUME StaleWg PROVE TypeOK'
  BY <1>18, WgRemoveTyped, Zenon DEF TypeOK, StaleWg
<1>19. ASSUME SyncReply PROVE TypeOK'
  BY <1>19, Zenon DEF TypeOK, SyncReply
<1>20. ASSUME Crash PROVE TypeOK'
  <2>1. /\ wgConf' \subseteq Ifaces /\ wgUp' \subseteq Ifaces
        /\ birdConf' \subseteq Files /\ birdRunning' \subseteq Files
    BY <1>20, <1>a, <1>b, Zenon DEF TypeOK, Crash, TornCall, PeerInfo
  <2> QED
    BY <1>20, <2>1, NoJobTyped, Zenon DEF TypeOK, Crash
<1>21. ASSUME Reboot PROVE TypeOK'
  BY <1>21, NoJobTyped, Zenon DEF TypeOK, Reboot
<1>22. ASSUME CalmDown PROVE TypeOK'
  BY <1>22, PeeringsAssumption, Zenon DEF TypeOK, CalmDown
<1>23. ASSUME UNCHANGED vars PROVE TypeOK'
  BY <1>23 DEF TypeOK, vars
<1> QED
  BY <1>1, <1>2, <1>3, <1>4, <1>5, <1>6, <1>7, <1>8, <1>9, <1>10, <1>11, <1>12,
     <1>13, <1>14, <1>15, <1>16, <1>17, <1>18, <1>19, <1>20, <1>21, <1>22, <1>23, ZenonT(30)
  DEF Next, HandlerStep

(* Whatever the center sends and whatever fails, the store, the node and   *)
(* the handler's local state keep their types.                             *)
THEOREM TypeCorrect == Spec => []TypeOK
BY InitTypeOK, NextTypeOK, PTL DEF Spec
-----------------------------------------------------------------------------
(* Nothing without an owner.  NoOrphans speaks of the agent at rest; in    *)
(* the middle of a handler the node is ahead of the store or behind it.    *)
(* Holding says by how much: the interfaces and files that the running     *)
(* handler has still to record, or to take down.                           *)
Infos(jobs) == {j.info : j \in jobs}

HoldingIfaces ==
  IF pc \in {"addBird", "addPut", "addUndoBird", "addUndoWg"} THEN {cur.info.iface}
  ELSE IF pc \in {"syncNext", "syncWg"} THEN {x.iface : x \in Infos(m)}
  ELSE IF pc = "syncBird" THEN {x.iface : x \in Infos(m)} \cup {cur.info.iface}
  ELSE IF pc \in {"stale", "staleWg"} THEN {x.iface : x \in stalePeers}
  ELSE {}

HoldingFiles ==
  IF pc \in {"addPut", "addUndoBird"} THEN {cur.info.file}
  ELSE IF pc \in {"syncNext", "syncWg", "syncBird"} THEN {x.file : x \in Infos(m)}
  ELSE IF pc \in {"stale", "staleWg"} THEN {x.file : x \in stalePeers}
  ELSE {}

(* A real peering: what a job stands for once its ASN has been checked. *)
Real(id, info) == \E p \in Peerings : p.id = id /\ p.asn > 0 /\ info = Info(p)

(* What the handlers work on is what the center sent: every entry of the   *)
(* store, every entry recorded by the running sync and, past the checks,   *)
(* the current job is a real peering.                                      *)
NamesKnown ==
  /\ \A id \in Tracked : Real(id, peers[id])
  /\ \A j \in m : Real(j.id, j.info)
  /\ \A j \in todo : j \in Jobs
  /\ pc \in {"addEvict", "addWg"} => cur \in Jobs
  /\ pc \in {"addBird", "addPut", "addUndoBird", "addUndoWg", "syncWg", "syncBird"}
       => Real(cur.id, cur.info)
  /\ pc \in RemovePcs /\ cur.id \in Tracked => cur.info = peers[cur.id]
  /\ pc = "staleWg" => cur.info \in stalePeers

(* While no unhandled failure occurred, everything on the node is owned by *)
(* the store or held by the handler, no interface is up without a config,  *)
(* and a teardown that got past a resource has removed it.                 *)
Owned ==
  /\ wgUp \subseteq wgConf
  /\ wgConf \subseteq TrackedIfaces \cup HoldingIfaces
  /\ birdConf \subseteq TrackedFiles \cup HoldingFiles
  /\ birdRunning \subseteq TrackedFiles \cup HoldingFiles
  /\ pc \in {"remWg", "remStore", "staleWg"} =>
       cur.info.file \notin birdConf \cup birdRunning
  /\ pc = "remStore" => cur.info.iface \notin wgConf

Ownership == TypeOK /\ NamesKnown /\ (~hurt => Owned)

(* A job that came with an ASN is a real peering. *)
LEMMA JobReal ==
  ASSUME NEW j \in Jobs, j.info.asn > 0
  PROVE  Real(j.id, j.info)
BY SMTT(30) DEF Jobs, Job, Info, Real

(* NamesStable makes a real peering's names a function of its id, with the *)
(* default BIRD file name.                                                 *)
LEMMA RealNames ==
  ASSUME NamesStable, NEW id, NEW x, NEW y, Real(id, x), Real(id, y)
  PROVE  x = y /\ x.file = BirdFileName(x.asn)
BY DEF NamesStable, Real, Info

(* Adding the default file name to a real peering's names changes nothing. *)
LEMMA DefaultFile ==
  ASSUME NamesStable, NEW id, NEW x \in PeerInfo, Real(id, x)
  PROVE  [x EXCEPT !.file = BirdFileName(x.asn)] = x
BY RealNames, Zenon DEF PeerInfo

(* An ASN that is not zero is positive. *)
LEMMA AsnPositive ==
  ASSUME NEW j \in Jobs, j.info.asn # 0
  PROVE  j.info.asn > 0
<1>1. PICK p \in Peerings : j = Job(p)
  BY Zenon DEF Jobs
<1>2. p.asn \in Nat
  BY PeeringsAssumption, Zenon
<1> QED
  BY <1>1, <1>2 DEF Job, Info

(* No handler invents a name: every action keeps NamesKnown. *)
LEMMA NamesKnownStep ==
  ASSUME NamesStable, TypeOK, NamesKnown, [Next]_vars
  PROVE  NamesKnown'
<1> USE DEF store, wg, bird, sync, env, Goto, Respond, NoSync, RemovePcs
<1>a. ASSUME UNCHANGED peers, m' \subseteq m, todo' \subseteq todo,
             pc' \notin {"staleWg"} \cup RemovePcs,
             pc' \in {"addEvict", "addWg"} => cur' \in Jobs,
             pc' \in {"addBird", "addPut", "addUndoBird", "addUndoWg", "syncWg", "syncBird"}
               => Real(cur'.id, cur'.info)
      PROVE  NamesKnown'
  BY <1>a, Zenon DEF NamesKnown, Tracked
<1>1. ASSUME NEW p \in Peerings, handlePeerAdd(p) PROVE NamesKnown'
  <2>1. cur' \in Jobs /\ pc' \in {"idle", "addEvict", "addWg"}
    BY <1>1, Zenon DEF handlePeerAdd, Jobs
  <2> QED
    BY <1>1, <2>1, <1>a, Zenon DEF handlePeerAdd
<1>2. ASSUME AddEvict PROVE NamesKnown'
  BY <1>2, <1>a, Zenon DEF AddEvict, NamesKnown
<1>3. ASSUME AddWg PROVE NamesKnown'
  <2>1. pc' = "addBird" => Real(cur.id, cur.info)
    BY <1>3, JobReal, Zenon DEF AddWg, AddPeerWithIfaceOk, ValidConfig, NamesKnown
  <2> QED
    BY <1>3, <2>1, <1>a, Zenon DEF AddWg
<1>4. ASSUME AddBird PROVE NamesKnown'
  BY <1>4, <1>a, Zenon DEF AddBird, NamesKnown
<1>5. ASSUME AddUndoWg PROVE NamesKnown'
  BY <1>5, <1>a, Zenon DEF AddUndoWg
<1>6. ASSUME AddPut PROVE NamesKnown'
  <2>1. Real(cur.id, cur.info) /\ cur.info \in PeerInfo /\ cur.id \in PeerIds
    BY <1>6, Zenon DEF AddPut, PutPeer, NamesKnown, TypeOK, CurType
  <2>2. [cur.info EXCEPT !.file = BirdFileName(cur.info.asn)] = cur.info
    BY <2>1, DefaultFile, Zenon
  <2>3. CASE pc' = "addUndoBird"
    BY <1>6, <2>1, <2>3, <1>a, Zenon DEF AddPut, PutPeer
  <2>4. CASE pc' = "idle"
    <3>1. peers' = [peers EXCEPT ![cur.id] = cur.info]
      BY <1>6, <2>2, <2>4, Zenon DEF AddPut, PutPeer
    <3>2. \A id \in Tracked' : Real(id, peers'[id])
      BY <2>1, <3>1, Zenon DEF Tracked, NamesKnown, TypeOK
    <3> QED
      BY <1>6, <2>4, <3>2, Zenon DEF AddPut, PutPeer, NamesKnown
  <2> QED
    BY <1>6, <2>3, <2>4, Zenon DEF AddPut, PutPeer
<1>7. ASSUME AddUndoBird PROVE NamesKnown'
  BY <1>7, <1>a, Zenon DEF AddUndoBird, NamesKnown
<1>8. ASSUME NEW p \in Peerings, NEW asn \in {0, p.asn}, handlePeerRemove(p.id, asn)
      PROVE  NamesKnown'
  <2>1. pc' \in {"idle", "remBird"} /\ UNCHANGED peers /\ m' = {} /\ todo' = {}
    BY <1>8, Zenon DEF handlePeerRemove
  <2>2. pc' = "remBird" => (cur'.id = p.id /\ (p.id \in Tracked => cur'.info = peers[p.id]))
    BY <1>8, SMTT(30) DEF handlePeerRemove
  <2> QED
    BY <2>1, <2>2, Zenon DEF NamesKnown, Tracked
<1>9. ASSUME RemoveBird PROVE NamesKnown'
  BY <1>9, Zenon DEF RemoveBird, NamesKnown, Tracked
<1>10. ASSUME RemoveWg PROVE NamesKnown'
  BY <1>10, Zenon DEF RemoveWg, NamesKnown, Tracked
<1>11. ASSUME RemoveStore PROVE NamesKnown'
  <2>1. \A id \in Tracked' : id \in Tracked /\ peers'[id] = peers[id]
    BY <1>11, Zenon DEF RemoveStore, DeletePeer, Tracked, TypeOK
  <2> QED
    BY <1>11, <2>1, Zenon DEF RemoveStore, DeletePeer, NamesKnown
<1>12. ASSUME NEW S \in SUBSET Peerings, handlePeersSync(S) PROVE NamesKnown'
  BY <1>12, Zenon DEF handlePeersSync, NamesKnown, Tracked, Jobs
<1>13. ASSUME SyncNext PROVE NamesKnown'
  <2>1. PICK j \in todo :
          /\ todo' = todo \ {j}
          /\ \/ pc' = "syncNext"
             \/ ~Dropped(j) /\ cur' = j /\ pc' \in {"syncWg", "syncBird"}
    BY <1>13, Zenon DEF SyncNext
  <2>2. pc' # "syncNext" => Real(cur'.id, cur'.info)
    BY <2>1, JobReal, AsnPositive, Zenon DEF Dropped, TypeOK
  <2> QED
    BY <1>13, <2>1, <2>2, Zenon DEF SyncNext, NamesKnown, Tracked
<1>14. ASSUME SyncWg PROVE NamesKnown'
  BY <1>14, <1>a, Zenon DEF SyncWg, NamesKnown
<1>15. ASSUME SyncBird PROVE NamesKnown'
  <2>1. m' = m \cup {cur} /\ pc' = "syncNext" /\ UNCHANGED <<peers, todo, stalePeers>>
    BY <1>15, Zenon DEF SyncBird, Record
  <2>2. Real(cur.id, cur.info)
    BY <1>15, Zenon DEF SyncBird, NamesKnown
  <2> QED
    BY <2>1, <2>2, Zenon DEF NamesKnown, Tracked
<1>16. ASSUME ReplaceAll PROVE NamesKnown'
  <2>1. \A id \in Tracked' : Real(id, peers'[id])
    <3>1. CASE UNCHANGED peers
      BY <3>1, Zenon DEF NamesKnown, Tracked
    <3>2. CASE peers' = ReplacedBy(m)
      <4> SUFFICES ASSUME NEW id \in PeerIds, ReplacedBy(m)[id] # NoPeer
                   PROVE  Real(id, ReplacedBy(m)[id])
        BY <3>2, Zenon DEF Tracked
      <4>1. \E j \in m : j.id = id
        BY Zenon DEF ReplacedBy, Ids
      <4>2. PICK j \in m : j.id = id /\ ReplacedBy(m)[id] = j.info
        BY <4>1, Zenon DEF ReplacedBy, Ids
      <4> QED
        BY <4>2, Zenon DEF NamesKnown
    <3> QED
      BY <1>16, <3>1, <3>2, Zenon DEF ReplaceAll
  <2> QED
    BY <1>16, <2>1, Zenon DEF ReplaceAll, NamesKnown
<1>17. ASSUME StaleBird PROVE NamesKnown'
  BY <1>17, Zenon DEF StaleBird, NamesKnown, Tracked, TypeOK, CurType
<1>18. ASSUME StaleWg PROVE NamesKnown'
  BY <1>18, Zenon DEF StaleWg, NamesKnown, Tracked
<1>19. ASSUME SyncReply PROVE NamesKnown'
  BY <1>19, <1>a, Zenon DEF SyncReply
<1>20. ASSUME Crash PROVE NamesKnown'
  BY <1>20, Zenon DEF Crash, NamesKnown, Tracked
<1>21. ASSUME Reboot PROVE NamesKnown'
  BY <1>21, <1>a, Zenon DEF Reboot
<1>22. ASSUME CalmDown PROVE NamesKnown'
  BY <1>22, <1>a, Zenon DEF CalmDown
<1>23. ASSUME UNCHANGED vars PROVE NamesKnown'
  BY <1>23, Zenon DEF NamesKnown, Tracked, vars
<1> QED
  BY <1>1, <1>2, <1>3, <1>4, <1>5, <1>6, <1>7, <1>8, <1>9, <1>10, <1>11, <1>12,
     <1>13, <1>14, <1>15, <1>16, <1>17, <1>18, <1>19, <1>20, <1>21, <1>22, <1>23,
     Zenon
  DEF Next, HandlerStep

(* A failure the handlers do not undo is never forgotten. *)
LEMMA HurtForever ==
  ASSUME TypeOK, [Next]_vars, ~hurt'
  PROVE  ~hurt
BY Zenon DEF TypeOK, Next, HandlerStep, vars, wg, bird, handlePeerAdd, AddEvict, AddWg,
       AddBird, AddUndoWg, AddPut, PutPeer, AddUndoBird, handlePeerRemove, RemoveBird,
       RemoveWg, RemoveStore, DeletePeer, handlePeersSync, SyncNext, SyncWg, SyncBird,
       ReplaceAll, StaleBird, StaleWg, SyncReply, Crash, Reboot, CalmDown,
       AddPeerWithIfaceOk, AddPeerWithIfaceErr, RemovePeerByIface, BirdAddPeerOk,
       BirdAddPeerErr, RemovePeerByFilename, ReloadLockedOk, ReloadLockedErr

(* A RemovePeerByIface that did not fail removed config and interface. *)
LEMMA WgRemoveClean ==
  ASSUME NEW i, RemovePeerByIface(i), wgUp \subseteq wgConf, ~hurt'
  PROVE  wgConf' = wgConf \ {i} /\ wgUp' \subseteq wgConf'
BY Zenon DEF RemovePeerByIface

(* A RemovePeerByFilename that did not fail leaves BIRD on what is on disk. *)
LEMMA BirdRemoveClean ==
  ASSUME NEW f, RemovePeerByFilename(f), ~hurt'
  PROVE  birdConf' = birdConf \ {f} /\ birdRunning' = birdConf \ {f}
BY Zenon DEF RemovePeerByFilename, ReloadLockedOk, ReloadLockedErr

(* AddPeerWithIface touches its own interface only, and leaves none up     *)
(* without a config.                                                       *)
LEMMA WgAddClean ==
  ASSUME NEW j, wgUp \subseteq wgConf, ~hurt',
         AddPeerWithIfaceOk(j) \/ AddPeerWithIfaceErr(j)
  PROVE  /\ wgConf' \subseteq wgConf \cup {j.info.iface}
         /\ wgUp' \subseteq wgConf'
BY Zenon DEF AddPeerWithIfaceOk, AddPeerWithIfaceErr, wg

(* bird.AddPeer adds its own file only and, when it fails in a way the     *)
(* handlers undo, adds nothing.                                            *)
LEMMA BirdAddClean ==
  ASSUME NEW f, ~hurt', BirdAddPeerOk(f) \/ BirdAddPeerErr(f)
  PROVE  /\ birdConf' \subseteq birdConf \cup {f}
         /\ birdRunning' \subseteq birdConf \cup birdRunning \cup {f}
         /\ BirdAddPeerErr(f) => birdConf' \subseteq birdConf /\ birdRunning' = birdRunning
BY Zenon DEF BirdAddPeerOk, BirdAddPeerErr, ReloadLockedOk, ReloadLockedErr, bird

(* Every action keeps the node owned, until a failure that is not undone. *)
LEMMA OwnedStep ==
  ASSUME NamesStable, Ownership, [Next]_vars, ~hurt'
  PROVE  Owned'
<1>a. TypeOK /\ NamesKnown /\ Owned
  BY HurtForever, Zenon DEF Ownership
<1> USE DEF store, wg, bird, sync, env, Goto, Respond
<1>b. ASSUME UNCHANGED peers
      PROVE  TrackedIfaces' = TrackedIfaces /\ TrackedFiles' = TrackedFiles
  BY <1>b, Zenon DEF TrackedIfaces, TrackedFiles, Tracked
<1>c. ASSUME UNCHANGED <<peers, wgConf, wgUp, birdConf>>,
             birdRunning' \subseteq birdRunning \cup birdConf,
             HoldingIfaces \subseteq HoldingIfaces', HoldingFiles \subseteq HoldingFiles',
             pc' \notin {"remWg", "remStore", "staleWg"}
      PROVE  Owned'
  BY <1>a, <1>b, <1>c, Zenon DEF Owned
<1>1. ASSUME NEW p \in Peerings, handlePeerAdd(p) PROVE Owned'
  BY <1>1, <1>c, Zenon DEF handlePeerAdd, HoldingIfaces, HoldingFiles
<1>2. ASSUME AddEvict PROVE Owned'
  BY <1>2, <1>a, <1>b, WgRemoveClean, Zenon
  DEF AddEvict, HoldingIfaces, HoldingFiles, Owned
<1>3. ASSUME AddWg PROVE Owned'
  <2>1. CASE AddPeerWithIfaceOk(cur) /\ pc' = "addBird"
    BY <1>3, <2>1, <1>a, <1>b, WgAddClean, Zenon
    DEF AddWg, HoldingIfaces, HoldingFiles, Owned
  <2>2. CASE AddPeerWithIfaceErr(cur) /\ pc' = "idle"
    <3>1. wgConf' = wgConf /\ wgUp' = wgUp
      BY <2>2, Zenon DEF AddPeerWithIfaceErr
    <3> QED
      BY <1>3, <2>2, <3>1, <1>c, Zenon DEF AddWg, HoldingIfaces, HoldingFiles
  <2> QED
    BY <1>3, <2>1, <2>2, Zenon DEF AddWg
<1>4. ASSUME AddBird PROVE Owned'
  <2>1. Real(cur.id, cur.info)
    BY <1>4, <1>a, Zenon DEF AddBird, NamesKnown
  <2>2. cur.info.file = BirdFileName(cur.info.asn)
    BY <2>1, RealNames, Zenon
  <2>3. CASE BirdAddPeerOk(BirdFileName(cur.info.asn)) /\ pc' = "addPut"
    BY <1>4, <2>2, <2>3, <1>a, <1>b, BirdAddClean, ZenonT(30)
    DEF AddBird, HoldingIfaces, HoldingFiles, Owned
  <2>4. CASE BirdAddPeerErr(BirdFileName(cur.info.asn)) /\ pc' = "addUndoWg"
    BY <1>4, <2>4, <1>a, <1>b, BirdAddClean, Zenon
    DEF AddBird, HoldingIfaces, HoldingFiles, Owned
  <2> QED
    BY <1>4, <2>3, <2>4, Zenon DEF AddBird
<1>5. ASSUME AddUndoWg PROVE Owned'
  BY <1>5, <1>a, <1>b, WgRemoveClean, ZenonT(30)
  DEF AddUndoWg, HoldingIfaces, HoldingFiles, Owned
<1>6. ASSUME AddPut PROVE Owned'
  <2>1. Real(cur.id, cur.info) /\ cur.info \in PeerInfo /\ cur.id \in PeerIds
    BY <1>6, <1>a, Zenon DEF AddPut, PutPeer, NamesKnown, TypeOK, CurType
  <2>2. [cur.info EXCEPT !.file = BirdFileName(cur.info.asn)] = cur.info
    BY <2>1, DefaultFile, Zenon
  <2>3. CASE pc' = "addUndoBird"
    BY <1>6, <2>3, <1>c, Zenon DEF AddPut, PutPeer, HoldingIfaces, HoldingFiles
  <2>4. CASE pc' = "idle"
    <3>1. peers' = [peers EXCEPT ![cur.id] = cur.info]
      BY <1>6, <2>2, <2>4, Zenon DEF AddPut, PutPeer
    <3>2. \A id \in Tracked : id \in Tracked' /\ peers'[id] = peers[id]
      BY <2>1, <3>1, <1>a, RealNames, PeeringsAssumption DEF Tracked, NamesKnown, TypeOK
    <3>3. cur.id \in Tracked' /\ peers'[cur.id] = cur.info
      BY <2>1, <3>1, <1>a, PeeringsAssumption, Zenon DEF Tracked, TypeOK
    <3>4. /\ TrackedIfaces \cup {cur.info.iface} \subseteq TrackedIfaces'
          /\ TrackedFiles \cup {cur.info.file} \subseteq TrackedFiles'
      BY <3>2, <3>3, SMTT(30) DEF TrackedIfaces, TrackedFiles
    <3> QED
      BY <1>6, <2>4, <3>4, <1>a, Zenon
      DEF AddPut, PutPeer, HoldingIfaces, HoldingFiles, Owned
  <2> QED
    BY <1>6, <2>3, <2>4, Zenon DEF AddPut, PutPeer
<1>7. ASSUME AddUndoBird PROVE Owned'
  <2>1. cur.info.file = BirdFileName(cur.info.asn)
    BY <1>7, <1>a, RealNames, Zenon DEF AddUndoBird, NamesKnown
  <2> QED
    BY <1>7, <2>1, <1>a, <1>b, BirdRemoveClean, SMTT(30)
    DEF AddUndoBird, HoldingIfaces, HoldingFiles, Owned
<1>8. ASSUME NEW id, NEW asn, handlePeerRemove(id, asn) PROVE Owned'
  BY <1>8, <1>c, Zenon DEF handlePeerRemove, HoldingIfaces, HoldingFiles
<1>9. ASSUME RemoveBird PROVE Owned'
  BY <1>9, <1>a, <1>b, BirdRemoveClean, Zenon
  DEF RemoveBird, HoldingIfaces, HoldingFiles, Owned
<1>10. ASSUME RemoveWg PROVE Owned'
  BY <1>10, <1>a, <1>b, WgRemoveClean, ZenonT(30)
  DEF RemoveWg, HoldingIfaces, HoldingFiles, Owned
<1>11. ASSUME RemoveStore PROVE Owned'
  <2>1. CASE UNCHANGED peers
    BY <1>11, <2>1, <1>c, Zenon
    DEF RemoveStore, DeletePeer, HoldingIfaces, HoldingFiles
  <2>2. CASE peers' = [peers EXCEPT ![cur.id] = NoPeer]
    <3>1. \A id \in Tracked \ {cur.id} : id \in Tracked' /\ peers'[id] = peers[id]
      BY <2>2, <1>a, Zenon DEF Tracked, TypeOK
    <3>2. cur.id \in Tracked => peers[cur.id] = cur.info
      BY <1>11, <1>a, Zenon DEF RemoveStore, DeletePeer, NamesKnown, RemovePcs
    <3>3. /\ TrackedIfaces \subseteq TrackedIfaces' \cup {cur.info.iface}
          /\ TrackedFiles \subseteq TrackedFiles' \cup {cur.info.file}
      BY <3>1, <3>2, ZenonT(30) DEF TrackedIfaces, TrackedFiles
    <3> QED
      BY <1>11, <3>3, <1>a, Zenon
      DEF RemoveStore, DeletePeer, HoldingIfaces, HoldingFiles, Owned
  <2> QED
    BY <1>11, <2>1, <2>2, Zenon DEF RemoveStore, DeletePeer
<1>12. ASSUME NEW S \in SUBSET Peerings, handlePeersSync(S) PROVE Owned'
  BY <1>12, <1>c, Zenon DEF handlePeersSync, HoldingIfaces, HoldingFiles
<1>13. ASSUME SyncNext PROVE Owned'
  BY <1>13, <1>c, Zenon DEF SyncNext, HoldingIfaces, HoldingFiles
<1>14. ASSUME SyncWg PROVE Owned'
  BY <1>14, <1>a, <1>b, WgAddClean, Zenon
  DEF SyncWg, HoldingIfaces, HoldingFiles, Owned
<1>15. ASSUME SyncBird PROVE Owned'
  <2>1. m' = m \cup {cur} /\ pc' = "syncNext" /\ pc = "syncBird"
    BY <1>15, Zenon DEF SyncBird, Record
  <2>2. cur.info.file = BirdFileName(cur.info.asn)
    BY <2>1, <1>a, RealNames, Zenon DEF NamesKnown
  <2>3. /\ HoldingIfaces' = HoldingIfaces
        /\ HoldingFiles' = HoldingFiles \cup {cur.info.file}
    BY <2>1 DEF HoldingIfaces, HoldingFiles, Infos
  <2>4. /\ birdConf' \subseteq birdConf \cup {cur.info.file}
        /\ birdRunning' \subseteq birdConf \cup birdRunning \cup {cur.info.file}
    BY <1>15, <2>2, BirdAddClean, Zenon DEF SyncBird
  <2> QED
    BY <1>15, <2>1, <2>3, <2>4, <1>a, <1>b, Zenon DEF SyncBird, Owned
<1>16. ASSUME ReplaceAll PROVE Owned'
  <2>1. peers' = ReplacedBy(m) /\ stalePeers' = {peers[id] : id \in Tracked \ Ids(m)}
    BY <1>16, Zenon DEF ReplaceAll
  <2>2. ASSUME NEW j \in m PROVE j.id \in Tracked' /\ peers'[j.id] = j.info
    <3>1. j.id \in PeerIds /\ j.id \in Ids(m)
      BY <1>a, Zenon DEF TypeOK, CurType, Ids
    <3>2. PICK k \in m : k.id = j.id /\ peers'[j.id] = k.info
      BY <2>1, <3>1, Zenon DEF ReplacedBy, Ids
    <3>3. k.info = j.info
      BY <3>2, <1>a, RealNames DEF NamesKnown
    <3>4. j.info \in PeerInfo
      BY <1>a, Zenon DEF TypeOK, CurType
    <3> QED
      BY <3>1, <3>2, <3>3, <3>4, PeeringsAssumption, Zenon DEF Tracked
  <2>3. ASSUME NEW id \in Tracked
        PROVE  \/ id \in Tracked' /\ peers'[id] = peers[id]
               \/ peers[id] \in stalePeers'
    <3>1. CASE id \in Ids(m)
      <4>1. PICK j \in m : j.id = id
        BY <3>1, Zenon DEF Ids
      <4>2. j.info = peers[id]
        BY <4>1, <1>a, RealNames, SMTT(30) DEF NamesKnown
      <4> QED
        BY <4>1, <4>2, <2>2, Zenon
    <3>2. CASE id \notin Ids(m)
      BY <2>1, <3>2, Zenon
    <3> QED
      BY <3>1, <3>2, Zenon
  <2>4. /\ TrackedIfaces \cup HoldingIfaces \subseteq TrackedIfaces' \cup HoldingIfaces'
        /\ TrackedFiles \cup HoldingFiles \subseteq TrackedFiles' \cup HoldingFiles'
    BY <1>16, <2>2, <2>3
    DEF ReplaceAll, TrackedIfaces, TrackedFiles, HoldingIfaces, HoldingFiles, Infos
  <2> QED
    BY <1>16, <2>4, <1>a, Zenon DEF ReplaceAll, Owned
<1>17. ASSUME StaleBird PROVE Owned'
  <2>1. PICK s \in stalePeers : cur' = [cur EXCEPT !.info = s] /\ RemovePeerByFilename(s.file)
    BY <1>17, Zenon DEF StaleBird
  <2>2. cur'.info = s
    BY <2>1, <1>a, Zenon DEF TypeOK, CurType
  <2> QED
    BY <1>17, <2>1, <2>2, <1>a, <1>b, BirdRemoveClean
    DEF StaleBird, HoldingIfaces, HoldingFiles, Owned
<1>18. ASSUME StaleWg PROVE Owned'
  <2>1. /\ HoldingIfaces \subseteq HoldingIfaces' \cup {cur.info.iface}
        /\ HoldingFiles \subseteq HoldingFiles' \cup {cur.info.file}
    BY <1>18, Zenon DEF StaleWg, HoldingIfaces, HoldingFiles
  <2> QED
    BY <1>18, <2>1, <1>a, <1>b, WgRemoveClean, SMTT(30) DEF StaleWg, Owned
<1>19. ASSUME SyncReply PROVE Owned'
  BY <1>19, <1>c, Zenon DEF SyncReply, HoldingIfaces, HoldingFiles
<1>20. ASSUME Crash PROVE Owned'
  BY <1>20, Zenon DEF Crash
<1>21. ASSUME Reboot PROVE Owned'
  BY <1>21, <1>a, <1>b, Zenon DEF Reboot, HoldingIfaces, HoldingFiles, Owned
<1>22. ASSUME CalmDown PROVE Owned'
  BY <1>22, <1>c, Zenon DEF CalmDown, HoldingIfaces, HoldingFiles
<1>23. ASSUME UNCHANGED vars PROVE Owned'
  BY <1>23, <1>a, <1>b, Zenon DEF vars, HoldingIfaces, HoldingFiles, Infos, Owned
<1> QED
  BY <1>1, <1>2, <1>3, <1>4, <1>5, <1>6, <1>7, <1>8, <1>9, <1>10, <1>11, <1>12,
     <1>13, <1>14, <1>15, <1>16, <1>17, <1>18, <1>19, <1>20, <1>21, <1>22, <1>23,
     Zenon
  DEF Next, HandlerStep

(* The freshly installed agent owns the empty node. *)
LEMMA OwnershipInit == Init => Ownership
BY InitTypeOK, Zenon
DEF Init, Ownership, NamesKnown, Owned, Tracked, RemovePcs, HoldingIfaces, HoldingFiles

(* Every action keeps the ownership invariant. *)
LEMMA OwnershipStep ==
  ASSUME NamesStable, Ownership, [Next]_vars
  PROVE  Ownership'
BY NextTypeOK, NamesKnownStep, OwnedStep, Zenon DEF Ownership

(* The ownership invariant holds in every reachable state, for every set   *)
(* of peerings whose names are stable.                                     *)
THEOREM OwnershipInvariant ==
  ASSUME NamesStable
  PROVE  Spec => []Ownership
<1>1. Ownership /\ [Next]_vars => Ownership'
  BY OwnershipStep, Zenon
<1> QED
  BY <1>1, OwnershipInit, PTL DEF Spec

(* handlePeerAdd, handlePeerRemove and handlePeersSync leave nothing on    *)
(* the node that the store does not know: NoOrphans, for any number of     *)
(* peers and any mixture of failures.                                      *)
THEOREM NothingOrphaned ==
  ASSUME NamesStable
  PROVE  Spec => []NoOrphans
<1>1. Ownership => NoOrphans
  BY Zenon DEF Ownership, Owned, NoOrphans, HoldingIfaces, HoldingFiles
<1> QED
  BY <1>1, OwnershipInvariant, PTL
-----------------------------------------------------------------------------
(* The answers.  What the handlers have established by the time they reach *)
(* each call, and that no other step can undo it before the answer is      *)
(* superseded.                                                             *)
Established ==
  /\ ~ignored => wgUp \subseteq wgConf
  /\ pc \in {"addBird", "addPut"} => cur.info.iface \in wgConf \cap wgUp
  /\ pc = "addPut" => BirdFileName(cur.info.asn) \in birdConf \cap birdRunning
  /\ pc \in {"remWg", "remStore"} /\ ~ignored => cur.info.file \notin birdConf \cup birdRunning
  /\ pc = "remStore" /\ ~ignored => cur.info.iface \notin wgConf \cup wgUp
  /\ pc # "idle" => reply \notin {"added", "removed"}

Answers == TypeOK /\ Established /\ AddedIsReal /\ RemovedIsGone

(* Every action keeps what the handlers have established, and the answers  *)
(* true.                                                                   *)
LEMMA AnswersStep ==
  ASSUME Answers, [Next]_vars
  PROVE  Answers'
<1> DEFINE Silent == reply' \notin {"added", "removed"}
<1>a. TypeOK /\ Established /\ TypeOK'
  BY NextTypeOK, Zenon DEF Answers
<1>b. pc # "idle" => reply \notin {"added", "removed"}
  BY <1>a, Zenon DEF Established
<1>c. ASSUME Silent, Established' PROVE Answers'
  BY <1>a, <1>c, Zenon DEF Answers, AddedIsReal, RemovedIsGone
<1>d. ignored \in BOOLEAN /\ ignored' \in BOOLEAN
  BY <1>a, Zenon DEF TypeOK
<1> USE DEF store, wg, bird, sync, env, Goto, Respond
<1>1. ASSUME NEW p \in Peerings, handlePeerAdd(p) PROVE Answers'
  BY <1>1, <1>a, <1>c, Zenon DEF handlePeerAdd, Established
<1>2. ASSUME AddEvict PROVE Answers'
  BY <1>2, <1>a, <1>b, <1>c, <1>d, Zenon DEF AddEvict, RemovePeerByIface, Established
<1>3. ASSUME AddWg PROVE Answers'
  BY <1>3, <1>a, <1>b, <1>c, <1>d, Zenon
  DEF AddWg, AddPeerWithIfaceOk, AddPeerWithIfaceErr, Established
<1>4. ASSUME AddBird PROVE Answers'
  BY <1>4, <1>a, <1>b, <1>c, <1>d, Zenon
  DEF AddBird, BirdAddPeerOk, BirdAddPeerErr, ReloadLockedOk, ReloadLockedErr, Established
<1>5. ASSUME AddUndoWg PROVE Answers'
  BY <1>5, <1>a, <1>b, <1>c, <1>d, Zenon DEF AddUndoWg, RemovePeerByIface, Established
<1>6. ASSUME AddPut PROVE Answers'
  <2>1. CASE pc' = "addUndoBird"
    BY <1>6, <2>1, <1>a, <1>b, <1>c, Zenon DEF AddPut, PutPeer, Established
  <2>2. CASE pc' = "idle"
    <3>1. [cur.info EXCEPT !.file = BirdFileName(cur.info.asn)] \in PeerInfo
      <4>1. cur \in CurType /\ BirdFileName(cur.info.asn) \in Files
        BY <1>a, BirdFileTyped, Zenon DEF TypeOK
      <4> QED
        BY <4>1, Zenon DEF CurType, PeerInfo
    <3>2. /\ cur.id \in Tracked'
          /\ peers'[cur.id].iface = cur.info.iface
          /\ peers'[cur.id].file = BirdFileName(cur.info.asn)
      BY <1>6, <2>2, <3>1, <1>a, PeeringsAssumption
      DEF AddPut, PutPeer, Tracked, TypeOK, CurType, PeerInfo
    <3>3. AddedIsReal' /\ RemovedIsGone'
      BY <1>6, <2>2, <3>2, <1>a, Zenon
      DEF AddPut, PutPeer, Established, AddedIsReal, RemovedIsGone
    <3>4. Established'
      BY <1>6, <2>2, <1>a, Zenon DEF AddPut, PutPeer, Established
    <3> QED
      BY <3>3, <3>4, <1>a, Zenon DEF Answers
  <2> QED
    BY <1>6, <2>1, <2>2, Zenon DEF AddPut, PutPeer
<1>7. ASSUME AddUndoBird PROVE Answers'
  BY <1>7, <1>a, <1>b, <1>c, <1>d, Zenon
  DEF AddUndoBird, RemovePeerByFilename, ReloadLockedOk, ReloadLockedErr, Established
<1>8. ASSUME NEW id, NEW asn, handlePeerRemove(id, asn) PROVE Answers'
  BY <1>8, <1>a, <1>c, Zenon DEF handlePeerRemove, Established
<1>9. ASSUME RemoveBird PROVE Answers'
  BY <1>9, <1>a, <1>b, <1>c, <1>d, Zenon
  DEF RemoveBird, RemovePeerByFilename, ReloadLockedOk, ReloadLockedErr, Established
<1>10. ASSUME RemoveWg PROVE Answers'
  BY <1>10, <1>a, <1>b, <1>c, <1>d, Zenon DEF RemoveWg, RemovePeerByIface, Established
<1>11. ASSUME RemoveStore PROVE Answers'
  <2>1. Established' /\ RemovedIsGone' /\ AddedIsReal'
    BY <1>11, <1>a, Zenon
    DEF RemoveStore, DeletePeer, Established, AddedIsReal, RemovedIsGone
  <2> QED
    BY <2>1, <1>a, Zenon DEF Answers
<1>12. ASSUME NEW S \in SUBSET Peerings, handlePeersSync(S) PROVE Answers'
  BY <1>12, <1>a, <1>c, Zenon DEF handlePeersSync, Established
<1>13. ASSUME SyncNext PROVE Answers'
  BY <1>13, <1>a, <1>b, <1>c, Zenon DEF SyncNext, Established
<1>14. ASSUME SyncWg PROVE Answers'
  BY <1>14, <1>a, <1>b, <1>c, <1>d, Zenon
  DEF SyncWg, AddPeerWithIfaceOk, AddPeerWithIfaceErr, Established
<1>15. ASSUME SyncBird PROVE Answers'
  <2>1. ignored => ignored'
    BY <1>15, <1>d, Zenon
    DEF SyncBird, BirdAddPeerOk, BirdAddPeerErr, ReloadLockedOk, ReloadLockedErr
  <2> QED
    BY <1>15, <2>1, <1>a, <1>b, <1>c, Zenon DEF SyncBird, Established
<1>16. ASSUME ReplaceAll PROVE Answers'
  BY <1>16, <1>a, <1>b, <1>c, Zenon DEF ReplaceAll, Established
<1>17. ASSUME StaleBird PROVE Answers'
  BY <1>17, <1>a, <1>b, <1>c, <1>d, Zenon
  DEF StaleBird, RemovePeerByFilename, ReloadLockedOk, ReloadLockedErr, Established
<1>18. ASSUME StaleWg PROVE Answers'
  BY <1>18, <1>a, <1>b, <1>c, <1>d, Zenon DEF StaleWg, RemovePeerByIface, Established
<1>19. ASSUME SyncReply PROVE Answers'
  BY <1>19, <1>a, <1>c, Zenon DEF SyncReply, Established
<1>20. ASSUME Crash PROVE Answers'
  <2>1. wgUp' \subseteq wgUp /\ wgConf \subseteq wgConf'
    BY <1>20, Zenon DEF Crash, TornCall
  <2> QED
    BY <1>20, <2>1, <1>a, <1>c, Zenon DEF Crash, Established
<1>21. ASSUME Reboot PROVE Answers'
  BY <1>21, <1>a, <1>c, Zenon DEF Reboot, Established
<1>22. ASSUME CalmDown PROVE Answers'
  BY <1>22, <1>a, Zenon
  DEF CalmDown, Answers, Established, AddedIsReal, RemovedIsGone, Tracked
<1>23. ASSUME UNCHANGED vars PROVE Answers'
  BY <1>23, <1>a, Zenon
  DEF vars, Answers, Established, AddedIsReal, RemovedIsGone, Tracked
<1> QED
  BY <1>1, <1>2, <1>3, <1>4, <1>5, <1>6, <1>7, <1>8, <1>9, <1>10, <1>11, <1>12,
     <1>13, <1>14, <1>15, <1>16, <1>17, <1>18, <1>19, <1>20, <1>21, <1>22, <1>23,
     ZenonT(30)
  DEF Next, HandlerStep

(* The handlers' invariant holds in every reachable state. *)
THEOREM AnswersInvariant == Spec => []Answers
<1>1. Init => Answers
  BY InitTypeOK, Zenon DEF Init, Answers, Established, AddedIsReal, RemovedIsGone
<1> QED
  BY <1>1, AnswersStep, PTL DEF Spec

(* "peer added successfully" is never answered for a peering that is not   *)
(* there, in the store and on the node, whatever names the center chose.   *)
THEOREM AddedHolds == Spec => []AddedIsReal
<1>1. Answers => AddedIsReal
  BY Zenon DEF Answers
<1> QED
  BY <1>1, AnswersInvariant, PTL

(* "peer removed successfully" is never answered while a config file, the  *)
(* interface or the protocol of that peer is left, for any peers and any   *)
(* names, after any commands, crashes, reboots and failed additions, as    *)
(* long as no removal failed.                                              *)
THEOREM RemovedHolds == Spec => []RemovedIsGone
<1>1. Answers => RemovedIsGone
  BY Zenon DEF Answers
<1> QED
  BY <1>1, AnswersInvariant, PTL
=============================================================================
