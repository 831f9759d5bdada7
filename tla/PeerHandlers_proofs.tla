------------------------- MODULE PeerHandlers_proofs -------------------------
(***************************************************************************)
(* Proofs about what the command handlers do with the store, WireGuard and *)
(* BIRD, whichever calls may fail.  First that they implement PeerRegistry *)
(* for every set of peerings: the steps that commit to the store are the   *)
(* steps of the registry, and all others are internal to a command.  Then, *)
(* for peerings with names of their own, about the loop and the teardown   *)
(* of peers.sync and what a handler may take from a peer it is not about.  *)
(***************************************************************************)
EXTENDS PeerLifecycle_proofs

-----------------------------------------------------------------------------
(* What the registry sees of a handler at each of its calls. *)

(* Between commands there is nothing to see. *)
LEMMA SeenIdle ==
  ASSUME NEW j, NEW t, NEW d
  PROVE  /\ CmdAt("idle") = "idle"
         /\ WriteAt("idle", j) = NoPeer
         /\ ListAt("idle", t, d, j) = {}
BY Zenon DEF CmdAt, WriteAt, ListAt, AddPcs, RemovePcs, SyncPcs

(* peer.add shows the entry it is to write. *)
LEMMA SeenAdd ==
  ASSUME NEW l \in AddPcs, NEW j, NEW t, NEW d
  PROVE  /\ CmdAt(l) = "add"
         /\ WriteAt(l, j) = [id |-> j.id,
                             info |-> [j.info EXCEPT !.file = BirdFileName(j.info.asn)]]
         /\ WriteAt(l, j).id = j.id
         /\ WriteAt(l, j).info = [j.info EXCEPT !.file = BirdFileName(j.info.asn)]
         /\ ListAt(l, t, d, j) = {}
BY Zenon DEF CmdAt, WriteAt, ListAt, AddPcs, RemovePcs, SyncPcs

(* peer.remove shows the entry it is to erase. *)
LEMMA SeenRemove ==
  ASSUME NEW l \in RemovePcs, NEW j, NEW t, NEW d
  PROVE  /\ CmdAt(l) = "remove"
         /\ WriteAt(l, j) = [id |-> j.id, info |-> NoPeer]
         /\ WriteAt(l, j).id = j.id /\ WriteAt(l, j).info = NoPeer
         /\ ListAt(l, t, d, j) = {}
BY Zenon DEF CmdAt, WriteAt, ListAt, AddPcs, RemovePcs, SyncPcs

(* peers.sync shows the entries it is to write, and after ReplaceAll those *)
(* it has written.                                                         *)
LEMMA SeenSync ==
  ASSUME NEW l \in SyncPcs, NEW j, NEW t, NEW d
  PROVE  /\ CmdAt(l) = IF l \in {"stale", "staleWg"} THEN "synced" ELSE "sync"
         /\ WriteAt(l, j) = NoPeer
         /\ ListAt(l, t, d, j) = IF l \in {"syncWg", "syncBird"}
                                 THEN t \cup d \cup {j} ELSE t \cup d
BY Zenon DEF CmdAt, WriteAt, ListAt, AddPcs, RemovePcs, SyncPcs

(* ReplaceAll's map is the registry's. *)
LEMMA SameMap == ASSUME NEW jobs PROVE ReplacedBy(jobs) = Registry!MapOf(jobs)
BY DEF ReplacedBy, Ids, Registry!MapOf

(* The agent starts as an empty registry. *)
LEMMA InitRefines == Init => Registry!Init
BY SeenIdle, Zenon DEF Init, Registry!Init

-----------------------------------------------------------------------------
(* A step that shows the registry nothing new. *)
LEMMA Invisible ==
  ASSUME UNCHANGED <<peers, reply>>,
         CmdAt(pc') = CmdAt(pc), WriteAt(pc', cur') = WriteAt(pc, cur),
         ListAt(pc', todo', m', cur') = ListAt(pc, todo, m, cur)
  PROVE  UNCHANGED Registry!vars
BY Zenon DEF Registry!vars

(* Every step of peer.add is a step of the registry or invisible to it. *)
LEMMA AddRefines ==
  ASSUME TypeOK,
         \/ \E p \in Peerings : handlePeerAdd(p)
         \/ AddEvict \/ AddWg \/ AddBird \/ AddUndoWg \/ AddPut \/ AddUndoBird
  PROVE  [Registry!Next]_(Registry!vars)
<1> USE DEF store, sync, Goto, Respond
<1>1. ASSUME NEW p \in Peerings, handlePeerAdd(p), reply' = "active"
      PROVE  Registry!Decline
  BY <1>1, SeenIdle, Zenon DEF handlePeerAdd, Registry!Decline
<1>2. ASSUME NEW p \in Peerings, handlePeerAdd(p), reply' # "active"
      PROVE  Registry!BeginAdd
  <2>1. Job(p) \in CurType
    BY JobsTyped, Zenon DEF Jobs
  <2>2. [Job(p).info EXCEPT !.file = BirdFileName(Job(p).info.asn)] \in PeerInfo
    BY <2>1, BirdFileTyped, Zenon DEF CurType, PeerInfo
  <2>3. pc = "idle" /\ pc' \in AddPcs /\ cur' = Job(p) /\ reply' = "none" /\ UNCHANGED peers
    BY <1>2, Zenon DEF handlePeerAdd, AddPcs
  <2>4. /\ CmdAt(pc) = "idle" /\ CmdAt(pc') = "add"
        /\ ListAt(pc, todo, m, cur) = {} /\ ListAt(pc', todo', m', cur') = {}
    BY <2>3, SeenIdle, SeenAdd, Zenon
  <2>5. WriteAt(pc', cur').info # NoPeer
    BY <2>2, <2>3, SeenAdd, PeeringsAssumption, Zenon
  <2> QED
    BY <2>3, <2>4, <2>5, Zenon DEF Registry!BeginAdd, Registry!Begin
<1>3. ASSUME AddEvict \/ (AddWg /\ pc' = "addBird") \/ AddBird
             \/ (AddPut /\ pc' = "addUndoBird") \/ AddUndoBird
      PROVE  UNCHANGED Registry!vars
  <2>1. pc \in AddPcs /\ pc' \in AddPcs /\ UNCHANGED <<peers, reply, cur>>
    BY <1>3, Zenon DEF AddEvict, AddWg, AddBird, AddPut, AddUndoBird, AddPcs
  <2> QED
    BY <2>1, SeenAdd, Invisible, ZenonT(30)
<1>4. ASSUME (AddWg /\ pc' # "addBird") \/ AddUndoWg \/ (AddPut /\ pc' # "addUndoBird")
      PROVE  Registry!Add
  <2>1. pc \in AddPcs /\ pc' = "idle"
    BY <1>4, Zenon DEF AddWg, AddUndoWg, AddPut, AddPcs
  <2>2. CmdAt(pc) = "add" /\ CmdAt(pc') = "idle" /\ WriteAt(pc', cur') = NoPeer
        /\ ListAt(pc', todo', m', cur') = {}
        /\ WriteAt(pc, cur).id = cur.id
        /\ WriteAt(pc, cur).info = [cur.info EXCEPT !.file = BirdFileName(cur.info.asn)]
    BY <2>1, SeenIdle, SeenAdd, Zenon
  <2>3. \/ reply' = "addFailed" /\ UNCHANGED peers
        \/ /\ reply' = "added"
           /\ peers' = [peers EXCEPT ![cur.id] =
                          [cur.info EXCEPT !.file = BirdFileName(cur.info.asn)]]
    BY <1>4, Zenon DEF AddWg, AddUndoWg, AddPut, PutPeer
  <2> QED
    BY <2>2, <2>3, Zenon DEF Registry!Add, Registry!Write, Registry!Finish
<1> QED
  BY <1>1, <1>2, <1>3, <1>4, Zenon DEF Registry!Next

(* So is every step of peer.remove. *)
LEMMA RemoveRefines ==
  ASSUME \/ \E p \in Peerings : handlePeerRemove(p.id, p.asn) \/ handlePeerRemove(p.id, 0)
         \/ RemoveBird \/ RemoveWg \/ RemoveStore
  PROVE  [Registry!Next]_(Registry!vars)
<1> USE DEF store, sync, Goto, Respond
<1>1. ASSUME NEW id, NEW asn, handlePeerRemove(id, asn)
      PROVE  Registry!Decline \/ Registry!BeginRemove
  <2>1. pc = "idle" /\ UNCHANGED peers
    BY <1>1, Zenon DEF handlePeerRemove
  <2>2. CASE reply' = "unknown" /\ pc' = "idle" /\ UNCHANGED cur
    BY <2>1, <2>2, SeenIdle, Zenon DEF Registry!Decline
  <2>3. CASE pc' = "remBird" /\ reply' = "none"
    <3>1. pc' \in RemovePcs
      BY <2>3, Zenon DEF RemovePcs
    <3>2. CmdAt(pc) = "idle" /\ ListAt(pc, todo, m, cur) = {}
      BY <2>1, SeenIdle, Zenon
    <3>3. /\ CmdAt(pc') = "remove" /\ ListAt(pc', todo', m', cur') = {}
          /\ WriteAt(pc', cur').info = NoPeer
      BY <3>1, SeenRemove, Zenon
    <3> QED
      BY <2>1, <2>3, <3>2, <3>3, Zenon DEF Registry!BeginRemove, Registry!Begin
  <2> QED
    BY <1>1, <2>2, <2>3, Zenon DEF handlePeerRemove
<1>2. ASSUME RemoveBird \/ RemoveWg PROVE UNCHANGED Registry!vars
  <2>1. pc \in RemovePcs /\ pc' \in RemovePcs /\ UNCHANGED <<peers, reply, cur>>
    BY <1>2, Zenon DEF RemoveBird, RemoveWg, RemovePcs
  <2> QED
    BY <2>1, SeenRemove, Invisible, Zenon
<1>3. ASSUME RemoveStore PROVE Registry!Remove
  <2>1. pc \in RemovePcs /\ pc' = "idle" /\ reply' = "removed"
        /\ (peers' = [peers EXCEPT ![cur.id] = NoPeer] \/ UNCHANGED peers)
    BY <1>3, Zenon DEF RemoveStore, DeletePeer, RemovePcs
  <2>2. /\ CmdAt(pc) = "remove"
        /\ WriteAt(pc, cur).id = cur.id /\ WriteAt(pc, cur).info = NoPeer
    BY <2>1, SeenRemove, Zenon
  <2>3. CmdAt(pc') = "idle" /\ WriteAt(pc', cur') = NoPeer /\ ListAt(pc', todo', m', cur') = {}
    BY <2>1, SeenIdle, Zenon
  <2> QED
    BY <2>1, <2>2, <2>3, Zenon DEF Registry!Remove, Registry!Write, Registry!Finish
<1> QED
  BY <1>1, <1>2, <1>3, Zenon DEF Registry!Next

(* And every step of peers.sync: only an entry that cannot be used leaves  *)
(* the list before ReplaceAll commits it.                                  *)
LEMMA SyncRefines ==
  ASSUME TypeOK,
         \/ \E S \in SUBSET Peerings : handlePeersSync(S)
         \/ SyncNext \/ SyncWg \/ SyncBird \/ ReplaceAll \/ StaleBird \/ StaleWg \/ SyncReply
  PROVE  [Registry!Next]_(Registry!vars)
<1> USE DEF store, sync, Goto, Respond
<1>1. ASSUME NEW S \in SUBSET Peerings, handlePeersSync(S) PROVE Registry!BeginSync
  <2>1. /\ pc = "idle" /\ pc' = "syncNext" /\ reply' = "none" /\ UNCHANGED peers
        /\ todo' \subseteq Jobs /\ m' = {}
    BY <1>1, Zenon DEF handlePeersSync, Jobs
  <2>2. CmdAt(pc) = "idle" /\ WriteAt(pc, cur) = NoPeer
    BY <2>1, SeenIdle, Zenon
  <2>3. /\ CmdAt(pc') = "sync" /\ WriteAt(pc', cur') = NoPeer
        /\ ListAt(pc', todo', m', cur') = todo' \cup m'
    BY <2>1, SeenSync DEF SyncPcs
  <2> QED
    BY <2>1, <2>2, <2>3, Zenon DEF Registry!BeginSync, Registry!Begin
<1>2. ASSUME SyncNext PROVE Registry!Drop
  <2>1. PICK j \in todo :
          /\ todo' = todo \ {j}
          /\ \/ Dropped(j) /\ pc' = "syncNext"
             \/ pc' \in {"syncWg", "syncBird"} /\ cur' = j
    BY <1>2, Zenon DEF SyncNext
  <2>2. pc = "syncNext" /\ UNCHANGED <<peers, m, reply>>
    BY <1>2, Zenon DEF SyncNext
  <2>3. /\ CmdAt(pc) = "sync" /\ WriteAt(pc, cur) = NoPeer
        /\ ListAt(pc, todo, m, cur) = todo \cup m
    BY <2>2, SeenSync DEF SyncPcs
  <2>4. CmdAt(pc') = "sync" /\ WriteAt(pc', cur') = NoPeer
    BY <2>1, SeenSync, Zenon DEF SyncPcs
  <2>5. CASE Dropped(j) /\ pc' = "syncNext"
    <3>1. ListAt(pc', todo', m', cur') = (todo \ {j}) \cup m
      BY <2>1, <2>2, <2>5, SeenSync DEF SyncPcs
    <3>2. ~(j.info.asn > 0 /\ j.cfg # "noKey")
      BY <2>5 DEF Dropped
    <3> QED
      BY <2>2, <2>3, <2>4, <3>1, <3>2, Zenon DEF Registry!Drop
  <2>6. CASE pc' \in {"syncWg", "syncBird"} /\ cur' = j
    <3>1. ListAt(pc', todo', m', cur') = (todo \ {j}) \cup m \cup {j}
      BY <2>1, <2>2, <2>6, SeenSync DEF SyncPcs
    <3> QED
      BY <2>1, <2>2, <2>3, <2>4, <3>1, Zenon DEF Registry!Drop
  <2> QED
    BY <2>1, <2>5, <2>6, Zenon
<1>3. ASSUME SyncWg \/ SyncBird PROVE UNCHANGED Registry!vars
  <2>1. /\ pc \in {"syncWg", "syncBird"} /\ UNCHANGED <<peers, reply, cur, todo>>
        /\ \/ pc' = "syncBird" /\ UNCHANGED m
           \/ pc' = "syncNext" /\ m' = m \cup {cur}
    BY <1>3, Zenon DEF SyncWg, SyncBird, Record
  <2>2. /\ CmdAt(pc') = CmdAt(pc) /\ WriteAt(pc', cur') = WriteAt(pc, cur)
        /\ ListAt(pc, todo, m, cur) = todo \cup m \cup {cur}
    BY <2>1, SeenSync DEF SyncPcs
  <2>3. ListAt(pc', todo', m', cur') = todo \cup m \cup {cur}
    BY <2>1, SeenSync DEF SyncPcs
  <2> QED
    BY <2>1, <2>2, <2>3, Invisible, Zenon
<1>4. ASSUME ReplaceAll PROVE Registry!Replace
  <2>1. /\ pc = "syncNext" /\ pc' = "stale" /\ UNCHANGED <<todo, m, cur, reply>>
        /\ todo = {} /\ peers' \in {peers, ReplacedBy(m)}
    BY <1>4, Zenon DEF ReplaceAll
  <2>2. /\ CmdAt(pc) = "sync" /\ WriteAt(pc, cur) = NoPeer
        /\ ListAt(pc, todo, m, cur) = m
    BY <2>1, SeenSync DEF SyncPcs
  <2>3. /\ CmdAt(pc') = "synced" /\ WriteAt(pc', cur') = NoPeer
        /\ ListAt(pc', todo', m', cur') = m
    BY <2>1, SeenSync DEF SyncPcs
  <2> QED
    BY <2>1, <2>2, <2>3, SameMap, Zenon DEF Registry!Replace
<1>5. ASSUME StaleBird \/ StaleWg PROVE UNCHANGED Registry!vars
  <2>1. /\ pc \in {"stale", "staleWg"} /\ pc' \in {"stale", "staleWg"}
        /\ UNCHANGED <<peers, reply, todo, m>>
    BY <1>5, Zenon DEF StaleBird, StaleWg
  <2>2. pc \in SyncPcs /\ pc' \in SyncPcs
    BY <2>1, Zenon DEF SyncPcs
  <2>3. /\ CmdAt(pc) = "synced" /\ WriteAt(pc, cur) = NoPeer
        /\ ListAt(pc, todo, m, cur) = todo \cup m
    BY <2>1, <2>2, SeenSync
  <2>4. /\ CmdAt(pc') = "synced" /\ WriteAt(pc', cur') = NoPeer
        /\ ListAt(pc', todo', m', cur') = todo \cup m
    BY <2>1, <2>2, SeenSync
  <2> QED
    BY <2>1, <2>3, <2>4, Invisible, Zenon
<1>6. ASSUME SyncReply PROVE Registry!Synced
  <2>1. pc = "stale" /\ pc' = "idle" /\ reply' = "synced" /\ UNCHANGED peers
    BY <1>6, Zenon DEF SyncReply
  <2>2. CmdAt(pc) = "synced"
    BY <2>1, SeenSync, Zenon DEF SyncPcs
  <2>3. CmdAt(pc') = "idle" /\ WriteAt(pc', cur') = NoPeer /\ ListAt(pc', todo', m', cur') = {}
    BY <2>1, SeenIdle, Zenon
  <2> QED
    BY <2>1, <2>2, <2>3, Zenon DEF Registry!Synced, Registry!Finish
<1> QED
  BY <1>1, <1>2, <1>3, <1>4, <1>5, <1>6, Zenon DEF Registry!Next

(* A crash or a reboot is a restart of the registry, and failures coming   *)
(* to an end concerns nobody.                                              *)
LEMMA EnvironmentRefines ==
  ASSUME Crash \/ Reboot \/ CalmDown
  PROVE  [Registry!Next]_(Registry!vars)
<1> USE DEF store, sync, Goto, Respond
<1>1. ASSUME Crash \/ Reboot PROVE Registry!Restart
  <2>1. pc' = "idle" /\ reply' = "none" /\ UNCHANGED peers
    BY <1>1, Zenon DEF Crash, Reboot
  <2> QED
    BY <2>1, SeenIdle, Zenon DEF Registry!Restart, Registry!Finish
<1>2. ASSUME CalmDown PROVE UNCHANGED Registry!vars
  <2>1. UNCHANGED <<peers, reply, pc, cur, todo, m>>
    BY <1>2, Zenon DEF CalmDown
  <2> QED
    BY <2>1, Invisible, Zenon
<1> QED
  BY <1>1, <1>2, Zenon DEF Registry!Next

(* PeerLifecycle implements PeerRegistry: seen from the center, the calls, *)
(* failures, rollbacks and crashes of the peer commands are single changes *)
(* of one map.                                                             *)
THEOREM RegistryRefined == Spec => ImplementsRegistry
<1>1. TypeOK /\ [Next]_vars => [Registry!Next]_(Registry!vars)
  <2> SUFFICES ASSUME TypeOK, [Next]_vars PROVE [Registry!Next]_(Registry!vars)
    BY Zenon
  <2>1. CASE UNCHANGED vars
    <3>1. UNCHANGED <<peers, reply, pc, cur, todo, m>>
      BY <2>1, Zenon DEF vars
    <3> QED
      BY <3>1, Invisible, Zenon
  <2>2. CASE Next
    BY <2>2, AddRefines, RemoveRefines, SyncRefines, EnvironmentRefines, Zenon
       DEF Next, HandlerStep
  <2> QED
    BY <2>1, <2>2, Zenon
<1> QED
  BY <1>1, InitRefines, TypeCorrect, PTL DEF Spec, ImplementsRegistry, Registry!Spec

-----------------------------------------------------------------------------
(* The loop and the teardown of peers.sync. *)

(* The entries of the running sync, visited or not, with the one at hand. *)
Current == IF pc \in {"syncWg", "syncBird"} THEN {cur} ELSE {}

(* The list names each peer once, and no entry is visited twice. *)
ListedOnce ==
  pc \in SyncPcs =>
    /\ \A j, k \in todo \cup m \cup Current : j.id = k.id => j = k
    /\ todo \cap m = {} /\ Current \cap (todo \cup m) = {}

(* An entry is in place: what a peer reported as applied must have. *)
InPlace(j) ==
  /\ j.info.iface \in wgConf
  /\ j.info.file \in birdConf
  /\ j.cfg # "noKey" => j.info.iface \in wgUp

AppliedInPlace ==
  /\ pc \in SyncPcs \/ reply = "synced" =>
       \A j \in m : j.id \in applied => InPlace(j)
  /\ pc = "syncBird" /\ ~failed =>
       cur.info.iface \in wgConf /\ (cur.cfg # "noKey" => cur.info.iface \in wgUp)
  /\ pc \in SyncPcs => applied \subseteq Ids(m)
  /\ pc # "idle" => reply # "synced"

(* What is torn down belonged to peers that the sync did not list and that *)
(* the store, if ReplaceAll was committed, no longer has.                  *)
StaleForgotten ==
  /\ pc \in {"stale", "staleWg"} =>
       \A s \in stalePeers : \E id \in PeerIds \ Ids(m) : Real(id, s)
  /\ pc \in {"stale", "staleWg"} /\ ~hurt => Tracked \subseteq Ids(m)

(* What peer.remove takes down: the names in the store or those of the     *)
(* payload's ASN.                                                          *)
RemovesOwn ==
  pc \in RemovePcs =>
    \/ Real(cur.id, cur.info)
    \/ \E p \in Peerings : /\ p.id = cur.id
                           /\ cur.info = [asn |-> p.asn, iface |-> InterfaceName(p.asn),
                                          file |-> BirdFileName(p.asn)]

(* Two peers share neither an interface nor a BIRD file. *)
LEMMA RealApart ==
  ASSUME NamesStable, NamesUnique, NEW i, NEW k, NEW x, NEW y,
         Real(i, x), Real(k, y), i # k
  PROVE  x.iface # y.iface /\ x.file # y.file
<1>1. PICK p \in Peerings : p.id = i /\ p.asn > 0 /\ x = Info(p)
  BY Zenon DEF Real
<1>2. PICK q \in Peerings : q.id = k /\ q.asn > 0 /\ y = Info(q)
  BY Zenon DEF Real
<1>3. p.asn # q.asn /\ Info(p).iface # Info(q).iface
  BY <1>1, <1>2, Zenon DEF NamesUnique
<1>4. /\ x.file = BirdFileName(x.asn) /\ y.file = BirdFileName(y.asn)
      /\ x.asn = p.asn /\ y.asn = q.asn
  BY <1>1, <1>2, RealNames, SMTT(30) DEF Info
<1> QED
  BY <1>1, <1>2, <1>3, <1>4 DEF BirdFileName

(* The loop of handlePeersSync visits each entry of the list once. *)
LEMMA ListedOnceStep ==
  ASSUME ListedOnce, [Next]_vars
  PROVE  ListedOnce'
<1> USE DEF sync, Goto, Respond, SyncPcs
<1>1. ASSUME NEW S \in SUBSET Peerings, handlePeersSync(S) PROVE ListedOnce'
  <2>1. /\ todo' = {Job(p) : p \in S} /\ m' = {} /\ Current' = {}
        /\ \A p, q \in S : p.id = q.id => p = q
    BY <1>1, Zenon DEF handlePeersSync, Consistent, Current
  <2>2. \A p : Job(p).id = p.id
    BY Zenon DEF Job
  <2>3. ASSUME NEW j \in todo', NEW k \in todo', j.id = k.id PROVE j = k
    <3>1. PICK p \in S : j = Job(p)
      BY <2>1, Zenon
    <3>2. PICK q \in S : k = Job(q)
      BY <2>1, Zenon
    <3> QED
      BY <2>1, <2>2, <2>3, <3>1, <3>2
  <2> QED
    BY <2>1, <2>3, Zenon DEF ListedOnce
<1>2. ASSUME SyncNext PROVE ListedOnce'
  <2>1. PICK j \in todo :
          /\ todo' = todo \ {j} /\ m' = m
          /\ \/ pc' = "syncNext"
             \/ pc' \in {"syncWg", "syncBird"} /\ cur' = j
    BY <1>2, Zenon DEF SyncNext
  <2>2. pc = "syncNext" /\ Current' \subseteq {j}
    BY <1>2, <2>1, Zenon DEF SyncNext, Current
  <2>3. /\ todo' \cup m' \cup Current' \subseteq todo \cup m
        /\ todo' \cap m' \subseteq todo \cap m /\ j \notin todo' /\ (j \in m' => j \in m)
    BY <2>1, <2>2, Zenon
  <2>4. pc \in SyncPcs
    BY <2>2, Zenon DEF SyncPcs
  <2>5. todo \cap m = {} /\ \A i, k \in todo \cup m : i.id = k.id => i = k
    BY <2>4, Zenon DEF ListedOnce
  <2>6. Current' \cap (todo' \cup m') = {}
    BY <2>2, <2>3, <2>5, ZenonT(30)
  <2> QED
    BY <2>3, <2>5, <2>6, Zenon DEF ListedOnce
<1>3. ASSUME SyncWg PROVE ListedOnce'
  BY <1>3, ZenonT(30) DEF SyncWg, ListedOnce, Current
<1>4. ASSUME SyncBird PROVE ListedOnce'
  <2>1. /\ m' = m \cup {cur} /\ todo' = todo /\ pc = "syncBird" /\ pc' = "syncNext"
    BY <1>4, Zenon DEF SyncBird, Record
  <2>2. Current = {cur} /\ Current' = {}
    BY <2>1, Zenon DEF Current
  <2> QED
    BY <2>1, <2>2 DEF ListedOnce
<1>5. ASSUME ReplaceAll \/ StaleBird \/ StaleWg PROVE ListedOnce'
  <2>1. /\ UNCHANGED <<todo, m>> /\ Current' = {}
        /\ pc \in SyncPcs /\ Current = {}
    BY <1>5, Zenon DEF ReplaceAll, StaleBird, StaleWg, Current
  <2> QED
    BY <2>1, ZenonT(30) DEF ListedOnce
<1>6. ASSUME pc' \notin SyncPcs PROVE ListedOnce'
  BY <1>6, Zenon DEF ListedOnce
<1>7. ASSUME UNCHANGED <<pc, cur, todo, m>> PROVE ListedOnce'
  BY <1>7, ZenonT(30) DEF ListedOnce, Current
<1> QED
  BY <1>1, <1>2, <1>3, <1>4, <1>5, <1>6, <1>7, ZenonT(30)
  DEF Next, HandlerStep, vars, handlePeerAdd, AddEvict, AddWg, AddBird, AddUndoWg,
      AddPut, AddUndoBird, handlePeerRemove, RemoveBird, RemoveWg, RemoveStore,
      SyncReply, Crash, Reboot, CalmDown

(* ReplaceAll makes stale what the list does not have, and nothing it tears *)
(* down afterwards is in the store again.                                  *)
LEMMA StaleForgottenStep ==
  ASSUME TypeOK, NamesKnown, StaleForgotten, [Next]_vars
  PROVE  StaleForgotten'
<1> USE DEF sync, store, Goto, Respond
<1>a. hurt \in BOOLEAN /\ hurt' \in BOOLEAN
  BY NextTypeOK, Zenon DEF TypeOK
<1>1. ASSUME ReplaceAll PROVE StaleForgotten'
  <2>1. m' = m /\ stalePeers' = {peers[id] : id \in Tracked \ Ids(m)}
    BY <1>1, Zenon DEF ReplaceAll
  <2>2. \A id \in Tracked : id \in PeerIds /\ Real(id, peers[id])
    BY Zenon DEF NamesKnown, Tracked
  <2>3. \A s \in stalePeers' : \E id \in PeerIds \ Ids(m) : Real(id, s)
    BY <2>1, <2>2, Zenon
  <2>4. ~hurt' => Tracked' \subseteq Ids(m)
    <3>1. ~hurt' => peers' = ReplacedBy(m)
      BY <1>1, Zenon DEF ReplaceAll
    <3> QED
      BY <3>1, Zenon DEF Tracked, ReplacedBy
  <2>5. Ids(m)' = Ids(m)
    BY <2>1, Zenon DEF Ids
  <2> QED
    BY <2>1, <2>3, <2>4, <2>5, Zenon DEF StaleForgotten
<1>2. ASSUME StaleBird \/ StaleWg PROVE StaleForgotten'
  <2>1. /\ UNCHANGED <<m, peers>> /\ stalePeers' \subseteq stalePeers
        /\ pc \in {"stale", "staleWg"}
    BY <1>2, Zenon DEF StaleBird, StaleWg
  <2>2. ~hurt' => ~hurt
    BY <1>2, <1>a, Zenon
    DEF StaleBird, StaleWg, RemovePeerByFilename, RemovePeerByIface,
       ReloadLockedOk, ReloadLockedErr
  <2>3. Ids(m)' = Ids(m) /\ Tracked' = Tracked
    BY <2>1, Zenon DEF Ids, Tracked
  <2> QED
    BY <2>1, <2>2, <2>3, Zenon DEF StaleForgotten
<1>3. ASSUME pc' \notin {"stale", "staleWg"} PROVE StaleForgotten'
  BY <1>3, Zenon DEF StaleForgotten
<1>4. ASSUME UNCHANGED <<pc, m, peers, stalePeers, hurt>> PROVE StaleForgotten'
  BY <1>4, Zenon DEF StaleForgotten, Ids, Tracked
<1> QED
  BY <1>1, <1>2, <1>3, <1>4, ZenonT(30)
  DEF Next, HandlerStep, vars, handlePeerAdd, AddEvict, AddWg, AddBird, AddUndoWg,
      AddPut, AddUndoBird, handlePeerRemove, RemoveBird, RemoveWg, RemoveStore,
      handlePeersSync, SyncNext, SyncWg, SyncBird, SyncReply, Crash, Reboot, CalmDown

(* handlePeersSync keeps every entry it has reported as applied in place:  *)
(* neither the entries after it nor the teardown touch its names.          *)
LEMMA AppliedInPlaceStep ==
  ASSUME NamesStable, NamesUnique, TypeOK, NamesKnown, ListedOnce, StaleForgotten,
         AppliedInPlace, [Next]_vars
  PROVE  AppliedInPlace'
<1> USE DEF wg, bird, sync, Goto, Respond, SyncPcs
<1>a. ASSUME reply' # "synced", pc' \notin SyncPcs PROVE AppliedInPlace'
  BY <1>a, Zenon DEF AppliedInPlace
<1>b. pc # "idle" => reply # "synced"
  BY Zenon DEF AppliedInPlace
<1>c. failed \in BOOLEAN
  BY Zenon DEF TypeOK
<1>1. ASSUME NEW S \in SUBSET Peerings, handlePeersSync(S) PROVE AppliedInPlace'
  BY <1>1, Zenon DEF handlePeersSync, AppliedInPlace
<1>2. ASSUME SyncNext PROVE AppliedInPlace'
  <2>1. PICK j \in todo :
          \/ pc' = "syncNext"
          \/ pc' = "syncWg"
          \/ pc' = "syncBird" /\ cur' = j /\ ~Dropped(j) /\ ~NeedsWg(j)
    BY <1>2, Zenon DEF SyncNext
  <2>2. /\ UNCHANGED <<wgConf, wgUp, birdConf, m, applied, reply>>
        /\ pc = "syncNext" /\ pc' \in SyncPcs
    BY <1>2, Zenon DEF SyncNext
  <2>3. pc' = "syncBird" =>
          cur'.info.iface \in wgConf /\ (cur'.cfg # "noKey" => cur'.info.iface \in wgUp)
    BY <2>1, Zenon DEF Dropped, NeedsWg
  <2>4. \A k \in m : k.id \in applied => InPlace(k)'
    BY <2>2, Zenon DEF AppliedInPlace, InPlace
  <2>5. Ids(m)' = Ids(m)
    BY <2>2, Zenon DEF Ids
  <2> QED
    BY <1>b, <2>2, <2>3, <2>4, <2>5, Zenon DEF AppliedInPlace
<1>3. ASSUME SyncWg PROVE AppliedInPlace'
  <2>1. /\ UNCHANGED <<birdConf, m, applied, reply, cur>>
        /\ pc = "syncWg" /\ pc' = "syncBird"
        /\ wgConf \subseteq wgConf' /\ wgUp \subseteq wgUp'
        /\ ~failed' => cur.info.iface \in wgConf' \cap wgUp'
    BY <1>3, Zenon DEF SyncWg, AddPeerWithIfaceOk, AddPeerWithIfaceErr
  <2>2. \A j \in m : j.id \in applied => InPlace(j)'
    BY <2>1, Zenon DEF AppliedInPlace, InPlace
  <2>3. Ids(m)' = Ids(m)
    BY <2>1, Zenon DEF Ids
  <2> QED
    BY <1>b, <2>1, <2>2, <2>3, Zenon DEF AppliedInPlace
<1>4. ASSUME SyncBird PROVE AppliedInPlace'
  <2>1. /\ UNCHANGED <<wgConf, wgUp, reply, cur>>
        /\ pc = "syncBird" /\ pc' = "syncNext"
        /\ m' = m \cup {cur} /\ applied' \subseteq applied \cup {cur.id}
    BY <1>4, Zenon DEF SyncBird, Record
  <2>2. Real(cur.id, cur.info)
    BY <2>1, Zenon DEF NamesKnown
  <2>3. cur.info.file = BirdFileName(cur.info.asn)
    BY <2>2, RealNames, Zenon
  <2>4. birdConf \ {cur.info.file} \subseteq birdConf'
    BY <1>4, <2>3, Zenon DEF SyncBird, BirdAddPeerOk, BirdAddPeerErr, ReloadLockedErr
  <2>5. ASSUME NEW j \in m PROVE j.id # cur.id /\ j.info.file # cur.info.file
    <3>1. j.id # cur.id
      BY <2>1, <2>5, Zenon DEF ListedOnce, Current
    <3>2. Real(j.id, j.info)
      BY Zenon DEF NamesKnown
    <3> QED
      BY <2>2, <3>1, <3>2, RealApart, Zenon
  <2>6. ASSUME NEW j \in m, j.id \in applied' PROVE InPlace(j)'
    BY <2>1, <2>4, <2>5, <2>6, Zenon DEF AppliedInPlace, InPlace
  <2>7. ASSUME cur.id \in applied' PROVE InPlace(cur)'
    <3>1. CASE cur.id \in applied' \ applied
      <4>1. ~failed /\ cur.info.file \in birdConf'
        BY <1>4, <1>c, <2>3, <3>1, Zenon DEF SyncBird, Record, BirdAddPeerOk
      <4> QED
        BY <2>1, <4>1, Zenon DEF AppliedInPlace, InPlace
    <3>2. cur.id \notin applied
      BY <2>1, <2>5, Zenon DEF AppliedInPlace, Ids
    <3> QED
      BY <2>7, <3>1, <3>2, Zenon
  <2>8. applied' \subseteq Ids(m)'
    BY <2>1, Zenon DEF AppliedInPlace, Ids
  <2> QED
    BY <1>b, <2>1, <2>6, <2>7, <2>8, Zenon DEF AppliedInPlace
<1>5. ASSUME ReplaceAll \/ SyncReply PROVE AppliedInPlace'
  <2>1. /\ UNCHANGED <<wgConf, wgUp, birdConf, m, applied>>
        /\ pc \in SyncPcs /\ pc' \in {"stale", "idle"} /\ (pc' = "stale" => reply' = reply)
    BY <1>5, Zenon DEF ReplaceAll, SyncReply
  <2>2. \A j \in m : j.id \in applied => InPlace(j)'
    BY <2>1, Zenon DEF AppliedInPlace, InPlace
  <2>3. Ids(m)' = Ids(m)
    BY <2>1, Zenon DEF Ids
  <2> QED
    BY <1>b, <2>1, <2>2, <2>3, Zenon DEF AppliedInPlace
<1>6. ASSUME StaleBird \/ StaleWg PROVE AppliedInPlace'
  <2>1. PICK s \in stalePeers : /\ wgConf \ {s.iface} \subseteq wgConf'
                                /\ wgUp \ {s.iface} \subseteq wgUp'
                                /\ birdConf \ {s.file} \subseteq birdConf'
    <3>1. CASE StaleBird
      BY <3>1, Zenon DEF StaleBird, RemovePeerByFilename
    <3>2. CASE StaleWg
      <4>1. cur.info \in stalePeers
        BY <3>2, Zenon DEF StaleWg, NamesKnown
      <4> QED
        BY <3>2, <4>1, Zenon DEF StaleWg, RemovePeerByIface
    <3> QED
      BY <1>6, <3>1, <3>2, Zenon
  <2>2. /\ UNCHANGED <<m, applied, reply>>
        /\ pc \in {"stale", "staleWg"} /\ pc' \in {"stale", "staleWg"}
    BY <1>6, Zenon DEF StaleBird, StaleWg
  <2>3. PICK id \in PeerIds \ Ids(m) : Real(id, s)
    BY <2>2, Zenon DEF StaleForgotten
  <2>4. ASSUME NEW j \in m PROVE j.info.iface # s.iface /\ j.info.file # s.file
    <3>1. Real(j.id, j.info) /\ j.id # id
      BY <2>3, Zenon DEF NamesKnown, Ids
    <3> QED
      BY <2>3, <3>1, RealApart, Zenon
  <2>5. \A j \in m : j.id \in applied => InPlace(j)'
    BY <2>1, <2>2, <2>4, Zenon DEF AppliedInPlace, InPlace
  <2>6. Ids(m)' = Ids(m)
    BY <2>2, Zenon DEF Ids
  <2> QED
    BY <1>b, <2>2, <2>5, <2>6, Zenon DEF AppliedInPlace
<1>7. ASSUME UNCHANGED <<pc, cur, reply, m, applied, failed, wgConf, wgUp, birdConf>>
      PROVE  AppliedInPlace'
  <2>1. Ids(m)' = Ids(m) /\ \A j : InPlace(j)' = InPlace(j)
    BY <1>7, Zenon DEF Ids, InPlace
  <2> QED
    BY <1>7, <2>1, Zenon DEF AppliedInPlace
<1>8. ASSUME NEW p, handlePeerAdd(p) PROVE AppliedInPlace'
  BY <1>8, <1>a, Zenon DEF handlePeerAdd
<1>9. ASSUME NEW id, NEW asn, handlePeerRemove(id, asn) PROVE AppliedInPlace'
  BY <1>9, <1>a, Zenon DEF handlePeerRemove
<1>10. ASSUME \/ AddEvict \/ AddWg \/ AddBird \/ AddUndoWg \/ AddPut \/ AddUndoBird
              \/ RemoveBird \/ RemoveWg \/ RemoveStore
       PROVE  AppliedInPlace'
  BY <1>10, <1>a, <1>b, Zenon
  DEF AddEvict, AddWg, AddBird, AddUndoWg, AddPut, AddUndoBird,
     RemoveBird, RemoveWg, RemoveStore
<1>11. ASSUME Crash \/ Reboot PROVE AppliedInPlace'
  BY <1>11, <1>a, Zenon DEF Crash, Reboot
<1>12. ASSUME CalmDown \/ UNCHANGED vars PROVE AppliedInPlace'
  BY <1>12, <1>7, Zenon DEF CalmDown, vars
<1> QED
  BY <1>1, <1>2, <1>3, <1>4, <1>5, <1>6, <1>8, <1>9, <1>10, <1>11, <1>12, Zenon
  DEF Next, HandlerStep

(* peer.remove only names what the store or the payload's ASN gives it. *)
LEMMA RemovesOwnStep ==
  ASSUME NamesKnown, RemovesOwn, [Next]_vars
  PROVE  RemovesOwn'
<1> USE DEF sync, Goto, Respond, RemovePcs
<1>1. ASSUME NEW p \in Peerings, NEW asn \in {0, p.asn}, handlePeerRemove(p.id, asn)
      PROVE  RemovesOwn'
  <2>1. CASE pc' = "idle"
    BY <2>1, Zenon DEF RemovesOwn
  <2>2. CASE pc' # "idle" /\ p.id \in Tracked
    <3>1. cur' = [id |-> p.id, cfg |-> "noKey", info |-> peers[p.id]]
      BY <1>1, <2>2, Zenon DEF handlePeerRemove
    <3>2. cur'.id = p.id /\ cur'.info = peers[p.id]
      BY <3>1, Zenon
    <3>3. Real(p.id, peers[p.id])
      BY <2>2, Zenon DEF NamesKnown
    <3> QED
      BY <3>2, <3>3, Zenon DEF RemovesOwn
  <2>3. CASE pc' # "idle" /\ p.id \notin Tracked
    <3>1. asn = p.asn
      BY <1>1, <2>3, Zenon DEF handlePeerRemove
    <3>2. cur' = [id |-> p.id, cfg |-> "noKey",
                  info |-> [asn |-> p.asn, iface |-> InterfaceName(p.asn),
                            file |-> BirdFileName(p.asn)]]
      BY <1>1, <2>3, <3>1, Zenon DEF handlePeerRemove
    <3>3. /\ cur'.id = p.id
          /\ cur'.info = [asn |-> p.asn, iface |-> InterfaceName(p.asn),
                          file |-> BirdFileName(p.asn)]
      BY <3>2, Zenon
    <3> QED
      BY <3>3, Zenon DEF RemovesOwn
  <2> QED
    BY <2>1, <2>2, <2>3, Zenon
<1>2. ASSUME pc' \notin RemovePcs PROVE RemovesOwn'
  BY <1>2, Zenon DEF RemovesOwn
<1>3. ASSUME UNCHANGED cur, pc' \in RemovePcs => pc \in RemovePcs PROVE RemovesOwn'
  BY <1>3, Zenon DEF RemovesOwn
<1> QED
  BY <1>1, <1>2, <1>3, ZenonT(30)
  DEF Next, HandlerStep, vars, handlePeerAdd, AddEvict, AddWg, AddBird, AddUndoWg,
      AddPut, AddUndoBird, RemoveBird, RemoveWg, RemoveStore, handlePeersSync,
      SyncNext, SyncWg, SyncBird, ReplaceAll, StaleBird, StaleWg, SyncReply, Crash,
      Reboot, CalmDown

SyncInv == Ownership /\ ListedOnce /\ StaleForgotten /\ AppliedInPlace /\ RemovesOwn

(* The invariant about the running sync, and about what a handler may take *)
(* down, holds in every reachable state.                                   *)
THEOREM SyncInvariant ==
  ASSUME NamesStable, NamesUnique
  PROVE  Spec => []SyncInv
<1>1. Init => SyncInv
  BY OwnershipInit, Zenon DEF Init, SyncInv, ListedOnce, StaleForgotten, AppliedInPlace,
     RemovesOwn, SyncPcs, RemovePcs
<1>2. SyncInv /\ [Next]_vars => SyncInv'
  <2>1. SyncInv => TypeOK /\ NamesKnown
    BY Zenon DEF SyncInv, Ownership
  <2> QED
    BY <2>1, OwnershipStep, ListedOnceStep, StaleForgottenStep, AppliedInPlaceStep,
       RemovesOwnStep, Zenon
    DEF SyncInv
<1> QED
  BY <1>1, <1>2, PTL DEF Spec

(* What peers.sync reports as applied is there when the answer is sent,    *)
(* for any number of peers, whose names do not change and are their own,   *)
(* and any mixture of failures.                                            *)
THEOREM AppliedHolds ==
  ASSUME NamesStable, NamesUnique
  PROVE  Spec => []AppliedIsReal
<1>1. SyncInv => AppliedIsReal
  BY Zenon DEF SyncInv, AppliedInPlace, AppliedIsReal, InPlace
<1> QED
  BY <1>1, SyncInvariant, PTL

(* The bookkeeping of peers.sync: every recorded entry is reported, each   *)
(* peer has one, and from ReplaceAll on they are the store.                *)
Committed ==
  /\ pc \in SyncPcs \/ reply = "synced" =>
       /\ Ids(m) \subseteq applied \cup notApplied
       /\ \A j, k \in m : j.id = k.id => j = k
  /\ pc \in {"stale", "staleWg"} \/ reply = "synced" => (~hurt => peers = ReplacedBy(m))

(* Every step keeps it. *)
LEMMA CommittedStep ==
  ASSUME TypeOK, ListedOnce, ListedOnce', AppliedInPlace, Committed, [Next]_vars
  PROVE  Committed'
<1> USE DEF store, sync, Goto, Respond
<1>b. pc # "idle" => reply # "synced"
  BY Zenon DEF AppliedInPlace
<1>c. pc' \in SyncPcs => \A j, k \in m' : j.id = k.id => j = k
  BY Zenon DEF ListedOnce
<1>1. ASSUME reply' # "synced", pc' \notin SyncPcs PROVE Committed'
  BY <1>1, Zenon DEF Committed, SyncPcs
<1>2. ASSUME NEW S \in SUBSET Peerings, handlePeersSync(S) PROVE Committed'
  BY <1>2, Zenon DEF handlePeersSync, Committed, Ids
<1>3. CASE SyncNext \/ SyncWg
  <2>1. /\ UNCHANGED <<m, applied, reply>> /\ notApplied \subseteq notApplied'
        /\ pc \in SyncPcs \ {"stale", "staleWg"} /\ pc' \in SyncPcs \ {"stale", "staleWg"}
    BY <1>3, Zenon DEF SyncNext, SyncWg, SyncPcs, AddPeerWithIfaceOk, AddPeerWithIfaceErr
  <2>2. reply' # "synced"
    BY <1>b, <2>1, Zenon DEF SyncPcs
  <2>3. Ids(m)' \subseteq applied' \cup notApplied'
    BY <2>1, Zenon DEF Committed, Ids
  <2> QED
    BY <1>c, <2>1, <2>2, <2>3, Zenon DEF Committed
<1>4. CASE SyncBird
  <2>1. /\ m' = m \cup {cur} /\ pc = "syncBird" /\ pc' = "syncNext" /\ reply' = reply
        /\ applied \subseteq applied' /\ notApplied \subseteq notApplied'
        /\ cur.id \in applied' \cup notApplied'
    BY <1>4, Zenon DEF SyncBird, Record
  <2>2. reply' # "synced"
    BY <1>b, <2>1, Zenon
  <2>3. Ids(m) \subseteq applied \cup notApplied
    BY <2>1, Zenon DEF Committed, SyncPcs
  <2>4. Ids(m)' \subseteq applied' \cup notApplied'
    BY <2>1, <2>3, Zenon DEF Ids
  <2> QED
    BY <1>c, <2>1, <2>2, <2>4, Zenon DEF Committed
<1>5. CASE ReplaceAll
  <2>1. /\ UNCHANGED <<m, applied, notApplied, reply>> /\ pc = "syncNext" /\ pc' = "stale"
        /\ peers' = ReplacedBy(m) \/ hurt' = TRUE
    BY <1>5, Zenon DEF ReplaceAll
  <2>2. reply' # "synced"
    BY <1>b, <2>1, Zenon
  <2>3. Ids(m)' = Ids(m) /\ ReplacedBy(m)' = ReplacedBy(m)
    BY <2>1, Zenon
  <2>4. Ids(m) \subseteq applied \cup notApplied
    BY <2>1, Zenon DEF Committed, SyncPcs
  <2> QED
    BY <1>c, <2>1, <2>2, <2>3, <2>4, Zenon DEF Committed
<1>6. CASE StaleBird \/ StaleWg \/ SyncReply
  <2>1. UNCHANGED <<m, applied, notApplied, peers>> /\ pc \in {"stale", "staleWg"}
    BY <1>6, Zenon DEF StaleBird, StaleWg, SyncReply
  <2>2. Ids(m)' = Ids(m) /\ ReplacedBy(m)' = ReplacedBy(m)
    BY <2>1, Zenon
  <2>3. /\ Ids(m) \subseteq applied \cup notApplied
        /\ \A j, k \in m : j.id = k.id => j = k
        /\ ~hurt => peers = ReplacedBy(m)
    BY <2>1, Zenon DEF Committed, SyncPcs
  <2> QED
    BY <2>1, <2>2, <2>3, HurtForever, Zenon DEF Committed
<1>7. CASE UNCHANGED <<pc, reply, m, applied, notApplied, peers, hurt>>
  BY <1>7, Zenon DEF Committed, Ids, ReplacedBy
<1>8. ASSUME NEW p, handlePeerAdd(p) PROVE Committed'
  BY <1>1, <1>8, Zenon DEF handlePeerAdd, SyncPcs
<1>9. ASSUME NEW id, NEW asn, handlePeerRemove(id, asn) PROVE Committed'
  BY <1>1, <1>9, Zenon DEF handlePeerRemove, SyncPcs
<1>10. CASE \/ AddEvict \/ AddWg \/ AddBird \/ AddUndoWg \/ AddPut \/ AddUndoBird
            \/ RemoveBird \/ RemoveWg \/ RemoveStore
  BY <1>1, <1>10, <1>b, Zenon
  DEF AddEvict, AddWg, AddBird, AddUndoWg, AddPut, AddUndoBird,
     RemoveBird, RemoveWg, RemoveStore, SyncPcs
<1>11. CASE Crash \/ Reboot
  BY <1>1, <1>11, Zenon DEF Crash, Reboot, SyncPcs
<1>12. CASE CalmDown \/ UNCHANGED vars
  BY <1>7, <1>12, Zenon DEF CalmDown, vars
<1> QED
  BY <1>2, <1>3, <1>4, <1>5, <1>6, <1>8, <1>9, <1>10, <1>11, <1>12, Zenon
  DEF Next, HandlerStep

(* The map ReplaceAll writes has the recorded entries and no others. *)
LEMMA MapOfRecorded ==
  ASSUME m \subseteq CurType, \A j, k \in m : j.id = k.id => j = k,
         peers = ReplacedBy(m)
  PROVE  Tracked = Ids(m) /\ \A j \in m : peers[j.id] = j.info
<1>1. ASSUME NEW j \in m PROVE j.id \in PeerIds /\ j.info \in PeerInfo
  BY <1>1, Zenon DEF CurType
<1>2. ASSUME NEW j \in m PROVE peers[j.id] = j.info
  <2>1. (CHOOSE k \in m : k.id = j.id) = j
    BY <1>2, Zenon
  <2> QED
    BY <1>1, <1>2, <2>1, Zenon DEF ReplacedBy, Ids
<1>3. ASSUME NEW id \in PeerIds, id \notin Ids(m) PROVE peers[id] = NoPeer
  BY <1>3, Zenon DEF ReplacedBy
<1>4. ASSUME NEW id \in Ids(m) PROVE id \in PeerIds /\ peers[id] # NoPeer
  <2>1. PICK j \in m : j.id = id
    BY <1>4, Zenon DEF Ids
  <2> QED
    BY <1>1, <1>2, <2>1, PeeringsAssumption, Zenon
<1> QED
  BY <1>2, <1>3, <1>4, Zenon DEF Tracked

(* After peers.sync the store holds the entries that were recorded, and    *)
(* without a failure to report the node holds them and nothing else: for   *)
(* any number of peers, whose names do not change and are their own, from  *)
(* any state an earlier command left.                                      *)
THEOREM SyncedHolds ==
  ASSUME NamesStable, NamesUnique
  PROVE  Spec => []SyncedExact
<1>1. Init => Committed
  BY Zenon DEF Init, Committed, SyncPcs
<1>2. SyncInv /\ SyncInv' /\ Committed /\ [Next]_vars => Committed'
  BY CommittedStep, Zenon DEF SyncInv, Ownership
<1>3. ASSUME SyncInv, Committed PROVE SyncedExact
  <2> SUFFICES ASSUME reply = "synced", ~hurt
               PROVE  /\ Tracked = Ids(m) /\ \A j \in m : peers[j.id] = j.info
                      /\ notApplied = {} =>
                           wgConf = TrackedIfaces /\ birdConf = TrackedFiles
    BY Zenon DEF SyncedExact
  <2>1. Tracked = Ids(m) /\ \A j \in m : peers[j.id] = j.info
    BY <1>3, MapOfRecorded, Zenon DEF Committed, SyncInv, Ownership, TypeOK
  <2>2. ASSUME notApplied = {} PROVE wgConf = TrackedIfaces /\ birdConf = TrackedFiles
    <3>1. pc = "idle"
      BY <1>3, Zenon DEF SyncInv, AppliedInPlace
    <3>2. wgConf \subseteq TrackedIfaces /\ birdConf \subseteq TrackedFiles
      BY <1>3, <3>1, Zenon DEF SyncInv, Ownership, Owned, HoldingIfaces, HoldingFiles
    <3>3. ASSUME NEW id \in Tracked
          PROVE  peers[id].iface \in wgConf /\ peers[id].file \in birdConf
      <4>1. PICK j \in m : j.id = id
        BY <2>1, Zenon DEF Ids
      <4>2. j.id \in applied
        BY <1>3, <2>2, Zenon DEF Committed, Ids
      <4>3. InPlace(j)
        BY <1>3, <4>2, Zenon DEF SyncInv, AppliedInPlace
      <4> QED
        BY <2>1, <4>1, <4>3, Zenon DEF InPlace
    <3> QED
      BY <3>2, <3>3, Zenon DEF TrackedIfaces, TrackedFiles
  <2> QED
    BY <2>1, <2>2, Zenon
<1> QED
  BY <1>1, <1>2, <1>3, SyncInvariant, PTL DEF Spec

-----------------------------------------------------------------------------
(* No handler takes anything from a tracked peer it is not about.          *)

(* A peer in the store shares no name with what a job of another peer, or  *)
(* a removal that goes by the ASN, names.                                  *)
LEMMA OthersApart ==
  ASSUME NamesStable, NamesApart, NEW p \in Peerings, NEW id, NEW x, Real(id, x), id # p.id
  PROVE  /\ x.iface \notin {Info(p).iface, InterfaceName(p.asn)}
         /\ x.file # BirdFileName(p.asn)
<1>1. PICK q \in Peerings : q.id = id /\ q.asn > 0 /\ x = Info(q)
  BY Zenon DEF Real
<1>2. p.asn \in Nat
  BY PeeringsAssumption, Zenon
<1>3. p.asn # q.asn
  BY <1>1, <1>2, Zenon DEF NamesApart, NamesUnique
<1>4. x.file = BirdFileName(q.asn)
  BY <1>1, RealNames DEF Info
<1>5. x.iface \notin {Info(p).iface, InterfaceName(p.asn)}
  BY <1>1, Zenon DEF NamesApart
<1> QED
  BY <1>3, <1>4, <1>5 DEF BirdFileName

(* Past its checks, a command works on names that are its peer's own.      *)
LEMMA CurApart ==
  ASSUME NamesStable, NamesApart, NamesKnown, RemovesOwn,
         pc \in AddPcs \cup RemovePcs \cup {"syncWg", "syncBird"},
         NEW id \in Tracked, id # cur.id
  PROVE  /\ peers[id].iface # cur.info.iface
         /\ pc \in RemovePcs => peers[id].file # cur.info.file
         /\ pc \notin RemovePcs => peers[id].file # BirdFileName(cur.info.asn)
<1> DEFINE x == peers[id]
<1>1. Real(id, x)
  BY Zenon DEF NamesKnown
<1>2. ASSUME NEW p \in Peerings, p.id = cur.id, cur.info = Info(p)
      PROVE  /\ x.iface # cur.info.iface /\ x.file # BirdFileName(cur.info.asn)
             /\ x.file # cur.info.file
  <2>1. /\ x.iface # Info(p).iface /\ x.file # BirdFileName(p.asn)
    BY <1>1, <1>2, OthersApart, Zenon
  <2>2. Info(p).asn = p.asn /\ Info(p).file = BirdFileName(p.asn)
    BY Zenon DEF Info, NamesStable
  <2> QED
    BY <1>2, <2>1, <2>2, Zenon
<1>3. CASE Real(cur.id, cur.info)
  BY <1>2, <1>3, Zenon DEF Real
<1>4. CASE cur \in Jobs
  <2>1. PICK p \in Peerings : cur = Job(p)
    BY <1>4, Zenon DEF Jobs
  <2> QED
    BY <1>2, <2>1, Zenon DEF Job
<1>5. ASSUME NEW p \in Peerings, p.id = cur.id,
             cur.info = [asn |-> p.asn, iface |-> InterfaceName(p.asn),
                         file |-> BirdFileName(p.asn)]
      PROVE  x.iface # cur.info.iface /\ x.file # cur.info.file
  BY <1>1, <1>5, OthersApart
<1>6. CASE pc \in RemovePcs
  BY <1>3, <1>5, <1>6, Zenon DEF RemovesOwn
<1>7. CASE pc \notin RemovePcs
  BY <1>3, <1>4, <1>7, Zenon DEF NamesKnown, AddPcs
<1> QED
  BY <1>6, <1>7, Zenon

(* What a step of a handler or a crash inside one can take away.           *)
LEMMA TakesOnly ==
  ASSUME TypeOK, NamesKnown, Next, pc # "idle"
  PROVE  \/ \E s \in stalePeers :
              /\ pc \in {"stale", "staleWg"}
              /\ wgConf \ {s.iface} \subseteq wgConf' /\ wgUp \ {s.iface} \subseteq wgUp'
              /\ birdConf \ {s.file} \subseteq birdConf'
         \/ /\ pc \in AddPcs \cup RemovePcs \cup {"syncWg", "syncBird"}
            /\ wgConf \ {cur.info.iface} \subseteq wgConf'
            /\ wgUp \ {cur.info.iface} \subseteq wgUp'
            /\ birdConf \ {IF pc \in RemovePcs THEN cur.info.file
                           ELSE BirdFileName(cur.info.asn)} \subseteq birdConf'
         \/ wgConf \subseteq wgConf' /\ wgUp \subseteq wgUp' /\ birdConf \subseteq birdConf'
<1> USE DEF wg, bird, AddPcs, RemovePcs
<1>1. CASE \/ AddEvict \/ AddWg \/ AddUndoWg \/ SyncWg
  BY <1>1, Zenon DEF AddEvict, AddWg, AddUndoWg, SyncWg, RemovePeerByIface,
     AddPeerWithIfaceOk, AddPeerWithIfaceErr
<1>2. CASE AddBird \/ SyncBird \/ AddUndoBird
  BY <1>2, Zenon DEF AddBird, SyncBird, AddUndoBird, BirdAddPeerOk, BirdAddPeerErr,
     RemovePeerByFilename, ReloadLockedErr
<1>3. CASE RemoveBird \/ RemoveWg
  BY <1>3, Zenon DEF RemoveBird, RemoveWg, RemovePeerByIface, RemovePeerByFilename
<1>4. CASE AddPut \/ RemoveStore \/ SyncNext \/ ReplaceAll \/ SyncReply
  BY <1>4, Zenon DEF AddPut, RemoveStore, SyncNext, ReplaceAll, SyncReply
<1>5. CASE StaleBird
  BY <1>5, Zenon DEF StaleBird, RemovePeerByFilename
<1>6. CASE StaleWg
  <2>1. cur.info \in stalePeers
    BY <1>6, Zenon DEF StaleWg, NamesKnown
  <2> QED
    BY <1>6, <2>1, Zenon DEF StaleWg, RemovePeerByIface
<1>7. CASE Crash
  <2>1. pc = "staleWg" => cur.info \in stalePeers
    BY Zenon DEF NamesKnown
  <2> QED
    BY <1>7, <2>1, Zenon DEF Crash, TornCall
<1> QED
  BY <1>1, <1>2, <1>3, <1>4, <1>5, <1>6, <1>7, ZenonT(30)
  DEF Next, HandlerStep, handlePeerAdd, handlePeerRemove, handlePeersSync, Reboot, CalmDown

(* Whichever command runs and wherever it is cut off, a tracked peer it is *)
(* not about keeps its interface, its config and its BIRD file, for any    *)
(* number of peers with names of their own.                                *)
THEOREM TrackedKept ==
  ASSUME NamesStable, NamesApart
  PROVE  Spec => KeepsTracked
<1> DEFINE Keeps == pc # "idle" /\ ~hurt =>
                      \A id \in Tracked :
                         Kept(id) \/ (id = cur.id /\ pc \notin {"stale", "staleWg"})
<1>1. ASSUME SyncInv, Next PROVE Keeps
  <2> SUFFICES ASSUME pc # "idle", ~hurt, NEW id \in Tracked
               PROVE  Kept(id) \/ (id = cur.id /\ pc \notin {"stale", "staleWg"})
    BY Zenon
  <2>1. TypeOK /\ NamesKnown /\ StaleForgotten /\ RemovesOwn
    BY <1>1, Zenon DEF SyncInv, Ownership
  <2>2. ASSUME NEW s \in stalePeers, pc \in {"stale", "staleWg"},
               wgConf \ {s.iface} \subseteq wgConf', wgUp \ {s.iface} \subseteq wgUp',
               birdConf \ {s.file} \subseteq birdConf'
        PROVE  Kept(id)
    <3>1. PICK k \in PeerIds \ Ids(m) : Real(k, s)
      BY <2>1, <2>2, Zenon DEF StaleForgotten
    <3>2. k # id /\ Real(id, peers[id])
      BY <2>1, <2>2, <3>1, Zenon DEF StaleForgotten, NamesKnown
    <3>3. peers[id].iface # s.iface /\ peers[id].file # s.file
      BY <3>1, <3>2, RealApart, Zenon DEF NamesApart
    <3> QED
      BY <2>2, <3>3, Zenon DEF Kept
  <2>3. ASSUME pc \in AddPcs \cup RemovePcs \cup {"syncWg", "syncBird"}, id # cur.id,
               wgConf \ {cur.info.iface} \subseteq wgConf',
               wgUp \ {cur.info.iface} \subseteq wgUp',
               birdConf \ {IF pc \in RemovePcs THEN cur.info.file
                           ELSE BirdFileName(cur.info.asn)} \subseteq birdConf'
        PROVE  Kept(id)
    BY <2>1, <2>3, CurApart, Zenon DEF Kept
  <2>4. ASSUME wgConf \subseteq wgConf', wgUp \subseteq wgUp', birdConf \subseteq birdConf'
        PROVE  Kept(id)
    BY <2>4, Zenon DEF Kept
  <2> QED
    BY <1>1, <2>1, <2>2, <2>3, <2>4, TakesOnly, Zenon DEF AddPcs, RemovePcs
<1>2. SyncInv /\ [Next]_vars => [Keeps]_vars
  BY <1>1, Zenon
<1>3. NamesUnique
  BY Zenon DEF NamesApart
<1>4. Spec => []SyncInv
  BY <1>3, SyncInvariant, Zenon
<1> QED
  BY <1>2, <1>4, PTL DEF Spec, KeepsTracked
==============================================================================
