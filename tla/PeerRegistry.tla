---------------------------- MODULE PeerRegistry ----------------------------
(***************************************************************************)
(* What the peer commands promise the center about the agent's peer map:   *)
(* one command at a time, each changing the map at most once, in one step, *)
(* and answered according to that step.  Nothing else changes the map: not *)
(* a failed command, not a crash, not a restart.  A sync may leave out     *)
(* entries that cannot be used, and no others.                             *)
(*                                                                         *)
(* PeerLifecycle implements this with the calls of the handlers.           *)
(***************************************************************************)
CONSTANTS
  PeerIds,  \* keys of the map
  NoPeer,   \* no entry
  Entries,  \* what a peers.sync may list: [id, info, ...]
  Usable    \* the entries that a sync may not leave out

VARIABLES
  peers,    \* the peer map
  cmd,      \* the command being executed
  write,    \* peer.add, peer.remove: what it is to write, [id, info]
  list,     \* peers.sync: the entries to write
  reply     \* the last answer

vars == <<peers, cmd, write, list, reply>>

Init ==
  /\ peers = [id \in PeerIds |-> NoPeer]
  /\ cmd = "idle" /\ write = NoPeer /\ list = {} /\ reply = "none"

(* A command is taken up ... *)
Begin(c) ==
  /\ cmd = "idle" /\ cmd' = c
  /\ reply' = "none"
  /\ UNCHANGED peers

BeginAdd == Begin("add") /\ write'.info # NoPeer /\ UNCHANGED list
BeginRemove == Begin("remove") /\ write'.info = NoPeer /\ UNCHANGED list
BeginSync == Begin("sync") /\ list' \subseteq Entries /\ UNCHANGED write

(* ... or answered at once: the peer is active already, or unknown. *)
Decline ==
  /\ cmd = "idle"
  /\ \E r \in {"active", "unknown"} : reply' = r
  /\ UNCHANGED <<peers, cmd, write, list>>

Finish(r) ==
  /\ cmd' = "idle" /\ write' = NoPeer /\ list' = {}
  /\ reply' = r

Write == peers' = [peers EXCEPT ![write.id] = write.info]

(* The success of peer.add is the write; its failure leaves the map alone. *)
Add ==
  /\ cmd = "add"
  /\ \/ Write /\ Finish("added")
     \/ Finish("addFailed") /\ UNCHANGED peers

(* The success of peer.remove is not: a failed deletion goes unnoticed. *)
Remove ==
  /\ cmd = "remove"
  /\ Write \/ UNCHANGED peers
  /\ Finish("removed")

Drop ==
  /\ cmd = "sync"
  /\ list' \subseteq list /\ Usable \cap list \subseteq list'
  /\ UNCHANGED <<peers, cmd, write, reply>>

MapOf(l) ==
  [id \in PeerIds |-> IF \E e \in l : e.id = id
                      THEN (CHOOSE e \in l : e.id = id).info
                      ELSE NoPeer]

(* The whole map is replaced, unless the transaction failed unnoticed. *)
Replace ==
  /\ cmd = "sync" /\ cmd' = "synced"
  /\ peers' \in {peers, MapOf(list)}
  /\ UNCHANGED <<write, list, reply>>

Synced ==
  /\ cmd = "synced"
  /\ Finish("synced") /\ UNCHANGED peers

(* The process or the node goes down and comes back. *)
Restart == Finish("none") /\ UNCHANGED peers

Next ==
  \/ BeginSync \/ BeginAdd \/ BeginRemove \/ Decline
  \/ Restart
  \/ Add \/ Remove \/ Drop \/ Replace \/ Synced

Spec == Init /\ [][Next]_vars
=============================================================================
