-------------------------- MODULE OtaUpdate_proofs --------------------------
(***************************************************************************)
(* Proofs about OtaUpdate, for all versions, builds, payloads and faults.  *)
(* What a restart needs (Bootable) and what a rollback needs               *)
(* (BackupsLabelled) rest on facts about the states in between: which file *)
(* holds what at each operation of the handler, and when the store, the    *)
(* disk and the process agree.                                             *)
(***************************************************************************)
EXTENDS OtaUpdate, TLAPS

Genuine == {FirstBinary} \cup {u.bin : u \in Payloads}

(* What the files hold while an update is applied. *)
FilesInv ==
  /\ exec \in Genuine
  /\ \A v \in Versions : backup[v] \in Genuine \cup {None}
  /\ pc \in {"backup", "replace"} => final = cur.bin
  /\ pc \in {"putVersion", "putUpdateID"} => exec = cur.bin
  /\ pc # "down" => running \in Binaries
  /\ previous \in Binaries

(* Until the executable is replaced, store, disk and process agree. *)
AgreeInv ==
  ~hurt => /\ pc \in {"idle", "download", "verify", "backup", "replace"}
                => running = exec /\ version = exec.version
           /\ \A v \in Versions : backup[v] # None => backup[v].version = v

IInv == TypeOK /\ FilesInv /\ AgreeInv

(* The binaries an agent can come to hold are binaries: the announced ones *)
(* and the installed one.                                                  *)
LEMMA GenuineBinaries ==
  /\ Genuine \subseteq Binaries
  /\ \A b \in Binaries : b.version \in Versions
  /\ \A u \in Payloads : u.bin \in Genuine /\ u.id \in Ids
  /\ None \notin Genuine /\ Garbage \notin Genuine
BY OtaAssumption DEF Genuine, Binaries, Payloads, Ids

(* The freshly started agent satisfies the invariant. *)
LEMMA IInvInit == Init => IInv
<1> SUFFICES ASSUME Init PROVE IInv
  OBVIOUS
<1> USE GenuineBinaries DEF Init
<1>1. FirstBinary \in Genuine /\ FirstBinary \in Binaries
  BY DEF Genuine
<1>2. TypeOK
  BY <1>1, Zenon DEF TypeOK, Files, Payloads
<1>3. FilesInv
  BY <1>1 DEF FilesInv
<1>4. AgreeInv
  BY <1>1, Zenon DEF AgreeInv
<1> QED
  BY <1>2, <1>3, <1>4 DEF IInv

(* Every operation of an update, a rollback, a restart or a crash keeps    *)
(* the invariant.                                                          *)
LEMMA IInvStep == IInv /\ [Next]_vars => IInv'
<1> SUFFICES ASSUME IInv, [Next]_vars PROVE IInv'
  OBVIOUS
<1> USE GenuineBinaries DEF IInv, files, meta, proc
<1>1. ASSUME NEW u \in Payloads, handleAgentUpdate(u) PROVE IInv'
  <2>a. UNCHANGED <<files, version, proc, calm>> /\ cur' = u
    BY <1>1 DEF handleAgentUpdate
  <2>b. updateID' \in {updateID, u.id} /\ hurt' \in BOOLEAN
    BY <1>1, Zenon DEF TypeOK, handleAgentUpdate, PutUpdateID
  <2>c. /\ pc' \in {"idle", "download"}
        /\ reply' \in {"none", "alreadyApplied", "hashMatch", "refused", "updateFailed"}
    BY <1>1 DEF handleAgentUpdate, Respond
  <2>1. TypeOK'
    BY <2>a, <2>b, <2>c DEF TypeOK, Files
  <2>2. FilesInv'
    BY <1>1 DEF FilesInv, TypeOK, handleAgentUpdate, Respond, PutUpdateID
  <2>3. AgreeInv'
    BY <1>1 DEF AgreeInv, TypeOK, handleAgentUpdate, Respond, PutUpdateID
  <2> QED BY <2>1, <2>2, <2>3
<1>2. CASE handleAgentRollback
  <2>a. UNCHANGED <<part, final, version, updateID, running, previous, cur, calm>>
    BY <1>2, Zenon DEF handleAgentRollback
  <2>b. /\ pc' \in {"idle", "restart"} /\ reply' \in {"rollbackFailed", "rolledBack"}
        /\ hurt' \in BOOLEAN /\ late' \in BOOLEAN
    BY <1>2, Zenon DEF TypeOK, handleAgentRollback, Respond
  <2>c. \/ UNCHANGED <<exec, backup>>
        \/ /\ HasBackup /\ exec' = backup[version]
           /\ backup' \in {backup, [backup EXCEPT ![version] = None]}
    BY <1>2, Zenon DEF handleAgentRollback
  <2>d. HasBackup => version \in Versions /\ backup[version] \in Genuine
    BY Zenon DEF FilesInv, HasBackup
  <2>e. exec' \in Genuine
    BY <2>c, <2>d, Zenon DEF FilesInv
  <2>f. backup' \in [Versions -> Files]
    BY <2>c, <2>d DEF TypeOK, Files
  <2>g. \A v \in Versions : backup'[v] \in {backup[v], None}
    BY <2>c, <2>d DEF TypeOK
  <2>1. TypeOK'
    BY <2>a, <2>b, <2>e, <2>f, ZenonT(30) DEF TypeOK
  <2>2. FilesInv'
    <3>1. \A v \in Versions : backup'[v] \in Genuine \cup {None}
      BY <2>g, Zenon DEF FilesInv
    <3>2. pc' # "down" => running' \in Binaries
      BY <1>2, <2>a, Zenon DEF FilesInv, handleAgentRollback
    <3> QED
      BY <2>a, <2>b, <2>e, <3>1, <3>2 DEF FilesInv
  <2>3. AgreeInv'
    BY <1>2 DEF AgreeInv, TypeOK, handleAgentRollback, HasBackup, Respond
  <2> QED BY <2>1, <2>2, <2>3
<1>3. CASE DownloadBody
  BY <1>3 DEF TypeOK, Files, FilesInv, AgreeInv, DownloadBody, Respond, Goto
<1>4. CASE Verify
  BY <1>4 DEF TypeOK, Files, FilesInv, AgreeInv, Verify, Respond, Goto
<1>5. CASE Backup
  <2>1. TypeOK'
    BY <1>5 DEF TypeOK, Files, FilesInv, Backup, Respond, Goto
  <2>2. FilesInv'
    BY <1>5 DEF FilesInv, TypeOK, Backup, Respond, Goto
  <2>3. AgreeInv'
    BY <1>5 DEF AgreeInv, TypeOK, Backup, Respond, Goto
  <2> QED BY <2>1, <2>2, <2>3
<1>6. CASE Replace
  <2>a. /\ UNCHANGED <<part, backup, version, updateID, running, previous, cur, calm>>
        /\ pc = "replace" /\ final = cur.bin
    BY <1>6, Zenon DEF FilesInv, Replace
  <2>b. /\ pc' \in {"idle", "putVersion"} /\ reply' \in {reply, "updateFailed"}
        /\ hurt' \in BOOLEAN /\ late' \in BOOLEAN /\ final' \in {None, final}
        /\ exec' \in {exec, final}
    BY <1>6, Zenon DEF TypeOK, Replace, Respond, Goto
  <2>c. cur.bin \in Genuine /\ cur.bin \in Binaries /\ exec' \in Genuine
    BY <2>a, <2>b, Zenon DEF TypeOK, FilesInv
  <2>1. TypeOK'
    <3>1. final' \in Files
      BY <2>b, Zenon DEF TypeOK, Files
    <3>2. exec' \in Binaries \cup {Garbage}
      BY <2>b, <2>c, <2>a, Zenon DEF TypeOK
    <3>3. /\ pc' \in {"idle", "download", "verify", "backup", "replace", "putVersion",
                     "putUpdateID", "restart", "down"}
          /\ reply' \in {"none", "alreadyApplied", "hashMatch", "refused",
                        "updateFailed", "updated", "rollbackFailed", "rolledBack"}
      BY <2>b, Zenon DEF TypeOK
    <3> QED
      BY <2>a, <2>b, <3>1, <3>2, <3>3, Zenon DEF TypeOK
  <2>2. FilesInv'
    <3>1. pc' = "putVersion" => exec' = cur'.bin
      BY <1>6, <2>a, Zenon DEF Replace, Respond, Goto
    <3> QED
      BY <2>a, <2>b, <2>c, <3>1 DEF FilesInv
  <2>3. AgreeInv'
    <3>1. pc' = "idle" /\ ~hurt' => UNCHANGED exec
      BY <1>6, Zenon DEF Replace, Respond, Goto
    <3>2. hurt => hurt'
      BY <1>6, Zenon DEF Replace
    <3> QED
      BY <2>a, <2>b, <3>1, <3>2 DEF AgreeInv
  <2> QED BY <2>1, <2>2, <2>3
<1>7. CASE UpdateVersion
  <2>1. TypeOK'
    <3>1. UNCHANGED <<exec, part, final, backup, updateID, running, previous, late, cur,
                      calm, reply>> /\ pc' = "putUpdateID"
      BY <1>7, Zenon DEF UpdateVersion, Goto
    <3>2. version' \in Versions \cup {None} /\ hurt' \in BOOLEAN
      BY <1>7, Zenon DEF TypeOK, UpdateVersion, PutVersion
    <3> QED
      BY <3>1, <3>2, ZenonT(30) DEF TypeOK
  <2>2. FilesInv'
    BY <1>7 DEF FilesInv, TypeOK, UpdateVersion, PutVersion, Goto
  <2>3. AgreeInv'
    BY <1>7 DEF AgreeInv, TypeOK, FilesInv, UpdateVersion, PutVersion, Goto
  <2> QED BY <2>1, <2>2, <2>3
<1>8. CASE UpdateId
  <2>1. TypeOK'
    <3>1. /\ UNCHANGED <<exec, part, final, backup, version, running, previous, late,
                       cur, calm>>
          /\ pc' = "restart" /\ reply' = "updated"
      BY <1>8, Zenon DEF UpdateId
    <3>2. updateID' \in Ids \cup {None} /\ hurt' \in BOOLEAN
      BY <1>8, Zenon DEF TypeOK, UpdateId, PutUpdateID
    <3> QED
      BY <3>1, <3>2, Zenon DEF TypeOK
  <2>2. FilesInv'
    BY <1>8 DEF FilesInv, TypeOK, UpdateId, PutUpdateID
  <2>3. AgreeInv'
    BY <1>8 DEF AgreeInv, TypeOK, FilesInv, UpdateId, PutUpdateID
  <2> QED BY <2>1, <2>2, <2>3
<1>9. CASE Boot
  <2>1. TypeOK'
    <3>1. /\ UNCHANGED <<exec, part, final, backup, updateID, cur, calm>>
          /\ pc' = "idle" /\ reply' = "none" /\ running' = exec /\ late' = FALSE
          /\ previous' \in {running, previous}
      BY <1>9, Zenon DEF Boot, Respond
    <3>2. version' \in Versions \cup {None} /\ hurt' \in BOOLEAN
      BY <1>9, Zenon DEF TypeOK, FilesInv, Boot, PutVersion
    <3>3. previous' \in Binaries \cup {Garbage}
      BY <1>9 DEF FilesInv, TypeOK, Boot
    <3> QED
      BY <3>1, <3>2, <3>3 DEF TypeOK, FilesInv
  <2>2. FilesInv'
    BY <1>9 DEF FilesInv, TypeOK, Boot, PutVersion, Respond
  <2>3. AgreeInv'
    BY <1>9 DEF AgreeInv, TypeOK, Boot, PutVersion, Respond
  <2> QED BY <2>1, <2>2, <2>3
<1>10. CASE Crash
  BY <1>10 DEF TypeOK, Files, FilesInv, AgreeInv, Crash
<1>11. CASE CalmDown
  BY <1>11 DEF TypeOK, Files, FilesInv, AgreeInv, CalmDown
<1>12. CASE UNCHANGED vars
  BY <1>12 DEF TypeOK, Files, FilesInv, AgreeInv, vars
<1> QED
  BY <1>1, <1>2, <1>3, <1>4, <1>5, <1>6, <1>7, <1>8, <1>9, <1>10, <1>11, <1>12
  DEF Next, UpdateStep

(* The invariant holds throughout every behaviour of the update code.      *)
THEOREM UpdateInvariant == Spec => []IInv
BY IInvInit, IInvStep, PTL DEF Spec

(* Types are kept; the executable is never removed.                        *)
THEOREM UpdateTypes == Spec => []TypeOK
<1>1. IInv => TypeOK
  BY DEF IInv
<1> QED
  BY <1>1, UpdateInvariant, PTL

(* Wherever downloadFile, replaceFile or the process stops, the executable *)
(* is the installed binary or one whose hash the center announced.         *)
THEOREM AlwaysBootable == Spec => []Bootable
<1>1. IInv => Bootable
  BY DEF IInv, FilesInv, Bootable, Genuine
<1> QED
  BY <1>1, UpdateInvariant, PTL

(* The name BackupPath gives a backup tells the version of the binary in   *)
(* it, as long as no error was ignored or came after the replacement.      *)
THEOREM BackupNames == Spec => []BackupsLabelled
<1>1. IInv => BackupsLabelled
  BY DEF IInv, AgreeInv, BackupsLabelled
<1> QED
  BY <1>1, UpdateInvariant, PTL

(* Between messages the process runs the binary on disk, under the version *)
(* the store has for it.                                                   *)
THEOREM AgreementAtRest == Spec => []Agreement
<1>1. IInv => Agreement
  BY DEF IInv, AgreeInv, Agreement
<1> QED
  BY <1>1, UpdateInvariant, PTL

(* An update id is recorded only with its binary in place, for any         *)
(* payloads, failures and crashes.                                         *)
THEOREM RecordedOnlyInstalled == Spec => RecordsInstalled
<1>1. IInv /\ [Next]_vars =>
        [updateID' # updateID => \E u \in Payloads : u.id = updateID' /\ exec' = u.bin]_vars
  <2> SUFFICES ASSUME IInv, Next, updateID' # updateID
               PROVE  \E u \in Payloads : u.id = updateID' /\ exec' = u.bin
    BY DEF vars
  <2> USE DEF files, meta, proc
  <2>1. ASSUME NEW u \in Payloads, handleAgentUpdate(u)
        PROVE  u.id = updateID' /\ exec' = u.bin
    BY <2>1 DEF handleAgentUpdate, PutUpdateID
  <2>2. ASSUME UpdateId PROVE cur.id = updateID' /\ exec' = cur.bin /\ cur \in Payloads
    BY <2>2, SMTT(30) DEF UpdateId, PutUpdateID, IInv, FilesInv, TypeOK
  <2>3. UpdateId \/ \E u \in Payloads : handleAgentUpdate(u)
    BY DEF Next, UpdateStep, handleAgentRollback, DownloadBody, Verify, Backup, Replace,
           UpdateVersion, Boot, Crash, CalmDown
  <2> QED
    BY <2>1, <2>2, <2>3
<1> QED
  BY <1>1, UpdateInvariant, PTL DEF RecordsInstalled, Spec
-----------------------------------------------------------------------------
(* What an update has done by the time it is answered. *)

(* From the backup to the restart the binary that still runs is kept; the  *)
(* version, then the update id, follow the executable.                     *)
UpdatedInv ==
  /\ reply = "updated" => pc = "restart" /\ exec = cur.bin
  /\ ~hurt =>
       /\ pc \in {"replace", "putVersion", "putUpdateID"} \/ reply = "updated"
            => backup[running.version] = running
       /\ pc = "putUpdateID" \/ reply = "updated" => version = cur.bin.version
       /\ reply = "updated" => updateID = cur.id

(* Every step keeps it. *)
LEMMA UpdatedStep ==
  ASSUME IInv, UpdatedInv, [Next]_vars
  PROVE  UpdatedInv'
<1> USE DEF files, meta, proc
<1>a. hurt \in BOOLEAN
  BY Zenon DEF IInv, TypeOK
<1>1. ASSUME pc' \notin {"replace", "putVersion", "putUpdateID"}, reply' # "updated"
      PROVE  UpdatedInv'
  BY <1>1, Zenon DEF UpdatedInv
<1>2. ASSUME NEW u \in Payloads, handleAgentUpdate(u) PROVE UpdatedInv'
  <2>1. pc' \in {"idle", "download"} /\ reply' # "updated"
    BY <1>2, Zenon DEF handleAgentUpdate, Respond
  <2> QED
    BY <1>1, <2>1, Zenon
<1>3. CASE handleAgentRollback
  <2>1. pc' \in {"idle", "restart"} /\ reply' # "updated"
    BY <1>3, Zenon DEF handleAgentRollback, Respond
  <2> QED
    BY <1>1, <2>1, Zenon
<1>4. CASE DownloadBody \/ Verify
  <2>1. /\ pc # "restart" /\ pc' \in {"verify", "backup", "idle"}
        /\ reply' \in {reply, "updateFailed"}
    BY <1>4, Zenon DEF DownloadBody, Verify, Respond, Goto
  <2>2. reply' # "updated"
    BY <2>1, Zenon DEF UpdatedInv
  <2> QED
    BY <1>1, <2>1, <2>2, Zenon
<1>5. CASE Backup
  <2>1. /\ pc = "backup" /\ reply # "updated" /\ UNCHANGED <<running, hurt>>
        /\ reply' \in {reply, "updateFailed"}
    BY <1>5, Zenon DEF Backup, Respond, Goto, UpdatedInv
  <2>2. CASE pc' = "idle"
    BY <1>1, <2>1, <2>2, Zenon
  <2>3. CASE pc' = "replace" /\ backup' = [backup EXCEPT ![version] = exec]
    <3>1. backup \in [Versions -> Files] /\ exec \in Genuine
      BY Zenon DEF IInv, TypeOK, FilesInv
    <3>2. exec.version \in Versions
      BY <3>1, GenuineBinaries, Zenon
    <3>3. ~hurt => running = exec /\ version = exec.version
      BY <2>1, Zenon DEF IInv, AgreeInv
    <3>4. ~hurt' => backup'[running.version] = running
      BY <2>1, <2>3, <3>1, <3>2, <3>3, Zenon
    <3> QED
      BY <2>1, <2>3, <3>4, Zenon DEF UpdatedInv
  <2> QED
    BY <1>5, <2>2, <2>3, Zenon DEF Backup, Respond, Goto
<1>6. CASE Replace
  <2>1. /\ pc = "replace" /\ reply # "updated" /\ UNCHANGED <<running, backup>>
        /\ pc' \in {"idle", "putVersion"} /\ reply' \in {reply, "updateFailed"}
        /\ hurt' = hurt \/ hurt' = TRUE
    BY <1>6, Zenon DEF Replace, Respond, Goto, UpdatedInv
  <2>2. ~hurt' => ~hurt
    BY <1>a, <2>1
  <2>3. reply' # "updated" /\ pc' # "putUpdateID"
    BY <2>1, Zenon
  <2> QED
    BY <2>1, <2>2, <2>3, Zenon DEF UpdatedInv
<1>7. CASE UpdateVersion
  <2>1. /\ pc = "putVersion" /\ pc' = "putUpdateID" /\ reply' = reply /\ reply # "updated"
        /\ UNCHANGED <<running, backup, cur>>
        /\ (version' = cur.bin.version /\ hurt' = hurt) \/ hurt' = TRUE
    BY <1>7, Zenon DEF UpdateVersion, PutVersion, Goto, UpdatedInv
  <2>2. ~hurt' => ~hurt /\ version' = cur.bin.version
    BY <1>a, <2>1
  <2>3. reply' # "updated"
    BY <2>1, Zenon
  <2> QED
    BY <2>1, <2>2, <2>3, Zenon DEF UpdatedInv
<1>8. CASE UpdateId
  <2>1. /\ pc = "putUpdateID" /\ pc' = "restart" /\ reply' = "updated"
        /\ UNCHANGED <<running, backup, cur, exec, version>>
        /\ (updateID' = cur.id /\ hurt' = hurt) \/ hurt' = TRUE
    BY <1>8, Zenon DEF UpdateId, PutUpdateID
  <2>2. exec = cur.bin
    BY <2>1, Zenon DEF IInv, FilesInv
  <2> QED
    BY <1>a, <2>1, <2>2, Zenon DEF UpdatedInv
<1>9. CASE Boot
  BY <1>1, <1>9, Zenon DEF Boot, Respond
<1>10. CASE Crash
  BY <1>1, <1>10, Zenon DEF Crash
<1>11. CASE UNCHANGED <<exec, backup, version, updateID, running, pc, cur, reply, hurt>>
  BY <1>11, Zenon DEF UpdatedInv
<1> QED
  BY <1>2, <1>3, <1>4, <1>5, <1>6, <1>7, <1>8, <1>9, <1>10, <1>11, Zenon
  DEF Next, UpdateStep, CalmDown, vars

(* When handleAgentUpdate answers that the update is applied, the restart  *)
(* will run the announced binary; if no error was ignored, the store names *)
(* it, and the binary it replaces can be restored from its backup.         *)
THEOREM UpdatedHolds == Spec => []UpdatedIsReal
<1>1. Init => UpdatedInv
  BY Zenon DEF Init, UpdatedInv
<1>2. IInv /\ UpdatedInv /\ [Next]_vars => UpdatedInv'
  BY UpdatedStep, Zenon
<1>3. UpdatedInv => UpdatedIsReal
  BY Zenon DEF UpdatedInv, UpdatedIsReal
<1> QED
  BY <1>1, <1>2, <1>3, UpdateInvariant, PTL DEF Spec
=============================================================================
