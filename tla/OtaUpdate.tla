----------------------------- MODULE OtaUpdate -----------------------------
(***************************************************************************)
(* Self-update: agent.update and agent.rollback                            *)
(* (internal/handler/handler.go, internal/handler/update_helpers.go), the  *)
(* version and update id in the store (internal/store), and the restart    *)
(* through main, by RestartSelf or by systemd.                             *)
(*                                                                         *)
(* A step is one file operation or store commit, because the process may   *)
(* die after any of them.  Files hold a whole binary, or Garbage: a        *)
(* download that is cut short or is not what was asked for.  A hash        *)
(* identifies a binary.  The version compiled into a binary is the one the *)
(* center announces it with.                                               *)
(***************************************************************************)
EXTENDS Naturals

CONSTANTS
  Versions,    \* version strings
  Builds,      \* tells binaries of one version apart
  Updates,     \* the agent.update payloads the center may send
  Goals,       \* the payload it settles on, whose id was not used before
  FirstBinary, \* the binary of the installation
  FaultKinds,  \* what may go wrong in this instance
  Garbage,     \* what is not a whole binary
  None         \* no such file, no such key in the store

Binaries == [version : Versions, build : Builds]
Payloads == Updates \cup Goals
Ids == {u.id : u \in Payloads}

ASSUME OtaAssumption ==
  /\ \A u \in Payloads : u.bin \in Binaries
  /\ FirstBinary \in Binaries
  /\ None \notin Ids \cup Versions \cup Binaries \cup {Garbage}
  /\ Garbage \notin Binaries

VARIABLES
  exec,     \* the file at os.Executable()
  part,     \* autopeer-agent.part
  final,    \* autopeer-agent.new
  backup,   \* backup/autopeer-agent.<version>
  version,  \* the store: version
  updateID, \* the store: update id
  running,  \* the binary the process runs, or None
  previous, \* history: the binary that ran before the present one
  pc,       \* the handler's next operation
  cur,      \* the update being applied
  reply,    \* the answer just sent
  hurt,     \* history: an error after which the code leaves disk and store apart
  late,     \* history: this process replaced its own file and took it for a failure
  calm      \* nothing fails any more

files == <<exec, part, final, backup>>
meta == <<version, updateID>>
proc == <<running, previous, late>>
vars == <<exec, part, final, backup, version, updateID, running, previous, pc, cur,
          reply, hurt, late, calm>>

Fault(k) == k \in FaultKinds /\ ~calm

(* The installed agent has started for the first time; main ignores that   *)
(* its version could not be stored.                                        *)
Init ==
  /\ exec = FirstBinary /\ part = None /\ final = None
  /\ backup = [v \in Versions |-> None]
  /\ version \in {FirstBinary.version}
                \cup (IF "unversioned" \in FaultKinds THEN {None} ELSE {})
  /\ updateID = None
  /\ running = FirstBinary /\ previous = FirstBinary
  /\ pc = "idle" /\ cur \in Updates
  /\ reply = "none" /\ hurt = (version = None) /\ late = FALSE /\ calm = FALSE

Respond(r) == pc' = "idle" /\ reply' = r
Goto(l) == pc' = l /\ UNCHANGED reply

(* A store commit whose error is ignored. *)
PutVersion(v) ==
  \/ version' = v /\ UNCHANGED hurt
  \/ Fault("store") /\ hurt' = TRUE /\ UNCHANGED version

PutUpdateID(id) ==
  \/ updateID' = id /\ UNCHANGED hurt
  \/ Fault("store") /\ hurt' = TRUE /\ UNCHANGED updateID

-----------------------------------------------------------------------------
(* agent.update. *)
handleAgentUpdate(u) ==
  /\ pc = "idle" /\ running # None
  /\ cur' = u
  /\ \/ /\ updateID = u.id
        /\ Respond("alreadyApplied")
        /\ UNCHANGED <<updateID, hurt>>
     \/ /\ updateID # u.id /\ exec = u.bin
        /\ Respond("hashMatch")
        /\ PutUpdateID(u.id)
     \/ /\ updateID # u.id /\ Fault("io")
        /\ Respond("updateFailed")
        /\ UNCHANGED <<updateID, hurt>>
     \/ /\ updateID # u.id /\ exec # u.bin /\ version = None
        /\ Respond("refused")
        /\ UNCHANGED <<updateID, hurt>>
     \/ /\ updateID # u.id /\ exec # u.bin /\ version # None
        /\ pc' = "download" /\ reply' = "none"
        /\ UNCHANGED <<updateID, hurt>>
  /\ UNCHANGED <<files, version, proc, calm>>

(* downloadFile: the stale .part goes, the new one fills up ... *)
DownloadBody ==
  /\ pc = "download"
  /\ \/ part' = Garbage /\ Goto("verify")
     \/ Fault("http") /\ part' \in {part, None} /\ Respond("updateFailed")
  /\ UNCHANGED <<exec, final, backup, meta, proc, cur, hurt, calm>>

(* Seeded fault: the hash of what arrived is not compared. *)
VerifyNothing ==
  /\ pc = "verify"
  /\ \/ final' = cur.bin /\ Goto("backup")
     \/ Fault("http") /\ final' = Garbage /\ Goto("backup")
  /\ part' = None
  /\ UNCHANGED <<exec, backup, meta, proc, cur, hurt, calm>>

(* ... and is renamed once its hash is the expected one. *)
Verify ==
  /\ pc = "verify"
  /\ \/ part' = None /\ final' = cur.bin /\ Goto("backup")
     \/ Fault("http") /\ part' = None /\ Respond("updateFailed") /\ UNCHANGED final
     \/ /\ Fault("io") /\ Respond("updateFailed")
        /\ \/ part' = cur.bin /\ UNCHANGED final
           \/ part' = None /\ final' = cur.bin
  /\ UNCHANGED <<exec, backup, meta, proc, cur, hurt, calm>>

(* Seeded fault: the backup gets the name of the new version. *)
BackupAsNew ==
  /\ pc = "backup"
  /\ backup' = [backup EXCEPT ![cur.bin.version] = exec]
  /\ Goto("replace")
  /\ UNCHANGED <<exec, part, final, meta, proc, cur, hurt, calm>>

(* Seeded fault: the update id is recorded before the binary is in place. *)
BackupRecordingId ==
  /\ pc = "backup"
  /\ backup' = [backup EXCEPT ![version] = exec]
  /\ updateID' = cur.id
  /\ Goto("replace")
  /\ UNCHANGED <<exec, part, final, version, proc, cur, hurt, calm>>

(* Seeded fault: a version that has a backup is not backed up again. *)
BackupOnce ==
  /\ pc = "backup"
  /\ backup' = [backup EXCEPT ![version] = IF @ = None THEN exec ELSE @]
  /\ Goto("replace")
  /\ UNCHANGED <<exec, part, final, meta, proc, cur, hurt, calm>>

(* copyFileAtomic of the executable, under the version the store knows.    *)
(* An error may come before or after the rename.                           *)
Backup ==
  /\ pc = "backup"
  /\ \/ backup' = [backup EXCEPT ![version] = exec] /\ Goto("replace")
     \/ /\ Fault("io")
        /\ backup' \in {backup, [backup EXCEPT ![version] = exec]}
        /\ Respond("updateFailed")
  /\ UNCHANGED <<exec, part, final, meta, proc, cur, hurt, calm>>

(* replaceFile of the executable by the download: a rename, or a copy and  *)
(* the removal of the source.  An error before the rename changes nothing; *)
(* one after it (chmod, sync of the directory, removal of the source) is   *)
(* reported although the binary has been replaced.                         *)
Replace ==
  /\ pc = "replace"
  /\ \/ exec' = final /\ final' = None /\ Goto("putVersion") /\ UNCHANGED <<hurt, late>>
     \/ /\ Fault("io")
        /\ Respond("updateFailed") /\ UNCHANGED <<exec, final, hurt, late>>
     \/ /\ Fault("ioLate")
        /\ exec' = final /\ final' \in {None, final}
        /\ Respond("updateFailed") /\ hurt' = TRUE /\ late' = TRUE
  /\ UNCHANGED <<part, backup, meta, running, previous, cur, calm>>

UpdateVersion ==
  /\ pc = "putVersion"
  /\ PutVersion(cur.bin.version)
  /\ Goto("putUpdateID")
  /\ UNCHANGED <<files, updateID, proc, cur, calm>>

UpdateId ==
  /\ pc = "putUpdateID"
  /\ PutUpdateID(cur.id)
  /\ pc' = "restart" /\ reply' = "updated"
  /\ UNCHANGED <<files, version, proc, cur, calm>>

-----------------------------------------------------------------------------
(* Seeded fault: no look whether there is a backup. *)
handleAgentRollbackBlind ==
  /\ pc = "idle" /\ running # None /\ Fault("rollback") /\ version # None
  /\ exec' = backup[version]
  /\ backup' = [backup EXCEPT ![version] = None]
  /\ pc' = "restart" /\ reply' = "rolledBack"
  /\ UNCHANGED <<part, final, meta, proc, cur, hurt, calm>>

(* os.Stat of BackupPath for the version in the store. *)
HasBackup == \E v \in Versions : v = version /\ backup[v] # None

(* agent.rollback: the backup that carries the version in the store is     *)
(* moved over the executable.                                              *)
handleAgentRollback ==
  /\ pc = "idle" /\ running # None /\ Fault("rollback")
  /\ \/ /\ ~HasBackup \/ Fault("io")
        /\ Respond("rollbackFailed")
        /\ UNCHANGED <<exec, backup, hurt, late>>
     \/ /\ HasBackup
        /\ exec' = backup[version]
        /\ backup' = [backup EXCEPT ![version] = None]
        /\ pc' = "restart" /\ reply' = "rolledBack"
        /\ UNCHANGED <<hurt, late>>
     \/ /\ HasBackup /\ Fault("ioLate")
        /\ exec' = backup[version]
        /\ backup' \in {backup, [backup EXCEPT ![version] = None]}
        /\ Respond("rollbackFailed") /\ hurt' = TRUE /\ late' = TRUE
  /\ UNCHANGED <<part, final, meta, running, previous, cur, calm>>

-----------------------------------------------------------------------------
(* Seeded fault: the version is left to agent.update. *)
BootSilently ==
  /\ pc \in {"restart", "down"}
  /\ running' = exec /\ late' = FALSE
  /\ previous' = IF pc = "restart" /\ running # exec THEN running ELSE previous
  /\ Respond("none")
  /\ UNCHANGED <<files, meta, cur, hurt, calm>>

(* RestartSelf, or systemd after a crash: main starts from the file on     *)
(* disk and records the version compiled into it.                          *)
Boot ==
  /\ pc \in {"restart", "down"}
  /\ running' = exec /\ late' = FALSE
  /\ previous' = IF pc = "restart" /\ running # exec THEN running ELSE previous
  /\ PutVersion(exec.version)
  /\ Respond("none")
  /\ UNCHANGED <<files, updateID, cur, calm>>

Crash ==
  /\ Fault("crash") /\ pc # "down"
  /\ running' = None /\ UNCHANGED late
  /\ previous' = IF running # exec THEN running ELSE previous
  /\ pc' = "down" /\ reply' = "none"
  /\ UNCHANGED <<files, meta, cur, hurt, calm>>

CalmDown ==
  /\ ~calm /\ calm' = TRUE
  /\ UNCHANGED <<files, meta, proc, pc, cur, reply, hurt>>

-----------------------------------------------------------------------------
(* The center has made up its mind: it only repeats its last update. *)
Settled == calm \/ cur \in Goals

UpdateStep ==
  DownloadBody \/ Verify \/ Backup \/ Replace \/ UpdateVersion \/ UpdateId \/ Boot

Next ==
  \/ \E u \in Payloads : (u \in Goals \/ ~Settled) /\ handleAgentUpdate(u)
  \/ ~Settled /\ handleAgentRollback
  \/ UpdateStep
  \/ Crash
  \/ CalmDown

Spec == Init /\ [][Next]_vars

(* What has been started runs on, systemd restarts a dead process, and the *)
(* center repeats an update until it took.                                 *)
FairSpec ==
  /\ Spec
  /\ WF_vars(UpdateStep)
  /\ \A u \in Goals : WF_vars(handleAgentUpdate(u))

-----------------------------------------------------------------------------
Files == Binaries \cup {Garbage, None}

(* Type correctness; in particular nothing ever removes the executable     *)
(* itself.                                                                 *)
TypeOK ==
  /\ exec \in Binaries \cup {Garbage}
  /\ part \in Files /\ final \in Files
  /\ backup \in [Versions -> Files]
  /\ version \in Versions \cup {None} /\ updateID \in Ids \cup {None}
  /\ running \in Binaries \cup {Garbage, None} /\ previous \in Binaries \cup {Garbage}
  /\ pc \in {"idle", "download", "verify", "backup", "replace", "putVersion",
             "putUpdateID", "restart", "down"}
  /\ cur \in Payloads
  /\ reply \in {"none", "alreadyApplied", "hashMatch", "refused", "updateFailed",
                "updated", "rollbackFailed", "rolledBack"}
  /\ hurt \in BOOLEAN /\ late \in BOOLEAN /\ calm \in BOOLEAN

(* The executable can be started at any instant: whatever downloadFile     *)
(* received and wherever the process dies, the file systemd starts is a    *)
(* whole binary, the installed one or one whose hash the center announced. *)
Bootable == exec \in {FirstBinary} \cup {u.bin : u \in Payloads}

(* A backup holds a binary of the version in its name, so that BackupPath  *)
(* finds what RollbackFrom is to restore.                                  *)
BackupsLabelled ==
  ~hurt => \A v \in Versions : backup[v] # None => backup[v].version = v

(* At rest the store, the file on disk and the process agree: no update,   *)
(* rollback or crash leaves the agent running one binary while the next    *)
(* restart would bring another, or under a version it does not have.       *)
Agreement ==
  pc = "idle" /\ ~hurt => running = exec /\ version = running.version

(* An update id stands for its binary: handleAgentUpdate and the handler's *)
(* last step record one only while that update's binary is the executable. *)
(* No update that failed or was interrupted before the executable was      *)
(* replaced is later answered with "already applied"; one that failed      *)
(* afterwards is, by its hash.                                             *)
RecordsInstalled ==
  [][updateID' # updateID => \E u \in Payloads : u.id = updateID' /\ exec' = u.bin]_vars

(* "update applied" is only answered when the restart that follows runs    *)
(* the announced binary and, unless an error was ignored on the way, the   *)
(* store has its version and update id and the binary that is being        *)
(* replaced, which still runs, is kept under its own version.              *)
UpdatedIsReal ==
  reply = "updated" =>
    /\ exec = cur.bin
    /\ ~hurt => /\ version = exec.version /\ updateID = cur.id
                /\ backup[running.version] = running

(* An update takes: when the center settles on one update and repeats it,  *)
(* whatever errors and crashes cut earlier attempts short, then once       *)
(* failures stop its binary stays the executable, its id stays in the      *)
(* store and the process runs it.  Two agents do not get that far.  One    *)
(* whose replaceFile failed after the rename answers the repeated update   *)
(* with a hash match and runs the old binary until something restarts it   *)
(* (late); one that never stored its version refuses every update, also    *)
(* until a restart.                                                        *)
Took(u) == exec = u.bin /\ updateID = u.id /\ (running = u.bin \/ late)

Updated == calm ~> [](version = None \/ \E u \in Goals : Took(u))

(* A rollback is only rejected when there is no backup of the version that *)
(* ran before this one.                                                    *)
RollbackFindsBackup ==
  reply = "rollbackFailed" => backup[previous.version] = None
=============================================================================
