-------------------------- MODULE ArtifactPromoter --------------------------
(* The Ansible module artifact_promoter and its FileArtifactPromoter: over    *)
(* SFTP a run creates a file named after the artifact and moves the label, a  *)
(* symbolic link, to it.  Runs follow each other (the promotion is a periodic *)
(* job), and the server keeps what a failed run left.                         *)
(*                                                                            *)
(* A call the server refuses raises EnvironmentError and has no effect.  A    *)
(* lost connection raises another class, which no handler of                  *)
(* promote_file_artifact names: the run ends there, as if it were killed, and *)
(* the call in flight has or has not happened.                                *)
EXTENDS Naturals

CONSTANTS Artifact,           (* file names: the ids of composes              *)
          NoArtifact,         (* no name: an absent link, None                *)
          MaxArtifactFaults   (* refusals, lost connections, kills in a run of TLC *)

ASSUME ArtifactAssumption ==
    NoArtifact \notin Artifact /\ MaxArtifactFaults \in Nat

VARIABLES
    artifactFile,     (* the files of the working directory                   *)
    targetLabel,      (* the file the label links to, NoArtifact without link *)
    promoteAt,        (* the SFTP call the run makes next                     *)
    artifact,         (* file_name                                            *)
    rollbackFiles,    (* rollback_files                                       *)
    previousFile,     (* the value in rollback_previous_links                 *)
    interrupted,      (* a run ended before it could clean up its file        *)
    artifactFaults

artifactVars == <<artifactFile, targetLabel, promoteAt, artifact,
                  rollbackFiles, previousFile, interrupted, artifactFaults>>

serverVars == <<artifactFile, targetLabel>>
runVars == <<artifact, rollbackFiles, previousFile>>

PromoteStep == {"stat", "create", "write", "readlink", "unlink", "symlink",
                "remove", "restore"}

ArtifactTypeOK ==
    /\ artifactFile \in [Artifact -> {"absent", "partial", "complete"}]
    /\ targetLabel \in Artifact \cup {NoArtifact}
    /\ promoteAt \in PromoteStep \cup {"idle"}
    /\ artifact \in Artifact
    /\ rollbackFiles \in SUBSET Artifact
    /\ previousFile \in Artifact \cup {NoArtifact}
    /\ interrupted \in BOOLEAN
    /\ artifactFaults \in 0..MaxArtifactFaults

ArtifactInit ==
    /\ artifactFile = [f \in Artifact |-> "absent"]
    /\ targetLabel = NoArtifact
    /\ promoteAt = "idle"
    /\ artifact \in Artifact
    /\ rollbackFiles = {}
    /\ previousFile = NoArtifact
    /\ interrupted = FALSE
    /\ artifactFaults = 0

(* One of the bounded failures happens in this step. *)
Refused ==
    /\ artifactFaults < MaxArtifactFaults
    /\ artifactFaults' = artifactFaults + 1

-----------------------------------------------------------------------------
(* Mutant of StartPromote: the rollback may remove a file of an earlier run. *)
StartPromoteOwnsFile(name) ==
    /\ promoteAt = "idle"
    /\ artifact' = name
    /\ rollbackFiles' = {name}
    /\ previousFile' = NoArtifact
    /\ promoteAt' = "stat"
    /\ UNCHANGED <<serverVars, interrupted, artifactFaults>>

(* promote() up to promote_file_artifact().  The compose type has checked the *)
(* labels and names the file after the first line behind its URL, the file    *)
(* type has the name from its task.  Unsupported labels, a missing directory  *)
(* or an URL without answer end the run before it changes anything.           *)
StartPromote(name) ==
    /\ promoteAt = "idle"
    /\ artifact' = name
    /\ rollbackFiles' = {}
    /\ previousFile' = NoArtifact
    /\ promoteAt' = "stat"
    /\ UNCHANGED <<serverVars, interrupted, artifactFaults>>

(* Mutant of Stat: a file that is there ends the run. *)
StatExistingEnds ==
    /\ promoteAt = "stat"
    /\ promoteAt' = IF artifactFile[artifact] = "absent" THEN "create" ELSE "idle"
    /\ UNCHANGED <<serverVars, runVars, interrupted, artifactFaults>>

Stat ==
    /\ promoteAt = "stat"
    /\ promoteAt' = IF artifactFile[artifact] = "absent" THEN "create" ELSE "readlink"
    /\ UNCHANGED <<serverVars, runVars, interrupted, artifactFaults>>

(* Mutant of Create: the file is not recorded for the rollback. *)
CreateUnrecorded ==
    /\ promoteAt = "create"
    /\ artifactFile' = [artifactFile EXCEPT ![artifact] = "partial"]
    /\ promoteAt' = "write"
    /\ UNCHANGED <<targetLabel, runVars, interrupted, artifactFaults>>

(* client.file(name, "w"): the file is there, and empty, before the write.    *)
Create ==
    /\ promoteAt = "create"
    /\ artifactFile' = [artifactFile EXCEPT ![artifact] = "partial"]
    /\ rollbackFiles' = {artifact}
    /\ promoteAt' = "write"
    /\ UNCHANGED <<targetLabel, artifact, previousFile, interrupted,
                   artifactFaults>>

Write ==
    /\ promoteAt = "write"
    /\ artifactFile' = [artifactFile EXCEPT ![artifact] = "complete"]
    /\ promoteAt' = "readlink"
    /\ UNCHANGED <<targetLabel, runVars, interrupted, artifactFaults>>

Readlink ==
    /\ promoteAt = "readlink"
    /\ promoteAt' = CASE targetLabel = NoArtifact -> "symlink"
                      [] targetLabel = artifact   -> "idle"
                      [] OTHER                    -> "unlink"
    /\ UNCHANGED <<serverVars, runVars, interrupted, artifactFaults>>

Unlink ==
    /\ promoteAt = "unlink"
    /\ previousFile' = targetLabel
    /\ targetLabel' = NoArtifact
    /\ promoteAt' = "symlink"
    /\ UNCHANGED <<artifactFile, artifact, rollbackFiles, interrupted,
                   artifactFaults>>

Symlink ==
    /\ promoteAt = "symlink"
    /\ targetLabel = NoArtifact
    /\ targetLabel' = artifact
    /\ promoteAt' = "idle"
    /\ UNCHANGED <<artifactFile, runVars, interrupted, artifactFaults>>

-----------------------------------------------------------------------------
(* The except branches.  Without a file or a link of its own to undo the      *)
(* rollback makes no call.                                                    *)
ToRollback ==
    promoteAt' = IF rollbackFiles # {} THEN "remove"
                 ELSE IF previousFile # NoArtifact THEN "restore"
                 ELSE "idle"

(* stat, file, write and unlink refused: the label is not among the links to restore. *)
CallRefused ==
    /\ promoteAt \in {"stat", "create", "write", "unlink"}
    /\ Refused
    /\ ToRollback
    /\ UNCHANGED <<serverVars, runVars, interrupted>>

(* Any EnvironmentError of readlink counts as "no such link". *)
ReadlinkRefused ==
    /\ promoteAt = "readlink"
    /\ Refused
    /\ promoteAt' = "symlink"
    /\ UNCHANGED <<serverVars, runVars, interrupted>>

(* A link that exists after all makes symlink fail too. *)
SymlinkRefused ==
    /\ promoteAt = "symlink"
    /\ \/ Refused
       \/ targetLabel # NoArtifact /\ UNCHANGED artifactFaults
    /\ ToRollback
    /\ UNCHANGED <<serverVars, runVars, interrupted>>

(* rollback(): a file that cannot be removed is logged and left. *)
RollbackFiles ==
    /\ promoteAt = "remove"
    /\ \/ /\ artifactFile' = [f \in Artifact |->
                                 IF f \in rollbackFiles THEN "absent" ELSE artifactFile[f]]
          /\ UNCHANGED <<interrupted, artifactFaults>>
       \/ /\ Refused
          /\ interrupted' = TRUE
          /\ UNCHANGED artifactFile
    /\ promoteAt' = IF previousFile # NoArtifact THEN "restore" ELSE "idle"
    /\ UNCHANGED <<targetLabel, runVars>>

(* rollback() unlinks the label before it links the previous file; without a  *)
(* link that first call raises and the second is never made.                  *)
RollbackLink ==
    /\ promoteAt = "restore"
    /\ targetLabel' = IF targetLabel = NoArtifact THEN NoArtifact ELSE previousFile
    /\ promoteAt' = "idle"
    /\ UNCHANGED <<artifactFile, runVars, interrupted, artifactFaults>>

(* The run is killed, or its connection is lost. *)
PromoteDies ==
    /\ promoteAt # "idle"
    /\ Refused
    /\ promoteAt' = "idle"
    /\ interrupted' = TRUE
    /\ UNCHANGED <<serverVars, runVars>>

ArtifactNext ==
    \/ \E name \in Artifact : StartPromote(name)
    \/ Stat \/ Create \/ Write \/ Readlink \/ Unlink \/ Symlink
    \/ CallRefused \/ ReadlinkRefused \/ SymlinkRefused
    \/ RollbackFiles \/ RollbackLink \/ PromoteDies

(* The job that promotes is scheduled again and again, and its calls return.  *)
ArtifactSpec ==
    ArtifactInit /\ [][ArtifactNext]_artifactVars /\ WF_artifactVars(ArtifactNext)

-----------------------------------------------------------------------------
(* Whoever follows the label finds a file: whichever calls were refused, and  *)
(* wherever a run was cut off, the rollback never removes the file the label  *)
(* links to.                                                                  *)
LabelNeverDangles ==
    targetLabel # NoArtifact => artifactFile[targetLabel] # "absent"

(* The label shows a file without its content only when an earlier run was    *)
(* cut off, or could not remove its file: stat() takes whatever file has the  *)
(* name for the artifact, so only the rollback keeps partial files away.      *)
PartialOnlyAfterInterruption ==
    targetLabel # NoArtifact /\ artifactFile[targetLabel] = "partial" => interrupted

(* A run that finds no label, or loses it to a failed symlink (the rollback   *)
(* cannot restore it), is followed by one that sets it, whatever files the    *)
(* failed runs left behind.                                                   *)
LabelReturns ==
    promoteAt # "idle" /\ targetLabel = NoArtifact ~> targetLabel # NoArtifact
=============================================================================
