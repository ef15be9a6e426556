--------------------------- MODULE OperationsProofs ---------------------------
(***************************************************************************)
(* Six programs beside the promoter, each by itself: what the label of the *)
(* artifacts leads to (artifact promoter), what a deletion may hit that    *)
(* works from a list made earlier (tenant cleanup, node holder), what      *)
(* current-tripleo may be on (copy-quay), what a stage serves and what its *)
(* teardown finds and leaves (staging), and what the labels of aggregates  *)
(* name (DLRN API client), for any constants.                              *)
(***************************************************************************)
EXTENDS ArtifactPromoter, TenantCleanup, NodeHolder, CopyQuay, Staging,
        AggregatePromotion, TLAPS

(***************************************************************************)
(* Artifact promoter.  That a run at work knows of the files it has made,  *)
(* and never has the label on them before its last call, is what the       *)
(* rollback rests on.                                                      *)
(***************************************************************************)
(* The file of the artifact, as the run goes on. *)
FileInv ==
    /\ promoteAt = "create" => artifactFile[artifact] = "absent"
    /\ promoteAt \in {"write", "readlink", "unlink", "symlink"}
          => artifactFile[artifact] # "absent"

(* What the run may undo: its own file, which the label is not on, and the *)
(* link it removed, which led to another file.                             *)
RollbackInv ==
    /\ rollbackFiles \subseteq {artifact}
    /\ promoteAt \in {"write", "remove"} => artifact \in rollbackFiles
    /\ promoteAt # "idle" /\ artifact \in rollbackFiles => targetLabel # artifact
    /\ promoteAt # "idle" /\ previousFile # NoArtifact =>
          previousFile # artifact /\ artifactFile[previousFile] # "absent"
    /\ promoteAt = "restore" => previousFile # NoArtifact
    /\ promoteAt = "unlink" => targetLabel \notin {NoArtifact, artifact}

(* A partial file is the one at work, or was left by a run that was cut off. *)
PartialInv ==
    \A f \in Artifact : artifactFile[f] = "partial" =>
        interrupted \/ (f = artifact /\ promoteAt \in {"write", "remove"})

ArtifactIInv == ArtifactTypeOK /\ LabelNeverDangles /\ FileInv /\ RollbackInv /\ PartialInv

LEMMA ArtifactInitIInv == ArtifactInit => ArtifactIInv
  <1> SUFFICES ASSUME ArtifactInit PROVE ArtifactIInv
    OBVIOUS
  <1>1. ArtifactTypeOK
    <2>1. /\ artifactFile \in [Artifact -> {"absent", "partial", "complete"}]
          /\ artifactFaults \in 0..MaxArtifactFaults
      BY ArtifactAssumption DEF ArtifactInit
    <2>2. interrupted \in BOOLEAN
      BY Zenon DEF ArtifactInit
    <2>3. QED
      BY <2>1, <2>2 DEF ArtifactInit, ArtifactTypeOK
  <1>2. QED
    BY <1>1 DEF ArtifactInit, ArtifactIInv, LabelNeverDangles, FileInv, RollbackInv, PartialInv

LEMMA StartPromoteStep ==
    ASSUME ArtifactIInv, NEW name \in Artifact, StartPromote(name)
    PROVE  ArtifactIInv'
  <1> USE DEF StartPromote, serverVars
  <1>1. ArtifactTypeOK'
    BY DEF ArtifactIInv, ArtifactTypeOK, PromoteStep
  <1>2. LabelNeverDangles' /\ FileInv' /\ RollbackInv' /\ PartialInv'
    BY DEF ArtifactIInv, LabelNeverDangles, FileInv, RollbackInv, PartialInv
  <1>3. QED
    BY <1>1, <1>2 DEF ArtifactIInv

LEMMA StatStep ==
    ASSUME ArtifactIInv, Stat
    PROVE  ArtifactIInv'
  <1> USE DEF Stat, serverVars, runVars
  <1>1. ArtifactTypeOK'
    BY DEF ArtifactIInv, ArtifactTypeOK, PromoteStep
  <1>2. LabelNeverDangles' /\ FileInv' /\ RollbackInv' /\ PartialInv'
    BY DEF ArtifactIInv, LabelNeverDangles, FileInv, RollbackInv, PartialInv
  <1>3. QED
    BY <1>1, <1>2 DEF ArtifactIInv

(* The new file has a name that neither label nor previous link lead to. *)
LEMMA CreateStep ==
    ASSUME ArtifactIInv, Create
    PROVE  ArtifactIInv'
  <1> USE DEF Create
  <1>1. ArtifactTypeOK'
    BY DEF ArtifactIInv, ArtifactTypeOK, PromoteStep
  <1>2. targetLabel # artifact
    BY ArtifactAssumption DEF ArtifactIInv, ArtifactTypeOK, LabelNeverDangles, FileInv
  <1>3. LabelNeverDangles' /\ FileInv' /\ RollbackInv' /\ PartialInv'
    BY <1>2 DEF ArtifactIInv, ArtifactTypeOK, LabelNeverDangles, FileInv, RollbackInv, PartialInv
  <1>4. QED
    BY <1>1, <1>3 DEF ArtifactIInv

LEMMA WriteStep ==
    ASSUME ArtifactIInv, Write
    PROVE  ArtifactIInv'
  <1> USE DEF Write, runVars
  <1>1. ArtifactTypeOK'
    BY DEF ArtifactIInv, ArtifactTypeOK, PromoteStep
  <1>2. LabelNeverDangles' /\ FileInv' /\ RollbackInv' /\ PartialInv'
    BY DEF ArtifactIInv, ArtifactTypeOK, LabelNeverDangles, FileInv, RollbackInv, PartialInv
  <1>3. QED
    BY <1>1, <1>2 DEF ArtifactIInv

LEMMA ReadlinkStep ==
    ASSUME ArtifactIInv, Readlink
    PROVE  ArtifactIInv'
  <1> USE DEF Readlink, serverVars, runVars
  <1>1. ArtifactTypeOK'
    BY DEF ArtifactIInv, ArtifactTypeOK, PromoteStep
  <1>2. LabelNeverDangles' /\ FileInv' /\ RollbackInv' /\ PartialInv'
    BY DEF ArtifactIInv, LabelNeverDangles, FileInv, RollbackInv, PartialInv
  <1>3. QED
    BY <1>1, <1>2 DEF ArtifactIInv

LEMMA UnlinkStep ==
    ASSUME ArtifactIInv, Unlink
    PROVE  ArtifactIInv'
  <1> USE DEF Unlink
  <1>1. ArtifactTypeOK'
    BY DEF ArtifactIInv, ArtifactTypeOK, PromoteStep
  <1>2. LabelNeverDangles' /\ FileInv' /\ RollbackInv' /\ PartialInv'
    BY ArtifactAssumption
       DEF ArtifactIInv, ArtifactTypeOK, LabelNeverDangles, FileInv, RollbackInv, PartialInv
  <1>3. QED
    BY <1>1, <1>2 DEF ArtifactIInv

LEMMA SymlinkStep ==
    ASSUME ArtifactIInv, Symlink
    PROVE  ArtifactIInv'
  <1> USE DEF Symlink, runVars
  <1>1. ArtifactTypeOK'
    BY DEF ArtifactIInv, ArtifactTypeOK
  <1>2. LabelNeverDangles' /\ FileInv' /\ RollbackInv' /\ PartialInv'
    BY DEF ArtifactIInv, LabelNeverDangles, FileInv, RollbackInv, PartialInv
  <1>3. QED
    BY <1>1, <1>2 DEF ArtifactIInv

-----------------------------------------------------------------------------
(* The steps that fail. *)

LEMMA RefusedType ==
    ASSUME ArtifactIInv, Refused
    PROVE  artifactFaults' \in 0..MaxArtifactFaults
  BY ArtifactAssumption DEF ArtifactIInv, ArtifactTypeOK, Refused

LEMMA ToRollbackStep ==
    ASSUME ArtifactIInv, ToRollback, UNCHANGED <<serverVars, runVars, interrupted>>,
           artifactFaults' \in 0..MaxArtifactFaults,
           promoteAt \in {"stat", "create", "write", "unlink", "symlink"}
    PROVE  ArtifactIInv'
  <1> USE DEF serverVars, runVars, ToRollback
  <1>1. ArtifactTypeOK'
    BY DEF ArtifactIInv, ArtifactTypeOK, PromoteStep
  <1>2. LabelNeverDangles' /\ FileInv' /\ RollbackInv'
    BY DEF ArtifactIInv, LabelNeverDangles, FileInv, RollbackInv
  <1>3. PartialInv'
    <2>1. promoteAt = "write" => rollbackFiles # {}
      BY DEF ArtifactIInv, RollbackInv
    <2>2. promoteAt = "write" => promoteAt' = "remove"
      BY <2>1
    <2>3. SUFFICES ASSUME NEW f \in Artifact, artifactFile[f] = "partial", ~interrupted
                   PROVE  f = artifact /\ promoteAt' = "remove"
      BY DEF PartialInv
    <2>4. f = artifact /\ promoteAt \in {"write", "remove"}
      BY <2>3 DEF ArtifactIInv, PartialInv
    <2>5. QED
      BY <2>2, <2>4
  <1>4. QED
    BY <1>1, <1>2, <1>3 DEF ArtifactIInv

LEMMA CallRefusedStep ==
    ASSUME ArtifactIInv, CallRefused
    PROVE  ArtifactIInv'
  BY RefusedType, ToRollbackStep DEF CallRefused

LEMMA SymlinkRefusedStep ==
    ASSUME ArtifactIInv, SymlinkRefused
    PROVE  ArtifactIInv'
  <1>1. artifactFaults' \in 0..MaxArtifactFaults
    BY RefusedType DEF SymlinkRefused, ArtifactIInv, ArtifactTypeOK
  <1>2. QED
    BY <1>1, ToRollbackStep DEF SymlinkRefused

LEMMA ReadlinkRefusedStep ==
    ASSUME ArtifactIInv, ReadlinkRefused
    PROVE  ArtifactIInv'
  <1> USE DEF ReadlinkRefused, serverVars, runVars
  <1>1. ArtifactTypeOK'
    BY RefusedType DEF ArtifactIInv, ArtifactTypeOK, PromoteStep
  <1>2. LabelNeverDangles' /\ FileInv' /\ RollbackInv' /\ PartialInv'
    BY DEF ArtifactIInv, LabelNeverDangles, FileInv, RollbackInv, PartialInv
  <1>3. QED
    BY <1>1, <1>2 DEF ArtifactIInv

(* The label is on none of the files that are removed. *)
LEMMA RollbackFilesStep ==
    ASSUME ArtifactIInv, RollbackFiles
    PROVE  ArtifactIInv'
  <1> USE DEF RollbackFiles, runVars
  <1>1. ArtifactTypeOK'
    BY RefusedType DEF ArtifactIInv, ArtifactTypeOK, PromoteStep
  <1>2. \A f \in Artifact : artifactFile'[f] \in {artifactFile[f], "absent"}
    BY DEF ArtifactIInv, ArtifactTypeOK
  <1>3. \A f \in Artifact : f # artifact => artifactFile'[f] = artifactFile[f]
    BY DEF ArtifactIInv, ArtifactTypeOK, RollbackInv
  <1>4. interrupted' \/ artifactFile'[artifact] = "absent"
    BY DEF ArtifactIInv, ArtifactTypeOK, RollbackInv
  <1>5. interrupted => interrupted'
    OBVIOUS
  <1>6. targetLabel # artifact
    BY DEF ArtifactIInv, RollbackInv
  <1>7. LabelNeverDangles' /\ FileInv'
    BY <1>3, <1>6 DEF ArtifactIInv, ArtifactTypeOK, LabelNeverDangles, FileInv
  <1>8. RollbackInv'
    BY <1>3 DEF ArtifactIInv, ArtifactTypeOK, RollbackInv
  <1>9. PartialInv'
    BY <1>3, <1>4, <1>5 DEF ArtifactIInv, PartialInv
  <1>10. QED
    BY <1>1, <1>7, <1>8, <1>9 DEF ArtifactIInv

LEMMA RollbackLinkStep ==
    ASSUME ArtifactIInv, RollbackLink
    PROVE  ArtifactIInv'
  <1> USE DEF RollbackLink, runVars
  <1>1. ArtifactTypeOK'
    BY DEF ArtifactIInv, ArtifactTypeOK
  <1>2. LabelNeverDangles' /\ FileInv' /\ RollbackInv' /\ PartialInv'
    BY DEF ArtifactIInv, LabelNeverDangles, FileInv, RollbackInv, PartialInv
  <1>3. QED
    BY <1>1, <1>2 DEF ArtifactIInv

LEMMA PromoteDiesStep ==
    ASSUME ArtifactIInv, PromoteDies
    PROVE  ArtifactIInv'
  <1> USE DEF PromoteDies, serverVars, runVars
  <1>1. ArtifactTypeOK'
    BY RefusedType DEF ArtifactIInv, ArtifactTypeOK
  <1>2. LabelNeverDangles' /\ FileInv' /\ RollbackInv' /\ PartialInv'
    BY DEF ArtifactIInv, LabelNeverDangles, FileInv, RollbackInv, PartialInv
  <1>3. QED
    BY <1>1, <1>2 DEF ArtifactIInv

-----------------------------------------------------------------------------
LEMMA ArtifactStutterStep ==
    ASSUME ArtifactIInv, UNCHANGED artifactVars
    PROVE  ArtifactIInv'
  BY DEF artifactVars, ArtifactIInv, ArtifactTypeOK, LabelNeverDangles, FileInv, RollbackInv,
         PartialInv

LEMMA ArtifactNextIInv ==
    ASSUME ArtifactIInv, [ArtifactNext]_artifactVars
    PROVE  ArtifactIInv'
  <1>1. CASE \E name \in Artifact : StartPromote(name)
    BY <1>1, StartPromoteStep
  <1>2. CASE Stat \/ Create \/ Write \/ Readlink \/ Unlink \/ Symlink
    BY <1>2, StatStep, CreateStep, WriteStep, ReadlinkStep, UnlinkStep, SymlinkStep
  <1>3. CASE CallRefused \/ ReadlinkRefused \/ SymlinkRefused
    BY <1>3, CallRefusedStep, ReadlinkRefusedStep, SymlinkRefusedStep
  <1>4. CASE RollbackFiles \/ RollbackLink \/ PromoteDies
    BY <1>4, RollbackFilesStep, RollbackLinkStep, PromoteDiesStep
  <1>5. CASE UNCHANGED artifactVars
    BY <1>5, ArtifactStutterStep
  <1>6. QED
    BY <1>1, <1>2, <1>3, <1>4, <1>5 DEF ArtifactNext

THEOREM ArtifactInvariant == ArtifactSpec => []ArtifactIInv
  BY ArtifactInitIInv, ArtifactNextIInv, PTL DEF ArtifactSpec

(* Wherever a run of promote_file_artifact is cut off, and whatever call is *)
(* refused, the rollback never removes the file the label links to.         *)
THEOREM ArtifactLabelLeads == ArtifactSpec => []LabelNeverDangles
  <1>1. ArtifactIInv => LabelNeverDangles
    BY DEF ArtifactIInv
  <1>2. QED
    BY <1>1, ArtifactInvariant, PTL

LEMMA PartialIsNotLabelled == ArtifactIInv => PartialOnlyAfterInterruption
  <1> SUFFICES ASSUME ArtifactIInv, targetLabel # NoArtifact, artifactFile[targetLabel] = "partial"
               PROVE  interrupted
    BY DEF PartialOnlyAfterInterruption
  <1>1. targetLabel \in Artifact
    BY DEF ArtifactIInv, ArtifactTypeOK
  <1>2. CASE promoteAt \in {"write", "remove"}
    BY <1>1, <1>2 DEF ArtifactIInv, RollbackInv, PartialInv
  <1>3. CASE promoteAt \notin {"write", "remove"}
    BY <1>1, <1>3 DEF ArtifactIInv, PartialInv
  <1>4. QED
    BY <1>2, <1>3

(* The label shows a file that stat() took for the artifact although it has *)
(* not its content only after a run that could not roll back.               *)
THEOREM LabelledIsComplete == ArtifactSpec => []PartialOnlyAfterInterruption
  BY PartialIsNotLabelled, ArtifactInvariant, PTL

(***************************************************************************)
(* Tenant cleanup.  The stacks whose resources are deleted one by one are  *)
(* beyond use for good, or the operator has named them.                    *)
(***************************************************************************)
Dead(s) == stack[s] \in {"deleting", "failed", "gone"}

CleanupListInv ==
    /\ stack \in [Stack -> StackStatus]
    /\ resource \in [Stack -> SUBSET Kind]
    /\ listed \subseteq Stack /\ todo \subseteq Stack /\ expired \subseteq Stack
    /\ round \in Round
    /\ cleanAt = "start" => round = "old" /\ sweptFor = {}
    /\ cleanAt = "list" => round # "single"
    /\ cleanAt \in {"check", "sweep"} => \A s \in listed \cup todo : Dead(s) \/ s \in chosen

CleanupIInv == CleanupListInv /\ LiveStackIsWhole

LEMMA CleanupInitIInv == CleanupInit => CleanupIInv
  <1> SUFFICES ASSUME CleanupInit PROVE CleanupIInv
    OBVIOUS
  <1>1. CleanupListInv
    BY DEF CleanupInit, CleanupListInv, StackStatus, Round
  <1>2. LiveStackIsWhole
    BY DEF CleanupInit, LiveStackIsWhole, Live
  <1>3. QED
    BY <1>1, <1>2 DEF CleanupIInv

(* A stack is live only after its creation, which makes all its resources.  *)
LEMMA CloudStep ==
    ASSUME CleanupIInv, Cloud
    PROVE  CleanupIInv'
  <1> PICK s \in Stack : \/ StackCreate(s) \/ StackCreated(s) \/ StackExpires(s)
                         \/ JobDeletesStack(s) \/ HeatDeletes(s)
    BY DEF Cloud
  <1> USE DEF CleanupIInv, CleanupListInv, LiveStackIsWhole, SetStack, StackStatus, Live, Dead
  <1>0. UNCHANGED <<cleanAt, round, listed, todo, current, kind, chosen, sweptFor>>
    BY DEF Cloud
  <1>1. CASE StackCreate(s)
    BY <1>0, <1>1 DEF StackCreate
  <1>2. CASE StackCreated(s)
    BY <1>0, <1>2 DEF StackCreated
  <1>3. CASE StackExpires(s)
    BY <1>0, <1>3 DEF StackExpires
  <1>4. CASE JobDeletesStack(s)
    BY <1>0, <1>4 DEF JobDeletesStack
  <1>5. CASE HeatDeletes(s)
    BY <1>0, <1>5 DEF HeatDeletes
  <1>6. QED
    BY <1>1, <1>2, <1>3, <1>4, <1>5

LEMMA StartCleanupStep ==
    ASSUME CleanupIInv, StartCleanup
    PROVE  CleanupIInv'
  <1> USE DEF StartCleanup, CleanupIInv, CleanupListInv, LiveStackIsWhole, cloudVars, Dead, Round
  <1>1. CleanupListInv'
    OBVIOUS
  <1>2. LiveStackIsWhole'
    OBVIOUS
  <1>3. QED
    BY <1>1, <1>2

LEMMA ListStacksStep ==
    ASSUME CleanupIInv, ListStacks
    PROVE  CleanupIInv'
  <1> USE DEF ListStacks, CleanupIInv, cloudVars
  <1>1. round \in {"old", "failed", "stuck", "leftover"}
    BY DEF CleanupListInv, Round
  <1>2. HeatStacks(round) \subseteq Stack
    BY <1>1 DEF CleanupListInv, HeatStacks, FailedHeatStacks, ProgressHeatStacks, OldHeatStacks
  <1>3. round \in {"stuck", "leftover"} => \A s \in HeatStacks(round) : Dead(s)
    BY DEF HeatStacks, FailedHeatStacks, ProgressHeatStacks, Dead
  <1>4. CleanupListInv'
    BY <1>1, <1>2, <1>3 DEF CleanupListInv, Dead
  <1>5. LiveStackIsWhole'
    BY DEF LiveStackIsWhole
  <1>6. QED
    BY <1>4, <1>5

LEMMA CheckStackStep ==
    ASSUME CleanupIInv, NEW s \in Stack, CheckStack(s)
    PROVE  CleanupIInv'
  <1> USE DEF CheckStack, CleanupIInv, SetStack
  <1>1. CleanupListInv'
    BY DEF CleanupListInv, StackStatus, Dead
  <1>2. LiveStackIsWhole'
    BY DEF CleanupListInv, LiveStackIsWhole, Live
  <1>3. QED
    BY <1>1, <1>2

LEMMA LoopsEndStep ==
    ASSUME CleanupIInv, Checked \/ Swept \/ Deleted \/ CleanupRaises
    PROVE  CleanupIInv'
  <1> USE DEF Checked, Swept, Deleted, CleanupRaises, CleanupIInv, cloudVars
  <1>1. CleanupListInv'
    BY DEF CleanupListInv, Round, Dead
  <1>2. LiveStackIsWhole'
    BY DEF LiveStackIsWhole
  <1>3. QED
    BY <1>1, <1>2

(* What is swept away is swept for s, which is no live stack, or chosen.    *)
LEMMA SweepKindStep ==
    ASSUME CleanupIInv, NEW s \in Stack, NEW found \in SUBSET WithIdentifier(s),
           NEW next \in {"sweep", "ended"}, SweepKind(s, found, next)
    PROVE  CleanupIInv'
  <1> USE DEF CleanupIInv
  <1>1. /\ resource' = [t \in Stack |->
              IF t \in found THEN resource[t] \ {SweepOrder[kind]} ELSE resource[t]]
        /\ sweptFor' = sweptFor \cup {s} /\ cleanAt' = next /\ todo' \subseteq todo
        /\ s \in todo /\ cleanAt = "sweep"
        /\ UNCHANGED <<stack, expired, round, listed, chosen>>
    BY DEF SweepKind
  <1>2. CleanupListInv'
    BY <1>1 DEF CleanupListInv, Dead
  <1>3. \A t \in Stack : resource'[t] # resource[t] => t \in found
    BY <1>1 DEF CleanupListInv
  <1>4. Dead(s) \/ s \in chosen
    BY <1>1 DEF CleanupListInv
  <1>5. SUFFICES ASSUME NEW t \in Stack, stack[t] \in Live, resource'[t] # Kind
                 PROVE  \E x \in sweptFor' : <<x, t>> \in NameHas /\ (x # t \/ x \in chosen)
    BY <1>1, <1>2 DEF LiveStackIsWhole
  <1>6. CASE resource[t] # Kind
    BY <1>1, <1>5, <1>6 DEF LiveStackIsWhole
  <1>7. CASE resource[t] = Kind
    <2>1. <<s, t>> \in NameHas
      BY <1>3, <1>5, <1>7 DEF WithIdentifier
    <2>2. s # t \/ s \in chosen
      BY <1>4, <1>5 DEF Dead, Live
    <2>3. QED
      BY <1>1, <2>1, <2>2
  <1>8. QED
    BY <1>6, <1>7

LEMMA DeleteStackStep ==
    ASSUME CleanupIInv, NEW s \in Stack, DeleteStack(s)
    PROVE  CleanupIInv'
  <1> USE DEF DeleteStack, CleanupIInv, SetStack
  <1>1. CleanupListInv'
    BY DEF CleanupListInv, StackStatus, Dead
  <1>2. LiveStackIsWhole'
    BY DEF CleanupListInv, LiveStackIsWhole, Live
  <1>3. QED
    BY <1>1, <1>2

LEMMA CleanupNextIInv ==
    ASSUME CleanupIInv, [CleanupNext]_cleanupVars
    PROVE  CleanupIInv'
  <1>1. CASE Cloud
    BY <1>1, CloudStep
  <1>2. CASE StartCleanup \/ ListStacks \/ Checked \/ Swept \/ Deleted \/ CleanupRaises
    BY <1>2, StartCleanupStep, ListStacksStep, LoopsEndStep
  <1>3. CASE \E s \in Stack : CheckStack(s) \/ DeleteStack(s)
    BY <1>3, CheckStackStep, DeleteStackStep
  <1>4. CASE \E s \in Stack : Sweep(s) \/ SweepRaises(s)
    BY <1>4, SweepKindStep DEF Sweep, SweepRaises
  <1>5. CASE UNCHANGED cleanupVars
    BY <1>5 DEF cleanupVars, CleanupIInv, CleanupListInv, LiveStackIsWhole, Dead
  <1>6. QED
    BY <1>1, <1>2, <1>3, <1>4, <1>5 DEF CleanupNext, CleanupRun

(* Whatever Heat and the jobs do between the lists and the deletions, the   *)
(* cleanup takes nothing from a live stack but for another one whose        *)
(* identifier its names contain, or on the operator's word.                 *)
THEOREM LiveStacksKeepResources == CleanupSpec => []LiveStackIsWhole
  <1>1. CleanupIInv => LiveStackIsWhole
    BY DEF CleanupIInv
  <1>2. QED
    BY <1>1, CleanupInitIInv, CleanupNextIInv, PTL DEF CleanupSpec

(* The cloud and the run keep the types; a list is made in one of its rounds. *)
LEMMA CleanupTypeInit == CleanupInit => CleanupTypeOK
  BY DEF CleanupInit, CleanupTypeOK, StackStatus, Round

LEMMA CleanupTypeStep ==
    ASSUME CleanupIInv, CleanupTypeOK, [CleanupNext]_cleanupVars
    PROVE  CleanupTypeOK'
  <1> USE DEF CleanupTypeOK, SetStack
  <1>1. ASSUME NEW s \in Stack,
               \/ StackCreate(s) \/ StackCreated(s) \/ StackExpires(s)
               \/ JobDeletesStack(s) \/ HeatDeletes(s),
               UNCHANGED <<cleanAt, round, listed, todo, current, kind, chosen, sweptFor>>
        PROVE  CleanupTypeOK'
    BY <1>1 DEF StackCreate, StackCreated, StackExpires, JobDeletesStack, HeatDeletes, StackStatus
  <1>2. CASE StartCleanup
    BY <1>2 DEF StartCleanup, cloudVars, Round
  <1>3. CASE ListStacks
    <2>1. HeatStacks(round) \subseteq Stack
      <3>1. round # "single"
        BY <1>3 DEF ListStacks, CleanupIInv, CleanupListInv
      <3>2. QED
        BY <3>1 DEF HeatStacks, OldHeatStacks, ProgressHeatStacks, FailedHeatStacks, Round
    <2>2. cleanAt' \in {"check", "sweep", "delete"}
      BY <1>3 DEF ListStacks
    <2>3. QED
      BY <1>3, <2>1, <2>2 DEF ListStacks, cloudVars
  <1>4. CASE Checked \/ Swept \/ CleanupRaises
    BY <1>4 DEF Checked, Swept, CleanupRaises, cloudVars
  <1>5. CASE Deleted
    BY <1>5 DEF Deleted, Round, cloudVars
  <1>6. ASSUME NEW s \in Stack, CheckStack(s) \/ DeleteStack(s)
        PROVE  CleanupTypeOK'
    BY <1>6 DEF CheckStack, DeleteStack, StackStatus
  <1>7. ASSUME NEW s \in Stack, NEW found, NEW next \in {"sweep", "ended"}, SweepKind(s, found, next)
        PROVE  CleanupTypeOK'
    <2>1. resource' \in [Stack -> SUBSET Kind]
      BY <1>7 DEF SweepKind
    <2>2. kind' \in 1..5 /\ current' \in SUBSET Stack /\ todo' \in SUBSET Stack
      BY <1>7 DEF SweepKind, SweepOrder
    <2>3. QED
      BY <1>7, <2>1, <2>2 DEF SweepKind
  <1>8. CASE UNCHANGED cleanupVars
    BY <1>8 DEF cleanupVars
  <1>9. QED
    BY <1>1, <1>2, <1>3, <1>4, <1>5, <1>6, <1>7, <1>8
       DEF CleanupNext, CleanupRun, Cloud, Sweep, SweepRaises

(***************************************************************************)
(* Node holder.  Ids are never given twice, so an id names the request it  *)
(* named when the list was made, or none.                                  *)
(***************************************************************************)
HolderIdInv ==
    /\ lastId \in Nat
    /\ autohold \subseteq [id : Nat, tenant : Gerrit, change : Change, job : Job]
    /\ \A h \in autohold : h.id <= lastId
    /\ \A h, k \in autohold : h.id = k.id => h = k

HolderListInv ==
    /\ toRemove \in [User -> SUBSET Nat]
    /\ asked \in [User -> Gerrit \X Change]
    /\ listedUpTo \in [User -> Nat]
    /\ \A u \in User : listedUpTo[u] <= lastId
    /\ \A u \in User : \A i \in toRemove[u] : i <= listedUpTo[u]

HolderIInv == HolderIdInv /\ HolderListInv /\ DeletionHitsOnlyWhatItListed

LEMMA HolderInitIInv == HolderInit => HolderIInv
  <1> SUFFICES ASSUME HolderInit PROVE HolderIInv
    OBVIOUS
  <1>1. HolderIdInv
    BY DEF HolderInit, HolderIdInv
  <1>2. HolderListInv
    BY DEF HolderInit, HolderListInv
  <1>3. DeletionHitsOnlyWhatItListed
    BY DEF HolderInit, DeletionHitsOnlyWhatItListed
  <1>4. QED
    BY <1>1, <1>2, <1>3 DEF HolderIInv

(* The new request has an id beyond those of any list. *)
LEMMA AddNodeStep ==
    ASSUME HolderIInv, NEW u \in User, NEW g \in Gerrit, NEW c \in Change, AddNode(u, g, c)
    PROVE  HolderIInv'
  <1> USE DEF HolderIInv
  <1>1. PICK j \in Job :
           autohold' = autohold \cup {[id |-> lastId + 1, tenant |-> g, change |-> c, job |-> j]}
    <2>1. \A passed \in {{}} \cup {{j} : j \in Job} : JobToHold(c, passed) \subseteq Job
      BY NodeHolderAssumption DEF JobToHold
    <2>2. QED
      BY <2>1 DEF AddNode
  <1>2. lastId' = lastId + 1 /\ UNCHANGED <<toRemove, asked, listedUpTo>>
    BY DEF AddNode
  <1>3. HolderIdInv'
    BY <1>1, <1>2 DEF HolderIdInv
  <1>4. HolderListInv'
    BY <1>2 DEF HolderIdInv, HolderListInv
  <1>5. DeletionHitsOnlyWhatItListed'
    BY <1>1, <1>2 DEF DeletionHitsOnlyWhatItListed, HolderIdInv, HolderListInv
  <1>6. QED
    BY <1>3, <1>4, <1>5

LEMMA ListForPatchStep ==
    ASSUME HolderIInv, NEW u \in User, NEW g \in Gerrit, NEW c \in Change, ListForPatch(u, g, c)
    PROVE  HolderIInv'
  <1> USE DEF HolderIInv
  <1> DEFINE matching == {x \in autohold : x.tenant = g /\ <<c, x.change>> \in NumberIn}
  <1>1. /\ toRemove' = [toRemove EXCEPT ![u] = {h.id : h \in matching}]
        /\ asked' = [asked EXCEPT ![u] = <<g, c>>]
        /\ listedUpTo' = [listedUpTo EXCEPT ![u] = lastId]
        /\ UNCHANGED <<autohold, lastId>>
    BY DEF ListForPatch
  <1>2. HolderIdInv'
    BY <1>1 DEF HolderIdInv
  <1>3. \A i \in {h.id : h \in matching} : i \in Nat /\ i <= lastId
    BY DEF HolderIdInv
  <1>4. HolderListInv'
    <2>1. toRemove' \in [User -> SUBSET Nat]
      BY <1>1, <1>3 DEF HolderListInv
    <2>2. asked' \in [User -> Gerrit \X Change] /\ listedUpTo' \in [User -> Nat]
      BY <1>1 DEF HolderIdInv, HolderListInv
    <2>3. \A v \in User : listedUpTo'[v] <= lastId'
      BY <1>1 DEF HolderIdInv, HolderListInv
    <2>4. ASSUME NEW v \in User, NEW i \in toRemove'[v] PROVE i <= listedUpTo'[v]
      <3>1. CASE v = u
        BY <1>1, <1>3, <2>4, <3>1 DEF HolderListInv
      <3>2. CASE v # u
        BY <1>1, <2>4, <3>2 DEF HolderListInv
      <3>3. QED
        BY <3>1, <3>2
    <2>5. QED
      BY <2>1, <2>2, <2>3, <2>4 DEF HolderListInv
  <1>5. \A h \in autohold : h.id \in {k.id : k \in matching} => h \in matching
    BY DEF HolderIdInv
  <1>6. DeletionHitsOnlyWhatItListed'
    BY <1>1, <1>3, <1>5 DEF DeletionHitsOnlyWhatItListed, HolderListInv
  <1>7. QED
    BY <1>2, <1>4, <1>6

LEMMA ListForIdStep ==
    ASSUME HolderIInv, NEW u \in User, NEW h \in autohold, ListForId(u, h)
    PROVE  HolderIInv'
  <1> USE DEF HolderIInv
  <1>1. /\ toRemove' = [toRemove EXCEPT ![u] = {h.id}]
        /\ asked' = [asked EXCEPT ![u] = <<h.tenant, h.change>>]
        /\ listedUpTo' = [listedUpTo EXCEPT ![u] = lastId]
        /\ UNCHANGED <<autohold, lastId>>
    BY DEF ListForId
  <1>2. HolderIdInv'
    BY <1>1 DEF HolderIdInv
  <1>3. HolderListInv'
    BY <1>1 DEF HolderIdInv, HolderListInv
  <1>4. \A k \in autohold : k.id = h.id => k = h
    BY DEF HolderIdInv
  <1>5. <<h.change, h.change>> \in NumberIn
    BY NodeHolderAssumption DEF HolderIdInv
  <1>6. DeletionHitsOnlyWhatItListed'
    BY <1>1, <1>4, <1>5 DEF DeletionHitsOnlyWhatItListed, HolderIdInv, HolderListInv
  <1>7. QED
    BY <1>2, <1>3, <1>6

(* Fewer requests, and shorter lists. *)
LEMMA HolderShrinkStep ==
    ASSUME HolderIInv, autohold' \subseteq autohold, UNCHANGED <<lastId, asked, listedUpTo>>,
           toRemove' \in [User -> SUBSET Nat], \A u \in User : toRemove'[u] \subseteq toRemove[u]
    PROVE  HolderIInv'
  <1> USE DEF HolderIInv
  <1>1. HolderIdInv'
    BY DEF HolderIdInv
  <1>2. HolderListInv'
    BY DEF HolderListInv
  <1>3. DeletionHitsOnlyWhatItListed'
    BY DEF DeletionHitsOnlyWhatItListed
  <1>4. QED
    BY <1>1, <1>2, <1>3

LEMMA RemovingStep ==
    ASSUME HolderIInv, NEW u \in User, Removing(u)
    PROVE  HolderIInv'
  <1>1. PICK i \in 1..MaxHold : RemoveHold(u, i) \/ RemoveRaises(u, i)
    BY DEF Removing
  <1>2. autohold' \subseteq autohold /\ UNCHANGED <<lastId, asked, listedUpTo>>
    BY <1>1 DEF RemoveHold, RemoveRaises
  <1>3. /\ toRemove' \in [User -> SUBSET Nat]
        /\ \A v \in User : toRemove'[v] \subseteq toRemove[v]
    BY <1>1 DEF RemoveHold, RemoveRaises, HolderIInv, HolderListInv
  <1>4. QED
    BY <1>2, <1>3, HolderShrinkStep

LEMMA HolderNextIInv ==
    ASSUME HolderIInv, [HolderNext]_holderVars
    PROVE  HolderIInv'
  <1>1. CASE \E u \in User, g \in Gerrit, c \in Change : AddNode(u, g, c) \/ ListForPatch(u, g, c)
    BY <1>1, AddNodeStep, ListForPatchStep
  <1>2. CASE \E u \in User, h \in autohold : ListForId(u, h)
    BY <1>2, ListForIdStep
  <1>3. CASE \E u \in User : Removing(u)
    BY <1>3, RemovingStep
  <1>4. CASE HoldExpires \/ UNCHANGED holderVars
    <2>1. autohold' \subseteq autohold /\ UNCHANGED <<lastId, toRemove, asked, listedUpTo>>
      BY <1>4 DEF HoldExpires, holderVars
    <2>2. toRemove' \in [User -> SUBSET Nat] /\ \A u \in User : toRemove'[u] \subseteq toRemove[u]
      BY <2>1 DEF HolderIInv, HolderListInv
    <2>3. QED
      BY <2>1, <2>2, HolderShrinkStep
  <1>5. QED
    BY <1>1, <1>2, <1>3, <1>4 DEF HolderNext

(* However many engineers add and delete at once, a deletion only ever hits *)
(* requests that were there, and matched, when it made its list.            *)
THEOREM DeletionKeepsToItsList == HolderSpec => []DeletionHitsOnlyWhatItListed
  <1>1. HolderIInv => DeletionHitsOnlyWhatItListed
    BY DEF HolderIInv
  <1>2. QED
    BY <1>1, HolderInitIInv, HolderNextIInv, PTL DEF HolderSpec
(***************************************************************************)
(* copy-quay.  A run that has a promoted hash has one that was promoted    *)
(* when it started; one that has none says so in unknownHash.              *)
(***************************************************************************)
QuayTypeInv ==
    /\ built \in Hash /\ promotedHash \in Nat /\ tagToPull \in Hash
    /\ buildLog \in SUBSET Image
    /\ hashTag \in [Image -> SUBSET Hash]
    /\ currentTag \in [Image -> Nat]
    /\ tagging \in [TagRun -> SUBSET Image]
    /\ tagHash \in [TagRun -> Nat]

(* Additions, lists and deletions keep the types: an id is one of those given. *)
LEMMA HolderTypeInit == HolderInit => HolderTypeOK
  BY NodeHolderAssumption DEF HolderInit, HolderTypeOK

LEMMA HolderTypeStep ==
    ASSUME HolderTypeOK, [HolderNext]_holderVars
    PROVE  HolderTypeOK'
  <1> USE NodeHolderAssumption DEF HolderTypeOK
  <1>1. ASSUME NEW u \in User, NEW g \in Gerrit, NEW c \in Change, AddNode(u, g, c)
        PROVE  HolderTypeOK'
    <2>1. PICK j \in Job :
             autohold' = autohold \cup {[id |-> lastId + 1, tenant |-> g, change |-> c, job |-> j]}
      <3>1. \A passed \in {{}} \cup {{j} : j \in Job} : JobToHold(c, passed) \subseteq Job
        BY DEF JobToHold
      <3>2. QED
        BY <1>1, <3>1 DEF AddNode
    <2>2. lastId + 1 \in 1..MaxHold
      BY <1>1 DEF AddNode
    <2>3. QED
      BY <1>1, <2>1, <2>2 DEF AddNode, Hold
  <1>2. ASSUME NEW u \in User, NEW g \in Gerrit, NEW c \in Change, ListForPatch(u, g, c)
        PROVE  HolderTypeOK'
    <2>1. \A h \in autohold : h.id \in 1..MaxHold
      BY DEF Hold
    <2>2. {h.id : h \in {x \in autohold : x.tenant = g /\ <<c, x.change>> \in NumberIn}}
             \in SUBSET (1..MaxHold)
      BY <2>1
    <2>3. QED
      BY <1>2, <2>2 DEF ListForPatch
  <1>3. ASSUME NEW u \in User, NEW h \in autohold, ListForId(u, h)
        PROVE  HolderTypeOK'
    BY <1>3 DEF ListForId, Hold
  <1>4. ASSUME NEW u \in User, NEW i \in 1..MaxHold, RemoveHold(u, i) \/ RemoveRaises(u, i)
        PROVE  HolderTypeOK'
    BY <1>4 DEF RemoveHold, RemoveRaises
  <1>5. CASE HoldExpires
    BY <1>5 DEF HoldExpires
  <1>6. CASE UNCHANGED holderVars
    BY <1>6 DEF holderVars
  <1>7. QED
    BY <1>1, <1>2, <1>3, <1>4, <1>5, <1>6 DEF HolderNext, Removing

QuayHashInv ==
    \A r \in TagRun :
        /\ tagHash[r] <= promotedHash
        /\ tagging[r] # {} /\ tagHash[r] = NoHash => unknownHash

QuayIInv == QuayTypeInv /\ QuayHashInv /\ CurrentWasPromoted

LEMMA QuayInitIInv == CopyQuayInit => QuayIInv
  <1> SUFFICES ASSUME CopyQuayInit PROVE QuayIInv
    OBVIOUS
  <1>1. QuayTypeInv
    BY CopyQuayAssumption DEF CopyQuayInit, QuayTypeInv, Hash, NoHash
  <1>2. QuayHashInv
    BY DEF CopyQuayInit, QuayHashInv, NoHash
  <1>3. CurrentWasPromoted
    BY DEF CopyQuayInit, CurrentWasPromoted
  <1>4. QED
    BY <1>1, <1>2, <1>3 DEF QuayIInv

(* Builds, promotions and copies take no tag away. *)
LEMMA CopyStepIInv ==
    ASSUME QuayIInv, NewBuild \/ DlrnPromotes \/ CopyStep
    PROVE  QuayIInv'
  <1> USE DEF QuayIInv, quayVars, ciVars, copyVars, tagVars
  <1>1. /\ promotedHash' \in Nat /\ promotedHash <= promotedHash'
        /\ hashTag' \in [Image -> SUBSET Hash]
        /\ \A i \in Image : hashTag[i] \subseteq hashTag'[i]
        /\ built' \in Hash /\ buildLog' \in SUBSET Image /\ tagToPull' \in Hash
        /\ UNCHANGED <<currentTag, tagging, tagHash, unknownHash>>
    <2>1. CASE NewBuild
      BY <2>1, CopyQuayAssumption DEF NewBuild, QuayTypeInv, Hash
    <2>2. CASE DlrnPromotes
      BY <2>2 DEF DlrnPromotes, QuayTypeInv, Hash
    <2>3. CASE CopyStep
      BY <2>3 DEF CopyStep, StartCopy, CopyImage, CopyFails, QuayTypeInv
    <2>4. QED
      BY <2>1, <2>2, <2>3
  <1>2. QuayTypeInv'
    BY <1>1 DEF QuayTypeInv
  <1>3. QuayHashInv'
    BY <1>1 DEF QuayTypeInv, QuayHashInv
  <1>4. CurrentWasPromoted'
    BY <1>1 DEF QuayTypeInv, CurrentWasPromoted
  <1>5. QED
    BY <1>2, <1>3, <1>4

LEMMA StartTagStep ==
    ASSUME QuayIInv, NEW r \in TagRun, StartTag(r)
    PROVE  QuayIInv'
  <1> USE DEF QuayIInv, quayVars, ciVars, copyVars
  <1>1. PICK h \in {promotedHash, NoHash}, images \in {buildLog, {}} :
           /\ tagHash' = [tagHash EXCEPT ![r] = h]
           /\ tagging' = [tagging EXCEPT ![r] = images]
           /\ unknownHash' = (unknownHash \/ h = NoHash)
    BY DEF StartTag
  <1>2. UNCHANGED <<ciVars, quayVars, copyVars>>
    BY DEF StartTag
  <1>3. h \in Nat /\ h <= promotedHash
    BY DEF QuayTypeInv, NoHash
  <1>4. QuayTypeInv'
    BY <1>1, <1>2, <1>3 DEF QuayTypeInv
  <1>5. unknownHash => unknownHash'
    BY <1>1
  <1>6. tagHash'[r] = NoHash => unknownHash'
    BY <1>1 DEF QuayTypeInv
  <1>7. QuayHashInv'
    <2>1. \A q \in TagRun : q # r => tagging'[q] = tagging[q] /\ tagHash'[q] = tagHash[q]
      BY <1>1, <1>2 DEF QuayTypeInv
    <2>2. tagHash'[r] <= promotedHash'
      BY <1>1, <1>2, <1>3 DEF QuayTypeInv
    <2>3. promotedHash' = promotedHash
      BY <1>2
    <2>4. ASSUME NEW q \in TagRun
          PROVE  /\ tagHash'[q] <= promotedHash'
                 /\ tagging'[q] # {} /\ tagHash'[q] = NoHash => unknownHash'
      <3>1. CASE q = r
        BY <1>6, <2>2, <3>1
      <3>2. CASE q # r
        BY <1>5, <2>1, <2>3, <3>2 DEF QuayHashInv
      <3>3. QED
        BY <3>1, <3>2
    <2>5. QED
      BY <2>4 DEF QuayHashInv
  <1>8. CurrentWasPromoted'
    BY <1>2, <1>5, Zenon DEF CurrentWasPromoted
  <1>9. QED
    BY <1>4, <1>7, <1>8

(* A tag of the hash of the run, or any that the image has. *)
LEMMA TagImageStep ==
    ASSUME QuayIInv, NEW r \in TagRun, NEW i \in Image, TagImage(r, i)
    PROVE  QuayIInv'
  <1> USE DEF QuayIInv, copyVars, ciVars
  <1>1. /\ tagging' = [tagging EXCEPT ![r] = @ \ {i}]
        /\ UNCHANGED <<ciVars, repository, hashTag, copyVars, tagHash, unknownHash>>
    BY DEF TagImage
  <1>2. QuayHashInv'
    BY <1>1 DEF QuayTypeInv, QuayHashInv
  <1>3. CASE UNCHANGED currentTag
    BY <1>1, <1>2, <1>3 DEF QuayTypeInv, CurrentWasPromoted
  <1>4. CASE \E hash \in ImageManifest(i, tagHash[r]) :
               currentTag' = [currentTag EXCEPT ![i] = hash]
    <2>1. PICK hash \in ImageManifest(i, tagHash[r]) :
                 currentTag' = [currentTag EXCEPT ![i] = hash]
      BY <1>4
    <2>2. hash \in hashTag[i]
      BY <2>1 DEF ImageManifest, CurrentWasPromoted
    <2>3. hash \in Nat
      BY <2>2, CopyQuayAssumption DEF QuayTypeInv, Hash
    <2>4. hash <= promotedHash \/ unknownHash
      <3>1. tagging[r] # {}
        BY DEF TagImage
      <3>2. CASE tagHash[r] = NoHash
        BY <3>1, <3>2 DEF QuayHashInv
      <3>3. CASE tagHash[r] # NoHash
        BY <2>1, <3>3 DEF ImageManifest, QuayHashInv
      <3>4. QED
        BY <3>2, <3>3
    <2>5. QuayTypeInv'
      BY <1>1, <2>1, <2>3 DEF QuayTypeInv
    <2>6. CurrentWasPromoted'
      <3>1. \A k \in Image : k # i => currentTag'[k] = currentTag[k]
        BY <2>1 DEF QuayTypeInv
      <3>2. currentTag'[i] = hash
        BY <2>1 DEF QuayTypeInv
      <3>3. UNCHANGED <<hashTag, promotedHash, unknownHash>>
        BY <1>1
      <3>4. QED
        BY <2>2, <2>4, <3>1, <3>2, <3>3, Zenon DEF CurrentWasPromoted
    <2>7. QED
      BY <1>2, <2>5, <2>6
  <1>5. QED
    BY <1>3, <1>4 DEF TagImage

LEMMA TagFailsStep ==
    ASSUME QuayIInv, NEW r \in TagRun, NEW i \in Image, TagFails(r, i)
    PROVE  QuayIInv'
  <1> USE DEF QuayIInv, TagFails, ciVars, quayVars, copyVars
  <1>1. QuayTypeInv'
    BY DEF QuayTypeInv
  <1>2. QuayHashInv'
    BY DEF QuayTypeInv, QuayHashInv
  <1>3. CurrentWasPromoted'
    BY DEF CurrentWasPromoted
  <1>4. QED
    BY <1>1, <1>2, <1>3

LEMMA QuayNextIInv ==
    ASSUME QuayIInv, [CopyQuayNext]_copyQuayVars
    PROVE  QuayIInv'
  <1>1. CASE NewBuild \/ DlrnPromotes \/ CopyStep
    BY <1>1, CopyStepIInv
  <1>2. CASE \E r \in TagRun : TagStep(r)
    BY <1>2, StartTagStep, TagImageStep, TagFailsStep DEF TagStep
  <1>3. CASE UNCHANGED copyQuayVars
    BY <1>3 DEF copyQuayVars, ciVars, quayVars, copyVars, tagVars, QuayIInv, QuayTypeInv,
                QuayHashInv, CurrentWasPromoted
  <1>4. QED
    BY <1>1, <1>2, <1>3 DEF CopyQuayNext

(* current-tripleo is on images that were copied under their hash, and, but *)
(* for a run that went on without one, only of hashes DLRN had promoted.    *)
THEOREM CurrentIsPromoted == CopyQuaySpec => []CurrentWasPromoted
  <1>1. QuayIInv => CurrentWasPromoted
    BY DEF QuayIInv
  <1>2. QED
    BY <1>1, QuayInitIInv, QuayNextIInv, PTL DEF CopyQuaySpec

(* Copies and tags keep the types, whatever hash a run was started with. *)
LEMMA CopyQuayTypeInit == CopyQuayInit => CopyQuayTypeOK
  <1> SUFFICES ASSUME CopyQuayInit PROVE CopyQuayTypeOK
    OBVIOUS
  <1>1. 0 \in 0..MaxHash /\ 0 \in 0..MaxQuayFaults /\ 1 \in Hash
    BY CopyQuayAssumption DEF Hash
  <1>2. unknownHash \in BOOLEAN
    BY DEF CopyQuayInit
  <1>3. /\ hashTag \in [Image -> SUBSET Hash] /\ currentTag \in [Image -> 0..MaxHash]
        /\ tagging \in [TagRun -> SUBSET Image] /\ tagHash \in [TagRun -> 0..MaxHash]
    BY <1>1 DEF CopyQuayInit, NoHash
  <1>4. QED
    BY <1>1, <1>2, <1>3 DEF CopyQuayInit, CopyQuayTypeOK, NoHash

LEMMA CopyQuayTypeStep ==
    ASSUME CopyQuayTypeOK, [CopyQuayNext]_copyQuayVars
    PROVE  CopyQuayTypeOK'
  <1> USE CopyQuayAssumption DEF CopyQuayTypeOK, ciVars, quayVars, copyVars, tagVars
  <1>0. QuayFault => quayFaults' \in 0..MaxQuayFaults
    BY DEF QuayFault
  <1>1. CASE NewBuild
    BY <1>1 DEF NewBuild, Hash
  <1>2. CASE DlrnPromotes
    BY <1>2 DEF DlrnPromotes, Hash
  <1>3. CASE CopyStep
    BY <1>0, <1>3 DEF CopyStep, StartCopy, CopyImage, CopyFails
  <1>4. ASSUME NEW r \in TagRun, StartTag(r)
        PROVE  CopyQuayTypeOK'
    <2>1. PICK h \in {promotedHash, NoHash}, images \in {buildLog, {}} :
             /\ tagHash' = [tagHash EXCEPT ![r] = h]
             /\ tagging' = [tagging EXCEPT ![r] = images]
             /\ unknownHash' = (unknownHash \/ h = NoHash)
      BY <1>4 DEF StartTag
    <2>2. unknownHash' \in BOOLEAN
      BY <2>1, Zenon
    <2>3. tagHash' \in [TagRun -> 0..MaxHash] /\ tagging' \in [TagRun -> SUBSET Image]
      BY <2>1 DEF NoHash
    <2>4. quayFaults' \in 0..MaxQuayFaults
      BY <1>0, <1>4 DEF StartTag
    <2>5. QED
      BY <1>4, <2>2, <2>3, <2>4 DEF StartTag
  <1>5. ASSUME NEW r \in TagRun, NEW i \in Image, TagImage(r, i)
        PROVE  CopyQuayTypeOK'
    <2>1. ImageManifest(i, tagHash[r]) \subseteq 0..MaxHash
      BY DEF ImageManifest, Hash
    <2>2. currentTag' \in [Image -> 0..MaxHash]
      BY <1>5, <2>1 DEF TagImage
    <2>3. QED
      BY <1>5, <2>2 DEF TagImage
  <1>6. ASSUME NEW r \in TagRun, NEW i \in Image, TagFails(r, i)
        PROVE  CopyQuayTypeOK'
    BY <1>0, <1>6 DEF TagFails
  <1>7. CASE UNCHANGED copyQuayVars
    BY <1>7 DEF copyQuayVars
  <1>8. QED
    BY <1>1, <1>2, <1>3, <1>4, <1>5, <1>6, <1>7 DEF CopyQuayNext, TagStep

(***************************************************************************)
(* Staging.  What a teardown has taken down, by the step it has come to.   *)
(***************************************************************************)
StageTypeInv ==
    /\ standing \subseteq Registries \cup Directories
    /\ dlrnServer \in {"down", "up", "killed"}
    /\ stageStep \in 1..7
    /\ command \in {"none", "setup", "teardown"}
    /\ command = "setup" => stageStep <= 6

StageLeftInv ==
    /\ ~Dlrn => dlrnServer = "down"
    /\ scenes \cap {"registries", "containers"} = {} => standing \cap Registries = {}
    /\ command # "none" => ~tornDown
    /\ command = "teardown" =>
          /\ stageStep > 2 => dlrnServer # "up"
          /\ stageStep > 3 /\ "registries" \in scenes => standing \cap Registries = {}
          /\ stageStep > 6 => standing \cap Directories = {}

StageIInv == StageTypeInv /\ StageLeftInv /\ TeardownIsComplete

(* Which step a command is at. *)
LEMMA SettingAt ==
    ASSUME StageTypeInv
    PROVE  /\ Setting("dlrn") => stageStep = 1
           /\ Setting("commits") => stageStep = 2
           /\ Setting("registries") => stageStep = 3
           /\ Setting("containers") => stageStep = 4
           /\ Setting("overcloud_images") => stageStep = 5
  BY DEF Setting, SetupSteps, StageTypeInv

LEMMA TearingAt ==
    ASSUME StageTypeInv
    PROVE  /\ Tearing("stage_info") => stageStep = 1
           /\ Tearing("dlrn") => stageStep = 2
           /\ Tearing("registries") => stageStep = 3
           /\ Tearing("containers") => stageStep = 4
           /\ Tearing("overcloud_images") => stageStep = 5
           /\ Tearing("stage_root") => stageStep = 6
           /\ Tearing("unlink") => stageStep = 7
  BY DEF Tearing, TeardownSteps, StageTypeInv

LEMMA StageInitIInv == StagingInit => StageIInv
  <1> SUFFICES ASSUME StagingInit PROVE StageIInv
    OBVIOUS
  <1>1. StageTypeInv /\ StageLeftInv
    BY DEF StagingInit, StageTypeInv, StageLeftInv
  <1>2. TeardownIsComplete
    BY DEF StagingInit, TeardownIsComplete
  <1>3. QED
    BY <1>1, <1>2 DEF StageIInv

LEMMA StartStageStep ==
    ASSUME StageIInv, NEW c \in {"setup", "teardown"}, StartStage(c)
    PROVE  StageIInv'
  <1> USE DEF StartStage, StageIInv, configVars
  <1>1. StageTypeInv'
    BY DEF StageTypeInv, Directories
  <1>2. StageLeftInv'
    BY DEF StageLeftInv, Registries, Dlrn
  <1>3. TeardownIsComplete'
    BY DEF TeardownIsComplete
  <1>4. QED
    BY <1>1, <1>2, <1>3

(* A setup only makes what the scenes ask for. *)
LEMMA SetupStep ==
    ASSUME StageIInv,
           \/ SetupDlrn \/ StageCommits \/ StageAggregates \/ SetupRegistries
           \/ SetupContainers \/ SetupImages \/ WriteStageInfo
    PROVE  StageIInv'
  <1> USE DEF StageIInv, configVars
  <1>1. /\ command = "setup" /\ UNCHANGED <<configVars, tornDown>>
        /\ \/ stageStep' = 1 /\ command' = "none"
           \/ stageStep < 6 /\ stageStep' = stageStep + 1 /\ command' = "setup"
    BY SettingAt DEF SetupDlrn, StageCommits, StageAggregates, SetupRegistries, SetupContainers,
          SetupImages, SetupTree, WriteStageInfo, Setting, Advance, EndCommand
  <1>2. /\ standing' \subseteq Registries \cup Directories
        /\ standing' \cap Registries # standing \cap Registries =>
               scenes \cap {"registries", "containers"} # {}
    BY DEF StageTypeInv, SetupDlrn, StageCommits, StageAggregates, SetupRegistries,
          SetupContainers, SetupImages, SetupTree, WriteStageInfo, Root, Registries, Directories
  <1>3. /\ ~Dlrn => dlrnServer' = dlrnServer
        /\ dlrnServer' = dlrnServer \/ dlrnServer' = "up"
    BY DEF SetupDlrn, StageCommits, StageAggregates, SetupRegistries,
          SetupContainers, SetupImages, SetupTree, WriteStageInfo
  <1>4. StageTypeInv'
    BY <1>1, <1>2, <1>3 DEF StageTypeInv
  <1>5. StageLeftInv'
    BY <1>1, <1>2, <1>3 DEF StageLeftInv, Dlrn
  <1>6. TeardownIsComplete'
    BY <1>1 DEF StageLeftInv, TeardownIsComplete
  <1>7. QED
    BY <1>4, <1>5, <1>6

(* A teardown goes on to its next step or ends, and makes nothing.          *)
LEMMA TeardownStep ==
    ASSUME StageIInv,
           \/ ReadStageInfo \/ TeardownDlrn \/ TeardownRegistries
           \/ TeardownContainers \/ TeardownImages \/ RemoveStageRoot
    PROVE  StageIInv'
  <1> USE DEF StageIInv, configVars
  <1>1. /\ command = "teardown" /\ UNCHANGED <<configVars, tornDown>>
        /\ \/ stageStep' = 1 /\ command' = "none"
           \/ stageStep < 7 /\ stageStep' = stageStep + 1 /\ command' = "teardown"
    BY TearingAt DEF ReadStageInfo, TeardownDlrn, TeardownRegistries, TeardownContainers,
          TeardownImages, TeardownTree, RemoveStageRoot, Tearing, Advance, EndCommand
  <1>2. standing' \subseteq standing /\ dlrnServer' \in {dlrnServer, "killed"}
    BY DEF ReadStageInfo, TeardownDlrn, TeardownRegistries, TeardownContainers,
          TeardownImages, TeardownTree, RemoveStageRoot
  <1>3. ~Dlrn => dlrnServer' = dlrnServer
    BY DEF ReadStageInfo, TeardownDlrn, TeardownRegistries, TeardownContainers,
          TeardownImages, TeardownTree, RemoveStageRoot
  <1>4. stageStep = 2 => dlrnServer' # "up"
    BY TearingAt DEF StageLeftInv, ReadStageInfo, TeardownDlrn, TeardownRegistries,
          TeardownContainers, TeardownImages, TeardownTree, RemoveStageRoot
  <1>5. stageStep = 3 /\ "registries" \in scenes => standing' \cap Registries = {}
    BY TearingAt DEF ReadStageInfo, TeardownDlrn, TeardownRegistries,
          TeardownContainers, TeardownImages, TeardownTree, RemoveStageRoot
  <1>6. stageStep = 6 => standing' \cap Directories = {}
    BY TearingAt DEF ReadStageInfo, TeardownDlrn, TeardownRegistries,
          TeardownContainers, TeardownImages, TeardownTree, RemoveStageRoot
  <1>7. StageTypeInv'
    BY <1>1, <1>2 DEF StageTypeInv
  <1>8. StageLeftInv'
    BY <1>1, <1>2, <1>3, <1>4, <1>5, <1>6 DEF StageTypeInv, StageLeftInv, Dlrn
  <1>9. TeardownIsComplete'
    BY <1>1 DEF StageLeftInv, TeardownIsComplete
  <1>10. QED
    BY <1>7, <1>8, <1>9

LEMMA UnlinkStageInfoStep ==
    ASSUME StageIInv, UnlinkStageInfo
    PROVE  StageIInv'
  <1> USE DEF UnlinkStageInfo, StageIInv, configVars
  <1>1. command = "teardown" /\ stageStep = 7
    BY TearingAt DEF Tearing
  <1>2. command' = "none" /\ stageStep' = 1
    BY DEF EndCommand
  <1>3. StageTypeInv' /\ StageLeftInv'
    BY <1>2 DEF StageTypeInv, StageLeftInv, Dlrn
  <1>4. TeardownIsComplete'
    BY <1>1 DEF StageTypeInv, StageLeftInv, TeardownIsComplete
  <1>5. QED
    BY <1>3, <1>4

LEMMA StageEndsStep ==
    ASSUME StageIInv, CommandCutOff \/ ServerExits \/ UNCHANGED stageVars
    PROVE  StageIInv'
  <1> USE DEF StageIInv, configVars
  <1>1. CASE CommandCutOff
    <2>1. StageTypeInv' /\ StageLeftInv'
      BY <1>1 DEF CommandCutOff, EndCommand, StageTypeInv, StageLeftInv, Dlrn
    <2>2. TeardownIsComplete'
      BY <1>1 DEF CommandCutOff, StageLeftInv, TeardownIsComplete
    <2>3. QED
      BY <2>1, <2>2
  <1>2. CASE ServerExits
    <2>1. StageTypeInv' /\ StageLeftInv'
      BY <1>2 DEF ServerExits, StageTypeInv, StageLeftInv, Dlrn
    <2>2. TeardownIsComplete'
      BY <1>2 DEF ServerExits, TeardownIsComplete
    <2>3. QED
      BY <2>1, <2>2
  <1>3. CASE UNCHANGED stageVars
    BY <1>3 DEF stageVars, StageTypeInv, StageLeftInv, TeardownIsComplete, Dlrn
  <1>4. QED
    BY <1>1, <1>2, <1>3

LEMMA StageNextIInv ==
    ASSUME StageIInv, [StagingNext]_stageVars
    PROVE  StageIInv'
  BY StartStageStep, SetupStep, TeardownStep, UnlinkStageInfoStep, StageEndsStep
     DEF StagingNext, StageCommand

(* A teardown that ends has left nothing, however many commands were cut    *)
(* off before it, but registries started for the containers.                *)
THEOREM TeardownLeavesNothing == StagingSpec => []TeardownIsComplete
  <1>1. StageIInv => TeardownIsComplete
    BY DEF StageIInv
  <1>2. QED
    BY <1>1, StageInitIInv, StageNextIInv, PTL DEF StagingSpec

(* Setup and teardown keep the types: neither goes beyond its last step. *)
LEMMA StagingTypeInit == StagingInit => StagingTypeOK
  <1> SUFFICES ASSUME StagingInit PROVE StagingTypeOK
    OBVIOUS
  <1>1. stageFaults \in 0..MaxStageFaults /\ stageStep \in 1..7
    BY StagingAssumption DEF StagingInit
  <1>2. /\ stageInfo \in BOOLEAN /\ tornDown \in BOOLEAN /\ cutOff \in BOOLEAN
        /\ respawned \in BOOLEAN /\ componentsMode \in BOOLEAN
    BY DEF StagingInit
  <1>3. QED
    BY <1>1, <1>2 DEF StagingInit, StagingTypeOK

LEMMA StagingTypeStep ==
    ASSUME StageIInv, StagingTypeOK, [StagingNext]_stageVars
    PROVE  StagingTypeOK'
  <1>1. /\ standing' \in SUBSET (Registries \cup Directories)
        /\ dlrnServer' \in {"down", "up", "killed"}
        /\ command' \in {"none", "setup", "teardown"}
        /\ stageStep' \in 1..7
    BY StageNextIInv DEF StageIInv, StageTypeInv
  <1> USE DEF StagingTypeOK, configVars, Cut, Uncut
  <1>2. ASSUME NEW c \in {"setup", "teardown"}, StartStage(c)
        PROVE  StagingTypeOK'
    <2>1. cutOff' \in BOOLEAN /\ respawned' \in BOOLEAN
      BY <1>2, Zenon DEF StartStage
    <2>2. QED
      BY <1>1, <1>2, <2>1 DEF StartStage
  <1>3. CASE StageCommand \/ ServerExits
    <2>1. /\ UNCHANGED <<configVars, respawned>>
          /\ stageInfo' \in {stageInfo, TRUE, FALSE}
          /\ tornDown' \in {tornDown, TRUE}
          /\ cutOff' \in {cutOff, TRUE}
          /\ commits' \in {commits, "none", "some", "all"}
          /\ \/ stageFaults' = stageFaults
             \/ stageFaults < MaxStageFaults /\ stageFaults' = stageFaults + 1
      BY <1>3 DEF StageCommand, SetupDlrn, StageCommits, StageAggregates, SetupRegistries,
         SetupContainers, SetupImages, SetupTree, WriteStageInfo, ReadStageInfo, TeardownDlrn,
         TeardownRegistries, TeardownContainers, TeardownImages, TeardownTree, RemoveStageRoot,
         UnlinkStageInfo, CommandCutOff, ServerExits
    <2>2. stageInfo' \in BOOLEAN /\ tornDown' \in BOOLEAN /\ cutOff' \in BOOLEAN
          /\ respawned' \in BOOLEAN /\ componentsMode' \in BOOLEAN
      BY <2>1, Zenon
    <2>3. stageFaults' \in 0..MaxStageFaults
      BY <2>1, StagingAssumption
    <2>4. commits' \in {"none", "some", "all"} /\ scenes' \in SUBSET Scene
      BY <2>1
    <2>5. QED
      BY <1>1, <2>2, <2>3, <2>4
  <1>4. CASE UNCHANGED stageVars
    BY <1>4 DEF stageVars
  <1>5. QED
    BY <1>2, <1>3, <1>4 DEF StagingNext

-----------------------------------------------------------------------------
(* What a stage serves and what its teardown will find, as long as no       *)
(* command was cut off: a setup has done its steps, a teardown not yet.     *)

HasTree(scene) == scene \in scenes => Root(scene) \in standing

TreesInv ==
    ~cutOff =>
        /\ command = "none" /\ stageInfo =>
              HasTree("containers") /\ HasTree("overcloud_images")
        /\ command = "setup" =>
              /\ stageStep > 4 => HasTree("containers")
              /\ stageStep > 5 => HasTree("overcloud_images")
        /\ command = "teardown" /\ (stageStep = 1 => stageInfo) =>
              /\ stageStep <= 4 => HasTree("containers")
              /\ stageStep <= 5 => HasTree("overcloud_images")

ServesInv ==
    ~cutOff /\ ~respawned /\ Dlrn =>
        /\ command = "none" /\ stageInfo => dlrnServer = "up" /\ commits = "all"
        /\ command = "setup" =>
              /\ dlrnServer # "killed"
              /\ stageStep > 1 => dlrnServer = "up"
              /\ stageStep > 2 => commits = "all"

(* No other step works at these places.                                     *)
LEMMA LastStepsAt ==
    ASSUME StageTypeInv
    PROVE  Setting("stage_info") => stageStep = 6
  BY DEF Setting, SetupSteps, StageTypeInv

LEMMA StartStageServes ==
    ASSUME StageTypeInv, TreesInv, ServesInv,
           NEW c \in {"setup", "teardown"}, StartStage(c)
    PROVE  TreesInv' /\ ServesInv'
  <1>1. /\ command = "none" /\ command' = c /\ stageStep' = 1
        /\ standing \subseteq standing'
        /\ UNCHANGED <<configVars, dlrnServer, commits, stageInfo>>
    BY DEF StartStage
  <1>2. c = "teardown" /\ ~cutOff' => ~cutOff
    BY Zenon DEF StartStage
  <1>3. c = "setup" /\ ~respawned' => dlrnServer # "killed"
    BY Zenon DEF StartStage
  <1>4. TreesInv'
    BY <1>1, <1>2 DEF TreesInv, HasTree, configVars
  <1>5. ServesInv'
    BY <1>1, <1>3 DEF ServesInv
  <1>6. QED
    BY <1>4, <1>5

LEMMA SetupServes ==
    ASSUME StageTypeInv, TreesInv, ServesInv,
           \/ SetupDlrn \/ StageCommits \/ StageAggregates \/ SetupRegistries
           \/ SetupContainers \/ SetupImages \/ WriteStageInfo
    PROVE  TreesInv' /\ ServesInv'
  <1> USE DEF configVars
  <1>1. CASE SetupDlrn \/ StageCommits \/ StageAggregates
    <2>1. /\ stageStep \in 1..2 /\ command = "setup" /\ UNCHANGED <<scenes, standing>>
          /\ \/ command' = "setup" /\ stageStep' = stageStep + 1
             \/ cutOff'
      BY <1>1, SettingAt
         DEF SetupDlrn, StageCommits, StageAggregates, Setting, Advance, EndCommand, Cut
    <2>2. TreesInv'
      BY <2>1 DEF TreesInv
    <2>3. ServesInv'
      <3>1. CASE SetupDlrn
        <4>1. /\ command = "setup" /\ UNCHANGED <<configVars, respawned>>
              /\ \/ /\ stageStep' = 2 /\ command' = "setup" /\ cutOff' = cutOff
                    /\ Dlrn => dlrnServer' = IF dlrnServer = "down" THEN "up"
                                                                  ELSE dlrnServer
                 \/ cutOff'
          BY <3>1, SettingAt
             DEF SetupDlrn, Setting, Advance, EndCommand, Cut, Uncut
        <4>2. QED
          BY <4>1 DEF ServesInv, Dlrn, StageTypeInv
      <3>2. CASE StageCommits
        BY <3>2, SettingAt DEF ServesInv, Dlrn, StageCommits, Setting, Advance
      <3>3. CASE StageAggregates
        BY <3>3, SettingAt DEF ServesInv, Dlrn, StageAggregates, Setting, Advance,
               EndCommand, Cut, Uncut
      <3>4. QED
        BY <1>1, <3>1, <3>2, <3>3
    <2>4. QED
      BY <2>2, <2>3
  <1>2. CASE SetupRegistries
    <2>1. /\ stageStep = 3 /\ command = "setup" /\ standing \subseteq standing'
          /\ \/ command' = "setup" /\ stageStep' = 4 /\ cutOff' = cutOff
             \/ cutOff'
          /\ UNCHANGED <<configVars, dlrnServer, commits, stageInfo, tornDown, respawned>>
      BY <1>2, SettingAt DEF SetupRegistries, Setting, Advance, EndCommand, Cut, Uncut
    <2>2. QED
      BY <2>1 DEF TreesInv, ServesInv, Dlrn
  <1>3. CASE SetupContainers \/ SetupImages
    <2>1. /\ command = "setup" /\ command' = "setup" /\ stageStep' = stageStep + 1
          /\ standing \subseteq standing'
          /\ \/ stageStep = 4 /\ HasTree("containers")'
             \/ stageStep = 5 /\ HasTree("overcloud_images")'
          /\ UNCHANGED <<configVars, dlrnServer, commits, stageInfo, cutOff, respawned>>
      BY <1>3, SettingAt
         DEF SetupContainers, SetupImages, SetupTree, Setting, Advance, HasTree
    <2>2. TreesInv'
      BY <2>1 DEF TreesInv, HasTree
    <2>3. ServesInv'
      BY <2>1 DEF ServesInv, Dlrn
    <2>4. QED
      BY <2>2, <2>3
  <1>4. CASE WriteStageInfo
    <2>1. /\ stageStep = 6 /\ command = "setup" /\ command' = "none"
          /\ UNCHANGED <<configVars, standing, dlrnServer, commits, cutOff, respawned>>
      BY <1>4, LastStepsAt DEF WriteStageInfo, Setting, EndCommand
    <2>2. QED
      BY <2>1 DEF TreesInv, ServesInv, HasTree, Dlrn
  <1>5. QED
    BY <1>1, <1>2, <1>3, <1>4

LEMMA TeardownServes ==
    ASSUME StageTypeInv, TreesInv, ServesInv,
           \/ ReadStageInfo \/ TeardownDlrn \/ TeardownRegistries
           \/ TeardownContainers \/ TeardownImages \/ RemoveStageRoot
           \/ UnlinkStageInfo
    PROVE  TreesInv' /\ ServesInv'
  <1> USE DEF configVars
  <1>1. CASE ReadStageInfo
    <2>1. /\ command = "teardown" /\ stageStep = 1
          /\ IF stageInfo THEN command' = "teardown" /\ stageStep' = 2
                          ELSE command' = "none"
          /\ UNCHANGED <<configVars, standing, dlrnServer, commits, stageInfo, cutOff,
                         respawned>>
      BY <1>1, TearingAt DEF ReadStageInfo, Tearing, Advance, EndCommand
    <2>2. QED
      BY <2>1 DEF TreesInv, ServesInv, HasTree, Dlrn
  <1>2. CASE TeardownDlrn \/ TeardownRegistries
    <2>1. /\ command = "teardown" /\ stageStep \in 2..3
          /\ command' = "teardown" /\ stageStep' = stageStep + 1
          /\ UNCHANGED <<configVars, cutOff>>
      BY <1>2, TearingAt DEF TeardownDlrn, TeardownRegistries, Tearing, Advance
    <2>2. \A scene \in {"containers", "overcloud_images"} :
              Root(scene) \in standing => Root(scene) \in standing'
      BY <1>2 DEF TeardownDlrn, TeardownRegistries, Registries, Root
    <2>3. TreesInv'
      BY <2>1, <2>2 DEF TreesInv, HasTree
    <2>4. ServesInv'
      BY <2>1 DEF ServesInv
    <2>5. QED
      BY <2>3, <2>4
  <1>3. CASE TeardownContainers \/ TeardownImages
    <2>1. ASSUME ~cutOff'
          PROVE  /\ command' = "teardown" /\ stageStep' = stageStep + 1
                 /\ stageStep = 4 => HasTree("overcloud_images")'
      BY <1>3, <2>1, TearingAt
         DEF TreesInv, HasTree, Root, TeardownContainers, TeardownImages, TeardownTree,
             Tearing, Advance, EndCommand
    <2>2. stageStep \in 4..5
      BY <1>3, TearingAt DEF TeardownContainers, TeardownImages, TeardownTree
    <2>3. TreesInv'
      BY <2>1, <2>2 DEF TreesInv
    <2>4. ServesInv'
      BY <2>1 DEF ServesInv
    <2>5. QED
      BY <2>3, <2>4
  <1>4. CASE RemoveStageRoot
    <2>1. stageStep' = 7 /\ command' = "teardown"
      BY <1>4, TearingAt DEF RemoveStageRoot, Tearing, Advance
    <2>2. QED
      BY <2>1 DEF TreesInv, ServesInv
  <1>5. CASE UnlinkStageInfo
    <2>1. command' = "none" /\ ~stageInfo'
      BY <1>5 DEF UnlinkStageInfo, EndCommand
    <2>2. QED
      BY <2>1 DEF TreesInv, ServesInv
  <1>6. QED
    BY <1>1, <1>2, <1>3, <1>4, <1>5

LEMMA StageEndServes ==
    ASSUME TreesInv, ServesInv, CommandCutOff \/ ServerExits \/ UNCHANGED stageVars
    PROVE  TreesInv' /\ ServesInv'
  <1>1. CASE CommandCutOff
    BY <1>1 DEF CommandCutOff, Cut, TreesInv, ServesInv
  <1>2. CASE ServerExits
    BY <1>2 DEF ServerExits, configVars, TreesInv, ServesInv, HasTree, Dlrn
  <1>3. CASE UNCHANGED stageVars
    BY <1>3 DEF stageVars, configVars, TreesInv, ServesInv, HasTree, Dlrn
  <1>4. QED
    BY <1>1, <1>2, <1>3

LEMMA StageServesInit == StagingInit => TreesInv /\ ServesInv
  BY DEF StagingInit, TreesInv, ServesInv

LEMMA StageServesStep ==
    ASSUME StageIInv, TreesInv, ServesInv, [StagingNext]_stageVars
    PROVE  TreesInv' /\ ServesInv'
  BY StartStageServes, SetupServes, TeardownServes, StageEndServes
     DEF StageIInv, StagingNext, StageCommand

LEMMA StageServesInvariant == StagingSpec => [](StageIInv /\ TreesInv /\ ServesInv)
  BY StageInitIInv, StageNextIInv, StageServesInit, StageServesStep, PTL DEF StagingSpec

LEMMA AnnouncedIsServing == ServesInv => AnnouncedStageServes
  BY DEF ServesInv, AnnouncedStageServes

(* A stage announced by its file is served: the DLRN server is up and has   *)
(* all the commits, unless a command was cut off or the setup took a killed *)
(* server for its own.                                                      *)
THEOREM AnnouncedIsServed == StagingSpec => []AnnouncedStageServes
  BY AnnouncedIsServing, StageServesInvariant, PTL

LEMMA TreesAreFound == StageIInv /\ TreesInv => TeardownFindsDirectories
  BY TearingAt DEF StageIInv, TreesInv, HasTree, Tearing, TeardownFindsDirectories

(* The teardown of a stage whose setup was not cut off never meets a        *)
(* directory that is missing, and so can come to its end.                   *)
THEOREM TeardownMeetsDirectories == StagingSpec => []TeardownFindsDirectories
  BY TreesAreFound, StageServesInvariant, PTL

(***************************************************************************)
(* Aggregates.  A batch replaces only the components it names, so a label  *)
(* names one aggregate, and no mixture, because builds only go forward:    *)
(* whatever the label had a component of, the batch has one of.            *)
(***************************************************************************)
(* The aggregates grow; what a label names was voted for. *)
VotedInv ==
    /\ votedFor \subseteq Repo
    /\ {targetRepo, previousRepo} \subseteq votedFor \cup {EmptyRepo}

AtMost(a, b) == \A c \in Component : a[c] <= b[c]

(* The label whose batch is at work. *)
LabelRepo == IF label = "previous" THEN previousRepo ELSE targetRepo

(* Previous is never ahead of target, and target not of the candidate.      *)
OrderInv ==
    /\ AtMost(previousRepo, targetRepo)
    /\ promoting # "idle" =>
          /\ dlrnHash \in votedFor
          /\ AtMost(targetRepo, dlrnHash)
          /\ SourceRepo \in votedFor
          /\ AtMost(LabelRepo, SourceRepo)

(* What the batch has of its aggregate, and all of it when it is posted.    *)
BatchInv ==
    /\ promoting = "commits" =>
          \A c \in Component : c \in components \/ batch[c] = SourceRepo[c]
    /\ promoting = "post" => batch = SourceRepo

AggregateIInv == AggregateTypeOK /\ VotedInv /\ OrderInv /\ BatchInv

-----------------------------------------------------------------------------
LEMMA EmptyIsRepo == EmptyRepo \in Repo
  BY AggregateAssumption DEF EmptyRepo, Repo, NoBuild

LEMMA SourceIsRepo == AggregateTypeOK => SourceRepo \in Repo
  BY DEF AggregateTypeOK, SourceRepo

LEMMA PromotedIsRepo ==
    ASSUME AggregateTypeOK, NEW repo \in Repo
    PROVE  Promoted(repo) \in Repo
  BY DEF AggregateTypeOK, Promoted, Repo

(* A batch that has all of its aggregate replaces all the label names. *)
LEMMA PromotedIsBatch ==
    ASSUME AggregateTypeOK, NEW repo \in Repo, AtMost(repo, batch)
    PROVE  Promoted(repo) = batch
  <1>1. batch \in Repo
    BY DEF AggregateTypeOK
  <1>2. \A c \in Component : batch[c] = NoBuild => repo[c] = batch[c]
    BY <1>1, AggregateAssumption DEF Repo, AtMost, NoBuild
  <1>3. Promoted(repo) = [c \in Component |-> batch[c]]
    BY <1>2 DEF Promoted
  <1>4. QED
    BY <1>1, <1>3 DEF Repo

LEMMA AggregateInitIInv == AggregateInit => AggregateIInv
  <1> SUFFICES ASSUME AggregateInit PROVE AggregateIInv
    OBVIOUS
  <1>1. AggregateTypeOK
    BY EmptyIsRepo, AggregateAssumption DEF AggregateInit, AggregateTypeOK
  <1>2. VotedInv
    BY DEF AggregateInit, VotedInv
  <1>3. AtMost(EmptyRepo, EmptyRepo)
    BY DEF AtMost, EmptyRepo, NoBuild
  <1>4. QED
    BY <1>1, <1>2, <1>3 DEF AggregateInit, AggregateIInv, OrderInv, BatchInv

(* The component pipeline and CI do not disturb a promotion. *)
LEMMA PromoteComponentStep ==
    ASSUME AggregateIInv, NEW c \in Component, PromoteComponent(c)
    PROVE  AggregateIInv'
  <1> USE DEF PromoteComponent, labelVars
  <1>1. candidateRepo' \in Repo
    <2>1. candidateRepo[c] + 1 \in 0..MaxBuild
      BY AggregateAssumption DEF AggregateIInv, AggregateTypeOK, Repo
    <2>2. QED
      BY <2>1 DEF AggregateIInv, AggregateTypeOK, Repo
  <1>2. AggregateTypeOK'
    BY <1>1 DEF AggregateIInv, AggregateTypeOK, Repo
  <1>3. VotedInv'
    BY DEF AggregateIInv, VotedInv, EmptyRepo, Repo
  <1>4. OrderInv' /\ BatchInv'
    BY DEF AggregateIInv, OrderInv, BatchInv, AtMost, SourceRepo, LabelRepo
  <1>5. QED
    BY <1>2, <1>3, <1>4 DEF AggregateIInv

LEMMA VoteForAggregateStep ==
    ASSUME AggregateIInv, NEW a \in aggregates, VoteForAggregate(a)
    PROVE  AggregateIInv'
  <1> USE DEF VoteForAggregate, labelVars
  <1>1. a \in Repo
    BY DEF AggregateIInv, AggregateTypeOK
  <1>2. AggregateTypeOK'
    BY <1>1 DEF AggregateIInv, AggregateTypeOK, Repo
  <1>3. VotedInv'
    BY <1>1 DEF AggregateIInv, VotedInv, EmptyRepo, Repo
  <1>4. OrderInv' /\ BatchInv'
    BY DEF AggregateIInv, OrderInv, BatchInv, AtMost, SourceRepo, LabelRepo
  <1>5. QED
    BY <1>2, <1>3, <1>4 DEF AggregateIInv

LEMMA PromoteAggregateStep ==
    ASSUME AggregateIInv, NEW a \in votedFor, PromoteAggregate(a)
    PROVE  AggregateIInv'
  <1> USE DEF PromoteAggregate, dlrnVars, labelVars
  <1>1. a \in Repo
    BY DEF AggregateIInv, VotedInv
  <1>2. AggregateTypeOK'
    BY <1>1 DEF AggregateIInv, AggregateTypeOK, Repo
  <1>3. VotedInv'
    BY DEF AggregateIInv, VotedInv, EmptyRepo, Repo
  <1>4. AtMost(targetRepo, a)
    BY <1>1 DEF AggregateIInv, AggregateTypeOK, AtMost, Newer, Repo
  <1>5. OrderInv'
    <2>1. AtMost(previousRepo, targetRepo)
      BY DEF AggregateIInv, OrderInv
    <2>2. CASE targetRepo = EmptyRepo
      BY <1>4, <2>1, <2>2 DEF OrderInv, AtMost, SourceRepo, LabelRepo
    <2>3. CASE targetRepo # EmptyRepo
      <3>1. targetRepo \in votedFor
        BY <2>3 DEF AggregateIInv, VotedInv
      <3>2. QED
        BY <1>4, <2>1, <2>3, <3>1 DEF OrderInv, AtMost, SourceRepo, LabelRepo
    <2>4. QED
      BY <2>2, <2>3
  <1>6. BatchInv'
    BY DEF BatchInv
  <1>7. QED
    BY <1>2, <1>3, <1>5, <1>6 DEF AggregateIInv

LEMMA DownloadRepoStep ==
    ASSUME AggregateIInv, DownloadRepo
    PROVE  AggregateIInv'
  <1> USE DEF DownloadRepo, dlrnVars, labelVars
  <1>1. AggregateTypeOK'
    BY EmptyIsRepo DEF AggregateIInv, AggregateTypeOK, Sections, Repo
  <1>2. VotedInv'
    BY DEF AggregateIInv, VotedInv, EmptyRepo, Repo
  <1>3. OrderInv'
    BY DEF AggregateIInv, OrderInv, AtMost, SourceRepo, LabelRepo
  <1>4. BatchInv'
    BY DEF BatchInv, Sections, EmptyRepo, SourceRepo
  <1>5. QED
    BY <1>1, <1>2, <1>3, <1>4 DEF AggregateIInv

LEMMA GetHashFromComponentStep ==
    ASSUME AggregateIInv, NEW c \in Component, GetHashFromComponent(c)
    PROVE  AggregateIInv'
  <1> USE DEF GetHashFromComponent, dlrnVars, labelVars
  <1>0. SourceRepo \in Repo /\ SourceRepo' = SourceRepo
    BY SourceIsRepo DEF AggregateIInv, SourceRepo
  <1>1. AggregateTypeOK'
    BY <1>0 DEF AggregateIInv, AggregateTypeOK, ComponentCommit, Repo
  <1>2. VotedInv'
    BY DEF AggregateIInv, VotedInv, EmptyRepo, Repo
  <1>3. OrderInv'
    BY DEF AggregateIInv, OrderInv, AtMost, SourceRepo, LabelRepo
  <1>4. \A d \in Component : d \in components' \/ batch'[d] = SourceRepo[d]
    BY DEF AggregateIInv, AggregateTypeOK, BatchInv, ComponentCommit, Repo
  <1>5. components' = {} => batch' = SourceRepo
    <2>1. batch' \in Repo
      BY <1>1 DEF AggregateTypeOK, Repo
    <2>2. QED
      BY <1>0, <1>4, <2>1 DEF Repo
  <1>6. BatchInv'
    BY <1>0, <1>4, <1>5 DEF BatchInv
  <1>7. QED
    BY <1>1, <1>2, <1>3, <1>6 DEF AggregateIInv

(* A posted batch puts the label on its aggregate, and nothing else. *)
LEMMA PostedIsSource ==
    ASSUME AggregateIInv, promoting = "post"
    PROVE  /\ batch = SourceRepo /\ SourceRepo \in Repo /\ SourceRepo \in votedFor
           /\ label = "previous" => Promoted(previousRepo) = SourceRepo
           /\ label = "target" => Promoted(targetRepo) = SourceRepo
  <1>1. batch = SourceRepo /\ SourceRepo \in Repo /\ SourceRepo \in votedFor
    BY SourceIsRepo DEF AggregateIInv, BatchInv, OrderInv
  <1>2. AtMost(LabelRepo, batch)
    BY <1>1 DEF AggregateIInv, OrderInv
  <1>3. QED
    BY <1>1, <1>2, PromotedIsBatch DEF AggregateIInv, AggregateTypeOK, LabelRepo

LEMMA PostBatchStep ==
    ASSUME AggregateIInv, PostBatch
    PROVE  AggregateIInv'
  <1> USE DEF PostBatch, dlrnVars
  <1>1. AggregateTypeOK'
    BY PromotedIsRepo DEF AggregateIInv, AggregateTypeOK, Repo
  <1>2. VotedInv'
    <2>1. {targetRepo', previousRepo'} \subseteq {targetRepo, previousRepo, SourceRepo}
      BY PostedIsSource DEF AggregateIInv, AggregateTypeOK
    <2>2. SourceRepo \in votedFor
      BY PostedIsSource
    <2>3. {targetRepo', previousRepo'} \subseteq votedFor \cup {EmptyRepo}
      BY <2>1, <2>2 DEF AggregateIInv, VotedInv
    <2>4. QED
      BY <2>3 DEF AggregateIInv, VotedInv, EmptyRepo, Repo
  <1>3. OrderInv'
    <2>1. \A repo \in Repo : AtMost(repo, repo)
      BY AggregateAssumption DEF AtMost, Repo
    <2>2. CASE label = "previous"
      <3>1. previousRepo' = targetRepo /\ targetRepo' = targetRepo
        BY <2>2, PostedIsSource DEF SourceRepo
      <3>2. QED
        BY <2>1, <2>2, <3>1
           DEF AggregateIInv, AggregateTypeOK, OrderInv, AtMost, SourceRepo, LabelRepo
    <2>3. CASE label = "target"
      <3>1. previousRepo' = previousRepo /\ targetRepo' = dlrnHash
        BY <2>3, PostedIsSource DEF SourceRepo
      <3>2. AtMost(previousRepo, dlrnHash)
        BY AggregateAssumption DEF AggregateIInv, OrderInv, AtMost, AggregateTypeOK, Repo
      <3>3. QED
        BY <2>3, <3>1, <3>2 DEF OrderInv, AtMost
    <2>4. QED
      BY <2>2, <2>3 DEF AggregateIInv, AggregateTypeOK
  <1>4. BatchInv'
    BY DEF BatchInv
  <1>5. QED
    BY <1>1, <1>2, <1>3, <1>4 DEF AggregateIInv

LEMMA AggregatePromotionFailsStep ==
    ASSUME AggregateIInv, AggregatePromotionFails
    PROVE  AggregateIInv'
  <1> USE DEF AggregatePromotionFails, dlrnVars, labelVars
  <1>1. AggregateTypeOK'
    BY PromotedIsRepo, AggregateAssumption DEF AggregateIInv, AggregateTypeOK, Repo
  <1>2. VotedInv'
    BY PostedIsSource DEF AggregateIInv, AggregateTypeOK, VotedInv, EmptyRepo, Repo
  <1>3. AtMost(previousRepo', targetRepo')
    <2>1. CASE UNCHANGED labelVars
      BY <2>1 DEF AggregateIInv, OrderInv, AtMost
    <2>2. CASE promoting = "post" /\ label = "previous" /\ previousRepo' = targetRepo
               /\ targetRepo' = targetRepo
      BY <2>2, AggregateAssumption DEF AggregateIInv, AggregateTypeOK, AtMost, Repo
    <2>3. CASE promoting = "post" /\ label = "target" /\ previousRepo' = previousRepo
               /\ targetRepo' = dlrnHash
      BY <2>3, AggregateAssumption DEF AggregateIInv, OrderInv, AtMost, AggregateTypeOK, Repo
    <2>4. QED
      BY <2>1, <2>2, <2>3, PostedIsSource DEF AggregateIInv, AggregateTypeOK, SourceRepo
  <1>4. OrderInv' /\ BatchInv'
    BY <1>3 DEF OrderInv, BatchInv, AtMost
  <1>5. QED
    BY <1>1, <1>2, <1>4 DEF AggregateIInv

LEMMA AggregateStutterStep ==
    ASSUME AggregateIInv, UNCHANGED aggregateVars
    PROVE  AggregateIInv'
  BY DEF aggregateVars, AggregateIInv, AggregateTypeOK, VotedInv, OrderInv, BatchInv, AtMost,
         SourceRepo, LabelRepo, EmptyRepo, Repo

LEMMA AggregateNextIInv ==
    ASSUME AggregateIInv, [AggregateNext]_aggregateVars
    PROVE  AggregateIInv'
  <1>1. CASE \E c \in Component : PromoteComponent(c) \/ GetHashFromComponent(c)
    BY <1>1, PromoteComponentStep, GetHashFromComponentStep
  <1>2. CASE \E a \in aggregates : VoteForAggregate(a)
    BY <1>2, VoteForAggregateStep
  <1>3. CASE \E a \in votedFor : PromoteAggregate(a)
    BY <1>3, PromoteAggregateStep
  <1>4. CASE DownloadRepo \/ PostBatch \/ AggregatePromotionFails
    BY <1>4, DownloadRepoStep, PostBatchStep, AggregatePromotionFailsStep
  <1>5. CASE UNCHANGED aggregateVars
    BY <1>5, AggregateStutterStep
  <1>6. QED
    BY <1>1, <1>2, <1>3, <1>4, <1>5 DEF AggregateNext

THEOREM AggregateInvariant == AggregateSpec => []AggregateIInv
  BY AggregateInitIInv, AggregateNextIInv, PTL DEF AggregateSpec

LEMMA VotedAreTested == AggregateIInv => LabelsHoldTestedAggregates
  BY DEF AggregateIInv, VotedInv, LabelsHoldTestedAggregates

(* However batches fail and components move under the candidate label, both *)
(* labels name whole aggregates, and ones CI has voted for.                 *)
THEOREM LabelsNameVotedAggregates == AggregateSpec => []LabelsHoldTestedAggregates
  BY VotedAreTested, AggregateInvariant, PTL
=============================================================================
