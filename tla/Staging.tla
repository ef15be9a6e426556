------------------------------ MODULE Staging ------------------------------
(* The staging environment of the promoter: `stage.py setup` builds the       *)
(* scenes its configuration lists and writes the stage info file, `stage.py   *)
(* teardown` reads the file and takes down the scenes named in it.  A command *)
(* can be cut off, by a kill or by an exception of Docker or of a file        *)
(* operation, and is then run again.  dry_run is false, as in the shipped     *)
(* configuration; main() hands the command line options to nobody.            *)
EXTENDS Naturals, Sequences

CONSTANT MaxStageFaults    (* commands cut off in a run of TLC *)

ASSUME StagingAssumption == MaxStageFaults \in Nat

Scene == {"dlrn", "registries", "containers", "overcloud_images"}

Registries == {"source_registry", "target_registry"}
Directories == {"stage_root", "dlrn_root", "containers_root", "images_root"}

(* The order of StageOrchestrator.setup() and of teardown(). *)
SetupSteps == <<"dlrn", "commits", "registries", "containers", "overcloud_images",
                "stage_info">>
TeardownSteps == <<"stage_info", "dlrn", "registries", "containers", "overcloud_images",
                   "stage_root", "unlink">>

VARIABLES
    scenes,        (* the scenes in the configuration                         *)
    componentsMode,
    standing,      (* registries and directories that exist                   *)
    dlrnServer,    (* a killed server listens for a while                     *)
    commits,       (* the staged commits and promotions in the DLRN repo      *)
    stageInfo,     (* the stage info file exists                              *)
    command,       (* the command at work                                     *)
    stageStep,     (* its next step                                           *)
    tornDown,      (* the last command was a teardown that came to its end    *)
    cutOff,        (* a command was cut off since the last setup began        *)
    respawned,     (* the last setup began while a killed server still listened *)
    stageFaults

configVars == <<scenes, componentsMode>>
stageVars == <<configVars, standing, dlrnServer, commits, stageInfo, command, stageStep,
               tornDown, cutOff, respawned, stageFaults>>

StagingTypeOK ==
    /\ scenes \in SUBSET Scene
    /\ componentsMode \in BOOLEAN
    /\ commits \in {"none", "some", "all"}
    /\ standing \in SUBSET (Registries \cup Directories)
    /\ dlrnServer \in {"down", "up", "killed"}
    /\ stageInfo \in BOOLEAN
    /\ command \in {"none", "setup", "teardown"}
    /\ stageStep \in 1..7
    /\ tornDown \in BOOLEAN /\ cutOff \in BOOLEAN /\ respawned \in BOOLEAN
    /\ stageFaults \in 0..MaxStageFaults

StagingInit ==
    /\ scenes \in SUBSET Scene
    /\ componentsMode \in BOOLEAN
    /\ commits = "none"
    /\ standing = {}
    /\ dlrnServer = "down"
    /\ stageInfo = FALSE
    /\ command = "none"
    /\ stageStep = 1
    /\ tornDown = FALSE
    /\ cutOff = FALSE
    /\ respawned = FALSE
    /\ stageFaults = 0

Dlrn == "dlrn" \in scenes \/ componentsMode

Setting(step) == command = "setup" /\ SetupSteps[stageStep] = step
Tearing(step) == command = "teardown" /\ TeardownSteps[stageStep] = step

Advance == stageStep' = stageStep + 1 /\ command' = command
EndCommand == stageStep' = 1 /\ command' = "none"

-----------------------------------------------------------------------------
(* The controller of the DLRN server makes its directories when it is created, *)
(* for a teardown too.                                                        *)
StartStage(c) ==
    /\ command = "none"
    /\ command' = c
    /\ stageStep' = 1
    /\ standing' = standing \cup {"stage_root", "dlrn_root"}
    /\ tornDown' = FALSE
    /\ cutOff' = (cutOff /\ c = "teardown")
    /\ respawned' = IF c = "setup" THEN dlrnServer = "killed" ELSE respawned
    /\ UNCHANGED <<configVars, dlrnServer, commits, stageInfo, stageFaults>>

Cut == cutOff' = TRUE /\ stageFaults < MaxStageFaults /\ stageFaults' = stageFaults + 1
Uncut == UNCHANGED <<cutOff, stageFaults>>

(* run_server: while an old server listens the new one cannot, and            *)
(* check_port() finds the old one; with no server listening after the         *)
(* timeout the exception ends the setup.                                      *)
SetupDlrn ==
    /\ Setting("dlrn")
    /\ IF Dlrn
       THEN \/ /\ dlrnServer' = IF dlrnServer = "down" THEN "up" ELSE dlrnServer
               /\ Advance /\ Uncut
            \/ /\ dlrnServer = "down" /\ dlrnServer' = "down"
               /\ EndCommand /\ Cut
       ELSE dlrnServer' = dlrnServer /\ Advance /\ Uncut
    /\ UNCHANGED <<configVars, standing, commits, stageInfo, tornDown, respawned>>

(* create_commit_hierarchy and staged_promotion: directories that are there   *)
(* are used again, and a label is linked anew.                                *)
StageCommits ==
    /\ Setting("commits")
    /\ ~componentsMode
    /\ commits' = IF Dlrn THEN "all" ELSE commits
    /\ Advance
    /\ UNCHANGED <<configVars, standing, dlrnServer, stageInfo, tornDown, cutOff, respawned,
                   stageFaults>>

(* promote_aggregate asks the server to promote each commit and to accept     *)
(* votes; the one that was killed may have gone, and any call may fail.       *)
StageAggregates ==
    /\ Setting("commits")
    /\ componentsMode
    /\ \/ /\ dlrnServer # "down"
          /\ commits' = "all"
          /\ Advance /\ Uncut
       \/ /\ commits' = "some"
          /\ EndCommand
          /\ \/ dlrnServer = "down" /\ cutOff' = TRUE /\ UNCHANGED stageFaults
             \/ Cut
    /\ UNCHANGED <<configVars, standing, dlrnServer, stageInfo, tornDown, respawned>>

(* A registry that exists already is left as it is.  The containers need the  *)
(* registries, listed or not.                                                 *)
SetupRegistries ==
    /\ Setting("registries")
    /\ IF scenes \cap {"registries", "containers"} = {}
       THEN standing' = standing /\ Advance /\ Uncut
       ELSE \/ standing' = standing \cup Registries /\ Advance /\ Uncut
            \/ standing' = standing \cup {"source_registry"} /\ EndCommand /\ Cut
    /\ UNCHANGED <<configVars, dlrnServer, commits, stageInfo, tornDown, respawned>>

Root(scene) == IF scene = "containers" THEN "containers_root" ELSE "images_root"

SetupTree(scene) ==
    /\ Setting(scene)
    /\ standing' = IF scene \in scenes THEN standing \cup {Root(scene)} ELSE standing
    /\ Advance
    /\ UNCHANGED <<configVars, dlrnServer, commits, stageInfo, tornDown, cutOff, respawned,
                   stageFaults>>

SetupContainers == SetupTree("containers")
SetupImages == SetupTree("overcloud_images")

WriteStageInfo ==
    /\ Setting("stage_info")
    /\ stageInfo' = TRUE
    /\ EndCommand
    /\ UNCHANGED <<configVars, standing, dlrnServer, commits, tornDown, cutOff, respawned,
                   stageFaults>>

-----------------------------------------------------------------------------
(* Mutant of ReadStageInfo: the teardown goes on without the file. *)
TeardownAnyway ==
    /\ Tearing("stage_info")
    /\ Advance
    /\ UNCHANGED <<configVars, standing, dlrnServer, commits, stageInfo, tornDown, cutOff,
                   respawned, stageFaults>>

(* Without the file the teardown ends here. *)
ReadStageInfo ==
    /\ Tearing("stage_info")
    /\ IF stageInfo THEN Advance ELSE EndCommand
    /\ UNCHANGED <<configVars, standing, dlrnServer, commits, stageInfo, tornDown, cutOff,
                   respawned, stageFaults>>

(* Mutant of TeardownDlrn: the server is left running. *)
TeardownDlrnServes ==
    /\ Tearing("dlrn")
    /\ standing' = IF Dlrn THEN standing \ {"dlrn_root"} ELSE standing
    /\ commits' = IF Dlrn THEN "none" ELSE commits
    /\ Advance
    /\ UNCHANGED <<configVars, dlrnServer, stageInfo, tornDown, cutOff, respawned, stageFaults>>

(* pkill, and the wait for the port to close: check_port() takes the error of *)
(* connecting a connected socket again for a closed port and returns.         *)
TeardownDlrn ==
    /\ Tearing("dlrn")
    /\ IF Dlrn
       THEN /\ dlrnServer' = IF dlrnServer = "up" THEN "killed" ELSE dlrnServer
            /\ standing' = standing \ {"dlrn_root"}
            /\ commits' = "none"
       ELSE UNCHANGED <<dlrnServer, commits, standing>>
    /\ Advance
    /\ UNCHANGED <<configVars, stageInfo, tornDown, cutOff, respawned, stageFaults>>

TeardownRegistries ==
    /\ Tearing("registries")
    /\ standing' = IF "registries" \in scenes THEN standing \ Registries ELSE standing
    /\ Advance
    /\ UNCHANGED <<configVars, dlrnServer, commits, stageInfo, tornDown, cutOff, respawned,
                   stageFaults>>

(* rmtree of a directory that is not there raises and ends the teardown. *)
TeardownTree(scene) ==
    /\ Tearing(scene)
    /\ IF scene \in scenes
       THEN /\ standing' = standing \ {Root(scene)}
            /\ IF Root(scene) \in standing THEN Advance ELSE EndCommand
       ELSE standing' = standing /\ Advance
    /\ UNCHANGED <<configVars, dlrnServer, commits, stageInfo, tornDown, cutOff, respawned,
                   stageFaults>>

TeardownContainers == TeardownTree("containers")
TeardownImages == TeardownTree("overcloud_images")

(* The directories of all the scenes are below the stage root. *)
RemoveStageRoot ==
    /\ Tearing("stage_root")
    /\ standing' = standing \ Directories
    /\ commits' = "none"
    /\ Advance
    /\ UNCHANGED <<configVars, dlrnServer, stageInfo, tornDown, cutOff, respawned, stageFaults>>

(* Mutant of UnlinkStageInfo: the file stays. *)
KeepStageInfo ==
    /\ Tearing("unlink")
    /\ tornDown' = TRUE
    /\ EndCommand
    /\ UNCHANGED <<configVars, standing, dlrnServer, commits, stageInfo, cutOff, respawned,
                   stageFaults>>

UnlinkStageInfo ==
    /\ Tearing("unlink")
    /\ stageInfo' = FALSE
    /\ tornDown' = TRUE
    /\ EndCommand
    /\ UNCHANGED <<configVars, standing, dlrnServer, commits, cutOff, respawned, stageFaults>>

-----------------------------------------------------------------------------
(* A kill, perhaps between two commits. *)
CommandCutOff ==
    /\ command # "none"
    /\ Cut
    /\ EndCommand
    /\ \/ UNCHANGED commits
       \/ Setting("commits") /\ Dlrn /\ commits' = "some"
    /\ UNCHANGED <<configVars, standing, dlrnServer, stageInfo, tornDown, respawned>>

ServerExits ==
    /\ dlrnServer = "killed"
    /\ dlrnServer' = "down"
    /\ UNCHANGED <<configVars, standing, commits, stageInfo, command, stageStep, tornDown,
                   cutOff, respawned, stageFaults>>

StageCommand ==
    \/ SetupDlrn \/ StageCommits \/ StageAggregates \/ SetupRegistries
    \/ SetupContainers \/ SetupImages \/ WriteStageInfo
    \/ ReadStageInfo \/ TeardownDlrn \/ TeardownRegistries
    \/ TeardownContainers \/ TeardownImages
    \/ RemoveStageRoot \/ UnlinkStageInfo \/ CommandCutOff

StagingNext ==
    \/ \E c \in {"setup", "teardown"} : StartStage(c)
    \/ StageCommand
    \/ ServerExits

StagingSpec == StagingInit /\ [][StagingNext]_stageVars /\ WF_stageVars(StageCommand)

-----------------------------------------------------------------------------
(* A teardown that comes to its end leaves nothing of the stage, however many *)
(* commands were cut off before it, but the registries that setup starts for  *)
(* containers when the registries are no scene of their own.                  *)
TeardownIsComplete ==
    tornDown =>
        /\ dlrnServer # "up"
        /\ standing # {} => /\ standing \subseteq Registries
                            /\ scenes \cap {"registries", "containers"} = {"containers"}

(* A stage that is announced by its info file has a DLRN server with all the  *)
(* commits, unless a command was cut off, or the setup met the server that    *)
(* the teardown before it had killed but not waited for.                      *)
AnnouncedStageServes ==
    stageInfo /\ command = "none" /\ Dlrn =>
        (dlrnServer = "up" /\ commits = "all") \/ cutOff \/ respawned

(* The teardown of a stage finds the directories it removes, unless a command *)
(* was cut off since the setup: then it raises, every time it is run again,   *)
(* until a new setup has made them.                                           *)
TeardownFindsDirectories ==
    \A scene \in {"containers", "overcloud_images"} :
        Tearing(scene) /\ scene \in scenes => Root(scene) \in standing \/ cutOff
=============================================================================
