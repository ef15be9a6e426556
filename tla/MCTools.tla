------------------------------- MODULE MCTools -------------------------------
(* The programs beside the promoter's main loop, each by itself: they share   *)
(* no state, so that a behaviour is one of one tool, chosen at the start, and *)
(* the others stay in one of their initial states.                            *)
EXTENDS ArtifactPromoter, TenantCleanup, NodeHolder, CopyQuay, Staging,
        AggregatePromotion, VoteReaders, Settings, ContainerList, BuildDiff, TLC

CONSTANTS none,                     (* NoArtifact                             *)
          f1, f2,                   (* composes                               *)
          i1,                       (* an image                                 *)
          u1, u2,                   (* engineers                              *)
          build, ovb, internal, hw  (* jobs                                   *)

VARIABLE tool

Tool == {"artifact", "cleanup", "holder", "quay", "staging", "aggregate", "votes",
         "settings", "containers", "diff"}

-----------------------------------------------------------------------------
(* Node holder: 123 occurs in 1234.  Two jobs in the layout of one, one in    *)
(* that of the other.                                                         *)
MCNumberIn == {<<123, 123>>, <<1234, 1234>>, <<123, 1234>>}
MCLayoutJobs == 123 :> {build} @@ 1234 :> {build, ovb}

(* Readers of votes: ovb has an alternative. *)
MCAltCriteria == build :> {} @@ ovb :> {internal}

(* Tenant cleanup: the identifier 1 ends the names of 11. *)
MCNameHas == {<<1, 1>>, <<11, 11>>, <<1, 11>>}

(* Settings. *)
MCInfo(c, labelled) == [criteria |-> c, candidate_label |-> labelled]
MCGood == MCInfo("jobs", TRUE)
MCInfos == {MCInfo(c, labelled) : c \in {"jobs", "absent", "null", "empty"}, labelled \in BOOLEAN}
MCBase(infos) == [distro_name |-> "centos", distro_version |-> "9", promotions |-> infos]
MCOption(setting, values) == {[s \in {setting} |-> v] : v \in values} \cup {NoLayer}
MCReleaseFile ==
    {MissingFile, BrokenFile, [release |-> "master"],
     [distro_name |-> "centos", distro_version |-> "8"]}
    \cup {MCBase(infos) : infos \in {{}} \cup {{i, MCGood} : i \in MCInfos} \cup {{i} : i \in MCInfos}}
    \cup {p @@ s @@ e @@ r @@ MCBase({MCGood}) :
              p \in MCOption("dlrn_api_port", {"", "80", "443"}),
              s \in MCOption("dlrn_api_scheme", {"http", "https"}),
              e \in MCOption("dlrn_api_endpoint", {"api-custom"}),
              r \in MCOption("release", {"wallaby"})}
MCDeployedFile == {MissingFile, BrokenFile, MCBase({MCGood})}
MCEnvironmentDefaults ==
    [release |-> "master", distro_name |-> "centos", distro_version |-> "8",
     dlrn_api_host |-> "trunk", dlrn_api_port |-> "80", dlrn_api_scheme |-> "http"]
MCGlobalDefaults == [log_level |-> "INFO", allowed_clients |-> "some"]

(* Container lists: templates of up to two images. *)
MCImage(p, n, s) == [prefix |-> p, name |-> n, image_source |-> s]
MCImages ==
    {MCImage("openstack-", "api", "tripleo"), MCImage("openstack-", "db", "tripleo"),
     MCImage("openstack-", "db", "ceph"), MCImage("openstack-", "db", "none"),
     MCImage("centos-binary-", "api", "none"), MCImage("centos-binary-", "db", "tripleo")}
MCTemplate == {<<>>} \cup {<<i>> : i \in MCImages} \cup {<<i, j>> : i, j \in MCImages}
MCExcludeFile ==
    [shape : {"none", "list", "distros", "other_distros"},
     exclude : {<<"api">>, <<"db", "api">>}, ppc : {<<>>, <<"db">>}]

(* Build diff: the names of two containers differ in their last letter only.  *)
MCRpm(v, r) == [name |-> "nova", version |-> v, release |-> r]
MCDevel == [name |-> "nova-devel", version |-> 1, release |-> 1]
MCRpms == {MCRpm(1, 1), MCRpm(1, 2), MCRpm(2, 1), MCDevel}
MCHostLog == {{}, {MCRpm(1, 1), MCDevel}, {MCRpm(2, 1)}, {MCDevel}}
MCContainerLog == {{}, {MCRpm(1, 2)}, {MCRpm(2, 1)}}
MCListing == <<"agent", "api1", "api2">>
MCKeyOf == "agent" :> "agen" @@ "api1" :> "api" @@ "api2" :> "api"

-----------------------------------------------------------------------------
ToolsTypeOK ==
    /\ tool \in Tool
    /\ ArtifactTypeOK /\ CleanupTypeOK /\ HolderTypeOK /\ CopyQuayTypeOK
    /\ StagingTypeOK /\ AggregateTypeOK /\ VoteReadersTypeOK /\ SettingsTypeOK
    /\ ContainerListTypeOK /\ BuildDiffTypeOK

(* A tool that does not run has one initial state. *)
ToolsInit ==
    /\ tool \in Tool
    /\ ArtifactInit
    /\ tool # "artifact" => artifact = CHOOSE f \in Artifact : TRUE
    /\ CleanupInit
    /\ tool # "cleanup" => stack = [s \in Stack |-> "planned"]
    /\ HolderInit
    /\ tool # "holder" => asked = [u \in User |-> <<"rdo", 123>>]
    /\ CopyQuayInit
    /\ tool # "quay" => buildLog = {}
    /\ StagingInit
    /\ tool # "staging" => scenes = {} /\ componentsMode = FALSE
    /\ AggregateInit
    /\ VoteReadersInit
    /\ tool # "votes" => newestFirst = FALSE /\ stream = "upstream"
    /\ SettingsInit
    /\ tool # "settings" =>
          /\ releaseFile = MissingFile
          /\ password = FALSE
          /\ subcommand = "promote-all"
    /\ ContainerListInit
    /\ tool # "containers" =>
          /\ template = <<>>
          /\ excludeFile = CHOOSE e \in ExcludeFile : TRUE
          /\ release = "master"
    /\ BuildDiffInit
    /\ tool # "diff" => source = "installed"

(* No other tool makes a step. *)
Only(t) ==
    /\ tool = t
    /\ UNCHANGED tool
    /\ IF t = "artifact" THEN TRUE ELSE UNCHANGED artifactVars
    /\ IF t = "cleanup" THEN TRUE ELSE UNCHANGED cleanupVars
    /\ IF t = "holder" THEN TRUE ELSE UNCHANGED holderVars
    /\ IF t = "quay" THEN TRUE ELSE UNCHANGED copyQuayVars
    /\ IF t = "staging" THEN TRUE ELSE UNCHANGED stageVars
    /\ IF t = "aggregate" THEN TRUE ELSE UNCHANGED aggregateVars
    /\ IF t = "votes" THEN TRUE ELSE UNCHANGED voteVars
    /\ IF t = "settings" THEN TRUE ELSE UNCHANGED settingsVars
    /\ IF t = "containers" THEN TRUE ELSE UNCHANGED listVars
    /\ IF t = "diff" THEN TRUE ELSE UNCHANGED diffVars

ToolsNext ==
    \/ Only("artifact") /\ ArtifactNext
    \/ Only("cleanup") /\ CleanupNext
    \/ Only("holder") /\ HolderNext
    \/ Only("quay") /\ CopyQuayNext
    \/ Only("staging") /\ StagingNext
    \/ Only("aggregate") /\ AggregateNext
    \/ Only("votes") /\ VoteReadersNext
    \/ Only("settings") /\ SettingsNext
    \/ Only("containers") /\ ContainerListNext
    \/ Only("diff") /\ BuildDiffNext

toolsVars == <<tool, artifactVars, cleanupVars, holderVars, copyQuayVars, stageVars,
               aggregateVars, voteVars, settingsVars, listVars, diffVars>>

(* The fairness of ArtifactSpec and of CopyQuaySpec, whose liveness is checked. *)
ToolsSpec ==
    /\ ToolsInit /\ [][ToolsNext]_toolsVars
    /\ WF_toolsVars(Only("artifact") /\ ArtifactNext)
    /\ WF_toolsVars(Only("quay") /\ CopyStep)
    /\ \A r \in TagRun : WF_toolsVars(Only("quay") /\ TagStep(r))
=============================================================================
