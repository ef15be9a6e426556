------------------------------ MODULE Settings ------------------------------
(* The configuration of the promoter: main() reads the release file for the   *)
(* name of the log file, the factory reads it again as a layer, between the   *)
(* command line and the defaults of the environment, and validates the        *)
(* result; the clients ask for settings, api_url among them, which is made    *)
(* from others.  A deployment may rewrite the release file between two reads. *)
(*                                                                            *)
(* A layer maps names of settings to values.  A file is a layer, missing or   *)
(* broken (no YAML, or not a mapping).  Templates in values are left out.     *)
EXTENDS Naturals, Sequences, SequencesExt

CONSTANTS ReleaseFile,      (* what release files there may be                *)
          DeployedFile,     (* what a deployment may put in their place       *)
          EnvironmentDefaults,
          GlobalDefaults    (* the layers of the two defaults files           *)

(* A target of the promotions: its criteria are absent, null, an empty list   *)
(* or jobs.                                                                   *)
PromotionInfo == [criteria : {"absent", "null", "empty", "jobs"}, candidate_label : BOOLEAN]

(* Neither of the two defaults files of an environment has promotions.        *)
ASSUME SettingsAssumption ==
    /\ "promotions" \notin DOMAIN EnvironmentDefaults \cup DOMAIN GlobalDefaults
    /\ \A file \in ReleaseFile \cup DeployedFile :
          "promotions" \in DOMAIN file => file["promotions"] \subseteq PromotionInfo

VARIABLES releaseFile,      (* the file                                       *)
          releaseSettings,  (* the layer made of it                           *)
          password,         (* DLRNAPI_PASSWORD is in the environment         *)
          subcommand,
          starting          (* how far main() has come                        *)

settingsVars == <<releaseFile, releaseSettings, password, subcommand, starting>>

NoLayer == [s \in {} |-> ""]
MissingFile == [missing |-> "file"]
BrokenFile == [broken |-> "file"]

SettingsTypeOK ==
    /\ releaseFile \in ReleaseFile \cup DeployedFile
    /\ releaseSettings \in ReleaseFile \cup DeployedFile \cup {NoLayer}
    /\ password \in BOOLEAN
    /\ subcommand \in {"promote-all", "force-promote"}
    /\ starting \in {"log_file", "release", "validate", "ready", "failed"}

SettingsInit ==
    /\ releaseFile \in ReleaseFile
    /\ releaseSettings = NoLayer
    /\ password \in BOOLEAN
    /\ subcommand \in {"promote-all", "force-promote"}
    /\ starting = "log_file"

Readable(file) == file \notin {MissingFile, BrokenFile}

-----------------------------------------------------------------------------
(* The layers, the highest first.  The arguments of the command are a layer   *)
(* too, defaults of the parser included; the promoter has no --extra-settings.*)
CliSettings ==
    IF subcommand = "force-promote"
    THEN [s \in {"log_level", "allowed_clients"} |-> IF s = "log_level" THEN "INFO" ELSE "all"]
    ELSE [s \in {"log_level"} |-> "INFO"]

Layers == <<CliSettings, releaseSettings, EnvironmentDefaults, GlobalDefaults>>

(* _search_layers: the value of the first layer that has the setting.  0: none. *)
FirstLayer(setting) == SelectInSeq(Layers, LAMBDA layer : setting \in DOMAIN layer)
Found(setting) == FirstLayer(setting) # 0
SearchLayers(setting) == Layers[FirstLayer(setting)][setting]

-----------------------------------------------------------------------------
(* _constructor_api_url.  Any setting it needs and does not find makes it     *)
(* fail, but for the endpoint, which it then makes up.                        *)
ApiUrlNeeds == {"dlrn_api_host", "dlrn_api_port", "dlrn_api_scheme", "distro_name",
                "distro_version", "release"}

DistroEndpoint ==
    <<SearchLayers("distro_name"), IF SearchLayers("distro_version") = "8" THEN "8" ELSE "">>

ReleaseEndpoint ==
    IF SearchLayers("release") = "master" THEN "master-uc" ELSE SearchLayers("release")

Endpoint ==
    IF Found("dlrn_api_endpoint")
    THEN SearchLayers("dlrn_api_endpoint")
    ELSE <<"api", DistroEndpoint, ReleaseEndpoint>>

(* Mutant of UrlPort: both well-known ports are left out for both schemes. *)
UrlPortUnlessKnown(scheme, port) == IF port \in {"", "80", "443"} THEN "" ELSE port

UrlPort(scheme, port) ==
    IF port = "" \/ (scheme = "http" /\ port = "443") \/ (scheme = "https" /\ port = "443")
    THEN ""
    ELSE port

ConstructApiUrl ==
    [scheme   |-> SearchLayers("dlrn_api_scheme"),
     host     |-> SearchLayers("dlrn_api_host"),
     port     |-> UrlPort(SearchLayers("dlrn_api_scheme"), SearchLayers("dlrn_api_port")),
     endpoint |-> Endpoint]

-----------------------------------------------------------------------------
(* Mutant of ValidPromotions: no promotions are valid promotions. *)
ValidOrNoPromotions ==
    Found("promotions") =>
        \A info \in SearchLayers("promotions") :
            info.criteria \notin {"absent", "null", "empty"} /\ info.candidate_label

(* validate().  The promotions are a set of targets; _filter_promotions raises *)
(* for criteria that are null.                                                *)
ValidPromotions ==
    /\ Found("promotions")
    /\ \A info \in SearchLayers("promotions") : info.criteria # "null"
    /\ SearchLayers("promotions") # {}
    /\ \A info \in SearchLayers("promotions") :
          info.criteria \notin {"absent", "empty"} /\ info.candidate_label

(* get_log_file: without a file, or one without the distribution, main() ends. *)
GetLogFile ==
    /\ starting = "log_file"
    /\ starting' = IF Readable(releaseFile)
                      /\ {"distro_name", "distro_version"} \subseteq DOMAIN releaseFile
                   THEN "release" ELSE "failed"
    /\ UNCHANGED <<releaseFile, releaseSettings, password, subcommand>>

(* The factory: a missing file ends the start, a broken one leaves the layer  *)
(* empty without a word.                                                      *)
LoadRelease ==
    /\ starting = "release"
    /\ releaseSettings' = IF Readable(releaseFile) THEN releaseFile ELSE NoLayer
    /\ starting' = IF releaseFile = MissingFile THEN "failed" ELSE "validate"
    /\ UNCHANGED <<releaseFile, password, subcommand>>

Validate ==
    /\ starting = "validate"
    /\ starting' = IF password /\ ValidPromotions THEN "ready" ELSE "failed"
    /\ UNCHANGED <<releaseFile, releaseSettings, password, subcommand>>

Deploy ==
    /\ starting \notin {"ready", "failed"}
    /\ releaseFile' \in DeployedFile
    /\ UNCHANGED <<releaseSettings, password, subcommand, starting>>

SettingsNext == GetLogFile \/ LoadRelease \/ Validate \/ Deploy

SettingsSpec == SettingsInit /\ [][SettingsNext]_settingsVars

-----------------------------------------------------------------------------
(* A promoter that starts has the settings of its release, password and, for  *)
(* each of its targets, jobs and a candidate label: a file that breaks after  *)
(* main() has read it, and that the factory passes over, never leaves it      *)
(* promoting by the defaults of the environment alone.                        *)
StartsWithItsRelease ==
    starting = "ready" =>
        /\ password
        /\ "promotions" \in DOMAIN releaseSettings
        /\ \A info \in releaseSettings["promotions"] :
              info.criteria = "jobs" /\ info.candidate_label
        /\ releaseSettings["promotions"] # {}

(* The value of a setting, told by which dict overrides which. *)
Override(high, low) ==
    [s \in DOMAIN high \cup DOMAIN low |-> IF s \in DOMAIN high THEN high[s] ELSE low[s]]

Effective(setting) ==
    Override(CliSettings, Override(releaseSettings,
             Override(EnvironmentDefaults, GlobalDefaults)))[setting]

DefaultPort(scheme) == IF scheme = "https" THEN "443" ELSE "80"
PortOf(scheme, port) == IF port = "" THEN DefaultPort(scheme) ELSE port

(* Whatever layers its parts come from, api_url leads to the server, by the   *)
(* scheme and at the port, that the settings name.  Only http at port 443     *)
(* leads elsewhere, to port 80.                                               *)
ApiUrlLeadsToServer ==
    starting = "ready" /\ (\A s \in ApiUrlNeeds : Found(s)) =>
        LET scheme == Effective("dlrn_api_scheme")
            port == Effective("dlrn_api_port")
        IN /\ ConstructApiUrl.scheme = scheme
           /\ ConstructApiUrl.host = Effective("dlrn_api_host")
           /\ \/ PortOf(scheme, ConstructApiUrl.port) = PortOf(scheme, port)
              \/ scheme = "http" /\ port = "443"
=============================================================================
