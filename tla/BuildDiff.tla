------------------------------ MODULE BuildDiff ------------------------------
(* diff_builds.py: which packages differ between two builds, told from what   *)
(* the builds left at their URLs: for each kind of node the packages of the   *)
(* host and of its containers, or a repoquery, or the metadata of a compose.  *)
(* Of a package found in several versions the highest counts.                 *)
EXTENDS Naturals, Sequences, FiniteSets

CONSTANTS Rpm,              (* [name, version, release] of packages in logs   *)
          IgnoredPackage,   (* names ignore_packages matches                  *)
          HostLog,          (* what the list of a host may hold               *)
          ContainerLog,     (* what the podman_info of a container may hold   *)
          Listing,          (* the containers, in the order they are listed   *)
          KeyOf,            (* the name of a container without its last letter *)
          NodeType

ASSUME BuildDiffAssumption ==
    /\ Rpm \subseteq [name : STRING, version : Nat, release : Nat]
    /\ HostLog \subseteq SUBSET Rpm
    /\ ContainerLog \subseteq SUBSET Rpm
    /\ \A log \in HostLog \cup ContainerLog : IsFiniteSet(log)
    /\ IsFiniteSet(DOMAIN Listing)
    /\ \A i, j \in DOMAIN Listing : Listing[i] = Listing[j] => i = j
    /\ \A i \in DOMAIN Listing : Listing[i] \in DOMAIN KeyOf

VARIABLES
    source,       (* what is compared, by the options of the command line     *)
    diffAt,       (* the next step                                            *)
    nodesLeft,    (* the kinds of nodes still to compare                      *)
    logs,         (* of each build, what it logged for the node               *)
    rows          (* package_diff of the node: the highest rpms of both builds *)

diffVars == <<source, diffAt, nodesLeft, logs, rows>>

Build == {"control", "test"}
Source == {"installed", "cpaas", "repoquery", "compose"}
BuildLog == [host : HostLog, containers : [DOMAIN Listing -> ContainerLog]]
NoLog == [host |-> {}, containers |-> [i \in DOMAIN Listing |-> {}]]

BuildDiffTypeOK ==
    /\ source \in Source
    /\ diffAt \in {"nodes", "control", "test", "diff", "diffed", "reported", "raised"}
    /\ nodesLeft \in SUBSET NodeType
    /\ logs \in [Build -> BuildLog \cup {NoLog}]
    /\ rows \in SUBSET [package : {r.name : r \in Rpm}, control : SUBSET Rpm, test : SUBSET Rpm]

BuildDiffInit ==
    /\ source \in Source
    /\ diffAt = "nodes"
    /\ nodesLeft = {}
    /\ logs = [b \in Build |-> NoLog]
    /\ rows = {}

InstalledPackages == source \in {"installed", "cpaas"}

-----------------------------------------------------------------------------
(* get_the_nodes and check_for_even_nodes: the builds must have the same      *)
(* kinds of nodes, and one at all.  A repoquery and --undercloud_only look at *)
(* the undercloud; a compose has no nodes and is compared once.               *)
GetTheNodes ==
    /\ diffAt = "nodes"
    /\ \E found \in [Build -> SUBSET NodeType] :
          LET even == found["control"] = found["test"] /\ found["control"] # {}
          IN /\ ~InstalledPackages => \A b \in Build : found[b] \subseteq {"undercloud"}
             /\ source = "compose" => even
             /\ nodesLeft' = IF even THEN found["control"] ELSE {}
             /\ diffAt' = IF even THEN "control" ELSE "reported"
    /\ UNCHANGED <<source, logs, rows>>

(* get_logs: a list of the host that is missing or empty raises, so does a    *)
(* podman_info that is missing.  get_repoquery_logs, get_compose_logs.        *)
GetLogs(build, log) ==
    /\ diffAt = build
    /\ InstalledPackages \/ log.containers = NoLog.containers
    /\ IF InstalledPackages /\ log.host = {}
       THEN diffAt' = "raised"
       ELSE diffAt' = IF build = "control" THEN "test" ELSE "diff"
    /\ logs' = [logs EXCEPT ![build] = log]
    /\ UNCHANGED <<source, nodesLeft, rows>>

LogsMissing ==
    /\ diffAt \in Build
    /\ diffAt' = "raised"
    /\ UNCHANGED <<source, nodesLeft, logs, rows>>

(* process_containers: the first container of the list is dropped, and of     *)
(* those with one key the last that logged packages counts.                   *)
Counts(log, i) ==
    /\ i # 1
    /\ \A j \in DOMAIN Listing :
          j > i /\ KeyOf[Listing[j]] = KeyOf[Listing[i]] => log.containers[j] = {}

(* parse_list: the rpms that are compared. *)
Packages(log) ==
    LET containers == IF InstalledPackages
                      THEN UNION {log.containers[i] : i \in {k \in DOMAIN Listing : Counts(log, k)}}
                      ELSE {}
    IN {r \in log.host \cup containers : r.name \notin IgnoredPackage}

(* rpmvercmp.labelCompare, and utils.cpaas_label_compare.                     *)
LabelCompare(r, s) ==
    r.version > s.version \/ (r.version = s.version /\ r.release > s.release)
CpaasLabelCompare(r, s) == r.version > s.version

(* Mutant of Higher: the release is ignored for every source. *)
HigherVersion(r, s) == CpaasLabelCompare(r, s)

Higher(r, s) == IF source = "cpaas" THEN CpaasLabelCompare(r, s) ELSE LabelCompare(r, s)

(* find_highest_version goes through the rpms in the order of a Python set:   *)
(* of several that compare as equal it keeps any.                             *)
FindHighestVersion(rpms, name) ==
    {r \in rpms : r.name = name /\ \A s \in rpms : s.name = name => ~Higher(s, r)}

(* diff_packages compares versions with their releases, in cpaas mode too.    *)
DiffPackages ==
    /\ diffAt = "diff"
    /\ LET control == Packages(logs["control"])
           test == Packages(logs["test"])
           names == {r.name : r \in control \cup test}
           choices(rpms) ==
               {f \in [names -> SUBSET rpms] :
                  \A n \in names :
                     LET highest == FindHighestVersion(rpms, n)
                     IN IF highest = {} THEN f[n] = {}
                        ELSE \E r \in highest : f[n] = {r}}
       IN \E c \in choices(control), t \in choices(test) :
             rows' = {[package |-> n, control |-> c[n], test |-> t[n]] :
                         n \in {m \in names : c[m] # t[m]}}
    /\ diffAt' = "diffed"
    /\ UNCHANGED <<source, nodesLeft, logs>>

(* The next node, or the tables. *)
NodeDone(node) ==
    /\ diffAt = "diffed"
    /\ node \in nodesLeft
    /\ nodesLeft' = nodesLeft \ {node}
    /\ diffAt' = IF nodesLeft = {node} THEN "reported" ELSE "control"
    /\ rows' = {}
    /\ logs' = [b \in Build |-> NoLog]
    /\ UNCHANGED source

BuildDiffNext ==
    \/ GetTheNodes \/ LogsMissing \/ DiffPackages
    \/ \E build \in Build, host \in HostLog, c \in [DOMAIN Listing -> ContainerLog] :
          GetLogs(build, [host |-> host, containers |-> c])
    \/ \E node \in NodeType : NodeDone(node)

BuildDiffSpec == BuildDiffInit /\ [][BuildDiffNext]_diffVars

-----------------------------------------------------------------------------
(* All a build logged for the node, and the newest of it of a package.        *)
Everything(log) ==
    log.host \cup (IF InstalledPackages
                   THEN UNION {log.containers[i] : i \in DOMAIN Listing} ELSE {})

Newest(log, name) ==
    {r \in Everything(log) : r.name = name
        /\ \A s \in Everything(log) : s.name = name => ~LabelCompare(s, r)}

(* A newest rpm is passed over when only containers that do not count have it. *)
PassedOver(log, name) ==
    InstalledPackages /\ \E r \in Newest(log, name) :
        r \notin log.host /\ \A i \in DOMAIN Listing : r \in log.containers[i] => ~Counts(log, i)

(* The report has a row for a package exactly if the newest rpms the builds   *)
(* logged differ, whatever the order in which the rpms were compared.  It may *)
(* be wrong only about what the first container, or one whose name differs    *)
(* from another's in its last letter, alone has, and in cpaas mode, which     *)
(* keeps any release of a version, but reports another version always.        *)
ReportTellsBuildsApart ==
    diffAt = "diffed" =>
        \A name \in {r.name : r \in Rpm} \ IgnoredPackage :
            LET newest(b) == Newest(logs[b], name)
                reported == \E row \in rows : row.package = name
                versions(b) == {r.version : r \in newest(b)}
            IN \/ \E b \in Build : PassedOver(logs[b], name)
               \/ source # "cpaas" /\ reported = (newest("control") # newest("test"))
               \/ source = "cpaas" /\ (versions("control") # versions("test") => reported)
=============================================================================
