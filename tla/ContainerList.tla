---------------------------- MODULE ContainerList ----------------------------
(* The list of containers a promotion pushes: for each label it promotes, the *)
(* registries client asks its one repository client for versions.csv, for the *)
(* template of tripleo-common at the commit named there, and for the exclude  *)
(* list of the release.  The client lives for the whole run, and what it      *)
(* learns of its release and of the prefix of the names stays with it.        *)
EXTENDS Naturals, Sequences, SequencesExt

CONSTANTS ContainerName,    (* names without their prefix                     *)
          Template,         (* what container_images may hold                 *)
          ExcludeFile       (* what the exclude list may say of a release     *)

(* An image of a template: its prefix, its name and its image_source.         *)
Prefix == {"centos-binary-", "openstack-"}
ImageSource == {"tripleo", "ceph", "none"}
TemplateImage == [prefix : Prefix, name : ContainerName, image_source : ImageSource]

ASSUME ContainerListAssumption ==
    /\ Template \subseteq Seq(TemplateImage)
    /\ ExcludeFile \subseteq [shape : {"none", "list", "distros", "other_distros"},
                              exclude : Seq(ContainerName), ppc : Seq(ContainerName)]

VARIABLES
    template,            (* the containers template of the commit             *)
    excludeFile,
    release,             (* self.release                                      *)
    containerPrefix,     (* self.container_preffix                            *)
    listing,             (* the next call of prepare_extra_vars               *)
    lists,               (* the answers to the promotions of the run          *)
    lost                 (* the exclude list of an answer was not available   *)

listVars == <<template, excludeFile, release, containerPrefix, listing, lists, lost>>

Release == {"master", "train", "osp16-2", "rhos-16.2"}
MaxPromotions == 2

ContainerListTypeOK ==
    /\ template \in Template
    /\ excludeFile \in ExcludeFile
    /\ release \in Release
    /\ containerPrefix \in Prefix
    /\ listing \in {"idle", "sha", "list", "excludes", "raised"}
    /\ lists \in Seq([containers_list : Seq(ContainerName),
                      ppc_containers_list : Seq(ContainerName)])
    /\ Len(lists) <= MaxPromotions + 1
    /\ lost \in BOOLEAN

ContainerListInit ==
    /\ template \in Template
    /\ excludeFile \in ExcludeFile
    /\ release \in {"master", "train", "osp16-2"}
    /\ containerPrefix = "openstack-"
    /\ listing = "idle"
    /\ lists = <<>>
    /\ lost = FALSE

Raises(step) ==
    /\ listing = step
    /\ listing' = "raised"
    /\ UNCHANGED <<template, excludeFile, release, containerPrefix, lists, lost>>

-----------------------------------------------------------------------------
(* get_versions_csv and get_commit_sha: without the file, or without          *)
(* tripleo-common in it, prepare_extra_vars raises PromotionError.            *)
GetVersionsCsv ==
    /\ listing = "idle"
    /\ Len(lists) < MaxPromotions
    /\ listing' = "sha"
    /\ UNCHANGED <<template, excludeFile, release, containerPrefix, lists, lost>>

GetCommitSha ==
    /\ listing = "sha"
    /\ listing' = "list"
    /\ UNCHANGED <<template, excludeFile, release, containerPrefix, lists, lost>>

OldNames == release \in {"train", "osp16-2"}

(* An image of the template that is built for the release, under the prefix;  *)
(* one without an image_source raises KeyError in a release that looks at it. *)
Listed(image, prefix) ==
    /\ OldNames \/ image.image_source \in {"tripleo", "kolla"}
    /\ image.prefix = prefix

(* The names of those, in their order. *)
Unprefixed(prefix) ==
    LET names[n \in 0 .. Len(template)] ==
            IF n = 0 THEN <<>>
            ELSE IF Listed(template[n], prefix) THEN Append(names[n - 1], template[n].name)
            ELSE names[n - 1]
    IN names[Len(template)]

(* get_containers_list up to load_excludes.  The prefix is the client's.      *)
GetContainersList ==
    /\ listing = "list"
    /\ containerPrefix' = IF OldNames THEN "centos-binary-" ELSE containerPrefix
    /\ IF ~OldNames /\ \E i \in DOMAIN template : template[i].image_source = "none"
       THEN listing' = "raised" /\ lists' = lists
       ELSE /\ listing' = "excludes"
            /\ LET full == Unprefixed(containerPrefix')
               IN lists' = Append(lists, [containers_list |-> full, ppc_containers_list |-> full])
    /\ UNCHANGED <<template, excludeFile, release, lost>>

(* The name of the release in the exclude list.                               *)
ReleaseMap(name) == IF name = "osp16-2" THEN "rhos-16.2" ELSE name

(* Mutant of Excluding: only the first of the names is removed. *)
ExcludingOne(list, names) == IF names = <<>> THEN list ELSE RemoveFirst(list, Head(names))

(* list.remove takes the first of several containers of one name away, as     *)
(* RemoveFirst of SequencesExt does.                                          *)
Excluding(list, names) ==
    LET left[n \in 0 .. Len(names)] ==
            IF n = 0 THEN list ELSE RemoveFirst(left[n - 1], names[n])
    IN left[Len(names)]

(* The exclude list is one of the release, or one for each of its distros; of *)
(* a release that lists other distros only, their names are taken for it.     *)
ExcludeList == IF excludeFile.shape \in {"list", "distros"} THEN excludeFile.exclude ELSE <<>>

(* load_excludes: whatever is missing excludes nothing.  An empty list of     *)
(* containers raises PromotionError afterwards.                               *)
LoadExcludes ==
    /\ listing = "excludes"
    /\ release' = ReleaseMap(release)
    /\ LET full == lists[Len(lists)].containers_list
       IN \E available \in BOOLEAN :
            /\ lost' = (lost \/ ~available)
            /\ lists' = [lists EXCEPT ![Len(lists)] =
                  [containers_list     |-> Excluding(full, IF available THEN ExcludeList ELSE <<>>),
                   ppc_containers_list |-> Excluding(full, IF available THEN excludeFile.ppc ELSE <<>>)]]
    /\ listing' = IF lists'[Len(lists)].containers_list = <<>> THEN "raised" ELSE "idle"
    /\ UNCHANGED <<template, excludeFile, containerPrefix>>

(* A download fails: no versions, no commit, or no template. *)
NoDownload == Raises("idle") \/ Raises("sha") \/ Raises("list")

ContainerListNext ==
    GetVersionsCsv \/ GetCommitSha \/ GetContainersList \/ LoadExcludes \/ NoDownload

ContainerListSpec == ContainerListInit /\ [][ContainerListNext]_listVars

-----------------------------------------------------------------------------
Distinct(images) ==
    \A i, j \in DOMAIN images : images[i].name = images[j].name => i = j

(* Each promotion of a run pushes the same containers, none that is excluded  *)
(* and each other one of the template, if its names are distinct and the      *)
(* exclude list could always be read.  Only osp16-2 is another release after  *)
(* its first list, and loses what has another image_source.                   *)
SameListForEachLabel ==
    listing = "idle" /\ Distinct(template) /\ ~lost =>
        /\ \A k \in DOMAIN lists :
              ToSet(lists[k].containers_list) \cap ToSet(ExcludeList) = {}
        /\ \A k \in DOMAIN lists :
              \A i \in DOMAIN template :
                 template[i].prefix = containerPrefix
                 /\ template[i].image_source = "tripleo"
                 /\ template[i].name \notin ToSet(ExcludeList)
                 => template[i].name \in ToSet(lists[k].containers_list)
        /\ \A k, m \in DOMAIN lists :
              lists[k] = lists[m] \/ release = "rhos-16.2"
=============================================================================
