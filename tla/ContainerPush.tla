---------------------------- MODULE ContainerPush ----------------------------
(***************************************************************************)
(* The promotion of the containers of a hash to a label, task by task:     *)
(* RegistriesClient.promote (dlrnapi_promoter/registries_client.py), which *)
(* runs the playbook container-push.yml and its role containers-promote.   *)
(*                                                                         *)
(* The containers of a build appear at the source registry one by one.     *)
(* The role checks that all of them are there, pulls them, gives them the  *)
(* label at the source registry and then, registry after registry, pushes  *)
(* them under the hash and under the label and checks the result.          *)
(*                                                                         *)
(* A task is one step.  Its loop goes on after an item that fails, and the *)
(* task fails in the end: any subset of the items may have been done.      *)
(* Local images do not outlive a run that matters: a run that gets past    *)
(* "Tag images" has pulled and tagged all of them itself.                  *)
(*                                                                         *)
(* Manifests for several architectures (manifest_push, off by default) are *)
(* left out.                                                               *)
(***************************************************************************)
EXTENDS Naturals, Sequences

CONSTANTS
    Hash,       \* full_hash
    Container,  \* the containers of a build, base images included
    Base,       \* base_container_images: appended to the list, not inspected
    Source,     \* source_registry
    Targets,    \* target_registries, in their order
    Nothing,    \* the label is on no image
    Mixed       \* the label is on images of several hashes, or on some only

Target == {Targets[i] : i \in 1 .. Len(Targets)}

Registry == {Source} \cup Target

ASSUME PushAssumption ==
    /\ Base \subseteq Container /\ Base # Container
    /\ Targets \in Seq(Target) /\ Targets # << >>
    /\ \A i, j \in 1 .. Len(Targets) : Targets[i] = Targets[j] => i = j
    /\ Source \notin Target
    /\ Nothing \notin Hash /\ Mixed \notin Hash /\ Nothing # Mixed

VARIABLES
    images,   \* per registry: container and hash, the images tagged by hash
    named,    \* per registry and container: the hash the label is on
    pc,       \* the next task
    hash,     \* full_hash, the candidate
    turn,     \* index of the target registry
    ok,       \* no task of the block has failed
    result,   \* how the run ended: "success", "PromotionError", "killed"
    (* History variables, which the code does not have: *)
    failed,   \* a call to a registry failed in this run
    missing   \* the source registry lacked a container in this run

registries == <<images, named>>
run        == <<pc, hash, turn, ok, result>>
vars       == <<images, named, pc, hash, turn, ok, result, failed, missing>>

TypeOK ==
    /\ images \in [Registry -> SUBSET (Container \X Hash)]
    /\ named \in [Registry -> [Container -> Hash \cup {Nothing}]]
    /\ pc \in {"idle", "inspecting", "pulling", "labelling", "pushing",
               "checking", "cleaning"}
    /\ hash \in Hash \cup {Nothing}
    /\ turn \in 1 .. Len(Targets)
    /\ ok \in BOOLEAN
    /\ result \in {"none", "success", "PromotionError", "killed"}
    /\ failed \in BOOLEAN /\ missing \in BOOLEAN
    /\ pc # "idle" => hash \in Hash

Init ==
    /\ images = [r \in Registry |-> {}]
    /\ named = [r \in Registry |-> [c \in Container |-> Nothing]]
    /\ pc = "idle"
    /\ hash = Nothing
    /\ turn = 1
    /\ ok = TRUE
    /\ result = "none"
    /\ failed = FALSE
    /\ missing = FALSE

-----------------------------------------------------------------------------
(* A job of the component pipeline uploads a container it has built. *)
Build(c, h) ==
    /\ <<c, h>> \notin images[Source]
    /\ images' = [images EXCEPT ![Source] = @ \cup {<<c, h>>}]
    /\ UNCHANGED <<named, run, failed, missing>>

(* prepare_extra_vars and the start of the playbook. *)
Start(h) ==
    /\ pc = "idle"
    /\ pc' = "inspecting"
    /\ hash' = h
    /\ turn' = 1
    /\ ok' = TRUE
    /\ result' = "none"
    /\ failed' = FALSE
    /\ missing' = FALSE
    /\ UNCHANGED registries

(* The playbook ends; a return code other than 0 is a PromotionError. *)
End(r) == pc' = "idle" /\ result' = r

(* A task of the block has failed: nothing but the "always" part is left. *)
GiveUp == pc' = "cleaning" /\ ok' = FALSE

(* The images of h that the role inspects, and those of all of its loops. *)
Inspected(h) == (Container \ Base) \X {h}
All(h)       == Container \X {h}

(***************************************************************************)
(* generate_list.sh against the source registry, and "Fail if there are    *)
(* missing containers".  An inspection that fails counts as missing.       *)
(***************************************************************************)
Inspect ==
    /\ pc = "inspecting"
    /\ \/ /\ Inspected(hash) \subseteq images[Source]
          /\ pc' = "pulling"
          /\ UNCHANGED <<result, failed, missing>>
       \/ /\ ~(Inspected(hash) \subseteq images[Source])
          /\ missing' = TRUE
          /\ End("PromotionError")
          /\ UNCHANGED failed
       \/ /\ failed' = TRUE
          /\ End("PromotionError")
          /\ UNCHANGED missing
    /\ UNCHANGED <<registries, hash, turn, ok>>

(* Mutant of Pull: errors are ignored. *)
PullSome ==
    /\ pc = "pulling"
    /\ pc' = "labelling"
    /\ UNCHANGED <<registries, hash, turn, ok, result, failed, missing>>

(* The login and "Pull the images from source registry". *)
Pull ==
    /\ pc = "pulling"
    /\ \/ /\ All(hash) \subseteq images[Source]
          /\ pc' = "labelling"
          /\ UNCHANGED <<ok, failed, missing>>
       \/ /\ ~(All(hash) \subseteq images[Source])
          /\ missing' = TRUE
          /\ GiveUp
          /\ UNCHANGED failed
       \/ /\ failed' = TRUE
          /\ GiveUp
          /\ UNCHANGED missing
    /\ UNCHANGED <<registries, hash, turn, result>>

(* Mutant of Label: only the containers of the inspected list. *)
LabelInspected(r, done) ==
    named' = [named EXCEPT ![r] =
                [c \in Container |-> IF c \in done \ Base THEN hash ELSE @[c]]]

(* The images of some containers receive the label at registry r. *)
Label(r, done) ==
    named' = [named EXCEPT ![r] =
                [c \in Container |-> IF c \in done THEN hash ELSE @[c]]]

(* A loop over the containers has been through, and some items failed. *)
FailedIn(task) == pc = task /\ failed' = TRUE /\ GiveUp

(* "Push images to source registry with named label". *)
LabelSource ==
    /\ \/ /\ pc = "labelling"
          /\ Label(Source, Container)
          /\ pc' = "pushing"
          /\ UNCHANGED <<ok, failed>>
       \/ /\ FailedIn("labelling")
          /\ \E done \in SUBSET Container : Label(Source, done)
    /\ UNCHANGED <<images, hash, turn, result, missing>>

(* Mutant of PushTarget: the images are pushed under the label only. *)
PushTargetLabels ==
    /\ \/ /\ pc = "pushing"
          /\ Label(Targets[turn], Container)
          /\ pc' = "checking"
          /\ UNCHANGED <<ok, failed>>
       \/ /\ FailedIn("pushing")
          /\ \E done \in SUBSET Container : Label(Targets[turn], done)
    /\ UNCHANGED <<images, hash, turn, result, missing>>

(* "Tag and push images to registry": the hash first, then the label. *)
PushTarget ==
    /\ \/ /\ pc = "pushing"
          /\ images' = [images EXCEPT ![Targets[turn]] = @ \cup All(hash)]
          /\ Label(Targets[turn], Container)
          /\ pc' = "checking"
          /\ UNCHANGED <<ok, failed>>
       \/ /\ FailedIn("pushing")
          /\ \E pushed, done \in SUBSET Container :
                /\ images' = [images EXCEPT ![Targets[turn]] =
                                @ \cup (pushed \X {hash})]
                /\ Label(Targets[turn], done)
    /\ UNCHANGED <<hash, turn, result, missing>>

(* Mutant of CheckTarget: the loop goes one registry too far. *)
CheckTargetPastEnd ==
    /\ pc = "checking"
    /\ turn <= Len(Targets)
    /\ turn' = turn + 1
    /\ pc' = IF turn > Len(Targets) THEN "cleaning" ELSE "pushing"
    /\ UNCHANGED <<registries, hash, ok, result, failed, missing>>

(***************************************************************************)
(* "Check if images were pushed": whichever registry has just been pushed  *)
(* to, the script inspects the one its loop over target_registries leaves  *)
(* in target_registry, the last.  Then comes the next registry.            *)
(***************************************************************************)
CheckTarget ==
    /\ pc = "checking"
    /\ \/ /\ Inspected(hash) \subseteq images[Targets[Len(Targets)]]
          /\ pc' = IF turn = Len(Targets) THEN "cleaning" ELSE "pushing"
          /\ turn' = IF turn = Len(Targets) THEN turn ELSE turn + 1
          /\ UNCHANGED <<ok, failed>>
       \/ /\ ~(Inspected(hash) \subseteq images[Targets[Len(Targets)]])
          /\ GiveUp
          /\ UNCHANGED <<turn, failed>>
       \/ /\ FailedIn("checking")
          /\ UNCHANGED turn
    /\ UNCHANGED <<registries, hash, result, missing>>

(* Mutant of CleanUp: the "always" part rescues the block. *)
CleanUpRescues ==
    /\ pc = "cleaning"
    /\ End("success")
    /\ UNCHANGED <<registries, hash, turn, ok, failed, missing>>

(* The "always" part: local images go.  This may fail too. *)
CleanUp ==
    /\ pc = "cleaning"
    /\ \/ /\ End(IF ok THEN "success" ELSE "PromotionError")
          /\ UNCHANGED failed
       \/ /\ End("PromotionError")
          /\ failed' = TRUE
    /\ UNCHANGED <<registries, hash, turn, ok, missing>>

(* timeout(1) ends the promoter and its playbook. *)
Kill ==
    /\ pc # "idle"
    /\ End("killed")
    /\ UNCHANGED <<registries, hash, turn, ok, failed, missing>>

-----------------------------------------------------------------------------
Task ==
    \/ Inspect \/ Pull \/ LabelSource \/ PushTarget \/ CheckTarget \/ CleanUp

Next ==
    \/ \E c \in Container, h \in Hash : Build(c, h)
    \/ \E h \in Hash : Start(h)
    \/ Task \/ Kill

Spec == Init /\ [][Next]_vars

-----------------------------------------------------------------------------
(***************************************************************************)
(* A run that is reported as a success has left every container, those the *)
(* check does not inspect included, under the hash and under the label at  *)
(* every registry (RegistriesClient.promote).                              *)
(***************************************************************************)
SuccessMeansPushed ==
    result = "success" =>
        \A r \in Registry :
            /\ All(hash) \subseteq images[r]
            /\ \A c \in Container : named[r][c] = hash

(***************************************************************************)
(* Nothing of a build reaches a target registry before all of it has been  *)
(* built, whatever builds are still going on and whatever is half pushed.  *)
(***************************************************************************)
PublishedIsBuilt ==
    \A t \in Target, h \in Hash :
        All(h) \cap images[t] # {} => All(h) \subseteq images[Source]

(***************************************************************************)
(* "Check if images were pushed" (registry-push.yml) finds fault only with *)
(* a push: a run of which no call fails, for a hash whose containers are   *)
(* all built, succeeds.                                                    *)
(***************************************************************************)
FailureFreeSucceeds == result = "PromotionError" => failed \/ missing

(***************************************************************************)
(* The promise to the promoter: the playbook, task by task, implements     *)
(* module ContainerClient.                                                 *)
(***************************************************************************)
Labelled(h) == \A r \in Registry, c \in Container : named[r][c] = h

Containers ==
    IF \E h \in Hash \cup {Nothing} : Labelled(h)
    THEN CHOOSE h \in Hash \cup {Nothing} : Labelled(h)
    ELSE Mixed

Phase ==
    IF pc # "idle" THEN "calling"
    ELSE IF result = "success" THEN "returned" ELSE "idle"

Candidate == IF Phase = "idle" THEN Nothing ELSE hash

Abstract == INSTANCE ContainerClient
                WITH containers <- Containers, phase <- Phase,
                     candidate <- Candidate

ImplementsContainerClient == Abstract!Spec
=============================================================================
