------------------------- MODULE ContainerPushProofs -------------------------
(***************************************************************************)
(* What holds of the promotion of containers for any list of containers    *)
(* and any number of registries, however often tasks fail.                 *)
(***************************************************************************)
EXTENDS ContainerPush, TLAPS

(* Registry r has all that a successful run leaves there. *)
Done(r) ==
    /\ All(hash) \subseteq images[r]
    /\ \A c \in Container : named[r][c] = hash

(* While the block runs, no task has failed. *)
InBlock == {"inspecting", "pulling", "labelling", "pushing", "checking"}

(* What the tasks that are over have done. *)
Progress ==
    /\ pc \in InBlock => ok
    /\ pc \in {"inspecting", "pulling", "labelling"} => turn = 1
    /\ pc \in {"labelling", "pushing", "checking"} => All(hash) \subseteq images[Source]
    /\ pc \in {"pushing", "checking"} => Done(Source)
    /\ pc = "pushing" => \A i \in 1 .. turn - 1 : Done(Targets[i])
    /\ pc = "checking" => \A i \in 1 .. turn : Done(Targets[i])
    /\ (pc = "cleaning" /\ ok) => \A r \in Registry : Done(r)
    /\ result = "success" => pc = "idle" /\ \A r \in Registry : Done(r)

IInv == TypeOK /\ Progress /\ PublishedIsBuilt

LEMMA LastTarget == Len(Targets) \in Nat /\ Len(Targets) >= 1
<1>1. Targets \in Seq(Target) /\ Targets # << >>
  BY PushAssumption
<1>2. QED
  BY <1>1

LEMMA TargetIsRegistry ==
    ASSUME NEW i \in 1 .. Len(Targets)
    PROVE  /\ Targets[i] \in Target /\ Targets[i] \in Registry
           /\ Targets[i] # Source /\ Source \in Registry
BY PushAssumption DEF Target, Registry

LEMMA InitIInv == Init => IInv
<1> SUFFICES ASSUME Init PROVE IInv
  OBVIOUS
<1>1. TypeOK
  <2>1. turn \in 1 .. Len(Targets)
    BY LastTarget DEF Init
  <2>2. ok \in BOOLEAN /\ failed \in BOOLEAN /\ missing \in BOOLEAN
    BY Zenon DEF Init
  <2>3. QED
    BY <2>1, <2>2 DEF Init, TypeOK
<1>2. Progress
  BY DEF Init, Progress, InBlock
<1>3. PublishedIsBuilt
  BY DEF Init, PublishedIsBuilt, Registry
<1>4. QED
  BY <1>1, <1>2, <1>3 DEF IInv

-----------------------------------------------------------------------------
(* One lemma per action. *)

LEMMA BuildStep ==
    ASSUME IInv, NEW c \in Container, NEW h \in Hash, Build(c, h)
    PROVE  IInv'
<1> USE DEF Build, run
<1>1. TypeOK'
  <2>1. images' \in [Registry -> SUBSET (Container \X Hash)]
    <3>1. images \in [Registry -> SUBSET (Container \X Hash)]
      BY DEF IInv, TypeOK
    <3>2. <<c, h>> \in Container \X Hash
      OBVIOUS
    <3>3. QED
      BY <3>1, <3>2
  <2>2. QED
    BY <2>1 DEF IInv, TypeOK
<1>2. \A r \in Registry : images[r] \subseteq images'[r]
  BY DEF IInv, TypeOK
<1>3. Source \in Registry /\ \A i \in 1 .. Len(Targets) : Targets[i] \in Registry
  BY DEF Registry, Target
<1>4. \A r \in Registry : Done(r) => Done(r)'
  BY <1>2 DEF Done, All
<1>5. Progress'
  <2>1. pc \in {"labelling", "pushing", "checking"} => (All(hash) \subseteq images[Source])'
    BY <1>2, <1>3 DEF IInv, Progress, All
  <2>2. pc = "pushing" => \A i \in 1 .. turn - 1 : Done(Targets[i])'
    BY <1>3, <1>4 DEF IInv, Progress, TypeOK
  <2>3. pc = "checking" => \A i \in 1 .. turn : Done(Targets[i])'
    BY <1>3, <1>4 DEF IInv, Progress, TypeOK
  <2>4. QED
    BY <1>3, <1>4, <2>1, <2>2, <2>3 DEF IInv, Progress, InBlock
<1>6. \A t \in Target : images'[t] = images[t]
  BY PushAssumption DEF IInv, TypeOK
<1>7. PublishedIsBuilt'
  BY <1>2, <1>3, <1>6 DEF IInv, PublishedIsBuilt, All
<1>8. QED
  BY <1>1, <1>5, <1>7 DEF IInv

(* Steps that leave the registries alone. *)
LEMMA SameRegistries ==
    ASSUME IInv, UNCHANGED registries
    PROVE  PublishedIsBuilt' /\ (hash' = hash => \A r : Done(r)' <=> Done(r))
BY DEF IInv, PublishedIsBuilt, All, Done, registries

LEMMA StartStep ==
    ASSUME IInv, NEW h \in Hash, Start(h)
    PROVE  IInv'
<1> USE DEF Start
<1>1. TypeOK'
  <2>1. turn' \in 1 .. Len(Targets)
    BY LastTarget
  <2>2. ok' \in BOOLEAN /\ failed' \in BOOLEAN /\ missing' \in BOOLEAN
    BY Zenon
  <2>3. QED
    BY <2>1, <2>2 DEF IInv, TypeOK, registries
<1>2. Progress'
  BY DEF Progress, InBlock
<1>3. QED
  BY <1>1, <1>2, SameRegistries DEF IInv

LEMMA InspectStep ==
    ASSUME IInv, Inspect
    PROVE  IInv'
<1> USE DEF Inspect, End
<1>1. failed' \in BOOLEAN /\ missing' \in BOOLEAN
  BY Zenon DEF IInv, TypeOK
<1>2. TypeOK'
  BY <1>1 DEF IInv, TypeOK, registries
<1>3. Progress'
  BY DEF IInv, Progress, InBlock
<1>4. QED
  BY <1>2, <1>3, SameRegistries DEF IInv

LEMMA PullStep ==
    ASSUME IInv, Pull
    PROVE  IInv'
<1> USE DEF Pull, GiveUp
<1>1. failed' \in BOOLEAN /\ missing' \in BOOLEAN /\ ok' \in BOOLEAN
  BY Zenon DEF IInv, TypeOK
<1>2. TypeOK'
  BY <1>1 DEF IInv, TypeOK, registries
<1>3. Progress'
  BY DEF IInv, Progress, InBlock, All, registries
<1>4. QED
  BY <1>2, <1>3, SameRegistries DEF IInv

(* What labelling does at one registry. *)
LEMMA LabelStep ==
    ASSUME IInv, hash \in Hash, NEW r \in Registry, NEW done, Label(r, done)
    PROVE  /\ named' \in [Registry -> [Container -> Hash \cup {Nothing}]]
           /\ \A c \in Container :
                 named'[r][c] = IF c \in done THEN hash ELSE named[r][c]
           /\ \A q \in Registry \ {r} : named'[q] = named[q]
BY DEF IInv, TypeOK, Label

LEMMA LabelSourceStep ==
    ASSUME IInv, LabelSource
    PROVE  IInv'
<1>1. pc = "labelling" /\ hash \in Hash /\ Source \in Registry
      /\ All(hash) \subseteq images[Source]
  BY DEF LabelSource, FailedIn, IInv, TypeOK, Progress, Registry
<1>2. PublishedIsBuilt'
  BY DEF LabelSource, IInv, PublishedIsBuilt, All
<1>3. CASE /\ Label(Source, Container)
           /\ pc' = "pushing"
           /\ UNCHANGED <<images, hash, turn, result, missing, ok, failed>>
  <2>1. TypeOK'
    BY <1>1, <1>3, LabelStep DEF IInv, TypeOK
  <2>2. Done(Source)'
    BY <1>1, <1>3, LabelStep DEF Done, All
  <2>3. turn = 1 /\ ok /\ result # "success"
    BY <1>1 DEF IInv, Progress, InBlock
  <2>4. Progress'
    BY <1>1, <1>3, <2>2, <2>3 DEF Progress, InBlock, All
  <2>5. QED
    BY <2>1, <1>2, <2>4 DEF IInv
<1>4. CASE /\ FailedIn("labelling")
           /\ \E done \in SUBSET Container : Label(Source, done)
           /\ UNCHANGED <<images, hash, turn, result, missing>>
  <2>1. PICK done \in SUBSET Container : Label(Source, done)
    BY <1>4
  <2>2. ok' \in BOOLEAN /\ failed' \in BOOLEAN
    BY <1>4, Zenon DEF FailedIn, GiveUp
  <2>3. TypeOK'
    BY <1>1, <1>4, <2>1, <2>2, LabelStep DEF IInv, TypeOK, FailedIn, GiveUp
  <2>4. result # "success"
    BY <1>1 DEF IInv, Progress
  <2>5. Progress'
    BY <1>4, <2>4 DEF Progress, InBlock, FailedIn, GiveUp
  <2>6. QED
    BY <2>3, <1>2, <2>5 DEF IInv
<1>5. QED
  BY <1>3, <1>4 DEF LabelSource

(* Pushing adds images of a hash that the source registry has in full. *)
LEMMA PushedImages ==
    ASSUME IInv, hash \in Hash, All(hash) \subseteq images[Source],
           NEW t \in Target, NEW pushed \in SUBSET Container,
           images' = [images EXCEPT ![t] = @ \cup (pushed \X {hash})]
    PROVE  /\ images' \in [Registry -> SUBSET (Container \X Hash)]
           /\ images'[t] = images[t] \cup (pushed \X {hash})
           /\ \A r \in Registry \ {t} : images'[r] = images[r]
           /\ PublishedIsBuilt'
<1>1. images \in [Registry -> SUBSET (Container \X Hash)]
  BY DEF IInv, TypeOK
<1>2. pushed \X {hash} \subseteq Container \X Hash
  OBVIOUS
<1>3. t \in Registry /\ Source \in Registry /\ Source # t
  BY PushAssumption DEF Registry
<1>4. images' \in [Registry -> SUBSET (Container \X Hash)]
  BY <1>1, <1>2
<1>5. images'[t] = images[t] \cup (pushed \X {hash})
      /\ \A r \in Registry \ {t} : images'[r] = images[r]
  BY <1>1, <1>3
<1>6. ASSUME NEW q \in Target, NEW h \in Hash, All(h) \cap images'[q] # {}
      PROVE  All(h) \subseteq images'[Source]
  <2>1. images'[Source] = images[Source]
    BY <1>3, <1>5
  <2>2. CASE h = hash
    BY <2>1, <2>2
  <2>3. CASE h # hash
    <3>1. All(h) \cap images'[q] = All(h) \cap images[q]
      BY <1>5, <2>3 DEF All, Registry
    <3>2. QED
      BY <1>6, <2>1, <3>1 DEF IInv, PublishedIsBuilt
  <2>4. QED
    BY <2>2, <2>3
<1>7. PublishedIsBuilt'
  BY <1>6 DEF PublishedIsBuilt, All
<1>8. QED
  BY <1>4, <1>5, <1>7

LEMMA PushTargetStep ==
    ASSUME IInv, PushTarget
    PROVE  IInv'
<1> DEFINE t == Targets[turn]
<1>1. /\ pc = "pushing" /\ hash \in Hash /\ turn \in 1 .. Len(Targets)
      /\ t \in Target /\ t \in Registry /\ t # Source /\ Source \in Registry
      /\ All(hash) \subseteq images[Source]
  BY TargetIsRegistry DEF PushTarget, FailedIn, IInv, TypeOK, Progress
<1>2. CASE /\ images' = [images EXCEPT ![t] = @ \cup All(hash)]
           /\ Label(t, Container)
           /\ pc' = "checking"
           /\ UNCHANGED <<hash, turn, result, missing, ok, failed>>
  <2>1. images' = [images EXCEPT ![t] = @ \cup (Container \X {hash})]
    BY <1>2 DEF All
  <2>2. /\ images' \in [Registry -> SUBSET (Container \X Hash)]
        /\ images'[t] = images[t] \cup All(hash)
        /\ \A r \in Registry \ {t} : images'[r] = images[r]
        /\ PublishedIsBuilt'
    BY <1>1, <2>1, PushedImages DEF All
  <2>3. /\ named' \in [Registry -> [Container -> Hash \cup {Nothing}]]
        /\ \A c \in Container : named'[t][c] = hash
        /\ \A r \in Registry \ {t} : named'[r] = named[r]
    BY <1>1, <1>2, LabelStep
  <2>4. TypeOK'
    BY <1>1, <1>2, <2>2, <2>3 DEF IInv, TypeOK
  <2>5. Done(t)'
    BY <1>2, <2>2, <2>3 DEF Done, All
  <2>6. \A r \in Registry \ {t} : Done(r) => Done(r)'
    BY <1>2, <2>2, <2>3 DEF Done, All
  <2>7. \A i \in 1 .. turn : Done(Targets[i])'
    <3>1. ASSUME NEW i \in 1 .. turn PROVE Done(Targets[i])'
      <4>1. i \in 1 .. Len(Targets)
        BY <1>1
      <4>2. Targets[i] \in Registry
        BY <4>1, TargetIsRegistry
      <4>3. CASE Targets[i] = t
        BY <1>2, <2>5, <4>3
      <4>4. CASE Targets[i] # t
        <5>1. i \in 1 .. turn - 1
          BY <1>1, <4>4
        <5>2. Done(Targets[i])
          BY <1>1, <5>1 DEF IInv, Progress
        <5>3. QED
          BY <2>6, <4>2, <4>4, <5>2 DEF Done
      <4>5. QED
        BY <4>3, <4>4
    <3>2. QED
      BY <3>1, <1>2
  <2>8. Done(Source)' /\ ok /\ result # "success"
    BY <1>1, <2>6 DEF IInv, Progress, InBlock
  <2>9. Progress'
    BY <1>1, <1>2, <2>2, <2>7, <2>8 DEF Progress, InBlock, All
  <2>10. QED
    BY <2>2, <2>4, <2>9 DEF IInv
<1>3. CASE /\ FailedIn("pushing")
           /\ \E pushed, done \in SUBSET Container :
                 /\ images' = [images EXCEPT ![t] = @ \cup (pushed \X {hash})]
                 /\ Label(t, done)
           /\ UNCHANGED <<hash, turn, result, missing>>
  <2>1. PICK pushed, done \in SUBSET Container :
            /\ images' = [images EXCEPT ![t] = @ \cup (pushed \X {hash})]
            /\ Label(t, done)
    BY <1>3
  <2>2. /\ images' \in [Registry -> SUBSET (Container \X Hash)]
        /\ PublishedIsBuilt'
    BY <1>1, <2>1, PushedImages
  <2>3. named' \in [Registry -> [Container -> Hash \cup {Nothing}]]
    BY <1>1, <2>1, LabelStep
  <2>4. ok' \in BOOLEAN /\ failed' \in BOOLEAN
    BY <1>3, Zenon DEF FailedIn, GiveUp
  <2>5. TypeOK'
    BY <1>1, <1>3, <2>2, <2>3, <2>4 DEF IInv, TypeOK, FailedIn, GiveUp
  <2>6. result # "success"
    BY <1>1 DEF IInv, Progress
  <2>7. Progress'
    BY <1>3, <2>6 DEF Progress, InBlock, FailedIn, GiveUp
  <2>8. QED
    BY <2>2, <2>5, <2>7 DEF IInv
<1>4. QED
  BY <1>2, <1>3 DEF PushTarget

LEMMA CheckTargetStep ==
    ASSUME IInv, CheckTarget
    PROVE  IInv'
<1>1. pc = "checking" /\ hash \in Hash /\ turn \in 1 .. Len(Targets)
      /\ UNCHANGED <<registries, hash, result, missing>>
  BY DEF CheckTarget, FailedIn, IInv, TypeOK
<1>2. \A r : Done(r)' <=> Done(r)
  BY <1>1, SameRegistries
<1>3. CASE /\ pc' = IF turn = Len(Targets) THEN "cleaning" ELSE "pushing"
           /\ turn' = IF turn = Len(Targets) THEN turn ELSE turn + 1
           /\ UNCHANGED <<ok, failed>>
  <2>1. TypeOK'
    BY <1>1, <1>3, LastTarget DEF IInv, TypeOK, registries
  <2>2. \A i \in 1 .. turn : Done(Targets[i])
    BY <1>1 DEF IInv, Progress
  <2>3. turn = Len(Targets) => \A r \in Registry : Done(r)
    BY <1>1, <2>2 DEF IInv, Progress, Registry, Target
  <2>4. turn # Len(Targets) => 1 .. turn' - 1 = 1 .. turn
    BY <1>1, <1>3, LastTarget
  <2>5. Progress'
    BY <1>1, <1>2, <1>3, <2>2, <2>3, <2>4
       DEF IInv, Progress, InBlock, All, registries
  <2>6. QED
    BY <1>1, <2>1, <2>5, SameRegistries DEF IInv
<1>4. CASE GiveUp /\ UNCHANGED turn /\ failed' \in {failed, TRUE}
  <2>1. ok' \in BOOLEAN /\ failed' \in BOOLEAN
    BY <1>4, Zenon DEF GiveUp, IInv, TypeOK
  <2>2. TypeOK'
    BY <1>1, <1>4, <2>1 DEF IInv, TypeOK, registries, GiveUp
  <2>3. Progress'
    BY <1>1, <1>4 DEF IInv, Progress, InBlock, GiveUp
  <2>4. QED
    BY <1>1, <2>2, <2>3, SameRegistries DEF IInv
<1>5. QED
  BY <1>3, <1>4 DEF CheckTarget, FailedIn

LEMMA CleanUpStep ==
    ASSUME IInv, CleanUp
    PROVE  IInv'
<1> USE DEF CleanUp, End
<1>1. UNCHANGED <<registries, hash>>
  OBVIOUS
<1>2. failed' \in BOOLEAN
  BY Zenon DEF IInv, TypeOK
<1>3. TypeOK'
  BY <1>2 DEF IInv, TypeOK, registries
<1>4. Progress'
  BY <1>1, SameRegistries DEF IInv, Progress, InBlock
<1>5. QED
  BY <1>1, <1>3, <1>4, SameRegistries DEF IInv

LEMMA KillStep ==
    ASSUME IInv, Kill
    PROVE  IInv'
<1> USE DEF Kill, End
<1>1. TypeOK'
  BY DEF IInv, TypeOK, registries
<1>2. Progress'
  BY DEF Progress, InBlock
<1>3. QED
  BY <1>1, <1>2, SameRegistries DEF IInv

LEMMA StutteringStep ==
    ASSUME IInv, UNCHANGED vars
    PROVE  IInv'
<1> USE DEF vars
<1>1. TypeOK'
  BY DEF IInv, TypeOK
<1>2. \A r : Done(r)' <=> Done(r)
  BY SameRegistries DEF registries
<1>3. Progress'
  BY <1>2 DEF IInv, Progress, InBlock, All
<1>4. QED
  BY <1>1, <1>3, SameRegistries DEF IInv, registries

LEMMA NextStep ==
    ASSUME IInv, [Next]_vars
    PROVE  IInv'
BY BuildStep, StartStep, InspectStep, PullStep, LabelSourceStep, PushTargetStep,
   CheckTargetStep, CleanUpStep, KillStep, StutteringStep DEF Next, Task

(* The invariant of all the theorems below. *)
THEOREM PushInvariant == Spec => []IInv
<1>1. Init => IInv
  BY InitIInv
<1>2. IInv /\ [Next]_vars => IInv'
  BY NextStep
<1>3. QED
  BY <1>1, <1>2, PTL DEF Spec

(* The variables of ContainerPush keep their types (containers-promote). *)
THEOREM PushTypeCorrect == Spec => []TypeOK
<1>1. IInv => TypeOK
  BY DEF IInv
<1>2. QED
  BY <1>1, PushInvariant, PTL

(***************************************************************************)
(* A success of RegistriesClient.promote means that all containers carry   *)
(* the hash and the label at all registries, however many there are.       *)
(***************************************************************************)
THEOREM SuccessIsComplete == Spec => []SuccessMeansPushed
<1>1. IInv => SuccessMeansPushed
  BY DEF IInv, Progress, SuccessMeansPushed, Done
<1>2. QED
  BY <1>1, PushInvariant, PTL

(* No part of a build is published before all of it has been built. *)
THEOREM OnlyBuiltIsPublished == Spec => []PublishedIsBuilt
<1>1. IInv => PublishedIsBuilt
  BY DEF IInv
<1>2. QED
  BY <1>1, PushInvariant, PTL

-----------------------------------------------------------------------------
(* With one target registry, the check looks at what was just pushed. *)

Blame ==
    /\ ~ok => failed \/ missing
    /\ result = "PromotionError" => failed \/ missing

LEMMA BlameStep ==
    ASSUME Len(Targets) = 1, IInv, Blame, [Next]_vars
    PROVE  Blame'
<1>1. CASE \E c \in Container, h \in Hash : Build(c, h)
  BY <1>1 DEF Build, run, Blame
<1>2. CASE \E h \in Hash : Start(h)
  BY <1>2 DEF Start, Blame
<1>3. CASE Inspect
  BY <1>3 DEF Inspect, End, Blame
<1>4. CASE Pull
  BY <1>4 DEF Pull, GiveUp, Blame
<1>5. CASE LabelSource
  BY <1>5 DEF LabelSource, FailedIn, GiveUp, Blame
<1>6. CASE PushTarget
  BY <1>6 DEF PushTarget, FailedIn, GiveUp, Blame
<1>7. CASE CheckTarget
  <2>1. turn = 1 /\ Done(Targets[turn])
    BY <1>7 DEF CheckTarget, FailedIn, IInv, TypeOK, Progress
  <2>2. Inspected(hash) \subseteq images[Targets[Len(Targets)]]
    BY <2>1 DEF Done, All, Inspected
  <2>3. QED
    BY <1>7, <2>2 DEF CheckTarget, FailedIn, GiveUp, Blame
<1>8. CASE CleanUp
  BY <1>8 DEF CleanUp, End, Blame
<1>9. CASE Kill
  BY <1>9 DEF Kill, End, Blame
<1>10. CASE UNCHANGED vars
  BY <1>10 DEF vars, Blame
<1>11. QED
  BY <1>1, <1>2, <1>3, <1>4, <1>5, <1>6, <1>7, <1>8, <1>9, <1>10 DEF Next, Task

(***************************************************************************)
(* Without a failing call the promotion of a built hash succeeds - if      *)
(* there is a single target registry ("Check if images were pushed").      *)
(***************************************************************************)
THEOREM OneTargetSucceeds ==
    ASSUME Len(Targets) = 1
    PROVE  Spec => []FailureFreeSucceeds
<1>1. Init => Blame
  BY DEF Init, Blame
<1>2. IInv /\ Blame /\ [Next]_vars => Blame'
  BY BlameStep
<1>3. Blame => FailureFreeSucceeds
  BY DEF Blame, FailureFreeSucceeds
<1>4. QED
  BY <1>1, <1>2, <1>3, PushInvariant, PTL DEF Spec

-----------------------------------------------------------------------------
(* The refinement of ContainerClient. *)

LEMMA SomeContainer == \E c \in Container : TRUE
BY PushAssumption

(* At most one hash is on all containers. *)
LEMMA LabelledContainers ==
    ASSUME NEW h \in Hash \cup {Nothing}, Labelled(h)
    PROVE  Containers = h
<1>1. \A g \in Hash \cup {Nothing} : Labelled(g) => g = h
  BY SomeContainer DEF Labelled, Registry
<1>2. QED
  BY <1>1 DEF Containers

(* Labelling some containers of r with the hash of the run is a Push. *)
LEMMA LabelIsPush ==
    ASSUME IInv, hash \in Hash, NEW r \in Registry, NEW done \in SUBSET Container,
           Label(r, done)
    PROVE  Containers' \in {Containers, Mixed, hash}
<1>1. CASE done = {}
  <2>1. named' = named
    BY <1>1 DEF Label, IInv, TypeOK
  <2>2. QED
    BY <2>1 DEF Containers, Labelled
<1>2. CASE done # {}
  <2>1. PICK c \in done : TRUE
    BY <1>2
  <2>2. named'[r][c] = hash
    BY <2>1, LabelStep
  <2>3. \A h \in Hash \cup {Nothing} : Labelled(h)' => h = hash
    BY <2>1, <2>2 DEF Labelled
  <2>4. QED
    BY <2>3 DEF Containers
<1>3. QED
  BY <1>1, <1>2

(* What a step of the playbook is for ContainerClient. *)
LEMMA StepAbstract ==
    ASSUME IInv, [Next]_vars
    PROVE  [Abstract!Next]_<<Containers, Phase, Candidate>>
<1> DEFINE abstract == <<Containers, Phase, Candidate>>
<1>1. UNCHANGED named => UNCHANGED Containers
  BY DEF Containers, Labelled
<1>2. CASE \E c \in Container, h \in Hash : Build(c, h)
  <2>1. UNCHANGED abstract
    BY <1>1, <1>2 DEF Build, run, Phase, Candidate
  <2>2. QED
    BY <2>1
<1>3. ASSUME NEW h \in Hash, Start(h)
      PROVE  Abstract!Call(h)
  BY <1>1, <1>3 DEF Start, registries, Phase, Candidate, Abstract!Call
<1>4. CASE Inspect
  <2>1. UNCHANGED abstract \/ Abstract!Fail
    BY <1>1, <1>4
       DEF Inspect, End, registries, Phase, Candidate, Abstract!Fail
  <2>2. QED
    BY <2>1 DEF Abstract!Next
<1>5. CASE Pull
  <2>1. UNCHANGED abstract
    BY <1>1, <1>5 DEF Pull, GiveUp, registries, Phase, Candidate
  <2>2. QED
    BY <2>1
<1>6. CASE LabelSource
  <2>1. pc = "labelling" /\ pc' # "idle" /\ hash \in Hash /\ hash' = hash
        /\ Source \in Registry
    BY <1>6 DEF LabelSource, FailedIn, GiveUp, IInv, TypeOK, Registry
  <2>2. \E done \in SUBSET Container : Label(Source, done)
    BY <1>6 DEF LabelSource
  <2>3. Containers' \in {Containers, Mixed, hash}
    BY <2>1, <2>2, LabelIsPush
  <2>4. UNCHANGED abstract \/ Abstract!Push
    BY <2>1, <2>3 DEF Phase, Candidate, Abstract!Push
  <2>5. QED
    BY <2>4 DEF Abstract!Next
<1>7. CASE PushTarget
  <2>1. pc = "pushing" /\ pc' # "idle" /\ hash \in Hash /\ hash' = hash
        /\ Targets[turn] \in Registry
    BY <1>7, TargetIsRegistry
       DEF PushTarget, FailedIn, GiveUp, IInv, TypeOK
  <2>2. \E done \in SUBSET Container : Label(Targets[turn], done)
    BY <1>7 DEF PushTarget
  <2>3. Containers' \in {Containers, Mixed, hash}
    BY <2>1, <2>2, LabelIsPush
  <2>4. UNCHANGED abstract \/ Abstract!Push
    BY <2>1, <2>3 DEF Phase, Candidate, Abstract!Push
  <2>5. QED
    BY <2>4 DEF Abstract!Next
<1>8. CASE CheckTarget
  <2>1. UNCHANGED abstract
    BY <1>1, <1>8
       DEF CheckTarget, FailedIn, GiveUp, registries, Phase, Candidate
  <2>2. QED
    BY <2>1
<1>9. CASE CleanUp
  <2>1. pc = "cleaning" /\ pc' = "idle" /\ UNCHANGED <<named, hash>>
        /\ hash \in Hash /\ UNCHANGED Containers
    BY <1>1, <1>9 DEF CleanUp, End, registries, IInv, TypeOK
  <2>2. CASE result' = "success"
    <3>1. Labelled(hash)
      BY <1>9, <2>2 DEF CleanUp, End, IInv, Progress, Done, Labelled
    <3>2. Containers = hash
      BY <2>1, <3>1, LabelledContainers
    <3>3. Abstract!Succeed
      BY <2>1, <2>2, <3>2 DEF Phase, Candidate, Abstract!Succeed
    <3>4. QED
      BY <3>3 DEF Abstract!Next
  <2>3. CASE result' # "success"
    <3>1. Abstract!Fail
      BY <2>1, <2>3 DEF Phase, Candidate, Abstract!Fail
    <3>2. QED
      BY <3>1 DEF Abstract!Next
  <2>4. QED
    BY <2>2, <2>3
<1>10. CASE Kill
  <2>1. Abstract!Fail
    BY <1>1, <1>10 DEF Kill, End, registries, Phase, Candidate, Abstract!Fail
  <2>2. QED
    BY <2>1 DEF Abstract!Next
<1>11. CASE UNCHANGED vars
  <2>1. UNCHANGED abstract
    BY <1>1, <1>11 DEF vars, Phase, Candidate
  <2>2. QED
    BY <2>1
<1>12. QED
  BY <1>2, <1>3, <1>4, <1>5, <1>6, <1>7, <1>8, <1>9, <1>10, <1>11
     DEF Next, Task, Abstract!Next

LEMMA InitAbstract == Init => Abstract!Init
<1> SUFFICES ASSUME Init PROVE Abstract!Init
  OBVIOUS
<1>1. Labelled(Nothing)
  BY DEF Init, Labelled
<1>2. Containers = Nothing
  BY <1>1, LabelledContainers
<1>3. QED
  BY <1>2 DEF Init, Phase, Candidate, Abstract!Init

(***************************************************************************)
(* The playbook, task by task, keeps the promise of ContainerClient on     *)
(* which Promoter relies (RegistriesClient.promote).                       *)
(***************************************************************************)
THEOREM PushImplementsContainerClient == Spec => ImplementsContainerClient
<1>1. Init => Abstract!Init
  BY InitAbstract
<1>2. IInv /\ [Next]_vars => [Abstract!Next]_<<Containers, Phase, Candidate>>
  BY StepAbstract
<1>3. QED
  BY <1>1, <1>2, PushInvariant, PTL
     DEF Spec, ImplementsContainerClient, Abstract!Spec
=============================================================================
