--------------------------- MODULE PromoterProofs ---------------------------
(***************************************************************************)
(* What holds of Promoter for every configuration of labels, every set of  *)
(* hashes and every bound: its type invariant, that containers are         *)
(* promoted before the DLRN label, that the check of the named hashes sees *)
(* every interference from outside, and that the previous label names the  *)
(* hash to fall back to.                                                   *)
(***************************************************************************)
EXTENDS Promoter, DlrnPromotionsProofs

USE LabelAssumption, NothingAssumption, BoundsAssumption

-----------------------------------------------------------------------------
(* The inductive invariant. *)

Working == {"checking", "promoting", "pushing", "linking", "saving", "posting"}

(* The server stamps with its clock, and a list of promotions is finite. *)
Histories ==
    \A l \in Label :
        /\ IsFiniteSet(labels[l])
        /\ \A e \in labels[l] : e.ts <= clock

(* What the process that holds the lock has at hand at each place. *)
RunShape ==
    /\ pc # "idle" => turn \in 1 .. Len(Targets) /\ mode # "none"
    /\ pc \in Working =>
          candidate \in Candidate /\ candidate.ts <= clock /\ clients # {}
    /\ pc = "pushing" => IsNext("registries_client")
    /\ pc = "linking" => IsNext("qcow_client")
    /\ pc \in {"saving", "posting"} => IsNext("dlrn_client")
    /\ pc = "saving" => incumbent \in Promotion

(* The containers are promoted when registries_client has been called. *)
ContainersReady ==
    (mode = "promote-all" /\ pc \in Working
        /\ "registries_client" \notin clients) =>
            containers[Targets[turn]] = candidate.hash

(* What named_hashes_map has for a label was there when the run started,  *)
(* or is older than a promotion that the label got since.                 *)
StoredIsOld ==
    /\ started <= clock
    /\ \A t \in Target : stored[t] # NoEntry =>
          /\ stored[t] \in Candidate
          /\ \/ stored[t].ts <= started
             \/ \E e \in labels[t] : stored[t].ts < e.ts

IInv ==
    /\ TypeOK
    /\ Histories
    /\ RunShape
    /\ ContainersReady
    /\ StoredIsOld

(* Initially no run is going on and every history is empty. *)
LEMMA InitIInv == Init => IInv
<1> SUFFICES ASSUME Init
             PROVE  IInv
  OBVIOUS
<1>1. TypeOK
  BY DEF Init, TypeOK
<1>2. Histories
  BY FS_EmptySet DEF Init, Histories
<1>3. RunShape /\ ContainersReady /\ StoredIsOld
  BY DEF Init, RunShape, ContainersReady, StoredIsOld, Working
<1>4. QED
  BY <1>1, <1>2, <1>3 DEF IInv

-----------------------------------------------------------------------------
(* Facts about the constants and about what the server answers. *)

LEMMA TargetsType ==
    /\ Target \subseteq Label
    /\ Len(Targets) \in Nat \ {0}
    /\ \A i \in 1 .. Len(Targets) : Targets[i] \in Target
BY DEF Target

(* The newest promotion of a label, if there is one, is one of its list. *)
LEMMA Newest1Type ==
    ASSUME TypeOK, Histories, NEW l \in Label, Newest1(l) # NoEntry
    PROVE  Newest1(l) \in labels[l] /\ Newest1(l) \in Promotion
           /\ Newest1(l).ts <= clock /\ Newest1(l).ts \in Nat
<1> DEFINE list == FetchPromotions(labels[l], 1)
<1>1. labels[l] \subseteq Promotion /\ clock \in Nat
  BY DEF TypeOK
<1>2. list \subseteq labels[l] /\ list # {}
  BY FetchedSubset DEF Newest1
<1>3. \A e \in list : e.ts <= clock
  BY <1>2 DEF Histories
<1>4. Latest(list) \in list
  <2> HIDE DEF list
  <2> QED
    BY <1>1, <1>2, <1>3, LatestOfList
<1>5. Newest1(l) = Latest(list)
  BY DEF Newest1
<1>6. QED
  BY <1>1, <1>2, <1>3, <1>4, <1>5 DEF Promotion

(* A candidate that is selected was promoted to its candidate label. *)
LEMMA EligibleType ==
    ASSUME TypeOK, Histories, NEW t \in Target, Eligible(t) # {}
    PROVE  /\ Latest(Eligible(t)) \in Candidate
           /\ Latest(Eligible(t)).ts <= clock
<1> DEFINE list == Eligible(t)
<1>1. CandidateOf[t] \in Label
  OBVIOUS
<1>2. labels[CandidateOf[t]] \subseteq Promotion /\ clock \in Nat
  BY <1>1 DEF TypeOK
<1>3. list # {} /\ list \subseteq labels[CandidateOf[t]]
  BY FetchedSubset, SelectedSubset DEF Eligible, Selected
<1>4. \A e \in list : e.ts <= clock
  BY <1>1, <1>3 DEF Histories
<1>5. Latest(list) \in list
  <2> HIDE DEF list
  <2> QED
    BY <1>2, <1>3, <1>4, LatestOfList
<1>6. QED
  BY <1>2, <1>3, <1>4, <1>5 DEF Promotion, Candidate

(* The client whose turn it is is one of the clients, and it is not the   *)
(* turn of another one.                                                    *)
LEMMA NextIsClient ==
    ASSUME clients \subseteq Client, NEW client, IsNext(client)
    PROVE  /\ client \in clients
           /\ client # "registries_client" => "registries_client" \notin clients
BY DEF IsNext, Client, Order

-----------------------------------------------------------------------------
(* The ends of a step: the run is over, goes on to the next target, or to  *)
(* the next client.                                                        *)

RunType ==
    /\ pc \in {"idle", "selecting", "checking", "promoting",
               "pushing", "linking", "saving", "posting"}
    /\ mode \in {"none", "promote-all", "force-promote"}
    /\ turn \in 0 .. Len(Targets)
    /\ stored \in [Target -> Candidate \cup {NoEntry}]
    /\ candidate \in Candidate \cup {NoEntry}
    /\ clients \subseteq Client
    /\ incumbent \in Promotion \cup {NoEntry}
    /\ started \in Nat
    /\ result \in {"none", "terminated", "PromotionError",
                   "HashChangedError", "crashed"}

Run == RunType /\ RunShape /\ ContainersReady

LEMMA EndRunStep ==
    ASSUME IInv, EndRun("terminated") \/ EndRun("PromotionError")
                 \/ EndRun("HashChangedError") \/ EndRun("crashed")
    PROVE  Run' /\ started' = started /\ \A t \in Target : stored'[t] = NoEntry
<1>1. RunType'
  BY TargetsType DEF EndRun, IInv, TypeOK, RunType
<1>2. RunShape' /\ ContainersReady'
  BY DEF EndRun, RunShape, ContainersReady, Working
<1>3. QED
  BY <1>1, <1>2 DEF Run, EndRun

LEMMA NextTargetStep ==
    ASSUME IInv, pc # "idle",
           NEW map \in [Target -> Candidate \cup {NoEntry}],
           NextTarget("terminated", map) \/ NextTarget("PromotionError", map)
    PROVE  /\ Run' /\ started' = started
           /\ stored' = map \/ \A t \in Target : stored'[t] = NoEntry
<1>1. CASE EndRun("terminated") \/ EndRun("PromotionError")
  BY <1>1, EndRunStep
<1>2. CASE ~(EndRun("terminated") \/ EndRun("PromotionError"))
  <2>1. /\ mode = "promote-all" /\ turn < Len(Targets)
        /\ pc' = "selecting" /\ turn' = turn + 1 /\ stored' = map
        /\ candidate' = NoEntry /\ clients' = {} /\ incumbent' = NoEntry
        /\ UNCHANGED <<mode, started, result>>
    BY <1>2 DEF NextTarget
  <2>2. RunType'
    BY <2>1, TargetsType DEF IInv, TypeOK, RunType
  <2>3. RunShape' /\ ContainersReady'
    BY <2>1, TargetsType DEF IInv, TypeOK, RunShape, ContainersReady, Working
  <2>4. QED
    BY <2>1, <2>2, <2>3 DEF Run
<1>3. QED
  BY <1>1, <1>2

(* When registries_client returns, the containers must be those of the     *)
(* candidate.                                                              *)
LEMMA ClientDoneStep ==
    ASSUME IInv, pc \in Working, NEW client, IsNext(client),
           NEW map \in [Target -> Candidate \cup {NoEntry}],
           ClientDone(client, map), clock' \in Nat, clock <= clock',
           containers' = containers
             \/ containers'[Targets[turn]] = candidate.hash,
           client = "registries_client" =>
                containers'[Targets[turn]] = candidate.hash
    PROVE  /\ Run' /\ started' = started
           /\ stored' = map \/ \A t \in Target : stored'[t] = NoEntry
<1>1. CASE clients = {client}
  <2>1. NextTarget("terminated", map)
    BY <1>1 DEF ClientDone
  <2>2. QED
    BY <2>1, NextTargetStep DEF Working
<1>2. CASE clients # {client}
  <2>1. /\ clients' = clients \ {client} /\ pc' = "checking"
        /\ stored' = map /\ incumbent' = NoEntry
        /\ UNCHANGED <<mode, turn, candidate, started, result>>
    BY <1>2 DEF ClientDone
  <2>2. RunType'
    BY <2>1 DEF IInv, TypeOK, RunType
  <2>3. clients' # {}
    BY <1>2, <2>1 DEF IsNext
  <2>4. RunShape'
    BY <2>1, <2>3 DEF IInv, TypeOK, RunShape, Working, Candidate
  <2>5. ContainersReady'
    BY <2>1, NextIsClient DEF IInv, TypeOK, ContainersReady, Working
  <2>6. QED
    BY <2>1, <2>2, <2>4, <2>5 DEF Run
<1>3. QED
  BY <1>1, <1>2

-----------------------------------------------------------------------------
(* What a step does to the stores, and what it leaves of the invariant. *)

StoresType ==
    /\ labels \in [Label -> SUBSET Promotion]
    /\ previous \in [Target -> Hash \cup {Nothing}]
    /\ clock \in Nat
    /\ votes \in [Hash -> SUBSET Job]
    /\ containers \in [Target -> Hash \cup {Nothing, Mixed}]
    /\ images \in [Target -> Hash \cup {Nothing}]
    /\ forced \in 0 .. MaxForced
    /\ faults \in 0 .. MaxFaults

LEMMA TypesTogether == TypeOK <=> StoresType /\ RunType
BY DEF TypeOK, StoresType, RunType

LEMMA IInvTogether ==
    ASSUME StoresType', Run', Histories', StoredIsOld'
    PROVE  IInv'
BY TypesTogether DEF IInv, TypeOK, StoresType, RunType, Run

(* A promotion joins the history of its label with a new timestamp. *)
LEMMA PromoteStep ==
    ASSUME IInv, NEW l \in Label, NEW h \in Hash, NEW user \in User,
           Promote(l, h, user), clock' = clock + 1
    PROVE  /\ labels' \in [Label -> SUBSET Promotion]
           /\ clock' \in Nat
           /\ Histories'
           /\ \A m \in Label : labels[m] \subseteq labels'[m]
           /\ \E e \in labels'[l] : e.ts = clock'
<1> DEFINE new == [hash |-> h, ts |-> clock + 1, user |-> user]
<1>1. labels \in [Label -> SUBSET Promotion] /\ clock \in Nat
  BY DEF IInv, TypeOK
<1>2. new \in Promotion
  BY <1>1 DEF Promotion
<1>3. labels' = [labels EXCEPT ![l] = @ \cup {new}]
  BY DEF Promote
<1>4. labels' \in [Label -> SUBSET Promotion]
  BY <1>1, <1>2, <1>3
<1>5. \A m \in Label : labels'[m] = labels[m] \/ labels'[m] = labels[m] \cup {new}
  BY <1>1, <1>3
<1>6. new \in labels'[l] /\ new.ts = clock'
  BY <1>1, <1>3
<1>7. Histories'
  <2> SUFFICES ASSUME NEW m \in Label
               PROVE  /\ IsFiniteSet(labels'[m])
                      /\ \A e \in labels'[m] : e.ts <= clock'
    BY DEF Histories
  <2>1. IsFiniteSet(labels[m]) /\ \A e \in labels[m] : e.ts <= clock
    BY DEF IInv, Histories
  <2>2. IsFiniteSet(labels'[m])
    <3>1. IsFiniteSet(labels[m] \cup {new})
      BY <2>1, FS_AddElement
    <3>2. QED
      BY <1>5, <2>1, <3>1
  <2>3. \A e \in labels[m] : e.ts \in Nat
    BY <1>1 DEF Promotion
  <2>4. \A e \in labels'[m] : e.ts <= clock'
    BY <1>1, <1>5, <1>6, <2>1, <2>3
  <2>5. QED
    BY <2>2, <2>4
<1>8. QED
  BY <1>1, <1>4, <1>5, <1>6, <1>7

(* Growing histories do not make the stored names any younger. *)
LEMMA StoredStep ==
    ASSUME IInv, \A l \in Label : labels[l] \subseteq labels'[l],
           clock' \in Nat, clock <= clock', started' = started,
           stored' = stored \/ \A t \in Target : stored'[t] = NoEntry
    PROVE  StoredIsOld'
<1>1. started' <= clock'
  BY DEF IInv, TypeOK, StoredIsOld
<1>2. ASSUME NEW t \in Target, stored'[t] # NoEntry
      PROVE  /\ stored'[t] \in Candidate
             /\ \/ stored'[t].ts <= started'
                \/ \E e \in labels'[t] : stored'[t].ts < e.ts
  <2>1. stored'[t] = stored[t] /\ t \in Label
    BY <1>2, TargetsType
  <2>2. QED
    BY <1>2, <2>1 DEF IInv, StoredIsOld
<1>3. QED
  BY <1>1, <1>2 DEF StoredIsOld

(* A step that leaves the histories alone. *)
LEMMA SameHistories ==
    ASSUME IInv, UNCHANGED <<labels, clock>>
    PROVE  /\ Histories' /\ clock' \in Nat /\ clock <= clock'
           /\ \A l \in Label : labels[l] \subseteq labels'[l]
BY DEF IInv, TypeOK, Histories

-----------------------------------------------------------------------------
(* One lemma per action: the step keeps the invariant. *)

(* What the environment does: it promotes, or a job reports. *)
LEMMA EnvironmentEffect ==
    ASSUME Environment
    PROVE  /\ UNCHANGED <<previous, stores, run, forced, faults>>
           /\ \/ \E l \in Label, h \in Hash, user \in User \ {"promoter"} :
                    /\ Promote(l, h, user)
                    /\ clock' = clock + 1
                    /\ UNCHANGED votes
              \/ \E h \in Hash, j \in Job :
                    /\ UNCHANGED <<labels, clock>>
                    /\ votes' = [votes EXCEPT ![h] = @ \cup {j}]
<1>1. CASE \E l \in Label, h \in Hash : NewCandidate(l, h)
  BY <1>1 DEF NewCandidate, User
<1>2. CASE \E h \in Hash, j \in Job : Vote(h, j)
  BY <1>2 DEF Vote
<1>3. CASE \E t \in Target, h \in Hash : OutsidePromotion(t, h)
  BY <1>3, TargetsType DEF OutsidePromotion, User
<1>4. QED
  BY <1>1, <1>2, <1>3 DEF Environment

LEMMA EnvironmentStep ==
    ASSUME IInv, Environment
    PROVE  IInv'
<1>1. /\ UNCHANGED <<previous, stores, run, forced, faults>>
      /\ \/ \E l \in Label, h \in Hash, user \in User :
               Promote(l, h, user) /\ clock' = clock + 1 /\ UNCHANGED votes
         \/ \E h \in Hash, j \in Job :
               /\ UNCHANGED <<labels, clock>>
               /\ votes' = [votes EXCEPT ![h] = @ \cup {j}]
  BY EnvironmentEffect
<1>2. /\ labels' \in [Label -> SUBSET Promotion] /\ clock' \in Nat
      /\ clock <= clock' /\ Histories'
      /\ \A l \in Label : labels[l] \subseteq labels'[l]
  <2>1. labels \in [Label -> SUBSET Promotion] /\ clock \in Nat
    BY DEF IInv, TypeOK
  <2>2. QED
    BY <1>1, <2>1, PromoteStep, SameHistories
<1>3. StoresType'
  <2>1. votes' \in [Hash -> SUBSET Job]
    BY <1>1 DEF IInv, TypeOK
  <2>2. QED
    BY <1>1, <1>2, <2>1 DEF IInv, TypeOK, StoresType, stores
<1>4. Run'
  BY <1>1, <1>2 DEF IInv, TypeOK, Run, RunType, RunShape, ContainersReady,
                    IsNext, run, stores, Candidate
<1>5. StoredIsOld'
  BY <1>1, <1>2, StoredStep DEF run
<1>6. QED
  BY <1>2, <1>3, <1>4, <1>5, IInvTogether

LEMMA StartPromoteAllStep ==
    ASSUME IInv, StartPromoteAll
    PROVE  IInv'
<1> USE DEF StartPromoteAll, dlrn, stores
<1>1. \A t \in Target : Newest1(t) # NoEntry =>
          /\ Newest1(t) \in Promotion
          /\ Newest1(t).ts <= clock
  BY Newest1Type, TargetsType DEF IInv
<1>2. Promotion \subseteq Candidate
  BY DEF Promotion, Candidate
<1>3. StoresType'
  BY DEF IInv, TypeOK, StoresType
<1>4. RunType'
  BY <1>1, <1>2, TargetsType DEF IInv, TypeOK, RunType
<1>5. RunShape' /\ ContainersReady'
  BY TargetsType DEF RunShape, ContainersReady, Working
<1>6. StoredIsOld'
  BY <1>1, <1>2 DEF IInv, TypeOK, StoredIsOld
<1>7. QED
  BY <1>3, <1>4, <1>5, <1>6, SameHistories, IInvTogether DEF Run

LEMMA ForcePromoteStep ==
    ASSUME IInv, ForcePromote
    PROVE  IInv'
<1> USE DEF dlrn, stores
<1>1. PICK i \in 1 .. Len(Targets), h \in Hash, allowed \in (SUBSET Client) \ {{}} :
          StartForcePromote(i, h, allowed)
  BY DEF ForcePromote
<1>2. candidate' \in Candidate /\ candidate'.ts <= clock'
  BY <1>1 DEF StartForcePromote, Candidate, User, NoTime, IInv, TypeOK
<1>3. StoresType'
  BY <1>1 DEF StartForcePromote, IInv, TypeOK, StoresType
<1>4. RunType'
  BY <1>1, <1>2, TargetsType DEF StartForcePromote, IInv, TypeOK, RunType
<1>5. /\ pc' = "checking" /\ mode' = "force-promote"
      /\ turn' \in 1 .. Len(Targets) /\ clients' # {}
  BY <1>1 DEF StartForcePromote
<1>6. RunShape' /\ ContainersReady'
  BY <1>2, <1>5 DEF RunShape, ContainersReady, Working
<1>7. StoredIsOld'
  <2>1. /\ stored' = stored /\ labels' = labels
        /\ started' = clock /\ clock' = clock
    BY <1>1 DEF StartForcePromote
  <2>2. started \in Nat /\ clock \in Nat /\ StoredIsOld
    BY DEF IInv, TypeOK
  <2>3. ASSUME NEW t \in Target, stored[t].ts <= started, stored[t] \in Candidate
        PROVE  stored[t].ts <= clock
    BY <2>2, <2>3 DEF StoredIsOld, Candidate
  <2>4. QED
    BY <2>1, <2>2, <2>3 DEF StoredIsOld
<1>8. QED
  BY <1>1, <1>3, <1>4, <1>6, <1>7, SameHistories, IInvTogether
     DEF Run, StartForcePromote

LEMMA SelectStep ==
    ASSUME IInv, Select
    PROVE  IInv'
<1> USE DEF dlrn, stores
<1>1. /\ pc = "selecting" /\ UNCHANGED <<dlrn, stores, forced, faults>>
      /\ turn \in 1 .. Len(Targets) /\ mode # "none"
  BY DEF Select, IInv, RunShape
<1>2. StoresType'
  BY <1>1 DEF IInv, TypeOK, StoresType
<1>3. CASE NextTarget("terminated", stored)
  <2>1. /\ Run' /\ started' = started
        /\ stored' = stored \/ \A t \in Target : stored'[t] = NoEntry
    BY <1>1, <1>3, NextTargetStep DEF IInv, TypeOK
  <2>2. QED
    BY <1>1, <1>2, <2>1, SameHistories, StoredStep, IInvTogether
<1>4. CASE ~NextTarget("terminated", stored)
  <2> DEFINE t == Targets[turn]
  <2>1. /\ Eligible(t) # {} /\ candidate' = Latest(Eligible(t))
        /\ clients' = Client /\ pc' = "checking"
        /\ UNCHANGED <<mode, turn, stored, incumbent, started, result>>
    BY <1>4 DEF Select
  <2>2. t \in Target
    BY <1>1, TargetsType
  <2>3. candidate' \in Candidate /\ candidate'.ts <= clock'
    BY <1>1, <2>1, <2>2, EligibleType DEF IInv
  <2>4. RunType'
    BY <2>1, <2>3 DEF IInv, TypeOK, RunType
  <2>5. RunShape' /\ ContainersReady'
    BY <1>1, <2>1, <2>3 DEF RunShape, ContainersReady, Working, Client
  <2>6. QED
    BY <1>1, <1>2, <2>1, <2>4, <2>5, SameHistories, StoredStep, IInvTogether
       DEF Run
<1>5. QED
  BY <1>3, <1>4

LEMMA CheckUnchangedStep ==
    ASSUME IInv, CheckUnchanged
    PROVE  IInv'
<1> USE DEF dlrn, stores
<1>1. pc = "checking" /\ UNCHANGED <<dlrn, stores, forced, faults>>
  BY DEF CheckUnchanged
<1>2. StoresType'
  BY <1>1 DEF IInv, TypeOK, StoresType
<1>3. CASE EndRun("HashChangedError")
  BY <1>1, <1>2, <1>3, EndRunStep, SameHistories, StoredStep, IInvTogether
<1>4. CASE ~EndRun("HashChangedError")
  <2>1. /\ pc' = "promoting"
        /\ UNCHANGED <<mode, turn, stored, candidate, clients, incumbent,
                       started, result>>
    BY <1>4 DEF CheckUnchanged
  <2>2. RunType'
    BY <2>1 DEF IInv, TypeOK, RunType
  <2>3. RunShape' /\ ContainersReady'
    BY <1>1, <2>1 DEF IInv, RunShape, ContainersReady, Working
  <2>4. QED
    BY <1>1, <1>2, <2>1, <2>2, <2>3, SameHistories, StoredStep, IInvTogether
       DEF Run
<1>5. QED
  BY <1>3, <1>4

LEMMA PushContainersStep ==
    ASSUME IInv, NEW t \in Target, PushContainers(t)
    PROVE  IInv'
<1> USE DEF PushContainers, Calling, At, dlrn
<1>1. pc = "promoting" /\ candidate \in Candidate
  BY DEF IInv, RunShape, Working
<1>2. StoresType'
  BY <1>1 DEF IInv, TypeOK, StoresType, Candidate
<1>3. RunType'
  BY DEF IInv, TypeOK, RunType
<1>4. RunShape' /\ ContainersReady'
  BY <1>1 DEF IInv, RunShape, ContainersReady, Working, IsNext
<1>5. QED
  BY <1>2, <1>3, <1>4, SameHistories, StoredStep, IInvTogether DEF Run

LEMMA FinishContainersStep ==
    ASSUME IInv, NEW t \in Target, FinishContainers(t)
    PROVE  IInv'
<1> USE DEF FinishContainers, At, dlrn
<1>1. pc \in Working /\ IsNext("registries_client") /\ candidate \in Candidate
  BY DEF IInv, RunShape, Working
<1>2. StoresType'
  BY <1>1 DEF IInv, TypeOK, StoresType, Candidate
<1>3. containers'[Targets[turn]] = candidate.hash
  BY DEF IInv, TypeOK
<1>4. /\ Run' /\ started' = started
      /\ stored' = stored \/ \A l \in Target : stored'[l] = NoEntry
  BY <1>1, <1>3, SameHistories, ClientDoneStep DEF IInv, TypeOK
<1>5. QED
  BY <1>2, <1>4, SameHistories, StoredStep, IInvTogether

LEMMA UnlinkImagesStep ==
    ASSUME IInv, NEW t \in Target, UnlinkImages(t)
    PROVE  IInv'
<1> USE DEF UnlinkImages, Calling, At, dlrn
<1>1. StoresType'
  BY DEF IInv, TypeOK, StoresType
<1>2. CASE pc' = "linking" /\ UNCHANGED <<mode, turn, stored, candidate,
                               clients, incumbent, started, result>>
  <2>1. RunType'
    BY <1>2 DEF IInv, TypeOK, RunType
  <2>2. RunShape' /\ ContainersReady'
    BY <1>2 DEF IInv, RunShape, ContainersReady, Working, IsNext
  <2>3. QED
    BY <1>1, <1>2, <2>1, <2>2, SameHistories, StoredStep, IInvTogether DEF Run
<1>3. CASE ClientDone("qcow_client", stored)
  <2>1. pc \in Working /\ IsNext("qcow_client")
    BY DEF Working
  <2>2. /\ Run' /\ started' = started
        /\ stored' = stored \/ \A l \in Target : stored'[l] = NoEntry
    BY <1>3, <2>1, SameHistories, ClientDoneStep DEF IInv, TypeOK
  <2>3. QED
    BY <1>1, <2>2, SameHistories, StoredStep, IInvTogether
<1>4. QED
  BY <1>2, <1>3

LEMMA LinkImagesStep ==
    ASSUME IInv, NEW t \in Target, LinkImages(t)
    PROVE  IInv'
<1> USE DEF LinkImages, At, dlrn
<1>1. pc \in Working /\ IsNext("qcow_client") /\ candidate \in Candidate
  BY DEF IInv, RunShape, Working
<1>2. StoresType'
  BY <1>1 DEF IInv, TypeOK, StoresType, Candidate
<1>3. /\ Run' /\ started' = started
      /\ stored' = stored \/ \A l \in Target : stored'[l] = NoEntry
  BY <1>1, SameHistories, ClientDoneStep DEF IInv, TypeOK
<1>4. QED
  BY <1>2, <1>3, SameHistories, StoredStep, IInvTogether

LEMMA FetchIncumbentStep ==
    ASSUME IInv, NEW t \in Target, FetchIncumbent(t)
    PROVE  IInv'
<1> USE DEF dlrn, stores
<1>1. /\ pc = "promoting" /\ IsNext("dlrn_client")
      /\ UNCHANGED <<dlrn, stores, forced, faults>>
  BY DEF FetchIncumbent, Calling
<1>2. StoresType'
  BY <1>1 DEF IInv, TypeOK, StoresType
<1>3. CASE NextTarget("PromotionError", stored)
  <2>1. /\ Run' /\ started' = started
        /\ stored' = stored \/ \A l \in Target : stored'[l] = NoEntry
    BY <1>1, <1>3, NextTargetStep DEF IInv, TypeOK
  <2>2. QED
    BY <1>1, <1>2, <2>1, SameHistories, StoredStep, IInvTogether
<1>4. CASE ~NextTarget("PromotionError", stored)
  <2>1. /\ incumbent' = Newest1(t)
        /\ pc' = IF Newest1(t) = NoEntry THEN "posting" ELSE "saving"
        /\ UNCHANGED <<mode, turn, stored, candidate, clients, started, result>>
    BY <1>4 DEF FetchIncumbent
  <2>2. Newest1(t) # NoEntry => Newest1(t) \in Promotion
    BY Newest1Type, TargetsType DEF IInv
  <2>3. RunType'
    BY <2>1, <2>2 DEF IInv, TypeOK, RunType
  <2>4. RunShape' /\ ContainersReady'
    BY <1>1, <2>1, <2>2 DEF IInv, RunShape, ContainersReady, Working, IsNext
  <2>5. QED
    BY <1>1, <1>2, <2>1, <2>3, <2>4, SameHistories, StoredStep, IInvTogether
       DEF Run
<1>5. QED
  BY <1>3, <1>4

LEMMA SavePreviousStep ==
    ASSUME IInv, NEW t \in Target, SavePrevious(t)
    PROVE  IInv'
<1> USE DEF SavePrevious, At, stores
<1>1. pc = "saving" /\ incumbent \in Promotion
  BY DEF IInv, RunShape
<1>2. StoresType'
  BY <1>1 DEF IInv, TypeOK, StoresType, Promotion
<1>3. RunType'
  BY DEF IInv, TypeOK, RunType
<1>4. RunShape' /\ ContainersReady'
  BY <1>1 DEF IInv, RunShape, ContainersReady, Working, IsNext
<1>5. QED
  BY <1>2, <1>3, <1>4, SameHistories, StoredStep, IInvTogether DEF Run

(* The candidate goes into the map with an older timestamp than that of    *)
(* the promotion that has just been made.                                  *)
LEMMA PostPromotionStep ==
    ASSUME IInv, NEW t \in Target, PostPromotion(t)
    PROVE  IInv'
<1> USE DEF PostPromotion, At, stores
<1> DEFINE map == [stored EXCEPT ![t] = candidate]
<1>1. /\ pc \in Working /\ IsNext("dlrn_client")
      /\ candidate \in Candidate /\ candidate.ts <= clock
      /\ clock \in Nat /\ t \in Label
  BY TargetsType DEF IInv, TypeOK, RunShape, Working
<1>2. /\ labels' \in [Label -> SUBSET Promotion] /\ clock' \in Nat
      /\ Histories'
      /\ \A m \in Label : labels[m] \subseteq labels'[m]
      /\ \E e \in labels'[t] : e.ts = clock'
  BY <1>1, PromoteStep DEF Candidate, User
<1>3. StoresType'
  BY <1>2 DEF IInv, TypeOK, StoresType
<1>4. map \in [Target -> Candidate \cup {NoEntry}]
  BY <1>1 DEF IInv, TypeOK
<1>5. /\ Run' /\ started' = started
      /\ stored' = map \/ \A l \in Target : stored'[l] = NoEntry
  <2> HIDE DEF map
  <2>1. ClientDone("dlrn_client", map) /\ containers' = containers
        /\ clock <= clock'
    BY <1>1 DEF map
  <2>2. QED
    BY <1>1, <1>2, <1>4, <2>1, ClientDoneStep
<1>6. StoredIsOld'
  <2>1. CASE \A l \in Target : stored'[l] = NoEntry
    BY <1>1, <1>2, <1>5, <2>1, StoredStep
  <2>2. CASE stored' = map
    <3>1. ASSUME NEW l \in Target, stored'[l] # NoEntry
          PROVE  /\ stored'[l] \in Candidate
                 /\ \/ stored'[l].ts <= started'
                    \/ \E e \in labels'[l] : stored'[l].ts < e.ts
      <4>1. CASE l = t
        <5>1. stored'[l] = candidate
          BY <2>2, <4>1 DEF IInv, TypeOK
        <5>2. PICK e \in labels'[l] : e.ts = clock'
          BY <1>2, <4>1
        <5>3. candidate.ts < e.ts
          BY <1>1, <5>2 DEF Candidate
        <5>4. QED
          BY <1>1, <5>1, <5>3
      <4>2. CASE l # t
        <5>1. stored'[l] = stored[l] /\ l \in Label
          BY <2>2, <4>2, TargetsType DEF IInv, TypeOK
        <5>2. QED
          BY <1>2, <1>5, <3>1, <5>1 DEF IInv, StoredIsOld
      <4>3. QED
        BY <4>1, <4>2
    <3>2. started' <= clock'
      BY <1>1, <1>5 DEF IInv, TypeOK, StoredIsOld
    <3>3. QED
      BY <3>1, <3>2 DEF StoredIsOld
  <2>3. QED
    BY <1>5, <2>1, <2>2
<1>7. QED
  BY <1>2, <1>3, <1>5, <1>6, IInvTogether

LEMMA GiveUpStep ==
    ASSUME IInv, ClientFails \/ Crash
    PROVE  IInv'
<1> USE DEF dlrn, stores
<1>1. /\ UNCHANGED <<dlrn, stores, forced>> /\ pc # "idle"
      /\ faults < MaxFaults /\ faults' = faults + 1
  BY DEF ClientFails, Crash
<1>2. StoresType'
  BY <1>1 DEF IInv, TypeOK, StoresType
<1>3. /\ Run' /\ started' = started
      /\ stored' = stored \/ \A l \in Target : stored'[l] = NoEntry
  <2>1. CASE ClientFails
    BY <1>1, <2>1, NextTargetStep DEF ClientFails, IInv, TypeOK
  <2>2. CASE Crash
    BY <2>2, EndRunStep DEF Crash
  <2>3. QED
    BY <2>1, <2>2
<1>4. QED
  BY <1>1, <1>2, <1>3, SameHistories, StoredStep, IInvTogether

LEMMA StutteringStep ==
    ASSUME IInv, UNCHANGED vars
    PROVE  IInv'
BY DEF vars, IInv, TypeOK, Histories, RunShape, IsNext, ContainersReady,
       StoredIsOld

-----------------------------------------------------------------------------
(* The theorems. *)

LEMMA NextStep ==
    ASSUME IInv, [Next]_vars
    PROVE  IInv'
<1>1. CASE Environment
  BY <1>1, EnvironmentStep
<1>2. CASE StartPromoteAll \/ ForcePromote
  BY <1>2, StartPromoteAllStep, ForcePromoteStep
<1>3. CASE PromoterStep
  BY <1>3, SelectStep, CheckUnchangedStep, PushContainersStep,
     FinishContainersStep, UnlinkImagesStep, LinkImagesStep,
     FetchIncumbentStep, SavePreviousStep, PostPromotionStep
     DEF PromoterStep, CallClient
<1>4. CASE ClientFails \/ Crash
  BY <1>4, GiveUpStep
<1>5. CASE UNCHANGED vars
  BY <1>5, StutteringStep
<1>6. QED
  BY <1>1, <1>2, <1>3, <1>4, <1>5 DEF Next

(* IInv is an invariant of the promoter. *)
THEOREM RunInvariant == Spec => []IInv
<1>1. Init => IInv
  BY InitIInv
<1>2. IInv /\ [Next]_vars => IInv'
  BY NextStep
<1>3. QED
  BY <1>1, <1>2, PTL DEF Spec

(* The variables keep their types. *)
THEOREM RunTypeCorrect == Spec => []TypeOK
<1>1. IInv => TypeOK
  BY DEF IInv
<1>2. QED
  BY RunInvariant, <1>1, PTL

(* Which steps add to the history of a target label. *)
LEMMA WhoPromotes ==
    ASSUME IInv, Next, NEW t \in Target, NEW e \in labels'[t] \ labels[t]
    PROVE  \/ e.user # "promoter"
           \/ /\ e.hash = candidate.hash /\ Targets[turn] = t
              /\ pc = "posting" /\ IsNext("dlrn_client")
<1>1. t \in Label /\ labels \in [Label -> SUBSET Promotion]
  BY TargetsType DEF IInv, TypeOK
<1>2. CASE Environment
  BY <1>1, <1>2, EnvironmentEffect DEF Promote
<1>3. CASE \E l \in Target : PostPromotion(l)
  <2>1. PICK l \in Target : PostPromotion(l)
    BY <1>3
  <2>2. /\ pc = "posting" /\ IsNext("dlrn_client") /\ Targets[turn] = l
        /\ labels' = [labels EXCEPT ![l] =
                         @ \cup {[hash |-> candidate.hash, ts |-> clock + 1,
                                  user |-> "promoter"]}]
    BY <2>1 DEF PostPromotion, At, Promote, IInv, RunShape
  <2>3. QED
    BY <1>1, <2>2
<1>4. CASE UNCHANGED labels
  BY <1>4
<1>5. Next => \/ Environment
              \/ \E l \in Target : PostPromotion(l)
              \/ UNCHANGED labels
  BY DEF Next, StartPromoteAll, ForcePromote, StartForcePromote, PromoterStep,
         Select, CheckUnchanged, CallClient, PushContainers,
         FinishContainers, UnlinkImages, LinkImages, FetchIncumbent,
         SavePrevious, ClientFails, Crash, dlrn
<1>6. QED
  BY <1>2, <1>3, <1>4, <1>5

(***************************************************************************)
(* In every configuration of labels, whatever fails and whoever interferes,*)
(* promote-all moves a DLRN label to a hash only when the containers of    *)
(* the hash have the label.                                                *)
(***************************************************************************)
THEOREM ContainersBeforeLabel == Spec => ContainersFirst
<1>1. ASSUME IInv, Next, NEW t \in Target, NEW e \in labels'[t] \ labels[t],
             mode = "promote-all", e.user = "promoter"
      PROVE  containers[t] = e.hash
  <2>1. /\ e.hash = candidate.hash /\ Targets[turn] = t
        /\ pc = "posting" /\ IsNext("dlrn_client")
    BY <1>1, WhoPromotes
  <2>2. "registries_client" \notin clients
    BY <1>1, <2>1, NextIsClient DEF IInv, TypeOK
  <2>3. QED
    BY <1>1, <2>1, <2>2 DEF IInv, ContainersReady, Working
<1>2. IInv /\ [Next]_vars =>
        [\A t \in Target : \A e \in labels'[t] \ labels[t] :
            (mode = "promote-all" /\ e.user = "promoter") =>
                containers[t] = e.hash]_vars
  BY <1>1
<1>3. QED
  BY RunInvariant, <1>2, PTL DEF Spec, ContainersFirst

(***************************************************************************)
(* If no hash is in the old format, a client is called only when nobody    *)
(* else has promoted, since the run started, a target label that the run   *)
(* has stored.  It rests on the map holding the timestamp of the candidate *)
(* label for what the run itself promoted: the map then never matches the  *)
(* server again, and the run ends instead of losing sight of a change.     *)
(***************************************************************************)
THEOREM InterferenceStopsTheRun ==
    ASSUME OldFormat = {}
    PROVE  Spec => InterferenceDetected
<1>1. ASSUME IInv, Next, pc = "checking", pc' = "promoting",
             NEW t \in Target, stored[t] # NoEntry, NEW e \in labels[t]
      PROVE  e.ts <= started
  <2> DEFINE history == labels[t]
             list == FetchPromotions(labels[t], 1)
  <2>1. CheckUnchanged
    BY <1>1 DEF Next, Environment, NewCandidate, Vote, OutsidePromotion,
                StartPromoteAll, ForcePromote, StartForcePromote,
                PromoterStep, Select, CallClient, PushContainers,
                FinishContainers, UnlinkImages, LinkImages, FetchIncumbent,
                SavePrevious, PostPromotion, Calling, ClientFails, Crash,
                EndRun, run
  <2>2. ~Changed(t)
    BY <1>1, <2>1 DEF CheckUnchanged, EndRun
  <2>3. /\ t \in Label /\ history \subseteq Promotion /\ clock \in Nat
        /\ IsFiniteSet(history) /\ \A d \in history : d.ts <= clock
    BY <1>1, TargetsType DEF IInv, TypeOK, Histories
  <2>4. list = Newest(history, 1)
    BY DEF FetchPromotions, Newest
  <2>5. list # {}
    BY <1>1, <2>3, <2>4, NewestNotEmpty
  <2>6. Latest(list) \in list
    <3>1. list \subseteq history
      BY FetchedSubset
    <3>2. QED
      BY <2>3, <2>5, <3>1, LatestOfList
  <2>7. Newest1(t) = Latest(list) /\ Newest1(t) # NoEntry
    BY <2>3, <2>5, <2>6, FetchedSubset DEF Newest1
  <2>8. Newest1(t).ts = stored[t].ts
    BY <1>1, <2>2, <2>7 DEF Changed, SameHash
  <2>9. \A d \in history : d.ts <= stored[t].ts
    BY <2>3, <2>4, <2>6, <2>7, <2>8, NewestIsLatest
  <2>10. /\ stored[t].ts \in Nat /\ started \in Nat
         /\ \A d \in history : d.ts \in Nat
    BY <1>1, <2>3 DEF IInv, TypeOK, StoredIsOld, Candidate, Promotion
  <2>11. stored[t].ts <= started
    BY <1>1, <2>9, <2>10 DEF IInv, StoredIsOld
  <2>12. QED
    BY <2>9, <2>10, <2>11
<1>2. IInv /\ [Next]_vars =>
        [(pc = "checking" /\ pc' = "promoting") =>
            \A t \in Target : stored[t] # NoEntry =>
                \A e \in labels[t] :
                    e.user = "operator" => e.ts <= started]_vars
  BY <1>1
<1>3. QED
  BY RunInvariant, <1>2, PTL DEF Spec, InterferenceDetected

-----------------------------------------------------------------------------
(***************************************************************************)
(* The previous label.  With no hash in the old format, the incumbent that *)
(* DlrnClient.promote fetches is the current hash of the label, and stays  *)
(* it up to the promotion unless somebody else promotes.                   *)
(***************************************************************************)

(* The label that the run is promoting. *)
Current == Targets[turn]

(* The server never stamps two promotions of a label with the same time. *)
OneAtATime ==
    \A t \in Target : \A e, d \in labels[t] : e.ts = d.ts => e = d

(* PreviousIsFallback for one label: it is the one in work that may have   *)
(* its current hash as the previous one, or one whose run was cut.         *)
Fallback(t) ==
    (OnlyPromoter(t) /\ Cardinality(labels[t]) > 1) =>
        \/ previous[t] = BeforeLatest(t)
        \/ /\ (pc = "posting" /\ Current = t) \/ faults > 0
           /\ previous[t] = Latest(labels[t]).hash

FallbackInv ==
    /\ OneAtATime
    /\ (pc = "saving" /\ OnlyPromoter(Current)) =>
          incumbent = Latest(labels[Current])
    /\ (pc = "posting" /\ OnlyPromoter(Current) /\ labels[Current] # {}) =>
          previous[Current] = Latest(labels[Current]).hash
    /\ \A t \in Target : Fallback(t)

LEMMA InitFallbackInv == Init => FallbackInv
<1> SUFFICES ASSUME Init
             PROVE  FallbackInv
  OBVIOUS
<1>1. \A t \in Target : labels[t] = {}
  BY TargetsType DEF Init
<1>2. \A t \in Target : Cardinality(labels[t]) = 0
  BY <1>1, FS_EmptySet
<1>3. OneAtATime
  BY <1>1 DEF OneAtATime
<1>4. \A t \in Target : Fallback(t)
  BY <1>2 DEF Fallback
<1>5. pc = "idle"
  BY DEF Init
<1>6. QED
  BY <1>3, <1>4, <1>5 DEF FallbackInv

(* What each history of a target label is. *)
LEMMA HistoryFacts ==
    ASSUME IInv, NEW t \in Target
    PROVE  /\ labels[t] \subseteq Promotion /\ IsFiniteSet(labels[t])
           /\ clock \in Nat /\ \A e \in labels[t] : e.ts \in Nat /\ e.ts <= clock
BY TargetsType DEF IInv, TypeOK, Histories, Promotion

(* The newest promotion is the latest one. *)
LEMMA Newest1IsLatest ==
    ASSUME IInv, OneAtATime, OldFormat = {}, NEW t \in Target
    PROVE  IF labels[t] = {} THEN Newest1(t) = NoEntry
                             ELSE Newest1(t) = Latest(labels[t])
<1> DEFINE history == labels[t]
           list == FetchPromotions(labels[t], 1)
<1>1. /\ history \subseteq Promotion /\ IsFiniteSet(history) /\ clock \in Nat
      /\ \A e \in history : e.ts \in Nat /\ e.ts <= clock
  BY HistoryFacts
<1>2. list = Newest(history, 1) /\ list \subseteq history
  BY DEF FetchPromotions, Newest
<1>3. CASE history = {}
  BY <1>2, <1>3 DEF Newest1
<1>4. CASE history # {}
  <2>1. list # {}
    BY <1>1, <1>2, <1>4, NewestNotEmpty
  <2> HIDE DEF list, history
  <2>2. Latest(list) \in list
    BY <1>1, <1>2, <2>1, LatestOfList
  <2>3. Latest(history) \in history /\ \A d \in history : d.ts <= Latest(history).ts
    BY <1>1, <1>4, LatestOfList
  <2>4. \A d \in history : d.ts <= Latest(list).ts
    BY <1>1, <1>2, <2>2, NewestIsLatest
  <2>5. Latest(list) \in history /\ Latest(list).ts = Latest(history).ts
    BY <1>1, <1>2, <2>2, <2>3, <2>4
  <2>6. Latest(list) = Latest(history)
    BY <2>3, <2>5 DEF OneAtATime, history
  <2>7. Newest1(t) = Latest(list)
    BY <2>1 DEF Newest1, list
  <2>8. QED
    BY <1>4, <2>6, <2>7 DEF history
<1>5. QED
  BY <1>3, <1>4

(* A promotion with a new timestamp is the latest one of its label, and    *)
(* the one before it is what was the latest.                               *)
LEMMA LatestAfterPromotion ==
    ASSUME NEW history, history \subseteq Promotion, NEW now \in Nat,
           \A e \in history : e.ts <= now,
           NEW new \in Promotion, new.ts = now + 1
    PROVE  /\ new \notin history
           /\ Latest(history \cup {new}) = new
           /\ (history \cup {new}) \ {new} = history
<1> DEFINE more == history \cup {new}
<1>1. \A e \in history : e.ts \in Nat /\ e.ts < new.ts
  BY DEF Promotion
<1>2. more \subseteq Promotion /\ more # {} /\ now + 1 \in Nat
      /\ \A e \in more : e.ts <= now + 1
  BY <1>1 DEF Promotion
<1>3. Latest(more) \in more /\ \A d \in more : d.ts <= Latest(more).ts
  <2> HIDE DEF more
  <2> QED
    BY <1>2, LatestOfList
<1>4. Latest(more) = new
  <2>1. new \in more /\ \A e \in more : e \in history \/ e = new
    OBVIOUS
  <2>2. new.ts \in Nat
    BY DEF Promotion
  <2> HIDE DEF more
  <2>3. new.ts <= Latest(more).ts
    BY <1>3, <2>1
  <2>4. Latest(more) \notin history
    BY <1>1, <2>2, <2>3
  <2>5. QED
    BY <1>3, <2>1, <2>4
<1>5. QED
  BY <1>1, <1>4

(* It is stamped unlike all before it. *)
LEMMA StampsStayDistinct ==
    ASSUME NEW history, NEW now \in Nat,
           \A e \in history : e.ts \in Nat /\ e.ts <= now,
           \A e, d \in history : e.ts = d.ts => e = d,
           NEW new, new.ts = now + 1
    PROVE  \A e, d \in history \cup {new} : e.ts = d.ts => e = d
<1>1. \A e \in history : e.ts # new.ts
  OBVIOUS
<1>2. QED
  BY <1>1

(* The end of a client's call, or of a run, leaves DlrnClient.promote. *)
LEMMA CallIsOver ==
    ASSUME NEW r, NEW map, NEW client,
           EndRun(r) \/ NextTarget(r, map) \/ ClientDone(client, map)
    PROVE  pc' \notin {"saving", "posting"}
BY DEF EndRun, NextTarget, ClientDone

(* A step that does not touch the labels, away from DlrnClient.promote. *)
LEMMA ElsewhereKeepsFallback ==
    ASSUME FallbackInv, TypeOK, UNCHANGED <<labels, previous>>,
           pc' \notin {"saving", "posting"},
           faults' = faults \/ faults' = faults + 1,
           pc = "posting" => faults' > 0
    PROVE  FallbackInv'
<1>1. OneAtATime'
  BY DEF FallbackInv, OneAtATime
<1>2. ASSUME NEW t \in Target
      PROVE  Fallback(t)'
  <2>1. Fallback(t) /\ (faults > 0 => faults' > 0)
    BY DEF FallbackInv, TypeOK
  <2>2. QED
    BY <2>1 DEF Fallback, OnlyPromoter, BeforeLatest
<1>3. QED
  BY <1>1, <1>2 DEF FallbackInv

LEMMA EnvironmentKeepsFallback ==
    ASSUME IInv, FallbackInv, Environment
    PROVE  FallbackInv'
<1>1. labels \in [Label -> SUBSET Promotion] /\ clock \in Nat
  BY DEF IInv, TypeOK
<1>2. UNCHANGED <<previous, pc, turn, incumbent, faults>>
  BY DEF Environment, NewCandidate, Vote, OutsidePromotion, run
<1>3. \A t \in Target :
          \/ labels'[t] = labels[t]
          \/ \E h \in Hash :
                labels'[t] = labels[t] \cup
                   {[hash |-> h, ts |-> clock + 1, user |-> "operator"]}
  <2>1. CASE \E l \in Label, h \in Hash : NewCandidate(l, h)
    BY <1>1, <2>1, TargetsType DEF NewCandidate, Promote
  <2>2. CASE \E h \in Hash, j \in Job : Vote(h, j)
    BY <2>2 DEF Vote
  <2>3. CASE \E t \in Target, h \in Hash : OutsidePromotion(t, h)
    BY <1>1, <2>3, TargetsType DEF OutsidePromotion, Promote
  <2>4. QED
    BY <2>1, <2>2, <2>3 DEF Environment
<1>4. ASSUME NEW t \in Target, OnlyPromoter(t)'
      PROVE  labels'[t] = labels[t]
  <2>1. \A e \in labels'[t] : e.user = "promoter"
    BY <1>4 DEF OnlyPromoter
  <2>2. ASSUME NEW h \in Hash,
               labels'[t] = labels[t] \cup
                  {[hash |-> h, ts |-> clock + 1, user |-> "operator"]}
        PROVE  FALSE
    <3>1. [hash |-> h, ts |-> clock + 1, user |-> "operator"] \in labels'[t]
      BY <2>2
    <3>2. "operator" = "promoter"
      BY <2>1, <3>1
    <3>3. QED
      BY <3>2
  <2>3. QED
    BY <1>3, <2>2
<1>5. OneAtATime'
  <2> SUFFICES ASSUME NEW t \in Target
               PROVE  \A e, d \in labels'[t] : e.ts = d.ts => e = d
    BY DEF OneAtATime
  <2>1. /\ \A e \in labels[t] : e.ts \in Nat /\ e.ts <= clock
        /\ \A e, d \in labels[t] : e.ts = d.ts => e = d
    BY HistoryFacts DEF FallbackInv, OneAtATime
  <2>2. CASE labels'[t] = labels[t]
    BY <2>1, <2>2
  <2>3. CASE labels'[t] # labels[t]
    <3> PICK h \in Hash : labels'[t] = labels[t] \cup
                {[hash |-> h, ts |-> clock + 1, user |-> "operator"]}
      BY <1>3, <2>3
    <3> DEFINE new == [hash |-> h, ts |-> clock + 1, user |-> "operator"]
    <3>1. labels'[t] = labels[t] \cup {new} /\ new.ts = clock + 1
      OBVIOUS
    <3> HIDE DEF new
    <3>2. \A e, d \in labels[t] \cup {new} : e.ts = d.ts => e = d
      BY <1>1, <2>1, <3>1, StampsStayDistinct
    <3>3. QED
      BY <3>1, <3>2
  <2>4. QED
    BY <2>2, <2>3
<1>6. ASSUME NEW t \in Target
      PROVE  Fallback(t)'
  BY <1>2, <1>4 DEF FallbackInv, Fallback, OnlyPromoter, BeforeLatest, Current
<1>7. pc \in {"saving", "posting"} => Current \in Target
  BY TargetsType DEF IInv, RunShape, Current
<1>8. QED
  BY <1>2, <1>4, <1>5, <1>6, <1>7 DEF FallbackInv, OnlyPromoter, Current

LEMMA FetchIncumbentKeepsFallback ==
    ASSUME IInv, FallbackInv, OldFormat = {}, NEW t \in Target,
           FetchIncumbent(t)
    PROVE  FallbackInv'
<1>1. /\ UNCHANGED <<labels, previous, faults>>
      /\ pc = "promoting" /\ Current = t
  BY DEF FetchIncumbent, Calling, At, dlrn, stores, Current
<1>2. CASE NextTarget("PromotionError", stored)
  BY <1>1, <1>2, CallIsOver, ElsewhereKeepsFallback DEF IInv
<1>3. CASE ~NextTarget("PromotionError", stored)
  <2>1. /\ incumbent' = Newest1(t) /\ turn' = turn
        /\ pc' = IF Newest1(t) = NoEntry THEN "posting" ELSE "saving"
    BY <1>3 DEF FetchIncumbent
  <2>2. IF labels[t] = {} THEN Newest1(t) = NoEntry
                          ELSE Newest1(t) = Latest(labels[t])
    BY Newest1IsLatest DEF FallbackInv
  <2>3. labels[t] # {} => Newest1(t) # NoEntry
    <3>1. labels[t] # {} => Latest(labels[t]) \in labels[t]
      BY HistoryFacts, LatestOfList
    <3>2. QED
      BY <2>2, <3>1, HistoryFacts
  <2>4. Current' = t
    BY <1>1, <2>1 DEF Current
  <2>5. OneAtATime'
    BY <1>1 DEF FallbackInv, OneAtATime
  <2>6. \A l \in Target : Fallback(l)'
    BY <1>1 DEF FallbackInv, Fallback, OnlyPromoter, BeforeLatest
  <2>7. QED
    BY <1>1, <2>1, <2>2, <2>3, <2>4, <2>5, <2>6 DEF FallbackInv
<1>4. QED
  BY <1>2, <1>3

LEMMA SavePreviousKeepsFallback ==
    ASSUME IInv, FallbackInv, NEW t \in Target, SavePrevious(t)
    PROVE  FallbackInv'
<1>1. /\ pc = "saving" /\ pc' = "posting" /\ Current = t /\ turn' = turn
      /\ previous' = [previous EXCEPT ![t] = incumbent.hash]
      /\ UNCHANGED <<labels, faults>>
  BY DEF SavePrevious, At, Current
<1>2. previous \in [Target -> Hash \cup {Nothing}]
  BY DEF IInv, TypeOK
<1>3. OnlyPromoter(t) => previous'[t] = Latest(labels[t]).hash
  BY <1>1, <1>2 DEF FallbackInv
<1>4. OneAtATime'
  BY <1>1 DEF FallbackInv, OneAtATime
<1>5. ASSUME NEW l \in Target
      PROVE  Fallback(l)'
  <2>1. CASE l = t
    BY <1>1, <1>3, <2>1 DEF Fallback, OnlyPromoter, Current
  <2>2. CASE l # t
    BY <1>1, <1>2, <2>2 DEF FallbackInv, Fallback, OnlyPromoter,
                            BeforeLatest, Current
  <2>3. QED
    BY <2>1, <2>2
<1>6. QED
  BY <1>1, <1>3, <1>4, <1>5 DEF FallbackInv, OnlyPromoter, Current

LEMMA PostPromotionKeepsFallback ==
    ASSUME IInv, FallbackInv, NEW t \in Target, PostPromotion(t)
    PROVE  FallbackInv'
<1> DEFINE new == [hash |-> candidate.hash, ts |-> clock + 1,
                   user |-> "promoter"]
<1>1. /\ pc = "posting" /\ Current = t
      /\ labels' = [labels EXCEPT ![t] = @ \cup {new}]
      /\ UNCHANGED <<previous, faults>>
      /\ pc' \notin {"saving", "posting"}
  BY CallIsOver DEF PostPromotion, At, Promote, Current
<1>2. /\ labels \in [Label -> SUBSET Promotion] /\ clock \in Nat
      /\ t \in Label /\ new \in Promotion
  BY <1>1, TargetsType DEF IInv, TypeOK, RunShape, Working, Candidate,
                           Promotion, User
<1>3. /\ labels'[t] = labels[t] \cup {new}
      /\ \A l \in Target \ {t} : labels'[l] = labels[l]
  BY <1>1, <1>2, TargetsType
<1>4. /\ new \notin labels[t] /\ Latest(labels'[t]) = new
      /\ labels'[t] \ {new} = labels[t]
  <2> HIDE DEF new
  <2>1. new.ts = clock + 1
    BY DEF new
  <2>2. /\ labels[t] \subseteq Promotion /\ t \in Target
        /\ \A e \in labels[t] : e.ts <= clock
    BY <1>1, HistoryFacts, TargetsType DEF IInv, RunShape, Working, Current
  <2>3. new \in Promotion /\ clock \in Nat
    BY <1>2
  <2> HIDE DEF new
  <2>4. /\ new \notin labels[t] /\ Latest(labels[t] \cup {new}) = new
        /\ (labels[t] \cup {new}) \ {new} = labels[t]
    BY <2>1, <2>2, <2>3, LatestAfterPromotion
  <2>5. QED
    BY <1>3, <2>4
<1>5. OneAtATime'
  <2> SUFFICES ASSUME NEW l \in Target
               PROVE  \A e, d \in labels'[l] : e.ts = d.ts => e = d
    BY DEF OneAtATime
  <2>1. /\ \A e \in labels[l] : e.ts \in Nat /\ e.ts <= clock
        /\ \A e, d \in labels[l] : e.ts = d.ts => e = d
    BY HistoryFacts DEF FallbackInv, OneAtATime
  <2>2. new.ts = clock + 1
    OBVIOUS
  <2> HIDE DEF new
  <2>3. \A e, d \in labels[l] \cup {new} : e.ts = d.ts => e = d
    BY <1>2, <2>1, <2>2, StampsStayDistinct
  <2>4. labels'[l] = labels[l] \/ labels'[l] = labels[l] \cup {new}
    BY <1>3
  <2>5. QED
    BY <2>1, <2>3, <2>4
<1>6. ASSUME NEW l \in Target
      PROVE  Fallback(l)'
  <2>1. CASE l = t
    <3> SUFFICES ASSUME OnlyPromoter(t)', Cardinality(labels'[t]) > 1
                 PROVE  previous'[t] = BeforeLatest(t)'
      BY <2>1 DEF Fallback
    <3>1. OnlyPromoter(t)
      BY <1>3 DEF OnlyPromoter
    <3>2. labels[t] # {}
      <4>1. Cardinality({new}) = 1
        BY FS_Singleton
      <4>2. labels[t] = {} => labels'[t] = {new}
        BY <1>3
      <4>3. labels'[t] = {new} => Cardinality(labels'[t]) = 1
        BY <4>1
      <4>4. Cardinality(labels'[t]) # 1
        OBVIOUS
      <4>5. QED
        BY <4>2, <4>3, <4>4
    <3>3. previous[t] = Latest(labels[t]).hash
      BY <1>1, <3>1, <3>2 DEF FallbackInv
    <3>4. BeforeLatest(t)' = Latest(labels[t]).hash
      BY <1>4 DEF BeforeLatest
    <3>5. QED
      BY <1>1, <3>3, <3>4
  <2>2. CASE l # t
    BY <1>1, <1>3, <2>2 DEF FallbackInv, Fallback, OnlyPromoter, BeforeLatest
  <2>3. QED
    BY <2>1, <2>2
<1>7. QED
  BY <1>1, <1>5, <1>6 DEF FallbackInv

LEMMA FallbackStep ==
    ASSUME IInv, FallbackInv, OldFormat = {}, [Next]_vars
    PROVE  FallbackInv'
<1>1. CASE StartPromoteAll \/ ForcePromote \/ CheckUnchanged
  BY <1>1, CallIsOver, ElsewhereKeepsFallback
     DEF IInv, StartPromoteAll, ForcePromote, StartForcePromote,
         CheckUnchanged, dlrn
<1>2. CASE Select
  BY <1>2, CallIsOver, ElsewhereKeepsFallback DEF IInv, Select, dlrn
<1>3. CASE \E t \in Target :
              PushContainers(t) \/ FinishContainers(t)
                \/ UnlinkImages(t) \/ LinkImages(t)
  <2>1. /\ UNCHANGED <<labels, previous>> /\ pc # "posting"
        /\ faults' = faults \/ faults' = faults + 1
    BY <1>3 DEF PushContainers, FinishContainers, UnlinkImages, LinkImages,
                Calling, dlrn
  <2>2. pc' \notin {"saving", "posting"}
    BY <1>3, CallIsOver
       DEF PushContainers, FinishContainers, UnlinkImages, LinkImages
  <2>3. QED
    BY <2>1, <2>2, ElsewhereKeepsFallback DEF IInv
<1>4. CASE ClientFails \/ Crash
  <2>1. /\ UNCHANGED <<labels, previous>> /\ faults' = faults + 1
        /\ faults \in Nat
    BY <1>4 DEF ClientFails, Crash, dlrn, IInv, TypeOK
  <2>2. pc' \notin {"saving", "posting"}
    BY <1>4, CallIsOver DEF ClientFails, Crash
  <2>3. QED
    BY <2>1, <2>2, ElsewhereKeepsFallback DEF IInv
<1>5. CASE UNCHANGED vars
  BY <1>5 DEF vars, FallbackInv, OneAtATime, Fallback, OnlyPromoter,
              BeforeLatest, Current
<1>6. QED
  BY <1>1, <1>2, <1>3, <1>4, <1>5, EnvironmentKeepsFallback,
     FetchIncumbentKeepsFallback, SavePreviousKeepsFallback,
     PostPromotionKeepsFallback DEF Next, PromoterStep, CallClient

(***************************************************************************)
(* If no hash is in the old format, then whatever runs fail or are killed, *)
(* and however the labels are chained, the previous label of a target that *)
(* only the promoter moves names the hash before the current one, or the   *)
(* current one where a run was cut between the two calls to the server.    *)
(***************************************************************************)
THEOREM FallbackIsKept ==
    ASSUME OldFormat = {}
    PROVE  Spec => []PreviousIsFallback
<1>1. FallbackInv => PreviousIsFallback
  BY DEF FallbackInv, Fallback, PreviousIsFallback
<1>2. IInv /\ FallbackInv /\ [Next]_vars => FallbackInv'
  BY FallbackStep
<1>3. QED
  BY InitFallbackInv, RunInvariant, <1>1, <1>2, PTL DEF Spec
=============================================================================
