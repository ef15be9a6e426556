------------------------------ MODULE Promoter ------------------------------
(***************************************************************************)
(* Whole runs of the promoter of a release (ci-scripts/dlrnapi_promoter):  *)
(* promote-all goes over the target labels of the configuration and, for   *)
(* the candidate it selects, calls the clients one after the other:        *)
(* containers, images, and DLRN, whose label consumers follow, last.       *)
(* force-promote does the same for one hash given by an operator.  Both    *)
(* take the same lock, so at most one run is going on.                     *)
(*                                                                         *)
(* Around a run, the component pipeline labels builds, CI jobs vote, and   *)
(* anyone with an account may promote with dlrnapi, which takes no lock.   *)
(* A run may fail or be killed at any point; only DLRN, the registries and *)
(* the image server remember anything then.                                *)
(*                                                                         *)
(* The loop over the candidates is one step here, which measures each of   *)
(* them against what its examination of the newer ones has left of the     *)
(* criteria; module LabelPromotion has the loop step by step.              *)
(***************************************************************************)
EXTENDS DlrnPromotions, JobCriteria

CONSTANTS
    Label,              \* DLRN labels
    Targets,            \* the keys of config.promotions, in their order
    CandidateOf,        \* promotions[target]['candidate_label']
    Job,                \* CI jobs that report to DLRN
    Criteria,           \* promotions[target]['criteria']
    Alternatives,       \* ... ['alternative_criteria']: job -> list of jobs
    LatestHashesCount,  \* latest_hashes_count: candidates fetched
    PromotionsLimit,    \* length of the target's history the server returns
    NoEntry,            \* no promotion: None
    Nothing,            \* no hash: the label or the link does not exist
    Mixed,              \* some containers have the label, others not yet
    MaxClock,           \* bound: the environment promotes until this time
    MaxReports,         \* bound on the reports of jobs
    MaxOutside,         \* bound on the promotions of a target from outside
    MaxForced,          \* bound on the runs of force-promote
    MaxFaults           \* bound on the failures and the killed runs

Target == {Targets[i] : i \in 1 .. Len(Targets)}

ASSUME LabelAssumption ==
    /\ Targets \in Seq(Label) /\ Targets # << >>
    /\ \A i, j \in 1 .. Len(Targets) : Targets[i] = Targets[j] => i = j
    /\ CandidateOf \in [Target -> Label]
    /\ \A t \in Target : CandidateOf[t] # t

(***************************************************************************)
(* No job of the release configurations is at the same time an alternative *)
(* and a job that has alternatives.                                        *)
(***************************************************************************)
ASSUME CriteriaAssumption ==
    /\ Criteria \in [Target -> SUBSET Job]
    /\ Alternatives \in [Target -> [Job -> Seq(Job)]]
    /\ \A t \in Target : \A j \in Job : \A i \in DOMAIN Alternatives[t][j] :
          Alternatives[t][Alternatives[t][j][i]] = << >>

ASSUME NothingAssumption ==
    /\ Nothing \notin Hash /\ Mixed \notin Hash /\ Nothing # Mixed
    /\ NoEntry \notin Promotion

ASSUME BoundsAssumption ==
    /\ LatestHashesCount \in Nat \ {0, 1}
    /\ PromotionsLimit \in Nat \ {0}
    /\ MaxClock \in Nat /\ MaxReports \in Nat /\ MaxOutside \in Nat
    /\ MaxForced \in Nat /\ MaxFaults \in Nat

(* The default allowed_clients.  dockerfile_client, which no release *)
(* enables, would come between qcow_client and dlrn_client.          *)
Client == {"registries_client", "qcow_client", "dlrn_client"}

(* Mutant of Order: sorted in ascending order. *)
OrderAscending ==
    [registries_client |-> 3, qcow_client |-> 2, dlrn_client |-> 1]

(* The order of allowed_clients.sort(reverse=True). *)
Order == [registries_client |-> 1, qcow_client |-> 2, dlrn_client |-> 3]

VARIABLES
    labels,       \* DLRN: the promotions of every label
    previous,     \* DLRN: the hash that "previous-" + target names
    clock,        \* DLRN: timestamp of the latest promotion
    votes,        \* DLRN: the jobs that reported success, per hash
    containers,   \* registries: the hash whose containers have the label
    images,       \* image server: the hash the link of the label leads to
    pc,           \* where the run is
    mode,         \* the subcommand that holds the lock, or "none"
    turn,         \* index of the target label that is promoted
    stored,       \* named_hashes_map, by target label
    candidate,    \* candidate_hash
    clients,      \* the allowed clients that are still to be called
    incumbent,    \* incumbent_hash of DlrnClient.promote
    started,      \* the time when the last run started
    result,       \* how the last run ended
    forced,       \* runs of force-promote so far
    faults        \* failures so far

dlrn   == <<labels, previous, clock, votes>>
stores == <<containers, images>>
run    == <<pc, mode, turn, stored, candidate, clients, incumbent,
            started, result>>
vars   == <<labels, previous, clock, votes, containers, images,
            pc, mode, turn, stored, candidate, clients, incumbent,
            started, result, forced, faults>>

(* force-promote builds its hash from the command line: no timestamp. *)
NoTime == 0

Candidate == [hash : Hash, ts : Nat, user : User]

TypeOK ==
    /\ labels \in [Label -> SUBSET Promotion]
    /\ previous \in [Target -> Hash \cup {Nothing}]
    /\ clock \in Nat
    /\ votes \in [Hash -> SUBSET Job]
    /\ containers \in [Target -> Hash \cup {Nothing, Mixed}]
    /\ images \in [Target -> Hash \cup {Nothing}]
    /\ pc \in {"idle", "selecting", "checking", "promoting",
               "pushing", "linking", "saving", "posting"}
    /\ mode \in {"none", "promote-all", "force-promote"}
    /\ turn \in 0 .. Len(Targets)
    /\ stored \in [Target -> Candidate \cup {NoEntry}]
    /\ candidate \in Candidate \cup {NoEntry}
    /\ clients \subseteq Client
    /\ incumbent \in Promotion \cup {NoEntry}
    /\ started \in Nat
    /\ result \in {"none", "terminated", "PromotionError",
                   "HashChangedError", "crashed"}
    /\ forced \in 0 .. MaxForced
    /\ faults \in 0 .. MaxFaults

Init ==
    /\ labels = [l \in Label |-> {}]
    /\ previous = [t \in Target |-> Nothing]
    /\ clock = 0
    /\ votes = [h \in Hash |-> {}]
    /\ containers = [t \in Target |-> Nothing]
    /\ images = [t \in Target |-> Nothing]
    /\ pc = "idle"
    /\ mode = "none"
    /\ turn = 0
    /\ stored = [t \in Target |-> NoEntry]
    /\ candidate = NoEntry
    /\ clients = {}
    /\ incumbent = NoEntry
    /\ started = 0
    /\ result = "none"
    /\ forced = 0
    /\ faults = 0

-----------------------------------------------------------------------------
(* What the promoter asks of DLRN. *)

(* fetch_promotions(label, count=1), None when the list is empty. *)
Newest1(l) ==
    LET list == FetchPromotions(labels[l], 1)
    IN  IF list = {} THEN NoEntry ELSE Latest(list)

(* Mutant of SameHash: the timestamp does not count. *)
SameFullHash(a, b) == a.hash = b.hash

(* DlrnHash.__eq__: the hash and the timestamp. *)
SameHash(a, b) == a.hash = b.hash /\ a.ts = b.ts

(* check_named_hashes_unchanged: a label that the run has stored and that *)
(* the server still knows names something else.                           *)
Changed(t) ==
    /\ stored[t] # NoEntry
    /\ Newest1(t) # NoEntry
    /\ ~SameHash(Newest1(t), stored[t])

(* select_candidates. *)
Selected(t) ==
    SelectCandidates(FetchPromotions(labels[CandidateOf[t]], LatestHashesCount),
                     FetchPromotions(labels[t], PromotionsLimit))

(* Mutant of RequiredJobs: the alternatives are not considered. *)
RequiredCommitted(t) == [c \in Selected(t) |-> Criteria[t]]

(***************************************************************************)
(* required_jobs when candidate c is measured, in a loop that has examined *)
(* all the newer ones: what each of them switches out is switched out of   *)
(* the set of the loaded configuration, for the next ones too.             *)
(***************************************************************************)
RequiredJobs(t) ==
    LET list == Selected(t)
        required[c \in list] ==
            LET newer == {d \in list : d.ts > c.ts}
                left  == IF newer = {} THEN Criteria[t]
                         ELSE required[OldestOf(newer)]
            IN  SwitchOut(Alternatives[t], left, votes[c.hash])
    IN  required

(* The selected candidates that miss none of the jobs required then. *)
Eligible(t) ==
    LET required == RequiredJobs(t)
    IN  {c \in Selected(t) : required[c] \subseteq votes[c.hash]}

-----------------------------------------------------------------------------
(* The environment. *)

Promote(l, h, user) ==
    labels' = [labels EXCEPT ![l] =
                 @ \cup {[hash |-> h, ts |-> clock + 1, user |-> user]}]

(* A build receives a candidate label that is nobody's target. *)
NewCandidate(l, h) ==
    /\ l \in Label \ Target
    /\ clock < MaxClock
    /\ clock' = clock + 1
    /\ Promote(l, h, "pipeline")
    /\ UNCHANGED <<previous, votes, stores, run, forced, faults>>

(* A job reports its success with a build that a label gave it to test. *)
(* DLRN keeps every report.                                             *)
Vote(h, j) ==
    /\ \E l \in Label : h \in HashesOf(labels[l])
    /\ j \notin votes[h]
    /\ Cardinality({r \in Hash \X Job : r[2] \in votes[r[1]]}) < MaxReports
    /\ votes' = [votes EXCEPT ![h] = @ \cup {j}]
    /\ UNCHANGED <<labels, previous, clock, stores, run, forced, faults>>

(* Outside interference: a promotion with dlrnapi. *)
OutsidePromotion(t, h) ==
    /\ Cardinality({e \in labels[t] : e.user = "operator"}) < MaxOutside
    /\ clock < MaxClock
    /\ clock' = clock + 1
    /\ Promote(t, h, "operator")
    /\ UNCHANGED <<previous, votes, stores, run, forced, faults>>

-----------------------------------------------------------------------------
(* The beginning and the end of a run. *)

(* promote_all: the lock is free, and the current hash of every target is *)
(* stored.                                                                *)
StartPromoteAll ==
    /\ pc = "idle"
    /\ pc' = "selecting"
    /\ mode' = "promote-all"
    /\ turn' = 1
    /\ stored' = [t \in Target |-> Newest1(t)]
    /\ started' = clock
    /\ result' = "none"
    /\ UNCHANGED <<dlrn, stores, candidate, clients, incumbent, forced, faults>>

(* force_promote calls promote directly, with an empty named_hashes_map. *)
StartForcePromote(i, h, allowed) ==
    /\ pc = "idle"
    /\ forced < MaxForced
    /\ forced' = forced + 1
    /\ pc' = "checking"
    /\ mode' = "force-promote"
    /\ turn' = i
    /\ candidate' = [hash |-> h, ts |-> NoTime, user |-> "operator"]
    /\ clients' = allowed
    /\ started' = clock
    /\ result' = "none"
    /\ UNCHANGED <<dlrn, stores, stored, incumbent, faults>>

(* The process ends, and the lock and its memory are gone with it. *)
EndRun(r) ==
    /\ pc' = "idle"
    /\ mode' = "none"
    /\ turn' = 0
    /\ stored' = [t \in Target |-> NoEntry]
    /\ candidate' = NoEntry
    /\ clients' = {}
    /\ incumbent' = NoEntry
    /\ result' = r
    /\ UNCHANGED started

(* Mutant of NextTarget: the loop goes one target too far. *)
NextTargetPastEnd(r, map) ==
    \/ /\ mode = "promote-all"
       /\ turn <= Len(Targets)
       /\ pc' = "selecting"
       /\ turn' = turn + 1
       /\ stored' = map
       /\ candidate' = NoEntry
       /\ clients' = {}
       /\ incumbent' = NoEntry
       /\ UNCHANGED <<mode, started, result>>
    \/ /\ mode = "force-promote"
       /\ EndRun(r)

(* The loop of promote_all goes on with this named_hashes_map, or the run *)
(* ends, with a PromotionError only from force-promote: promote_all       *)
(* catches it.                                                            *)
NextTarget(r, map) ==
    \/ /\ mode = "promote-all"
       /\ turn < Len(Targets)
       /\ pc' = "selecting"
       /\ turn' = turn + 1
       /\ stored' = map
       /\ candidate' = NoEntry
       /\ clients' = {}
       /\ incumbent' = NoEntry
       /\ UNCHANGED <<mode, started, result>>
    \/ /\ mode = "promote-all"
       /\ turn = Len(Targets)
       /\ EndRun("terminated")
    \/ /\ mode = "force-promote"
       /\ EndRun(r)

(* Mutant of Select: a target without candidates ends the run. *)
SelectOrEnd ==
    /\ pc = "selecting"
    /\ LET eligible == Eligible(Targets[turn])
       IN  \/ /\ eligible = {}
              /\ EndRun("terminated")
           \/ /\ eligible # {}
              /\ candidate' = Latest(eligible)
              /\ clients' = Client
              /\ pc' = "checking"
              /\ UNCHANGED <<mode, turn, stored, incumbent, started, result>>
    /\ UNCHANGED <<dlrn, stores, forced, faults>>

(* promote_label_to_label attempts the first candidate that misses no job, *)
(* and no other one: promote returns or raises.                            *)
Select ==
    /\ pc = "selecting"
    /\ LET eligible == Eligible(Targets[turn])
       IN  \/ /\ eligible = {}
              /\ NextTarget("terminated", stored)
           \/ /\ eligible # {}
              /\ candidate' = Latest(eligible)
              /\ clients' = Client
              /\ pc' = "checking"
              /\ UNCHANGED <<mode, turn, stored, incumbent, started, result>>
    /\ UNCHANGED <<dlrn, stores, forced, faults>>

(* promote: before every client, look for changes since the last look. *)
(* HashChangedError is not caught anywhere: it ends the run.           *)
CheckUnchanged ==
    /\ pc = "checking"
    /\ \/ /\ \E t \in Target : Changed(t)
          /\ EndRun("HashChangedError")
       \/ /\ \A t \in Target : ~Changed(t)
          /\ pc' = "promoting"
          /\ UNCHANGED <<mode, turn, stored, candidate, clients, incumbent,
                         started, result>>
    /\ UNCHANGED <<dlrn, stores, forced, faults>>

(* The client whose turn it is: the first one that is still to be called. *)
IsNext(client) ==
    client \in clients /\ \A c \in clients : Order[client] <= Order[c]

(* A client has returned: call the next one, or the target is promoted. *)
ClientDone(client, map) ==
    \/ /\ clients # {client}
       /\ clients' = clients \ {client}
       /\ pc' = "checking"
       /\ stored' = map
       /\ incumbent' = NoEntry
       /\ UNCHANGED <<mode, turn, candidate, started, result>>
    \/ /\ clients = {client}
       /\ NextTarget("terminated", map)

-----------------------------------------------------------------------------
(* The clients. *)

Calling(client) == pc = "promoting" /\ IsNext(client)

At(label) == Targets[turn] = label

(* RegistriesClient.promote: the playbook labels the containers one by one *)
(* - maybe all of them before it fails; see module ContainerPush.          *)
PushContainers(t) ==
    /\ Calling("registries_client") /\ At(t)
    /\ \E c \in {Mixed, candidate.hash} :
          containers' = [containers EXCEPT ![t] =
                           IF @ = candidate.hash THEN @ ELSE c]
    /\ pc' = "pushing"
    /\ UNCHANGED <<dlrn, images, mode, turn, stored, candidate, clients,
                   incumbent, started, result, forced, faults>>

FinishContainers(t) ==
    /\ pc = "pushing" /\ At(t)
    /\ containers' = [containers EXCEPT ![t] = candidate.hash]
    /\ ClientDone("registries_client", stored)
    /\ UNCHANGED <<dlrn, images, forced, faults>>

(* QcowClient.promote: the link of the label is removed ...  An error when *)
(* it is read passes for "no link": it stays, and making it fails, silently.*)
UnlinkImages(t) ==
    /\ Calling("qcow_client") /\ At(t)
    /\ \/ /\ images' = [images EXCEPT ![t] = Nothing]
          /\ pc' = "linking"
          /\ UNCHANGED <<mode, turn, stored, candidate, clients, incumbent,
                         started, result, faults>>
       \/ /\ images[t] # Nothing
          /\ faults < MaxFaults
          /\ faults' = faults + 1
          /\ ClientDone("qcow_client", stored)
          /\ UNCHANGED images
    /\ UNCHANGED <<dlrn, containers, forced>>

(* ... and made again.  A failure here is logged, and nothing else. *)
LinkImages(t) ==
    /\ pc = "linking" /\ At(t)
    /\ \/ /\ images' = [images EXCEPT ![t] = candidate.hash]
          /\ UNCHANGED faults
       \/ /\ faults < MaxFaults
          /\ faults' = faults + 1
          /\ UNCHANGED images
    /\ ClientDone("qcow_client", stored)
    /\ UNCHANGED <<dlrn, containers, forced>>

(* DlrnClient.promote: the current hash of the label ... *)
FetchIncumbent(t) ==
    /\ Calling("dlrn_client") /\ At(t)
    /\ IF Newest1(t) # NoEntry /\ SameHash(Newest1(t), candidate)
       THEN NextTarget("PromotionError", stored)
       ELSE /\ incumbent' = Newest1(t)
            /\ pc' = IF Newest1(t) = NoEntry THEN "posting" ELSE "saving"
            /\ UNCHANGED <<mode, turn, stored, candidate, clients,
                           started, result>>
    /\ UNCHANGED <<dlrn, stores, forced, faults>>

(* Mutant of SavePrevious: an existing previous label is kept. *)
SavePreviousOnce(t) ==
    /\ pc = "saving" /\ At(t)
    /\ previous' = [previous EXCEPT ![t] =
                      IF @ = Nothing THEN incumbent.hash ELSE @]
    /\ pc' = "posting"
    /\ UNCHANGED <<labels, clock, votes, stores, mode, turn, stored, candidate,
                   clients, incumbent, started, result, forced, faults>>

(* ... is saved under the previous label, whose timestamp nobody reads.   *)
(* This updates named_hashes_map too, under a name that is not a target   *)
(* and that no check looks at.                                            *)
SavePrevious(t) ==
    /\ pc = "saving" /\ At(t)
    /\ previous' = [previous EXCEPT ![t] = incumbent.hash]
    /\ pc' = "posting"
    /\ UNCHANGED <<labels, clock, votes, stores, mode, turn, stored, candidate,
                   clients, incumbent, started, result, forced, faults>>

(* promote_hash: the label moves.  The map keeps the candidate with the   *)
(* timestamp of its candidate label, not with the one of this promotion.  *)
PostPromotion(t) ==
    /\ pc = "posting" /\ At(t)
    /\ clock' = clock + 1
    /\ Promote(t, candidate.hash, "promoter")
    /\ ClientDone("dlrn_client", [stored EXCEPT ![t] = candidate])
    /\ UNCHANGED <<previous, votes, stores, forced, faults>>

(* Mutant of ClientFails: the failure is logged, and the next client called. *)
ClientFailureIgnored ==
    /\ pc \in {"promoting", "pushing", "saving", "posting"}
    /\ faults < MaxFaults
    /\ faults' = faults + 1
    /\ \E client \in Client : IsNext(client) /\ ClientDone(client, stored)
    /\ UNCHANGED <<dlrn, stores, forced>>

(* A PromotionError of a client ends the work on this target. *)
ClientFails ==
    /\ pc \in {"promoting", "pushing", "saving", "posting"}
    /\ faults < MaxFaults
    /\ faults' = faults + 1
    /\ NextTarget("PromotionError", stored)
    /\ UNCHANGED <<dlrn, stores, forced>>

(* Any other exception, or the timeout of dlrn-promoter.sh, ends the run. *)
Crash ==
    /\ pc # "idle"
    /\ faults < MaxFaults
    /\ faults' = faults + 1
    /\ EndRun("crashed")
    /\ UNCHANGED <<dlrn, stores, forced>>

-----------------------------------------------------------------------------
Environment ==
    \/ \E l \in Label, h \in Hash : NewCandidate(l, h)
    \/ \E h \in Hash, j \in Job : Vote(h, j)
    \/ \E t \in Target, h \in Hash : OutsidePromotion(t, h)

CallClient(t) ==
    \/ PushContainers(t) \/ FinishContainers(t)
    \/ UnlinkImages(t) \/ LinkImages(t)
    \/ FetchIncumbent(t) \/ SavePrevious(t) \/ PostPromotion(t)

PromoterStep ==
    \/ Select \/ CheckUnchanged
    \/ \E t \in Target : CallClient(t)

ForcePromote ==
    \E i \in 1 .. Len(Targets), h \in Hash, allowed \in (SUBSET Client) \ {{}} :
        StartForcePromote(i, h, allowed)

Next ==
    \/ Environment
    \/ StartPromoteAll \/ ForcePromote
    \/ PromoterStep
    \/ ClientFails \/ Crash

Spec == Init /\ [][Next]_vars

(***************************************************************************)
(* dlrn-promoter-service.sh runs promote-all for ever, and a process that  *)
(* runs takes its steps.  Nobody has to call force-promote or dlrnapi.     *)
(***************************************************************************)
Fairness == WF_vars(StartPromoteAll \/ PromoterStep)

FairSpec == Spec /\ Fairness

-----------------------------------------------------------------------------
(***************************************************************************)
(* Consumers who see a label of DLRN move find the containers of the new   *)
(* hash: promote-all posts it only when all of them have the label, and    *)
(* whatever fails before that keeps the label where it is (promote, "DLRN  *)
(* client should always be called last").                                  *)
(***************************************************************************)
ContainersFirst ==
    [][\A t \in Target : \A e \in labels'[t] \ labels[t] :
          (mode = "promote-all" /\ e.user = "promoter") =>
              containers[t] = e.hash]_vars

(***************************************************************************)
(* As long as only the promoter moves a target label, its previous label   *)
(* names the hash to fall back to: the one before the current hash, or, if *)
(* a run was cut between the two calls to the server, the current hash     *)
(* itself (DlrnClient.promote).                                            *)
(***************************************************************************)
OnlyPromoter(t) == \A e \in labels[t] : e.user = "promoter"

BeforeLatest(t) == Latest(labels[t] \ {Latest(labels[t])}).hash

PreviousIsFallback ==
    \A t \in Target :
        (OnlyPromoter(t) /\ Cardinality(labels[t]) > 1) =>
            \/ previous[t] = BeforeLatest(t)
            \/ /\ pc = "posting" \/ faults > 0
               /\ previous[t] = Latest(labels[t]).hash

(***************************************************************************)
(* When a client is called, nobody else has promoted a target that the run *)
(* knows since the run started - not even back to where the label was      *)
(* (check_named_hashes_unchanged, "bail out in case of any outside         *)
(* interference").                                                         *)
(***************************************************************************)
InterferenceDetected ==
    [][(pc = "checking" /\ pc' = "promoting") =>
          \A t \in Target : stored[t] # NoEntry =>
              \A e \in labels[t] : e.user = "operator" => e.ts <= started]_vars

(***************************************************************************)
(* What the criteria of a target promise of a hash, and the one way in     *)
(* which a candidate that meets them may be passed over: a newer candidate *)
(* missed a committed job and passed an alternative of it, which was       *)
(* switched out for the rest of the loop, and this one did not pass it.    *)
(***************************************************************************)
Qualifies(t, h) == MeetsCriteria(Criteria[t], Alternatives[t], votes[h])

PassedOver(t, c) ==
    \E d \in Selected(t), j \in Criteria[t] :
        /\ d.ts > c.ts
        /\ j \notin votes[d.hash]
        /\ \E i \in DOMAIN Alternatives[t][j] :
              /\ Alternatives[t][j][i] \in votes[d.hash]
              /\ Alternatives[t][j][i] \notin votes[c.hash]

(***************************************************************************)
(* Once builds and votes stop coming, the runs come to an end of what they *)
(* have to do, for every label of the chain, although a run that promoted  *)
(* one label gives up at the next one: no candidate is left that meets the *)
(* criteria, is among the latest_hashes_count newest, is newer than all    *)
(* that the target has held, and is not passed over.                       *)
(***************************************************************************)
AllPromoted ==
    <>[](\A t \in Target : \A c \in Selected(t) :
            Qualifies(t, c.hash) => PassedOver(t, c))

(***************************************************************************)
(* However many runs fail half way, the containers come to rest on the     *)
(* hash of the DLRN label - if nobody else moves labels, and no build gets *)
(* its candidate label twice.  There is one exception: runs that attempted *)
(* a candidate failed, and before the next run newer builds, none of which *)
(* qualifies, have pushed the candidate out of the latest_hashes_count     *)
(* ones or have made it passed over.  No run comes back to it then, and    *)
(* its containers keep the label, all or some of them, without the DLRN    *)
(* label.                                                                  *)
(***************************************************************************)
Undisturbed ==
    /\ forced = 0
    /\ \A t \in Target : OnlyPromoter(t)
    /\ \A l \in Label : \A e, d \in labels[l] : e.hash = d.hash => e = d

Agreement(t) ==
    containers[t] = IF labels[t] = {} THEN Nothing
                    ELSE Latest(labels[t]).hash

Stranded(t) ==
    \E c \in labels[CandidateOf[t]] :
        /\ containers[t] \in {Mixed, c.hash}
        /\ Qualifies(t, c.hash)
        /\ \A d \in labels[CandidateOf[t]] :
              d.hash \in HashesOf(labels[t]) => d.ts < c.ts
        /\ c \notin Selected(t) \/ PassedOver(t, c)

Converges ==
    <>[](Undisturbed => \A t \in Target : Agreement(t) \/ Stranded(t))

(***************************************************************************)
(* fetch_current_named_hashes: the names are checked "to bail out in case  *)
(* of any outside interference"; without interference a run is not         *)
(* aborted.                                                                *)
(***************************************************************************)
AbortedByInterference ==
    result = "HashChangedError" =>
        \E t \in Target : \E e \in labels[t] :
            e.user = "operator" /\ e.ts > started

(***************************************************************************)
(* DlrnClient.promote: "Attempted to promote an already promoted hash" is  *)
(* an error: the promoter does not promote the current hash of a label     *)
(* again, which would leave previous and current the same.                 *)
(***************************************************************************)
NeverPromotedAgain ==
    [][\A t \in Target : \A e \in labels'[t] \ labels[t] :
          (e.user = "promoter" /\ labels[t] # {} /\ OnlyPromoter(t)) =>
              Latest(labels[t]).hash # e.hash]_vars
=============================================================================
