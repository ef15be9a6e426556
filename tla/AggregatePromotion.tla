------------------------- MODULE AggregatePromotion -------------------------
(* The promotion of an aggregate hash, which Promoter has as one call to the  *)
(* server.  An aggregate cannot be promoted itself: the DLRN client downloads *)
(* the delorean.repo of the aggregate, then the commit.yaml of each component *)
(* named in it, and promotes the commits it found as one batch, first those   *)
(* of the incumbent to the previous label, then those of the candidate.  The  *)
(* component pipeline goes on promoting components to the candidate label,    *)
(* and CI votes for aggregates, meanwhile.                                    *)
(*                                                                            *)
(* An aggregate hash is a digest of what it contains and is modelled by that: *)
(* the build of each component.                                               *)
EXTENDS Naturals

CONSTANTS Component,
          MaxBuild,           (* builds of a component                        *)
          MaxAggregateFaults  (* failed calls and kills in a run of TLC       *)

ASSUME AggregateAssumption ==
    /\ Component # {}
    /\ MaxBuild \in Nat
    /\ MaxAggregateFaults \in Nat

NoBuild == 0

VARIABLES
    candidateRepo,     (* what the candidate label points to                  *)
    aggregates,        (* all it has ever pointed to                          *)
    votedFor,          (* the aggregates all jobs of the criteria passed on   *)
    targetRepo,
    previousRepo,      (* what target label and previous label point to       *)
    promoting,         (* the promoter's next call                            *)
    dlrnHash,          (* the candidate                                       *)
    label,             (* the label of the batch at work                      *)
    components,        (* sections of delorean.repo still to look up          *)
    batch,             (* promotion_parameters_list                           *)
    aggregateFaults

aggregateVars == <<candidateRepo, aggregates, votedFor, targetRepo, previousRepo,
                   promoting, dlrnHash, label, components, batch, aggregateFaults>>

dlrnVars == <<candidateRepo, aggregates, votedFor>>
labelVars == <<targetRepo, previousRepo>>

Repo == [Component -> 0..MaxBuild]
EmptyRepo == [c \in Component |-> NoBuild]

Sections(repo) == {c \in Component : repo[c] # NoBuild}

AggregateTypeOK ==
    /\ candidateRepo \in Repo
    /\ aggregates \in SUBSET Repo
    /\ votedFor \in SUBSET Repo
    /\ targetRepo \in Repo
    /\ previousRepo \in Repo
    /\ promoting \in {"idle", "repo", "commits", "post"}
    /\ dlrnHash \in Repo
    /\ label \in {"previous", "target"}
    /\ components \in SUBSET Component
    /\ batch \in Repo
    /\ aggregateFaults \in 0..MaxAggregateFaults

AggregateInit ==
    /\ candidateRepo = EmptyRepo
    /\ aggregates = {}
    /\ votedFor = {}
    /\ targetRepo = EmptyRepo
    /\ previousRepo = EmptyRepo
    /\ promoting = "idle"
    /\ dlrnHash = EmptyRepo
    /\ label = "target"
    /\ components = {}
    /\ batch = EmptyRepo
    /\ aggregateFaults = 0

-----------------------------------------------------------------------------
PromoteComponent(c) ==
    /\ candidateRepo[c] < MaxBuild
    /\ candidateRepo' = [candidateRepo EXCEPT ![c] = @ + 1]
    /\ aggregates' = aggregates \cup {candidateRepo'}
    /\ UNCHANGED <<votedFor, labelVars, promoting, dlrnHash, label, components, batch,
                   aggregateFaults>>

(* Jobs test the aggregate they started with; vote() names only the aggregate. *)
VoteForAggregate(a) ==
    /\ a \in aggregates
    /\ votedFor' = votedFor \cup {a}
    /\ UNCHANGED <<candidateRepo, aggregates, labelVars, promoting, dlrnHash, label,
                   components, batch, aggregateFaults>>

(* The newest candidate that the target has not had, is not older, and passed *)
(* all jobs (LabelPromotion has this choice in detail).                       *)
Newer(a, b) == a # b /\ \A c \in Component : a[c] >= b[c]

(* DlrnClient.promote: without an incumbent there is no previous to save.     *)
PromoteAggregate(a) ==
    /\ promoting = "idle"
    /\ a \in votedFor
    /\ Newer(a, targetRepo)
    /\ dlrnHash' = a
    /\ label' = IF targetRepo = EmptyRepo THEN "target" ELSE "previous"
    /\ promoting' = "repo"
    /\ UNCHANGED <<dlrnVars, labelVars, components, batch, aggregateFaults>>

(* The aggregate the batch is made from: its directory, below the label it    *)
(* was promoted to, stays as it is when the label moves on.                   *)
SourceRepo == IF label = "previous" THEN targetRepo ELSE dlrnHash

DownloadRepo ==
    /\ promoting = "repo"
    /\ components' = Sections(SourceRepo)
    /\ batch' = EmptyRepo
    /\ promoting' = "commits"
    /\ UNCHANGED <<dlrnVars, labelVars, dlrnHash, label, aggregateFaults>>

(* Mutant of ComponentCommit: the commit the component has now. *)
CurrentComponentCommit(c) == candidateRepo[c]

(* get_hash_from_component: the commit.yaml below the component's base url in *)
(* the delorean.repo.                                                         *)
ComponentCommit(c) == SourceRepo[c]

GetHashFromComponent(c) ==
    /\ promoting = "commits"
    /\ c \in components
    /\ batch' = [batch EXCEPT ![c] = ComponentCommit(c)]
    /\ components' = components \ {c}
    /\ promoting' = IF components' = {} THEN "post" ELSE "commits"
    /\ UNCHANGED <<dlrnVars, labelVars, dlrnHash, label, aggregateFaults>>

(* What a label points to after a batch: components that are not in it stay. *)
Promoted(repo) == [c \in Component |-> IF batch[c] = NoBuild THEN repo[c] ELSE batch[c]]

(* api_promote_batch_post.  An answer that names another hash is only logged.  *)
PostBatch ==
    /\ promoting = "post"
    /\ IF label = "previous"
       THEN /\ previousRepo' = Promoted(previousRepo)
            /\ targetRepo' = targetRepo
            /\ label' = "target"
            /\ promoting' = "repo"
       ELSE /\ targetRepo' = Promoted(targetRepo)
            /\ previousRepo' = previousRepo
            /\ label' = label
            /\ promoting' = "idle"
    /\ UNCHANGED <<dlrnVars, dlrnHash, components, batch, aggregateFaults>>

(* A download that fails raises PromotionError, a refused batch ApiException; *)
(* the promoter may be killed, its batch done or not.                         *)
AggregatePromotionFails ==
    /\ promoting # "idle"
    /\ aggregateFaults < MaxAggregateFaults
    /\ aggregateFaults' = aggregateFaults + 1
    /\ promoting' = "idle"
    /\ \/ UNCHANGED labelVars
       \/ /\ promoting = "post"
          /\ IF label = "previous"
             THEN previousRepo' = Promoted(previousRepo) /\ UNCHANGED targetRepo
             ELSE targetRepo' = Promoted(targetRepo) /\ UNCHANGED previousRepo
    /\ UNCHANGED <<dlrnVars, dlrnHash, label, components, batch>>

AggregateNext ==
    \/ \E c \in Component : PromoteComponent(c) \/ GetHashFromComponent(c)
    \/ \E a \in aggregates : VoteForAggregate(a)
    \/ \E a \in votedFor : PromoteAggregate(a)
    \/ DownloadRepo \/ PostBatch \/ AggregatePromotionFails

AggregateSpec == AggregateInit /\ [][AggregateNext]_aggregateVars

-----------------------------------------------------------------------------
(* What a label names was tested as a whole: after any failed promotions, and *)
(* while components move under the candidate label, the components under the  *)
(* target and the previous label are those of one aggregate that passed.      *)
LabelsHoldTestedAggregates ==
    /\ targetRepo # EmptyRepo => targetRepo \in votedFor
    /\ previousRepo # EmptyRepo => previousRepo \in votedFor
=============================================================================
