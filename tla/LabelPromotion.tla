--------------------------- MODULE LabelPromotion ---------------------------
(***************************************************************************)
(* One promotion step of a release, from a candidate label to a target     *)
(* label, over any number of runs of the promoter: Promoter's              *)
(* select_candidates and promote_label_to_label (dlrnapi_promoter/logic.py)*)
(* in full detail, with the rest of the promotion (the clients) reduced to *)
(* its outcome.  Module Promoter has the clients in detail.                *)
(*                                                                         *)
(* Around the promoter, builds receive the candidate label, CI jobs report *)
(* their votes while the promoter is reading them, an operator moves the   *)
(* target label by hand between runs, and a run may be killed at any point.*)
(***************************************************************************)
EXTENDS DlrnPromotions, JobCriteria

CONSTANTS
    Job,                \* CI jobs that report to DLRN
    Committed,          \* promotions[target]['criteria'] of the configuration
    Alternatives,       \* ... ['alternative_criteria']: job -> list of jobs
    LatestHashesCount,  \* latest_hashes_count: candidates fetched
    PromotionsLimit,    \* length of the target's history the server returns
    NoEntry,            \* no candidate's promotion was attempted in this run
    MaxClock,           \* bound: the environment promotes until this time
    MaxFaults           \* bound on the failed or killed attempts

(***************************************************************************)
(* No job of the release configurations is at the same time an alternative *)
(* and a job that has alternatives.                                        *)
(***************************************************************************)
ASSUME CriteriaAssumption ==
    /\ Committed \subseteq Job
    /\ Alternatives \in [Job -> Seq(Job)]
    /\ \A j \in Job : \A i \in DOMAIN Alternatives[j] :
          Alternatives[Alternatives[j][i]] = << >>

ASSUME BoundsAssumption ==
    /\ LatestHashesCount \in Nat \ {0, 1}
    /\ PromotionsLimit \in Nat \ {0}
    /\ MaxClock \in Nat
    /\ MaxFaults \in Nat

VARIABLES
    candidates,   \* DLRN: promotions of the candidate label
    target,       \* DLRN: promotions of the target label
    clock,        \* DLRN: timestamp of the latest promotion
    votes,        \* DLRN: the jobs that reported success, per hash
    pc,           \* where the promoter's run is
    fetched,      \* candidate_hashes_list as it was fetched
    todo,         \* selected_candidates not examined yet
    required,     \* required_jobs, the set of the loaded configuration
    current,      \* the candidate whose promotion is attempted
    report,       \* jobs_list: the table of the candidates examined
    faults        \* attempts that failed or were killed so far

server == <<candidates, target, clock, votes>>
run    == <<pc, fetched, todo, required, current, report>>
vars   == <<candidates, target, clock, votes,
            pc, fetched, todo, required, current, report, faults>>

Row == [entry : Promotion, promoted : BOOLEAN,
        successful : SUBSET Job, missing : SUBSET Job]

TypeOK ==
    /\ candidates \subseteq Promotion
    /\ target \subseteq Promotion
    /\ clock \in Nat
    /\ votes \in [Hash -> SUBSET Job]
    /\ pc \in {"idle", "selecting", "scanning", "promoting"}
    /\ fetched \subseteq Promotion
    /\ todo \subseteq Promotion
    /\ required \subseteq Job
    /\ pc = "promoting" => current \in Promotion
    /\ report \subseteq Row
    /\ faults \in 0 .. MaxFaults

Init ==
    /\ candidates = {}
    /\ target = {}
    /\ clock = 0
    /\ votes = [h \in Hash |-> {}]
    /\ pc = "idle"
    /\ fetched = {}
    /\ todo = {}
    /\ required = Committed
    /\ current = NoEntry
    /\ report = {}
    /\ faults = 0

-----------------------------------------------------------------------------
(* What the criteria promise of a hash with these successful jobs. *)
Meets(successful) == MeetsCriteria(Committed, Alternatives, successful)

-----------------------------------------------------------------------------
(* The environment. *)

(* A build receives the candidate label, possibly not for the first time. *)
NewCandidate(h) ==
    /\ clock < MaxClock
    /\ clock' = clock + 1
    /\ candidates' = candidates
          \cup {[hash |-> h, ts |-> clock + 1, user |-> "pipeline"]}
    /\ UNCHANGED <<target, votes, run, faults>>

(* A job reports its success.  DLRN keeps every report. *)
Vote(h, j) ==
    /\ j \notin votes[h]
    /\ votes' = [votes EXCEPT ![h] = @ \cup {j}]
    /\ UNCHANGED <<candidates, target, clock, run, faults>>

(***************************************************************************)
(* An operator moves the target label by hand (force-promote): forward or  *)
(* back.  The lock of common.get_lock keeps this out of a promoter's run.  *)
(***************************************************************************)
ForcePromote(h) ==
    /\ pc = "idle"
    /\ clock < MaxClock
    /\ clock' = clock + 1
    /\ target' = target
          \cup {[hash |-> h, ts |-> clock + 1, user |-> "operator"]}
    /\ UNCHANGED <<candidates, votes, run, faults>>

-----------------------------------------------------------------------------
(* The promoter. *)

(* A run starts with a freshly loaded configuration and fetches the newest *)
(* candidates.  With none, there is nothing to do.                         *)
FetchCandidates ==
    /\ pc = "idle"
    /\ fetched' = FetchPromotions(candidates, LatestHashesCount)
    /\ pc' = IF fetched' = {} THEN "idle" ELSE "selecting"
    /\ required' = Committed
    /\ todo' = {}
    /\ report' = {}
    /\ current' = NoEntry
    /\ UNCHANGED <<server, faults>>

(* The second half of select_candidates, after the history of the target *)
(* label was fetched.                                                    *)
Select ==
    /\ pc = "selecting"
    /\ todo' = SelectCandidates(fetched,
                                FetchPromotions(target, PromotionsLimit))
    /\ pc' = IF todo' = {} THEN "idle" ELSE "scanning"
    /\ UNCHANGED <<server, fetched, required, current, report, faults>>

(* Mutant of Examine: the first candidate that misses a job ends the run. *)
ExamineOnlyNewest ==
    /\ pc = "scanning"
    /\ LET c       == Latest(todo)
           missing == required \ votes[c.hash]
       IN  /\ report' = report \cup {[entry |-> c, promoted |-> FALSE,
                                      successful |-> votes[c.hash],
                                      missing |-> missing]}
           /\ todo' = todo \ {c}
           /\ pc' = IF missing # {} THEN "idle" ELSE "promoting"
           /\ current' = IF missing # {} THEN current ELSE c
    /\ UNCHANGED <<server, fetched, required, faults>>

(***************************************************************************)
(* One turn of the loop of promote_label_to_label: fetch the votes of the  *)
(* next candidate, switch out criteria - in the set of the configuration,  *)
(* which the next candidates see -, and go on to the promotion or to the   *)
(* next candidate.                                                         *)
(***************************************************************************)
Examine ==
    /\ pc = "scanning"
    /\ LET c          == Latest(todo)
           successful == votes[c.hash]
           missing    == required' \ successful
       IN  /\ required' = SwitchOut(Alternatives, required, successful)
           /\ report' = report \cup {[entry |-> c, promoted |-> FALSE,
                                      successful |-> successful,
                                      missing |-> missing]}
           /\ todo' = todo \ {c}
           /\ \/ /\ missing # {}
                 /\ pc' = IF todo' = {} THEN "idle" ELSE "scanning"
                 /\ UNCHANGED current
              \/ /\ missing = {}
                 /\ pc' = "promoting"
                 /\ current' = c
    /\ UNCHANGED <<server, fetched, faults>>

(* promote returns a pair: the label has moved, and the run is over. *)
PromoteSucceeds ==
    /\ pc = "promoting"
    /\ clock' = clock + 1
    /\ target' = target \cup {[hash |-> current.hash, ts |-> clock + 1,
                               user |-> "promoter"]}
    /\ report' = report \cup {[r EXCEPT !.promoted = TRUE] :
                               r \in {q \in report : q.entry = current}}
    /\ pc' = "idle"
    /\ UNCHANGED <<candidates, votes, fetched, todo, required, current, faults>>

(* Any exception of promote ends the work on this label. *)
PromoteFails ==
    /\ pc = "promoting"
    /\ faults < MaxFaults
    /\ faults' = faults + 1
    /\ pc' = "idle"
    /\ UNCHANGED <<server, fetched, todo, required, current, report>>

(* dlrn-promoter.sh: timeout(1) ends a run that takes too long. *)
Kill ==
    /\ pc # "idle"
    /\ faults < MaxFaults
    /\ faults' = faults + 1
    /\ pc' = "idle"
    /\ UNCHANGED <<server, fetched, todo, required, current, report>>

-----------------------------------------------------------------------------
Environment ==
    \/ \E h \in Hash : NewCandidate(h) \/ ForcePromote(h)
    \/ \E h \in Hash, j \in Job : Vote(h, j)

Next ==
    \/ Environment
    \/ FetchCandidates \/ Select \/ Examine
    \/ PromoteSucceeds \/ PromoteFails \/ Kill

Spec == Init /\ [][Next]_vars

(***************************************************************************)
(* The service runs the promoter again every ten minutes, whatever became  *)
(* of the last run.  Failures and timeouts are bounded by MaxFaults: what  *)
(* must eventually happen may rely on a run that meets none.               *)
(***************************************************************************)
Fairness == WF_vars(FetchCandidates \/ Select \/ Examine \/ PromoteSucceeds)

FairSpec == Spec /\ Fairness

-----------------------------------------------------------------------------
(***************************************************************************)
(* Whatever was switched out while older and newer candidates were being   *)
(* examined, a hash that the promoter put on the target label passed every *)
(* committed job or an alternative of it (promote_label_to_label).         *)
(***************************************************************************)
PromotedMeetsCriteria ==
    \A e \in target : e.user = "promoter" => Meets(votes[e.hash])

(***************************************************************************)
(* The promoter never gives the target label back a hash that it has held  *)
(* before: when an operator takes the label a step back, the next runs do  *)
(* not undo it (select_candidates, "only the hashes younger than the       *)
(* latest promoted").                                                      *)
(***************************************************************************)
NoRepromotion ==
    \A e, d \in target :
        (e.user = "promoter" /\ d.hash = e.hash) => e.ts <= d.ts

(***************************************************************************)
(* A candidate is promoted past a newer one of the list only after the     *)
(* newer one was examined in the same run and found to miss a job.         *)
(***************************************************************************)
NewestFirst ==
    pc = "promoting" =>
        \A c \in fetched : c.ts > current.ts =>
            \E r \in report : r.entry = c /\ r.missing # {}

(***************************************************************************)
(* The promoter only moves the label forward: what it promotes is younger, *)
(* as a candidate, than every hash the target label has held by then.      *)
(***************************************************************************)
OnlyForward ==
    [][\A e \in target' \ target : e.user = "promoter" =>
          \A d \in fetched : d.hash \in HashesOf(target) => d.ts < current.ts
      ]_vars

(***************************************************************************)
(* A candidate within reach of latest_hashes_count that meets the criteria *)
(* does not wait for ever: it is promoted, or a candidate at least as      *)
(* young is, or newer builds push it out of reach.                         *)
(***************************************************************************)
InReach(h, n) ==
    [hash |-> h, ts |-> n, user |-> "pipeline"] \in
        FetchPromotions(candidates, LatestHashesCount)

Overtaken(n) ==
    \E d \in candidates : d.ts >= n /\ d.hash \in HashesOf(target)

QualifiedIsPromoted ==
    \A h \in Hash, n \in 1 .. MaxClock :
        (InReach(h, n) /\ Meets(votes[h])) ~> (Overtaken(n) \/ ~InReach(h, n))

(***************************************************************************)
(* "Missing jobs - considering also alternative jobs" (logic.py): a        *)
(* candidate that is passed over misses a committed job and all of its     *)
(* alternatives.                                                           *)
(***************************************************************************)
PassedOverMissesCriteria ==
    \A r \in report : r.missing # {} => ~Meets(r.successful)
=============================================================================
