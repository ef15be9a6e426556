----------------------------- MODULE VoteReaders -----------------------------
(* Three programs read the votes of one hash from the DLRN server and must    *)
(* come to the same view of it: the promoter (fetch_jobs), the dashboard      *)
(* ruck_rover.py, and dlrnapi_trigger.py, whose exit status makes its caller  *)
(* launch a job.  The votes keep arriving; nothing in the repository fixes    *)
(* the order in which the server lists them.                                  *)
EXTENDS Naturals, Sequences, FiniteSets, SequencesExt

CONSTANTS CiJob,            (* ids of jobs                                    *)
          JobsInCriteria,
          AltCriteria,      (* jobs_in_alt_criteria: alternatives of a job    *)
          PeriodicJob,      (* ids that begin with periodic or pipeline_      *)
          WaitJob, LaunchJob,
          MaxVotes,         (* bound on the votes                             *)
          MaxLaunched       (* bound on the launched jobs that run together   *)

ASSUME VoteReadersAssumption ==
    /\ JobsInCriteria \subseteq CiJob
    /\ PeriodicJob \subseteq CiJob
    /\ AltCriteria \in [JobsInCriteria -> SUBSET CiJob]
    /\ {WaitJob, LaunchJob} \subseteq CiJob
    /\ MaxVotes \in Nat /\ MaxLaunched \in Nat

VARIABLES ciVotes,       (* the votes for the hash, in the order they came    *)
          newestFirst,   (* the order of api_response                         *)
          stream,        (* what the dashboard shows the hash for             *)
          launched       (* how many of the launched jobs run                 *)

viewVars == <<newestFirst, stream>>
voteVars == <<ciVotes, viewVars, launched>>

(* The pipelines that downstream() and upstream_proxy() tell apart. *)
Stream == {"downstream", "upstream", "component"}

CiVote == [job : CiJob, success : BOOLEAN]

VoteReadersTypeOK ==
    /\ ciVotes \in Seq(CiVote) /\ Len(ciVotes) <= MaxVotes
    /\ newestFirst \in BOOLEAN
    /\ stream \in Stream
    /\ launched \in 0 .. MaxLaunched

VoteReadersInit ==
    /\ ciVotes = <<>>
    /\ newestFirst \in BOOLEAN
    /\ stream \in Stream
    /\ launched = 0

(* The answer of the server, each vote with its timestamp. *)
ApiResponse ==
    LET stamped == [i \in DOMAIN ciVotes |->
                      [job |-> ciVotes[i].job, success |-> ciVotes[i].success, timestamp |-> i]]
    IN IF newestFirst THEN Reverse(stamped) ELSE stamped

-----------------------------------------------------------------------------
(* DlrnClient.fetch_jobs asks for successful votes only. *)
FetchJobs == {v.job : v \in {x \in ToSet(ApiResponse) : x.success}}

(* check_trigger_condition keeps the first record of each of the two jobs;    *)
(* with one name for both it would never find a record to launch.  0: none.   *)
FirstRecord(job) == SelectInSeq(ApiResponse, LAMBDA v : v.job = job)

CheckTriggerCondition ==
    /\ FirstRecord(LaunchJob) = 0
    /\ FirstRecord(WaitJob) # 0
    /\ ApiResponse[FirstRecord(WaitJob)].success

-----------------------------------------------------------------------------
(* ruck_rover. *)

(* Mutant of Supersedes: a later failure replaces a success. *)
SupersedesByTime(vote, existing) == vote.timestamp > existing.timestamp

(* get_dlrn_results: the record that replaces the one it has of the job.      *)
Supersedes(vote, existing) ==
    /\ vote.timestamp > existing.timestamp
    /\ vote.success \/ ~existing.success

(* The loop over the response: the records kept, at most one for each job.    *)
Keep(jobs, vote) ==
    LET existing == {r \in jobs : r.job = vote.job}
    IN IF vote.job \in PeriodicJob /\ \A r \in existing : Supersedes(vote, r)
       THEN (jobs \ existing) \cup {vote}
       ELSE jobs

GetDlrnResults ==
    LET kept[n \in 0 .. Len(ApiResponse)] ==
            IF n = 0 THEN {} ELSE Keep(kept[n - 1], ApiResponse[n])
    IN kept[Len(ApiResponse)]

(* prepare_jobs: the status of each job, pending without a record.            *)
JobStatus(job) ==
    CASE \E r \in GetDlrnResults : r.job = job /\ r.success  -> "passed"
      [] \E r \in GetDlrnResults : r.job = job /\ ~r.success -> "failed"
      [] OTHER                                               -> "pending"

Passed == {j \in CiJob : JobStatus(j) = "passed"}

(* Only downstream_integration reads the alternatives from the criteria;      *)
(* upstream_proxy and track_component_promotion pass none.                    *)
JobsAltCriteria == IF stream = "downstream" THEN AltCriteria ELSE [j \in JobsInCriteria |-> {}]

(* render_tables: the jobs of the criteria still to pass, themselves or one   *)
(* of their alternatives.                                                     *)
ToPromote == {j \in JobsInCriteria \ Passed : JobsAltCriteria[j] \cap Passed = {}}

-----------------------------------------------------------------------------
Report(job, success) ==
    /\ Len(ciVotes) < MaxVotes
    /\ ciVotes' = Append(ciVotes, [job |-> job, success |-> success])

(* A job of the pipeline reports, again and again when it is run again.       *)
JobReports(job, success) ==
    /\ job # LaunchJob
    /\ Report(job, success)
    /\ UNCHANGED <<viewVars, launched>>

(* The caller launches the job whenever the script exits with 0.  The script  *)
(* keeps no state: all it knows of earlier runs are the votes.                *)
TriggerJob ==
    /\ CheckTriggerCondition
    /\ launched < MaxLaunched
    /\ launched' = launched + 1
    /\ UNCHANGED <<ciVotes, viewVars>>

LaunchedJobReports(success) ==
    /\ launched > 0
    /\ launched' = launched - 1
    /\ Report(LaunchJob, success)
    /\ UNCHANGED viewVars

VoteReadersNext ==
    \/ \E job \in CiJob, success \in BOOLEAN : JobReports(job, success)
    \/ TriggerJob
    \/ \E success \in BOOLEAN : LaunchedJobReports(success)

VoteReadersSpec == VoteReadersInit /\ [][VoteReadersNext]_voteVars

-----------------------------------------------------------------------------
(* What the promoter asks of a hash, with the alternatives of each job. *)
MeetsCriteria(passed) ==
    \A j \in JobsInCriteria : j \in passed \/ AltCriteria[j] \cap passed # {}

(* The dashboard shows the promoter's view: no job as still to pass that      *)
(* keeps a hash from promotion no more, and none as passed that does.  It is  *)
(* the more cautious of the two only where it knows no alternatives, and with *)
(* answers newest first, when it shows a success that a failure followed as   *)
(* failed.                                                                    *)
DashboardAgreesWithPromoter ==
    LET promotable == MeetsCriteria(FetchJobs \cap PeriodicJob)
    IN /\ ToPromote = {} => promotable
       /\ promotable /\ stream = "downstream" /\ ~newestFirst => ToPromote = {}
=============================================================================
