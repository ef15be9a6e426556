---------------------------- MODULE JobCriteria ----------------------------
(***************************************************************************)
(* The criteria of a target label: the jobs that a candidate has to pass,  *)
(* and the alternatives that may stand for them (promote_label_to_label in *)
(* dlrnapi_promoter/logic.py).  "alternatives" is alternative_criteria of  *)
(* the configuration, with << >> for a job that has none.                  *)
(***************************************************************************)
EXTENDS Naturals, Sequences

(* The alternatives of job j that the loop over alt_criteria may stop at: *)
(* the first one of the list that is among the successful jobs.           *)
FirstPassing(alternatives, j, successful) ==
    {alternatives[j][i] : i \in
        {k \in DOMAIN alternatives[j] :
            /\ alternatives[j][k] \in successful
            /\ \A m \in 1 .. k - 1 : alternatives[j][m] \notin successful}}

(* The jobs the loop replaces: missing, with an alternative that passed. *)
Replaced(alternatives, jobs, successful) ==
    {j \in jobs \ successful : FirstPassing(alternatives, j, successful) # {}}

(* Mutant of SwitchOut: the list of alternatives is added, not the job. *)
SwitchOutLists(alternatives, jobs, successful) ==
    (jobs \ Replaced(alternatives, jobs, successful))
        \cup {alternatives[j] : j \in Replaced(alternatives, jobs, successful)}

(* Mutant of SwitchOut: a job is dropped because it has alternatives. *)
SwitchOutUnchecked(alternatives, jobs, successful) ==
    {j \in jobs : j \in successful \/ alternatives[j] = << >>}

(***************************************************************************)
(* required_jobs after the loop over missing_jobs_direct.  The loop works  *)
(* on a copy of the missing jobs, so the order of the jobs is irrelevant.  *)
(***************************************************************************)
SwitchOut(alternatives, jobs, successful) ==
    (jobs \ Replaced(alternatives, jobs, successful))
        \cup UNION {FirstPassing(alternatives, j, successful) :
                       j \in jobs \ successful}

(* What the criteria promise: each committed job passed, or an alternative. *)
MeetsCriteria(committed, alternatives, successful) ==
    \A j \in committed :
        \/ j \in successful
        \/ \E i \in DOMAIN alternatives[j] : alternatives[j][i] \in successful
=============================================================================
