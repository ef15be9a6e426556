----------------------------- MODULE ToolsProofs -----------------------------
(***************************************************************************)
(* Programs that read what others wrote: the votes for a hash (dashboard and *)
(* DLRN trigger), the settings of a release, the list of containers to push, *)
(* the rpms of two builds.  What their loops leave is proved by induction  *)
(* over the passes (InductionFacts).  At the end, the types of all programs. *)
(***************************************************************************)
EXTENDS MCTools, OperationsProofs, InductionFacts, SequenceTheorems

(* Min picks the least of a set. *)
LEMMA MinOfSet ==
    ASSUME NEW T, T \subseteq Nat, T # {}
    PROVE  Min(T) \in T /\ \A n \in T : Min(T) <= n
  <1>1. \E x \in T : \A y \in T : x <= y
    BY LeastNatural
  <1>2. QED
    BY <1>1 DEF Min

(***************************************************************************)
(* The readers of votes.  With the oldest votes first a success is never   *)
(* replaced by a failure that came before it.                              *)
(***************************************************************************)
(* The vote that the server lists at place i. *)
Place(i) == IF newestFirst THEN Len(ciVotes) - i + 1 ELSE i

(* The votes stay those of known jobs, and no more than the bound. *)
LEMMA VoteReadersTypeInit == VoteReadersInit => VoteReadersTypeOK
  <1> SUFFICES ASSUME VoteReadersInit PROVE VoteReadersTypeOK
    OBVIOUS
  <1>1. ciVotes \in Seq(CiVote) /\ Len(ciVotes) <= MaxVotes
    BY VoteReadersAssumption DEF VoteReadersInit
  <1>2. launched \in 0 .. MaxLaunched
    BY VoteReadersAssumption DEF VoteReadersInit
  <1>3. QED
    BY <1>1, <1>2 DEF VoteReadersInit, VoteReadersTypeOK

LEMMA VoteReadersTypeStep ==
    ASSUME VoteReadersTypeOK, [VoteReadersNext]_voteVars
    PROVE  VoteReadersTypeOK'
  <1> USE DEF VoteReadersTypeOK, viewVars
  <1>0. ASSUME NEW job \in CiJob, NEW success \in BOOLEAN, Report(job, success)
        PROVE  ciVotes' \in Seq(CiVote) /\ Len(ciVotes') <= MaxVotes
    BY <1>0, VoteReadersAssumption DEF Report, CiVote
  <1>1. ASSUME NEW job \in CiJob, NEW success \in BOOLEAN, JobReports(job, success)
        PROVE  VoteReadersTypeOK'
    <2>1. ciVotes' \in Seq(CiVote) /\ Len(ciVotes') <= MaxVotes
      BY <1>0, <1>1 DEF JobReports
    <2>2. newestFirst' = newestFirst /\ stream' = stream /\ launched' = launched
      BY <1>1 DEF JobReports
    <2>3. newestFirst' \in BOOLEAN
      BY <2>2, Zenon
    <2>4. stream' \in Stream
      BY <2>2
    <2>5. QED
      BY <2>1, <2>2, <2>3, <2>4
  <1>2. CASE TriggerJob
    BY <1>2, VoteReadersAssumption DEF TriggerJob
  <1>3. ASSUME NEW success \in BOOLEAN, LaunchedJobReports(success)
        PROVE  VoteReadersTypeOK'
    <2>1. ciVotes' \in Seq(CiVote) /\ Len(ciVotes') <= MaxVotes
      BY <1>0, <1>3, VoteReadersAssumption DEF LaunchedJobReports
    <2>2. newestFirst' = newestFirst /\ stream' = stream /\ launched > 0
          /\ launched' = launched - 1
      BY <1>3 DEF LaunchedJobReports
    <2>3. newestFirst' \in BOOLEAN
      BY <2>2, Zenon
    <2>4. stream' \in Stream
      BY <2>2
    <2>5. launched' \in 0 .. MaxLaunched
      BY <2>2, VoteReadersAssumption
    <2>6. QED
      BY <2>1, <2>3, <2>4, <2>5
  <1>4. CASE UNCHANGED voteVars
    BY <1>4 DEF voteVars
  <1>5. QED
    BY <1>1, <1>2, <1>3, <1>4 DEF VoteReadersNext

LEMMA VoteReadersType == VoteReadersSpec => []VoteReadersTypeOK
  BY VoteReadersTypeInit, VoteReadersTypeStep, PTL DEF VoteReadersSpec

(* The votes and the answer of the server, place by place. *)
LEMMA VotesByIndex ==
    ASSUME VoteReadersTypeOK
    PROVE  /\ Len(ciVotes) \in Nat /\ DOMAIN ciVotes = 1 .. Len(ciVotes)
           /\ \A i \in 1 .. Len(ciVotes) : ciVotes[i] \in CiVote
  BY DEF VoteReadersTypeOK

LEMMA ResponseByIndex ==
    ASSUME VoteReadersTypeOK
    PROVE  /\ Len(ApiResponse) = Len(ciVotes)
           /\ DOMAIN ApiResponse = 1 .. Len(ciVotes)
           /\ \A i \in 1 .. Len(ciVotes) :
                 /\ Place(i) \in 1 .. Len(ciVotes)
                 /\ Place(Place(i)) = i
                 /\ ApiResponse[i] = [job       |-> ciVotes[Place(i)].job,
                                      success   |-> ciVotes[Place(i)].success,
                                      timestamp |-> Place(i)]
  <1> DEFINE N == Len(ciVotes)
             stamped == [i \in 1 .. N |-> [job |-> ciVotes[i].job, success |-> ciVotes[i].success,
                                           timestamp |-> i]]
  <1>1. N \in Nat /\ DOMAIN ciVotes = 1 .. N
    BY VotesByIndex
  <1>2. ApiResponse = IF newestFirst THEN Reverse(stamped) ELSE stamped
    BY <1>1 DEF ApiResponse
  <1>3. Len(stamped) = N
    BY <1>1
  <1>4. Reverse(stamped) = [i \in 1 .. N |-> stamped[N - i + 1]]
    BY <1>3 DEF Reverse
  <1>5. \A i \in 1 .. N : Place(i) \in 1 .. N /\ Place(Place(i)) = i
    BY <1>1 DEF Place
  <1>6. \A i \in 1 .. N : stamped[i] = [job |-> ciVotes[i].job, success |-> ciVotes[i].success,
                                        timestamp |-> i]
    OBVIOUS
  <1> HIDE DEF N, stamped
  <1>7. ApiResponse = [i \in 1 .. N |-> stamped[Place(i)]]
    <2>1. CASE newestFirst
      BY <1>2, <1>4, <2>1 DEF Place, N
    <2>2. CASE ~newestFirst
      <3>1. stamped = [i \in 1 .. N |-> stamped[i]]
        BY DEF stamped
      <3>2. QED
        BY <1>2, <2>2, <3>1 DEF Place, N
    <2>3. QED
      BY <2>1, <2>2
  <1>8. Len(ApiResponse) = N /\ DOMAIN ApiResponse = 1 .. N
    BY <1>1, <1>7
  <1>9. QED
    BY <1>5, <1>6, <1>7, <1>8 DEF N

(* What is fetched are the jobs with a successful vote. *)
FetchedInv ==
    \A job : job \in FetchJobs <=>
        \E i \in 1 .. Len(ciVotes) : ciVotes[i].job = job /\ ciVotes[i].success

LEMMA FetchedJobs == VoteReadersTypeOK => FetchedInv
  <1> SUFFICES ASSUME VoteReadersTypeOK
               PROVE  FetchedInv
    OBVIOUS
  <1>1. \A job : job \in FetchJobs <=>
            \E i \in 1 .. Len(ciVotes) : ApiResponse[i].job = job /\ ApiResponse[i].success
    BY ResponseByIndex DEF FetchJobs, ToSet
  <1>2. \A i \in 1 .. Len(ciVotes) :
           /\ ApiResponse[i].job = ciVotes[Place(i)].job
           /\ ApiResponse[i].success = ciVotes[Place(i)].success
    BY ResponseByIndex
  <1>3. \A i \in 1 .. Len(ciVotes) : Place(i) \in 1 .. Len(ciVotes) /\ Place(Place(i)) = i
    BY ResponseByIndex
  <1>4. QED
    BY <1>1, <1>2, <1>3 DEF FetchedInv

-----------------------------------------------------------------------------
(* The loop of the dashboard. *)
Vote == [job : CiJob, success : BOOLEAN, timestamp : Nat]

KeptPass == [n \in 1 .. Len(ciVotes) |-> [jobs \in SUBSET Vote |-> Keep(jobs, ApiResponse[n])]]

LEMMA KeptLoop ==
    ASSUME VoteReadersTypeOK
    PROVE  \E kept \in [0 .. Len(ciVotes) -> SUBSET Vote] :
              /\ kept[0] = {}
              /\ \A n \in 1 .. Len(ciVotes) : kept[n] = Keep(kept[n - 1], ApiResponse[n])
              /\ GetDlrnResults = kept[Len(ciVotes)]
  <1> DEFINE N == Len(ciVotes)
             Body(g) == [n \in 0 .. N |-> IF n = 0 THEN {} ELSE Keep(g[n - 1], ApiResponse[n])]
             kept == CHOOSE g : g = Body(g)
  <1>1. N \in Nat /\ Len(ApiResponse) = N
    BY VotesByIndex, ResponseByIndex
  <1>2. \A n \in 1 .. N : ApiResponse[n] \in Vote
    BY ResponseByIndex, VotesByIndex DEF Vote, CiVote
  <1>3. \A n \in 1 .. N, jobs \in SUBSET Vote : Keep(jobs, ApiResponse[n]) \in SUBSET Vote
    BY <1>2 DEF Keep
  <1>4. KeptPass \in [1 .. N -> [SUBSET Vote -> SUBSET Vote]]
    BY <1>3 DEF KeptPass
  <1>5. PICK f \in [0 .. N -> SUBSET Vote] : Loop(f, {}, KeptPass, N)
    <2> HIDE DEF N
    <2> QED
      BY <1>1, <1>4, LoopIsFunction
  <1>6. f[0] = {} /\ \A n \in 1 .. N : f[n] = Keep(f[n - 1], ApiResponse[n])
    <2>1. \A n \in 1 .. N : n - 1 \in 0 .. N
      BY <1>1
    <2>2. \A n \in 1 .. N : f[n - 1] \in SUBSET Vote
      BY <2>1
    <2>3. \A n \in 1 .. N, jobs \in SUBSET Vote : KeptPass[n][jobs] = Keep(jobs, ApiResponse[n])
      BY DEF KeptPass
    <2>4. f[0] = {} /\ \A n \in 1 .. N : f[n] = KeptPass[n][f[n - 1]]
      BY <1>5 DEF Loop
    <2>5. QED
      BY <2>2, <2>3, <2>4
  <1>7. f = Body(f)
    BY <1>1, <1>6
  <1>8. kept = Body(kept)
    BY <1>7
  <1>9. GetDlrnResults = kept[N]
    BY <1>1 DEF GetDlrnResults
  <1> HIDE DEF kept
  <1>12. kept[0] = {} /\ \A n \in 1 .. N : kept[n] = Keep(kept[n - 1], ApiResponse[n])
    <2> DEFINE body == Body(kept)
    <2>1. body[0] = {} /\ \A n \in 1 .. N : body[n] = Keep(kept[n - 1], ApiResponse[n])
      BY <1>1
    <2>2. QED
      BY <1>8, <2>1
  <1>10. \A n \in 0 .. N : kept[n] \in SUBSET Vote
    <2> DEFINE S == {n \in 0 .. N : kept[n] \in SUBSET Vote}
    <2>1. 0 \in S
      BY <1>1, <1>12
    <2>2. \A n \in 1 .. N : n - 1 \in S => n \in S
      <3> SUFFICES ASSUME NEW n \in 1 .. N, kept[n - 1] \in SUBSET Vote
                   PROVE  kept[n] \in SUBSET Vote
        OBVIOUS
      <3>1. kept[n] = Keep(kept[n - 1], ApiResponse[n])
        BY <1>12
      <3>2. Keep(kept[n - 1], ApiResponse[n]) \in SUBSET Vote
        BY <1>3
      <3>3. QED
        BY <3>1, <3>2
    <2> HIDE DEF S
    <2>3. \A n \in 0 .. N : n \in S
      BY <1>1, <2>1, <2>2, IntervalInduction
    <2>4. QED
      BY <2>3 DEF S
  <1>11. kept \in [0 .. N -> SUBSET Vote]
    BY <1>8, <1>10
  <1>13. QED
    BY <1>9, <1>11, <1>12

(* What the loop has kept: votes for periodic jobs only. *)
LEMMA KeptAreVotes ==
    ASSUME VoteReadersTypeOK, NEW r \in GetDlrnResults
    PROVE  /\ r.job \in PeriodicJob
           /\ \E i \in 1 .. Len(ciVotes) : r = ApiResponse[i]
  <1> DEFINE N == Len(ciVotes)
  <1>1. PICK kept \in [0 .. N -> SUBSET Vote] :
           /\ kept[0] = {}
           /\ \A n \in 1 .. N : kept[n] = Keep(kept[n - 1], ApiResponse[n])
           /\ GetDlrnResults = kept[N]
    BY KeptLoop
  <1> DEFINE IsVote(v) == v.job \in PeriodicJob /\ \E i \in 1 .. N : v = ApiResponse[i]
             S == {n \in 0 .. N : \A v \in kept[n] : IsVote(v)}
  <1>2. N \in Nat
    BY VotesByIndex
  <1>3. 0 \in S
    BY <1>1, <1>2
  <1>4. ASSUME NEW n \in 1 .. N, n - 1 \in S
        PROVE  n \in S
    <2> SUFFICES ASSUME NEW v \in kept[n]
                 PROVE  IsVote(v)
      OBVIOUS
    <2>1. v \in Keep(kept[n - 1], ApiResponse[n])
      BY <1>1
    <2>2. v \in kept[n - 1] \/ (v = ApiResponse[n] /\ v.job \in PeriodicJob)
      BY <2>1 DEF Keep
    <2>3. QED
      BY <1>4, <2>2
  <1>5. \A n \in 0 .. N : n \in S
    <2> HIDE DEF S, N
    <2> QED
      BY <1>2, <1>3, <1>4, IntervalInduction
  <1>6. QED
    BY <1>1, <1>2, <1>5

(* At most one record of each job. *)
LEMMA OneRecordOfEach ==
    ASSUME VoteReadersTypeOK, NEW r \in GetDlrnResults, NEW s \in GetDlrnResults, r.job = s.job
    PROVE  r = s
  <1> DEFINE N == Len(ciVotes)
  <1>1. PICK kept \in [0 .. N -> SUBSET Vote] :
           /\ kept[0] = {}
           /\ \A n \in 1 .. N : kept[n] = Keep(kept[n - 1], ApiResponse[n])
           /\ GetDlrnResults = kept[N]
    BY KeptLoop
  <1> DEFINE OneEach(n) == \A u, v \in kept[n] : u.job = v.job => u = v
             S == {n \in 0 .. N : OneEach(n)}
  <1>2. N \in Nat
    BY VotesByIndex
  <1>3. 0 \in S
    BY <1>1, <1>2
  <1>4. ASSUME NEW n \in 1 .. N, n - 1 \in S
        PROVE  n \in S
    <2>1. kept[n] = Keep(kept[n - 1], ApiResponse[n])
      BY <1>1
    <2>2. OneEach(n)
      BY <1>4, <2>1 DEF Keep
    <2>3. QED
      BY <2>2
  <1>5. \A n \in 0 .. N : n \in S
    <2> HIDE DEF S, N
    <2> QED
      BY <1>2, <1>3, <1>4, IntervalInduction
  <1>6. QED
    BY <1>1, <1>2, <1>5

(* With the oldest votes first, a success is never replaced by a failure.   *)
LEMMA SuccessIsKept ==
    ASSUME VoteReadersTypeOK, ~newestFirst, NEW i \in 1 .. Len(ciVotes),
           ciVotes[i].success, ciVotes[i].job \in PeriodicJob
    PROVE  \E r \in GetDlrnResults : r.job = ciVotes[i].job /\ r.success
  <1> DEFINE N == Len(ciVotes)
             job == ciVotes[i].job
  <1>1. PICK kept \in [0 .. N -> SUBSET Vote] :
           /\ kept[0] = {}
           /\ \A n \in 1 .. N : kept[n] = Keep(kept[n - 1], ApiResponse[n])
           /\ GetDlrnResults = kept[N]
    BY KeptLoop
  <1>2. N \in Nat
    BY VotesByIndex
  <1>3. \A n \in 1 .. N : ApiResponse[n] = [job |-> ciVotes[n].job, success |-> ciVotes[n].success,
                                            timestamp |-> n]
    BY ResponseByIndex DEF Place
  <1> DEFINE Older(n) == \A r \in kept[n] : r.timestamp <= n
             Has(n) == \E r \in kept[n] : r.job = job /\ r.success
             S == {n \in 0 .. N : Older(n) /\ (i <= n => Has(n))}
  <1>4. 0 \in S
    BY <1>1, <1>2
  <1>5. ASSUME NEW n \in 1 .. N, n - 1 \in S
        PROVE  n \in S
    <2> DEFINE vote == ApiResponse[n]
               existing == {r \in kept[n - 1] : r.job = vote.job}
    <2>0. n - 1 \in 0 .. N /\ kept[n - 1] \in SUBSET Vote
      BY <1>1, <1>2
    <2>1. /\ kept[n] = Keep(kept[n - 1], vote)
          /\ vote.timestamp = n /\ vote.job = ciVotes[n].job /\ (ciVotes[n].success => vote.success)
      <3>1. ApiResponse[n] = [job |-> ciVotes[n].job, success |-> ciVotes[n].success,
                              timestamp |-> n]
        BY <1>3
      <3>2. vote.timestamp = n /\ vote.job = ciVotes[n].job /\ (ciVotes[n].success => vote.success)
        BY <3>1
      <3>3. QED
        BY <1>1, <3>2
    <2>2. Older(n - 1) /\ (i <= n - 1 => Has(n - 1))
      BY <1>5
    <2>3. \A r \in existing : vote.timestamp > r.timestamp
      BY <2>0, <2>1, <2>2 DEF Vote
    <2>4. Older(n)
      BY <2>0, <2>1, <2>2 DEF Keep, Vote
    <2>5. ASSUME i <= n - 1
          PROVE  Has(n)
      <3>1. PICK r \in kept[n - 1] : r.job = job /\ r.success
        BY <2>2, <2>5
      <3>2. CASE vote.job = job
        <4>1. kept[n] = kept[n - 1] \/ (vote \in kept[n] /\ Supersedes(vote, r))
          BY <2>1, <3>1, <3>2 DEF Keep
        <4>2. QED
          BY <3>1, <3>2, <4>1 DEF Supersedes
      <3>3. CASE vote.job # job
        <4>1. r \in kept[n]
          BY <2>1, <3>1, <3>3 DEF Keep
        <4>2. QED
          BY <3>1, <4>1
      <3>4. QED
        BY <3>2, <3>3
    <2>6. ASSUME i = n
          PROVE  Has(n)
      <3>1. vote.job = job /\ vote.success /\ vote.job \in PeriodicJob
        BY <2>1, <2>6
      <3>2. \A r \in existing : Supersedes(vote, r)
        BY <2>3, <3>1 DEF Supersedes
      <3>3. vote \in kept[n]
        BY <2>1, <3>1, <3>2 DEF Keep
      <3>4. QED
        BY <3>1, <3>3
    <2>7. i <= n => Has(n)
      BY <1>2, <2>5, <2>6
    <2> HIDE DEF Older, Has
    <2>8. QED
      BY <1>2, <2>4, <2>7
  <1>6. N \in S
    <2>1. \A n \in 0 .. N : n \in S
      <3> HIDE DEF S, N
      <3> QED
        BY <1>2, <1>4, <1>5, IntervalInduction
    <2> HIDE DEF S
    <2>2. QED
      BY <1>2, <2>1
  <1>7. QED
    BY <1>1, <1>2, <1>6

(* The status passed is that of a fetched job, and of all of them if the    *)
(* oldest votes come first.                                                 *)
LEMMA PassedIsFetched ==
    ASSUME VoteReadersTypeOK
    PROVE  /\ Passed \subseteq FetchJobs \cap PeriodicJob
           /\ ~newestFirst => FetchJobs \cap PeriodicJob \subseteq Passed
  <1>1. \A j : j \in Passed <=> j \in CiJob /\ \E r \in GetDlrnResults : r.job = j /\ r.success
    <2>1. ASSUME NEW j
          PROVE  JobStatus(j) = "passed" <=> \E r \in GetDlrnResults : r.job = j /\ r.success
      <3> DEFINE P == \E r \in GetDlrnResults : r.job = j /\ r.success
                 F == \E r \in GetDlrnResults : r.job = j /\ ~r.success
      <3>1. ~(P /\ F)
        BY OneRecordOfEach
      <3>2. JobStatus(j) = CASE P -> "passed" [] F -> "failed" [] OTHER -> "pending"
        BY DEF JobStatus
      <3> HIDE DEF P, F
      <3>3. JobStatus(j) = "passed" <=> P
        BY <3>1, <3>2
      <3>4. QED
        BY <3>3 DEF P
    <2>2. QED
      BY <2>1 DEF Passed
  <1>2. ASSUME NEW j \in Passed
        PROVE  j \in FetchJobs \cap PeriodicJob
    <2>1. PICK r \in GetDlrnResults : r.job = j /\ r.success
      BY <1>1
    <2>2. r.job \in PeriodicJob /\ \E i \in 1 .. Len(ciVotes) : r = ApiResponse[i]
      BY KeptAreVotes
    <2>3. QED
      BY <2>1, <2>2, ResponseByIndex DEF FetchJobs, ToSet
  <1>3. ASSUME ~newestFirst, NEW j \in FetchJobs \cap PeriodicJob
        PROVE  j \in Passed
    <2>1. PICK i \in 1 .. Len(ciVotes) : ciVotes[i].job = j /\ ciVotes[i].success
      BY FetchedJobs DEF FetchedInv
    <2>2. \E r \in GetDlrnResults : r.job = j /\ r.success
      BY <1>3, <2>1, SuccessIsKept
    <2>3. QED
      BY <1>1, <2>2, VoteReadersAssumption
  <1>4. QED
    BY <1>2, <1>3

(* Both check the same criteria against what they take for passed. *)
LEMMA ViewsAgree == VoteReadersTypeOK => DashboardAgreesWithPromoter
  <1> SUFFICES ASSUME VoteReadersTypeOK
               PROVE  DashboardAgreesWithPromoter
    OBVIOUS
  <1> DEFINE passed == FetchJobs \cap PeriodicJob
  <1>1. Passed \subseteq passed /\ (~newestFirst => passed = Passed)
    BY PassedIsFetched
  <1>2. \A j \in JobsInCriteria : JobsAltCriteria[j] \subseteq AltCriteria[j]
    BY DEF JobsAltCriteria
  <1> HIDE DEF passed
  <1>3. ToPromote = {} => MeetsCriteria(passed)
    BY <1>1, <1>2 DEF ToPromote, MeetsCriteria
  <1>4. MeetsCriteria(passed) /\ stream = "downstream" /\ ~newestFirst => ToPromote = {}
    BY <1>1 DEF ToPromote, MeetsCriteria, JobsAltCriteria
  <1>5. QED
    BY <1>3, <1>4 DEF DashboardAgreesWithPromoter, passed

(* The dashboard never takes for done what the promoter would not promote,  *)
(* and for a downstream release sees all it would, if the server lists the  *)
(* oldest votes first.                                                      *)
THEOREM DashboardShowsPromoterView == VoteReadersSpec => []DashboardAgreesWithPromoter
  BY VoteReadersType, ViewsAgree, PTL

(***************************************************************************)
(* The settings.  A search through the layers is their override.           *)
(***************************************************************************)
(* The layer of the release is what was read of its file. *)
LEMMA SettingsTypeStep ==
    ASSUME SettingsTypeOK, [SettingsNext]_settingsVars
    PROVE  SettingsTypeOK'
  <1> USE DEF SettingsTypeOK
  <1>1. CASE GetLogFile
    BY <1>1 DEF GetLogFile
  <1>2. CASE LoadRelease
    BY <1>2 DEF LoadRelease
  <1>3. CASE Validate
    BY <1>3 DEF Validate
  <1>4. CASE Deploy
    BY <1>4 DEF Deploy
  <1>5. CASE UNCHANGED settingsVars
    BY <1>5 DEF settingsVars
  <1>6. QED
    BY <1>1, <1>2, <1>3, <1>4, <1>5 DEF SettingsNext

(* The search finds the first of the layers that have the setting. *)
LEMMA FirstLayerOf ==
    ASSUME NEW s
    PROVE  /\ Found(s) <=> \E i \in 1 .. 4 : s \in DOMAIN Layers[i]
           /\ Found(s) => /\ FirstLayer(s) \in 1 .. 4
                          /\ s \in DOMAIN Layers[FirstLayer(s)]
                          /\ \A i \in 1 .. 4 : s \in DOMAIN Layers[i] => FirstLayer(s) <= i
  <1> DEFINE I == {i \in 1 .. 4 : s \in DOMAIN Layers[i]}
  <1>1. Len(Layers) = 4
    BY DEF Layers
  <1>2. FirstLayer(s) = IF I # {} THEN Min(I) ELSE 0
    BY <1>1 DEF FirstLayer, SelectInSeq
  <1>3. I # {} => Min(I) \in I /\ \A i \in I : Min(I) <= i
    <2>1. I \subseteq Nat
      OBVIOUS
    <2> HIDE DEF I
    <2>2. QED
      BY <2>1, MinOfSet
  <1>4. QED
    BY <1>2, <1>3 DEF Found

(* From the command line to the global defaults. *)
LEMMA FourLayers ==
    /\ Layers[1] = CliSettings /\ Layers[2] = releaseSettings
    /\ Layers[3] = EnvironmentDefaults /\ Layers[4] = GlobalDefaults
  BY DEF Layers

(* What one layer has, overrides the other. *)
LEMMA OverrideOf ==
    ASSUME NEW f, NEW g, NEW s
    PROVE  /\ s \in DOMAIN Override(f, g) <=> s \in DOMAIN f \/ s \in DOMAIN g
           /\ s \in DOMAIN f => Override(f, g)[s] = f[s]
           /\ s \notin DOMAIN f /\ s \in DOMAIN g => Override(f, g)[s] = g[s]
  BY DEF Override

(* The first layer that has a setting overrides the others. *)
LEMMA SearchIsOverride ==
    ASSUME NEW s, Found(s)
    PROVE  SearchLayers(s) = Effective(s)
  <1> DEFINE defaults == Override(EnvironmentDefaults, GlobalDefaults)
             files == Override(releaseSettings, defaults)
             i == FirstLayer(s)
  <1>1. /\ i \in 1 .. 4 /\ s \in DOMAIN Layers[i] /\ SearchLayers(s) = Layers[i][s]
        /\ \A k \in 1 .. 4 : k < i => s \notin DOMAIN Layers[k]
    BY FirstLayerOf DEF SearchLayers
  <1>2. Effective(s) = Override(CliSettings, files)[s]
    BY DEF Effective
  <1> HIDE DEF defaults, files, i
  <1>3. CASE i = 1
    BY <1>1, <1>2, <1>3, FourLayers, OverrideOf
  <1>4. CASE i = 2
    <2>1. s \notin DOMAIN CliSettings /\ s \in DOMAIN releaseSettings
      BY <1>1, <1>4, FourLayers
    <2>2. s \in DOMAIN files /\ files[s] = releaseSettings[s]
      BY <2>1, OverrideOf DEF files
    <2>3. QED
      BY <1>1, <1>2, <1>4, <2>1, <2>2, FourLayers, OverrideOf
  <1>5. CASE i \in {3, 4}
    <2>1. s \notin DOMAIN CliSettings /\ s \notin DOMAIN releaseSettings
      BY <1>1, <1>5, FourLayers
    <2>2. s \in DOMAIN defaults /\ defaults[s] = Layers[i][s]
      BY <1>1, <1>5, FourLayers, OverrideOf DEF defaults
    <2>3. s \in DOMAIN files /\ files[s] = defaults[s]
      BY <2>1, <2>2, OverrideOf DEF files
    <2>4. QED
      BY <1>1, <1>2, <2>1, <2>2, <2>3, OverrideOf
  <1>6. QED
    BY <1>1, <1>3, <1>4, <1>5

(* A port that is left out of the URL is the one of the scheme. *)
LEMMA PortsAgree ==
    ASSUME NEW scheme, NEW port
    PROVE  \/ PortOf(scheme, UrlPort(scheme, port)) = PortOf(scheme, port)
           \/ scheme = "http" /\ port = "443"
  BY DEF PortOf, UrlPort, DefaultPort

(* Each part of the URL is the setting that counts. *)
LEMMA ApiUrlIsRight == ApiUrlLeadsToServer
  <1> SUFFICES ASSUME \A s \in ApiUrlNeeds : Found(s)
               PROVE  LET scheme == Effective("dlrn_api_scheme")
                          port == Effective("dlrn_api_port")
                      IN /\ ConstructApiUrl.scheme = scheme
                         /\ ConstructApiUrl.host = Effective("dlrn_api_host")
                         /\ \/ PortOf(scheme, ConstructApiUrl.port) = PortOf(scheme, port)
                            \/ scheme = "http" /\ port = "443"
    BY DEF ApiUrlLeadsToServer
  <1>1. /\ SearchLayers("dlrn_api_scheme") = Effective("dlrn_api_scheme")
        /\ SearchLayers("dlrn_api_host") = Effective("dlrn_api_host")
        /\ SearchLayers("dlrn_api_port") = Effective("dlrn_api_port")
    BY SearchIsOverride DEF ApiUrlNeeds
  <1>2. QED
    BY <1>1, PortsAgree DEF ConstructApiUrl

(* With any settings in any of the layers, the URL that construct_api_url   *)
(* makes leads to the scheme, host and port that the settings name, but for *)
(* port 443 with http.                                                      *)
THEOREM ApiUrlIsTheServers == SettingsSpec => []ApiUrlLeadsToServer
  BY ApiUrlIsRight, PTL

(* Only the layer of the release has promotions. *)
LEMMA PromotionsOfRelease ==
    ASSUME Found("promotions")
    PROVE  /\ "promotions" \in DOMAIN releaseSettings
           /\ SearchLayers("promotions") = releaseSettings["promotions"]
  <1>1. /\ "promotions" \notin DOMAIN CliSettings
        /\ "promotions" \notin DOMAIN EnvironmentDefaults
        /\ "promotions" \notin DOMAIN GlobalDefaults
    BY SettingsAssumption DEF CliSettings
  <1>2. FirstLayer("promotions") = 2 /\ "promotions" \in DOMAIN releaseSettings
    BY <1>1, FirstLayerOf, FourLayers
  <1>3. QED
    BY <1>2, FourLayers DEF SearchLayers

(* What validate() has found goes on being so. *)
SettingsIInv == SettingsTypeOK /\ (starting = "ready" => password /\ ValidPromotions)

LEMMA SettingsInitIInv == SettingsInit => SettingsIInv
  BY DEF SettingsInit, SettingsTypeOK, SettingsIInv

LEMMA SettingsNextIInv ==
    ASSUME SettingsIInv, [SettingsNext]_settingsVars
    PROVE  SettingsIInv'
  <1>0. SettingsTypeOK'
    BY SettingsTypeStep DEF SettingsIInv
  <1> SUFFICES ASSUME starting' = "ready"
               PROVE  password' /\ ValidPromotions'
    BY <1>0 DEF SettingsIInv
  <1>1. ASSUME UNCHANGED <<releaseSettings, password, subcommand>>
        PROVE  (password => password') /\ (ValidPromotions => ValidPromotions')
    <2>1. Layers' = Layers
      BY <1>1 DEF Layers, CliSettings
    <2>2. FirstLayer("promotions")' = FirstLayer("promotions")
      BY <2>1 DEF FirstLayer, SelectInSeq
    <2>3. ValidPromotions' = ValidPromotions
      BY <2>1, <2>2 DEF ValidPromotions, Found, SearchLayers
    <2>4. QED
      BY <1>1, <2>3
  <1>2. CASE GetLogFile
    BY <1>2 DEF GetLogFile
  <1>3. CASE LoadRelease
    BY <1>3 DEF LoadRelease
  <1>4. CASE Validate
    BY <1>1, <1>4 DEF Validate
  <1>5. CASE Deploy
    BY <1>5 DEF Deploy
  <1>6. CASE UNCHANGED settingsVars
    BY <1>1, <1>6 DEF settingsVars, SettingsIInv
  <1>7. QED
    BY <1>2, <1>3, <1>4, <1>5, <1>6 DEF SettingsNext

LEMMA SettingsInvariant == SettingsSpec => []SettingsIInv
  BY SettingsInitIInv, SettingsNextIInv, PTL DEF SettingsSpec

(* Valid promotions are some, each with its criteria and its label. *)
LEMMA ReadyHasRelease == SettingsIInv => StartsWithItsRelease
  <1> SUFFICES ASSUME SettingsIInv, starting = "ready"
               PROVE  /\ password
                      /\ "promotions" \in DOMAIN releaseSettings
                      /\ \A info \in releaseSettings["promotions"] :
                            info.criteria = "jobs" /\ info.candidate_label
                      /\ releaseSettings["promotions"] # {}
    BY DEF StartsWithItsRelease
  <1>1. password /\ ValidPromotions
    BY DEF SettingsIInv
  <1>2. /\ "promotions" \in DOMAIN releaseSettings
        /\ SearchLayers("promotions") = releaseSettings["promotions"]
    BY <1>1, PromotionsOfRelease DEF ValidPromotions
  <1>3. releaseSettings["promotions"] \subseteq PromotionInfo
    <2>1. releaseSettings # NoLayer
      BY <1>2 DEF NoLayer
    <2>2. releaseSettings \in ReleaseFile \cup DeployedFile
      BY <2>1 DEF SettingsIInv, SettingsTypeOK
    <2>3. QED
      BY <1>2, <2>2, SettingsAssumption
  <1>4. QED
    BY <1>1, <1>2, <1>3 DEF ValidPromotions, PromotionInfo

(* The promoter starts to promote only with a password and with promotions  *)
(* of its own release, each with criteria and a candidate label.            *)
THEOREM ReleaseIsLoaded == SettingsSpec => []StartsWithItsRelease
  BY SettingsInvariant, ReadyHasRelease, PTL

(***************************************************************************)
(* The list of containers.  A list that is done depends on the template, the *)
(* exclude list and the release only, and not on how many lists came before. *)
(***************************************************************************)
(* No element twice. *)
Once(seq) == \A i, j \in 1 .. Len(seq) : seq[i] = seq[j] => i = j

(* Removing from a list of different elements leaves the others, once each. *)
LEMMA RemoveFirstOf ==
    ASSUME NEW S, NEW seq \in Seq(S), NEW e
    PROVE  /\ RemoveFirst(seq, e) \in Seq(S)
           /\ Once(seq) => /\ Once(RemoveFirst(seq, e))
                           /\ ToSet(RemoveFirst(seq, e)) = ToSet(seq) \ {e}
  <1> DEFINE N == Len(seq)
             I == {i \in 1 .. N : seq[i] = e}
  <1>1. N \in Nat /\ DOMAIN seq = 1 .. N
    BY LenProperties
  <1>2. CASE I = {}
    <2>1. RemoveFirst(seq, e) = seq
      BY <1>2 DEF RemoveFirst
    <2>2. e \notin ToSet(seq)
      BY <1>1, <1>2 DEF ToSet
    <2>3. QED
      BY <2>1, <2>2
  <1>3. CASE I # {}
    <2>1. PICK k \in I : RemoveFirst(seq, e) = RemoveAt(seq, k)
      <3>1. RemoveFirst(seq, e) = RemoveAt(seq, SelectInSeq(seq, LAMBDA v : v = e))
        BY <1>3 DEF RemoveFirst
      <3>2. SelectInSeq(seq, LAMBDA v : v = e) = Min(I)
        BY <1>3 DEF SelectInSeq
      <3>3. Min(I) \in I
        <4>1. I \subseteq Nat
          BY <1>1
        <4> HIDE DEF I
        <4>2. QED
          BY <1>3, <4>1, MinOfSet
      <3>4. QED
        BY <3>1, <3>2, <3>3
    <2> DEFINE left == SubSeq(seq, 1, k - 1)
               right == SubSeq(seq, k + 1, N)
               rest == RemoveFirst(seq, e)
    <2>0. k \in 1 .. N /\ seq[k] = e
      OBVIOUS
    <2>2. /\ left \in Seq(S) /\ Len(left) = k - 1
          /\ \A i \in 1 .. k - 1 : left[i] = seq[i]
      <3>1. \A i \in 1 .. k - 1 : seq[i] \in S
        BY <1>1, <2>0
      <3>2. QED
        BY <1>1, <2>0, <3>1, SubSeqProperties
    <2>3. /\ right \in Seq(S) /\ Len(right) = N - k
          /\ \A i \in 1 .. N - k : right[i] = seq[k + i]
      <3>1. \A i \in k + 1 .. N : seq[i] \in S
        BY <1>1, <2>0
      <3>2. k + 1 \in Int /\ N \in Int
        BY <1>1, <2>0
      <3>3. /\ right \in Seq(S)
            /\ Len(right) = IF k + 1 <= N THEN N - (k + 1) + 1 ELSE 0
            /\ \A i \in 1 .. N - (k + 1) + 1 : right[i] = seq[(k + 1) + i - 1]
        BY <3>1, <3>2, SubSeqProperties
      <3>4. \A i \in 1 .. N - k : (k + 1) + i - 1 = k + i /\ i \in 1 .. N - (k + 1) + 1
        BY <1>1, <2>0
      <3>5. Len(right) = N - k
        <4> HIDE DEF right, I, N
        <4>1. QED
          BY <1>1, <2>0, <3>3
      <3>6. QED
        BY <3>3, <3>4, <3>5
    <2>4. rest = left \o right
      BY <2>1 DEF RemoveAt
    <2> HIDE DEF left, right, rest
    <2>5. /\ rest \in Seq(S) /\ Len(rest) = N - 1
          /\ \A i \in 1 .. N - 1 : rest[i] = IF i < k THEN seq[i] ELSE seq[i + 1]
      <3>1. /\ rest \in Seq(S) /\ Len(rest) = N - 1
            /\ \A i \in 1 .. N - 1 : rest[i] = IF i <= k - 1 THEN left[i] ELSE right[i - (k - 1)]
        <4>1. /\ rest \in Seq(S) /\ Len(rest) = Len(left) + Len(right)
              /\ \A i \in 1 .. Len(left) + Len(right) :
                    rest[i] = IF i <= Len(left) THEN left[i] ELSE right[i - Len(left)]
          BY <2>2, <2>3, <2>4, ConcatProperties
        <4>2. Len(left) + Len(right) = N - 1
          BY <1>1, <2>0, <2>2, <2>3
        <4>3. QED
          BY <2>2, <4>1, <4>2
      <3>2. ASSUME NEW i \in 1 .. N - 1
            PROVE  rest[i] = IF i < k THEN seq[i] ELSE seq[i + 1]
        <4>1. CASE i < k
          BY <1>1, <2>0, <2>2, <3>1, <4>1
        <4>2. CASE i >= k
          <5>1. i - (k - 1) \in 1 .. N - k
            BY <1>1, <2>0, <4>2
          <5>2. right[i - (k - 1)] = seq[k + (i - (k - 1))]
            BY <2>3, <5>1
          <5>3. QED
            BY <1>1, <2>0, <3>1, <4>2, <5>2
        <4>3. QED
          BY <1>1, <2>0, <4>1, <4>2
      <3>3. QED
        BY <3>1, <3>2
    <2>6. ASSUME Once(seq)
          PROVE  Once(rest) /\ ToSet(rest) = ToSet(seq) \ {e}
      <3>1. Once(rest)
        BY <1>1, <2>0, <2>5, <2>6 DEF Once
      <3>2. DOMAIN rest = 1 .. N - 1
        BY <2>5, LenProperties
      <3>3. ASSUME NEW x \in ToSet(rest)
            PROVE  x \in ToSet(seq) \ {e}
        <4>1. PICK i \in 1 .. N - 1 : x = rest[i]
          BY <3>2, <3>3 DEF ToSet
        <4>2. PICK j \in 1 .. N : x = seq[j] /\ j # k
          BY <1>1, <2>0, <2>5, <4>1
        <4>3. QED
          BY <1>1, <2>0, <2>6, <4>2 DEF ToSet, Once
      <3>4. ASSUME NEW x \in ToSet(seq) \ {e}
            PROVE  x \in ToSet(rest)
        <4>1. PICK j \in 1 .. N : x = seq[j]
          BY <1>1, <3>4 DEF ToSet
        <4>2. j # k
          BY <2>0, <3>4, <4>1
        <4>3. CASE j < k
          <5>1. j \in 1 .. N - 1 /\ rest[j] = x
            BY <1>1, <2>0, <2>5, <4>1, <4>3
          <5>2. QED
            BY <3>2, <5>1 DEF ToSet
        <4>4. CASE j > k
          <5>1. j - 1 \in 1 .. N - 1 /\ rest[j - 1] = x
            BY <1>1, <2>0, <2>5, <4>1, <4>4
          <5>2. QED
            BY <3>2, <5>1 DEF ToSet
        <4>5. QED
          BY <1>1, <2>0, <4>2, <4>3, <4>4
      <3>5. QED
        BY <3>1, <3>3, <3>4
    <2>7. QED
      BY <2>5, <2>6 DEF rest
  <1>4. QED
    BY <1>2, <1>3

(* The loops of get_containers_list and of load_excludes. *)
LEMMA ExcludingOf ==
    ASSUME NEW S, NEW list \in Seq(S), NEW names, NEW T, names \in Seq(T)
    PROVE  /\ Excluding(list, names) \in Seq(S)
           /\ Once(list) => ToSet(Excluding(list, names)) = ToSet(list) \ ToSet(names)
  <1> DEFINE N == Len(names)
             Body(g) == [n \in 0 .. N |-> IF n = 0 THEN list ELSE RemoveFirst(g[n - 1], names[n])]
             left == CHOOSE g : g = Body(g)
             pass == [n \in 1 .. N |-> [l \in Seq(S) |-> RemoveFirst(l, names[n])]]
             Before(n) == {names[i] : i \in 1 .. n}
  <1>1. N \in Nat /\ DOMAIN names = 1 .. N
    BY LenProperties
  <1>2. pass \in [1 .. N -> [Seq(S) -> Seq(S)]]
    BY RemoveFirstOf
  <1>3. PICK f \in [0 .. N -> Seq(S)] : Loop(f, list, pass, N)
    <2> HIDE DEF N, pass
    <2> QED
      BY <1>1, <1>2, LoopIsFunction
  <1>4. f = Body(f)
    <2>1. \A n \in 1 .. N : f[n - 1] \in Seq(S)
      BY <1>1
    <2>2. f[0] = list /\ \A n \in 1 .. N : f[n] = RemoveFirst(f[n - 1], names[n])
      BY <1>3, <2>1 DEF Loop
    <2>3. ASSUME NEW n \in 0 .. N
          PROVE  f[n] = IF n = 0 THEN list ELSE RemoveFirst(f[n - 1], names[n])
      <3>1. n # 0 => n \in 1 .. N
        BY <1>1
      <3>2. QED
        BY <2>2, <3>1
    <2>4. QED
      BY <2>3
  <1>5. left = Body(left)
    BY <1>4
  <1>6. Excluding(list, names) = left[N]
    BY DEF Excluding
  <1> HIDE DEF left
  <1>7. left[0] = list /\ \A n \in 1 .. N : left[n] = RemoveFirst(left[n - 1], names[n])
    <2> DEFINE body == Body(left)
    <2>1. body[0] = list /\ \A n \in 1 .. N : body[n] = RemoveFirst(left[n - 1], names[n])
      BY <1>1
    <2>2. QED
      BY <1>5, <2>1
  <1> DEFINE Done(n) == /\ left[n] \in Seq(S)
                        /\ Once(list) => /\ Once(left[n])
                                         /\ ToSet(left[n]) = ToSet(list) \ Before(n)
             Good == {n \in 0 .. N : Done(n)}
  <1>8. 0 \in Good
    BY <1>1, <1>7
  <1>9. ASSUME NEW n \in 1 .. N, n - 1 \in Good
        PROVE  n \in Good
    <2>1. Done(n - 1)
      BY <1>9
    <2>2. left[n] = RemoveFirst(left[n - 1], names[n])
      BY <1>7
    <2>3. Before(n) = Before(n - 1) \cup {names[n]}
      <3>1. 1 .. n = (1 .. n - 1) \cup {n}
        BY <1>1
      <3>2. QED
        BY <3>1
    <2>4. left[n] \in Seq(S)
      BY <2>1, <2>2, RemoveFirstOf
    <2>5. ASSUME Once(list)
          PROVE  Once(left[n]) /\ ToSet(left[n]) = ToSet(left[n - 1]) \ {names[n]}
      BY <2>1, <2>2, <2>5, RemoveFirstOf
    <2> HIDE DEF Before
    <2>6. Done(n)
      BY <2>1, <2>3, <2>4, <2>5
    <2>7. n \in 0 .. N
      BY <1>1
    <2>8. QED
      BY <2>6, <2>7
  <1>10. N \in Good
    <2>1. \A n \in 0 .. N : n \in Good
      <3> HIDE DEF Good, N
      <3> QED
        BY <1>1, <1>8, <1>9, IntervalInduction
    <2> HIDE DEF Good
    <2>2. QED
      BY <1>1, <2>1
  <1>11. Before(N) = ToSet(names)
    BY <1>1 DEF ToSet
  <1>12. QED
    BY <1>6, <1>10, <1>11

(* The loop over the template keeps the names of what is listed, in any      *)
(* number, and each once if they are distinct.                              *)
LEMMA UnprefixedOf ==
    ASSUME ContainerListTypeOK, NEW prefix
    PROVE  /\ Unprefixed(prefix) \in Seq(ContainerName)
           /\ \A name : name \in ToSet(Unprefixed(prefix)) <=>
                 \E i \in DOMAIN template : Listed(template[i], prefix) /\ name = template[i].name
           /\ Distinct(template) => Once(Unprefixed(prefix))
  <1> DEFINE N == Len(template)
             Next(l, n) == IF Listed(template[n], prefix) THEN Append(l, template[n].name) ELSE l
             Body(g) == [n \in 0 .. N |->
                           IF n = 0 THEN <<>>
                           ELSE IF Listed(template[n], prefix) THEN Append(g[n - 1], template[n].name)
                           ELSE g[n - 1]]
             names == CHOOSE g : g = Body(g)
             S == Seq(ContainerName)
             pass == [n \in 1 .. N |-> [l \in S |-> Next(l, n)]]
  <1>1. /\ N \in Nat /\ DOMAIN template = 1 .. N
        /\ \A n \in 1 .. N : template[n].name \in ContainerName
    <2>1. template \in Seq(TemplateImage)
      BY ContainerListAssumption DEF ContainerListTypeOK
    <2>2. N \in Nat /\ DOMAIN template = 1 .. N
      BY <2>1, LenProperties
    <2>3. \A n \in 1 .. N : template[n] \in TemplateImage
      BY <2>1, ElementOfSeq
    <2>4. QED
      BY <2>2, <2>3 DEF TemplateImage
  <1>2. \A n \in 1 .. N, l \in S : Next(l, n) \in S
    BY <1>1, AppendProperties
  <1>3. pass \in [1 .. N -> [S -> S]]
    BY <1>2
  <1>4. <<>> \in S
    BY EmptySeq
  <1>5. PICK f \in [0 .. N -> S] : Loop(f, <<>>, pass, N)
    <2> HIDE DEF N, pass, S
    <2> QED
      BY <1>1, <1>3, <1>4, LoopIsFunction
  <1>6. f = Body(f)
    <2>1. \A n \in 1 .. N : f[n - 1] \in S
      BY <1>1
    <2>2. f[0] = <<>> /\ \A n \in 1 .. N : f[n] = Next(f[n - 1], n)
      BY <1>5, <2>1 DEF Loop
    <2>3. ASSUME NEW n \in 0 .. N
          PROVE  f[n] = Body(f)[n]
      <3>1. CASE n = 0
        BY <2>2, <3>1
      <3>2. CASE n # 0
        <4>1. n \in 1 .. N
          BY <1>1, <3>2
        <4>2. f[n] = Next(f[n - 1], n)
          BY <2>2, <4>1
        <4>3. QED
          BY <3>2, <4>2
      <3>3. QED
        BY <3>1, <3>2
    <2>4. f = [n \in 0 .. N |-> f[n]] /\ Body(f) = [n \in 0 .. N |-> Body(f)[n]]
      OBVIOUS
    <2> HIDE DEF Body
    <2>5. QED
      BY <2>3, <2>4
  <1>7. names = Body(names)
    BY <1>6
  <1>8. Unprefixed(prefix) = names[N]
    BY DEF Unprefixed
  <1> HIDE DEF names
  <1>9. names[0] = <<>> /\ \A n \in 1 .. N : names[n] = Next(names[n - 1], n)
    <2> DEFINE body == Body(names)
    <2>1. body[0] = <<>> /\ \A n \in 1 .. N : body[n] = Next(names[n - 1], n)
      BY <1>1
    <2>2. QED
      BY <1>7, <2>1
  <1> DEFINE Has(n, name) == \E i \in 1 .. n : Listed(template[i], prefix) /\ name = template[i].name
             Done(n) == /\ names[n] \in S
                        /\ \A name : name \in ToSet(names[n]) <=> Has(n, name)
                        /\ Distinct(template) => Once(names[n])
             Good == {n \in 0 .. N : Done(n)}
  <1>10. 0 \in Good
    <2>1. names[0] \in S /\ ToSet(names[0]) = {} /\ Once(names[0])
      BY <1>4, <1>9 DEF ToSet, Once
    <2>2. QED
      BY <1>1, <2>1
  <1>11. ASSUME NEW n \in 1 .. N, n - 1 \in Good
         PROVE  n \in Good
    <2>1. Done(n - 1)
      BY <1>11
    <2>2. names[n] = Next(names[n - 1], n)
      BY <1>9
    <2>3. \A name : Has(n, name) <=>
             Has(n - 1, name) \/ (Listed(template[n], prefix) /\ name = template[n].name)
      BY <1>1
    <2>4. n \in 0 .. N
      BY <1>1
    <2>5. CASE ~Listed(template[n], prefix)
      <3>1. names[n] = names[n - 1]
        BY <2>2, <2>5
      <3> HIDE DEF Has
      <3>2. Done(n)
        BY <2>1, <2>3, <2>5, <3>1
      <3>3. QED
        BY <2>4, <3>2
    <2>6. CASE Listed(template[n], prefix)
      <3> DEFINE l == names[n - 1]
                 k == Len(l)
      <3>1. names[n] = Append(l, template[n].name)
        BY <2>2, <2>6
      <3>2. l \in S /\ k \in Nat /\ DOMAIN l = 1 .. k
        BY <2>1, LenProperties
      <3>3. /\ names[n] \in S /\ Len(names[n]) = k + 1
            /\ \A i \in 1 .. k : names[n][i] = l[i]
            /\ names[n][k + 1] = template[n].name
        BY <1>1, <3>1, <3>2, AppendProperties
      <3>4. DOMAIN names[n] = 1 .. k + 1
        BY <3>3, LenProperties
      <3> HIDE DEF l, k
      <3>5. ToSet(names[n]) = ToSet(l) \cup {template[n].name}
        <4>1. 1 .. k + 1 = (1 .. k) \cup {k + 1}
          BY <3>2
        <4>2. ToSet(names[n]) = {names[n][i] : i \in 1 .. k} \cup {names[n][k + 1]}
          BY <3>4, <4>1 DEF ToSet
        <4>3. {names[n][i] : i \in 1 .. k} = ToSet(l)
          BY <3>2, <3>3 DEF ToSet
        <4>4. QED
          BY <3>3, <4>2, <4>3
      <3>6. \A name : name \in ToSet(l) <=> Has(n - 1, name)
        BY <2>1 DEF l
      <3>7. ASSUME Distinct(template)
            PROVE  Once(names[n])
        <4>1. template[n].name \notin ToSet(l)
          <5>1. SUFFICES ASSUME template[n].name \in ToSet(l)
                         PROVE  FALSE
            OBVIOUS
          <5>2. PICK i \in 1 .. n - 1 : template[n].name = template[i].name
            BY <3>6, <5>1
          <5>3. i \in DOMAIN template /\ n \in DOMAIN template /\ i # n
            BY <1>1
          <5>4. QED
            BY <3>7, <5>2, <5>3 DEF Distinct
        <4>2. \A i \in 1 .. k : l[i] # template[n].name
          BY <3>2, <4>1 DEF ToSet
        <4>3. Once(l)
          BY <2>1, <3>7 DEF l
        <4>4. QED
          BY <3>2, <3>3, <4>2, <4>3 DEF Once, k
      <3>8. Done(n)
        <4> HIDE DEF Has
        <4>1. QED
          BY <2>3, <2>6, <3>3, <3>5, <3>6, <3>7
      <3>9. QED
        BY <2>4, <3>8
    <2>7. QED
      BY <2>5, <2>6
  <1>12. N \in Good
    <2>1. \A n \in 0 .. N : n \in Good
      <3> HIDE DEF Good, N
      <3> QED
        BY <1>1, <1>10, <1>11, IntervalInduction
    <2> HIDE DEF Good
    <2>2. QED
      BY <1>1, <2>1
  <1>13. QED
    BY <1>1, <1>8, <1>12

-----------------------------------------------------------------------------
Lists == Seq([containers_list : Seq(ContainerName), ppc_containers_list : Seq(ContainerName)])

(* A list is done when the excludes have been taken from it. *)
ListDone(k) == k \in 1 .. Len(lists) /\ (listing = "excludes" => k # Len(lists))

(* Nothing that is excluded, and all else that the template has. *)
GoodList(list) ==
    /\ ToSet(list) \cap ToSet(ExcludeList) = {}
    /\ \A i \in DOMAIN template :
          template[i].prefix = containerPrefix /\ template[i].image_source = "tripleo"
          /\ template[i].name \notin ToSet(ExcludeList) => template[i].name \in ToSet(list)

(* What a promotion of the release as it is called now pushes. *)
Expected ==
    [containers_list     |-> Excluding(Unprefixed(containerPrefix), ExcludeList),
     ppc_containers_list |-> Excluding(Unprefixed(containerPrefix), excludeFile.ppc)]

(* The prefix stays that of the lists; only rhos-16.2, which a run comes to *)
(* by its first list, has lists from two names of the release.              *)
ListStepInv ==
    /\ listing \in {"sha", "list"} => Len(lists) < MaxPromotions
    /\ listing = "excludes" => /\ Len(lists) \in 1 .. MaxPromotions
                               /\ lists[Len(lists)].containers_list = Unprefixed(containerPrefix)
    /\ lists # <<>> /\ OldNames => containerPrefix = "centos-binary-"

ListDoneInv ==
    Distinct(template) /\ ~lost =>
        \A k \in 1 .. Len(lists) : ListDone(k) =>
            /\ GoodList(lists[k].containers_list)
            /\ release # "rhos-16.2" => lists[k] = Expected

ContainerListIInv == ContainerListTypeOK /\ ListStepInv /\ ListDoneInv

LEMMA ContainerListInitIInv == ContainerListInit => ContainerListIInv
  <1> SUFFICES ASSUME ContainerListInit PROVE ContainerListIInv
    OBVIOUS
  <1>1. lists \in Lists /\ Len(lists) = 0
    BY EmptySeq DEF ContainerListInit, Lists
  <1>2. ContainerListTypeOK
    <2>1. Len(lists) <= MaxPromotions + 1
      BY <1>1 DEF MaxPromotions
    <2>2. lost \in BOOLEAN
      BY DEF ContainerListInit
    <2>3. release \in Release /\ containerPrefix \in Prefix /\ listing = "idle"
          /\ template \in Template /\ excludeFile \in ExcludeFile
      BY DEF ContainerListInit, Release, Prefix
    <2>4. QED
      BY <1>1, <2>1, <2>2, <2>3 DEF ContainerListTypeOK, Lists
  <1>3. ListStepInv
    BY <1>1 DEF ContainerListInit, ListStepInv
  <1>4. ListDoneInv
    BY <1>1 DEF ListDoneInv
  <1>5. QED
    BY <1>2, <1>3, <1>4 DEF ContainerListIInv

(* What the proofs below take apart. *)
LEMMA ListTypes ==
    ASSUME ContainerListTypeOK
    PROVE  /\ lists \in Lists /\ Len(lists) \in Nat /\ DOMAIN lists = 1 .. Len(lists)
           /\ ExcludeList \in Seq(ContainerName) /\ excludeFile.ppc \in Seq(ContainerName)
  <1>1. lists \in Lists
    BY DEF ContainerListTypeOK, Lists
  <1>2. Len(lists) \in Nat /\ DOMAIN lists = 1 .. Len(lists)
    BY <1>1, LenProperties DEF Lists
  <1>3. excludeFile.exclude \in Seq(ContainerName) /\ excludeFile.ppc \in Seq(ContainerName)
    BY ContainerListAssumption DEF ContainerListTypeOK
  <1>4. ExcludeList \in Seq(ContainerName)
    BY <1>3, EmptySeq DEF ExcludeList
  <1>5. QED
    BY <1>1, <1>2, <1>3, <1>4

(* With its excludes, the list of the template is good. *)
LEMMA ExpectedIsGood ==
    ASSUME ContainerListTypeOK, Distinct(template)
    PROVE  GoodList(Excluding(Unprefixed(containerPrefix), ExcludeList))
  <1> DEFINE full == Unprefixed(containerPrefix)
  <1>1. full \in Seq(ContainerName) /\ Once(full)
    BY UnprefixedOf
  <1>2. ToSet(Excluding(full, ExcludeList)) = ToSet(full) \ ToSet(ExcludeList)
    <2> HIDE DEF full
    <2> QED
      BY <1>1, ListTypes, ExcludingOf
  <1>3. \A i \in DOMAIN template :
           template[i].prefix = containerPrefix /\ template[i].image_source = "tripleo"
           => template[i].name \in ToSet(full)
    BY UnprefixedOf DEF Listed
  <1> HIDE DEF full
  <1>4. QED
    BY <1>2, <1>3 DEF GoodList, full

(* The list is told by the template, the prefix and the kind of release. *)
LEMMA SameNames ==
    ASSUME template' = template, containerPrefix' = containerPrefix, OldNames' = OldNames
    PROVE  Unprefixed(containerPrefix)' = Unprefixed(containerPrefix)
  BY DEF Unprefixed, Listed

(* Without a step of the run what is done stays as it is. *)
LEMMA SameListsStay ==
    ASSUME ContainerListIInv,
           UNCHANGED <<template, excludeFile, release, containerPrefix, lists, lost>>,
           \A k : ListDone(k)' => ListDone(k)
    PROVE  ListDoneInv'
  <1>1. /\ OldNames' = OldNames /\ ExcludeList' = ExcludeList
        /\ Distinct(template)' = Distinct(template)
    BY DEF OldNames, ExcludeList, Distinct
  <1>2. Unprefixed(containerPrefix)' = Unprefixed(containerPrefix)
    BY <1>1, SameNames
  <1>3. Expected' = Expected
    BY <1>1, <1>2 DEF Expected, Excluding
  <1>4. \A k : GoodList(lists[k].containers_list)' = GoodList(lists[k].containers_list)
    BY <1>1 DEF GoodList
  <1>5. QED
    BY <1>1, <1>3, <1>4 DEF ContainerListIInv, ListDoneInv

(* Steps that leave the lists alone. *)
LEMMA SameListsStep ==
    ASSUME ContainerListIInv,
           UNCHANGED <<template, excludeFile, release, containerPrefix, lists, lost>>,
           listing # "excludes", listing' # "excludes",
           listing' \in {"idle", "sha", "list", "raised"},
           listing' \in {"sha", "list"} => Len(lists) < MaxPromotions
    PROVE  ContainerListIInv'
  <1>1. ContainerListTypeOK'
    BY DEF ContainerListIInv, ContainerListTypeOK
  <1>2. ListStepInv'
    BY DEF ContainerListIInv, ListStepInv, OldNames
  <1>3. ListDoneInv'
    <2>1. \A k : ListDone(k)' => ListDone(k)
      BY DEF ListDone
    <2>2. QED
      BY <2>1, SameListsStay
  <1>4. QED
    BY <1>1, <1>2, <1>3 DEF ContainerListIInv

(* A new list has yet to lose its excludes; the prefix is that of the others. *)
LEMMA GetContainersListStep ==
    ASSUME ContainerListIInv, GetContainersList
    PROVE  ContainerListIInv'
  <1>1. /\ listing = "list" /\ Len(lists) < MaxPromotions
        /\ UNCHANGED <<template, excludeFile, release, lost>>
        /\ containerPrefix' = IF OldNames THEN "centos-binary-" ELSE containerPrefix
        /\ OldNames' = OldNames
    BY DEF GetContainersList, ContainerListIInv, ListStepInv, OldNames
  <1>2. lists \in Lists /\ Len(lists) \in Nat /\ DOMAIN lists = 1 .. Len(lists)
    BY ListTypes DEF ContainerListIInv
  <1>3. Len(lists) > 0 => containerPrefix' = containerPrefix
    BY <1>1, <1>2 DEF ContainerListIInv, ListStepInv
  <1>4. containerPrefix' \in Prefix
    BY <1>1 DEF ContainerListIInv, ContainerListTypeOK, Prefix
  <1>5. CASE lists' = lists /\ listing' = "raised"
    <2>1. ContainerListTypeOK'
      BY <1>1, <1>4, <1>5 DEF ContainerListIInv, ContainerListTypeOK
    <2>2. ListStepInv'
      BY <1>1, <1>5 DEF ListStepInv
    <2>3. ListDoneInv'
      <3>1. CASE Len(lists) > 0
        <4>1. \A k : ListDone(k)' => ListDone(k)
          BY <1>1, <1>5 DEF ListDone
        <4>2. QED
          BY <1>1, <1>3, <1>5, <3>1, <4>1, SameListsStay
      <3>2. CASE ~(Len(lists) > 0)
        BY <1>2, <1>5, <3>2 DEF ListDoneInv
      <3>3. QED
        BY <3>1, <3>2
    <2>4. QED
      BY <2>1, <2>2, <2>3 DEF ContainerListIInv
  <1>6. CASE /\ listing' = "excludes"
             /\ LET full == Unprefixed(containerPrefix')
                IN lists' = Append(lists, [containers_list |-> full, ppc_containers_list |-> full])
    <2> DEFINE full == Unprefixed(containerPrefix')
               entry == [containers_list |-> full, ppc_containers_list |-> full]
    <2>1. full \in Seq(ContainerName)
      BY UnprefixedOf DEF ContainerListIInv
    <2>2. /\ lists' \in Lists /\ Len(lists') = Len(lists) + 1
          /\ \A k \in 1 .. Len(lists) : lists'[k] = lists[k]
          /\ lists'[Len(lists) + 1].containers_list = full
      <3> HIDE DEF full
      <3>1. entry \in [containers_list : Seq(ContainerName), ppc_containers_list : Seq(ContainerName)]
        BY <2>1
      <3>2. lists' = Append(lists, entry)
        BY <1>6 DEF full
      <3>3. entry.containers_list = full
        OBVIOUS
      <3> HIDE DEF entry
      <3>4. /\ lists' \in Lists /\ Len(lists') = Len(lists) + 1
            /\ \A k \in 1 .. Len(lists) : lists'[k] = lists[k]
            /\ lists'[Len(lists) + 1] = entry
        <4> DEFINE R == [containers_list : Seq(ContainerName), ppc_containers_list : Seq(ContainerName)]
        <4>1. lists \in Seq(R) /\ entry \in R
          BY <1>2, <3>1 DEF Lists
        <4> HIDE DEF R
        <4>2. /\ lists' \in Seq(R) /\ Len(lists') = Len(lists) + 1
              /\ \A k \in 1 .. Len(lists) : lists'[k] = lists[k]
              /\ lists'[Len(lists) + 1] = entry
          BY <3>2, <4>1, AppendProperties
        <4>3. QED
          BY <4>2 DEF R, Lists
      <3>5. QED
        BY <3>3, <3>4
    <2>3. full = Unprefixed(containerPrefix)'
      BY <1>1 DEF Unprefixed, Listed
    <2> HIDE DEF full
    <2>4. ContainerListTypeOK'
      <3>1. Len(lists') <= MaxPromotions + 1
        BY <1>1, <1>2, <2>2 DEF MaxPromotions
      <3>2. QED
        BY <1>1, <1>4, <1>6, <2>2, <3>1 DEF ContainerListIInv, ContainerListTypeOK, Lists
    <2>5. ListStepInv'
      <3>1. Len(lists') \in 1 .. MaxPromotions
        BY <1>1, <1>2, <2>2 DEF MaxPromotions
      <3>2. OldNames' => containerPrefix' = "centos-binary-"
        BY <1>1
      <3>3. QED
        BY <1>6, <2>2, <2>3, <3>1, <3>2 DEF ListStepInv
    <2>6. ListDoneInv'
      <3>1. SUFFICES ASSUME (Distinct(template) /\ ~lost)', NEW k \in 1 .. Len(lists'), ListDone(k)'
                     PROVE  (/\ GoodList(lists[k].containers_list)
                             /\ release # "rhos-16.2" => lists[k] = Expected)'
        BY DEF ListDoneInv
      <3>2. k \in 1 .. Len(lists)
        BY <1>2, <1>6, <2>2, <3>1 DEF ListDone
      <3>3. containerPrefix' = containerPrefix
        BY <1>2, <1>3, <3>2
      <3>4. Distinct(template) /\ ~lost
        BY <1>1, <3>1 DEF Distinct
      <3>5. ListDone(k)
        BY <1>1, <3>2 DEF ListDone
      <3>6. /\ GoodList(lists[k].containers_list)
            /\ release # "rhos-16.2" => lists[k] = Expected
        BY <3>2, <3>4, <3>5 DEF ContainerListIInv, ListDoneInv
      <3>7. lists'[k] = lists[k]
        BY <2>2, <3>2
      <3>8. ExcludeList' = ExcludeList
        BY <1>1 DEF ExcludeList
      <3>9. Expected' = Expected
        <4>1. Unprefixed(containerPrefix)' = Unprefixed(containerPrefix)
          BY <1>1, <3>3, SameNames
        <4>2. QED
          BY <1>1, <3>8, <4>1 DEF Expected, Excluding
      <3>10. GoodList(lists[k].containers_list)'
        BY <1>1, <3>3, <3>6, <3>7, <3>8 DEF GoodList
      <3>11. QED
        BY <1>1, <3>6, <3>7, <3>9, <3>10
    <2>7. QED
      BY <2>4, <2>5, <2>6 DEF ContainerListIInv
  <1>7. QED
    BY <1>5, <1>6 DEF GetContainersList

(* The excludes make the last list what every promotion of this release    *)
(* pushes; only osp16-2 turns into another release by it.                   *)
LEMMA LoadExcludesStep ==
    ASSUME ContainerListIInv, LoadExcludes
    PROVE  ContainerListIInv'
  <1> DEFINE n == Len(lists)
             full == lists[n].containers_list
  <1>1. PICK available \in BOOLEAN :
           /\ lost' = (lost \/ ~available)
           /\ lists' = [lists EXCEPT ![n] =
                 [containers_list     |-> Excluding(full, IF available THEN ExcludeList ELSE <<>>),
                  ppc_containers_list |-> Excluding(full, IF available THEN excludeFile.ppc ELSE <<>>)]]
    BY DEF LoadExcludes
  <1>2. /\ listing = "excludes" /\ release' = ReleaseMap(release)
        /\ listing' \in {"raised", "idle"}
        /\ UNCHANGED <<template, excludeFile, containerPrefix>>
    BY DEF LoadExcludes
  <1>3. lists \in Lists /\ n \in Nat /\ DOMAIN lists = 1 .. n
    BY ListTypes DEF ContainerListIInv
  <1>4. n \in 1 .. MaxPromotions /\ full = Unprefixed(containerPrefix)
    BY <1>2 DEF ContainerListIInv, ListStepInv
  <1> DEFINE names == IF available THEN ExcludeList ELSE <<>>
             ppc == IF available THEN excludeFile.ppc ELSE <<>>
             entry == [containers_list |-> Excluding(full, names), ppc_containers_list |-> Excluding(full, ppc)]
  <1>5. names \in Seq(ContainerName) /\ ppc \in Seq(ContainerName)
    BY ListTypes, EmptySeq DEF ContainerListIInv
  <1>6. full \in Seq(ContainerName)
    BY <1>4, UnprefixedOf DEF ContainerListIInv
  <1>7. Excluding(full, names) \in Seq(ContainerName) /\ Excluding(full, ppc) \in Seq(ContainerName)
    <2> HIDE DEF full, names, ppc
    <2> QED
      BY <1>5, <1>6, ExcludingOf
  <1>8. /\ lists' \in Lists /\ Len(lists') = n
        /\ \A k \in 1 .. n : lists'[k] = IF k = n THEN entry ELSE lists[k]
    <2> HIDE DEF full, names, ppc
    <2>1. entry \in [containers_list : Seq(ContainerName), ppc_containers_list : Seq(ContainerName)]
      BY <1>7
    <2>2. lists' = [lists EXCEPT ![n] = entry]
      BY <1>1 DEF full, names, ppc
    <2> HIDE DEF entry
    <2>3. n \in 1 .. Len(lists)
      BY <1>3, <1>4
    <2>4. QED
      BY <1>3, <2>1, <2>2, <2>3, ExceptSeq DEF Lists
  <1>9. release' \in Release /\ (release' = release \/ release' = "rhos-16.2")
    BY <1>2 DEF ReleaseMap, Release, ContainerListIInv, ContainerListTypeOK
  <1>10. lost' \in BOOLEAN
    BY <1>1
  <1>11. ContainerListTypeOK'
    <2>1. Len(lists') <= MaxPromotions + 1
      BY <1>4, <1>8 DEF MaxPromotions
    <2>2. QED
      BY <1>2, <1>8, <1>9, <1>10, <2>1 DEF ContainerListIInv, ContainerListTypeOK, Lists
  <1>12. ListStepInv'
    <2>1. OldNames' => OldNames
      BY <1>2 DEF OldNames, ReleaseMap
    <2>2. lists # <<>>
      BY <1>3, <1>4
    <2>3. QED
      BY <1>2, <2>1, <2>2 DEF ContainerListIInv, ListStepInv
  <1>13. ListDoneInv'
    <2>1. SUFFICES ASSUME (Distinct(template) /\ ~lost)', NEW k \in 1 .. Len(lists')
                   PROVE  (/\ GoodList(lists[k].containers_list)
                           /\ release # "rhos-16.2" => lists[k] = Expected)'
      BY DEF ListDoneInv
    <2>2. Distinct(template) /\ ~lost /\ available /\ k \in 1 .. n
      BY <1>1, <1>2, <1>8, <2>1 DEF Distinct
    <2>3. ExcludeList' = ExcludeList
      BY <1>2 DEF ExcludeList
    <2>4. ASSUME release' # "rhos-16.2"
          PROVE  Expected' = Expected
      <3>1. OldNames' = OldNames
        BY <1>9, <2>4 DEF OldNames
      <3>2. Unprefixed(containerPrefix)' = Unprefixed(containerPrefix)
        BY <1>2, <3>1, SameNames
      <3>3. QED
        BY <1>2, <2>3, <3>2 DEF Expected, Excluding
    <2>5. \A l : GoodList(l) => GoodList(l)'
      BY <1>2, <2>3 DEF GoodList
    <2>6. CASE k = n
      <3>1. lists'[k] = Expected
        BY <1>4, <1>8, <2>2, <2>6 DEF Expected
      <3>2. GoodList(lists'[k].containers_list)
        BY <2>2, <3>1, ExpectedIsGood DEF Expected, ContainerListIInv
      <3>3. GoodList(lists[k].containers_list)'
        BY <1>2, <2>3, <3>2 DEF GoodList
      <3>4. QED
        BY <2>4, <3>1, <3>3
    <2>7. CASE k # n
      <3>1. ListDone(k)
        BY <2>2, <2>7 DEF ListDone
      <3>2. /\ GoodList(lists[k].containers_list)
            /\ release # "rhos-16.2" => lists[k] = Expected
        BY <2>2, <3>1 DEF ContainerListIInv, ListDoneInv
      <3>3. lists'[k] = lists[k]
        BY <1>8, <2>2, <2>7
      <3>4. GoodList(lists[k].containers_list)'
        BY <1>2, <2>3, <3>2, <3>3 DEF GoodList
      <3>5. QED
        BY <1>9, <2>4, <3>2, <3>3, <3>4
    <2>8. QED
      BY <2>6, <2>7
  <1>14. QED
    BY <1>11, <1>12, <1>13 DEF ContainerListIInv

LEMMA ContainerListNextIInv ==
    ContainerListIInv /\ [ContainerListNext]_listVars => ContainerListIInv'
  <1> SUFFICES ASSUME ContainerListIInv, [ContainerListNext]_listVars
               PROVE  ContainerListIInv'
    OBVIOUS
  <1>1. CASE GetVersionsCsv
    BY <1>1, SameListsStep DEF GetVersionsCsv
  <1>2. CASE GetCommitSha
    BY <1>2, SameListsStep DEF GetCommitSha, ContainerListIInv, ListStepInv
  <1>3. CASE GetContainersList
    BY <1>3, GetContainersListStep
  <1>4. CASE LoadExcludes
    BY <1>4, LoadExcludesStep
  <1>5. CASE NoDownload
    BY <1>5, SameListsStep DEF NoDownload, Raises
  <1>6. CASE UNCHANGED listVars
    <2>1. ContainerListTypeOK'
      BY <1>6 DEF listVars, ContainerListIInv, ContainerListTypeOK
    <2>2. ListStepInv'
      BY <1>6 DEF listVars, ContainerListIInv, ListStepInv, Unprefixed, Listed, OldNames
    <2>3. ListDoneInv'
      <3>1. \A k : ListDone(k)' => ListDone(k)
        BY <1>6 DEF ListDone, listVars
      <3>2. QED
        BY <1>6, <3>1, SameListsStay DEF listVars
    <2>4. QED
      BY <2>1, <2>2, <2>3 DEF ContainerListIInv
  <1>7. QED
    BY <1>1, <1>2, <1>3, <1>4, <1>5, <1>6 DEF ContainerListNext

LEMMA ContainerListInvariant == ContainerListSpec => []ContainerListIInv
  BY ContainerListInitIInv, ContainerListNextIInv, PTL DEF ContainerListSpec

(* Between two promotions every list is done. *)
LEMMA DoneListsAgree == ContainerListIInv => SameListForEachLabel
  <1> SUFFICES ASSUME ContainerListIInv, listing = "idle", Distinct(template), ~lost
               PROVE  /\ \A k \in DOMAIN lists : GoodList(lists[k].containers_list)
                      /\ \A k, m \in DOMAIN lists : lists[k] = lists[m] \/ release = "rhos-16.2"
    BY DEF SameListForEachLabel, GoodList
  <1>1. DOMAIN lists = 1 .. Len(lists)
    BY ListTypes DEF ContainerListIInv
  <1>2. \A k \in DOMAIN lists : /\ GoodList(lists[k].containers_list)
                                /\ release # "rhos-16.2" => lists[k] = Expected
    BY <1>1 DEF ContainerListIInv, ListDoneInv, ListDone
  <1>3. QED
    BY <1>2

(* All promotions of a run push one list of containers, with all of the     *)
(* template but what is excluded, for any template and exclude list.        *)
THEOREM LabelsGetOneList == ContainerListSpec => []SameListForEachLabel
  BY ContainerListInvariant, DoneListsAgree, PTL

(***************************************************************************)
(* The difference of two builds.  Of the rpms of a package that are        *)
(* compared the highest is the newest of all that were logged.             *)
(***************************************************************************)
(* Of finitely many rpms some is not lower than any other. *)
LEMMA SomeRpmIsNewest ==
    ASSUME NEW R, R \subseteq Rpm, IsFiniteSet(R), R # {}
    PROVE  \E r \in R : \A s \in R : ~LabelCompare(s, r)
  <1> DEFINE Above(r) == {s \in R : s = r \/ LabelCompare(s, r)}
             F == {Above(r) : r \in R}
  <1>1. F \subseteq FiniteSubsetsOf(R)
    <2>1. \A r \in R : Above(r) \subseteq R /\ IsFiniteSet(Above(r))
      <3>1. \A r \in R : Above(r) \subseteq R
        OBVIOUS
      <3> HIDE DEF Above
      <3>2. QED
        BY <3>1, FS_Subset
    <2> HIDE DEF Above
    <2>2. QED
      BY <2>1 DEF FiniteSubsetsOf
  <1>2. F # {}
    OBVIOUS
  <1> HIDE DEF F
  <1>3. PICK X \in F : \A Y \in F : <<Y, X>> \notin StrictSubsetOrdering(R)
    BY <1>1, <1>2, FS_StrictSubsetOrderingWellFounded, WFMin
  <1>4. PICK r \in R : X = Above(r)
    BY DEF F
  <1>5. ASSUME NEW s \in R, LabelCompare(s, r)
        PROVE  FALSE
    <2>1. \A q \in R : q.version \in Nat /\ q.release \in Nat
      BY BuildDiffAssumption
    <2>2. Above(s) \subseteq X /\ r \in X /\ r \notin Above(s)
      BY <1>4, <1>5, <2>1 DEF LabelCompare
    <2>3. Above(s) \in F /\ Above(s) \in SUBSET R /\ X \in SUBSET R
      BY <1>4 DEF F
    <2> HIDE DEF Above
    <2>4. <<Above(s), X>> \in StrictSubsetOrdering(R)
      BY <2>2, <2>3 DEF StrictSubsetOrdering
    <2>5. QED
      BY <1>3, <2>3, <2>4
  <1>6. QED
    BY <1>5

(* Name, version and release tell rpms apart. *)
LEMMA RpmsAreTold ==
    ASSUME NEW r \in Rpm, NEW s \in Rpm
    PROVE  /\ r.version \in Nat /\ r.release \in Nat
           /\ r.name = s.name /\ r.version = s.version /\ r.release = s.release => r = s
  BY BuildDiffAssumption

(* What a build may have logged, or nothing yet. *)
AnyLog == BuildLog \cup {NoLog}

(* A build logs finitely many rpms, in all. *)
LEMMA LogIsFinite ==
    ASSUME NEW log \in AnyLog
    PROVE  Everything(log) \subseteq Rpm /\ IsFiniteSet(Everything(log))
  <1> DEFINE D == DOMAIN Listing
             C == {log.containers[i] : i \in D}
  <1>1. /\ log.host \subseteq Rpm /\ IsFiniteSet(log.host)
        /\ \A i \in D : log.containers[i] \subseteq Rpm /\ IsFiniteSet(log.containers[i])
    <2>1. CASE log \in BuildLog
      <3>1. log.host \in HostLog /\ \A i \in D : log.containers[i] \in ContainerLog
        BY <2>1 DEF BuildLog
      <3>2. QED
        BY <3>1, BuildDiffAssumption
    <2>2. CASE log = NoLog
      BY <2>2, FS_EmptySet DEF NoLog
    <2>3. QED
      BY <2>1, <2>2 DEF AnyLog
  <1>2. IsFiniteSet(C)
    <2>1. IsFiniteSet(D)
      BY BuildDiffAssumption
    <2> DEFINE f == [i \in D |-> log.containers[i]]
    <2>2. f \in Surjection(D, C)
      BY DEF Surjection
    <2> HIDE DEF D, C, f
    <2>3. QED
      BY <2>1, <2>2, FS_Surjection
  <1>3. IsFiniteSet(UNION C)
    <2>1. \A T \in C : IsFiniteSet(T)
      BY <1>1
    <2> HIDE DEF C
    <2>2. QED
      BY <1>2, <2>1, FS_UNION
  <1>4. IsFiniteSet(log.host \cup UNION C)
    <2> HIDE DEF C
    <2>1. QED
      BY <1>1, <1>3, FS_Union
  <1>5. Everything(log) \subseteq log.host \cup UNION C
    BY DEF Everything
  <1>6. IsFiniteSet(Everything(log))
    <2> HIDE DEF C
    <2>1. QED
      BY <1>4, <1>5, FS_Subset
  <1>7. Everything(log) \subseteq Rpm
    BY <1>1 DEF Everything
  <1>8. QED
    BY <1>6, <1>7

(* What is compared was logged, and is not ignored. *)
LEMMA PackagesAreLogged ==
    ASSUME NEW log \in AnyLog
    PROVE  /\ Packages(log) \subseteq Everything(log)
           /\ \A r \in Packages(log) : r.name \notin IgnoredPackage
  BY DEF Packages, Everything

(* What is logged of a package has a newest rpm, and only one. *)
LEMMA NewestIsOne ==
    ASSUME NEW log \in AnyLog, NEW name
    PROVE  /\ \A r, s \in Newest(log, name) : r = s
           /\ \A r \in Everything(log) : r.name = name => Newest(log, name) # {}
  <1> DEFINE R == {r \in Everything(log) : r.name = name}
  <1>1. R \subseteq Rpm /\ IsFiniteSet(R)
    <2>1. R \subseteq Everything(log)
      OBVIOUS
    <2> HIDE DEF R
    <2>2. QED
      BY <2>1, LogIsFinite, FS_Subset
  <1>2. Newest(log, name) = {r \in R : \A s \in R : ~LabelCompare(s, r)}
    BY DEF Newest
  <1>3. ASSUME NEW r \in Newest(log, name), NEW s \in Newest(log, name)
        PROVE  r = s
    <2>1. /\ r \in Rpm /\ s \in Rpm /\ r.name = name /\ s.name = name
          /\ ~LabelCompare(r, s) /\ ~LabelCompare(s, r)
      BY <1>1, <1>2, <1>3
    <2>2. QED
      BY <2>1, RpmsAreTold DEF LabelCompare
  <1>4. R # {} => Newest(log, name) # {}
    <2> HIDE DEF R
    <2>1. QED
      BY <1>1, <1>2, SomeRpmIsNewest
  <1>5. QED
    BY <1>3, <1>4

(* A newest rpm that is not passed over is compared. *)
LEMMA NewestIsCompared ==
    ASSUME NEW log \in AnyLog, NEW name, name \notin IgnoredPackage, ~PassedOver(log, name)
    PROVE  Newest(log, name) \subseteq Packages(log)
  <1> SUFFICES ASSUME NEW r \in Newest(log, name)
               PROVE  r \in Packages(log)
    OBVIOUS
  <1>1. r \in Everything(log) /\ r.name \notin IgnoredPackage
    BY DEF Newest
  <1>2. CASE InstalledPackages
    <2>1. \/ r \in log.host
          \/ \E i \in DOMAIN Listing : r \in log.containers[i] /\ Counts(log, i)
      BY <1>2 DEF PassedOver
    <2>2. QED
      BY <1>1, <1>2, <2>1 DEF Packages
  <1>3. CASE ~InstalledPackages
    BY <1>1, <1>3 DEF Packages, Everything
  <1>4. QED
    BY <1>2, <1>3

(* What the comparison keeps of a package is its newest rpm, or in cpaas mode *)
(* an rpm of its version.                                                     *)
LEMMA HighestIsNewest ==
    ASSUME NEW log \in AnyLog, NEW name, name \notin IgnoredPackage, ~PassedOver(log, name)
    PROVE  LET highest == FindHighestVersion(Packages(log), name)
           IN /\ Newest(log, name) \subseteq highest
              /\ \A r \in highest, s \in Newest(log, name) :
                    r.version = s.version /\ (source # "cpaas" => r = s)
              /\ Newest(log, name) = {} => highest = {}
  <1> DEFINE highest == FindHighestVersion(Packages(log), name)
  <1>1. Newest(log, name) \subseteq Packages(log)
    BY NewestIsCompared
  <1>2. Packages(log) \subseteq Everything(log) /\ Everything(log) \subseteq Rpm
    BY PackagesAreLogged, LogIsFinite
  <1>3. \A r, s \in Rpm : ~LabelCompare(s, r) => ~Higher(s, r)
    BY RpmsAreTold DEF Higher, LabelCompare, CpaasLabelCompare
  <1>4. Newest(log, name) \subseteq highest
    BY <1>1, <1>2, <1>3 DEF Newest, FindHighestVersion
  <1>5. ASSUME NEW r \in highest, NEW s \in Newest(log, name)
        PROVE  r.version = s.version /\ (source # "cpaas" => r = s)
    <2>1. /\ r \in Rpm /\ s \in Rpm /\ r.name = name /\ s.name = name
          /\ ~Higher(s, r) /\ ~LabelCompare(r, s)
      BY <1>1, <1>2, <1>5 DEF Newest, FindHighestVersion
    <2>2. CASE source = "cpaas"
      BY <2>1, <2>2, RpmsAreTold DEF Higher, CpaasLabelCompare, LabelCompare
    <2>3. CASE source # "cpaas"
      BY <2>1, <2>3, RpmsAreTold DEF Higher, LabelCompare
    <2>4. QED
      BY <2>2, <2>3
  <1>6. Newest(log, name) = {} => highest = {}
    BY <1>2, NewestIsOne DEF FindHighestVersion
  <1>7. QED
    BY <1>4, <1>5, <1>6

(* The report of a node stands until the next node. *)
BuildDiffIInv == BuildDiffTypeOK /\ ReportTellsBuildsApart

LEMMA BuildDiffInitIInv == BuildDiffInit => BuildDiffIInv
  <1> SUFFICES ASSUME BuildDiffInit PROVE BuildDiffIInv
    OBVIOUS
  <1>1. [b \in Build |-> NoLog] \in [Build -> BuildLog \cup {NoLog}]
    OBVIOUS
  <1>2. BuildDiffTypeOK
    BY <1>1 DEF BuildDiffInit, BuildDiffTypeOK
  <1>3. ReportTellsBuildsApart
    BY DEF BuildDiffInit, ReportTellsBuildsApart
  <1>4. QED
    BY <1>2, <1>3 DEF BuildDiffIInv

(* A row for each package of which different rpms are kept, so for each of  *)
(* which different ones are newest.                                         *)
LEMMA DiffPackagesStep ==
    ASSUME BuildDiffTypeOK, DiffPackages
    PROVE  BuildDiffIInv'
  <1> DEFINE control == Packages(logs["control"])
             test == Packages(logs["test"])
             names == {r.name : r \in control \cup test}
             Keeps(f, rpms) ==
                 \A n \in names :
                    LET highest == FindHighestVersion(rpms, n)
                    IN IF highest = {} THEN f[n] = {} ELSE \E r \in highest : f[n] = {r}
  <1>1. PICK c \in [names -> SUBSET control], t \in [names -> SUBSET test] :
           /\ Keeps(c, control) /\ Keeps(t, test)
           /\ rows' = {[package |-> n, control |-> c[n], test |-> t[n]] :
                          n \in {m \in names : c[m] # t[m]}}
    BY DEF DiffPackages
  <1>2. diffAt' = "diffed" /\ UNCHANGED <<source, nodesLeft, logs>>
    BY DEF DiffPackages
  <1>3. logs["control"] \in AnyLog /\ logs["test"] \in AnyLog
    BY DEF BuildDiffTypeOK, AnyLog, Build
  <1>4. control \subseteq Rpm /\ test \subseteq Rpm
    BY <1>3, PackagesAreLogged, LogIsFinite
  <1>5. BuildDiffTypeOK'
    <2>1. \A n \in names : n \in {r.name : r \in Rpm}
      BY <1>4
    <2>2. \A n \in names : c[n] \in SUBSET Rpm /\ t[n] \in SUBSET Rpm
      BY <1>4
    <2> HIDE DEF names
    <2>3. rows' \in SUBSET [package : {r.name : r \in Rpm}, control : SUBSET Rpm, test : SUBSET Rpm]
      BY <1>1, <2>1, <2>2
    <2>4. QED
      BY <1>2, <2>3 DEF BuildDiffTypeOK, BuildLog, NoLog
  <1> DEFINE differ == {m \in names : c[m] # t[m]}
             N(b, name) == Newest(logs[b], name)
             Versions(b, name) == {r.version : r \in N(b, name)}
  <1>6. ASSUME NEW name, name \notin IgnoredPackage, \A b \in Build : ~PassedOver(logs[b], name)
        PROVE  /\ source # "cpaas" =>
                     (name \in differ <=> N("control", name) # N("test", name))
               /\ source = "cpaas" =>
                     (Versions("control", name) # Versions("test", name) => name \in differ)
    <2> DEFINE H(b) == FindHighestVersion(Packages(logs[b]), name)
               kept == [b \in Build |-> IF b = "control" THEN c[name] ELSE t[name]]
    <2>1. \A b \in Build :
             /\ N(b, name) \subseteq H(b)
             /\ \A r \in H(b), s \in N(b, name) :
                   r.version = s.version /\ (source # "cpaas" => r = s)
             /\ N(b, name) = {} => H(b) = {}
             /\ \A r, s \in N(b, name) : r = s
      BY <1>3, <1>6, HighestIsNewest, NewestIsOne DEF Build
    <2>2. ASSUME name \in names
          PROVE  \A b \in Build : \/ H(b) = {} /\ kept[b] = {}
                                  \/ \E r \in H(b) : kept[b] = {r}
      BY <1>1, <2>2 DEF Build
    <2>3. ASSUME name \notin names
          PROVE  N("control", name) = {} /\ N("test", name) = {}
      <3>1. H("control") = {} /\ H("test") = {}
        BY <2>3 DEF FindHighestVersion
      <3>2. QED
        BY <2>1, <3>1 DEF Build
    <2>4. kept["control"] = c[name] /\ kept["test"] = t[name]
      BY DEF Build
    <2>5. "control" \in Build /\ "test" \in Build
      BY DEF Build
    <2> HIDE DEF N, H, kept, names
    <2>6. CASE name \notin names
      BY <2>3, <2>6
    <2>7. CASE name \in names /\ source # "cpaas"
      <3>1. ASSUME NEW b \in Build
            PROVE  kept[b] = N(b, name)
        <4>1. CASE H(b) = {}
          <5>1. N(b, name) = {}
            BY <2>1, <4>1
          <5>2. kept[b] = {}
            BY <2>2, <2>7, <4>1
          <5>3. QED
            BY <5>1, <5>2
        <4>2. CASE H(b) # {}
          <5>1. PICK r \in H(b) : kept[b] = {r}
            BY <2>2, <2>7, <4>2
          <5>2. PICK s \in N(b, name) : TRUE
            BY <2>1, <4>2
          <5>3. r = s
            BY <2>1, <2>7
          <5>4. N(b, name) = {s}
            BY <2>1
          <5>5. QED
            BY <5>1, <5>3, <5>4
        <4>3. QED
          BY <4>1, <4>2
      <3>2. QED
        BY <2>4, <2>5, <2>7, <3>1
    <2>8. CASE name \in names /\ source = "cpaas"
      <3>1. ASSUME NEW b \in Build
            PROVE  {r.version : r \in kept[b]} = Versions(b, name)
        <4>1. CASE H(b) = {}
          <5>1. N(b, name) = {}
            BY <2>1, <4>1
          <5>2. kept[b] = {}
            BY <2>2, <2>8, <4>1
          <5>3. QED
            BY <5>1, <5>2
        <4>2. CASE H(b) # {}
          <5>1. PICK r \in H(b) : kept[b] = {r}
            BY <2>2, <2>8, <4>2
          <5>2. PICK s \in N(b, name) : TRUE
            BY <2>1, <4>2
          <5>3. r.version = s.version
            BY <2>1
          <5>4. N(b, name) = {s}
            BY <2>1
          <5>5. QED
            BY <5>1, <5>3, <5>4
        <4>3. QED
          BY <4>1, <4>2
      <3>2. QED
        BY <2>4, <2>5, <2>8, <3>1
    <2>9. QED
      BY <2>6, <2>7, <2>8
  <1>7. ReportTellsBuildsApart'
    <2>1. ASSUME NEW name
          PROVE  (\E row \in rows' : row.package = name) <=> name \in differ
      <3> DEFINE Row(n) == [package |-> n, control |-> c[n], test |-> t[n]]
      <3>1. rows' = {Row(n) : n \in differ}
        BY <1>1
      <3>2. \A n : Row(n).package = n
        OBVIOUS
      <3> HIDE DEF differ, Row
      <3>3. QED
        BY <3>1, <3>2
    <2>2. \A b \in Build : \A name : PassedOver(logs[b], name)' <=> PassedOver(logs[b], name)
      BY <1>2 DEF PassedOver, Newest, Everything, Counts, InstalledPackages
    <2>3. \A b, name : Newest(logs[b], name)' = N(b, name)
      BY <1>2 DEF Newest, Everything, InstalledPackages
    <2> HIDE DEF differ, N
    <2>4. SUFFICES ASSUME NEW name \in {r.name : r \in Rpm} \ IgnoredPackage,
                          \A b \in Build : ~PassedOver(logs[b], name)'
                   PROVE  \/ /\ source' # "cpaas"
                             /\ (\E row \in rows' : row.package = name)
                                = (N("control", name) # N("test", name))
                          \/ /\ source' = "cpaas"
                             /\ Versions("control", name) # Versions("test", name)
                                => \E row \in rows' : row.package = name
      BY <2>3, Zenon DEF ReportTellsBuildsApart
    <2>5. \A b \in Build : ~PassedOver(logs[b], name)
      BY <2>2, <2>4
    <2>6. CASE source = "cpaas"
      BY <1>2, <1>6, <2>1, <2>5, <2>6
    <2>7. CASE source # "cpaas"
      <3>1. (\E row \in rows' : row.package = name) <=> (N("control", name) # N("test", name))
        BY <1>6, <2>1, <2>5, <2>7
      <3>2. (\E row \in rows' : row.package = name) = (N("control", name) # N("test", name))
        BY <3>1, Zenon
      <3>3. QED
        BY <1>2, <2>7, <3>2
    <2>8. QED
      BY <2>6, <2>7
  <1>8. QED
    BY <1>5, <1>7 DEF BuildDiffIInv

LEMMA BuildDiffNextIInv == BuildDiffIInv /\ [BuildDiffNext]_diffVars => BuildDiffIInv'
  <1> SUFFICES ASSUME BuildDiffIInv, [BuildDiffNext]_diffVars
               PROVE  BuildDiffIInv'
    OBVIOUS
  <1>1. BuildDiffTypeOK
    BY DEF BuildDiffIInv
  <1>2. ASSUME diffAt' # "diffed", BuildDiffTypeOK'
        PROVE  BuildDiffIInv'
    BY <1>2 DEF BuildDiffIInv, ReportTellsBuildsApart
  <1>3. CASE GetTheNodes
    <2>1. PICK found \in [Build -> SUBSET NodeType] :
             LET even == found["control"] = found["test"] /\ found["control"] # {}
             IN /\ nodesLeft' = IF even THEN found["control"] ELSE {}
                /\ diffAt' = IF even THEN "control" ELSE "reported"
      BY <1>3 DEF GetTheNodes
    <2>2. UNCHANGED <<source, logs, rows>> /\ nodesLeft' \in SUBSET NodeType
          /\ diffAt' \in {"control", "reported"}
      BY <1>3, <2>1 DEF GetTheNodes, Build
    <2>3. QED
      BY <1>1, <1>2, <2>2 DEF BuildDiffTypeOK, BuildLog, NoLog
  <1>4. CASE LogsMissing
    BY <1>1, <1>2, <1>4 DEF LogsMissing, BuildDiffTypeOK, BuildLog, NoLog
  <1>5. CASE DiffPackages
    BY <1>1, <1>5, DiffPackagesStep
  <1>6. ASSUME NEW b \in Build, NEW host \in HostLog, NEW c \in [DOMAIN Listing -> ContainerLog],
               GetLogs(b, [host |-> host, containers |-> c])
        PROVE  BuildDiffIInv'
    <2> DEFINE log == [host |-> host, containers |-> c]
    <2>1. log \in BuildLog
      BY DEF BuildLog
    <2>2. logs' = [logs EXCEPT ![b] = log] /\ UNCHANGED <<source, nodesLeft, rows>>
          /\ diffAt' \in {"raised", "test", "diff"}
      BY <1>6 DEF GetLogs
    <2> HIDE DEF log
    <2>3. logs' \in [Build -> BuildLog \cup {NoLog}]
      BY <1>1, <2>1, <2>2 DEF BuildDiffTypeOK
    <2>4. QED
      BY <1>1, <1>2, <2>2, <2>3 DEF BuildDiffTypeOK, BuildLog, NoLog
  <1>7. ASSUME NEW node \in NodeType, NodeDone(node)
        PROVE  BuildDiffIInv'
    <2>1. logs' \in [Build -> BuildLog \cup {NoLog}]
      BY <1>7 DEF NodeDone
    <2>2. /\ source' = source /\ rows' = {} /\ nodesLeft' = nodesLeft \ {node}
          /\ diffAt' \in {"reported", "control"}
      BY <1>7 DEF NodeDone
    <2>3. QED
      BY <1>1, <1>2, <2>1, <2>2 DEF BuildDiffTypeOK, BuildLog, NoLog
  <1>8. CASE UNCHANGED diffVars
    <2>1. BuildDiffTypeOK'
      BY <1>1, <1>8 DEF diffVars, BuildDiffTypeOK, BuildLog, NoLog
    <2>2. /\ \A b, name : PassedOver(logs[b], name)' <=> PassedOver(logs[b], name)
          /\ \A b, name : Newest(logs[b], name)' = Newest(logs[b], name)
      BY <1>8 DEF diffVars, PassedOver, Newest, Everything, Counts, InstalledPackages
    <2>3. source' = source /\ diffAt' = diffAt /\ rows' = rows
      BY <1>8 DEF diffVars
    <2>4. ReportTellsBuildsApart'
      BY <2>2, <2>3 DEF ReportTellsBuildsApart, BuildDiffIInv
    <2>5. QED
      BY <2>1, <2>4 DEF BuildDiffIInv
  <1>9. QED
    BY <1>3, <1>4, <1>5, <1>6, <1>7, <1>8 DEF BuildDiffNext

LEMMA BuildDiffInvariant == BuildDiffSpec => []BuildDiffIInv
  BY BuildDiffInitIInv, BuildDiffNextIInv, PTL DEF BuildDiffSpec

(* In whatever order rpms are compared, the report tells two builds apart   *)
(* by the newest rpms they logged of each package, for any names, logs and  *)
(* containers, but for what containers that do not count alone have.        *)
THEOREM ReportIsOfTheNewest == BuildDiffSpec => []ReportTellsBuildsApart
  <1>1. BuildDiffIInv => ReportTellsBuildsApart
    BY DEF BuildDiffIInv
  <1>2. QED
    BY <1>1, BuildDiffInvariant, PTL

(***************************************************************************)
(* The programs side by side, as the runs of MCTools take them.  A step of *)
(* one is a step of it in its own specification and leaves the others, so  *)
(* that the inductive invariants of all of them hold together.             *)
(***************************************************************************)
ToolsIInv ==
    /\ tool \in Tool
    /\ ArtifactIInv
    /\ CleanupIInv /\ CleanupTypeOK
    /\ HolderIInv /\ HolderTypeOK
    /\ QuayIInv /\ CopyQuayTypeOK
    /\ StageIInv /\ TreesInv /\ ServesInv /\ StagingTypeOK
    /\ AggregateIInv
    /\ VoteReadersTypeOK
    /\ SettingsIInv
    /\ ContainerListIInv
    /\ BuildDiffIInv

LEMMA ToolsInitIInv == ToolsInit => ToolsIInv
  <1> SUFFICES ASSUME ToolsInit PROVE ToolsIInv
    OBVIOUS
  <1>1. /\ tool \in Tool /\ ArtifactInit /\ CleanupInit /\ HolderInit /\ CopyQuayInit
        /\ StagingInit /\ AggregateInit /\ VoteReadersInit /\ SettingsInit
        /\ ContainerListInit /\ BuildDiffInit
    BY DEF ToolsInit
  <1>2. QED
    BY <1>1, ArtifactInitIInv, CleanupInitIInv, CleanupTypeInit, HolderInitIInv,
       HolderTypeInit, QuayInitIInv, CopyQuayTypeInit, StageInitIInv, StageServesInit,
       StagingTypeInit, AggregateInitIInv, VoteReadersTypeInit, SettingsInitIInv,
       ContainerListInitIInv, BuildDiffInitIInv DEF ToolsIInv

(* A step of one program is one of its specification, or leaves it alone. *)
LEMMA ToolsStepOfEach ==
    ASSUME [ToolsNext]_toolsVars
    PROVE  /\ [ArtifactNext]_artifactVars /\ [CleanupNext]_cleanupVars
           /\ [HolderNext]_holderVars /\ [CopyQuayNext]_copyQuayVars
           /\ [StagingNext]_stageVars /\ [AggregateNext]_aggregateVars
           /\ [VoteReadersNext]_voteVars /\ [SettingsNext]_settingsVars
           /\ [ContainerListNext]_listVars /\ [BuildDiffNext]_diffVars
           /\ UNCHANGED tool
  <1>1. CASE Only("artifact") /\ ArtifactNext
    BY <1>1 DEF Only
  <1>2. CASE Only("cleanup") /\ CleanupNext
    BY <1>2 DEF Only
  <1>3. CASE Only("holder") /\ HolderNext
    BY <1>3 DEF Only
  <1>4. CASE Only("quay") /\ CopyQuayNext
    BY <1>4 DEF Only
  <1>5. CASE Only("staging") /\ StagingNext
    BY <1>5 DEF Only
  <1>6. CASE Only("aggregate") /\ AggregateNext
    BY <1>6 DEF Only
  <1>7. CASE Only("votes") /\ VoteReadersNext
    BY <1>7 DEF Only
  <1>8. CASE Only("settings") /\ SettingsNext
    BY <1>8 DEF Only
  <1>9. CASE Only("containers") /\ ContainerListNext
    BY <1>9 DEF Only
  <1>10. CASE Only("diff") /\ BuildDiffNext
    BY <1>10 DEF Only
  <1>11. CASE UNCHANGED toolsVars
    BY <1>11 DEF toolsVars
  <1>12. QED
    BY <1>1, <1>2, <1>3, <1>4, <1>5, <1>6, <1>7, <1>8, <1>9, <1>10, <1>11 DEF ToolsNext

LEMMA ToolsNextIInv ==
    ASSUME ToolsIInv, [ToolsNext]_toolsVars
    PROVE  ToolsIInv'
  <1>1. /\ tool' \in Tool
        /\ [ArtifactNext]_artifactVars /\ [CleanupNext]_cleanupVars
        /\ [HolderNext]_holderVars /\ [CopyQuayNext]_copyQuayVars
        /\ [StagingNext]_stageVars /\ [AggregateNext]_aggregateVars
        /\ [VoteReadersNext]_voteVars /\ [SettingsNext]_settingsVars
        /\ [ContainerListNext]_listVars /\ [BuildDiffNext]_diffVars
    BY ToolsStepOfEach DEF ToolsIInv
  <1>2. ArtifactIInv' /\ CleanupIInv' /\ CleanupTypeOK'
    BY <1>1, ArtifactNextIInv, CleanupNextIInv, CleanupTypeStep DEF ToolsIInv
  <1>3. HolderIInv' /\ HolderTypeOK' /\ QuayIInv' /\ CopyQuayTypeOK'
    BY <1>1, HolderNextIInv, HolderTypeStep, QuayNextIInv, CopyQuayTypeStep DEF ToolsIInv
  <1>4. StageIInv' /\ TreesInv' /\ ServesInv' /\ StagingTypeOK'
    BY <1>1, StageNextIInv, StageServesStep, StagingTypeStep DEF ToolsIInv
  <1>5. VoteReadersTypeOK'
    BY <1>1, VoteReadersTypeStep DEF ToolsIInv
  <1>6. AggregateIInv' /\ SettingsIInv' /\ ContainerListIInv' /\ BuildDiffIInv'
    BY <1>1, AggregateNextIInv, SettingsNextIInv, ContainerListNextIInv, BuildDiffNextIInv
       DEF ToolsIInv
  <1>7. QED
    BY <1>1, <1>2, <1>3, <1>4, <1>5, <1>6 DEF ToolsIInv

LEMMA ToolsInvariant == ToolsSpec => []ToolsIInv
  BY ToolsInitIInv, ToolsNextIInv, PTL DEF ToolsSpec

(* Every variable of every program keeps its type, for any constants.       *)
THEOREM ToolsType == ToolsSpec => []ToolsTypeOK
  <1>1. ToolsIInv => ToolsTypeOK
    BY DEF ToolsIInv, ToolsTypeOK, ArtifactIInv, AggregateIInv, SettingsIInv,
           ContainerListIInv, BuildDiffIInv
  <1>2. QED
    BY <1>1, ToolsInvariant, PTL

(* What the ten programs guarantee of artifacts, stacks, holds, images, the *)
(* stage, aggregates, votes, settings, lists and reports.                   *)
ToolsSafe ==
    /\ LabelNeverDangles /\ PartialOnlyAfterInterruption
    /\ LiveStackIsWhole
    /\ DeletionHitsOnlyWhatItListed
    /\ CurrentWasPromoted
    /\ TeardownIsComplete /\ AnnouncedStageServes /\ TeardownFindsDirectories
    /\ LabelsHoldTestedAggregates
    /\ DashboardAgreesWithPromoter
    /\ StartsWithItsRelease /\ ApiUrlLeadsToServer
    /\ SameListForEachLabel
    /\ ReportTellsBuildsApart

(* Every safety property of the programs holds of the specification TLC     *)
(* explores too, in which one of them runs and the others rest.             *)
THEOREM ToolsAreSafe == ToolsSpec => []ToolsSafe
  <1>1. ASSUME ToolsIInv
        PROVE  ToolsSafe
    <2>1. LabelNeverDangles /\ PartialOnlyAfterInterruption
      BY <1>1, PartialIsNotLabelled DEF ToolsIInv, ArtifactIInv
    <2>2. LiveStackIsWhole /\ DeletionHitsOnlyWhatItListed /\ CurrentWasPromoted
      BY <1>1 DEF ToolsIInv, CleanupIInv, HolderIInv, QuayIInv
    <2>3. TeardownIsComplete /\ AnnouncedStageServes /\ TeardownFindsDirectories
      BY <1>1, TreesAreFound, AnnouncedIsServing DEF ToolsIInv, StageIInv
    <2>4. LabelsHoldTestedAggregates
      BY <1>1, VotedAreTested DEF ToolsIInv
    <2>5. DashboardAgreesWithPromoter
      BY <1>1, ViewsAgree DEF ToolsIInv
    <2>6. StartsWithItsRelease /\ ApiUrlLeadsToServer
      BY <1>1, ReadyHasRelease, ApiUrlIsRight DEF ToolsIInv
    <2>7. SameListForEachLabel /\ ReportTellsBuildsApart
      BY <1>1, DoneListsAgree DEF ToolsIInv, BuildDiffIInv
    <2>8. QED
      BY <2>1, <2>2, <2>3, <2>4, <2>5, <2>6, <2>7 DEF ToolsSafe
  <1>2. QED
    BY <1>1, ToolsInvariant, PTL
=============================================================================
