------------------------ MODULE LabelPromotionProofs ------------------------
(***************************************************************************)
(* What holds of LabelPromotion for every set of hashes and jobs, every    *)
(* criteria, every window and every bound: its type invariant, that what   *)
(* the promoter promotes meets the criteria, that it examines the          *)
(* candidates from the newest, and, while the server returns the whole     *)
(* history of the label, that it only moves the label forward.             *)
(***************************************************************************)
EXTENDS LabelPromotion, DlrnPromotionsProofs

USE CriteriaAssumption, BoundsAssumption

-----------------------------------------------------------------------------
(* The criteria. *)

(* A set of jobs stands for the committed ones: it has each of them, or an *)
(* alternative in its place.                                               *)
StandsForCommitted(jobs) ==
    \A j \in Committed :
        \/ j \in jobs
        \/ \E i \in DOMAIN Alternatives[j] : Alternatives[j][i] \in jobs

(* Switching out criteria yields jobs. *)
LEMMA SwitchOutType ==
    ASSUME NEW jobs \in SUBSET Job, NEW successful \in SUBSET Job
    PROVE  SwitchOut(Alternatives, jobs, successful) \in SUBSET Job
BY DEF SwitchOut, FirstPassing

(***************************************************************************)
(* Switching out criteria leaves a set that stands for the committed jobs, *)
(* however often it was done before: a job is only removed in favour of an *)
(* alternative, and an alternative is never removed.                       *)
(***************************************************************************)
LEMMA SwitchOutStandsForCommitted ==
    ASSUME NEW jobs \in SUBSET Job, NEW successful \in SUBSET Job,
           StandsForCommitted(jobs)
    PROVE  StandsForCommitted(SwitchOut(Alternatives, jobs, successful))
<1> SUFFICES ASSUME NEW j \in Committed
             PROVE  \/ j \in SwitchOut(Alternatives, jobs, successful)
                    \/ \E i \in DOMAIN Alternatives[j] :
                          Alternatives[j][i] \in SwitchOut(Alternatives, jobs, successful)
  BY DEF StandsForCommitted
<1>1. CASE j \in jobs /\ j \notin Replaced(Alternatives, jobs, successful)
  BY <1>1 DEF SwitchOut
<1>2. CASE j \in jobs /\ j \in Replaced(Alternatives, jobs, successful)
  <2>1. PICK a \in FirstPassing(Alternatives, j, successful) : TRUE
    BY <1>2 DEF Replaced
  <2>2. a \in SwitchOut(Alternatives, jobs, successful)
    BY <1>2, <2>1 DEF SwitchOut, Replaced
  <2>3. \E i \in DOMAIN Alternatives[j] : Alternatives[j][i] = a
    BY <2>1 DEF FirstPassing
  <2>4. QED
    BY <2>2, <2>3
<1>3. CASE \E i \in DOMAIN Alternatives[j] : Alternatives[j][i] \in jobs
  <2>1. PICK i \in DOMAIN Alternatives[j] : Alternatives[j][i] \in jobs
    BY <1>3
  <2>2. Alternatives[Alternatives[j][i]] = << >>
    BY <2>1
  <2>3. FirstPassing(Alternatives, Alternatives[j][i], successful) = {}
    BY <2>2 DEF FirstPassing
  <2>4. Alternatives[j][i] \in SwitchOut(Alternatives, jobs, successful)
    BY <2>1, <2>3 DEF SwitchOut, Replaced
  <2>5. QED
    BY <2>1, <2>4
<1>4. QED
  BY <1>1, <1>2, <1>3 DEF StandsForCommitted

(* With no job missing from such a set, the criteria are met. *)
LEMMA NoneMissingMeets ==
    ASSUME NEW jobs, NEW successful,
           StandsForCommitted(jobs), jobs \ successful = {}
    PROVE  Meets(successful)
BY DEF StandsForCommitted, Meets, MeetsCriteria

(* Further votes do not undo what was met. *)
LEMMA MeetsMonotonic ==
    ASSUME NEW fewer, NEW more, fewer \subseteq more, Meets(fewer)
    PROVE  Meets(more)
BY DEF Meets, MeetsCriteria

-----------------------------------------------------------------------------
(* The inductive invariant. *)

Bounded ==
    /\ \A e \in candidates : e.ts <= clock
    /\ fetched \subseteq candidates
    /\ todo \subseteq fetched

(* A scan always has a candidate to examine. *)
ScanHasCandidate == pc = "scanning" => todo # {}

(* The candidate whose promotion is attempted was found to meet. *)
CurrentMeets == pc = "promoting" => Meets(votes[current.hash])

(* During a scan, what is as young as a candidate still to be examined is  *)
(* to be examined too, or was found to miss a job.                         *)
NoGap ==
    pc = "scanning" =>
        \A c \in fetched, t \in todo : t.ts <= c.ts =>
            \/ c \in todo
            \/ \E r \in report : r.entry = c /\ r.missing # {}

IInv ==
    /\ TypeOK
    /\ Bounded
    /\ ScanHasCandidate
    /\ StandsForCommitted(required)
    /\ CurrentMeets
    /\ PromotedMeetsCriteria
    /\ NoGap
    /\ NewestFirst

LEMMA InitIInv == Init => IInv
<1> SUFFICES ASSUME Init
             PROVE  IInv
  OBVIOUS
<1>1. TypeOK
  BY DEF Init, TypeOK
<1>2. StandsForCommitted(required)
  BY DEF Init, StandsForCommitted
<1>3. QED
  BY <1>1, <1>2 DEF Init, IInv, Bounded, ScanHasCandidate, CurrentMeets,
                    PromotedMeetsCriteria, NoGap, NewestFirst

-----------------------------------------------------------------------------
(* One lemma per action: the step keeps the invariant. *)

LEMMA NewCandidateStep ==
    ASSUME IInv, NEW h \in Hash, NewCandidate(h)
    PROVE  IInv'
<1> USE DEF NewCandidate, run, IInv
<1>1. TypeOK'
  BY DEF TypeOK, Promotion, User
<1>2. Bounded'
  BY DEF Bounded, TypeOK, Promotion
<1>3. PromotedMeetsCriteria' /\ CurrentMeets'
  BY DEF PromotedMeetsCriteria, CurrentMeets
<1>4. ScanHasCandidate' /\ StandsForCommitted(required)'
  BY DEF ScanHasCandidate, StandsForCommitted
<1>5. NoGap' /\ NewestFirst'
  BY DEF NoGap, NewestFirst
<1>6. QED
  BY <1>1, <1>2, <1>3, <1>4, <1>5

LEMMA VoteStep ==
    ASSUME IInv, NEW h \in Hash, NEW j \in Job, Vote(h, j)
    PROVE  IInv'
<1> USE DEF Vote, run, IInv
<1>1. TypeOK'
  BY DEF TypeOK
<1>2. \A k \in Hash : Meets(votes[k]) => Meets(votes'[k])
  <2> SUFFICES ASSUME NEW k \in Hash, Meets(votes[k])
               PROVE  Meets(votes'[k])
    OBVIOUS
  <2>1. votes[k] \subseteq votes'[k]
    BY DEF TypeOK
  <2>2. QED
    BY <2>1, MeetsMonotonic
<1>3. PromotedMeetsCriteria'
  <2> SUFFICES ASSUME NEW e \in target, e.user = "promoter"
               PROVE  Meets(votes'[e.hash])
    BY DEF PromotedMeetsCriteria
  <2>1. e.hash \in Hash
    BY DEF TypeOK, Promotion
  <2>2. QED
    BY <1>2, <2>1 DEF PromotedMeetsCriteria
<1>4. CurrentMeets'
  BY <1>2 DEF CurrentMeets, TypeOK, Promotion
<1>5. Bounded' /\ ScanHasCandidate' /\ StandsForCommitted(required)'
  BY DEF Bounded, ScanHasCandidate, StandsForCommitted
<1>6. NoGap' /\ NewestFirst'
  BY DEF NoGap, NewestFirst
<1>7. QED
  BY <1>1, <1>3, <1>4, <1>5, <1>6

LEMMA ForcePromoteStep ==
    ASSUME IInv, NEW h \in Hash, ForcePromote(h)
    PROVE  IInv'
<1> USE DEF ForcePromote, run, IInv
<1>1. TypeOK'
  BY DEF TypeOK, Promotion, User
<1>2. Bounded'
  BY DEF Bounded, TypeOK, Promotion
<1>3. PromotedMeetsCriteria' /\ CurrentMeets'
  BY DEF PromotedMeetsCriteria, CurrentMeets
<1>4. ScanHasCandidate' /\ StandsForCommitted(required)'
  BY DEF ScanHasCandidate, StandsForCommitted
<1>5. NoGap' /\ NewestFirst'
  BY DEF NoGap, NewestFirst
<1>6. QED
  BY <1>1, <1>2, <1>3, <1>4, <1>5

LEMMA FetchCandidatesStep ==
    ASSUME IInv, FetchCandidates
    PROVE  IInv'
<1> USE DEF FetchCandidates, server, IInv
<1>1. fetched' \subseteq candidates
  BY FetchedSubset
<1>2. TypeOK'
  BY <1>1 DEF TypeOK
<1>3. Bounded'
  BY <1>1 DEF Bounded
<1>4. StandsForCommitted(required)'
  BY DEF StandsForCommitted
<1>5. PromotedMeetsCriteria'
  BY DEF PromotedMeetsCriteria
<1>6. pc' \notin {"scanning", "promoting"}
  OBVIOUS
<1>7. QED
  BY <1>2, <1>3, <1>4, <1>5, <1>6
     DEF ScanHasCandidate, CurrentMeets, NoGap, NewestFirst

LEMMA SelectStep ==
    ASSUME IInv, Select
    PROVE  IInv'
<1> USE DEF Select, server, IInv
<1> DEFINE old == FetchPromotions(target, PromotionsLimit)
<1>1. todo' \subseteq fetched
  BY SelectedSubset
<1>2. TypeOK'
  BY <1>1 DEF TypeOK
<1>3. Bounded'
  BY <1>1 DEF Bounded
<1>4. StandsForCommitted(required)' /\ PromotedMeetsCriteria'
  BY DEF StandsForCommitted, PromotedMeetsCriteria
<1>5. ScanHasCandidate'
  BY DEF ScanHasCandidate
<1>6. pc' # "promoting"
  OBVIOUS
<1>7. NoGap'
  <2> SUFFICES ASSUME NEW c \in fetched, NEW t \in SelectCandidates(fetched, old),
                      t.ts <= c.ts
               PROVE  c \in SelectCandidates(fetched, old)
    BY DEF NoGap
  <2>1. fetched \subseteq Promotion
    BY DEF TypeOK
  <2> HIDE DEF old
  <2>2. QED
    BY <2>1, SelectedUpwardClosed
<1>8. QED
  BY <1>2, <1>3, <1>4, <1>5, <1>6, <1>7 DEF CurrentMeets, NewestFirst

LEMMA ExamineStep ==
    ASSUME IInv, Examine
    PROVE  IInv'
<1> USE DEF IInv
<1> DEFINE c          == Latest(todo)
           successful == votes[c.hash]
           missing    == SwitchOut(Alternatives, required, successful) \ successful
           row        == [entry |-> c, promoted |-> FALSE,
                          successful |-> successful, missing |-> missing]
<1>1. /\ c \in todo
      /\ \A d \in todo : d.ts <= c.ts
  <2>1. todo # {} /\ todo \subseteq Promotion /\ clock \in Nat
    BY DEF Examine, ScanHasCandidate, TypeOK
  <2>2. \A e \in todo : e.ts <= clock
    BY DEF Bounded
  <2>3. QED
    BY <2>1, <2>2, LatestOfList
<1>2. /\ c \in Promotion /\ c \in fetched
      /\ successful \in SUBSET Job
      /\ required \in SUBSET Job
  BY <1>1 DEF TypeOK, Bounded, Promotion
<1>3. /\ pc = "scanning"
      /\ required' = SwitchOut(Alternatives, required, successful)
      /\ report' = report \cup {row}
      /\ todo' = todo \ {c}
      /\ UNCHANGED <<candidates, target, clock, votes, fetched, faults>>
  BY DEF Examine, server
<1>4. \/ /\ missing # {}
         /\ pc' = IF todo' = {} THEN "idle" ELSE "scanning"
         /\ UNCHANGED current
      \/ /\ missing = {}
         /\ pc' = "promoting"
         /\ current' = c
  BY <1>3 DEF Examine
<1>5. StandsForCommitted(required)' /\ required' \in SUBSET Job
  <2>1. StandsForCommitted(SwitchOut(Alternatives, required, successful))
    BY <1>2, SwitchOutStandsForCommitted
  <2>2. SwitchOut(Alternatives, required, successful) \in SUBSET Job
    BY <1>2, SwitchOutType
  <2>3. QED
    BY <1>3, <2>1, <2>2 DEF StandsForCommitted
<1>6. TypeOK'
  <2>1. row \in Row
    BY <1>2, <1>3, <1>5 DEF Row
  <2> HIDE DEF c, row, successful, missing
  <2>2. QED
    BY <1>2, <1>3, <1>4, <1>5, <2>1 DEF TypeOK
<1>7. Bounded' /\ PromotedMeetsCriteria'
  BY <1>3 DEF Bounded, PromotedMeetsCriteria
<1>8. ScanHasCandidate'
  BY <1>4 DEF ScanHasCandidate
<1>9. CurrentMeets'
  <2> SUFFICES ASSUME pc' = "promoting"
               PROVE  Meets(votes'[current'.hash])
    BY DEF CurrentMeets
  <2>1. missing = {} /\ current' = c
    BY <1>4
  <2>2. Meets(successful)
    BY <1>3, <1>5, <2>1, NoneMissingMeets DEF StandsForCommitted
  <2>3. QED
    BY <1>3, <2>1, <2>2
<1>10. NoGap'
  <2> SUFFICES ASSUME pc' = "scanning", NEW d \in fetched, NEW t \in todo',
                      t.ts <= d.ts
               PROVE  \/ d \in todo'
                      \/ \E r \in report' : r.entry = d /\ r.missing # {}
    BY <1>3 DEF NoGap
  <2>1. missing # {}
    BY <1>4
  <2>2. CASE d = c
    <3>1. row.entry = d /\ row.missing # {}
      BY <2>1, <2>2
    <3>2. QED
      BY <1>3, <3>1
  <2>3. CASE d # c
    <3> HIDE DEF c, row
    <3> QED
      BY <1>3, <2>3 DEF NoGap
  <2>4. QED
    BY <2>2, <2>3
<1>11. NewestFirst'
  <2> SUFFICES ASSUME pc' = "promoting", NEW d \in fetched, d.ts > c.ts
               PROVE  \E r \in report' : r.entry = d /\ r.missing # {}
    BY <1>3, <1>4 DEF NewestFirst
  <2>1. d.ts \in Nat /\ c.ts \in Nat
    BY <1>2 DEF TypeOK, Promotion
  <2> HIDE DEF c, row
  <2>2. d \notin todo
    BY <1>1, <2>1
  <2>3. QED
    BY <1>1, <1>3, <2>1, <2>2 DEF NoGap
<1>12. QED
  BY <1>5, <1>6, <1>7, <1>8, <1>9, <1>10, <1>11

LEMMA PromoteSucceedsStep ==
    ASSUME IInv, PromoteSucceeds
    PROVE  IInv'
<1> USE DEF PromoteSucceeds, IInv
<1>1. current \in Promotion /\ pc' = "idle"
  BY DEF TypeOK
<1>2. report' \subseteq Row
  <2> SUFFICES ASSUME NEW r \in report
               PROVE  [r EXCEPT !.promoted = TRUE] \in Row
    BY DEF TypeOK
  <2> QED
    BY DEF TypeOK, Row
<1>3. TypeOK'
  BY <1>1, <1>2 DEF TypeOK, Promotion, User
<1>4. Bounded'
  BY DEF Bounded, TypeOK, Promotion
<1>5. PromotedMeetsCriteria'
  BY DEF PromotedMeetsCriteria, CurrentMeets
<1>6. StandsForCommitted(required)'
  BY DEF StandsForCommitted
<1>7. QED
  BY <1>1, <1>3, <1>4, <1>5, <1>6
     DEF ScanHasCandidate, CurrentMeets, NoGap, NewestFirst

LEMMA GiveUpStep ==
    ASSUME IInv, PromoteFails \/ Kill
    PROVE  IInv'
<1> USE DEF PromoteFails, Kill, server, IInv
<1>1. TypeOK' /\ pc' = "idle"
  BY DEF TypeOK
<1>2. Bounded' /\ PromotedMeetsCriteria' /\ StandsForCommitted(required)'
  BY DEF Bounded, PromotedMeetsCriteria, StandsForCommitted
<1>3. QED
  BY <1>1, <1>2 DEF ScanHasCandidate, CurrentMeets, NoGap, NewestFirst

LEMMA StutteringStep ==
    ASSUME IInv, UNCHANGED vars
    PROVE  IInv'
BY DEF vars, IInv, TypeOK, Bounded, ScanHasCandidate, StandsForCommitted,
       CurrentMeets, PromotedMeetsCriteria, NoGap, NewestFirst

-----------------------------------------------------------------------------
(* The theorems. *)

(* IInv is an invariant of the promotion of a label pair. *)
THEOREM Invariance == Spec => []IInv
<1>1. IInv /\ [Next]_vars => IInv'
  <2> SUFFICES ASSUME IInv, [Next]_vars
               PROVE  IInv'
    OBVIOUS
  <2>1. CASE Environment
    BY <2>1, NewCandidateStep, ForcePromoteStep, VoteStep DEF Environment
  <2>2. CASE FetchCandidates \/ Select \/ Examine
    BY <2>2, FetchCandidatesStep, SelectStep, ExamineStep
  <2>3. CASE PromoteSucceeds \/ PromoteFails \/ Kill
    BY <2>3, PromoteSucceedsStep, GiveUpStep
  <2>4. CASE UNCHANGED vars
    BY <2>4, StutteringStep
  <2>5. QED
    BY <2>1, <2>2, <2>3, <2>4 DEF Next
<1>2. QED
  BY InitIInv, <1>1, PTL DEF Spec

(* The variables keep their types. *)
THEOREM TypeCorrect == Spec => []TypeOK
<1>1. IInv => TypeOK
  BY DEF IInv
<1>2. QED
  BY Invariance, <1>1, PTL

(***************************************************************************)
(* Whatever the criteria, the alternatives, the order of the votes and the *)
(* candidates examined before, a hash that promote_label_to_label promotes *)
(* passed every committed job or one of its alternatives.                  *)
(***************************************************************************)
THEOREM PromotedMeets == Spec => []PromotedMeetsCriteria
<1>1. IInv => PromotedMeetsCriteria
  BY DEF IInv
<1>2. QED
  BY Invariance, <1>1, PTL

(***************************************************************************)
(* A candidate is never promoted past a newer one that was not examined in *)
(* the same run and found wanting, whatever the windows and histories.     *)
(***************************************************************************)
THEOREM NewestExaminedFirst == Spec => []NewestFirst
<1>1. IInv => NewestFirst
  BY DEF IInv
<1>2. QED
  BY Invariance, <1>1, PTL

-----------------------------------------------------------------------------
(***************************************************************************)
(* The history of the target label.  What follows assumes that the list of *)
(* promotions the server returns is the whole history (WindowCovers):      *)
(* beyond it, select_candidates cannot know what the label has held.       *)
(***************************************************************************)

WindowCovers == Newest(target, PromotionsLimit) = target

(* c is younger than every fetched candidate the target label has held;    *)
(* so it is none of them itself.                                           *)
YoungerThanHeld(c) ==
    \A d \in fetched : d.hash \in HashesOf(target) => d.ts < c.ts

HistoryInv ==
    /\ \A e \in target : e.ts <= clock
    /\ \A c \in fetched : c.hash \notin OldFormat
    /\ pc = "scanning" => \A c \in todo : YoungerThanHeld(c)
    /\ pc = "promoting" => current \in fetched /\ YoungerThanHeld(current)
    /\ NoRepromotion

LEMMA InitHistoryInv == Init => HistoryInv
BY DEF Init, HistoryInv, NoRepromotion

(* With the whole history at hand, the cut leaves nothing that the label   *)
(* has held, nor anything older.                                           *)
LEMMA SelectedAreYounger ==
    ASSUME IInv, HistoryInv, WindowCovers,
           NEW c \in SelectCandidates(fetched,
                                      FetchPromotions(target, PromotionsLimit))
    PROVE  YoungerThanHeld(c)
<1> SUFFICES ASSUME NEW d \in fetched, d.hash \in HashesOf(target)
             PROVE  d.ts < c.ts
  BY DEF YoungerThanHeld
<1>1. d.hash \notin OldFormat
  BY DEF HistoryInv
<1>2. d.hash \in HashesOf(FetchPromotions(target, PromotionsLimit))
  BY <1>1 DEF WindowCovers, FetchPromotions, HashesOf
<1>3. QED
  BY <1>2 DEF SelectCandidates

(* What is younger than all the label has held, the label has never held. *)
LEMMA CurrentNeverHeld ==
    ASSUME IInv, HistoryInv, pc = "promoting"
    PROVE  current.hash \notin HashesOf(target)
<1>1. current \in fetched /\ YoungerThanHeld(current) /\ current.ts \in Nat
  BY DEF HistoryInv, IInv, TypeOK, Promotion
<1>2. QED
  BY <1>1 DEF YoungerThanHeld

LEMMA EnvironmentKeepsHistory ==
    ASSUME IInv, HistoryInv, Environment
    PROVE  HistoryInv'
<1> USE DEF HistoryInv
<1>1. clock \in Nat /\ \A e \in target : e.ts \in Nat /\ e.ts <= clock
  BY DEF IInv, TypeOK, Promotion
<1>2. ASSUME NEW h \in Hash, NewCandidate(h)
      PROVE  HistoryInv'
  BY <1>1, <1>2 DEF NewCandidate, run, YoungerThanHeld, NoRepromotion
<1>3. ASSUME NEW h \in Hash, NEW j \in Job, Vote(h, j)
      PROVE  HistoryInv'
  BY <1>3 DEF Vote, run, YoungerThanHeld, NoRepromotion
<1>4. ASSUME NEW h \in Hash, ForcePromote(h)
      PROVE  HistoryInv'
  <2> DEFINE moved == [hash |-> h, ts |-> clock + 1, user |-> "operator"]
  <2>1. /\ target' = target \cup {moved} /\ clock' = clock + 1
        /\ pc' = "idle" /\ fetched' = fetched
    BY <1>4 DEF ForcePromote, run
  <2>2. NoRepromotion'
    <3> SUFFICES ASSUME NEW e \in target', NEW d \in target',
                        e.user = "promoter", d.hash = e.hash
                 PROVE  e.ts <= d.ts
      BY DEF NoRepromotion
    <3>1. e \in target
      BY <2>1
    <3>2. CASE d \in target
      BY <3>1, <3>2 DEF NoRepromotion
    <3>3. CASE d = moved
      BY <1>1, <3>1, <3>3
    <3>4. QED
      BY <2>1, <3>2, <3>3
  <2>3. \A e \in target' : e.ts <= clock'
    BY <1>1, <2>1
  <2>4. QED
    BY <2>1, <2>2, <2>3
<1>5. QED
  BY <1>2, <1>3, <1>4 DEF Environment

LEMMA RunKeepsHistory ==
    ASSUME IInv, HistoryInv, WindowCovers, FetchCandidates \/ Select \/ Examine
    PROVE  HistoryInv'
<1> USE DEF HistoryInv
<1>1. CASE FetchCandidates
  <2>1. \A c \in fetched' : c.hash \notin OldFormat
    BY <1>1 DEF FetchCandidates, FetchPromotions
  <2>2. QED
    BY <1>1, <2>1 DEF FetchCandidates, server, NoRepromotion
<1>2. CASE Select
  <2>1. \A c \in todo' : YoungerThanHeld(c)
    BY <1>2, SelectedAreYounger DEF Select
  <2>2. QED
    BY <1>2, <2>1 DEF Select, server, YoungerThanHeld, NoRepromotion
<1>3. CASE Examine
  <2>1. Latest(todo) \in todo
    <3>1. todo # {} /\ todo \subseteq Promotion /\ clock \in Nat
      BY <1>3 DEF Examine, IInv, ScanHasCandidate, TypeOK
    <3>2. \A e \in todo : e.ts <= clock
      BY DEF IInv, Bounded
    <3>3. QED
      BY <3>1, <3>2, LatestOfList
  <2>2. /\ pc = "scanning"
        /\ todo' \subseteq todo
        /\ pc' = "promoting" => current' = Latest(todo)
        /\ UNCHANGED <<target, clock, fetched>>
    BY <1>3 DEF Examine, server
  <2>3. todo \subseteq fetched /\ \A c \in todo : YoungerThanHeld(c)
    BY <2>2 DEF IInv, Bounded
  <2>4. QED
    BY <2>1, <2>2, <2>3 DEF YoungerThanHeld, NoRepromotion
<1>4. QED
  BY <1>1, <1>2, <1>3

LEMMA PromotionKeepsHistory ==
    ASSUME IInv, HistoryInv, PromoteSucceeds
    PROVE  HistoryInv'
<1> DEFINE moved == [hash |-> current.hash, ts |-> clock + 1,
                     user |-> "promoter"]
<1>1. /\ target' = target \cup {moved} /\ clock' = clock + 1
      /\ pc = "promoting" /\ pc' = "idle" /\ fetched' = fetched
  BY DEF PromoteSucceeds
<1>2. clock \in Nat /\ \A e \in target : e.ts \in Nat /\ e.ts <= clock
  BY DEF HistoryInv, IInv, TypeOK, Promotion
<1>3. current.hash \notin HashesOf(target)
  BY <1>1, CurrentNeverHeld
<1>4. NoRepromotion'
  <2> SUFFICES ASSUME NEW e \in target', NEW d \in target',
                      e.user = "promoter", d.hash = e.hash
               PROVE  e.ts <= d.ts
    BY DEF NoRepromotion
  <2>1. CASE e \in target /\ d \in target
    BY <2>1 DEF HistoryInv, NoRepromotion
  <2>2. CASE e \in target /\ d = moved
    BY <1>2, <2>2
  <2>3. CASE e = moved /\ d \in target
    BY <1>3, <2>3 DEF HashesOf
  <2>4. CASE e = moved /\ d = moved
    BY <1>2, <2>4
  <2>5. QED
    BY <1>1, <2>1, <2>2, <2>3, <2>4
<1>5. \A e \in target' : e.ts <= clock'
  BY <1>1, <1>2
<1>6. QED
  BY <1>1, <1>4, <1>5 DEF HistoryInv

LEMMA HistoryStep ==
    ASSUME IInv, HistoryInv, WindowCovers, [Next]_vars
    PROVE  HistoryInv'
<1>1. CASE PromoteFails \/ Kill
  BY <1>1 DEF PromoteFails, Kill, server, HistoryInv, NoRepromotion
<1>2. CASE UNCHANGED vars
  BY <1>2 DEF vars, HistoryInv, YoungerThanHeld, NoRepromotion
<1>3. QED
  BY <1>1, <1>2, EnvironmentKeepsHistory, RunKeepsHistory,
     PromotionKeepsHistory DEF Next

(***************************************************************************)
(* Whatever operators do between the runs of the promoter, it never gives  *)
(* the target label back a hash that the label has held before, as long as *)
(* the server returns the whole history of the label.                      *)
(***************************************************************************)
THEOREM NeverPromotedBack == Spec /\ []WindowCovers => []NoRepromotion
<1>1. HistoryInv => NoRepromotion
  BY DEF HistoryInv
<1>2. IInv /\ HistoryInv /\ WindowCovers /\ [Next]_vars => HistoryInv'
  BY HistoryStep
<1>3. QED
  BY InitHistoryInv, Invariance, <1>1, <1>2, PTL DEF Spec

(***************************************************************************)
(* Under the same condition, the hash that the promoter gives the label is *)
(* younger, as a candidate, than all the label has held.                   *)
(***************************************************************************)
THEOREM MovesForward == Spec /\ []WindowCovers => OnlyForward
<1> DEFINE Forward ==
      \A e \in target' \ target : e.user = "promoter" =>
          \A d \in fetched : d.hash \in HashesOf(target) => d.ts < current.ts
<1>1. IInv /\ HistoryInv /\ [Next]_vars => [Forward]_vars
  <2> SUFFICES ASSUME HistoryInv, Next, NEW e \in target' \ target,
                      e.user = "promoter", NEW d \in fetched,
                      d.hash \in HashesOf(target)
               PROVE  d.ts < current.ts
    OBVIOUS
  <2>1. PromoteSucceeds
    BY DEF Next, Environment, NewCandidate, Vote, ForcePromote, run,
           FetchCandidates, Select, Examine, PromoteFails, Kill, server
  <2>2. QED
    BY <2>1 DEF PromoteSucceeds, HistoryInv, YoungerThanHeld
<1>2. IInv /\ HistoryInv /\ WindowCovers /\ [Next]_vars => HistoryInv'
  BY HistoryStep
<1>3. QED
  BY InitHistoryInv, Invariance, <1>1, <1>2, PTL DEF Spec, OnlyForward
=============================================================================
