-------------------------- MODULE ImageLinksProofs --------------------------
(***************************************************************************)
(* What holds of the links of a label for any set of hashes, however often *)
(* calls fail: types, no dangling link, the two invariants that say how    *)
(* the links heal, and the implementation of ImageClient.                  *)
(***************************************************************************)
EXTENDS ImageLinks, TLAPS

(* Before promote has looked at the links. *)
Untouched == pc \in {"idle", "stat", "readTarget"}

(* Only directories that are on the server are read, and linked. *)
Sound ==
    /\ {link, previous, current, former} \subseteq dirs \cup {Nothing}
    /\ pc \notin {"idle", "stat"} => candidate \in dirs

(* The link, between the promotions and in one that meets no failure. *)
LinkInv ==
    /\ (Untouched /\ clean > 0) => link = label
    /\ (pc = "returned" /\ ~failed) => link = candidate

(* What the previous link must be once the label has moved. *)
NextBefore == IF label = Nothing THEN before ELSE label

(***************************************************************************)
(* The previous link on its way from what it was to the hash that is about *)
(* to be replaced, in a promotion that starts from a link on the label.    *)
(***************************************************************************)
FallbackInv ==
    /\ clean = 1 => label # Nothing
    /\ (pc \in {"idle", "stat", "readTarget", "removeTarget", "readPrevious"}
          /\ clean = 2) => previous \in {before, Nothing}
    /\ (~Untouched /\ ~failed /\ clean > 0) => current = label
    /\ pc \in {"removePrevious", "linkPrevious"} => current # Nothing
    /\ (pc \in {"linkTarget", "returned"} /\ ~failed /\ clean > 0) =>
          previous \in {NextBefore, Nothing}

IInv == TypeOK /\ Sound /\ LinkInv /\ FallbackInv

LEMMA InitIInv == Init => IInv
  <1> SUFFICES ASSUME Init PROVE IInv
    OBVIOUS
  <1> USE DEF Init, Maybe
  <1>1. TypeOK
    <2>1. {link, previous, label, candidate, current, former, before}
            \subseteq Maybe
      OBVIOUS
    <2>2. clean \in 0 .. 2
      OBVIOUS
    <2>3. failed \in BOOLEAN
      BY Zenon
    <2>4. QED
      BY <2>1, <2>2, <2>3 DEF TypeOK
  <1>2. Sound
    BY DEF Sound
  <1>3. LinkInv /\ FallbackInv
    BY DEF LinkInv, FallbackInv, Untouched
  <1>4. QED
    BY <1>1, <1>2, <1>3 DEF IInv

LEMMA UploadStep ==
    ASSUME IInv, NEW h \in Hash, Upload(h)
    PROVE  IInv'
  <1> USE DEF Upload, server, local, history
  <1>1. TypeOK'
    BY DEF IInv, TypeOK, Maybe
  <1>2. Sound'
    BY DEF IInv, Sound
  <1>3. LinkInv' /\ FallbackInv'
    BY DEF IInv, LinkInv, FallbackInv, Untouched, NextBefore
  <1>4. QED
    BY <1>1, <1>2, <1>3 DEF IInv

LEMMA CallStep ==
    ASSUME IInv, NEW h \in Hash, Call(h)
    PROVE  IInv'
  <1> USE DEF Call, server, local, history
  <1>1. TypeOK'
    BY NothingAssumption DEF IInv, TypeOK, Maybe
  <1>2. Sound'
    BY DEF IInv, Sound
  <1>3. LinkInv' /\ FallbackInv'
    BY DEF IInv, LinkInv, FallbackInv, Untouched, NextBefore
  <1>4. QED
    BY <1>1, <1>2, <1>3 DEF IInv

LEMMA StatStep ==
    ASSUME IInv, Stat
    PROVE  IInv'
  <1> USE DEF Stat, Leave, server, local, history
  <1>1. TypeOK'
    BY NothingAssumption DEF IInv, TypeOK, Maybe
  <1>2. Sound'
    BY DEF IInv, Sound
  <1>3. LinkInv' /\ FallbackInv'
    BY DEF IInv, LinkInv, FallbackInv, Untouched, NextBefore
  <1>4. QED
    BY <1>1, <1>2, <1>3 DEF IInv

LEMMA ReadTargetStep ==
    ASSUME IInv, ReadTarget
    PROVE  IInv'
  <1> USE DEF ReadTarget, server, local, history
  <1>1. TypeOK'
    BY NothingAssumption DEF IInv, TypeOK, Maybe
  <1>2. Sound'
    BY DEF IInv, Sound
  <1>3. LinkInv' /\ FallbackInv'
    BY DEF IInv, LinkInv, FallbackInv, Untouched, NextBefore
  <1>4. QED
    BY <1>1, <1>2, <1>3 DEF IInv

LEMMA RemoveTargetStep ==
    ASSUME IInv, RemoveTarget
    PROVE  IInv'
  <1> USE DEF RemoveTarget, server, local, history
  <1>1. TypeOK'
    BY NothingAssumption DEF IInv, TypeOK, Maybe
  <1>2. Sound'
    BY DEF IInv, Sound
  <1>3. LinkInv' /\ FallbackInv'
    BY DEF IInv, LinkInv, FallbackInv, Untouched, NextBefore
  <1>4. QED
    BY <1>1, <1>2, <1>3 DEF IInv

(* The fallback of a label that has no link is the one it had: previous is  *)
(* not touched then, and clean is 2 because the label has never moved.      *)
LEMMA ReadPreviousStep ==
    ASSUME IInv, ReadPrevious
    PROVE  IInv'
  <1> USE DEF ReadPrevious, server, local, history
  <1>1. TypeOK'
    BY NothingAssumption DEF IInv, TypeOK, Maybe
  <1>2. Sound'
    BY DEF IInv, Sound
  <1>3. LinkInv'
    BY DEF IInv, LinkInv, Untouched
  <1>4. FallbackInv'
    <2>1. CASE pc' = "removePrevious"
      BY <2>1 DEF IInv, FallbackInv, Untouched, NextBefore
    <2>2. CASE pc' = "linkTarget" /\ ~failed' /\ clean > 0
      <3>1. former' = previous /\ current = label
        BY <2>2 DEF IInv, FallbackInv, Untouched
      <3>2. label = Nothing => clean = 2
        BY <2>2 DEF IInv, FallbackInv, TypeOK
      <3>3. previous \in {NextBefore, Nothing}
        BY <2>2, <3>1, <3>2 DEF IInv, FallbackInv, NextBefore
      <3>4. QED
        BY <2>2, <3>1, <3>3 DEF IInv, FallbackInv, NextBefore, Untouched
    <2>3. CASE pc' = "linkTarget" /\ ~(~failed' /\ clean > 0)
      BY <2>3 DEF IInv, FallbackInv, Untouched
    <2>4. QED
      BY <2>1, <2>2, <2>3
  <1>5. QED
    BY <1>1, <1>2, <1>3, <1>4 DEF IInv

LEMMA RemovePreviousStep ==
    ASSUME IInv, RemovePrevious
    PROVE  IInv'
  <1> USE DEF RemovePrevious, server, local, history
  <1>1. TypeOK'
    BY NothingAssumption DEF IInv, TypeOK, Maybe
  <1>2. Sound'
    BY DEF IInv, Sound
  <1>3. LinkInv' /\ FallbackInv'
    BY DEF IInv, LinkInv, FallbackInv, Untouched, NextBefore
  <1>4. QED
    BY <1>1, <1>2, <1>3 DEF IInv

LEMMA LinkPreviousStep ==
    ASSUME IInv, LinkPrevious
    PROVE  IInv'
  <1> USE DEF LinkPrevious, server, local, history
  <1>1. TypeOK'
    BY NothingAssumption DEF IInv, TypeOK, Maybe
  <1>2. Sound'
    BY DEF IInv, Sound
  <1>3. LinkInv' /\ FallbackInv'
    BY DEF IInv, LinkInv, FallbackInv, Untouched, NextBefore
  <1>4. QED
    BY <1>1, <1>2, <1>3 DEF IInv

LEMMA LinkTargetStep ==
    ASSUME IInv, LinkTarget
    PROVE  IInv'
  <1> USE DEF LinkTarget, server, local, history
  <1>1. TypeOK'
    BY NothingAssumption DEF IInv, TypeOK, Maybe
  <1>2. Sound'
    BY DEF IInv, Sound
  <1>3. LinkInv' /\ FallbackInv'
    BY DEF IInv, LinkInv, FallbackInv, Untouched, NextBefore
  <1>4. QED
    BY <1>1, <1>2, <1>3 DEF IInv

(* The two ends of a run: here the links must be what the history says. *)
LEMMA MoveLabelStep ==
    ASSUME IInv, MoveLabel
    PROVE  IInv'
  <1> USE DEF MoveLabel, Leave
  <1>1. TypeOK'
    <2>1. TypeOK
      BY DEF IInv
    <2>2. {link, previous, label, candidate, current, former, before}'
            \subseteq Maybe
      BY <2>1 DEF TypeOK, Maybe
    <2>3. clean' \in 0 .. 2
      BY <2>1 DEF TypeOK
    <2>4. failed' \in BOOLEAN
      BY Zenon
    <2>5. QED
      BY <2>1, <2>2, <2>3, <2>4 DEF TypeOK
  <1>2. Sound'
    BY DEF IInv, Sound
  <1>3. LinkInv'
    BY DEF IInv, LinkInv, Untouched
  <1>4. candidate # Nothing /\ clean \in 0 .. 2
    BY DEF IInv, TypeOK
  <1>5. clean' = 2 => ~failed /\ clean > 0
    BY <1>4
  <1>6. before' = NextBefore
    BY DEF NextBefore
  <1>7. FallbackInv'
    BY <1>4, <1>5, <1>6 DEF IInv, FallbackInv, Untouched
  <1>8. QED
    BY <1>1, <1>2, <1>3, <1>7 DEF IInv

LEMMA AbortStep ==
    ASSUME IInv, Abort
    PROVE  IInv'
  <1> USE DEF Abort, Leave, server
  <1>1. TypeOK'
    <2>1. TypeOK
      BY DEF IInv
    <2>2. {link, previous, label, candidate, current, former, before}'
            \subseteq Maybe
      BY <2>1 DEF TypeOK, Maybe
    <2>3. clean' \in 0 .. 2
      OBVIOUS
    <2>4. failed' \in BOOLEAN
      BY Zenon
    <2>5. QED
      BY <2>1, <2>2, <2>3, <2>4 DEF TypeOK
  <1>2. Sound'
    BY DEF IInv, Sound
  <1>3. LinkInv' /\ FallbackInv'
    BY DEF IInv, LinkInv, FallbackInv, Untouched
  <1>4. QED
    BY <1>1, <1>2, <1>3 DEF IInv

LEMMA StutteringStep ==
    ASSUME IInv, UNCHANGED vars
    PROVE  IInv'
  BY DEF IInv, TypeOK, Maybe, Sound, LinkInv, FallbackInv, Untouched,
         NextBefore, vars

(* The invariant of all the theorems below. *)
THEOREM LinksInvariant == Spec => []IInv
  <1>1. Init => IInv
    BY InitIInv
  <1>2. IInv /\ [Next]_vars => IInv'
    BY UploadStep, CallStep, StatStep, ReadTargetStep, RemoveTargetStep,
       ReadPreviousStep, RemovePreviousStep, LinkPreviousStep, LinkTargetStep,
       MoveLabelStep, AbortStep, StutteringStep DEF Next, Promote
  <1>3. QED
    BY <1>1, <1>2, PTL DEF Spec

(* The variables of ImageLinks keep their types (QcowClient.promote). *)
THEOREM LinksTypeCorrect == Spec => []TypeOK
  <1>1. IInv => TypeOK
    BY DEF IInv
  <1>2. QED
    BY <1>1, LinksInvariant, PTL

(* No link leads to a missing directory (the stat of QcowClient.promote). *)
THEOREM LinksNotDangling == Spec => []NoDanglingLink
  <1>1. IInv => NoDanglingLink
    BY DEF IInv, Sound, NoDanglingLink
  <1>2. QED
    BY <1>1, LinksInvariant, PTL

(***************************************************************************)
(* One promotion without a failure brings the link back to DLRN's label,   *)
(* after any number of failures anywhere (QcowClient.promote).             *)
(***************************************************************************)
THEOREM LinkIsRepaired == Spec => []LinkHeals
  <1>1. IInv => LinkHeals
    BY DEF IInv, LinkInv, Untouched, LinkHeals
  <1>2. QED
    BY <1>1, LinksInvariant, PTL

(***************************************************************************)
(* Two in a row bring the fallback back, unless its link has gone          *)
(* (QcowClient.promote, "Check if a previous link exists").                *)
(***************************************************************************)
THEOREM FallbackIsRepaired == Spec => []FallbackHeals
  <1>1. IInv => FallbackHeals
    BY DEF IInv, FallbackInv, FallbackHeals
  <1>2. QED
    BY <1>1, LinksInvariant, PTL

-----------------------------------------------------------------------------
(* One lemma for each step that the followers of the link can see. *)

LEMMA InitAbstract == Init => Abstract!Init
  BY DEF Init, Abstract!Init, Phase

(* What a step of promote is for ImageClient. *)
LEMMA StepAbstract ==
    ASSUME IInv, [Next]_vars
    PROVE  [Abstract!Next]_<<link, Phase, candidate>>
  <1> USE DEF Phase, server, local, history
  <1>1. ASSUME NEW h \in Hash, Upload(h)
        PROVE  UNCHANGED <<link, Phase, candidate>>
    BY <1>1 DEF Upload
  <1>2. ASSUME NEW h \in Hash, Call(h)
        PROVE  Abstract!Call(h)
    BY <1>2 DEF Call, Abstract!Call
  <1>3. CASE Stat
    <2>1. CASE candidate \in dirs
      BY <1>3, <2>1 DEF Stat
    <2>2. CASE candidate \notin dirs
      <3>1. Abstract!Leave
        BY <1>3, <2>2 DEF Stat, Leave, Abstract!Leave
      <3>2. QED
        BY <3>1 DEF Abstract!Next
    <2>3. QED
      BY <2>1, <2>2
  <1>4. CASE ReadTarget
    BY <1>4 DEF ReadTarget
  <1>5. CASE RemoveTarget
    <2>1. Abstract!Unlink
      BY <1>5 DEF RemoveTarget, Abstract!Unlink
    <2>2. QED
      BY <2>1 DEF Abstract!Next
  <1>6. CASE ReadPrevious
    BY <1>6 DEF ReadPrevious
  <1>7. CASE RemovePrevious \/ LinkPrevious
    BY <1>7 DEF RemovePrevious, LinkPrevious
  <1>8. CASE LinkTarget
    <2>1. Abstract!Link \/ Abstract!GiveUpSilently
      BY <1>8 DEF LinkTarget, Abstract!Link, Abstract!GiveUpSilently
    <2>2. QED
      BY <2>1 DEF Abstract!Next
  <1>9. CASE MoveLabel \/ Abort
    <2>1. Abstract!Leave
      BY <1>9 DEF MoveLabel, Abort, Leave, Abstract!Leave
    <2>2. QED
      BY <2>1 DEF Abstract!Next
  <1>10. CASE UNCHANGED vars
    BY <1>10 DEF vars
  <1>11. QED
    BY <1>1, <1>2, <1>3, <1>4, <1>5, <1>6, <1>7, <1>8, <1>9, <1>10
       DEF Next, Promote, Abstract!Next

(***************************************************************************)
(* QcowClient.promote, call by call, keeps the promise of ImageClient: a   *)
(* link goes away before it comes back, and comes back on the candidate.   *)
(***************************************************************************)
THEOREM LinksImplementImageClient == Spec => ImplementsImageClient
  <1>1. Init => Abstract!Init
    BY InitAbstract
  <1>2. IInv /\ [Next]_vars => [Abstract!Next]_<<link, Phase, candidate>>
    BY StepAbstract
  <1>3. QED
    BY <1>1, <1>2, LinksInvariant, PTL
       DEF Spec, ImplementsImageClient, Abstract!Spec
=============================================================================
