------------------------ MODULE DlrnPromotionsProofs ------------------------
(***************************************************************************)
(* Facts about the lists of promotions, for the proofs of the modules that *)
(* use DlrnPromotions.                                                     *)
(***************************************************************************)
EXTENDS DlrnPromotions, InductionFacts

-----------------------------------------------------------------------------
(* Lists are sets of promotions with timestamps: a non-empty list whose    *)
(* timestamps are bounded has a latest element.                            *)

(* Latest picks an element of the list, and none is younger. *)
LEMMA LatestOfList ==
    ASSUME NEW list, list # {}, list \subseteq Promotion,
           NEW bound \in Nat, \A e \in list : e.ts <= bound
    PROVE  /\ Latest(list) \in list
           /\ \A d \in list : d.ts <= Latest(list).ts
<1> DEFINE Ages == {bound - e.ts : e \in list}
<1>1. \A e \in list : e.ts \in Nat
  BY DEF Promotion
<1>2. Ages \subseteq Nat /\ Ages # {}
  BY <1>1
<1>3. PICK a \in Ages : \A b \in Ages : a <= b
  <2> HIDE DEF Ages
  <2> QED
    BY <1>2, LeastNatural
<1>4. PICK e \in list : a = bound - e.ts
  OBVIOUS
<1>5. \A d \in list : d.ts <= e.ts
  <2> SUFFICES ASSUME NEW d \in list
               PROVE  d.ts <= e.ts
    OBVIOUS
  <2>1. bound - d.ts \in Ages
    OBVIOUS
  <2>2. a <= bound - d.ts
    BY <1>3, <2>1
  <2>3. QED
    BY <1>1, <1>4, <2>2
<1>6. QED
  BY <1>5 DEF Latest

(* What is fetched was promoted, and what is selected was fetched. *)
LEMMA FetchedSubset ==
    ASSUME NEW history, NEW limit
    PROVE  FetchPromotions(history, limit) \subseteq history
BY DEF FetchPromotions, Newest

LEMMA SelectedSubset ==
    ASSUME NEW list, NEW old
    PROVE  SelectCandidates(list, old) \subseteq list
BY DEF SelectCandidates

(* The cut leaves no gap: what is younger than a selected candidate is     *)
(* selected.                                                               *)
LEMMA SelectedUpwardClosed ==
    ASSUME NEW list, list \subseteq Promotion, NEW old,
           NEW c \in SelectCandidates(list, old),
           NEW d \in list, c.ts <= d.ts
    PROVE  d \in SelectCandidates(list, old)
<1>1. \A e \in list : e.ts \in Nat
  BY DEF Promotion
<1>2. QED
  BY <1>1 DEF SelectCandidates

(* With a limit of 1, the answer holds the latest promotion of a history,  *)
(* and nothing older.                                                      *)
LEMMA NewestIsLatest ==
    ASSUME NEW history, history \subseteq Promotion, IsFiniteSet(history),
           NEW e \in Newest(history, 1)
    PROVE  \A d \in history : d.ts <= e.ts
<1> DEFINE Younger == {d \in history : d.ts > e.ts}
<1>1. IsFiniteSet(Younger)
  BY FS_Subset
<1>2. Cardinality(Younger) < 1
  BY DEF Newest
<1>3. Cardinality(Younger) = 0
  BY <1>1, <1>2, FS_CardinalityType
<1>4. Younger = {}
  BY <1>1, <1>3, FS_EmptySet
<1>5. e \in Promotion /\ \A d \in history : d.ts \in Nat
  BY DEF Newest, Promotion
<1>6. QED
  BY <1>4, <1>5 DEF Promotion

(* The answer is not empty if the history is not. *)
LEMMA NewestNotEmpty ==
    ASSUME NEW history, history # {}, history \subseteq Promotion,
           NEW bound \in Nat, \A e \in history : e.ts <= bound
    PROVE  Newest(history, 1) # {}
<1>1. /\ Latest(history) \in history
      /\ \A d \in history : d.ts <= Latest(history).ts
  BY LatestOfList
<1>2. {d \in history : d.ts > Latest(history).ts} = {}
  BY <1>1 DEF Promotion
<1>3. Cardinality({d \in history : d.ts > Latest(history).ts}) = 0
  BY <1>2, FS_EmptySet
<1>4. QED
  BY <1>1, <1>3 DEF Newest
=============================================================================
