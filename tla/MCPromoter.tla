----------------------------- MODULE MCPromoter -----------------------------
(* A release with two chained target labels, for TLC. *)
EXTENDS Promoter, TLC

CONSTANTS h1, h2, h3, build, ovb, ovbInternal, testing, tripleo, rdo

(* tripleo-ci-testing -> current-tripleo -> current-tripleo-rdo. *)
Chain == <<tripleo, rdo>>

ChainCandidates == [t \in {tripleo, rdo} |-> IF t = rdo THEN tripleo ELSE testing]

(* All the jobs that have no alternative are required for the first label, *)
(* and one of them for the next.                                           *)
ChainCriteria ==
    [t \in Target |-> IF t = tripleo THEN Job \ {ovbInternal} ELSE {ovb}]

(* Job "ovb" may be replaced by "ovbInternal", for the first label. *)
SomeAlternatives ==
    [t \in Target |->
        [j \in Job |-> IF t = tripleo /\ j = ovb THEN <<ovbInternal>> ELSE << >>]]

(* The hashes are interchangeable: nothing orders or names them. *)
Hashes == Permutations({h1, h2})
=============================================================================
