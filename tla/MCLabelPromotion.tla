-------------------------- MODULE MCLabelPromotion --------------------------
(* The criteria of a label pair on a small instance, for TLC. *)
EXTENDS LabelPromotion

CONSTANTS h1, h2, h3, build, ovb, ovbInternal

(* Job "ovb" may be replaced by "ovbInternal", as in rdo/CentOS-9. *)
SomeAlternatives ==
    [j \in Job |-> IF j = ovb THEN <<ovbInternal>> ELSE << >>]

NoAlternatives == [j \in Job |-> << >>]
=============================================================================
