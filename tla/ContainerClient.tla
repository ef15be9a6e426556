--------------------------- MODULE ContainerClient ---------------------------
(***************************************************************************)
(* What the promotion of a label may do to the containers that carry the   *)
(* label, all registries taken together.  A promotion that is announced as *)
(* a success has brought every container to the candidate; whatever else   *)
(* happens, the containers are those of before, a mixture, or those of the *)
(* candidate.  Module Promoter relies on no more than this; module         *)
(* ContainerPush implements it.                                            *)
(***************************************************************************)
CONSTANTS
    Hash,        \* full_hash, the tag of the containers of a build
    Nothing,     \* no container has the label
    Mixed        \* some have it, or containers of several hashes

VARIABLES
    containers,  \* the hash whose containers have the label
    phase,       \* "idle", "calling" the client, or it has "returned"
    candidate    \* the hash to promote, or Nothing

Init ==
    /\ containers = Nothing
    /\ phase = "idle"
    /\ candidate = Nothing

Call(h) ==
    /\ phase # "calling"
    /\ phase' = "calling"
    /\ candidate' = h
    /\ UNCHANGED containers

Push ==
    /\ phase = "calling"
    /\ containers' \in {Mixed, candidate}
    /\ UNCHANGED <<phase, candidate>>

Succeed ==
    /\ phase = "calling" /\ containers = candidate
    /\ phase' = "returned"
    /\ UNCHANGED <<containers, candidate>>

(* PromotionError, or a kill. *)
Fail ==
    /\ phase = "calling"
    /\ phase' = "idle"
    /\ candidate' = Nothing
    /\ UNCHANGED containers

Next ==
    \/ \E h \in Hash : Call(h)
    \/ Push \/ Succeed \/ Fail

Spec == Init /\ [][Next]_<<containers, phase, candidate>>
=============================================================================
