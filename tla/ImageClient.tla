----------------------------- MODULE ImageClient -----------------------------
(***************************************************************************)
(* What the promotion of a label may do to the link of that label on an    *)
(* image server, as those who follow the link see it: the link is taken    *)
(* away before it comes back, it comes back on the candidate only, and at  *)
(* any point the client may give up, aloud or silently.  Module Promoter   *)
(* relies on no more than this; module ImageLinks implements it.           *)
(***************************************************************************)
CONSTANTS
    Hash,      \* names of the directories of images: full_hash
    Nothing    \* there is no link

VARIABLES
    link,      \* what the link of the label leads to
    phase,     \* "idle", "calling" the client, or it has "returned"
    candidate  \* the hash to promote, or Nothing

Init ==
    /\ link \in Hash \cup {Nothing}
    /\ phase = "idle"
    /\ candidate = Nothing

Call(h) ==
    /\ phase = "idle"
    /\ phase' = "calling"
    /\ candidate' = h
    /\ UNCHANGED link

Unlink ==
    /\ phase = "calling"
    /\ link' = Nothing
    /\ UNCHANGED <<phase, candidate>>

Link ==
    /\ phase = "calling" /\ link = Nothing
    /\ link' = candidate
    /\ phase' = "returned"
    /\ UNCHANGED candidate

(* The caller takes this for a success. *)
GiveUpSilently ==
    /\ phase = "calling"
    /\ phase' = "returned"
    /\ UNCHANGED <<link, candidate>>

(* An exception or a kill, or the caller goes on to the next client. *)
Leave ==
    /\ phase # "idle"
    /\ phase' = "idle"
    /\ candidate' = Nothing
    /\ UNCHANGED link

Next ==
    \/ \E h \in Hash : Call(h)
    \/ Unlink \/ Link \/ GiveUpSilently \/ Leave

Spec == Init /\ [][Next]_<<link, phase, candidate>>
=============================================================================
