----------------------------- MODULE ImageLinks -----------------------------
(***************************************************************************)
(* The promotion of the images of a hash to one label, call by call:       *)
(* QcowClient.promote (dlrnapi_promoter/qcow_client.py), and the same code *)
(* in dockerfile_client.py.  A label is a symbolic link to the directory   *)
(* of the hash, and "previous-" + label a link to the one it replaced.     *)
(*                                                                         *)
(* Every call to the file server may fail, and the run may be killed       *)
(* between two of them, any number of times.  When the client returns,     *)
(* DlrnClient.promote moves the label of DLRN, or fails.  Nothing but the  *)
(* links and the label outlives a run.                                     *)
(***************************************************************************)
EXTENDS Naturals

CONSTANTS
    Hash,      \* names of the directories of images: full_hash
    Nothing    \* no hash: None, or there is no such link

ASSUME NothingAssumption == Nothing \notin Hash

Maybe == Hash \cup {Nothing}

VARIABLES
    dirs,      \* the hashes whose images are on the server
    link,      \* where the link target_label leads
    previous,  \* where the link previous_label leads
    label,     \* the hash of the label at DLRN
    pc,        \* the next call of promote
    candidate, \* candidate_hash
    current,   \* current_hash
    former,    \* previous_hash
    (* History variables, which the code does not have: *)
    failed,    \* a call failed since promote was called
    clean,     \* promotions in a row without a failure, up to 2
    before     \* the hash of the label before it last moved

server  == <<dirs, link, previous, label>>
local   == <<candidate, current, former>>
history == <<failed, clean, before>>
vars    == <<dirs, link, previous, label, pc, candidate, current, former,
             failed, clean, before>>

TypeOK ==
    /\ dirs \subseteq Hash
    /\ {link, previous, label, candidate, current, former, before} \subseteq Maybe
    /\ pc \in {"idle", "stat", "readTarget", "removeTarget", "readPrevious",
               "removePrevious", "linkPrevious", "linkTarget", "returned"}
    /\ failed \in BOOLEAN
    /\ clean \in 0 .. 2
    /\ pc = "idle" <=> candidate = Nothing

(* The links may be there or not: nobody but an operator makes the first    *)
(* previous link.                                                           *)
Init ==
    /\ dirs \in SUBSET Hash
    /\ link \in dirs \cup {Nothing}
    /\ previous \in dirs \cup {Nothing}
    /\ label = link
    /\ before = previous
    /\ pc = "idle"
    /\ candidate = Nothing /\ current = Nothing /\ former = Nothing
    /\ failed = FALSE
    /\ clean = 2

-----------------------------------------------------------------------------
(* A build uploads its images. *)
Upload(h) ==
    /\ dirs' = dirs \cup {h}
    /\ UNCHANGED <<link, previous, label, pc, local, history>>

(* Mutant of Leave: the candidate of a run outlives it. *)
LeaveCandidate ==
    /\ pc' = "idle"
    /\ current' = Nothing /\ former' = Nothing
    /\ failed' = FALSE
    /\ UNCHANGED candidate

(* The end of a run, by an exception, a kill, or when all is done. *)
Leave ==
    /\ pc' = "idle"
    /\ candidate' = Nothing /\ current' = Nothing /\ former' = Nothing
    /\ failed' = FALSE

(* connect and chdir.  force-promote may ask for any hash, promote-all for  *)
(* one that the label has never held.                                       *)
Call(h) ==
    /\ pc = "idle"
    /\ pc' = "stat"
    /\ candidate' = h
    /\ UNCHANGED <<server, current, former, history>>

(* Mutant of Stat: the directory is not looked for. *)
StatNothing ==
    /\ pc = "stat"
    /\ pc' = "readTarget"
    /\ UNCHANGED <<server, local, history>>

(* Without its directory the candidate is refused: PromotionError. *)
Stat ==
    /\ pc = "stat"
    /\ \/ /\ candidate \in dirs
          /\ pc' = "readTarget"
          /\ UNCHANGED <<local, failed>>
       \/ /\ candidate \notin dirs
          /\ Leave
    /\ UNCHANGED <<server, clean, before>>

(***************************************************************************)
(* readlink(target_label).  An error is taken for "there is no link".      *)
(***************************************************************************)
ReadTarget ==
    /\ pc = "readTarget"
    /\ \/ /\ current' = link
          /\ UNCHANGED failed
       \/ /\ current' = Nothing
          /\ failed' = TRUE
    /\ pc' = IF current' = Nothing THEN "readPrevious" ELSE "removeTarget"
    /\ UNCHANGED <<server, candidate, former, clean, before>>

RemoveTarget ==
    /\ pc = "removeTarget"
    /\ link' = Nothing
    /\ pc' = "readPrevious"
    /\ UNCHANGED <<dirs, previous, label, local, history>>

(***************************************************************************)
(* readlink(previous_label).  The previous link is handled only if both    *)
(* links were there.                                                       *)
(***************************************************************************)
ReadPrevious ==
    /\ pc = "readPrevious"
    /\ \/ /\ former' = previous
          /\ UNCHANGED failed
       \/ /\ former' = Nothing
          /\ failed' = TRUE
    /\ pc' = IF current = Nothing \/ former' = Nothing THEN "linkTarget"
             ELSE "removePrevious"
    /\ UNCHANGED <<server, candidate, current, clean, before>>

RemovePrevious ==
    /\ pc = "removePrevious"
    /\ previous' = Nothing
    /\ pc' = "linkPrevious"
    /\ UNCHANGED <<dirs, link, label, local, history>>

(* Mutant of LinkPrevious: the arguments are mixed up. *)
LinkPreviousToFormer ==
    /\ pc = "linkPrevious"
    /\ previous' = former
    /\ pc' = "linkTarget"
    /\ UNCHANGED <<dirs, link, label, local, history>>

(* Mutant of LinkPrevious: the label is linked again, not the previous one. *)
LinkCurrentAgain ==
    /\ pc = "linkPrevious"
    /\ link' = current
    /\ pc' = "linkTarget"
    /\ UNCHANGED <<dirs, previous, label, local, history>>

LinkPrevious ==
    /\ pc = "linkPrevious"
    /\ previous' = current
    /\ pc' = "linkTarget"
    /\ UNCHANGED <<dirs, link, label, local, history>>

(* Mutant of LinkTarget: the arguments are mixed up. *)
LinkTargetToCurrent ==
    /\ pc = "linkTarget"
    /\ link' = IF link = Nothing THEN current ELSE link
    /\ failed' \in {failed, link # Nothing}
    /\ pc' = "returned"
    /\ UNCHANGED <<dirs, previous, label, local, clean, before>>

(***************************************************************************)
(* "Finally the effective promotion": the link is made, unless the call    *)
(* fails or there is a link already.  Either is logged, and promote goes   *)
(* on to announce a "Successful promotion".                                *)
(***************************************************************************)
LinkTarget ==
    /\ pc = "linkTarget"
    /\ \/ /\ link = Nothing
          /\ link' = candidate
          /\ UNCHANGED failed
       \/ /\ failed' = TRUE
          /\ UNCHANGED link
    /\ pc' = "returned"
    /\ UNCHANGED <<dirs, previous, label, local, clean, before>>

(* DlrnClient.promote, the last client: the label moves. *)
MoveLabel ==
    /\ pc = "returned"
    /\ label' = candidate
    /\ before' = IF label = Nothing THEN before ELSE label
    /\ clean' = IF failed THEN 0 ELSE IF clean = 0 THEN 1 ELSE 2
    /\ Leave
    /\ UNCHANGED <<dirs, link, previous>>

(***************************************************************************)
(* The exception of a call that is not caught - stat, remove, symlink of   *)
(* the previous link, or the next client -, or the timeout of the run.     *)
(***************************************************************************)
Abort ==
    /\ pc # "idle"
    /\ clean' = 0
    /\ Leave
    /\ UNCHANGED <<server, before>>

-----------------------------------------------------------------------------
Promote ==
    \/ Stat \/ ReadTarget \/ RemoveTarget
    \/ ReadPrevious \/ RemovePrevious \/ LinkPrevious \/ LinkTarget

Next ==
    \/ \E h \in Hash : Upload(h) \/ Call(h)
    \/ Promote \/ MoveLabel \/ Abort

Spec == Init /\ [][Next]_vars

-----------------------------------------------------------------------------
(***************************************************************************)
(* No link leads to a directory that is not there, whatever fails: a       *)
(* candidate without images is refused before anything is touched.         *)
(***************************************************************************)
NoDanglingLink == {link, previous} \subseteq dirs \cup {Nothing}

(***************************************************************************)
(* A promotion without a failure repairs the link, whatever the promotions *)
(* before it have left behind: the images are those of DLRN's label again. *)
(***************************************************************************)
LinkHeals == (pc = "idle" /\ clean > 0) => link = label

(***************************************************************************)
(* Two promotions in a row without a failure repair the fallback, if there *)
(* still is one: the previous link is the hash the label had before.  One  *)
(* is not enough: it saves the link that a failed run has left.            *)
(***************************************************************************)
FallbackHeals ==
    (pc = "idle" /\ clean = 2) => previous \in {before, Nothing}

(***************************************************************************)
(* The promise to the followers of the link and to the promoter: promote,  *)
(* call by call, implements module ImageClient.                            *)
(***************************************************************************)
Phase ==
    IF pc \in {"idle", "returned"} THEN pc ELSE "calling"

Abstract == INSTANCE ImageClient WITH phase <- Phase

ImplementsImageClient == Abstract!Spec

(***************************************************************************)
(* "Successful promotion", the log says when promote returns: the link     *)
(* leads to the candidate then.                                            *)
(***************************************************************************)
SuccessMeansLinked == pc = "returned" => link = candidate
=============================================================================
