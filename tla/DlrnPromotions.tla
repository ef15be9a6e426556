--------------------------- MODULE DlrnPromotions ---------------------------
(***************************************************************************)
(* What the promoter reads from a DLRN server: the promotion history of a  *)
(* label, and the choice of candidates made from two histories             *)
(* (ci-scripts/dlrnapi_promoter: dlrn_client.py and logic.py).             *)
(*                                                                         *)
(* A history is a set of promotions.  The server stamps every promotion    *)
(* with its own clock and lists a label's promotions from the newest to    *)
(* the oldest, so the order of a list is the order of the timestamps and   *)
(* needs no sequence.  A hash may be promoted to one label several times:  *)
(* each time is a promotion of its own.                                    *)
(***************************************************************************)
EXTENDS Naturals, FiniteSets

CONSTANTS
    Hash,       \* the hashes built by DLRN (full_hash)
    OldFormat   \* those whose extended_hash is in the old, short format

ASSUME OldFormatAssumption == OldFormat \subseteq Hash

(***************************************************************************)
(* "user" is who made the call: the component pipeline that gives a build  *)
(* its candidate label, the promoter, or a person (force-promote, dlrnapi).*)
(***************************************************************************)
User == {"pipeline", "promoter", "operator"}

Promotion == [hash : Hash, ts : Nat \ {0}, user : User]

-----------------------------------------------------------------------------
(* The answer to api_promotions_get with a limit: the newest ones. *)
Newest(history, limit) ==
    {e \in history : Cardinality({d \in history : d.ts > e.ts}) < limit}

(* hashes_to_hashes drops the old format after the server applied the limit. *)
FetchPromotions(history, limit) ==
    {e \in Newest(history, limit) : e.hash \notin OldFormat}

(* The last element of a non-empty list.  Also the mutant of Latest: a list *)
(* sorted the wrong way round.                                              *)
OldestOf(list) == CHOOSE e \in list : \A d \in list : d.ts >= e.ts

(* The first element of a non-empty list. *)
Latest(list) == CHOOSE e \in list : \A d \in list : d.ts <= e.ts

HashesOf(list) == {e.hash : e \in list}

(* Mutant of SelectCandidates: the slice keeps the hash it was cut at. *)
SelectThroughLatest(candidates, old) ==
    {c \in candidates :
        \A d \in candidates : d.hash \in HashesOf(old) => d.ts <= c.ts}

(* Mutant of SelectCandidates: only the label's newest hash is looked for. *)
SelectAfterCurrent(candidates, old) ==
    {c \in candidates :
        \A d \in candidates :
            (old # {} /\ d.hash = Latest(old).hash) => d.ts < c.ts}

(***************************************************************************)
(* select_candidates cuts the list of candidates at the first one that the *)
(* target label has ever held, and keeps what comes before it.  Hashes of  *)
(* the target that are not candidates are ignored.                         *)
(***************************************************************************)
SelectCandidates(candidates, old) ==
    {c \in candidates :
        \A d \in candidates : d.hash \in HashesOf(old) => d.ts < c.ts}
=============================================================================
