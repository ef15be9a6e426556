----------------------------- MODULE NodeHolder -----------------------------
(* node_holder.py: engineers add autohold requests to Zuul for a job of a     *)
(* patch and delete them again, by the URL of the patch or by the id of the   *)
(* request.  A deletion lists the requests of the tenant first and deletes    *)
(* those that match one call at a time, while the others and Zuul go on.      *)
EXTENDS Naturals

CONSTANTS
    User,           (* engineers who run the script                           *)
    Change,         (* numbers of patches                                     *)
    NumberIn,       (* <<c, d>>: the digits of c occur in the digits of d     *)
    LayoutJobs,     (* the check jobs in the Zuul layout of each patch        *)
    Job,
    MaxHold         (* requests Zuul accepts in a run of TLC                  *)

ASSUME NodeHolderAssumption ==
    /\ NumberIn \subseteq Change \X Change
    /\ \A c \in Change : <<c, c>> \in NumberIn
    /\ LayoutJobs \in [Change -> SUBSET Job]
    /\ MaxHold \in Nat

(* The gerrits, and the tenants of the sections of client.conf they select.   *)
Gerrit == {"rdo", "downstream"}

Hold == [id : 1..MaxHold, tenant : Gerrit, change : Change, job : Job]

VARIABLES
    autohold,     (* the requests Zuul keeps                                  *)
    lastId,       (* the id of the newest one                                 *)
    toRemove,     (* for each user, the ids the running deletion has found    *)
    asked,        (* for each user, the patch the deletion is for             *)
    listedUpTo    (* for each user, the newest id when the list was fetched   *)

holderVars == <<autohold, lastId, toRemove, asked, listedUpTo>>

HolderTypeOK ==
    /\ autohold \in SUBSET Hold
    /\ lastId \in 0..MaxHold
    /\ toRemove \in [User -> SUBSET (1..MaxHold)]
    /\ asked \in [User -> Gerrit \X Change]
    /\ listedUpTo \in [User -> 0..MaxHold]

HolderInit ==
    /\ autohold = {}
    /\ lastId = 0
    /\ toRemove = [u \in User |-> {}]
    /\ asked \in {[u \in User |-> patch] : patch \in Gerrit \X Change}
    /\ listedUpTo = [u \in User |-> 0]

Idle(u) == toRemove[u] = {}

(* The job add_node_workflow holds: the only one of the layout, whatever name *)
(* was passed; of several the one whose name was passed, which is not looked  *)
(* up in the layout.                                                          *)
JobToHold(c, passed) ==
    CASE LayoutJobs[c] = {}              -> {}
      [] \E j \in Job : LayoutJobs[c] = {j} -> LayoutJobs[c]
      [] OTHER                           -> passed

(* A confirmed addition.  Without -c, with an empty layout, or with several   *)
(* jobs and no name, the script only prints.                                  *)
AddNode(u, g, c) ==
    /\ Idle(u)
    /\ lastId < MaxHold
    /\ \E passed \in {{}} \cup {{j} : j \in Job} :
          \E j \in JobToHold(c, passed) :
             autohold' = autohold \cup
                {[id |-> lastId + 1, tenant |-> g, change |-> c, job |-> j]}
    /\ lastId' = lastId + 1
    /\ UNCHANGED <<toRemove, asked, listedUpTo>>

(* Mutant of ListForPatch: the list is not that of the tenant. *)
ListForPatchAnywhere(u, g, c) ==
    /\ Idle(u)
    /\ toRemove' = [toRemove EXCEPT ![u] =
           {h.id : h \in {x \in autohold : <<c, x.change>> \in NumberIn}}]
    /\ asked' = [asked EXCEPT ![u] = <<g, c>>]
    /\ listedUpTo' = [listedUpTo EXCEPT ![u] = lastId]
    /\ UNCHANGED <<autohold, lastId>>

(* The list and the match of delete_node_workflow_using_url: `patch_id in     *)
(* ref_filter` compares strings, so 123 also selects the requests for 51234.  *)
ListForPatch(u, g, c) ==
    /\ Idle(u)
    /\ toRemove' = [toRemove EXCEPT ![u] =
           {h.id : h \in {x \in autohold : x.tenant = g /\ <<c, x.change>> \in NumberIn}}]
    /\ asked' = [asked EXCEPT ![u] = <<g, c>>]
    /\ listedUpTo' = [listedUpTo EXCEPT ![u] = lastId]
    /\ UNCHANGED <<autohold, lastId>>

(* delete_node_workflow_using_job_id: an id that is not in the list of the    *)
(* tenant is not deleted.                                                     *)
ListForId(u, h) ==
    /\ Idle(u)
    /\ toRemove' = [toRemove EXCEPT ![u] = {h.id}]
    /\ asked' = [asked EXCEPT ![u] = <<h.tenant, h.change>>]
    /\ listedUpTo' = [listedUpTo EXCEPT ![u] = lastId]
    /\ UNCHANGED <<autohold, lastId>>

(* One confirmed autohold_delete. *)
RemoveHold(u, i) ==
    /\ i \in toRemove[u]
    /\ \E h \in autohold : h.id = i
    /\ autohold' = {h \in autohold : h.id # i}
    /\ toRemove' = [toRemove EXCEPT ![u] = @ \ {i}]
    /\ UNCHANGED <<lastId, asked, listedUpTo>>

(* Zuul answers 404 for a request that is gone: the exception ends the run,   *)
(* and the rest of the matching requests stay.                                *)
RemoveRaises(u, i) ==
    /\ i \in toRemove[u]
    /\ \A h \in autohold : h.id # i
    /\ toRemove' = [toRemove EXCEPT ![u] = {}]
    /\ UNCHANGED <<autohold, lastId, asked, listedUpTo>>

(* Zuul drops a request whose node has expired. *)
HoldExpires ==
    /\ \E h \in autohold : autohold' = autohold \ {h}
    /\ UNCHANGED <<lastId, toRemove, asked, listedUpTo>>

Removing(u) == \E i \in 1..MaxHold : RemoveHold(u, i) \/ RemoveRaises(u, i)

HolderNext ==
    \/ \E u \in User, g \in Gerrit, c \in Change : AddNode(u, g, c) \/ ListForPatch(u, g, c)
    \/ \E u \in User, h \in autohold : ListForId(u, h)
    \/ \E u \in User : Removing(u)
    \/ HoldExpires

(* A run that has its list makes its calls. *)
HolderSpec ==
    HolderInit /\ [][HolderNext]_holderVars /\ \A u \in User : WF_holderVars(Removing(u))

-----------------------------------------------------------------------------
(* A deletion only hits requests of the tenant of its patch, for a change     *)
(* whose number contains the patch's, that were there when it fetched its     *)
(* list: what a colleague adds or deletes between the list and the calls      *)
(* never makes it remove a request somebody still debugs with.                *)
DeletionHitsOnlyWhatItListed ==
    \A u \in User : \A h \in autohold :
        h.id \in toRemove[u] =>
            /\ h.id <= listedUpTo[u]
            /\ h.tenant = asked[u][1]
            /\ <<asked[u][2], h.change>> \in NumberIn
=============================================================================
