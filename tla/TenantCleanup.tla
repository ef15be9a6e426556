---------------------------- MODULE TenantCleanup ----------------------------
(* ovb_tenant_cleanup.py: one run over the Heat stacks of a tenant.  It asks  *)
(* for the deletion of the old stacks and of the failed ones; for those that  *)
(* are stuck or failed afterwards it deletes the servers, routers, ports,     *)
(* networks and security groups one by one, found by the stack's identifier   *)
(* in their names, and asks again.  The jobs that own the stacks, and Heat,   *)
(* go on meanwhile.  A dry run deletes nothing and is not modelled.           *)
EXTENDS Naturals, Sequences

CONSTANTS Stack,
          NameHas    (* <<s, t>>: the identifier of s occurs in the names of  *)
                     (* t's resources (1 and 11), and ends them               *)

(* A resource carries the identifier of its own stack. *)
ASSUME NameHasAssumption == NameHas \subseteq Stack \X Stack
ASSUME OwnNameAssumption == \A s \in Stack : <<s, s>> \in NameHas

VARIABLES
    stack,       (* the status of each stack                                  *)
    expired,     (* the stacks older than time_expired                        *)
    resource,    (* the kinds of resources left of each stack                 *)
    cleanAt,     (* what the run does next                                    *)
    round,       (* which of its lists it works on                            *)
    listed,      (* that list                                                 *)
    todo,        (* the rest of it in the current loop                        *)
    current,     (* the stack of todo whose resources are being deleted       *)
    kind,        (* the next kind the loop over resources deletes             *)
    chosen,      (* the stack given with --stack                              *)
    sweptFor     (* the stacks whose identifier selected what was deleted     *)

cleanupVars == <<stack, expired, resource, cleanAt, round, listed, todo, current,
                 kind, chosen, sweptFor>>

cloudVars == <<stack, expired, resource>>

(* delete_individual_resources deletes in this order; a port goes with its subnet. *)
SweepOrder == <<"server", "router", "port", "network", "sec_group">>
Kind == {"server", "router", "port", "network", "sec_group"}

StackStatus == {"planned", "creating", "complete", "failed", "deleting", "gone"}
Live == {"creating", "complete"}

(* main() makes four lists in turn; --stack replaces them by one name. *)
Round == {"old", "failed", "stuck", "leftover", "single"}

CleanupTypeOK ==
    /\ stack \in [Stack -> StackStatus]
    /\ expired \in SUBSET Stack
    /\ resource \in [Stack -> SUBSET Kind]
    /\ cleanAt \in {"start", "list", "check", "sweep", "delete", "ended"}
    /\ round \in Round
    /\ listed \in SUBSET Stack
    /\ todo \in SUBSET Stack
    /\ current \in SUBSET Stack
    /\ kind \in 1..5
    /\ chosen \in SUBSET Stack
    /\ sweptFor \in SUBSET Stack

CleanupInit ==
    /\ stack \in [Stack -> {"planned", "complete"}]
    /\ expired = {}
    /\ resource = [s \in Stack |-> IF stack[s] = "planned" THEN {} ELSE Kind]
    /\ cleanAt = "start"
    /\ round = "old"
    /\ listed = {}
    /\ todo = {}
    /\ current = {}
    /\ kind = 1
    /\ chosen = {}
    /\ sweptFor = {}

-----------------------------------------------------------------------------
(* The cloud and the jobs. *)

SetStack(s, from, to) ==
    /\ stack[s] \in from
    /\ stack' = [stack EXCEPT ![s] = to]

StackCreate(s) ==
    /\ SetStack(s, {"planned"}, "creating")
    /\ resource' = [resource EXCEPT ![s] = Kind]
    /\ UNCHANGED expired

StackCreated(s) ==
    /\ \/ SetStack(s, {"creating"}, "complete")
       \/ SetStack(s, {"creating"}, "failed")
    /\ UNCHANGED <<expired, resource>>

StackExpires(s) ==
    /\ stack[s] \notin {"planned", "gone"}
    /\ expired' = expired \cup {s}
    /\ UNCHANGED <<stack, resource>>

JobDeletesStack(s) ==
    /\ SetStack(s, {"complete", "failed"}, "deleting")
    /\ UNCHANGED <<expired, resource>>

(* Heat deletes a stack with all that is left of it, or gives up; while it     *)
(* does neither the stack is stuck.                                           *)
HeatDeletes(s) ==
    \/ /\ SetStack(s, {"deleting"}, "gone")
       /\ resource' = [resource EXCEPT ![s] = {}]
       /\ expired' = expired \ {s}
    \/ /\ SetStack(s, {"deleting"}, "failed")
       /\ UNCHANGED <<expired, resource>>

Cloud ==
    /\ \E s \in Stack : \/ StackCreate(s) \/ StackCreated(s) \/ StackExpires(s)
                        \/ JobDeletesStack(s) \/ HeatDeletes(s)
    /\ UNCHANGED <<cleanAt, round, listed, todo, current, kind, chosen, sweptFor>>

-----------------------------------------------------------------------------
(* main(), or the branch of __main__ for a single stack. *)
StartCleanup ==
    /\ cleanAt = "start"
    /\ \/ /\ cleanAt' = "list"
          /\ UNCHANGED <<round, listed, todo, chosen>>
       \/ \E s \in Stack :
            /\ chosen' = {s}
            /\ round' = "single"
            /\ listed' = {s}
            /\ todo' = {s}
            /\ cleanAt' = "sweep"
    /\ UNCHANGED <<cloudVars, current, kind, sweptFor>>

FailedHeatStacks == {s \in Stack : stack[s] = "failed"}
(* Mutant of ProgressHeatStacks: every status with IN_PROGRESS. *)
AnyProgressHeatStacks == {s \in Stack : stack[s] \in {"creating", "deleting"}}

ProgressHeatStacks == {s \in Stack : stack[s] = "deleting"}
OldHeatStacks == {s \in expired : stack[s] # "gone"}

(* old_heat_stacks, failed_heat_stacks and progress_heat_stacks. *)
HeatStacks(r) ==
    CASE r = "old"                  -> OldHeatStacks
      [] r = "stuck"                -> ProgressHeatStacks
      [] r \in {"failed", "leftover"} -> FailedHeatStacks

ListStacks ==
    /\ cleanAt = "list"
    /\ listed' = HeatStacks(round)
    /\ todo' = HeatStacks(round)
    /\ cleanAt' = CASE round = "stuck"    -> "check"
                    [] round = "leftover" -> "sweep"
                    [] OTHER              -> "delete"
    /\ UNCHANGED <<cloudVars, round, current, kind, chosen, sweptFor>>

(* mark_stack_check: the check of a stuck stack can end its deletion as failed. *)
CheckStack(s) ==
    /\ cleanAt = "check"
    /\ s \in todo
    /\ \/ SetStack(s, {"deleting"}, "failed")
       \/ UNCHANGED stack
    /\ todo' = todo \ {s}
    /\ UNCHANGED <<expired, resource, cleanAt, round, listed, current, kind, chosen, sweptFor>>

Checked ==
    /\ cleanAt = "check"
    /\ todo = {}
    /\ todo' = listed
    /\ cleanAt' = "sweep"
    /\ UNCHANGED <<cloudVars, round, listed, current, kind, chosen, sweptFor>>

(* The stacks whose resources the identifier of s selects. *)
WithIdentifier(s) == {t \in Stack : <<s, t>> \in NameHas}

(* Mutant of SweepKind: the loop over the kinds has no end. *)
SweepKindOnwards(s, found, next) ==
    /\ cleanAt = "sweep"
    /\ s \in todo
    /\ current \subseteq {s}
    /\ resource' = [t \in Stack |->
                      IF t \in found THEN resource[t] \ {SweepOrder[kind]} ELSE resource[t]]
    /\ sweptFor' = sweptFor \cup {s}
    /\ cleanAt' = next
    /\ kind' = kind + 1
    /\ IF kind = Len(SweepOrder)
       THEN current' = {} /\ todo' = todo \ {s}
       ELSE current' = {s} /\ todo' = todo
    /\ UNCHANGED <<stack, expired, round, listed, chosen>>

(* One kind for the stack at the head of the list: *_with_identifier and the  *)
(* deletion of what it found.  A call that raises ends the run half-way.      *)
SweepKind(s, found, next) ==
    /\ cleanAt = "sweep"
    /\ s \in todo
    /\ current \subseteq {s}
    /\ resource' = [t \in Stack |->
                      IF t \in found THEN resource[t] \ {SweepOrder[kind]} ELSE resource[t]]
    /\ sweptFor' = sweptFor \cup {s}
    /\ cleanAt' = next
    /\ IF kind = Len(SweepOrder)
       THEN kind' = 1 /\ current' = {} /\ todo' = todo \ {s}
       ELSE kind' = kind + 1 /\ current' = {s} /\ todo' = todo
    /\ UNCHANGED <<stack, expired, round, listed, chosen>>

Sweep(s) == SweepKind(s, WithIdentifier(s), "sweep")

SweepRaises(s) ==
    \E found \in SUBSET WithIdentifier(s) : SweepKind(s, found, "ended")

Swept ==
    /\ cleanAt = "sweep"
    /\ todo = {}
    /\ todo' = listed
    /\ cleanAt' = "delete"
    /\ UNCHANGED <<cloudVars, round, listed, current, kind, chosen, sweptFor>>

(* stack_delete: a stack that is gone is no error. *)
DeleteStack(s) ==
    /\ cleanAt = "delete"
    /\ s \in todo
    /\ \/ SetStack(s, StackStatus \ {"planned", "gone"}, "deleting")
       \/ stack[s] \in {"planned", "gone"} /\ UNCHANGED stack
    /\ todo' = todo \ {s}
    /\ UNCHANGED <<expired, resource, cleanAt, round, listed, current, kind, chosen, sweptFor>>

(* The next list, or the report after the last one.  An empty list skips the  *)
(* loops of its round.                                                        *)
Deleted ==
    /\ cleanAt = "delete"
    /\ todo = {}
    /\ cleanAt' = IF round \in {"leftover", "single"} THEN "ended" ELSE "list"
    /\ round' = CASE round = "old"    -> "failed"
                  [] round = "failed" -> "stuck"
                  [] round = "stuck"  -> "leftover"
                  [] OTHER            -> round
    /\ UNCHANGED <<cloudVars, listed, todo, current, kind, chosen, sweptFor>>

(* No token at the start, or an exception of the API later. *)
CleanupRaises ==
    /\ cleanAt \notin {"sweep", "ended"}
    /\ cleanAt' = "ended"
    /\ UNCHANGED <<cloudVars, round, listed, todo, current, kind, chosen, sweptFor>>

CleanupRun ==
    \/ StartCleanup \/ ListStacks \/ Checked \/ Swept \/ Deleted \/ CleanupRaises
    \/ \E s \in Stack : CheckStack(s) \/ Sweep(s) \/ SweepRaises(s) \/ DeleteStack(s)

CleanupNext == CleanupRun \/ Cloud

CleanupSpec == CleanupInit /\ [][CleanupNext]_cleanupVars /\ WF_cleanupVars(CleanupRun)

-----------------------------------------------------------------------------
(* A stack that is being created or used has lost resources only to the       *)
(* sweep for another stack whose identifier its names contain, or because the *)
(* operator named it: between the lists and the deletions no stack of a list  *)
(* comes back to life, whatever Heat and the jobs do meanwhile.               *)
LiveStackIsWhole ==
    \A t \in Stack :
        stack[t] \in Live /\ resource[t] # Kind =>
            \E s \in sweptFor : <<s, t>> \in NameHas /\ (s # t \/ s \in chosen)
=============================================================================
