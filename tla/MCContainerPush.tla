-------------------------- MODULE MCContainerPush --------------------------
(* One or two target registries, for TLC. *)
EXTENDS ContainerPush

CONSTANTS docker, quay

OneTarget == <<quay>>

TwoTargets == <<docker, quay>>
=============================================================================
