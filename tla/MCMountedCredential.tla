-------------------------- MODULE MCMountedCredential --------------------------
(***************************************************************************)
(* MountedCredential with a credential and the one that replaces it.       *)
(***************************************************************************)
EXTENDS MountedCredential

CONSTANTS first, next

MCCredentials == {first, next}
===============================================================================
