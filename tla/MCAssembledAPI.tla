----------------------------- MODULE MCAssembledAPI -----------------------------
(***************************************************************************)
(* The requests of MCEndpoints, sent to the API as it is deployed: every   *)
(* path of the service, with the lock taken and released in the middle.    *)
(***************************************************************************)
EXTENDS AssembledAPI, MCEndpoints
=============================================================================
