--------------------------- MODULE MCCompositionRoot ---------------------------
(***************************************************************************)
(* Three requests, enough for two that race to build an object and a third *)
(* that comes later, with two invoices among them.                         *)
(***************************************************************************)
EXTENDS CompositionRoot, TLC

SymmetricRequests == Permutations(Requests) \cup Permutations(Identities)
=============================================================================
