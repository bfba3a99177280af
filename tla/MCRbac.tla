-------------------------------- MODULE MCRbac --------------------------------
(***************************************************************************)
(* Rbac on small instances, up to the names of requests and roles.         *)
(***************************************************************************)
EXTENDS Rbac, TLC

Interchangeable == Permutations(Requests) \cup Permutations(Roles)
=============================================================================
