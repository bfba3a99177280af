----------------------------- MODULE MCTokenAuth -----------------------------
(***************************************************************************)
(* TokenAuth on small instances, up to the names of the calls.             *)
(***************************************************************************)
EXTENDS TokenAuth, TLC

Interchangeable == Permutations(Requests) \cup Permutations(Edits)
=============================================================================
