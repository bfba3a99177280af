----------------------------- MODULE MCAccounts -----------------------------
(***************************************************************************)
(* Accounts on small instances, up to the names of calls and accounts.     *)
(***************************************************************************)
EXTENDS Accounts, TLC

Interchangeable == Permutations(Calls) \cup Permutations(Ids)
=============================================================================
