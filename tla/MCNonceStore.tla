---------------------------- MODULE MCNonceStore ----------------------------
(***************************************************************************)
(* NonceStore on small instances, up to the names of the callers.          *)
(***************************************************************************)
EXTENDS NonceStore, TLC

Interchangeable == Permutations(Callers)
=============================================================================
