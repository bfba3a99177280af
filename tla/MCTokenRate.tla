----------------------------- MODULE MCTokenRate -----------------------------
(***************************************************************************)
(* TokenRate on small instances, up to the names of the tokens.            *)
(***************************************************************************)
EXTENDS TokenRate, TLC

Interchangeable == Permutations(Tokens)
=============================================================================
