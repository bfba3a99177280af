-------------------------------- MODULE MCKyc --------------------------------
(***************************************************************************)
(* Kyc on small instances, up to the names of calls, reviewers and         *)
(* applications.                                                           *)
(***************************************************************************)
EXTENDS Kyc, TLC

Interchangeable ==
    Permutations(Reviews) \cup Permutations(Reviewers) \cup Permutations(Apps)
        \cup Permutations(Uploads)
=============================================================================
