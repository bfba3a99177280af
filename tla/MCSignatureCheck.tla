--------------------------- MODULE MCSignatureCheck ---------------------------
(***************************************************************************)
(* SignatureCheck on a small instance, with the set of requests (signature *)
(* and timestamp) that were accepted as a history variable.                *)
(***************************************************************************)
EXTENDS SignatureCheck

VARIABLE requests

MCInit == SigInit /\ requests = {}

MCNext ==
    /\ SigNext
    /\ requests' = requests \cup {r \in Sigs \X Stamps : Accepted(r[1], r[2])}

MCSpec == MCInit /\ [][MCNext]_<<sigVars, requests>>

\* "Timestamp freshness check (replay protection)" (auth.py): when the cache
\* forgets a signature its timestamp is no longer fresh, so that a request
\* delivered twice is accepted once.  (No restart, no pressure.)
AcceptedOnce ==
    [][\A s \in Sigs, ts \in Stamps :
          Accepted(s, ts) /\ acceptedAt[s] # Unset /\ others[s] < CacheSize
              => <<s, ts>> \notin requests]_<<sigVars, requests>>
=============================================================================
