---------------------------- MODULE SignatureCheck ----------------------------
(***************************************************************************)
(* verify_signature (app/identity/auth.py) and its signature_cache, in one *)
(* web process.  The body is read before the handler starts, so the        *)
(* function does not yield and is one step.  Freshness is judged on whole  *)
(* seconds of the wall clock, the cache on fractions of a second: a second *)
(* is Resolution units of the model's clock.  The timestamp is no part of  *)
(* what is signed.                                                         *)
(***************************************************************************)
EXTENDS Integers, Sequences

CONSTANTS
    Sigs,       \* right signatures, one per request body
    Stamps,     \* values of the X-Timestamp header
    MaxAge,     \* MAX_TIMESTAMP_AGE, in seconds
    CacheTtl,   \* settings.SIGNATURE_CACHE_TTL, in seconds
    CacheSize,  \* settings.SIGNATURE_CACHE_SIZE
    Resolution, \* clock units in a second
    SigHorizon, \* bound on the clock
    Unset       \* no time, no call

ASSUME SizeAssumption ==
    /\ MaxAge \in Nat /\ CacheTtl \in Nat /\ SigHorizon \in Nat
    /\ CacheSize \in Nat \ {0} /\ Resolution \in Nat \ {0}
    /\ Stamps \subseteq Int
ASSUME UnsetAssumption == Unset \notin Nat

VARIABLES
    time,
    cache,      \* signature_cache: entries [sig, expires], oldest first
    call,       \* the last call: its signature, timestamp and answer
    acceptedAt, \* history: when each signature was last accepted, or Unset
    others      \* history: signatures accepted since then, up to CacheSize

sigVars == <<time, cache, call, acceptedAt, others>>

Ttl == CacheTtl * Resolution

Entry == [sig : Sigs, expires : Nat]

Answers == {"none", "stale", "mismatch", "seen", "accepted"}

Call(s, ts, answer) == [sig |-> s, stamp |-> ts, answer |-> answer]

NoCall == Call(Unset, Unset, "none")

SigTypeOK ==
    /\ time \in Nat
    /\ cache \in Seq(Entry)
    /\ call \in [sig : Sigs \cup {Unset}, stamp : Stamps \cup {Unset}, answer : Answers]
    /\ acceptedAt \in [Sigs -> Nat \cup {Unset}]
    /\ others \in [Sigs -> 0..CacheSize]

SigInit ==
    /\ time = 0
    /\ cache = <<>>
    /\ call = NoCall
    /\ acceptedAt = [s \in Sigs |-> Unset]
    /\ others = [s \in Sigs |-> 0]

SigTick ==
    /\ time < SigHorizon
    /\ time' = time + 1
    /\ call' = NoCall
    /\ UNCHANGED <<cache, acceptedAt, others>>

-----------------------------------------------------------------------------
(* cachetools.TTLCache                                                     *)

Live(e) == time < e.expires

Cached(s) == \E i \in DOMAIN cache : cache[i].sig = s /\ Live(cache[i])

\* expire() goes through the entries from the oldest, and stops at one that is
\* live.
FirstExpired(n) ==
    /\ \A i \in 1..n : ~Live(cache[i])
    /\ n < Len(cache) => Live(cache[n + 1])

\* If there is still no room, the oldest entry goes.
Room(live) == IF Len(live) < CacheSize THEN live ELSE Tail(live)

Store(s) ==
    \E n \in 0..Len(cache) :
        /\ FirstExpired(n)
        /\ cache' = Append(Room(SubSeq(cache, n + 1, Len(cache))),
                           [sig |-> s, expires |-> time + Ttl])

-----------------------------------------------------------------------------
(* verify_signature                                                        *)

Age(ts) == (time \div Resolution) - ts

\* Mutant: a timestamp ahead of the clock is always fresh.
NotTooOld(ts) == Age(ts) <= MaxAge

Fresh(ts) == Age(ts) <= MaxAge /\ -Age(ts) <= MaxAge

Refuse(s, ts, answer) ==
    /\ call' = Call(s, ts, answer)
    /\ UNCHANGED <<time, cache, acceptedAt, others>>

\* Mutant: the signature is remembered before the timestamp is judged.
StaleRemembered(s, ts) ==
    /\ ~Fresh(ts)
    /\ Store(s)
    /\ call' = Call(s, ts, "stale")
    /\ UNCHANGED <<time, acceptedAt, others>>

Stale(s, ts) == ~Fresh(ts) /\ Refuse(s, ts, "stale")

\* compare_digest: the header is not the signature of the body.
Mismatch(ts) == Fresh(ts) /\ Refuse(Unset, ts, "mismatch")

Seen(s, ts) == Fresh(ts) /\ Cached(s) /\ Refuse(s, ts, "seen")

Remember(s) ==
    /\ acceptedAt' = [acceptedAt EXCEPT ![s] = time]
    /\ others' = [r \in Sigs |->
                    IF r = s THEN 0
                    ELSE IF others[r] < CacheSize THEN others[r] + 1 ELSE CacheSize]

\* Mutants: the timestamp is stored for the signature; the cache is written
\* and never read.
AcceptedByStamp(s, ts) ==
    /\ Fresh(ts)
    /\ ~Cached(s)
    /\ Store(ts)
    /\ call' = Call(s, ts, "accepted")
    /\ Remember(s)
    /\ UNCHANGED time
AcceptedUnchecked(s, ts) ==
    /\ Fresh(ts)
    /\ Store(s)
    /\ call' = Call(s, ts, "accepted")
    /\ Remember(s)
    /\ UNCHANGED time

Accepted(s, ts) ==
    /\ Fresh(ts)
    /\ ~Cached(s)
    /\ Store(s)
    /\ call' = Call(s, ts, "accepted")
    /\ Remember(s)
    /\ UNCHANGED time

\* The process is restarted: the cache is empty, and the history starts anew.
Restart ==
    /\ cache' = <<>>
    /\ acceptedAt' = [s \in Sigs |-> Unset]
    /\ others' = [s \in Sigs |-> 0]
    /\ call' = NoCall
    /\ UNCHANGED time

SigNext ==
    \/ SigTick
    \/ \E s \in Sigs, ts \in Stamps : Stale(s, ts) \/ Seen(s, ts) \/ Accepted(s, ts)
    \/ \E ts \in Stamps : Mismatch(ts)
    \/ Restart

SigSpec == SigInit /\ [][SigNext]_sigVars

-----------------------------------------------------------------------------
(* Properties                                                              *)

Recent(s) == acceptedAt[s] # Unset /\ time < acceptedAt[s] + Ttl

\* Within the TTL a signature is accepted again only if CacheSize others were
\* accepted in between: the cache forgets under pressure and never before,
\* and it forgets the oldest.
ForgottenUnderPressure ==
    [][\A s \in Sigs, ts \in Stamps :
          Accepted(s, ts) /\ Recent(s) => others[s] >= CacheSize]_sigVars

\* A request is refused as a duplicate only if its signature was accepted less
\* than the TTL ago.
DuplicateJustified ==
    [][\A s \in Sigs, ts \in Stamps : Seen(s, ts) => Recent(s)]_sigVars
=============================================================================
