----------------------------- MODULE RateLimits -----------------------------
(***************************************************************************)
(* The rate limits of the relay (apps/relay/src/rate-limits.ts).  A vault  *)
(* has two token buckets in its storage, both or one of which a request    *)
(* consumes from (#enforceRateLimit of vault-relay.ts).  The pairing       *)
(* endpoints have one for each address, in the memory of the Worker's      *)
(* isolate (pairing-rate-limit.ts, where the platform's own limiter is not *)
(* bound); the model has that of one address.                              *)
(*                                                                         *)
(* Tokens are counted in units of 1/Whole of a token, the unit that        *)
(* accrues in whole numbers per millisecond (600 a minute is one           *)
(* hundredth of a token a millisecond).  The gate reads and writes storage *)
(* only, so a request passes it in one step.                               *)
(*                                                                         *)
(* `time` is real time; Date.now() may be set back against it, as when the *)
(* object moves to a host whose clock is behind.                           *)
(*                                                                         *)
(* A definition Name_Variant just before Name is a mutated form of it, used *)
(* only by the mutant runs.                                                *)
(***************************************************************************)
EXTENDS Integers

CONSTANTS
    Capacity,   \* Capacity[b]: *_BUCKET_CAPACITY, in tokens
    Rate,       \* Rate[b]: units of bucket b that accrue in a millisecond
    Whole,      \* units in a token
    Second,     \* milliseconds in a second
    None,       \* an absent storage key, no refusal
    MaxTime,    \* bound: time stays in 0..MaxTime
    MaxBack     \* bound: how far the clock is set back in all

Bucket == {"events", "requests", "pairing"}
Endpoint == {"POST /events", "other", "/v1/pairing"}

ASSUME LimitAssumption ==
    /\ Whole \in Nat \ {0}
    /\ Capacity \in [Bucket -> Nat \ {0}]
    /\ Rate \in [Bucket -> Nat \ {0}]
    /\ MaxTime \in Nat /\ MaxBack \in Nat

\* A token accrues within a second (RFC 7231 has Retry-After in seconds).
ASSUME SecondAssumption ==
    /\ Second \in Nat \ {0}
    /\ \A b \in Bucket : Second * Rate[b] >= Whole

ASSUME NoneAssumption ==
    /\ None \notin [tokens : Int, lastRefillMs : Int]
    /\ None \notin [endpoint : Endpoint, retryAt : Int]

VARIABLES
    bucket,   \* meta:rate:<bucket>; for "pairing" what fallbackBuckets holds
    time,     \* real time
    back,     \* how far the clock has been set back
    (* history *)
    refusal,  \* the last refusal, until another request takes a token
    window    \* admissions of a bucket since some time, and its level then

vars == <<bucket, time, back, refusal, window>>

now == time - back

\* The buckets a request consumes from.
bucketsFor(endpoint) ==
    CASE endpoint = "POST /events" -> {"events", "requests"}
      [] endpoint = "other"        -> {"requests"}
      [] endpoint = "/v1/pairing"  -> {"pairing"}

-----------------------------------------------------------------------------
(* consumeOne *)

Full(b) == Capacity[b] * Whole

current(b) == IF bucket[b] = None
              THEN [tokens |-> Full(b), lastRefillMs |-> now]
              ELSE bucket[b]

elapsed(b) == IF now > current(b).lastRefillMs THEN now - current(b).lastRefillMs ELSE 0

refilled_Uncapped(b) == current(b).tokens + elapsed(b) * Rate[b]
refilled(b) ==
    LET accrued == current(b).tokens + elapsed(b) * Rate[b]
    IN  IF accrued > Full(b) THEN Full(b) ELSE accrued

allowed(b) == refilled(b) >= Whole

\* Milliseconds until bucket b holds a token, and what Retry-After says of it.
Ceiling(n, d) == (n + d - 1) \div d
retryAfterMs(b) == Ceiling(Whole - refilled(b), Rate[b])
retryAfterSeconds_Floor(b) == retryAfterMs(b) \div Second
retryAfterSeconds(b) == Ceiling(retryAfterMs(b), Second)

-----------------------------------------------------------------------------
(* #enforceRateLimit, pairingRateLimit *)

\* A window of bucket b that begins now, at this level.
Opened(b, level) ==
    [bucket |-> b, since |-> time, back |-> back, level |-> level, admitted |-> 0]

Init ==
    /\ bucket = [b \in Bucket |-> None]
    /\ time = 0 /\ back = 0
    /\ refusal = None
    /\ \E b \in Bucket : window = Opened(b, Full(b))

Consumed(b) == [tokens |-> refilled(b) - Whole, lastRefillMs |-> now]

Admit(endpoint) ==
    /\ \A b \in bucketsFor(endpoint) : allowed(b)
    /\ bucket' = [b \in Bucket |->
                    IF b \in bucketsFor(endpoint) THEN Consumed(b) ELSE bucket[b]]
    /\ refusal' = None
    /\ window' = IF window.bucket \in bucketsFor(endpoint)
                 THEN [window EXCEPT !.admitted = @ + 1]
                 ELSE window
    /\ UNCHANGED <<time, back>>

\* When both buckets are short, "events" is the one that is reported.
reported(endpoint) ==
    CASE endpoint = "/v1/pairing" -> "pairing"
      [] endpoint = "POST /events" /\ ~allowed("events") -> "events"
      [] OTHER -> "requests"

Refuse_ChargeOther(endpoint) ==
    /\ \E b \in bucketsFor(endpoint) : ~allowed(b)
    /\ refusal' = [endpoint |-> endpoint,
                   retryAt |-> time + Second * retryAfterSeconds(reported(endpoint))]
    /\ bucket' = [b \in Bucket |->
                    IF b \in bucketsFor(endpoint) /\ allowed(b) THEN Consumed(b) ELSE bucket[b]]
    /\ UNCHANGED <<time, back, window>>
Refuse(endpoint) ==
    /\ \E b \in bucketsFor(endpoint) : ~allowed(b)
    /\ refusal' = [endpoint |-> endpoint,
                   retryAt |-> time + Second * retryAfterSeconds(reported(endpoint))]
    /\ UNCHANGED <<bucket, time, back, window>>

\* A request to a vault.
enforceRateLimit == \E endpoint \in {"POST /events", "other"} : Admit(endpoint) \/ Refuse(endpoint)

\* A request to the pairing endpoints, from one address.
pairingRateLimit == Admit("/v1/pairing") \/ Refuse("/v1/pairing")

\* The platform recycles the isolate, or another one answers: "per isolate" is
\* all that the pairing limit promises, so that a window of it begins anew.
Recycle ==
    /\ bucket' = [b \in Bucket |-> IF b = "pairing" THEN None ELSE bucket[b]]
    /\ window' = IF window.bucket = "pairing" THEN Opened("pairing", Full("pairing")) ELSE window
    /\ UNCHANGED <<time, back, refusal>>

-----------------------------------------------------------------------------
(* Environment and history *)

Tick == /\ time < MaxTime
        /\ time' = time + 1
        /\ UNCHANGED <<bucket, back, refusal, window>>

SetBack == /\ back < MaxBack
           /\ back' = back + 1
           /\ UNCHANGED <<bucket, time, refusal, window>>

\* Start to count the admissions of a bucket: any moment may begin a window.
Watch(b) ==
    /\ window' = Opened(b, refilled(b))
    /\ UNCHANGED <<bucket, time, back, refusal>>

Next == \/ enforceRateLimit \/ pairingRateLimit \/ Recycle
        \/ \E b \in Bucket : Watch(b)
        \/ Tick \/ SetBack

Spec == Init /\ [][Next]_vars
-----------------------------------------------------------------------------
(* Properties *)

TypeOK ==
    /\ \A b \in Bucket :
         bucket[b] # None => bucket[b] \in [tokens : 0..Full(b), lastRefillMs : Int]
    /\ time \in Nat /\ back \in Nat
    /\ refusal \in [endpoint : Endpoint, retryAt : Int] \cup {None}
    /\ window \in [bucket : Bucket, since : 0..time, back : 0..back,
                   level : Int, admitted : Nat]

\* In no window of time does a bucket admit more than its capacity and what
\* accrued in the window, also when the clock is set back any number of times.
WithinLimit ==
    window.admitted * Whole
        <= Full(window.bucket) + Rate[window.bucket] * (time - window.since)

\* Only an admitted request is charged: whatever was refused in between, on
\* either bucket, a bucket has lost no more than one token for each admission.
RefusalIsFree ==
    window.back = back =>
        refilled(window.bucket) >= window.level - window.admitted * Whole

\* A request that comes back at the time Retry-After gave it passes, on both
\* buckets although only one was reported, unless another took a token
\* meanwhile or the clock was ever set back.
RetryIsAdmitted ==
    refusal # None /\ back = 0 /\ time >= refusal.retryAt =>
        \A b \in bucketsFor(refusal.endpoint) : allowed(b)
=============================================================================
