-------------------------- MODULE RateLimitsProofs --------------------------
(***************************************************************************)
(* Proofs about the rate limit, for every capacity, rate and bound.        *)
(*                                                                         *)
(* WithinLimit is not inductive: it says nothing of the tokens a bucket    *)
(* still holds.  BudgetInv counts them: what a bucket admitted in the      *)
(* window and what it could admit now stay within its capacity and what    *)
(* accrued.                                                                *)
(***************************************************************************)
EXTENDS RateLimits, TLAPS

BudgetInv ==
    window.admitted * Whole + refilled(window.bucket)
        <= Full(window.bucket) + Rate[window.bucket] * (time - window.since)

\* What the next second brings is on the clock of every refusal.
RetryInv ==
    back = 0 =>
        /\ \A b \in Bucket : bucket[b] # None => bucket[b].lastRefillMs <= time
        /\ refusal # None =>
              \A b \in Bucket :
                  bucket[b] # None => bucket[b].lastRefillMs + Second <= refusal.retryAt

(***************************************************************************)
(* Arithmetic                                                              *)
(***************************************************************************)

\* Multiplication by a rate is monotone: the products of elapsed times and
\* rates compare as the times do.
LEMMA TimesMonotone ==
    ASSUME NEW i \in Nat, NEW j \in Nat, NEW r \in Nat, i <= j
    PROVE  i * r <= j * r
<1> DEFINE k == j - i
<1>1. k \in Nat /\ j = i + k
  OBVIOUS
<1> HIDE DEF k
<1>2. (i + k) * r = i * r + k * r
  BY <1>1
<1>3. k * r \in Nat /\ i * r \in Nat
  BY <1>1
<1> QED
  BY <1>1, <1>2, <1>3

\* One more millisecond brings one more rate.
LEMMA TimesSuccessor ==
    ASSUME NEW i \in Int, NEW r \in Nat
    PROVE  (i + 1) * r = i * r + r /\ r * (i + 1) = r * i + r
OBVIOUS

\* A capacity in units is a natural number.
LEMMA FullIsNat == ASSUME NEW b \in Bucket PROVE Full(b) \in Nat
BY LimitAssumption DEF Full

\* What a bucket holds now is never negative and never above its capacity.
LEMMA LevelBounded ==
    ASSUME TypeOK, NEW b \in Bucket
    PROVE  /\ now \in Int
           /\ current(b).tokens \in 0..Full(b) /\ current(b).lastRefillMs \in Int
           /\ elapsed(b) \in Nat /\ Rate[b] \in Nat /\ elapsed(b) * Rate[b] \in Nat
           /\ refilled(b) \in 0..Full(b)
<1>1. now \in Int
  BY DEF TypeOK, now
<1>2. current(b) \in [tokens : 0..Full(b), lastRefillMs : Int]
  <2>1. CASE bucket[b] = None
    BY <1>1, <2>1, FullIsNat DEF current
  <2>2. CASE bucket[b] # None
    BY <2>2 DEF current, TypeOK
  <2> QED
    BY <2>1, <2>2
<1>3. elapsed(b) \in Nat
  BY <1>1, <1>2 DEF elapsed
<1>4. Rate[b] \in Nat
  BY LimitAssumption
<1>5. elapsed(b) * Rate[b] \in Nat
  BY <1>3, <1>4
<1>6. refilled(b) \in 0..Full(b)
  BY <1>2, <1>5, FullIsNat DEF refilled
<1> QED
  BY <1>1, <1>2, <1>3, <1>4, <1>5, <1>6

\* A bucket that has just been charged holds what it was left with.
LEMMA LevelAfterCharge ==
    ASSUME TypeOK, NEW b \in Bucket, allowed(b),
           bucket'[b] = Consumed(b), UNCHANGED <<time, back>>
    PROVE  refilled(b)' = refilled(b) - Whole
<1>1. refilled(b) \in 0..Full(b) /\ Full(b) \in Nat /\ Whole \in Nat /\ now \in Int /\ Rate[b] \in Nat
  BY LevelBounded, FullIsNat, LimitAssumption
<1>2. now' = now
  BY DEF now
<1>3. bucket'[b] # None
  BY <1>1, NoneAssumption DEF Consumed
<1>4. current(b)' = [tokens |-> refilled(b) - Whole, lastRefillMs |-> now]
  BY <1>3 DEF current, Consumed
<1>5. elapsed(b)' = 0
  BY <1>1, <1>2, <1>4 DEF elapsed
<1>6. current(b)'.tokens + elapsed(b)' * Rate[b] = refilled(b) - Whole
  BY <1>1, <1>4, <1>5
<1>7. Full(b)' = Full(b)
  BY DEF Full
<1> QED
  BY <1>1, <1>6, <1>7 DEF refilled

\* A bucket that nothing is known of is full.
LEMMA LevelOfNone ==
    ASSUME TypeOK, NEW b \in Bucket, bucket'[b] = None, UNCHANGED <<time, back>>
    PROVE  refilled(b)' = Full(b)
<1>1. now' \in Int /\ Full(b) \in Nat /\ Full(b)' = Full(b) /\ Rate[b] \in Nat
  BY FullIsNat, LimitAssumption DEF TypeOK, now, Full
<1>2. current(b)' = [tokens |-> Full(b), lastRefillMs |-> now']
  BY <1>1 DEF current
<1>3. current(b)'.lastRefillMs = now'
  BY <1>2
<1>4. elapsed(b)' = 0
  BY <1>1, <1>3 DEF elapsed
<1> QED
  BY <1>1, <1>2, <1>4 DEF refilled

\* A bucket whose record and clock do not change holds what it held.
LEMMA LevelUnchanged ==
    ASSUME NEW b \in Bucket, bucket'[b] = bucket[b], UNCHANGED <<time, back>>
    PROVE  refilled(b)' = refilled(b)
BY DEF refilled, elapsed, current, now, Full

\* A millisecond adds at most what accrues in it, and takes nothing.
LEMMA LevelAfterTick ==
    ASSUME TypeOK, NEW b \in Bucket, Tick
    PROVE  /\ refilled(b)' \in Int
           /\ refilled(b) <= refilled(b)' /\ refilled(b)' <= refilled(b) + Rate[b]
<1>1. bucket' = bucket /\ now' = now + 1
  BY DEF Tick, now, TypeOK
<1>2. /\ now \in Int /\ current(b).tokens \in 0..Full(b) /\ current(b).lastRefillMs \in Int
      /\ elapsed(b) \in Nat /\ elapsed(b) * Rate[b] \in Nat /\ Rate[b] \in Nat
      /\ Full(b) \in Nat /\ Full(b)' = Full(b)
  BY LevelBounded, FullIsNat DEF Full
<1>3. CASE bucket[b] = None
  <2>1. current(b)' = [tokens |-> Full(b), lastRefillMs |-> now']
    BY <1>1, <1>2, <1>3 DEF current
  <2>2. refilled(b) = Full(b)
    BY <1>2, <1>3 DEF refilled, current, elapsed
  <2>3. elapsed(b)' = 0
    BY <1>1, <1>2, <2>1 DEF elapsed
  <2>4. refilled(b)' = Full(b)
    BY <1>2, <2>1, <2>3 DEF refilled
  <2> QED
    BY <1>2, <2>2, <2>4
<1>4. CASE bucket[b] # None
  <2>1. current(b)' = current(b)
    BY <1>1, <1>4 DEF current
  <2>2. elapsed(b)' \in Nat /\ elapsed(b) <= elapsed(b)' /\ elapsed(b)' <= elapsed(b) + 1
    BY <1>1, <1>2, <2>1 DEF elapsed
  <2>3. /\ elapsed(b) * Rate[b] <= elapsed(b)' * Rate[b]
        /\ elapsed(b)' * Rate[b] <= (elapsed(b) + 1) * Rate[b]
    BY <1>2, <2>2, TimesMonotone
  <2>4. (elapsed(b) + 1) * Rate[b] = elapsed(b) * Rate[b] + Rate[b]
    BY <1>2, TimesSuccessor
  <2>5. elapsed(b)' * Rate[b] \in Nat
    BY <1>2, <2>2
  <2> QED
    BY <1>2, <2>1, <2>3, <2>4, <2>5 DEF refilled
<1> QED
  BY <1>3, <1>4

\* Setting the clock back adds nothing.
LEMMA LevelAfterSetBack ==
    ASSUME TypeOK, NEW b \in Bucket, SetBack
    PROVE  refilled(b)' \in Int /\ refilled(b)' <= refilled(b)
<1>1. bucket' = bucket /\ now' = now - 1
  BY DEF SetBack, now, TypeOK
<1>2. /\ now \in Int /\ current(b).tokens \in 0..Full(b) /\ current(b).lastRefillMs \in Int
      /\ elapsed(b) \in Nat /\ elapsed(b) * Rate[b] \in Nat /\ Rate[b] \in Nat
      /\ Full(b) \in Nat /\ Full(b)' = Full(b)
  BY LevelBounded, FullIsNat DEF Full
<1>3. CASE bucket[b] = None
  <2>1. current(b)' = [tokens |-> Full(b), lastRefillMs |-> now']
    BY <1>1, <1>2, <1>3 DEF current
  <2>2. refilled(b) = Full(b)
    BY <1>2, <1>3 DEF refilled, current, elapsed
  <2>3. elapsed(b)' = 0
    BY <1>1, <1>2, <2>1 DEF elapsed
  <2>4. refilled(b)' = Full(b)
    BY <1>2, <2>1, <2>3 DEF refilled
  <2> QED
    BY <1>2, <2>2, <2>4
<1>4. CASE bucket[b] # None
  <2>1. current(b)' = current(b)
    BY <1>1, <1>4 DEF current
  <2>2. elapsed(b)' \in Nat /\ elapsed(b)' <= elapsed(b)
    BY <1>1, <1>2, <2>1 DEF elapsed
  <2>3. elapsed(b)' * Rate[b] <= elapsed(b) * Rate[b]
    BY <1>2, <2>2, TimesMonotone
  <2>4. elapsed(b)' * Rate[b] \in Nat
    BY <1>2, <2>2
  <2> QED
    BY <1>2, <2>1, <2>3, <2>4 DEF refilled
<1> QED
  BY <1>3, <1>4

\* A recycled isolate knows no address, and no vault's bucket is in it.
LEMMA RecycledIsNone ==
    ASSUME NEW b \in Bucket, Recycle
    PROVE  bucket'[b] = None \/ (b # "pairing" /\ bucket'[b] = bucket[b])
BY DEF Recycle

\* An endpoint consumes from buckets.
LEMMA BucketsForBuckets == \A endpoint \in Endpoint : bucketsFor(endpoint) \subseteq Bucket
BY DEF Endpoint, bucketsFor, Bucket

(***************************************************************************)
(* Types                                                                   *)
(***************************************************************************)

LEMMA TypeStep == TypeOK /\ [Next]_vars => TypeOK'
<1> SUFFICES ASSUME TypeOK, [Next]_vars PROVE TypeOK'
  OBVIOUS
<1>1. \A b \in Bucket : /\ refilled(b) \in 0..Full(b) /\ Full(b) \in Nat /\ now \in Int
                        /\ Full(b)' = Full(b)
  BY LevelBounded, FullIsNat DEF Full
<1>2. ASSUME NEW endpoint \in Endpoint, Admit(endpoint) PROVE TypeOK'
  <2>1. \A b \in Bucket : bucket'[b] # None =>
           bucket'[b] \in [tokens : 0..Full(b), lastRefillMs : Int]
    <3> TAKE b \in Bucket
    <3>1. CASE b \in bucketsFor(endpoint)
      <4>1. refilled(b) - Whole \in 0..Full(b)
        BY <1>1, <1>2, <3>1, LimitAssumption DEF Admit, allowed
      <4> QED
        BY <1>1, <1>2, <3>1, <4>1 DEF Admit, Consumed
    <3>2. CASE b \notin bucketsFor(endpoint)
      BY <1>2, <3>2 DEF Admit, TypeOK
    <3> QED
      BY <3>1, <3>2
  <2>2. window' \in [bucket : Bucket, since : 0..time, back : 0..back,
                     level : Int, admitted : Nat]
    BY <1>2 DEF Admit, TypeOK
  <2> QED
    BY <1>1, <1>2, <2>1, <2>2 DEF Admit, TypeOK
<1>3. ASSUME NEW endpoint \in Endpoint, Refuse(endpoint) PROVE TypeOK'
  <2>1. reported(endpoint) \in Bucket
    BY DEF reported, Bucket
  <2>2. retryAfterSeconds(reported(endpoint)) \in Int
    BY <1>1, <2>1, LimitAssumption, SecondAssumption
    DEF retryAfterSeconds, retryAfterMs, Ceiling
  <2>3. time + Second * retryAfterSeconds(reported(endpoint)) \in Int
    BY <2>2, SecondAssumption DEF TypeOK
  <2>4. refusal' \in [endpoint : Endpoint, retryAt : Int]
    BY <1>3, <2>3 DEF Refuse
  <2> QED
    BY <1>1, <1>3, <2>4 DEF Refuse, TypeOK
<1>4. ASSUME NEW b \in Bucket, Watch(b) PROVE TypeOK'
  <2>1. window' \in [bucket : Bucket, since : 0..time, back : 0..back,
                     level : Int, admitted : Nat]
    BY <1>1, <1>4 DEF Watch, Opened, TypeOK
  <2> QED
    BY <1>1, <1>4, <2>1 DEF Watch, TypeOK
<1>5. CASE Tick
  BY <1>1, <1>5 DEF Tick, TypeOK
<1>6. CASE SetBack
  BY <1>1, <1>6 DEF SetBack, TypeOK
<1>7. CASE UNCHANGED vars
  BY <1>1, <1>7 DEF vars, TypeOK
<1>8. CASE Recycle
  <2>1. \A b \in Bucket : bucket'[b] # None =>
           bucket'[b] \in [tokens : 0..Full(b), lastRefillMs : Int]
    BY <1>8, RecycledIsNone DEF Recycle, TypeOK
  <2>2. window' \in [bucket : Bucket, since : 0..time, back : 0..back,
                     level : Int, admitted : Nat]
    BY <1>1, <1>8 DEF Recycle, Opened, TypeOK, Bucket
  <2> QED
    BY <1>1, <1>8, <2>1, <2>2 DEF Recycle, TypeOK
<1> QED
  BY <1>2, <1>3, <1>4, <1>5, <1>6, <1>7, <1>8 DEF Next, enforceRateLimit, pairingRateLimit, Endpoint

\* Every reachable state is well typed: a bucket never holds less than nothing
\* or more than its capacity.
THEOREM TypeCorrect == Spec => []TypeOK
<1>1. Init => TypeOK
  BY FullIsNat, LimitAssumption DEF Init, TypeOK, Bucket, Opened
<1> QED
  BY <1>1, TypeStep, PTL DEF Spec

(***************************************************************************)
(* The limit                                                               *)
(***************************************************************************)

LEMMA BudgetInit == Init => BudgetInv
<1> SUFFICES ASSUME Init PROVE BudgetInv
  OBVIOUS
<1>1. PICK b \in Bucket : window = [bucket |-> b, since |-> 0, back |-> 0,
                                    level |-> Full(b), admitted |-> 0]
  BY DEF Init, Opened
<1>2. TypeOK
  BY FullIsNat, LimitAssumption DEF Init, TypeOK, Bucket, Opened
<1>3. refilled(b) \in 0..Full(b) /\ Full(b) \in Nat /\ Rate[b] \in Nat
  BY <1>2, LevelBounded, FullIsNat, LimitAssumption
<1>4. Rate[b] * (time - 0) = 0
  BY <1>3 DEF Init
<1> QED
  BY <1>1, <1>3, <1>4, LimitAssumption DEF BudgetInv

LEMMA BudgetStep == TypeOK /\ BudgetInv /\ [Next]_vars => BudgetInv'
<1> SUFFICES ASSUME TypeOK, BudgetInv, [Next]_vars PROVE BudgetInv'
  OBVIOUS
<1>0. PICK w \in Bucket : w = window.bucket
  BY DEF TypeOK
<1>1. /\ w \in Bucket /\ window.admitted \in Nat /\ window.since \in Nat /\ time \in Nat
      /\ Whole \in Nat /\ Rate[w] \in Nat /\ Full(w) \in Nat
  BY <1>0, LimitAssumption, FullIsNat DEF TypeOK
<1>2. refilled(w) \in 0..Full(w)
  BY <1>1, LevelBounded
<1>3. window.admitted * Whole + refilled(w) <= Full(w) + Rate[w] * (time - window.since)
  BY <1>0 DEF BudgetInv
<1>4. \A b \in Bucket : Full(b)' = Full(b)
  BY DEF Full
<1>5. ASSUME NEW endpoint \in Endpoint, Admit(endpoint) PROVE BudgetInv'
  <2>1. CASE w \in bucketsFor(endpoint)
    <3>1. window' = [window EXCEPT !.admitted = window.admitted + 1]
      BY <1>0, <1>5, <2>1 DEF Admit
    <3>2. /\ window'.bucket = w /\ window'.since = window.since
          /\ window'.admitted = window.admitted + 1
      BY <1>0, <3>1 DEF TypeOK
    <3>3. refilled(w)' = refilled(w) - Whole
      <4>1. bucket'[w] = Consumed(w) /\ allowed(w) /\ UNCHANGED <<time, back>>
        BY <1>5, <2>1 DEF Admit
      <4> QED
        BY <1>1, <4>1, LevelAfterCharge
    <3>4. (window.admitted + 1) * Whole = window.admitted * Whole + Whole
      BY <1>1, TimesSuccessor
    <3>5. window.admitted * Whole \in Nat /\ Rate[w] * (time - window.since) \in Int
      BY <1>1
    <3>6. (window.admitted + 1) * Whole + (refilled(w) - Whole)
            <= Full(w) + Rate[w] * (time - window.since)
      BY <1>1, <1>2, <1>3, <3>4, <3>5
    <3> QED
      BY <1>4, <1>5, <3>2, <3>3, <3>6 DEF BudgetInv, Admit
  <2>2. CASE w \notin bucketsFor(endpoint)
    <3>1. window' = window /\ bucket'[w] = bucket[w] /\ UNCHANGED <<time, back>>
      BY <1>0, <1>5, <2>2 DEF Admit
    <3>2. refilled(w)' = refilled(w)
      BY <1>1, <3>1, LevelUnchanged
    <3> QED
      BY <1>0, <1>3, <1>4, <3>1, <3>2 DEF BudgetInv
  <2> QED
    BY <2>1, <2>2
<1>6. ASSUME UNCHANGED <<bucket, time, back, window>> PROVE BudgetInv'
  <2>1. refilled(w)' = refilled(w)
    BY <1>1, <1>6, LevelUnchanged
  <2> QED
    BY <1>0, <1>3, <1>4, <1>6, <2>1 DEF BudgetInv
<1>7. ASSUME NEW b \in Bucket, Watch(b) PROVE BudgetInv'
  <2>1. window'.bucket = b /\ window'.since = time /\ window'.admitted = 0 /\ time' = time
    BY <1>7 DEF Watch, Opened
  <2>2. refilled(b)' = refilled(b)
    BY <1>7, LevelUnchanged DEF Watch
  <2>3. refilled(b) \in 0..Full(b) /\ Full(b) \in Nat /\ Rate[b] \in Nat
    BY LevelBounded, FullIsNat, LimitAssumption
  <2>4. 0 * Whole + refilled(b) <= Full(b) + Rate[b] * (time - time)
    BY <1>1, <2>3
  <2> QED
    BY <1>4, <2>1, <2>2, <2>4 DEF BudgetInv
<1>8. CASE Tick
  <2>1. window' = window /\ time' = time + 1
    BY <1>8 DEF Tick
  <2>2. refilled(w)' <= refilled(w) + Rate[w] /\ refilled(w)' \in Int
    BY <1>8, LevelAfterTick
  <2>3. Rate[w] * (time + 1 - window.since) = Rate[w] * (time - window.since) + Rate[w]
    <3>1. time - window.since \in Int /\ time + 1 - window.since = (time - window.since) + 1
      BY <1>1
    <3> QED
      BY <1>1, <3>1, TimesSuccessor
  <2>4. /\ window.admitted * Whole \in Nat /\ Rate[w] * (time - window.since) \in Int
        /\ Rate[w] * (time + 1 - window.since) \in Int
    BY <1>1
  <2>5. window.admitted * Whole + refilled(w)'
          <= Full(w) + Rate[w] * (time + 1 - window.since)
    BY <1>1, <1>2, <1>3, <2>2, <2>3, <2>4
  <2>6. /\ window'.admitted = window.admitted /\ Full(w)' = Full(w)
        /\ time' - window'.since = time + 1 - window.since
    BY <1>1, <1>4, <2>1
  <2>7. w = window'.bucket
    BY <1>0, <2>1
  <2> QED
    BY <2>5, <2>6, <2>7, Zenon DEF BudgetInv
<1>9. CASE SetBack
  <2>1. window' = window /\ time' = time
    BY <1>9 DEF SetBack
  <2>2. refilled(w)' <= refilled(w) /\ refilled(w)' \in Int
    BY <1>9, LevelAfterSetBack
  <2>3. window.admitted * Whole \in Nat /\ Rate[w] * (time - window.since) \in Int
    BY <1>1
  <2>4. window.admitted * Whole + refilled(w)' <= Full(w) + Rate[w] * (time - window.since)
    BY <1>1, <1>2, <1>3, <2>2, <2>3
  <2> QED
    BY <1>0, <1>4, <2>1, <2>4 DEF BudgetInv
<1>10. ASSUME NEW endpoint \in Endpoint, Refuse(endpoint) PROVE BudgetInv'
  BY <1>6, <1>10 DEF Refuse
<1>11. CASE UNCHANGED vars
  BY <1>6, <1>11 DEF vars
<1>12. CASE Recycle
  <2>1. CASE w = "pairing"
    <3>1. /\ window'.bucket = w /\ window'.since = time /\ window'.admitted = 0
          /\ time' = time
      BY <1>0, <1>12, <2>1 DEF Recycle, Opened
    <3>2. bucket'[w] = None /\ UNCHANGED <<time, back>>
      BY <1>1, <1>12, <2>1 DEF Recycle
    <3>3. refilled(w)' = Full(w)
      BY <1>1, <3>2, LevelOfNone
    <3>4. 0 * Whole + refilled(w)' <= Full(w) + Rate[w] * (time - time)
      BY <1>1, <3>3
    <3> QED
      BY <1>4, <3>1, <3>4 DEF BudgetInv
  <2>2. CASE w # "pairing"
    <3>1. UNCHANGED window /\ bucket'[w] = bucket[w] /\ UNCHANGED <<time, back>>
      BY <1>0, <1>12, <2>2 DEF Recycle
    <3>2. refilled(w)' = refilled(w)
      BY <1>1, <3>1, LevelUnchanged
    <3> QED
      BY <1>0, <1>3, <1>4, <3>1, <3>2 DEF BudgetInv
  <2> QED
    BY <2>1, <2>2
<1> QED
  BY <1>5, <1>7, <1>8, <1>9, <1>10, <1>11, <1>12 DEF Next, enforceRateLimit, pairingRateLimit, Endpoint

\* No window of time sees more admissions of a bucket than its capacity and
\* what accrued in the window, whatever the clock was set back to.
THEOREM LimitHolds == Spec => []WithinLimit
<1>1. TypeOK /\ BudgetInv => WithinLimit
  <2> SUFFICES ASSUME TypeOK, BudgetInv PROVE WithinLimit
    OBVIOUS
  <2>1. window.bucket \in Bucket
    BY DEF TypeOK
  <2>2. refilled(window.bucket) \in Nat /\ Full(window.bucket) \in Nat
    BY <2>1, LevelBounded, FullIsNat
  <2>3. window.admitted * Whole \in Int /\ Rate[window.bucket] * (time - window.since) \in Int
    BY <2>1, LimitAssumption DEF TypeOK
  <2> QED
    BY <2>2, <2>3 DEF BudgetInv, WithinLimit
<1> QED
  BY <1>1, TypeCorrect, BudgetInit, BudgetStep, PTL DEF Spec

(***************************************************************************)
(* Refusals                                                                *)
(***************************************************************************)

\* Refused requests cost nothing: what a bucket has lost since any moment is a
\* token for each request it admitted since, or less.
THEOREM RefusalsAreFree == Spec => []RefusalIsFree
<1>1. Init => RefusalIsFree
  <2> SUFFICES ASSUME Init PROVE RefusalIsFree
    OBVIOUS
  <2>1. PICK b \in Bucket : window = [bucket |-> b, since |-> 0, back |-> 0,
                                      level |-> Full(b), admitted |-> 0]
    BY DEF Init, Opened
  <2>2. refilled(b) = Full(b)
    BY <2>1, FullIsNat, LimitAssumption DEF Init, refilled, current, elapsed, now
  <2> QED
    BY <2>1, <2>2, FullIsNat, LimitAssumption DEF RefusalIsFree
<1>2. TypeOK /\ RefusalIsFree /\ [Next]_vars => RefusalIsFree'
  <2> SUFFICES ASSUME TypeOK, RefusalIsFree, [Next]_vars, back' = window'.back
               PROVE  (refilled(window.bucket) >= window.level - window.admitted * Whole)'
    BY DEF RefusalIsFree
  <2>1. PICK w \in Bucket : w = window.bucket
    BY DEF TypeOK
  <2>2. /\ window.admitted \in Nat /\ window.level \in Int /\ Whole \in Nat
        /\ window.admitted * Whole \in Nat /\ refilled(w) \in Int
        /\ back \in Nat /\ window.back \in 0..back
    BY LevelBounded, LimitAssumption DEF TypeOK
  <2>3. back = window.back => refilled(w) >= window.level - window.admitted * Whole
    BY <2>1 DEF RefusalIsFree
  <2>4. ASSUME NEW endpoint \in Endpoint, Admit(endpoint)
        PROVE  (refilled(window.bucket) >= window.level - window.admitted * Whole)'
    <3>1. CASE w \in bucketsFor(endpoint)
      <4>1. window' = [window EXCEPT !.admitted = window.admitted + 1]
        BY <2>1, <2>4, <3>1 DEF Admit
      <4>2. /\ window'.bucket = w /\ window'.level = window.level
            /\ window'.back = window.back /\ back' = back
            /\ window'.admitted = window.admitted + 1
        BY <2>1, <2>4, <4>1 DEF TypeOK, Admit
      <4>3. bucket'[w] = Consumed(w) /\ allowed(w) /\ UNCHANGED <<time, back>>
        BY <2>4, <3>1 DEF Admit
      <4>4. refilled(w)' = refilled(w) - Whole
        BY <4>3, LevelAfterCharge
      <4>5. (window.admitted + 1) * Whole = window.admitted * Whole + Whole
        BY <2>2, TimesSuccessor
      <4> QED
        BY <2>2, <2>3, <4>2, <4>4, <4>5
    <3>2. CASE w \notin bucketsFor(endpoint)
      <4>1. window' = window /\ bucket'[w] = bucket[w] /\ UNCHANGED <<time, back>>
        BY <2>1, <2>4, <3>2 DEF Admit
      <4>2. refilled(w)' = refilled(w)
        BY <4>1, LevelUnchanged
      <4> QED
        BY <2>1, <2>3, <4>1, <4>2
    <3> QED
      BY <3>1, <3>2
  <2>5. ASSUME UNCHANGED <<bucket, time, back, window>>
        PROVE  (refilled(window.bucket) >= window.level - window.admitted * Whole)'
    <3>1. refilled(w)' = refilled(w)
      BY <2>5, LevelUnchanged
    <3> QED
      BY <2>1, <2>3, <2>5, <3>1
  <2>6. ASSUME NEW b \in Bucket, Watch(b)
        PROVE  (refilled(window.bucket) >= window.level - window.admitted * Whole)'
    <3>1. window'.bucket = b /\ window'.level = refilled(b) /\ window'.admitted = 0
      BY <2>6 DEF Watch, Opened
    <3>2. refilled(b)' = refilled(b) /\ refilled(b) \in Int
      BY <2>6, LevelUnchanged, LevelBounded DEF Watch
    <3> QED
      BY <2>2, <3>1, <3>2
  <2>7. CASE Tick
    <3>1. window' = window /\ back' = back /\ refilled(w)' \in Int /\ refilled(w) <= refilled(w)'
      BY <2>7, LevelAfterTick DEF Tick
    <3>2. refilled(w)' >= window.level - window.admitted * Whole
      BY <2>2, <2>3, <3>1
    <3> QED
      BY <2>1, <3>1, <3>2
  <2>8. CASE SetBack
    <3>1. back' = back + 1 /\ window' = window
      BY <2>8 DEF SetBack
    <3>2. window'.back = window.back
      BY <3>1
    <3>3. back \in Nat /\ window.back \in 0..back
      BY DEF TypeOK
    <3>4. window.back # back + 1
      BY <3>3
    <3>5. back' # window'.back
      BY <3>1, <3>2, <3>4
    <3> QED
      BY <3>5
  <2>9. ASSUME NEW endpoint \in Endpoint, Refuse(endpoint)
        PROVE  (refilled(window.bucket) >= window.level - window.admitted * Whole)'
    BY <2>5, <2>9 DEF Refuse
  <2>10. CASE UNCHANGED vars
    BY <2>5, <2>10 DEF vars
  <2>11. CASE Recycle
    <3>1. CASE w = "pairing"
      <4>1. /\ window'.bucket = w /\ window'.level = Full(w) /\ window'.admitted = 0
            /\ bucket'[w] = None /\ UNCHANGED <<time, back>>
        BY <2>1, <2>11, <3>1 DEF Recycle, Opened
      <4>2. refilled(w)' = Full(w)
        BY <4>1, LevelOfNone
      <4> QED
        BY <2>2, <4>1, <4>2, FullIsNat
    <3>2. CASE w # "pairing"
      <4>1. UNCHANGED window /\ bucket'[w] = bucket[w] /\ UNCHANGED <<time, back>>
        BY <2>1, <2>11, <3>2 DEF Recycle
      <4>2. refilled(w)' = refilled(w)
        BY <4>1, LevelUnchanged
      <4> QED
        BY <2>1, <2>3, <4>1, <4>2
    <3> QED
      BY <3>1, <3>2
  <2> QED
    BY <2>4, <2>6, <2>7, <2>8, <2>9, <2>10, <2>11 DEF Next, enforceRateLimit, pairingRateLimit, Endpoint
<1> QED
  BY <1>1, <1>2, TypeCorrect, PTL DEF Spec

\* At the time of a refusal every bucket was last charged a second or more
\* before the time it promised.
LEMMA RetryStep == TypeOK /\ RetryInv /\ [Next]_vars => RetryInv'
<1> SUFFICES ASSUME TypeOK, RetryInv, [Next]_vars, back' = 0
             PROVE  /\ \A b \in Bucket : bucket'[b] # None => bucket'[b].lastRefillMs <= time'
                    /\ refusal' # None =>
                         \A b \in Bucket : bucket'[b] # None =>
                             bucket'[b].lastRefillMs + Second <= refusal'.retryAt
  BY DEF RetryInv
<1>1. time \in Nat /\ back \in Nat /\ Second \in Nat \ {0}
  BY SecondAssumption DEF TypeOK
<1>2. \A b \in Bucket : bucket[b] # None => bucket[b].lastRefillMs \in Int
  BY DEF TypeOK
<1>3. CASE UNCHANGED <<bucket, back, refusal>> /\ time' \in Nat /\ time <= time'
  BY <1>1, <1>2, <1>3 DEF RetryInv
<1>4. ASSUME NEW endpoint \in Endpoint, Admit(endpoint)
      PROVE  /\ refusal' = None
             /\ \A b \in Bucket : bucket'[b] # None => bucket'[b].lastRefillMs <= time'
  <2>1. back = 0 /\ now = time /\ time' = time /\ refusal' = None
    BY <1>1, <1>4 DEF Admit, now
  <2>2. ASSUME NEW b \in Bucket, bucket'[b] # None PROVE bucket'[b].lastRefillMs <= time'
    <3>1. CASE b \in bucketsFor(endpoint)
      <4>1. bucket'[b].lastRefillMs = now
        BY <1>4, <2>2, <3>1 DEF Admit, Consumed
      <4> QED
        BY <1>1, <2>1, <4>1
    <3>2. CASE b \notin bucketsFor(endpoint)
      <4>1. bucket'[b] = bucket[b]
        BY <1>4, <2>2, <3>2 DEF Admit
      <4> QED
        BY <2>1, <2>2, <4>1 DEF RetryInv
    <3> QED
      BY <3>1, <3>2
  <2> QED
    BY <2>1, <2>2
<1>5. ASSUME NEW endpoint \in Endpoint, Refuse(endpoint)
      PROVE  /\ UNCHANGED <<bucket, time, back>>
             /\ \A b \in Bucket : bucket'[b] # None =>
                    bucket'[b].lastRefillMs + Second <= refusal'.retryAt
  <2>1. PICK b \in Bucket : b = reported(endpoint)
    BY DEF reported, Bucket
  <2>2. refilled(b) < Whole
    <3>1. PICK c \in bucketsFor(endpoint) : ~allowed(c)
      BY <1>5 DEF Refuse
    <3>2. ~allowed(b)
      BY <2>1, <3>1 DEF reported, bucketsFor, Endpoint
    <3> QED
      BY <2>1, <3>2, LevelBounded, LimitAssumption DEF allowed
  <2>3. refilled(b) \in Nat /\ Rate[b] \in Nat \ {0} /\ Whole \in Nat
    BY LevelBounded, LimitAssumption
  <2>4. retryAfterMs(b) \in Nat /\ retryAfterMs(b) >= 1
    BY <2>2, <2>3 DEF retryAfterMs, Ceiling
  <2>5. retryAfterSeconds(b) \in Nat /\ retryAfterSeconds(b) >= 1
    BY <1>1, <2>4 DEF retryAfterSeconds, Ceiling
  <2>6. 1 * Second <= retryAfterSeconds(b) * Second
    BY <1>1, <2>5, TimesMonotone
  <2>7. refusal'.retryAt = time + Second * retryAfterSeconds(b)
    BY <1>5, <2>1 DEF Refuse
  <2>8. refusal'.retryAt \in Int /\ time + Second <= refusal'.retryAt
    BY <1>1, <2>5, <2>6, <2>7
  <2>9. UNCHANGED <<bucket, time, back>>
    BY <1>5 DEF Refuse
  <2> QED
    BY <1>1, <1>2, <2>8, <2>9 DEF RetryInv
<1>6. ASSUME NEW b \in Bucket, Watch(b) PROVE UNCHANGED <<bucket, time, back, refusal>>
  BY <1>6 DEF Watch
<1>7. CASE Tick
  BY <1>1, <1>3, <1>7 DEF Tick
<1>8. CASE SetBack
  BY <1>1, <1>8 DEF SetBack
<1>9. CASE UNCHANGED vars
  BY <1>1, <1>3, <1>9 DEF vars
<1>10. CASE \E endpoint \in Endpoint : Admit(endpoint)
  BY <1>4, <1>10
<1>11. CASE \E endpoint \in Endpoint : Refuse(endpoint)
  BY <1>5, <1>11 DEF RetryInv
<1>12. CASE \E b \in Bucket : Watch(b)
  BY <1>1, <1>3, <1>6, <1>12
<1>13. CASE Recycle
  <2>1. UNCHANGED <<time, back, refusal>> /\ back = 0
    BY <1>13 DEF Recycle
  <2> QED
    BY <1>1, <1>2, <1>13, <2>1, RecycledIsNone DEF RetryInv
<1> QED
  BY <1>7, <1>8, <1>9, <1>10, <1>11, <1>12, <1>13 DEF Next, enforceRateLimit, pairingRateLimit, Endpoint

\* The Retry-After of a refusal is kept: who comes back then, before anyone
\* else took a token and on a clock never set back, is admitted.
THEOREM RetriesAreAdmitted == Spec => []RetryIsAdmitted
<1>1. Init => RetryInv
  BY DEF Init, RetryInv
<1>2. TypeOK /\ RetryInv => RetryIsAdmitted
  <2> SUFFICES ASSUME TypeOK, RetryInv, refusal # None, back = 0, time >= refusal.retryAt,
                      NEW b \in bucketsFor(refusal.endpoint)
               PROVE  allowed(b)
    BY DEF RetryIsAdmitted
  <2>1. b \in Bucket
    BY BucketsForBuckets DEF TypeOK
  <2>2. /\ current(b).tokens \in 0..Full(b) /\ elapsed(b) \in Nat /\ Rate[b] \in Nat
        /\ elapsed(b) * Rate[b] \in Nat /\ Full(b) \in Nat /\ now \in Int
    BY <2>1, LevelBounded, FullIsNat
  <2>3. Full(b) >= Whole
    <3>1. Capacity[b] \in Nat /\ 1 <= Capacity[b] /\ Whole \in Nat
      BY <2>1, LimitAssumption
    <3>2. 1 * Whole <= Capacity[b] * Whole
      BY <3>1, TimesMonotone
    <3> QED
      BY <3>1, <3>2 DEF Full
  <2>4. CASE bucket[b] = None
    <3>1. current(b).tokens = Full(b)
      BY <2>4 DEF current
    <3>2. refilled(b) = Full(b)
      BY <2>2, <3>1 DEF refilled
    <3> QED
      BY <2>3, <3>2 DEF allowed
  <2>5. CASE bucket[b] # None
    <3>1. /\ current(b) = bucket[b] /\ bucket[b].lastRefillMs \in Int
          /\ bucket[b].lastRefillMs + Second <= refusal.retryAt /\ refusal.retryAt \in Int
      BY <2>1, <2>5 DEF current, RetryInv, TypeOK
    <3>2. time \in Nat /\ now = time /\ Second \in Nat \ {0} /\ Whole \in Nat
      BY LimitAssumption, SecondAssumption DEF TypeOK, now
    <3>3. Second <= elapsed(b)
      BY <3>1, <3>2 DEF elapsed
    <3>4. Second * Rate[b] <= elapsed(b) * Rate[b]
      BY <2>2, <3>2, <3>3, TimesMonotone
    <3>5. Second * Rate[b] >= Whole /\ Second * Rate[b] \in Nat
      BY <2>1, <2>2, <3>2, SecondAssumption
    <3>6. current(b).tokens + elapsed(b) * Rate[b] >= Whole
      BY <2>2, <3>2, <3>4, <3>5
    <3> QED
      BY <2>2, <2>3, <3>6 DEF refilled, allowed
  <2> QED
    BY <2>4, <2>5
<1> QED
  BY <1>1, <1>2, RetryStep, TypeCorrect, PTL DEF Spec
=============================================================================
