----------------------------- MODULE RateLimit -----------------------------
(***************************************************************************)
(* The keyed token bucket of internal/ratelimit, behind ExchangeCode and   *)
(* the admin diagnostics. A caller of Allow reads the clock before it      *)
(* takes the mutex, so callers enter the critical section with times that  *)
(* are out of order; the critical section itself is one step.              *)
(*                                                                         *)
(* Tokens are counted in fractions of a token: a token is Unit fractions,  *)
(* rate adds Rate of them per tick of the clock, a tick being the second   *)
(* that Retry-After is rounded to. The exchange limiter (5 tokens per      *)
(* minute, burst 10) is Unit = 12, Rate = 1, Burst = 120.                  *)
(***************************************************************************)
EXTENDS Integers

CONSTANTS
    Keys,      \* limiter keys, one per peer
    Callers,   \* goroutines in Allow
    Unit,      \* fractions of a token that one call costs
    Rate,      \* fractions refilled per tick
    Burst,     \* capacity of a bucket, in fractions
    TTL,       \* idle buckets older than this are swept
    MaxLag,    \* longest wait between reading the clock and getting the mutex
    MaxClock,  \* bound of the model
    None       \* no bucket, no time

Bucket == [tokens : 0..Burst, last : Nat]

\* New clamps the burst to one token and the rate to a positive one. An idle
\* bucket has refilled by the time it is swept.
ASSUME LimiterAssumption ==
    /\ Unit \in Nat \ {0}
    /\ Rate \in Nat \ {0}
    /\ Burst \in Nat /\ Burst >= Unit
    /\ TTL \in Nat /\ MaxLag \in Nat /\ MaxLag <= TTL
    /\ Rate * (TTL - MaxLag) >= Burst
    /\ MaxClock \in Nat
    /\ None \notin Int /\ None \notin Bucket

VARIABLES
    clock,
    bucket,    \* per key: its tokens and the time they were counted, or None
    lastSwip,  \* time of the last sweep
    call,      \* each caller's key and the time it read, None outside Allow
    \* What the properties observe.
    mark,      \* the start of a window of time, once it is chosen
    spent,     \* per key: fractions of tokens handed out since mark
    retryAt    \* per key: the earliest time promised to a denied caller

observed == <<mark, spent, retryAt>>
vars == <<clock, bucket, lastSwip, call, observed>>

\* The zero time.Time is more than any TTL before the first call.
Init ==
    /\ clock = 0
    /\ bucket = [k \in Keys |-> None]
    /\ lastSwip = -TTL
    /\ call = [p \in Callers |-> None]
    /\ mark = None
    /\ spent = [k \in Keys |-> 0]
    /\ retryAt = [k \in Keys |-> None]

-----------------------------------------------------------------------------

\* now := l.now(), then wait for the mutex.
ReadNow(p, k) ==
    /\ call[p] = None
    /\ call' = [call EXCEPT ![p] = [key |-> k, now |-> clock]]
    /\ UNCHANGED <<clock, bucket, lastSwip, observed>>

\* Mutant: only buckets idle for twice the TTL are dropped.
IdleLong(b, n) == b # None /\ n - b.last > 2 * TTL

Idle(b, n) == b # None /\ n - b.last > TTL

SweepDue(n) == n - lastSwip >= TTL

\* sweepLocked: the buckets that are left.
Swept(n) ==
    [k \in Keys |-> IF SweepDue(n) /\ Idle(bucket[k], n) THEN None ELSE bucket[k]]

Capped(tokens) == IF tokens > Burst THEN Burst ELSE tokens

\* Mutant: the time of the refill is not recorded.
RefilledTwice(b, n) ==
    IF b = None THEN [tokens |-> Burst, last |-> n]
    ELSE IF n > b.last
         THEN [tokens |-> Capped(b.tokens + Rate * (n - b.last)), last |-> b.last]
         ELSE b

\* Mutant: the refill is not capped.
RefilledUncapped(b, n) ==
    IF b = None THEN [tokens |-> Burst, last |-> n]
    ELSE IF n > b.last
         THEN [tokens |-> b.tokens + Rate * (n - b.last), last |-> n]
         ELSE b

\* A new bucket is full. An old one is refilled for the time that passed; a
\* caller whose time is older than the bucket's leaves it as it is.
Refilled(b, n) ==
    IF b = None THEN [tokens |-> Burst, last |-> n]
    ELSE IF n > b.last
         THEN [tokens |-> Capped(b.tokens + Rate * (n - b.last)), last |-> n]
         ELSE b

\* Mutant: rounded down.
RetryAfterFloor(tokens) ==
    IF Unit - tokens < Rate THEN 1 ELSE (Unit - tokens) \div Rate

\* The wait for the missing fractions, rounded up to whole seconds.
RetryAfter(tokens) == (Unit - tokens + Rate - 1) \div Rate

Earlier(t, u) == IF t = None \/ u < t THEN u ELSE t

\* The critical section of Allow, for key k at time n.
AllowLocked(k, n) ==
    LET swept == Swept(n)
        b == Refilled(swept[k], n)
        granted == b.tokens >= Unit
    IN  /\ lastSwip' = IF SweepDue(n) THEN n ELSE lastSwip
        /\ bucket' = [swept EXCEPT ![k] =
                         IF granted THEN [tokens |-> b.tokens - Unit, last |-> b.last] ELSE b]
        /\ spent' = [spent EXCEPT ![k] = IF granted /\ mark # None THEN @ + Unit ELSE @]
        /\ retryAt' = [retryAt EXCEPT ![k] =
                          IF granted THEN None ELSE Earlier(@, clock + RetryAfter(b.tokens))]

Allow(p) ==
    /\ call[p] # None
    /\ AllowLocked(call[p].key, call[p].now)
    /\ call' = [call EXCEPT ![p] = None]
    /\ UNCHANGED <<clock, mark>>

\* The scheduler lets no caller wait for the mutex longer than MaxLag.
Tick ==
    /\ clock < MaxClock
    /\ \A p \in Callers : call[p] # None => clock - call[p].now < MaxLag
    /\ clock' = clock + 1
    /\ UNCHANGED <<bucket, lastSwip, call, observed>>

\* The properties look at what happens from an arbitrary moment on.
SetMark ==
    /\ mark = None
    /\ mark' = clock
    /\ UNCHANGED <<clock, bucket, lastSwip, call, spent, retryAt>>

Next ==
    \/ \E p \in Callers, k \in Keys : ReadNow(p, k)
    \/ \E p \in Callers : Allow(p)
    \/ Tick
    \/ SetMark

Spec == Init /\ [][Next]_vars

-----------------------------------------------------------------------------
(* Correctness *)

\* Type invariant; in particular a bucket never holds more than the burst and
\* never goes into debt.
TypeOK ==
    /\ clock \in Nat
    /\ bucket \in [Keys -> Bucket \cup {None}]
    /\ lastSwip \in Int
    /\ call \in [Callers -> [key : Keys, now : Nat] \cup {None}]
    /\ mark \in Nat \cup {None}
    /\ spent \in [Keys -> Nat]
    /\ retryAt \in [Keys -> Nat \cup {None}]

\* In any window of time a key is handed out at most the burst and what the rate
\* refills in the window and one lag: whatever the interleaving of the callers,
\* the order of their times, and the buckets that are swept and created anew.
WindowBound ==
    mark # None =>
        \A k \in Keys : spent[k] <= Burst + Rate * (clock - mark + MaxLag)

Returns(p) == call[p] # None /\ call'[p] = None

\* A caller that was told to come back after retryAfter, and does, on a key that
\* nobody was served on meanwhile, is served, which ends the promise.
HonestRetryAfter ==
    [][\A p \in Callers :
          /\ Returns(p)
          /\ retryAt[call[p].key] # None
          /\ call[p].now >= retryAt[call[p].key]
          => retryAt'[call[p].key] = None]_vars

\* No call of Allow leaves behind a bucket that has been idle for more than
\* twice the TTL: keys that are never seen again do not accumulate.
RetentionBound ==
    [][\A p \in Callers : Returns(p) =>
          \A k \in Keys : bucket'[k] # None => call[p].now - bucket'[k].last <= 2 * TTL]_vars

-----------------------------------------------------------------------------
(* Why they hold: the inductive invariants behind the proofs. *)

\* Recorded times lie in the past, those of waiting callers no more than a lag.
Times ==
    /\ lastSwip <= clock
    /\ \A k \in Keys : bucket[k] # None => bucket[k].last <= clock
    /\ \A p \in Callers : call[p] # None =>
          call[p].now <= clock /\ clock - call[p].now <= MaxLag
    /\ mark # None => mark <= clock

\* What a key has been handed out since mark, and could be at once, is what the
\* rate refilled since a lag before mark. A bucket that was swept had refilled.
WindowOf(k) ==
    \/ spent[k] = 0
    \/ /\ mark # None
       /\ bucket[k] # None
       /\ bucket[k].last >= mark - MaxLag
       /\ spent[k] + bucket[k].tokens <= Burst + Rate * (bucket[k].last - (mark - MaxLag))
    \/ /\ mark # None
       /\ bucket[k] = None
       /\ spent[k] <= Rate * (clock - mark)

\* At the time that was promised, the bucket holds a token.
PromiseOf(k) ==
    retryAt[k] # None /\ bucket[k] # None =>
        bucket[k].tokens + Rate * (retryAt[k] - bucket[k].last) >= Unit

\* A sweep leaves no bucket that was idle.
RetentionOf(k) == bucket[k] # None => lastSwip - bucket[k].last <= TTL

LimiterInv ==
    /\ Times
    /\ \A k \in Keys : WindowOf(k) /\ PromiseOf(k) /\ RetentionOf(k)

=============================================================================
