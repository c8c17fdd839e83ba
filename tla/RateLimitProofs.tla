--------------------------- MODULE RateLimitProofs ---------------------------
(***************************************************************************)
(* The token bucket for any rate, burst, TTL and lag that satisfy          *)
(* LimiterAssumption, and any sets of keys and callers.                    *)
(***************************************************************************)
EXTENDS RateLimit, TLAPS

\* Arithmetic with the rate.
LEMMA RateMonotonic == \A a, b \in Int : a <= b => Rate * a <= Rate * b
  BY LimiterAssumption

LEMMA RatePositive == \A a \in Nat : Rate * a \in Nat
  BY LimiterAssumption

LEMMA RateSum == \A a, b \in Int : Rate * a \in Int /\ Rate * (a + b) = Rate * a + Rate * b
  BY LimiterAssumption

\* Waiting for RetryAfter refills at least the fractions that are missing.
LEMMA RetryAfterEnough ==
  ASSUME NEW t \in Nat, t < Unit
  PROVE  RetryAfter(t) \in Nat /\ Rate * RetryAfter(t) >= Unit - t
<1> DEFINE x == Unit - t + Rate - 1
           q == x \div Rate
<1>1. x \in Nat /\ Rate \in Nat /\ Rate > 0
  BY LimiterAssumption
<1>2. q \in Nat /\ x < Rate * q + Rate
  BY <1>1
<1> QED
  BY <1>1, <1>2, LimiterAssumption DEF RetryAfter

-----------------------------------------------------------------------------
(* The critical section, for key k at time n. *)

InSection(k, n) ==
    /\ k \in Keys /\ n \in Nat
    /\ n <= clock /\ clock - n <= MaxLag

Mine(k, n) == Refilled(Swept(n)[k], n)

LEMMA SweptType ==
  ASSUME TypeOK, NEW n \in Nat
  PROVE  /\ Swept(n) \in [Keys -> Bucket \cup {None}]
         /\ \A j \in Keys : \/ Swept(n)[j] = bucket[j]
                            \/ /\ Swept(n)[j] = None
                               /\ bucket[j] # None /\ n - bucket[j].last > TTL
                               /\ SweepDue(n)
  BY DEF TypeOK, Swept, Idle

LEMMA MineType ==
  ASSUME TypeOK, Times, NEW k \in Keys, NEW n \in Nat, InSection(k, n)
  PROVE  /\ Mine(k, n) \in Bucket
         /\ Mine(k, n).last >= n /\ Mine(k, n).last <= clock
<1>1. CASE Swept(n)[k] = None
  BY <1>1, LimiterAssumption DEF Mine, Refilled, Bucket, InSection
<1>2. CASE Swept(n)[k] # None
  <2>1. Swept(n)[k] = bucket[k] /\ bucket[k] # None /\ bucket[k] \in Bucket
    BY <1>2, SweptType DEF TypeOK
  <2>2. Rate * (n - bucket[k].last) \in Int
    <3>1. n - bucket[k].last \in Int
      BY <2>1 DEF Bucket
    <3> QED
      BY <3>1, RateSum
  <2>3. n > bucket[k].last => Rate * (n - bucket[k].last) >= 0
    <3>1. n > bucket[k].last => n - bucket[k].last \in Nat
      BY <2>1 DEF Bucket
    <3> QED
      BY <3>1, RatePositive
  <2> QED
    BY <2>1, <2>2, <2>3, LimiterAssumption DEF Mine, Refilled, Capped, Bucket, Times, InSection
<1> QED
  BY <1>1, <1>2

\* Refilling keeps the account of the window.
LEMMA MineWindow ==
  ASSUME TypeOK, Times, NEW k \in Keys, NEW n \in Nat, InSection(k, n), WindowOf(k), mark # None
  PROVE  /\ Mine(k, n).last >= mark - MaxLag
         /\ spent[k] + Mine(k, n).tokens <= Burst + Rate * (Mine(k, n).last - (mark - MaxLag))
<1> DEFINE b == Mine(k, n)
           m == mark - MaxLag
<1>0. b \in Bucket /\ b.last >= n /\ b.last <= clock /\ mark \in Nat /\ mark <= clock
      /\ spent[k] \in Nat /\ MaxLag \in Nat /\ Burst \in Nat /\ Rate \in Nat
  BY MineType, LimiterAssumption DEF TypeOK, Times
<1>1. b.last >= m /\ n >= m
  BY <1>0 DEF InSection, TypeOK, Bucket
<1>2. Rate * (b.last - m) \in Nat
  <2>1. b.last - m \in Nat
    BY <1>0, <1>1 DEF Bucket
  <2> QED
    BY <2>1, RatePositive
<1>3. CASE spent[k] = 0
  BY <1>0, <1>1, <1>2, <1>3 DEF Bucket
<1>4. CASE bucket[k] # None /\ spent[k] # 0
  <2>1. /\ bucket[k].last >= m /\ bucket[k] \in Bucket /\ bucket[k].last \in Nat
        /\ bucket[k].tokens \in Nat
        /\ spent[k] + bucket[k].tokens <= Burst + Rate * (bucket[k].last - m)
    BY <1>4 DEF WindowOf, TypeOK, Bucket
  <2>2. CASE Swept(n)[k] = None
    <3>1. n - bucket[k].last > TTL /\ b.tokens = Burst /\ b.last = n
      BY <2>2, <1>4, SweptType DEF Mine, Refilled
    <3>2. (TTL - MaxLag) + (bucket[k].last - m) <= n - m
      BY <1>0, <2>1, <3>1, LimiterAssumption
    <3>3. Rate * (TTL - MaxLag) + Rate * (bucket[k].last - m) <= Rate * (n - m)
      BY <1>0, <2>1, <3>2, RateMonotonic, RateSum, LimiterAssumption
    <3>4. /\ Rate * (TTL - MaxLag) \in Int /\ Rate * (bucket[k].last - m) \in Int
          /\ Rate * (n - m) \in Int /\ Rate * (TTL - MaxLag) >= Burst
      BY <1>0, <2>1, RateSum, LimiterAssumption
    <3> QED
      BY <1>0, <1>1, <2>1, <3>1, <3>3, <3>4
  <2>3. CASE Swept(n)[k] # None
    <3>1. Swept(n)[k] = bucket[k]
      BY <2>3, SweptType
    <3>2. CASE n > bucket[k].last
      <4>0. n - bucket[k].last \in Int /\ bucket[k].last - m \in Int /\ n - m \in Int
        BY <1>0, <2>1
      <4>1. b.last = n /\ b.tokens <= bucket[k].tokens + Rate * (n - bucket[k].last)
        <5>1. Rate * (n - bucket[k].last) \in Int
          BY <4>0, RateSum
        <5> QED
          BY <1>0, <2>1, <2>3, <3>1, <3>2, <5>1 DEF Mine, Refilled, Capped
      <4>2. (bucket[k].last - m) + (n - bucket[k].last) = n - m
        BY <1>0, <2>1
      <4>3. Rate * (n - m) = Rate * (bucket[k].last - m) + Rate * (n - bucket[k].last)
        BY <4>0, <4>2, RateSum
      <4>4. /\ Rate * (n - m) \in Int /\ Rate * (bucket[k].last - m) \in Int
            /\ Rate * (n - bucket[k].last) \in Int
        BY <4>0, RateSum
      <4> QED
        BY <1>0, <1>1, <2>1, <4>1, <4>3, <4>4 DEF Bucket
    <3>3. CASE ~(n > bucket[k].last)
      BY <1>1, <2>1, <2>3, <3>1, <3>3 DEF Mine, Refilled
    <3> QED
      BY <3>2, <3>3
  <2> QED
    BY <2>2, <2>3
<1>5. CASE bucket[k] = None /\ spent[k] # 0
  <2>1. spent[k] <= Rate * (clock - mark)
    BY <1>5 DEF WindowOf
  <2>2. b.tokens = Burst /\ b.last = n
    BY <1>5, SweptType DEF Mine, Refilled
  <2>3. clock - mark <= n - m
    BY <1>0 DEF InSection, TypeOK
  <2>4. Rate * (clock - mark) <= Rate * (n - m) /\ Rate * (clock - mark) \in Int
    BY <1>0, <2>3, RateMonotonic, RateSum DEF TypeOK
  <2> QED
    BY <1>0, <1>1, <1>2, <2>1, <2>2, <2>4
<1> QED
  BY <1>3, <1>4, <1>5


\* A refill that does not bring the bucket to a whole token is not capped.
LEMMA MinePromise ==
  ASSUME TypeOK, Times, NEW k \in Keys, NEW n \in Nat, InSection(k, n), PromiseOf(k),
         retryAt[k] # None, Mine(k, n).tokens < Unit
  PROVE  Mine(k, n).tokens + Rate * (retryAt[k] - Mine(k, n).last) >= Unit
<1> DEFINE b == Mine(k, n)
           r == retryAt[k]
<1>1. Swept(n)[k] = bucket[k] /\ bucket[k] # None /\ bucket[k] \in Bucket /\ r \in Nat
  BY SweptType, LimiterAssumption DEF Mine, Refilled, TypeOK
<1>2. /\ bucket[k].tokens \in Nat /\ bucket[k].last \in Nat
      /\ bucket[k].tokens + Rate * (r - bucket[k].last) >= Unit
  BY <1>1 DEF PromiseOf, Bucket
<1>3. CASE n > bucket[k].last
  <2>0. n - bucket[k].last \in Int /\ r - n \in Int
    BY <1>1, <1>2
  <2>1. Rate * (n - bucket[k].last) \in Int /\ Rate * (r - n) \in Int
    BY <2>0, RateSum
  <2>2. b.last = n /\ b.tokens = bucket[k].tokens + Rate * (n - bucket[k].last)
    BY <1>1, <1>2, <1>3, <2>1, LimiterAssumption DEF Mine, Refilled, Capped
  <2>3. (n - bucket[k].last) + (r - n) = r - bucket[k].last
    BY <1>1, <1>2
  <2>4. Rate * (r - bucket[k].last) = Rate * (n - bucket[k].last) + Rate * (r - n)
    BY <2>0, <2>3, RateSum
  <2> QED
    BY <1>2, <2>1, <2>2, <2>4, LimiterAssumption
<1>4. CASE ~(n > bucket[k].last)
  BY <1>1, <1>2, <1>4 DEF Mine, Refilled
<1> QED
  BY <1>3, <1>4

-----------------------------------------------------------------------------

\* The type of the limiter's state, in particular that a bucket holds neither
\* more than the burst nor less than nothing.
LEMMA AllowType ==
  ASSUME TypeOK, Times, NEW p \in Callers, Allow(p)
  PROVE  TypeOK' /\ InSection(call[p].key, call[p].now) /\ call[p].key \in Keys /\ call[p].now \in Nat
<1> DEFINE k == call[p].key
           n == call[p].now
           b == Mine(k, n)
<1>1. k \in Keys /\ n \in Nat /\ InSection(k, n)
  BY DEF Allow, TypeOK, Times, InSection
<1>2. b \in Bucket
  BY <1>1, MineType
<1>3. Swept(n) \in [Keys -> Bucket \cup {None}]
  BY <1>1, SweptType
<1>4. bucket' \in [Keys -> Bucket \cup {None}]
  BY <1>1, <1>2, <1>3, LimiterAssumption DEF Allow, AllowLocked, Mine, Bucket
<1>5. b.tokens < Unit => RetryAfter(b.tokens) \in Nat
  BY <1>2, RetryAfterEnough DEF Bucket
<1>6. retryAt' \in [Keys -> Nat \cup {None}]
  BY <1>1, <1>2, <1>5, LimiterAssumption DEF Allow, AllowLocked, Mine, Earlier, TypeOK, Bucket
<1>7. spent' \in [Keys -> Nat] /\ lastSwip' \in Int
  BY <1>1, LimiterAssumption DEF Allow, AllowLocked, TypeOK
<1> QED
  BY <1>1, <1>4, <1>6, <1>7 DEF Allow, TypeOK

LEMMA AllowTimes ==
  ASSUME TypeOK, Times, NEW p \in Callers, Allow(p)
  PROVE  Times'
<1> DEFINE k == call[p].key
           n == call[p].now
           b == Mine(k, n)
<1>1. k \in Keys /\ n \in Nat /\ InSection(k, n)
  BY AllowType
<1>2. b \in Bucket /\ b.last <= clock
  BY <1>1, MineType
<1>3. \A j \in Keys : bucket'[j] # None => bucket'[j].last <= clock
  <2>1. bucket'[k].last = b.last
    BY <1>1, <1>2, SweptType DEF Allow, AllowLocked, Mine, Bucket
  <2>2. \A j \in Keys \ {k} : bucket'[j] \in {bucket[j], None}
    BY <1>1, SweptType DEF Allow, AllowLocked
  <2> QED
    BY <1>2, <2>1, <2>2 DEF Times
<1> QED
  BY <1>1, <1>3 DEF Allow, AllowLocked, Times, InSection, TypeOK


\* The account of the window after a call: the key's own bucket was refilled and
\* perhaps charged, any other was kept or, being idle, swept.
LEMMA AllowWindow ==
  ASSUME TypeOK, LimiterInv, NEW p \in Callers, Allow(p), NEW j \in Keys
  PROVE  WindowOf(j)'
<1> DEFINE k == call[p].key
           n == call[p].now
           b == Mine(k, n)
           m == mark - MaxLag
<1>0. Times /\ WindowOf(j)
  BY DEF LimiterInv
<1>1. k \in Keys /\ n \in Nat /\ InSection(k, n) /\ UNCHANGED <<clock, mark>>
  BY <1>0, AllowType DEF Allow
<1>2. CASE mark = None
  BY <1>0, <1>1, <1>2 DEF Allow, AllowLocked, WindowOf, TypeOK
<1>3. CASE mark # None /\ j = k
  <2>1. b \in Bucket /\ b.last >= m /\ spent[k] + b.tokens <= Burst + Rate * (b.last - m)
    BY <1>0, <1>1, <1>3, MineType, MineWindow
  <2>2. b.tokens \in Nat /\ b.last \in Nat /\ spent[k] \in Nat /\ mark \in Nat
    BY <1>1, <1>3, <2>1 DEF Bucket, TypeOK
  <2>3. \/ /\ b.tokens >= Unit
           /\ bucket'[k] = [tokens |-> b.tokens - Unit, last |-> b.last]
           /\ spent'[k] = spent[k] + Unit
        \/ bucket'[k] = b /\ spent'[k] = spent[k]
    BY <1>1, <1>3, SweptType DEF Allow, AllowLocked, Mine, TypeOK
  <2>4. bucket'[k] # None
    <3>1. b.tokens >= Unit => [tokens |-> b.tokens - Unit, last |-> b.last] \in Bucket
      BY <2>1, LimiterAssumption DEF Bucket
    <3> QED
      BY <2>1, <2>3, <3>1, LimiterAssumption
  <2>5. Rate * (b.last - m) \in Int /\ Burst \in Nat /\ Unit \in Nat
    <3>1. b.last - m \in Int
      BY <2>2, LimiterAssumption
    <3> QED
      BY <3>1, RateSum, LimiterAssumption
  <2> QED
    BY <1>1, <1>3, <2>1, <2>2, <2>3, <2>4, <2>5 DEF WindowOf
<1>4. CASE mark # None /\ j # k
  <2>1. spent'[j] = spent[j] /\ bucket'[j] = Swept(n)[j]
    BY <1>1, <1>4, SweptType DEF Allow, AllowLocked, TypeOK
  <2>2. CASE bucket'[j] = bucket[j]
    BY <1>0, <1>1, <2>1, <2>2 DEF WindowOf
  <2>3. CASE bucket'[j] = None /\ bucket[j] # None /\ n - bucket[j].last > TTL
    <3>1. CASE spent[j] = 0
      BY <2>1, <3>1 DEF WindowOf
    <3>2. CASE spent[j] # 0
      <4>1. /\ bucket[j] \in Bucket /\ bucket[j].last \in Nat /\ bucket[j].tokens \in Nat
            /\ spent[j] \in Nat /\ mark \in Nat /\ clock \in Nat
            /\ spent[j] + bucket[j].tokens <= Burst + Rate * (bucket[j].last - m)
        BY <1>0, <1>4, <2>3, <3>2 DEF WindowOf, TypeOK, Bucket
      <4>2. (TTL - MaxLag) + (bucket[j].last - m) <= clock - mark
        BY <1>1, <2>3, <4>1, LimiterAssumption DEF InSection
      <4>3. TTL - MaxLag \in Int /\ bucket[j].last - m \in Int /\ clock - mark \in Int
        BY <4>1, LimiterAssumption
      <4>4. Rate * ((TTL - MaxLag) + (bucket[j].last - m)) <= Rate * (clock - mark)
        BY <4>2, <4>3, RateMonotonic
      <4>5. Rate * ((TTL - MaxLag) + (bucket[j].last - m))
              = Rate * (TTL - MaxLag) + Rate * (bucket[j].last - m)
        BY <4>3, RateSum
      <4>6. /\ Rate * (TTL - MaxLag) \in Int /\ Rate * (bucket[j].last - m) \in Int
            /\ Rate * (clock - mark) \in Int
            /\ Rate * (TTL - MaxLag) >= Burst /\ Burst \in Nat
        BY <4>3, RateSum, LimiterAssumption
      <4>7. spent[j] <= Rate * (clock - mark)
        BY <4>1, <4>4, <4>5, <4>6
      <4> QED
        BY <1>1, <1>4, <2>1, <2>3, <4>7 DEF WindowOf
    <3> QED
      BY <3>1, <3>2
  <2> QED
    BY <1>1, <2>1, <2>2, <2>3, SweptType
<1> QED
  BY <1>2, <1>3, <1>4


LEMMA AllowPromise ==
  ASSUME TypeOK, LimiterInv, NEW p \in Callers, Allow(p), NEW j \in Keys
  PROVE  PromiseOf(j)'
<1> DEFINE k == call[p].key
           n == call[p].now
           b == Mine(k, n)
<1>0. Times /\ PromiseOf(j)
  BY DEF LimiterInv
<1>1. k \in Keys /\ n \in Nat /\ InSection(k, n) /\ UNCHANGED <<clock, mark>>
  BY <1>0, AllowType DEF Allow
<1>2. b \in Bucket /\ b.last <= clock /\ b.tokens \in Nat /\ b.last \in Nat /\ clock \in Nat
  BY <1>0, <1>1, MineType DEF Bucket, TypeOK
<1>3. CASE j = k /\ b.tokens >= Unit
  BY <1>1, <1>3 DEF Allow, AllowLocked, Mine, PromiseOf, TypeOK
<1>4. CASE j = k /\ b.tokens < Unit
  <2> DEFINE w == RetryAfter(b.tokens)
  <2>1. ~(b.tokens >= Unit) /\ w \in Nat /\ Rate * w >= Unit - b.tokens
    BY <1>2, <1>4, RetryAfterEnough, LimiterAssumption
  <2>2. bucket'[k] = b /\ retryAt'[k] = Earlier(retryAt[k], clock + w)
    BY <1>1, <2>1, SweptType DEF Allow, AllowLocked, Mine, TypeOK
  <2>3. b.tokens + Rate * ((clock + w) - b.last) >= Unit
    <3>1. w \in Int /\ (clock + w) - b.last \in Int /\ w <= (clock + w) - b.last
      BY <1>2, <2>1
    <3>2. Rate * w <= Rate * ((clock + w) - b.last)
      BY <3>1, RateMonotonic
    <3>3. Rate * w \in Int /\ Rate * ((clock + w) - b.last) \in Int
      BY <3>1, RateSum
    <3> QED
      BY <1>2, <2>1, <3>2, <3>3, LimiterAssumption
  <2>4. CASE retryAt'[k] = clock + w
    BY <1>4, <2>2, <2>3, <2>4 DEF PromiseOf
  <2>5. CASE retryAt'[k] = retryAt[k] /\ retryAt[k] # None
    <3>1. b.tokens + Rate * (retryAt[k] - b.last) >= Unit
      BY <1>0, <1>1, <1>4, <2>5, MinePromise
    <3> QED
      BY <1>4, <2>2, <2>5, <3>1 DEF PromiseOf
  <2> QED
    BY <2>2, <2>4, <2>5 DEF Earlier
<1>5. CASE j # k
  <2>1. retryAt'[j] = retryAt[j] /\ bucket'[j] \in {bucket[j], None}
    BY <1>1, <1>5, SweptType DEF Allow, AllowLocked, TypeOK
  <2> QED
    BY <1>0, <2>1 DEF PromiseOf
<1> QED
  BY <1>2, <1>3, <1>4, <1>5, LimiterAssumption

LEMMA AllowRetention ==
  ASSUME TypeOK, LimiterInv, NEW p \in Callers, Allow(p), NEW j \in Keys
  PROVE  /\ RetentionOf(j)'
         /\ bucket'[j] # None => call[p].now - bucket'[j].last <= 2 * TTL
<1> DEFINE k == call[p].key
           n == call[p].now
           b == Mine(k, n)
<1>0. Times /\ RetentionOf(j)
  BY DEF LimiterInv
<1>1. k \in Keys /\ n \in Nat /\ InSection(k, n)
  BY <1>0, AllowType
<1>2. /\ lastSwip \in Int /\ lastSwip <= clock /\ clock \in Nat /\ TTL \in Nat
      /\ MaxLag \in Nat /\ MaxLag <= TTL
  BY <1>0, LimiterAssumption DEF TypeOK, Times
<1>3. \/ SweepDue(n) /\ lastSwip' = n
      \/ ~SweepDue(n) /\ lastSwip' = lastSwip
  BY DEF Allow, AllowLocked
<1>4. CASE j = k
  <2>1. b \in Bucket /\ b.last >= n /\ bucket'[k].last = b.last
    BY <1>0, <1>1, MineType, SweptType DEF Allow, AllowLocked, Mine, Bucket
  <2> QED
    BY <1>1, <1>2, <1>3, <1>4, <2>1 DEF RetentionOf, InSection, Bucket
<1>5. CASE j # k /\ bucket'[j] # None
  <2>1. bucket'[j] = Swept(n)[j]
    BY <1>1, <1>5, SweptType DEF Allow, AllowLocked
  <2>2. bucket'[j] = bucket[j] /\ bucket[j] \in Bucket /\ bucket[j].last \in Nat
    BY <1>1, <1>5, <2>1, SweptType DEF TypeOK, Bucket
  <2>3. SweepDue(n) => n - bucket[j].last <= TTL
    BY <1>1, <1>5, <2>1, <2>2, <1>2 DEF Swept, Idle
  <2> QED
    BY <1>0, <1>1, <1>2, <1>3, <1>5, <2>2, <2>3 DEF RetentionOf, SweepDue
<1>6. CASE j # k /\ bucket'[j] = None
  BY <1>6 DEF RetentionOf
<1> QED
  BY <1>4, <1>5, <1>6


-----------------------------------------------------------------------------

LEMMA LimiterInit == Init => TypeOK /\ LimiterInv
<1> SUFFICES ASSUME Init
             PROVE  TypeOK /\ LimiterInv
  OBVIOUS
<1>1. TypeOK
  BY LimiterAssumption DEF Init, TypeOK
<1>2. Times
  BY LimiterAssumption DEF Init, Times
<1>3. \A k \in Keys : WindowOf(k) /\ PromiseOf(k) /\ RetentionOf(k)
  BY DEF Init, WindowOf, PromiseOf, RetentionOf
<1> QED
  BY <1>1, <1>2, <1>3 DEF LimiterInv

LEMMA LimiterStep == TypeOK /\ LimiterInv /\ [Next]_vars => (TypeOK /\ LimiterInv)'
<1> SUFFICES ASSUME TypeOK, LimiterInv, [Next]_vars
             PROVE  TypeOK' /\ LimiterInv'
  OBVIOUS
<1>1. ASSUME NEW p \in Callers, NEW k \in Keys, ReadNow(p, k)
      PROVE  TypeOK' /\ LimiterInv'
  <2>1. TypeOK' /\ Times'
    BY <1>1, LimiterAssumption DEF ReadNow, LimiterInv, TypeOK, Times, observed
  <2>2. \A j \in Keys : WindowOf(j)' /\ PromiseOf(j)' /\ RetentionOf(j)'
    BY <1>1 DEF ReadNow, LimiterInv, WindowOf, PromiseOf, RetentionOf, observed
  <2> QED
    BY <2>1, <2>2 DEF LimiterInv
<1>2. ASSUME NEW p \in Callers, Allow(p)
      PROVE  TypeOK' /\ LimiterInv'
  <2>1. Times
    BY DEF LimiterInv
  <2>2. TypeOK' /\ Times'
    BY <1>2, <2>1, AllowType, AllowTimes
  <2>3. \A j \in Keys : WindowOf(j)' /\ PromiseOf(j)' /\ RetentionOf(j)'
    BY <1>2, AllowWindow, AllowPromise, AllowRetention
  <2> QED
    BY <2>2, <2>3 DEF LimiterInv
<1>3. CASE Tick
  <2>1. TypeOK' /\ Times'
    <3>1. TypeOK'
      BY <1>3 DEF Tick, TypeOK, observed
    <3>2. \A p \in Callers : call[p] # None =>
             call[p].now \in Nat /\ call[p].now <= clock' /\ clock' - call[p].now <= MaxLag
      BY <1>3, LimiterAssumption DEF Tick, LimiterInv, TypeOK, Times
    <3>3. lastSwip <= clock' /\ (mark # None => mark <= clock')
      BY <1>3 DEF Tick, LimiterInv, TypeOK, Times
    <3>4. \A k \in Keys : bucket[k] # None => bucket[k].last <= clock'
      BY <1>3 DEF Tick, LimiterInv, TypeOK, Times, Bucket
    <3> QED
      BY <1>3, <3>1, <3>2, <3>3, <3>4 DEF Tick, Times, observed
  <2>2. \A j \in Keys : WindowOf(j)'
    <3> SUFFICES ASSUME NEW j \in Keys
                 PROVE  WindowOf(j)'
      OBVIOUS
    <3>1. mark # None => Rate * (clock - mark) <= Rate * (clock' - mark)
      <4>1. mark # None => /\ clock - mark \in Int /\ clock' - mark \in Int
                           /\ clock - mark <= clock' - mark
        BY <1>3 DEF Tick, TypeOK
      <4> QED
        BY <4>1, RateMonotonic
    <3>2. mark # None => Rate * (clock - mark) \in Int /\ Rate * (clock' - mark) \in Int
      <4>1. mark # None => clock - mark \in Int /\ clock' - mark \in Int
        BY <1>3 DEF Tick, TypeOK
      <4> QED
        BY <4>1, RateSum
    <3> QED
      BY <1>3, <3>1, <3>2 DEF Tick, LimiterInv, WindowOf, TypeOK, observed
  <2>3. \A j \in Keys : PromiseOf(j)' /\ RetentionOf(j)'
    BY <1>3 DEF Tick, LimiterInv, PromiseOf, RetentionOf, observed
  <2> QED
    BY <2>1, <2>2, <2>3 DEF LimiterInv
<1>4. CASE SetMark
  <2>1. TypeOK' /\ Times'
    BY <1>4 DEF SetMark, LimiterInv, TypeOK, Times
  <2>2. \A j \in Keys : WindowOf(j)' /\ PromiseOf(j)' /\ RetentionOf(j)'
    BY <1>4 DEF SetMark, LimiterInv, WindowOf, PromiseOf, RetentionOf
  <2> QED
    BY <2>1, <2>2 DEF LimiterInv
<1>5. CASE UNCHANGED vars
  <2>1. TypeOK' /\ Times'
    BY <1>5 DEF LimiterInv, TypeOK, Times, vars, observed
  <2>2. \A j \in Keys : WindowOf(j)' /\ PromiseOf(j)' /\ RetentionOf(j)'
    BY <1>5 DEF LimiterInv, WindowOf, PromiseOf, RetentionOf, vars, observed
  <2> QED
    BY <2>1, <2>2 DEF LimiterInv
<1> QED
  BY <1>1, <1>2, <1>3, <1>4, <1>5 DEF Next

LEMMA LimiterInvariant == Spec => [](TypeOK /\ LimiterInv)
  BY LimiterInit, LimiterStep, PTL DEF Spec

\* A bucket of the limiter holds between nothing and the burst, whatever the
\* order in which the callers' times arrive.
THEOREM BucketsAreBounded == Spec => []TypeOK
  BY LimiterInvariant, PTL

\* Allow never hands out more, in any window of time, than the burst and the
\* refill of that window and one lag; sweeping a bucket forgets nothing.
THEOREM RateIsEnforced == Spec => []WindowBound
<1>1. TypeOK /\ LimiterInv => WindowBound
  <2> SUFFICES ASSUME TypeOK, LimiterInv, mark # None, NEW k \in Keys
               PROVE  spent[k] <= Burst + Rate * (clock - mark + MaxLag)
    BY DEF WindowBound
  <2> DEFINE elapsed == clock - mark + MaxLag
  <2>1. /\ clock - mark \in Nat /\ elapsed \in Nat /\ clock - mark <= elapsed
        /\ clock \in Nat /\ mark \in Nat /\ MaxLag \in Nat /\ Burst \in Nat /\ spent[k] \in Nat
    <3>1. /\ clock \in Nat /\ mark \in Nat /\ mark <= clock /\ spent[k] \in Nat
          /\ MaxLag \in Nat /\ Burst \in Nat
      BY LimiterAssumption DEF TypeOK, LimiterInv, Times
    <3> QED
      BY <3>1
  <2>2. Rate * elapsed \in Nat
    BY <2>1, RatePositive
  <2>3. CASE spent[k] = 0
    BY <2>1, <2>2, <2>3
  <2>4. CASE spent[k] # 0 /\ bucket[k] # None
    <3>1. /\ bucket[k].last \in Nat /\ bucket[k].tokens \in Nat /\ bucket[k].last <= clock
          /\ spent[k] + bucket[k].tokens <= Burst + Rate * (bucket[k].last - (mark - MaxLag))
      BY <2>4 DEF TypeOK, LimiterInv, Times, WindowOf, Bucket
    <3>2. /\ bucket[k].last - (mark - MaxLag) \in Int
          /\ bucket[k].last - (mark - MaxLag) <= elapsed
      BY <2>1, <3>1
    <3>3. Rate * (bucket[k].last - (mark - MaxLag)) <= Rate * elapsed
      BY <2>1, <3>2, RateMonotonic
    <3>4. Rate * (bucket[k].last - (mark - MaxLag)) \in Int
      BY <3>2, RateSum
    <3> QED
      BY <2>1, <2>2, <3>1, <3>3, <3>4
  <2>5. CASE spent[k] # 0 /\ bucket[k] = None
    <3>1. spent[k] <= Rate * (clock - mark)
      BY <2>5 DEF LimiterInv, WindowOf
    <3>2. Rate * (clock - mark) <= Rate * elapsed /\ Rate * (clock - mark) \in Nat
      BY <2>1, RateMonotonic, RatePositive
    <3> QED
      BY <2>1, <2>2, <3>1, <3>2
  <2> QED
    BY <2>3, <2>4, <2>5
<1> QED
  BY <1>1, LimiterInvariant, PTL

\* The Retry-After that a denied caller is given is long enough.
THEOREM RetryAfterIsHonest == Spec => HonestRetryAfter
<1> DEFINE Honest ==
        \A p \in Callers :
            /\ Returns(p)
            /\ retryAt[call[p].key] # None
            /\ call[p].now >= retryAt[call[p].key]
            => retryAt'[call[p].key] = None
<1>1. TypeOK /\ LimiterInv /\ [Next]_vars => [Honest]_vars
  <2> SUFFICES ASSUME TypeOK, LimiterInv, Next, NEW p \in Callers, Returns(p),
                      retryAt[call[p].key] # None, call[p].now >= retryAt[call[p].key]
               PROVE  retryAt'[call[p].key] = None
    OBVIOUS
  <2> DEFINE k == call[p].key
             n == call[p].now
             b == Mine(k, n)
  <2>1. Allow(p)
    BY DEF Next, Returns, ReadNow, Allow, Tick, SetMark, TypeOK
  <2>2. k \in Keys /\ n \in Nat /\ InSection(k, n) /\ Times /\ PromiseOf(k)
    BY <2>1, AllowType DEF LimiterInv
  <2>3. b \in Bucket /\ b.tokens \in Nat /\ b.last \in Nat /\ b.last >= n /\ retryAt[k] \in Nat
    BY <2>2, MineType DEF Bucket, TypeOK
  <2>4. b.tokens >= Unit
    <3> SUFFICES ASSUME b.tokens < Unit
                 PROVE  FALSE
      BY <2>3, LimiterAssumption
    <3>1. b.tokens + Rate * (retryAt[k] - b.last) >= Unit
      BY <2>2, MinePromise
    <3>2. retryAt[k] - b.last \in Int /\ retryAt[k] - b.last <= 0 /\ 0 \in Int
      BY <2>2, <2>3
    <3>3. Rate * (retryAt[k] - b.last) <= Rate * 0
      BY <3>2, RateMonotonic
    <3>4. Rate * (retryAt[k] - b.last) \in Int /\ Rate * 0 = 0
      BY <3>2, RateSum, LimiterAssumption
    <3> QED
      BY <2>3, <3>1, <3>3, <3>4, LimiterAssumption
  <2> QED
    BY <2>1, <2>2, <2>4 DEF Allow, AllowLocked, Mine, TypeOK
<1> QED
  BY <1>1, LimiterInvariant, PTL DEF Spec, HonestRetryAfter

\* Keys that are never seen again leave the limiter's map.
THEOREM RetentionIsBounded == Spec => RetentionBound
<1> DEFINE Bounded ==
        \A p \in Callers : Returns(p) =>
            \A k \in Keys : bucket'[k] # None => call[p].now - bucket'[k].last <= 2 * TTL
<1>1. TypeOK /\ LimiterInv /\ [Next]_vars => [Bounded]_vars
  <2> SUFFICES ASSUME TypeOK, LimiterInv, Next, NEW p \in Callers, Returns(p),
                      NEW k \in Keys, bucket'[k] # None
               PROVE  call[p].now - bucket'[k].last <= 2 * TTL
    OBVIOUS
  <2>1. Allow(p)
    BY DEF Next, Returns, ReadNow, Allow, Tick, SetMark, TypeOK
  <2> QED
    BY <2>1, AllowRetention
<1> QED
  BY <1>1, LimiterInvariant, PTL DEF Spec, RetentionBound

=============================================================================
