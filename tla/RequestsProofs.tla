---------------------------- MODULE RequestsProofs -----------------------------
(***************************************************************************)
(* Over any window the requests sent, retries included, are at most twice  *)
(* the quota, for any number of callers, quota, window, retries and delays.*)
(*                                                                         *)
(* The invariant is the bucket's account: for each age up to the window,   *)
(* the requests sent since, with the tokens the bucket has or would have   *)
(* if it were updated now, cost no more than a full bucket and what that   *)
(* age refills.  A tick shifts the ages by one and refills as much.        *)
(***************************************************************************)
EXTENDS Requests, CollectionTheorems

Typed ==
    /\ tokens \in 0 .. Capacity /\ since \in 0 .. Window
    /\ sent \in [0 .. Window - 1 -> Nat]

SentWithin(age) == Total(sent, 0 .. age)

Paid ==
    \A age \in 0 .. Window - 1 : Window * SentWithin(age) + Refilled <= Capacity + age * Limit

BucketInv == Typed /\ Paid

bucket == <<tokens, since, sent>>

-----------------------------------------------------------------------------
LEMMA CapacityType == Capacity \in Nat /\ Limit \in Nat \ {0} /\ Window \in Nat \ {0}
<1>1. Limit \in Nat \ {0} /\ Window \in Nat \ {0}
  BY RequestsAssumption
<1>2. Capacity = Limit * Window
  BY DEF Capacity
<1> QED
  BY <1>1, <1>2

LEMMA RefilledIs ==
    ASSUME tokens \in 0 .. Capacity, since \in 0 .. Window
    PROVE  /\ since * Limit \in Nat
           /\ Refilled = IF Capacity <= tokens + since * Limit THEN Capacity
                         ELSE tokens + since * Limit
           /\ Refilled \in 0 .. Capacity
<1>1. since \in Nat /\ tokens \in Nat
  BY CapacityType
<1>2. since * Limit \in Nat
  BY <1>1, CapacityType
<1>3. tokens + since * Limit \in Int
  BY <1>1, <1>2
<1>4. Refilled = IF Capacity <= tokens + since * Limit THEN Capacity
                 ELSE tokens + since * Limit
  BY <1>3, CapacityType, MinOfTwo DEF Refilled
<1> QED
  BY <1>1, <1>2, <1>4, CapacityType

\* A prefix of the window is a finite set of ages, each with a count.
LEMMA WithinType ==
    ASSUME NEW f \in [0 .. Window - 1 -> Nat], NEW a \in 0 .. Window - 1
    PROVE  /\ 0 .. a \subseteq 0 .. Window - 1 /\ IsFiniteSet(0 .. a)
           /\ \A i \in 0 .. a : f[i] \in Int
           /\ Total(f, 0 .. a) \in Int
<1>1. a \in Nat /\ 0 .. a \subseteq 0 .. Window - 1
  BY CapacityType
<1>2. IsFiniteSet(0 .. a)
  BY <1>1, FS_Interval
<1>3. \A i \in 0 .. a : f[i] \in Int
  BY <1>1
<1> QED
  BY <1>1, <1>2, <1>3, TotalType

-----------------------------------------------------------------------------
\* A request sent now is within every age.
LEMMA SentNow ==
    ASSUME NEW f \in [0 .. Window - 1 -> Nat], NEW a \in 0 .. Window - 1
    PROVE  Total([f EXCEPT ![0] = @ + 1], 0 .. a) = Total(f, 0 .. a) + 1
<1> DEFINE h == [f EXCEPT ![0] = @ + 1]
           S == 0 .. a
<1>1. h \in [0 .. Window - 1 -> Nat] /\ h[0] = f[0] + 1 /\ f[0] \in Int /\ 0 \in S
  BY CapacityType
<1>2. \A i \in S \ {0} : h[i] = f[i]
  BY WithinType
<1>3. IsFiniteSet(S) /\ \A i \in S : f[i] \in Int
  BY WithinType
<1>4. \A i \in S : h[i] \in Int
  BY <1>1, WithinType
<1> HIDE DEF h, S
<1>5. Total(h, S) = Total(f, S) + (h[0] - f[0])
  BY <1>1, <1>2, <1>3, <1>4, TotalChanged
<1>6. Total(f, S) \in Int
  BY <1>3, TotalType
<1>7. Total(h, S) = Total(f, S) + 1
  BY <1>1, <1>5, <1>6
<1> QED
  BY <1>7 DEF h, S

\* A tick makes every request one older.
LEMMA SentAges ==
    ASSUME NEW f \in [0 .. Window - 1 -> Nat], NEW h \in [0 .. Window - 1 -> Nat],
           h[0] = 0, \A i \in 1 .. Window - 1 : h[i] = f[i - 1]
    PROVE  /\ Total(h, 0 .. 0) = 0
           /\ \A a \in 1 .. Window - 1 : Total(h, 0 .. a) = Total(f, 0 .. a - 1)
<1> DEFINE P == {a \in Nat : a < Window - 1 => Total(h, 0 .. a + 1) = Total(f, 0 .. a)}
<1>1. Total(h, 0 .. 0) = 0 /\ Total(f, 0 .. 0) = f[0]
  <2>1. 0 .. 0 = {0} /\ 0 \in 0 .. Window - 1
    BY CapacityType
  <2>2. f[0] \in Int /\ h[0] \in Int
    BY <2>1
  <2> QED
    BY <2>1, <2>2, TotalOne
<1>2. ASSUME NEW a \in Nat, a < Window - 1
      PROVE  Total(h, 0 .. a + 1) = f[a] + Total(h, 0 .. a)
  <2>1. a + 1 \in 1 .. Window - 1 /\ (a + 1) - 1 = a
    BY <1>2, CapacityType
  <2>2. \A i \in 0 .. a + 1 : h[i] \in Int
    BY <2>1, CapacityType
  <2>3. Total(h, 0 .. a + 1) = h[a + 1] + Total(h, 0 .. a)
    BY <2>2, TotalNext
  <2>4. h[a + 1] = f[a]
    BY <2>1
  <2> QED
    BY <2>3, <2>4
<1>3. 0 \in P
  <2> SUFFICES ASSUME 0 < Window - 1 PROVE Total(h, 0 .. 0 + 1) = Total(f, 0 .. 0)
    OBVIOUS
  <2>1. Total(h, 0 .. 0 + 1) = f[0] + Total(h, 0 .. 0)
    BY <1>2
  <2>2. f[0] \in Int
    BY CapacityType
  <2> QED
    BY <1>1, <2>1, <2>2
<1>4. ASSUME NEW a \in Nat, a \in P
      PROVE  a + 1 \in P
  <2> SUFFICES ASSUME a + 1 < Window - 1
               PROVE  Total(h, 0 .. (a + 1) + 1) = Total(f, 0 .. a + 1)
    OBVIOUS
  <2>1. a + 1 \in Nat /\ a + 1 \in 0 .. Window - 1 /\ a < Window - 1
    BY CapacityType
  <2>2. Total(h, 0 .. (a + 1) + 1) = f[a + 1] + Total(h, 0 .. a + 1)
    BY <1>2, <2>1
  <2>3. \A i \in 0 .. a + 1 : f[i] \in Int
    BY <2>1, CapacityType
  <2>4. Total(f, 0 .. a + 1) = f[a + 1] + Total(f, 0 .. a)
    BY <2>3, TotalNext
  <2>5. Total(h, 0 .. a + 1) = Total(f, 0 .. a)
    BY <1>4, <2>1
  <2> QED
    BY <2>2, <2>4, <2>5
<1> HIDE DEF P
<1>5. Nat \subseteq P
  BY <1>3, <1>4, NumberInduction
<1>6. ASSUME NEW a \in 1 .. Window - 1
      PROVE  Total(h, 0 .. a) = Total(f, 0 .. a - 1)
  <2>1. a - 1 \in Nat /\ a - 1 < Window - 1 /\ (a - 1) + 1 = a
    BY CapacityType
  <2>2. a - 1 \in P
    BY <1>5, <2>1
  <2> QED
    BY <2>1, <2>2 DEF P
<1> QED
  BY <1>1, <1>6

-----------------------------------------------------------------------------
LEMMA InitPaid == Init => BucketInv
<1> SUFFICES ASSUME Init
             PROVE  BucketInv
  OBVIOUS
<1>1. Typed
  BY CapacityType DEF Init, Typed
<1>2. Refilled \in 0 .. Capacity
  BY <1>1, RefilledIs DEF Typed
<1>3. ASSUME NEW a \in 0 .. Window - 1
      PROVE  SentWithin(a) = 0
  <2> DEFINE P == {n \in Nat : n <= Window - 1 => Total(sent, 0 .. n) = 0}
  <2>1. \A i \in 0 .. Window - 1 : sent[i] = 0
    BY DEF Init
  <2>2. 0 \in P
    <3>1. 0 .. 0 = {0} /\ sent[0] = 0
      BY <2>1, CapacityType
    <3>2. Total(sent, 0 .. 0) = 0
      BY <3>1, TotalOne
    <3> QED
      BY <3>2
  <2>3. ASSUME NEW n \in Nat, n \in P
        PROVE  n + 1 \in P
    <3> SUFFICES ASSUME n + 1 <= Window - 1
                 PROVE  Total(sent, 0 .. n + 1) = 0
      OBVIOUS
    <3>1. n <= Window - 1 /\ \A i \in 0 .. n + 1 : sent[i] = 0
      BY <2>1, CapacityType
    <3>2. Total(sent, 0 .. n + 1) = sent[n + 1] + Total(sent, 0 .. n)
      BY <3>1, TotalNext
    <3> QED
      BY <2>3, <3>1, <3>2
  <2> HIDE DEF P
  <2>4. Nat \subseteq P
    BY <2>2, <2>3, NumberInduction
  <2>5. a \in P /\ a <= Window - 1
    BY <2>4, CapacityType
  <2> QED
    BY <2>5 DEF P, SentWithin
<1>4. ASSUME NEW a \in 0 .. Window - 1
      PROVE  Window * SentWithin(a) + Refilled <= Capacity + a * Limit
  <2>1. Window * SentWithin(a) = 0
    BY <1>3, CapacityType
  <2>2. a * Limit \in Nat
    BY CapacityType
  <2> QED
    BY <1>2, <2>1, <2>2, CapacityType
<1> QED
  BY <1>1, <1>4 DEF BucketInv, Paid

LEMMA Frame ==
    ASSUME BucketInv, UNCHANGED bucket
    PROVE  BucketInv'
BY DEF BucketInv, Typed, Paid, SentWithin, Refilled, bucket

\* A turn at the bucket's lock pays for what it sends.
LEMMA AcquireStep ==
    ASSUME BucketInv, NEW c \in Callers, Acquire(c)
    PROVE  BucketInv'
<1>1. Typed /\ Refilled \in 0 .. Capacity
  BY RefilledIs DEF BucketInv, Typed
<1>2. since' = 0 /\ since' * Limit = 0
  BY CapacityType DEF Acquire
<1>3. ASSUME NEW n \in 0 .. Capacity, tokens' = n
      PROVE  Refilled' = n
  <2>1. Refilled' = Min({Capacity, n + 0})
    BY <1>2, <1>3 DEF Refilled
  <2>2. n \in Int /\ n + 0 = n
    BY CapacityType
  <2> QED
    BY <2>1, <2>2, MinOfTwo, CapacityType
<1>4. CASE Refilled >= Window
  <2>1. tokens' = Refilled - Window /\ sent' = [sent EXCEPT ![0] = @ + 1]
    BY <1>4 DEF Acquire
  <2>2. tokens' \in 0 .. Capacity
    BY <1>1, <1>4, <2>1, CapacityType
  <2>3. Typed'
    BY <1>1, <1>2, <2>1, <2>2, CapacityType DEF Typed
  <2>4. ASSUME NEW a \in 0 .. Window - 1
        PROVE  Window * SentWithin(a)' + Refilled' <= Capacity + a * Limit
    <3>1. SentWithin(a)' = SentWithin(a) + 1 /\ SentWithin(a) \in Int
      BY <1>1, <2>1, SentNow, WithinType DEF SentWithin, Typed
    <3>2. Window * (SentWithin(a) + 1) = Window * SentWithin(a) + Window
      BY <3>1, CapacityType
    <3>3. Window * SentWithin(a) + Refilled <= Capacity + a * Limit
      BY DEF BucketInv, Paid
    <3>4. Refilled' = Refilled - Window
      BY <1>3, <2>1, <2>2
    <3>5. Window * SentWithin(a) \in Int /\ a * Limit \in Int
      BY <3>1, CapacityType
    <3> QED
      BY <1>1, <3>1, <3>2, <3>3, <3>4, <3>5, CapacityType
  <2> QED
    BY <2>3, <2>4 DEF BucketInv, Paid
<1>5. CASE ~(Refilled >= Window)
  <2>1. tokens' = Refilled /\ sent' = sent
    BY <1>5 DEF Acquire
  <2>2. Typed'
    BY <1>1, <1>2, <2>1, CapacityType DEF Typed
  <2>3. Refilled' = Refilled
    BY <1>1, <1>3, <2>1
  <2> QED
    BY <2>1, <2>2, <2>3 DEF BucketInv, Paid, SentWithin
<1> QED
  BY <1>4, <1>5

\* A tick refills what a window spreads over its ticks, and every request ages.
LEMMA TickStep ==
    ASSUME BucketInv, Tick
    PROVE  BucketInv'
<1>1. Typed /\ Refilled \in 0 .. Capacity
  BY RefilledIs DEF BucketInv, Typed
<1>2. tokens' = tokens /\ since' = Min({Window, since + 1})
  BY DEF Tick
<1>3. since' = (IF Window <= since + 1 THEN Window ELSE since + 1) /\ since' \in 0 .. Window
  BY <1>1, <1>2, MinOfTwo, CapacityType DEF Typed
<1>4. sent' = [age \in 0 .. Window - 1 |-> IF age = 0 THEN 0 ELSE sent[age - 1]]
  BY <1>1 DEF Tick, Typed
<1>5. /\ sent' \in [0 .. Window - 1 -> Nat]
      /\ sent'[0] = 0 /\ \A i \in 1 .. Window - 1 : sent'[i] = sent[i - 1]
  BY <1>1, <1>4, CapacityType DEF Typed
<1>6. Typed'
  BY <1>1, <1>2, <1>3, <1>5 DEF Typed
<1>7. Refilled' <= Refilled + Limit /\ Refilled' \in 0 .. Capacity
  <2>1. /\ since * Limit \in Nat
        /\ Refilled = IF Capacity <= tokens + since * Limit THEN Capacity
                      ELSE tokens + since * Limit
    BY <1>1, RefilledIs DEF Typed
  <2>2. CASE since + 1 <= Window
    <3>1. since' = since + 1
      BY <1>1, <1>3, <2>2, CapacityType DEF Typed
    <3>2. since' * Limit = since * Limit + Limit
      BY <1>1, <3>1, CapacityType DEF Typed
    <3>3. Refilled' = IF Capacity <= tokens + (since * Limit + Limit) THEN Capacity
                      ELSE tokens + (since * Limit + Limit)
      <4>1. Refilled' = Min({Capacity, tokens + (since * Limit + Limit)})
        BY <1>2, <3>2 DEF Refilled
      <4> QED
        BY <1>1, <2>1, <4>1, MinOfTwo, CapacityType DEF Typed
    <3> QED
      BY <1>1, <2>1, <3>3, CapacityType DEF Typed
  <2>3. CASE ~(since + 1 <= Window)
    <3>1. since' = since /\ since = Window
      BY <1>1, <1>3, <2>3, CapacityType DEF Typed
    <3>2. Refilled' = Refilled
      BY <1>2, <3>1 DEF Refilled
    <3> QED
      BY <1>1, <3>2, CapacityType
  <2> QED
    BY <2>2, <2>3
<1>8. ASSUME NEW a \in 0 .. Window - 1
      PROVE  Window * SentWithin(a)' + Refilled' <= Capacity + a * Limit
  <2>1. CASE a = 0
    <3>1. SentWithin(a)' = 0
      BY <1>1, <1>5, <2>1, SentAges DEF SentWithin, Typed
    <3>2. Window * SentWithin(a)' = 0 /\ a * Limit = 0
      BY <2>1, <3>1, CapacityType
    <3> QED
      BY <1>7, <3>2, CapacityType
  <2>2. CASE a # 0
    <3>1. a \in 1 .. Window - 1 /\ a - 1 \in 0 .. Window - 1
      BY <2>2, CapacityType
    <3>2. SentWithin(a)' = SentWithin(a - 1)
      BY <1>1, <1>5, <3>1, SentAges DEF SentWithin, Typed
    <3>3. Window * SentWithin(a - 1) + Refilled <= Capacity + (a - 1) * Limit
      BY <3>1 DEF BucketInv, Paid
    <3>4. (a - 1) * Limit + Limit = a * Limit /\ (a - 1) * Limit \in Int
      BY <3>1, CapacityType
    <3>5. SentWithin(a - 1) \in Int
      BY <1>1, <3>1, WithinType DEF SentWithin, Typed
    <3>6. Window * SentWithin(a - 1) \in Int
      BY <3>5, CapacityType
    <3> QED
      BY <1>1, <1>7, <3>2, <3>3, <3>4, <3>6, CapacityType
  <2> QED
    BY <2>1, <2>2
<1> QED
  BY <1>6, <1>8 DEF BucketInv, Paid

LEMMA Quota == BucketInv => SentAtMostTwiceQuota
<1> SUFFICES ASSUME BucketInv
             PROVE  SentAtMostTwiceQuota
  OBVIOUS
<1> DEFINE a == Window - 1
           n == SentWithin(a)
<1>1. Typed /\ Refilled \in 0 .. Capacity
  BY RefilledIs DEF BucketInv, Typed
<1>2. a \in 0 .. Window - 1 /\ n \in Int
  BY <1>1, WithinType, CapacityType DEF Typed, SentWithin
<1>3. Window * n + Refilled <= Capacity + a * Limit
  BY <1>2 DEF BucketInv, Paid
<1>4. a * Limit = Capacity - Limit
  BY CapacityType DEF Capacity
<1>5. Window * n \in Int
  BY <1>2, CapacityType
<1>6. Window * n < 2 * Capacity
  BY <1>1, <1>3, <1>4, <1>5, CapacityType
<1>7. n <= 2 * Limit
  <2> SUFFICES ASSUME n >= 2 * Limit + 1 PROVE FALSE
    BY <1>2, CapacityType
  <2> HIDE DEF n
  <2>1. Window * n >= Window * (2 * Limit + 1)
    BY <1>2, CapacityType
  <2>2. Window * (2 * Limit + 1) = 2 * Capacity + Window
    BY CapacityType DEF Capacity
  <2> QED
    BY <1>5, <1>6, <2>1, <2>2, CapacityType
<1>8. n = Total(sent, DOMAIN sent)
  BY <1>1 DEF SentWithin, Typed
<1> QED
  BY <1>7, <1>8 DEF SentAtMostTwiceQuota, Total

\* For any number of callers, quota, window, retries and delays, the requests sent
\* over a window are at most twice the quota (TokenBucket.acquire).
THEOREM QuotaHolds == Spec => []SentAtMostTwiceQuota
<1>1. BucketInv /\ [Next]_vars => BucketInv'
  <2> SUFFICES ASSUME BucketInv, [Next]_vars
               PROVE  BucketInv'
    OBVIOUS
  <2>1. CASE Tick
    BY <2>1, TickStep
  <2>2. ASSUME NEW c \in Callers, Call(c) \/ Done(c) \/ Retryable(c) \/ Retry(c)
        PROVE  BucketInv'
    <3>1. UNCHANGED bucket
      BY <2>2 DEF Call, Done, Retryable, Retry, bucket
    <3> QED
      BY <3>1, Frame
  <2>3. ASSUME NEW c \in Callers, Acquire(c)
        PROVE  BucketInv'
    BY <2>3, AcquireStep
  <2>4. CASE UNCHANGED vars
    BY <2>4, Frame DEF vars, bucket
  <2> QED
    BY <2>1, <2>2, <2>3, <2>4 DEF Next
<1> QED
  BY <1>1, InitPaid, Quota, PTL DEF Spec
=============================================================================
