-------------------------- MODULE RateLimiterProofs --------------------------
(***************************************************************************)
(* Theorems about RateLimiter, for any addresses, routes, limits and       *)
(* window.                                                                 *)
(***************************************************************************)
EXTENDS RateLimiter, TLAPS

\* The request that opened a bucket was let through at the start of its window.
OpenerPassed ==
  \A ip \in Ip : rlBuckets[ip] # Absent =>
    \E route \in Route : \E i \in DOMAIN admitted[ip][route] :
      admitted[ip][route][i] + Window = rlBuckets[ip].resetAt

LimiterInv == TypeOK /\ OpenerPassed

-----------------------------------------------------------------------------
LEMMA InitLimiter == Init => LimiterInv
<1> SUFFICES ASSUME Init PROVE LimiterInv
  OBVIOUS
<1> USE LimiterAssumption DEF Init, Instants
<1>1. TypeOK
  BY DEF TypeOK, Bucket
<1>2. OpenerPassed
  BY DEF OpenerPassed
<1> QED BY <1>1, <1>2 DEF LimiterInv

\* The bucket a request leaves behind when it is let through.
LEMMA AdmitCounts ==
  ASSUME TypeOK, NEW ip \in Ip, NEW route \in Route, Admit(ip, route)
  PROVE  /\ Counted(ip) \in Bucket
         /\ \E r \in Route : Counted(ip).count <= Limit[r]
<1> USE LimiterAssumption DEF Admit, TypeOK, Instants
<1>1. CASE Fresh(ip)
  <2>1. Counted(ip) = [count |-> 1, resetAt |-> now + Window]
    BY <1>1 DEF Counted
  <2>2. now + Window \in Nat
    OBVIOUS
  <2>3. 1 <= Limit[route]
    OBVIOUS
  <2>4. Counted(ip) \in Bucket
    BY <2>1, <2>2 DEF Bucket
  <2>5. Counted(ip).count <= Limit[route]
    BY <2>1, <2>3
  <2> QED BY <2>4, <2>5
<1>2. CASE ~Fresh(ip)
  <2>1. rlBuckets[ip] \in Bucket
    BY <1>2 DEF Fresh
  <2>2. rlBuckets[ip].count < Limit[route]
    BY <1>2, <2>1 DEF Full, Bucket
  <2>3. Counted(ip) = [count |-> rlBuckets[ip].count + 1, resetAt |-> rlBuckets[ip].resetAt]
    BY <1>2, <2>1 DEF Counted, Bucket
  <2>4. Counted(ip) \in Bucket
    BY <2>1, <2>3 DEF Bucket
  <2>5. Counted(ip).count <= Limit[route]
    BY <2>1, <2>2, <2>3 DEF Bucket
  <2> QED BY <2>4, <2>5
<1> QED BY <1>1, <1>2

LEMMA StepType == TypeOK /\ [Next]_vars => TypeOK'
<1> SUFFICES ASSUME TypeOK, [Next]_vars PROVE TypeOK'
  OBVIOUS
<1> USE LimiterAssumption
<1>1. ASSUME NEW ip \in Ip, NEW route \in Route, Admit(ip, route) PROVE TypeOK'
  <2>1. Counted(ip) \in Bucket /\ \E r \in Route : Counted(ip).count <= Limit[r]
    BY <1>1, AdmitCounts
  <2>2. now' \in Instants
    BY <1>1 DEF TypeOK, Admit
  <2>3. rlBuckets' \in [Ip -> Bucket \cup {Absent}]
    BY <1>1, <2>1 DEF TypeOK, Admit
  <2>4. admitted' \in [Ip -> [Route -> Seq(Instants)]]
    <3>1. admitted[ip] \in [Route -> Seq(Instants)] /\ now \in Instants
      BY DEF TypeOK
    <3>2. Append(admitted[ip][route], now) \in Seq(Instants)
      BY <3>1
    <3>3. [admitted[ip] EXCEPT ![route] = Append(@, now)] \in [Route -> Seq(Instants)]
      BY <3>1, <3>2
    <3> QED
      BY <1>1, <3>3 DEF TypeOK, Admit
  <2>5. \A i \in Ip : rlBuckets'[i] # Absent => \E r \in Route : rlBuckets'[i].count <= Limit[r]
    <3> SUFFICES ASSUME NEW i \in Ip, rlBuckets'[i] # Absent
                 PROVE  \E r \in Route : rlBuckets'[i].count <= Limit[r]
      OBVIOUS
    <3>1. CASE i = ip
      BY <1>1, <2>1, <3>1 DEF TypeOK, Admit
    <3>2. CASE i # ip
      BY <1>1, <3>2 DEF TypeOK, Admit
    <3> QED BY <3>1, <3>2
  <2> QED BY <2>2, <2>3, <2>4, <2>5 DEF TypeOK
<1>2. ASSUME NEW ip \in Ip, NEW route \in Route, Refuse(ip, route) PROVE TypeOK'
  BY <1>2 DEF TypeOK, Refuse, vars
<1>3. CASE Purge
  BY <1>3 DEF TypeOK, Purge
<1>4. CASE Advance
  BY <1>4 DEF TypeOK, Advance, Instants
<1>5. CASE UNCHANGED vars
  BY <1>5 DEF TypeOK, vars
<1> QED BY <1>1, <1>2, <1>3, <1>4, <1>5 DEF Next

\* What a request that is let through does to the history and to the buckets.
LEMMA AdmitRecords ==
  ASSUME TypeOK, NEW ip \in Ip, NEW route \in Route, Admit(ip, route)
  PROVE  /\ now \in Instants /\ now' = now
         /\ admitted'[ip][route] = Append(admitted[ip][route], now)
         /\ \A r \in Route \ {route} : admitted'[ip][r] = admitted[ip][r]
         /\ \A i \in Ip \ {ip} : admitted'[i] = admitted[i] /\ rlBuckets'[i] = rlBuckets[i]
         /\ rlBuckets'[ip] \in Bucket
         /\ Fresh(ip) => rlBuckets'[ip].count = 1 /\ rlBuckets'[ip].resetAt = now + Window
         /\ ~Fresh(ip) => /\ rlBuckets[ip] \in Bucket /\ rlBuckets[ip].count < Limit[route]
                          /\ now <= rlBuckets[ip].resetAt
                          /\ rlBuckets'[ip].count = rlBuckets[ip].count + 1
                          /\ rlBuckets'[ip].resetAt = rlBuckets[ip].resetAt
<1> USE LimiterAssumption DEF Admit, TypeOK
<1>1. now \in Instants /\ now' = now
  OBVIOUS
<1>2. admitted[ip] \in [Route -> Seq(Instants)]
  OBVIOUS
<1>3. /\ admitted'[ip] = [admitted[ip] EXCEPT ![route] = Append(admitted[ip][route], now)]
      /\ \A i \in Ip \ {ip} : admitted'[i] = admitted[i]
  OBVIOUS
<1>4. rlBuckets'[ip] = Counted(ip) /\ \A i \in Ip \ {ip} : rlBuckets'[i] = rlBuckets[i]
  OBVIOUS
<1>5. Counted(ip) \in Bucket
  BY AdmitCounts
<1>6. ASSUME ~Fresh(ip)
      PROVE  /\ rlBuckets[ip] \in Bucket /\ rlBuckets[ip].count < Limit[route]
             /\ now <= rlBuckets[ip].resetAt
             /\ Counted(ip).count = rlBuckets[ip].count + 1
             /\ Counted(ip).resetAt = rlBuckets[ip].resetAt
  <2>1. rlBuckets[ip] \in Bucket
    BY <1>6 DEF Fresh
  <2> QED
    BY <1>6, <2>1 DEF Full, Fresh, Counted, Bucket, Instants
<1>7. Fresh(ip) => Counted(ip) = [count |-> 1, resetAt |-> now + Window]
  BY DEF Counted
<1> QED
  BY <1>1, <1>2, <1>3, <1>4, <1>5, <1>6, <1>7

LEMMA StepOpener == TypeOK /\ OpenerPassed /\ [Next]_vars => OpenerPassed'
<1> SUFFICES ASSUME TypeOK, OpenerPassed, [Next]_vars PROVE OpenerPassed'
  OBVIOUS
<1> USE LimiterAssumption
<1>1. ASSUME NEW ip \in Ip, NEW route \in Route, Admit(ip, route) PROVE OpenerPassed'
  <2> SUFFICES ASSUME NEW i \in Ip, rlBuckets'[i] # Absent
               PROVE  \E r \in Route : \E k \in DOMAIN admitted'[i][r] :
                        admitted'[i][r][k] + Window = rlBuckets'[i].resetAt
    BY DEF OpenerPassed
  <2> DEFINE passed == admitted[ip][route]
  <2>1. passed \in Seq(Instants) /\ admitted'[ip][route] = Append(passed, now)
    BY <1>1, AdmitRecords DEF TypeOK
  <2> HIDE DEF passed
  <2>2. /\ Len(passed) + 1 \in DOMAIN Append(passed, now)
        /\ Append(passed, now)[Len(passed) + 1] = now
        /\ \A k \in DOMAIN passed : k \in DOMAIN Append(passed, now) /\ Append(passed, now)[k] = passed[k]
    BY <2>1
  <2>3. CASE i = ip /\ Fresh(ip)
    <3>1. rlBuckets'[ip].resetAt = now + Window
      BY <1>1, <2>3, AdmitRecords
    <3> QED
      BY <2>1, <2>2, <2>3, <3>1
  <2>4. CASE ~(i = ip /\ Fresh(ip))
    <3>1. rlBuckets[i] # Absent /\ rlBuckets'[i].resetAt = rlBuckets[i].resetAt
      BY <1>1, <2>4, AdmitRecords DEF Fresh
    <3>2. PICK r \in Route : \E k \in DOMAIN admitted[i][r] :
            admitted[i][r][k] + Window = rlBuckets[i].resetAt
      BY <3>1 DEF OpenerPassed
    <3>3. CASE i = ip /\ r = route
      <4>1. PICK k \in DOMAIN passed : passed[k] + Window = rlBuckets[i].resetAt
        BY <3>2, <3>3 DEF passed
      <4> QED
        BY <2>1, <2>2, <3>1, <3>3, <4>1
    <3>4. CASE ~(i = ip /\ r = route)
      <4>1. admitted'[i][r] = admitted[i][r]
        BY <1>1, <3>4, AdmitRecords
      <4> QED
        BY <3>1, <3>2, <4>1
    <3> QED
      BY <3>3, <3>4
  <2> QED
    BY <2>3, <2>4
<1>2. ASSUME NEW ip \in Ip, NEW route \in Route, Refuse(ip, route) PROVE OpenerPassed'
  BY <1>2 DEF OpenerPassed, Refuse, vars
<1>3. CASE Purge
  BY <1>3 DEF OpenerPassed, TypeOK, Purge
<1>4. CASE Advance
  BY <1>4 DEF OpenerPassed, Advance
<1>5. CASE UNCHANGED vars
  BY <1>5 DEF OpenerPassed, vars
<1> QED
  BY <1>1, <1>2, <1>3, <1>4, <1>5 DEF Next

-----------------------------------------------------------------------------
(* How far apart the requests let through are.                             *)

\* At time t: what was let through lies before the bucket's end, and a request
\* within the bucket's window is one of those the bucket counts.
NewestCounted(passed, bucket, t) ==
  \A m \in DOMAIN passed :
    IF bucket = Absent THEN passed[m] < t
    ELSE /\ passed[m] <= bucket.resetAt
         /\ passed[m] + Window >= bucket.resetAt => Len(passed) - m < bucket.count

\* Between request p and the one that comes limit requests later a bucket was
\* opened, at o; limit requests later still its window is over.
Separates(passed, bucket, limit, t, p, o) ==
  /\ passed[p] < o /\ o <= passed[p + limit]
  /\ \A q \in DOMAIN passed : q >= p + 2 * limit => passed[q] > o + Window
  /\ IF bucket = Absent THEN o + Window < t
     ELSE /\ o + Window <= bucket.resetAt
          /\ passed[p + limit] + Window < bucket.resetAt => o + Window + Window < bucket.resetAt

Spread(passed, bucket, limit, t) ==
  /\ NewestCounted(passed, bucket, t)
  /\ \A p \in DOMAIN passed :
       p + limit <= Len(passed) =>
         \E o \in Instants : Separates(passed, bucket, limit, t, p, o)

BurstInv ==
  /\ \A ip \in Ip, route \in Route :
       Spread(admitted[ip][route], rlBuckets[ip], Limit[route], now)
  \* A bucket was opened at an instant that has been reached.
  /\ \A ip \in Ip : rlBuckets[ip] # Absent =>
       \E o \in Instants : o <= now /\ o + Window = rlBuckets[ip].resetAt

\* The next request at time t opens a bucket of its own.
Opens(bucket, t) == bucket = Absent \/ t > bucket.resetAt

\* The bucket a request at time t leaves.
Renewed(bucket, t, renewed) ==
  /\ renewed \in Bucket
  /\ IF Opens(bucket, t)
     THEN renewed.count = 1 /\ renewed.resetAt = t + Window
     ELSE renewed.count = bucket.count + 1 /\ renewed.resetAt = bucket.resetAt

LEMMA BucketTypes ==
  ASSUME NEW bucket \in Bucket
  PROVE  /\ bucket # Absent /\ bucket.count \in Nat /\ bucket.count > 0
         /\ bucket.resetAt \in Nat
  BY LimiterAssumption DEF Bucket

\* A bucket that is over and purged, or outlived.
LEMMA SpreadForgets ==
  ASSUME NEW passed \in Seq(Instants), NEW bucket \in Bucket, NEW limit \in Nat, NEW t \in Nat,
         Spread(passed, bucket, limit, t), t > bucket.resetAt
  PROVE  Spread(passed, Absent, limit, t)
<1> USE LimiterAssumption DEF Instants, Bucket
<1>1. bucket # Absent
  OBVIOUS
<1>2. NewestCounted(passed, Absent, t)
  BY <1>1 DEF Spread, NewestCounted
<1>3. ASSUME NEW p \in DOMAIN passed, NEW o \in Instants, Separates(passed, bucket, limit, t, p, o)
      PROVE  Separates(passed, Absent, limit, t, p, o)
  BY <1>1, <1>3 DEF Separates
<1> QED
  BY <1>2, <1>3 DEF Spread

\* Time passes.
LEMMA SpreadLater ==
  ASSUME NEW passed \in Seq(Instants), NEW bucket, NEW limit \in Nat, NEW t \in Nat,
         Spread(passed, bucket, limit, t)
  PROVE  Spread(passed, bucket, limit, t + 1)
<1> USE LimiterAssumption DEF Instants
<1>1. NewestCounted(passed, bucket, t + 1)
  BY DEF Spread, NewestCounted
<1>2. ASSUME NEW p \in DOMAIN passed, NEW o \in Instants, Separates(passed, bucket, limit, t, p, o)
      PROVE  Separates(passed, bucket, limit, t + 1, p, o)
  BY <1>2 DEF Separates
<1> QED
  BY <1>1, <1>2 DEF Spread

\* A request to another route renews the bucket.
LEMMA SpreadRenewed ==
  ASSUME NEW passed \in Seq(Instants), NEW bucket \in Bucket \cup {Absent}, NEW limit \in Nat,
         NEW t \in Nat, NEW renewed, Renewed(bucket, t, renewed), Spread(passed, bucket, limit, t)
  PROVE  Spread(passed, renewed, limit, t)
<1>1. /\ Window \in Nat
      /\ renewed # Absent /\ renewed.resetAt \in Nat /\ renewed.count \in Nat /\ renewed.count > 0
  BY LimiterAssumption, BucketTypes DEF Renewed
<1>2. /\ DOMAIN passed = 1..Len(passed) /\ Len(passed) \in Nat
      /\ \A m \in DOMAIN passed : m \in Nat /\ passed[m] \in Nat
  BY LimiterAssumption DEF Instants
<1>3. CASE Opens(bucket, t)
  <2>1. renewed.resetAt = t + Window
    BY <1>3 DEF Renewed
  <2>2. \A m \in DOMAIN passed : passed[m] < t
    <3>1. CASE bucket = Absent
      BY <3>1 DEF Spread, NewestCounted
    <3>2. CASE bucket # Absent
      BY <1>2, <1>3, <3>2, BucketTypes DEF Spread, NewestCounted, Opens
    <3> QED BY <3>1, <3>2
  <2>3. NewestCounted(passed, renewed, t)
    BY <1>1, <1>2, <2>1, <2>2 DEF NewestCounted
  <2>4. ASSUME NEW p \in DOMAIN passed, p + limit <= Len(passed), NEW o \in Instants,
               Separates(passed, bucket, limit, t, p, o)
        PROVE  Separates(passed, renewed, limit, t, p, o)
    <3>1. p + limit \in DOMAIN passed /\ passed[p + limit] \in Nat /\ o \in Nat
      BY <1>2, <2>4 DEF Instants
    <3>2. o + Window < t
      <4>1. CASE bucket = Absent
        BY <2>4, <4>1 DEF Separates
      <4>2. CASE bucket # Absent
        BY <1>1, <1>3, <2>4, <3>1, <4>2, BucketTypes DEF Separates, Opens
      <4> QED BY <4>1, <4>2
    <3> QED
      BY <1>1, <2>1, <2>4, <3>1, <3>2 DEF Separates
  <2> QED
    BY <2>3, <2>4 DEF Spread
<1>4. CASE ~Opens(bucket, t)
  <2>1. /\ bucket # Absent /\ bucket.count \in Nat
        /\ renewed.resetAt = bucket.resetAt /\ renewed.count = bucket.count + 1
    BY <1>4, BucketTypes DEF Renewed, Opens
  <2>2. NewestCounted(passed, renewed, t)
    BY <1>1, <1>2, <2>1 DEF Spread, NewestCounted
  <2>3. ASSUME NEW p, NEW o, Separates(passed, bucket, limit, t, p, o)
        PROVE  Separates(passed, renewed, limit, t, p, o)
    BY <1>1, <2>1, <2>3 DEF Separates
  <2> QED
    BY <2>2, <2>3 DEF Spread
<1> QED
  BY <1>3, <1>4

\* A request to the route itself renews the bucket and is let through.
LEMMA SpreadAdmits ==
  ASSUME NEW passed \in Seq(Instants), NEW bucket \in Bucket \cup {Absent},
         NEW limit \in Nat \ {0}, NEW t \in Instants, NEW renewed,
         Renewed(bucket, t, renewed), Spread(passed, bucket, limit, t),
         ~Opens(bucket, t) => bucket.count < limit,
         bucket # Absent => \E o \in Instants : o <= t /\ o + Window = bucket.resetAt
  PROVE  Spread(Append(passed, t), renewed, limit, t)
<1> DEFINE longer == Append(passed, t)
           n == Len(passed)
<1>0. /\ Window \in Nat /\ limit \in Nat /\ limit > 0 /\ t \in Nat
      /\ renewed # Absent /\ renewed.resetAt \in Nat /\ renewed.count \in Nat /\ renewed.count > 0
  BY LimiterAssumption, BucketTypes DEF Renewed, Instants
<1>1. /\ n \in Nat /\ Len(longer) = n + 1 /\ DOMAIN longer = 1..(n + 1) /\ DOMAIN passed = 1..n
      /\ longer[n + 1] = t
      /\ \A m \in 1..n : longer[m] = passed[m] /\ passed[m] \in Nat
  BY LimiterAssumption DEF Instants
<1> HIDE DEF longer, n
<1>2. Opens(bucket, t) =>
        /\ renewed.count = 1 /\ renewed.resetAt = t + Window
  BY DEF Renewed
<1>3. ~Opens(bucket, t) =>
        /\ bucket # Absent /\ bucket.count \in Nat /\ bucket.resetAt \in Nat /\ t <= bucket.resetAt
        /\ bucket.count < limit /\ renewed.count = bucket.count + 1
        /\ renewed.resetAt = bucket.resetAt
  BY <1>0, BucketTypes DEF Renewed, Opens
<1>4. PICK opened \in Instants : opened <= t /\ opened + Window = renewed.resetAt
  BY <1>0, <1>2, <1>3
<1>5. opened \in Nat /\ (Opens(bucket, t) => opened = t)
  BY <1>0, <1>2, <1>4 DEF Instants
<1>6. ASSUME NEW m \in 1..n
      PROVE  /\ passed[m] <= renewed.resetAt
             /\ Opens(bucket, t) => passed[m] < t
             /\ passed[m] + Window >= renewed.resetAt => n + 1 - m < renewed.count
  <2>1. NewestCounted(passed, renewed, t)
    BY <1>0, SpreadRenewed DEF Spread
  <2>2. Opens(bucket, t) => passed[m] < t
    <3>1. CASE bucket = Absent
      BY <1>1, <3>1 DEF Spread, NewestCounted
    <3>2. CASE bucket # Absent
      <4>1. passed[m] <= bucket.resetAt
        BY <1>1, <3>2 DEF Spread, NewestCounted
      <4>2. bucket.resetAt \in Nat /\ passed[m] \in Nat
        BY <1>1, <3>2, BucketTypes
      <4> QED
        BY <1>0, <3>2, <4>1, <4>2 DEF Opens
    <3> QED BY <3>1, <3>2
  <2>3. passed[m] <= renewed.resetAt
    BY <1>0, <1>1, <2>1 DEF NewestCounted
  <2>4. ~Opens(bucket, t) => (passed[m] + Window >= bucket.resetAt => n - m < bucket.count)
    BY <1>1, <1>3 DEF Spread, NewestCounted, n
  <2>5. m \in Nat /\ passed[m] \in Nat
    BY <1>1
  <2>6. passed[m] + Window >= renewed.resetAt => n + 1 - m < renewed.count
    <3>1. CASE Opens(bucket, t)
      <4>1. ~(passed[m] + Window >= renewed.resetAt)
        BY <1>0, <1>2, <2>2, <2>5, <3>1
      <4> QED BY <4>1
    <3>2. CASE ~Opens(bucket, t)
      BY <1>1, <1>3, <2>4, <2>5, <3>2
    <3> QED BY <3>1, <3>2
  <2> QED
    BY <2>2, <2>3, <2>6
<1>7. NewestCounted(longer, renewed, t)
  <2>1. ASSUME NEW m \in 1..n
        PROVE  /\ longer[m] <= renewed.resetAt
               /\ longer[m] + Window >= renewed.resetAt => n + 1 - m < renewed.count
    BY <1>1, <1>6
  <2>2. t <= renewed.resetAt
    BY <1>0, <1>2, <1>3
  <2>3. ASSUME NEW m \in 1..(n + 1)
        PROVE  /\ longer[m] <= renewed.resetAt
               /\ longer[m] + Window >= renewed.resetAt => n + 1 - m < renewed.count
    <3>1. CASE m \in 1..n
      BY <2>1, <3>1
    <3>2. CASE m = n + 1
      <4>1. longer[m] = t /\ n + 1 - m = 0
        BY <1>1, <3>2
      <4> QED
        BY <1>0, <2>2, <4>1
    <3> QED
      BY <1>1, <3>1, <3>2
  <2> QED
    BY <1>0, <1>1, <2>3 DEF NewestCounted
\* The requests at least limit before the new one came before the bucket.
<1>8. ASSUME NEW m \in 1..n, m + limit <= n + 1
      PROVE  passed[m] < opened
  <2>1. CASE Opens(bucket, t)
    BY <1>5, <1>6, <2>1
  <2>2. CASE ~Opens(bucket, t)
    <3>1. ~(n + 1 - m < renewed.count)
      BY <1>0, <1>1, <1>3, <1>8, <2>2
    <3>2. ~(passed[m] + Window >= opened + Window)
      BY <1>4, <1>6, <3>1
    <3> QED
      BY <1>0, <1>1, <1>5, <3>2
  <2> QED
    BY <2>1, <2>2
<1>9. ASSUME NEW p \in 1..n, p + limit <= n + 1
      PROVE  \E o \in Instants : Separates(longer, renewed, limit, t, p, o)
  <2>1. longer[p] = passed[p] /\ passed[p] \in Nat /\ p \in Nat
    BY <1>1
  <2>2. CASE p + limit = n + 1
    <3>1. longer[p] < opened /\ longer[p + limit] = t
      <4>1. passed[p] < opened
        BY <1>8, <1>9
      <4> QED
        BY <1>1, <2>1, <2>2, <4>1
    <3>2. \A q \in DOMAIN longer : ~(q >= p + 2 * limit)
      BY <1>0, <1>1, <2>1, <2>2
    <3>3. opened + Window <= renewed.resetAt /\ ~(t + Window < renewed.resetAt)
      BY <1>0, <1>4, <1>5
    <3>4. Separates(longer, renewed, limit, t, p, opened)
      BY <1>0, <1>4, <3>1, <3>2, <3>3 DEF Separates
    <3> QED
      BY <3>4
  <2>3. CASE p + limit <= n
    <3>1. PICK o \in Instants : Separates(passed, bucket, limit, t, p, o)
      BY <1>1, <2>3 DEF Spread, n
    <3>2. /\ o \in Nat
          /\ p + limit \in 1..n /\ longer[p + limit] = passed[p + limit] /\ passed[p + limit] \in Nat
      <4>1. p + limit \in 1..n
        BY <1>0, <2>1, <2>3
      <4> QED
        BY <1>1, <4>1 DEF Instants
    <3>3. /\ passed[p] < o /\ o <= passed[p + limit]
          /\ \A q \in 1..n : q >= p + 2 * limit => passed[q] > o + Window
      BY <1>1, <3>1 DEF Separates
    <3>4. /\ o + Window <= renewed.resetAt
          /\ passed[p + limit] + Window < renewed.resetAt => o + Window + Window < renewed.resetAt
      <4>1. Separates(passed, renewed, limit, t, p, o)
        <5>1. CASE Opens(bucket, t)
          <6>1. o + Window < t
            <7>1. CASE bucket = Absent
              BY <3>1, <7>1 DEF Separates
            <7>2. CASE bucket # Absent
              BY <1>0, <3>1, <3>2, <5>1, <7>2, BucketTypes DEF Separates, Opens
            <7> QED BY <7>1, <7>2
          <6> QED
            BY <1>0, <1>2, <3>1, <3>2, <5>1, <6>1 DEF Separates
        <5>2. CASE ~Opens(bucket, t)
          BY <1>0, <1>3, <3>1, <5>2 DEF Separates
        <5> QED BY <5>1, <5>2
      <4> QED
        BY <1>0, <4>1 DEF Separates
    <3>5. n + 1 >= p + 2 * limit => t > o + Window
      <4> SUFFICES ASSUME n + 1 >= p + 2 * limit PROVE t > o + Window
        OBVIOUS
      <4>1. (p + limit) + limit <= n + 1
        BY <1>0, <1>1, <2>1
      <4>2. passed[p + limit] < opened
        BY <1>8, <3>2, <4>1
      <4>3. passed[p + limit] + Window < renewed.resetAt
        BY <1>0, <1>4, <1>5, <3>2, <4>2
      <4>4. o + Window + Window < opened + Window
        BY <1>4, <3>4, <4>3
      <4> QED
        BY <1>0, <1>4, <1>5, <3>2, <4>4
    <3>6. \A q \in 1..(n + 1) : q >= p + 2 * limit => longer[q] > o + Window
      BY <1>1, <3>3, <3>5
    <3>7. Separates(longer, renewed, limit, t, p, o)
      BY <1>0, <1>1, <2>1, <3>2, <3>3, <3>4, <3>6 DEF Separates
    <3> QED
      BY <3>7
  <2> QED
    BY <1>0, <1>1, <1>9, <2>1, <2>2, <2>3
<1>10. ASSUME NEW p \in DOMAIN longer, p + limit <= Len(longer)
       PROVE  p \in 1..n /\ p + limit <= n + 1
  BY <1>0, <1>1, <1>10
<1> QED
  BY <1>7, <1>9, <1>10 DEF Spread, longer

LEMMA StepBurst == TypeOK /\ BurstInv /\ [Next]_vars => BurstInv'
<1> SUFFICES ASSUME TypeOK, BurstInv, [Next]_vars PROVE BurstInv'
  OBVIOUS
<1>1. /\ Window \in Nat /\ now \in Nat /\ now \in Instants
      /\ \A route \in Route : Limit[route] \in Nat \ {0}
  BY LimiterAssumption DEF TypeOK, Instants
<1>2. \A ip \in Ip : /\ rlBuckets[ip] \in Bucket \cup {Absent}
                     /\ \A route \in Route : admitted[ip][route] \in Seq(Instants)
  BY DEF TypeOK
<1>3. ASSUME NEW ip \in Ip, NEW route \in Route, Admit(ip, route) PROVE BurstInv'
  <2>1. Renewed(rlBuckets[ip], now, rlBuckets'[ip])
    BY <1>3, AdmitRecords DEF Renewed, Opens, Fresh
  <2>2. \A other \in Ip \ {ip} : admitted'[other] = admitted[other] /\ rlBuckets'[other] = rlBuckets[other]
    BY <1>3, AdmitRecords
  <2>3. now' = now
    BY <1>3, AdmitRecords
  <2>4. ASSUME NEW other \in Route \ {route}
        PROVE  Spread(admitted'[ip][other], rlBuckets'[ip], Limit[other], now)
    <3>1. admitted'[ip][other] = admitted[ip][other]
      BY <1>3, AdmitRecords
    <3>2. Spread(admitted[ip][other], rlBuckets[ip], Limit[other], now)
      BY DEF BurstInv
    <3>3. Spread(admitted[ip][other], rlBuckets'[ip], Limit[other], now)
      BY <1>1, <1>2, <2>1, <3>2, SpreadRenewed
    <3> QED
      BY <3>1, <3>3
  <2>5. Spread(admitted'[ip][route], rlBuckets'[ip], Limit[route], now)
    <3>1. admitted'[ip][route] = Append(admitted[ip][route], now)
      BY <1>3, AdmitRecords
    <3>2. Spread(admitted[ip][route], rlBuckets[ip], Limit[route], now)
      BY DEF BurstInv
    <3>3. ~Opens(rlBuckets[ip], now) => rlBuckets[ip].count < Limit[route]
      BY <1>3, AdmitRecords DEF Opens, Fresh
    <3>4. rlBuckets[ip] # Absent => \E o \in Instants : o <= now /\ o + Window = rlBuckets[ip].resetAt
      BY DEF BurstInv
    <3>5. Spread(Append(admitted[ip][route], now), rlBuckets'[ip], Limit[route], now)
      BY <1>1, <1>2, <2>1, <3>2, <3>3, <3>4, SpreadAdmits
    <3> QED
      BY <3>1, <3>5
  <2>6. ASSUME NEW i \in Ip, NEW r \in Route
        PROVE  Spread(admitted'[i][r], rlBuckets'[i], Limit[r], now)
    <3>1. CASE i = ip
      BY <2>4, <2>5, <3>1
    <3>2. CASE i # ip
      BY <2>2, <3>2 DEF BurstInv
    <3> QED BY <3>1, <3>2
  <2>7. ASSUME NEW i \in Ip, rlBuckets'[i] # Absent
        PROVE  \E o \in Instants : o <= now /\ o + Window = rlBuckets'[i].resetAt
    <3>1. CASE i = ip /\ Fresh(ip)
      <4>1. rlBuckets'[ip].resetAt = now + Window
        BY <1>3, <3>1, AdmitRecords
      <4> QED
        BY <1>1, <3>1, <4>1
    <3>2. CASE ~(i = ip /\ Fresh(ip))
      <4>1. rlBuckets[i] # Absent /\ rlBuckets'[i].resetAt = rlBuckets[i].resetAt
        BY <1>3, <2>2, <2>7, <3>2, AdmitRecords DEF Fresh
      <4> QED
        BY <4>1 DEF BurstInv
    <3> QED BY <3>1, <3>2
  <2> QED
    BY <2>3, <2>6, <2>7 DEF BurstInv
<1>4. ASSUME NEW ip \in Ip, NEW route \in Route, Refuse(ip, route) PROVE BurstInv'
  BY <1>4 DEF BurstInv, Refuse, vars
<1>5. CASE Purge
  <2>1. now' = now /\ admitted' = admitted
    BY <1>5 DEF Purge
  <2>2. ASSUME NEW ip \in Ip PROVE rlBuckets'[ip] = IF Fresh(ip) THEN Absent ELSE rlBuckets[ip]
    BY <1>5 DEF Purge
  <2>3. ASSUME NEW ip \in Ip, NEW route \in Route
        PROVE  Spread(admitted[ip][route], rlBuckets'[ip], Limit[route], now)
    <3>1. Spread(admitted[ip][route], rlBuckets[ip], Limit[route], now)
      BY DEF BurstInv
    <3>2. CASE rlBuckets[ip] # Absent /\ now > rlBuckets[ip].resetAt
      <4>1. rlBuckets'[ip] = Absent
        BY <2>2, <3>2 DEF Fresh
      <4>2. Spread(admitted[ip][route], Absent, Limit[route], now)
        BY <1>1, <1>2, <3>1, <3>2, SpreadForgets
      <4> QED
        BY <4>1, <4>2
    <3>3. CASE ~(rlBuckets[ip] # Absent /\ now > rlBuckets[ip].resetAt)
      <4>1. rlBuckets'[ip] = rlBuckets[ip]
        BY <2>2, <3>3 DEF Fresh
      <4> QED
        BY <3>1, <4>1
    <3> QED BY <3>2, <3>3
  <2>4. ASSUME NEW ip \in Ip, rlBuckets'[ip] # Absent
        PROVE  \E o \in Instants : o <= now /\ o + Window = rlBuckets'[ip].resetAt
    <3>1. rlBuckets'[ip] = rlBuckets[ip]
      BY <2>2, <2>4
    <3> QED
      BY <2>4, <3>1 DEF BurstInv
  <2> QED
    BY <2>1, <2>3, <2>4 DEF BurstInv
<1>6. CASE Advance
  <2>1. now' = now + 1 /\ admitted' = admitted /\ rlBuckets' = rlBuckets
    BY <1>6 DEF Advance
  <2>2. ASSUME NEW ip \in Ip, NEW route \in Route
        PROVE  Spread(admitted[ip][route], rlBuckets[ip], Limit[route], now + 1)
    BY <1>1, <1>2, SpreadLater DEF BurstInv
  <2>3. ASSUME NEW ip \in Ip, rlBuckets[ip] # Absent
        PROVE  \E o \in Instants : o <= now + 1 /\ o + Window = rlBuckets[ip].resetAt
    <3>1. PICK o \in Instants : o <= now /\ o + Window = rlBuckets[ip].resetAt
      BY <2>3 DEF BurstInv
    <3>2. o <= now + 1
      BY <1>1, <3>1 DEF Instants
    <3> QED
      BY <3>1, <3>2
  <2> QED
    BY <2>1, <2>2, <2>3 DEF BurstInv
<1>7. CASE UNCHANGED vars
  BY <1>7 DEF BurstInv, vars
<1> QED
  BY <1>3, <1>4, <1>5, <1>6, <1>7 DEF Next

-----------------------------------------------------------------------------
\* Types, for any addresses, routes, limits and window: no bucket counts beyond
\* the largest limit.
THEOREM TypeCorrect == Spec => []TypeOK
<1>1. Init => TypeOK
  BY InitLimiter DEF LimiterInv
<1>2. TypeOK /\ [Next]_vars => TypeOK'
  BY StepType
<1> QED BY <1>1, <1>2, PTL DEF Spec

\* Whatever was refused meanwhile, an address from which nothing was let through
\* during a window is served by every route.
THEOREM NoLockout == Spec => []QuietIsServed
<1>1. Init => LimiterInv
  BY InitLimiter
<1>2. LimiterInv /\ [Next]_vars => LimiterInv'
  BY StepType, StepOpener DEF LimiterInv
<1>3. LimiterInv => QuietIsServed
  <2> SUFFICES ASSUME LimiterInv, NEW ip \in Ip, NEW route \in Route, Full(ip, route),
                      \A r \in Route : \A i \in DOMAIN admitted[ip][r] : now > admitted[ip][r][i] + Window
               PROVE  FALSE
    BY DEF QuietIsServed
  <2>1. rlBuckets[ip] # Absent /\ ~(now > rlBuckets[ip].resetAt)
    BY DEF Full, Fresh
  <2>2. PICK r \in Route : \E i \in DOMAIN admitted[ip][r] :
          admitted[ip][r][i] + Window = rlBuckets[ip].resetAt
    BY <2>1 DEF LimiterInv, OpenerPassed
  <2> QED BY <2>1, <2>2
<1> QED BY <1>1, <1>2, <1>3, PTL DEF Spec

\* No window, whenever it begins, sees more than twice a route's limit: for any
\* number of routes that share the bucket, any limits and any window.
THEOREM BurstsBounded == Spec => []BurstIsBounded
<1>1. Init => TypeOK /\ BurstInv
  <2> SUFFICES ASSUME Init PROVE TypeOK /\ BurstInv
    OBVIOUS
  <2>1. TypeOK
    BY InitLimiter DEF LimiterInv
  <2>2. ASSUME NEW ip \in Ip, NEW route \in Route
        PROVE  DOMAIN admitted[ip][route] = {} /\ rlBuckets[ip] = Absent
    BY DEF Init
  <2>3. ASSUME NEW ip \in Ip, NEW route \in Route
        PROVE  Spread(admitted[ip][route], rlBuckets[ip], Limit[route], now)
    <3>1. DOMAIN admitted[ip][route] = {}
      BY <2>2
    <3> QED
      BY <3>1 DEF Spread, NewestCounted
  <2>4. BurstInv
    BY <2>3 DEF BurstInv, Init
  <2> QED
    BY <2>1, <2>4
<1>2. TypeOK /\ BurstInv /\ [Next]_vars => TypeOK' /\ BurstInv'
  BY StepType, StepBurst
<1>3. TypeOK /\ BurstInv => BurstIsBounded
  <2> SUFFICES ASSUME TypeOK, BurstInv, NEW ip \in Ip, NEW route \in Route,
                      NEW i \in DOMAIN admitted[ip][route], NEW j \in DOMAIN admitted[ip][route],
                      j - i >= 2 * Limit[route]
               PROVE  admitted[ip][route][j] > admitted[ip][route][i] + Window
    BY DEF BurstIsBounded
  <2> DEFINE passed == admitted[ip][route]
             limit == Limit[route]
  <2>1. /\ Window \in Nat /\ limit \in Nat
        /\ passed \in Seq(Instants)
    BY LimiterAssumption DEF TypeOK
  <2>2. Spread(passed, rlBuckets[ip], limit, now) /\ j - i >= 2 * limit
    BY DEF BurstInv
  <2>3. i \in DOMAIN passed /\ j \in DOMAIN passed
    OBVIOUS
  <2> HIDE DEF passed, limit
  <2>4. /\ i \in Nat /\ j \in Nat /\ i + limit <= Len(passed) /\ j >= i + 2 * limit
        /\ passed[i] \in Nat /\ passed[j] \in Nat
    <3>1. i \in 1..Len(passed) /\ j \in 1..Len(passed) /\ Len(passed) \in Nat
      BY <2>1, <2>3
    <3>2. passed[i] \in Nat /\ passed[j] \in Nat
      BY <2>1, <2>3, LimiterAssumption DEF Instants
    <3> QED
      BY <2>1, <2>2, <3>1, <3>2
  <2>5. PICK o \in Instants : Separates(passed, rlBuckets[ip], limit, now, i, o)
    BY <2>2, <2>3, <2>4 DEF Spread
  <2>6. passed[i] < o /\ passed[j] > o + Window /\ o \in Nat
    BY <2>3, <2>4, <2>5 DEF Separates, Instants
  <2>7. passed[j] > passed[i] + Window
    BY <2>1, <2>4, <2>6
  <2> QED
    BY <2>7 DEF passed
<1> QED BY <1>1, <1>2, <1>3, PTL DEF Spec
=============================================================================
