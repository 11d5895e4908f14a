--------------------------- MODULE BackfillProofs ---------------------------
(***************************************************************************)
(* Proofs about Backfill, for every series, window, bucket and tape.       *)
(***************************************************************************)
EXTENDS Backfill, MergeProofs, StoreProofs

LEMMA MinOfTwo ==
    ASSUME NEW x \in Int, NEW y \in Int
    PROVE  Min({x, y}) = IF x <= y THEN x ELSE y
<1> DEFINE m == IF x <= y THEN x ELSE y
<1>1. m \in {x, y} /\ \A z \in {x, y} : m <= z
  OBVIOUS
<1>2. ASSUME NEW k \in {x, y}, \A z \in {x, y} : k <= z PROVE k = m
  BY <1>2
<1> QED BY <1>1, <1>2 DEF Min

LEMMA MaxOfTwo ==
    ASSUME NEW x \in Int, NEW y \in Int
    PROVE  Max({x, y}) = IF x >= y THEN x ELSE y
<1> DEFINE m == IF x >= y THEN x ELSE y
<1>1. m \in {x, y} /\ \A z \in {x, y} : m >= z
  OBVIOUS
<1>2. ASSUME NEW k \in {x, y}, \A z \in {x, y} : k >= z PROVE k = m
  BY <1>2
<1> QED BY <1>1, <1>2 DEF Max

(***************************************************************************)
(* The bucket.  Level is what a request would find in it.  In any stretch  *)
(* of a units the requests sent and what is left in the bucket are at most *)
(* a full bucket and the a tokens gained; a request that waits for its     *)
(* turn has taken its token already, and its sleep is the debt.            *)
(***************************************************************************)
Level == IF tokens + idle <= Capacity THEN tokens + idle ELSE Capacity

BucketType ==
    /\ tokens \in -1 .. Capacity /\ idle \in 0 .. Horizon
    /\ sent \in [0 .. Horizon -> Nat]

RateInv ==
    /\ BucketType
    /\ IF pc = "pacing"
       THEN /\ tokens + idle < Capacity
            /\ timer = IF tokens + idle >= 0 THEN 0 ELSE 1
            /\ \A a \in 0 .. Horizon : sent[a] + 1 + Level <= Capacity + a
       ELSE /\ tokens + idle >= 0
            /\ \A a \in 0 .. Horizon : sent[a] + Level <= Capacity + a

LEMMA Bounds == Capacity \in Nat /\ Capacity >= 1 /\ Horizon \in Nat /\ Horizon = Capacity + Capacity
  BY CapacityAssumption DEF Horizon

LEMMA NoneSentType == NoneSent \in [0 .. Horizon -> Nat] /\ \A a \in 0 .. Horizon : NoneSent[a] = 0
  BY DEF NoneSent

\* A new bucket is full and has seen no request.
LEMMA FreshBucket ==
    ASSUME tokens' = Capacity, idle' = 0, sent' = NoneSent, pc' # "pacing"
    PROVE  RateInv'
<1>1. BucketType'
  BY Bounds, NoneSentType DEF BucketType
<1>2. Level' = Capacity /\ tokens' + idle' >= 0
  BY Bounds DEF Level
<1>3. \A a \in 0 .. Horizon : sent'[a] + Level' <= Capacity + a
  BY <1>2, Bounds, NoneSentType
<1> QED BY <1>1, <1>2, <1>3 DEF RateInv

\* A step that neither paces a request nor lets time pass.
LEMMA BucketUntouched ==
    ASSUME RateInv, UNCHANGED <<tokens, idle, sent>>,
           pc # "pacing", pc' # "pacing"
    PROVE  RateInv'
  BY DEF RateInv, BucketType, Level

LEMMA RatePace == ASSUME RateInv, Pace PROVE RateInv'
<1>1. /\ tokens + idle >= 0 /\ pc # "pacing"
      /\ \A a \in 0 .. Horizon : sent[a] + Level <= Capacity + a
  BY DEF RateInv, Pace
<1>2. tokens \in -1 .. Capacity /\ idle \in 0 .. Horizon /\ sent \in [0 .. Horizon -> Nat]
  BY DEF RateInv, BucketType
<1>3. tokens' = Level - 1 /\ idle' = 0 /\ sent' = sent /\ pc' = "pacing"
  <2>1. tokens + idle \in Int /\ Capacity \in Int
    BY <1>2, Bounds
  <2>2. Min({tokens + idle, Capacity}) = Level
    BY <2>1, MinOfTwo DEF Level
  <2> QED BY <2>2 DEF Pace, Reserve
<1>4. Level \in 0 .. Capacity
  BY <1>1, <1>2, Bounds DEF Level
<1>5. timer' = IF tokens' >= 0 THEN 0 ELSE 1
  BY <1>3, <1>4, Bounds DEF Pace, Wait
<1>6. Level' = Level - 1 /\ tokens' + idle' < Capacity
  <2>1. Level' = IF tokens' + idle' <= Capacity THEN tokens' + idle' ELSE Capacity
    BY DEF Level
  <2>2. tokens' + idle' = Level - 1
    BY <1>3, <1>4, Bounds
  <2> QED BY <1>4, <2>1, <2>2, Bounds
<1>7. ASSUME NEW a \in 0 .. Horizon PROVE sent'[a] + 1 + Level' <= Capacity + a
  <2>1. sent'[a] = sent[a] /\ sent[a] \in Nat
    BY <1>2, <1>3
  <2>2. sent[a] + Level <= Capacity + a
    BY <1>1
  <2> QED BY <1>4, <1>6, <2>1, <2>2, Bounds
<1>8. BucketType'
  BY <1>2, <1>3, <1>4, Bounds DEF BucketType
<1> QED BY <1>3, <1>4, <1>5, <1>6, <1>7, <1>8, Bounds DEF RateInv

LEMMA RateRequest == ASSUME RateInv, Request PROVE RateInv'
<1>1. /\ pc' = "trades" /\ UNCHANGED <<tokens, idle>>
      /\ sent' = [a \in 0 .. Horizon |-> sent[a] + 1]
  BY DEF Request, limiter
<1>2. /\ tokens + idle >= 0
      /\ \A a \in 0 .. Horizon : sent[a] + 1 + Level <= Capacity + a
  BY DEF RateInv, Request
<1>3. tokens \in -1 .. Capacity /\ idle \in 0 .. Horizon /\ sent \in [0 .. Horizon -> Nat]
  BY DEF RateInv, BucketType
<1>4. BucketType'
  BY <1>1, <1>3 DEF BucketType
<1>5. Level' = Level /\ tokens' + idle' >= 0 /\ Level \in Int
  BY <1>1, <1>2, <1>3, Bounds DEF Level
<1>6. \A a \in 0 .. Horizon : sent'[a] + Level' <= Capacity + a
  BY <1>1, <1>2, <1>3, <1>5, Bounds
<1> QED BY <1>1, <1>4, <1>5, <1>6 DEF RateInv

LEMMA RateTick == ASSUME RateInv, Tick PROVE RateInv'
<1>1. /\ pc' = pc /\ tokens' = tokens
      /\ sent' = [a \in 0 .. Horizon |-> IF a = 0 THEN 0 ELSE sent[a - 1]]
  BY DEF Tick
<1>2. tokens \in -1 .. Capacity /\ idle \in 0 .. Horizon /\ sent \in [0 .. Horizon -> Nat]
  BY DEF RateInv, BucketType
<1>3. idle' = idle \/ idle' = IF idle + 1 <= Horizon THEN idle + 1 ELSE Horizon
  <2>1. idle + 1 \in Int /\ Horizon \in Int
    BY <1>2, Bounds
  <2>2. Min({idle + 1, Horizon}) = IF idle + 1 <= Horizon THEN idle + 1 ELSE Horizon
    BY <2>1, MinOfTwo
  <2> QED BY <2>2 DEF Tick, Elapse
<1>4. BucketType'
  BY <1>1, <1>2, <1>3, Bounds DEF BucketType
<1>5. Level \in -1 .. Capacity /\ Level' \in {Level, Level + 1} /\ Level' <= Capacity
  <2>1. Level' = IF tokens' + idle' <= Capacity THEN tokens' + idle' ELSE Capacity
    BY DEF Level
  <2>2. Level = IF tokens + idle <= Capacity THEN tokens + idle ELSE Capacity
    BY DEF Level
  <2> DEFINE t == tokens + idle
             u == tokens' + idle'
  <2>3. t \in Int /\ t >= -1 /\ (u = t \/ u = t + 1)
    <3>1. idle' = idle \/ idle' = idle + 1
      BY <1>2, <1>3, Bounds
    <3>2. tokens \in Int /\ tokens >= -1 /\ idle \in Int /\ idle >= 0
      BY <1>2, Bounds
    <3> QED BY <1>1, <3>1, <3>2
  <2> HIDE DEF t, u
  <2>4. Level' = IF u <= Capacity THEN u ELSE Capacity
    BY <2>1 DEF u
  <2>5. Level = IF t <= Capacity THEN t ELSE Capacity
    BY <2>2 DEF t
  <2> QED BY <2>3, <2>4, <2>5, Bounds
<1>6. \A a \in 0 .. Horizon : a # 0 => a - 1 \in 0 .. Horizon /\ sent'[a] = sent[a - 1]
  BY <1>1, Bounds
<1>7. sent'[0] = 0
  BY <1>1, Bounds
<1>8. CASE pc = "pacing"
  <2>1. timer > 0 /\ timer = IF tokens + idle >= 0 THEN 0 ELSE 1
    BY <1>8 DEF Tick, RateInv
  <2>2. tokens = -1 /\ idle = 0 /\ timer = 1
    BY <1>2, <2>1
  <2>3. idle' = 1
    BY <1>8, <2>2, Bounds, MinOfTwo DEF Tick, Elapse
  <2>4. timer' = 0
    BY <2>2, MaxOfTwo DEF Tick
  <2>5. \A a \in 0 .. Horizon : sent[a] + 1 + Level <= Capacity + a
    BY <1>8 DEF RateInv
  <2>6. Level = -1 /\ Level' = 0 /\ tokens' + idle' = 0
    BY <1>1, <2>2, <2>3, Bounds DEF Level
  <2>7. ASSUME NEW a \in 0 .. Horizon PROVE sent'[a] + 1 + Level' <= Capacity + a
    <3>1. CASE a = 0
      BY <1>7, <2>6, <3>1, Bounds
    <3>2. CASE a # 0
      <4>1. a - 1 \in 0 .. Horizon /\ sent'[a] = sent[a - 1] /\ sent[a - 1] \in Nat
        BY <1>2, <1>6, <3>2
      <4>2. sent[a - 1] + 1 + Level <= Capacity + (a - 1)
        BY <2>5, <4>1
      <4> QED BY <2>6, <4>1, <4>2, Bounds
    <3> QED BY <3>1, <3>2
  <2> QED BY <1>1, <1>4, <1>8, <2>4, <2>6, <2>7, Bounds DEF RateInv
<1>9. CASE pc # "pacing"
  <2>1. /\ tokens + idle >= 0
        /\ \A a \in 0 .. Horizon : sent[a] + Level <= Capacity + a
    BY <1>9 DEF RateInv
  <2>2. tokens' + idle' >= 0
    BY <1>1, <1>2, <1>3, <2>1, Bounds
  <2>3. ASSUME NEW a \in 0 .. Horizon PROVE sent'[a] + Level' <= Capacity + a
    <3>1. CASE a = 0
      BY <1>5, <1>7, <3>1, Bounds
    <3>2. CASE a # 0
      <4>1. a - 1 \in 0 .. Horizon /\ sent'[a] = sent[a - 1] /\ sent[a - 1] \in Nat
        BY <1>2, <1>6, <3>2
      <4>2. sent[a - 1] + Level <= Capacity + (a - 1)
        BY <2>1, <4>1
      <4> QED BY <1>5, <4>1, <4>2, Bounds
    <3> QED BY <3>1, <3>2
  <2> QED BY <1>1, <1>4, <1>9, <2>2, <2>3 DEF RateInv
<1> QED BY <1>8, <1>9

LEMMA RateStep == ASSUME RateInv, [Next]_vars PROVE RateInv'
<1>1. CASE Pace
  BY <1>1, RatePace
<1>2. CASE Request
  BY <1>2, RateRequest
<1>3. CASE Tick
  BY <1>3, RateTick
<1>4. CASE Ends
  BY <1>4, FreshBucket DEF Ends
<1>5. CASE DiscoverOnly \/ Finish \/ GiveUp \/ ResolveCut \/ AppendCut \/ MarkCut \/ Crash
  BY <1>4, <1>5 DEF DiscoverOnly, Finish, GiveUp, ResolveCut, AppendCut, MarkCut, Crash
<1>6. CASE GotPage
  <2>1. UNCHANGED <<tokens, idle, sent>> /\ pc # "pacing"
    BY <1>6 DEF GotPage, Answered, limiter
  <2>2. pc' # "pacing"
    BY <1>6 DEF GotPage, ListPage, MorePages, LastPage, TradesPage
  <2> QED BY <2>1, <2>2, BucketUntouched
<1>7. CASE \/ Start \/ Resolve \/ SkipTicker \/ OpenTicker \/ PageCap \/ Retry
           \/ Duplicate \/ AppendTrade \/ NextCursor \/ Mark
  <2>1. UNCHANGED <<tokens, idle, sent>>
    BY <1>7 DEF Start, Resolve, SkipTicker, OpenTicker, PageCap, Retry, Duplicate,
                AppendTrade, NextCursor, Mark, limiter
  <2>2. pc # "pacing" /\ pc' # "pacing"
    BY <1>7 DEF Start, Resolve, SkipTicker, OpenTicker, PageCap, Retry, Answered,
                Duplicate, AppendTrade, NextCursor, Mark
  <2> QED BY <2>1, <2>2, BucketUntouched
<1>8. CASE UNCHANGED vars
  BY <1>8 DEF vars, RateInv, BucketType, Level
<1> QED BY <1>1, <1>2, <1>3, <1>5, <1>6, <1>7, <1>8 DEF Next, Step, OwnStep

LEMMA RateInit == ASSUME Init PROVE RateInv
<1>1. tokens = Capacity /\ idle = 0 /\ sent = NoneSent /\ pc = "down"
  BY DEF Init, NewLimiter
<1>2. BucketType
  BY <1>1, Bounds, NoneSentType DEF BucketType
<1>3. Level = Capacity
  BY <1>1, Bounds DEF Level
<1>4. \A a \in 0 .. Horizon : sent[a] + Level <= Capacity + a
  BY <1>1, <1>3, Bounds, NoneSentType
<1> QED BY <1>1, <1>2, <1>4, Bounds DEF RateInv

\* In any stretch of time a run sends no more paced requests than a full bucket
\* and what it gains in that stretch, for every capacity.
THEOREM RateIsHonoured == Spec => []RateHonoured
<1>1. Init => RateInv
  BY RateInit
<1>2. RateInv /\ [Next]_vars => RateInv'
  BY RateStep
<1>3. RateInv => RateHonoured
  <2> SUFFICES ASSUME RateInv, NEW a \in 0 .. Horizon PROVE sent[a] <= Capacity + a
    BY DEF RateHonoured
  <2>1. /\ sent[a] \in Nat /\ tokens \in -1 .. Capacity /\ idle \in 0 .. Horizon
    BY DEF RateInv, BucketType
  <2>2. \/ sent[a] + 1 + Level <= Capacity + a
        \/ sent[a] + Level <= Capacity + a /\ tokens + idle >= 0
    BY DEF RateInv
  <2>3. Level \in -1 .. Capacity /\ (tokens + idle >= 0 => Level >= 0)
    BY <2>1, Bounds DEF Level
  <2> QED BY <2>1, <2>2, <2>3, Bounds
<1> QED BY <1>1, <1>2, <1>3, PTL DEF Spec

(***************************************************************************)
(* Lists.  The recursive function in Only is there, and Only keeps what is *)
(* in S, in order.                                                         *)
(***************************************************************************)
Distinct(items) == \A i, j \in DOMAIN items : items[i] = items[j] => i = j

KeptSoFar(f, items, S, n) ==
    f = [k \in 0 .. n |->
            IF k = 0 THEN <<>>
            ELSE IF items[k] \in S THEN Append(f[k - 1], items[k]) ELSE f[k - 1]]

LEMMA KeptExists ==
    ASSUME NEW items, NEW S, NEW n \in Nat PROVE \E f : KeptSoFar(f, items, S, n)
<1> DEFINE T == {m \in Nat : \E f : KeptSoFar(f, items, S, m)}
<1>1. 0 \in T
  <2> DEFINE f == [k \in 0 .. 0 |-> <<>>]
  <2>1. KeptSoFar(f, items, S, 0)
    BY DEF KeptSoFar
  <2> QED BY <2>1
<1>2. ASSUME NEW m \in T PROVE m + 1 \in T
  <2>1. PICK f : KeptSoFar(f, items, S, m)
    OBVIOUS
  <2> DEFINE more == IF items[m + 1] \in S THEN Append(f[m], items[m + 1]) ELSE f[m]
             g == [k \in 0 .. m + 1 |-> IF k <= m THEN f[k] ELSE more]
  <2>2. m \in Nat /\ \A k \in 0 .. m :
           f[k] = IF k = 0 THEN <<>>
                  ELSE IF items[k] \in S THEN Append(f[k - 1], items[k]) ELSE f[k - 1]
    BY <2>1 DEF KeptSoFar
  <2>3. \A k \in 0 .. m : g[k] = f[k]
    BY <2>2
  <2>4. g[m + 1] = more
    BY <2>2
  <2>5. g = [k \in 0 .. m + 1 |-> g[k]]
    OBVIOUS
  <2> HIDE DEF g
  <2>6. ASSUME NEW k \in 0 .. m + 1
        PROVE  g[k] = IF k = 0 THEN <<>>
                      ELSE IF items[k] \in S THEN Append(g[k - 1], items[k]) ELSE g[k - 1]
    <3>1. CASE k <= m
      <4>1. k \in 0 .. m /\ (k # 0 => k - 1 \in 0 .. m)
        BY <2>2, <3>1
      <4> QED BY <2>2, <2>3, <4>1
    <3>2. CASE k = m + 1
      <4>1. k # 0 /\ k - 1 = m /\ m \in 0 .. m
        BY <2>2, <3>2
      <4> QED BY <2>3, <2>4, <3>2, <4>1
    <3> QED BY <2>2, <3>1, <3>2
  <2>7. KeptSoFar(g, items, S, m + 1)
    BY <2>5, <2>6 DEF KeptSoFar
  <2> QED BY <2>2, <2>7
<1> HIDE DEF T
<1>3. T \in SUBSET Nat
  BY DEF T
<1>4. n \in T
  BY <1>1, <1>2, <1>3, Induction
<1> QED BY <1>4 DEF T

LEMMA OnlyIs ==
    ASSUME NEW A, NEW items \in Seq(A), NEW S
    PROVE  /\ Only(items, S) \in Seq(A)
           /\ ToSet(Only(items, S)) = ToSet(items) \cap S
           /\ Distinct(items) => Distinct(Only(items, S))
<1> DEFINE f == CHOOSE g : KeptSoFar(g, items, S, Len(items))
<1>0. Len(items) \in Nat /\ DOMAIN items = 1 .. Len(items) /\ \A i \in 1 .. Len(items) : items[i] \in A
  OBVIOUS
<1>1. KeptSoFar(f, items, S, Len(items))
  BY <1>0, KeptExists
<1>2. Only(items, S) = f[Len(items)]
  BY DEF Only, KeptSoFar
<1> HIDE DEF f
<1>3. \A k \in 0 .. Len(items) :
         f[k] = IF k = 0 THEN <<>>
                ELSE IF items[k] \in S THEN Append(f[k - 1], items[k]) ELSE f[k - 1]
  BY <1>1 DEF KeptSoFar
<1> DEFINE Good(k) == /\ f[k] \in Seq(A)
                      /\ ToSet(f[k]) = {items[i] : i \in 1 .. k} \cap S
                      /\ Distinct(items) => Distinct(f[k])
           T == {k \in Nat : k <= Len(items) => Good(k)}
<1>4. 0 \in T
  <2>1. f[0] = <<>>
    BY <1>0, <1>3
  <2>2. <<>> \in Seq(A) /\ DOMAIN <<>> = {} /\ 1 .. 0 = {}
    OBVIOUS
  <2>3. ToSet(<<>>) = {} /\ Distinct(<<>>)
    BY <2>2 DEF ToSet, Distinct
  <2>4. {items[i] : i \in 1 .. 0} = {}
    BY <2>2
  <2>5. Good(0)
    BY <2>1, <2>2, <2>3, <2>4
  <2> QED BY <2>5
<1>5. ASSUME NEW k \in T PROVE k + 1 \in T
  <2> SUFFICES ASSUME k + 1 <= Len(items) PROVE Good(k + 1)
    OBVIOUS
  <2>1. /\ k \in Nat /\ k + 1 \in 1 .. Len(items) /\ k + 1 \in 0 .. Len(items) /\ k + 1 # 0
        /\ (k + 1) - 1 = k /\ 1 .. k + 1 = (1 .. k) \cup {k + 1}
    BY <1>0
  <2>2. Good(k)
    BY <1>0, <2>1
  <2>3. f[k + 1] = IF items[k + 1] \in S THEN Append(f[k], items[k + 1]) ELSE f[k]
    BY <1>3, <2>1
  <2>4. CASE items[k + 1] \notin S
    <3>1. {items[i] : i \in 1 .. k + 1} \cap S = {items[i] : i \in 1 .. k} \cap S
      BY <2>1, <2>4
    <3> QED BY <2>2, <2>3, <2>4, <3>1
  <2>5. CASE items[k + 1] \in S
    <3> DEFINE q == f[k]
               x == items[k + 1]
               out == Append(q, x)
    <3>1. f[k + 1] = out
      BY <2>3, <2>5
    <3>2. q \in Seq(A) /\ x \in A
      BY <1>0, <2>1, <2>2
    <3>3. /\ out \in Seq(A) /\ Len(q) \in Nat /\ DOMAIN q = 1 .. Len(q)
          /\ DOMAIN out = 1 .. Len(q) + 1
          /\ \A i \in 1 .. Len(q) : out[i] = q[i]
          /\ out[Len(q) + 1] = x
      <4> HIDE DEF q, x
      <4> QED BY <3>2
    <3> HIDE DEF out
    <3>4. ToSet(out) = ToSet(q) \cup {x}
      <4> HIDE DEF q, x
      <4> QED BY <3>3 DEF ToSet
    <3>5. ToSet(out) = {items[i] : i \in 1 .. k + 1} \cap S
      BY <2>1, <2>2, <2>5, <3>4
    <3>6. ASSUME Distinct(items) PROVE Distinct(out)
      <4>1. x \notin ToSet(q)
        <5>1. \A i \in 1 .. k : items[i] # items[k + 1]
          BY <1>0, <2>1, <3>6 DEF Distinct
        <5> QED BY <2>2, <5>1
      <4>2. Distinct(q)
        BY <2>2, <3>6
      <4> HIDE DEF q, x
      <4>3. \A i \in 1 .. Len(q) : q[i] # x
        BY <3>3, <4>1 DEF ToSet
      <4> QED BY <3>3, <4>2, <4>3 DEF Distinct
    <3> QED BY <3>1, <3>3, <3>5, <3>6
  <2> QED BY <2>4, <2>5
<1> HIDE DEF T
<1>6. T \in SUBSET Nat
  BY DEF T
<1>7. Len(items) \in T
  BY <1>0, <1>4, <1>5, <1>6, Induction
<1>8. Good(Len(items))
  BY <1>0, <1>7 DEF T
<1> QED BY <1>0, <1>2, <1>8 DEF ToSet

\* One list behind another.
LEMMA ConcatIs ==
    ASSUME NEW A, NEW p \in Seq(A), NEW q \in Seq(A)
    PROVE  /\ p \o q \in Seq(A)
           /\ ToSet(p \o q) = ToSet(p) \cup ToSet(q)
           /\ Distinct(p) /\ Distinct(q) /\ ToSet(p) \cap ToSet(q) = {} => Distinct(p \o q)
<1> DEFINE out == p \o q
<1>1. /\ out \in Seq(A) /\ Len(p) \in Nat /\ Len(q) \in Nat
      /\ DOMAIN p = 1 .. Len(p) /\ DOMAIN q = 1 .. Len(q)
      /\ DOMAIN out = 1 .. Len(p) + Len(q)
      /\ \A i \in 1 .. Len(p) : out[i] = p[i]
  OBVIOUS
<1>2. ASSUME NEW i \in 1 .. Len(q) PROVE out[Len(p) + i] = q[i] /\ Len(p) + i \in DOMAIN out
  BY <1>1
<1>3. ASSUME NEW i \in DOMAIN out
      PROVE  \/ i \in 1 .. Len(p) /\ out[i] = p[i]
             \/ /\ i - Len(p) \in 1 .. Len(q) /\ i > Len(p) /\ i \in Nat
                /\ out[i] = q[i - Len(p)]
  BY <1>1
<1> HIDE DEF out
<1>4. ToSet(out) \subseteq ToSet(p) \cup ToSet(q)
  BY <1>1, <1>3 DEF ToSet
<1>5. ToSet(p) \subseteq ToSet(out)
  BY <1>1 DEF ToSet
<1>6. ToSet(q) \subseteq ToSet(out)
  BY <1>1, <1>2 DEF ToSet
<1>7. ASSUME Distinct(p), Distinct(q), ToSet(p) \cap ToSet(q) = {} PROVE Distinct(out)
  <2> SUFFICES ASSUME NEW i \in DOMAIN out, NEW j \in DOMAIN out, out[i] = out[j] PROVE i = j
    BY DEF Distinct
  <2>1. \A m \in 1 .. Len(p), n \in 1 .. Len(q) : p[m] # q[n]
    BY <1>1, <1>7 DEF ToSet
  <2>2. CASE i \in 1 .. Len(p)
    <3>1. j \in 1 .. Len(p) /\ out[j] = p[j] /\ out[i] = p[i]
      BY <1>1, <1>3, <2>1, <2>2
    <3> QED BY <1>1, <1>7, <2>2, <3>1 DEF Distinct
  <2>3. CASE i \notin 1 .. Len(p)
    <3>1. i - Len(p) \in 1 .. Len(q) /\ i \in Nat /\ out[i] = q[i - Len(p)]
      BY <1>3, <2>3
    <3>2. j - Len(p) \in 1 .. Len(q) /\ j \in Nat /\ out[j] = q[j - Len(p)]
      BY <1>1, <1>3, <2>1, <3>1
    <3>3. i - Len(p) = j - Len(p)
      BY <1>1, <1>7, <3>1, <3>2 DEF Distinct
    <3> QED BY <1>1, <3>1, <3>2, <3>3
  <2> QED BY <2>2, <2>3
<1> QED BY <1>1, <1>4, <1>5, <1>6, <1>7 DEF out

\* A listing of a set holds each element once.
LEMMA ListingIs ==
    ASSUME NEW A, NEW S \in SUBSET A, IsFiniteSet(S), NEW ms \in SetToSeqs(S)
    PROVE  ms \in Seq(A) /\ ToSet(ms) = S /\ Distinct(ms)
<1>1. /\ Cardinality(S) \in Nat /\ ms \in [1 .. Cardinality(S) -> S]
      /\ \A i, j \in 1 .. Cardinality(S) : i # j => ms[i] # ms[j]
  BY FS_CardinalityType DEF SetToSeqs
<1>2. ms \in Seq(A) /\ DOMAIN ms = 1 .. Cardinality(S)
  <2>1. ms \in [1 .. Cardinality(S) -> A]
    BY <1>1
  <2> QED BY <1>1, <2>1
<1>3. Distinct(ms)
  BY <1>1, <1>2 DEF Distinct
<1>4. ms \in Surjection(1 .. Cardinality(S), S)
  <2>1. ms \in Injection(1 .. Cardinality(S), S)
    BY <1>1 DEF Injection, IsInjective
  <2>2. Cardinality(1 .. Cardinality(S)) = Cardinality(S)
    <3>1. 1 \in Int /\ Cardinality(S) \in Int
      BY <1>1
    <3>2. Cardinality(1 .. Cardinality(S))
             = IF 1 > Cardinality(S) THEN 0 ELSE Cardinality(S) - 1 + 1
      BY <3>1, FS_Interval
    <3> QED BY <1>1, <3>2
  <2> QED BY <2>1, <2>2, FS_Injection
<1>5. ToSet(ms) = S
  <2>1. \A x \in S : \E i \in 1 .. Cardinality(S) : ms[i] = x
    BY <1>4 DEF Surjection
  <2> QED BY <1>1, <1>2, <2>1 DEF ToSet
<1> QED BY <1>2, <1>3, <1>5

\* As many entries as elements.
LEMMA DistinctCount ==
    ASSUME NEW A, NEW s \in Seq(A), Distinct(s)
    PROVE  Len(s) = Cardinality(ToSet(s))
<1>1. Len(s) \in Nat /\ DOMAIN s = 1 .. Len(s) /\ s \in [1 .. Len(s) -> ToSet(s)]
  BY DEF ToSet
<1>2. s \in Surjection(1 .. Len(s), ToSet(s)) /\ s \in Injection(1 .. Len(s), ToSet(s))
  BY <1>1 DEF Surjection, Injection, IsInjective, ToSet, Distinct
<1>3. IsFiniteSet(1 .. Len(s)) /\ Cardinality(1 .. Len(s)) = Len(s)
  <2>1. 1 \in Int /\ Len(s) \in Int
    BY <1>1
  <2>2. /\ IsFiniteSet(1 .. Len(s))
        /\ Cardinality(1 .. Len(s)) = IF 1 > Len(s) THEN 0 ELSE Len(s) - 1 + 1
    BY <2>1, FS_Interval
  <2> QED BY <1>1, <2>2
<1> QED BY <1>2, <1>3, FS_Surjection

(***************************************************************************)
(* Types.                                                                  *)
(***************************************************************************)
Busy == {"page", "pacing", "trades", "append", "mark"}
Marks == [kind : {"done", "open", "torn", "bad"}, s : Tickers]

\* What the next process finds.
DiskType ==
    /\ markets \in Seq(Tickers) \cup {NoMarkets}
    /\ logs \in [Tickers -> Seq(Lines)]
    /\ ckpt \in Seq(Marks)
    /\ runs \in 0 .. MaxRuns

ListType ==
    /\ source \in {"live", "archive", "file", "given"}
    /\ lo \in MinClose .. MaxClose
    /\ found \in Seq(Tickers) /\ done \subseteq Tickers
    /\ listed \subseteq Tickers /\ (pc # "listing" => listed = {})
    /\ pc = "down" => lo = MinClose /\ found = <<>>
    /\ pc = "listing" => lo < MaxClose /\ source \in {"live", "archive"}

WalkType ==
    /\ ticker \in 1 .. Len(found) + 1
    /\ seen \subseteq Ids /\ page \in Seq(Ids) /\ pages_this_ticker \in 0 .. MaxTradePages
    /\ pc \in {"down", "listing", "resolve"} => ticker = 1
    /\ pc \in Busy => ticker <= Len(found)
    /\ pc \in Busy \ {"mark"} => cursor \in DOMAIN Pages[Current]

NetType == attempt \in 1 .. MaxGetAttempts /\ timer \in Nat

FlowType ==
    /\ pc \in {"down", "listing", "resolve", "tickers"} \cup Busy
    /\ DiskType /\ ListType /\ WalkType /\ NetType

LEMMA Given0 ==
    /\ IsFiniteSet(Tickers) /\ Tickers \subseteq Nat \ {0}
    /\ \A t \in Tickers : Close[t] \in Int
    /\ Given \subseteq Seq(Tickers)
    /\ MinClose \in Int /\ MaxClose \in Int /\ MinClose < MaxClose /\ Chunk \in Nat /\ Chunk > 0
    /\ MaxTradePages \in Nat /\ MaxRuns \in Nat
    /\ MaxGetAttempts \in Nat /\ MaxGetAttempts >= 1
    /\ \A t \in Tickers : 1 \in DOMAIN Pages[t]
    /\ \A t \in Tickers : \A c \in DOMAIN Pages[t] :
          Pages[t][c].trades \in Seq(Ids) /\ Pages[t][c].next \in {0} \cup DOMAIN Pages[t]
  BY WindowAssumption, TapeAssumption, AttemptsAssumption

LEMMA CurrentTicker ==
    ASSUME found \in Seq(Tickers), ticker \in 1 .. Len(found) + 1, ticker <= Len(found)
    PROVE  Current \in Tickers
<1>1. ticker \in 1 .. Len(found)
  OBVIOUS
<1> QED BY <1>1 DEF Current

\* The end of a process leaves what is on disk.
LEMMA EndsType == ASSUME Ends, DiskType' PROVE FlowType'
<1>1. ListType'
  BY Given0 DEF Ends, ListType
<1>2. WalkType'
  <2>1. found' = <<>> /\ ticker' = 1 /\ seen' = {} /\ page' = <<>> /\ pages_this_ticker' = 0
        /\ pc' = "down"
    BY DEF Ends
  <2>2. pc' \notin Busy
    BY <2>1 DEF Busy
  <2> QED BY <2>1, <2>2, Given0 DEF WalkType
<1>3. NetType'
  BY Given0 DEF Ends, NetType
<1> QED BY <1>1, <1>2, <1>3 DEF FlowType, Ends

\* A log takes what the run writes.
LEMMA EnvelopeStorable ==
    ASSUME NEW id \in Ids PROVE Storable(Lines, Envelope(id))
<1>1. Envelope(id).kind \in {"raw", "rest"} /\ Envelope(id).s = id
  BY DEF Envelope
<1> QED BY <1>1 DEF Storable, Lines, Line, Envelope

LEMMA LogWritten ==
    ASSUME logs \in [Tickers -> Seq(Lines)], NEW t \in Tickers, NEW id \in Ids,
           NEW log, \/ log \in Appended(logs[t], Envelope(id))
                    \/ log \in AppendFailed(logs[t], Envelope(id), TRUE),
           logs' = [logs EXCEPT ![t] = log]
    PROVE  logs' \in [Tickers -> Seq(Lines)]
<1>1. logs[t] \in Seq(Lines) /\ Storable(Lines, Envelope(id)) /\ TRUE \in BOOLEAN
  BY EnvelopeStorable
<1>2. log \in Seq(Lines)
  BY <1>1, AppendCounts, FailedCounts
<1> QED BY <1>2

LEMMA MarksWritten ==
    ASSUME ckpt \in Seq(Marks), NEW t \in Tickers,
           ckpt' = WriteMark(ckpt, t) \/ ckpt' \in CutMark(ckpt, t)
    PROVE  /\ ckpt' \in Seq(Marks)
           /\ LoadCheckpoint(ckpt') \subseteq LoadCheckpoint(ckpt) \cup {t}
<1>1. \A k \in {"done", "open", "torn", "bad"} : Line(k, t) \in Marks
  BY DEF Line, Marks
<1>2. ASSUME NEW k \in {"done", "open", "torn"}, ckpt' = Append(ckpt, Line(k, t))
      PROVE  /\ ckpt' \in Seq(Marks)
             /\ LoadCheckpoint(ckpt') \subseteq LoadCheckpoint(ckpt) \cup {t}
  <2>1. /\ ckpt' \in Seq(Marks) /\ Len(ckpt) \in Nat /\ DOMAIN ckpt = 1 .. Len(ckpt)
        /\ DOMAIN ckpt' = 1 .. Len(ckpt) + 1
        /\ \A i \in 1 .. Len(ckpt) : ckpt'[i] = ckpt[i]
        /\ ckpt'[Len(ckpt) + 1] = Line(k, t)
    BY <1>1, <1>2
  <2>2. Line(k, t).s = t
    BY DEF Line
  <2>3. Readable(ckpt') \ {Len(ckpt) + 1} \subseteq Readable(ckpt)
    BY <2>1 DEF Readable
  <2>4. \A i \in Readable(ckpt') :
           (i \in Readable(ckpt) /\ ckpt'[i] = ckpt[i]) \/ ckpt'[i].s = t
    BY <2>1, <2>2, <2>3 DEF Readable
  <2> QED BY <2>1, <2>4 DEF LoadCheckpoint
<1>3. ASSUME Unended(ckpt), ckpt' = Append(Front(ckpt), Line("bad", t))
      PROVE  /\ ckpt' \in Seq(Marks)
             /\ LoadCheckpoint(ckpt') \subseteq LoadCheckpoint(ckpt) \cup {t}
  <2> DEFINE front == Front(ckpt)
  <2>1. Len(ckpt) \in Nat /\ Len(ckpt) >= 1 /\ DOMAIN ckpt = 1 .. Len(ckpt)
    BY <1>3 DEF Unended
  <2>2. /\ front \in Seq(Marks) /\ Len(front) = Len(ckpt) - 1
        /\ \A i \in 1 .. Len(ckpt) - 1 : front[i] = ckpt[i]
    BY <2>1 DEF Front
  <2> HIDE DEF front
  <2>3. ckpt' = Append(front, Line("bad", t))
    BY <1>3 DEF front
  <2>4. /\ ckpt' \in Seq(Marks) /\ DOMAIN ckpt' = 1 .. Len(ckpt)
        /\ \A i \in 1 .. Len(ckpt) - 1 : ckpt'[i] = ckpt[i]
        /\ ckpt'[Len(ckpt)] = Line("bad", t)
    <3> DEFINE bad == Line("bad", t)
    <3>1. bad \in Marks
      BY <1>1
    <3>2. ckpt' = Append(front, bad)
      BY <2>3
    <3> HIDE DEF bad
    <3>3. /\ ckpt' \in Seq(Marks) /\ DOMAIN ckpt' = 1 .. Len(front) + 1
          /\ \A i \in 1 .. Len(front) : ckpt'[i] = front[i]
          /\ ckpt'[Len(front) + 1] = bad
      BY <2>2, <3>1, <3>2
    <3>4. Len(front) + 1 = Len(ckpt)
      BY <2>1, <2>2
    <3> QED BY <2>1, <2>2, <3>3, <3>4 DEF bad
  <2>5. Line("bad", t).kind = "bad"
    BY DEF Line
  <2> QED BY <2>1, <2>4, <2>5 DEF LoadCheckpoint, Readable
<1>4. ckpt' = ckpt \/ (\E k \in {"done", "open", "torn"} : ckpt' = Append(ckpt, Line(k, t)))
      \/ (Unended(ckpt) /\ ckpt' = Append(Front(ckpt), Line("bad", t)))
  BY DEF WriteMark, CutMark
<1> QED BY <1>2, <1>3, <1>4

(***************************************************************************)
(* The lists of markets.                                                   *)
(***************************************************************************)
InWindow == {t \in Tickers : MarketCloseInWindow(t)}
Closing(a, b) == {t \in Tickers : Close[t] \in a .. b}

LEMMA FoundWithIs ==
    ASSUME found \in Seq(Tickers), NEW S \in SUBSET Tickers, NEW ms \in SetToSeqs(S)
    PROVE  /\ FoundWith(ms) \in Seq(Tickers)
           /\ ToSet(FoundWith(ms)) = ToSet(found) \cup (S \cap Wanted)
           /\ Distinct(found) => Distinct(FoundWith(ms))
<1> DEFINE new == Only(ms, Wanted \ ToSet(found))
<1>1. IsFiniteSet(S)
  BY Given0, FS_Subset
<1>2. ms \in Seq(Tickers) /\ ToSet(ms) = S /\ Distinct(ms)
  BY <1>1, ListingIs
<1>3. new \in Seq(Tickers) /\ ToSet(new) = (S \cap Wanted) \ ToSet(found) /\ Distinct(new)
  <2>1. new \in Seq(Tickers) /\ ToSet(new) = ToSet(ms) \cap (Wanted \ ToSet(found)) /\ Distinct(new)
    BY <1>2, OnlyIs
  <2> HIDE DEF new
  <2> QED BY <1>2, <2>1
<1>4. FoundWith(ms) = found \o new
  BY DEF FoundWith
<1> HIDE DEF new
<1>5. ToSet(found) \cap ToSet(new) = {}
  BY <1>3
<1>6. /\ found \o new \in Seq(Tickers)
      /\ ToSet(found \o new) = ToSet(found) \cup ToSet(new)
      /\ Distinct(found) => Distinct(found \o new)
  BY <1>3, <1>5, ConcatIs
<1>7. ToSet(found) \cup ToSet(new) = ToSet(found) \cup (S \cap Wanted)
  BY <1>3
<1> QED BY <1>4, <1>6, <1>7

\* A chunk ends within the window, behind its start.
LEMMA ChunkEndIs ==
    ASSUME lo \in MinClose .. MaxClose, lo < MaxClose
    PROVE  ChunkEnd(lo) \in MinClose .. MaxClose /\ lo < ChunkEnd(lo)
<1>1. /\ lo \in Int /\ MinClose \in Int /\ MaxClose \in Int /\ Chunk \in Nat /\ Chunk > 0
      /\ MinClose <= lo
  BY Given0
<1>2. ChunkEnd(lo) = IF lo + Chunk <= MaxClose THEN lo + Chunk ELSE MaxClose
  <2>1. lo + Chunk \in Int /\ MaxClose \in Int
    BY <1>1
  <2> QED BY <2>1, MinOfTwo DEF ChunkEnd
<1> QED BY <1>1, <1>2

\* A page of a listing adds those of its markets that the run wants.
LEMMA ListPageIs ==
    ASSUME ListType, pc = "listing", ListPage
    PROVE  /\ found' \in Seq(Tickers)
           /\ Distinct(found) => Distinct(found')
           /\ lo' \in MinClose .. MaxClose /\ listed' \subseteq Tickers
           /\ pc' = "listing" => lo' < MaxClose
           /\ pc' \in {"listing", "resolve"} /\ (pc' = "resolve" => listed' = {})
           /\ \E S \in SUBSET Query :
                 /\ ToSet(found') = ToSet(found) \cup (S \cap Wanted)
                 /\ MorePages(S) \/ LastPage(S)
<1>1. /\ found \in Seq(Tickers) /\ lo \in MinClose .. MaxClose /\ lo < MaxClose
      /\ listed \subseteq Tickers
  BY DEF ListType
<1>2. PICK S \in SUBSET Query :
         (\E ms \in SetToSeqs(S) : found' = FoundWith(ms)) /\ (MorePages(S) \/ LastPage(S))
  BY DEF ListPage
<1>3. PICK ms \in SetToSeqs(S) : found' = FoundWith(ms)
  BY <1>2
<1>4. S \in SUBSET Tickers
  BY <1>2 DEF Query
<1>5. /\ found' \in Seq(Tickers)
      /\ ToSet(found') = ToSet(found) \cup (S \cap Wanted)
      /\ Distinct(found) => Distinct(found')
  BY <1>1, <1>3, <1>4, FoundWithIs
<1>6. CASE MorePages(S)
  <2>1. pc' = "listing" /\ lo' = lo /\ listed' = listed \cup S
    BY <1>6 DEF MorePages
  <2> QED BY <1>1, <1>2, <1>4, <1>5, <1>6, <2>1
<1>7. CASE LastPage(S)
  <2>1. /\ listed' = {} /\ lo' \in {MaxClose, ChunkEnd(lo)}
        /\ pc' = IF lo' < MaxClose THEN "listing" ELSE "resolve"
    BY <1>7 DEF LastPage
  <2>2. lo' \in MinClose .. MaxClose
    <3>1. MaxClose \in MinClose .. MaxClose
      BY Given0
    <3> QED BY <1>1, <2>1, <3>1, ChunkEndIs
  <2> QED BY <1>2, <1>5, <1>7, <2>1, <2>2
<1> QED BY <1>2, <1>6, <1>7

LEMMA KeptIs ==
    ASSUME found \in Seq(Tickers), NEW kept \in Kept
    PROVE  /\ kept \in Seq(Tickers)
           /\ Distinct(found) => Distinct(kept)
           /\ ToSet(kept) \in {ToSet(found), ToSet(found) \cap HighVolume}
<1>1. kept = found \/ kept = Only(found, HighVolume)
  BY DEF Kept
<1> QED BY <1>1, OnlyIs

\* What a run leaves in markets.jsonl, whole or cut.
LEMMA RecordedIs ==
    ASSUME found \in Seq(Tickers), markets \in Seq(Tickers) \cup {NoMarkets}, NEW kept \in Kept,
           NEW ms, \/ ms = Recorded(kept)
                   \/ ms \in {SubSeq(kept, 1, n) : n \in 0 .. Len(kept)} \cup {NoMarkets}
    PROVE  /\ ms \in Seq(Tickers) \cup {NoMarkets}
           /\ Distinct(found) /\ Distinct(markets) => Distinct(ms)
           /\ ms = markets \/ ms = NoMarkets \/ ToSet(ms) \subseteq ToSet(kept)
<1>1. kept \in Seq(Tickers) /\ (Distinct(found) => Distinct(kept))
  BY KeptIs
<1>2. Distinct(NoMarkets)
  BY DEF NoMarkets, Distinct
<1>3. CASE ms = Recorded(kept)
  BY <1>1, <1>3 DEF Recorded
<1>4. CASE ms = NoMarkets
  BY <1>2, <1>4
<1>5. ASSUME NEW n \in 0 .. Len(kept), ms = SubSeq(kept, 1, n)
      PROVE  /\ ms \in Seq(Tickers)
             /\ Distinct(kept) => Distinct(ms)
             /\ ToSet(ms) \subseteq ToSet(kept)
  <2>1. /\ Len(kept) \in Nat /\ DOMAIN kept = 1 .. Len(kept)
        /\ ms \in Seq(Tickers) /\ DOMAIN ms = 1 .. n
        /\ \A i \in 1 .. n : ms[i] = kept[i] /\ i \in 1 .. Len(kept)
    BY <1>1, <1>5
  <2> QED BY <2>1 DEF Distinct, ToSet
<1> QED BY <1>1, <1>3, <1>4, <1>5

(***************************************************************************)
(* Every step keeps the types.                                             *)
(***************************************************************************)
LEMMA FlowStart == ASSUME FlowType, Start PROVE FlowType'
<1>1. /\ pc = "down" /\ runs < MaxRuns /\ runs' = runs + 1
      /\ pc' \in {"listing", "resolve"}
      /\ UNCHANGED <<lo, listed, markets, done, walk, net, disk>>
  BY DEF Start
<1>2. found' \in Seq(Tickers) /\ source' \in {"live", "archive", "file", "given"}
      /\ (pc' = "listing" => source' \in {"live", "archive"})
  <2>1. found \in Seq(Tickers)
    BY DEF FlowType, ListType
  <2>2. CASE source' \in {"live", "archive"} /\ pc' = "listing" /\ UNCHANGED found
    BY <2>1, <2>2
  <2>3. CASE /\ source' = "file" /\ markets # NoMarkets
             /\ found' = Only(markets, InWindow) /\ pc' = "resolve"
    <3>1. markets \in Seq(Tickers)
      BY <2>3 DEF FlowType, DiskType
    <3> QED BY <2>3, <3>1, OnlyIs
  <2>4. CASE source' = "given" /\ found' \in Given /\ pc' = "resolve"
    BY <2>4, Given0
  <2> QED BY <2>2, <2>3, <2>4 DEF Start, InWindow
<1>3. DiskType'
  BY <1>1, Given0 DEF FlowType, DiskType, disk
<1>4. ListType'
  BY <1>1, <1>2, Given0 DEF FlowType, ListType
<1>5. WalkType'
  <2>1. ticker' = 1 /\ 1 \in 1 .. Len(found') + 1
    BY <1>1, <1>2 DEF FlowType, WalkType, walk
  <2> QED BY <1>1, <2>1 DEF FlowType, WalkType, walk, Busy
<1>6. NetType'
  BY <1>1 DEF FlowType, NetType, net
<1> QED BY <1>1, <1>3, <1>4, <1>5, <1>6 DEF FlowType

LEMMA FlowGotPage == ASSUME FlowType, GotPage PROVE FlowType'
<1>1. attempt' = 1 /\ UNCHANGED <<timer, runs>>
  BY DEF GotPage
<1>2. NetType'
  BY <1>1, Given0 DEF FlowType, NetType
<1>3. CASE ListPage
  <2>1. pc = "listing" /\ UNCHANGED <<source, markets, done, walk, disk>>
    BY <1>3 DEF ListPage
  <2>2. /\ found' \in Seq(Tickers) /\ lo' \in MinClose .. MaxClose /\ listed' \subseteq Tickers
        /\ pc' = "listing" => lo' < MaxClose
        /\ pc' \in {"listing", "resolve"} /\ (pc' = "resolve" => listed' = {})
    BY <1>3, <2>1, ListPageIs DEF FlowType
  <2>3. ListType'
    BY <2>1, <2>2 DEF FlowType, ListType
  <2>4. DiskType'
    BY <1>1, <2>1 DEF FlowType, DiskType, disk
  <2>5. WalkType'
    <3>1. ticker' = 1 /\ 1 \in 1 .. Len(found') + 1
      BY <2>1, <2>2 DEF FlowType, WalkType, walk
    <3> QED BY <2>1, <2>2, <3>1 DEF FlowType, WalkType, walk, Busy
  <2> QED BY <1>2, <2>2, <2>3, <2>4, <2>5 DEF FlowType
<1>4. CASE TradesPage
  <2>1. /\ pc = "trades" /\ pc' = "append" /\ page' = Pages[Current][cursor].trades
        /\ UNCHANGED <<list, ticker, seen, cursor, pages_this_ticker, disk>>
    BY <1>4 DEF TradesPage
  <2>2. Current' = Current /\ Current \in Tickers /\ cursor \in DOMAIN Pages[Current]
    BY <2>1, CurrentTicker DEF Current, list, FlowType, ListType, WalkType, Busy
  <2>3. page' \in Seq(Ids)
    BY <2>1, <2>2, Given0
  <2>4. DiskType' /\ ListType'
    BY <1>1, <2>1 DEF FlowType, DiskType, ListType, disk, list
  <2>5. WalkType'
    BY <2>1, <2>2, <2>3 DEF FlowType, WalkType, list, Busy
  <2>6. pc' \in Busy
    BY <2>1 DEF Busy
  <2> QED BY <1>2, <2>4, <2>5, <2>6 DEF FlowType
<1> QED BY <1>3, <1>4 DEF GotPage

LEMMA FlowResolve == ASSUME FlowType, Resolve PROVE FlowType'
<1>1. /\ pc = "resolve" /\ pc' = "tickers" /\ found' \in Kept /\ markets' = Recorded(found')
      /\ UNCHANGED <<source, lo, listed, walk, net, disk, runs>>
      /\ done' \in {LoadCheckpoint(ckpt), {}}
  BY DEF Resolve
<1>2. found \in Seq(Tickers) /\ markets \in Seq(Tickers) \cup {NoMarkets}
  BY DEF FlowType, ListType, DiskType
<1>3. found' \in Seq(Tickers) /\ markets' \in Seq(Tickers) \cup {NoMarkets}
  BY <1>1, <1>2, KeptIs, RecordedIs
<1>4. done' \subseteq Tickers
  <2>1. \A i \in DOMAIN ckpt : ckpt[i].s \in Tickers
    <3>1. ckpt \in Seq(Marks)
      BY DEF FlowType, DiskType
    <3>2. \A i \in DOMAIN ckpt : ckpt[i] \in Marks
      BY <3>1
    <3> QED BY <3>2 DEF Marks
  <2>2. LoadCheckpoint(ckpt) \subseteq Tickers
    BY <2>1 DEF LoadCheckpoint, Readable
  <2> QED BY <1>1, <2>2
<1>5. DiskType' /\ ListType' /\ NetType'
  BY <1>1, <1>3, <1>4 DEF FlowType, DiskType, ListType, NetType, disk, net
<1>6. WalkType'
  <2>1. ticker' = 1 /\ 1 \in 1 .. Len(found') + 1
    BY <1>1, <1>3 DEF FlowType, WalkType, walk
  <2> QED BY <1>1, <2>1 DEF FlowType, WalkType, walk, Busy
<1> QED BY <1>1, <1>5, <1>6 DEF FlowType

\* Every end of a process.
LEMMA FlowEnds ==
    ASSUME FlowType,
           DiscoverOnly \/ ResolveCut \/ Finish \/ GiveUp \/ Crash \/ AppendCut \/ MarkCut
    PROVE  FlowType'
<1>1. Ends
  BY DEF DiscoverOnly, ResolveCut, Finish, GiveUp, Crash, AppendCut, MarkCut
<1>2. runs' = runs
  BY <1>1 DEF Ends
<1>3. /\ DiskType /\ found \in Seq(Tickers)
      /\ pc \in Busy => Current \in Tickers
  BY CurrentTicker DEF FlowType, ListType, WalkType
<1>4. CASE DiscoverOnly
  <2>1. PICK kept \in Kept : markets' = Recorded(kept)
    BY <1>4 DEF DiscoverOnly
  <2>2. markets' \in Seq(Tickers) \cup {NoMarkets}
    BY <1>3, <2>1, RecordedIs DEF DiskType
  <2>3. DiskType'
    BY <1>2, <1>3, <1>4, <2>2 DEF DiskType, DiscoverOnly, disk
  <2> QED BY <1>1, <2>3, EndsType
<1>5. CASE ResolveCut
  <2>1. PICK kept \in Kept :
           markets' \in {SubSeq(kept, 1, n) : n \in 0 .. Len(kept)} \cup {NoMarkets}
    BY <1>5 DEF ResolveCut
  <2>2. markets' \in Seq(Tickers) \cup {NoMarkets}
    BY <1>3, <2>1, RecordedIs DEF DiskType
  <2>3. DiskType'
    BY <1>2, <1>3, <1>5, <2>2 DEF DiskType, ResolveCut, disk
  <2> QED BY <1>1, <2>3, EndsType
<1>6. CASE Finish \/ GiveUp \/ Crash
  <2>1. DiskType'
    BY <1>2, <1>3, <1>6 DEF DiskType, Finish, GiveUp, Crash, disk
  <2> QED BY <1>1, <2>1, EndsType
<1>7. CASE AppendCut
  <2>1. Current \in Tickers /\ Head(page) \in Ids
    BY <1>3, <1>7 DEF AppendCut, Busy, FlowType, WalkType
  <2>2. logs' \in [Tickers -> Seq(Lines)]
    BY <1>3, <1>7, <2>1, LogWritten DEF AppendCut, DiskType
  <2>3. DiskType'
    BY <1>2, <1>3, <1>7, <2>2 DEF DiskType, AppendCut
  <2> QED BY <1>1, <2>3, EndsType
<1>8. CASE MarkCut
  <2>1. Current \in Tickers
    BY <1>3, <1>8 DEF MarkCut, Busy
  <2>2. ckpt' \in Seq(Marks)
    BY <1>3, <1>8, <2>1, MarksWritten DEF MarkCut, DiskType
  <2>3. DiskType'
    BY <1>2, <1>3, <1>8, <2>2 DEF DiskType, MarkCut
  <2> QED BY <1>1, <2>3, EndsType
<1> QED BY <1>4, <1>5, <1>6, <1>7, <1>8

\* The loops over the tickers and their pages.
LEMMA FlowLoops ==
    ASSUME FlowType,
           \/ SkipTicker \/ OpenTicker \/ PageCap \/ Request \/ Duplicate
           \/ NextCursor \/ Mark \/ AppendTrade
    PROVE  FlowType'
<1>1. UNCHANGED <<list, runs, timer>> /\ Current' \in {Current, found[ticker']}
  BY DEF SkipTicker, OpenTicker, PageCap, Request, Duplicate, NextCursor, Mark, AppendTrade,
         net, list, Current
<1>2. /\ found \in Seq(Tickers) /\ found' = found /\ ticker \in 1 .. Len(found) + 1
      /\ Len(found) \in Nat /\ page \in Seq(Ids)
      /\ pc \in Busy => ticker <= Len(found)
  BY <1>1 DEF FlowType, ListType, WalkType, list
<1>3. pc' \in {"tickers"} \cup Busy /\ pc \notin {"down", "listing"}
  BY DEF SkipTicker, OpenTicker, PageCap, Request, Duplicate, NextCursor, Mark, AppendTrade, Busy
<1>4. ListType'
  BY <1>1, <1>3 DEF FlowType, ListType, list, Busy
<1>5. NetType'
  <2>1. attempt' \in {attempt, 1}
    BY DEF SkipTicker, OpenTicker, PageCap, Request, Duplicate, NextCursor, Mark, AppendTrade, net
  <2> QED BY <1>1, <2>1, Given0 DEF FlowType, NetType
<1>6. pc \in Busy => Current \in Tickers
  BY <1>2, CurrentTicker
<1>7. CASE SkipTicker
  <2>1. ticker' \in 1 .. Len(found') + 1 /\ pc' \notin Busy
    BY <1>2, <1>7 DEF SkipTicker, Busy
  <2>2. WalkType'
    BY <1>7, <2>1 DEF SkipTicker, FlowType, WalkType
  <2>3. DiskType'
    BY <1>1, <1>7 DEF SkipTicker, FlowType, DiskType, disk, list
  <2> QED BY <1>3, <1>4, <1>5, <2>2, <2>3 DEF FlowType
<1>8. CASE OpenTicker
  <2>1. Current' = Current /\ Current \in Tickers
    BY <1>1, <1>2, <1>8, CurrentTicker DEF OpenTicker, Current
  <2>2. WalkType'
    <3>1. ticker' = ticker /\ found' = found /\ ticker <= Len(found) /\ pc' = "page"
          /\ seen' = {} /\ cursor' = 1 /\ pages_this_ticker' = 0 /\ page' = page
      BY <1>1, <1>8 DEF OpenTicker, list
    <3>2. cursor' \in DOMAIN Pages[Current']
      BY <2>1, <3>1, Given0
    <3> QED BY <1>2, <3>1, <3>2, Given0 DEF WalkType
  <2>3. DiskType'
    BY <1>1, <1>8 DEF OpenTicker, FlowType, DiskType, disk, list
  <2> QED BY <1>3, <1>4, <1>5, <2>2, <2>3 DEF FlowType
<1>9. CASE PageCap \/ Request
  <2>1. pc \in Busy \ {"mark"} /\ UNCHANGED <<walk, disk>>
    BY <1>9 DEF PageCap, Request, Busy
  <2>2. WalkType' /\ DiskType'
    BY <1>1, <1>3, <2>1 DEF FlowType, WalkType, DiskType, walk, disk, list, Current, Busy
  <2> QED BY <1>3, <1>4, <1>5, <2>2 DEF FlowType
<1>10. CASE Duplicate
  <2>1. /\ pc = "append" /\ pc' = pc /\ page' = Tail(page) /\ page # <<>>
        /\ UNCHANGED <<ticker, seen, cursor, pages_this_ticker, disk>>
    BY <1>10 DEF Duplicate
  <2>2. page' \in Seq(Ids)
    BY <1>2, <2>1
  <2>3. WalkType' /\ DiskType'
    BY <1>1, <2>1, <2>2 DEF FlowType, WalkType, DiskType, disk, list, Current, Busy
  <2> QED BY <1>3, <1>4, <1>5, <2>3 DEF FlowType
<1>11. CASE AppendTrade
  <2>1. /\ pc = "append" /\ pc' = pc /\ page' = Tail(page) /\ page # <<>>
        /\ seen' = seen \cup {Head(page)}
        /\ UNCHANGED <<ticker, cursor, pages_this_ticker, ckpt>>
    BY <1>11 DEF AppendTrade
  <2>2. page' \in Seq(Ids) /\ Head(page) \in Ids
    BY <1>2, <2>1
  <2>3. logs' \in [Tickers -> Seq(Lines)]
    BY <1>6, <1>11, <2>1, <2>2, LogWritten DEF AppendTrade, FlowType, DiskType, Busy
  <2>4. WalkType'
    BY <1>1, <2>1, <2>2 DEF FlowType, WalkType, list, Current, Busy
  <2>5. DiskType'
    BY <1>1, <2>1, <2>3 DEF FlowType, DiskType, list
  <2> QED BY <1>3, <1>4, <1>5, <2>4, <2>5 DEF FlowType
<1>12. CASE NextCursor
  <2>1. /\ pc = "append" /\ UNCHANGED <<ticker, seen, pages_this_ticker, page, disk>>
        /\ \/ pc' = "mark" /\ cursor' = cursor
           \/ /\ pc' = "page" /\ cursor' = Pages[Current][cursor].next
              /\ Pages[Current][cursor].next # 0
    BY <1>12 DEF NextCursor
  <2>2. Current' = Current /\ Current \in Tickers /\ cursor \in DOMAIN Pages[Current]
    BY <1>1, <1>6, <2>1 DEF Current, list, FlowType, WalkType, Busy
  <2>3. pc' = "page" => cursor' \in DOMAIN Pages[Current']
    BY <2>1, <2>2, Given0
  <2>4. WalkType' /\ DiskType'
    BY <1>1, <2>1, <2>2, <2>3 DEF FlowType, WalkType, DiskType, disk, list, Busy
  <2> QED BY <1>3, <1>4, <1>5, <2>4 DEF FlowType
<1>13. CASE Mark
  <2>1. /\ pc = "mark" /\ pc' = "tickers" /\ ticker' = ticker + 1 /\ ckpt' = WriteMark(ckpt, Current)
        /\ UNCHANGED <<seen, cursor, pages_this_ticker, page, logs>>
    BY <1>13 DEF Mark
  <2>2. Current \in Tickers /\ ticker <= Len(found)
    BY <1>2, <1>6, <2>1 DEF Busy
  <2>3. ckpt' \in Seq(Marks)
    BY <2>1, <2>2, MarksWritten DEF FlowType, DiskType
  <2>4. ticker' \in 1 .. Len(found') + 1 /\ pc' \notin Busy
    BY <1>2, <2>1, <2>2 DEF Busy
  <2>5. WalkType'
    BY <2>1, <2>4 DEF FlowType, WalkType
  <2>6. DiskType'
    BY <1>1, <2>1, <2>3 DEF FlowType, DiskType, list
  <2> QED BY <1>3, <1>4, <1>5, <2>5, <2>6 DEF FlowType
<1> QED BY <1>7, <1>8, <1>9, <1>10, <1>11, <1>12, <1>13

\* The steps that set the timer.
LEMMA FlowWaits ==
    ASSUME FlowType, BucketType, Pace \/ Retry \/ Tick PROVE FlowType'
<1>1. /\ tokens \in -1 .. Capacity /\ idle \in 0 .. Horizon /\ timer \in Nat
      /\ attempt \in 1 .. MaxGetAttempts
  BY DEF BucketType, FlowType, NetType
<1>2. CASE Pace
  <2>1. /\ pc = "page" /\ pc' = "pacing" /\ pages_this_ticker < MaxTradePages
        /\ pages_this_ticker' = pages_this_ticker + 1
        /\ tokens' = Min({tokens + idle, Capacity}) - 1 /\ timer' = Wait(tokens')
        /\ UNCHANGED <<list, ticker, seen, cursor, page, attempt, disk, runs>>
    BY <1>2 DEF Pace, Reserve
  <2>2. timer' \in Nat
    <3>1. tokens + idle \in Int /\ Capacity \in Int
      BY <1>1, Bounds
    <3>2. Min({tokens + idle, Capacity}) \in Int
      BY <3>1, MinOfTwo
    <3>3. tokens' \in Int
      BY <2>1, <3>2
    <3> QED BY <2>1, <3>3 DEF Wait
  <2>3. NetType' /\ ListType' /\ DiskType'
    BY <2>1, <2>2 DEF FlowType, NetType, ListType, DiskType, list, disk
  <2>4. WalkType'
    <3>1. pages_this_ticker' \in 0 .. MaxTradePages
      BY <2>1, Given0 DEF FlowType, WalkType
    <3> QED BY <2>1, <3>1 DEF FlowType, WalkType, list, Current, Busy
  <2>5. pc' \in Busy
    BY <2>1 DEF Busy
  <2> QED BY <2>3, <2>4, <2>5 DEF FlowType
<1>3. CASE Retry
  <2>1. /\ attempt' = attempt + 1 /\ timer' = Capacity * RetryBackoff(attempt)
        /\ UNCHANGED <<pc, list, walk, disk, runs>>
    BY <1>3 DEF Retry
  <2>2. attempt' \in 1 .. MaxGetAttempts
    <3>1. \E a \in Answers : Verdict(a, attempt) = "retry"
      BY <1>3 DEF Retry, Answered
    <3>2. attempt < MaxGetAttempts
      BY <3>1 DEF Verdict
    <3> QED BY <1>1, <2>1, <3>2, Given0
  <2>3. timer' \in Nat
    <3>1. RetryBackoff(attempt) \in Nat
      <4>1. \A i \in 1 .. 5 : <<1, 2, 4, 8, 16>>[i] \in Nat
        OBVIOUS
      <4> QED BY <4>1 DEF RetryBackoff
    <3> QED BY <2>1, <3>1, Bounds
  <2>4. WalkType' /\ ListType' /\ DiskType'
    BY <2>1 DEF FlowType, WalkType, ListType, DiskType, list, disk, walk, Current, Busy
  <2> QED BY <2>1, <2>2, <2>3, <2>4 DEF FlowType, NetType
<1>4. CASE Tick
  <2>1. timer' = Max({timer - 1, 0}) /\ UNCHANGED <<pc, list, walk, attempt, disk, runs>>
    BY <1>4 DEF Tick
  <2>2. timer' \in Nat
    <3>1. timer - 1 \in Int /\ 0 \in Int
      BY <1>1
    <3> QED BY <2>1, <3>1, MaxOfTwo
  <2>3. WalkType' /\ ListType' /\ DiskType'
    BY <2>1 DEF FlowType, WalkType, ListType, DiskType, list, disk, walk, Current, Busy
  <2> QED BY <2>1, <2>2, <2>3 DEF FlowType, NetType
<1> QED BY <1>2, <1>3, <1>4

LEMMA FlowStep == ASSUME FlowType, RateInv, [Next]_vars PROVE FlowType'
<1>1. BucketType
  BY DEF RateInv
<1>2. CASE UNCHANGED vars
  <2>1. DiskType' /\ ListType' /\ WalkType' /\ NetType'
    BY <1>2 DEF vars, FlowType, DiskType, ListType, WalkType, NetType, Current
  <2> QED BY <1>2, <2>1 DEF vars, FlowType
<1> QED BY <1>1, <1>2, FlowStart, FlowGotPage, FlowResolve, FlowEnds, FlowLoops, FlowWaits
        DEF Next, Step, OwnStep

LEMMA FlowInit == ASSUME Init PROVE FlowType
<1>1. DiskType
  <2>1. logs \in [Tickers -> Seq(Lines)]
    BY TapeAssumption DEF Init
  <2> QED BY <2>1, Given0 DEF Init, DiskType
<1>2. ListType /\ NetType
  BY Given0 DEF Init, ListType, NetType
<1>3. WalkType
  BY Given0 DEF Init, WalkType, Busy
<1> QED BY <1>1, <1>2, <1>3 DEF Init, FlowType

LEMMA TypesHold == Spec => [](FlowType /\ RateInv)
<1>1. Init => FlowType /\ RateInv
  BY FlowInit, RateInit
<1>2. FlowType /\ RateInv /\ [Next]_vars => FlowType' /\ RateInv'
  BY FlowStep, RateStep
<1> QED BY <1>1, <1>2, PTL DEF Spec

\* A run keeps its types and its bounds: no more than MAX_GET_ATTEMPTS sends,
\* no more than --trade-pages pages, whatever the answers.
THEOREM BackfillTypeCorrect == Spec => []TypeOK
<1>1. FlowType /\ RateInv => TypeOK
  <2> SUFFICES ASSUME FlowType, RateInv PROVE TypeOK
    OBVIOUS
  <2>1. ToSet(found) \subseteq Tickers
    BY DEF FlowType, ListType, ToSet
  <2>2. ToSet(markets) \subseteq Tickers \cup {0}
    <3>1. ToSet(NoMarkets) = {0}
      BY DEF NoMarkets, ToSet
    <3>2. markets \in Seq(Tickers) => ToSet(markets) \subseteq Tickers
      BY DEF ToSet
    <3> QED BY <3>1, <3>2 DEF FlowType, DiskType
  <2> QED BY <2>1, <2>2 DEF TypeOK, FlowType, DiskType, ListType, WalkType, NetType, RateInv,
             BucketType, Busy
<1> QED BY <1>1, TypesHold, PTL

(***************************************************************************)
(* Discovery.  What was found is what closes in the part of the window     *)
(* that was listed, and markets.jsonl names no market twice.               *)
(***************************************************************************)
Whole(S) == ToSet(found) \in {S, S \cap HighVolume}

FoundInv ==
    /\ Distinct(markets)
    /\ source # "given" => Distinct(found)
    /\ source = "live" /\ pc = "listing" =>
          /\ listed \subseteq Closing(lo, ChunkEnd(lo))
          /\ \/ lo = MinClose /\ ToSet(found) = listed
             \/ ToSet(found) = Closing(MinClose, lo) \cup listed
    /\ source = "archive" /\ pc = "listing" => ToSet(found) = listed \cap InWindow
    /\ source = "live" /\ pc \notin {"down", "listing"} => Whole(Closing(MinClose, MaxClose))
    /\ source = "archive" /\ pc \notin {"down", "listing"} => Whole(InWindow)
    /\ source = "file" => ToSet(found) \subseteq InWindow
    /\ pc = "resolve" =>
          /\ source = "live" => ToSet(found) = Closing(MinClose, MaxClose)
          /\ source = "archive" => ToSet(found) = InWindow

LEMMA EmptyList == ToSet(<<>>) = {} /\ Distinct(<<>>) /\ Distinct(NoMarkets)
<1>1. DOMAIN <<>> = {} /\ DOMAIN NoMarkets = {1}
  BY DEF NoMarkets
<1> QED BY <1>1 DEF ToSet, Distinct

LEMMA FoundEnds == ASSUME Ends, Distinct(markets') PROVE FoundInv'
<1>1. pc' = "down" /\ source' = "live" /\ found' = <<>>
  BY DEF Ends
<1> QED BY <1>1, EmptyList DEF FoundInv

LEMMA FoundUntouched ==
    ASSUME FoundInv, UNCHANGED list, pc' \notin {"down", "listing", "resolve"},
           pc \notin {"down", "listing", "resolve"}
    PROVE  FoundInv'
  BY DEF FoundInv, list, Whole

LEMMA FoundStart == ASSUME FlowType, FoundInv, Start PROVE FoundInv'
<1>1. /\ pc = "down" /\ markets' = markets /\ lo' = lo /\ lo = MinClose /\ found = <<>>
      /\ listed' = {} /\ Distinct(markets)
  BY DEF Start, FlowType, ListType, FoundInv
<1>2. CASE source' \in {"live", "archive"} /\ pc' = "listing" /\ UNCHANGED found
  BY <1>1, <1>2, EmptyList DEF FoundInv
<1>3. CASE /\ source' = "file" /\ markets # NoMarkets
           /\ found' = Only(markets, InWindow) /\ pc' = "resolve"
  <2>1. markets \in Seq(Tickers)
    BY <1>3 DEF FlowType, DiskType
  <2>2. Distinct(found') /\ ToSet(found') \subseteq InWindow
    BY <1>1, <1>3, <2>1, OnlyIs
  <2> QED BY <1>1, <1>3, <2>2 DEF FoundInv
<1>4. CASE source' = "given" /\ pc' = "resolve"
  BY <1>1, <1>4 DEF FoundInv
<1> QED BY <1>2, <1>3, <1>4 DEF Start, InWindow

LEMMA FoundListPage == ASSUME FlowType, FoundInv, ListPage, pc = "listing" PROVE FoundInv'
<1>1. /\ UNCHANGED <<source, markets>> /\ source \in {"live", "archive"}
      /\ lo \in MinClose .. MaxClose /\ lo < MaxClose /\ listed \subseteq Tickers
      /\ Distinct(markets) /\ Distinct(found)
  BY DEF ListPage, FlowType, ListType, FoundInv
<1>2. Distinct(found') /\ lo' \in MinClose .. MaxClose
  BY <1>1, ListPageIs DEF FlowType
<1>3. PICK S \in SUBSET Query :
         /\ ToSet(found') = ToSet(found) \cup (S \cap Wanted)
         /\ MorePages(S) \/ LastPage(S)
  BY ListPageIs DEF FlowType
<1>4. CASE source = "archive"
  <2>1. /\ ToSet(found) = listed \cap InWindow
        /\ Query = Tickers /\ Wanted = InWindow
    BY <1>4 DEF FoundInv, Query, Wanted, InWindow
  <2>2. ToSet(found') = (listed \cup S) \cap InWindow
    BY <1>3, <2>1
  <2>3. CASE MorePages(S)
    <3>1. pc' = "listing" /\ listed' = listed \cup S
      BY <2>3 DEF MorePages
    <3> QED BY <1>1, <1>2, <1>4, <2>2, <3>1 DEF FoundInv
  <2>4. CASE LastPage(S)
    <3>1. pc' = "resolve"
      <4>1. lo' = MaxClose /\ ~(MaxClose < MaxClose)
        BY <1>4, <2>4, Given0 DEF LastPage
      <4> QED BY <2>4, <4>1 DEF LastPage
    <3>2. ToSet(found') = InWindow
      <4>1. Tickers \subseteq listed \cup S /\ InWindow \subseteq Tickers
        BY <2>1, <2>4 DEF LastPage, InWindow
      <4> QED BY <2>2, <4>1
    <3> QED BY <1>1, <1>2, <1>4, <3>1, <3>2 DEF FoundInv, Whole
  <2> QED BY <1>3, <2>3, <2>4
<1>5. CASE source = "live"
  <2> DEFINE end == ChunkEnd(lo)
  <2>1. /\ listed \subseteq Closing(lo, end)
        /\ \/ lo = MinClose /\ ToSet(found) = listed
           \/ ToSet(found) = Closing(MinClose, lo) \cup listed
        /\ Query = Closing(lo, end) /\ Wanted = Tickers
    BY <1>5 DEF FoundInv, Query, Wanted, Closing
  <2>2. end \in MinClose .. MaxClose /\ lo < end
    BY <1>1, ChunkEndIs
  <2>3. ToSet(found') = ToSet(found) \cup S
    <3>1. Closing(lo, end) \subseteq Tickers
      BY DEF Closing
    <3> QED BY <1>3, <2>1, <3>1
  <2>4. CASE MorePages(S)
    <3>1. pc' = "listing" /\ lo' = lo /\ listed' = listed \cup S
      BY <2>4 DEF MorePages
    <3>2. ChunkEnd(lo)' = ChunkEnd(lo)
      BY <3>1 DEF ChunkEnd
    <3>3. /\ listed' \subseteq Closing(lo', ChunkEnd(lo'))
          /\ \/ lo' = MinClose /\ ToSet(found') = listed'
             \/ ToSet(found') = Closing(MinClose, lo') \cup listed'
      BY <1>3, <2>1, <2>3, <3>1
    <3> QED BY <1>1, <1>2, <1>5, <3>1, <3>3 DEF FoundInv
  <2>5. CASE LastPage(S)
    <3>1. /\ lo' = end /\ listed' = {} /\ listed \cup S = Closing(lo, end)
          /\ pc' = IF lo' < MaxClose THEN "listing" ELSE "resolve"
      BY <1>3, <1>5, <2>1, <2>5 DEF LastPage
    <3>2. ToSet(found') = Closing(MinClose, end)
      <4>1. CASE lo = MinClose /\ ToSet(found) = listed
        BY <2>3, <3>1, <4>1
      <4>2. CASE ToSet(found) = Closing(MinClose, lo) \cup listed
        <5>1. Closing(MinClose, lo) \cup Closing(lo, end) = Closing(MinClose, end)
          <6>1. /\ MinClose \in Int /\ lo \in Int /\ end \in Int /\ MinClose <= lo /\ lo <= end
                /\ \A t \in Tickers : Close[t] \in Int
            BY <1>1, <2>2, Given0
          <6> HIDE DEF end
          <6> QED BY <6>1 DEF Closing
        <5> QED BY <2>3, <3>1, <4>2, <5>1
      <4> QED BY <2>1, <4>1, <4>2
    <3>3. lo' < MaxClose \/ lo' = MaxClose
      BY <1>2, Given0
    <3>4. pc' = "resolve" => ToSet(found') = Closing(MinClose, MaxClose)
      <4>1. pc' = "resolve" => lo' = MaxClose
        BY <3>1, <3>3
      <4> QED BY <3>1, <3>2, <4>1
    <3>5. /\ listed' \subseteq Closing(lo', ChunkEnd(lo'))
          /\ ToSet(found') = Closing(MinClose, lo') \cup listed'
      BY <3>1, <3>2
    <3>6. pc' \in {"listing", "resolve"}
      BY <3>1
    <3> QED BY <1>1, <1>2, <1>5, <3>4, <3>5, <3>6 DEF FoundInv, Whole
  <2> QED BY <1>3, <2>4, <2>5
<1> QED BY <1>1, <1>4, <1>5

\* What Recorded and a cut leave behind.
LEMMA RecordedDistinct ==
    ASSUME FlowType, FoundInv, NEW kept \in Kept,
           \/ markets' = Recorded(kept)
           \/ /\ source # "given"
              /\ markets' \in {SubSeq(kept, 1, n) : n \in 0 .. Len(kept)} \cup {NoMarkets}
    PROVE  Distinct(markets')
<1>1. CASE source = "given"
  BY <1>1 DEF Recorded, FoundInv
<1>2. CASE source # "given"
  <2>1. Distinct(found) /\ Distinct(markets)
    BY <1>2 DEF FoundInv
  <2> QED BY <2>1, RecordedIs DEF FlowType, ListType, DiskType
<1> QED BY <1>1, <1>2

LEMMA FoundResolve == ASSUME FlowType, FoundInv, Resolve PROVE FoundInv'
<1>1. /\ pc = "resolve" /\ pc' = "tickers" /\ found' \in Kept /\ markets' = Recorded(found')
      /\ source' = source
  BY DEF Resolve
<1>2. Distinct(markets')
  BY <1>1, RecordedDistinct
<1>3. /\ Distinct(found) => Distinct(found')
      /\ ToSet(found') \in {ToSet(found), ToSet(found) \cap HighVolume}
  BY <1>1, KeptIs DEF FlowType, ListType
<1> QED BY <1>1, <1>2, <1>3 DEF FoundInv, Whole

LEMMA FoundStep == ASSUME FlowType, FoundInv, [Next]_vars PROVE FoundInv'
<1>1. CASE GotPage
  <2>1. CASE ListPage
    BY <2>1, FoundListPage DEF ListPage
  <2>2. CASE TradesPage
    BY <2>2, FoundUntouched DEF TradesPage
  <2> QED BY <1>1, <2>1, <2>2 DEF GotPage
<1>2. CASE DiscoverOnly \/ ResolveCut
  <2>1. Ends /\ Distinct(markets')
    BY <1>2, RecordedDistinct DEF DiscoverOnly, ResolveCut
  <2> QED BY <2>1, FoundEnds
<1>3. CASE Finish \/ GiveUp \/ Crash \/ AppendCut \/ MarkCut
  <2>1. Ends /\ Distinct(markets')
    BY <1>3 DEF Finish, GiveUp, Crash, AppendCut, MarkCut, FoundInv
  <2> QED BY <2>1, FoundEnds
<1>4. CASE \/ SkipTicker \/ OpenTicker \/ PageCap \/ Pace \/ Request \/ Duplicate
           \/ AppendTrade \/ NextCursor \/ Mark
  <2>1. /\ UNCHANGED list
        /\ pc \notin {"down", "listing", "resolve"} /\ pc' \notin {"down", "listing", "resolve"}
    BY <1>4 DEF SkipTicker, OpenTicker, PageCap, Pace, Request, Duplicate, AppendTrade,
                NextCursor, Mark
  <2> QED BY <2>1, FoundUntouched
<1>5. CASE Retry \/ Tick \/ UNCHANGED vars
  <2>1. UNCHANGED <<pc, list>>
    BY <1>5 DEF Retry, Tick, vars, list
  <2> QED BY <2>1 DEF list, FoundInv, Whole
<1> QED BY <1>1, <1>2, <1>3, <1>4, <1>5, FoundStart, FoundResolve DEF Next, Step, OwnStep

\* The enumeration finds the markets of the window, each once, for every window
\* and chunk, every paging and order of the listings, and every cut of
\* markets.jsonl (discover_markets_windowed, discover_historical_markets,
\* load_markets_file).
THEOREM FoundIsExact == Spec => []DiscoveryIsExact
<1>1. Init => FoundInv
  BY EmptyList DEF Init, FoundInv
<1>2. FlowType /\ FoundInv /\ [Next]_vars => FoundInv'
  BY FoundStep
<1>3. FlowType /\ FoundInv => DiscoveryIsExact
  <2> SUFFICES ASSUME FlowType, FoundInv, pc \notin {"down", "listing"}, source # "given"
               PROVE  DiscoveryIsExact
    BY DEF DiscoveryIsExact
  <2>0. MinClose \in Int /\ MaxClose \in Int /\ \A t \in Tickers : Close[t] \in Int
    BY Given0
  <2>1. Len(found) = Cardinality(ToSet(found))
    BY DistinctCount DEF FlowType, ListType, FoundInv
  <2>2. Closing(MinClose, MaxClose) = {t \in Tickers : MinClose <= Close[t] /\ Close[t] <= MaxClose}
    <3>1. \A t \in Tickers : Close[t] \in MinClose .. MaxClose
                               <=> MinClose <= Close[t] /\ Close[t] <= MaxClose
      BY <2>0
    <3> QED BY <3>1 DEF Closing
  <2>3. InWindow = {t \in {u \in Tickers : MinClose <= Close[u] /\ Close[u] <= MaxClose} :
                       Close[t] # MaxClose}
    <3>1. \A t \in Tickers : MarketCloseInWindow(t)
             <=> (MinClose <= Close[t] /\ Close[t] <= MaxClose) /\ Close[t] # MaxClose
      BY <2>0 DEF MarketCloseInWindow
    <3> QED BY <3>1 DEF InWindow
  <2>4. source = "live" => Whole(Closing(MinClose, MaxClose))
    BY DEF FoundInv
  <2>5. source = "archive" => Whole(InWindow)
    BY DEF FoundInv
  <2>6. source = "file" => ToSet(found) \subseteq InWindow
    BY DEF FoundInv
  <2>7. source \in {"live", "archive", "file"}
    BY DEF FlowType, ListType
  <2> QED BY <2>1, <2>2, <2>3, <2>4, <2>5, <2>6, <2>7 DEF DiscoveryIsExact, Whole
<1> QED BY <1>1, <1>2, <1>3, TypesHold, PTL DEF Spec

(***************************************************************************)
(* What an append does to a log whose manifest says it is complete.        *)
(***************************************************************************)
Holds(log, ids) == Complete(log) => \A id \in ids : Trade(id) \in ToSet(log)

LEMMA LastAdded ==
    ASSUME NEW L, NEW lines \in Seq(L), NEW l
    PROVE  ToSet(Append(lines, l)) = ToSet(lines) \cup {l}
<1>1. /\ Len(lines) \in Nat /\ DOMAIN lines = 1 .. Len(lines)
      /\ DOMAIN Append(lines, l) = 1 .. Len(lines) + 1
      /\ \A i \in 1 .. Len(lines) : Append(lines, l)[i] = lines[i]
      /\ Append(lines, l)[Len(lines) + 1] = l
  OBVIOUS
<1> QED BY <1>1 DEF ToSet

LEMMA GluedIsIncomplete ==
    ASSUME NEW L, NEW lines \in Seq(L), lines # <<>>, NEW l, l.kind \in {"torn", "bad", "raw"}
    PROVE  ~Complete(Append(Front(lines), l))
<1>1. Front(lines) \in Seq(L)
  BY DEF Front
<1>2. l \in ToSet(Append(Front(lines), l))
  BY <1>1, LastAdded
<1> QED BY <1>2 DEF Complete

\* A log is complete after a write only if it was, and has lost nothing.
LEMMA CompleteGrows ==
    ASSUME NEW lines \in Seq(Lines), NEW id \in Ids,
           NEW out, out \in Appended(lines, Envelope(id))
                       \/ out \in AppendFailed(lines, Envelope(id), TRUE),
           Complete(out)
    PROVE  /\ Complete(lines) /\ ToSet(lines) \subseteq ToSet(out)
           /\ out \in Appended(lines, Envelope(id)) => out = lines \/ Trade(id) \in ToSet(out)
<1> DEFINE r == Envelope(id)
<1>1. r.kind \in {"raw", "rest"} /\ r.s = id /\ (r.kind = "rest" => r = Trade(id))
  BY DEF Envelope, Trade
<1>2. \/ out = lines \/ out = Append(lines, r) \/ out = Append(lines, Line("torn", r.s))
      \/ lines # <<>> /\ out = Append(Front(lines), Line("bad", r.s))
  BY DEF Appended, AppendFailed, Cut, EndsTorn
<1> HIDE DEF r
<1>3. CASE out = Append(lines, r)
  <2>1. ToSet(out) = ToSet(lines) \cup {r}
    BY <1>3, LastAdded
  <2>2. r.kind = "rest"
    BY <1>1, <2>1 DEF Complete
  <2> QED BY <1>1, <2>1, <2>2 DEF Complete
<1>4. out # Append(lines, Line("torn", r.s))
  <2>1. ASSUME out = Append(lines, Line("torn", r.s)) PROVE Line("torn", r.s) \in ToSet(out)
    BY <2>1, LastAdded
  <2> QED BY <2>1 DEF Complete, Line
<1>5. ~(lines # <<>> /\ out = Append(Front(lines), Line("bad", r.s)))
  <2>1. Line("bad", r.s).kind = "bad"
    BY DEF Line
  <2>2. lines # <<>> => ~Complete(Append(Front(lines), Line("bad", r.s)))
    BY <2>1, GluedIsIncomplete
  <2> QED BY <2>2
<1> QED BY <1>2, <1>3, <1>4, <1>5

LEMMA HoldsOn ==
    ASSUME logs \in [Tickers -> Seq(Lines)], NEW t \in Tickers, NEW id \in Ids,
           NEW log, log \in Appended(logs[t], Envelope(id))
                       \/ log \in AppendFailed(logs[t], Envelope(id), TRUE),
           logs' = [logs EXCEPT ![t] = log],
           NEW u \in Tickers, NEW ids, Holds(logs[u], ids)
    PROVE  Holds(logs'[u], ids)
<1>1. CASE u # t
  BY <1>1
<1>2. CASE u = t
  <2>1. logs'[u] = log /\ logs[t] \in Seq(Lines)
    BY <1>2
  <2>2. Complete(log) => Complete(logs[t]) /\ ToSet(logs[t]) \subseteq ToSet(log)
    BY <2>1, CompleteGrows
  <2> QED BY <1>2, <2>1, <2>2 DEF Holds
<1> QED BY <1>1, <1>2

\* What an append returning Ok has added.
LEMMA HoldsNew ==
    ASSUME NEW lines \in Seq(Lines), NEW id \in Ids,
           NEW log \in Appended(lines, Envelope(id))
    PROVE  Holds(log, {id})
<1>1. SUFFICES ASSUME Complete(log) PROVE Trade(id) \in ToSet(log)
  BY DEF Holds
<1>2. lines # log
  <2>1. CASE log = Append(lines, Envelope(id))
    <3>1. Len(log) = Len(lines) + 1 /\ Len(lines) \in Nat
      BY <2>1
    <3> QED BY <3>1
  <2>2. CASE lines # <<>> /\ log = Append(Front(lines), Line("bad", Envelope(id).s))
    BY <1>1, <2>2, GluedIsIncomplete DEF Line
  <2> QED BY <2>1, <2>2 DEF Appended, EndsTorn
<1> QED BY <1>1, <1>2, CompleteGrows

(***************************************************************************)
(* The cursors of a tape.                                                  *)
(***************************************************************************)
CursorsSoFar(f, t, n) ==
    f = [k \in 1 .. n |->
            IF k = 1 THEN 1 ELSE IF f[k - 1] = 0 THEN 0 ELSE Pages[t][f[k - 1]].next]

LEMMA CursorsExist ==
    ASSUME NEW t, NEW n \in Nat PROVE \E f : CursorsSoFar(f, t, n)
<1> DEFINE T == {m \in Nat : \E f : CursorsSoFar(f, t, m)}
<1>1. 0 \in T
  <2> DEFINE f == [k \in 1 .. 0 |-> 0]
  <2>1. CursorsSoFar(f, t, 0)
    BY DEF CursorsSoFar
  <2> QED BY <2>1
<1>2. ASSUME NEW m \in T PROVE m + 1 \in T
  <2>1. PICK f : CursorsSoFar(f, t, m)
    OBVIOUS
  <2> DEFINE more == IF m = 0 THEN 1 ELSE IF f[m] = 0 THEN 0 ELSE Pages[t][f[m]].next
             g == [k \in 1 .. m + 1 |-> IF k <= m THEN f[k] ELSE more]
  <2>2. m \in Nat /\ \A k \in 1 .. m :
           f[k] = IF k = 1 THEN 1 ELSE IF f[k - 1] = 0 THEN 0 ELSE Pages[t][f[k - 1]].next
    BY <2>1 DEF CursorsSoFar
  <2>3. \A k \in 1 .. m : g[k] = f[k]
    BY <2>2
  <2>4. g[m + 1] = more
    BY <2>2
  <2>5. g = [k \in 1 .. m + 1 |-> g[k]]
    OBVIOUS
  <2> HIDE DEF g
  <2>6. ASSUME NEW k \in 1 .. m + 1
        PROVE  g[k] = IF k = 1 THEN 1 ELSE IF g[k - 1] = 0 THEN 0 ELSE Pages[t][g[k - 1]].next
    <3>1. CASE k <= m
      <4>1. k \in 1 .. m /\ (k # 1 => k - 1 \in 1 .. m)
        BY <2>2, <3>1
      <4> QED BY <2>2, <2>3, <4>1
    <3>2. CASE k = m + 1 /\ m = 0
      BY <2>4, <3>2
    <3>3. CASE k = m + 1 /\ m # 0
      <4>1. k # 1 /\ k - 1 = m /\ m \in 1 .. m
        BY <2>2, <3>3
      <4> QED BY <2>3, <2>4, <3>3, <4>1
    <3> QED BY <2>2, <3>1, <3>2, <3>3
  <2>7. CursorsSoFar(g, t, m + 1)
    BY <2>5, <2>6 DEF CursorsSoFar
  <2> QED BY <2>2, <2>7
<1> HIDE DEF T
<1>3. T \in SUBSET Nat
  BY DEF T
<1>4. n \in T
  BY <1>1, <1>2, <1>3, Induction
<1> QED BY <1>4 DEF T

LEMMA CursorsAre ==
    ASSUME NEW t, NEW n \in 1 .. MaxTradePages
    PROVE  /\ n = 1 => Cursors(t)[n] = 1
           /\ n > 1 => Cursors(t)[n] = IF Cursors(t)[n - 1] = 0 THEN 0
                                       ELSE Pages[t][Cursors(t)[n - 1]].next
<1> DEFINE f == CHOOSE g : CursorsSoFar(g, t, MaxTradePages)
<1>1. CursorsSoFar(f, t, MaxTradePages)
  BY Given0, CursorsExist
<1>2. Cursors(t) = f
  BY DEF Cursors, CursorsSoFar
<1> HIDE DEF f
<1>3. f[n] = IF n = 1 THEN 1 ELSE IF f[n - 1] = 0 THEN 0 ELSE Pages[t][f[n - 1]].next
  BY <1>1 DEF CursorsSoFar
<1> QED BY <1>2, <1>3, Given0

\* Behind the last page there is none.
LEMMA CursorsEnd ==
    ASSUME NEW t, NEW m \in 1 .. MaxTradePages, Cursors(t)[m] = 0,
           NEW n \in m .. MaxTradePages
    PROVE  Cursors(t)[n] = 0
<1> DEFINE T == {d \in Nat : m + d <= MaxTradePages => Cursors(t)[m + d] = 0}
<1>1. 0 \in T
  BY Given0
<1>2. ASSUME NEW d \in T PROVE d + 1 \in T
  <2> SUFFICES ASSUME m + (d + 1) <= MaxTradePages PROVE Cursors(t)[m + (d + 1)] = 0
    OBVIOUS
  <2>1. /\ d \in Nat /\ m + (d + 1) \in 1 .. MaxTradePages /\ m + (d + 1) > 1
        /\ (m + (d + 1)) - 1 = m + d /\ m + d <= MaxTradePages
    BY Given0
  <2>2. Cursors(t)[m + d] = 0
    BY <2>1
  <2> QED BY <2>1, <2>2, CursorsAre
<1>3. T \in SUBSET Nat
  OBVIOUS
<1> HIDE DEF T
<1>4. n - m \in Nat
  BY Given0
<1>5. n - m \in T
  BY <1>1, <1>2, <1>3, <1>4, Induction
<1> QED BY <1>5, Given0 DEF T

(***************************************************************************)
(* A walk has seen what the pages behind it hold, and the log of its       *)
(* ticker, if it is complete, has what the walk has seen.                  *)
(***************************************************************************)
Fetched(n) ==
    LET c == Cursors(Current)[n] IN c # 0 => ToSet(Pages[Current][c].trades) \subseteq seen

CkptInv == \A t \in LoadCheckpoint(ckpt) : Holds(logs[t], Reachable(t))

WalkInv ==
    /\ pc \in Busy => Holds(logs[Current], seen)
    /\ pc = "page" =>
          /\ cursor # 0 /\ \A n \in 1 .. pages_this_ticker : Fetched(n)
          /\ pages_this_ticker < MaxTradePages =>
                cursor = Cursors(Current)[pages_this_ticker + 1]
    /\ pc \in {"pacing", "trades", "append"} =>
          /\ pages_this_ticker >= 1
          /\ cursor # 0 /\ cursor = Cursors(Current)[pages_this_ticker]
          /\ \A n \in 1 .. pages_this_ticker - 1 : Fetched(n)
    /\ pc = "append" => ToSet(Pages[Current][cursor].trades) \subseteq seen \cup ToSet(page)
    /\ pc = "mark" => Reachable(Current) \subseteq seen

LEMMA CkptUntouched ==
    ASSUME CkptInv, ckpt' = ckpt, logs' = logs PROVE CkptInv'
  BY DEF CkptInv, Holds, Complete, Reachable, Cursors, LoadCheckpoint, Readable

\* Outside the loop over the pages nothing is claimed of the walk.
LEMMA WalkIdle == ASSUME pc' \notin Busy PROVE WalkInv'
  BY DEF WalkInv, Busy

\* What has been seen, and where, is as before.
LEMMA FetchedStays ==
    ASSUME Current' = Current, seen \subseteq seen', NEW n, Fetched(n) PROVE Fetched(n)'
<1>1. Cursors(Current)' = Cursors(Current)
  BY ZenonT(60) DEF Cursors
<1>2. Pages[Current]' = Pages[Current]
  OBVIOUS
<1> QED BY <1>1, <1>2 DEF Fetched

LEMMA WalkOpen == ASSUME OpenTicker PROVE WalkInv'
<1>1. pc' = "page" /\ cursor' = 1 /\ seen' = {} /\ pages_this_ticker' = 0
  BY DEF OpenTicker
<1>2. Holds(logs'[Current'], seen')
  BY <1>1 DEF Holds
<1>3. pages_this_ticker' < MaxTradePages => cursor' = Cursors(Current')[pages_this_ticker' + 1]
  <2>1. ASSUME 0 < MaxTradePages PROVE Cursors(Current')[1] = 1
    <3>1. 1 \in 1 .. MaxTradePages
      BY <2>1, Given0
    <3> QED BY <3>1, CursorsAre
  <2> QED BY <1>1, <2>1
<1>4. \A n \in 1 .. pages_this_ticker' : Fetched(n)'
  BY <1>1
<1> QED BY <1>1, <1>2, <1>3, <1>4 DEF WalkInv, Cursors

\* All the pages that the cap allows are behind the walk.
LEMMA AllFetched ==
    ASSUME NEW m \in Nat, \A n \in 1 .. m : Fetched(n),
           \A n \in m + 1 .. MaxTradePages : Cursors(Current)[n] = 0
    PROVE  Reachable(Current) \subseteq seen
<1>1. ASSUME NEW n \in 1 .. MaxTradePages, Cursors(Current)[n] # 0
      PROVE  ToSet(Pages[Current][Cursors(Current)[n]].trades) \subseteq seen
  <2>1. n \in 1 .. m
    BY <1>1, Given0
  <2> QED BY <1>1, <2>1 DEF Fetched
<1> QED BY <1>1 DEF Reachable

\* Steps that move the walk within a page, or to the next.
LEMMA HeadAndTail ==
    ASSUME NEW L, NEW items \in Seq(L), items # <<>>
    PROVE  ToSet(items) = {Head(items)} \cup ToSet(Tail(items)) /\ Head(items) \in L
<1>1. /\ Len(items) \in Nat /\ Len(items) >= 1 /\ DOMAIN items = 1 .. Len(items)
      /\ Head(items) = items[1] /\ DOMAIN Tail(items) = 1 .. Len(items) - 1
      /\ \A i \in 1 .. Len(items) - 1 : Tail(items)[i] = items[i + 1]
      /\ items[1] \in L
  OBVIOUS
<1>2. \A i \in 2 .. Len(items) : i - 1 \in 1 .. Len(items) - 1 /\ items[i] = Tail(items)[i - 1]
  BY <1>1
<1>3. ASSUME NEW i \in 1 .. Len(items) PROVE items[i] \in {Head(items)} \cup ToSet(Tail(items))
  <2>1. CASE i = 1
    BY <1>1, <2>1
  <2>2. CASE i # 1
    <3>1. i \in 2 .. Len(items)
      BY <1>1, <2>2
    <3> QED BY <1>1, <1>2, <3>1 DEF ToSet
  <2> QED BY <2>1, <2>2
<1>4. \A i \in 1 .. Len(items) - 1 : i + 1 \in 1 .. Len(items)
  BY <1>1
<1>5. Head(items) \in ToSet(items) /\ ToSet(Tail(items)) \subseteq ToSet(items)
  BY <1>1, <1>4 DEF ToSet
<1> QED BY <1>1, <1>3, <1>5 DEF ToSet

LEMMA WalkPaces == ASSUME FlowType, WalkInv, Pace PROVE WalkInv'
<1>1. /\ pc = "page" /\ pc' = "pacing" /\ pages_this_ticker < MaxTradePages
      /\ pages_this_ticker' = pages_this_ticker + 1
      /\ UNCHANGED <<found, ticker, seen, cursor, page, logs>>
  BY DEF Pace, list, disk
<1>2. Current' = Current /\ pages_this_ticker \in Nat
  BY <1>1, Given0 DEF Current, FlowType, WalkType
<1>3. /\ Holds(logs[Current], seen) /\ cursor # 0
      /\ cursor = Cursors(Current)[pages_this_ticker + 1]
      /\ \A n \in 1 .. pages_this_ticker : Fetched(n)
  BY <1>1 DEF WalkInv, Busy
<1>4. Holds(logs'[Current'], seen')
  BY <1>1, <1>2, <1>3
<1>5. pages_this_ticker' >= 1 /\ pages_this_ticker' - 1 = pages_this_ticker
  BY <1>1, <1>2
<1>6. \A n \in 1 .. pages_this_ticker' - 1 : Fetched(n)'
  BY <1>1, <1>2, <1>3, <1>5, FetchedStays
<1>7. cursor' # 0 /\ cursor' = Cursors(Current')[pages_this_ticker']
  BY <1>1, <1>2, <1>3
<1> QED BY <1>1, <1>4, <1>5, <1>6, <1>7 DEF WalkInv, Cursors

LEMMA WalkOnPage ==
    ASSUME FlowType, WalkInv, Request \/ (GotPage /\ TradesPage) \/ Duplicate PROVE WalkInv'
<1>1. /\ pc \in {"pacing", "trades", "append"} /\ pc' \in {"trades", "append"}
      /\ UNCHANGED <<found, ticker, seen, cursor, pages_this_ticker, logs>>
  BY DEF Request, TradesPage, GotPage, Duplicate, list, walk, disk
<1>2. Current' = Current
  BY <1>1 DEF Current
<1>3. /\ Holds(logs[Current], seen) /\ pages_this_ticker >= 1
      /\ cursor # 0 /\ cursor = Cursors(Current)[pages_this_ticker]
      /\ \A n \in 1 .. pages_this_ticker - 1 : Fetched(n)
  BY <1>1 DEF WalkInv, Busy
<1>4. \A n \in 1 .. pages_this_ticker' - 1 : Fetched(n)'
  BY <1>1, <1>2, <1>3, FetchedStays
<1>5. Holds(logs'[Current'], seen') /\ cursor' = Cursors(Current')[pages_this_ticker']
  BY <1>1, <1>2, <1>3
<1>6. pc' = "append" =>
         ToSet(Pages[Current'][cursor'].trades) \subseteq seen' \cup ToSet(page')
  <2>1. CASE Request
    BY <2>1 DEF Request
  <2>2. CASE TradesPage
    BY <1>1, <1>2, <2>2 DEF TradesPage
  <2>3. CASE Duplicate
    <3>1. /\ page # <<>> /\ Head(page) \in seen /\ page' = Tail(page) /\ page \in Seq(Ids)
          /\ ToSet(Pages[Current][cursor].trades) \subseteq seen \cup ToSet(page)
      BY <2>3 DEF Duplicate, WalkInv, FlowType, WalkType
    <3>2. ToSet(page) = {Head(page)} \cup ToSet(page')
      BY <3>1, HeadAndTail
    <3> QED BY <1>1, <1>2, <3>1, <3>2
  <2> QED BY <2>1, <2>2, <2>3
<1> QED BY <1>1, <1>3, <1>4, <1>5, <1>6 DEF WalkInv, Cursors

LEMMA WalkAppends == ASSUME FlowType, WalkInv, AppendTrade PROVE WalkInv'
<1>1. /\ pc = "append" /\ pc' = "append" /\ page # <<>> /\ page' = Tail(page)
      /\ seen' = seen \cup {Head(page)}
      /\ UNCHANGED <<found, ticker, cursor, pages_this_ticker>>
  BY DEF AppendTrade, list
<1>2. Current' = Current /\ page \in Seq(Ids) /\ logs \in [Tickers -> Seq(Lines)]
  BY <1>1 DEF Current, FlowType, WalkType, DiskType
<1>3. /\ Holds(logs[Current], seen) /\ pages_this_ticker >= 1
      /\ cursor # 0 /\ cursor = Cursors(Current)[pages_this_ticker]
      /\ \A n \in 1 .. pages_this_ticker - 1 : Fetched(n)
      /\ ToSet(Pages[Current][cursor].trades) \subseteq seen \cup ToSet(page)
  BY <1>1 DEF WalkInv, Busy
<1>4. Current \in Tickers /\ Head(page) \in Ids
  BY <1>1, <1>2, CurrentTicker DEF FlowType, ListType, WalkType, Busy
<1>5. PICK log \in Appended(logs[Current], Envelope(Head(page))) :
         logs' = [logs EXCEPT ![Current] = log]
  BY DEF AppendTrade
<1>6. Holds(logs'[Current'], seen')
  <2>1. Holds(logs'[Current], seen)
    BY <1>2, <1>3, <1>4, <1>5, HoldsOn
  <2>2. logs'[Current] = log /\ logs[Current] \in Seq(Lines)
    BY <1>2, <1>4, <1>5
  <2>3. Holds(log, {Head(page)})
    BY <1>4, <1>5, <2>2, HoldsNew
  <2> QED BY <1>1, <1>2, <2>1, <2>2, <2>3 DEF Holds
<1>7. \A n \in 1 .. pages_this_ticker' - 1 : Fetched(n)'
  BY <1>1, <1>2, <1>3, FetchedStays
<1>8. ToSet(Pages[Current'][cursor'].trades) \subseteq seen' \cup ToSet(page')
  BY <1>1, <1>2, <1>3, HeadAndTail
<1> QED BY <1>1, <1>2, <1>3, <1>6, <1>7, <1>8 DEF WalkInv, Cursors

LEMMA WalkNext == ASSUME FlowType, WalkInv, NextCursor PROVE WalkInv'
<1>1. /\ pc = "append" /\ page = <<>>
      /\ UNCHANGED <<found, ticker, seen, pages_this_ticker, logs>>
      /\ LET next == Pages[Current][cursor].next
         IN IF next = 0 THEN pc' = "mark" ELSE pc' = "page" /\ cursor' = next
  BY DEF NextCursor, list, disk
<1> DEFINE k == pages_this_ticker
<1>2. Current' = Current /\ k \in 0 .. MaxTradePages /\ k \in Nat
  BY <1>1, Given0 DEF Current, FlowType, WalkType
<1>3. /\ Holds(logs[Current], seen) /\ k >= 1 /\ cursor # 0 /\ cursor = Cursors(Current)[k]
      /\ \A n \in 1 .. k - 1 : Fetched(n)
      /\ ToSet(Pages[Current][cursor].trades) \subseteq seen \cup ToSet(page)
  BY <1>1 DEF WalkInv, Busy
<1>4. Fetched(k)
  <2>1. ToSet(page) = {}
    BY <1>1, EmptyList
  <2> QED BY <1>3, <2>1 DEF Fetched
<1>5. \A n \in 1 .. k : Fetched(n)
  <2>1. \A n \in 1 .. k : n \in 1 .. k - 1 \/ n = k
    BY <1>2
  <2> QED BY <1>3, <1>4, <2>1
<1>6. k < MaxTradePages => Cursors(Current)[k + 1] = Pages[Current][cursor].next
  <2> SUFFICES ASSUME k < MaxTradePages
               PROVE  Cursors(Current)[k + 1] = Pages[Current][cursor].next
    OBVIOUS
  <2>1. k + 1 \in 1 .. MaxTradePages /\ k + 1 > 1 /\ (k + 1) - 1 = k
    BY <1>2, <1>3, Given0
  <2> QED BY <1>3, <2>1, CursorsAre
<1>7. Holds(logs'[Current'], seen')
  BY <1>1, <1>2, <1>3
<1>8. CASE Pages[Current][cursor].next # 0
  <2>1. pc' = "page" /\ cursor' = Pages[Current][cursor].next
    BY <1>1, <1>8
  <2>2. pages_this_ticker' < MaxTradePages =>
           cursor' = Cursors(Current')[pages_this_ticker' + 1]
    BY <1>1, <1>2, <1>6, <2>1
  <2>3. \A n \in 1 .. pages_this_ticker' : Fetched(n)'
    BY <1>1, <1>2, <1>5, FetchedStays
  <2> QED BY <1>7, <1>8, <2>1, <2>2, <2>3 DEF WalkInv, Cursors
<1>9. CASE Pages[Current][cursor].next = 0
  <2>1. pc' = "mark"
    BY <1>1, <1>9
  <2>2. \A n \in k + 1 .. MaxTradePages : Cursors(Current)[n] = 0
    <3>1. ASSUME NEW n \in k + 1 .. MaxTradePages
          PROVE  k + 1 \in 1 .. MaxTradePages /\ k < MaxTradePages
      BY <1>2, Given0
    <3> QED BY <1>6, <1>9, <3>1, CursorsEnd
  <2>3. Reachable(Current) \subseteq seen
    BY <1>2, <1>5, <2>2, AllFetched
  <2>4. Reachable(Current') \subseteq seen'
    BY <1>1, <1>2, <2>3
  <2> QED BY <1>7, <2>1, <2>4 DEF WalkInv, Reachable, Cursors
<1> QED BY <1>8, <1>9

LEMMA WalkCaps == ASSUME FlowType, WalkInv, PageCap PROVE WalkInv'
<1>1. /\ pc = "page" /\ pc' = "mark" /\ pages_this_ticker >= MaxTradePages
      /\ UNCHANGED <<found, ticker, seen, logs>>
  BY DEF PageCap, list, walk, disk
<1>2. Current' = Current /\ pages_this_ticker \in Nat
  BY <1>1, Given0 DEF Current, FlowType, WalkType
<1>3. Holds(logs[Current], seen) /\ \A n \in 1 .. pages_this_ticker : Fetched(n)
  BY <1>1 DEF WalkInv, Busy
<1>4. \A n \in pages_this_ticker + 1 .. MaxTradePages : Cursors(Current)[n] = 0
  BY <1>1, <1>2, Given0
<1>5. Reachable(Current) \subseteq seen
  BY <1>2, <1>3, <1>4, AllFetched
<1>6. Reachable(Current') \subseteq seen' /\ Holds(logs'[Current'], seen')
  BY <1>1, <1>2, <1>3, <1>5
<1> QED BY <1>1, <1>6 DEF WalkInv, Reachable, Cursors

LEMMA WalkStep == ASSUME FlowType, WalkInv, [Next]_vars PROVE WalkInv'
<1>1. CASE GotPage
  <2>1. CASE ListPage
    <3>1. pc' \notin Busy
      BY <2>1 DEF ListPage, MorePages, LastPage, Busy
    <3> QED BY <3>1, WalkIdle
  <2> QED BY <1>1, <2>1, WalkOnPage DEF GotPage
<1>2. CASE \/ Start \/ Resolve \/ DiscoverOnly \/ ResolveCut \/ SkipTicker \/ Finish \/ GiveUp
           \/ Crash \/ AppendCut \/ Mark \/ MarkCut
  <2>1. pc' \notin Busy
    BY <1>2 DEF Start, Resolve, DiscoverOnly, ResolveCut, SkipTicker, Finish, GiveUp, Crash,
                AppendCut, Mark, MarkCut, Ends, Busy
  <2> QED BY <2>1, WalkIdle
<1>3. CASE Retry \/ Tick \/ UNCHANGED vars
  <2>1. UNCHANGED <<pc, found, ticker, seen, cursor, pages_this_ticker, page, logs>>
    BY <1>3 DEF Retry, Tick, vars, list, walk, disk
  <2>2. Current' = Current
    BY <2>1 DEF Current
  <2>3. /\ Cursors(Current') = Cursors(Current) /\ Reachable(Current') = Reachable(Current)
        /\ Pages[Current'][cursor'] = Pages[Current][cursor]
        /\ logs'[Current'] = logs[Current]
    BY <2>1, <2>2
  <2>4. Holds(logs[Current], seen) => Holds(logs'[Current'], seen')
    BY <2>1, <2>3
  <2>5. \A n : Fetched(n) => Fetched(n)'
    BY <2>1, <2>2, FetchedStays
  <2>6. /\ pc' = "page" => (\A n \in 1 .. pages_this_ticker' : Fetched(n)')
        /\ pc' \in {"pacing", "trades", "append"} =>
              \A n \in 1 .. pages_this_ticker' - 1 : Fetched(n)'
    BY <2>1, <2>5 DEF WalkInv
  <2> QED BY <2>1, <2>3, <2>4, <2>6 DEF WalkInv, Reachable, Cursors
<1>4. CASE Request \/ Duplicate
  BY <1>4, WalkOnPage
<1>5. CASE OpenTicker \/ Pace \/ AppendTrade \/ NextCursor \/ PageCap
  BY <1>5, WalkOpen, WalkPaces, WalkAppends, WalkNext, WalkCaps
<1> QED BY <1>1, <1>2, <1>3, <1>4, <1>5 DEF Next, Step, OwnStep

LEMMA MarkedTickers == ASSUME FlowType PROVE LoadCheckpoint(ckpt) \subseteq Tickers
<1>1. ckpt \in Seq(Marks)
  BY DEF FlowType, DiskType
<1>2. \A i \in DOMAIN ckpt : ckpt[i] \in Marks
  BY <1>1
<1>3. \A i \in DOMAIN ckpt : ckpt[i].s \in Tickers
  BY <1>2 DEF Marks
<1> QED BY <1>3 DEF LoadCheckpoint, Readable

LEMMA CkptStep == ASSUME FlowType, CkptInv, WalkInv, [Next]_vars PROVE CkptInv'
<1>1. logs \in [Tickers -> Seq(Lines)] /\ LoadCheckpoint(ckpt) \subseteq Tickers
  BY MarkedTickers DEF FlowType, DiskType
<1>2. CASE AppendTrade \/ AppendCut
  <2>1. /\ pc = "append" /\ page # <<>> /\ ckpt' = ckpt
        /\ \E log : /\ \/ log \in Appended(logs[Current], Envelope(Head(page)))
                       \/ log \in AppendFailed(logs[Current], Envelope(Head(page)), TRUE)
                    /\ logs' = [logs EXCEPT ![Current] = log]
    BY <1>2 DEF AppendTrade, AppendCut
  <2>2. Current \in Tickers /\ Head(page) \in Ids
    BY <2>1, CurrentTicker DEF FlowType, ListType, WalkType, Busy
  <2>3. \A t \in LoadCheckpoint(ckpt) : Holds(logs'[t], Reachable(t))
    BY <1>1, <2>1, <2>2, HoldsOn DEF CkptInv
  <2>4. \A t \in LoadCheckpoint(ckpt') : Holds(logs'[t], Reachable(t))
    BY <2>1, <2>3
  <2> QED BY <2>4 DEF CkptInv, LoadCheckpoint, Readable, Reachable, Cursors
<1>3. CASE Mark \/ MarkCut
  <2>1. /\ pc = "mark" /\ logs' = logs
        /\ ckpt' = WriteMark(ckpt, Current) \/ ckpt' \in CutMark(ckpt, Current)
    BY <1>3 DEF Mark, MarkCut
  <2>2. Current \in Tickers
    BY <2>1, CurrentTicker DEF FlowType, ListType, WalkType, Busy
  <2>3. LoadCheckpoint(ckpt') \subseteq LoadCheckpoint(ckpt) \cup {Current}
    BY <2>1, <2>2, MarksWritten DEF FlowType, DiskType
  <2>4. Holds(logs[Current], Reachable(Current))
    BY <2>1 DEF WalkInv, Busy, Holds
  <2>5. \A t \in LoadCheckpoint(ckpt') : Holds(logs'[t], Reachable(t))
    BY <2>1, <2>3, <2>4 DEF CkptInv
  <2> QED BY <2>5 DEF CkptInv, LoadCheckpoint, Readable, Reachable, Cursors
<1>4. CASE ~(AppendTrade \/ AppendCut \/ Mark \/ MarkCut)
  <2>1. ckpt' = ckpt /\ logs' = logs
    BY <1>4 DEF Next, Step, OwnStep, GotPage, ListPage, TradesPage, Retry, GiveUp, Resolve, DiscoverOnly,
                SkipTicker, OpenTicker, Finish, PageCap, Pace, Request, Duplicate, NextCursor,
                Start, Tick, ResolveCut, Crash, disk, vars
  <2> QED BY <2>1, CkptUntouched
<1> QED BY <1>2, <1>3, <1>4

(***************************************************************************)
(* The reader's stream: one event for each trade, each at its place,        *)
(* whatever the order and the sources of its copies.                       *)
(***************************************************************************)
LEMMA IdsAre ==
    /\ Ids \subseteq Nat \ {0} /\ FetchTs \in Int
    /\ \A id \in Ids : EventTs[id] \in Int /\ RecvTs[id] \in Int
<1>1. EventTs \in Seq(Int) /\ RecvTs \in [DOMAIN EventTs -> Int] /\ FetchTs \in Int
  BY ClockAssumption
<1>2. DOMAIN EventTs = 1 .. Len(EventTs) /\ Len(EventTs) \in Nat
      /\ \A id \in DOMAIN EventTs : EventTs[id] \in Int
  BY <1>1
<1> QED BY <1>1, <1>2 DEF Ids

LEMMA RowsAre ==
    ASSUME NEW log \in Seq(Lines)
    PROVE  LET rows == TradeRows(log)
           IN /\ Table(rows) /\ DOMAIN rows = TradeLines(log)
              /\ \A i \in DOMAIN rows :
                    /\ i \in DOMAIN log /\ log[i] \in Lines /\ log[i].kind \in {"live", "rest"}
                    /\ rows[i].id = log[i].s /\ rows[i].id \in Ids
                    /\ rows[i].source = log[i].kind
                    /\ rows[i].seq = 0 <=> log[i].kind = "rest"
                    /\ rows[i].event = EventTs[rows[i].id]
                    /\ rows[i].seq # 0 => rows[i].recv = RecvTs[rows[i].id]
<1> DEFINE rows == TradeRows(log)
           Row == [id : Ids, source : {"live", "rest"}, row : Int, event : Int, seq : Int, recv : Int]
<1>1. DOMAIN log = 1 .. Len(log) /\ Len(log) \in Nat /\ \A i \in DOMAIN log : log[i] \in Lines
  OBVIOUS
<1>2. DOMAIN rows = TradeLines(log) /\ \A i \in TradeLines(log) : rows[i] = TradeRow(log[i])
  BY DEF TradeRows
<1>3. ASSUME NEW i \in TradeLines(log)
      PROVE  /\ i \in DOMAIN log /\ log[i] \in Lines /\ log[i].kind \in {"live", "rest"}
             /\ log[i].s \in Ids
  BY <1>1 DEF TradeLines, Lines
<1>4. ASSUME NEW i \in TradeLines(log)
      PROVE  /\ rows[i] \in Row
             /\ rows[i].id = log[i].s /\ rows[i].source = log[i].kind
             /\ rows[i].seq = 0 <=> log[i].kind = "rest"
             /\ rows[i].event = EventTs[rows[i].id]
             /\ rows[i].seq # 0 => rows[i].recv = RecvTs[rows[i].id]
  <2>1. /\ rows[i] = TradeRow(log[i]) /\ log[i].s \in Nat /\ log[i].s # 0
        /\ log[i].s \in Ids /\ log[i].kind \in {"live", "rest"}
    BY <1>2, <1>3, IdsAre
  <2> DEFINE id == log[i].s
             kind == log[i].kind
             row == TradeRow(log[i])
  <2>2. row = [id |-> id, source |-> kind, row |-> 0, event |-> EventTs[id],
               seq |-> IF kind = "live" THEN id ELSE 0,
               recv |-> IF kind = "live" THEN RecvTs[id] ELSE FetchTs]
    BY DEF TradeRow
  <2>3. /\ id \in Nat /\ id # 0 /\ id \in Ids /\ kind \in {"live", "rest"}
        /\ EventTs[id] \in Int /\ RecvTs[id] \in Int /\ FetchTs \in Int
    BY <2>1, IdsAre
  <2> HIDE DEF id, kind, row
  <2>4. row \in Row
    BY <2>2, <2>3
  <2>5. /\ row.id = id /\ row.source = kind /\ (row.seq = 0 <=> kind = "rest")
        /\ row.event = EventTs[row.id] /\ (row.seq # 0 => row.recv = RecvTs[row.id])
    BY <2>2, <2>3
  <2> QED BY <2>1, <2>4, <2>5 DEF id, kind, row
<1>5. IsFiniteSet(DOMAIN rows) /\ DOMAIN rows \subseteq Int
  <2>1. TradeLines(log) \subseteq 1 .. Len(log) /\ IsFiniteSet(1 .. Len(log))
    BY <1>1, FS_Interval DEF TradeLines
  <2> QED BY <1>2, <2>1, FS_Subset
<1>6. rows \in [DOMAIN rows -> Row]
  <2>1. rows = [i \in DOMAIN rows |-> rows[i]]
    BY <1>2 DEF TradeRows
  <2> HIDE DEF rows, Row
  <2> QED BY <1>2, <1>4, <2>1
<1>7. Table(rows)
  <2>1. \E I, S : rows \in [DOMAIN rows -> [id : I, source : S, row : Int, event : Int,
                                           seq : Int, recv : Int]]
    BY <1>6
  <2> QED BY <1>5, <2>1 DEF Table
<1> HIDE DEF rows
<1> QED BY <1>2, <1>3, <1>4, <1>7 DEF rows

\* The event of a trade.
LEMMA TapeEvent ==
    ASSUME NEW log \in Seq(Lines), NEW i \in TradeLines(log)
    PROVE  LET e == TradeEventAt(TradeRows(log), i)
           IN /\ e.id = log[i].s /\ e.id \in Ids /\ e.key \in Keys
              /\ e.key[1] = PlacedAt(log, e.id)
              /\ e.source = "rest" <=> Trade(e.id) \in ToSet(log)
<1> DEFINE rows == TradeRows(log)
           e == TradeEventAt(rows, i)
           LiveLine(id) == [kind |-> "live", s |-> id]
<1>1. /\ Table(rows) /\ DOMAIN rows = TradeLines(log)
      /\ \A j \in DOMAIN rows :
            /\ j \in DOMAIN log /\ log[j] \in Lines /\ log[j].kind \in {"live", "rest"}
            /\ rows[j].id = log[j].s /\ rows[j].id \in Ids
            /\ rows[j].source = log[j].kind
            /\ rows[j].seq = 0 <=> log[j].kind = "rest"
            /\ rows[j].event = EventTs[rows[j].id]
            /\ rows[j].seq # 0 => rows[j].recv = RecvTs[rows[j].id]
  BY RowsAre
<1> HIDE DEF rows
<1>2. PICK p \in DOMAIN rows, f \in DOMAIN rows :
         /\ rows[p].id = rows[i].id /\ rows[f].id = rows[i].id
         /\ e.id = rows[i].id /\ e.source = rows[f].source /\ e.key \in Keys
         /\ e.key[1] = IF rows[p].seq # 0 THEN rows[p].recv ELSE rows[f].event
         /\ rows[p].seq # 0 <=> LiveCopies(rows, rows[i].id) # {}
         /\ rows[f].seq = 0 <=> LiveCopies(rows, rows[i].id) # Copies(rows, rows[i].id)
  <2>1. Table(rows) /\ i \in DOMAIN rows
    BY <1>1
  <2>2. \A p \in Copies(rows, rows[i].id) : p \in DOMAIN rows
    BY DEF Copies
  <2> QED BY <2>1, <2>2, EventIs
\* A row of either kind stands for a line of that kind.
<1>3. ASSUME NEW j \in DOMAIN rows, rows[j].id = e.id
      PROVE  IF rows[j].seq = 0 THEN Trade(e.id) \in ToSet(log) ELSE LiveLine(e.id) \in ToSet(log)
  <2>1. /\ j \in DOMAIN log /\ log[j] \in Lines /\ log[j].s = e.id
        /\ log[j].kind = IF rows[j].seq = 0 THEN "rest" ELSE "live"
    BY <1>1, <1>3
  <2>2. log[j] = [kind |-> log[j].kind, s |-> log[j].s]
    BY <2>1 DEF Lines
  <2>3. log[j] \in ToSet(log)
    BY <2>1 DEF ToSet
  <2> QED BY <2>1, <2>2, <2>3 DEF Trade
<1>4. ASSUME NEW kind \in {"live", "rest"}, [kind |-> kind, s |-> e.id] \in ToSet(log)
      PROVE  \E j \in DOMAIN rows : rows[j].id = e.id /\ (rows[j].seq = 0 <=> kind = "rest")
  <2>1. PICK j \in DOMAIN log : log[j] = [kind |-> kind, s |-> e.id]
    BY <1>4 DEF ToSet
  <2>2. log[j].kind = kind /\ log[j].s = e.id
    BY <2>1
  <2>3. j \in DOMAIN rows
    BY <1>1, <2>2 DEF TradeLines
  <2> QED BY <1>1, <2>2, <2>3
<1>5. LiveLine(e.id) \in ToSet(log) <=> rows[p].seq # 0
  <2>1. LiveCopies(rows, e.id) # {} <=> \E j \in DOMAIN rows : rows[j].id = e.id /\ rows[j].seq # 0
    BY DEF LiveCopies, Copies
  <2>2. (\E j \in DOMAIN rows : rows[j].id = e.id /\ rows[j].seq # 0)
           <=> LiveLine(e.id) \in ToSet(log)
    BY <1>3, <1>4
  <2> QED BY <1>2, <2>1, <2>2
<1>6. Trade(e.id) \in ToSet(log) <=> rows[f].seq = 0
  <2>1. LiveCopies(rows, e.id) # Copies(rows, e.id)
           <=> \E j \in DOMAIN rows : rows[j].id = e.id /\ rows[j].seq = 0
    BY DEF LiveCopies, Copies
  <2>2. (\E j \in DOMAIN rows : rows[j].id = e.id /\ rows[j].seq = 0)
           <=> Trade(e.id) \in ToSet(log)
    BY <1>3, <1>4 DEF Trade
  <2> QED BY <1>2, <2>1, <2>2
<1>7. e.key[1] = PlacedAt(log, e.id)
  <2>1. rows[p].seq # 0 => rows[p].recv = RecvTs[e.id]
    BY <1>1, <1>2
  <2>2. rows[f].event = EventTs[e.id]
    BY <1>1, <1>2
  <2> QED BY <1>2, <1>5, <2>1, <2>2 DEF PlacedAt
<1>8. e.source = "rest" <=> Trade(e.id) \in ToSet(log)
  BY <1>1, <1>2, <1>6
<1> QED BY <1>1, <1>2, <1>7, <1>8 DEF rows

LEMMA TapeIs ==
    ASSUME NEW log \in Seq(Lines)
    PROVE  LET tape == Tape(log)
           IN /\ {e.id : e \in ToSet(tape)} = {log[i].s : i \in TradeLines(log)}
              /\ \A i, j \in DOMAIN tape :
                    i < j => /\ tape[i].id # tape[j].id
                             /\ PlacedAt(log, tape[i].id) <= PlacedAt(log, tape[j].id)
              /\ \A e \in ToSet(tape) : e.source = "rest" <=> Trade(e.id) \in ToSet(log)
<1> DEFINE rows == TradeRows(log)
           tape == Tape(log)
<1>1. Table(rows) /\ DOMAIN rows = TradeLines(log)
  BY RowsAre
<1>2. /\ ToSet(tape) = {TradeEventAt(rows, i) : i \in TradeLines(log)}
      /\ \A i, j \in DOMAIN tape : i < j => Before(tape[i].key, tape[j].key)
      /\ \A i, j \in DOMAIN tape : tape[i].id = tape[j].id => i = j
  BY <1>1, TradeLaneIs DEF Tape
<1> HIDE DEF rows, tape
<1>3. \A i \in TradeLines(log) :
         LET e == TradeEventAt(rows, i)
         IN /\ e.id = log[i].s /\ e.id \in Ids /\ e.key \in Keys
            /\ e.key[1] = PlacedAt(log, e.id)
            /\ e.source = "rest" <=> Trade(e.id) \in ToSet(log)
  BY TapeEvent DEF rows
<1>4. {e.id : e \in ToSet(tape)} = {log[i].s : i \in TradeLines(log)}
  BY <1>2, <1>3
<1>5. \A e \in ToSet(tape) : /\ e.id \in Ids /\ e.key \in Keys
                             /\ e.key[1] = PlacedAt(log, e.id)
                             /\ e.source = "rest" <=> Trade(e.id) \in ToSet(log)
  BY <1>2, <1>3
<1>6. ASSUME NEW i \in DOMAIN tape, NEW j \in DOMAIN tape, i < j
      PROVE  /\ tape[i].id # tape[j].id
             /\ PlacedAt(log, tape[i].id) <= PlacedAt(log, tape[j].id)
  <2> DEFINE d == tape[i]
             e == tape[j]
  <2>1. d \in ToSet(tape) /\ e \in ToSet(tape)
    BY DEF ToSet
  <2>2. Before(d.key, e.key) /\ d.key \in Keys /\ e.key \in Keys
    BY <1>2, <1>5, <1>6, <2>1
  <2>3. d.id # e.id
    <3>1. i # j
      BY <2>2, KeysAreOrdered
    <3> QED BY <1>2, <3>1
  <2> HIDE DEF d, e
  <2>4. d.key[1] <= e.key[1]
    <3>1. \A k \in Keys : k[1] \in Int
      BY DEF Keys
    <3>2. \A k, m \in Keys : Less(k, m) => k[1] <= m[1]
      BY <3>1 DEF Less
    <3> QED BY <2>2, <3>2, BeforeIsLess
  <2>5. d.key[1] = PlacedAt(log, d.id) /\ e.key[1] = PlacedAt(log, e.id)
    BY <1>5, <2>1
  <2>6. d.id # e.id /\ PlacedAt(log, d.id) <= PlacedAt(log, e.id)
    BY <2>3, <2>4, <2>5
  <2> QED BY <2>6 DEF d, e
<1> QED BY <1>4, <1>5, <1>6 DEF tape

\* However often a trade was captured and fetched, the reader sees it once, at
\* its place (where it was received if a copy is live, else where it was
\* executed) and with the fetched fields if any copy has them (dedup_trades,
\* trade_effective), for every log a run may append to and for every clock.
THEOREM TapesAreInOrder == Spec => []TapeIsInOrder
<1>1. FlowType => TapeIsInOrder
  <2> SUFFICES ASSUME FlowType, NEW t \in Tickers
               PROVE  LET log == logs[t]
                          tape == Tape(log)
                      IN /\ {e.id : e \in ToSet(tape)} = {log[i].s : i \in TradeLines(log)}
                         /\ \A i, j \in DOMAIN tape :
                               i < j => /\ tape[i].id # tape[j].id
                                        /\ PlacedAt(log, tape[i].id) <= PlacedAt(log, tape[j].id)
                         /\ \A e \in ToSet(tape) : e.source = "rest" <=> Trade(e.id) \in ToSet(log)
    BY DEF TapeIsInOrder
  <2>1. logs[t] \in Seq(Lines)
    BY DEF FlowType, DiskType
  <2> QED BY <2>1, TapeIs
<1> QED BY <1>1, TypesHold, PTL

\* A ticker that a resumed run skips has every trade that the page cap allows in
\* the reader's stream, or a manifest that says it is not complete, for every
\* tape, cut and resumption (write_checkpoint behind the last page, flushed
\* appends; load_checkpoint).
THEOREM CheckpointIsSafe == Spec => []CheckpointedTapeIsWhole
<1>1. Init => CkptInv /\ WalkInv
  <2> SUFFICES ASSUME Init PROVE CkptInv /\ WalkInv
    OBVIOUS
  <2>1. LoadCheckpoint(ckpt) = {}
    BY DEF Init, LoadCheckpoint, Readable
  <2> QED BY <2>1 DEF Init, CkptInv, WalkInv, Busy
<1>2. FlowType /\ CkptInv /\ WalkInv /\ [Next]_vars => CkptInv' /\ WalkInv'
  BY CkptStep, WalkStep
<1>3. FlowType /\ CkptInv => CheckpointedTapeIsWhole
  <2> SUFFICES ASSUME FlowType, CkptInv, NEW t \in LoadCheckpoint(ckpt), Complete(logs[t]),
                      NEW id \in Reachable(t)
               PROVE  id \in {e.id : e \in ToSet(Tape(logs[t]))}
    BY DEF CheckpointedTapeIsWhole
  <2>1. logs[t] \in Seq(Lines)
    BY MarkedTickers DEF FlowType, DiskType
  <2>2. PICK i \in DOMAIN logs[t] : logs[t][i] = Trade(id)
    BY DEF CkptInv, Holds, ToSet
  <2>3. i \in TradeLines(logs[t]) /\ logs[t][i].s = id
    BY <2>2 DEF TradeLines, Trade
  <2> QED BY <2>1, <2>3, TapeIs
<1> QED BY <1>1, <1>2, <1>3, TypesHold, PTL DEF Spec
=============================================================================
