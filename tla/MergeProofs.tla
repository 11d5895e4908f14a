---------------------------- MODULE MergeProofs ----------------------------
(***************************************************************************)
(* Proofs about the trade lane of Merge, for any table of trades.          *)
(***************************************************************************)
EXTENDS Merge, StoreProofs

(***************************************************************************)
(* The keys are ordered as the derived Ord of MergeKey orders them.        *)
(***************************************************************************)
Keys == [1 .. 6 -> Int]

Less(a, b) ==
    \/ a[1] < b[1]
    \/ a[1] = b[1] /\ a[2] < b[2]
    \/ a[1] = b[1] /\ a[2] = b[2] /\ a[3] < b[3]
    \/ a[1] = b[1] /\ a[2] = b[2] /\ a[3] = b[3] /\ a[4] < b[4]
    \/ a[1] = b[1] /\ a[2] = b[2] /\ a[3] = b[3] /\ a[4] = b[4] /\ a[5] < b[5]
    \/ a[1] = b[1] /\ a[2] = b[2] /\ a[3] = b[3] /\ a[4] = b[4] /\ a[5] = b[5] /\ a[6] < b[6]

\* The comparison of two keys, its six components unrolled.
LEMMA BeforeIsLess == ASSUME NEW a \in Keys, NEW b \in Keys PROVE Before(a, b) <=> Less(a, b)
<1>1. DOMAIN a = 1 .. 6
  BY DEF Keys
<1>2. ASSUME Before(a, b) PROVE Less(a, b)
  <2>1. PICK i \in 1 .. 6 : a[i] < b[i] /\ \A j \in 1 .. i - 1 : a[j] = b[j]
    BY <1>1, <1>2 DEF Before
  <2>2. CASE i = 1
    BY <2>1, <2>2 DEF Less
  <2>3. CASE i = 2
    BY <2>1, <2>3 DEF Less
  <2>4. CASE i = 3
    BY <2>1, <2>4 DEF Less
  <2>5. CASE i = 4
    BY <2>1, <2>5 DEF Less
  <2>6. CASE i = 5
    BY <2>1, <2>6 DEF Less
  <2>7. CASE i = 6
    BY <2>1, <2>7 DEF Less
  <2> QED BY <2>2, <2>3, <2>4, <2>5, <2>6, <2>7
<1>3. ASSUME Less(a, b) PROVE Before(a, b)
  <2>1. \E i \in 1 .. 6 : a[i] < b[i] /\ \A j \in 1 .. i - 1 : a[j] = b[j]
    BY <1>3 DEF Less
  <2> QED BY <1>1, <2>1 DEF Before
<1> QED BY <1>2, <1>3

\* Keys are totally ordered, and the order is transitive.
LEMMA KeysAreOrdered ==
    /\ \A a \in Keys : ~Before(a, a)
    /\ \A a, b \in Keys : a = b \/ Before(a, b) \/ Before(b, a)
    /\ \A a, b, c \in Keys : Before(a, b) /\ Before(b, c) => Before(a, c)
<1>0. \A a \in Keys : /\ a[1] \in Int /\ a[2] \in Int /\ a[3] \in Int
                      /\ a[4] \in Int /\ a[5] \in Int /\ a[6] \in Int
  BY DEF Keys
<1>1. ASSUME NEW a \in Keys PROVE ~Before(a, a)
  <2>1. ~Less(a, a)
    BY <1>0 DEF Less
  <2> QED BY <2>1, BeforeIsLess
<1>2. ASSUME NEW a \in Keys, NEW b \in Keys PROVE a = b \/ Before(a, b) \/ Before(b, a)
  <2>1. \/ a[1] = b[1] /\ a[2] = b[2] /\ a[3] = b[3] /\ a[4] = b[4] /\ a[5] = b[5] /\ a[6] = b[6]
        \/ Less(a, b) \/ Less(b, a)
    BY <1>0 DEF Less
  <2>2. CASE a[1] = b[1] /\ a[2] = b[2] /\ a[3] = b[3] /\ a[4] = b[4] /\ a[5] = b[5] /\ a[6] = b[6]
    <3>1. \A i \in 1 .. 6 : a[i] = b[i]
      BY <2>2
    <3> QED BY <3>1 DEF Keys
  <2> QED BY <2>1, <2>2, BeforeIsLess
<1>3. ASSUME NEW a \in Keys, NEW b \in Keys, NEW c \in Keys, Before(a, b), Before(b, c)
      PROVE  Before(a, c)
  <2>1. Less(a, b) /\ Less(b, c)
    BY <1>3, BeforeIsLess
  <2>2. Less(a, c)
    BY <1>0, <2>1 DEF Less
  <2> QED BY <2>2, BeforeIsLess
<1> QED BY <1>1, <1>2, <1>3

(***************************************************************************)
(* Sorting by rank: the ranks of n events with different keys are 0 to     *)
(* n - 1, in the order of the keys.                                        *)
(***************************************************************************)
Sortable(E) ==
    /\ IsFiniteSet(E)
    /\ \A e \in E : e.key \in Keys
    /\ \A d, e \in E : d.key = e.key => d = e

\* Ranks are below the number of events and follow the keys.
LEMMA RanksAreInOrder ==
    ASSUME NEW E, Sortable(E)
    PROVE  /\ \A e \in E : Rank(E, e) \in 0 .. Cardinality(E) - 1
           /\ \A d, e \in E : Before(d.key, e.key) => Rank(E, d) < Rank(E, e)
<1> DEFINE Below(e) == {d \in E : Before(d.key, e.key)}
<1>0. /\ IsFiniteSet(E) /\ Cardinality(E) \in Nat
      /\ \A e \in E : e.key \in Keys
  BY FS_CardinalityType DEF Sortable
<1>1. ASSUME NEW e \in E
      PROVE  /\ IsFiniteSet(Below(e)) /\ Cardinality(Below(e)) \in Nat
             /\ Cardinality(Below(e)) <= Cardinality(E) - 1
  <2>1. Below(e) \in SUBSET (E \ {e})
    BY <1>0, KeysAreOrdered
  <2>2. IsFiniteSet(E \ {e}) /\ Cardinality(E \ {e}) = Cardinality(E) - 1
    BY <1>0, FS_RemoveElement
  <2>3. IsFiniteSet(Below(e)) /\ Cardinality(Below(e)) <= Cardinality(E \ {e})
    BY <2>1, <2>2, FS_Subset
  <2>4. Cardinality(Below(e)) \in Nat
    BY <2>3, FS_CardinalityType
  <2> QED BY <2>2, <2>3, <2>4
<1>2. \A e \in E : Rank(E, e) = Cardinality(Below(e))
  BY DEF Rank
<1>3. ASSUME NEW e \in E PROVE Rank(E, e) \in 0 .. Cardinality(E) - 1
  <2> HIDE DEF Below
  <2> QED BY <1>0, <1>1, <1>2
<1>4. ASSUME NEW d \in E, NEW e \in E, Before(d.key, e.key) PROVE Rank(E, d) < Rank(E, e)
  <2>1. Below(d) \in SUBSET Below(e)
    BY <1>0, <1>4, KeysAreOrdered
  <2>2. d \in Below(e) /\ d \notin Below(d)
    BY <1>0, <1>4, KeysAreOrdered
  <2> HIDE DEF Below
  <2>3. Cardinality(Below(d)) <= Cardinality(Below(e)) /\ Cardinality(Below(d)) # Cardinality(Below(e))
    BY <1>1, <2>1, <2>2, FS_Subset
  <2> QED BY <1>1, <1>2, <2>3
<1> QED BY <1>3, <1>4

\* Every rank below the number of events is some event's.
LEMMA EveryRankIsTaken ==
    ASSUME NEW E, Sortable(E), NEW n \in 0 .. Cardinality(E) - 1
    PROVE  \E e \in E : Rank(E, e) = n
<1> DEFINE N == 0 .. Cardinality(E) - 1
           f == [e \in E |-> Rank(E, e)]
<1>0. /\ IsFiniteSet(E) /\ Cardinality(E) \in Nat
      /\ \A d, e \in E : d = e \/ Before(d.key, e.key) \/ Before(e.key, d.key)
  BY FS_CardinalityType, KeysAreOrdered DEF Sortable
<1>1. \A e \in E : Rank(E, e) \in N
  BY RanksAreInOrder
<1>2. \A d, e \in E : Rank(E, d) = Rank(E, e) => d = e
  <2> SUFFICES ASSUME NEW d \in E, NEW e \in E, Rank(E, d) = Rank(E, e), d # e PROVE FALSE
    OBVIOUS
  <2>1. Rank(E, d) \in Int /\ Rank(E, e) \in Int
    BY <1>1
  <2>2. Rank(E, d) < Rank(E, e) \/ Rank(E, e) < Rank(E, d)
    BY <1>0, RanksAreInOrder
  <2> QED BY <2>1, <2>2
<1>3. f \in Injection(E, N)
  BY <1>1, <1>2 DEF Injection, IsInjective
<1>4. IsFiniteSet(N) /\ Cardinality(N) = Cardinality(E)
  <2>1. 0 \in Int /\ Cardinality(E) - 1 \in Int
    BY <1>0
  <2>2. IsFiniteSet(N) /\ Cardinality(N) = IF 0 > Cardinality(E) - 1 THEN 0 ELSE (Cardinality(E) - 1) - 0 + 1
    BY <2>1, FS_Interval
  <2> QED BY <1>0, <2>2
<1>5. f \in Surjection(E, N)
  <2> HIDE DEF f, N
  <2> QED BY <1>3, <1>4, FS_Injection
<1> QED BY <1>5 DEF Surjection

\* The events, each at its rank.
LEMMA SortedByRank ==
    ASSUME NEW E, Sortable(E), NEW lane, lane = SortByKey(E)
    PROVE  /\ DOMAIN lane = 1 .. Cardinality(E)
           /\ ToSet(lane) = E
           /\ \A i, j \in DOMAIN lane : i < j => Before(lane[i].key, lane[j].key)
<1>0. /\ Cardinality(E) \in Nat
      /\ \A d, e \in E : d = e \/ Before(d.key, e.key) \/ Before(e.key, d.key)
  BY FS_CardinalityType, KeysAreOrdered DEF Sortable
<1>1. ASSUME NEW n \in 1 .. Cardinality(E)
      PROVE  lane[n] \in E /\ Rank(E, lane[n]) = n - 1
  <2>1. n - 1 \in 0 .. Cardinality(E) - 1
    BY <1>0
  <2>2. \E e \in E : Rank(E, e) = n - 1
    BY <2>1, EveryRankIsTaken
  <2> QED BY <2>2 DEF SortByKey
<1>2. ASSUME NEW e \in E PROVE \E n \in 1 .. Cardinality(E) : lane[n] = e
  <2>1. Rank(E, e) \in 0 .. Cardinality(E) - 1
    BY RanksAreInOrder
  <2> DEFINE n == Rank(E, e) + 1
  <2>2. n \in 1 .. Cardinality(E) /\ n - 1 = Rank(E, e)
    BY <1>0, <2>1
  <2>3. lane[n] \in E /\ Rank(E, lane[n]) = Rank(E, e)
    BY <1>1, <2>2
  <2>4. lane[n] = e
    <3>1. Rank(E, e) \in Int
      BY <2>1
    <3>2. lane[n] = e \/ Rank(E, lane[n]) < Rank(E, e) \/ Rank(E, e) < Rank(E, lane[n])
      <4> HIDE DEF n
      <4> QED BY <1>0, <2>3, RanksAreInOrder
    <3> QED BY <2>3, <3>1, <3>2
  <2> HIDE DEF n
  <2> QED BY <2>2, <2>4
<1>3. ASSUME NEW i \in 1 .. Cardinality(E), NEW j \in 1 .. Cardinality(E), i < j
      PROVE  Before(lane[i].key, lane[j].key)
  <2>1. /\ lane[i] \in E /\ lane[j] \in E
        /\ Rank(E, lane[i]) = i - 1 /\ Rank(E, lane[j]) = j - 1
    BY <1>1
  <2>2. lane[i] # lane[j] /\ ~Before(lane[j].key, lane[i].key)
    <3>1. Before(lane[j].key, lane[i].key) => Rank(E, lane[j]) < Rank(E, lane[i])
      BY <2>1, RanksAreInOrder
    <3> QED BY <1>3, <2>1, <3>1
  <2> QED BY <1>0, <2>1, <2>2
<1>4. DOMAIN lane = 1 .. Cardinality(E)
  BY DEF SortByKey
<1> QED BY <1>1, <1>2, <1>3, <1>4 DEF ToSet

(***************************************************************************)
(* A table of trades: its rows, by number.                                 *)
(***************************************************************************)
Table(rows) ==
    /\ IsFiniteSet(DOMAIN rows) /\ DOMAIN rows \subseteq Int
    /\ \E I, S : rows \in [DOMAIN rows -> [id : I, source : S, row : Int, event : Int,
                                           seq : Int, recv : Int]]

\* The key of a row of the trades table.
LEMMA TradeKeys ==
    ASSUME NEW r, r.seq \in Int, r.recv \in Int, r.event \in Int, NEW i \in Int
    PROVE  /\ TradeKey(r, i) \in Keys /\ TradeKey(r, i)[6] = i
           /\ TradeKey(r, i)[1] = TradeEffective(r) /\ TradeEffective(r) \in Int
<1>1. TradeEffective(r) \in Int
  BY DEF TradeEffective
<1> QED BY <1>1 DEF TradeKey, Key, Keys

\* Among rows there is one that comes first in key order.
LEMMA FirstCopyExists ==
    ASSUME NEW rows, Table(rows), NEW at \in SUBSET DOMAIN rows, at # {}
    PROVE  FirstCopy(rows, at) \in at
<1> DEFINE k(i) == TradeKey(rows[i], i)
           E == {[key |-> k(i)] : i \in at}
           f == [i \in at |-> [key |-> k(i)]]
<1>1. \A i \in at : k(i) \in Keys /\ k(i)[6] = i
  <2>1. \A i \in at : /\ i \in Int /\ rows[i].seq \in Int /\ rows[i].recv \in Int
                      /\ rows[i].event \in Int
    BY DEF Table
  <2> QED BY <2>1, TradeKeys
<1>2. IsFiniteSet(at)
  BY FS_Subset DEF Table
<1>3. IsFiniteSet(E)
  <2>1. f \in Surjection(at, E)
    BY DEF Surjection
  <2> HIDE DEF E, f
  <2> QED BY <1>2, <2>1, FS_Surjection
<1>4. Sortable(E)
  BY <1>1, <1>3 DEF Sortable
<1>5. 0 \in 0 .. Cardinality(E) - 1
  <2>1. E # {}
    OBVIOUS
  <2> HIDE DEF E
  <2>2. Cardinality(E) \in Nat /\ Cardinality(E) # 0
    BY <1>3, <2>1, FS_EmptySet, FS_CardinalityType
  <2> QED BY <2>2
<1>6. PICK e \in E : Rank(E, e) = 0
  <2> HIDE DEF E
  <2> QED BY <1>4, <1>5, EveryRankIsTaken
<1>7. PICK i \in at : e = [key |-> k(i)]
  OBVIOUS
<1>8. \A d \in E : ~Before(d.key, e.key)
  <2> SUFFICES ASSUME NEW d \in E, Before(d.key, e.key) PROVE FALSE
    OBVIOUS
  <2> HIDE DEF E
  <2>1. Rank(E, d) \in 0 .. Cardinality(E) - 1 /\ Rank(E, d) < Rank(E, e)
    BY <1>4, RanksAreInOrder
  <2> QED BY <1>6, <2>1
<1>9. ASSUME NEW j \in at \ {i} PROVE Before(k(i), k(j))
  <2>1. [key |-> k(j)] \in E
    OBVIOUS
  <2>2. ~Before(k(j), k(i))
    BY <1>7, <1>8, <2>1
  <2>3. k(i) # k(j)
    BY <1>1
  <2> HIDE DEF k
  <2> QED BY <1>1, <2>2, <2>3, KeysAreOrdered
<1>10. \E c \in at : \A j \in at \ {c} : Before(TradeKey(rows[c], c), TradeKey(rows[j], j))
  BY <1>9
<1> QED BY <1>10 DEF FirstCopy

\* What is made of the copies of one trade: the place of copy p, the fields of
\* copy f.
CopyOf(rows, id, r, p, f) ==
    /\ p \in Copies(rows, id) /\ f \in Copies(rows, id)
    /\ r = [rows[f] EXCEPT !.recv = rows[p].recv, !.seq = rows[p].seq, !.row = p]
    /\ rows[p].seq # 0 <=> LiveCopies(rows, id) # {}
    /\ rows[f].seq = 0 <=> LiveCopies(rows, id) # Copies(rows, id)

\* Which rows a group of copies takes its place and its fields from.
LEMMA OneCopyIs ==
    ASSUME NEW rows, Table(rows), NEW i \in DOMAIN rows
    PROVE  \E p, f : CopyOf(rows, rows[i].id, OneCopy(rows, rows[i].id), p, f)
<1> DEFINE id == rows[i].id
           copies == Copies(rows, id)
           live == LiveCopies(rows, id)
           p == FirstCopy(rows, IF live # {} THEN live ELSE copies)
           f == IF live = copies THEN p ELSE FirstCopy(rows, copies \ live)
<1>1. /\ copies \in SUBSET DOMAIN rows /\ copies # {} /\ live \in SUBSET copies
      /\ \A j \in copies : j \in live <=> rows[j].seq # 0
  BY DEF Copies, LiveCopies
<1>2. OneCopy(rows, id) = [rows[f] EXCEPT !.recv = rows[p].recv, !.seq = rows[p].seq, !.row = p]
  BY DEF OneCopy
<1> HIDE DEF copies, live
<1>3. p \in IF live # {} THEN live ELSE copies
  <2> DEFINE at == IF live # {} THEN live ELSE copies
  <2>1. at \in SUBSET DOMAIN rows /\ at # {}
    BY <1>1
  <2> HIDE DEF at
  <2>2. FirstCopy(rows, at) \in at
    BY <2>1, FirstCopyExists
  <2> QED BY <2>2 DEF at
<1>4. ASSUME live # copies PROVE f \in copies \ live
  <2>1. copies \ live \in SUBSET DOMAIN rows /\ copies \ live # {}
    BY <1>1, <1>4
  <2>2. FirstCopy(rows, copies \ live) \in copies \ live
    BY <2>1, FirstCopyExists
  <2> QED BY <1>4, <2>2
<1>5. live = copies => f = p
  OBVIOUS
<1> HIDE DEF p, f
<1>6. /\ p \in copies /\ f \in copies
      /\ rows[p].seq # 0 <=> live # {}
      /\ rows[f].seq = 0 <=> live # copies
  BY <1>1, <1>3, <1>4, <1>5
<1>7. CopyOf(rows, id, OneCopy(rows, id), p, f)
  BY <1>2, <1>6 DEF CopyOf, copies, live
<1> QED BY <1>7

TradeEventAt(rows, i) == TradeEvent(OneCopy(rows, rows[i].id))

\* The event of a trade: its id, its source and its key.
LEMMA EventIs ==
    ASSUME NEW rows, Table(rows), NEW i \in DOMAIN rows
    PROVE  \E p, f \in Copies(rows, rows[i].id) :
              LET e == TradeEventAt(rows, i)
              IN /\ p \in DOMAIN rows /\ f \in DOMAIN rows
                 /\ rows[p].id = rows[i].id /\ rows[f].id = rows[i].id
                 /\ e.id = rows[i].id /\ e.source = rows[f].source
                 /\ e.key \in Keys /\ e.key[6] = p
                 /\ e.key[1] = IF rows[p].seq # 0 THEN rows[p].recv ELSE rows[f].event
                 /\ rows[p].seq # 0 <=> LiveCopies(rows, rows[i].id) # {}
                 /\ rows[f].seq = 0 <=> LiveCopies(rows, rows[i].id) # Copies(rows, rows[i].id)
<1> DEFINE id == rows[i].id
           r == OneCopy(rows, id)
<1>1. PICK p, f : CopyOf(rows, id, r, p, f)
  BY OneCopyIs
<1>2. /\ p \in Copies(rows, id) /\ f \in Copies(rows, id)
      /\ r = [rows[f] EXCEPT !.recv = rows[p].recv, !.seq = rows[p].seq, !.row = p]
      /\ rows[p].seq # 0 <=> LiveCopies(rows, id) # {}
      /\ rows[f].seq = 0 <=> LiveCopies(rows, id) # Copies(rows, id)
  BY <1>1 DEF CopyOf
<1>3. p \in DOMAIN rows /\ f \in DOMAIN rows /\ rows[p].id = id /\ rows[f].id = id
  BY <1>2 DEF Copies
<1>4. PICK I, S : rows \in [DOMAIN rows -> [id : I, source : S, row : Int, event : Int,
                                         seq : Int, recv : Int]]
  BY DEF Table
<1>5. /\ rows[f] \in [id : I, source : S, row : Int, event : Int, seq : Int, recv : Int]
      /\ rows[p].recv \in Int /\ rows[p].seq \in Int /\ p \in Int
  BY <1>3, <1>4 DEF Table
<1> HIDE DEF r, id
<1>6. /\ r.id = rows[f].id /\ r.source = rows[f].source /\ r.event = rows[f].event
      /\ r.recv = rows[p].recv /\ r.seq = rows[p].seq /\ r.row = p /\ r.event \in Int
  BY <1>2, <1>5
<1>7. TradeKey(r, p) \in Keys /\ TradeKey(r, p)[6] = p /\ TradeKey(r, p)[1] = TradeEffective(r)
  BY <1>5, <1>6, TradeKeys
<1>8. TradeEffective(r) = IF rows[p].seq # 0 THEN rows[p].recv ELSE rows[f].event
  BY <1>6 DEF TradeEffective
<1>9. /\ TradeEvent(r).id = id /\ TradeEvent(r).source = rows[f].source
      /\ TradeEvent(r).key = TradeKey(r, p)
  BY <1>3, <1>6 DEF TradeEvent
<1>10. TradeEventAt(rows, i) = TradeEvent(r)
  BY DEF TradeEventAt, r, id
<1> QED BY <1>2, <1>3, <1>7, <1>8, <1>9, <1>10 DEF id

\* The trade lane holds one event for each trade of the table, in key order
\* (dedup_trades, EventIter::from_sources).
THEOREM TradeLaneIs ==
    ASSUME NEW rows, Table(rows)
    PROVE  LET lane == TradeLane(rows)
           IN /\ ToSet(lane) = {TradeEventAt(rows, i) : i \in DOMAIN rows}
              /\ \A i, j \in DOMAIN lane : i < j => Before(lane[i].key, lane[j].key)
              /\ \A i, j \in DOMAIN lane : lane[i].id = lane[j].id => i = j
<1> DEFINE E == {TradeEvent(r) : r \in DedupTrades(rows)}
           F == {TradeEventAt(rows, i) : i \in DOMAIN rows}
           lane == TradeLane(rows)
<1>1. E = F
  BY DEF DedupTrades, TradeEventAt
<1>2. lane = SortByKey(E)
  BY DEF TradeLane
<1>3. \A i \in DOMAIN rows : TradeEventAt(rows, i).key \in Keys
  BY EventIs
<1>4. IsFiniteSet(F)
  <2> DEFINE f == [i \in DOMAIN rows |-> TradeEventAt(rows, i)]
  <2>1. f \in Surjection(DOMAIN rows, F)
    BY DEF Surjection
  <2>2. IsFiniteSet(DOMAIN rows)
    BY DEF Table
  <2> HIDE DEF f, F
  <2> QED BY <2>1, <2>2, FS_Surjection
\* Two events of one key sit in one row, so they are of one trade.
<1>5. ASSUME NEW i \in DOMAIN rows, NEW j \in DOMAIN rows,
             TradeEventAt(rows, i).key = TradeEventAt(rows, j).key
      PROVE  rows[i].id = rows[j].id
  <2>1. PICK p \in DOMAIN rows : rows[p].id = rows[i].id /\ TradeEventAt(rows, i).key[6] = p
    BY EventIs
  <2>2. PICK q \in DOMAIN rows : rows[q].id = rows[j].id /\ TradeEventAt(rows, j).key[6] = q
    BY EventIs
  <2> QED BY <1>5, <2>1, <2>2
<1>6. \A i, j \in DOMAIN rows :
         rows[i].id = rows[j].id => TradeEventAt(rows, i) = TradeEventAt(rows, j)
  BY DEF TradeEventAt
<1>7. Sortable(F)
  <2>1. \A d, e \in F : d.key = e.key => d = e
    BY <1>5, <1>6
  <2> QED BY <1>3, <1>4, <2>1 DEF Sortable
<1> HIDE DEF E, lane
<1>8. /\ ToSet(lane) = F
      /\ \A i, j \in DOMAIN lane : i < j => Before(lane[i].key, lane[j].key)
      /\ DOMAIN lane = 1 .. Cardinality(F)
  <2>1. Sortable(E)
    BY <1>1, <1>7
  <2>2. /\ ToSet(lane) = E
        /\ \A i, j \in DOMAIN lane : i < j => Before(lane[i].key, lane[j].key)
        /\ DOMAIN lane = 1 .. Cardinality(E)
    BY <1>2, <2>1, SortedByRank
  <2> QED BY <1>1, <2>2
<1>9. ASSUME NEW i \in DOMAIN lane, NEW j \in DOMAIN lane, lane[i].id = lane[j].id, i # j
      PROVE  FALSE
  <2>1. lane[i] \in F /\ lane[j] \in F
    BY <1>8 DEF ToSet
  <2>2. \A k \in DOMAIN rows : TradeEventAt(rows, k).id = rows[k].id
    BY EventIs
  <2>3. lane[i] = lane[j]
    BY <1>6, <1>9, <2>1, <2>2
  <2>4. lane[i].key \in Keys /\ (Before(lane[i].key, lane[j].key) \/ Before(lane[j].key, lane[i].key))
    <3>1. i \in Int /\ j \in Int /\ (i < j \/ j < i)
      BY <1>4, <1>8, <1>9, FS_CardinalityType
    <3>2. lane[i].key \in Keys
      BY <1>3, <2>1
    <3> QED BY <1>8, <3>1, <3>2
  <2> QED BY <2>3, <2>4, KeysAreOrdered
<1> QED BY <1>8, <1>9 DEF lane

(***************************************************************************)
(* Ascending: the members of a finite set of numbers, each at its place.   *)
(***************************************************************************)
Under(S, x) == Cardinality({j \in S : j < x})

\* How many members of a set are below one of them.
LEMMA UnderIs ==
    ASSUME NEW S \in SUBSET Int, IsFiniteSet(S)
    PROVE  /\ Cardinality(S) \in Nat
           /\ \A x \in S : Under(S, x) \in 0 .. Cardinality(S) - 1
           /\ \A x, y \in S : x < y => Under(S, x) < Under(S, y)
<1> DEFINE Below(x) == {j \in S : j < x}
<1>0. Cardinality(S) \in Nat
  BY FS_CardinalityType
<1>1. ASSUME NEW x \in S
      PROVE  /\ IsFiniteSet(Below(x)) /\ Cardinality(Below(x)) \in Nat
             /\ Cardinality(Below(x)) <= Cardinality(S) - 1
  <2>1. Below(x) \in SUBSET (S \ {x})
    OBVIOUS
  <2>2. IsFiniteSet(S \ {x}) /\ Cardinality(S \ {x}) = Cardinality(S) - 1
    BY FS_RemoveElement
  <2>3. IsFiniteSet(Below(x)) /\ Cardinality(Below(x)) <= Cardinality(S \ {x})
    BY <2>1, <2>2, FS_Subset
  <2>4. Cardinality(Below(x)) \in Nat
    BY <2>3, FS_CardinalityType
  <2> QED BY <2>2, <2>3, <2>4
<1>2. \A x \in S : Under(S, x) = Cardinality(Below(x))
  BY DEF Under
<1>3. ASSUME NEW x \in S PROVE Under(S, x) \in 0 .. Cardinality(S) - 1
  <2> HIDE DEF Below
  <2> QED BY <1>0, <1>1, <1>2
<1>4. ASSUME NEW x \in S, NEW y \in S, x < y PROVE Under(S, x) < Under(S, y)
  <2>0. x \in Int /\ y \in Int /\ \A j \in S : j \in Int
    OBVIOUS
  <2>1. Below(x) \in SUBSET Below(y)
    <3> SUFFICES ASSUME NEW j \in S, j < x PROVE j < y
      OBVIOUS
    <3> QED BY <1>4, <2>0
  <2>2. x \in Below(y) /\ x \notin Below(x)
    BY <1>4, <2>0
  <2> HIDE DEF Below
  <2>3. Cardinality(Below(x)) <= Cardinality(Below(y)) /\ Cardinality(Below(x)) # Cardinality(Below(y))
    BY <1>1, <2>1, <2>2, FS_Subset
  <2> QED BY <1>1, <1>2, <2>3
<1> QED BY <1>0, <1>3, <1>4

\* Ascending lists the members of a finite set, each once and in order.
LEMMA AscendingIs ==
    ASSUME NEW S \in SUBSET Int, IsFiniteSet(S)
    PROVE  /\ Cardinality(S) \in Nat
           /\ Ascending(S) \in [1 .. Cardinality(S) -> S]
           /\ \A n \in 1 .. Cardinality(S) : Under(S, Ascending(S)[n]) = n - 1
           /\ \A x \in S : \E n \in 1 .. Cardinality(S) : n = Under(S, x) + 1 /\ Ascending(S)[n] = x
           /\ \A i, j \in 1 .. Cardinality(S) : i < j => Ascending(S)[i] < Ascending(S)[j]
<1> DEFINE C == Cardinality(S)
           N == 0 .. C - 1
           f == [x \in S |-> Under(S, x)]
           a == Ascending(S)
<1>0. C \in Nat /\ \A x \in S : Under(S, x) \in N
  BY UnderIs
<1>1. \A x, y \in S : Under(S, x) = Under(S, y) => x = y
  <2> SUFFICES ASSUME NEW x \in S, NEW y \in S, Under(S, x) = Under(S, y), x # y PROVE FALSE
    OBVIOUS
  <2>1. Under(S, x) \in Int /\ x \in Int /\ y \in Int
    BY <1>0
  <2>2. Under(S, x) < Under(S, y) \/ Under(S, y) < Under(S, x)
    BY <2>1, UnderIs
  <2> QED BY <2>1, <2>2
<1>2. f \in Injection(S, N)
  BY <1>0, <1>1 DEF Injection, IsInjective
<1>3. IsFiniteSet(N) /\ Cardinality(N) = C
  <2>1. 0 \in Int /\ C - 1 \in Int
    BY <1>0
  <2>2. IsFiniteSet(N) /\ Cardinality(N) = IF 0 > C - 1 THEN 0 ELSE (C - 1) - 0 + 1
    BY <2>1, FS_Interval
  <2> QED BY <1>0, <2>2
<1>4. f \in Surjection(S, N)
  <2> HIDE DEF f, N
  <2> QED BY <1>2, <1>3, FS_Injection
<1>5. ASSUME NEW n \in 1 .. C PROVE a[n] \in S /\ Under(S, a[n]) = n - 1
  <2>1. n - 1 \in N
    BY <1>0
  <2>2. \E x \in S : Cardinality({j \in S : j < x}) = n - 1
    BY <1>4, <2>1 DEF Surjection, Under
  <2>3. a[n] = CHOOSE x \in S : Cardinality({j \in S : j < x}) = n - 1
    BY DEF Ascending
  <2> QED BY <2>2, <2>3 DEF Under
<1>6. a \in [1 .. C -> S]
  <2> DEFINE g(n) == CHOOSE i \in S : Cardinality({j \in S : j < i}) = n - 1
  <2>0. a = [n \in 1 .. C |-> g(n)]
    BY DEF Ascending
  <2> HIDE DEF a, g
  <2>1. a = [n \in 1 .. C |-> a[n]]
    BY <2>0
  <2> HIDE DEF a
  <2> QED BY <1>5, <2>1
<1> HIDE DEF a, C, N
<1>7. ASSUME NEW x \in S PROVE \E n \in 1 .. C : n = Under(S, x) + 1 /\ a[n] = x
  <2>1. Under(S, x) + 1 \in 1 .. C /\ (Under(S, x) + 1) - 1 = Under(S, x)
    BY <1>0 DEF N
  <2>2. a[Under(S, x) + 1] \in S /\ Under(S, a[Under(S, x) + 1]) = Under(S, x)
    BY <1>5, <2>1
  <2> QED BY <1>1, <2>1, <2>2
<1>8. ASSUME NEW i \in 1 .. C, NEW j \in 1 .. C, i < j PROVE a[i] < a[j]
  <2>1. /\ a[i] \in S /\ a[j] \in S /\ a[i] \in Int /\ a[j] \in Int
        /\ Under(S, a[i]) = i - 1 /\ Under(S, a[j]) = j - 1
    BY <1>5
  <2>2. a[j] < a[i] => Under(S, a[j]) < Under(S, a[i])
    BY <2>1, UnderIs
  <2>3. a[j] # a[i]
    BY <1>8, <2>1
  <2>4. i \in Int /\ j \in Int
    OBVIOUS
  <2> QED BY <1>8, <2>1, <2>2, <2>3, <2>4
<1> QED BY <1>0, <1>5, <1>6, <1>7, <1>8 DEF a, C

\* A number above the others goes to the end.
LEMMA AscendingGrows ==
    ASSUME NEW S \in SUBSET Int, IsFiniteSet(S), NEW m \in Int, \A i \in S : i < m
    PROVE  /\ IsFiniteSet(S \cup {m}) /\ Cardinality(S \cup {m}) = Cardinality(S) + 1
           /\ \A n \in 1 .. Cardinality(S) : Ascending(S \cup {m})[n] = Ascending(S)[n]
           /\ Ascending(S \cup {m})[Cardinality(S) + 1] = m
<1> DEFINE T == S \cup {m}
<1>1. Cardinality(S) \in Nat /\ m \notin S
  BY FS_CardinalityType
<1>2. IsFiniteSet(T) /\ Cardinality(T) = Cardinality(S) + 1
  BY <1>1, FS_AddElement
<1>3. T \in SUBSET Int /\ S \in SUBSET T /\ m \in T
  OBVIOUS
<1>4. \A x \in S : Under(T, x) = Under(S, x)
  <2> SUFFICES ASSUME NEW x \in S PROVE {j \in T : j < x} = {j \in S : j < x}
    BY DEF Under
  <2> QED OBVIOUS
<1>5. Under(T, m) = Cardinality(S)
  <2>1. ~(m < m)
    OBVIOUS
  <2>2. {j \in T : j < m} = S
    BY <2>1
  <2> QED BY <2>2 DEF Under
<1> HIDE DEF T
<1>6. \A x \in T : \E n \in 1 .. Cardinality(T) : n = Under(T, x) + 1 /\ Ascending(T)[n] = x
  BY <1>2, <1>3, AscendingIs
<1>7. ASSUME NEW n \in 1 .. Cardinality(S) PROVE Ascending(T)[n] = Ascending(S)[n]
  <2>1. Ascending(S)[n] \in S /\ Under(S, Ascending(S)[n]) = n - 1
    BY AscendingIs
  <2>2. Under(T, Ascending(S)[n]) = n - 1
    BY <1>4, <2>1
  <2>3. Ascending(T)[(n - 1) + 1] = Ascending(S)[n]
    BY <1>3, <1>6, <2>1, <2>2
  <2>4. (n - 1) + 1 = n
    BY <1>1
  <2> QED BY <2>3, <2>4
<1>8. Ascending(T)[Cardinality(S) + 1] = m
  BY <1>3, <1>5, <1>6
<1> QED BY <1>2, <1>7, <1>8 DEF T

(***************************************************************************)
(* EventIter: three lanes of events of E, no key in two of them.           *)
(***************************************************************************)
Lanes(L, E) ==
    /\ L \in [1 .. 3 -> Seq(E)] /\ \A e \in E : e.key \in Keys
    /\ \A l, m \in 1 .. 3 : l # m =>
          \A i \in 1 .. Len(L[l]), j \in 1 .. Len(L[m]) : L[l][i].key # L[m][j].key

IterType(E) == [lanes : [1 .. 3 -> Seq(E)], last : Keys \cup {<<>>}, events : Seq(E), ok : BOOLEAN]

\* pos[l] events of lane l are out.
Left(L, it, pos) ==
    /\ pos \in [1 .. 3 -> Nat]
    /\ \A l \in 1 .. 3 :
          /\ pos[l] <= Len(L[l]) /\ Len(it.lanes[l]) = Len(L[l]) - pos[l]
          /\ \A k \in 1 .. Len(L[l]) - pos[l] : it.lanes[l][k] = L[l][pos[l] + k]

\* Of at most three keys, all different, one comes first.
LEMMA OneIsFirst ==
    ASSUME NEW R \in SUBSET (1 .. 3), R # {}, NEW h, \A l \in R : h[l] \in Keys,
           \A l, m \in R : l # m => h[l] # h[m]
    PROVE  \E b \in R : \A m \in R \ {b} : Before(h[b], h[m])
<1>1. \A l, m \in R : l = m \/ Before(h[l], h[m]) \/ Before(h[m], h[l])
  BY KeysAreOrdered
<1>2. \A l, m, k \in R : Before(h[l], h[m]) /\ Before(h[m], h[k]) => Before(h[l], h[k])
  BY KeysAreOrdered
<1>3. \A l \in R : l = 1 \/ l = 2 \/ l = 3
  OBVIOUS
<1>4. CASE R = {1} \/ R = {2} \/ R = {3}
  BY <1>4
<1>5. CASE 1 \in R /\ 2 \in R
  <2>1. CASE Before(h[1], h[2])
    <3>1. CASE 3 \in R /\ Before(h[3], h[1])
      BY <1>2, <1>3, <1>5, <2>1, <3>1
    <3>2. CASE ~(3 \in R /\ Before(h[3], h[1]))
      BY <1>1, <1>3, <1>5, <2>1, <3>2
    <3> QED BY <3>1, <3>2
  <2>2. CASE Before(h[2], h[1])
    <3>1. CASE 3 \in R /\ Before(h[3], h[2])
      BY <1>2, <1>3, <1>5, <2>2, <3>1
    <3>2. CASE ~(3 \in R /\ Before(h[3], h[2]))
      BY <1>1, <1>3, <1>5, <2>2, <3>2
    <3> QED BY <3>1, <3>2
  <2> QED BY <1>1, <1>5, <2>1, <2>2
<1>6. CASE 1 \in R /\ 2 \notin R /\ 3 \in R
  BY <1>1, <1>3, <1>6
<1>7. CASE 1 \notin R /\ 2 \in R /\ 3 \in R
  BY <1>1, <1>3, <1>7
<1>8. R = {1} \/ R = {2} \/ R = {3} \/ (1 \in R /\ 2 \in R) \/ (1 \in R /\ 2 \notin R /\ 3 \in R)
      \/ (1 \notin R /\ 2 \in R /\ 3 \in R)
  BY <1>3
<1> QED BY <1>4, <1>5, <1>6, <1>7, <1>8

\* The event of lane b that is next; the iterator when it comes out, and when it
\* is out of order.
NextOf(L, pos, b) == L[b][pos[b] + 1]
Emits(L, it, jt, pos, b) ==
    /\ InOrder(it.last, NextOf(L, pos, b).key) /\ jt.ok
    /\ jt.lanes = [it.lanes EXCEPT ![b] = Tail(@)] /\ jt.last = NextOf(L, pos, b).key
    /\ jt.events = Append(it.events, NextOf(L, pos, b))
Trips(L, it, jt, pos, b) ==
    /\ ~InOrder(it.last, NextOf(L, pos, b).key) /\ ~jt.ok
    /\ jt.lanes = it.lanes /\ jt.last = it.last /\ jt.events = it.events

\* A step of the iterator, with the smallest head of the lanes.
Smallest(L, pos, b) ==
    /\ b \in 1 .. 3 /\ pos[b] < Len(L[b])
    /\ \A m \in (1 .. 3) \ {b} : pos[m] < Len(L[m]) =>
          Before(NextOf(L, pos, b).key, NextOf(L, pos, m).key)

\* One call of EventIter::next: it ends, trips or gives the smallest head.
LEMMA EventNextIs ==
    ASSUME NEW E, NEW L, Lanes(L, E), NEW it \in IterType(E), NEW pos, Left(L, it, pos)
    PROVE  /\ EventNext(it) \in IterType(E)
           /\ \/ EventNext(it) = it /\ (~it.ok \/ \A l \in 1 .. 3 : pos[l] = Len(L[l]))
              \/ \E b \in 1 .. 3 :
                    /\ it.ok /\ Smallest(L, pos, b)
                    /\ Trips(L, it, EventNext(it), pos, b) \/ Emits(L, it, EventNext(it), pos, b)
<1> DEFINE R == {l \in DOMAIN it.lanes : it.lanes[l] # <<>>}
           h == [l \in 1 .. 3 |-> Head(it.lanes[l]).key]
           best == CHOOSE l \in R : \A m \in R \ {l} :
                      Before(Head(it.lanes[l]).key, Head(it.lanes[m]).key)
<1>1. /\ DOMAIN it.lanes = 1 .. 3 /\ \A l \in 1 .. 3 : it.lanes[l] \in Seq(E) /\ L[l] \in Seq(E)
      /\ it.lanes \in [1 .. 3 -> Seq(E)] /\ it.ok \in BOOLEAN
  BY DEF IterType, Lanes
<1>2. ASSUME NEW l \in 1 .. 3
      PROVE  /\ l \in R <=> pos[l] < Len(L[l])
             /\ l \in R => /\ Head(it.lanes[l]) = NextOf(L, pos, l)
                           /\ NextOf(L, pos, l) \in E /\ pos[l] + 1 \in 1 .. Len(L[l])
             /\ l \notin R => pos[l] = Len(L[l])
  <2>1. /\ pos[l] \in Nat /\ pos[l] <= Len(L[l]) /\ Len(it.lanes[l]) = Len(L[l]) - pos[l]
        /\ \A k \in 1 .. Len(L[l]) - pos[l] : it.lanes[l][k] = L[l][pos[l] + k]
    BY DEF Left
  <2>2. it.lanes[l] \in Seq(E) /\ L[l] \in Seq(E) /\ Len(L[l]) \in Nat
    BY <1>1
  <2>3. it.lanes[l] # <<>> <=> Len(it.lanes[l]) > 0
    BY <2>2
  <2>4. l \in R <=> pos[l] < Len(L[l])
    BY <1>1, <2>1, <2>2, <2>3
  <2>5. ASSUME l \in R
        PROVE  Head(it.lanes[l]) = NextOf(L, pos, l) /\ NextOf(L, pos, l) \in E /\ pos[l] + 1 \in 1 .. Len(L[l])
    <3>1. pos[l] + 1 \in 1 .. Len(L[l]) /\ 1 \in 1 .. Len(L[l]) - pos[l] /\ it.lanes[l] # <<>>
      BY <2>1, <2>2, <2>4, <2>5
    <3>2. Head(it.lanes[l]) = it.lanes[l][1]
      BY <2>2, <3>1
    <3>3. it.lanes[l][1] = L[l][pos[l] + 1]
      BY <2>1, <3>1
    <3>4. L[l][pos[l] + 1] \in E
      BY <2>2, <3>1
    <3> QED BY <3>1, <3>2, <3>3, <3>4 DEF NextOf
  <2> QED BY <2>1, <2>2, <2>4, <2>5
<1>3. R \in SUBSET (1 .. 3)
  BY <1>1
<1>4. CASE ~it.ok \/ R = {}
  <2>1. EventNext(it) = it
    BY <1>4 DEF EventNext
  <2>2. R = {} => \A l \in 1 .. 3 : pos[l] = Len(L[l])
    BY <1>2
  <2> QED BY <1>4, <2>1, <2>2
<1>5. CASE it.ok /\ R # {}
  <2> HIDE DEF R
  <2>1. \A l \in R : h[l] \in Keys /\ h[l] = NextOf(L, pos, l).key /\ h[l] = Head(it.lanes[l]).key
    BY <1>2, <1>3 DEF Lanes
  <2>2. \A l, m \in R : l # m => h[l] # h[m]
    <3> SUFFICES ASSUME NEW l \in R, NEW m \in R, l # m PROVE h[l] # h[m]
      OBVIOUS
    <3>1. l \in 1 .. 3 /\ m \in 1 .. 3 /\ pos[l] + 1 \in 1 .. Len(L[l]) /\ pos[m] + 1 \in 1 .. Len(L[m])
      BY <1>2, <1>3
    <3>2. L[l][pos[l] + 1].key # L[m][pos[m] + 1].key
      BY <3>1 DEF Lanes
    <3> HIDE DEF h
    <3> QED BY <2>1, <3>2 DEF NextOf
  <2> HIDE DEF h
  <2>3. \E b \in R : \A m \in R \ {b} : Before(h[b], h[m])
    BY <1>3, <1>5, <2>1, <2>2, OneIsFirst
  <2>4. best \in R /\ \A m \in R \ {best} : Before(Head(it.lanes[best]).key, Head(it.lanes[m]).key)
    BY <2>1, <2>3
  <2> DEFINE e == Head(it.lanes[best])
  <2>5. EventNext(it) = IF ~InOrder(it.last, e.key) THEN [it EXCEPT !.ok = FALSE]
                        ELSE [it EXCEPT !.lanes[best] = Tail(@), !.last = e.key, !.events = Append(@, e)]
    BY <1>5 DEF EventNext, R
  <2> HIDE DEF best
  <2>6. best \in 1 .. 3 /\ e = NextOf(L, pos, best) /\ pos[best] < Len(L[best])
    BY <1>2, <1>3, <2>4
  <2>7. \A m \in (1 .. 3) \ {best} : pos[m] < Len(L[m]) =>
           Before(NextOf(L, pos, best).key, NextOf(L, pos, m).key)
    BY <1>2, <2>4, <2>6
  <2>8. e \in E /\ e.key \in Keys /\ Tail(it.lanes[best]) \in Seq(E) /\ Append(it.events, e) \in Seq(E)
    <3>1. e \in E
      BY <1>2, <2>4, <2>6
    <3>2. it.events \in Seq(E) /\ it.lanes[best] \in Seq(E) /\ it.lanes[best] # <<>>
      BY <1>1, <2>4, <2>6 DEF IterType, R
    <3> HIDE DEF e
    <3> QED BY <3>1, <3>2 DEF Lanes
  <2> HIDE DEF e
  <2> DEFINE jt == EventNext(it)
  <2>9. CASE InOrder(it.last, e.key)
    <3> DEFINE ls == [it.lanes EXCEPT ![best] = Tail(@)]
               es == Append(it.events, e)
    <3>1. jt = [it EXCEPT !.lanes[best] = Tail(@), !.last = e.key, !.events = Append(@, e)]
      BY <2>5, <2>9
    <3>2. ls \in [1 .. 3 -> Seq(E)] /\ es \in Seq(E)
      BY <1>1, <2>6, <2>8
    <3>3. [it EXCEPT !.lanes[best] = Tail(@), !.last = e.key, !.events = Append(@, e)]
             = [it EXCEPT !.lanes = ls, !.last = e.key, !.events = es]
      OBVIOUS
    <3> HIDE DEF jt, ls, es
    <3>4. jt \in IterType(E) /\ jt.lanes = ls /\ jt.last = e.key /\ jt.events = es /\ jt.ok
      BY <1>5, <2>8, <3>1, <3>2, <3>3 DEF IterType
    <3>5. Emits(L, it, jt, pos, best)
      BY <2>6, <2>9, <3>4 DEF Emits, ls, es
    <3> QED BY <1>5, <2>6, <2>7, <3>4, <3>5 DEF jt, Smallest
  <2>10. CASE ~InOrder(it.last, e.key)
    <3>1. jt = [it EXCEPT !.ok = FALSE]
      BY <2>5, <2>10
    <3> HIDE DEF jt
    <3>2. /\ jt \in IterType(E) /\ ~jt.ok /\ jt.lanes = it.lanes /\ jt.last = it.last
          /\ jt.events = it.events
      BY <3>1 DEF IterType
    <3>3. Trips(L, it, jt, pos, best)
      BY <2>6, <2>10, <3>2 DEF Trips
    <3> QED BY <1>5, <2>6, <2>7, <3>2, <3>3 DEF jt, Smallest
  <2> QED BY <2>9, <2>10
<1> QED BY <1>1, <1>4, <1>5

\* Each event that is out comes from a place of a lane: src names it.  Events of
\* one lane come in its order, and none of the pos[l] first ones is missing.
Drawn(L, events, pos, src) ==
    /\ src \in [1 .. Len(events) -> [lane : 1 .. 3, at : Nat]]
    /\ \A i \in 1 .. Len(events) :
          /\ src[i].at \in 1 .. pos[src[i].lane]
          /\ events[i] = L[src[i].lane][src[i].at]
    /\ \A i, j \in 1 .. Len(events) :
          i < j /\ src[i].lane = src[j].lane => src[i].at < src[j].at
    /\ \A l \in 1 .. 3 : \A k \in 1 .. pos[l] :
          \E i \in 1 .. Len(events) : src[i].lane = l /\ src[i].at = k

InKeyOrder(events) ==
    \A i, j \in 1 .. Len(events) : i < j => ~Before(events[j].key, events[i].key)

LastIs(it) == it.last = IF it.events = <<>> THEN <<>> ELSE it.events[Len(it.events)].key

\* No lane ever goes back, and none is behind what came out last.
Sorted(lane) == \A i, j \in 1 .. Len(lane) : i < j => ~Before(lane[j].key, lane[i].key)
Ahead(L, last, pos) ==
    last = <<>> \/ \A l \in 1 .. 3 : \A k \in pos[l] + 1 .. Len(L[l]) : ~Before(L[l][k].key, last)

Onward(pos, b) == [pos EXCEPT ![b] = @ + 1]

\* One position moves on by one, the others stay.
LEMMA OnwardIs ==
    ASSUME NEW L, NEW pos \in [1 .. 3 -> Nat], NEW b, Smallest(L, pos, b)
    PROVE  /\ Onward(pos, b) \in [1 .. 3 -> Nat] /\ Onward(pos, b)[b] = pos[b] + 1
           /\ \A l \in 1 .. 3 : l # b => Onward(pos, b)[l] = pos[l]
           /\ b \in 1 .. 3 /\ pos[b] < Len(L[b])
  BY DEF Onward, Smallest

\* What is left of the lanes after the smallest head has gone out.
LEMMA LeftNext ==
    ASSUME NEW E, NEW L, Lanes(L, E), NEW it \in IterType(E), NEW jt, NEW pos, NEW b,
           Left(L, it, pos), Smallest(L, pos, b), Emits(L, it, jt, pos, b)
    PROVE  Left(L, jt, Onward(pos, b))
<1>1. pos \in [1 .. 3 -> Nat]
  BY DEF Left
<1> DEFINE p == Onward(pos, b)
<1>2. /\ p \in [1 .. 3 -> Nat] /\ p[b] = pos[b] + 1 /\ \A l \in 1 .. 3 : l # b => p[l] = pos[l]
      /\ b \in 1 .. 3 /\ pos[b] < Len(L[b])
  BY <1>1, OnwardIs
<1> HIDE DEF p
<1>3. it.lanes \in [1 .. 3 -> Seq(E)] /\ \A l \in 1 .. 3 : L[l] \in Seq(E) /\ Len(L[l]) \in Nat
  BY DEF Lanes, IterType
<1>4. jt.lanes = [it.lanes EXCEPT ![b] = Tail(@)]
  BY DEF Emits
<1>5. ASSUME NEW l \in 1 .. 3
      PROVE  /\ p[l] <= Len(L[l]) /\ Len(jt.lanes[l]) = Len(L[l]) - p[l]
             /\ \A k \in 1 .. Len(L[l]) - p[l] : jt.lanes[l][k] = L[l][p[l] + k]
  <2>1. /\ pos[l] \in Nat /\ pos[l] <= Len(L[l]) /\ Len(it.lanes[l]) = Len(L[l]) - pos[l]
        /\ \A k \in 1 .. Len(L[l]) - pos[l] : it.lanes[l][k] = L[l][pos[l] + k]
    BY DEF Left
  <2>2. CASE l # b
    <3>1. jt.lanes[l] = it.lanes[l] /\ p[l] = pos[l]
      BY <1>2, <1>3, <1>4, <2>2
    <3> QED BY <2>1, <3>1
  <2>3. CASE l = b
    <3>1. jt.lanes[l] = Tail(it.lanes[l]) /\ p[l] = pos[l] + 1
      BY <1>2, <1>3, <1>4, <2>3
    <3> DEFINE q == it.lanes[l]
    <3>a. pos[l] < Len(L[l]) /\ pos[l] \in Nat /\ Len(L[l]) \in Nat /\ Len(q) = Len(L[l]) - pos[l]
      BY <1>2, <1>3, <2>1, <2>3
    <3>b. q \in Seq(E)
      BY <1>3
    <3> HIDE DEF q
    <3>2. q \in Seq(E) /\ Len(q) = Len(L[l]) - pos[l] /\ Len(q) > 0 /\ Len(L[l]) \in Nat
      BY <3>a, <3>b
    <3>3. Len(Tail(q)) = Len(q) - 1 /\ \A k \in 1 .. Len(q) - 1 : Tail(q)[k] = q[k + 1]
      BY <3>2
    <3>4. ASSUME NEW k \in 1 .. Len(L[l]) - p[l] PROVE jt.lanes[l][k] = L[l][p[l] + k]
      <4>1. /\ k \in 1 .. Len(q) - 1 /\ k + 1 \in 1 .. Len(L[l]) - pos[l]
            /\ pos[l] + (k + 1) = p[l] + k
        <5> DEFINE x == Len(L[l])
                   y == pos[l]
                   z == p[l]
        <5>1. z = y + 1 /\ y \in Nat /\ x \in Nat /\ Len(q) = x - y /\ k \in 1 .. x - z
          BY <3>a, <3>1, <3>2
        <5> HIDE DEF x, y, z
        <5>2. k \in 1 .. Len(q) - 1 /\ k + 1 \in 1 .. x - y /\ y + (k + 1) = z + k
          BY <5>1
        <5> QED BY <5>2 DEF x, y, z
      <4>2. jt.lanes[l][k] = q[k + 1]
        BY <3>1, <3>3, <4>1 DEF q
      <4>3. q[k + 1] = L[l][pos[l] + (k + 1)]
        BY <2>1, <4>1 DEF q
      <4> QED BY <4>1, <4>2, <4>3
    <3>5. p[l] <= Len(L[l]) /\ Len(jt.lanes[l]) = Len(L[l]) - p[l]
      BY <2>1, <3>1, <3>2, <3>3 DEF q
    <3> QED BY <3>4, <3>5
  <2> QED BY <2>2, <2>3
<1> QED BY <1>2, <1>5 DEF Left, p

\* The place of the event that comes out is added to src.
Noted(src, n, pos, b) ==
    [i \in 1 .. n + 1 |-> IF i <= n THEN src[i] ELSE [lane |-> b, at |-> pos[b] + 1]]

\* The events given so far are still drawn from the lanes, one more of them.
LEMMA DrawnNext ==
    ASSUME NEW E, NEW L, Lanes(L, E), NEW it \in IterType(E), NEW jt, NEW pos, NEW b, NEW src,
           Left(L, it, pos), Smallest(L, pos, b), Emits(L, it, jt, pos, b),
           Drawn(L, it.events, pos, src)
    PROVE  Drawn(L, jt.events, Onward(pos, b), Noted(src, Len(it.events), pos, b))
<1>1. pos \in [1 .. 3 -> Nat]
  BY DEF Left
<1> DEFINE p == Onward(pos, b)
           n == Len(it.events)
           s == Noted(src, n, pos, b)
           e == NextOf(L, pos, b)
<1>2. /\ p \in [1 .. 3 -> Nat] /\ p[b] = pos[b] + 1 /\ \A l \in 1 .. 3 : l # b => p[l] = pos[l]
      /\ b \in 1 .. 3 /\ pos[b] < Len(L[b])
  BY <1>1, OnwardIs
<1>3. it.events \in Seq(E) /\ n \in Nat /\ jt.events = Append(it.events, e)
  BY DEF IterType, Emits
<1>4. e \in E /\ e = L[b][pos[b] + 1]
  BY <1>1, <1>2 DEF Lanes, NextOf
<1>5. /\ Len(jt.events) = n + 1 /\ jt.events[n + 1] = e
      /\ \A i \in 1 .. n : jt.events[i] = it.events[i]
  <2> HIDE DEF e
  <2> QED BY <1>3, <1>4
<1>6. /\ \A i \in 1 .. n : s[i] = src[i]
      /\ s[n + 1] = [lane |-> b, at |-> pos[b] + 1]
      /\ DOMAIN s = 1 .. n + 1 /\ s = [i \in 1 .. n + 1 |-> s[i]]
  BY <1>3 DEF Noted
<1>7. /\ src \in [1 .. n -> [lane : 1 .. 3, at : Nat]]
      /\ \A i \in 1 .. n : src[i].at \in 1 .. pos[src[i].lane] /\ it.events[i] = L[src[i].lane][src[i].at]
      /\ \A i, j \in 1 .. n : i < j /\ src[i].lane = src[j].lane => src[i].at < src[j].at
      /\ \A l \in 1 .. 3 : \A k \in 1 .. pos[l] : \E i \in 1 .. n : src[i].lane = l /\ src[i].at = k
  BY DEF Drawn
<1> HIDE DEF p, n, s, e
<1>8. \A i \in 1 .. n + 1 : i \in 1 .. n \/ i = n + 1
  BY <1>3
<1>9. s[n + 1].lane = b /\ s[n + 1].at = pos[b] + 1 /\ n + 1 \in 1 .. n + 1 /\ 1 .. n \subseteq 1 .. n + 1
  BY <1>3, <1>6
<1>10. s \in [1 .. n + 1 -> [lane : 1 .. 3, at : Nat]]
  <2>1. \A i \in 1 .. n + 1 : s[i] \in [lane : 1 .. 3, at : Nat]
    <3>1. pos[b] + 1 \in Nat
      BY <1>1, <1>2
    <3>2. s[n + 1] \in [lane : 1 .. 3, at : Nat]
      BY <1>2, <1>6, <3>1
    <3>3. \A i \in 1 .. n : s[i] \in [lane : 1 .. 3, at : Nat]
      BY <1>6, <1>7
    <3> QED BY <1>8, <3>2, <3>3
  <2> QED BY <1>6, <2>1
<1>11. ASSUME NEW i \in 1 .. n + 1
       PROVE  s[i].at \in 1 .. p[s[i].lane] /\ jt.events[i] = L[s[i].lane][s[i].at]
  <2>1. CASE i \in 1 .. n
    <3>1. s[i] = src[i] /\ src[i].lane \in 1 .. 3 /\ src[i].at \in 1 .. pos[src[i].lane]
      BY <1>6, <1>7, <2>1
    <3>2. pos[src[i].lane] \in Nat /\ p[src[i].lane] \in Nat /\ pos[src[i].lane] <= p[src[i].lane]
      BY <1>1, <1>2, <3>1
    <3>3. jt.events[i] = L[src[i].lane][src[i].at]
      BY <1>5, <1>7, <2>1
    <3> QED BY <3>1, <3>2, <3>3
  <2>2. CASE i = n + 1
    <3>1. s[i].lane = b /\ s[i].at = pos[b] + 1 /\ jt.events[i] = L[b][pos[b] + 1]
      BY <1>4, <1>5, <1>9, <2>2
    <3>2. p[s[i].lane] = pos[b] + 1 /\ pos[b] \in Nat
      BY <1>1, <1>2, <3>1
    <3> QED BY <3>1, <3>2
  <2> QED BY <1>8, <2>1, <2>2
<1>12. ASSUME NEW i \in 1 .. n + 1, NEW j \in 1 .. n + 1, i < j, s[i].lane = s[j].lane
       PROVE  s[i].at < s[j].at
  <2>1. i \in 1 .. n
    BY <1>3, <1>12
  <2>2. CASE j \in 1 .. n
    BY <1>6, <1>7, <1>12, <2>1, <2>2
  <2>3. CASE j = n + 1
    <3>0. s[i] = src[i] /\ s[j].lane = b
      BY <1>6, <1>9, <2>1, <2>3
    <3>1. s[i] = src[i] /\ src[i].lane = b /\ src[i].at \in 1 .. pos[b]
      BY <1>7, <1>12, <2>1, <3>0
    <3> QED BY <1>1, <1>2, <1>9, <2>3, <3>1, SMTT(60)
  <2> QED BY <1>8, <2>2, <2>3
<1>13. ASSUME NEW l \in 1 .. 3, NEW k \in 1 .. p[l]
       PROVE  \E i \in 1 .. n + 1 : s[i].lane = l /\ s[i].at = k
  <2>1. CASE k \in 1 .. pos[l]
    <3>1. PICK i \in 1 .. n : src[i].lane = l /\ src[i].at = k
      BY <1>7, <2>1
    <3> QED BY <1>6, <1>9, <3>1
  <2>2. CASE ~(k \in 1 .. pos[l])
    <3>1. l = b /\ k = pos[b] + 1
      BY <1>1, <1>2, <2>2
    <3> QED BY <1>9, <3>1
  <2> QED BY <2>1, <2>2
<1>14. Len(jt.events) = n + 1
  BY <1>5
<1>15. Drawn(L, jt.events, p, s)
  BY <1>10, <1>11, <1>12, <1>13, <1>14 DEF Drawn
<1> QED BY <1>15 DEF p, s, n

\* Not being below is transitive.
LEMMA NotBefore ==
    ASSUME NEW a \in Keys, NEW b \in Keys, NEW c \in Keys, ~Before(b, a), ~Before(c, b)
    PROVE  ~Before(c, a)
  BY KeysAreOrdered

\* The events given so far stay in key order.
LEMMA OrderNext ==
    ASSUME NEW E, NEW L, Lanes(L, E), NEW it \in IterType(E), NEW jt, NEW pos, NEW b,
           Left(L, it, pos), Smallest(L, pos, b), Emits(L, it, jt, pos, b),
           InKeyOrder(it.events), LastIs(it)
    PROVE  InKeyOrder(jt.events) /\ LastIs(jt)
<1> DEFINE n == Len(it.events)
           e == NextOf(L, pos, b)
<1>1. pos \in [1 .. 3 -> Nat] /\ b \in 1 .. 3 /\ pos[b] < Len(L[b])
  BY DEF Left, Smallest
<1>2. e \in E /\ \A d \in E : d.key \in Keys
  BY <1>1 DEF Lanes, NextOf
<1>3. /\ it.events \in Seq(E) /\ n \in Nat /\ jt.events = Append(it.events, e) /\ jt.last = e.key
      /\ it.last = <<>> \/ ~Before(e.key, it.last)
  BY DEF IterType, Emits, InOrder
<1> HIDE DEF e
<1>4. /\ Len(jt.events) = n + 1 /\ jt.events[n + 1] = e /\ jt.events # <<>>
      /\ \A i \in 1 .. n : jt.events[i] = it.events[i] /\ it.events[i] \in E
  BY <1>2, <1>3
<1>5. LastIs(jt)
  BY <1>3, <1>4 DEF LastIs
<1> HIDE DEF n
<1>6. ASSUME NEW i \in 1 .. n PROVE ~Before(e.key, it.events[i].key)
  <2>1. n \in 1 .. n /\ it.events # <<>>
    BY <1>3, <1>6 DEF n
  <2>2. it.last = it.events[n].key /\ it.last \in Keys
    BY <1>2, <1>4, <2>1 DEF LastIs, n
  <2>3. ~Before(e.key, it.last)
    <3>1. CASE it.last = <<>>
      <4>1. Keys = [1 .. 6 -> Int] /\ 1 \in 1 .. 6 /\ DOMAIN <<>> = {}
        BY DEF Keys
      <4>2. DOMAIN it.last = 1 .. 6
        BY <2>2 DEF Keys
      <4> QED BY <3>1, <4>1, <4>2
    <3> QED BY <1>3, <3>1
  <2>4. CASE i = n
    BY <2>2, <2>3, <2>4
  <2>5. CASE i < n
    <3>1. ~Before(it.events[n].key, it.events[i].key)
      BY <2>1, <2>5 DEF InKeyOrder, n
    <3> QED BY <1>2, <1>4, <2>1, <2>2, <2>3, <3>1, NotBefore
  <2> QED BY <1>3, <2>4, <2>5
<1>7. ASSUME NEW i \in 1 .. n + 1, NEW j \in 1 .. n + 1, i < j
      PROVE  ~Before(jt.events[j].key, jt.events[i].key)
  <2>1. i \in 1 .. n /\ (j \in 1 .. n \/ j = n + 1)
    BY <1>3, <1>7
  <2>2. CASE j \in 1 .. n
    BY <1>4, <1>7, <2>1, <2>2 DEF InKeyOrder, n
  <2>3. CASE j = n + 1
    BY <1>4, <1>6, <2>1, <2>3
  <2> QED BY <2>1, <2>2, <2>3
<1> QED BY <1>4, <1>5, <1>7 DEF InKeyOrder

\* Of sorted lanes, nothing left is below what went out last.
LEMMA AheadNext ==
    ASSUME NEW E, NEW L, Lanes(L, E), NEW pos \in [1 .. 3 -> Nat], NEW b, Smallest(L, pos, b),
           \A l \in 1 .. 3 : Sorted(L[l])
    PROVE  Ahead(L, NextOf(L, pos, b).key, Onward(pos, b))
<1> DEFINE p == Onward(pos, b)
           e == NextOf(L, pos, b)
<1>1. /\ p[b] = pos[b] + 1 /\ \A l \in 1 .. 3 : l # b => p[l] = pos[l]
      /\ b \in 1 .. 3 /\ pos[b] < Len(L[b])
  BY OnwardIs
<1>2. /\ \A l \in 1 .. 3 : /\ Len(L[l]) \in Nat
                           /\ \A k \in 1 .. Len(L[l]) : L[l][k] \in E
      /\ \A d \in E : d.key \in Keys
  BY DEF Lanes
<1>3. e = L[b][pos[b] + 1] /\ pos[b] + 1 \in 1 .. Len(L[b]) /\ e \in E
  <2>1. pos[b] + 1 \in 1 .. Len(L[b])
    BY <1>1, <1>2
  <2> QED BY <1>1, <1>2, <2>1 DEF NextOf
<1> HIDE DEF p, e
<1>4. ASSUME NEW l \in 1 .. 3, NEW k \in p[l] + 1 .. Len(L[l]) PROVE ~Before(L[l][k].key, e.key)
  <2>1. CASE l = b
    <3>1. k \in 1 .. Len(L[l]) /\ pos[b] + 1 < k
      BY <1>1, <1>2, <2>1
    <3>2. ~Before(L[b][k].key, L[b][pos[b] + 1].key)
      BY <1>1, <1>3, <2>1, <3>1 DEF Sorted
    <3> QED BY <1>3, <2>1, <3>2
  <2>2. CASE l # b
    <3>1. p[l] = pos[l] /\ pos[l] \in Nat
      BY <1>1, <2>2
    <3>2. /\ k \in 1 .. Len(L[l]) /\ pos[l] + 1 <= k /\ pos[l] + 1 \in 1 .. Len(L[l])
          /\ pos[l] < Len(L[l])
      BY <1>2, <3>1, SMTT(60)
    <3>3. Before(e.key, L[l][pos[l] + 1].key)
      BY <1>1, <2>2, <3>2 DEF Smallest, NextOf, e
    <3>4. e.key \in Keys /\ L[l][pos[l] + 1].key \in Keys /\ L[l][k].key \in Keys
      BY <1>2, <1>3, <3>2
    <3>5. ~Before(L[l][pos[l] + 1].key, e.key)
      BY <3>3, <3>4, KeysAreOrdered
    <3>6. CASE k = pos[l] + 1
      BY <3>5, <3>6
    <3>7. CASE pos[l] + 1 < k
      <4>1. ~Before(L[l][k].key, L[l][pos[l] + 1].key)
        BY <3>2, <3>7 DEF Sorted
      <4> QED BY <3>4, <3>5, <4>1, NotBefore
    <3> QED BY <3>1, <3>2, <3>6, <3>7
  <2> QED BY <2>1, <2>2
<1> QED BY <1>4 DEF Ahead, p, e

\* What n steps of the iterator make of the lanes.
Progress(L, E, it, pos, src, n) ==
    /\ it \in IterType(E) /\ Left(L, it, pos) /\ Drawn(L, it.events, pos, src)
    /\ InKeyOrder(it.events) /\ LastIs(it)
    /\ it.ok => pos[1] + pos[2] + pos[3] = n
    /\ (\A l \in 1 .. 3 : Sorted(L[l])) => it.ok /\ Ahead(L, it.last, pos)

NewIter(L) == [lanes |-> L, last |-> <<>>, events |-> <<>>, ok |-> TRUE]

\* Before the first call nothing is drawn.
LEMMA ProgressStarts ==
    ASSUME NEW E, NEW L, Lanes(L, E)
    PROVE  Progress(L, E, NewIter(L), [l \in 1 .. 3 |-> 0], <<>>, 0)
<1> DEFINE it == NewIter(L)
           pos == [l \in 1 .. 3 |-> 0]
<1>1. it.lanes = L /\ it.last = <<>> /\ it.events = <<>> /\ it.ok = TRUE
  BY DEF NewIter
<1>2. it \in IterType(E)
  BY DEF NewIter, IterType, Lanes
<1>3. \A l \in 1 .. 3 : Len(L[l]) \in Nat
  BY DEF Lanes
<1> HIDE DEF it
<1>4. Left(L, it, pos)
  BY <1>1, <1>3 DEF Left
<1>5. Len(<<>>) = 0 /\ 1 .. 0 = {}
  OBVIOUS
<1>6. Drawn(L, it.events, pos, <<>>)
  BY <1>1, <1>5 DEF Drawn
<1>7. InKeyOrder(it.events) /\ LastIs(it) /\ Ahead(L, it.last, pos)
  BY <1>1, <1>5 DEF InKeyOrder, LastIs, Ahead
<1>8. pos[1] + pos[2] + pos[3] = 0
  OBVIOUS
<1> HIDE DEF pos
<1>9. Progress(L, E, it, pos, <<>>, 0)
  BY <1>1, <1>2, <1>4, <1>6, <1>7, <1>8 DEF Progress
<1> QED BY <1>9 DEF it, pos

\* The events drawn so far are counted by the positions.
LEMMA SumNext ==
    ASSUME NEW L, NEW pos \in [1 .. 3 -> Nat], NEW b, Smallest(L, pos, b), NEW n, pos[1] + pos[2] + pos[3] = n
    PROVE  Onward(pos, b)[1] + Onward(pos, b)[2] + Onward(pos, b)[3] = n + 1
<1>1. b \in 1 .. 3
  BY DEF Smallest
<1>2. pos[1] \in Nat /\ pos[2] \in Nat /\ pos[3] \in Nat
  <2>1. 1 \in 1 .. 3 /\ 2 \in 1 .. 3 /\ 3 \in 1 .. 3
    OBVIOUS
  <2> QED BY <2>1
<1>3. /\ Onward(pos, b)[1] = pos[1] + IF b = 1 THEN 1 ELSE 0
      /\ Onward(pos, b)[2] = pos[2] + IF b = 2 THEN 1 ELSE 0
      /\ Onward(pos, b)[3] = pos[3] + IF b = 3 THEN 1 ELSE 0
  BY <1>1, <1>2 DEF Onward
<1> QED BY <1>1, <1>2, <1>3

\* Not every lane is at its end while fewer events than they hold were drawn.
LEMMA NotBelow ==
    \A n, a, b, c, x, y, z \in Nat :
       n < a + b + c => ~(x + y + z = n /\ x = a /\ y = b /\ z = c)
  OBVIOUS

\* Each call keeps the account of what was drawn.
LEMMA ProgressNext ==
    ASSUME NEW E, NEW L, Lanes(L, E), NEW it, NEW pos, NEW src, NEW n \in Nat,
           Progress(L, E, it, pos, src, n), n < Len(L[1]) + Len(L[2]) + Len(L[3])
    PROVE  \E p, s : Progress(L, E, EventNext(it), p, s, n + 1)
<1> DEFINE jt == EventNext(it)
<1>1. /\ it \in IterType(E) /\ Left(L, it, pos) /\ Drawn(L, it.events, pos, src)
      /\ InKeyOrder(it.events) /\ LastIs(it)
      /\ it.ok => pos[1] + pos[2] + pos[3] = n
      /\ (\A l \in 1 .. 3 : Sorted(L[l])) => it.ok /\ Ahead(L, it.last, pos)
  BY DEF Progress
<1>2. /\ jt \in IterType(E)
      /\ \/ jt = it /\ (~it.ok \/ \A l \in 1 .. 3 : pos[l] = Len(L[l]))
         \/ \E b \in 1 .. 3 : /\ it.ok /\ Smallest(L, pos, b)
                              /\ Trips(L, it, jt, pos, b) \/ Emits(L, it, jt, pos, b)
  BY <1>1, EventNextIs
<1> HIDE DEF jt
<1>3. pos \in [1 .. 3 -> Nat] /\ \A l \in 1 .. 3 : Len(L[l]) \in Nat
  BY <1>1, SMTT(60) DEF Left, Lanes
<1>4. /\ pos[1] \in Nat /\ pos[2] \in Nat /\ pos[3] \in Nat
      /\ Len(L[1]) \in Nat /\ Len(L[2]) \in Nat /\ Len(L[3]) \in Nat
  <2>1. 1 \in 1 .. 3 /\ 2 \in 1 .. 3 /\ 3 \in 1 .. 3
    OBVIOUS
  <2> QED BY <1>3, <2>1
<1>5. CASE jt = it /\ (~it.ok \/ \A l \in 1 .. 3 : pos[l] = Len(L[l]))
  <2>1. ~it.ok
    <3>1. ~(/\ pos[1] + pos[2] + pos[3] = n
            /\ pos[1] = Len(L[1]) /\ pos[2] = Len(L[2]) /\ pos[3] = Len(L[3]))
      BY <1>4, NotBelow
    <3> QED BY <1>1, <1>5, <3>1
  <2>2. Progress(L, E, jt, pos, src, n + 1)
    BY <1>1, <1>5, <2>1 DEF Progress
  <2> QED BY <2>2 DEF jt
<1>6. ASSUME NEW b \in 1 .. 3, it.ok, Smallest(L, pos, b), Trips(L, it, jt, pos, b)
      PROVE  \E p, s : Progress(L, E, jt, p, s, n + 1)
  <2>1. /\ ~jt.ok /\ jt.lanes = it.lanes /\ jt.last = it.last /\ jt.events = it.events
        /\ it.last # <<>> /\ Before(NextOf(L, pos, b).key, it.last)
    BY <1>6 DEF Trips, InOrder
  <2>2. ~\A l \in 1 .. 3 : Sorted(L[l])
    <3> SUFFICES ASSUME Ahead(L, it.last, pos) PROVE FALSE
      BY <1>1
    <3>1. pos[b] + 1 \in pos[b] + 1 .. Len(L[b])
      BY <1>3, <1>6 DEF Smallest
    <3> QED BY <2>1, <3>1 DEF Ahead, NextOf
  <2>3. Left(L, jt, pos) /\ Drawn(L, jt.events, pos, src) /\ InKeyOrder(jt.events) /\ LastIs(jt)
    BY <1>1, <2>1 DEF Left, LastIs
  <2>4. Progress(L, E, jt, pos, src, n + 1)
    BY <1>2, <2>1, <2>2, <2>3 DEF Progress
  <2> QED BY <2>4
<1>7. ASSUME NEW b \in 1 .. 3, it.ok, Smallest(L, pos, b), Emits(L, it, jt, pos, b)
      PROVE  \E p, s : Progress(L, E, jt, p, s, n + 1)
  <2> DEFINE p == Onward(pos, b)
             s == Noted(src, Len(it.events), pos, b)
  <2>1. Left(L, jt, p)
    BY <1>1, <1>7, LeftNext
  <2>2. Drawn(L, jt.events, p, s)
    BY <1>1, <1>7, DrawnNext
  <2>3. InKeyOrder(jt.events) /\ LastIs(jt)
    BY <1>1, <1>7, OrderNext
  <2>4. jt.ok /\ jt.last = NextOf(L, pos, b).key
    BY <1>7 DEF Emits
  <2>5. (\A l \in 1 .. 3 : Sorted(L[l])) => Ahead(L, jt.last, p)
    BY <1>3, <1>7, <2>4, AheadNext
  <2>6. p[1] + p[2] + p[3] = n + 1
    BY <1>1, <1>3, <1>4, <1>7, SumNext
  <2> HIDE DEF p, s
  <2>7. Progress(L, E, jt, p, s, n + 1)
    BY <1>2, <2>1, <2>2, <2>3, <2>4, <2>5, <2>6 DEF Progress
  <2> QED BY <2>7
<1> QED BY <1>2, <1>5, <1>6, <1>7 DEF jt

\* The recursive function of Events is there.
IterTrace(at, r, n) == at = [k \in 0 .. n |-> IF k = 0 THEN r ELSE EventNext(at[k - 1])]

\* The recursive function of Events exists.
LEMMA IterTraceExists ==
    ASSUME NEW r, NEW n \in Nat
    PROVE  \E at : IterTrace(at, r, n)
<1> DEFINE T == {m \in Nat : \E at : IterTrace(at, r, m)}
<1>1. 0 \in T
  <2> DEFINE at == [k \in 0 .. 0 |-> r]
  <2>1. IterTrace(at, r, 0)
    BY DEF IterTrace
  <2> QED BY <2>1
<1>2. ASSUME NEW m \in T PROVE m + 1 \in T
  <2>1. PICK at : IterTrace(at, r, m)
    OBVIOUS
  <2> DEFINE bt == [k \in 0 .. m + 1 |-> IF k <= m THEN at[k] ELSE EventNext(at[m])]
  <2>2. IterTrace(bt, r, m + 1)
    <3>1. m \in Nat /\ \A k \in 0 .. m : at[k] = IF k = 0 THEN r ELSE EventNext(at[k - 1])
      BY <2>1 DEF IterTrace
    <3>2. ASSUME NEW k \in 0 .. m + 1 PROVE bt[k] = IF k = 0 THEN r ELSE EventNext(bt[k - 1])
      <4>1. CASE k = 0
        BY <3>1, <4>1
      <4>2. CASE k # 0 /\ k <= m
        <5>1. k - 1 \in 0 .. m /\ k \in 0 .. m
          BY <3>1, <4>2
        <5>2. bt[k] = at[k] /\ bt[k - 1] = at[k - 1]
          BY <3>1, <5>1
        <5> QED BY <3>1, <4>2, <5>1, <5>2
      <4>3. CASE k = m + 1
        <5>1. bt[k] = EventNext(at[m]) /\ bt[m] = at[m] /\ k - 1 = m
          BY <3>1, <4>3
        <5> QED BY <3>1, <4>3, <5>1
      <4> QED BY <3>1, <4>1, <4>2, <4>3
    <3> HIDE DEF bt
    <3>3. bt = [k \in 0 .. m + 1 |-> bt[k]]
      BY DEF bt
    <3> QED BY <3>2, <3>3 DEF IterTrace
  <2> HIDE DEF bt
  <2> QED BY <2>2
<1>3. n \in T
  <2> HIDE DEF T
  <2>1. T \in SUBSET Nat
    BY DEF T
  <2> QED BY <1>1, <1>2, <2>1, Induction
<1> QED BY <1>3

\* The stream that is read: where its events come from, in which order they are,
\* and when all of them are there.
Merged(L, it, src) ==
    /\ \E pos \in [1 .. 3 -> Nat] :
          /\ Drawn(L, it.events, pos, src)
          /\ it.ok => \A l \in 1 .. 3 : pos[l] = Len(L[l])
    /\ InKeyOrder(it.events)
    /\ (\A l \in 1 .. 3 : Sorted(L[l])) => it.ok

ThreeLanes(gaps, book, trades) == <<GapLane(gaps), BookLane(book), TradeLane(trades)>>

\* EventIter read to its end draws the lanes out each in its order, one key after
\* the other, all of them unless it trips; and over lanes that are sorted it never
\* trips.
THEOREM StreamIsMerge ==
    ASSUME NEW gaps, NEW book, NEW trades, NEW E, Lanes(ThreeLanes(gaps, book, trades), E)
    PROVE  LET it == Events(gaps, book, trades)
           IN /\ it.ok \in BOOLEAN /\ it.events \in Seq(E)
              /\ \E src : Merged(ThreeLanes(gaps, book, trades), it, src)
<1> DEFINE L == ThreeLanes(gaps, book, trades)
           count == Len(L[1]) + Len(L[2]) + Len(L[3])
           r == NewIter(L)
           iter == CHOOSE at : IterTrace(at, r, count)
<1>1. Events(gaps, book, trades) = iter[count]
  BY DEF Events, ThreeLanes, NewIter, IterTrace
<1>2. Lanes(L, E)
  OBVIOUS
<1> HIDE DEF L
<1>3. \A l \in 1 .. 3 : Len(L[l]) \in Nat
  BY <1>2 DEF Lanes
<1>4. /\ Len(L[1]) \in Nat /\ Len(L[2]) \in Nat /\ Len(L[3]) \in Nat
      /\ count \in Nat
  <2>1. 1 \in 1 .. 3 /\ 2 \in 1 .. 3 /\ 3 \in 1 .. 3
    OBVIOUS
  <2>2. Len(L[1]) \in Nat /\ Len(L[2]) \in Nat /\ Len(L[3]) \in Nat
    BY <1>3, <2>1
  <2>3. \A a, b, c \in Nat : a + b + c \in Nat
    OBVIOUS
  <2> QED BY <2>2, <2>3
<1> HIDE DEF count, r
<1>5. IterTrace(iter, r, count)
  BY <1>4, IterTraceExists
<1>6. \A k \in 0 .. count : iter[k] = IF k = 0 THEN r ELSE EventNext(iter[k - 1])
  <2> HIDE DEF iter
  <2> QED BY <1>5 DEF IterTrace
<1> HIDE DEF iter
<1> DEFINE T == {n \in Nat : n <= count => \E pos, src : Progress(L, E, iter[n], pos, src, n)}
<1>7. 0 \in T
  <2>1. iter[0] = r
    BY <1>4, <1>6
  <2>2. Progress(L, E, iter[0], [l \in 1 .. 3 |-> 0], <<>>, 0)
    BY <1>2, <2>1, ProgressStarts DEF r
  <2> QED BY <2>2
<1>8. ASSUME NEW n \in T PROVE n + 1 \in T
  <2> SUFFICES ASSUME n + 1 <= count
               PROVE  \E pos, src : Progress(L, E, iter[n + 1], pos, src, n + 1)
    OBVIOUS
  <2>1. n \in Nat /\ n + 1 \in 0 .. count /\ n + 1 # 0 /\ (n + 1) - 1 = n /\ n < count /\ n <= count
    BY <1>4
  <2>2. PICK pos, src : Progress(L, E, iter[n], pos, src, n)
    BY <2>1
  <2>3. iter[n + 1] = EventNext(iter[n])
    BY <1>6, <2>1
  <2>4. n < Len(L[1]) + Len(L[2]) + Len(L[3])
    BY <2>1 DEF count
  <2> QED BY <1>2, <2>1, <2>2, <2>3, <2>4, ProgressNext
<1>9. count \in T
  <2> HIDE DEF T
  <2>1. T \in SUBSET Nat
    BY DEF T
  <2> QED BY <1>4, <1>7, <1>8, <2>1, Induction
<1>10. PICK pos, src : Progress(L, E, iter[count], pos, src, count)
  BY <1>4, <1>9
<1> DEFINE it == iter[count]
<1>11. /\ it \in IterType(E) /\ Left(L, it, pos) /\ Drawn(L, it.events, pos, src)
       /\ InKeyOrder(it.events)
       /\ it.ok => pos[1] + pos[2] + pos[3] = count
       /\ (\A l \in 1 .. 3 : Sorted(L[l])) => it.ok
  BY <1>10 DEF Progress
<1> HIDE DEF it
<1>12. it.ok \in BOOLEAN /\ it.events \in Seq(E)
  BY <1>11 DEF IterType
<1>13. pos \in [1 .. 3 -> Nat] /\ \A l \in 1 .. 3 : pos[l] <= Len(L[l])
  BY <1>11 DEF Left
<1>14. pos[1] + pos[2] + pos[3] = count => \A l \in 1 .. 3 : pos[l] = Len(L[l])
  <2>1. 1 \in 1 .. 3 /\ 2 \in 1 .. 3 /\ 3 \in 1 .. 3
    OBVIOUS
  <2>2. /\ pos[1] \in Nat /\ pos[2] \in Nat /\ pos[3] \in Nat
        /\ pos[1] <= Len(L[1]) /\ pos[2] <= Len(L[2]) /\ pos[3] <= Len(L[3])
    BY <1>13, <2>1
  <2>3. \A a, b, c, x, y, z \in Nat :
           x <= a /\ y <= b /\ z <= c /\ x + y + z = a + b + c => x = a /\ y = b /\ z = c
    OBVIOUS
  <2>4. pos[1] + pos[2] + pos[3] = count => pos[1] = Len(L[1]) /\ pos[2] = Len(L[2]) /\ pos[3] = Len(L[3])
    <3>1. count = Len(L[1]) + Len(L[2]) + Len(L[3])
      BY DEF count
    <3> DEFINE a == Len(L[1])
               b == Len(L[2])
               c == Len(L[3])
               x == pos[1]
               y == pos[2]
               z == pos[3]
    <3>2. /\ a \in Nat /\ b \in Nat /\ c \in Nat /\ x \in Nat /\ y \in Nat /\ z \in Nat
          /\ x <= a /\ y <= b /\ z <= c /\ count = a + b + c
      BY <1>4, <2>2, <3>1
    <3> HIDE DEF a, b, c, x, y, z
    <3>3. x + y + z = count => x = a /\ y = b /\ z = c
      BY <2>3, <3>2
    <3> QED BY <3>3 DEF a, b, c, x, y, z
  <2>5. \A l \in 1 .. 3 : l = 1 \/ l = 2 \/ l = 3
    OBVIOUS
  <2> QED BY <2>4, <2>5
<1>15. Merged(L, it, src)
  BY <1>11, <1>13, <1>14 DEF Merged
<1> QED BY <1>1, <1>12, <1>15 DEF it, L

(***************************************************************************)
(* The three lanes of a directory.                                         *)
(***************************************************************************)
\* The gap lane: an event for each row.
GapRow == [ts : Int]

\* The gap lane has one event for each row, at its time.
LEMMA GapLaneIs ==
    ASSUME NEW gaps \in Seq(GapRow)
    PROVE  /\ Len(gaps) \in Nat /\ Len(GapLane(gaps)) = Len(gaps)
           /\ GapLane(gaps) = [i \in 1 .. Len(gaps) |-> GapLane(gaps)[i]]
           /\ \A i \in 1 .. Len(gaps) :
                 /\ gaps[i].ts \in Int /\ GapLane(gaps)[i].ts = gaps[i].ts
                 /\ GapLane(gaps)[i].kind = "gap"
                 /\ GapLane(gaps)[i].key \in Keys /\ GapLane(gaps)[i].key[1] = gaps[i].ts
                 /\ GapLane(gaps)[i].key[4] = 0 /\ GapLane(gaps)[i].key[6] = i
<1> DEFINE lane == GapLane(gaps)
<1>1. Len(gaps) \in Nat /\ DOMAIN gaps = 1 .. Len(gaps)
  OBVIOUS
<1>2. lane = [i \in 1 .. Len(gaps) |->
                [kind |-> "gap", key |-> Key(gaps[i].ts, 0, 0, 0, i), ts |-> gaps[i].ts]]
  BY <1>1 DEF GapLane
<1> HIDE DEF lane
<1>3. Len(lane) = Len(gaps) /\ lane = [i \in 1 .. Len(gaps) |-> lane[i]]
  BY <1>1, <1>2
<1>4. ASSUME NEW i \in 1 .. Len(gaps)
      PROVE  /\ gaps[i].ts \in Int /\ lane[i].ts = gaps[i].ts /\ lane[i].kind = "gap"
             /\ lane[i].key \in Keys /\ lane[i].key[1] = gaps[i].ts
             /\ lane[i].key[4] = 0 /\ lane[i].key[6] = i
  <2>0. gaps[i] \in GapRow
    OBVIOUS
  <2>1. gaps[i].ts \in Int /\ i \in Int
    BY <2>0 DEF GapRow
  <2>2. lane[i].ts = gaps[i].ts /\ lane[i].kind = "gap" /\ lane[i].key = Key(gaps[i].ts, 0, 0, 0, i)
    BY <1>2
  <2>3. /\ Key(gaps[i].ts, 0, 0, 0, i) \in Keys /\ Key(gaps[i].ts, 0, 0, 0, i)[1] = gaps[i].ts
        /\ Key(gaps[i].ts, 0, 0, 0, i)[4] = 0 /\ Key(gaps[i].ts, 0, 0, 0, i)[6] = i
    <3> DEFINE t == gaps[i].ts
    <3> HIDE DEF t
    <3>1. /\ Key(t, 0, 0, 0, i) \in Keys /\ Key(t, 0, 0, 0, i)[1] = t
          /\ Key(t, 0, 0, 0, i)[4] = 0 /\ Key(t, 0, 0, 0, i)[6] = i
      <4>1. t \in Int /\ i \in Int
        BY <2>1 DEF t
      <4> QED BY <4>1 DEF Key, Keys
    <3> QED BY <3>1 DEF t
  <2> QED BY <2>1, <2>2, <2>3
<1> QED BY <1>1, <1>3, <1>4 DEF lane

\* Rows in the order of their times are a sorted lane.
LEMMA GapLaneSorted ==
    ASSUME NEW gaps \in Seq(GapRow), \A i, j \in 1 .. Len(gaps) : i < j => gaps[i].ts <= gaps[j].ts
    PROVE  Sorted(GapLane(gaps))
<1> DEFINE lane == GapLane(gaps)
<1>1. /\ Len(lane) = Len(gaps) /\ Len(gaps) \in Nat
      /\ \A i \in 1 .. Len(gaps) : gaps[i].ts \in Int
  BY GapLaneIs
<1>2. \A i \in 1 .. Len(gaps) : lane[i].key = Key(gaps[i].ts, 0, 0, 0, i)
  BY DEF GapLane
<1> HIDE DEF lane
<1>3. ASSUME NEW i \in 1 .. Len(gaps), NEW j \in 1 .. Len(gaps), i < j
      PROVE  ~Before(lane[j].key, lane[i].key)
  <2> DEFINE a == gaps[i].ts
             b == gaps[j].ts
  <2>1. a \in Int /\ b \in Int /\ a <= b /\ i \in Int /\ j \in Int
    BY <1>1, <1>3
  <2> HIDE DEF a, b
  <2>2. ~Less(<<b, 1, 0, 0, 0, j>>, <<a, 1, 0, 0, 0, i>>)
    BY <1>3, <2>1 DEF Less
  <2>3. <<b, 1, 0, 0, 0, j>> \in Keys /\ <<a, 1, 0, 0, 0, i>> \in Keys
    BY <2>1 DEF Keys
  <2>4. lane[j].key = <<b, 1, 0, 0, 0, j>> /\ lane[i].key = <<a, 1, 0, 0, 0, i>>
    BY <1>2 DEF Key, a, b
  <2> QED BY <2>2, <2>3, <2>4, BeforeIsLess
<1> QED BY <1>1, <1>3 DEF Sorted, lane

\* The trade lane has a length.
LEMMA TradeLaneSorted ==
    ASSUME NEW rows, Table(rows)
    PROVE  /\ Len(TradeLane(rows)) \in Nat
           /\ TradeLane(rows) = [n \in 1 .. Len(TradeLane(rows)) |-> TradeLane(rows)[n]]
           /\ Sorted(TradeLane(rows))
           /\ \A n \in 1 .. Len(TradeLane(rows)) :
                 /\ TradeLane(rows)[n].key \in Keys /\ TradeLane(rows)[n].key[4] = 2
                 /\ TradeLane(rows)[n].kind = "trade"
                 /\ TradeLane(rows)[n].ts = TradeLane(rows)[n].key[1]
<1> DEFINE lane == TradeLane(rows)
           S == {TradeEvent(r) : r \in DedupTrades(rows)}
           F == {TradeEventAt(rows, i) : i \in DOMAIN rows}
<1>1. lane = SortByKey(S) /\ S = F
  BY DEF TradeLane, DedupTrades, TradeEventAt
<1>2. IsFiniteSet(F)
  <2> DEFINE f == [i \in DOMAIN rows |-> TradeEventAt(rows, i)]
  <2>1. f \in Surjection(DOMAIN rows, F)
    BY DEF Surjection
  <2>2. IsFiniteSet(DOMAIN rows)
    BY DEF Table
  <2> HIDE DEF f, F
  <2> QED BY <2>1, <2>2, FS_Surjection
<1>3. Cardinality(S) \in Nat
  <2> HIDE DEF S, F
  <2> QED BY <1>1, <1>2, FS_CardinalityType
<1>4. lane = [n \in 1 .. Cardinality(S) |-> lane[n]]
  <2>1. lane = SortByKey(S)
    BY <1>1
  <2> HIDE DEF lane, S
  <2> QED BY <2>1 DEF SortByKey
<1>5. /\ ToSet(lane) = F
      /\ \A i, j \in DOMAIN lane : i < j => Before(lane[i].key, lane[j].key)
  BY TradeLaneIs
<1> HIDE DEF S
<1>6. ASSUME NEW i \in DOMAIN rows
      PROVE  LET e == TradeEventAt(rows, i)
             IN e.key \in Keys /\ e.key[4] = 2 /\ e.kind = "trade" /\ e.ts = e.key[1]
  <2> DEFINE r == OneCopy(rows, rows[i].id)
  <2>1. TradeEventAt(rows, i).key \in Keys
    BY EventIs
  <2>2. TradeEventAt(rows, i) = TradeEvent(r)
    BY DEF TradeEventAt
  <2> HIDE DEF r
  <2>3. /\ TradeEvent(r).key = TradeKey(r, r.row) /\ TradeEvent(r).kind = "trade"
        /\ TradeEvent(r).ts = TradeEffective(r)
    BY DEF TradeEvent
  <2>4. TradeKey(r, r.row)[4] = 2 /\ TradeKey(r, r.row)[1] = TradeEffective(r)
    BY DEF TradeKey, Key
  <2> QED BY <2>1, <2>2, <2>3, <2>4
<1> HIDE DEF lane
<1>7. Len(lane) = Cardinality(S) /\ DOMAIN lane = 1 .. Cardinality(S)
  BY <1>3, <1>4
<1>8. \A n \in 1 .. Len(lane) : lane[n] \in F
  BY <1>5, <1>7 DEF ToSet
<1>9. \A n \in 1 .. Len(lane) : /\ lane[n].key \in Keys /\ lane[n].key[4] = 2
                                /\ lane[n].kind = "trade" /\ lane[n].ts = lane[n].key[1]
  BY <1>6, <1>8
<1>10. Sorted(lane)
  BY <1>5, <1>7, <1>9, KeysAreOrdered DEF Sorted
<1> QED BY <1>3, <1>4, <1>7, <1>9, <1>10 DEF lane

\* The book lane: rows with slots in S.
BookRows(S) == [event_idx : Nat, ts : Int, seq : Nat, snapshot : BOOLEAN, slot : S, qty : Int]

\* The event that a row of the book table starts.
LEMMA BookEventIs ==
    ASSUME NEW S, NEW rows \in Seq(BookRows(S)), NEW i \in 1 .. Len(rows)
    PROVE  LET e == BookEvent(rows, i)
           IN /\ rows[i] \in BookRows(S)
              /\ e.kind = IF rows[i].snapshot THEN "snapshot" ELSE "delta"
              /\ e.key \in Keys /\ e.key[1] = rows[i].ts /\ e.key[2] = IF rows[i].seq = 0 THEN 1 ELSE 0
              /\ e.key[3] = rows[i].seq /\ e.key[4] = 1
              /\ e.ts = rows[i].ts /\ e.ts = e.key[1] /\ e.idx = rows[i].event_idx
              /\ e.levels = {<<rows[j].slot, rows[j].qty>> :
                               j \in {k \in Group(rows, i) : rows[k].slot # NoSlot}}
<1> DEFINE e == BookEvent(rows, i)
           r == rows[i]
<1>1. r \in BookRows(S)
  OBVIOUS
<1>2. r.ts \in Int /\ r.seq \in Nat /\ r.event_idx \in Nat /\ i \in Int
  BY <1>1 DEF BookRows
<1>3. /\ e.kind = IF r.snapshot THEN "snapshot" ELSE "delta"
      /\ e.ts = r.ts /\ e.idx = r.event_idx
      /\ e.key = Key(r.ts, r.seq, 1, r.event_idx, i)
      /\ e.levels = {<<rows[j].slot, rows[j].qty>> :
                       j \in {k \in Group(rows, i) : rows[k].slot # NoSlot}}
  BY DEF BookEvent
<1> DEFINE k == Key(r.ts, r.seq, 1, r.event_idx, i)
<1>4. /\ k \in Keys /\ k[1] = r.ts /\ k[2] = IF r.seq = 0 THEN 1 ELSE 0
      /\ k[3] = r.seq /\ k[4] = 1
  <2>1. r.ts \in Int /\ r.seq \in Int /\ r.event_idx \in Int /\ i \in Int /\ 1 \in Int
    BY <1>2
  <2> DEFINE t == r.ts
             q == r.seq
             x == r.event_idx
             f == IF q = 0 THEN 1 ELSE 0
  <2>2. t \in Int /\ q \in Int /\ x \in Int /\ f \in Int
    BY <2>1
  <2>3. k = <<t, f, q, 1, x, i>>
    BY DEF Key
  <2> HIDE DEF t, q, x, f, k
  <2>4. /\ k \in Keys /\ k[1] = t /\ k[2] = f /\ k[3] = q /\ k[4] = 1
    BY <2>1, <2>2, <2>3 DEF Keys
  <2> QED BY <2>4 DEF t, q, f
<1> HIDE DEF k
<1>5. e.key = k
  BY <1>3 DEF k
<1> QED BY <1>1, <1>3, <1>4, <1>5

Starts(rows) == {i \in DOMAIN rows : StartsEvent(rows, i)}

\* The rows at which an event starts are a finite set of row numbers.
LEMMA StartsAre ==
    ASSUME NEW R, NEW rows \in Seq(R)
    PROVE  /\ DOMAIN rows = 1 .. Len(rows) /\ Len(rows) \in Nat
           /\ Starts(rows) \in SUBSET (1 .. Len(rows)) /\ Starts(rows) \in SUBSET Int
           /\ IsFiniteSet(Starts(rows)) /\ Cardinality(Starts(rows)) \in Nat
<1>1. /\ DOMAIN rows = 1 .. Len(rows) /\ Len(rows) \in Nat
      /\ Starts(rows) \in SUBSET (1 .. Len(rows)) /\ Starts(rows) \in SUBSET Int
  BY DEF Starts
<1>2. IsFiniteSet(1 .. Len(rows))
  BY <1>1, FS_Interval
<1> HIDE DEF Starts
<1>3. IsFiniteSet(Starts(rows))
  BY <1>1, <1>2, FS_Subset
<1> QED BY <1>1, <1>3, FS_CardinalityType

\* The book lane has one event for each row at which one starts, in row order.
LEMMA BookLaneIs ==
    ASSUME NEW R, NEW rows \in Seq(R)
    PROVE  /\ Len(BookLane(rows)) = Cardinality(Starts(rows)) /\ Cardinality(Starts(rows)) \in Nat
           /\ BookLane(rows) = [n \in 1 .. Cardinality(Starts(rows)) |-> BookLane(rows)[n]]
           /\ \A n \in 1 .. Cardinality(Starts(rows)) :
                 /\ Ascending(Starts(rows))[n] \in 1 .. Len(rows)
                 /\ BookLane(rows)[n] = BookEvent(rows, Ascending(Starts(rows))[n])
<1> DEFINE at == Ascending(Starts(rows))
           lane == BookLane(rows)
<1>1. /\ DOMAIN rows = 1 .. Len(rows) /\ Starts(rows) \in SUBSET (1 .. Len(rows))
      /\ Starts(rows) \in SUBSET Int
      /\ IsFiniteSet(Starts(rows)) /\ Cardinality(Starts(rows)) \in Nat
  BY StartsAre
<1>2. lane = [n \in DOMAIN at |-> BookEvent(rows, at[n])]
  BY DEF BookLane, Starts
<1>3. at \in [1 .. Cardinality(Starts(rows)) -> Starts(rows)]
  BY <1>1, AscendingIs
<1> HIDE DEF at, lane
<1>4. lane = [n \in 1 .. Cardinality(Starts(rows)) |-> BookEvent(rows, at[n])]
  BY <1>2, <1>3
<1>5. Len(lane) = Cardinality(Starts(rows)) /\ lane = [n \in 1 .. Cardinality(Starts(rows)) |-> lane[n]]
  BY <1>1, <1>4
<1>6. \A n \in 1 .. Cardinality(Starts(rows)) :
         at[n] \in 1 .. Len(rows) /\ lane[n] = BookEvent(rows, at[n])
  BY <1>1, <1>3, <1>4
<1> QED BY <1>1, <1>5, <1>6 DEF at, lane

\* The rows that one line of the log adds to the table.
OneEvent(rows, new) ==
    /\ new # <<>>
    /\ \/ Len(new) = 1 /\ ~new[1].snapshot
       \/ \A j \in 1 .. Len(new) : new[j].snapshot /\ new[j].event_idx = new[1].event_idx
    /\ \A i \in 1 .. Len(rows) : rows[i].event_idx # new[1].event_idx

\* They are one event more at the end of the lane.
LEMMA BookLaneGrows ==
    ASSUME NEW R, NEW rows \in Seq(R), NEW new \in Seq(R), OneEvent(rows, new)
    PROVE  LET all == rows \o new
               lane == BookLane(rows)
           IN /\ Len(BookLane(all)) = Len(lane) + 1
              /\ \A n \in 1 .. Len(lane) : BookLane(all)[n] = lane[n]
              /\ BookLane(all)[Len(lane) + 1] = BookEvent(all, Len(rows) + 1)
              /\ Group(all, Len(rows) + 1) = Len(rows) + 1 .. Len(rows) + Len(new)
<1> DEFINE all == rows \o new
           m == Len(rows) + 1
<1>1. /\ all \in Seq(R) /\ Len(all) = Len(rows) + Len(new) /\ Len(rows) \in Nat /\ Len(new) \in Nat
      /\ \A i \in 1 .. Len(rows) : all[i] = rows[i]
      /\ \A i \in Len(rows) + 1 .. Len(rows) + Len(new) : all[i] = new[i - Len(rows)]
  OBVIOUS
<1>2. Len(new) # 0
  BY DEF OneEvent
<1> HIDE DEF all
<1>3. DOMAIN all = 1 .. Len(rows) + Len(new) /\ DOMAIN rows = 1 .. Len(rows)
  BY <1>1
<1>4. ASSUME NEW i \in 1 .. Len(rows) PROVE StartsEvent(all, i) <=> StartsEvent(rows, i)
  <2>1. CASE i = 1
    BY <2>1 DEF StartsEvent
  <2>2. CASE i # 1
    <3>1. i - 1 \in 1 .. Len(rows)
      BY <1>1, <2>2
    <3>2. all[i] = rows[i] /\ all[i - 1] = rows[i - 1]
      BY <1>1, <3>1
    <3> QED BY <3>2 DEF StartsEvent
  <2> QED BY <2>1, <2>2
<1>5. ASSUME NEW j \in 1 .. Len(new) PROVE StartsEvent(all, Len(rows) + j) <=> j = 1
  <2>1. /\ Len(rows) + j \in Len(rows) + 1 .. Len(rows) + Len(new)
        /\ (Len(rows) + j) - Len(rows) = j
    BY <1>1
  <2>2. all[Len(rows) + j] = new[j]
    BY <1>1, <2>1
  <2>3. CASE j = 1
    <3>1. CASE Len(rows) = 0
      BY <2>3, <3>1 DEF StartsEvent
    <3>2. CASE Len(rows) # 0
      <4>1. (Len(rows) + j) - 1 = Len(rows) /\ Len(rows) \in 1 .. Len(rows)
        BY <1>1, <2>3, <3>2
      <4>2. all[(Len(rows) + j) - 1] = rows[Len(rows)]
        BY <1>1, <4>1
      <4>3. rows[Len(rows)].event_idx # new[1].event_idx
        BY <4>1 DEF OneEvent
      <4> QED BY <2>2, <2>3, <4>2, <4>3 DEF StartsEvent
    <3> QED BY <3>1, <3>2
  <2>4. CASE j # 1
    <3>1. /\ j - 1 \in 1 .. Len(new) /\ 1 \in 1 .. Len(new) /\ Len(new) # 1
          /\ (Len(rows) + j) - 1 \in Len(rows) + 1 .. Len(rows) + Len(new)
          /\ ((Len(rows) + j) - 1) - Len(rows) = j - 1 /\ Len(rows) + j # 1
      BY <1>1, <2>4
    <3>2. all[(Len(rows) + j) - 1] = new[j - 1]
      BY <1>1, <3>1
    <3>3. /\ new[j].snapshot /\ new[j - 1].snapshot
          /\ new[j].event_idx = new[j - 1].event_idx
      BY <3>1 DEF OneEvent
    <3> QED BY <2>2, <2>4, <3>1, <3>2, <3>3 DEF StartsEvent
  <2> QED BY <2>3, <2>4
<1>6. ASSUME NEW i \in m .. Len(rows) + Len(new) PROVE StartsEvent(all, i) <=> i = m
  <2>1. i - Len(rows) \in 1 .. Len(new) /\ Len(rows) + (i - Len(rows)) = i /\ (i - Len(rows) = 1 <=> i = m)
    BY <1>1
  <2> QED BY <1>5, <2>1
<1>7. \A i \in 1 .. Len(rows) + Len(new) : i \in 1 .. Len(rows) \/ i \in m .. Len(rows) + Len(new)
  BY <1>1
<1>8. m \in m .. Len(rows) + Len(new) /\ m \in 1 .. Len(rows) + Len(new) /\ 1 .. Len(rows) \subseteq 1 .. Len(rows) + Len(new)
  BY <1>1, <1>2
<1>9. Starts(all) = Starts(rows) \cup {m}
  <2>1. ASSUME NEW i \in Starts(all) PROVE i \in Starts(rows) \cup {m}
    <3>1. i \in 1 .. Len(rows) + Len(new) /\ StartsEvent(all, i)
      BY <1>3 DEF Starts
    <3> QED BY <1>3, <1>4, <1>6, <1>7, <3>1 DEF Starts
  <2>2. ASSUME NEW i \in Starts(rows) PROVE i \in Starts(all)
    BY <1>3, <1>4, <1>8 DEF Starts
  <2>3. m \in Starts(all)
    BY <1>3, <1>6, <1>8 DEF Starts
  <2> QED BY <2>1, <2>2, <2>3
<1> DEFINE c == Cardinality(Starts(rows))
<1>10. /\ Starts(rows) \in SUBSET Int /\ IsFiniteSet(Starts(rows)) /\ m \in Int
       /\ \A i \in Starts(rows) : i < m
  <2>1. Starts(rows) \in SUBSET (1 .. Len(rows)) /\ Starts(rows) \in SUBSET Int /\ IsFiniteSet(Starts(rows))
    BY StartsAre
  <2> QED BY <1>1, <2>1
<1>11. /\ Cardinality(Starts(all)) = c + 1
       /\ \A n \in 1 .. c : Ascending(Starts(all))[n] = Ascending(Starts(rows))[n]
       /\ Ascending(Starts(all))[c + 1] = m
  <2> HIDE DEF m, c
  <2>1. /\ Cardinality(Starts(rows) \cup {m}) = Cardinality(Starts(rows)) + 1
        /\ \A n \in 1 .. Cardinality(Starts(rows)) :
              Ascending(Starts(rows) \cup {m})[n] = Ascending(Starts(rows))[n]
        /\ Ascending(Starts(rows) \cup {m})[Cardinality(Starts(rows)) + 1] = m
    BY <1>10, AscendingGrows
  <2> QED BY <1>9, <2>1 DEF c
<1>12. /\ Len(BookLane(rows)) = c /\ c \in Nat /\ Len(BookLane(all)) = Cardinality(Starts(all))
       /\ \A n \in 1 .. c : /\ Ascending(Starts(rows))[n] \in 1 .. Len(rows)
                            /\ BookLane(rows)[n] = BookEvent(rows, Ascending(Starts(rows))[n])
       /\ \A n \in 1 .. Cardinality(Starts(all)) :
             BookLane(all)[n] = BookEvent(all, Ascending(Starts(all))[n])
  BY <1>1, BookLaneIs
\* The events that were there are as they were: the new rows begin a group.
<1>13. ASSUME NEW i \in 1 .. Len(rows) PROVE BookEvent(all, i) = BookEvent(rows, i)
  <2>1. ASSUME NEW j \in i .. Len(rows) + Len(new), \A k \in i + 1 .. j : ~StartsEvent(all, k)
        PROVE  j \in i .. Len(rows)
    <3>1. i \in Int /\ j \in Int /\ (j \in i .. Len(rows) \/ m \in i + 1 .. j)
      BY <1>1, <2>1
    <3>2. StartsEvent(all, m)
      BY <1>6, <1>8
    <3> QED BY <2>1, <3>1, <3>2
  <2>2. ASSUME NEW j \in i .. Len(rows)
        PROVE  (\A k \in i + 1 .. j : ~StartsEvent(all, k)) <=> (\A k \in i + 1 .. j : ~StartsEvent(rows, k))
    <3>1. \A k \in i + 1 .. j : k \in 1 .. Len(rows)
      BY <1>1, <2>2
    <3> QED BY <1>4, <3>1
  <2>3. i .. Len(rows) \subseteq i .. Len(rows) + Len(new)
    BY <1>1
  <2>4. Group(all, i) = Group(rows, i)
    <3>1. Group(all, i) = {j \in i .. Len(rows) + Len(new) : \A k \in i + 1 .. j : ~StartsEvent(all, k)}
      BY <1>1 DEF Group
    <3>2. Group(rows, i) = {j \in i .. Len(rows) : \A k \in i + 1 .. j : ~StartsEvent(rows, k)}
      BY DEF Group
    <3> QED BY <2>1, <2>2, <2>3, <3>1, <3>2
  <2>5. \A j \in Group(rows, i) : all[j] = rows[j]
    <3>1. Group(rows, i) \subseteq 1 .. Len(rows)
      BY <1>1 DEF Group
    <3> QED BY <1>1, <3>1
  <2>6. {<<all[j].slot, all[j].qty>> : j \in {k \in Group(all, i) : all[k].slot # NoSlot}}
          = {<<rows[j].slot, rows[j].qty>> : j \in {k \in Group(rows, i) : rows[k].slot # NoSlot}}
    BY <2>4, <2>5
  <2>7. all[i] = rows[i]
    BY <1>1
  <2> QED BY <2>6, <2>7 DEF BookEvent
<1>14. Group(all, m) = m .. Len(rows) + Len(new)
  <2>1. Group(all, m) = {j \in m .. Len(rows) + Len(new) : \A k \in m + 1 .. j : ~StartsEvent(all, k)}
    BY <1>1 DEF Group
  <2>2. ASSUME NEW j \in m .. Len(rows) + Len(new), NEW k \in m + 1 .. j PROVE ~StartsEvent(all, k)
    <3>1. k \in m .. Len(rows) + Len(new) /\ k # m
      BY <1>1
    <3> QED BY <1>6, <3>1
  <2> QED BY <2>1, <2>2
<1>15. \A n \in 1 .. c : BookLane(all)[n] = BookLane(rows)[n]
  <2> SUFFICES ASSUME NEW n \in 1 .. c PROVE BookLane(all)[n] = BookLane(rows)[n]
    OBVIOUS
  <2>1. n \in 1 .. Cardinality(Starts(all))
    BY <1>11, <1>12
  <2> QED BY <1>11, <1>12, <1>13, <2>1
<1>16. BookLane(all)[c + 1] = BookEvent(all, m)
  <2>1. c + 1 \in 1 .. Cardinality(Starts(all))
    BY <1>11, <1>12
  <2> QED BY <1>11, <1>12, <2>1
<1> HIDE DEF c, m
<1>17. Len(BookLane(all)) = Len(BookLane(rows)) + 1
  BY <1>11, <1>12
<1> QED BY <1>12, <1>14, <1>15, <1>16, <1>17 DEF all, m

\* The keys of each lane say which lane it is.
LaneKeys(L) ==
    \A l \in 1 .. 3 :
       /\ Len(L[l]) \in Nat
       /\ \A k \in 1 .. Len(L[l]) :
             L[l][k].key \in Keys /\ L[l][k].ts = L[l][k].key[1] /\ L[l][k].key[4] = l - 1

\* The lanes of gap rows, book rows and a table of trades are three lanes that
\* EventIter can read.
LEMMA LanesAre ==
    ASSUME NEW S, NEW gaps \in Seq(GapRow), NEW rows \in Seq(BookRows(S)), NEW trades, Table(trades),
           NEW L, L = ThreeLanes(gaps, rows, trades)
    PROVE  /\ L[1] = GapLane(gaps) /\ L[2] = BookLane(rows) /\ L[3] = TradeLane(trades)
           /\ LaneKeys(L) /\ \E E : Lanes(L, E)
<1>1. L[1] = GapLane(gaps) /\ L[2] = BookLane(rows) /\ L[3] = TradeLane(trades) /\ DOMAIN L = 1 .. 3
  BY DEF ThreeLanes
<1> DEFINE Good(l) ==
             /\ Len(L[l]) \in Nat /\ L[l] = [k \in 1 .. Len(L[l]) |-> L[l][k]]
             /\ \A k \in 1 .. Len(L[l]) : /\ L[l][k].key \in Keys /\ L[l][k].ts = L[l][k].key[1]
                                          /\ L[l][k].key[4] = l - 1
<1>2. Good(1)
  <2> DEFINE a == GapLane(gaps)
  <2>1. /\ Len(a) \in Nat /\ a = [k \in 1 .. Len(a) |-> a[k]]
        /\ \A k \in 1 .. Len(a) : a[k].key \in Keys /\ a[k].ts = a[k].key[1] /\ a[k].key[4] = 0
    BY GapLaneIs
  <2> HIDE DEF a
  <2>2. L[1] = a /\ 1 - 1 = 0
    BY <1>1 DEF a
  <2> QED BY <2>1, <2>2
<1>3. Good(2)
  <2> DEFINE a == BookLane(rows)
  <2>1. /\ Len(a) \in Nat /\ a = [k \in 1 .. Len(a) |-> a[k]]
        /\ \A k \in 1 .. Len(a) : \E i \in 1 .. Len(rows) : a[k] = BookEvent(rows, i)
    BY BookLaneIs
  <2>2. \A k \in 1 .. Len(a) : a[k].key \in Keys /\ a[k].ts = a[k].key[1] /\ a[k].key[4] = 1
    BY <2>1, BookEventIs
  <2> HIDE DEF a
  <2>3. L[2] = a /\ 2 - 1 = 1
    BY <1>1 DEF a
  <2> QED BY <2>1, <2>2, <2>3
<1>4. Good(3)
  <2> DEFINE a == TradeLane(trades)
  <2>1. /\ Len(a) \in Nat /\ a = [k \in 1 .. Len(a) |-> a[k]]
        /\ \A k \in 1 .. Len(a) : a[k].key \in Keys /\ a[k].ts = a[k].key[1] /\ a[k].key[4] = 2
    BY TradeLaneSorted
  <2> HIDE DEF a
  <2>2. L[3] = a /\ 3 - 1 = 2
    BY <1>1 DEF a
  <2> QED BY <2>1, <2>2
<1>5. \A l \in 1 .. 3 : Good(l)
  <2>1. \A l \in 1 .. 3 : l = 1 \/ l = 2 \/ l = 3
    OBVIOUS
  <2> HIDE DEF Good
  <2> QED BY <1>2, <1>3, <1>4, <2>1
<1> DEFINE E == UNION {{L[l][k] : k \in 1 .. Len(L[l])} : l \in 1 .. 3}
<1>6. \A l \in 1 .. 3 : L[l] \in Seq(E)
  <2> SUFFICES ASSUME NEW l \in 1 .. 3 PROVE L[l] \in Seq(E)
    OBVIOUS
  <2>1. \A k \in 1 .. Len(L[l]) : L[l][k] \in E
    OBVIOUS
  <2>2. Len(L[l]) \in Nat /\ L[l] = [k \in 1 .. Len(L[l]) |-> L[l][k]]
    BY <1>5
  <2> HIDE DEF E
  <2> DEFINE a == L[l]
             n == Len(a)
  <2>3. n \in Nat /\ a = [k \in 1 .. n |-> a[k]] /\ \A k \in 1 .. n : a[k] \in E
    BY <2>1, <2>2
  <2> HIDE DEF a, n
  <2>4. a \in [1 .. n -> E]
    BY <2>3
  <2>5. a \in Seq(E)
    BY <2>3, <2>4
  <2> QED BY <2>5 DEF a
<1>7. \A e \in E : e.key \in Keys
  BY <1>5
<1>8. ASSUME NEW l \in 1 .. 3, NEW m \in 1 .. 3, l # m,
             NEW i \in 1 .. Len(L[l]), NEW j \in 1 .. Len(L[m]), L[l][i].key = L[m][j].key
      PROVE  FALSE
  <2>1. L[l][i].key[4] = l - 1 /\ L[m][j].key[4] = m - 1
    BY <1>5
  <2> QED BY <1>8, <2>1
<1> HIDE DEF E
<1>9. L \in [1 .. 3 -> Seq(E)]
  <2>1. L = [l \in 1 .. 3 |-> L[l]]
    BY DEF ThreeLanes
  <2> QED BY <1>6, <2>1
<1>10. Lanes(L, E)
  BY <1>7, <1>8, <1>9 DEF Lanes
<1>11. LaneKeys(L)
  BY <1>5 DEF LaneKeys
<1> QED BY <1>1, <1>10, <1>11
=============================================================================
