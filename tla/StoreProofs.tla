---------------------------- MODULE StoreProofs ----------------------------
(***************************************************************************)
(* What several proofs share: induction, and what the operations of Store  *)
(* do to a log and to the counts of its lines, for any set L of lines.     *)
(***************************************************************************)
EXTENDS Store, Integers, FiniteSetTheorems, SequenceTheorems, TLAPS

(***************************************************************************)
(* Induction on the natural numbers, for a set.  A least number outside of *)
(* T would give a least interval 1 .. n with n outside of T.               *)
(***************************************************************************)
LEMMA Induction ==
    ASSUME NEW T \in SUBSET Nat, 0 \in T, \A n \in T : n + 1 \in T
    PROVE  \A n \in Nat : n \in T
<1> SUFFICES ASSUME NEW m \in Nat, m \notin T PROVE FALSE
  OBVIOUS
<1> DEFINE U == {1 .. n : n \in Nat \ T}
           R == StrictSubsetOrdering(Nat)
<1>1. U \subseteq FiniteSubsetsOf(Nat) /\ U # {}
  <2>1. \A n \in Nat : IsFiniteSet(1 .. n) /\ 1 .. n \in SUBSET Nat
    BY FS_Interval
  <2>2. 1 .. m \in U
    OBVIOUS
  <2>3. U \subseteq FiniteSubsetsOf(Nat)
    BY <2>1 DEF FiniteSubsetsOf
  <2> QED BY <2>2, <2>3
<1>2. IsWellFoundedOn(R, FiniteSubsetsOf(Nat))
  BY FS_StrictSubsetOrderingWellFounded
<1>3. PICK x \in U : \A y \in U : ~(<<y, x>> \in R)
  <2> HIDE DEF U, R
  <2> QED BY <1>1, <1>2, WFMin
<1>4. PICK n \in Nat \ T : x = 1 .. n
  OBVIOUS
<1>5. n - 1 \in Nat \ T
  OBVIOUS
<1>6. 1 .. n - 1 \in U
  BY <1>5
<1>7. <<1 .. n - 1, x>> \in R
  BY <1>4, <1>5 DEF StrictSubsetOrdering
<1> QED BY <1>3, <1>6, <1>7

\* A record that may be appended to a log with lines of L.
Storable(L, r) ==
    /\ r \in L /\ r.kind \notin {"torn", "bad"}
    /\ Line("torn", r.s) \in L /\ Line("bad", r.s) \in L

\* One more line at the end.
LEMMA LineAdded ==
    ASSUME NEW L, NEW lines \in Seq(L), NEW l \in L
    PROVE  LET out == Append(lines, l)
           IN /\ out \in Seq(L) /\ out # <<>> /\ Last(out) = l
              /\ Readable(out) = Readable(lines)
                    \cup (IF l.kind \in {"torn", "bad"} THEN {} ELSE {Len(lines) + 1})
              /\ Spoiled(out) = Spoiled(lines)
                    \cup (IF l.kind = "bad" THEN {Len(lines) + 1} ELSE {})
<1> DEFINE out == Append(lines, l)
<1>1. /\ out \in Seq(L) /\ Len(out) = Len(lines) + 1
      /\ DOMAIN out = 1 .. Len(lines) + 1 /\ DOMAIN lines = 1 .. Len(lines)
      /\ \A i \in 1 .. Len(lines) : out[i] = lines[i]
      /\ out[Len(lines) + 1] = l
  OBVIOUS
<1> HIDE DEF out
<1>2. Len(lines) \in Nat
  OBVIOUS
<1>3. out # <<>> /\ Last(out) = l
  BY <1>1, <1>2 DEF Last
<1>4. Readable(out) = Readable(lines)
          \cup (IF l.kind \in {"torn", "bad"} THEN {} ELSE {Len(lines) + 1})
  BY <1>1, <1>2 DEF Readable
<1>5. Spoiled(out) = Spoiled(lines)
          \cup (IF l.kind = "bad" THEN {Len(lines) + 1} ELSE {})
  BY <1>1, <1>2 DEF Spoiled
<1> QED BY <1>1, <1>3, <1>4, <1>5 DEF out

\* A record glued to a torn tail spoils that line.
LEMMA LineGlued ==
    ASSUME NEW L, NEW lines \in Seq(L), EndsTorn(lines),
           NEW l \in L, l.kind = "bad"
    PROVE  LET out == Append(Front(lines), l)
           IN /\ out \in Seq(L)
              /\ Readable(out) = Readable(lines)
              /\ Spoiled(out) = Spoiled(lines) \cup {Len(lines)}
              /\ Len(lines) \notin Spoiled(lines)
<1> DEFINE out == Append(Front(lines), l)
           n   == Len(lines)
<1>1. n \in Nat \ {0} /\ lines[n].kind = "torn"
  BY DEF EndsTorn, Last
<1>2. /\ Front(lines) \in Seq(L) /\ Len(Front(lines)) = n - 1
      /\ \A i \in 1 .. n - 1 : Front(lines)[i] = lines[i]
  <2>1. \A i \in 1 .. n - 1 : lines[i] \in L
    BY <1>1
  <2>2. n - 1 \in Int /\ 1 \in Int
    BY <1>1
  <2> HIDE DEF n
  <2>3. /\ SubSeq(lines, 1, n - 1) \in Seq(L)
        /\ Len(SubSeq(lines, 1, n - 1)) = IF 1 <= n - 1 THEN n - 1 - 1 + 1 ELSE 0
        /\ \A i \in 1 .. n - 1 - 1 + 1 : SubSeq(lines, 1, n - 1)[i] = lines[1 + i - 1]
    BY <2>1, <2>2, SubSeqProperties
  <2>4. /\ Len(SubSeq(lines, 1, n - 1)) = n - 1
        /\ \A i \in 1 .. n - 1 : SubSeq(lines, 1, n - 1)[i] = lines[i]
    BY <1>1, <2>3
  <2>5. Front(lines) = SubSeq(lines, 1, n - 1)
    BY DEF Front, n
  <2> QED BY <2>3, <2>4, <2>5
<1>3. /\ out \in Seq(L) /\ DOMAIN out = 1 .. n /\ DOMAIN lines = 1 .. n
      /\ \A i \in 1 .. n - 1 : out[i] = lines[i]
      /\ out[n] = l
  <2> DEFINE front == Front(lines)
  <2> HIDE DEF front
  <2>1. front \in Seq(L) /\ Len(front) = n - 1
    BY <1>2 DEF front
  <2>2. /\ Append(front, l) \in Seq(L) /\ Len(Append(front, l)) = Len(front) + 1
        /\ \A i \in 1 .. Len(front) : Append(front, l)[i] = front[i]
        /\ Append(front, l)[Len(front) + 1] = l
    BY <2>1
  <2> QED BY <1>1, <1>2, <2>1, <2>2 DEF front
<1> HIDE DEF out, n
<1>4. Readable(out) = Readable(lines)
  BY <1>1, <1>3 DEF Readable
<1>5. Spoiled(out) = Spoiled(lines) \cup {n} /\ n \notin Spoiled(lines)
  BY <1>1, <1>3 DEF Spoiled
<1> QED BY <1>3, <1>4, <1>5 DEF out, n

\* The counts are of finite sets of positions within the log.
LEMMA Countable ==
    ASSUME NEW L, NEW lines \in Seq(L)
    PROVE  /\ IsFiniteSet(Readable(lines)) /\ IsFiniteSet(Spoiled(lines))
           /\ Cardinality(Readable(lines)) \in Nat
           /\ Cardinality(Spoiled(lines)) \in Nat
           /\ Len(lines) + 1 \notin Readable(lines) \cup Spoiled(lines)
<1>1. IsFiniteSet(1 .. Len(lines))
  BY FS_Interval
<1>2. Readable(lines) \subseteq 1 .. Len(lines) /\ Spoiled(lines) \subseteq 1 .. Len(lines)
  BY DEF Readable, Spoiled
<1>3. IsFiniteSet(Readable(lines)) /\ IsFiniteSet(Spoiled(lines))
  BY <1>1, <1>2, FS_Subset
<1>4. Len(lines) + 1 \notin Readable(lines) \cup Spoiled(lines)
  BY <1>2
<1> QED BY <1>3, <1>4, FS_CardinalityType

\* An append that returned Ok adds one line that is readable, or spoils one.
LEMMA AppendCounts ==
    ASSUME NEW L, NEW lines \in Seq(L), NEW r, Storable(L, r),
           NEW out \in Appended(lines, r)
    PROVE  /\ out \in Seq(L)
           /\ \/ /\ Cardinality(Readable(out)) = Cardinality(Readable(lines)) + 1
                 /\ Cardinality(Spoiled(out)) = Cardinality(Spoiled(lines))
                 /\ ~EndsTorn(out)
              \/ /\ EndsTorn(lines)
                 /\ Cardinality(Readable(out)) = Cardinality(Readable(lines))
                 /\ Cardinality(Spoiled(out)) = Cardinality(Spoiled(lines)) + 1
<1>1. /\ r \in L /\ r.kind \notin {"torn", "bad"} /\ Line("bad", r.s) \in L
  BY DEF Storable
<1>2. /\ IsFiniteSet(Readable(lines)) /\ IsFiniteSet(Spoiled(lines))
      /\ Len(lines) + 1 \notin Readable(lines)
  BY Countable
<1>3. CASE out = Append(lines, r)
  <2>1. /\ out \in Seq(L) /\ Last(out) = r
        /\ Readable(out) = Readable(lines) \cup {Len(lines) + 1}
        /\ Spoiled(out) = Spoiled(lines)
    <3>1. /\ Append(lines, r) \in Seq(L) /\ Last(Append(lines, r)) = r
          /\ Readable(Append(lines, r)) = Readable(lines)
                \cup (IF r.kind \in {"torn", "bad"} THEN {} ELSE {Len(lines) + 1})
          /\ Spoiled(Append(lines, r)) = Spoiled(lines)
                \cup (IF r.kind = "bad" THEN {Len(lines) + 1} ELSE {})
      BY <1>1, LineAdded, Zenon
    <3> QED BY <1>1, <1>3, <3>1
  <2>2. Cardinality(Readable(out)) = Cardinality(Readable(lines)) + 1
    BY <1>2, <2>1, FS_AddElement
  <2> QED BY <1>1, <2>1, <2>2 DEF EndsTorn
<1>4. CASE EndsTorn(lines) /\ out = Append(Front(lines), Line("bad", r.s))
  <2>1. /\ out \in Seq(L)
        /\ Readable(out) = Readable(lines)
        /\ Spoiled(out) = Spoiled(lines) \cup {Len(lines)}
        /\ Len(lines) \notin Spoiled(lines)
    BY <1>1, <1>4, LineGlued DEF Line
  <2>2. Cardinality(Spoiled(out)) = Cardinality(Spoiled(lines)) + 1
    BY <1>2, <2>1, FS_AddElement
  <2> QED BY <1>4, <2>1, <2>2
<1> QED BY <1>3, <1>4 DEF Appended

\* A line cut short is counted nowhere.
LEMMA CutCounts ==
    ASSUME NEW L, NEW lines \in Seq(L), NEW r, Storable(L, r)
    PROVE  LET out == Cut(lines, r)
           IN /\ out \in Seq(L)
              /\ Readable(out) = Readable(lines) /\ Spoiled(out) = Spoiled(lines)
<1>1. Line("torn", r.s) \in L /\ Line("torn", r.s).kind = "torn"
  BY DEF Storable, Line
<1>2. CASE EndsTorn(lines)
  BY <1>2 DEF Cut
<1>3. CASE ~EndsTorn(lines)
  <2>1. Cut(lines, r) = Append(lines, Line("torn", r.s))
    BY <1>3 DEF Cut
  <2> DEFINE l == Line("torn", r.s)
  <2> HIDE DEF l
  <2>2. l \in L /\ l.kind = "torn"
    BY <1>1 DEF l
  <2>3. /\ Append(lines, l) \in Seq(L)
        /\ Readable(Append(lines, l)) = Readable(lines)
               \cup (IF l.kind \in {"torn", "bad"} THEN {} ELSE {Len(lines) + 1})
        /\ Spoiled(Append(lines, l)) = Spoiled(lines)
               \cup (IF l.kind = "bad" THEN {Len(lines) + 1} ELSE {})
    BY <2>2, LineAdded, Zenon
  <2>4. /\ Readable(Append(lines, l)) = Readable(lines)
        /\ Spoiled(Append(lines, l)) = Spoiled(lines)
    BY <2>2, <2>3
  <2> QED BY <2>1, <2>3, <2>4 DEF l
<1> QED BY <1>2, <1>3

\* What a failed append may leave.
LEMMA FailedCounts ==
    ASSUME NEW L, NEW lines \in Seq(L), NEW r, Storable(L, r), NEW tear \in BOOLEAN,
           NEW out \in AppendFailed(lines, r, tear)
    PROVE  /\ out \in Seq(L)
           /\ \/ /\ Cardinality(Readable(out)) = Cardinality(Readable(lines))
                 /\ Cardinality(Spoiled(out)) = Cardinality(Spoiled(lines))
              \/ out \in Appended(lines, r)
<1>1. CASE out = lines
  BY <1>1
<1>2. CASE out \in Appended(lines, r)
  BY <1>2, AppendCounts
<1>3. CASE out = Cut(lines, r)
  BY <1>3, CutCounts
<1> QED BY <1>1, <1>2, <1>3 DEF AppendFailed

(***************************************************************************)
(* A report, `rep`, that counts the lines of a directory of logs, `dir`.   *)
(***************************************************************************)
Counts(rep, dir, s) == rep[s] - Cardinality(Readable(dir[s]))
Exact(rep, dir, s) == ~EndsTorn(dir[s]) /\ Counts(rep, dir, s) = 0

\* A record that is counted and appended.
LEMMA CountedAppend ==
    ASSUME NEW L, NEW S, NEW dir \in [S -> Seq(L)], NEW rep \in [S -> Nat],
           NEW r, Storable(L, r), r.s \in S,
           \A s \in S : Exact(rep, dir, s),
           NEW lines \in Appended(dir[r.s], r)
    PROVE  \A s \in S : Exact([rep EXCEPT ![r.s] = @ + 1], [dir EXCEPT ![r.s] = lines], s)
<1> DEFINE rep1 == [rep EXCEPT ![r.s] = @ + 1]
           dir1 == [dir EXCEPT ![r.s] = lines]
<1>1. dir[r.s] \in Seq(L) /\ ~EndsTorn(dir[r.s])
  BY DEF Exact
<1>2. /\ Cardinality(Readable(lines)) = Cardinality(Readable(dir[r.s])) + 1
      /\ ~EndsTorn(lines)
  BY <1>1, AppendCounts
<1>3. \A s \in S : Cardinality(Readable(dir[s])) \in Nat
  BY Countable
<1> SUFFICES ASSUME NEW s \in S
             PROVE  ~EndsTorn(dir1[s]) /\ rep1[s] - Cardinality(Readable(dir1[s])) = 0
  BY DEF Exact, Counts
<1>4. rep[s] - Cardinality(Readable(dir[s])) = 0 /\ ~EndsTorn(dir[s]) /\ rep[s] \in Nat
  BY DEF Exact, Counts
<1>5. CASE s = r.s
  <2>1. dir1[s] = lines /\ rep1[s] = rep[s] + 1
    BY <1>5
  <2> QED BY <1>2, <1>3, <1>4, <1>5, <2>1
<1>6. CASE s # r.s
  <2>1. dir1[s] = dir[s] /\ rep1[s] = rep[s]
    BY <1>6
  <2> QED BY <1>4, <2>1
<1> QED BY <1>5, <1>6

\* A record that is counted and whose append fails: the report may be ahead of
\* the logs, by that record.
OneAhead(rep, dir, S) ==
    \A s \in S :
        \/ Counts(rep, dir, s) = 0
        \/ Counts(rep, dir, s) = 1 /\ \A q \in S \ {s} : Counts(rep, dir, q) = 0

LEMMA CountedFailed ==
    ASSUME NEW L, NEW S, NEW dir \in [S -> Seq(L)], NEW rep \in [S -> Nat],
           NEW r, Storable(L, r), r.s \in S,
           \A s \in S : Exact(rep, dir, s),
           NEW tear \in BOOLEAN, NEW lines \in AppendFailed(dir[r.s], r, tear)
    PROVE  OneAhead([rep EXCEPT ![r.s] = @ + 1], [dir EXCEPT ![r.s] = lines], S)
<1> DEFINE rep1 == [rep EXCEPT ![r.s] = @ + 1]
           dir1 == [dir EXCEPT ![r.s] = lines]
<1>1. dir[r.s] \in Seq(L) /\ ~EndsTorn(dir[r.s])
  BY DEF Exact
<1>2. \/ Cardinality(Readable(lines)) = Cardinality(Readable(dir[r.s]))
      \/ Cardinality(Readable(lines)) = Cardinality(Readable(dir[r.s])) + 1
  BY <1>1, FailedCounts, AppendCounts
<1>3. Cardinality(Readable(dir[r.s])) \in Nat
  BY Countable
<1>4. ASSUME NEW s \in S, s # r.s PROVE Counts(rep1, dir1, s) = 0
  <2>1. dir1[s] = dir[s] /\ rep1[s] = rep[s] /\ Counts(rep, dir, s) = 0
    BY <1>4 DEF Exact
  <2> QED BY <2>1 DEF Counts
<1>5. Counts(rep1, dir1, r.s) \in {0, 1}
  <2>1. dir1[r.s] = lines /\ rep1[r.s] = rep[r.s] + 1
    OBVIOUS
  <2>2. rep[r.s] \in Nat /\ rep[r.s] - Cardinality(Readable(dir[r.s])) = 0
    BY DEF Exact, Counts
  <2> QED BY <1>2, <1>3, <2>1, <2>2 DEF Counts
<1> HIDE DEF rep1, dir1
<1>6. OneAhead(rep1, dir1, S)
  BY <1>4, <1>5 DEF OneAhead
<1> QED BY <1>6 DEF rep1, dir1
=============================================================================
