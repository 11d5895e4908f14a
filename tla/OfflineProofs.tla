---------------------------- MODULE OfflineProofs ----------------------------
(***************************************************************************)
(* The verdicts of the verify engine are sound for every window, every     *)
(* book and every log of any length, and the running totals of the book    *)
(* are the sums of its levels.                                             *)
(***************************************************************************)
EXTENDS Offline, MergeProofs

\* What the lines of the log, the entries of the window, the checks and the rows
\* of the report are.
Record ==
    [kind : {"book"}, ts : Int, state : [Slots -> Nat], snapshot : BOOLEAN]
        \cup [kind : {"gap"}, ts : Int]
        \cup [kind : {"verify"}, ts : Int, rest : RestBooks, at : Int]
Entry == [ts : Int, state : [Slots -> Nat]]
Check == [ts : Int, rest : RestBooks]
Outcomes == {"matched", "mismatch", "skipped_gap", "truncated"}
RowType == [ts : Int, outcome : Outcomes, lag : Int]
Engine == [window : Seq(Entry), pending : Seq(Check), gap_pending : BOOLEAN, rows : Seq(RowType)]
BookType == [levels : [Slots -> Nat], total : [Sides -> Int], underflows : Nat]

Typed ==
    /\ phase \in {"orderbook", "trade", "written"} /\ now \in Int /\ seq \in Nat
    /\ book \in BookType /\ event_idx \in Nat /\ snap_ts \subseteq Int
    /\ engine \in Engine /\ Len(engine.pending) <= 1
    /\ log \in Seq(Record)

---------------------------------------------------------------------------
(* The greatest and the least member of a set.                             *)

\* A finite set of integers has a greatest member.
LEMMA Greatest ==
    ASSUME NEW S \in SUBSET Int, IsFiniteSet(S), S # {}
    PROVE  \E x \in S : \A y \in S : y <= x
<1> DEFINE P(n) == \A U \in SUBSET Int : IsFiniteSet(U) /\ Cardinality(U) = n + 1
                      => \E x \in U : \A y \in U : y <= x
           T == {n \in Nat : P(n)}
<1>1. 0 \in T
  <2> SUFFICES ASSUME NEW U \in SUBSET Int, IsFiniteSet(U), Cardinality(U) = 1
               PROVE  \E x \in U : \A y \in U : y <= x
    OBVIOUS
  <2>1. PICK x : U = {x}
    BY FS_Singleton
  <2> QED BY <2>1
<1>2. \A n \in T : n + 1 \in T
  <2> SUFFICES ASSUME NEW n \in T, NEW U \in SUBSET Int, IsFiniteSet(U), Cardinality(U) = n + 2
               PROVE  \E x \in U : \A y \in U : y <= x
    OBVIOUS
  <2>1. PICK u : u \in U
    BY FS_EmptySet
  <2>2. IsFiniteSet(U \ {u}) /\ Cardinality(U \ {u}) = n + 1
    BY <2>1, FS_RemoveElement
  <2>3. PICK m \in U \ {u} : \A y \in U \ {u} : y <= m
    BY <2>2
  <2>4. CASE u <= m
    BY <2>3, <2>4
  <2>5. CASE m <= u
    BY <2>1, <2>3, <2>5
  <2> QED BY <2>1, <2>3, <2>4, <2>5
<1>3. \A n \in Nat : n \in T
  <2> HIDE DEF T
  <2>1. T \in SUBSET Nat
    BY DEF T
  <2> QED BY <1>1, <1>2, <2>1, Induction
<1>4. Cardinality(S) \in Nat /\ Cardinality(S) # 0
  BY FS_CardinalityType, FS_EmptySet
<1>5. P(Cardinality(S) - 1)
  BY <1>3, <1>4
<1> QED BY <1>4, <1>5

\* Max of a finite set of integers is its greatest member.
LEMMA MaxIsGreatest ==
    ASSUME NEW S \in SUBSET Int, IsFiniteSet(S), S # {}
    PROVE  Max(S) \in S /\ \A y \in S : y <= Max(S)
<1>1. PICK x \in S : \A y \in S : y <= x
  BY Greatest
<1>2. \A y \in S : x >= y
  BY <1>1
<1> QED BY <1>2 DEF Max

\* Min of a non-empty set of positions is its least member.
LEMMA MinIsLeast ==
    ASSUME NEW S \in SUBSET Nat, S # {}
    PROVE  Min(S) \in S /\ \A y \in S : Min(S) <= y
<1> DEFINE T == {n \in Nat : \A y \in S : y > n}
<1>1. PICK x \in S : \A y \in S : x <= y
  <2> SUFFICES ASSUME \A x \in S : \E y \in S : y < x PROVE FALSE
    OBVIOUS
  <2>1. 0 \in T
    OBVIOUS
  <2>2. \A n \in T : n + 1 \in T
    OBVIOUS
  <2>3. \A n \in Nat : n \in T
    <3> HIDE DEF T
    <3>1. T \in SUBSET Nat
      BY DEF T
    <3> QED BY <2>1, <2>2, <3>1, Induction
  <2>4. PICK x \in S : TRUE
    OBVIOUS
  <2>5. x \in T
    BY <2>3
  <2> QED BY <2>5
<1> QED BY <1>1 DEF Min

\* The later of two times.
LEMMA MaxOfTimes ==
    ASSUME NEW a \in Int, NEW b \in Int
    PROVE  Max({a, b}) \in Int /\ Max({a, b}) >= a /\ Max({a, b}) >= b /\ Max({a, b}) \in {a, b}
<1>1. CASE a <= b
  BY <1>1 DEF Max
<1>2. CASE b <= a
  BY <1>2 DEF Max
<1> QED BY <1>1, <1>2

\* The earlier of two times.
LEMMA MinOfTimes ==
    ASSUME NEW a \in Int, NEW b \in Int
    PROVE  Min({a, b}) \in {a, b} /\ Min({a, b}) <= a /\ Min({a, b}) <= b
<1>1. CASE a <= b
  BY <1>1 DEF Min
<1>2. CASE b <= a
  BY <1>2 DEF Min
<1> QED BY <1>1, <1>2


---------------------------------------------------------------------------
(* The operations of the engine.                                           *)

\* Resolve answers the pending check, if there is one, and touches nothing else.
LEMMA ResolveIs ==
    ASSUME NEW e \in Engine, Len(e.pending) <= 1, NEW outcome \in Outcomes, NEW lag \in Int
    PROVE  LET out == Resolve(e, outcome, lag)
           IN /\ out \in Engine /\ out.pending = <<>>
              /\ out.window = e.window /\ out.gap_pending = e.gap_pending
              /\ out.rows = IF e.pending = <<>> THEN e.rows
                            ELSE Append(e.rows, Row(e.pending[1].ts, outcome, lag))
<1>1. CASE e.pending = <<>>
  BY <1>1 DEF Resolve
<1>2. CASE e.pending # <<>>
  <2> DEFINE row == Row(e.pending[1].ts, outcome, lag)
  <2>1. e.pending \in Seq(Check) /\ e.rows \in Seq(RowType)
    BY DEF Engine
  <2>2. e.pending[1] \in Check
    BY <1>2, <2>1
  <2>3. row \in RowType
    BY <2>2 DEF Row, RowType, Check
  <2> HIDE DEF row
  <2>4. Append(e.rows, row) \in Seq(RowType)
    BY <2>1, <2>3
  <2> DEFINE rows == Append(e.rows, row)
             out == [e EXCEPT !.pending = <<>>, !.rows = rows]
  <2>5. Resolve(e, outcome, lag) = out
    BY <1>2 DEF Resolve, row
  <2>6. rows \in Seq(RowType) /\ <<>> \in Seq(Check)
    BY <2>4
  <2> HIDE DEF rows
  <2>7. /\ out \in Engine /\ out.pending = <<>> /\ out.rows = rows
        /\ out.window = e.window /\ out.gap_pending = e.gap_pending
    BY <2>6 DEF Engine
  <2> QED BY <1>2, <2>5, <2>7 DEF rows, row
<1> QED BY <1>1, <1>2

\* Pruned drops a prefix, every entry of which but the first is at or before the
\* cutoff, and so is the first that it keeps.
LEMMA PrunedIs ==
    ASSUME NEW w \in Seq(Entry), w # <<>>, NEW cutoff \in Int
    PROVE  \E first \in DOMAIN w :
              /\ Pruned(w, cutoff) \in Seq(Entry)
              /\ Len(Pruned(w, cutoff)) = Len(w) - first + 1
              /\ \A k \in 1 .. Len(w) - first + 1 : Pruned(w, cutoff)[k] = w[first + k - 1]
              /\ first > 1 => w[first].ts <= cutoff
<1> DEFINE S == {i \in DOMAIN w : \A j \in 2 .. i : w[j].ts <= cutoff}
           n == Len(w)
<1>1. n \in Nat /\ n >= 1 /\ DOMAIN w = 1 .. n
  OBVIOUS
<1>2. S \in SUBSET Int /\ 1 \in S /\ S \subseteq 1 .. n
  <2>1. 1 \in DOMAIN w /\ 2 .. 1 = {}
    BY <1>1
  <2>2. 1 \in S
    BY <2>1
  <2> QED BY <1>1, <2>2
<1>3. IsFiniteSet(S)
  <2>1. IsFiniteSet(1 .. n)
    BY <1>1, FS_Interval
  <2> QED BY <2>1, <1>2, FS_Subset
<1> HIDE DEF S
<1>4. Max(S) \in S
  BY <1>2, <1>3, MaxIsGreatest
<1> DEFINE first == Max(S)
<1>5. first \in 1 .. n /\ (first > 1 => w[first].ts <= cutoff)
  BY <1>1, <1>2, <1>4 DEF S
<1>6. Pruned(w, cutoff) = SubSeq(w, first, n)
  BY DEF Pruned, S
<1> HIDE DEF first, n
<1>7. /\ SubSeq(w, first, n) \in Seq(Entry)
      /\ Len(SubSeq(w, first, n)) = n - first + 1
      /\ \A k \in 1 .. n - first + 1 : SubSeq(w, first, n)[k] = w[first + k - 1]
  <2>1. \A i \in first .. n : w[i] \in Entry
    BY <1>1, <1>5 DEF n
  <2>2. first \in Int /\ n \in Int
    BY <1>1, <1>5
  <2> QED BY <2>1, <2>2, <1>1, <1>5, SubSeqProperties
<1> QED BY <1>1, <1>5, <1>6, <1>7 DEF n

\* A book event: the window takes the new state, a snapshot answers the gap, and
\* the pending check is late, matched or still pending.
LEMMA OnBookEventIs ==
    ASSUME NEW e \in Engine, Len(e.pending) <= 1,
           NEW ts \in Int, NEW state \in [Slots -> Nat], NEW snapshot \in BOOLEAN
    PROVE  LET out == OnBookEvent(e, ts, state, snapshot)
               w == Append(e.window, [ts |-> ts, state |-> state])
               check == e.pending[1]
           IN /\ out \in Engine /\ w \in Seq(Entry) /\ w # <<>>
              /\ out.window = Pruned(w, ts - Window)
              /\ out.gap_pending = (e.gap_pending /\ ~snapshot)
              /\ Len(out.pending) <= 1
              /\ e.pending = <<>> => out.pending = <<>> /\ out.rows = e.rows
              /\ e.pending # <<>> =>
                    /\ ts > check.ts + Window =>
                          out.pending = <<>> /\ out.rows = Append(e.rows, Row(check.ts, "mismatch", 0))
                    /\ ts <= check.ts + Window /\ check.rest = state =>
                          /\ out.pending = <<>>
                          /\ out.rows = Append(e.rows, Row(check.ts, "matched", ts - check.ts))
                    /\ ts <= check.ts + Window /\ check.rest # state =>
                          out.pending = e.pending /\ out.rows = e.rows
<1> DEFINE entry == [ts |-> ts, state |-> state]
           w == Append(e.window, entry)
           check == e.pending[1]
           late == e.pending # <<>> /\ ts > check.ts + Window
           equal == e.pending # <<>> /\ check.rest = state
           missed == Resolve(e, "mismatch", 0)
           matched == Resolve(e, "matched", ts - check.ts)
           settled == IF late THEN missed ELSE IF equal THEN matched ELSE e
           pruned == Pruned(w, ts - Window)
<1>1. e.window \in Seq(Entry) /\ e.pending \in Seq(Check) /\ e.gap_pending \in BOOLEAN
  BY DEF Engine
<1>2. entry \in Entry
  BY DEF Entry
<1>3. w \in Seq(Entry) /\ w # <<>>
  <2> HIDE DEF entry
  <2> QED BY <1>1, <1>2
<1>4. e.pending # <<>> => check \in Check /\ check.ts \in Int
  <2>1. e.pending # <<>> => check \in Check
    BY <1>1
  <2> QED BY <2>1 DEF Check
<1>5. pruned \in Seq(Entry)
  <2> HIDE DEF w
  <2>1. ts - Window \in Int
    BY VerifyWindowAssumption
  <2> QED BY <1>3, <2>1, PrunedIs
<1>6. OnBookEvent(e, ts, state, snapshot)
        = [settled EXCEPT !.window = pruned, !.gap_pending = @ /\ ~snapshot]
  BY DEF OnBookEvent
<1> HIDE DEF pruned, w, entry
<1>a. /\ missed \in Engine /\ missed.pending = <<>> /\ missed.gap_pending = e.gap_pending
      /\ late => missed.rows = Append(e.rows, Row(check.ts, "mismatch", 0))
  <2>1. "mismatch" \in Outcomes /\ 0 \in Int
    BY DEF Outcomes
  <2> QED BY <2>1, ResolveIs
<1>b. equal => /\ matched \in Engine /\ matched.pending = <<>>
               /\ matched.gap_pending = e.gap_pending
               /\ matched.rows = Append(e.rows, Row(check.ts, "matched", ts - check.ts))
  <2>1. equal => "matched" \in Outcomes /\ ts - check.ts \in Int
    BY <1>4 DEF Outcomes
  <2> QED BY <2>1, ResolveIs
<1> HIDE DEF missed, matched, check
<1>7. settled \in Engine /\ settled.gap_pending = e.gap_pending
  BY <1>a, <1>b
<1>8. /\ ~late /\ ~equal => settled = e
      /\ late => settled.pending = <<>>
                 /\ settled.rows = Append(e.rows, Row(check.ts, "mismatch", 0))
      /\ ~late /\ equal => settled.pending = <<>>
                           /\ settled.rows = Append(e.rows, Row(check.ts, "matched", ts - check.ts))
  BY <1>a, <1>b
<1> DEFINE out == [settled EXCEPT !.window = pruned, !.gap_pending = @ /\ ~snapshot]
<1> HIDE DEF settled
<1>9. /\ out \in Engine /\ out.window = pruned
      /\ out.gap_pending = (settled.gap_pending /\ ~snapshot)
      /\ out.pending = settled.pending /\ out.rows = settled.rows
  BY <1>5, <1>7 DEF Engine
<1> HIDE DEF out
<1>10. e.pending # <<>> => ts > check.ts + Window \/ ts <= check.ts + Window
  BY <1>4, VerifyWindowAssumption
<1>11. Len(<<>>) <= 1
  OBVIOUS
<1>12. /\ out \in Engine /\ w \in Seq(Entry) /\ w # <<>> /\ out.window = pruned
       /\ out.gap_pending = (e.gap_pending /\ ~snapshot) /\ Len(out.pending) <= 1
  BY <1>3, <1>7, <1>8, <1>9, <1>11
<1>13. /\ e.pending = <<>> => out.pending = <<>> /\ out.rows = e.rows
       /\ e.pending # <<>> =>
             /\ ts > check.ts + Window =>
                   out.pending = <<>> /\ out.rows = Append(e.rows, Row(check.ts, "mismatch", 0))
             /\ ts <= check.ts + Window /\ check.rest = state =>
                   /\ out.pending = <<>>
                   /\ out.rows = Append(e.rows, Row(check.ts, "matched", ts - check.ts))
             /\ ts <= check.ts + Window /\ check.rest # state =>
                   out.pending = e.pending /\ out.rows = e.rows
  BY <1>4, <1>8, <1>9, <1>10, VerifyWindowAssumption
<1> QED BY <1>6, <1>12, <1>13 DEF out, pruned, w, entry, check

\* A gap: the pending check is skipped and the book is suspect.
LEMMA OnGapIs ==
    ASSUME NEW e \in Engine, Len(e.pending) <= 1
    PROVE  LET out == OnGap(e)
           IN /\ out \in Engine /\ out.pending = <<>>
              /\ out.window = e.window /\ out.gap_pending = TRUE
              /\ out.rows = IF e.pending = <<>> THEN e.rows
                            ELSE Append(e.rows, Row(e.pending[1].ts, "skipped_gap", 0))
<1> DEFINE settled == Resolve(e, "skipped_gap", 0)
           out == [settled EXCEPT !.gap_pending = TRUE]
<1>1. "skipped_gap" \in Outcomes /\ 0 \in Int
  BY DEF Outcomes
<1>2. /\ settled \in Engine /\ settled.pending = <<>> /\ settled.window = e.window
      /\ settled.rows = IF e.pending = <<>> THEN e.rows
                        ELSE Append(e.rows, Row(e.pending[1].ts, "skipped_gap", 0))
  BY <1>1, ResolveIs
<1>3. OnGap(e) = out
  BY DEF OnGap
<1> HIDE DEF settled
<1>4. /\ out \in Engine /\ out.gap_pending = TRUE /\ out.pending = settled.pending
      /\ out.window = settled.window /\ out.rows = settled.rows
  BY <1>2 DEF Engine
<1> QED BY <1>2, <1>3, <1>4

\* BackwardMatch finds an equal entry that was in force at or after Window before
\* the check, if the window of the engine has one.
LEMMA BackwardMatchIs ==
    ASSUME NEW w \in Seq(Entry), NEW ts \in Int, NEW rest
    PROVE  LET back == BackwardMatch(w, ts, rest)
           IN /\ back # 0 => /\ back \in DOMAIN w /\ w[back].state = rest
                             /\ \A j \in back + 1 .. Len(w) : w[j].ts >= ts - Window
              /\ back = 0 => \A i \in DOMAIN w : w[i].state = rest =>
                                \E j \in i + 1 .. Len(w) : w[j].ts < ts - Window
<1> DEFINE n == Len(w)
           tested == {i \in DOMAIN w : \A j \in i + 1 .. n : w[j].ts >= ts - Window}
           equal == {i \in tested : w[i].state = rest}
           back == BackwardMatch(w, ts, rest)
<1>1. n \in Nat /\ DOMAIN w = 1 .. n /\ \A j \in 1 .. n : w[j].ts \in Int
  <2>1. n \in Nat /\ DOMAIN w = 1 .. n /\ \A j \in 1 .. n : w[j] \in Entry
    OBVIOUS
  <2> QED BY <2>1 DEF Entry
<1>2. equal \subseteq 1 .. n /\ equal \in SUBSET Int
  BY <1>1
<1>3. IsFiniteSet(equal)
  <2> HIDE DEF equal
  <2>1. IsFiniteSet(1 .. n)
    BY <1>1, FS_Interval
  <2> QED BY <2>1, <1>2, FS_Subset
<1>4. back = IF equal = {} THEN 0 ELSE Max(equal)
  BY DEF BackwardMatch
<1>5. equal # {} => Max(equal) \in equal
  <2> HIDE DEF equal
  <2> QED BY <1>2, <1>3, MaxIsGreatest
<1> HIDE DEF back, n
<1>6. CASE equal = {}
  <2>1. back = 0
    BY <1>4, <1>6
  <2>2. ASSUME NEW i \in DOMAIN w, w[i].state = rest
        PROVE  \E j \in i + 1 .. n : w[j].ts < ts - Window
    <3>1. i \notin tested
      BY <1>6, <2>2
    <3>2. PICK j \in i + 1 .. n : ~(w[j].ts >= ts - Window)
      BY <3>1
    <3>3. j \in 1 .. n
      BY <1>1
    <3> QED BY <1>1, <3>2, <3>3, VerifyWindowAssumption
  <2> QED BY <2>1, <2>2 DEF back, n
<1>7. CASE equal # {}
  <2>1. back \in equal
    BY <1>4, <1>5, <1>7
  <2>2. back # 0
    BY <1>1, <1>2, <2>1
  <2> QED BY <2>1, <2>2 DEF back, n
<1> QED BY <1>6, <1>7

\* The rows when the check that is pending, if any, is answered by the next one.
ReadyRows(e) ==
    IF e.pending = <<>> THEN e.rows
    ELSE Append(e.rows, Row(e.pending[1].ts, IF e.gap_pending THEN "skipped_gap" ELSE "mismatch", 0))

BackLag(w, ts, back) == Max({w[back].ts, ts - Window}) - ts

\* A check: the one that is pending is answered first, and then this one is
\* skipped, matched or left pending.
LEMMA OnVerifyIs ==
    ASSUME NEW e \in Engine, Len(e.pending) <= 1, NEW ts \in Int, NEW rest \in RestBooks, NEW state
    PROVE  LET out == OnVerify(e, ts, rest, state)
               back == BackwardMatch(e.window, ts, rest)
               rows == ReadyRows(e)
           IN /\ out \in Engine /\ out.window = e.window /\ out.gap_pending = e.gap_pending
              /\ rows \in Seq(RowType) /\ Len(out.pending) <= 1
              /\ \/ /\ e.gap_pending
                    /\ out.pending = <<>> /\ out.rows = Append(rows, Row(ts, "skipped_gap", 0))
                 \/ /\ ~e.gap_pending /\ state = rest
                    /\ out.pending = <<>> /\ out.rows = Append(rows, Row(ts, "matched", 0))
                 \/ /\ ~e.gap_pending /\ state # rest /\ back # 0
                    /\ out.pending = <<>>
                    /\ out.rows = Append(rows, Row(ts, "matched", BackLag(e.window, ts, back)))
                 \/ /\ ~e.gap_pending /\ state # rest /\ back = 0
                    /\ out.pending = <<[ts |-> ts, rest |-> rest]>> /\ out.rows = rows
<1> DEFINE outcome == IF e.gap_pending THEN "skipped_gap" ELSE "mismatch"
           ready == Resolve(e, outcome, 0)
           back == BackwardMatch(e.window, ts, rest)
           rows == ReadyRows(e)
           lag == BackLag(e.window, ts, back)
           out == OnVerify(e, ts, rest, state)
<1>1. outcome \in Outcomes /\ 0 \in Int /\ e.window \in Seq(Entry)
  BY DEF Outcomes, Engine
<1>2. /\ ready \in Engine /\ ready.pending = <<>> /\ ready.window = e.window
      /\ ready.gap_pending = e.gap_pending /\ ready.rows = rows
  <2>1. rows = IF e.pending = <<>> THEN e.rows
               ELSE Append(e.rows, Row(e.pending[1].ts, outcome, 0))
    BY DEF ReadyRows
  <2> HIDE DEF outcome, rows
  <2> QED BY <1>1, <2>1, ResolveIs
<1>3. rows \in Seq(RowType) /\ e.gap_pending \in BOOLEAN
  BY <1>2 DEF Engine
<1>4. back # 0 => lag \in Int
  <2>1. back # 0 => back \in DOMAIN e.window
    BY <1>1, BackwardMatchIs
  <2> HIDE DEF back
  <2>2. back # 0 => e.window[back] \in Entry
    BY <1>1, <2>1
  <2>3. back # 0 => e.window[back].ts \in Int
    BY <2>2 DEF Entry
  <2>4. ts - Window \in Int
    BY VerifyWindowAssumption
  <2>5. back # 0 => Max({e.window[back].ts, ts - Window}) \in Int
    BY <2>3, <2>4, MaxOfTimes
  <2> QED BY <2>5 DEF BackLag
<1>5. out = IF ready.gap_pending THEN [ready EXCEPT !.rows = Append(@, Row(ts, "skipped_gap", 0))]
            ELSE IF state = rest THEN [ready EXCEPT !.rows = Append(@, Row(ts, "matched", 0))]
            ELSE IF back # 0 THEN [ready EXCEPT !.rows = Append(@, Row(ts, "matched", lag))]
            ELSE [ready EXCEPT !.pending = <<[ts |-> ts, rest |-> rest]>>]
  BY <1>2 DEF OnVerify, BackLag
<1>6. ASSUME NEW o \in Outcomes, NEW l \in Int
      PROVE  LET new == [ready EXCEPT !.rows = Append(@, Row(ts, o, l))]
             IN /\ new \in Engine /\ new.window = e.window /\ new.pending = <<>>
                /\ new.gap_pending = e.gap_pending /\ new.rows = Append(rows, Row(ts, o, l))
  <2> HIDE DEF rows, ready
  <2>1. Row(ts, o, l) \in RowType
    BY DEF Row, RowType
  <2> DEFINE more == Append(rows, Row(ts, o, l))
             new == [ready EXCEPT !.rows = more]
  <2>2. more \in Seq(RowType)
    BY <1>3, <2>1
  <2> HIDE DEF more
  <2>3. /\ new \in Engine /\ new.window = ready.window /\ new.pending = ready.pending
        /\ new.gap_pending = ready.gap_pending /\ new.rows = more
    BY <1>2, <2>2 DEF Engine
  <2> QED BY <1>2, <2>3 DEF more
<1>7. LET new == [ready EXCEPT !.pending = <<[ts |-> ts, rest |-> rest]>>]
      IN /\ new \in Engine /\ new.window = e.window /\ new.rows = rows
         /\ new.gap_pending = e.gap_pending /\ new.pending = <<[ts |-> ts, rest |-> rest]>>
  <2> HIDE DEF rows, ready
  <2> DEFINE check == <<[ts |-> ts, rest |-> rest]>>
             new == [ready EXCEPT !.pending = check]
  <2>1. check \in Seq(Check)
    BY DEF Check
  <2> HIDE DEF check
  <2>2. /\ new \in Engine /\ new.window = ready.window /\ new.rows = ready.rows
        /\ new.gap_pending = ready.gap_pending /\ new.pending = check
    BY <1>2, <2>1 DEF Engine
  <2> QED BY <1>2, <2>2 DEF check
<1> HIDE DEF out, back, lag, rows, ready
<1>8. "skipped_gap" \in Outcomes /\ "matched" \in Outcomes /\ 0 \in Int
  BY DEF Outcomes
<1>a. Len(<<>>) <= 1 /\ Len(<<[ts |-> ts, rest |-> rest]>>) <= 1
  OBVIOUS
<1>9. CASE e.gap_pending
  <2>1. out = [ready EXCEPT !.rows = Append(@, Row(ts, "skipped_gap", 0))]
    BY <1>2, <1>5, <1>9
  <2> QED BY <1>3, <1>6, <1>8, <1>9, <2>1, <1>a, ZenonT(60) DEF out, back, lag, rows
<1>10. CASE ~e.gap_pending /\ state = rest
  <2>1. out = [ready EXCEPT !.rows = Append(@, Row(ts, "matched", 0))]
    BY <1>2, <1>5, <1>10
  <2> QED BY <1>3, <1>6, <1>8, <1>10, <2>1, <1>a, ZenonT(60) DEF out, back, lag, rows
<1>11. CASE ~e.gap_pending /\ state # rest /\ back # 0
  <2>1. out = [ready EXCEPT !.rows = Append(@, Row(ts, "matched", lag))]
    BY <1>2, <1>5, <1>11
  <2> QED BY <1>3, <1>4, <1>6, <1>8, <1>11, <2>1, <1>a, ZenonT(60) DEF out, back, lag, rows
<1>12. CASE ~e.gap_pending /\ state # rest /\ back = 0
  <2>1. out = [ready EXCEPT !.pending = <<[ts |-> ts, rest |-> rest]>>]
    BY <1>2, <1>5, <1>12
  <2> QED BY <1>3, <1>7, <1>12, <2>1, <1>a DEF out, back, lag, rows
<1> QED BY <1>3, <1>9, <1>10, <1>11, <1>12

\* At most one check is pending then.
LEMMA OnVerifyType ==
    ASSUME NEW e \in Engine, Len(e.pending) <= 1, NEW ts \in Int, NEW rest \in RestBooks, NEW state
    PROVE  OnVerify(e, ts, rest, state) \in Engine /\ Len(OnVerify(e, ts, rest, state).pending) <= 1
  BY OnVerifyIs

\* What f knows of the book is what e knew.
SameBook(f, e) == f.window = e.window /\ f.gap_pending = e.gap_pending

\* A check leaves the window and the mark of a gap alone.
LEMMA OnVerifyFrame ==
    ASSUME NEW e \in Engine, Len(e.pending) <= 1, NEW ts \in Int, NEW rest \in RestBooks, NEW state
    PROVE  /\ OnVerify(e, ts, rest, state) \in Engine
           /\ SameBook(OnVerify(e, ts, rest, state), e)
           /\ ReadyRows(e) \in Seq(RowType)
<1> DEFINE out == OnVerify(e, ts, rest, state)
           outcome == IF e.gap_pending THEN "skipped_gap" ELSE "mismatch"
           ready == Resolve(e, outcome, 0)
<1>0. outcome \in Outcomes /\ 0 \in Int
  BY DEF Outcomes
<1>a. ready \in Engine /\ ready.window = e.window /\ ready.gap_pending = e.gap_pending
  <2> HIDE DEF outcome
  <2> QED BY <1>0, ResolveIs
<1>b. \/ \E rows : out = [ready EXCEPT !.rows = rows]
      \/ \E pending : out = [ready EXCEPT !.pending = pending]
  BY DEF OnVerify
<1> HIDE DEF out, ready
<1>1. out.window = e.window
  BY <1>a, <1>b DEF Engine
<1>2. out.gap_pending = e.gap_pending
  BY <1>a, <1>b DEF Engine
<1>3. ReadyRows(e) \in Seq(RowType)
  BY OnVerifyIs
<1> QED BY <1>1, <1>2, <1>3, OnVerifyType DEF out, SameBook

---------------------------------------------------------------------------
(* The sum of a function over a finite set.                                *)

Pick(s) == CHOOSE x \in s : TRUE

\* f is the sum of fun over each subset of S that is in D.
SumsOn(f, fun, D) ==
    \A s \in D : f[s] = IF s = {} THEN 0 ELSE fun[Pick(s)] + f[s \ {Pick(s)}]

\* The sums are there: one more element at a time.
LEMMA SumsExist ==
    ASSUME NEW S, IsFiniteSet(S), NEW fun, \A x \in S : fun[x] \in Int
    PROVE  \E f \in [SUBSET S -> Int] : SumsOn(f, fun, SUBSET S)
<1> DEFINE D(n) == {s \in SUBSET S : Cardinality(s) <= n}
           T == {n \in Nat : \E f \in [D(n) -> Int] : SumsOn(f, fun, D(n))}
<1>1. \A s \in SUBSET S : IsFiniteSet(s) /\ Cardinality(s) \in Nat
  BY FS_Subset, FS_CardinalityType
<1>2. \A s \in SUBSET S : s # {} => Pick(s) \in s
  BY DEF Pick
<1>3. \A s \in SUBSET S : s # {} => Cardinality(s \ {Pick(s)}) = Cardinality(s) - 1
  BY <1>1, <1>2, FS_RemoveElement
<1>4. 0 \in T
  <2> DEFINE f == [s \in D(0) |-> 0]
  <2>1. \A s \in D(0) : s = {}
    BY <1>1, FS_EmptySet
  <2>2. f \in [D(0) -> Int]
    OBVIOUS
  <2>3. SumsOn(f, fun, D(0))
    BY <2>1 DEF SumsOn
  <2> QED BY <2>2, <2>3
<1>5. \A n \in T : n + 1 \in T
  <2> SUFFICES ASSUME NEW n \in T PROVE n + 1 \in T
    OBVIOUS
  <2>1. n \in Nat
    OBVIOUS
  <2>2. PICK f \in [D(n) -> Int] : SumsOn(f, fun, D(n))
    OBVIOUS
  <2> DEFINE g == [s \in D(n + 1) |->
                     IF s = {} THEN 0 ELSE fun[Pick(s)] + f[s \ {Pick(s)}]]
  <2>3. \A s \in D(n + 1) : s # {} => /\ s \ {Pick(s)} \in D(n) /\ s \ {Pick(s)} \in D(n + 1)
                                     /\ Pick(s) \in S
    BY <1>1, <1>2, <1>3, <2>1
  <2>4. \A s \in D(n) : s \in D(n + 1) /\ g[s] = f[s]
    BY <1>1, <2>1, <2>2 DEF SumsOn
  <2> HIDE DEF D
  <2>5. g \in [D(n + 1) -> Int]
    BY <2>2, <2>3
  <2>6. SumsOn(g, fun, D(n + 1))
    BY <2>3, <2>4 DEF SumsOn
  <2> HIDE DEF g
  <2>7. \E h \in [D(n + 1) -> Int] : SumsOn(h, fun, D(n + 1))
    BY <2>5, <2>6
  <2> QED BY <2>1, <2>7
<1>6. \A n \in Nat : n \in T
  <2> HIDE DEF T
  <2>1. T \in SUBSET Nat
    BY DEF T
  <2> QED BY <1>4, <1>5, <2>1, Induction
<1>7. Cardinality(S) \in T
  BY <1>1, <1>6
<1>8. D(Cardinality(S)) = SUBSET S
  <2>1. \A s \in SUBSET S : Cardinality(s) <= Cardinality(S)
    BY FS_Subset
  <2> QED BY <2>1
<1> HIDE DEF D
<1> QED BY <1>7, <1>8

\* SumFunctionOnSet is the sum over the whole set.
LEMMA SumIs ==
    ASSUME NEW S, IsFiniteSet(S), NEW fun, \A x \in S : fun[x] \in Int
    PROVE  \E f \in [SUBSET S -> Int] : SumsOn(f, fun, SUBSET S) /\ SumFunctionOnSet(fun, S) = f[S]
<1> DEFINE Def(f) == f = [s \in SUBSET S |->
                            IF s = {} THEN 0 ELSE fun[Pick(s)] + f[s \ {Pick(s)}]]
           iter == CHOOSE f : Def(f)
<1>1. SumFunctionOnSet(fun, S) = iter[S]
  BY DEF SumFunctionOnSet, FoldFunctionOnSet, MapThenFoldSet, Pick
<1>2. PICK f \in [SUBSET S -> Int] : SumsOn(f, fun, SUBSET S)
  BY SumsExist
<1>3. Def(f)
  BY <1>2 DEF SumsOn
<1>4. Def(iter)
  <2> HIDE DEF Def
  <2> QED BY <1>3
<1>5. SumsOn(iter, fun, SUBSET S) /\ iter = [s \in SUBSET S |-> iter[s]]
  <2> HIDE DEF iter
  <2> QED BY <1>4 DEF SumsOn
<1> HIDE DEF iter, Def
<1> DEFINE T == {n \in Nat : \A s \in SUBSET S : Cardinality(s) = n => iter[s] = f[s]}
<1>6. 0 \in T
  <2>1. \A s \in SUBSET S : Cardinality(s) = 0 => s = {}
    BY FS_Subset, FS_EmptySet
  <2> QED BY <1>2, <1>5, <2>1 DEF SumsOn
<1>7. \A n \in T : n + 1 \in T
  <2> SUFFICES ASSUME NEW n \in T, NEW s \in SUBSET S, Cardinality(s) = n + 1
               PROVE  iter[s] = f[s]
    OBVIOUS
  <2>1. IsFiniteSet(s) /\ s # {}
    BY FS_Subset, FS_EmptySet
  <2>2. Pick(s) \in s
    BY <2>1 DEF Pick
  <2>3. Cardinality(s \ {Pick(s)}) = n /\ s \ {Pick(s)} \in SUBSET S
    <3>1. n \in Nat
      OBVIOUS
    <3> HIDE DEF T
    <3>2. Cardinality(s \ {Pick(s)}) = Cardinality(s) - 1
      BY <2>1, <2>2, FS_RemoveElement
    <3> QED BY <3>1, <3>2
  <2>4. iter[s \ {Pick(s)}] = f[s \ {Pick(s)}]
    BY <2>3
  <2> QED BY <1>2, <1>5, <2>1, <2>4 DEF SumsOn
<1>8. \A n \in Nat : n \in T
  <2> HIDE DEF T
  <2>1. T \in SUBSET Nat
    BY DEF T
  <2> QED BY <1>6, <1>7, <2>1, Induction
<1>9. iter[S] = f[S]
  <2>1. Cardinality(S) \in T
    BY <1>8, FS_CardinalityType
  <2> QED BY <2>1
<1> QED BY <1>1, <1>2, <1>9

\* Any element may be taken out of a sum.
LEMMA SumTakesOut ==
    ASSUME NEW S, IsFiniteSet(S), NEW fun, \A x \in S : fun[x] \in Int,
           NEW f \in [SUBSET S -> Int], SumsOn(f, fun, SUBSET S),
           NEW y \in S
    PROVE  f[S] = fun[y] + f[S \ {y}]
<1> DEFINE T == {n \in Nat : \A s \in SUBSET S : Cardinality(s) = n =>
                    \A x \in s : f[s] = fun[x] + f[s \ {x}]}
<1>1. 0 \in T
  BY FS_Subset, FS_EmptySet
<1>2. \A n \in T : n + 1 \in T
  <2> SUFFICES ASSUME NEW n \in T, NEW s \in SUBSET S, Cardinality(s) = n + 1, NEW x \in s
               PROVE  f[s] = fun[x] + f[s \ {x}]
    OBVIOUS
  <2> DEFINE p == Pick(s)
  <2>1. IsFiniteSet(s) /\ s # {}
    BY FS_Subset
  <2>2. p \in s
    BY <2>1 DEF Pick
  <2>3. f[s] = fun[p] + f[s \ {p}]
    BY <2>1 DEF SumsOn
  <2>4. Cardinality(s \ {p}) = n /\ Cardinality(s \ {x}) = n
    <3>1. n \in Nat
      OBVIOUS
    <3> HIDE DEF T, p
    <3>2. \A z \in s : Cardinality(s \ {z}) = Cardinality(s) - 1
      BY <2>1, FS_RemoveElement
    <3> QED BY <2>2, <3>1, <3>2
  <2>5. CASE x = p
    BY <2>3, <2>5
  <2>6. CASE x # p
    <3> DEFINE u == (s \ {p}) \ {x}
    <3>1. x \in s \ {p} /\ p \in s \ {x} /\ (s \ {x}) \ {p} = u
      BY <2>2, <2>6
    <3> HIDE DEF p
    <3>2. f[s \ {p}] = fun[x] + f[u]
      BY <2>4, <3>1
    <3>3. f[s \ {x}] = fun[p] + f[(s \ {x}) \ {p}]
      BY <2>4, <3>1
    <3>a. f[s \ {x}] = fun[p] + f[u]
      BY <3>1, <3>3
    <3>4. f[u] \in Int /\ fun[x] \in Int /\ fun[p] \in Int
      BY <2>2
    <3> HIDE DEF u
    <3> QED BY <2>3, <3>2, <3>a, <3>4
  <2> QED BY <2>5, <2>6
<1>3. \A n \in Nat : n \in T
  <2> HIDE DEF T
  <2>1. T \in SUBSET Nat
    BY DEF T
  <2> QED BY <1>1, <1>2, <2>1, Induction
<1>4. Cardinality(S) \in T
  BY <1>3, FS_CardinalityType
<1> QED BY <1>4

\* Functions that agree on a set have the same sum over it.
LEMMA SumAgrees ==
    ASSUME NEW S, NEW R \in SUBSET S, IsFiniteSet(R), NEW fun, NEW other,
           \A x \in R : fun[x] = other[x],
           NEW f, SumsOn(f, fun, SUBSET S), NEW g, SumsOn(g, other, SUBSET S)
    PROVE  f[R] = g[R]
<1> DEFINE T == {n \in Nat : \A s \in SUBSET R : Cardinality(s) = n => f[s] = g[s]}
<1>1. 0 \in T
  <2>1. \A s \in SUBSET R : Cardinality(s) = 0 => s = {} /\ s \in SUBSET S
    BY FS_Subset, FS_EmptySet
  <2> QED BY <2>1 DEF SumsOn
<1>2. \A n \in T : n + 1 \in T
  <2> SUFFICES ASSUME NEW n \in T, NEW s \in SUBSET R, Cardinality(s) = n + 1
               PROVE  f[s] = g[s]
    OBVIOUS
  <2>1. IsFiniteSet(s) /\ s # {} /\ s \in SUBSET S
    BY FS_Subset, FS_EmptySet
  <2>2. Pick(s) \in s
    BY <2>1 DEF Pick
  <2>3. Cardinality(s \ {Pick(s)}) = n /\ s \ {Pick(s)} \in SUBSET R
    <3>1. n \in Nat
      OBVIOUS
    <3> HIDE DEF T
    <3>2. Cardinality(s \ {Pick(s)}) = Cardinality(s) - 1
      BY <2>1, <2>2, FS_RemoveElement
    <3> QED BY <3>1, <3>2
  <2>4. f[s \ {Pick(s)}] = g[s \ {Pick(s)}] /\ fun[Pick(s)] = other[Pick(s)]
    BY <2>2, <2>3
  <2> QED BY <2>1, <2>4 DEF SumsOn
<1>3. \A n \in Nat : n \in T
  <2> HIDE DEF T
  <2>1. T \in SUBSET Nat
    BY DEF T
  <2> QED BY <1>1, <1>2, <2>1, Induction
<1>4. Cardinality(R) \in T
  BY <1>3, FS_CardinalityType
<1> QED BY <1>4

---------------------------------------------------------------------------
(* The book.                                                               *)

SlotsAt(side) == {slot \in Slots : slot[1] = side}

\* A side has finitely many slots.
LEMMA SideIsFinite ==
    ASSUME NEW side
    PROVE  IsFiniteSet(SlotsAt(side)) /\ SlotsAt(side) \subseteq Slots
<1>1. SlotsAt(side) \subseteq Slots
  BY DEF SlotsAt
<1> QED BY <1>1, SlotsAssumption, FS_Subset

\* The sum of a side is an integer.
LEMMA SideSumType ==
    ASSUME NEW levels \in [Slots -> Nat], NEW side
    PROVE  SideSum(levels, side) \in Int
<1>1. SideSum(levels, side) = SumFunctionOnSet(levels, SlotsAt(side))
  BY DEF SideSum, SlotsAt
<1>2. /\ IsFiniteSet(SlotsAt(side)) /\ SlotsAt(side) \in SUBSET SlotsAt(side)
      /\ \A x \in SlotsAt(side) : levels[x] \in Int
  BY SideIsFinite
<1>3. PICK f \in [SUBSET SlotsAt(side) -> Int] : SumFunctionOnSet(levels, SlotsAt(side)) = f[SlotsAt(side)]
  BY <1>2, SumIs
<1> QED BY <1>1, <1>2, <1>3

\* A change of one level changes the sum of its side by as much, and no other.
LEMMA SideSumChanges ==
    ASSUME NEW levels \in [Slots -> Nat], NEW slot \in Slots, NEW q \in Nat, NEW side
    PROVE  SideSum([levels EXCEPT ![slot] = q], side)
              = SideSum(levels, side) + IF slot[1] = side THEN q - levels[slot] ELSE 0
<1> DEFINE new == [levels EXCEPT ![slot] = q]
           S == SlotsAt(side)
<1>1. SideSum(levels, side) = SumFunctionOnSet(levels, S) /\ SideSum(new, side) = SumFunctionOnSet(new, S)
  BY DEF SideSum, SlotsAt
<1>2. IsFiniteSet(S) /\ S \subseteq Slots
  BY SideIsFinite
<1>3. slot \in S <=> slot[1] = side
  BY DEF SlotsAt
<1>4. new \in [Slots -> Nat] /\ new[slot] = q /\ \A x \in Slots \ {slot} : new[x] = levels[x]
  OBVIOUS
<1> HIDE DEF new, S
<1>5. PICK f \in [SUBSET S -> Int] : SumsOn(f, levels, SUBSET S) /\ SumFunctionOnSet(levels, S) = f[S]
  <2>1. \A x \in S : levels[x] \in Int
    BY <1>2
  <2> QED BY <1>2, <2>1, SumIs
<1>6. PICK g \in [SUBSET S -> Int] : SumsOn(g, new, SUBSET S) /\ SumFunctionOnSet(new, S) = g[S]
  <2>1. \A x \in S : new[x] \in Int
    BY <1>2, <1>4
  <2> QED BY <1>2, <2>1, SumIs
<1>7. CASE slot \notin S
  <2>1. \A x \in S : levels[x] = new[x]
    BY <1>2, <1>4, <1>7
  <2>2. S \in SUBSET S
    OBVIOUS
  <2>3. f[S] = g[S]
    <3> DEFINE R == S
    <3>1. R \in SUBSET S /\ IsFiniteSet(R) /\ \A x \in R : levels[x] = new[x]
      BY <1>2, <2>1
    <3>2. f[R] = g[R]
      <4> HIDE DEF R
      <4> QED BY <1>5, <1>6, <3>1, SumAgrees, SMTT(60)
    <3> QED BY <3>2
  <2>4. f[S] \in Int
    BY <2>2
  <2> QED BY <1>1, <1>3, <1>5, <1>6, <1>7, <2>3, <2>4 DEF new
<1>8. CASE slot \in S
  <2> DEFINE R == S \ {slot}
  <2>1. R \in SUBSET S /\ IsFiniteSet(R)
    BY <1>2, FS_Subset
  <2>2. \A x \in R : levels[x] = new[x]
    BY <1>2, <1>4
  <2>3. f[R] = g[R]
    <3> HIDE DEF R
    <3> QED BY <1>5, <1>6, <2>1, <2>2, SumAgrees, SMTT(60)
  <2>4. f[S] = levels[slot] + f[R]
    <3>1. \A x \in S : levels[x] \in Int
      BY <1>2
    <3> QED BY <1>2, <1>5, <1>8, <3>1, SumTakesOut
  <2>5. g[S] = q + g[R]
    <3>1. \A x \in S : new[x] \in Int
      BY <1>2, <1>4
    <3> QED BY <1>2, <1>4, <1>6, <1>8, <3>1, SumTakesOut, SMTT(60)
  <2>6. f[R] \in Int /\ levels[slot] \in Int
    BY <2>1
  <2> HIDE DEF R
  <2>7. g[S] = f[S] + (q - levels[slot])
    BY <2>3, <2>4, <2>5, <2>6
  <2> QED BY <1>1, <1>3, <1>5, <1>6, <1>8, <2>7 DEF new
<1> QED BY <1>7, <1>8

\* The totals of a book are the sums of its sides.
TotalsOf(b) == \A side \in Sides : b.total[side] = SideSum(b.levels, side)

\* A snapshot.
LEMMA ApplySnapshotIs ==
    ASSUME NEW b \in BookType, NEW levels \in [Slots -> Nat]
    PROVE  LET out == ApplySnapshot(b, levels)
           IN out \in BookType /\ out.levels = levels /\ TotalsOf(out)
<1> DEFINE total == [side \in Sides |-> SideSum(levels, side)]
           out == [b EXCEPT !.levels = levels, !.total = total]
<1>1. total \in [Sides -> Int] /\ \A side \in Sides : total[side] = SideSum(levels, side)
  BY SideSumType
<1>2. ApplySnapshot(b, levels) = out
  BY DEF ApplySnapshot
<1> HIDE DEF total
<1>3. out \in BookType /\ out.levels = levels /\ out.total = total
  BY <1>1 DEF BookType
<1> QED BY <1>1, <1>2, <1>3 DEF TotalsOf

\* A delta.
LEMMA ApplyChangeIs ==
    ASSUME NEW b \in BookType, TotalsOf(b), NEW slot \in Slots, NEW delta \in Int
    PROVE  LET out == ApplyChange(b, slot, delta)
           IN out \in BookType /\ out.levels \in [Slots -> Nat] /\ TotalsOf(out)
<1> DEFINE old == b.levels[slot]
           new == old + delta
           q == Max({new, 0})
           r == Min({new, 0})
           levels == [b.levels EXCEPT ![slot] = q]
           total == [b.total EXCEPT ![slot[1]] = @ + delta - r]
           underflows == b.underflows + IF new < 0 THEN 1 ELSE 0
           out == [b EXCEPT !.levels = levels, !.total = total, !.underflows = underflows]
<1>1. b.levels \in [Slots -> Nat] /\ b.total \in [Sides -> Int] /\ b.underflows \in Nat
  BY DEF BookType
<1>2. old \in Nat /\ new \in Int
  BY <1>1
<1>3. ApplyChange(b, slot, delta) = out
  BY DEF ApplyChange
<1> HIDE DEF old
<1>4. q \in Nat /\ r \in Int /\ q - old = delta - r
  <2> HIDE DEF new
  <2>1. q \in Int /\ q >= new /\ q >= 0 /\ q \in {new, 0}
    BY <1>2, MaxOfTimes, 0 \in Int
  <2>2. r \in {new, 0} /\ r <= new /\ r <= 0
    BY <1>2, MinOfTimes, 0 \in Int
  <2> HIDE DEF q, r
  <2> QED BY <1>2, <2>1, <2>2 DEF new
<1>5. slot[1] \in Sides
  BY DEF Sides
<1> HIDE DEF q, r, new
<1>6. levels \in [Slots -> Nat] /\ total \in [Sides -> Int] /\ underflows \in Nat
  BY <1>1, <1>4, <1>5
<1>7. \A side \in Sides : total[side] = SideSum(levels, side)
  <2> SUFFICES ASSUME NEW side \in Sides PROVE total[side] = SideSum(levels, side)
    OBVIOUS
  <2>1. SideSum(levels, side) = SideSum(b.levels, side) + IF slot[1] = side THEN q - old ELSE 0
    BY <1>1, <1>4, SideSumChanges DEF old
  <2>2. b.total[side] = SideSum(b.levels, side) /\ b.total[side] \in Int
    BY <1>1 DEF TotalsOf
  <2>3. total[side] = b.total[side] + IF slot[1] = side THEN delta - r ELSE 0
    BY <1>1, <1>4, <1>5
  <2> QED BY <1>4, <2>1, <2>2, <2>3
<1> HIDE DEF levels, total, underflows
<1>8. out \in BookType /\ out.levels = levels /\ out.total = total
  BY <1>6 DEF BookType
<1> QED BY <1>3, <1>6, <1>7, <1>8 DEF TotalsOf

---------------------------------------------------------------------------
(* Types.  The steps, as the log and the engine see them.                  *)

BookStep(s) ==
    /\ phase = "orderbook" /\ phase' = phase /\ now' \in Int /\ book'.levels \in [Slots -> Nat]
    /\ engine' = OnBookEvent(engine, now', book'.levels, s)
    /\ log' = Append(log, [kind |-> "book", ts |-> now', state |-> book'.levels, snapshot |-> s])

GapStep ==
    /\ phase = "orderbook" /\ phase' = phase /\ now' \in Int /\ log # <<>> /\ book' = book
    /\ engine' = OnGap(engine)
    /\ log' = Append(log, [kind |-> "gap", ts |-> now'])

CheckStep(lag, rest) ==
    /\ phase = "orderbook" /\ phase' = phase /\ now' \in Int /\ log # <<>> /\ book' = book
    /\ \A c \in CheckAt : log[c].ts + Window < now' - lag
    /\ engine' = OnVerify(engine, now' - lag, rest, book.levels)
    /\ log' = Append(log, [kind |-> "verify", ts |-> now' - lag, rest |-> rest, at |-> now'])

TradeStep ==
    /\ phase # "written" /\ phase' = "trade"
    /\ UNCHANGED <<now, book, engine, log>>

FinishStep ==
    /\ phase # "written" /\ phase' = "written" /\ engine' = FinishEngine(engine)
    /\ UNCHANGED <<now, book, log>>

\* A line more.
LEMMA LogGrows ==
    ASSUME log \in Seq(Record), NEW r \in Record, log' = Append(log, r)
    PROVE  /\ log' \in Seq(Record) /\ Len(log) \in Nat /\ Len(log') = Len(log) + 1
           /\ \A i \in 1 .. Len(log) : log'[i] = log[i]
           /\ log'[Len(log) + 1] = r
  OBVIOUS

\* A snapshot is such a step, and keeps the types and the totals.
LEMMA SnapshotTyped ==
    ASSUME Typed, TotalsOf(book), NEW d \in Steps, NEW levels \in Snapshots, Snapshot(d, levels)
    PROVE  BookStep(TRUE) /\ Typed' /\ TotalsOf(book')
<1>1. now' \in Int /\ seq' \in Nat /\ event_idx' \in Nat /\ snap_ts' \subseteq Int
  BY LinesAssumption DEF Typed, Snapshot, NextLine
<1>2. levels \in [Slots -> Nat] /\ book \in BookType
  BY LinesAssumption DEF Typed
<1>3. book' \in BookType /\ book'.levels = levels /\ TotalsOf(book')
  BY <1>2, ApplySnapshotIs DEF Snapshot
<1>4. engine' \in Engine /\ Len(engine'.pending) <= 1
  BY <1>1, <1>2, <1>3, TRUE \in BOOLEAN, OnBookEventIs, ZenonT(60) DEF Typed, Snapshot
<1>5. log' \in Seq(Record)
  <2> DEFINE r == [kind |-> "book", ts |-> now', state |-> book'.levels, snapshot |-> TRUE]
  <2>1. r \in Record
    BY <1>1, <1>2, <1>3 DEF Record
  <2>2. log' = Append(log, r) /\ log \in Seq(Record)
    BY DEF Snapshot, Typed
  <2> HIDE DEF r
  <2> QED BY <2>1, <2>2, LogGrows
<1>6. phase = "orderbook" /\ phase' = phase
  BY DEF Snapshot, NextLine
<1>7. BookStep(TRUE)
  BY <1>1, <1>2, <1>3, <1>6 DEF BookStep, Snapshot
<1> QED BY <1>1, <1>3, <1>4, <1>5, <1>6, <1>7 DEF Typed

\* So is a delta.
LEMMA DeltaTyped ==
    ASSUME Typed, TotalsOf(book), NEW d \in Int, NEW change \in Deltas, Delta(d, change)
    PROVE  BookStep(FALSE) /\ Typed' /\ TotalsOf(book') /\ log # <<>>
<1>1. now' \in Int /\ seq' \in Nat /\ event_idx' \in Nat /\ snap_ts' \subseteq Int
  BY DEF Typed, Delta, NextLine
<1>2. change[1] \in Slots /\ change[2] \in Int /\ book \in BookType
  BY LinesAssumption DEF Typed
<1>3. book' \in BookType /\ book'.levels \in [Slots -> Nat] /\ TotalsOf(book')
  BY <1>2, ApplyChangeIs DEF Delta
<1>4. engine' \in Engine /\ Len(engine'.pending) <= 1
  BY <1>1, <1>2, <1>3, FALSE \in BOOLEAN, OnBookEventIs DEF Typed, Delta
<1>5. log' \in Seq(Record)
  <2> DEFINE r == [kind |-> "book", ts |-> now', state |-> book'.levels, snapshot |-> FALSE]
  <2>1. r \in Record
    BY <1>1, <1>3 DEF Record
  <2>2. log' = Append(log, r) /\ log \in Seq(Record)
    BY DEF Delta, Typed
  <2> HIDE DEF r
  <2> QED BY <2>1, <2>2, LogGrows
<1>6. phase = "orderbook" /\ phase' = phase /\ log # <<>>
  BY DEF Delta, NextLine
<1>7. BookStep(FALSE)
  BY <1>1, <1>3, <1>6 DEF BookStep, Delta
<1> QED BY <1>1, <1>3, <1>4, <1>5, <1>6, <1>7 DEF Typed

\* A gap marker.
LEMMA GapTyped ==
    ASSUME Typed, NEW d \in Steps, Gap(d)
    PROVE  GapStep /\ Typed'
<1>1. /\ now' \in Int /\ seq' = seq /\ event_idx' = event_idx /\ snap_ts' = snap_ts /\ book' = book
      /\ phase = "orderbook" /\ phase' = phase
  BY LinesAssumption DEF Typed, Gap, NextLine
<1>2. engine' \in Engine /\ Len(engine'.pending) <= 1
  <2>1. engine' \in Engine /\ engine'.pending = <<>>
    BY OnGapIs DEF Typed, Gap
  <2> QED BY <2>1
<1>3. log' \in Seq(Record)
  <2> DEFINE r == [kind |-> "gap", ts |-> now']
  <2>1. r \in Record
    BY <1>1 DEF Record
  <2>2. log' = Append(log, r) /\ log \in Seq(Record)
    BY DEF Gap, Typed
  <2> HIDE DEF r
  <2> QED BY <2>1, <2>2, LogGrows
<1>4. GapStep
  BY <1>1 DEF GapStep, Gap
<1> QED BY <1>1, <1>2, <1>3, <1>4 DEF Typed

\* A REST check; checks keep their distance.
LEMMA VerifyTyped ==
    ASSUME Typed, NEW d \in Steps, NEW lag \in Lags, NEW rest \in RestBooks, Verify(d, lag, rest)
    PROVE  CheckStep(lag, rest) /\ Typed'
<1>1. /\ now' \in Int /\ seq' = seq /\ event_idx' = event_idx /\ snap_ts' = snap_ts /\ book' = book
      /\ phase = "orderbook" /\ phase' = phase
  BY LinesAssumption DEF Typed, Verify, NextLine, tables
<1>2. now' - lag \in Int
  BY <1>1, LinesAssumption
<1>3. engine' \in Engine /\ Len(engine'.pending) <= 1
  BY <1>2, OnVerifyType DEF Typed, Verify
<1>4. log' \in Seq(Record)
  <2> DEFINE r == [kind |-> "verify", ts |-> now' - lag, rest |-> rest, at |-> now']
  <2>1. r \in Record
    BY <1>1, <1>2 DEF Record
  <2>2. log' = Append(log, r) /\ log \in Seq(Record)
    BY DEF Verify, Typed
  <2> HIDE DEF r
  <2> QED BY <2>1, <2>2, LogGrows
<1>5. \A c \in CheckAt : log[c].ts + Window < now' - lag
  <2>1. \A c \in CheckAt : log[c] \in ToSet(log) /\ log[c].kind = "verify"
    BY DEF CheckAt, ToSet
  <2> QED BY <2>1 DEF Verify
<1>6. CheckStep(lag, rest)
  BY <1>1, <1>5 DEF CheckStep, Verify
<1> QED BY <1>1, <1>3, <1>4, <1>6 DEF Typed

\* The end of the logs.
LEMMA FinishTyped ==
    ASSUME Typed, Finish
    PROVE  FinishStep /\ Typed'
<1>1. FinishStep /\ seq' = seq /\ event_idx' = event_idx /\ snap_ts' = snap_ts
  BY DEF Finish, FinishStep
<1>2. "truncated" \in Outcomes /\ 0 \in Int
  BY DEF Outcomes
<1>3. engine' \in Engine /\ Len(engine'.pending) <= 1
  <2>1. engine' \in Engine /\ engine'.pending = <<>>
    BY <1>1, <1>2, ResolveIs DEF Typed, FinishStep, FinishEngine
  <2> QED BY <2>1
<1> QED BY <1>1, <1>3 DEF Typed, FinishStep

\* What a step is, and that it keeps the types and the totals.
LEMMA StepIs ==
    ASSUME Typed, TotalsOf(book), [OfflineNext]_<<vars, stream>>
    PROVE  /\ Typed' /\ TotalsOf(book')
           /\ \/ BookStep(TRUE)
              \/ BookStep(FALSE) /\ log # <<>>
              \/ GapStep
              \/ \E lag \in Lags, rest \in RestBooks : CheckStep(lag, rest)
              \/ TradeStep
              \/ FinishStep
              \/ UNCHANGED <<phase, now, book, engine, log>>
<1>1. CASE Next
  <2>1. CASE \E d \in Steps, levels \in Snapshots : Snapshot(d, levels)
    BY <2>1, SnapshotTyped
  <2>2. CASE \E d \in Steps, change \in Deltas : Delta(d, change)
    <3>1. PICK d \in Steps, change \in Deltas : Delta(d, change)
      BY <2>2
    <3>2. d \in Int
      BY LinesAssumption
    <3> QED BY <3>1, <3>2, DeltaTyped
  <2>3. CASE \E d \in Steps : Gap(d)
    <3>1. GapStep /\ Typed'
      BY <2>3, GapTyped
    <3> QED BY <3>1 DEF GapStep
  <2>4. CASE \E d \in Steps, lag \in Lags, rest \in RestBooks : Verify(d, lag, rest)
    <3>1. PICK lag \in Lags, rest \in RestBooks : CheckStep(lag, rest) /\ Typed'
      BY <2>4, VerifyTyped
    <3>2. book' = book
      BY <3>1 DEF CheckStep
    <3> QED BY <3>1, <3>2
  <2>5. CASE \E d \in StepsBack, change \in Deltas : Delta(-d, change)
    <3>1. PICK d \in StepsBack, change \in Deltas : Delta(-d, change)
      BY <2>5
    <3>2. -d \in Int
      BY LinesAssumption
    <3> QED BY <3>1, <3>2, DeltaTyped
  <2>6. CASE \E ts \in Prints : TradeRecord(ts) \/ TradeGap(ts)
    <3>1. TradeStep /\ UNCHANGED <<seq, event_idx, snap_ts>>
      BY <2>6 DEF TradeRecord, TradeGap, TradeLine, TradeStep
    <3> QED BY <3>1 DEF TradeStep, Typed
  <2>7. CASE Finish
    <3>1. FinishStep /\ Typed'
      BY <2>7, FinishTyped
    <3> QED BY <3>1 DEF FinishStep
  <2> QED BY <1>1, <2>1, <2>2, <2>3, <2>4, <2>5, <2>6, <2>7 DEF Next
<1>2. CASE Load \/ UNCHANGED <<vars, stream>>
  BY <1>2 DEF Load, vars, Typed
<1> QED BY <1>1, <1>2 DEF OfflineNext

\* The empty book: its totals are zero, and so are the sums.
LEMMA InitTyped ==
    ASSUME OfflineInit
    PROVE  Typed /\ TotalsOf(book)
<1>1. NoLevels \in [Slots -> Nat]
  BY DEF NoLevels
<1>2. book \in BookType /\ book.levels = NoLevels /\ \A side \in Sides : book.total[side] = 0
  BY <1>1 DEF OfflineInit, Init, EmptyBook, BookType
<1>3. TotalsOf(book)
  <2> SUFFICES ASSUME NEW side \in Sides PROVE SideSum(NoLevels, side) = 0
    BY <1>2 DEF TotalsOf
  <2> DEFINE S == SlotsAt(side)
  <2>1. /\ IsFiniteSet(S) /\ S \subseteq Slots /\ (\A x \in S : NoLevels[x] \in Int)
        /\ SideSum(NoLevels, side) = SumFunctionOnSet(NoLevels, S)
    <3>1. SideSum(NoLevels, side) = SumFunctionOnSet(NoLevels, S)
      BY DEF SideSum, SlotsAt
    <3>2. IsFiniteSet(S) /\ S \subseteq Slots
      BY SideIsFinite
    <3> HIDE DEF S
    <3>3. \A x \in S : NoLevels[x] \in Int
      BY <3>2, <1>1
    <3> QED BY <3>1, <3>2, <3>3
  <2> HIDE DEF S
  <2>2. PICK f \in [SUBSET S -> Int] : SumsOn(f, NoLevels, SUBSET S) /\ SumFunctionOnSet(NoLevels, S) = f[S]
    BY <2>1, SumIs
  <2> DEFINE g == [s \in SUBSET S |-> 0]
             R == S
  <2>3. SumsOn(g, [x \in S |-> 0], SUBSET S)
    <3>1. \A s \in SUBSET S : s # {} => Pick(s) \in S
      BY DEF Pick
    <3> QED BY <3>1 DEF SumsOn
  <2>4. R \in SUBSET S /\ IsFiniteSet(R) /\ (\A x \in R : NoLevels[x] = [y \in S |-> 0][x]) /\ g[R] = 0
    BY <2>1 DEF NoLevels
  <2>5. f[R] = g[R]
    <3> HIDE DEF R, g
    <3> QED BY <2>2, <2>3, <2>4, SumAgrees
  <2> QED BY <2>1, <2>2, <2>4, <2>5
<1>4. engine \in Engine /\ Len(engine.pending) <= 1
  BY DEF OfflineInit, Init, NewEngine, Engine
<1> QED BY <1>2, <1>3, <1>4 DEF OfflineInit, Init, Typed

(***************************************************************************)
(* The tables keep their types, and the running totals of the book are the *)
(* sums of its levels: the invariant stated at Book::yes_total, after any  *)
(* snapshots and deltas, those that would take a level below zero included. *)
(***************************************************************************)
THEOREM OfflineTypeCorrect == OfflineSpec => []TypeOK
<1> DEFINE I == Typed /\ TotalsOf(book)
<1>1. OfflineInit => I
  BY InitTyped
<1>2. I /\ [OfflineNext]_<<vars, stream>> => I'
  <2> SUFFICES ASSUME I, [OfflineNext]_<<vars, stream>> PROVE Typed' /\ TotalsOf(book')
    BY DEF TotalsOf
  <2> QED BY StepIs
<1>3. I => TypeOK
  BY DEF Typed, TotalsOf, TypeOK, BookType, Engine
<1> QED BY <1>1, <1>2, <1>3, PTL DEF OfflineSpec

---------------------------------------------------------------------------
(* The verdicts.  What they rest on, for a log l and an engine e.          *)

Books(l) == {i \in DOMAIN l : l[i].kind = "book"}
Checks(l) == {i \in DOMAIN l : l[i].kind = "verify"}
Ordered(l) == \A i, j \in DOMAIN l : i < j => WrittenAt(l[i]) <= WrittenAt(l[j])

Suspect(l, c) ==
    \E g \in 1 .. c - 1 : /\ l[g].kind = "gap"
                          /\ \A i \in g .. c - 1 : i \in Books(l) => ~l[i].snapshot

After(l, c) ==
    {i \in c + 1 .. Len(l) : \A j \in c + 1 .. i - 1 :
        l[j].kind # "verify" /\ (l[j].kind = "book" => l[j].ts <= l[c].ts + Window)}
GapAfter(l, c) == \E i \in After(l, c) : l[i].kind = "gap"

\* The window of check c is closed; nothing but book lines within it came so far.
Closed(l, c) ==
    \E j \in c + 1 .. Len(l) : \/ l[j].kind = "verify"
                               \/ l[j].kind = "book" /\ l[j].ts > l[c].ts + Window
Quiet(l, c) == \A i \in c + 1 .. Len(l) : l[i].kind = "book" /\ l[i].ts <= l[c].ts + Window

LastBefore(l, c) == Max({l[c].ts} \cup {l[i].ts : i \in {j \in Books(l) : j < c}})
Until(l, c) == Max({l[c].ts + Window, l[c].at})
RowOf(l, c) == Cardinality({b \in Checks(l) : b <= c})

\* The state of line i ends at b at the latest; at a at the earliest.
Over(l, i, b) == \E j \in Books(l) : j > i /\ l[j].ts <= b
Alive(l, i, a) == \A j \in Books(l) : j > i => l[j].ts >= a

\* A verdict, in terms that no later line of the log changes.
Judged(l, c, row, done) ==
    /\ row.ts = l[c].ts
    /\ row.outcome = "matched" =>
          /\ ~Suspect(l, c) /\ row.lag \in -Window .. Until(l, c) - l[c].ts
          /\ \E i \in Books(l) : /\ l[i].state = l[c].rest /\ l[i].ts <= Until(l, c)
                                 /\ Alive(l, i, l[c].ts - Window)
    /\ row.outcome = "mismatch" =>
          /\ ~Suspect(l, c) /\ ~GapAfter(l, c) /\ Closed(l, c)
          /\ \A i \in Books(l) : l[i].state = l[c].rest /\ l[i].ts <= l[c].ts + Window
                                    => Over(l, i, LastBefore(l, c) - Window)
    /\ row.outcome = "skipped_gap" => Suspect(l, c) \/ GapAfter(l, c)
    /\ row.outcome = "truncated" => done /\ Quiet(l, c)

\* A check that waits for its verdict: only book lines within its window came
\* after it, and every state that equals it was over before the window opened.
Pending(l, c, check) ==
    /\ check.ts = l[c].ts /\ check.rest = l[c].rest
    /\ ~Suspect(l, c) /\ Quiet(l, c)
    /\ \A i \in Books(l) : l[i].state = l[c].rest => Over(l, i, LastBefore(l, c) - Window)

Waiting(l, e, c) == e.pending # <<>> /\ \A b \in Checks(l) : b <= c

\* Every check has its row, but for the last one while it waits.
VerdictInv(l, e, done) ==
    /\ Len(e.rows) + Len(e.pending) = Cardinality(Checks(l))
    /\ e.pending # <<>> => ~done /\ ~e.gap_pending /\ \E c \in Checks(l) : Waiting(l, e, c)
    /\ \A c \in Checks(l) :
          IF Waiting(l, e, c) THEN Pending(l, c, e.pending[1])
          ELSE RowOf(l, c) \in DOMAIN e.rows /\ Judged(l, c, e.rows[RowOf(l, c)], done)

\* The window of the engine is the book lines at the positions `at`, the last
\* ones of the log; what was dropped before them was over by the cutoff.
Holds(l, window, at) ==
    /\ at \in [DOMAIN window -> Books(l)]
    /\ \A k \in DOMAIN window : window[k].ts = l[at[k]].ts /\ window[k].state = l[at[k]].state
    /\ \A j, k \in DOMAIN window : j < k => at[j] < at[k]
    /\ \A i \in Books(l) : i >= at[1] => \E k \in DOMAIN window : at[k] = i
    /\ \A i \in Books(l) : i < at[1] => window[1].ts <= window[Len(window)].ts - Window

WindowInv(l, e) ==
    /\ e.gap_pending <=> Suspect(l, Len(l) + 1)
    /\ IF l = <<>> THEN e.window = <<>>
       ELSE e.window # <<>> /\ \E at \in [DOMAIN e.window -> Books(l)] : Holds(l, e.window, at)

\* A log opens with a book line; a check is stamped before it is written, and
\* checks are further apart than the window.
LogInv(l) ==
    /\ l # <<>> => 1 \in Books(l)
    /\ \A c \in Checks(l) : l[c].ts <= l[c].at
    /\ \A b, c \in Checks(l) : b < c => l[b].ts + Window < l[c].ts

\* l has one line less than m.
Grown(l, m) ==
    /\ l \in Seq(Record) /\ m \in Seq(Record) /\ Len(m) = Len(l) + 1
    /\ \A i \in 1 .. Len(l) : m[i] = l[i]

\* When a record was written, by its kind.
LEMMA RecordIs ==
    ASSUME NEW r \in Record
    PROVE  /\ r.kind \in {"book", "gap", "verify"} /\ r.ts \in Int /\ WrittenAt(r) \in Int
           /\ r.kind = "verify" => r.at \in Int /\ WrittenAt(r) = r.at /\ r.rest \in RestBooks
           /\ r.kind # "verify" => WrittenAt(r) = r.ts
           /\ r.kind = "book" => r.snapshot \in BOOLEAN
  BY DEF Record, WrittenAt

\* The lines of a log.
LEMMA LinesAre ==
    ASSUME NEW l \in Seq(Record)
    PROVE  /\ Len(l) \in Nat /\ DOMAIN l = 1 .. Len(l)
           /\ \A i \in 1 .. Len(l) : /\ l[i] \in Record
                                     /\ l[i].kind \in {"book", "gap", "verify"} /\ l[i].ts \in Int
                                     /\ WrittenAt(l[i]) \in Int
                                     /\ l[i].kind # "verify" => WrittenAt(l[i]) = l[i].ts
                                     /\ l[i].kind = "verify" => l[i].at \in Int /\ WrittenAt(l[i]) = l[i].at
           /\ Books(l) \subseteq 1 .. Len(l) /\ Checks(l) \subseteq 1 .. Len(l)
           /\ IsFiniteSet(Books(l)) /\ IsFiniteSet(Checks(l))
<1>1. Len(l) \in Nat /\ DOMAIN l = 1 .. Len(l) /\ \A i \in 1 .. Len(l) : l[i] \in Record
  OBVIOUS
<1>2. Books(l) \subseteq 1 .. Len(l) /\ Checks(l) \subseteq 1 .. Len(l)
  BY <1>1 DEF Books, Checks
<1>3. IsFiniteSet(1 .. Len(l))
  BY <1>1, FS_Interval
<1>4. IsFiniteSet(Books(l)) /\ IsFiniteSet(Checks(l))
  BY <1>2, <1>3, FS_Subset
<1> QED BY <1>1, <1>2, <1>4, RecordIs

\* What a line more leaves as it was.
LEMMA GrownIs ==
    ASSUME NEW l, NEW m, Grown(l, m)
    PROVE  LET n == Len(l)
           IN /\ n \in Nat /\ Len(m) = n + 1 /\ DOMAIN l = 1 .. n /\ DOMAIN m = 1 .. n + 1
              /\ \A i \in 1 .. n : m[i] = l[i]
              /\ Books(l) \subseteq 1 .. n /\ Checks(l) \subseteq 1 .. n
              /\ Books(m) = Books(l) \cup (IF m[n + 1].kind = "book" THEN {n + 1} ELSE {})
              /\ Checks(m) = Checks(l) \cup (IF m[n + 1].kind = "verify" THEN {n + 1} ELSE {})
<1>1. /\ Len(l) \in Nat /\ Len(m) = Len(l) + 1 /\ DOMAIN l = 1 .. Len(l) /\ DOMAIN m = 1 .. Len(l) + 1
      /\ \A i \in 1 .. Len(l) : m[i] = l[i]
  BY DEF Grown
<1> QED BY <1>1 DEF Books, Checks

\* The log before was ordered, and the new line is written last.
LEMMA OrderedBefore ==
    ASSUME NEW l, NEW m, Grown(l, m), Ordered(m)
    PROVE  Ordered(l) /\ \A i \in 1 .. Len(l) : WrittenAt(l[i]) <= WrittenAt(m[Len(l) + 1])
<1>1. /\ Len(l) \in Nat /\ DOMAIN l = 1 .. Len(l) /\ DOMAIN m = 1 .. Len(l) + 1
      /\ \A i \in 1 .. Len(l) : m[i] = l[i]
  BY GrownIs
<1>2. \A i \in 1 .. Len(l) : i \in DOMAIN m /\ Len(l) + 1 \in DOMAIN m /\ i < Len(l) + 1
  BY <1>1
<1>3. Ordered(l)
  BY <1>1, <1>2 DEF Ordered
<1> QED BY <1>1, <1>2, <1>3 DEF Ordered

\* What is said of the lines before a check, or before a line yet to come, stays.
LEMMA BeforeKept ==
    ASSUME NEW l, NEW m, Grown(l, m), NEW c \in 1 .. Len(l) + 1
    PROVE  /\ Suspect(m, c) <=> Suspect(l, c)
           /\ c <= Len(l) => LastBefore(m, c) = LastBefore(l, c) /\ Until(m, c) = Until(l, c)
<1> DEFINE n == Len(l)
<1>1. /\ n \in Nat /\ (\A i \in 1 .. n : m[i] = l[i]) /\ Books(l) \subseteq 1 .. n
      /\ \A i \in 1 .. n : i \in Books(m) <=> i \in Books(l)
      /\ Books(m) \subseteq 1 .. n + 1
  <2>1. /\ n \in Nat /\ (\A i \in 1 .. n : m[i] = l[i]) /\ Books(l) \subseteq 1 .. n
        /\ Books(m) = Books(l) \cup (IF m[n + 1].kind = "book" THEN {n + 1} ELSE {})
    BY GrownIs
  <2> QED BY <2>1
<1> HIDE DEF n
<1>2. c \in 1 .. n + 1
  BY DEF n
<1>3. \A i \in 1 .. c - 1 : i \in 1 .. n
  BY <1>1, <1>2
<1>4. Suspect(m, c) <=> Suspect(l, c)
  <2>1. \A g \in 1 .. c - 1 : \A i \in g .. c - 1 : i \in 1 .. c - 1
    BY <1>1, <1>2
  <2> QED BY <1>1, <1>3, <2>1 DEF Suspect
<1>5. ASSUME c <= n
      PROVE  LastBefore(m, c) = LastBefore(l, c) /\ Until(m, c) = Until(l, c)
  <2>1. c \in 1 .. n /\ m[c] = l[c]
    BY <1>1, <1>2, <1>5
  <2>2. {j \in Books(m) : j < c} = {j \in Books(l) : j < c}
    BY <1>1, <1>2, <1>5
  <2>3. \A i \in {j \in Books(l) : j < c} : m[i] = l[i]
    BY <1>1
  <2>4. {m[i].ts : i \in {j \in Books(m) : j < c}} = {l[i].ts : i \in {j \in Books(l) : j < c}}
    BY <2>2, <2>3
  <2> QED BY <2>1, <2>4 DEF LastBefore, Until
<1> QED BY <1>4, <1>5 DEF n

\* What closed the window, or a gap within it, stays; a gap after it is none of
\* the check's.
LEMMA AfterKept ==
    ASSUME NEW l, NEW m, Grown(l, m), NEW c \in 1 .. Len(l)
    PROVE  /\ Closed(l, c) => Closed(m, c)
           /\ GapAfter(l, c) => GapAfter(m, c)
           /\ Closed(l, c) /\ GapAfter(m, c) => GapAfter(l, c)
<1> DEFINE n == Len(l)
<1>1. n \in Nat /\ Len(m) = n + 1 /\ (\A i \in 1 .. n : m[i] = l[i]) /\ c \in 1 .. n
  BY GrownIs
<1> HIDE DEF n
<1>2. m[c] = l[c] /\ \A j \in c + 1 .. n : m[j] = l[j] /\ j \in c + 1 .. n + 1
  BY <1>1
<1>3. Closed(l, c) => Closed(m, c)
  BY <1>1, <1>2 DEF Closed, n
<1>4. \A i \in c + 1 .. n : /\ i \in After(m, c) <=> i \in After(l, c)
                            /\ i \in c + 1 .. Len(m) /\ i \in c + 1 .. Len(l)
  <2> SUFFICES ASSUME NEW i \in c + 1 .. n
               PROVE  i \in After(m, c) <=> i \in After(l, c)
    BY <1>1 DEF n
  <2>1. \A j \in c + 1 .. i - 1 : j \in c + 1 .. n /\ m[j] = l[j]
    BY <1>1, <1>2
  <2>2. i \in c + 1 .. Len(m) /\ i \in c + 1 .. Len(l)
    BY <1>1 DEF n
  <2> QED BY <1>2, <2>1, <2>2 DEF After
<1>5. GapAfter(l, c) => GapAfter(m, c)
  <2> SUFFICES ASSUME NEW i \in After(l, c), l[i].kind = "gap"
               PROVE  GapAfter(m, c)
    BY DEF GapAfter
  <2>1. i \in c + 1 .. n
    BY DEF After, n
  <2> QED BY <1>2, <1>4, <2>1 DEF GapAfter
<1>6. ASSUME Closed(l, c), GapAfter(m, c)
      PROVE  GapAfter(l, c)
  <2>1. PICK i \in After(m, c) : m[i].kind = "gap"
    BY <1>6 DEF GapAfter
  <2>2. PICK j \in c + 1 .. n : \/ l[j].kind = "verify"
                                \/ l[j].kind = "book" /\ l[j].ts > l[c].ts + Window
    BY <1>6 DEF Closed, n
  <2>3. i \in c + 1 .. n + 1 /\ \A k \in c + 1 .. i - 1 :
            m[k].kind # "verify" /\ (m[k].kind = "book" => m[k].ts <= m[c].ts + Window)
    BY <1>1, <2>1 DEF After
  <2>4. i # n + 1
    <3> SUFFICES ASSUME i = n + 1 PROVE FALSE
      OBVIOUS
    <3>1. j \in c + 1 .. i - 1 /\ m[j] = l[j]
      BY <1>1, <1>2
    <3>2. l[j].ts \in Int /\ l[c].ts \in Int
      <4>1. j \in 1 .. n /\ l \in Seq(Record)
        BY <1>1 DEF Grown
      <4> QED BY <1>1, <4>1, LinesAre DEF n
    <3> QED BY <1>2, <2>2, <2>3, <3>1, <3>2, VerifyWindowAssumption, SMTT(60)
  <2>5. i \in c + 1 .. n
    BY <1>1, <2>3, <2>4
  <2> QED BY <1>2, <1>4, <2>1, <2>5 DEF GapAfter
<1> QED BY <1>3, <1>5, <1>6

\* A book line after the window of a check is closed is after the window.
LEMMA ClosedForGood ==
    ASSUME NEW l, NEW m, Grown(l, m), Ordered(m), LogInv(l), NEW c \in Checks(l), Closed(l, c),
           m[Len(l) + 1].kind = "book"
    PROVE  m[Len(l) + 1].ts > l[c].ts + Window
<1> DEFINE n == Len(l)
           t == m[n + 1].ts
<1>1. n \in Nat /\ Len(m) = n + 1 /\ c \in 1 .. n /\ l \in Seq(Record) /\ m \in Seq(Record)
  BY GrownIs DEF Grown
<1>2. t \in Int /\ WrittenAt(m[n + 1]) = t
  <2>1. n + 1 \in 1 .. Len(m)
    BY <1>1
  <2> QED BY <1>1, <2>1, LinesAre
<1>3. PICK j \in c + 1 .. n : \/ l[j].kind = "verify"
                              \/ l[j].kind = "book" /\ l[j].ts > l[c].ts + Window
  BY DEF Closed
<1>4. j \in 1 .. n /\ c < j
  BY <1>1
<1>5. WrittenAt(l[j]) <= t
  BY <1>2, <1>4, OrderedBefore
<1>6. l[j].ts \in Int /\ WrittenAt(l[j]) \in Int /\ l[c].ts \in Int
  BY <1>1, <1>4, LinesAre
<1> HIDE DEF t, n
<1>7. CASE l[j].kind = "verify"
  <2>1. j \in Checks(l)
    BY <1>1, <1>4, <1>7, LinesAre DEF Checks, n
  <2>2. l[c].ts + Window < l[j].ts /\ l[j].ts <= WrittenAt(l[j])
    BY <1>4, <1>7, <2>1 DEF LogInv, WrittenAt
  <2> QED BY <1>2, <1>5, <1>6, <2>2, VerifyWindowAssumption, SMTT(60) DEF t, n
<1>8. CASE l[j].kind = "book" /\ l[j].ts > l[c].ts + Window
  <2>1. WrittenAt(l[j]) = l[j].ts
    BY <1>8 DEF WrittenAt
  <2> QED BY <1>2, <1>5, <1>6, <1>8, <2>1, VerifyWindowAssumption DEF t, n
<1> QED BY <1>3, <1>7, <1>8

\* No later line changes a verdict.
LEMMA JudgedKept ==
    ASSUME NEW l, NEW m, Grown(l, m), Ordered(m), LogInv(l),
           NEW c \in Checks(l), NEW row \in RowType, Judged(l, c, row, FALSE)
    PROVE  Judged(m, c, row, FALSE)
<1> DEFINE n == Len(l)
<1>1. /\ n \in Nat /\ c \in 1 .. n /\ m[c] = l[c] /\ (\A i \in 1 .. n : m[i] = l[i])
      /\ Books(l) \subseteq 1 .. n /\ l \in Seq(Record) /\ m \in Seq(Record) /\ Len(m) = n + 1
      /\ Books(m) = Books(l) \cup (IF m[n + 1].kind = "book" THEN {n + 1} ELSE {})
  BY GrownIs DEF Grown
<1>2. /\ Suspect(m, c) <=> Suspect(l, c)
      /\ LastBefore(m, c) = LastBefore(l, c) /\ Until(m, c) = Until(l, c)
  <2>1. c \in 1 .. Len(l) + 1 /\ c <= Len(l)
    BY <1>1
  <2> QED BY <2>1, BeforeKept
<1>4. /\ Closed(l, c) => Closed(m, c)
      /\ GapAfter(l, c) => GapAfter(m, c)
      /\ Closed(l, c) /\ GapAfter(m, c) => GapAfter(l, c)
  BY <1>1, AfterKept
<1>5. /\ l[c].ts \in Int /\ l[c].at \in Int /\ WrittenAt(l[c]) = l[c].at /\ l[c].ts <= l[c].at
      /\ m[n + 1].ts \in Int
      /\ m[n + 1].kind = "book" => WrittenAt(m[n + 1]) = m[n + 1].ts
  <2>1. n + 1 \in 1 .. Len(m) /\ l[c].kind = "verify"
    BY <1>1 DEF Checks
  <2>2. l[c].ts <= l[c].at
    BY DEF LogInv
  <2> QED BY <1>1, <2>1, <2>2, LinesAre
<1>6. m[n + 1].kind = "book" => m[n + 1].ts >= l[c].ts
  <2>1. WrittenAt(l[c]) <= WrittenAt(m[n + 1])
    BY <1>1, OrderedBefore
  <2> QED BY <1>5, <2>1
<1> HIDE DEF n
<1>7. ASSUME row.outcome = "matched"
      PROVE  /\ ~Suspect(m, c) /\ row.lag \in -Window .. Until(m, c) - m[c].ts
             /\ \E i \in Books(m) : /\ m[i].state = m[c].rest /\ m[i].ts <= Until(m, c)
                                    /\ Alive(m, i, m[c].ts - Window)
  <2>1. ~Suspect(l, c) /\ row.lag \in -Window .. Until(l, c) - l[c].ts
    BY <1>7 DEF Judged
  <2>2. PICK i \in Books(l) : /\ l[i].state = l[c].rest /\ l[i].ts <= Until(l, c)
                              /\ Alive(l, i, l[c].ts - Window)
    BY <1>7 DEF Judged
  <2>3. i \in Books(m) /\ m[i] = l[i]
    BY <1>1
  <2>4. Alive(m, i, m[c].ts - Window)
    <3> SUFFICES ASSUME NEW j \in Books(m), j > i PROVE m[j].ts >= l[c].ts - Window
      BY <1>1 DEF Alive
    <3>1. CASE j \in Books(l)
      BY <1>1, <2>2, <3>1 DEF Alive
    <3>2. CASE j = n + 1 /\ m[n + 1].kind = "book"
      BY <1>5, <1>6, <3>2, VerifyWindowAssumption
    <3> QED BY <1>1, <3>1, <3>2
  <2> QED BY <1>1, <1>2, <2>1, <2>2, <2>3, <2>4
<1>8. ASSUME row.outcome = "mismatch"
      PROVE  /\ ~Suspect(m, c) /\ ~GapAfter(m, c) /\ Closed(m, c)
             /\ \A i \in Books(m) : m[i].state = m[c].rest /\ m[i].ts <= m[c].ts + Window
                                       => Over(m, i, LastBefore(m, c) - Window)
  <2>1. /\ ~Suspect(l, c) /\ ~GapAfter(l, c) /\ Closed(l, c)
        /\ \A i \in Books(l) : l[i].state = l[c].rest /\ l[i].ts <= l[c].ts + Window
                                  => Over(l, i, LastBefore(l, c) - Window)
    BY <1>8 DEF Judged
  <2>2. ASSUME NEW i \in Books(m), m[i].state = m[c].rest, m[i].ts <= m[c].ts + Window
        PROVE  Over(m, i, LastBefore(m, c) - Window)
    <3>1. i # n + 1 \/ m[n + 1].kind # "book"
      <4>1. m[n + 1].kind = "book" => m[n + 1].ts > l[c].ts + Window
        BY <2>1, ClosedForGood DEF n
      <4> QED BY <1>1, <1>5, <2>2, <4>1, VerifyWindowAssumption
    <3>2. i \in Books(l) /\ m[i] = l[i]
      BY <1>1, <3>1
    <3>3. Over(l, i, LastBefore(l, c) - Window)
      BY <1>1, <2>1, <2>2, <3>2
    <3>4. PICK j \in Books(l) : j > i /\ l[j].ts <= LastBefore(l, c) - Window
      BY <3>3 DEF Over
    <3>5. j \in Books(m) /\ m[j] = l[j]
      BY <1>1
    <3> QED BY <1>2, <3>4, <3>5 DEF Over
  <2> QED BY <1>2, <1>4, <2>1, <2>2
<1>9. row.outcome = "skipped_gap" => Suspect(m, c) \/ GapAfter(m, c)
  BY <1>2, <1>4 DEF Judged
<1>10. row.outcome # "truncated" /\ row.ts = m[c].ts
  BY <1>1 DEF Judged
<1> QED BY <1>7, <1>8, <1>9, <1>10 DEF Judged

\* A gap makes the book suspect, and only a snapshot answers it.
LEMMA SuspectNext ==
    ASSUME NEW l, NEW m, Grown(l, m)
    PROVE  LET r == m[Len(l) + 1]
           IN Suspect(m, Len(m) + 1)
                 <=> r.kind = "gap" \/ (Suspect(l, Len(l) + 1) /\ ~(r.kind = "book" /\ r.snapshot))
<1> DEFINE n == Len(l)
           r == m[n + 1]
<1>1. n \in Nat /\ Len(m) = n + 1 /\ n + 1 \in 1 .. Len(l) + 1 /\ DOMAIN m = 1 .. n + 1
  BY GrownIs
<1>2. Suspect(m, n + 1) <=> Suspect(l, n + 1)
  BY <1>1, BeforeKept
<1>3. n + 1 \in Books(m) <=> r.kind = "book"
  BY <1>1 DEF Books
<1> HIDE DEF n
<1>4. Suspect(m, Len(m) + 1) => r.kind = "gap" \/ (Suspect(m, n + 1) /\ ~(r.kind = "book" /\ r.snapshot))
  <2> SUFFICES ASSUME NEW g \in 1 .. n + 1, m[g].kind = "gap", r.kind # "gap",
                      \A i \in g .. n + 1 : i \in Books(m) => ~m[i].snapshot
               PROVE  Suspect(m, n + 1) /\ ~(r.kind = "book" /\ r.snapshot)
    BY <1>1 DEF Suspect
  <2>1. g \in 1 .. (n + 1) - 1 /\ n + 1 \in g .. n + 1
    BY <1>1
  <2>2. \A i \in g .. (n + 1) - 1 : i \in g .. n + 1
    BY <1>1
  <2>3. Suspect(m, n + 1)
    BY <2>1, <2>2 DEF Suspect
  <2> QED BY <1>3, <2>1, <2>3
<1>5. r.kind = "gap" => Suspect(m, Len(m) + 1)
  <2> SUFFICES ASSUME r.kind = "gap" PROVE Suspect(m, n + 2)
    BY <1>1
  <2>1. n + 1 \in 1 .. (n + 2) - 1 /\ \A i \in n + 1 .. (n + 2) - 1 : i = n + 1
    BY <1>1
  <2>2. n + 1 \notin Books(m)
    BY <1>3
  <2> QED BY <2>1, <2>2 DEF Suspect
<1>6. Suspect(m, n + 1) /\ ~(r.kind = "book" /\ r.snapshot) => Suspect(m, Len(m) + 1)
  <2> SUFFICES ASSUME NEW g \in 1 .. (n + 1) - 1, m[g].kind = "gap", ~(r.kind = "book" /\ r.snapshot),
                      \A i \in g .. (n + 1) - 1 : i \in Books(m) => ~m[i].snapshot
               PROVE  Suspect(m, n + 2)
    BY <1>1 DEF Suspect
  <2>1. g \in 1 .. (n + 2) - 1
    BY <1>1
  <2>2. \A i \in g .. (n + 2) - 1 : i \in g .. (n + 1) - 1 \/ i = n + 1
    BY <1>1
  <2> QED BY <1>3, <2>1, <2>2 DEF Suspect
<1> QED BY <1>2, <1>4, <1>5, <1>6 DEF n

\* A line that is no book event leaves the window as it is.
LEMMA WindowKept ==
    ASSUME NEW l, NEW m, Grown(l, m), l # <<>>, m[Len(l) + 1].kind # "book",
           NEW e, NEW f, WindowInv(l, e),
           f.window = e.window,
           f.gap_pending <=> e.gap_pending \/ m[Len(l) + 1].kind = "gap"
    PROVE  WindowInv(m, f)
<1>1. f.gap_pending <=> Suspect(m, Len(m) + 1)
  <2>1. e.gap_pending <=> Suspect(l, Len(l) + 1)
    BY DEF WindowInv
  <2>2. Suspect(m, Len(m) + 1)
           <=> m[Len(l) + 1].kind = "gap"
               \/ (Suspect(l, Len(l) + 1) /\ ~(m[Len(l) + 1].kind = "book" /\ m[Len(l) + 1].snapshot))
    BY SuspectNext
  <2> QED BY <2>1, <2>2
<1>2. /\ Books(m) = Books(l) /\ \A i \in Books(l) : m[i] = l[i]
  <2>1. /\ Books(l) \subseteq 1 .. Len(l) /\ \A i \in 1 .. Len(l) : m[i] = l[i]
        /\ Books(m) = Books(l) \cup (IF m[Len(l) + 1].kind = "book" THEN {Len(l) + 1} ELSE {})
    BY GrownIs
  <2> QED BY <2>1
<1>3. PICK at \in [DOMAIN e.window -> Books(l)] : Holds(l, e.window, at)
  BY DEF WindowInv
<1>4. Holds(m, e.window, at)
  BY <1>2, <1>3 DEF Holds
<1>5. m # <<>>
  BY GrownIs
<1> QED BY <1>1, <1>2, <1>3, <1>4, <1>5 DEF WindowInv

\* A book event is the last entry of the window.
LEMMA WindowTakes ==
    ASSUME NEW l, NEW m, Grown(l, m), Ordered(m), m[Len(l) + 1].kind = "book",
           NEW e \in Engine, WindowInv(l, e), NEW x \in Entry,
           x.ts = m[Len(l) + 1].ts, x.state = m[Len(l) + 1].state
    PROVE  LET w == Append(e.window, x)
           IN \E at \in [DOMAIN w -> Books(m)] : Holds(m, w, at)
<1> DEFINE n == Len(l)
           L == Len(e.window)
           w == Append(e.window, x)
<1>1. /\ n \in Nat /\ Books(l) \subseteq 1 .. n /\ \A i \in Books(l) : m[i] = l[i]
      /\ Books(m) = Books(l) \cup {n + 1}
  BY GrownIs
<1>2. /\ L \in Nat /\ DOMAIN e.window = 1 .. L /\ DOMAIN w = 1 .. L + 1 /\ Len(w) = L + 1
      /\ \A k \in 1 .. L : w[k] = e.window[k] /\ w[k] \in Entry
      /\ w[L + 1] = x
  <2>1. e.window \in Seq(Entry)
    BY DEF Engine
  <2> QED BY <2>1
<1> HIDE DEF n, w, L
<1>3. CASE l = <<>>
  <2> DEFINE at == [k \in DOMAIN w |-> n + 1]
  <2>1. L = 0 /\ n = 0
    BY <1>3 DEF WindowInv, n, L
  <2>2. at \in [DOMAIN w -> Books(m)]
    BY <1>1
  <2>3. Holds(m, w, at)
    BY <1>1, <1>2, <2>1, <2>2 DEF Holds, n
  <2> QED BY <2>2, <2>3 DEF w
<1>4. CASE l # <<>>
  <2>1. PICK at \in [DOMAIN e.window -> Books(l)] : Holds(l, e.window, at)
    BY <1>4 DEF WindowInv
  <2>2. L >= 1
    BY <1>2, <1>4 DEF WindowInv, L
  <2> DEFINE new == [k \in DOMAIN w |-> IF k <= L THEN at[k] ELSE n + 1]
  <2>3. \A k \in 1 .. L : at[k] \in Books(l) /\ at[k] \in 1 .. n /\ new[k] = at[k]
    BY <1>1, <1>2
  <2>4. new[L + 1] = n + 1 /\ new \in [DOMAIN w -> Books(m)]
    BY <1>1, <1>2, <2>3
  <2> HIDE DEF new
  <2>5. \A k \in DOMAIN w : w[k].ts = m[new[k]].ts /\ w[k].state = m[new[k]].state
    <3> SUFFICES ASSUME NEW k \in 1 .. L + 1
                 PROVE  w[k].ts = m[new[k]].ts /\ w[k].state = m[new[k]].state
      BY <1>2
    <3>1. CASE k \in 1 .. L
      <4>1. e.window[k].ts = l[at[k]].ts /\ e.window[k].state = l[at[k]].state
        BY <1>2, <2>1, <3>1 DEF Holds
      <4>2. w[k] = e.window[k] /\ m[new[k]] = l[at[k]]
        BY <1>1, <1>2, <2>3, <3>1
      <4> QED BY <4>1, <4>2
    <3>2. CASE k = L + 1
      BY <1>2, <2>4, <3>2 DEF n
    <3> QED BY <1>2, <3>1, <3>2
  <2>6. \A j, k \in DOMAIN w : j < k => new[j] < new[k]
    <3> SUFFICES ASSUME NEW j \in 1 .. L + 1, NEW k \in 1 .. L + 1, j < k PROVE new[j] < new[k]
      BY <1>2
    <3>1. j \in 1 .. L
      BY <1>2
    <3>2. CASE k \in 1 .. L
      BY <1>2, <2>1, <2>3, <3>1, <3>2 DEF Holds
    <3>3. CASE k = L + 1
      BY <1>1, <2>3, <2>4, <3>1, <3>3
    <3> QED BY <1>2, <3>2, <3>3
  <2>7. 1 \in 1 .. L /\ L \in 1 .. L /\ new[1] = at[1] /\ at[1] \in 1 .. n
    BY <1>2, <2>2, <2>3
  <2>8. \A i \in Books(m) : i >= new[1] => \E k \in DOMAIN w : new[k] = i
    <3> SUFFICES ASSUME NEW i \in Books(m), i >= new[1] PROVE \E k \in DOMAIN w : new[k] = i
      OBVIOUS
    <3>1. CASE i = n + 1
      BY <1>2, <2>4, <3>1
    <3>2. CASE i \in Books(l)
      <4>1. PICK k \in DOMAIN e.window : at[k] = i
        BY <2>1, <2>7, <3>2 DEF Holds
      <4> QED BY <1>2, <2>3, <4>1
    <3> QED BY <1>1, <3>1, <3>2
  <2>9. \A i \in Books(m) : i < new[1] => w[1].ts <= w[Len(w)].ts - Window
    <3> SUFFICES ASSUME NEW i \in Books(m), i < new[1] PROVE w[1].ts <= w[L + 1].ts - Window
      BY <1>2
    <3>1. i \in Books(l)
      BY <1>1, <2>7
    <3>2. e.window[1].ts <= e.window[L].ts - Window
      BY <2>1, <2>7, <3>1 DEF Holds, L
    <3>3. e.window[L].ts <= x.ts
      <4>1. e.window[L].ts = l[at[L]].ts /\ at[L] \in 1 .. n /\ l[at[L]].kind = "book"
        BY <1>2, <2>1, <2>3, <2>7 DEF Holds, Books
      <4>2. WrittenAt(l[at[L]]) <= WrittenAt(m[n + 1])
        BY <4>1, OrderedBefore DEF n
      <4> QED BY <4>1, <4>2 DEF WrittenAt, n
    <3>4. w[1] = e.window[1] /\ w[1].ts \in Int /\ e.window[L].ts \in Int /\ w[L + 1].ts \in Int
      BY <1>2, <2>7 DEF Entry
    <3> QED BY <1>2, <3>2, <3>3, <3>4, VerifyWindowAssumption
  <2>10. Holds(m, w, new)
    BY <2>4, <2>5, <2>6, <2>8, <2>9 DEF Holds
  <2> QED BY <2>4, <2>10 DEF w
<1> QED BY <1>3, <1>4

\* And what is pruned was over.
LEMMA WindowPruned ==
    ASSUME NEW m, Books(m) \subseteq Nat, NEW w \in Seq(Entry), w # <<>>,
           NEW at \in [DOMAIN w -> Books(m)], Holds(m, w, at)
    PROVE  LET p == Pruned(w, w[Len(w)].ts - Window)
           IN p # <<>> /\ \E new \in [DOMAIN p -> Books(m)] : Holds(m, p, new)
<1> DEFINE L == Len(w)
           cutoff == w[L].ts - Window
           p == Pruned(w, cutoff)
<1>1. L \in Nat /\ L >= 1 /\ DOMAIN w = 1 .. L /\ \A k \in 1 .. L : w[k] \in Entry
  OBVIOUS
<1>2. cutoff \in Int
  BY <1>1, VerifyWindowAssumption DEF Entry
<1> HIDE DEF cutoff
<1>3. PICK f \in DOMAIN w : /\ p \in Seq(Entry) /\ Len(p) = L - f + 1
                            /\ \A k \in 1 .. L - f + 1 : p[k] = w[f + k - 1]
                            /\ f > 1 => w[f].ts <= cutoff
  BY <1>2, PrunedIs
<1> HIDE DEF p, L
<1> DEFINE q == L - f + 1
           new == [k \in DOMAIN p |-> at[f + k - 1]]
<1>4. /\ f \in 1 .. L /\ q \in Nat /\ q >= 1 /\ DOMAIN p = 1 .. q /\ p # <<>> /\ Len(p) = q
      /\ \A k \in 1 .. q : f + k - 1 \in 1 .. L
  BY <1>1, <1>3
<1>5. /\ \A k \in 1 .. q : new[k] = at[f + k - 1] /\ p[k] = w[f + k - 1]
      /\ new \in [DOMAIN p -> Books(m)]
  BY <1>1, <1>3, <1>4
<1>6. \A k \in 1 .. L : at[k] \in Nat
  BY <1>1
<1> HIDE DEF new, q
<1>7. \A k \in DOMAIN p : p[k].ts = m[new[k]].ts /\ p[k].state = m[new[k]].state
  BY <1>1, <1>4, <1>5, SMTT(60) DEF Holds
<1>8. \A j, k \in DOMAIN p : j < k => new[j] < new[k]
  <2> SUFFICES ASSUME NEW j \in 1 .. q, NEW k \in 1 .. q, j < k PROVE new[j] < new[k]
    BY <1>4
  <2>1. f + j - 1 < f + k - 1 /\ f + j - 1 \in 1 .. L /\ f + k - 1 \in 1 .. L
    BY <1>4
  <2> QED BY <1>1, <1>5, <2>1 DEF Holds
<1>9. new[1] = at[f] /\ p[1] = w[f] /\ p[Len(p)] = w[L]
  <2>1. 1 \in 1 .. q /\ q \in 1 .. q /\ f + 1 - 1 = f /\ f + q - 1 = L
    BY <1>1, <1>4 DEF q
  <2> QED BY <1>4, <1>5, <2>1
<1>10. \A i \in Books(m) : i >= new[1] => \E k \in DOMAIN p : new[k] = i
  <2> SUFFICES ASSUME NEW i \in Books(m), i >= at[f] PROVE \E k \in 1 .. q : new[k] = i
    BY <1>4, <1>9
  <2>1. i \in Nat /\ at[1] <= at[f]
    <3>1. CASE f = 1
      BY <1>1, <1>6, <3>1
    <3>2. CASE f > 1
      BY <1>1, <1>4, <1>6, <3>2 DEF Holds
    <3> QED BY <1>4, <3>1, <3>2
  <2>2. 1 \in 1 .. L
    BY <1>1
  <2>3. PICK k \in 1 .. L : at[k] = i
    BY <1>1, <1>4, <1>6, <2>1, <2>2 DEF Holds
  <2>4. k >= f
    <3>1. k < f => at[k] < at[f]
      BY <1>1, <1>4 DEF Holds
    <3> QED BY <1>4, <1>6, <2>3, <3>1
  <2>5. k - f + 1 \in 1 .. q /\ f + (k - f + 1) - 1 = k
    BY <1>1, <1>4, <2>4 DEF q
  <2> QED BY <1>5, <2>3, <2>5
<1>11. \A i \in Books(m) : i < new[1] => p[1].ts <= p[Len(p)].ts - Window
  <2> SUFFICES ASSUME NEW i \in Books(m), i < at[f] PROVE w[f].ts <= w[L].ts - Window
    BY <1>9
  <2>1. CASE f = 1
    BY <2>1 DEF Holds, L
  <2>2. CASE f > 1
    BY <1>3, <2>2 DEF cutoff
  <2> QED BY <1>4, <2>1, <2>2
<1>12. Holds(m, p, new)
  BY <1>5, <1>7, <1>8, <1>10, <1>11 DEF Holds
<1> QED BY <1>4, <1>5, <1>12 DEF p, cutoff, L

\* The row of a check stays its row; the row of the last check is the last.
LEMMA RowOfIs ==
    ASSUME NEW l, NEW m, Grown(l, m), NEW c \in Checks(l)
    PROVE  /\ RowOf(m, c) = RowOf(l, c)
           /\ (\A b \in Checks(l) : b <= c) => RowOf(l, c) = Cardinality(Checks(l))
<1>1. /\ Len(l) \in Nat /\ Checks(l) \subseteq 1 .. Len(l)
      /\ Checks(m) = Checks(l) \cup (IF m[Len(l) + 1].kind = "verify" THEN {Len(l) + 1} ELSE {})
  BY GrownIs
<1>2. {b \in Checks(m) : b <= c} = {b \in Checks(l) : b <= c}
  BY <1>1
<1>3. (\A b \in Checks(l) : b <= c) => {b \in Checks(l) : b <= c} = Checks(l)
  OBVIOUS
<1> QED BY <1>2, <1>3 DEF RowOf

\* The checks that have their verdict keep it, whatever rows come after.
LEMMA OthersKept ==
    ASSUME NEW l, NEW m, Grown(l, m), Ordered(m), LogInv(l), NEW e \in Engine,
           VerdictInv(l, e, FALSE), NEW c \in Checks(l), ~Waiting(l, e, c),
           NEW rows \in Seq(RowType), Len(rows) >= Len(e.rows),
           \A k \in 1 .. Len(e.rows) : rows[k] = e.rows[k]
    PROVE  RowOf(m, c) \in DOMAIN rows /\ Judged(m, c, rows[RowOf(m, c)], FALSE)
<1>1. RowOf(l, c) \in DOMAIN e.rows /\ Judged(l, c, e.rows[RowOf(l, c)], FALSE)
  BY DEF VerdictInv
<1>2. /\ e.rows \in Seq(RowType) /\ DOMAIN e.rows = 1 .. Len(e.rows) /\ Len(e.rows) \in Nat
      /\ DOMAIN rows = 1 .. Len(rows) /\ Len(rows) \in Nat
  BY DEF Engine
<1>3. RowOf(m, c) = RowOf(l, c)
  BY RowOfIs
<1>4. e.rows[RowOf(l, c)] \in RowType /\ rows[RowOf(m, c)] = e.rows[RowOf(l, c)]
  BY <1>1, <1>2, <1>3
<1>5. RowOf(m, c) \in DOMAIN rows
  BY <1>1, <1>2, <1>3
<1>6. Judged(m, c, e.rows[RowOf(l, c)], FALSE)
  BY <1>1, <1>4, JudgedKept
<1> QED BY <1>4, <1>5, <1>6

\* At most one check waits.
LEMMA LengthsAre ==
    ASSUME NEW e \in Engine, Len(e.pending) <= 1
    PROVE  /\ e.rows \in Seq(RowType) /\ Len(e.rows) \in Nat
           /\ e.pending = <<>> => Len(e.pending) = 0
           /\ e.pending # <<>> => Len(e.pending) = 1
<1>1. e.rows \in Seq(RowType) /\ e.pending \in Seq(Check)
  BY DEF Engine
<1>2. Len(<<>>) = 0 /\ Len(e.pending) \in Nat /\ (Len(e.pending) = 0 => e.pending = <<>>)
  BY <1>1
<1>3. Len(e.pending) \in {0, 1}
  <2> DEFINE k == Len(e.pending)
  <2>1. k \in Nat /\ k <= 1
    BY <1>2
  <2> HIDE DEF k
  <2>2. k \in {0, 1}
    BY <2>1
  <2> QED BY <2>2 DEF k
<1> QED BY <1>1, <1>2, <1>3

\* rows is old and one row more.
Adds(rows, old, row) ==
    /\ rows \in Seq(RowType) /\ Len(rows) = Len(old) + 1 /\ rows[Len(old) + 1] = row
    /\ \A k \in 1 .. Len(old) : rows[k] = old[k]

\* Append adds a row.
LEMMA AppendAdds ==
    ASSUME NEW old \in Seq(RowType), NEW row \in RowType
    PROVE  Adds(Append(old, row), old, row)
  BY DEF Adds

\* Every check of l has its row, and the verdict holds for m.
AllJudged(l, m, rows) ==
    /\ rows \in Seq(RowType) /\ Len(rows) = Cardinality(Checks(l))
    /\ \A c \in Checks(l) :
          RowOf(m, c) \in 1 .. Len(rows) /\ Judged(m, c, rows[RowOf(m, c)], FALSE)

\* No check waits: all have their verdicts.
LEMMA IdleIsJudged ==
    ASSUME NEW l, NEW m, Grown(l, m), Ordered(m), LogInv(l),
           NEW e \in Engine, Len(e.pending) <= 1, VerdictInv(l, e, FALSE), e.pending = <<>>
    PROVE  AllJudged(l, m, e.rows)
<1>1. e.rows \in Seq(RowType) /\ Len(e.rows) \in Nat /\ Len(e.pending) = 0
  BY LengthsAre
<1>2. Len(e.rows) = Cardinality(Checks(l))
  <2>1. Len(e.rows) + Len(e.pending) = Cardinality(Checks(l))
    BY DEF VerdictInv
  <2> QED BY <1>1, <2>1
<1>3. \A c \in Checks(l) : ~Waiting(l, e, c)
  BY DEF Waiting
<1>4. /\ Len(e.rows) >= Len(e.rows) /\ \A k \in 1 .. Len(e.rows) : e.rows[k] = e.rows[k]
      /\ DOMAIN e.rows = 1 .. Len(e.rows)
  BY <1>1
<1>5. \A c \in Checks(l) : RowOf(m, c) \in DOMAIN e.rows /\ Judged(m, c, e.rows[RowOf(m, c)], FALSE)
  BY <1>1, <1>3, <1>4, OthersKept
<1> QED BY <1>1, <1>2, <1>4, <1>5 DEF AllJudged

\* The check that waits is answered: all have their verdicts.
LEMMA AnsweredIsJudged ==
    ASSUME NEW l, NEW m, Grown(l, m), Ordered(m), LogInv(l),
           NEW e \in Engine, Len(e.pending) <= 1, VerdictInv(l, e, FALSE), e.pending # <<>>,
           NEW row, NEW rows, Adds(rows, e.rows, row),
           \A c \in Checks(l) : Waiting(l, e, c) => Judged(m, c, row, FALSE)
    PROVE  AllJudged(l, m, rows)
<1>1. e.rows \in Seq(RowType) /\ Len(e.rows) \in Nat /\ Len(e.pending) = 1
  BY LengthsAre
<1>2. /\ rows \in Seq(RowType) /\ Len(rows) = Len(e.rows) + 1 /\ rows[Len(e.rows) + 1] = row
      /\ \A k \in 1 .. Len(e.rows) : rows[k] = e.rows[k]
      /\ Len(rows) >= Len(e.rows) /\ DOMAIN rows = 1 .. Len(rows)
  BY <1>1 DEF Adds
<1>3. Len(rows) = Cardinality(Checks(l))
  <2>1. Len(e.rows) + Len(e.pending) = Cardinality(Checks(l))
    BY DEF VerdictInv
  <2> QED BY <1>1, <1>2, <2>1
<1>4. ASSUME NEW c \in Checks(l)
      PROVE  RowOf(m, c) \in 1 .. Len(rows) /\ Judged(m, c, rows[RowOf(m, c)], FALSE)
  <2>1. CASE Waiting(l, e, c)
    <3>1. RowOf(m, c) = Len(e.rows) + 1
      BY <1>2, <1>3, <2>1, RowOfIs DEF Waiting
    <3>2. Len(e.rows) + 1 \in 1 .. Len(rows)
      BY <1>1, <1>2
    <3> QED BY <1>2, <2>1, <3>1, <3>2
  <2>2. CASE ~Waiting(l, e, c)
    BY <1>2, <2>2, OthersKept
  <2> QED BY <2>1, <2>2
<1> QED BY <1>2, <1>3, <1>4 DEF AllJudged

\* After a line that is no check, when no check waits.
LEMMA NoCheckWaits ==
    ASSUME NEW l, NEW m, Grown(l, m), m[Len(l) + 1].kind # "verify",
           NEW f \in Engine, f.pending = <<>>, AllJudged(l, m, f.rows)
    PROVE  VerdictInv(m, f, FALSE)
<1>1. Checks(m) = Checks(l)
  <2>1. Checks(m) = Checks(l) \cup (IF m[Len(l) + 1].kind = "verify" THEN {Len(l) + 1} ELSE {})
    BY GrownIs
  <2> QED BY <2>1
<1>2. \A c \in Checks(m) : ~Waiting(m, f, c)
  BY DEF Waiting
<1>3. Len(f.rows) \in Nat /\ Len(f.pending) = 0 /\ DOMAIN f.rows = 1 .. Len(f.rows)
  BY DEF AllJudged
<1>4. Len(f.rows) + Len(f.pending) = Cardinality(Checks(m))
  BY <1>1, <1>3 DEF AllJudged
<1> QED BY <1>1, <1>2, <1>3, <1>4 DEF VerdictInv, AllJudged

\* After such a line, when the check goes on waiting.
LEMMA CheckWaitsOn ==
    ASSUME NEW l, NEW m, Grown(l, m), Ordered(m), LogInv(l), m[Len(l) + 1].kind # "verify",
           NEW e \in Engine, Len(e.pending) <= 1, VerdictInv(l, e, FALSE), e.pending # <<>>,
           NEW f \in Engine, f.pending = e.pending, f.rows = e.rows, ~f.gap_pending,
           \A c \in Checks(l) : Waiting(l, e, c) => Pending(m, c, e.pending[1])
    PROVE  VerdictInv(m, f, FALSE)
<1>1. Checks(m) = Checks(l)
  <2>1. Checks(m) = Checks(l) \cup (IF m[Len(l) + 1].kind = "verify" THEN {Len(l) + 1} ELSE {})
    BY GrownIs
  <2> QED BY <2>1
<1>2. \A c \in Checks(m) : c \in Checks(l) /\ (Waiting(m, f, c) <=> Waiting(l, e, c))
  BY <1>1 DEF Waiting
<1>3. /\ e.rows \in Seq(RowType) /\ Len(e.rows) \in Nat /\ Len(e.rows) >= Len(e.rows)
      /\ \A k \in 1 .. Len(e.rows) : e.rows[k] = e.rows[k]
  BY LengthsAre
<1>4. \A c \in Checks(m) : ~Waiting(m, f, c) =>
          RowOf(m, c) \in DOMAIN f.rows /\ Judged(m, c, f.rows[RowOf(m, c)], FALSE)
  BY <1>2, <1>3, OthersKept
<1>5. \E c \in Checks(m) : Waiting(m, f, c)
  BY <1>1, <1>2 DEF VerdictInv
<1>6. Len(f.rows) + Len(f.pending) = Cardinality(Checks(m))
  BY <1>1 DEF VerdictInv
<1> QED BY <1>2, <1>4, <1>5, <1>6 DEF VerdictInv

\* A check line is one check more, and its row is the one after the others.
LEMMA NewCheckIs ==
    ASSUME NEW l, NEW m, Grown(l, m), m[Len(l) + 1].kind = "verify"
    PROVE  LET new == Len(l) + 1
           IN /\ Checks(m) = Checks(l) \cup {new} /\ new \notin Checks(l)
              /\ \A c \in Checks(m) : c <= new
              /\ Cardinality(Checks(m)) = Cardinality(Checks(l)) + 1
              /\ RowOf(m, new) = Cardinality(Checks(l)) + 1
<1> DEFINE new == Len(l) + 1
<1>1. /\ Len(l) \in Nat /\ Checks(l) \subseteq 1 .. Len(l) /\ Checks(m) = Checks(l) \cup {new}
      /\ l \in Seq(Record) /\ m \in Seq(Record)
  <2>1. /\ Len(l) \in Nat /\ Checks(l) \subseteq 1 .. Len(l)
        /\ Checks(m) = Checks(l) \cup (IF m[new].kind = "verify" THEN {new} ELSE {})
    BY GrownIs
  <2> QED BY <2>1 DEF Grown
<1>2. new \notin Checks(l) /\ \A c \in Checks(m) : c <= new
  BY <1>1
<1>3. Cardinality(Checks(m)) = Cardinality(Checks(l)) + 1
  <2>1. IsFiniteSet(Checks(l))
    BY <1>1, LinesAre
  <2> HIDE DEF new
  <2> QED BY <1>1, <1>2, <2>1, FS_AddElement
<1>4. RowOf(m, new) = Cardinality(Checks(l)) + 1
  <2>1. {b \in Checks(m) : b <= new} = Checks(m)
    BY <1>2
  <2> QED BY <1>3, <2>1 DEF RowOf
<1> QED BY <1>1, <1>2, <1>3, <1>4

\* The new check is answered at once.
LEMMA NewIsAnswered ==
    ASSUME NEW l, NEW m, Grown(l, m), m[Len(l) + 1].kind = "verify", NEW rows, AllJudged(l, m, rows),
           NEW f \in Engine, f.pending = <<>>,
           NEW row, Adds(f.rows, rows, row), Judged(m, Len(l) + 1, row, FALSE)
    PROVE  VerdictInv(m, f, FALSE)
<1> DEFINE new == Len(l) + 1
<1>1. /\ Checks(m) = Checks(l) \cup {new}
      /\ Cardinality(Checks(m)) = Cardinality(Checks(l)) + 1
      /\ RowOf(m, new) = Cardinality(Checks(l)) + 1
  BY NewCheckIs
<1>2. Len(rows) = Cardinality(Checks(l)) /\ Len(rows) \in Nat
  BY DEF AllJudged
<1>3. /\ Len(f.rows) = Len(rows) + 1 /\ f.rows[Len(rows) + 1] = row
      /\ (\A k \in 1 .. Len(rows) : f.rows[k] = rows[k])
      /\ DOMAIN f.rows = 1 .. Len(f.rows)
  BY DEF Adds
<1> HIDE DEF new
<1>4. RowOf(m, new) \in DOMAIN f.rows /\ Judged(m, new, f.rows[RowOf(m, new)], FALSE)
  <2>1. Len(rows) + 1 \in DOMAIN f.rows
    BY <1>2, <1>3
  <2> QED BY <1>1, <1>2, <1>3, <2>1 DEF new
<1>5. ASSUME NEW c \in Checks(l)
      PROVE  RowOf(m, c) \in DOMAIN f.rows /\ Judged(m, c, f.rows[RowOf(m, c)], FALSE)
  <2>1. RowOf(m, c) \in 1 .. Len(rows) /\ Judged(m, c, rows[RowOf(m, c)], FALSE)
    BY DEF AllJudged
  <2>2. 1 .. Len(rows) \subseteq DOMAIN f.rows
    BY <1>2, <1>3
  <2> QED BY <1>3, <2>1, <2>2
<1>6. \A c \in Checks(m) : RowOf(m, c) \in DOMAIN f.rows /\ Judged(m, c, f.rows[RowOf(m, c)], FALSE)
  BY <1>1, <1>4, <1>5
<1>7. \A c \in Checks(m) : ~Waiting(m, f, c)
  BY DEF Waiting
<1>8. Len(f.rows) + Len(f.pending) = Cardinality(Checks(m))
  BY <1>1, <1>2, <1>3
<1> QED BY <1>6, <1>7, <1>8 DEF VerdictInv

\* The new check waits.
LEMMA NewWaits ==
    ASSUME NEW l, NEW m, Grown(l, m), m[Len(l) + 1].kind = "verify",
           NEW f \in Engine, AllJudged(l, m, f.rows), Len(f.pending) = 1, ~f.gap_pending,
           Pending(m, Len(l) + 1, f.pending[1])
    PROVE  VerdictInv(m, f, FALSE)
<1> DEFINE new == Len(l) + 1
<1>1. /\ Checks(m) = Checks(l) \cup {new} /\ new \notin Checks(l)
      /\ \A c \in Checks(m) : c <= new
      /\ Cardinality(Checks(m)) = Cardinality(Checks(l)) + 1
  BY NewCheckIs
<1>2. Len(f.rows) = Cardinality(Checks(l)) /\ Len(f.rows) \in Nat /\ DOMAIN f.rows = 1 .. Len(f.rows)
  BY DEF AllJudged
<1>3. f.pending # <<>>
  <2>1. Len(<<>>) # 1
    OBVIOUS
  <2> QED BY <2>1
<1> HIDE DEF new
<1>5. \A c \in Checks(m) : Waiting(m, f, c) <=> c = new
  <2>1. new \in Checks(m) /\ \A c \in Checks(l) : ~(new <= c)
    <3>1. Len(l) \in Nat /\ Checks(l) \subseteq 1 .. Len(l)
      BY GrownIs
    <3> QED BY <1>1, <3>1 DEF new
  <2> QED BY <1>1, <1>3, <2>1 DEF Waiting
<1>6. \A c \in Checks(m) : c # new =>
          RowOf(m, c) \in DOMAIN f.rows /\ Judged(m, c, f.rows[RowOf(m, c)], FALSE)
  BY <1>1, <1>2 DEF AllJudged
<1>7. Len(f.rows) + Len(f.pending) = Cardinality(Checks(m))
  BY <1>1, <1>2
<1>8. Pending(m, new, f.pending[1]) /\ new \in Checks(m)
  BY <1>1 DEF new
<1> QED BY <1>3, <1>5, <1>6, <1>7, <1>8 DEF VerdictInv

\* The last book event before a check, or the check itself.
LEMMA LastBeforeIs ==
    ASSUME NEW l \in Seq(Record), NEW c \in Checks(l)
    PROVE  /\ LastBefore(l, c) \in Int /\ LastBefore(l, c) >= l[c].ts
           /\ \A i \in Books(l) : i < c => l[i].ts <= LastBefore(l, c)
           /\ LastBefore(l, c) = l[c].ts \/ \E i \in Books(l) : i < c /\ LastBefore(l, c) = l[i].ts
<1> DEFINE S == {j \in Books(l) : j < c}
           T == {l[i].ts : i \in S}
           U == T \cup {l[c].ts}
<1>1. /\ Books(l) \subseteq 1 .. Len(l) /\ c \in 1 .. Len(l) /\ IsFiniteSet(Books(l))
      /\ \A i \in 1 .. Len(l) : l[i].ts \in Int
  BY LinesAre
<1>2. IsFiniteSet(S)
  BY <1>1, FS_Subset
<1>3. T \subseteq Int /\ l[c].ts \in Int
  BY <1>1
<1>4. IsFiniteSet(T)
  <2> DEFINE f == [i \in S |-> l[i].ts]
  <2>1. f \in Surjection(S, T)
    BY DEF Surjection
  <2> HIDE DEF f, S, T
  <2> QED BY <1>2, <2>1, FS_Surjection
<1>5. U \in SUBSET Int /\ IsFiniteSet(U) /\ U # {}
  <2>1. IsFiniteSet(U)
    <3> HIDE DEF T
    <3> QED BY <1>4, FS_AddElement
  <2> QED BY <1>3, <2>1
<1>6. LastBefore(l, c) = Max(U)
  <2>1. {l[c].ts} \cup T = U
    OBVIOUS
  <2> QED BY <2>1 DEF LastBefore
<1>7. LastBefore(l, c) \in U /\ \A y \in U : y <= LastBefore(l, c)
  <2> HIDE DEF U
  <2> QED BY <1>5, <1>6, MaxIsGreatest
<1>8. LastBefore(l, c) \in Int /\ LastBefore(l, c) >= l[c].ts
  BY <1>3, <1>5, <1>7
<1>9. \A i \in Books(l) : i < c => l[i].ts <= LastBefore(l, c)
  BY <1>7
<1>10. LastBefore(l, c) = l[c].ts \/ \E i \in S : LastBefore(l, c) = l[i].ts
  BY <1>7
<1> QED BY <1>8, <1>9, <1>10

\* A match may be found until the window closes, or the check is written.
LEMMA UntilIs ==
    ASSUME NEW l \in Seq(Record), NEW c \in Checks(l)
    PROVE  /\ l[c].ts \in Int /\ l[c].at \in Int /\ Until(l, c) \in Int
           /\ Until(l, c) >= l[c].ts + Window /\ Until(l, c) >= l[c].at
<1>1. l[c].ts + Window \in Int /\ l[c].at \in Int /\ l[c].ts \in Int
  <2>1. c \in 1 .. Len(l) /\ l[c].kind = "verify"
    BY LinesAre DEF Checks
  <2> QED BY <2>1, LinesAre, VerifyWindowAssumption
<1> QED BY <1>1, MaxOfTimes DEF Until

\* The next check, or a book event after the window: the one that waits gets its
\* mismatch.
LEMMA PendingMismatch ==
    ASSUME NEW l, NEW m, Grown(l, m), NEW c \in Checks(l), NEW check, Pending(l, c, check),
           \/ m[Len(l) + 1].kind = "verify"
           \/ m[Len(l) + 1].kind = "book" /\ m[Len(l) + 1].ts > l[c].ts + Window
    PROVE  Judged(m, c, Row(check.ts, "mismatch", 0), FALSE)
<1> DEFINE n == Len(l)
<1>1. /\ n \in Nat /\ c \in 1 .. n /\ m[c] = l[c] /\ (\A i \in 1 .. n : m[i] = l[i])
      /\ Books(l) \subseteq 1 .. n /\ Len(m) = n + 1 /\ m \in Seq(Record)
      /\ Books(m) = Books(l) \cup (IF m[n + 1].kind = "book" THEN {n + 1} ELSE {})
  BY GrownIs DEF Grown
<1>2. (Suspect(m, c) <=> Suspect(l, c)) /\ LastBefore(m, c) = LastBefore(l, c)
  <2>1. c \in 1 .. Len(l) + 1 /\ c <= Len(l)
    BY <1>1
  <2> QED BY <2>1, BeforeKept
<1>a. l[c].ts \in Int /\ m[n + 1].ts \in Int
  <2>1. n + 1 \in 1 .. Len(m) /\ c \in 1 .. Len(m)
    BY <1>1
  <2> QED BY <1>1, <2>1, LinesAre
<1> HIDE DEF n
<1>3. ~GapAfter(m, c)
  <2> SUFFICES ASSUME NEW i \in After(m, c), m[i].kind = "gap" PROVE FALSE
    BY DEF GapAfter
  <2>1. i \in c + 1 .. n + 1
    BY <1>1 DEF After
  <2>2. i # n + 1
    BY DEF n
  <2>3. i \in c + 1 .. n /\ m[i] = l[i]
    BY <1>1, <2>1, <2>2
  <2>4. l[i].kind = "book"
    BY <2>3 DEF Pending, Quiet, n
  <2> QED BY <2>3, <2>4
<1>4. Closed(m, c)
  <2>1. n + 1 \in c + 1 .. Len(m)
    BY <1>1
  <2> QED BY <1>1, <2>1 DEF Closed, n
<1>5. ASSUME NEW i \in Books(m), m[i].state = m[c].rest, m[i].ts <= m[c].ts + Window
      PROVE  Over(m, i, LastBefore(m, c) - Window)
  <2>1. i \in Books(l) /\ m[i] = l[i]
    BY <1>1, <1>5, <1>a, VerifyWindowAssumption DEF n
  <2>2. Over(l, i, LastBefore(l, c) - Window)
    BY <1>1, <1>5, <2>1 DEF Pending
  <2>3. PICK j \in Books(l) : j > i /\ l[j].ts <= LastBefore(l, c) - Window
    BY <2>2 DEF Over
  <2>4. j \in Books(m) /\ m[j] = l[j]
    BY <1>1
  <2> QED BY <1>2, <2>3, <2>4 DEF Over
<1>6. check.ts = m[c].ts /\ ~Suspect(m, c)
  BY <1>1, <1>2 DEF Pending
<1> DEFINE row == Row(check.ts, "mismatch", 0)
<1>7. row.ts = check.ts /\ row.outcome = "mismatch"
  BY DEF Row
<1> HIDE DEF row
<1>8. Judged(m, c, row, FALSE)
  BY <1>3, <1>4, <1>5, <1>6, <1>7 DEF Judged
<1> QED BY <1>8 DEF row

\* An equal state within the window: the check that waits is matched.
LEMMA PendingMatched ==
    ASSUME NEW l, NEW m, Grown(l, m), Ordered(m), LogInv(l), NEW c \in Checks(l),
           NEW check, Pending(l, c, check), m[Len(l) + 1].kind = "book",
           m[Len(l) + 1].state = check.rest, m[Len(l) + 1].ts <= check.ts + Window
    PROVE  Judged(m, c, Row(check.ts, "matched", m[Len(l) + 1].ts - check.ts), FALSE)
<1> DEFINE n == Len(l)
           ts == m[n + 1].ts
           row == Row(check.ts, "matched", ts - check.ts)
<1>1. /\ n \in Nat /\ c \in 1 .. n /\ m[c] = l[c] /\ Books(l) \subseteq 1 .. n /\ Len(m) = n + 1
      /\ Books(m) = Books(l) \cup {n + 1} /\ l \in Seq(Record) /\ m \in Seq(Record)
      /\ c \in Checks(m)
  BY GrownIs DEF Grown
<1>2. Suspect(m, c) <=> Suspect(l, c)
  <2>1. c \in 1 .. Len(l) + 1
    BY <1>1
  <2> QED BY <2>1, BeforeKept
<1>3. /\ m[c].ts \in Int /\ Until(m, c) \in Int
      /\ Until(m, c) >= m[c].ts + Window /\ Until(m, c) >= m[c].at
  BY <1>1, UntilIs
<1>4. ts \in Int /\ ts >= m[c].ts
  <2>1. n + 1 \in 1 .. Len(m) /\ l[c].kind = "verify"
    BY <1>1 DEF Checks
  <2>2. ts \in Int /\ WrittenAt(m[n + 1]) = ts
    BY <1>1, <2>1, LinesAre
  <2>3. l[c].at \in Int /\ WrittenAt(l[c]) = l[c].at
    BY <1>1, <2>1, LinesAre
  <2>4. WrittenAt(l[c]) <= WrittenAt(m[n + 1])
    BY <1>1, OrderedBefore
  <2>5. l[c].ts <= l[c].at
    BY DEF LogInv
  <2> QED BY <1>1, <1>3, <2>2, <2>3, <2>4, <2>5
<1>5. check.ts = m[c].ts /\ check.rest = m[c].rest /\ ~Suspect(m, c)
  BY <1>1, <1>2 DEF Pending
<1>6. Alive(m, n + 1, m[c].ts - Window)
  BY <1>1 DEF Alive
<1>7. row.ts = check.ts /\ row.outcome = "matched" /\ row.lag = ts - check.ts
  BY DEF Row
<1>b. n + 1 \in Books(m) /\ m[n + 1].state = m[c].rest /\ ts <= m[c].ts + Window
  BY <1>1, <1>5
<1> HIDE DEF row, n
<1>8. row.lag \in -Window .. Until(m, c) - m[c].ts
  <2> HIDE DEF ts
  <2> QED BY <1>3, <1>4, <1>5, <1>7, <1>b, VerifyWindowAssumption
<1>9. m[n + 1].ts <= Until(m, c)
  BY <1>3, <1>4, <1>b, VerifyWindowAssumption
<1>10. Judged(m, c, row, FALSE)
  BY <1>5, <1>6, <1>7, <1>8, <1>9, <1>b DEF Judged
<1> QED BY <1>10 DEF row, n

\* Another state within the window: the check waits on.
LEMMA PendingKept ==
    ASSUME NEW l, NEW m, Grown(l, m), NEW c \in Checks(l),
           NEW check, Pending(l, c, check), m[Len(l) + 1].kind = "book",
           m[Len(l) + 1].state # check.rest, m[Len(l) + 1].ts <= check.ts + Window
    PROVE  Pending(m, c, check)
<1> DEFINE n == Len(l)
<1>1. /\ n \in Nat /\ c \in 1 .. n /\ m[c] = l[c] /\ (\A i \in 1 .. n : m[i] = l[i])
      /\ Books(l) \subseteq 1 .. n /\ Len(m) = n + 1
      /\ Books(m) = Books(l) \cup {n + 1}
  BY GrownIs
<1>2. (Suspect(m, c) <=> Suspect(l, c)) /\ LastBefore(m, c) = LastBefore(l, c)
  <2>1. c \in 1 .. Len(l) + 1 /\ c <= Len(l)
    BY <1>1
  <2> QED BY <2>1, BeforeKept
<1>3. check.ts = m[c].ts /\ check.rest = m[c].rest /\ ~Suspect(m, c)
  BY <1>1, <1>2 DEF Pending
<1>4. Quiet(m, c)
  <2> SUFFICES ASSUME NEW i \in c + 1 .. n + 1
               PROVE  m[i].kind = "book" /\ m[i].ts <= m[c].ts + Window
    BY <1>1 DEF Quiet
  <2>1. CASE i \in c + 1 .. n
    <3>1. m[i] = l[i]
      BY <1>1, <2>1
    <3> QED BY <1>1, <2>1, <3>1 DEF Pending, Quiet
  <2>2. CASE i = n + 1
    BY <1>3, <2>2
  <2> QED BY <1>1, <2>1, <2>2
<1> HIDE DEF n
<1>5. ASSUME NEW i \in Books(m), m[i].state = m[c].rest
      PROVE  Over(m, i, LastBefore(m, c) - Window)
  <2>1. i # n + 1
    BY <1>3, <1>5 DEF n
  <2>a. i \in Books(l) /\ m[i] = l[i]
    BY <1>1, <2>1
  <2>2. Over(l, i, LastBefore(l, c) - Window)
    BY <1>1, <1>5, <2>a DEF Pending
  <2>3. PICK j \in Books(l) : j > i /\ l[j].ts <= LastBefore(l, c) - Window
    BY <2>2 DEF Over
  <2>4. j \in Books(m) /\ m[j] = l[j]
    BY <1>1
  <2> QED BY <1>2, <2>3, <2>4 DEF Over
<1> QED BY <1>3, <1>4, <1>5 DEF Pending

\* A gap: the check that waits is skipped.
LEMMA PendingSkipped ==
    ASSUME NEW l, NEW m, Grown(l, m), NEW c \in Checks(l),
           NEW check, Pending(l, c, check), m[Len(l) + 1].kind = "gap"
    PROVE  Judged(m, c, Row(check.ts, "skipped_gap", 0), FALSE)
<1> DEFINE n == Len(l)
           row == Row(check.ts, "skipped_gap", 0)
<1>1. /\ n \in Nat /\ c \in 1 .. n /\ m[c] = l[c] /\ (\A i \in 1 .. n : m[i] = l[i]) /\ Len(m) = n + 1
  BY GrownIs
<1>2. n + 1 \in After(m, c)
  <2> SUFFICES ASSUME NEW j \in c + 1 .. (n + 1) - 1
               PROVE  m[j].kind # "verify" /\ (m[j].kind = "book" => m[j].ts <= m[c].ts + Window)
    BY <1>1 DEF After
  <2>1. j \in c + 1 .. n /\ m[j] = l[j]
    BY <1>1
  <2> QED BY <1>1, <2>1 DEF Pending, Quiet
<1>3. GapAfter(m, c)
  BY <1>2 DEF GapAfter
<1>4. row.ts = check.ts /\ row.outcome = "skipped_gap"
  BY DEF Row
<1>5. check.ts = m[c].ts
  BY <1>1 DEF Pending
<1> HIDE DEF row
<1>6. Judged(m, c, row, FALSE)
  BY <1>3, <1>4, <1>5 DEF Judged
<1> QED BY <1>6 DEF row

\* A check on a suspect book is skipped.
LEMMA NewSkipped ==
    ASSUME NEW l, NEW m, Grown(l, m), NEW ts, m[Len(l) + 1].ts = ts, Suspect(l, Len(l) + 1)
    PROVE  Judged(m, Len(l) + 1, Row(ts, "skipped_gap", 0), FALSE)
<1> DEFINE row == Row(ts, "skipped_gap", 0)
<1>1. Len(l) + 1 \in 1 .. Len(l) + 1
  BY GrownIs
<1>2. Suspect(m, Len(l) + 1)
  BY <1>1, BeforeKept
<1>3. row.ts = ts /\ row.outcome = "skipped_gap"
  BY DEF Row
<1> HIDE DEF row
<1>4. Judged(m, Len(l) + 1, row, FALSE)
  BY <1>2, <1>3 DEF Judged
<1> QED BY <1>4 DEF row

\* A check that equals the state of a line in force within the window is matched.
LEMMA NewMatched ==
    ASSUME NEW l, NEW m, Grown(l, m), Ordered(m), m[Len(l) + 1].kind = "verify",
           ~Suspect(l, Len(l) + 1),
           NEW i \in Books(l), l[i].state = m[Len(l) + 1].rest,
           Alive(l, i, m[Len(l) + 1].ts - Window),
           NEW lag \in Int, lag >= -Window,
           lag <= 0 \/ lag <= l[i].ts - m[Len(l) + 1].ts
    PROVE  Judged(m, Len(l) + 1, Row(m[Len(l) + 1].ts, "matched", lag), FALSE)
<1> DEFINE new == Len(l) + 1
           row == Row(m[new].ts, "matched", lag)
<1>1. /\ Len(l) \in Nat /\ Books(m) = Books(l) /\ i \in 1 .. Len(l) /\ m[i] = l[i]
      /\ (\A j \in Books(l) : m[j] = l[j]) /\ new \in Checks(m) /\ new \in 1 .. Len(l) + 1
      /\ l \in Seq(Record) /\ m \in Seq(Record)
  <2>1. /\ Len(l) \in Nat /\ Books(l) \subseteq 1 .. Len(l) /\ (\A j \in 1 .. Len(l) : m[j] = l[j])
        /\ Books(m) = Books(l) \cup (IF m[new].kind = "book" THEN {new} ELSE {})
        /\ Checks(m) = Checks(l) \cup (IF m[new].kind = "verify" THEN {new} ELSE {})
    BY GrownIs
  <2> QED BY <2>1 DEF Grown
<1>2. ~Suspect(m, new)
  BY <1>1, BeforeKept
<1>3. /\ m[new].ts \in Int /\ m[new].at \in Int /\ Until(m, new) \in Int
      /\ Until(m, new) >= m[new].ts + Window /\ Until(m, new) >= m[new].at
  BY <1>1, UntilIs
<1>4. l[i].ts \in Int /\ l[i].ts <= m[new].at
  <2>1. WrittenAt(l[i]) <= WrittenAt(m[new])
    BY <1>1, OrderedBefore
  <2>2. l[i].kind = "book" /\ m[new].kind = "verify"
    BY DEF Books
  <2>3. l[i].ts \in Int
    BY <1>1, LinesAre
  <2> QED BY <2>1, <2>2, <2>3 DEF WrittenAt
<1>5. Alive(m, i, m[new].ts - Window)
  BY <1>1 DEF Alive
<1>6. row.ts = m[new].ts /\ row.outcome = "matched" /\ row.lag = lag
  BY DEF Row
<1> HIDE DEF row
<1>7. lag \in -Window .. Until(m, new) - m[new].ts
  <2>1. lag <= 0 \/ lag <= l[i].ts - m[new].ts
    OBVIOUS
  <2> HIDE DEF new
  <2> QED BY <1>3, <1>4, <2>1, VerifyWindowAssumption
<1>8. i \in Books(m) /\ m[i].state = m[new].rest /\ m[i].ts <= Until(m, new)
  BY <1>1, <1>3, <1>4
<1> HIDE DEF new
<1>9. Judged(m, new, row, FALSE)
  BY <1>2, <1>5, <1>6, <1>7, <1>8 DEF Judged
<1> QED BY <1>9 DEF row, new

\* A check that nothing in the window of the engine equals waits.
LEMMA NewPending ==
    ASSUME NEW l, NEW m, Grown(l, m), m[Len(l) + 1].kind = "verify", ~Suspect(l, Len(l) + 1),
           NEW w \in Seq(Entry), w # <<>>, NEW at \in [DOMAIN w -> Books(l)], Holds(l, w, at),
           NEW check, check.ts = m[Len(l) + 1].ts, check.rest = m[Len(l) + 1].rest,
           \A k \in DOMAIN w : w[k].state = check.rest =>
              \E j \in k + 1 .. Len(w) : w[j].ts < check.ts - Window
    PROVE  Pending(m, Len(l) + 1, check)
<1> DEFINE new == Len(l) + 1
           L == Len(w)
<1>1. /\ Len(l) \in Nat /\ Books(m) = Books(l) /\ Books(l) \subseteq 1 .. Len(l) /\ Len(m) = new
      /\ (\A j \in Books(l) : m[j] = l[j]) /\ new \in Checks(m) /\ new \in 1 .. Len(l) + 1
      /\ l \in Seq(Record) /\ m \in Seq(Record)
  <2>1. /\ Len(l) \in Nat /\ Books(l) \subseteq 1 .. Len(l) /\ (\A j \in 1 .. Len(l) : m[j] = l[j])
        /\ Books(m) = Books(l) \cup (IF m[new].kind = "book" THEN {new} ELSE {})
        /\ Checks(m) = Checks(l) \cup (IF m[new].kind = "verify" THEN {new} ELSE {})
    BY GrownIs
  <2> QED BY <2>1 DEF Grown
<1>2. ~Suspect(m, new)
  BY <1>1, BeforeKept
<1>3. Quiet(m, new)
  BY <1>1 DEF Quiet
<1>4. /\ LastBefore(m, new) \in Int /\ LastBefore(m, new) >= m[new].ts /\ m[new].ts \in Int
      /\ \A i \in Books(l) : l[i].ts <= LastBefore(m, new)
  <2>1. \A i \in Books(l) : i < new
    BY <1>1
  <2>2. /\ LastBefore(m, new) \in Int /\ LastBefore(m, new) >= m[new].ts
        /\ \A i \in Books(m) : i < new => m[i].ts <= LastBefore(m, new)
    BY <1>1, LastBeforeIs
  <2>3. m[new].ts \in Int
    BY <1>1, UntilIs
  <2> QED BY <1>1, <2>1, <2>2, <2>3
<1>5. /\ L \in Nat /\ L >= 1 /\ DOMAIN w = 1 .. L
      /\ \A k \in 1 .. L : w[k].ts \in Int /\ at[k] \in Books(l) /\ at[k] \in Nat /\ w[k].ts = l[at[k]].ts
  <2>1. L \in Nat /\ L >= 1 /\ DOMAIN w = 1 .. L /\ \A k \in 1 .. L : w[k] \in Entry
    OBVIOUS
  <2>2. \A k \in 1 .. L : at[k] \in Books(l) /\ w[k].ts = l[at[k]].ts
    BY <2>1 DEF Holds
  <2> QED BY <1>1, <2>1, <2>2 DEF Entry
<1> HIDE DEF new, L
<1>6. ASSUME NEW i \in Books(l), l[i].state = check.rest
      PROVE  \E j \in Books(l) : j > i /\ l[j].ts <= LastBefore(m, new) - Window
  <2>1. i \in Nat /\ 1 \in 1 .. L /\ L \in 1 .. L
    BY <1>1, <1>5
  <2>2. CASE i < at[1]
    <3>1. w[1].ts <= w[L].ts - Window
      BY <2>2 DEF Holds, L
    <3>2. w[L].ts <= LastBefore(m, new)
      BY <1>4, <1>5, <2>1
    <3>3. l[at[1]].ts <= LastBefore(m, new) - Window
      BY <1>4, <1>5, <2>1, <3>1, <3>2, VerifyWindowAssumption
    <3> QED BY <1>5, <2>1, <2>2, <3>3
  <2>3. CASE i >= at[1]
    <3>1. PICK k \in 1 .. L : at[k] = i
      BY <1>5, <2>3 DEF Holds
    <3>2. w[k].state = check.rest
      BY <1>5, <1>6, <3>1 DEF Holds
    <3>3. PICK j \in k + 1 .. L : w[j].ts < check.ts - Window
      BY <1>5, <3>2 DEF L
    <3>4. j \in 1 .. L /\ k < j
      BY <1>5
    <3>5. at[j] > i
      BY <1>5, <3>1, <3>4 DEF Holds
    <3>6. l[at[j]].ts <= LastBefore(m, new) - Window
      BY <1>4, <1>5, <3>3, <3>4, VerifyWindowAssumption DEF new
    <3> QED BY <1>5, <3>4, <3>5, <3>6
  <2> QED BY <1>5, <2>1, <2>2, <2>3
<1>7. \A i \in Books(m) : m[i].state = m[new].rest => Over(m, i, LastBefore(m, new) - Window)
  <2> SUFFICES ASSUME NEW i \in Books(l), l[i].state = check.rest
               PROVE  Over(m, i, LastBefore(m, new) - Window)
    BY <1>1 DEF new
  <2>1. PICK j \in Books(l) : j > i /\ l[j].ts <= LastBefore(m, new) - Window
    BY <1>6
  <2> QED BY <1>1, <2>1 DEF Over
<1>8. Pending(m, new, check)
  BY <1>2, <1>3, <1>7 DEF Pending, new
<1> QED BY <1>8 DEF new

---------------------------------------------------------------------------
(* The steps of the engine.                                                *)

EngineInv(l, e) == WindowInv(l, e) /\ VerdictInv(l, e, FALSE)

\* A snapshot or a delta.
LEMMA BookEventKeeps ==
    ASSUME NEW l, NEW m, Grown(l, m), Ordered(m), LogInv(l),
           NEW e \in Engine, Len(e.pending) <= 1, EngineInv(l, e),
           NEW ts \in Int, NEW state \in [Slots -> Nat], NEW s \in BOOLEAN,
           m[Len(l) + 1] = [kind |-> "book", ts |-> ts, state |-> state, snapshot |-> s]
    PROVE  EngineInv(m, OnBookEvent(e, ts, state, s))
<1> DEFINE r == m[Len(l) + 1]
           f == OnBookEvent(e, ts, state, s)
           x == [ts |-> ts, state |-> state]
           w == Append(e.window, x)
           check == e.pending[1]
<1>1. r.kind = "book" /\ r.ts = ts /\ r.state = state /\ r.snapshot = s
  OBVIOUS
<1>2. /\ f \in Engine /\ w \in Seq(Entry) /\ w # <<>>
      /\ f.window = Pruned(w, ts - Window)
      /\ f.gap_pending = (e.gap_pending /\ ~s)
  BY OnBookEventIs, ZenonT(60)
<1>3. /\ e.pending = <<>> => f.pending = <<>> /\ f.rows = e.rows
      /\ e.pending # <<>> =>
            /\ ts > check.ts + Window =>
                  f.pending = <<>> /\ f.rows = Append(e.rows, Row(check.ts, "mismatch", 0))
            /\ ts <= check.ts + Window /\ check.rest = state =>
                  /\ f.pending = <<>>
                  /\ f.rows = Append(e.rows, Row(check.ts, "matched", ts - check.ts))
            /\ ts <= check.ts + Window /\ check.rest # state =>
                  f.pending = e.pending /\ f.rows = e.rows
  BY OnBookEventIs
<1>4. x \in Entry /\ x.ts = ts /\ x.state = state
  BY DEF Entry
<1>5. e.window \in Seq(Entry) /\ e.gap_pending \in BOOLEAN /\ e.rows \in Seq(RowType)
  BY DEF Engine
<1> HIDE DEF x, f, r
<1>6. Len(w) = Len(e.window) + 1 /\ w[Len(w)] = x
  BY <1>4, <1>5
<1>7. WindowInv(m, f)
  <2>1. PICK at \in [DOMAIN w -> Books(m)] : Holds(m, w, at)
    BY <1>1, <1>4, WindowTakes DEF EngineInv, r
  <2>2. Books(m) \subseteq Nat /\ m # <<>>
    <3>1. m \in Seq(Record) /\ Len(m) # 0
      BY GrownIs DEF Grown
    <3>2. Books(m) \subseteq 1 .. Len(m)
      BY <3>1, LinesAre
    <3> QED BY <3>1, <3>2
  <2>3. ts - Window = w[Len(w)].ts - Window
    BY <1>4, <1>6
  <2> HIDE DEF w
  <2>4. f.window # <<>> /\ \E new \in [DOMAIN f.window -> Books(m)] : Holds(m, f.window, new)
    BY <1>2, <2>1, <2>2, <2>3, WindowPruned
  <2>5. f.gap_pending <=> Suspect(m, Len(m) + 1)
    <3>1. e.gap_pending <=> Suspect(l, Len(l) + 1)
      BY DEF EngineInv, WindowInv
    <3>2. Suspect(m, Len(m) + 1)
             <=> r.kind = "gap" \/ (Suspect(l, Len(l) + 1) /\ ~(r.kind = "book" /\ r.snapshot))
      BY SuspectNext DEF r
    <3> QED BY <1>1, <1>2, <3>1, <3>2
  <2> QED BY <2>2, <2>4, <2>5 DEF WindowInv
<1> HIDE DEF w
<1>8. VerdictInv(m, f, FALSE)
  <2>a. VerdictInv(l, e, FALSE)
    BY DEF EngineInv
  <2>b. m[Len(l) + 1].kind # "verify"
    BY <1>1 DEF r
  <2>1. CASE e.pending = <<>>
    <3>1. AllJudged(l, m, f.rows)
      BY <1>3, <2>1, <2>a, IdleIsJudged
    <3> QED BY <1>2, <1>3, <2>1, <2>b, <3>1, NoCheckWaits
  <2>2. CASE e.pending # <<>>
    <3>1. check \in Check /\ check.ts \in Int
      <4>1. e.pending \in Seq(Check)
        BY DEF Engine
      <4>2. check \in Check
        BY <2>2, <4>1
      <4> QED BY <4>2 DEF Check
    <3>2. \A c \in Checks(l) : Waiting(l, e, c) => Pending(l, c, check)
      BY <2>a DEF VerdictInv
    <3>3. \A c \in Checks(l) : Waiting(l, e, c) => l[c].ts = check.ts
      BY <3>2 DEF Pending
    <3> HIDE DEF check
    <3>4. CASE ts > check.ts + Window
      <4> DEFINE row == Row(check.ts, "mismatch", 0)
      <4>1. \A c \in Checks(l) : Waiting(l, e, c) => Judged(m, c, row, FALSE)
        BY <1>1, <3>2, <3>3, <3>4, PendingMismatch DEF r
      <4>2. row \in RowType
        BY <3>1 DEF Row, RowType, Outcomes
      <4> HIDE DEF row
      <4>3. f.pending = <<>> /\ f.rows = Append(e.rows, row)
        BY <1>3, <2>2, <3>4 DEF row
      <4>4. Adds(f.rows, e.rows, row)
        BY <1>5, <4>2, <4>3, AppendAdds
      <4>5. AllJudged(l, m, f.rows)
        BY <2>2, <2>a, <4>1, <4>4, AnsweredIsJudged
      <4> QED BY <1>2, <2>b, <4>3, <4>5, NoCheckWaits
    <3>5. CASE ts <= check.ts + Window /\ check.rest = state
      <4> DEFINE row == Row(check.ts, "matched", ts - check.ts)
      <4>1. \A c \in Checks(l) : Waiting(l, e, c) => Judged(m, c, row, FALSE)
        BY <1>1, <3>2, <3>5, PendingMatched DEF r
      <4>2. row \in RowType
        BY <3>1 DEF Row, RowType, Outcomes
      <4> HIDE DEF row
      <4>3. f.pending = <<>> /\ f.rows = Append(e.rows, row)
        BY <1>3, <2>2, <3>5 DEF row
      <4>4. Adds(f.rows, e.rows, row)
        BY <1>5, <4>2, <4>3, AppendAdds
      <4>5. AllJudged(l, m, f.rows)
        BY <2>2, <2>a, <4>1, <4>4, AnsweredIsJudged
      <4> QED BY <1>2, <2>b, <4>3, <4>5, NoCheckWaits
    <3>6. CASE ts <= check.ts + Window /\ check.rest # state
      <4>1. \A c \in Checks(l) : Waiting(l, e, c) => Pending(m, c, check)
        BY <1>1, <3>2, <3>6, PendingKept DEF r
      <4>2. f.pending = e.pending /\ f.rows = e.rows
        BY <1>3, <2>2, <3>6
      <4>3. ~f.gap_pending
        <5>1. ~e.gap_pending
          BY <2>2, <2>a DEF VerdictInv
        <5> QED BY <1>2, <5>1
      <4> QED BY <1>2, <2>2, <2>a, <2>b, <4>1, <4>2, <4>3, CheckWaitsOn DEF check
    <3>7. ts > check.ts + Window \/ ts <= check.ts + Window
      BY <3>1, VerifyWindowAssumption
    <3> QED BY <3>4, <3>5, <3>6, <3>7
  <2> QED BY <2>1, <2>2
<1> QED BY <1>7, <1>8 DEF EngineInv, f

\* A gap.
LEMMA GapKeeps ==
    ASSUME NEW l, NEW m, Grown(l, m), Ordered(m), LogInv(l), l # <<>>,
           NEW e \in Engine, Len(e.pending) <= 1, EngineInv(l, e),
           m[Len(l) + 1].kind = "gap"
    PROVE  EngineInv(m, OnGap(e))
<1> DEFINE f == OnGap(e)
           check == e.pending[1]
           row == Row(check.ts, "skipped_gap", 0)
<1>1. /\ f \in Engine /\ f.pending = <<>> /\ f.window = e.window /\ f.gap_pending = TRUE
      /\ f.rows = IF e.pending = <<>> THEN e.rows ELSE Append(e.rows, row)
  BY OnGapIs
<1>2. VerdictInv(l, e, FALSE) /\ WindowInv(l, e) /\ e.rows \in Seq(RowType)
  BY DEF EngineInv, Engine
<1> HIDE DEF f
<1>3. WindowInv(m, f)
  BY <1>1, <1>2, WindowKept
<1>4. CASE e.pending = <<>>
  <2>1. AllJudged(l, m, f.rows)
    BY <1>1, <1>2, <1>4, IdleIsJudged
  <2>2. VerdictInv(m, f, FALSE)
    BY <1>1, <2>1, NoCheckWaits
  <2> QED BY <1>3, <2>2 DEF EngineInv, f
<1>5. CASE e.pending # <<>>
  <2>1. check \in Check /\ check.ts \in Int
    <3>1. e.pending \in Seq(Check)
      BY DEF Engine
    <3>2. check \in Check
      BY <1>5, <3>1
    <3> QED BY <3>2 DEF Check
  <2>2. \A c \in Checks(l) : Waiting(l, e, c) => Pending(l, c, check)
    BY <1>2 DEF VerdictInv
  <2> HIDE DEF check
  <2>3. \A c \in Checks(l) : Waiting(l, e, c) => Judged(m, c, row, FALSE)
    BY <2>2, PendingSkipped
  <2>4. row \in RowType
    BY <2>1 DEF Row, RowType, Outcomes
  <2> HIDE DEF row
  <2>5. Adds(f.rows, e.rows, row)
    BY <1>1, <1>2, <1>5, <2>4, AppendAdds
  <2>6. AllJudged(l, m, f.rows)
    BY <1>2, <1>5, <2>3, <2>5, AnsweredIsJudged
  <2>7. VerdictInv(m, f, FALSE)
    BY <1>1, <2>6, NoCheckWaits
  <2> QED BY <1>3, <2>7 DEF EngineInv, f
<1> QED BY <1>4, <1>5

\* A check.
LEMMA VerifyKeeps ==
    ASSUME NEW l, NEW m, Grown(l, m), Ordered(m), LogInv(l), l # <<>>,
           NEW e \in Engine, Len(e.pending) <= 1, EngineInv(l, e),
           NEW ts \in Int, NEW rest \in RestBooks, NEW state,
           m[Len(l) + 1].kind = "verify", m[Len(l) + 1].ts = ts, m[Len(l) + 1].rest = rest,
           NEW last \in Books(l), \A i \in Books(l) : i <= last, l[last].state = state
    PROVE  EngineInv(m, OnVerify(e, ts, rest, state))
<1> DEFINE new == Len(l) + 1
           f == OnVerify(e, ts, rest, state)
           w == e.window
           back == BackwardMatch(w, ts, rest)
           rows == ReadyRows(e)
           lag == BackLag(w, ts, back)
<1>1. /\ f \in Engine /\ f.window = e.window /\ f.gap_pending = e.gap_pending
      /\ rows \in Seq(RowType)
  <2>1. f \in Engine /\ SameBook(f, e) /\ rows \in Seq(RowType)
    BY OnVerifyFrame
  <2> HIDE DEF f, rows
  <2> QED BY <2>1 DEF SameBook
<1>2. \/ /\ e.gap_pending
         /\ f.pending = <<>> /\ f.rows = Append(rows, Row(ts, "skipped_gap", 0))
      \/ /\ ~e.gap_pending /\ state = rest
         /\ f.pending = <<>> /\ f.rows = Append(rows, Row(ts, "matched", 0))
      \/ /\ ~e.gap_pending /\ state # rest /\ back # 0
         /\ f.pending = <<>> /\ f.rows = Append(rows, Row(ts, "matched", lag))
      \/ /\ ~e.gap_pending /\ state # rest /\ back = 0
         /\ f.pending = <<[ts |-> ts, rest |-> rest]>> /\ f.rows = rows
  BY OnVerifyIs
<1>3. /\ VerdictInv(l, e, FALSE) /\ WindowInv(l, e)
      /\ e.rows \in Seq(RowType) /\ w \in Seq(Entry) /\ e.gap_pending \in BOOLEAN
  BY DEF EngineInv, Engine
<1> HIDE DEF f
<1>4. WindowInv(m, f)
  BY <1>1, <1>3, WindowKept
<1>5. AllJudged(l, m, rows)
  <2>1. CASE e.pending = <<>>
    <3>1. rows = e.rows
      BY <2>1 DEF ReadyRows
    <3> QED BY <1>3, <2>1, <3>1, IdleIsJudged
  <2>2. CASE e.pending # <<>>
    <3> DEFINE check == e.pending[1]
               row == Row(check.ts, "mismatch", 0)
    <3>1. check \in Check /\ check.ts \in Int
      <4>1. e.pending \in Seq(Check)
        BY DEF Engine
      <4>2. check \in Check
        BY <2>2, <4>1
      <4> QED BY <4>2 DEF Check
    <3>2. \A c \in Checks(l) : Waiting(l, e, c) => Pending(l, c, check)
      BY <1>3 DEF VerdictInv
    <3>3. ~e.gap_pending
      BY <1>3, <2>2 DEF VerdictInv
    <3>4. rows = Append(e.rows, row)
      BY <2>2, <3>3 DEF ReadyRows
    <3> HIDE DEF check, rows
    <3>5. \A c \in Checks(l) : Waiting(l, e, c) => Judged(m, c, row, FALSE)
      BY <3>2, PendingMismatch
    <3>6. row \in RowType
      BY <3>1 DEF Row, RowType, Outcomes
    <3> HIDE DEF row
    <3>7. Adds(rows, e.rows, row)
      BY <1>3, <3>4, <3>6, AppendAdds
    <3> QED BY <1>3, <2>2, <3>5, <3>7, AnsweredIsJudged
  <2> QED BY <2>1, <2>2
<1> HIDE DEF rows, back, lag
<1>6. e.gap_pending <=> Suspect(l, Len(l) + 1)
  BY <1>3 DEF WindowInv
<1>7. /\ Len(l) \in Nat /\ Books(l) \subseteq 1 .. Len(l) /\ l \in Seq(Record)
      /\ \A i \in Books(l) : l[i].ts \in Int
  <2>1. Len(l) \in Nat /\ Books(l) \subseteq 1 .. Len(l) /\ l \in Seq(Record)
    BY GrownIs DEF Grown
  <2> QED BY <2>1, LinesAre
<1>8. ASSUME NEW o \in Outcomes, NEW g \in Int, f.pending = <<>>, f.rows = Append(rows, Row(ts, o, g)),
             Judged(m, new, Row(ts, o, g), FALSE)
      PROVE  VerdictInv(m, f, FALSE)
  <2> DEFINE row == Row(ts, o, g)
  <2>1. row \in RowType
    BY DEF Row, RowType
  <2>2. f.rows = Append(rows, row) /\ Judged(m, new, row, FALSE)
    BY <1>8
  <2> HIDE DEF row
  <2>3. Adds(f.rows, rows, row)
    BY <1>1, <2>1, <2>2, AppendAdds
  <2> QED BY <1>1, <1>5, <1>8, <2>2, <2>3, NewIsAnswered
<1>9. "skipped_gap" \in Outcomes /\ "matched" \in Outcomes /\ 0 \in Int
  BY DEF Outcomes
<1>10. CASE e.gap_pending
  <2>1. Judged(m, new, Row(ts, "skipped_gap", 0), FALSE)
    BY <1>6, <1>10, NewSkipped
  <2>2. f.pending = <<>> /\ f.rows = Append(rows, Row(ts, "skipped_gap", 0))
    BY <1>2, <1>10
  <2>3. VerdictInv(m, f, FALSE)
    BY <1>8, <1>9, <2>1, <2>2
  <2> QED BY <1>4, <2>3 DEF EngineInv, f
<1>11. CASE ~e.gap_pending /\ state = rest
  <2>1. Alive(l, last, m[Len(l) + 1].ts - Window)
    BY <1>7 DEF Alive
  <2>2. 0 >= -Window /\ 0 <= 0
    BY VerifyWindowAssumption
  <2>3. ~Suspect(l, Len(l) + 1)
    BY <1>6, <1>11
  <2>4. l[last].state = m[Len(l) + 1].rest
    BY <1>11
  <2>5. Judged(m, new, Row(ts, "matched", 0), FALSE)
    BY <1>9, <2>1, <2>2, <2>3, <2>4, NewMatched
  <2>6. f.pending = <<>> /\ f.rows = Append(rows, Row(ts, "matched", 0))
    BY <1>2, <1>11
  <2>7. VerdictInv(m, f, FALSE)
    BY <1>8, <1>9, <2>5, <2>6
  <2> QED BY <1>4, <2>7 DEF EngineInv, f
<1>a. PICK at \in [DOMAIN w -> Books(l)] : Holds(l, w, at)
  BY <1>3 DEF WindowInv
<1>b. w # <<>>
  BY <1>3 DEF WindowInv
<1> HIDE DEF w
<1>12. CASE ~e.gap_pending /\ state # rest /\ back # 0
  <2>1. /\ back \in DOMAIN w /\ w[back].state = rest
        /\ \A j \in back + 1 .. Len(w) : w[j].ts >= ts - Window
    BY <1>3, <1>12, BackwardMatchIs DEF back
  <2>2. /\ Len(w) \in Nat /\ Len(w) >= 1 /\ DOMAIN w = 1 .. Len(w)
        /\ \A k \in 1 .. Len(w) : at[k] \in Books(l) /\ at[k] \in Nat /\ w[k].ts = l[at[k]].ts
                                 /\ w[k].state = l[at[k]].state
    <3>1. Len(w) \in Nat /\ Len(w) >= 1 /\ DOMAIN w = 1 .. Len(w)
      BY <1>3, <1>b
    <3> QED BY <1>7, <1>a, <3>1 DEF Holds
  <2> DEFINE i == at[back]
  <2>3. i \in Books(l) /\ l[i].state = m[Len(l) + 1].rest /\ w[back].ts = l[i].ts /\ l[i].ts \in Int
    BY <1>7, <2>1, <2>2
  <2>4. Alive(l, i, m[Len(l) + 1].ts - Window)
    <3> SUFFICES ASSUME NEW j \in Books(l), j > i PROVE l[j].ts >= ts - Window
      BY DEF Alive
    <3>1. at[1] <= i
      <4>1. 1 \in 1 .. Len(w)
        BY <2>2
      <4>2. CASE back = 1
        BY <2>2, <4>1, <4>2
      <4>3. CASE back > 1
        BY <1>a, <2>1, <2>2, <4>1, <4>3 DEF Holds
      <4> QED BY <2>1, <2>2, <4>2, <4>3
    <3>2. j >= at[1]
      <4>1. j \in Nat /\ i \in Nat /\ 1 \in 1 .. Len(w)
        BY <1>7, <2>1, <2>2
      <4>2. at[1] \in Nat
        BY <2>2, <4>1
      <4> HIDE DEF i
      <4> QED BY <3>1, <4>1, <4>2
    <3>3. PICK k \in 1 .. Len(w) : at[k] = j
      BY <1>a, <2>2, <3>2 DEF Holds
    <3>4. k > back
      <4>1. k = back \/ k < back \/ k > back
        BY <2>1, <2>2
      <4>2. k # back
        BY <1>7, <3>3
      <4>3. ~(k < back)
        <5>1. k < back => at[k] < at[back]
          BY <1>a, <2>1, <2>2 DEF Holds
        <5> QED BY <1>7, <2>1, <2>2, <3>3, <5>1
      <4> QED BY <4>1, <4>2, <4>3
    <3>5. k \in back + 1 .. Len(w)
      BY <2>1, <2>2, <3>4
    <3> QED BY <2>1, <2>2, <3>3, <3>5
  <2>5. lag \in Int /\ lag >= -Window /\ (lag <= 0 \/ lag <= l[i].ts - m[Len(l) + 1].ts)
    <3> HIDE DEF i
    <3> DEFINE a == w[back].ts
               b == ts - Window
               q == Max({a, b})
    <3>1. a \in Int /\ b \in Int /\ a = l[i].ts
      BY <2>3, VerifyWindowAssumption
    <3> HIDE DEF a, b
    <3>2. q \in Int /\ q >= a /\ q >= b /\ q \in {a, b}
      BY <3>1, MaxOfTimes
    <3>3. lag = q - ts
      BY DEF lag, BackLag, a, b
    <3> HIDE DEF q
    <3> QED BY <3>1, <3>2, <3>3, VerifyWindowAssumption DEF b
  <2>6. ~Suspect(l, Len(l) + 1)
    BY <1>6, <1>12
  <2> HIDE DEF i
  <2>7. Judged(m, new, Row(ts, "matched", lag), FALSE)
    BY <2>3, <2>4, <2>5, <2>6, NewMatched
  <2>8. f.pending = <<>> /\ f.rows = Append(rows, Row(ts, "matched", lag))
    BY <1>2, <1>12
  <2>9. VerdictInv(m, f, FALSE)
    BY <1>8, <1>9, <2>5, <2>7, <2>8
  <2> QED BY <1>4, <2>9 DEF EngineInv, f
<1>13. CASE ~e.gap_pending /\ state # rest /\ back = 0
  <2> DEFINE check == [ts |-> ts, rest |-> rest]
  <2>1. f.pending = <<check>> /\ f.rows = rows
    BY <1>2, <1>13
  <2>2. check.ts = ts /\ check.rest = rest
    OBVIOUS
  <2> HIDE DEF check
  <2>3. Len(f.pending) = 1 /\ f.pending[1] = check
    BY <2>1
  <2>4. \A k \in DOMAIN w : w[k].state = check.rest =>
           \E j \in k + 1 .. Len(w) : w[j].ts < check.ts - Window
    BY <1>3, <1>13, <2>2, BackwardMatchIs DEF back
  <2>5. ~Suspect(l, Len(l) + 1) /\ ~f.gap_pending
    BY <1>1, <1>6, <1>13
  <2>6. Pending(m, new, check)
    BY <1>3, <1>a, <1>b, <2>2, <2>4, <2>5, NewPending
  <2>7. VerdictInv(m, f, FALSE)
    BY <1>1, <1>5, <2>1, <2>3, <2>5, <2>6, NewWaits
  <2> QED BY <1>4, <2>7 DEF EngineInv, f
<1> QED BY <1>3, <1>10, <1>11, <1>12, <1>13

\* The end of the log: the check that waits, if any, is truncated.
LEMMA FinishKeeps ==
    ASSUME NEW l \in Seq(Record), NEW e \in Engine, Len(e.pending) <= 1, VerdictInv(l, e, FALSE)
    PROVE  FinishEngine(e).pending = <<>> /\ VerdictInv(l, FinishEngine(e), TRUE)
<1> DEFINE f == FinishEngine(e)
           check == e.pending[1]
           row == Row(check.ts, "truncated", 0)
<1>1. /\ f \in Engine /\ f.pending = <<>>
      /\ f.rows = IF e.pending = <<>> THEN e.rows ELSE Append(e.rows, row)
  <2>1. "truncated" \in Outcomes /\ 0 \in Int
    BY DEF Outcomes
  <2> QED BY <2>1, ResolveIs DEF FinishEngine
<1>2. \A c \in Checks(l) : ~Waiting(l, f, c)
  BY <1>1 DEF Waiting
<1>3. ASSUME NEW c, NEW r, Judged(l, c, r, FALSE)
      PROVE  Judged(l, c, r, TRUE)
  BY <1>3 DEF Judged
<1>4. e.rows \in Seq(RowType) /\ Len(e.rows) \in Nat /\ Len(<<>>) = 0 /\ DOMAIN e.rows = 1 .. Len(e.rows)
  BY DEF Engine
<1>5. /\ Len(e.rows) + Len(e.pending) = Cardinality(Checks(l))
      /\ \A c \in Checks(l) :
            IF Waiting(l, e, c) THEN Pending(l, c, check)
            ELSE RowOf(l, c) \in DOMAIN e.rows /\ Judged(l, c, e.rows[RowOf(l, c)], FALSE)
  BY DEF VerdictInv
<1> HIDE DEF f
<1>6. CASE e.pending = <<>>
  <2>1. f.rows = e.rows
    BY <1>1, <1>6
  <2>2. Len(f.rows) + Len(f.pending) = Cardinality(Checks(l))
    BY <1>1, <1>5, <1>6, <2>1
  <2>3. \A c \in Checks(l) : RowOf(l, c) \in DOMAIN f.rows /\ Judged(l, c, f.rows[RowOf(l, c)], TRUE)
    BY <1>3, <1>5, <1>6, <2>1 DEF Waiting
  <2> QED BY <1>1, <1>2, <2>2, <2>3 DEF VerdictInv, f
<1>7. CASE e.pending # <<>>
  <2>1. row \in RowType /\ row.ts = check.ts /\ row.outcome = "truncated"
    <3>1. e.pending \in Seq(Check)
      BY DEF Engine
    <3>2. check \in Check
      BY <1>7, <3>1
    <3>3. check.ts \in Int
      BY <3>2 DEF Check
    <3> HIDE DEF check
    <3> QED BY <3>3 DEF Row, RowType, Outcomes
  <2>2. Len(e.pending) = 1
    BY <1>7, LengthsAre
  <2> HIDE DEF check, row
  <2>3. Adds(f.rows, e.rows, row)
    BY <1>1, <1>4, <1>7, <2>1, AppendAdds
  <2>4. /\ Len(f.rows) = Len(e.rows) + 1 /\ f.rows[Len(e.rows) + 1] = row
        /\ DOMAIN f.rows = 1 .. Len(e.rows) + 1
        /\ \A k \in 1 .. Len(e.rows) : f.rows[k] = e.rows[k]
    BY <2>3 DEF Adds
  <2>5. Len(f.rows) + Len(f.pending) = Cardinality(Checks(l))
    BY <1>1, <1>4, <1>5, <2>2, <2>4
  <2>6. ASSUME NEW c \in Checks(l)
        PROVE  RowOf(l, c) \in DOMAIN f.rows /\ Judged(l, c, f.rows[RowOf(l, c)], TRUE)
    <3>1. CASE Waiting(l, e, c)
      <4>1. {b \in Checks(l) : b <= c} = Checks(l)
        BY <3>1 DEF Waiting
      <4>2. RowOf(l, c) = Len(e.rows) + 1
        BY <1>5, <2>2, <4>1 DEF RowOf
      <4>3. Pending(l, c, check)
        BY <1>5, <3>1
      <4>4. Judged(l, c, row, TRUE)
        BY <2>1, <4>3 DEF Judged, Pending
      <4>5. Len(e.rows) + 1 \in DOMAIN f.rows
        BY <1>4, <2>4
      <4> QED BY <2>4, <4>2, <4>4, <4>5
    <3>2. CASE ~Waiting(l, e, c)
      <4>1. RowOf(l, c) \in DOMAIN e.rows /\ Judged(l, c, e.rows[RowOf(l, c)], TRUE)
        BY <1>3, <1>5, <3>2
      <4>2. RowOf(l, c) \in DOMAIN f.rows /\ f.rows[RowOf(l, c)] = e.rows[RowOf(l, c)]
        BY <1>4, <2>4, <4>1
      <4> QED BY <4>1, <4>2
    <3> QED BY <3>1, <3>2
  <2> QED BY <1>1, <1>2, <2>5, <2>6 DEF VerdictInv, f
<1> QED BY <1>6, <1>7

---------------------------------------------------------------------------
(* The inductive invariant of the process.                                 *)

\* The last book line of the log holds the state.
LastBook(l, state) == \E i \in Books(l) : (\A j \in Books(l) : j <= i) /\ l[i].state = state

\* The clock is at the last line and the book is the state of the last book line;
\* on a log whose clock never went back, the engine is as above.
SoundInv ==
    /\ Typed /\ TotalsOf(book) /\ LogInv(log)
    /\ log # <<>> => WrittenAt(log[Len(log)]) = now /\ LastBook(log, book.levels)
    /\ Ordered(log) => IF phase = "written" THEN engine.pending = <<>> /\ VerdictInv(log, engine, TRUE)
                       ELSE EngineInv(log, engine)

\* A line more keeps what LogInv says of the log.
LEMMA LogInvKept ==
    ASSUME NEW l, NEW m, Grown(l, m), LogInv(l),
           l = <<>> => m[Len(l) + 1].kind = "book",
           m[Len(l) + 1].kind = "verify" =>
              /\ m[Len(l) + 1].ts <= m[Len(l) + 1].at
              /\ \A c \in Checks(l) : l[c].ts + Window < m[Len(l) + 1].ts
    PROVE  LogInv(m)
<1> DEFINE n == Len(l)
<1>1. /\ n \in Nat /\ Len(m) = n + 1 /\ DOMAIN l = 1 .. n /\ DOMAIN m = 1 .. n + 1
      /\ \A i \in 1 .. n : m[i] = l[i]
      /\ Books(l) \subseteq 1 .. n /\ Checks(l) \subseteq 1 .. n
      /\ Books(m) = Books(l) \cup (IF m[n + 1].kind = "book" THEN {n + 1} ELSE {})
      /\ Checks(m) = Checks(l) \cup (IF m[n + 1].kind = "verify" THEN {n + 1} ELSE {})
  BY GrownIs
<1>2. 1 \in Books(m)
  <2>1. CASE l = <<>>
    <3>1. n = 0
      BY <2>1
    <3> QED BY <1>1, <2>1, <3>1
  <2>2. CASE l # <<>>
    BY <1>1, <2>2 DEF LogInv
  <2> QED BY <2>1, <2>2
<1> HIDE DEF n
<1>3. ASSUME NEW c \in Checks(m) PROVE m[c].ts <= m[c].at
  <2>1. CASE c \in Checks(l)
    BY <1>1, <2>1 DEF LogInv
  <2>2. CASE c = n + 1 /\ m[n + 1].kind = "verify"
    BY <2>2 DEF n
  <2> QED BY <1>1, <2>1, <2>2
<1>4. ASSUME NEW b \in Checks(m), NEW c \in Checks(m), b < c PROVE m[b].ts + Window < m[c].ts
  <2>1. b \in Checks(l) /\ m[b] = l[b]
    BY <1>1, <1>4
  <2>2. CASE c \in Checks(l)
    BY <1>1, <1>4, <2>1, <2>2 DEF LogInv
  <2>3. CASE c = n + 1 /\ m[n + 1].kind = "verify"
    BY <2>1, <2>3 DEF n
  <2> QED BY <1>1, <2>2, <2>3
<1> QED BY <1>2, <1>3, <1>4 DEF LogInv

\* The last book line, after a line more.
LEMMA LastBookIs ==
    ASSUME NEW l, NEW m, Grown(l, m)
    PROVE  /\ m[Len(l) + 1].kind = "book" => LastBook(m, m[Len(l) + 1].state)
           /\ m[Len(l) + 1].kind # "book" => \A s : LastBook(l, s) => LastBook(m, s)
<1> DEFINE n == Len(l)
<1>1. /\ n \in Nat /\ Len(m) = n + 1 /\ \A i \in 1 .. n : m[i] = l[i]
      /\ Books(l) \subseteq 1 .. n
      /\ Books(m) = Books(l) \cup (IF m[n + 1].kind = "book" THEN {n + 1} ELSE {})
  BY GrownIs
<1> HIDE DEF n
<1>2. CASE m[n + 1].kind = "book"
  <2>1. n + 1 \in Books(m) /\ \A j \in Books(m) : j <= n + 1
    BY <1>1, <1>2
  <2> QED BY <1>2, <2>1 DEF LastBook, n
<1>3. CASE m[n + 1].kind # "book"
  BY <1>1, <1>3 DEF LastBook, n
<1> QED BY <1>2, <1>3 DEF n

\* What a new line of the log leaves to show: only the engine.
LEMMA LineKeeps ==
    ASSUME SoundInv, Typed', TotalsOf(book'), phase = "orderbook", phase' = phase,
           NEW r \in Record, log' = Append(log, r), WrittenAt(r) = now',
           log = <<>> => r.kind = "book",
           r.kind = "book" => r.state = book'.levels,
           r.kind # "book" => book' = book,
           r.kind = "verify" => r.ts <= r.at /\ \A c \in Checks(log) : log[c].ts + Window < r.ts,
           Ordered(log') /\ EngineInv(log, engine) => EngineInv(log', engine')
    PROVE  SoundInv'
<1>1. /\ log \in Seq(Record) /\ log' \in Seq(Record) /\ Len(log) \in Nat /\ Len(log') = Len(log) + 1
      /\ log'[Len(log) + 1] = r /\ \A i \in 1 .. Len(log) : log'[i] = log[i]
  BY LogGrows DEF SoundInv, Typed
<1>2. Grown(log, log') /\ LogInv(log)
  BY <1>1 DEF Grown, SoundInv
<1>3. LogInv(log')
  BY <1>1, <1>2, LogInvKept
<1>4. WrittenAt(log'[Len(log')]) = now'
  BY <1>1
<1>5. LastBook(log', book'.levels)
  <2>1. CASE r.kind = "book"
    BY <1>1, <1>2, <2>1, LastBookIs
  <2>2. CASE r.kind # "book"
    <3>1. LastBook(log, book.levels)
      BY <2>2 DEF SoundInv
    <3> QED BY <1>1, <1>2, <2>2, <3>1, LastBookIs
  <2> QED BY <2>1, <2>2
<1>6. Ordered(log') => EngineInv(log', engine')
  <2> SUFFICES ASSUME Ordered(log') PROVE EngineInv(log', engine')
    OBVIOUS
  <2>1. Ordered(log)
    BY <1>2, OrderedBefore
  <2>2. EngineInv(log, engine)
    BY <2>1 DEF SoundInv
  <2> QED BY <2>2
<1>7. phase' # "written"
  OBVIOUS
<1>8. (SoundInv)' <=> /\ Typed' /\ TotalsOf(book') /\ LogInv(log')
                      /\ log' # <<>> => WrittenAt(log'[Len(log')]) = now' /\ LastBook(log', book'.levels)
                      /\ Ordered(log') => IF phase' = "written"
                                          THEN engine'.pending = <<>> /\ VerdictInv(log', engine', TRUE)
                                          ELSE EngineInv(log', engine')
  BY DEF SoundInv, TotalsOf, LogInv, WrittenAt, LastBook, Ordered, VerdictInv, EngineInv
<1> QED BY <1>3, <1>4, <1>5, <1>6, <1>7, <1>8

\* A snapshot or a delta keeps the invariant.
LEMMA BookStepKeeps ==
    ASSUME SoundInv, Typed', TotalsOf(book'), NEW s \in BOOLEAN, BookStep(s), s \/ log # <<>>
    PROVE  SoundInv'
<1> DEFINE r == [kind |-> "book", ts |-> now', state |-> book'.levels, snapshot |-> s]
<1>1. now' \in Int /\ book'.levels \in [Slots -> Nat] /\ log' = Append(log, r)
  BY DEF BookStep
<1>2. /\ r \in Record /\ WrittenAt(r) = now' /\ r.kind = "book" /\ r.state = book'.levels
  BY <1>1 DEF Record, WrittenAt
<1>3. engine' = OnBookEvent(engine, now', book'.levels, s) /\ phase = "orderbook" /\ phase' = phase
  BY DEF BookStep
<1>4. Ordered(log') /\ EngineInv(log, engine) => EngineInv(log', engine')
  <2> SUFFICES ASSUME Ordered(log'), EngineInv(log, engine) PROVE EngineInv(log', engine')
    OBVIOUS
  <2>1. log \in Seq(Record) /\ LogInv(log) /\ engine \in Engine /\ Len(engine.pending) <= 1
    BY DEF SoundInv, Typed
  <2>2. Grown(log, log') /\ log'[Len(log) + 1] = r
    <3> HIDE DEF r
    <3> QED BY <1>1, <1>2, <2>1, LogGrows DEF Grown
  <2> DEFINE ts == now'
             state == book'.levels
             m == log'
             l == log
             e == engine
  <2>3. /\ Grown(l, m) /\ Ordered(m) /\ LogInv(l) /\ e \in Engine /\ Len(e.pending) <= 1
        /\ EngineInv(l, e) /\ ts \in Int /\ state \in [Slots -> Nat]
        /\ m[Len(l) + 1] = [kind |-> "book", ts |-> ts, state |-> state, snapshot |-> s]
    BY <1>1, <2>1, <2>2
  <2>4. engine' = OnBookEvent(e, ts, state, s)
    BY <1>3
  <2> HIDE DEF ts, state, m, l, e
  <2>5. EngineInv(m, OnBookEvent(e, ts, state, s))
    BY <2>3, BookEventKeeps
  <2> QED BY <2>4, <2>5 DEF m
<1> HIDE DEF r
<1> QED BY <1>1, <1>2, <1>3, <1>4, LineKeeps

\* A gap marker.
LEMMA GapStepKeeps ==
    ASSUME SoundInv, Typed', TotalsOf(book'), GapStep
    PROVE  SoundInv'
<1> DEFINE r == [kind |-> "gap", ts |-> now']
<1>1. now' \in Int /\ log' = Append(log, r) /\ log # <<>> /\ book' = book
  BY DEF GapStep
<1>2. /\ r \in Record /\ WrittenAt(r) = now' /\ r.kind = "gap"
  BY <1>1 DEF Record, WrittenAt
<1>3. engine' = OnGap(engine) /\ phase = "orderbook" /\ phase' = phase
  BY DEF GapStep
<1> HIDE DEF r
<1>4. Ordered(log') /\ EngineInv(log, engine) => EngineInv(log', engine')
  <2> SUFFICES ASSUME Ordered(log'), EngineInv(log, engine) PROVE EngineInv(log', engine')
    OBVIOUS
  <2>1. log \in Seq(Record) /\ LogInv(log) /\ engine \in Engine /\ Len(engine.pending) <= 1
    BY DEF SoundInv, Typed
  <2>2. Grown(log, log') /\ log'[Len(log) + 1].kind = "gap"
    BY <1>1, <1>2, <2>1, LogGrows DEF Grown
  <2> QED BY <1>1, <1>3, <2>1, <2>2, GapKeeps
<1> QED BY <1>1, <1>2, <1>3, <1>4, LineKeeps

\* A REST check.
LEMMA CheckStepKeeps ==
    ASSUME SoundInv, Typed', TotalsOf(book'), NEW lag \in Lags, NEW rest \in RestBooks, CheckStep(lag, rest)
    PROVE  SoundInv'
<1> DEFINE ts == now' - lag
           r == [kind |-> "verify", ts |-> ts, rest |-> rest, at |-> now']
<1>1. now' \in Int /\ log' = Append(log, r) /\ log # <<>> /\ book' = book
  BY DEF CheckStep
<1>2. ts \in Int /\ ts <= now'
  <2>1. lag \in Nat /\ now' \in Int
    BY LinesAssumption DEF CheckStep
  <2>2. \A a \in Int, b \in Nat : a - b \in Int /\ a - b <= a
    OBVIOUS
  <2> QED BY <2>1, <2>2
<1>3. engine' = OnVerify(engine, ts, rest, book.levels) /\ phase = "orderbook" /\ phase' = phase
  BY DEF CheckStep
<1>4. \A c \in Checks(log) : log[c].ts + Window < ts
  BY DEF CheckStep, Checks, CheckAt
<1> HIDE DEF ts
<1>5. /\ r \in Record /\ WrittenAt(r) = now' /\ r.kind = "verify" /\ r.ts = ts /\ r.rest = rest
      /\ r.at = now'
  BY <1>1, <1>2 DEF Record, WrittenAt
<1> HIDE DEF r
<1>6. Ordered(log') /\ EngineInv(log, engine) => EngineInv(log', engine')
  <2> SUFFICES ASSUME Ordered(log'), EngineInv(log, engine) PROVE EngineInv(log', engine')
    OBVIOUS
  <2>1. log \in Seq(Record) /\ LogInv(log) /\ engine \in Engine /\ Len(engine.pending) <= 1
    BY DEF SoundInv, Typed
  <2>2. Grown(log, log') /\ log'[Len(log) + 1] = r
    BY <1>1, <1>5, <2>1, LogGrows DEF Grown
  <2>3. PICK last \in Books(log) : (\A i \in Books(log) : i <= last) /\ log[last].state = book.levels
    BY <1>1 DEF SoundInv, LastBook
  <2> DEFINE m == log'
             l == log
             e == engine
             state == book.levels
  <2>4. /\ Grown(l, m) /\ Ordered(m) /\ LogInv(l) /\ l # <<>> /\ e \in Engine /\ Len(e.pending) <= 1
        /\ EngineInv(l, e) /\ m[Len(l) + 1].kind = "verify" /\ m[Len(l) + 1].ts = ts
        /\ m[Len(l) + 1].rest = rest
        /\ last \in Books(l) /\ (\A i \in Books(l) : i <= last) /\ l[last].state = state
    BY <1>1, <1>5, <2>1, <2>2, <2>3
  <2>5. engine' = OnVerify(e, ts, rest, state)
    BY <1>3
  <2> HIDE DEF m, l, e, state
  <2>6. EngineInv(m, OnVerify(e, ts, rest, state))
    BY <1>2, <2>4, VerifyKeeps
  <2> QED BY <2>5, <2>6 DEF m
<1> QED BY <1>1, <1>2, <1>3, <1>4, <1>5, <1>6, LineKeeps

\* The steps that write no line.
LEMMA OtherStepKeeps ==
    ASSUME SoundInv, Typed', TotalsOf(book'),
           TradeStep \/ FinishStep \/ UNCHANGED <<phase, now, book, engine, log>>
    PROVE  SoundInv'
<1>1. log' = log /\ now' = now /\ book' = book
  BY DEF TradeStep, FinishStep
<1>2. Ordered(log) => IF phase' = "written"
                      THEN engine'.pending = <<>> /\ VerdictInv(log, engine', TRUE)
                      ELSE EngineInv(log, engine')
  <2> SUFFICES ASSUME Ordered(log)
               PROVE  IF phase' = "written"
                      THEN engine'.pending = <<>> /\ VerdictInv(log, engine', TRUE)
                      ELSE EngineInv(log, engine')
    OBVIOUS
  <2>1. CASE FinishStep
    <3>1. VerdictInv(log, engine, FALSE)
      BY <2>1 DEF SoundInv, FinishStep, EngineInv
    <3>2. log \in Seq(Record) /\ engine \in Engine /\ Len(engine.pending) <= 1
      BY DEF SoundInv, Typed
    <3>3. FinishEngine(engine).pending = <<>> /\ VerdictInv(log, FinishEngine(engine), TRUE)
      BY <3>1, <3>2, FinishKeeps
    <3> QED BY <2>1, <3>3 DEF FinishStep
  <2>2. CASE TradeStep
    <3>1. phase # "written" /\ phase' # "written" /\ engine' = engine
      BY <2>2 DEF TradeStep
    <3> QED BY <3>1 DEF SoundInv
  <2>3. CASE UNCHANGED <<phase, now, book, engine, log>>
    <3>1. phase' = phase /\ engine' = engine
      BY <2>3
    <3> QED BY <3>1 DEF SoundInv
  <2> QED BY <2>1, <2>2, <2>3
<1>3. LogInv(log) /\ (log # <<>> => WrittenAt(log[Len(log)]) = now /\ LastBook(log, book.levels))
  BY DEF SoundInv
<1>4. (SoundInv)' <=> /\ Typed' /\ TotalsOf(book') /\ LogInv(log')
                      /\ log' # <<>> => WrittenAt(log'[Len(log')]) = now' /\ LastBook(log', book'.levels)
                      /\ Ordered(log') => IF phase' = "written"
                                          THEN engine'.pending = <<>> /\ VerdictInv(log', engine', TRUE)
                                          ELSE EngineInv(log', engine')
  BY DEF SoundInv, TotalsOf, LogInv, WrittenAt, LastBook, Ordered, VerdictInv, EngineInv
<1> QED BY <1>1, <1>2, <1>3, <1>4

\* The invariant holds at the start.
LEMMA SoundInit ==
    ASSUME OfflineInit
    PROVE  SoundInv
<1>1. log = <<>> /\ engine = NewEngine /\ phase = "orderbook"
  BY DEF OfflineInit, Init
<1>2. /\ NewEngine.window = <<>> /\ NewEngine.pending = <<>> /\ NewEngine.rows = <<>>
      /\ NewEngine.gap_pending = FALSE
  BY DEF NewEngine
<1>3. Books(<<>>) = {} /\ Checks(<<>>) = {} /\ Len(<<>>) = 0 /\ Cardinality({}) = 0
  BY FS_EmptySet DEF Books, Checks
<1>4. LogInv(<<>>)
  BY <1>3 DEF LogInv
<1>5. ~Suspect(<<>>, Len(<<>>) + 1)
  BY <1>3 DEF Suspect
<1>6. WindowInv(<<>>, NewEngine)
  BY <1>2, <1>5 DEF WindowInv
<1>7. VerdictInv(<<>>, NewEngine, FALSE)
  <2>1. Len(NewEngine.rows) + Len(NewEngine.pending) = Cardinality(Checks(<<>>))
    BY <1>2, <1>3
  <2>2. NewEngine.pending = <<>> /\ \A c \in Checks(<<>>) : FALSE
    BY <1>2, <1>3
  <2> HIDE DEF NewEngine
  <2> QED BY <2>1, <2>2, Zenon DEF VerdictInv
<1> QED BY <1>1, <1>4, <1>6, <1>7, InitTyped DEF SoundInv, EngineInv

\* And every step keeps it.
LEMMA SoundStep ==
    ASSUME SoundInv, [OfflineNext]_<<vars, stream>>
    PROVE  SoundInv'
<1>1. Typed /\ TotalsOf(book)
  BY DEF SoundInv
<1>2. /\ Typed' /\ TotalsOf(book')
      /\ \/ BookStep(TRUE)
         \/ BookStep(FALSE) /\ log # <<>>
         \/ GapStep
         \/ \E lag \in Lags, rest \in RestBooks : CheckStep(lag, rest)
         \/ TradeStep
         \/ FinishStep
         \/ UNCHANGED <<phase, now, book, engine, log>>
  BY <1>1, StepIs
<1>3. CASE BookStep(TRUE)
  BY <1>2, <1>3, BookStepKeeps
<1>4. CASE BookStep(FALSE) /\ log # <<>>
  BY <1>2, <1>4, BookStepKeeps
<1>5. CASE GapStep
  BY <1>2, <1>5, GapStepKeeps
<1>6. CASE \E lag \in Lags, rest \in RestBooks : CheckStep(lag, rest)
  BY <1>2, <1>6, CheckStepKeeps
<1>7. CASE TradeStep \/ FinishStep \/ UNCHANGED <<phase, now, book, engine, log>>
  BY <1>2, <1>7, OtherStepKeeps
<1> QED BY <1>2, <1>3, <1>4, <1>5, <1>6, <1>7

---------------------------------------------------------------------------
(* What the invariant says of the finished report.                         *)

\* No line is written after now.
LEMMA NowIsLast ==
    ASSUME log \in Seq(Record), Ordered(log), now \in Int, log # <<>> => WrittenAt(log[Len(log)]) = now
    PROVE  \A i \in DOMAIN log : WrittenAt(log[i]) \in Int /\ WrittenAt(log[i]) <= now
<1> SUFFICES ASSUME NEW i \in DOMAIN log PROVE WrittenAt(log[i]) \in Int /\ WrittenAt(log[i]) <= now
  OBVIOUS
<1>1. Len(log) \in Nat /\ DOMAIN log = 1 .. Len(log) /\ WrittenAt(log[i]) \in Int
  BY LinesAre
<1>2. log # <<>>
  BY <1>1
<1>3. Len(log) \in DOMAIN log
  BY <1>1
<1>4. CASE i = Len(log)
  BY <1>1, <1>2, <1>4
<1>5. CASE i < Len(log)
  BY <1>1, <1>2, <1>3, <1>5 DEF Ordered
<1> QED BY <1>1, <1>4, <1>5

\* The end of a state: at the next book line, or not yet.
LEMMA EndOfIs ==
    ASSUME log \in Seq(Record), Ordered(log), now \in Int, NEW i \in Books(log)
    PROVE  /\ EndOf(i) \in Int
           /\ \A a \in Int : a <= now + Window + 1 /\ Alive(log, i, a) => EndOf(i) >= a
           /\ \A b \in Int : Over(log, i, b) => EndOf(i) <= b
<1> DEFINE later == {j \in Books(log) : j > i}
<1>1. EndOf(i) = IF later = {} THEN now + Window + 1 ELSE log[Min(later)].ts
  BY DEF EndOf, BookAt, Books
<1>2. /\ Books(log) \subseteq 1 .. Len(log) /\ Len(log) \in Nat /\ DOMAIN log = 1 .. Len(log)
      /\ \A j \in 1 .. Len(log) : log[j].ts \in Int
  BY LinesAre
<1>3. \A j \in Books(log) : j \in DOMAIN log /\ j \in Nat /\ WrittenAt(log[j]) = log[j].ts /\ log[j].ts \in Int
  <2>1. \A j \in Books(log) : log[j].kind = "book"
    BY DEF Books
  <2> QED BY <1>2, <2>1 DEF WrittenAt
<1>4. CASE later = {}
  BY <1>1, <1>4, VerifyWindowAssumption DEF Over
<1>5. CASE later # {}
  <2> DEFINE k == Min(later)
  <2>1. k \in later /\ \A j \in later : k <= j
    <3>1. later \in SUBSET Nat
      BY <1>3
    <3> HIDE DEF later
    <3> QED BY <1>5, <3>1, MinIsLeast
  <2>2. EndOf(i) = log[k].ts
    BY <1>1, <1>5
  <2> HIDE DEF k
  <2>3. k \in Books(log) /\ k > i /\ log[k].ts \in Int
    BY <1>3, <2>1
  <2>4. \A a \in Int : Alive(log, i, a) => EndOf(i) >= a
    BY <2>2, <2>3 DEF Alive
  <2>5. ASSUME NEW b \in Int, Over(log, i, b) PROVE EndOf(i) <= b
    <3>1. PICK j \in Books(log) : j > i /\ log[j].ts <= b
      BY <2>5 DEF Over
    <3>2. k <= j
      BY <2>1, <3>1
    <3>3. log[k].ts <= log[j].ts
      <4>1. CASE k = j
        BY <1>3, <4>1
      <4>2. CASE k < j
        BY <1>3, <2>3, <4>2 DEF Ordered
      <4> QED BY <1>3, <2>3, <3>2, <4>1, <4>2
    <3> QED BY <1>3, <2>2, <2>3, <3>1, <3>3
  <2> QED BY <2>2, <2>3, <2>4, <2>5
<1> QED BY <1>4, <1>5

\* A row that is judged is a verdict.
LEMMA JudgedIsVerdict ==
    ASSUME log \in Seq(Record), Ordered(log), now \in Int, LogInv(log),
           log # <<>> => WrittenAt(log[Len(log)]) = now,
           NEW c \in Checks(log), NEW row, Judged(log, c, row, TRUE)
    PROVE  Verdict(c, row)
<1> DEFINE v == log[c].ts
           until == Until(log, c)
           lastBefore == LastBefore(log, c)
           equal(a, b, strictly) ==
              \E i \in Books(log) : log[i].state = log[c].rest /\ InForce(i, a, b, strictly)
<1>1. v \in Int /\ log[c].at \in Int /\ until \in Int /\ lastBefore \in Int
  BY UntilIs, LastBeforeIs
<1>2. v <= now
  <2>1. c \in DOMAIN log /\ log[c].kind = "verify"
    BY DEF Checks
  <2>2. WrittenAt(log[c]) = log[c].at
    BY <2>1 DEF WrittenAt
  <2>3. log[c].at <= now
    BY <2>1, <2>2, NowIsLast
  <2>4. v <= log[c].at
    BY DEF LogInv
  <2> QED BY <1>1, <2>3, <2>4
<1>3. BookAt = Books(log) /\ SuspectAt(c) = Suspect(log, c) /\ Afterwards(c) = After(log, c)
  BY DEF BookAt, Books, SuspectAt, Suspect, Afterwards, After
<1>4. row.outcome = "matched" => ~Suspect(log, c) /\ equal(v - Window, until, FALSE)
                                 /\ row.lag \in -Window .. until - v
  <2> SUFFICES ASSUME row.outcome = "matched" PROVE equal(v - Window, until, FALSE)
    BY DEF Judged
  <2>1. PICK i \in Books(log) : /\ log[i].state = log[c].rest /\ log[i].ts <= until
                                /\ Alive(log, i, v - Window)
    BY DEF Judged
  <2>2. v - Window \in Int /\ v - Window <= now + Window + 1
    BY <1>1, <1>2, VerifyWindowAssumption
  <2>3. EndOf(i) >= v - Window
    BY <2>1, <2>2, EndOfIs
  <2> QED BY <2>1, <2>3 DEF InForce
<1>5. row.outcome = "mismatch" => ~Suspect(log, c) /\ ~GapAfter(log, c)
                                  /\ ~equal(lastBefore - Window, v + Window, TRUE)
  <2> SUFFICES ASSUME row.outcome = "mismatch", NEW i \in Books(log), log[i].state = log[c].rest,
                      InForce(i, lastBefore - Window, v + Window, TRUE)
               PROVE  FALSE
    BY DEF Judged
  <2>1. log[i].ts <= v + Window /\ EndOf(i) > lastBefore - Window
    BY DEF InForce
  <2>2. Over(log, i, lastBefore - Window)
    BY <2>1 DEF Judged
  <2>3. lastBefore - Window \in Int
    BY <1>1, VerifyWindowAssumption
  <2>4. EndOf(i) \in Int /\ EndOf(i) <= lastBefore - Window
    BY <2>2, <2>3, EndOfIs
  <2> HIDE DEF lastBefore
  <2> QED BY <2>1, <2>3, <2>4
<1>6. row.outcome = "truncated" => ~GapAfter(log, c) /\ \A i \in Books(log) : i > c => log[i].ts <= v + Window
  <2> SUFFICES ASSUME Quiet(log, c)
               PROVE  ~GapAfter(log, c) /\ \A i \in Books(log) : i > c => log[i].ts <= v + Window
    BY DEF Judged
  <2>1. ~GapAfter(log, c)
    BY DEF Quiet, GapAfter, After
  <2>2. Books(log) \subseteq 1 .. Len(log) /\ Len(log) \in Nat /\ c \in 1 .. Len(log)
    BY LinesAre
  <2>3. \A i \in Books(log) : i > c => i \in c + 1 .. Len(log)
    BY <2>2
  <2> QED BY <2>1, <2>3 DEF Quiet
<1>7. row.ts = v /\ (row.outcome = "skipped_gap" => Suspect(log, c) \/ GapAfter(log, c))
  BY DEF Judged
<1>8. /\ until = Max({v + Window, log[c].at})
      /\ lastBefore = Max({v} \cup {log[i].ts : i \in {j \in Books(log) : j < c}})
      /\ GapAfter(log, c) <=> \E i \in After(log, c) : log[i].kind = "gap"
  BY DEF Until, LastBefore, GapAfter
<1>9. \A a, b, strictly : equal(a, b, strictly) <=>
         \E i \in BookAt : log[i].state = log[c].rest /\ InForce(i, a, b, strictly)
  BY <1>3
<1> HIDE DEF until, lastBefore, equal, v
<1> QED BY <1>3, <1>4, <1>5, <1>6, <1>7, <1>8, <1>9 DEF Verdict, v

(***************************************************************************)
(* The verdicts of the verify engine, for every window, every book, every  *)
(* lag of a check and a log of any length whose clock never went back:     *)
(* every check has one row, in order, and what the row says is so.         *)
(***************************************************************************)
THEOREM OfflineVerdictsAreSound == OfflineSpec => []VerdictsAreSound
<1>1. OfflineInit => SoundInv
  BY SoundInit
<1>2. SoundInv /\ [OfflineNext]_<<vars, stream>> => SoundInv'
  BY SoundStep
<1>3. SoundInv => VerdictsAreSound
  <2> SUFFICES ASSUME SoundInv, Read, Monotone
               PROVE  /\ Len(engine.rows) = Cardinality(CheckAt)
                      /\ \A c \in CheckAt : Verdict(c, engine.rows[Cardinality({b \in CheckAt : b <= c})])
    BY DEF VerdictsAreSound
  <2>1. /\ log \in Seq(Record) /\ now \in Int /\ LogInv(log) /\ engine \in Engine
        /\ log # <<>> => WrittenAt(log[Len(log)]) = now
    BY DEF SoundInv, Typed
  <2>2. Ordered(log)
    BY DEF Monotone, Ordered
  <2>3. engine.pending = <<>> /\ VerdictInv(log, engine, TRUE)
    BY <2>2 DEF SoundInv, Read
  <2>4. CheckAt = Checks(log)
    BY DEF CheckAt, Checks
  <2>5. Len(engine.rows) = Cardinality(CheckAt)
    <3>1. Len(engine.rows) \in Nat /\ Len(engine.pending) = 0
      BY <2>1, <2>3 DEF Engine
    <3>2. Len(engine.rows) + Len(engine.pending) = Cardinality(CheckAt)
      BY <2>3, <2>4 DEF VerdictInv
    <3> QED BY <3>1, <3>2
  <2>6. ASSUME NEW c \in CheckAt
        PROVE  Verdict(c, engine.rows[Cardinality({b \in CheckAt : b <= c})])
    <3>1. Judged(log, c, engine.rows[RowOf(log, c)], TRUE)
      BY <2>3, <2>4 DEF VerdictInv, Waiting
    <3>2. Verdict(c, engine.rows[RowOf(log, c)])
      BY <2>1, <2>2, <2>4, <3>1, JudgedIsVerdict
    <3> QED BY <2>4, <3>2 DEF RowOf
  <2> QED BY <2>5, <2>6
<1> QED BY <1>1, <1>2, <1>3, PTL DEF OfflineSpec

---------------------------------------------------------------------------
(* The replayer: what it holds after the first n events.                   *)

ReplayTrace(at, events, n) ==
    at = [k \in 0 .. n |-> IF k = 0 THEN NewReplayer ELSE Apply(at[k - 1], events[k])]
Held(events, n) == (CHOOSE at : ReplayTrace(at, events, n))[n]

\* The recursive function of Replayed exists.
LEMMA ReplayTraceExists ==
    ASSUME NEW events, NEW n \in Nat
    PROVE  \E at : ReplayTrace(at, events, n)
<1> DEFINE T == {m \in Nat : \E at : ReplayTrace(at, events, m)}
<1>1. 0 \in T
  <2> DEFINE at == [k \in 0 .. 0 |-> NewReplayer]
  <2>1. ReplayTrace(at, events, 0)
    BY DEF ReplayTrace
  <2> QED BY <2>1
<1>2. ASSUME NEW m \in T PROVE m + 1 \in T
  <2>1. PICK at : ReplayTrace(at, events, m)
    OBVIOUS
  <2> DEFINE bt == [k \in 0 .. m + 1 |-> IF k <= m THEN at[k] ELSE Apply(at[m], events[m + 1])]
  <2>2. ReplayTrace(bt, events, m + 1)
    <3>1. m \in Nat /\ \A k \in 0 .. m : at[k] = IF k = 0 THEN NewReplayer ELSE Apply(at[k - 1], events[k])
      BY <2>1 DEF ReplayTrace
    <3>2. ASSUME NEW k \in 0 .. m + 1
          PROVE  bt[k] = IF k = 0 THEN NewReplayer ELSE Apply(bt[k - 1], events[k])
      <4>1. CASE k = 0
        BY <3>1, <4>1
      <4>2. CASE k # 0 /\ k <= m
        <5>1. k - 1 \in 0 .. m /\ k \in 0 .. m
          BY <3>1, <4>2
        <5>2. bt[k] = at[k] /\ bt[k - 1] = at[k - 1]
          BY <3>1, <5>1
        <5> QED BY <3>1, <4>2, <5>1, <5>2
      <4>3. CASE k = m + 1
        <5>1. bt[k] = Apply(at[m], events[m + 1]) /\ bt[m] = at[m] /\ k - 1 = m
          BY <3>1, <4>3
        <5> QED BY <3>1, <4>3, <5>1
      <4> QED BY <3>1, <4>1, <4>2, <4>3
    <3> HIDE DEF bt
    <3>3. bt = [k \in 0 .. m + 1 |-> bt[k]]
      BY DEF bt
    <3> QED BY <3>2, <3>3 DEF ReplayTrace
  <2> HIDE DEF bt
  <2> QED BY <2>2
<1>3. n \in T
  <2> HIDE DEF T
  <2>1. T \in SUBSET Nat
    BY DEF T
  <2> QED BY <1>1, <1>2, <2>1, Induction
<1> QED BY <1>3

\* What is held is the last value of that function.
LEMMA HeldIs ==
    ASSUME NEW events, NEW n \in Nat
    PROVE  \E at : ReplayTrace(at, events, n) /\ Held(events, n) = at[n]
<1> DEFINE at == CHOOSE f : ReplayTrace(f, events, n)
<1>1. ReplayTrace(at, events, n)
  BY ReplayTraceExists
<1>2. Held(events, n) = at[n]
  BY DEF Held
<1> HIDE DEF at
<1> QED BY <1>1, <1>2

\* What is held depends on the events so far alone.
LEMMA TracesOfReplay ==
    ASSUME NEW p, NEW q, NEW m \in Nat, NEW n \in Nat,
           NEW at, ReplayTrace(at, p, m), NEW bt, ReplayTrace(bt, q, n),
           NEW k \in Nat, k <= m, k <= n, \A i \in 1 .. k : p[i] = q[i]
    PROVE  at[k] = bt[k]
<1> DEFINE T == {i \in Nat : i <= k => at[i] = bt[i]}
<1>1. /\ \A i \in 0 .. m : at[i] = IF i = 0 THEN NewReplayer ELSE Apply(at[i - 1], p[i])
      /\ \A i \in 0 .. n : bt[i] = IF i = 0 THEN NewReplayer ELSE Apply(bt[i - 1], q[i])
  BY DEF ReplayTrace
<1>2. 0 \in T
  BY <1>1
<1>3. ASSUME NEW i \in T PROVE i + 1 \in T
  <2> SUFFICES ASSUME i + 1 <= k PROVE at[i + 1] = bt[i + 1]
    OBVIOUS
  <2>1. i \in Nat /\ i + 1 \in 0 .. m /\ i + 1 \in 0 .. n /\ i + 1 # 0 /\ (i + 1) - 1 = i
    OBVIOUS
  <2>2. at[i] = bt[i] /\ p[i + 1] = q[i + 1]
    BY <2>1
  <2> QED BY <1>1, <2>1, <2>2
<1>4. k \in T
  <2> HIDE DEF T
  <2>1. T \in SUBSET Nat
    BY DEF T
  <2> QED BY <1>2, <1>3, <2>1, Induction
<1> QED BY <1>4

\* Two streams that agree on their first n events leave the same.
LEMMA HeldAgree ==
    ASSUME NEW p, NEW q, NEW n \in Nat, \A i \in 1 .. n : p[i] = q[i]
    PROVE  Held(p, n) = Held(q, n)
<1>1. ASSUME NEW at, ReplayTrace(at, p, n), NEW bt, ReplayTrace(bt, q, n) PROVE at[n] = bt[n]
  <2>1. n <= n
    OBVIOUS
  <2> QED BY <1>1, <2>1, TracesOfReplay, SMTT(30)
<1>2. PICK at : ReplayTrace(at, p, n) /\ Held(p, n) = at[n]
  BY HeldIs
<1>3. PICK bt : ReplayTrace(bt, q, n) /\ Held(q, n) = bt[n]
  BY HeldIs
<1> QED BY <1>1, <1>2, <1>3

\* Before the first event the replayer is new.
LEMMA HeldNone == \A events : Held(events, 0) = NewReplayer
<1> SUFFICES ASSUME NEW events PROVE Held(events, 0) = NewReplayer
  OBVIOUS
<1>1. 0 \in Nat /\ 0 \in 0 .. 0
  OBVIOUS
<1>2. PICK at : ReplayTrace(at, events, 0) /\ Held(events, 0) = at[0]
  BY <1>1, HeldIs
<1> QED BY <1>1, <1>2 DEF ReplayTrace

\* One event more is one Apply more.
LEMMA HeldNext ==
    ASSUME NEW events, NEW n \in Nat
    PROVE  Held(events, n + 1) = Apply(Held(events, n), events[n + 1])
<1>1. n + 1 \in Nat /\ n + 1 \in 0 .. n + 1 /\ n + 1 # 0 /\ (n + 1) - 1 = n
  OBVIOUS
<1>2. PICK at : ReplayTrace(at, events, n) /\ Held(events, n) = at[n]
  BY HeldIs
<1>3. PICK bt : ReplayTrace(bt, events, n + 1) /\ Held(events, n + 1) = bt[n + 1]
  BY <1>1, HeldIs
<1>4. at[n] = bt[n]
  BY <1>1, <1>2, <1>3, TracesOfReplay
<1>5. bt[n + 1] = Apply(bt[n], events[n + 1])
  BY <1>1, <1>3 DEF ReplayTrace
<1> QED BY <1>2, <1>3, <1>4, <1>5

\* Replayed is what is held after all the events.
LEMMA ReplayedIsHeld == ASSUME NEW events PROVE Replayed(events) = Held(events, Len(events))
  BY DEF Replayed, Held, ReplayTrace

\* A replayer has a book and pending gaps, whatever is applied.
Replayer(r) == r \in [book : {r.book}, pending_gaps : {r.pending_gaps}]
Kinds == {"snapshot", "delta", "gap", "trade"}

\* BookReplayer::apply, field by field, for each kind of event.
LEMMA ApplyIs ==
    ASSUME NEW r, Replayer(r), NEW e, e.kind \in Kinds
    PROVE  /\ Replayer(Apply(r, e))
           /\ e.kind = "snapshot" => /\ Apply(r, e).book = ApplySnapshot(r.book, LevelsOf(e))
                                     /\ Apply(r, e).pending_gaps = <<>>
           /\ e.kind = "delta" => /\ Apply(r, e).book = LET c == CHOOSE l \in e.levels : TRUE
                                                        IN ApplyChange(r.book, c[1], c[2])
                                  /\ Apply(r, e).pending_gaps = r.pending_gaps
           /\ e.kind = "gap" => /\ Apply(r, e).book = r.book
                                /\ Apply(r, e).pending_gaps = Append(r.pending_gaps, e)
           /\ e.kind = "trade" => Apply(r, e) = r
<1>1. CASE e.kind = "snapshot"
  <2> DEFINE b == ApplySnapshot(r.book, LevelsOf(e))
  <2> HIDE DEF b
  <2>1. Apply(r, e) = [book |-> b, pending_gaps |-> <<>>]
    BY <1>1 DEF Apply, b
  <2> QED BY <1>1, <2>1 DEF Replayer, b
<1>2. CASE e.kind = "delta"
  <2> DEFINE c == CHOOSE l \in e.levels : TRUE
             b == ApplyChange(r.book, c[1], c[2])
  <2>1. Apply(r, e) = [r EXCEPT !.book = b]
    BY <1>2 DEF Apply
  <2> HIDE DEF b
  <2>2. [r EXCEPT !.book = b] \in [book : {b}, pending_gaps : {r.pending_gaps}]
    BY DEF Replayer
  <2>3. Apply(r, e).book = b /\ Apply(r, e).pending_gaps = r.pending_gaps
    BY <2>1, <2>2
  <2> QED BY <1>2, <2>1, <2>2, <2>3 DEF Replayer, b
<1>3. CASE e.kind = "gap"
  <2> DEFINE g == Append(r.pending_gaps, e)
  <2>1. Apply(r, e) = [r EXCEPT !.pending_gaps = g]
    BY <1>3 DEF Apply
  <2> HIDE DEF g
  <2>2. [r EXCEPT !.pending_gaps = g] \in [book : {r.book}, pending_gaps : {g}]
    BY DEF Replayer
  <2>3. Apply(r, e).pending_gaps = g /\ Apply(r, e).book = r.book
    BY <2>1, <2>2
  <2> QED BY <1>3, <2>1, <2>2, <2>3 DEF Replayer, g
<1>4. CASE e.kind = "trade"
  BY <1>4 DEF Apply
<1> QED BY <1>1, <1>2, <1>3, <1>4 DEF Kinds

---------------------------------------------------------------------------
(* The rows of one line of the log, and what the replayer makes of them.   *)

\* SetToSeq lists a finite set: each member at one place.
LEMMA ListIs ==
    ASSUME NEW S, IsFiniteSet(S), NEW q, q = SetToSeq(S)
    PROVE  /\ Cardinality(S) \in Nat /\ q \in Seq(S) /\ Len(q) = Cardinality(S)
           /\ \A i, j \in 1 .. Len(q) : q[i] = q[j] => i = j
           /\ \A s \in S : \E i \in 1 .. Len(q) : q[i] = s
<1> DEFINE n == Cardinality(S)
<1>1. n \in Nat /\ ExistsBijection(1 .. n, S)
  BY FS_CardinalityType
<1>2. IsFiniteSet(1 .. n) /\ Cardinality(1 .. n) = n
  BY <1>1, FS_Interval
<1>3. \E f \in [1 .. n -> S] : IsInjective(f)
  BY <1>1 DEF ExistsBijection, Bijection, Injection, IsInjective
<1>4. q \in [1 .. n -> S] /\ IsInjective(q)
  BY <1>3 DEF SetToSeq
<1> HIDE DEF n
<1>5. q \in Injection(1 .. n, S)
  BY <1>4 DEF Injection, IsInjective
<1>6. q \in Surjection(1 .. n, S)
  BY <1>2, <1>5, FS_Injection DEF n
<1>7. q \in Seq(S) /\ Len(q) = n
  BY <1>1, <1>4
<1> QED BY <1>1, <1>4, <1>6, <1>7 DEF Surjection, IsInjective, n

\* A row of the table.
RowsOf == BookRows(Slots \cup {NoSlot})

\* The rows of a snapshot: one event, its levels those of the snapshot.
SnapshotIs(new, ts, s, levels) ==
    /\ new \in Seq(RowsOf) /\ new # <<>>
    /\ \A i \in 1 .. Len(new) :
          /\ new[i].snapshot /\ new[i].event_idx = event_idx
          /\ new[i].ts = ts /\ new[i].seq = s
          /\ new[i].slot # NoSlot => new[i].qty = levels[new[i].slot]
    /\ \A slot \in Slots : levels[slot] # 0 => \E i \in 1 .. Len(new) : new[i].slot = slot

\* The rows that a snapshot line leaves in the table.
LEMMA SnapshotRowsAre ==
    ASSUME event_idx \in Nat, NEW ts \in Int, NEW s \in Nat, NEW levels \in [Slots -> Nat]
    PROVE  SnapshotIs(SnapshotRows(ts, s, levels), ts, s, levels)
<1> DEFINE S == {slot \in Slots : levels[slot] # 0}
           q == SlotsOf(levels)
           new == SnapshotRows(ts, s, levels)
<1>1. IsFiniteSet(S)
  BY SlotsAssumption, FS_Subset
<1>2. q = SetToSeq(S)
  BY DEF SlotsOf
<1>3. S \subseteq Slots /\ \A slot \in Slots : levels[slot] # 0 => slot \in S
  OBVIOUS
<1>4. new = IF q = <<>> THEN <<BookRow(ts, s, TRUE, NoSlot, 0)>>
            ELSE [i \in DOMAIN q |-> BookRow(ts, s, TRUE, q[i], levels[q[i]])]
  BY DEF SnapshotRows
<1> HIDE DEF S, q, new
<1>5. q \in Seq(S) /\ \A x \in S : \E i \in 1 .. Len(q) : q[i] = x
  BY <1>1, <1>2, ListIs, SMTT(60)
<1> SUFFICES SnapshotIs(new, ts, s, levels)
  BY DEF new
<1>6. CASE q = <<>>
  <2>1. \A x \in Slots : levels[x] = 0
    <3>1. Len(q) = 0
      BY <1>6
    <3> QED BY <1>3, <1>5, <3>1
  <2> DEFINE r == BookRow(ts, s, TRUE, NoSlot, 0)
  <2>2. r \in RowsOf /\ r.event_idx = event_idx /\ r.ts = ts /\ r.seq = s /\ r.snapshot /\ r.slot = NoSlot
    <3>1. NoSlot \in Slots \cup {NoSlot} /\ 0 \in Int /\ TRUE \in BOOLEAN
      OBVIOUS
    <3> QED BY <3>1 DEF BookRow, RowsOf, BookRows
  <2>3. new = <<r>>
    BY <1>4, <1>6
  <2> HIDE DEF r
  <2>4. new \in Seq(RowsOf) /\ Len(new) = 1 /\ new[1] = r /\ new # <<>>
    BY <2>2, <2>3
  <2> QED BY <2>1, <2>2, <2>4 DEF SnapshotIs
<1>7. CASE q # <<>>
  <2>1. DOMAIN q = 1 .. Len(q) /\ Len(q) \in Nat /\ Len(q) # 0 /\ \A i \in 1 .. Len(q) : q[i] \in S
    BY <1>5, <1>7
  <2>2. new = [i \in 1 .. Len(q) |-> BookRow(ts, s, TRUE, q[i], levels[q[i]])]
    BY <1>4, <1>7, <2>1
  <2>3. ASSUME NEW i \in 1 .. Len(q)
        PROVE  /\ new[i] \in RowsOf /\ new[i].event_idx = event_idx /\ new[i].ts = ts
               /\ new[i].seq = s /\ new[i].snapshot /\ new[i].slot = q[i]
               /\ new[i].qty = levels[q[i]]
    <3>1. q[i] \in Slots \cup {NoSlot} /\ levels[q[i]] \in Int /\ TRUE \in BOOLEAN
      BY <1>3, <2>1
    <3>2. new[i] = BookRow(ts, s, TRUE, q[i], levels[q[i]])
      BY <2>2
    <3> QED BY <3>1, <3>2 DEF BookRow, RowsOf, BookRows
  <2>4. new \in Seq(RowsOf) /\ Len(new) = Len(q) /\ new # <<>>
    <3>1. new \in [1 .. Len(q) -> RowsOf]
      BY <2>2, <2>3
    <3> QED BY <2>1, <3>1
  <2>5. ASSUME NEW slot \in Slots, levels[slot] # 0 PROVE \E i \in 1 .. Len(new) : new[i].slot = slot
    <3>1. PICK i \in 1 .. Len(q) : q[i] = slot
      BY <1>3, <1>5, <2>5
    <3> QED BY <2>3, <2>4, <3>1
  <2> QED BY <2>3, <2>4, <2>5 DEF SnapshotIs
<1> QED BY <1>6, <1>7

\* What the event of these rows does to a book is what the snapshot does.
LEMMA SnapshotEventIs ==
    ASSUME event_idx \in Nat, NEW ts \in Int, NEW s \in Nat, NEW levels \in [Slots -> Nat],
           NEW rows \in Seq(RowsOf), NEW new, SnapshotIs(new, ts, s, levels),
           Group(rows \o new, Len(rows) + 1) = Len(rows) + 1 .. Len(rows) + Len(new)
    PROVE  LET e == BookEvent(rows \o new, Len(rows) + 1)
           IN /\ e.kind = "snapshot" /\ e.key \in Keys /\ e.key[1] = ts /\ e.key[3] = s
              /\ e.key[2] = (IF s = 0 THEN 1 ELSE 0) /\ e.ts = ts /\ LevelsOf(e) = levels
<1> DEFINE all == rows \o new
           m == Len(rows)
           e == BookEvent(all, m + 1)
<1>0. new \in Seq(RowsOf) /\ Len(new) \in Nat /\ Len(new) # 0
  BY DEF SnapshotIs
<1>1. /\ all \in Seq(RowsOf) /\ Len(all) = m + Len(new) /\ m \in Nat
      /\ \A i \in 1 .. Len(new) : all[m + i] = new[i]
  BY <1>0
<1> HIDE DEF m, all
<1>2. m + 1 \in 1 .. Len(all) /\ 1 \in 1 .. Len(new)
  BY <1>0, <1>1
<1>3. /\ all[m + 1].snapshot /\ all[m + 1].ts = ts /\ all[m + 1].seq = s
  BY <1>1, <1>2 DEF SnapshotIs
<1>4. all \in Seq(BookRows(Slots \cup {NoSlot}))
  BY <1>1 DEF RowsOf
<1>5. /\ e.kind = "snapshot" /\ e.key \in Keys /\ e.key[1] = ts /\ e.key[3] = s
      /\ e.key[2] = (IF s = 0 THEN 1 ELSE 0) /\ e.ts = ts
      /\ e.levels = {<<all[j].slot, all[j].qty>> :
                       j \in {k \in Group(all, m + 1) : all[k].slot # NoSlot}}
  <2> DEFINE S == Slots \cup {NoSlot}
             i == m + 1
  <2>1. all \in Seq(BookRows(S)) /\ i \in 1 .. Len(all)
    BY <1>2, <1>4
  <2>2. all[i].snapshot /\ all[i].ts = ts /\ all[i].seq = s
    BY <1>3
  <2> HIDE DEF S, i
  <2>3. LET d == BookEvent(all, i)
        IN /\ d.kind = IF all[i].snapshot THEN "snapshot" ELSE "delta"
           /\ d.key \in Keys /\ d.key[1] = all[i].ts /\ d.key[2] = IF all[i].seq = 0 THEN 1 ELSE 0
           /\ d.key[3] = all[i].seq /\ d.ts = all[i].ts
           /\ d.levels = {<<all[j].slot, all[j].qty>> :
                            j \in {k \in Group(all, i) : all[k].slot # NoSlot}}
    BY <2>1, BookEventIs
  <2> QED BY <2>2, <2>3 DEF i
<1> HIDE DEF e
<1>6. Group(all, m + 1) = m + 1 .. m + Len(new)
  BY DEF m, all
<1>7. ASSUME NEW l \in e.levels PROVE l[1] # NoSlot /\ l[2] = levels[l[1]]
  <2>1. PICK j \in m + 1 .. m + Len(new) : all[j].slot # NoSlot /\ l = <<all[j].slot, all[j].qty>>
    BY <1>5, <1>6
  <2>2. j - m \in 1 .. Len(new) /\ m + (j - m) = j
    BY <1>0, <1>1
  <2>3. all[j] = new[j - m]
    BY <1>1, <2>2
  <2> QED BY <2>1, <2>2, <2>3 DEF SnapshotIs
<1>8. ASSUME NEW slot \in Slots, levels[slot] # 0 PROVE \E l \in e.levels : l[1] = slot
  <2>1. PICK i \in 1 .. Len(new) : new[i].slot = slot
    BY <1>8 DEF SnapshotIs
  <2>2. m + i \in m + 1 .. m + Len(new) /\ all[m + i] = new[i]
    BY <1>0, <1>1
  <2>3. slot # NoSlot
    BY SlotsAssumption
  <2>4. <<all[m + i].slot, all[m + i].qty>> \in e.levels
    BY <1>5, <1>6, <2>1, <2>2, <2>3
  <2> QED BY <2>1, <2>2, <2>4
<1>9. ASSUME NEW slot \in Slots PROVE LevelsOf(e)[slot] = levels[slot]
  <2>1. LevelsOf(e)[slot] = IF \E l \in e.levels : l[1] = slot
                            THEN (CHOOSE l \in e.levels : l[1] = slot)[2] ELSE 0
    BY DEF LevelsOf
  <2>2. CASE \E l \in e.levels : l[1] = slot
    <3> DEFINE c == CHOOSE l \in e.levels : l[1] = slot
    <3>1. c \in e.levels /\ c[1] = slot
      BY <2>2
    <3>2. LevelsOf(e)[slot] = c[2]
      BY <2>1, <2>2
    <3> HIDE DEF c
    <3> QED BY <1>7, <3>1, <3>2
  <2>3. CASE ~\E l \in e.levels : l[1] = slot
    BY <1>8, <2>1, <2>3
  <2> QED BY <2>2, <2>3
<1>10. LevelsOf(e) = levels
  <2>1. LevelsOf(e) = [slot \in Slots |-> LevelsOf(e)[slot]]
    BY DEF LevelsOf
  <2> QED BY <1>9, <2>1
<1> QED BY <1>5, <1>10 DEF e, m, all

\* A delta is one row, and its event the change it carries.
LEMMA DeltaEventIs ==
    ASSUME NEW r \in RowsOf, ~r.snapshot, r.slot \in Slots, NEW rows \in Seq(RowsOf), NEW new, new = <<r>>,
           Group(rows \o new, Len(rows) + 1) = Len(rows) + 1 .. Len(rows) + Len(new)
    PROVE  LET e == BookEvent(rows \o new, Len(rows) + 1)
           IN /\ e.kind = "delta" /\ e.key \in Keys /\ e.key[1] = r.ts /\ e.key[3] = r.seq
              /\ e.key[2] = (IF r.seq = 0 THEN 1 ELSE 0) /\ e.ts = r.ts /\ e.levels = {<<r.slot, r.qty>>}
<1> DEFINE all == rows \o new
           m == Len(rows)
           e == BookEvent(all, m + 1)
<1>1. /\ all \in Seq(RowsOf) /\ Len(all) = m + 1 /\ m \in Nat /\ all[m + 1] = r /\ Len(new) = 1
  <2>2. new \in Seq(RowsOf) /\ Len(new) = 1 /\ new[1] = r
    OBVIOUS
  <2> QED BY <2>2
<1> HIDE DEF m, all
<1>2. m + 1 \in 1 .. Len(all)
  BY <1>1
<1>4. all \in Seq(BookRows(Slots \cup {NoSlot}))
  BY <1>1 DEF RowsOf
<1>5. /\ e.kind = "delta" /\ e.key \in Keys /\ e.key[1] = r.ts /\ e.key[3] = r.seq
      /\ e.key[2] = (IF r.seq = 0 THEN 1 ELSE 0) /\ e.ts = r.ts
      /\ e.levels = {<<all[j].slot, all[j].qty>> :
                       j \in {k \in Group(all, m + 1) : all[k].slot # NoSlot}}
  <2> DEFINE S == Slots \cup {NoSlot}
             i == m + 1
  <2>1. all \in Seq(BookRows(S)) /\ i \in 1 .. Len(all)
    BY <1>2, <1>4
  <2>2. ~all[i].snapshot /\ all[i].ts = r.ts /\ all[i].seq = r.seq
    BY <1>1
  <2> HIDE DEF S, i
  <2>3. LET d == BookEvent(all, i)
        IN /\ d.kind = IF all[i].snapshot THEN "snapshot" ELSE "delta"
           /\ d.key \in Keys /\ d.key[1] = all[i].ts /\ d.key[2] = IF all[i].seq = 0 THEN 1 ELSE 0
           /\ d.key[3] = all[i].seq /\ d.ts = all[i].ts
           /\ d.levels = {<<all[j].slot, all[j].qty>> :
                            j \in {k \in Group(all, i) : all[k].slot # NoSlot}}
    BY <2>1, BookEventIs
  <2> QED BY <2>2, <2>3 DEF i
<1> HIDE DEF e
<1>6. Group(all, m + 1) = {m + 1}
  <2>1. Group(all, m + 1) = m + 1 .. m + 1
    BY <1>1 DEF m, all
  <2> QED BY <1>1, <2>1
<1>7. r.slot # NoSlot
  BY SlotsAssumption
<1>8. e.levels = {<<r.slot, r.qty>>}
  BY <1>1, <1>5, <1>6, <1>7
<1> QED BY <1>5, <1>8 DEF e, m, all

---------------------------------------------------------------------------
(* The gaps table that Finish writes.                                      *)

InTimeOrder(rows) == \A i, j \in 1 .. Len(rows) : i < j => rows[i].ts <= rows[j].ts

\* The rows of the table, sorted.
LEMMA SortedByTimeIs ==
    ASSUME NEW rows \in Seq(GapRow)
    PROVE  SortedByTime(rows) \in Seq(GapRow) /\ InTimeOrder(SortedByTime(rows))
<1> DEFINE n == Len(rows)
           lane == GapLane(rows)
           E == ToSet(lane)
           s == SortByKey(E)
           q == SortedByTime(rows)
<1>1. /\ n \in Nat /\ lane = [i \in 1 .. n |-> lane[i]]
      /\ \A i \in 1 .. n : /\ rows[i] \in GapRow /\ rows[i].ts \in Int
                           /\ lane[i].key \in Keys /\ lane[i].key[1] = rows[i].ts /\ lane[i].key[6] = i
  BY GapLaneIs
<1>2. q = [k \in DOMAIN s |-> rows[s[k].key[6]]]
  BY DEF SortedByTime
<1> HIDE DEF n, lane, q
<1>3. \A e \in E : \E i \in 1 .. n : e = lane[i]
  BY <1>1 DEF ToSet
<1>4. Sortable(E)
  <2>1. IsFiniteSet(1 .. n)
    BY <1>1, FS_Interval
  <2>2. lane \in Surjection(1 .. n, E)
    BY <1>1 DEF Surjection, ToSet
  <2>3. IsFiniteSet(E)
    BY <2>1, <2>2, FS_Surjection
  <2>4. \A e \in E : e.key \in Keys
    BY <1>1, <1>3
  <2>5. ASSUME NEW d \in E, NEW e \in E, d.key = e.key PROVE d = e
    BY <1>1, <1>3, <2>5, SMTT(60)
  <2> QED BY <2>3, <2>4, <2>5 DEF Sortable
<1> HIDE DEF E
<1>5. /\ DOMAIN s = 1 .. Cardinality(E) /\ ToSet(s) = E
      /\ \A i, j \in DOMAIN s : i < j => Before(s[i].key, s[j].key)
  BY <1>4, SortedByRank
<1> DEFINE m == Cardinality(E)
<1>6. m \in Nat
  BY <1>4, FS_CardinalityType DEF Sortable
<1> HIDE DEF s, m
<1>7. ASSUME NEW k \in 1 .. m
      PROVE  s[k].key \in Keys /\ q[k] \in GapRow /\ q[k].ts = s[k].key[1] /\ q[k].ts \in Int
  <2>1. s[k] \in E
    BY <1>5 DEF ToSet, m
  <2>2. PICK i \in 1 .. n : s[k] = lane[i]
    BY <1>3, <2>1
  <2>3. q[k] = rows[s[k].key[6]]
    BY <1>2, <1>5 DEF m
  <2> QED BY <1>1, <2>2, <2>3
<1>8. q \in [1 .. m -> GapRow]
  BY <1>2, <1>5, <1>7 DEF m
<1>9. q \in Seq(GapRow) /\ Len(q) = m
  BY <1>6, <1>8
<1>10. ASSUME NEW i \in 1 .. m, NEW j \in 1 .. m, i < j PROVE q[i].ts <= q[j].ts
  <2>1. Before(s[i].key, s[j].key)
    BY <1>5, <1>10 DEF m
  <2>2. s[i].key[1] \in Int /\ s[j].key[1] \in Int /\ Less(s[i].key, s[j].key)
    BY <1>7, <2>1, BeforeIsLess DEF Keys
  <2>3. s[i].key[1] <= s[j].key[1]
    BY <2>2 DEF Less
  <2> QED BY <1>7, <2>3
<1> QED BY <1>9, <1>10 DEF InTimeOrder, q

\* The mismatches are rows of the report.
LEMMA MismatchesAre ==
    ASSUME NEW rows \in Seq(RowType)
    PROVE  Mismatches(rows) \in Seq(RowType)
<1> DEFINE S == {i \in DOMAIN rows : rows[i].outcome = "mismatch"}
           at == Ascending(S)
           q == Mismatches(rows)
<1>1. Len(rows) \in Nat /\ DOMAIN rows = 1 .. Len(rows)
  OBVIOUS
<1>2. S \in SUBSET Int /\ S \subseteq 1 .. Len(rows)
  BY <1>1
<1>3. IsFiniteSet(S)
  <2>1. IsFiniteSet(1 .. Len(rows))
    BY <1>1, FS_Interval
  <2> HIDE DEF S
  <2> QED BY <1>2, <2>1, FS_Subset
<1>4. q = [n \in DOMAIN at |-> rows[at[n]]]
  BY DEF Mismatches
<1> HIDE DEF S, q
<1>5. Cardinality(S) \in Nat /\ at \in [1 .. Cardinality(S) -> S]
  BY <1>2, <1>3, AscendingIs
<1> HIDE DEF at
<1>6. q \in [1 .. Cardinality(S) -> RowType]
  <2>1. \A n \in 1 .. Cardinality(S) : rows[at[n]] \in RowType
    <3>1. \A i \in 1 .. Len(rows) : rows[i] \in RowType
      OBVIOUS
    <3>2. \A n \in 1 .. Cardinality(S) : at[n] \in S
      BY <1>5
    <3> QED BY <1>2, <3>1, <3>2
  <2> QED BY <1>4, <1>5, <2>1
<1>7. q \in Seq(RowType)
  BY <1>5, <1>6
<1> QED BY <1>7 DEF q

\* What Finish makes of the table.
LEMMA FinishedGaps ==
    ASSUME NEW gaps \in Seq(GapRow), NEW rows \in Seq(RowType), NEW found, found = Mismatches(rows),
           NEW q, q = SortedByTime(gaps \o [i \in DOMAIN found |-> [ts |-> found[i].ts]])
    PROVE  q \in Seq(GapRow) /\ InTimeOrder(q)
<1> DEFINE new == [i \in DOMAIN found |-> [ts |-> found[i].ts]]
           all == gaps \o new
<1>1. found \in Seq(RowType)
  BY MismatchesAre
<1>2. Len(found) \in Nat /\ DOMAIN found = 1 .. Len(found) /\ \A i \in 1 .. Len(found) : found[i].ts \in Int
  <2>1. Len(found) \in Nat /\ DOMAIN found = 1 .. Len(found) /\ \A i \in 1 .. Len(found) : found[i] \in RowType
    BY <1>1
  <2>2. \A r \in RowType : r.ts \in Int
    BY DEF RowType
  <2> QED BY <2>1, <2>2
<1>3. \A i \in 1 .. Len(found) : [ts |-> found[i].ts] \in GapRow
  BY <1>2 DEF GapRow
<1>4. new \in [1 .. Len(found) -> GapRow]
  BY <1>2, <1>3
<1>5. new \in Seq(GapRow)
  <2> HIDE DEF new
  <2> QED BY <1>2, <1>4, SMTT(60)
<1>6. all \in Seq(GapRow)
  <2> HIDE DEF new
  <2> QED BY <1>5
<1>7. q = SortedByTime(all)
  OBVIOUS
<1> HIDE DEF all
<1> QED BY <1>6, <1>7, SortedByTimeIs

---------------------------------------------------------------------------
(* The book lane tells the log.                                            *)

\* The events of the book lane are snapshots and deltas.
LEMMA BookLaneKinds ==
    ASSUME NEW rows \in Seq(RowsOf)
    PROVE  LET lane == BookLane(rows)
           IN /\ Len(lane) \in Nat
              /\ \A k \in 1 .. Len(lane) : /\ lane[k].kind \in {"snapshot", "delta"}
                                           /\ lane[k].kind \in Kinds /\ lane[k].kind \notin {"gap", "trade"}
                                           /\ lane[k].key \in Keys /\ lane[k].ts = lane[k].key[1]
                                           /\ lane[k].ts \in Int
<1> DEFINE lane == BookLane(rows)
           S == Slots \cup {NoSlot}
<1>1. rows \in Seq(BookRows(S))
  BY DEF RowsOf
<1> HIDE DEF lane, S
<1>2. /\ Len(lane) \in Nat
      /\ \A k \in 1 .. Len(lane) : \E i \in 1 .. Len(rows) : lane[k] = BookEvent(rows, i)
  BY <1>1, BookLaneIs DEF lane
<1>3. ASSUME NEW i \in 1 .. Len(rows)
      PROVE  LET e == BookEvent(rows, i)
             IN e.kind \in {"snapshot", "delta"} /\ e.key \in Keys /\ e.ts = e.key[1]
  BY <1>1, BookEventIs
<1>4. \A k \in 1 .. Len(lane) : /\ lane[k].kind \in {"snapshot", "delta"} /\ lane[k].key \in Keys
                                /\ lane[k].ts = lane[k].key[1] /\ lane[k].ts \in Int
  <2> SUFFICES ASSUME NEW k \in 1 .. Len(lane)
               PROVE  /\ lane[k].kind \in {"snapshot", "delta"} /\ lane[k].key \in Keys
                      /\ lane[k].ts = lane[k].key[1] /\ lane[k].ts \in Int
    OBVIOUS
  <2>1. PICK i \in 1 .. Len(rows) : lane[k] = BookEvent(rows, i)
    BY <1>2
  <2>2. lane[k].kind \in {"snapshot", "delta"} /\ lane[k].key \in Keys /\ lane[k].ts = lane[k].key[1]
    BY <1>3, <2>1
  <2>3. \A a \in Keys : a[1] \in Int
    BY DEF Keys
  <2> QED BY <2>2, <2>3
<1>5. {"snapshot", "delta"} \subseteq Kinds /\ {"snapshot", "delta"} \cap {"gap", "trade"} = {}
  BY DEF Kinds
<1> QED BY <1>2, <1>4, <1>5 DEF lane

\* A replayer stays one.
LEMMA HeldIsReplayer ==
    ASSUME NEW events, NEW n \in Nat, \A i \in 1 .. n : events[i].kind \in Kinds
    PROVE  Replayer(Held(events, n))
<1> DEFINE T == {k \in Nat : k <= n => Replayer(Held(events, k))}
<1>1. 0 \in T
  BY HeldNone DEF Replayer, NewReplayer
<1>2. ASSUME NEW k \in T PROVE k + 1 \in T
  <2> SUFFICES ASSUME k + 1 <= n PROVE Replayer(Held(events, k + 1))
    OBVIOUS
  <2>1. k \in Nat /\ k + 1 \in 1 .. n /\ Replayer(Held(events, k))
    OBVIOUS
  <2>2. Held(events, k + 1) = Apply(Held(events, k), events[k + 1])
    BY <2>1, HeldNext
  <2>3. events[k + 1].kind \in Kinds
    BY <2>1
  <2> QED BY <2>1, <2>2, <2>3, ApplyIs
<1>3. n \in T
  <2> HIDE DEF T
  <2>1. T \in SUBSET Nat
    BY DEF T
  <2> QED BY <1>1, <1>2, <2>1, Induction
<1> QED BY <1>3

\* The events of the lane are the book lines of the log l, one for one and in
\* their order, and replayed they give the states the processor had.
KindOf(r) == IF r.snapshot THEN "snapshot" ELSE "delta"
Lined(l, lane, line) ==
    /\ line \in [1 .. Len(lane) -> Books(l)]
    /\ \A j, k \in 1 .. Len(lane) : j < k => line[j] < line[k]
    /\ \A i \in Books(l) : \E k \in 1 .. Len(lane) : line[k] = i
    /\ \A k \in 1 .. Len(lane) :
          /\ lane[k].ts = l[line[k]].ts /\ lane[k].kind = KindOf(l[line[k]])
          /\ Held(lane, k).book.levels = l[line[k]].state

SnapTimes(lane) == {lane[k].ts : k \in {j \in 1 .. Len(lane) : lane[j].kind = "snapshot"}}

Tells(rows, l, b, snaps) ==
    LET lane == BookLane(rows)
    IN /\ Held(lane, Len(lane)).book = b
       /\ snaps = SnapTimes(lane)
       /\ \E line : Lined(l, lane, line)

\* lane and one event more.
Longer(lane, more, e) ==
    /\ Len(lane) \in Nat /\ Len(more) = Len(lane) + 1
    /\ \A k \in 1 .. Len(lane) : more[k] = lane[k]
    /\ more[Len(lane) + 1] = e

\* The times of the snapshots of a lane that has one event more.
LEMMA SnapTimesNext ==
    ASSUME NEW lane, NEW more, NEW e, Longer(lane, more, e)
    PROVE  SnapTimes(more) = SnapTimes(lane) \cup IF e.kind = "snapshot" THEN {e.ts} ELSE {}
<1> DEFINE n == Len(lane)
<1>1. n \in Nat /\ Len(more) = n + 1 /\ (\A k \in 1 .. n : more[k] = lane[k]) /\ more[n + 1] = e
  BY DEF Longer
<1> HIDE DEF n
<1>2. \A k \in 1 .. n + 1 : k \in 1 .. n \/ k = n + 1
  BY <1>1
<1>3. \A k \in 1 .. n : k \in 1 .. n + 1
  BY <1>1
<1>4. n + 1 \in 1 .. n + 1
  BY <1>1
<1>5. ASSUME NEW t \in SnapTimes(more)
      PROVE  t \in SnapTimes(lane) \cup IF e.kind = "snapshot" THEN {e.ts} ELSE {}
  <2>1. PICK k \in 1 .. n + 1 : more[k].kind = "snapshot" /\ t = more[k].ts
    BY <1>1 DEF SnapTimes
  <2> QED BY <1>1, <1>2, <2>1 DEF SnapTimes, n
<1>6. ASSUME NEW t \in SnapTimes(lane) PROVE t \in SnapTimes(more)
  <2>1. PICK k \in 1 .. n : lane[k].kind = "snapshot" /\ t = lane[k].ts
    BY DEF SnapTimes, n
  <2> QED BY <1>1, <1>3, <2>1 DEF SnapTimes
<1>7. e.kind = "snapshot" => e.ts \in SnapTimes(more)
  BY <1>1, <1>4 DEF SnapTimes
<1> QED BY <1>5, <1>6, <1>7

\* The line of the log for the new event.
LEMMA LinedNext ==
    ASSUME NEW l, NEW m, Grown(l, m), NEW lane, NEW more, NEW e, Longer(lane, more, e),
           NEW line, Lined(l, lane, line), m[Len(l) + 1].kind = "book",
           e.ts = m[Len(l) + 1].ts, e.kind = KindOf(m[Len(l) + 1]),
           Held(more, Len(lane) + 1).book.levels = m[Len(l) + 1].state
    PROVE  \E f : Lined(m, more, f)
<1> DEFINE n == Len(l)
           c == Len(lane)
           f == [k \in 1 .. c + 1 |-> IF k <= c THEN line[k] ELSE n + 1]
<1>1. /\ n \in Nat /\ (\A i \in 1 .. n : m[i] = l[i]) /\ Books(l) \subseteq 1 .. n
      /\ Books(m) = Books(l) \cup {n + 1}
  BY GrownIs
<1>2. c \in Nat /\ Len(more) = c + 1 /\ (\A k \in 1 .. c : more[k] = lane[k]) /\ more[c + 1] = e
  BY DEF Longer
<1>3. /\ line \in [1 .. c -> Books(l)] /\ (\A j, k \in 1 .. c : j < k => line[j] < line[k])
      /\ \A i \in Books(l) : \E k \in 1 .. c : line[k] = i
      /\ \A k \in 1 .. c : /\ lane[k].ts = l[line[k]].ts /\ lane[k].kind = KindOf(l[line[k]])
                           /\ Held(lane, k).book.levels = l[line[k]].state
  BY DEF Lined
<1>4. /\ m[n + 1].kind = "book" /\ e.ts = m[n + 1].ts /\ e.kind = KindOf(m[n + 1])
      /\ Held(more, c + 1).book.levels = m[n + 1].state
  OBVIOUS
<1> HIDE DEF n, c
<1>5. /\ \A k \in 1 .. c : k \in 1 .. c + 1 /\ f[k] = line[k] /\ f[k] \in Books(l) /\ f[k] < n + 1
      /\ f[c + 1] = n + 1 /\ c + 1 \in 1 .. c + 1
      /\ \A k \in 1 .. c + 1 : k \in 1 .. c \/ k = c + 1
  BY <1>1, <1>2, <1>3
<1>6. f \in [1 .. c + 1 -> Books(m)]
  BY <1>1, <1>5
<1> HIDE DEF f
<1>7. ASSUME NEW j \in 1 .. c + 1, NEW k \in 1 .. c + 1, j < k PROVE f[j] < f[k]
  <2>1. j \in 1 .. c
    BY <1>2, <1>7
  <2>2. CASE k \in 1 .. c
    BY <1>3, <1>5, <1>7, <2>1, <2>2
  <2>3. CASE k = c + 1
    BY <1>5, <2>1, <2>3
  <2> QED BY <1>5, <2>2, <2>3
<1>8. ASSUME NEW i \in Books(m) PROVE \E k \in 1 .. c + 1 : f[k] = i
  <2>1. CASE i \in Books(l)
    <3>1. PICK k \in 1 .. c : line[k] = i
      BY <1>3, <2>1
    <3> QED BY <1>5, <3>1
  <2>2. CASE i = n + 1
    BY <1>5, <2>2
  <2> QED BY <1>1, <2>1, <2>2
<1>9. ASSUME NEW k \in 1 .. c + 1
      PROVE  /\ more[k].ts = m[f[k]].ts /\ more[k].kind = KindOf(m[f[k]])
             /\ Held(more, k).book.levels = m[f[k]].state
  <2>1. CASE k \in 1 .. c
    <3>1. more[k] = lane[k] /\ m[f[k]] = l[line[k]]
      BY <1>1, <1>2, <1>5, <2>1
    <3>2. Held(more, k) = Held(lane, k)
      <4>1. k \in Nat /\ \A i \in 1 .. k : more[i] = lane[i]
        BY <1>2, <2>1
      <4> QED BY <4>1, HeldAgree
    <3> QED BY <1>3, <2>1, <3>1, <3>2
  <2>2. CASE k = c + 1
    BY <1>2, <1>4, <1>5, <2>2
  <2> QED BY <1>5, <2>1, <2>2
<1>10. Lined(m, more, f)
  BY <1>2, <1>6, <1>7, <1>8, <1>9 DEF Lined
<1> QED BY <1>10

\* A line more of the log and its rows.
LEMMA TellsNext ==
    ASSUME NEW rows \in Seq(RowsOf), NEW new \in Seq(RowsOf), OneEvent(rows, new),
           NEW l, NEW m, Grown(l, m), NEW b, NEW snaps, Tells(rows, l, b, snaps),
           NEW e, e = BookEvent(rows \o new, Len(rows) + 1),
           m[Len(l) + 1].kind = "book", e.ts = m[Len(l) + 1].ts, e.kind = KindOf(m[Len(l) + 1]),
           NEW c, \A r : Replayer(r) /\ r.book = b => Apply(r, e).book = c,
           c.levels = m[Len(l) + 1].state
    PROVE  /\ Longer(BookLane(rows), BookLane(rows \o new), e)
           /\ Tells(rows \o new, m, c, snaps \cup IF e.kind = "snapshot" THEN {e.ts} ELSE {})
<1> DEFINE all == rows \o new
           lane == BookLane(rows)
           more == BookLane(all)
           n == Len(lane)
<1>1. all \in Seq(RowsOf)
  OBVIOUS
<1>2. /\ n \in Nat /\ Len(more) = n + 1 /\ \A k \in 1 .. n : more[k] = lane[k]
      /\ more[n + 1] = e
  BY BookLaneGrows, BookLaneKinds
<1>3. Longer(lane, more, e)
  BY <1>2 DEF Longer
<1>4. /\ Held(lane, n).book = b /\ snaps = SnapTimes(lane)
      /\ \E line : Lined(l, lane, line)
  BY DEF Tells
<1>5. \A k \in 1 .. n : lane[k].kind \in Kinds
  BY BookLaneKinds
<1> HIDE DEF lane, more, n, all
<1>6. Replayer(Held(lane, n))
  BY <1>2, <1>5, HeldIsReplayer
<1>7. Held(more, n) = Held(lane, n)
  BY <1>2, HeldAgree
<1>8. Held(more, n + 1) = Apply(Held(lane, n), e)
  BY <1>2, <1>7, HeldNext
<1>9. Held(more, n + 1).book = c
  BY <1>4, <1>6, <1>8
<1>10. \E f : Lined(m, more, f)
  <2>1. PICK line : Lined(l, lane, line)
    BY <1>4
  <2>2. Held(more, Len(lane) + 1).book.levels = m[Len(l) + 1].state
    BY <1>9 DEF n
  <2> QED BY <1>3, <2>1, <2>2, LinedNext
<1>11. SnapTimes(more) = snaps \cup IF e.kind = "snapshot" THEN {e.ts} ELSE {}
  BY <1>3, <1>4, SnapTimesNext
<1>12. Tells(all, m, c, snaps \cup IF e.kind = "snapshot" THEN {e.ts} ELSE {})
  BY <1>2, <1>9, <1>10, <1>11 DEF Tells, more
<1> QED BY <1>3, <1>12 DEF all, lane, more

\* A line that is not of the book leaves what the rows tell.
LEMMA TellsStill ==
    ASSUME NEW rows, NEW l, NEW m, Grown(l, m), NEW b, NEW snaps, Tells(rows, l, b, snaps),
           m[Len(l) + 1].kind # "book"
    PROVE  Tells(rows, m, b, snaps)
<1> DEFINE lane == BookLane(rows)
<1>1. PICK line : Lined(l, lane, line)
  BY DEF Tells
<1>2. Books(m) = Books(l) /\ \A i \in Books(l) : m[i] = l[i]
  <2> DEFINE n == Len(l)
  <2>1. /\ \A i \in 1 .. n : m[i] = l[i]
        /\ Books(l) \subseteq 1 .. n
        /\ Books(m) = Books(l) \cup (IF m[n + 1].kind = "book" THEN {n + 1} ELSE {})
    BY GrownIs
  <2> QED BY <2>1
<1> HIDE DEF lane
<1>3. Lined(m, lane, line)
  <2>1. \A k \in 1 .. Len(lane) : line[k] \in Books(l) /\ m[line[k]] = l[line[k]]
    BY <1>1, <1>2 DEF Lined
  <2> QED BY <1>1, <1>2, <2>1 DEF Lined
<1> QED BY <1>3 DEF Tells, lane

\* The lane is in key order, and t and s are the time and the seq it ends with.
Clocked(lane, t, s) ==
    /\ Sorted(lane)
    /\ \A k \in 1 .. Len(lane) : /\ lane[k].key[2] = 0 /\ lane[k].key[1] <= t
                                 /\ lane[k].key[1] = t => lane[k].key[3] <= s

\* A lane that is in clock order stays so when the clock goes on.
LEMMA ClockedLater ==
    ASSUME NEW rows \in Seq(RowsOf), NEW t \in Int, NEW s, Clocked(BookLane(rows), t, s),
           NEW u \in Int, t <= u
    PROVE  Clocked(BookLane(rows), u, s)
<1> DEFINE lane == BookLane(rows)
<1>1. \A k \in 1 .. Len(lane) : lane[k].key[1] \in Int
  BY BookLaneKinds
<1> HIDE DEF lane
<1>2. \A k \in 1 .. Len(lane) : lane[k].key[1] <= u /\ (lane[k].key[1] = u => lane[k].key[1] = t)
  BY <1>1 DEF Clocked, lane
<1> QED BY <1>2 DEF Clocked, lane

\* An event that comes later, or at the same time with a later seq, goes to the
\* end.
LEMMA ClockedNext ==
    ASSUME NEW rows \in Seq(RowsOf), NEW more, NEW e, Longer(BookLane(rows), more, e), e.key \in Keys,
           NEW t \in Int, NEW s \in Int, Clocked(BookLane(rows), t, s),
           NEW u \in Int, NEW v \in Int, t <= u, u = t => s < v,
           e.key[1] = u, e.key[2] = 0, e.key[3] = v
    PROVE  Clocked(more, u, v)
<1> DEFINE lane == BookLane(rows)
           n == Len(lane)
<1>1. n \in Nat /\ Len(more) = n + 1 /\ (\A k \in 1 .. n : more[k] = lane[k]) /\ more[n + 1] = e
  BY DEF Longer
<1>2. \A k \in 1 .. n : lane[k].key \in Keys
  BY BookLaneKinds
<1>3. /\ Sorted(lane)
      /\ \A k \in 1 .. n : /\ lane[k].key[2] = 0 /\ lane[k].key[1] <= t
                           /\ lane[k].key[1] = t => lane[k].key[3] <= s
  BY DEF Clocked
<1> HIDE DEF lane, n
<1>4. \A k \in 1 .. n : lane[k].key[1] \in Int /\ lane[k].key[3] \in Int
  <2>1. \A a \in Keys : a[1] \in Int /\ a[3] \in Int
    BY DEF Keys
  <2> QED BY <1>2, <2>1
<1>5. ASSUME NEW k \in 1 .. n PROVE ~Before(e.key, lane[k].key)
  <2>1. ~Less(e.key, lane[k].key)
    <3> DEFINE a == lane[k].key
    <3>1. /\ a[1] \in Int /\ a[3] \in Int /\ a[2] = 0 /\ a[1] <= t /\ (a[1] = t => a[3] <= s)
      BY <1>3, <1>4
    <3> HIDE DEF a
    <3>2. ~Less(e.key, a)
      BY <3>1 DEF Less
    <3> QED BY <3>2 DEF a
  <2> QED BY <1>2, <2>1, BeforeIsLess
<1>6. \A k \in 1 .. n + 1 : k \in 1 .. n \/ k = n + 1
  BY <1>1
<1>7. ASSUME NEW i \in 1 .. n + 1, NEW j \in 1 .. n + 1, i < j PROVE ~Before(more[j].key, more[i].key)
  <2>1. i \in 1 .. n
    BY <1>1, <1>7
  <2>2. CASE j \in 1 .. n
    BY <1>1, <1>3, <1>7, <2>1, <2>2 DEF Sorted, n
  <2>3. CASE j = n + 1
    BY <1>1, <1>5, <2>1, <2>3
  <2> QED BY <1>6, <2>2, <2>3
<1>8. ASSUME NEW k \in 1 .. n + 1
      PROVE  more[k].key[2] = 0 /\ more[k].key[1] <= u /\ (more[k].key[1] = u => more[k].key[3] <= v)
  <2>1. CASE k \in 1 .. n
    <3> DEFINE a == lane[k].key
    <3>1. a[1] \in Int /\ a[3] \in Int /\ a[2] = 0 /\ a[1] <= t /\ (a[1] = t => a[3] <= s)
      BY <1>3, <1>4, <2>1
    <3>2. more[k].key = a
      BY <1>1, <2>1
    <3> HIDE DEF a
    <3>3. a[2] = 0 /\ a[1] <= u /\ (a[1] = u => a[3] <= v)
      BY <3>1
    <3> QED BY <3>2, <3>3
  <2>2. CASE k = n + 1
    BY <1>1, <2>2
  <2> QED BY <1>6, <2>1, <2>2
<1> QED BY <1>1, <1>7, <1>8 DEF Clocked, Sorted

---------------------------------------------------------------------------
(* The inductive invariant of the tables.                                  *)

TradesOf(rows) ==
    \/ rows = <<>>
    \/ \E ts \in Int : rows = <<[id |-> 1, recv |-> ts, event |-> ts, seq |-> 1, row |-> 0,
                                 source |-> "live"]>>

\* Every event of the book has a seq.
Numbered(lane) == \A k \in 1 .. Len(lane) : lane[k].key[2] = 0

\* The rows of the book are those of the log so far, in clock order when the log
\* is; the gaps are sorted once they are written, and the stream is read from
\* the written tables.
BookInv ==
    /\ book_events \in Seq(RowsOf) /\ Numbered(BookLane(book_events))
    /\ \A i \in 1 .. Len(book_events) : book_events[i].event_idx < event_idx
    /\ Tells(book_events, log, book, snap_ts)
    /\ Ordered(log) => Clocked(BookLane(book_events), now, seq)

StreamInv ==
    \/ stream = NotRead
    \/ /\ phase = "written"
       /\ stream = [ok |-> Events(gap_rows, book_events, trades).ok,
                    events |-> Events(gap_rows, book_events, trades).events]

TablesInv ==
    /\ BookInv /\ StreamInv /\ TradesOf(trades) /\ gap_rows \in Seq(GapRow)
    /\ phase = "written" => log # <<>> /\ InTimeOrder(gap_rows)

\* Nothing is written yet.
LEMMA TablesInit ==
    ASSUME OfflineInit
    PROVE  TablesInv
<1> DEFINE lane == BookLane(<<>>)
<1>1. /\ book_events = <<>> /\ log = <<>> /\ book = EmptyBook /\ snap_ts = {} /\ gap_rows = <<>>
      /\ trades = <<>> /\ stream = NotRead /\ phase = "orderbook"
  BY DEF OfflineInit, Init
<1>2. <<>> \in Seq(RowsOf) /\ <<>> \in Seq(GapRow) /\ Len(<<>>) = 0
  OBVIOUS
<1>3. Len(lane) = 0
  <2>1. Len(lane) = Cardinality(Starts(<<>>))
    BY <1>2, BookLaneIs
  <2>2. Starts(<<>>) = {}
    BY DEF Starts
  <2> QED BY <2>1, <2>2, FS_EmptySet
<1> HIDE DEF lane
<1>4. Held(lane, Len(lane)).book = EmptyBook
  BY <1>3, HeldNone DEF NewReplayer
<1>5. SnapTimes(lane) = {} /\ Numbered(lane) /\ \A t, s : Clocked(lane, t, s)
  BY <1>3 DEF SnapTimes, Clocked, Sorted, Numbered
<1>6. \E line : Lined(<<>>, lane, line)
  <2> DEFINE line == [k \in 1 .. 0 |-> 0]
  <2>1. Lined(<<>>, lane, line)
    BY <1>3 DEF Lined, Books
  <2> QED BY <2>1
<1>7. Tells(<<>>, <<>>, EmptyBook, {})
  BY <1>4, <1>5, <1>6 DEF Tells, lane
<1>8. BookInv
  BY <1>1, <1>2, <1>5, <1>7 DEF BookInv, lane
<1> QED BY <1>1, <1>2, <1>8 DEF TablesInv, StreamInv, TradesOf

\* The clock of an ordered log goes on.
LEMMA ClockGoesOn ==
    ASSUME SoundInv, log # <<>>, Grown(log, log'), Ordered(log'), WrittenAt(log'[Len(log) + 1]) = now'
    PROVE  Ordered(log) /\ now <= now'
<1>1. Ordered(log) /\ \A i \in 1 .. Len(log) : WrittenAt(log[i]) <= WrittenAt(log'[Len(log) + 1])
  BY OrderedBefore
<1>2. Len(log) \in 1 .. Len(log) /\ WrittenAt(log[Len(log)]) = now
  BY DEF SoundInv, Typed
<1> QED BY <1>1, <1>2

\* A book line: what its rows have to be.
LEMMA BookLineKeeps ==
    ASSUME SoundInv, BookInv, NEW s \in BOOLEAN, BookStep(s), s \/ log # <<>>,
           s => now <= now', NEW new \in Seq(RowsOf), OneEvent(book_events, new),
           book_events' = book_events \o new,
           \A i \in 1 .. Len(new) : new[i].event_idx = event_idx,
           event_idx \in Nat, event_idx' = event_idx + 1,
           NEW e, e = BookEvent(book_events \o new, Len(book_events) + 1),
           e.kind = (IF s THEN "snapshot" ELSE "delta"), e.ts = now',
           e.key \in Keys, e.key[1] = now', e.key[2] = 0, e.key[3] = seq',
           seq \in Int, seq' \in Int, now' = now => seq < seq',
           \A r : Replayer(r) /\ r.book = book => Apply(r, e).book = book',
           snap_ts' = snap_ts \cup (IF s THEN {now'} ELSE {})
    PROVE  BookInv'
<1> DEFINE r == [kind |-> "book", ts |-> now', state |-> book'.levels, snapshot |-> s]
<1>1. now' \in Int /\ now \in Int /\ book'.levels \in [Slots -> Nat] /\ log' = Append(log, r) /\ log \in Seq(Record)
  BY DEF BookStep, SoundInv, Typed
<1>2. /\ r \in Record /\ WrittenAt(r) = now' /\ r.kind = "book" /\ r.state = book'.levels
      /\ r.ts = now' /\ KindOf(r) = IF s THEN "snapshot" ELSE "delta"
  BY <1>1 DEF Record, WrittenAt, KindOf
<1> HIDE DEF r
<1>3. Grown(log, log') /\ log'[Len(log) + 1] = r
  BY <1>1, <1>2, LogGrows DEF Grown
<1>4. book_events \in Seq(RowsOf) /\ book_events' \in Seq(RowsOf)
  BY DEF BookInv
<1>5. ASSUME NEW i \in 1 .. Len(book_events') PROVE (book_events')[i].event_idx < event_idx'
  <2> DEFINE n == Len(book_events)
             all == book_events \o new
  <2>1. /\ n \in Nat /\ Len(new) \in Nat /\ Len(all) = n + Len(new)
        /\ \A k \in 1 .. n : all[k] = book_events[k]
        /\ \A k \in n + 1 .. n + Len(new) : all[k] = new[k - n]
    BY <1>4
  <2>2. i \in 1 .. n \/ i \in n + 1 .. n + Len(new)
    BY <2>1
  <2>3. CASE i \in 1 .. n
    <3>1. book_events[i].event_idx < event_idx
      BY <2>3 DEF BookInv
    <3>2. book_events[i].event_idx \in Int
      <4>1. book_events[i] \in RowsOf
        BY <1>4, <2>3
      <4>2. \A x \in RowsOf : x.event_idx \in Int
        BY DEF RowsOf, BookRows
      <4> QED BY <4>1, <4>2
    <3>3. all[i] = book_events[i]
      BY <2>1, <2>3
    <3> HIDE DEF all
    <3> QED BY <3>1, <3>2, <3>3 DEF all
  <2>4. CASE i \in n + 1 .. n + Len(new)
    <3>1. i - n \in 1 .. Len(new) /\ all[i] = new[i - n]
      BY <2>1, <2>4
    <3> QED BY <3>1
  <2> QED BY <2>2, <2>3, <2>4
<1>6. /\ Longer(BookLane(book_events), BookLane(book_events'), e)
      /\ Tells(book_events', log', book', snap_ts')
  <2> DEFINE rows == book_events
             l == log
             m == log'
             b == book
             c == book'
             snaps == snap_ts
  <2>1. /\ rows \in Seq(RowsOf) /\ OneEvent(rows, new) /\ Grown(l, m) /\ Tells(rows, l, b, snaps)
        /\ e = BookEvent(rows \o new, Len(rows) + 1)
        /\ m[Len(l) + 1].kind = "book" /\ e.ts = m[Len(l) + 1].ts /\ e.kind = KindOf(m[Len(l) + 1])
        /\ c.levels = m[Len(l) + 1].state
        /\ \A x : Replayer(x) /\ x.book = b => Apply(x, e).book = c
    BY <1>2, <1>3, <1>4 DEF BookInv
  <2>2. book_events' = rows \o new /\ snap_ts' = snaps \cup (IF e.kind = "snapshot" THEN {e.ts} ELSE {})
    OBVIOUS
  <2> HIDE DEF rows, l, m, b, c, snaps
  <2>3. /\ Longer(BookLane(rows), BookLane(rows \o new), e)
        /\ Tells(rows \o new, m, c, snaps \cup IF e.kind = "snapshot" THEN {e.ts} ELSE {})
    BY <2>1, TellsNext, SMTT(60)
  <2> QED BY <2>2, <2>3 DEF rows, m, c
<1>7. Ordered(log') => Clocked(BookLane(book_events'), now', seq')
  <2> SUFFICES ASSUME Ordered(log') PROVE Clocked(BookLane(book_events'), now', seq')
    OBVIOUS
  <2>1. Ordered(log) /\ now <= now'
    <3>1. CASE log # <<>>
      BY <1>2, <1>3, <3>1, ClockGoesOn
    <3>2. CASE log = <<>>
      BY <1>3, <3>2, OrderedBefore
    <3> QED BY <3>1, <3>2
  <2>2. Clocked(BookLane(book_events), now, seq)
    BY <2>1 DEF BookInv
  <2> DEFINE rows == book_events
             more == BookLane(book_events')
             t == now
             u == now'
             v == seq'
             w == seq
  <2>3. /\ rows \in Seq(RowsOf) /\ Longer(BookLane(rows), more, e) /\ Clocked(BookLane(rows), t, w)
        /\ t \in Int /\ w \in Int /\ u \in Int /\ v \in Int /\ t <= u /\ (u = t => w < v)
        /\ e.key \in Keys /\ e.key[1] = u /\ e.key[2] = 0 /\ e.key[3] = v
    BY <1>1, <1>4, <1>6, <2>1, <2>2
  <2> HIDE DEF rows, more, t, u, v, w
  <2>4. Clocked(more, u, v)
    BY <2>3, ClockedNext, ZenonT(60)
  <2> QED BY <2>4 DEF more, u, v
<1>9. Numbered(BookLane(book_events'))
  <2>1. Numbered(BookLane(book_events))
    BY DEF BookInv
  <2> DEFINE lane == BookLane(book_events)
             more == BookLane(book_events')
  <2>2. Longer(lane, more, e) /\ Numbered(lane)
    BY <1>6, <2>1
  <2> HIDE DEF lane, more
  <2>3. Numbered(more)
    BY <2>2 DEF Longer, Numbered
  <2> QED BY <2>3 DEF more
<1>8. BookInv' <=> /\ book_events' \in Seq(RowsOf) /\ Numbered(BookLane(book_events'))
                   /\ \A i \in 1 .. Len(book_events') : (book_events')[i].event_idx < event_idx'
                   /\ Tells(book_events', log', book', snap_ts')
                   /\ Ordered(log') => Clocked(BookLane(book_events'), now', seq')
  BY DEF BookInv, Tells, Clocked, Ordered, WrittenAt, Lined, Books, KindOf, Numbered
<1> QED BY <1>4, <1>5, <1>6, <1>7, <1>8, <1>9

\* The rows of a snapshot and of a delta are as they have to be.
LEMMA SnapshotKeeps ==
    ASSUME SoundInv, BookInv, NEW d \in Steps, NEW levels \in Snapshots, Snapshot(d, levels)
    PROVE  BookInv'
<1> DEFINE new == SnapshotRows(now', seq', levels)
           rows == book_events
           e == BookEvent(rows \o new, Len(rows) + 1)
<1>1. BookStep(TRUE) /\ TRUE \in BOOLEAN
  BY SnapshotTyped DEF SoundInv
<1>2. /\ now' \in Int /\ now \in Int /\ now <= now' /\ seq \in Nat /\ seq' \in Nat /\ seq' # 0
      /\ (now' = now => seq < seq') /\ event_idx \in Nat /\ event_idx' = event_idx + 1
  BY LinesAssumption DEF SoundInv, Typed, Snapshot, NextLine
<1>3. levels \in [Slots -> Nat]
  BY LinesAssumption
<1>4. /\ book_events' = book_events \o new /\ snap_ts' = snap_ts \cup {now'}
      /\ book' = ApplySnapshot(book, levels)
  BY DEF Snapshot
<1>5. SnapshotIs(new, now', seq', levels)
  <2> DEFINE t == now'
             s == seq'
  <2>1. t \in Int /\ s \in Nat
    BY <1>2
  <2> HIDE DEF t, s
  <2>2. SnapshotIs(SnapshotRows(t, s, levels), t, s, levels)
    BY <1>2, <1>3, <2>1, SnapshotRowsAre
  <2> QED BY <2>2 DEF t, s
<1> HIDE DEF new
<1>6. rows \in Seq(RowsOf) /\ new \in Seq(RowsOf) /\ new # <<>> /\ Len(new) \in Nat /\ Len(new) # 0
  BY <1>5 DEF BookInv, SnapshotIs
<1>7. OneEvent(rows, new)
  <2>1. \A i \in 1 .. Len(new) : new[i].snapshot /\ new[i].event_idx = event_idx
    BY <1>5 DEF SnapshotIs
  <2>2. 1 \in 1 .. Len(new)
    BY <1>6
  <2>3. \A i \in 1 .. Len(rows) : rows[i].event_idx # event_idx
    <3>1. \A x \in RowsOf : x.event_idx \in Int
      BY DEF RowsOf, BookRows
    <3>2. \A i \in 1 .. Len(rows) : rows[i] \in RowsOf /\ rows[i].event_idx < event_idx
      BY <1>6 DEF BookInv
    <3> QED BY <1>2, <3>1, <3>2
  <2> QED BY <1>6, <2>1, <2>2, <2>3 DEF OneEvent
<1>8. Group(rows \o new, Len(rows) + 1) = Len(rows) + 1 .. Len(rows) + Len(new)
  BY <1>6, <1>7, BookLaneGrows
<1>9. /\ e.kind = "snapshot" /\ e.key \in Keys /\ e.key[1] = now' /\ e.key[3] = seq'
      /\ e.key[2] = 0 /\ e.ts = now' /\ LevelsOf(e) = levels
  <2> DEFINE t == now'
             s == seq'
             q == rows
  <2>1. /\ t \in Int /\ s \in Nat /\ SnapshotIs(new, t, s, levels) /\ q \in Seq(RowsOf) /\ s # 0
        /\ Group(q \o new, Len(q) + 1) = Len(q) + 1 .. Len(q) + Len(new)
    BY <1>2, <1>5, <1>6, <1>8
  <2> HIDE DEF t, s, q
  <2>2. LET f == BookEvent(q \o new, Len(q) + 1)
        IN /\ f.kind = "snapshot" /\ f.key \in Keys /\ f.key[1] = t /\ f.key[3] = s
           /\ f.key[2] = (IF s = 0 THEN 1 ELSE 0) /\ f.ts = t /\ LevelsOf(f) = levels
    BY <1>2, <1>3, <2>1, SnapshotEventIs
  <2> QED BY <2>1, <2>2 DEF t, s, q
<1> HIDE DEF e
<1>10. ASSUME NEW r, Replayer(r), r.book = book PROVE Apply(r, e).book = book'
  <2>1. e.kind \in Kinds
    BY <1>9 DEF Kinds
  <2> QED BY <1>4, <1>9, <1>10, <2>1, ApplyIs
<1>11. \A i \in 1 .. Len(new) : new[i].event_idx = event_idx
  BY <1>5 DEF SnapshotIs
<1> DEFINE s == TRUE
<1>12. /\ s \in BOOLEAN /\ BookStep(s) /\ (s \/ log # <<>>) /\ (s => now <= now')
       /\ e.kind = (IF s THEN "snapshot" ELSE "delta")
       /\ snap_ts' = snap_ts \cup (IF s THEN {now'} ELSE {})
  BY <1>1, <1>2, <1>4, <1>9
<1> HIDE DEF s
<1>13. e = BookEvent(book_events \o new, Len(book_events) + 1) /\ seq \in Int /\ seq' \in Int
  BY <1>2 DEF e
<1> QED BY <1>2, <1>4, <1>6, <1>7, <1>9, <1>10, <1>11, <1>12, <1>13, BookLineKeeps

\* A delta line is one event more of the lane, with the state it leaves.
LEMMA DeltaKeeps ==
    ASSUME SoundInv, BookInv, NEW d \in Int, NEW change \in Deltas, Delta(d, change)
    PROVE  BookInv'
<1> DEFINE r == BookRow(now', seq', FALSE, change[1], change[2])
           new == <<r>>
           rows == book_events
           e == BookEvent(rows \o new, Len(rows) + 1)
<1>1. BookStep(FALSE) /\ FALSE \in BOOLEAN /\ log # <<>>
  BY DeltaTyped DEF SoundInv
<1>2. /\ now' \in Int /\ now \in Int /\ seq \in Nat /\ seq' \in Nat /\ seq' # 0
      /\ seq < seq' /\ event_idx \in Nat /\ event_idx' = event_idx + 1
  BY DEF SoundInv, Typed, Delta, NextLine
<1>3. change[1] \in Slots /\ change[2] \in Int
  BY LinesAssumption
<1>4. /\ book_events' = Append(book_events, r) /\ snap_ts' = snap_ts
      /\ book' = ApplyChange(book, change[1], change[2])
  BY DEF Delta
<1>5. /\ r \in RowsOf /\ r.event_idx = event_idx /\ r.ts = now' /\ r.seq = seq' /\ ~r.snapshot
      /\ r.slot = change[1] /\ r.qty = change[2]
  BY <1>2, <1>3 DEF BookRow, RowsOf, BookRows
<1> HIDE DEF r
<1>6. rows \in Seq(RowsOf) /\ new \in Seq(RowsOf) /\ new # <<>> /\ Len(new) = 1 /\ new[1] = r
  BY <1>5 DEF BookInv
<1>a. book_events' = book_events \o new
  BY <1>4, <1>5, <1>6
<1>b. new = <<r>>
  OBVIOUS
<1> HIDE DEF new
<1>7. OneEvent(rows, new)
  <2>3. \A i \in 1 .. Len(rows) : rows[i].event_idx # event_idx
    <3>1. \A x \in RowsOf : x.event_idx \in Int
      BY DEF RowsOf, BookRows
    <3>2. \A i \in 1 .. Len(rows) : rows[i] \in RowsOf /\ rows[i].event_idx < event_idx
      BY <1>6 DEF BookInv
    <3> QED BY <1>2, <3>1, <3>2
  <2> QED BY <1>5, <1>6, <2>3 DEF OneEvent
<1>8. Group(rows \o new, Len(rows) + 1) = Len(rows) + 1 .. Len(rows) + Len(new)
  BY <1>6, <1>7, BookLaneGrows
<1>9. /\ e.kind = "delta" /\ e.key \in Keys /\ e.key[1] = now' /\ e.key[3] = seq'
      /\ e.key[2] = 0 /\ e.ts = now' /\ e.levels = {<<change[1], change[2]>>}
  <2> DEFINE q == rows
  <2>1. /\ q \in Seq(RowsOf) /\ Group(q \o new, Len(q) + 1) = Len(q) + 1 .. Len(q) + Len(new)
        /\ r \in RowsOf /\ ~r.snapshot /\ r.slot \in Slots
    BY <1>3, <1>5, <1>6, <1>8
  <2> HIDE DEF q
  <2>2. LET f == BookEvent(q \o new, Len(q) + 1)
        IN /\ f.kind = "delta" /\ f.key \in Keys /\ f.key[1] = r.ts /\ f.key[3] = r.seq
           /\ f.key[2] = (IF r.seq = 0 THEN 1 ELSE 0) /\ f.ts = r.ts /\ f.levels = {<<r.slot, r.qty>>}
    BY <1>b, <2>1, DeltaEventIs, ZenonT(60)
  <2> QED BY <1>2, <1>5, <2>2 DEF q
<1> HIDE DEF e
<1>10. ASSUME NEW x, Replayer(x), x.book = book PROVE Apply(x, e).book = book'
  <2>1. e.kind \in Kinds
    BY <1>9 DEF Kinds
  <2> DEFINE c == CHOOSE l \in e.levels : TRUE
  <2>2. c = <<change[1], change[2]>>
    BY <1>9
  <2>3. Apply(x, e).book = ApplyChange(x.book, c[1], c[2])
    BY <1>9, <1>10, <2>1, ApplyIs
  <2> HIDE DEF c
  <2>4. c[1] = change[1] /\ c[2] = change[2]
    BY <2>2
  <2> QED BY <1>4, <1>10, <2>3, <2>4
<1>11. \A i \in 1 .. Len(new) : new[i].event_idx = event_idx
  BY <1>5, <1>6
<1> DEFINE s == FALSE
<1>12. /\ s \in BOOLEAN /\ BookStep(s) /\ (s \/ log # <<>>) /\ (s => now <= now')
       /\ e.kind = (IF s THEN "snapshot" ELSE "delta")
       /\ snap_ts' = snap_ts \cup (IF s THEN {now'} ELSE {})
  BY <1>1, <1>2, <1>4, <1>9
<1> HIDE DEF s
<1>13. e = BookEvent(book_events \o new, Len(book_events) + 1) /\ seq \in Int /\ seq' \in Int
  BY <1>2 DEF e
<1> QED BY <1>2, <1>a, <1>6, <1>7, <1>9, <1>10, <1>11, <1>12, <1>13, BookLineKeeps

\* A marker or a check leaves the book table alone.
LEMMA OtherLineKeeps ==
    ASSUME SoundInv, BookInv, log # <<>>, NEW r \in Record, log' = Append(log, r), r.kind # "book",
           WrittenAt(r) = now', now' \in Int, UNCHANGED <<book_events, event_idx, book, snap_ts, seq>>
    PROVE  BookInv'
<1>1. log \in Seq(Record) /\ now \in Int
  BY DEF SoundInv, Typed
<1>2. Grown(log, log') /\ log'[Len(log) + 1] = r
  BY <1>1, LogGrows DEF Grown
<1>3. Tells(book_events, log', book, snap_ts)
  <2> DEFINE rows == book_events
             l == log
             m == log'
             b == book
             snaps == snap_ts
  <2>1. Grown(l, m) /\ Tells(rows, l, b, snaps) /\ m[Len(l) + 1].kind # "book"
    BY <1>2 DEF BookInv
  <2> HIDE DEF rows, l, m, b, snaps
  <2>2. Tells(rows, m, b, snaps)
    BY <2>1, TellsStill
  <2> QED BY <2>2 DEF rows, m, b, snaps
<1>4. Ordered(log') => Clocked(BookLane(book_events), now', seq)
  <2> SUFFICES ASSUME Ordered(log') PROVE Clocked(BookLane(book_events), now', seq)
    OBVIOUS
  <2>1. Ordered(log) /\ now <= now'
    BY <1>2, ClockGoesOn
  <2> DEFINE rows == book_events
             t == now
             u == now'
             s == seq
  <2>2. rows \in Seq(RowsOf) /\ t \in Int /\ u \in Int /\ t <= u /\ Clocked(BookLane(rows), t, s)
    BY <1>1, <2>1 DEF BookInv
  <2> HIDE DEF rows, t, u, s
  <2>3. Clocked(BookLane(rows), u, s)
    BY <2>2, ClockedLater
  <2> QED BY <2>3 DEF rows, u, s
<1>5. BookInv' <=> /\ book_events' \in Seq(RowsOf) /\ Numbered(BookLane(book_events'))
                   /\ \A i \in 1 .. Len(book_events') : (book_events')[i].event_idx < event_idx'
                   /\ Tells(book_events', log', book', snap_ts')
                   /\ Ordered(log') => Clocked(BookLane(book_events'), now', seq')
  BY DEF BookInv, Tells, Clocked, Ordered, WrittenAt, Lined, Books, KindOf, Numbered
<1> QED BY <1>3, <1>4, <1>5 DEF BookInv

\* Steps that touch neither the book table nor the log keep what is said of them.
LEMMA BookInvKept ==
    ASSUME BookInv, UNCHANGED <<book_events, event_idx, book, snap_ts, now, seq, log>>
    PROVE  BookInv'
  BY DEF BookInv, Tells, Clocked, Ordered, WrittenAt, Lined, Books, KindOf, Numbered

\* A step of the first pass: what it leaves to show is the book table.
LEMMA PassKeeps ==
    ASSUME TablesInv, phase # "written", phase' # "written", stream' = stream, BookInv',
           TradesOf(trades'), gap_rows' \in Seq(GapRow)
    PROVE  TablesInv'
<1>1. stream' = NotRead
  BY DEF TablesInv, StreamInv
<1>2. (TradesOf(trades))' <=> TradesOf(trades')
  BY DEF TradesOf
<1> QED BY <1>1, <1>2 DEF TablesInv, StreamInv, NotRead

\* Every step keeps the invariant.
LEMMA TablesStep ==
    ASSUME SoundInv, TablesInv, [OfflineNext]_<<vars, stream>>
    PROVE  TablesInv'
<1>1. Typed /\ TotalsOf(book) /\ BookInv /\ gap_rows \in Seq(GapRow) /\ TradesOf(trades)
  BY DEF SoundInv, TablesInv
<1>2. CASE Next /\ UNCHANGED stream
  <2>1. CASE \E d \in Steps, levels \in Snapshots : Snapshot(d, levels)
    <3>1. PICK d \in Steps, levels \in Snapshots : Snapshot(d, levels)
      BY <2>1
    <3>2. BookInv'
      BY <1>1, <3>1, SnapshotKeeps
    <3>3. phase # "written" /\ phase' # "written" /\ trades' = trades /\ gap_rows' = gap_rows
      BY <3>1 DEF Snapshot, NextLine
    <3> QED BY <1>1, <1>2, <3>2, <3>3, PassKeeps
  <2>2. CASE \E d \in Int, change \in Deltas : Delta(d, change)
    <3>1. PICK d \in Int, change \in Deltas : Delta(d, change)
      BY <2>2
    <3>2. BookInv'
      BY <1>1, <3>1, DeltaKeeps
    <3>3. phase # "written" /\ phase' # "written" /\ trades' = trades /\ gap_rows' = gap_rows
      BY <3>1 DEF Delta, NextLine
    <3> QED BY <1>1, <1>2, <3>2, <3>3, PassKeeps
  <2>3. CASE \E d \in Steps : Gap(d)
    <3>1. PICK d \in Steps : Gap(d)
      BY <2>3
    <3> DEFINE r == [kind |-> "gap", ts |-> now']
    <3>2. /\ now' \in Int /\ log # <<>> /\ log' = Append(log, r)
          /\ UNCHANGED <<book_events, event_idx, book, snap_ts, seq>>
      BY <3>1, LinesAssumption DEF SoundInv, Typed, Gap, NextLine
    <3>3. r \in Record /\ r.kind # "book" /\ WrittenAt(r) = now'
      BY <3>2 DEF Record, WrittenAt
    <3> HIDE DEF r
    <3>4. BookInv'
      BY <1>1, <3>2, <3>3, OtherLineKeeps
    <3>5. phase # "written" /\ phase' # "written" /\ trades' = trades /\ gap_rows' = Append(gap_rows, [ts |-> now'])
      BY <3>1 DEF Gap, NextLine
    <3>6. gap_rows' \in Seq(GapRow)
      <4>1. [ts |-> now'] \in GapRow
        BY <3>2 DEF GapRow
      <4> QED BY <1>1, <3>5, <4>1
    <3> QED BY <1>1, <1>2, <3>4, <3>5, <3>6, PassKeeps
  <2>4. CASE \E d \in Steps, lag \in Lags, rest \in RestBooks : Verify(d, lag, rest)
    <3>1. PICK d \in Steps, lag \in Lags, rest \in RestBooks : Verify(d, lag, rest)
      BY <2>4
    <3> DEFINE r == [kind |-> "verify", ts |-> now' - lag, rest |-> rest, at |-> now']
    <3>2. /\ now' \in Int /\ now' - lag \in Int /\ log # <<>> /\ log' = Append(log, r)
          /\ UNCHANGED <<book_events, event_idx, book, snap_ts, seq>>
      BY <3>1, LinesAssumption DEF SoundInv, Typed, Verify, NextLine, tables
    <3>3. r \in Record /\ r.kind # "book" /\ WrittenAt(r) = now'
      BY <3>2 DEF Record, WrittenAt
    <3> HIDE DEF r
    <3>4. BookInv'
      BY <1>1, <3>2, <3>3, OtherLineKeeps
    <3>5. phase # "written" /\ phase' # "written" /\ trades' = trades /\ gap_rows' = gap_rows
      BY <3>1 DEF Verify, NextLine, tables
    <3> QED BY <1>1, <1>2, <3>4, <3>5, PassKeeps
  <2>5. CASE \E ts \in Prints : TradeRecord(ts)
    <3>1. PICK ts \in Prints : TradeRecord(ts)
      BY <2>5
    <3>2. BookInv'
      BY <1>1, <3>1, BookInvKept DEF TradeRecord
    <3>3. ts \in Int /\ trades = <<>> /\ phase # "written" /\ phase' # "written" /\ gap_rows' = gap_rows
      BY <3>1, LinesAssumption DEF TradeRecord, TradeLine
    <3>4. trades' = <<[id |-> 1, recv |-> ts, event |-> ts, seq |-> 1, row |-> 0, source |-> "live"]>>
      BY <3>1, <3>3 DEF TradeRecord
    <3>5. TradesOf(trades')
      BY <3>3, <3>4 DEF TradesOf
    <3> QED BY <1>1, <1>2, <3>2, <3>3, <3>5, PassKeeps
  <2>6. CASE \E ts \in Prints : TradeGap(ts)
    <3>1. PICK ts \in Prints : TradeGap(ts)
      BY <2>6
    <3>2. BookInv'
      BY <1>1, <3>1, BookInvKept DEF TradeGap
    <3>3. ts \in Int /\ phase # "written" /\ phase' # "written" /\ trades' = trades
          /\ gap_rows' = Append(gap_rows, [ts |-> ts])
      BY <3>1, LinesAssumption DEF TradeGap, TradeLine
    <3>4. gap_rows' \in Seq(GapRow)
      <4>1. [ts |-> ts] \in GapRow
        BY <3>3 DEF GapRow
      <4> QED BY <1>1, <3>3, <4>1
    <3> QED BY <1>1, <1>2, <3>2, <3>3, <3>4, PassKeeps
  <2>7. CASE Finish
    <3>1. BookInv'
      BY <1>1, <2>7, BookInvKept DEF Finish
    <3>2. engine' \in Engine
      BY <1>1, <2>7, FinishTyped DEF Typed
    <3>3. engine'.rows \in Seq(RowType)
      BY <3>2 DEF Engine
    <3>4. gap_rows' \in Seq(GapRow) /\ InTimeOrder(gap_rows')
      <4> DEFINE gaps == gap_rows
                 rows == engine'.rows
                 found == Mismatches(rows)
                 q == gap_rows'
      <4>1. q = SortedByTime(gaps \o [i \in DOMAIN found |-> [ts |-> found[i].ts]])
        BY <2>7 DEF Finish
      <4>2. gaps \in Seq(GapRow) /\ rows \in Seq(RowType) /\ found = Mismatches(rows)
        BY <1>1, <3>3
      <4> HIDE DEF gaps, rows, found, q
      <4>3. q \in Seq(GapRow) /\ InTimeOrder(q)
        BY <4>1, <4>2, FinishedGaps
      <4> QED BY <4>3 DEF q
    <3>5. /\ log' = log /\ log # <<>> /\ trades' = trades /\ phase # "written"
      BY <2>7 DEF Finish
    <3>6. stream' = NotRead
      BY <1>2, <3>5 DEF TablesInv, StreamInv
    <3>7. (TradesOf(trades))' <=> TradesOf(trades')
      BY DEF TradesOf
    <3>8. (InTimeOrder(gap_rows))' <=> InTimeOrder(gap_rows')
      BY DEF InTimeOrder
    <3> QED BY <1>1, <3>1, <3>4, <3>5, <3>6, <3>7, <3>8 DEF TablesInv, StreamInv, NotRead
  <2>8. Steps \subseteq Int /\ \A d \in StepsBack : -d \in Int
    BY LinesAssumption
  <2> QED BY <1>2, <2>1, <2>2, <2>3, <2>4, <2>5, <2>6, <2>7, <2>8 DEF Next
<1>3. CASE Load
  <2>1. /\ UNCHANGED <<phase, now, seq, book, event_idx, book_events, trades, gap_rows, snap_ts, log>>
        /\ phase = "written"
        /\ stream' = [ok |-> Events(gap_rows, book_events, trades).ok,
                      events |-> Events(gap_rows, book_events, trades).events]
    BY <1>3 DEF Load, vars
  <2>2. BookInv'
    BY <1>1, <2>1, BookInvKept
  <2>3. StreamInv'
    BY <2>1 DEF StreamInv, NotRead
  <2>4. (TradesOf(trades))' /\ (gap_rows \in Seq(GapRow))'
    BY <1>1, <2>1 DEF TradesOf
  <2>5. (phase = "written" => log # <<>> /\ InTimeOrder(gap_rows))'
    BY <2>1 DEF TablesInv, InTimeOrder
  <2> QED BY <2>2, <2>3, <2>4, <2>5 DEF TablesInv
<1>4. CASE UNCHANGED <<vars, stream>>
  <2>1. UNCHANGED <<phase, now, seq, book, event_idx, book_events, trades, gap_rows, snap_ts, log, stream>>
    BY <1>4 DEF vars
  <2>2. BookInv'
    BY <1>1, <2>1, BookInvKept
  <2>3. StreamInv'
    BY <2>1 DEF StreamInv, NotRead, TablesInv
  <2>4. (TradesOf(trades))' /\ (gap_rows \in Seq(GapRow))'
    BY <1>1, <2>1 DEF TradesOf
  <2>5. (phase = "written" => log # <<>> /\ InTimeOrder(gap_rows))'
    BY <2>1 DEF TablesInv, InTimeOrder
  <2> QED BY <2>2, <2>3, <2>4, <2>5 DEF TablesInv
<1> QED BY <1>2, <1>3, <1>4 DEF OfflineNext

---------------------------------------------------------------------------
(* What is read from the written tables.                                   *)

\* The trades of the log are a table as the merge takes it.
LEMMA TradesAre ==
    ASSUME NEW rows, TradesOf(rows)
    PROVE  Table(rows)
<1> DEFINE R == [id : {1}, source : {"live"}, row : Int, event : Int, seq : Int, recv : Int]
<1>1. rows \in Seq(R)
  <2>1. CASE rows = <<>>
    BY <2>1
  <2>2. CASE rows # <<>>
    <3>1. PICK ts \in Int : rows = <<[id |-> 1, recv |-> ts, event |-> ts, seq |-> 1, row |-> 0,
                                      source |-> "live"]>>
      BY <2>2 DEF TradesOf
    <3> DEFINE r == [id |-> 1, recv |-> ts, event |-> ts, seq |-> 1, row |-> 0, source |-> "live"]
    <3>2. r \in R
      OBVIOUS
    <3>3. rows = <<r>>
      BY <3>1
    <3> HIDE DEF r, R
    <3> QED BY <3>2, <3>3
  <2> QED BY <2>1, <2>2
<1> DEFINE n == Len(rows)
<1>2. n \in Nat /\ DOMAIN rows = 1 .. n /\ rows \in [1 .. n -> R]
  <2> HIDE DEF R
  <2> QED BY <1>1
<1>3. IsFiniteSet(1 .. n) /\ 1 .. n \subseteq Int
  BY <1>2, FS_Interval
<1>4. \E I, S : rows \in [DOMAIN rows -> [id : I, source : S, row : Int, event : Int,
                                           seq : Int, recv : Int]]
  BY <1>2
<1> QED BY <1>2, <1>3, <1>4 DEF Table

\* The lanes the stream is drawn from.
Lane == ThreeLanes(gap_rows, book_events, trades)

\* What was read is a merge of the lanes of the written tables.
LEMMA ReadIs ==
    ASSUME TablesInv, Read
    PROVE  /\ stream.ok \in BOOLEAN /\ Len(stream.events) \in Nat /\ \E E : stream.events \in Seq(E)
           /\ \E src : Merged(Lane, stream, src)
           /\ Table(trades) /\ log # <<>>
<1> DEFINE it == Events(gap_rows, book_events, trades)
<1>1. stream.ok = it.ok /\ stream.events = it.events /\ log # <<>>
  BY DEF TablesInv, StreamInv, Read
<1>2. /\ gap_rows \in Seq(GapRow) /\ book_events \in Seq(BookRows(Slots \cup {NoSlot}))
      /\ Table(trades)
  BY TradesAre DEF TablesInv, BookInv, RowsOf
<1>3. \E E : Lanes(Lane, E)
  <2> DEFINE S == Slots \cup {NoSlot}
             L == Lane
             gaps == gap_rows
             rows == book_events
             ts == trades
  <2>1. gaps \in Seq(GapRow) /\ rows \in Seq(BookRows(S)) /\ Table(ts) /\ L = ThreeLanes(gaps, rows, ts)
    BY <1>2 DEF Lane
  <2> HIDE DEF S, L, gaps, rows, ts
  <2>2. \E E : Lanes(L, E)
    BY <2>1, LanesAre
  <2> QED BY <2>2 DEF L
<1>4. PICK E : Lanes(Lane, E)
  BY <1>3
<1>5. it.ok \in BOOLEAN /\ it.events \in Seq(E) /\ \E src : Merged(Lane, it, src)
  BY <1>4, StreamIsMerge DEF Lane
<1> HIDE DEF it
<1>6. PICK src : Merged(Lane, it, src)
  BY <1>5
<1>7. Merged(Lane, stream, src)
  BY <1>1, <1>6 DEF Merged
<1>8. stream.events \in Seq(E) /\ Len(stream.events) \in Nat
  BY <1>1, <1>5
<1> QED BY <1>1, <1>2, <1>5, <1>7, <1>8

\* The lanes of a directory, as LanesAre has them.
LEMMA LanesOfTables ==
    ASSUME TablesInv
    PROVE  /\ Lane[1] = GapLane(gap_rows) /\ Lane[2] = BookLane(book_events) /\ Lane[3] = TradeLane(trades)
           /\ LaneKeys(Lane)
<1> DEFINE S == Slots \cup {NoSlot}
           L == Lane
           gaps == gap_rows
           rows == book_events
           ts == trades
<1>1. gaps \in Seq(GapRow) /\ rows \in Seq(BookRows(S)) /\ Table(ts) /\ L = ThreeLanes(gaps, rows, ts)
  BY TradesAre DEF Lane, TablesInv, BookInv, RowsOf
<1> HIDE DEF S, L, gaps, rows, ts
<1>2. LaneKeys(L)
  BY <1>1, LanesAre
<1>3. L[1] = GapLane(gaps) /\ L[2] = BookLane(rows) /\ L[3] = TradeLane(ts)
  BY <1>1 DEF ThreeLanes
<1> QED BY <1>2, <1>3 DEF L, gaps, rows, ts

\* The lanes of a log whose clock never went back are sorted.
LEMMA ReadsToEnd ==
    ASSUME TablesInv, Read, Monotone
    PROVE  stream.ok
<1>1. Ordered(log) /\ phase = "written"
  BY DEF Monotone, Ordered, Read
<1>2. Sorted(BookLane(book_events))
  BY <1>1 DEF TablesInv, BookInv, Clocked
<1>3. Sorted(GapLane(gap_rows))
  BY <1>1, GapLaneSorted DEF TablesInv, InTimeOrder
<1>4. Table(trades) /\ \E src : Merged(Lane, stream, src)
  BY ReadIs
<1>5. Sorted(TradeLane(trades))
  BY <1>4, TradeLaneSorted
<1>6. \A l \in 1 .. 3 : l = 1 \/ l = 2 \/ l = 3
  OBVIOUS
<1>7. \A l \in 1 .. 3 : Sorted(Lane[l])
  BY <1>2, <1>3, <1>5, <1>6, LanesOfTables
<1> QED BY <1>4, <1>7 DEF Merged

(***************************************************************************)
(* A log whose clock never went back reads to its end, whatever snapshots, *)
(* gaps, late checks and trades it holds: the order check of EventIter is  *)
(* never tripped, because the gap rows are sorted, the book rows follow    *)
(* the clock and the seq, and the trades are sorted by key.                *)
(***************************************************************************)
THEOREM OfflineMonotoneLogReads == OfflineSpec => []MonotoneLogReads
<1> DEFINE I == SoundInv /\ TablesInv
<1>1. OfflineInit => I
  BY SoundInit, TablesInit
<1>2. I /\ [OfflineNext]_<<vars, stream>> => I'
  BY SoundStep, TablesStep
<1>3. I => MonotoneLogReads
  BY ReadsToEnd DEF MonotoneLogReads
<1> QED BY <1>1, <1>2, <1>3, PTL DEF OfflineSpec

---------------------------------------------------------------------------
(* A stream that is read whole, and what is held after a part of it.       *)

Lengths(L) == [l \in 1 .. 3 |-> Len(L[l])]
Whole(L, events, src) == Drawn(L, events, Lengths(L), src) /\ InKeyOrder(events) /\ Len(events) \in Nat

LaneKinds(L) ==
    /\ \A k \in 1 .. Len(L[1]) : L[1][k].kind = "gap"
    /\ \A k \in 1 .. Len(L[2]) : L[2][k].kind \in {"snapshot", "delta"}
    /\ \A k \in 1 .. Len(L[3]) : L[3][k].kind = "trade"

\* Of lane l, the c first events are among the i first of the stream, and no more.
Taken(src, i, l, c) ==
    /\ c \in Nat
    /\ \A k \in 1 .. c : \E j \in 1 .. i : src[j].lane = l /\ src[j].at = k
    /\ \A j \in 1 .. i : src[j].lane = l => src[j].at <= c

\* A stream that reads to its end is drawn from the whole of the lanes.
LEMMA WholeIs ==
    ASSUME TablesInv, Read, stream.ok
    PROVE  LaneKeys(Lane) /\ LaneKinds(Lane) /\ \E src : Whole(Lane, stream.events, src)
<1>1. PICK src : Merged(Lane, stream, src)
  BY ReadIs
<1>2. LaneKeys(Lane)
  BY LanesOfTables
<1>3. PICK pos \in [1 .. 3 -> Nat] : Drawn(Lane, stream.events, pos, src) /\ \A l \in 1 .. 3 : pos[l] = Len(Lane[l])
  BY <1>1 DEF Merged
<1>4. pos = Lengths(Lane)
  BY <1>3 DEF Lengths
<1>5. InKeyOrder(stream.events) /\ Len(stream.events) \in Nat
  BY <1>1, ReadIs DEF Merged
<1>6. Whole(Lane, stream.events, src)
  BY <1>3, <1>4, <1>5 DEF Whole
<1>7. LaneKinds(Lane)
  <2>1. \A k \in 1 .. Len(GapLane(gap_rows)) : GapLane(gap_rows)[k].kind = "gap"
    BY GapLaneIs DEF TablesInv
  <2>2. \A k \in 1 .. Len(BookLane(book_events)) : BookLane(book_events)[k].kind \in {"snapshot", "delta"}
    BY BookLaneKinds DEF TablesInv, BookInv
  <2>3. \A k \in 1 .. Len(TradeLane(trades)) : TradeLane(trades)[k].kind = "trade"
    BY ReadIs, TradeLaneSorted
  <2> QED BY <2>1, <2>2, <2>3, LanesOfTables DEF LaneKinds
<1> QED BY <1>2, <1>6, <1>7

\* Where an event of a whole stream comes from.
LEMMA SourceIs ==
    ASSUME NEW L, LaneKeys(L), LaneKinds(L), NEW events, NEW src, Whole(L, events, src),
           NEW i \in 1 .. Len(events)
    PROVE  /\ src[i].lane \in 1 .. 3 /\ src[i].at \in 1 .. Len(L[src[i].lane])
           /\ events[i] = L[src[i].lane][src[i].at]
           /\ events[i].key \in Keys /\ events[i].ts = events[i].key[1] /\ events[i].ts \in Int
           /\ events[i].kind \in Kinds
           /\ events[i].kind = "gap" <=> src[i].lane = 1
           /\ events[i].kind \in {"snapshot", "delta"} <=> src[i].lane = 2
           /\ events[i].kind = "trade" <=> src[i].lane = 3
<1> DEFINE l == src[i].lane
           k == src[i].at
<1>1. l \in 1 .. 3 /\ k \in 1 .. Lengths(L)[l] /\ events[i] = L[l][k]
  BY DEF Whole, Drawn
<1>2. k \in 1 .. Len(L[l])
  BY <1>1 DEF Lengths
<1> HIDE DEF l, k
<1>3. events[i].key \in Keys /\ events[i].ts = events[i].key[1]
  BY <1>1, <1>2 DEF LaneKeys
<1>4. events[i].ts \in Int
  BY <1>3 DEF Keys
<1>5. /\ l = 1 => events[i].kind = "gap"
      /\ l = 2 => events[i].kind \in {"snapshot", "delta"}
      /\ l = 3 => events[i].kind = "trade"
  BY <1>1, <1>2 DEF LaneKinds
<1>6. l = 1 \/ l = 2 \/ l = 3
  BY <1>1
<1>7. events[i].kind \in Kinds
  BY <1>5, <1>6 DEF Kinds
<1>8. /\ events[i].kind = "gap" <=> l = 1
      /\ events[i].kind \in {"snapshot", "delta"} <=> l = 2
      /\ events[i].kind = "trade" <=> l = 3
  BY <1>5, <1>6
<1> QED BY <1>1, <1>2, <1>3, <1>4, <1>7, <1>8 DEF l, k

\* The next event of a lane is the one after those taken.
LEMMA TakenNext ==
    ASSUME NEW L, LaneKeys(L), LaneKinds(L), NEW events, NEW src, Whole(L, events, src),
           NEW i \in Nat, i + 1 <= Len(events), NEW l \in 1 .. 3, NEW c, Taken(src, i, l, c)
    PROVE  /\ src[i + 1].lane = l => src[i + 1].at = c + 1 /\ Taken(src, i + 1, l, c + 1)
           /\ src[i + 1].lane # l => Taken(src, i + 1, l, c)
<1>0. /\ Len(events) \in Nat /\ i + 1 \in 1 .. Len(events) /\ c \in Nat
      /\ \A j \in 1 .. i : j \in 1 .. Len(events) /\ j \in 1 .. i + 1 /\ j < i + 1
      /\ \A j \in 1 .. i + 1 : j \in 1 .. i \/ j = i + 1
  BY DEF Whole, Taken
<1>1. CASE src[i + 1].lane # l
  BY <1>0, <1>1 DEF Taken
<1>2. CASE src[i + 1].lane = l
  <2> DEFINE a == src[i + 1].at
             n == Len(L[l])
  <2>1. a \in 1 .. n /\ n \in Nat
    BY <1>0, <1>2, SourceIs DEF LaneKeys
  <2>2. \A j, k \in 1 .. Len(events) : j < k /\ src[j].lane = src[k].lane => src[j].at < src[k].at
    BY DEF Whole, Drawn
  <2>3. \A k \in 1 .. n : \E j \in 1 .. Len(events) : src[j].lane = l /\ src[j].at = k
    BY DEF Whole, Drawn, Lengths
  <2>4. \A k \in 1 .. Len(events) : src[k].lane = l => src[k].at \in Nat
    BY SourceIs
  <2> HIDE DEF n
  <2>5. c < a
    <3>1. CASE c = 0
      BY <2>1, <3>1
    <3>2. CASE c # 0
      <4>1. PICK j \in 1 .. i : src[j].lane = l /\ src[j].at = c
        BY <1>0, <3>2 DEF Taken
      <4> QED BY <1>0, <1>2, <2>2, <4>1
    <3> QED BY <3>1, <3>2
  <2>6. a = c + 1
    <3>1. c + 1 \in 1 .. n
      BY <1>0, <2>1, <2>5
    <3>2. PICK j \in 1 .. Len(events) : src[j].lane = l /\ src[j].at = c + 1
      BY <2>3, <3>1
    <3>3. CASE j < i + 1
      <4>1. j \in 1 .. i
        BY <1>0, <3>3
      <4>2. src[j].at <= c
        BY <3>2, <4>1 DEF Taken
      <4> QED BY <1>0, <3>2, <4>2
    <3>4. CASE j > i + 1
      <4>1. a < c + 1
        BY <1>0, <1>2, <2>2, <3>2, <3>4
      <4> QED BY <1>0, <2>1, <2>5, <4>1
    <3>5. j < i + 1 \/ j = i + 1 \/ j > i + 1
      BY <1>0
    <3> QED BY <3>2, <3>3, <3>4, <3>5
  <2>7. Taken(src, i + 1, l, c + 1)
    <3>1. \A j \in 1 .. i + 1 : src[j].lane = l => src[j].at <= c + 1
      <4> SUFFICES ASSUME NEW j \in 1 .. i + 1, src[j].lane = l PROVE src[j].at <= c + 1
        OBVIOUS
      <4>1. CASE j \in 1 .. i
        <5>1. src[j].at <= c /\ src[j].at \in Nat
          BY <1>0, <2>4, <4>1 DEF Taken
        <5> QED BY <1>0, <5>1
      <4>2. CASE j = i + 1
        BY <1>0, <2>6, <4>2
      <4> QED BY <1>0, <4>1, <4>2
    <3>2. ASSUME NEW k \in 1 .. c + 1 PROVE \E j \in 1 .. i + 1 : src[j].lane = l /\ src[j].at = k
      <4>1. CASE k \in 1 .. c
        BY <1>0, <4>1 DEF Taken
      <4>2. CASE k = c + 1
        <5>1. i + 1 \in 1 .. i + 1
          BY <1>0
        <5> QED BY <1>2, <2>6, <4>2, <5>1
      <4> QED BY <1>0, <4>1, <4>2
    <3>3. c + 1 \in Nat
      BY <1>0
    <3> QED BY <3>1, <3>2, <3>3 DEF Taken
  <2> QED BY <1>2, <2>6, <2>7
<1> QED BY <1>1, <1>2

\* What an event makes of a book does not depend on the pending gaps.
LEMMA AppliedBook ==
    ASSUME NEW e, e.kind \in Kinds, NEW r, Replayer(r), NEW s, Replayer(s), r.book = s.book
    PROVE  /\ Apply(r, e).book = Apply(s, e).book
           /\ e.kind \in {"gap", "trade"} => Apply(r, e).book = r.book
<1>1. CASE e.kind = "snapshot"
  <2>1. ASSUME NEW x, Replayer(x) PROVE Apply(x, e).book = ApplySnapshot(x.book, LevelsOf(e))
    BY <1>1, <2>1, ApplyIs
  <2> QED BY <1>1, <2>1
<1>2. CASE e.kind = "delta"
  <2> DEFINE c == CHOOSE l \in e.levels : TRUE
  <2>1. ASSUME NEW x, Replayer(x) PROVE Apply(x, e).book = ApplyChange(x.book, c[1], c[2])
    BY <1>2, <2>1, ApplyIs
  <2> HIDE DEF c
  <2> QED BY <1>2, <2>1
<1>3. CASE e.kind \in {"gap", "trade"}
  <2>1. ASSUME NEW x, Replayer(x) PROVE Apply(x, e).book = x.book
    BY <1>3, <2>1, ApplyIs
  <2> QED BY <2>1
<1> QED BY <1>1, <1>2, <1>3 DEF Kinds

\* The book after i events is the one that the book events among them leave.
LEMMA BookOfPrefix ==
    ASSUME NEW L, LaneKeys(L), LaneKinds(L), NEW events, NEW src, Whole(L, events, src),
           NEW i \in 0 .. Len(events)
    PROVE  \E c : Taken(src, i, 2, c) /\ Held(events, i).book = Held(L[2], c).book
<1> DEFINE P(k) == \E c : Taken(src, k, 2, c) /\ Held(events, k).book = Held(L[2], c).book
           T == {k \in Nat : k <= Len(events) => P(k)}
<1>0. Len(events) \in Nat /\ 2 \in 1 .. 3 /\ Len(L[2]) \in Nat
  BY DEF Whole, LaneKeys
<1>1. 0 \in T
  <2>1. Taken(src, 0, 2, 0)
    BY DEF Taken
  <2>2. Held(events, 0).book = Held(L[2], 0).book
    BY HeldNone
  <2> QED BY <2>1, <2>2
<1>2. ASSUME NEW k \in T PROVE k + 1 \in T
  <2> SUFFICES ASSUME k + 1 <= Len(events) PROVE P(k + 1)
    OBVIOUS
  <2>1. k \in Nat /\ k + 1 \in 1 .. Len(events)
    BY <1>0
  <2>2. PICK c : Taken(src, k, 2, c) /\ Held(events, k).book = Held(L[2], c).book
    BY <1>0, <2>1
  <2>3. c \in Nat
    BY <2>2 DEF Taken
  <2> DEFINE e == events[k + 1]
  <2>4. /\ e.kind \in Kinds /\ e = L[src[k + 1].lane][src[k + 1].at]
        /\ e.kind \in {"snapshot", "delta"} <=> src[k + 1].lane = 2
        /\ src[k + 1].at \in 1 .. Len(L[src[k + 1].lane])
    BY <2>1, SourceIs, SMTT(60)
  <2>5. Held(events, k + 1) = Apply(Held(events, k), e)
    BY <2>1, HeldNext
  <2>6. Replayer(Held(events, k))
    <3>1. ASSUME NEW j \in 1 .. k PROVE events[j].kind \in Kinds
      <4>1. j \in 1 .. Len(events)
        BY <1>0, <2>1
      <4> QED BY <4>1, SourceIs
    <3> QED BY <2>1, <3>1, HeldIsReplayer
  <2> HIDE DEF e
  <2>7. CASE src[k + 1].lane # 2
    <3>1. e.kind \in {"gap", "trade"}
      BY <2>4, <2>7 DEF Kinds
    <3>2. Held(events, k + 1).book = Held(events, k).book
      BY <2>4, <2>5, <2>6, <3>1, AppliedBook, SMTT(60)
    <3>3. Taken(src, k + 1, 2, c)
      BY <1>0, <2>1, <2>2, <2>7, TakenNext
    <3> QED BY <2>2, <3>2, <3>3
  <2>8. CASE src[k + 1].lane = 2
    <3>1. src[k + 1].at = c + 1 /\ Taken(src, k + 1, 2, c + 1)
      BY <1>0, <2>1, <2>2, <2>8, TakenNext
    <3>2. e = L[2][c + 1] /\ c + 1 <= Len(L[2])
      BY <1>0, <2>3, <2>4, <2>8, <3>1
    <3>3. Held(L[2], c + 1) = Apply(Held(L[2], c), e)
      BY <2>3, <3>2, HeldNext
    <3>4. Replayer(Held(L[2], c))
      <4>1. ASSUME NEW j \in 1 .. c PROVE L[2][j].kind \in Kinds
        <5>1. j \in 1 .. Len(L[2])
          BY <1>0, <2>3, <3>2
        <5>2. {"snapshot", "delta"} \subseteq Kinds
          BY DEF Kinds
        <5> QED BY <5>1, <5>2 DEF LaneKinds
      <4> QED BY <2>3, <4>1, HeldIsReplayer
    <3>5. Held(events, k + 1).book = Held(L[2], c + 1).book
      BY <2>2, <2>4, <2>5, <2>6, <3>3, <3>4, AppliedBook
    <3> QED BY <3>1, <3>5
  <2> QED BY <2>7, <2>8
<1>3. i \in T
  <2>1. T \in SUBSET Nat /\ i \in Nat
    BY <1>0
  <2> HIDE DEF T
  <2> QED BY <1>1, <1>2, <2>1, Induction
<1> QED BY <1>0, <1>3

\* All of a lane is taken in the end.
LEMMA AllTaken ==
    ASSUME NEW L, LaneKeys(L), LaneKinds(L), NEW events, NEW src, Whole(L, events, src),
           NEW l \in 1 .. 3, NEW c, Taken(src, Len(events), l, c)
    PROVE  c = Len(L[l])
<1>1. c \in Nat /\ Len(L[l]) \in Nat
  BY DEF Taken, LaneKeys
<1>2. c <= Len(L[l])
  <2> SUFFICES ASSUME c # 0 PROVE c <= Len(L[l])
    BY <1>1
  <2>1. PICK j \in 1 .. Len(events) : src[j].lane = l /\ src[j].at = c
    <3>1. c \in 1 .. c
      BY <1>1
    <3> QED BY <3>1 DEF Taken
  <2>2. src[j].at \in 1 .. Len(L[src[j].lane])
    BY SourceIs
  <2> QED BY <1>1, <2>1, <2>2
<1>3. Len(L[l]) <= c
  <2> SUFFICES ASSUME Len(L[l]) # 0 PROVE Len(L[l]) <= c
    BY <1>1
  <2>1. Len(L[l]) \in 1 .. Len(L[l])
    BY <1>1
  <2>2. PICK j \in 1 .. Len(events) : src[j].lane = l /\ src[j].at = Len(L[l])
    BY <2>1, ZenonT(60) DEF Whole, Drawn, Lengths
  <2> QED BY <2>2 DEF Taken
<1> QED BY <1>1, <1>2, <1>3

(***************************************************************************)
(* The book that a reader rebuilds from the merged stream is the book that *)
(* the processor held at the end, whatever the clock did, when the stream  *)
(* reads to its end: the merge keeps the order of the book rows, and gaps  *)
(* and trades between them do not touch the book.                          *)
(***************************************************************************)
THEOREM OfflineReplayAgrees == OfflineSpec => []ReplayAgrees
<1> DEFINE I == SoundInv /\ TablesInv
<1>1. OfflineInit => I
  BY SoundInit, TablesInit
<1>2. I /\ [OfflineNext]_<<vars, stream>> => I'
  BY SoundStep, TablesStep
<1>3. I => ReplayAgrees
  <2> SUFFICES ASSUME TablesInv, Read, stream.ok PROVE Replayed(stream.events).book = book
    BY DEF ReplayAgrees
  <2> DEFINE L == Lane
             events == stream.events
             n == Len(events)
  <2>1. LaneKeys(L) /\ LaneKinds(L) /\ \E src : Whole(L, events, src)
    BY WholeIs
  <2>2. L[2] = BookLane(book_events)
    BY LanesOfTables
  <2>3. Replayed(events) = Held(events, n)
    BY ReplayedIsHeld
  <2> HIDE DEF L, events
  <2>4. PICK src : Whole(L, events, src)
    BY <2>1
  <2>5. n \in 0 .. Len(events)
    BY <2>4 DEF Whole
  <2>6. PICK c : Taken(src, n, 2, c) /\ Held(events, n).book = Held(L[2], c).book
    BY <2>1, <2>4, <2>5, BookOfPrefix
  <2>7. c = Len(L[2])
    BY <2>1, <2>4, <2>6, 2 \in 1 .. 3, AllTaken
  <2>8. Held(L[2], Len(L[2])).book = book
    BY <2>2 DEF TablesInv, BookInv, Tells
  <2> QED BY <2>3, <2>6, <2>7, <2>8 DEF events
<1> QED BY <1>1, <1>2, <1>3, PTL DEF OfflineSpec

---------------------------------------------------------------------------
(* A range of a whole stream.                                              *)

\* The times of the events never go back.
LEMMA TimesGrow ==
    ASSUME NEW L, LaneKeys(L), LaneKinds(L), NEW events, NEW src, Whole(L, events, src),
           NEW i \in 1 .. Len(events), NEW j \in 1 .. Len(events), i < j
    PROVE  events[i].ts <= events[j].ts
<1> DEFINE a == events[i].key
           b == events[j].key
<1>1. a \in Keys /\ b \in Keys /\ events[i].ts = a[1] /\ events[j].ts = b[1] /\ a[1] \in Int /\ b[1] \in Int
  BY SourceIs
<1>2. ~Before(b, a)
  BY DEF Whole, InKeyOrder
<1> HIDE DEF a, b
<1>3. ~Less(b, a)
  BY <1>1, <1>2, BeforeIsLess
<1>4. ~(b[1] < a[1])
  BY <1>3 DEF Less
<1> QED BY <1>1, <1>4

\* Before position p the events are earlier than t, from there on they are not.
CutAt(events, t, p) ==
    /\ p \in 1 .. Len(events) + 1
    /\ \A i \in 1 .. p - 1 : events[i].ts < t
    /\ \A i \in p .. Len(events) : events[i].ts >= t

FirstAt(events, t) == SelectInSeq(events, LAMBDA e : e.ts >= t)

\* What SelectInSeq finds in a sequence of events with times.
LEMMA FirstAtIs ==
    ASSUME NEW events, Len(events) \in Nat, \A i \in 1 .. Len(events) : events[i].ts \in Int,
           \A i, j \in 1 .. Len(events) : i < j => events[i].ts <= events[j].ts, NEW t \in Int
    PROVE  CutAt(events, t, IF FirstAt(events, t) = 0 THEN Len(events) + 1 ELSE FirstAt(events, t))
<1> DEFINE n == Len(events)
           S == {i \in 1 .. n : events[i].ts >= t}
           p == FirstAt(events, t)
<1>1. p = IF S # {} THEN Min(S) ELSE 0
  BY DEF FirstAt, SelectInSeq
<1>2. n \in Nat /\ S \subseteq 1 .. n /\ \A i \in 1 .. n : i \in S <=> events[i].ts >= t
  OBVIOUS
<1> HIDE DEF S, p
<1>3. CASE S = {}
  <2>1. p = 0
    BY <1>1, <1>3
  <2>2. \A i \in 1 .. n : events[i].ts < t
    BY <1>2, <1>3
  <2> QED BY <1>2, <2>1, <2>2 DEF CutAt, p
<1>4. CASE S # {}
  <2>1. p = Min(S)
    BY <1>1, <1>4
  <2>2. S \in SUBSET Nat
    BY <1>2
  <2>3. p \in S /\ \A i \in S : p <= i
    BY <1>4, <2>1, <2>2, MinIsLeast
  <2>4. p # 0 /\ p \in 1 .. n
    BY <1>2, <2>3
  <2>5. ASSUME NEW i \in 1 .. p - 1 PROVE events[i].ts < t
    <3>1. i \in 1 .. n /\ i \notin S
      BY <1>2, <2>3, <2>4
    <3> QED BY <1>2, <3>1
  <2>6. ASSUME NEW i \in p .. n PROVE events[i].ts >= t
    <3>1. events[p].ts >= t /\ events[p].ts \in Int /\ i \in 1 .. n /\ events[i].ts \in Int
      BY <1>2, <2>3, <2>4
    <3>2. CASE i = p
      BY <3>1, <3>2
    <3>3. CASE i # p
      <4>1. p < i
        BY <2>4, <3>3
      <4>2. events[p].ts <= events[i].ts
        BY <2>4, <3>1, <4>1
      <4> QED BY <3>1, <4>2
    <3> QED BY <3>2, <3>3
  <2>7. CutAt(events, t, p)
    BY <1>2, <2>4, <2>5, <2>6 DEF CutAt
  <2> QED BY <2>4, <2>7 DEF p
<1> QED BY <1>3, <1>4

\* What a range of a whole stream opens with.
LEMMA OpeningIs ==
    ASSUME NEW L, LaneKeys(L), LaneKinds(L), NEW s, NEW E, s.events \in Seq(E),
           NEW src, Whole(L, s.events, src), NEW t0 \in Int, NEW t1 \in Int
    PROVE  \E from : /\ CutAt(s.events, t0, from)
                     /\ Between(s, t0, t1).gaps = Held(s.events, from - 1).pending_gaps
                     /\ Between(s, t0, t1).opener = Held(s.events, from - 1).book.levels
<1> DEFINE events == s.events
           n == Len(events)
           held == FirstAt(events, t0)
           from == IF held = 0 THEN n + 1 ELSE held
           q == SubSeq(events, 1, from - 1)
<1>1. PreRolled(events, t0) = held
  BY DEF PreRolled, FirstAt
<1>2. /\ Between(s, t0, t1).gaps = Replayed(q).pending_gaps
      /\ Between(s, t0, t1).opener = Replayed(q).book.levels
  BY <1>1 DEF Between
<1>3. n \in Nat /\ \A i \in 1 .. n : events[i].ts \in Int
  BY SourceIs DEF Whole
<1>4. \A i, j \in 1 .. n : i < j => events[i].ts <= events[j].ts
  BY TimesGrow
<1>5. events \in Seq(E)
  OBVIOUS
<1> HIDE DEF events, held
<1>6. CutAt(events, t0, from)
  BY <1>3, <1>4, FirstAtIs DEF held
<1>7. from \in 1 .. n + 1
  BY <1>6 DEF CutAt
<1> HIDE DEF from
<1>8. Len(q) = from - 1 /\ from - 1 \in Nat /\ \A i \in 1 .. from - 1 : q[i] = events[i]
  BY <1>3, <1>5, <1>7
<1> HIDE DEF q
<1>9. Replayed(q) = Held(events, from - 1)
  BY <1>8, ReplayedIsHeld, HeldAgree
<1> QED BY <1>2, <1>6, <1>9 DEF events

\* And what it then gives: the events of [t0, t1), all of them.
Spans(range, events, t0, t1, from, upto) ==
    /\ CutAt(events, t0, from) /\ CutAt(events, t1, upto) /\ from <= upto
    /\ Len(range) = upto - from /\ DOMAIN range = 1 .. upto - from
    /\ \A k \in 1 .. upto - from : range[k] = events[from + k - 1]

\* A range of a stream that reads to its end spans the events from t0 to t1.
LEMMA RangeIs ==
    ASSUME NEW L, LaneKeys(L), LaneKinds(L), NEW s, NEW E, s.events \in Seq(E), s.ok,
           NEW src, Whole(L, s.events, src), NEW t0 \in Int, NEW t1 \in Int, t0 < t1
    PROVE  /\ Between(s, t0, t1).ok
           /\ \E from, upto : Spans(Between(s, t0, t1).events, s.events, t0, t1, from, upto)
<1> DEFINE events == s.events
           n == Len(events)
           held == FirstAt(events, t0)
           from == IF held = 0 THEN n + 1 ELSE held
           rest == SubSeq(events, from, n)
           stop == FirstAt(rest, t1)
           cut == IF stop = 0 THEN Len(rest) + 1 ELSE stop
           range == IF stop = 0 THEN rest ELSE SubSeq(rest, 1, stop - 1)
<1>1. PreRolled(events, t0) = held
  BY DEF PreRolled, FirstAt
<1>2. Between(s, t0, t1).events = range /\ Between(s, t0, t1).ok = (stop # 0 \/ s.ok)
  BY <1>1 DEF Between, FirstAt
<1>3. n \in Nat /\ \A i \in 1 .. n : events[i].ts \in Int
  BY SourceIs DEF Whole
<1>4. \A i, j \in 1 .. n : i < j => events[i].ts <= events[j].ts
  BY TimesGrow
<1>5. events \in Seq(E)
  OBVIOUS
<1> HIDE DEF events, held
<1>6. CutAt(events, t0, from)
  BY <1>3, <1>4, FirstAtIs DEF held
<1>7. from \in 1 .. n + 1
  BY <1>6 DEF CutAt
<1> HIDE DEF from
<1>8. /\ rest \in Seq(E) /\ Len(rest) = n + 1 - from /\ Len(rest) \in Nat
      /\ \A i \in 1 .. Len(rest) : rest[i] = events[from + i - 1] /\ from + i - 1 \in 1 .. n
  BY <1>3, <1>5, <1>7
<1> HIDE DEF rest, stop
<1>9. CutAt(rest, t1, cut)
  <2>1. \A i \in 1 .. Len(rest) : rest[i].ts \in Int
    BY <1>3, <1>8
  <2>2. ASSUME NEW i \in 1 .. Len(rest), NEW j \in 1 .. Len(rest), i < j PROVE rest[i].ts <= rest[j].ts
    <3>1. from + i - 1 < from + j - 1
      BY <1>7, <1>8, <2>2
    <3> QED BY <1>4, <1>8, <3>1
  <2> QED BY <1>8, <2>1, <2>2, FirstAtIs DEF stop
<1>10. cut \in 1 .. Len(rest) + 1
  BY <1>9 DEF CutAt
<1>11. /\ Len(range) = cut - 1 /\ DOMAIN range = 1 .. cut - 1
       /\ \A k \in 1 .. cut - 1 : range[k] = rest[k]
  <2>1. CASE stop = 0
    BY <1>8, <2>1
  <2>2. CASE stop # 0
    BY <1>8, <1>10, <2>2
  <2> QED BY <2>1, <2>2
<1> DEFINE upto == from + cut - 1
<1>12. CutAt(events, t1, upto)
  <2>1. upto \in 1 .. n + 1
    BY <1>3, <1>7, <1>8, <1>10
  <2>2. ASSUME NEW i \in 1 .. upto - 1 PROVE events[i].ts < t1
    <3>1. i \in 1 .. n
      BY <1>3, <2>1
    <3>2. CASE i < from
      <4>1. i \in 1 .. from - 1
        BY <1>7, <3>1, <3>2
      <4>2. events[i].ts < t0
        BY <1>6, <4>1 DEF CutAt
      <4> QED BY <1>3, <3>1, <4>2
    <3>3. CASE i >= from
      <4> DEFINE k == i - from + 1
      <4>1. k \in 1 .. cut - 1 /\ k \in 1 .. Len(rest) /\ from + k - 1 = i
        BY <1>7, <1>8, <1>10, <3>1, <3>3
      <4>2. rest[k].ts < t1
        BY <1>9, <4>1 DEF CutAt
      <4> QED BY <1>8, <4>1, <4>2
    <3> QED BY <1>7, <3>1, <3>2, <3>3
  <2>3. ASSUME NEW i \in upto .. n PROVE events[i].ts >= t1
    <3> DEFINE k == i - from + 1
    <3>1. k \in cut .. Len(rest) /\ k \in 1 .. Len(rest) /\ from + k - 1 = i
      BY <1>3, <1>7, <1>8, <1>10
    <3>2. rest[k].ts >= t1
      BY <1>9, <3>1 DEF CutAt
    <3> QED BY <1>8, <3>1, <3>2
  <2> QED BY <2>1, <2>2, <2>3 DEF CutAt
<1>13. upto - from = cut - 1 /\ from <= upto
  BY <1>7, <1>8, <1>10
<1>14. ASSUME NEW k \in 1 .. upto - from PROVE range[k] = events[from + k - 1]
  <2>1. k \in 1 .. cut - 1 /\ k \in 1 .. Len(rest)
    BY <1>8, <1>10, <1>13
  <2> QED BY <1>8, <1>11, <2>1
<1> HIDE DEF range, upto, cut
<1>15. Len(range) = upto - from /\ DOMAIN range = 1 .. upto - from
  BY <1>11, <1>13
<1>16. Spans(range, events, t0, t1, from, upto)
  BY <1>6, <1>12, <1>13, <1>14, <1>15 DEF Spans
<1> QED BY <1>2, <1>16 DEF events

\* Of a lane, what comes before a cut is what has been taken.
LEMMA TakenAt ==
    ASSUME NEW L, LaneKeys(L), LaneKinds(L), NEW events, NEW src, Whole(L, events, src),
           NEW t \in Int, NEW p, CutAt(events, t, p), NEW l \in 1 .. 3, NEW c, Taken(src, p - 1, l, c)
    PROVE  c \in Nat /\ c <= Len(L[l]) /\ \A k \in 1 .. Len(L[l]) : k <= c <=> L[l][k].ts < t
<1> DEFINE n == Len(events)
           i == p - 1
<1>0. n \in Nat /\ p \in 1 .. n + 1 /\ i \in 0 .. n /\ c \in Nat /\ Len(L[l]) \in Nat
  BY DEF Whole, CutAt, Taken, LaneKeys
<1>1. \A j \in 1 .. n : /\ src[j].lane \in 1 .. 3 /\ events[j] = L[src[j].lane][src[j].at]
                        /\ src[j].at \in 1 .. Len(L[src[j].lane]) /\ events[j].ts \in Int
  BY SourceIs
<1>2. \A k \in 1 .. Len(L[l]) : \E j \in 1 .. n : src[j].lane = l /\ src[j].at = k
  BY DEF Whole, Drawn, Lengths
<1>3. \A j \in 1 .. n : j < p <=> events[j].ts < t
  BY <1>0, <1>1 DEF CutAt
<1>4. \A a, b \in 1 .. n : a < b /\ src[a].lane = src[b].lane => src[a].at < src[b].at
  BY DEF Whole, Drawn
<1>5. c <= Len(L[l])
  <2> SUFFICES ASSUME c # 0 PROVE c <= Len(L[l])
    BY <1>0
  <2>1. c \in 1 .. c
    BY <1>0
  <2>2. PICK m \in 1 .. i : src[m].lane = l /\ src[m].at = c
    BY <2>1 DEF Taken
  <2>3. m \in 1 .. n
    BY <1>0
  <2> QED BY <1>0, <1>1, <2>2, <2>3
<1>6. ASSUME NEW k \in 1 .. Len(L[l]) PROVE k <= c <=> L[l][k].ts < t
  <2>1. PICK j \in 1 .. n : src[j].lane = l /\ src[j].at = k
    BY <1>2
  <2>2. events[j] = L[l][k]
    BY <1>1, <2>1
  <2>3. ASSUME j < p PROVE k <= c
    <3>1. j \in 1 .. i
      BY <1>0, <2>3
    <3> QED BY <2>1, <3>1 DEF Taken
  <2>4. ASSUME k <= c PROVE j < p
    <3>1. k \in 1 .. c
      BY <1>0, <2>4
    <3>2. PICK m \in 1 .. i : src[m].lane = l /\ src[m].at = k
      BY <3>1 DEF Taken
    <3>3. m \in 1 .. n
      BY <1>0
    <3>4. m = j
      <4>1. ~(m < j) /\ ~(j < m)
        BY <1>0, <1>4, <2>1, <3>2, <3>3
      <4> QED BY <3>3, <4>1
    <3> QED BY <1>0, <3>4
  <2> QED BY <1>3, <2>2, <2>3, <2>4
<1> QED BY <1>0, <1>5, <1>6

---------------------------------------------------------------------------
(* The gaps that are pending after a part of the stream: a run of the lane *)
(* of gaps, from the last snapshot on.                                     *)

GapRun(L, events, src, i, lo, hi) ==
    /\ lo \in 0 .. hi /\ Taken(src, i, 1, hi)
    /\ Held(events, i).pending_gaps = [n \in 1 .. hi - lo |-> L[1][lo + n]]
    /\ \A j \in 1 .. i : src[j].lane = 1 =>
          (src[j].at > lo <=> \A m \in j + 1 .. i : events[m].kind # "snapshot")

\* One event more: a gap joins the run, a snapshot empties it, others leave it.
LEMMA PendingNext ==
    ASSUME NEW L, LaneKeys(L), LaneKinds(L), NEW events, NEW src, Whole(L, events, src),
           NEW i \in Nat, i + 1 <= Len(events), NEW lo, NEW hi, GapRun(L, events, src, i, lo, hi)
    PROVE  \E a, b : GapRun(L, events, src, i + 1, a, b)
<1> DEFINE e == events[i + 1]
<1>0. /\ Len(events) \in Nat /\ i + 1 \in 1 .. Len(events) /\ 1 \in 1 .. 3
      /\ \A j \in 1 .. i + 1 : j \in 1 .. i \/ j = i + 1
      /\ \A j \in 1 .. i : j \in 1 .. Len(events)
  BY DEF Whole
<1>1. /\ lo \in 0 .. hi /\ hi \in Nat /\ lo \in Nat /\ Taken(src, i, 1, hi)
      /\ Held(events, i).pending_gaps = [n \in 1 .. hi - lo |-> L[1][lo + n]]
      /\ \A j \in 1 .. i : src[j].lane = 1 =>
            (src[j].at > lo <=> \A m \in j + 1 .. i : events[m].kind # "snapshot")
  BY DEF GapRun, Taken
<1>2. /\ e.kind \in Kinds /\ e = L[src[i + 1].lane][src[i + 1].at]
      /\ e.kind = "gap" <=> src[i + 1].lane = 1
  BY <1>0, SourceIs
<1>3. Held(events, i + 1) = Apply(Held(events, i), e)
  BY HeldNext
<1>4. Replayer(Held(events, i))
  <2>1. ASSUME NEW j \in 1 .. i PROVE events[j].kind \in Kinds
    BY <1>0, SourceIs
  <2> QED BY <2>1, HeldIsReplayer
<1>5. /\ src[i + 1].lane = 1 => src[i + 1].at = hi + 1 /\ Taken(src, i + 1, 1, hi + 1)
      /\ src[i + 1].lane # 1 => Taken(src, i + 1, 1, hi)
  BY <1>0, <1>1, TakenNext
<1>6. \A j \in 1 .. i : \A m : m \in j + 1 .. i + 1 <=> m \in j + 1 .. i \/ m = i + 1
  OBVIOUS
<1> DEFINE r == Held(events, i)
           g == r.pending_gaps
<1>7. Held(events, i + 1).pending_gaps = Apply(r, e).pending_gaps
  BY <1>3
<1>11. Replayer(r)
  BY <1>4
<1>12. e.kind \in Kinds
  BY <1>2
<1> HIDE DEF r, e
<1>8. CASE e.kind = "gap"
  <2>1. src[i + 1].at = hi + 1 /\ Taken(src, i + 1, 1, hi + 1) /\ e = L[1][hi + 1] /\ src[i + 1].lane = 1
    BY <1>2, <1>5, <1>8
  <2>2. Held(events, i + 1).pending_gaps = Append(g, e)
    <3>1. Apply(r, e).pending_gaps = Append(r.pending_gaps, e)
      BY <1>8, <1>11, <1>12, ApplyIs
    <3> QED BY <1>7, <3>1
  <2>3. Append(g, e) = [n \in 1 .. (hi + 1) - lo |-> L[1][lo + n]]
    <3> DEFINE k == hi - lo
               f == [n \in 1 .. k |-> L[1][lo + n]]
               h == [n \in 1 .. k + 1 |-> L[1][lo + n]]
    <3>1. k \in Nat /\ (hi + 1) - lo = k + 1 /\ lo + (k + 1) = hi + 1
      BY <1>1
    <3>2. Len(f) = k /\ DOMAIN f = 1 .. k
      BY <3>1
    <3>3. Append(f, e) = [n \in 1 .. k + 1 |-> IF n = k + 1 THEN e ELSE f[n]]
      <4> HIDE DEF f
      <4>1. f = [n \in 1 .. k |-> f[n]]
        BY DEF f
      <4> HIDE DEF k
      <4>2. f \in Seq({f[n] : n \in 1 .. k} \cup {e})
        BY <3>1, <4>1
      <4> DEFINE a == Append(f, e)
      <4>3. /\ a \in Seq({f[n] : n \in 1 .. k} \cup {e}) /\ Len(a) = k + 1
            /\ \A n \in 1 .. k + 1 : a[n] = IF n = k + 1 THEN e ELSE f[n]
        BY <3>1, <3>2, <4>2
      <4> HIDE DEF a
      <4>4. a = [n \in 1 .. k + 1 |-> a[n]]
        BY <3>1, <4>3
      <4> QED BY <4>3, <4>4 DEF a
    <3>4. \A n \in 1 .. k + 1 : (IF n = k + 1 THEN e ELSE f[n]) = L[1][lo + n]
      <4> TAKE n \in 1 .. k + 1
      <4>1. CASE n = k + 1
        BY <2>1, <3>1, <4>1
      <4>2. CASE n # k + 1
        <5>1. n \in 1 .. k
          BY <3>1, <4>2
        <5> QED BY <4>2, <5>1
      <4> QED BY <4>1, <4>2
    <3>5. g = f
      BY <1>1 DEF r
    <3> HIDE DEF f, k
    <3> QED BY <3>1, <3>3, <3>4, <3>5
  <2>4. \A j \in 1 .. i + 1 : src[j].lane = 1 =>
            (src[j].at > lo <=> \A m \in j + 1 .. i + 1 : events[m].kind # "snapshot")
    <3> SUFFICES ASSUME NEW j \in 1 .. i + 1, src[j].lane = 1
                 PROVE  src[j].at > lo <=> \A m \in j + 1 .. i + 1 : events[m].kind # "snapshot"
      OBVIOUS
    <3>1. CASE j = i + 1
      <4>1. j + 1 .. i + 1 = {}
        BY <3>1
      <4>2. src[j].at > lo
        BY <1>1, <2>1, <3>1
      <4> QED BY <4>1, <4>2
    <3>2. CASE j \in 1 .. i
      BY <1>1, <1>6, <1>8, <3>2 DEF e
    <3> QED BY <1>0, <3>1, <3>2
  <2>5. lo \in 0 .. hi + 1
    BY <1>1
  <2>6. GapRun(L, events, src, i + 1, lo, hi + 1)
    BY <2>1, <2>2, <2>3, <2>4, <2>5 DEF GapRun
  <2> QED BY <2>6
<1>9. CASE e.kind = "snapshot"
  <2>1. Taken(src, i + 1, 1, hi) /\ src[i + 1].lane # 1
    BY <1>2, <1>5, <1>9
  <2>2. Held(events, i + 1).pending_gaps = <<>>
    <3>1. Apply(r, e).pending_gaps = <<>>
      BY <1>9, <1>11, <1>12, ApplyIs
    <3> QED BY <1>7, <3>1
  <2>3. [n \in 1 .. hi - hi |-> L[1][hi + n]] = <<>>
    <3>1. 1 .. hi - hi = {}
      BY <1>1
    <3> QED BY <3>1
  <2>4. \A j \in 1 .. i + 1 : src[j].lane = 1 =>
            (src[j].at > hi <=> \A m \in j + 1 .. i + 1 : events[m].kind # "snapshot")
    <3> SUFFICES ASSUME NEW j \in 1 .. i + 1, src[j].lane = 1
                 PROVE  src[j].at <= hi /\ src[j].at \in Nat /\ i + 1 \in j + 1 .. i + 1
      BY <1>1, <1>9 DEF e
    <3>1. j \in 1 .. i
      BY <1>0, <2>1
    <3>2. src[j].at \in 1 .. Len(L[src[j].lane]) /\ Len(L[1]) \in Nat
      BY <1>0, <3>1, SourceIs DEF LaneKeys
    <3> QED BY <1>1, <3>1, <3>2 DEF Taken
  <2>5. hi \in 0 .. hi
    BY <1>1
  <2>6. GapRun(L, events, src, i + 1, hi, hi)
    BY <2>1, <2>2, <2>3, <2>4, <2>5 DEF GapRun
  <2> QED BY <2>6
<1>10. CASE e.kind \in {"delta", "trade"}
  <2>1. Taken(src, i + 1, 1, hi) /\ src[i + 1].lane # 1
    BY <1>2, <1>5, <1>10
  <2>2. Held(events, i + 1).pending_gaps = g
    BY <1>2, <1>4, <1>7, <1>10, ApplyIs DEF r
  <2>3. \A j \in 1 .. i + 1 : src[j].lane = 1 =>
            (src[j].at > lo <=> \A m \in j + 1 .. i + 1 : events[m].kind # "snapshot")
    <3> SUFFICES ASSUME NEW j \in 1 .. i + 1, src[j].lane = 1
                 PROVE  src[j].at > lo <=> \A m \in j + 1 .. i + 1 : events[m].kind # "snapshot"
      OBVIOUS
    <3>1. j \in 1 .. i
      BY <1>0, <2>1
    <3> QED BY <1>1, <1>6, <1>10, <3>1 DEF e
  <2>4. g = [n \in 1 .. hi - lo |-> L[1][lo + n]]
    BY <1>1 DEF r
  <2>5. GapRun(L, events, src, i + 1, lo, hi)
    BY <1>1, <2>1, <2>2, <2>3, <2>4 DEF GapRun
  <2> QED BY <2>5
<1> QED BY <1>2, <1>8, <1>9, <1>10 DEF Kinds

\* At every point of the stream the pending gaps are such a run.
LEMMA PendingIs ==
    ASSUME NEW L, LaneKeys(L), LaneKinds(L), NEW events, NEW src, Whole(L, events, src),
           NEW i \in 0 .. Len(events)
    PROVE  \E lo, hi : GapRun(L, events, src, i, lo, hi)
<1> DEFINE P(k) == \E lo, hi : GapRun(L, events, src, k, lo, hi)
           T == {k \in Nat : k <= Len(events) => P(k)}
<1>0. Len(events) \in Nat
  BY DEF Whole
<1>1. 0 \in T
  <2>1. Taken(src, 0, 1, 0) /\ 0 \in 0 .. 0
    BY DEF Taken
  <2>2. Held(events, 0).pending_gaps = <<>>
    BY HeldNone DEF NewReplayer
  <2>3. [n \in 1 .. 0 - 0 |-> L[1][0 + n]] = <<>>
    <3>1. 1 .. 0 - 0 = {}
      OBVIOUS
    <3> QED BY <3>1
  <2>4. GapRun(L, events, src, 0, 0, 0)
    BY <2>1, <2>2, <2>3 DEF GapRun
  <2> QED BY <2>4
<1>2. ASSUME NEW k \in T PROVE k + 1 \in T
  <2> SUFFICES ASSUME k + 1 <= Len(events) PROVE P(k + 1)
    OBVIOUS
  <2>1. k \in Nat /\ k <= Len(events)
    BY <1>0
  <2>2. PICK lo, hi : GapRun(L, events, src, k, lo, hi)
    BY <2>1
  <2> QED BY <2>1, <2>2, PendingNext
<1>3. i \in T
  <2>1. T \in SUBSET Nat /\ i \in Nat
    BY <1>0
  <2> HIDE DEF T
  <2> QED BY <1>1, <1>2, <2>1, Induction
<1> QED BY <1>0, <1>3

\* A gap has no seq, an event of the book has one: at one time the book comes first.
Stamped(L) ==
    /\ \A k \in 1 .. Len(L[1]) : L[1][k].key[2] = 1
    /\ Numbered(L[2])

\* The lanes of the written tables are stamped so.
LEMMA LaneStamped ==
    ASSUME TablesInv
    PROVE  Stamped(Lane)
<1>1. Lane[1] = GapLane(gap_rows) /\ Lane[2] = BookLane(book_events)
  BY LanesOfTables
<1>2. Numbered(Lane[2])
  BY <1>1 DEF TablesInv, BookInv
<1>3. \A k \in 1 .. Len(GapLane(gap_rows)) : GapLane(gap_rows)[k].key[2] = 1
  <2>1. gap_rows \in Seq(GapRow)
    BY DEF TablesInv
  <2>2. Len(GapLane(gap_rows)) = Len(gap_rows)
    BY <2>1, GapLaneIs
  <2>3. \A k \in 1 .. Len(gap_rows) : GapLane(gap_rows)[k].key = Key(gap_rows[k].ts, 0, 0, 0, k)
    BY <2>1 DEF GapLane
  <2> QED BY <2>2, <2>3 DEF Key
<1> QED BY <1>1, <1>2, <1>3 DEF Stamped

\* The gaps that are pending at t: those before it that no snapshot before it answers.
Unanswered(lane, snaps, t) ==
    {k \in 1 .. Len(lane) : lane[k].ts < t /\ ~\E u \in snaps : lane[k].ts < u /\ u < t}

\* The run that is pending at t is the set of the unanswered gaps.
LEMMA PendingAt ==
    ASSUME NEW L, LaneKeys(L), LaneKinds(L), Stamped(L), NEW events, NEW src, Whole(L, events, src),
           NEW t \in Int, NEW p, CutAt(events, t, p), NEW lo, NEW hi, GapRun(L, events, src, p - 1, lo, hi)
    PROVE  lo + 1 .. hi = Unanswered(L[1], SnapTimes(L[2]), t)
<1> DEFINE n == Len(events)
           i == p - 1
<1>0. /\ n \in Nat /\ p \in 1 .. n + 1 /\ i \in 0 .. n /\ lo \in 0 .. hi /\ hi \in Nat /\ lo \in Nat
      /\ Taken(src, i, 1, hi) /\ Len(L[1]) \in Nat /\ Len(L[2]) \in Nat
  BY SMTT(60) DEF Whole, CutAt, GapRun, Taken, LaneKeys
<1>1. \A j \in 1 .. n : /\ src[j].lane \in 1 .. 3 /\ events[j] = L[src[j].lane][src[j].at]
                        /\ src[j].at \in 1 .. Len(L[src[j].lane])
                        /\ events[j].ts \in Int /\ events[j].key \in Keys /\ events[j].ts = events[j].key[1]
                        /\ events[j].kind \in {"snapshot", "delta"} <=> src[j].lane = 2
  BY SourceIs
<1>2. \A l \in 1 .. 3 : \A k \in 1 .. Len(L[l]) : \E j \in 1 .. n : src[j].lane = l /\ src[j].at = k
  BY DEF Whole, Drawn, Lengths
<1>3. \A j \in 1 .. n : j < p <=> events[j].ts < t
  BY <1>0, <1>1 DEF CutAt
<1>4. \A j, k \in 1 .. n : j < k => events[j].ts <= events[k].ts
  BY TimesGrow
<1>5. hi <= Len(L[1]) /\ \A k \in 1 .. Len(L[1]) : k <= hi <=> L[1][k].ts < t
  BY <1>0, 1 \in 1 .. 3, TakenAt
<1>6. ASSUME NEW k \in 1 .. Len(L[1]), k <= hi
      PROVE  k > lo <=> ~\E u \in SnapTimes(L[2]) : L[1][k].ts < u /\ u < t
  <2>1. PICK j \in 1 .. n : src[j].lane = 1 /\ src[j].at = k
    BY <1>2, 1 \in 1 .. 3
  <2>2. j \in 1 .. i /\ events[j] = L[1][k] /\ L[1][k].ts < t /\ L[1][k].ts \in Int
    <3>1. events[j] = L[1][k] /\ L[1][k].ts < t /\ L[1][k].ts \in Int
      BY <1>1, <1>5, <1>6, <2>1
    <3> QED BY <1>0, <1>3, <3>1
  <2>3. k > lo <=> \A m \in j + 1 .. i : events[m].kind # "snapshot"
    BY <2>1, <2>2 DEF GapRun
  <2>4. ASSUME NEW m \in j + 1 .. i, events[m].kind = "snapshot"
        PROVE  \E u \in SnapTimes(L[2]) : L[1][k].ts < u /\ u < t
    <3> DEFINE q == src[m].at
               u == L[2][q].ts
    <3>1. m \in 1 .. n /\ j < m /\ m < p
      BY <1>0, <2>2, SMTT(60)
    <3>2. src[m].lane = 2 /\ events[m] = L[2][q] /\ q \in 1 .. Len(L[2])
      BY <1>1, <2>4, <3>1
    <3>3. u \in SnapTimes(L[2])
      BY <2>4, <3>2 DEF SnapTimes
    <3>4. u < t /\ u \in Int /\ L[1][k].ts <= u
      BY <1>1, <1>3, <1>4, <2>2, <3>1, <3>2
    <3>5. L[1][k].ts # u
      <4> DEFINE a == events[j].key
                 b == events[m].key
      <4>1. a \in Keys /\ b \in Keys /\ a[1] = L[1][k].ts /\ b[1] = u
        BY <1>1, <2>2, <3>1, <3>2
      <4>2. a[2] = 1 /\ b[2] = 0
        BY <2>2, <3>2 DEF Stamped, Numbered
      <4>3. ~Before(b, a)
        BY <3>1 DEF Whole, InKeyOrder
      <4> HIDE DEF a, b
      <4>4. ~Less(b, a)
        BY <4>1, <4>3, BeforeIsLess
      <4> QED BY <4>1, <4>2, <4>4 DEF Less
    <3> HIDE DEF u
    <3>6. L[1][k].ts < u
      BY <2>2, <3>4, <3>5
    <3> QED BY <3>3, <3>4, <3>6
  <2>5. ASSUME NEW u \in SnapTimes(L[2]), L[1][k].ts < u, u < t
        PROVE  \E m \in j + 1 .. i : events[m].kind = "snapshot"
    <3>1. PICK q \in 1 .. Len(L[2]) : L[2][q].kind = "snapshot" /\ L[2][q].ts = u
      BY DEF SnapTimes
    <3>2. PICK m \in 1 .. n : src[m].lane = 2 /\ src[m].at = q
      BY <1>2, 2 \in 1 .. 3
    <3>3. events[m] = L[2][q]
      BY <1>1, <3>2
    <3>4. m < p
      BY <1>3, <2>5, <3>1, <3>3
    <3>5. m > j
      <4>1. ~(m < j)
        <5>1. m < j => events[m].ts <= events[j].ts
          BY <1>4
        <5>2. events[j].ts < events[m].ts /\ events[j].ts \in Int /\ events[m].ts \in Int
          BY <1>1, <2>2, <2>5, <3>1, <3>3
        <5> QED BY <5>1, <5>2
      <4>2. m # j
        BY <2>1, <3>2
      <4> QED BY <4>1, <4>2
    <3>6. m \in j + 1 .. i
      BY <1>0, <3>4, <3>5
    <3> QED BY <3>1, <3>3, <3>6
  <2> QED BY <2>3, <2>4, <2>5
<1>7. ASSUME NEW k PROVE k \in lo + 1 .. hi <=> k \in Unanswered(L[1], SnapTimes(L[2]), t)
  <2>1. k \in lo + 1 .. hi <=> k \in 1 .. Len(L[1]) /\ k <= hi /\ k > lo
    BY <1>0, <1>5
  <2> QED BY <1>5, <1>6, <2>1 DEF Unanswered
<1> QED BY <1>7

---------------------------------------------------------------------------
(* The span of the book and the times of the snapshots.                    *)

\* A finite set of integers has a least member.
LEMMA LeastTime ==
    ASSUME NEW S \in SUBSET Int, IsFiniteSet(S), S # {}
    PROVE  Min(S) \in S /\ \A y \in S : Min(S) <= y
<1> DEFINE T == {-x : x \in S}
<1>1. T \in SUBSET Int /\ T # {}
  <2>1. ASSUME NEW x \in S PROVE -x \in Int /\ -x \in T
    OBVIOUS
  <2>2. PICK x \in S : TRUE
    OBVIOUS
  <2>3. T # {}
    <3>1. -x \in T
      BY <2>1
    <3> QED BY <3>1
  <2> QED BY <2>1, <2>3
<1>2. IsFiniteSet(T)
  <2> DEFINE f == [x \in S |-> -x]
  <2>1. f \in Surjection(S, T)
    BY DEF Surjection
  <2> HIDE DEF f, T
  <2> QED BY <2>1, FS_Surjection
<1> HIDE DEF T
<1>3. PICK z \in T : \A y \in T : y <= z
  BY <1>1, <1>2, Greatest
<1>4. PICK x \in S : z = -x
  BY DEF T
<1>5. ASSUME NEW y \in S PROVE x <= y
  <2>1. -y \in T
    BY DEF T
  <2>2. -y <= -x
    BY <1>3, <1>4, <2>1
  <2>3. x \in Int /\ y \in Int
    OBVIOUS
  <2> QED BY <2>2, <2>3
<1> QED BY <1>5 DEF Min

\* The book of a written log has a span.
LEMMA SpanIs ==
    ASSUME SoundInv, TablesInv, log # <<>>
    PROVE  SpanStart \in Int /\ SpanEnd \in Int
<1> DEFINE rows == book_events
           T == {r.ts : r \in ToSet(rows)}
<1>1. rows \in Seq(RowsOf) /\ Len(rows) \in Nat /\ \A i \in 1 .. Len(rows) : rows[i] \in RowsOf
  BY DEF TablesInv, BookInv
<1>2. \A r \in RowsOf : r.ts \in Int
  BY DEF RowsOf, BookRows
<1>3. ToSet(rows) = {rows[i] : i \in 1 .. Len(rows)}
  BY <1>1 DEF ToSet
<1>4. T = {rows[i].ts : i \in 1 .. Len(rows)}
  BY <1>3
<1>5. T \in SUBSET Int
  BY <1>1, <1>2, <1>4
<1>6. IsFiniteSet(T)
  <2> DEFINE f == [i \in 1 .. Len(rows) |-> rows[i].ts]
  <2>1. f \in Surjection(1 .. Len(rows), T)
    BY <1>4 DEF Surjection
  <2>2. IsFiniteSet(1 .. Len(rows))
    BY <1>1, FS_Interval
  <2> HIDE DEF f, T
  <2> QED BY <2>1, <2>2, FS_Surjection
<1>7. T # {}
  <2>1. 1 \in Books(log)
    BY DEF SoundInv, LogInv
  <2>2. PICK line : Lined(log, BookLane(rows), line)
    BY DEF TablesInv, BookInv, Tells
  <2>3. PICK k \in 1 .. Len(BookLane(rows)) : line[k] = 1
    BY <2>1, <2>2 DEF Lined
  <2>4. Ascending(Starts(rows))[k] \in 1 .. Len(rows)
    BY <1>1, <2>3, BookLaneIs
  <2> QED BY <1>4, <2>4
<1> HIDE DEF T
<1>8. Max(T) \in Int /\ Min(T) \in Int
  BY <1>5, <1>6, <1>7, MaxIsGreatest, LeastTime
<1> QED BY <1>8 DEF SpanStart, SpanEnd, T

\* snap_ts holds the times of the snapshots of the lane, a finite number.
LEMMA SnapsAre ==
    ASSUME TablesInv
    PROVE  snap_ts = SnapTimes(Lane[2]) /\ snap_ts \in SUBSET Int /\ IsFiniteSet(snap_ts)
<1> DEFINE lane == BookLane(book_events)
<1>1. snap_ts = SnapTimes(lane)
  BY DEF TablesInv, BookInv, Tells
<1>2. Lane[2] = lane /\ LaneKeys(Lane) /\ 2 \in 1 .. 3
  BY LanesOfTables
<1>3. Len(lane) \in Nat /\ \A k \in 1 .. Len(lane) : lane[k].ts = lane[k].key[1] /\ lane[k].key \in Keys
  BY <1>2 DEF LaneKeys
<1>4. \A a \in Keys : a[1] \in Int
  BY DEF Keys
<1> HIDE DEF lane
<1> DEFINE J == {j \in 1 .. Len(lane) : lane[j].kind = "snapshot"}
<1>5. J \subseteq 1 .. Len(lane) /\ IsFiniteSet(1 .. Len(lane))
  BY <1>3, FS_Interval
<1>6. IsFiniteSet(J)
  BY <1>5, FS_Subset
<1>7. SnapTimes(lane) = {lane[k].ts : k \in J}
  BY DEF SnapTimes
<1> DEFINE f == [k \in J |-> lane[k].ts]
<1>8. f \in Surjection(J, SnapTimes(lane))
  BY <1>7 DEF Surjection
<1>9. IsFiniteSet(SnapTimes(lane))
  <2> HIDE DEF f, J
  <2> QED BY <1>6, <1>8, FS_Surjection
<1>10. SnapTimes(lane) \in SUBSET Int
  BY <1>3, <1>4, <1>5, <1>7
<1> QED BY <1>1, <1>2, <1>9, <1>10

\* The gaps a range of the read stream opens with.
LEMMA GapsAt ==
    ASSUME TablesInv, Read, stream.ok, NEW t0 \in Int, NEW t1 \in Int
    PROVE  \E lo, hi :
              /\ lo \in 0 .. hi /\ hi \in Nat
              /\ Between(stream, t0, t1).gaps = [n \in 1 .. hi - lo |-> GapLane(gap_rows)[lo + n]]
              /\ lo + 1 .. hi = {i \in DOMAIN gap_rows :
                                   /\ gap_rows[i].ts < t0
                                   /\ ~\E t \in snap_ts : gap_rows[i].ts < t /\ t < t0}
<1> DEFINE L == Lane
           events == stream.events
           gaps == gap_rows
           snaps == snap_ts
           s == stream
           opened == Between(s, t0, t1).gaps
<1>1. LaneKeys(L) /\ LaneKinds(L) /\ Stamped(L) /\ L[1] = GapLane(gaps)
  BY WholeIs, LanesOfTables, LaneStamped
<1>2. PICK src : Whole(L, events, src)
  BY WholeIs
<1>3. PICK E : events \in Seq(E)
  BY ReadIs
<1>4. snaps = SnapTimes(L[2])
  BY SnapsAre
<1>5. gaps \in Seq(GapRow)
  BY DEF TablesInv
<1> HIDE DEF L, gaps, snaps, s
<1>6. PICK from : CutAt(events, t0, from) /\ opened = Held(events, from - 1).pending_gaps
  <2>1. \E from : CutAt(s.events, t0, from)
                 /\ Between(s, t0, t1).gaps = Held(s.events, from - 1).pending_gaps
    <3>1. s.events \in Seq(E) /\ Whole(L, s.events, src)
      BY <1>2, <1>3 DEF s
    <3> QED BY <1>1, <3>1, OpeningIs
  <2> QED BY <2>1 DEF s
<1>7. from - 1 \in 0 .. Len(events)
  BY <1>2, <1>6 DEF CutAt, Whole
<1> HIDE DEF events, opened
<1>8. PICK lo, hi : GapRun(L, events, src, from - 1, lo, hi)
  BY <1>1, <1>2, <1>7, PendingIs
<1>9. lo \in 0 .. hi /\ hi \in Nat /\ opened = [n \in 1 .. hi - lo |-> GapLane(gaps)[lo + n]]
  BY <1>1, <1>6, <1>8 DEF GapRun, Taken
<1>10. lo + 1 .. hi = Unanswered(GapLane(gaps), snaps, t0)
  BY <1>1, <1>2, <1>4, <1>6, <1>8, PendingAt
<1>11. /\ DOMAIN gaps = 1 .. Len(gaps) /\ Len(GapLane(gaps)) = Len(gaps)
       /\ \A i \in 1 .. Len(gaps) : GapLane(gaps)[i].ts = gaps[i].ts
  BY <1>5, GapLaneIs
<1>12. Unanswered(GapLane(gaps), snaps, t0)
          = {i \in DOMAIN gaps : gaps[i].ts < t0 /\ ~\E t \in snaps : gaps[i].ts < t /\ t < t0}
  BY <1>11 DEF Unanswered
<1> QED BY <1>9, <1>10, <1>12 DEF opened, s, gaps, snaps

(***************************************************************************)
(* The hole time of the manifest is the time at whose end a range of the   *)
(* stream would open with a gap pending, for a log of any length whose     *)
(* clock never went back and no gap at the microsecond of a snapshot: the  *)
(* holes that coverage cuts out of the span and the gaps that the pre-roll *)
(* of RangeIter leaves pending are the same.                               *)
(***************************************************************************)
THEOREM OfflineHoleIsSuspectTime == OfflineSpec => []HoleIsSuspectTime
<1> DEFINE I == SoundInv /\ TablesInv
<1>1. OfflineInit => I
  BY SoundInit, TablesInit
<1>2. I /\ [OfflineNext]_<<vars, stream>> => I'
  BY SoundStep, TablesStep
<1>3. I => HoleIsSuspectTime
  <2> DEFINE suspect == {t \in SpanStart .. SpanEnd - 1 : Between(stream, t + 1, t + 2).gaps # <<>>}
             holes == UNION {Hole(gap) : gap \in ToSet(gap_rows)}
  <2> SUFFICES ASSUME SoundInv, TablesInv, Read, Monotone, \A g \in ToSet(gap_rows) : g.ts \notin snap_ts
               PROVE  holes = suspect
    BY DEF HoleIsSuspectTime, HoleUs
  <2>1. stream.ok /\ log # <<>>
    BY ReadsToEnd, ReadIs
  <2>2. SpanStart \in Int /\ SpanEnd \in Int
    BY <2>1, SpanIs
  <2>3. snap_ts \in SUBSET Int /\ IsFiniteSet(snap_ts)
    BY SnapsAre
  <2>4. /\ gap_rows \in Seq(GapRow) /\ Len(gap_rows) \in Nat /\ DOMAIN gap_rows = 1 .. Len(gap_rows)
        /\ \A i \in 1 .. Len(gap_rows) : gap_rows[i].ts \in Int
    BY GapLaneIs DEF TablesInv
  <2>5. \A g : g \in ToSet(gap_rows) <=> \E i \in 1 .. Len(gap_rows) : g = gap_rows[i]
    BY <2>4 DEF ToSet
  <2>6. ASSUME NEW i \in 1 .. Len(gap_rows), NEW t \in Int
        PROVE  t \in Hole(gap_rows[i]) <=>
                  /\ t \in SpanStart .. SpanEnd - 1
                  /\ gap_rows[i].ts < t + 1 /\ ~\E u \in snap_ts : gap_rows[i].ts < u /\ u < t + 1
    <3> DEFINE g == gap_rows[i].ts
               after == {u \in snap_ts : u >= g}
               close == IF after = {} THEN SpanEnd ELSE Min(after)
               a == Max({g, SpanStart})
               b == Min({close, SpanEnd})
    <3>1. Hole(gap_rows[i]) = a .. b - 1
      BY DEF Hole
    <3>2. g \in Int /\ g \notin snap_ts
      BY <2>4, <2>5
    <3>3. \A u \in snap_ts : u \in Int /\ (u \in after <=> g < u)
      BY <2>3, <3>2
    <3>4. after \in SUBSET Int /\ IsFiniteSet(after) /\ after \subseteq snap_ts
      BY <2>3, FS_Subset
    <3> HIDE DEF after, g
    <3>5. close \in Int /\ (t < SpanEnd => (t < close <=> ~\E u \in snap_ts : g < u /\ u < t + 1))
      <4>1. CASE after = {}
        <5>1. close = SpanEnd /\ \A u \in snap_ts : ~(g < u)
          BY <3>3, <4>1
        <5> QED BY <2>2, <5>1
      <4>2. CASE after # {}
        <5>1. close = Min(after)
          BY <4>2
        <5>2. close \in after /\ \A u \in after : close <= u
          BY <3>4, <4>2, <5>1, LeastTime
        <5>3. close \in Int /\ close \in snap_ts /\ g < close
          BY <3>3, <3>4, <5>2
        <5> HIDE DEF close
        <5>4. ASSUME t < close, NEW u \in snap_ts, g < u, u < t + 1 PROVE FALSE
          <6>1. close <= u /\ u \in Int
            BY <3>3, <5>2, <5>4
          <6> QED BY <5>3, <5>4, <6>1
        <5>5. ASSUME ~(t < close) PROVE \E u \in snap_ts : g < u /\ u < t + 1
          BY <5>3, <5>5
        <5> QED BY <5>3, <5>4, <5>5
      <4> QED BY <4>1, <4>2
    <3> HIDE DEF close
    <3>6. a \in {g, SpanStart} /\ a >= g /\ a >= SpanStart
      BY <2>2, <3>2, MaxOfTimes
    <3>7. b \in {close, SpanEnd} /\ b <= close /\ b <= SpanEnd
      BY <2>2, <3>5, MinOfTimes
    <3> HIDE DEF a, b
    <3>8. a \in Int /\ b \in Int
      BY <2>2, <3>2, <3>5, <3>6, <3>7
    <3>9. t \in a .. b - 1 <=> t >= g /\ t >= SpanStart /\ t < close /\ t < SpanEnd
      BY <2>2, <3>2, <3>5, <3>6, <3>7, <3>8
    <3>10. t \in SpanStart .. SpanEnd - 1 <=> t >= SpanStart /\ t < SpanEnd
      BY <2>2
    <3>11. t >= g <=> g < t + 1
      BY <3>2
    <3>12. t \in a .. b - 1 <=> /\ t \in SpanStart .. SpanEnd - 1
                               /\ g < t + 1 /\ ~\E u \in snap_ts : g < u /\ u < t + 1
      BY <3>5, <3>9, <3>10, <3>11
    <3> QED BY <3>1, <3>12 DEF g
  <2>7. ASSUME NEW t \in SpanStart .. SpanEnd - 1
        PROVE  Between(stream, t + 1, t + 2).gaps # <<>> <=>
                  \E i \in 1 .. Len(gap_rows) :
                     /\ gap_rows[i].ts < t + 1
                     /\ ~\E u \in snap_ts : gap_rows[i].ts < u /\ u < t + 1
    <3> DEFINE S == {i \in DOMAIN gap_rows :
                       /\ gap_rows[i].ts < t + 1
                       /\ ~\E u \in snap_ts : gap_rows[i].ts < u /\ u < t + 1}
               opened == Between(stream, t + 1, t + 2).gaps
    <3>1. t + 1 \in Int /\ t + 2 \in Int
      BY <2>2
    <3>2. PICK lo, hi : /\ lo \in 0 .. hi /\ hi \in Nat /\ lo + 1 .. hi = S
                        /\ opened = [n \in 1 .. hi - lo |-> GapLane(gap_rows)[lo + n]]
      <4> DEFINE t0 == t + 1
                 t1 == t + 2
      <4>1. t0 \in Int /\ t1 \in Int
        BY <3>1
      <4> HIDE DEF t0, t1
      <4>2. \E lo, hi :
              /\ lo \in 0 .. hi /\ hi \in Nat
              /\ Between(stream, t0, t1).gaps = [n \in 1 .. hi - lo |-> GapLane(gap_rows)[lo + n]]
              /\ lo + 1 .. hi = {i \in DOMAIN gap_rows :
                                   /\ gap_rows[i].ts < t0
                                   /\ ~\E u \in snap_ts : gap_rows[i].ts < u /\ u < t0}
        BY <2>1, <4>1, GapsAt
      <4> QED BY <4>2 DEF t0, t1
    <3>3. opened # <<>> <=> S # {}
      <4> HIDE DEF opened, S
      <4>1. CASE hi = lo
        <5>1. 1 .. hi - lo = {} /\ lo + 1 .. hi = {}
          BY <3>2, <4>1
        <5> QED BY <3>2, <5>1
      <4>2. CASE hi # lo
        <5>1. 1 \in 1 .. hi - lo /\ lo + 1 \in lo + 1 .. hi
          BY <3>2, <4>2
        <5>2. DOMAIN opened = 1 .. hi - lo
          BY <3>2
        <5>3. DOMAIN <<>> = {}
          OBVIOUS
        <5> QED BY <3>2, <5>1, <5>2, <5>3
      <4> QED BY <4>1, <4>2
    <3> QED BY <2>4, <3>3
  <2>8. ASSUME NEW t PROVE t \in holes <=> t \in suspect
    <3>1. ASSUME t \in holes PROVE t \in suspect
      <4>1. PICK i \in 1 .. Len(gap_rows) : t \in Hole(gap_rows[i])
        BY <2>5, <3>1
      <4>2. t \in Int
        BY <4>1 DEF Hole
      <4>3. /\ t \in SpanStart .. SpanEnd - 1
            /\ gap_rows[i].ts < t + 1 /\ ~\E u \in snap_ts : gap_rows[i].ts < u /\ u < t + 1
        BY <2>6, <4>1, <4>2
      <4> QED BY <2>7, <4>3
    <3>2. ASSUME t \in suspect PROVE t \in holes
      <4>1. t \in SpanStart .. SpanEnd - 1 /\ Between(stream, t + 1, t + 2).gaps # <<>>
        BY <3>2
      <4>2. PICK i \in 1 .. Len(gap_rows) :
                /\ gap_rows[i].ts < t + 1
                /\ ~\E u \in snap_ts : gap_rows[i].ts < u /\ u < t + 1
        BY <2>7, <4>1
      <4>3. t \in Hole(gap_rows[i])
        BY <2>6, <4>1, <4>2
      <4> QED BY <2>5, <4>3
    <3> QED BY <3>1, <3>2
  <2> QED BY <2>8
<1> QED BY <1>1, <1>2, <1>3, PTL DEF OfflineSpec

---------------------------------------------------------------------------
(* The events of a range, lane by lane.                                    *)

\* The events of a lane, or the lines of a log or rows of a table, from a to b.
InTime(lane, a, b) == {k \in 1 .. Len(lane) : a <= lane[k].ts /\ lane[k].ts < b}
LinesIn(l, a, b) == {i \in Books(l) : a <= l[i].ts /\ l[i].ts < b}
PrintsIn(rows, a, b) == {i \in DOMAIN rows : a <= rows[i].recv /\ rows[i].recv < b}

\* The events of a range that are from lane l.
OfLane(src, from, upto, l) == {n \in 1 .. upto - from : src[from + n - 1].lane = l}

\* A range has as many events of a lane as the lane has in its time.
LEMMA CountOfLane ==
    ASSUME NEW L, LaneKeys(L), LaneKinds(L), NEW events, NEW src, Whole(L, events, src),
           NEW t0 \in Int, NEW t1 \in Int, NEW from, NEW upto,
           CutAt(events, t0, from), CutAt(events, t1, upto), from <= upto, NEW l \in 1 .. 3
    PROVE  Cardinality(OfLane(src, from, upto, l)) = Cardinality(InTime(L[l], t0, t1))
<1> DEFINE N == Len(events)
           A == {n \in 1 .. upto - from : src[from + n - 1].lane = l}
           B == {k \in 1 .. Len(L[l]) : t0 <= L[l][k].ts /\ L[l][k].ts < t1}
           f == [n \in A |-> src[from + n - 1].at]
<1>0. N \in Nat /\ from \in 1 .. N + 1 /\ upto \in 1 .. N + 1 /\ Len(L[l]) \in Nat
  BY DEF Whole, CutAt, LaneKeys
<1>1. \A j \in 1 .. N : /\ events[j] = L[src[j].lane][src[j].at]
                        /\ src[j].at \in 1 .. Len(L[src[j].lane]) /\ events[j].ts \in Int
  BY SourceIs
<1>2. \A k \in 1 .. Len(L[l]) : \E j \in 1 .. N : src[j].lane = l /\ src[j].at = k
  BY DEF Whole, Drawn, Lengths
<1>3. \A j \in 1 .. N : /\ j < from <=> events[j].ts < t0
                        /\ j < upto <=> events[j].ts < t1
  BY <1>0, <1>1 DEF CutAt
<1>4. \A a, b \in 1 .. N : a < b /\ src[a].lane = src[b].lane => src[a].at < src[b].at
  BY DEF Whole, Drawn
<1>5. ASSUME NEW n \in A PROVE f[n] \in B /\ from + n - 1 \in 1 .. N /\ src[from + n - 1].lane = l /\ n \in Nat
  <2> DEFINE j == from + n - 1
  <2>1. j \in 1 .. N /\ from <= j /\ j < upto /\ src[j].lane = l /\ n \in Nat
    BY <1>0
  <2> HIDE DEF j
  <2>2. src[j].at \in 1 .. Len(L[l]) /\ events[j] = L[l][src[j].at] /\ events[j].ts \in Int
    BY <1>1, <2>1
  <2>3. t0 <= events[j].ts /\ events[j].ts < t1
    <3>1. ~(j < from)
      BY <1>0, <2>1
    <3> QED BY <1>3, <2>1, <2>2, <3>1, SMTT(60)
  <2>4. src[j].at \in B
    BY <2>2, <2>3
  <2>5. f[n] = src[j].at
    BY DEF j
  <2> QED BY <2>1, <2>4, <2>5 DEF j
<1>6. ASSUME NEW m \in A, NEW n \in A, f[m] = f[n] PROVE m = n
  <2> DEFINE a == from + m - 1
             b == from + n - 1
  <2>1. a \in 1 .. N /\ b \in 1 .. N /\ src[a].lane = src[b].lane /\ m \in Nat /\ n \in Nat
    BY <1>5
  <2>2. src[a].at = src[b].at /\ src[a].at \in Nat
    BY <1>1, <1>6, <2>1
  <2>3. ~(a < b) /\ ~(b < a)
    <3> HIDE DEF a, b
    <3> QED BY <1>4, <2>1, <2>2
  <2> QED BY <1>0, <2>1, <2>3
<1>7. ASSUME NEW k \in B PROVE \E n \in A : f[n] = k
  <2>1. PICK j \in 1 .. N : src[j].lane = l /\ src[j].at = k
    BY <1>2
  <2>2. events[j] = L[l][k]
    BY <1>1, <2>1
  <2>3. ~(j < from) /\ j < upto
    <3>1. events[j].ts \in Int /\ t0 <= events[j].ts /\ events[j].ts < t1
      BY <1>1, <2>2
    <3> QED BY <1>3, <3>1
  <2> DEFINE n == j - from + 1
  <2>4. n \in 1 .. upto - from /\ from + n - 1 = j
    BY <1>0, <2>3
  <2>5. n \in A
    BY <2>1, <2>4
  <2> QED BY <2>1, <2>4, <2>5
<1>8. IsFiniteSet(A)
  <2>1. A \subseteq 1 .. upto - from /\ upto - from \in Nat
    BY <1>0
  <2> DEFINE w == upto - from
  <2>2. A \subseteq 1 .. w /\ w \in Int
    BY <2>1
  <2> HIDE DEF A, w
  <2>3. IsFiniteSet(1 .. w)
    BY <2>2, 1 \in Int, FS_Interval
  <2> QED BY <2>2, <2>3, FS_Subset
<1>9. f \in Bijection(A, B)
  <2>1. f \in [A -> B]
    BY <1>5
  <2> HIDE DEF f, A, B
  <2> QED BY <1>6, <1>7, <2>1 DEF Bijection, Injection, Surjection, IsInjective
<1> HIDE DEF f, A, B
<1>10. ExistsBijection(A, B)
  BY <1>9 DEF ExistsBijection
<1>11. Cardinality(B) = Cardinality(A)
  BY <1>8, <1>10, FS_Bijection
<1> QED BY <1>11 DEF A, B, OfLane, InTime

\* The one trade of the log is one event, at the time it was received.
LEMMA TradeOfLane ==
    ASSUME NEW rows, TradesOf(rows), NEW a \in Int, NEW b \in Int
    PROVE  InTime(TradeLane(rows), a, b) = PrintsIn(rows, a, b)
<1> DEFINE lane == TradeLane(rows)
<1>1. Table(rows)
  BY TradesAre
<1>2. /\ Len(lane) \in Nat /\ lane = [n \in 1 .. Len(lane) |-> lane[n]]
      /\ \A n \in 1 .. Len(lane) : lane[n].ts = lane[n].key[1]
  BY <1>1, TradeLaneSorted
<1>3. /\ ToSet(lane) = {TradeEventAt(rows, i) : i \in DOMAIN rows}
      /\ \A i, j \in DOMAIN lane : lane[i].id = lane[j].id => i = j
  BY <1>1, TradeLaneIs
<1> HIDE DEF lane
<1>4. DOMAIN lane = 1 .. Len(lane)
  BY <1>2
<1>5. ToSet(lane) = {lane[n] : n \in 1 .. Len(lane)}
  BY <1>4 DEF ToSet
<1>6. CASE rows = <<>>
  <2>1. DOMAIN rows = {}
    BY <1>6
  <2>2. 1 .. Len(lane) = {}
    BY <1>3, <1>5, <2>1
  <2> QED BY <2>1, <2>2 DEF lane, InTime, PrintsIn
<1>7. CASE rows # <<>>
  <2>1. PICK ts \in Int : rows = <<[id |-> 1, recv |-> ts, event |-> ts, seq |-> 1, row |-> 0,
                                    source |-> "live"]>>
    BY <1>7 DEF TradesOf
  <2>2. DOMAIN rows = {1} /\ rows[1].recv = ts /\ rows[1].seq = 1
    BY <2>1
  <2> DEFINE e == TradeEventAt(rows, 1)
  <2>3. ToSet(lane) = {e}
    BY <1>3, <2>2
  <2>4. e.key[1] = ts
    <3>1. PICK p, f \in Copies(rows, rows[1].id) :
              p \in DOMAIN rows /\ e.key[1] = IF rows[p].seq # 0 THEN rows[p].recv ELSE rows[f].event
      BY <1>1, <2>2, EventIs
    <3>2. p = 1
      BY <2>2, <3>1
    <3> QED BY <2>2, <3>1, <3>2
  <2> HIDE DEF e
  <2>5. \A n \in 1 .. Len(lane) : lane[n] = e
    BY <1>5, <2>3
  <2>6. \E n \in 1 .. Len(lane) : lane[n] = e
    BY <1>5, <2>3
  <2>7. Len(lane) = 1
    <3>1. Len(lane) >= 1
      BY <1>2, <2>6
    <3>2. ~(Len(lane) >= 2)
      <4> SUFFICES ASSUME Len(lane) >= 2 PROVE FALSE
        OBVIOUS
      <4>1. 1 \in 1 .. Len(lane) /\ 2 \in 1 .. Len(lane)
        BY <1>2
      <4>2. lane[1].id = lane[2].id
        BY <2>5, <4>1
      <4>3. 1 = 2
        BY <1>3, <1>4, <4>1, <4>2
      <4> QED BY <4>3
    <3> QED BY <1>2, <3>1, <3>2
  <2>8. 1 .. Len(lane) = {1} /\ lane[1].ts = ts
    BY <1>2, <2>4, <2>5, <2>7
  <2>9. ASSUME NEW k
        PROVE  (k \in 1 .. Len(lane) /\ a <= lane[k].ts /\ lane[k].ts < b)
                  <=> (k \in DOMAIN rows /\ a <= rows[k].recv /\ rows[k].recv < b)
    BY <2>2, <2>8
  <2> QED BY <2>9 DEF lane, InTime, PrintsIn
<1> QED BY <1>6, <1>7

\* The book lines of the log in a time are as many as the events of the lane.
LEMMA LinesOfLane ==
    ASSUME NEW l, NEW lane, NEW line, Lined(l, lane, line), Len(lane) \in Nat,
           Books(l) \subseteq Int, NEW a, NEW b
    PROVE  Cardinality(InTime(lane, a, b)) = Cardinality(LinesIn(l, a, b))
<1> DEFINE A == {k \in 1 .. Len(lane) : a <= lane[k].ts /\ lane[k].ts < b}
           B == {i \in Books(l) : a <= l[i].ts /\ l[i].ts < b}
           f == [k \in A |-> line[k]]
<1>1. /\ \A k \in 1 .. Len(lane) : line[k] \in Books(l) /\ lane[k].ts = l[line[k]].ts
      /\ \A i \in Books(l) : \E k \in 1 .. Len(lane) : line[k] = i
      /\ \A j, k \in 1 .. Len(lane) : j < k => line[j] < line[k]
  BY DEF Lined
<1>2. f \in [A -> B]
  BY <1>1
<1>3. ASSUME NEW j \in A, NEW k \in A, f[j] = f[k] PROVE j = k
  <2>1. j \in 1 .. Len(lane) /\ k \in 1 .. Len(lane) /\ line[j] = line[k]
    BY <1>3
  <2>2. ~(j < k) /\ ~(k < j)
    <3>1. line[j] \in Int /\ line[k] \in Int
      BY <1>1, <2>1
    <3> QED BY <1>1, <2>1, <3>1
  <2> QED BY <2>1, <2>2
<1>4. \A i \in B : \E k \in A : f[k] = i
  BY <1>1
<1>5. IsFiniteSet(A)
  <2>1. A \subseteq 1 .. Len(lane) /\ IsFiniteSet(1 .. Len(lane))
    BY FS_Interval
  <2> HIDE DEF A
  <2> QED BY <2>1, FS_Subset
<1> HIDE DEF f, A, B
<1>6. f \in Bijection(A, B)
  BY <1>2, <1>3, <1>4 DEF Bijection, Injection, Surjection, IsInjective
<1>7. ExistsBijection(A, B)
  BY <1>6 DEF ExistsBijection
<1>8. Cardinality(B) = Cardinality(A)
  BY <1>5, <1>7, FS_Bijection
<1> QED BY <1>8 DEF A, B, InTime, LinesIn

\* An interval in ascending order.
LEMMA AscendingRun ==
    ASSUME NEW lo \in Nat, NEW hi \in Nat, lo <= hi
    PROVE  Ascending(lo + 1 .. hi) = [n \in 1 .. hi - lo |-> lo + n]
<1> DEFINE S == lo + 1 .. hi
           f == Ascending(S)
<1>1. S \in SUBSET Int /\ IsFiniteSet(S) /\ Cardinality(S) = hi - lo
  <2> DEFINE c == lo + 1
  <2>1. c \in Int /\ hi \in Int
    OBVIOUS
  <2>2. IsFiniteSet(c .. hi) /\ Cardinality(c .. hi) = IF c > hi THEN 0 ELSE hi - c + 1
    <3> HIDE DEF c
    <3> QED BY <2>1, FS_Interval
  <2>3. S = c .. hi /\ S \in SUBSET Int
    OBVIOUS
  <2>4. (IF c > hi THEN 0 ELSE hi - c + 1) = hi - lo
    OBVIOUS
  <2> HIDE DEF c, S
  <2> QED BY <2>2, <2>3, <2>4
<1>2. ASSUME NEW x \in S PROVE Under(S, x) = x - lo - 1
  <2> DEFINE c == lo + 1
             d == x - 1
  <2>1. {j \in S : j < x} = c .. d /\ c \in Int /\ d \in Int
    OBVIOUS
  <2>2. (IF c > d THEN 0 ELSE d - c + 1) = x - lo - 1
    OBVIOUS
  <2>3. Cardinality(c .. d) = IF c > d THEN 0 ELSE d - c + 1
    <3> HIDE DEF c, d
    <3> QED BY <2>1, FS_Interval
  <2> HIDE DEF c, d, S
  <2> QED BY <2>1, <2>2, <2>3 DEF Under
<1>3. /\ f \in [1 .. hi - lo -> S]
      /\ \A x \in S : \E n \in 1 .. hi - lo : n = Under(S, x) + 1 /\ f[n] = x
  <2> HIDE DEF S
  <2> QED BY <1>1, AscendingIs
<1>4. ASSUME NEW n \in 1 .. hi - lo PROVE f[n] = lo + n
  <2>1. lo + n \in S
    OBVIOUS
  <2>2. PICK m \in 1 .. hi - lo : m = Under(S, lo + n) + 1 /\ f[m] = lo + n
    BY <1>3, <2>1
  <2>3. Under(S, lo + n) = (lo + n) - lo - 1
    BY <1>2, <2>1
  <2>4. m = n
    BY <2>2, <2>3
  <2> QED BY <2>2, <2>4
<1> HIDE DEF f
<1> QED BY <1>3, <1>4 DEF f

\* The book that a range of the read stream opens with.
LEMMA OpenerIs ==
    ASSUME SoundInv, TablesInv, Read, stream.ok, NEW t0 \in Int, NEW t1 \in Int
    PROVE  Between(stream, t0, t1).opener
              = LET earlier == {i \in BookAt : log[i].ts < t0}
                IN IF earlier = {} THEN NoLevels ELSE log[Max(earlier)].state
<1> DEFINE L == Lane
           events == stream.events
           s == stream
           l == log
           lane == L[2]
           opener == Between(s, t0, t1).opener
           earlier == {i \in Books(l) : l[i].ts < t0}
<1>1. LaneKeys(L) /\ LaneKinds(L) /\ lane = BookLane(book_events)
  BY WholeIs, LanesOfTables
<1>2. PICK src : Whole(L, events, src)
  BY WholeIs
<1>3. PICK E : events \in Seq(E)
  BY ReadIs
<1>4. PICK line : Lined(l, lane, line)
  BY <1>1 DEF TablesInv, BookInv, Tells
<1>5. l \in Seq(Record) /\ Books(l) = BookAt
  BY DEF SoundInv, Typed, Books, BookAt
<1> HIDE DEF L, s, l
<1>6. PICK from : CutAt(events, t0, from) /\ opener = Held(events, from - 1).book.levels
  <2>1. \E from : CutAt(s.events, t0, from)
                 /\ Between(s, t0, t1).opener = Held(s.events, from - 1).book.levels
    <3>1. s.events \in Seq(E) /\ Whole(L, s.events, src)
      BY <1>2, <1>3 DEF s
    <3> QED BY <1>1, <3>1, OpeningIs
  <2> QED BY <2>1 DEF s
<1>7. from - 1 \in 0 .. Len(events)
  BY <1>2, <1>6 DEF CutAt, Whole
<1> HIDE DEF events, opener
<1>8. PICK c : Taken(src, from - 1, 2, c) /\ Held(events, from - 1).book = Held(lane, c).book
  BY <1>1, <1>2, <1>7, BookOfPrefix
<1>9. c \in Nat /\ c <= Len(lane) /\ \A k \in 1 .. Len(lane) : k <= c <=> lane[k].ts < t0
  BY <1>1, <1>2, <1>6, <1>8, 2 \in 1 .. 3, TakenAt
<1>10. Len(lane) \in Nat
  BY <1>1, 2 \in 1 .. 3 DEF LaneKeys
<1>11. Books(l) \subseteq 1 .. Len(l) /\ Len(l) \in Nat
  BY <1>5 DEF Books
<1> HIDE DEF lane
<1>12. /\ \A k \in 1 .. Len(lane) : /\ line[k] \in Books(l) /\ lane[k].ts = l[line[k]].ts
                                    /\ Held(lane, k).book.levels = l[line[k]].state
       /\ \A i \in Books(l) : \E k \in 1 .. Len(lane) : line[k] = i
       /\ \A j, k \in 1 .. Len(lane) : j < k => line[j] < line[k]
  BY <1>4 DEF Lined
<1>13. \A i : i \in earlier <=> \E k \in 1 .. c : line[k] = i
  <2>1. \A k \in 1 .. c : k \in 1 .. Len(lane) /\ line[k] \in earlier
    BY <1>9, <1>10, <1>12
  <2>2. ASSUME NEW i \in earlier PROVE \E k \in 1 .. c : line[k] = i
    <3>1. PICK k \in 1 .. Len(lane) : line[k] = i
      BY <1>12
    <3>2. k \in 1 .. c
      BY <1>9, <1>10, <1>12, <3>1
    <3> QED BY <3>1, <3>2
  <2> HIDE DEF earlier
  <2> QED BY <2>1, <2>2
<1>14. opener = IF earlier = {} THEN NoLevels ELSE l[Max(earlier)].state
  <2>1. CASE c = 0
    <3>1. earlier = {}
      <4> HIDE DEF earlier
      <4> QED BY <1>13, <2>1
    <3>2. Held(lane, 0).book.levels = NoLevels
      BY HeldNone DEF NewReplayer, EmptyBook
    <3> QED BY <1>6, <1>8, <2>1, <3>1, <3>2
  <2>2. CASE c # 0
    <3>1. c \in 1 .. c /\ c \in 1 .. Len(lane)
      BY <1>9, <1>10, <2>2
    <3>2. line[c] \in earlier
      BY <1>13, <3>1
    <3>3. IsFiniteSet(earlier) /\ earlier \in SUBSET Int
      <4>1. earlier \subseteq 1 .. Len(l) /\ IsFiniteSet(1 .. Len(l))
        BY <1>11, FS_Interval
      <4>2. earlier \in SUBSET Int
        BY <1>11
      <4> HIDE DEF earlier
      <4>3. IsFiniteSet(earlier)
        BY <4>1, FS_Subset
      <4> QED BY <4>2, <4>3
    <3> HIDE DEF earlier
    <3>4. Max(earlier) \in earlier /\ \A y \in earlier : y <= Max(earlier)
      BY <3>2, <3>3, MaxIsGreatest
    <3>5. Max(earlier) = line[c]
      <4>1. PICK k \in 1 .. c : line[k] = Max(earlier)
        BY <1>13, <3>4
      <4>2. line[c] <= line[k] /\ line[c] \in Int /\ line[k] \in Int
        BY <3>2, <3>3, <3>4, <4>1
      <4>3. k < c => line[k] < line[c]
        BY <1>9, <1>10, <1>12, <3>1, <4>1
      <4>4. k = c
        BY <1>9, <4>2, <4>3
      <4> QED BY <4>1, <4>4
    <3>6. Held(lane, c).book.levels = l[line[c]].state
      BY <1>12, <3>1
    <3> QED BY <1>6, <1>8, <3>2, <3>5, <3>6
  <2> QED BY <2>1, <2>2
<1> QED BY <1>5, <1>14 DEF opener, s, l

\* The leading gaps of a range, by their times.
LEMMA LeadingGaps ==
    ASSUME TablesInv, Read, stream.ok, NEW t0 \in Int, NEW t1 \in Int
    PROVE  LET gaps == Between(stream, t0, t1).gaps
               pending == Ascending({i \in DOMAIN gap_rows :
                              /\ gap_rows[i].ts < t0
                              /\ ~\E t \in snap_ts : gap_rows[i].ts < t /\ t < t0})
           IN [n \in DOMAIN gaps |-> gaps[n].ts] = [n \in DOMAIN pending |-> gap_rows[pending[n]].ts]
<1> DEFINE gaps == Between(stream, t0, t1).gaps
           S == {i \in DOMAIN gap_rows :
                    /\ gap_rows[i].ts < t0
                    /\ ~\E t \in snap_ts : gap_rows[i].ts < t /\ t < t0}
           pending == Ascending(S)
<1>1. PICK lo, hi : /\ lo \in 0 .. hi /\ hi \in Nat
                    /\ gaps = [n \in 1 .. hi - lo |-> GapLane(gap_rows)[lo + n]]
                    /\ lo + 1 .. hi = S
  BY GapsAt
<1>2. S \subseteq 1 .. Len(gap_rows) /\ \A i \in 1 .. Len(gap_rows) : GapLane(gap_rows)[i].ts = gap_rows[i].ts
  BY GapLaneIs DEF TablesInv
<1> HIDE DEF S, gaps
<1>3. lo \in Nat /\ lo <= hi
  BY <1>1
<1>4. pending = [n \in 1 .. hi - lo |-> lo + n]
  BY <1>1, <1>3, AscendingRun
<1> HIDE DEF pending
<1>5. DOMAIN gaps = 1 .. hi - lo /\ DOMAIN pending = 1 .. hi - lo
  BY <1>1, <1>4
<1>6. ASSUME NEW n \in 1 .. hi - lo PROVE gaps[n].ts = gap_rows[pending[n]].ts
  <2>1. lo + n \in S
    BY <1>1, <1>3
  <2>2. gaps[n] = GapLane(gap_rows)[lo + n] /\ pending[n] = lo + n
    BY <1>1, <1>4
  <2> QED BY <1>2, <2>1, <2>2
<1>7. [n \in DOMAIN gaps |-> gaps[n].ts] = [n \in DOMAIN pending |-> gap_rows[pending[n]].ts]
  BY <1>5, <1>6
<1> QED BY <1>7 DEF gaps, pending, S

\* The events of a range: each in its time, and of each kind as many as the
\* tables and the log have.
LEMMA RangeCounts ==
    ASSUME SoundInv, TablesInv, Read, stream.ok, NEW t0 \in Int, NEW t1 \in Int, t0 < t1
    PROVE  LET range == Between(stream, t0, t1)
               count(kinds) == Cardinality({i \in DOMAIN range.events : range.events[i].kind \in kinds})
               within(t) == t0 <= t /\ t < t1
           IN /\ range.ok
              /\ \A e \in ToSet(range.events) : within(e.ts)
              /\ count({"gap"}) = Cardinality({i \in DOMAIN gap_rows : within(gap_rows[i].ts)})
              /\ count({"snapshot", "delta"}) = Cardinality({i \in BookAt : within(log[i].ts)})
              /\ count({"trade"}) = Cardinality({i \in DOMAIN trades : within(trades[i].recv)})
<1> DEFINE L == Lane
           s == stream
           events == s.events
           range == Between(s, t0, t1).events
           within(t) == t0 <= t /\ t < t1
<1>1. LaneKeys(L) /\ LaneKinds(L)
  BY WholeIs
<1>2. PICK src : Whole(L, s.events, src)
  BY WholeIs
<1>3. PICK E : s.events \in Seq(E)
  BY ReadIs
<1>4. /\ L[1] = GapLane(gap_rows) /\ L[2] = BookLane(book_events) /\ L[3] = TradeLane(trades)
  BY LanesOfTables
<1>5. s.ok
  OBVIOUS
<1> HIDE DEF L, s
<1>6. /\ Between(s, t0, t1).ok
      /\ \E from, upto : Spans(Between(s, t0, t1).events, s.events, t0, t1, from, upto)
  BY <1>1, <1>2, <1>3, <1>5, RangeIs
<1>7. PICK from, upto : /\ CutAt(events, t0, from) /\ CutAt(events, t1, upto) /\ from <= upto
                        /\ DOMAIN range = 1 .. upto - from
                        /\ \A k \in 1 .. upto - from : range[k] = events[from + k - 1]
  BY <1>6 DEF Spans
<1>8. Whole(L, events, src)
  BY <1>2
<1> HIDE DEF events, range
<1>9. Len(events) \in Nat /\ from \in 1 .. Len(events) + 1 /\ upto \in 1 .. Len(events) + 1
  BY <1>7, <1>8 DEF CutAt, Whole
<1>10. ASSUME NEW n \in 1 .. upto - from
       PROVE  LET j == from + n - 1
              IN /\ range[n] = events[j] /\ j \in 1 .. Len(events) /\ from <= j /\ j < upto
                 /\ events[j].ts \in Int
                 /\ events[j].kind = "gap" <=> src[j].lane = 1
                 /\ events[j].kind \in {"snapshot", "delta"} <=> src[j].lane = 2
                 /\ events[j].kind = "trade" <=> src[j].lane = 3
  <2> DEFINE j == from + n - 1
  <2>1. range[n] = events[j] /\ j \in 1 .. Len(events) /\ from <= j /\ j < upto
    BY <1>7, <1>9
  <2> HIDE DEF j
  <2>2. /\ events[j].ts \in Int
        /\ events[j].kind = "gap" <=> src[j].lane = 1
        /\ events[j].kind \in {"snapshot", "delta"} <=> src[j].lane = 2
        /\ events[j].kind = "trade" <=> src[j].lane = 3
    BY <1>1, <1>8, <2>1, SourceIs
  <2> QED BY <2>1, <2>2 DEF j
<1>11. \A e \in ToSet(range) : within(e.ts)
  <2>1. ToSet(range) = {range[n] : n \in 1 .. upto - from}
    BY <1>7 DEF ToSet
  <2>2. ASSUME NEW n \in 1 .. upto - from PROVE within(range[n].ts)
    <3> DEFINE j == from + n - 1
    <3>1. range[n] = events[j] /\ j \in 1 .. Len(events) /\ from <= j /\ j < upto
      BY <1>10
    <3> HIDE DEF j
    <3>2. j \in from .. Len(events) /\ j \in 1 .. upto - 1
      BY <1>9, <3>1
    <3>3. t0 <= events[j].ts /\ events[j].ts < t1
      <4>1. events[j].ts >= t0 /\ events[j].ts < t1
        BY <1>7, <3>2 DEF CutAt
      <4> QED BY <4>1
    <3> QED BY <3>1, <3>3
  <2> QED BY <2>1, <2>2
<1> DEFINE of(l) == OfLane(src, from, upto, l)
           in(l) == InTime(L[l], t0, t1)
           kind(K) == {i \in DOMAIN range : range[i].kind \in K}
<1>12. ASSUME NEW l \in 1 .. 3 PROVE Cardinality(of(l)) = Cardinality(in(l))
  BY <1>1, <1>7, <1>8, CountOfLane
<1>13. kind({"gap"}) = of(1) /\ kind({"snapshot", "delta"}) = of(2) /\ kind({"trade"}) = of(3)
  <2>1. kind({"gap"}) = of(1)
    BY <1>7, <1>10 DEF OfLane
  <2>2. kind({"snapshot", "delta"}) = of(2)
    BY <1>7, <1>10 DEF OfLane
  <2>3. kind({"trade"}) = of(3)
    BY <1>7, <1>10 DEF OfLane
  <2> QED BY <2>1, <2>2, <2>3
<1>14. /\ Cardinality(kind({"gap"})) = Cardinality(in(1))
       /\ Cardinality(kind({"snapshot", "delta"})) = Cardinality(in(2))
       /\ Cardinality(kind({"trade"})) = Cardinality(in(3))
  <2>1. 1 \in 1 .. 3 /\ 2 \in 1 .. 3 /\ 3 \in 1 .. 3
    OBVIOUS
  <2> HIDE DEF of, in, kind
  <2> QED BY <1>12, <1>13, <2>1
<1>15. in(1) = {i \in DOMAIN gap_rows : within(gap_rows[i].ts)}
  <2>1. /\ DOMAIN gap_rows = 1 .. Len(gap_rows) /\ Len(GapLane(gap_rows)) = Len(gap_rows)
        /\ \A i \in 1 .. Len(gap_rows) : GapLane(gap_rows)[i].ts = gap_rows[i].ts
    BY GapLaneIs DEF TablesInv
  <2> QED BY <1>4, <2>1 DEF InTime
<1>16. Cardinality(in(2)) = Cardinality({i \in BookAt : within(log[i].ts)})
  <2> DEFINE l == log
             lane == L[2]
  <2>1. PICK line : Lined(l, lane, line)
    BY <1>4 DEF TablesInv, BookInv, Tells
  <2>2. l \in Seq(Record) /\ Books(l) = BookAt
    BY DEF SoundInv, Typed, Books, BookAt
  <2>3. Books(l) \subseteq Int
    BY <2>2 DEF Books
  <2>4. Len(lane) \in Nat
    BY <1>1, 2 \in 1 .. 3 DEF LaneKeys
  <2>5. LinesIn(l, t0, t1) = {i \in BookAt : within(l[i].ts)}
    BY <2>2 DEF LinesIn
  <2> HIDE DEF l, lane
  <2>6. Cardinality(InTime(lane, t0, t1)) = Cardinality(LinesIn(l, t0, t1))
    BY <2>1, <2>3, <2>4, LinesOfLane
  <2> QED BY <2>5, <2>6 DEF l, lane
<1>17. in(3) = {i \in DOMAIN trades : within(trades[i].recv)}
  <2>1. InTime(TradeLane(trades), t0, t1) = PrintsIn(trades, t0, t1)
    BY TradeOfLane DEF TablesInv
  <2> QED BY <1>4, <2>1 DEF PrintsIn
<1>18. /\ Cardinality(kind({"gap"})) = Cardinality({i \in DOMAIN gap_rows : within(gap_rows[i].ts)})
       /\ Cardinality(kind({"snapshot", "delta"})) = Cardinality({i \in BookAt : within(log[i].ts)})
       /\ Cardinality(kind({"trade"})) = Cardinality({i \in DOMAIN trades : within(trades[i].recv)})
  <2> HIDE DEF in, kind
  <2> QED BY <1>14, <1>15, <1>16, <1>17
<1> QED BY <1>6, <1>11, <1>18 DEF range, s

(***************************************************************************)
(* Every range of a stream that reads to its end is exact, for a log of    *)
(* any length and any bounds: it opens with the book that the records      *)
(* before t0 leave and the gaps that no later snapshot before t0 answers,  *)
(* and gives the events of [t0, t1), none lost and none twice.             *)
(***************************************************************************)
THEOREM OfflineRangeIsExact == OfflineSpec => []RangeIsExact
<1> DEFINE I == SoundInv /\ TablesInv
<1>1. OfflineInit => I
  BY SoundInit, TablesInit
<1>2. I /\ [OfflineNext]_<<vars, stream>> => I'
  BY SoundStep, TablesStep
<1>3. I => RangeIsExact
  <2> SUFFICES ASSUME SoundInv, TablesInv, Read, stream.ok PROVE RangeIsExact
    BY DEF RangeIsExact
  <2> DEFINE times == {e.ts : e \in ToSet(stream.events)} \cup {SpanEnd + 1}
  <2>1. times \subseteq Int
    <3>1. SpanEnd \in Int
      BY ReadIs, SpanIs
    <3>2. ASSUME NEW e \in ToSet(stream.events) PROVE e.ts \in Int
      <4> DEFINE L == Lane
                 events == stream.events
      <4>1. LaneKeys(L) /\ LaneKinds(L) /\ \E src : Whole(L, events, src)
        BY WholeIs
      <4>2. PICK E : events \in Seq(E)
        BY ReadIs
      <4>3. PICK i \in 1 .. Len(events) : e = events[i]
        BY <3>2, <4>2 DEF ToSet
      <4> HIDE DEF L, events
      <4> QED BY <4>1, <4>3, SourceIs
    <3> QED BY <3>1, <3>2
  <2>2. ASSUME NEW t0 \in Int, NEW t1 \in Int, t0 < t1
        PROVE  LET range == Between(stream, t0, t1)
                   earlier == {i \in BookAt : log[i].ts < t0}
                   pending == Ascending({i \in DOMAIN gap_rows :
                                 /\ gap_rows[i].ts < t0
                                 /\ ~\E t \in snap_ts : gap_rows[i].ts < t /\ t < t0})
                   count(kinds) == Cardinality({i \in DOMAIN range.events : range.events[i].kind \in kinds})
                   within(t) == t0 <= t /\ t < t1
               IN /\ range.ok
                  /\ range.opener = IF earlier = {} THEN NoLevels ELSE log[Max(earlier)].state
                  /\ [n \in DOMAIN range.gaps |-> range.gaps[n].ts]
                        = [n \in DOMAIN pending |-> gap_rows[pending[n]].ts]
                  /\ \A e \in ToSet(range.events) : within(e.ts)
                  /\ count({"gap"}) = Cardinality({i \in DOMAIN gap_rows : within(gap_rows[i].ts)})
                  /\ count({"snapshot", "delta"}) = Cardinality({i \in BookAt : within(log[i].ts)})
                  /\ count({"trade"}) = Cardinality({i \in DOMAIN trades : within(trades[i].recv)})
    BY <2>2, OpenerIs, LeadingGaps, RangeCounts
  <2> HIDE DEF times
  <2> QED BY <2>1, <2>2 DEF RangeIsExact, times
<1> QED BY <1>1, <1>2, <1>3, PTL DEF OfflineSpec
=============================================================================
