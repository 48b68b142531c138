----------------------------- MODULE Po3Proofs ------------------------------
(***************************************************************************)
(* The machines that turn bars into setups, for every set of bars, every   *)
(* mode, every history and every bound.                                    *)
(***************************************************************************)
EXTENDS Po3, FiniteSetTheorems, WellFoundedInduction, TLAPS

PhaseNames == {"idle", "manipulation", "waiting", "distribution"}
Sides == {1, -1, 0}

RowType == [low : Int, high : Int, close : Int, known : [Dirs -> SUBSET Int],
        sweep : [Dirs -> SUBSET Int], higher : SUBSET Higher,
        live : [Dirs -> BOOLEAN], retest : [Dirs -> BOOLEAN],
        phase : PhaseNames, dir : Sides, after : BOOLEAN]

GapRecord == [at : Int, low : Int, high : Int]
ZoneRecord == [start : Nat, low : Int, high : Int, left : BOOLEAN, dead : BOOLEAN]
Reference == [dir : Dirs, tf : Nat, level : Int, at : Nat]
Setup == [phase : PhaseNames \ {"idle"}, dir : Dirs, at : Nat, ref : Int, high : Int,
          low : Int, zone : SUBSET GapRecord, since : Nat,
          extreme : SUBSET Int, arm : {"off", "pending", "armed"}]

LogType == /\ log \in Seq(RowType)
           /\ \A k \in 1 .. Len(log) : log[k].low <= log[k].high

(* Types.                                                                  *)
TypeInv ==
    /\ variant \in Variants
    /\ LogType
    /\ swing \in [side : Sides, level : [Dirs -> SUBSET Int]]
    /\ refs \in SUBSET Reference
    /\ gaps \in [Dirs -> SUBSET GapRecord]
    /\ zone \in [Dirs -> SUBSET ZoneRecord]
    /\ setup \in {NoSetup} \cup Setup
    /\ setup # NoSetup => \A x, y \in setup.extreme : x = y
    /\ news \in 0 .. MaxNews

-----------------------------------------------------------------------------
(* Extremes of sets of integers *)

LEMMA TwoMax == ASSUME NEW x \in Int, NEW y \in Int
                PROVE  Max({x, y}) = IF x >= y THEN x ELSE y
BY DEF Max

LEMMA TwoMin == ASSUME NEW x \in Int, NEW y \in Int
                PROVE  Min({x, y}) = IF x <= y THEN x ELSE y
BY DEF Min

(* A set of integers has at most one largest and one smallest element.     *)
LEMMA MaxIs == ASSUME NEW S \in SUBSET Int, NEW x \in S, \A y \in S : x >= y
               PROVE  Max(S) = x
<1>1. PICK m : m = Max(S)
  OBVIOUS
<1>2. m \in S /\ \A y \in S : m >= y
  BY <1>1 DEF Max
<1>3. m \in Int /\ x \in Int /\ m >= x /\ x >= m
  BY <1>2
<1>4. m = x
  BY <1>3
<1> QED BY <1>1, <1>4

LEMMA MinIs == ASSUME NEW S \in SUBSET Int, NEW x \in S, \A y \in S : x <= y
               PROVE  Min(S) = x
<1>1. PICK m : m = Min(S)
  OBVIOUS
<1>2. m \in S /\ \A y \in S : m <= y
  BY <1>1 DEF Min
<1>3. m \in Int /\ x \in Int /\ m <= x /\ x <= m
  BY <1>2
<1>4. m = x
  BY <1>3
<1> QED BY <1>1, <1>4

Below == {ss \in Nat \X Nat : ss[1] < ss[2]}

LEMMA NatLeast == ASSUME NEW S \in SUBSET Nat, S # {}
                  PROVE  \E x \in S : \A y \in S : x <= y
<1>1. Below = OpToRel(<, Nat)
  BY Zenon DEF Below, OpToRel
<1>2. IsWellFoundedOn(Below, Nat)
  BY <1>1, NatLessThanWellFounded, Zenon
<1>3. PICK x \in S : \A y \in S : ~(<<y, x>> \in Below)
  <2>1. \A R : IsWellFoundedOn(R, Nat) => \E m \in S : \A y \in S : ~(<<y, m>> \in R)
    BY WFMin
  <2> QED BY <1>2, <2>1
<1>4. ASSUME NEW y \in S PROVE x <= y
  <2>1. x \in Nat /\ y \in Nat
    OBVIOUS
  <2>2. y < x => <<y, x>> \in Below
    BY <2>1 DEF Below
  <2>3. <<y, x>> \notin Below
    BY <1>3
  <2> QED BY <2>1, <2>2, <2>3
<1> QED BY <1>4

(* The last and the first of a set of bars.                                *)
LEMMA LastOf ==
    ASSUME NEW t \in Nat, NEW ks \in SUBSET (1 .. t)
    PROVE  /\ Last(ks) \in 0 .. t
           /\ Last(ks) = 0 <=> ks = {}
           /\ ks # {} => Last(ks) \in ks
           /\ \A k \in ks : k <= Last(ks)
<1>1. CASE ks = {}
  BY <1>1 DEF Last
<1>2. CASE ks # {}
  <2> DEFINE rest == {t - k : k \in ks}
  <2>1. PICK x \in rest : \A y \in rest : x <= y
    <3>1. rest \in SUBSET Nat
      <4>1. \A k \in ks : t - k \in Nat
        OBVIOUS
      <4> QED BY <4>1
    <3>2. rest # {}
      <4>1. PICK k : k \in ks
        BY <1>2
      <4>2. t - k \in rest
        BY <4>1
      <4> QED BY <4>2
    <3> HIDE DEF rest
    <3> QED BY <3>1, <3>2, NatLeast
  <2>2. PICK k \in ks : x = t - k
    BY <2>1
  <2>3. ASSUME NEW j \in ks PROVE k >= j
    <3>1. t - j \in rest
      OBVIOUS
    <3> QED BY <2>1, <2>2, <3>1
  <2>4. ks \in SUBSET Int
    OBVIOUS
  <2>5. Max(ks) = k
    BY <2>3, <2>4, MaxIs
  <2> QED BY <1>2, <2>3, <2>5 DEF Last
<1> QED BY <1>1, <1>2

LEMMA FirstOf ==
    ASSUME NEW t \in Nat, NEW ks \in SUBSET (1 .. t)
    PROVE  /\ First(ks) \in 0 .. t
           /\ First(ks) = 0 <=> ks = {}
           /\ ks # {} => First(ks) \in ks
           /\ \A k \in ks : First(ks) <= k
<1>1. CASE ks = {}
  BY <1>1 DEF First
<1>2. CASE ks # {}
  <2>1. PICK k \in ks : \A j \in ks : k <= j
    <3>1. ks \in SUBSET Nat
      OBVIOUS
    <3> QED BY <1>2, <3>1, NatLeast
  <2>2. ks \in SUBSET Int
    OBVIOUS
  <2>3. Min(ks) = k
    BY <2>1, <2>2, MinIs
  <2> QED BY <1>2, <2>1, <2>3 DEF First
<1> QED BY <1>1, <1>2

(* One more bar changes them in one way.                                   *)
LEMMA LastStep ==
    ASSUME NEW t \in Nat, NEW ks \in SUBSET (1 .. t), NEW js \in SUBSET (1 .. (t + 1)),
           \A k \in 1 .. t : k \in js <=> k \in ks
    PROVE  Last(js) = IF t + 1 \in js THEN t + 1 ELSE Last(ks)
<1>1. CASE t + 1 \in js
  <2>1. js \in SUBSET Int /\ \A k \in js : t + 1 >= k
    OBVIOUS
  <2>2. Max(js) = t + 1
    BY <1>1, <2>1, MaxIs
  <2> QED BY <1>1, <2>2 DEF Last
<1>2. CASE t + 1 \notin js
  <2>1. \A k \in js : k \in 1 .. t
    BY <1>2
  <2>2. js = ks
    BY <2>1
  <2> QED BY <1>2, <2>2
<1> QED BY <1>1, <1>2

LEMMA FirstStep ==
    ASSUME NEW t \in Nat, NEW ks \in SUBSET (1 .. t), NEW js \in SUBSET (1 .. (t + 1)),
           \A k \in 1 .. t : k \in js <=> k \in ks
    PROVE  First(js) = IF First(ks) # 0 THEN First(ks)
                       ELSE IF t + 1 \in js THEN t + 1 ELSE 0
<1>1. CASE ks = {}
  <2>1. js \subseteq {t + 1}
    BY <1>1
  <2>2. ASSUME t + 1 \in js PROVE First(js) = t + 1
    <3>1. js \in SUBSET Int /\ \A k \in js : t + 1 <= k
      BY <2>1
    <3>2. Min(js) = t + 1
      BY <2>2, <3>1, MinIs
    <3> QED BY <2>2, <3>2 DEF First
  <2>3. First(ks) = 0
    BY <1>1 DEF First
  <2>4. t + 1 \notin js => First(js) = 0
    BY <2>1 DEF First
  <2> QED BY <2>2, <2>3, <2>4
<1>2. CASE ks # {}
  <2>1. First(ks) \in ks /\ First(ks) # 0 /\ \A k \in ks : First(ks) <= k
    BY <1>2, FirstOf
  <2>2. PICK f : f = First(ks)
    OBVIOUS
  <2>3. f \in 1 .. t /\ f \in js /\ js \in SUBSET Int
    <3>1. f \in ks /\ f \in 1 .. t
      BY <2>1, <2>2
    <3>2. js \in SUBSET Int
      OBVIOUS
    <3> QED BY <3>1, <3>2
  <2>4. ASSUME NEW k \in js PROVE f <= k
    <3>1. CASE k \in 1 .. t
      BY <2>1, <2>2, <3>1
    <3>2. CASE k = t + 1
      BY <2>3, <3>2
    <3> QED BY <3>1, <3>2
  <2>5. Min(js) = f
    BY <2>3, <2>4, MinIs
  <2> QED BY <2>1, <2>2, <2>3, <2>5 DEF First
<1> QED BY <1>1, <1>2

-----------------------------------------------------------------------------
(* A bar more *)

LEMMA LogGrows ==
    ASSUME NEW s \in Seq(RowType), NEW b
    PROVE  /\ Len(Append(s, b)) = Len(s) + 1
           /\ \A k \in 1 .. Len(s) : Append(s, b)[k] = s[k]
           /\ Append(s, b)[Len(s) + 1] = b
OBVIOUS

(* A bar b was appended to the history as a row with the same prices.      *)
Grows(b, row) ==
    /\ LogType /\ row \in RowType /\ log' = Append(log, row) /\ variant' = variant
    /\ variant \in Variants
    /\ row.low = b.low /\ row.high = b.high /\ row.close = b.close
    /\ b.low <= b.high

LEMMA Rows ==
    ASSUME NEW b, NEW row, Grows(b, row)
    PROVE  /\ Len(log) \in Nat /\ Len(log') = Len(log) + 1
           /\ \A k \in 1 .. Len(log) : log'[k] = log[k] /\ log[k] \in RowType
           /\ log'[Len(log) + 1] = row
           /\ LogType'
<1>1. log \in Seq(RowType) /\ row \in RowType /\ log' = Append(log, row)
  BY DEF Grows, LogType
<1>2. /\ Len(log) \in Nat /\ Len(log') = Len(log) + 1
      /\ \A k \in 1 .. Len(log) : log'[k] = log[k] /\ log[k] \in RowType
      /\ log'[Len(log) + 1] = row
      /\ log' \in Seq(RowType)
  BY <1>1
<1>3. ASSUME NEW k \in 1 .. Len(log') PROVE log'[k].low <= log'[k].high
  <2>1. CASE k \in 1 .. Len(log)
    BY <1>2, <2>1 DEF Grows, LogType
  <2>2. CASE k = Len(log) + 1
    BY <1>2, <2>2 DEF Grows
  <2> QED BY <1>2, <2>1, <2>2
<1> QED BY <1>2, <1>3 DEF LogType

-----------------------------------------------------------------------------
(* Gaps and zones *)

LEMMA SourceSide == ASSUME NEW d \in Dirs PROVE Source(d) \in Dirs /\ Source(Source(d)) = d
BY DEF Source, Dirs

(* A gap depends on two bars, and there is at most one of each side.       *)
LEMMA GapOf ==
    ASSUME NEW d \in Dirs, NEW rows, NEW t \in Nat,
           t >= 3 => /\ rows[t].low \in Int /\ rows[t].high \in Int
                     /\ rows[t - 2].low \in Int /\ rows[t - 2].high \in Int
    PROVE  /\ \A g \in Gap(d, rows, t) : g \in GapRecord /\ g.at = t /\ t >= 3
           /\ \A g, h \in Gap(d, rows, t) : g = h
<1>1. CASE t < 3
  BY <1>1 DEF Gap
<1>2. CASE t >= 3
  <2> DEFINE x == Attack(d, rows[t])
             y == Attack(-d, rows[t - 2])
  <2>1. x \in Int /\ y \in Int
    BY <1>2 DEF Attack
  <2>2. Gap(d, rows, t) \subseteq {[at |-> t, low |-> Min({x, y}), high |-> Max({x, y})]}
    BY <1>2 DEF Gap
  <2> HIDE DEF x, y
  <2>3. Min({x, y}) \in Int /\ Max({x, y}) \in Int
    BY <2>1, TwoMin, TwoMax
  <2> QED BY <1>2, <2>2, <2>3 DEF GapRecord
<1> QED BY <1>1, <1>2

LEMMA SameGap ==
    ASSUME NEW d \in Dirs, NEW rows, NEW others, NEW t \in Nat,
           t >= 3 => /\ rows[t].low = others[t].low /\ rows[t].high = others[t].high
                     /\ rows[t - 2].low = others[t - 2].low
                     /\ rows[t - 2].high = others[t - 2].high
    PROVE  Gap(d, rows, t) = Gap(d, others, t)
<1>1. CASE t < 3
  BY <1>1 DEF Gap
<1>2. CASE t >= 3
  <2>1. Attack(d, rows[t]) = Attack(d, others[t])
    BY <1>2 DEF Attack
  <2>2. Attack(-d, rows[t - 2]) = Attack(-d, others[t - 2])
    BY <1>2 DEF Attack
  <2> QED BY <2>1, <2>2 DEF Gap
<1> QED BY <1>1, <1>2

(* The gap g of side d is one that the history has left.                   *)
IsGap(d, g) == g.at \in 1 .. Len(log) /\ g \in Gap(d, log, g.at)

LEMMA NewGap ==
    ASSUME NEW b, NEW row, Grows(b, row), NEW d \in Dirs
    PROVE  /\ \A g : IsGap(d, g)' <=> IsGap(d, g) \/ g \in Gap(d, Append(log, b), Now)
           /\ \A g \in Gap(d, Append(log, b), Now) : g.at = Now /\ g \in GapRecord
           /\ \A g, h \in Gap(d, Append(log, b), Now) : g = h
<1>1. /\ Len(log) \in Nat /\ Len(log') = Len(log) + 1
      /\ \A k \in 1 .. Len(log) : log'[k] = log[k] /\ log[k] \in RowType
      /\ log'[Len(log) + 1] = row
  BY Rows
<1>2. /\ \A k \in 1 .. Len(log) : Append(log, b)[k] = log[k]
      /\ Append(log, b)[Len(log) + 1] = b
  BY LogGrows DEF Grows, LogType
<1>3. row \in RowType /\ row.low = b.low /\ row.high = b.high
  BY DEF Grows
<1>4. Gap(d, Append(log, b), Now) = Gap(d, log', Now)
  <2>1. Now \in Nat /\ log'[Now] = row /\ Append(log, b)[Now] = b
    BY <1>1, <1>2 DEF Now
  <2>2. Now >= 3 => log'[Now - 2] = log[Now - 2] /\ Append(log, b)[Now - 2] = log[Now - 2]
    <3>1. Now >= 3 => Now - 2 \in 1 .. Len(log)
      BY <1>1 DEF Now
    <3> QED BY <1>1, <1>2, <3>1
  <2> QED BY <1>3, <2>1, <2>2, SameGap
<1>5. \A j \in 1 .. Len(log) : Gap(d, log, j) = Gap(d, log', j)
  BY <1>1, SameGap
<1>6. /\ \A g \in Gap(d, log', Now) : g \in GapRecord /\ g.at = Now
      /\ \A g, h \in Gap(d, log', Now) : g = h
  <2>1. Now \in Nat
    BY <1>1 DEF Now
  <2>2. Now >= 3 => /\ log'[Now].low \in Int /\ log'[Now].high \in Int
                    /\ log'[Now - 2].low \in Int /\ log'[Now - 2].high \in Int
    <3>1. log'[Now] \in RowType
      BY <1>1, <1>3 DEF Now
    <3>2. Now >= 3 => log'[Now - 2] \in RowType
      <4>1. Now >= 3 => Now - 2 \in 1 .. Len(log)
        BY <1>1 DEF Now
      <4> QED BY <1>1, <4>1
    <3> QED BY <3>1, <3>2 DEF RowType
  <2> QED BY <2>1, <2>2, GapOf
<1>7. ASSUME NEW g PROVE IsGap(d, g)' <=> IsGap(d, g) \/ g \in Gap(d, log', Now)
  <2>1. IsGap(d, g)' <=> g.at \in 1 .. (Len(log) + 1) /\ g \in Gap(d, log', g.at)
    BY <1>1 DEF IsGap
  <2>2. CASE g.at \in 1 .. Len(log)
    BY <1>1, <1>5, <1>6, <2>1, <2>2 DEF IsGap, Now
  <2>3. CASE g.at \notin 1 .. Len(log)
    BY <1>1, <1>6, <2>1, <2>3 DEF IsGap, Now
  <2> QED BY <2>2, <2>3
<1> QED BY <1>4, <1>6, <1>7

(* Whether a bar closes through a gap depends on its close.                *)
LEMMA SameThrough ==
    ASSUME NEW b, NEW row, Grows(b, row), NEW d, NEW g
    PROVE  /\ Source(d)' = Source(d)
           /\ \A m \in 1 .. Len(log) : ClosedThrough(d, g, log[m])' <=> ClosedThrough(d, g, log[m])
           /\ \A m \in {Now} : ClosedThrough(d, g, log[m])' <=> ClosedThrough(d, g, b)
<1>1. variant' = variant /\ \A m \in 1 .. Len(log) : log'[m] = log[m]
  BY Rows DEF Grows
<1>2. log'[Now].close = b.close
  BY Rows DEF Grows, Now
<1>3. Source(d)' = Source(d)
  BY <1>1 DEF Source
<1>4. ASSUME NEW m \in 1 .. Len(log)
      PROVE  ClosedThrough(d, g, log[m])' <=> ClosedThrough(d, g, log[m])
  BY <1>1 DEF ClosedThrough
<1>5. \A m \in {Now} : ClosedThrough(d, g, log[m])' <=> ClosedThrough(d, g, b)
  BY <1>1, <1>2 DEF ClosedThrough
<1> QED BY <1>3, <1>4, <1>5

(* What InvertedAt says of a gap, before and after a step.                 *)
FirstThrough(d, g, k) ==
    /\ IsGap(Source(d), g) /\ k - GapAge <= g.at /\ g.at <= k
    /\ ClosedThrough(d, g, log[k])
    /\ \A m \in 1 .. Len(log) : g.at <= m /\ m <= k - 1 => ~ ClosedThrough(d, g, log[m])

LEMMA GapsOfLog ==
    ASSUME LogType, NEW d \in Dirs, NEW j \in 1 .. Len(log), NEW g \in Gap(d, log, j)
    PROVE  g.at = j /\ IsGap(d, g) /\ g \in GapRecord
<1>1. log \in Seq(RowType) /\ j \in Nat /\ j <= Len(log) /\ Len(log) \in Nat
  BY DEF LogType
<1>2. j >= 3 => /\ log[j].low \in Int /\ log[j].high \in Int
                /\ log[j - 2].low \in Int /\ log[j - 2].high \in Int
  <2>1. log[j] \in RowType
    BY <1>1
  <2>2. j >= 3 => log[j - 2] \in RowType
    <3>1. j >= 3 => j - 2 \in 1 .. Len(log)
      BY <1>1
    <3> QED BY <1>1, <3>1
  <2> QED BY <2>1, <2>2 DEF RowType
<1> QED BY <1>1, <1>2, GapOf DEF IsGap

LEMMA InvertedIs ==
    ASSUME LogType, NEW d \in Dirs, NEW k \in 1 .. Len(log), NEW g
    PROVE  g \in InvertedAt(d, k) <=> FirstThrough(d, g, k)
<1>1. Source(d) \in Dirs
  BY SourceSide
<1>2. Len(log) \in Nat /\ GapAge \in Nat
  BY Po3Assumption DEF LogType
<1>3. ASSUME g \in InvertedAt(d, k) PROVE FirstThrough(d, g, k)
  <2>1. PICK j \in Between(k - GapAge, k) : g \in Gap(Source(d), log, j)
    BY <1>3 DEF InvertedAt
  <2>2. g.at = j /\ IsGap(Source(d), g)
    BY <1>1, <2>1, GapsOfLog DEF Between
  <2> QED BY <1>3, <2>1, <2>2 DEF InvertedAt, FirstThrough, Between
<1>4. ASSUME FirstThrough(d, g, k) PROVE g \in InvertedAt(d, k)
  <2>1. g.at \in Between(k - GapAge, k) /\ g \in Gap(Source(d), log, g.at)
    BY <1>2, <1>4 DEF FirstThrough, IsGap, Between
  <2> QED BY <1>4, <2>1 DEF InvertedAt, FirstThrough, Between
<1> QED BY <1>3, <1>4

LEMMA InvertedNext ==
    ASSUME LogType', NEW d \in Dirs, NEW k \in 1 .. Len(log'), NEW g
    PROVE  g \in InvertedAt(d, k)' <=> FirstThrough(d, g, k)'
<1>1. Source(d)' \in Dirs
  BY DEF Source, Dirs
<1>2. Len(log') \in Nat /\ GapAge \in Nat
  BY Po3Assumption DEF LogType
<1>3. ASSUME NEW e \in Dirs, NEW j \in 1 .. Len(log'), NEW h \in Gap(e, log', j)
      PROVE  h.at = j /\ IsGap(e, h)'
  <2>1. log' \in Seq(RowType) /\ j \in Nat /\ j <= Len(log') /\ Len(log') \in Nat
    BY DEF LogType
  <2>2. j >= 3 => /\ log'[j].low \in Int /\ log'[j].high \in Int
                  /\ log'[j - 2].low \in Int /\ log'[j - 2].high \in Int
    <3>1. log'[j] \in RowType
      BY <2>1
    <3>2. j >= 3 => log'[j - 2] \in RowType
      <4>1. j >= 3 => j - 2 \in 1 .. Len(log')
        BY <2>1
      <4> QED BY <2>1, <4>1
    <3> QED BY <3>1, <3>2 DEF RowType
  <2> QED BY <2>1, <2>2, GapOf DEF IsGap
<1>4. ASSUME g \in InvertedAt(d, k)' PROVE FirstThrough(d, g, k)'
  <2>1. PICK j \in Between(k - GapAge, k)' : g \in Gap(Source(d)', log', j)
    BY <1>4 DEF InvertedAt
  <2>2. g.at = j /\ IsGap(Source(d), g)'
    <3>1. g.at = j /\ g \in Gap(Source(d)', log', j) /\ j \in 1 .. Len(log')
      BY <1>1, <1>3, <2>1 DEF Between
    <3> QED BY <3>1 DEF IsGap
  <2> QED BY <1>4, <2>1, <2>2 DEF InvertedAt, FirstThrough, Between
<1>5. ASSUME FirstThrough(d, g, k)' PROVE g \in InvertedAt(d, k)'
  <2>1. g.at \in Between(k - GapAge, k)' /\ g \in Gap(Source(d)', log', g.at)
    BY <1>2, <1>5 DEF FirstThrough, IsGap, Between
  <2> QED BY <1>5, <2>1 DEF InvertedAt, FirstThrough, Between
<1> QED BY <1>4, <1>5

(* A later bar changes nothing of the inversions of earlier ones.          *)
LEMMA OldInverted ==
    ASSUME NEW b, NEW row, Grows(b, row), NEW d \in Dirs, NEW k \in 1 .. Len(log)
    PROVE  InvertedAt(d, k)' = InvertedAt(d, k)
<1>1. /\ LogType /\ LogType'
      /\ Len(log) \in Nat /\ Len(log') = Len(log) + 1
  BY Rows DEF Grows
<1>2. Source(d) \in Dirs /\ Source(d)' = Source(d) /\ GapAge \in Nat
  BY SourceSide, SameThrough, Po3Assumption
<1>3. ASSUME NEW g PROVE FirstThrough(d, g, k)' <=> FirstThrough(d, g, k)
  <2>1. g.at <= k => (IsGap(Source(d), g)' <=> IsGap(Source(d), g))
    <3>1. /\ \A h : IsGap(Source(d), h)' <=>
                      IsGap(Source(d), h) \/ h \in Gap(Source(d), Append(log, b), Now)
          /\ \A h \in Gap(Source(d), Append(log, b), Now) : h.at = Now
      <4>1. \A e \in Dirs :
                /\ \A h : IsGap(e, h)' <=> IsGap(e, h) \/ h \in Gap(e, Append(log, b), Now)
                /\ \A h \in Gap(e, Append(log, b), Now) : h.at = Now
        BY NewGap
      <4>2. \A h : IsGap(Source(d), h)' <=> (\E e \in {Source(d)} : IsGap(e, h)')
        BY <1>2 DEF IsGap
      <4> QED BY <1>2, <4>1, <4>2
    <3> QED BY <1>1, <3>1 DEF Now
  <2>2. \A m \in 1 .. Len(log) :
            ClosedThrough(d, g, log[m])' <=> ClosedThrough(d, g, log[m])
    BY SameThrough
  <2> QED BY <1>1, <2>1, <2>2 DEF FirstThrough
<1>4. \A g : g \in InvertedAt(d, k)' <=> g \in InvertedAt(d, k)
  <2>1. k \in 1 .. Len(log')
    BY <1>1
  <2> QED BY <1>1, <1>3, <2>1, InvertedIs, InvertedNext
<1> QED BY <1>4

(* The detector remembers the gaps that are young and were not closed      *)
(* through.                                                                *)
Open(d, g) ==
    /\ IsGap(d, g) /\ Len(log) - g.at < GapAge
    /\ \A m \in 1 .. Len(log) : g.at <= m => ~ ClosedThrough(Source(d), g, log[m])

GapsInv == \A d \in Dirs : \A g : g \in gaps[d] <=> Open(d, g)

LEMMA BornIs ==
    ASSUME GapsInv, NEW b, NEW row, Grows(b, row), NEW d \in Dirs, NEW g
    PROVE  g \in Born(b)[d] <=> \/ Open(d, g)
                                \/ IsGap(d, g)' /\ g.at = Now
<1>1. g \in Born(b)[d] <=> g \in gaps[d] \/ g \in Gap(d, Append(log, b), Now)
  BY DEF Born
<1>2. g \in gaps[d] <=> Open(d, g)
  BY DEF GapsInv
<1>3. /\ IsGap(d, g)' <=> IsGap(d, g) \/ g \in Gap(d, Append(log, b), Now)
      /\ g \in Gap(d, Append(log, b), Now) => g.at = Now
  BY NewGap
<1>4. Len(log) \in Nat
  BY Rows
<1>5. IsGap(d, g) => g.at # Now
  BY <1>4 DEF IsGap, Now
<1> QED BY <1>1, <1>2, <1>3, <1>5

(* What Inverted says of this bar is what InvertedAt will say of it.       *)
LEMMA NowInverted ==
    ASSUME GapsInv, NEW b, NEW row, Grows(b, row), NEW d \in Dirs
    PROVE  \A k \in {Now} : InvertedAt(d, k)' = Inverted(b)[d]
<1>1. /\ LogType /\ LogType'
      /\ Len(log) \in Nat /\ Len(log') = Len(log) + 1
  BY Rows DEF Grows
<1>2. /\ Source(d) \in Dirs /\ Source(d)' = Source(d) /\ GapAge \in Nat \ {0}
      /\ Source(Source(d)) = d
  BY SourceSide, SameThrough, Po3Assumption
<1> SUFFICES ASSUME NEW k \in {Now} PROVE InvertedAt(d, k)' = Inverted(b)[d]
  OBVIOUS
<1>3. k = Len(log) + 1 /\ k \in 1 .. Len(log')
  BY <1>1 DEF Now
<1>4. ASSUME NEW g PROVE g \in Inverted(b)[d] <=> FirstThrough(d, g, k)'
  <2>1. g \in Inverted(b)[d] <=> g \in Born(b)[Source(d)] /\ ClosedThrough(d, g, b)
    BY DEF Inverted
  <2>2. g \in Born(b)[Source(d)] <=> \/ Open(Source(d), g)
                                     \/ IsGap(Source(d), g)' /\ g.at = Now
    <3>1. \A e \in Dirs : g \in Born(b)[e] <=> Open(e, g) \/ (IsGap(e, g)' /\ g.at = Now)
      BY BornIs
    <3>2. IsGap(Source(d), g)' <=> \E e \in {Source(d)} : IsGap(e, g)'
      BY <1>2 DEF IsGap
    <3> QED BY <1>2, <3>1, <3>2
  <2>3. Open(Source(d), g) <=>
            /\ IsGap(Source(d), g) /\ Len(log) - g.at < GapAge
            /\ \A m \in 1 .. Len(log) : g.at <= m => ~ ClosedThrough(d, g, log[m])
    BY <1>2 DEF Open
  <2>4. IsGap(Source(d), g)' <=> \/ IsGap(Source(d), g)
                                 \/ IsGap(Source(d), g)' /\ g.at = Now
    <3>1. \A e \in Dirs : IsGap(e, g)' <=> IsGap(e, g) \/ (IsGap(e, g)' /\ g.at = Now)
      BY NewGap
    <3>2. IsGap(Source(d), g)' <=> \E e \in {Source(d)} : IsGap(e, g)'
      BY <1>2 DEF IsGap
    <3> QED BY <1>2, <3>1, <3>2
  <2>5. FirstThrough(d, g, k)' <=>
            /\ IsGap(Source(d), g)' /\ k - GapAge <= g.at /\ g.at <= k
            /\ ClosedThrough(d, g, b)
            /\ \A m \in 1 .. Len(log) : g.at <= m => ~ ClosedThrough(d, g, log[m])
    <3>1. ClosedThrough(d, g, log[k])' <=> ClosedThrough(d, g, b)
      BY SameThrough
    <3>2. (\A m \in 1 .. Len(log) : g.at <= m /\ m <= k - 1 => ~ ClosedThrough(d, g, log[m]))'
          <=> (\A m \in 1 .. Len(log) : g.at <= m => ~ ClosedThrough(d, g, log[m]))
      <4>1. \A m \in 1 .. Len(log) :
                ClosedThrough(d, g, log[m])' <=> ClosedThrough(d, g, log[m])
        BY SameThrough
      <4> QED BY <1>1, <1>3, <4>1
    <3> QED BY <3>1, <3>2 DEF FirstThrough
  <2>6. IsGap(Source(d), g) => g.at \in 1 .. Len(log)
    BY DEF IsGap
  <2>7. CASE IsGap(Source(d), g)
    BY <1>1, <1>2, <1>3, <2>1, <2>2, <2>3, <2>4, <2>5, <2>6, <2>7 DEF Now
  <2>8. CASE ~ IsGap(Source(d), g)
    BY <1>1, <1>2, <1>3, <2>1, <2>2, <2>3, <2>4, <2>5, <2>8 DEF Now
  <2> QED BY <2>7, <2>8
<1>5. \A g : g \in InvertedAt(d, k)' <=> g \in Inverted(b)[d]
  BY <1>1, <1>3, <1>4, InvertedNext
<1> QED BY <1>5

(* The detector keeps on remembering them.                                 *)
LEMMA GapsKept ==
    ASSUME GapsInv, NEW b, NEW row, Grows(b, row),
           gaps' = [d \in Dirs |-> {g \in Born(b)[d] \ Inverted(b)[Source(d)] : Now - g.at < GapAge}]
    PROVE  GapsInv'
<1>1. /\ Len(log) \in Nat /\ Len(log') = Len(log) + 1 /\ GapAge \in Nat \ {0}
  BY Rows, Po3Assumption
<1>2. ASSUME NEW d \in Dirs, NEW g PROVE g \in gaps'[d] <=> Open(d, g)'
  <2>1. /\ Source(d) \in Dirs /\ Source(d)' = Source(d) /\ Source(Source(d)) = d
    BY SourceSide, SameThrough
  <2>2. g \in gaps'[d] <=> /\ g \in Born(b)[d] /\ ~ ClosedThrough(Source(d), g, b)
                           /\ Now - g.at < GapAge
    <3>1. Inverted(b)[Source(d)] = {h \in Born(b)[d] : ClosedThrough(Source(d), h, b)}
      BY <2>1 DEF Inverted
    <3> QED BY <3>1
  <2>3. g \in Born(b)[d] <=> Open(d, g) \/ (IsGap(d, g)' /\ g.at = Now)
    BY BornIs
  <2>4. IsGap(d, g)' <=> IsGap(d, g) \/ (IsGap(d, g)' /\ g.at = Now)
    BY NewGap
  <2>5. Open(d, g)' <=>
            /\ IsGap(d, g)' /\ Now - g.at < GapAge
            /\ \A m \in 1 .. Len(log) : g.at <= m => ~ ClosedThrough(Source(d), g, log[m])
            /\ g.at <= Now => ~ ClosedThrough(Source(d), g, b)
    <3>1. \A e \in {Source(d)} : \A m \in 1 .. Len(log) :
              ClosedThrough(e, g, log[m])' <=> ClosedThrough(e, g, log[m])
      BY SameThrough
    <3>2. \A e \in {Source(d)} : \A m \in {Now} :
              ClosedThrough(e, g, log[m])' <=> ClosedThrough(e, g, b)
      BY SameThrough
    <3>3. \A m \in 1 .. Len(log) :
              ClosedThrough(Source(d), g, log[m])' <=> \E e \in {Source(d)} : ClosedThrough(e, g, log[m])'
      BY <2>1 DEF ClosedThrough
    <3>4. \A m \in {Now} :
              ClosedThrough(Source(d), g, log[m])' <=> \E e \in {Source(d)} : ClosedThrough(e, g, log[m])'
      BY <2>1 DEF ClosedThrough
    <3>5. \A m : m \in 1 .. Len(log') <=> m \in 1 .. Len(log) \/ m = Now
      BY <1>1 DEF Now
    <3>6. Len(log') = Now
      BY <1>1 DEF Now
    <3>7. (\A m \in 1 .. Len(log) : g.at <= m => ~ ClosedThrough(Source(d), g, log[m]))' <=>
             /\ \A m \in 1 .. Len(log) : g.at <= m => ~ ClosedThrough(Source(d), g, log[m])
             /\ g.at <= Now => ~ ClosedThrough(Source(d), g, b)
      BY <3>1, <3>2, <3>3, <3>4, <3>5
    <3> QED BY <3>6, <3>7 DEF Open
  <2>6. IsGap(d, g) => g.at \in 1 .. Len(log)
    BY DEF IsGap
  <2>7. CASE IsGap(d, g)
    BY <1>1, <2>2, <2>3, <2>4, <2>5, <2>6, <2>7 DEF Now, Open
  <2>8. CASE ~ IsGap(d, g)
    BY <1>1, <2>2, <2>3, <2>4, <2>5, <2>8 DEF Now, Open
  <2> QED BY <2>7, <2>8
<1> QED BY <1>2 DEF GapsInv

(* Of some gaps of one side the newest is one.                             *)
LEMMA NewestOne ==
    ASSUME NEW t \in Nat, NEW S, S # {}, \A g \in S : g.at \in 1 .. t,
           \A g, h \in S : g.at = h.at => g = h
    PROVE  \E g \in S : Newest(S) = {g} /\ \A x \in S : x.at <= g.at
<1> DEFINE ages == {t - g.at : g \in S}
<1>1. PICK a \in ages : \A x \in ages : a <= x
  <2>1. ages \in SUBSET Nat
    <3>1. \A g \in S : t - g.at \in Nat
      OBVIOUS
    <3> QED BY <3>1
  <2>2. ages # {}
    OBVIOUS
  <2> HIDE DEF ages
  <2> QED BY <2>1, <2>2, NatLeast
<1>2. PICK g \in S : a = t - g.at
  OBVIOUS
<1>3. ASSUME NEW x \in S PROVE x.at <= g.at
  <2>1. t - x.at \in ages /\ x.at \in Int /\ g.at \in Int
    OBVIOUS
  <2>2. t - g.at <= t - x.at
    BY <1>1, <1>2, <2>1
  <2> QED BY <2>1, <2>2
<1>4. ASSUME NEW x \in S, g.at <= x.at PROVE x = g
  <2>1. x.at <= g.at /\ x.at \in Int /\ g.at \in Int
    BY <1>3
  <2> QED BY <1>4, <2>1
<1>5. Newest(S) = {g}
  <2>1. g \in Newest(S)
    BY <1>3 DEF Newest
  <2>2. \A x \in Newest(S) : x = g
    BY <1>4 DEF Newest
  <2> QED BY <2>1, <2>2
<1> QED BY <1>3, <1>5

LEMMA OneGap ==
    ASSUME NEW rows \in Seq(RowType), NEW d \in Dirs, NEW j \in 1 .. Len(rows)
    PROVE  /\ \A g \in Gap(d, rows, j) : g \in GapRecord /\ g.at = j
           /\ \A g, h \in Gap(d, rows, j) : g = h
<1>1. j \in Nat /\ j <= Len(rows) /\ Len(rows) \in Nat
  OBVIOUS
<1>2. rows[j] \in RowType
  OBVIOUS
<1>3. j >= 3 => rows[j - 2] \in RowType
  <2>1. j >= 3 => j - 2 \in 1 .. Len(rows)
    BY <1>1
  <2> QED BY <2>1
<1> QED BY <1>1, <1>2, <1>3, GapOf DEF RowType

LEMMA InvertedOne ==
    ASSUME LogType, NEW d \in Dirs, NEW k \in 1 .. Len(log), InvertedAt(d, k) # {}
    PROVE  \E g \in InvertedAt(d, k) :
               /\ Newest(InvertedAt(d, k)) = {g} /\ g \in GapRecord /\ g.at \in 1 .. k
               /\ \A x \in InvertedAt(d, k) : x.at <= g.at
<1>1. Len(log) \in Nat /\ log \in Seq(RowType) /\ Source(d) \in Dirs
  BY SourceSide DEF LogType
<1>2. ASSUME NEW g \in InvertedAt(d, k)
      PROVE  g.at \in 1 .. k /\ g \in Gap(Source(d), log, g.at) /\ g.at \in 1 .. Len(log)
  BY <1>1, InvertedIs DEF FirstThrough, IsGap
<1>3. \A g \in InvertedAt(d, k) : g \in GapRecord
  BY <1>1, <1>2, OneGap
<1>4. \A g, h \in InvertedAt(d, k) : g.at = h.at => g = h
  BY <1>1, <1>2, OneGap
<1>5. \E g \in InvertedAt(d, k) :
          Newest(InvertedAt(d, k)) = {g} /\ \A x \in InvertedAt(d, k) : x.at <= g.at
  <2>1. k \in Nat
    OBVIOUS
  <2> QED BY <1>2, <1>4, <2>1, NewestOne
<1> QED BY <1>2, <1>3, <1>5

LEMMA NowOne ==
    ASSUME GapsInv, NEW b, NEW row, Grows(b, row), NEW d \in Dirs, Inverted(b)[d] # {}
    PROVE  \E g \in Inverted(b)[d] :
               /\ Own(b)[d] = {g} /\ g \in GapRecord /\ g.at \in 1 .. Now
               /\ \A x \in Inverted(b)[d] : x.at <= g.at
<1>1. /\ Len(log') \in Nat /\ Len(log') = Now /\ log' \in Seq(RowType) /\ LogType'
      /\ Source(d) \in Dirs /\ Source(d)' = Source(d)
  <2>1. Len(log) \in Nat /\ Len(log') = Len(log) + 1 /\ LogType'
    BY Rows
  <2>2. log' \in Seq(RowType)
    BY <2>1 DEF LogType
  <2>3. Source(d) \in Dirs /\ Source(d)' = Source(d)
    BY SourceSide, SameThrough
  <2> QED BY <2>1, <2>2, <2>3 DEF Now
<1>2. ASSUME NEW g \in Inverted(b)[d]
      PROVE  g.at \in 1 .. Now /\ g \in Gap(Source(d), log', g.at)
  <2>1. \A k \in {Now} : k \in 1 .. Len(log') /\ g \in InvertedAt(d, k)'
    BY <1>1, NowInverted DEF Now
  <2>2. \A k \in {Now} : FirstThrough(d, g, k)'
    BY <1>1, <2>1, InvertedNext
  <2> QED BY <1>1, <2>2 DEF FirstThrough, IsGap
<1>3. \A g \in Inverted(b)[d] : g \in GapRecord
  BY <1>1, <1>2, OneGap
<1>4. \A g, h \in Inverted(b)[d] : g.at = h.at => g = h
  BY <1>1, <1>2, OneGap
<1>5. \E g \in Inverted(b)[d] :
          Newest(Inverted(b)[d]) = {g} /\ \A x \in Inverted(b)[d] : x.at <= g.at
  <2>1. Now \in Nat
    BY <1>1
  <2> QED BY <1>2, <1>4, <2>1, NewestOne
<1>6. Own(b)[d] = Newest(Inverted(b)[d])
  BY DEF Own
<1> QED BY <1>2, <1>3, <1>5, <1>6

(* The last bar that inverted a gap.                                       *)
LastInverted(d) == Last({k \in 1 .. Len(log) : InvertedAt(d, k) # {}})

LEMMA LastInvertedStep ==
    ASSUME GapsInv, NEW b, NEW row, Grows(b, row), NEW d \in Dirs
    PROVE  /\ LastInverted(d) \in 0 .. Len(log)
           /\ LastInverted(d) # 0 => InvertedAt(d, LastInverted(d)) # {}
           /\ LastInverted(d)' = IF Inverted(b)[d] # {} THEN Now ELSE LastInverted(d)
<1>1. Len(log) \in Nat /\ Len(log') = Len(log) + 1
  BY Rows
<1> DEFINE ks == {k \in 1 .. Len(log) : InvertedAt(d, k) # {}}
           js == {k \in 1 .. Len(log') : InvertedAt(d, k)' # {}}
<1>2. LastInverted(d) = Last(ks) /\ LastInverted(d)' = Last(js)
  BY DEF LastInverted, Last
<1>3. \A k \in 1 .. Len(log) : k \in js <=> k \in ks
  BY <1>1, OldInverted
<1>4. Len(log) + 1 \in js <=> Inverted(b)[d] # {}
  <2>1. \A k \in {Now} : k \in js <=> Inverted(b)[d] # {}
    BY <1>1, NowInverted DEF Now
  <2> QED BY <2>1 DEF Now
<1>5. ks \in SUBSET (1 .. Len(log)) /\ js \in SUBSET (1 .. (Len(log) + 1))
  BY <1>1
<1>6. \A k \in ks : InvertedAt(d, k) # {}
  OBVIOUS
<1> HIDE DEF ks, js
<1>7. Last(js) = IF Len(log) + 1 \in js THEN Len(log) + 1 ELSE Last(ks)
  BY <1>1, <1>3, <1>5, LastStep
<1>8. Last(ks) \in 0 .. Len(log) /\ (Last(ks) # 0 => Last(ks) \in ks)
  BY <1>1, <1>5, LastOf
<1> QED BY <1>2, <1>4, <1>6, <1>7, <1>8 DEF Now

(* The zone z of side d came with bar c; while it is young it is dead when *)
(* a bar since then has filled it, and else left when one has left it.     *)
ZoneSince(d, c, z) ==
    /\ z \in ZoneRecord /\ z.start = c /\ c \in 1 .. Len(log)
    /\ \E g \in InvertedAt(d, c) : /\ Newest(InvertedAt(d, c)) = {g}
                                   /\ z.low = g.low /\ z.high = g.high
    /\ Len(log) - c < ZoneAge =>
         /\ z.dead <=> \E k \in c .. Len(log) : Fills(d, log[k], z)
         /\ ~ z.dead => (z.left <=> \E k \in c .. Len(log) : Away(d, log[k], z))

ZoneInv ==
    \A d \in Dirs : \A c \in 0 .. Len(log) : c = LastInverted(d) =>
        IF c = 0 THEN zone[d] = {} ELSE \E z \in zone[d] : zone[d] = {z} /\ ZoneSince(d, c, z)

(* What the last row says of the zone that came with bar c from gap g.     *)
RowSays(d, c, g) ==
    LET t == Len(log)
        live == t - c < ZoneAge /\ \A k \in Between(c, t - 1) : ~ Fills(d, log[k], g)
    IN  /\ log[t].live[d] <=> live
        /\ log[t].retest[d] <=> /\ live /\ Overlaps(log[t], g) /\ ~ Fills(d, log[t], g)
                                /\ \E k \in Between(c, t - 1) : Away(d, log[k], g)

RowsInv ==
    log # <<>> => \A d \in Dirs : \A c \in 0 .. Len(log) : c = LastInverted(d) =>
        IF c = 0 THEN ~ log[Len(log)].live[d] /\ ~ log[Len(log)].retest[d]
        ELSE \A g \in Newest(InvertedAt(d, c)) : RowSays(d, c, g)

(* Filling a zone and leaving it depend on its edges and on the bar's.     *)
LEMMA SameEdges ==
    ASSUME NEW d \in Dirs, NEW b, NEW x, b.low = x.low, b.high = x.high,
           NEW z, NEW y, z.low = y.low, z.high = y.high
    PROVE  /\ Fills(d, b, z) <=> Fills(d, x, y)
           /\ Away(d, b, z) <=> Away(d, x, y)
           /\ Overlaps(b, z) <=> Overlaps(x, y)
<1>1. Attack(d, b) = Attack(d, x)
  BY DEF Attack
<1>2. Rear(d, z) = Rear(d, y) /\ Near(d, z) = Near(d, y)
  BY DEF Rear, Near
<1>3. Fills(d, b, z) <=> Fills(d, x, y)
  BY <1>1, <1>2 DEF Fills, Beyond
<1>4. Away(d, b, z) <=> Away(d, x, y)
  BY <1>1, <1>2 DEF Away, Beyond
<1> QED BY <1>3, <1>4 DEF Overlaps

(* A bar that does not fill a zone touches it or is away from it.          *)
LEMMA TouchOrAway ==
    ASSUME NEW d \in Dirs, NEW b, b.low \in Int, b.high \in Int, b.low <= b.high,
           NEW z, z.low \in Int, z.high \in Int, ~ Fills(d, b, z)
    PROVE  Overlaps(b, z) <=> ~ Away(d, b, z)
<1>1. CASE d = 1
  BY <1>1 DEF Overlaps, Away, Fills, Beyond, Attack, Near, Rear
<1>2. CASE d = -1
  BY <1>2 DEF Overlaps, Away, Fills, Beyond, Attack, Near, Rear
<1> QED BY <1>1, <1>2 DEF Dirs

(* The rows of a bar: what it makes of the zones and says of them.         *)
Zones(b) == [d \in Dirs |-> Current(d, Own(b)[d], Now)]

(* A bar that inverts a gap starts a zone.                                 *)
LEMMA ZoneStarts ==
    ASSUME GapsInv, NEW b, NEW row, Grows(b, row), NEW d \in Dirs, Inverted(b)[d] # {},
           zone'[d] = After(d, Zones(b)[d], b, Now),
           row.live[d] <=> Live(Zones(b)[d], Now) # {},
           row.retest[d] <=> Retested(d, Live(Zones(b)[d], Now), b) # {}
    PROVE  \A c \in {Now} :
             /\ \E z \in zone'[d] : zone'[d] = {z} /\ ZoneSince(d, c, z)'
             /\ \A g \in Newest(InvertedAt(d, c)') : RowSays(d, c, g)'
<1>1. /\ Len(log) \in Nat /\ Len(log') = Now /\ Now = Len(log) + 1 /\ log'[Now] = row
      /\ ZoneAge \in Nat \ {0} /\ Now - Now = 0 /\ Now \in Nat
  BY Rows, Po3Assumption DEF Now
<1>2. PICK g \in Inverted(b)[d] : Own(b)[d] = {g} /\ g \in GapRecord
  BY NowOne
<1>f. PICK f : f = Fresh(g, Now)
  OBVIOUS
<1>z. PICK z : z = [f EXCEPT !.left = @ \/ Away(d, b, f), !.dead = Fills(d, b, f)]
  OBVIOUS
<1>3. /\ f \in ZoneRecord /\ f.start = Now /\ f.low = g.low /\ f.high = g.high
      /\ f.left = FALSE /\ f.dead = FALSE
  BY <1>f, <1>1, <1>2 DEF Fresh, ZoneRecord, GapRecord
<1>4. Zones(b)[d] = {f}
  BY <1>f, <1>2 DEF Zones, Current
<1>5. Live({f}, Now) = {f}
  BY <1>1, <1>3 DEF Live
<1>6. zone'[d] = {z}
  BY <1>z, <1>4, <1>5 DEF After
<1>7. /\ z \in ZoneRecord /\ z.start = Now /\ z.low = g.low /\ z.high = g.high
      /\ z.left = Away(d, b, f) /\ z.dead = Fills(d, b, f)
  <2>1. Away(d, b, f) \in BOOLEAN /\ Fills(d, b, f) \in BOOLEAN
    BY DEF Away, Fills
  <2> QED BY <1>z, <1>3, <2>1 DEF ZoneRecord
<1>8. row.live[d] /\ ~ row.retest[d]
  <2>1. Retested(d, {f}, b) = {}
    BY <1>3 DEF Retested
  <2>2. Live({f}, Now) # {}
    BY <1>5
  <2> QED BY <1>4, <1>5, <2>1, <2>2
<1>9. ASSUME NEW c \in {Now} PROVE InvertedAt(d, c)' = Inverted(b)[d] /\ Newest(InvertedAt(d, c)') = {g}
  <2>1. InvertedAt(d, c)' = Inverted(b)[d]
    BY NowInverted
  <2>2. Newest(Inverted(b)[d]) = {g}
    BY <1>2 DEF Own
  <2> QED BY <2>1, <2>2
<1>10. ASSUME NEW c \in {Now} PROVE ZoneSince(d, c, z)'
  <2>1. (\E k \in c .. Len(log) : Fills(d, log[k], z))' <=> Fills(d, row, z)
    BY <1>1
  <2>2. (\E k \in c .. Len(log) : Away(d, log[k], z))' <=> Away(d, row, z)
    BY <1>1
  <2>3. (Fills(d, row, z) <=> Fills(d, b, f)) /\ (Away(d, row, z) <=> Away(d, b, f))
    BY <1>3, <1>7, SameEdges DEF Grows
  <2>4. (z \in ZoneRecord /\ z.start = c /\ c \in 1 .. Len(log))'
    BY <1>1, <1>7
  <2>5. (\E h \in InvertedAt(d, c) : /\ Newest(InvertedAt(d, c)) = {h}
                                     /\ z.low = h.low /\ z.high = h.high)'
    BY <1>7, <1>9
  <2>6. (/\ z.dead <=> \E k \in c .. Len(log) : Fills(d, log[k], z)
         /\ ~ z.dead => (z.left <=> \E k \in c .. Len(log) : Away(d, log[k], z)))'
    BY <1>7, <2>1, <2>2, <2>3
  <2> QED BY <2>4, <2>5, <2>6 DEF ZoneSince
<1>11. ASSUME NEW c \in {Now}, NEW h \in Newest(InvertedAt(d, c)') PROVE RowSays(d, c, h)'
  <2>1. Between(c, Len(log) - 1)' = {}
    BY <1>1 DEF Between
  <2> QED BY <1>1, <1>8, <2>1 DEF RowSays
<1> QED BY <1>6, <1>10, <1>11

(* On a bar that inverts none the zone ages.                               *)
LEMMA ZoneAges ==
    ASSUME GapsInv, NEW b, NEW row, Grows(b, row), NEW d \in Dirs, Inverted(b)[d] = {},
           zone'[d] = After(d, Zones(b)[d], b, Now),
           row.live[d] <=> Live(Zones(b)[d], Now) # {},
           row.retest[d] <=> Retested(d, Live(Zones(b)[d], Now), b) # {},
           NEW c \in 1 .. Len(log), NEW z, zone[d] = {z}, ZoneSince(d, c, z)
    PROVE  /\ \E y \in zone'[d] : zone'[d] = {y} /\ ZoneSince(d, c, y)'
           /\ \A g \in Newest(InvertedAt(d, c)') : RowSays(d, c, g)'
<1>1. /\ Len(log) \in Nat /\ Len(log') = Now /\ Now = Len(log) + 1 /\ log'[Now] = row
      /\ \A k \in 1 .. Len(log) : log'[k] = log[k]
      /\ ZoneAge \in Nat \ {0} /\ Now \in Nat /\ c \in Nat
  BY Rows, Po3Assumption DEF Now
<1>2. PICK g \in InvertedAt(d, c) : /\ Newest(InvertedAt(d, c)) = {g}
                                    /\ z.low = g.low /\ z.high = g.high
  BY DEF ZoneSince
<1>3. InvertedAt(d, c)' = InvertedAt(d, c)
  BY OldInverted
<1>4. z \in ZoneRecord /\ z.start = c
  BY DEF ZoneSince
<1>5. Zones(b)[d] = {z}
  <2>1. Own(b)[d] = {}
    BY DEF Own, Newest
  <2> QED BY <2>1 DEF Zones, Current
<1>6. \A k \in c .. Len(log) : log'[k] = log[k]
  BY <1>1
<1>7. /\ \A x : (\E k \in c .. Len(log') : Fills(d, log'[k], x)) <=>
                   (\E k \in c .. Len(log) : Fills(d, log[k], x)) \/ Fills(d, row, x)
      /\ \A x : (\E k \in c .. Len(log') : Away(d, log'[k], x)) <=>
                   (\E k \in c .. Len(log) : Away(d, log[k], x)) \/ Away(d, row, x)
  <2>1. \A k : k \in c .. Len(log') <=> k \in c .. Len(log) \/ k = Now
    BY <1>1
  <2> QED BY <1>1, <1>6, <2>1
<1>8. /\ Fills(d, row, z) <=> Fills(d, b, z)
      /\ Away(d, row, z) <=> Away(d, b, z)
  BY SameEdges DEF Grows
<1>9. Live({z}, Now) = IF ~ z.dead /\ Now - c < ZoneAge THEN {z} ELSE {}
  BY <1>4 DEF Live
<1>10. \E y \in zone'[d] : zone'[d] = {y} /\ ZoneSince(d, c, y)'
  <2>y. PICK y : y = IF z \in Live({z}, Now)
                     THEN [z EXCEPT !.left = @ \/ Away(d, b, z), !.dead = Fills(d, b, z)] ELSE z
    OBVIOUS
  <2>1. zone'[d] = {y}
    BY <2>y, <1>5 DEF After
  <2>2. /\ y \in ZoneRecord /\ y.start = c /\ y.low = z.low /\ y.high = z.high
        /\ Now - c < ZoneAge =>
             /\ y.dead <=> z.dead \/ Fills(d, b, z)
             /\ ~ y.dead => (y.left <=> z.left \/ Away(d, b, z))
    <3>1. Away(d, b, z) \in BOOLEAN /\ Fills(d, b, z) \in BOOLEAN
      BY DEF Away, Fills
    <3>2. CASE ~ z.dead /\ Now - c < ZoneAge
      BY <2>y, <1>4, <1>9, <3>1, <3>2 DEF ZoneRecord
    <3>3. CASE ~ (~ z.dead /\ Now - c < ZoneAge)
      BY <2>y, <1>4, <1>9, <3>3 DEF ZoneRecord
    <3> QED BY <3>2, <3>3
  <2>3. \A a, x : a.low = x.low /\ a.high = x.high =>
            /\ Fills(d, a, y) <=> Fills(d, x, z)
            /\ Away(d, a, y) <=> Away(d, x, z)
    BY <2>2, SameEdges
  <2>4. (y \in ZoneRecord /\ y.start = c /\ c \in 1 .. Len(log))'
    BY <1>1, <2>2
  <2>5. (\E h \in InvertedAt(d, c) : /\ Newest(InvertedAt(d, c)) = {h}
                                     /\ y.low = h.low /\ y.high = h.high)'
    BY <1>2, <1>3, <2>2
  <2>6. ASSUME Now - c < ZoneAge
        PROVE  /\ y.dead <=> \E k \in c .. Len(log') : Fills(d, log'[k], y)
               /\ ~ y.dead => (y.left <=> \E k \in c .. Len(log') : Away(d, log'[k], y))
    <3>1. /\ z.dead <=> \E k \in c .. Len(log) : Fills(d, log[k], z)
          /\ ~ z.dead => (z.left <=> \E k \in c .. Len(log) : Away(d, log[k], z))
      BY <1>1, <2>6 DEF ZoneSince
    <3>2. /\ (\E k \in c .. Len(log') : Fills(d, log'[k], y)) <=>
                (\E k \in c .. Len(log') : Fills(d, log'[k], z))
          /\ (\E k \in c .. Len(log') : Away(d, log'[k], y)) <=>
                (\E k \in c .. Len(log') : Away(d, log'[k], z))
      BY <2>3
    <3> QED BY <1>7, <1>8, <2>2, <2>6, <3>1, <3>2
  <2>7. (Len(log) - c < ZoneAge =>
           /\ y.dead <=> \E k \in c .. Len(log) : Fills(d, log[k], y)
           /\ ~ y.dead => (y.left <=> \E k \in c .. Len(log) : Away(d, log[k], y)))'
    BY <1>1, <2>6
  <2>8. ZoneSince(d, c, y)'
    BY <2>4, <2>5, <2>7 DEF ZoneSince
  <2> QED BY <2>1, <2>8
<1>11. RowSays(d, c, g)'
  <2> DEFINE young == Now - c < ZoneAge
             filled == \E k \in c .. Len(log) : Fills(d, log[k], z)
             gone == \E k \in c .. Len(log) : Away(d, log[k], z)
  <2>1. young => (z.dead <=> filled) /\ (~ z.dead => (z.left <=> gone))
    BY <1>1 DEF ZoneSince
  <2>2. row.live[d] <=> young /\ ~ filled
    BY <1>5, <1>9, <2>1
  <2>3. row.retest[d] <=> young /\ ~ filled /\ z.left /\ ~ Fills(d, b, z) /\ ~ Away(d, b, z)
    <3>1. row.retest[d] <=> /\ z \in Live({z}, Now) /\ z.left
                            /\ ~ Fills(d, b, z) /\ ~ Away(d, b, z)
      <4>1. Live({z}, Now) \subseteq {z}
        BY <1>9
      <4> QED BY <1>5, <4>1 DEF Retested
    <3> QED BY <1>9, <2>1, <3>1
  <2>4. ~ Fills(d, b, z) => (~ Away(d, b, z) <=> Overlaps(b, z))
    <3>1. b.low \in Int /\ b.high \in Int /\ b.low <= b.high
      BY DEF Grows, RowType
    <3>2. z.low \in Int /\ z.high \in Int
      BY <1>4 DEF ZoneRecord
    <3> QED BY <3>1, <3>2, TouchOrAway
  <2>5. \A a, x : a.low = x.low /\ a.high = x.high =>
            /\ Fills(d, a, g) <=> Fills(d, x, z)
            /\ Away(d, a, g) <=> Away(d, x, z)
            /\ Overlaps(a, g) <=> Overlaps(x, z)
    BY <1>2, SameEdges
  <2>6. Between(c, Len(log) - 1)' = c .. Len(log)
    BY <1>1 DEF Between
  <2>7. (\A k \in Between(c, Len(log) - 1) : ~ Fills(d, log[k], g))' <=> ~ filled
    BY <1>6, <2>5, <2>6
  <2>8. (\E k \in Between(c, Len(log) - 1) : Away(d, log[k], g))' <=> gone
    BY <1>6, <2>5, <2>6
  <2>9. row.low = b.low /\ row.high = b.high
    BY DEF Grows
  <2>10. /\ Fills(d, row, g) <=> Fills(d, b, z)
         /\ Overlaps(row, g) <=> Overlaps(b, z)
    BY <2>5, <2>9
  <2> HIDE DEF filled, gone
  <2> QED BY <1>1, <2>1, <2>2, <2>3, <2>4, <2>7, <2>8, <2>10 DEF RowSays
<1>12. Newest(InvertedAt(d, c)') = {g}
  BY <1>2, <1>3
<1> QED BY <1>10, <1>11, <1>12

-----------------------------------------------------------------------------
(* References *)

(* A reference that is left was not crossed since it came.                 *)
RefsInv ==
    /\ IsFiniteSet(refs) /\ (variant.phases = "legacy" => refs = {})
    /\ \A r \in refs : /\ Cardinality(Group(refs, r)) <= MaxRefs
                       /\ r.at \in 1 .. Len(log)
                       /\ \A k \in 1 .. Len(log) :
                              r.at <= k => Beyond(r.dir, log[k], r.level) <= 0

(* Groups of a subset are no larger.                                       *)
LEMMA SmallerGroup ==
    ASSUME NEW rs, IsFiniteSet(rs), NEW r, NEW S, Group(rs, r) \subseteq S, IsFiniteSet(S),
           Cardinality(S) <= MaxRefs
    PROVE  Cardinality(Group(rs, r)) <= MaxRefs
<1>1. IsFiniteSet(Group(rs, r)) /\ Cardinality(Group(rs, r)) <= Cardinality(S)
  BY FS_Subset
<1>2. Cardinality(Group(rs, r)) \in Nat /\ Cardinality(S) \in Nat /\ MaxRefs \in Nat
  BY <1>1, FS_CardinalityType, Po3Assumption
<1> QED BY <1>1, <1>2

LEMMA AddOne ==
    ASSUME NEW S, IsFiniteSet(S), NEW x
    PROVE  IsFiniteSet(S \cup {x}) /\ Cardinality(S \cup {x}) <= Cardinality(S) + 1
<1>1. /\ IsFiniteSet(S \cup {x})
      /\ Cardinality(S \cup {x}) = Cardinality(S) \/ Cardinality(S \cup {x}) = Cardinality(S) + 1
  BY FS_AddElement
<1>2. Cardinality(S) \in Nat
  BY FS_CardinalityType
<1> QED BY <1>1, <1>2

(* A reference that enters makes room in a full group first.               *)
LEMMA EnterKeeps ==
    ASSUME refs \in SUBSET Reference, IsFiniteSet(refs),
           \A r \in refs : Cardinality(Group(refs, r)) <= MaxRefs,
           NEW new \in {{}} \cup {{x} : x \in Reference}
    PROVE  /\ Enter(new) \subseteq refs \cup new /\ IsFiniteSet(Enter(new))
           /\ \A r \in Enter(new) : Cardinality(Group(Enter(new), r)) <= MaxRefs
<1>1. Enter(new) \subseteq refs \cup new
  BY DEF Enter
<1>2. IsFiniteSet(Enter(new))
  <2>1. IsFiniteSet(new)
    BY FS_EmptySet, FS_Singleton
  <2>2. IsFiniteSet(refs \cup new)
    BY <2>1, FS_Union
  <2> QED BY <1>1, <2>2, FS_Subset
<1>3. CASE new = {}
  <2>1. Enter(new) = refs
    BY <1>3 DEF Enter
  <2> QED BY <1>1, <1>2, <2>1
<1>4. CASE new # {}
  <2>1. PICK x \in Reference : new = {x}
    BY <1>4
  <2> DEFINE G == Group(refs, x)
  <2>2. /\ IsFiniteSet(G) /\ Cardinality(G) \in Nat /\ MaxRefs \in Nat \ {0}
        /\ Cardinality(G) <= MaxRefs
    <3>1. IsFiniteSet(G)
      BY FS_Subset DEF Group
    <3>2. Cardinality(G) \in Nat /\ MaxRefs \in Nat \ {0}
      BY <3>1, FS_CardinalityType, Po3Assumption
    <3>3. CASE G = {}
      BY <3>2, <3>3, FS_EmptySet
    <3>4. CASE G # {}
      <4>1. PICK y \in G : TRUE
        BY <3>4
      <4>2. y \in refs /\ Group(refs, y) = G
        BY DEF Group
      <4> QED BY <3>1, <3>2, <4>2
    <3> QED BY <3>1, <3>2, <3>3, <3>4
  <2>3. ASSUME NEW r \in Enter(new), ~ (x.dir = r.dir /\ x.tf = r.tf)
        PROVE  Cardinality(Group(Enter(new), r)) <= MaxRefs
    <3>1. r \in refs /\ Group(Enter(new), r) \subseteq Group(refs, r)
      BY <1>1, <2>1, <2>3 DEF Group
    <3>2. IsFiniteSet(Group(refs, r))
      BY FS_Subset DEF Group
    <3> QED BY <1>2, <3>1, <3>2, SmallerGroup
  <2>4. ASSUME NEW r \in Enter(new), x.dir = r.dir, x.tf = r.tf
        PROVE  Cardinality(Group(Enter(new), r)) <= MaxRefs
    <3>1. Group(Enter(new), r) \subseteq G \cup {x}
      BY <1>1, <2>1, <2>4 DEF Group
    <3>2. CASE Cardinality(G) # MaxRefs
      <4>1. IsFiniteSet(G \cup {x}) /\ Cardinality(G \cup {x}) <= Cardinality(G) + 1
        BY <2>2, AddOne
      <4>2. Cardinality(G \cup {x}) \in Nat
        BY <4>1, FS_CardinalityType
      <4>3. Cardinality(G \cup {x}) <= MaxRefs
        BY <2>2, <3>2, <4>1, <4>2
      <4> QED BY <1>2, <3>1, <4>1, <4>3, SmallerGroup
    <3>3. CASE Cardinality(G) = MaxRefs
      <4>1. G # {}
        BY <2>2, <3>3, FS_EmptySet
      <4>2. PICK m \in G : \A y \in G : m.at <= y.at
        <5> DEFINE ats == {y.at : y \in G}
        <5>1. ats \in SUBSET Nat /\ ats # {}
          <6>1. \A y \in G : y.at \in Nat
            BY DEF Group, Reference
          <6> QED BY <4>1, <6>1
        <5>2. PICK a \in ats : \A y \in ats : a <= y
          <6> HIDE DEF ats
          <6> QED BY <5>1, NatLeast
        <5>3. PICK y \in G : a = y.at
          OBVIOUS
        <5> QED BY <5>2, <5>3
      <4>3. m \notin Enter(new) \/ m = x
        <5>1. x \in {y \in new : Cardinality(Group(refs, y)) = MaxRefs}
          BY <2>1, <3>3
        <5>2. m \in refs
          BY DEF Group
        <5>3. m \in Group(refs, x) /\ Group(refs, m) = Group(refs, x)
          BY DEF Group
        <5> DEFINE full == {y \in new : Cardinality(Group(refs, y)) = MaxRefs}
                   gone == {z \in refs : /\ \E y \in full : z \in Group(refs, y)
                                         /\ \A y \in Group(refs, z) : z.at <= y.at}
        <5>4. m \in gone
          BY <4>2, <5>1, <5>2, <5>3
        <5>5. Enter(new) = (refs \ gone) \cup new
          BY DEF Enter
        <5> HIDE DEF gone
        <5> QED BY <2>1, <5>4, <5>5
      <4>4. Group(Enter(new), r) \subseteq (G \ {m}) \cup {x}
        BY <3>1, <4>3 DEF Group
      <4>5. IsFiniteSet(G \ {m}) /\ Cardinality(G \ {m}) = Cardinality(G) - 1
        BY <2>2, <4>2, FS_RemoveElement
      <4>6. /\ IsFiniteSet((G \ {m}) \cup {x})
            /\ Cardinality((G \ {m}) \cup {x}) <= Cardinality(G \ {m}) + 1
        <5> HIDE DEF G
        <5> QED BY <4>5, AddOne
      <4>7. Cardinality((G \ {m}) \cup {x}) \in Nat
        BY <4>6, FS_CardinalityType
      <4>8. Cardinality((G \ {m}) \cup {x}) <= MaxRefs
        BY <2>2, <3>3, <4>5, <4>6, <4>7
      <4> QED BY <1>2, <4>4, <4>6, <4>8, SmallerGroup
    <3> QED BY <3>2, <3>3
  <2> QED BY <1>1, <1>2, <2>3, <2>4
<1> QED BY <1>3, <1>4

-----------------------------------------------------------------------------
(* Types *)

LEMMA BarType ==
    ASSUME NEW b \in BarShapes
    PROVE  /\ b.low \in Int /\ b.high \in Int /\ b.close \in Int /\ b.reach \in Nat
           /\ b.low <= b.high
<1>1. /\ b.low \in Int /\ b.high \in Int /\ b.close \in Int /\ b.reach \in Nat
      /\ b.low <= b.close /\ b.close <= b.high
  BY Po3Assumption
<1> QED BY <1>1

LEMMA BornType ==
    ASSUME TypeInv, NEW b \in BarShapes, NEW d \in Dirs
    PROVE  Born(b)[d] \subseteq GapRecord
<1>1. log \in Seq(RowType) /\ Len(log) \in Nat /\ gaps[d] \subseteq GapRecord
  BY DEF TypeInv, LogType
<1>2. /\ \A k \in 1 .. Len(log) : Append(log, b)[k] = log[k] /\ log[k] \in RowType
      /\ Append(log, b)[Now] = b
  BY <1>1, LogGrows DEF Now
<1>3. Now >= 3 => Append(log, b)[Now - 2] \in RowType
  <2>1. Now >= 3 => Now - 2 \in 1 .. Len(log)
    BY <1>1 DEF Now
  <2> QED BY <1>2, <2>1
<1>4. Gap(d, Append(log, b), Now) \subseteq GapRecord
  <2>1. Now \in Nat
    BY <1>1 DEF Now
  <2> QED BY <1>2, <1>3, <2>1, BarType, GapOf DEF RowType
<1> QED BY <1>1, <1>4 DEF Born

LEMMA OwnType ==
    ASSUME TypeInv, NEW b \in BarShapes, NEW d \in Dirs
    PROVE  Own(b)[d] \subseteq GapRecord
<1>1. Born(b)[Source(d)] \subseteq GapRecord
  BY BornType, SourceSide
<1> QED BY <1>1 DEF Own, Newest, Inverted

LEMMA ConfType ==
    ASSUME TypeInv, NEW b \in BarShapes, NEW hs \in SUBSET Higher, NEW d \in Dirs
    PROVE  Conf(b, hs)[d] \subseteq GapRecord
<1>1. Own(b)[d] \subseteq GapRecord
  BY OwnType
<1>2. \A h \in hs : [at |-> Now - h.back, low |-> h.low, high |-> h.high] \in GapRecord
  <2>1. \A h \in hs : h.back \in Nat /\ h.low \in Int /\ h.high \in Int
    BY Po3Assumption
  <2>2. Now \in Int
    BY DEF Now, TypeInv, LogType
  <2> QED BY <2>1, <2>2 DEF GapRecord
<1>3. Conf(b, hs)[d] = Merged(Own(b)[d], hs, d, Now)
  BY DEF Conf
<1> QED BY <1>1, <1>2, <1>3 DEF Merged

LEMMA GapsType ==
    ASSUME TypeInv, NEW b \in BarShapes, NEW sweep, NEW hs, NEW s, Row(b, sweep, hs, s)
    PROVE  gaps' \in [Dirs -> SUBSET GapRecord]
<1>1. gaps' = [d \in Dirs |-> {g \in Born(b)[d] \ Inverted(b)[Source(d)] : Now - g.at < GapAge}]
  BY DEF Row
<1>2. \A d \in Dirs : Born(b)[d] \subseteq GapRecord
  BY BornType
<1> QED BY <1>1, <1>2

LEMMA ZonesType ==
    ASSUME TypeInv, NEW b \in BarShapes, NEW d \in Dirs
    PROVE  Zones(b)[d] \subseteq ZoneRecord
<1>1. Own(b)[d] \subseteq GapRecord /\ zone[d] \subseteq ZoneRecord /\ Now \in Nat
  BY OwnType DEF TypeInv, LogType, Now
<1>2. \A g \in Own(b)[d] : Fresh(g, Now) \in ZoneRecord
  BY <1>1 DEF Fresh, GapRecord, ZoneRecord
<1>3. Zones(b)[d] = Current(d, Own(b)[d], Now)
  BY DEF Zones
<1> QED BY <1>1, <1>2, <1>3 DEF Current

LEMMA ZoneType ==
    ASSUME TypeInv, NEW b \in BarShapes, NEW sweep, NEW hs, NEW s, Row(b, sweep, hs, s)
    PROVE  /\ zone' = [d \in Dirs |-> After(d, Zones(b)[d], b, Now)]
           /\ zone' \in [Dirs -> SUBSET ZoneRecord]
<1>1. zone' = [d \in Dirs |-> After(d, Zones(b)[d], b, Now)]
  BY DEF Row, Zones
<1>2. ASSUME NEW d \in Dirs PROVE After(d, Zones(b)[d], b, Now) \subseteq ZoneRecord
  <2>1. ASSUME NEW z \in ZoneRecord
        PROVE  (IF z \in Live(Zones(b)[d], Now)
                THEN [z EXCEPT !.left = @ \/ Away(d, b, z), !.dead = Fills(d, b, z)]
                ELSE z) \in ZoneRecord
    <3>1. Away(d, b, z) \in BOOLEAN /\ Fills(d, b, z) \in BOOLEAN
      BY DEF Away, Fills
    <3>2. (z.left \/ Away(d, b, z)) \in BOOLEAN
      OBVIOUS
    <3> QED BY <3>1, <3>2 DEF ZoneRecord
  <2> QED BY <2>1, ZonesType DEF After
<1> QED BY <1>1, <1>2

(* The row that a bar adds.                                                *)
RowOf(row, b, sweep, hs, s) ==
    /\ Grows(b, row) /\ row.sweep = sweep /\ row.higher = hs
    /\ row.phase = s.phase /\ row.dir = s.dir
    /\ row.after <=> AfterIfvg(s, Now)
    /\ \A d \in Dirs : /\ row.live[d] <=> Live(Zones(b)[d], Now) # {}
                       /\ row.retest[d] <=> Retested(d, Live(Zones(b)[d], Now), b) # {}

LEMMA RowTyped ==
    ASSUME TypeInv, NEW b \in BarShapes, NEW sweep \in [Dirs -> SUBSET Int],
           NEW hs \in SUBSET Higher, NEW s \in {NoSetup} \cup Setup, Row(b, sweep, hs, s)
    PROVE  \E row : RowOf(row, b, sweep, hs, s)
<1> DEFINE live == [d \in Dirs |-> Live(Zones(b)[d], Now) # {}]
           retest == [d \in Dirs |-> Retested(d, Live(Zones(b)[d], Now), b) # {}]
           row == [low |-> b.low, high |-> b.high, close |-> b.close, known |-> swing.level,
                   sweep |-> sweep, higher |-> hs, live |-> live, retest |-> retest,
                   phase |-> s.phase, dir |-> s.dir, after |-> AfterIfvg(s, Now)]
<1>1. log' = Append(log, row) /\ variant' = variant
  BY DEF Row, Zones
<1>2. row \in RowType
  <2>1. live \in [Dirs -> BOOLEAN] /\ retest \in [Dirs -> BOOLEAN]
    OBVIOUS
  <2>2. AfterIfvg(s, Now) \in BOOLEAN
    BY DEF AfterIfvg
  <2>3. s.phase \in PhaseNames /\ s.dir \in Sides
    BY DEF NoSetup, Setup, PhaseNames, Sides, Dirs
  <2>4. swing.level \in [Dirs -> SUBSET Int]
    BY DEF TypeInv
  <2> HIDE DEF live, retest
  <2> QED BY <2>1, <2>2, <2>3, <2>4, BarType DEF RowType
<1>3. \A d \in Dirs : /\ row.live[d] <=> Live(Zones(b)[d], Now) # {}
                      /\ row.retest[d] <=> Retested(d, Live(Zones(b)[d], Now), b) # {}
  OBVIOUS
<1>4. Grows(b, row)
  <2>1. LogType /\ variant \in Variants
    BY DEF TypeInv
  <2>2. row.low = b.low /\ row.high = b.high /\ row.close = b.close
    OBVIOUS
  <2> HIDE DEF row
  <2> QED BY <1>1, <1>2, <2>1, <2>2, BarType DEF Grows
<1>5. /\ row.known = swing.level /\ row.sweep = sweep /\ row.higher = hs
      /\ row.phase = s.phase /\ row.dir = s.dir /\ row.after = AfterIfvg(s, Now)
  OBVIOUS
<1> HIDE DEF row
<1> QED BY <1>3, <1>4, <1>5 DEF RowOf

(* The swings.                                                             *)
LEMMA SwingType ==
    ASSUME TypeInv, NEW b \in BarShapes
    PROVE  NextSwing(Append(log, b)) \in [side : Sides, level : [Dirs -> SUBSET Int]]
<1> DEFINE rows == Append(log, b)
           T == [side : Sides, level : [Dirs -> SUBSET Int]]
<1>1. swing \in T /\ log \in Seq(RowType) /\ Len(log) \in Nat /\ SwingPeriod \in Nat \ {0}
  BY Po3Assumption DEF TypeInv, LogType
<1>2. Len(rows) = Len(log) + 1 /\ \A k \in 1 .. Len(log) : rows[k] = log[k]
  BY <1>1, LogGrows
<1> DEFINE side == {d \in Dirs : d # swing.side /\ Pivot(d, rows)}
           e == CHOOSE d \in side : TRUE
<1>3. CASE side = {}
  BY <1>1, <1>3 DEF NextSwing
<1>4. CASE side # {}
  <2>1. e \in Dirs /\ Pivot(e, rows)
    BY <1>4
  <2>2. NextSwing(rows) = [side |-> e, level |-> [swing.level EXCEPT ![e] =
                                                    {Attack(e, rows[Len(rows) - SwingPeriod])}]]
    BY <1>4 DEF NextSwing
  <2> HIDE DEF e, side
  <2>3. Len(rows) - SwingPeriod \in 1 .. Len(log)
    BY <1>1, <1>2, <2>1 DEF Pivot
  <2>4. rows[Len(rows) - SwingPeriod] \in RowType
    BY <1>1, <1>2, <2>3
  <2>5. Attack(e, rows[Len(rows) - SwingPeriod]) \in Int
    BY <2>4 DEF Attack, RowType
  <2>6. e \in Sides
    BY <2>1 DEF Dirs, Sides
  <2>7. PICK x \in Int : x = Attack(e, rows[Len(rows) - SwingPeriod])
    BY <2>5
  <2>8. swing.level \in [Dirs -> SUBSET Int]
    BY <1>1
  <2>9. [swing.level EXCEPT ![e] = {x}] \in [Dirs -> SUBSET Int]
    BY <2>1, <2>7, <2>8
  <2>10. NextSwing(rows) = [side |-> e, level |-> [swing.level EXCEPT ![e] = {x}]]
    BY <2>2, <2>7
  <2> QED BY <2>6, <2>9, <2>10
<1> QED BY <1>3, <1>4

-----------------------------------------------------------------------------
(* What the stages of a bar make of a setup *)

ManipulationOf(s) == s \in Setup /\ \A x, y \in s.extreme : x = y

LEMMA ManipulationType ==
    ASSUME NEW b \in BarShapes, NEW d \in Dirs, NEW t \in Nat, NEW lvl \in Int
    PROVE  ManipulationOf(Manipulation(d, b, t, lvl))
BY BarType DEF Manipulation, Setup, ManipulationOf, PhaseNames

LEMMA WiderType ==
    ASSUME NEW b \in BarShapes, NEW s, ManipulationOf(s)
    PROVE  /\ ManipulationOf(Wider(s, b))
           /\ Wider(s, b).high = IF s.high >= b.high THEN s.high ELSE b.high
           /\ Wider(s, b).low = IF s.low <= b.low THEN s.low ELSE b.low
           /\ Wider(s, b) = [s EXCEPT !.high = Wider(s, b).high, !.low = Wider(s, b).low]
<1>1. s \in Setup /\ s.high \in Int /\ s.low \in Int /\ b.high \in Int /\ b.low \in Int
  BY BarType DEF Setup, ManipulationOf
<1>2. PICK x \in Int : x = Max({s.high, b.high}) /\ x = IF s.high >= b.high THEN s.high ELSE b.high
  BY <1>1, TwoMax
<1>3. PICK y \in Int : y = Min({s.low, b.low}) /\ y = IF s.low <= b.low THEN s.low ELSE b.low
  BY <1>1, TwoMin
<1>4. Wider(s, b) = [s EXCEPT !.high = x, !.low = y]
  BY <1>1, <1>2, <1>3 DEF Wider, Setup
<1> QED BY <1>1, <1>2, <1>3, <1>4 DEF ManipulationOf, Setup

(* The leg of s grows to <<x, y>> with the bar, which reclaims the level   *)
(* if it closes back through it.                                           *)
Reclaims(s, b, x, y) ==
    /\ x = IF s.high >= b.high THEN s.high ELSE b.high
    /\ y = IF s.low <= b.low THEN s.low ELSE b.low
    /\ Reclaim(s, b) = [s EXCEPT !.high = x, !.low = y,
                           !.phase = IF s.dir * (b.close - s.ref) > 0 THEN "waiting"
                                     ELSE "manipulation"]

LEMMA ReclaimIs ==
    ASSUME NEW b \in BarShapes, NEW s, ManipulationOf(s)
    PROVE  /\ s.phase # "manipulation" => Reclaim(s, b) = s
           /\ s.phase = "manipulation" => \E x, y \in Int : Reclaims(s, b, x, y)
           /\ ManipulationOf(Reclaim(s, b))
<1>1. CASE s.phase # "manipulation"
  BY <1>1 DEF Reclaim
<1>2. CASE s.phase = "manipulation"
  <2>1. PICK w : w = Wider(s, b)
    OBVIOUS
  <2>2. s \in Setup /\ \A x, y \in s.extreme : x = y
    BY DEF ManipulationOf
  <2>3. PICK x, y \in Int :
          /\ x = IF s.high >= b.high THEN s.high ELSE b.high
          /\ y = IF s.low <= b.low THEN s.low ELSE b.low
          /\ w = [s EXCEPT !.high = x, !.low = y]
    <3>1. ManipulationOf(w)
      BY <2>1, WiderType
    <3>2. w.high \in Int /\ w.low \in Int
      BY <3>1 DEF ManipulationOf, Setup
    <3> QED BY <2>1, <3>2, WiderType
  <2>4. Reclaim(s, b) = IF s.dir * (b.close - s.ref) > 0 THEN [w EXCEPT !.phase = "waiting"] ELSE w
    BY <1>2, <2>1 DEF Reclaim
  <2>5. Reclaim(s, b) =
          [s EXCEPT !.high = x, !.low = y,
                    !.phase = IF s.dir * (b.close - s.ref) > 0 THEN "waiting" ELSE "manipulation"]
    BY <1>2, <2>2, <2>3, <2>4 DEF Setup
  <2>6. ManipulationOf(Reclaim(s, b))
    BY <2>2, <2>3, <2>5 DEF ManipulationOf, Setup, PhaseNames
  <2>7. Reclaims(s, b, x, y)
    BY <2>3, <2>5 DEF Reclaims
  <2> QED BY <1>2, <2>6, <2>7
<1> QED BY <1>1, <1>2

LEMMA ExcursionIs ==
    ASSUME NEW b \in BarShapes, NEW s, ManipulationOf(s)
    PROVE  /\ \E x \in SUBSET Int : Excursion(s, b) = [s EXCEPT !.extreme = x]
           /\ ManipulationOf(Excursion(s, b))
<1>1. s \in Setup /\ s.extreme \in SUBSET Int /\ \A x, y \in s.extreme : x = y
  BY DEF ManipulationOf, Setup
<1>2. s = [s EXCEPT !.extreme = s.extreme]
  BY <1>1 DEF Setup
<1>3. CASE Excursion(s, b) = s
  BY <1>1, <1>2, <1>3 DEF ManipulationOf
<1>4. CASE Excursion(s, b) # s
  <2> DEFINE seen == s.extreme \cup {Attack(s.dir, b)}
  <2>1. PICK a \in Int : a = Attack(s.dir, b)
    BY BarType DEF Attack
  <2>2. PICK e \in Int : seen = {e, a}
    <3>1. CASE s.extreme = {}
      BY <2>1, <3>1
    <3>2. CASE s.extreme # {}
      BY <1>1, <2>1, <3>2
    <3> QED BY <3>1, <3>2
  <2>3. PICK x \in Int : x = IF s.dir = 1 THEN Min(seen) ELSE Max(seen)
    <3> HIDE DEF seen
    <3> QED BY <2>1, <2>2, TwoMin, TwoMax
  <2>4. Excursion(s, b) = [s EXCEPT !.extreme = {x}]
    BY <1>4, <2>3 DEF Excursion
  <2>5. {x} \in SUBSET Int /\ \A y, z \in {x} : y = z
    OBVIOUS
  <2>6. ManipulationOf([s EXCEPT !.extreme = {x}])
    BY <1>1, <2>5 DEF ManipulationOf, Setup
  <2> QED BY <2>4, <2>5, <2>6
<1> QED BY <1>3, <1>4

-----------------------------------------------------------------------------
(* The history of a setup *)

IsHighest(x, ks) == (\E k \in ks : log[k].high = x) /\ \A k \in ks : log[k].high <= x
IsLowest(x, ks)  == (\E k \in ks : log[k].low = x) /\ \A k \in ks : x <= log[k].low

(* The last row says what the setup is.                                    *)
RowInv ==
    log # <<>> => /\ log[Len(log)].dir = setup.dir
                  /\ log[Len(log)].after <=> AfterIfvg(setup, Len(log))

(* The revised mode: the last unambiguous sweep, the first close back      *)
(* through its level, and the first bar from there on with a gap of the    *)
(* setup.                                                                  *)
ReclaimBar(s, d, lvl) == First({k \in Between(s, Len(log)) : d * (log[k].close - lvl) > 0})
ConfirmBar(r, s, d) == First({k \in Between(r, Len(log)) : EligibleAt(d, s, k) # {}})

RevisedAs(s, d, lvl, r, c) ==
    /\ setup.dir = d /\ setup.ref = lvl /\ setup.at = s
    /\ setup.phase = IF r = 0 THEN "manipulation" ELSE IF c = 0 THEN "waiting" ELSE "distribution"
    /\ IsHighest(setup.high, s .. (IF r = 0 THEN Len(log) ELSE r))
    /\ IsLowest(setup.low, s .. (IF r = 0 THEN Len(log) ELSE r))
    /\ r # 0 /\ c # 0 => setup.since = c /\ setup.zone = Newest(EligibleAt(d, s, c))

RevisedInv ==
    variant.phases = "revised" => \A s \in 0 .. Len(log) : s = LastSingle =>
        IF s = 0 THEN setup = NoSetup
        ELSE \E d \in Dirs : \E lvl \in log[s].sweep[d], r, c \in 0 .. Len(log) :
                 r = ReclaimBar(s, d, lvl) /\ c = ConfirmBar(r, s, d) /\ RevisedAs(s, d, lvl, r, c)

(* The legacy mode: the last sweep, the first close beyond its leg, and    *)
(* the confirmations since the side turned.                                *)
LegBroken(s, d) ==
    First({k \in Between(s + 1, Len(log)) :
              d * (log[k].close - IF d = 1 THEN Highest(Between(s, k - 1))
                                  ELSE Lowest(Between(s, k - 1))) > 0})

(* Since bar l the side has been confirmed as the arm of the setup says.   *)
ArmSays(arm, d, l, n) ==
    /\ arm = "off" <=> \A k \in l .. n : InvertedAt(d, k) = {}
    /\ arm = "armed" <=> \E k, m \in l .. n :
                             m < k /\ InvertedAt(d, m) # {} /\ InvertedAt(d, k) = {}

LegacyAs(s, d, e, l) ==
    /\ setup.dir = d /\ log[s].dir = d /\ log[s].sweep[d] # {}
    /\ setup.phase = IF e = 0 THEN "manipulation" ELSE "distribution"
    /\ e = 0 => IsHighest(setup.high, s .. Len(log)) /\ IsLowest(setup.low, s .. Len(log))
    /\ ArmSays(setup.arm, d, l, Len(log))

LegacyInv ==
    variant.phases = "legacy" => \A s \in 0 .. Len(log) : s = LastSweep =>
        IF s = 0 THEN setup = NoSetup
        ELSE \E d \in Dirs, e \in 0 .. Len(log), l \in 1 .. Len(log) :
                 e = LegBroken(s, d) /\ l = LastTurn /\ LegacyAs(s, d, e, l)

(* Extremes over bars of the past, and over one more.                      *)
LEMMA SameExtremes ==
    ASSUME NEW b, NEW row, Grows(b, row), NEW ks \in SUBSET (1 .. Len(log)), NEW x
    PROVE  (IsHighest(x, ks)' <=> IsHighest(x, ks)) /\ (IsLowest(x, ks)' <=> IsLowest(x, ks))
<1>1. \A k \in ks : log'[k] = log[k]
  BY Rows
<1> QED BY <1>1 DEF IsHighest, IsLowest

LEMMA HighestStep ==
    ASSUME NEW b, NEW row, Grows(b, row), NEW s \in 1 .. Now, NEW x \in Int, NEW y \in Int,
           s <= Len(log) => IsHighest(x, s .. Len(log)), s = Now => x = b.high,
           y = IF x >= b.high THEN x ELSE b.high
    PROVE  \A n \in {Now} : IsHighest(y, s .. n)'
<1>1. /\ Len(log) \in Nat /\ Now = Len(log) + 1 /\ log'[Now] = row
      /\ row.high = b.high /\ b.high \in Int
  BY Rows DEF Now, Grows, RowType
<1>2. \A k \in 1 .. Len(log) : log'[k] = log[k] /\ log[k].high \in Int
  BY Rows DEF RowType
<1>3. log'[Now].high = b.high
  BY <1>1
<1>4. CASE s = Now
  <2>1. y = b.high /\ s .. Now = {Now}
    BY <1>1, <1>4
  <2> QED BY <1>3, <2>1 DEF IsHighest
<1>5. CASE s <= Len(log)
  <2>1. (\E k \in s .. Len(log) : log[k].high = x) /\ \A k \in s .. Len(log) : log[k].high <= x
    BY <1>5 DEF IsHighest
  <2>2. \A k : k \in s .. Now <=> k \in s .. Len(log) \/ k = Now
    BY <1>1, <1>5
  <2>3. \E k \in s .. Now : log'[k].high = y
    BY <1>1, <1>2, <1>3, <2>1, <2>2
  <2>4. \A k \in s .. Now : log'[k].high <= y
    BY <1>1, <1>2, <1>3, <2>1, <2>2
  <2> QED BY <2>3, <2>4 DEF IsHighest
<1> QED BY <1>1, <1>4, <1>5

LEMMA LowestStep ==
    ASSUME NEW b, NEW row, Grows(b, row), NEW s \in 1 .. Now, NEW x \in Int, NEW y \in Int,
           s <= Len(log) => IsLowest(x, s .. Len(log)), s = Now => x = b.low,
           y = IF x <= b.low THEN x ELSE b.low
    PROVE  \A n \in {Now} : IsLowest(y, s .. n)'
<1>1. /\ Len(log) \in Nat /\ Now = Len(log) + 1 /\ log'[Now] = row
      /\ row.low = b.low /\ b.low \in Int
  BY Rows DEF Now, Grows, RowType
<1>2. \A k \in 1 .. Len(log) : log'[k] = log[k] /\ log[k].low \in Int
  BY Rows DEF RowType
<1>3. log'[Now].low = b.low
  BY <1>1
<1>4. CASE s = Now
  <2>1. y = b.low /\ s .. Now = {Now}
    BY <1>1, <1>4
  <2> QED BY <1>3, <2>1 DEF IsLowest
<1>5. CASE s <= Len(log)
  <2>1. (\E k \in s .. Len(log) : log[k].low = x) /\ \A k \in s .. Len(log) : x <= log[k].low
    BY <1>5 DEF IsLowest
  <2>2. \A k : k \in s .. Now <=> k \in s .. Len(log) \/ k = Now
    BY <1>1, <1>5
  <2>3. \E k \in s .. Now : log'[k].low = y
    BY <1>1, <1>2, <1>3, <2>1, <2>2
  <2>4. \A k \in s .. Now : y <= log'[k].low
    BY <1>1, <1>2, <1>3, <2>1, <2>2
  <2> QED BY <2>3, <2>4 DEF IsLowest
<1> QED BY <1>1, <1>4, <1>5

(* The sides a bar sweeps are those its row says.                          *)
SweptNow(row) == {d \in Dirs : row.sweep[d] # {}}

LEMMA SidesStep ==
    ASSUME NEW b, NEW row, Grows(b, row)
    PROVE  /\ \A k \in 1 .. Len(log) : SidesOf(k)' = SidesOf(k)
           /\ \A k \in {Now} : SidesOf(k)' = SweptNow(row)
<1>1. /\ \A k \in 1 .. Len(log) : log'[k] = log[k]
      /\ log'[Now] = row
  BY Rows DEF Now
<1> QED BY <1>1 DEF SidesOf, SweptNow

LEMMA LastSingleStep ==
    ASSUME NEW b, NEW row, Grows(b, row)
    PROVE  /\ LastSingle \in 0 .. Len(log)
           /\ LastSingle' = IF Cardinality(SweptNow(row)) = 1 THEN Now ELSE LastSingle
<1>1. Len(log) \in Nat /\ Len(log') = Len(log) + 1
  BY Rows
<1> DEFINE ks == {k \in 1 .. Len(log) : Cardinality(SidesOf(k)) = 1}
           js == {k \in 1 .. Len(log') : Cardinality(SidesOf(k)') = 1}
<1>2. LastSingle = Last(ks) /\ LastSingle' = Last(js)
  BY DEF LastSingle, Last
<1>3. \A k \in 1 .. Len(log) : k \in js <=> k \in ks
  BY <1>1, SidesStep
<1>4. Len(log) + 1 \in js <=> Cardinality(SweptNow(row)) = 1
  <2>1. \A k \in {Now} : k \in js <=> Cardinality(SweptNow(row)) = 1
    BY <1>1, SidesStep DEF Now
  <2> QED BY <2>1 DEF Now
<1>5. ks \in SUBSET (1 .. Len(log)) /\ js \in SUBSET (1 .. (Len(log) + 1))
  BY <1>1
<1> HIDE DEF ks, js
<1>6. Last(js) = IF Len(log) + 1 \in js THEN Len(log) + 1 ELSE Last(ks)
  BY <1>1, <1>3, <1>5, LastStep
<1>7. Last(ks) \in 0 .. Len(log)
  BY <1>1, <1>5, LastOf
<1> QED BY <1>2, <1>4, <1>6, <1>7 DEF Now

LEMMA LastSweepStep ==
    ASSUME NEW b, NEW row, Grows(b, row)
    PROVE  /\ LastSweep \in 0 .. Len(log)
           /\ LastSweep' = IF SweptNow(row) # {} THEN Now ELSE LastSweep
<1>1. Len(log) \in Nat /\ Len(log') = Len(log) + 1
  BY Rows
<1> DEFINE ks == {k \in 1 .. Len(log) : SidesOf(k) # {}}
           js == {k \in 1 .. Len(log') : SidesOf(k)' # {}}
<1>2. LastSweep = Last(ks) /\ LastSweep' = Last(js)
  BY DEF LastSweep, Last
<1>3. \A k \in 1 .. Len(log) : k \in js <=> k \in ks
  BY <1>1, SidesStep
<1>4. Len(log) + 1 \in js <=> SweptNow(row) # {}
  <2>1. \A k \in {Now} : k \in js <=> SweptNow(row) # {}
    BY <1>1, SidesStep DEF Now
  <2> QED BY <2>1 DEF Now
<1>5. ks \in SUBSET (1 .. Len(log)) /\ js \in SUBSET (1 .. (Len(log) + 1))
  BY <1>1
<1> HIDE DEF ks, js
<1>6. Last(js) = IF Len(log) + 1 \in js THEN Len(log) + 1 ELSE Last(ks)
  BY <1>1, <1>3, <1>5, LastStep
<1>7. Last(ks) \in 0 .. Len(log)
  BY <1>1, <1>5, LastOf
<1> QED BY <1>2, <1>4, <1>6, <1>7 DEF Now

(* A setup swept on bar s is reclaimed on the first close that does so.    *)
LEMMA ReclaimStep ==
    ASSUME NEW b, NEW row, Grows(b, row), NEW s \in 1 .. Now, NEW d, NEW lvl
    PROVE  /\ ReclaimBar(s, d, lvl) \in 0 .. Len(log)
           /\ ReclaimBar(s, d, lvl) # 0 => s <= ReclaimBar(s, d, lvl)
           /\ s = Now => ReclaimBar(s, d, lvl) = 0
           /\ ReclaimBar(s, d, lvl)' = IF ReclaimBar(s, d, lvl) # 0 THEN ReclaimBar(s, d, lvl)
                                       ELSE IF d * (b.close - lvl) > 0 THEN Now ELSE 0
<1>1. /\ Len(log) \in Nat /\ Len(log') = Len(log) + 1 /\ log'[Now] = row
      /\ row.close = b.close /\ Now = Len(log) + 1
      /\ \A k \in 1 .. Len(log) : log'[k] = log[k]
  BY Rows DEF Now, Grows
<1> DEFINE ks == {k \in Between(s, Len(log)) : d * (log[k].close - lvl) > 0}
           js == {k \in Between(s, Len(log))' : d * (log'[k].close - lvl) > 0}
<1>2. ReclaimBar(s, d, lvl) = First(ks) /\ ReclaimBar(s, d, lvl)' = First(js)
  BY DEF ReclaimBar, First
<1>3. /\ \A k : k \in Between(s, Len(log)) <=> k \in s .. Len(log)
      /\ \A k : k \in Between(s, Len(log))' <=> k \in s .. Now
  BY <1>1 DEF Between
<1>4. \A k \in 1 .. Len(log) : k \in js <=> k \in ks
  BY <1>1, <1>3
<1>5. Now \in js <=> d * (b.close - lvl) > 0
  BY <1>1, <1>3
<1>6. ks \in SUBSET (1 .. Len(log)) /\ js \in SUBSET (1 .. (Len(log) + 1))
  BY <1>1, <1>3
<1>7. (\A k \in ks : s <= k) /\ (s = Now => ks = {})
  BY <1>1, <1>3
<1> HIDE DEF ks, js
<1>8. First(js) = IF First(ks) # 0 THEN First(ks)
                  ELSE IF Len(log) + 1 \in js THEN Len(log) + 1 ELSE 0
  BY <1>1, <1>4, <1>6, FirstStep
<1>9. First(ks) \in 0 .. Len(log) /\ (First(ks) = 0 <=> ks = {}) /\ (ks # {} => First(ks) \in ks)
  BY <1>1, <1>6, FirstOf
<1> QED BY <1>1, <1>2, <1>5, <1>7, <1>8, <1>9

(* The gaps that bar k confirms a setup of side d, swept on bar s, with.   *)
LEMMA OldEligible ==
    ASSUME NEW b, NEW row, Grows(b, row), NEW d \in Dirs, NEW s, NEW k \in 1 .. Len(log)
    PROVE  EligibleAt(d, s, k)' = EligibleAt(d, s, k)
<1>1. InvertedAt(d, k)' = InvertedAt(d, k) /\ log'[k] = log[k]
  BY OldInverted, Rows
<1> QED BY <1>1 DEF EligibleAt, Merged

Fits(s, g) == s <= g.at /\ Now - g.at <= SetupAge

(* What the machine finds on this bar is what EligibleAt will say of it.   *)
LEMMA NowEligible ==
    ASSUME GapsInv, NEW b, NEW row, Grows(b, row), NEW d \in Dirs, NEW s \in Nat,
           NEW hs \in {{}} \cup {{h} : h \in Higher}, row.higher = hs
    PROVE  \A k \in {Now} :
             /\ (\E g \in Conf(b, hs)[d] : Fits(s, g) /\ g.at <= Now) <=> EligibleAt(d, s, k)' # {}
             /\ EligibleAt(d, s, k)' # {} => Conf(b, hs)[d] = Newest(EligibleAt(d, s, k)')
<1> SUFFICES ASSUME NEW k \in {Now}
             PROVE  /\ (\E g \in Conf(b, hs)[d] : Fits(s, g) /\ g.at <= Now) <=> EligibleAt(d, s, k)' # {}
                    /\ EligibleAt(d, s, k)' # {} => Conf(b, hs)[d] = Newest(EligibleAt(d, s, k)')
  OBVIOUS
<1>1. k = Now /\ Now \in Nat /\ log'[k].higher = hs
  BY Rows DEF Now
<1>2. InvertedAt(d, k)' = Inverted(b)[d]
  BY NowInverted
<1>3. Conf(b, hs)[d] = Merged(Own(b)[d], hs, d, Now) /\ Own(b)[d] = Newest(Inverted(b)[d])
  BY DEF Conf, Own
<1>4. EligibleAt(d, s, k)' = {g \in IF Inverted(b)[d] # {} THEN Inverted(b)[d]
                                    ELSE Merged({}, hs, d, Now) : Fits(s, g)}
  BY <1>1, <1>2 DEF EligibleAt, Fits, Merged
<1>5. CASE Inverted(b)[d] # {}
  <2>1. PICK g \in Inverted(b)[d] : /\ Own(b)[d] = {g} /\ g.at \in 1 .. Now
                                    /\ \A x \in Inverted(b)[d] : x.at <= g.at
    BY <1>5, NowOne
  <2>2. Conf(b, hs)[d] = {g}
    BY <1>3, <2>1 DEF Merged
  <2>3. EligibleAt(d, s, k)' = {x \in Inverted(b)[d] : Fits(s, x)}
    BY <1>4, <1>5
  <2>4. ASSUME NEW x \in Inverted(b)[d], Fits(s, x) PROVE Fits(s, g)
    <3>1. x.at \in Int
      <4>1. \A e \in Dirs : IsGap(e, x)' => x.at \in Int
        BY DEF IsGap
      <4>2. FirstThrough(d, x, k)'
        <5>1. LogType' /\ k \in 1 .. Len(log')
          BY <1>1, Rows DEF Now
        <5> QED BY <1>2, <5>1, InvertedNext
      <4> QED BY <4>2 DEF FirstThrough, IsGap
    <3>2. SetupAge \in Nat /\ x.at <= g.at
      BY <2>1, Po3Assumption
    <3> QED BY <1>1, <2>1, <2>4, <3>1, <3>2 DEF Fits
  <2>5. Fits(s, g) => Newest(EligibleAt(d, s, k)') = {g}
    <3>1. ASSUME Fits(s, g), NEW x \in Newest(EligibleAt(d, s, k)') PROVE x = g
      <4>1. x \in Inverted(b)[d] /\ g.at <= x.at
        BY <2>1, <2>3, <3>1 DEF Newest
      <4>2. \A y \in Inverted(b)[d] : y.at <= x.at
        <5>1. \A y \in Inverted(b)[d] : y.at \in Int
          <6>1. LogType' /\ k \in 1 .. Len(log')
            BY <1>1, Rows DEF Now
          <6>2. \A y \in Inverted(b)[d] : FirstThrough(d, y, k)'
            BY <1>2, <6>1, InvertedNext
          <6> QED BY <6>2 DEF FirstThrough, IsGap
        <5>2. \A y \in Inverted(b)[d] : y.at <= g.at /\ g.at \in Int
          BY <2>1
        <5> QED BY <4>1, <5>1, <5>2
      <4>3. x \in Newest(Inverted(b)[d])
        BY <4>1, <4>2 DEF Newest
      <4> QED BY <1>3, <2>1, <4>3
    <3>2. Fits(s, g) => g \in Newest(EligibleAt(d, s, k)')
      BY <2>1, <2>3 DEF Newest
    <3> QED BY <3>1, <3>2
  <2>6. g.at <= Now
    BY <2>1
  <2> QED BY <2>1, <2>2, <2>3, <2>4, <2>5, <2>6
<1>6. CASE Inverted(b)[d] = {}
  <2>1. Own(b)[d] = {}
    BY <1>3, <1>6 DEF Newest
  <2>2. EligibleAt(d, s, k)' = {g \in Conf(b, hs)[d] : Fits(s, g)}
    BY <1>3, <1>4, <1>6, <2>1
  <2>3. CASE Conf(b, hs)[d] = {}
    BY <2>2, <2>3
  <2>4. CASE Conf(b, hs)[d] # {}
    <3>1. PICK h \in Higher : hs = {h} /\ Conf(b, hs)[d] = {[at |-> Now - h.back, low |-> h.low, high |-> h.high]}
      BY <1>3, <2>1, <2>4 DEF Merged
    <3>2. PICK g : Conf(b, hs)[d] = {g} /\ g.at \in Int /\ g.at <= Now
      <4>1. h.back \in Nat
        BY Po3Assumption
      <4>2. PICK g : g = [at |-> Now - h.back, low |-> h.low, high |-> h.high]
        OBVIOUS
      <4>3. g.at = Now - h.back
        BY <4>2
      <4>4. g.at \in Int /\ g.at <= Now
        BY <1>1, <4>1, <4>3
      <4> QED BY <3>1, <4>2, <4>4
    <3>3. Newest({g}) = {g}
      BY <3>2 DEF Newest
    <3>4. CASE Fits(s, g)
      <4>1. EligibleAt(d, s, k)' = {g}
        BY <2>2, <3>2, <3>4
      <4> QED BY <3>2, <3>3, <3>4, <4>1
    <3>5. CASE ~ Fits(s, g)
      <4>1. EligibleAt(d, s, k)' = {}
        BY <2>2, <3>2, <3>5
      <4> QED BY <3>2, <3>5, <4>1
    <3> QED BY <3>4, <3>5
  <2> QED BY <2>3, <2>4
<1> QED BY <1>5, <1>6

LEMMA ConfirmStep ==
    ASSUME NEW b, NEW row, Grows(b, row), NEW r \in 0 .. Now, NEW s, NEW d \in Dirs
    PROVE  /\ ConfirmBar(r, s, d) \in 0 .. Len(log)
           /\ ConfirmBar(r, s, d)' \in 0 .. Now
           /\ r = Now => ConfirmBar(r, s, d) = 0
           /\ r # 0 => \A k \in {Now} :
                ConfirmBar(r, s, d)' = IF ConfirmBar(r, s, d) # 0 THEN ConfirmBar(r, s, d)
                                       ELSE IF EligibleAt(d, s, k)' # {} THEN Now ELSE 0
<1>1. /\ Len(log) \in Nat /\ Len(log') = Len(log) + 1 /\ Now = Len(log) + 1
  BY Rows DEF Now
<1> DEFINE ks == {k \in Between(r, Len(log)) : EligibleAt(d, s, k) # {}}
           js == {k \in Between(r, Len(log))' : EligibleAt(d, s, k)' # {}}
<1>2. ConfirmBar(r, s, d) = First(ks) /\ ConfirmBar(r, s, d)' = First(js)
  BY DEF ConfirmBar, First
<1>3. /\ \A k : k \in Between(r, Len(log)) <=> k \in 1 .. Len(log) /\ r <= k
      /\ \A k : k \in Between(r, Len(log))' <=> k \in 1 .. Now /\ r <= k
  BY <1>1 DEF Between
<1>4. \A k \in 1 .. Len(log) : k \in js <=> k \in ks
  <2>1. \A k \in 1 .. Len(log) : EligibleAt(d, s, k)' = EligibleAt(d, s, k)
    BY OldEligible
  <2> QED BY <1>1, <1>3, <2>1
<1>5. \A k \in {Now} : Now \in js <=> EligibleAt(d, s, k)' # {}
  <2>1. \A k \in {Now} : k \in js <=> EligibleAt(d, s, k)' # {}
    BY <1>1, <1>3
  <2> QED BY <2>1
<1>6. ks \in SUBSET (1 .. Len(log)) /\ js \in SUBSET (1 .. (Len(log) + 1))
  BY <1>1, <1>3
<1>7. r = Now => ks = {}
  BY <1>1, <1>3
<1> HIDE DEF ks, js
<1>8. First(js) = IF First(ks) # 0 THEN First(ks)
                  ELSE IF Len(log) + 1 \in js THEN Len(log) + 1 ELSE 0
  BY <1>1, <1>4, <1>6, FirstStep
<1>9. First(ks) \in 0 .. Len(log) /\ (First(ks) = 0 <=> ks = {})
  BY <1>1, <1>6, FirstOf
<1>10. First(js) \in 0 .. (Len(log) + 1)
  BY <1>1, <1>6, FirstOf
<1> QED BY <1>1, <1>2, <1>5, <1>7, <1>8, <1>9, <1>10

(* The setup s1 that a bar starts from, a new one or the one it finds,     *)
(* stands where the bars before this one have brought it.                  *)
Before(s1, b, s, d, lvl) ==
    LET r == ReclaimBar(s, d, lvl)
        c == ConfirmBar(r, s, d)
    IN  /\ ManipulationOf(s1) /\ s1.dir = d /\ s1.ref = lvl /\ s1.at = s
        /\ s1.phase = IF r = 0 THEN "manipulation" ELSE IF c = 0 THEN "waiting" ELSE "distribution"
        /\ s <= Len(log) => /\ IsHighest(s1.high, s .. (IF r = 0 THEN Len(log) ELSE r))
                            /\ IsLowest(s1.low, s .. (IF r = 0 THEN Len(log) ELSE r))
        /\ s = Now => s1.high = b.high /\ s1.low = b.low
        /\ r # 0 /\ c # 0 => s1.since = c /\ s1.zone = Newest(EligibleAt(d, s, c))

(* Reclaim moves the leg and the phase with the bar.                       *)
LEMMA ReclaimStage ==
    ASSUME NEW b \in BarShapes, NEW row, Grows(b, row), NEW s \in 1 .. Now, NEW d \in Dirs,
           NEW lvl, NEW s1, Before(s1, b, s, d, lvl), NEW s2, s2 = Reclaim(s1, b),
           NEW r, r = ReclaimBar(s, d, lvl)'
    PROVE  /\ ManipulationOf(s2) /\ s2.dir = d /\ s2.at = s /\ s2.ref = lvl
           /\ s2.zone = s1.zone /\ s2.since = s1.since
           /\ s2.phase = IF r = 0 THEN "manipulation"
                         ELSE IF ReclaimBar(s, d, lvl) # 0 /\ s1.phase = "distribution"
                              THEN "distribution" ELSE "waiting"
           /\ \A n \in {Now} : /\ IsHighest(s2.high, s .. (IF r = 0 THEN n ELSE r))'
                               /\ IsLowest(s2.low, s .. (IF r = 0 THEN n ELSE r))'
<1> DEFINE q == ReclaimBar(s, d, lvl)
<1>1. /\ q \in 0 .. Len(log) /\ (q # 0 => s <= q) /\ (s = Now => q = 0)
      /\ r = IF q # 0 THEN q ELSE IF d * (b.close - lvl) > 0 THEN Now ELSE 0
  BY ReclaimStep
<1>2. Len(log) \in Nat /\ Now = Len(log) + 1
  BY Rows DEF Now
<1>3. /\ ManipulationOf(s1) /\ s1.dir = d /\ s1.ref = lvl /\ s1.at = s
      /\ s1.phase = "manipulation" <=> q = 0
  BY DEF Before
<1>4. s1 \in Setup /\ s1.high \in Int /\ s1.low \in Int
  BY <1>3 DEF ManipulationOf, Setup
<1> HIDE DEF q
<1>5. CASE q # 0
  <2>1. s2 = s1
    BY <1>3, <1>5, ReclaimIs
  <2>2. r = q /\ s <= Len(log) /\ s .. q \in SUBSET (1 .. Len(log)) /\ r # 0
    BY <1>1, <1>2, <1>5
  <2>3. IsHighest(s1.high, s .. q) /\ IsLowest(s1.low, s .. q)
    BY <1>5, <2>2 DEF Before, q
  <2>4. PICK x, y : x = s1.high /\ y = s1.low
    OBVIOUS
  <2>5. PICK ks : ks = s .. q
    OBVIOUS
  <2>6. IsHighest(x, ks)' /\ IsLowest(y, ks)'
    <3>1. IsHighest(x, ks) /\ IsLowest(y, ks) /\ ks \in SUBSET (1 .. Len(log))
      BY <2>2, <2>3, <2>4, <2>5
    <3> QED BY <3>1, SameExtremes
  <2>7. ASSUME NEW n \in {Now}
        PROVE  /\ IsHighest(s2.high, s .. (IF r = 0 THEN n ELSE r))'
               /\ IsLowest(s2.low, s .. (IF r = 0 THEN n ELSE r))'
    <3>1. s2.high = x /\ s2.low = y /\ (s .. (IF r = 0 THEN n ELSE r)) = ks
      BY <2>1, <2>2, <2>4, <2>5
    <3> QED BY <2>6, <3>1 DEF IsHighest, IsLowest
  <2>8. s1.phase \in {"waiting", "distribution"}
    BY <1>3, <1>4, <1>5 DEF Setup, PhaseNames
  <2> QED BY <1>3, <1>5, <2>1, <2>2, <2>7, <2>8 DEF q
<1>6. CASE q = 0
  <2>1. PICK x, y \in Int :
          /\ x = IF s1.high >= b.high THEN s1.high ELSE b.high
          /\ y = IF s1.low <= b.low THEN s1.low ELSE b.low
          /\ s2 = [s1 EXCEPT !.high = x, !.low = y,
                             !.phase = IF d * (b.close - lvl) > 0 THEN "waiting" ELSE "manipulation"]
    <3>1. s1.phase = "manipulation"
      BY <1>3, <1>6
    <3>2. PICK x, y \in Int : Reclaims(s1, b, x, y)
      BY <1>3, <3>1, ReclaimIs
    <3>3. s2 = [s1 EXCEPT !.high = x, !.low = y,
                          !.phase = IF d * (b.close - lvl) > 0 THEN "waiting" ELSE "manipulation"]
      BY <1>3, <3>2 DEF Reclaims
    <3> QED BY <3>2, <3>3 DEF Reclaims
  <2>2. r = IF d * (b.close - lvl) > 0 THEN Now ELSE 0
    BY <1>1, <1>6
  <2>3. /\ s2.high = x /\ s2.low = y /\ s2.dir = d /\ s2.at = s /\ s2.ref = lvl
        /\ s2.zone = s1.zone /\ s2.since = s1.since
        /\ s2.phase = IF d * (b.close - lvl) > 0 THEN "waiting" ELSE "manipulation"
    BY <1>3, <1>4, <2>1 DEF Setup
  <2>4. \A n \in {Now} : IsHighest(x, s .. n)' /\ IsLowest(y, s .. n)'
    <3>1. PICK u \in Int, v \in Int : u = s1.high /\ v = s1.low
      BY <1>4
    <3>2. s <= Len(log) => IsHighest(u, s .. Len(log)) /\ IsLowest(v, s .. Len(log))
      BY <1>6, <3>1 DEF Before, q
    <3>3. s = Now => u = b.high /\ v = b.low
      BY <3>1 DEF Before
    <3>4. x = (IF u >= b.high THEN u ELSE b.high) /\ y = (IF v <= b.low THEN v ELSE b.low)
      BY <2>1, <3>1
    <3>5. \A n \in {Now} : IsHighest(x, s .. n)'
      BY <3>2, <3>3, <3>4, HighestStep
    <3>6. \A n \in {Now} : IsLowest(y, s .. n)'
      BY <3>2, <3>3, <3>4, LowestStep
    <3> QED BY <3>5, <3>6
  <2>5. ASSUME NEW n \in {Now}
        PROVE  /\ IsHighest(s2.high, s .. (IF r = 0 THEN n ELSE r))'
               /\ IsLowest(s2.low, s .. (IF r = 0 THEN n ELSE r))'
    <3>1. s2.high = x /\ s2.low = y /\ (s .. (IF r = 0 THEN n ELSE r)) = s .. n
      BY <2>2, <2>3
    <3> QED BY <2>4, <3>1 DEF IsHighest, IsLowest
  <2>6. ManipulationOf(s2)
    BY <1>3, ReclaimIs
  <2>7. r = 0 <=> ~ (d * (b.close - lvl) > 0)
    BY <1>2, <2>2
  <2> QED BY <1>6, <2>3, <2>5, <2>6, <2>7 DEF q
<1> QED BY <1>5, <1>6

(* Then the gaps inverted by now confirm the setup once it is reclaimed.   *)
LEMMA DistributeStage ==
    ASSUME TypeInv, GapsInv, NEW b \in BarShapes, NEW row, Grows(b, row), NEW s \in 1 .. Now,
           NEW d \in Dirs, NEW lvl, NEW s1, Before(s1, b, s, d, lvl), NEW s2, s2 = Reclaim(s1, b),
           NEW hs \in {{}} \cup {{h} : h \in Higher}, row.higher = hs,
           NEW s3, s3 = Distribute(s2, Conf(b, hs), Now),
           NEW r, r = ReclaimBar(s, d, lvl)', r \in 0 .. Now,
           NEW c, c = ConfirmBar(r, s, d)'
    PROVE  /\ ManipulationOf(s3) /\ s3.dir = d /\ s3.at = s /\ s3.ref = lvl
           /\ s3.high = s2.high /\ s3.low = s2.low
           /\ s3.phase = IF r = 0 THEN "manipulation" ELSE IF c = 0 THEN "waiting" ELSE "distribution"
           /\ r # 0 /\ c # 0 => s3.since = c /\ s3.zone = Newest(EligibleAt(d, s, c))'
<1>1. Len(log) \in Nat /\ Now = Len(log) + 1 /\ Now \in Nat /\ s \in Nat
  BY Rows DEF Now
<1>2. PICK q, c0 : q = ReclaimBar(s, d, lvl) /\ c0 = ConfirmBar(r, s, d)
  OBVIOUS
<1>3. /\ ManipulationOf(s2) /\ s2.dir = d /\ s2.at = s /\ s2.ref = lvl
      /\ s2.zone = s1.zone /\ s2.since = s1.since
      /\ s2.phase = IF r = 0 THEN "manipulation"
                    ELSE IF q # 0 /\ s1.phase = "distribution" THEN "distribution" ELSE "waiting"
  BY <1>2, ReclaimStage
<1>4. s2 \in Setup /\ \A x, y \in s2.extreme : x = y
  BY <1>3 DEF ManipulationOf
<1>5. CASE r = 0
  <2>1. s3 = s2
    BY <1>3, <1>5 DEF Distribute
  <2> QED BY <1>3, <1>5, <2>1
<1>6. CASE r # 0
  <2>1. /\ c0 \in 0 .. Len(log) /\ (r = Now => c0 = 0)
        /\ \A k \in {Now} : c = IF c0 # 0 THEN c0 ELSE IF EligibleAt(d, s, k)' # {} THEN Now ELSE 0
    BY <1>2, <1>6, ConfirmStep
  <2>2. q # 0 => r = q
    BY <1>2, ReclaimStep
  <2>3. q = 0 => r = Now
    BY <1>2, <1>6, ReclaimStep
  <2>4. q # 0 => s1.phase = IF c0 = 0 THEN "waiting" ELSE "distribution"
    BY <1>2, <2>2 DEF Before
  <2>5. s2.phase = IF c0 = 0 THEN "waiting" ELSE "distribution"
    BY <1>3, <1>6, <2>1, <2>3, <2>4
  <2>6. CASE c0 # 0
    <3>1. s3 = s2
      BY <2>5, <2>6 DEF Distribute
    <3>2. c = c0 /\ c0 \in 1 .. Len(log) /\ q # 0
      BY <2>1, <2>3, <2>6
    <3>3. s1.since = c0 /\ s1.zone = Newest(EligibleAt(d, s, c0))
      BY <1>2, <2>2, <2>6, <3>2 DEF Before
    <3>4. Newest(EligibleAt(d, s, c))' = Newest(EligibleAt(d, s, c0))
      <4>1. EligibleAt(d, s, c)' = EligibleAt(d, s, c)
        BY <1>1, <3>2, OldEligible
      <4> QED BY <3>2, <4>1 DEF Newest
    <3> QED BY <1>3, <1>6, <2>5, <2>6, <3>1, <3>2, <3>3, <3>4
  <2>7. CASE c0 = 0
    <3>1. s2.phase = "waiting"
      BY <2>5, <2>7
    <3>2. \A g : Associated(s2, g, Now) <=> Fits(s, g) /\ g.at <= Now
      BY <1>3 DEF Associated, Fits
    <3>3. CASE \E g \in Conf(b, hs)[d] : Fits(s, g) /\ g.at <= Now
      <4>1. s3 = [s2 EXCEPT !.phase = "distribution", !.zone = Conf(b, hs)[d], !.since = Now]
        BY <1>3, <3>1, <3>2, <3>3 DEF Distribute
      <4>2. \A k \in {Now} : EligibleAt(d, s, k)' # {} /\ Conf(b, hs)[d] = Newest(EligibleAt(d, s, k)')
        BY <1>1, <3>3, NowEligible
      <4>3. c = Now
        BY <2>1, <2>7, <4>2
      <4>4. Conf(b, hs)[d] = Newest(EligibleAt(d, s, c))'
        <5>1. EligibleAt(d, s, c)' # {} /\ Conf(b, hs)[d] = Newest(EligibleAt(d, s, c)')
          BY <4>2, <4>3
        <5> QED BY <5>1 DEF Newest
      <4>5. PICK gs \in SUBSET GapRecord : gs = Conf(b, hs)[d]
        <5>1. hs \in SUBSET Higher
          OBVIOUS
        <5> QED BY <5>1, ConfType
      <4>6. s3 = [s2 EXCEPT !.phase = "distribution", !.zone = gs, !.since = Now]
        BY <4>1, <4>5
      <4>7. ManipulationOf(s3) /\ s3.dir = s2.dir /\ s3.at = s2.at /\ s3.ref = s2.ref
            /\ s3.high = s2.high /\ s3.low = s2.low
            /\ s3.phase = "distribution" /\ s3.zone = gs /\ s3.since = Now
        BY <1>1, <1>4, <4>6 DEF Setup, ManipulationOf, PhaseNames
      <4>8. c # 0
        BY <1>1, <4>3
      <4> QED BY <1>3, <1>6, <4>3, <4>4, <4>5, <4>7, <4>8
    <3>4. CASE ~ \E g \in Conf(b, hs)[d] : Fits(s, g) /\ g.at <= Now
      <4>1. s3 = s2
        BY <1>3, <3>1, <3>2, <3>4 DEF Distribute
      <4>2. \A k \in {Now} : EligibleAt(d, s, k)' = {}
        BY <1>1, <3>4, NowEligible
      <4>3. c = 0
        BY <2>1, <2>7, <4>2
      <4> QED BY <1>3, <1>6, <3>1, <4>1, <4>3
    <3> QED BY <3>3, <3>4
  <2> QED BY <2>6, <2>7
<1> QED BY <1>5, <1>6

(* What the stages of a bar leave is what the history says with it.        *)
LEMMA RevisedStage ==
    ASSUME TypeInv, GapsInv, NEW b \in BarShapes, NEW row, Grows(b, row), NEW s \in 1 .. Now,
           NEW d \in Dirs, NEW lvl, NEW s1, Before(s1, b, s, d, lvl),
           NEW hs \in {{}} \cup {{h} : h \in Higher}, row.higher = hs,
           setup' = Excursion(Distribute(Reclaim(s1, b), Conf(b, hs), Now), b)
    PROVE  /\ ManipulationOf(setup)'
           /\ \E r, c \in 0 .. Now :
                /\ r = ReclaimBar(s, d, lvl)' /\ c = ConfirmBar(r, s, d)'
                /\ RevisedAs(s, d, lvl, r, c)'
<1>1. Len(log) \in Nat /\ Now = Len(log) + 1 /\ Now \in Nat /\ Len(log') = Now
  BY Rows DEF Now
<1>2. PICK r : r = ReclaimBar(s, d, lvl)'
  OBVIOUS
<1>3. PICK c : c = ConfirmBar(r, s, d)'
  OBVIOUS
<1>4. r \in 0 .. Now
  <2>1. PICK q : q = ReclaimBar(s, d, lvl)
    OBVIOUS
  <2>2. q \in 0 .. Len(log) /\ r = IF q # 0 THEN q ELSE IF d * (b.close - lvl) > 0 THEN Now ELSE 0
    BY <1>2, <2>1, ReclaimStep
  <2> QED BY <1>1, <2>2
<1>5. c \in 0 .. Now
  BY <1>3, <1>4, ConfirmStep
<1>6. PICK s2 : s2 = Reclaim(s1, b)
  OBVIOUS
<1>7. PICK s3 : s3 = Distribute(s2, Conf(b, hs), Now)
  OBVIOUS
<1>8. \A n \in {Now} : /\ IsHighest(s2.high, s .. (IF r = 0 THEN n ELSE r))'
                       /\ IsLowest(s2.low, s .. (IF r = 0 THEN n ELSE r))'
  BY <1>2, <1>6, ReclaimStage
<1>9. /\ ManipulationOf(s3) /\ s3.dir = d /\ s3.at = s /\ s3.ref = lvl
      /\ s3.high = s2.high /\ s3.low = s2.low
      /\ s3.phase = IF r = 0 THEN "manipulation" ELSE IF c = 0 THEN "waiting" ELSE "distribution"
      /\ r # 0 /\ c # 0 => s3.since = c /\ s3.zone = Newest(EligibleAt(d, s, c))'
  BY <1>2, <1>3, <1>4, <1>6, <1>7, DistributeStage
<1>10. PICK n \in {Now} : n = Len(log')
  BY <1>1
<1>11. PICK s4 : s4 = Excursion(s3, b)
  OBVIOUS
<1>12. setup' = s4 /\ ManipulationOf(s4)
  BY <1>6, <1>7, <1>9, <1>11, ExcursionIs
<1>13. /\ s4.dir = s3.dir /\ s4.at = s3.at /\ s4.ref = s3.ref /\ s4.high = s3.high
       /\ s4.low = s3.low /\ s4.phase = s3.phase /\ s4.since = s3.since /\ s4.zone = s3.zone
  <2>1. PICK x \in SUBSET Int : s4 = [s3 EXCEPT !.extreme = x]
    BY <1>9, <1>11, ExcursionIs
  <2>2. s3 \in Setup
    BY <1>9 DEF ManipulationOf
  <2> QED BY <2>1, <2>2 DEF Setup
<1>14. ManipulationOf(setup)'
  BY <1>12 DEF ManipulationOf
<1>15. RevisedAs(s, d, lvl, r, c)'
  <2>1. /\ setup'.dir = d /\ setup'.ref = lvl /\ setup'.at = s
        /\ setup'.phase = IF r = 0 THEN "manipulation" ELSE IF c = 0 THEN "waiting" ELSE "distribution"
        /\ setup'.high = s2.high /\ setup'.low = s2.low
    BY <1>9, <1>12, <1>13
  <2>2. r # 0 /\ c # 0 => setup'.since = c /\ setup'.zone = Newest(EligibleAt(d, s, c))'
    BY <1>9, <1>12, <1>13
  <2>3. PICK ks : ks = s .. (IF r = 0 THEN n ELSE r)
    OBVIOUS
  <2>4. IsHighest(s2.high, ks)' /\ IsLowest(s2.low, ks)'
    BY <1>8, <2>3
  <2>5. (s .. (IF r = 0 THEN Len(log') ELSE r)) = ks
    BY <1>10, <2>3
  <2>6. /\ IsHighest(setup.high, s .. (IF r = 0 THEN Len(log) ELSE r))'
        /\ IsLowest(setup.low, s .. (IF r = 0 THEN Len(log) ELSE r))'
    BY <2>1, <2>4, <2>5 DEF IsHighest, IsLowest
  <2> QED BY <2>1, <2>2, <2>6 DEF RevisedAs
<1> QED BY <1>2, <1>3, <1>4, <1>5, <1>14, <1>15

(* A setup that the history knows stands where it says.                    *)
LEMMA SetupBefore ==
    ASSUME TypeInv, NEW b, NEW s \in 1 .. Len(log), NEW d \in Dirs, NEW lvl, NEW r, NEW c,
           r = ReclaimBar(s, d, lvl), c = ConfirmBar(r, s, d), RevisedAs(s, d, lvl, r, c)
    PROVE  Before(setup, b, s, d, lvl)
<1>1. setup.dir = d /\ setup.ref = lvl /\ setup.at = s
  BY DEF RevisedAs
<1>2. setup # NoSetup
  BY <1>1 DEF NoSetup, Dirs
<1>3. ManipulationOf(setup)
  BY <1>2 DEF TypeInv, ManipulationOf
<1>4. s # Now /\ s <= Len(log)
  BY DEF Now, TypeInv, LogType
<1>5. /\ setup.phase = IF r = 0 THEN "manipulation" ELSE IF c = 0 THEN "waiting" ELSE "distribution"
      /\ IsHighest(setup.high, s .. (IF r = 0 THEN Len(log) ELSE r))
      /\ IsLowest(setup.low, s .. (IF r = 0 THEN Len(log) ELSE r))
      /\ r # 0 /\ c # 0 => setup.since = c /\ setup.zone = Newest(EligibleAt(d, s, c))
  BY DEF RevisedAs
<1> QED BY <1>1, <1>3, <1>4, <1>5 DEF Before

(* A bar that sweeps one side starts a setup.                              *)
LEMMA SetupStarts ==
    ASSUME NEW b \in BarShapes, NEW row, Grows(b, row), NEW d \in Dirs, NEW lvl \in Int
    PROVE  \A s \in {Now} : Before(Manipulation(d, b, Now, lvl), b, s, d, lvl)
<1>1. Len(log) \in Nat /\ Now = Len(log) + 1 /\ Now \in Nat
  BY Rows DEF Now
<1>2. PICK s1 : s1 = Manipulation(d, b, Now, lvl)
  OBVIOUS
<1>3. ManipulationOf(s1)
  BY <1>1, <1>2, ManipulationType
<1>4. /\ s1.dir = d /\ s1.ref = lvl /\ s1.at = Now /\ s1.phase = "manipulation"
      /\ s1.high = b.high /\ s1.low = b.low
  BY <1>2 DEF Manipulation
<1>5. ASSUME NEW s \in {Now} PROVE ReclaimBar(s, d, lvl) = 0 /\ ~ (s <= Len(log))
  BY <1>1, ReclaimStep
<1> QED BY <1>2, <1>3, <1>4, <1>5 DEF Before

LEMMA RevisedStep ==
    ASSUME TypeInv, GapsInv, RevisedInv, NEW b \in BarShapes, NEW row, Grows(b, row),
           variant.phases = "revised", NEW sweep \in [Dirs -> SUBSET Int], row.sweep = sweep,
           NEW hs \in {{}} \cup {{h} : h \in Higher}, row.higher = hs,
           setup' = Phases(b, Now, sweep, Conf(b, hs))
    PROVE  RevisedInv' /\ (setup' = NoSetup \/ ManipulationOf(setup)')
<1>1. /\ Len(log) \in Nat /\ Now = Len(log) + 1 /\ Now \in Nat /\ Len(log') = Now
      /\ \A k \in 1 .. Len(log) : log'[k] = log[k]
      /\ log'[Now] = row
  BY Rows DEF Now
<1>2. PICK s1 : s1 = Swept(b, Now, sweep)
  OBVIOUS
<1>3. setup' = Excursion(Distribute(Reclaim(s1, b), Conf(b, hs), Now), b)
  BY <1>2 DEF Phases
<1>4. /\ LastSingle \in 0 .. Len(log)
      /\ LastSingle' = IF Cardinality(SweptNow(row)) = 1 THEN Now ELSE LastSingle
  BY LastSingleStep
<1>5. ASSUME NEW s \in 1 .. Now, s = LastSingle', NEW d \in Dirs, NEW lvl \in log'[s].sweep[d],
             Before(s1, b, s, d, lvl)
      PROVE  RevisedInv' /\ ManipulationOf(setup)'
  <2>1. /\ ManipulationOf(setup)'
        /\ \E r, c \in 0 .. Now :
             /\ r = ReclaimBar(s, d, lvl)' /\ c = ConfirmBar(r, s, d)'
             /\ RevisedAs(s, d, lvl, r, c)'
    BY <1>3, <1>5, RevisedStage
  <2>2. PICK r \in 0 .. Now, c \in 0 .. Now :
             /\ r = ReclaimBar(s, d, lvl)' /\ c = ConfirmBar(r, s, d)'
             /\ RevisedAs(s, d, lvl, r, c)'
    BY <2>1
  <2>3. s # 0
    BY <1>1
  <2> QED BY <1>1, <1>5, <2>1, <2>2, <2>3 DEF RevisedInv
<1>6. CASE Cardinality(SweptNow(row)) = 1
  <2>1. SweptNow(row) # {}
    BY <1>6, FS_EmptySet
  <2>2. PICK d : d = CHOOSE e \in SweptNow(row) : TRUE
    OBVIOUS
  <2>3. PICK lvl : lvl = CHOOSE x \in sweep[d] : TRUE
    OBVIOUS
  <2>4. d \in Dirs /\ lvl \in sweep[d] /\ lvl \in Int
    <3>1. d \in SweptNow(row)
      BY <2>1, <2>2
    <3>2. d \in Dirs /\ sweep[d] # {} /\ sweep[d] \subseteq Int
      BY <3>1 DEF SweptNow
    <3> QED BY <2>3, <3>2
  <2>5. s1 = Manipulation(d, b, Now, lvl)
    BY <1>2, <1>6, <2>2, <2>3 DEF Swept, SweptNow
  <2>6. PICK s \in {Now} : Before(s1, b, s, d, lvl)
    BY <2>4, <2>5, SetupStarts
  <2>7. s = LastSingle' /\ s \in 1 .. Now /\ lvl \in log'[s].sweep[d]
    BY <1>1, <1>4, <1>6, <2>4, <2>6
  <2> QED BY <1>5, <2>4, <2>6, <2>7
<1>7. CASE Cardinality(SweptNow(row)) # 1
  <2>1. s1 = setup
    BY <1>2, <1>7 DEF Swept, SweptNow
  <2>2. PICK s \in 0 .. Len(log) : s = LastSingle /\ s = LastSingle'
    BY <1>4, <1>7
  <2>3. CASE s = 0
    <3>1. setup = NoSetup
      BY <2>2, <2>3 DEF RevisedInv
    <3>2. setup' = NoSetup
      <4>1. NoSetup.phase = "idle"
        BY DEF NoSetup
      <4>2. Reclaim(NoSetup, b) = NoSetup
        BY <4>1 DEF Reclaim
      <4>3. Distribute(NoSetup, Conf(b, hs), Now) = NoSetup
        BY <4>1 DEF Distribute
      <4>4. Excursion(NoSetup, b) = NoSetup
        BY <4>1 DEF Excursion
      <4> QED BY <1>3, <2>1, <3>1, <4>2, <4>3, <4>4
    <3> QED BY <2>2, <2>3, <3>2 DEF RevisedInv
  <2>4. CASE s # 0
    <3>1. s \in 1 .. Len(log) /\ s \in 1 .. Now
      BY <1>1, <2>4
    <3>5. PICK d \in Dirs : \E lvl \in log[s].sweep[d], r, c \in 0 .. Len(log) :
              r = ReclaimBar(s, d, lvl) /\ c = ConfirmBar(r, s, d) /\ RevisedAs(s, d, lvl, r, c)
      BY <2>2, <2>4 DEF RevisedInv
    <3>2. PICK lvl \in log[s].sweep[d], r \in 0 .. Len(log), c \in 0 .. Len(log) :
              r = ReclaimBar(s, d, lvl) /\ c = ConfirmBar(r, s, d) /\ RevisedAs(s, d, lvl, r, c)
      BY <3>5
    <3>3. Before(s1, b, s, d, lvl)
      BY <2>1, <3>1, <3>2, SetupBefore
    <3>4. lvl \in log'[s].sweep[d]
      BY <1>1, <3>1, <3>2
    <3> QED BY <1>5, <2>2, <3>1, <3>3, <3>4
  <2> QED BY <2>3, <2>4
<1> QED BY <1>6, <1>7

(* The legacy mode: the bars that break the leg of a sweep, and those on   *)
(* which the side of the setup turned.                                     *)
LEMMA ExtremesAre ==
    ASSUME LogType, NEW ks \in SUBSET (1 .. Len(log)), NEW x
    PROVE  /\ IsHighest(x, ks) => Highest(ks) = x
           /\ IsLowest(x, ks) => Lowest(ks) = x
<1>1. \A k \in 1 .. Len(log) : log[k].high \in Int /\ log[k].low \in Int
  <2>1. \A k \in 1 .. Len(log) : log[k] \in RowType
    BY DEF LogType
  <2> QED BY <2>1 DEF RowType
<1>2. ASSUME IsHighest(x, ks) PROVE Highest(ks) = x
  <2> DEFINE S == {log[k].high : k \in ks}
  <2>1. S \in SUBSET Int /\ x \in S /\ \A y \in S : x >= y
    BY <1>1, <1>2 DEF IsHighest
  <2>2. Highest(ks) = Max(S)
    BY DEF Highest
  <2> HIDE DEF S
  <2> QED BY <2>1, <2>2, MaxIs
<1>3. ASSUME IsLowest(x, ks) PROVE Lowest(ks) = x
  <2> DEFINE S == {log[k].low : k \in ks}
  <2>1. S \in SUBSET Int /\ x \in S /\ \A y \in S : x <= y
    BY <1>1, <1>3 DEF IsLowest
  <2>2. Lowest(ks) = Min(S)
    BY DEF Lowest
  <2> HIDE DEF S
  <2> QED BY <2>1, <2>2, MinIs
<1> QED BY <1>2, <1>3

LEMMA OldExtremes ==
    ASSUME NEW b, NEW row, Grows(b, row), NEW ks \in SUBSET (1 .. Len(log))
    PROVE  Highest(ks)' = Highest(ks) /\ Lowest(ks)' = Lowest(ks)
<1>1. \A k \in ks : log'[k] = log[k]
  BY Rows
<1>2. /\ {log'[k].high : k \in ks} = {log[k].high : k \in ks}
      /\ {log'[k].low : k \in ks} = {log[k].low : k \in ks}
  BY <1>1
<1> QED BY <1>2 DEF Highest, Lowest

(* The edge of the leg from bar s to bar k that a close may break.         *)
LegEdge(s, d, k) == IF d = 1 THEN Highest(Between(s, k)) ELSE Lowest(Between(s, k))

LEMMA LegBrokenStep ==
    ASSUME NEW b, NEW row, Grows(b, row), NEW s \in 1 .. Now, NEW d \in Dirs,
           NEW hi, NEW lo, NEW e, e = LegBroken(s, d),
           e = 0 /\ s <= Len(log) => IsHighest(hi, s .. Len(log)) /\ IsLowest(lo, s .. Len(log))
    PROVE  /\ e \in 0 .. Len(log) /\ (s = Now => e = 0 /\ LegBroken(s, d)' = 0)
           /\ s <= Len(log) => LegBroken(s, d)' =
                IF e # 0 THEN e
                ELSE IF d * (b.close - IF d = 1 THEN hi ELSE lo) > 0 THEN Now ELSE 0
<1>1. /\ Len(log) \in Nat /\ Len(log') = Now /\ Now = Len(log) + 1 /\ log'[Now] = row
      /\ row.close = b.close /\ LogType
      /\ \A k \in 1 .. Len(log) : log'[k] = log[k]
  BY Rows DEF Now, Grows
<1> DEFINE ks == {k \in Between(s + 1, Len(log)) : d * (log[k].close - LegEdge(s, d, k - 1)) > 0}
           js == {k \in Between(s + 1, Len(log))' : d * (log'[k].close - LegEdge(s, d, k - 1)') > 0}
<1>2. e = First(ks) /\ LegBroken(s, d)' = First(js)
  <2>1. LegBroken(s, d) = First(ks)
    BY DEF LegBroken, LegEdge
  <2>2. LegBroken(s, d)' = First(js)
    BY DEF LegBroken, LegEdge, First
  <2> QED BY <2>1, <2>2
<1>3. /\ \A k : k \in Between(s + 1, Len(log)) <=> k \in (s + 1) .. Len(log)
      /\ \A k : k \in Between(s + 1, Len(log))' <=> k \in (s + 1) .. Now
  BY <1>1 DEF Between
<1>4. ASSUME NEW k \in (s + 1) .. Now
      PROVE  LegEdge(s, d, k - 1)' = LegEdge(s, d, k - 1) /\ Between(s, k - 1) = s .. (k - 1)
  <2>1. PICK old : old = s .. (k - 1)
    OBVIOUS
  <2>2. old \in SUBSET (1 .. Len(log))
    BY <1>1, <2>1
  <2>3. Between(s, k - 1) = old /\ Between(s, k - 1)' = old
    BY <1>1, <2>1 DEF Between
  <2>4. Highest(old)' = Highest(old) /\ Lowest(old)' = Lowest(old)
    BY <2>2, OldExtremes
  <2>5. Highest(Between(s, k - 1))' = Highest(old)' /\ Lowest(Between(s, k - 1))' = Lowest(old)'
    BY <2>3 DEF Highest, Lowest
  <2> QED BY <2>1, <2>3, <2>4, <2>5 DEF LegEdge
<1>5. \A k \in 1 .. Len(log) : k \in js <=> k \in ks
  <2>1. \A k \in (s + 1) .. Len(log) : k \in js <=> k \in ks
    BY <1>1, <1>3, <1>4
  <2> QED BY <1>1, <1>3, <2>1
<1>6. ASSUME s <= Len(log), e = 0
      PROVE  Now \in js <=> d * (b.close - IF d = 1 THEN hi ELSE lo) > 0
  <2>1. Now \in (s + 1) .. Now /\ Now - 1 = Len(log)
    BY <1>1, <1>6
  <2>2. LegEdge(s, d, Now - 1) = IF d = 1 THEN hi ELSE lo
    <3>1. Between(s, Now - 1) = s .. Len(log) /\ s .. Len(log) \in SUBSET (1 .. Len(log))
      BY <1>1, <1>4, <2>1
    <3>2. Highest(s .. Len(log)) = hi /\ Lowest(s .. Len(log)) = lo
      BY <1>1, <1>6, <3>1, ExtremesAre
    <3> QED BY <3>1, <3>2 DEF LegEdge
  <2>3. \A k \in {Now} : LegEdge(s, d, k - 1)' = IF d = 1 THEN hi ELSE lo
    BY <1>4, <2>1, <2>2
  <2>4. \A k \in {Now} : k \in js <=> d * (b.close - IF d = 1 THEN hi ELSE lo) > 0
    BY <1>1, <1>3, <2>1, <2>3
  <2> QED BY <2>4
<1>7. ks \in SUBSET (1 .. Len(log)) /\ js \in SUBSET (1 .. (Len(log) + 1))
  BY <1>1, <1>3
<1>8. s = Now => ks = {} /\ js = {}
  BY <1>1, <1>3
<1> HIDE DEF ks, js
<1>9. First(js) = IF First(ks) # 0 THEN First(ks)
                  ELSE IF Len(log) + 1 \in js THEN Len(log) + 1 ELSE 0
  BY <1>1, <1>5, <1>7, FirstStep
<1>10. First(ks) \in 0 .. Len(log)
  BY <1>1, <1>7, FirstOf
<1>11. s = Now => First(ks) = 0 /\ First(js) = 0
  BY <1>8 DEF First
<1> QED BY <1>1, <1>2, <1>6, <1>9, <1>10, <1>11

LEMMA LastTurnStep ==
    ASSUME NEW b, NEW row, Grows(b, row)
    PROVE  /\ LastTurn \in 0 .. Len(log) /\ (Len(log) # 0 => LastTurn # 0)
           /\ LastTurn' = IF Len(log) = 0 \/ log[Len(log)].dir # row.dir THEN Now ELSE LastTurn
<1>1. /\ Len(log) \in Nat /\ Len(log') = Len(log) + 1 /\ Now = Len(log) + 1 /\ log'[Now] = row
      /\ \A k \in 1 .. Len(log) : log'[k] = log[k]
  BY Rows DEF Now
<1> DEFINE ks == {k \in 1 .. Len(log) : k > 1 => log[k - 1].dir # log[k].dir}
           js == {k \in 1 .. Len(log') : k > 1 => log'[k - 1].dir # log'[k].dir}
<1>2. LastTurn = Last(ks) /\ LastTurn' = Last(js)
  BY DEF LastTurn, Last
<1>3. \A k \in 1 .. Len(log) : k \in js <=> k \in ks
  <2>1. \A k \in 1 .. Len(log) : k > 1 => k - 1 \in 1 .. Len(log)
    BY <1>1
  <2> QED BY <1>1, <2>1
<1>4. Len(log) + 1 \in js <=> Len(log) = 0 \/ log[Len(log)].dir # row.dir
  <2>1. CASE Len(log) = 0
    BY <1>1, <2>1
  <2>2. CASE Len(log) # 0
    <3>1. Now > 1 /\ Now - 1 = Len(log) /\ Len(log) \in 1 .. Len(log)
      BY <1>1, <2>2
    <3>2. log'[Now - 1] = log[Len(log)]
      BY <1>1, <3>1
    <3> QED BY <1>1, <2>2, <3>1, <3>2
  <2> QED BY <2>1, <2>2
<1>5. ks \in SUBSET (1 .. Len(log)) /\ js \in SUBSET (1 .. (Len(log) + 1))
  BY <1>1
<1>6. Len(log) # 0 => 1 \in ks
  BY <1>1
<1> HIDE DEF ks, js
<1>7. Last(js) = IF Len(log) + 1 \in js THEN Len(log) + 1 ELSE Last(ks)
  BY <1>1, <1>3, <1>5, LastStep
<1>8. Last(ks) \in 0 .. Len(log) /\ (Last(ks) = 0 <=> ks = {})
  BY <1>1, <1>5, LastOf
<1>9. Len(log) # 0 => Last(ks) # 0
  BY <1>6, <1>8
<1> QED BY <1>1, <1>2, <1>4, <1>7, <1>8, <1>9

(* What Armed makes of the arm on a bar that confirms the side or not.     *)
NextArm(arm, found) ==
    IF found THEN IF arm = "off" THEN "pending" ELSE arm
    ELSE IF arm = "pending" THEN "armed" ELSE arm

LEMMA ArmStep ==
    ASSUME GapsInv, NEW b, NEW row, Grows(b, row), NEW d \in Dirs, NEW l \in 1 .. Now,
           NEW arm \in {"off", "pending", "armed"}, ArmSays(arm, d, l, Len(log)),
           NEW then, then = NextArm(arm, Inverted(b)[d] # {})
    PROVE  \A n \in {Now} : ArmSays(then, d, l, n)'
<1>1. Len(log) \in Nat /\ Now = Len(log) + 1
  BY Rows DEF Now
<1>2. PICK n : n = Now
  OBVIOUS
<1>3. PICK I : I = [k \in 1 .. n |-> InvertedAt(d, k)']
  OBVIOUS
<1>4. \A k \in l .. Len(log) : I[k] = InvertedAt(d, k)
  <2>1. \A k \in 1 .. Len(log) : InvertedAt(d, k)' = InvertedAt(d, k)
    BY OldInverted
  <2> QED BY <1>1, <1>2, <1>3, <2>1
<1>5. I[n] = {} <=> Inverted(b)[d] = {}
  <2>1. \A k \in {Now} : InvertedAt(d, k)' = Inverted(b)[d]
    BY NowInverted
  <2> QED BY <1>1, <1>2, <1>3, <2>1
<1>6. \A k \in l .. n : InvertedAt(d, k)' = I[k]
  BY <1>1, <1>2, <1>3
<1>7. /\ arm = "off" <=> \A k \in l .. Len(log) : I[k] = {}
      /\ arm = "armed" <=> \E k, m \in l .. Len(log) : m < k /\ I[m] # {} /\ I[k] = {}
  BY <1>4 DEF ArmSays
<1>8. \A k : k \in l .. n <=> k \in l .. Len(log) \/ k = n
  BY <1>1, <1>2
<1>9. (\A k \in l .. n : I[k] = {}) <=> (\A k \in l .. Len(log) : I[k] = {}) /\ I[n] = {}
  BY <1>8
<1>10. (\E k, m \in l .. n : m < k /\ I[m] # {} /\ I[k] = {}) <=>
          \/ \E k, m \in l .. Len(log) : m < k /\ I[m] # {} /\ I[k] = {}
          \/ I[n] = {} /\ \E m \in l .. Len(log) : I[m] # {}
  <2>1. \A m \in l .. Len(log) : m < n /\ ~ (n < m)
    BY <1>1, <1>2
  <2>2. ~ (n < n)
    BY <1>1, <1>2
  <2> QED BY <1>8, <2>1, <2>2
<1>11. /\ then = "off" <=> \A k \in l .. n : I[k] = {}
       /\ then = "armed" <=> \E k, m \in l .. n : m < k /\ I[m] # {} /\ I[k] = {}
  <2>1. CASE I[n] = {}
    BY <1>5, <1>7, <1>9, <1>10, <2>1 DEF NextArm
  <2>2. CASE I[n] # {}
    BY <1>5, <1>7, <1>9, <1>10, <2>2 DEF NextArm
  <2> QED BY <2>1, <2>2
<1>12. ArmSays(then, d, l, n)'
  BY <1>6, <1>11 DEF ArmSays
<1> QED BY <1>2, <1>12

LEMMA ArmedIs ==
    ASSUME GapsInv, NEW b, NEW row, Grows(b, row), NEW s, ManipulationOf(s)
    PROVE  /\ ManipulationOf(Armed(s, Conf(b, {})))
           /\ Armed(s, Conf(b, {})) =
                [s EXCEPT !.arm = NextArm(s.arm, Inverted(b)[s.dir] # {})]
<1>1. s \in Setup /\ s.dir \in Dirs /\ s.phase # "idle" /\ \A x, y \in s.extreme : x = y
  BY DEF ManipulationOf, Setup
<1>2. Conf(b, {})[s.dir] # {} <=> Inverted(b)[s.dir] # {}
  <2>1. Conf(b, {})[s.dir] = Merged(Own(b)[s.dir], {}, s.dir, Now)
    BY <1>1 DEF Conf
  <2>2. Conf(b, {})[s.dir] = Own(b)[s.dir]
    BY <2>1 DEF Merged
  <2>3. Inverted(b)[s.dir] = {} => Own(b)[s.dir] = {}
    BY <1>1 DEF Own, Newest
  <2>4. Inverted(b)[s.dir] # {} => Own(b)[s.dir] # {}
    BY <1>1, NowOne
  <2> QED BY <2>2, <2>3, <2>4
<1>3. PICK a \in {"off", "pending", "armed"} : a = NextArm(s.arm, Inverted(b)[s.dir] # {})
  BY <1>1 DEF NextArm, Setup
<1>4. Armed(s, Conf(b, {})) = [s EXCEPT !.arm = a]
  <2>1. CASE Inverted(b)[s.dir] # {}
    BY <1>1, <1>2, <1>3, <2>1 DEF Armed, NextArm, Setup
  <2>2. CASE Inverted(b)[s.dir] = {}
    BY <1>1, <1>2, <1>3, <2>2 DEF Armed, NextArm, Setup
  <2> QED BY <2>1, <2>2
<1>5. ManipulationOf([s EXCEPT !.arm = a])
  BY <1>1, <1>3 DEF ManipulationOf, Setup
<1> QED BY <1>3, <1>4, <1>5

(* A bar that sweeps a side starts the leg of one it sweeps, and keeps the *)
(* arm if the side stays.                                                  *)
LEMMA LegStarts ==
    ASSUME TypeInv, NEW b \in BarShapes, NEW row, Grows(b, row), SweptNow(row) # {},
           row.sweep \in [Dirs -> SUBSET Int]
    PROVE  \E d \in SweptNow(row) : \E s1 :
             /\ s1 = Legacy(b, Now, row.sweep) /\ ManipulationOf(s1)
             /\ s1.dir = d /\ s1.phase = "manipulation" /\ s1.high = b.high /\ s1.low = b.low
             /\ s1.arm = IF setup.dir = d THEN setup.arm ELSE "off"
<1>1. Now \in Nat
  BY Rows DEF Now
<1>2. PICK d \in SweptNow(row), lvl \in Int :
          Legacy(b, Now, row.sweep) =
              [Manipulation(d, b, Now, lvl) EXCEPT
                  !.arm = IF setup.dir = d THEN setup.arm ELSE "off"]
  <2> DEFINE level(d) == CHOOSE lvl \in row.sweep[d] : TRUE
             start(d) == [Manipulation(d, b, Now, level(d)) EXCEPT
                            !.arm = IF setup.dir = d THEN setup.arm ELSE "off"]
  <2>1. \A d \in SweptNow(row) : level(d) \in Int
    BY DEF SweptNow
  <2>2. setup.phase = "manipulation" => setup.dir \in Dirs
    BY DEF TypeInv, NoSetup, Setup
  <2>3. \A d \in Dirs : d \in SweptNow(row) <=> row.sweep[d] # {}
    BY DEF SweptNow
  <2>4. \E d \in SweptNow(row) : Legacy(b, Now, row.sweep) = start(d)
    <3>1. CASE setup.phase = "manipulation"
      <4>1. setup.dir \in Dirs /\ -setup.dir \in Dirs
        BY <2>2, <3>1 DEF Dirs
      <4>2. \A d \in Dirs : d = setup.dir \/ d = -setup.dir
        BY <4>1 DEF Dirs
      <4>3. row.sweep[-setup.dir] # {} => Legacy(b, Now, row.sweep) = start(-setup.dir)
        BY <3>1 DEF Legacy
      <4>4. row.sweep[-setup.dir] = {} /\ row.sweep[setup.dir] # {}
              => Legacy(b, Now, row.sweep) = start(setup.dir)
        BY <3>1 DEF Legacy
      <4>5. row.sweep[-setup.dir] # {} \/ row.sweep[setup.dir] # {}
        BY <2>3, <4>2 DEF SweptNow
      <4> HIDE DEF start
      <4> QED BY <2>3, <4>1, <4>3, <4>4, <4>5
    <3>2. CASE setup.phase # "manipulation"
      <4>1. row.sweep[1] # {} => Legacy(b, Now, row.sweep) = start(1)
        BY <3>2 DEF Legacy
      <4>2. row.sweep[1] = {} /\ row.sweep[-1] # {} => Legacy(b, Now, row.sweep) = start(-1)
        BY <3>2 DEF Legacy
      <4>3. row.sweep[1] # {} \/ row.sweep[-1] # {}
        BY DEF SweptNow, Dirs
      <4>4. 1 \in Dirs /\ -1 \in Dirs
        BY DEF Dirs
      <4> HIDE DEF start
      <4> QED BY <2>3, <4>1, <4>2, <4>3, <4>4
    <3> QED BY <3>1, <3>2
  <2> QED BY <2>1, <2>4
<1>3. d \in Dirs
  BY DEF SweptNow
<1>4. PICK a \in {"off", "pending", "armed"} : a = IF setup.dir = d THEN setup.arm ELSE "off"
  <2>1. setup.dir = d => setup \in Setup
    BY <1>3 DEF TypeInv, NoSetup, Dirs
  <2>2. setup.dir = d => setup.arm \in {"off", "pending", "armed"}
    BY <2>1 DEF Setup
  <2> QED BY <2>2
<1>5. PICK m : m = Manipulation(d, b, Now, lvl)
  OBVIOUS
<1>6. PICK s1 : s1 = [m EXCEPT !.arm = a]
  OBVIOUS
<1>7. s1 = Legacy(b, Now, row.sweep)
  BY <1>2, <1>4, <1>5, <1>6
<1>8. m \in Setup /\ \A x, y \in m.extreme : x = y
  BY <1>1, <1>3, <1>5, ManipulationType DEF ManipulationOf
<1>9. m.dir = d /\ m.phase = "manipulation" /\ m.high = b.high /\ m.low = b.low
  BY <1>5 DEF Manipulation
<1>10. ManipulationOf(s1)
  BY <1>4, <1>6, <1>8 DEF ManipulationOf, Setup
<1>11. /\ s1.dir = m.dir /\ s1.phase = m.phase /\ s1.high = m.high /\ s1.low = m.low
       /\ s1.arm = a
  BY <1>6, <1>8 DEF Setup
<1> QED BY <1>4, <1>7, <1>9, <1>10, <1>11

(* What a bar leaves in the legacy mode is what the history says with it.  *)
LEMMA LegacyStage ==
    ASSUME GapsInv, NEW b, NEW row, Grows(b, row), NEW s1, ManipulationOf(s1),
           setup' = Armed(s1, Conf(b, {})), NEW d \in Dirs, s1.dir = d,
           NEW s \in 1 .. Now, s = LastSweep', log'[s].dir = d, log'[s].sweep[d] # {},
           NEW e \in 0 .. Now, e = LegBroken(s, d)',
           s1.phase = IF e = 0 THEN "manipulation" ELSE "distribution",
           NEW hi, hi = s1.high, NEW lo, lo = s1.low,
           e = 0 => \A n \in {Now} : IsHighest(hi, s .. n)' /\ IsLowest(lo, s .. n)',
           NEW l \in 1 .. Now, l = LastTurn', ArmSays(s1.arm, d, l, Len(log))
    PROVE  LegacyInv' /\ ManipulationOf(setup)'
<1>1. Len(log) \in Nat /\ Now = Len(log) + 1 /\ Len(log') = Now
  BY Rows DEF Now
<1>2. s1 \in Setup
  BY DEF ManipulationOf
<1>3. PICK a : a = NextArm(s1.arm, Inverted(b)[d] # {})
  OBVIOUS
<1>4. PICK s2 : s2 = Armed(s1, Conf(b, {}))
  OBVIOUS
<1>5. ManipulationOf(s2) /\ s2 = [s1 EXCEPT !.arm = a] /\ setup' = s2
  <2>1. /\ ManipulationOf(Armed(s1, Conf(b, {})))
        /\ Armed(s1, Conf(b, {})) = [s1 EXCEPT !.arm = NextArm(s1.arm, Inverted(b)[s1.dir] # {})]
    BY ArmedIs
  <2>2. a = NextArm(s1.arm, Inverted(b)[s1.dir] # {})
    BY <1>3
  <2> QED BY <1>4, <2>1, <2>2
<1>6. /\ setup'.dir = d /\ setup'.phase = s1.phase /\ setup'.high = hi /\ setup'.low = lo
      /\ setup'.arm = a
  BY <1>2, <1>5 DEF Setup
<1>7. \A n \in {Now} : ArmSays(a, d, l, n)'
  BY <1>2, <1>3, ArmStep DEF Setup
<1>8. PICK n \in {Now} : n = Len(log')
  BY <1>1
<1>9. ArmSays(setup.arm, d, l, Len(log))'
  <2>1. ArmSays(a, d, l, n)'
    BY <1>7
  <2> QED BY <1>6, <1>8, <2>1 DEF ArmSays
<1>10. e = 0 => IsHighest(setup.high, s .. Len(log))' /\ IsLowest(setup.low, s .. Len(log))'
  <2>1. e = 0 => IsHighest(hi, s .. n)' /\ IsLowest(lo, s .. n)'
    OBVIOUS
  <2> QED BY <1>6, <1>8, <2>1 DEF IsHighest, IsLowest
<1>11. LegacyAs(s, d, e, l)'
  BY <1>6, <1>9, <1>10 DEF LegacyAs
<1>12. LegacyInv'
  <2>1. s # 0 /\ e \in 0 .. Len(log') /\ l \in 1 .. Len(log')
    BY <1>1
  <2> QED BY <1>11, <2>1 DEF LegacyInv
<1>13. ManipulationOf(setup)'
  BY <1>5 DEF ManipulationOf
<1> QED BY <1>12, <1>13

LEMMA LegacySweeps ==
    ASSUME TypeInv, GapsInv, RowInv, LegacyInv, NEW b \in BarShapes, NEW row, Grows(b, row),
           variant.phases = "legacy", row.sweep \in [Dirs -> SUBSET Int], SweptNow(row) # {},
           setup' = Armed(Legacy(b, Now, row.sweep), Conf(b, {})), row.dir = setup'.dir
    PROVE  LegacyInv' /\ ManipulationOf(setup)'
<1>1. /\ Len(log) \in Nat /\ Now = Len(log) + 1 /\ log'[Now] = row /\ Now \in 1 .. Now
  BY Rows DEF Now
<1>2. PICK d \in SweptNow(row) : \E s1 :
             /\ s1 = Legacy(b, Now, row.sweep) /\ ManipulationOf(s1)
             /\ s1.dir = d /\ s1.phase = "manipulation" /\ s1.high = b.high /\ s1.low = b.low
             /\ s1.arm = IF setup.dir = d THEN setup.arm ELSE "off"
  BY LegStarts
<1>3. PICK s1 : /\ s1 = Legacy(b, Now, row.sweep) /\ ManipulationOf(s1)
                /\ s1.dir = d /\ s1.phase = "manipulation" /\ s1.high = b.high /\ s1.low = b.low
                /\ s1.arm = IF setup.dir = d THEN setup.arm ELSE "off"
  BY <1>2
<1>4. d \in Dirs /\ row.sweep[d] # {}
  BY DEF SweptNow
<1>5. row.dir = d
  <2>1. Armed(s1, Conf(b, {})) = [s1 EXCEPT !.arm = NextArm(s1.arm, Inverted(b)[s1.dir] # {})]
    BY <1>3, ArmedIs
  <2>2. s1 \in Setup
    BY <1>3 DEF ManipulationOf
  <2>3. Armed(s1, Conf(b, {})).dir = s1.dir
    BY <2>1, <2>2 DEF Setup
  <2> QED BY <1>3, <2>3
<1>6. PICK s \in 1 .. Now : s = Now
  BY <1>1
<1>7. s = LastSweep' /\ log'[s].dir = d /\ log'[s].sweep[d] # {}
  BY <1>1, <1>4, <1>5, <1>6, LastSweepStep
<1>8. LegBroken(s, d)' = 0
  <2>1. PICK e : e = LegBroken(s, d)
    OBVIOUS
  <2>2. ~ (s <= Len(log))
    BY <1>1, <1>6
  <2> QED BY <1>4, <1>6, <2>1, <2>2, LegBrokenStep
<1>9. PICK hi \in Int, lo \in Int : hi = b.high /\ lo = b.low
  BY BarType
<1>10. \A n \in {Now} : IsHighest(hi, s .. n)' /\ IsLowest(lo, s .. n)'
  <2>1. ~ (s <= Len(log)) /\ hi >= b.high /\ lo <= b.low
    BY <1>1, <1>6, <1>9
  <2>2. \A n \in {Now} : IsHighest(hi, s .. n)'
    BY <1>9, <2>1, HighestStep
  <2>3. \A n \in {Now} : IsLowest(lo, s .. n)'
    BY <1>9, <2>1, LowestStep
  <2> QED BY <2>2, <2>3
<1>11. PICK l \in 1 .. Now : l = LastTurn' /\ ArmSays(s1.arm, d, l, Len(log))
  <2>1. CASE setup.dir = d
    <3>1. setup # NoSetup
      BY <1>4, <2>1 DEF NoSetup, Dirs
    <3>2. PICK s0 \in 0 .. Len(log) : s0 = LastSweep
      BY LastSweepStep
    <3>3. s0 # 0
      BY <3>1, <3>2 DEF LegacyInv
    <3>4. PICK c \in Dirs, e \in 0 .. Len(log), l \in 1 .. Len(log) :
              l = LastTurn /\ LegacyAs(s0, c, e, l)
      BY <3>2, <3>3 DEF LegacyInv
    <3>5. ArmSays(s1.arm, d, l, Len(log))
      BY <1>3, <2>1, <3>4 DEF LegacyAs
    <3>6. Len(log) # 0 /\ log # <<>>
      BY <1>1, <3>2, <3>3
    <3>7. l = LastTurn' /\ l \in 1 .. Now
      BY <1>1, <1>5, <2>1, <3>4, <3>6, LastTurnStep DEF RowInv
    <3> QED BY <3>5, <3>7
  <2>2. CASE setup.dir # d
    <3>1. Len(log) # 0 => log[Len(log)].dir # row.dir
      BY <1>1, <1>5, <2>2 DEF RowInv
    <3>2. LastTurn' = Now
      BY <3>1, LastTurnStep
    <3>3. ArmSays("off", d, Now, Len(log))
      <4>1. Now .. Len(log) = {}
        BY <1>1
      <4> QED BY <4>1 DEF ArmSays
    <3> QED BY <1>1, <1>3, <2>2, <3>2, <3>3
  <2> QED BY <2>1, <2>2
<1>12. PICK e \in 0 .. Now : e = 0
  BY <1>1
<1>13. hi = s1.high /\ lo = s1.low /\ e = LegBroken(s, d)'
       /\ s1.phase = IF e = 0 THEN "manipulation" ELSE "distribution"
  BY <1>3, <1>8, <1>9, <1>12
<1>14. setup' = Armed(s1, Conf(b, {}))
  BY <1>3
<1> QED BY <1>3, <1>4, <1>7, <1>10, <1>11, <1>13, <1>14, LegacyStage

(* A bar that sweeps nothing breaks the leg, widens it or leaves it.       *)
LEMMA LegGoesOn ==
    ASSUME TypeInv, NEW b \in BarShapes, NEW row, Grows(b, row), NEW s \in 1 .. Len(log),
           row.sweep \in [Dirs -> SUBSET Int], SweptNow(row) = {},
           NEW d \in Dirs, NEW e0, NEW l, e0 = LegBroken(s, d), LegacyAs(s, d, e0, l)
    PROVE  \E s1 : \E e \in 0 .. Now :
             /\ s1 = Legacy(b, Now, row.sweep) /\ ManipulationOf(s1)
             /\ s1.dir = d /\ s1.arm = setup.arm /\ e = LegBroken(s, d)'
             /\ s1.phase = IF e = 0 THEN "manipulation" ELSE "distribution"
             /\ e = 0 => \A hi, lo \in Int : hi = s1.high /\ lo = s1.low =>
                           \A n \in {Now} : IsHighest(hi, s .. n)' /\ IsLowest(lo, s .. n)'
<1>1. /\ Len(log) \in Nat /\ Now = Len(log) + 1 /\ Now \in Nat /\ s <= Len(log) /\ s \in 1 .. Now
      /\ s # Now
  BY Rows DEF Now
<1>2. /\ setup.dir = d /\ setup.phase = IF e0 = 0 THEN "manipulation" ELSE "distribution"
      /\ e0 = 0 => IsHighest(setup.high, s .. Len(log)) /\ IsLowest(setup.low, s .. Len(log))
  BY DEF LegacyAs
<1>3. ManipulationOf(setup) /\ setup \in Setup
  <2>1. setup # NoSetup
    BY <1>2 DEF NoSetup, Dirs
  <2> QED BY <2>1 DEF TypeInv, ManipulationOf
<1>4. row.sweep[1] = {} /\ row.sweep[-1] = {} /\ row.sweep[d] = {} /\ row.sweep[-d] = {}
  <2>1. \A c \in Dirs : row.sweep[c] = {}
    BY DEF SweptNow
  <2>2. 1 \in Dirs /\ -1 \in Dirs /\ -d \in Dirs
    BY DEF Dirs
  <2> QED BY <2>1, <2>2
<1>5. PICK hi \in Int, lo \in Int : hi = setup.high /\ lo = setup.low
  BY <1>3 DEF Setup
<1>6. /\ e0 \in 0 .. Len(log)
      /\ LegBroken(s, d)' = IF e0 # 0 THEN e0
                            ELSE IF d * (b.close - IF d = 1 THEN hi ELSE lo) > 0 THEN Now ELSE 0
  BY <1>1, <1>2, <1>5, LegBrokenStep
<1>7. PICK s1 : s1 = Legacy(b, Now, row.sweep)
  OBVIOUS
<1>8. CASE e0 # 0
  <2>1. s1 = setup
    BY <1>2, <1>4, <1>7, <1>8 DEF Legacy
  <2>2. LegBroken(s, d)' = e0 /\ e0 \in 0 .. Now
    BY <1>1, <1>6, <1>8
  <2> QED BY <1>2, <1>3, <1>7, <1>8, <2>1, <2>2
<1>9. CASE e0 = 0 /\ d * (b.close - IF d = 1 THEN hi ELSE lo) > 0
  <2>1. Attack(-d, setup) = IF d = 1 THEN hi ELSE lo
    BY <1>5 DEF Attack, Dirs
  <2>2. s1 = [setup EXCEPT !.phase = "distribution", !.since = Now]
    BY <1>2, <1>4, <1>7, <1>9, <2>1 DEF Legacy
  <2>3. /\ s1.dir = setup.dir /\ s1.arm = setup.arm /\ s1.phase = "distribution"
        /\ ManipulationOf(s1)
    BY <1>1, <1>3, <2>2 DEF Setup, ManipulationOf, PhaseNames
  <2>4. LegBroken(s, d)' = Now /\ Now \in 0 .. Now /\ Now # 0
    BY <1>1, <1>6, <1>9
  <2> QED BY <1>2, <1>7, <2>3, <2>4
<1>10. CASE e0 = 0 /\ ~ (d * (b.close - IF d = 1 THEN hi ELSE lo) > 0)
  <2>1. Attack(-d, setup) = IF d = 1 THEN hi ELSE lo
    BY <1>5 DEF Attack, Dirs
  <2>2. s1 = Wider(setup, b)
    BY <1>2, <1>4, <1>7, <1>10, <2>1 DEF Legacy
  <2>3. /\ ManipulationOf(s1)
        /\ s1.high = IF hi >= b.high THEN hi ELSE b.high
        /\ s1.low = IF lo <= b.low THEN lo ELSE b.low
        /\ s1 = [setup EXCEPT !.high = s1.high, !.low = s1.low]
    BY <1>3, <1>5, <2>2, WiderType
  <2>4. PICK x \in Int, y \in Int : x = s1.high /\ y = s1.low
    BY <2>3 DEF ManipulationOf, Setup
  <2>5. s1.dir = setup.dir /\ s1.arm = setup.arm /\ s1.phase = setup.phase
    <3>1. s1 = [setup EXCEPT !.high = x, !.low = y]
      BY <2>3, <2>4
    <3> QED BY <1>3, <3>1 DEF Setup
  <2>6. \A n \in {Now} : IsHighest(x, s .. n)' /\ IsLowest(y, s .. n)'
    <3>1. /\ IsHighest(hi, s .. Len(log)) /\ IsLowest(lo, s .. Len(log))
          /\ x = (IF hi >= b.high THEN hi ELSE b.high) /\ y = (IF lo <= b.low THEN lo ELSE b.low)
      BY <1>2, <1>5, <1>10, <2>3, <2>4
    <3>2. \A n \in {Now} : IsHighest(x, s .. n)'
      BY <1>1, <3>1, HighestStep
    <3>3. \A n \in {Now} : IsLowest(y, s .. n)'
      BY <1>1, <3>1, LowestStep
    <3> QED BY <3>2, <3>3
  <2>7. LegBroken(s, d)' = 0 /\ 0 \in 0 .. Now
    BY <1>1, <1>6, <1>10
  <2>8. ASSUME NEW u \in Int, NEW v \in Int, u = s1.high, v = s1.low, NEW n \in {Now}
        PROVE  IsHighest(u, s .. n)' /\ IsLowest(v, s .. n)'
    <3>1. u = x /\ v = y
      BY <2>4, <2>8
    <3> QED BY <2>6, <3>1
  <2> QED BY <1>2, <1>7, <1>10, <2>3, <2>5, <2>7, <2>8
<1> QED BY <1>8, <1>9, <1>10

LEMMA LegacyStep ==
    ASSUME TypeInv, GapsInv, RowInv, LegacyInv, NEW b \in BarShapes, NEW row, Grows(b, row),
           variant.phases = "legacy", row.sweep \in [Dirs -> SUBSET Int],
           setup' = Armed(Legacy(b, Now, row.sweep), Conf(b, {})), row.dir = setup'.dir
    PROVE  LegacyInv' /\ (setup' = NoSetup \/ ManipulationOf(setup)')
<1>1. /\ Len(log) \in Nat /\ Now = Len(log) + 1
      /\ \A k \in 1 .. Len(log) : log'[k] = log[k]
  BY Rows DEF Now
<1>2. CASE SweptNow(row) # {}
  BY <1>2, LegacySweeps
<1>3. CASE SweptNow(row) = {}
  <2>1. PICK s \in 0 .. Len(log) : s = LastSweep /\ s = LastSweep'
    BY <1>3, LastSweepStep
  <2>2. CASE s = 0
    <3>1. setup = NoSetup
      BY <2>1, <2>2 DEF LegacyInv
    <3>2. row.sweep[1] = {} /\ row.sweep[-1] = {}
      BY <1>3 DEF SweptNow, Dirs
    <3>3. Legacy(b, Now, row.sweep) = NoSetup
      BY <3>1, <3>2 DEF Legacy, NoSetup
    <3>4. setup' = NoSetup
      BY <3>3 DEF Armed, NoSetup
    <3> QED BY <2>1, <2>2, <3>4 DEF LegacyInv
  <2>3. CASE s # 0
    <3>1. s \in 1 .. Len(log) /\ s \in 1 .. Now
      BY <1>1, <2>3
    <3>2. PICK d \in Dirs, e0 \in 0 .. Len(log), l \in 1 .. Len(log) :
              e0 = LegBroken(s, d) /\ l = LastTurn /\ LegacyAs(s, d, e0, l)
      BY <2>1, <2>3 DEF LegacyInv
    <3>3. PICK s1 : \E e \in 0 .. Now :
             /\ s1 = Legacy(b, Now, row.sweep) /\ ManipulationOf(s1)
             /\ s1.dir = d /\ s1.arm = setup.arm /\ e = LegBroken(s, d)'
             /\ s1.phase = IF e = 0 THEN "manipulation" ELSE "distribution"
             /\ e = 0 => \A hi, lo \in Int : hi = s1.high /\ lo = s1.low =>
                           \A n \in {Now} : IsHighest(hi, s .. n)' /\ IsLowest(lo, s .. n)'
      BY <1>3, <3>1, <3>2, LegGoesOn
    <3>4. PICK e \in 0 .. Now :
             /\ s1 = Legacy(b, Now, row.sweep) /\ ManipulationOf(s1)
             /\ s1.dir = d /\ s1.arm = setup.arm /\ e = LegBroken(s, d)'
             /\ s1.phase = IF e = 0 THEN "manipulation" ELSE "distribution"
             /\ e = 0 => \A hi, lo \in Int : hi = s1.high /\ lo = s1.low =>
                           \A n \in {Now} : IsHighest(hi, s .. n)' /\ IsLowest(lo, s .. n)'
      BY <3>3
    <3>5. PICK hi \in Int, lo \in Int : hi = s1.high /\ lo = s1.low
      BY <3>4 DEF ManipulationOf, Setup
    <3>6. e = 0 => \A n \in {Now} : IsHighest(hi, s .. n)' /\ IsLowest(lo, s .. n)'
      BY <3>4, <3>5
    <3>7. setup' = Armed(s1, Conf(b, {}))
      BY <3>4
    <3>8. row.dir = d
      <4>1. Armed(s1, Conf(b, {})) =
                [s1 EXCEPT !.arm = NextArm(s1.arm, Inverted(b)[s1.dir] # {})]
        BY <3>4, ArmedIs
      <4>2. s1 \in Setup
        BY <3>4 DEF ManipulationOf
      <4>3. Armed(s1, Conf(b, {})).dir = s1.dir
        BY <4>1, <4>2 DEF Setup
      <4> QED BY <3>4, <3>7, <4>3
    <3>9. /\ setup.dir = d /\ log[s].dir = d /\ log[s].sweep[d] # {}
          /\ ArmSays(s1.arm, d, l, Len(log))
      BY <3>2, <3>4 DEF LegacyAs
    <3>10. log'[s].dir = d /\ log'[s].sweep[d] # {}
      BY <1>1, <3>1, <3>9
    <3>11. Len(log) # 0 /\ log # <<>>
      BY <1>1, <3>1
    <3>12. l = LastTurn' /\ l \in 1 .. Now
      BY <1>1, <3>2, <3>8, <3>9, <3>11, LastTurnStep DEF RowInv
    <3> QED BY <2>1, <3>1, <3>4, <3>5, <3>6, <3>7, <3>9, <3>10, <3>12, LegacyStage
  <2> QED BY <2>2, <2>3
<1> QED BY <1>2, <1>3

-----------------------------------------------------------------------------
(* A bar of either mode *)

LEMMA PhasesType ==
    ASSUME TypeInv, NEW b \in BarShapes, NEW sweep \in [Dirs -> SUBSET Int],
           NEW hs \in SUBSET Higher
    PROVE  Phases(b, Now, sweep, Conf(b, hs)) \in {NoSetup} \cup Setup
<1>1. Now \in Nat
  BY DEF Now, TypeInv, LogType
<1>2. PICK s1 : s1 = Swept(b, Now, sweep)
  OBVIOUS
<1>3. s1 = NoSetup \/ ManipulationOf(s1)
  <2>1. CASE Cardinality({d \in Dirs : sweep[d] # {}}) # 1
    BY <1>2, <2>1 DEF Swept, TypeInv, ManipulationOf
  <2>2. CASE Cardinality({d \in Dirs : sweep[d] # {}}) = 1
    <3> DEFINE sides == {d \in Dirs : sweep[d] # {}}
    <3>1. sides # {}
      BY <2>2, FS_EmptySet
    <3>2. PICK d \in sides : s1 = Manipulation(d, b, Now, CHOOSE lvl \in sweep[d] : TRUE)
      BY <1>2, <2>2, <3>1 DEF Swept
    <3>3. PICK lvl \in Int : s1 = Manipulation(d, b, Now, lvl)
      BY <3>2
    <3> QED BY <1>1, <3>3, ManipulationType
  <2> QED BY <2>1, <2>2
<1>4. CASE s1 = NoSetup
  <2>1. NoSetup.phase = "idle"
    BY DEF NoSetup
  <2>2. Reclaim(NoSetup, b) = NoSetup
    BY <2>1 DEF Reclaim
  <2>3. Distribute(NoSetup, Conf(b, hs), Now) = NoSetup
    BY <2>1 DEF Distribute
  <2>4. Excursion(NoSetup, b) = NoSetup
    BY <2>1 DEF Excursion
  <2> QED BY <1>2, <1>4, <2>2, <2>3, <2>4 DEF Phases
<1>5. CASE ManipulationOf(s1)
  <2>1. PICK s2 : s2 = Reclaim(s1, b) /\ ManipulationOf(s2)
    BY <1>5, ReclaimIs
  <2>2. PICK s3 : s3 = Distribute(s2, Conf(b, hs), Now)
    OBVIOUS
  <2>3. s2 \in Setup /\ s2.dir \in Dirs /\ \A x, y \in s2.extreme : x = y
    BY <2>1 DEF ManipulationOf, Setup
  <2>4. PICK gs \in SUBSET GapRecord : gs = Conf(b, hs)[s2.dir]
    BY <2>3, ConfType
  <2>5. s3 = s2 \/ s3 = [s2 EXCEPT !.phase = "distribution", !.zone = gs, !.since = Now]
    BY <2>2, <2>4 DEF Distribute
  <2>6. ManipulationOf(s3)
    BY <1>1, <2>3, <2>5 DEF ManipulationOf, Setup, PhaseNames
  <2>7. ManipulationOf(Excursion(s3, b))
    BY <2>6, ExcursionIs
  <2> QED BY <1>2, <2>1, <2>2, <2>7 DEF Phases, ManipulationOf
<1> QED BY <1>3, <1>4, <1>5

LEMMA LegacyType ==
    ASSUME TypeInv, NEW b \in BarShapes, NEW sweep \in [Dirs -> SUBSET Int]
    PROVE  Armed(Legacy(b, Now, sweep), Conf(b, {})) \in {NoSetup} \cup Setup
<1>1. Now \in Nat
  BY DEF Now, TypeInv, LogType
<1> DEFINE level(d) == CHOOSE lvl \in sweep[d] : TRUE
           start(d) == [Manipulation(d, b, Now, level(d)) EXCEPT
                          !.arm = IF setup.dir = d THEN setup.arm ELSE "off"]
<1>2. ASSUME NEW d \in Dirs, sweep[d] # {} PROVE ManipulationOf(start(d))
  <2>1. PICK lvl \in Int : lvl = level(d)
    BY <1>2
  <2>2. PICK m : m = Manipulation(d, b, Now, lvl)
    OBVIOUS
  <2>3. m \in Setup /\ \A x, y \in m.extreme : x = y
    BY <1>1, <2>2, ManipulationType DEF ManipulationOf
  <2>4. PICK a \in {"off", "pending", "armed"} : a = IF setup.dir = d THEN setup.arm ELSE "off"
    <3>1. setup.dir = d => setup \in Setup
      BY DEF TypeInv, NoSetup, Dirs
    <3>2. setup.dir = d => setup.arm \in {"off", "pending", "armed"}
      BY <3>1 DEF Setup
    <3> QED BY <3>2
  <2>5. start(d) = [m EXCEPT !.arm = a]
    BY <2>1, <2>2, <2>4
  <2> HIDE DEF start
  <2> QED BY <2>3, <2>4, <2>5 DEF ManipulationOf, Setup
<1>3. PICK s1 : s1 = Legacy(b, Now, sweep)
  OBVIOUS
<1>4. s1 = NoSetup \/ ManipulationOf(s1)
  <2>1. setup = NoSetup \/ ManipulationOf(setup)
    BY DEF TypeInv, ManipulationOf
  <2>2. setup.phase = "manipulation" => setup # NoSetup
    BY DEF NoSetup
  <2>3. CASE setup.phase = "manipulation"
    <3>1. ManipulationOf(setup) /\ setup \in Setup
      BY <2>1, <2>2, <2>3 DEF ManipulationOf
    <3>2. setup.dir \in Dirs /\ -setup.dir \in Dirs
      BY <3>1 DEF Setup, Dirs
    <3>3. CASE sweep[-setup.dir] # {}
      <4>1. s1 = start(-setup.dir)
        BY <1>3, <2>3, <3>3 DEF Legacy
      <4> HIDE DEF start
      <4> QED BY <1>2, <3>2, <3>3, <4>1
    <3>4. CASE sweep[-setup.dir] = {} /\ sweep[setup.dir] # {}
      <4>1. s1 = start(setup.dir)
        BY <1>3, <2>3, <3>4 DEF Legacy
      <4> HIDE DEF start
      <4> QED BY <1>2, <3>2, <3>4, <4>1
    <3>5. CASE sweep[-setup.dir] = {} /\ sweep[setup.dir] = {}
      <4>1. s1 = [setup EXCEPT !.phase = "distribution", !.since = Now] \/ s1 = Wider(setup, b)
        BY <1>3, <2>3, <3>5 DEF Legacy
      <4>2. ManipulationOf([setup EXCEPT !.phase = "distribution", !.since = Now])
        BY <1>1, <3>1 DEF ManipulationOf, Setup, PhaseNames
      <4>3. ManipulationOf(Wider(setup, b))
        BY <3>1, WiderType
      <4> QED BY <4>1, <4>2, <4>3
    <3> QED BY <3>3, <3>4, <3>5
  <2>4. CASE setup.phase # "manipulation"
    <3>1. 1 \in Dirs /\ -1 \in Dirs
      BY DEF Dirs
    <3>2. \/ sweep[1] # {} /\ s1 = start(1)
          \/ sweep[-1] # {} /\ s1 = start(-1)
          \/ s1 = setup
      BY <1>3, <2>4 DEF Legacy
    <3> HIDE DEF start
    <3> QED BY <1>2, <2>1, <3>1, <3>2
  <2> QED BY <2>3, <2>4
<1>5. PICK cs : cs = Conf(b, {})
  OBVIOUS
<1>6. CASE s1 = NoSetup
  <2>1. Armed(NoSetup, cs) = NoSetup
    BY DEF Armed, NoSetup
  <2> QED BY <1>3, <1>5, <1>6, <2>1
<1>7. CASE ManipulationOf(s1)
  <2>1. s1 \in Setup /\ s1.arm \in {"off", "pending", "armed"} /\ s1.phase # "idle"
    BY <1>7 DEF ManipulationOf, Setup
  <2>2. PICK a \in {"off", "pending", "armed"} : Armed(s1, cs) = [s1 EXCEPT !.arm = a]
    <3>1. CASE cs[s1.dir] # {}
      BY <2>1, <3>1 DEF Armed
    <3>2. CASE cs[s1.dir] = {}
      BY <2>1, <3>2 DEF Armed
    <3> QED BY <3>1, <3>2
  <2>3. [s1 EXCEPT !.arm = a] \in Setup
    BY <2>1, <2>2 DEF Setup
  <2> QED BY <1>3, <1>5, <2>2, <2>3
<1> QED BY <1>4, <1>6, <1>7

LEMMA ZoneStep ==
    ASSUME GapsInv, ZoneInv, NEW b, NEW row, Grows(b, row),
           zone' = [d \in Dirs |-> After(d, Zones(b)[d], b, Now)],
           \A d \in Dirs : /\ row.live[d] <=> Live(Zones(b)[d], Now) # {}
                           /\ row.retest[d] <=> Retested(d, Live(Zones(b)[d], Now), b) # {}
    PROVE  ZoneInv' /\ RowsInv'
<1>1. Len(log) \in Nat /\ Len(log') = Now /\ Now = Len(log) + 1 /\ log'[Now] = row
  BY Rows DEF Now
<1>2. ASSUME NEW d \in Dirs, NEW c \in 0 .. Now, c = LastInverted(d)'
      PROVE  /\ IF c = 0 THEN zone'[d] = {}
                ELSE \E z \in zone'[d] : zone'[d] = {z} /\ ZoneSince(d, c, z)'
             /\ IF c = 0 THEN ~ row.live[d] /\ ~ row.retest[d]
                ELSE \A g \in Newest(InvertedAt(d, c)') : RowSays(d, c, g)'
  <2>1. zone'[d] = After(d, Zones(b)[d], b, Now)
    OBVIOUS
  <2>2. CASE Inverted(b)[d] # {}
    <3>1. c \in {Now} /\ c # 0
      BY <1>1, <1>2, <2>2, LastInvertedStep
    <3>2. /\ \E z \in zone'[d] : zone'[d] = {z} /\ ZoneSince(d, c, z)'
          /\ \A g \in Newest(InvertedAt(d, c)') : RowSays(d, c, g)'
      BY <2>1, <2>2, <3>1, ZoneStarts
    <3> QED BY <3>1, <3>2
  <2>3. CASE Inverted(b)[d] = {}
    <3>1. c = LastInverted(d) /\ c \in 0 .. Len(log)
      BY <1>2, <2>3, LastInvertedStep
    <3>2. CASE c = 0
      <4>1. zone[d] = {}
        BY <3>1, <3>2 DEF ZoneInv
      <4>2. Own(b)[d] = {}
        BY <2>3 DEF Own, Newest
      <4>3. Zones(b)[d] = {}
        BY <4>1, <4>2 DEF Zones, Current
      <4>4. Live({}, Now) = {} /\ Retested(d, {}, b) = {} /\ After(d, {}, b, Now) = {}
        BY DEF Live, Retested, After
      <4>5. zone'[d] = {}
        BY <2>1, <4>3, <4>4
      <4>6. ~ row.live[d] /\ ~ row.retest[d]
        BY <4>3, <4>4
      <4> QED BY <3>2, <4>5, <4>6
    <3>3. CASE c # 0
      <4>1. PICK z \in zone[d] : zone[d] = {z} /\ ZoneSince(d, c, z)
        BY <3>1, <3>3 DEF ZoneInv
      <4>2. c \in 1 .. Len(log)
        BY <1>1, <3>1, <3>3
      <4>3. /\ \E y \in zone'[d] : zone'[d] = {y} /\ ZoneSince(d, c, y)'
            /\ \A g \in Newest(InvertedAt(d, c)') : RowSays(d, c, g)'
        BY <2>1, <2>3, <4>1, <4>2, ZoneAges
      <4> QED BY <3>3, <4>3
    <3> QED BY <3>2, <3>3
  <2> QED BY <2>2, <2>3
<1>3. ZoneInv'
  BY <1>1, <1>2 DEF ZoneInv
<1>4. RowsInv'
  <2>1. \A g, k : Newest(InvertedAt(k, g))' = Newest(InvertedAt(k, g)')
    BY DEF Newest
  <2> QED BY <1>1, <1>2, <2>1 DEF RowsInv
<1> QED BY <1>3, <1>4

(* What every bar keeps, whatever it makes of the setup.                   *)
LEMMA RowStep ==
    ASSUME TypeInv, GapsInv, ZoneInv, NEW b \in BarShapes, NEW sweep \in [Dirs -> SUBSET Int],
           NEW hs \in SUBSET Higher, NEW s \in {NoSetup} \cup Setup, Row(b, sweep, hs, s)
    PROVE  \E row : /\ Grows(b, row) /\ row.sweep = sweep /\ row.higher = hs
                    /\ row.dir = setup'.dir /\ setup' = s
                    /\ variant' \in Variants /\ LogType'
                    /\ gaps' \in [Dirs -> SUBSET GapRecord] /\ zone' \in [Dirs -> SUBSET ZoneRecord]
                    /\ GapsInv' /\ ZoneInv' /\ RowsInv' /\ RowInv'
<1>0. PICK row : RowOf(row, b, sweep, hs, s)
  BY RowTyped
<1>1. /\ Grows(b, row) /\ row.sweep = sweep /\ row.higher = hs
      /\ row.phase = s.phase /\ row.dir = s.dir
      /\ row.after <=> AfterIfvg(s, Now)
      /\ \A d \in Dirs : /\ row.live[d] <=> Live(Zones(b)[d], Now) # {}
                         /\ row.retest[d] <=> Retested(d, Live(Zones(b)[d], Now), b) # {}
  BY <1>0 DEF RowOf
<1>2. setup' = s /\ variant' = variant
  BY DEF Row
<1>3. variant' \in Variants
  BY <1>2 DEF TypeInv
<1>4. Len(log) \in Nat /\ Len(log') = Now /\ log'[Now] = row /\ LogType'
  BY <1>1, Rows DEF Now
<1>5. gaps' \in [Dirs -> SUBSET GapRecord]
  BY GapsType
<1>6. /\ zone' = [d \in Dirs |-> After(d, Zones(b)[d], b, Now)]
      /\ zone' \in [Dirs -> SUBSET ZoneRecord]
  BY ZoneType
<1>7. GapsInv'
  <2>1. gaps' = [d \in Dirs |->
                    {g \in Born(b)[d] \ Inverted(b)[Source(d)] : Now - g.at < GapAge}]
    BY DEF Row
  <2> QED BY <1>1, <2>1, GapsKept
<1>8. ZoneInv' /\ RowsInv'
  BY <1>1, <1>6, ZoneStep
<1>9. RowInv'
  BY <1>1, <1>2, <1>4 DEF RowInv, AfterIfvg
<1> QED BY <1>1, <1>2, <1>3, <1>4, <1>5, <1>6, <1>7, <1>8, <1>9

LEMMA RefsStep ==
    ASSUME TypeInv, RefsInv, NEW b \in BarShapes, NEW row, Grows(b, row),
           NEW new \in {{}} \cup {{x} : x \in Reference}, \A r \in new : r.at = Now,
           variant.phases = "revised",
           NEW come, come = Enter(new), refs' = come \ Crossed(come, b)
    PROVE  RefsInv' /\ refs' \in SUBSET Reference
<1>1. /\ Len(log) \in Nat /\ Len(log') = Now /\ Now = Len(log) + 1 /\ log'[Now] = row
      /\ \A k \in 1 .. Len(log) : log'[k] = log[k]
  BY Rows DEF Now
<1>2. refs \in SUBSET Reference
  BY DEF TypeInv
<1>3. /\ come \subseteq refs \cup new /\ IsFiniteSet(come)
      /\ \A r \in come : Cardinality(Group(come, r)) <= MaxRefs
  BY <1>2, EnterKeeps DEF RefsInv
<1>4. refs' \subseteq come /\ come \subseteq Reference /\ IsFiniteSet(refs')
  <2>1. refs' \subseteq come /\ come \subseteq Reference
    BY <1>2, <1>3
  <2> QED BY <1>3, <2>1, FS_Subset
<1>5. ASSUME NEW r \in refs'
      PROVE  /\ Cardinality(Group(refs', r)) <= MaxRefs
             /\ r.at \in 1 .. Len(log')
             /\ \A k \in 1 .. Len(log') : r.at <= k => Beyond(r.dir, log'[k], r.level) <= 0
  <2>1. r \in come /\ r \in Reference /\ ~ (Beyond(r.dir, b, r.level) > 0)
    BY <1>4 DEF Crossed
  <2>2. Cardinality(Group(refs', r)) <= MaxRefs
    <3>1. Group(refs', r) \subseteq Group(come, r)
      BY <1>4 DEF Group
    <3>2. IsFiniteSet(Group(come, r)) /\ Cardinality(Group(come, r)) <= MaxRefs
      <4>1. Group(come, r) \subseteq come
        BY DEF Group
      <4> QED BY <1>3, <2>1, <4>1, FS_Subset
    <3> QED BY <1>4, <3>1, <3>2, SmallerGroup
  <2>3. Beyond(r.dir, b, r.level) <= 0 /\ Beyond(r.dir, row, r.level) <= 0
    <3>1. Attack(r.dir, row) = Attack(r.dir, b)
      BY DEF Grows, Attack
    <3>2. Attack(r.dir, b) \in Int /\ r.level \in Int /\ r.dir \in Dirs
      BY <2>1, BarType DEF Attack, Reference
    <3>3. Beyond(r.dir, b, r.level) \in Int
      BY <3>2 DEF Beyond, Dirs
    <3>4. Beyond(r.dir, row, r.level) = Beyond(r.dir, b, r.level)
      BY <3>1 DEF Beyond
    <3> QED BY <2>1, <3>3, <3>4
  <2>4. CASE r \in refs
    <3>1. /\ r.at \in 1 .. Len(log)
          /\ \A k \in 1 .. Len(log) : r.at <= k => Beyond(r.dir, log[k], r.level) <= 0
      BY <2>4 DEF RefsInv
    <3>2. \A k \in 1 .. Len(log') : r.at <= k => Beyond(r.dir, log'[k], r.level) <= 0
      BY <1>1, <2>3, <3>1
    <3> QED BY <1>1, <2>2, <3>1, <3>2
  <2>5. CASE r \notin refs
    <3>1. r.at = Now
      BY <1>3, <2>1, <2>5
    <3>2. \A k \in 1 .. Len(log') : r.at <= k => k = Now
      BY <1>1, <3>1
    <3> QED BY <1>1, <2>2, <2>3, <3>1, <3>2
  <2> QED BY <2>4, <2>5
<1>6. variant'.phases # "legacy"
  BY DEF Grows
<1> QED BY <1>4, <1>5, <1>6 DEF RefsInv

-----------------------------------------------------------------------------
(* The invariant *)

IInv == /\ TypeInv /\ GapsInv /\ ZoneInv /\ RowsInv /\ RefsInv
        /\ RowInv /\ RevisedInv /\ LegacyInv

LEMMA InitInv == Init => IInv
<1> SUFFICES ASSUME Init PROVE IInv
  OBVIOUS
<1>1. log = <<>> /\ Len(log) = 0 /\ variant \in Variants /\ setup = NoSetup
  BY DEF Init
<1>2. TypeInv
  <2>1. LogType
    BY <1>1 DEF LogType
  <2>2. swing \in [side : Sides, level : [Dirs -> SUBSET Int]]
    <3>1. [d \in Dirs |-> {}] \in [Dirs -> SUBSET Int]
      OBVIOUS
    <3> QED BY <3>1 DEF Init, Sides
  <2>3. gaps \in [Dirs -> SUBSET GapRecord] /\ zone \in [Dirs -> SUBSET ZoneRecord]
    BY DEF Init
  <2>4. news \in 0 .. MaxNews
    BY Po3Assumption DEF Init
  <2> QED BY <1>1, <2>1, <2>2, <2>3, <2>4 DEF Init, TypeInv
<1>3. GapsInv
  BY <1>1 DEF Init, GapsInv, Open, IsGap
<1>4. ZoneInv /\ RowsInv
  BY <1>1 DEF Init, ZoneInv, RowsInv
<1>5. RefsInv
  BY FS_EmptySet DEF Init, RefsInv
<1>6. RowInv
  BY <1>1 DEF RowInv
<1>7. RevisedInv /\ LegacyInv
  BY <1>1 DEF RevisedInv, LegacyInv
<1> QED BY <1>2, <1>3, <1>4, <1>5, <1>6, <1>7 DEF IInv

LEMMA LegacyBarInv ==
    ASSUME IInv, LegacyBar
    PROVE  IInv'
<1>1. /\ TypeInv /\ GapsInv /\ ZoneInv /\ RefsInv /\ RowInv /\ LegacyInv
      /\ variant.phases = "legacy" /\ refs' = refs /\ news' = news
  BY DEF IInv, LegacyBar
<1>0. PICK b \in BarShapes : \E sweep :
        /\ sweep = [d \in Dirs |-> SwingSweep(d, b)]
        /\ Row(b, sweep, {}, Armed(Legacy(b, Now, sweep), Conf(b, {})))
        /\ swing' = NextSwing(Append(log, b))
  BY DEF LegacyBar
<1>2. PICK sweep :
        /\ sweep = [d \in Dirs |-> SwingSweep(d, b)]
        /\ Row(b, sweep, {}, Armed(Legacy(b, Now, sweep), Conf(b, {})))
        /\ swing' = NextSwing(Append(log, b))
  BY <1>0
<1>3. sweep \in [Dirs -> SUBSET Int]
  BY <1>1, <1>2 DEF SwingSweep, TypeInv
<1>4. PICK s \in {NoSetup} \cup Setup : s = Armed(Legacy(b, Now, sweep), Conf(b, {}))
  BY <1>1, <1>3, LegacyType
<1>5. PICK row :
        /\ Grows(b, row) /\ row.sweep = sweep
        /\ row.dir = setup'.dir /\ setup' = s
        /\ variant' \in Variants /\ LogType'
        /\ gaps' \in [Dirs -> SUBSET GapRecord] /\ zone' \in [Dirs -> SUBSET ZoneRecord]
        /\ GapsInv' /\ ZoneInv' /\ RowsInv' /\ RowInv'
  <2>1. {} \in SUBSET Higher /\ Row(b, sweep, {}, s)
    BY <1>2, <1>4
  <2> QED BY <1>1, <1>3, <2>1, RowStep
<1>6. LegacyInv' /\ (setup' = NoSetup \/ ManipulationOf(setup)')
  <2>1. row.sweep \in [Dirs -> SUBSET Int]
    BY <1>3, <1>5
  <2>2. setup' = Armed(Legacy(b, Now, row.sweep), Conf(b, {}))
    BY <1>4, <1>5
  <2> QED BY <1>1, <1>5, <2>1, <2>2, LegacyStep
<1>7. variant' = variant
  BY <1>5 DEF Grows
<1>8. RevisedInv' /\ RefsInv'
  <2>1. refs' = {}
    BY <1>1 DEF RefsInv
  <2>2. RefsInv'
    BY <2>1, FS_EmptySet DEF RefsInv
  <2>3. RevisedInv'
    BY <1>1, <1>7 DEF RevisedInv
  <2> QED BY <2>2, <2>3
<1>9. TypeInv'
  <2>1. swing' \in [side : Sides, level : [Dirs -> SUBSET Int]]
    BY <1>1, <1>2, SwingType
  <2>2. /\ setup' \in {NoSetup} \cup Setup
        /\ setup' # NoSetup => \A x, y \in setup'.extreme : x = y
    BY <1>6 DEF ManipulationOf
  <2>3. refs' \in SUBSET Reference /\ news' \in 0 .. MaxNews
    BY <1>1 DEF TypeInv
  <2> QED BY <1>5, <2>1, <2>2, <2>3 DEF TypeInv
<1> QED BY <1>5, <1>6, <1>8, <1>9 DEF IInv

LEMMA RevisedBarInv ==
    ASSUME IInv, RevisedBar
    PROVE  IInv'
<1>1. /\ TypeInv /\ GapsInv /\ ZoneInv /\ RefsInv /\ RevisedInv
      /\ variant.phases = "revised" /\ swing' = swing
  BY DEF IInv, RevisedBar
<1>0. PICK b \in BarShapes, new \in {{}} \cup {{r} : r \in References},
           hs \in {{}} \cup {{h} : h \in Higher} : \E come, sweep :
        /\ come = Enter({[dir |-> r.dir, tf |-> r.tf, level |-> r.level, at |-> Now] : r \in new})
        /\ sweep = [d \in Dirs |-> {r.level : r \in Selected(d, come, b)}]
        /\ news + Cardinality(new) + Cardinality(hs) <= MaxNews
        /\ news' = news + Cardinality(new) + Cardinality(hs)
        /\ refs' = come \ Crossed(come, b)
        /\ Row(b, sweep, hs, Phases(b, Now, sweep, Conf(b, hs)))
  BY DEF RevisedBar
<1>2. PICK come, sweep :
        /\ come = Enter({[dir |-> r.dir, tf |-> r.tf, level |-> r.level, at |-> Now] : r \in new})
        /\ sweep = [d \in Dirs |-> {r.level : r \in Selected(d, come, b)}]
        /\ news + Cardinality(new) + Cardinality(hs) <= MaxNews
        /\ news' = news + Cardinality(new) + Cardinality(hs)
        /\ refs' = come \ Crossed(come, b)
        /\ Row(b, sweep, hs, Phases(b, Now, sweep, Conf(b, hs)))
  BY <1>0
<1>3. Now \in Nat
  BY <1>1 DEF Now, TypeInv, LogType
<1>4. PICK fresh \in {{}} \cup {{x} : x \in Reference} :
        /\ fresh = {[dir |-> r.dir, tf |-> r.tf, level |-> r.level, at |-> Now] : r \in new}
        /\ \A r \in fresh : r.at = Now
  <2> DEFINE of(r) == [dir |-> r.dir, tf |-> r.tf, level |-> r.level, at |-> Now]
  <2>1. \A r \in References : of(r) \in Reference /\ of(r).at = Now
    BY <1>3, Po3Assumption DEF Reference
  <2>2. new = {} \/ \E r \in References : new = {r}
    OBVIOUS
  <2> HIDE DEF of
  <2>3. {of(r) : r \in new} \in {{}} \cup {{x} : x \in Reference}
    BY <2>1, <2>2
  <2>4. \A r \in {of(x) : x \in new} : r.at = Now
    BY <2>1, <2>2
  <2> USE DEF of
  <2> QED BY <2>3, <2>4
<1>5. come = Enter(fresh) /\ come \subseteq Reference
  <2>1. come = Enter(fresh)
    BY <1>2, <1>4
  <2>2. Enter(fresh) \subseteq refs \cup fresh
    BY DEF Enter
  <2> QED BY <1>1, <2>1, <2>2 DEF TypeInv
<1>6. sweep \in [Dirs -> SUBSET Int]
  <2>1. \A d \in Dirs : Selected(d, come, b) \subseteq Reference
    BY <1>5 DEF Selected, Crossed
  <2>2. \A d \in Dirs : {r.level : r \in Selected(d, come, b)} \subseteq Int
    BY <2>1 DEF Reference
  <2> QED BY <1>2, <2>2
<1>7. hs \in SUBSET Higher
  OBVIOUS
<1>8. PICK s \in {NoSetup} \cup Setup : s = Phases(b, Now, sweep, Conf(b, hs))
  BY <1>1, <1>6, <1>7, PhasesType
<1>9. PICK row :
        /\ Grows(b, row) /\ row.sweep = sweep /\ row.higher = hs
        /\ setup' = s
        /\ variant' \in Variants /\ LogType'
        /\ gaps' \in [Dirs -> SUBSET GapRecord] /\ zone' \in [Dirs -> SUBSET ZoneRecord]
        /\ GapsInv' /\ ZoneInv' /\ RowsInv' /\ RowInv'
  <2>1. Row(b, sweep, hs, s)
    BY <1>2, <1>8
  <2> QED BY <1>1, <1>6, <1>7, <2>1, RowStep
<1>10. RevisedInv' /\ (setup' = NoSetup \/ ManipulationOf(setup)')
  BY <1>1, <1>6, <1>8, <1>9, RevisedStep
<1>11. RefsInv' /\ refs' \in SUBSET Reference
  BY <1>1, <1>2, <1>4, <1>5, <1>9, RefsStep
<1>12. LegacyInv'
  BY <1>1, <1>9 DEF LegacyInv, Grows
<1>13. TypeInv'
  <2>1. news' \in 0 .. MaxNews
    <3>1. IsFiniteSet(new) /\ IsFiniteSet(hs)
      <4>1. \A x : IsFiniteSet({x})
        BY FS_Singleton
      <4>2. (new = {} \/ \E r : new = {r}) /\ (hs = {} \/ \E h : hs = {h})
        OBVIOUS
      <4> QED BY <4>1, <4>2, FS_EmptySet
    <3>2. Cardinality(new) \in Nat /\ Cardinality(hs) \in Nat
      BY <3>1, FS_CardinalityType
    <3>3. news \in Nat /\ MaxNews \in Nat
      BY <1>1, Po3Assumption DEF TypeInv
    <3> QED BY <1>2, <3>2, <3>3
  <2>2. /\ setup' \in {NoSetup} \cup Setup
        /\ setup' # NoSetup => \A x, y \in setup'.extreme : x = y
    BY <1>10 DEF ManipulationOf
  <2>3. swing' \in [side : Sides, level : [Dirs -> SUBSET Int]]
    BY <1>1 DEF TypeInv
  <2> QED BY <1>9, <1>11, <2>1, <2>2, <2>3 DEF TypeInv
<1> QED BY <1>9, <1>10, <1>11, <1>12, <1>13 DEF IInv

LEMMA StutterInv ==
    ASSUME IInv, UNCHANGED vars
    PROVE  IInv'
<1>1. /\ variant' = variant /\ log' = log /\ swing' = swing /\ refs' = refs
      /\ gaps' = gaps /\ zone' = zone /\ setup' = setup /\ news' = news
  BY DEF vars
<1>2. TypeInv' /\ RefsInv'
  BY <1>1 DEF IInv, TypeInv, LogType, RefsInv
<1>3. \A d, k : InvertedAt(d, k)' = InvertedAt(d, k)
  BY <1>1 DEF InvertedAt, Source, ClosedThrough, Between
<1>4. GapsInv'
  BY <1>1 DEF IInv, GapsInv, Open, IsGap, ClosedThrough, Source
<1>5. \A d : LastInverted(d)' = LastInverted(d)
  BY <1>1, <1>3 DEF LastInverted, Last
<1>6. ZoneInv' /\ RowsInv'
  BY <1>1, <1>3, <1>5 DEF IInv, ZoneInv, RowsInv, ZoneSince, RowSays, Between
<1>7. RowInv'
  BY <1>1 DEF IInv, RowInv, AfterIfvg
<1>8. /\ LastSingle' = LastSingle /\ LastSweep' = LastSweep /\ LastTurn' = LastTurn
      /\ \A s, d, lvl : ReclaimBar(s, d, lvl)' = ReclaimBar(s, d, lvl)
      /\ \A s, d : LegBroken(s, d)' = LegBroken(s, d)
  BY <1>1 DEF LastSingle, LastSweep, LastTurn, SidesOf, ReclaimBar, LegBroken, Between,
              Highest, Lowest, Last, First
<1>9. \A d, s, k : EligibleAt(d, s, k)' = EligibleAt(d, s, k)
  BY <1>1, <1>3 DEF EligibleAt, Merged
<1>10. \A r, s, d : ConfirmBar(r, s, d)' = ConfirmBar(r, s, d)
  BY <1>1, <1>9 DEF ConfirmBar, Between, First
<1>11. RevisedInv'
  BY <1>1, <1>8, <1>9, <1>10 DEF IInv, RevisedInv, RevisedAs, IsHighest, IsLowest
<1>12. LegacyInv'
  <2>1. \A arm, d, l, n : ArmSays(arm, d, l, n)' <=> ArmSays(arm, d, l, n)
    BY <1>3 DEF ArmSays
  <2>2. \A s, d, e, l : LegacyAs(s, d, e, l)' <=> LegacyAs(s, d, e, l)
    BY <1>1, <2>1 DEF LegacyAs, IsHighest, IsLowest
  <2> QED BY <1>1, <1>8, <2>2 DEF IInv, LegacyInv
<1> QED BY <1>2, <1>4, <1>6, <1>7, <1>11, <1>12 DEF IInv

LEMMA StepInv == ASSUME IInv, [Next]_vars PROVE IInv'
<1>1. CASE LegacyBar
  BY <1>1, LegacyBarInv
<1>2. CASE RevisedBar
  BY <1>2, RevisedBarInv
<1>3. CASE UNCHANGED vars
  BY <1>3, StutterInv
<1> QED BY <1>1, <1>2, <1>3 DEF Next

(* The history explains the state of every machine after every bar.        *)
THEOREM Inductive == Spec => []IInv
<1>1. IInv /\ [Next]_vars => IInv'
  BY StepInv
<1> QED BY InitInv, <1>1, PTL DEF Spec

-----------------------------------------------------------------------------
(* What it says of the rows *)

LEMMA ZonesSaid == IInv => ZonesAsDefined
<1> SUFFICES ASSUME IInv, log # <<>>, NEW d \in Dirs
             PROVE  LET t == Len(log)
                        c == Last({k \in 1 .. t : InvertedAt(d, k) # {}})
                        z == CHOOSE z \in Newest(InvertedAt(d, c)) : TRUE
                        live == c # 0 /\ t - c < ZoneAge
                                /\ \A k \in Between(c, t - 1) : ~ Fills(d, log[k], z)
                    IN  /\ log[t].live[d] <=> live
                        /\ log[t].retest[d] <=>
                               /\ live /\ Overlaps(log[t], z) /\ ~ Fills(d, log[t], z)
                               /\ \E k \in Between(c, t - 1) : Away(d, log[k], z)
  BY DEF ZonesAsDefined
<1>1. LogType /\ RowsInv /\ Len(log) \in Nat
  BY DEF IInv, TypeInv, LogType
<1> DEFINE ks == {k \in 1 .. Len(log) : InvertedAt(d, k) # {}}
<1>2. PICK c : c = LastInverted(d)
  OBVIOUS
<1>3. c = Last(ks)
  BY <1>2 DEF LastInverted
<1>4. c \in 0 .. Len(log) /\ (c # 0 => c \in ks)
  <2>1. ks \in SUBSET (1 .. Len(log))
    OBVIOUS
  <2> HIDE DEF ks
  <2> QED BY <1>1, <1>3, <2>1, LastOf
<1>5. CASE c = 0
  <2>1. ~ log[Len(log)].live[d] /\ ~ log[Len(log)].retest[d]
    BY <1>1, <1>2, <1>4, <1>5 DEF RowsInv
  <2> QED BY <1>3, <1>5, <2>1
<1>6. CASE c # 0
  <2>1. c \in 1 .. Len(log) /\ InvertedAt(d, c) # {}
    BY <1>4, <1>6
  <2>2. PICK g : Newest(InvertedAt(d, c)) = {g}
    BY <1>1, <2>1, InvertedOne
  <2>3. (CHOOSE z \in Newest(InvertedAt(d, c)) : TRUE) = g
    BY <2>2
  <2>4. RowSays(d, c, g)
    BY <1>1, <1>2, <1>4, <1>6, <2>2 DEF RowsInv
  <2> HIDE DEF ks
  <2>5. log[Len(log)].live[d] <=>
            /\ c # 0 /\ Len(log) - c < ZoneAge
            /\ \A k \in Between(c, Len(log) - 1) : ~ Fills(d, log[k], g)
    BY <1>6, <2>4 DEF RowSays
  <2>6. log[Len(log)].retest[d] <=>
            /\ c # 0 /\ Len(log) - c < ZoneAge
            /\ \A k \in Between(c, Len(log) - 1) : ~ Fills(d, log[k], g)
            /\ Overlaps(log[Len(log)], g) /\ ~ Fills(d, log[Len(log)], g)
            /\ \E k \in Between(c, Len(log) - 1) : Away(d, log[k], g)
    BY <1>6, <2>4 DEF RowSays
  <2> USE DEF ks
  <2> QED BY <1>3, <2>3, <2>5, <2>6
<1> QED BY <1>5, <1>6

LEMMA BetweenIs ==
    ASSUME LogType, NEW i \in Nat, i >= 1, NEW j \in 0 .. Len(log)
    PROVE  Between(i, j) = i .. j /\ i .. j \in SUBSET (1 .. Len(log))
BY DEF Between, LogType

LEMMA RevisedSaid ==
    ASSUME IInv, variant.phases = "revised", NEW s \in 1 .. Len(log), s = LastSingle
    PROVE  \E d \in Dirs, lvl \in UNION {log[s].sweep[e] : e \in Dirs} : RevisedSince(s, d, lvl)
<1>1. LogType /\ Len(log) \in Nat /\ s # 0 /\ log # <<>>
  BY DEF IInv, TypeInv, LogType
<1>2. PICK d \in Dirs : \E lvl \in log[s].sweep[d], r, c \in 0 .. Len(log) :
          r = ReclaimBar(s, d, lvl) /\ c = ConfirmBar(r, s, d) /\ RevisedAs(s, d, lvl, r, c)
  BY <1>1 DEF IInv, RevisedInv
<1>3. PICK lvl \in log[s].sweep[d], r \in 0 .. Len(log), c \in 0 .. Len(log) :
          r = ReclaimBar(s, d, lvl) /\ c = ConfirmBar(r, s, d) /\ RevisedAs(s, d, lvl, r, c)
  BY <1>2
<1>4. PICK leg : leg = Between(s, IF r = 0 THEN Len(log) ELSE r)
  OBVIOUS
<1>5. setup.high = Highest(leg) /\ setup.low = Lowest(leg)
  <2>1. PICK j \in 0 .. Len(log) : j = IF r = 0 THEN Len(log) ELSE r
    BY <1>1, <1>3
  <2>2. leg = s .. j /\ s .. j \in SUBSET (1 .. Len(log))
    BY <1>1, <1>4, <2>1, BetweenIs
  <2>3. IsHighest(setup.high, leg) /\ IsLowest(setup.low, leg)
    BY <1>3, <2>1, <2>2 DEF RevisedAs
  <2> QED BY <1>1, <2>2, <2>3, ExtremesAre
<1>6. /\ setup.dir = d
      /\ setup.phase = IF r = 0 THEN "manipulation" ELSE IF c = 0 THEN "waiting" ELSE "distribution"
      /\ r # 0 /\ c # 0 => setup.since = c /\ setup.zone = Newest(EligibleAt(d, s, c))
  BY <1>3 DEF RevisedAs
<1>7. log[Len(log)].after <=> setup.phase = "distribution" /\ Len(log) > c
  <2>1. log[Len(log)].after <=> setup.phase = "distribution" /\ Len(log) > setup.since
    BY <1>1 DEF IInv, RowInv, AfterIfvg
  <2> QED BY <1>6, <2>1
<1>8. setup.phase = "distribution" => setup.zone = Newest(EligibleAt(d, s, c))
  BY <1>6
<1>9. RevisedSince(s, d, lvl)
  BY <1>3, <1>4, <1>5, <1>6, <1>7, <1>8 DEF RevisedSince, ReclaimBar, ConfirmBar
<1> QED BY <1>9

LEMMA LegacySaid ==
    ASSUME IInv, variant.phases = "legacy", NEW s \in 1 .. Len(log), s = LastSweep
    PROVE  log[s].dir \in SidesOf(s) /\ LegacySince(s, LastTurn)
<1>1. LogType /\ Len(log) \in Nat /\ s # 0 /\ log # <<>>
  BY DEF IInv, TypeInv, LogType
<1>2. PICK d \in Dirs, e \in 0 .. Len(log), l \in 1 .. Len(log) :
          e = LegBroken(s, d) /\ l = LastTurn /\ LegacyAs(s, d, e, l)
  BY <1>1 DEF IInv, LegacyInv
<1>3. /\ setup.dir = d /\ log[s].dir = d /\ log[s].sweep[d] # {}
      /\ setup.phase = IF e = 0 THEN "manipulation" ELSE "distribution"
      /\ ArmSays(setup.arm, d, l, Len(log))
  BY <1>2 DEF LegacyAs
<1>4. PICK matched : matched = {k \in Between(l, Len(log)) : InvertedAt(d, k) # {}}
  OBVIOUS
<1>5. log[Len(log)].after <=>
          e # 0 /\ \E k \in Between(l, Len(log)) \ matched : \E m \in matched : m < k
  <2>1. log[Len(log)].after <=> setup.phase = "distribution" /\ setup.arm = "armed"
    BY <1>1 DEF IInv, RowInv, AfterIfvg
  <2>2. Between(l, Len(log)) = l .. Len(log)
    BY <1>1, BetweenIs
  <2>3. setup.arm = "armed" <=> \E k, m \in l .. Len(log) :
                                    m < k /\ InvertedAt(d, m) # {} /\ InvertedAt(d, k) = {}
    BY <1>3 DEF ArmSays
  <2>4. setup.arm = "armed" <=>
            \E k \in Between(l, Len(log)) \ matched : \E m \in matched : m < k
    BY <1>4, <2>2, <2>3
  <2> QED BY <1>3, <2>1, <2>4
<1>6. LegacySince(s, l)
  BY <1>2, <1>3, <1>4, <1>5 DEF LegacySince, LegBroken
<1> QED BY <1>2, <1>3, <1>6 DEF SidesOf

LEMMA PhasesSaid == IInv => PhasesAsDefined
<1> SUFFICES ASSUME IInv PROVE PhasesAsDefined
  OBVIOUS
<1>1. Len(log) \in Nat
  BY DEF IInv, TypeInv, LogType
<1>2. variant.phases \in {"legacy", "revised"}
  BY Po3Assumption DEF IInv, TypeInv
<1>3. CASE variant.phases = "revised"
  <2>1. LastSingle \in 0 .. Len(log)
    <3>1. {k \in 1 .. Len(log) : Cardinality(SidesOf(k)) = 1} \in SUBSET (1 .. Len(log))
      OBVIOUS
    <3> QED BY <1>1, <3>1, LastOf DEF LastSingle
  <2>2. CASE LastSingle = 0
    <3>1. setup = NoSetup
      BY <1>3, <2>1, <2>2 DEF IInv, RevisedInv
    <3> QED BY <1>3, <2>2, <3>1 DEF PhasesAsDefined
  <2>3. CASE LastSingle # 0
    <3>1. PICK s \in 1 .. Len(log) : s = LastSingle
      BY <1>1, <2>1, <2>3
    <3>2. \E d \in Dirs, lvl \in UNION {log[s].sweep[e] : e \in Dirs} : RevisedSince(s, d, lvl)
      BY <1>3, <3>1, RevisedSaid
    <3> QED BY <1>3, <2>3, <3>1, <3>2 DEF PhasesAsDefined
  <2> QED BY <2>2, <2>3
<1>4. CASE variant.phases = "legacy"
  <2>1. LastSweep \in 0 .. Len(log)
    <3>1. {k \in 1 .. Len(log) : SidesOf(k) # {}} \in SUBSET (1 .. Len(log))
      OBVIOUS
    <3> QED BY <1>1, <3>1, LastOf DEF LastSweep
  <2>2. CASE LastSweep = 0
    <3>1. setup = NoSetup
      BY <1>4, <2>1, <2>2 DEF IInv, LegacyInv
    <3> QED BY <1>4, <2>2, <3>1 DEF PhasesAsDefined
  <2>3. CASE LastSweep # 0
    <3>1. log[LastSweep].dir \in SidesOf(LastSweep) /\ LegacySince(LastSweep, LastTurn)
      BY <1>1, <1>4, <2>1, <2>3, LegacySaid
    <3> QED BY <1>4, <2>3, <3>1 DEF PhasesAsDefined
  <2> QED BY <2>2, <2>3
<1> QED BY <1>2, <1>3, <1>4

LEMMA SweepsSaid == IInv => SweepsFresh
BY DEF IInv, RefsInv, SweepsFresh, Between

-----------------------------------------------------------------------------

(* Every row, gap, zone, reference and setup has the shape that the        *)
(* feature tables give it; a setup has seen at most one extreme.           *)
THEOREM Types == Spec => []TypeInv
<1>1. IInv => TypeInv
  BY DEF IInv
<1> QED BY Inductive, <1>1, PTL

(* A reference of a higher timeframe that may still be swept was crossed   *)
(* by no bar since it was confirmed, and no group outgrows its share:      *)
(* detect_confirmed_htf_sweeps consumes on every cross and evicts first.   *)
THEOREM References_Fresh == Spec => []SweepsFresh
BY Inductive, SweepsSaid, PTL

(* The zone machine, which remembers one zone of each side and two flags,  *)
(* says in each row what the whole history says of the last inverted gap:  *)
(* live until it is filled or too old, retested when touched after leaving *)
(* it (detect_ifvg_confirmation, build_ifvg_zone_features).                *)
THEOREM Zones_Defined == Spec => []ZonesAsDefined
BY Inductive, ZonesSaid, PTL

(* The phase machines, which look at one bar and one setup, say in each    *)
(* row what the definition of the strategy says of all bars since the      *)
(* sweep, in the revised mode and in the legacy one (build_po3_ifvg_state, *)
(* build_po3_state, build_distribution_after_ifvg).                        *)
THEOREM Phases_Defined == Spec => []PhasesAsDefined
BY Inductive, PhasesSaid, PTL
=============================================================================
