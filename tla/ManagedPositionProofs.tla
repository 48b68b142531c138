----------------------- MODULE ManagedPositionProofs ------------------------
(***************************************************************************)
(* The properties of ManagedPosition, for all markets, splits, sizes and   *)
(* bars: no slot is lost, the stop only tightens, and a position that has  *)
(* filled a target is protected.                                           *)
(***************************************************************************)
EXTENDS ManagedPosition, FiniteSetTheorems, WellFoundedInduction, TLAPS

Modes  == {"fixed", "breakeven", "trailing"}
Levels == UNION {[S -> Int] : S \in SUBSET (1 .. 3)}

Positions ==
    [sl : Int, tp : Levels, left : Nat, hit : SUBSET (1 .. 3), best : Int,
     slMode : Modes, tpMode : Modes, tpDone : BOOLEAN, beDone : BOOLEAN]

DealType ==
    /\ deal.dir \in {-1, 1} /\ deal.stop \in Int /\ deal.dir * deal.stop < 0
    /\ deal.stop % 2 = 0 /\ deal.tp \in Levels
    /\ deal.lots \in Seq(Nat \ {0}) /\ deal.size \in Nat \ {0} /\ deal.ema \in BOOLEAN
    /\ deal.swing.low \in Int /\ deal.swing.high \in Int

BarType == bar.low \in Int /\ bar.high \in Int /\ bar.close \in Int

(* The parts of NothingDiscarded and RunnerProtected, for any position. *)
InOrder(p) ==
    /\ \A i, j \in DOMAIN p.tp : i < j => Ahead(Dir, p.tp[j], p.tp[i])
    /\ \A i \in DOMAIN p.tp : Ahead(Dir, p.tp[i], 0)

Whole(p) ==
    /\ DOMAIN p.tp = DOMAIN deal.tp \ p.hit
    /\ deal.ema \/ DOMAIN p.tp # {} \/ p.left = 0
    /\ InOrder(p)

Safe(p) ==
    BreakevenTrigger > 0 /\ p.hit # {} /\ p.left # 0 =>
        ~Ahead(Dir, Dir * BreakevenBuffer, p.sl)

Good(p) == p \in Positions /\ Whole(p) /\ Safe(p)

(* Inductive: in a position, what is said of it above. *)
Inv ==
    /\ BarType
    /\ InPosition => DealType /\ Good(pos) /\ pos.left # 0

-----------------------------------------------------------------------------
(* A fill and a guard leave a position good and its stop no looser. *)

Tighter(p, q) == ~Ahead(Dir, p.sl, q.sl)

LEMMA TighterTrans ==
    ASSUME DealType, NEW p, NEW q, NEW r, p.sl \in Int, q.sl \in Int, r.sl \in Int,
           Tighter(p, q), Tighter(q, r)
    PROVE  Tighter(p, r)
<1>1. Dir \in {-1, 1}
  BY DEF DealType, Dir
<1> QED BY <1>1 DEF Tighter, Ahead

(* Whatever level the stop is moved to, it stands there or was beyond. *)
LEMMA BreakevenTightens ==
    ASSUME DealType, NEW p \in Positions
    PROVE  /\ ToBreakeven(p) \in Positions
           /\ Tighter(p, ToBreakeven(p))
           /\ ~Ahead(Dir, Dir * BreakevenBuffer, ToBreakeven(p).sl)
           /\ ToBreakeven(p).tp = p.tp /\ ToBreakeven(p).hit = p.hit
           /\ ToBreakeven(p).left = p.left
<1>1. Dir \in {-1, 1} /\ BreakevenBuffer \in Nat /\ p.sl \in Int /\ Dir * BreakevenBuffer \in Int
  BY ManagedAssumption DEF DealType, Dir, Positions
<1>2. CASE Ahead(Dir, Dir * BreakevenBuffer, p.sl)
  <2>1. ToBreakeven(p) = [p EXCEPT !.sl = Dir * BreakevenBuffer, !.beDone = TRUE]
    BY <1>2 DEF ToBreakeven
  <2>2. ToBreakeven(p) \in Positions
    BY <2>1, <1>1 DEF Positions
  <2>3. /\ ToBreakeven(p).sl = Dir * BreakevenBuffer /\ ToBreakeven(p).tp = p.tp
        /\ ToBreakeven(p).hit = p.hit /\ ToBreakeven(p).left = p.left
    BY <2>1 DEF Positions
  <2> QED BY <2>2, <2>3, <1>1, <1>2 DEF Tighter, Ahead
<1>3. CASE ~Ahead(Dir, Dir * BreakevenBuffer, p.sl)
  BY <1>3, <1>1 DEF ToBreakeven, Tighter, Ahead
<1> QED BY <1>2, <1>3

LEMMA RoundedType ==
    ASSUME NEW a \in Nat, NEW b \in Nat \ {0}
    PROVE  Rounded(a, b) \in Nat
BY DEF Rounded

LEMMA ShareType ==
    ASSUME DealType, NEW active \in SUBSET (1 .. 3), NEW slot \in active
    PROVE  ShareOf(active, slot) \in Nat
<1> DEFINE at == Cardinality({i \in active : i <= slot})
<1>1. IsFiniteSet(active) /\ IsFiniteSet({i \in active : i <= slot})
  <2>1. IsFiniteSet(1 .. 3)
    <3>1. IsFiniteSet({}) /\ IsFiniteSet({} \cup {1}) /\ IsFiniteSet(({} \cup {1}) \cup {2})
              /\ IsFiniteSet((({} \cup {1}) \cup {2}) \cup {3})
      BY FS_EmptySet, FS_AddElement
    <3>2. 1 .. 3 = (({} \cup {1}) \cup {2}) \cup {3}
      OBVIOUS
    <3> QED BY <3>1, <3>2, Zenon
  <2>2. active \subseteq 1 .. 3 /\ {i \in active : i <= slot} \subseteq 1 .. 3
    OBVIOUS
  <2> QED BY <2>1, <2>2, FS_Subset
<1>2. at \in Nat /\ Cardinality(active) \in Nat
  BY <1>1, FS_CardinalityType
<1>3. at # 0 /\ Cardinality(active) # 0
  <2>1. slot \in {i \in active : i <= slot}
    OBVIOUS
  <2> QED BY <2>1, <1>1, FS_EmptySet
<1>4. CASE at <= Len(deal.lots)
  <2>1. deal.lots[at] \in Nat \ {0} /\ Len(deal.lots) \in Nat
    BY <1>4, <1>2, <1>3 DEF DealType
  <2>2. Total(deal.lots) \in Nat \ {0}
    <3>1. \A i \in 1 .. Len(deal.lots) : deal.lots[i] \in Nat \ {0}
      BY DEF DealType
    <3>2. Len(deal.lots) > 0
      BY <2>1, <1>2, <1>3, <1>4
    <3>3. /\ deal.lots[1] \in Nat \ {0}
          /\ (IF Len(deal.lots) > 1 THEN deal.lots[2] ELSE 0) \in Nat
          /\ (IF Len(deal.lots) > 2 THEN deal.lots[3] ELSE 0) \in Nat
      BY <2>1, <3>1, <3>2
    <3> QED BY <3>2, <3>3 DEF Total
  <2>3. deal.lots[at] * deal.size \in Nat
    BY <2>1 DEF DealType
  <2> QED BY <2>2, <2>3, <1>4, RoundedType DEF ShareOf
<1>5. CASE ~(at <= Len(deal.lots))
  BY <1>5, <1>2, <1>3, RoundedType DEF ShareOf, DealType
<1> QED BY <1>4, <1>5

-----------------------------------------------------------------------------
(* Exits *)

LEMMA CloseSizeType ==
    ASSUME DealType, NEW p \in Positions, Whole(p), NEW slot \in DOMAIN p.tp
    PROVE  /\ CloseSize(p, slot) \in 0 .. p.left
           /\ (\A i \in DOMAIN p.tp : i <= slot) => CloseSize(p, slot) = p.left
<1>1. DOMAIN p.tp \subseteq 1 .. 3 /\ p.hit \subseteq 1 .. 3 /\ p.left \in Nat
  BY DEF Positions, Levels
<1>2. Active(p) \in SUBSET (1 .. 3) /\ slot \in Active(p)
  BY <1>1 DEF Active
<1>3. ShareOf(Active(p), slot) \in Nat
  BY <1>2, ShareType
<1> QED BY <1>1, <1>3 DEF CloseSize

LEMMA FillGood ==
    ASSUME DealType, NEW st, NEW price, NEW slot \in 1 .. 3, Good(st.pos)
    PROVE  /\ Good(FillSlot(st, slot, price).pos)
           /\ Tighter(st.pos, FillSlot(st, slot, price).pos)
<1> DEFINE p    == st.pos
           size == CloseSize(p, slot)
           left == p.left - size
           tp   == Restrict(p.tp, DOMAIN p.tp \ {slot})
           rest == [p EXCEPT !.left = left, !.hit = p.hit \cup {slot}, !.tp = tp]
           next == IF BreakevenTrigger > 0 /\ left > 0 THEN ToBreakeven(rest) ELSE rest
<1>1. p \in Positions /\ Whole(p) /\ Safe(p) /\ p.sl \in Int /\ Dir \in {-1, 1}
  BY DEF Good, Positions, DealType, Dir
<1>2. CASE p.left = 0 \/ ~TargetReached(p, slot, price)
  <2>1. FillSlot(st, slot, price) = st
    BY <1>2 DEF FillSlot
  <2> QED BY <2>1, <1>1 DEF Tighter, Ahead
<1>3. CASE ~(p.left = 0 \/ ~TargetReached(p, slot, price))
  <2>1. slot \in DOMAIN p.tp
    BY <1>3 DEF TargetReached
  <2>2. FillSlot(st, slot, price).pos = next
    BY <1>3 DEF FillSlot
  <2>3. left \in Nat /\ ((\A i \in DOMAIN p.tp : i <= slot) => left = 0)
    <3>1. p.left \in Nat
      BY <1>1 DEF Positions
    <3>2. size \in 0 .. p.left /\ ((\A i \in DOMAIN p.tp : i <= slot) => size = p.left)
      BY <1>1, <2>1, CloseSizeType
    <3> QED BY <3>1, <3>2
  <2>4. /\ tp \in Levels /\ DOMAIN tp = DOMAIN p.tp \ {slot}
        /\ \A i \in DOMAIN tp : tp[i] = p.tp[i]
    <3>1. p.tp \in Levels
      BY <1>1 DEF Positions
    <3>2. PICK S \in SUBSET (1 .. 3) : p.tp \in [S -> Int]
      BY <3>1 DEF Levels
    <3>3. tp = [i \in S \ {slot} |-> p.tp[i]]
      BY <3>2 DEF Restrict
    <3>4. tp \in [S \ {slot} -> Int]
      BY <3>2, <3>3
    <3> QED BY <3>2, <3>3, <3>4 DEF Levels
  <2> HIDE DEF tp, size, left
  <2>5. /\ rest \in Positions /\ rest.left = left /\ rest.hit = p.hit \cup {slot}
        /\ rest.tp = tp /\ rest.sl = p.sl
    BY <1>1, <2>3, <2>4 DEF Positions
  <2> HIDE DEF rest
  <2>6. Whole(rest)
    <3>1. DOMAIN rest.tp = DOMAIN deal.tp \ rest.hit
      BY <2>4, <2>5, <1>1 DEF Whole
    <3>2. deal.ema \/ DOMAIN rest.tp # {} \/ rest.left = 0
      <4> SUFFICES ASSUME DOMAIN rest.tp = {} PROVE rest.left = 0
        OBVIOUS
      <4>1. \A i \in DOMAIN p.tp : i <= slot
        BY <2>4, <2>5
      <4> QED BY <4>1, <2>3, <2>5
    <3>3. InOrder(rest)
      BY <2>4, <2>5, <1>1 DEF Whole, InOrder
    <3> QED BY <3>1, <3>2, <3>3 DEF Whole
  <2>7. CASE BreakevenTrigger > 0 /\ left > 0
    <3>1. next = ToBreakeven(rest)
      BY <2>7
    <3>2. /\ next \in Positions /\ Tighter(rest, next)
          /\ ~Ahead(Dir, Dir * BreakevenBuffer, next.sl)
          /\ next.tp = rest.tp /\ next.hit = rest.hit /\ next.left = rest.left
      BY <3>1, <2>5, BreakevenTightens
    <3> HIDE DEF next
    <3>3. Whole(next) /\ Safe(next)
      BY <3>2, <2>6 DEF Whole, InOrder, Safe
    <3> QED BY <3>2, <3>3, <2>2, <2>5 DEF Good, Tighter
  <2>8. CASE ~(BreakevenTrigger > 0 /\ left > 0)
    <3>1. next = rest /\ (BreakevenTrigger > 0 => left = 0)
      BY <2>8, <2>3
    <3>2. Safe(next)
      BY <3>1, <2>5 DEF Safe
    <3>3. Tighter(p, next)
      BY <3>1, <2>5, <1>1 DEF Tighter, Ahead
    <3> QED BY <3>1, <3>2, <3>3, <2>2, <2>5, <2>6 DEF Good
  <2> QED BY <2>7, <2>8
<1> QED BY <1>2, <1>3

-----------------------------------------------------------------------------
(* Guards *)

(* A position whose stop alone has moved, and not away, is as good. *)
LEMMA TighterGood ==
    ASSUME DealType, NEW p, Good(p), NEW q \in Positions, Tighter(p, q),
           q.tp = p.tp, q.hit = p.hit, q.left = p.left
    PROVE  Good(q)
<1>1. Whole(q)
  BY DEF Good, Whole, InOrder
<1>2. Safe(q)
  <2>1. Dir \in {-1, 1}
    BY DEF DealType, Dir
  <2>2. p.sl \in Int /\ q.sl \in Int /\ Safe(p)
    BY DEF Good, Positions
  <2>3. Dir * BreakevenBuffer \in Int
    BY <2>1, ManagedAssumption
  <2> QED BY <2>1, <2>2, <2>3 DEF Safe, Tighter, Ahead
<1> QED BY <1>1, <1>2 DEF Good

(* A position whose targets alone have moved is as good, if they are       *)
(* ordered as before.                                                      *)
LEMMA MovedGood ==
    ASSUME DealType, NEW p, Good(p), NEW q \in Positions,
           q.sl = p.sl, q.hit = p.hit, q.left = p.left,
           DOMAIN q.tp = DOMAIN p.tp, InOrder(q)
    PROVE  Good(q) /\ Tighter(p, q)
<1>1. Whole(q) /\ Safe(q)
  BY DEF Good, Whole, Safe
<1>2. p.sl \in Int /\ Dir \in {-1, 1}
  BY DEF Good, Positions, DealType, Dir
<1> QED BY <1>1, <1>2 DEF Good, Tighter, Ahead

LEMMA EarnedGood ==
    ASSUME DealType, NEW p, Good(p)
    PROVE  Good(EarnedBreakeven(p)) /\ Tighter(p, EarnedBreakeven(p))
<1>1. p \in Positions /\ p.sl \in Int /\ Dir \in {-1, 1}
  BY DEF Good, Positions, DealType, Dir
<1>2. Tighter(p, p)
  BY <1>1 DEF Tighter, Ahead
<1>3. Good(ToBreakeven(p)) /\ Tighter(p, ToBreakeven(p))
  BY <1>1, BreakevenTightens, TighterGood
<1> QED BY <1>2, <1>3 DEF EarnedBreakeven

LEMMA TrailedStopGood ==
    ASSUME DealType, BarType, NEW p, Good(p), NEW swing \in Swings
    PROVE  Good(TrailedStop(p, swing)) /\ Tighter(p, TrailedStop(p, swing))
<1> DEFINE sl == Worst(Dir, swing) - Dir * SlBuffer
           q  == [p EXCEPT !.sl = sl]
<1>1. p \in Positions /\ p.sl \in Int /\ Dir \in {-1, 1} /\ sl \in Int
  <2>1. p \in Positions /\ p.sl \in Int /\ Dir \in {-1, 1}
    BY DEF Good, Positions, DealType, Dir
  <2>2. Worst(Dir, swing) \in Int /\ SlBuffer \in Nat
    BY ManagedAssumption DEF Worst
  <2> QED BY <2>1, <2>2
<1> HIDE DEF sl
<1>2. Tighter(p, p)
  BY <1>1 DEF Tighter, Ahead
<1>3. CASE TrailedStop(p, swing) # p
  <2>1. TrailedStop(p, swing) = q /\ Ahead(Dir, sl, p.sl)
    BY <1>3 DEF TrailedStop, sl
  <2>2. /\ q \in Positions /\ q.sl = sl
        /\ q.tp = p.tp /\ q.hit = p.hit /\ q.left = p.left
    BY <1>1 DEF Positions
  <2>3. Tighter(p, q)
    BY <1>1, <2>1, <2>2 DEF Tighter, Ahead
  <2> QED BY <2>1, <2>2, <2>3, TighterGood
<1> QED BY <1>2, <1>3

LEMMA NearestIsFirst ==
    ASSUME NEW p \in Positions, DOMAIN p.tp # {}
    PROVE  /\ Nearest(p) \in DOMAIN p.tp
           /\ \A i \in DOMAIN p.tp : Nearest(p) <= i
<1>1. DOMAIN p.tp \subseteq 1 .. 3
  BY DEF Positions, Levels
<1>2. \E i \in DOMAIN p.tp : \A j \in DOMAIN p.tp : i <= j
  <2>1. 1 \in DOMAIN p.tp => \A j \in DOMAIN p.tp : 1 <= j
    BY <1>1
  <2>2. 1 \notin DOMAIN p.tp => \A j \in DOMAIN p.tp : 2 <= j
    BY <1>1
  <2>3. 1 \notin DOMAIN p.tp /\ 2 \notin DOMAIN p.tp => \A j \in DOMAIN p.tp : j = 3
    BY <1>1
  <2> QED BY <2>1, <2>2, <2>3
<1> QED BY <1>2 DEF Nearest, Min

(* The nearest target may go anywhere between the entry and the next one. *)
LEMMA NearestMoves ==
    ASSUME DealType, NEW p, Good(p), DOMAIN p.tp # {}, NEW tp \in Int,
           Ahead(Dir, tp, 0),
           \A i \in DOMAIN p.tp \ {Nearest(p)} : Ahead(Dir, p.tp[i], tp)
    PROVE  LET q == [p EXCEPT !.tp[Nearest(p)] = tp]
           IN  q \in Positions /\ Good(q) /\ Tighter(p, q)
<1> DEFINE near == Nearest(p)
           q    == [p EXCEPT !.tp[near] = tp]
<1>1. p \in Positions /\ InOrder(p)
  BY DEF Good, Whole
<1>2. near \in DOMAIN p.tp /\ \A i \in DOMAIN p.tp : near <= i
  BY <1>1, NearestIsFirst
<1>3. PICK S \in SUBSET (1 .. 3) : p.tp \in [S -> Int]
  BY <1>1 DEF Positions, Levels
<1> HIDE DEF near
<1>4. [p.tp EXCEPT ![near] = tp] \in Levels
  BY <1>3 DEF Levels
<1>5. q = [p EXCEPT !.tp = [p.tp EXCEPT ![near] = tp]]
  OBVIOUS
<1>6. /\ q \in Positions /\ q.tp = [p.tp EXCEPT ![near] = tp]
      /\ q.sl = p.sl /\ q.hit = p.hit /\ q.left = p.left
  BY <1>1, <1>4, <1>5 DEF Positions
<1> HIDE DEF q
<1>7. DOMAIN q.tp = DOMAIN p.tp
  BY <1>6
<1>8. InOrder(q)
  <2>1. \A i \in DOMAIN q.tp : q.tp[i] = IF i = near THEN tp ELSE p.tp[i]
    BY <1>6, <1>3
  <2>2. ASSUME NEW i \in DOMAIN q.tp, NEW j \in DOMAIN q.tp, i < j
        PROVE  Ahead(Dir, q.tp[j], q.tp[i])
    <3>1. near <= i /\ i \in 1 .. 3 /\ j \in 1 .. 3 /\ near \in 1 .. 3
      BY <1>2, <1>3, <1>7
    <3>2. j # near
      BY <3>1, <2>2
    <3>3. CASE i = near
      BY <3>2, <3>3, <2>1, <1>7 DEF near
    <3>4. CASE i # near
      BY <3>2, <3>4, <2>1, <2>2, <1>1, <1>7 DEF InOrder
    <3> QED BY <3>3, <3>4
  <2>3. \A i \in DOMAIN q.tp : Ahead(Dir, q.tp[i], 0)
    BY <2>1, <1>7, <1>1 DEF InOrder
  <2> QED BY <2>2, <2>3 DEF InOrder
<1>9. Good(q) /\ Tighter(p, q)
  BY <1>6, <1>7, <1>8, MovedGood
<1> QED BY <1>6, <1>9 DEF q, near

(* Targets in order are all kept. *)
LEMMA ReorderedSame ==
    ASSUME NEW p \in Positions, InOrder(p)
    PROVE  Reordered(p) = p
<1>1. PICK S \in SUBSET (1 .. 3) : p.tp \in [S -> Int]
  BY DEF Positions, Levels
<1>2. \A kept \in SUBSET S, slot \in S :
        (\A i \in kept : i < slot) => Keep(p, kept, slot) = kept \cup {slot}
  BY <1>1 DEF Keep, InOrder
<1>3. \A kept, slot : slot \notin S => Keep(p, kept, slot) = kept
  BY <1>1 DEF Keep
<1> DEFINE one == Keep(p, {}, 1)
           two == Keep(p, one, 2)
<1>4. one = S \cap {1}
  BY <1>1, <1>2, <1>3
<1>5. two = S \cap {1, 2}
  <2>1. one \in SUBSET S /\ \A i \in one : i < 2
    BY <1>4
  <2> HIDE DEF one
  <2> QED BY <1>1, <1>2, <1>3, <1>4, <2>1
<1>6. Keep(p, two, 3) = S
  <2>1. two \in SUBSET S /\ \A i \in two : i < 3
    BY <1>5
  <2> HIDE DEF two
  <2>2. S = two \cup (S \cap {3})
    <3>1. \A i \in S : i = 1 \/ i = 2 \/ i = 3
      BY <1>1
    <3> QED BY <3>1, <1>5
  <2>3. CASE 3 \in S
    BY <1>2, <2>1, <2>2, <2>3
  <2>4. CASE 3 \notin S
    BY <1>3, <2>2, <2>4
  <2> QED BY <2>3, <2>4
<1>7. Restrict(p.tp, S) = p.tp
  BY <1>1 DEF Restrict
<1>8. Reordered(p) = [p EXCEPT !.tp = p.tp]
  BY <1>6, <1>7 DEF Reordered
<1> QED BY <1>8 DEF Positions

LEMMA PulledGood ==
    ASSUME DealType, BarType, NEW p, Good(p)
    PROVE  Good(PulledTarget(p)) /\ Tighter(p, PulledTarget(p))
<1> DEFINE tp   == Dir * (Risk \div 2)
           done == [p EXCEPT !.tpDone = TRUE]
<1>1. p \in Positions /\ InOrder(p) /\ p.sl \in Int /\ Dir \in {-1, 1}
  BY DEF Good, Whole, Positions, DealType, Dir
<1>2. tp \in Int /\ Ahead(Dir, tp, 0)
  <2>1. Risk \in Int /\ Risk > 0 /\ Risk % 2 = 0
    BY DEF DealType, Risk, Dir
  <2>2. Risk \div 2 \in Int /\ Risk \div 2 > 0
    BY <2>1
  <2> QED BY <1>1, <2>2 DEF Ahead
<1> HIDE DEF tp
<1>3. /\ done \in Positions /\ done.sl = p.sl /\ done.tp = p.tp
      /\ done.hit = p.hit /\ done.left = p.left
  BY <1>1 DEF Positions
<1>4. Good(done) /\ Tighter(p, done)
  <2>1. InOrder(done)
    BY <1>1, <1>3 DEF InOrder
  <2> QED BY <2>1, <1>3, MovedGood
<1> HIDE DEF done
<1>5. Tighter(p, p)
  BY <1>1 DEF Tighter, Ahead
<1>6. CASE PulledTarget(p) \notin {p, done}
  <2>1. /\ DOMAIN p.tp # {} /\ Ahead(Dir, p.tp[Nearest(p)], tp)
        /\ PulledTarget(p) = [p EXCEPT !.tpDone = TRUE, !.tp[Nearest(p)] = tp]
    BY <1>6 DEF PulledTarget, done, tp
  <2>2. PulledTarget(p) = [done EXCEPT !.tp[Nearest(done)] = tp]
    BY <2>1, <1>3 DEF done, Nearest
  <2>3. Nearest(p) \in DOMAIN p.tp /\ \A i \in DOMAIN p.tp : Nearest(p) <= i
    BY <2>1, <1>1, NearestIsFirst
  <2>4. \A i \in DOMAIN done.tp \ {Nearest(done)} : Ahead(Dir, done.tp[i], tp)
    <3>1. Nearest(done) = Nearest(p)
      BY <1>3 DEF Nearest
    <3> SUFFICES ASSUME NEW i \in DOMAIN p.tp, i # Nearest(p)
                 PROVE  Ahead(Dir, p.tp[i], tp)
      BY <3>1, <1>3
    <3>2. \A j \in DOMAIN p.tp : j \in 1 .. 3 /\ p.tp[j] \in Int
      BY <1>1 DEF Positions, Levels
    <3>3. Nearest(p) < i
      BY <2>3, <3>2
    <3>4. Ahead(Dir, p.tp[i], p.tp[Nearest(p)])
      BY <3>3, <2>3, <1>1 DEF InOrder
    <3> QED BY <3>4, <3>2, <2>1, <2>3, <1>1, <1>2 DEF Ahead
  <2>5. Good(PulledTarget(p)) /\ Tighter(done, PulledTarget(p))
    <3>1. Good(done) /\ DOMAIN done.tp # {}
      BY <1>3, <1>4, <2>1
    <3> QED BY <3>1, <2>2, <2>4, <1>2, NearestMoves
  <2>6. PulledTarget(p).sl \in Int
    BY <2>5 DEF Good, Positions
  <2> QED BY <2>5, <2>6, <1>1, <1>3, <1>4, TighterTrans
<1> QED BY <1>4, <1>5, <1>6

LEMMA TrailedTargetGood ==
    ASSUME DealType, BarType, NEW p, Good(p), NEW swing \in Swings
    PROVE  Good(TrailedTarget(p, swing)) /\ Tighter(p, TrailedTarget(p, swing))
<1> DEFINE tp == Best(Dir, swing)
           q  == [p EXCEPT !.tp[Nearest(p)] = tp]
<1>1. p \in Positions /\ InOrder(p) /\ p.sl \in Int /\ Dir \in {-1, 1} /\ tp \in Int
  BY ManagedAssumption DEF Good, Whole, Positions, DealType, Dir, Best
<1>2. Tighter(p, p) /\ Reordered(p) = p
  BY <1>1, ReorderedSame DEF Tighter, Ahead
<1> HIDE DEF tp
<1>3. CASE TrailedTarget(p, swing) # p
  <2>1. /\ DOMAIN p.tp # {} /\ Ahead(Dir, tp, p.tp[Nearest(p)]) /\ ~Overtakes(p, tp)
        /\ TrailedTarget(p, swing) = Reordered(q)
    BY <1>3, <1>2 DEF TrailedTarget, tp
  <2>2. \A i \in DOMAIN p.tp \ {Nearest(p)} : Ahead(Dir, p.tp[i], tp)
    BY <2>1 DEF Overtakes
  <2>3. Ahead(Dir, tp, 0)
    <3>1. Nearest(p) \in DOMAIN p.tp
      BY <2>1, <1>1, NearestIsFirst
    <3>2. Ahead(Dir, p.tp[Nearest(p)], 0) /\ p.tp[Nearest(p)] \in Int
      BY <3>1, <1>1 DEF InOrder, Positions, Levels
    <3> QED BY <3>2, <2>1, <1>1 DEF Ahead
  <2>4. q \in Positions /\ Good(q) /\ Tighter(p, q)
    BY <2>1, <2>2, <2>3, <1>1, NearestMoves
  <2> HIDE DEF q
  <2>5. Reordered(q) = q
    BY <2>4, ReorderedSame DEF Good, Whole
  <2> QED BY <2>1, <2>4, <2>5
<1> QED BY <1>2, <1>3

(* No guard closes a part of a position or marks a slot as hit. *)
Kept(p, q) == q.left = p.left /\ q.hit = p.hit

LEMMA GuardsKeep ==
    ASSUME NEW p \in Positions, NEW swing
    PROVE  /\ Kept(p, EarnedBreakeven(p)) /\ Kept(p, TrailedStop(p, swing))
           /\ Kept(p, PulledTarget(p)) /\ Kept(p, TrailedTarget(p, swing))
<1>1. Kept(p, EarnedBreakeven(p))
  BY DEF Kept, EarnedBreakeven, ToBreakeven, Positions
<1>2. Kept(p, TrailedStop(p, swing))
  BY DEF Kept, TrailedStop, Positions
<1>3. Kept(p, PulledTarget(p))
  BY DEF Kept, PulledTarget, Positions
<1>4. Kept(p, TrailedTarget(p, swing))
  <2>1. Kept(p, Reordered(p))
    BY DEF Kept, Reordered, Positions
  <2>2. Kept(p, Reordered([p EXCEPT !.tp[Nearest(p)] = Best(Dir, swing)]))
    BY DEF Kept, Reordered, Positions
  <2>3. Kept(p, p)
    BY DEF Kept
  <2> QED BY <2>1, <2>2, <2>3 DEF TrailedTarget
<1> QED BY <1>1, <1>2, <1>3, <1>4

LEMMA GuardedGood ==
    ASSUME DealType, BarType, Good(pos),
           NEW swing \in Swings, NEW slMode \in Modes
    PROVE  /\ Good(Guarded(swing, slMode)) /\ Kept(pos, Guarded(swing, slMode))
           /\ Tighter(pos, Guarded(swing, slMode))
<1> DEFINE mode  == IF deal.slExplicit THEN pos.slMode ELSE Advanced(pos.slMode, slMode)
           seen  == [pos EXCEPT !.best = BestSoFar, !.slMode = mode]
           break == IF seen.slMode # "fixed" THEN EarnedBreakeven(seen) ELSE seen
           tight == TrailedStop(break, swing)
           aim   == IF deal.tpExplicit THEN tight.tpMode
                    ELSE Advanced(tight.tpMode, DefaultTpMode(tight, swing))
           aimed == [tight EXCEPT !.tpMode = aim]
           pull  == IF aimed.tpMode # "fixed" THEN PulledTarget(aimed) ELSE aimed
<1>1. pos \in Positions /\ InOrder(pos) /\ pos.sl \in Int /\ Dir \in {-1, 1}
  BY DEF Good, Whole, Positions, DealType, Dir
<1>2. Good(seen) /\ Tighter(pos, seen) /\ Kept(pos, seen)
  <2>1. BestSoFar \in Int
    BY <1>1 DEF BestSoFar, Best, BarType, Positions
  <2>2. mode \in Modes
    BY <1>1 DEF Advanced, Positions
  <2> HIDE DEF mode
  <2>3. /\ seen \in Positions /\ seen.sl = pos.sl /\ seen.tp = pos.tp
        /\ seen.hit = pos.hit /\ seen.left = pos.left
    BY <1>1, <2>1, <2>2 DEF Positions
  <2> HIDE DEF seen
  <2>4. InOrder(seen)
    BY <1>1, <2>3 DEF InOrder
  <2> QED BY <2>3, <2>4, MovedGood DEF Kept
<1> HIDE DEF seen
<1>3. Good(break) /\ Tighter(pos, break) /\ Kept(pos, break)
  <2>1. Good(EarnedBreakeven(seen)) /\ Tighter(seen, EarnedBreakeven(seen))
    BY <1>2, EarnedGood
  <2>2. seen.sl \in Int /\ EarnedBreakeven(seen).sl \in Int
    BY <1>2, <2>1 DEF Good, Positions
  <2>3. Kept(seen, EarnedBreakeven(seen))
    BY <1>2, GuardsKeep DEF Good
  <2> QED BY <1>1, <1>2, <2>1, <2>2, <2>3, TighterTrans DEF Kept
<1> HIDE DEF break
<1>4. Good(tight) /\ Tighter(pos, tight) /\ Kept(pos, tight)
  <2>1. Good(tight) /\ Tighter(break, tight)
    BY <1>3, TrailedStopGood
  <2>2. break.sl \in Int /\ tight.sl \in Int
    BY <1>3, <2>1 DEF Good, Positions
  <2>3. Kept(break, tight)
    BY <1>3, GuardsKeep DEF Good
  <2> QED BY <1>1, <1>3, <2>1, <2>2, <2>3, TighterTrans DEF Kept
<1> HIDE DEF tight
<1>5. Good(aimed) /\ Tighter(pos, aimed) /\ Kept(pos, aimed)
  <2>1. tight \in Positions /\ InOrder(tight)
    BY <1>4 DEF Good, Whole
  <2>2. aim \in Modes
    BY <2>1 DEF Advanced, DefaultTpMode, Positions, Modes
  <2> HIDE DEF aim
  <2>3. /\ aimed \in Positions /\ aimed.sl = tight.sl /\ aimed.tp = tight.tp
        /\ aimed.hit = tight.hit /\ aimed.left = tight.left
    BY <2>1, <2>2 DEF Positions
  <2> HIDE DEF aimed
  <2>4. InOrder(aimed)
    BY <2>1, <2>3 DEF InOrder
  <2> QED BY <2>3, <2>4, <1>4, MovedGood DEF Tighter, Kept
<1> HIDE DEF aimed
<1>6. Good(pull) /\ Tighter(pos, pull) /\ Kept(pos, pull)
  <2>1. Good(PulledTarget(aimed)) /\ Tighter(aimed, PulledTarget(aimed))
    BY <1>5, PulledGood
  <2>2. aimed.sl \in Int /\ PulledTarget(aimed).sl \in Int
    BY <1>5, <2>1 DEF Good, Positions
  <2>3. Kept(aimed, PulledTarget(aimed))
    BY <1>5, GuardsKeep DEF Good
  <2> QED BY <1>1, <1>5, <2>1, <2>2, <2>3, TighterTrans DEF Kept
<1> HIDE DEF pull
<1>7. Guarded(swing, slMode) = TrailedTarget(pull, swing)
  BY DEF Guarded, seen, break, tight, aimed, pull
<1>8. /\ Good(Guarded(swing, slMode)) /\ Kept(pos, Guarded(swing, slMode))
      /\ Tighter(pos, Guarded(swing, slMode))
  <2>1. /\ Good(TrailedTarget(pull, swing))
        /\ Tighter(pull, TrailedTarget(pull, swing))
    BY <1>6, TrailedTargetGood
  <2>2. pull.sl \in Int /\ TrailedTarget(pull, swing).sl \in Int
    BY <1>6, <2>1 DEF Good, Positions
  <2>3. Kept(pull, TrailedTarget(pull, swing))
    BY <1>6, GuardsKeep DEF Good
  <2> QED BY <1>1, <1>6, <1>7, <2>1, <2>2, <2>3, TighterTrans DEF Kept
<1> QED BY <1>8

-----------------------------------------------------------------------------
(* Entry *)

(* decode_tp_selections leaves the last slot and entries in order. *)
LEMMA DecodedOrdered ==
    ASSUME NEW n \in Nat \ {0}, NEW s \in [1 .. 3 -> 0 .. n]
    PROVE  /\ Decoded(s) \in [1 .. 3 -> 0 .. n] /\ Decoded(s)[3] # 0
           /\ \A i, j \in 1 .. 3 :
                  i < j /\ Decoded(s)[i] # 0 /\ Decoded(s)[j] # 0 =>
                      Decoded(s)[i] < Decoded(s)[j]
<1> DEFINE from == IF s[1] > s[2] THEN 1 ELSE 2
           kept == [s EXCEPT ![3] = s[from], ![from] = 0]
           p    == Promoted(s)
           a    == Disable(p, 1, 2)
           b    == Disable(a, 2, 3)
           c    == Disable(b, 1, 3)
<1>1. p \in [1 .. 3 -> 0 .. n] /\ p[3] # 0
  <2>1. CASE s = <<0, 0, 0>>
    <3>1. p = <<0, 0, 1>>
      BY <2>1 DEF Promoted
    <3> QED BY <3>1
  <2>2. CASE s # <<0, 0, 0>> /\ s[3] # 0
    BY <2>2 DEF Promoted
  <2>3. CASE s # <<0, 0, 0>> /\ s[3] = 0
    <3>1. s[1] # 0 \/ s[2] # 0
      <4> SUFFICES ASSUME s[1] = 0, s[2] = 0 PROVE FALSE
        OBVIOUS
      <4>1. s = [i \in 1 .. 3 |-> 0]
        BY <2>3
      <4>2. <<0, 0, 0>> = [i \in 1 .. 3 |-> 0]
        OBVIOUS
      <4> QED BY <4>1, <4>2, <2>3
    <3>2. from \in {1, 2} /\ s[from] \in 1 .. n
      BY <3>1
    <3> HIDE DEF from
    <3>3. kept \in [1 .. 3 -> 0 .. n] /\ kept[3] # 0 /\ 3 - from \in {1, 2}
      BY <3>2
    <3> HIDE DEF kept
    <3>4. p = Disable(kept, 3 - from, 3)
      BY <2>3 DEF Promoted, kept, from
    <3> QED BY <3>3, <3>4 DEF Disable
  <2> QED BY <2>1, <2>2, <2>3
<1> HIDE DEF p
<1>2. /\ a \in [1 .. 3 -> 0 .. n] /\ a[3] # 0
      /\ a[1] # 0 /\ a[2] # 0 => a[1] < a[2]
  BY <1>1 DEF Disable
<1> HIDE DEF a
<1>3. /\ b \in [1 .. 3 -> 0 .. n] /\ b[3] # 0
      /\ b[1] # 0 /\ b[2] # 0 => b[1] < b[2]
      /\ b[2] # 0 => b[2] < b[3]
  BY <1>2 DEF Disable
<1> HIDE DEF b
<1>4. /\ c \in [1 .. 3 -> 0 .. n] /\ c[3] # 0
      /\ c[1] # 0 /\ c[2] # 0 => c[1] < c[2]
      /\ c[2] # 0 => c[2] < c[3]
      /\ c[1] # 0 => c[1] < c[3]
  BY <1>3 DEF Disable
<1>5. Decoded(s) = c
  BY DEF Decoded, p, a, b
<1> HIDE DEF c
<1> QED BY <1>4, <1>5

LEMMA EntryTargets ==
    ASSUME NEW m \in Markets, NEW raw \in [1 .. 3 -> 0 .. Len(m.menu)], NEW w \in Splits
    PROVE  LET s  == Decoded(raw)
               tp == Targets(m.menu, s)
           IN  /\ tp \in Levels /\ DOMAIN tp # {}
               /\ \A i, j \in DOMAIN tp : i < j => Ahead(m.dir, tp[j], tp[i])
               /\ \A i \in DOMAIN tp : Ahead(m.dir, tp[i], 0)
               /\ Fractions(w, s) \in Seq(Nat \ {0})
<1> DEFINE s  == Decoded(raw)
           S  == {i \in 1 .. 3 : s[i] # 0}
           tp == Targets(m.menu, s)
           n  == Len(m.menu)
<1>1. /\ m.dir \in {-1, 1} /\ n \in Nat \ {0} /\ m.menu \in Seq(Int)
      /\ \A i \in 1 .. n : m.menu[i] \in Int /\ m.dir * m.menu[i] > 0
      /\ \A i, j \in 1 .. n : i < j => m.dir * m.menu[i] < m.dir * m.menu[j]
  <2>1. /\ m.dir \in {-1, 1} /\ m.menu \in Seq(Int) /\ m.menu # <<>>
        /\ \A i \in 1 .. n : m.dir * m.menu[i] > 0
        /\ \A i, j \in 1 .. n : i < j => m.dir * m.menu[i] < m.dir * m.menu[j]
    BY ManagedAssumption
  <2>2. n \in Nat \ {0} /\ \A i \in 1 .. n : m.menu[i] \in Int
    BY <2>1
  <2> QED BY <2>1, <2>2
<1>2. /\ s \in [1 .. 3 -> 0 .. n] /\ s[3] # 0
      /\ \A i, j \in 1 .. 3 : i < j /\ s[i] # 0 /\ s[j] # 0 => s[i] < s[j]
  BY <1>1, DecodedOrdered
<1> HIDE DEF s
<1>3. \A i \in S : s[i] \in 1 .. n
  BY <1>2
<1>4. tp = [i \in S |-> m.menu[s[i]]] /\ DOMAIN tp = S
  BY DEF Targets
<1>5. tp \in Levels
  <2>1. tp \in [S -> Int] /\ S \in SUBSET (1 .. 3)
    BY <1>1, <1>3, <1>4
  <2> QED BY <2>1 DEF Levels
<1>6. DOMAIN tp # {}
  BY <1>2, <1>4
<1>7. ASSUME NEW i \in DOMAIN tp, NEW j \in DOMAIN tp, i < j
      PROVE  Ahead(m.dir, tp[j], tp[i])
  <2>1. i \in S /\ j \in S /\ tp[i] = m.menu[s[i]] /\ tp[j] = m.menu[s[j]]
    BY <1>4
  <2>2. s[i] < s[j] /\ s[i] \in 1 .. n /\ s[j] \in 1 .. n
    BY <2>1, <1>2, <1>3, <1>7
  <2>3. /\ m.dir * tp[i] < m.dir * tp[j] /\ m.dir \in {-1, 1}
        /\ tp[i] \in Int /\ tp[j] \in Int
    BY <2>1, <2>2, <1>1
  <2> QED BY <2>3 DEF Ahead
<1>8. ASSUME NEW i \in DOMAIN tp PROVE Ahead(m.dir, tp[i], 0)
  BY <1>1, <1>3, <1>4 DEF Ahead
<1>9. Fractions(w, s) \in Seq(Nat \ {0})
  <2>1. \A i \in 1 .. 3 : Part(w, s, i) \in Seq(Nat \ {0})
    <3>1. \A i \in 1 .. 3 : w[i] \in Nat \ {0}
      BY ManagedAssumption
    <3>2. <<>> \in Seq(Nat \ {0}) /\ \A i \in 1 .. 3 : <<w[i]>> \in Seq(Nat \ {0})
      BY <3>1
    <3> QED BY <3>2 DEF Part
  <2> QED BY <2>1 DEF Fractions
<1> QED BY <1>5, <1>6, <1>7, <1>8, <1>9 DEF s

-----------------------------------------------------------------------------
(* The invariant *)

LEMMA EntryGood ==
    ASSUME BarType, NEW m \in Markets, NEW size \in Sizes, NEW lots \in Seq(Nat \ {0}),
           NEW tp \in Levels, NEW ema \in BOOLEAN, Open(m, tp, lots, size, ema),
           ema \/ DOMAIN tp # {},
           \A i, j \in DOMAIN tp : i < j => Ahead(m.dir, tp[j], tp[i]),
           \A i \in DOMAIN tp : Ahead(m.dir, tp[i], 0)
    PROVE  Inv'
<1>1. PICK sl \in SlModes, tpm \in TpModes, e \in Evidence :
        /\ deal' = [dir |-> m.dir, stop |-> m.stop, tp |-> tp, lots |-> lots, size |-> size,
                    ema |-> ema, swing |-> m.swing, slExplicit |-> sl.explicit,
                    tpExplicit |-> tpm.explicit, evidence |-> e]
        /\ pos' = [sl |-> m.stop, tp |-> tp, left |-> size, hit |-> {}, best |-> 0,
                   slMode |-> sl.mode, tpMode |-> tpm.mode, tpDone |-> FALSE,
                   beDone |-> FALSE]
  BY DEF Open
<1>2. /\ m.dir \in {-1, 1} /\ m.stop \in Int /\ m.dir * m.stop < 0 /\ m.stop % 2 = 0
      /\ m.swing.low \in Int /\ m.swing.high \in Int /\ size \in Nat \ {0}
  BY ManagedAssumption
<1>3. sl.mode \in Modes /\ tpm.mode \in Modes
  BY ManagedAssumption DEF Modes
<1>4. /\ deal'.dir = m.dir /\ deal'.stop = m.stop /\ deal'.tp = tp /\ deal'.lots = lots
      /\ deal'.size = size /\ deal'.ema = ema /\ deal'.swing = m.swing
  BY <1>1
<1>5. DealType'
  BY <1>2, <1>4 DEF DealType
<1>6. /\ pos'.sl = m.stop /\ pos'.tp = tp /\ pos'.left = size /\ pos'.hit = {}
      /\ pos' \in Positions
  BY <1>1, <1>2, <1>3 DEF Positions
<1>7. Whole(pos)'
  BY <1>4, <1>6 DEF Whole, InOrder, Dir
<1>8. Good(pos)' /\ pos'.left # 0
  BY <1>2, <1>6, <1>7 DEF Good, Safe
<1>9. BarType'
  BY DEF BarType, Open
<1> QED BY <1>5, <1>8, <1>9 DEF Inv

(* Only an entry writes deal. *)
LEMMA SameDeal ==
    ASSUME DealType, UNCHANGED deal, Good(pos')
    PROVE  DealType' /\ Good(pos)'
<1>1. DealType'
  BY DEF DealType
<1>2. Good(pos)'
  BY DEF Good, Whole, InOrder, Safe, Dir
<1> QED BY <1>1, <1>2

LEMMA FillsGood ==
    ASSUME Inv, InPosition, NEW price, NEW next, FillTargets(price, next), UNCHANGED deal
    PROVE  InPosition' => /\ DealType' /\ Good(pos)' /\ pos'.left # 0
                          /\ Tighter(pos, pos')
<1> DEFINE a == FillSlot([pos |-> pos, legs |-> legs], 1, price)
           b == FillSlot(a, 2, price)
           c == FillSlot(b, 3, price)
<1>1. DealType /\ Good(pos)
  BY DEF Inv
<1>2. Good(a.pos) /\ Tighter(pos, a.pos)
  <2>1. [pos |-> pos, legs |-> legs].pos = pos
    OBVIOUS
  <2> QED BY <2>1, <1>1, FillGood
<1> HIDE DEF a
<1>3. Good(b.pos) /\ Tighter(a.pos, b.pos)
  BY <1>1, <1>2, FillGood
<1> HIDE DEF b
<1>4. Good(c.pos) /\ Tighter(b.pos, c.pos)
  BY <1>1, <1>3, FillGood
<1> HIDE DEF c
<1>5. Tighter(pos, c.pos)
  <2>1. pos.sl \in Int /\ a.pos.sl \in Int /\ b.pos.sl \in Int /\ c.pos.sl \in Int
    BY <1>1, <1>2, <1>3, <1>4 DEF Good, Positions
  <2>2. Tighter(pos, b.pos)
    BY <2>1, <1>1, <1>2, <1>3, TighterTrans
  <2> QED BY <2>1, <2>2, <1>1, <1>4, TighterTrans
<1>6. /\ pos' = IF c.pos.left = 0 THEN NoPos ELSE c.pos
      /\ phase' = IF c.pos.left = 0 THEN "closed" ELSE next
  BY DEF FillTargets, a, b, c
<1>7. CASE c.pos.left = 0
  BY <1>6, <1>7 DEF InPosition
<1>8. CASE c.pos.left # 0
  <2>1. pos' = c.pos
    BY <1>6, <1>8
  <2> QED BY <2>1, <1>1, <1>4, <1>5, <1>8, SameDeal
<1> QED BY <1>7, <1>8

(* Every step keeps the invariant and lets the stop only tighten. *)
LEMMA InvStep ==
    ASSUME Inv, [Next]_vars
    PROVE  Inv' /\ (InPosition /\ InPosition' => Tighter(pos, pos'))
<1> USE DEF InPosition
<1>1. CASE EnterStructural
  <2>1. PICK m \in Markets, w \in Splits, size \in Sizes :
          \E s \in {Decoded(raw) : raw \in [1 .. 3 -> 0 .. Len(m.menu)]} :
              Open(m, Targets(m.menu, s), Fractions(w, s), size, FALSE)
    BY <1>1 DEF EnterStructural
  <2>2. PICK raw \in [1 .. 3 -> 0 .. Len(m.menu)] :
          Open(m, Targets(m.menu, Decoded(raw)), Fractions(w, Decoded(raw)), size, FALSE)
    BY <2>1
  <2>3. Inv'
    BY <2>2, EntryTargets, EntryGood DEF Inv
  <2> QED BY <2>3, <1>1 DEF EnterStructural
<1>2. CASE EnterEma
  <2>1. PICK m \in Markets, size \in Sizes : Open(m, <<>>, <<>>, size, TRUE)
    BY <1>2 DEF EnterEma
  <2>2. <<>> \in Levels /\ <<>> \in Seq(Nat \ {0}) /\ DOMAIN <<>> = {}
    <3>1. <<>> \in [{} -> Int] /\ DOMAIN <<>> = {}
      OBVIOUS
    <3>2. {} \in SUBSET (1 .. 3)
      OBVIOUS
    <3>3. <<>> \in Levels
      BY <3>1, <3>2, Zenon DEF Levels
    <3> QED BY <3>1, <3>3
  <2>3. Inv'
    BY <2>1, <2>2, EntryGood DEF Inv
  <2> QED BY <2>3, <1>2 DEF EnterEma
<1>3. CASE NextBar
  <2>1. DealType /\ Good(pos) /\ pos.left # 0 /\ UNCHANGED <<deal, pos>> /\ bar' \in BarShapes
    BY <1>3 DEF NextBar, Inv
  <2>2. BarType'
    BY <2>1, ManagedAssumption DEF BarType
  <2>3. Tighter(pos, pos')
    BY <2>1 DEF Tighter, Ahead, Good, Positions, DealType, Dir
  <2> QED BY <2>1, <2>2, <2>3, SameDeal DEF Inv
<1>4. CASE Tick \/ TargetsOnCandle
  <2>1. /\ phase \in {"ticks", "candle"} /\ UNCHANGED <<deal, bar>>
        /\ \/ phase' = "closed"
           \/ \E price, next : FillTargets(price, next)
    BY <1>4 DEF Tick, TargetsOnCandle, CloseAll
  <2>2. BarType'
    BY <2>1 DEF Inv, BarType
  <2>3. CASE phase' = "closed"
    BY <2>2, <2>3 DEF Inv
  <2>4. CASE \E price, next : FillTargets(price, next)
    <3>1. InPosition
      BY <2>1
    <3> QED BY <3>1, <2>1, <2>2, <2>4, FillsGood DEF Inv
  <2> QED BY <2>1, <2>3, <2>4
<1>5. CASE TicksFilled \/ NoTickFill \/ StrictTicks
  <2>1. DealType /\ Good(pos) /\ pos.left # 0 /\ UNCHANGED <<deal, pos, bar>>
    BY <1>5 DEF TicksFilled, NoTickFill, StrictTicks, Inv
  <2>2. BarType' /\ Tighter(pos, pos')
    BY <2>1 DEF Inv, BarType, Tighter, Ahead, Good, Positions, DealType, Dir
  <2> QED BY <2>1, <2>2, SameDeal DEF Inv
<1>6. CASE StopOnCandle \/ EmaExit \/ GuardClose \/ StepClose
  BY <1>6 DEF StopOnCandle, EmaExit, GuardClose, StepClose, CloseAll, Inv, BarType
<1>7. CASE NoEmaExit
  <2>1. DealType /\ BarType /\ Good(pos) /\ pos.left # 0 /\ UNCHANGED <<deal, bar>>
    BY <1>7 DEF NoEmaExit, Inv
  <2>2. pos \in Positions /\ InOrder(pos) /\ Dir \in {-1, 1}
    BY <2>1 DEF Good, Whole, DealType, Dir
  <2>3. BestSoFar \in Int
    BY <2>1, <2>2 DEF BestSoFar, Best, BarType, Positions
  <2> DEFINE seen == [pos EXCEPT !.best = BestSoFar]
  <2>4. /\ seen \in Positions /\ seen.sl = pos.sl /\ seen.tp = pos.tp
        /\ seen.hit = pos.hit /\ seen.left = pos.left
    BY <2>2, <2>3 DEF Positions
  <2>5. pos' = pos \/ pos' = seen
    BY <1>7 DEF NoEmaExit
  <2> HIDE DEF seen
  <2>6. Good(pos') /\ Tighter(pos, pos') /\ pos'.left # 0
    <3>1. pos' \in Positions /\ pos'.sl = pos.sl /\ pos'.tp = pos.tp
          /\ pos'.hit = pos.hit /\ pos'.left = pos.left
      BY <2>2, <2>4, <2>5
    <3>2. InOrder(pos')
      BY <3>1, <2>2 DEF InOrder
    <3> QED BY <3>1, <3>2, <2>1, MovedGood
  <2>7. BarType'
    BY <2>1 DEF BarType
  <2> QED BY <2>1, <2>6, <2>7, SameDeal DEF Inv
<1>8. CASE Guards
  <2>1. DealType /\ BarType /\ Good(pos) /\ pos.left # 0 /\ UNCHANGED <<deal, bar>>
    BY <1>8 DEF Guards, Inv
  <2>2. PICK swing \in Swings, slMode \in Modes : pos' = Guarded(swing, slMode)
    BY <1>8 DEF Guards, DefaultSlModes, Modes
  <2>3. Good(pos') /\ Tighter(pos, pos') /\ pos'.left # 0
    BY <2>1, <2>2, GuardedGood DEF Kept
  <2>4. BarType'
    BY <2>1 DEF BarType
  <2> QED BY <2>1, <2>3, <2>4, SameDeal DEF Inv
<1>9. CASE UNCHANGED vars
  <2>1. UNCHANGED <<phase, deal, pos, bar>>
    BY <1>9 DEF vars
  <2>2. Inv'
    BY <2>1, SameDeal DEF Inv, BarType
  <2>3. InPosition => Tighter(pos, pos')
    BY <2>1 DEF Inv, Tighter, Ahead, Good, Positions, DealType, Dir
  <2> QED BY <2>2, <2>3
<1> QED
  BY <1>1, <1>2, <1>3, <1>4, <1>5, <1>6, <1>7, <1>8, <1>9 DEF Next

(* What is said of an open position holds from entry on. *)
THEOREM ManagedInv == Spec => []Inv
<1>1. Init => Inv
  BY DEF Init, Inv, BarType, NoBar, InPosition
<1>2. Inv /\ [Next]_vars => Inv'
  BY InvStep
<1> QED BY <1>1, <1>2, PTL DEF Spec

(* No handler loses a slot, disorders the targets or leaves a position     *)
(* without one to close it.                                                *)
THEOREM SlotsKept == Spec => []NothingDiscarded
<1>1. Inv => NothingDiscarded
  BY DEF Inv, Good, Whole, InOrder, NothingDiscarded
<1> QED BY <1>1, ManagedInv, PTL

(* After the first target the rest of the position cannot lose any more.   *)
THEOREM RunnersProtected == Spec => []RunnerProtected
<1>1. Inv => RunnerProtected
  BY DEF Inv, Good, Safe, RunnerProtected
<1> QED BY <1>1, ManagedInv, PTL

(* Whatever moves it, the stop only tightens. *)
THEOREM StopsTighten == Spec => StopNeverWidens
<1>1. Inv /\ [Next]_vars => [InPosition /\ InPosition' => ~Ahead(Dir, pos.sl, pos'.sl)]_vars
  BY InvStep DEF Tighter
<1> QED BY <1>1, ManagedInv, PTL DEF Spec, StopNeverWidens

-----------------------------------------------------------------------------
(* Sums of sizes.  The exits are added up by a fold over their positions   *)
(* in the sequence; the first facts are its equations, and that the order  *)
(* of the positions does not matter.                                       *)

(* The recursive function in which the library's fold adds up the subsets  *)
(* of A.                                                                   *)
Pick(S) == CHOOSE i \in S : TRUE

IsSum(it, ls, A) ==
    it = [S \in SUBSET A |->
             IF S = {} THEN 0 ELSE ls[Pick(S)].size + it[S \ {Pick(S)}]]

Sums(ls, A) == CHOOSE it : IsSum(it, ls, A)

(* What the exits have closed together, and those at some positions. *)
Closed(ls)      == FoldFunction(LAMBDA leg, sum : leg.size + sum, 0, ls)
ClosedAt(ls, A) == Sums(ls, A)[A]

LEMMA ClosedIsSum == ASSUME NEW ls PROVE Closed(ls) = ClosedAt(ls, DOMAIN ls)
BY DEF Closed, FoldFunction, FoldFunctionOnSet, MapThenFoldSet, ClosedAt, Sums, IsSum, Pick

(* Among sets of subsets of a finite set there is a smallest one. *)
LEMMA Smallest ==
    ASSUME NEW A, IsFiniteSet(A), NEW T, T \subseteq SUBSET A, T # {}
    PROVE  \E m \in T : \A S \in T : S \subseteq m => S = m
<1>1. IsWellFoundedOn(StrictSubsetOrdering(A), SUBSET A)
  BY FS_StrictSubsetOrderingWellFounded, FS_FiniteSubsetsOfFinite
<1>2. PICK m \in T : \A S \in T : ~(<<S, m>> \in StrictSubsetOrdering(A))
  <2>1. \A R : IsWellFoundedOn(R, SUBSET A)
               => \E m \in T : \A S \in T : ~(<<S, m>> \in R)
    BY WFMin
  <2> QED BY <1>1, <2>1
<1>3. ASSUME NEW S \in T, S \subseteq m, S # m PROVE FALSE
  <2>1. <<S, m>> \in StrictSubsetOrdering(A)
    BY <1>3 DEF StrictSubsetOrdering
  <2> QED BY <1>2, <2>1
<1> QED BY <1>2, <1>3

LEMMA Picked == ASSUME NEW S, S # {} PROVE Pick(S) \in S
BY DEF Pick

(* Two such functions agree where both are defined. *)
LEMMA SumUnique ==
    ASSUME NEW ls, NEW B, IsFiniteSet(B), NEW A \in SUBSET B,
           NEW f, IsSum(f, ls, A), NEW g, IsSum(g, ls, B)
    PROVE  \A S \in SUBSET A : f[S] = g[S]
<1> DEFINE T == {S \in SUBSET A : f[S] # g[S]}
<1>1. SUFFICES ASSUME T # {} PROVE FALSE
  OBVIOUS
<1>2. PICK m \in T : \A S \in T : S \subseteq m => S = m
  <2>1. IsFiniteSet(A)
    BY FS_Subset
  <2> HIDE DEF T
  <2>2. T \subseteq SUBSET A
    BY DEF T
  <2> QED BY <1>1, <2>1, <2>2, Smallest
<1>3. m \in SUBSET A /\ m \in SUBSET B /\ f[m] # g[m]
  OBVIOUS
<1>4. f[m] = IF m = {} THEN 0 ELSE ls[Pick(m)].size + f[m \ {Pick(m)}]
  BY <1>3 DEF IsSum
<1>5. g[m] = IF m = {} THEN 0 ELSE ls[Pick(m)].size + g[m \ {Pick(m)}]
  BY <1>3 DEF IsSum
<1>6. m # {} => f[m \ {Pick(m)}] = g[m \ {Pick(m)}]
  <2>1. SUFFICES ASSUME m # {} PROVE f[m \ {Pick(m)}] = g[m \ {Pick(m)}]
    OBVIOUS
  <2>2. m \ {Pick(m)} # m /\ m \ {Pick(m)} \in SUBSET A
    BY <1>3, <2>1, Picked
  <2> QED BY <1>2, <2>2
<1> QED BY <1>3, <1>4, <1>5, <1>6

LEMMA SumExists ==
    ASSUME NEW ls, NEW A, IsFiniteSet(A)
    PROVE  IsSum(Sums(ls, A), ls, A)
<1> DEFINE T == {S \in SUBSET A : ~IsSum(Sums(ls, S), ls, S)}
<1>1. SUFFICES ASSUME T # {} PROVE FALSE
  OBVIOUS
<1>2. PICK m \in T : \A S \in T : S \subseteq m => S = m
  <2> HIDE DEF T
  <2>1. T \subseteq SUBSET A
    BY DEF T
  <2> QED BY <1>1, <2>1, Smallest
<1>3. m \in SUBSET A /\ ~IsSum(Sums(ls, m), ls, m)
  OBVIOUS
<1>4. \A S \in SUBSET m : S # m => IsSum(Sums(ls, S), ls, S)
  BY <1>2, <1>3
<1> DEFINE Less(S) == S \ {Pick(S)}
           g == [S \in SUBSET m |->
                    IF S = {} THEN 0 ELSE ls[Pick(S)].size + Sums(ls, Less(S))[Less(S)]]
<1>5. ASSUME NEW S \in SUBSET m, S # {}
      PROVE  Sums(ls, Less(S))[Less(S)] = g[Less(S)]
  <2> DEFINE R == Less(S)
  <2>1. R \in SUBSET m /\ R # m /\ R \in SUBSET A
    BY <1>3, <1>5, Picked
  <2>2. IsSum(Sums(ls, R), ls, R)
    BY <1>4, <2>1
  <2>3. CASE R = {}
    BY <2>1, <2>2, <2>3 DEF IsSum
  <2>4. CASE R # {}
    <3>1. Less(R) \in SUBSET R /\ Less(R) # R /\ Less(R) \in SUBSET m /\ Less(R) # m
      BY <2>1, <2>4, Picked
    <3>2. IsSum(Sums(ls, Less(R)), ls, Less(R))
      BY <1>4, <3>1
    <3>3. IsFiniteSet(R)
      BY <2>1, FS_Subset
    <3>4. Sums(ls, Less(R))[Less(R)] = Sums(ls, R)[Less(R)]
      <4> HIDE DEF R, Less
      <4>1. \A U \in SUBSET Less(R) : Sums(ls, Less(R))[U] = Sums(ls, R)[U]
        BY <2>2, <3>1, <3>2, <3>3, SumUnique
      <4> QED BY <4>1
    <3>5. Sums(ls, R)[R] = ls[Pick(R)].size + Sums(ls, R)[Less(R)]
      BY <2>2, <2>4 DEF IsSum
    <3>6. g[R] = ls[Pick(R)].size + Sums(ls, Less(R))[Less(R)]
      BY <2>1, <2>4
    <3> QED BY <3>4, <3>5, <3>6
  <2> QED BY <2>3, <2>4
<1>6. IsSum(g, ls, m)
  <2> HIDE DEF g
  <2>1. g = [S \in SUBSET m |->
                IF S = {} THEN 0 ELSE ls[Pick(S)].size + Sums(ls, Less(S))[Less(S)]]
    BY DEF g
  <2>2. \A S \in SUBSET m : S # {} => Sums(ls, Less(S))[Less(S)] = g[S \ {Pick(S)}]
    BY <1>5
  <2> HIDE DEF Less
  <2>3. g = [S \in SUBSET m |->
                IF S = {} THEN 0 ELSE ls[Pick(S)].size + g[S \ {Pick(S)}]]
    BY <2>1, <2>2
  <2> QED BY <2>3 DEF IsSum
<1>7. IsSum(Sums(ls, m), ls, m)
  <2> HIDE DEF g
  <2> QED BY <1>6 DEF Sums
<1> QED BY <1>3, <1>7

LEMMA ClosedPick ==
    ASSUME NEW ls, NEW A, IsFiniteSet(A)
    PROVE  /\ A = {} => ClosedAt(ls, A) = 0
           /\ A # {} => ClosedAt(ls, A)
                            = ls[Pick(A)].size + ClosedAt(ls, A \ {Pick(A)})
<1>1. IsSum(Sums(ls, A), ls, A)
  BY SumExists
<1>2. Sums(ls, A)[A] =
        IF A = {} THEN 0 ELSE ls[Pick(A)].size + Sums(ls, A)[A \ {Pick(A)}]
  BY <1>1 DEF IsSum
<1>3. A # {} => Sums(ls, A)[A \ {Pick(A)}] = ClosedAt(ls, A \ {Pick(A)})
  <2> DEFINE R == A \ {Pick(A)}
  <2>1. R \in SUBSET A /\ IsFiniteSet(R)
    BY FS_Subset
  <2> HIDE DEF R
  <2>2. IsSum(Sums(ls, R), ls, R) /\ ClosedAt(ls, R) = Sums(ls, R)[R]
    BY <2>1, SumExists DEF ClosedAt
  <2>3. \A S \in SUBSET R : Sums(ls, R)[S] = Sums(ls, A)[S]
    BY <1>1, <2>1, <2>2, SumUnique
  <2> QED BY <2>2, <2>3 DEF R
<1> QED BY <1>2, <1>3 DEF ClosedAt

(* Exits that are the same at some positions close the same there, and a   *)
(* number of lots.                                                         *)
LEMMA ClosedSame ==
    ASSUME NEW ls, NEW A, IsFiniteSet(A), \A i \in A : ls[i].size \in Nat,
           NEW more, \A i \in A : more[i] = ls[i]
    PROVE  ClosedAt(more, A) = ClosedAt(ls, A) /\ ClosedAt(ls, A) \in Nat
<1> DEFINE T == {S \in SUBSET A :
                    ~(ClosedAt(more, S) = ClosedAt(ls, S) /\ ClosedAt(ls, S) \in Nat)}
<1>1. SUFFICES ASSUME T # {} PROVE FALSE
  OBVIOUS
<1>2. PICK m \in T : \A S \in T : S \subseteq m => S = m
  <2> HIDE DEF T
  <2>1. T \subseteq SUBSET A
    BY DEF T
  <2> QED BY <1>1, <2>1, Smallest
<1>3. m \in SUBSET A /\ IsFiniteSet(m)
  BY FS_Subset
<1>4. m # {}
  <2>1. ClosedAt(more, {}) = 0 /\ ClosedAt(ls, {}) = 0
    BY ClosedPick, FS_EmptySet
  <2>2. ~(ClosedAt(more, m) = ClosedAt(ls, m) /\ ClosedAt(ls, m) \in Nat)
    BY <1>2
  <2> QED BY <2>1, <2>2
<1>5. Pick(m) \in m /\ ls[Pick(m)].size \in Nat /\ more[Pick(m)].size = ls[Pick(m)].size
  BY <1>3, <1>4, Picked
<1>6. /\ ClosedAt(more, m \ {Pick(m)}) = ClosedAt(ls, m \ {Pick(m)})
      /\ ClosedAt(ls, m \ {Pick(m)}) \in Nat
  BY <1>2, <1>3, <1>5
<1>7. /\ ClosedAt(more, m) = more[Pick(m)].size + ClosedAt(more, m \ {Pick(m)})
      /\ ClosedAt(ls, m) = ls[Pick(m)].size + ClosedAt(ls, m \ {Pick(m)})
  BY <1>3, <1>4, ClosedPick
<1> QED BY <1>2, <1>5, <1>6, <1>7

(* Any position can be taken out first. *)
LEMMA ClosedRest ==
    ASSUME NEW ls, NEW A, IsFiniteSet(A), \A i \in A : ls[i].size \in Nat, NEW x \in A
    PROVE  ClosedAt(ls, A) = ls[x].size + ClosedAt(ls, A \ {x})
<1> DEFINE T == {S \in SUBSET A :
                    \E i \in S : ClosedAt(ls, S) # ls[i].size + ClosedAt(ls, S \ {i})}
<1>1. SUFFICES ASSUME T # {} PROVE FALSE
  OBVIOUS
<1>2. PICK m \in T : \A S \in T : S \subseteq m => S = m
  <2> HIDE DEF T
  <2>1. T \subseteq SUBSET A
    BY DEF T
  <2> QED BY <1>1, <2>1, Smallest
<1>3. m \in SUBSET A /\ IsFiniteSet(m)
  BY FS_Subset
<1>4. PICK p \in m : ClosedAt(ls, m) # ls[p].size + ClosedAt(ls, m \ {p})
  BY <1>2
<1> DEFINE q == Pick(m)
           P == m \ {p}
           Q == m \ {q}
           R == m \ {p, q}
<1>5. q \in m
  BY <1>4, Picked
<1>6. ClosedAt(ls, m) = ls[q].size + ClosedAt(ls, Q)
  BY <1>3, <1>4, ClosedPick
<1>7. p # q
  BY <1>4, <1>6
<1>8. P # m /\ Q # m /\ P \in SUBSET m /\ Q \in SUBSET m
      /\ P \in SUBSET A /\ Q \in SUBSET A
  BY <1>3, <1>4, <1>5
<1>9. /\ ClosedAt(ls, P) = ls[q].size + ClosedAt(ls, P \ {q})
      /\ ClosedAt(ls, Q) = ls[p].size + ClosedAt(ls, Q \ {p})
  <2>1. q \in P /\ p \in Q
    BY <1>4, <1>5, <1>7
  <2>2. P \notin T /\ Q \notin T
    BY <1>2, <1>8
  <2> HIDE DEF P, Q, q
  <2> QED BY <1>8, <2>1, <2>2
<1>10. P \ {q} = R /\ Q \ {p} = R
  OBVIOUS
<1>11. ls[p].size \in Nat /\ ls[q].size \in Nat
  BY <1>3, <1>4, <1>5
<1>12. ClosedAt(ls, R) \in Nat
  <2>1. R \in SUBSET A
    BY <1>3
  <2>2. IsFiniteSet(R) /\ \A i \in R : ls[i].size \in Nat /\ ls[i] = ls[i]
    BY <2>1, FS_Subset
  <2> HIDE DEF R
  <2> QED BY <2>2, ClosedSame
<1> HIDE DEF P, Q, R, q
<1>13. /\ ClosedAt(ls, m) = ls[q].size + (ls[p].size + ClosedAt(ls, R))
       /\ ClosedAt(ls, P) = ls[q].size + ClosedAt(ls, R)
  BY <1>6, <1>9, <1>10
<1>14. ClosedAt(ls, m) = ls[p].size + ClosedAt(ls, P)
  BY <1>11, <1>12, <1>13
<1> QED BY <1>4, <1>14 DEF P

Leg == [slot : 0 .. 3, size : Nat, left : Nat]

(* No exits close nothing; one more exit closes its own size more. *)
LEMMA ClosedMore ==
    ASSUME NEW ls \in Seq(Leg), NEW leg \in Leg
    PROVE  /\ Closed(<<>>) = 0
           /\ Closed(ls) \in Nat
           /\ Closed(Append(ls, leg)) = Closed(ls) + leg.size
<1> DEFINE n    == Len(ls)
           more == Append(ls, leg)
           B    == 1 .. n + 1
<1>1. n \in Nat /\ DOMAIN ls = 1 .. n /\ \A i \in 1 .. n : ls[i] \in Leg
  OBVIOUS
<1>2. /\ DOMAIN more = B /\ more[n + 1] = leg
      /\ \A i \in 1 .. n : more[i] = ls[i]
  OBVIOUS
<1>3. IsFiniteSet(1 .. n) /\ IsFiniteSet(B)
  <2>1. 1 \in Int /\ n \in Int /\ n + 1 \in Int
    BY <1>1
  <2> QED BY <2>1, FS_Interval
<1>4. \A i \in 1 .. n : ls[i].size \in Nat
  BY <1>1 DEF Leg
<1>5. \A i \in B : more[i].size \in Nat
  <2>1. \A i \in B : i \in 1 .. n \/ i = n + 1
    BY <1>1
  <2> QED BY <2>1, <1>2, <1>4 DEF Leg
<1> HIDE DEF more
<1>6. ClosedAt(more, 1 .. n) = ClosedAt(ls, 1 .. n) /\ ClosedAt(ls, 1 .. n) \in Nat
  BY <1>2, <1>3, <1>4, ClosedSame
<1>7. ClosedAt(more, B) = leg.size + ClosedAt(more, 1 .. n)
  <2>1. n + 1 \in B /\ B \ {n + 1} = 1 .. n
    BY <1>1
  <2> HIDE DEF B
  <2>2. ClosedAt(more, B) = more[n + 1].size + ClosedAt(more, B \ {n + 1})
    BY <1>3, <1>5, <2>1, ClosedRest
  <2> QED BY <1>2, <2>1, <2>2
<1>8. /\ Closed(ls) = ClosedAt(ls, 1 .. n)
      /\ Closed(more) = ClosedAt(more, B)
  BY <1>1, <1>2, ClosedIsSum
<1>9. Closed(<<>>) = 0
  <2>1. DOMAIN <<>> = {} /\ IsFiniteSet({})
    BY FS_EmptySet
  <2> QED BY <2>1, ClosedIsSum, ClosedPick
<1>10. leg.size \in Nat
  BY DEF Leg
<1> QED BY <1>6, <1>7, <1>8, <1>9, <1>10 DEF more

LEMMA ClosedType == ASSUME NEW ls \in Seq(Leg) PROVE Closed(ls) \in Nat
<1>1. [slot |-> 0, size |-> 0, left |-> 0] \in Leg
  BY DEF Leg
<1> QED BY <1>1, ClosedMore

-----------------------------------------------------------------------------
(* The exits.  The parts of SharesAsAllocated, for any exits. *)

Allocated(leg) ==
    leg.slot # 0 =>
        LET share  == ShareOf(DOMAIN deal.tp, leg.slot)
            before == leg.size + leg.left
        IN  leg.size = IF leg.slot = Max(DOMAIN deal.tp) \/ share = 0 THEN before
                       ELSE Min({share, before})

Accounted(ls) ==
    /\ ls \in Seq(Leg)
    /\ \A i \in 1 .. Len(ls) : Allocated(ls[i])
    /\ \A i \in 2 .. Len(ls) : ls[i].slot = 0 \/ ls[i - 1].slot < ls[i].slot

(* A position and its exits: the slots that have been hit, the exits among *)
(* them, lie before those that still work, and what was closed and what is *)
(* left add up to the size at entry.                                       *)
Booked(p, ls) ==
    /\ Accounted(ls)
    /\ \A i \in 1 .. Len(ls) : ls[i].slot \in p.hit
    /\ p.hit \subseteq DOMAIN deal.tp
    /\ \A h \in p.hit, i \in DOMAIN p.tp : h < i
    /\ Closed(ls) + p.left = deal.size

LegsInv ==
    /\ phase = "flat" => legs = <<>>
    /\ InPosition => Booked(pos, legs)
    /\ phase = "closed" => Accounted(legs) /\ Closed(legs) = deal.size

(* The slots up to this one have been looked at: what still works of them  *)
(* has not been reached.                                                   *)
LookedAt(p, slot, price) ==
    p.left = 0 \/ \A i \in DOMAIN p.tp : i <= slot => ~TargetReached(p, i, price)

LEMMA MaxIs ==
    ASSUME NEW S \in SUBSET (1 .. 3), NEW slot \in S
    PROVE  slot = Max(S) <=> \A i \in S : i <= slot
<1>1. \E i \in S : \A j \in S : i >= j
  <2>1. 3 \in S => \A j \in S : 3 >= j
    OBVIOUS
  <2>2. 3 \notin S => \A j \in S : 2 >= j
    OBVIOUS
  <2>3. 3 \notin S /\ 2 \notin S => \A j \in S : 1 >= j
    OBVIOUS
  <2> QED BY <2>1, <2>2, <2>3
<1>2. Max(S) \in S /\ \A j \in S : Max(S) >= j
  BY <1>1 DEF Max
<1>3. (\A i \in S : i <= slot) => slot = Max(S)
  <2> SUFFICES ASSUME \A i \in S : i <= slot PROVE slot = Max(S)
    OBVIOUS
  <2>1. Max(S) >= slot /\ Max(S) <= slot /\ Max(S) \in 1 .. 3 /\ slot \in 1 .. 3
    BY <1>2
  <2> QED BY <2>1
<1> QED BY <1>2, <1>3

LEMMA MinIs ==
    ASSUME NEW x \in Int, NEW y \in Int
    PROVE  Min({x, y}) = IF x < y THEN x ELSE y
<1>1. \E i \in {x, y} : \A j \in {x, y} : i <= j
  OBVIOUS
<1>2. Min({x, y}) \in {x, y} /\ \A j \in {x, y} : Min({x, y}) <= j
  BY <1>1 DEF Min
<1> QED BY <1>2

(* An exit for a slot whose predecessors are all gone takes its share. *)
LEMMA ShareTaken ==
    ASSUME DealType, NEW p, Good(p), NEW slot \in DOMAIN p.tp,
           p.hit \subseteq DOMAIN deal.tp, \A h \in p.hit, i \in DOMAIN p.tp : h < i,
           NEW leg, leg.slot = slot, leg.size = CloseSize(p, slot),
           leg.left = p.left - leg.size
    PROVE  Allocated(leg)
<1> DEFINE D     == DOMAIN deal.tp
           share == ShareOf(D, slot)
<1>1. p \in Positions /\ DOMAIN p.tp = D \ p.hit /\ D \in SUBSET (1 .. 3) /\ p.left \in Nat
  BY DEF Good, Whole, Positions, DealType, Levels
<1>2. Active(p) = D
  BY <1>1 DEF Active
<1>3. slot \in D /\ share \in Nat
  BY <1>1, ShareType
<1>4. slot = Max(D) <=> \A i \in DOMAIN p.tp : i <= slot
  <2>1. slot = Max(D) <=> \A i \in D : i <= slot
    BY <1>1, <1>3, MaxIs
  <2>2. \A h \in p.hit : h < slot /\ h \in 1 .. 3 /\ slot \in 1 .. 3
    BY <1>1
  <2>3. \A i \in D : i \in DOMAIN p.tp \/ i \in p.hit
    BY <1>1
  <2>4. \A i \in D \cup DOMAIN p.tp : i \in Int
    BY <1>1
  <2> QED BY <1>1, <2>1, <2>2, <2>3, <2>4
<1>5. CloseSize(p, slot) =
        IF slot = Max(D) \/ share = 0 THEN p.left ELSE IF share < p.left THEN share ELSE p.left
  BY <1>2, <1>4 DEF CloseSize
<1> HIDE DEF share, D
<1>6. leg.size + leg.left = p.left
  BY <1>1, <1>3, <1>5
<1>7. Min({share, p.left}) = IF share < p.left THEN share ELSE p.left
  BY <1>1, <1>3, MinIs
<1>8. leg.size = IF leg.slot = Max(D) \/ share = 0 THEN leg.size + leg.left
                 ELSE Min({share, leg.size + leg.left})
  BY <1>5, <1>6, <1>7
<1> QED BY <1>8 DEF Allocated, share, D

(* One exit more keeps the exits as allocated, if its slot comes later. *)
LEMMA OneMore ==
    ASSUME NEW ls, Accounted(ls), NEW leg \in Leg, Allocated(leg),
           leg.slot = 0 \/ \A i \in 1 .. Len(ls) : ls[i].slot < leg.slot
    PROVE  Accounted(Append(ls, leg))
<1> DEFINE n == Len(ls)
           more == Append(ls, leg)
<1>1. ls \in Seq(Leg) /\ n \in Nat
  BY DEF Accounted
<1>2. /\ more \in Seq(Leg) /\ Len(more) = n + 1 /\ more[n + 1] = leg
      /\ \A i \in 1 .. n : more[i] = ls[i]
  BY <1>1
<1> HIDE DEF more
<1>3. ASSUME NEW i \in 1 .. Len(more) PROVE Allocated(more[i])
  <2>1. i \in 1 .. n \/ i = n + 1
    BY <1>1, <1>2
  <2> QED BY <2>1, <1>2 DEF Accounted
<1>4. ASSUME NEW i \in 2 .. Len(more)
      PROVE  more[i].slot = 0 \/ more[i - 1].slot < more[i].slot
  <2>1. i - 1 \in 1 .. n /\ more[i - 1] = ls[i - 1]
    BY <1>1, <1>2
  <2>2. CASE i = n + 1
    BY <2>1, <2>2, <1>2
  <2>3. CASE i # n + 1
    <3>1. i \in 2 .. n /\ i \in 1 .. n
      BY <2>3, <1>1, <1>2
    <3> QED BY <3>1, <2>1, <1>2 DEF Accounted
  <2> QED BY <2>2, <2>3
<1> QED BY <1>2, <1>3, <1>4 DEF Accounted, more

(* A slot is filled after all working slots before it, with its share. *)
LEMMA FillBooked ==
    ASSUME DealType, NEW st, NEW price \in Int, NEW slot \in 1 .. 3, Good(st.pos),
           Booked(st.pos, st.legs), LookedAt(st.pos, slot - 1, price)
    PROVE  LET next == FillSlot(st, slot, price)
           IN  Booked(next.pos, next.legs) /\ LookedAt(next.pos, slot, price)
<1> DEFINE p    == st.pos
           size == CloseSize(p, slot)
           left == p.left - size
           rest == [p EXCEPT !.left = left, !.hit = p.hit \cup {slot},
                             !.tp = Restrict(p.tp, DOMAIN p.tp \ {slot})]
           next == FillSlot(st, slot, price)
           leg  == [slot |-> slot, size |-> size, left |-> left]
<1>1. /\ p \in Positions /\ Whole(p) /\ InOrder(p) /\ Dir \in {-1, 1}
      /\ DOMAIN p.tp \in SUBSET (1 .. 3) /\ p.left \in Nat
      /\ \A i \in DOMAIN p.tp : p.tp[i] \in Int
  <2>1. p \in Positions /\ Whole(p) /\ InOrder(p) /\ Dir \in {-1, 1}
    BY DEF Good, Whole, DealType, Dir
  <2>2. p.tp \in Levels /\ p.left \in Nat
    BY <2>1 DEF Positions
  <2>3. PICK S \in SUBSET (1 .. 3) : p.tp \in [S -> Int]
    BY <2>2 DEF Levels
  <2> QED BY <2>1, <2>2, <2>3
<1>2. CASE p.left = 0 \/ ~TargetReached(p, slot, price)
  <2>1. next = st
    BY <1>2 DEF FillSlot
  <2>2. LookedAt(p, slot, price)
    <3>1. ASSUME p.left # 0, NEW i \in DOMAIN p.tp, i <= slot
          PROVE  ~TargetReached(p, i, price)
      <4>1. i = slot \/ i <= slot - 1
        BY <1>1, <3>1
      <4> QED BY <4>1, <3>1, <1>2 DEF LookedAt
    <3> QED BY <3>1 DEF LookedAt
  <2> QED BY <2>1, <2>2
<1>3. CASE p.left # 0 /\ TargetReached(p, slot, price)
  <2>1. slot \in DOMAIN p.tp
    BY <1>3 DEF TargetReached
  <2>2. size \in 0 .. p.left /\ left \in Nat
    <3>1. size \in 0 .. p.left
      BY <1>1, <2>1, CloseSizeType
    <3> QED BY <3>1, <1>1
  <2>3. \A i \in DOMAIN p.tp : slot <= i
    <3> SUFFICES ASSUME NEW i \in DOMAIN p.tp, i < slot PROVE FALSE
      BY <1>1
    <3>1. ~TargetReached(p, i, price)
      <4>1. i <= slot - 1
        BY <1>1
      <4> QED BY <4>1, <1>3 DEF LookedAt
    <3>2. Ahead(Dir, p.tp[i], price) /\ ~Ahead(Dir, p.tp[slot], price)
      BY <3>1, <1>3 DEF TargetReached
    <3>3. Ahead(Dir, p.tp[slot], p.tp[i])
      BY <1>1, <2>1 DEF InOrder
    <3> QED BY <1>1, <2>1, <3>2, <3>3 DEF Ahead
  <2>4. /\ p.hit \subseteq DOMAIN deal.tp /\ \A h \in p.hit, i \in DOMAIN p.tp : h < i
        /\ Accounted(st.legs) /\ \A i \in 1 .. Len(st.legs) : st.legs[i].slot \in p.hit
        /\ Closed(st.legs) + p.left = deal.size
    BY DEF Booked
  <2>5. leg \in Leg /\ leg.slot = slot /\ leg.size = size /\ leg.left = left
    BY <2>2 DEF Leg
  <2>6. next.legs = Append(st.legs, leg)
    BY <1>3 DEF FillSlot
  <2>7. /\ next.pos.hit = p.hit \cup {slot} /\ next.pos.left = left
        /\ DOMAIN next.pos.tp = DOMAIN p.tp \ {slot}
    <3>1. Restrict(p.tp, DOMAIN p.tp \ {slot}) \in Levels
      <4>1. PICK S \in SUBSET (1 .. 3) : p.tp \in [S -> Int]
        BY <1>1 DEF Positions, Levels
      <4>2. Restrict(p.tp, DOMAIN p.tp \ {slot}) \in [S \ {slot} -> Int]
        BY <4>1 DEF Restrict
      <4> QED BY <4>2 DEF Levels
    <3>2. DOMAIN Restrict(p.tp, DOMAIN p.tp \ {slot}) = DOMAIN p.tp \ {slot}
      BY DEF Restrict
    <3>3. /\ rest \in Positions /\ rest.hit = p.hit \cup {slot} /\ rest.left = left
          /\ rest.tp = Restrict(p.tp, DOMAIN p.tp \ {slot})
      BY <1>1, <2>2, <3>1 DEF Positions
    <3>4. next.pos = IF BreakevenTrigger > 0 /\ left > 0 THEN ToBreakeven(rest) ELSE rest
      BY <1>3 DEF FillSlot
    <3> HIDE DEF rest, next, left
    <3>5. /\ ToBreakeven(rest).hit = rest.hit /\ ToBreakeven(rest).left = rest.left
          /\ ToBreakeven(rest).tp = rest.tp
      BY <3>3, BreakevenTightens
    <3> QED BY <3>2, <3>3, <3>4, <3>5
  <2>8. Allocated(leg)
    <3> HIDE DEF leg
    <3> QED BY <2>1, <2>4, <2>5, ShareTaken
  <2> HIDE DEF leg, next, left, size
  <2>9. \A i \in 1 .. Len(st.legs) : st.legs[i].slot < leg.slot
    BY <2>1, <2>4, <2>5
  <2>10. Accounted(next.legs)
    BY <2>4, <2>5, <2>6, <2>8, <2>9, OneMore
  <2>11. Closed(next.legs) + next.pos.left = deal.size
    <3>1. st.legs \in Seq(Leg)
      BY <2>4 DEF Accounted
    <3>2. Closed(st.legs) \in Nat /\ Closed(next.legs) = Closed(st.legs) + size
      BY <3>1, <2>5, <2>6, ClosedMore
    <3> QED BY <3>2, <2>2, <2>4, <2>7, <1>1 DEF left
  <2>12. \A i \in 1 .. Len(next.legs) : next.legs[i].slot \in next.pos.hit
    <3>1. st.legs \in Seq(Leg)
      BY <2>4 DEF Accounted
    <3>2. ASSUME NEW i \in 1 .. Len(next.legs)
          PROVE  next.legs[i].slot \in next.pos.hit
      <4>1. \/ next.legs[i] = leg
            \/ i \in 1 .. Len(st.legs) /\ next.legs[i] = st.legs[i]
        <5>1. /\ Len(st.legs) \in Nat /\ Len(next.legs) = Len(st.legs) + 1
              /\ next.legs[Len(st.legs) + 1] = leg
              /\ \A k \in 1 .. Len(st.legs) : next.legs[k] = st.legs[k]
          BY <3>1, <2>5, <2>6
        <5>2. i = Len(st.legs) + 1 \/ i \in 1 .. Len(st.legs)
          BY <5>1
        <5>3. i = Len(st.legs) + 1 => next.legs[i] = leg
          BY <5>1
        <5>4. i \in 1 .. Len(st.legs) => next.legs[i] = st.legs[i]
          BY <5>1
        <5> QED BY <5>2, <5>3, <5>4
      <4>2. CASE next.legs[i] = leg
        <5>1. next.legs[i].slot = slot
          BY <4>2, <2>5
        <5> QED BY <5>1, <2>7
      <4>3. CASE i \in 1 .. Len(st.legs) /\ next.legs[i] = st.legs[i]
        BY <4>3, <2>4, <2>7
      <4> QED BY <4>1, <4>2, <4>3
    <3> QED BY <3>2
  <2>13. \A h \in next.pos.hit, i \in DOMAIN next.pos.tp : h < i
    <3> SUFFICES ASSUME NEW h \in next.pos.hit, NEW i \in DOMAIN next.pos.tp
                 PROVE  h < i
      OBVIOUS
    <3>1. i \in DOMAIN p.tp /\ i # slot /\ slot <= i /\ i \in Int
      BY <2>3, <2>7, <1>1
    <3> QED BY <3>1, <2>4, <2>7
  <2>14. next.pos.hit \subseteq DOMAIN deal.tp
    BY <2>1, <2>4, <2>7, <1>1 DEF Whole
  <2>15. LookedAt(next.pos, slot, price)
    <3>1. \A i \in DOMAIN next.pos.tp : ~(i <= slot)
      BY <2>3, <2>7, <1>1
    <3> QED BY <3>1 DEF LookedAt
  <2>16. Booked(next.pos, next.legs)
    BY <2>10, <2>11, <2>12, <2>13, <2>14 DEF Booked
  <2> QED BY <2>15, <2>16 DEF next
<1> QED BY <1>2, <1>3

(* Only an entry writes deal. *)
LEMMA SameBooks ==
    ASSUME UNCHANGED deal
    PROVE  /\ Accounted(legs') => Accounted(legs)'
           /\ Booked(pos', legs') => Booked(pos, legs)'
<1>1. Accounted(legs') => Accounted(legs)'
  BY DEF Accounted, Allocated, ShareOf
<1> QED BY <1>1 DEF Booked

(* A close closes what is left. *)
LEMMA CloseBooked ==
    ASSUME DealType, pos.left \in Nat, Booked(pos, legs), CloseAll, UNCHANGED deal
    PROVE  Accounted(legs)' /\ Closed(legs)' = deal'.size
<1> DEFINE leg == [slot |-> 0, size |-> pos.left, left |-> 0]
<1>1. leg \in Leg /\ leg.slot = 0 /\ leg.size = pos.left
  BY DEF Leg
<1>2. legs' = Append(legs, leg) /\ Accounted(legs) /\ legs \in Seq(Leg)
  BY DEF CloseAll, Booked, Accounted
<1> HIDE DEF leg
<1>3. Allocated(leg)
  BY <1>1 DEF Allocated
<1>4. Accounted(legs')
  BY <1>1, <1>2, <1>3, OneMore
<1>5. Closed(legs') = deal.size
  <2>1. Closed(legs') = Closed(legs) + pos.left
    BY <1>1, <1>2, ClosedMore
  <2> QED BY <2>1 DEF Booked
<1> QED BY <1>4, <1>5, SameBooks

(* The slots in their order. *)
LEMMA FillsBooked ==
    ASSUME Inv, LegsInv, InPosition, NEW price \in Int, NEW next, next \notin {"flat", "closed"},
           FillTargets(price, next), UNCHANGED deal
    PROVE  LegsInv'
<1> DEFINE z == [pos |-> pos, legs |-> legs]
           a == FillSlot(z, 1, price)
           b == FillSlot(a, 2, price)
           c == FillSlot(b, 3, price)
<1>1. DealType /\ Good(z.pos) /\ Booked(z.pos, z.legs) /\ LookedAt(z.pos, 1 - 1, price)
  <2>1. z.pos = pos /\ z.legs = legs
    OBVIOUS
  <2>2. DealType /\ Good(pos) /\ Booked(pos, legs)
    BY DEF Inv, LegsInv
  <2>3. \A i \in DOMAIN pos.tp : ~(i <= 1 - 1)
    <3>1. pos.tp \in Levels
      BY <2>2 DEF Good, Positions
    <3>2. DOMAIN pos.tp \subseteq 1 .. 3
      BY <3>1 DEF Levels
    <3> QED BY <3>2
  <2> HIDE DEF z
  <2> QED BY <2>1, <2>2, <2>3 DEF LookedAt
<1> HIDE DEF z
<1>2. Good(a.pos) /\ Booked(a.pos, a.legs) /\ LookedAt(a.pos, 2 - 1, price)
  <2>1. Good(a.pos)
    BY <1>1, FillGood
  <2>2. Booked(a.pos, a.legs) /\ LookedAt(a.pos, 1, price)
    BY <1>1, FillBooked
  <2> QED BY <2>1, <2>2
<1> HIDE DEF a
<1>3. Good(b.pos) /\ Booked(b.pos, b.legs) /\ LookedAt(b.pos, 3 - 1, price)
  <2>1. Good(b.pos)
    BY <1>1, <1>2, FillGood
  <2>2. Booked(b.pos, b.legs) /\ LookedAt(b.pos, 2, price)
    BY <1>1, <1>2, FillBooked
  <2> QED BY <2>1, <2>2
<1> HIDE DEF b
<1>4. Booked(c.pos, c.legs)
  BY <1>1, <1>3, FillBooked
<1> HIDE DEF c
<1>5. /\ legs' = c.legs
      /\ pos' = IF c.pos.left = 0 THEN NoPos ELSE c.pos
      /\ phase' = IF c.pos.left = 0 THEN "closed" ELSE next
  BY DEF FillTargets, a, b, c, z
<1>6. CASE c.pos.left = 0
  <2>1. Accounted(legs') /\ Closed(legs') = deal.size
    <3>1. Accounted(c.legs) /\ Closed(c.legs) + c.pos.left = deal.size
      BY <1>4 DEF Booked
    <3>2. Closed(c.legs) \in Nat
      BY <3>1, ClosedType DEF Accounted
    <3> QED BY <3>1, <3>2, <1>5, <1>6
  <2>2. phase' = "closed"
    BY <1>5, <1>6
  <2>3. Accounted(legs)' /\ Closed(legs)' = deal'.size
    BY <2>1, SameBooks
  <2> QED BY <2>2, <2>3 DEF LegsInv, InPosition
<1>7. CASE c.pos.left # 0
  <2>1. Booked(pos', legs') /\ phase' = next
    BY <1>4, <1>5, <1>7
  <2>2. Booked(pos, legs)'
    BY <2>1, SameBooks
  <2>3. phase' # "flat" /\ phase' # "closed"
    BY <2>1
  <2> QED BY <2>1, <2>2, <2>3 DEF LegsInv, InPosition
<1> QED BY <1>6, <1>7

LEMMA EntryBooked ==
    ASSUME LegsInv, phase = "flat", NEW m, NEW tp, NEW lots, NEW size \in Nat, NEW ema,
           Open(m, tp, lots, size, ema)
    PROVE  LegsInv'
<1>1. legs' = <<>> /\ phase' = "hold"
  BY DEF LegsInv, Open
<1>2. pos'.left = size /\ pos'.hit = {} /\ deal'.size = size
  BY DEF Open
<1>3. <<>> \in Seq(Leg) /\ Len(<<>>) = 0
  OBVIOUS
<1>4. Closed(<<>>) = 0
  <2>1. [slot |-> 0, size |-> 0, left |-> 0] \in Leg
    BY DEF Leg
  <2> QED BY <1>3, <2>1, ClosedMore
<1>5. Accounted(legs)'
  BY <1>1, <1>3 DEF Accounted
<1>6. Booked(pos, legs)'
  BY <1>1, <1>2, <1>3, <1>4, <1>5 DEF Booked
<1> QED BY <1>1, <1>6 DEF LegsInv, InPosition

(* Every step keeps the books. *)
LEMMA LegsStep ==
    ASSUME Inv, LegsInv, [Next]_vars
    PROVE  LegsInv'
<1>1. InPosition => DealType /\ Good(pos) /\ pos.left \in Nat /\ Booked(pos, legs)
  BY DEF Inv, LegsInv, Good, Positions
<1>2. ASSUME InPosition, InPosition', UNCHANGED <<deal, legs>>,
             pos'.hit = pos.hit, DOMAIN pos'.tp = DOMAIN pos.tp, pos'.left = pos.left
      PROVE  LegsInv'
  <2>1. Booked(pos', legs')
    BY <1>1, <1>2 DEF Booked
  <2>2. Booked(pos, legs)'
    BY <2>1, <1>2, SameBooks
  <2> QED BY <2>2, <1>2 DEF LegsInv, InPosition
<1>3. ASSUME InPosition, CloseAll, UNCHANGED deal PROVE LegsInv'
  <2>1. Accounted(legs)' /\ Closed(legs)' = deal'.size
    BY <1>1, <1>3, CloseBooked
  <2>2. phase' = "closed"
    BY <1>3 DEF CloseAll
  <2> QED BY <2>1, <2>2 DEF LegsInv, InPosition
<1>4. CASE EnterStructural
  <2>1. PICK m \in Markets, w \in Splits, size \in Sizes :
          \E s \in {Decoded(raw) : raw \in [1 .. 3 -> 0 .. Len(m.menu)]} :
              Open(m, Targets(m.menu, s), Fractions(w, s), size, FALSE)
    BY <1>4 DEF EnterStructural
  <2>2. phase = "flat" /\ size \in Nat
    BY <1>4, ManagedAssumption DEF EnterStructural
  <2> QED BY <2>1, <2>2, EntryBooked
<1>5. CASE EnterEma
  <2>1. PICK m \in Markets, size \in Sizes : Open(m, <<>>, <<>>, size, TRUE)
    BY <1>5 DEF EnterEma
  <2>2. phase = "flat" /\ size \in Nat
    BY <1>5, ManagedAssumption DEF EnterEma
  <2> QED BY <2>1, <2>2, EntryBooked
<1>6. CASE NextBar
  BY <1>2, <1>6 DEF NextBar, InPosition
<1>7. CASE Tick
  <2>1. PICK price \in bar.low .. bar.high :
          \/ CloseAll
          \/ FillTargets(price, "ticks")
    BY <1>7 DEF Tick
  <2>2. price \in Int /\ InPosition /\ UNCHANGED deal
    BY <1>7 DEF Tick, InPosition, Inv, BarType
  <2>3. CASE CloseAll
    BY <2>2, <2>3, <1>3
  <2>4. CASE FillTargets(price, "ticks")
    BY <2>2, <2>4, FillsBooked
  <2> QED BY <2>1, <2>3, <2>4
<1>8. CASE TargetsOnCandle
  <2>1. FillTargets(Best(Dir, bar), "ema") /\ InPosition /\ UNCHANGED deal
    BY <1>8 DEF TargetsOnCandle, InPosition
  <2>2. Best(Dir, bar) \in Int
    BY DEF Best, Inv, BarType
  <2> QED BY <2>1, <2>2, FillsBooked
<1>9. CASE TicksFilled
  BY <1>2, <1>9 DEF TicksFilled, InPosition
<1>10. CASE NoTickFill
  BY <1>2, <1>10 DEF NoTickFill, InPosition
<1>11. CASE StrictTicks
  BY <1>2, <1>11 DEF StrictTicks, InPosition
<1>12. CASE StopOnCandle \/ EmaExit \/ GuardClose \/ StepClose
  BY <1>3, <1>12 DEF StopOnCandle, EmaExit, GuardClose, StepClose, InPosition
<1>13. CASE NoEmaExit
  <2>1. InPosition /\ InPosition' /\ UNCHANGED <<deal, legs>>
    BY <1>13 DEF NoEmaExit, InPosition
  <2>2. pos \in Positions
    BY <2>1, <1>1 DEF Good
  <2>3. pos' = pos \/ pos' = [pos EXCEPT !.best = BestSoFar]
    BY <1>13 DEF NoEmaExit
  <2>4. pos'.hit = pos.hit /\ pos'.tp = pos.tp /\ pos'.left = pos.left
    BY <2>2, <2>3 DEF Positions
  <2> QED BY <2>1, <2>4, <1>2
<1>14. CASE Guards
  <2>1. InPosition /\ InPosition' /\ UNCHANGED <<deal, legs>>
    BY <1>14 DEF Guards, InPosition
  <2>2. PICK swing \in Swings, slMode \in Modes : pos' = Guarded(swing, slMode)
    BY <1>14 DEF Guards, DefaultSlModes, Modes
  <2>3. DealType /\ BarType /\ Good(pos)
    BY <2>1 DEF Inv
  <2>4. Good(pos') /\ Kept(pos, pos')
    BY <2>2, <2>3, GuardedGood
  <2>5. pos'.hit = pos.hit /\ DOMAIN pos'.tp = DOMAIN pos.tp /\ pos'.left = pos.left
    BY <2>3, <2>4 DEF Kept, Good, Whole
  <2> QED BY <2>1, <2>5, <1>2
<1>15. CASE UNCHANGED vars
  <2>1. UNCHANGED <<phase, deal, pos, legs>>
    BY <1>15 DEF vars
  <2>2. Accounted(legs) => Accounted(legs)'
    BY <2>1, SameBooks
  <2>3. Booked(pos, legs) => Booked(pos, legs)'
    BY <2>1, SameBooks
  <2> QED BY <2>1, <2>2, <2>3 DEF LegsInv, InPosition
<1> QED
  BY <1>4, <1>5, <1>6, <1>7, <1>8, <1>9, <1>10, <1>11, <1>12, <1>13, <1>14, <1>15
  DEF Next

(* What was allocated to a slot is what it closes, and the exits add up to *)
(* the size at entry.                                                      *)
THEOREM SharesKept == Spec => []SharesAsAllocated
<1>1. Init => Inv /\ LegsInv
  BY DEF Init, Inv, LegsInv, BarType, NoBar, InPosition
<1>2. Inv /\ LegsInv /\ [Next]_vars => (Inv /\ LegsInv)'
  BY InvStep, LegsStep
<1>3. LegsInv => SharesAsAllocated
  <2> SUFFICES ASSUME LegsInv PROVE SharesAsAllocated
    OBVIOUS
  <2>1. phase # "flat" => Accounted(legs)
    BY DEF LegsInv, InPosition, Booked
  <2>2. Accounted(legs)
    <3>1. CASE phase = "flat"
      <4>1. legs = <<>> /\ <<>> \in Seq(Leg) /\ Len(<<>>) = 0
        BY <3>1 DEF LegsInv
      <4> QED BY <4>1 DEF Accounted
    <3> QED BY <3>1, <2>1
  <2>3. phase = "closed" => Closed(legs) = deal.size
    BY DEF LegsInv
  <2> QED BY <2>2, <2>3 DEF SharesAsAllocated, Accounted, Allocated, Closed
<1> QED BY <1>1, <1>2, <1>3, PTL DEF Spec
=============================================================================
