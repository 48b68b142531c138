--------------------------- MODULE LiveRobotProofs ---------------------------
(***************************************************************************)
(* Theorems about the live robots, for every set of symbols and every      *)
(* limit on risk, positions, failed calls and trades of the person: the    *)
(* risk of the robot's own positions is capped, it never adds to one, and  *)
(* an undisturbed trade leaves nothing on the other side.                  *)
(* The first part is about sums of risks: the equations of the fold that   *)
(* defines RiskOf, and that the order of its elements does not matter.     *)
(***************************************************************************)
EXTENDS LiveRobot, FiniteSetTheorems, WellFoundedInduction, TLAPS

(* The recursive function in which the library's fold adds up the subsets  *)
(* of A.                                                                   *)
Pick(S) == CHOOSE p \in S : TRUE

IsSum(it, A) ==
    it = [S \in SUBSET A |->
             IF S = {} THEN 0 ELSE Pick(S).risk + it[S \ {Pick(S)}]]

Sums(A) == CHOOSE it : IsSum(it, A)

LEMMA RiskIsSum == ASSUME NEW A PROVE RiskOf(A) = Sums(A)[A]
BY DEF RiskOf, MapThenSumSet, MapThenFoldSet, Sums, IsSum, Pick

(* Among sets of subsets of a finite set there is a smallest one. *)
LEMMA Smallest ==
    ASSUME NEW A, IsFiniteSet(A), NEW T, T \subseteq SUBSET A, T # {}
    PROVE  \E m \in T : \A S \in T : S \subseteq m => S = m
<1>1. IsWellFoundedOn(StrictSubsetOrdering(A), SUBSET A)
  BY FS_StrictSubsetOrderingWellFounded, FS_FiniteSubsetsOfFinite
<1>2. PICK m \in T : \A S \in T : ~(<<S, m>> \in StrictSubsetOrdering(A))
  <2>1. \A R : IsWellFoundedOn(R, SUBSET A)
               => \E m \in T : \A S \in T : ~(<<S, m>> \in R)
    BY WFMin
  <2> QED
    BY <1>1, <2>1
<1>3. ASSUME NEW S \in T, S \subseteq m, S # m PROVE FALSE
  <2>1. <<S, m>> \in StrictSubsetOrdering(A)
    BY <1>3 DEF StrictSubsetOrdering
  <2> QED
    BY <1>2, <2>1
<1> QED
  BY <1>2, <1>3

LEMMA Picked == ASSUME NEW S, S # {} PROVE Pick(S) \in S
BY DEF Pick

(* Two such functions agree where both are defined. *)
LEMMA SumUnique ==
    ASSUME NEW B, IsFiniteSet(B), NEW A \in SUBSET B,
           NEW f, IsSum(f, A), NEW g, IsSum(g, B)
    PROVE  \A S \in SUBSET A : f[S] = g[S]
<1> DEFINE T == {S \in SUBSET A : f[S] # g[S]}
<1>1. SUFFICES ASSUME T # {} PROVE FALSE
  OBVIOUS
<1>2. PICK m \in T : \A S \in T : S \subseteq m => S = m
  <2>1. IsFiniteSet(A)
    BY FS_Subset
  <2> HIDE DEF T
  <2>2. T \subseteq SUBSET A
    BY DEF T
  <2> QED
    BY <1>1, <2>1, <2>2, Smallest
<1>3. m \in SUBSET A /\ m \in SUBSET B /\ f[m] # g[m]
  OBVIOUS
<1>4. f[m] = IF m = {} THEN 0 ELSE Pick(m).risk + f[m \ {Pick(m)}]
  BY <1>3 DEF IsSum
<1>5. g[m] = IF m = {} THEN 0 ELSE Pick(m).risk + g[m \ {Pick(m)}]
  BY <1>3 DEF IsSum
<1>6. m # {} => f[m \ {Pick(m)}] = g[m \ {Pick(m)}]
  <2>1. SUFFICES ASSUME m # {} PROVE f[m \ {Pick(m)}] = g[m \ {Pick(m)}]
    OBVIOUS
  <2>2. m \ {Pick(m)} # m /\ m \ {Pick(m)} \in SUBSET A
    BY <1>3, <2>1, Picked
  <2> QED
    BY <1>2, <2>2
<1> QED
  BY <1>3, <1>4, <1>5, <1>6

LEMMA SumExists ==
    ASSUME NEW A, IsFiniteSet(A)
    PROVE  IsSum(Sums(A), A)
<1> DEFINE T == {S \in SUBSET A : ~IsSum(Sums(S), S)}
<1>1. SUFFICES ASSUME T # {} PROVE FALSE
  OBVIOUS
<1>2. PICK m \in T : \A S \in T : S \subseteq m => S = m
  <2> HIDE DEF T
  <2>1. T \subseteq SUBSET A
    BY DEF T
  <2> QED
    BY <1>1, <2>1, Smallest
<1>3. m \in SUBSET A /\ ~IsSum(Sums(m), m)
  OBVIOUS
<1>4. \A S \in SUBSET m : S # m => IsSum(Sums(S), S)
  BY <1>2, <1>3
<1> DEFINE Less(S) == S \ {Pick(S)}
           g == [S \in SUBSET m |->
                    IF S = {} THEN 0 ELSE Pick(S).risk + Sums(Less(S))[Less(S)]]
<1>5. ASSUME NEW S \in SUBSET m, S # {}
      PROVE  Sums(Less(S))[Less(S)] = g[Less(S)]
  <2> DEFINE R == Less(S)
  <2>1. R \in SUBSET m /\ R # m /\ R \in SUBSET A
    BY <1>3, <1>5, Picked
  <2>2. IsSum(Sums(R), R)
    BY <1>4, <2>1
  <2>3. CASE R = {}
    BY <2>1, <2>2, <2>3 DEF IsSum
  <2>4. CASE R # {}
    <3>1. Less(R) \in SUBSET R /\ Less(R) # R /\ Less(R) \in SUBSET m /\ Less(R) # m
      BY <2>1, <2>4, Picked
    <3>2. IsSum(Sums(Less(R)), Less(R))
      BY <1>4, <3>1
    <3>3. IsFiniteSet(R)
      BY <2>1, FS_Subset
    <3>4. Sums(Less(R))[Less(R)] = Sums(R)[Less(R)]
      <4> HIDE DEF R, Less
      <4>1. \A U \in SUBSET Less(R) : Sums(Less(R))[U] = Sums(R)[U]
        BY <2>2, <3>1, <3>2, <3>3, SumUnique
      <4> QED
        BY <4>1
    <3>5. Sums(R)[R] = Pick(R).risk + Sums(R)[Less(R)]
      BY <2>2, <2>4 DEF IsSum
    <3>6. g[R] = Pick(R).risk + Sums(Less(R))[Less(R)]
      BY <2>1, <2>4
    <3> QED
      BY <3>4, <3>5, <3>6
  <2> QED
    BY <2>3, <2>4
<1>6. IsSum(g, m)
  <2> HIDE DEF g
  <2>1. g = [S \in SUBSET m |->
                    IF S = {} THEN 0 ELSE Pick(S).risk + Sums(Less(S))[Less(S)]]
    BY DEF g
  <2>2. \A S \in SUBSET m : S # {} => Sums(Less(S))[Less(S)] = g[S \ {Pick(S)}]
    BY <1>5
  <2> HIDE DEF Less
  <2>3. g = [S \in SUBSET m |-> IF S = {} THEN 0 ELSE Pick(S).risk + g[S \ {Pick(S)}]]
    BY <2>1, <2>2
  <2> QED
    BY <2>3 DEF IsSum
<1>7. IsSum(Sums(m), m)
  <2> HIDE DEF g
  <2> QED
    BY <1>6 DEF Sums
<1> QED
  BY <1>3, <1>7

Risks(S) == \A p \in S : p.risk \in Nat

LEMMA RiskOfPick ==
    ASSUME NEW A, IsFiniteSet(A)
    PROVE  /\ A = {} => RiskOf(A) = 0
           /\ A # {} => RiskOf(A) = Pick(A).risk + RiskOf(A \ {Pick(A)})
<1>1. RiskOf(A) = Sums(A)[A] /\ IsSum(Sums(A), A)
  BY RiskIsSum, SumExists
<1>2. Sums(A)[A] = IF A = {} THEN 0 ELSE Pick(A).risk + Sums(A)[A \ {Pick(A)}]
  BY <1>1 DEF IsSum
<1>3. A # {} => Sums(A)[A \ {Pick(A)}] = RiskOf(A \ {Pick(A)})
  <2> DEFINE R == A \ {Pick(A)}
  <2>1. R \in SUBSET A /\ IsFiniteSet(R)
    BY FS_Subset
  <2> HIDE DEF R
  <2>2. RiskOf(R) = Sums(R)[R] /\ IsSum(Sums(R), R)
    BY <2>1, RiskIsSum, SumExists
  <2>3. \A S \in SUBSET R : Sums(R)[S] = Sums(A)[S]
    BY <1>1, <2>1, <2>2, SumUnique
  <2> QED
    BY <2>2, <2>3 DEF R
<1> QED
  BY <1>1, <1>2, <1>3

LEMMA RiskType ==
    ASSUME NEW A, IsFiniteSet(A), Risks(A)
    PROVE  RiskOf(A) \in Nat
<1> DEFINE T == {S \in SUBSET A : RiskOf(S) \notin Nat}
<1>1. SUFFICES ASSUME T # {} PROVE FALSE
  OBVIOUS
<1>2. PICK m \in T : \A S \in T : S \subseteq m => S = m
  <2> HIDE DEF T
  <2>1. T \subseteq SUBSET A
    BY DEF T
  <2> QED
    BY <1>1, <2>1, Smallest
<1>3. m \in SUBSET A /\ RiskOf(m) \notin Nat /\ IsFiniteSet(m)
  BY FS_Subset
<1>4. m # {}
  BY <1>3, RiskOfPick
<1>5. Pick(m) \in m /\ Pick(m).risk \in Nat
  BY <1>3, <1>4, Picked DEF Risks
<1>6. RiskOf(m \ {Pick(m)}) \in Nat
  BY <1>2, <1>3, <1>5
<1> QED
  BY <1>3, <1>4, <1>5, <1>6, RiskOfPick

(* The sum does not depend on the order of its terms: any of them can be   *)
(* taken out first.                                                        *)
LEMMA RiskOfRest ==
    ASSUME NEW A, IsFiniteSet(A), Risks(A), NEW x \in A
    PROVE  RiskOf(A) = x.risk + RiskOf(A \ {x})
<1> DEFINE T == {S \in SUBSET A : \E p \in S : RiskOf(S) # p.risk + RiskOf(S \ {p})}
<1>1. SUFFICES ASSUME T # {} PROVE FALSE
  OBVIOUS
<1>2. PICK m \in T : \A S \in T : S \subseteq m => S = m
  <2> HIDE DEF T
  <2>1. T \subseteq SUBSET A
    BY DEF T
  <2> QED
    BY <1>1, <2>1, Smallest
<1>3. m \in SUBSET A /\ IsFiniteSet(m)
  BY FS_Subset
<1>4. PICK p \in m : RiskOf(m) # p.risk + RiskOf(m \ {p})
  BY <1>2
<1> DEFINE q == Pick(m)
           P == m \ {p}
           Q == m \ {q}
           R == m \ {p, q}
<1>5. q \in m
  BY <1>4, Picked
<1>6. RiskOf(m) = q.risk + RiskOf(Q)
  BY <1>3, <1>4, RiskOfPick
<1>7. p # q
  BY <1>4, <1>6
<1>8. P # m /\ Q # m /\ P \in SUBSET m /\ Q \in SUBSET m
      /\ P \in SUBSET A /\ Q \in SUBSET A
  BY <1>3, <1>4, <1>5
<1>9. RiskOf(P) = q.risk + RiskOf(P \ {q}) /\ RiskOf(Q) = p.risk + RiskOf(Q \ {p})
  <2>1. q \in P /\ p \in Q
    BY <1>4, <1>5, <1>7
  <2>2. P \notin T /\ Q \notin T
    BY <1>2, <1>8
  <2> HIDE DEF P, Q, q
  <2> QED
    BY <1>8, <2>1, <2>2
<1>10. P \ {q} = R /\ Q \ {p} = R
  OBVIOUS
<1>11. p.risk \in Nat /\ q.risk \in Nat
  BY <1>3, <1>4, <1>5 DEF Risks
<1>12. RiskOf(R) \in Nat
  <2>1. R \in SUBSET A /\ Risks(R)
    BY <1>3 DEF Risks
  <2>2. IsFiniteSet(R)
    BY <2>1, FS_Subset
  <2> QED
    BY <2>1, <2>2, RiskType
<1> HIDE DEF P, Q, R, q
<1>13. RiskOf(m) = q.risk + (p.risk + RiskOf(R)) /\ RiskOf(P) = q.risk + RiskOf(R)
  BY <1>6, <1>9, <1>10
<1>14. RiskOf(m) = p.risk + RiskOf(P)
  BY <1>11, <1>12, <1>13
<1> QED
  BY <1>4, <1>14 DEF P

(* One more position is at most one more risk. *)
LEMMA RiskOfMore ==
    ASSUME NEW A, IsFiniteSet(A), Risks(A), NEW x, x.risk \in Nat
    PROVE  RiskOf(A \cup {x}) <= RiskOf(A) + x.risk
<1>1. RiskOf(A) \in Nat
  BY RiskType
<1>2. CASE x \in A
  <2>1. A \cup {x} = A
    BY <1>2
  <2> QED
    BY <1>1, <2>1
<1>3. CASE x \notin A
  <2> DEFINE B == A \cup {x}
  <2>1. IsFiniteSet(B) /\ Risks(B) /\ x \in B /\ B \ {x} = A
    BY <1>3, FS_AddElement DEF Risks
  <2> HIDE DEF B
  <2>2. RiskOf(B) = x.risk + RiskOf(A)
    BY <2>1, RiskOfRest
  <2> QED
    BY <1>1, <2>2 DEF B
<1> QED
  BY <1>2, <1>3

(* Fewer positions are no more risk. *)
LEMMA RiskOfFewer ==
    ASSUME NEW A, IsFiniteSet(A), Risks(A), NEW B \in SUBSET A
    PROVE  RiskOf(B) <= RiskOf(A)
<1> DEFINE T == {S \in SUBSET A : B \subseteq S /\ ~(RiskOf(B) <= RiskOf(S))}
<1>1. SUFFICES ASSUME T # {} PROVE FALSE
  OBVIOUS
<1>2. PICK m \in T : \A S \in T : S \subseteq m => S = m
  <2> HIDE DEF T
  <2>1. T \subseteq SUBSET A
    BY DEF T
  <2> QED
    BY <1>1, <2>1, Smallest
<1>3. m \in SUBSET A /\ IsFiniteSet(m) /\ B \subseteq m /\ Risks(m)
  BY FS_Subset DEF Risks
<1>4. RiskOf(B) \in Nat /\ RiskOf(m) \in Nat
  <2>1. IsFiniteSet(B) /\ Risks(B)
    BY FS_Subset DEF Risks
  <2> QED
    BY <1>3, <2>1, RiskType
<1>5. B # m
  BY <1>2, <1>4
<1>6. PICK x \in m : x \notin B
  BY <1>3, <1>5
<1>7. RiskOf(m) = x.risk + RiskOf(m \ {x})
  BY <1>3, RiskOfRest
<1>8. RiskOf(B) <= RiskOf(m \ {x})
  BY <1>2, <1>3, <1>6
<1>9. x.risk \in Nat /\ RiskOf(m \ {x}) \in Nat
  <2>1. m \ {x} \in SUBSET m /\ Risks(m \ {x})
    BY <1>3 DEF Risks
  <2>2. IsFiniteSet(m \ {x})
    BY <1>3, <2>1, FS_Subset
  <2> QED
    BY <1>3, <1>6, <2>1, <2>2, RiskType DEF Risks
<1>10. ~(RiskOf(B) <= RiskOf(m))
  BY <1>2
<1> QED
  BY <1>4, <1>7, <1>8, <1>9, <1>10
-----------------------------------------------------------------------------
(* The positions of the terminal *)

Position == [id : 1 .. MaxOpen, sym : Symbols, side : Sides, risk : Nat,
             stop : BOOLEAN, own : BOOLEAN]

BookInv ==
    /\ book \subseteq Position /\ IsFiniteSet(book)
    /\ \A p, q \in book : p.id = q.id => p = q

OwnBook == {p \in book : p.own}

(* The risk of the robot's own positions is part of the risk of all. *)
LEMMA OwnRisk ==
    ASSUME NEW B, B \subseteq Position, IsFiniteSet(B)
    PROVE  LET S == {p \in B : p.own} IN
           /\ IsFiniteSet(S) /\ Risks(S) /\ Risks(B)
           /\ RiskOf(S) \in Nat /\ RiskOf(B) \in Nat
           /\ RiskOf(S) <= RiskOf(B)
<1> DEFINE S == {p \in B : p.own}
<1>1. Risks(B) /\ S \in SUBSET B
  BY DEF Position, Risks
<1>2. IsFiniteSet(S) /\ Risks(S)
  BY <1>1, FS_Subset DEF Risks
<1> HIDE DEF S
<1>3. RiskOf(S) \in Nat /\ RiskOf(B) \in Nat /\ RiskOf(S) <= RiskOf(B)
  BY <1>1, <1>2, RiskType, RiskOfFewer
<1> QED
  BY <1>1, <1>2, <1>3 DEF S

(* While there is room there is an identifier that no position has. *)
LEMMA FreshIdIsFree ==
    ASSUME BookInv, Room
    PROVE  FreshId \in 1 .. MaxOpen /\ \A p \in book : p.id # FreshId
<1> DEFINE ids == {p.id : p \in book}
           free == (1 .. MaxOpen) \ ids
<1>1. MaxOpen \in Nat \ {0}
  BY LiveAssumption
<1>2. IsFiniteSet(ids) /\ Cardinality(ids) <= Cardinality(book)
  <2> DEFINE f == [p \in book |-> p.id]
  <2>1. f \in Surjection(book, ids)
    BY DEF Surjection
  <2> HIDE DEF f, ids
  <2> QED
    BY <2>1, FS_Surjection DEF BookInv
<1>3. free # {}
  <2>1. SUFFICES ASSUME free = {} PROVE FALSE
    OBVIOUS
  <2>2. 1 .. MaxOpen \in SUBSET ids
    BY <2>1
  <2>3. Cardinality(1 .. MaxOpen) = MaxOpen
    BY <1>1, FS_Interval
  <2>4. Cardinality(1 .. MaxOpen) <= Cardinality(ids)
    BY <1>2, <2>2, FS_Subset
  <2>5. Cardinality(book) \in Nat /\ Cardinality(ids) \in Nat
    BY <1>2, FS_CardinalityType DEF BookInv
  <2> QED
    BY <1>1, <1>2, <2>3, <2>4, <2>5 DEF Room
<1>4. \E n \in free : \A k \in free : n <= k
  <2> DEFINE T == {1 .. n : n \in free}
  <2>1. T \subseteq SUBSET (1 .. MaxOpen) /\ T # {}
    BY <1>1, <1>3
  <2>2. IsFiniteSet(1 .. MaxOpen)
    BY <1>1, FS_Interval
  <2>3. PICK m \in T : \A S \in T : S \subseteq m => S = m
    <3> DEFINE slots == 1 .. MaxOpen
    <3>1. T \subseteq SUBSET slots /\ T # {} /\ IsFiniteSet(slots)
      BY <2>1, <2>2
    <3> HIDE DEF T, slots
    <3> QED
      BY <3>1, Smallest
  <2>4. PICK n \in free : m = 1 .. n
    BY <2>3
  <2>5. ASSUME NEW k \in free, ~(n <= k) PROVE FALSE
    <3>1. k \in Nat /\ n \in Nat /\ n \in 1 .. n /\ n \notin 1 .. k
      BY <1>1, <2>5
    <3>2. 1 .. k \in T /\ 1 .. k \subseteq 1 .. n
      BY <1>1, <2>5, <3>1
    <3> QED
      BY <2>3, <2>4, <3>1, <3>2
  <2> QED
    BY <2>4, <2>5
<1>5. FreshId \in free
  <2>1. FreshId = Min(free)
    BY DEF FreshId
  <2> HIDE DEF free
  <2> QED
    BY <1>4, <2>1 DEF Min
<1> QED
  BY <1>5

(* A position is opened. *)
LEMMA Opened ==
    ASSUME BookInv, Room, NEW s \in Symbols, NEW side \in Sides, NEW r \in Nat,
           NEW stop \in BOOLEAN, NEW own \in BOOLEAN,
           book' = Filled(s, side, r, stop, own)
    PROVE  \E p \in Position :
              /\ p.sym = s /\ p.side = side /\ p.risk = r /\ (p.own <=> own)
              /\ book' = book \cup {p} /\ BookInv'
<1> DEFINE p == [id |-> FreshId, sym |-> s, side |-> side, risk |-> r,
                 stop |-> stop, own |-> own]
<1>1. FreshId \in 1 .. MaxOpen /\ \A q \in book : q.id # FreshId
  BY FreshIdIsFree
<1>2. p \in Position /\ p.sym = s /\ p.side = side /\ p.risk = r /\ (p.own <=> own)
      /\ p.id = FreshId
  BY <1>1 DEF Position
<1>3. book' = book \cup {p}
  BY DEF Filled
<1> HIDE DEF p
<1>4. BookInv'
  BY <1>1, <1>2, <1>3, FS_AddElement DEF BookInv
<1> QED
  BY <1>2, <1>3, <1>4

(* A position loses its stop. *)
LEMMA StopTaken ==
    ASSUME BookInv, NEW p \in book,
           book' = (book \ {p}) \cup {[p EXCEPT !.stop = FALSE]}
    PROVE  \E q \in Position :
              /\ q.sym = p.sym /\ q.side = p.side /\ q.risk = p.risk /\ q.own = p.own
              /\ book' = (book \ {p}) \cup {q} /\ BookInv'
<1> DEFINE q == [p EXCEPT !.stop = FALSE]
<1>1. p \in Position
  BY DEF BookInv
<1>2. q \in Position /\ q.sym = p.sym /\ q.side = p.side /\ q.risk = p.risk
      /\ q.own = p.own /\ q.id = p.id
  BY <1>1 DEF Position
<1>3. book' = (book \ {p}) \cup {q}
  OBVIOUS
<1> HIDE DEF q
<1>4. IsFiniteSet(book \ {p})
  BY FS_RemoveElement DEF BookInv
<1>5. IsFiniteSet(book')
  BY <1>3, <1>4, FS_AddElement
<1>6. BookInv'
  BY <1>2, <1>3, <1>5 DEF BookInv
<1> QED
  BY <1>2, <1>3, <1>6

(* Positions are closed. *)
LEMMA Closed ==
    ASSUME BookInv, book' \subseteq book
    PROVE  BookInv' /\ RiskOf(OwnBook') <= RiskOf(OwnBook)
<1>1. BookInv'
  BY FS_Subset DEF BookInv
<1>2. OwnBook' \in SUBSET OwnBook
  BY DEF OwnBook
<1>3. IsFiniteSet(OwnBook) /\ Risks(OwnBook)
  BY OwnRisk DEF BookInv, OwnBook
<1> QED
  BY <1>1, <1>2, <1>3, RiskOfFewer

(* Nothing the person does, and no stop, adds to the robot's own risk. *)
LEMMA Disturbed ==
    ASSUME BookInv, StopHit \/ Manual
    PROVE  BookInv' /\ RiskOf(OwnBook') <= RiskOf(OwnBook)
<1>0. RiskOf(OwnBook) \in Nat /\ IsFiniteSet(OwnBook) /\ Risks(OwnBook)
  BY OwnRisk DEF BookInv, OwnBook
<1>1. CASE StopHit
  <2>1. book' \subseteq book
    BY <1>1 DEF StopHit
  <2> QED
    BY <2>1, Closed
<1>2. CASE Manual /\ Room /\ \E s \in Symbols, side \in Sides, stop \in BOOLEAN :
                book' = Filled(s, side, 1, stop, FALSE)
  <2>1. PICK s \in Symbols, side \in Sides, stop \in BOOLEAN :
               book' = Filled(s, side, 1, stop, FALSE)
    BY <1>2
  <2>2. PICK p \in Position : ~p.own /\ book' = book \cup {p} /\ BookInv'
    <3>1. 1 \in Nat /\ FALSE \in BOOLEAN
      OBVIOUS
    <3> QED
      BY <1>2, <2>1, <3>1, Opened
  <2>3. OwnBook' = OwnBook
    BY <2>2 DEF OwnBook
  <2> QED
    BY <1>0, <2>2, <2>3
<1>3. CASE \E p \in book : book' = (book \ {p}) \cup {[p EXCEPT !.stop = FALSE]}
  <2>1. PICK p \in book : book' = (book \ {p}) \cup {[p EXCEPT !.stop = FALSE]}
    BY <1>3
  <2>2. PICK q \in Position :
             /\ q.risk = p.risk /\ q.own = p.own
             /\ book' = (book \ {p}) \cup {q} /\ BookInv'
    BY <2>1, StopTaken
  <2>3. CASE ~p.own
    <3>1. OwnBook' = OwnBook
      BY <2>2, <2>3 DEF OwnBook
    <3> QED
      BY <1>0, <2>2, <3>1
  <2>4. CASE p.own
    <3> DEFINE rest == OwnBook \ {p}
    <3>1. p \in OwnBook /\ OwnBook' = rest \cup {q}
      BY <2>2, <2>4 DEF OwnBook
    <3>2. IsFiniteSet(rest) /\ Risks(rest) /\ p.risk \in Nat
      BY <1>0, <3>1, FS_RemoveElement DEF Risks
    <3>3. RiskOf(OwnBook) = p.risk + RiskOf(rest)
      BY <1>0, <3>1, RiskOfRest
    <3> HIDE DEF rest
    <3>4. RiskOf(rest \cup {q}) <= RiskOf(rest) + p.risk
      BY <2>2, <3>2, RiskOfMore
    <3>5. RiskOf(rest) \in Nat
      BY <3>2, RiskType
    <3>6. RiskOf(OwnBook') = RiskOf(rest \cup {q})
      BY <3>1
    <3>7. RiskOf(rest \cup {q}) <= RiskOf(OwnBook)
      BY <3>2, <3>3, <3>4, <3>5
    <3> QED
      BY <2>2, <3>6, <3>7
  <2> QED
    BY <2>3, <2>4
<1> QED
  BY <1>1, <1>2, <1>3 DEF Manual
-----------------------------------------------------------------------------
(* The inductive invariant *)

Calls == {"signal", "look", "check", "send", "opposite", "close"}

CallInv ==
    /\ robot \in Robots
    /\ pc \in Calls /\ todo \subseteq Symbols /\ sym \in Symbols
    /\ signal \in Sides \cup {"NONE"}
    /\ pc # "signal" => signal \in Sides
    /\ risk \in Nat /\ faults \in Nat /\ manual \in Nat
    /\ blind \in BOOLEAN /\ clean \in BOOLEAN /\ refused \in BOOLEAN

TypeInv == BookInv /\ CallInv

(* An order that was admitted still fits in the limit when it is sent: all *)
(* that has come between are stops and positions of the person.            *)
CapInv ==
    robot # "crossover" =>
        /\ RiskOf(OwnBook) <= MaxTotalRisk
        /\ pc = "send" => RiskOf(OwnBook) + risk <= MaxTotalRisk

(* Of a side there is one position of the robot, and none while it is      *)
(* about to open one.                                                      *)
AlikeInv ==
    ~blind =>
        /\ \A p, q \in OwnBook : p.sym = q.sym /\ p.side = q.side => p = q
        /\ pc \in {"check", "send"} =>
              \A p \in OwnBook : ~(p.sym = sym /\ p.side = signal)

IInv == TypeInv /\ CapInv /\ AlikeInv /\ OppositeClosed

LEMMA InitInv == Init => IInv
<1> SUFFICES ASSUME Init PROVE IInv
  OBVIOUS
<1>1. BookInv
  BY FS_EmptySet DEF Init, BookInv
<1>2. TypeInv
  BY <1>1, LiveAssumption DEF Init, TypeInv, CallInv, Calls
<1>3. OwnBook = {}
  BY DEF Init, OwnBook
<1>4. CapInv
  <2>1. RiskOf({}) = 0
    BY FS_EmptySet, RiskOfPick
  <2> QED
    BY <1>3, <2>1, LiveAssumption DEF Init, CapInv
<1>5. AlikeInv
  BY <1>3 DEF AlikeInv
<1>6. OppositeClosed
  BY DEF Init, OppositeClosed
<1> QED
  BY <1>2, <1>4, <1>5, <1>6 DEF IInv

(* What one step does to the book. *)
Sent == (Fill \/ NoAnswer) /\ OrderFills
Closing == Close \/ CloseFails
Watching ==
    \/ Signal \/ Look \/ LookBlind \/ Admit \/ Refuse \/ RefuseBlind \/ Reject
    \/ LookOpposite \/ OppositeBlind \/ (NoAnswer /\ UNCHANGED book)

LEMMA WatchingKeeps == Watching => book' = book
BY DEF Watching, Signal, Look, LookBlind, Admit, Refuse, RefuseBlind, Reject,
       LookOpposite, OppositeBlind, NoAnswer

LEMMA ClosingCloses == Closing => book' \subseteq book
BY DEF Closing, Close, CloseFails

(* The order opens one position, of the symbol and the signal it was for,  *)
(* and of the risk it was admitted with.                                   *)
LEMMA SentOpens ==
    ASSUME TypeInv, Sent
    PROVE  \E p \in Position :
              /\ p.sym = sym /\ p.side = signal /\ p.own
              /\ robot # "crossover" => p.risk = risk
              /\ book' = book \cup {p} /\ BookInv'
<1>1. pc = "send" /\ Room
  BY DEF Sent, Fill, NoAnswer, OrderFills
<1>2. PICK r \in Nat, stop \in BOOLEAN, own \in BOOLEAN :
           /\ robot # "crossover" => r = risk
           /\ own
           /\ book' = Filled(sym, signal, r, stop, own)
  BY DEF Sent, OrderFills, TypeInv, CallInv
<1>3. PICK s \in Symbols, side \in Sides : s = sym /\ side = signal
  BY <1>1 DEF TypeInv, CallInv
<1>4. book' = Filled(s, side, r, stop, own) /\ BookInv /\ Room
  BY <1>1, <1>2, <1>3 DEF TypeInv
<1>5. PICK p \in Position :
           /\ p.sym = s /\ p.side = side /\ p.risk = r /\ (p.own <=> own)
           /\ book' = book \cup {p} /\ BookInv'
  BY <1>4, Opened
<1> QED
  BY <1>2, <1>3, <1>5

LEMMA NextBook ==
    ASSUME Next
    PROVE  Watching \/ Sent \/ Closing \/ StopHit \/ Manual
BY DEF Next, Watching, Sent, Closing, Fill, NoAnswer

LEMMA TypeStep ==
    ASSUME TypeInv, Next
    PROVE  TypeInv'
<1>1. BookInv'
  <2>1. CASE Watching
    BY <2>1, WatchingKeeps DEF TypeInv, BookInv
  <2>2. CASE Sent
    BY <2>2, SentOpens
  <2>3. CASE Closing
    BY <2>3, ClosingCloses, Closed DEF TypeInv
  <2>4. CASE StopHit \/ Manual
    BY <2>4, Disturbed DEF TypeInv
  <2> QED
    BY <2>1, <2>2, <2>3, <2>4, NextBook
<1>2. CallInv
  BY DEF TypeInv
<1>3. Fault => faults' \in Nat /\ clean' \in BOOLEAN
  <2>1. Fault => clean' = FALSE
    BY DEF Fault
  <2>2. Fault => clean' \in BOOLEAN
    BY <2>1, Zenon
  <2>3. Fault => faults' \in Nat
    BY <1>2 DEF Fault, CallInv
  <2> QED
    BY <2>2, <2>3
<1>4. CallInv'
  <2>1. CASE Signal
    <3>1. pc' \in {"signal", "look"} /\ (pc' # "signal" => signal' \in Sides)
      BY <1>2, <2>1 DEF Signal
    <3>2. sym' \in Symbols /\ todo' \subseteq Symbols
      BY <1>2, <2>1, LiveAssumption DEF Signal, CallInv
    <3> QED
      BY <1>2, <2>1, <3>1, <3>2 DEF Signal, CallInv, Calls
  <2>2. CASE Admit
    <3>1. RiskPerSymbol \in Nat /\ DefaultRisk \in Nat
      BY LiveAssumption
    <3>2. Sizes \subseteq Nat
      BY <3>1 DEF Sizes
    <3> HIDE DEF Sizes
    <3> QED
      BY <1>2, <2>2, <3>2 DEF Admit, NoFault, CallInv, Calls
  <2>3. CASE Look
    BY <1>2, <2>3 DEF Look, Wanted, NoFault, CallInv, Calls
  <2>4. CASE LookBlind
    BY <1>2, <1>3, <2>4 DEF LookBlind, Wanted, CallInv, Calls
  <2>5. CASE Refuse
    BY <1>2, <2>5 DEF Refuse, AfterRefusal, NoFault, CallInv, Calls
  <2>6. CASE RefuseBlind
    BY <1>2, <1>3, <2>6 DEF RefuseBlind, AfterRefusal, CallInv, Calls
  <2>7. CASE Fill
    BY <1>2, <2>7 DEF Fill, NoFault, CallInv, Calls
  <2>8. CASE Reject
    BY <1>2, <1>3, <2>8 DEF Reject, CallInv, Calls
  <2>9. CASE NoAnswer
    BY <1>2, <1>3, <2>9 DEF NoAnswer, AfterRefusal, CallInv, Calls
  <2>10. CASE LookOpposite
    BY <1>2, <2>10 DEF LookOpposite, NoFault, CallInv, Calls
  <2>11. CASE OppositeBlind
    BY <1>2, <1>3, <2>11 DEF OppositeBlind, CallInv, Calls
  <2>12. CASE Close
    BY <1>2, <2>12 DEF Close, NoFault, CallInv, Calls
  <2>13. CASE CloseFails
    BY <1>2, <1>3, <2>13 DEF CloseFails, CallInv, Calls
  <2>14. CASE StopHit
    BY <1>2, <2>14 DEF StopHit, CallInv, Calls
  <2>15. CASE Manual
    <3>1. clean' = FALSE
      BY <2>15 DEF Manual
    <3>2. clean' \in BOOLEAN
      BY <3>1, Zenon
    <3>3. manual' \in Nat
      BY <1>2, <2>15 DEF Manual, CallInv
    <3>4. UNCHANGED <<robot, pc, todo, sym, signal, risk, faults, blind, refused>>
      BY <2>15 DEF Manual
    <3> QED
      BY <1>2, <3>2, <3>3, <3>4 DEF CallInv, Calls
  <2> QED
    BY <2>1, <2>2, <2>3, <2>4, <2>5, <2>6, <2>7, <2>8,
       <2>9, <2>10, <2>11, <2>12, <2>13, <2>14, <2>15 DEF Next
<1> QED
  BY <1>1, <1>4 DEF TypeInv

(* The state an order is sent in was entered by its admission, which       *)
(* counted the risk of every position.                                     *)
LEMMA SendAfterCheck ==
    ASSUME TypeInv, Next, robot # "crossover", pc' = "send"
    PROVE  Admit \/ (pc = "send" /\ risk' = risk /\ (StopHit \/ Manual))
BY DEF TypeInv, CallInv, Calls, Next, Signal, Look, LookBlind, Refuse, RefuseBlind, Fill, Reject,
       NoAnswer, LookOpposite, OppositeBlind, Close, CloseFails, StopHit, Manual,
       Wanted, AfterRefusal

LEMMA CapStep ==
    ASSUME TypeInv, CapInv, Next
    PROVE  CapInv'
<1> SUFFICES ASSUME robot # "crossover" PROVE CapInv'
  BY DEF CapInv, Next, Signal, Look, LookBlind, Admit, Refuse, RefuseBlind, Fill,
         Reject, NoAnswer, LookOpposite, OppositeBlind, Close, CloseFails, StopHit, Manual
<1>1. BookInv /\ BookInv' /\ risk \in Nat /\ risk' \in Nat /\ MaxTotalRisk \in Nat
  BY TypeStep, LiveAssumption DEF TypeInv, CallInv
<1>2. RiskOf(OwnBook) \in Nat /\ RiskOf(OwnBook) <= RiskOf(book)
      /\ RiskOf(book) \in Nat /\ IsFiniteSet(OwnBook) /\ Risks(OwnBook)
  BY <1>1, OwnRisk DEF BookInv, OwnBook
<1>3. RiskOf(OwnBook') \in Nat
  <2>1. book' \subseteq Position /\ IsFiniteSet(book')
    BY <1>1 DEF BookInv
  <2>2. OwnBook' = {p \in book' : p.own}
    BY DEF OwnBook
  <2> QED
    BY <2>1, <2>2, OwnRisk
<1>4. ~Sent => RiskOf(OwnBook') <= RiskOf(OwnBook)
  <2>1. CASE Watching
    <3>1. OwnBook' = OwnBook
      BY <2>1, WatchingKeeps DEF OwnBook
    <3> QED
      BY <1>2, <3>1
  <2>2. CASE Closing
    BY <1>1, <2>2, ClosingCloses, Closed
  <2>3. CASE StopHit \/ Manual
    BY <1>1, <2>3, Disturbed
  <2> QED
    BY <2>1, <2>2, <2>3, NextBook
<1>5. Sent => RiskOf(OwnBook') <= RiskOf(OwnBook) + risk
  <2>1. SUFFICES ASSUME Sent PROVE RiskOf(OwnBook') <= RiskOf(OwnBook) + risk
    OBVIOUS
  <2>2. PICK p \in Position :
             /\ p.own /\ p.risk = risk /\ book' = book \cup {p}
    BY <2>1, SentOpens
  <2>3. OwnBook' = OwnBook \cup {p}
    BY <2>2 DEF OwnBook
  <2>4. p.risk \in Nat
    BY <1>1, <2>2
  <2>5. RiskOf(OwnBook \cup {p}) <= RiskOf(OwnBook) + p.risk
    BY <1>2, <2>4, RiskOfMore
  <2> QED
    BY <2>2, <2>3, <2>5
<1>6. RiskOf(OwnBook') <= MaxTotalRisk
  <2>1. Sent => pc = "send"
    BY DEF Sent, Fill, NoAnswer
  <2> QED
    BY <1>1, <1>2, <1>3, <1>4, <1>5, <2>1 DEF CapInv
<1>7. pc' = "send" => RiskOf(OwnBook') + risk' <= MaxTotalRisk
  <2>1. SUFFICES ASSUME pc' = "send" PROVE RiskOf(OwnBook') + risk' <= MaxTotalRisk
    OBVIOUS
  <2>2. CASE Admit
    <3>1. RiskOf(book) + risk' <= MaxTotalRisk /\ book' = book
      BY <2>2 DEF Admit, Allowed
    <3>2. OwnBook' = OwnBook
      BY <3>1 DEF OwnBook
    <3> QED
      BY <1>1, <1>2, <3>1, <3>2
  <2>3. CASE pc = "send" /\ risk' = risk /\ (StopHit \/ Manual)
    <3>1. RiskOf(OwnBook') <= RiskOf(OwnBook)
      BY <1>1, <2>3, Disturbed
    <3> QED
      BY <1>1, <1>2, <1>3, <2>3, <3>1 DEF CapInv
  <2> QED
    BY <2>1, <2>2, <2>3, SendAfterCheck
<1> QED
  BY <1>6, <1>7 DEF CapInv

LEMMA AlikeStep ==
    ASSUME TypeInv, AlikeInv, Next
    PROVE  AlikeInv'
<1> SUFFICES ASSUME ~blind' PROVE AlikeInv'
  BY DEF AlikeInv
<1>1. ~blind
  BY DEF TypeInv, CallInv, Next, Signal, Look, LookBlind, Admit, Refuse, RefuseBlind, Fill,
         Reject, NoAnswer, LookOpposite, OppositeBlind, Close, CloseFails, StopHit, Manual
<1>2. /\ \A p, q \in OwnBook : p.sym = q.sym /\ p.side = q.side => p = q
      /\ pc \in {"check", "send"} =>
            \A p \in OwnBook : ~(p.sym = sym /\ p.side = signal)
  BY <1>1 DEF AlikeInv
<1>3. CASE Sent
  <2>1. PICK p \in Position :
             /\ p.sym = sym /\ p.side = signal /\ p.own /\ book' = book \cup {p}
    BY <1>3, SentOpens
  <2>2. OwnBook' = OwnBook \cup {p}
    BY <2>1 DEF OwnBook
  <2>3. pc = "send" /\ pc' \notin {"check", "send"}
    BY <1>3 DEF Sent, Fill, NoAnswer, AfterRefusal
  <2> QED
    BY <1>2, <2>1, <2>2, <2>3 DEF AlikeInv
<1>4. CASE Watching
  <2>1. OwnBook' = OwnBook
    BY <1>4, WatchingKeeps DEF OwnBook
  <2>2. pc' \in {"check", "send"} =>
           /\ sym' = sym /\ signal' = signal
           /\ pc \in {"check", "send"} \/ Held(sym, signal) = {}
    BY <1>1, <1>4
       DEF TypeInv, CallInv, Watching, Signal, Look, LookBlind, Admit, Refuse, RefuseBlind,
           Reject, LookOpposite, OppositeBlind, NoAnswer, AfterRefusal
  <2>3. Held(sym, signal) = {} => \A p \in OwnBook : ~(p.sym = sym /\ p.side = signal)
    BY DEF Held, OwnBook
  <2> QED
    BY <1>2, <2>1, <2>2, <2>3 DEF AlikeInv
<1>5. CASE Closing \/ StopHit
  <2>1. book' \subseteq book
    BY <1>5, ClosingCloses DEF StopHit
  <2>2. OwnBook' \subseteq OwnBook
    BY <2>1 DEF OwnBook
  <2>3. pc' \in {"check", "send"} => pc' = pc /\ sym' = sym /\ signal' = signal
    BY <1>5 DEF Closing, Close, CloseFails, StopHit
  <2> QED
    BY <1>2, <2>2, <2>3 DEF AlikeInv
<1>6. CASE Manual
  <2>1. pc' = pc /\ sym' = sym /\ signal' = signal
    BY <1>6 DEF Manual
  <2>2. CASE Room /\ \E s \in Symbols, side \in Sides, stop \in BOOLEAN :
                book' = Filled(s, side, 1, stop, FALSE)
    <3>1. OwnBook' \subseteq OwnBook
      BY <2>2 DEF OwnBook, Filled
    <3> QED
      BY <1>2, <2>1, <3>1 DEF AlikeInv
  <2>3. CASE \E p \in book : book' = (book \ {p}) \cup {[p EXCEPT !.stop = FALSE]}
    <3>1. PICK p \in book : book' = (book \ {p}) \cup {[p EXCEPT !.stop = FALSE]}
      BY <2>3
    <3>2. PICK q \in Position :
               /\ q.sym = p.sym /\ q.side = p.side /\ q.own = p.own
               /\ book' = (book \ {p}) \cup {q}
      BY <3>1, StopTaken DEF TypeInv
    <3>3. \A x \in OwnBook' : x \in OwnBook \ {p} \/ (x = q /\ p \in OwnBook)
      BY <3>2 DEF OwnBook
    <3> QED
      BY <1>2, <2>1, <3>2, <3>3 DEF AlikeInv
  <2> QED
    BY <1>6, <2>2, <2>3 DEF Manual
<1> QED
  BY <1>3, <1>4, <1>5, <1>6, NextBook

LEMMA OppositeStep ==
    ASSUME TypeInv, OppositeClosed, Next
    PROVE  OppositeClosed'
<1> DEFINE Rest == Held(sym, Opp(signal)) = {} \/ (robot = "multi" /\ refused)
<1> SUFFICES ASSUME pc' = "signal", signal' # "NONE", clean', robot' # "crossover"
             PROVE  Rest'
  BY DEF OppositeClosed
<1>1. /\ ~Signal /\ ~LookBlind /\ ~RefuseBlind /\ ~Reject /\ ~NoAnswer
      /\ ~OppositeBlind /\ ~CloseFails /\ ~Manual /\ ~Look /\ ~Admit /\ ~Fill
  BY DEF Signal, Look, LookBlind, RefuseBlind, Reject, NoAnswer, OppositeBlind,
         CloseFails, Manual, Fault, Admit, Fill, Wanted
<1>2. CASE Refuse
  BY <1>2, LiveAssumption DEF Refuse, AfterRefusal, TypeInv, CallInv
<1>3. CASE LookOpposite
  BY <1>3 DEF LookOpposite, Held
<1>4. CASE Close
  BY <1>4 DEF Close, ClosedSide, Held
<1>5. CASE StopHit
  <2>1. Rest
    BY <1>5 DEF StopHit, OppositeClosed
  <2> QED
    BY <1>5, <2>1 DEF StopHit, Held
<1> QED
  BY <1>1, <1>2, <1>3, <1>4, <1>5 DEF Next

LEMMA Inductive == Spec => []IInv
<1>1. Init => IInv
  BY InitInv
<1>2. IInv /\ [Next]_vars => IInv'
  <2>1. CASE Next
    BY <2>1, TypeStep, CapStep, AlikeStep, OppositeStep DEF IInv
  <2>2. CASE UNCHANGED vars
    BY <2>2 DEF vars, IInv, TypeInv, CallInv, BookInv, CapInv, AlikeInv, OwnBook,
                OppositeClosed, Held
  <2> QED
    BY <2>1, <2>2
<1> QED
  BY <1>1, <1>2, PTL DEF Spec
-----------------------------------------------------------------------------
(* The theorems *)

(* The state of a robot and its terminal: every position has an identifier *)
(* of its own.                                                             *)
THEOREM TypeCorrect == Spec => []TypeInv
<1>1. IInv => TypeInv
  BY DEF IInv
<1> QED
  BY <1>1, Inductive, PTL

(* The risk manager's total limit holds for the robot's own positions,     *)
(* though the check and the order are two calls and the account is shared. *)
THEOREM RiskIsCapped == Spec => []OwnRiskCapped
<1>1. IInv => OwnRiskCapped
  BY DEF IInv, CapInv, OwnRiskCapped, OwnBook
<1> QED
  BY <1>1, Inductive, PTL

(* No query that fails, no second position of a side. *)
THEOREM OnePerSide == Spec => []OneAWay
<1>1. IInv => OneAWay
  <2>1. SUFFICES ASSUME IInv, ~blind, NEW s \in Symbols, NEW side \in Sides
                 PROVE  Cardinality(Own(s, side)) <= 1
    BY DEF OneAWay
  <2> DEFINE S == Own(s, side)
  <2>2. \A p, q \in S : p = q
    BY <2>1 DEF IInv, AlikeInv, Own, Held, OwnBook
  <2>3. S = {} \/ \E p : S = {p}
    BY <2>2
  <2> HIDE DEF S
  <2>4. Cardinality(S) \in {0, 1}
    BY <2>3, FS_EmptySet, FS_Singleton
  <2> QED
    BY <2>4 DEF S
<1> QED
  BY <1>1, Inductive, PTL

(* After an undisturbed trade nothing points the other way. *)
THEOREM NothingOpposite == Spec => []OppositeClosed
<1>1. IInv => OppositeClosed
  BY DEF IInv
<1> QED
  BY <1>1, Inductive, PTL
=============================================================================
