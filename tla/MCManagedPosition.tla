------------------------- MODULE MCManagedPosition -------------------------
(***************************************************************************)
(* A small frame for ManagedPosition: a long and a short entry that mirror *)
(* each other, with a risk of two points.                                  *)
(***************************************************************************)
EXTENDS ManagedPosition

Swing(low, high) == [low |-> low, high |-> high]

Long  == [dir |-> 1, stop |-> -2, menu |-> <<2, 3, 4>>, swing |-> Swing(-3, 0)]
Short == [dir |-> -1, stop |-> 2, menu |-> <<-2, -3, -4>>, swing |-> Swing(0, 3)]
BothSides == {Long, Short}

Shape(low, high, close) == [low |-> low, high |-> high, close |-> close]

Rising ==
    {Shape(-1, 1, 0), Shape(0, 2, 1), Shape(1, 3, 2), Shape(-3, 0, -2), Shape(-2, 4, 1)}

Mirror(shapes) == {Shape(-b.high, -b.low, -b.close) : b \in shapes}

BothShapes == Rising \cup Mirror(Rising)

SomeSwings == {Swing(0, 3), Swing(-3, 0), Swing(-4, 4)}

SomeSplits == {<<6, 2, 1>>}

Default       == [mode |-> "fixed", explicit |-> FALSE]
Explicit(mode) == [mode |-> mode, explicit |-> TRUE]
SomeSlModes   == {Default, Explicit("fixed"), Explicit("trailing")}
SomeTpModes   == {Default, Explicit("breakeven"), Explicit("trailing")}

(* No share is halfway between two sizes, where rounding depends on the    *)
(* binary digits of a fraction.                                            *)
ASSUME NoTies ==
    \A w \in SomeSplits, size \in Sizes, used \in SUBSET (1 .. 3) :
        \A i \in used :
            Cardinality(used) > 1 /\ 3 \in used =>
                (2 * w[i] * size) % (2 * FoldSet(LAMBDA j, sum : w[j] + sum, 0, used))
                    # FoldSet(LAMBDA j, sum : w[j] + sum, 0, used)
=============================================================================
