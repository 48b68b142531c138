-------------------------------- MODULE Po3 ---------------------------------
(***************************************************************************)
(* features: the causal machines that turn bars into the phases of a       *)
(* setup.  A bar may sweep a known level; three bars may leave a gap; a    *)
(* close through a gap inverts it into a zone; sweeps, closes and inverted *)
(* gaps drive manipulation and distribution.  The side of a setup is 1 for *)
(* long (a swept low, a bullish zone) and -1 for short.  A value that may  *)
(* be missing is a set of at most one element; a reach of 0 is a missing   *)
(* ATR.  Every bar is taken to have its Asian levels; ages, distances and  *)
(* the candle of origin, which only describe a row, are left out, and so   *)
(* are the pivots of the higher timeframes: which of them are confirmed,   *)
(* and which gaps are inverted there, is left open.                        *)
(***************************************************************************)
EXTENDS Integers, Sequences, FiniteSets, FiniteSetsExt

CONSTANTS
    BarShapes,    \* [low, high, close, reach]: reach is the deepest sweep, in ATRs
    References,   \* [dir, tf, level]: pivots that a higher timeframe may confirm
    Higher,       \* [dir, back, low, high]: gaps that one may invert, back bars old
    Variants,     \* [phases, opposing, threshold, bars]: the modes, the close-
                  \* through threshold in % and the bound on the bars
    SwingPeriod, MaxRefs,
    GapAge, ZoneAge, SetupAge,  \* 50 bars each in the code
    MaxNews       \* bound on the references and higher gaps that come

Dirs == {1, -1}

ASSUME Po3Assumption ==
    /\ \A b \in BarShapes : {b.low, b.high, b.close} \subseteq Int /\ b.reach \in Nat
                            /\ b.low <= b.close /\ b.close <= b.high
    /\ References \subseteq [dir : Dirs, tf : Nat, level : Int]
    /\ \A h \in Higher : h.dir \in Dirs /\ h.back \in Nat
                         /\ {h.low, h.high} \subseteq Int /\ h.low < h.high
    /\ \A v \in Variants : v.phases \in {"legacy", "revised"} /\ v.opposing \in BOOLEAN
                           /\ {v.threshold, v.bars} \subseteq Nat
    /\ {SwingPeriod, MaxRefs, ZoneAge, GapAge} \subseteq Nat \ {0}
    /\ {SetupAge, MaxNews} \subseteq Nat

VARIABLES
    variant,
    log,     \* the rows so far: bars and what the machines said of them
    swing,   \* the last accepted swings
    refs,    \* the pivots of higher timeframes that have not been crossed
    gaps, zone, setup,
    news     \* how many references and higher gaps have come

vars == <<variant, log, swing, refs, gaps, zone, setup, news>>

-----------------------------------------------------------------------------
(* Prices *)

(* The extreme of a bar that attacks lows for longs and highs for shorts,  *)
(* and by how much it lies beyond a level.                                 *)
Attack(d, b)      == IF d = 1 THEN b.low ELSE b.high
Beyond(d, b, lvl) == d * (lvl - Attack(d, b))

(* The edge of a zone that price leaves it by, and the one that fills it.  *)
Near(d, z) == IF d = 1 THEN z.high ELSE z.low
Rear(d, z) == IF d = 1 THEN z.low ELSE z.high

Away(d, b, z)     == Beyond(d, b, Near(d, z)) < 0
Fills(d, b, z)    == Beyond(d, b, Rear(d, z)) >= 0
Overlaps(b, z)    == b.low <= z.high /\ b.high >= z.low

Now == Len(log) + 1

-----------------------------------------------------------------------------
(* Swings and sweeps *)

(* detect_pivots and detect_swings without an ATR filter: the bar one      *)
(* period back is a pivot if it closed beyond its neighbours on both       *)
(* sides; a pivot on the side of the last accepted one is dropped.         *)
Pivot(d, rows) ==
    LET i == Len(rows) - SwingPeriod
    IN  /\ i > SwingPeriod
        /\ \A k \in (i - SwingPeriod) .. Len(rows) : k # i => d * rows[i].close < d * rows[k].close

NextSwing(rows) ==
    LET side == {d \in Dirs : d # swing.side /\ Pivot(d, rows)}
    IN  IF side = {} THEN swing
        ELSE LET d == CHOOSE d \in side : TRUE
             IN  [side |-> d,
                  level |-> [swing.level EXCEPT ![d] =
                                {Attack(d, rows[Len(rows) - SwingPeriod])}]]

(* _detect_side_sweeps: the bar takes the level known before it, which the *)
(* bar before had not yet taken, and not by more than its reach.           *)
TakenBefore(d, lvl) ==
    /\ log # <<>> /\ lvl \in log[Len(log)].known[d]
    /\ Beyond(d, log[Len(log)], lvl) > 0

SwingSweep(d, b) ==
    {lvl \in swing.level[d] :
        Beyond(d, b, lvl) \in 1 .. b.reach /\ ~ TakenBefore(d, lvl)}

(* detect_confirmed_htf_sweeps: references enter when they are confirmed,  *)
(* the oldest of a full group leaves, and every crossed one is consumed.   *)
Group(rs, r) == {x \in rs : x.dir = r.dir /\ x.tf = r.tf}

Enter(new) ==
    LET full == {r \in new : Cardinality(Group(refs, r)) = MaxRefs}
        gone == {x \in refs : /\ \E r \in full : x \in Group(refs, r)
                              /\ \A y \in Group(refs, x) : x.at <= y.at}
    IN  (refs \ gone) \cup new

(* Mutation: a cross too deep for a sweep leaves the reference. *)
CrossedInReach(rs, b) == {r \in rs : Beyond(r.dir, b, r.level) \in 1 .. b.reach}

Crossed(rs, b) == {r \in rs : Beyond(r.dir, b, r.level) > 0}

(* Of the crossed ones in reach, that of the finest timeframe, then the    *)
(* nearest to the wick, then the latest pivot.                             *)
Better(b, r, x) ==
    \/ r.tf < x.tf
    \/ r.tf = x.tf /\ Beyond(r.dir, b, r.level) < Beyond(r.dir, b, x.level)
    \/ r.tf = x.tf /\ r.level = x.level /\ r.at >= x.at

Selected(d, rs, b) ==
    LET eligible == {r \in Crossed(rs, b) : r.dir = d /\ Beyond(d, b, r.level) <= b.reach}
    IN  {r \in eligible : \A x \in eligible : Better(b, r, x)}

-----------------------------------------------------------------------------
(* Gaps and zones *)

(* detect_fvg: the gap that bar t leaves to the bar before the last.       *)
Gap(d, rows, t) ==
    IF t < 3 \/ d * (Attack(d, rows[t]) - Attack(-d, rows[t - 2])) <= 0 THEN {}
    ELSE LET edges == {Attack(d, rows[t]), Attack(-d, rows[t - 2])}
         IN  {[at |-> t, low |-> Min(edges), high |-> Max(edges)]}

(* detect_ifvg_confirmation: a zone of side d comes from a gap of the      *)
(* other side, in the historical variant from one of its own.              *)
Source(d) == IF variant.opposing THEN -d ELSE d

ClosedThrough(d, g, b) ==
    LET depth == d * (b.close - Near(d, g))
    IN  depth > 0 /\ 100 * depth >= variant.threshold * (g.high - g.low)

Newest(gs) == {g \in gs : \A x \in gs : x.at <= g.at}

Fresh(g, t) == [start |-> t, low |-> g.low, high |-> g.high, left |-> FALSE, dead |-> FALSE]

(* build_ifvg_zone_features: the last confirmed zone of a side lives until *)
(* it is filled or too old.                                                *)
Current(d, conf, t) == IF conf = {} THEN zone[d] ELSE {Fresh(g, t) : g \in conf}
Live(zs, t)         == {z \in zs : ~ z.dead /\ t - z.start < ZoneAge}
Retested(d, zs, b)  == {z \in zs : z.left /\ ~ Fills(d, b, z) /\ ~ Away(d, b, z)}

(* Mutation: only a close beyond a zone fills it. *)
AfterCloses(d, zs, b, t) ==
    {IF z \in Live(zs, t)
     THEN [z EXCEPT !.left = @ \/ Away(d, b, z), !.dead = d * (Rear(d, z) - b.close) >= 0] ELSE z :
        z \in zs}

After(d, zs, b, t) ==
    {IF z \in Live(zs, t)
     THEN [z EXCEPT !.left = @ \/ Away(d, b, z), !.dead = Fills(d, b, z)] ELSE z : z \in zs}

(* align_ifvg_zone_timeframes: a gap inverted on a higher timeframe is     *)
(* seen only where the own timeframe confirms none.                        *)
Merged(conf, hs, d, t) ==
    IF conf # {} THEN conf
    ELSE {[at |-> t - h.back, low |-> h.low, high |-> h.high] : h \in {x \in hs : x.dir = d}}

-----------------------------------------------------------------------------
(* Phases *)

NoSetup == [phase |-> "idle", dir |-> 0]

Manipulation(d, b, t, lvl) ==
    [phase |-> "manipulation", dir |-> d, at |-> t, ref |-> lvl, high |-> b.high, low |-> b.low,
     zone |-> {}, since |-> 0, extreme |-> {}, arm |-> "off"]

Wider(s, b) == [s EXCEPT !.high = Max({@, b.high}), !.low = Min({@, b.low})]

(* build_po3_ifvg_state: a sweep replaces the setup unless both sides are  *)
(* swept; then come reclaim, inverted gap and excursion, on one bar if     *)
(* they may.                                                               *)
Swept(b, t, sweep) ==
    LET sides == {d \in Dirs : sweep[d] # {}}
    IN  IF Cardinality(sides) # 1 THEN setup
        ELSE LET d == CHOOSE d \in sides : TRUE
             IN  Manipulation(d, b, t, CHOOSE lvl \in sweep[d] : TRUE)

Reclaim(s, b) ==
    IF s.phase # "manipulation" THEN s
    ELSE IF s.dir * (b.close - s.ref) > 0 THEN [Wider(s, b) EXCEPT !.phase = "waiting"]
    ELSE Wider(s, b)

Associated(s, g, t) == s.at <= g.at /\ g.at <= t /\ t - g.at <= SetupAge

(* Mutation: any inverted gap confirms, also one older than the sweep. *)
DistributeAny(s, conf, t) ==
    IF s.phase # "waiting" \/ conf[s.dir] = {} THEN s
    ELSE [s EXCEPT !.phase = "distribution", !.zone = conf[s.dir], !.since = t]

Distribute(s, conf, t) ==
    IF s.phase # "waiting" \/ ~ \E g \in conf[s.dir] : Associated(s, g, t) THEN s
    ELSE [s EXCEPT !.phase = "distribution", !.zone = conf[s.dir], !.since = t]

Excursion(s, b) ==
    IF s.phase # "distribution" \/ ~ \E z \in s.zone : Overlaps(b, z) THEN s
    ELSE LET seen == s.extreme \cup {Attack(s.dir, b)}
         IN  [s EXCEPT !.extreme = {IF s.dir = 1 THEN Min(seen) ELSE Max(seen)}]

Phases(b, t, sweep, conf) ==
    Excursion(Distribute(Reclaim(Swept(b, t, sweep), b), conf, t), b)

(* build_po3_state: the close beyond the whole leg confirms, not the level. *)
Legacy(b, t, sweep) ==
    LET start(d) == [Manipulation(d, b, t, CHOOSE lvl \in sweep[d] : TRUE) EXCEPT
                        !.arm = IF setup.dir = d THEN setup.arm ELSE "off"]
        d    == setup.dir
        leg  == setup.phase = "manipulation"
    IN  IF leg /\ sweep[-d] # {} THEN start(-d)
        ELSE IF leg /\ sweep[d] # {} THEN start(d)
        ELSE IF ~ leg /\ sweep[1] # {} THEN start(1)
        ELSE IF ~ leg /\ sweep[-1] # {} THEN start(-1)
        ELSE IF ~ leg THEN setup
        ELSE IF d * (b.close - Attack(-d, setup)) > 0
             THEN [setup EXCEPT !.phase = "distribution", !.since = t]
        ELSE Wider(setup, b)

(* build_distribution_after_ifvg: a matching confirmation arms the bars    *)
(* after it until the side changes.                                        *)
Armed(s, conf) ==
    IF s.phase = "idle" THEN s
    ELSE IF conf[s.dir] # {} THEN [s EXCEPT !.arm = IF @ = "off" THEN "pending" ELSE @]
    ELSE [s EXCEPT !.arm = IF @ = "pending" THEN "armed" ELSE @]

AfterIfvg(s, t) ==
    /\ s.phase = "distribution"
    /\ IF variant.phases = "legacy" THEN s.arm = "armed" ELSE t > s.since

-----------------------------------------------------------------------------
Init ==
    /\ variant \in Variants
    /\ log = <<>> /\ refs = {} /\ setup = NoSetup /\ news = 0
    /\ swing = [side |-> 0, level |-> [d \in Dirs |-> {}]]
    /\ gaps = [d \in Dirs |-> {}] /\ zone = [d \in Dirs |-> {}]

(* The gaps known on this bar, the ones it closes through, and what the    *)
(* phase machines see of them.                                             *)
Born(b)      == [d \in Dirs |-> gaps[d] \cup Gap(d, Append(log, b), Now)]
Inverted(b)  == [d \in Dirs |-> {g \in Born(b)[Source(d)] : ClosedThrough(d, g, b)}]
Own(b)       == [d \in Dirs |-> Newest(Inverted(b)[d])]
Conf(b, hs)  == [d \in Dirs |-> Merged(Own(b)[d], hs, d, Now)]

(* One row of every machine: what the bar shows on its own timeframe, and  *)
(* the gaps hs that a higher one has just inverted; s is the new setup.    *)
Row(b, sweep, hs, s) ==
    LET zs == [d \in Dirs |-> Current(d, Own(b)[d], Now)]
    IN  /\ gaps' = [d \in Dirs |->
                       {g \in Born(b)[d] \ Inverted(b)[Source(d)] : Now - g.at < GapAge}]
        /\ zone' = [d \in Dirs |-> After(d, zs[d], b, Now)]
        /\ setup' = s
        /\ log' = Append(log,
               [low |-> b.low, high |-> b.high, close |-> b.close, known |-> swing.level,
                sweep |-> sweep, higher |-> hs,
                live |-> [d \in Dirs |-> Live(zs[d], Now) # {}],
                retest |-> [d \in Dirs |-> Retested(d, Live(zs[d], Now), b) # {}],
                phase |-> s.phase, dir |-> s.dir, after |-> AfterIfvg(s, Now)])
        /\ UNCHANGED variant

(* po3_reference_mode m1_legacy with the legacy phases.                    *)
LegacyBar ==
    /\ variant.phases = "legacy" /\ Len(log) < variant.bars
    /\ \E b \in BarShapes :
        LET sweep == [d \in Dirs |-> SwingSweep(d, b)]
        IN  /\ Row(b, sweep, {}, Armed(Legacy(b, Now, sweep), Conf(b, {})))
            /\ swing' = NextSwing(Append(log, b))
    /\ UNCHANGED <<refs, news>>

(* htf_confirmed with reclaim_then_ifvg.                                   *)
RevisedBar ==
    /\ variant.phases = "revised" /\ Len(log) < variant.bars
    /\ \E b \in BarShapes, new \in {{}} \cup {{r} : r \in References},
          hs \in {{}} \cup {{h} : h \in Higher} :
        LET come  == Enter({[dir |-> r.dir, tf |-> r.tf, level |-> r.level, at |-> Now] : r \in new})
            sweep == [d \in Dirs |-> {r.level : r \in Selected(d, come, b)}]
        IN  /\ news + Cardinality(new) + Cardinality(hs) <= MaxNews
            /\ news' = news + Cardinality(new) + Cardinality(hs)
            /\ refs' = come \ Crossed(come, b)
            /\ Row(b, sweep, hs, Phases(b, Now, sweep, Conf(b, hs)))
    /\ UNCHANGED swing

Next == LegacyBar \/ RevisedBar

Spec == Init /\ [][Next]_vars

-----------------------------------------------------------------------------
(* What the rows should say, read off the whole history *)

Between(i, j) == {k \in 1 .. Len(log) : i <= k /\ k <= j}
Last(ks)      == IF ks = {} THEN 0 ELSE Max(ks)
First(ks)     == IF ks = {} THEN 0 ELSE Min(ks)
Highest(ks)   == Max({log[k].high : k \in ks})
Lowest(ks)    == Min({log[k].low : k \in ks})

(* The gaps that bar k is the first to close through, while the detector   *)
(* still remembers them.                                                   *)
InvertedAt(d, k) ==
    {g \in UNION {Gap(Source(d), log, j) : j \in Between(k - GapAge, k)} :
        /\ ClosedThrough(d, g, log[k])
        /\ \A m \in Between(g.at, k - 1) : ~ ClosedThrough(d, g, log[m])}

EligibleAt(d, s, k) ==
    {g \in IF InvertedAt(d, k) # {} THEN InvertedAt(d, k) ELSE Merged({}, log[k].higher, d, k) :
        s <= g.at /\ k - g.at <= SetupAge}

(* The setup since the sweep on bar s: reclaimed on r, confirmed on c.     *)
RevisedSince(s, d, lvl) ==
    LET t == Len(log)
        r == First({k \in Between(s, t) : d * (log[k].close - lvl) > 0})
        c == First({k \in Between(r, t) : EligibleAt(d, s, k) # {}})
        leg == Between(s, IF r = 0 THEN t ELSE r)
    IN  /\ setup.dir = d
        /\ setup.phase = IF r = 0 THEN "manipulation"
                         ELSE IF c = 0 THEN "waiting" ELSE "distribution"
        /\ setup.high = Highest(leg) /\ setup.low = Lowest(leg)
        /\ setup.phase = "distribution" => setup.zone = Newest(EligibleAt(d, s, c))
        /\ log[t].after <=> setup.phase = "distribution" /\ t > c

(* The legacy leg since the last sweep, on bar s, whose row says which side *)
(* it took; and since bar l, where that side was first taken.              *)
LegacySince(s, l) ==
    LET t == Len(log)
        d == log[s].dir
        e == First({k \in Between(s + 1, t) :
                       d * (log[k].close - IF d = 1 THEN Highest(Between(s, k - 1))
                                           ELSE Lowest(Between(s, k - 1))) > 0})
        matched == {k \in Between(l, t) : InvertedAt(d, k) # {}}
    IN  /\ setup.dir = d
        /\ setup.phase = IF e = 0 THEN "manipulation" ELSE "distribution"
        /\ log[t].after <=> e # 0 /\ \E k \in Between(l, t) \ matched : \E m \in matched : m < k

(* The last bar that swept one side alone, the last that swept any, and    *)
(* the last on which the side of the setup turned.                         *)
SidesOf(k) == {d \in Dirs : log[k].sweep[d] # {}}
LastSingle == Last({k \in 1 .. Len(log) : Cardinality(SidesOf(k)) = 1})
LastSweep  == Last({k \in 1 .. Len(log) : SidesOf(k) # {}})
LastTurn   == Last({k \in 1 .. Len(log) : k > 1 => log[k - 1].dir # log[k].dir})

(* The phase of a row is what the definition of the strategy says of all   *)
(* bars before it: in the revised mode the last unambiguous sweep, the     *)
(* first close back through its level and the first gap since the sweep    *)
(* that is inverted after that; in the legacy mode the last sweep and the  *)
(* first close beyond the leg, with the confirmations of that side.        *)
PhasesAsDefined ==
    IF variant.phases = "revised"
    THEN IF LastSingle = 0 THEN setup = NoSetup
         ELSE \E d \in Dirs, lvl \in UNION {log[LastSingle].sweep[e] : e \in Dirs} :
                  RevisedSince(LastSingle, d, lvl)
    ELSE IF LastSweep = 0 THEN setup = NoSetup
         ELSE log[LastSweep].dir \in SidesOf(LastSweep) /\ LegacySince(LastSweep, LastTurn)

(* A zone is live from the close through its gap until a bar has traded    *)
(* through it or it is too old, and a retest is a touch after price had    *)
(* left it.                                                                *)
ZonesAsDefined ==
    log # <<>> => \A d \in Dirs :
        LET t == Len(log)
            c == Last({k \in 1 .. t : InvertedAt(d, k) # {}})
            z == CHOOSE z \in Newest(InvertedAt(d, c)) : TRUE
            live == c # 0 /\ t - c < ZoneAge
                    /\ \A k \in Between(c, t - 1) : ~ Fills(d, log[k], z)
        IN  /\ log[t].live[d] <=> live
            /\ log[t].retest[d] <=>
                   /\ live /\ Overlaps(log[t], z) /\ ~ Fills(d, log[t], z)
                   /\ \E k \in Between(c, t - 1) : Away(d, log[k], z)

(* A reference that may still be swept is one that no bar has crossed      *)
(* since it was confirmed, not even by too much to count, and a group      *)
(* never holds more than its share.                                        *)
SweepsFresh ==
    /\ \A r \in refs : \A k \in Between(r.at, Len(log)) : Beyond(r.dir, log[k], r.level) <= 0
    /\ \A r \in refs : Cardinality(Group(refs, r)) <= MaxRefs
=============================================================================
