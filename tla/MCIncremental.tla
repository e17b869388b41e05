--------------------------- MODULE MCIncremental ---------------------------
EXTENDS Incremental

\* The Z-sets over a set of elements with these weights.
ZSetsOver(elements, weights) ==
    {NonZero(f) : f \in [elements -> weights \cup {0}]}

\* Streams of one to n batches for each input, after which the source says that
\* it is exhausted.
Streams(as, bs, n) ==
    {s \in UNION {[1..m -> [a : as, b : bs]] : m \in 1..n} :
       Len(s) > 1 => s[Len(s)] # Nothing}

Circuit(kind, nested, epochs) ==
    [kind |-> kind, nested |-> nested, epochs |-> epochs]

Changes == {1, -1}
OneKey == {<<"k", 1>>, <<"k", 2>>}
Edges == {<<"p", "q">>, <<"q", "r">>, <<"r", "p">>, <<"q", "p">>}

NestedInputs ==
    Circuit("join", TRUE, 3) :>
        Streams(ZSetsOver({<<"k", "v">>}, Changes),
                ZSetsOver({<<"k", "w">>}, {1}), 2)
    @@ Circuit("distinct", TRUE, 4) :>
        Streams(ZSetsOver({"x"}, Changes), {Zero}, 3)
    @@ Circuit("antijoin", TRUE, 2) :>
        Streams(ZSetsOver({<<"k", "v">>}, {1}),
                ZSetsOver({<<"k", "w">>}, Changes), 2)
    @@ Circuit("aggregate", TRUE, 3) :>
        Streams({f \in ZSetsOver(OneKey, Changes) :
                   Cardinality(DOMAIN f) <= 1}, {Zero}, 2)
    @@ Circuit("recursive", TRUE, 3) :>
        Streams({f \in ZSetsOver(Edges, Changes) :
                   Cardinality(DOMAIN f) <= 2}, {Zero}, 1)

RootInputs ==
    [c \in {Circuit(k, FALSE, 3) :
            k \in {"join", "distinct", "antijoin", "aggregate"}} |->
       Streams(ZSetsOver(OneKey, Changes),
               CASE c.kind = "join"     -> ZSetsOver({<<"k", "w">>}, Changes)
                 [] c.kind = "antijoin" -> ZSetsOver({<<"k", "w">>, <<"k", "x">>}, Changes)
                 [] OTHER               -> {Zero}, 1)]

Series(times, n) ==
    {f \in ZSetsOver(times \X {"v"}, Changes) : Cardinality(DOMAIN f) <= n}

Bounds == {<<0, 2>>, <<0, 3>>, <<1, 3>>, <<1, 2>>, <<2, 3>>, <<3, 5>>}

\* With two bits to a digit: nodes of two and of three children, on up to
\* three levels, and pairs of timestamps that part within a digit.
Times == {0, 1, 2, 5, 6, 20, 62, 63}

\* Neighbours, among which data may be late, and the largest timestamps.
LateTimes == {0, 1, 2, 3, 4, 62, 63}

Rolling(from, to, lateness, epochs) ==
    [kind |-> "rolling", nested |-> FALSE, epochs |-> epochs,
     range |-> [from |-> from, to |-> to], lateness |-> lateness]

SeriesInputs ==
    Circuit("window", FALSE, 3) :>
        Streams(ZSetsOver((0..3) \X {"v"}, {1}),
                [bounds : Bounds, early : BOOLEAN], 1)
    @@ [c \in {Rolling(Before(2), Before(0), Unset, 3),
               Rolling(Before(3), Before(2), Unset, 3),
               Rolling(Before(1), After(1), Unset, 3),
               Rolling(After(1), After(2), Unset, 3)} |->
          Streams(Series(Times, 2), {[early |-> TRUE]}, 1)]
    @@ [c \in {Rolling(Before(2), Before(0), 1, 4),
               Rolling(Before(3), Before(2), 1, 4),
               Rolling(Before(1), After(1), 2, 4)} |->
          Streams(Series(LateTimes, 2), [early : BOOLEAN], 1)]

MCInputs == NestedInputs @@ RootInputs @@ SeriesInputs
MCScenarios == DOMAIN MCInputs
=============================================================================
