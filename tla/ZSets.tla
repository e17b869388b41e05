------------------------------- MODULE ZSets -------------------------------
(***************************************************************************)
(* Z-sets: collections whose elements have integer weights.  A Z-set is a  *)
(* function from its support to non-zero integers, which is what a         *)
(* consolidated batch of the code holds; a change to a collection is a     *)
(* Z-set too.  The elements of an indexed Z-set are pairs <<key, value>>.  *)
(***************************************************************************)
EXTENDS Integers, FiniteSets, FiniteSetsExt, Functions, TLC

Zero == [x \in {} |-> 0]

IsEmpty(z) == DOMAIN z = {}

Weight(z, x) == IF x \in DOMAIN z THEN z[x] ELSE 0

\* `consolidate` drops the tuples whose weights add up to zero.
NonZero(f) == Restrict(f, {x \in DOMAIN f : f[x] # 0})

Add(a, b) ==
    NonZero([x \in DOMAIN a \cup DOMAIN b |-> Weight(a, x) + Weight(b, x)])

Neg(a) == [x \in DOMAIN a |-> -a[x]]

\* The batch built of a vector of tuples, here a set of records whose id tells
\* two tuples with the same item and weight apart.
FromTuples(tuples) ==
    NonZero([x \in {u.item : u \in tuples} |->
               MapThenSumSet(LAMBDA u : u.weight,
                             {u \in tuples : u.item = x})])

Keys(z) == {x[1] : x \in DOMAIN z}

\* The elements with a positive weight, each with weight 1.
Distinct(z) == [x \in {y \in DOMAIN z : z[y] > 0} |-> 1]

\* All pairs of a value of a and a value of b that share a key.
JoinOf(a, b) ==
    FromTuples({[id |-> p, item |-> <<p[1][2], p[2][2]>>,
                 weight |-> a[p[1]] * b[p[2]]] :
                p \in {q \in (DOMAIN a) \X (DOMAIN b) : q[1][1] = q[2][1]}})

\* For every key its largest value of non-zero weight.
MaxOf(z) ==
    [x \in {<<k, Max({y[2] : y \in {y \in DOMAIN z : y[1] = k}})>> :
            k \in Keys(z)} |-> 1]
=============================================================================
