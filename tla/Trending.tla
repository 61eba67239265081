------------------------------ MODULE Trending ------------------------------
(***************************************************************************)
(* internal/trending and internal/ranking: per query a recency that decays *)
(* exponentially, in an index of bounded size.  Every method holds the     *)
(* index's mutex: it is one operator, which gives the index after the call *)
(* or its answer.                                                          *)
(*                                                                         *)
(* Time is counted in half-lives.  A recency is counted in fractions of    *)
(* Unit, what one search adds, so that a value stays exact for as many     *)
(* half-lives as Unit has factors of two.                                  *)
(***************************************************************************)
EXTENDS Integers, FiniteSets

CONSTANTS
    Query,
    TrendCap,  \* entries of the index (TRENDING_CAP)
    Unit       \* recency of one search (WEIGHT)

\* New replaces any smaller capacity by a positive default.
ASSUME TrendingAssumption ==
    /\ IsFiniteSet(Query)
    /\ TrendCap \in Nat \ {0}
    /\ Unit \in Nat \ {0}

\* An entry.  A query that is not tracked has value 0, as Go's zero value.
State == [value : Nat, ts : Nat]
NoState == [value |-> 0, ts |-> 0]
Untracked == [q \in Query |-> NoState]
Tracked(x) == {q \in Query : x[q].value > 0}

\* Effective: a time stamp ahead of the clock does not decay.
Effective(s, now) == s.value \div 2^(IF now > s.ts THEN now - s.ts ELSE 0)

Bump(s, d, now) == [value |-> Effective(s, now) + d * Unit, ts |-> now]

\* Faulty variant of Key: the time stamp is left out.
KeyByValue(s) == s.value

\* Key, the order of ln(value) + lambda * ts.
Key(s) == s.value * 2^s.ts

\* Faulty variant of Evicted: the index grows without bound.
EvictedNever(x) == {x}

\* evict drops an entry of the lowest key while there are too many.  Among
\* equal keys the order of the map decides, so there are several results.
Evicted(x) ==
    {[q \in Query |-> IF q \in kept THEN x[q] ELSE NoState] :
        kept \in {S \in SUBSET Tracked(x) :
                    \/ S = Tracked(x) /\ Cardinality(S) <= TrendCap
                    \/ /\ Cardinality(S) = TrendCap
                       /\ \A q \in S, r \in Tracked(x) \ S : Key(x[r]) <= Key(x[q])}}

\* Update before its evict: the queries of batch b are bumped.  It returns
\* their entries, also of those that evict drops.
Bumped(x, b, now) ==
    [q \in Query |-> IF b[q] > 0 THEN Bump(x[q], b[q], now) ELSE x[q]]

\* Top, up to the order of equal scores.
Top(x, k, now) ==
    {q \in Tracked(x) :
        Cardinality({r \in Tracked(x) : Effective(x[r], now) > Effective(x[q], now)}) < k}

=============================================================================
