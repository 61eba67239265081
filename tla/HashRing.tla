------------------------------ MODULE HashRing ------------------------------
(***************************************************************************)
(* internal/hashring/ring.go: a consistent-hash ring with virtual nodes.   *)
(* MD5 is an arbitrary function: pos gives a position to every virtual     *)
(* node, positions may coincide, and a key may hash anywhere.  Physical    *)
(* nodes are numbered in the order of their names.                         *)
(***************************************************************************)
EXTENDS Integers, SequencesExt

CONSTANTS
    NodeId,   \* physical nodes, numbered in string order
    Vnodes,   \* virtual nodes per physical node (VNODES_PER_NODE)
    Size      \* positions on the ring (2^64 in the code)

\* New replaces any smaller number of virtual nodes by a positive default.
ASSUME RingAssumption ==
    /\ NodeId \subseteq Nat
    /\ Vnodes \in Nat \ {0}
    /\ Size \in Nat \ {0}

Position == 0 .. Size - 1
Index == 0 .. Vnodes - 1

VARIABLES
    pos,     \* the hash of each virtual node's name; never changes
    nodes,   \* r.nodes, in the order they were added
    ring     \* r.ring

ringVars == <<pos, nodes, ring>>

Vnode(n, i) == [pos |-> pos[<<n, i>>], node |-> n, idx |-> i]
VnodesOf(n) == [i \in 1 .. Vnodes |-> Vnode(n, i - 1)]

RingInit ==
    /\ pos \in [NodeId \X Index -> Position]
    /\ nodes = <<>> /\ ring = <<>>

\* Faulty variant of Before: no tie-break on equal positions.
BeforeByPosition(a, b) == a.pos < b.pos

\* The sort order of the ring.
Before(a, b) ==
    \/ a.pos < b.pos
    \/ a.pos = b.pos /\ a.node < b.node
    \/ a.pos = b.pos /\ a.node = b.node /\ a.idx < b.idx

\* The elements of s at the positions that have a rank, in that order.
Arranged(s, rank) ==
    [n \in 1 .. Cardinality(DOMAIN rank) |-> s[CHOOSE i \in DOMAIN rank : rank[i] = n - 1]]

\* sortRing: the rank is the number of elements before, equals in their order.
Sorted(s) ==
    LET first(j, i) == Before(s[j], s[i]) \/ (~Before(s[i], s[j]) /\ j < i)
    IN  Arranged(s, [i \in DOMAIN s |-> Cardinality({j \in DOMAIN s : first(j, i)})])

\* The elements of s at the positions I, in their order.
Chosen(s, I) == Arranged(s, [i \in I |-> Cardinality({j \in I : j < i})])

\* Adding a node again changes nothing.
AddNode(n) ==
    /\ n \notin ToSet(nodes)
    /\ nodes' = Append(nodes, n)
    /\ ring' = Sorted(ring \o VnodesOf(n))
    /\ UNCHANGED pos

\* Faulty variant of Kept: the node's first virtual node only.
KeptButOne(n) == Chosen(ring, {i \in DOMAIN ring : ring[i] # Vnode(n, 0)})

Kept(n) == Chosen(ring, {i \in DOMAIN ring : ring[i].node # n})

\* Removing an unknown node changes nothing.
RemoveNode(n) ==
    /\ n \in ToSet(nodes)
    /\ nodes' = Chosen(nodes, {i \in DOMAIN nodes : nodes[i] # n})
    /\ ring' = Kept(n)
    /\ UNCHANGED pos

RingNext == \E n \in NodeId : AddNode(n) \/ RemoveNode(n)

RingSpec == RingInit /\ [][RingNext]_ringVars

\* Faulty variant of Lookup: the virtual nodes are numbered instead.
LookupModulo(r, h) == r[1 + (h % Len(r))]

\* lookupHash on a ring that is not empty: the first virtual node at or after
\* h, wrapping to the first of all.
Lookup(r, h) ==
    LET reached == {i \in DOMAIN r : r[i].pos >= h}
    IN  IF reached = {} THEN r[1] ELSE r[Min(reached)]

\* Get: no owner on an empty ring.
None == -1
Owner(r, h) == IF r = <<>> THEN None ELSE Lookup(r, h).node

-----------------------------------------------------------------------------
(* Properties.                                                             *)

\* The ring holds each virtual node of the added nodes once, in order, so
\* that the binary search of lookupHash finds what it looks for.
RingTypeOK ==
    /\ pos \in [NodeId \X Index -> Position]
    /\ ToSet(nodes) \subseteq NodeId /\ IsInjective(nodes)
    /\ ToSet(ring) = {Vnode(n, i) : n \in ToSet(nodes), i \in Index}
    /\ Len(ring) = Vnodes * Len(nodes)
    /\ \A i \in 1 .. Len(ring) - 1 : ring[i].pos <= ring[i + 1].pos

\* The owner of h by definition: among the virtual nodes of the set S, walk
\* clockwise from h to the nearest, and at one position take the least.
Clockwise(h, v) == (v.pos - h) % Size
Nearest(h, S) ==
    {v \in S : \A w \in S :
        \/ Clockwise(h, v) < Clockwise(h, w)
        \/ Clockwise(h, v) = Clockwise(h, w)
             /\ (v.node < w.node \/ (v.node = w.node /\ v.idx <= w.idx))}

\* "The tie-break makes ownership independent of the order nodes were added,
\* and stable across process restarts" (ring_test.go:40-41): the owner follows
\* from the set of nodes and the hash alone, through any adds and removes.
OwnerIsNearest ==
    nodes # <<>> =>
        \A h \in Position :
            \A v \in Nearest(h, {Vnode(n, i) : n \in ToSet(nodes), i \in Index}) :
                Owner(ring, h) = v.node

\* Consistent hashing: a new node only takes keys over, and a removed node
\* only gives its own keys away.  No key moves between two nodes that stay,
\* even where positions coincide.
MinimalDisruption ==
    [][\A h \in Position :
         LET was == Owner(ring, h)
             is == Owner(ring', h)
         IN  is # was => was \notin ToSet(nodes') \/ is \notin ToSet(nodes)]_ringVars

=============================================================================
