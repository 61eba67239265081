---- MODULE MCDistributedCache ----
(* Three nodes with two virtual nodes each on a ring of four positions: the
   ring is built and changed under every hash function, with coinciding
   positions and keys past the last one.  The server runs with three of them:
   virtual nodes interleaved, in blocks, and all at one position. *)
EXTENDS DistributedCache

CONSTANTS r1, r2

MCNodeId == 1 .. 3
MCHash == [k \in Key |-> 2]
OneRequest == {r1}
TwoRequests == {r1, r2}
Interleaved == [v \in NodeId \X Index |-> (v[1] + v[2]) % Size]
Blocks == [v \in NodeId \X Index |-> v[1] % Size]
MCServed == {Interleaved, Blocks, [v \in NodeId \X Index |-> 0]}

====
