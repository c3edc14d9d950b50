---------------------------- MODULE MCTaskQueue ----------------------------
(* Instances of TaskQueue for TLC: two tracks of different size, with an   *)
(* audio hash each or copies of one another.                               *)
EXTENDS TaskQueue, TLC

CONSTANTS t1, t2, w1, w2, r1, r2, h1, h2

MCSize == [t \in Tracks |-> IF t = t1 THEN 1 ELSE 2]
OwnHash == [t \in Tracks |-> IF t = t1 THEN h1 ELSE h2]
SharedHash == [t \in Tracks |-> h1]

WorkersAndRequests == Permutations({w1, w2}) \cup Permutations({r1, r2})
============================================================================
