---------------------------- MODULE MCTokenStore ----------------------------
(* Two requests of a first process and one of a second.                     *)
EXTENDS TokenStore

CONSTANTS p1, p2, r1, r2, r3

TwoProcs == {p1, p2}
ThreeRequests == {r1, r2, r3}
TwoAndOne == [r \in ThreeRequests |-> IF r \in {r1, r2} THEN p1 ELSE p2]
AllFaults == {"network", "save", "crash"}
=============================================================================
