--------------------------- MODULE MCSessionStore ---------------------------
(* Small instances of SessionStore for TLC.                                 *)
EXTENDS SessionStore, TLC

CONSTANTS p1, p2, p3, s1, s2

TwoSessions == {s1, s2}
OneSession == {s1}
ThreePrompts == {p1, p2, p3}

Shared == [p \in {p1, p2, p3} |-> IF p = p3 THEN s2 ELSE s1]
\* The prompts of s1 are alike.
Alike == Permutations({p1, p2})
=============================================================================
