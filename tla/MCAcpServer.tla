----------------------------- MODULE MCAcpServer -----------------------------
(* Small instances of AcpServer for TLC.                                    *)
EXTENDS AcpServer

CONSTANTS p1, p2, s1, s2

TwoRequests == {p1, p2}
TwoSessions == {s1, s2}
OneSession == {s1}
FixedFirst == [p \in {p1, p2} |-> IF p = p1 THEN {s1} ELSE {s1, s2}]
SameSession == [p \in {p1, p2} |-> {s1}]
Nothing == {}
OnlySecond == {p2}

AllJunk == {"garbage", "long", "noise", "eof"}

=============================================================================
