----------------------------- MODULE MCAcpClient -----------------------------
(* Small instances of AcpClient for TLC.                                    *)
EXTENDS AcpClient, TLC

CONSTANTS c1, c2, r1, k1

TwoCalls == {c1, c2}
FirstCall == {c1}
OneAsk == {r1}
NoOne == {}
OneCloser == {k1}

\* Which of two calls is which makes no difference.
Symmetry == Permutations(TwoCalls)

=============================================================================
