--------------------------- MODULE MCPlatformWin ---------------------------
(* PlatformWin for TLC: two worker processes, symmetric.                   *)
EXTENDS PlatformWin, TLC

CONSTANTS p1, p2

MCProc == {p1, p2}
MCSymmetry == Permutations(MCProc)
=============================================================================
