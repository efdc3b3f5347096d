--------------------------- MODULE MCFuncRefCodec ---------------------------
(* FuncRefCodec for TLC: two ranges, a 3-bit RawId, corrupt strings of up  *)
(* to three tokens over numerals that are negative, in range, above the   *)
(* RawId range, and above LONG_MAX.                                        *)
EXTENDS FuncRefCodec, TLC

CONSTANTS l1, l2

MCLocs == {l1, l2}
MCNumerals == {-1, 0, 9, 40}
=============================================================================
