---------------------------- MODULE MCDefRecords ----------------------------
(* DefRecords for TLC: 3-bit RawIds and a 5-bit GetUint64, handles 0 and 1, *)
(* one range, at most two field writes per Def.  The damaged cache holds    *)
(* an in-range id (MCCorruptIds) or one above the RawId range               *)
(* (MCCorruptIdsWide, 9 = 8 + 1).                                           *)
EXTENDS DefRecords, TLC

CONSTANTS l1

MCLocs == {l1}
MCHandles == {0, 1}
MCCorruptIds == {5}
MCCorruptIdsWide == {9}
=============================================================================
