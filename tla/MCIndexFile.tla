---------------------------- MODULE MCIndexFile ----------------------------
(* IndexFile instantiated for TLC: three usrs per kind and 2-bit RawIds, so *)
(* every kind can fill all three valid ids 0..2 and stop just short of the *)
(* invalid sentinel 3.                                                     *)
EXTENDS IndexFile, TLC

CONSTANTS u1, u2, u3

MCUsr == {u1, u2, u3}
MCSymmetry == Permutations(MCUsr)
=============================================================================
