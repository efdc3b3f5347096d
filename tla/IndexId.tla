------------------------------ MODULE IndexId ------------------------------
(***************************************************************************)
(* Id<T> (src/src/indexer.h): a handle is a RawId, an unsigned integer of  *)
(* RawIdBits bits (uint32_t: 32).  Id() is Id(-1), the all-ones RawId,     *)
(* and HasValue() is false exactly for it.  Handles of different kinds     *)
(* share this representation; nothing in the value tells them apart.       *)
(***************************************************************************)
EXTENDS Integers

CONSTANT RawIdBits

RawIdLimit == 2 ^ RawIdBits

\* A RawId has at least one bit.  The second conjunct follows from the
\* first; it is stated because the provers do not reason about ^.
ASSUME RawIdBitsAssumption ==
    RawIdBits \in Nat \ {0} /\ RawIdLimit \in Nat \ {0, 1}
RawIds == 0 .. RawIdLimit - 1

\* Conversion of an integer to RawId: C++ unsigned conversion, modulo 2^w.
ToRawId(v) == v % RawIdLimit

\* Id() : id(-1), i.e. RawId(-1) = ToRawId(-1), the largest RawId.
InvalidId == RawIdLimit - 1
HasValue(id) == id # InvalidId
ValidIds == {i \in RawIds : HasValue(i)}
=============================================================================
