------------------------- MODULE FuncRefCodecProofs -------------------------
(***************************************************************************)
(* Proofs about the IndexFuncRef codec: the reader inverts the writer      *)
(* whenever every valid RawId fits in a `long`, and then every reference   *)
(* read back equals the one written.                                       *)
(***************************************************************************)
EXTENDS FuncRefCodec, FuncRefTextProofs, TLAPS

-----------------------------------------------------------------------------
(* Every reference read back is the one written.                           *)

\* The inductive invariant: the cache holds the writer's text for the last
\* reference written, and what was read since then is that reference.
RTInv ==
    /\ written \in FuncRefs \cup {NoRef}
    /\ written # NoRef => text = Encode(written)
    /\ (written # NoRef /\ decoded # NoRef) => decoded = written

LEMMA NoRefNotRef == NoRef \notin FuncRefs
  BY CodecSentinels, RawIdFacts DEF FuncRefs, RawIds

LEMMA RTInvStep ==
    ASSUME WideLong, RTInv, [Next]_vars
    PROVE  RTInv'
<1>1. ASSUME NEW r \in FuncRefs, WriteRef(r) PROVE RTInv'
  BY <1>1, NoRefNotRef DEF WriteRef, RTInv
<1>2. ASSUME NEW t \in Texts, Corrupt(t) PROVE RTInv'
  BY <1>2 DEF Corrupt, RTInv
<1>3. ASSUME ReadRef PROVE RTInv'
  <2>1. CASE written = NoRef
    BY <1>3, <2>1 DEF ReadRef, RTInv
  <2>2. CASE written # NoRef
    <3>1. written \in FuncRefs /\ text = Encode(written)
      BY <2>2 DEF RTInv
    <3>2. decoded' = written
      BY <1>3, <3>1, DecodeEncode DEF ReadRef
    <3> QED
      BY <1>3, <3>1, <3>2 DEF ReadRef, RTInv
  <2> QED
    BY <2>1, <2>2
<1>4. CASE UNCHANGED vars
  BY <1>4 DEF vars, RTInv
<1> QED
  BY <1>1, <1>2, <1>3, <1>4 DEF Next

\* When every valid id fits in a `long` (LP64: 32-bit RawId, 64-bit long),
\* Reflect(Reader&) gives back exactly the IndexFuncRef that
\* Reflect(Writer&) serialized, in every behaviour of the cache.
THEOREM RoundTripHolds ==
    ASSUME WideLong
    PROVE  Spec => []RoundTrip
<1>1. Init => RTInv
  BY DEF Init, RTInv
<1>2. RTInv /\ [Next]_vars => RTInv'
  BY RTInvStep
<1>3. RTInv => RoundTrip
  BY DEF RTInv, RoundTrip, FuncRefEq
<1> QED
  BY <1>1, <1>2, <1>3, PTL DEF Spec
=============================================================================
