------------------------- MODULE FuncRefTextProofs --------------------------
(***************************************************************************)
(* The IndexFuncRef reader inverts the writer whenever every valid RawId  *)
(* fits in a `long`.                                                      *)
(***************************************************************************)
EXTENDS FuncRefText, TLAPS

\* Every valid id, and -1 for the invalid one, survives atol unchanged.
WideLong == InvalidId - 1 <= LongMax

LEMMA RawIdFacts ==
    /\ RawIdLimit \in Nat \ {0, 1}
    /\ InvalidId \in RawIds
    /\ ToRawId(-1) = InvalidId
    /\ \A i \in RawIds : ToRawId(i) = i
  BY RawIdBitsAssumption DEF InvalidId, RawIds, ToRawId

\* Reading the text of the writer: atol returns the id text, strchr finds the
\* at sign right after it, and Range() parses the range that follows.
LEMMA DecodeEncode ==
    ASSUME NEW r \in FuncRefs, WideLong
    PROVE  Decode(Encode(r)) = r
<1> DEFINE n == IdNumeral(r.id)
<1> DEFINE s == <<n, At, r.loc>>
<1> USE DEF n, s
<1>1. /\ n \in RawIds \cup {-1}
      /\ n \in Int
      /\ n # At /\ n # Tilde
  BY RawIdFacts, CodecSentinels DEF IdNumeral, FuncRefs, RawIds
<1>2. Stripped(Encode(r)) = s /\ IsImplicit(Encode(r)) = r.implicit
  <2>1. CASE r.implicit
    <3>1. Encode(r) = <<Tilde, n, At, r.loc>>
      BY <2>1 DEF Encode, IdNumeral
    <3>2. IsImplicit(Encode(r))
      BY <3>1 DEF IsImplicit
    <3>3. Tail(<<Tilde, n, At, r.loc>>) = s
      OBVIOUS
    <3> QED
      BY <2>1, <3>1, <3>2, <3>3 DEF Stripped, FuncRefs
  <2>2. CASE ~r.implicit
    <3>1. Encode(r) = s
      BY <2>2 DEF Encode, IdNumeral, FuncRefs
    <3>2. r.loc # Tilde
      BY CodecSentinels DEF FuncRefs
    <3> QED
      BY <2>2, <3>1, <3>2, <1>1 DEF Stripped, IsImplicit, FuncRefs
  <2> QED
    BY <2>1, <2>2 DEF FuncRefs
<1>3. AtPositions(s) = {2} /\ FirstAt(s) = 2
  <2>1. r.loc # At
    BY CodecSentinels DEF FuncRefs
  <2>2. AtPositions(s) = {2}
    BY <1>1, <2>1 DEF AtPositions
  <2> QED
    BY <2>2 DEF FirstAt
<1>4. ParseRange(SubSeq(s, 3, Len(s))) = r.loc
  BY DEF ParseRange, FuncRefs
<1>5. ToRawId(Atol(s)) = r.id
  <2>1. n \in NumeralTokens
    BY <1>1 DEF NumeralTokens
  <2>2. Saturate(n) = n
    <3>1. n <= InvalidId - 1
      BY RawIdFacts DEF IdNumeral, HasValue, RawIds, FuncRefs, InvalidId
    <3>a. InvalidId - 1 <= LongMax
      BY DEF WideLong
    <3>2. n <= LongMax
      BY <3>a, <3>1, <1>1, LongBitsAssumption, RawIdFacts DEF RawIds
    <3>3. -1 >= LongMin
      BY LongBitsAssumption DEF LongMin, LongMax
    <3>4. n >= LongMin /\ LongMin \in Int
      BY <3>3, <1>1, RawIdFacts, LongBitsAssumption DEF RawIds, LongMin, LongMax
    <3> QED
      BY <3>2, <3>4, <1>1, LongBitsAssumption DEF Saturate
  <2>3. ToRawId(n) = r.id
    BY RawIdFacts DEF IdNumeral, HasValue, FuncRefs
  <2> QED
    BY <2>1, <2>2, <2>3 DEF Atol
<1> QED
  BY <1>2, <1>3, <1>4, <1>5 DEF Decode, FuncRefs
=============================================================================
