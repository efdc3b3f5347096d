-------------------------- MODULE DefRecordsProofs --------------------------
(***************************************************************************)
(* Proofs about the cache round trip of a Def record: when every valid id *)
(* fits in a `long` and a damaged cache only ever holds valid RawIds      *)
(* (neither wider numbers nor the all-ones sentinel), every Def read back  *)
(* writes back to the text it was read from.  A damaged id wider than a  *)
(* RawId breaks this: that is the violation run def_records_wide_id.      *)
(***************************************************************************)
EXTENDS DefRecords, FuncRefTextProofs, SequenceTheorems, TLAPS

\* A damaged cache holds, where an id was written, a number of RawId's width
\* other than the all-ones value, which Maybe<Id> reads as absent.
NarrowCorrupt == CorruptIds \subseteq ValidIds

\* The texts the IndexFuncRef writer produces.
EncodedRefs == {Encode(r) : r \in FuncRefs}

\* What the cache may hold for a member of each type.
CacheField(s, v) ==
    /\ s = "id"   => v \in ValidIds \cup {None}
    /\ s = "ids"  => v \in Seq(RawIds)
    /\ s = "refs" => v \in Seq(EncodedRefs)

\* The cache, once written, maps each member of the Def to such a value.
CacheOK ==
    cache # NoRef =>
        /\ cache = [f \in Fields[kind] |-> cache[f]]
        /\ \A f \in Fields[kind] : CacheField(Shape[f], cache[f])

\* The inductive invariant: the type invariant, the shape of the cache, and
\* the property itself.
DInv == TypeOK /\ CacheOK /\ RereadExact

-----------------------------------------------------------------------------
(* Lemmas on reading and writing one member                                *)

\* GetUint64 narrowed to RawId keeps a number that fits.
LEMMA ReadIdKeeps ==
    ASSUME NEW n \in RawIds
    PROVE  ReadId(n) = n
  BY RawIdFacts DEF ReadId

\* A Maybe<Id> read back is the one written: absent, or a valid id.
LEMMA ReadMaybeIdKeeps ==
    ASSUME NEW n \in ValidIds \cup {None}
    PROVE  ReadMaybeId(n) = n
<1>1. CASE n = None
  BY <1>1 DEF ReadMaybeId
<1>2. CASE n \in ValidIds
  <2>1. n \in RawIds /\ HasValue(n)
    BY <1>2 DEF ValidIds
  <2>2. n # None
    BY <2>1, DefAssumption DEF RawIds
  <2> QED
    BY <2>1, <2>2, ReadIdKeeps DEF ReadMaybeId
<1> QED
  BY <1>1, <1>2

\* Reading an id member, or a vector of ids, gives back what the cache holds.
LEMMA ReadIdsKeeps ==
    ASSUME NEW s \in {"id", "ids"}, NEW v, CacheField(s, v)
    PROVE  ReadField(s, v) = v
<1>1. CASE s = "id"
  BY <1>1, ReadMaybeIdKeeps DEF CacheField, ReadField
<1>2. CASE s = "ids"
  <2>1. v \in Seq(RawIds)
    BY <1>2 DEF CacheField
  <2>2. \A i \in DOMAIN v : ReadId(v[i]) = v[i]
    BY <2>1, ReadIdKeeps
  <2> QED
    BY <1>2, <2>1, <2>2 DEF ReadField
<1> QED
  BY <1>1, <1>2

\* Writing a member that was read from the cache gives back the cached text.
LEMMA FieldRereads ==
    ASSUME WideLong, NEW s, NEW v, CacheField(s, v)
    PROVE  WriteField(s, ReadField(s, v)) = v
<1>1. CASE s \in {"id", "ids"}
  BY <1>1, ReadIdsKeeps DEF WriteField
<1>2. CASE s = "refs"
  <2>1. v \in Seq(EncodedRefs)
    BY <1>2 DEF CacheField
  <2>2. \A i \in DOMAIN v : Encode(Decode(v[i])) = v[i]
    <3> TAKE i \in DOMAIN v
    <3>1. PICK r \in FuncRefs : v[i] = Encode(r)
      BY <2>1 DEF EncodedRefs
    <3> QED
      BY <3>1, DecodeEncode
  <2> QED
    BY <1>2, <2>1, <2>2 DEF ReadField, WriteField
<1>3. CASE s \notin {"id", "ids", "refs"}
  BY <1>3 DEF ReadField, WriteField
<1> QED
  BY <1>1, <1>2, <1>3

\* A callee of a FuncDef is an IndexFuncRef the codec writes.
LEMMA CalleesAreRefs == Callees \subseteq FuncRefs
  BY DefAssumption DEF Callees, FuncRefs, ValidIds

\* Writing a member of any value the parser can set gives a text the cache
\* may hold.
LEMMA WriteFieldShape ==
    ASSUME NEW s, NEW v \in Values(s)
    PROVE  CacheField(s, WriteField(s, v))
<1>1. CASE s = "id"
  BY <1>1, DefAssumption DEF Values, WriteField, CacheField
<1>2. CASE s = "ids"
  <2>1. v \in {<<>>} \cup {<<h>> : h \in Handles}
    BY <1>2 DEF Values
  <2>2. Handles \subseteq RawIds
    BY DefAssumption DEF ValidIds
  <2>3. v \in Seq(RawIds)
    <3>1. CASE v = <<>>
      BY <3>1
    <3>2. CASE v # <<>>
      <4>1. PICK h \in Handles : v = <<h>>
        BY <2>1, <3>2
      <4> QED
        BY <4>1, <2>2
    <3> QED
      BY <3>1, <3>2
  <2> QED
    BY <1>2, <2>3 DEF WriteField, CacheField
<1>3. CASE s = "refs"
  <2>0. v \in {<<>>} \cup {<<r>> : r \in Callees}
    BY <1>3 DEF Values
  <2>1. v \in Seq(FuncRefs)
    <3>1. CASE v = <<>>
      BY <3>1
    <3>2. CASE v # <<>>
      <4>1. PICK r \in Callees : v = <<r>>
        BY <2>0, <3>2
      <4> QED
        BY <4>1, CalleesAreRefs
    <3> QED
      BY <3>1, <3>2
  <2>2. [i \in DOMAIN v |-> Encode(v[i])] \in Seq(EncodedRefs)
    BY <2>1 DEF EncodedRefs
  <2> QED
    BY <1>3, <2>2 DEF WriteField, CacheField
<1>4. CASE s \notin {"id", "ids", "refs"}
  BY <1>4 DEF CacheField
<1> QED
  BY <1>1, <1>2, <1>3, <1>4
\* The member types, and the type of every member of every Def.
ShapeNames == {"text", "int", "enum", "range", "id", "ids", "refs"}

LEMMA FieldShapes ==
    \A k \in DefKinds : \A f \in Fields[k] : Shape[f] \in ShapeNames
  BY DEF DefKinds, Fields, TypeDefFields, FuncDefFields, VarDefFields, Shape,
         ShapeNames

\* A freshly constructed Def holds values of its members' types.
LEMMA DefaultValue ==
    ASSUME NEW s \in ShapeNames
    PROVE  Default(s) \in Values(s)
  BY DEF ShapeNames, Default, Values

-----------------------------------------------------------------------------
(* The invariant holds initially and is preserved by every action          *)

LEMMA InitDInv == Init => DInv
<1> SUFFICES ASSUME Init PROVE DInv
  OBVIOUS
<1>1. def = [f \in Fields[kind] |-> Default(Shape[f])]
  BY DEF Init, NewDef
<1>2. \A f \in Fields[kind] : def[f] \in Values(Shape[f])
  BY <1>1, FieldShapes, DefaultValue DEF Init
<1>3. TypeOK
  BY <1>1, <1>2, DefAssumption DEF Init, TypeOK
<1> QED
  BY <1>3 DEF Init, DInv, CacheOK, RereadExact

LEMMA SetFieldDInv ==
    ASSUME DInv, NEW f \in Fields[kind], NEW v \in Values(Shape[f]),
           SetField(f, v)
    PROVE  DInv'
<1>1. /\ DOMAIN def' = Fields[kind]
      /\ \A g \in Fields[kind] : def'[g] \in Values(Shape[g])
  BY DEF DInv, TypeOK, SetField
<1>2. edits' \in 0 .. MaxEdits
  BY DefAssumption DEF DInv, TypeOK, SetField
<1>3. TypeOK'
  BY <1>1, <1>2 DEF DInv, TypeOK, SetField
<1> QED
  BY <1>3 DEF DInv, SetField, CacheOK, RereadExact

LEMMA SaveDInv ==
    ASSUME DInv, Save
    PROVE  DInv'
<1>1. cache' = [g \in Fields[kind] |-> WriteField(Shape[g], def[g])]
  BY DEF Save, Serialize, DInv, TypeOK
<1>2. \A g \in Fields[kind] : CacheField(Shape[g], cache'[g])
  BY <1>1, WriteFieldShape DEF DInv, TypeOK
<1>3. CacheOK'
  BY <1>1, <1>2 DEF Save, CacheOK
<1> QED
  BY <1>3 DEF DInv, Save, TypeOK, RereadExact, IdsRead

LEMMA CorruptIdDInv ==
    ASSUME NarrowCorrupt, DInv,
           NEW f \in {g \in Fields[kind] : Shape[g] = "id"},
           NEW n \in CorruptIds, CorruptId(f, n)
    PROVE  DInv'
<1>1. cache = [g \in Fields[kind] |-> cache[g]]
  BY DEF CorruptId, DInv, CacheOK
<1>2. cache' = [g \in Fields[kind] |-> IF g = f THEN n ELSE cache[g]]
  BY <1>1 DEF CorruptId
<1>3. \A g \in Fields[kind] : CacheField(Shape[g], cache'[g])
  BY <1>2 DEF CorruptId, DInv, CacheOK, CacheField, NarrowCorrupt
<1>4. CacheOK'
  BY <1>2, <1>3 DEF CorruptId, CacheOK
<1> QED
  BY <1>4 DEF DInv, CorruptId, TypeOK, RereadExact, IdsRead
LEMMA LoadDInv ==
    ASSUME WideLong, DInv, Load
    PROVE  DInv'
<1>1. /\ cache = [g \in Fields[kind] |-> cache[g]]
      /\ \A g \in Fields[kind] : CacheField(Shape[g], cache[g])
  BY DEF Load, DInv, CacheOK
<1>2. loaded' = [g \in Fields[kind] |-> ReadField(Shape[g], cache[g])]
  BY <1>1 DEF Load, Deserialize
<1>3. RereadExact'
  <2>1. Serialize(loaded') =
          [g \in Fields[kind] |-> WriteField(Shape[g], ReadField(Shape[g], cache[g]))]
    BY <1>2 DEF Serialize
  <2>2. \A g \in Fields[kind] :
          WriteField(Shape[g], ReadField(Shape[g], cache[g])) = cache[g]
    BY <1>1, FieldRereads
  <2> QED
    BY <1>1, <2>1, <2>2 DEF Load, RereadExact
<1>4. IdsRead(loaded')
  <2>1. \A g \in Fields[kind] : Shape[g] \in {"id", "ids"} => loaded'[g] = cache[g]
    BY <1>1, <1>2, ReadIdsKeeps
  <2>2. ASSUME NEW g \in Fields[kind]
        PROVE  /\ Shape[g] = "id" => loaded'[g] \in RawIds \cup {None}
               /\ Shape[g] = "ids" => \A i \in DOMAIN loaded'[g] : loaded'[g][i] \in RawIds
    <3>1. CacheField(Shape[g], cache[g])
      BY <1>1
    <3>2. CASE Shape[g] = "id"
      BY <2>1, <3>1, <3>2 DEF CacheField, ValidIds
    <3>3. CASE Shape[g] = "ids"
      <4>1. loaded'[g] \in Seq(RawIds)
        BY <2>1, <3>1, <3>3 DEF CacheField
      <4> QED
        BY <3>3, <4>1
    <3> QED
      BY <3>2, <3>3
  <2> QED
    BY <1>2, <2>2 DEF IdsRead
<1>5. TypeOK'
  BY <1>2, <1>4 DEF Load, DInv, TypeOK
<1>6. CacheOK'
  BY DEF Load, DInv, CacheOK
<1> QED
  BY <1>3, <1>5, <1>6 DEF DInv

LEMMA NextDInv ==
    ASSUME WideLong, NarrowCorrupt, DInv, [Next]_vars
    PROVE  DInv'
<1>1. CASE \E f \in Fields[kind] : \E v \in Values(Shape[f]) \ {def[f]} :
             SetField(f, v)
  BY <1>1, SetFieldDInv
<1>2. CASE Save
  BY <1>2, SaveDInv
<1>3. CASE \E f \in {g \in Fields[kind] : Shape[g] = "id"}, n \in CorruptIds :
             CorruptId(f, n)
  BY <1>3, CorruptIdDInv
<1>4. CASE Load
  BY <1>4, LoadDInv
<1>5. CASE UNCHANGED vars
  BY <1>5 DEF vars, DInv, TypeOK, CacheOK, RereadExact, IdsRead
<1> QED
  BY <1>1, <1>2, <1>3, <1>4, <1>5 DEF Next

\* When every valid id fits in a `long` and a damaged cache holds only
\* valid RawIds where ids were written, every Def that Reflect(Reader&) reads back
\* from the cache (LoadCachedFile) is written back by Reflect(Writer&)
\* (WriteToCache) to exactly the text it was read from, for each of the
\* three Def records, whatever members the parser set.
THEOREM RereadExactHolds ==
    ASSUME WideLong, NarrowCorrupt
    PROVE  Spec => []RereadExact
<1>1. Init => DInv
  BY InitDInv
<1>2. DInv /\ [Next]_vars => DInv'
  BY NextDInv
<1>3. DInv => RereadExact
  BY DEF DInv
<1> QED
  BY <1>1, <1>2, <1>3, PTL DEF Spec

=============================================================================
