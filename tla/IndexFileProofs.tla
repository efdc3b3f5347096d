-------------------------- MODULE IndexFileProofs --------------------------
(***************************************************************************)
(* Proofs about IndexFile for every finite set of usrs and every RawId     *)
(* width: the handles ToId hands out always have a value, the two IdCache  *)
(* directions and the entity vectors stay consistent, and the handle last  *)
(* returned resolves to the one entity of its usr.                         *)
(*                                                                         *)
(* TypeOK alone is not inductive: that a new id is never the sentinel      *)
(* needs the vector to hold distinct usrs (so that it is no longer than    *)
(* Usr), which is what IdCacheConsistent says; and IdentityStable needs    *)
(* the last returned handle to be the cached one (RetCached).              *)
(***************************************************************************)
EXTENDS IndexFile, FiniteSetTheorems, TLAPS

\* The last handle ToId returned is still the one cached for its usr.
RetCached == ret # NoId => ret.id = usrToId[ret.kind][ret.usr]

IInv == TypeOK /\ IdCacheConsistent /\ RetCached

-----------------------------------------------------------------------------

LEMMA RawIdLimitType == RawIdLimit \in Nat /\ InvalidId \in Nat
<1>1. Cardinality(Usr) \in Nat
  BY UsrBound, FS_CardinalityType
<1>2. RawIdLimit \in Int
  BY RawIdBitsAssumption DEF RawIdLimit
<1> QED
  BY <1>1, <1>2, UsrBound DEF InvalidId

LEMMA SeqElem ==
  ASSUME NEW S, NEW q \in Seq(S), NEW s \in 1 .. Len(q)
  PROVE  q[s] \in S
OBVIOUS

\* The usr of every entity of a well-typed vector.
LEMMA EntityUsr ==
  ASSUME TypeOK, NEW k \in Kinds, NEW s \in 1 .. Len(entities[k])
  PROVE  /\ entities[k][s] \in [usr : Usr, id : ValidIds]
         /\ entities[k][s].usr \in Usr
         /\ entities[k][s].id \in ValidIds
<1>1. entities[k] \in Seq([usr : Usr, id : ValidIds])
  BY DEF TypeOK
<1>2. entities[k][s] \in [usr : Usr, id : ValidIds]
  BY <1>1, SeqElem, Zenon
<1> QED
  BY <1>2

LEMMA SeqAppend ==
  ASSUME NEW S, NEW q \in Seq(S), NEW e \in S
  PROVE  Append(q, e) \in Seq(S)
OBVIOUS

LEMMA ModSmall ==
  ASSUME NEW x \in Nat, NEW m \in Nat, x < m
  PROVE  x % m = x
OBVIOUS

\* A sequence of n pairwise distinct usrs is no longer than Usr.
LEMMA DistinctUsrBound ==
  ASSUME NEW n \in Nat, NEW f \in [1 .. n -> Usr],
         \A a, b \in 1 .. n : f[a] = f[b] => a = b
  PROVE  n <= Cardinality(Usr)
<1>1. f \in Injection(1 .. n, Usr)
  BY DEF Injection, IsInjective
<1>2. Cardinality(1 .. n) <= Cardinality(Usr)
  BY <1>1, UsrBound, FS_Injection
<1>3. Cardinality(1 .. n) = n
  BY FS_Interval
<1> QED
  BY <1>2, <1>3

\* A usr not yet cached can be added to the vector without reaching the
\* sentinel: the new id is the vector's length, and it has a value.
LEMMA NewIdValid ==
  ASSUME TypeOK, IdCacheConsistent, NEW k \in Kinds, NEW u \in Usr,
         usrToId[k][u] = NoId
  PROVE  /\ NewId(k) = Len(entities[k])
         /\ NewId(k) \in ValidIds
<1> DEFINE n == Len(entities[k])
           f == [s \in 1 .. n + 1 |-> IF s <= n THEN entities[k][s].usr ELSE u]
<1> USE DEF n, f
<1>1. n \in Nat
  BY DEF TypeOK
<1>2. f \in [1 .. n + 1 -> Usr]
  BY <1>1, EntityUsr
<1>3. \A s \in 1 .. n : usrToId[k][entities[k][s].usr] = s - 1
  BY DEF IdCacheConsistent, VectorMatchesCache
<1>4. \A a, b \in 1 .. n + 1 : f[a] = f[b] => a = b
  <2> SUFFICES ASSUME NEW a \in 1 .. n + 1, NEW b \in 1 .. n + 1, f[a] = f[b]
               PROVE  a = b
    OBVIOUS
  <2>1. CASE a <= n /\ b <= n
    <3>1. f[a] = entities[k][a].usr /\ f[b] = entities[k][b].usr
      BY <2>1, <1>1
    <3>2. usrToId[k][f[a]] = a - 1 /\ usrToId[k][f[b]] = b - 1
      BY <2>1, <3>1, <1>1, <1>3
    <3> QED
      BY <3>2, <1>1
  <2>2. CASE a <= n /\ b = n + 1
    <3>1. usrToId[k][u] = a - 1
      BY <2>2, <1>1, <1>3
    <3> QED
      BY <3>1, SentinelAssumption
  <2>3. CASE a = n + 1 /\ b <= n
    <3>1. usrToId[k][u] = b - 1
      BY <2>3, <1>1, <1>3
    <3> QED
      BY <3>1, SentinelAssumption
  <2>4. CASE a = n + 1 /\ b = n + 1
    BY <2>4
  <2>5. (a <= n \/ a = n + 1) /\ (b <= n \/ b = n + 1)
    BY <1>1
  <2> QED
    BY <2>1, <2>2, <2>3, <2>4, <2>5
<1>5. n + 1 <= InvalidId
  <2>1. n + 1 \in Nat
    BY <1>1
  <2>2. n + 1 <= Cardinality(Usr)
    BY <2>1, <1>2, <1>4, DistinctUsrBound, Zenon
  <2>3. Cardinality(Usr) \in Nat
    BY UsrBound, FS_CardinalityType
  <2> QED
    BY <2>2, <2>3, <1>1, UsrBound, RawIdLimitType
<1>6. ToRawId(n) = n
  <2>1. n < RawIdLimit
    BY <1>1, <1>5, RawIdLimitType DEF InvalidId
  <2> QED
    BY <2>1, <1>1, RawIdLimitType, ModSmall DEF ToRawId
<1>7. n \in ValidIds
  <2>1. n \in RawIds
    BY <1>1, <1>5, RawIdLimitType DEF RawIds, InvalidId
  <2>2. HasValue(n)
    BY <1>1, <1>5, RawIdLimitType DEF HasValue
  <2> QED
    BY <2>1, <2>2 DEF ValidIds
<1> QED
  BY <1>6, <1>7 DEF NewId

-----------------------------------------------------------------------------

LEMMA InitIInv == Init => IInv
<1> SUFFICES ASSUME Init PROVE IInv
  OBVIOUS
<1>1. TypeOK
  BY SentinelAssumption DEF Init, TypeOK, LanguageIds, Unknown
<1>2. IdCacheConsistent
  BY SentinelAssumption DEF Init, IdCacheConsistent, CacheMapsInverse,
                            VectorMatchesCache
<1>3. RetCached
  BY DEF Init, RetCached
<1> QED
  BY <1>1, <1>2, <1>3 DEF IInv

\* ToIdFound changes only ret, to the handle cached for its usr.
LEMMA FoundIInv ==
  ASSUME IInv, NEW k \in Kinds, NEW u \in Usr, ToIdFound(k, u)
  PROVE  IInv'
<1>1. usrToId[k][u] \in ValidIds
  BY DEF ToIdFound, IInv, TypeOK
<1>2. TypeOK'
  BY <1>1 DEF ToIdFound, IInv, TypeOK
<1>3. IdCacheConsistent'
  BY DEF ToIdFound, IInv, IdCacheConsistent, CacheMapsInverse,
         VectorMatchesCache
<1>4. RetCached'
  BY DEF ToIdFound, RetCached
<1> QED
  BY <1>2, <1>3, <1>4 DEF IInv

\* OnIndexDeclaration changes only the language, within LanguageIds.
LEMMA DeclIInv ==
  ASSUME IInv, NEW lang \in LanguageIds, OnIndexDeclaration(lang)
  PROVE  IInv'
BY DEF OnIndexDeclaration, IInv, TypeOK, IdCacheConsistent, CacheMapsInverse,
       VectorMatchesCache, RetCached

\* ToIdCreate appends the usr at slot n + 1 with id n = Len(entities[k]) and
\* maps u <-> n; every other usr and every other id keeps its entry.
LEMMA CreateIInv ==
  ASSUME IInv, NEW k \in Kinds, NEW u \in Usr, ToIdCreate(k, u)
  PROVE  IInv'
<1> USE DEF IInv
<1> DEFINE n == Len(entities[k])
<1>1. /\ usrToId[k][u] = NoId
      /\ NewId(k) = n
      /\ n \in ValidIds
  BY NewIdValid DEF ToIdCreate
<1>2. /\ entities' = [entities EXCEPT ![k] = Append(@, [usr |-> u, id |-> n])]
      /\ usrToId' = [usrToId EXCEPT ![k][u] = n]
      /\ idToUsr' = [idToUsr EXCEPT ![k][n] = u]
      /\ ret' = [kind |-> k, usr |-> u, id |-> n]
      /\ UNCHANGED language
  BY <1>1 DEF ToIdCreate, NewEntity
<1>3. n \in Nat /\ n \in RawIds
  BY <1>1 DEF ValidIds
<1>4. \A v \in Usr : usrToId[k][v] # NoId => usrToId[k][v] < n
  BY DEF IdCacheConsistent, VectorMatchesCache
<1>5. TypeOK'
  <2>1. entities'[k] \in Seq([usr : Usr, id : ValidIds])
    <3>1. entities[k] \in Seq([usr : Usr, id : ValidIds])
      BY DEF TypeOK
    <3>2. [usr |-> u, id |-> n] \in [usr : Usr, id : ValidIds]
      BY <1>1
    <3>3. entities'[k] = Append(entities[k], [usr |-> u, id |-> n])
      BY <1>2 DEF TypeOK
    <3> QED
      BY <3>1, <3>2, <3>3, SeqAppend, Zenon
  <2> QED
    BY <1>1, <1>2, <2>1 DEF TypeOK
<1>6. ASSUME NEW j \in Kinds, j # k
      PROVE  CacheMapsInverse(j)' /\ VectorMatchesCache(j)'
  BY <1>2, <1>6 DEF TypeOK, IdCacheConsistent, CacheMapsInverse,
                    VectorMatchesCache
<1>7. CacheMapsInverse(k)'
  <2>1. ASSUME NEW v \in Usr, usrToId'[k][v] # NoId
        PROVE  idToUsr'[k][usrToId'[k][v]] = v
    <3>1. CASE v = u
      BY <3>1, <1>2, <1>3 DEF TypeOK
    <3>2. CASE v # u
      <4>1. usrToId'[k][v] = usrToId[k][v] /\ usrToId[k][v] # NoId
        BY <3>2, <2>1, <1>2 DEF TypeOK
      <4>2. usrToId[k][v] # n /\ usrToId[k][v] \in RawIds
        BY <4>1, <1>3, <1>4 DEF TypeOK, ValidIds
      <4>3. idToUsr[k][usrToId[k][v]] = v
        BY <4>1 DEF IdCacheConsistent, CacheMapsInverse
      <4> QED
        BY <4>1, <4>2, <4>3, <1>2 DEF TypeOK
    <3> QED
      BY <3>1, <3>2
  <2>2. ASSUME NEW i \in RawIds, idToUsr'[k][i] # NoUsr
        PROVE  usrToId'[k][idToUsr'[k][i]] = i
    <3>1. CASE i = n
      BY <3>1, <1>2, <1>3 DEF TypeOK
    <3>2. CASE i # n
      <4>1. idToUsr'[k][i] = idToUsr[k][i] /\ idToUsr[k][i] # NoUsr
        BY <3>2, <2>2, <1>2 DEF TypeOK
      <4>2. usrToId[k][idToUsr[k][i]] = i
        BY <4>1 DEF IdCacheConsistent, CacheMapsInverse
      <4>3. idToUsr[k][i] \in Usr
        BY <4>1 DEF TypeOK
      <4>4. idToUsr[k][i] # u
        <5>1. i \in Int
          BY RawIdLimitType DEF RawIds
        <5> QED
          BY <4>2, <5>1, <1>1, SentinelAssumption
      <4> QED
        BY <4>1, <4>2, <4>3, <4>4, <1>2 DEF TypeOK
    <3> QED
      BY <3>1, <3>2
  <2> QED
    BY <2>1, <2>2 DEF CacheMapsInverse
<1>8. VectorMatchesCache(k)'
  <2>1. Len(entities'[k]) = n + 1
    BY <1>2, <1>3 DEF TypeOK
  <2>2. ASSUME NEW s \in 1 .. n
        PROVE  /\ entities'[k][s].id = s - 1
               /\ usrToId'[k][entities'[k][s].usr] = s - 1
    <3>1. entities'[k][s] = entities[k][s]
      BY <1>2, <1>3 DEF TypeOK
    <3>2. /\ entities[k][s].id = s - 1
          /\ usrToId[k][entities[k][s].usr] = s - 1
      BY DEF IdCacheConsistent, VectorMatchesCache
    <3>3. entities[k][s].usr \in Usr /\ entities[k][s].usr # u
      BY <3>2, <1>1, EntityUsr, SentinelAssumption
    <3> QED
      BY <3>1, <3>2, <3>3, <1>2 DEF TypeOK
  <2>3. entities'[k][n + 1] = [usr |-> u, id |-> n]
    BY <1>2, <1>3 DEF TypeOK
  <2>4. usrToId'[k][u] = n
    BY <1>2 DEF TypeOK
  <2>5. ASSUME NEW v \in Usr, usrToId'[k][v] # NoId
        PROVE  usrToId'[k][v] < n + 1
    <3>1. CASE v = u
      BY <3>1, <2>4, <1>3
    <3>2. CASE v # u
      <4>1. usrToId'[k][v] = usrToId[k][v]
        BY <3>2, <1>2 DEF TypeOK
      <4>2. usrToId[k][v] < n /\ usrToId[k][v] \in Int
        BY <4>1, <2>5, <1>4, RawIdLimitType DEF TypeOK, ValidIds, RawIds
      <4> QED
        BY <4>1, <4>2, <1>3
    <3> QED
      BY <3>1, <3>2
  <2> QED
    BY <2>1, <2>2, <2>3, <2>4, <2>5, <1>3 DEF VectorMatchesCache
<1>9. RetCached'
  BY <1>2 DEF RetCached, TypeOK
<1> QED
  BY <1>5, <1>6, <1>7, <1>8, <1>9 DEF IdCacheConsistent

LEMMA NextIInv == IInv /\ [Next]_vars => IInv'
<1> SUFFICES ASSUME IInv, [Next]_vars PROVE IInv'
  OBVIOUS
<1>1. ASSUME NEW k \in Kinds, NEW u \in Usr, ToIdFound(k, u) PROVE IInv'
  BY <1>1, FoundIInv
<1>2. ASSUME NEW k \in Kinds, NEW u \in Usr, ToIdCreate(k, u) PROVE IInv'
  BY <1>2, CreateIInv
<1>3. ASSUME NEW lang \in LanguageIds, OnIndexDeclaration(lang) PROVE IInv'
  BY <1>3, DeclIInv
<1>4. CASE UNCHANGED vars
  BY <1>4 DEF vars, IInv, TypeOK, IdCacheConsistent, CacheMapsInverse,
              VectorMatchesCache, RetCached
<1> QED
  BY <1>1, <1>2, <1>3, <1>4 DEF Next, ToId

\* The handle last returned resolves to the one entity of its usr.
LEMMA IInvStable == IInv => IdentityStable
<1> SUFFICES ASSUME IInv, ret # NoId PROVE IdentityStable
  BY DEF IdentityStable
<1> DEFINE k == ret.kind
           x == ret.usr
           i == ret.id
           n == Len(entities[k])
<1>1. k \in Kinds /\ x \in Usr /\ i \in ValidIds /\ n \in Nat
  BY DEF IInv, TypeOK
<1>2. i = usrToId[k][x]
  BY DEF IInv, RetCached
<1>3. i \in Nat /\ i < n
  BY <1>1, <1>2, RawIdLimitType, SentinelAssumption
     DEF IInv, IdCacheConsistent, VectorMatchesCache, ValidIds, RawIds
<1>4. \A s \in 1 .. n : usrToId[k][entities[k][s].usr] = s - 1
  BY <1>1 DEF IInv, IdCacheConsistent, VectorMatchesCache
<1>5. entities[k][Slot(i)].usr = x
  <2>1. entities[k][Slot(i)].usr \in Usr
    BY <1>1, <1>3, EntityUsr DEF IInv, Slot
  <2>2. usrToId[k][entities[k][Slot(i)].usr] = i
    <3>1. Slot(i) \in 1 .. n /\ Slot(i) - 1 = i
      BY <1>3 DEF Slot
    <3>2. usrToId[k][entities[k][Slot(i)].usr] = Slot(i) - 1
      BY <3>1, <1>4
    <3> QED
      BY <3>1, <3>2
  <2>3. idToUsr[k][i] = x
    <3>1. usrToId[k][x] # NoId
      BY <1>2, <1>3, SentinelAssumption
    <3>2. CacheMapsInverse(k)
      BY <1>1 DEF IInv, IdCacheConsistent
    <3> QED
      BY <3>1, <3>2, <1>1, <1>2 DEF CacheMapsInverse
  <2>4. idToUsr[k][i] = entities[k][Slot(i)].usr
    BY <1>1, <2>1, <2>2, SentinelAssumption, RawIdLimitType
       DEF IInv, IdCacheConsistent, CacheMapsInverse, ValidIds, RawIds
  <2> QED
    BY <2>3, <2>4
<1>6. \A s \in 1 .. n : entities[k][s].usr = x => s = Slot(i)
  BY <1>2, <1>3, <1>4 DEF Slot
<1> QED
  BY <1>2, <1>3, <1>5, <1>6 DEF IdentityStable, Slot

-----------------------------------------------------------------------------

\* Every entity, cache entry and returned handle has a value: ToId never
\* hands out the sentinel Id() as long as a file has fewer distinct usrs of
\* a kind than the sentinel's RawId (the TypeOK run of MCIndexFile).
THEOREM TypeCorrect == Spec => []TypeOK
<1>1. Spec => []IInv
  BY InitIInv, NextIInv, PTL DEF Spec
<1> QED
  BY <1>1, PTL DEF IInv

\* usr_to_*_id and *_id_to_usr stay inverse to each other and to the entity
\* vectors after any sequence of ToTypeId/ToFuncId/ToVarId calls.
THEOREM CacheConsistency == Spec => []IdCacheConsistent
<1>1. Spec => []IInv
  BY InitIInv, NextIInv, PTL DEF Spec
<1> QED
  BY <1>1, PTL DEF IInv

\* Identity stability (spec section 8): the handle ToId returns resolves to
\* the single entity of that usr.
THEOREM IdentityStability == Spec => []IdentityStable
<1>1. Spec => []IInv
  BY InitIInv, NextIInv, PTL DEF Spec
<1> QED
  BY <1>1, IInvStable, PTL

-----------------------------------------------------------------------------
(* Refinement: IndexFile implements the identity contract IdentityMap      *)
(* under the mapping handleOf <- usrToId, last <- ret.                     *)

LEMMA InitRefines == Init => Abs!Init
BY DEF Init, Abs!Init, Unknown, Kinds, Abs!Kinds

LEMMA FoundRefines ==
  ASSUME IInv, NEW k \in Kinds, NEW u \in Usr, ToIdFound(k, u)
  PROVE  Abs!Resolve(k, u)
BY DEF ToIdFound, Abs!Resolve

\* A fresh id is no usr's handle yet: every cached id lies below Len.
LEMMA NewIdFresh ==
  ASSUME IInv, NEW k \in Kinds, NEW u \in Usr, usrToId[k][u] = NoId
  PROVE  NewId(k) \in ValidIds \ Abs!Bound(k)
<1>1. NewId(k) = Len(entities[k]) /\ NewId(k) \in ValidIds
  BY NewIdValid DEF IInv
<1>2. \A v \in Usr : usrToId[k][v] # NoId => usrToId[k][v] < Len(entities[k])
  BY DEF IInv, IdCacheConsistent, VectorMatchesCache
<1> QED
  BY <1>1, <1>2 DEF Abs!Bound

LEMMA CreateRefines ==
  ASSUME IInv, NEW k \in Kinds, NEW u \in Usr, ToIdCreate(k, u)
  PROVE  Abs!Resolve(k, u)
<1> DEFINE id == NewId(k)
<1>1. id \in ValidIds \ Abs!Bound(k)
  BY NewIdFresh DEF ToIdCreate
<1>2. usrToId' = [usrToId EXCEPT ![k][u] = id]
  BY DEF ToIdCreate
<1>3. usrToId'[k][u] = id
  BY <1>2 DEF IInv, TypeOK
<1>4. ret' = [kind |-> k, usr |-> u, id |-> usrToId'[k][u]]
  BY <1>3 DEF ToIdCreate
<1>5. \E h \in Abs!ValidIds \ Abs!Bound(k) : usrToId' = [usrToId EXCEPT ![k][u] = h]
  <2>1. Abs!ValidIds = ValidIds
    BY DEF Abs!ValidIds, ValidIds, Abs!RawIds, RawIds, Abs!HasValue, HasValue,
           Abs!InvalidId, InvalidId, Abs!RawIdLimit, RawIdLimit
  <2> QED
    BY <1>1, <1>2, <2>1
<1>6. usrToId[k][u] = NoId /\ UNCHANGED language
  BY DEF ToIdCreate
<1> QED
  BY <1>4, <1>5, <1>6 DEF Abs!Resolve

LEMMA DeclRefines ==
  ASSUME NEW lang \in LanguageIds, OnIndexDeclaration(lang)
  PROVE  Abs!Classify
BY DEF OnIndexDeclaration, Abs!Classify, Abs!Languages, LanguageIds,
       Unknown, C, Cpp, ObjC

LEMMA NextRefines == IInv /\ [Next]_vars => [Abs!Next]_Abs!vars
<1> SUFFICES ASSUME IInv, [Next]_vars PROVE [Abs!Next]_Abs!vars
  OBVIOUS
<1>1. ASSUME NEW k \in Kinds, NEW u \in Usr, ToIdFound(k, u)
      PROVE  [Abs!Next]_Abs!vars
  BY <1>1, FoundRefines DEF Abs!Next, Abs!Kinds, Kinds
<1>2. ASSUME NEW k \in Kinds, NEW u \in Usr, ToIdCreate(k, u)
      PROVE  [Abs!Next]_Abs!vars
  BY <1>2, CreateRefines DEF Abs!Next, Abs!Kinds, Kinds
<1>3. ASSUME NEW lang \in LanguageIds, OnIndexDeclaration(lang)
      PROVE  [Abs!Next]_Abs!vars
  BY <1>3, DeclRefines DEF Abs!Next
<1>4. CASE UNCHANGED vars
  BY <1>4 DEF vars, Abs!vars
<1> QED
  BY <1>1, <1>2, <1>3, <1>4 DEF Next, ToId

\* The IndexFile of indexer.h, driven by any sequence of ToTypeId /
\* ToFuncId / ToVarId calls and language promotions, implements the
\* identity contract: each step is a resolve or a classification the
\* contract allows, or leaves the usr -> handle map, the last returned
\* handle and the language unchanged.
THEOREM Refinement == Spec => ImplementsIdentityMap
<1>1. Spec => []IInv
  BY InitIInv, NextIInv, PTL DEF Spec
<1> QED
  BY <1>1, InitRefines, NextRefines, PTL DEF Spec, ImplementsIdentityMap, Abs!Spec

=============================================================================
