----------------------------- MODULE IndexFile -----------------------------
(***************************************************************************)
(* One IndexFile (src/src/indexer.h) while the parser populates it: the    *)
(* three entity vectors `types`, `funcs`, `vars`, the six maps of its      *)
(* IdCache, and the file's LanguageId.                                     *)
(*                                                                         *)
(* An entity is abstracted to the two fields that make its identity,       *)
(* `usr` and `id`; its Def and relationship lists are data the identity    *)
(* properties do not tell apart.  A handle (Id<T>) is its RawId, an        *)
(* unsigned integer of RawIdBits bits whose all-ones value is the invalid  *)
(* sentinel Id() == Id(-1).                                                *)
(*                                                                         *)
(* The bodies of ToTypeId/ToFuncId/ToVarId live in indexer.cc, which is   *)
(* not part of this repository's sources; they are modelled from the spec  *)
(* (section 4.2): look the usr up, else allocate Id(vector.size()), push   *)
(* the new entity and insert both map directions.                          *)
(***************************************************************************)
EXTENDS IndexId, Sequences, FiniteSets

CONSTANTS
    Usr,        \* the usrs the parser may resolve in this file
    NoId,       \* "not in usr_to_*_id" (find() == end())
    NoUsr       \* "not in *_id_to_usr"

\* The three entity kinds of one IndexFile: types, funcs, vars.
Kinds == {"type", "func", "var"}

\* LanguageId { Unknown = 0, C = 1, Cpp = 2, ObjC = 3 }.
Unknown == 0
C == 1
Cpp == 2
ObjC == 3
LanguageIds == {Unknown, C, Cpp, ObjC}

ASSUME SentinelAssumption == NoId \notin Int /\ NoUsr \notin Usr
\* The number of distinct usrs of one kind in one file stays below the
\* invalid sentinel (for uint32_t: fewer than 2^32 - 1 symbols).
ASSUME UsrBound == IsFiniteSet(Usr) /\ Cardinality(Usr) <= InvalidId

VARIABLES
    entities,   \* entities[k]: the vector types / funcs / vars
    usrToId,    \* usrToId[k][u]: id_cache.usr_to_{type,func,var}_id
    idToUsr,    \* idToUsr[k][i]: id_cache.{type,func,var}_id_to_usr
    language,   \* IndexFile::language
    ret         \* the last ToId call and the handle it returned (NoId: none yet)

vars == <<entities, usrToId, idToUsr, language, ret>>

TypeOK ==
    /\ entities \in [Kinds -> Seq([usr : Usr, id : ValidIds])]
    /\ usrToId \in [Kinds -> [Usr -> ValidIds \cup {NoId}]]
    /\ idToUsr \in [Kinds -> [RawIds -> Usr \cup {NoUsr}]]
    /\ language \in LanguageIds
    /\ ret \in [kind : Kinds, usr : Usr, id : ValidIds] \cup {NoId}

\* IndexFile(path, contents): empty vectors, empty IdCache, language Unknown.
Init ==
    /\ entities = [k \in Kinds |-> <<>>]
    /\ usrToId = [k \in Kinds |-> [u \in Usr |-> NoId]]
    /\ idToUsr = [k \in Kinds |-> [i \in RawIds |-> NoUsr]]
    /\ language = Unknown
    /\ ret = NoId

\* IndexType(id, usr) / IndexFunc(id, usr) / IndexVar(id, usr): a new entity
\* with empty def and relationship lists, abstracted to its identity.
NewEntity(u, id) == [usr |-> u, id |-> id]

\* Mutant: the id is taken after the push_back (types.size() one too big).
NewIdAfterPush(k) == ToRawId(Len(entities[k]) + 1)

\* IndexTypeId id(types.size()): size_t narrowed to RawId.
NewId(k) == ToRawId(Len(entities[k]))

\* ToTypeId(usr) when usr_to_type_id already holds usr: return it.
ToIdFound(k, u) ==
    /\ usrToId[k][u] # NoId
    /\ ret' = [kind |-> k, usr |-> u, id |-> usrToId[k][u]]
    /\ UNCHANGED <<entities, usrToId, idToUsr, language>>

\* Mutant: the usr_to_type_id lookup is skipped, every call allocates.
ToIdCreateUnchecked(k, u) ==
    LET id == NewId(k) IN
    /\ entities' = [entities EXCEPT ![k] = Append(@, NewEntity(u, id))]
    /\ usrToId' = [usrToId EXCEPT ![k][u] = id]
    /\ idToUsr' = [idToUsr EXCEPT ![k][id] = u]
    /\ ret' = [kind |-> k, usr |-> u, id |-> id]
    /\ UNCHANGED language

\* Mutant: type_id_to_usr is not filled in.
ToIdCreateNoReverse(k, u) ==
    /\ usrToId[k][u] = NoId
    /\ LET id == NewId(k) IN
        /\ entities' = [entities EXCEPT ![k] = Append(@, NewEntity(u, id))]
        /\ usrToId' = [usrToId EXCEPT ![k][u] = id]
        /\ ret' = [kind |-> k, usr |-> u, id |-> id]
    /\ UNCHANGED <<idToUsr, language>>

\* ToTypeId(usr) otherwise: allocate id, push_back(IndexType(id, usr)),
\* then insert usr -> id and id -> usr.
ToIdCreate(k, u) ==
    /\ usrToId[k][u] = NoId
    /\ LET id == NewId(k) IN
        /\ entities' = [entities EXCEPT ![k] = Append(@, NewEntity(u, id))]
        /\ usrToId' = [usrToId EXCEPT ![k][u] = id]
        /\ idToUsr' = [idToUsr EXCEPT ![k][id] = u]
        /\ ret' = [kind |-> k, usr |-> u, id |-> id]
    /\ UNCHANGED language

\* Mutant: the cache hit is honoured but a miss path that skips the lookup
\* is also taken: a usr already cached is allocated again.
ToIdNoLookup(k, u) == ToIdFound(k, u) \/ ToIdCreateUnchecked(k, u)

\* Mutant: a new entity is not entered in the id -> usr map.
ToIdNoReverse(k, u) == ToIdFound(k, u) \/ ToIdCreateNoReverse(k, u)

\* ToTypeId / ToFuncId / ToVarId (and their CXCursor overloads, which
\* derive the usr and delegate).
ToId(k, u) == ToIdFound(k, u) \/ ToIdCreate(k, u)

\* A declaration of language lang is indexed: the file's language is only
\* promoted, "if (db->language < decl_lang) db->language = decl_lang".
OnIndexDeclaration(lang) ==
    /\ language < lang
    /\ language' = lang
    /\ UNCHANGED <<entities, usrToId, idToUsr, ret>>

Next ==
    \/ \E k \in Kinds, u \in Usr : ToId(k, u)
    \/ \E lang \in LanguageIds : OnIndexDeclaration(lang)

Spec == Init /\ [][Next]_vars

-----------------------------------------------------------------------------
(* Properties *)

\* Resolve(id) is &vector[id.id]: the entity at handle i is slot i + 1.
Slot(i) == i + 1

\* The IdCache invariant of the spec (section 3): for each kind the two maps
\* are inverse to each other, and both agree with the entity vector, whose
\* i-th element carries id i - 1 and is the only entity of its usr.
CacheMapsInverse(k) ==
    /\ \A u \in Usr : usrToId[k][u] # NoId => idToUsr[k][usrToId[k][u]] = u
    /\ \A i \in RawIds : idToUsr[k][i] # NoUsr => usrToId[k][idToUsr[k][i]] = i

VectorMatchesCache(k) ==
    /\ \A s \in 1 .. Len(entities[k]) :
          /\ entities[k][s].id = s - 1
          /\ usrToId[k][entities[k][s].usr] = s - 1
    /\ \A u \in Usr : usrToId[k][u] # NoId => usrToId[k][u] < Len(entities[k])

IdCacheConsistent ==
    \A k \in Kinds : CacheMapsInverse(k) /\ VectorMatchesCache(k)

\* Identity stability (spec section 8) as the parser sees it: the handle the
\* last ToId call returned is the one cached for that usr, Resolve of it
\* lands on an entity of that usr, and exactly one entity of the vector
\* carries that usr.
IdentityStable ==
    ret # NoId =>
        LET k == ret.kind IN
        /\ ret.id = usrToId[k][ret.usr]
        /\ Slot(ret.id) \in 1 .. Len(entities[k])
        /\ entities[k][Slot(ret.id)].usr = ret.usr
        /\ \A s \in 1 .. Len(entities[k]) :
              entities[k][s].usr = ret.usr => s = Slot(ret.id)

\* The identity contract the parser relies on, seen through the usr -> id
\* direction of the IdCache and the handle ToId last returned.
Abs == INSTANCE IdentityMap WITH handleOf <- usrToId, last <- ret

\* Every run of ToId calls and declarations is a run the identity contract
\* allows: a cached usr keeps its handle, a new usr gets a valid handle no
\* other usr of its kind has, and the language only rises.
ImplementsIdentityMap == Abs!Spec

=============================================================================
