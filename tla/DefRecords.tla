----------------------------- MODULE DefRecords -----------------------------
(***************************************************************************)
(* The Def records of src/src/indexer.h (TypeDefDefinitionData,             *)
(* FuncDefDefinitionData, VarDefDefinitionData): the members Reflect        *)
(* serializes, and the cache round trip of one entity's Def: the parser    *)
(* sets fields, the Def is written to the cache, the cache may be damaged, *)
(* and the Def is read back.                                                *)
(*                                                                         *)
(* A Def is a function from its Reflect member names to values.  Texts,    *)
(* int16 members and enums range over two values each (the default and    *)
(* one other); a Maybe<T> is None or a value; a vector holds at most one   *)
(* element.  A serialized Def maps each member name to its JSON value: an  *)
(* Id is the number Writer::Uint64 wrote, a callee the text of the         *)
(* IndexFuncRef codec (module FuncRefText).  Setting the fields is the    *)
(* parser's work in indexer.cc, outside these sources.                     *)
(***************************************************************************)
EXTENDS FuncRefText

CONSTANTS
    UintBits,    \* width of the integer GetUint64 returns (64)
    Handles,     \* the ids a Def member may hold
    CorruptIds,  \* numbers a damaged cache may hold where an id was written
    None,        \* an absent Maybe<T> (JSON null)
    MaxEdits     \* field writes by the parser, at most

UintLimit == 2 ^ UintBits

ASSUME DefAssumption ==
    /\ Handles \subseteq ValidIds
    /\ CorruptIds \subseteq 0 .. UintLimit - 1
    /\ None \notin Int \cup Locs /\ NoRef # None
    /\ MaxEdits \in Nat

DefKinds == {"type", "func", "var"}

\* The type of each member: "text" (std::string), "int" (int16_t), "enum"
\* (ClangSymbolKind, StorageClass, SymbolKind), "range" (Maybe<Range>),
\* "id" (Maybe<Id>), "ids" (std::vector<Id>), "refs" (std::vector<FuncRef>).
Shape ==
    [detailed_name |-> "text", hover |-> "text", comments |-> "text",
     short_name_offset |-> "int", short_name_size |-> "int",
     kind |-> "enum", storage |-> "enum", parent_kind |-> "enum",
     definition_spelling |-> "range", definition_extent |-> "range",
     alias_of |-> "id", declaring_type |-> "id", variable_type |-> "id",
     parent_id |-> "id",
     parents |-> "ids", types |-> "ids", funcs |-> "ids", vars |-> "ids",
     base |-> "ids", locals |-> "ids", callees |-> "refs"]

\* REFLECT_MEMBER lists of the three Reflect(TVisitor&, ...Def...) templates.
TypeDefFields ==
    {"detailed_name", "short_name_offset", "short_name_size", "kind", "hover",
     "comments", "definition_spelling", "definition_extent", "alias_of",
     "parents", "types", "funcs", "vars"}
FuncDefFields ==
    {"detailed_name", "short_name_offset", "short_name_size", "kind",
     "storage", "hover", "comments", "definition_spelling",
     "definition_extent", "declaring_type", "base", "locals", "callees"}
VarDefFields ==
    {"detailed_name", "short_name_size", "short_name_offset", "hover",
     "comments", "definition_spelling", "definition_extent", "variable_type",
     "parent_id", "parent_kind", "kind", "storage"}
Fields == [type |-> TypeDefFields, func |-> FuncDefFields, var |-> VarDefFields]

\* The callees a FuncDef may list.
Callees == [id : Handles, loc : Locs, implicit : BOOLEAN]

\* The values of a member of each type; the first listed is the default
\* of a freshly constructed Def ("", 0, Unknown/Invalid, absent, empty).
Values(s) ==
    CASE s = "text"  -> {"", "name"}
      [] s = "int"   -> {0, 1}
      [] s = "enum"  -> {0, 1}
      [] s = "range" -> {None} \cup Locs
      [] s = "id"    -> {None} \cup Handles
      [] s = "ids"   -> {<<>>} \cup {<<h>> : h \in Handles}
      [] s = "refs"  -> {<<>>} \cup {<<r>> : r \in Callees}

Default(s) ==
    CASE s = "text" -> "" [] s \in {"int", "enum"} -> 0
      [] s \in {"range", "id"} -> None [] s \in {"ids", "refs"} -> <<>>

NewDef(k) == [f \in Fields[k] |-> Default(Shape[f])]

\* Reflect(Writer&, ...): Id members as Uint64(value.id), callees through
\* the IndexFuncRef writer, every other member as it is.
WriteField(s, v) ==
    IF s = "refs" THEN [i \in DOMAIN v |-> Encode(v[i])] ELSE v

\* Reflect(Reader&, Id): id.id = visitor.GetUint64(), narrowed to RawId.
ReadId(n) == ToRawId(n)

\* Reflect(Reader&, Maybe<Id>): JSON null is an absent Maybe; a number is
\* read into the Maybe's Id as above, and the Maybe is absent again when
\* that Id fails Id::HasValue(), i.e. holds the all-ones sentinel.
ReadMaybeId(n) ==
    IF n = None \/ ~HasValue(ReadId(n)) THEN None ELSE ReadId(n)

\* Mutant: the callee reader does not skip the '~' of an implicit call.
ReadFieldNoSkip(s, v) ==
    CASE s = "id"   -> ReadMaybeId(v)
      [] s = "ids"  -> [i \in DOMAIN v |-> ReadId(v[i])]
      [] s = "refs" -> [i \in DOMAIN v |-> DecodeNoSkip(v[i])]
      [] OTHER      -> v

\* Reflect(Reader&, ...): the inverse member by member.
ReadField(s, v) ==
    CASE s = "id"   -> ReadMaybeId(v)
      [] s = "ids"  -> [i \in DOMAIN v |-> ReadId(v[i])]
      [] s = "refs" -> [i \in DOMAIN v |-> Decode(v[i])]
      [] OTHER      -> v

Serialize(d) == [f \in DOMAIN d |-> WriteField(Shape[f], d[f])]
Deserialize(t) == [f \in DOMAIN t |-> ReadField(Shape[f], t[f])]

VARIABLES
    kind,        \* which Def the entity has: type, func or var
    def,         \* the Def the parser is filling in
    edits,       \* field writes so far
    cache,       \* the serialized Def in the cache file (NoRef: none)
    loaded,      \* the Def last read back from the cache (NoRef: none)
    loadedFrom   \* the cache text it was read from

vars == <<kind, def, edits, cache, loaded, loadedFrom>>

\* An Id member read back holds a RawId (or is absent).
IdsRead(d) ==
    \A f \in DOMAIN d :
        /\ Shape[f] = "id" => d[f] \in RawIds \cup {None}
        /\ Shape[f] = "ids" => \A i \in DOMAIN d[f] : d[f][i] \in RawIds

TypeOK ==
    /\ kind \in DefKinds
    /\ DOMAIN def = Fields[kind] /\ \A f \in Fields[kind] : def[f] \in Values(Shape[f])
    /\ edits \in 0 .. MaxEdits
    /\ loaded = NoRef \/ (DOMAIN loaded = Fields[kind] /\ IdsRead(loaded))

Init ==
    /\ kind \in DefKinds
    /\ def = NewDef(kind)
    /\ edits = 0
    /\ cache = NoRef
    /\ loaded = NoRef
    /\ loadedFrom = NoRef

\* The parser sets member f of the Def.
SetField(f, v) ==
    /\ edits < MaxEdits
    /\ def' = [def EXCEPT ![f] = v]
    /\ edits' = edits + 1
    /\ UNCHANGED <<kind, cache, loaded, loadedFrom>>

\* The Def is written to the cache.
Save ==
    /\ cache' = Serialize(def)
    /\ UNCHANGED <<kind, def, edits, loaded, loadedFrom>>

\* The number stored for Id member f is damaged.
CorruptId(f, n) ==
    /\ cache # NoRef
    /\ cache' = [cache EXCEPT ![f] = n]
    /\ UNCHANGED <<kind, def, edits, loaded, loadedFrom>>

\* The Def is read back from the cache.
Load ==
    /\ cache # NoRef
    /\ loaded' = Deserialize(cache)
    /\ loadedFrom' = cache
    /\ UNCHANGED <<kind, def, edits, cache>>

Next ==
    \/ \E f \in Fields[kind] :
          \E v \in Values(Shape[f]) \ {def[f]} : SetField(f, v)
    \/ Save
    \/ \E f \in {g \in Fields[kind] : Shape[g] = "id"}, n \in CorruptIds :
          CorruptId(f, n)
    \/ Load

Spec == Init /\ [][Next]_vars

-----------------------------------------------------------------------------
(* Properties *)

\* Reading is exact: a Def the reader accepts from the cache writes back to
\* the very text it was read from, through the Id members' GetUint64 and
\* the callees' "[~]id@range" codec alike.  A reader that changes a value
\* it accepted (narrowing a number, losing is_implicit) breaks this.
RereadExact == loaded # NoRef => Serialize(loaded) = loadedFrom
=============================================================================
