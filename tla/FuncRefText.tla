---------------------------- MODULE FuncRefText -----------------------------
(***************************************************************************)
(* The text codec of IndexFuncRef (src/src/indexer.h): Reflect(Writer&)    *)
(* turns a reference into "[~]<id>@<range>", Reflect(Reader&) parses it    *)
(* back with atol and strchr.                                              *)
(*                                                                         *)
(* A string is a sequence of tokens: Tilde, At, a decimal numeral (the    *)
(* integer it denotes) or a serialized Range (a member of Locs).  Range's  *)
(* ToString and its parsing constructor are not part of this repository's  *)
(* sources; a range round-trips through its own text and any other text    *)
(* parses to EmptyRange.  `long` has LongBits bits (64 on LP64 Linux and    *)
(* macOS, 32 on LLP64 Windows); atol saturates to its range.               *)
(***************************************************************************)
EXTENDS IndexId, Sequences

CONSTANTS
    LongBits,    \* width of C `long`, the result type of atol
    Locs,        \* the ranges a reference may carry
    EmptyRange,  \* Range() : what Range(text) yields for a malformed text
    Numerals,    \* integers whose numerals may appear in a corrupt text
    MaxTextLen,  \* longest corrupt text, in tokens
    NoRef,       \* no reference / no text / nothing decoded yet
    Crash,       \* the reader dereferenced strchr(...) + 1 == NULL + 1
    Tilde,       \* the character '~'
    At           \* the character '@'

ASSUME CodecSentinels ==
    /\ EmptyRange \notin Locs
    /\ Tilde \notin Int \cup Locs /\ At \notin Int \cup Locs /\ Tilde # At
    /\ Numerals \subseteq Int
    /\ MaxTextLen \in Nat
    /\ NoRef \notin [id : Int, loc : Locs, implicit : BOOLEAN]

LongMax == 2 ^ (LongBits - 1) - 1
LongMin == -(2 ^ (LongBits - 1))

\* `long` has at least one bit; the second conjunct follows from the first
\* and is stated because the provers do not reason about ^.
ASSUME LongBitsAssumption == LongBits \in Nat \ {0} /\ LongMax \in Nat

\* IndexFuncRef { IndexFuncId id; Range loc; bool is_implicit; }
FuncRefs == [id : RawIds, loc : Locs, implicit : BOOLEAN]
DecodedRefs == [id : RawIds, loc : Locs \cup {EmptyRange}, implicit : BOOLEAN]

\* The member IndexFuncRef::operator==: id, loc and is_implicit.
FuncRefEq(a, b) == a.id = b.id /\ a.loc = b.loc /\ a.implicit = b.implicit

\* The numerals a string may start with: what the writer emits, and more.
NumeralTokens == Numerals \cup RawIds \cup {-1}
Tokens == {Tilde, At} \cup Numerals \cup Locs
Texts == UNION {[1 .. n -> Tokens] : n \in 0 .. MaxTextLen}

\* The numeral the writer emits for an id: "-1" for the invalid one.
IdNumeral(id) == IF HasValue(id) THEN id ELSE -1

\* Writer: "~" if implicit, the id numeral, "@", then the range.
Encode(r) ==
    IF r.implicit THEN <<Tilde, IdNumeral(r.id), At, r.loc>>
                  ELSE <<IdNumeral(r.id), At, r.loc>>

IsImplicit(t) == t # <<>> /\ t[1] = Tilde

\* ++str_value past a leading '~'.
Stripped(t) == IF IsImplicit(t) THEN Tail(t) ELSE t

\* atol: the leading numeral, clamped to [LONG_MIN, LONG_MAX]; 0 if none.
Saturate(n) == IF n > LongMax THEN LongMax ELSE IF n < LongMin THEN LongMin ELSE n
Atol(s) == IF s # <<>> /\ s[1] \in NumeralTokens THEN Saturate(s[1]) ELSE 0

\* strchr(str_value, '@'): the first '@' of s, none if the set is empty.
AtPositions(s) == {i \in 1 .. Len(s) : s[i] = At}
FirstAt(s) == CHOOSE i \in AtPositions(s) : \A j \in AtPositions(s) : i <= j

\* Range(loc_string): a range parses from its own text, anything else is
\* EmptyRange.
ParseRange(s) == IF s # <<>> /\ s[1] \in Locs THEN s[1] ELSE EmptyRange

\* Mutant: the '~' is not skipped before atol.
DecodeNoSkip(t) ==
    IF AtPositions(t) = {} THEN Crash
    ELSE [id |-> ToRawId(Atol(t)),
          loc |-> ParseRange(SubSeq(t, FirstAt(t) + 1, Len(t))),
          implicit |-> IsImplicit(t)]

\* Reader: skip '~', RawId id = atol(str_value), loc = Range(strchr + 1).
\* With no '@' strchr returns NULL and NULL + 1 is dereferenced.
Decode(t) ==
    LET s == Stripped(t) IN
    IF AtPositions(s) = {} THEN Crash
    ELSE [id |-> ToRawId(Atol(s)),
          loc |-> ParseRange(SubSeq(s, FirstAt(s) + 1, Len(s))),
          implicit |-> IsImplicit(t)]

=============================================================================
