---------------------------- MODULE FuncRefCodec ----------------------------
(***************************************************************************)
(* The IndexFuncRef codec as a cache of one reference: Reflect(Writer&)    *)
(* stores the text of module FuncRefText, the cache may be damaged, and    *)
(* Reflect(Reader&) parses the text back.                                  *)
(***************************************************************************)
EXTENDS FuncRefText

VARIABLES
    written,   \* the IndexFuncRef last serialized (NoRef: the text is foreign)
    text,      \* the string in the cache (NoRef: none)
    decoded    \* what the last Reflect(Reader&) produced (NoRef: not run)

vars == <<written, text, decoded>>

TypeOK ==
    /\ written \in FuncRefs \cup {NoRef}
    /\ text \in Texts \cup {Encode(r) : r \in FuncRefs} \cup {NoRef}
    /\ decoded \in DecodedRefs \cup {Crash, NoRef}

Init ==
    /\ written = NoRef
    /\ text = NoRef
    /\ decoded = NoRef

\* Reflect(Writer&, value): the reference is serialized into the cache.
WriteRef(r) ==
    /\ written' = r
    /\ text' = Encode(r)
    /\ decoded' = NoRef

\* The cache holds a string no writer produced (truncated or damaged file).
Corrupt(t) ==
    /\ written' = NoRef
    /\ text' = t
    /\ decoded' = NoRef

\* Reflect(Reader&, value) on the cached string.
ReadRef ==
    /\ text # NoRef
    /\ decoded' = Decode(text)
    /\ UNCHANGED <<written, text>>

Next ==
    \/ \E r \in FuncRefs : WriteRef(r)
    \/ \E t \in Texts : Corrupt(t)
    \/ ReadRef

Spec == Init /\ [][Next]_vars

-----------------------------------------------------------------------------
(* Properties *)

\* Round trip (spec section 8): reading back what the writer wrote yields
\* the same reference under the member operator==, id, range and the
\* is_implicit flag alike, the invalid id -1 included.
RoundTrip ==
    (written # NoRef /\ decoded \notin {NoRef, Crash}) =>
        FuncRefEq(decoded, written)

\* Corrupt data is never fatal (spec section 7): the reader returns some
\* reference for every string, it never follows strchr's NULL.
DecodeNeverCrashes == decoded # Crash
=============================================================================
