---------------------------- MODULE IdentityMap ----------------------------
(***************************************************************************)
(* What an IndexFile promises the parser that drives it (the ToTypeId /    *)
(* ToFuncId / ToVarId and language contract of src/src/indexer.h), with   *)
(* the vectors and the two cache directions left out.                      *)
(*                                                                         *)
(* For each entity kind, a usr is bound to at most one handle, once bound  *)
(* it stays bound to that handle, two usrs of a kind never share a handle, *)
(* and a handle that is handed out has a value.  Which fresh handle a new  *)
(* usr gets is left open.  The file's language only moves up the order    *)
(* Unknown < C < Cpp < ObjC.                                                *)
(***************************************************************************)
EXTENDS IndexId

CONSTANTS Usr, NoId

Kinds == {"type", "func", "var"}
Languages == 0 .. 3

VARIABLES
    handleOf,   \* handleOf[k][u]: the handle bound to usr u of kind k, or NoId
    last,       \* the last resolve and the handle it returned, or NoId
    language    \* the file's language

vars == <<handleOf, last, language>>

Init ==
    /\ handleOf = [k \in Kinds |-> [u \in Usr |-> NoId]]
    /\ last = NoId
    /\ language = 0

\* The handles of kind k bound so far.
Bound(k) == {handleOf[k][v] : v \in Usr} \ {NoId}

\* resolve(usr): the bound handle, or a fresh valid one bound from now on.
Resolve(k, u) ==
    /\ \/ /\ handleOf[k][u] # NoId
          /\ UNCHANGED handleOf
       \/ /\ handleOf[k][u] = NoId
          /\ \E h \in ValidIds \ Bound(k) :
                handleOf' = [handleOf EXCEPT ![k][u] = h]
    /\ last' = [kind |-> k, usr |-> u, id |-> handleOf'[k][u]]
    /\ UNCHANGED language

\* A declaration raises the file's language.
Classify ==
    \E l \in Languages :
        /\ language < l
        /\ language' = l
        /\ UNCHANGED <<handleOf, last>>

Next ==
    \/ \E k \in Kinds, u \in Usr : Resolve(k, u)
    \/ Classify

Spec == Init /\ [][Next]_vars
=============================================================================
