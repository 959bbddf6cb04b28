------------------------ MODULE MCObjectObservability ------------------------
(***************************************************************************)
(* All graphs of three objects with at most two references each.  What may *)
(* generate is a scalar attribute of o3, a reference by its own id, and o1 *)
(* by its id, each of which may also be hidden by an id that is not        *)
(* selected; a reference may lead nowhere.  The class refers to two of the *)
(* objects, and may declare one path, or two in one tree.                  *)
(***************************************************************************)
EXTENDS ClassObservables, TLC

CONSTANTS o1, o2, o3, good, bad

Ids(t, c, i) == [type |-> t, dict |-> c, item |-> i]
Plain(n, k, o, ids) ==
    [name |-> n, kind |-> k, to |-> o, type |-> ids.type, dict |-> ids.dict, item |-> ids.item]

NameOf(o) == CASE o = o1 -> "a" [] o = o2 -> "b" [] o = o3 -> "c"

Dangling == Plain("lost", "dangling", None, Ids(None, good, None))
Masked   == Plain("x", "scalar", None, Ids(bad, good, good))    \* an id that is not selected comes first
Generator == Plain("x", "scalar", None, Ids(None, good, bad))
Ref(o)   == Plain(NameOf(o), "object", o, Ids(None, None, None))
Named(o) == Plain(NameOf(o), "object", o, Ids(None, None, good))

MCObjects == {o1, o2, o3}

References == {{Ref(o) : o \in S} : S \in {S \in SUBSET MCObjects : Cardinality(S) <= 2}}
              \cup {{Named(o)} : o \in {o1, o2}}

MCAttrs == {(o1 :> r1) @@ (o2 :> r2) @@ (o3 :> r3 \cup {x}) :
              r1 \in References, r2 \in References, r3 \in References,
              x \in {Generator, Masked, Dangling}}

MCSchemas == [attrs : MCAttrs,
              tag   : {[o \in MCObjects |-> IF o = o1 THEN t ELSE None] : t \in {None, good, bad}}]

MCClassAttributes == {Ref(o1), Ref(o2), Plain("y", "scalar", None, Ids(None, None, None))}

Paths == {<<"y">>, <<"a">>, <<"a", "c", "x">>, <<"b", "b">>, <<"b", "lost">>}

MCDeclarations == {<<>>} \cup {(p :> i) : p \in Paths, i \in {good, bad}}
                  \cup {(<<"a">> :> bad) @@ (p :> good) : p \in Paths \ {<<"a">>}}
=============================================================================
