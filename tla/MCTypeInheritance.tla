------------------------- MODULE MCTypeInheritance -------------------------
(***************************************************************************)
(* Three types that derive from each other in every way, from a type       *)
(* nobody defines, and from primitive types, one of which may have a       *)
(* definition of its own, base and all.                                    *)
(***************************************************************************)
EXTENDS TypeInheritance, TLC

CONSTANTS a, b, c, p1, p2, unknown, values, length

Defines(base, own, fits) == [base |-> base, own |-> own, fits |-> fits]

MCType == {a, b, c, p1, p2, unknown}

Bases == {a, b, c, p1, p2, unknown, NoType}

Derived ==
    {(a :> Defines(x, {values}, fits)) @@ (b :> Defines(y, {length}, {p1})) @@ (c :> Defines(z, {length}, {})) :
       x \in Bases, y \in Bases, z \in Bases \ {p2}, fits \in {{p1}, {p2}}}

MCDictionaries == Derived \cup {d @@ (p1 :> Defines(c, {}, {})) : d \in Derived}
=============================================================================
