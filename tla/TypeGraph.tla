----------------------------- MODULE TypeGraph -----------------------------
(***************************************************************************)
(* The inheritance of dictionary types and what it means for validation:   *)
(* a type takes the primitive type at the end of its chain of bases and,   *)
(* for every kind of constraint, the declaration of its nearest ancestor.  *)
(* A dictionary is a function from the names it defines; a base may be a   *)
(* name it does not define.                                                *)
(***************************************************************************)
EXTENDS Naturals, FiniteSets

CONSTANTS
    Type,        \* names of types
    Primitive,   \* boolean_t, float_t, integer_t, long_t, string_t, json_t
    Constraint,  \* kinds of constraint: regex, values, range, max_len
    Values,      \* the kind that has to fit the primitive type
    NoType       \* no base, no declaring type

ASSUME TypeAssumption ==
    /\ Primitive \subseteq Type /\ Primitive # {}
    /\ NoType \notin Type
    /\ Values \in Constraint

(* fits: the primitive types to which all allowed values of it convert.    *)
Definition == [base : Type \cup {NoType}, own : SUBSET Constraint, fits : SUBSET Primitive]

Entry == [primitive : Type, from : [Constraint -> Type \cup {NoType}]]

(* Inheritance ends here: at a primitive type whatever its definition      *)
(* says, at a type that is not defined, at a type without a base.          *)
Terminal(types, t) ==
    t \in Primitive \/ t \notin DOMAIN types \/ types[t].base = NoType

Bare(t) == [primitive |-> t, from |-> [c \in Constraint |-> NoType]]

(* A type's own declarations over what it inherits.                        *)
Extend(types, t, inherited) ==
    [primitive |-> inherited.primitive,
     from      |-> [c \in Constraint |-> IF c \in types[t].own THEN t ELSE inherited.from[c]]]

Uncompilable(types, t, primitive) ==
    Values \in types[t].own /\ primitive \notin types[t].fits

(* What resolving a dictionary comes to: a table, or a reason why not.     *)
Failure(reason) == [verdict |-> reason, table |-> <<>>]
Undecided == Failure("none")

-----------------------------------------------------------------------------
(* Reference definitions.                                                  *)

(* Some types lead only to each other.                                     *)
Cyclic(types) ==
    \E C \in SUBSET DOMAIN types :
      C # {} /\ \A t \in C : ~Terminal(types, t) /\ types[t].base \in C

(* The chain that begins at t ends at p.                                   *)
Leads(types, t, p) ==
    /\ Terminal(types, p)
    /\ \A S \in SUBSET Type :
         (t \in S /\ \A u \in S : Terminal(types, u) \/ types[u].base \in S) => p \in S

(* What the entry of t is built upon, given all entries.                   *)
Inherits(types, table, t) ==
    IF Terminal(types, t) THEN Bare(t)
    ELSE IF types[t].base \in DOMAIN types THEN table[types[t].base] ELSE Bare(types[t].base)

(* Every type is defined in terms of the type it derives from.             *)
IsTable(types, table) ==
    /\ DOMAIN table = DOMAIN types
    /\ \A t \in DOMAIN types :
         /\ table[t] = Extend(types, t, Inherits(types, table, t))
         /\ ~Uncompilable(types, t, table[t].primitive)

-----------------------------------------------------------------------------
(* The program's other two walks along the same chains.                    *)

(* n steps up; primitive types are not left (ResolvePrimitiveType) ...     *)
Climbed(types) ==
    LET up[n \in Nat] ==
          IF n = 0 THEN [t \in Type |-> t]
          ELSE [t \in Type |-> IF Terminal(types, up[n - 1][t]) THEN up[n - 1][t]
                               ELSE types[up[n - 1][t]].base]
    IN up

(* ... or are (TypeDerivedFrom), until there is no definition or no base.  *)
Ascended(types) ==
    LET up[n \in Nat] ==
          IF n = 0 THEN [t \in Type |-> t]
          ELSE [t \in Type |-> IF up[n - 1][t] \in DOMAIN types THEN types[up[n - 1][t]].base
                               ELSE NoType]
    IN up

(* The primitive or unknown type at the end, NoType for a cycle: the seen  *)
(* set stops the climb after every defined type has been met once.         *)
ResolvePrimitiveType(types, t) ==
    LET end == Climbed(types)[Cardinality(DOMAIN types)][t]
    IN IF Terminal(types, end) THEN end ELSE NoType

(* Slip: one comparison for every definition.                              *)
DerivedOneShort(types, t, base) ==
    \E n \in 0 .. Cardinality(DOMAIN types) - 1 :
      Ascended(types)[n][t] = base

(* At most len(types) + 1 names are compared.                              *)
TypeDerivedFrom(types, t, base) ==
    \E n \in 0 .. Cardinality(DOMAIN types) :
      Ascended(types)[n][t] = base
=============================================================================
