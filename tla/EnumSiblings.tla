---------------------------- MODULE EnumSiblings ----------------------------
(***************************************************************************)
(* An OCSF enum attribute and its string sibling: what adding, safely      *)
(* removing and force-removing the sibling do to one pair, and what        *)
(* validation says of it.  The pair is scalar or array; it is the unit the *)
(* event walk dispatches (process.go visitEnumSiblingPairAttributes).      *)
(*                                                                         *)
(* A pair that reaches these operators is supported by the schema cache    *)
(* (schema.go enumSiblingInitializationIssue): the enum is integer_t or    *)
(* long_t, so only integral values can be looked up, and the sibling is    *)
(* string_t of the same shape.                                             *)
(***************************************************************************)
EXTENDS Naturals, Sequences

CONSTANTS
    Scalar,     \* everything an attribute or an array element can hold
    Str,        \* the strings among them
    Integral,   \* the values eventvalue.AsInteger and AsLong accept
    Other,      \* enum id 99: the source has a value the schema does not list
    NullItem,   \* JSON null as an array element
    Caption,    \* schema caption of every defined enum id
    NoCaption   \* the empty caption

ASSUME ScalarAssumption ==
    /\ Str \subseteq Scalar /\ Integral \subseteq Scalar
    /\ Str \cap Integral = {}
    /\ Other \in Integral
    /\ NullItem \in Scalar \ (Str \cup Integral)

ASSUME CaptionAssumption ==
    /\ DOMAIN Caption \subseteq Integral
    /\ \A id \in DOMAIN Caption : Caption[id] \in Str
    /\ NoCaption \in Str

-----------------------------------------------------------------------------
(* Attribute values.  An explicit null is kept apart from an absent key:   *)
(* most code asks eventvalue.Attribute, which treats them alike, but       *)
(* removal looks at the raw key.                                           *)

Value == {v \in [k : {"absent", "null", "scalar", "array"}, s : Seq(Scalar)] :
            Len(v.s) = 1 \/ v.k # "scalar"}

AbsentV    == [k |-> "absent", s |-> <<>>]
NullV      == [k |-> "null",   s |-> <<>>]
ScalarV(x) == [k |-> "scalar", s |-> <<x>>]
ArrayV(xs) == [k |-> "array",  s |-> xs]

Present(v) == v.k \in {"scalar", "array"}

-----------------------------------------------------------------------------
(* Enum lookup (lookupNumericEnumDefinition).                              *)

Usable(x)  == x \in Integral
Defined(x) == x \in DOMAIN Caption
Labelled(x) == Defined(x) /\ Caption[x] # NoCaption

IsOther(v) == v.k = "scalar" /\ v.s[1] = Other

(* What one operation did to a pair: the sibling it leaves, the counters   *)
(* it moves and the diagnostics it raises.                                 *)
Outcome(sib, added, removed, retained, issues) ==
    [sib |-> sib, added |-> added, removed |-> removed,
     retained |-> retained, issues |-> issues]

Untouched(sib) == Outcome(sib, 0, 0, 0, 0)
Deleted        == Outcome(AbsentV, 0, 1, 0, 0)
Kept(sib, issues) == Outcome(sib, 0, 0, 1, issues)

-----------------------------------------------------------------------------
(* Adding (enrichmentProcessor).  A non-null sibling is never rewritten.   *)
(* Caption 99 is added too, but reported: the source value is lost.        *)

(* Slip: the sibling is created before its caption is looked up.           *)
AddScalarHollow(enum, sib) ==
    IF Present(enum) /\ ~Present(sib) /\ enum.k = "scalar" /\ Labelled(enum.s[1])
    THEN Outcome([k |-> "scalar", s |-> <<>>], 1, 0, 0, 0) ELSE Untouched(sib)

AddScalar(enum, sib) ==
    IF ~Present(enum) \/ Present(sib) THEN Untouched(sib)
    ELSE IF enum.k = "scalar" /\ Labelled(enum.s[1])
         THEN Outcome(ScalarV(Caption[enum.s[1]]), 1, 0, 0,
                      IF IsOther(enum) THEN 1 ELSE 0)
         ELSE Outcome(sib, 0, 0, 0, 1)

AddArray(enum, sib) ==
    IF enum.k # "array" \/ Present(sib) THEN Untouched(sib)
    ELSE IF \A i \in DOMAIN enum.s : Labelled(enum.s[i])
         THEN Outcome(ArrayV([i \in DOMAIN enum.s |-> Caption[enum.s[i]]]), 1, 0, 0,
                      IF \E i \in DOMAIN enum.s : enum.s[i] = Other THEN 1 ELSE 0)
         ELSE Outcome(sib, 0, 0, 0, 1)

AddPair(isArray, enum, sib) ==
    IF isArray THEN AddArray(enum, sib) ELSE AddScalar(enum, sib)

-----------------------------------------------------------------------------
(* Removing (removeEnumSiblingPair).  Only what the schema can reproduce   *)
(* is deleted; force skips the comparison but never deletes next to 99.    *)

(* Slip: force forgets that 99 is source data.                             *)
RemoveScalarForgetsOther(enum, sib, force) ==
    IF sib.k # "scalar" \/ enum.k # "scalar" \/ ~Usable(enum.s[1]) THEN Kept(sib, 1)
    ELSE IF ~force /\ ~(Defined(enum.s[1]) /\ sib.s[1] = Caption[enum.s[1]])
    THEN Kept(sib, 1) ELSE Deleted

RemoveScalar(enum, sib, force) ==
    IF sib.k # "scalar" \/ sib.s[1] \notin Str
       \/ enum.k # "scalar" \/ ~Usable(enum.s[1])
    THEN Kept(sib, 1)
    ELSE IF enum.s[1] = Other THEN Kept(sib, 0)
    ELSE IF ~force /\ ~(Defined(enum.s[1]) /\ sib.s[1] = Caption[enum.s[1]])
    THEN Kept(sib, 1)
    ELSE Deleted

(* An element that stops the scan of removeEnumArraySiblingPair.  The      *)
(* first one decides: silently retained next to 99, otherwise reported.    *)
StopsRemoval(enum, sib, force, i) ==
    \/ ~Usable(enum.s[i])
    \/ enum.s[i] = Other
    \/ ~force /\ ~(Defined(enum.s[i]) /\ sib.s[i] = Caption[enum.s[i]])

(* Slips: an empty caption array is taken for one that does not match, and *)
(* arrays of different lengths are kept without a word.                    *)
RemoveArrayKeepsEmpty(enum, sib, force) ==
    IF sib.k # "array" \/ enum.k # "array" \/ sib.s = <<>> \/ Len(enum.s) # Len(sib.s)
       \/ \E i \in DOMAIN enum.s : StopsRemoval(enum, sib, force, i)
    THEN Kept(sib, 1) ELSE Deleted

RemoveArraySilentLength(enum, sib, force) ==
    IF sib.k # "array" \/ enum.k # "array" THEN Kept(sib, 1)
    ELSE IF ~force /\ Len(enum.s) # Len(sib.s) THEN Kept(sib, 0)
    ELSE IF \E i \in DOMAIN enum.s : StopsRemoval(enum, sib, force, i)
    THEN Kept(sib, 1) ELSE Deleted

RemoveArray(enum, sib, force) ==
    IF sib.k # "array" \/ enum.k # "array"
       \/ (~force /\ Len(enum.s) # Len(sib.s))
    THEN Kept(sib, 1)
    ELSE LET stops == {i \in DOMAIN enum.s : StopsRemoval(enum, sib, force, i)}
         IN  IF stops = {} THEN Deleted
             ELSE LET first == CHOOSE i \in stops : \A j \in stops : i <= j
                  IN  Kept(sib, IF enum.s[first] = Other THEN 0 ELSE 1)

RemovePair(isArray, enum, sib, force) ==
    IF sib.k = "absent" THEN Untouched(sib)
    ELSE IF sib.k = "null" THEN Deleted
    ELSE IF isArray THEN RemoveArray(enum, sib, force)
    ELSE RemoveScalar(enum, sib, force)

(* Slip: the null is dropped but not counted.                              *)
RetainUnsupportedUncounted(enum, sib) ==
    IF ~Present(enum) \/ sib.k = "absent" THEN Untouched(sib)
    ELSE IF sib.k = "null" THEN Untouched(AbsentV)
    ELSE Kept(sib, 0)

(* A declared sibling the schema cache did not link is only tidied         *)
(* (retainUnsupportedEnumSibling).                                         *)
RetainUnsupported(enum, sib) ==
    IF ~Present(enum) \/ sib.k = "absent" THEN Untouched(sib)
    ELSE IF sib.k = "null" THEN Deleted
    ELSE Kept(sib, 0)

-----------------------------------------------------------------------------
(* Pair findings of validation: <<code, element>>, element 0 for the pair. *)
(* Findings about one attribute alone (type, range, requirement other than *)
(* the 99 rule, deprecation) relate no two attributes and are left out.    *)

ScalarFindings(enum, sib) ==
    LET x == enum.s[1]
    IN  (IF enum.k = "scalar" /\ Usable(x) /\ ~Defined(x)
         THEN {<<"enum_value_unknown", 0>>} ELSE {})
        \cup
        (IF enum.k = "scalar" /\ Defined(x) /\ Present(sib)
         THEN IF x = Other
              THEN IF sib = ScalarV(Caption[x]) THEN {<<"sibling_suspicious", 0>>} ELSE {}
              ELSE IF sib # ScalarV(Caption[x]) THEN {<<"sibling_incorrect", 0>>} ELSE {}
         ELSE {})
        \cup
        (IF Present(sib) /\ ~Present(enum) THEN {<<"sibling_without_enum", 0>>} ELSE {})
        \cup
        (IF IsOther(enum) /\ ~Present(sib) THEN {<<"sibling_required", 0>>} ELSE {})

ElementFindings(enum, sib, i) ==
    LET x == enum.s[i]
    IN  IF ~Usable(x) THEN {}
        ELSE IF ~Defined(x) THEN {<<"enum_value_unknown", i>>}
        ELSE IF ~Present(sib)
        THEN IF x = Other THEN {<<"sibling_missing", i>>} ELSE {}
        ELSE IF sib.k # "array" \/ i \notin DOMAIN sib.s THEN {}
        ELSE IF sib.s[i] = NullItem THEN {<<"sibling_missing", i>>}
        ELSE IF x = Other
        THEN IF sib.s[i] = Caption[x] THEN {<<"sibling_suspicious", i>>} ELSE {}
        ELSE IF sib.s[i] # Caption[x] THEN {<<"sibling_incorrect", i>>} ELSE {}

ArrayFindings(enum, sib) ==
    IF enum.k # "array" THEN {}
    ELSE (IF sib.k = "array" /\ Len(sib.s) # Len(enum.s)
          THEN {<<"length_mismatch", 0>>} ELSE {})
         \cup UNION {ElementFindings(enum, sib, i) : i \in DOMAIN enum.s}

PairFindings(isArray, enum, sib) ==
    IF isArray THEN ArrayFindings(enum, sib) ELSE ScalarFindings(enum, sib)
=============================================================================
