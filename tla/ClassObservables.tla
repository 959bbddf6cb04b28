--------------------------- MODULE ClassObservables ---------------------------
(***************************************************************************)
(* What enrichment asks of the discovery.  A class may declare observables *)
(* by path, besides the ids that objects and attributes carry; they are    *)
(* kept in a tree of attribute names without those that are not selected.  *)
(* Where an object should be and something else is, enrichment adds        *)
(* nothing and says so, if an observable could have come from there: from  *)
(* the attribute itself or from anything below.                            *)
(***************************************************************************)
EXTENDS ObjectObservability, SequencesExt

CONSTANTS
    ClassAttributes, \* attributes of a class
    Declarations     \* its Observables: functions from paths to type ids

ASSUME ClassAssumption ==
    /\ ClassAttributes \subseteq Attribute
    /\ \A d \in ClassAttributes : d.kind = "object" => d.to \in Object
    /\ \A declared \in Declarations : \A path \in DOMAIN declared : declared[path] \in TypeId
    /\ \A s \in Schemas :
         IsFiniteSet({d.name : d \in ClassAttributes \cup UNION {s.attrs[o] : o \in Object}})

(* compileClassObservableTrie.                                             *)
Trie(declared) ==
    [path \in {p \in DOMAIN declared : declared[p] \in Selected} |-> declared[path]]

(* Slip: only a declaration of the place itself counts.                    *)
DeclarationAt(trie, path) == path \in DOMAIN trie

HasDeclarationAtOrBelow(trie, path) == \E below \in DOMAIN trie : IsPrefix(path, below)

(* observableTypeID: an attribute's own id hides the declaration, selected *)
(* or not.                                                                 *)
ObservableTypeID(trie, path, d) ==
    IF TypeID(d) # None THEN {TypeID(d)} \cap Selected
    ELSE {trie[p] : p \in DOMAIN trie \cap {path}}

AttributeMayGenerate(trie, path, d) ==
    \/ HasDeclarationAtOrBelow(trie, path)
    \/ d.kind = "object" /\ (DirectlyObservable(d) \/ d.to \in result)

(* What a value of the right type adds: onObject, where an object's own id *)
(* hides everything else, and addScalarValueObservable.                    *)
Adds(trie, path, d) ==
    CASE d.kind = "object" -> IF schema.tag[d.to] # None THEN {schema.tag[d.to]} \cap Selected
                              ELSE ObservableTypeID(trie, path, d)
      [] d.kind = "scalar" -> ObservableTypeID(trie, path, d)
      [] d.kind = "dangling" -> {}

-----------------------------------------------------------------------------
(* All places the walk can come to, by their names: into objects, unless   *)
(* the name occurred before.                                               *)
Names(way) == [i \in DOMAIN way |-> way[i].name]

Onward(way) ==
    LET d == Last(way)
    IN IF d.kind # "object" \/ d.name \in ToSet(Names(Front(way))) THEN {}
       ELSE {Append(way, next) : next \in schema.attrs[d.to]}

Ways ==
    LET names == {d.name : d \in ClassAttributes \cup UNION {schema.attrs[o] : o \in Object}}
        long[n \in 1 .. Cardinality(names) + 1] ==
          IF n = 1 THEN {<<d>> : d \in ClassAttributes}
          ELSE UNION {Onward(way) : way \in long[n - 1]}
    IN UNION {long[n] : n \in DOMAIN long}

(* Enrichment "should report non-fatal issues that explain why requested   *)
(* content was not added" (docs/event-processing.md:106): wherever a value *)
(* of the right type could have led to an observable, there or below, one  *)
(* of the wrong type does not go unmentioned, though that is decided from  *)
(* a cache of objects and a tree of declarations (enrichment.go:335-350)   *)
(* and what is added from the ids in hand (enrichment.go:33-50, 324-333).  *)
OmissionsTold ==
    Compiled /\ asked = None =>
      \A declared \in Declarations :
        LET trie == Trie(declared)
        IN \A way \in Ways :
             Adds(trie, Names(way), Last(way)) # {} =>
               \A n \in 1 .. Len(way) :
                 way[n].kind = "object" =>
                   AttributeMayGenerate(trie, SubSeq(Names(way), 1, n), way[n])
=============================================================================
