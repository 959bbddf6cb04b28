------------------------- MODULE ObjectObservability -------------------------
(***************************************************************************)
(* Which objects of a schema can generate an observable under the selected *)
(* observable types (internal/observable/discovery.go).  Enrichment asks   *)
(* when a value is not of the type that could have generated one, so an    *)
(* object it misses is an omission that nobody is told of.  The answer is  *)
(* computed once for all objects, backwards from those that generate       *)
(* directly (CompileObjectObservability), or for one object by a           *)
(* depth-first search (objectMayGenerate).  Schemas may be cyclic, and     *)
(* both iterate over Go maps: any order.                                   *)
(***************************************************************************)
EXTENDS Naturals, Sequences

CONSTANTS
    Object,      \* object definitions
    TypeId,      \* observable type ids
    Selected,    \* those observableTypeAllowed accepts
    None,        \* no type id, no object
    Schemas      \* the schemas considered

(* An attribute refers to an object the schema has, to one it has not      *)
(* ("dangling"), or is no object; the ids are those of its type, of the    *)
(* dictionary and of the attribute itself.                                 *)
Attribute == [name : STRING,
              kind : {"scalar", "object", "dangling"}, to : Object \cup {None},
              type : TypeId \cup {None}, dict : TypeId \cup {None}, item : TypeId \cup {None}]

Schema == [attrs : [Object -> SUBSET Attribute],   \* attributes of each object
           tag   : [Object -> TypeId \cup {None}]] \* ObjectDefinition.Observable

ASSUME SchemaAssumption ==
    /\ None \notin Object \cup TypeId
    /\ Selected \subseteq TypeId
    /\ Schemas \subseteq Schema
    /\ \A s \in Schemas, o \in Object : \A d \in s.attrs[o] : d.kind = "object" => d.to \in Object

VARIABLES
    schema,
    todo,       \* objects the first loop has not reached
    result,     \* objects known to generate
    referrers,  \* who refers to each object
    pending,    \* known to generate, referrers not told yet
    asked,      \* the object the search is for
    visited,    \* objects it has entered
    left,       \* attributes it has left in each of them
    stack,      \* its way from asked to where it is
    answer      \* what it returned

vars == <<schema, todo, result, referrers, pending, asked, visited, left, stack, answer>>
compiling == <<todo, result, referrers, pending>>
searching == <<asked, visited, left, stack, answer>>

-----------------------------------------------------------------------------
(* TypeID: the type's id before the dictionary's before the attribute's.   *)
TypeID(d) ==
    IF d.type # None THEN d.type ELSE IF d.dict # None THEN d.dict ELSE d.item

(* An object's own id hides the attribute's, selected or not.              *)
DirectlyObservable(d) ==
    (IF schema.tag[d.to] # None THEN schema.tag[d.to] ELSE TypeID(d)) \in Selected

(* The attribute generates by itself.                                      *)
Counts(d) ==
    \/ d.kind = "scalar" /\ TypeID(d) \in Selected
    \/ d.kind = "object" /\ DirectlyObservable(d)

Direct(o) == \E d \in schema.attrs[o] : Counts(d)

Refers(o) == {d.to : d \in {d \in schema.attrs[o] : d.kind = "object" /\ ~Counts(d)}}

Init ==
    /\ schema \in Schemas
    /\ todo = Object /\ result = {} /\ pending = {}
    /\ referrers = [o \in Object |-> {}]
    /\ asked = None /\ visited = {} /\ left = [o \in Object |-> {}]
    /\ stack = <<>> /\ answer = "none"

-----------------------------------------------------------------------------
(* CompileObjectObservability.                                             *)

(* The first loop: one object.                                             *)
Scan(o) ==
    /\ o \in todo
    /\ todo' = todo \ {o}
    /\ result' = IF Direct(o) THEN result \cup {o} ELSE result
    /\ pending' = IF Direct(o) THEN pending \cup {o} ELSE pending
    /\ referrers' = [n \in Object |-> IF n \in Refers(o) THEN referrers[n] \cup {o} ELSE referrers[n]]
    /\ UNCHANGED <<schema, searching>>

(* Slip: referrers that become known are not told on.                      *)
PropagateOnce(o) ==
    /\ todo = {} /\ o \in pending
    /\ result' = result \cup referrers[o]
    /\ pending' = pending \ {o}
    /\ UNCHANGED <<schema, todo, referrers, searching>>

(* Slip: a referrer already known is told again.                           *)
PropagateAgain(o) ==
    /\ todo = {} /\ o \in pending
    /\ result' = result \cup referrers[o]
    /\ pending' = (pending \ {o}) \cup referrers[o]
    /\ UNCHANGED <<schema, todo, referrers, searching>>

(* The second loop: one object off the stack.                              *)
Propagate(o) ==
    /\ todo = {} /\ o \in pending
    /\ result' = result \cup referrers[o]
    /\ pending' = (pending \ {o}) \cup (referrers[o] \ result)
    /\ UNCHANGED <<schema, todo, referrers, searching>>

Compiled == todo = {} /\ pending = {}

-----------------------------------------------------------------------------
(* objectMayGenerate.                                                      *)

Ask(o) ==
    /\ Compiled /\ asked = None
    /\ asked' = o
    /\ visited' = {o}
    /\ left' = [left EXCEPT ![o] = schema.attrs[o]]
    /\ stack' = <<o>>
    /\ UNCHANGED <<schema, compiling, answer>>

Top == stack[Len(stack)]

(* The next attribute generates: true, all the way up.                     *)
Found(d) ==
    /\ stack # <<>> /\ d \in left[Top] /\ Counts(d)
    /\ answer' = "yes"
    /\ stack' = <<>>
    /\ UNCHANGED <<schema, compiling, asked, visited, left>>

(* Slip: the object entered is not marked.                                 *)
EnterUnmarked(d) ==
    /\ stack # <<>> /\ d \in left[Top] /\ d.kind = "object" /\ ~Counts(d) /\ d.to \notin visited
    /\ left' = [left EXCEPT ![Top] = @ \ {d}, ![d.to] = schema.attrs[d.to]]
    /\ stack' = Append(stack, d.to)
    /\ UNCHANGED <<schema, compiling, asked, visited, answer>>

(* It refers to an object not seen yet.                                    *)
Enter(d) ==
    /\ stack # <<>> /\ d \in left[Top] /\ d.kind = "object" /\ ~Counts(d) /\ d.to \notin visited
    /\ visited' = visited \cup {d.to}
    /\ left' = [left EXCEPT ![Top] = @ \ {d}, ![d.to] = schema.attrs[d.to]]
    /\ stack' = Append(stack, d.to)
    /\ UNCHANGED <<schema, compiling, asked, answer>>

(* It generates nothing, or the object was entered before.                 *)
Pass(d) ==
    /\ stack # <<>> /\ d \in left[Top] /\ ~Counts(d)
    /\ d.kind = "object" => d.to \in visited
    /\ left' = [left EXCEPT ![Top] = @ \ {d}]
    /\ UNCHANGED <<schema, compiling, asked, visited, stack, answer>>

(* Slip: the first object that finds nothing answers for all.              *)
LeaveForGood ==
    /\ stack # <<>> /\ left[Top] = {}
    /\ stack' = <<>>
    /\ answer' = "no"
    /\ UNCHANGED <<schema, compiling, asked, visited, left>>

Leave ==
    /\ stack # <<>> /\ left[Top] = {}
    /\ stack' = SubSeq(stack, 1, Len(stack) - 1)
    /\ answer' = IF Len(stack) = 1 THEN "no" ELSE answer
    /\ UNCHANGED <<schema, compiling, asked, visited, left>>

-----------------------------------------------------------------------------
Search == Leave \/ \E o \in Object : \E d \in left[o] : Found(d) \/ Enter(d) \/ Pass(d)

Compile == \E o \in Object : Scan(o) \/ Propagate(o)

Next == Compile \/ Search \/ \E o \in Object : Ask(o)

Fairness == WF_vars(Compile) /\ WF_vars(Search)

Spec == Init /\ [][Next]_vars /\ Fairness

-----------------------------------------------------------------------------
TypeOK ==
    /\ schema \in Schemas
    /\ todo \subseteq Object /\ result \subseteq Object /\ pending \subseteq Object
    /\ referrers \in [Object -> SUBSET Object]
    /\ asked \in Object \cup {None} /\ visited \subseteq Object /\ stack \in Seq(visited)
    /\ left \in [Object -> SUBSET Attribute]
    /\ \A o \in Object : left[o] \subseteq schema.attrs[o]
    /\ answer \in {"none", "yes", "no"}

(* The reference: the least set that has an object with an attribute that  *)
(* generates by itself or refers to a member.                              *)
Closed(S) ==
    \A o \in Object :
      (\E d \in schema.attrs[o] : Counts(d) \/ (d.kind = "object" /\ d.to \in S)) => o \in S

MayGenerate == {o \in Object : \A S \in SUBSET Object : Closed(S) => o \in S}

(* "correct for any object graph, including cyclic ones"                   *)
(* (discovery.go:40): the cache is exact.                                  *)
CacheExact == Compiled => result = MayGenerate

(* With and without the cache, AttributeMayGenerate says the same of every *)
(* object, whatever was visited in which order.                            *)
SearchAgrees == answer # "none" => (answer = "yes" <=> asked \in MayGenerate)

(* Both come to an end on every schema.                                    *)
DiscoveryEnds == <>Compiled /\ (asked # None ~> answer # "none")
=============================================================================
