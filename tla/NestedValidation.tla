-------------------------- MODULE NestedValidation --------------------------
(***************************************************************************)
(* A pipeline that validates: its policy is compiled, then one event is    *)
(* walked.  Objects nest, in themselves too; the walk enters an object     *)
(* unless the attribute it is in occurs above it, and says once that it    *)
(* did not (visitObjectValue).  Observable names are held to the same      *)
(* boundary by a check that knows the schema only (Path.Definition).       *)
(*                                                                         *)
(* One path is shared by all hooks; visits of attributes push on it and    *)
(* pop from it.  Pairs, observables and mutations are in EventPipeline.    *)
(***************************************************************************)
EXTENDS ValidationPolicy, Integers, SequencesExt

CONSTANTS
    Schema,    \* per class or object: attributes in order, constraint, deprecated
    Class,     \* the event's class in Schema
    Uids,      \* uids of classes, which do not differ in anything else
    AnyObject, \* object, which may hold anything
    MaxInt,    \* the largest integer; the smallest is -MaxInt - 1
    Index,     \* the array indexes, as elements of a path, from the first on
    WarnOnMissingRecommended,
    MaxDepth,  \* bound: nesting of events
    Events     \* events a caller may hand to ProcessEvent

(* Attributes: of an integer type, or objects of a type that is in Schema, *)
(* or is not, or is not given.  profile is the one it needs.               *)
Attribute == [name : STRING, holds : {"integer", "object"}, type : STRING, array : BOOLEAN,
              requirement : STRING, profile : STRING, deprecated : BOOLEAN]

(* Codes of findings; those of an event whose class is not known.          *)
ClassCode == {"ClassUIDMissing", "ClassUIDWrongType", "ClassUIDUnknown"}
FindingCode == ClassCode \cup
    {"ClassDeprecated", "ObjectDeprecated", "AttributeDeprecated", "AttributeUnknown",
     "AttributeRequiresProfile", "AttributeRequiredMissing", "AttributeRecommendedMissing",
     "AttributeWrongType", "SchemaBugObjectMissing", "ConstraintFailed",
     "TypeUIDIncorrect", "TypeUIDExpectedValueOverflow"}

ASSUME FindingAssumption == FindingCode \subseteq Code /\ Mandatory = ClassCode

ASSUME IndexAssumption ==
    /\ Index \in Seq(STRING) /\ IsInjective(Index)
    /\ MaxInt \in Nat /\ MaxDepth \in Nat

ASSUME SchemaAssumption ==
    /\ Class \in DOMAIN Schema /\ Class # AnyObject
    /\ \A t \in DOMAIN Schema :
         /\ Schema[t].attributes \in Seq(Attribute)
         /\ \A i \in DOMAIN Schema[t].attributes :
              /\ Schema[t].attributes[i].name \notin ToSet(Index)
              /\ \A j \in 1 .. i - 1 : Schema[t].attributes[j].name # Schema[t].attributes[i].name

(* Values: null, integers, texts, arrays, maps.                            *)

Absent == [k |-> "null"]
At(item, name) == IF name \in DOMAIN item.at THEN item.at[name] ELSE Absent
Present(v) == v.k # "null"

Step(v, name) == IF v.k = "map" THEN At(v, name) ELSE Absent
HasPath(item, names) == Present(FoldLeft(Step, item, names))

(* Everything a value contains, whatever the schema says of it.            *)
Children(node) ==
    CASE node.value.k = "map" ->
           {[at |-> Append(node.at, name), value |-> node.value.at[name]] : name \in DOMAIN node.value.at}
      [] node.value.k = "array" ->
           {[at |-> Append(node.at, Index[i]), value |-> node.value.of[i]] : i \in DOMAIN node.value.of}
      [] OTHER -> {}

Contents(item) ==
    LET within[n \in 0 .. MaxDepth] ==
          IF n = 0 THEN {[at |-> <<>>, value |-> item]}
          ELSE UNION {Children(node) : node \in within[n - 1]}
    IN UNION {within[n] : n \in 0 .. MaxDepth}

MinInt == -MaxInt - 1

WellFormed(v) ==
    \/ v.k \in {"null", "text"}
    \/ v.k = "int" /\ v.n \in MinInt .. MaxInt
    \/ v.k = "map" /\ IsFiniteSet(DOMAIN v.at) /\ DOMAIN v.at \subseteq STRING \ ToSet(Index)
    \/ v.k = "array" /\ \E n \in 0 .. Len(Index) : DOMAIN v.of = 1 .. n

(* Maps, as JSON has them, that nest no deeper than the bound.             *)
ASSUME EventAssumption ==
    \A e \in Events :
      /\ e.item.k = "map"
      /\ \A node \in Contents(e.item) :
           WellFormed(node.value) /\ Children(node) \subseteq Contents(e.item)

-----------------------------------------------------------------------------
VARIABLES
    event,       \* the event and its profiles
    todo,        \* what is left of the walk, innermost first
    path,        \* c.path
    visits,      \* where attributes were dispatched, in order
    findings,    \* Validation.Findings
    suppressed,  \* counts of suppressed findings
    issues,      \* Issues
    done         \* ProcessEvent has returned

walkVars == <<event, todo, path, visits, findings, suppressed, issues, done>>
vars == <<policyVars, walkVars>>

Init ==
    /\ PolicyInit
    /\ event \in Events
    /\ todo = <<[do |-> "begin"]>>
    /\ path = <<>> /\ visits = <<>>
    /\ findings = <<>> /\ suppressed = [level \in Level |-> 0]
    /\ issues = <<>> /\ done = FALSE

-----------------------------------------------------------------------------
(* The elements of a sequence that are in a set.                           *)
Kept(s, good) ==
    LET among[n \in 0 .. Len(s)] ==
          IF n = 0 THEN <<>>
          ELSE IF s[n] \in good THEN Append(among[n - 1], s[n]) ELSE among[n - 1]
    IN among[Len(s)]

(* The names in a path, without its array indexes.                         *)
IsName(element) == element \notin ToSet(Index)
Names(p) == Kept(p, STRING \ ToSet(Index))

Attributes(type) == Schema[type].attributes

Active(profiles, a) == a.profile \in {"any"} \cup profiles

-----------------------------------------------------------------------------
(* Findings.                                                               *)

Finding(code, p) == [code |-> code, path |-> p]

(* addFinding, for each of a sequence.                                     *)
Raise(raised) ==
    LET reported == Kept(raised, {f \in ToSet(raised) : FindingLevel(f.code) # "suppressed"})
        Omitted(level) == {i \in DOMAIN raised : FindingLevel(raised[i].code) = "suppressed"
                                                 /\ DefaultLevel[raised[i].code] = level}
    IN /\ findings' = findings \o [i \in DOMAIN reported |->
                        [code |-> reported[i].code, path |-> reported[i].path,
                         level |-> FindingLevel(reported[i].code)]]
       /\ suppressed' = [level \in Level |-> suppressed[level] + Cardinality(Omitted(level))]

When(condition, code, p) == IF condition THEN <<Finding(code, p)>> ELSE <<>>

-----------------------------------------------------------------------------
(* class_uid * 100 + activity_id, in Go's integers: what is out of range   *)
(* is found by comparison, before it is computed.                          *)

Quotient(x) == IF x < 0 THEN -((-x) \div 100) ELSE x \div 100

(* Slip: the sum is not checked.                                           *)
UncheckedSum(class, activity) ==
    IF class > Quotient(MaxInt) \/ class < Quotient(MinInt) THEN [ok |-> FALSE]
    ELSE [ok |-> TRUE, uid |-> class * 100 + activity]

ExpectedTypeUID(class, activity) ==
    LET base == class * 100
    IN IF \/ class > Quotient(MaxInt) \/ class < Quotient(MinInt)
          \/ activity > 0 /\ base > MaxInt - activity
          \/ activity < 0 /\ base < MinInt - activity
       THEN [ok |-> FALSE]
       ELSE [ok |-> TRUE, uid |-> base + activity]

TypeUIDFindings ==
    LET Uint(name) == At(event.item, name)
        expected == ExpectedTypeUID(Uint("class_uid").n, Uint("activity_id").n)
    IN IF \E name \in {"class_uid", "activity_id", "type_uid"} : Uint(name).k # "int" THEN <<>>
       ELSE IF ~expected.ok THEN <<Finding("TypeUIDExpectedValueOverflow", <<"type_uid">>)>>
       ELSE When(Uint("type_uid").n # expected.uid, "TypeUIDIncorrect", <<"type_uid">>)

(* validateConstraints: at_least_one or just_one of some paths.            *)
ConstraintFails(type, item) ==
    LET count == Cardinality({names \in Schema[type].constraint.of : HasPath(item, names)})
    IN CASE Schema[type].constraint.kind = "at_least_one" -> count = 0
         [] Schema[type].constraint.kind = "just_one" -> count # 1
         [] Schema[type].constraint.kind = "none" -> FALSE

(* visitUnknownAttributes: names that no attribute has, whether active or  *)
(* not, in order of their names.                                           *)
UnknownNames(type, item) ==
    {name \in DOMAIN item.at : /\ Present(item.at[name])
                               /\ \A i \in DOMAIN Attributes(type) : Attributes(type)[i].name # name}

UnknownFindings(type, item, p) ==
    LET names == SetToSeq(UnknownNames(type, item))
    IN [i \in DOMAIN names |-> Finding("AttributeUnknown", Append(p, names[i]))]

-----------------------------------------------------------------------------
(* The walk.  Its tasks:                                                   *)
(*   item   attributes of an object from number next on (visitItem)        *)
(*   value  a value or an array element of an attribute (visitValue)       *)
(*   array  elements of an array from number next on (visitArray)          *)
(*   pop    c.path.Pop()                                                   *)
(*   leave  visitObjectDone;  end  visitClassDone and onEventDone          *)

Item(type, item, next) == [do |-> "item", type |-> type, item |-> item, next |-> next]
Value(a, v) == [do |-> "value", of |-> a, value |-> v]
Elements(a, v, next) == [do |-> "array", of |-> a, value |-> v, next |-> next]
Pop == [do |-> "pop"]

Doing(task) == Compiled /\ todo # <<>> /\ Head(todo).do = task

Push(tasks) == todo' = tasks \o Tail(todo)

(* ResolveEventClass: what is wrong with the class_uid, if anything.       *)
ClassIssue(item) ==
    LET uid == At(item, "class_uid")
    IN CASE ~Present(uid) -> "ClassUIDMissing"
         [] uid.k \notin {"null", "int"} -> "ClassUIDWrongType"
         [] uid.k = "int" -> IF uid.n \in Uids THEN "none" ELSE "ClassUIDUnknown"

(* resolveClass: without a class nothing else is done.                     *)
ResolveClass ==
    /\ Doing("begin")
    /\ LET why == ClassIssue(event.item)
       IN IF why = "none"
          THEN /\ Raise(When(Schema[Class].deprecated, "ClassDeprecated", <<>>))
               /\ todo' = <<Item(Class, event.item, 1), [do |-> "end"]>>
               /\ UNCHANGED <<issues, done>>
          ELSE /\ Raise(<<Finding(why, <<"class_uid">>)>>)
               /\ issues' = Append(issues, Finding(why, <<"class_uid">>))
               /\ todo' = <<>> /\ done' = TRUE
    /\ UNCHANGED <<policyVars, event, path, visits>>

Current == Attributes(Head(todo).type)[Head(todo).next]
CurrentValue == At(Head(todo).item, Current.name)

DoingAttribute == Doing("item") /\ Head(todo).next <= Len(Attributes(Head(todo).type))

(* The tasks before the next attribute of the same object.                 *)
Before(tasks) ==
    LET item == Head(todo) IN Push(Append(tasks, [item EXCEPT !.next = @ + 1]))

VisitInactive ==
    /\ DoingAttribute /\ ~Active(event.profiles, Current)
    /\ Raise(When(Present(CurrentValue), "AttributeRequiresProfile", Append(path, Current.name)))
    /\ Before(<<>>)
    /\ UNCHANGED <<policyVars, event, path, visits, issues, done>>

Dispatch ==
    /\ DoingAttribute /\ Active(event.profiles, Current)
    /\ path' = Append(path, Current.name)
    /\ visits' = Append(visits, path')
    /\ UNCHANGED <<policyVars, event, issues, done>>

VisitMissing ==
    /\ Dispatch /\ ~Present(CurrentValue)
    /\ Raise(When(Current.requirement = "required", "AttributeRequiredMissing", path')
             \o When(Current.requirement = "recommended" /\ WarnOnMissingRecommended,
                     "AttributeRecommendedMissing", path'))
    /\ Before(<<Pop>>)

VisitPresent ==
    /\ Dispatch /\ Present(CurrentValue)
    /\ LET wrong == Current.array /\ CurrentValue.k # "array"
       IN /\ Raise(When(Current.deprecated, "AttributeDeprecated", path')
                   \o When(wrong, "AttributeWrongType", path'))
          /\ Before((IF wrong THEN <<>>
                     ELSE IF Current.array THEN <<Elements(Current, CurrentValue, 1)>>
                     ELSE <<Value(Current, CurrentValue)>>) \o <<Pop>>)

(* An element, behind its index.                                           *)
VisitElement ==
    /\ Doing("array") /\ Head(todo).next \in DOMAIN Head(todo).value.of
    /\ path' = Append(path, Index[Head(todo).next])
    /\ LET array == Head(todo)
       IN Push(<<Value(array.of, array.value.of[array.next]), Pop, [array EXCEPT !.next = @ + 1]>>)
    /\ UNCHANGED <<policyVars, event, visits, findings, suppressed, issues, done>>

PopPath ==
    /\ Doing("pop")
    /\ path' = Front(path)
    /\ Push(<<>>)
    /\ UNCHANGED <<policyVars, event, visits, findings, suppressed, issues, done>>

LoopDone ==
    /\ \/ Doing("item") /\ Head(todo).next > Len(Attributes(Head(todo).type))
       \/ Doing("array") /\ Head(todo).next \notin DOMAIN Head(todo).value.of
    /\ Push(<<>>)
    /\ UNCHANGED <<policyVars, event, path, visits, findings, suppressed, issues, done>>

(* What is no object: validatePrimitiveValue, onObjectWrongType, an object *)
(* without a type, onObjectSchemaMissing.                                  *)
Enterable(a, v) == a.holds = "object" /\ v.k = "map" /\ a.type \in DOMAIN Schema

ValueFindings(a, v, p) ==
    When(v.k # (IF a.holds = "object" THEN "map" ELSE "int"), "AttributeWrongType", p)
    \o When(a.holds = "object" /\ v.k = "map" /\ a.type \notin {"none"} \cup DOMAIN Schema,
            "SchemaBugObjectMissing", p)

VisitLeaf ==
    /\ Doing("value") /\ ~Enterable(Head(todo).of, Head(todo).value)
    /\ Raise(ValueFindings(Head(todo).of, Head(todo).value, path))
    /\ Push(<<>>)
    /\ UNCHANGED <<policyVars, event, path, visits, issues, done>>

(* The attribute occurs above its last occurrence, array indexes aside.    *)
HasPriorAttribute(p, name) == name \in ToSet(Front(Names(p)))

(* addProcessingTraversalLimitIssue says so for the first.                 *)
StopAtBoundary ==
    /\ Doing("value") /\ Enterable(Head(todo).of, Head(todo).value)
    /\ HasPriorAttribute(path, Head(todo).of.name)
    /\ issues' = IF \E i \in DOMAIN issues : issues[i].code = "EventTraversalLimited" THEN issues
                 ELSE Append(issues, Finding("EventTraversalLimited", path))
    /\ Push(<<>>)
    /\ UNCHANGED <<policyVars, event, path, visits, findings, suppressed, done>>

EnterObject ==
    /\ Doing("value") /\ Enterable(Head(todo).of, Head(todo).value)
    /\ LET a == Head(todo).of
           v == Head(todo).value
       IN /\ ~HasPriorAttribute(path, a.name)
          /\ Raise(When(Schema[a.type].deprecated, "ObjectDeprecated", path))
          /\ Push(<<Item(a.type, v, 1), [do |-> "leave", type |-> a.type, item |-> v]>>)
    /\ UNCHANGED <<policyVars, event, path, visits, issues, done>>

LeaveObject ==
    /\ Doing("leave")
    /\ LET type == Head(todo).type
           item == Head(todo).item
       IN Raise((IF type = AnyObject THEN <<>> ELSE UnknownFindings(type, item, path))
                \o When(ConstraintFails(type, item), "ConstraintFailed", path))
    /\ Push(<<>>)
    /\ UNCHANGED <<policyVars, event, path, visits, issues, done>>

EventDone ==
    /\ Doing("end")
    /\ Raise(UnknownFindings(Class, event.item, path)
             \o TypeUIDFindings
             \o When(ConstraintFails(Class, event.item), "ConstraintFailed", <<>>))
    /\ Push(<<>>) /\ done' = TRUE
    /\ UNCHANGED <<policyVars, event, path, visits, issues>>

Next ==
    \/ TakeRule /\ UNCHANGED walkVars
    \/ ResolveClass
    \/ VisitInactive \/ VisitMissing \/ VisitPresent \/ VisitElement \/ PopPath \/ LoopDone
    \/ VisitLeaf \/ StopAtBoundary \/ EnterObject \/ LeaveObject
    \/ EventDone

Spec == Init /\ [][Next]_vars

-----------------------------------------------------------------------------
(* Observable names: what Path.Definition says of a name, attribute by     *)
(* attribute, from the schema and the profiles alone.                      *)

AttributeOf(profiles, type, name) ==
    Kept(Attributes(type), {a \in ToSet(Attributes(type)) : a.name = name /\ Active(profiles, a)})

(* Into the object of the last of these names.                             *)
Follow(profiles, state, names) ==
    LET found == AttributeOf(profiles, state.type, Last(names))
    IN IF state.status # "open" THEN state
       ELSE IF found = <<>> THEN [state EXCEPT !.status = "undefined"]
       ELSE IF HasPriorAttribute(names, Last(names)) THEN [state EXCEPT !.status = "limited"]
       ELSE IF found[1].holds # "object" \/ found[1].type \notin DOMAIN Schema
            THEN [state EXCEPT !.status = "undefined"]
       ELSE [state EXCEPT !.type = found[1].type]

(* Into the objects that the names lead through.                           *)
Entering(profiles, names) ==
    LET through[n \in 0 .. Len(names)] ==
          IF n = 0 THEN [type |-> Class, status |-> "open"]
          ELSE Follow(profiles, through[n - 1], SubSeq(names, 1, n))
    IN through[Len(names)]

(* Slip: a name that ends in the repeated attribute is refused too.        *)
DefinitionThrough(profiles, names) ==
    LET in == Entering(profiles, names)
        before == Entering(profiles, Front(names))
    IN IF in.status = "limited" THEN in.status
       ELSE IF before.status # "open" THEN before.status
       ELSE IF AttributeOf(profiles, before.type, Last(names)) = <<>> THEN "undefined" ELSE "defined"

Definition(profiles, names) ==
    LET in == Entering(profiles, Front(names))
    IN IF in.status # "open" THEN in.status
       ELSE IF AttributeOf(profiles, in.type, Last(names)) = <<>> THEN "undefined" ELSE "defined"

-----------------------------------------------------------------------------
(* What an event contains, as its schema describes it.                     *)

Root(e) == [at |-> <<>>, value |-> e.item]

(* The attribute that a path leads to; whether it leads to an array.       *)
Found(e, p) ==
    AttributeOf(e.profiles, Entering(e.profiles, Front(Names(p))).type, Last(Names(p)))
Declared(e, p) == Found(e, p)[1]
ArrayAt(e, p) == Found(e, p) # <<>> /\ Declared(e, p).array

(* Indexes are where the schema has arrays and nowhere else.               *)
Shaped(e, p) ==
    \A k \in DOMAIN p :
      IF IsName(p[k]) THEN k < Len(p) => (ArrayAt(e, SubSeq(p, 1, k)) <=> ~IsName(p[k + 1]))
      ELSE k > 1 /\ IsName(p[k - 1])

(* Values that the walk has to look into or judge.                         *)
Values(e) ==
    {node \in Contents(e.item) :
       /\ node.at # <<>> /\ Shaped(e, node.at) /\ Definition(e.profiles, Names(node.at)) = "defined"
       /\ IsName(Last(node.at)) => Present(node.value) /\ ~ArrayAt(e, node.at)}

StatusAt(e, node) == Entering(e.profiles, Names(node.at)).status

Entered(e) ==
    {node \in Values(e) \cup {Root(e)} : node.value.k = "map" /\ StatusAt(e, node) = "open"}

Limited(e) ==
    {node \in Values(e) : Enterable(Declared(e, node.at), node.value) /\ StatusAt(e, node) = "limited"}

Unresolved == \E i \in DOMAIN issues : issues[i].code \in Mandatory

(* The walk dispatches every attribute of the event that an observable     *)
(* name can denote, once, and nothing below the boundary, which it reports *)
(* once, with the first path it stopped at, and only if it did stop        *)
(* (process.go:553-629 and path.go:146-186 draw the boundary separately,   *)
(* docs/event-processing.md:92).                                           *)
WalkExact ==
    done /\ ~Unresolved =>
      LET present == {node.at : node \in {n \in Contents(event.item) : n.at # <<>> /\ Present(n.value)}}
          limits == Kept(issues, {issue \in ToSet(issues) : issue.code = "EventTraversalLimited"})
          Place(p) == CHOOSE i \in DOMAIN visits : visits[i] = (IF IsName(Last(p)) THEN p ELSE Front(p))
      IN /\ path = <<>> /\ todo = <<>>
         /\ IsInjective(visits)
         /\ ToSet(visits) \cap present =
              {p \in present :
                 /\ IsName(Last(p)) /\ Shaped(event, p)
                 /\ Definition(event.profiles, Names(p)) = "defined"}
         /\ Len(limits) = (IF Limited(event) = {} THEN 0 ELSE 1)
         /\ Limited(event) # {} =>
              /\ limits[1].path \in {node.at : node \in Limited(event)}
              /\ \A node \in Limited(event) : Place(limits[1].path) <= Place(node.at)

-----------------------------------------------------------------------------
(* All that is wrong with an event, place by place.                        *)

TypeAt(e, node) == Entering(e.profiles, Names(node.at)).type

AttributesAt(e, node) == ToSet(Attributes(TypeAt(e, node)))

(* With an attribute of an object, whatever its value contains.            *)
AttributeFaults(e, o, a) ==
    LET v == At(o.value, a.name)
        active == Active(e.profiles, a)
    IN {code \in FindingCode :
          CASE code = "AttributeRequiresProfile" -> Present(v) /\ ~active
            [] code = "AttributeDeprecated" -> Present(v) /\ active /\ a.deprecated
            [] code = "AttributeWrongType" -> Present(v) /\ active /\ a.array /\ v.k # "array"
            [] code = "AttributeRequiredMissing" -> ~Present(v) /\ active /\ a.requirement = "required"
            [] code = "AttributeRecommendedMissing" ->
                 ~Present(v) /\ active /\ a.requirement = "recommended" /\ WarnOnMissingRecommended
            [] OTHER -> FALSE}

(* With a value, whatever it contains.                                     *)
ValueFaults(e, v) ==
    LET object == Declared(e, v.at).holds = "object"
    IN {code \in FindingCode :
          CASE code = "AttributeWrongType" -> v.value.k # (IF object THEN "map" ELSE "int")
            [] code = "SchemaBugObjectMissing" ->
                 object /\ v.value.k = "map" /\ Declared(e, v.at).type \notin DOMAIN Schema \cup {"none"}
            [] code = "ObjectDeprecated" -> v \in Entered(e) /\ Schema[TypeAt(e, v)].deprecated
            [] OTHER -> FALSE}

(* With an object as a whole.                                              *)
ObjectWrong(e, o) ==
    {f \in {Finding("ConstraintFailed", o.at)} : ConstraintFails(TypeAt(e, o), o.value)}
    \cup {Finding("AttributeUnknown", Append(o.at, name)) :
            name \in {n \in UnknownNames(TypeAt(e, o), o.value) : TypeAt(e, o) # AnyObject}}

(* Product and sum have to fit.                                            *)
TypeUIDWrong(e) ==
    LET N(name) == e.item.at[name].n
        base == N("class_uid") * 100
        exact == base + N("activity_id")
    IN IF {"activity_id", "type_uid"} \subseteq {name \in DOMAIN e.item.at : e.item.at[name].k = "int"}
       THEN IF {base, exact} \subseteq MinInt .. MaxInt
            THEN When(N("type_uid") # exact, "TypeUIDIncorrect", <<"type_uid">>)
            ELSE <<Finding("TypeUIDExpectedValueOverflow", <<"type_uid">>)>>
       ELSE <<>>

Wrong(e) ==
    {f \in {Finding("ClassDeprecated", <<>>)} : Schema[Class].deprecated}
    \cup ToSet(TypeUIDWrong(e))
    \cup (UNION {{Finding(code, v.at) : code \in ValueFaults(e, v)} : v \in Values(e)})
    \cup (UNION {ObjectWrong(e, o) : o \in Entered(e)})
    \cup (UNION {UNION {{Finding(code, Append(o.at, a.name)) : code \in AttributeFaults(e, o, a)} :
                        a \in AttributesAt(e, o)} : o \in Entered(e)})

Effective(code) ==
    IF Asked(code) = {} THEN DefaultLevel[code] ELSE CHOOSE action \in Asked(code) : TRUE

(* Everything wrong above the boundary is found once and at its place, by  *)
(* one path that is pushed and popped all along; the policy decides what   *)
(* is reported, at which level, and what is only counted, by its default   *)
(* level.  type_uid is exact in integers of the width the program has.  An *)
(* event without a class gets one finding and one issue, whatever the      *)
(* policy (validation.go:1574-1608, 2141-2199, process.go:206-294).        *)
FindingsExact ==
    done =>
      LET wrong == IF Unresolved THEN {issues[1]} ELSE Wrong(event)
          shown == {f \in wrong : Effective(f.code) # "suppress"}
      IN /\ ToSet(findings) = {[code |-> f.code, path |-> f.path, level |-> Effective(f.code)] : f \in shown}
         /\ Len(findings) = Cardinality(shown)
         /\ \A level \in Level :
              suppressed[level] = Cardinality({f \in wrong \ shown : DefaultLevel[f.code] = level})
         /\ Unresolved => Len(findings) = 1 /\ Len(issues) = 1 /\ visits = <<>>
=============================================================================
