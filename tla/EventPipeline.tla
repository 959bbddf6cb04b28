--------------------------- MODULE EventPipeline ---------------------------
(***************************************************************************)
(* Pipeline.ProcessEvent: one event walked through the mutation            *)
(* dispatchers of a configured pipeline and then through validation.       *)
(*                                                                         *)
(* The state is the event itself (its attributes and its observables), the *)
(* processContext of the call and its Result.  One action is one hook of   *)
(* one dispatcher at one place of the walk, so every order in which the    *)
(* code interleaves enum work, observable work and validation is visible.  *)
(* A caller may process the same event again, with another pipeline.       *)
(*                                                                         *)
(* The class has one level: the event's own attributes, and the entries of *)
(* its observables array with their type_id / type pair.                   *)
(***************************************************************************)
EXTENDS EnumSiblings, FiniteSets, SequencesExt

CONSTANTS
    Attr,        \* attributes of the class, observables excepted
    ArrayAttr,   \* those the schema declares as arrays
    EnumAttr,    \* integral enum attributes that declare a sibling
    Sibling,     \* the sibling each declares
    Resolved,    \* enum attributes whose sibling the schema cache linked
    ObjectAttr,  \* attributes of type object_t
    TypeIdOf,    \* observable type_id of every attribute that has one
    Observables, \* the name of the observables attribute itself
    Order,       \* all attributes in name order (OrderedAttributes)
    Obj,         \* an object, as a value
    Text,        \* string form of every formattable scalar (FormatScalar)
    SeedEvents,  \* events a caller may hand to ProcessEvent
    Configs,     \* pipeline configurations in use
    MaxCalls     \* bound: calls on one event

ASSUME AttrAssumption ==
    /\ ArrayAttr \subseteq Attr /\ EnumAttr \subseteq Attr
    /\ Resolved \subseteq EnumAttr /\ ObjectAttr \subseteq Attr
    /\ Sibling \in [EnumAttr -> Attr]
    /\ DOMAIN TypeIdOf \subseteq Attr \ EnumAttr
    /\ \A a \in DOMAIN TypeIdOf : TypeIdOf[a] \in Integral
    /\ Observables \notin Attr

(* enumSiblingInitializationIssue and validateItemEnumSiblingRelationships: *)
(* a linked sibling is no enum, has the enum's shape and no second owner.   *)
ASSUME SiblingAssumption ==
    /\ \A e \in EnumAttr : Sibling[e] \notin EnumAttr \cup ObjectAttr
    /\ \A e \in Resolved : Sibling[e] \in ArrayAttr <=> e \in ArrayAttr
    /\ \A e, f \in EnumAttr : Sibling[e] = Sibling[f] => e = f

(* OrderedAttributes lists every attribute of the class once.              *)
ASSUME OrderAssumption ==
    /\ Order \in Seq(Attr \cup {Observables})
    /\ \A a \in Attr : \E i \in DOMAIN Order : Order[i] = a
    /\ \A i, j \in DOMAIN Order : Order[i] = Order[j] => i = j

ASSUME ObjAssumption ==
    /\ Obj \in Scalar \ (Str \cup Integral \cup {NullItem})
    /\ Text \in [Str \cup Integral -> Str]
    /\ \A x \in Str : Text[x] = x

-----------------------------------------------------------------------------
(* The members of a set of positions in order, and the elements of s there: *)
(* what a loop keeps that appends the elements it accepts to a new slice.  *)
Ascending(I) ==
    [n \in 1 .. Cardinality(I) |-> CHOOSE i \in I : Cardinality({j \in I : j <= i}) = n]

Selected(s, I) == LET at == Ascending(I) IN [n \in DOMAIN at |-> s[at[n]]]

-----------------------------------------------------------------------------
(* Observables.                                                            *)

(* How far an entry's name gets in observable.analyzeEntry before its path *)
(* is looked at.  "self" names the observables attribute.                  *)
NameKind == {"path", "missing", "wrongtype", "syntax", "self"}

(* One entry of the observables array.  A path is an attribute and an      *)
(* index into it; index 0 stands for the notations without one (bare, [],  *)
(* [*]), which select every element.  map is false for an element that is  *)
(* not an object.                                                          *)
Entry == [map : BOOLEAN, name : NameKind, a : Attr, i : Nat,
          tid : Value, typ : Value, val : Value]

ObsValue == [k : {"absent", "null", "other", "array"}, s : Seq(Entry)]

NoObs        == [k |-> "absent", s |-> <<>>]
ObsArray(es) == [k |-> "array", s |-> es]

Event == [cls : {"resolved", "missing", "wrongtype", "unknown"},
          active : SUBSET Attr, attr : [Attr -> Value], obs : ObsValue]

Action == {"none", "add", "remove", "force"}
Config == [enum : Action, obs : Action, validate : BOOLEAN,
           suppress : BOOLEAN, indexed : BOOLEAN]

(* config.validate refuses a configuration that asks for nothing.  Each    *)
(* category has one action, the two need not agree.                        *)
ASSUME InputAssumption ==
    /\ Configs # {} /\ Configs \subseteq Config
    /\ \A c \in Configs : c.enum # "none" \/ c.obs # "none" \/ c.validate
    /\ \A e \in SeedEvents :
          /\ e.cls \in {"resolved", "missing", "wrongtype", "unknown"}
          /\ e.active \subseteq Attr
          /\ e.attr \in [Attr -> Value]
          /\ e.obs \in ObsValue
    /\ MaxCalls \in Nat

(* observablepath.Path.resolve at one level: the values the path selects,  *)
(* and whether a branch of it is missing.                                  *)
Candidates(v, i) ==
    CASE v.k = "absent" -> {}
      [] v.k = "null"   -> IF i = 0 THEN {NullItem} ELSE {}
      [] v.k = "scalar" -> IF i = 0 THEN Range(v.s) ELSE {}
      [] v.k = "array"  -> IF i = 0 THEN Range(v.s)
                           ELSE IF i \in DOMAIN v.s THEN {v.s[i]} ELSE {}

BranchMissing(v, i) ==
    v.k = "absent" \/ (i > 0 /\ v.k = "array" /\ i \notin DOMAIN v.s)

ValueWrongType(entry) ==
    Present(entry.val) /\ (entry.val.k = "array" \/ entry.val.s[1] \notin Str)

(* observable.analyzeEntry: the first thing wrong with an entry, or "none" *)
(* when the event still holds what the entry says, so it can be rebuilt.   *)
Problem(entry, attr, active) ==
    LET v     == attr[entry.a]
        found == Candidates(v, entry.i)
        match == CASE entry.val.k = "absent" -> Obj \in found
                   [] entry.val.k = "null"   -> NullItem \in found \/ BranchMissing(v, entry.i)
                   [] OTHER -> \E x \in found \cap (Str \cup Integral) :
                                  ScalarV(Text[x]) = entry.val
    IN  IF ~entry.map THEN "element_wrong_type"
        ELSE IF entry.name = "missing" THEN "name_missing"
        ELSE IF entry.name = "wrongtype" THEN "name_wrong_type"
        ELSE IF entry.name = "syntax" THEN "name_invalid_syntax"
        ELSE IF \/ entry.name = "self"
                \/ entry.a \notin active
                \/ entry.i > 0 /\ entry.a \notin ArrayAttr
             THEN "name_invalid_reference"
        ELSE IF ValueWrongType(entry) THEN "value_wrong_type"
        ELSE IF match THEN "none"
        ELSE IF found = {} THEN "path_not_found"
        ELSE IF entry.val.k = "absent" THEN "path_not_object"
        ELSE "value_not_found"

Removable(entry, attr, active) == Problem(entry, attr, active) = "none"

(* The problems validation reports itself; it leaves the structural ones   *)
(* to the walk (nonStructuralObservableValidationCode).                    *)
NonStructural == {"name_invalid_syntax", "name_invalid_reference",
                  "path_not_found", "path_not_object", "value_not_found"}

-----------------------------------------------------------------------------
(* The pipeline (NewPipeline).                                             *)

(* Slip: a combined dispatcher does not wait for its own enum work.        *)
DispatcherCombinedEager(action, enums, obs, defer) ==
    [action |-> action, enums |-> enums, obs |-> obs,
     defer  |-> action \in {"remove", "force"} /\ defer]

Dispatcher(action, enums, obs, defer) ==
    [action |-> action, enums |-> enums, obs |-> obs,
     defer  |-> action \in {"remove", "force"} /\ (defer \/ (enums /\ obs))]

(* Slip: the observables dispatcher is never told that enums change.       *)
PipelineEager(c) ==
    IF c.enum = c.obs
    THEN IF c.enum = "none" THEN <<>> ELSE <<Dispatcher(c.enum, TRUE, TRUE, FALSE)>>
    ELSE (IF c.enum = "none" THEN <<>> ELSE <<Dispatcher(c.enum, TRUE, FALSE, FALSE)>>)
         \o (IF c.obs = "none" THEN <<>> ELSE <<Dispatcher(c.obs, FALSE, TRUE, FALSE)>>)

(* One combined dispatcher for equal actions, otherwise enum work first.   *)
Pipeline(c) ==
    IF c.enum = c.obs
    THEN IF c.enum = "none" THEN <<>> ELSE <<Dispatcher(c.enum, TRUE, TRUE, FALSE)>>
    ELSE (IF c.enum = "none" THEN <<>>
          ELSE <<Dispatcher(c.enum, TRUE, FALSE, FALSE)>>)
         \o
         (IF c.obs = "none" THEN <<>>
          ELSE <<Dispatcher(c.obs, FALSE, TRUE, c.enum # "none")>>)

RequiresEventWalk(c) == c.enum # "none" \/ c.obs = "add" \/ c.validate

-----------------------------------------------------------------------------
VARIABLES
    phase,      \* "ready", or the part of ProcessEvent under way
    pos,        \* place in Order the walk has reached
    ent,        \* entry of the observables array the walk has reached
    turn,       \* dispatcher whose hook is next; past the last: validation
    cfg,        \* configuration of the pipeline in use
    cls,        \* what resolving class_uid gives
    active,     \* attributes the event's profiles activate
    attr,       \* the event's attributes
    obs,        \* the event's observables attribute
    gen,        \* context.observables: generated during the walk
    genStart,   \* context.generatedObservablesStart
    res,        \* counters of context.result
    findings,   \* validation findings
    calls,      \* calls made on this event
    start,      \* the event when the current call began
    first       \* the event and the configuration of the first call

vars == <<phase, pos, ent, turn, cfg, cls, active, attr, obs, gen, genStart,
          res, findings, calls, start, first>>

history == <<calls, start, first>>

NoResult == [added |-> 0, removed |-> 0, retained |-> 0, obsAdded |-> 0,
             obsRemoved |-> 0, obsRetained |-> 0, issues |-> 0, suppressed |-> 0]

Pipe == Pipeline(cfg)
Past == turn = Len(Pipe) + 1

Finding(at, stage, i, code) == [at |-> at, stage |-> stage, i |-> i, code |-> code]

(* suppressesIssue: a suppressed issue is counted instead of reported.     *)
Report(r, n) ==
    IF cfg.suppress THEN [r EXCEPT !.suppressed = @ + n]
                    ELSE [r EXCEPT !.issues = @ + n]

Charge(r, o) ==
    Report([r EXCEPT !.added = @ + o.added, !.removed = @ + o.removed,
                     !.retained = @ + o.retained], o.issues)

Init ==
    /\ \E e \in SeedEvents :
          cls = e.cls /\ active = e.active /\ attr = e.attr /\ obs = e.obs
    /\ cfg = CHOOSE c \in Configs : TRUE   \* of no effect before a call
    /\ phase = "ready" /\ pos = 1 /\ ent = 1 /\ turn = 1
    /\ gen = <<>> /\ genStart = -1 /\ res = NoResult /\ findings = {}
    /\ calls = 0
    /\ start = [attr |-> attr, obs |-> obs]
    /\ first = [attr |-> attr, obs |-> obs, cfg |-> cfg]

-----------------------------------------------------------------------------
(* A call.  An event whose class cannot be resolved gets one mandatory     *)
(* issue and one finding and is left alone.                                *)
Call(c) ==
    /\ phase = "ready" /\ calls < MaxCalls
    /\ cfg' = c
    /\ calls' = calls + 1
    /\ start' = [attr |-> attr, obs |-> obs]
    /\ first' = IF calls = 0 THEN [attr |-> attr, obs |-> obs, cfg |-> c] ELSE first
    /\ gen' = <<>> /\ genStart' = -1
    /\ IF cls = "resolved"
       THEN /\ phase' = "class" /\ res' = NoResult /\ findings' = {}
       ELSE /\ phase' = "ready"
            /\ res' = [NoResult EXCEPT !.issues = 1]
            /\ findings' = IF c.validate
                           THEN {Finding("class_uid", "class", 0, cls)} ELSE {}
    /\ pos' = 1 /\ ent' = 1 /\ turn' = 1
    /\ UNCHANGED <<cls, active, attr, obs>>

-----------------------------------------------------------------------------
(* Removing observables.                                                   *)

(* removeObservablesSafely: what cannot be rebuilt from the event is kept, *)
(* in its order, with one issue for every such entry.                      *)
RemoveSafely ==
    LET kept == Selected(obs.s, {i \in DOMAIN obs.s : ~Removable(obs.s[i], attr, active)})
    IN  CASE obs.k = "absent" -> UNCHANGED <<obs, res>>
          [] obs.k = "null"   -> obs' = NoObs /\ UNCHANGED res
          [] obs.k = "other"  -> /\ res' = Report([res EXCEPT !.obsRetained = @ + 1], 1)
                                 /\ UNCHANGED obs
          [] obs.k = "array"  ->
             /\ res' = Report([res EXCEPT !.obsRemoved  = @ + Len(obs.s) - Len(kept),
                                          !.obsRetained = @ + Len(kept)], Len(kept))
             /\ obs' = IF kept = <<>> THEN NoObs ELSE ObsArray(kept)

(* forceRemoveObservablesWithoutAnalysis                                   *)
RemoveForced ==
    /\ obs' = NoObs
    /\ res' = IF obs.k = "array" THEN [res EXCEPT !.obsRemoved = @ + Len(obs.s)] ELSE res

RemoveObservables(d) ==
    CASE d.obs /\ d.action = "remove" -> RemoveSafely
      [] d.obs /\ d.action = "force"  -> RemoveForced
      [] OTHER                        -> UNCHANGED <<obs, res>>

(* mutationDispatcher.onClass and onClassDone: a deferred removal waits    *)
(* until the walk has done its enum work.                                  *)
OnClass ==
    /\ phase = "class" /\ ~Past
    /\ IF Pipe[turn].defer THEN UNCHANGED <<obs, res>> ELSE RemoveObservables(Pipe[turn])
    /\ turn' = turn + 1
    /\ UNCHANGED <<phase, pos, ent, cfg, cls, active, attr, gen, genStart, findings, history>>

OnClassDone ==
    /\ phase = "classDone" /\ ~Past
    /\ IF Pipe[turn].defer THEN RemoveObservables(Pipe[turn]) ELSE UNCHANGED <<obs, res>>
    /\ turn' = turn + 1
    /\ UNCHANGED <<phase, pos, ent, cfg, cls, active, attr, gen, genStart, findings, history>>

(* The walk is skipped by a pipeline that only removes observables.        *)
EndPart(from, to) ==
    /\ phase = from /\ phase' = to /\ turn' = 1
    /\ UNCHANGED <<pos, ent, cfg, cls, active, attr, obs, gen, genStart, res, findings, history>>

ClassVisited == Past /\ EndPart("class", IF RequiresEventWalk(cfg) THEN "walk" ELSE "eventDone")
WalkEnds     == pos > Len(Order) /\ EndPart("walk", "classDone")
ClassDone    == Past /\ EndPart("classDone", "eventDone")

-----------------------------------------------------------------------------
(* Generating observables.                                                 *)

(* Slip: elements are numbered one too high.                               *)
GeneratedShifted(d, a, n, x) ==
    [map |-> TRUE, name |-> "path", a |-> a,
     i   |-> IF cfg.indexed /\ a \in ArrayAttr THEN n + 1 ELSE 0,
     tid |-> ScalarV(TypeIdOf[a]), typ |-> AbsentV,
     val |-> IF a \in ObjectAttr THEN AbsentV ELSE ScalarV(Text[x])]

(* addObservable: a combined dispatcher also writes the type caption.      *)
Generated(d, a, n, x) ==
    [map |-> TRUE, name |-> "path", a |-> a,
     i   |-> IF cfg.indexed /\ a \in ArrayAttr THEN n ELSE 0,
     tid |-> ScalarV(TypeIdOf[a]),
     typ |-> IF d.enums /\ Defined(TypeIdOf[a]) THEN ScalarV(Caption[TypeIdOf[a]]) ELSE AbsentV,
     val |-> IF a \in ObjectAttr THEN AbsentV ELSE ScalarV(Text[x])]

Formattable(a, x) == IF a \in ObjectAttr THEN x = Obj ELSE x \in Str \cup Integral

(* What the value v of attribute a contributes: an observable for every    *)
(* value of the right kind, an issue for each other one.                   *)
Harvest(d, a, v) ==
    LET good == Ascending({n \in DOMAIN v.s : Formattable(a, v.s[n])})
    IN  IF ~(d.action = "add" /\ d.obs /\ a \in DOMAIN TypeIdOf /\ Present(v))
        THEN [new |-> <<>>, issues |-> 0]
        ELSE IF v.k = (IF a \in ArrayAttr THEN "array" ELSE "scalar")
        THEN [new    |-> [m \in DOMAIN good |-> Generated(d, a, good[m], v.s[good[m]])],
              issues |-> Len(v.s) - Len(good)]
        ELSE [new |-> <<>>, issues |-> 1]

(* Identity of an entry for DeduplicateGenerated; type is no part of it.   *)
Identified(entry) ==
    /\ entry.map /\ entry.name \notin {"missing", "wrongtype"}
    /\ entry.tid.k = "scalar" /\ entry.tid.s[1] \in Integral
    /\ ~ValueWrongType(entry)

(* Slip: entries that differ only in their type caption count as different. *)
IdentityWithCaption(entry) == <<entry.name, entry.a, entry.i, entry.tid, entry.typ, entry.val>>

Identity(entry) == <<entry.name, entry.a, entry.i, entry.tid, entry.val>>

(* Slip: only repetitions within the generated entries are noticed.        *)
DeduplicatedAmongGenerated(existing, generated) ==
    Selected(generated, {i \in DOMAIN generated :
        ~\E j \in 1 .. i - 1 : Identity(generated[j]) = Identity(generated[i])})

(* DeduplicateGenerated: what is new next to existing and to what comes    *)
(* before it.  Only entries that can be identified are remembered.         *)
Deduplicated(existing, generated) ==
    Selected(generated, {i \in DOMAIN generated :
        ~\E x \in Range(existing) \cup {generated[j] : j \in 1 .. i - 1} :
            Identified(x) /\ Identity(x) = Identity(generated[i])})

(* enrichmentProcessor.onEventDone and addGeneratedObservables.  A null or *)
(* empty observables attribute is dropped first, one that is no array is   *)
(* left alone.                                                             *)
AddObservables ==
    LET existing == IF obs.k = "array" THEN obs.s ELSE <<>>
        fresh    == Deduplicated(existing, gen)
    IN  IF obs.k = "other"
        THEN /\ res' = IF gen = <<>> THEN res ELSE Report(res, 1)
             /\ UNCHANGED <<obs, genStart>>
        ELSE /\ res' = Report([res EXCEPT !.obsAdded = @ + Len(fresh)], Len(gen) - Len(fresh))
             /\ obs' = IF existing \o fresh = <<>> THEN NoObs ELSE ObsArray(existing \o fresh)
             /\ genStart' = IF fresh = <<>> \/ (existing = <<>> /\ Len(gen) > 1)
                            THEN genStart ELSE Len(existing)

OnEventDone ==
    /\ phase = "eventDone" /\ ~Past
    /\ IF Pipe[turn].action = "add" /\ Pipe[turn].obs
       THEN AddObservables
       ELSE UNCHANGED <<obs, genStart, res>>
    /\ turn' = turn + 1
    /\ UNCHANGED <<phase, pos, ent, cfg, cls, active, attr, gen, findings, history>>

-----------------------------------------------------------------------------
(* The walk (visitItem): attributes in order, and at each of them every    *)
(* dispatcher in turn, then validation.                                    *)

Here == Order[pos]
AtAttr == phase = "walk" /\ pos <= Len(Order) /\ Here # Observables
AtObs  == phase = "walk" /\ pos <= Len(Order) /\ Here = Observables
AtEntry == AtObs /\ obs.k = "array" /\ ent <= Len(obs.s)

(* A pair is dispatched from its enum, and only when both are active.      *)
PairOwner(a)   == a \in Resolved /\ a \in active /\ Sibling[a] \in active
OwnedByPair(a) == \E e \in Resolved : PairOwner(e) /\ Sibling[e] = a
Skipped(a)     == a \notin active \/ OwnedByPair(a)

(* What dispatcher d does to a pair, and to the declared but unlinked      *)
(* sibling of an enum visited as an ordinary attribute.                    *)
PairWork(d, isArray, enum, sib) ==
    CASE ~d.enums            -> Untouched(sib)
      [] d.enums /\ d.action = "add"    -> AddPair(isArray, enum, sib)
      [] d.enums /\ d.action = "remove" -> RemovePair(isArray, enum, sib, FALSE)
      [] d.enums /\ d.action = "force"  -> RemovePair(isArray, enum, sib, TRUE)

UnlinkedWork(d, enum, sib) ==
    IF d.enums /\ d.action \in {"remove", "force"}
    THEN RetainUnsupported(enum, sib) ELSE Untouched(sib)

Advance == pos' = pos + 1 /\ ent' = 1 /\ turn' = 1

SkipAttribute ==
    /\ AtAttr /\ Skipped(Here)
    /\ Advance
    /\ UNCHANGED <<phase, cfg, cls, active, attr, obs, gen, genStart, res, findings, history>>

(* onEnumSiblingPairAttributes of one dispatcher: the sibling first, then  *)
(* an observable from the sibling as it now is.                            *)
VisitPair ==
    /\ AtAttr /\ PairOwner(Here) /\ ~Past
    /\ LET d   == Pipe[turn]
           sib == Sibling[Here]
           o   == PairWork(d, Here \in ArrayAttr, attr[Here], attr[sib])
           h   == Harvest(d, sib, o.sib)
       IN  /\ attr' = [attr EXCEPT ![sib] = o.sib]
           /\ gen' = gen \o h.new
           /\ res' = Report(Charge(res, o), h.issues)
    /\ turn' = turn + 1
    /\ UNCHANGED <<phase, pos, ent, cfg, cls, active, obs, genStart, findings, history>>

(* onAttribute, onArrayElement and onObject of one dispatcher at an        *)
(* attribute visited by itself.                                            *)
VisitOrdinary ==
    /\ AtAttr /\ ~Skipped(Here) /\ ~PairOwner(Here) /\ ~Past
    /\ LET d == Pipe[turn]
           h == Harvest(d, Here, attr[Here])
       IN  /\ IF Here \in EnumAttr \ Resolved
              THEN LET o == UnlinkedWork(d, attr[Here], attr[Sibling[Here]])
                   IN  /\ attr' = [attr EXCEPT ![Sibling[Here]] = o.sib]
                       /\ res' = Report(Charge(res, o), h.issues)
              ELSE res' = Report(res, h.issues) /\ UNCHANGED attr
           /\ gen' = gen \o h.new
    /\ turn' = turn + 1
    /\ UNCHANGED <<phase, pos, ent, cfg, cls, active, obs, genStart, findings, history>>

(* The same for the type_id / type pair of one entry of observables.       *)
VisitEntry ==
    /\ AtEntry /\ ~Past
    /\ LET e == obs.s[ent]
           o == PairWork(Pipe[turn], FALSE, e.tid, e.typ)
       IN  IF Pipe[turn].enums /\ e.map
           THEN obs' = [obs EXCEPT !.s[ent].typ = o.sib] /\ res' = Charge(res, o)
           ELSE UNCHANGED <<obs, res>>
    /\ turn' = turn + 1
    /\ UNCHANGED <<phase, pos, ent, cfg, cls, active, attr, gen, genStart, findings, history>>

(* Slip: validation reads the pair as it was before the call.              *)
ValidateAttributeStale ==
    /\ AtAttr /\ ~Skipped(Here) /\ Past
    /\ LET old == start.attr
       IN  findings' = IF cfg.validate /\ PairOwner(Here)
                       THEN findings \cup
                            {Finding(Here, "walk", f[2], f[1]) : f \in
                                PairFindings(Here \in ArrayAttr, old[Here], old[Sibling[Here]])}
                       ELSE findings
    /\ Advance
    /\ UNCHANGED <<phase, cfg, cls, active, attr, obs, gen, genStart, res, history>>

(* Validation's turn at an attribute.                                      *)
ValidateAttribute ==
    /\ AtAttr /\ ~Skipped(Here) /\ Past
    /\ findings' = IF cfg.validate /\ PairOwner(Here)
                   THEN findings \cup
                        {Finding(Here, "walk", f[2], f[1]) : f \in
                            PairFindings(Here \in ArrayAttr, attr[Here], attr[Sibling[Here]])}
                   ELSE findings
    /\ Advance
    /\ UNCHANGED <<phase, cfg, cls, active, attr, obs, gen, genStart, res, history>>

(* What the walk reports of an entry: its structure and its own pair.      *)
EntryFindings(e) ==
    IF ~e.map THEN {"element_wrong_type"}
    ELSE {f[1] : f \in ScalarFindings(e.tid, e.typ)}
         \cup (IF e.name = "missing" THEN {"name_missing"} ELSE {})
         \cup (IF e.name = "wrongtype" THEN {"name_wrong_type"} ELSE {})
         \cup (IF ValueWrongType(e) THEN {"value_wrong_type"} ELSE {})

(* Slip: the loop over the entries does not advance.                       *)
ValidateEntryStuck ==
    /\ AtEntry /\ Past
    /\ ent' = ent /\ turn' = 1
    /\ UNCHANGED <<phase, pos, cfg, cls, active, attr, obs, gen, genStart, res, findings, history>>

ValidateEntry ==
    /\ AtEntry /\ Past
    /\ findings' = IF cfg.validate
                   THEN findings \cup {Finding(Observables, "walk", ent, c) : c \in EntryFindings(obs.s[ent])}
                   ELSE findings
    /\ ent' = ent + 1 /\ turn' = 1
    /\ UNCHANGED <<phase, pos, cfg, cls, active, attr, obs, gen, genStart, res, history>>

(* No entry, or none left.                                                 *)
LeaveObservables ==
    /\ AtObs /\ ~AtEntry
    /\ findings' = IF cfg.validate /\ obs.k = "other"
                   THEN findings \cup {Finding(Observables, "walk", 0, "array_wrong_type")}
                   ELSE findings
    /\ Advance
    /\ UNCHANGED <<phase, cfg, cls, active, attr, obs, gen, genStart, res, history>>

(* Slip: the last entry of the caller's prefix is trusted as well.         *)
AnalyzedTooFew == {i \in DOMAIN obs.s : genStart < 0 \/ i < genStart}

(* validationProcessor.onEventDone: the entries up to the generated        *)
(* suffix, which is trusted, are resolved against the event.               *)
Analyzed == {i \in DOMAIN obs.s : genStart < 0 \/ i <= genStart}

EventDone ==
    /\ phase = "eventDone" /\ Past
    /\ phase' = "ready"
    /\ findings' = IF cfg.validate
                   THEN findings \cup
                        {Finding(Observables, "done", i, Problem(obs.s[i], attr, active)) :
                            i \in {j \in Analyzed : Problem(obs.s[j], attr, active) \in NonStructural}}
                   ELSE findings
    /\ UNCHANGED <<pos, ent, turn, cfg, cls, active, attr, obs, gen, genStart, res, history>>

-----------------------------------------------------------------------------
Process ==
    \/ OnClass \/ ClassVisited
    \/ SkipAttribute \/ VisitPair \/ VisitOrdinary \/ VisitEntry
    \/ ValidateAttribute \/ ValidateEntry \/ LeaveObservables
    \/ WalkEnds \/ OnClassDone \/ ClassDone
    \/ OnEventDone \/ EventDone

Next == (\E c \in Configs : Call(c)) \/ Process

(* ProcessEvent runs in the caller's goroutine to its end; whether it is   *)
(* called again is the caller's choice.                                    *)
Spec == Init /\ [][Next]_vars /\ WF_vars(Process)
=============================================================================
