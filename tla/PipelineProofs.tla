--------------------------- MODULE PipelineProofs ---------------------------
(***************************************************************************)
(* Theorems about EventPipeline, for every schema, event and set of        *)
(* configurations its assumptions allow.                                   *)
(***************************************************************************)
EXTENDS PipelineProperties, SequenceTheorems, FiniteSetTheorems, Iteration

-----------------------------------------------------------------------------
(* One pair.                                                               *)

(* Adding leaves a sibling that is a value, and touches none that has one  *)
(* (addEnumSibling, addEnumArraySibling).                                  *)
LEMMA AddPairSound ==
    ASSUME NEW isArray \in BOOLEAN, NEW enum \in Value, NEW sib \in Value
    PROVE  /\ AddPair(isArray, enum, sib).sib \in Value
           /\ AddPair(isArray, enum, sib).sib = sib \/ ~Present(sib)
<1>1. sib \in Value /\ Untouched(sib).sib = sib
  BY DEF Untouched, Outcome
<1>2. ASSUME ~isArray
      PROVE  AddScalar(enum, sib).sib \in Value
             /\ (AddScalar(enum, sib).sib = sib \/ ~Present(sib))
  <2>1. CASE ~Present(enum) \/ Present(sib)
    BY <2>1, <1>1 DEF AddScalar
  <2>2. CASE ~(~Present(enum) \/ Present(sib)) /\ enum.k = "scalar" /\ Labelled(enum.s[1])
    <3>1. Caption[enum.s[1]] \in Scalar
      BY <2>2, CaptionAssumption, ScalarAssumption DEF Labelled, Defined
    <3>2. ScalarV(Caption[enum.s[1]]) \in Value
      BY <3>1 DEF ScalarV, Value
    <3>3. QED BY <2>2, <3>2 DEF AddScalar, Outcome
  <2>3. CASE ~(~Present(enum) \/ Present(sib)) /\ ~(enum.k = "scalar" /\ Labelled(enum.s[1]))
    BY <2>3 DEF AddScalar, Outcome
  <2>4. QED BY <2>1, <2>2, <2>3
<1>3. ASSUME isArray
      PROVE  AddArray(enum, sib).sib \in Value
             /\ (AddArray(enum, sib).sib = sib \/ ~Present(sib))
  <2>1. CASE enum.k # "array" \/ Present(sib)
    BY <2>1, <1>1 DEF AddArray
  <2>2. CASE ~(enum.k # "array" \/ Present(sib)) /\ \A i \in DOMAIN enum.s : Labelled(enum.s[i])
    <3>1. \A i \in DOMAIN enum.s : Caption[enum.s[i]] \in Scalar
      BY <2>2, CaptionAssumption, ScalarAssumption DEF Labelled, Defined
    <3>2. enum.s \in Seq(Scalar)
      BY DEF Value
    <3>3. [i \in DOMAIN enum.s |-> Caption[enum.s[i]]] \in Seq(Scalar)
      BY <3>1, <3>2
    <3>4. ArrayV([i \in DOMAIN enum.s |-> Caption[enum.s[i]]]) \in Value
      BY <3>3 DEF ArrayV, Value
    <3>5. QED BY <2>2, <3>4 DEF AddArray, Outcome
  <2>3. CASE ~(enum.k # "array" \/ Present(sib)) /\ ~\A i \in DOMAIN enum.s : Labelled(enum.s[i])
    BY <2>3 DEF AddArray, Outcome
  <2>4. QED BY <2>1, <2>2, <2>3
<1>4. QED BY <1>2, <1>3 DEF AddPair

(* Removing keeps the sibling or deletes it, and with a value it is never  *)
(* deleted next to 99, force or not (removeEnumSiblingPair).               *)
Sound(enum, sib, new) ==
    new = sib \/ (new = AbsentV /\ (~Present(sib) \/ ~IncludesOther(enum)))

(* Removing a pair never takes away source data.                           *)
LEMMA RemovePairSound ==
    ASSUME NEW isArray \in BOOLEAN, NEW force \in BOOLEAN,
           NEW enum \in Value, NEW sib \in Value
    PROVE  Sound(enum, sib, RemovePair(isArray, enum, sib, force).sib)
<1>1. /\ Untouched(sib).sib = sib /\ Deleted.sib = AbsentV
      /\ \A n : Kept(sib, n).sib = sib
  BY DEF Untouched, Deleted, Kept, Outcome
<1>2. Sound(enum, sib, RemoveScalar(enum, sib, force).sib)
  <2>1. CASE RemoveScalar(enum, sib, force) = Deleted
             /\ enum.k = "scalar" /\ enum.s[1] # Other
    <3>1. Len(enum.s) = 1 /\ enum.s \in Seq(Scalar)
      BY <2>1 DEF Value
    <3>2. ~IncludesOther(enum)
      BY <2>1, <3>1 DEF IncludesOther
    <3>3. QED BY <1>1, <2>1, <3>2 DEF Sound
  <2>2. CASE RemoveScalar(enum, sib, force) \in {Kept(sib, 0), Kept(sib, 1)}
    BY <1>1, <2>2 DEF Sound
  <2>3. QED BY <2>1, <2>2 DEF RemoveScalar
<1>3. Sound(enum, sib, RemoveArray(enum, sib, force).sib)
  <2> DEFINE stops == {i \in DOMAIN enum.s : StopsRemoval(enum, sib, force, i)}
  <2>1. CASE RemoveArray(enum, sib, force) = Deleted /\ stops = {}
    <3>1. ~IncludesOther(enum)
      BY <2>1 DEF IncludesOther, StopsRemoval
    <3>2. QED BY <1>1, <2>1, <3>1 DEF Sound
  <2>2. CASE \E n : RemoveArray(enum, sib, force) = Kept(sib, n)
    BY <1>1, <2>2 DEF Sound
  <2>3. QED BY <2>1, <2>2 DEF RemoveArray
<1>4. CASE sib.k = "absent"
  BY <1>1, <1>4 DEF RemovePair, Sound
<1>5. CASE sib.k = "null"
  BY <1>1, <1>5 DEF RemovePair, Present, Sound
<1>6. CASE sib.k \notin {"absent", "null"}
  BY <1>2, <1>3, <1>6 DEF RemovePair
<1>7. QED BY <1>4, <1>5, <1>6

(* An unlinked sibling is only ever tidied: null is dropped, a value stays *)
(* (retainUnsupportedEnumSibling).                                         *)
LEMMA RetainUnsupportedSound ==
    ASSUME NEW enum \in Value, NEW sib \in Value
    PROVE  LET new == RetainUnsupported(enum, sib).sib
           IN  new = sib \/ (new = AbsentV /\ ~Present(sib))
BY DEF RetainUnsupported, Untouched, Deleted, Kept, Outcome, Present

(* An attribute that is deleted has a value of the model.                  *)
LEMMA AbsentIsValue == AbsentV \in Value
BY DEF AbsentV, Value

-----------------------------------------------------------------------------
(* The pipeline.                                                           *)

(* There is one combined dispatcher, or one for each category asked for,   *)
(* enum siblings first (NewPipeline).                                      *)
Both(c)  == Dispatcher(c.enum, TRUE, TRUE, FALSE)
Enums(c) == Dispatcher(c.enum, TRUE, FALSE, FALSE)
Obsv(c)  == Dispatcher(c.obs, FALSE, TRUE, c.enum # "none")

(* NewPipeline builds no more dispatchers than these.                      *)
LEMMA PipelineShape ==
    ASSUME NEW c \in Config
    PROVE  \/ Pipeline(c) = <<>>
           \/ Pipeline(c) = <<Both(c)>> /\ c.enum # "none" /\ c.obs = c.enum
           \/ Pipeline(c) = <<Enums(c)>> /\ c.enum # "none" /\ c.obs = "none"
           \/ Pipeline(c) = <<Obsv(c)>> /\ c.obs # "none" /\ c.enum = "none"
           \/ Pipeline(c) = <<Enums(c), Obsv(c)>> /\ c.enum # "none" /\ c.obs # "none"
<1>1. ASSUME NEW x, NEW y
      PROVE  /\ <<x>> \o <<y>> = <<x, y>>
             /\ <<>> \o <<y>> = <<y>> /\ <<x>> \o <<>> = <<x>>
  <2>1. <<x>> \in Seq({x, y}) /\ <<y>> \in Seq({x, y}) /\ <<x, y>> \in Seq({x, y})
    OBVIOUS
  <2>2. <<x>> \o <<y>> = <<x, y>>
    <3>1. Len(<<x>> \o <<y>>) = 2 /\ <<x>> \o <<y>> \in Seq({x, y})
      BY <2>1, ConcatProperties
    <3>2. \A i \in 1 .. 2 : (<<x>> \o <<y>>)[i] = <<x, y>>[i]
      BY <2>1, ConcatProperties
    <3>3. QED BY <2>1, <3>1, <3>2, SeqEqual
  <2>3. QED BY <2>1, <2>2, ConcatEmptySeq
<1>2. QED BY <1>1 DEF Pipeline, Both, Enums, Obsv

(* A dispatcher that does enum work does what the configuration asks of    *)
(* enum siblings.                                                          *)
LEMMA DispatcherSound ==
    ASSUME NEW c \in Config, NEW t \in 1 .. Len(Pipeline(c))
    PROVE  /\ Pipeline(c)[t].enums \in BOOLEAN
           /\ Pipeline(c)[t].action \in {"add", "remove", "force"}
           /\ Pipeline(c)[t].enums => Pipeline(c)[t].action = c.enum
<1> DEFINE Good(d) == /\ d.enums \in BOOLEAN
                      /\ d.action \in {"add", "remove", "force"}
                      /\ d.enums => d.action = c.enum
<1>1. /\ c.enum # "none" => Good(Both(c)) /\ Good(Enums(c))
      /\ c.obs # "none" => Good(Obsv(c))
  BY DEF Config, Action, Dispatcher, Both, Enums, Obsv
<1>2. Good(Pipeline(c)[t])
  <2> HIDE DEF Good
  <2>1. \A x, y : /\ \A i \in 1 .. Len(<<x>>) : <<x>>[i] = x
                  /\ \A i \in 1 .. Len(<<x, y>>) : <<x, y>>[i] \in {x, y}
                  /\ ~\E i \in 1 .. Len(<<>>) : TRUE
    OBVIOUS
  <2>2. QED BY <1>1, <2>1, PipelineShape
<1>3. QED BY <1>2

(* There are at most two of them.                                          *)
LEMMA PipelineLength ==
    ASSUME NEW c \in Config
    PROVE  Len(Pipeline(c)) \in Nat
<1>1. \A x, y : Len(<<x>>) \in Nat /\ Len(<<x, y>>) \in Nat /\ Len(<<>>) \in Nat
  OBVIOUS
<1>2. QED BY <1>1, PipelineShape
-----------------------------------------------------------------------------
(* Type correctness.                                                       *)

(* What the work on a pair leaves is a value.                              *)
LEMMA PairWorkIsValue ==
    ASSUME NEW c \in Config, NEW t \in 1 .. Len(Pipeline(c)), NEW isArray \in BOOLEAN,
           NEW enum \in Value, NEW sib \in Value
    PROVE  /\ PairWork(Pipeline(c)[t], isArray, enum, sib).sib \in Value
           /\ UnlinkedWork(Pipeline(c)[t], enum, sib).sib \in Value
<1> DEFINE d == Pipeline(c)[t]
<1>1. /\ AddPair(isArray, enum, sib).sib \in Value
      /\ \A force \in BOOLEAN : RemovePair(isArray, enum, sib, force).sib \in Value
      /\ RetainUnsupported(enum, sib).sib \in Value
      /\ Untouched(sib).sib \in Value
  BY AddPairSound, RemovePairSound, RetainUnsupportedSound, AbsentIsValue
     DEF Sound, Untouched, Outcome
<1>2. d.enums \in BOOLEAN /\ d.action \in {"add", "remove", "force"}
  BY DispatcherSound
<1> HIDE DEF d
<1>3. PairWork(d, isArray, enum, sib).sib \in Value
  <2>1. CASE ~d.enums  BY <1>1, <2>1 DEF PairWork
  <2>2. CASE d.enums /\ d.action = "add"  BY <1>1, <2>2 DEF PairWork
  <2>3. CASE d.enums /\ d.action = "remove"  BY <1>1, <2>3 DEF PairWork
  <2>4. CASE d.enums /\ d.action = "force"  BY <1>1, <2>4 DEF PairWork
  <2>5. QED BY <1>2, <2>1, <2>2, <2>3, <2>4
<1>4. UnlinkedWork(d, enum, sib).sib \in Value
  BY <1>1 DEF UnlinkedWork
<1>5. QED BY <1>3, <1>4 DEF d

(* The hook of the dispatcher whose turn it is leaves a turn to take.      *)
LEMMA TurnAdvances ==
    ASSUME TypeOK, ~Past, turn' = turn + 1, cfg' = cfg
    PROVE  turn \in 1 .. Len(Pipe) /\ turn' \in 1 .. Len(Pipe') + 1
<1>1. cfg \in Config
  BY InputAssumption DEF TypeOK
<1>2. Len(Pipe) \in Nat /\ Pipe' = Pipe
  BY <1>1, PipelineLength DEF Pipe
<1>3. QED BY <1>2 DEF TypeOK, Past

(* The first turn of a part is a turn of the pipeline.                     *)
LEMMA TurnRestarts ==
    ASSUME TypeOK, turn' = 1, cfg' \in Configs
    PROVE  turn' \in 1 .. Len(Pipe') + 1
<1>1. cfg' \in Config
  BY InputAssumption
<1>2. Len(Pipe') \in Nat
  BY <1>1, PipelineLength DEF Pipe
<1>3. QED BY <1>2

(* Removing observables keeps the types.                                   *)
LEMMA RemoveObservablesTyped ==
    ASSUME TypeOK, NEW d,
           RemoveObservables(d) \/ UNCHANGED <<obs, res>>
    PROVE  DOMAIN obs' = {"k", "s"} /\ obs'.k \in {"absent", "null", "other", "array"}
<1> DEFINE Shape == DOMAIN obs' = {"k", "s"} /\ obs'.k \in {"absent", "null", "other", "array"}
<1>1. CASE UNCHANGED <<obs, res>>
  BY <1>1 DEF TypeOK
<1>2. CASE RemoveForced
  BY <1>2 DEF RemoveForced, NoObs
<1>3. CASE RemoveSafely
  <2> DEFINE kept == Selected(obs.s, {i \in DOMAIN obs.s : ~Removable(obs.s[i], attr, active)})
  <2> HIDE DEF kept
  <2>1. obs' = obs \/ obs' = NoObs \/ obs' = ObsArray(kept)
    BY <1>3 DEF RemoveSafely, kept, TypeOK
  <2>2. QED BY <2>1 DEF NoObs, ObsArray, TypeOK
<1>4. QED BY <1>1, <1>2, <1>3 DEF RemoveObservables

(* A step keeps the event, the cursor and the context of their types.      *)
LEMMA TypeKept == TypeOK /\ [Next]_vars => TypeOK'
<1> SUFFICES ASSUME TypeOK, [Next]_vars PROVE TypeOK'
  OBVIOUS
<1> cfg \in Config
  BY InputAssumption DEF TypeOK
<1>1. ASSUME NEW c \in Configs, Call(c) PROVE TypeOK'
  BY <1>1, InputAssumption, TurnRestarts DEF Call, TypeOK
<1>2. CASE OnClass
  BY <1>2, TurnAdvances, RemoveObservablesTyped DEF OnClass, TypeOK, history
<1>3. CASE ClassVisited
  BY <1>3, TurnRestarts DEF ClassVisited, EndPart, TypeOK, history
<1>4. CASE SkipAttribute
  BY <1>4, TurnRestarts DEF SkipAttribute, Advance, TypeOK, history
<1>5. CASE VisitPair
  <2> DEFINE o == PairWork(Pipe[turn], Here \in ArrayAttr, attr[Here], attr[Sibling[Here]])
  <2>1. turn \in 1 .. Len(Pipe) /\ turn' \in 1 .. Len(Pipe') + 1
    BY <1>5, TurnAdvances DEF VisitPair
  <2>2. Here \in Attr /\ Sibling[Here] \in Attr
    BY <1>5, AttrAssumption DEF VisitPair, PairOwner
  <2>3. o.sib \in Value
    <3>1. attr[Here] \in Value /\ attr[Sibling[Here]] \in Value
      BY <2>2 DEF TypeOK
    <3>2. (Here \in ArrayAttr) \in BOOLEAN
      OBVIOUS
    <3>3. QED BY <2>1, <3>1, <3>2, PairWorkIsValue DEF Pipe
  <2>4. attr' = [attr EXCEPT ![Sibling[Here]] = o.sib]
    BY <1>5 DEF VisitPair
  <2>5. attr' \in [Attr -> Value]
    BY <2>2, <2>3, <2>4 DEF TypeOK
  <2>6. QED BY <1>5, <2>1, <2>5 DEF VisitPair, TypeOK, history
<1>6. CASE VisitOrdinary
  <2> DEFINE o == UnlinkedWork(Pipe[turn], attr[Here], attr[Sibling[Here]])
  <2>1. turn \in 1 .. Len(Pipe) /\ turn' \in 1 .. Len(Pipe') + 1
    BY <1>6, TurnAdvances DEF VisitOrdinary
  <2>2. CASE Here \in EnumAttr \ Resolved
    <3>1. Here \in Attr /\ Sibling[Here] \in Attr
      BY <2>2, AttrAssumption
    <3>2. o.sib \in Value
      BY <2>1, <3>1, PairWorkIsValue DEF TypeOK, Pipe
    <3>3. attr' = [attr EXCEPT ![Sibling[Here]] = o.sib]
      BY <1>6, <2>2 DEF VisitOrdinary
    <3>4. attr' \in [Attr -> Value]
      BY <3>1, <3>2, <3>3 DEF TypeOK
    <3>5. QED BY <1>6, <2>1, <3>4 DEF VisitOrdinary, TypeOK, history
  <2>3. CASE Here \notin EnumAttr \ Resolved
    BY <1>6, <2>1, <2>3 DEF VisitOrdinary, TypeOK, history
  <2>4. QED BY <2>2, <2>3
<1>7. CASE VisitEntry
  <2>1. turn' \in 1 .. Len(Pipe') + 1
    BY <1>7, TurnAdvances DEF VisitEntry
  <2>2. DOMAIN obs' = DOMAIN obs /\ obs'.k = obs.k
    BY <1>7 DEF VisitEntry, TypeOK
  <2>3. QED BY <1>7, <2>1, <2>2 DEF VisitEntry, TypeOK, history
<1>8. CASE ValidateAttribute
  BY <1>8, TurnRestarts DEF ValidateAttribute, Advance, TypeOK, history
<1>9. CASE ValidateEntry
  BY <1>9, TurnRestarts DEF ValidateEntry, TypeOK, history
<1>10. CASE LeaveObservables
  BY <1>10, TurnRestarts DEF LeaveObservables, Advance, TypeOK, history
<1>11. CASE WalkEnds
  BY <1>11, TurnRestarts DEF WalkEnds, EndPart, TypeOK, history
<1>12. CASE OnClassDone
  BY <1>12, TurnAdvances, RemoveObservablesTyped DEF OnClassDone, TypeOK, history
<1>13. CASE ClassDone
  BY <1>13, TurnRestarts DEF ClassDone, EndPart, TypeOK, history
<1>14. CASE OnEventDone
  <2>1. turn' \in 1 .. Len(Pipe') + 1
    BY <1>14, TurnAdvances DEF OnEventDone
  <2>2. obs' = obs \/ obs' = NoObs \/ \E es : obs' = ObsArray(es)
    BY <1>14 DEF OnEventDone, AddObservables
  <2>3. QED BY <1>14, <2>1, <2>2 DEF OnEventDone, TypeOK, NoObs, ObsArray, history
<1>15. CASE EventDone
  BY <1>15 DEF EventDone, TypeOK, history, Pipe
<1>16. CASE UNCHANGED vars
  BY <1>16 DEF vars, TypeOK, Pipe
<1>17. QED
  BY <1>1, <1>2, <1>3, <1>4, <1>5, <1>6, <1>7, <1>8, <1>9, <1>10, <1>11, <1>12,
     <1>13, <1>14, <1>15, <1>16 DEF Next, Process

(* The variables of the pipeline keep their types.                         *)
THEOREM TypeCorrect == Spec => []TypeOK
<1>1. Init => TypeOK
  <2> SUFFICES ASSUME Init PROVE TypeOK
    OBVIOUS
  <2>1. PICK e \in SeedEvents : cls = e.cls /\ active = e.active /\ attr = e.attr /\ obs = e.obs
    BY DEF Init
  <2>2. cfg \in Configs
    BY InputAssumption DEF Init
  <2>3. turn \in 1 .. Len(Pipe) + 1
    BY <2>2, InputAssumption, PipelineLength DEF Init, Pipe
  <2>4. QED BY <2>1, <2>2, <2>3, InputAssumption DEF Init, TypeOK, ObsValue
<1>2. TypeOK /\ [Next]_vars => TypeOK'
  BY TypeKept
<1>3. QED BY <1>1, <1>2, PTL DEF Spec
-----------------------------------------------------------------------------
(* Source data.                                                            *)

(* SourceDataKept is inductive together with TypeOK, because start is the   *)
(* event as it was: an enum attribute is nobody's sibling, so it still has *)
(* the value the call began with when its sibling is considered.           *)
LEMMA EnumUntouched ==
    ASSUME SourceDataKept, NEW e \in EnumAttr
    PROVE  attr[e] = start.attr[e]
BY AttrAssumption, SiblingAssumption DEF SourceDataKept

(* What one dispatcher may make of one sibling.                            *)
LEMMA PairWorkSound ==
    ASSUME NEW c \in Config, NEW t \in 1 .. Len(Pipeline(c)), NEW isArray \in BOOLEAN,
           NEW enum \in Value, NEW sib \in Value
    PROVE  LET new == PairWork(Pipeline(c)[t], isArray, enum, sib).sib
           IN  \/ new = sib
               \/ ~Present(sib) /\ (new = AbsentV \/ c.enum = "add")
               \/ new = AbsentV /\ ~IncludesOther(enum) /\ c.enum \in {"remove", "force"}
<1> DEFINE d == Pipeline(c)[t]
<1>1. /\ d.enums \in BOOLEAN /\ d.action \in {"add", "remove", "force"}
      /\ d.enums => d.action = c.enum
  BY DispatcherSound
<1>2. AddPair(isArray, enum, sib).sib = sib \/ ~Present(sib)
  BY AddPairSound
<1>3. \A force \in BOOLEAN : Sound(enum, sib, RemovePair(isArray, enum, sib, force).sib)
  BY RemovePairSound
<1> HIDE DEF d
<1> DEFINE new == PairWork(d, isArray, enum, sib).sib
           Fine == \/ new = sib
                   \/ ~Present(sib) /\ (new = AbsentV \/ c.enum = "add")
                   \/ new = AbsentV /\ ~IncludesOther(enum) /\ c.enum \in {"remove", "force"}
<1>4. Fine
  <2>1. CASE ~d.enums  BY <2>1 DEF PairWork, Untouched, Outcome
  <2>2. CASE d.enums /\ d.action = "add"  BY <1>1, <1>2, <2>2 DEF PairWork
  <2>3. CASE d.enums /\ d.action = "remove"  BY <1>1, <1>3, <2>3 DEF PairWork, Sound
  <2>4. CASE d.enums /\ d.action = "force"  BY <1>1, <1>3, <2>4 DEF PairWork, Sound
  <2>5. QED BY <1>1, <2>1, <2>2, <2>3, <2>4
<1>5. QED BY <1>4 DEF d

(* A step that leaves the attributes and the terms of comparison alone.    *)
LEMMA AttributesUntouched ==
    ASSUME SourceDataKept, UNCHANGED <<attr, start, cfg, active>>
    PROVE  SourceDataKept'
BY DEF SourceDataKept, PairOwner

(* A step that writes one sibling within the terms of PairWorkSound.       *)
LEMMA SiblingWritten ==
    ASSUME TypeOK, SourceDataKept, UNCHANGED <<start, cfg, active>>,
           NEW e \in EnumAttr, NEW new,
           attr' = [attr EXCEPT ![Sibling[e]] = new],
           \/ new = attr[Sibling[e]]
           \/ ~Present(attr[Sibling[e]]) /\ (new = AbsentV \/ cfg.enum = "add")
           \/ /\ new = AbsentV /\ cfg.enum \in {"remove", "force"}
              /\ ~IncludesOther(attr[e]) /\ PairOwner(e)
    PROVE  SourceDataKept'
<1>1. Sibling[e] \in Attr
  BY AttrAssumption
<1>2. attr[e] = start.attr[e]
  BY EnumUntouched
<1>3. ASSUME NEW a \in Attr, a # Sibling[e]
      PROVE  \/ attr'[a] = start'.attr[a]
             \/ \E f \in EnumAttr :
                  /\ Sibling[f] = a
                  /\ \/ ~Present(start'.attr[a])
                     \/ /\ attr'[a] = AbsentV /\ cfg'.enum \in {"remove", "force"}
                        /\ PairOwner(f)' /\ ~IncludesOther(start'.attr[f])
  <2>1. attr'[a] = attr[a]
    BY <1>1, <1>3 DEF TypeOK
  <2>2. QED BY <2>1 DEF SourceDataKept, PairOwner
<1>4. \/ attr'[Sibling[e]] = start'.attr[Sibling[e]]
      \/ ~Present(start'.attr[Sibling[e]])
      \/ /\ attr'[Sibling[e]] = AbsentV /\ cfg'.enum \in {"remove", "force"}
         /\ PairOwner(e)' /\ ~IncludesOther(start'.attr[e])
  <2>1. attr'[Sibling[e]] = new
    BY <1>1 DEF TypeOK
  <2>2. \/ attr[Sibling[e]] = start.attr[Sibling[e]]
        \/ ~Present(start.attr[Sibling[e]])
        \/ /\ attr[Sibling[e]] = AbsentV /\ cfg.enum \in {"remove", "force"}
           /\ PairOwner(e) /\ ~IncludesOther(start.attr[e])
    BY <1>1, SiblingAssumption DEF SourceDataKept
  <2>3. QED BY <1>2, <2>1, <2>2 DEF PairOwner
<1>5. QED BY <1>3, <1>4 DEF SourceDataKept

(* No call takes away or replaces what the caller supplied.                *)
THEOREM SourceDataSafe == Spec => []SourceDataKept
<1>1. Init => SourceDataKept
  BY DEF Init, SourceDataKept
<1>2. TypeOK /\ SourceDataKept /\ [Next]_vars => SourceDataKept'
  <2> SUFFICES ASSUME TypeOK, SourceDataKept, [Next]_vars PROVE SourceDataKept'
    OBVIOUS
  <2> cfg \in Config
    BY InputAssumption DEF TypeOK
  <2>1. ASSUME NEW c \in Configs, Call(c) PROVE SourceDataKept'
    BY <2>1 DEF Call, SourceDataKept
  <2>2. CASE VisitPair
    <3> DEFINE o == PairWork(Pipe[turn], Here \in ArrayAttr, attr[Here], attr[Sibling[Here]])
    <3>1. turn \in 1 .. Len(Pipe)
      BY <2>2, TurnAdvances DEF VisitPair
    <3>2. Here \in EnumAttr /\ PairOwner(Here)
      BY <2>2, AttrAssumption DEF VisitPair, PairOwner
    <3>3. attr[Here] \in Value /\ attr[Sibling[Here]] \in Value
      BY <3>2, AttrAssumption DEF TypeOK
    <3>4. (Here \in ArrayAttr) \in BOOLEAN
      OBVIOUS
    <3>5. \/ o.sib = attr[Sibling[Here]]
          \/ ~Present(attr[Sibling[Here]]) /\ (o.sib = AbsentV \/ cfg.enum = "add")
          \/ o.sib = AbsentV /\ ~IncludesOther(attr[Here]) /\ cfg.enum \in {"remove", "force"}
      BY <3>1, <3>3, <3>4, PairWorkSound DEF Pipe
    <3>6. attr' = [attr EXCEPT ![Sibling[Here]] = o.sib] /\ UNCHANGED <<start, cfg, active>>
      BY <2>2 DEF VisitPair, history
    <3> HIDE DEF o
    <3>7. QED BY <3>2, <3>5, <3>6, SiblingWritten
  <2>3. CASE VisitOrdinary
    <3> DEFINE o == UnlinkedWork(Pipe[turn], attr[Here], attr[Sibling[Here]])
    <3>1. CASE Here \in EnumAttr \ Resolved
      <4>1. attr[Here] \in Value /\ attr[Sibling[Here]] \in Value
        BY <3>1, AttrAssumption DEF TypeOK
      <4>2. o.sib = attr[Sibling[Here]] \/ (o.sib = AbsentV /\ ~Present(attr[Sibling[Here]]))
        BY <4>1, RetainUnsupportedSound DEF UnlinkedWork, Untouched, Outcome
      <4>3. attr' = [attr EXCEPT ![Sibling[Here]] = o.sib] /\ UNCHANGED <<start, cfg, active>>
        BY <2>3, <3>1 DEF VisitOrdinary, history
      <4> HIDE DEF o
      <4>4. QED BY <3>1, <4>2, <4>3, SiblingWritten
    <3>2. CASE Here \notin EnumAttr \ Resolved
      BY <2>3, <3>2, AttributesUntouched DEF VisitOrdinary, history
    <3>3. QED BY <3>1, <3>2
  <2>4. CASE OnClass \/ OnClassDone \/ OnEventDone
    BY <2>4, AttributesUntouched DEF OnClass, OnClassDone, OnEventDone, history
  <2>5. CASE ClassVisited \/ WalkEnds \/ ClassDone
    BY <2>5, AttributesUntouched DEF ClassVisited, WalkEnds, ClassDone, EndPart, history
  <2>6. CASE SkipAttribute \/ VisitEntry
    BY <2>6, AttributesUntouched DEF SkipAttribute, VisitEntry, history
  <2>7. CASE ValidateAttribute \/ ValidateEntry \/ LeaveObservables \/ EventDone
    BY <2>7, AttributesUntouched
       DEF ValidateAttribute, ValidateEntry, LeaveObservables, EventDone, history
  <2>8. CASE UNCHANGED vars
    BY <2>8, AttributesUntouched DEF vars
  <2>9. QED
    BY <2>1, <2>2, <2>3, <2>4, <2>5, <2>6, <2>7, <2>8 DEF Next, Process
<1>3. QED BY <1>1, <1>2, TypeCorrect, PTL DEF Spec
-----------------------------------------------------------------------------
(* Enum work before observables.                                           *)

(* Where enum work is configured, every dispatcher that removes observables *)
(* waits for the end of the walk (deferObservablesRemoval).                *)
LEMMA RemovalDeferred ==
    ASSUME NEW c \in Config, c.enum # "none", NEW t \in 1 .. Len(Pipeline(c)),
           Pipeline(c)[t].obs, Pipeline(c)[t].action \in {"remove", "force"}
    PROVE  Pipeline(c)[t].defer
<1> DEFINE Waits(d) == d.obs /\ d.action \in {"remove", "force"} => d.defer
<1>1. Waits(Both(c)) /\ Waits(Enums(c)) /\ Waits(Obsv(c))
  BY DEF Dispatcher, Both, Enums, Obsv
<1>2. Waits(Pipeline(c)[t])
  <2> HIDE DEF Waits
  <2>1. \A x, y : /\ \A i \in 1 .. Len(<<x>>) : <<x>>[i] = x
                  /\ \A i \in 1 .. Len(<<x, y>>) : <<x, y>>[i] \in {x, y}
                  /\ ~\E i \in 1 .. Len(<<>>) : TRUE
    OBVIOUS
  <2>2. QED BY <1>1, <2>1, PipelineShape
<1>3. QED BY <1>2

(* The invariant behind it: while enum work can still come, the entries    *)
(* are those the call began with, type captions apart.                     *)
EntriesKept ==
    phase \in {"class", "walk"} /\ cfg.enum # "none" => BareObs(obs) = BareObs(start.obs)

(* The caption of a type is no part of a bare entry.                       *)
LEMMA CaptionIsBare ==
    ASSUME NEW o, NEW i, NEW x
    PROVE  BareObs([o EXCEPT !.s[i].typ = x]) = BareObs(o)
<1> DEFINE new == [o EXCEPT !.s[i].typ = x]
<1>1. CASE "s" \in DOMAIN o
  <2>1. new.s = [o.s EXCEPT ![i].typ = x]
    BY <1>1
  <2>2. BareSeq(new.s) = BareSeq(o.s)
    <3>1. ASSUME NEW j \in DOMAIN o.s PROVE Bare(new.s[j]) = Bare(o.s[j])
      BY <2>1, <3>1 DEF Bare
    <3>2. DOMAIN new.s = DOMAIN o.s
      BY <2>1
    <3>3. QED BY <3>1, <3>2 DEF BareSeq
  <2>3. QED BY <2>2 DEF BareObs
<1>2. CASE "s" \notin DOMAIN o
  BY <1>2 DEF BareObs
<1>3. QED BY <1>1, <1>2

(* As long as enum work may come, the entries are the caller's.            *)
THEOREM EntriesKeptWhileWalking == Spec => []EntriesKept
<1>1. Init => EntriesKept
  BY DEF Init, EntriesKept
<1>2. TypeOK /\ EntriesKept /\ [Next]_vars => EntriesKept'
  <2> SUFFICES ASSUME TypeOK, EntriesKept, [Next]_vars,
                      phase' \in {"class", "walk"}, cfg'.enum # "none"
               PROVE  BareObs(obs') = BareObs(start'.obs)
    BY DEF EntriesKept, BareObs, BareSeq, Bare
  <2> cfg \in Config
    BY InputAssumption DEF TypeOK
  <2>1. ASSUME NEW c \in Configs, Call(c) PROVE BareObs(obs') = BareObs(start'.obs)
    BY <2>1 DEF Call
  <2>2. CASE OnClass
    <3>1. turn \in 1 .. Len(Pipe)
      BY <2>2, TurnAdvances DEF OnClass
    <3>2. obs' = obs
      BY <2>2, <3>1, RemovalDeferred DEF OnClass, RemoveObservables, Pipe
    <3>3. QED BY <2>2, <3>2 DEF OnClass, EntriesKept, history
  <2>3. CASE VisitEntry
    <3>1. obs' = obs \/ \E x : obs' = [obs EXCEPT !.s[ent].typ = x]
      BY <2>3 DEF VisitEntry
    <3>2. BareObs(obs') = BareObs(obs)
      BY <3>1, CaptionIsBare
    <3>3. QED BY <2>3, <3>2 DEF VisitEntry, AtEntry, AtObs, EntriesKept, history
  <2>4. CASE ClassVisited \/ WalkEnds \/ ClassDone
    BY <2>4 DEF ClassVisited, WalkEnds, ClassDone, EndPart, EntriesKept, history
  <2>5. CASE SkipAttribute \/ VisitPair \/ VisitOrdinary
    BY <2>5 DEF SkipAttribute, VisitPair, VisitOrdinary, EntriesKept, history
  <2>6. CASE ValidateAttribute \/ ValidateEntry \/ LeaveObservables
    BY <2>6 DEF ValidateAttribute, ValidateEntry, LeaveObservables, EntriesKept, history
  <2>7. CASE OnClassDone \/ OnEventDone \/ EventDone
    BY <2>7 DEF OnClassDone, OnEventDone, EventDone
  <2>8. CASE UNCHANGED vars
    BY <2>8 DEF vars, EntriesKept
  <2>9. QED
    BY <2>1, <2>2, <2>3, <2>4, <2>5, <2>6, <2>7, <2>8 DEF Next, Process
<1>3. QED BY <1>1, <1>2, TypeCorrect, PTL DEF Spec

(* Without enum work no dispatcher writes a sibling.                       *)
LEMMA NoEnumWork ==
    ASSUME NEW c \in Config, c.enum = "none", NEW t \in 1 .. Len(Pipeline(c))
    PROVE  Pipeline(c)[t].enums = FALSE
BY DispatcherSound

(* Enum work is complete before the first entry goes or comes.             *)
THEOREM EnumWorkComesFirst == Spec => EnumWorkFirst
<1> DEFINE Late == phase # "ready" /\ BareObs(obs) # BareObs(start.obs)
           Step == Late => attr' = attr /\ (phase = "walk" => obs' = obs)
<1>1. TypeOK /\ EntriesKept /\ [Next]_vars => [Step]_vars
  <2> SUFFICES ASSUME TypeOK, EntriesKept, Next, Late
               PROVE  attr' = attr /\ (phase = "walk" => obs' = obs)
    OBVIOUS
  <2> cfg \in Config
    BY InputAssumption DEF TypeOK
  <2>1. phase = "walk" => cfg.enum = "none"
    BY DEF EntriesKept
  <2>2. ASSUME NEW c \in Configs, Call(c) PROVE FALSE
    BY <2>2 DEF Call
  <2>3. CASE VisitPair
    <3>1. turn \in 1 .. Len(Pipe) /\ phase = "walk"
      BY <2>3, TurnAdvances DEF VisitPair, AtAttr
    <3>2. Pipe[turn].enums = FALSE
      BY <2>1, <3>1, NoEnumWork DEF Pipe
    <3>3. attr' = [attr EXCEPT ![Sibling[Here]] = attr[Sibling[Here]]]
      BY <2>3, <3>2 DEF VisitPair, PairWork, Untouched, Outcome
    <3>4. QED BY <2>3, <3>3 DEF VisitPair, TypeOK
  <2>4. CASE VisitOrdinary
    <3>1. turn \in 1 .. Len(Pipe) /\ phase = "walk"
      BY <2>4, TurnAdvances DEF VisitOrdinary, AtAttr
    <3>2. Pipe[turn].enums = FALSE
      BY <2>1, <3>1, NoEnumWork DEF Pipe
    <3>3. attr' = attr \/ attr' = [attr EXCEPT ![Sibling[Here]] = attr[Sibling[Here]]]
      BY <2>4, <3>2 DEF VisitOrdinary, UnlinkedWork, Untouched, Outcome
    <3>4. QED BY <2>4, <3>3 DEF VisitOrdinary, TypeOK
  <2>5. CASE VisitEntry
    <3>1. turn \in 1 .. Len(Pipe) /\ phase = "walk"
      BY <2>5, TurnAdvances DEF VisitEntry, AtEntry, AtObs
    <3>2. Pipe[turn].enums = FALSE
      BY <2>1, <3>1, NoEnumWork DEF Pipe
    <3>3. QED BY <2>5, <3>2 DEF VisitEntry
  <2>6. CASE OnClass \/ OnClassDone \/ OnEventDone \/ EventDone
    BY <2>6 DEF OnClass, OnClassDone, OnEventDone, EventDone
  <2>7. CASE ClassVisited \/ WalkEnds \/ ClassDone
    BY <2>7 DEF ClassVisited, WalkEnds, ClassDone, EndPart
  <2>8. CASE SkipAttribute \/ ValidateAttribute \/ ValidateEntry \/ LeaveObservables
    BY <2>8 DEF SkipAttribute, ValidateAttribute, ValidateEntry, LeaveObservables
  <2>9. QED
    BY <2>2, <2>3, <2>4, <2>5, <2>6, <2>7, <2>8 DEF Next, Process
<1>2. QED
  BY <1>1, TypeCorrect, EntriesKeptWhileWalking, PTL DEF Spec, EnumWorkFirst

-----------------------------------------------------------------------------
(* What the walk does to enum pairs: what validation reports of them, what *)
(* is said of those that could not be served, what removal makes of what   *)
(* addition made.  The three invariants share one idea: a pair is settled  *)
(* when the walk leaves it, for Order names every attribute once and no    *)
(* two enums share a sibling, so that no later step of the call touches    *)
(* either of its attributes.                                               *)
(* The walk and one pair.                                                  *)

(* The walk of the call has left attribute e behind.                       *)
Passed(e) ==
    \/ phase \in {"classDone", "eventDone", "ready"}
    \/ phase = "walk" /\ \E p \in DOMAIN Order : p < pos /\ Order[p] = e

(* The first dispatcher has been at the pair of e, or the walk has left it. *)
Handled(e) ==
    Passed(e) \/ (phase = "walk" /\ pos \in DOMAIN Order /\ Here = e /\ turn > 1)

(* The walk starts with the first attribute.                               *)
WalkFromStart == phase = "class" => pos = 1

(* Positions of the order are what they seem.                              *)
LEMMA OrderIsList ==
    /\ Len(Order) \in Nat /\ DOMAIN Order = 1 .. Len(Order)
    /\ \A i \in DOMAIN Order : Order[i] \in Attr \cup {Observables}
BY OrderAssumption, LenProperties, ElementOfSeq

(* An enum that owns a pair is an attribute that is visited for itself,    *)
(* next to a sibling that is none of the enums.                            *)
LEMMA OwnerIsEnum ==
    ASSUME NEW e, PairOwner(e)
    PROVE  /\ e \in Resolved /\ e \in EnumAttr /\ e \in Attr
           /\ Sibling[e] \in Attr /\ Sibling[e] \notin EnumAttr
           /\ ~Skipped(e)
BY AttrAssumption, SiblingAssumption DEF PairOwner, Skipped, OwnedByPair

(* Moving to the next attribute passes this one and no other.              *)
LEMMA AdvancePasses ==
    ASSUME TypeOK, phase = "walk", phase' = "walk", pos \in DOMAIN Order,
           pos' = pos + 1, NEW e
    PROVE  Passed(e)' <=> Passed(e) \/ e = Here
BY OrderIsList DEF Passed, Here, TypeOK

(* The attribute the walk is at has not been passed.                       *)
LEMMA HereNotPassed ==
    ASSUME TypeOK, phase = "walk", pos \in DOMAIN Order
    PROVE  ~Passed(Here)
BY OrderIsList, OrderAssumption DEF Passed, Here, TypeOK

(* At its end the walk has passed every attribute.                         *)
LEMMA WalkEndsPassed ==
    ASSUME TypeOK, phase = "walk", pos > Len(Order), NEW e \in Attr
    PROVE  Passed(e)
<1>1. PICK i \in DOMAIN Order : Order[i] = e
  BY OrderAssumption
<1>2. QED BY <1>1, OrderIsList DEF Passed, TypeOK

(* The walk of a call starts where the call put it.                        *)
LEMMA WalkStarts == Spec => []WalkFromStart
<1>1. Init => WalkFromStart
  BY DEF Init, WalkFromStart
<1>2. WalkFromStart /\ [Next]_vars => WalkFromStart'
  <2> SUFFICES ASSUME WalkFromStart, [Next]_vars, phase' = "class" PROVE pos' = 1
    BY DEF WalkFromStart
  <2>1. ASSUME NEW c \in Configs, Call(c) PROVE pos' = 1
    BY <2>1 DEF Call
  <2>2. CASE OnClass
    BY <2>2 DEF OnClass, WalkFromStart
  <2>3. CASE ClassVisited \/ WalkEnds \/ ClassDone
    BY <2>3 DEF ClassVisited, WalkEnds, ClassDone, EndPart
  <2>4. CASE SkipAttribute \/ VisitPair \/ VisitOrdinary \/ VisitEntry
    BY <2>4 DEF SkipAttribute, VisitPair, VisitOrdinary, VisitEntry, AtEntry, AtObs, AtAttr
  <2>5. CASE ValidateAttribute \/ ValidateEntry \/ LeaveObservables
    BY <2>5 DEF ValidateAttribute, ValidateEntry, LeaveObservables, AtEntry, AtObs, AtAttr
  <2>6. CASE OnClassDone \/ OnEventDone \/ EventDone
    BY <2>6 DEF OnClassDone, OnEventDone, EventDone
  <2>7. CASE UNCHANGED vars
    BY <2>7 DEF vars, WalkFromStart
  <2>8. QED
    BY <2>1, <2>2, <2>3, <2>4, <2>5, <2>6, <2>7 DEF Next, Process
<1>3. QED BY <1>1, <1>2, PTL DEF Spec

-----------------------------------------------------------------------------
(* What validation reports of pairs.                                       *)

(* The findings located at one attribute.                                  *)
Reported(e) == {<<f.code, f.i>> : f \in {g \in findings : g.at = e}}

(* Of every pair the walk has left validation has reported what it would   *)
(* report of it now, and of nothing else has it reported anything.         *)
FindingsSoFar ==
    calls > 0 /\ Resolvable /\ cfg.validate =>
      \A e \in Attr :
        Reported(e) =
        IF Passed(e) /\ PairOwner(e)
        THEN PairFindings(e \in ArrayAttr, attr[e], attr[Sibling[e]]) ELSE {}

(* A finding of a pair is a code and an element.                           *)
LEMMA PairFindingIsPair ==
    ASSUME NEW isArray, NEW enum, NEW sib, NEW f \in PairFindings(isArray, enum, sib)
    PROVE  f = <<f[1], f[2]>>
<1>1. CASE f \in ScalarFindings(enum, sib)
  BY <1>1 DEF ScalarFindings
<1>2. CASE f \in ArrayFindings(enum, sib)
  <2>1. CASE f = <<"length_mismatch", 0>>
    BY <2>1
  <2>2. CASE \E i \in DOMAIN enum.s : f \in ElementFindings(enum, sib, i)
    BY <2>2 DEF ElementFindings
  <2>3. QED BY <1>2, <2>1, <2>2 DEF ArrayFindings
<1>3. QED BY <1>1, <1>2 DEF PairFindings

(* The two values of a pair are not touched by a step that writes some     *)
(* other sibling.                                                          *)
LEMMA OtherPairKept ==
    ASSUME TypeOK, NEW h \in EnumAttr, NEW new, attr' = [attr EXCEPT ![Sibling[h]] = new],
           NEW e \in EnumAttr, e # h
    PROVE  attr'[e] = attr[e] /\ attr'[Sibling[e]] = attr[Sibling[e]]
BY AttrAssumption, SiblingAssumption DEF TypeOK

(* A step that leaves the walk where it is, and the findings and the       *)
(* values of the pairs it has passed alone.                                *)
LEMMA FindingsUntouched ==
    ASSUME FindingsSoFar, UNCHANGED <<cfg, cls, active, findings, calls>>,
           \A e \in Attr : PairOwner(e) =>
              /\ Passed(e)' <=> Passed(e)
              /\ Passed(e) => attr'[e] = attr[e] /\ attr'[Sibling[e]] = attr[Sibling[e]]
    PROVE  FindingsSoFar'
<1>1. \A e : Reported(e)' = Reported(e) /\ (PairOwner(e)' <=> PairOwner(e))
  BY DEF Reported, PairOwner
<1>2. QED BY <1>1 DEF FindingsSoFar, Resolvable

(* A step that reports nothing of the attributes.                          *)
LEMMA NothingReported ==
    ASSUME findings \subseteq findings',
           \A f \in findings' : f \in findings \/ f.at = Observables,
           NEW e \in Attr
    PROVE  Reported(e)' = Reported(e)
<1>1. e # Observables
  BY AttrAssumption
<1>2. {g \in findings' : g.at = e} = {g \in findings : g.at = e}
  BY <1>1
<1>3. QED BY <1>2 DEF Reported
(* No step of a call makes a report about a pair untrue.                   *)
LEMMA FindingsStayCurrent == Spec => []FindingsSoFar
<1>1. Init => FindingsSoFar
  BY DEF Init, FindingsSoFar
<1>2. TypeOK /\ WalkFromStart /\ FindingsSoFar /\ [Next]_vars => FindingsSoFar'
  <2> SUFFICES ASSUME TypeOK, WalkFromStart, FindingsSoFar, [Next]_vars PROVE FindingsSoFar'
    OBVIOUS
  <2>1. ASSUME NEW c \in Configs, Call(c) PROVE FindingsSoFar'
    <3>1. CASE cls = "resolved"
      <4>1. \A e : ~Passed(e)' /\ Reported(e)' = {}
        BY <2>1, <3>1 DEF Call, Passed, Reported
      <4>2. QED BY <4>1 DEF FindingsSoFar
    <3>2. CASE cls # "resolved"
      BY <2>1, <3>2 DEF Call, FindingsSoFar, Resolvable
    <3>3. QED BY <3>1, <3>2
  <2>2. CASE OnClass \/ OnClassDone \/ OnEventDone
    <3>1. UNCHANGED <<cfg, cls, active, findings, calls, phase, pos, attr>>
      BY <2>2 DEF OnClass, OnClassDone, OnEventDone, history
    <3>2. \A e : Passed(e)' <=> Passed(e)
      BY <3>1 DEF Passed
    <3>3. QED BY <3>1, <3>2, FindingsUntouched
  <2>3. CASE ClassVisited
    <3>1. /\ UNCHANGED <<cfg, cls, active, findings, calls, pos, attr>>
          /\ phase = "class" /\ pos = 1 /\ (cfg.validate => phase' = "walk")
      BY <2>3 DEF ClassVisited, EndPart, history, RequiresEventWalk, WalkFromStart
    <3>2. cfg.validate => \A e : ~Passed(e) /\ ~Passed(e)'
      BY <3>1, OrderIsList DEF Passed
    <3>3. CASE cfg.validate
      BY <3>1, <3>2, <3>3, FindingsUntouched
    <3>4. CASE ~cfg.validate
      BY <3>1, <3>4 DEF FindingsSoFar
    <3>5. QED BY <3>3, <3>4
  <2>4. CASE SkipAttribute
    <3>1. /\ UNCHANGED <<cfg, cls, active, findings, calls, attr>>
          /\ phase = "walk" /\ phase' = "walk" /\ pos \in DOMAIN Order /\ pos' = pos + 1
      BY <2>4, OrderIsList DEF SkipAttribute, Advance, history, AtAttr, TypeOK
    <3>2. ~PairOwner(Here)
      BY <2>4, OwnerIsEnum DEF SkipAttribute
    <3>3. \A e \in Attr : PairOwner(e) => (Passed(e)' <=> Passed(e))
      BY <3>1, <3>2, AdvancePasses
    <3>4. QED BY <3>1, <3>3, FindingsUntouched
  <2>5. CASE VisitPair
    <3> DEFINE new == PairWork(Pipe[turn], Here \in ArrayAttr, attr[Here], attr[Sibling[Here]]).sib
    <3>a. /\ UNCHANGED <<cfg, cls, active, findings, calls, phase, pos>>
          /\ AtAttr /\ PairOwner(Here)
          /\ attr' = [attr EXCEPT ![Sibling[Here]] = new]
      BY <2>5 DEF VisitPair, history
    <3> HIDE DEF new
    <3>b. phase = "walk" /\ pos \in DOMAIN Order
      BY <3>a, OrderIsList DEF AtAttr, TypeOK
    <3>1. /\ UNCHANGED <<cfg, cls, active, findings, calls, phase, pos>>
          /\ phase = "walk" /\ pos \in DOMAIN Order /\ PairOwner(Here)
          /\ attr' = [attr EXCEPT ![Sibling[Here]] = new]
      BY <3>a, <3>b
    <3>2. \A e : Passed(e)' <=> Passed(e)
      BY <3>1 DEF Passed
    <3>3. \A e \in EnumAttr : e # Here => attr'[e] = attr[e] /\ attr'[Sibling[e]] = attr[Sibling[e]]
      BY <3>1, OwnerIsEnum, OtherPairKept
    <3>4. QED BY <3>1, <3>2, <3>3, HereNotPassed, OwnerIsEnum, FindingsUntouched
  <2>6. CASE VisitOrdinary
    <3> DEFINE new == UnlinkedWork(Pipe[turn], attr[Here], attr[Sibling[Here]]).sib
    <3>1. /\ UNCHANGED <<cfg, cls, active, findings, calls, phase, pos>>
          /\ phase = "walk" /\ pos \in DOMAIN Order
      BY <2>6, OrderIsList DEF VisitOrdinary, history, AtAttr, TypeOK
    <3>2. \A e : Passed(e)' <=> Passed(e)
      BY <3>1 DEF Passed
    <3>3. CASE Here \in EnumAttr \ Resolved
      <4>1. attr' = [attr EXCEPT ![Sibling[Here]] = new]
        BY <2>6, <3>3 DEF VisitOrdinary
      <4> HIDE DEF new
      <4>2. \A e \in EnumAttr : e # Here => attr'[e] = attr[e] /\ attr'[Sibling[e]] = attr[Sibling[e]]
        BY <3>3, <4>1, OtherPairKept
      <4>3. QED BY <3>1, <3>2, <4>2, HereNotPassed, OwnerIsEnum, FindingsUntouched
    <3>4. CASE Here \notin EnumAttr \ Resolved
      <4>1. attr' = attr
        BY <2>6, <3>4 DEF VisitOrdinary
      <4>2. QED BY <3>1, <3>2, <4>1, FindingsUntouched
    <3>5. QED BY <3>3, <3>4
  <2>7. CASE VisitEntry
    <3>1. UNCHANGED <<cfg, cls, active, findings, calls, phase, pos, attr>>
      BY <2>7 DEF VisitEntry, history
    <3>2. \A e : Passed(e)' <=> Passed(e)
      BY <3>1 DEF Passed
    <3>3. QED BY <3>1, <3>2, FindingsUntouched
  <2>8. CASE ValidateAttribute
    <3> DEFINE pf == PairFindings(Here \in ArrayAttr, attr[Here], attr[Sibling[Here]])
               told == {Finding(Here, "walk", f[2], f[1]) : f \in pf}
    <3>1. /\ UNCHANGED <<cfg, cls, active, calls, attr>> /\ Here # Observables
          /\ phase = "walk" /\ phase' = "walk" /\ pos \in DOMAIN Order /\ pos' = pos + 1
          /\ cfg.validate /\ PairOwner(Here) => findings' = findings \cup told
          /\ ~(cfg.validate /\ PairOwner(Here)) => findings' = findings
      BY <2>8, OrderIsList DEF ValidateAttribute, Advance, history, AtAttr, TypeOK
    <3>2. \A e : Passed(e)' <=> Passed(e) \/ e = Here
      BY <3>1, AdvancePasses
    <3>3. CASE cfg.validate /\ PairOwner(Here)
      <4>1. \A f \in told : f.at = Here
        BY DEF Finding
      <4>2. {<<f.code, f.i>> : f \in told} = pf
        <5>1. \A f \in pf : f = <<f[1], f[2]>>
          BY PairFindingIsPair
        <5> HIDE DEF pf
        <5>2. \A f \in told : \E x \in pf : f.code = x[1] /\ f.i = x[2]
          BY DEF Finding
        <5>3. \A x \in pf : \E f \in told : f.code = x[1] /\ f.i = x[2]
          <6> SUFFICES ASSUME NEW x \in pf PROVE \E f \in told : f.code = x[1] /\ f.i = x[2]
            OBVIOUS
          <6>1. Finding(Here, "walk", x[2], x[1]) \in told
            OBVIOUS
          <6>2. QED BY <6>1 DEF Finding
        <5> HIDE DEF told
        <5>4. QED BY <5>1, <5>2, <5>3
      <4>3. ASSUME NEW e \in Attr, e = Here PROVE Reported(e)' = Reported(e) \cup pf
        <5> HIDE DEF told, pf
        <5>1. {g \in findings' : g.at = e} = {g \in findings : g.at = e} \cup told
          BY <3>1, <3>3, <4>1, <4>3
        <5>2. QED BY <4>2, <5>1 DEF Reported
      <4>4. ASSUME NEW e \in Attr, e # Here PROVE Reported(e)' = Reported(e)
        <5>1. {g \in findings' : g.at = e} = {g \in findings : g.at = e}
          BY <3>1, <3>3, <4>1, <4>4
        <5>2. QED BY <5>1 DEF Reported
      <4>5. \A e : PairOwner(e)' <=> PairOwner(e)
        BY <3>1 DEF PairOwner
      <4>6. ~Passed(Here) /\ Here \in Attr
        BY <3>1, <3>3, HereNotPassed, OwnerIsEnum
      <4> HIDE DEF told
      <4>7. QED BY <3>1, <3>2, <3>3, <4>3, <4>4, <4>5, <4>6 DEF FindingsSoFar, Resolvable
    <3>4. CASE ~(cfg.validate /\ PairOwner(Here))
      <4>1. CASE cfg.validate
        BY <3>1, <3>2, <3>4, <4>1, FindingsUntouched
      <4>2. CASE ~cfg.validate
        BY <3>1, <4>2 DEF FindingsSoFar
      <4>3. QED BY <4>1, <4>2
    <3>5. QED BY <3>3, <3>4
  <2>9. CASE ValidateEntry
    <3>1. /\ UNCHANGED <<cfg, cls, active, calls, attr, phase, pos>>
          /\ findings \subseteq findings'
          /\ \A f \in findings' : f \in findings \/ f.at = Observables
      <4> DEFINE F == {Finding(Observables, "walk", ent, c) : c \in EntryFindings(obs.s[ent])}
      <4>1. \A f \in F : f.at = Observables
        BY DEF Finding
      <4> HIDE DEF F
      <4>2. findings' = findings \cup F \/ findings' = findings
        BY <2>9 DEF ValidateEntry, F
      <4>3. QED BY <2>9, <4>1, <4>2 DEF ValidateEntry, history
    <3>2. \A e : (Passed(e)' <=> Passed(e)) /\ (PairOwner(e)' <=> PairOwner(e))
      BY <3>1 DEF Passed, PairOwner
    <3>3. \A e \in Attr : Reported(e)' = Reported(e)
      BY <3>1, NothingReported
    <3>4. QED BY <3>1, <3>2, <3>3 DEF FindingsSoFar, Resolvable
  <2>10. CASE LeaveObservables
    <3>1. /\ UNCHANGED <<cfg, cls, active, calls, attr>>
          /\ phase = "walk" /\ phase' = "walk" /\ pos \in DOMAIN Order /\ pos' = pos + 1
          /\ Here = Observables
      BY <2>10, OrderIsList DEF LeaveObservables, Advance, history, AtObs, TypeOK
    <3>2. /\ findings \subseteq findings'
          /\ \A f \in findings' : f \in findings \/ f.at = Observables
      <4> DEFINE F == {Finding(Observables, "walk", 0, "array_wrong_type")}
      <4>1. \A f \in F : f.at = Observables
        BY DEF Finding
      <4> HIDE DEF F
      <4>2. findings' = findings \cup F \/ findings' = findings
        BY <2>10 DEF LeaveObservables, F
      <4>3. QED BY <4>1, <4>2
    <3>3. \A e \in Attr : (Passed(e)' <=> Passed(e)) /\ (PairOwner(e)' <=> PairOwner(e))
      <4>1. \A e \in Attr : e # Here
        BY <3>1, AttrAssumption
      <4>2. QED BY <3>1, <4>1, AdvancePasses DEF PairOwner
    <3>4. \A e \in Attr : Reported(e)' = Reported(e)
      BY <3>2, NothingReported
    <3>5. QED BY <3>1, <3>3, <3>4 DEF FindingsSoFar, Resolvable
  <2>11. CASE WalkEnds
    <3>1. /\ UNCHANGED <<cfg, cls, active, findings, calls, attr>>
          /\ phase = "walk" /\ pos > Len(Order) /\ phase' = "classDone"
      BY <2>11 DEF WalkEnds, EndPart, history
    <3>2. \A e \in Attr : Passed(e)' /\ Passed(e)
      BY <3>1, WalkEndsPassed DEF Passed
    <3>3. QED BY <3>1, <3>2, FindingsUntouched
  <2>12. CASE ClassDone
    <3>1. /\ UNCHANGED <<cfg, cls, active, findings, calls, attr>>
          /\ phase = "classDone" /\ phase' = "eventDone"
      BY <2>12 DEF ClassDone, EndPart, history
    <3>2. \A e : Passed(e)' /\ Passed(e)
      BY <3>1 DEF Passed
    <3>3. QED BY <3>1, <3>2, FindingsUntouched
  <2>13. CASE EventDone
    <3>1. /\ UNCHANGED <<cfg, cls, active, calls, attr>>
          /\ phase = "eventDone" /\ phase' = "ready"
          /\ findings \subseteq findings'
          /\ \A f \in findings' : f \in findings \/ f.at = Observables
      <4> DEFINE F == {Finding(Observables, "done", i, Problem(obs.s[i], attr, active)) :
                        i \in {j \in Analyzed : Problem(obs.s[j], attr, active) \in NonStructural}}
      <4>1. \A f \in F : f.at = Observables
        BY DEF Finding
      <4> HIDE DEF F
      <4>2. findings' = findings \cup F \/ findings' = findings
        BY <2>13 DEF EventDone, F
      <4>3. QED BY <2>13, <4>1, <4>2 DEF EventDone, history
    <3>2. \A e : Passed(e)' /\ Passed(e) /\ (PairOwner(e)' <=> PairOwner(e))
      BY <3>1 DEF Passed, PairOwner
    <3>3. \A e \in Attr : Reported(e)' = Reported(e)
      BY <3>1, NothingReported
    <3>4. QED BY <3>1, <3>2, <3>3 DEF FindingsSoFar, Resolvable
  <2>14. CASE UNCHANGED vars
    <3>1. \A e : (Passed(e)' <=> Passed(e))
      BY <2>14 DEF vars, Passed
    <3>2. QED BY <2>14, <3>1, FindingsUntouched DEF vars
  <2>15. QED
    BY <2>1, <2>2, <2>3, <2>4, <2>5, <2>6, <2>7, <2>8, <2>9, <2>10, <2>11, <2>12,
       <2>13, <2>14 DEF Next, Process
<1>3. QED BY <1>1, <1>2, TypeCorrect, WalkStarts, PTL DEF Spec

(* When a call returns, its findings about pairs are those of the event it *)
(* hands back: no mutation follows the visit of a pair.                    *)
THEOREM FindingsAreCurrent == Spec => []PairFindingsCurrent
<1>1. FindingsSoFar => PairFindingsCurrent
  BY DEF FindingsSoFar, PairFindingsCurrent, Done, Passed, Reported
<1>2. QED BY <1>1, FindingsStayCurrent, PTL
-----------------------------------------------------------------------------
(* The first dispatcher and one pair.                                      *)

(* Where enum work is configured it is done by the first dispatcher alone  *)
(* (NewPipeline).                                                          *)
LEMMA FirstDoesEnums ==
    ASSUME NEW c \in Config, c.enum # "none"
    PROVE  /\ Len(Pipeline(c)) >= 1 /\ Pipeline(c)[1].enums
           /\ \A t \in 1 .. Len(Pipeline(c)) : t > 1 => ~Pipeline(c)[t].enums
<1>1. Both(c).enums /\ Enums(c).enums /\ ~Obsv(c).enums
  BY DEF Dispatcher, Both, Enums, Obsv
<1>2. \A x, y : /\ Len(<<x>>) = 1 /\ <<x>>[1] = x
                /\ Len(<<x, y>>) = 2 /\ <<x, y>>[1] = x /\ <<x, y>>[2] = y
  OBVIOUS
<1>3. CASE Pipeline(c) = <<Both(c)>>
  BY <1>1, <1>2, <1>3
<1>4. CASE Pipeline(c) = <<Enums(c)>>
  BY <1>1, <1>2, <1>4
<1>5. CASE Pipeline(c) = <<Enums(c), Obsv(c)>>
  <2>1. \A t \in 1 .. 2 : t > 1 => t = 2
    OBVIOUS
  <2>2. QED BY <1>1, <1>2, <1>5, <2>1
<1>6. Pipeline(c) # <<>>
  BY DEF Pipeline
<1>7. QED BY <1>3, <1>4, <1>5, <1>6, PipelineShape

(* Without observable work configured no dispatcher does any.              *)
LEMMA NoObservableWork ==
    ASSUME NEW c \in Config, c.obs = "none", NEW t \in 1 .. Len(Pipeline(c))
    PROVE  Pipeline(c)[t].obs = FALSE
<1>1. Enums(c).obs = FALSE
  BY DEF Dispatcher, Enums
<1>2. \A x : \A i \in 1 .. Len(<<x>>) : <<x>>[i] = x
  OBVIOUS
<1>3. ~\E i \in 1 .. Len(<<>>) : TRUE
  OBVIOUS
<1>4. QED BY <1>1, <1>2, <1>3, PipelineShape

(* A step that is no visit of a pair leaves every pair that is dispatched  *)
(* as it is, on its side of the walk.                                      *)
LEMMA OthersLeavePairs ==
    ASSUME TypeOK, WalkFromStart, cfg.enum # "none", Process, ~VisitPair,
           NEW e, PairOwner(e)
    PROVE  /\ Handled(e)' <=> Handled(e)
           /\ attr'[e] = attr[e] /\ attr'[Sibling[e]] = attr[Sibling[e]]
<1> DEFINE Same == attr'[e] = attr[e] /\ attr'[Sibling[e]] = attr[Sibling[e]]
<1> cfg \in Config
  BY InputAssumption DEF TypeOK
<1>1. e \in Resolved /\ e \in EnumAttr /\ e \in Attr /\ ~Skipped(e)
  BY OwnerIsEnum
<1>2. CASE OnClass \/ OnClassDone \/ OnEventDone
  BY <1>2 DEF OnClass, OnClassDone, OnEventDone, Handled, Passed
<1>3. CASE ClassVisited
  <2>1. phase = "class" /\ phase' = "walk" /\ turn' = 1 /\ pos' = 1 /\ attr' = attr
    BY <1>3 DEF ClassVisited, EndPart, RequiresEventWalk, WalkFromStart
  <2>2. QED BY <2>1, OrderIsList DEF Handled, Passed
<1>4. CASE SkipAttribute \/ LeaveObservables
  <2>1. /\ phase = "walk" /\ phase' = "walk" /\ pos \in DOMAIN Order /\ pos' = pos + 1
        /\ attr' = attr /\ turn' = 1 /\ e # Here
    BY <1>1, <1>4, OrderIsList, AttrAssumption
       DEF SkipAttribute, LeaveObservables, Advance, AtAttr, AtObs, TypeOK
  <2>2. Passed(e)' <=> Passed(e)
    BY <2>1, AdvancePasses
  <2>3. QED BY <2>1, <2>2 DEF Handled
<1>5. CASE VisitOrdinary
  <2> DEFINE new == UnlinkedWork(Pipe[turn], attr[Here], attr[Sibling[Here]]).sib
  <2>1. /\ phase = "walk" /\ phase' = "walk" /\ pos' = pos /\ e # Here
        /\ \/ attr' = attr
           \/ Here \in EnumAttr /\ attr' = [attr EXCEPT ![Sibling[Here]] = new]
    BY <1>5 DEF VisitOrdinary, AtAttr
  <2> HIDE DEF new
  <2>2. Same
    BY <1>1, <2>1, OtherPairKept
  <2>3. QED BY <2>1, <2>2 DEF Handled, Passed, Here
<1>6. CASE VisitEntry \/ ValidateEntry
  <2>1. phase = "walk" /\ phase' = "walk" /\ pos' = pos /\ attr' = attr /\ e # Here
    BY <1>1, <1>6, AttrAssumption DEF VisitEntry, ValidateEntry, AtEntry, AtObs
  <2>2. QED BY <2>1 DEF Handled, Passed, Here
<1>7. CASE ValidateAttribute
  <2>1. /\ phase = "walk" /\ phase' = "walk" /\ pos \in DOMAIN Order /\ pos' = pos + 1
        /\ attr' = attr /\ turn' = 1 /\ turn = Len(Pipe) + 1
    BY <1>7, OrderIsList DEF ValidateAttribute, Advance, AtAttr, TypeOK, Past
  <2>2. turn > 1
    BY <2>1, FirstDoesEnums, PipelineLength DEF Pipe
  <2>3. Passed(e)' <=> Passed(e) \/ e = Here
    BY <2>1, AdvancePasses
  <2>4. QED BY <2>1, <2>2, <2>3 DEF Handled
<1>8. CASE WalkEnds
  <2>1. phase = "walk" /\ pos > Len(Order) /\ phase' = "classDone" /\ attr' = attr
    BY <1>8 DEF WalkEnds, EndPart
  <2>2. QED BY <1>1, <2>1, WalkEndsPassed DEF Handled, Passed
<1>9. CASE ClassDone \/ EventDone
  BY <1>9 DEF ClassDone, EventDone, EndPart, Handled, Passed
<1>10. QED
  BY <1>2, <1>3, <1>4, <1>5, <1>6, <1>7, <1>8, <1>9 DEF Process

(* A visit of a pair writes the sibling of that pair and moves the turn.   *)
LEMMA PairVisited ==
    ASSUME TypeOK, VisitPair, NEW e, PairOwner(e)
    PROVE  /\ turn \in 1 .. Len(Pipe) /\ PairOwner(Here) /\ Here \in EnumAttr
           /\ attr'[e] = attr[e]
           /\ e # Here => /\ Handled(e)' <=> Handled(e)
                          /\ attr'[Sibling[e]] = attr[Sibling[e]]
           /\ e = Here => /\ Handled(e)' /\ (Handled(e) <=> turn > 1)
                          /\ attr'[Sibling[e]] =
                             PairWork(Pipe[turn], e \in ArrayAttr, attr[e], attr[Sibling[e]]).sib
<1> DEFINE new == PairWork(Pipe[turn], Here \in ArrayAttr, attr[Here], attr[Sibling[Here]]).sib
<1>1. /\ phase = "walk" /\ phase' = "walk" /\ pos \in DOMAIN Order /\ pos' = pos
      /\ turn \in 1 .. Len(Pipe) /\ turn' = turn + 1
      /\ PairOwner(Here) /\ attr' = [attr EXCEPT ![Sibling[Here]] = new]
  <2>1. /\ AtAttr /\ PairOwner(Here) /\ ~Past /\ phase' = phase /\ pos' = pos
        /\ cfg' = cfg /\ turn' = turn + 1 /\ attr' = [attr EXCEPT ![Sibling[Here]] = new]
    BY DEF VisitPair
  <2> HIDE DEF new
  <2>2. phase = "walk" /\ pos \in DOMAIN Order
    BY <2>1, OrderIsList DEF AtAttr, TypeOK
  <2>3. turn \in 1 .. Len(Pipe)
    BY <2>1, TurnAdvances
  <2>4. QED BY <2>1, <2>2, <2>3
<1>2. Here \in EnumAttr /\ e \in EnumAttr /\ e \in Attr /\ Sibling[Here] \in Attr /\ Sibling[Here] # e
  BY <1>1, OwnerIsEnum
<1>3. ~Passed(Here) /\ (Passed(e)' <=> Passed(e))
  BY <1>1, HereNotPassed DEF Passed
<1> HIDE DEF new
<1>4. attr'[e] = attr[e] /\ attr'[Sibling[Here]] = new
  BY <1>1, <1>2 DEF TypeOK
<1>5. e # Here => attr'[Sibling[e]] = attr[Sibling[e]]
  BY <1>1, <1>2, OtherPairKept
<1>6. turn' > 1
  BY <1>1
<1>7. QED BY <1>1, <1>2, <1>3, <1>4, <1>5, <1>6 DEF Handled, Here, new
-----------------------------------------------------------------------------
(* No request without a trace.                                             *)

Result == [added : Nat, removed : Nat, retained : Nat, obsAdded : Nat,
           obsRemoved : Nat, obsRetained : Nat, issues : Nat, suppressed : Nat]

Raised(r) == r.issues + r.suppressed

(* What was asked of the pair of enum was not done, and needs a word.      *)
LeftUndone(action, isArray, enum, sib) ==
    IF action = "add"
    THEN enum.k = (IF isArray THEN "array" ELSE "scalar") /\ ~Present(sib)
    ELSE Present(sib) /\ ~IncludesOther(enum)

(* Of the pairs the enum dispatcher has been at, every one it left undone  *)
(* is in the counts.                                                       *)
SilentSoFar ==
    calls > 0 /\ Resolvable /\ cfg.enum # "none" /\ cfg.obs = "none" =>
      /\ res \in Result
      /\ cfg.suppress => res.issues = 0
      /\ Raised(res) >= Cardinality({e \in Unexplained : Handled(e)})

(* Counters of the work on a pair are numbers.                             *)
LEMMA PairWorkCounts ==
    ASSUME NEW c \in Config, NEW t \in 1 .. Len(Pipeline(c)), NEW isArray, NEW enum, NEW sib,
           NEW o, \/ o = PairWork(Pipeline(c)[t], isArray, enum, sib)
                  \/ o = UnlinkedWork(Pipeline(c)[t], enum, sib)
    PROVE  o.added \in Nat /\ o.removed \in Nat /\ o.retained \in Nat /\ o.issues \in Nat
<1> DEFINE Counts(x) == /\ x.added \in Nat /\ x.removed \in Nat
                        /\ x.retained \in Nat /\ x.issues \in Nat
           d == Pipeline(c)[t]
<1>1. \A x : \A a, b, k, n \in Nat : Counts(Outcome(x, a, b, k, n))
  BY DEF Outcome
<1>2. \A x : Counts(Untouched(x)) /\ Counts(Deleted) /\ Counts(Kept(x, 0)) /\ Counts(Kept(x, 1))
  BY <1>1 DEF Untouched, Deleted, Kept
<1> HIDE DEF Counts
<1>3. Counts(AddPair(isArray, enum, sib))
  BY <1>1, <1>2 DEF AddPair, AddArray, AddScalar
<1>4. \A force : Counts(RemoveArray(enum, sib, force)) /\ Counts(RemoveScalar(enum, sib, force))
  BY <1>2 DEF RemoveArray, RemoveScalar
<1>5. \A force : Counts(RemovePair(isArray, enum, sib, force))
  BY <1>2, <1>4 DEF RemovePair
<1>6. Counts(RetainUnsupported(enum, sib))
  BY <1>2 DEF RetainUnsupported
<1>7. d.enums \in BOOLEAN /\ d.action \in {"add", "remove", "force"}
  BY DispatcherSound
<1> HIDE DEF d
<1>8. Counts(PairWork(d, isArray, enum, sib))
  <2>1. CASE ~d.enums  BY <1>2, <2>1 DEF PairWork
  <2>2. CASE d.enums /\ d.action = "add"  BY <1>3, <2>2 DEF PairWork
  <2>3. CASE d.enums /\ d.action = "remove"  BY <1>5, <2>3 DEF PairWork
  <2>4. CASE d.enums /\ d.action = "force"  BY <1>5, <2>4 DEF PairWork
  <2>5. QED BY <1>7, <2>1, <2>2, <2>3, <2>4
<1>9. Counts(UnlinkedWork(d, enum, sib))
  BY <1>2, <1>6 DEF UnlinkedWork
<1>10. QED BY <1>8, <1>9 DEF d, Counts

(* Adding or removing a pair says so when it leaves the pair undone.       *)
LEMMA UndoneIsRaised ==
    ASSUME NEW c \in Config, c.enum # "none", NEW isArray \in BOOLEAN,
           NEW enum \in Value, NEW sib \in Value,
           LeftUndone(c.enum, isArray, enum, PairWork(Pipeline(c)[1], isArray, enum, sib).sib)
    PROVE  PairWork(Pipeline(c)[1], isArray, enum, sib).issues = 1
<1> DEFINE d == Pipeline(c)[1]
<1>1. d.enums /\ d.action = c.enum /\ d.action \in {"add", "remove", "force"}
  BY FirstDoesEnums, DispatcherSound, PipelineLength
<1> HIDE DEF d
<1>2. CASE d.action = "add"
  <2>1. PairWork(d, isArray, enum, sib) = AddPair(isArray, enum, sib)
    BY <1>1, <1>2 DEF PairWork
  <2>2. ASSUME LeftUndone("add", isArray, enum, AddPair(isArray, enum, sib).sib)
        PROVE  AddPair(isArray, enum, sib).issues = 1
    <3>1. CASE isArray
      BY <2>2, <3>1 DEF AddPair, LeftUndone, AddArray, ArrayV, Present, Untouched, Outcome
    <3>2. CASE ~isArray
      BY <2>2, <3>2 DEF AddPair, LeftUndone, AddScalar, ScalarV, Present, Untouched, Outcome
    <3>3. QED BY <3>1, <3>2
  <2>3. QED BY <1>1, <1>2, <2>1, <2>2 DEF d
<1>3. CASE d.action \in {"remove", "force"}
  <2>1. PICK force : PairWork(d, isArray, enum, sib) = RemovePair(isArray, enum, sib, force)
    BY <1>1, <1>3 DEF PairWork
  <2> DEFINE o == RemovePair(isArray, enum, sib, force)
  <2>2. ASSUME Present(o.sib), ~IncludesOther(enum) PROVE o.issues = 1
    <3>1. sib.k \notin {"absent", "null"}
      BY <2>2 DEF RemovePair, Untouched, Deleted, Outcome, Present, AbsentV
    <3>2. o # Deleted
      BY <2>2 DEF Deleted, Outcome, Present, AbsentV
    <3>3. Kept(sib, 1).issues = 1
      BY DEF Kept, Outcome
    <3>4. CASE ~isArray
      <4>1. enum.k = "scalar" => enum.s[1] # Other
        BY <2>2 DEF IncludesOther, Present, Value
      <4>2. o = RemoveScalar(enum, sib, force)
        BY <3>1, <3>4 DEF RemovePair
      <4>3. QED BY <3>2, <3>3, <4>1, <4>2 DEF RemoveScalar
    <3>5. CASE isArray
      <4> DEFINE stops == {i \in DOMAIN enum.s : StopsRemoval(enum, sib, force, i)}
                 first1 == CHOOSE i \in stops : \A j \in stops : i <= j
      <4>1. o = RemoveArray(enum, sib, force)
        BY <3>1, <3>5 DEF RemovePair
      <4>2. CASE o = Kept(sib, 1)
        BY <3>3, <4>2
      <4>3. CASE enum.k = "array" /\ stops # {} /\ o = Kept(sib, IF enum.s[first1] = Other THEN 0 ELSE 1)
        <5>1. first1 \in DOMAIN enum.s
          <6>1. stops \subseteq Nat
            BY DEF Value
          <6>2. \E i \in stops : \A j \in stops : i <= j
            BY <4>3, <6>1, LeastPosition
          <6>3. first1 \in stops
            BY <6>2
          <6>4. QED BY <6>3
        <5>2. enum.s[first1] # Other
          BY <2>2, <4>3, <5>1 DEF IncludesOther, Present
        <5>3. QED BY <3>3, <4>3, <5>2
      <4>4. QED BY <3>2, <4>1, <4>2, <4>3 DEF RemoveArray
    <3>6. QED BY <3>4, <3>5
  <2>3. QED BY <1>1, <1>3, <2>1, <2>2 DEF d, LeftUndone
<1>4. QED BY <1>1, <1>2, <1>3
(* Charging adds what was raised to one counter or the other, and to       *)
(* issues only where they are not suppressed (suppressesIssue).            *)
LEMMA ReportCounts ==
    ASSUME NEW r \in Result, NEW n \in Nat
    PROVE  /\ Report(r, n) \in Result /\ Raised(Report(r, n)) = Raised(r) + n
           /\ cfg.suppress => Report(r, n).issues = r.issues
<1>1. r.issues \in Nat /\ r.suppressed \in Nat
  BY DEF Result
<1>2. CASE cfg.suppress
  <2>1. Report(r, n) = [r EXCEPT !.suppressed = r.suppressed + n]
    BY <1>2 DEF Report
  <2>2. QED BY <1>1, <2>1 DEF Result, Raised
<1>3. CASE ~cfg.suppress
  <2>1. Report(r, n) = [r EXCEPT !.issues = r.issues + n]
    BY <1>3 DEF Report
  <2>2. QED BY <1>1, <1>3, <2>1 DEF Result, Raised
<1>4. QED BY <1>2, <1>3

(* The same for everything that the work on a pair counts.                 *)
LEMMA ChargeCounts ==
    ASSUME NEW r \in Result,
           NEW o, o.added \in Nat, o.removed \in Nat, o.retained \in Nat, o.issues \in Nat
    PROVE  /\ Charge(r, o) \in Result /\ Raised(Charge(r, o)) = Raised(r) + o.issues
           /\ cfg.suppress => Charge(r, o).issues = r.issues
<1> DEFINE x == r.added + o.added
           y == r.removed + o.removed
           z == r.retained + o.retained
           s == [r EXCEPT !.added = x, !.removed = y, !.retained = z]
<1>1. s \in Result /\ s.issues = r.issues /\ s.suppressed = r.suppressed
  <2>1. x \in Nat /\ y \in Nat /\ z \in Nat
    BY DEF Result
  <2> HIDE DEF x, y, z
  <2>2. QED BY <2>1 DEF Result
<1>2. Charge(r, o) = Report(s, o.issues)
  BY DEF Charge
<1> HIDE DEF s
<1>3. /\ Report(s, o.issues) \in Result
      /\ Raised(Report(s, o.issues)) = Raised(s) + o.issues
      /\ cfg.suppress => Report(s, o.issues).issues = s.issues
  BY <1>1, ReportCounts
<1>4. Raised(s) = Raised(r)
  BY <1>1 DEF Raised
<1>5. QED BY <1>1, <1>2, <1>3, <1>4

(* Nothing is harvested by a dispatcher that has no observables to add.    *)
LEMMA NothingHarvested ==
    ASSUME NEW d, d.obs = FALSE, NEW a, NEW v
    PROVE  Harvest(d, a, v).issues = 0
BY DEF Harvest

(* What a call leaves alone from its beginning to its end.                 *)
LEMMA ProcessKeeps ==
    ASSUME Process
    PROVE  UNCHANGED <<cfg, cls, active, calls, start, first>>
<1>1. CASE OnClass \/ OnClassDone \/ OnEventDone \/ EventDone
  BY <1>1 DEF OnClass, OnClassDone, OnEventDone, EventDone, history
<1>2. CASE ClassVisited \/ WalkEnds \/ ClassDone
  BY <1>2 DEF ClassVisited, WalkEnds, ClassDone, EndPart, history
<1>3. CASE SkipAttribute \/ VisitPair \/ VisitOrdinary \/ VisitEntry
  BY <1>3 DEF SkipAttribute, VisitPair, VisitOrdinary, VisitEntry, history
<1>4. CASE ValidateAttribute \/ ValidateEntry \/ LeaveObservables
  BY <1>4 DEF ValidateAttribute, ValidateEntry, LeaveObservables, history
<1>5. QED BY <1>1, <1>2, <1>3, <1>4 DEF Process

(* The class has finitely many enums with a sibling.                       *)
LEMMA ResolvedFinite == IsFiniteSet(Resolved)
<1>1. IsFiniteSet(DOMAIN Order)
  BY OrderIsList, FS_Interval
<1> DEFINE R == {Order[i] : i \in DOMAIN Order}
<1>2. IsFiniteSet(R)
  <2> DEFINE at == [i \in DOMAIN Order |-> Order[i]]
  <2>1. at \in Surjection(DOMAIN Order, R)
    BY DEF Surjection
  <2>2. QED BY <1>1, <2>1, FS_Surjection
<1>3. Resolved \subseteq R
  BY AttrAssumption, OrderAssumption
<1>4. QED BY <1>2, <1>3, FS_Subset

(* The counters of a step with enum work alone, the visits of pairs apart. *)
LEMMA QuietCounts ==
    ASSUME TypeOK, res \in Result, cfg.obs = "none", Process, ~VisitPair
    PROVE  /\ res' \in Result /\ Raised(res') >= Raised(res)
           /\ cfg.suppress => res'.issues = res.issues
<1> DEFINE Grown(r) == /\ r \in Result /\ Raised(r) >= Raised(res)
                       /\ cfg.suppress => r.issues = res.issues
<1> cfg \in Config
  BY InputAssumption DEF TypeOK
<1>1. Raised(res) \in Nat
  BY DEF Raised, Result
<1>2. Grown(res)
  BY <1>1
<1>3. ASSUME NEW o, o.added \in Nat, o.removed \in Nat, o.retained \in Nat, o.issues \in Nat
      PROVE  Grown(Charge(res, o)) /\ Grown(Report(Charge(res, o), 0))
  <2> DEFINE r == Charge(res, o)
  <2>1. /\ r \in Result /\ Raised(r) = Raised(res) + o.issues
        /\ cfg.suppress => r.issues = res.issues
    BY <1>3, ChargeCounts
  <2> HIDE DEF r
  <2>2. Raised(r) \in Nat /\ Raised(r) >= Raised(res)
    BY <1>1, <1>3, <2>1
  <2>3. /\ Report(r, 0) \in Result /\ Raised(Report(r, 0)) = Raised(r) + 0
        /\ cfg.suppress => Report(r, 0).issues = r.issues
    BY <2>1, ReportCounts
  <2>4. Raised(Report(r, 0)) >= Raised(res)
    BY <2>2, <2>3
  <2>5. QED BY <2>1, <2>2, <2>3, <2>4 DEF r
<1>4. Grown(Report(res, 0))
  BY <1>1, ReportCounts
<1>5. CASE OnClass \/ OnClassDone \/ OnEventDone
  <2>1. turn \in 1 .. Len(Pipe)
    BY <1>5, TurnAdvances DEF OnClass, OnClassDone, OnEventDone
  <2>2. Pipe[turn].obs = FALSE
    BY <2>1, NoObservableWork DEF Pipe
  <2>3. res' = res
    BY <1>5, <2>2 DEF OnClass, OnClassDone, OnEventDone, RemoveObservables
  <2>4. QED BY <1>2, <2>3
<1>6. CASE VisitOrdinary
  <2> DEFINE o == UnlinkedWork(Pipe[turn], attr[Here], attr[Sibling[Here]])
             h == Harvest(Pipe[turn], Here, attr[Here])
  <2>1. turn \in 1 .. Len(Pipe)
    BY <1>6, TurnAdvances DEF VisitOrdinary
  <2>2. h.issues = 0
    BY <2>1, NoObservableWork, NothingHarvested DEF Pipe
  <2>3. o.added \in Nat /\ o.removed \in Nat /\ o.retained \in Nat /\ o.issues \in Nat
    BY <2>1, PairWorkCounts DEF Pipe
  <2>4. res' = Report(Charge(res, o), h.issues) \/ res' = Report(res, h.issues)
    BY <1>6 DEF VisitOrdinary
  <2> HIDE DEF o, h
  <2>5. QED BY <1>3, <1>4, <2>2, <2>3, <2>4
<1>7. CASE VisitEntry
  <2> DEFINE o == PairWork(Pipe[turn], FALSE, obs.s[ent].tid, obs.s[ent].typ)
  <2>1. turn \in 1 .. Len(Pipe)
    BY <1>7, TurnAdvances DEF VisitEntry
  <2>2. o.added \in Nat /\ o.removed \in Nat /\ o.retained \in Nat /\ o.issues \in Nat
    BY <2>1, PairWorkCounts DEF Pipe
  <2>3. res' = Charge(res, o) \/ res' = res
    BY <1>7 DEF VisitEntry
  <2> HIDE DEF o
  <2>4. QED BY <1>2, <1>3, <2>2, <2>3
<1>8. CASE ClassVisited \/ WalkEnds \/ ClassDone \/ EventDone
  BY <1>2, <1>8 DEF ClassVisited, WalkEnds, ClassDone, EndPart, EventDone
<1>9. CASE SkipAttribute \/ ValidateAttribute \/ ValidateEntry \/ LeaveObservables
  BY <1>2, <1>9 DEF SkipAttribute, ValidateAttribute, ValidateEntry, LeaveObservables
<1>10. QED
  BY <1>5, <1>6, <1>7, <1>8, <1>9 DEF Process
(* The set of pairs that need a word is what LeftUndone says of each.      *)
LEMMA UnexplainedPairs ==
    Unexplained = {e \in Resolved :
        PairOwner(e) /\ LeftUndone(cfg.enum, e \in ArrayAttr, attr[e], attr[Sibling[e]])}
BY DEF Unexplained, LeftUndone

(* Every step of a call keeps the counts ahead of the pairs left undone.   *)
LEMMA SilenceStep ==
    ASSUME TypeOK, WalkFromStart, SilentSoFar, Process
    PROVE  SilentSoFar'
<1> SUFFICES ASSUME calls > 0, Resolvable, cfg.enum # "none", cfg.obs = "none"
             PROVE  /\ res' \in Result
                    /\ cfg.suppress => res'.issues = 0
                    /\ Raised(res') >= Cardinality({e \in Unexplained : Handled(e)}')
  BY ProcessKeeps DEF SilentSoFar, Resolvable, Raised
<1> DEFINE undone == {e \in Unexplained : Handled(e)}
<1> cfg \in Config
  BY InputAssumption DEF TypeOK
<1>1. /\ res \in Result
      /\ cfg.suppress => res.issues = 0
      /\ Raised(res) >= Cardinality(undone) /\ Raised(res) \in Nat
  BY DEF SilentSoFar, Raised, Result
<1>2. IsFiniteSet(undone) /\ Cardinality(undone) \in Nat
  BY ResolvedFinite, UnexplainedPairs, FS_Subset, FS_CardinalityType
<1>3. UNCHANGED <<cfg, active>> /\ \A e : PairOwner(e)' <=> PairOwner(e)
  BY ProcessKeeps DEF PairOwner
<1>4. CASE ~VisitPair
  <2>1. \A e : PairOwner(e) => /\ Handled(e)' <=> Handled(e)
                               /\ attr'[e] = attr[e] /\ attr'[Sibling[e]] = attr[Sibling[e]]
    BY <1>4, OthersLeavePairs
  <2>2. undone' = undone
    BY <1>3, <2>1 DEF Unexplained
  <2>3. /\ res' \in Result /\ Raised(res') >= Raised(res)
        /\ cfg.suppress => res'.issues = res.issues
    BY <1>1, <1>4, QuietCounts
  <2>4. Raised(res') \in Nat
    BY <2>3 DEF Raised, Result
  <2> HIDE DEF undone
  <2>5. Raised(res') >= Cardinality(undone)
    BY <1>1, <1>2, <2>3, <2>4
  <2>6. QED BY <1>1, <2>2, <2>3, <2>5 DEF undone
<1>5. CASE VisitPair
  <2> DEFINE o == PairWork(Pipe[turn], Here \in ArrayAttr, attr[Here], attr[Sibling[Here]])
             h == Harvest(Pipe[turn], Sibling[Here], o.sib)
  <2>1. PICK e \in EnumAttr : e = Here /\ PairOwner(e)
    BY <1>5, OwnerIsEnum DEF VisitPair
  <2>2. turn \in 1 .. Len(Pipe)
    BY <1>5, <2>1, PairVisited
  <2>3. o.added \in Nat /\ o.removed \in Nat /\ o.retained \in Nat /\ o.issues \in Nat
    BY <2>2, PairWorkCounts DEF Pipe
  <2>4. h.issues = 0
    BY <2>2, NoObservableWork, NothingHarvested DEF Pipe
  <2>5. res' = Report(Charge(res, o), h.issues)
    BY <1>5 DEF VisitPair
  <2>6. /\ res' \in Result /\ Raised(res') = Raised(res) + o.issues
        /\ cfg.suppress => res'.issues = res.issues
    <3> DEFINE r == Charge(res, o)
    <3> HIDE DEF o, h
    <3>1. /\ r \in Result /\ Raised(r) = Raised(res) + o.issues
          /\ cfg.suppress => r.issues = res.issues
      BY <1>1, <2>3, ChargeCounts
    <3> HIDE DEF r
    <3>2. /\ Report(r, 0) \in Result /\ Raised(Report(r, 0)) = Raised(r) + 0
          /\ cfg.suppress => Report(r, 0).issues = r.issues
      BY <3>1, ReportCounts
    <3>3. res' = Report(r, 0)
      BY <2>4, <2>5 DEF r
    <3>4. Raised(r) + 0 = Raised(res) + o.issues
      BY <1>1, <2>3, <3>1
    <3>5. QED BY <3>1, <3>2, <3>3, <3>4
  <2>7. \A f : PairOwner(f) /\ f # e =>
          /\ Handled(f)' <=> Handled(f)
          /\ attr'[f] = attr[f] /\ attr'[Sibling[f]] = attr[Sibling[f]]
    BY <1>5, <2>1, PairVisited
  <2>8. \A f : f # e => (f \in undone' <=> f \in undone)
    BY <1>3, <2>7 DEF Unexplained
  <2>9. /\ Handled(e) <=> turn > 1
        /\ attr'[e] = attr[e] /\ attr'[Sibling[e]] = o.sib
    BY <1>5, <2>1, PairVisited
  <2>10. CASE turn > 1
    <3>1. ~Pipe[turn].enums
      BY <2>2, <2>10, FirstDoesEnums DEF Pipe
    <3>2. o.sib = attr[Sibling[e]]
      BY <2>1, <3>1 DEF PairWork, Untouched, Outcome
    <3>3. e \in undone' => e \in undone
      BY <1>3, <2>9, <2>10, <3>2 DEF Unexplained
    <3>4. undone' \subseteq undone
      BY <2>8, <3>3
    <3>5. Cardinality(undone') <= Cardinality(undone) /\ Cardinality(undone') \in Nat
      BY <1>2, <3>4, FS_Subset, FS_CardinalityType
    <3> HIDE DEF undone, o
    <3>6. Raised(res') >= Cardinality(undone')
      BY <1>1, <1>2, <2>3, <2>6, <3>5
    <3>7. QED BY <1>1, <2>6, <3>6 DEF undone
  <2>11. CASE turn = 1
    <3>1. e \in undone' => o.issues = 1
      <4> SUFFICES ASSUME e \in undone' PROVE o.issues = 1
        OBVIOUS
      <4>1. LeftUndone(cfg.enum, e \in ArrayAttr, attr[e], o.sib)
        BY <1>3, <2>9 DEF Unexplained, LeftUndone
      <4>2. attr[e] \in Value /\ attr[Sibling[e]] \in Value
        BY <2>1, OwnerIsEnum DEF TypeOK
      <4>3. (e \in ArrayAttr) \in BOOLEAN
        OBVIOUS
      <4>4. QED BY <2>1, <2>11, <4>1, <4>2, <4>3, UndoneIsRaised DEF Pipe
    <3>2. undone' \subseteq IF e \in undone' THEN undone \cup {e} ELSE undone
      BY <2>8
    <3>3. IsFiniteSet(undone \cup {e}) /\ Cardinality(undone \cup {e}) <= Cardinality(undone) + 1
      <4> HIDE DEF undone
      <4>1. /\ IsFiniteSet(undone \cup {e})
            /\ Cardinality(undone \cup {e}) =
               IF e \in undone THEN Cardinality(undone) ELSE Cardinality(undone) + 1
        BY <1>2, FS_AddElement, Zenon
      <4>2. QED BY <1>2, <4>1
    <3>4. Cardinality(undone') \in Nat
          /\ Cardinality(undone') <= Cardinality(undone) + (IF e \in undone' THEN 1 ELSE 0)
      <4> HIDE DEF undone
      <4>1. CASE e \in undone'
        <5>1. Cardinality(undone') <= Cardinality(undone \cup {e}) /\ Cardinality(undone') \in Nat
              /\ Cardinality(undone \cup {e}) \in Nat
          BY <3>2, <3>3, <4>1, FS_Subset, FS_CardinalityType
        <5>2. QED BY <1>2, <3>3, <4>1, <5>1
      <4>2. CASE e \notin undone'
        <5>1. Cardinality(undone') <= Cardinality(undone) /\ Cardinality(undone') \in Nat
          BY <1>2, <3>2, <4>2, FS_Subset, FS_CardinalityType
        <5>2. QED BY <1>2, <4>2, <5>1
      <4>3. QED BY <4>1, <4>2
    <3> HIDE DEF undone, o
    <3>5. Raised(res') >= Cardinality(undone')
      BY <1>1, <1>2, <2>3, <2>6, <3>1, <3>4
    <3>6. QED BY <1>1, <2>6, <3>5 DEF undone
  <2>12. QED BY <2>2, <2>10, <2>11
<1>6. QED BY <1>4, <1>5

(* Where enum work alone is configured, every pair that the walk had to    *)
(* leave undone has raised an issue, or a suppressed one.                  *)
THEOREM NothingIsSilent == Spec => []NothingSilent
<1>1. Init => SilentSoFar
  BY DEF Init, SilentSoFar
<1>2. TypeOK /\ WalkFromStart /\ SilentSoFar /\ [Next]_vars => SilentSoFar'
  <2> SUFFICES ASSUME TypeOK, WalkFromStart, SilentSoFar, [Next]_vars PROVE SilentSoFar'
    OBVIOUS
  <2>1. ASSUME NEW c \in Configs, Call(c) PROVE SilentSoFar'
    <3>1. CASE cls = "resolved"
      <4>1. \A e : ~Handled(e)'
        BY <2>1, <3>1 DEF Call, Handled, Passed
      <4>2. {e \in Unexplained : Handled(e)}' = {}
        BY <4>1
      <4>3. res' = NoResult
        BY <2>1, <3>1 DEF Call
      <4>4. res' \in Result /\ res'.issues = 0 /\ Raised(res') = 0
        BY <4>3 DEF NoResult, Result, Raised
      <4>5. QED BY <4>2, <4>4, FS_EmptySet DEF SilentSoFar
    <3>2. CASE cls # "resolved"
      BY <2>1, <3>2 DEF Call, SilentSoFar, Resolvable
    <3>3. QED BY <3>1, <3>2
  <2>2. CASE Process
    BY <2>2, SilenceStep
  <2>3. CASE UNCHANGED vars
    <3>1. {e \in Unexplained : Handled(e)}' = {e \in Unexplained : Handled(e)}
      BY <2>3 DEF vars, Unexplained, PairOwner, Handled, Passed, Here
    <3>2. QED BY <2>3, <3>1 DEF vars, SilentSoFar, Resolvable
  <2>4. QED BY <2>1, <2>2, <2>3 DEF Next
<1>3. SilentSoFar => NothingSilent
  <2> SUFFICES ASSUME SilentSoFar, Done, Resolvable, cfg.enum # "none", cfg.obs = "none"
               PROVE  /\ res.issues + res.suppressed >= Cardinality(Unexplained)
                      /\ cfg.suppress => res.issues = 0
    BY DEF NothingSilent
  <2>1. {e \in Unexplained : Handled(e)} = Unexplained
    BY DEF Done, Handled, Passed
  <2>2. QED BY <2>1 DEF SilentSoFar, Done, Raised
<1>4. QED BY <1>1, <1>2, <1>3, TypeCorrect, WalkStarts, PTL DEF Spec
-----------------------------------------------------------------------------
(* Removal undoes addition.                                                *)

(* A sibling is what addition makes of its enum.                           *)
Captioned(isArray, enum, sib) ==
    IF isArray
    THEN /\ enum.k = "array" /\ \A i \in DOMAIN enum.s : Labelled(enum.s[i])
         /\ sib = ArrayV([i \in DOMAIN enum.s |-> Caption[enum.s[i]]])
    ELSE enum.k = "scalar" /\ Labelled(enum.s[1]) /\ sib = ScalarV(Caption[enum.s[1]])

(* A sibling that had no value has none, or the one addition gave it.      *)
Reversible(isArray, enum, sib) == ~Present(sib) \/ Captioned(isArray, enum, sib)

(* The siblings that had no value when the event was first enriched hold   *)
(* nothing but captions until removal reaches them, and then 99 alone      *)
(* keeps one.                                                              *)
ReturnSoFar ==
    calls > 0 /\ Resolvable /\ first.cfg.enum = "add" =>
      /\ calls = 1 => cfg = first.cfg
      /\ \A e \in Resolved :
           PairOwner(e) /\ ~Present(first.attr[Sibling[e]])
           /\ (calls = 1 \/ (calls = 2 /\ cfg.enum = "remove")) =>
             /\ Reversible(e \in ArrayAttr, attr[e], attr[Sibling[e]])
             /\ calls = 2 /\ Handled(e) =>
                  ~Present(attr[Sibling[e]]) \/ IncludesOther(attr[e])

(* Addition leaves a reversible sibling reversible.                        *)
LEMMA AddIsReversible ==
    ASSUME NEW isArray \in BOOLEAN, NEW enum, NEW sib, Reversible(isArray, enum, sib)
    PROVE  Reversible(isArray, enum, AddPair(isArray, enum, sib).sib)
<1>1. CASE isArray
  <2>1. AddArray(enum, sib).sib = sib
        \/ Captioned(isArray, enum, AddArray(enum, sib).sib)
    BY <1>1 DEF AddArray, Captioned, Untouched, Outcome
  <2>2. QED BY <1>1, <2>1 DEF AddPair, Reversible
<1>2. CASE ~isArray
  <2>1. AddScalar(enum, sib).sib = sib
        \/ Captioned(isArray, enum, AddScalar(enum, sib).sib)
    BY <1>2 DEF AddScalar, Captioned, Untouched, Outcome
  <2>2. QED BY <1>2, <2>1 DEF AddPair, Reversible
<1>3. QED BY <1>1, <1>2

(* Safe removal deletes a reversible sibling unless its enum holds 99, and *)
(* leaves it reversible in any case.                                       *)
LEMMA RemovalReverses ==
    ASSUME NEW isArray \in BOOLEAN, NEW enum \in Value, NEW sib \in Value,
           Reversible(isArray, enum, sib)
    PROVE  LET new == RemovePair(isArray, enum, sib, FALSE).sib
           IN  /\ ~Present(new) \/ IncludesOther(enum)
               /\ Reversible(isArray, enum, new)
<1> DEFINE o == RemovePair(isArray, enum, sib, FALSE)
<1>1. ~Present(AbsentV) /\ Deleted.sib = AbsentV
  BY DEF AbsentV, Present, Deleted, Outcome
<1>2. o.sib = sib \/ o.sib = AbsentV
  BY RemovePairSound DEF Sound
<1>3. Reversible(isArray, enum, o.sib)
  BY <1>1, <1>2 DEF Reversible
<1>4. ~Present(o.sib) \/ IncludesOther(enum)
  <2>1. CASE ~Present(sib)
    BY <1>1, <1>2, <2>1
  <2>2. CASE Present(sib) /\ ~isArray
    <3>1. /\ enum.k = "scalar" /\ Labelled(enum.s[1])
          /\ sib = ScalarV(Caption[enum.s[1]])
      BY <2>2 DEF Reversible, Captioned
    <3>2. /\ Usable(enum.s[1]) /\ Defined(enum.s[1]) /\ Caption[enum.s[1]] \in Str
          /\ sib.k = "scalar" /\ sib.s[1] = Caption[enum.s[1]]
      BY <3>1, CaptionAssumption DEF Labelled, Defined, Usable, ScalarV
    <3>3. enum.s[1] = Other => IncludesOther(enum)
      BY <3>1 DEF IncludesOther, Present, Value
    <3>4. o = RemoveScalar(enum, sib, FALSE)
      BY <2>2 DEF RemovePair, Present
    <3>5. enum.s[1] # Other => o = Deleted
      BY <3>1, <3>2, <3>4 DEF RemoveScalar
    <3>6. QED BY <1>1, <3>3, <3>5
  <2>3. CASE Present(sib) /\ isArray
    <3> DEFINE stops == {i \in DOMAIN enum.s : StopsRemoval(enum, sib, FALSE, i)}
    <3>1. /\ enum.k = "array" /\ \A i \in DOMAIN enum.s : Labelled(enum.s[i])
          /\ sib = ArrayV([i \in DOMAIN enum.s |-> Caption[enum.s[i]]])
      BY <2>3 DEF Reversible, Captioned
    <3>2. /\ sib.k = "array" /\ \A i \in DOMAIN enum.s : sib.s[i] = Caption[enum.s[i]]
          /\ Len(sib.s) = Len(enum.s)
      <4>1. enum.s \in Seq(Scalar) /\ sib.s \in Seq(Scalar)
        BY DEF Value
      <4>2. sib.k = "array" /\ sib.s = [i \in DOMAIN enum.s |-> Caption[enum.s[i]]]
        BY <3>1 DEF ArrayV
      <4>3. QED BY <4>1, <4>2, LenProperties
    <3>3. \A i \in DOMAIN enum.s : Usable(enum.s[i]) /\ Defined(enum.s[i])
      BY <3>1, CaptionAssumption DEF Labelled, Defined, Usable
    <3>4. stops # {} => IncludesOther(enum)
      BY <3>1, <3>2, <3>3 DEF StopsRemoval, IncludesOther, Present
    <3>5. o = RemoveArray(enum, sib, FALSE)
      BY <2>3 DEF RemovePair, Present
    <3>6. stops = {} => o = Deleted
      BY <3>1, <3>2, <3>5 DEF RemoveArray
    <3>7. QED BY <1>1, <3>4, <3>6
  <2>4. QED BY <2>1, <2>2, <2>3
<1>5. QED BY <1>3, <1>4

(* What a step of a call does to one reversible pair.                      *)
LEMMA PairReturns ==
    ASSUME TypeOK, WalkFromStart, Process, NEW e, PairOwner(e),
           cfg.enum \in {"add", "remove"},
           Reversible(e \in ArrayAttr, attr[e], attr[Sibling[e]]),
           cfg.enum = "remove" /\ Handled(e) =>
              ~Present(attr[Sibling[e]]) \/ IncludesOther(attr[e])
    PROVE  /\ Reversible(e \in ArrayAttr, attr'[e], attr'[Sibling[e]])
           /\ cfg.enum = "remove" /\ Handled(e)' =>
                ~Present(attr'[Sibling[e]]) \/ IncludesOther(attr'[e])
<1> cfg \in Config
  BY InputAssumption DEF TypeOK
<1>1. CASE ~VisitPair
  BY <1>1, OthersLeavePairs
<1>2. CASE VisitPair /\ e # Here
  BY <1>2, PairVisited
<1>3. CASE VisitPair /\ e = Here
  <2>1. /\ turn \in 1 .. Len(Pipe) /\ attr'[e] = attr[e] /\ (Handled(e) <=> turn > 1)
        /\ attr'[Sibling[e]] =
           PairWork(Pipe[turn], e \in ArrayAttr, attr[e], attr[Sibling[e]]).sib
    BY <1>3, PairVisited
  <2>2. CASE turn > 1
    <3>1. ~Pipe[turn].enums
      BY <2>1, <2>2, FirstDoesEnums DEF Pipe
    <3>2. attr'[Sibling[e]] = attr[Sibling[e]]
      BY <2>1, <3>1 DEF PairWork, Untouched, Outcome
    <3>3. QED BY <2>1, <2>2, <3>2
  <2>3. CASE turn = 1
    <3>1. Pipe[1].enums /\ Pipe[1].action = cfg.enum
      BY <2>1, <2>3, FirstDoesEnums, DispatcherSound DEF Pipe
    <3>2. /\ attr[e] \in Value /\ attr[Sibling[e]] \in Value
          /\ (e \in ArrayAttr) \in BOOLEAN
      BY OwnerIsEnum DEF TypeOK
    <3>3. CASE cfg.enum = "add"
      <4>1. attr'[Sibling[e]] = AddPair(e \in ArrayAttr, attr[e], attr[Sibling[e]]).sib
        BY <2>1, <2>3, <3>1, <3>3 DEF PairWork
      <4>2. QED BY <2>1, <3>2, <3>3, <4>1, AddIsReversible
    <3>4. CASE cfg.enum = "remove"
      <4>1. attr'[Sibling[e]] = RemovePair(e \in ArrayAttr, attr[e], attr[Sibling[e]], FALSE).sib
        BY <2>1, <2>3, <3>1, <3>4 DEF PairWork
      <4>2. QED BY <2>1, <3>2, <3>4, <4>1, RemovalReverses
    <3>5. QED BY <3>3, <3>4
  <2>4. QED BY <2>1, <2>2, <2>3
<1>4. QED BY <1>1, <1>2, <1>3

(* Safe removal undoes what addition did to the enum pairs of an event.    *)
THEOREM RemovalUndoesAddition == Spec => []RoundTrip
<1>1. Init => ReturnSoFar
  BY DEF Init, ReturnSoFar
<1>2. TypeOK /\ WalkFromStart /\ ReturnSoFar /\ [Next]_vars => ReturnSoFar'
  <2> SUFFICES ASSUME TypeOK, WalkFromStart, ReturnSoFar, [Next]_vars PROVE ReturnSoFar'
    OBVIOUS
  <2>1. ASSUME NEW c \in Configs, Call(c) PROVE ReturnSoFar'
    <3> SUFFICES ASSUME cls = "resolved", first'.cfg.enum = "add"
                 PROVE  ReturnSoFar'
      BY <2>1 DEF Call, ReturnSoFar, Resolvable
    <3>1. /\ calls \in Nat /\ calls' = calls + 1 /\ attr' = attr /\ active' = active
          /\ cls' = cls /\ cfg' = c /\ \A e : ~Handled(e)' /\ (PairOwner(e)' <=> PairOwner(e))
      BY <2>1 DEF Call, TypeOK, Handled, Passed, PairOwner
    <3>2. CASE calls = 0
      <4>1. first' = [attr |-> attr, obs |-> obs, cfg |-> c]
        BY <2>1, <3>2 DEF Call
      <4>2. QED BY <3>1, <3>2, <4>1 DEF ReturnSoFar, Reversible
    <3>3. CASE calls = 1
      <4>1. first' = first
        BY <2>1, <3>3 DEF Call
      <4>2. QED BY <3>1, <3>3, <4>1 DEF ReturnSoFar, Resolvable
    <3>4. CASE calls > 1
      BY <3>1, <3>4 DEF ReturnSoFar
    <3>5. QED BY <3>1, <3>2, <3>3, <3>4
  <2>2. CASE Process
    <3>1. UNCHANGED <<cfg, cls, active, calls, first>>
          /\ \A e : PairOwner(e)' <=> PairOwner(e)
      BY <2>2, ProcessKeeps DEF PairOwner
    <3> SUFFICES ASSUME calls > 0, Resolvable, first.cfg.enum = "add"
                 PROVE  ReturnSoFar'
      BY <3>1 DEF ReturnSoFar, Resolvable
    <3>2. calls = 1 => cfg = first.cfg
      BY DEF ReturnSoFar
    <3>3. ASSUME NEW e \in Resolved, PairOwner(e), ~Present(first.attr[Sibling[e]]),
                 calls = 1 \/ (calls = 2 /\ cfg.enum = "remove")
          PROVE  /\ Reversible(e \in ArrayAttr, attr'[e], attr'[Sibling[e]])
                 /\ calls = 2 /\ Handled(e)' =>
                      ~Present(attr'[Sibling[e]]) \/ IncludesOther(attr'[e])
      <4>1. /\ cfg.enum \in {"add", "remove"} /\ (cfg.enum = "remove" <=> calls = 2)
            /\ Reversible(e \in ArrayAttr, attr[e], attr[Sibling[e]])
            /\ calls = 2 /\ Handled(e) => ~Present(attr[Sibling[e]]) \/ IncludesOther(attr[e])
        BY <3>2, <3>3 DEF ReturnSoFar
      <4>2. QED BY <2>2, <3>3, <4>1, PairReturns
    <3>4. QED BY <3>1, <3>2, <3>3 DEF ReturnSoFar
  <2>3. CASE UNCHANGED vars
    <3>1. \A e : (Handled(e)' <=> Handled(e)) /\ (PairOwner(e)' <=> PairOwner(e))
      BY <2>3 DEF vars, PairOwner, Handled, Passed, Here
    <3>2. QED BY <2>3, <3>1 DEF vars, ReturnSoFar, Resolvable
  <2>4. QED BY <2>1, <2>2, <2>3 DEF Next
<1>3. ReturnSoFar => RoundTrip
  BY DEF ReturnSoFar, RoundTrip, Done, Handled, Passed
<1>4. QED BY <1>1, <1>2, <1>3, TypeCorrect, WalkStarts, PTL DEF Spec
=============================================================================
