-------------------------- MODULE ObservableProofs --------------------------
(***************************************************************************)
(* Theorems about the observables of EventPipeline: what removal takes,    *)
(* what generation appends, what validation may trust, what the counters   *)
(* say of the siblings in them and in the class, and what is left for a    *)
(* second call to do.                                                      *)
(***************************************************************************)
EXTENDS PipelineProofs

-----------------------------------------------------------------------------
(* Selecting from a sequence.                                              *)

(* A set of positions is finite and no larger than the last of them.       *)
LEMMA PositionsFinite ==
    ASSUME NEW m \in Nat, NEW I \in SUBSET (1 .. m)
    PROVE  IsFiniteSet(I) /\ Cardinality(I) \in Nat /\ Cardinality(I) <= m
<1>1. IsFiniteSet(1 .. m) /\ Cardinality(1 .. m) = m
  BY FS_Interval
<1>2. IsFiniteSet(I) /\ Cardinality(I) <= Cardinality(1 .. m)
  BY <1>1, FS_Subset
<1>3. QED BY <1>1, <1>2, FS_CardinalityType

(* The members of I up to one of them.                                     *)
UpTo(I, i) == {j \in I : j <= i}

(* Every rank up to the size of a set of positions is taken by one of them. *)
LEMMA RankTaken ==
    ASSUME NEW m \in Nat, NEW I \in SUBSET (1 .. m), NEW n \in 1 .. Cardinality(I)
    PROVE  \E i \in I : Cardinality(UpTo(I, i)) = n
<1> DEFINE Taken(k) == \A J \in SUBSET (1 .. k) : \A r \in 1 .. Cardinality(J) :
                          \E i \in J : Cardinality(UpTo(J, i)) = r
           S == {k \in Nat : Taken(k)}
<1>1. 0 \in S
  <2>1. Taken(0)
    <3>1. \A J \in SUBSET (1 .. 0) : J = {}
      OBVIOUS
    <3>2. Cardinality({}) = 0
      BY FS_EmptySet
    <3>3. QED BY <3>1, <3>2
  <2>2. QED BY <2>1
<1>2. ASSUME NEW k \in Nat, k \in S PROVE k + 1 \in S
  <2> SUFFICES ASSUME NEW J \in SUBSET (1 .. k + 1), NEW r \in 1 .. Cardinality(J)
               PROVE  \E i \in J : Cardinality(UpTo(J, i)) = r
    OBVIOUS
  <2>1. Taken(k)
    BY <1>2
  <2>2. CASE k + 1 \notin J
    <3>1. J \in SUBSET (1 .. k)
      BY <2>2
    <3>2. QED BY <2>1, <3>1
  <2>3. CASE k + 1 \in J
    <3> DEFINE L == J \ {k + 1}
    <3>1. L \in SUBSET (1 .. k) /\ J = L \cup {k + 1} /\ k + 1 \notin L
      BY <2>3
    <3>2. IsFiniteSet(L) /\ Cardinality(L) \in Nat
      BY <3>1, PositionsFinite
    <3> HIDE DEF L
    <3>3. Cardinality(J) = Cardinality(L) + 1
      BY <3>1, <3>2, FS_AddElement
    <3>4. CASE r \in 1 .. Cardinality(L)
      <4>1. PICK i \in L : Cardinality(UpTo(L, i)) = r
        BY <2>1, <3>1, <3>4
      <4>2. UpTo(J, i) = UpTo(L, i)
        BY <3>1 DEF UpTo
      <4>3. QED BY <3>1, <4>1, <4>2
    <3>5. CASE r = Cardinality(L) + 1
      <4>1. UpTo(J, k + 1) = J
        <5>1. \A j \in J : j <= k + 1
          OBVIOUS
        <5>2. QED BY <5>1 DEF UpTo
      <4>2. QED BY <2>3, <3>3, <3>5, <4>1
    <3>6. QED BY <3>2, <3>3, <3>4, <3>5
  <2>4. QED BY <2>2, <2>3
<1> HIDE DEF Taken
<1>3. Nat \subseteq S
  <2> HIDE DEF S
  <2>1. QED BY <1>1, <1>2, NatInduct
<1>4. Taken(m)
  BY <1>3
<1>5. QED BY <1>4 DEF Taken

(* Ascending lists members of the set, each later one larger.              *)
LEMMA AscendingSound ==
    ASSUME NEW m \in Nat, NEW I \in SUBSET (1 .. m)
    PROVE  /\ Cardinality(I) \in Nat /\ Cardinality(I) <= m
           /\ DOMAIN Ascending(I) = 1 .. Cardinality(I)
           /\ \A n \in 1 .. Cardinality(I) : Ascending(I)[n] \in I
           /\ \A n, k \in 1 .. Cardinality(I) : n < k => Ascending(I)[n] < Ascending(I)[k]
<1> DEFINE at == Ascending(I)
<1>1. IsFiniteSet(I) /\ Cardinality(I) \in Nat /\ Cardinality(I) <= m
  BY PositionsFinite
<1>2. DOMAIN at = 1 .. Cardinality(I)
  BY DEF Ascending
<1>3. ASSUME NEW n \in 1 .. Cardinality(I)
      PROVE  at[n] \in I /\ Cardinality(UpTo(I, at[n])) = n
  <2>1. \E i \in I : Cardinality(UpTo(I, i)) = n
    BY RankTaken
  <2>2. at[n] = CHOOSE i \in I : Cardinality(UpTo(I, i)) = n
    BY DEF Ascending, UpTo
  <2>3. QED BY <2>1, <2>2
<1>4. ASSUME NEW n \in 1 .. Cardinality(I), NEW k \in 1 .. Cardinality(I), n < k
      PROVE  at[n] < at[k]
  <2> HIDE DEF at
  <2> SUFFICES ASSUME ~(at[n] < at[k]) PROVE FALSE
    OBVIOUS
  <2>1. \A i \in I : i \in Int
    OBVIOUS
  <2>2. at[n] \in I /\ at[k] \in I /\ at[n] \in Int /\ at[k] \in Int
    BY <1>3, <2>1
  <2>3. at[k] <= at[n]
    BY <2>2
  <2>4. UpTo(I, at[k]) \subseteq UpTo(I, at[n]) /\ UpTo(I, at[n]) \subseteq I
    <3>1. \A i, a, b \in Int : i <= a /\ a <= b => i <= b
      OBVIOUS
    <3>2. QED BY <2>1, <2>2, <2>3, <3>1 DEF UpTo
  <2>5. Cardinality(UpTo(I, at[k])) <= Cardinality(UpTo(I, at[n]))
    <3>1. IsFiniteSet(UpTo(I, at[n]))
      BY <1>1, <2>4, FS_Subset
    <3>2. QED BY <2>4, <3>1, FS_Subset
  <2>6. QED BY <1>3, <1>4, <2>5
<1>5. QED BY <1>1, <1>2, <1>3, <1>4

(* What is selected from a sequence.                                       *)
LEMMA SelectedSound ==
    ASSUME NEW S, NEW s \in Seq(S), NEW I \in SUBSET DOMAIN s
    PROVE  /\ Selected(s, I) \in Seq(S)
           /\ Len(Selected(s, I)) = Cardinality(I)
           /\ DOMAIN Selected(s, I) = 1 .. Cardinality(I)
           /\ Cardinality(I) \in Nat /\ Cardinality(I) <= Len(s)
           /\ \A n \in 1 .. Cardinality(I) :
                Ascending(I)[n] \in I /\ Selected(s, I)[n] = s[Ascending(I)[n]]
<1>1. Len(s) \in Nat /\ DOMAIN s = 1 .. Len(s) /\ \A i \in DOMAIN s : s[i] \in S
  BY LenProperties, ElementOfSeq
<1> DEFINE at == Ascending(I)
<1>2. /\ Cardinality(I) \in Nat /\ Cardinality(I) <= Len(s) /\ DOMAIN at = 1 .. Cardinality(I)
      /\ \A n \in 1 .. Cardinality(I) : at[n] \in I
  BY <1>1, AscendingSound
<1> HIDE DEF at
<1>3. Selected(s, I) = [n \in 1 .. Cardinality(I) |-> s[at[n]]]
  BY <1>2 DEF Selected, at
<1>4. Selected(s, I) \in [1 .. Cardinality(I) -> S]
  BY <1>1, <1>2, <1>3
<1>5. Selected(s, I) \in Seq(S) /\ Len(Selected(s, I)) = Cardinality(I)
  BY <1>2, <1>4, SeqDef
<1>6. QED BY <1>2, <1>3, <1>5 DEF at
-----------------------------------------------------------------------------
(* What an attribute contributes.                                          *)

(* An observable of a formattable element is an entry that can be told     *)
(* from others, and the event holds what it says.                          *)
LEMMA GeneratedSound ==
    ASSUME NEW d, NEW a \in DOMAIN TypeIdOf, NEW v \in Value, NEW n \in DOMAIN v.s,
           v.k = (IF a \in ArrayAttr THEN "array" ELSE "scalar"), Formattable(a, v.s[n]),
           NEW at, at[a] = v, NEW act, a \in act
    PROVE  LET g == Generated(d, a, n, v.s[n])
           IN  g \in Entry /\ Identified(g) /\ g.a = a /\ Problem(g, at, act) = "none"
<1> DEFINE x == v.s[n]
           g == Generated(d, a, n, x)
<1>1. v.s \in Seq(Scalar) /\ n \in Nat /\ n \in DOMAIN v.s /\ x \in Range(v.s)
  <2>1. v.s \in Seq(Scalar)
    BY DEF Value
  <2>2. DOMAIN v.s = 1 .. Len(v.s) /\ Len(v.s) \in Nat
    BY <2>1, LenProperties
  <2>3. QED BY <2>1, <2>2 DEF Range
<1>2. a \in Attr /\ TypeIdOf[a] \in Integral /\ TypeIdOf[a] \in Scalar
  BY AttrAssumption, ScalarAssumption
<1>3. a \in ObjectAttr => x = Obj
  BY DEF Formattable
<1>4. a \notin ObjectAttr => x \in Str \cup Integral /\ Text[x] \in Str /\ Text[x] \in Scalar
  BY ObjAssumption, ScalarAssumption DEF Formattable
<1>5. \A y \in Scalar : ScalarV(y) \in Value /\ ScalarV(y).k = "scalar" /\ ScalarV(y).s[1] = y
  BY DEF ScalarV, Value
<1> HIDE DEF x
<1>6. /\ g.map = TRUE /\ g.name = "path" /\ g.a = a /\ g.tid = ScalarV(TypeIdOf[a])
      /\ g.i = (IF cfg.indexed /\ a \in ArrayAttr THEN n ELSE 0)
      /\ g.val = (IF a \in ObjectAttr THEN AbsentV ELSE ScalarV(Text[x]))
  BY DEF Generated
<1>7. g \in Entry
  <2>1. g.typ \in Value
    <3>1. d.enums /\ Defined(TypeIdOf[a]) => Caption[TypeIdOf[a]] \in Scalar
      BY CaptionAssumption, ScalarAssumption DEF Defined
    <3>2. QED BY <1>5, <3>1, AbsentIsValue DEF Generated
  <2>2. g.tid \in Value /\ g.val \in Value /\ g.i \in Nat
    BY <1>1, <1>2, <1>4, <1>5, <1>6, AbsentIsValue
  <2>3. g = [map |-> g.map, name |-> g.name, a |-> g.a, i |-> g.i,
             tid |-> g.tid, typ |-> g.typ, val |-> g.val]
    BY DEF Generated
  <2>4. g.map \in BOOLEAN /\ g.name \in NameKind /\ g.a \in Attr
    BY <1>2, <1>6 DEF NameKind
  <2> HIDE DEF g
  <2>5. QED BY <2>1, <2>2, <2>3, <2>4 DEF Entry
<1>8. ~ValueWrongType(g)
  BY <1>4, <1>5, <1>6 DEF ValueWrongType, Present, AbsentV
<1>9. Identified(g)
  BY <1>2, <1>5, <1>6, <1>8 DEF Identified
<1>10. x \in Candidates(v, g.i)
  <2>1. CASE g.i = 0
    BY <1>1, <2>1 DEF Candidates, x
  <2>2. CASE g.i # 0
    <3>1. v.k = "array" /\ g.i = n
      BY <1>6, <2>2
    <3>2. QED BY <1>1, <2>2, <3>1 DEF Candidates, x
  <2>3. QED BY <2>1, <2>2
<1>11. Problem(g, at, act) = "none"
  <2> DEFINE found == Candidates(at[g.a], g.i)
  <2>1. x \in found
    BY <1>6, <1>10
  <2>2. g.a \in act /\ (g.i > 0 => g.a \in ArrayAttr)
    BY <1>6
  <2> HIDE DEF found, g
  <2>3. CASE a \in ObjectAttr
    <3>1. g.val.k = "absent" /\ Obj \in found
      BY <1>3, <1>6, <2>1, <2>3 DEF AbsentV
    <3>2. QED BY <1>6, <1>8, <2>2, <3>1 DEF Problem, found
  <2>4. CASE a \notin ObjectAttr
    <3>1. /\ g.val.k = "scalar" /\ x \in found \cap (Str \cup Integral)
          /\ ScalarV(Text[x]) = g.val
      BY <1>4, <1>5, <1>6, <2>1, <2>4
    <3>2. QED BY <1>6, <1>8, <2>2, <3>1 DEF Problem, found
  <2>5. QED BY <2>3, <2>4
<1>12. QED BY <1>6, <1>7, <1>9, <1>11 DEF x

(* What an attribute contributes to the observables: such entries, and an  *)
(* issue for every other element (addArrayValueObservables and its like).  *)
LEMMA HarvestSound ==
    ASSUME NEW d, NEW a \in Attr, NEW v \in Value, NEW at, at[a] = v, NEW act, a \in act
    PROVE  LET h == Harvest(d, a, v)
           IN  /\ h.issues \in Nat /\ h.new \in Seq(Entry)
               /\ \A m \in DOMAIN h.new :
                    /\ Identified(h.new[m]) /\ h.new[m].a = a
                    /\ Problem(h.new[m], at, act) = "none" /\ Present(v)
               /\ ~(d.action = "add" /\ d.obs) => h.new = <<>>
<1> DEFINE h    == Harvest(d, a, v)
           I    == {n \in DOMAIN v.s : Formattable(a, v.s[n])}
           good == Ascending(I)
           news == [m \in DOMAIN good |-> Generated(d, a, good[m], v.s[good[m]])]
           made == d.action = "add" /\ d.obs /\ a \in DOMAIN TypeIdOf /\ Present(v)
<1>1. v.s \in Seq(Scalar) /\ Len(v.s) \in Nat /\ DOMAIN v.s = 1 .. Len(v.s)
  <2>1. v.s \in Seq(Scalar)
    BY DEF Value
  <2>2. QED BY <2>1, LenProperties
<1>2. <<>> \in Seq(Entry) /\ DOMAIN <<>> = {}
  OBVIOUS
<1>3. CASE ~made \/ v.k # (IF a \in ArrayAttr THEN "array" ELSE "scalar")
  <2>1. h.new = <<>> /\ h.issues \in {0, 1}
    BY <1>3 DEF Harvest
  <2>2. QED BY <1>2, <2>1
<1>4. CASE made /\ v.k = (IF a \in ArrayAttr THEN "array" ELSE "scalar")
  <2>1. h.new = news /\ h.issues = Len(v.s) - Len(good)
    BY <1>4 DEF Harvest
  <2>2. /\ Cardinality(I) \in Nat /\ Cardinality(I) <= Len(v.s)
        /\ DOMAIN good = 1 .. Cardinality(I)
        /\ \A n \in 1 .. Cardinality(I) : good[n] \in I
    BY <1>1, AscendingSound
  <2>3. \A m \in DOMAIN good :
          /\ news[m] \in Entry /\ Identified(news[m]) /\ news[m].a = a
          /\ Problem(news[m], at, act) = "none"
    <3> SUFFICES ASSUME NEW m \in DOMAIN good
                 PROVE  /\ news[m] \in Entry /\ Identified(news[m]) /\ news[m].a = a
                        /\ Problem(news[m], at, act) = "none"
      OBVIOUS
    <3>1. good[m] \in DOMAIN v.s /\ Formattable(a, v.s[good[m]])
      BY <2>2
    <3>2. news[m] = Generated(d, a, good[m], v.s[good[m]])
      OBVIOUS
    <3> HIDE DEF good, news
    <3>3. QED BY <1>4, <3>1, <3>2, GeneratedSound
  <2> HIDE DEF I
  <2>4. Len(good) = Cardinality(I)
    BY <2>2 DEF Ascending
  <2> HIDE DEF good
  <2>5. DOMAIN news = 1 .. Cardinality(I)
    BY <2>2
  <2> HIDE DEF news
  <2>6. news \in [1 .. Cardinality(I) -> Entry]
    <3>1. \A m \in 1 .. Cardinality(I) : news[m] \in Entry
      BY <2>2, <2>3
    <3>2. news = [m \in DOMAIN news |-> news[m]]
      BY DEF news
    <3>3. QED BY <2>5, <3>1, <3>2
  <2>7. news \in Seq(Entry)
    BY <2>2, <2>6, SeqDef
  <2>8. h.issues \in Nat
    BY <1>1, <2>1, <2>2, <2>4
  <2>9. QED BY <1>4, <2>1, <2>2, <2>3, <2>5, <2>7, <2>8
<1>5. QED BY <1>3, <1>4
-----------------------------------------------------------------------------
(* The entries and the counters are well formed.                           *)

(* The observables before and after, what was generated and the counters   *)
(* are what they are declared to be; no counter is ever negative.          *)
EventTyped ==
    /\ obs \in ObsValue /\ start.obs \in ObsValue
    /\ gen \in Seq(Entry) /\ genStart \in Int /\ res \in Result

(* An array of entries, and no observables at all.                         *)
LEMMA ObsShapes ==
    /\ NoObs \in ObsValue /\ NoObs.k = "absent" /\ NoObs.s = <<>>
    /\ \A es \in Seq(Entry) : ObsArray(es) \in ObsValue /\ ObsArray(es).k = "array"
                              /\ ObsArray(es).s = es
BY DEF NoObs, ObsArray, ObsValue

(* What safe removal keeps of the entries.                                 *)
Unremovable(s) == {i \in DOMAIN s : ~Removable(s[i], attr, active)}

(* Safe removal: what is kept, and the counters.                           *)
LEMMA RemoveSafelySound ==
    ASSUME EventTyped, RemoveSafely
    PROVE  LET kept == Selected(obs.s, Unremovable(obs.s))
           IN  /\ obs' \in ObsValue /\ res' \in Result
               /\ Entries(obs') = (IF obs.k = "array" THEN kept ELSE <<>>)
               /\ obs'.k \in {"absent", "other"} \/ Len(obs'.s) > 0
               /\ obs.k # "other" =>
                    res'.obsRemoved + res'.obsRetained =
                    res.obsRemoved + res.obsRetained + Len(Entries(obs))
<1> DEFINE kept == Selected(obs.s, Unremovable(obs.s))
<1>1. obs.s \in Seq(Entry) /\ obs.k \in {"absent", "null", "other", "array"}
  BY DEF EventTyped, ObsValue
<1>2. /\ kept \in Seq(Entry) /\ Len(kept) \in Nat /\ Len(kept) <= Len(obs.s)
      /\ Len(obs.s) \in Nat /\ (kept # <<>> => Len(kept) > 0)
  BY <1>1, SelectedSound, LenProperties, EmptySeq DEF Unremovable
<1>3. /\ res \in Result /\ res.obsRemoved \in Nat /\ res.obsRetained \in Nat
  BY DEF EventTyped, Result
<1>4. Len(<<>>) = 0
  OBVIOUS
<1> HIDE DEF kept
<1>5. CASE obs.k = "absent"
  <2>1. obs' = obs /\ res' = res
    BY <1>5 DEF RemoveSafely
  <2>2. QED BY <1>3, <1>4, <1>5, <2>1 DEF Entries, EventTyped
<1>6. CASE obs.k = "null"
  <2>1. obs' = NoObs /\ res' = res
    BY <1>6 DEF RemoveSafely
  <2>2. QED BY <1>3, <1>4, <1>6, <2>1, ObsShapes DEF Entries
<1>7. CASE obs.k = "other"
  <2> DEFINE x == res.obsRetained + 1
             r == [res EXCEPT !.obsRetained = x]
  <2>1. obs' = obs /\ res' = Report(r, 1)
    BY <1>7 DEF RemoveSafely
  <2>2. x \in Nat
    BY <1>3
  <2> HIDE DEF x
  <2>3. r \in Result
    BY <1>3, <2>2 DEF Result
  <2> HIDE DEF r
  <2>4. res' \in Result
    BY <2>1, <2>3, ReportCounts
  <2>5. QED BY <1>7, <2>1, <2>4 DEF Entries, EventTyped
<1>8. CASE obs.k = "array"
  <2> DEFINE x == res.obsRemoved + Len(obs.s) - Len(kept)
             y == res.obsRetained + Len(kept)
             r == [res EXCEPT !.obsRemoved = x, !.obsRetained = y]
  <2>1. /\ obs' = IF kept = <<>> THEN NoObs ELSE ObsArray(kept)
        /\ res' = Report(r, Len(kept))
    BY <1>8 DEF RemoveSafely, kept, Unremovable
  <2>2. /\ x \in Nat /\ y \in Nat
        /\ x + y = res.obsRemoved + res.obsRetained + Len(obs.s)
    <3> DEFINE m == res.obsRemoved
               n == res.obsRetained
               l == Len(obs.s)
               j == Len(kept)
    <3>1. m \in Nat /\ n \in Nat /\ l \in Nat /\ j \in Nat /\ j <= l
      BY <1>2, <1>3
    <3>2. x = m + l - j /\ y = n + j
      BY DEF x, y
    <3> HIDE DEF x, y, m, n, l, j
    <3>3. x \in Nat /\ y \in Nat /\ x + y = m + n + l
      BY <3>1, <3>2
    <3>4. QED BY <3>3 DEF m, n, l
  <2> HIDE DEF x, y
  <2>3. r \in Result /\ r.obsRemoved = x /\ r.obsRetained = y
    BY <1>3, <2>2 DEF Result
  <2> HIDE DEF r
  <2>4. /\ res' \in Result /\ res'.obsRemoved = r.obsRemoved /\ res'.obsRetained = r.obsRetained
    <3>1. Report(r, Len(kept)) \in Result
      BY <1>2, <2>3, ReportCounts
    <3>2. QED BY <2>1, <2>3, <3>1 DEF Report, Result
  <2>5. /\ obs' \in ObsValue /\ Entries(obs') = kept
        /\ obs'.k \in {"absent", "other"} \/ Len(obs'.s) > 0
    BY <1>2, <2>1, ObsShapes DEF Entries
  <2>6. QED BY <1>8, <2>2, <2>3, <2>4, <2>5 DEF Entries, kept
<1>9. QED BY <1>1, <1>5, <1>6, <1>7, <1>8 DEF kept

(* Removing observables, forced or not, keeps the types.                   *)
LEMMA RemoveTyped ==
    ASSUME EventTyped, NEW d, RemoveObservables(d)
    PROVE  obs' \in ObsValue /\ res' \in Result
<1>1. CASE RemoveSafely
  BY <1>1, RemoveSafelySound
<1>2. CASE RemoveForced
  <2> DEFINE x == res.obsRemoved + Len(obs.s)
  <2>1. x \in Nat /\ res \in Result
    <3>1. Len(obs.s) \in Nat
      BY LenProperties DEF EventTyped, ObsValue
    <3>2. res \in Result
      BY DEF EventTyped
    <3>3. res.obsRemoved \in Nat
      BY <3>2 DEF Result
    <3>4. QED BY <3>1, <3>2, <3>3
  <2>2. obs' = NoObs /\ (res' = [res EXCEPT !.obsRemoved = x] \/ res' = res)
    BY <1>2 DEF RemoveForced
  <2> HIDE DEF x
  <2>3. QED BY <2>1, <2>2, ObsShapes DEF Result
<1>3. CASE UNCHANGED <<obs, res>>
  BY <1>3 DEF EventTyped
<1>4. QED BY <1>1, <1>2, <1>3 DEF RemoveObservables

(* What generation makes of the entries and of the counters.               *)
LEMMA AddSound ==
    ASSUME EventTyped, AddObservables
    PROVE  LET old   == Entries(obs)
               fresh == Deduplicated(old, gen)
           IN  /\ obs' \in ObsValue /\ res' \in Result /\ genStart' \in Int
               /\ fresh \in Seq(Entry) /\ Len(fresh) \in Nat
               /\ obs.k = "other" => UNCHANGED <<obs, genStart>> /\ res'.obsAdded = res.obsAdded
               /\ obs.k # "other" =>
                    /\ obs'.s = old \o fresh /\ Entries(obs') = old \o fresh
                    /\ res'.obsAdded = res.obsAdded + Len(fresh)
                    /\ \/ genStart' = genStart /\ (fresh = <<>> \/ old = <<>>)
                       \/ genStart' = Len(old)
<1> DEFINE old   == Entries(obs)
           fresh == Deduplicated(old, gen)
           I     == {i \in DOMAIN gen :
                       ~\E x \in Range(old) \cup {gen[j] : j \in 1 .. i - 1} :
                           Identified(x) /\ Identity(x) = Identity(gen[i])}
<1>1. /\ old \in Seq(Entry) /\ gen \in Seq(Entry) /\ Len(gen) \in Nat /\ Len(old) \in Nat
      /\ res \in Result /\ genStart \in Int /\ res.obsAdded \in Nat
  <2>1. old \in Seq(Entry) /\ gen \in Seq(Entry)
    BY EmptySeq DEF EventTyped, ObsValue, Entries
  <2>2. QED BY <2>1, LenProperties DEF EventTyped, Result
<1>2. fresh \in Seq(Entry) /\ Len(fresh) \in Nat /\ Len(fresh) <= Len(gen)
  <2>1. fresh = Selected(gen, I)
    BY DEF Deduplicated
  <2> HIDE DEF I
  <2>2. I \in SUBSET DOMAIN gen
    BY DEF I
  <2>3. QED BY <1>1, <2>1, <2>2, SelectedSound
<1> HIDE DEF fresh, I
<1>3. old \o fresh \in Seq(Entry)
  BY <1>1, <1>2, ConcatProperties
<1>4. CASE obs.k = "other"
  <2>1. UNCHANGED <<obs, genStart>> /\ (res' = res \/ res' = Report(res, 1))
    BY <1>4 DEF AddObservables
  <2>2. Report(res, 1) \in Result /\ Report(res, 1).obsAdded = res.obsAdded
    BY <1>1, ReportCounts DEF Report, Result
  <2>3. QED BY <1>1, <1>2, <1>4, <2>1, <2>2 DEF EventTyped, fresh
<1>5. CASE obs.k # "other"
  <2> DEFINE x == res.obsAdded + Len(fresh)
             r == [res EXCEPT !.obsAdded = x]
             n == Len(gen) - Len(fresh)
  <2>1. /\ obs' = IF old \o fresh = <<>> THEN NoObs ELSE ObsArray(old \o fresh)
        /\ res' = Report(r, n)
        /\ genStart' = IF fresh = <<>> \/ (old = <<>> /\ Len(gen) > 1)
                       THEN genStart ELSE Len(old)
    BY <1>5 DEF AddObservables, Entries, fresh
  <2>2. x \in Nat /\ n \in Nat
    BY <1>1, <1>2
  <2> HIDE DEF x, n, old
  <2>3. r \in Result /\ r.obsAdded = x
    BY <1>1, <2>2 DEF Result
  <2> HIDE DEF r
  <2>4. res' \in Result /\ res'.obsAdded = x
    <3>1. Report(r, n) \in Result /\ Report(r, n).obsAdded = r.obsAdded
      BY <2>2, <2>3, ReportCounts DEF Report, Result
    <3>2. QED BY <2>1, <2>3, <3>1
  <2>5. obs' \in ObsValue /\ obs'.s = old \o fresh /\ Entries(obs') = old \o fresh
    BY <1>3, <2>1, ObsShapes DEF Entries
  <2>6. /\ genStart' \in Int
        /\ \/ genStart' = genStart /\ (fresh = <<>> \/ old = <<>>)
           \/ genStart' = Len(old)
    BY <1>1, <2>1
  <2>7. res'.obsAdded = res.obsAdded + Len(fresh)
    BY <2>4 DEF x
  <2>8. QED BY <1>2, <1>5, <2>4, <2>5, <2>6, <2>7 DEF old, fresh
<1>6. QED BY <1>4, <1>5

(* The dispatcher that adds observables is there only where they are asked *)
(* for, and what it does to observables is what the configuration says.    *)
LEMMA AddsObservables ==
    ASSUME NEW c \in Config, NEW t \in 1 .. Len(Pipeline(c)), Pipeline(c)[t].obs
    PROVE  /\ Pipeline(c)[t].action = c.obs /\ c.obs # "none"
           /\ t = Len(Pipeline(c))
           /\ Pipeline(c)[t].defer = (c.obs \in {"remove", "force"} /\ c.enum # "none")
<1> DEFINE Good(d) == d.obs => /\ d.action = c.obs
                              /\ d.defer = (c.obs \in {"remove", "force"} /\ c.enum # "none")
<1>1. /\ Enums(c).obs = FALSE
      /\ c.obs = c.enum /\ c.enum # "none" => Good(Both(c))
      /\ Good(Obsv(c))
  BY DEF Dispatcher, Both, Enums, Obsv
<1> HIDE DEF Good
<1>2. \A x, y :
        /\ \A i \in 1 .. Len(<<x>>) : <<x>>[i] = x /\ i = Len(<<x>>)
        /\ \A i \in 1 .. Len(<<x, y>>) : (i = 1 /\ <<x, y>>[i] = x)
                                         \/ (<<x, y>>[i] = y /\ i = Len(<<x, y>>))
        /\ ~\E i \in 1 .. Len(<<>>) : TRUE
  OBVIOUS
<1>3. Good(Pipeline(c)[t]) /\ c.obs # "none" /\ t = Len(Pipeline(c))
  <2>1. CASE Pipeline(c) = <<Enums(c), Obsv(c)>>
    BY <1>1, <1>2, <2>1, PipelineShape
  <2>2. CASE Pipeline(c) # <<Enums(c), Obsv(c)>>
    BY <1>1, <1>2, <2>2, PipelineShape
  <2>3. QED BY <2>1, <2>2
<1>4. QED BY <1>3 DEF Good

(* What one visit of the walk makes of the event: one sibling at most is    *)
(* written, and everything that is generated can be rebuilt from the event *)
(* as the visit leaves it.                                                 *)
LEMMA VisitSound ==
    ASSUME TypeOK, EventTyped, VisitPair \/ VisitOrdinary
    PROVE  /\ res' \in Result
           /\ \E new \in Seq(Entry) :
                /\ gen' = gen \o new
                /\ new # <<>> => cfg.obs = "add"
                /\ \A m \in DOMAIN new :
                     /\ Identified(new[m]) /\ new[m].a \in Attr
                     /\ Problem(new[m], attr', active) = "none" /\ Present(attr'[new[m].a])
                     /\ new[m].a = (IF VisitPair THEN Sibling[Here] ELSE Here)
<1> DEFINE d == Pipe[turn]
<1> cfg \in Config
  BY InputAssumption DEF TypeOK
<1>1. turn \in 1 .. Len(Pipe)
  BY TurnAdvances DEF VisitPair, VisitOrdinary
<1>2. res \in Result /\ gen \in Seq(Entry)
  BY DEF EventTyped
<1>3. d.action = "add" /\ d.obs => cfg.obs = "add"
  BY <1>1, AddsObservables DEF Pipe
<1>4. CASE VisitPair
  <2> DEFINE sib == Sibling[Here]
             o   == PairWork(d, Here \in ArrayAttr, attr[Here], attr[sib])
             h   == Harvest(d, sib, o.sib)
  <2>1. PairOwner(Here) /\ Here \in Attr /\ sib \in Attr /\ sib \in active
    BY <1>4, OwnerIsEnum DEF VisitPair, PairOwner
  <2>2. attr[Here] \in Value /\ attr[sib] \in Value /\ (Here \in ArrayAttr) \in BOOLEAN
    BY <2>1 DEF TypeOK
  <2>3. o.sib \in Value /\ o.added \in Nat /\ o.removed \in Nat /\ o.retained \in Nat /\ o.issues \in Nat
    BY <1>1, <2>2, PairWorkIsValue, PairWorkCounts DEF Pipe
  <2>4. attr' = [attr EXCEPT ![sib] = o.sib] /\ gen' = gen \o h.new
        /\ res' = Report(Charge(res, o), h.issues)
    BY <1>4 DEF VisitPair
  <2> HIDE DEF o, d
  <2>5. attr'[sib] = o.sib
    BY <2>1, <2>4 DEF TypeOK
  <2> HIDE DEF sib
  <2>6. /\ h.issues \in Nat /\ h.new \in Seq(Entry)
        /\ \A m \in DOMAIN h.new :
             /\ Identified(h.new[m]) /\ h.new[m].a = sib
             /\ Problem(h.new[m], attr', active) = "none" /\ Present(o.sib)
        /\ ~(d.action = "add" /\ d.obs) => h.new = <<>>
    BY <2>1, <2>3, <2>5, HarvestSound
  <2> HIDE DEF h
  <2>7. res' \in Result
    BY <1>2, <2>3, <2>4, <2>6, ChargeCounts, ReportCounts
  <2>8. QED BY <1>3, <1>4, <2>1, <2>4, <2>5, <2>6, <2>7 DEF sib
<1>5. CASE VisitOrdinary
  <2> DEFINE o == UnlinkedWork(d, attr[Here], attr[Sibling[Here]])
             h == Harvest(d, Here, attr[Here])
  <2>1. Here \in Attr /\ Here \in active /\ ~PairOwner(Here) /\ ~VisitPair
    BY <1>5, OrderIsList DEF VisitOrdinary, VisitPair, AtAttr, Skipped, Here, TypeOK
  <2>2. gen' = gen \o h.new
    BY <1>5 DEF VisitOrdinary
  <2>3. attr[Here] \in Value
    BY <2>1 DEF TypeOK
  <2>4. o.added \in Nat /\ o.removed \in Nat /\ o.retained \in Nat /\ o.issues \in Nat
    BY <1>1, PairWorkCounts DEF Pipe
  <2>5. attr'[Here] = attr[Here]
    <3>1. CASE Here \in EnumAttr \ Resolved
      <4>1. Sibling[Here] # Here
        BY <3>1, SiblingAssumption
      <4>2. attr' = [attr EXCEPT ![Sibling[Here]] = o.sib]
        BY <1>5, <3>1 DEF VisitOrdinary
      <4>3. QED BY <2>1, <4>1, <4>2 DEF TypeOK
    <3>2. CASE Here \notin EnumAttr \ Resolved
      BY <1>5, <3>2 DEF VisitOrdinary
    <3>3. QED BY <3>1, <3>2
  <2>6. res' = Report(Charge(res, o), h.issues) \/ res' = Report(res, h.issues)
    BY <1>5 DEF VisitOrdinary
  <2> HIDE DEF o, d
  <2>7. /\ h.issues \in Nat /\ h.new \in Seq(Entry)
        /\ \A m \in DOMAIN h.new :
             /\ Identified(h.new[m]) /\ h.new[m].a = Here
             /\ Problem(h.new[m], attr', active) = "none" /\ Present(attr[Here])
        /\ ~(d.action = "add" /\ d.obs) => h.new = <<>>
    BY <2>1, <2>3, <2>5, HarvestSound
  <2> HIDE DEF h
  <2>8. res' \in Result
    BY <1>2, <2>4, <2>6, <2>7, ChargeCounts, ReportCounts
  <2>9. QED BY <1>3, <2>1, <2>2, <2>5, <2>7, <2>8
<1>6. QED BY <1>4, <1>5

(* What a visit makes of one entry: its caption apart it stays as it is.   *)
LEMMA EntryVisited ==
    ASSUME TypeOK, EventTyped, VisitEntry
    PROVE  /\ obs' \in ObsValue /\ res' \in Result
           /\ cfg.enum = "none" => obs' = obs
           /\ UNCHANGED <<attr, gen>>
<1> DEFINE d == Pipe[turn]
           e == obs.s[ent]
           o == PairWork(d, FALSE, e.tid, e.typ)
<1> cfg \in Config
  BY InputAssumption DEF TypeOK
<1>1. turn \in 1 .. Len(Pipe) /\ UNCHANGED <<attr, gen>>
  BY TurnAdvances DEF VisitEntry
<1>2. res \in Result /\ obs \in ObsValue /\ obs.s \in Seq(Entry)
  BY DEF EventTyped, ObsValue
<1>3. e \in Entry /\ ent \in DOMAIN obs.s
  <2>1. ent \in 1 .. Len(obs.s)
    BY <1>2, LenProperties DEF VisitEntry, AtEntry, TypeOK
  <2>2. QED BY <1>2, <2>1, ElementOfSeq, LenProperties
<1>4. o.sib \in Value /\ o.added \in Nat /\ o.removed \in Nat /\ o.retained \in Nat /\ o.issues \in Nat
  <2>1. e.tid \in Value /\ e.typ \in Value
    BY <1>3 DEF Entry
  <2>2. QED BY <1>1, <2>1, PairWorkIsValue, PairWorkCounts DEF Pipe
<1>5. CASE d.enums /\ e.map
  <2>1. obs' = [obs EXCEPT !.s[ent].typ = o.sib] /\ res' = Charge(res, o)
    BY <1>5 DEF VisitEntry
  <2>2. cfg.enum # "none"
    BY <1>1, <1>5, NoEnumWork DEF Pipe
  <2> HIDE DEF o, d
  <2>3. res' \in Result
    BY <1>2, <1>4, <2>1, ChargeCounts
  <2>4. obs' \in ObsValue
    <3> DEFINE f == [e EXCEPT !.typ = o.sib]
               t == [obs.s EXCEPT ![ent] = f]
    <3>1. f \in Entry
      BY <1>3, <1>4 DEF Entry
    <3>2. obs' = [obs EXCEPT !.s = t]
      BY <1>2, <2>1 DEF ObsValue
    <3> HIDE DEF f, e
    <3>3. t \in Seq(Entry)
      BY <1>2, <1>3, <3>1, ExceptSeq
    <3> HIDE DEF t
    <3>4. QED BY <1>2, <3>2, <3>3 DEF ObsValue
  <2>5. QED BY <1>1, <2>2, <2>3, <2>4
<1>6. CASE ~(d.enums /\ e.map)
  BY <1>1, <1>2, <1>6 DEF VisitEntry
<1>7. QED BY <1>5, <1>6

(* No step leaves an entry or a counter that is none.                      *)
THEOREM EventStaysTyped == Spec => []EventTyped
<1>1. Init => EventTyped
  <2> SUFFICES ASSUME Init PROVE EventTyped
    OBVIOUS
  <2>1. PICK e \in SeedEvents : obs = e.obs
    BY DEF Init
  <2>2. obs \in ObsValue /\ start.obs = obs
    BY <2>1, InputAssumption DEF Init
  <2>3. gen \in Seq(Entry) /\ genStart \in Int /\ res \in Result
    BY DEF Init, NoResult, Result
  <2>4. QED BY <2>2, <2>3 DEF EventTyped
<1>2. TypeOK /\ EventTyped /\ [Next]_vars => EventTyped'
  <2> SUFFICES ASSUME TypeOK, EventTyped, [Next]_vars PROVE EventTyped'
    OBVIOUS
  <2>1. ASSUME NEW c \in Configs, Call(c) PROVE EventTyped'
    <3>1. res' \in Result
      BY <2>1 DEF Call, NoResult, Result
    <3>2. gen' \in Seq(Entry) /\ genStart' \in Int
      BY <2>1, EmptySeq DEF Call
    <3>3. QED BY <2>1, <3>1, <3>2 DEF Call, EventTyped
  <2>2. CASE OnClass \/ OnClassDone
    BY <2>2, RemoveTyped DEF OnClass, OnClassDone, EventTyped, history
  <2>3. CASE OnEventDone
    BY <2>3, AddSound DEF OnEventDone, EventTyped, history
  <2>4. CASE VisitPair \/ VisitOrdinary
    <3>1. gen' \in Seq(Entry)
      BY <2>4, VisitSound, ConcatProperties DEF EventTyped
    <3>2. QED BY <2>4, <3>1, VisitSound DEF VisitPair, VisitOrdinary, EventTyped, history
  <2>5. CASE VisitEntry
    BY <2>5, EntryVisited DEF VisitEntry, EventTyped, history
  <2>6. CASE ClassVisited \/ WalkEnds \/ ClassDone
    BY <2>6 DEF ClassVisited, WalkEnds, ClassDone, EndPart, EventTyped, history
  <2>7. CASE SkipAttribute \/ ValidateAttribute \/ ValidateEntry \/ LeaveObservables \/ EventDone
    BY <2>7 DEF SkipAttribute, ValidateAttribute, ValidateEntry, LeaveObservables, EventDone,
                EventTyped, history
  <2>8. CASE UNCHANGED vars
    BY <2>8 DEF vars, EventTyped
  <2>9. QED
    BY <2>1, <2>2, <2>3, <2>4, <2>5, <2>6, <2>7, <2>8 DEF Next, Process
<1>3. QED BY <1>1, <1>2, TypeCorrect, PTL DEF Spec
-----------------------------------------------------------------------------
(* Safe removal.                                                           *)

(* A caption is nothing analysis looks at.                                 *)
LEMMA BareSameProblem ==
    ASSUME NEW x \in Entry, NEW y \in Entry, Bare(x) = Bare(y), NEW at, NEW act
    PROVE  Problem(x, at, act) = Problem(y, at, act)
<1>1. /\ x.map = y.map /\ x.name = y.name /\ x.a = y.a /\ x.i = y.i
      /\ x.tid = y.tid /\ x.val = y.val
  BY DEF Bare, Entry
<1>2. QED BY <1>1 DEF Problem, ValueWrongType

(* Observables that differ in captions alone have the same entries, so.    *)
LEMMA BareSameEntries ==
    ASSUME NEW o \in ObsValue, NEW p \in ObsValue, BareObs(o) = BareObs(p)
    PROVE  /\ o.k = p.k /\ Entries(o) \in Seq(Entry) /\ Entries(p) \in Seq(Entry)
           /\ BareSeq(o.s) = BareSeq(p.s) /\ BareSeq(Entries(o)) = BareSeq(Entries(p))
<1>1. o.k = p.k /\ BareSeq(o.s) = BareSeq(p.s)
  BY DEF BareObs, ObsValue
<1>2. QED BY <1>1, EmptySeq DEF Entries, ObsValue

(* They have as many of them, each the same but for its caption.           *)
LEMMA BareSameSeq ==
    ASSUME NEW s \in Seq(Entry), NEW t \in Seq(Entry), BareSeq(s) = BareSeq(t)
    PROVE  /\ Len(s) = Len(t) /\ DOMAIN s = DOMAIN t
           /\ \A i \in DOMAIN s : Bare(s[i]) = Bare(t[i])
<1>1. DOMAIN s = DOMAIN t /\ \A i \in DOMAIN s : Bare(s[i]) = Bare(t[i])
  BY DEF BareSeq
<1>2. QED BY <1>1, LenProperties

(* The same positions then hold the same selection.                        *)
LEMMA BareSameSelection ==
    ASSUME NEW s \in Seq(Entry), NEW t \in Seq(Entry), BareSeq(s) = BareSeq(t),
           NEW I \in SUBSET DOMAIN s
    PROVE  BareSeq(Selected(s, I)) = BareSeq(Selected(t, I))
<1>1. DOMAIN s = DOMAIN t /\ \A i \in DOMAIN s : Bare(s[i]) = Bare(t[i])
  BY BareSameSeq
<1>2. /\ DOMAIN Selected(s, I) = 1 .. Cardinality(I) /\ DOMAIN Selected(t, I) = 1 .. Cardinality(I)
      /\ \A n \in 1 .. Cardinality(I) :
           /\ Ascending(I)[n] \in DOMAIN s
           /\ Selected(s, I)[n] = s[Ascending(I)[n]] /\ Selected(t, I)[n] = t[Ascending(I)[n]]
  BY <1>1, SelectedSound
<1>3. QED BY <1>1, <1>2 DEF BareSeq

(* Where observables are asked for, the last dispatcher does them.         *)
LEMMA LastDoesObservables ==
    ASSUME NEW c \in Config, c.obs # "none"
    PROVE  /\ Len(Pipeline(c)) \in Nat \ {0} /\ Pipeline(c)[Len(Pipeline(c))].obs
           /\ c.enum = "none" => Len(Pipeline(c)) = 1
<1>1. Both(c).obs /\ Obsv(c).obs
  BY DEF Dispatcher, Both, Obsv
<1>2. \A x, y : /\ Len(<<x>>) = 1 /\ <<x>>[1] = x /\ Len(<<x, y>>) = 2 /\ <<x, y>>[2] = y
  OBVIOUS
<1>3. CASE Pipeline(c) = <<Both(c)>>
  BY <1>1, <1>2, <1>3
<1>4. CASE Pipeline(c) = <<Obsv(c)>>
  BY <1>1, <1>2, <1>4
<1>5. CASE Pipeline(c) = <<Enums(c), Obsv(c)>> /\ c.enum # "none"
  BY <1>1, <1>2, <1>5
<1>6. Pipeline(c) # <<>>
  BY DEF Pipeline
<1>7. QED BY <1>3, <1>4, <1>5, <1>6, PipelineShape

(* Visits leave the counters of observables alone, and without enum work   *)
(* everything else but what they generate.                                 *)
LEMMA VisitsLeave ==
    ASSUME TypeOK, EventTyped, VisitPair \/ VisitOrdinary \/ VisitEntry
    PROVE  /\ res'.obsAdded = res.obsAdded /\ res'.obsRemoved = res.obsRemoved
           /\ res'.obsRetained = res.obsRetained
           /\ cfg.enum = "none" => attr' = attr /\ obs' = obs
           /\ BareObs(obs') = BareObs(obs)
<1> cfg \in Config
  BY InputAssumption DEF TypeOK
<1>1. \A r \in Result : \A n :
        /\ Report(r, n).obsAdded = r.obsAdded /\ Report(r, n).obsRemoved = r.obsRemoved
        /\ Report(r, n).obsRetained = r.obsRetained
  BY DEF Report, Result
<1>2. \A r \in Result : \A o :
        /\ Charge(r, o).obsAdded = r.obsAdded /\ Charge(r, o).obsRemoved = r.obsRemoved
        /\ Charge(r, o).obsRetained = r.obsRetained
  BY DEF Charge, Report, Result
<1>3. res \in Result /\ turn \in 1 .. Len(Pipe)
  BY TurnAdvances DEF EventTyped, VisitPair, VisitOrdinary, VisitEntry
<1>4. cfg.enum = "none" => ~Pipe[turn].enums
  BY <1>3, NoEnumWork DEF Pipe
<1>5. CASE VisitPair
  <2> DEFINE sib == Sibling[Here]
             o   == PairWork(Pipe[turn], Here \in ArrayAttr, attr[Here], attr[sib])
             h   == Harvest(Pipe[turn], sib, o.sib)
  <2>1. /\ attr' = [attr EXCEPT ![sib] = o.sib] /\ obs' = obs
        /\ res' = Report(Charge(res, o), h.issues)
    BY <1>5 DEF VisitPair
  <2>2. o.added \in Nat /\ o.removed \in Nat /\ o.retained \in Nat /\ o.issues \in Nat
    BY <1>3, PairWorkCounts DEF Pipe
  <2>3. cfg.enum = "none" => o.sib = attr[sib]
    BY <1>4 DEF PairWork, Untouched, Outcome
  <2> HIDE DEF o, h
  <2>4. Charge(res, o) \in Result
    BY <1>3, <2>2, ChargeCounts
  <2>5. cfg.enum = "none" => attr' = attr
    BY <2>1, <2>3 DEF TypeOK
  <2>6. QED BY <1>1, <1>2, <1>3, <2>1, <2>4, <2>5
<1>6. CASE VisitOrdinary
  <2> DEFINE o == UnlinkedWork(Pipe[turn], attr[Here], attr[Sibling[Here]])
             h == Harvest(Pipe[turn], Here, attr[Here])
  <2>1. /\ obs' = obs
        /\ \/ attr' = [attr EXCEPT ![Sibling[Here]] = o.sib] /\ res' = Report(Charge(res, o), h.issues)
           \/ attr' = attr /\ res' = Report(res, h.issues)
    BY <1>6 DEF VisitOrdinary
  <2>2. o.added \in Nat /\ o.removed \in Nat /\ o.retained \in Nat /\ o.issues \in Nat
    BY <1>3, PairWorkCounts DEF Pipe
  <2>3. cfg.enum = "none" => o.sib = attr[Sibling[Here]]
    BY <1>4 DEF UnlinkedWork, Untouched, Outcome
  <2> HIDE DEF o, h
  <2>4. Charge(res, o) \in Result
    BY <1>3, <2>2, ChargeCounts
  <2>5. cfg.enum = "none" => attr' = attr
    BY <2>1, <2>3 DEF TypeOK
  <2>6. QED BY <1>1, <1>2, <1>3, <2>1, <2>4, <2>5
<1>7. CASE VisitEntry
  <2> DEFINE o == PairWork(Pipe[turn], FALSE, obs.s[ent].tid, obs.s[ent].typ)
  <2>1. \/ obs' = [obs EXCEPT !.s[ent].typ = o.sib] /\ res' = Charge(res, o)
        \/ obs' = obs /\ res' = res
    BY <1>7 DEF VisitEntry
  <2> HIDE DEF o
  <2>2. BareObs(obs') = BareObs(obs)
    BY <2>1, CaptionIsBare
  <2>3. QED BY <1>2, <1>3, <1>7, <2>1, <2>2, EntryVisited
<1>8. QED BY <1>5, <1>6, <1>7

(* The removal of observables that the configuration asks for has had its   *)
(* turn: at once, or after the walk where enum work comes first.           *)
RemovalOver ==
    \/ phase \in {"eventDone", "ready"}
    \/ turn > Len(Pipe) /\ phase = "classDone"
    \/ cfg.enum = "none" /\ (phase \in {"walk", "classDone"} \/ turn > Len(Pipe))

(* What was removed is what the event as it is can rebuild.                *)
SafelyRemoved ==
    LET old  == Entries(start.obs)
        kept == Selected(old, Unremovable(old))
    IN  /\ BareSeq(Entries(obs)) = BareSeq(kept)
        /\ obs.k \in {"absent", "other"} \/ Len(obs.s) > 0
        /\ start.obs.k # "other" => res.obsRemoved + res.obsRetained = Len(old)

(* Until removal has had its turn nothing is removed; afterwards the event *)
(* is not changed in a way that would have changed the choice.             *)
RemovalSoFar ==
    calls > 0 /\ Resolvable /\ cfg.obs = "remove" =>
      IF RemovalOver THEN SafelyRemoved
      ELSE BareObs(obs) = BareObs(start.obs) /\ res.obsRemoved = 0 /\ res.obsRetained = 0

(* A step on one side of the removal that disturbs neither the entries nor *)
(* the choice among them.                                                  *)
LEMMA RemovalKept ==
    ASSUME RemovalSoFar, UNCHANGED <<cfg, cls, active, calls, start>>,
           RemovalOver' <=> RemovalOver, BareObs(obs') = BareObs(obs),
           res'.obsRemoved = res.obsRemoved, res'.obsRetained = res.obsRetained,
           RemovalOver => attr' = attr /\ obs' = obs
    PROVE  RemovalSoFar'
<1> SUFFICES ASSUME calls > 0, Resolvable, cfg.obs = "remove" PROVE RemovalSoFar'
  BY DEF RemovalSoFar, Resolvable
<1>1. CASE RemovalOver
  <2>1. SafelyRemoved
    BY <1>1 DEF RemovalSoFar
  <2>2. SafelyRemoved'
    BY <1>1, <2>1 DEF SafelyRemoved, Unremovable
  <2>3. QED BY <1>1, <2>2 DEF RemovalSoFar
<1>2. CASE ~RemovalOver
  BY <1>2 DEF RemovalSoFar, BareObs, BareSeq, Bare
<1>3. QED BY <1>1, <1>2

(* Removal in its turn takes what it should.                               *)
LEMMA RemovalDone ==
    ASSUME EventTyped, RemoveSafely, UNCHANGED <<attr, active, start>>,
           BareObs(obs) = BareObs(start.obs), res.obsRemoved = 0, res.obsRetained = 0
    PROVE  SafelyRemoved'
<1> DEFINE now  == Entries(obs)
           old  == Entries(start.obs)
<1>1. /\ obs \in ObsValue /\ start.obs \in ObsValue /\ obs.k = start.obs.k
      /\ now \in Seq(Entry) /\ old \in Seq(Entry) /\ BareSeq(now) = BareSeq(old)
  BY BareSameEntries DEF EventTyped
<1>2. Len(now) = Len(old) /\ DOMAIN now = DOMAIN old
      /\ \A i \in DOMAIN now : Bare(now[i]) = Bare(old[i]) /\ now[i] \in Entry /\ old[i] \in Entry
  BY <1>1, BareSameSeq, ElementOfSeq, LenProperties
<1>3. Unremovable(now) = Unremovable(old)
  <2>1. \A i \in DOMAIN now : Problem(now[i], attr, active) = Problem(old[i], attr, active)
    BY <1>2, BareSameProblem
  <2>2. QED BY <1>2, <2>1 DEF Unremovable, Removable
<1>4. Entries(obs') = Selected(now, Unremovable(now))
  <2>1. CASE obs.k = "array"
    BY <2>1, RemoveSafelySound DEF Entries
  <2>2. CASE obs.k # "array"
    <3>1. now = <<>>
      BY <2>2 DEF Entries
    <3>2. Selected(now, Unremovable(now)) = <<>>
      <4>1. Unremovable(now) = {}
        BY <3>1 DEF Unremovable
      <4>2. Len(Selected(now, Unremovable(now))) = 0 /\ Selected(now, Unremovable(now)) \in Seq(Entry)
        BY <1>1, <4>1, SelectedSound, FS_EmptySet
      <4>3. QED BY <4>2, EmptySeq
    <3>3. QED BY <2>2, <3>2, RemoveSafelySound
  <2>3. QED BY <2>1, <2>2
<1>5. BareSeq(Entries(obs')) = BareSeq(Selected(old, Unremovable(old)))
  <2>1. Unremovable(now) \in SUBSET DOMAIN now
    BY DEF Unremovable
  <2> HIDE DEF now, old
  <2>2. QED BY <1>1, <1>3, <1>4, <2>1, BareSameSelection
<1>6. /\ obs'.k \in {"absent", "other"} \/ Len(obs'.s) > 0
      /\ obs.k # "other" => res'.obsRemoved + res'.obsRetained = Len(now)
  <2>1. Len(now) \in Nat
    BY <1>1, LenProperties
  <2>2. QED BY <2>1, RemoveSafelySound
<1>7. QED BY <1>1, <1>2, <1>5, <1>6 DEF SafelyRemoved, Unremovable

(* Removal of observables has its turn once; a step that is not this turn  *)
(* leaves the entries alone, captions apart, and after it even those.      *)
LEMMA RemovalTurn ==
    ASSUME TypeOK, EventTyped, Process, cfg.obs \in {"remove", "force"}
    PROVE  \/ /\ RemovalOver' <=> RemovalOver
              /\ BareObs(obs') = BareObs(obs)
              /\ res'.obsRemoved = res.obsRemoved /\ res'.obsRetained = res.obsRetained
              /\ RemovalOver => attr' = attr /\ obs' = obs
           \/ /\ ~RemovalOver /\ RemovalOver' /\ attr' = attr
              /\ IF cfg.obs = "remove" THEN RemoveSafely ELSE RemoveForced
<1> DEFINE Same ==
             /\ RemovalOver' <=> RemovalOver
             /\ BareObs(obs') = BareObs(obs)
             /\ res'.obsRemoved = res.obsRemoved /\ res'.obsRetained = res.obsRetained
             /\ RemovalOver => attr' = attr /\ obs' = obs
           Taken ==
             /\ ~RemovalOver /\ RemovalOver' /\ attr' = attr
             /\ IF cfg.obs = "remove" THEN RemoveSafely ELSE RemoveForced
<1> SUFFICES Same \/ Taken
  OBVIOUS
<1> cfg \in Config
  BY InputAssumption DEF TypeOK
<1>1. cfg' = cfg /\ Len(Pipe') = Len(Pipe)
  BY ProcessKeeps DEF Pipe
<1>2. /\ Len(Pipe) \in Nat \ {0} /\ Pipe[Len(Pipe)].obs
      /\ cfg.enum = "none" => Len(Pipe) = 1
  BY LastDoesObservables DEF Pipe
<1>3. \A t \in 1 .. Len(Pipe) :
         Pipe[t].obs => /\ t = Len(Pipe) /\ Pipe[t].action = cfg.obs
                        /\ Pipe[t].defer = (cfg.enum # "none")
  BY AddsObservables DEF Pipe
<1>4. \A t \in 1 .. Len(Pipe) : t = Len(Pipe) \/ t + 1 \in 1 .. Len(Pipe)
  BY <1>2
<1>5. CASE OnClass
  <2>1. /\ turn \in 1 .. Len(Pipe) /\ turn' = turn + 1 /\ phase = "class" /\ phase' = "class"
        /\ UNCHANGED attr /\ ~RemovalOver
    BY <1>2, <1>5, TurnAdvances DEF OnClass, RemovalOver
  <2>2. CASE Pipe[turn].obs /\ cfg.enum = "none"
    <3>1. IF cfg.obs = "remove" THEN RemoveSafely ELSE RemoveForced
      BY <1>3, <1>5, <2>1, <2>2 DEF OnClass, RemoveObservables
    <3>2. RemovalOver'
      BY <1>1, <1>3, <2>1, <2>2 DEF RemovalOver
    <3>3. QED BY <2>1, <3>1, <3>2
  <2>3. CASE ~(Pipe[turn].obs /\ cfg.enum = "none")
    <3>1. cfg.enum # "none"
      BY <1>2, <2>1, <2>3
    <3>2. UNCHANGED <<obs, res>>
      BY <1>3, <1>5, <2>1, <3>1 DEF OnClass, RemoveObservables
    <3>3. ~RemovalOver'
      BY <1>1, <2>1, <3>1 DEF RemovalOver
    <3>4. QED BY <2>1, <3>2, <3>3
  <2>4. QED BY <2>2, <2>3
<1>6. CASE OnClassDone
  <2>1. /\ turn \in 1 .. Len(Pipe) /\ turn' = turn + 1 /\ phase = "classDone" /\ phase' = "classDone"
        /\ UNCHANGED attr
    BY <1>6, TurnAdvances DEF OnClassDone
  <2>2. CASE cfg.enum = "none"
    <3>1. UNCHANGED <<obs, res>>
      BY <1>3, <1>6, <2>1, <2>2 DEF OnClassDone, RemoveObservables
    <3>2. RemovalOver /\ RemovalOver'
      BY <1>1, <2>1, <2>2 DEF RemovalOver
    <3>3. QED BY <2>1, <3>1, <3>2
  <2>3. CASE cfg.enum # "none" /\ turn = Len(Pipe)
    <3>1. IF cfg.obs = "remove" THEN RemoveSafely ELSE RemoveForced
      BY <1>2, <1>3, <1>6, <2>1, <2>3 DEF OnClassDone, RemoveObservables
    <3>2. ~RemovalOver /\ RemovalOver'
      BY <1>1, <1>2, <2>1, <2>3 DEF RemovalOver
    <3>3. QED BY <2>1, <3>1, <3>2
  <2>4. CASE cfg.enum # "none" /\ turn # Len(Pipe)
    <3>1. UNCHANGED <<obs, res>>
      BY <1>3, <1>6, <2>1, <2>4 DEF OnClassDone, RemoveObservables
    <3>2. ~RemovalOver /\ ~RemovalOver'
      BY <1>1, <1>2, <2>1, <2>4 DEF RemovalOver
    <3>3. QED BY <3>1, <3>2
  <2>5. QED BY <2>2, <2>3, <2>4
<1>7. CASE OnEventDone
  <2>1. /\ turn \in 1 .. Len(Pipe) /\ phase = "eventDone" /\ phase' = "eventDone" /\ UNCHANGED attr
    BY <1>7, TurnAdvances DEF OnEventDone
  <2>2. UNCHANGED <<obs, res>>
    BY <1>3, <1>7, <2>1 DEF OnEventDone
  <2>3. QED BY <2>1, <2>2 DEF RemovalOver
<1>8. CASE VisitPair \/ VisitOrdinary \/ VisitEntry
  <2>1. /\ phase = "walk" /\ phase' = "walk" /\ turn \in 1 .. Len(Pipe) /\ turn' = turn + 1
    BY <1>8, TurnAdvances DEF VisitPair, VisitOrdinary, VisitEntry, AtAttr, AtEntry, AtObs
  <2>2. RemovalOver' <=> RemovalOver
    BY <1>1, <1>2, <2>1 DEF RemovalOver
  <2>3. RemovalOver => cfg.enum = "none"
    BY <2>1 DEF RemovalOver
  <2>4. QED BY <1>8, <2>2, <2>3, VisitsLeave
<1>9. CASE ClassVisited \/ WalkEnds \/ ClassDone
  <2>1. UNCHANGED <<attr, obs, res>> /\ turn' = 1
    BY <1>9 DEF ClassVisited, WalkEnds, ClassDone, EndPart
  <2>2. RemovalOver' <=> RemovalOver
    <3>1. CASE ClassVisited
      BY <1>1, <1>2, <3>1 DEF ClassVisited, EndPart, Past, RequiresEventWalk, RemovalOver
    <3>2. CASE WalkEnds
      BY <1>1, <1>2, <3>2 DEF WalkEnds, EndPart, RemovalOver
    <3>3. CASE ClassDone
      BY <1>1, <1>2, <3>3 DEF ClassDone, EndPart, Past, RemovalOver
    <3>4. QED BY <1>9, <3>1, <3>2, <3>3
  <2>3. QED BY <2>1, <2>2
<1>10. CASE SkipAttribute \/ ValidateAttribute \/ ValidateEntry \/ LeaveObservables
  <2>1. UNCHANGED <<attr, obs, res, phase>> /\ phase = "walk" /\ turn' = 1
    BY <1>10 DEF SkipAttribute, ValidateAttribute, ValidateEntry, LeaveObservables, Advance,
                 AtAttr, AtObs, AtEntry
  <2>2. RemovalOver' <=> RemovalOver
    BY <1>1, <1>2, <2>1 DEF RemovalOver
  <2>3. QED BY <2>1, <2>2
<1>11. CASE EventDone
  <2>1. UNCHANGED <<attr, obs, res>> /\ RemovalOver /\ RemovalOver'
    BY <1>11 DEF EventDone, RemovalOver
  <2>2. QED BY <2>1
<1>12. QED
  BY <1>5, <1>6, <1>7, <1>8, <1>9, <1>10, <1>11 DEF Process

(* Removal that is over took what it should.                               *)
LEMMA RemovalStep ==
    ASSUME TypeOK, EventTyped, RemovalSoFar, Process,
           calls > 0, Resolvable, cfg.obs = "remove"
    PROVE  RemovalSoFar'
<1>1. UNCHANGED <<cfg, cls, active, calls, start>>
  BY ProcessKeeps
<1>2. CASE /\ RemovalOver' <=> RemovalOver
           /\ BareObs(obs') = BareObs(obs)
           /\ res'.obsRemoved = res.obsRemoved /\ res'.obsRetained = res.obsRetained
           /\ RemovalOver => attr' = attr /\ obs' = obs
  BY <1>1, <1>2, RemovalKept
<1>3. CASE ~RemovalOver /\ RemovalOver' /\ attr' = attr /\ RemoveSafely
  <2>1. SafelyRemoved'
    BY <1>1, <1>3, RemovalDone DEF RemovalSoFar
  <2>2. QED BY <1>3, <2>1 DEF RemovalSoFar
<1>4. QED BY <1>2, <1>3, RemovalTurn

(* The choice of safe removal is right in every state of a call.           *)
LEMMA RemovalStaysSafe == Spec => []RemovalSoFar
<1>1. Init => RemovalSoFar
  BY DEF Init, RemovalSoFar
<1>2. TypeOK /\ EventTyped /\ RemovalSoFar /\ [Next]_vars => RemovalSoFar'
  <2> SUFFICES ASSUME TypeOK, EventTyped, RemovalSoFar, [Next]_vars PROVE RemovalSoFar'
    OBVIOUS
  <2>1. ASSUME NEW c \in Configs, Call(c) PROVE RemovalSoFar'
    <3> SUFFICES ASSUME cls = "resolved", c.obs = "remove" PROVE RemovalSoFar'
      BY <2>1 DEF Call, RemovalSoFar, Resolvable
    <3>1. Len(Pipe') \in Nat \ {0}
      BY <2>1, InputAssumption, LastDoesObservables DEF Call, Pipe
    <3>2. ~RemovalOver'
      BY <2>1, <3>1 DEF Call, RemovalOver
    <3>3. QED BY <2>1, <3>2 DEF Call, RemovalSoFar, NoResult
  <2>2. CASE Process
    <3>1. CASE calls > 0 /\ Resolvable /\ cfg.obs = "remove"
      BY <2>2, <3>1, RemovalStep
    <3>2. CASE ~(calls > 0 /\ Resolvable /\ cfg.obs = "remove")
      BY <2>2, <3>2, ProcessKeeps DEF RemovalSoFar, Resolvable
    <3>3. QED BY <3>1, <3>2
  <2>3. CASE UNCHANGED vars
    <3>1. RemovalOver' <=> RemovalOver
      BY <2>3 DEF vars, RemovalOver, Pipe
    <3>2. QED BY <2>3, <3>1, RemovalKept DEF vars
  <2>4. QED BY <2>1, <2>2, <2>3 DEF Next
<1>3. QED BY <1>1, <1>2, TypeCorrect, EventStaysTyped, PTL DEF Spec

(* Safe removal takes exactly the entries the returned event can rebuild,  *)
(* keeps the others in order and counts them all.                          *)
THEOREM RemovalTakesRebuildable == Spec => []SafeRemovalExact
<1>1. RemovalSoFar => SafeRemovalExact
  BY DEF RemovalSoFar, SafeRemovalExact, SafelyRemoved, RemovalOver, Unremovable, Done
<1>2. QED BY <1>1, RemovalStaysSafe, PTL
-----------------------------------------------------------------------------
(* The generated suffix.                                                   *)

(* A part of a concatenation is a part of one of the two.                  *)
LEMMA ConcatParts ==
    ASSUME NEW S, NEW s \in Seq(S), NEW t \in Seq(S)
    PROVE  /\ s \o t \in Seq(S) /\ DOMAIN (s \o t) = 1 .. Len(s) + Len(t)
           /\ Len(s) \in Nat /\ Len(t) \in Nat
           /\ \A i \in DOMAIN s : i \in DOMAIN (s \o t) /\ (s \o t)[i] = s[i]
           /\ \A i \in DOMAIN (s \o t) :
                \/ i \in DOMAIN s
                \/ i > Len(s) /\ i - Len(s) \in DOMAIN t /\ (s \o t)[i] = t[i - Len(s)]
<1>1. /\ s \o t \in Seq(S) /\ Len(s \o t) = Len(s) + Len(t)
      /\ \A i \in 1 .. Len(s) + Len(t) : (s \o t)[i] =
                     IF i <= Len(s) THEN s[i] ELSE t[i - Len(s)]
  BY ConcatProperties
<1>2. /\ Len(s) \in Nat /\ DOMAIN s = 1 .. Len(s) /\ Len(t) \in Nat /\ DOMAIN t = 1 .. Len(t)
      /\ DOMAIN (s \o t) = 1 .. Len(s \o t)
  BY <1>1, LenProperties
<1>3. QED BY <1>1, <1>2

(* What was generated from an attribute whose value is there and will not  *)
(* be written again in this call.                                          *)
Trusted(g) ==
    /\ Identified(g) /\ g.a \in Attr /\ Present(attr[g.a])
    /\ Problem(g, attr, active) = "none"
    /\ cfg.enum # "none" =>
         \A e \in Resolved : PairOwner(e) /\ Sibling[e] = g.a => Handled(e)

GeneratedTrusted == \A g \in Range(gen) : Trusted(g)

(* An entry is judged by the one attribute it names.                       *)
LEMMA ProblemIsLocal ==
    ASSUME NEW g, NEW at, NEW bt, at[g.a] = bt[g.a], NEW act
    PROVE  Problem(g, at, act) = Problem(g, bt, act)
BY DEF Problem

(* No step of a call writes a value that is there, save the visit that     *)
(* removes the sibling of a pair not handled before.                       *)
LEMMA PresentStays ==
    ASSUME TypeOK, EventTyped, WalkFromStart, Process, NEW a \in Attr, Present(attr[a]),
           cfg.enum # "none" =>
              \A e \in Resolved : PairOwner(e) /\ Sibling[e] = a => Handled(e)
    PROVE  attr'[a] = attr[a]
<1> cfg \in Config
  BY InputAssumption DEF TypeOK
<1>1. CASE VisitPair
  <2> DEFINE new == PairWork(Pipe[turn], Here \in ArrayAttr, attr[Here], attr[Sibling[Here]]).sib
  <2>1. /\ PairOwner(Here) /\ Here \in Resolved /\ Here \in EnumAttr
        /\ turn \in 1 .. Len(Pipe) /\ attr' = [attr EXCEPT ![Sibling[Here]] = new]
    BY <1>1, OwnerIsEnum, TurnAdvances DEF VisitPair
  <2>2. CASE Sibling[Here] = a
    <3>1. cfg.enum # "none" => turn > 1
      BY <1>1, <2>1, <2>2, PairVisited
    <3>2. ~Pipe[turn].enums
      BY <2>1, <3>1, FirstDoesEnums, NoEnumWork DEF Pipe
    <3>3. new = attr[a]
      BY <2>2, <3>2 DEF PairWork, Untouched, Outcome
    <3> HIDE DEF new
    <3>4. QED BY <2>1, <2>2, <3>3 DEF TypeOK
  <2>3. CASE Sibling[Here] # a
    <3> HIDE DEF new
    <3>1. QED BY <2>1, <2>3 DEF TypeOK
  <2>4. QED BY <2>2, <2>3
<1>2. CASE VisitOrdinary
  <2> DEFINE new == UnlinkedWork(Pipe[turn], attr[Here], attr[Sibling[Here]]).sib
  <2>1. CASE Here \in EnumAttr \ Resolved
    <3>1. attr' = [attr EXCEPT ![Sibling[Here]] = new]
      BY <1>2, <2>1 DEF VisitOrdinary
    <3>2. Here \in Attr /\ Sibling[Here] \in Attr
      BY <2>1, AttrAssumption
    <3>3. new = attr[Sibling[Here]] \/ ~Present(attr[Sibling[Here]])
      BY <3>2, RetainUnsupportedSound DEF UnlinkedWork, Untouched, Outcome, TypeOK
    <3> HIDE DEF new
    <3>4. QED BY <3>1, <3>2, <3>3 DEF TypeOK
  <2>2. CASE Here \notin EnumAttr \ Resolved
    BY <1>2, <2>2 DEF VisitOrdinary
  <2>3. QED BY <2>1, <2>2
<1>3. CASE OnClass \/ OnClassDone \/ OnEventDone \/ EventDone
  BY <1>3 DEF OnClass, OnClassDone, OnEventDone, EventDone
<1>4. CASE ClassVisited \/ WalkEnds \/ ClassDone
  BY <1>4 DEF ClassVisited, WalkEnds, ClassDone, EndPart
<1>5. CASE SkipAttribute \/ ValidateAttribute \/ ValidateEntry \/ LeaveObservables \/ VisitEntry
  BY <1>5 DEF SkipAttribute, ValidateAttribute, ValidateEntry, LeaveObservables, VisitEntry
<1>6. QED BY <1>1, <1>2, <1>3, <1>4, <1>5 DEF Process

(* What can be trusted can be trusted until the call is over.              *)
LEMMA TrustStays ==
    ASSUME TypeOK, EventTyped, WalkFromStart, Process, NEW g, Trusted(g)
    PROVE  /\ Identified(g) /\ g.a \in Attr /\ Present(attr'[g.a])
           /\ Problem(g, attr', active') = "none"
           /\ cfg'.enum # "none" =>
                \A e \in Resolved : PairOwner(e)' /\ Sibling[e] = g.a => Handled(e)'
<1>1. attr'[g.a] = attr[g.a] /\ UNCHANGED <<cfg, active>>
  BY PresentStays, ProcessKeeps DEF Trusted
<1>2. Problem(g, attr', active) = "none"
  BY <1>1, ProblemIsLocal DEF Trusted
<1>3. ASSUME cfg.enum # "none", NEW e \in Resolved, PairOwner(e), Handled(e) PROVE Handled(e)'
  <2>1. CASE VisitPair
    BY <1>3, <2>1, PairVisited
  <2>2. CASE ~VisitPair
    BY <1>3, <2>2, OthersLeavePairs
  <2>3. QED BY <2>1, <2>2
<1>4. \A e : PairOwner(e)' <=> PairOwner(e)
  BY <1>1 DEF PairOwner
<1>5. QED BY <1>1, <1>2, <1>3, <1>4 DEF Trusted

(* Everything a visit generates can be trusted.                            *)
LEMMA VisitTrusted ==
    ASSUME TypeOK, EventTyped, WalkFromStart, GeneratedTrusted, VisitPair \/ VisitOrdinary
    PROVE  GeneratedTrusted'
<1>1. PICK new \in Seq(Entry) :
        /\ gen' = gen \o new
        /\ \A m \in DOMAIN new :
             /\ Identified(new[m]) /\ new[m].a \in Attr
             /\ Problem(new[m], attr', active) = "none" /\ Present(attr'[new[m].a])
             /\ new[m].a = (IF VisitPair THEN Sibling[Here] ELSE Here)
  BY VisitSound
<1>2. Process /\ UNCHANGED <<cfg, active>> /\ gen \in Seq(Entry)
  BY ProcessKeeps DEF Process, EventTyped
<1>3. \A e : PairOwner(e)' <=> PairOwner(e)
  BY <1>2 DEF PairOwner
<1>4. ASSUME NEW m \in DOMAIN new, NEW e \in Resolved, PairOwner(e), Sibling[e] = new[m].a
      PROVE  Handled(e)'
  <2>1. CASE VisitPair
    <3>1. e \in EnumAttr /\ Here \in EnumAttr /\ Sibling[e] = Sibling[Here]
      BY <1>1, <1>4, <2>1, OwnerIsEnum, PairVisited
    <3>2. e = Here
      BY <3>1, SiblingAssumption
    <3>3. QED BY <1>4, <2>1, <3>2, PairVisited
  <2>2. CASE ~VisitPair
    <3>1. VisitOrdinary /\ new[m].a = Here
      BY <1>1, <2>2
    <3>2. ~OwnedByPair(Here)
      BY <3>1 DEF VisitOrdinary, Skipped
    <3>3. QED BY <1>4, <3>1, <3>2 DEF OwnedByPair
  <2>3. QED BY <2>1, <2>2
<1>5. ASSUME NEW g \in Range(gen') PROVE Trusted(g)'
  <2>1. CASE g \in Range(gen)
    <3>1. Trusted(g)
      BY <2>1 DEF GeneratedTrusted
    <3>2. QED BY <1>2, <3>1, TrustStays DEF Trusted
  <2>2. CASE g \notin Range(gen)
    <3>1. PICK m \in DOMAIN (gen \o new) : g = (gen \o new)[m]
      BY <1>1 DEF Range
    <3>2. PICK k \in DOMAIN new : g = new[k]
      BY <1>1, <1>2, <2>2, <3>1, ConcatParts DEF Range
    <3>3. QED BY <1>1, <1>2, <1>3, <1>4, <3>2 DEF Trusted
  <2>3. QED BY <2>1, <2>2
<1>6. QED BY <1>5 DEF GeneratedTrusted

(* At every moment what was generated can be trusted.                      *)
LEMMA GeneratedStaysTrusted == Spec => []GeneratedTrusted
<1>1. Init => GeneratedTrusted
  BY DEF Init, GeneratedTrusted, Range
<1>2. TypeOK /\ EventTyped /\ WalkFromStart /\ GeneratedTrusted /\ [Next]_vars => GeneratedTrusted'
  <2> SUFFICES ASSUME TypeOK, EventTyped, WalkFromStart, GeneratedTrusted, [Next]_vars
               PROVE  GeneratedTrusted'
    OBVIOUS
  <2>1. ASSUME NEW c \in Configs, Call(c) PROVE GeneratedTrusted'
    BY <2>1 DEF Call, GeneratedTrusted, Range
  <2>2. CASE VisitPair \/ VisitOrdinary
    BY <2>2, VisitTrusted
  <2>3. CASE Process /\ ~(VisitPair \/ VisitOrdinary)
    <3>1. gen' = gen
      <4>1. CASE OnClass \/ OnClassDone \/ OnEventDone \/ EventDone
        BY <4>1 DEF OnClass, OnClassDone, OnEventDone, EventDone
      <4>2. CASE ClassVisited \/ WalkEnds \/ ClassDone
        BY <4>2 DEF ClassVisited, WalkEnds, ClassDone, EndPart
      <4>3. CASE SkipAttribute \/ ValidateAttribute \/ ValidateEntry \/ LeaveObservables \/ VisitEntry
        BY <4>3 DEF SkipAttribute, ValidateAttribute, ValidateEntry, LeaveObservables, VisitEntry
      <4>4. QED BY <2>3, <4>1, <4>2, <4>3 DEF Process
    <3>2. ASSUME NEW g \in Range(gen) PROVE Trusted(g)'
      <4>1. Trusted(g)
        BY <3>2 DEF GeneratedTrusted
      <4>2. QED BY <2>3, <4>1, TrustStays DEF Trusted
    <3>3. QED BY <3>1, <3>2 DEF GeneratedTrusted
  <2>4. CASE UNCHANGED vars
    <3>1. \A e : (Handled(e)' <=> Handled(e)) /\ (PairOwner(e)' <=> PairOwner(e))
      BY <2>4 DEF vars, PairOwner, Handled, Passed, Here
    <3>2. ASSUME NEW g \in Range(gen) PROVE Trusted(g)'
      <4>1. Trusted(g)
        BY <3>2 DEF GeneratedTrusted
      <4>2. QED BY <2>4, <3>1, <4>1 DEF Trusted, vars
    <3>3. QED BY <2>4, <3>2 DEF GeneratedTrusted, vars
  <2>5. QED BY <2>1, <2>2, <2>3, <2>4 DEF Next
<1>3. QED BY <1>1, <1>2, TypeCorrect, EventStaysTyped, WalkStarts, PTL DEF Spec

(* Entries that differ in their captions alone are told apart no better    *)
(* than entries that do not differ.                                        *)
LEMMA BareSameIdentity ==
    ASSUME NEW x \in Entry, NEW y \in Entry, Bare(x) = Bare(y)
    PROVE  (Identified(x) <=> Identified(y)) /\ Identity(x) = Identity(y)
<1>1. /\ x.map = y.map /\ x.name = y.name /\ x.a = y.a /\ x.i = y.i
      /\ x.tid = y.tid /\ x.val = y.val
  BY DEF Bare, Entry
<1>2. QED BY <1>1 DEF Identified, Identity, ValueWrongType

(* Deduplication keeps entries that were generated, none of which repeats  *)
(* an entry that is there or one that it kept before (DeduplicateGenerated). *)
LEMMA DeduplicatedSound ==
    ASSUME NEW old \in Seq(Entry), NEW g \in Seq(Entry), \A x \in Range(g) : Identified(x)
    PROVE  LET fresh == Deduplicated(old, g)
           IN  /\ fresh \in Seq(Entry) /\ Range(fresh) \subseteq Range(g)
               /\ \A i \in DOMAIN fresh : \A x \in Range(old) : Bare(x) # Bare(fresh[i])
               /\ \A i, j \in DOMAIN fresh : j < i => Bare(fresh[j]) # Bare(fresh[i])
<1> DEFINE I     == {i \in DOMAIN g :
                       ~\E x \in Range(old) \cup {g[j] : j \in 1 .. i - 1} :
                           Identified(x) /\ Identity(x) = Identity(g[i])}
           fresh == Deduplicated(old, g)
           at    == Ascending(I)
<1>1. I \in SUBSET DOMAIN g /\ fresh = Selected(g, I)
  BY DEF Deduplicated
<1>2. \A i \in I : \A x \in Range(old) : ~(Identified(x) /\ Identity(x) = Identity(g[i]))
  OBVIOUS
<1>3. \A i \in I : \A j \in 1 .. i - 1 : ~(Identified(g[j]) /\ Identity(g[j]) = Identity(g[i]))
  OBVIOUS
<1>4. /\ \A i \in DOMAIN g : g[i] \in Entry /\ g[i] \in Range(g) /\ Identified(g[i])
      /\ \A x \in Range(old) : x \in Entry
      /\ Len(g) \in Nat /\ DOMAIN g = 1 .. Len(g)
  BY LenProperties, ElementOfSeq DEF Range
<1> HIDE DEF I, fresh
<1>5. /\ fresh \in Seq(Entry) /\ DOMAIN fresh = 1 .. Cardinality(I)
      /\ \A n \in DOMAIN fresh : at[n] \in I /\ fresh[n] = g[at[n]]
  BY <1>1, SelectedSound
<1>6. \A n, k \in DOMAIN fresh : n < k => at[n] < at[k]
  BY <1>1, <1>4, <1>5, AscendingSound
<1> HIDE DEF at
<1>7. \A n \in DOMAIN fresh : at[n] \in DOMAIN g /\ at[n] \in Nat
  BY <1>1, <1>4, <1>5
<1>8. Range(fresh) \subseteq Range(g)
  BY <1>4, <1>5, <1>7 DEF Range
<1>9. ASSUME NEW i \in DOMAIN fresh, NEW x \in Range(old), Bare(x) = Bare(fresh[i]) PROVE FALSE
  <2>1. fresh[i] = g[at[i]] /\ at[i] \in I /\ g[at[i]] \in Entry /\ Identified(g[at[i]])
    BY <1>4, <1>5, <1>7
  <2>2. Identified(x) /\ Identity(x) = Identity(g[at[i]])
    BY <1>4, <1>9, <2>1, BareSameIdentity
  <2>3. QED BY <1>2, <2>1, <2>2
<1>10. ASSUME NEW i \in DOMAIN fresh, NEW j \in DOMAIN fresh, j < i, Bare(fresh[j]) = Bare(fresh[i])
       PROVE  FALSE
  <2>1. /\ fresh[i] = g[at[i]] /\ at[i] \in I /\ g[at[i]] \in Entry /\ Identified(g[at[i]])
        /\ fresh[j] = g[at[j]] /\ g[at[j]] \in Entry /\ Identified(g[at[j]])
    BY <1>4, <1>5, <1>7
  <2>2. at[j] \in 1 .. at[i] - 1
    <3>1. at[j] < at[i]
      BY <1>6, <1>10
    <3>2. at[i] \in Nat /\ at[j] \in 1 .. Len(g)
      BY <1>4, <1>7
    <3>3. QED BY <3>1, <3>2
  <2>3. Identity(g[at[j]]) = Identity(g[at[i]])
    BY <1>10, <2>1, BareSameIdentity
  <2>4. QED BY <1>3, <2>1, <2>2, <2>3
<1>11. QED BY <1>5, <1>8, <1>9, <1>10 DEF fresh

(* What addition makes of the event in its turn.                           *)
LEMMA AdditionSound ==
    ASSUME EventTyped, GeneratedTrusted, AddObservables
    PROVE  \E fresh \in Seq(Entry) :
             /\ Range(fresh) \subseteq Range(gen)
             /\ obs.k = "other" => UNCHANGED <<obs, genStart>> /\ res'.obsAdded = res.obsAdded
             /\ obs.k # "other" =>
                  /\ obs'.s = Entries(obs) \o fresh /\ Entries(obs') = Entries(obs) \o fresh
                  /\ res'.obsAdded = res.obsAdded + Len(fresh)
                  /\ \/ genStart' = genStart /\ (fresh = <<>> \/ Entries(obs) = <<>>)
                     \/ genStart' = Len(Entries(obs))
             /\ \A i \in DOMAIN fresh : \A x \in Range(Entries(obs)) : Bare(x) # Bare(fresh[i])
             /\ \A i, j \in DOMAIN fresh : j < i => Bare(fresh[j]) # Bare(fresh[i])
<1> DEFINE fresh == Deduplicated(Entries(obs), gen)
<1>1. Entries(obs) \in Seq(Entry) /\ gen \in Seq(Entry) /\ \A x \in Range(gen) : Identified(x)
  BY EmptySeq DEF EventTyped, ObsValue, Entries, GeneratedTrusted, Trusted
<1>2. /\ fresh \in Seq(Entry) /\ Range(fresh) \subseteq Range(gen)
      /\ \A i \in DOMAIN fresh : \A x \in Range(Entries(obs)) : Bare(x) # Bare(fresh[i])
      /\ \A i, j \in DOMAIN fresh : j < i => Bare(fresh[j]) # Bare(fresh[i])
  BY <1>1, DeduplicatedSound
<1>3. /\ obs.k = "other" => UNCHANGED <<obs, genStart>> /\ res'.obsAdded = res.obsAdded
      /\ obs.k # "other" =>
           /\ obs'.s = Entries(obs) \o fresh /\ Entries(obs') = Entries(obs) \o fresh
           /\ res'.obsAdded = res.obsAdded + Len(fresh)
           /\ \/ genStart' = genStart /\ (fresh = <<>> \/ Entries(obs) = <<>>)
              \/ genStart' = Len(Entries(obs))
  BY AddSound
<1> HIDE DEF fresh
<1>4. QED BY <1>2, <1>3

(* Behind genStart are only entries that validation finds nothing wrong    *)
(* with, and nothing is said of entries before the end of the event.       *)
SuffixSoFar ==
    /\ genStart # -1 => phase \in {"eventDone", "ready"}
    /\ genStart >= 0 => \A i \in DOMAIN obs.s :
                          i > genStart => Problem(obs.s[i], attr, active) = "none"
    /\ phase # "ready" => \A f \in findings : f.stage # "done"

(* Addition in its turn leaves only trusted entries behind genStart.       *)
LEMMA SuffixAdded ==
    ASSUME EventTyped, GeneratedTrusted, SuffixSoFar, AddObservables, UNCHANGED <<attr, active>>
    PROVE  genStart' >= 0 => \A i \in DOMAIN obs'.s :
                               i > genStart' => Problem(obs'.s[i], attr, active) = "none"
<1>1. PICK fresh \in Seq(Entry) :
        /\ Range(fresh) \subseteq Range(gen)
        /\ obs.k = "other" => UNCHANGED <<obs, genStart>>
        /\ obs.k # "other" =>
             /\ obs'.s = Entries(obs) \o fresh
             /\ \/ genStart' = genStart /\ (fresh = <<>> \/ Entries(obs) = <<>>)
                \/ genStart' = Len(Entries(obs))
  BY AdditionSound
<1>2. CASE obs.k = "other"
  BY <1>1, <1>2 DEF SuffixSoFar
<1>3. CASE obs.k # "other"
  <2> DEFINE old == Entries(obs)
  <2>1. old \in Seq(Entry) /\ (old = <<>> \/ old = obs.s)
    BY EmptySeq DEF EventTyped, ObsValue, Entries
  <2> HIDE DEF old
  <2> SUFFICES ASSUME genStart' >= 0, NEW i \in DOMAIN obs'.s, i > genStart'
               PROVE  Problem(obs'.s[i], attr, active) = "none"
    OBVIOUS
  <2>2. obs'.s = old \o fresh
    BY <1>1, <1>3 DEF old
  <2>3. CASE i \in DOMAIN old
    <3>1. genStart' = genStart
      <4>1. Len(old) \in Nat /\ DOMAIN old = 1 .. Len(old)
        BY <2>1, LenProperties
      <4>2. genStart' # Len(old)
        BY <2>3, <4>1
      <4>3. QED BY <1>1, <1>3, <4>2 DEF old
    <3>2. obs'.s[i] = obs.s[i] /\ i \in DOMAIN obs.s
      <4>1. old # <<>>
        BY <2>3
      <4>2. QED BY <2>1, <2>2, <2>3, <4>1, ConcatParts
    <3>3. QED BY <3>1, <3>2 DEF SuffixSoFar
  <2>4. CASE i \notin DOMAIN old
    <3>1. PICK k \in DOMAIN fresh : obs'.s[i] = fresh[k]
      BY <2>1, <2>2, <2>4, ConcatParts
    <3>2. fresh[k] \in Range(gen)
      BY <1>1 DEF Range
    <3>3. QED BY <3>1, <3>2 DEF GeneratedTrusted, Trusted
  <2>5. QED BY <2>3, <2>4
<1>4. QED BY <1>2, <1>3

(* Validation trusts a suffix it would find nothing wrong with, and says   *)
(* of the other entries what it would say of all.                          *)
THEOREM SuffixIsTrusted == Spec => []TrustedSuffixSound
<1>1. Init => SuffixSoFar /\ TrustedSuffixSound
  BY DEF Init, SuffixSoFar, TrustedSuffixSound, Done
<1>2. TypeOK /\ EventTyped /\ GeneratedTrusted /\ SuffixSoFar /\ TrustedSuffixSound /\ [Next]_vars
      => SuffixSoFar' /\ TrustedSuffixSound'
  <2> SUFFICES ASSUME TypeOK, EventTyped, GeneratedTrusted, SuffixSoFar, TrustedSuffixSound,
                      [Next]_vars
               PROVE  SuffixSoFar' /\ TrustedSuffixSound'
    OBVIOUS
  <2>1. ASSUME NEW c \in Configs, Call(c) PROVE SuffixSoFar' /\ TrustedSuffixSound'
    <3>1. /\ genStart' = -1 /\ cls' = cls /\ ~(genStart' >= 0)
          /\ cls = "resolved" => phase' = "class" /\ findings' = {}
          /\ cls # "resolved" => phase' = "ready"
      BY <2>1 DEF Call
    <3>2. SuffixSoFar'
      BY <3>1 DEF SuffixSoFar
    <3>3. TrustedSuffixSound'
      BY <3>1 DEF TrustedSuffixSound, Done, Resolvable
    <3>4. QED BY <3>2, <3>3
  <2>2. CASE OnEventDone
    <3>1. /\ UNCHANGED <<phase, attr, active, findings>> /\ phase = "eventDone"
          /\ AddObservables \/ UNCHANGED <<obs, genStart>>
      BY <2>2 DEF OnEventDone
    <3>2. SuffixSoFar'
      <4>1. CASE AddObservables
        BY <3>1, <4>1, SuffixAdded DEF SuffixSoFar
      <4>2. CASE UNCHANGED <<obs, genStart>>
        BY <3>1, <4>2 DEF SuffixSoFar
      <4>3. QED BY <3>1, <4>1, <4>2
    <3>3. QED BY <3>1, <3>2 DEF TrustedSuffixSound, Done
  <2>3. CASE EventDone
    <3> DEFINE Bad == {j \in DOMAIN obs.s : Problem(obs.s[j], attr, active) \in NonStructural}
               F   == {Finding(Observables, "done", i, Problem(obs.s[i], attr, active)) : i \in Bad}
    <3>1. {j \in Analyzed : Problem(obs.s[j], attr, active) \in NonStructural} = Bad
      <4>1. \A j \in DOMAIN obs.s : j \notin Analyzed => genStart >= 0 /\ j > genStart
        <5>1. genStart \in Int /\ \A j \in DOMAIN obs.s : j \in Int
          BY LenProperties DEF EventTyped, ObsValue
        <5>2. QED BY <5>1 DEF Analyzed
      <4>2. "none" \notin NonStructural
        BY DEF NonStructural
      <4>3. QED BY <4>1, <4>2 DEF SuffixSoFar, Analyzed
    <3>2. /\ phase = "eventDone" /\ phase' = "ready" /\ UNCHANGED <<attr, active, obs, genStart, cfg>>
          /\ cfg.validate => findings' = findings \cup F
      BY <2>3, <3>1 DEF EventDone
    <3>3. cfg.validate => {f \in findings' : f.stage = "done"} = F
      <4>1. \A f \in F : f.stage = "done"
        BY DEF Finding
      <4> HIDE DEF F
      <4>2. QED BY <3>2, <4>1 DEF SuffixSoFar
    <3>4. QED BY <3>2, <3>3 DEF SuffixSoFar, TrustedSuffixSound
  <2>4. CASE ValidateAttribute \/ ValidateEntry \/ LeaveObservables
    <3>1. /\ phase = "walk" /\ phase' = "walk" /\ UNCHANGED genStart
          /\ \A f \in findings' : f \in findings \/ f.stage = "walk"
      <4>1. \A x, i, c : Finding(x, "walk", i, c).stage = "walk"
        BY DEF Finding
      <4>2. CASE ValidateAttribute
        BY <4>1, <4>2 DEF ValidateAttribute, AtAttr
      <4>3. CASE ValidateEntry
        BY <4>1, <4>3 DEF ValidateEntry, AtEntry, AtObs
      <4>4. CASE LeaveObservables
        BY <4>1, <4>4 DEF LeaveObservables, AtObs
      <4>5. QED BY <2>4, <4>2, <4>3, <4>4
    <3>2. QED BY <3>1 DEF SuffixSoFar, TrustedSuffixSound, Done
  <2>5. CASE ClassVisited \/ WalkEnds \/ ClassDone
    BY <2>5 DEF ClassVisited, WalkEnds, ClassDone, EndPart, SuffixSoFar, TrustedSuffixSound, Done
  <2>6. CASE OnClass \/ OnClassDone
    BY <2>6 DEF OnClass, OnClassDone, SuffixSoFar, TrustedSuffixSound, Done
  <2>7. CASE SkipAttribute \/ VisitPair \/ VisitOrdinary \/ VisitEntry
    <3>1. phase = "walk" /\ phase' = "walk" /\ UNCHANGED <<genStart, findings>>
      BY <2>7 DEF SkipAttribute, VisitPair, VisitOrdinary, VisitEntry, AtAttr, AtEntry, AtObs
    <3>2. QED BY <3>1 DEF SuffixSoFar, TrustedSuffixSound, Done
  <2>8. CASE UNCHANGED vars
    BY <2>8 DEF vars, SuffixSoFar, TrustedSuffixSound, Done, Resolvable
  <2>9. QED
    BY <2>1, <2>2, <2>3, <2>4, <2>5, <2>6, <2>7, <2>8 DEF Next, Process
<1>3. QED BY <1>1, <1>2, TypeCorrect, EventStaysTyped, GeneratedStaysTrusted, PTL DEF Spec
-----------------------------------------------------------------------------
(* Generation appends.                                                     *)

(* Generation has had its turn.                                            *)
AdditionOver == phase = "ready" \/ (phase = "eventDone" /\ turn > Len(Pipe))

(* The entries the caller supplied are followed by new ones.               *)
Appended ==
    LET old == Entries(start.obs)  new == Entries(obs)
    IN  /\ BareSeq(SubSeq(new, 1, Len(old))) = BareSeq(old)
        /\ Len(new) - Len(old) = res.obsAdded
        /\ \A i \in Len(old) + 1 .. Len(new), j \in 1 .. Len(new) :
             j < i => Bare(new[j]) # Bare(new[i])

(* Until generation has had its turn the entries are the caller's, and     *)
(* nothing follows it.                                                     *)
AdditionSoFar ==
    calls > 0 /\ Resolvable /\ cfg.obs = "add" =>
      IF AdditionOver THEN Appended
      ELSE BareObs(obs) = BareObs(start.obs) /\ res.obsAdded = 0

(* A step on one side of the generation that does not disturb the entries. *)
LEMMA AdditionKept ==
    ASSUME AdditionSoFar, UNCHANGED <<cfg, cls, calls, start>>,
           AdditionOver' <=> AdditionOver, BareObs(obs') = BareObs(obs),
           res'.obsAdded = res.obsAdded, AdditionOver => obs' = obs
    PROVE  AdditionSoFar'
<1> SUFFICES ASSUME calls > 0, Resolvable, cfg.obs = "add" PROVE AdditionSoFar'
  BY DEF AdditionSoFar, Resolvable
<1>1. CASE AdditionOver
  <2>1. Appended'
    BY <1>1 DEF AdditionSoFar, Appended
  <2>2. QED BY <1>1, <2>1 DEF AdditionSoFar
<1>2. CASE ~AdditionOver
  BY <1>2 DEF AdditionSoFar, BareObs, BareSeq, Bare
<1>3. QED BY <1>1, <1>2

(* Generation in its turn appends what is new.                             *)
LEMMA AdditionDone ==
    ASSUME EventTyped, GeneratedTrusted, AddObservables, start' = start,
           BareObs(obs) = BareObs(start.obs), res.obsAdded = 0
    PROVE  Appended'
<1> DEFINE now == Entries(obs)
           old == Entries(start.obs)
           new == Entries(obs')
<1>1. /\ obs \in ObsValue /\ start.obs \in ObsValue /\ obs.k = start.obs.k
      /\ now \in Seq(Entry) /\ old \in Seq(Entry) /\ BareSeq(now) = BareSeq(old)
  BY BareSameEntries DEF EventTyped
<1>2. Len(now) = Len(old) /\ Len(old) \in Nat /\ DOMAIN now = 1 .. Len(old)
  BY <1>1, BareSameSeq, LenProperties
<1>3. PICK fresh \in Seq(Entry) :
        /\ obs.k = "other" => UNCHANGED <<obs, genStart>> /\ res'.obsAdded = res.obsAdded
        /\ obs.k # "other" => new = now \o fresh /\ res'.obsAdded = res.obsAdded + Len(fresh)
        /\ \A i \in DOMAIN fresh : \A x \in Range(now) : Bare(x) # Bare(fresh[i])
        /\ \A i, j \in DOMAIN fresh : j < i => Bare(fresh[j]) # Bare(fresh[i])
  BY AdditionSound
<1>4. CASE obs.k = "other"
  <2>1. new = <<>> /\ old = <<>>
    BY <1>1, <1>3, <1>4 DEF Entries
  <2>2. SubSeq(new, 1, Len(old)) = <<>> /\ Len(new) = 0 /\ Len(old) = 0
    BY <2>1
  <2>3. BareSeq(SubSeq(new, 1, Len(old))) = BareSeq(old)
    BY <2>1, <2>2
  <2>4. res'.obsAdded = Len(new) - Len(old)
    BY <1>3, <1>4, <2>2
  <2>5. \A i \in Len(old) + 1 .. Len(new) : FALSE
    BY <2>2
  <2> HIDE DEF old, new
  <2>6. QED BY <2>3, <2>4, <2>5 DEF Appended, old, new
<1>5. CASE obs.k # "other"
  <2> HIDE DEF now, old, new
  <2>1. /\ new \in Seq(Entry) /\ Len(new) = Len(old) + Len(fresh) /\ Len(fresh) \in Nat
        /\ \A i \in 1 .. Len(old) : new[i] = now[i]
        /\ \A i \in Len(old) + 1 .. Len(new) :
             i - Len(old) \in DOMAIN fresh /\ new[i] = fresh[i - Len(old)]
    <3>1. new = now \o fresh
      BY <1>3, <1>5
    <3>2. Len(new) = Len(now) + Len(fresh) /\ new \in Seq(Entry)
      BY <1>1, <3>1, ConcatProperties
    <3>3. Len(fresh) \in Nat /\ DOMAIN fresh = 1 .. Len(fresh)
      BY LenProperties
    <3>4. \A i \in 1 .. Len(now) + Len(fresh) :
             new[i] = IF i <= Len(now) THEN now[i] ELSE fresh[i - Len(now)]
      BY <1>1, <3>1, ConcatProperties
    <3>5. QED BY <1>2, <3>2, <3>3, <3>4
  <2>2. SubSeq(new, 1, Len(old)) = now
    <3>1. \A i \in 1 .. Len(old) : new[i] \in Entry
      BY <1>1, <1>2, <2>1, ElementOfSeq
    <3>2. /\ SubSeq(new, 1, Len(old)) \in Seq(Entry)
          /\ Len(SubSeq(new, 1, Len(old))) = Len(old)
          /\ \A i \in 1 .. Len(old) : SubSeq(new, 1, Len(old))[i] = new[i]
      <4>1. /\ SubSeq(new, 1, Len(old)) \in Seq(Entry)
            /\ Len(SubSeq(new, 1, Len(old))) = IF 1 <= Len(old) THEN Len(old) - 1 + 1 ELSE 0
            /\ \A i \in 1 .. Len(old) - 1 + 1 : SubSeq(new, 1, Len(old))[i] = new[1 + i - 1]
        BY <1>2, <3>1, SubSeqProperties
      <4>2. QED BY <1>2, <4>1
    <3>3. QED BY <1>1, <1>2, <2>1, <3>2, SeqEqual
  <2>3. ASSUME NEW i \in Len(old) + 1 .. Len(new), NEW j \in 1 .. Len(new), j < i
        PROVE  Bare(new[j]) # Bare(new[i])
    <3>1. CASE j <= Len(old)
      <4>1. j \in 1 .. Len(old)
        BY <1>2, <3>1
      <4>2. new[j] = now[j] /\ j \in DOMAIN now
        BY <1>2, <2>1, <4>1
      <4>3. new[j] \in Range(now)
        BY <4>2 DEF Range
      <4>4. QED BY <1>3, <2>1, <4>3 DEF now
    <3>2. CASE j > Len(old)
      <4>1. j \in Len(old) + 1 .. Len(new) /\ j - Len(old) < i - Len(old)
        BY <1>2, <2>1, <2>3, <3>2
      <4>2. QED BY <1>3, <2>1, <4>1
    <3>3. QED BY <1>2, <3>1, <3>2
  <2>4. Len(new) - Len(old) = res'.obsAdded
    <3>1. res'.obsAdded = Len(fresh)
      BY <1>3, <1>5, <2>1
    <3>2. QED BY <1>2, <2>1, <3>1
  <2>5. QED BY <1>1, <2>2, <2>3, <2>4 DEF Appended, old, new
<1>6. QED BY <1>4, <1>5

(* Generation has its turn once; a step that is not this turn leaves the   *)
(* entries alone, captions apart, and after it those and what was generated. *)
LEMMA AdditionTurn ==
    ASSUME TypeOK, EventTyped, Process, cfg.obs = "add"
    PROVE  \/ /\ AdditionOver' <=> AdditionOver
              /\ BareObs(obs') = BareObs(obs) /\ res'.obsAdded = res.obsAdded
              /\ AdditionOver => obs' = obs /\ gen' = gen
           \/ /\ ~AdditionOver /\ AdditionOver' /\ gen' = gen
              /\ AddObservables
<1> DEFINE Same ==
             /\ AdditionOver' <=> AdditionOver
             /\ BareObs(obs') = BareObs(obs) /\ res'.obsAdded = res.obsAdded
             /\ AdditionOver => obs' = obs /\ gen' = gen
           Made == ~AdditionOver /\ AdditionOver' /\ gen' = gen /\ AddObservables
<1> SUFFICES Same \/ Made
  OBVIOUS
<1> cfg \in Config
  BY InputAssumption DEF TypeOK
<1>1. cfg' = cfg /\ Len(Pipe') = Len(Pipe)
  BY ProcessKeeps DEF Pipe
<1>2. Len(Pipe) \in Nat \ {0} /\ Pipe[Len(Pipe)].obs
  BY LastDoesObservables DEF Pipe
<1>3. \A t \in 1 .. Len(Pipe) : Pipe[t].obs => t = Len(Pipe) /\ Pipe[t].action = "add"
  BY AddsObservables DEF Pipe
<1>4. CASE OnClass \/ OnClassDone
  <2>1. turn \in 1 .. Len(Pipe)
    BY <1>4, TurnAdvances DEF OnClass, OnClassDone
  <2>2. UNCHANGED <<obs, res>>
    BY <1>3, <1>4, <2>1 DEF OnClass, OnClassDone, RemoveObservables
  <2>3. ~AdditionOver /\ ~AdditionOver'
    BY <1>4 DEF OnClass, OnClassDone, AdditionOver
  <2>4. QED BY <2>2, <2>3
<1>5. CASE OnEventDone
  <2>1. /\ turn \in 1 .. Len(Pipe) /\ turn' = turn + 1 /\ gen' = gen
        /\ phase = "eventDone" /\ phase' = "eventDone" /\ ~AdditionOver
    BY <1>2, <1>5, TurnAdvances DEF OnEventDone, AdditionOver
  <2>2. CASE turn = Len(Pipe)
    <3>1. AddObservables
      BY <1>2, <1>3, <1>5, <2>1, <2>2 DEF OnEventDone
    <3>2. AdditionOver'
      BY <1>1, <1>2, <2>1, <2>2 DEF AdditionOver
    <3>3. QED BY <2>1, <3>1, <3>2
  <2>3. CASE turn # Len(Pipe)
    <3>1. UNCHANGED <<obs, res>>
      BY <1>3, <1>5, <2>1, <2>3 DEF OnEventDone
    <3>2. ~AdditionOver'
      BY <1>1, <1>2, <2>1, <2>3 DEF AdditionOver
    <3>3. QED BY <2>1, <3>1, <3>2
  <2>4. QED BY <2>2, <2>3
<1>6. CASE VisitPair \/ VisitOrdinary \/ VisitEntry
  <2>1. phase = "walk" /\ phase' = "walk"
    BY <1>6 DEF VisitPair, VisitOrdinary, VisitEntry, AtAttr, AtEntry, AtObs
  <2>2. ~AdditionOver /\ ~AdditionOver'
    BY <2>1 DEF AdditionOver
  <2>3. QED BY <1>6, <2>2, VisitsLeave
<1>7. CASE ClassVisited \/ WalkEnds \/ ClassDone
  <2>1. UNCHANGED <<obs, res>> /\ ~AdditionOver /\ ~AdditionOver'
    BY <1>1, <1>2, <1>7 DEF ClassVisited, WalkEnds, ClassDone, EndPart, AdditionOver
  <2>2. QED BY <2>1
<1>8. CASE SkipAttribute \/ ValidateAttribute \/ ValidateEntry \/ LeaveObservables
  <2>1. UNCHANGED <<obs, res>> /\ ~AdditionOver /\ ~AdditionOver'
    BY <1>8 DEF SkipAttribute, ValidateAttribute, ValidateEntry, LeaveObservables,
                AtAttr, AtObs, AtEntry, AdditionOver
  <2>2. QED BY <2>1
<1>9. CASE EventDone
  <2>1. UNCHANGED <<obs, res, gen>> /\ AdditionOver /\ AdditionOver'
    BY <1>2, <1>9 DEF EventDone, Past, AdditionOver
  <2>2. QED BY <2>1
<1>10. QED
  BY <1>4, <1>5, <1>6, <1>7, <1>8, <1>9 DEF Process

(* Generation that is over appended what it should.                        *)
LEMMA AdditionStep ==
    ASSUME TypeOK, EventTyped, GeneratedTrusted, AdditionSoFar, Process,
           calls > 0, Resolvable, cfg.obs = "add"
    PROVE  AdditionSoFar'
<1>1. UNCHANGED <<cfg, cls, calls, start>>
  BY ProcessKeeps
<1>2. CASE /\ AdditionOver' <=> AdditionOver
           /\ BareObs(obs') = BareObs(obs) /\ res'.obsAdded = res.obsAdded
           /\ AdditionOver => obs' = obs
  BY <1>1, <1>2, AdditionKept
<1>3. CASE ~AdditionOver /\ AdditionOver' /\ AddObservables
  <2>1. Appended'
    BY <1>1, <1>3, AdditionDone DEF AdditionSoFar
  <2>2. QED BY <1>3, <2>1 DEF AdditionSoFar
<1>4. QED BY <1>2, <1>3, AdditionTurn

(* The entries are the caller's or the caller's and new ones.              *)
LEMMA AdditionStaysSound == Spec => []AdditionSoFar
<1>1. Init => AdditionSoFar
  BY DEF Init, AdditionSoFar
<1>2. TypeOK /\ EventTyped /\ GeneratedTrusted /\ AdditionSoFar /\ [Next]_vars => AdditionSoFar'
  <2> SUFFICES ASSUME TypeOK, EventTyped, GeneratedTrusted, AdditionSoFar, [Next]_vars
               PROVE  AdditionSoFar'
    OBVIOUS
  <2>1. ASSUME NEW c \in Configs, Call(c) PROVE AdditionSoFar'
    BY <2>1 DEF Call, AdditionSoFar, AdditionOver, NoResult, Resolvable
  <2>2. CASE Process
    <3>1. CASE calls > 0 /\ Resolvable /\ cfg.obs = "add"
      BY <2>2, <3>1, AdditionStep
    <3>2. CASE ~(calls > 0 /\ Resolvable /\ cfg.obs = "add")
      BY <2>2, <3>2, ProcessKeeps DEF AdditionSoFar, Resolvable
    <3>3. QED BY <3>1, <3>2
  <2>3. CASE UNCHANGED vars
    <3>1. AdditionOver' <=> AdditionOver
      BY <2>3 DEF vars, AdditionOver, Pipe
    <3>2. QED BY <2>3, <3>1, AdditionKept DEF vars
  <2>4. QED BY <2>1, <2>2, <2>3 DEF Next
<1>3. QED BY <1>1, <1>2, TypeCorrect, EventStaysTyped, GeneratedStaysTrusted, PTL DEF Spec

(* Generation leaves the caller's entries where they are and appends       *)
(* entries that repeat none before them.                                   *)
THEOREM GenerationAppends == Spec => []GeneratedAppended
<1>1. AdditionSoFar => GeneratedAppended
  BY DEF AdditionSoFar, GeneratedAppended, Appended, AdditionOver, Done
<1>2. QED BY <1>1, AdditionStaysSound, PTL
-----------------------------------------------------------------------------
(* Removal undoes generation.                                              *)

(* Every entry is one of the first event or one that removal would take.   *)
Returnable ==
    \A x \in Range(Entries(obs)) :
      x \in Range(Entries(first.obs)) \/ Removable(x, attr, active)

ObservablesReturn ==
    calls > 0 /\ Resolvable /\ <<first.cfg.enum, first.cfg.obs>> = <<"none", "add">> =>
      /\ calls = 1 => cfg = first.cfg /\ Returnable
      /\ calls = 2 /\ <<cfg.enum, cfg.obs>> = <<"none", "remove">> =>
           /\ Returnable
           /\ RemovalOver => Range(Entries(obs)) \subseteq Range(Entries(first.obs))

(* Without enum work a call does not change the attributes, and the        *)
(* entries only where observables are added or removed.                    *)
LEMMA OnlyObservables ==
    ASSUME TypeOK, EventTyped, Process, cfg.enum = "none"
    PROVE  attr' = attr /\ (obs' = obs \/ OnClass \/ OnClassDone \/ OnEventDone)
<1>1. CASE OnClass \/ OnClassDone \/ OnEventDone \/ EventDone
  BY <1>1 DEF OnClass, OnClassDone, OnEventDone, EventDone
<1>2. CASE ClassVisited \/ WalkEnds \/ ClassDone
  BY <1>2 DEF ClassVisited, WalkEnds, ClassDone, EndPart
<1>3. CASE VisitPair \/ VisitOrdinary \/ VisitEntry
  BY <1>3, VisitsLeave
<1>4. CASE SkipAttribute \/ ValidateAttribute \/ ValidateEntry \/ LeaveObservables
  BY <1>4 DEF SkipAttribute, ValidateAttribute, ValidateEntry, LeaveObservables
<1>5. QED BY <1>1, <1>2, <1>3, <1>4 DEF Process

(* Generation adds only entries that removal would take.                   *)
LEMMA AdditionReturns ==
    ASSUME EventTyped, GeneratedTrusted, Returnable, AddObservables,
           UNCHANGED <<attr, active, first>>
    PROVE  Returnable'
<1>1. PICK fresh \in Seq(Entry) :
        /\ Range(fresh) \subseteq Range(gen)
        /\ obs.k = "other" => obs' = obs
        /\ obs.k # "other" => Entries(obs') = Entries(obs) \o fresh
  BY AdditionSound
<1>2. CASE obs.k = "other"
  BY <1>1, <1>2 DEF Returnable
<1>3. CASE obs.k # "other"
  <2>1. Entries(obs) \in Seq(Entry) /\ Entries(obs') = Entries(obs) \o fresh
    BY <1>1, <1>3, EmptySeq DEF EventTyped, ObsValue, Entries
  <2>2. ASSUME NEW x \in Range(Entries(obs'))
        PROVE  x \in Range(Entries(first.obs)) \/ Removable(x, attr, active)
    <3>1. PICK i \in DOMAIN (Entries(obs) \o fresh) : x = (Entries(obs) \o fresh)[i]
      BY <2>1 DEF Range
    <3>2. x \in Range(Entries(obs)) \/ x \in Range(fresh)
      BY <2>1, <3>1, ConcatParts DEF Range
    <3>3. x \in Range(gen) => Removable(x, attr, active)
      BY DEF GeneratedTrusted, Trusted, Removable
    <3>4. QED BY <1>1, <3>2, <3>3 DEF Returnable
  <2>3. QED BY <2>2 DEF Returnable
<1>4. QED BY <1>2, <1>3

(* Removal leaves only entries of the first event.                         *)
LEMMA RemovalReturns ==
    ASSUME EventTyped, Returnable, RemoveSafely
    PROVE  /\ Range(Entries(obs')) \subseteq Range(Entries(obs))
           /\ Range(Entries(obs')) \subseteq Range(Entries(first.obs))
<1>1. ASSUME NEW x \in Range(Entries(obs'))
      PROVE  x \in Range(Entries(obs)) /\ ~Removable(x, attr, active)
  <2>1. Entries(obs') = (IF obs.k = "array" THEN Selected(obs.s, Unremovable(obs.s)) ELSE <<>>)
    BY RemoveSafelySound
  <2>2. Entries(obs') = Selected(obs.s, Unremovable(obs.s)) /\ Entries(obs) = obs.s
    BY <1>1, <2>1 DEF Entries, Range
  <2>3. obs.s \in Seq(Entry) /\ Unremovable(obs.s) \in SUBSET DOMAIN obs.s
    BY DEF EventTyped, ObsValue, Unremovable
  <2> DEFINE I == Unremovable(obs.s)
  <2>4. \A n \in DOMAIN Selected(obs.s, I) :
           Ascending(I)[n] \in I /\ Selected(obs.s, I)[n] = obs.s[Ascending(I)[n]]
    BY <2>3, SelectedSound
  <2> HIDE DEF I
  <2>5. PICK n \in DOMAIN Selected(obs.s, I) : x = Selected(obs.s, I)[n]
    BY <1>1, <2>2 DEF Range, I
  <2>6. PICK i \in I : x = obs.s[i]
    BY <2>4, <2>5
  <2>7. i \in DOMAIN obs.s /\ ~Removable(obs.s[i], attr, active)
    BY DEF I, Unremovable
  <2>8. QED BY <2>2, <2>6, <2>7 DEF Range
<1>2. QED BY <1>1 DEF Returnable

(* Adding and then removing observables leaves only entries the caller     *)
(* supplied.                                                               *)
THEOREM RemovalUndoesGeneration == Spec => []ObservablesRoundTrip
<1>1. Init => ObservablesReturn
  BY DEF Init, ObservablesReturn
<1>2. TypeOK /\ EventTyped /\ GeneratedTrusted /\ ObservablesReturn /\ [Next]_vars
      => ObservablesReturn'
  <2> SUFFICES ASSUME TypeOK, EventTyped, GeneratedTrusted, ObservablesReturn, [Next]_vars
               PROVE  ObservablesReturn'
    OBVIOUS
  <2>1. ASSUME NEW c \in Configs, Call(c) PROVE ObservablesReturn'
    <3> SUFFICES ASSUME cls = "resolved", <<first'.cfg.enum, first'.cfg.obs>> = <<"none", "add">>
                 PROVE  ObservablesReturn'
      BY <2>1 DEF Call, ObservablesReturn, Resolvable
    <3>1. /\ calls \in Nat /\ calls' = calls + 1 /\ cfg' = c /\ UNCHANGED <<cls, attr, obs, active>>
      BY <2>1 DEF Call, TypeOK
    <3>2. CASE calls = 0
      <4>1. first' = [attr |-> attr, obs |-> obs, cfg |-> c]
        BY <2>1, <3>2 DEF Call
      <4>2. QED BY <3>1, <3>2, <4>1 DEF ObservablesReturn, Returnable
    <3>3. CASE calls = 1
      <4>1. first' = first /\ phase' = "class" /\ turn' = 1
        BY <2>1, <3>3 DEF Call
      <4>2. c.obs = "remove" => ~RemovalOver'
        <5>1. c.obs = "remove" => Len(Pipe') \in Nat \ {0}
          BY <3>1, InputAssumption, LastDoesObservables DEF Pipe
        <5>2. QED BY <4>1, <5>1 DEF RemovalOver
      <4>3. Returnable /\ Returnable'
        BY <3>1, <3>3, <4>1 DEF ObservablesReturn, Returnable, Resolvable
      <4>4. QED BY <3>1, <3>3, <4>2, <4>3 DEF ObservablesReturn
    <3>4. CASE calls > 1
      BY <3>1, <3>4 DEF ObservablesReturn
    <3>5. QED BY <3>1, <3>2, <3>3, <3>4
  <2>2. CASE Process
    <3>1. UNCHANGED <<cfg, cls, active, calls, first>> /\ Len(Pipe') = Len(Pipe)
      BY <2>2, ProcessKeeps DEF Pipe
    <3> SUFFICES ASSUME calls > 0, Resolvable,
                        <<first.cfg.enum, first.cfg.obs>> = <<"none", "add">>
                 PROVE  ObservablesReturn'
      BY <3>1 DEF ObservablesReturn, Resolvable
    <3> cfg \in Config
      BY InputAssumption DEF TypeOK
    <3>2. CASE calls = 1
      <4>1. cfg.enum = "none" /\ cfg.obs = "add" /\ Returnable /\ cfg = first.cfg
        BY <3>2 DEF ObservablesReturn
      <4>2. attr' = attr /\ (obs' = obs \/ AddObservables)
        <5>1. \A t \in 1 .. Len(Pipe) : Pipe[t].obs => Pipe[t].action = "add"
          BY <4>1, AddsObservables DEF Pipe
        <5>2. CASE OnClass \/ OnClassDone
          <6>1. turn \in 1 .. Len(Pipe)
            BY <5>2, TurnAdvances DEF OnClass, OnClassDone
          <6>2. QED BY <5>1, <5>2, <6>1 DEF OnClass, OnClassDone, RemoveObservables
        <5>3. CASE OnEventDone
          BY <5>3 DEF OnEventDone
        <5>4. QED BY <2>2, <4>1, <5>2, <5>3, OnlyObservables
      <4>3. Returnable'
        <5>1. CASE obs' = obs
          BY <3>1, <4>1, <4>2, <5>1 DEF Returnable
        <5>2. CASE AddObservables
          BY <3>1, <4>1, <4>2, <5>2, AdditionReturns
        <5>3. QED BY <4>2, <5>1, <5>2
      <4>4. QED BY <3>1, <3>2, <4>1, <4>3 DEF ObservablesReturn
    <3>3. CASE calls = 2 /\ cfg.enum = "none" /\ cfg.obs = "remove"
      <4>1. Returnable /\ (RemovalOver => Range(Entries(obs)) \subseteq Range(Entries(first.obs)))
        BY <3>3 DEF ObservablesReturn
      <4>2. attr' = attr /\ (RemoveSafely \/ (obs' = obs /\ (RemovalOver' <=> RemovalOver)))
        <5>1. /\ \A t \in 1 .. Len(Pipe) :
                    Pipe[t].obs => Pipe[t].action = "remove" /\ ~Pipe[t].defer
              /\ Len(Pipe) = 1 /\ Pipe[1].obs
          BY <3>3, AddsObservables, LastDoesObservables DEF Pipe
        <5>2. CASE OnClass
          <6>1. turn \in 1 .. Len(Pipe)
            BY <5>2, TurnAdvances DEF OnClass
          <6>2. QED BY <5>1, <5>2, <6>1 DEF OnClass, RemoveObservables
        <5>3. CASE OnClassDone \/ OnEventDone
          <6>1. turn \in 1 .. Len(Pipe)
            BY <5>3, TurnAdvances DEF OnClassDone, OnEventDone
          <6>2. UNCHANGED <<attr, obs, phase>> /\ phase \in {"classDone", "eventDone"}
            BY <5>1, <5>3, <6>1 DEF OnClassDone, OnEventDone, RemoveObservables
          <6>3. QED BY <3>1, <3>3, <6>2 DEF RemovalOver
        <5>4. CASE ~(OnClass \/ OnClassDone \/ OnEventDone)
          <6>1. attr' = attr /\ obs' = obs
            BY <2>2, <3>3, <5>4, OnlyObservables
          <6>2. RemovalOver' <=> RemovalOver
            <7>1. CASE ClassVisited \/ WalkEnds \/ ClassDone
              BY <3>1, <3>3, <5>1, <7>1
                 DEF ClassVisited, WalkEnds, ClassDone, EndPart, Past, RemovalOver
            <7>2. CASE EventDone
              BY <7>2 DEF EventDone, RemovalOver
            <7>3. CASE ~(ClassVisited \/ WalkEnds \/ ClassDone \/ EventDone)
              <8>1. phase = "walk" /\ phase' = "walk"
                BY <2>2, <5>4, <7>3 DEF Process, SkipAttribute, VisitPair, VisitOrdinary, VisitEntry,
                   ValidateAttribute, ValidateEntry, LeaveObservables, AtAttr, AtObs, AtEntry
              <8>2. QED BY <3>1, <3>3, <8>1 DEF RemovalOver
            <7>4. QED BY <7>1, <7>2, <7>3
          <6>3. QED BY <6>1, <6>2
        <5>5. QED BY <5>2, <5>3, <5>4
      <4>3. /\ Returnable'
            /\ RemovalOver' => Range(Entries(obs')) \subseteq Range(Entries(first'.obs))
        <5>1. CASE RemoveSafely
          BY <3>1, <4>1, <4>2, <5>1, RemovalReturns DEF Returnable
        <5>2. CASE obs' = obs /\ (RemovalOver' <=> RemovalOver)
          BY <3>1, <4>1, <4>2, <5>2 DEF Returnable
        <5>3. QED BY <4>2, <5>1, <5>2
      <4>4. QED BY <3>1, <3>3, <4>3 DEF ObservablesReturn
    <3>4. CASE calls # 1 /\ ~(calls = 2 /\ cfg.enum = "none" /\ cfg.obs = "remove")
      BY <3>1, <3>4 DEF ObservablesReturn
    <3>5. QED BY <3>2, <3>3, <3>4
  <2>3. CASE UNCHANGED vars
    <3>1. RemovalOver' <=> RemovalOver
      BY <2>3 DEF vars, RemovalOver, Pipe
    <3>2. QED BY <2>3, <3>1 DEF vars, ObservablesReturn, Returnable, Resolvable
  <2>4. QED BY <2>1, <2>2, <2>3 DEF Next
<1>3. ObservablesReturn => ObservablesRoundTrip
  BY DEF ObservablesReturn, ObservablesRoundTrip, RemovalOver, Done
<1>4. QED BY <1>1, <1>2, <1>3, TypeCorrect, EventStaysTyped, GeneratedStaysTrusted, PTL DEF Spec
-----------------------------------------------------------------------------
(* The counters of enum siblings.                                          *)

(* What one operation counts is what it makes of the sibling.              *)
Fits(o, sib) ==
    /\ o.added   = IF ~Present(sib) /\ Present(o.sib) THEN 1 ELSE 0
    /\ o.removed = IF sib.k # "absent" /\ o.sib.k = "absent" THEN 1 ELSE 0
    /\ o.retained \in Nat /\ o.retained <= IF Present(o.sib) THEN 1 ELSE 0

(* Every operation on a sibling counts what it does.                       *)
LEMMA WorkFits ==
    ASSUME NEW c \in Config, NEW t \in 1 .. Len(Pipeline(c)), NEW isArray \in BOOLEAN,
           NEW enum, NEW sib \in Value
    PROVE  /\ Fits(PairWork(Pipeline(c)[t], isArray, enum, sib), sib)
           /\ Fits(UnlinkedWork(Pipeline(c)[t], enum, sib), sib)
<1> DEFINE d == Pipeline(c)[t]
<1>1. sib.k \in {"absent", "null", "scalar", "array"}
  BY DEF Value
<1>2. Fits(Untouched(sib), sib)
  BY <1>1 DEF Fits, Untouched, Outcome, Present
<1>3. sib.k # "absent" => Fits(Deleted, sib)
  BY <1>1 DEF Fits, Deleted, Outcome, Present, AbsentV
<1>4. \A n : Present(sib) => Fits(Kept(sib, n), sib)
  BY <1>1 DEF Fits, Kept, Outcome, Present
<1>5. \A n : Fits(Outcome(sib, 0, 0, 0, n), sib)
  BY <1>1 DEF Fits, Outcome, Present
<1>6. \A x, n : ~Present(sib) /\ Present(x) => Fits(Outcome(x, 1, 0, 0, n), sib)
  BY <1>1 DEF Fits, Outcome, Present
<1>7. (\A x : Present(ScalarV(x))) /\ (\A x : Present(ArrayV(x)))
  BY DEF Present, ScalarV, ArrayV
<1>8. Present(sib) <=> sib.k \notin {"absent", "null"}
  BY <1>1 DEF Present
<1> HIDE DEF Fits
<1>9. Fits(AddPair(isArray, enum, sib), sib)
  BY <1>2, <1>5, <1>6, <1>7 DEF AddPair, AddScalar, AddArray
<1>10. ASSUME NEW force PROVE Fits(RemovePair(isArray, enum, sib, force), sib)
  <2>1. Present(sib) => Fits(RemoveArray(enum, sib, force), sib)
    BY <1>3, <1>4, <1>8 DEF RemoveArray
  <2>2. Present(sib) => Fits(RemoveScalar(enum, sib, force), sib)
    BY <1>3, <1>4, <1>8 DEF RemoveScalar
  <2>3. QED BY <1>2, <1>3, <1>8, <2>1, <2>2 DEF RemovePair
<1>11. Fits(RetainUnsupported(enum, sib), sib)
  BY <1>2, <1>3, <1>4, <1>8 DEF RetainUnsupported
<1>12. d.enums \in BOOLEAN /\ d.action \in {"add", "remove", "force"}
  BY DispatcherSound
<1> HIDE DEF d
<1>13. Fits(PairWork(d, isArray, enum, sib), sib)
  <2>1. CASE ~d.enums  BY <1>2, <2>1 DEF PairWork
  <2>2. CASE d.enums /\ d.action = "add"  BY <1>9, <2>2 DEF PairWork
  <2>3. CASE d.enums /\ d.action = "remove"  BY <1>10, <2>3 DEF PairWork
  <2>4. CASE d.enums /\ d.action = "force"  BY <1>10, <2>4 DEF PairWork
  <2>5. QED BY <1>12, <2>1, <2>2, <2>3, <2>4
<1>14. Fits(UnlinkedWork(d, enum, sib), sib)
  BY <1>2, <1>11 DEF UnlinkedWork
<1>15. QED BY <1>13, <1>14 DEF d

(* Slots S that held b hold a; those outside of T are as they were, and    *)
(* the counters r agree with the others.                                   *)
Gained(S, b, a)  == {x \in S : ~Present(b[x]) /\ Present(a[x])}
Lost(S, b, a)    == {x \in S : b[x].k # "absent" /\ a[x].k = "absent"}
Staying(T, a)    == {x \in T : Present(a[x])}

Tallied(S, b, a, T, r) ==
    /\ \A x \in S \ T : a[x] = b[x]
    /\ r.added = Cardinality(Gained(S, b, a))
    /\ r.removed = Cardinality(Lost(S, b, a))
    /\ r.retained \in Nat /\ r.retained <= Cardinality(Staying(T, a))

(* Slots that are dealt with and stay as they are.                         *)
LEMMA TallyKept ==
    ASSUME NEW S, IsFiniteSet(S), NEW b, NEW a, NEW T, NEW U \in SUBSET S, T \subseteq U,
           NEW r, Tallied(S, b, a, T, r),
           NEW q, q.added = r.added, q.removed = r.removed, q.retained = r.retained
    PROVE  Tallied(S, b, a, U, q)
<1>1. IsFiniteSet(Staying(U, a)) /\ Staying(T, a) \in SUBSET Staying(U, a)
  <2>1. Staying(U, a) \in SUBSET S
    BY DEF Staying
  <2>2. QED BY <2>1, FS_Subset DEF Staying
<1>2. /\ Cardinality(Staying(T, a)) \in Nat /\ Cardinality(Staying(U, a)) \in Nat
      /\ Cardinality(Staying(T, a)) <= Cardinality(Staying(U, a))
  BY <1>1, FS_Subset, FS_CardinalityType
<1> HIDE DEF Staying
<1>3. QED BY <1>2 DEF Tallied

(* One slot more is dealt with.                                            *)
LEMMA TallyMoved ==
    ASSUME NEW S, IsFiniteSet(S), NEW b, NEW a, NEW T, T \subseteq S,
           NEW r, Tallied(S, b, a, T, r), NEW x \in S \ T, NEW o, Fits(o, b[x]),
           NEW c, c[x] = o.sib, \A y \in S \ {x} : c[y] = a[y],
           NEW q, q.added = r.added + o.added, q.removed = r.removed + o.removed,
           q.retained = r.retained + o.retained
    PROVE  Tallied(S, b, c, T \cup {x}, q)
<1>1. a[x] = b[x] /\ (Present(b[x]) => b[x].k # "absent")
  BY DEF Tallied, Present
<1> DEFINE A == Gained(S, b, a)
           L == Lost(S, b, a)
           K == Staying(T, a)
           M == T \cup {x}
<1>2. /\ IsFiniteSet(A) /\ IsFiniteSet(L) /\ IsFiniteSet(K)
      /\ Cardinality(A) \in Nat /\ Cardinality(L) \in Nat /\ Cardinality(K) \in Nat
  <2>1. A \in SUBSET S /\ L \in SUBSET S /\ K \in SUBSET S
    BY DEF Gained, Lost, Staying
  <2>2. QED BY <2>1, FS_Subset, FS_CardinalityType
<1>3. x \notin A /\ x \notin L /\ x \notin K
  BY <1>1 DEF Gained, Lost, Staying
<1>4. Gained(S, b, c) = IF ~Present(b[x]) /\ Present(o.sib) THEN A \cup {x} ELSE A
  BY <1>1 DEF Gained
<1>5. Lost(S, b, c) = IF b[x].k # "absent" /\ o.sib.k = "absent" THEN L \cup {x} ELSE L
  BY <1>1 DEF Lost
<1>6. Staying(M, c) = IF Present(o.sib) THEN K \cup {x} ELSE K
  BY <1>1 DEF Staying
<1>7. \A y \in S \ M : c[y] = b[y]
  BY DEF Tallied
<1>8. /\ r.added = Cardinality(A) /\ r.removed = Cardinality(L)
      /\ r.retained \in Nat /\ r.retained <= Cardinality(K)
  BY DEF Tallied
<1> HIDE DEF A, L, K, M
<1>9. /\ Cardinality(A \cup {x}) = Cardinality(A) + 1
      /\ Cardinality(L \cup {x}) = Cardinality(L) + 1
      /\ Cardinality(K \cup {x}) = Cardinality(K) + 1
  BY <1>2, <1>3, FS_AddElement
<1>10. q.added = Cardinality(Gained(S, b, c))
  <2>1. o.added = IF ~Present(b[x]) /\ Present(o.sib) THEN 1 ELSE 0
    BY DEF Fits
  <2>2. QED BY <1>2, <1>4, <1>8, <1>9, <2>1
<1>11. q.removed = Cardinality(Lost(S, b, c))
  <2>1. o.removed = IF b[x].k # "absent" /\ o.sib.k = "absent" THEN 1 ELSE 0
    BY DEF Fits
  <2>2. QED BY <1>2, <1>5, <1>8, <1>9, <2>1
<1>12. q.retained \in Nat /\ q.retained <= Cardinality(Staying(M, c))
  <2>1. o.retained \in Nat /\ o.retained <= IF Present(o.sib) THEN 1 ELSE 0
    BY DEF Fits
  <2>2. QED BY <1>2, <1>6, <1>8, <1>9, <2>1
<1>13. QED BY <1>7, <1>10, <1>11, <1>12 DEF Tallied, M

(* The walk has been at an entry with its first dispatcher.                *)
EntryHandled(i) ==
    \/ Passed(Observables)
    \/ /\ phase = "walk" /\ pos \in DOMAIN Order /\ Here = Observables
       /\ i < ent \/ (i = ent /\ turn > 1)

SlotHandled(x) ==
    IF x[1] = "attr" THEN \E e \in EnumAttr : Sibling[e] = x[2] /\ Handled(e)
                     ELSE EntryHandled(x[2])

Held    == [x \in SiblingSlots |-> SlotBefore(x)]
Holds   == [x \in SiblingSlots |-> SlotAfter(x)]
Settled == {x \in SiblingSlots : SlotHandled(x)}

(* The caller's entries are there, next to them generated ones at most,    *)
(* and the counters agree with what the walk has dealt with.               *)
CountsSoFar ==
    calls > 0 /\ Resolvable /\ cfg.obs \in {"none", "add"} =>
      /\ Len(Entries(start.obs)) <= Len(Entries(obs))
      /\ phase \in {"class", "walk"} => Len(Entries(obs)) = Len(Entries(start.obs))
      /\ Tallied(SiblingSlots, Held, Holds, Settled, res)

(* There are finitely many slots.                                          *)
LEMMA SlotsFinite ==
    ASSUME EventTyped
    PROVE  IsFiniteSet(SiblingSlots)
<1>1. IsFiniteSet(DOMAIN Order)
  BY OrderIsList, FS_Interval
<1> DEFINE R == {<<"attr", Order[i]>> : i \in DOMAIN Order}
           E == {<<"entry", i>> : i \in DOMAIN Entries(start.obs)}
<1>2. IsFiniteSet(R)
  <2> DEFINE at == [i \in DOMAIN Order |-> <<"attr", Order[i]>>]
  <2>1. at \in Surjection(DOMAIN Order, R)
    BY DEF Surjection
  <2>2. QED BY <1>1, <2>1, FS_Surjection
<1>3. IsFiniteSet(DOMAIN Entries(start.obs))
  <2>1. Entries(start.obs) \in Seq(Entry)
    BY EmptySeq DEF EventTyped, ObsValue, Entries
  <2>2. QED BY <2>1, LenProperties, FS_Interval
<1>4. IsFiniteSet(E)
  <2> DEFINE D == DOMAIN Entries(start.obs)
             at == [i \in D |-> <<"entry", i>>]
  <2>1. at \in Surjection(D, E)
    BY DEF Surjection
  <2> HIDE DEF at, E
  <2>2. QED BY <1>3, <2>1, FS_Surjection
<1>5. SiblingSlots \subseteq R \cup E
  <2>1. \A e \in EnumAttr : \E i \in DOMAIN Order : Order[i] = Sibling[e]
    BY AttrAssumption, OrderAssumption
  <2>2. QED BY <2>1 DEF SiblingSlots
<1> HIDE DEF R, E
<1>6. IsFiniteSet(R \cup E)
  BY <1>2, <1>4, FS_Union
<1>7. QED BY <1>5, <1>6, FS_Subset

(* What the walk has been at it does not come to again.                    *)
LEMMA HandledStays ==
    ASSUME TypeOK, WalkFromStart, Process
    PROVE  /\ \A e \in EnumAttr : Handled(e) => Handled(e)'
           /\ \A i \in Nat : EntryHandled(i) => EntryHandled(i)'
<1> DEFINE Stays == /\ \A e : Passed(e) => Passed(e)'
                    /\ \A e \in EnumAttr : Handled(e) => Handled(e)'
                    /\ \A i \in Nat : EntryHandled(i) => EntryHandled(i)'
<1>1. CASE phase \in {"classDone", "eventDone"}
  <2>1. phase' \in {"classDone", "eventDone", "ready"}
    BY <1>1 DEF Process, OnClass, ClassVisited, SkipAttribute, VisitPair, VisitOrdinary, VisitEntry,
       ValidateAttribute, ValidateEntry, LeaveObservables, WalkEnds, OnClassDone, ClassDone,
       OnEventDone, EventDone, EndPart, AtEntry, AtObs, AtAttr
  <2>2. QED BY <2>1 DEF Passed, Handled, EntryHandled
<1>2. CASE phase = "class"
  BY <1>2 DEF Passed, Handled, EntryHandled
<1>3. CASE WalkEnds
  <2>1. phase' = "classDone"
    BY <1>3 DEF WalkEnds, EndPart
  <2>2. QED BY <2>1 DEF Passed, Handled, EntryHandled
<1>4. CASE SkipAttribute \/ ValidateAttribute \/ LeaveObservables
  <2>1. phase = "walk" /\ phase' = "walk" /\ pos \in DOMAIN Order /\ pos' = pos + 1
    BY <1>4, OrderIsList
       DEF SkipAttribute, ValidateAttribute, LeaveObservables, Advance, AtAttr, AtObs, TypeOK
  <2>2. \A e : Passed(e)' <=> Passed(e) \/ e = Here
    BY <2>1, AdvancePasses
  <2>3. QED BY <2>2 DEF Handled, EntryHandled
<1>5. CASE VisitPair \/ VisitOrdinary \/ VisitEntry
  <2>1. /\ phase = "walk" /\ phase' = "walk" /\ pos' = pos /\ ent' = ent /\ turn' = turn + 1
        /\ Here' = Here
    BY <1>5 DEF VisitPair, VisitOrdinary, VisitEntry, AtEntry, AtObs, AtAttr, Here
  <2>2. turn \in Int
    BY DEF TypeOK
  <2>3. \A e : Passed(e)' <=> Passed(e)
    BY <2>1 DEF Passed
  <2>4. QED BY <2>1, <2>2, <2>3 DEF Handled, EntryHandled
<1>6. CASE ValidateEntry
  <2>1. phase = "walk" /\ phase' = "walk" /\ pos' = pos /\ ent' = ent + 1 /\ ent \in Nat
        /\ Here = Observables /\ Here' = Here /\ pos \in DOMAIN Order
    BY <1>6, OrderIsList DEF ValidateEntry, AtEntry, AtObs, TypeOK, Here
  <2>2. \A e : Passed(e)' <=> Passed(e)
    BY <2>1 DEF Passed
  <2>3. Observables \notin EnumAttr
    BY AttrAssumption
  <2>4. QED BY <2>1, <2>2, <2>3 DEF Handled, EntryHandled
<1>7. CASE EventDone \/ ClassDone \/ OnClassDone \/ OnEventDone \/ OnClass \/ ClassVisited
  <2>1. phase \in {"class", "classDone", "eventDone"}
    BY <1>7 DEF EventDone, ClassDone, OnClassDone, OnEventDone, OnClass, ClassVisited, EndPart
  <2>2. QED BY <1>1, <1>2, <2>1
<1>8. QED
  BY <1>3, <1>4, <1>5, <1>6, <1>7 DEF Process

(* Neither is a sibling or a caption that has been dealt with.             *)
LEMMA SettledStays ==
    ASSUME TypeOK, EventTyped, WalkFromStart, Process
    PROVE  /\ SiblingSlots' = SiblingSlots /\ Held' = Held
           /\ Settled \subseteq Settled' /\ Settled' \in SUBSET SiblingSlots
<1>1. start' = start
  BY ProcessKeeps
<1>2. SiblingSlots' = SiblingSlots /\ Held' = Held
  BY <1>1 DEF SiblingSlots, Held, SlotBefore
<1>3. Entries(start.obs) \in Seq(Entry)
  BY EmptySeq DEF EventTyped, ObsValue, Entries
<1>4. ASSUME NEW x \in SiblingSlots, SlotHandled(x) PROVE SlotHandled(x)'
  <2>1. CASE x[1] = "attr"
    BY <1>4, <2>1, HandledStays DEF SlotHandled
  <2>2. CASE x[1] # "attr"
    <3>1. x[2] \in Nat
      BY <1>3, <2>2, LenProperties DEF SiblingSlots
    <3>2. QED BY <1>4, <2>2, <3>1, HandledStays DEF SlotHandled
  <2>3. QED BY <2>1, <2>2
<1>5. QED BY <1>2, <1>4 DEF Settled

(* A step that writes no sibling and moves no counter of siblings.         *)
LEMMA CountsKept ==
    ASSUME TypeOK, EventTyped, WalkFromStart, Process, CountsSoFar,
           calls > 0, Resolvable, cfg.obs \in {"none", "add"},
           res'.added = res.added, res'.removed = res.removed, res'.retained = res.retained,
           attr' = attr,
           \A i \in DOMAIN Entries(start.obs) : obs'.s[i].typ = obs.s[i].typ
    PROVE  Tallied(SiblingSlots, Held, Holds, Settled, res)'
<1>1. Tallied(SiblingSlots, Held, Holds, Settled, res)
  BY DEF CountsSoFar
<1>2. Holds' = Holds
  <2>1. \A x \in SiblingSlots : SlotAfter(x)' = SlotAfter(x)
    BY DEF SiblingSlots, SlotAfter
  <2>2. QED BY <2>1, SettledStays DEF Holds
<1>3. IsFiniteSet(SiblingSlots)
  BY SlotsFinite
<1> HIDE DEF Holds, Held, Settled, SiblingSlots
<1>4. Tallied(SiblingSlots, Held, Holds, Settled', res')
  BY <1>1, <1>3, SettledStays, TallyKept
<1>5. QED BY <1>2, <1>4, SettledStays

(* A step of the walk that deals with one sibling.                         *)
LEMMA CountsMoved ==
    ASSUME TypeOK, EventTyped, WalkFromStart, Process, CountsSoFar,
           calls > 0, Resolvable, cfg.obs \in {"none", "add"},
           NEW o, res'.added = res.added + o.added, res'.removed = res.removed + o.removed,
           res'.retained = res.retained + o.retained,
           NEW x \in SiblingSlots, ~SlotHandled(x), SlotHandled(x)', Fits(o, SlotAfter(x)),
           SlotAfter(x)' = o.sib, \A y \in SiblingSlots \ {x} : SlotAfter(y)' = SlotAfter(y)
    PROVE  Tallied(SiblingSlots, Held, Holds, Settled, res)'
<1>1. Tallied(SiblingSlots, Held, Holds, Settled, res)
  BY DEF CountsSoFar
<1>2. /\ x \in SiblingSlots \ Settled /\ x \in Settled' /\ Settled \subseteq SiblingSlots
      /\ Holds'[x] = o.sib /\ \A y \in SiblingSlots \ {x} : Holds'[y] = Holds[y]
      /\ Holds[x] = SlotAfter(x)
  BY SettledStays DEF Settled, Holds
<1>3. Held[x] = SlotAfter(x)
  BY <1>1, <1>2 DEF Tallied
<1>4. IsFiniteSet(SiblingSlots)
  BY SlotsFinite
<1> DEFINE c == Holds'  U == Settled'  M == Settled \cup {x}
<1>5. /\ c[x] = o.sib /\ \A y \in SiblingSlots \ {x} : c[y] = Holds[y]
      /\ M \subseteq U /\ U \in SUBSET SiblingSlots
  BY <1>2, SettledStays
<1> HIDE DEF Holds, Held, Settled, SiblingSlots, c, U
<1>6. Tallied(SiblingSlots, Held, c, M, res')
  BY <1>1, <1>2, <1>3, <1>4, <1>5, TallyMoved
<1> HIDE DEF M
<1>7. Tallied(SiblingSlots, Held, c, U, res')
  BY <1>4, <1>5, <1>6, TallyKept
<1>8. QED BY <1>7, SettledStays DEF c, U

(* What a visit counts of siblings is what the operation counted.          *)
LEMMA ChargeTallies ==
    ASSUME NEW r \in Result, NEW n
    PROVE  /\ Report(r, n).added = r.added /\ Report(r, n).removed = r.removed
           /\ Report(r, n).retained = r.retained
           /\ \A o : /\ Charge(r, o).added = r.added + o.added
                     /\ Charge(r, o).removed = r.removed + o.removed
                     /\ Charge(r, o).retained = r.retained + o.retained
<1>1. \A q : /\ DOMAIN q = DOMAIN r => /\ Report(q, n).added = q.added
                                       /\ Report(q, n).removed = q.removed
                                       /\ Report(q, n).retained = q.retained
  BY DEF Report, Result
<1>2. ASSUME NEW o
      PROVE  /\ Charge(r, o).added = r.added + o.added
             /\ Charge(r, o).removed = r.removed + o.removed
             /\ Charge(r, o).retained = r.retained + o.retained
  <2> DEFINE x == r.added + o.added
             y == r.removed + o.removed
             z == r.retained + o.retained
             q == [r EXCEPT !.added = x, !.removed = y, !.retained = z]
  <2>1. Charge(r, o) = Report(q, o.issues)
    BY DEF Charge
  <2> HIDE DEF x, y, z
  <2>2. q.added = x /\ q.removed = y /\ q.retained = z
    BY DEF Result
  <2>3. \A m : /\ Report(q, m).added = q.added /\ Report(q, m).removed = q.removed
               /\ Report(q, m).retained = q.retained
    BY DEF Report, Result
  <2>4. QED BY <2>1, <2>2, <2>3 DEF x, y, z
<1>3. QED BY <1>1, <1>2

(* Dispatchers after the first do nothing to a sibling.                    *)
LEMMA LaterLeaveSiblings ==
    ASSUME NEW c \in Config, NEW t \in 1 .. Len(Pipeline(c)), t > 1,
           NEW isArray, NEW enum, NEW sib
    PROVE  /\ PairWork(Pipeline(c)[t], isArray, enum, sib) = Untouched(sib)
           /\ UnlinkedWork(Pipeline(c)[t], enum, sib) = Untouched(sib)
           /\ ~Pipeline(c)[t].enums
<1>1. ~Pipeline(c)[t].enums
  BY FirstDoesEnums, NoEnumWork
<1>2. QED BY <1>1 DEF PairWork, UnlinkedWork

(* The visit of an enum with a sibling.                                    *)
LEMMA SiblingTallied ==
    ASSUME TypeOK, EventTyped, WalkFromStart, Process, CountsSoFar,
           calls > 0, Resolvable, cfg.obs \in {"none", "add"},
           phase = "walk", pos \in DOMAIN Order, Here \in EnumAttr, turn \in 1 .. Len(Pipe),
           phase' = phase, pos' = pos, turn' = turn + 1, obs' = obs,
           NEW isArray \in BOOLEAN,
           NEW o, \/ o = PairWork(Pipe[turn], isArray, attr[Here], attr[Sibling[Here]])
                  \/ o = UnlinkedWork(Pipe[turn], attr[Here], attr[Sibling[Here]]),
           attr' = [attr EXCEPT ![Sibling[Here]] = o.sib],
           res'.added = res.added + o.added, res'.removed = res.removed + o.removed,
           res'.retained = res.retained + o.retained
    PROVE  Tallied(SiblingSlots, Held, Holds, Settled, res)'
<1> cfg \in Config
  BY InputAssumption DEF TypeOK
<1>1. /\ Sibling[Here] \in Attr /\ attr \in [Attr -> Value] /\ attr[Sibling[Here]] \in Value
      /\ Here' = Here
  BY AttrAssumption DEF TypeOK, Here
<1>2. CASE turn = 1
  <2>0. PICK h \in EnumAttr : h = Here
    OBVIOUS
  <2> DEFINE x == <<"attr", Sibling[h]>>
  <2>1. x \in SiblingSlots /\ x[1] = "attr" /\ x[2] = Sibling[h]
    BY DEF SiblingSlots
  <2>2. ~SlotHandled(x)
    <3>1. ~Passed(Here)
      BY HereNotPassed
    <3>2. ~Handled(Here)
      BY <1>2, <3>1 DEF Handled
    <3>3. QED BY <2>0, <2>1, <3>2, SiblingAssumption DEF SlotHandled
  <2>3. SlotHandled(x)'
    <3>1. Handled(Here)'
      BY <1>1, <1>2 DEF Handled
    <3>2. QED BY <1>1, <2>0, <2>1, <3>1 DEF SlotHandled
  <2>4. SlotAfter(x) = attr[Sibling[Here]] /\ SlotAfter(x)' = o.sib
    BY <1>1, <2>0, <2>1 DEF SlotAfter
  <2>5. Fits(o, attr[Sibling[Here]])
    BY <1>1, WorkFits DEF Pipe
  <2>6. ASSUME NEW y \in SiblingSlots \ {x} PROVE SlotAfter(y)' = SlotAfter(y)
    <3>1. CASE y[1] = "attr"
      <4>1. PICK e \in EnumAttr : y = <<"attr", Sibling[e]>>
        BY <3>1 DEF SiblingSlots
      <4>2. Sibling[e] # Sibling[Here] /\ Sibling[e] \in Attr
        BY <2>0, <2>6, <4>1, AttrAssumption
      <4>3. QED BY <1>1, <3>1, <4>1, <4>2 DEF SlotAfter
    <3>2. CASE y[1] # "attr"
      BY <3>2 DEF SlotAfter
    <3>3. QED BY <3>1, <3>2
  <2>7. Fits(o, SlotAfter(x))
    BY <2>4, <2>5
  <2> HIDE DEF x
  <2>8. QED BY <2>1, <2>2, <2>3, <2>4, <2>6, <2>7, CountsMoved
<1>3. CASE turn > 1
  <2>1. o = Untouched(attr[Sibling[Here]])
    BY <1>3, LaterLeaveSiblings DEF Pipe
  <2>2. o.sib = attr[Sibling[Here]] /\ o.added = 0 /\ o.removed = 0 /\ o.retained = 0
    BY <2>1 DEF Untouched, Outcome
  <2>3. attr' = attr
    BY <1>1, <2>2
  <2>4. res.added \in Nat /\ res.removed \in Nat /\ res.retained \in Nat
    BY DEF EventTyped, Result
  <2>5. res'.added = res.added /\ res'.removed = res.removed /\ res'.retained = res.retained
    BY <2>2, <2>4
  <2>6. QED BY <2>3, <2>5, CountsKept
<1>4. QED BY <1>2, <1>3

(* The visits of attributes.                                               *)
LEMMA VisitTallied ==
    ASSUME TypeOK, EventTyped, WalkFromStart, CountsSoFar, VisitPair \/ VisitOrdinary,
           calls > 0, Resolvable, cfg.obs \in {"none", "add"}
    PROVE  Tallied(SiblingSlots, Held, Holds, Settled, res)'
<1>1. /\ AtAttr /\ ~Past /\ phase' = phase /\ pos' = pos /\ turn' = turn + 1 /\ obs' = obs
      /\ cfg' = cfg /\ Process
  BY DEF VisitPair, VisitOrdinary, Process
<1>2. phase = "walk" /\ pos \in DOMAIN Order /\ turn \in 1 .. Len(Pipe)
  BY <1>1, OrderIsList, TurnAdvances DEF AtAttr, TypeOK
<1>3. res \in Result
  BY DEF EventTyped
<1>4. ASSUME NEW o, NEW n, res' = Report(Charge(res, o), n),
             o.added \in Nat, o.removed \in Nat, o.retained \in Nat, o.issues \in Nat
      PROVE  /\ res'.added = res.added + o.added /\ res'.removed = res.removed + o.removed
             /\ res'.retained = res.retained + o.retained
  <2>1. Charge(res, o) \in Result
    BY <1>3, <1>4, ChargeCounts
  <2>2. QED BY <1>3, <1>4, <2>1, ChargeTallies
<1> cfg \in Config
  BY InputAssumption DEF TypeOK
<1>5. (Here \in ArrayAttr) \in BOOLEAN
  OBVIOUS
<1>6. CASE VisitPair
  <2> DEFINE o == PairWork(Pipe[turn], Here \in ArrayAttr, attr[Here], attr[Sibling[Here]])
  <2>1. /\ Here \in EnumAttr /\ attr' = [attr EXCEPT ![Sibling[Here]] = o.sib]
        /\ \E n : res' = Report(Charge(res, o), n)
    BY <1>6, OwnerIsEnum DEF VisitPair
  <2>2. o.added \in Nat /\ o.removed \in Nat /\ o.retained \in Nat /\ o.issues \in Nat
    BY <1>2, PairWorkCounts DEF Pipe
  <2>3. o = PairWork(Pipe[turn], Here \in ArrayAttr, attr[Here], attr[Sibling[Here]])
    OBVIOUS
  <2> HIDE DEF o
  <2>4. /\ res'.added = res.added + o.added /\ res'.removed = res.removed + o.removed
        /\ res'.retained = res.retained + o.retained
    BY <1>4, <2>1, <2>2
  <2>5. QED BY <1>1, <1>2, <1>5, <2>1, <2>3, <2>4, SiblingTallied
<1>7. CASE VisitOrdinary /\ Here \in EnumAttr \ Resolved
  <2> DEFINE o == UnlinkedWork(Pipe[turn], attr[Here], attr[Sibling[Here]])
  <2>1. /\ attr' = [attr EXCEPT ![Sibling[Here]] = o.sib]
        /\ \E n : res' = Report(Charge(res, o), n)
    BY <1>7 DEF VisitOrdinary
  <2>2. o.added \in Nat /\ o.removed \in Nat /\ o.retained \in Nat /\ o.issues \in Nat
    BY <1>2, PairWorkCounts DEF Pipe
  <2>3. o = UnlinkedWork(Pipe[turn], attr[Here], attr[Sibling[Here]])
    OBVIOUS
  <2> HIDE DEF o
  <2>4. /\ res'.added = res.added + o.added /\ res'.removed = res.removed + o.removed
        /\ res'.retained = res.retained + o.retained
    BY <1>4, <2>1, <2>2
  <2>5. QED BY <1>1, <1>2, <1>5, <1>7, <2>1, <2>3, <2>4, SiblingTallied
<1>8. CASE VisitOrdinary /\ Here \notin EnumAttr \ Resolved
  <2>1. attr' = attr /\ \E n : res' = Report(res, n)
    BY <1>8 DEF VisitOrdinary
  <2>2. res'.added = res.added /\ res'.removed = res.removed /\ res'.retained = res.retained
    BY <1>3, <2>1, ChargeTallies
  <2>3. QED BY <1>1, <2>1, <2>2, CountsKept
<1>9. QED BY <1>6, <1>7, <1>8

(* The visit of an entry.                                                  *)
LEMMA EntryTallied ==
    ASSUME TypeOK, EventTyped, WalkFromStart, CountsSoFar, VisitEntry,
           calls > 0, Resolvable, cfg.obs \in {"none", "add"}
    PROVE  /\ Tallied(SiblingSlots, Held, Holds, Settled, res)'
           /\ Len(Entries(obs')) = Len(Entries(obs))
<1> DEFINE d == Pipe[turn]
           e == obs.s[ent]
           o == PairWork(d, FALSE, e.tid, e.typ)
<1> cfg \in Config
  BY InputAssumption DEF TypeOK
<1>1. /\ AtEntry /\ ~Past /\ phase' = phase /\ pos' = pos /\ ent' = ent /\ turn' = turn + 1
      /\ attr' = attr /\ cfg' = cfg /\ Process
  BY DEF VisitEntry, Process
<1>2. phase = "walk" /\ pos \in DOMAIN Order /\ Here = Observables /\ turn \in 1 .. Len(Pipe)
      /\ obs.k = "array"
  BY <1>1, OrderIsList, TurnAdvances DEF AtEntry, AtObs, TypeOK
<1>3. /\ res \in Result /\ obs \in ObsValue /\ obs.s \in Seq(Entry) /\ Len(obs.s) \in Nat
      /\ DOMAIN obs.s = 1 .. Len(obs.s) /\ Entries(obs) = obs.s
  BY <1>2, LenProperties DEF EventTyped, ObsValue, Entries
<1>4. ent \in 1 .. Len(obs.s)
  BY <1>1, <1>3 DEF AtEntry, TypeOK
<1>5. e \in Entry
  BY <1>3, <1>4, ElementOfSeq
<1>6. /\ Len(obs.s) = Len(Entries(start.obs)) /\ DOMAIN Entries(start.obs) = 1 .. Len(obs.s)
  <2>1. Entries(start.obs) \in Seq(Entry)
    BY EmptySeq DEF EventTyped, ObsValue, Entries
  <2>2. Len(obs.s) = Len(Entries(start.obs))
    BY <1>2, <1>3 DEF CountsSoFar
  <2>3. QED BY <2>1, <2>2, LenProperties
<1>7. CASE ~(d.enums /\ e.map)
  <2>1. obs' = obs /\ res' = res
    BY <1>7 DEF VisitEntry
  <2>2. QED BY <1>1, <2>1, CountsKept
<1>8. CASE d.enums /\ e.map
  <2>0. PICK n \in 1 .. Len(obs.s) : n = ent
    BY <1>4
  <2> DEFINE x == <<"entry", n>>
  <2>1. obs' = [obs EXCEPT !.s[ent].typ = o.sib] /\ res' = Charge(res, o)
    BY <1>8 DEF VisitEntry
  <2>2. turn = 1
    BY <1>2, <1>8, LaterLeaveSiblings DEF Pipe
  <2>3. x \in SiblingSlots /\ x[1] # "attr" /\ x[2] = n
    BY <1>6 DEF SiblingSlots
  <2>4. ~SlotHandled(x)
    <3>1. ~Passed(Observables)
      BY <1>2, HereNotPassed
    <3>2. ent \in Nat
      BY DEF TypeOK
    <3>3. QED BY <2>0, <2>2, <2>3, <3>1, <3>2 DEF SlotHandled, EntryHandled
  <2>5. SlotHandled(x)'
    <3>1. EntryHandled(n)'
      BY <1>1, <1>2, <2>0, <2>2 DEF EntryHandled, Here
    <3>2. QED BY <1>1, <2>3, <3>1 DEF SlotHandled
  <2>6. /\ obs'.k = "array" /\ DOMAIN obs'.s = DOMAIN obs.s /\ obs'.s[ent].typ = o.sib
        /\ \A i \in DOMAIN obs.s \ {ent} : obs'.s[i] = obs.s[i]
    <3>1. obs.s[ent] \in Entry
      BY <1>5
    <3> HIDE DEF o, e
    <3> DEFINE f == [obs.s[ent] EXCEPT !.typ = o.sib]
               t == [obs.s EXCEPT ![ent] = f]
    <3>2. f.typ = o.sib
      BY <3>1 DEF Entry
    <3>3. obs' = [obs EXCEPT !.s = t]
      BY <1>3, <2>1 DEF ObsValue
    <3> HIDE DEF f
    <3>4. DOMAIN t = DOMAIN obs.s /\ t[ent] = f /\ \A i \in DOMAIN obs.s \ {ent} : t[i] = obs.s[i]
      BY <1>3, <1>4
    <3> HIDE DEF t
    <3>5. obs'.s = t /\ obs'.k = obs.k
      BY <1>3, <3>3 DEF ObsValue
    <3>6. QED BY <1>2, <3>2, <3>4, <3>5
  <2>7. SlotAfter(x) = e.typ /\ SlotAfter(x)' = o.sib
    BY <2>0, <2>3, <2>6 DEF SlotAfter
  <2>8. Fits(o, e.typ) /\ o.added \in Nat /\ o.removed \in Nat /\ o.retained \in Nat
    <3>1. e.typ \in Value
      BY <1>5 DEF Entry
    <3>2. QED BY <1>2, <3>1, WorkFits, PairWorkCounts DEF Pipe
  <2>9. ASSUME NEW y \in SiblingSlots \ {x} PROVE SlotAfter(y)' = SlotAfter(y)
    <3>1. CASE y[1] = "attr"
      BY <1>1, <3>1 DEF SlotAfter
    <3>2. CASE y[1] # "attr"
      <4>1. PICK i \in DOMAIN Entries(start.obs) : y = <<"entry", i>>
        BY <3>2 DEF SiblingSlots
      <4>2. i \in DOMAIN obs.s \ {ent}
        BY <1>3, <1>6, <2>0, <2>9, <4>1
      <4>3. QED BY <2>6, <3>2, <4>1, <4>2 DEF SlotAfter
    <3>3. QED BY <3>1, <3>2
  <2>10. /\ res'.added = res.added + o.added /\ res'.removed = res.removed + o.removed
         /\ res'.retained = res.retained + o.retained
    BY <1>3, <2>1, ChargeTallies
  <2>11. Len(Entries(obs')) = Len(Entries(obs))
    <3>1. obs' \in ObsValue
      BY EntryVisited
    <3>2. obs'.s \in Seq(Entry)
      BY <3>1 DEF ObsValue
    <3>3. Len(obs'.s) = Len(obs.s)
      BY <1>3, <2>6, <3>2, LenProperties
    <3>4. QED BY <1>3, <2>6, <3>3 DEF Entries
  <2>12. Fits(o, SlotAfter(x))
    BY <2>7, <2>8
  <2> HIDE DEF x, o, e
  <2>13. Tallied(SiblingSlots, Held, Holds, Settled, res)'
    BY <1>1, <2>3, <2>4, <2>5, <2>7, <2>9, <2>10, <2>12, CountsMoved
  <2>14. QED BY <2>11, <2>13
<1>9. QED BY <1>7, <1>8

(* Generation leaves the captions and the counters of siblings alone.      *)
LEMMA GenerationTallied ==
    ASSUME EventTyped, AddObservables, start' = start, NEW m \in Nat, m <= Len(Entries(obs))
    PROVE  /\ res'.added = res.added /\ res'.removed = res.removed
           /\ res'.retained = res.retained
           /\ m <= Len(Entries(obs')) /\ \A i \in 1 .. m : obs'.s[i] = obs.s[i]
<1> DEFINE old   == Entries(obs)
           fresh == Deduplicated(old, gen)
<1>1. /\ fresh \in Seq(Entry) /\ Len(fresh) \in Nat
      /\ obs.k = "other" => obs' = obs
      /\ obs.k # "other" => obs'.s = old \o fresh /\ Entries(obs') = old \o fresh
  BY AddSound
<1>2. old \in Seq(Entry) /\ Len(old) \in Nat /\ (obs.k = "array" \/ old = <<>>)
      /\ (obs.k = "array" => old = obs.s)
  <2>1. old \in Seq(Entry)
    BY EmptySeq DEF EventTyped, ObsValue, Entries
  <2>2. QED BY <2>1, LenProperties DEF Entries
<1>3. /\ res'.added = res.added /\ res'.removed = res.removed /\ res'.retained = res.retained
  <2> DEFINE x == res.obsAdded + Len(fresh)
             r == [res EXCEPT !.obsAdded = x]
  <2>1. res \in Result /\ res.obsAdded \in Nat
    BY DEF EventTyped, Result
  <2>2. res' = res \/ (\E n : res' = Report(res, n)) \/ \E n : res' = Report(r, n)
    BY DEF AddObservables, Entries
  <2>3. x \in Nat
    BY <1>1, <2>1
  <2> HIDE DEF x
  <2>4. r \in Result /\ r.added = res.added /\ r.removed = res.removed /\ r.retained = res.retained
    BY <2>1, <2>3 DEF Result
  <2> HIDE DEF r
  <2>5. QED BY <2>1, <2>2, <2>4, ChargeTallies
<1> HIDE DEF old, fresh
<1>4. CASE obs.k = "other"
  BY <1>1, <1>3, <1>4
<1>5. CASE obs.k # "other"
  <2>1. /\ Len(old \o fresh) = Len(old) + Len(fresh)
        /\ \A i \in 1 .. Len(old) + Len(fresh) :
             (old \o fresh)[i] = IF i <= Len(old) THEN old[i] ELSE fresh[i - Len(old)]
    BY <1>1, <1>2, ConcatProperties
  <2>2. m <= Len(old)
    BY DEF old
  <2>3. \A i \in 1 .. m : (old \o fresh)[i] = old[i]
    BY <1>1, <1>2, <2>1, <2>2
  <2>4. \A i \in 1 .. m : old[i] = obs.s[i]
    <3>1. Len(<<>>) = 0
      OBVIOUS
    <3>2. old = <<>> => m = 0
      BY <2>2, <3>1
    <3>3. QED BY <1>2, <3>2
  <2>5. m <= Len(old \o fresh)
    BY <1>1, <1>2, <2>1, <2>2
  <2>6. QED BY <1>1, <1>3, <1>5, <2>3, <2>4, <2>5
<1>6. QED BY <1>4, <1>5

(* Every step of a call keeps the counters in agreement with the event.    *)
LEMMA CountsStep ==
    ASSUME TypeOK, EventTyped, WalkFromStart, CountsSoFar, Process
    PROVE  CountsSoFar'
<1>1. UNCHANGED <<cfg, cls, calls, start>>
  BY ProcessKeeps
<1> SUFFICES ASSUME calls > 0, Resolvable, cfg.obs \in {"none", "add"}
             PROVE  /\ Len(Entries(start.obs)) <= Len(Entries(obs'))
                    /\ phase' \in {"class", "walk"} => Len(Entries(obs')) = Len(Entries(start.obs))
                    /\ Tallied(SiblingSlots, Held, Holds, Settled, res)'
  BY <1>1 DEF CountsSoFar, Resolvable
<1> cfg \in Config
  BY InputAssumption DEF TypeOK
<1>2. /\ Len(Entries(start.obs)) <= Len(Entries(obs))
      /\ phase \in {"class", "walk"} => Len(Entries(obs)) = Len(Entries(start.obs))
  BY DEF CountsSoFar
<1>3. /\ Len(Entries(start.obs)) \in Nat
      /\ DOMAIN Entries(start.obs) = 1 .. Len(Entries(start.obs))
  <2>1. Entries(start.obs) \in Seq(Entry)
    BY EmptySeq DEF EventTyped, ObsValue, Entries
  <2>2. QED BY <2>1, LenProperties
<1>4. ASSUME UNCHANGED <<attr, obs, res>>, phase' \in {"class", "walk"} => phase \in {"class", "walk"}
      PROVE  /\ Len(Entries(start.obs)) <= Len(Entries(obs'))
             /\ phase' \in {"class", "walk"} => Len(Entries(obs')) = Len(Entries(start.obs))
             /\ Tallied(SiblingSlots, Held, Holds, Settled, res)'
  BY <1>2, <1>4, CountsKept
<1>5. CASE OnClass \/ OnClassDone
  <2>1. turn \in 1 .. Len(Pipe) /\ phase' = phase
    BY <1>5, TurnAdvances DEF OnClass, OnClassDone
  <2>2. Pipe[turn].obs => Pipe[turn].action \notin {"remove", "force"}
    BY <2>1, AddsObservables DEF Pipe
  <2>3. UNCHANGED <<attr, obs, res>>
    BY <1>5, <2>2 DEF OnClass, OnClassDone, RemoveObservables
  <2>4. QED BY <1>4, <2>1, <2>3
<1>6. CASE OnEventDone
  <2>1. attr' = attr /\ phase' = "eventDone"
    BY <1>6 DEF OnEventDone
  <2>2. CASE AddObservables
    <3>1. /\ res'.added = res.added /\ res'.removed = res.removed /\ res'.retained = res.retained
          /\ Len(Entries(start.obs)) <= Len(Entries(obs'))
          /\ \A i \in 1 .. Len(Entries(start.obs)) : obs'.s[i] = obs.s[i]
      BY <1>1, <1>2, <1>3, <2>2, GenerationTallied
    <3>2. Tallied(SiblingSlots, Held, Holds, Settled, res)'
      BY <1>3, <2>1, <3>1, CountsKept
    <3>3. QED BY <2>1, <3>1, <3>2
  <2>3. CASE UNCHANGED <<obs, res>>
    BY <1>2, <2>1, <2>3, CountsKept
  <2>4. QED BY <1>6, <2>2, <2>3 DEF OnEventDone
<1>7. CASE VisitPair \/ VisitOrdinary
  <2>1. obs' = obs /\ phase = "walk"
    BY <1>7 DEF VisitPair, VisitOrdinary, AtAttr
  <2>2. Tallied(SiblingSlots, Held, Holds, Settled, res)'
    BY <1>7, VisitTallied
  <2>3. QED BY <1>2, <2>1, <2>2
<1>8. CASE VisitEntry
  <2>1. phase = "walk"
    BY <1>8 DEF VisitEntry, AtEntry, AtObs
  <2>2. /\ Tallied(SiblingSlots, Held, Holds, Settled, res)'
        /\ Len(Entries(obs')) = Len(Entries(obs))
    BY <1>8, EntryTallied
  <2>3. QED BY <1>2, <2>1, <2>2
<1>9. CASE ClassVisited \/ WalkEnds \/ ClassDone
  <2>1. UNCHANGED <<attr, obs, res>> /\ (phase' \in {"class", "walk"} => phase = "class")
    BY <1>9 DEF ClassVisited, WalkEnds, ClassDone, EndPart
  <2>2. QED BY <1>4, <2>1
<1>10. CASE SkipAttribute \/ ValidateAttribute \/ ValidateEntry \/ LeaveObservables \/ EventDone
  <2>1. UNCHANGED <<attr, obs, res>> /\ (phase' = phase \/ phase' = "ready")
    BY <1>10 DEF SkipAttribute, ValidateAttribute, ValidateEntry, LeaveObservables, EventDone
  <2>2. QED BY <1>4, <2>1
<1>11. QED
  BY <1>5, <1>6, <1>7, <1>8, <1>9, <1>10 DEF Process

(* The counters tell what became of the siblings, no more and no less.     *)
THEOREM CountersTellTheEvent == Spec => []CountersMatch
<1>1. Init => CountsSoFar
  BY DEF Init, CountsSoFar
<1>2. TypeOK /\ EventTyped /\ WalkFromStart /\ CountsSoFar /\ [Next]_vars => CountsSoFar'
  <2> SUFFICES ASSUME TypeOK, EventTyped, WalkFromStart, CountsSoFar, [Next]_vars
               PROVE  CountsSoFar'
    OBVIOUS
  <2>1. ASSUME NEW c \in Configs, Call(c) PROVE CountsSoFar'
    <3> SUFFICES ASSUME Resolvable
                 PROVE  /\ Len(Entries(start'.obs)) <= Len(Entries(obs'))
                        /\ Len(Entries(obs')) = Len(Entries(start'.obs))
                        /\ Tallied(SiblingSlots, Held, Holds, Settled, res)'
      BY <2>1 DEF Call, CountsSoFar, Resolvable
    <3>1. attr' = attr /\ obs' = obs /\ start' = [attr |-> attr, obs |-> obs] /\ res' = NoResult
      BY <2>1 DEF Call, Resolvable
    <3>2. Len(Entries(obs)) \in Nat
      <4>1. Entries(obs) \in Seq(Entry)
        BY EmptySeq DEF EventTyped, ObsValue, Entries
      <4>2. QED BY <4>1, LenProperties
    <3>3. Holds' = Held'
      BY <3>1 DEF Holds, Held, SiblingSlots, SlotAfter, SlotBefore
    <3>4. ASSUME NEW S, IsFiniteSet(S), NEW b, NEW T \in SUBSET S
          PROVE  Tallied(S, b, b, T, NoResult)
      <4>1. Gained(S, b, b) = {} /\ Lost(S, b, b) = {}
        BY DEF Gained, Lost
      <4>2. Staying(T, b) \in SUBSET S
        BY DEF Staying
      <4>3. Cardinality(Staying(T, b)) \in Nat
        BY <3>4, <4>2, FS_Subset, FS_CardinalityType
      <4>4. /\ NoResult.added = 0 /\ NoResult.removed = 0 /\ NoResult.retained = 0
            /\ Cardinality({}) = 0
        BY FS_EmptySet DEF NoResult
      <4> HIDE DEF Staying, Gained, Lost
      <4>5. QED BY <4>1, <4>3, <4>4 DEF Tallied
    <3>5. IsFiniteSet(SiblingSlots')
      <4>1. EventTyped'
        <5>1. NoResult \in Result
          BY DEF NoResult, Result
        <5>2. gen' \in Seq(Entry) /\ genStart' \in Int
          BY <2>1, EmptySeq DEF Call
        <5>3. QED BY <3>1, <5>1, <5>2 DEF EventTyped
      <4>2. EventTyped' => IsFiniteSet(SiblingSlots)'
        BY SlotsFinite, PTL
      <4>3. QED BY <4>1, <4>2
    <3>6. Settled' \in SUBSET SiblingSlots'
      BY DEF Settled
    <3> DEFINE S == SiblingSlots'  b == Held'  T == Settled'
    <3>7. IsFiniteSet(S) /\ T \in SUBSET S /\ Holds' = b
      BY <3>3, <3>5, <3>6
    <3> HIDE DEF S, b, T, SiblingSlots, Held, Settled, Holds
    <3>8. Tallied(S, b, b, T, NoResult)
      BY <3>4, <3>7
    <3>9. QED BY <3>1, <3>2, <3>7, <3>8 DEF S, b, T
  <2>2. CASE Process
    BY <2>2, CountsStep
  <2>3. CASE UNCHANGED vars
    <3>1. /\ UNCHANGED <<start, attr, obs, phase, pos, turn, ent, res, cls, calls, cfg>>
      BY <2>3 DEF vars
    <3>2. SiblingSlots' = SiblingSlots /\ Held' = Held /\ Holds' = Holds
      BY <3>1 DEF SiblingSlots, Held, Holds, SlotAfter, SlotBefore
    <3>3. \A e : Passed(e)' <=> Passed(e)
      BY <3>1 DEF Passed
    <3>4. \A x : SlotHandled(x)' <=> SlotHandled(x)
      BY <3>1, <3>3 DEF SlotHandled, EntryHandled, Handled, Here
    <3>5. Settled' = Settled
      BY <3>2, <3>4 DEF Settled
    <3>6. QED BY <3>1, <3>2, <3>5 DEF CountsSoFar, Resolvable
  <2>4. QED BY <2>1, <2>2, <2>3 DEF Next
<1>3. TypeOK /\ EventTyped /\ CountsSoFar => CountersMatch
  <2> SUFFICES ASSUME EventTyped, CountsSoFar, Done, Resolvable, cfg.obs \in {"none", "add"}
               PROVE  /\ res.added = Cardinality({x \in SiblingSlots :
                                        ~Present(SlotBefore(x)) /\ Present(SlotAfter(x))})
                      /\ res.removed = Cardinality({x \in SiblingSlots :
                                        SlotBefore(x).k # "absent" /\ SlotAfter(x).k = "absent"})
                      /\ res.retained <= Cardinality({x \in SiblingSlots : Present(SlotAfter(x))})
    BY DEF CountersMatch
  <2>1. Tallied(SiblingSlots, Held, Holds, Settled, res)
    BY DEF CountsSoFar, Done
  <2>2. /\ Gained(SiblingSlots, Held, Holds) = {x \in SiblingSlots :
                                        ~Present(SlotBefore(x)) /\ Present(SlotAfter(x))}
        /\ Lost(SiblingSlots, Held, Holds) = {x \in SiblingSlots :
                                        SlotBefore(x).k # "absent" /\ SlotAfter(x).k = "absent"}
    BY DEF Gained, Lost, Held, Holds
  <2> DEFINE K == {x \in SiblingSlots : Present(SlotAfter(x))}
             Y == Staying(Settled, Holds)
  <2>3. Y \in SUBSET K /\ K \in SUBSET SiblingSlots
    BY DEF Staying, Settled, Holds
  <2> HIDE DEF K, Y
  <2>4. IsFiniteSet(K)
    BY <2>3, SlotsFinite, FS_Subset
  <2>5. Cardinality(Y) <= Cardinality(K) /\ Cardinality(Y) \in Nat /\ Cardinality(K) \in Nat
    BY <2>3, <2>4, FS_Subset, FS_CardinalityType
  <2>6. res.retained \in Nat /\ res.retained <= Cardinality(Y)
    BY <2>1 DEF Tallied, Y
  <2>7. res.retained <= Cardinality(K)
    BY <2>5, <2>6
  <2>8. QED BY <2>1, <2>2, <2>7 DEF Tallied, K
<1>4. QED BY <1>1, <1>2, <1>3, TypeCorrect, EventStaysTyped, WalkStarts, PTL DEF Spec

-----------------------------------------------------------------------------
(* Processing an event again.                                              *)

(* What the first dispatcher makes of the sibling of an enum where the     *)
(* walk meets it, and of the caption of an entry.                          *)
SiblingWork(e) ==
    IF PairOwner(e) THEN PairWork(Pipe[1], e \in ArrayAttr, attr[e], attr[Sibling[e]]).sib
    ELSE IF e \in Resolved \/ Skipped(e) THEN attr[Sibling[e]]
    ELSE UnlinkedWork(Pipe[1], attr[e], attr[Sibling[e]]).sib

CaptionWork(x) == IF x.map THEN PairWork(Pipe[1], FALSE, x.tid, x.typ).sib ELSE x.typ

CaptionSettled(x) == CaptionWork(x) = x.typ

(* Enum work has nothing left to do where the walk has been.               *)
SiblingsSettled ==
    calls > 0 /\ Resolvable /\ cfg.enum # "none" =>
      /\ \A e \in EnumAttr : Handled(e) => SiblingWork(e) = attr[Sibling[e]]
      /\ \A g \in Range(gen) : CaptionSettled(g)
      /\ Observables \in Range(Order) =>
           \A i \in DOMAIN Entries(obs) : EntryHandled(i) => CaptionSettled(obs.s[i])

(* The identities of what value v of attribute a contributes; the value    *)
(* that is harvested where the walk is at attribute b; an entry that is    *)
(* found again among those of s.                                           *)
Offer(indexed, a, n, x) ==
    <<"path", a, IF indexed /\ a \in ArrayAttr THEN n ELSE 0, ScalarV(TypeIdOf[a]),
      IF a \in ObjectAttr THEN AbsentV ELSE ScalarV(Text[x])>>

Offers(indexed, a, v) ==
    IF a \in DOMAIN TypeIdOf /\ v.k = (IF a \in ArrayAttr THEN "array" ELSE "scalar")
    THEN {Offer(indexed, a, n, v.s[n]) : n \in {m \in DOMAIN v.s : Formattable(a, v.s[m])}}
    ELSE {}

Site(b) == IF PairOwner(b) THEN Sibling[b] ELSE b

Found(q, s)   == \E y \in Range(s) : Identified(y) /\ Identity(y) = q
Covered(x, s) == Found(Identity(x), s)

(* All dispatchers have been at attribute b.                               *)
Through(b) ==
    Passed(b) \/ (phase = "walk" /\ pos \in DOMAIN Order /\ Here = b /\ turn > Len(Pipe))

(* What the attributes could contribute again was generated in this call.  *)
HarvestSoFar ==
    calls > 0 /\ Resolvable /\ cfg.obs = "add" =>
      \A b \in Attr : ~Skipped(b) /\ Through(b) =>
        \A q \in Offers(cfg.indexed, Site(b), attr[Site(b)]) : Found(q, gen)

(* What removal and addition leave, they would leave again.                *)
RemovalSettled ==
    IF cfg.obs = "force" THEN obs = NoObs
    ELSE \/ obs.k \in {"absent", "other"}
         \/ /\ obs.k = "array" /\ obs.s # <<>>
            /\ \A i \in DOMAIN obs.s : ~Removable(obs.s[i], attr, active)

AdditionSettled ==
    \/ obs.k = "other"
    \/ /\ obs = NoObs \/ (obs.k = "array" /\ obs.s # <<>>)
       /\ \A x \in Range(gen) : Covered(x, Entries(obs))

ObservablesSettled ==
    calls > 0 /\ Resolvable =>
      /\ cfg.obs \in {"remove", "force"} /\ RemovalOver => RemovalSettled
      /\ cfg.obs = "add" /\ AdditionOver => AdditionSettled

(* Nothing is left to do for a pipeline like the one in use.               *)
AtRest ==
    /\ cfg.enum # "none" =>
         /\ \A e \in EnumAttr : SiblingWork(e) = attr[Sibling[e]]
         /\ Observables \in Range(Order) =>
              \A i \in DOMAIN Entries(obs) : CaptionSettled(obs.s[i])
    /\ cfg.obs \in {"remove", "force"} => RemovalSettled
    /\ cfg.obs = "add" =>
         \/ obs.k = "other"
         \/ /\ obs = NoObs \/ (obs.k = "array" /\ obs.s # <<>>)
            /\ \A b \in Attr : ~Skipped(b) =>
                 \A q \in Offers(cfg.indexed, Site(b), attr[Site(b)]) : Found(q, Entries(obs))
            /\ \A x \in Range(gen) : Covered(x, Entries(obs))

(* An event processed again by the same pipeline is as it was.             *)
SecondSoFar ==
    calls > 0 =>
      /\ calls = 1 => first.cfg = cfg
      /\ ~Resolvable => phase = "ready" /\ attr = start.attr /\ obs = start.obs
      /\ calls = 2 /\ Resolvable /\ first.cfg = cfg =>
           AtRest /\ attr = start.attr /\ obs = start.obs

(* Work on a sibling that is done has nothing more to do.                  *)
LEMMA WorkSettles ==
    ASSUME NEW c \in Config, NEW t \in 1 .. Len(Pipeline(c)), NEW isArray, NEW enum, NEW sib
    PROVE  LET d == Pipeline(c)[t]
               p == PairWork(d, isArray, enum, sib).sib
               u == UnlinkedWork(d, enum, sib).sib
           IN  PairWork(d, isArray, enum, p).sib = p /\ UnlinkedWork(d, enum, u).sib = u
<1> DEFINE d == Pipeline(c)[t]
<1>1. d.enums \in BOOLEAN /\ d.action \in {"add", "remove", "force"}
  BY DispatcherSound
<1>2. \A x : Untouched(x).sib = x
  BY DEF Untouched, Outcome
<1>3. AddPair(isArray, enum, sib).sib = sib \/ Present(AddPair(isArray, enum, sib).sib)
  BY DEF AddPair, AddScalar, AddArray, Outcome, Untouched, Present, ScalarV, ArrayV
<1>4. \A x : Present(x) => AddPair(isArray, enum, x).sib = x
  BY <1>2 DEF AddPair, AddScalar, AddArray
<1>5. \A x : Kept(x, 0).sib = x /\ Kept(x, 1).sib = x
  BY DEF Kept, Outcome
<1>6. \A force : \A x : RemovePair(isArray, enum, x, force).sib \in {x, AbsentV}
  BY <1>2, <1>5 DEF RemovePair, RemoveScalar, RemoveArray, Deleted, Outcome
<1>7. \A force : RemovePair(isArray, enum, AbsentV, force).sib = AbsentV
  BY <1>2 DEF RemovePair, AbsentV
<1>8. \A x : RetainUnsupported(enum, x).sib \in {x, AbsentV}
  BY <1>2, <1>5 DEF RetainUnsupported, Deleted, Outcome
<1>9. RetainUnsupported(enum, AbsentV).sib = AbsentV
  BY <1>2 DEF RetainUnsupported, AbsentV
<1> HIDE DEF d
<1>10. PairWork(d, isArray, enum, PairWork(d, isArray, enum, sib).sib).sib =
       PairWork(d, isArray, enum, sib).sib
  <2>1. CASE ~d.enums  BY <1>2, <2>1 DEF PairWork
  <2>2. CASE d.enums /\ d.action = "add"
    <3> DEFINE p == PairWork(d, isArray, enum, sib).sib
    <3>1. \A x : PairWork(d, isArray, enum, x) = AddPair(isArray, enum, x)
      BY <2>2 DEF PairWork
    <3>2. p = sib \/ Present(p)
      BY <1>3, <3>1
    <3>3. p = sib => AddPair(isArray, enum, sib).sib = sib
      BY <3>1
    <3> HIDE DEF p
    <3>4. AddPair(isArray, enum, p).sib = p
      BY <1>4, <3>2, <3>3
    <3>5. QED BY <3>1, <3>4 DEF p
  <2>3. CASE d.enums /\ d.action = "remove"
    <3> DEFINE p == PairWork(d, isArray, enum, sib).sib
    <3>1. \A x : PairWork(d, isArray, enum, x) = RemovePair(isArray, enum, x, FALSE)
      BY <2>3 DEF PairWork
    <3>2. p \in {sib, AbsentV} /\ (p = sib => RemovePair(isArray, enum, sib, FALSE).sib = sib)
      BY <1>6, <3>1
    <3> HIDE DEF p
    <3>3. RemovePair(isArray, enum, p, FALSE).sib = p
      BY <1>7, <3>2
    <3>4. QED BY <3>1, <3>3 DEF p
  <2>4. CASE d.enums /\ d.action = "force"
    <3> DEFINE p == PairWork(d, isArray, enum, sib).sib
    <3>1. \A x : PairWork(d, isArray, enum, x) = RemovePair(isArray, enum, x, TRUE)
      BY <2>4 DEF PairWork
    <3>2. p \in {sib, AbsentV} /\ (p = sib => RemovePair(isArray, enum, sib, TRUE).sib = sib)
      BY <1>6, <3>1
    <3> HIDE DEF p
    <3>3. RemovePair(isArray, enum, p, TRUE).sib = p
      BY <1>7, <3>2
    <3>4. QED BY <3>1, <3>3 DEF p
  <2>5. QED BY <1>1, <2>1, <2>2, <2>3, <2>4
<1>11. UnlinkedWork(d, enum, UnlinkedWork(d, enum, sib).sib).sib = UnlinkedWork(d, enum, sib).sib
  BY <1>2, <1>8, <1>9 DEF UnlinkedWork
<1>12. QED BY <1>10, <1>11 DEF d

(* Unlinked work removes what is no value, or nothing.                     *)
LEMMA UnlinkedRemovesNoValue ==
    ASSUME NEW d, NEW enum, NEW sib
    PROVE  UnlinkedWork(d, enum, sib).sib = sib \/ ~Present(UnlinkedWork(d, enum, sib).sib)
BY DEF UnlinkedWork, RetainUnsupported, Untouched, Deleted, Kept, Outcome, Present, AbsentV

(* Every member of a set of positions is listed.                           *)
LEMMA AscendingReaches ==
    ASSUME NEW m \in Nat, NEW I \in SUBSET (1 .. m), NEW i \in I
    PROVE  \E n \in DOMAIN Ascending(I) : Ascending(I)[n] = i
<1> DEFINE n == Cardinality(UpTo(I, i))
<1>2. IsFiniteSet(I) /\ \A x \in I : x \in Int
  BY PositionsFinite
<1>3. \A x \in I : UpTo(I, x) \subseteq I /\ x \in UpTo(I, x)
  BY <1>2 DEF UpTo
<1>4. n \in 1 .. Cardinality(I)
  <2>1. IsFiniteSet(UpTo(I, i)) /\ n <= Cardinality(I)
    BY <1>2, <1>3, FS_Subset
  <2>2. n \in Nat /\ Cardinality(I) \in Nat
    BY <1>2, <2>1, FS_CardinalityType
  <2>3. n # 0
    BY <1>3, <2>1, FS_EmptySet
  <2>4. QED BY <2>1, <2>2, <2>3
<1> HIDE DEF n
<1>5. PICK k \in I : k = Ascending(I)[n] /\ Cardinality(UpTo(I, k)) = n
  <2>1. \E x \in I : Cardinality(UpTo(I, x)) = n
    BY DEF n
  <2>2. Ascending(I)[n] = CHOOSE x \in I : Cardinality(UpTo(I, x)) = n
    BY <1>4 DEF Ascending, UpTo
  <2>3. QED BY <2>1, <2>2
<1>6. ASSUME NEW x \in I, NEW y \in I, x < y, Cardinality(UpTo(I, x)) = Cardinality(UpTo(I, y))
      PROVE  FALSE
  <2>1. \A z \in I : z <= x => z <= y
    BY <1>2, <1>6
  <2>2. UpTo(I, x) \subseteq UpTo(I, y)
    BY <2>1 DEF UpTo
  <2>3. IsFiniteSet(UpTo(I, y))
    BY <1>2, <1>3, FS_Subset
  <2>4. UpTo(I, x) = UpTo(I, y)
    BY <1>6, <2>2, <2>3, FS_Subset
  <2>5. y <= x
    BY <1>3, <2>4 DEF UpTo
  <2>6. QED BY <1>2, <1>6, <2>5
<1>7. k = i
  BY <1>2, <1>5, <1>6 DEF n
<1>8. QED BY <1>4, <1>5, <1>7, AscendingSound

(* Every selected position has its place in the selection.                 *)
LEMMA SelectedHolds ==
    ASSUME NEW S, NEW s \in Seq(S), NEW I \in SUBSET DOMAIN s, NEW i \in I
    PROVE  s[i] \in Range(Selected(s, I))
<1>1. Len(s) \in Nat /\ DOMAIN s = 1 .. Len(s)
  BY LenProperties
<1>2. PICK n \in DOMAIN Ascending(I) : Ascending(I)[n] = i
  BY <1>1, AscendingReaches
<1>3. DOMAIN Ascending(I) = 1 .. Cardinality(I)
  BY <1>1, AscendingSound
<1>4. n \in DOMAIN Selected(s, I) /\ Selected(s, I)[n] = s[i]
  BY <1>2, <1>3, SelectedSound
<1>5. QED BY <1>4 DEF Range

(* Selecting everything, and selecting nothing.                            *)
LEMMA SelectedEnds ==
    ASSUME NEW S, NEW s \in Seq(S)
    PROVE  Selected(s, DOMAIN s) = s /\ Selected(s, {}) = <<>>
<1>1. Len(s) \in Nat /\ DOMAIN s = 1 .. Len(s)
  BY LenProperties
<1>2. Selected(s, {}) = <<>>
  <2>1. Cardinality({}) = 0
    BY FS_EmptySet
  <2>2. Selected(s, {}) \in Seq(S) /\ Len(Selected(s, {})) = 0
    BY <2>1, SelectedSound
  <2>3. QED BY <2>2, EmptySeq
<1> DEFINE I == DOMAIN s
<1>3. Cardinality(I) = Len(s) /\ \A n \in I : Cardinality(UpTo(I, n)) = n
  <2>1. ASSUME NEW n \in I PROVE Cardinality(UpTo(I, n)) = n
    <3>1. UpTo(I, n) = 1 .. n /\ n \in Nat
      BY <1>1 DEF UpTo
    <3>2. QED BY <3>1, FS_Interval
  <2>2. ASSUME NEW n \in Nat PROVE Cardinality(1 .. n) = n
    BY FS_Interval
  <2>3. Cardinality(1 .. Len(s)) = Len(s)
    BY <1>1, <2>2
  <2>4. QED BY <1>1, <2>1, <2>3
<1>4. \A n \in I : Ascending(I)[n] = n
  <2>1. ASSUME NEW n \in I PROVE Ascending(I)[n] = n
    <3>1. Ascending(I)[n] = CHOOSE i \in I : Cardinality(UpTo(I, i)) = n
      BY <1>1, <1>3 DEF Ascending, UpTo
    <3>2. \A i \in I : Cardinality(UpTo(I, i)) = n <=> i = n
      BY <1>3
    <3>3. QED BY <3>1, <3>2
  <2>2. QED BY <2>1
<1>5. /\ Selected(s, I) \in Seq(S) /\ Len(Selected(s, I)) = Len(s)
      /\ \A n \in 1 .. Len(s) : Selected(s, I)[n] = s[n]
  BY <1>1, <1>3, <1>4, SelectedSound
<1>6. Selected(s, I) = s
  <2> HIDE DEF I
  <2>1. QED BY <1>5, SeqEqual
<1>7. QED BY <1>2, <1>6

(* Whatever was generated is found again in the entries it was added to.   *)
LEMMA DeduplicatedCovers ==
    ASSUME NEW old \in Seq(Entry), NEW g \in Seq(Entry), \A x \in Range(g) : Identified(x)
    PROVE  \A x \in Range(g) : Covered(x, old) \/ Covered(x, Deduplicated(old, g))
<1> DEFINE I == {i \in DOMAIN g :
                   ~\E x \in Range(old) \cup {g[j] : j \in 1 .. i - 1} :
                       Identified(x) /\ Identity(x) = Identity(g[i])}
<1>1. I \in SUBSET DOMAIN g /\ Deduplicated(old, g) = Selected(g, I)
  BY DEF Deduplicated
<1>2. \A i \in DOMAIN g : i \in I \/ Covered(g[i], old)
                          \/ \E j \in 1 .. i - 1 : Identity(g[j]) = Identity(g[i])
  BY DEF Covered, Found
<1>3. Len(g) \in Nat /\ DOMAIN g = 1 .. Len(g)
  BY LenProperties
<1> HIDE DEF I
<1> SUFFICES ASSUME NEW i \in DOMAIN g
             PROVE  Covered(g[i], old) \/ Covered(g[i], Selected(g, I))
  BY <1>1 DEF Range
<1> DEFINE J == {j \in DOMAIN g : Identity(g[j]) = Identity(g[i])}
<1>4. PICK k \in J : \A j \in J : k <= j
  <2>1. J \subseteq Nat /\ J # {}
    BY <1>3
  <2>2. QED BY <2>1, LeastPosition
<1>5. k \in DOMAIN g /\ Identity(g[k]) = Identity(g[i]) /\ k \in Nat
  BY <1>3, <1>4
<1>6. ~\E j \in 1 .. k - 1 : Identity(g[j]) = Identity(g[k])
  <2> SUFFICES ASSUME NEW j \in 1 .. k - 1, Identity(g[j]) = Identity(g[k]) PROVE FALSE
    OBVIOUS
  <2>1. j \in DOMAIN g /\ j < k
    BY <1>3, <1>5
  <2>2. j \in J
    BY <1>5, <2>1
  <2>3. QED BY <1>4, <1>5, <2>1, <2>2
<1>7. CASE k \in I
  <2>1. g[k] \in Range(Selected(g, I))
    BY <1>1, <1>7, SelectedHolds
  <2>2. Identified(g[k])
    BY <1>5 DEF Range
  <2>3. QED BY <1>5, <2>1, <2>2 DEF Covered, Found
<1>8. CASE Covered(g[k], old)
  BY <1>5, <1>8 DEF Covered, Found
<1>9. QED BY <1>2, <1>5, <1>6, <1>7, <1>8

(* Nothing is new next to entries in which it is found again.              *)
LEMMA DeduplicatedNone ==
    ASSUME NEW old, NEW g \in Seq(Entry), \A x \in Range(g) : Covered(x, old)
    PROVE  Deduplicated(old, g) = <<>>
<1> DEFINE I == {i \in DOMAIN g :
                   ~\E x \in Range(old) \cup {g[j] : j \in 1 .. i - 1} :
                       Identified(x) /\ Identity(x) = Identity(g[i])}
<1>1. Deduplicated(old, g) = Selected(g, I)
  BY DEF Deduplicated
<1>2. I = {}
  <2>1. \A i \in DOMAIN g : Covered(g[i], old)
    BY DEF Range
  <2>2. QED BY <2>1 DEF Covered, Found
<1>3. QED BY <1>1, <1>2, SelectedEnds

(* The visit of an attribute: the sibling it may have gets the work there  *)
(* is, from the first dispatcher alone, and then its value is harvested.   *)
LEMMA AttributeVisited ==
    ASSUME TypeOK, VisitPair \/ VisitOrdinary
    PROVE  /\ phase = "walk" /\ phase' = "walk" /\ pos \in DOMAIN Order /\ pos' = pos /\ Here' = Here
           /\ turn \in 1 .. Len(Pipe) /\ turn' = turn + 1
           /\ Here \in Attr /\ ~Skipped(Here) /\ Site(Here) \in Attr /\ obs' = obs
           /\ attr' = IF Here \in EnumAttr
                      THEN [attr EXCEPT ![Sibling[Here]] =
                              IF turn = 1 THEN SiblingWork(Here) ELSE attr[Sibling[Here]]]
                      ELSE attr
           /\ gen' = gen \o Harvest(Pipe[turn], Site(Here), attr'[Site(Here)]).new
<1> cfg \in Config
  BY InputAssumption DEF TypeOK
<1>1. /\ phase = "walk" /\ phase' = "walk" /\ pos \in DOMAIN Order /\ pos' = pos /\ Here' = Here
      /\ turn \in 1 .. Len(Pipe) /\ turn' = turn + 1 /\ AtAttr /\ obs' = obs
  <2>1. AtAttr /\ ~Past /\ UNCHANGED <<phase, pos, obs, cfg>> /\ turn' = turn + 1
    BY DEF VisitPair, VisitOrdinary
  <2>2. pos \in DOMAIN Order /\ Here' = Here
    BY <2>1, OrderIsList DEF AtAttr, TypeOK, Here
  <2>3. QED BY <2>1, <2>2, TurnAdvances DEF AtAttr
<1>2. Here \in Attr /\ attr \in [Attr -> Value] /\ \A e \in EnumAttr : Sibling[e] \in Attr
  BY <1>1, OrderIsList, AttrAssumption DEF AtAttr, Here, TypeOK
<1>3. \A x : Untouched(x).sib = x
  BY DEF Untouched, Outcome
<1>4. turn # 1 => turn > 1
  BY <1>1
<1>5. CASE VisitPair
  <2> DEFINE sib == Sibling[Here]
             o   == PairWork(Pipe[turn], Here \in ArrayAttr, attr[Here], attr[sib])
  <2>1. /\ PairOwner(Here) /\ attr' = [attr EXCEPT ![sib] = o.sib]
        /\ gen' = gen \o Harvest(Pipe[turn], sib, o.sib).new
    BY <1>5 DEF VisitPair
  <2>2. Here \in EnumAttr /\ sib \in Attr /\ ~Skipped(Here) /\ Site(Here) = sib
    BY <2>1, OwnerIsEnum DEF Site
  <2>3. o.sib = IF turn = 1 THEN SiblingWork(Here) ELSE attr[sib]
    <3>1. turn = 1 => o.sib = SiblingWork(Here)
      BY <2>1 DEF SiblingWork
    <3>2. turn # 1 => o.sib = attr[sib]
      BY <1>1, <1>3, <1>4, LaterLeaveSiblings DEF Pipe
    <3>3. QED BY <3>1, <3>2
  <2> HIDE DEF o, sib
  <2>4. attr'[sib] = o.sib
    BY <1>2, <2>1, <2>2
  <2>5. QED BY <1>1, <1>2, <2>1, <2>2, <2>3, <2>4 DEF sib
<1>6. CASE VisitOrdinary
  <2> DEFINE o == UnlinkedWork(Pipe[turn], attr[Here], attr[Sibling[Here]])
  <2>1. /\ ~PairOwner(Here) /\ ~Skipped(Here) /\ Site(Here) = Here
        /\ gen' = gen \o Harvest(Pipe[turn], Here, attr[Here]).new
    BY <1>6 DEF VisitOrdinary, Site
  <2>2. CASE Here \in EnumAttr \ Resolved
    <3>1. attr' = [attr EXCEPT ![Sibling[Here]] = o.sib]
      BY <1>6, <2>2 DEF VisitOrdinary
    <3>2. o.sib = IF turn = 1 THEN SiblingWork(Here) ELSE attr[Sibling[Here]]
      <4>1. turn = 1 => o.sib = SiblingWork(Here)
        BY <2>1, <2>2 DEF SiblingWork
      <4>2. turn # 1 => o.sib = attr[Sibling[Here]]
        BY <1>1, <1>3, <1>4, LaterLeaveSiblings DEF Pipe
      <4>3. QED BY <4>1, <4>2
    <3> HIDE DEF o
    <3>3. attr'[Here] = attr[Here]
      BY <1>2, <2>2, <3>1, SiblingAssumption
    <3>4. QED BY <1>1, <1>2, <2>1, <2>2, <3>1, <3>2, <3>3
  <2>3. CASE Here \notin EnumAttr \ Resolved
    <3>1. attr' = attr
      BY <1>6, <2>3 DEF VisitOrdinary
    <3>2. Here \in EnumAttr => SiblingWork(Here) = attr[Sibling[Here]]
      BY <2>1, <2>3 DEF SiblingWork
    <3>3. attr = [attr EXCEPT ![Sibling[Here]] = attr[Sibling[Here]]]
      BY <1>2
    <3>4. QED BY <1>1, <1>2, <2>1, <3>1, <3>2, <3>3
  <2>4. QED BY <2>2, <2>3
<1>7. QED BY <1>5, <1>6

(* Steps other than visits write no attribute.                             *)
LEMMA AttributesKept ==
    ASSUME Process, ~VisitPair, ~VisitOrdinary
    PROVE  attr' = attr /\ gen' = gen
<1>1. CASE OnClass \/ OnClassDone \/ OnEventDone \/ EventDone
  BY <1>1 DEF OnClass, OnClassDone, OnEventDone, EventDone
<1>2. CASE ClassVisited \/ WalkEnds \/ ClassDone
  BY <1>2 DEF ClassVisited, WalkEnds, ClassDone, EndPart
<1>3. CASE SkipAttribute \/ VisitEntry
  BY <1>3 DEF SkipAttribute, VisitEntry
<1>4. CASE ValidateAttribute \/ ValidateEntry \/ LeaveObservables
  BY <1>4 DEF ValidateAttribute, ValidateEntry, LeaveObservables
<1>5. QED BY <1>1, <1>2, <1>3, <1>4 DEF Process

(* Where the walk has been by a step that is no visit of an attribute: it  *)
(* left an attribute that is skipped, or that every dispatcher had.        *)
LEMMA PassedNow ==
    ASSUME TypeOK, WalkFromStart, Process, ~VisitPair, ~VisitOrdinary,
           RequiresEventWalk(cfg), Len(Pipe) >= 1, NEW b \in Attr
    PROVE  /\ Through(b)' => Through(b) \/ Skipped(b)
           /\ Handled(b)' => Handled(b) \/ Skipped(b)
<1> cfg \in Config
  BY InputAssumption DEF TypeOK
<1>1. b # Observables /\ Len(Pipe) \in Nat /\ ~(1 > 1) /\ ~(1 > Len(Pipe)) /\ cfg' = cfg /\ Pipe' = Pipe
  BY AttrAssumption, PipelineLength, ProcessKeeps DEF Pipe
<1>2. CASE OnClass \/ OnClassDone \/ OnEventDone
  BY <1>2 DEF OnClass, OnClassDone, OnEventDone, Handled, Through, Passed
<1>3. CASE ClassVisited
  <2>1. phase = "class" /\ phase' = "walk" /\ turn' = 1 /\ pos' = 1
    BY <1>3 DEF ClassVisited, EndPart, WalkFromStart
  <2>2. QED BY <1>1, <2>1, OrderIsList DEF Handled, Through, Passed
<1>4. CASE SkipAttribute \/ LeaveObservables \/ ValidateAttribute
  <2>1. /\ phase = "walk" /\ phase' = "walk" /\ pos \in DOMAIN Order /\ pos' = pos + 1 /\ turn' = 1
    BY <1>4, OrderIsList
       DEF SkipAttribute, LeaveObservables, ValidateAttribute, Advance, AtAttr, AtObs, TypeOK
  <2>2. Passed(b)' <=> Passed(b) \/ b = Here
    BY <2>1, AdvancePasses
  <2>3. b = Here => Skipped(b) \/ turn = Len(Pipe) + 1
    BY <1>1, <1>4 DEF SkipAttribute, LeaveObservables, ValidateAttribute, AtObs, Past
  <2>4. turn = Len(Pipe) + 1 => turn > 1 /\ turn > Len(Pipe)
    BY <1>1
  <2>5. QED BY <1>1, <2>1, <2>2, <2>3, <2>4 DEF Handled, Through
<1>5. CASE VisitEntry \/ ValidateEntry
  <2>1. phase = "walk" /\ phase' = "walk" /\ pos' = pos /\ b # Here /\ Here' = Here
    BY <1>1, <1>5 DEF VisitEntry, ValidateEntry, AtEntry, AtObs, Here
  <2>2. QED BY <2>1 DEF Handled, Through, Passed
<1>6. CASE WalkEnds
  BY <1>6, WalkEndsPassed DEF WalkEnds, EndPart, Handled, Through
<1>7. CASE ClassDone \/ EventDone
  BY <1>7 DEF ClassDone, EventDone, EndPart, Handled, Through, Passed
<1>8. QED
  BY <1>2, <1>3, <1>4, <1>5, <1>6, <1>7 DEF Process

(* A step of a call writes the sibling of an enum only where the walk      *)
(* meets the two first, and then it does the work there is.                *)
LEMMA SiblingsStep ==
    ASSUME TypeOK, WalkFromStart, Process, cfg.enum # "none"
    PROVE  /\ \A e \in EnumAttr :
                \/ attr'[Sibling[e]] = attr[Sibling[e]] /\ (Handled(e)' => Handled(e) \/ Skipped(e))
                \/ ~Handled(e) /\ Handled(e)' /\ attr'[Sibling[e]] = SiblingWork(e)
           /\ \A a \in Attr : (\A e \in EnumAttr : Sibling[e] # a) => attr'[a] = attr[a]
<1> cfg \in Config
  BY InputAssumption DEF TypeOK
<1>1. /\ \A e \in EnumAttr : e \in Attr /\ Sibling[e] \in Attr
      /\ attr \in [Attr -> Value]
  BY AttrAssumption DEF TypeOK
<1>2. CASE ~VisitPair /\ ~VisitOrdinary
  <2>1. RequiresEventWalk(cfg) /\ Len(Pipe) >= 1
    BY FirstDoesEnums DEF RequiresEventWalk, Pipe
  <2>2. QED BY <1>1, <1>2, <2>1, AttributesKept, PassedNow
<1>3. CASE VisitPair \/ VisitOrdinary
  <2> DEFINE w == IF turn = 1 THEN SiblingWork(Here) ELSE attr[Sibling[Here]]
  <2>1. /\ phase = "walk" /\ phase' = "walk" /\ pos \in DOMAIN Order /\ pos' = pos /\ Here' = Here
        /\ turn \in 1 .. Len(Pipe) /\ turn' = turn + 1
        /\ attr' = IF Here \in EnumAttr THEN [attr EXCEPT ![Sibling[Here]] = w] ELSE attr
    BY <1>3, AttributeVisited
  <2>2. ~Passed(Here) /\ \A e : Passed(e)' <=> Passed(e)
    BY <2>1, HereNotPassed DEF Passed
  <2>3. w = (IF turn = 1 THEN SiblingWork(Here) ELSE attr[Sibling[Here]])
        /\ turn' > 1 /\ (turn # 1 => turn > 1) /\ ~(1 > 1)
    BY <2>1
  <2> HIDE DEF w
  <2>4. ASSUME NEW e \in EnumAttr
        PROVE  \/ attr'[Sibling[e]] = attr[Sibling[e]] /\ (Handled(e)' => Handled(e) \/ Skipped(e))
               \/ ~Handled(e) /\ Handled(e)' /\ attr'[Sibling[e]] = SiblingWork(e)
    <3>1. CASE e = Here
      <4>1. attr'[Sibling[e]] = w
        BY <1>1, <2>1, <3>1
      <4>2. CASE turn = 1
        BY <2>1, <2>2, <2>3, <3>1, <4>1, <4>2 DEF Handled
      <4>3. CASE turn # 1
        BY <2>1, <2>3, <3>1, <4>1, <4>3 DEF Handled
      <4>4. QED BY <4>2, <4>3
    <3>2. CASE e # Here
      <4>1. attr'[Sibling[e]] = attr[Sibling[e]]
        BY <1>1, <2>1, <3>2, SiblingAssumption
      <4>2. QED BY <2>1, <2>2, <3>2, <4>1 DEF Handled
    <3>3. QED BY <3>1, <3>2
  <2>5. ASSUME NEW a \in Attr, \A e \in EnumAttr : Sibling[e] # a PROVE attr'[a] = attr[a]
    BY <1>1, <2>1, <2>5
  <2>6. QED BY <2>4, <2>5
<1>4. QED BY <1>2, <1>3

(* The walk starts with the first entry wherever it meets the observables. *)
EntryFromStart == phase = "class" => ent = 1

(* It does so in every call.                                               *)
LEMMA EntriesStart == Spec => []EntryFromStart
<1>1. Init => EntryFromStart
  BY DEF Init, EntryFromStart
<1>2. EntryFromStart /\ [Next]_vars => EntryFromStart'
  <2> SUFFICES ASSUME EntryFromStart, [Next]_vars, phase' = "class" PROVE ent' = 1
    BY DEF EntryFromStart
  <2>1. ASSUME NEW c \in Configs, Call(c) PROVE ent' = 1
    BY <2>1 DEF Call
  <2>2. CASE OnClass
    BY <2>2 DEF OnClass, EntryFromStart
  <2>3. CASE ClassVisited \/ WalkEnds \/ ClassDone
    BY <2>3 DEF ClassVisited, WalkEnds, ClassDone, EndPart
  <2>4. CASE SkipAttribute \/ VisitPair \/ VisitOrdinary \/ VisitEntry
    BY <2>4 DEF SkipAttribute, VisitPair, VisitOrdinary, VisitEntry, AtEntry, AtObs, AtAttr
  <2>5. CASE ValidateAttribute \/ ValidateEntry \/ LeaveObservables
    BY <2>5 DEF ValidateAttribute, ValidateEntry, LeaveObservables, AtEntry, AtObs, AtAttr
  <2>6. CASE OnClassDone \/ OnEventDone \/ EventDone
    BY <2>6 DEF OnClassDone, OnEventDone, EventDone
  <2>7. CASE UNCHANGED vars
    BY <2>7 DEF vars, EntryFromStart
  <2>8. QED
    BY <2>1, <2>2, <2>3, <2>4, <2>5, <2>6, <2>7 DEF Next, Process
<1>3. QED BY <1>1, <1>2, PTL DEF Spec

(* The visit of an entry writes its caption, if it has one to write.       *)
LEMMA CaptionVisited ==
    ASSUME TypeOK, EventTyped, VisitEntry, cfg.enum # "none"
    PROVE  /\ obs' \in ObsValue /\ obs'.k = obs.k /\ DOMAIN obs'.s = DOMAIN obs.s
           /\ ent \in DOMAIN obs.s /\ turn \in 1 .. Len(Pipe)
           /\ \A i \in DOMAIN obs.s : i # ent \/ turn > 1 => obs'.s[i] = obs.s[i]
           /\ turn = 1 => obs'.s[ent] = [obs.s[ent] EXCEPT !.typ = CaptionWork(obs.s[ent])]
<1> DEFINE e == obs.s[ent]
           o == PairWork(Pipe[turn], FALSE, e.tid, e.typ)
<1> cfg \in Config
  BY InputAssumption DEF TypeOK
<1>1. obs' \in ObsValue /\ turn \in 1 .. Len(Pipe)
  BY EntryVisited, TurnAdvances DEF VisitEntry
<1>2. obs \in ObsValue /\ obs.s \in Seq(Entry) /\ ent \in DOMAIN obs.s /\ e \in Entry
  <2>1. obs \in ObsValue /\ obs.s \in Seq(Entry)
    BY DEF EventTyped, ObsValue
  <2>2. ent \in 1 .. Len(obs.s)
    BY <2>1, LenProperties DEF VisitEntry, AtEntry, TypeOK
  <2>3. QED BY <2>1, <2>2, ElementOfSeq, LenProperties
<1>3. Pipe[1].enums /\ (turn > 1 => ~Pipe[turn].enums)
  BY <1>1, FirstDoesEnums DEF Pipe
<1>4. CASE Pipe[turn].enums /\ e.map
  <2>1. obs' = [obs EXCEPT !.s[ent].typ = o.sib]
    BY <1>4 DEF VisitEntry
  <2>0. turn = 1
    BY <1>1, <1>3, <1>4
  <2>2. CaptionWork(e) = o.sib
    BY <1>4, <2>0 DEF CaptionWork
  <2> DEFINE w == o.sib
             f == [e EXCEPT !.typ = w]
             t == [obs.s EXCEPT ![ent] = f]
  <2>3. obs' = [obs EXCEPT !.s = t]
    BY <1>2, <2>1 DEF ObsValue
  <2>4. w = CaptionWork(e)
    BY <2>2
  <2>5. t[ent] = f /\ DOMAIN t = DOMAIN obs.s /\ \A i \in DOMAIN obs.s : i # ent => t[i] = obs.s[i]
    BY <1>2
  <2> HIDE DEF w, t
  <2>6. obs'.k = obs.k /\ obs'.s = t
    BY <1>2, <2>3 DEF ObsValue
  <2>7. f = [obs.s[ent] EXCEPT !.typ = CaptionWork(obs.s[ent])]
    BY <2>4
  <2> HIDE DEF f
  <2>8. ~(turn > 1)
    BY <2>0
  <2>9. QED BY <1>1, <1>2, <2>5, <2>6, <2>7, <2>8
<1>5. CASE ~(Pipe[turn].enums /\ e.map)
  <2>1. obs' = obs
    BY <1>5 DEF VisitEntry
  <2>2. turn = 1 => CaptionWork(e) = e.typ
    BY <1>3, <1>5 DEF CaptionWork
  <2>3. [e EXCEPT !.typ = e.typ] = e
    BY <1>2 DEF Entry
  <2>4. QED BY <1>1, <1>2, <2>1, <2>2, <2>3
<1>6. QED BY <1>4, <1>5

(* While the walk goes on, the caption of an entry is written only where    *)
(* the walk meets it first.                                                *)
LEMMA EntriesStep ==
    ASSUME TypeOK, EventTyped, WalkFromStart, EntryFromStart, Process, cfg.enum # "none",
           phase \in {"class", "walk"}, Observables \in Range(Order)
    PROVE  /\ DOMAIN Entries(obs') = DOMAIN Entries(obs)
           /\ \A i \in DOMAIN Entries(obs) :
                \/ obs'.s[i] = obs.s[i] /\ (EntryHandled(i)' => EntryHandled(i))
                \/ obs'.s[i] = [obs.s[i] EXCEPT !.typ = CaptionWork(obs.s[i])]
<1> cfg \in Config
  BY InputAssumption DEF TypeOK
<1>1. Entries(obs) \in Seq(Entry) /\ \A i \in DOMAIN Entries(obs) : i \in Nat /\ i >= 1
  <2>1. Entries(obs) \in Seq(Entry)
    BY EmptySeq DEF EventTyped, ObsValue, Entries
  <2>2. QED BY <2>1, LenProperties
<1>2. Observables \notin Attr /\ Len(Pipe) >= 1 /\ Len(Pipe) \in Nat /\ ~(1 > 1)
  BY AttrAssumption, FirstDoesEnums, PipelineLength DEF Pipe
<1> SUFFICES ASSUME \/ VisitEntry
                    \/ obs' = obs /\ \A i \in DOMAIN Entries(obs) : EntryHandled(i)' => EntryHandled(i)
             PROVE  /\ DOMAIN Entries(obs') = DOMAIN Entries(obs)
                    /\ \A i \in DOMAIN Entries(obs) :
                         \/ obs'.s[i] = obs.s[i] /\ (EntryHandled(i)' => EntryHandled(i))
                         \/ obs'.s[i] = [obs.s[i] EXCEPT !.typ = CaptionWork(obs.s[i])]
  <2> DEFINE Goal == obs' = obs /\ \A i \in DOMAIN Entries(obs) : EntryHandled(i)' => EntryHandled(i)
  <2> SUFFICES ASSUME ~VisitEntry PROVE Goal
    OBVIOUS
  <2>1. CASE OnClass
    <3>1. turn \in 1 .. Len(Pipe) /\ phase' = "class"
      BY <2>1, TurnAdvances DEF OnClass
    <3>2. obs' = obs
      BY <2>1, <3>1, RemovalDeferred DEF OnClass, RemoveObservables, Pipe
    <3>3. QED BY <3>1, <3>2 DEF EntryHandled, Passed
  <2>2. CASE ClassVisited
    <3>1. obs' = obs /\ phase' = "walk" /\ pos' = 1 /\ ent' = 1 /\ turn' = 1
      BY <2>2 DEF ClassVisited, EndPart, RequiresEventWalk, WalkFromStart, EntryFromStart
    <3>2. ~Passed(Observables)'
      BY <3>1, OrderIsList DEF Passed
    <3>3. \A i \in Nat : i >= 1 => ~(i < 1)
      OBVIOUS
    <3>4. QED BY <1>1, <1>2, <3>1, <3>2, <3>3 DEF EntryHandled
  <2>3. CASE SkipAttribute \/ ValidateAttribute
    <3>1. /\ obs' = obs /\ phase = "walk" /\ phase' = "walk" /\ pos \in DOMAIN Order
          /\ pos' = pos + 1 /\ ent' = 1 /\ turn' = 1 /\ Here # Observables
      BY <2>3, OrderIsList DEF SkipAttribute, ValidateAttribute, Advance, AtAttr, TypeOK
    <3>2. Passed(Observables)' <=> Passed(Observables)
      BY <3>1, AdvancePasses
    <3>3. \A i \in Nat : i >= 1 => ~(i < 1)
      OBVIOUS
    <3>4. QED BY <1>1, <1>2, <3>1, <3>2, <3>3 DEF EntryHandled
  <2>4. CASE LeaveObservables
    <3>1. /\ obs' = obs /\ phase = "walk" /\ pos \in DOMAIN Order /\ Here = Observables
          /\ ~(obs.k = "array" /\ ent <= Len(obs.s))
      BY <2>4, OrderIsList DEF LeaveObservables, AtObs, AtEntry, TypeOK
    <3>2. \A i \in DOMAIN Entries(obs) : i < ent
      <4>1. CASE obs.k # "array"
        BY <4>1 DEF Entries
      <4>2. CASE obs.k = "array"
        <5>1. Entries(obs) = obs.s /\ ~(ent <= Len(obs.s)) /\ ent \in Nat
          BY <3>1, <4>2 DEF Entries, TypeOK
        <5>2. Len(obs.s) \in Nat /\ DOMAIN obs.s = 1 .. Len(obs.s)
          BY <1>1, <5>1, LenProperties
        <5>3. QED BY <5>1, <5>2
      <4>3. QED BY <4>1, <4>2
    <3>3. QED BY <3>1, <3>2 DEF EntryHandled
  <2>5. CASE VisitPair \/ VisitOrdinary
    <3>1. /\ obs' = obs /\ phase = "walk" /\ phase' = "walk" /\ pos' = pos /\ Here' = Here /\ Here \in Attr
      BY <2>5, AttributeVisited
    <3>2. QED BY <1>2, <3>1 DEF EntryHandled, Passed
  <2>6. CASE ValidateEntry
    <3>1. /\ obs' = obs /\ phase = "walk" /\ phase' = "walk" /\ pos' = pos /\ Here' = Here
          /\ Here = Observables /\ pos \in DOMAIN Order /\ ent' = ent + 1 /\ turn' = 1
          /\ ent \in Nat /\ turn = Len(Pipe) + 1
      BY <2>6, OrderIsList DEF ValidateEntry, AtEntry, AtObs, TypeOK, Here, Past
    <3>2. turn > 1 /\ \A i \in Nat : i < ent + 1 => i < ent \/ i = ent
      BY <1>2, <3>1
    <3>3. QED BY <1>1, <1>2, <3>1, <3>2 DEF EntryHandled, Passed
  <2>7. CASE WalkEnds
    <3>1. PICK p \in DOMAIN Order : Order[p] = Observables
      BY DEF Range
    <3>2. obs' = obs /\ phase = "walk" /\ pos > Len(Order)
      BY <2>7 DEF WalkEnds, EndPart
    <3>3. Passed(Observables)
      BY <3>1, <3>2, OrderIsList DEF Passed, TypeOK
    <3>4. QED BY <3>2, <3>3 DEF EntryHandled
  <2>8. CASE OnClassDone \/ ClassDone \/ OnEventDone \/ EventDone
    BY <2>8 DEF OnClassDone, ClassDone, OnEventDone, EventDone, EndPart
  <2>9. QED
    BY <2>1, <2>2, <2>3, <2>4, <2>5, <2>6, <2>7, <2>8 DEF Process
<1>3. CASE VisitEntry
  <2>1. /\ obs'.k = obs.k /\ DOMAIN obs'.s = DOMAIN obs.s /\ turn \in 1 .. Len(Pipe)
        /\ \A i \in DOMAIN obs.s : i # ent \/ turn > 1 => obs'.s[i] = obs.s[i]
        /\ turn = 1 => obs'.s[ent] = [obs.s[ent] EXCEPT !.typ = CaptionWork(obs.s[ent])]
    BY <1>3, CaptionVisited
  <2>2. /\ phase = "walk" /\ phase' = "walk" /\ pos' = pos /\ Here' = Here /\ ent' = ent
        /\ Here = Observables /\ pos \in DOMAIN Order
    BY <1>3, OrderIsList DEF VisitEntry, AtEntry, AtObs, TypeOK, Here
  <2>3. ASSUME NEW i \in DOMAIN Entries(obs), i # ent \/ turn > 1
        PROVE  obs'.s[i] = obs.s[i] /\ (EntryHandled(i)' => EntryHandled(i))
    <3>1. i \in DOMAIN obs.s
      BY DEF Entries
    <3>2. Passed(Observables)' => Passed(Observables)
      BY <2>2 DEF Passed
    <3>3. QED BY <2>1, <2>2, <2>3, <3>1, <3>2 DEF EntryHandled
  <2>4. turn = 1 \/ turn > 1
    BY <2>1
  <2>5. QED BY <2>1, <2>3, <2>4 DEF Entries
<1>4. CASE ~VisitEntry
  BY <1>4
<1>5. QED BY <1>3, <1>4

(* After the walk only generated entries come.                             *)
LEMMA EntriesLater ==
    ASSUME TypeOK, EventTyped, Process, phase \in {"classDone", "eventDone"},
           NEW i \in DOMAIN Entries(obs')
    PROVE  obs'.s[i] \in Range(Entries(obs)) \cup Range(gen)
<1>0. Entries(obs) \in Seq(Entry) /\ obs.s \in Seq(Entry) /\ gen \in Seq(Entry)
      /\ Entries(obs')[i] = obs'.s[i]
  BY EmptySeq DEF EventTyped, ObsValue, Entries
<1>1. CASE obs' = obs
  BY <1>0, <1>1 DEF Range
<1>2. CASE RemoveSafely
  <2> DEFINE kept == Selected(obs.s, Unremovable(obs.s))
  <2>1. obs.k = "array" /\ Entries(obs') = kept
    <3>1. Entries(obs') = (IF obs.k = "array" THEN kept ELSE <<>>)
      BY <1>2, RemoveSafelySound
    <3>2. QED BY <3>1
  <2>2. Unremovable(obs.s) \in SUBSET DOMAIN obs.s
    BY DEF Unremovable
  <2>3. \E j \in DOMAIN obs.s : kept[i] = obs.s[j]
    <3> DEFINE I == Unremovable(obs.s)
    <3>1. I \in SUBSET DOMAIN obs.s /\ i \in DOMAIN Selected(obs.s, I)
      BY <2>1, <2>2
    <3> HIDE DEF I
    <3>2. Ascending(I)[i] \in I /\ Selected(obs.s, I)[i] = obs.s[Ascending(I)[i]]
      BY <1>0, <3>1, SelectedSound
    <3>3. QED BY <3>1, <3>2 DEF I
  <2>4. QED BY <1>0, <2>1, <2>3 DEF Range, Entries
<1>3. CASE RemoveForced
  BY <1>3, ObsShapes DEF RemoveForced, Entries
<1>4. CASE AddObservables
  <2> DEFINE fresh == Deduplicated(Entries(obs), gen)
             I == {j \in DOMAIN gen :
                     ~\E x \in Range(Entries(obs)) \cup {gen[m] : m \in 1 .. j - 1} :
                         Identified(x) /\ Identity(x) = Identity(gen[j])}
  <2>1. fresh = Selected(gen, I) /\ I \in SUBSET DOMAIN gen
    BY DEF Deduplicated
  <2> HIDE DEF I
  <2>2. fresh \in Seq(Entry) /\ \A n \in DOMAIN fresh : \E j \in DOMAIN gen : fresh[n] = gen[j]
    BY <1>0, <2>1, SelectedSound
  <2>3. obs' = obs \/ Entries(obs') = Entries(obs) \o fresh
    BY <1>4, AddSound
  <2> HIDE DEF fresh
  <2>4. CASE Entries(obs') = Entries(obs) \o fresh
    <3> DEFINE old == Entries(obs)
               new == Entries(obs')
    <3>1. old \in Seq(Entry) /\ new = old \o fresh /\ i \in DOMAIN new
      BY <1>0, <2>4
    <3>2. new[i] \in Range(old) \cup Range(fresh)
      <4> HIDE DEF old, new
      <4>1. new[i] \in Range(new)
        BY <3>1 DEF Range
      <4>2. QED BY <2>2, <3>1, <4>1, RangeConcatenation
    <3>3. Range(fresh) \subseteq Range(gen)
      BY <2>2 DEF Range
    <3>4. QED BY <1>0, <3>2, <3>3
  <2>5. QED BY <1>1, <2>3, <2>4
<1>5. QED
  BY <1>1, <1>2, <1>3, <1>4 DEF Process, OnClass, ClassVisited, SkipAttribute, VisitPair, VisitOrdinary,
     VisitEntry, ValidateAttribute, ValidateEntry, LeaveObservables, WalkEnds, OnClassDone, ClassDone,
     OnEventDone, EventDone, EndPart, AtEntry, AtObs, AtAttr, RemoveObservables

(* A visit contributes entries, and the attributes stay what they are.     *)
LEMMA VisitTypes ==
    ASSUME TypeOK, VisitPair \/ VisitOrdinary
    PROVE  LET v == attr'[Site(Here)]
           IN  v \in Value /\ \A d : Harvest(d, Site(Here), v).new \in Seq(Entry)
<1>1. Site(Here) \in Attr
  BY AttributeVisited
<1>2. TypeOK'
  BY TypeKept DEF Next, Process
<1>3. attr'[Site(Here)] \in Value
  BY <1>1, <1>2 DEF TypeOK
<1> DEFINE v == attr'[Site(Here)]
<1>4. v \in Value
  BY <1>3
<1> HIDE DEF v
<1>5. \A d : Harvest(d, Site(Here), v).new \in Seq(Entry)
  <2> SUFFICES ASSUME NEW d PROVE Harvest(d, Site(Here), v).new \in Seq(Entry)
    OBVIOUS
  <2> DEFINE at == [b \in Attr |-> v]
  <2>1. at[Site(Here)] = v
    BY <1>1
  <2> HIDE DEF at
  <2>2. QED BY <1>1, <1>4, <2>1, HarvestSound
<1>6. QED BY <1>4, <1>5 DEF v

(* What the first dispatcher did to a sibling it would do again.           *)
LEMMA FirstSettles ==
    ASSUME cfg \in Config, cfg.enum # "none"
    PROVE  \A isArray, enum, sib :
             LET p == PairWork(Pipe[1], isArray, enum, sib).sib
                 u == UnlinkedWork(Pipe[1], enum, sib).sib
             IN  PairWork(Pipe[1], isArray, enum, p).sib = p
                 /\ UnlinkedWork(Pipe[1], enum, u).sib = u
<1>1. 1 \in 1 .. Len(Pipe)
  BY FirstDoesEnums, PipelineLength DEF Pipe
<1> TAKE isArray, enum, sib
<1>2. PICK c \in Config : c = cfg
  OBVIOUS
<1>3. 1 \in 1 .. Len(Pipeline(c)) /\ Pipe[1] = Pipeline(c)[1]
  BY <1>1, <1>2 DEF Pipe
<1> DEFINE d == Pipeline(c)[1]
<1>4. LET p == PairWork(d, isArray, enum, sib).sib
          u == UnlinkedWork(d, enum, sib).sib
      IN  PairWork(d, isArray, enum, p).sib = p /\ UnlinkedWork(d, enum, u).sib = u
  BY <1>3, WorkSettles
<1> HIDE DEF d
<1>5. Pipe[1] = d
  BY <1>3 DEF d
<1>6. QED BY <1>4, <1>5

(* An observable that a pipeline with enum work generates comes with the   *)
(* caption that this work would give it, or leave it.                      *)
LEMMA HarvestIsCaptioned ==
    ASSUME cfg \in Config, cfg.enum # "none", NEW t \in 1 .. Len(Pipe), NEW a, NEW v,
           NEW x \in Range(Harvest(Pipe[t], a, v).new)
    PROVE  CaptionSettled(x)
<1> DEFINE d == Pipe[t]
<1>1. /\ d.obs /\ d.action = "add" /\ a \in DOMAIN TypeIdOf
      /\ \E n, y : x = Generated(d, a, n, y)
  <2>1. DOMAIN <<>> = {}
    OBVIOUS
  <2> HIDE DEF d
  <2>2. x \in Range(Harvest(d, a, v).new)
    BY DEF d
  <2>3. QED BY <2>1, <2>2 DEF Harvest, Range
<1>2. /\ x.map /\ x.tid = ScalarV(TypeIdOf[a])
      /\ x.typ = IF d.enums /\ Defined(TypeIdOf[a]) THEN ScalarV(Caption[TypeIdOf[a]]) ELSE AbsentV
  <2> HIDE DEF d
  <2>1. QED BY <1>1 DEF Generated
<1>3. cfg.obs = "add" /\ t = Len(Pipe)
  BY <1>1, AddsObservables DEF Pipe
<1>4. /\ 1 \in 1 .. Len(Pipe) /\ Pipe[1].enums /\ (t > 1 => ~d.enums)
      /\ Pipe[1].action = cfg.enum /\ d.enums \in BOOLEAN
  <2>1. Len(Pipe) \in Nat /\ Len(Pipe) >= 1 /\ Pipe[1].enums /\ (t > 1 => ~d.enums)
    BY FirstDoesEnums, PipelineLength DEF Pipe
  <2>2. 1 \in 1 .. Len(Pipe)
    BY <2>1
  <2>3. QED BY <2>1, <2>2, DispatcherSound DEF Pipe
<1> DEFINE id == TypeIdOf[a]
<1>5. CASE cfg.enum = "add"
  <2>1. Pipe = <<Dispatcher("add", TRUE, TRUE, FALSE)>>
    BY <1>3, <1>5 DEF Pipeline, Pipe
  <2>2. t = 1 /\ d.enums
    BY <1>3, <2>1 DEF Dispatcher
  <2>3. CaptionWork(x) = AddScalar(ScalarV(id), x.typ).sib
    BY <1>2, <1>4, <1>5 DEF CaptionWork, PairWork, AddPair
  <2>4. CASE Defined(id)
    <3>1. x.typ.k = "scalar"
      BY <1>2, <2>2, <2>4 DEF ScalarV
    <3>2. QED BY <2>3, <3>1 DEF CaptionSettled, AddScalar, Untouched, Outcome, Present
  <2>5. CASE ~Defined(id)
    <3>1. ~Labelled(ScalarV(id).s[1])
      BY <2>5 DEF Labelled, ScalarV
    <3>2. QED BY <2>3, <3>1 DEF CaptionSettled, AddScalar, Untouched, Outcome
  <2>6. QED BY <2>4, <2>5
<1>6. CASE cfg.enum # "add"
  <2>1. ~d.enums
    <3>1. d.enums => d.action = cfg.enum
      BY DispatcherSound DEF Pipe
    <3>2. QED BY <1>1, <1>6, <3>1
  <2>2. x.typ = AbsentV
    BY <1>2, <2>1
  <2>3. cfg.enum \in {"remove", "force"}
    BY <1>6 DEF Config, Action
  <2>4. \A f : RemovePair(FALSE, x.tid, AbsentV, f).sib = AbsentV
    BY DEF RemovePair, AbsentV, Untouched, Outcome
  <2>5. QED BY <1>2, <1>4, <2>2, <2>3, <2>4 DEF CaptionSettled, CaptionWork, PairWork
<1>7. QED BY <1>5, <1>6

(* A caption that was written is settled.                                  *)
LEMMA CaptionSettles ==
    ASSUME cfg \in Config, cfg.enum # "none", NEW x \in Entry
    PROVE  CaptionSettled([x EXCEPT !.typ = CaptionWork(x)])
<1> DEFINE w == CaptionWork(x)
           y == [x EXCEPT !.typ = w]
<1>2. x.map => w = PairWork(Pipe[1], FALSE, x.tid, x.typ).sib
  BY DEF CaptionWork
<1>3. x.map => PairWork(Pipe[1], FALSE, x.tid, w).sib = w
  <2> DEFINE p == PairWork(Pipe[1], FALSE, x.tid, x.typ).sib
  <2>1. PairWork(Pipe[1], FALSE, x.tid, p).sib = p
    <3>1. ASSUME NEW b
          PROVE  PairWork(Pipe[1], b, x.tid, PairWork(Pipe[1], b, x.tid, x.typ).sib).sib =
                 PairWork(Pipe[1], b, x.tid, x.typ).sib
      BY FirstSettles
    <3>2. QED BY <3>1
  <2>2. x.map => w = p
    BY <1>2
  <2> HIDE DEF p, w
  <2>3. QED BY <2>1, <2>2
<1> HIDE DEF w
<1>4. y.map = x.map /\ y.tid = x.tid /\ y.typ = w
  BY DEF Entry
<1> HIDE DEF y
<1>5. CaptionSettled(y)
  BY <1>3, <1>4 DEF CaptionSettled, CaptionWork
<1>6. QED BY <1>5 DEF y, w

(* A step of a call leaves nothing to do where the walk has been.          *)
LEMMA SettlesStep ==
    ASSUME TypeOK, EventTyped, WalkFromStart, EntryFromStart, SiblingsSettled, Process
    PROVE  SiblingsSettled'
<1>1. /\ UNCHANGED <<cfg, cls, active, calls>> /\ Pipe' = Pipe
      /\ \A e : (PairOwner(e)' <=> PairOwner(e)) /\ (Skipped(e)' <=> Skipped(e))
  BY ProcessKeeps DEF Pipe, PairOwner, Skipped, OwnedByPair
<1> cfg \in Config
  BY InputAssumption DEF TypeOK
<1> SUFFICES ASSUME calls > 0, Resolvable, cfg.enum # "none" PROVE SiblingsSettled'
  BY <1>1 DEF SiblingsSettled, Resolvable
<1>2. /\ \A e \in EnumAttr : Handled(e) => SiblingWork(e) = attr[Sibling[e]]
      /\ \A g \in Range(gen) : CaptionSettled(g)
      /\ Observables \in Range(Order) =>
           \A i \in DOMAIN Entries(obs) : EntryHandled(i) => CaptionSettled(obs.s[i])
  BY DEF SiblingsSettled
<1>3. \A x : CaptionSettled(x)' <=> CaptionSettled(x)
  BY <1>1 DEF CaptionSettled, CaptionWork
<1>4. ASSUME NEW e \in EnumAttr, Handled(e)'
      PROVE  SiblingWork(e)' = attr'[Sibling[e]]
  <2> DEFINE f(v) == IF PairOwner(e) THEN PairWork(Pipe[1], e \in ArrayAttr, attr[e], v).sib
                     ELSE IF e \in Resolved \/ Skipped(e) THEN v
                     ELSE UnlinkedWork(Pipe[1], attr[e], v).sib
             s == attr[Sibling[e]]
             p == attr'[Sibling[e]]
  <2>1. attr'[e] = attr[e]
    BY SiblingsStep, SiblingAssumption, AttrAssumption
  <2>2. SiblingWork(e)' = f(p) /\ SiblingWork(e) = f(s)
    BY <1>1, <2>1 DEF SiblingWork
  <2>3. f(f(s)) = f(s)
    <3> DEFINE u == PairWork(Pipe[1], e \in ArrayAttr, attr[e], s).sib
               z == UnlinkedWork(Pipe[1], attr[e], s).sib
    <3>2. /\ PairWork(Pipe[1], e \in ArrayAttr, attr[e], u).sib = u
          /\ UnlinkedWork(Pipe[1], attr[e], z).sib = z
      BY FirstSettles
    <3>3. CASE PairOwner(e)
      BY <3>2, <3>3
    <3>4. CASE ~PairOwner(e) /\ (e \in Resolved \/ Skipped(e))
      BY <3>4
    <3>5. CASE ~PairOwner(e) /\ ~(e \in Resolved \/ Skipped(e))
      BY <3>2, <3>5
    <3>6. QED BY <3>3, <3>4, <3>5
  <2>4. Skipped(e) => f(s) = s
    BY OwnerIsEnum
  <2> HIDE DEF f
  <2>5. \/ p = s /\ (Handled(e)' => Handled(e) \/ Skipped(e))
        \/ ~Handled(e) /\ p = SiblingWork(e)
    BY SiblingsStep
  <2> HIDE DEF s, p
  <2>6. f(s) = s \/ p = f(s)
    BY <1>2, <1>4, <2>2, <2>4, <2>5 DEF s
  <2>7. f(p) = p
    BY <2>2, <2>3, <2>5, <2>6
  <2>8. QED BY <2>2, <2>7 DEF p
<1>5. ASSUME NEW g \in Range(gen') PROVE CaptionSettled(g)
  <2>1. CASE VisitPair \/ VisitOrdinary
    <3> DEFINE new == Harvest(Pipe[turn], Site(Here), attr'[Site(Here)]).new
    <3>1. turn \in 1 .. Len(Pipe) /\ gen' = gen \o new /\ Site(Here) \in Attr /\ Here \in Attr
      BY <2>1, AttributeVisited
    <3>2. gen \in Seq(Entry) /\ new \in Seq(Entry)
      BY <2>1, VisitTypes DEF EventTyped
    <3>3. g \in Range(gen) \cup Range(new)
      <4> HIDE DEF new
      <4>1. QED BY <3>1, <3>2, RangeConcatenation
    <3>4. g \in Range(new) => CaptionSettled(g)
      BY <3>1, HarvestIsCaptioned
    <3>5. QED BY <1>2, <3>3, <3>4
  <2>2. CASE ~VisitPair /\ ~VisitOrdinary
    BY <1>2, <2>2, AttributesKept
  <2>3. QED BY <2>1, <2>2
<1>6. ASSUME Observables \in Range(Order), NEW i \in DOMAIN Entries(obs'), EntryHandled(i)'
      PROVE  CaptionSettled(obs'.s[i])
  <2>1. CASE phase \in {"class", "walk"}
    <3>1. /\ i \in DOMAIN Entries(obs)
          /\ \/ obs'.s[i] = obs.s[i] /\ EntryHandled(i)
             \/ obs'.s[i] = [obs.s[i] EXCEPT !.typ = CaptionWork(obs.s[i])]
      BY <1>6, <2>1, EntriesStep
    <3>2. obs.s[i] \in Entry
      <4>1. obs.s \in Seq(Entry) /\ i \in DOMAIN obs.s
        BY <3>1 DEF EventTyped, ObsValue, Entries
      <4>2. QED BY <4>1, ElementOfSeq, LenProperties
    <3>3. QED BY <1>2, <1>6, <3>1, <3>2, CaptionSettles
  <2>2. CASE phase \in {"classDone", "eventDone"}
    <3>1. obs'.s[i] \in Range(Entries(obs)) \cup Range(gen)
      BY <2>2, EntriesLater
    <3>2. \A j \in DOMAIN Entries(obs) : CaptionSettled(obs.s[j])
      BY <1>2, <1>6, <2>2 DEF EntryHandled, Passed
    <3>3. \A j \in DOMAIN Entries(obs) : Entries(obs)[j] = obs.s[j]
      BY DEF Entries
    <3>4. QED BY <1>2, <3>1, <3>2, <3>3 DEF Range
  <2>3. phase \in {"class", "walk", "classDone", "eventDone"}
    BY DEF Process, OnClass, ClassVisited, SkipAttribute, VisitPair, VisitOrdinary, VisitEntry,
       ValidateAttribute, ValidateEntry, LeaveObservables, WalkEnds, OnClassDone, ClassDone,
       OnEventDone, EventDone, EndPart, AtEntry, AtObs, AtAttr
  <2>4. QED BY <2>1, <2>2, <2>3
<1>7. QED BY <1>3, <1>4, <1>5, <1>6 DEF SiblingsSettled

(* Where the walk has been enum work has nothing left to do.               *)
LEMMA SiblingsStaySettled == Spec => []SiblingsSettled
<1>1. Init => SiblingsSettled
  BY DEF Init, SiblingsSettled
<1>2. TypeOK /\ EventTyped /\ WalkFromStart /\ EntryFromStart /\ SiblingsSettled /\ [Next]_vars
      => SiblingsSettled'
  <2> SUFFICES ASSUME TypeOK, EventTyped, WalkFromStart, EntryFromStart, SiblingsSettled,
                      [Next]_vars
               PROVE  SiblingsSettled'
    OBVIOUS
  <2>1. ASSUME NEW c \in Configs, Call(c) PROVE SiblingsSettled'
    <3>1. cls' = "resolved" => phase' = "class" /\ gen' = <<>>
      BY <2>1 DEF Call
    <3>2. Range(<<>>) = {}
      BY DEF Range
    <3>3. QED BY <3>1, <3>2 DEF SiblingsSettled, Resolvable, Handled, EntryHandled, Passed
  <2>2. CASE Process
    BY <2>2, SettlesStep
  <2>3. CASE UNCHANGED vars
    BY <2>3 DEF vars, SiblingsSettled, Resolvable, Handled, EntryHandled, Passed, SiblingWork,
       CaptionSettled, CaptionWork, Pipe, PairOwner, Skipped, OwnedByPair, Here
  <2>4. QED BY <2>1, <2>2, <2>3 DEF Next
<1>3. QED
  BY <1>1, <1>2, TypeCorrect, EventStaysTyped, WalkStarts, EntriesStart, PTL DEF Spec

(* What is generated from a value is what the value offers.                *)
LEMMA HarvestOffers ==
    ASSUME NEW d, d.action = "add", d.obs, NEW a \in Attr, NEW v \in Value
    PROVE  LET new == Harvest(d, a, v).new
           IN  /\ \A q \in Offers(cfg.indexed, a, v) : Found(q, new)
               /\ \A x \in Range(new) : Identity(x) \in Offers(cfg.indexed, a, v)
<1> DEFINE I    == {n \in DOMAIN v.s : Formattable(a, v.s[n])}
           good == Ascending(I)
           news == [m \in DOMAIN good |-> Generated(d, a, good[m], v.s[good[m]])]
           made == a \in DOMAIN TypeIdOf /\ v.k = (IF a \in ArrayAttr THEN "array" ELSE "scalar")
           offs == {Offer(cfg.indexed, a, n, v.s[n]) : n \in I}
<1>1. v.s \in Seq(Scalar) /\ Len(v.s) \in Nat /\ DOMAIN v.s = 1 .. Len(v.s)
  <2>1. v.s \in Seq(Scalar)
    BY DEF Value
  <2>2. QED BY <2>1, LenProperties
<1>2. CASE made
  <2>1. Harvest(d, a, v).new = news /\ Offers(cfg.indexed, a, v) = offs
    BY <1>2 DEF Harvest, Offers, Present
  <2>2. \A n, x : Identity(Generated(d, a, n, x)) = Offer(cfg.indexed, a, n, x)
    BY DEF Identity, Generated, Offer
  <2>3. /\ \A m \in DOMAIN good : good[m] \in I
        /\ \A n \in I : \E m \in DOMAIN good : good[m] = n
    <3>1. I \in SUBSET (1 .. Len(v.s))
      BY <1>1
    <3> HIDE DEF I
    <3>2. \A m \in DOMAIN good : good[m] \in I
      BY <1>1, <3>1, AscendingSound
    <3>3. \A n \in I : \E m \in DOMAIN good : good[m] = n
      BY <1>1, <3>1, AscendingReaches
    <3>4. QED BY <3>2, <3>3
  <2>4. DOMAIN news = DOMAIN good
    OBVIOUS
  <2>5. \A m \in DOMAIN good : /\ news[m] = Generated(d, a, good[m], v.s[good[m]])
                               /\ Identity(news[m]) = Offer(cfg.indexed, a, good[m], v.s[good[m]])
    BY <2>2
  <2>6. \A x \in Range(news) : Identified(x)
    <3> DEFINE at == [b \in Attr |-> v]
    <3>1. at[a] = v
      OBVIOUS
    <3> HIDE DEF at
    <3>2. \A m \in DOMAIN Harvest(d, a, v).new : Identified(Harvest(d, a, v).new[m])
      BY <3>1, HarvestSound
    <3>3. news = Harvest(d, a, v).new
      BY <2>1
    <3> HIDE DEF news
    <3>4. \A m \in DOMAIN news : Identified(news[m])
      BY <3>2, <3>3
    <3>5. QED BY <3>4 DEF Range
  <2> HIDE DEF news, good, I
  <2>7. ASSUME NEW q \in offs PROVE Found(q, news)
    <3>1. PICK n \in I : q = Offer(cfg.indexed, a, n, v.s[n])
      OBVIOUS
    <3>2. PICK m \in DOMAIN good : good[m] = n
      BY <2>3
    <3>3. news[m] \in Range(news) /\ Identity(news[m]) = q
      BY <2>4, <2>5, <3>1, <3>2 DEF Range
    <3>4. QED BY <2>6, <3>3 DEF Found
  <2>8. ASSUME NEW x \in Range(news) PROVE Identity(x) \in offs
    <3>1. PICK m \in DOMAIN news : x = news[m]
      BY DEF Range
    <3>2. QED BY <2>3, <2>4, <2>5, <3>1
  <2>9. QED BY <2>1, <2>7, <2>8
<1>3. CASE ~made
  <2>1. Harvest(d, a, v).new = <<>> /\ Offers(cfg.indexed, a, v) = {}
    BY <1>3 DEF Harvest, Offers
  <2>2. Range(<<>>) = {}
    BY DEF Range
  <2>3. QED BY <2>1, <2>2
<1>4. QED BY <1>2, <1>3

(* A visit does not change what another attribute offers, or lets it offer *)
(* nothing more.                                                           *)
LEMMA OthersOffer ==
    ASSUME TypeOK, VisitPair \/ VisitOrdinary, NEW b \in Attr, b # Here, ~Skipped(b), NEW ix
    PROVE  Offers(ix, Site(b), attr'[Site(b)]) \subseteq Offers(ix, Site(b), attr[Site(b)])
<1>1. /\ Here \in Attr /\ ~Skipped(Here)
      /\ attr' = IF Here \in EnumAttr
                 THEN [attr EXCEPT ![Sibling[Here]] =
                         IF turn = 1 THEN SiblingWork(Here) ELSE attr[Sibling[Here]]]
                 ELSE attr
  BY AttributeVisited
<1>2. attr \in [Attr -> Value] /\ Site(b) \in Attr
  BY OwnerIsEnum DEF TypeOK, Site
<1> DEFINE w == IF turn = 1 THEN SiblingWork(Here) ELSE attr[Sibling[Here]]
           s == Site(b)
<1>3. CASE Here \in EnumAttr /\ s = Sibling[Here]
  <2>1. ~PairOwner(b)
    BY <1>3, OwnerIsEnum, SiblingAssumption DEF Site
  <2>2. ~PairOwner(Here)
    BY <1>3, <2>1 DEF Site, Skipped, OwnedByPair, PairOwner
  <2>3. w = attr[s] \/ ~Present(w)
    <3>1. SiblingWork(Here) = attr[s] \/ ~Present(SiblingWork(Here))
      BY <1>3, <2>2, UnlinkedRemovesNoValue DEF SiblingWork
    <3>2. QED BY <1>3, <3>1
  <2> HIDE DEF w, s
  <2>4. attr'[s] = w
    BY <1>1, <1>2, <1>3 DEF w, s
  <2>5. ~Present(w) => Offers(ix, s, w) = {}
    BY DEF Offers, Present
  <2>6. attr'[s] = attr[s] \/ Offers(ix, s, attr'[s]) = {}
    BY <2>3, <2>4, <2>5
  <2>7. QED BY <2>6 DEF s
<1>4. CASE ~(Here \in EnumAttr /\ s = Sibling[Here])
  <2>1. attr'[s] = attr[s]
    BY <1>1, <1>2, <1>4
  <2>2. QED BY <2>1
<1>5. QED BY <1>3, <1>4

(* A step of a call generates what the attributes it leaves behind offer.  *)
LEMMA HarvestStep ==
    ASSUME TypeOK, EventTyped, WalkFromStart, GeneratedTrusted, HarvestSoFar, Process
    PROVE  HarvestSoFar'
<1>1. /\ UNCHANGED <<cfg, cls, active, calls>> /\ Pipe' = Pipe
      /\ \A b : (Site(b)' = Site(b)) /\ (Skipped(b)' <=> Skipped(b))
  BY ProcessKeeps DEF Pipe, PairOwner, Site, Skipped, OwnedByPair
<1> cfg \in Config
  BY InputAssumption DEF TypeOK
<1> SUFFICES ASSUME calls > 0, Resolvable, cfg.obs = "add", NEW b \in Attr, ~Skipped(b), Through(b)'
             PROVE  \A q \in Offers(cfg.indexed, Site(b), attr'[Site(b)]) : Found(q, gen')
  BY <1>1 DEF HarvestSoFar, Resolvable
<1>2. Through(b) => \A q \in Offers(cfg.indexed, Site(b), attr[Site(b)]) : Found(q, gen)
  BY DEF HarvestSoFar
<1>3. Len(Pipe) \in Nat /\ Len(Pipe) >= 1 /\ Pipe[Len(Pipe)].obs /\ Pipe[Len(Pipe)].action = "add"
  <2>1. Len(Pipe) \in Nat \ {0} /\ Pipe[Len(Pipe)].obs
    BY LastDoesObservables DEF Pipe
  <2>2. Len(Pipe) >= 1 /\ Len(Pipe) \in 1 .. Len(Pipe)
    BY <2>1
  <2>3. QED BY <2>1, <2>2, AddsObservables DEF Pipe
<1>4. CASE ~VisitPair /\ ~VisitOrdinary
  <2>1. attr' = attr /\ gen' = gen
    BY <1>4, AttributesKept
  <2>2. Through(b)
    BY <1>3, <1>4, PassedNow DEF RequiresEventWalk
  <2>3. QED BY <1>2, <2>1, <2>2
<1>5. CASE VisitPair \/ VisitOrdinary
  <2> DEFINE new == Harvest(Pipe[turn], Site(Here), attr'[Site(Here)]).new
  <2>1. /\ phase = "walk" /\ phase' = "walk" /\ pos \in DOMAIN Order /\ pos' = pos /\ Here' = Here
        /\ turn \in 1 .. Len(Pipe) /\ turn' = turn + 1 /\ Site(Here) \in Attr
        /\ gen' = gen \o new
    BY <1>5, AttributeVisited
  <2>2. gen \in Seq(Entry) /\ new \in Seq(Entry) /\ attr'[Site(Here)] \in Value
    BY <1>5, VisitTypes DEF EventTyped
  <2>3. CASE b = Here
    <3>1. ~Passed(b)'
      BY <2>1, <2>3, HereNotPassed DEF Passed
    <3>2. turn = Len(Pipe)
      BY <1>1, <1>3, <2>1, <3>1 DEF Through
    <3>3. \A q \in Offers(cfg.indexed, Site(b), attr'[Site(b)]) : Found(q, new)
      BY <1>3, <2>1, <2>2, <2>3, <3>2, HarvestOffers
    <3> HIDE DEF new
    <3>4. Range(gen') = Range(gen) \cup Range(new)
      BY <2>1, <2>2, RangeConcatenation
    <3>5. \A q : Found(q, new) => Found(q, gen')
      BY <3>4 DEF Found
    <3>6. QED BY <3>3, <3>5
  <2>4. CASE b # Here
    <3>1. Passed(b)' <=> Passed(b)
      BY <2>1 DEF Passed
    <3>2. Through(b)
      BY <2>1, <2>4, <3>1 DEF Through
    <3>3. Offers(cfg.indexed, Site(b), attr'[Site(b)]) \subseteq
          Offers(cfg.indexed, Site(b), attr[Site(b)])
      BY <1>5, <2>4, OthersOffer
    <3> HIDE DEF new
    <3>4. Range(gen') = Range(gen) \cup Range(new)
      BY <2>1, <2>2, RangeConcatenation
    <3>5. \A q : Found(q, gen) => Found(q, gen')
      BY <3>4 DEF Found
    <3>6. QED BY <1>2, <3>2, <3>3, <3>5
  <2>5. QED BY <2>3, <2>4
<1>6. QED BY <1>4, <1>5

(* What the attributes the walk has left offer has been generated.         *)
LEMMA HarvestStaysComplete == Spec => []HarvestSoFar
<1>1. Init => HarvestSoFar
  BY DEF Init, HarvestSoFar
<1>2. TypeOK /\ EventTyped /\ WalkFromStart /\ GeneratedTrusted /\ HarvestSoFar /\ [Next]_vars
      => HarvestSoFar'
  <2> SUFFICES ASSUME TypeOK, EventTyped, WalkFromStart, GeneratedTrusted, HarvestSoFar, [Next]_vars
               PROVE  HarvestSoFar'
    OBVIOUS
  <2>1. ASSUME NEW c \in Configs, Call(c) PROVE HarvestSoFar'
    <3>1. cls' = "resolved" => phase' = "class"
      BY <2>1 DEF Call
    <3>2. QED BY <3>1 DEF HarvestSoFar, Resolvable, Through, Passed
  <2>2. CASE Process
    BY <2>2, HarvestStep
  <2>3. CASE UNCHANGED vars
    BY <2>3 DEF vars, HarvestSoFar, Resolvable, Through, Passed, Pipe, Site, PairOwner, Skipped,
       OwnedByPair, Here
  <2>4. QED BY <2>1, <2>2, <2>3 DEF Next
<1>3. QED
  BY <1>1, <1>2, TypeCorrect, EventStaysTyped, WalkStarts, GeneratedStaysTrusted, PTL DEF Spec

(* What removal leaves it would leave again.                               *)
LEMMA RemovalSettles ==
    ASSUME EventTyped, UNCHANGED <<attr, active, cfg>>,
           \/ cfg.obs = "remove" /\ RemoveSafely
           \/ cfg.obs = "force" /\ RemoveForced
    PROVE  RemovalSettled'
<1>1. CASE cfg.obs = "force" /\ RemoveForced
  BY <1>1 DEF RemoveForced, RemovalSettled
<1>2. CASE cfg.obs = "remove" /\ RemoveSafely
  <2>1. CASE obs.k \in {"absent", "null", "other"}
    BY <1>2, <2>1, ObsShapes DEF RemoveSafely, RemovalSettled
  <2>2. CASE obs.k = "array"
    <3> DEFINE kept == Selected(obs.s, Unremovable(obs.s))
    <3>1. obs' = IF kept = <<>> THEN NoObs ELSE ObsArray(kept)
      BY <1>2, <2>2 DEF RemoveSafely, Unremovable
    <3>2. obs.s \in Seq(Entry) /\ Unremovable(obs.s) \in SUBSET DOMAIN obs.s
      BY DEF EventTyped, ObsValue, Unremovable
    <3>3. kept \in Seq(Entry) /\ \A i \in DOMAIN kept : ~Removable(kept[i], attr, active)
      <4>1. \A i \in Unremovable(obs.s) : ~Removable(obs.s[i], attr, active)
        BY DEF Unremovable
      <4>2. QED BY <3>2, <4>1, SelectedSound
    <3> HIDE DEF kept
    <3>4. CASE kept = <<>>
      BY <1>2, <3>1, <3>4, ObsShapes DEF RemovalSettled
    <3>5. CASE kept # <<>>
      <4>1. obs'.k = "array" /\ obs'.s = kept
        BY <3>1, <3>3, <3>5, ObsShapes
      <4>2. QED BY <1>2, <3>3, <3>5, <4>1 DEF RemovalSettled
    <3>6. QED BY <3>4, <3>5
  <2>3. QED BY <2>1, <2>2 DEF EventTyped, ObsValue
<1>3. QED BY <1>1, <1>2

(* What generation made is found again in the entries that it leaves.      *)
LEMMA AdditionSettles ==
    ASSUME EventTyped, GeneratedTrusted, AddObservables, gen' = gen
    PROVE  AdditionSettled'
<1>1. CASE obs.k = "other"
  <2>1. obs' = obs
    BY <1>1 DEF AddObservables
  <2>2. QED BY <1>1, <2>1 DEF AdditionSettled
<1>2. CASE obs.k # "other"
  <2> DEFINE old   == Entries(obs)
             fresh == Deduplicated(old, gen)
             all   == old \o fresh
  <2>1. obs' = IF all = <<>> THEN NoObs ELSE ObsArray(all)
    BY <1>2 DEF AddObservables, Entries
  <2>2. old \in Seq(Entry) /\ gen \in Seq(Entry) /\ fresh \in Seq(Entry)
    BY AddSound, EmptySeq DEF EventTyped, ObsValue, Entries
  <2>3. \A x \in Range(gen) : Covered(x, old) \/ Covered(x, fresh)
    <3>1. \A x \in Range(gen) : Identified(x)
      BY DEF GeneratedTrusted, Trusted
    <3> HIDE DEF old
    <3>2. QED BY <2>2, <3>1, DeduplicatedCovers
  <2> HIDE DEF old, fresh
  <2>4. all \in Seq(Entry) /\ Range(all) = Range(old) \cup Range(fresh)
    BY <2>2, ConcatProperties, RangeConcatenation
  <2> HIDE DEF all
  <2>5. \A x \in Range(gen) : Covered(x, all)
    BY <2>3, <2>4 DEF Covered, Found
  <2>6. Entries(obs') = all /\ (obs' = NoObs \/ (obs'.k = "array" /\ obs'.s # <<>>))
    BY <2>1, <2>4, ObsShapes DEF Entries
  <2>7. \A x \in Range(gen') : Covered(x, Entries(obs'))
    BY <2>5, <2>6
  <2>8. QED BY <2>6, <2>7 DEF AdditionSettled
<1>3. QED BY <1>1, <1>2

(* Removal and generation that are over have nothing left to do.           *)
LEMMA ObservablesStaySettled == Spec => []ObservablesSettled
<1>1. Init => ObservablesSettled
  BY DEF Init, ObservablesSettled
<1>2. TypeOK /\ EventTyped /\ GeneratedTrusted /\ ObservablesSettled /\ [Next]_vars
      => ObservablesSettled'
  <2> SUFFICES ASSUME TypeOK, EventTyped, GeneratedTrusted, ObservablesSettled, [Next]_vars
               PROVE  ObservablesSettled'
    OBVIOUS
  <2>1. ASSUME NEW c \in Configs, Call(c) PROVE ObservablesSettled'
    <3>1. cls' = "resolved" => phase' = "class" /\ turn' = 1 /\ cfg' = c
      BY <2>1 DEF Call
    <3>2. cls' = "resolved" /\ c.obs \in {"remove", "force"} => ~RemovalOver'
      <4>1. c.obs # "none" => Len(Pipe') \in Nat \ {0}
        BY <2>1, InputAssumption, LastDoesObservables DEF Call, Pipe
      <4>2. QED BY <3>1, <4>1 DEF RemovalOver
    <3>3. QED BY <3>1, <3>2 DEF ObservablesSettled, Resolvable, AdditionOver
  <2>2. CASE Process
    <3>1. UNCHANGED <<cfg, cls, active, calls>>
      BY <2>2, ProcessKeeps
    <3>2. CASE cfg.obs \in {"remove", "force"}
      <4>1. CASE (RemovalOver' <=> RemovalOver) /\ (RemovalOver => attr' = attr /\ obs' = obs)
        BY <3>1, <3>2, <4>1 DEF ObservablesSettled, RemovalSettled, Resolvable
      <4>2. CASE attr' = attr /\ IF cfg.obs = "remove" THEN RemoveSafely ELSE RemoveForced
        <5>1. \/ cfg.obs = "remove" /\ RemoveSafely
              \/ cfg.obs = "force" /\ RemoveForced
          BY <3>2, <4>2
        <5>2. RemovalSettled'
          BY <3>1, <4>2, <5>1, RemovalSettles
        <5>3. QED BY <3>1, <3>2, <5>2 DEF ObservablesSettled
      <4>3. QED BY <2>2, <3>2, <4>1, <4>2, RemovalTurn
    <3>3. CASE cfg.obs = "add"
      <4>1. CASE (AdditionOver' <=> AdditionOver) /\ (AdditionOver => obs' = obs /\ gen' = gen)
        BY <3>1, <3>3, <4>1 DEF ObservablesSettled, AdditionSettled, Resolvable
      <4>2. CASE gen' = gen /\ AddObservables
        <5>1. AdditionSettled'
          BY <4>2, AdditionSettles
        <5>2. QED BY <3>1, <3>3, <5>1 DEF ObservablesSettled
      <4>3. QED BY <2>2, <3>3, <4>1, <4>2, AdditionTurn
    <3>4. CASE cfg.obs \notin {"add", "remove", "force"}
      BY <3>1, <3>4 DEF ObservablesSettled
    <3>5. QED BY <3>2, <3>3, <3>4
  <2>3. CASE UNCHANGED vars
    <3>1. (RemovalOver' <=> RemovalOver) /\ (AdditionOver' <=> AdditionOver)
      BY <2>3 DEF vars, RemovalOver, AdditionOver, Pipe
    <3>2. QED BY <2>3, <3>1 DEF vars, ObservablesSettled, RemovalSettled, AdditionSettled, Resolvable
  <2>4. QED BY <2>1, <2>2, <2>3 DEF Next
<1>3. QED BY <1>1, <1>2, TypeCorrect, EventStaysTyped, GeneratedStaysTrusted, PTL DEF Spec

(* When a call is over nothing is left to do for another one like it.      *)
LEMMA AtRestWhenDone ==
    ASSUME SiblingsSettled, HarvestSoFar, ObservablesSettled,
           phase = "ready", calls > 0, Resolvable
    PROVE  AtRest
<1>1. \A b : Passed(b) /\ Handled(b) /\ Through(b) /\ EntryHandled(b)
  BY DEF Passed, Handled, Through, EntryHandled
<1>2. RemovalOver /\ AdditionOver
  BY DEF RemovalOver, AdditionOver
<1>3. cfg.enum # "none" =>
        /\ \A e \in EnumAttr : SiblingWork(e) = attr[Sibling[e]]
        /\ Observables \in Range(Order) =>
             \A i \in DOMAIN Entries(obs) : CaptionSettled(obs.s[i])
  BY <1>1 DEF SiblingsSettled
<1>4. /\ cfg.obs \in {"remove", "force"} => RemovalSettled
      /\ cfg.obs = "add" => AdditionSettled
  BY <1>2 DEF ObservablesSettled
<1>5. ASSUME cfg.obs = "add", NEW b \in Attr, ~Skipped(b),
             NEW q \in Offers(cfg.indexed, Site(b), attr[Site(b)]),
             \A x \in Range(gen) : Covered(x, Entries(obs))
      PROVE  Found(q, Entries(obs))
  <2>1. Found(q, gen)
    BY <1>1, <1>5 DEF HarvestSoFar
  <2>2. PICK x \in Range(gen) : Identity(x) = q
    BY <2>1 DEF Found
  <2>3. QED BY <1>5, <2>2 DEF Covered
<1>6. QED BY <1>3, <1>4, <1>5 DEF AtRest, AdditionSettled

(* What changes the observables.                                           *)
LEMMA ObservablesChange ==
    ASSUME TypeOK, Process
    PROVE  \/ obs' = obs
           \/ VisitEntry
           \/ cfg.obs = "remove" /\ RemoveSafely
           \/ cfg.obs = "force" /\ RemoveForced
           \/ cfg.obs = "add" /\ AddObservables
<1> cfg \in Config
  BY InputAssumption DEF TypeOK
<1>1. \A t \in 1 .. Len(Pipe) : Pipe[t].obs => Pipe[t].action = cfg.obs
  BY AddsObservables DEF Pipe
<1>2. CASE OnClass \/ OnClassDone
  <2>1. turn \in 1 .. Len(Pipe) /\ (obs' = obs \/ RemoveObservables(Pipe[turn]))
    BY <1>2, TurnAdvances DEF OnClass, OnClassDone
  <2>2. QED BY <1>1, <2>1 DEF RemoveObservables
<1>3. CASE OnEventDone
  <2>1. turn \in 1 .. Len(Pipe)
    BY <1>3, TurnAdvances DEF OnEventDone
  <2>2. QED BY <1>1, <1>3, <2>1 DEF OnEventDone
<1>4. CASE ~(OnClass \/ OnClassDone \/ OnEventDone)
  BY <1>4 DEF Process, ClassVisited, SkipAttribute, VisitPair, VisitOrdinary, ValidateAttribute,
     ValidateEntry, LeaveObservables, WalkEnds, ClassDone, EventDone, EndPart
<1>5. QED BY <1>2, <1>3, <1>4

(* Observables with the same entries are the same.                         *)
LEMMA SameObservables ==
    ASSUME NEW o \in ObsValue, NEW p \in ObsValue, o.k = p.k, o.s = p.s
    PROVE  o = p
BY DEF ObsValue

(* A call that finds nothing to do does nothing.                           *)
LEMMA RestKept ==
    ASSUME TypeOK, EventTyped, WalkFromStart, EntryFromStart, AtRest, Process
    PROVE  attr' = attr /\ obs' = obs /\ AtRest'
<1> cfg \in Config
  BY InputAssumption DEF TypeOK
<1>1. /\ UNCHANGED <<cfg, active>> /\ Pipe' = Pipe
      /\ \A b : /\ (PairOwner(b)' <=> PairOwner(b)) /\ (Skipped(b)' <=> Skipped(b))
                /\ Site(b)' = Site(b)
  BY ProcessKeeps DEF Pipe, PairOwner, Skipped, OwnedByPair, Site
<1>2. /\ obs \in ObsValue /\ obs.s \in Seq(Entry) /\ Entries(obs) \in Seq(Entry)
      /\ gen \in Seq(Entry)
  BY EmptySeq DEF EventTyped, ObsValue, Entries
<1>3. attr' = attr
  <2>1. CASE ~VisitPair /\ ~VisitOrdinary
    BY <2>1, AttributesKept
  <2>2. CASE (VisitPair \/ VisitOrdinary) /\ cfg.enum = "none"
    BY <2>2, VisitsLeave
  <2>3. CASE cfg.enum # "none"
    <3>1. attr \in [Attr -> Value] /\ attr' \in [Attr -> Value]
      BY TypeKept DEF TypeOK, Next
    <3>2. \A e \in EnumAttr : attr'[Sibling[e]] = attr[Sibling[e]]
      BY <2>3, SiblingsStep DEF AtRest
    <3>3. \A a \in Attr : attr'[a] = attr[a]
      BY <2>3, <3>2, SiblingsStep
    <3>4. QED BY <3>1, <3>3
  <2>4. QED BY <2>1, <2>2, <2>3
<1>4. obs' = obs
  <2>1. CASE VisitEntry
    <3>1. CASE cfg.enum = "none"
      BY <2>1, <3>1, VisitsLeave
    <3>2. CASE cfg.enum # "none"
      <4>1. /\ obs' \in ObsValue /\ obs'.k = obs.k /\ DOMAIN obs'.s = DOMAIN obs.s
            /\ ent \in DOMAIN obs.s /\ turn \in 1 .. Len(Pipe)
            /\ \A i \in DOMAIN obs.s : i # ent \/ turn > 1 => obs'.s[i] = obs.s[i]
            /\ turn = 1 => obs'.s[ent] = [obs.s[ent] EXCEPT !.typ = CaptionWork(obs.s[ent])]
        BY <2>1, <3>2, CaptionVisited
      <4>2. turn = 1 => obs'.s[ent] = obs.s[ent]
        <5>1. obs.k = "array" /\ Observables \in Range(Order)
          BY <2>1, OrderIsList DEF VisitEntry, AtEntry, AtObs, TypeOK, Here, Range
        <5>2. CaptionWork(obs.s[ent]) = obs.s[ent].typ
          BY <3>2, <4>1, <5>1 DEF AtRest, Entries, CaptionSettled
        <5>3. obs.s[ent] \in Entry
          BY <1>2, <4>1, ElementOfSeq, LenProperties
        <5>4. [obs.s[ent] EXCEPT !.typ = obs.s[ent].typ] = obs.s[ent]
          BY <5>3 DEF Entry
        <5>5. QED BY <4>1, <5>2, <5>4
      <4>3. \A i \in DOMAIN obs.s : obs'.s[i] = obs.s[i]
        <5>1. turn = 1 \/ turn > 1
          BY <4>1
        <5>2. QED BY <4>1, <4>2, <5>1
      <4> DEFINE s == obs.s
                 t == obs'.s
      <4>4. s \in Seq(Entry) /\ t \in Seq(Entry) /\ DOMAIN t = DOMAIN s /\ \A i \in DOMAIN s : t[i] = s[i]
        BY <1>2, <4>1, <4>3 DEF ObsValue
      <4>5. t = s
        <5> HIDE DEF s, t
        <5>1. Len(s) = Len(t) /\ DOMAIN s = 1 .. Len(s)
          BY <4>4, LenProperties
        <5>2. QED BY <4>4, <5>1, SeqEqual
      <4>6. QED BY <1>2, <4>1, <4>5, SameObservables
    <3>3. QED BY <3>1, <3>2
  <2>2. CASE cfg.obs = "remove" /\ RemoveSafely
    <3>1. RemovalSettled
      BY <2>2 DEF AtRest
    <3>2. CASE obs.k \in {"absent", "other"}
      BY <2>2, <3>2 DEF RemoveSafely
    <3>3. CASE obs.k = "array" /\ obs.s # <<>> /\ \A i \in DOMAIN obs.s : ~Removable(obs.s[i], attr, active)
      <4>1. {i \in DOMAIN obs.s : ~Removable(obs.s[i], attr, active)} = DOMAIN obs.s
        BY <3>3
      <4>2. Selected(obs.s, DOMAIN obs.s) = obs.s
        BY <1>2, SelectedEnds
      <4>3. obs' = ObsArray(obs.s)
        BY <2>2, <3>3, <4>1, <4>2 DEF RemoveSafely
      <4>4. QED BY <1>2, <3>3, <4>3, ObsShapes, SameObservables
    <3>4. QED BY <2>2, <3>1, <3>2, <3>3 DEF RemovalSettled
  <2>3. CASE cfg.obs = "force" /\ RemoveForced
    BY <2>3 DEF AtRest, RemovalSettled, RemoveForced
  <2>4. CASE cfg.obs = "add" /\ AddObservables
    <3>1. CASE obs.k = "other"
      BY <2>4, <3>1 DEF AddObservables
    <3>2. CASE obs.k # "other"
      <4>1. /\ obs = NoObs \/ (obs.k = "array" /\ obs.s # <<>>)
            /\ \A x \in Range(gen) : Covered(x, Entries(obs))
        BY <2>4, <3>2 DEF AtRest
      <4> DEFINE old == Entries(obs)
      <4>2. obs' = IF old \o Deduplicated(old, gen) = <<>> THEN NoObs
                   ELSE ObsArray(old \o Deduplicated(old, gen))
        BY <2>4, <3>2 DEF AddObservables, Entries
      <4>3. Deduplicated(old, gen) = <<>>
        BY <1>2, <4>1, DeduplicatedNone
      <4>4. old \in Seq(Entry)
        BY <1>2
      <4>5. old \o <<>> = old
        <5> HIDE DEF old
        <5>1. QED BY <4>4, ConcatEmptySeq
      <4>6. obs' = IF old = <<>> THEN NoObs ELSE ObsArray(old)
        <5> HIDE DEF old
        <5>1. QED BY <4>2, <4>3, <4>5
      <4>7. CASE obs = NoObs
        BY <4>6, <4>7, ObsShapes DEF Entries
      <4>8. CASE obs.k = "array" /\ obs.s # <<>>
        BY <1>2, <4>6, <4>8, ObsShapes, SameObservables DEF Entries
      <4>9. QED BY <4>1, <4>7, <4>8
    <3>3. QED BY <3>1, <3>2
  <2>5. QED BY <2>1, <2>2, <2>3, <2>4, ObservablesChange
<1>5. ASSUME cfg.obs = "add", obs.k # "other", NEW x \in Range(gen')
      PROVE  Covered(x, Entries(obs))
  <2>1. /\ \A b \in Attr : ~Skipped(b) =>
             \A q \in Offers(cfg.indexed, Site(b), attr[Site(b)]) : Found(q, Entries(obs))
        /\ \A y \in Range(gen) : Covered(y, Entries(obs))
    BY <1>5 DEF AtRest
  <2>2. CASE VisitPair \/ VisitOrdinary
    <3> DEFINE new == Harvest(Pipe[turn], Site(Here), attr'[Site(Here)]).new
    <3>1. /\ turn \in 1 .. Len(Pipe) /\ Here \in Attr /\ ~Skipped(Here) /\ Site(Here) \in Attr
          /\ gen' = gen \o new
      BY <2>2, AttributeVisited
    <3>2. new \in Seq(Entry) /\ attr'[Site(Here)] \in Value
      BY <2>2, VisitTypes
    <3>3. \A y \in Range(new) : Identity(y) \in Offers(cfg.indexed, Site(Here), attr'[Site(Here)])
      <4>1. CASE Pipe[turn].action = "add" /\ Pipe[turn].obs
        BY <3>1, <3>2, <4>1, HarvestOffers
      <4>2. CASE ~(Pipe[turn].action = "add" /\ Pipe[turn].obs)
        <5>1. new = <<>> /\ Range(<<>>) = {}
          BY <4>2 DEF Harvest, Range
        <5>2. QED BY <5>1
      <4>3. QED BY <4>1, <4>2
    <3> HIDE DEF new
    <3>4. Range(gen') = Range(gen) \cup Range(new)
      BY <1>2, <3>1, <3>2, RangeConcatenation
    <3>5. \A y \in Range(new) : Covered(y, Entries(obs))
      BY <1>3, <2>1, <3>1, <3>3 DEF Covered
    <3>6. QED BY <1>5, <2>1, <3>4, <3>5
  <2>3. CASE ~VisitPair /\ ~VisitOrdinary
    BY <1>5, <2>1, <2>3, AttributesKept
  <2>4. QED BY <2>2, <2>3
<1>6. AtRest'
  <2>1. cfg.enum # "none" =>
          /\ \A e \in EnumAttr : SiblingWork(e)' = attr'[Sibling[e]]
          /\ Observables \in Range(Order) =>
               \A i \in DOMAIN Entries(obs') : CaptionSettled(obs.s[i])'
    <3>1. \A e \in EnumAttr : SiblingWork(e)' = SiblingWork(e)
      BY <1>1, <1>3 DEF SiblingWork
    <3>2. \A x : CaptionSettled(x)' <=> CaptionSettled(x)
      BY <1>1 DEF CaptionSettled, CaptionWork
    <3>3. QED BY <1>3, <1>4, <3>1, <3>2 DEF AtRest
  <2>2. cfg.obs \in {"remove", "force"} => RemovalSettled'
    BY <1>1, <1>3, <1>4 DEF AtRest, RemovalSettled
  <2>3. cfg.obs = "add" =>
          \/ obs'.k = "other"
          \/ /\ obs' = NoObs \/ (obs'.k = "array" /\ obs'.s # <<>>)
             /\ \A b \in Attr : ~Skipped(b)' =>
                  \A q \in Offers(cfg.indexed, Site(b)', attr'[Site(b)']) : Found(q, Entries(obs'))
             /\ \A x \in Range(gen') : Covered(x, Entries(obs'))
    BY <1>1, <1>3, <1>4, <1>5 DEF AtRest
  <2>4. QED BY <1>1, <1>4, <2>1, <2>2, <2>3 DEF AtRest
<1>7. QED BY <1>3, <1>4, <1>6

(* Processing an event again with the same configuration changes nothing   *)
(* in it: removal leaves only what it would leave again, addition adds     *)
(* only what it would find again.                                          *)
THEOREM ProcessingAgainChangesNothing == Spec => []Idempotent
<1>1. Init => SecondSoFar
  BY DEF Init, SecondSoFar
<1> DEFINE Inv == /\ TypeOK /\ EventTyped /\ WalkFromStart /\ EntryFromStart
                  /\ SiblingsSettled /\ HarvestSoFar /\ ObservablesSettled
<1>2. Inv /\ SecondSoFar /\ [Next]_vars => SecondSoFar'
  <2> SUFFICES ASSUME Inv, SecondSoFar, [Next]_vars PROVE SecondSoFar'
    OBVIOUS
  <2>1. ASSUME NEW c \in Configs, Call(c) PROVE SecondSoFar'
    <3>1. /\ calls \in Nat /\ calls' = calls + 1 /\ cfg' = c /\ phase = "ready"
          /\ UNCHANGED <<cls, active, attr, obs>> /\ start' = [attr |-> attr, obs |-> obs]
          /\ first' = IF calls = 0 THEN [attr |-> attr, obs |-> obs, cfg |-> c] ELSE first
          /\ gen' = <<>> /\ (cls # "resolved" => phase' = "ready")
      BY <2>1 DEF Call, TypeOK
    <3>2. CASE calls = 0
      BY <3>1, <3>2 DEF SecondSoFar, Resolvable
    <3>3. CASE calls = 1
      <4>1. ASSUME Resolvable, first.cfg = c PROVE AtRest'
        <5>1. AtRest /\ cfg' = cfg
          BY <3>1, <3>3, <4>1, AtRestWhenDone DEF SecondSoFar
        <5>2. Range(<<>>) = {}
          BY DEF Range
        <5>3. QED
          BY <3>1, <5>1, <5>2 DEF AtRest, RemovalSettled, SiblingWork, CaptionSettled, CaptionWork,
             Pipe, PairOwner, Skipped, OwnedByPair, Site
      <4>2. QED BY <3>1, <3>3, <4>1 DEF SecondSoFar, Resolvable
    <3>4. CASE calls > 1
      BY <3>1, <3>4 DEF SecondSoFar, Resolvable
    <3>5. QED BY <3>1, <3>2, <3>3, <3>4
  <2>2. CASE Process
    <3>1. UNCHANGED <<cfg, cls, calls, start, first>>
      BY <2>2, ProcessKeeps
    <3>2. phase # "ready"
      BY <2>2 DEF Process, OnClass, ClassVisited, SkipAttribute, VisitPair, VisitOrdinary, VisitEntry,
         ValidateAttribute, ValidateEntry, LeaveObservables, WalkEnds, OnClassDone, ClassDone,
         OnEventDone, EventDone, EndPart, AtEntry, AtObs, AtAttr
    <3>3. AtRest => attr' = attr /\ obs' = obs /\ AtRest'
      BY <2>2, RestKept
    <3>4. QED BY <3>1, <3>2, <3>3 DEF SecondSoFar, Resolvable
  <2>3. CASE UNCHANGED vars
    <3>1. UNCHANGED <<phase, cfg, cls, active, attr, obs, gen, calls, start, first>>
      BY <2>3 DEF vars
    <3>2. AtRest => AtRest'
      BY <3>1 DEF AtRest, RemovalSettled, SiblingWork, CaptionSettled, CaptionWork,
         Pipe, PairOwner, Skipped, OwnedByPair, Site
    <3>3. QED BY <3>1, <3>2 DEF SecondSoFar, Resolvable
  <2>4. QED BY <2>1, <2>2, <2>3 DEF Next
<1>3. SecondSoFar => Idempotent
  BY DEF SecondSoFar, Idempotent, Done, Resolvable
<1>4. QED
  BY <1>1, <1>2, <1>3, TypeCorrect, EventStaysTyped, WalkStarts, EntriesStart,
     SiblingsStaySettled, HarvestStaysComplete, ObservablesStaySettled, PTL DEF Spec
=============================================================================
