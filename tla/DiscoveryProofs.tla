--------------------------- MODULE DiscoveryProofs ---------------------------
(***************************************************************************)
(* Theorems about ObjectObservability and ClassObservables, for schemas of *)
(* any size and shape, any set of selected observable types and any class. *)
(***************************************************************************)
EXTENDS ClassObservables, SequenceTheorems, FiniteSetTheorems, Iteration

(* What the two loops of CompileObjectObservability keep.                  *)
CompileInv ==
    /\ \A o \in Object \ todo :
         /\ Direct(o) => o \in result
         /\ \A n \in Refers(o) : o \in referrers[n]
    /\ \A n \in Object : \A o \in referrers[n] : n \in Refers(o)
    /\ pending \subseteq result
    /\ todo # {} => result = pending
    /\ \A o \in result \ pending : referrers[o] \subseteq result
    /\ result \subseteq MayGenerate

(* What the depth-first search keeps: what it has passed generates nothing *)
(* by itself and leads nowhere new, what is unfinished is on its way back, *)
(* and whatever it has entered would answer the question.                  *)
SearchInv ==
    /\ asked = None => visited = {} /\ stack = <<>> /\ answer = "none"
    /\ asked # None => asked \in visited
    /\ \A o \in visited : \A d \in schema.attrs[o] \ left[o] :
         ~Counts(d) /\ (d.kind = "object" => d.to \in visited)
    /\ answer = "none" => \A o \in visited : left[o] = {} \/ \E i \in 1 .. Len(stack) : stack[i] = o
    /\ \A o \in visited : o \in MayGenerate => asked \in MayGenerate
    /\ answer # "none" => stack = <<>>
    /\ answer = "yes" => asked \in MayGenerate
    /\ answer = "no" => asked \notin MayGenerate

-----------------------------------------------------------------------------
(* The reference.                                                          *)

(* It has the closure property itself, and is the least set that has it.   *)
LEMMA LeastClosed ==
    /\ Closed(MayGenerate)
    /\ \A S \in SUBSET Object : Closed(S) => MayGenerate \subseteq S
<1>1. ASSUME NEW o \in Object, NEW d \in schema.attrs[o],
             Counts(d) \/ (d.kind = "object" /\ d.to \in MayGenerate)
      PROVE  o \in MayGenerate
  <2> SUFFICES ASSUME NEW S \in SUBSET Object, Closed(S) PROVE o \in S
    BY DEF MayGenerate
  <2>1. Counts(d) \/ (d.kind = "object" /\ d.to \in S)
    BY <1>1 DEF MayGenerate
  <2>2. QED BY <2>1 DEF Closed
<1>2. QED BY <1>1 DEF Closed, MayGenerate

(* It depends on the schema only.                                          *)
LEMMA ReferenceFixed ==
    ASSUME schema' = schema
    PROVE  /\ \A d : Counts(d)' = Counts(d)
           /\ \A o : Direct(o)' = Direct(o) /\ Refers(o)' = Refers(o)
           /\ MayGenerate' = MayGenerate
BY DEF MayGenerate, Closed, Direct, Refers, Counts, DirectlyObservable

(* An attribute that refers, and a reference it may be.                    *)
LEMMA ReferencesInSchema ==
    ASSUME TypeOK
    PROVE  \A o \in Object : /\ Refers(o) \subseteq Object
                             /\ \A d \in schema.attrs[o] : d.kind = "object" => d.to \in Object
BY SchemaAssumption DEF TypeOK, Refers

-----------------------------------------------------------------------------
(* Schema, sets, stack and answer keep their types.                        *)
THEOREM DiscoveryTypeCorrect == Spec => []TypeOK
<1>1. Init => TypeOK
  BY SchemaAssumption DEF Init, TypeOK
<1>2. TypeOK /\ [Next]_vars => TypeOK'
  <2> SUFFICES ASSUME TypeOK, [Next]_vars PROVE TypeOK'
    OBVIOUS
  <2> USE SchemaAssumption DEF TypeOK
  <2>1. ASSUME NEW o \in Object, Scan(o) \/ Propagate(o) PROVE TypeOK'
    <3>1. schema' = schema /\ searching' = searching
      BY <2>1 DEF Scan, Propagate, searching
    <3>2. todo' \subseteq Object /\ result' \subseteq Object /\ pending' \subseteq Object
      BY <2>1 DEF Scan, Propagate
    <3>3. referrers' \in [Object -> SUBSET Object]
      BY <2>1 DEF Scan, Propagate
    <3>4. QED BY <3>1, <3>2, <3>3 DEF searching
  <2>2. ASSUME NEW o \in Object, Ask(o) PROVE TypeOK'
    <3>1. schema.attrs[o] \in SUBSET Attribute
      BY DEF Schema
    <3>2. stack' \in Seq(visited')
      BY <2>2 DEF Ask
    <3>3. QED BY <2>2, <3>1, <3>2 DEF Ask, compiling
  <2>3. ASSUME NEW o \in Object, NEW d \in left[o], Found(d) PROVE TypeOK'
    BY <2>3 DEF Found, compiling
  <2>4. ASSUME NEW o \in Object, NEW d \in left[o], Enter(d) PROVE TypeOK'
    <3>1. Top \in visited /\ d \in schema.attrs[Top]
      BY <2>4 DEF Enter, Top
    <3>2. d.to \in Object
      BY <2>4, <3>1 DEF Enter
    <3>3. schema.attrs[d.to] \in SUBSET Attribute
      BY <3>2 DEF Schema
    <3>4. stack' \in Seq(visited')
      BY <2>4 DEF Enter
    <3>5. QED BY <2>4, <3>1, <3>2, <3>3, <3>4 DEF Enter, compiling
  <2>5. ASSUME NEW o \in Object, NEW d \in left[o], Pass(d) PROVE TypeOK'
    <3>1. Top \in visited
      BY <2>5 DEF Pass, Top
    <3>2. QED BY <2>5, <3>1 DEF Pass, compiling
  <2>6. CASE Leave
    <3>1. stack' \in Seq(visited)
      BY <2>6 DEF Leave
    <3>2. QED BY <2>6, <3>1 DEF Leave, compiling
  <2>7. CASE UNCHANGED vars
    BY <2>7 DEF vars
  <2>8. QED
    BY <2>1, <2>2, <2>3, <2>4, <2>5, <2>6, <2>7 DEF Next, Compile, Search
<1>3. QED BY <1>1, <1>2, PTL DEF Spec

-----------------------------------------------------------------------------
(* The cache.                                                              *)

(* The loops of CompileObjectObservability keep their invariant.           *)
LEMMA CompileInvariant == Spec => []CompileInv
<1>1. Init => CompileInv
  BY DEF Init, CompileInv
<1>2. TypeOK /\ CompileInv /\ [Next]_vars => CompileInv'
  <2> SUFFICES ASSUME TypeOK, CompileInv, [Next]_vars PROVE CompileInv'
    OBVIOUS
  <2>0. schema' = schema
    BY DEF Next, Compile, Search, Scan, Propagate, Ask, Found, Enter, Pass, Leave, vars
  <2> USE ReferenceFixed, <2>0
  <2>1. ASSUME NEW o \in Object, Scan(o) PROVE CompileInv'
    <3>1. Refers(o) \subseteq Object
      BY ReferencesInSchema
    <3>2. Direct(o) => o \in MayGenerate
      BY LeastClosed DEF Closed, Direct
    <3>3. result = pending /\ result' = pending'
      BY <2>1 DEF Scan, CompileInv
    <3>4. \A n \in Object : referrers'[n] = IF n \in Refers(o) THEN referrers[n] \cup {o} ELSE referrers[n]
      BY <2>1 DEF Scan
    <3>5. \A x \in Object \ todo' : /\ Direct(x) => x \in result'
                                    /\ \A n \in Refers(x) : x \in referrers'[n]
      BY <2>1, <3>1, <3>4, ReferencesInSchema DEF Scan, CompileInv
    <3>6. \A n \in Object : \A x \in referrers'[n] : n \in Refers(x)
      BY <3>4 DEF CompileInv
    <3>7. result' \subseteq MayGenerate
      BY <2>1, <3>2 DEF Scan, CompileInv
    <3>8. QED BY <3>3, <3>5, <3>6, <3>7 DEF CompileInv
  <2>2. ASSUME NEW o \in Object, Propagate(o) PROVE CompileInv'
    <3>1. o \in MayGenerate
      BY <2>2 DEF Propagate, CompileInv
    <3>2. referrers[o] \subseteq MayGenerate
      <4> SUFFICES ASSUME NEW r \in referrers[o] PROVE r \in MayGenerate
        OBVIOUS
      <4>1. r \in Object /\ o \in Refers(r)
        BY DEF TypeOK, CompileInv
      <4>2. PICK d \in schema.attrs[r] : d.kind = "object" /\ d.to = o
        BY <4>1 DEF Refers
      <4>3. QED BY <3>1, <4>1, <4>2, LeastClosed DEF Closed
    <3>3. QED BY <2>2, <3>2 DEF Propagate, CompileInv
  <2>3. CASE UNCHANGED compiling
    BY <2>3 DEF compiling, CompileInv
  <2>4. QED
    BY <2>1, <2>2, <2>3 DEF Next, Compile, Search, Ask, Found, Enter, Pass, Leave, vars, compiling
<1>3. QED BY <1>1, <1>2, DiscoveryTypeCorrect, PTL DEF Spec

(* The cache is exact when the second loop ends: every object an           *)
(* observable could come from is in it, and no other, on cyclic schemas    *)
(* too and in any order of the maps (discovery.go:37-44).                  *)
THEOREM CacheIsExact == Spec => []CacheExact
<1>1. TypeOK /\ CompileInv => CacheExact
  <2> SUFFICES ASSUME TypeOK, CompileInv, Compiled PROVE result = MayGenerate
    BY DEF CacheExact
  <2>1. Closed(result)
    <3> SUFFICES ASSUME NEW o \in Object, NEW d \in schema.attrs[o],
                        Counts(d) \/ (d.kind = "object" /\ d.to \in result)
                 PROVE  o \in result
      BY DEF Closed
    <3>1. CASE Counts(d)
      BY <3>1 DEF Direct, Compiled, CompileInv
    <3>2. CASE ~Counts(d) /\ d.kind = "object" /\ d.to \in result
      <4>1. d.to \in Refers(o)
        BY <3>2 DEF Refers
      <4>2. QED BY <3>2, <4>1 DEF Compiled, CompileInv
    <3>3. QED BY <3>1, <3>2
  <2>2. QED BY <2>1, LeastClosed DEF CompileInv, TypeOK
<1>2. QED BY <1>1, DiscoveryTypeCorrect, CompileInvariant, PTL

-----------------------------------------------------------------------------
(* The search without a cache.                                             *)

(* The search without a cache keeps its invariant.                         *)
LEMMA SearchInvariant == Spec => []SearchInv
<1>1. Init => SearchInv
  BY SchemaAssumption DEF Init, SearchInv
<1>2. TypeOK /\ SearchInv /\ [Next]_vars => SearchInv'
  <2> SUFFICES ASSUME TypeOK, SearchInv, [Next]_vars PROVE SearchInv'
    OBVIOUS
  <2>0. schema' = schema
    BY DEF Next, Compile, Search, Scan, Propagate, Ask, Found, Enter, Pass, Leave, vars
  <2> USE ReferenceFixed, <2>0
  <2>1. ASSUME NEW o \in Object, Ask(o) PROVE SearchInv'
    <3>1. asked' = o /\ visited' = {o} /\ left'[o] = schema.attrs[o] /\ stack' = <<o>>
      BY <2>1 DEF Ask, TypeOK
    <3>2. answer' = "none" /\ o # None
      BY <2>1, SchemaAssumption DEF Ask, SearchInv
    <3>3. Len(stack') = 1 /\ stack'[1] = o
      BY <3>1
    <3>4. QED BY <3>1, <3>2, <3>3 DEF SearchInv
  <2>2. ASSUME stack # <<>>
        PROVE  /\ asked # None /\ answer = "none" /\ Len(stack) \in Nat \ {0}
               /\ Top \in visited /\ visited \subseteq Object
    BY <2>2 DEF SearchInv, TypeOK, Top
  <2>3. ASSUME NEW o \in Object, NEW d \in left[o], Found(d) PROVE SearchInv'
    <3>1. Top \in visited /\ d \in schema.attrs[Top] /\ Counts(d) /\ Top \in Object
      BY <2>2, <2>3 DEF Found, TypeOK
    <3>2. Top \in MayGenerate
      BY <3>1, LeastClosed DEF Closed
    <3>3. asked \in MayGenerate
      BY <3>1, <3>2 DEF SearchInv
    <3>4. QED BY <2>2, <2>3, <3>3 DEF Found, SearchInv
  <2>4. ASSUME NEW o \in Object, NEW d \in left[o], Enter(d) PROVE SearchInv'
    <3>1. /\ Top \in visited /\ d \in left[Top] /\ d \in schema.attrs[Top] /\ Top \in Object
          /\ d.kind = "object" /\ ~Counts(d) /\ d.to \notin visited /\ stack # <<>>
      BY <2>2, <2>4 DEF Enter, TypeOK
    <3>2. d.to \in Object
      BY <3>1, ReferencesInSchema
    <3>3. /\ visited' = visited \cup {d.to} /\ stack' = Append(stack, d.to)
          /\ asked' = asked /\ answer' = answer
          /\ \A x \in Object : left'[x] = IF x = d.to THEN schema.attrs[x]
                                          ELSE IF x = Top THEN left[x] \ {d} ELSE left[x]
      BY <2>4, <3>1, <3>2 DEF Enter, TypeOK
    <3>4. d.to \in MayGenerate => Top \in MayGenerate
      BY <3>1, LeastClosed DEF Closed
    <3>5. \A x \in visited' : \A e \in schema.attrs[x] \ left'[x] :
            ~Counts(e) /\ (e.kind = "object" => e.to \in visited')
      <4> SUFFICES ASSUME NEW x \in visited', NEW e \in schema.attrs[x] \ left'[x]
                   PROVE  ~Counts(e) /\ (e.kind = "object" => e.to \in visited')
        OBVIOUS
      <4>1. CASE x = d.to
        BY <3>2, <3>3, <4>1
      <4>2. CASE x # d.to /\ e \in left[x]
        <5>1. x \in visited /\ x \in Object
          BY <2>2, <3>3, <4>2 DEF SearchInv, TypeOK
        <5>2. x = Top /\ e = d
          BY <3>3, <4>2, <5>1
        <5>3. QED BY <3>1, <3>3, <5>2
      <4>3. CASE x # d.to /\ e \notin left[x]
        BY <2>2, <3>3, <4>3 DEF SearchInv
      <4>4. QED BY <4>1, <4>2, <4>3
    <3>6. /\ Len(stack') = Len(stack) + 1 /\ stack'[Len(stack) + 1] = d.to
          /\ \A i \in 1 .. Len(stack) : stack'[i] = stack[i]
      BY <3>3 DEF TypeOK
    <3>7. \A x \in visited' : left'[x] = {} \/ \E i \in 1 .. Len(stack') : stack'[i] = x
      <4> SUFFICES ASSUME NEW x \in visited', left'[x] # {}
                   PROVE  \E i \in 1 .. Len(stack') : stack'[i] = x
        OBVIOUS
      <4>1. CASE x = d.to
        BY <2>2, <3>1, <3>6, <4>1
      <4>2. CASE x # d.to
        <5>1. x \in visited /\ left[x] # {}
          BY <2>2, <3>1, <3>3, <4>2
        <5>2. PICK i \in 1 .. Len(stack) : stack[i] = x
          BY <2>2, <3>1, <5>1 DEF SearchInv
        <5>3. QED BY <2>2, <3>1, <3>6, <5>2
      <4>3. QED BY <4>1, <4>2
    <3>8. QED BY <2>2, <3>1, <3>3, <3>4, <3>5, <3>7 DEF SearchInv
  <2>5. ASSUME NEW o \in Object, NEW d \in left[o], Pass(d) PROVE SearchInv'
    <3>1. /\ Top \in visited /\ stack # <<>> /\ Top \in Object /\ ~Counts(d)
          /\ d.kind = "object" => d.to \in visited
      BY <2>2, <2>5 DEF Pass
    <3>2. /\ visited' = visited /\ stack' = stack /\ asked' = asked /\ answer' = answer
          /\ \A x \in Object : left'[x] = IF x = Top THEN left[x] \ {d} ELSE left[x]
      BY <2>5, <3>1 DEF Pass, TypeOK
    <3>3. \A x \in visited : \A e \in schema.attrs[x] \ left'[x] :
            ~Counts(e) /\ (e.kind = "object" => e.to \in visited)
      BY <2>2, <3>1, <3>2 DEF SearchInv
    <3>4. \A x \in visited : left[x] = {} => left'[x] = {}
      BY <2>2, <3>1, <3>2
    <3>5. QED BY <2>2, <3>1, <3>2, <3>3, <3>4 DEF SearchInv
  <2>6. CASE Leave
    <3>1. stack # <<>> /\ left[Top] = {} /\ asked' = asked /\ visited' = visited /\ left' = left
      BY <2>6 DEF Leave
    <3>2. /\ Len(stack') = Len(stack) - 1
          /\ \A i \in 1 .. Len(stack) - 1 : stack'[i] = stack[i]
      <4>1. stack \in Seq(Object) /\ Len(stack) \in Nat \ {0}
        BY <2>2, <3>1 DEF TypeOK
      <4>2. stack' = SubSeq(stack, 1, Len(stack) - 1)
        BY <2>6 DEF Leave
      <4> DEFINE n == Len(stack) - 1
      <4>3. n \in Int /\ \A i \in 1 .. n : stack[i] \in Object
        BY <4>1
      <4>4. /\ Len(SubSeq(stack, 1, n)) = IF 1 <= n THEN n - 1 + 1 ELSE 0
            /\ \A i \in 1 .. n - 1 + 1 : SubSeq(stack, 1, n)[i] = stack[1 + i - 1]
        BY <4>3, SubSeqProperties
      <4> HIDE DEF n
      <4>5. Len(stack') = n /\ \A i \in 1 .. n : stack'[i] = stack[i]
        <5>1. n \in Nat
          BY <4>1 DEF n
        <5>2. stack' = SubSeq(stack, 1, n)
          BY <4>2 DEF n
        <5>3. QED BY <4>4, <5>1, <5>2
      <4>6. QED BY <4>5 DEF n
    <3>3. CASE Len(stack) # 1
      <4>1. answer' = "none"
        BY <2>2, <2>6, <3>1, <3>3 DEF Leave
      <4>2. \A x \in visited : left[x] = {} \/ \E i \in 1 .. Len(stack') : stack'[i] = x
        <5> SUFFICES ASSUME NEW x \in visited, left[x] # {}
                     PROVE  \E i \in 1 .. Len(stack') : stack'[i] = x
          OBVIOUS
        <5>1. PICK i \in 1 .. Len(stack) : stack[i] = x
          BY <2>2, <3>1 DEF SearchInv
        <5>2. i # Len(stack)
          BY <3>1, <5>1 DEF Top
        <5>3. QED BY <2>2, <3>1, <3>2, <5>1, <5>2
      <4>3. QED BY <2>2, <3>1, <4>1, <4>2 DEF SearchInv
    <3>4. CASE Len(stack) = 1
      <4>1. answer' = "no" /\ stack' = <<>>
        BY <2>6, <3>1, <3>2, <3>4 DEF Leave, TypeOK
      <4>2. \A x \in visited : left[x] = {}
        BY <2>2, <3>1, <3>4 DEF SearchInv, Top
      <4>3. Closed(Object \ visited)
        BY <4>2 DEF Closed, SearchInv
      <4>4. asked \notin MayGenerate
        BY <2>2, <3>1, <4>3, LeastClosed DEF SearchInv
      <4>5. QED BY <2>2, <3>1, <4>1, <4>4 DEF SearchInv
    <3>5. QED BY <3>3, <3>4
  <2>7. CASE UNCHANGED searching
    BY <2>7 DEF searching, SearchInv
  <2>8. QED
    BY <2>1, <2>3, <2>4, <2>5, <2>6, <2>7 DEF Next, Compile, Search, Scan, Propagate, vars, searching
<1>3. QED BY <1>1, <1>2, DiscoveryTypeCorrect, PTL DEF Spec

(* The search answers for the object it was asked about as the cache does, *)
(* cycles and visited objects included (discovery.go:145-148).             *)
THEOREM SearchIsExact == Spec => []SearchAgrees
<1>1. TypeOK /\ SearchInv => SearchAgrees
  BY DEF TypeOK, SearchInv, SearchAgrees
<1>2. QED BY <1>1, DiscoveryTypeCorrect, SearchInvariant, PTL

-----------------------------------------------------------------------------
(* What enrichment asks.                                                   *)

(* A way from an attribute of the class, from object to object.            *)
Linked(way, i) ==
    way[i].kind = "object" /\ way[i].to \in Object /\ way[i + 1] \in schema.attrs[way[i].to]

Walks == {way \in Seq(Attribute) : /\ way # <<>> /\ way[1] \in ClassAttributes
                                   /\ \A i \in 1 .. Len(way) - 1 : Linked(way, i)}

(* One step further is such a way again.                                   *)
LEMMA OnwardWalks ==
    ASSUME TypeOK, NEW way \in Walks
    PROVE  Onward(way) \subseteq Walks
<1> DEFINE d == Last(way)
<1>1. way \in Seq(Attribute) /\ way # <<>> /\ Len(way) \in Nat \ {0}
  BY DEF Walks
<1>2. d = way[Len(way)] /\ d \in Attribute
  BY <1>1 DEF Last
<1>3. d.kind = "object" => d.to \in Object
  <2>1. CASE Len(way) = 1
    BY <1>2, <2>1, ClassAssumption DEF Walks
  <2>2. CASE Len(way) # 1
    <3>1. Len(way) - 1 \in 1 .. Len(way) - 1 /\ (Len(way) - 1) + 1 = Len(way)
      <4>1. \A m \in Nat \ {0} : m # 1 => m - 1 \in 1 .. m - 1 /\ (m - 1) + 1 = m
        OBVIOUS
      <4>2. QED BY <1>1, <2>2, <4>1
    <3>2. Linked(way, Len(way) - 1)
      BY <3>1 DEF Walks
    <3>3. QED BY <1>2, <3>1, <3>2, SchemaAssumption DEF Linked, TypeOK
  <2>3. QED BY <2>1, <2>2
<1> HIDE DEF d
<1> SUFFICES ASSUME d.kind = "object", NEW next \in schema.attrs[d.to] PROVE Append(way, next) \in Walks
  BY DEF Onward, d
<1>4. next \in Attribute
  BY <1>3, SchemaAssumption DEF TypeOK, Schema
<1>5. /\ Append(way, next) \in Seq(Attribute)
      /\ Len(Append(way, next)) = Len(way) + 1
      /\ \A i \in 1 .. Len(way) : Append(way, next)[i] = way[i]
      /\ Append(way, next)[Len(way) + 1] = next
  BY <1>1, <1>4
<1>6. \A i \in 1 .. Len(way) : Linked(Append(way, next), i)
  <2> SUFFICES ASSUME NEW i \in 1 .. Len(way) PROVE Linked(Append(way, next), i)
    OBVIOUS
  <2>1. CASE i = Len(way)
    BY <1>2, <1>3, <1>5, <2>1 DEF Linked
  <2>2. CASE i # Len(way)
    <3>1. i \in 1 .. Len(way) - 1 /\ i + 1 \in 1 .. Len(way)
      BY <1>1, <2>2
    <3>2. Linked(way, i)
      BY <3>1 DEF Walks
    <3>3. QED BY <1>5, <3>1, <3>2 DEF Linked
  <2>3. QED BY <2>1, <2>2
<1>7. Append(way, next)[1] \in ClassAttributes /\ Append(way, next) # <<>>
  <2>1. 1 \in 1 .. Len(way) /\ way[1] \in ClassAttributes
    BY <1>1 DEF Walks
  <2>2. Append(way, next)[1] = way[1]
    BY <1>5, <2>1
  <2>3. QED BY <1>4, <2>1, <2>2
<1>8. (Len(way) + 1) - 1 = Len(way)
  BY <1>1
<1>9. QED BY <1>5, <1>6, <1>7, <1>8 DEF Walks

(* All places the walk can come to are reached on such ways.               *)
LEMMA WaysWalk ==
    ASSUME TypeOK
    PROVE  Ways \subseteq Walks
<1> DEFINE names == {d.name : d \in ClassAttributes \cup UNION {schema.attrs[o] : o \in Object}}
           N == Cardinality(names) + 1
           First == {<<d>> : d \in ClassAttributes}
           F == [n \in Nat |-> [S \in SUBSET Walks |-> UNION {Onward(way) : way \in S}]]
           Solves(h) == h = [n \in 1 .. N |-> IF n = 1 THEN First
                                              ELSE UNION {Onward(way) : way \in h[n - 1]}]
           long == CHOOSE h : Solves(h)
<1>1. Ways = UNION {long[n] : n \in DOMAIN long}
  BY DEF Ways
<1>2. N \in Nat \ {0}
  <2>1. IsFiniteSet(names)
    BY ClassAssumption DEF TypeOK
  <2> HIDE DEF names
  <2>2. QED BY <2>1, FS_CardinalityType
<1> HIDE DEF N
<1>3. First \in SUBSET Walks
  <2> SUFFICES ASSUME NEW d \in ClassAttributes PROVE <<d>> \in Walks
    OBVIOUS
  <2>1. d \in Attribute
    BY ClassAssumption
  <2>2. <<d>> \in Seq(Attribute) /\ Len(<<d>>) = 1 /\ <<d>>[1] = d /\ <<d>> # <<>>
    BY <2>1
  <2>3. \A i \in 1 .. Len(<<d>>) - 1 : Linked(<<d>>, i)
    BY <2>2
  <2>4. QED BY <2>2, <2>3 DEF Walks
<1>4. \A S \in SUBSET Walks : UNION {Onward(way) : way \in S} \in SUBSET Walks
  BY OnwardWalks
<1>5. IsStep(SUBSET Walks, F)
  BY <1>4 DEF IsStep
<1> HIDE DEF First
<1>6. PICK g : IsIterate(SUBSET Walks, First, F, g)
  <2> HIDE DEF F
  <2>1. QED BY <1>3, <1>5, Iterates
<1>7. /\ g \in [Nat -> SUBSET Walks] /\ g[0] = First
      /\ \A n \in Nat : g[n + 1] = UNION {Onward(way) : way \in g[n]}
  <2>1. g \in [Nat -> SUBSET Walks] /\ g[0] = First /\ \A n \in Nat : g[n + 1] = F[n][g[n]]
    BY <1>6 DEF IsIterate
  <2>2. ASSUME NEW n \in Nat PROVE F[n][g[n]] = UNION {Onward(way) : way \in g[n]}
    BY <2>1
  <2>3. QED BY <2>1, <2>2
<1> DEFINE h == [n \in 1 .. N |-> g[n - 1]]
<1>8. Solves(h)
  <2>1. ASSUME NEW n \in 1 .. N
        PROVE  h[n] = IF n = 1 THEN First ELSE UNION {Onward(way) : way \in h[n - 1]}
    <3>1. CASE n = 1
      BY <1>7, <3>1
    <3>2. CASE n # 1
      <4>1. n - 1 \in 1 .. N /\ n - 2 \in Nat /\ (n - 2) + 1 = n - 1 /\ (n - 1) - 1 = n - 2
        BY <1>2, <3>2
      <4>2. h[n] = g[n - 1] /\ h[n - 1] = g[n - 2]
        BY <4>1
      <4>3. g[n - 1] = UNION {Onward(way) : way \in g[n - 2]}
        BY <1>7, <4>1
      <4> HIDE DEF h
      <4>4. QED BY <3>2, <4>2, <4>3
    <3>3. QED BY <3>1, <3>2
  <2>2. h = [n \in 1 .. N |-> h[n]]
    OBVIOUS
  <2>3. h = [n \in 1 .. N |-> IF n = 1 THEN First ELSE UNION {Onward(way) : way \in h[n - 1]}]
    <3> HIDE DEF h
    <3>1. QED BY <2>1, <2>2
  <2>4. QED BY <2>3
<1> HIDE DEF h
<1>9. Solves(long)
  <2>1. long = CHOOSE x : Solves(x)
    BY DEF long
  <2> HIDE DEF Solves, long
  <2>2. QED BY <1>8, <2>1
<1> HIDE DEF long
<1>10. /\ DOMAIN long = 1 .. N
       /\ \A n \in 1 .. N : long[n] = IF n = 1 THEN First ELSE UNION {Onward(way) : way \in long[n - 1]}
  BY <1>9
<1> DEFINE R == {n \in Nat : n + 1 \in 1 .. N => long[n + 1] \in SUBSET Walks}
<1>11. 0 \in R
  BY <1>3, <1>10
<1>12. ASSUME NEW n \in Nat, n \in R PROVE n + 1 \in R
  <2> SUFFICES ASSUME (n + 1) + 1 \in 1 .. N PROVE long[(n + 1) + 1] \in SUBSET Walks
    OBVIOUS
  <2>1. n + 1 \in 1 .. N /\ (n + 1) + 1 # 1 /\ ((n + 1) + 1) - 1 = n + 1
    BY <1>2
  <2>2. long[n + 1] \in SUBSET Walks
    BY <1>12, <2>1
  <2>3. long[(n + 1) + 1] = UNION {Onward(way) : way \in long[n + 1]}
    BY <1>10, <2>1
  <2>4. QED BY <1>4, <2>2, <2>3
<1>13. Nat \subseteq R
  <2> HIDE DEF R
  <2>1. QED BY <1>11, <1>12, NatInduct
<1>14. ASSUME NEW n \in 1 .. N PROVE long[n] \in SUBSET Walks
  <2>1. n - 1 \in Nat /\ (n - 1) + 1 = n
    BY <1>2
  <2>2. n - 1 \in R
    BY <1>13, <2>1
  <2>3. QED BY <2>1, <2>2
<1>15. QED BY <1>1, <1>10, <1>14

(* An observable that the end of a way adds is declared for the place, or  *)
(* its attribute counts.                                                   *)
LEMMA AddsCounts ==
    ASSUME NEW trie, NEW path, NEW d \in Attribute, Adds(trie, path, d) # {}
    PROVE  path \in DOMAIN trie \/ Counts(d)
<1> SUFFICES ASSUME path \notin DOMAIN trie PROVE Counts(d)
  OBVIOUS
<1>1. ObservableTypeID(trie, path, d) = IF TypeID(d) # None THEN {TypeID(d)} \cap Selected ELSE {}
  BY DEF ObservableTypeID
<1>2. CASE d.kind = "object"
  BY <1>1, <1>2 DEF Adds, Counts, DirectlyObservable
<1>3. CASE d.kind = "scalar"
  BY <1>1, <1>3 DEF Adds, Counts
<1>4. CASE d.kind = "dangling"
  BY <1>4 DEF Adds
<1>5. QED BY <1>2, <1>3, <1>4 DEF Attribute

(* Every object on the way to an attribute that counts may generate.       *)
LEMMA WayMayGenerate ==
    ASSUME NEW way \in Walks, Counts(way[Len(way)]), NEW n \in 1 .. Len(way) - 1
    PROVE  way[n].to \in MayGenerate
<1>1. way \in Seq(Attribute) /\ Len(way) \in Nat /\ \A i \in 1 .. Len(way) - 1 : Linked(way, i)
  BY DEF Walks
<1> DEFINE L == Len(way)
           S == {j \in Nat : j + 2 <= L => way[L - (j + 1)].to \in MayGenerate}
<1>2. 0 \in S
  <2> SUFFICES ASSUME 2 <= L PROVE way[L - 1].to \in MayGenerate
    OBVIOUS
  <2>1. Linked(way, L - 1) /\ (L - 1) + 1 = L
    BY <1>1
  <2>2. QED BY <2>1, LeastClosed DEF Linked, Closed
<1>3. ASSUME NEW j \in Nat, j \in S PROVE j + 1 \in S
  <2> SUFFICES ASSUME (j + 1) + 2 <= L PROVE way[L - ((j + 1) + 1)].to \in MayGenerate
    OBVIOUS
  <2> DEFINE i == L - ((j + 1) + 1)
  <2>1. i \in 1 .. L - 1 /\ i + 1 \in 1 .. L - 1 /\ i + 1 = L - (j + 1) /\ j + 2 <= L
    BY <1>1
  <2>2. way[i + 1].to \in MayGenerate
    BY <1>3, <2>1
  <2>3. Linked(way, i) /\ Linked(way, i + 1)
    BY <1>1, <2>1
  <2> HIDE DEF i
  <2>4. way[i].to \in MayGenerate
    BY <2>2, <2>3, LeastClosed DEF Linked, Closed
  <2>5. QED BY <2>4 DEF i
<1>4. Nat \subseteq S
  <2> HIDE DEF S
  <2>1. QED BY <1>2, <1>3, NatInduct
<1>5. (L - 1) - n \in Nat /\ L - (((L - 1) - n) + 1) = n /\ ((L - 1) - n) + 2 <= L
  BY <1>1
<1>6. (L - 1) - n \in S
  <2> HIDE DEF S
  <2>1. QED BY <1>4, <1>5
<1>7. QED BY <1>5, <1>6

(* No omission goes unmentioned: whenever a value of the right type could  *)
(* have led to an observable, at the place or below, an object on the way  *)
(* there that is of the wrong type is asked about with success             *)
(* (enrichment.go:335-350), whatever hides what.                           *)
THEOREM OmissionsAreTold == Spec => []OmissionsTold
<1>1. TypeOK /\ CacheExact => OmissionsTold
  <2> SUFFICES ASSUME TypeOK, CacheExact, Compiled, NEW declared \in Declarations, NEW way \in Ways,
                      Adds(Trie(declared), Names(way), Last(way)) # {},
                      NEW n \in 1 .. Len(way), way[n].kind = "object"
               PROVE  AttributeMayGenerate(Trie(declared), SubSeq(Names(way), 1, n), way[n])
    BY DEF OmissionsTold
  <2> DEFINE trie == Trie(declared)
  <2>1. way \in Walks
    BY WaysWalk
  <2>2. way \in Seq(Attribute) /\ Len(way) \in Nat \ {0} /\ Last(way) = way[Len(way)]
    BY <2>1 DEF Walks, Last
  <2>3. Last(way) \in Attribute
    BY <2>2
  <2>4. Names(way) \in DOMAIN trie \/ Counts(Last(way))
    <3> HIDE DEF trie
    <3>1. Adds(trie, Names(way), Last(way)) # {}
      BY DEF trie
    <3>2. QED BY <2>3, <3>1, AddsCounts
  <2>5. CASE Names(way) \in DOMAIN trie
    <3>1. Names(way) \in Seq(STRING) /\ Len(Names(way)) = Len(way)
      <4>1. \A i \in DOMAIN way : way[i].name \in STRING
        <5>1. \A i \in DOMAIN way : way[i] \in Attribute
          BY <2>2
        <5>2. \A d \in Attribute : d.name \in STRING
          BY DEF Attribute
        <5>3. QED BY <5>1, <5>2
      <4>2. QED BY <2>2, <4>1 DEF Names
    <3> DEFINE names == Names(way)
               part == SubSeq(names, 1, n)
    <3>2. \A i \in 1 .. n : names[i] \in STRING
      BY <3>1
    <3>3. n \in Int /\ 1 \in Int /\ 1 <= n /\ n <= Len(names) /\ Len(names) = Len(way)
      BY <2>2, <3>1
    <3> HIDE DEF names
    <3>4. part \in Seq(STRING) /\ Len(part) = n /\ \A i \in 1 .. n : part[i] = names[i]
      <4>1. /\ part \in Seq(STRING)
            /\ Len(part) = IF 1 <= n THEN n - 1 + 1 ELSE 0
            /\ \A i \in 1 .. n - 1 + 1 : part[i] = names[1 + i - 1]
        BY <3>2, <3>3, SubSeqProperties
      <4> HIDE DEF part
      <4>2. QED BY <3>3, <4>1
    <3>5. SubSeq(part, 1, Len(part)) = part
      <4> HIDE DEF part
      <4>1. QED BY <3>3, <3>4
    <3>6. IsPrefix(part, names)
      <4>1. Len(part) <= Len(names) /\ SubSeq(names, 1, Len(part)) = part
        BY <3>3, <3>4
      <4> HIDE DEF part
      <4>2. QED BY <3>5, <4>1 DEF IsPrefix
    <3>7. HasDeclarationAtOrBelow(trie, part)
      BY <2>5, <3>6 DEF HasDeclarationAtOrBelow, names
    <3>8. QED BY <3>7 DEF AttributeMayGenerate, names
  <2>6. CASE Counts(Last(way))
    <3>1. CASE n = Len(way)
      BY <2>2, <2>6, <3>1 DEF AttributeMayGenerate, Counts
    <3>2. CASE n # Len(way)
      <4>1. n \in 1 .. Len(way) - 1
        BY <2>2, <3>2
      <4>2. way[n].to \in MayGenerate
        BY <2>1, <2>2, <2>6, <4>1, WayMayGenerate
      <4>3. QED BY <4>2 DEF AttributeMayGenerate, CacheExact
    <3>3. QED BY <3>1, <3>2
  <2>7. QED BY <2>4, <2>5, <2>6
<1>2. QED BY <1>1, DiscoveryTypeCorrect, CacheIsExact, PTL
=============================================================================
