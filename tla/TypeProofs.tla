----------------------------- MODULE TypeProofs -----------------------------
(***************************************************************************)
(* Theorems about TypeInheritance, for dictionaries of any size and shape, *)
(* any number of callers and any order of the types.                       *)
(***************************************************************************)
EXTENDS TypeInheritance, SequenceTheorems, FiniteSetTheorems, Iteration

(* A set of types that lead only to each other.                            *)
Closed(C) ==
    C \subseteq DOMAIN types /\ \A t \in C : ~Terminal(types, t) /\ types[t].base \in C

(* What validateTypeInheritance keeps: its path is a chain that leads to   *)
(* current, what it has visited is on no cycle, what it has not visited is *)
(* still to come.                                                          *)
CheckInv ==
    /\ \A t \in Type : mark[t] = "visiting" => t \in Entered(path)
    /\ \A i \in 1 .. Len(path) :
         /\ path[i] \in DOMAIN types /\ ~Terminal(types, path[i])
         /\ types[path[i]].base = IF i = Len(path) THEN current ELSE path[i + 1]
    /\ current = NoType => path = <<>>
    /\ \A C \in SUBSET Type : Closed(C) =>
         /\ \A t \in C : mark[t] # "visited"
         /\ C \cap Entered(path) # {} => current \in C
    /\ \A t \in DOMAIN types \ todo :
         t \in Primitive \/ mark[t] = "visited" \/ t = current \/ t \in Entered(path)

LoadInv ==
    /\ phase # "open" => once = "new" /\ inside = {}
    /\ phase = "check" => CheckInv
    /\ LoadingDecides

(* What typeResolver.resolve keeps: the path is a chain that leads to      *)
(* current, or whose last type builds upon inherited; every resolved type  *)
(* is what it has to be and on no cycle, and what it builds upon is        *)
(* resolved before it.                                                     *)
Founded(t) ==
    ~Terminal(types, t) /\ types[t].base \in DOMAIN types => types[t].base \in DOMAIN resolved

ResolvedRight(t) ==
    /\ Founded(t)
    /\ resolved[t] = Extend(types, t, Inherits(types, resolved, t))
    /\ ~Uncompilable(types, t, resolved[t].primitive)
    /\ Leads(types, t, resolved[t].primitive)

ResolveInv ==
    /\ visiting \subseteq Entered(path)
    /\ \A i \in 1 .. Len(path) :
         /\ path[i] \in DOMAIN types
         /\ i < Len(path) => ~Terminal(types, path[i]) /\ types[path[i]].base = path[i + 1]
    /\ path # <<>> /\ current # NoType =>
         ~Terminal(types, path[Len(path)]) /\ types[path[Len(path)]].base = current
    /\ path # <<>> /\ current = NoType =>
         /\ Founded(path[Len(path)])
         /\ inherited = Inherits(types, resolved, path[Len(path)])
         /\ Leads(types, path[Len(path)], inherited.primitive)
    /\ \A t \in DOMAIN resolved : ResolvedRight(t)
    /\ \A C \in SUBSET Type : Closed(C) => C \cap DOMAIN resolved = {}
    /\ \A t \in DOMAIN types \ todo : t \in DOMAIN resolved \/ t = current \/ t \in Entered(path)

BuildInv ==
    /\ once = "new" => visiting = {} /\ DOMAIN resolved = {}
    /\ once = "new" /\ phase = "open" => current = NoType /\ path = <<>>
    /\ once = "running" => phase = "open" /\ ResolveInv
    /\ once = "done" => phase = "open" /\ Table!Right(outcome)

CallInv ==
    /\ once # "done" => outcome = Undecided
    /\ \A c \in inside : answer[c] = Undecided

IInv == TypeOK /\ LoadInv /\ BuildInv /\ CallInv

-----------------------------------------------------------------------------
(* The path, as a set and at its end.                                      *)
LEMMA PathFacts ==
    ASSUME NEW way \in Seq(Type)
    PROVE  /\ Entered(way) \subseteq Type
           /\ \A t \in Type : /\ Append(way, t) \in Seq(Type)
                              /\ Entered(Append(way, t)) = Entered(way) \cup {t}
           /\ way # <<>> => /\ Len(way) \in Nat \ {0} /\ way[Len(way)] \in Entered(way)
                            /\ SubSeq(way, 1, Len(way) - 1) \in Seq(Type)
                            /\ Len(SubSeq(way, 1, Len(way) - 1)) = Len(way) - 1
                            /\ \A i \in 1 .. Len(way) - 1 : SubSeq(way, 1, Len(way) - 1)[i] = way[i]
                            /\ Entered(way) = Entered(SubSeq(way, 1, Len(way) - 1)) \cup {way[Len(way)]}
<1>1. Entered(way) \subseteq Type
  BY DEF Entered
<1>2. ASSUME NEW t \in Type
      PROVE  Append(way, t) \in Seq(Type) /\ Entered(Append(way, t)) = Entered(way) \cup {t}
  <2>1. /\ Append(way, t) \in Seq(Type)
        /\ DOMAIN Append(way, t) = 1 .. Len(way) + 1
        /\ \A i \in 1 .. Len(way) : Append(way, t)[i] = way[i]
        /\ Append(way, t)[Len(way) + 1] = t
    OBVIOUS
  <2>2. Len(way) \in Nat /\ DOMAIN way = 1 .. Len(way)
    OBVIOUS
  <2>3. Entered(Append(way, t)) \subseteq Entered(way) \cup {t}
    BY <2>1, <2>2 DEF Entered
  <2>4. Entered(way) \cup {t} \subseteq Entered(Append(way, t))
    BY <2>1, <2>2 DEF Entered
  <2>5. QED BY <2>1, <2>3, <2>4
<1>3. ASSUME way # <<>>
      PROVE  /\ Len(way) \in Nat \ {0} /\ way[Len(way)] \in Entered(way)
             /\ SubSeq(way, 1, Len(way) - 1) \in Seq(Type)
             /\ Len(SubSeq(way, 1, Len(way) - 1)) = Len(way) - 1
             /\ \A i \in 1 .. Len(way) - 1 : SubSeq(way, 1, Len(way) - 1)[i] = way[i]
             /\ Entered(way) = Entered(SubSeq(way, 1, Len(way) - 1)) \cup {way[Len(way)]}
  <2> DEFINE front == SubSeq(way, 1, Len(way) - 1)
  <2>1. Len(way) \in Nat \ {0} /\ DOMAIN way = 1 .. Len(way)
    BY <1>3
  <2>2. front \in Seq(Type) /\ DOMAIN front = 1 .. Len(way) - 1
    BY <2>1
  <2>3. \A i \in 1 .. Len(way) - 1 : front[i] = way[i]
    BY <2>1
  <2>4. ASSUME NEW i \in DOMAIN way
        PROVE  way[i] \in Entered(front) \cup {way[Len(way)]}
    <3>1. CASE i = Len(way)
      BY <3>1
    <3>2. CASE i # Len(way)
      <4>1. i \in 1 .. Len(way) - 1
        BY <2>1, <3>2
      <4>2. front[i] = way[i] /\ i \in DOMAIN front
        BY <2>2, <2>3, <4>1
      <4>3. front[i] \in Entered(front)
        BY <4>2 DEF Entered
      <4>4. QED BY <4>2, <4>3
    <3>3. QED BY <3>1, <3>2
  <2>5. Entered(way) \subseteq Entered(front) \cup {way[Len(way)]}
    BY <2>4 DEF Entered
  <2>6. way[Len(way)] \in Entered(way)
    BY <2>1 DEF Entered
  <2>7. ASSUME NEW i \in DOMAIN front
        PROVE  front[i] \in Entered(way)
    <3>1. i \in DOMAIN way /\ front[i] = way[i]
      BY <2>1, <2>2, <2>3
    <3>2. QED BY <3>1 DEF Entered
  <2>8. Entered(front) \subseteq Entered(way)
    BY <2>7 DEF Entered
  <2>9. Len(front) = Len(way) - 1
    BY <2>1
  <2>10. QED BY <2>1, <2>2, <2>3, <2>5, <2>6, <2>8, <2>9
<1>4. QED BY <1>1, <1>2, <1>3

(* Entries and types stay in their sets.                                   *)
LEMMA EntryFacts ==
    ASSUME DOMAIN types \subseteq Type, types \in [DOMAIN types -> Definition]
    PROVE  /\ \A t \in Type : Bare(t) \in Entry
           /\ \A t \in DOMAIN types, e \in Entry : Extend(types, t, e) \in Entry
           /\ \A t \in Type : ~Terminal(types, t) => t \in DOMAIN types /\ types[t].base \in Type
BY DEF Bare, Entry, Extend, Terminal, Definition

(* One step up the chain leads to the same end.                            *)
LEMMA LeadsUp ==
    ASSUME NEW t \in DOMAIN types, NEW p, ~Terminal(types, t), Leads(types, types[t].base, p)
    PROVE  Leads(types, t, p)
BY DEF Leads

(* A type that inherits nothing is its own end.                            *)
LEMMA LeadsToItself ==
    ASSUME NEW t \in Type, Terminal(types, t)
    PROVE  Leads(types, t, t)
BY DEF Leads

(* The types of a path, in the order in which they were passed.            *)
LEMMA SegmentFacts ==
    ASSUME NEW n \in Nat, NEW i \in 1 .. n
    PROVE  i \in i .. n /\ \A j \in i .. n : j \in 1 .. n /\ (j # n => j + 1 \in i .. n)
OBVIOUS

(* TypeTable speaks of the same cycles and tables.                         *)
LEMMA SameWords ==
    ASSUME NEW d
    PROVE  /\ Table!Cyclic(d) <=> Cyclic(d)
           /\ \A t \in Type, p \in Type : Leads(d, t, p) => Table!Leads(d, t, p)
           /\ \A t \in Type, p \in Type : Uncompilable(d, t, p) => Table!Uncompilable(d, t, p)
           /\ \A table : IsTable(d, table) <=> Table!IsTable(d, table)
<1>1. \A t : Table!Terminal(d, t) <=> Terminal(d, t)
  BY DEF Table!Terminal, Terminal
<1>2. Table!Cyclic(d) <=> Cyclic(d)
  BY <1>1 DEF Table!Cyclic, Cyclic
<1>3. \A t, p : Leads(d, t, p) => Table!Leads(d, t, p)
  BY <1>1 DEF Table!Leads, Leads
<1>4. \A t, p : Table!Uncompilable(d, t, p) <=> Uncompilable(d, t, p)
  BY DEF Table!Uncompilable, Uncompilable
<1>5. \A t : Table!Bare(t) = Bare(t)
  BY DEF Table!Bare, Bare
<1>6. \A t, e : Table!Extend(d, t, e) = Extend(d, t, e)
  BY DEF Table!Extend, Extend
<1>7. \A table, t : Table!Inherits(d, table, t) = Inherits(d, table, t)
  BY <1>1, <1>5 DEF Table!Inherits, Inherits
<1>8. \A table : IsTable(d, table) <=> Table!IsTable(d, table)
  BY <1>4, <1>6, <1>7 DEF Table!IsTable, IsTable
<1>9. QED BY <1>2, <1>3, <1>4, <1>8

(* A chain that comes back to one of its types is a cycle.                 *)
LEMMA ChainCloses ==
    ASSUME path \in Seq(Type), current \in Entered(path),
           \A i \in 1 .. Len(path) :
             /\ path[i] \in DOMAIN types /\ ~Terminal(types, path[i])
             /\ types[path[i]].base = IF i = Len(path) THEN current ELSE path[i + 1]
    PROVE  Cyclic(types)
<1>2. Len(path) \in Nat /\ DOMAIN path = 1 .. Len(path)
  OBVIOUS
<1>1. PICK i \in 1 .. Len(path) : path[i] = current
  BY <1>2 DEF Entered
<1> DEFINE C == {path[j] : j \in i .. Len(path)}
<1>a. i \in 1 .. Len(path) /\ i \in i .. Len(path)
  BY <1>1, <1>2, SegmentFacts
<1>b. \A j \in i .. Len(path) : j \in 1 .. Len(path)
  BY <1>1, <1>2, SegmentFacts
<1>3. C \in SUBSET DOMAIN types
  BY <1>b
<1>4. path[i] \in C
  BY <1>a
<1>5. ASSUME NEW j \in i .. Len(path)
      PROVE  ~Terminal(types, path[j]) /\ types[path[j]].base \in C
  <2>1. j \in 1 .. Len(path)
    BY <1>b
  <2>2. CASE j = Len(path)
    BY <1>1, <1>4, <2>1, <2>2
  <2>3. CASE j # Len(path)
    <3>1. j + 1 \in i .. Len(path)
      BY <1>1, <1>2, <2>3, SegmentFacts
    <3>2. types[path[j]].base = path[j + 1]
      BY <2>1, <2>3
    <3>3. QED BY <2>1, <3>1, <3>2
  <2>4. QED BY <2>2, <2>3
<1>6. \A t \in C : ~Terminal(types, t) /\ types[t].base \in C
  BY <1>5
<1>7. QED BY <1>3, <1>4, <1>6 DEF Cyclic

(* A cyclic dictionary has a closed set, and no other.                     *)
LEMMA CyclicClosed ==
    ASSUME DOMAIN types \subseteq Type
    PROVE  Cyclic(types) <=> \E C \in SUBSET Type : Closed(C) /\ C # {}
BY DEF Cyclic, Closed

-----------------------------------------------------------------------------
(* Types.                                                                  *)
LEMMA TypesKept ==
    ASSUME TypeOK, BuildInv, CallInv, [Next]_vars
    PROVE  TypeOK'
<1> USE TypeAssumption
<1>a. DOMAIN types \subseteq Type /\ types \in [DOMAIN types -> Definition]
  BY DEF TypeOK
<1>b. \A t \in Type : ~Terminal(types, t) => types[t].base \in Type
  BY <1>a, EntryFacts
<1>c. path \in Seq(Type) /\ \A t \in Type : Append(path, t) \in Seq(Type)
  BY PathFacts DEF TypeOK
<1>d. <<>> \in Seq(Type)
  OBVIOUS
<1>e. once # "done" => outcome = Undecided /\ answer = [c \in Caller |-> Undecided]
  BY DEF TypeOK, CallInv
<1>1. ASSUME NEW t \in Type, CheckFrom(t) PROVE TypeOK'
  BY <1>1 DEF TypeOK, CheckFrom, checking, building, calling
<1>2. ASSUME CheckClimb PROVE TypeOK'
  <2>1. UNCHANGED <<types, phase, checked, todo, building, once, calling>>
    BY <1>2 DEF CheckClimb
  <2>2. mark' \in [Type -> {"unvisited", "visiting", "visited"}]
    BY <1>2 DEF TypeOK, CheckClimb, Visited
  <2>3. current' \in Type \cup {NoType} /\ path' \in Seq(Type)
    BY <1>2, <1>b, <1>c, <1>d DEF CheckClimb, Visited
  <2>4. QED BY <2>1, <2>2, <2>3 DEF TypeOK, building, calling
<1>3. ASSUME CheckMeets PROVE TypeOK'
  BY <1>3, <1>d DEF TypeOK, CheckMeets, Visited, building, calling
<1>4. ASSUME CheckFails PROVE TypeOK'
  BY <1>4 DEF TypeOK, CheckFails, building, calling
<1>5. ASSUME Load PROVE TypeOK'
  BY <1>5 DEF TypeOK, Load, building, calling
<1>6. ASSUME NEW c \in Caller, Get(c) PROVE TypeOK'
  BY <1>6 DEF TypeOK, Get, checking, building
<1>7. ASSUME Begin PROVE TypeOK'
  BY <1>7 DEF TypeOK, Begin, checking, building, calling
<1>8. ASSUME NEW c \in Caller, Return(c) PROVE TypeOK'
  BY <1>8 DEF TypeOK, Return, checking, building
<1>9. ASSUME NEW t \in Type, ResolveFrom(t) PROVE TypeOK'
  BY <1>9 DEF TypeOK, ResolveFrom, Idle, checking, building, calling
<1>10. ASSUME Climb PROVE TypeOK'
  <2>1. current \in Type /\ current \in DOMAIN types /\ Bare(current) \in Entry
    BY <1>10, <1>a, EntryFacts DEF Climb
  <2>2. inherited' \in Entry /\ current' \in Type \cup {NoType}
    BY <1>10, <1>b, <2>1 DEF TypeOK, Climb, Turn
  <2>3. visiting' \subseteq DOMAIN types /\ path' \in Seq(Type)
    BY <1>10, <1>c, <2>1 DEF TypeOK, Climb
  <2>4. QED BY <1>10, <2>2, <2>3 DEF TypeOK, Climb, checking, calling
<1>11. ASSUME MeetResolved PROVE TypeOK'
  BY <1>11 DEF TypeOK, MeetResolved, Turn, checking, calling
<1>12. ASSUME MeetUndefined PROVE TypeOK'
  <2>1. Bare(current) \in Entry
    BY <1>12, <1>a, EntryFacts DEF MeetUndefined
  <2>2. QED BY <1>12, <2>1 DEF TypeOK, MeetUndefined, Turn, checking, calling
<1>13. ASSUME MeetCycle PROVE TypeOK'
  BY <1>13, <1>e DEF TypeOK, MeetCycle, Conclude, Failure, checking, calling
<1>14. ASSUME Unwind PROVE TypeOK'
  <2> DEFINE t == path[Len(path)]
             entry == Extend(types, t, inherited)
  <2>1. path # <<>> /\ once = "running"
    BY <1>14 DEF Unwind
  <2>2. t \in DOMAIN types
    <3>1. Len(path) \in 1 .. Len(path)
      BY <2>1, <1>c, PathFacts
    <3>2. ResolveInv
      BY <2>1 DEF BuildInv
    <3>3. QED BY <3>1, <3>2 DEF ResolveInv
  <2>3. entry \in Entry
    BY <1>a, <2>2, EntryFacts DEF TypeOK
  <2>4. SubSeq(path, 1, Len(path) - 1) \in Seq(Type)
    BY <1>c, <2>1, PathFacts
  <2>5. CASE Uncompilable(types, t, inherited.primitive)
    BY <1>14, <1>e, <2>1, <2>5 DEF TypeOK, Unwind, Conclude, Failure, checking, calling
  <2>6. CASE ~Uncompilable(types, t, inherited.primitive)
    <3> HIDE DEF t, entry
    <3>1. /\ resolved' = [u \in DOMAIN resolved \cup {t} |-> IF u = t THEN entry ELSE resolved[u]]
          /\ visiting' = visiting \ {t}
          /\ inherited' = entry
          /\ path' = SubSeq(path, 1, Len(path) - 1)
          /\ UNCHANGED <<once, outcome>>
          /\ UNCHANGED <<types, checking, todo, current, calling>>
      BY <1>14, <2>6 DEF Unwind, t, entry
    <3>2. DOMAIN resolved' \subseteq DOMAIN types /\ resolved' \in [DOMAIN resolved' -> Entry]
      BY <2>2, <2>3, <3>1 DEF TypeOK
    <3>3. QED BY <2>3, <2>4, <3>1, <3>2 DEF TypeOK, checking, calling
  <2>7. QED BY <2>5, <2>6
<1>15. ASSUME Built PROVE TypeOK'
  <2>1. outcome'.verdict = "table" /\ once' = "done"
    BY <1>15 DEF Built, Conclude
  <2>2. answer' \in [Caller -> {Undecided, outcome'}]
    BY <1>15, <1>e DEF Built, Idle, calling
  <2>3. QED BY <1>15, <2>1, <2>2 DEF TypeOK, Built, Conclude, checking, calling
<1>16. ASSUME UNCHANGED vars PROVE TypeOK'
  BY <1>16 DEF TypeOK, vars
<1>17. QED
  BY <1>1, <1>2, <1>3, <1>4, <1>5, <1>6, <1>7, <1>8, <1>9, <1>10, <1>11, <1>12, <1>13, <1>14,
     <1>15, <1>16 DEF Next, Check, Resolve

-----------------------------------------------------------------------------
(* Loading.                                                                *)
LEMMA CheckStarts ==
    ASSUME TypeOK, LoadInv, NEW t \in Type, CheckFrom(t)
    PROVE  LoadInv'
<1>1. CheckInv /\ phase = "check" /\ current = NoType /\ path = <<>>
  BY DEF LoadInv, CheckInv, CheckFrom
<1>2. t \in DOMAIN types
  BY DEF CheckFrom, TypeOK
<1>3. /\ UNCHANGED <<types, path, phase, checked, mark, once, inside>>
      /\ todo' = todo \ {t}
      /\ current' = IF mark[t] = "visited" THEN NoType ELSE t
  BY DEF CheckFrom, checking, calling
<1>4. \A C \in SUBSET Type : Closed(C)' => Closed(C)
  BY <1>3 DEF Closed
<1>5. CheckInv'
  <2>1. \A u \in Type : mark'[u] = "visiting" => u \in Entered(path')
    BY <1>1, <1>3 DEF CheckInv
  <2>2. Len(path') = 0
    BY <1>1, <1>3
  <2>3. \A C \in SUBSET Type : Closed(C)' =>
          /\ \A u \in C : mark'[u] # "visited"
          /\ C \cap Entered(path') # {} => current' \in C
    BY <1>1, <1>3, <1>4 DEF CheckInv, Entered
  <2>4. \A u \in DOMAIN types' \ todo' :
          u \in Primitive \/ mark'[u] = "visited" \/ u = current' \/ u \in Entered(path')
    BY <1>1, <1>3, TypeAssumption DEF CheckInv, TypeOK
  <2>5. QED BY <1>1, <1>3, <2>1, <2>2, <2>3, <2>4 DEF CheckInv
<1>6. QED BY <1>1, <1>3, <1>5 DEF LoadInv, LoadingDecides

(* The check goes one base up, or has arrived.                             *)
LEMMA CheckClimbs ==
    ASSUME TypeOK, LoadInv, CheckClimb
    PROVE  LoadInv'
<1> USE TypeAssumption
<1>1. CheckInv /\ phase = "check" /\ current \in Type \ Primitive /\ mark[current] = "unvisited"
  BY DEF LoadInv, CheckClimb
<1> DEFINE way == Append(path, current)
<1>2. UNCHANGED <<types, phase, checked, todo, once, inside>>
  BY DEF CheckClimb, building, calling
<1>3. path \in Seq(Type) /\ Entered(way) = Entered(path) \cup {current}
  BY <1>1, PathFacts DEF TypeOK
<1>4. \A C \in SUBSET Type : Closed(C)' => Closed(C)
  BY <1>2 DEF Closed
<1>5. \A u \in DOMAIN types \ todo : u \in Primitive \/ mark[u] = "visited" \/ u \in Entered(way)
  BY <1>1, <1>3 DEF CheckInv
<1>6. CASE Terminal(types, current)
  <2>1. /\ mark' = [t \in Type |-> IF t \in Entered(way) THEN "visited" ELSE mark[t]]
        /\ current' = NoType /\ path' = <<>>
    BY <1>6 DEF CheckClimb, Visited
  <2>2. ASSUME NEW C \in SUBSET Type, Closed(C) PROVE C \cap Entered(way) = {}
    <3>1. current \notin C
      BY <1>6, <2>2 DEF Closed
    <3>2. QED BY <1>1, <1>3, <2>2, <3>1 DEF CheckInv
  <2>3. Entered(path') = {} /\ Len(path') = 0
    BY <2>1 DEF Entered
  <2>4. \A u \in Type : mark'[u] = "visiting" => u \in Entered(path')
    BY <1>1, <1>3, <2>1 DEF CheckInv
  <2>5. \A C \in SUBSET Type : Closed(C)' =>
          /\ \A u \in C : mark'[u] # "visited"
          /\ C \cap Entered(path') # {} => current' \in C
    BY <1>1, <1>4, <2>1, <2>2, <2>3 DEF CheckInv
  <2>6. \A u \in DOMAIN types' \ todo' :
          u \in Primitive \/ mark'[u] = "visited" \/ u = current' \/ u \in Entered(path')
    <3> SUFFICES ASSUME NEW u \in DOMAIN types \ todo, u \notin Primitive
                 PROVE  mark'[u] = "visited"
      BY <1>2
    <3>1. u \in Type /\ (mark[u] = "visited" \/ u \in Entered(way))
      BY <1>5 DEF TypeOK
    <3> HIDE DEF way
    <3>2. QED BY <2>1, <3>1
  <2>7. CheckInv'
    BY <2>1, <2>3, <2>4, <2>5, <2>6 DEF CheckInv
  <2>8. QED BY <1>1, <1>2, <2>7 DEF LoadInv, LoadingDecides
<1>7. CASE ~Terminal(types, current)
  <2>1. mark' = [mark EXCEPT ![current] = "visiting"] /\ path' = way /\ current' = types[current].base
    BY <1>7 DEF CheckClimb
  <2>2. current \in DOMAIN types /\ types[current].base \in Type
    BY <1>1, <1>7, EntryFacts DEF TypeOK
  <2>3. Len(path) \in Nat /\ Len(path') = Len(path) + 1 /\ path'[Len(path) + 1] = current
        /\ \A i \in 1 .. Len(path) : path'[i] = path[i]
    BY <1>1, <1>3, <2>1
  <2>4. \A u \in Type : mark'[u] = "visiting" => u \in Entered(path')
    BY <1>1, <1>3, <2>1 DEF CheckInv, TypeOK
  <2>5. ASSUME NEW i \in 1 .. Len(path')
        PROVE  /\ path'[i] \in DOMAIN types' /\ ~Terminal(types', path'[i])
               /\ types'[path'[i]].base = IF i = Len(path') THEN current' ELSE path'[i + 1]
    <3>1. CASE i = Len(path) + 1
      BY <1>2, <1>7, <2>1, <2>2, <2>3, <3>1
    <3>2. CASE i = Len(path)
      BY <1>1, <1>2, <2>3, <2>5, <3>2 DEF CheckInv
    <3>3. CASE i \in 1 .. Len(path) /\ i # Len(path)
      <4>1. i + 1 \in 1 .. Len(path) /\ i # Len(path')
        BY <2>3, <3>3
      <4>2. path'[i] = path[i] /\ path'[i + 1] = path[i + 1]
        BY <2>3, <3>3, <4>1
      <4>3. QED BY <1>1, <1>2, <3>3, <4>1, <4>2 DEF CheckInv
    <3>4. QED BY <2>3, <3>1, <3>2, <3>3
  <2>6. ASSUME NEW C \in SUBSET Type, Closed(C)'
        PROVE  /\ \A u \in C : mark'[u] # "visited"
               /\ C \cap Entered(path') # {} => current' \in C
    <3>1. Closed(C)
      BY <1>4, <2>6
    <3>2. \A u \in C : mark'[u] # "visited"
      BY <1>1, <2>1, <3>1 DEF CheckInv, TypeOK
    <3>3. C \cap Entered(path') # {} => current \in C
      BY <1>1, <1>3, <2>1, <3>1 DEF CheckInv
    <3>4. QED BY <2>1, <3>1, <3>2, <3>3 DEF Closed
  <2>7. \A u \in DOMAIN types' \ todo' :
          u \in Primitive \/ mark'[u] = "visited" \/ u = current' \/ u \in Entered(path')
    BY <1>1, <1>2, <1>5, <2>1 DEF TypeOK
  <2>8. CheckInv'
    BY <2>1, <2>2, <2>4, <2>5, <2>6, <2>7 DEF CheckInv
  <2>9. QED BY <1>1, <1>2, <2>8 DEF LoadInv, LoadingDecides
<1>8. QED BY <1>6, <1>7

(* The check meets what it has visited before.                             *)
LEMMA CheckMeetsVisited ==
    ASSUME TypeOK, LoadInv, CheckMeets
    PROVE  LoadInv'
<1> USE TypeAssumption
<1>1. /\ CheckInv /\ phase = "check" /\ current \in Type
      /\ current \in Primitive \/ mark[current] = "visited"
  BY DEF LoadInv, CheckMeets
<1>2. /\ UNCHANGED <<types, phase, checked, todo, once, inside>>
      /\ mark' = [t \in Type |-> IF t \in Entered(path) THEN "visited" ELSE mark[t]]
      /\ current' = NoType /\ path' = <<>>
  BY DEF CheckMeets, Visited, building, calling
<1>3. \A C \in SUBSET Type : Closed(C)' => Closed(C)
  BY <1>2 DEF Closed
<1>4. ASSUME NEW C \in SUBSET Type, Closed(C) PROVE C \cap Entered(path) = {}
  <2>1. current \notin C
    BY <1>1, <1>4 DEF Closed, CheckInv, Terminal
  <2>2. QED BY <1>1, <1>4, <2>1 DEF CheckInv
<1>5. Entered(path') = {} /\ Len(path') = 0
  BY <1>2 DEF Entered
<1>6. \A u \in Type : mark'[u] = "visiting" => u \in Entered(path')
  BY <1>1, <1>2 DEF CheckInv
<1>7. \A C \in SUBSET Type : Closed(C)' =>
        /\ \A u \in C : mark'[u] # "visited"
        /\ C \cap Entered(path') # {} => current' \in C
  BY <1>1, <1>2, <1>3, <1>4, <1>5 DEF CheckInv
<1>8. \A u \in DOMAIN types' \ todo' :
        u \in Primitive \/ mark'[u] = "visited" \/ u = current' \/ u \in Entered(path')
  BY <1>1, <1>2 DEF TypeOK, CheckInv
<1>9. CheckInv'
  BY <1>2, <1>5, <1>6, <1>7, <1>8 DEF CheckInv
<1>10. QED BY <1>1, <1>2, <1>9 DEF LoadInv, LoadingDecides

(* The check fails, or is through.                                         *)
LEMMA CheckEnds ==
    ASSUME TypeOK, LoadInv, CheckFails \/ Load
    PROVE  LoadInv'
<1>1. CheckInv /\ phase = "check" /\ once = "new" /\ inside = {}
  BY DEF LoadInv, CheckFails, Load
<1>2. CASE CheckFails
  <2>1. current \in Entered(path) /\ path \in Seq(Type)
    BY <1>1, <1>2 DEF CheckFails, CheckInv, TypeOK
  <2>2. Cyclic(types)
    BY <1>1, <2>1, ChainCloses DEF CheckInv
  <2>3. /\ phase' = "rejected" /\ checked' = checked /\ types' = types
        /\ once' = once /\ inside' = inside
    BY <1>2 DEF CheckFails, building, calling
  <2>4. QED BY <1>1, <2>2, <2>3 DEF LoadInv, LoadingDecides
<1>3. CASE Load
  <2>1. current = NoType /\ todo = {} /\ path = <<>> /\ Entered(path) = {}
    BY <1>1, <1>3 DEF Load, CheckInv, Entered
  <2>2. ASSUME NEW C \in SUBSET Type, Closed(C), C # {} PROVE FALSE
    <3>1. PICK t \in C : t \in DOMAIN types /\ t \notin Primitive
      BY <2>2 DEF Closed, Terminal
    <3>2. mark[t] = "visited"
      BY <1>1, <2>1, <3>1, TypeAssumption DEF CheckInv
    <3>3. QED BY <1>1, <2>2, <3>1, <3>2 DEF CheckInv
  <2>3. ~Cyclic(types)
    BY <2>2, CyclicClosed DEF TypeOK
  <2>4. phase' = "open" /\ types' = types
    BY <1>3 DEF Load
  <2>5. QED BY <2>3, <2>4 DEF LoadInv, LoadingDecides
<1>4. QED BY <1>2, <1>3

-----------------------------------------------------------------------------
(* Resolving.                                                              *)
LEMMA ResolveStarts ==
    ASSUME TypeOK, ResolveInv, NEW t \in Type, ResolveFrom(t)
    PROVE  ResolveInv'
<1> USE TypeAssumption
<1>1. /\ UNCHANGED <<types, path, visiting, resolved, inherited>>
      /\ path = <<>> /\ current = NoType
      /\ todo' = todo \ {t} /\ current' = IF t \in DOMAIN resolved THEN NoType ELSE t
  BY DEF ResolveFrom, Idle, building
<1>2. \A C \in SUBSET Type : Closed(C)' => Closed(C)
  BY <1>1 DEF Closed
<1>3. \A u \in DOMAIN resolved' : ResolvedRight(u)'
  BY <1>1 DEF ResolveInv, ResolvedRight, Founded
<1>4. \A C \in SUBSET Type : Closed(C)' => C \cap DOMAIN resolved' = {}
  BY <1>1, <1>2 DEF ResolveInv
<1>5. \A u \in DOMAIN types' \ todo' :
        u \in DOMAIN resolved' \/ u = current' \/ u \in Entered(path')
  BY <1>1 DEF ResolveInv, TypeOK
<1>6. visiting' \subseteq Entered(path')
  BY <1>1 DEF ResolveInv
<1>7. Len(path') = 0 /\ path' = <<>>
  BY <1>1
<1>8. QED BY <1>3, <1>4, <1>5, <1>6, <1>7 DEF ResolveInv

(* The builder goes one base up.                                           *)
LEMMA ClimbsOn ==
    ASSUME TypeOK, ResolveInv, Climb
    PROVE  ResolveInv'
<1> USE TypeAssumption
<1> DEFINE way == Append(path, current)
<1>1. /\ UNCHANGED <<types, todo, resolved>> /\ path' = way
      /\ visiting' = visiting \cup {current}
      /\ current \in DOMAIN types /\ current \in Type
  BY DEF Climb, TypeOK
<1>2. path \in Seq(Type) /\ Entered(path') = Entered(path) \cup {current}
  BY <1>1, PathFacts DEF TypeOK
<1>3. /\ Len(path) \in Nat /\ Len(path') = Len(path) + 1 /\ path'[Len(path) + 1] = current
      /\ path' # <<>>
      /\ \A i \in 1 .. Len(path) : path'[i] = path[i]
  BY <1>1, <1>2
<1>4. current' # NoType =>
        ~Terminal(types, current) /\ current' = types[current].base /\ current' \in Type
  BY <1>1, EntryFacts DEF Climb, Turn, TypeOK
<1>5. current' = NoType => Terminal(types, current) /\ inherited' = Bare(current)
  BY <1>1, EntryFacts DEF Climb, Turn, TypeOK
<1>6. \A C \in SUBSET Type : Closed(C)' => C \cap DOMAIN resolved' = {}
  BY <1>1 DEF ResolveInv, Closed
<1>7. \A u \in DOMAIN resolved' : ResolvedRight(u)'
  BY <1>1 DEF ResolveInv, ResolvedRight, Founded
<1>8. ASSUME NEW i \in 1 .. Len(path')
      PROVE  /\ path'[i] \in DOMAIN types'
             /\ i < Len(path') => ~Terminal(types', path'[i]) /\ types'[path'[i]].base = path'[i + 1]
  <2>1. CASE i = Len(path) + 1
    BY <1>1, <1>3, <2>1
  <2>2. CASE i = Len(path)
    <3>1. path[i] \in DOMAIN types /\ ~Terminal(types, path[i]) /\ types[path[i]].base = current
      <4>1. path # <<>> /\ current # NoType /\ i \in 1 .. Len(path)
        BY <1>1, <1>2, <1>3, <2>2
      <4>2. QED BY <2>2, <4>1 DEF ResolveInv
    <3>2. path'[i] = path[i] /\ path'[i + 1] = current
      BY <1>3, <2>2
    <3>3. QED BY <1>1, <3>1, <3>2
  <2>3. CASE i \in 1 .. Len(path) /\ i # Len(path)
    <3>1. i + 1 \in 1 .. Len(path) /\ i < Len(path)
      BY <1>3, <2>3
    <3>2. path'[i] = path[i] /\ path'[i + 1] = path[i + 1]
      BY <1>3, <2>3, <3>1
    <3>3. QED BY <1>1, <2>3, <3>1, <3>2 DEF ResolveInv
  <2>4. QED BY <1>3, <2>1, <2>2, <2>3
<1>9. path'[Len(path')] = current
  BY <1>3
<1>10. path' # <<>> /\ current' # NoType =>
         ~Terminal(types', path'[Len(path')]) /\ types'[path'[Len(path')]].base = current'
  BY <1>1, <1>4, <1>9
<1>11. path' # <<>> /\ current' = NoType =>
         /\ Founded(path[Len(path)])'
         /\ inherited' = Inherits(types', resolved', path'[Len(path')])
         /\ Leads(types', path'[Len(path')], inherited'.primitive)
  <2>1. SUFFICES ASSUME current' = NoType
                 PROVE  /\ Founded(path[Len(path)])'
                        /\ inherited' = Inherits(types, resolved, current)
                        /\ Leads(types, current, inherited'.primitive)
    BY <1>1, <1>9
  <2>2. Terminal(types, current) /\ inherited' = Bare(current)
    BY <1>5, <2>1
  <2>3. Leads(types, current, current)
    BY <1>1, <2>2, LeadsToItself
  <2>4. Founded(path[Len(path)])'
    BY <1>1, <1>9, <2>2 DEF Founded
  <2>5. inherited' = Inherits(types, resolved, current)
    BY <2>2 DEF Inherits
  <2>6. inherited'.primitive = current
    BY <2>2 DEF Bare
  <2>7. QED BY <2>3, <2>4, <2>5, <2>6
<1>12. visiting' \subseteq Entered(path')
  BY <1>1, <1>2 DEF ResolveInv
<1>13. \A u \in DOMAIN types' \ todo' :
         u \in DOMAIN resolved' \/ u = current' \/ u \in Entered(path')
  BY <1>1, <1>2 DEF ResolveInv
<1>14. QED BY <1>6, <1>7, <1>8, <1>10, <1>11, <1>12, <1>13 DEF ResolveInv

(* The builder has arrived at something it can build upon.                 *)
LEMMA ClimbTurns ==
    ASSUME TypeOK, ResolveInv, MeetResolved \/ MeetUndefined
    PROVE  ResolveInv'
<1> USE TypeAssumption
<1>1. /\ UNCHANGED <<types, todo, path, visiting, resolved>>
      /\ current' = NoType /\ current \in Type
      /\ \/ current \in DOMAIN resolved /\ inherited' = resolved[current]
         \/ current \notin DOMAIN types /\ inherited' = Bare(current)
  BY DEF MeetResolved, MeetUndefined, Turn, TypeOK
<1>2. \A C \in SUBSET Type : Closed(C)' => C \cap DOMAIN resolved' = {}
  BY <1>1 DEF ResolveInv, Closed
<1>3. \A u \in DOMAIN resolved' : ResolvedRight(u)'
  BY <1>1 DEF ResolveInv, ResolvedRight, Founded
<1>4. ASSUME path # <<>>
      PROVE  /\ Founded(path[Len(path)])'
             /\ inherited' = Inherits(types', resolved', path[Len(path)])
             /\ Leads(types', path[Len(path)], inherited'.primitive)
  <2> DEFINE t == path[Len(path)]
  <2>1. t \in DOMAIN types /\ ~Terminal(types, t) /\ types[t].base = current
    <3>1. Len(path) \in 1 .. Len(path)
      BY <1>4, PathFacts DEF TypeOK
    <3>2. QED BY <1>1, <1>4, <3>1 DEF ResolveInv
  <2> HIDE DEF t
  <2>2. CASE current \in DOMAIN resolved /\ inherited' = resolved[current]
    <3>1. current \in DOMAIN types /\ Leads(types, current, resolved[current].primitive)
      BY <2>2 DEF TypeOK, ResolveInv, ResolvedRight
    <3>2. Leads(types, t, inherited'.primitive)
      BY <2>1, <2>2, <3>1, LeadsUp
    <3>3. QED BY <1>1, <2>1, <2>2, <3>1, <3>2 DEF Founded, Inherits, t
  <2>3. CASE current \notin DOMAIN types /\ inherited' = Bare(current)
    <3>1. Leads(types, current, current)
      BY <1>1, <2>3, LeadsToItself DEF Terminal
    <3>2. Leads(types, t, inherited'.primitive)
      BY <2>1, <2>3, <3>1, LeadsUp DEF Bare
    <3>3. QED BY <1>1, <2>1, <2>3, <3>2 DEF Founded, Inherits, t
  <2>4. QED BY <1>1, <2>2, <2>3
<1>5. \A u \in DOMAIN types' \ todo' :
        u \in DOMAIN resolved' \/ u = current' \/ u \in Entered(path')
  BY <1>1 DEF ResolveInv
<1>6. visiting' \subseteq Entered(path')
  BY <1>1 DEF ResolveInv
<1>7. \A i \in 1 .. Len(path') :
        /\ path'[i] \in DOMAIN types'
        /\ i < Len(path') => ~Terminal(types', path'[i]) /\ types'[path'[i]].base = path'[i + 1]
  BY <1>1 DEF ResolveInv
<1>8. QED BY <1>1, <1>2, <1>3, <1>4, <1>5, <1>6, <1>7 DEF ResolveInv

(* A type that is resolved on the way back.                                *)
LEMMA UnwindsRight ==
    ASSUME TypeOK, ResolveInv, Unwind,
           ~Uncompilable(types, path[Len(path)], inherited.primitive)
    PROVE  ResolveInv'
<1> DEFINE t == path[Len(path)]
           front == SubSeq(path, 1, Len(path) - 1)
           entry == Extend(types, t, inherited)
<1>1. path \in Seq(Type) /\ path # <<>> /\ current = NoType
  BY DEF Unwind, TypeOK
<1>2. /\ UNCHANGED <<types, todo, current>>
      /\ resolved' = [u \in DOMAIN resolved \cup {t} |-> IF u = t THEN entry ELSE resolved[u]]
      /\ visiting' = visiting \ {t}
      /\ inherited' = entry
      /\ path' = front
  BY DEF Unwind
<1>3. /\ Len(path) \in Nat \ {0} /\ t \in Entered(path) /\ front \in Seq(Type)
      /\ Entered(path) = Entered(front) \cup {t}
  BY <1>1, PathFacts
<1>4. /\ t \in DOMAIN types /\ Founded(t)
      /\ inherited = Inherits(types, resolved, t)
      /\ Leads(types, t, inherited.primitive)
  BY <1>1, <1>3 DEF ResolveInv
<1>5. /\ Len(front) = Len(path) - 1
      /\ \A i \in 1 .. Len(path) - 1 : front[i] = path[i]
  BY <1>1, PathFacts
<1>6. /\ entry = Extend(types, t, Inherits(types, resolved, t))
      /\ entry.primitive = inherited.primitive
      /\ ~Uncompilable(types, t, entry.primitive)
  BY <1>4 DEF Extend
<1>7. \A i \in 1 .. Len(path) - 1 : ~Terminal(types, path[i]) /\ types[path[i]].base = path[i + 1]
  BY <1>3 DEF ResolveInv
<1> HIDE DEF t, front, entry
<1>8. ASSUME NEW u \in DOMAIN resolved PROVE resolved'[u] = resolved[u]
  <2>1. CASE u = t
    BY <1>2, <1>6, <2>1 DEF ResolveInv, ResolvedRight
  <2>2. CASE u # t
    BY <1>2, <2>2
  <2>3. QED BY <2>1, <2>2
<1>9. DOMAIN resolved' = DOMAIN resolved \cup {t} /\ resolved'[t] = entry
  BY <1>2
<1>10. ASSUME NEW u \in DOMAIN types, Founded(u)
       PROVE  Inherits(types, resolved', u) = Inherits(types, resolved, u)
  BY <1>8, <1>10 DEF Inherits, Founded
<1>11. ASSUME NEW u \in DOMAIN resolved'
       PROVE  ResolvedRight(u)'
  <2>1. u \in DOMAIN types /\ Founded(u)
    BY <1>4, <1>9, <1>11 DEF TypeOK, ResolveInv, ResolvedRight
  <2>2. resolved'[u] = Extend(types, u, Inherits(types, resolved, u))
    BY <1>6, <1>8, <1>9 DEF ResolveInv, ResolvedRight
  <2>3. ~Uncompilable(types, u, resolved'[u].primitive) /\ Leads(types, u, resolved'[u].primitive)
    BY <1>4, <1>6, <1>8, <1>9 DEF ResolveInv, ResolvedRight
  <2>4. ~Terminal(types', u) /\ types'[u].base \in DOMAIN types' => types'[u].base \in DOMAIN resolved'
    BY <1>2, <1>9, <2>1 DEF Founded
  <2>5. Inherits(types', resolved', u) = Inherits(types, resolved, u) /\ types' = types
    BY <1>2, <1>10, <2>1
  <2>6. QED BY <2>2, <2>3, <2>4, <2>5 DEF ResolvedRight, Founded
<1>12. ASSUME NEW C \in SUBSET Type, Closed(C)'
       PROVE  C \cap DOMAIN resolved' = {}
  <2>1. Closed(C)
    BY <1>2, <1>12 DEF Closed
  <2>2. C \cap DOMAIN resolved = {}
    BY <2>1 DEF ResolveInv
  <2>3. t \notin C
    BY <1>4, <2>1, <2>2 DEF Closed, Founded
  <2>4. QED BY <1>9, <2>2, <2>3
<1>13. visiting' \subseteq Entered(path')
  BY <1>2, <1>3 DEF ResolveInv
<1>14. ASSUME NEW i \in 1 .. Len(path')
       PROVE  /\ path'[i] \in DOMAIN types'
              /\ i < Len(path') => ~Terminal(types', path'[i]) /\ types'[path'[i]].base = path'[i + 1]
  <2>1. i \in 1 .. Len(path) /\ path'[i] = path[i]
    BY <1>2, <1>3, <1>5, <1>14
  <2>2. i < Len(path') => i + 1 \in 1 .. Len(path) - 1 /\ i < Len(path)
    BY <1>2, <1>3, <1>5, <1>14
  <2>3. i < Len(path') => path'[i + 1] = path[i + 1]
    BY <1>2, <1>5, <2>2
  <2>4. QED BY <1>2, <2>1, <2>2, <2>3 DEF ResolveInv
<1>15. ASSUME path' # <<>>
       PROVE  /\ ~Terminal(types, path'[Len(path')]) /\ types[path'[Len(path')]].base = t
              /\ path'[Len(path')] \in DOMAIN types
  <2>1. Len(path') \in 1 .. Len(path) - 1 /\ Len(path') + 1 = Len(path)
    <3>1. Len(front) # 0
      BY <1>2, <1>3, <1>15
    <3>2. QED BY <1>2, <1>3, <1>5, <3>1
  <2>2. path'[Len(path')] = path[Len(path')] /\ path[Len(path') + 1] = t
    BY <1>2, <1>5, <2>1 DEF t
  <2>3. path[Len(path')] \in DOMAIN types
    BY <1>3, <2>1 DEF ResolveInv
  <2>4. QED BY <1>7, <2>1, <2>2, <2>3
<1>16. ASSUME path' # <<>>
       PROVE  /\ Founded(path[Len(path)])'
              /\ inherited' = Inherits(types', resolved', path'[Len(path')])
              /\ Leads(types', path'[Len(path')], inherited'.primitive)
  <2>1. Founded(path[Len(path)])'
    BY <1>2, <1>9, <1>15, <1>16 DEF Founded
  <2>2. inherited' = Inherits(types', resolved', path'[Len(path')])
    BY <1>2, <1>4, <1>9, <1>15, <1>16 DEF Inherits
  <2>3. Leads(types, path'[Len(path')], inherited'.primitive)
    BY <1>2, <1>4, <1>6, <1>15, <1>16, LeadsUp
  <2>4. QED BY <1>2, <2>1, <2>2, <2>3
<1>17. \A u \in DOMAIN types' \ todo' :
         u \in DOMAIN resolved' \/ u = current' \/ u \in Entered(path')
  BY <1>2, <1>3, <1>9 DEF ResolveInv
<1>18. QED BY <1>1, <1>2, <1>11, <1>12, <1>13, <1>14, <1>16, <1>17 DEF ResolveInv

(* What the builder ends with is right for the dictionary.                 *)
LEMMA OutcomeRight ==
    ASSUME TypeOK, ResolveInv,
           MeetCycle \/ Built \/ (Unwind /\ Uncompilable(types, path[Len(path)], inherited.primitive))
    PROVE  once' = "done" /\ Table!Right(outcome)' /\ UNCHANGED <<types, phase>>
<1>1. CASE MeetCycle
  <2>1. current \in Entered(path) /\ path \in Seq(Type) /\ path # <<>> /\ current # NoType
    BY <1>1, TypeAssumption DEF MeetCycle, ResolveInv, TypeOK, Entered
  <2>2. ASSUME NEW i \in 1 .. Len(path)
        PROVE  /\ path[i] \in DOMAIN types /\ ~Terminal(types, path[i])
               /\ types[path[i]].base = IF i = Len(path) THEN current ELSE path[i + 1]
    <3>1. CASE i = Len(path)
      BY <2>1, <2>2, <3>1 DEF ResolveInv
    <3>2. CASE i # Len(path)
      <4>1. i < Len(path)
        BY <2>1, <2>2, <3>2
      <4>2. QED BY <2>2, <3>2, <4>1 DEF ResolveInv
    <3>3. QED BY <3>1, <3>2
  <2>3. Cyclic(types)
    BY <2>1, <2>2, ChainCloses
  <2>4. outcome'.verdict = "cycle" /\ once' = "done" /\ UNCHANGED <<types, phase>>
    BY <1>1 DEF MeetCycle, Conclude, Failure, checking
  <2>5. QED BY <2>3, <2>4, SameWords DEF Table!Right
<1>2. CASE Built
  <2>1. todo = {} /\ current = NoType /\ Entered(path) = {}
    BY <1>2 DEF Built, Idle, Entered
  <2>2. DOMAIN resolved = DOMAIN types
    BY <2>1, TypeAssumption DEF ResolveInv, TypeOK
  <2>3. ASSUME NEW C \in SUBSET Type, Closed(C), C # {} PROVE FALSE
    BY <2>2, <2>3 DEF ResolveInv, Closed
  <2>4. ~Cyclic(types)
    BY <2>3, CyclicClosed DEF TypeOK
  <2>5. IsTable(types, resolved)
    BY <2>2 DEF ResolveInv, ResolvedRight, IsTable
  <2>6. /\ outcome'.verdict = "table" /\ outcome'.table = resolved
        /\ once' = "done" /\ UNCHANGED <<types, phase>>
    BY <1>2 DEF Built, Conclude, checking
  <2>7. QED BY <2>4, <2>5, <2>6, SameWords DEF Table!Right
<1>3. CASE Unwind /\ Uncompilable(types, path[Len(path)], inherited.primitive)
  <2>1. /\ outcome'.verdict = "values" /\ once' = "done" /\ UNCHANGED <<types, phase>>
        /\ path # <<>> /\ current = NoType
    BY <1>3 DEF Unwind, Conclude, Failure, checking
  <2>2. path[Len(path)] \in DOMAIN types
    <3>1. Len(path) \in 1 .. Len(path)
      BY <2>1, PathFacts DEF TypeOK
    <3>2. QED BY <3>1 DEF ResolveInv
  <2>3. Leads(types, path[Len(path)], inherited.primitive)
    BY <2>1 DEF ResolveInv
  <2>4. inherited.primitive \in Type
    BY DEF TypeOK, Entry
  <2>5. /\ Table!Leads(types, path[Len(path)], inherited.primitive)
        /\ Table!Uncompilable(types, path[Len(path)], inherited.primitive)
    BY <1>3, <2>2, <2>3, <2>4, SameWords DEF TypeOK
  <2>6. QED BY <2>1, <2>2, <2>4, <2>5 DEF Table!Right
<1>4. QED BY <1>1, <1>2, <1>3

-----------------------------------------------------------------------------
(* Every step keeps every part of the invariant.                           *)
LEMMA LoadKept ==
    ASSUME IInv, [Next]_vars
    PROVE  LoadInv'
<1>1. CASE \E t \in Type : CheckFrom(t)
  BY <1>1, CheckStarts DEF IInv
<1>2. CASE CheckClimb
  BY <1>2, CheckClimbs DEF IInv
<1>3. CASE CheckMeets
  BY <1>3, CheckMeetsVisited DEF IInv
<1>4. CASE CheckFails \/ Load
  BY <1>4, CheckEnds DEF IInv
<1>5. ASSUME phase = "open", UNCHANGED <<types, phase, checked>> PROVE LoadInv'
  BY <1>5 DEF IInv, LoadInv, LoadingDecides
<1>6. CASE Begin \/ \E c \in Caller : Get(c) \/ Return(c)
  <2>1. phase = "open" /\ UNCHANGED <<types, phase, checked>>
    BY <1>6 DEF IInv, LoadInv, BuildInv, Begin, Get, Return, checking
  <2>2. QED BY <1>5, <2>1
<1>7. CASE Resolve
  <2>1. once = "running" /\ UNCHANGED <<types, phase, checked>>
    BY <1>7 DEF Resolve, Climb, MeetResolved, MeetUndefined, MeetCycle, Unwind, Built, ResolveFrom,
                Idle, checking
  <2>2. QED BY <1>5, <2>1 DEF IInv, BuildInv
<1>8. CASE UNCHANGED vars
  <2>1. CheckInv => CheckInv'
    BY <1>8 DEF vars, CheckInv, Closed
  <2>2. QED BY <1>8, <2>1 DEF vars, IInv, LoadInv, LoadingDecides
<1>9. QED BY <1>1, <1>2, <1>3, <1>4, <1>6, <1>7, <1>8 DEF Next, Check

(* The steps of the builder keep the invariant.                            *)
LEMMA BuildKept ==
    ASSUME IInv, [Next]_vars
    PROVE  BuildInv'
<1> USE DEF IInv
<1>1. CASE Check
  <2>1. phase = "check" /\ once = "new" /\ UNCHANGED <<once, visiting, resolved>>
    BY <1>1 DEF LoadInv, Check, CheckFrom, CheckClimb, CheckMeets, CheckFails, Load, building
  <2>2. visiting = {} /\ DOMAIN resolved = {}
    BY <2>1 DEF BuildInv
  <2>3. phase' = "open" => current' = NoType /\ path' = <<>>
    BY <1>1, <2>1 DEF LoadInv, CheckInv, Check, CheckFrom, CheckClimb, CheckMeets, CheckFails, Load, checking
  <2>4. QED BY <2>1, <2>2, <2>3 DEF BuildInv
<1>2. CASE Begin
  <2>1. /\ phase = "open" /\ current = NoType /\ path = <<>> /\ visiting = {} /\ DOMAIN resolved = {}
        /\ UNCHANGED <<types, phase, current, path, visiting, resolved>>
        /\ once' = "running" /\ todo' = DOMAIN types
    BY <1>2 DEF Begin, LoadInv, BuildInv, checking, building
  <2>2. Len(path') = 0 /\ Entered(path') = {}
    BY <2>1 DEF Entered
  <2>3. ResolveInv'
    BY <2>1, <2>2 DEF ResolveInv
  <2>4. QED BY <2>1, <2>3 DEF BuildInv
<1>3. CASE \E c \in Caller : Get(c) \/ Return(c)
  <2>1. UNCHANGED <<types, phase, todo, current, path, visiting, resolved, inherited, once, outcome>>
    BY <1>3 DEF Get, Return, checking, building
  <2>2. ResolveInv => ResolveInv'
    BY <2>1 DEF ResolveInv, ResolvedRight, Founded, Closed
  <2>3. Table!Right(outcome) => Table!Right(outcome)'
    BY <2>1 DEF Table!Right
  <2>4. QED BY <2>1, <2>2, <2>3 DEF BuildInv
<1>4. CASE Resolve
  <2>1. once = "running" /\ phase = "open" /\ ResolveInv
    BY <1>4 DEF BuildInv, Resolve, Climb, MeetResolved, MeetUndefined, MeetCycle, Unwind, Built,
                ResolveFrom, Idle
  <2>2. CASE ResolveInv' /\ UNCHANGED <<once, phase>>
    BY <2>1, <2>2 DEF BuildInv
  <2>3. CASE once' = "done" /\ Table!Right(outcome)' /\ UNCHANGED <<types, phase>>
    BY <2>1, <2>3 DEF BuildInv
  <2>4. CASE \E t \in Type : ResolveFrom(t)
    <3>1. UNCHANGED <<once, phase>>
      BY <2>4 DEF ResolveFrom, checking
    <3>2. QED BY <2>1, <2>2, <2>4, <3>1, ResolveStarts
  <2>5. CASE Climb
    <3>1. UNCHANGED <<once, phase>>
      BY <2>5 DEF Climb, checking
    <3>2. QED BY <2>1, <2>2, <2>5, <3>1, ClimbsOn
  <2>6. CASE MeetResolved \/ MeetUndefined
    <3>1. UNCHANGED <<once, phase>>
      BY <2>6 DEF MeetResolved, MeetUndefined, checking
    <3>2. QED BY <2>1, <2>2, <2>6, <3>1, ClimbTurns
  <2>7. CASE MeetCycle \/ Built
    BY <2>1, <2>3, <2>7, OutcomeRight
  <2>8. CASE Unwind
    <3>1. CASE Uncompilable(types, path[Len(path)], inherited.primitive)
      BY <2>1, <2>3, <2>8, <3>1, OutcomeRight
    <3>2. CASE ~Uncompilable(types, path[Len(path)], inherited.primitive)
      <4>1. UNCHANGED <<once, phase>>
        BY <2>8, <3>2 DEF Unwind, checking
      <4>2. QED BY <2>1, <2>2, <2>8, <3>2, <4>1, UnwindsRight
    <3>3. QED BY <3>1, <3>2
  <2>9. QED BY <1>4, <2>4, <2>5, <2>6, <2>7, <2>8 DEF Resolve
<1>5. CASE UNCHANGED vars
  <2>1. ResolveInv => ResolveInv'
    BY <1>5 DEF vars, ResolveInv, ResolvedRight, Founded, Closed
  <2>2. Table!Right(outcome) => Table!Right(outcome)'
    BY <1>5 DEF vars, Table!Right
  <2>3. QED BY <1>5, <2>1, <2>2 DEF vars, BuildInv
<1>6. QED BY <1>1, <1>2, <1>3, <1>4, <1>5 DEF Next

(* The calls of Get keep it.                                               *)
LEMMA CallsKept ==
    ASSUME IInv, [Next]_vars
    PROVE  CallInv'
<1> USE DEF IInv, CallInv
<1>1. CASE Check
  BY <1>1 DEF Check, CheckFrom, CheckClimb, CheckMeets, CheckFails, Load, building, calling
<1>2. CASE Begin
  BY <1>2 DEF Begin, building, calling
<1>3. ASSUME NEW c \in Caller, Get(c) PROVE CallInv'
  BY <1>3 DEF Get, building
<1>4. ASSUME NEW c \in Caller, Return(c) PROVE CallInv'
  BY <1>4 DEF Return, building, TypeOK
<1>5. CASE Resolve
  <2>1. once = "running" /\ UNCHANGED calling
    BY <1>5 DEF Resolve, Climb, MeetResolved, MeetUndefined, MeetCycle, Unwind, Built, ResolveFrom, Idle
  <2>2. once' # "done" => outcome' = outcome
    BY <1>5 DEF Resolve, Climb, MeetResolved, MeetUndefined, MeetCycle, Unwind, Built, ResolveFrom,
                Conclude, building
  <2>3. QED BY <2>1, <2>2 DEF calling
<1>6. CASE UNCHANGED vars
  BY <1>6 DEF vars
<1>7. QED BY <1>1, <1>2, <1>3, <1>4, <1>5, <1>6 DEF Next

(* It holds in every initial state.                                        *)
LEMMA Initially ==
    ASSUME Init
    PROVE  IInv
<1> USE TypeAssumption
<1>1. /\ DOMAIN types \subseteq Type /\ types \in [DOMAIN types -> Definition]
      /\ Len(path) = 0 /\ Entered(path) = {} /\ DOMAIN resolved = {}
      /\ path = <<>> /\ visiting = {} /\ current = NoType
      /\ outcome = Undecided /\ once = "new" /\ inside = {} /\ checked = FALSE
      /\ mark = [t \in Type |-> "unvisited"]
      /\ phase = "check" => todo = DOMAIN types
      /\ phase \in {"check", "open"}
  BY DictionaryAssumption DEF Init, Entered
<1>2. inherited \in Entry
  BY EntryFacts, <1>1 DEF Init
<1>3. TypeOK
  <2>1. phase \in {"check", "rejected", "open"} /\ todo \subseteq DOMAIN types
    BY <1>1 DEF Init
  <2>2. path \in Seq(Type) /\ resolved \in [DOMAIN resolved -> Entry]
    BY <1>1 DEF Init
  <2>3. outcome.verdict = "none" /\ answer \in [Caller -> {Undecided, outcome}]
    BY <1>1 DEF Init, Undecided, Failure
  <2>4. QED BY <1>1, <1>2, <2>1, <2>2, <2>3 DEF TypeOK
<1>4. phase = "check" => CheckInv
  BY <1>1 DEF CheckInv
<1>5. LoadInv
  BY <1>1, <1>4 DEF LoadInv, LoadingDecides
<1>6. BuildInv /\ CallInv
  BY <1>1 DEF BuildInv, CallInv
<1>7. QED BY <1>3, <1>5, <1>6 DEF IInv

-----------------------------------------------------------------------------
(* The invariant, of which the properties below are parts.                 *)
THEOREM Invariant == Spec => []IInv
<1>1. IInv /\ [Next]_vars => IInv'
  BY TypesKept, LoadKept, BuildKept, CallsKept DEF IInv
<1>2. QED BY Initially, <1>1, PTL DEF Spec

(* The variables keep their types, for every dictionary and any number of  *)
(* callers.                                                                *)
THEOREM TypesCorrect == Spec => []TypeOK
<1>1. IInv => TypeOK
  BY DEF IInv
<1>2. QED BY Invariant, <1>1, PTL

(* validateTypeInheritance rejects a dictionary that it can load if and    *)
(* only if it is cyclic, in whatever order it takes the types.             *)
THEOREM LoadingDecidesCycles == Spec => []LoadingDecides
<1>1. IInv => LoadingDecides
  BY DEF IInv, LoadInv
<1>2. QED BY Invariant, <1>1, PTL

(* However the builder walks and whoever asks: the cache becomes one thing *)
(* that is right for the dictionary, and every caller is given just that.  *)
THEOREM BuilderImplementsTable == Spec => ImplementsTypeTable
<1>1. Init => Table!Init
  BY DEF Init, Table!Init, Undecided, Failure, Table!Undecided, Table!Failure
<1>2. ASSUME IInv, IInv', [Next]_vars
      PROVE  [Table!Next]_<<types, outcome, answer>>
  <2> USE <1>2
  <2>a. Undecided = Table!Undecided
    BY DEF Undecided, Failure, Table!Undecided, Table!Failure
  <2>1. ASSUME NEW c \in Caller, Return(c) PROVE Table!Next
    <3>1. /\ UNCHANGED <<types, outcome>> /\ answer' = [answer EXCEPT ![c] = outcome]
          /\ c \in inside /\ once = "done"
      BY <2>1 DEF Return, building
    <3>2. answer[c] = Undecided /\ outcome # Undecided
      BY <3>1 DEF IInv, CallInv, TypeOK, Undecided, Failure
    <3>3. Table!Reply(c)
      BY <2>a, <3>1, <3>2 DEF Table!Reply
    <3>4. QED BY <3>3 DEF Table!Next
  <2>2. ASSUME MeetCycle \/ Built \/ Unwind PROVE [Table!Next]_<<types, outcome, answer>>
    <3>1. once = "running" /\ UNCHANGED <<types, answer>> /\ outcome = Undecided
      BY <2>2 DEF MeetCycle, Built, Unwind, Idle, calling, IInv, CallInv
    <3>2. once' = "done" \/ outcome' = outcome
      BY <2>2 DEF MeetCycle, Built, Unwind, Conclude
    <3>3. once' = "done" => Table!Right(outcome)'
      BY DEF IInv, BuildInv
    <3>4. Table!Right(outcome)' => Table!Right(outcome')
      BY <3>1 DEF Table!Right
    <3>5. QED BY <2>a, <3>1, <3>2, <3>3, <3>4 DEF Table!Next, Table!Decide
  <2>3. ASSUME Check \/ Begin \/ \E c \in Caller : Get(c) PROVE UNCHANGED <<types, outcome, answer>>
    BY <2>3 DEF Check, CheckFrom, CheckClimb, CheckMeets, CheckFails, Load, Begin, Get, building, calling
  <2>4. ASSUME Climb \/ MeetResolved \/ MeetUndefined \/ \E t \in Type : ResolveFrom(t)
        PROVE  UNCHANGED <<types, outcome, answer>>
    BY <2>4 DEF Climb, MeetResolved, MeetUndefined, ResolveFrom, building, calling
  <2>5. ASSUME UNCHANGED vars PROVE UNCHANGED <<types, outcome, answer>>
    BY <2>5 DEF vars
  <2>6. QED BY <2>1, <2>2, <2>3, <2>4, <2>5 DEF Next, Resolve
<1>3. QED BY Invariant, <1>1, <1>2, PTL DEF Spec, ImplementsTypeTable, Table!Spec
-----------------------------------------------------------------------------
(* The three walks.                                                        *)

(* One step up, and one step that leaves primitive types as well.          *)
Up(d, u) == IF Terminal(d, u) THEN u ELSE d[u].base
Out(d, u) == IF u \in DOMAIN d THEN d[u].base ELSE NoType

Dictionary(d) == DOMAIN d \subseteq Type /\ IsFiniteSet(DOMAIN d) /\ d \in [DOMAIN d -> Definition]

(* Climbed and Ascended repeat these steps.                                *)
LEMMA ClimbedSteps ==
    ASSUME NEW d, Dictionary(d)
    PROVE  /\ \A t \in Type : Climbed(d)[0][t] = t
           /\ \A n \in Nat, t \in Type : /\ Climbed(d)[n][t] \in Type
                                         /\ Climbed(d)[n + 1][t] = Up(d, Climbed(d)[n][t])
<1> DEFINE T == [Type -> Type]
           z == [t \in Type |-> t]
           F == [n \in Nat |-> [a \in T |-> [t \in Type |-> Up(d, a[t])]]]
           Solves(g) == g = [n \in Nat |->
             IF n = 0 THEN [t \in Type |-> t]
             ELSE [t \in Type |-> IF Terminal(d, g[n - 1][t]) THEN g[n - 1][t] ELSE d[g[n - 1][t]].base]]
<1>1. \A t \in Type : Up(d, t) \in Type
  BY DEF Up, Terminal, Definition, Dictionary
<1>2. IsStep(T, F) /\ z \in T
  BY <1>1 DEF IsStep
<1>3. PICK g : IsIterate(T, z, F, g)
  <2> HIDE DEF T, F, z
  <2>1. QED BY <1>2, Iterates
<1>4. ASSUME NEW n \in Nat PROVE g[n + 1] = [t \in Type |-> Up(d, g[n][t])]
  BY <1>3 DEF IsIterate
<1> HIDE DEF F
<1>5. Solves(g)
  <2>1. ASSUME NEW n \in Nat
        PROVE  g[n] = IF n = 0 THEN [t \in Type |-> t]
                      ELSE [t \in Type |-> IF Terminal(d, g[n - 1][t]) THEN g[n - 1][t] ELSE d[g[n - 1][t]].base]
    <3>1. CASE n = 0
      BY <1>3, <3>1 DEF IsIterate
    <3>2. CASE n # 0
      <4>1. n - 1 \in Nat /\ (n - 1) + 1 = n
        BY <3>2
      <4>2. g[n] = [t \in Type |-> Up(d, g[n - 1][t])]
        BY <1>4, <4>1
      <4>3. QED BY <3>2, <4>2 DEF Up
    <3>3. QED BY <3>1, <3>2
  <2>2. g = [n \in Nat |-> g[n]]
    BY <1>3 DEF IsIterate
  <2>3. QED BY <2>1, <2>2
<1>6. Solves(Climbed(d))
  <2>1. Climbed(d) = CHOOSE h : Solves(h)
    BY DEF Climbed
  <2> HIDE DEF Solves
  <2>2. QED BY <1>5, <2>1
<1> DEFINE c == Climbed(d)
<1>7. /\ c[0] = [t \in Type |-> t]
      /\ \A n \in Nat : c[n + 1] = [t \in Type |-> Up(d, c[n][t])]
  <2> HIDE DEF c
  <2>1. Solves(c)
    BY <1>6 DEF c
  <2>2. c[0] = [t \in Type |-> t]
    BY <2>1
  <2>3. ASSUME NEW n \in Nat PROVE c[n + 1] = [t \in Type |-> Up(d, c[n][t])]
    <3>1. n + 1 \in Nat /\ n + 1 # 0 /\ (n + 1) - 1 = n
      OBVIOUS
    <3>2. QED BY <2>1, <3>1 DEF Up
  <2>4. QED BY <2>2, <2>3
<1> HIDE DEF c, Solves
<1> DEFINE S == {n \in Nat : \A t \in Type : c[n][t] \in Type}
<1>8. Nat \subseteq S
  <2>1. 0 \in S
    BY <1>7
  <2>2. ASSUME NEW n \in Nat, n \in S PROVE n + 1 \in S
    <3>1. ASSUME NEW t \in Type PROVE c[n + 1][t] \in Type
      <4>1. c[n][t] \in Type /\ c[n + 1] = [u \in Type |-> Up(d, c[n][u])]
        BY <1>7, <2>2
      <4>2. c[n + 1][t] = Up(d, c[n][t])
        BY <4>1
      <4>3. QED BY <1>1, <4>1, <4>2
    <3>2. QED BY <3>1
  <2> HIDE DEF S
  <2>3. QED BY <2>1, <2>2, NatInduct
<1>9. ASSUME NEW n \in Nat, NEW t \in Type
      PROVE  c[n][t] \in Type /\ c[n + 1][t] = Up(d, c[n][t])
  <2>1. c[n + 1] = [u \in Type |-> Up(d, c[n][u])]
    BY <1>7
  <2>2. QED BY <1>8, <2>1
<1>10. QED BY <1>7, <1>9 DEF c

(* So does the walk that leaves primitive types.                           *)
LEMMA AscendedSteps ==
    ASSUME NEW d, Dictionary(d)
    PROVE  /\ \A t \in Type : Ascended(d)[0][t] = t
           /\ \A n \in Nat, t \in Type : Ascended(d)[n + 1][t] = Out(d, Ascended(d)[n][t])
<1> DEFINE N == Type \cup {NoType}
           T == [Type -> N]
           z == [t \in Type |-> t]
           F == [n \in Nat |-> [a \in T |-> [t \in Type |-> Out(d, a[t])]]]
           Solves(g) == g = [n \in Nat |->
             IF n = 0 THEN [t \in Type |-> t]
             ELSE [t \in Type |-> IF g[n - 1][t] \in DOMAIN d THEN d[g[n - 1][t]].base ELSE NoType]]
<1>1. \A t \in N : Out(d, t) \in N
  BY DEF Out, Definition, Dictionary
<1>2. IsStep(T, F) /\ z \in T
  BY <1>1 DEF IsStep
<1>3. PICK g : IsIterate(T, z, F, g)
  <2> HIDE DEF T, F, z
  <2>1. QED BY <1>2, Iterates
<1>4. ASSUME NEW n \in Nat PROVE g[n + 1] = [t \in Type |-> Out(d, g[n][t])]
  BY <1>3 DEF IsIterate
<1> HIDE DEF F
<1>5. Solves(g)
  <2>1. ASSUME NEW n \in Nat
        PROVE  g[n] = IF n = 0 THEN [t \in Type |-> t]
                      ELSE [t \in Type |-> IF g[n - 1][t] \in DOMAIN d THEN d[g[n - 1][t]].base ELSE NoType]
    <3>1. CASE n = 0
      BY <1>3, <3>1 DEF IsIterate
    <3>2. CASE n # 0
      <4>1. n - 1 \in Nat /\ (n - 1) + 1 = n
        BY <3>2
      <4>2. g[n] = [t \in Type |-> Out(d, g[n - 1][t])]
        BY <1>4, <4>1
      <4>3. QED BY <3>2, <4>2 DEF Out
    <3>3. QED BY <3>1, <3>2
  <2>2. g = [n \in Nat |-> g[n]]
    BY <1>3 DEF IsIterate
  <2>3. QED BY <2>1, <2>2
<1>6. Solves(Ascended(d))
  <2>1. Ascended(d) = CHOOSE h : Solves(h)
    BY DEF Ascended
  <2> HIDE DEF Solves
  <2>2. QED BY <1>5, <2>1
<1> DEFINE c == Ascended(d)
<1>7. /\ c[0] = [t \in Type |-> t]
      /\ \A n \in Nat : c[n + 1] = [t \in Type |-> Out(d, c[n][t])]
  <2> HIDE DEF c
  <2>1. Solves(c)
    BY <1>6 DEF c
  <2>2. c[0] = [t \in Type |-> t]
    BY <2>1
  <2>3. ASSUME NEW n \in Nat PROVE c[n + 1] = [t \in Type |-> Out(d, c[n][t])]
    <3>1. n + 1 \in Nat /\ n + 1 # 0 /\ (n + 1) - 1 = n
      OBVIOUS
    <3>2. QED BY <2>1, <3>1 DEF Out
  <2>4. QED BY <2>2, <2>3
<1> HIDE DEF c, Solves
<1>8. ASSUME NEW n \in Nat, NEW t \in Type PROVE c[n + 1][t] = Out(d, c[n][t])
  <2>1. c[n + 1] = [u \in Type |-> Out(d, c[n][u])]
    BY <1>7
  <2>2. QED BY <2>1
<1>9. QED BY <1>7, <1>8 DEF c

(* A climb stays in any set that holds its start and is closed under bases. *)
LEMMA ClimbStays ==
    ASSUME NEW d, Dictionary(d), NEW t \in Type, NEW S, t \in S,
           \A u \in S : Terminal(d, u) \/ d[u].base \in S
    PROVE  \A n \in Nat : Climbed(d)[n][t] \in S
<1> DEFINE c == Climbed(d)
           R == {n \in Nat : c[n][t] \in S}
<1>1. c[0][t] = t /\ \A n \in Nat : c[n + 1][t] = Up(d, c[n][t])
  BY ClimbedSteps
<1> HIDE DEF c
<1>2. 0 \in R
  BY <1>1
<1>3. ASSUME NEW n \in Nat, n \in R PROVE n + 1 \in R
  <2>1. c[n][t] \in S
    BY <1>3
  <2>2. Up(d, c[n][t]) \in S
    BY <2>1 DEF Up
  <2>3. QED BY <1>1, <2>2
<1>4. Nat \subseteq R
  <2> HIDE DEF R
  <2>1. QED BY <1>2, <1>3, NatInduct
<1>5. QED BY <1>4 DEF c

(* It goes on from a type as it does from the type's base.                 *)
LEMMA ClimbShifts ==
    ASSUME NEW d, Dictionary(d), NEW t \in Type, ~Terminal(d, t)
    PROVE  d[t].base \in Type /\ \A n \in Nat : Climbed(d)[n + 1][t] = Climbed(d)[n][d[t].base]
<1> DEFINE c == Climbed(d)
           b == d[t].base
           R == {n \in Nat : c[n + 1][t] = c[n][b]}
<1>1. b \in Type
  BY DEF Terminal, Dictionary, Definition
<1>2. \A u \in Type : c[0][u] = u /\ \A n \in Nat : c[n + 1][u] = Up(d, c[n][u])
  BY ClimbedSteps
<1>3. Up(d, t) = b
  BY DEF Up
<1> HIDE DEF c, b
<1>4. 0 \in R
  <2>1. c[0 + 1][t] = Up(d, c[0][t])
    BY <1>2
  <2>2. QED BY <1>1, <1>2, <1>3, <2>1
<1>5. ASSUME NEW n \in Nat, n \in R PROVE n + 1 \in R
  <2>1. c[n + 1][t] = c[n][b] /\ n + 1 \in Nat
    BY <1>5
  <2>2. c[(n + 1) + 1][t] = Up(d, c[n + 1][t]) /\ c[n + 1][b] = Up(d, c[n][b])
    BY <1>1, <1>2, <2>1
  <2>3. QED BY <2>1, <2>2
<1>6. Nat \subseteq R
  <2> HIDE DEF R
  <2>1. QED BY <1>4, <1>5, NatInduct
<1>7. QED BY <1>1, <1>6 DEF c, b

(* At the end of the chain it stops.                                       *)
LEMMA ClimbStops ==
    ASSUME NEW d, Dictionary(d), NEW t \in Type, NEW k \in Nat, Terminal(d, Climbed(d)[k][t])
    PROVE  \A m \in Nat : m >= k => Climbed(d)[m][t] = Climbed(d)[k][t]
<1> DEFINE c == Climbed(d)
           R == {n \in Nat : c[k + n][t] = c[k][t]}
<1>1. \A n \in Nat : c[n + 1][t] = Up(d, c[n][t])
  BY ClimbedSteps
<1>2. Up(d, c[k][t]) = c[k][t]
  BY DEF Up
<1> HIDE DEF c
<1>3. 0 \in R
  OBVIOUS
<1>4. ASSUME NEW n \in Nat, n \in R PROVE n + 1 \in R
  <2>1. k + n \in Nat /\ k + (n + 1) = (k + n) + 1
    OBVIOUS
  <2>2. QED BY <1>1, <1>2, <1>4, <2>1
<1>5. Nat \subseteq R
  <2> HIDE DEF R
  <2>1. QED BY <1>3, <1>4, NatInduct
<1>6. ASSUME NEW m \in Nat, m >= k PROVE c[m][t] = c[k][t]
  <2>1. m - k \in R /\ k + (m - k) = m
    BY <1>5, <1>6
  <2>2. QED BY <2>1
<1>7. QED BY <1>6 DEF c

(* A climb that passes more types than there are goes round in a circle.   *)
LEMMA ClimbEnds ==
    ASSUME NEW d, Dictionary(d), ~Cyclic(d), NEW t \in Type
    PROVE  \E k \in 0 .. Cardinality(DOMAIN d) : Terminal(d, Climbed(d)[k][t])
<1> DEFINE D == DOMAIN d
           N == Cardinality(D)
           c == [i \in Nat |-> Climbed(d)[i][t]]
<1>1. N \in Nat /\ IsFiniteSet(D)
  BY FS_CardinalityType DEF Dictionary
<1>2. \A i \in Nat : c[i] \in Type /\ c[i + 1] = Up(d, c[i])
  BY ClimbedSteps
<1> HIDE DEF c
<1>3. SUFFICES ASSUME \A i \in 0 .. N : ~Terminal(d, c[i]) PROVE FALSE
  BY <1>1 DEF c
<1>4. \A i \in 0 .. N : c[i] \in D /\ d[c[i]].base = c[i + 1]
  BY <1>1, <1>2, <1>3 DEF Terminal, Up
<1>5. PICK x, y \in 0 .. N : x < y /\ c[x] = c[y]
  <2> DEFINE f == [i \in 0 .. N |-> c[i]]
  <2>1. f \in [0 .. N -> D]
    BY <1>4
  <2>2. IsFiniteSet(0 .. N) /\ Cardinality(0 .. N) = N + 1
    BY <1>1, FS_Interval
  <2> HIDE DEF f, D
  <2>3. N < Cardinality(0 .. N)
    BY <1>1, <2>2
  <2>4. \E i, j \in 0 .. N : i # j /\ f[i] = f[j]
    <3> DEFINE I == 0 .. N
    <3> HIDE DEF I
    <3>1. f \in [I -> D] /\ IsFiniteSet(I) /\ IsFiniteSet(D) /\ Cardinality(D) < Cardinality(I)
      BY <1>1, <2>1, <2>2, <2>3 DEF I
    <3>2. \E i, j \in I : i # j /\ f[i] = f[j]
      BY <3>1, FS_PigeonHole
    <3>3. QED BY <3>2 DEF I
  <2>5. PICK i, j \in 0 .. N : i # j /\ f[i] = f[j]
    BY <2>4
  <2>6. c[i] = c[j]
    BY <2>5 DEF f
  <2>7. CASE i < j
    BY <2>6, <2>7
  <2>8. CASE j < i
    BY <2>6, <2>8
  <2>9. QED BY <1>1, <2>5, <2>7, <2>8
<1> DEFINE K == {c[i] : i \in x .. y - 1}
<1>6. K \subseteq D /\ K # {}
  <2>1. x \in x .. y - 1 /\ x .. y - 1 \subseteq 0 .. N
    BY <1>1, <1>5
  <2>2. QED BY <1>4, <2>1
<1>7. ASSUME NEW u \in K PROVE ~Terminal(d, u) /\ d[u].base \in K
  <2>1. PICK i \in x .. y - 1 : u = c[i]
    OBVIOUS
  <2>2. i \in 0 .. N
    BY <1>1, <1>5
  <2>3. ~Terminal(d, u) /\ d[u].base = c[i + 1]
    BY <1>3, <1>4, <2>1, <2>2
  <2>4. CASE i + 1 = y
    <3>1. x \in x .. y - 1
      BY <1>5
    <3>2. QED BY <1>5, <2>3, <2>4, <3>1
  <2>5. CASE i + 1 # y
    <3>1. i + 1 \in x .. y - 1
      BY <1>1, <1>5, <2>5
    <3>2. QED BY <2>3, <3>1
  <2>6. QED BY <2>4, <2>5
<1> HIDE DEF K
<1>8. QED BY <1>6, <1>7 DEF Cyclic

(* The other walk goes the same way as far as this one climbs.             *)
LEMMA AscentFollows ==
    ASSUME NEW d, Dictionary(d), NEW t \in Type, NEW k \in Nat,
           \A i \in 0 .. k - 1 : ~Terminal(d, Climbed(d)[i][t])
    PROVE  Ascended(d)[k][t] = Climbed(d)[k][t]
<1> DEFINE a == [i \in Nat |-> Ascended(d)[i][t]]
           c == [i \in Nat |-> Climbed(d)[i][t]]
           S == {i \in 0 .. k : a[i] = c[i]}
<1>1. a[0] = c[0]
  BY AscendedSteps, ClimbedSteps
<1>2. \A i \in Nat : a[i + 1] = Out(d, a[i]) /\ c[i + 1] = Up(d, c[i])
  BY AscendedSteps, ClimbedSteps
<1>3. \A i \in 0 .. k - 1 : ~Terminal(d, c[i])
  OBVIOUS
<1> HIDE DEF a, c
<1>4. 0 \in S
  BY <1>1
<1>5. ASSUME NEW i \in 0 .. k - 1, i \in S PROVE i + 1 \in S
  <2>1. Out(d, c[i]) = Up(d, c[i])
    BY <1>3 DEF Out, Up, Terminal
  <2>2. QED BY <1>2, <1>5, <2>1
<1>6. 0 .. k \subseteq S
  <2> HIDE DEF S
  <2>1. QED BY <1>4, <1>5, BoundedInduct
<1>7. QED BY <1>6 DEF a, c

(* What a table says of a type is the end of the type's chain.             *)
LEMMA EntryEnds ==
    ASSUME NEW d, Dictionary(d), NEW table, IsTable(d, table)
    PROVE  \A m \in Nat : \A u \in DOMAIN d :
             Terminal(d, Climbed(d)[m][u]) => table[u].primitive = Climbed(d)[m][u]
<1> DEFINE c == Climbed(d)
           R == {m \in Nat : \A u \in DOMAIN d : Terminal(d, c[m][u]) => table[u].primitive = c[m][u]}
<1>1. \A u \in DOMAIN d : u \in Type
  BY DEF Dictionary
<1>2. \A u \in DOMAIN d : table[u].primitive = Inherits(d, table, u).primitive
  BY DEF IsTable, Extend
<1>3. \A u \in Type : c[0][u] = u
  BY ClimbedSteps
<1>4. ASSUME NEW u \in DOMAIN d, Terminal(d, u)
      PROVE  table[u].primitive = u /\ \A m \in Nat : c[m][u] = u
  <2>1. table[u].primitive = u
    BY <1>2, <1>4 DEF Inherits, Bare
  <2>2. \A m \in Nat : m >= 0 => c[m][u] = c[0][u]
    BY <1>1, <1>3, <1>4, ClimbStops
  <2>3. QED BY <1>1, <1>3, <2>1, <2>2
<1>5. 0 \in R
  BY <1>1, <1>3, <1>4
<1>6. ASSUME NEW m \in Nat, m \in R PROVE m + 1 \in R
  <2>1. ASSUME NEW u \in DOMAIN d, Terminal(d, c[m + 1][u]) PROVE table[u].primitive = c[m + 1][u]
    <3>1. CASE Terminal(d, u)
      BY <1>4, <3>1
    <3>2. CASE ~Terminal(d, u)
      <4> DEFINE b == d[u].base
      <4>1. b \in Type /\ c[m + 1][u] = c[m][b]
        BY <1>1, <3>2, ClimbShifts
      <4>2. CASE b \in DOMAIN d
        <5>1. table[u].primitive = table[b].primitive
          BY <1>2, <3>2, <4>2 DEF Inherits
        <5>2. table[b].primitive = c[m][b]
          BY <1>6, <2>1, <4>1, <4>2
        <5>3. QED BY <4>1, <5>1, <5>2
      <4>3. CASE b \notin DOMAIN d
        <5>1. table[u].primitive = b
          BY <1>2, <3>2, <4>3 DEF Inherits, Bare
        <5>2. Terminal(d, b)
          BY <4>3 DEF Terminal
        <5>3. c[0][b] = b
          BY <1>3, <4>1
        <5>4. \A n \in Nat : n >= 0 => c[n][b] = c[0][b]
          BY <4>1, <5>2, <5>3, ClimbStops
        <5>5. c[m][b] = b
          BY <5>3, <5>4
        <5>6. QED BY <4>1, <5>1, <5>5
      <4>4. QED BY <4>2, <4>3
    <3>3. QED BY <3>1, <3>2
  <2>2. QED BY <2>1
<1>7. Nat \subseteq R
  <2> HIDE DEF R
  <2>1. QED BY <1>5, <1>6, NatInduct
<1>8. QED BY <1>7 DEF c

(* All walks of a dictionary without a cycle end, in the same place.       *)
LEMMA WalksMeet ==
    ASSUME NEW d, Dictionary(d), ~Cyclic(d), NEW t \in Type
    PROVE  /\ ResolvePrimitiveType(d, t) \in Type
           /\ Leads(d, t, ResolvePrimitiveType(d, t))
           /\ TypeDerivedFrom(d, t, ResolvePrimitiveType(d, t))
           /\ \E m \in Nat : /\ Climbed(d)[m][t] = ResolvePrimitiveType(d, t)
                             /\ Terminal(d, Climbed(d)[m][t])
<1> DEFINE c == Climbed(d)
           N == Cardinality(DOMAIN d)
           Ends == {k \in 0 .. N : Terminal(d, c[k][t])}
<1>1. N \in Nat
  BY FS_CardinalityType DEF Dictionary
<1>2. Ends # {} /\ Ends \subseteq Nat
  BY <1>1, ClimbEnds
<1>3. PICK k \in Ends : \A j \in Ends : k <= j
  <2> HIDE DEF Ends
  <2>1. QED BY <1>2, LeastPosition
<1>4. k \in Nat /\ k <= N /\ Terminal(d, c[k][t])
  BY <1>1, <1>3
<1>5. \A i \in 0 .. k - 1 : ~Terminal(d, c[i][t])
  <2>1. ASSUME NEW i \in 0 .. k - 1, Terminal(d, c[i][t]) PROVE FALSE
    <3>1. i \in Ends /\ ~(k <= i)
      BY <1>1, <1>4, <2>1
    <3>2. QED BY <1>3, <3>1
  <2>2. QED BY <2>1
<1>6. c[N][t] = c[k][t] /\ c[k][t] \in Type
  BY <1>1, <1>4, ClimbStops, ClimbedSteps
<1>7. ResolvePrimitiveType(d, t) = c[k][t]
  BY <1>4, <1>6 DEF ResolvePrimitiveType
<1>8. TypeDerivedFrom(d, t, c[k][t])
  <2>1. Ascended(d)[k][t] = c[k][t]
    BY <1>4, <1>5, AscentFollows
  <2>2. k \in 0 .. N
    BY <1>3
  <2>3. QED BY <2>1, <2>2 DEF TypeDerivedFrom
<1>9. Leads(d, t, c[k][t])
  <2>1. ASSUME NEW S \in SUBSET Type, t \in S, \A u \in S : Terminal(d, u) \/ d[u].base \in S
        PROVE  c[k][t] \in S
    BY <1>4, <2>1, ClimbStays
  <2>2. QED BY <1>4, <2>1 DEF Leads
<1>10. QED BY <1>4, <1>6, <1>7, <1>8, <1>9

(* The dictionary is one of those considered.                              *)
LEMMA StaysDictionary == Spec => [](types \in Dictionaries)
<1>1. Init => types \in Dictionaries
  BY DEF Init
<1>2. types \in Dictionaries /\ [Next]_vars => (types \in Dictionaries)'
  BY DEF Next, Check, Resolve, CheckFrom, CheckClimb, CheckMeets, CheckFails, Load, Begin, Get, Return,
         Climb, MeetResolved, MeetUndefined, MeetCycle, Unwind, Built, ResolveFrom, vars
<1>3. QED BY <1>1, <1>2, PTL DEF Spec

(* ResolvePrimitiveType, TypeDerivedFrom and the cached table give a type  *)
(* the same primitive type, that at the end of its chain; a type without   *)
(* one is what makes a dictionary cyclic.                                  *)
THEOREM WalksAlwaysAgree == Spec => []WalksAgree
<1>1. ASSUME IInv, types \in Dictionaries PROVE WalksAgree
  <2> USE <1>1
  <2>1. Dictionary(types)
    BY DictionaryAssumption DEF Dictionary
  <2>2. ASSUME once = "done", outcome.verdict = "table", NEW t \in DOMAIN types
        PROVE  LET p == outcome.table[t].primitive
               IN /\ Leads(types, t, p)
                  /\ ResolvePrimitiveType(types, t) = p
                  /\ TypeDerivedFrom(types, t, p)
    <3>1. ~Table!Cyclic(types) /\ Table!IsTable(types, outcome.table)
      BY <2>2 DEF IInv, BuildInv, Table!Right
    <3>2. ~Cyclic(types) /\ IsTable(types, outcome.table) /\ t \in Type
      BY <2>1, <2>2, <3>1, SameWords DEF Dictionary
    <3>3. PICK m \in Nat : /\ Climbed(types)[m][t] = ResolvePrimitiveType(types, t)
                           /\ Terminal(types, Climbed(types)[m][t])
      BY <2>1, <3>2, WalksMeet
    <3>4. outcome.table[t].primitive = ResolvePrimitiveType(types, t)
      BY <2>1, <2>2, <3>2, <3>3, EntryEnds
    <3>5. QED BY <2>1, <3>2, <3>4, WalksMeet
  <2>3. ASSUME Cyclic(types) PROVE \E t \in DOMAIN types : ResolvePrimitiveType(types, t) = NoType
    <3>1. PICK C \in SUBSET DOMAIN types :
            C # {} /\ \A t \in C : ~Terminal(types, t) /\ types[t].base \in C
      BY <2>3 DEF Cyclic
    <3>2. PICK t \in C : TRUE
      BY <3>1
    <3>3. t \in Type /\ Cardinality(DOMAIN types) \in Nat
      BY <2>1, FS_CardinalityType DEF Dictionary
    <3>4. Climbed(types)[Cardinality(DOMAIN types)][t] \in C
      BY <2>1, <3>1, <3>3, ClimbStays
    <3>5. QED BY <3>1, <3>4 DEF ResolvePrimitiveType
  <2>4. ASSUME NEW t \in DOMAIN types, ResolvePrimitiveType(types, t) = NoType PROVE Cyclic(types)
    BY <2>1, <2>4, WalksMeet, TypeAssumption DEF Dictionary
  <2>5. QED BY <2>2, <2>3, <2>4 DEF WalksAgree
<1>2. QED BY Invariant, StaysDictionary, <1>1, PTL

=============================================================================
