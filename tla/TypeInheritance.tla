-------------------------- MODULE TypeInheritance --------------------------
(***************************************************************************)
(* Loading a schema's dictionary types and resolving them for validation.  *)
(* Loading rejects cyclic inheritance (validateTypeInheritance); a schema  *)
(* that was constructed otherwise has not been checked.  Then pipelines    *)
(* are built on it, concurrently.  The first that validates builds the     *)
(* cache, the others wait for it (Lazy.Get); the builder climbs from every *)
(* type to the nearest ancestor it has resolved before, and resolves the   *)
(* types it passed on its way back (typeResolver.resolve).  Types come     *)
(* from a Go map, in any order; loading sorts them, which is one of these  *)
(* orders.                                                                 *)
(***************************************************************************)
EXTENDS TypeGraph, Sequences

CONSTANTS
    Caller,       \* calls of NewPipeline with validation
    Dictionaries  \* the dictionaries considered

ASSUME DictionaryAssumption ==
    \A d \in Dictionaries : /\ DOMAIN d \subseteq Type /\ IsFiniteSet(DOMAIN d)
                            /\ d \in [DOMAIN d -> Definition]

VARIABLES
    types,      \* Dictionary.Types.Attributes
    phase,      \* "check", "rejected" or "open" for pipelines
    checked,    \* the schema was loaded, not just constructed
    todo,       \* types the loop of the check or of Build has not reached
    current,    \* currentName, NoType between two climbs and on the way back
    path,       \* types passed on the way
    mark,       \* states of validateTypeInheritance
    visiting,   \* types a climb of the builder has entered and not resolved
    resolved,   \* Cache.Types so far
    inherited,  \* what the next type on the way back inherits
    once,       \* cacheGuard: "new", "running" or "done"
    outcome,    \* l.cache or l.err
    inside,     \* callers in Get
    answer      \* what Get returned to each caller

vars == <<types, phase, checked, todo, current, path, mark,
          visiting, resolved, inherited, once, outcome, inside, answer>>
checking == <<phase, checked, mark>>
building == <<visiting, resolved, inherited, outcome>>
calling == <<inside, answer>>

Entered(way) == {way[i] : i \in DOMAIN way}

Init ==
    /\ types \in Dictionaries
    /\ \/ phase = "check" /\ todo = DOMAIN types
       \/ phase = "open" /\ todo = {}
    /\ checked = FALSE
    /\ current = NoType /\ path = <<>>
    /\ mark = [t \in Type |-> "unvisited"]
    /\ visiting = {} /\ resolved = <<>>
    /\ inherited = Bare(CHOOSE t \in Type : TRUE)
    /\ once = "new" /\ outcome = Undecided
    /\ inside = {} /\ answer = [c \in Caller |-> Undecided]

-----------------------------------------------------------------------------
(* Loading: validateTypeInheritance.                                       *)

CheckFrom(t) ==
    /\ phase = "check" /\ current = NoType /\ t \in todo
    /\ todo' = todo \ {t}
    /\ current' = IF mark[t] = "visited" THEN NoType ELSE t
    /\ UNCHANGED <<types, path, checking, building, once, calling>>

(* The climb ends well, having passed the types in way.                    *)
Visited(way) ==
    /\ mark' = [t \in Type |-> IF t \in Entered(way) THEN "visited" ELSE mark[t]]
    /\ current' = NoType /\ path' = <<>>

CheckClimb ==
    /\ phase = "check" /\ current \in Type \ Primitive /\ mark[current] = "unvisited"
    /\ LET way == Append(path, current)
       IN IF Terminal(types, current)
          THEN Visited(way)
          ELSE /\ mark' = [mark EXCEPT ![current] = "visiting"]
               /\ path' = way
               /\ current' = types[current].base
    /\ UNCHANGED <<types, phase, checked, todo, building, once, calling>>

(* Slip: a type of the climb itself counts as visited.                     *)
CheckMeetsAny ==
    /\ phase = "check" /\ current \in Type
    /\ current \in Primitive \/ mark[current] # "unvisited"
    /\ Visited(path)
    /\ UNCHANGED <<types, phase, checked, todo, building, once, calling>>

CheckMeets ==
    /\ phase = "check" /\ current \in Type
    /\ current \in Primitive \/ mark[current] = "visited"
    /\ Visited(path)
    /\ UNCHANGED <<types, phase, checked, todo, building, once, calling>>

CheckFails ==
    /\ phase = "check" /\ current \in Type \ Primitive /\ mark[current] = "visiting"
    /\ phase' = "rejected"
    /\ UNCHANGED <<types, checked, todo, current, path, mark, building, once, calling>>

Load ==
    /\ phase = "check" /\ current = NoType /\ todo = {}
    /\ phase' = "open" /\ checked' = TRUE
    /\ UNCHANGED <<types, todo, current, path, mark, building, once, calling>>

-----------------------------------------------------------------------------
(* Lazy.Get, called by concurrent NewPipelines.                            *)

Get(c) ==
    /\ phase = "open" /\ c \notin inside /\ answer[c] = Undecided
    /\ inside' = inside \cup {c}
    /\ UNCHANGED <<types, checking, todo, current, path, building, once, answer>>

(* The first caller runs the function, the others wait for its end.        *)
Begin ==
    /\ once = "new" /\ inside # {}
    /\ once' = "running" /\ todo' = DOMAIN types
    /\ UNCHANGED <<types, checking, current, path, building, calling>>

(* Slip: a failed build leaves its callers waiting.                        *)
ReturnTable(c) ==
    /\ c \in inside /\ once = "done" /\ outcome.verdict = "table"
    /\ answer' = [answer EXCEPT ![c] = outcome]
    /\ inside' = inside \ {c}
    /\ UNCHANGED <<types, checking, todo, current, path, building, once>>

Return(c) ==
    /\ c \in inside /\ once = "done"
    /\ answer' = [answer EXCEPT ![c] = outcome]
    /\ inside' = inside \ {c}
    /\ UNCHANGED <<types, checking, todo, current, path, building, once>>

-----------------------------------------------------------------------------
(* Build and typeResolver.resolve.                                         *)

Idle == once = "running" /\ current = NoType /\ path = <<>>

ResolveFrom(t) ==
    /\ Idle /\ t \in todo
    /\ todo' = todo \ {t}
    /\ current' = IF t \in DOMAIN resolved THEN NoType ELSE t
    /\ UNCHANGED <<types, checking, path, building, once, calling>>

Turn(entry) == inherited' = entry /\ current' = NoType

(* Slip: a base is entered before its definition is looked up.             *)
ClimbBlindly ==
    /\ once = "running"
    /\ current \in Type \ (DOMAIN resolved \cup visiting)
    /\ visiting' = visiting \cup {current}
    /\ path' = Append(path, current)
    /\ IF Terminal(types, current)
       THEN Turn(Bare(current))
       ELSE current' = types[current].base /\ UNCHANGED inherited
    /\ UNCHANGED <<types, checking, todo, resolved, outcome, once, calling>>

(* One more type above; a primitive type or one without a base is the last.*)
Climb ==
    /\ once = "running"
    /\ current \in DOMAIN types \ (DOMAIN resolved \cup visiting)
    /\ visiting' = visiting \cup {current}
    /\ path' = Append(path, current)
    /\ IF Terminal(types, current)
       THEN Turn(Bare(current))
       ELSE current' = types[current].base /\ UNCHANGED inherited
    /\ UNCHANGED <<types, checking, todo, resolved, outcome, once, calling>>

MeetResolved ==
    /\ once = "running" /\ current \in DOMAIN resolved
    /\ Turn(resolved[current])
    /\ UNCHANGED <<types, checking, todo, path, visiting, resolved, outcome, once, calling>>

MeetUndefined ==
    /\ once = "running" /\ current \in Type \ (DOMAIN types \cup DOMAIN resolved \cup visiting)
    /\ Turn(Bare(current))
    /\ UNCHANGED <<types, checking, todo, path, visiting, resolved, outcome, once, calling>>

Conclude(result) == once' = "done" /\ outcome' = result

MeetCycle ==
    /\ once = "running" /\ current \in visiting \ DOMAIN resolved
    /\ Conclude(Failure("cycle"))
    /\ UNCHANGED <<types, checking, todo, current, path, visiting, resolved, inherited, calling>>

(* Slip: the path is resolved from its beginning.                          *)
UnwindForward ==
    /\ once = "running" /\ current = NoType /\ path # <<>>
    /\ LET t == Head(path)
           entry == Extend(types, t, inherited)
       IN IF Uncompilable(types, t, inherited.primitive)
          THEN /\ Conclude(Failure("values"))
               /\ UNCHANGED <<path, visiting, resolved, inherited>>
          ELSE /\ resolved' = [u \in DOMAIN resolved \cup {t} |->
                                 IF u = t THEN entry ELSE resolved[u]]
               /\ visiting' = visiting \ {t}
               /\ inherited' = entry
               /\ path' = Tail(path)
               /\ UNCHANGED <<once, outcome>>
    /\ UNCHANGED <<types, checking, todo, current, calling>>

(* On the way back: resolveTypeValidation for the last type passed.        *)
Unwind ==
    /\ once = "running" /\ current = NoType /\ path # <<>>
    /\ LET t == path[Len(path)]
           entry == Extend(types, t, inherited)
       IN IF Uncompilable(types, t, inherited.primitive)
          THEN /\ Conclude(Failure("values"))
               /\ UNCHANGED <<path, visiting, resolved, inherited>>
          ELSE /\ resolved' = [u \in DOMAIN resolved \cup {t} |->
                                 IF u = t THEN entry ELSE resolved[u]]
               /\ visiting' = visiting \ {t}
               /\ inherited' = entry
               /\ path' = SubSeq(path, 1, Len(path) - 1)
               /\ UNCHANGED <<once, outcome>>
    /\ UNCHANGED <<types, checking, todo, current, calling>>

Built ==
    /\ Idle /\ todo = {}
    /\ Conclude([verdict |-> "table", table |-> resolved])
    /\ UNCHANGED <<types, checking, todo, current, path, visiting, resolved, inherited, calling>>

-----------------------------------------------------------------------------
Check == CheckClimb \/ CheckMeets \/ CheckFails \/ Load \/ \E t \in Type : CheckFrom(t)

Resolve == \/ Climb \/ MeetResolved \/ MeetUndefined \/ MeetCycle \/ Unwind \/ Built
           \/ \E t \in Type : ResolveFrom(t)

Next == Check \/ Begin \/ Resolve \/ \E c \in Caller : Get(c) \/ Return(c)

Spec == Init /\ [][Next]_vars

(* Whoever has called gets on; nobody has to call.                         *)
FairSpec ==
    /\ Spec
    /\ WF_vars(Begin) /\ WF_vars(Resolve)
    /\ \A c \in Caller : WF_vars(Return(c))
-----------------------------------------------------------------------------
(* The variables keep their types.                                         *)
TypeOK ==
    /\ DOMAIN types \subseteq Type /\ types \in [DOMAIN types -> Definition]
    /\ phase \in {"check", "rejected", "open"} /\ checked \in BOOLEAN
    /\ todo \subseteq DOMAIN types
    /\ current \in Type \cup {NoType}
    /\ path \in Seq(Type)
    /\ mark \in [Type -> {"unvisited", "visiting", "visited"}]
    /\ visiting \subseteq DOMAIN types
    /\ DOMAIN resolved \subseteq DOMAIN types /\ resolved \in [DOMAIN resolved -> Entry]
    /\ inherited \in Entry
    /\ once \in {"new", "running", "done"}
    /\ outcome.verdict \in (IF once = "done" THEN {"table", "cycle", "values"} ELSE {"none"})
    /\ inside \subseteq Caller
    /\ answer \in [Caller -> {Undecided, outcome}]

(* Loading finds a cycle if and only if there is one, in whatever order it *)
(* takes the types and whichever of them it has visited before: a loaded   *)
(* schema cannot fail on a cycle later (schema.go:712-714 ignores the      *)
(* error of ResolvePrimitiveType for that reason).                         *)
LoadingDecides ==
    /\ phase = "rejected" => Cyclic(types)
    /\ checked => ~Cyclic(types)

(* Three walks compute a type's primitive type: the cached table, the      *)
(* attributes' ResolvePrimitiveType and enrichment's TypeDerivedFrom with  *)
(* its bounded number of steps.  Where there is a table they agree with    *)
(* each other and with the end of the chain, and a type without a          *)
(* primitive type is what makes a dictionary cyclic.                       *)
WalksAgree ==
    once = "done" =>
      /\ outcome.verdict = "table" =>
           \A t \in DOMAIN types :
             LET p == outcome.table[t].primitive
             IN /\ Leads(types, t, p)
                /\ ResolvePrimitiveType(types, t) = p
                /\ TypeDerivedFrom(types, t, p)
      /\ Cyclic(types) <=> \E t \in DOMAIN types : ResolvePrimitiveType(types, t) = NoType

(* Whatever the order of the map and of the callers: one outcome, decided  *)
(* once, right for the dictionary, the same for all, never half built.     *)
Table == INSTANCE TypeTable WITH value <- outcome
ImplementsTypeTable == Table!Spec

(* Every NewPipeline comes back, also from dictionaries that are cyclic.   *)
GetsReturn == \A c \in Caller : c \in inside ~> answer[c] # Undecided
=============================================================================
