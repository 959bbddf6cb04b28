------------------------ MODULE PipelineProperties ------------------------
(***************************************************************************)
(* What ProcessEvent promises of an event, stated over EventPipeline.      *)
(*                                                                         *)
(* Most of these compare the event after a call with the event before it   *)
(* (start keeps it): what the counters say, what the findings say and what  *)
(* a later call would do must all agree with that difference, whatever the *)
(* order in which the dispatchers and validation reached the attributes.   *)
(***************************************************************************)
EXTENDS EventPipeline, FiniteSetsExt

Done == phase = "ready" /\ calls > 0
Resolvable == cls = "resolved"

(* Entries compared without their type caption, which enum work may change *)
(* in an entry that is otherwise left alone.                               *)
Bare(entry)    == [entry EXCEPT !.typ = AbsentV]
BareSeq(s)     == [i \in DOMAIN s |-> Bare(s[i])]
BareObs(o)     == [o EXCEPT !.s = BareSeq(o.s)]
Entries(o)     == IF o.k = "array" THEN o.s ELSE <<>>

IncludesOther(v) == Present(v) /\ \E i \in DOMAIN v.s : v.s[i] = Other

-----------------------------------------------------------------------------
(* The event, the cursor and the context stay of their types.              *)
TypeOK ==
    /\ phase \in {"ready", "class", "walk", "classDone", "eventDone"}
    /\ cfg \in Configs
    /\ pos \in Nat \ {0} /\ ent \in Nat \ {0} /\ turn \in 1 .. Len(Pipe) + 1
    /\ cls \in {"resolved", "missing", "wrongtype", "unknown"}
    /\ active \subseteq Attr
    /\ attr \in [Attr -> Value] /\ start.attr \in [Attr -> Value]
    /\ DOMAIN obs = {"k", "s"} /\ obs.k \in {"absent", "null", "other", "array"}
    /\ calls \in 0 .. MaxCalls

(* Source data survives every pipeline (TOOLKIT-ENRICH-001, and the rule   *)
(* for enum id 99 in enrichment_removal.go).  An attribute that is nobody's *)
(* sibling never changes.  A sibling with a value is never rewritten, and  *)
(* it disappears only if enum removal is configured, its enum owns an      *)
(* active pair, and no element of that enum is 99.                         *)
SourceDataKept ==
    \A a \in Attr :
      \/ attr[a] = start.attr[a]
      \/ \E e \in EnumAttr :
           /\ Sibling[e] = a
           /\ \/ ~Present(start.attr[a])
              \/ /\ attr[a] = AbsentV
                 /\ cfg.enum \in {"remove", "force"}
                 /\ PairOwner(e)
                 /\ ~IncludesOther(start.attr[e])

(* Enum work is complete before the first entry of observables goes or     *)
(* comes (TOOLKIT-ORDER-001, deferral in NewPipeline): afterwards the same *)
(* call changes no attribute, and its walk no entry's type caption.        *)
EnumWorkFirst ==
    [][ phase # "ready" /\ BareObs(obs) # BareObs(start.obs)
        => attr' = attr /\ (phase = "walk" => obs' = obs) ]_vars

-----------------------------------------------------------------------------
(* Safe removal takes exactly the entries the final event can rebuild      *)
(* (removeObservablesSafely runs after the enum work of the same call): the *)
(* others stay, in order, and the counters account for all of them.        *)
SafeRemovalExact ==
    Done /\ Resolvable /\ cfg.obs = "remove" =>
      LET old  == Entries(start.obs)
          kept == Selected(old, {i \in DOMAIN old : ~Removable(old[i], attr, active)})
      IN  /\ BareSeq(Entries(obs)) = BareSeq(kept)
          /\ obs.k \in {"absent", "other"} \/ Len(obs.s) > 0
          /\ start.obs.k # "other" =>
               res.obsRemoved + res.obsRetained = Len(Entries(start.obs))

(* Validation skips the suffix that was generated in the same call         *)
(* (LimitEntries): it must report what analysing every entry of the final  *)
(* array would have reported, no more and no less.                         *)
TrustedSuffixSound ==
    Done /\ Resolvable /\ cfg.validate =>
      {f \in findings : f.stage = "done"} =
      {Finding(Observables, "done", i, Problem(obs.s[i], attr, active)) :
          i \in {j \in DOMAIN obs.s : Problem(obs.s[j], attr, active) \in NonStructural}}

(* Generation appends: the caller's entries keep their places, and nothing *)
(* generated repeats an earlier entry, type captions apart                 *)
(* (DeduplicateGenerated, Append).                                         *)
GeneratedAppended ==
    Done /\ Resolvable /\ cfg.obs = "add" =>
      LET old == Entries(start.obs)  new == Entries(obs)
      IN  /\ BareSeq(SubSeq(new, 1, Len(old))) = BareSeq(old)
          /\ Len(new) - Len(old) = res.obsAdded
          /\ \A i \in Len(old) + 1 .. Len(new), j \in 1 .. Len(new) :
               j < i => Bare(new[j]) # Bare(new[i])

-----------------------------------------------------------------------------
(* Processing an event again with the same pipeline changes nothing.       *)
Idempotent ==
    Done /\ calls = 2 /\ first.cfg = cfg =>
      attr = start.attr /\ obs = start.obs

(* Safe removal undoes enrichment (docs/enrichment-removal.md): after add  *)
(* and remove every sibling that had no value has none again, unless its   *)
(* enum includes 99.                                                       *)
RoundTrip ==
    Done /\ calls = 2 /\ Resolvable /\ first.cfg.enum = "add" /\ cfg.enum = "remove" =>
      \A e \in Resolved :
        PairOwner(e) /\ ~Present(first.attr[Sibling[e]]) =>
          ~Present(attr[Sibling[e]]) \/ IncludesOther(attr[e])

(* Adding and then removing observables alone leaves only entries that the *)
(* caller supplied.                                                        *)
ObservablesRoundTrip ==
    Done /\ calls = 2 /\ Resolvable
    /\ <<first.cfg.enum, first.cfg.obs>> = <<"none", "add">>
    /\ <<cfg.enum, cfg.obs>> = <<"none", "remove">> =>
      Range(Entries(obs)) \subseteq Range(Entries(first.obs))

-----------------------------------------------------------------------------
(* The counters describe the event (docs/event-processing.md: counts       *)
(* describe actual mutations and retained content).  Pairs of the class    *)
(* and of the entries count alike; entries that the same call deletes are  *)
(* left out by looking only at calls that delete none.                     *)
SiblingSlots == {<<"attr", Sibling[e]>> : e \in EnumAttr}
                \cup {<<"entry", i>> : i \in DOMAIN Entries(start.obs)}
SlotBefore(x) == IF x[1] = "attr" THEN start.attr[x[2]] ELSE start.obs.s[x[2]].typ
SlotAfter(x)  == IF x[1] = "attr" THEN attr[x[2]] ELSE obs.s[x[2]].typ

CountersMatch ==
    Done /\ Resolvable /\ cfg.obs \in {"none", "add"} =>
      /\ res.added = Cardinality({x \in SiblingSlots :
                        ~Present(SlotBefore(x)) /\ Present(SlotAfter(x))})
      /\ res.removed = Cardinality({x \in SiblingSlots :
                        SlotBefore(x).k # "absent" /\ SlotAfter(x).k = "absent"})
      /\ res.retained <= Cardinality({x \in SiblingSlots : Present(SlotAfter(x))})

(* No request fails without a trace: a pair that enum removal had to leave *)
(* with a sibling, 99 apart, and one that addition had to leave without,   *)
(* raised an issue or a suppressed issue of its own.                       *)
Unexplained ==
    {e \in Resolved : PairOwner(e) /\
        IF cfg.enum = "add"
        THEN /\ attr[e].k = (IF e \in ArrayAttr THEN "array" ELSE "scalar")
             /\ ~Present(attr[Sibling[e]])
        ELSE Present(attr[Sibling[e]]) /\ ~IncludesOther(attr[e])}

NothingSilent ==
    Done /\ Resolvable /\ cfg.enum # "none" /\ cfg.obs = "none" =>
      /\ res.issues + res.suppressed >= Cardinality(Unexplained)
      /\ cfg.suppress => res.issues = 0

(* What validation reported of the class's pairs is what it would report   *)
(* of the final event: no mutation follows the visit of a pair.            *)
PairFindingsCurrent ==
    Done /\ Resolvable /\ cfg.validate =>
      \A e \in Attr :
        {<<f.code, f.i>> : f \in {g \in findings : g.at = e}} =
        IF PairOwner(e) THEN PairFindings(e \in ArrayAttr, attr[e], attr[Sibling[e]]) ELSE {}

(* Every call returns.                                                     *)
ProcessingEnds == (phase # "ready") ~> (phase = "ready")

-----------------------------------------------------------------------------
(* A statement of the documentation the code does not keep.                *)

(* TOOLKIT-ORDER-001: "every mutating operation completes before           *)
(* validation.  Validation therefore observes the final event state".  A   *)
(* finding of the walk located at observables[i] must then hold of entry i *)
(* of the array the caller gets back.                                      *)
FindingsNameFinalEntries ==
    Done /\ Resolvable =>
      \A f \in findings :
        f.at = Observables /\ f.stage = "walk" /\ f.i > 0 =>
          f.i \in DOMAIN obs.s /\ f.code \in EntryFindings(obs.s[f.i])
=============================================================================
