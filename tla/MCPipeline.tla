----------------------------- MODULE MCPipeline -----------------------------
(***************************************************************************)
(* Instances of EventPipeline for TLC.  One class with a scalar and an     *)
(* array enum pair, an enum whose sibling the schema cache refused, a      *)
(* plain array and an object; all but the enums may yield observables.     *)
(* The scalar pair sorts after observables and the array pair before it.   *)
(*                                                                         *)
(* Events are enumerated around a base event: each family varies the part  *)
(* its run is about over every value that takes a different branch.        *)
(***************************************************************************)
EXTENDS PipelineProperties

MCIntegral == {"id1", "id2", "id3", "id99"}        \* id2 is not defined
MCStr      == {"", "Info", "Other", "raw", "1", "2", "3", "99"}
MCScalar   == MCIntegral \cup MCStr \cup {"object", "nullitem"}
MCCaption  == [id1 |-> "Info", id99 |-> "Other", id3 |-> ""]
MCText     == [x \in MCStr \cup MCIntegral |->
                 CASE x = "id1" -> "1" [] x = "id2" -> "2" [] x = "id3" -> "3"
                   [] x = "id99" -> "99" [] OTHER -> x]

MCAttr      == {"act_ids", "acts", "dev", "ips", "raw", "raw_id", "sev", "sev_id"}
MCArrayAttr == {"act_ids", "acts", "ips"}
MCEnumAttr  == {"act_ids", "raw_id", "sev_id"}
MCSibling   == [act_ids |-> "acts", raw_id |-> "raw", sev_id |-> "sev"]
MCResolved  == {"act_ids", "sev_id"}
MCTypeIdOf  == [acts |-> "id1", dev |-> "id99", ips |-> "id2", sev |-> "id1", raw |-> "id2"]
MCOrder     == <<"act_ids", "acts", "dev", "ips", "observables", "raw", "raw_id", "sev", "sev_id">>

AllAbsent == [a \in MCAttr |-> AbsentV]

Cfg(e, o, v, s, x) == [enum |-> e, obs |-> o, validate |-> v, suppress |-> s, indexed |-> x]
Ev(act, at, ob)    == [cls |-> "resolved", active |-> act, attr |-> at, obs |-> ob]

(* An entry that names attribute a and says its value is v.                *)
At(a, i, v) == [map |-> TRUE, name |-> "path", a |-> a, i |-> i,
                tid |-> ScalarV("id1"), typ |-> AbsentV, val |-> v]

-----------------------------------------------------------------------------
(* Run "pairs": every branch of the scalar and of the array pair, with the *)
(* schema's three ways of activating them.                                 *)

ScalarEnums == {AbsentV, NullV, ArrayV(<<"id1">>)} \cup
               {ScalarV(x) : x \in {"id1", "id2", "id3", "id99", "raw"}}
ScalarSibs  == {AbsentV, NullV, ScalarV("id1"), ArrayV(<<"Info">>)} \cup
               {ScalarV(x) : x \in {"", "Info", "Other"}}
ArrayEnums  == {AbsentV, ScalarV("id1")} \cup
               {ArrayV(s) : s \in {<<>>, <<"id1">>, <<"id1", "id2">>, <<"id99", "id1">>,
                                   <<"raw", "id99">>, <<"id1", "id1">>}}
ArraySibs   == {AbsentV, NullV, ScalarV("Info")} \cup
               {ArrayV(s) : s \in {<<>>, <<"Info">>, <<"Info", "Info">>,
                                   <<"nullitem", "Info">>, <<"Other", "raw">>}}

BothActive == {MCAttr, MCAttr \ {"sev", "acts"}, MCAttr \ {"sev_id", "act_ids"}}

TypeEntry(t, c) == [At("dev", 0, AbsentV) EXCEPT !.tid = t, !.typ = c]

PairEvents ==
    LET base == [AllAbsent EXCEPT !["dev"] = ScalarV("object")]
    IN  {Ev(act, [base EXCEPT !["sev_id"] = e, !["sev"] = s], NoObs) :
            act \in BothActive, e \in ScalarEnums, s \in ScalarSibs}
        \cup
        {Ev(act, [base EXCEPT !["act_ids"] = e, !["acts"] = s], NoObs) :
            act \in BothActive, e \in ArrayEnums, s \in ArraySibs}
        \cup
        {Ev(MCAttr, [base EXCEPT !["raw_id"] = e, !["raw"] = s], NoObs) :
            e \in {AbsentV, ScalarV("id1"), ScalarV("id99")}, s \in ScalarSibs}
        \cup
        {Ev(MCAttr, [base EXCEPT !["sev_id"] = e, !["sev"] = s, !["act_ids"] = ArrayV(<<"id1">>)],
            ObsArray(<<TypeEntry(ScalarV("id99"), t), TypeEntry(e, s)>>)) :
            e \in ScalarEnums, s \in ScalarSibs, t \in {AbsentV, ScalarV("Other")}}
        \cup
        {[cls |-> c, active |-> MCAttr, attr |-> [base EXCEPT !["sev_id"] = ScalarV("id1")],
          obs |-> NoObs] : c \in {"missing", "wrongtype", "unknown"}}

PairConfigs == {Cfg(e, "none", TRUE, s, TRUE) : e \in {"add", "remove", "force"}, s \in BOOLEAN}
               \cup {Cfg("none", "none", TRUE, FALSE, TRUE), Cfg("add", "add", TRUE, FALSE, TRUE)}

-----------------------------------------------------------------------------
(* Run "observables": entries with every problem analyzeEntry knows, and   *)
(* entries that several attributes can or cannot justify, next to each     *)
(* other and to what the event generates.                                  *)

GoodEntries ==
    {At("ips", 0, ScalarV("raw")), At("ips", 1, ScalarV("raw")), At("ips", 2, ScalarV("1")),
     At("sev", 0, ScalarV("Info")), At("acts", 1, ScalarV("Info")), At("acts", 0, NullV),
     At("dev", 0, AbsentV), At("dev", 0, NullV), At("raw", 0, ScalarV("raw")),
     [At("ips", 0, ScalarV("raw")) EXCEPT !.tid = ScalarV("id2")],
     [At("ips", 1, ScalarV("raw")) EXCEPT !.tid = ScalarV("id2"), !.typ = ScalarV("raw")],
     [At("sev", 0, ScalarV("Info")) EXCEPT !.typ = ScalarV("Info")],
     [At("sev_id", 0, ScalarV("1")) EXCEPT !.tid = ScalarV("id99"), !.typ = ScalarV("Info")],
     [At("dev", 0, AbsentV) EXCEPT !.tid = ScalarV("id99"), !.typ = NullV]}

BadEntries ==
    {[At("dev", 0, AbsentV) EXCEPT !.map = FALSE],
     At("dev", 0, ScalarV("raw")), At("ips", 0, AbsentV), At("sev", 1, ScalarV("Info")),
     At("ips", 0, ScalarV("id1")), At("ips", 3, NullV), At("acts", 2, ScalarV("Other"))}
    \cup {[At("ips", 0, ScalarV("raw")) EXCEPT !.name = n] : n \in NameKind \ {"path"}}

ObsVariants ==
    {NoObs, [k |-> "null", s |-> <<>>], [k |-> "other", s |-> <<>>], ObsArray(<<>>)}
    \cup {ObsArray(<<e>>) : e \in GoodEntries \cup BadEntries}
    \cup {ObsArray(<<e, f>>) : e \in GoodEntries,
            f \in {At("dev", 0, ScalarV("raw")), At("sev", 0, ScalarV("Info")), At("ips", 1, ScalarV("raw"))}}
    \cup {ObsArray(<<e, At("sev", 0, ScalarV("Info")), e>>) : e \in BadEntries}

ObsAttrs ==
    LET base == [AllAbsent EXCEPT !["dev"] = ScalarV("object"), !["sev_id"] = ScalarV("id1")]
    IN  {[base EXCEPT !["ips"] = ArrayV(<<"raw", "id1">>), !["sev"] = ScalarV("Info")],
         [base EXCEPT !["ips"] = ArrayV(<<"raw", "raw", "object">>), !["act_ids"] = ArrayV(<<"id1">>)],
         [base EXCEPT !["ips"] = ScalarV("raw"), !["dev"] = NullV, !["acts"] = ArrayV(<<"Info", "nullitem">>),
                      !["act_ids"] = ArrayV(<<"id1", "id99">>)],
         [base EXCEPT !["dev"] = ArrayV(<<"object">>), !["sev"] = NullV, !["acts"] = NullV]}

ObsEvents == {Ev(MCAttr, at, ob) : at \in ObsAttrs, ob \in ObsVariants}
             \cup {Ev(MCAttr \ {"sev"}, at, ob) : at \in ObsAttrs,
                     ob \in {o \in ObsVariants : Len(o.s) < 2}}

ObsConfigs ==
    {Cfg(e, o, TRUE, FALSE, TRUE) : e \in Action, o \in Action}
    \cup {Cfg(e, "add", TRUE, FALSE, FALSE) : e \in Action}
    \cup {Cfg("none", "remove", FALSE, TRUE, TRUE), Cfg("none", "force", FALSE, TRUE, TRUE)}

(* Run "twice": a smaller family of the same events, through any two       *)
(* pipelines one after the other.                                          *)
TwiceEvents ==
    {Ev(act, at, ob) : act \in {MCAttr, MCAttr \ {"sev"}}, at \in ObsAttrs,
        ob \in {NoObs, ObsArray(<<>>), [k |-> "other", s |-> <<>>]}
               \cup {ObsArray(<<At("dev", 0, ScalarV("raw")), e>>) : e \in GoodEntries}}

TwiceConfigs == {c \in ObsConfigs : c.indexed /\ ~c.suppress}
=============================================================================
