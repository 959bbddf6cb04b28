---------------------------- MODULE MCCommandRun ----------------------------
(***************************************************************************)
(* Two input files next to a file that is none and a link; an output tree  *)
(* of an earlier invocation; links to the input directory, past it to a    *)
(* directory inside it and to an earlier output.  Once on a file system    *)
(* that tells cases apart, twice, without links and with them, on one that *)
(* does not.                                                               *)
(***************************************************************************)
EXTENDS CommandRun

Upper == [in |-> "IN", out |-> "OUT", old |-> "OLD", x |-> "X", y |-> "Y", schema |-> "SCHEMA"]

MCName == {"in", "sub", "out", "old", "ln", "past", "spec", "events", "reports", "schema", "note", "x", "y",
           "a.json", "b.json", "event.json", "a.report.json", "b.report.json", "event.report.json",
           "a.report.report.json", "b.report.report.json", "event.report.report.json",
           "IN", "OUT", "OLD", "X", "Y", "SCHEMA"}

MCReportName ==
    [n \in MCName |-> CASE n = "a.json" -> "a.report.json"
                        [] n = "b.json" -> "b.report.json"
                        [] n = "event.json" -> "event.report.json"
                        [] n = "a.report.json" -> "a.report.report.json"
                        [] n = "b.report.json" -> "b.report.report.json"
                        [] n = "event.report.json" -> "event.report.report.json"
                        [] OTHER -> n]

(* Not the reports of reports, which no invocation here meets.             *)
MCJson == {"a.json", "b.json", "event.json", "a.report.json", "b.report.json", "event.report.json"}

MCFold == [n \in MCName |-> IF \E m \in DOMAIN Upper : Upper[m] = n
                            THEN CHOOSE m \in DOMAIN Upper : Upper[m] = n ELSE n]

Foreign(what) == [kind |-> "file", prior |-> what]

Tree == (<<>> :> Dir) @@ (<<"schema">> :> Foreign("schema"))
        @@ (<<"in">> :> Dir) @@ (<<"in", "a.json">> :> Foreign("a"))
        @@ (<<"in", "note">> :> Foreign("note"))
        @@ (<<"old">> :> Dir) @@ (<<"old", "events">> :> Dir)
        @@ (<<"old", "events", "a.json">> :> Foreign("event"))
        @@ (<<"old", "events", "schema">> :> Foreign("schema"))
        @@ (<<"x">> :> Foreign("x"))

Flat == <<"in", "b.json">> :> Foreign("b")

Link(to) == [kind |-> "link", to |-> to]

Links == (<<"ln">> :> Link(<<"in">>)) @@ (<<"in", "ln">> :> Link(<<"x">>))

(* A directory inside the input, and links that do not lead through the    *)
(* directories the options name.                                           *)
Deep == (<<"in", "sub">> :> Dir) @@ (<<"in", "sub", "a.json">> :> Foreign("sub"))
        @@ (<<"past">> :> Link(<<"in", "sub">>)) @@ (<<"spec">> :> Link(<<"old", "events", "a.json">>))

Folded == {[folds |-> TRUE, at |-> Tree @@ Links @@ Deep]}

MCDisks ==
    {[folds |-> FALSE, at |-> Tree @@ Flat @@ Links], [folds |-> TRUE, at |-> Tree @@ Flat]} \cup Folded

Command(ev, dir, schema, out, eventOut, reportOut, human, json, does, overwrite, quiet) ==
    [event |-> ev, local |-> <<>>, dir |-> dir, schema |-> schema, outputDir |-> out, eventOutput |-> eventOut,
     reportOutput |-> reportOut, summaryFile |-> human, summaryJSON |-> json,
     mutates |-> does \in {"enrich", "all"}, validates |-> does \in {"validate", "all"},
     failOnErrors |-> does = "all", overwrite |-> overwrite, quiet |-> quiet]

Locally(c) == [c EXCEPT !.local = c.event]

Does == {"enrich", "validate", "all"}

Selectable ==
    {<<"x">>, <<"y">>, <<"in", "a.json">>, <<"in", "x">>, <<"y", "x">>, <<"IN", "a.json">>,
     <<"X">>, <<"OUT">>, <<"out">>, <<"SCHEMA">>, <<"ln", "a.json">>, <<"ln", "x">>, <<"in", "ln">>}

SingleSelections ==
    {Command(ev, None, <<"schema">>, out, eventOut, reportOut, None, None, does, overwrite, FALSE) :
       ev \in {Stdio, <<"in", "a.json">>}, out \in {None},
       eventOut \in Selectable \cup {None, Stdio}, reportOut \in Selectable \cup {Stdio},
       does \in Does, overwrite \in BOOLEAN}
    \cup
    {Command(ev, None, schema, out, None, None, None, None, does, overwrite, FALSE) :
       ev \in {Stdio, <<"in", "a.json">>}, schema \in {<<"schema">>, <<"old", "events", "a.json">>},
       out \in {<<"out">>, <<"old">>, <<"in">>}, does \in Does, overwrite \in BOOLEAN}
    \cup
    {Locally(Command(<<"in", "a.json">>, None, schema, out, None, None, None, None, "all", overwrite, FALSE)) :
       schema \in {<<"schema">>, <<"spec">>}, out \in {<<"out">>, <<"old">>}, overwrite \in BOOLEAN}

(* Trees that overlap, and summaries that clash.                           *)
TreeSelections ==
    {Command(None, dir, schema, out, None, None, human, None, does, overwrite, TRUE) :
       dir \in {<<"in">>, <<"IN">>, <<"ln">>}, schema \in {<<"schema">>, <<"old", "events", "schema">>},
       out \in {<<"out">>, <<"in", "out">>, <<"IN", "out">>, <<"ln", "out">>, <<"old">>, <<"x">>, <<>>},
       human \in {<<"out", "events", "y">>, <<"in", "note">>, <<"x">>},
       does \in Does, overwrite \in BOOLEAN}

SummarySelections ==
    {Command(None, <<"in">>, <<"schema">>, <<"out">>, None, None, human, json, "all", overwrite, quiet) :
       human \in {None, Stdio, <<"y">>, <<"x">>},
       json \in {None, Stdio, <<"X">>, <<"y">>, <<"Y">>, <<"OUT", "events", "a.json">>, <<"SCHEMA">>},
       overwrite \in BOOLEAN, quiet \in BOOLEAN}

(* Outputs that a link or another spelling leads into what is read.        *)
PastSelections ==
    {Command(None, dir, schema, out, None, None, human, None, "enrich", overwrite, TRUE) :
       dir \in {<<"in">>, <<"IN">>}, schema \in {<<"schema">>, <<"spec">>, <<"old", "events", "a.json">>},
       out \in {<<"old">>, <<"OLD">>}, human \in {<<"past", "a.json">>, <<"ln", "sub", "a.json">>},
       overwrite \in BOOLEAN}

DirectorySelections == TreeSelections \cup SummarySelections \cup PastSelections

FoldedSelections ==
    {Command(None, dir, <<"schema">>, <<"out">>, None, None, <<"past", "a.json">>, None, "enrich",
             overwrite, TRUE) : dir \in {<<"in">>, <<"IN">>}, overwrite \in BOOLEAN}

AliasSelections ==
    {Command(None, <<"in">>, <<"schema">>, <<"out">>, None, None, <<"y">>, <<"Y">>, "all", overwrite, TRUE) :
       overwrite \in BOOLEAN}

MCSelections == SingleSelections \cup DirectorySelections
=============================================================================
