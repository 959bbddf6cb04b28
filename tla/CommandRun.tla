----------------------------- MODULE CommandRun -----------------------------
(***************************************************************************)
(* One invocation of ocsf-toolkit (runProcessCommand): preflight, the      *)
(* pipeline, then one event or every .json file of a directory tree, each  *)
(* read, processed and written before the next, then the summaries.  The   *)
(* invocation stops at the first event that fails and leaves what it has   *)
(* written.  A write is one step here and may fail; OutputWriter has its   *)
(* system calls.  The walk takes the files of the tree in any order; the   *)
(* code's lexical order is one of them.                                    *)
(***************************************************************************)
EXTENDS CommandLayout

CONSTANTS
    Selections,  \* option values of an invocation
    Disks        \* file systems it may find

Dir == [kind |-> "dir"]

(* What a file holds: the output of an event, or the counters it reports,  *)
(* as text for people or as JSON.                                          *)
EventFile(rel) == [kind |-> "file", event |-> rel]
ReportFile(rel) == [kind |-> "file", report |-> rel]
SummaryText(counters) == [kind |-> "file", text |-> counters]
SummaryReport(counters) == [kind |-> "file", json |-> counters]

VARIABLES
    config,   \* processConfig
    before,   \* the file system when the invocation began
    disk,     \* the file system now
    printed,  \* what went to standard output
    phase,    \* where runProcessCommand is
    event,    \* fileSummary of the event being processed
    visited,  \* locations of the files the walk has been to
    summary,  \* processSummary
    writing,  \* how many summaries have been written
    exit      \* exit code

vars == <<config, before, disk, printed, phase, event, visited, summary, writing, exit>>

NoEvent == [rel |-> None, errors |-> FALSE, warnings |-> FALSE,
            eventWritten |-> FALSE, reportWritten |-> FALSE]

(* parse and processing count failures; both, errors, warnings and neither *)
(* are the events by their findings.                                       *)
Counter == {"processed", "parse", "processing", "both", "errors", "warnings", "neither",
            "eventsWritten", "reportsWritten", "eventFailures", "reportFailures"}

Option == Seq(Name) \cup {None, Stdio}

(* The options of an invocation.  An event is named by a path that has a   *)
(* last name; local is how it was typed if that was below the working      *)
(* directory.                                                              *)
Selection ==
    [event : Option \ {<<>>}, local : Seq(Name), dir : Option, schema : Seq(Name), outputDir : Option,
     eventOutput : Option, reportOutput : Option, summaryFile : Option, summaryJSON : Option,
     mutates : BOOLEAN, validates : BOOLEAN, failOnErrors : BOOLEAN, overwrite : BOOLEAN,
     quiet : BOOLEAN]

ASSUME RunAssumption ==
    /\ None \notin Counter /\ None \notin {0, 1, 2}
    /\ Selections \subseteq Selection
    /\ \A c \in Selections : c.local # <<>> => c.event \in Seq(Name) /\ IsSuffix(c.local, c.event)
    /\ \A fs \in Disks : FileSystem(fs)

Init ==
    /\ config \in Selections
    /\ disk \in Disks /\ before = disk
    /\ printed = {} /\ phase = "options"
    /\ event = NoEvent /\ visited = {}
    /\ summary = [k \in Counter |-> 0]
    /\ writing = 0 /\ exit = None

Exit(code) == phase' = "ended" /\ exit' = code
Go(to) == phase' = to /\ UNCHANGED exit

-----------------------------------------------------------------------------
(* Before the first event.                                                 *)

Options ==
    /\ phase = "options"
    /\ IF Accepted(config) THEN Go("preflight") ELSE Exit(2)
    /\ UNCHANGED <<config, before, disk, printed, event, visited, summary, writing>>

CheckDestinations ==
    /\ phase = "preflight"
    /\ IF Preflight(config, disk) THEN Go("pipeline") ELSE Exit(1)
    /\ UNCHANGED <<config, before, disk, printed, event, visited, summary, writing>>

(* The schema cannot be loaded; or it does not fit the options.            *)
NewPipeline ==
    /\ phase = "pipeline"
    /\ Go("next") \/ Exit(1) \/ Exit(2)
    /\ UNCHANGED <<config, before, disk, printed, event, visited, summary, writing>>

-----------------------------------------------------------------------------
(* Events.                                                                 *)

(* The .json files beneath the input directory, by their relative path.    *)
InputFiles(c, fs) ==
    LET root == Located(fs, c.dir)
    IN {SubSeq(l, Len(root) + 1, Len(l)) :
          l \in {m \in DOMAIN fs.at :
                   IsStrictPrefix(root, m) /\ Kind(fs, m) = "file" /\ Last(m) \in Json}}

Rels(c, fs) == IF Single(c) THEN {SingleRel(c)} ELSE InputFiles(c, fs)

Take ==
    /\ phase = "next"
    /\ \E rel \in Rels(config, disk) \ visited :
         event' = [NoEvent EXCEPT !.rel = rel] /\ visited' = visited \cup {rel}
    /\ Go("read")
    /\ UNCHANGED <<config, before, disk, printed, summary, writing>>

WalkFails ==
    /\ phase = "next" /\ ~Single(config)
    /\ Exit(1)
    /\ UNCHANGED <<config, before, disk, printed, event, visited, summary, writing>>

NoMore ==
    /\ phase = "next" /\ Rels(config, disk) \subseteq visited
    /\ Go("summaries")
    /\ UNCHANGED <<config, before, disk, printed, event, visited, summary, writing>>

(* updateSummary for an event that was not processed.                      *)
ReadFails ==
    /\ phase = "read"
    /\ \E k \in {"parse", "processing"} : summary' = [summary EXCEPT ![k] = @ + 1]
    /\ Exit(1)
    /\ UNCHANGED <<config, before, disk, printed, event, visited, writing>>

Process ==
    /\ phase = "read"
    /\ \E errors, warnings \in IF config.validates THEN BOOLEAN ELSE {FALSE} :
         event' = [event EXCEPT !.errors = errors, !.warnings = warnings]
    /\ Go("event")
    /\ UNCHANGED <<config, before, disk, printed, visited, summary, writing>>

(* updateSummary for an event that was processed.                          *)
Category(e) ==
    IF e.errors THEN IF e.warnings THEN "both" ELSE "errors"
    ELSE IF e.warnings THEN "warnings" ELSE "neither"

(* Slip: an event whose output failed is not counted.                      *)
AccountWritten(e, failure) ==
    summary' = [k \in Counter |->
                  IF \/ k \in {"processed", Category(e)} /\ failure = None
                     \/ k = "eventsWritten" /\ e.eventWritten
                     \/ k = "reportsWritten"
                     \/ k = failure
                  THEN summary[k] + 1 ELSE summary[k]]

Account(e, failure) ==
    summary' = [k \in Counter |->
                  IF \/ k \in {"processed", Category(e)}
                     \/ k = "eventsWritten" /\ e.eventWritten
                     \/ k = "reportsWritten" /\ e.reportWritten
                     \/ k = failure
                  THEN summary[k] + 1 ELSE summary[k]]

-----------------------------------------------------------------------------
(* Writing: writeJSON and writeText.                                       *)

(* The directories above p, made by MkdirAll.                              *)
Parents(fs, p) == {Located(fs, a) : a \in Ancestors(Front(p))}

Directories(fs, p) ==
    [fs EXCEPT !.at = [l \in DOMAIN fs.at \cup Parents(fs, p) |->
                         IF l \in DOMAIN fs.at THEN fs.at[l] ELSE Dir]]

MayWrite(c, fs, p) ==
    /\ \A l \in Parents(fs, p) : Kind(fs, l) \in {"none", "dir"}
    /\ Kind(fs, Entry(fs, p)) # "dir"
    /\ c.overwrite \/ Kind(fs, Entry(fs, p)) = "none"

Write(p, file) ==
    IF p = Stdio
    THEN printed' = printed \cup {file} /\ UNCHANGED disk
    ELSE /\ MayWrite(config, disk, p)
         /\ LET fs == Directories(disk, p)
                e == Entry(disk, p)  \* new directories lead nowhere else
            IN disk' = [fs EXCEPT !.at = [l \in DOMAIN fs.at \cup {e} |->
                                            IF l = e THEN file ELSE fs.at[l]]]
         /\ UNCHANGED printed

(* Any write may fail, before or after directories were made.              *)
WriteFails(p) ==
    /\ \/ UNCHANGED disk
       \/ p # Stdio /\ (\A l \in Parents(disk, p) : Kind(disk, l) \in {"none", "dir"})
                    /\ disk' = Directories(disk, p)
    /\ UNCHANGED printed

EventPath == EventOutputPath(config, event.rel)
ReportPath == ReportOutputPath(config, event.rel)

WriteEvent ==
    /\ phase = "event" /\ config.mutates
    /\ Write(EventPath, EventFile(event.rel))
    /\ event' = [event EXCEPT !.eventWritten = TRUE]
    /\ Go("report")
    /\ UNCHANGED <<config, before, visited, summary, writing>>

SkipEvent ==
    /\ phase = "event" /\ ~config.mutates
    /\ Go("report")
    /\ UNCHANGED <<config, before, disk, printed, event, visited, summary, writing>>

(* Slip: the code is decided, and the report is still written.             *)
EventFailureGoesOn ==
    /\ phase = "event" /\ config.mutates
    /\ WriteFails(EventPath)
    /\ Account(event, "eventFailures")
    /\ phase' = "report" /\ exit' = 1
    /\ UNCHANGED <<config, before, event, visited, writing>>

EventWriteFails ==
    /\ phase = "event" /\ config.mutates
    /\ WriteFails(EventPath)
    /\ Account(event, "eventFailures")
    /\ Exit(1)
    /\ UNCHANGED <<config, before, event, visited, writing>>

(* Two files chosen explicitly are compared again after the first is       *)
(* written; the resolved forms are those of the preflight.                 *)
NamesSameFile ==
    /\ {config.eventOutput, config.reportOutput} \cap {None, Stdio} = {}
    /\ SameFilesystemPath(disk, FilesystemPath(before, config.eventOutput),
                                FilesystemPath(before, config.reportOutput))

(* Slip: the comparison before the report is left out.                     *)
WriteReportAnyway ==
    /\ phase = "report"
    /\ Write(ReportPath, ReportFile(event.rel))
    /\ LET done == [event EXCEPT !.reportWritten = TRUE]
       IN event' = done /\ Account(done, None)
    /\ Go("next")
    /\ UNCHANGED <<config, before, visited, writing>>

WriteReport ==
    /\ phase = "report" /\ ~NamesSameFile
    /\ Write(ReportPath, ReportFile(event.rel))
    /\ LET done == [event EXCEPT !.reportWritten = TRUE]
       IN event' = done /\ Account(done, None)
    /\ Go("next")
    /\ UNCHANGED <<config, before, visited, writing>>

ReportWriteFails ==
    /\ phase = "report"
    /\ IF NamesSameFile THEN UNCHANGED <<disk, printed>> ELSE WriteFails(ReportPath)
    /\ Account(event, "reportFailures")
    /\ Exit(1)
    /\ UNCHANGED <<config, before, event, visited, writing>>

-----------------------------------------------------------------------------
(* After the last event.                                                   *)

NextSummary == SummaryDestinations(config)[writing + 1]

Rendered(p, counters) ==
    IF p = config.summaryJSON THEN SummaryReport(counters) ELSE SummaryText(counters)

WriteSummary ==
    /\ phase = "summaries" /\ writing < Len(SummaryDestinations(config))
    /\ Write(NextSummary, Rendered(NextSummary, summary))
    /\ writing' = writing + 1
    /\ UNCHANGED <<config, before, phase, event, visited, summary, exit>>

SummaryFails ==
    /\ phase = "summaries" /\ writing < Len(SummaryDestinations(config))
    /\ WriteFails(NextSummary)
    /\ Exit(1)
    /\ UNCHANGED <<config, before, event, visited, summary, writing>>

(* Slip: events with warnings as well are forgotten.                       *)
FinishOnErrorsOnly ==
    /\ phase = "summaries" /\ writing = Len(SummaryDestinations(config))
    /\ Exit(IF config.failOnErrors /\ summary["errors"] > 0 THEN 1 ELSE 0)
    /\ UNCHANGED <<config, before, disk, printed, event, visited, summary, writing>>

Finish ==
    /\ phase = "summaries" /\ writing = Len(SummaryDestinations(config))
    /\ Exit(IF config.failOnErrors /\ summary["errors"] + summary["both"] > 0 THEN 1 ELSE 0)
    /\ UNCHANGED <<config, before, disk, printed, event, visited, summary, writing>>

-----------------------------------------------------------------------------
Next ==
    \/ Options \/ CheckDestinations \/ NewPipeline
    \/ Take \/ WalkFails \/ NoMore
    \/ ReadFails \/ Process
    \/ WriteEvent \/ SkipEvent \/ EventWriteFails
    \/ WriteReport \/ ReportWriteFails
    \/ WriteSummary \/ SummaryFails \/ Finish

Spec == Init /\ [][Next]_vars

-----------------------------------------------------------------------------
(* The variables keep their types.                                         *)
TypeOK ==
    /\ phase \in {"options", "preflight", "pipeline", "next", "read", "event", "report",
                  "summaries", "ended"}
    /\ exit \in IF phase = "ended" THEN {0, 1, 2} ELSE {None}
    /\ summary \in [Counter -> Nat]
    /\ writing \in Nat
    /\ DOMAIN event = DOMAIN NoEvent
    /\ \A flag \in DOMAIN NoEvent \ {"rel"} : event[flag] \in BOOLEAN
    /\ disk.folds = before.folds

-----------------------------------------------------------------------------
(* A path holds what is where it led when the invocation began, which is   *)
(* where it wrote: a write may replace a link on its own way.              *)
Holding(p, file) ==
    IF p = Stdio THEN file \in printed
    ELSE Entry(before, p) \in DOMAIN disk.at /\ disk.at[Entry(before, p)] = file

(* Locations of what the invocation reads: the walk follows no link.       *)
Read(l) ==
    \/ \E p \in Sources(config) : l = Located(before, p)
    \/ ~Single(config) /\ IsPrefix(Located(before, config.dir), l) /\ Kind(before, l) # "link"

(* Locations the options select for output.                                *)
Written(l) ==
    \/ \E p \in Destinations(config) : l = Entry(before, p)
    \/ ~Single(config) /\ \E name \in {"events", "reports"} :
         IsPrefix(Stored(before, Append(Located(before, config.outputDir), name)), l)

(* Paths the options name, and the namespaces of the output directory.     *)
Selected ==
    Sources(config) \cup Destinations(config) \cup ({config.dir, config.outputDir} \ {None})
    \cup {Append(config.outputDir, name) : name \in IF Given(config.outputDir)
                                                    THEN {"events", "reports"} ELSE {}}

(* The preflight compares the text of resolved paths, in the case in which *)
(* they were typed, and files found above a path as typed.  Where cases    *)
(* are folded neither shows that one selection is inside another when a    *)
(* link leads past the place where they meet and either is spelled         *)
(* otherwise than on disk.                                                 *)
Unseen ==
    /\ before.folds
    /\ \E p \in Selected : \E a \in Ancestors(p) : Kind(before, Entry(before, a)) = "link"
    /\ \E p \in Selected : Resolved(before, p) # Located(before, p)

(* What was there is replaced only with --overwrite and only where an      *)
(* output was selected, and an input event or the schema not even then,    *)
(* under whatever names, unless links and spellings combine.               *)
PriorKept ==
    \A l \in DOMAIN before.at :
      /\ l \in DOMAIN disk.at
      /\ disk.at[l] # before.at[l] =>
           /\ config.overwrite /\ before.at[l].kind # "dir" /\ Written(l)
           /\ Read(l) => Unseen

(* "Input event files are never modified" (architecture.md:125).           *)
InputsKept ==
    \A l \in DOMAIN before.at :
      /\ before.at[l].kind = "file"
      /\ IF Single(config) THEN config.event # Stdio /\ l = Located(before, config.event)
         ELSE Given(config.dir) /\ IsPrefix(Located(before, config.dir), l)
      => l \in DOMAIN disk.at /\ disk.at[l] = before.at[l]

(* Outputs of one invocation that differ in spelling only, none of which   *)
(* existed for the preflight to compare.                                   *)
Planned ==
    Range(SummaryDestinations(config)) \cup
    {EventOutputPath(config, rel) : rel \in Rels(config, before)} \cup
    {ReportOutputPath(config, rel) : rel \in Rels(config, before)}

Clash == \E p, q \in Planned \ {Stdio} : p # q /\ Entry(before, p) = Entry(before, q)

(* What has been reported as written, the event in hand included, is there.*)
OutputsThere ==
    /\ \A rel \in visited :
         /\ config.mutates /\ (rel = event.rel => event.eventWritten) =>
              Holding(EventOutputPath(config, rel), EventFile(rel))
         /\ (rel = event.rel => event.reportWritten) =>
              Holding(ReportOutputPath(config, rel), ReportFile(rel))
    /\ \A i \in 1 .. writing :
         LET p == SummaryDestinations(config)[i] IN Holding(p, Rendered(p, summary))

(* A written event is never lost to its report nor any output to another:  *)
(* not for one event, whatever the aliases (layout.go:449-457, process.go: *)
(* 281-291), and not in a directory, unless --overwrite meets a clash or   *)
(* an overlap that the preflight could not see.                            *)
OutputsKept == Single(config) \/ ~config.overwrite \/ (~Clash /\ ~Unseen) => OutputsThere

(* resolveDistinctDestination says of an alias it cannot see that "the     *)
(* write itself fails with an ordinary error".                             *)
AliasesFail == Accepted(config) /\ Preflight(config, before) => OutputsThere

(* The counters agree with each other and with the events that were taken. *)
CountersAgree ==
    LET failures == summary["parse"] + summary["processing"]
                    + summary["eventFailures"] + summary["reportFailures"]
        inHand == IF phase \in {"read", "event", "report"} THEN 1 ELSE 0
        processed == summary["processed"]
    IN /\ processed + summary["parse"] + summary["processing"] + inHand = Cardinality(visited)
       /\ summary["both"] + summary["errors"] + summary["warnings"] + summary["neither"] = processed
       /\ summary["eventsWritten"] + summary["eventFailures"] = IF config.mutates THEN processed ELSE 0
       /\ summary["reportsWritten"] + summary["reportFailures"] + summary["eventFailures"] = processed
       /\ failures <= IF phase = "ended" THEN 1 ELSE 0

(* Every input event was taken and nothing else.  An output tree that the  *)
(* preflight did not see in the input is read as well.                     *)
AllTaken == Unseen \/ visited = Rels(config, before)

(* They do, and a summary exists only of a run that processed and wrote    *)
(* every event.                                                            *)
SummaryTrue ==
    /\ CountersAgree
    /\ writing > 0 => AllTaken /\ summary["reportsWritten"] = Cardinality(visited)

(* A usage error touches nothing.                                          *)
UsageUntouched == exit = 2 => disk = before /\ printed = {}

(* Code 0 promises every output of every event and every summary, and no   *)
(* validation error if those were to fail the invocation; code 2 that      *)
(* nothing was touched.                                                    *)
ExitTruthful ==
    /\ exit = 0 =>
         /\ AllTaken /\ Accepted(config) /\ Preflight(config, before)
         /\ summary["reportsWritten"] = Cardinality(visited)
         /\ writing = Len(SummaryDestinations(config))
         /\ config.failOnErrors => Cardinality(visited) = summary["warnings"] + summary["neither"]
    /\ UsageUntouched
=============================================================================
