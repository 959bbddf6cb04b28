--------------------------- MODULE CommandLayout ---------------------------
(***************************************************************************)
(* Where an invocation reads and writes, and which selections it refuses   *)
(* before it writes anything.  A path is the sequence of names from the    *)
(* root that was typed; where it leads depends on the symbolic links and   *)
(* on whether the file system tells upper from lower case:                 *)
(*   fs.folds  whether names differ only in case name the same file,       *)
(*   fs.at     what is at each location, a sequence of stored names.       *)
(***************************************************************************)
EXTENDS Naturals, SequencesExt

CONSTANTS
    Name,        \* names of files and directories
    Fold,        \* the name that stands for all that differ in case only
    ReportName,  \* a.json -> a.report.json
    Json,        \* names that end in .json
    StdinName,   \* event.json, for an event from standard input
    Stdio,       \* "-"
    None         \* an option that is not given

ASSUME LayoutAssumption ==
    /\ {"events", "reports", StdinName} \cup Json \subseteq Name
    /\ Fold \in [Name -> Name] /\ ReportName \in [Name -> Name]
    /\ \A n \in Name : Fold[Fold[n]] = Fold[n]
    /\ Fold["events"] # Fold["reports"]
    /\ \A m, n \in Json : ReportName[m] = ReportName[n] => m = n
    /\ None # Stdio /\ None \notin Seq(Name) /\ Stdio \notin Seq(Name)

-----------------------------------------------------------------------------
(* The file system.                                                        *)

Kind(fs, l) == IF l \in DOMAIN fs.at THEN fs.at[l].kind ELSE "none"

Stored(fs, p) == IF fs.folds THEN [i \in DOMAIN p |-> Fold[p[i]]] ELSE p

Follow(fs, p, n) ==
    LET q == Append(p, n)
    IN IF Kind(fs, Stored(fs, q)) = "link" THEN fs.at[Stored(fs, q)].to ELSE q

(* Links are replaced as far as the path exists; case stays as it is.      *)
Resolved(fs, p) ==
    LET at[k \in 0 .. Len(p)] == IF k = 0 THEN <<>> ELSE Follow(fs, at[k - 1], p[k])
    IN at[Len(p)]

Located(fs, p) == Stored(fs, Resolved(fs, p))

(* The last name itself, be it a link (Lstat), and where a rename puts it. *)
Entry(fs, p) == IF p = <<>> THEN p ELSE Stored(fs, Append(Resolved(fs, Front(p)), Last(p)))

Ancestors(p) == {SubSeq(p, 1, k) : k \in 0 .. Len(p)}

(* A tree of directories from the root down, whose links lead to where     *)
(* they lead in the end, spelled in any case.                              *)
FileSystem(fs) ==
    /\ fs = [folds |-> fs.folds, at |-> fs.at] /\ fs.folds \in BOOLEAN
    /\ DOMAIN fs.at \subseteq Seq(Name) /\ Kind(fs, <<>>) = "dir"
    /\ \A l \in DOMAIN fs.at :
         /\ Stored(fs, l) = l
         /\ fs.at[l].kind \in {"dir", "file", "link"}
         /\ l # <<>> => Kind(fs, Front(l)) = "dir"
         /\ fs.at[l].kind = "link" =>
              /\ fs.at[l].to \in Seq(Name)
              /\ \A a \in Ancestors(fs.at[l].to) : Kind(fs, Stored(fs, a)) # "link"

Exists(fs, p) == Located(fs, p) \in DOMAIN fs.at

SameFile(fs, p, q) == Exists(fs, p) /\ Located(fs, p) = Located(fs, q)

(* No link leads nowhere, no file stands where a directory has to be.      *)
Resolvable(fs, p) ==
    /\ \A a \in Ancestors(p) : Kind(fs, Entry(fs, a)) = "link" => Exists(fs, a)
    /\ \A a \in Ancestors(p) \ {p} : Kind(fs, Located(fs, a)) # "file"

-----------------------------------------------------------------------------
(* Two paths compared, as resolved before and as found now.                *)

FilesystemPath(fs, p) == [absolute |-> p, resolved |-> Resolved(fs, p)]

SameFilesystemPath(fs, p, q) ==
    p.resolved = q.resolved \/ SameFile(fs, p.absolute, q.absolute)

(* Slip: nothing but the resolved text is compared.                        *)
PathContainsByText(fs, root, p) == IsPrefix(root.resolved, p.resolved)

(* filesystemContainsPath goes up from the path as it was typed.           *)
PathContains(fs, root, p) ==
    \/ IsPrefix(root.resolved, p.resolved)
    \/ \E a \in Ancestors(p.absolute) : SameFile(fs, root.absolute, a)

PathsOverlap(fs, p, q) == PathContains(fs, p, q) \/ PathContains(fs, q, p)

OutputNamespace(root, name) ==
    [absolute |-> Append(root.absolute, name), resolved |-> Append(root.resolved, name)]

-----------------------------------------------------------------------------
(* The selections of an invocation.                                        *)

Given(option) == option # None

Single(c) == Given(c.event)

GeneratesReport(c) == c.mutates \/ c.validates

CountSet(flags) == Cardinality({i \in DOMAIN flags : flags[i]})

(* validateProcessConfig and validateOutputConfig.                         *)
Accepted(c) ==
    /\ Given(c.event) # Given(c.dir)
    /\ c.failOnErrors => c.validates
    /\ c.validates \/ c.mutates
    /\ Given(c.eventOutput) => c.mutates
    /\ c.dir # Stdio /\ c.outputDir # Stdio
    /\ Given(c.outputDir) => ~Given(c.eventOutput) /\ ~Given(c.reportOutput)
    /\ IF Single(c)
       THEN /\ ~Given(c.summaryFile) /\ ~Given(c.summaryJSON) /\ ~c.quiet
            /\ c.mutates => Given(c.outputDir) # Given(c.eventOutput)
            /\ Given(c.outputDir) # Given(c.reportOutput)
       ELSE ~Given(c.reportOutput) /\ Given(c.outputDir)
    /\ CountSet(<<c.eventOutput = Stdio, c.reportOutput = Stdio,
                  c.summaryFile = Stdio, c.summaryJSON = Stdio>>) <= 1

(* Outputs keep the path relative to the input directory; a single event   *)
(* keeps its name, and the directories of a path that was typed relative   *)
(* and does not lead out of the working directory.                         *)
SingleRel(c) ==
    IF c.event = Stdio THEN <<StdinName>>
    ELSE IF c.local # <<>> THEN c.local ELSE <<Last(c.event)>>

EventOutputPath(c, rel) ==
    IF Single(c) /\ Given(c.eventOutput) THEN c.eventOutput
    ELSE c.outputDir \o <<"events">> \o rel

ReportOutputPath(c, rel) ==
    IF Single(c) /\ Given(c.reportOutput) THEN c.reportOutput
    ELSE c.outputDir \o <<"reports">> \o Front(rel) \o <<ReportName[Last(rel)]>>

ActiveNamespaces(c) ==
    (IF c.mutates THEN {"events"} ELSE {}) \cup (IF GeneratesReport(c) THEN {"reports"} ELSE {})

(* What is read and what is written by name, in the order in which it is   *)
(* reserved.                                                               *)
Reserved(c) ==
    <<c.schema, c.event,
      IF Single(c) /\ c.mutates THEN EventOutputPath(c, SingleRel(c)) ELSE None,
      IF Single(c) THEN ReportOutputPath(c, SingleRel(c)) ELSE None,
      c.summaryFile, c.summaryJSON>>

Places(c) == {i \in DOMAIN Reserved(c) : Reserved(c)[i] \notin {None, Stdio}}

Sources(c) == {Reserved(c)[i] : i \in Places(c) \cap {1, 2}}

Destinations(c) == {Reserved(c)[i] : i \in Places(c) \ {1, 2}}

(* The human-readable summaries, standard output first, then the JSON one. *)
SummaryDestinations(c) ==
    (IF ~Single(c) /\ ~c.quiet /\ Stdio \notin {c.summaryFile, c.summaryJSON} THEN <<Stdio>> ELSE <<>>)
    \o (IF Given(c.summaryFile) THEN <<c.summaryFile>> ELSE <<>>)
    \o (IF Given(c.summaryJSON) THEN <<c.summaryJSON>> ELSE <<>>)

-----------------------------------------------------------------------------
(* Preflight: buildProcessingDestinations.                                 *)

ValidateOutputDirectory(c, fs) ==
    LET root == Located(fs, c.outputDir)
    IN /\ Kind(fs, root) \in {"none", "dir"}
       /\ ~Single(c) /\ ~c.overwrite => \A l \in DOMAIN fs.at : ~IsStrictPrefix(root, l)
       /\ \A name \in ActiveNamespaces(c) :
            LET namespace == Stored(fs, Append(root, name))
            IN /\ Kind(fs, namespace) \in {"none", "dir"}
               /\ \A l \in DOMAIN fs.at : IsPrefix(namespace, l) => fs.at[l].kind # "link"

ValidateEventsDirectory(c, fs) ==
    /\ Kind(fs, Entry(fs, c.dir)) = "dir"
    /\ ~PathsOverlap(fs, FilesystemPath(fs, c.dir), FilesystemPath(fs, c.outputDir))

ValidateSchemaOutputNamespaces(c, fs) ==
    \A name \in ActiveNamespaces(c) :
      ~PathContains(fs, OutputNamespace(FilesystemPath(fs, c.outputDir), name),
                    FilesystemPath(fs, c.schema))

(* resolveDistinctDestination, of every destination with all before it.    *)
Distinct(c, fs) ==
    \A j \in Places(c) \ {1, 2} :
      \A i \in Places(c) \cap 1 .. j - 1 :
        LET p == FilesystemPath(fs, Reserved(c)[j])
            q == FilesystemPath(fs, Reserved(c)[i])
        IN ~SameFilesystemPath(fs, p, q) /\ ~PathsOverlap(fs, p, q)

ValidateSummaryDestinations(c, fs) ==
    \A s \in Range(SummaryDestinations(c)) \ {Stdio} :
      LET summary == FilesystemPath(fs, s)
      IN /\ \A name \in {"events", "reports"} :
              ~PathsOverlap(fs, summary, OutputNamespace(FilesystemPath(fs, c.outputDir), name))
         /\ ~PathsOverlap(fs, FilesystemPath(fs, c.dir), summary)

Preflight(c, fs) ==
    /\ \A p \in Sources(c) \cup Destinations(c) \cup {c.outputDir, c.dir} : Given(p) => Resolvable(fs, p)
    /\ Given(c.outputDir) =>
         ValidateOutputDirectory(c, fs) /\ ValidateSchemaOutputNamespaces(c, fs)
    /\ ~Single(c) => ValidateEventsDirectory(c, fs) /\ ValidateSummaryDestinations(c, fs)
    /\ Distinct(c, fs)
=============================================================================
