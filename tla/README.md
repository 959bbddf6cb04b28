# A TLA+ model of ocsf-toolkit

ocsf-toolkit enriches OCSF events with enum captions and observables, removes them again, and validates events
against a compiled schema. These modules model the parts of it whose correctness depends on *order*: which hook runs
before which, what a call leaves for the next call, what survives a failure, which of several selections name one file.
TLC checks them on small instances; for the properties that matter most TLAPS proves them for every schema, event, set
of rules or number of processes.

Paths below are relative to the repository (`src/`).

## 1. The system

| Part | State | Operations | Hard behaviour |
|---|---|---|---|
| Pipeline: `internal/processing/process.go`, `pipeline.go` | the event, a `processContext` (path, generated observables and where they start), a `Result` with counters, issues and findings | `NewPipeline`, `ProcessEvent`, the walk `visitItem` / `visitAttribute` / `visitArray`, dispatcher hooks | several dispatchers and validation visit each attribute in turn and mutate the event they all read; some work is deferred to the end of the walk |
| Adding: `enrichment.go`, `class_observables.go`, `observable_type_selector.go` | the event | enum siblings (scalar, array), harvesting of observables, deduplication, appending | captions are written in the same walk that harvests observables from them |
| Removing: `enrichment_removal.go` | the event, counters | safe and forced removal of siblings and of observables | must never delete source data; observables may only be judged against the final event |
| Observables: `internal/observable/*` | none of their own | `analyzeEntry`, `DeduplicateGenerated`, `LimitEntries`, `CompileObjectObservability` | a trusted suffix that validation does not look at; a fixed point over a cyclic graph; issues about what was not added depend on it |
| Observable paths: `internal/observablepath`, `eventpath`, `pathseq`, `pathstyle` | none | parse, resolve, prove a segment missing | missing branches decide whether null observables can be rebuilt |
| Validation: `internal/processing/validation.go` | findings, counts of suppressed ones | pairs, types, ranges, versions, `type_uid`, constraints, observables, levels | raised in the middle of a walk that still mutates, at places named by one shared path; a boundary for recursive objects |
| Configuration: `config.go`, `issue_suppression.go` | none after construction | `validate`, policy compilation, suppression of issues | conflicts must not depend on rule order; some codes are mandatory |
| Compiled schema: `internal/schema` | immutable after `EnsureTraversalCache` (`sync.Once`) | load, resolve classes and types, link siblings, index enums | three walks along the same chains of types, which may be cyclic |
| Validation cache: `internal/validationcache` | immutable after `Lazy.Get` (`sync.Once`) | resolve types with a memo | concurrent first use, a build that fails, any order of the types |
| Command line: `cmd/ocsf-toolkit` | files | option parsing, destination preflight, the walk over event files, summaries, staged output | selections that alias, failures half way, several invocations on one path, crashes, filesystems without hard links |
| Facade, values, codes, JSON, errors, versions | none | wrappers, conversions, registries | none of the above |

`ProcessEvent` is single-threaded: it runs in its caller's goroutine until it returns. What interleaves are its
*hooks*. Concurrency exists in two places only: the `sync.Once` caches, and files that several invocations write.

What makes each part correct, in the words of the repository: enrichment never replaces source data and removal
never takes any that the event cannot rebuild (TOOLKIT-ENRICH-001, TOOLKIT-REMOVE-001 and `docs/enrichment-removal.md`); every mutation
precedes validation, and enum work precedes observables (TOOLKIT-ORDER-001); counts describe actual mutations
and issues explain what was not added (`docs/event-processing.md`); the traversal limit bounds every processor alike
(same place); an output file is never partial and never replaced without `--overwrite`, and inputs are never modified
(`docs/architecture.md`, CLI Boundary).

## 2. Modules

| Module | What it is |
|---|---|
| `EnumSiblings` | one enum attribute and its sibling, as operators: adding, safe and forced removal, findings, for scalars and arrays |
| `EventPipeline` | `ProcessEvent` as a state machine over `EnumSiblings`: one action per hook of one dispatcher at one place of the walk |
| `PipelineProperties` | what a call, and two calls in a row, promise of the event |
| `MCPipeline` | the class, the events and the configurations TLC explores |
| `PipelineProofs` | theorems about `EventPipeline` and what it promises of pairs |
| `ObservableProofs` | theorems about its observables: what removal takes, what generation appends, what validation trusts |
| `ObjectObservability` | which objects can generate an observable: the compiled cache and the search |
| `ClassObservables` | what enrichment asks of it, together with the observables a class declares by path |
| `MCObjectObservability` | the schema graphs and declarations TLC explores |
| `DiscoveryProofs` | theorems about `ObjectObservability` and `ClassObservables` |
| `AtomicFile` | the abstract promise about one output path |
| `OutputWriter` | `writeOutputFile`, a system call at a time, by several invocations that fail, die and lose power |
| `OutputProofs` | theorems about `OutputWriter`, refinement of `AtomicFile` included |
| `TypeGraph` | dictionary types and their inheritance, as operators; the two walks that are plain loops |
| `TypeTable` | the abstract promise of the validation cache: decided once, right, the same for all |
| `TypeInheritance` | the check at loading, `Lazy.Get` with concurrent callers, the builder one climb step at a time |
| `MCTypeInheritance` | the dictionaries TLC explores |
| `TypeProofs` | theorems about `TypeInheritance`, refinement of `TypeTable` included |
| `ValidationPolicy` | the compilation of the validation options, a rule at a time, and the level of a finding |
| `NestedValidation` | `ProcessEvent` of a pipeline that validates, over nested objects, under a `ValidationPolicy` |
| `MCNestedValidation` | the schema, the events and the rules TLC explores |
| `ValidationProofs` | theorems about `ValidationPolicy` and `NestedValidation` |
| `CommandLayout` | paths, links and case; which selections of files an invocation refuses |
| `CommandRun` | one invocation of `ocsf-toolkit`, from its options to its exit code |
| `CommandProofs` | theorems about `CommandRun` |
| `MCCommandRun` | the file systems and selections TLC explores |
| `Iteration` | lemmas for the proofs: induction over numbers as statements about sets, and what comes of repeating a step |

Definitions called *slip* are mistakes of the kind a maintainer could make (a dropped flag, a missing reset, a check
skipped). Nothing in the specifications uses them; each is put in the place of the definition that follows it to see
that a property notices.

### 2.1 The pipeline

`NewPipeline` builds at most two dispatchers: a combined one when enum and observables actions are equal, otherwise
the enum dispatcher first. `Pipeline(c)` is that sequence with its deferral flag. A call goes through

    ready --Call--> class --ClassVisited--> walk --WalkEnds--> classDone --ClassDone--> eventDone --EventDone--> ready

and in every part `turn` runs over the dispatchers, then validation. Without a reason to walk
(`RequiresEventWalk`) the middle is skipped. In the walk `pos` is the place in `OrderedAttributes`:

| Action | Code |
|---|---|
| `Call` | entry of `ProcessEvent`; an unresolved class ends the call with an issue |
| `OnClass`, `OnClassDone` | `mutationDispatcher.onClass` / `onClassDone`: removal of observables, at once or deferred |
| `SkipAttribute` | inactive attribute, or a sibling whose enum owns the pair |
| `VisitPair` | `onEnumSiblingPairAttributes` of one dispatcher: enum work, then observables of both |
| `VisitOrdinary` | `onAttribute` and `onValue` of one dispatcher |
| `VisitEntry` | the same for the `type_id`/`type` pair inside one entry of observables |
| `ValidateAttribute`, `ValidateEntry`, `LeaveObservables` | validation's turn at the same places |
| `OnEventDone` | `addGeneratedObservables`: deduplicate, append, remember where the suffix begins |
| `EventDone` | `validateObservables`, which trusts that suffix |

`start` keeps the event as it was when the call began and `first` as it was before the first call; no action reads
them, only the properties do.

Values are abstracted to what the rules tell apart: absent, null, one scalar, an array of scalars. Scalars are model
values in classes (integral, string, 99, a null element, an object); captions and text forms are constant
functions, so every way two values can print alike is covered. Paths of observables are an attribute and an index;
the three notations without an index are one. An issue is a number, the code it carries is not modelled, suppression
is a flag. What the schema cache guarantees about siblings (`enumSiblingInitializationIssue`,
`validateItemEnumSiblingRelationships`) is the assumption `SiblingAssumption`; that a walk comes to each attribute
once, to no other and in a fixed order (`OrderedAttributes`) is `OrderAssumption`. Where the code copies entries it
keeps into a new slice (`FilterRemovable`, `DeduplicateGenerated`), the model selects the positions that are kept, in
their order (`Selected`, `Ascending`).

Behaviour worth knowing that the model follows and no property objects to: `generatedObservablesStart` stays -1 when
the existing array was empty and more than one observable is generated, so nothing is trusted then; a sibling equal
to an *empty* caption is removed although adding never writes one; forced removal keeps a scalar sibling that is no
string but deletes an array sibling whose elements are none; the counters of enum siblings include the captions of
entries that the same call deletes afterwards; a combined removal keeps observables that refer to a caption it
removed.

### 2.2 Discovery

`Scan` is one object of the first loop of `CompileObjectObservability`, `Propagate` one object of its worklist. Both
loops iterate over Go maps, so any object may be next; the stack of pending objects is a set for the same reason.
`Ask`, `Found`, `Enter`, `Pass` and `Leave` are the recursive search `objectMayGenerate` with its stack made
explicit, again with the attributes in any order. The reference is independent of both: the least set of objects that
is closed under "has an attribute that generates, or refers to a member".

The answer decides whether enrichment mentions a value of the wrong type. `ClassObservables` adds the second source of
that decision, the tree of paths that a class declares, and compares the decision with what the walk would add
(`Adds`) wherever it can come to: `Ways` are the chains of attributes from the class on, each of which leads `Onward`
until a name comes a second time, which is where recursion stops. Only one direction is promised: an issue may also be raised where the id of
an object or attribute hides a declaration, or where an attribute is inactive.

### 2.3 Output files

Names point to inodes; an inode has blocks, secured blocks and permission bits. Every system call of
`writeOutputFile` and `installTemporaryFileWithoutOverwrite` is an action, with the error return that its failure
takes. `Kill` ends a process between two calls. `PowerLoss` ends all of them and takes any blocks that were not
synced. Directory entries survive it, because the program never syncs directories and promises nothing about them.
`os.Remove`, whose result the program drops, is assumed to succeed.

`AtomicFile` says what this is for: with `--overwrite` a complete file appears in one step; without it a *free*
path is claimed, the claim may be withdrawn until success is reported, and nothing is ever replaced. The refinement
mapping takes the content of the path to be the author of the file there if it is complete, and nobody otherwise, so
the copy fallback, which is visible while it runs, is a claim at its last block.

### 2.4 Types

A dictionary is a finite function from defined names to a base, the constraints the type declares itself, and the primitive
types to which its allowed values convert. It is any function: cycles, undefined bases and definitions of primitive
types occur. `phase` says whether the schema is still being checked (`CheckFrom`, `CheckClimb`, `CheckMeets`,
`CheckFails`, `Load` are the loop and the branches of `validateTypeInheritance`), was rejected, or is open to
pipelines. A schema that was constructed instead of loaded starts in `open`, unchecked. `Get`, `Begin` and `Return`
are `Lazy.Get` around `sync.Once`; `ResolveFrom`, `Climb`, `MeetResolved`, `MeetUndefined`, `MeetCycle`, `Unwind` and
`Built` are `Build` and `typeResolver.resolve`. `todo`, `current` and `path` are the loop variables of whichever of
the two runs. Both loops take types from Go maps, so any type may be next; `validateTypeInheritance` sorts them,
which is one of the orders.

`TypeTable` is what a pipeline may rely on. Its `Right` compares with definitions that follow no chain: a dictionary is
cyclic if some of its types lead only to each other, and a table is right if every entry extends its base's.

### 2.5 Policy and nested events

A rule is what one of the three public options makes of its codes (`LevelOf`). `TakeRule` compiles the next rule for
all its codes; as soon as `Compiled`, the walk of one event begins. `todo` is the Go call stack made explicit: objects
whose attributes are being visited (`item`), arrays whose elements are (`array`), values, and the `Pop`s that are still
due. `path` is `c.path`, which all of it shares. An event is a value made of maps, arrays, integers, texts and null; the
schema gives each attribute an object type, an array flag, a requirement, a profile and a deprecation.

| Action | Code |
|---|---|
| `ResolveClass` | `resolveClass`; an event without a class gets one finding and one issue, and nothing else is done |
| `VisitInactive` | `onInactiveAttribute`: needs a profile that the event does not have |
| `VisitMissing`, `VisitPresent` | one active attribute in `visitItem`: pushed, dispatched, its value or array left for later, popped |
| `VisitElement` | one round of the loop of `visitArray`, behind the element's index |
| `LoopDone`, `PopPath` | the ends of both loops; `Path.Pop` |
| `VisitLeaf` | a value that is no object, or none that the schema knows |
| `StopAtBoundary`, `EnterObject`, `LeaveObject` | `visitObjectValue`, at the traversal limit or into the object and out of it |
| `EventDone` | `visitClassDone`, `validateTypeUID`, constraints of the class |

What schema and event may be are named assumptions: an attribute's name comes once in its object, and no name is an
array index (`SchemaAssumption`, `IndexAssumption`; both kinds of path elements are strings here and two types in the
code); an event is a map of maps, arrays and scalars that nest to a bounded depth, with no more elements in an array than
`Index` has (`EventAssumption`: JSON has no cycles); the codes of findings are codes, and those of an unresolved class
are the mandatory ones (`FindingAssumption`).

`Definition` is `observablepath.Path.Definition` for names without selectors: the same boundary, computed from schema
and profiles alone. `WalkExact` compares the walk with it, `FindingsExact` compares the findings with `Wrong`, which
collects from the contents of the event what is wrong with each place and does not walk: with an attribute
(`AttributeFaults`), with a value (`ValueFaults`), with an object as a whole (`ObjectWrong`), with the `type_uid`.

Attempts to prove these two found two cases that the runs had not, and in which the *statements* were wrong. Where a
recursive name leads to something else than an object of a known type, the code finds the wrong type and does not speak
of a limit: `Limited` has to ask for an object that could be entered (`Enterable`). And `TypeUIDWrong` spoke of the sum
alone, where the code also refuses a product `class_uid * 100` out of range. Both are events of the `nested` run now.

Integers have ten bits and a sign (`MaxInt = 1023`); `ExpectedTypeUID` compares before it computes, as the code does.
It also refuses a `class_uid` beyond `MaxInt / 100` when an `activity_id` of the other sign would bring the sum back
into range, although the finding's text speaks of the sum (`schema/event.go:11-23`, `validation/code.go:61`). With 64
bits no class is that large; the instance has one that is.

Behaviour worth knowing: an internal rule that suppresses all codes of one level, without naming them, would enter
mandatory codes as suppressed (`config.go:146-163`: `applyValidationPolicyCode` returns no error for them). No public
option makes such a rule, so `Rule` has none.

### 2.6 An invocation

`config` are the option values; `disk` is the file system: what is at each location, and whether names that differ in
case are one. A path that was typed is followed through links (`Resolved`) and stored in one case (`Located`);
`Preflight` is `buildProcessingDestinations` over these. The phases of `CommandRun` follow `runProcessCommand`:

    options -> preflight -> pipeline -> next -> read -> event -> report -> next ... -> summaries -> ended

`Take` is the next file of the walk; `ReadFails`, `EventWriteFails`, `ReportWriteFails`, `SummaryFails` and `WalkFails`
may happen whenever their step may. `Process` leaves any combination of errors and warnings; what processing does is
the other modules' matter. A write is one step, complete or failed, possibly after directories were made: what happens
inside it is `OutputWriter`. Summary counters are those the exit code and the report relate to each other.

The file system does not change by itself while the invocation runs (`docs/FAQ.md`). Paths are absolute; of an `--event`
path that was typed relative and stays below the working directory, `local` is the part that outputs keep
(`safeOutputRelativePath`). Hard links, Windows names, and file systems mounted below each other with different case
rules are left out. `FileSystem` says what `Disks` may be (`RunAssumption`): a tree of directories whose links lead to
where they lead in the end, spelled in any case, on a file system that folds cases or does not. Where cases are folded
the name in `Fold` stands for the spelling on disk; links are resolved without correcting the case that was typed, as
`filepath.EvalSymlinks` does.

`Unseen` is what the preflight cannot see, on such a file system with links. `pathContains` compares resolved paths
as text, in the case in which they were typed, or finds the root among the ancestors of the other path as typed
(`layout.go:117-150`): a link that leads past the root into a directory below it, and a root spelled otherwise, escape
both. What `PriorKept` says of inputs and `OutputsKept` of a directory with `--overwrite` is said without `Unseen`, and
so is that the walk takes what was in the input directory and nothing else (`AllTaken`): an output tree inside the
input that the preflight did not see is walked as well. `command_folded` shows what happens with it (section 5).
Links alone, and cases alone, are covered in full, and so are links where everything is spelled as on disk.
`LayoutAssumption` has what the layout of outputs rests on: `events` and
`reports` differ in more than case, and `.report` before the extension keeps different names different.

What an invocation reads are the files its options name, wherever links lead, and what the walk finds below the input
directory, which follows no link. An output is held (`Holding`) at the place to which its path led when the invocation
began: with `--overwrite` a path such as `d/l/l`, where `d/l` is a link to `d`, is written over the very link it
goes through, and leads nowhere afterwards.

## 3. Runs

| Run | Instance | Shows |
|---|---|---|
| `pairs` | every value class of enum and sibling that takes another branch, scalar, array, unlinked and inside an entry, three ways of activating the pair, unresolved classes; 8 configurations; two calls | `TypeOK`; `SourceDataKept`; `CountersMatch`; `NothingSilent`; `PairFindingsCurrent`; `RoundTrip` |
| `observables` | arrays with every problem `analyzeEntry` knows, one to three entries, four events that justify or contradict them; all 16 pairs of actions and more; one call | `SafeRemovalExact`; `TrustedSuffixSound`; `GeneratedAppended`; `EnumWorkFirst`; `ProcessingEnds` |
| `twice` | a smaller family, any two pipelines one after the other | `Idempotent`; `ObservablesRoundTrip` |
| `discovery` | every graph of three objects with up to two references each, ids at each of the three levels, selected or not; a class that declares no path, one, or two | `TypeOK`; `CacheExact`; `SearchAgrees`; `OmissionsTold`; `DiscoveryEnds` |
| `output_exclusive` | two invocations without `--overwrite`, two blocks, with and without a prior file | `TypeOK`; `NoTornFile`; `SuccessDurable`; `TempTidied`; `OneWinner`; `InvocationsEnd`; `ImplementsAtomicFile` |
| `output_replace` | two invocations with `--overwrite` | `PermissionsKept`; `ImplementsAtomicFile` |
| `types` | three types with every choice of bases among themselves, two primitive types, an undefined one and none; a primitive type that is defined, with a base; two callers; loaded or constructed | `TypeOK`; `LoadingDecides`; `WalksAgree`; `ImplementsTypeTable`; `GetsReturn` |
| `nested` | 161 lists of up to three rules out of twelve, every ordered pair among them, each with 47 events: recursion directly and through another object, in arrays, a recursive name that is no object, inactive, unknown and misshapen attributes, `type_uid` at both ends of the integers | `PolicyExact`; `WalkExact`; `FindingsExact` |
| `command` | 3,514 selections on three file systems, with links, folding case, and both: outputs that name, contain or lead to inputs, the schema, each other, earlier output; every step failing | `TypeOK`; `PriorKept`; `OutputsKept`; `SummaryTrue`; `ExitTruthful` |
| `walk_findings` | enum work, observable removal and validation in one pipeline | a counterexample, see section 5 |
| `command_alias` | two summaries that differ in case | a counterexample, see section 5 |
| `command_folded` | an input directory in two spellings, a summary behind a link into it | a counterexample, see section 5 |

Bounds. `MaxCalls` is 2: a call reads nothing but the event, so a second call after any first one meets every state a
third could (the runs compare neighbouring calls only). Arrays have at most three elements, which is one more than
any rule relates at a time, and observables at most three entries plus what is generated. One scalar pair sorts
after `observables` and the array pair before it, so both orders of a pair and the entries occur. Two writers and two
blocks are enough for every pair of steps to meet and for a file to be torn; three writers only repeat the pair. Three
objects allow every cycle shape up to a triangle with an exit; three types that derive freely, with a type outside and
two primitive ones, allow every chain, cycle and confluence up to that length, and a memo met from a second and third
start. Two callers are one that builds and one that waits. A third rule only repeats what two can do to each other,
except for one in between, which the instance has. The recursive objects of `nested` repeat on the second or third
level, and events go one level deeper. Two input files show what a failure leaves behind and what is not reached. No
symmetry is used.

The caller may stop calling, the invocations and the command end, discovery and the walk of one event end, and nobody
has to ask for the cache, so deadlock is not an error in any run.

Fairness. `WF_vars(Process)`: a call that has begun goes on, because it runs in its caller's goroutine without
waiting for anybody; `Call` itself is not fair. `WF_vars(Step(w))`: system calls return, unless the process is
killed; `Kill` and `PowerLoss` are not fair. `WF` of `Compile` and of `Search`: plain loops.
`WF_vars(Begin)`, `WF_vars(Resolve)`, `WF_vars(Return(c))`: `sync.Once` lets one waiting caller in and the others out,
and the builder is a loop in that caller's goroutine; `Get` is not fair, since nobody has to build a pipeline. `command`
and `nested` have no liveness properties: their loops are over files and over the finite contents of one event, and
`WalkExact` and `FindingsExact` speak of the end that every step comes closer to.

## 4. Theorems

Each holds for every value of the constants allowed by the named assumptions of the modules.

**Pipeline** (`PipelineProofs`; assumptions on scalars and captions, `AttrAssumption`, `SiblingAssumption`,
`OrderAssumption`, `ObjAssumption`, `InputAssumption`)

* `TypeCorrect`: `Spec => []TypeOK`. The generated entries, the entries of observables and the counters are typed
  weakly there; `EventStaysTyped` (`ObservableProofs`) has their full types, which harvest, deduplication and removal
  keep.
* `SourceDataSafe`: `Spec => []SourceDataKept`. The property is inductive together with `TypeOK`. The lemmas
  `AddPairSound`, `RemovePairSound` and `RetainUnsupportedSound` say what one pair may do; since no sibling is itself
  an enum (`SiblingAssumption`), the enum of a pair is still what it was when the call began.
* `EntriesKeptWhileWalking`, the invariant behind the next one: while enum work can still come, the entries are the
  caller's, type captions apart. It needs `DispatcherSound`, which lists what `Pipeline` builds, and in particular
  that every removal next to enum work is deferred.
* `EnumWorkComesFirst`: `Spec => EnumWorkFirst`, an action property, from the above.
* `FindingsAreCurrent`: `Spec => []PairFindingsCurrent`. `FindingsSoFar` says that the pairs the walk has passed have
  exactly the findings of their present values and the others none. It is inductive because a pair is settled when
  the walk leaves it: two pairs share no attribute (`SiblingAssumption`), and dispatchers visit a pair before
  validation does. `WalkFromStart` adds that the walk begins at the first attribute.
* `NothingIsSilent`: `Spec => []NothingSilent`, a bound on a count: `SilentSoFar` compares issues and suppressed issues
  with the number of handled pairs that were left undone. One visit handles one pair, and `UndoneIsRaised` goes
  through the outcomes of a pair to show that it raises one if it leaves one.
* `RemovalUndoesAddition`: `Spec => []RoundTrip`. `ReturnSoFar` carries from the first call to the second that a
  sibling which had no value is either without one still or one that removal would take (`Reversible`).

**Observables** (`ObservableProofs`, from the same assumptions)

The lemmas `AscendingSound` and `SelectedSound` say of a selection what a loop over a slice does: it is the only
strictly ascending list of the positions, its length is their number, what is selected keeps its order.

* `RemovalTakesRebuildable`: `Spec => []SafeRemovalExact`. `RemovalSoFar`: before its turn the entries are the caller's,
  captions apart, and afterwards they are what safe removal leaves of them, judged by the *final* attributes. The
  second half is where `DispatcherSound` is needed: nothing that could change the choice follows the removal.
* `SuffixIsTrusted`: `Spec => []TrustedSuffixSound`. `GeneratedTrusted` says of every entry harvested so far that the
  analyzer would find nothing wrong with it now and that the attribute it names will not be written any more in this
  call: it is no sibling of a pair still to be handled. `SuffixSoFar` takes this to the entries behind `genStart`.
* `GenerationAppends`: `Spec => []GeneratedAppended`, by `AdditionSoFar`; `DeduplicatedSound` is the lemma about identities.
* `RemovalUndoesGeneration`: `Spec => []ObservablesRoundTrip`, by `ObservablesReturn`: whatever the first call has added
  can still be removed, entry by entry, until the second one does.
* `CountersTellTheEvent`: `Spec => []CountersMatch`. `CountsSoFar` compares the counters with the slots of siblings, of the
  class and of the entries together, that are already `Settled`: those now filled, now empty, now full. A slot is moved
  by at most one dispatcher of one visit (`LaterLeaveSiblings`), and the one that moves it says so (`WorkFits`,
  `ChargeTallies`); every other step leaves both sides alone.
* `ProcessingAgainChangesNothing`: `Spec => []Idempotent`. `AtRest` is said of the event a call returns and of its
  configuration: enum work would leave every sibling as it is, removal would take no entry, addition would find every
  entry it generates already there. That a call ends so (`AtRestWhenDone`) has one part for each kind of work:
  `SiblingsSettled` (work done twice is work done once, `WorkSettles`, and nobody else writes the sibling afterwards),
  `HarvestSoFar` (what the attributes offer, `Offers`, has been generated; a visit lets no other attribute offer
  more, `OthersOffer`), `ObservablesSettled` (what removal left it would leave again, what addition found new is there
  now). An event at rest stays as it is in every step of a call with that configuration (`RestKept`, `SecondSoFar`).

**Discovery** (`DiscoveryProofs`; `SchemaAssumption`)

* `CacheIsExact`: the cache is the least closed set. `CompileInv` says that a scanned object has told every object it
  refers to, that what is known and not pending has told all its referrers, and that everything known is in every
  closed set; an empty worklist then makes the known objects closed.
* `SearchIsExact`: the search agrees with it. `SearchInv` says that passed attributes lead only to visited objects,
  that unfinished objects are on the stack, and that whatever was visited would answer the question; when the stack
  is empty the objects not visited form a closed set without the one asked about.
* `OmissionsAreTold` (with `ClassAssumption`): `Spec => []OmissionsTold`. `WaysWalk` says that every way is a walk along
  the attributes; then by induction backwards along it: if its last attribute adds an observable, the object before it
  is in the least closed set, or a declaration lies at or below it, and so on up to the attribute asked about.

**Output files** (`OutputProofs`; `WriterAssumption`)

* `Invariant`: what each step has secured (`Secured`), which way the flag leads (`OnItsWay`), what can be at the path
  (`Installed`), and that without `--overwrite` whoever holds the path keeps it (`Holder`).
* `OutputTypeCorrect`, `NothingTorn`, `SuccessIsDurable`, `TemporariesTidied`: for any mix of flags.
* `PermissionsAreKept`: when all overwrite, whatever is at the path has the bits of the first file there. `Bits`:
  the temporary file has them from `Inspect` on, whoever replaced the file in between.
* `NoOverwriteGuarantee`: when nobody overwrites, at most one invocation reports success, and its file stays.
* `WriterRefinesFile`: when all carry the same flag, every step is a step of `AtomicFile` or none.

**Types** (`TypeProofs`; `TypeAssumption`, `DictionaryAssumption`)

* `Invariant`: `path` is a chain of bases that ends where `current` goes on; what is marked as being visited is exactly
  what is on the path; what is visited, or resolved, is closed under bases, so that no cycle has a member there; each
  resolved entry extends its base's and leads to its primitive type. The lemma `ChainCloses` turns a type met twice
  into a cycle of the dictionary.
* `TypesCorrect`; `LoadingDecidesCycles`: loading rejects exactly the cyclic dictionaries, in any order.
* `BuilderImplementsTable`: every step is a step of `TypeTable` or none, for any number of callers.
* `WalksAlwaysAgree`: `Spec => []WalksAgree`: the table, the loop with a set (`ResolvePrimitiveType`) and the loop with a
  bound (`TypeDerivedFrom`) come to the same type. The two loops are iterations of a step (`Iteration`); a chain that is
  longer than there are types meets one twice (by the pigeonhole principle), and then it is on a cycle: so the bound
  is neither too small for a chain that ends nor passed by one that does not.

**Policy** (`ValidationProofs`; `CodeAssumption`, `RulesAssumption`)

* `PolicyInvariant`: after each rule, the actions seen are those asked for so far if nothing was wrong, every setting is
  an action asked for by name, every flag a level asked for as a whole, and a problem was noted if and only if two of the
  rules so far ask for different things or one asks for what cannot be.
* `PolicyTypeCorrect`, `PolicyIsExact`: for any set of codes, levels and mandatory ones, and any list of rules.

**Nested events** (`ValidationProofs`; all assumptions of `ValidationPolicy` and `NestedValidation`)

* `Invariant`: `Spec => []IInv`, the inductive invariant, for any schema, event and rules. Neither property is anywhere near
  inductive: both speak of the end, of sets collected from the contents of the event. So what the end calls for is cut
  into `Origins`, the moments at which something is found (an attribute dispatched, a value judged, an object left, the
  class resolved, the event done), and `RaisedAt` says which finding belongs to which; a finding belongs to one
  (`FoundIn` of two sets without a common origin has nothing in common). Each task on the stack has the path at which it
  will run and a `Region`: the origins it will pass. A `Plan` is a stack whose tasks fit the event at these paths, come
  back to the empty path at the end, and have disjoint regions. `Past` is what is in no region any more, and
  everything the walk has produced is described by it alone: the visits (`VisitsInv`), the limit that was said
  (`LimitInv`), findings and counts (`Tally`).
* A step then drops the first task or replaces it by others. Two lemmas serve every action: `Advance`, that there is a plan
  again if the new regions are disjoint parts of the old one, and `AdvancePast`, that what they leave out is what
  the step has done; `DropStep` and `PushStep` add that exactly that is visited, said and raised. What remains per
  action is where regions lie (`ItemSplit`, `PlaceSplit`, `ArraySplit`, `EnteredSplit`): behind an attribute an object's
  region has lost what is under its name, and two names of one object, or two indexes, never meet. `Framed` is what
  `LimitInv` needs beyond this: between the visit of an attribute and the boundary inside it nothing else is visited, so
  the limit said first is the first in the order of `visits`.
* That the walk goes where the names lead is `Entering` taken apart one element at a time: the status at a path
  is `Follow` of the status above it, array indexes change nothing, and a place is in `Values` if and only if it is the
  value or an element of an active attribute of an entered object (`ValueOf`).
* `WalkIsExact`: `Spec => []WalkExact`; `FindingsAreExact`: `Spec => []FindingsExact`: at the end no task is left, `Past` is all
  origins, `FoundIn` of them is `Wrong`. The levels agree because the policy is exact: `FindingLevel` is what `Effective`
  takes from the rules themselves. `WalkedPolicyIsExact`: `Spec => []PolicyExact`.

**Invocations** (`CommandProofs`; `LayoutAssumption`, `RunAssumption`)

* `Invariance`, the first layer, which knows nothing of where paths lead: `DiskSound` (without `--overwrite` every entry
  that was there is there unchanged: `MayWrite` looks before a file takes a place, and `MkdirAll` only adds),
  `Untouched` (no phase before the first event writes), `InHand` (what the event in hand has written, by phase) and
  `CountersAgree`. `InHand` is what makes the counters inductive: an event is counted once, in the step that writes its
  report or in the one that fails, and what it wrote before is known there.
* `TypeCorrect`.
* `Layered`, the second layer: `LinksKept` (no link is made, and one is lost only to an output of its name that is no longer
  `Pending`), `NewPlaces` (before the summaries, whatever is new is on the way to the output directory or below it, so
  that the walk over the input directory finds what it would have found at first), `PriorKept` itself, `Checked`
  (nothing goes on that the options or the preflight refused) and `Progress` (how far the invocation is).
  The preflight judges the disk as it was; the outputs are written to the disk as it is. That its verdict still counts is
  the lemma `SameWay`: the way to a pending output is as it was, because a link lost on it would lead from one selected
  output to another, and those would have been refused as one inside the other (`Distinct`). For a directory the
  preflight sees no links below the namespaces at all (`NoLinksThere`), and `RelsKept` says that its files stay the same.
  The preflight sees through links (`SameLinksLead`, `NoLinkLocated`) and through spellings (`ContainsSeen`, for two
  paths that are `Comparable`); all that are selected are, unless `Unseen` (`SeenComparable`). With `Unseen` the walk
  may take outputs for inputs, so `Progress` then says only that what is taken is `Possible`, a path below the input.
* `PriorIsKept`: `Spec => []PriorKept`; `SummaryIsTrue`: `Spec => []SummaryTrue`; `ExitIsTruthful`: `Spec => []ExitTruthful`:
  from both layers.
* `OutputsAreKept`: `Spec => []OutputsKept`, the third layer. Every output is written where its path led
  (`OutputEntry`, by `SameWay`), and no two of them lead to one place: the outputs of different events and those of
  different kinds by their names (`NamedApart`), summaries because they may not be below a namespace
  (`SummariesApart`), event and report of a single event by the preflight or by the comparison before the report
  (`SingleApart`), which is the case the preflight cannot see: the event file must be there for it.

What a path means is computed name by name. The lemmas about this (`ResolvedFacts`, `NextName`, `StaysBelow`,
`SameLinksLead`, `ContainsSeen`) use `PathInduct`, induction over paths stated for a *set* of paths, because the library's
induction theorems take an operator as a parameter; `NatInduct` and `BoundedInduct` in `Iteration` are the same for
numbers, derived from the least member of a set.

Only model-checked: the liveness properties (`ProcessingEnds`, `DiscoveryEnds`, `InvocationsEnd`, `GetsReturn`), which need
fairness and `ENABLED`. Every invariant and every action property of the passing runs is the statement of a theorem.
Assumed and not derived: what the named assumptions say of schemas, events and file systems; TLC evaluates each on
every instance.

## 5. Where the repository disagrees with itself

* `walk_findings`: `docs/validation.md:88` says that after a safe removal "paths for retained entries use their final
  array indexes", and TOOLKIT-ORDER-001 that every mutation completes before validation. Structural findings about
  entries of observables are raised by the walk (`process.go:553-590`), a deferred removal runs after it
  (`process.go:296-307`): with enum work in the same pipeline such a finding is located at an index the final array
  does not have, or that now belongs to another entry.
* `command_alias`: `layout.go:452-456` says of two outputs whose being one file cannot be seen before either exists that
  "the write itself fails with an ordinary error". With `--overwrite` it succeeds (`output.go:121-141` renames over
  whatever is there): summaries `y` and `Y` on a file system that folds case leave one file and exit code 0.
* `command_folded`: `docs/architecture.md:125` says "Input event files are never modified", `README.md:233` "The CLI never
  modifies input event files", and `layout.go:129-133` that walking the existing ancestors "catches that case
  regardless of spelling". On a file system that folds case, with `--events-dir /IN` for `/in`, a link `/past` to
  `/in/sub`, `--summary-file /past/a.json` and `--overwrite`, the preflight passes and the summary replaces the input
  `/in/sub/a.json`: the resolved path of the summary is `/in/sub/a.json`, which is not below `/IN` as text, and of the
  ancestors of `/past/a.json` none is the input directory. A schema behind a link below the output namespaces is missed
  the same way (`layout.go:223-235`). `docs/architecture.md:137` calls the protection best effort where "distinct spellings
  that the filesystem treats as the same path may not be detected"; the sentences above make no exception.
* Without a run: the comment at `enrichment_removal.go:57-58` says that observables are analyzed and removed "before other
  event mutation so references to removable enum siblings are evaluated against the original event". That holds for
  the call it stands on; with enum work in the same call the removal is deferred to `onClassDone` and judges the final
  event, as the comment at `:48-51` of the same file says and `EnumWorkFirst` and `SafeRemovalExact` show.
* Without a run: `pipeline.go:196-198` and `:232` say that forced removal of observables needs and gets no deferral;
  `pipeline.go:233` and `:360-366` defer it like safe removal, so next to enum work the walk visits entries that are
  about to be deleted. `Pipeline` and `Dispatcher` follow the code; the final event is the same either way, the findings
  of the walk are not (`walk_findings`).

## 6. Not modelled, and the plan

Left out for good: parsing of arguments, help and text output, the facade, registries of codes, JSON decoding, error
wrapping: no state and no order. Validation of one value (range, length, pattern, allowed values, the verdict on the
value of an inactive attribute) and of the schema version relates no two parts of the state and is left to tests. The
texts of observable paths (parsing, notations) are conversions of which the models need only the result.

Mixed flags: when one invocation overwrites and another, without the flag, fails in its copy fallback, the deferred
`os.Remove(path)` goes by name and can take the first one's file away. `docs/FAQ.md` excludes concurrent changes of
the output, so the refinement is stated for equal flags; `NothingTorn` and `SuccessIsDurable` hold regardless.

What could still be added, in this order:

1. `EventPipeline` and `NestedValidation` are two views of one walk, joined by hand at the class level. Their
   composition (mutations inside nested objects, observables that point there) is out of TLC's reach at useful sizes.
2. The traversal cache (`EnsureTraversalCache`): what the named assumptions about siblings say of a schema could be
   shown of `enumSiblingInitializationIssue` and `validateItemEnumSiblingRelationships`.
3. The resolution of observable paths with its fast path (`resolveSingle`) against the general one.
