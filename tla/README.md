# A TLA+ model of kubexporter

kubexporter exports the resources of a Kubernetes cluster as files: it discovers
the kinds, lets a set of workers list and write them, and then prints a summary,
sends metrics, makes an archive, prunes old archives and uploads the new one.
Its other commands rewrite files that were exported: they encrypt and decrypt values
and update owner references. This directory models that program in TLA+. TLC
checks the models on small instances; TLAPS proves the safety properties of all
parts for every value of their constants. Paths below are relative to `src/`.

## 1. Inventory

| Component | Code | State it keeps | Operations | Correct when |
|---|---|---|---|---|
| export job | `internal/export/worker` | job channel, `out` channel, WaitGroup, a `Stats` per worker, the `GroupResource`s | `RunExport`, `GenerateWork`, `listResources`, `Stats.Add` | each kind is exported by one worker and once; nothing is sent on a closed channel; nobody blocks for ever; the statistics returned are those of the kinds |
| exporter | `internal/export/export.go` | `stats`, `archive`, the job's result | `Export`, `purgeTarget`, `listResources`, `printSummary`, `printStats` | results are read when they are final; success means all configured steps were done; it returns |
| progress displays | `internal/export/progress` | bars (mpb), program and model (bubbles) | `Run`, `NewSearchBar`, `NewExportBar`, `IncrementMainBar`, `IncrementResourceBarBy` | the display never keeps the export from finishing |
| archives | `archive.go`, `s3.go`, `gcs.go` in `internal/export` | files in a directory, objects in buckets | `tarGz`, `pruneArchives`, `uploadS3`, `pruneS3`, `uploadGCS`, `pruneGCS` | archives stay for their retention and no longer; a good run has uploaded its archive |
| file names | `worker.go`, `types/config.go` | a map of names per page | `FileName`, `exportOneSingleResource` | no instance overwrites another |
| configuration | `cmd/root.go`, `types/config.go` | `Config` | `readConfig`, `Validate`, `Diff` | defaults, file and flags are combined as documented; nothing invalid reaches the export |
| resource selection | `export.go`, `types/config.go` | the sets of kinds | `listResources`, `IsExcluded`, `IsInstanceExcluded` | excluded kinds and instances, and only those, are left out |
| field transformations | `types/config.go`, `masked.go`, `encrypted.go` | none, works on one object | `FilterFields`, `MaskFields`, `EncryptFields`, `SortSliceFields` | excluded fields go, preserved ones stay, secret ones are hidden, the rest is untouched |
| owner reference update | `internal/uor` | a cache of owners per file | `Update`, `updateFile`, `findOwner` | each reference gets the UID of its owner |
| encrypt, decrypt | `types/encrypted.go`, `cmd` | the files | `Encrypt`, `Decrypt` | inverse of each other; a failure leaves the files usable |
| secret reader, client, OTLP metrics, log, tables | `internal/secret`, `client`, `export/metrics`, `log`, `render` | none of their own | one call each | they pass on errors |

### Interactions

`Export` calls `RunExport` directly, or in a goroutine when the display is
asynchronous (mpb, bubbles). `RunExport` hands the kinds to the workers through
the job channel of `vardius/worker-pool`. Workers call the API server (list
requests, page by page), write files and call the display. They share the
`GroupResource`s with `Export`, which reads them in the summary, and the
configuration, which nobody writes after the workers were started. A done channel
orders the job's results with the steps that read them. Archives are shared with
other runs of the program through the file system and the buckets.

### What is hard

* **Concurrency.** Neither the statistics nor the `GroupResource`s have a lock.
  What protects them is the job channel (one worker per kind) and the WaitGroup
  (no reading before the last `Done`). `out` has no reader; it must be large enough.
* **Two waits.** With an asynchronous display `Export` has to wait for the display
  and for the job. Both waits must end, on each way out of `Export`.
* **Failure.** Any list request, any file, any step after the job may fail. One
  failing does not stop the others, or does, and must be reported either way.
* **Time and repetition.** Archives outlive the run that made them. What a run
  removes or overwrites depends on the earlier runs and on those of others.
* **Crashes.** A killed run leaves a truncated archive under a regular name.
* **Names.** Distinct instances may get equal file names, by case or by the
  characters a file name cannot have.
* **Settings that overlap.** Flags, file, defaults and environment give the same
  setting; excluded and preserved, masked and encrypted fields lie in one another; a
  kind is included, excluded, or an owner. What is exported, and whether it is in
  clear, depends on the order in which these are applied.
* **Sequences of commands.** A file may be encrypted by the export and again by a
  command, with another key; a command that fails leaves some of its files rewritten
  and must be possible to repeat.

`PROJECT.json` lists each of these hazards at its line, with the properties that
cover it.

## 2. Modules

| Module | Models | Depends on |
|---|---|---|
| `ExportJob` | abstract: what the job promises its caller | |
| `WorkerPool` | `RunExport` and the workers; implements `ExportJob` | |
| `ExportRun` | `Export` around the job, with the three displays | extends `WorkerPool` |
| `Archives` | archives, pruning and uploads over several days and exporters | |
| `FileNames` | the files one kind is exported to, as items or as lists | |
| `ConfigSetup` | how defaults, file, flags and environment become a configuration | extends `Paths` |
| `Selection` | which kinds and instances that configuration exports | extends `ConfigSetup` |
| `Objects` | objects and the functions that remove, mask, encrypt and decrypt fields | extends `Paths` |
| `Fields` | one object from the cluster to its file and back | extends `Objects` |
| `FileCommands` | `encrypt`, `decrypt` and `update-owner-references` on files | extends `Objects` |
| `Paths` | paths of fields as the strings they are joined to | |
| `WorkerPoolProofs`, `ExportRunProofs`, `ArchivesProofs`, `FileNamesProofs`, `SelectionProofs` | theorems; those of `ConfigSetup` are in `SelectionProofs` | the module they are named after |
| `ObjectsProofs` | lemmas about the functions on objects | extends `Objects` |
| `FieldsProofs` | theorems | extends `Fields`, `ObjectsProofs` |
| `FileCommandsProofs` | theorems | extends `FileCommands`, `ObjectsProofs` |
| `MC...` | values of the constants for TLC | the module they are named after; `MCSelection` also gives those of `ConfigSetup` |

Operators named as mutants in their comments ("Mutant: ...") are not part of the
specifications: each is a plausible bug in one action, used to make sure that a
property notices it.

### ExportJob

Kinds are *finished*, each at most once and with a final report; the job then
*succeeds*, returning statistics that follow from all reports, or *gives up* at
any time before. Kinds may still finish after it gave up, since `RunExport` leaves
its workers running when `AddWorker` or `Delegate` fails.

### WorkerPool

| State | Code |
|---|---|
| `main` | where `RunExport` is: `addWorkers`, `add` (before `wg.Add`), `delegate`, `close`, `collect`, `returned`, `failed` |
| `delegated`, `taken` | the job channel. It is FIFO, filled in the order of the slice and large enough for all, so its content is always the kinds `taken + 1 .. delegated` |
| `wg` | the counter of the WaitGroup |
| `out`, `outClosed` | the channel `out`; its entries are never looked at, only counted |
| `wpc`, `cur`, `nsDone` | where a worker is in `GenerateWork`, the kind it has, the namespaces it has listed |
| `stats` | `worker.stats` |
| `res` | the fields of `GroupResource` that workers write |
| `collected`, `total` | the loop of `RunExport` that adds up the statistics |

`AddWorkers`, `WgAdd`, `Delegate`, `Wait`, `CloseOut`, `Collect`, `Return` and
`PoolFails` are the steps of `RunExport`. A worker has `Take` (receive a kind),
`ListPage` and `ListError` (one call of `listResources`: the list request, the export
of its items and the update of the kind), `Account`, `Send` and `Done`. A page is
abstracted to how many of its items are exported, excluded (the rest) or fail to be
written, and to the namespaces that the exported ones add. The export of a page is
one step: nobody else reads or writes what it touches, which `NoSharedKind` and
`NothingAfterClose` confirm. Sizes and durations are left out; they are accumulated
exactly as the number of exported instances is.

The worker pool library is modelled from how it is used: `AddWorker` starts a
goroutine that receives jobs for ever, `Delegate` sends on a channel with room
for as many jobs as there are kinds.

### ExportRun

Extends `WorkerPool` by `Export`: `exp` is where it is, `opts` the configuration (which
display, items or lists, which steps), `job` the goroutine that runs `RunExport`,
`estats` the exporter's statistics, `done` the steps after the job that were carried
out, `err` whether an error is returned; `mainBar`, `openBars` and `program` are the
displays. The workers' steps are those of `WorkerPool`, joined with their calls to the
display (`DisplayedPage`, `DisplayedError`, `DisplayedAccount`). The steps after the
job run in the order of the code, `PostSteps`; here each is only done or fails, what
it does is in `Archives`.

Displays: mpb's `Wait` returns once all bars ever added are complete. The search bar
of a request always is. The bar of a page is raised once per item, or in list mode
by the length of each list written, so `BarLeftOpen` says when it stays incomplete.
The bubbles program can take messages once it runs, and drops them after it has
ended; a key ends it at any time, and so may an error of the program
(`ProgramFails`). A worker that is faster than the start of the
program ends the process (`Crash`). `DisplayWaits` is the state in which the job gave
up and mpb or bubbles wait for kinds that nobody will export.

### Archives

An exporter is a configuration that is run once a day at most, for several days,
interleaved with the others. Archives are in directories, objects in buckets.
`Start` is `purgeTarget`; `TarGz`, `Prune`, `UploadS3` and `UploadGCS` are the
functions of these names with what they call. `Prune` removes one archive, so that
others may prune the same directory in between; `PruneDone` is its end. Every one of
these functions may also fail after a part of its work, which covers a run that is killed;
an archive that could not be made leaves a truncated file, or none. `BaseMatch` says
which archives match the name pattern of which exporter, and `plainTarget` that
the target is given as a name without a slash, the case in which it is a
prefix of the object keys. The list of a bucket may fail in the middle, which
`pruneS3` skips and the history variable `skipped` notes; `OldArchivesGone` makes an
exception for that bucket.

### FileNames

Names are short sequences of letters and signs; `Lower` and `Clean` are what
`strings.ToLower` and `invalidFileChars` do to each. `setup` gives the page size, whether
items or lists are written, whether there is a query per namespace, and whether the file
system tells upper and lower case apart. `names` is the map that
`exportSingleResources` makes for each page. `OnDisk(s, path)` is the path as the file system
of the setup `s` sees it; `Separator` and `Digits` make the number that is appended. `Export`, `ExportFails` and `Skip` are one item in
`exportSingleResources`, `ExportList` and `ExportListFails` one namespace in
`exportLists`, `NextPage` is the next list request. An export may fail before or after
`os.Create`, which truncates.

### ConfigSetup and Selection

A config file is a function from the settings it gives to their values, and so are the
flags: `Over(file, config)` is `yaml.Unmarshal` over the defaults, `Over(flags, config)` the
visit of the flags that were given. Masked and encrypted fields are sets for each kind, as
their order has no part in this. `pc` walks through `readConfig`: `UpdateFrom`,
`VisitFlags`, `SetupMasked`, `SetupEncrypted` (key of the environment, the file or the
flag; a variable that is set to nothing replaces the key as well; refused without one when
there are fields to encrypt), `DiffEncrypted`
(`KindFields.Diff`: what is masked is not encrypted; and the display for an output that
is no terminal). The command `update` then goes through `Validate`; the export does not.
`Validate` may refuse any configuration, for the templates of file names are not in the model.
Paths of fields are compared as the strings they are joined to, as `diffFields` does,
and TLC looks into these strings: the settings "d" and "data" are in the run.

`Selection` goes on with `listResources` (`ListResources`), the queries of each kind
(`ExportKind`: every namespace once per mention, kinds of the cluster once) and
`IsInstanceExcluded`. An instance is given with its kind, namespace, the kinds of its
owners, the field values it has, and whether it is too old; `NoNamespace` is the one of the
cluster's kinds and of the query for all. `times` counts how often each
was exported.

### Objects and Fields

An object is a function from its paths (map keys and list positions) to nodes of a kind:
map, list, string, integer and so on. A text is the *set of pieces of information* it
shows: a map that is printed as a text shows what its values show, a mask shows nothing of it,
a cipher text shows nothing and keeps its text together with the key that opens it. That
is what the properties need to tell "hidden" from "in clear" and "can be brought back"
from "lost"; AES itself, and the collisions of checksums, are left out.
`Index` has the positions of a list as they appear in paths; its length bounds that of
lists. `WellFormed` says which functions are objects. `RemoveNestedField`,
`TransformNestedField`, `DoMask`, `DoEncrypt`, `DecryptFields` and `SetNestedField` are the
functions of these names, including what they do when a step on the way is a list or no map
at all. `PreservedValues` is the map `preservedValues` with its keys, which are the paths
below the excluded field: two excluded fields may share one. A map in it is still the
object's, and what is removed from or set in the object changes it too (`Shared`), until it is
cut off: by a removal, or by a value that is set in its place (`held` is then "alone"; what
`SetNestedField` sets is a copy).

`Fields` takes one object through the four functions, and through `decrypt`. Each function
is a loop over configured fields, and an action is one iteration of a loop; `pc` is the loop,
`done` the number of its iterations:

| Action | Code |
|---|---|
| `Collect` | the first loops of `FilterFields`, which fill `preservedValues` (`values`) |
| `Exclude` | one call of `removeNestedField`: first for the excluded fields, then for those of the kind (`Removals`) |
| `Restore` | one excluded field in the last loops of `FilterFields`: the value of a key (`current`) is set below it, if a preserved field has that key; the range over a Go map takes any of the keys that are left |
| `NextKey` | the end of a turn of that range |
| `Mask`, `Encrypt` | one call of `transformNestedField` in `MaskFields`, in `EncryptFields` |
| `Sort` | one field of `SortSliceFields` |
| `Proceed` | the end of a loop: on to the next one, and finally to the file (`written`) |
| `Decrypt` | `decryptFields`, which ends as `decrypted` or, with a wrong key, as `refused` |

`source` is the object of the cluster and `plain` the one that `EncryptFields` gets; both are
there for the properties. `slices.SortFunc` is any rearrangement of the elements that it may
produce: an ascending one if the comparison is an order, any one otherwise, as with integers
whose differences wrap (`Wrap`; an int has `2 * Half` values), and for the JSON of elements of
other types. Elements of a second type end the process (`panicked`).

### FileCommands

`disk` is what each file holds: object, owner references, and whether a part of the
original is missing. A command has its settings, from which `KeyOf` takes the key
(`evaluateAesKey`, and for `encrypt` once more `Setup`), and its files. The key of a Secret
in the cluster is read with the configuration, which a key of a wrong size in the
environment refuses (`ConfigRefused`); without any other key, one is asked for (`typed`); `todo`, `mem`,
`pc` are where it is. `Read`, `Encrypt`, `Decrypt`, `Truncate` and `PrintObj` are
the steps for one file: `WriteFile` opens and truncates before it prints. Each may fail,
which ends the command, and `Killed` ends it between any two. `UpdateReference` is one
turn of the loop in `updateFile` with `findOwner` and its cache `owners`, `UpdateFile` its
end. `rows` is what is reported: a row names the file, and kind and name of the reference. After a command the next one may be called, with other settings and other files.
`damaged` is a history variable.

## 3. Runs

| Run | Question | Bounds |
|---|---|---|
| `worker_pool` | are WaitGroup, channels and statistics consistent, is the job the abstract one, does `RunExport` return, also when the pool fails? | 2 workers, 3 kinds, the last one in two configured namespaces, pages of at most 1 item, at most 2 pages per kind |
| `export` | does `Export` wait for the right things, whatever the display, report success only when all is done, show its errors and return? | 2 workers, 2 kinds, at most 2 pages of 1 item each; 8 configurations with mpb, bubbles or no display; every step and the pool may fail |
| `archives` | retention, pruning and uploads of two exporters that share a directory | 4 days, retention of 1 day |
| `file_names` | is each exported instance in a complete file? | 5 instances; 5 setups: one page where case is ignored; pages of two where it is respected, and lists, both with and without a query per namespace |
| `setup` | is exported what was asked for, once, and nothing in clear that is to be encrypted? | 5 kinds, 7 instances; config files that combine all selections, all ways to hide, and all that is validated; 7 sets of flags (one of them empties `--exclude-kinds`), 3 keys in the environment |
| `fields` | are excluded fields gone, preserved ones kept, secrets hidden, the rest untouched, lists sorted, and is decryption the inverse? | 3 objects (one of them with values of unexpected types), 218 configurations, integers of 4 bits (`Half` is 8) |
| `file_commands` | do encryption, decryption and the update of references keep the content of files, in any sequence and with any failure? | 2 files, 3 commands, 5 settings of keys (a key in each place, a variable set to nothing, and keys of a wrong size), 2 sets of owners |

Two workers and three kinds are enough for one worker to take a second kind while
the other one is in the middle of its own, and for `RunExport` to delegate while
workers already finish; a third worker adds no new kind of interference, as
workers share nothing but the job channel, `out` and the WaitGroup. Two pages per
kind give a page that continues and one that ends. Four days with a retention of one
give archives that are due, just not due and fresh, all in one state. In `file_commands`
three commands are an encryption that is interrupted, another with a second key, and a
decryption. In `fields` 4 bits let the difference of -6 and 5 wrap, and the lists have
such integers as well as others; the configurations have excluded fields in one another,
preserved fields in one another and in several excluded ones, and a removal of a part of what
is preserved. For the safety properties of section 5
the theorems do without these bounds.

The `MC` modules also state, as assumptions that TLC evaluates, the conditions under which
some theorems of section 5 hold: the instances that are checked meet them.

The following runs end in a violation, and are findings:

| Run | What the code does |
|---|---|
| `export_bar_lists` | In list mode an excluded instance leaves the bar of its page incomplete; mpb's `Wait` never returns, and neither does `Export` |
| `archives_nested` | A target that is a path is no prefix of the object keys: buckets are never pruned |
| `setup_namespace` | The export never calls `Validate`, and so ignores the namespace of a config file |
| `fields_preserved` | Two excluded fields with a preserved field of the same name get one of the two values |
| `owners` | `updateFile` sets the new UID in a copy of the reference, and writes the file with the old one: no reference of the kind and name in the row has the UID that the row reports |

### Assumptions of the passing runs

Where the code does not do what a property says in general, the property, or the run,
names the case it is about:

* *Displays.* The bubbles display may end the process, when a worker sends before `Run`
  has created the program; and when the pool fails behind a display, mpb waits for the
  main bar and bubbles for a key. `ExportReturns` has both as exceptions. List mode with mpb
  is `export_bar_lists`.
* *Errors.* Only failed list requests are counted; when only files could not be
  written the verbose summary has no error column. `ListErrorsInSummary` is about the former.
* *Archives.* They are kept outside of targets that are cleared (`clearTarget` removes
  them whatever their age); who prunes archives of others (a common beginning of the
  target names in one directory is enough) keeps them as long; uploaders have plain names as
  targets. In section 5 these are conditions of the theorems.
* *Names.* Instances that differ in case only come on one page, or the file system
  tells them apart (the count starts again with each page); no two names become equal
  by replacing characters, as `b:1` and `b_1` would.
* *Masked and encrypted.* A field that is configured to be masked is a prefix of one to be
  encrypted by whole names (`FieldPrefixes`): masking `data` also takes `database` from
  the fields to encrypt, which are then exported in clear.
* *Texts.* `SecretsHidden` is about secrets whose texts are their own (`OwnTexts`): that a
  password is shown by another field as well, nothing in the program could know.
* *Values.* Strings and maps are hidden; a number, a boolean or a list at a masked or
  encrypted path is exported in clear. What was printed as a whole (maps, numbers
  inside of encrypted maps) comes back from decryption as a text. `decrypt` does not look
  into lists, so what was encrypted there stays encrypted.
* *Preserved fields.* `Apart` says when they are kept: they have no key in common (see
  `fields_preserved`); their parent is a map, as otherwise a value may be taken from further
  up; and no removal is between two of them. With `a.b.c` and `a` excluded, `a.b` and `a.b.c.d`
  preserved, it depends on the order of the Go map whether `a.b.c.d` survives: `a.b`, which
  has lost `c`, overwrites it if it is restored last.
* *Lists.* Integers whose difference does not fit are not sorted; a list of several types
  ends the process.
* *Keys.* A key that is asked for is the same for a setting each time. In the settings of
  `NeverRefused` the cluster and the environment do not have
  different keys: `encrypt` prefers that of the environment, `decrypt` that of the
  cluster. `OneKeyPerFile` holds of exports that encrypted the fields of a `Secret` as
  the command does or not at all; with fewer, `encrypt` with a second key leaves a file with two.
* *Owners.* The cache has no kind in its key, so `StaleReported` is about files whose
  references differ in more. Owners without a namespace are asked for in that of the
  object, and are never found.
* *Files.* A file that was truncated by a failure stops every later command that reads it,
  and the files after it in the list are not reached.

Not in any run, but plain in the code: with no worker (`worker: 0`, which only `Validate`
rejects) the export never ends; `masked: null` in a config file ends the process; a
template that cannot be executed fails every file, with exit code 0; the checksum
`sha256` is computed by `sha256.Sum224`.

`CHECK_DEADLOCK FALSE` is set where a behaviour ends: an object is decrypted, refused or
has panicked (`fields`, `fields_preserved`); the configuration failed, is validated, or
the export is done or waits for a worker that does not exist (`setup`,
`setup_namespace`); `MaxCommands` commands were called (`file_commands`, `owners`). In
`export_bar_lists` the program does stop for good, and that is the finding.

## 4. Properties and fairness

Each property is stated in a comment above its definition. Besides one type invariant per
run they are:

* `WgCountsUnfinished`, `NoSendOnClosedOut`, `OutHasRoom`, `NoSharedKind`,
  `NothingAfterClose`: the protocol of `RunExport` and the workers.
* `ImplementsJob`: `WorkerPool` implements `ExportJob`. A kind is finished when its
  worker has called `wg.Done`; the report of a kind is hidden until then.
* `FinishedIsFinal`: reports do not change after `wg.Done`, even if `RunExport`
  gave up.
* `ResultsFinalWhenRead`, `SuccessMeansAllDone`, `ListErrorsInSummary`: `Export`
  against its job and its steps.
* `RunExportReturns`, `ExportReturns`, `SummaryPrinted`: liveness.
* `RetentionRespected`, `OldArchivesGone`, `UploadFindsArchive`, `UploadedWhenOk`:
  archives, by their age, whoever prunes.
* `OwnFile`: what was exported is in a complete file that nothing overwrote.
* `ExportsTheSelection`, `ExportedOnce`, `SecretsCovered`, `NamespacesJoined`: the result of
  an export, or of the setup, against what file, flags and environment ask for.
* `ExcludedFieldsGone`, `OthersUntouched`, `PreservedWhenApart`, `SecretsHidden`,
  `DecryptInverts`, `SlicesSorted`: the file of an object against the object of the cluster.
* `ContentKept`, `LostOnlyByFailure`, `OneKeyPerFile`, `DoneWhenOk`, `NeverRefused`,
  `StaleReported`: the files after any sequence of commands.

Liveness assumes weak fairness of `RunExport`, of `Export`, of the job's goroutine
and of each worker. The Go scheduler runs every goroutine that is not blocked,
and a list request is answered or fails in the end (the server closes it; the
program sets no timeout of its own, `--request-timeout` is 0). It is not assumed that
requests succeed, that the pool or the display's program fails, or that the user presses a key: without one the
bubbles program ends by itself, with the increment of the main bar that would take it
beyond its end. `MaxPages` bounds how often a kind continues; it stands for the
server running out of items.

## 5. Proofs

Proofs use the assumptions on the constants that the modules state (`PoolAssumption`,
`ExportAssumption`, `ArchivesAssumption`, `FileNamesAssumption`, `ConfigAssumption`,
`SelectionAssumption`, `IndexAssumption`, `FieldsAssumption`, `FileCommandsAssumption`), which give the constants their types and
say what objects, kinds and instances the cluster can have; and, for some theorems, conditions
that are part of their statements. In each module there is one inductive invariant or a few,
one lemma per action or group of actions that keeps it, one that joins these, and short
theorems that follow.

**`WorkerPoolProofs`**, for all numbers of kinds, workers, namespaces and pages:
`TypeCorrect`, `WaitGroupCorrect`, `ClosedOutIsSafe`, `SendNeverBlocks`,
`KindsNotShared` for the invariants and `QuietAfterClose`, `FinishedKindsAreFinal` for the
action properties, from `IInv` (`Inductive`). The properties are not inductive by
themselves: that `wg` counts the unfinished kinds does not say which kinds the busy
workers have, so a `Take` could hand out one that is already held; that `out` has room
needs the number of kinds already sent; that nothing is sent after the close needs the
phase of `RunExport`. `IInv` adds how `main` relates to the counters (nothing is
delegated before `wg.Add`, all is before `Wait`), that busy workers hold kinds that were
taken, each its own, and that `out` has exactly the kinds taken but not yet sent by a
busy worker. Lemmas about data (`StatsUpdates`, `QueryCountPositive`, `PageNamespaces`)
carry the types of records through the updates.

`PoolImplementsJob` proves the refinement `ImplementsJob`: the initial states map to initial
states of `ExportJob`, and each step to a step of it or to a stutter. A `Done` is a `Finish`; the
`Return` is the `Succeed`, for which the statistics must follow from the reports of all kinds.
`JInv` carries that: what the workers have in their statistics sums up to what the kinds
accounted so far report (`SumsMatch`), a failed kind has a worker that counted it
(`ErrorsMatch`), the total is the sum over the workers collected so far (`TotalMatches`), and a
kind that was received was visited, unless its worker is about to (`VisitedOrListed`). The
provers know nothing of folds, so a sum over kinds is stated as the number of pairs of a kind
and one of its units, and a step as one that adds such pairs.

**`ExportRunProofs`**, for all of these and any set of configurations: `ExportTypeCorrect`,
`ResultsAreFinal`, `SuccessIsComplete`, `ListErrorsAreShown`, and `ExportRunsTheJob`, by
which a run is a behaviour of `WorkerPool` and has its invariants. The properties speak of
the end of a run; `EInv` says at each place of `Export` where the job is, that its
statistics were added exactly if it is over and succeeded, and that without an error the
steps done are the wanted ones before the current one. That the main bar never passes its
end, which is in the type invariant, needs `MainBarCounts`: the bar and the workers that still
have to raise it make up the kinds taken. `ListErrorsAreShown` needs a second
invariant, `ErrorsCounted`: a kind with a failed request has a worker that counted it, and
the sum contains the workers added so far, in whatever order errors and workers come.

**`ArchivesProofs`**, for any number of exporters, directories and days:
`ArchivesTypeCorrect`; `UploadsFindTheirs` and `GoodRunsUpload` if no exporter clears a
directory that archives are kept in (`KeptOutside`); `ArchivesStay` if, moreover, who prunes
the archives of another exporter keeps them as long at least (`PrunesNoYounger`);
`DueArchivesGo` if uploaders have plain names as targets (`PlainTargets`). `AInv` says what
a run did in its earlier phases and still holds in its later ones: its archive is
there, the directory has been pruned, the object is in the S3 bucket, which has been pruned
unless the listing was skipped. Others prune in the meantime, but never what is of today,
and add only archives of today; that a new day waits for runs to end is a step of
the model (`NextDay`).

**`FileNamesProofs`**, for any instances, case mapping, replaced signs, page size and
file system: `ExportsAreKept` (`OwnFile`) if the names are apart (`NamesApart`), and
`PlainNamesAreApart`, which says that they are when no name has a sign that is replaced or
the separator, and all are lower case if there are pages on a file system that ignores case;
the names of most kinds of Kubernetes satisfy this. `NamesApart` is needed: with `b`, `B` and `b:1` on a
page, the second of the first two and the last may both be written to `b_1`. `NInv` says that each item written has a file under a number that no later item of its
page gets, because the numbers given and the items waiting make up the instances of a key; in
list mode, that no item of a written namespace is still on the page; and without a limit that
the queries made are answered as a whole.

**`SelectionProofs`**, for any config files, flags, keys, kinds and instances:
`SelectionTypeCorrect`, `SecretsAreCovered`, `NamespacesAreJoined`, `SelectionIsExported`,
`EachIsExportedOnce`. `SInv` says at each step of `readConfig` what the configuration is, in
terms of file, flags and environment: the properties compare the result with what was given,
not with the step before. During the export it says that an instance of a kind that was
taken was exported as often as there are queries that find it, and others never.

**`ObjectsProofs`** has lemmas about the functions of `Objects`, for any well-formed object:
which paths a field reaches (`Reaches`, and that a path determines the field), what
`RemoveNestedField`, `TransformNestedField` and `DecryptFields` leave and change, and that all of
them give well-formed objects again. Encrypting a list of fields is a recursive function; what
it does to an object is proved by the least field of the list after which it would not hold
(`LeastOf`). `EncryptsTo` is the relation between an object and what encryption with a key
makes of it: it goes through one field after the other, and says all that the commands and
the export need.

**`FieldsProofs`**, for any objects of the cluster (any depth, any number of fields and list
elements, any kinds of values in unexpected places), any configuration, keys, order of texts and
width of integers. The loops are steps of the model, so each invariant says what holds after
`done` iterations:

* `FieldsTypesAreCorrect` (`FieldsTypeOK`), from `TypeInv`: moreover a preserved value is well
  formed wherever it is set (`Taken`), and nothing is encrypted before `EncryptFields`. That
  a list has no gap is what removals, restoring and sorting could break.
* `ExcludedFieldsAreGone` (`ExcludedFieldsGone`), from `ExcludedInv`: the removals so far have
  left nothing that they reach. Restoring adds only below a preserved field, and the maps above
  it; masking and encryption add no path, and sorting moves elements below a list,
  which changes no key that a removal goes by. So it holds up to the end.
* `OthersAreUntouched` (`OthersUntouched`), from `UntouchedInv`: what nothing speaks of is at each
  step what it was in the cluster. A preserved field is below an excluded one, so restoring
  sets only what is spoken of.
* `PreservedFieldsAreKept` (`PreservedWhenApart`), from `PreservedInv`: a key still to be
  restored has the value that the field has in the cluster, less what is removed from it; it
  no longer shares its map with the object, because the removals have cut it off
  (`ExcludedInv`); a key that was restored has left its field there, and no later key takes it
  away again. The
  last is where `Apart` is needed: of two preserved fields in one another, the outer one, set later,
  contains what the inner one had, because nothing is removed in between.
* `SecretsAreHidden` (`SecretsHidden`) if preserved fields are apart and secrets have their own
  texts, from `HiddenInv`: each node is one of the cluster or hidden (`Veiled`), and nothing of the
  fields that the loops have been through is shown (`Covered`). `Apart` is needed because
  otherwise the value of a secret may be set as that of another field.
* `DecryptionInverts` (`DecryptInverts`), from `EncryptionInv` and `DecryptedInv`: before the lists
  are sorted, the object is an encryption of the plain one in the sense of `EncryptsTo`; sorting
  moves nothing that is outside of lists.
* `SlicesAreSorted` (`SlicesSorted`) if preserved fields are apart, from `SortingInv`: a list of the
  object before the sorting has the elements it has in the cluster (`Lists`), and a list that is
  sorted stays so while others are: configured fields are keys only, so that no sorted list lies
  in another.

**`FileCommandsProofs`**, for any files, objects, fields, keys, settings, owners and number of
commands:

* `NothingElseIsLost` (`LostOnlyByFailure`). `FInv` adds that a file in memory lacks a part
  only if its file was damaged before, and that the file that is truncated is the one that
  is printed next.
* `FilesTypeCorrect`, from `TInv`: objects stay well formed in the files and in memory, and each
  step belongs to the command that is called.
* `DecryptNeverRefused`, from `KInv`: the values in files and in memory have keys of
  settings that were used. With one setting, that neither overrides its own key, there is
  only one.
* `ContentIsKept` if the values that are encrypted are scalars (`ValuesAreScalars`), from
  `CInv`: each object is the original, or a part of it, with the texts it had. The
  condition is needed: a map that is printed as a whole comes back as a text.
* `FilesHaveOneKey` and `CommandsDoAll` if, moreover, an export encrypts both fields of a
  Secret or none (`SecretsAreWhole`), from `OInv` and `DInv`. The former adds that a Secret with
  any value encrypted has all of them encrypted, so that nothing is left for another key; the
  latter that each file of the command is done or still to be taken, and that what is in memory
  is done when it is printed. Without the condition `encrypt` finds a Secret encrypted in part,
  and encrypts the rest with its own key.
* `StaleIsReported`, from `RInv`: the owners in the cache are those of earlier references of
  the same file, whose keys differ from that of the next one (`DistinctOwners`, in the
  property); references before the current one that are stale have a row, and each row
  is what was found.

Only model-checked are

* liveness, and whatever depends on an action being enabled, which the prover does not know;
* that the conditions of theorems hold of what exports and clusters look like in practice.

## 6. Not modelled

* Drawing of the displays, logging, formatting of tables, the format of files and
  archives, the OTLP protocol, the creation of API clients, reading one Secret
  (`internal/secret`): no state or pure output. `metrics` is one of the steps of
  `ExportRun`, done or failed.
* Parsing of YAML and flags, and settings that are only passed on.
* The errors of closing the writers of an archive, which `tarGz` ignores: they arise in
  the file system after the function has its result.
* Contexts: an interrupt makes requests fail, which `ListError` and the failing
  steps cover.
* Templates for file names other than the default ones.
* Generated code: mocks, the table of flags.

## 7. What is left

* File names under other templates, with several workers writing at the same time.
