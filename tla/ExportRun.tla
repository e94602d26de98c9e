------------------------------ MODULE ExportRun ------------------------------
(***************************************************************************)
(* One run of the exporter: exporter.Export (internal/export/export.go)    *)
(* around the export job of WorkerPool and the progress display            *)
(* (internal/export/progress).                                             *)
(*                                                                         *)
(* Export purges the target, discovers the kinds and starts the job: inline *)
(* when the display is not asynchronous, in a goroutine of its own         *)
(* otherwise.  It then runs the display, waits for the job, and goes       *)
(* through the steps that follow an export: summary, metrics, archive,     *)
(* pruning, uploads.  Each way out passes the deferred wait for the job    *)
(* and the deferred printStats.                                            *)
(*                                                                         *)
(* The three displays differ in when Run returns and in what the workers'  *)
(* calls need:                                                             *)
(*   nop      Run returns at once and nothing is shown;                    *)
(*   bar      (mpb) Run returns when every bar ever added is complete: the *)
(*            main bar, and two bars per page;                             *)
(*   bubbles  Run creates the program the workers send their messages to,  *)
(*            and returns when it quits: on any key, or once all kinds     *)
(*            are done.                                                    *)
(***************************************************************************)
EXTENDS WorkerPool

CONSTANTS
    Options,      \* the configurations that are considered
    StepsMayFail  \* TRUE iff a step other than the job may return an error

\* What Export depends on: the display, whether a page is exported as lists or item
\* by item (config.AsLists), and the steps that are asked for.
Option == [display : {"nop", "bar", "bubbles"}, lists : BOOLEAN,
           clearTarget : BOOLEAN, summary : BOOLEAN, verbose : BOOLEAN,
           metrics : BOOLEAN, archive : BOOLEAN, retention : BOOLEAN,
           s3 : BOOLEAN, gcs : BOOLEAN]

ASSUME ExportAssumption ==
    /\ N > 0
    /\ Options \subseteq Option
    /\ StepsMayFail \in BOOLEAN

VARIABLES
    exp,       \* where Export is
    opts,      \* the configuration of this run
    job,       \* the goroutine that runs RunExport: "none", "running", "over"
    estats,    \* e.stats
    mainBar,   \* how often the main bar was incremented
    openBars,  \* bars that were left incomplete when the next one was added
    program,   \* b.program: "nil", "new", "running", "ended"
    done,      \* the steps after the job that were carried out
    err        \* TRUE iff Export returns an error

exportVars == <<exp, opts, job, estats, mainBar, openBars, program, done, err>>
vars == <<poolVars, exportVars>>

Async == opts.display # "nop"

\* The steps after the job, in their order, and what each one depends on.
PostSteps == <<"summary", "metrics", "archive", "prune", "s3", "gcs">>
Post == {PostSteps[i] : i \in DOMAIN PostSteps}

Wanted(step) ==
    CASE step = "summary" -> opts.summary
      [] step = "metrics" -> opts.metrics
      [] step = "archive" -> opts.archive
      [] step = "prune"   -> opts.archive /\ opts.retention
      [] step = "s3"      -> opts.archive /\ opts.s3
      [] step = "gcs"     -> opts.archive /\ opts.gcs

After(step) ==
    LET i == CHOOSE j \in DOMAIN PostSteps : PostSteps[j] = step
    IN  IF i = Len(PostSteps) THEN "leave" ELSE PostSteps[i + 1]

\* printSummary has a column for the errors of the kinds.
ErrorColumn == opts.verbose /\ estats.errors > 0

ExportInit ==
    /\ Init
    /\ exp = "purge"
    /\ opts \in Options
    /\ job = "none"
    /\ estats = NoStats
    /\ mainBar = 0
    /\ openBars = 0
    /\ program = "nil"
    /\ done = {}
    /\ err = FALSE

----------------------------------------------------------------------------
(* Export up to the job *)

displayVars == <<mainBar, openBars, program>>

Fail ==
    /\ err' = TRUE
    /\ exp' = "leave"

\* purgeTarget, when the target is to be cleared.
Purge ==
    /\ exp = "purge"
    /\ \/ exp' = "discover" /\ UNCHANGED err
       \/ opts.clearTarget /\ StepsMayFail /\ Fail
    /\ UNCHANGED <<poolVars, opts, job, estats, displayVars, done>>

\* listResources fails, finds nothing to export, or finds the N kinds.
Discover ==
    /\ exp = "discover"
    /\ \/ StepsMayFail /\ Fail
       \/ exp' = "leave" /\ UNCHANGED err
       \/ exp' = "start" /\ UNCHANGED err
    /\ UNCHANGED <<poolVars, opts, job, estats, displayVars, done>>

\* With an asynchronous display the job becomes a goroutine and Export goes on to
\* run the display; otherwise Export itself runs the job.
StartJob ==
    /\ exp = "start"
    /\ job' = "running"
    /\ exp' = IF Async THEN "display" ELSE "inline"
    /\ UNCHANGED <<poolVars, opts, estats, displayVars, done, err>>

\* Mutant: the statistics are not added to those of the exporter.
JobOverNotAdded ==
    /\ job = "running"
    /\ main \in {"returned", "failed"}
    /\ job' = "over"
    /\ UNCHANGED <<poolVars, exp, opts, estats, displayVars, done, err>>

\* RunExport is back: its statistics, if any, are added to those of the exporter,
\* and done is closed.
JobOver ==
    /\ job = "running"
    /\ main \in {"returned", "failed"}
    /\ job' = "over"
    /\ estats' = IF main = "returned" THEN AddStats(estats, total) ELSE estats
    /\ UNCHANGED <<poolVars, exp, opts, displayVars, done, err>>

InlineOver ==
    /\ exp = "inline"
    /\ job = "over"
    /\ exp' = "display"
    /\ UNCHANGED <<poolVars, opts, job, estats, displayVars, done, err>>

----------------------------------------------------------------------------
(* prog.Run *)

RunNop ==
    /\ opts.display = "nop"
    /\ exp = "display"
    /\ exp' = "await"
    /\ UNCHANGED <<poolVars, opts, job, estats, displayVars, done, err>>

\* mpb's Wait: every bar has to be complete.
RunBar ==
    /\ opts.display = "bar"
    /\ exp = "display"
    /\ mainBar = N
    /\ openBars = 0
    /\ exp' = "await"
    /\ UNCHANGED <<poolVars, opts, job, estats, displayVars, done, err>>

NewProgram ==
    /\ opts.display = "bubbles"
    /\ exp = "display"
    /\ program = "nil"
    /\ program' = "new"
    /\ UNCHANGED <<poolVars, exp, opts, job, estats, mainBar, openBars, done, err>>

\* The program starts to process messages.
RunProgram ==
    /\ program = "new"
    /\ program' = "running"
    /\ UNCHANGED <<poolVars, exp, opts, job, estats, mainBar, openBars, done, err>>

\* The program cannot be started, or ends with an error while it runs.
ProgramFails ==
    /\ program \in {"new", "running"}
    /\ StepsMayFail
    /\ program' = "ended"
    /\ Fail
    /\ UNCHANGED <<poolVars, opts, job, estats, mainBar, openBars, done>>

\* The main bar starts at 1/N and is full one kind early: the program quits with
\* the increment that would take it beyond 1.
ProgramCompletes ==
    /\ program = "running"
    /\ mainBar = N
    /\ program' = "ended"
    /\ exp' = "await"
    /\ UNCHANGED <<poolVars, opts, job, estats, mainBar, openBars, done, err>>

\* The user presses a key: the program quits at any time.
KeyPressed ==
    /\ program = "running"
    /\ program' = "ended"
    /\ exp' = "await"
    /\ UNCHANGED <<poolVars, opts, job, estats, mainBar, openBars, done, err>>

RunDisplay == RunNop \/ RunBar \/ NewProgram \/ RunProgram \/ ProgramCompletes

----------------------------------------------------------------------------
(* The job, with the calls of its workers to the display *)

\* A worker calls the display with every list request and page: the program must
\* be there and processing messages (or have ended: the messages are dropped).
DisplayAnswers == opts.display = "bubbles" => program \in {"running", "ended"}

\* The first message finds b.program still nil.
Crash(w) ==
    /\ opts.display = "bubbles"
    /\ wpc[w] = "list"
    /\ program = "nil"
    /\ exp' = "crashed"
    /\ UNCHANGED <<poolVars, opts, job, estats, displayVars, done, err>>

\* The bar of a page of n items is raised by one per item, or in list mode by
\* the length of every list written; the next bar replaces it either way.
BarLeftOpen(p) == opts.lists /\ p.exported + p.failed < p.items

\* Mutant: the main bar counts pages.
DisplayedPageOnMainBar(w, p, more) ==
    /\ DisplayAnswers
    /\ more => ~ opts.lists
    /\ ListPage(w, p, more)
    /\ openBars' = IF opts.display = "bar" /\ BarLeftOpen(p) THEN openBars + 1 ELSE openBars
    /\ mainBar' = mainBar + 1

\* Lists are not paginated.
DisplayedPage(w, p, more) ==
    /\ DisplayAnswers
    /\ more => ~ opts.lists
    /\ ListPage(w, p, more)
    /\ openBars' = IF opts.display = "bar" /\ BarLeftOpen(p) THEN openBars + 1 ELSE openBars
    /\ UNCHANGED mainBar

DisplayedError(w) ==
    /\ DisplayAnswers
    /\ ListError(w)
    /\ UNCHANGED <<mainBar, openBars>>

DisplayedAccount(w) ==
    /\ DisplayAnswers
    /\ Account(w)
    /\ mainBar' = mainBar + 1
    /\ UNCHANGED openBars

JobRuns ==
    /\ job = "running"
    /\ RunExport
    /\ UNCHANGED exportVars

WorkerRuns(w) ==
    /\ job # "none"
    /\ \/ Take(w) /\ UNCHANGED <<mainBar, openBars>>
       \/ DisplayedError(w)
       \/ /\ wpc[w] = "list"
          /\ \E p \in PagesOf(cur[w], nsDone[w] + 1), more \in BOOLEAN :
                DisplayedPage(w, p, more)
       \/ DisplayedAccount(w)
       \/ (Send(w) \/ Done(w)) /\ UNCHANGED <<mainBar, openBars>>
    /\ UNCHANGED <<exp, opts, job, estats, program, done, err>>

----------------------------------------------------------------------------
(* Export after the job *)

\* Mutants: Export does not wait for the job once the display is done; it
\* starts with the second step.
AwaitNothing ==
    /\ exp = "await"
    /\ IF main = "failed"
         THEN Fail
         ELSE exp' = PostSteps[1] /\ UNCHANGED err
    /\ UNCHANGED <<poolVars, opts, job, estats, displayVars, done>>

AwaitSkipsSummary ==
    /\ exp = "await"
    /\ job = "over"
    /\ IF main = "failed"
         THEN Fail
         ELSE exp' = PostSteps[2] /\ UNCHANGED err
    /\ UNCHANGED <<poolVars, opts, job, estats, displayVars, done>>

\* The second wait for the job, and its error.
Await ==
    /\ exp = "await"
    /\ job = "over"
    /\ IF main = "failed"
         THEN Fail
         ELSE exp' = PostSteps[1] /\ UNCHANGED err
    /\ UNCHANGED <<poolVars, opts, job, estats, displayVars, done>>

SkipStep(step) ==
    /\ exp = step
    /\ ~ Wanted(step)
    /\ exp' = After(step)
    /\ UNCHANGED <<poolVars, opts, job, estats, displayVars, done, err>>

\* Mutant: the error of a step is ignored.
DoStepIgnoringError(step) ==
    /\ exp = step
    /\ Wanted(step)
    /\ \/ done' = done \cup {step}
       \/ StepsMayFail /\ UNCHANGED done
    /\ exp' = After(step)
    /\ UNCHANGED <<poolVars, opts, job, estats, displayVars, err>>

\* A step is carried out, or returns an error, which ends the run.
DoStep(step) ==
    /\ exp = step
    /\ Wanted(step)
    /\ \/ done' = done \cup {step} /\ exp' = After(step) /\ UNCHANGED err
       \/ StepsMayFail /\ Fail /\ UNCHANGED done
    /\ UNCHANGED <<poolVars, opts, job, estats, displayVars>>

\* Mutant: the wait is deferred before the job is started, when done is still
\* nil.
LeaveAfterJob ==
    /\ exp = "leave"
    /\ job = "over"
    /\ exp' = "returned"
    /\ UNCHANGED <<poolVars, opts, job, estats, displayVars, done, err>>

\* The deferred calls: the wait for the job, when it was started as a goroutine,
\* and then printStats.
Leave ==
    /\ exp = "leave"
    /\ job # "running"
    /\ exp' = "returned"
    /\ UNCHANGED <<poolVars, opts, job, estats, displayVars, done, err>>

Export ==
    \/ Purge \/ Discover \/ StartJob \/ InlineOver
    \/ RunDisplay \/ Await \/ Leave
    \/ \E step \in Post : SkipStep(step) \/ DoStep(step)

\* Export is back; workers may be left over when the job gave up.
ExportEnded ==
    /\ exp \in {"returned", "crashed"}
    /\ UNCHANGED vars

\* The job gave up, and the display goes on waiting for kinds no worker was given.
DisplayWaits ==
    /\ Async
    /\ exp = "display"
    /\ job = "over"
    /\ main = "failed"
    /\ taken = delegated
    /\ Busy = {}
    /\ UNCHANGED vars

ExportNext ==
    \/ /\ exp # "crashed"
       /\ \/ Export
          \/ KeyPressed
          \/ ProgramFails
          \/ JobRuns
          \/ JobOver
          \/ \E w \in Workers : WorkerRuns(w) \/ Crash(w)
    \/ ExportEnded
    \/ DisplayWaits

ExportFairness ==
    /\ WF_vars(Export)
    /\ WF_vars(exp # "crashed" /\ (JobRuns \/ JobOver))
    /\ \A w \in Workers : WF_vars(exp # "crashed" /\ WorkerRuns(w))

ExportSpec == ExportInit /\ [][ExportNext]_vars /\ ExportFairness

----------------------------------------------------------------------------
(* Properties *)

ExportTypeOK ==
    /\ PoolTypeOK
    /\ exp \in Post \cup {"purge", "discover", "start", "inline", "display", "await",
                          "leave", "returned", "crashed"}
    /\ opts \in Options
    /\ job \in {"none", "running", "over"}
    /\ estats \in Stats
    /\ mainBar \in 0 .. N
    /\ openBars \in Nat
    /\ program \in {"nil", "new", "running", "ended"}
    /\ done \in SUBSET Post
    /\ err \in BOOLEAN

\* What Export reads after the job is final: the steps after the job only see
\* the results of a job that succeeded, and when Export returns, on whichever
\* path, the job is over and printStats shows the statistics it returned.
ResultsFinalWhenRead ==
    /\ exp \in Post => job = "over" /\ main = "returned" /\ estats = total
    /\ exp = "returned" =>
         \/ job = "none" /\ estats = NoStats
         \/ job = "over" /\ estats = (IF main = "returned" THEN total ELSE NoStats)

\* Export reports success only after every step that was configured was carried
\* out, unless there was nothing to export.
SuccessMeansAllDone ==
    exp = "returned" /\ ~ err /\ job = "over" => done = {step \in Post : Wanted(step)}

\* A run whose job succeeded gets to its summary, unless it fails: "--summary
\* If enabled, a summary is printed".
SummaryPrinted ==
    (main = "returned" /\ opts.summary) ~> ("summary" \in done \/ err)

\* Export returns, whatever fails, whether there is a display or not. Two ways
\* out of this are known: the display may have ended the process (Crash), and a
\* job that gave up leaves kinds nobody exports, for which a display waits.
ExportReturns == <>(exp \in {"returned", "crashed"} \/ (main = "failed" /\ Async))

\* The kinds of which the last thing reported is a failed list request.
ListFailed == {r \in Resources : res[r].error = "list"}

\* "--verbose Errors during export are listed in summary": when the server
\* refused to list a kind, the verbose summary has the column that shows it. The
\* workers count the errors, the kinds keep them, and only the sum over the
\* workers decides whether there is a column. (Errors of writing are kept by the
\* kinds but not counted.)
ListErrorsInSummary ==
    "summary" \in done /\ opts.verbose /\ ListFailed # {} => ErrorColumn
=============================================================================
