--------------------------- MODULE ExportRunProofs ---------------------------
(***************************************************************************)
(* Proofs about a run of the exporter, for any number of kinds, workers and *)
(* namespaces and any set of configurations: what Export reads after the   *)
(* job is final, and success means that every configured step was carried  *)
(* out.                                                                    *)
(***************************************************************************)
EXTENDS ExportRun, WorkerPoolProofs

(***************************************************************************)
(* The inductive invariant.  The properties speak of the end of a run only; *)
(* the invariant has to say at each place of Export where the job is, what *)
(* was added to the statistics and which steps are done, on top of the     *)
(* invariant of the job itself.                                            *)
(***************************************************************************)

BeforeJob == {"purge", "discover", "start"}
DuringJob == {"inline", "display", "await"}

\* Where Export is, and where the job is.
ExportAndJob ==
    /\ exp \in BeforeJob => job = "none"
    /\ exp \in DuringJob => job # "none"
    /\ exp \in Post => job = "over" /\ main = "returned"
    /\ job = "none" => exp \in BeforeJob \cup {"leave", "returned"} /\ main = "addWorkers"
    /\ job = "running" => exp # "returned"
    /\ job = "over" => main \in {"returned", "failed"}

\* The statistics are added once, and only those of a job that succeeded.
StatsAdded == estats = IF job = "over" /\ main = "returned" THEN total ELSE NoStats

\* There is a program with bubbles only, and Export shows it as long as it has not
\* ended.
ProgramShown ==
    /\ program # "nil" => opts.display = "bubbles"
    /\ program \in {"new", "running"} => exp = "display"

\* The steps that come before a step.
Earlier(step) ==
    CASE step = "summary" -> {}
      [] step = "metrics" -> {"summary"}
      [] step = "archive" -> {"summary", "metrics"}
      [] step = "prune"   -> {"summary", "metrics", "archive"}
      [] step = "s3"      -> {"summary", "metrics", "archive", "prune"}
      [] step = "gcs"     -> {"summary", "metrics", "archive", "prune", "s3"}

WantedOf(steps) == {step \in steps : Wanted(step)}

\* Without an error, the steps done are the wanted ones up to where Export is.
StepsDone ==
    /\ exp \in BeforeJob \cup DuringJob => done = {} /\ ~ err
    /\ exp \in Post => done = WantedOf(Earlier(exp)) /\ ~ err
    /\ exp \in {"leave", "returned"} /\ job # "none" /\ ~ err => done = WantedOf(Post)
    /\ done # {} => job = "over" /\ main = "returned"

\* The workers whose kind is still to be added to the main bar.
Unaccounted == {w \in Workers : wpc[w] \in {"list", "account"}}

MainBarCounts == mainBar + Cardinality(Unaccounted) = taken

\* What is left of the type invariant.
ExportVarsOK ==
    /\ exp \in Post \cup BeforeJob \cup DuringJob \cup {"leave", "returned", "crashed"}
    /\ opts \in Options
    /\ job \in {"none", "running", "over"}
    /\ mainBar \in Nat
    /\ openBars \in Nat
    /\ program \in {"nil", "new", "running", "ended"}
    /\ done \in SUBSET Post
    /\ err \in BOOLEAN

EInv ==
    /\ IInv
    /\ ExportVarsOK
    /\ ExportAndJob
    /\ StatsAdded
    /\ ProgramShown
    /\ StepsDone
    /\ MainBarCounts

-----------------------------------------------------------------------------

\* The steps in their order.
LEMMA PostValues == Post = {"summary", "metrics", "archive", "prune", "s3", "gcs"}
<1>1. DOMAIN PostSteps = 1 .. 6
  BY DEF PostSteps
<1> QED
  BY <1>1 DEF Post, PostSteps

\* What comes after each step.
LEMMA AfterValues ==
    /\ After("summary") = "metrics" /\ After("metrics") = "archive"
    /\ After("archive") = "prune" /\ After("prune") = "s3"
    /\ After("s3") = "gcs" /\ After("gcs") = "leave"
<1>1. DOMAIN PostSteps = 1 .. 6 /\ Len(PostSteps) = 6
  BY DEF PostSteps
<1>2. /\ PostSteps[1] = "summary" /\ PostSteps[2] = "metrics" /\ PostSteps[3] = "archive"
      /\ PostSteps[4] = "prune" /\ PostSteps[5] = "s3" /\ PostSteps[6] = "gcs"
  BY DEF PostSteps
<1>3. ASSUME NEW i \in 1 .. 6
      PROVE  (CHOOSE j \in DOMAIN PostSteps : PostSteps[j] = PostSteps[i]) = i
  BY <1>1, <1>2
<1>4. ASSUME NEW i \in 1 .. 6
      PROVE  After(PostSteps[i]) = IF i = 6 THEN "leave" ELSE PostSteps[i + 1]
  <2> DEFINE place == CHOOSE j \in DOMAIN PostSteps : PostSteps[j] = PostSteps[i]
  <2>1. place = i
    BY <1>3
  <2>2. After(PostSteps[i]) = IF place = Len(PostSteps) THEN "leave" ELSE PostSteps[place + 1]
    BY DEF After
  <2> HIDE DEF place
  <2> QED
    BY <1>1, <2>1, <2>2
<1> QED
  BY <1>2, <1>4

\* Each step follows the ones before it.
LEMMA StepOrder ==
    ASSUME NEW step \in Post
    PROVE  \/ After(step) = "leave" /\ Post = Earlier(step) \cup {step}
           \/ After(step) \in Post /\ Earlier(After(step)) = Earlier(step) \cup {step}
BY PostValues, AfterValues DEF Earlier

\* The names of the steps are no other places of Export.
LEMMA PlacesDiffer ==
    Post \cap (BeforeJob \cup DuringJob \cup {"leave", "returned", "crashed"}) = {}
BY PostValues DEF BeforeJob, DuringJob

\* The first sum is the job's result.
LEMMA FirstSum == ASSUME NEW s \in Stats PROVE AddStats(NoStats, s) = s
BY DEF AddStats, NoStats, Stats

-----------------------------------------------------------------------------

\* Export starts with nothing done and no job.
LEMMA ExportInitEInv == ExportInit => EInv
<1> SUFFICES ASSUME ExportInit PROVE EInv
  OBVIOUS
<1> USE DEF ExportInit
<1>1. IInv
  BY InitIInv
<1>2. Unaccounted = {} /\ Cardinality({}) = 0
  BY FS_EmptySet DEF Init, Unaccounted
<1>3. MainBarCounts
  BY <1>2 DEF Init, MainBarCounts
<1>4. ExportVarsOK /\ ExportAndJob /\ StatsAdded /\ ProgramShown
  BY PlacesDiffer DEF Init, ExportVarsOK, ExportAndJob, StatsAdded, ProgramShown, BeforeJob, DuringJob
<1>5. StepsDone
  BY PlacesDiffer DEF StepsDone, BeforeJob, DuringJob
<1> QED
  BY <1>1, <1>3, <1>4, <1>5 DEF EInv

\* A step that leaves the job alone keeps the invariant of the job.
LEMMA JobUntouched ==
    ASSUME EInv, UNCHANGED <<poolVars, mainBar>> PROVE IInv' /\ MainBarCounts'
<1>1. IInv'
  BY NextIInv DEF EInv
<1>2. Unaccounted' = Unaccounted /\ taken' = taken
  BY DEF poolVars, Unaccounted
<1> QED
  BY <1>1, <1>2 DEF EInv, MainBarCounts

\* The statistics stay added as long as the job stays where it is.
LEMMA StatsUntouched ==
    ASSUME EInv, UNCHANGED <<poolVars, job, estats>> PROVE StatsAdded'
BY DEF EInv, StatsAdded, poolVars

\* What is wanted does not change.
LEMMA WantedUntouched == ASSUME UNCHANGED opts PROVE \A steps : WantedOf(steps)' = WantedOf(steps)
BY DEF WantedOf, Wanted

\* Up to the job nothing is done, and an error leaves at once.
LEMMA BeforeJobEInv == ASSUME EInv, Purge \/ Discover \/ StartJob PROVE EInv'
<1> USE DEF EInv, Purge, Discover, StartJob, displayVars, Fail
<1>1. IInv' /\ MainBarCounts'
  BY JobUntouched
<1>2. exp \in BeforeJob /\ job = "none" /\ done = {} /\ ~ err /\ main = "addWorkers"
  BY DEF BeforeJob, ExportAndJob, StepsDone
<1>3. ExportVarsOK' /\ ProgramShown'
  BY <1>2 DEF ExportVarsOK, ProgramShown, BeforeJob, DuringJob
<1>4. ExportAndJob' /\ StatsAdded'
  BY <1>2, PlacesDiffer DEF ExportAndJob, StatsAdded, BeforeJob, DuringJob, poolVars
<1>5. StepsDone'
  BY <1>2, PlacesDiffer DEF StepsDone, BeforeJob, DuringJob
<1> QED
  BY <1>1, <1>3, <1>4, <1>5

\* The display, however it ends, does not wait for the job.
LEMMA DisplayEInv == ASSUME EInv, InlineOver \/ RunDisplay \/ KeyPressed \/ ProgramFails PROVE EInv'
<1> USE DEF EInv, InlineOver, RunDisplay, RunNop, RunBar, NewProgram, RunProgram, ProgramCompletes,
            KeyPressed, ProgramFails, displayVars, Fail
<1>1. IInv' /\ MainBarCounts'
  BY JobUntouched
<1>2. exp \in {"inline", "display"} /\ UNCHANGED <<poolVars, opts, job, estats, done>>
  BY DEF ProgramShown
<1>3. job # "none" /\ done = {} /\ ~ err
  BY <1>2 DEF DuringJob, ExportAndJob, StepsDone
<1>4. \/ exp' \in {"display", "await"} /\ err' = err
      \/ exp' = "leave" /\ err'
  BY <1>2 DEF ProgramShown
<1>5. ExportVarsOK'
  BY <1>2, <1>4 DEF ExportVarsOK, BeforeJob, DuringJob
<1>6. ProgramShown'
  BY <1>2 DEF ProgramShown, ExportVarsOK
<1>7. ExportAndJob' /\ StatsAdded'
  BY <1>2, <1>3, <1>4, PlacesDiffer, StatsUntouched
     DEF ExportAndJob, BeforeJob, DuringJob, poolVars
<1>8. StepsDone'
  BY <1>2, <1>3, <1>4, PlacesDiffer DEF StepsDone, BeforeJob, DuringJob
<1> QED
  BY <1>1, <1>5, <1>6, <1>7, <1>8

\* After the wait the job is over; its error ends the run.
LEMMA AwaitEInv == ASSUME EInv, Await PROVE EInv'
<1> USE DEF EInv, Await, displayVars, Fail
<1>1. IInv' /\ MainBarCounts'
  BY JobUntouched
<1>2. /\ job = "over" /\ main \in {"returned", "failed"} /\ done = {} /\ ~ err
      /\ UNCHANGED <<poolVars, opts, job, estats, done, program, openBars, mainBar>>
  BY DEF ExportAndJob, StepsDone, DuringJob
<1>3. \/ main = "returned" /\ exp' = "summary" /\ ~ err'
      \/ exp' = "leave" /\ err'
  BY <1>2 DEF PostSteps
<1>4. ExportVarsOK' /\ ProgramShown'
  BY <1>2, <1>3, PostValues, PlacesDiffer
     DEF ExportVarsOK, ProgramShown, BeforeJob, DuringJob
<1>5. ExportAndJob' /\ StatsAdded'
  BY <1>2, <1>3, PlacesDiffer, PostValues, StatsUntouched DEF ExportAndJob, BeforeJob, DuringJob, poolVars
<1>6. StepsDone'
  BY <1>2, <1>3, PlacesDiffer, PostValues DEF StepsDone, Earlier, WantedOf, BeforeJob, DuringJob
<1> QED
  BY <1>1, <1>4, <1>5, <1>6

\* A step after the job adds itself to what is done, exactly if it is wanted.
LEMMA PostStepEInv ==
    ASSUME EInv, NEW step \in Post, SkipStep(step) \/ DoStep(step) PROVE EInv'
<1> USE DEF EInv, SkipStep, DoStep, displayVars, Fail
<1>1. IInv' /\ MainBarCounts'
  BY JobUntouched
<1>2. /\ exp = step /\ job = "over" /\ main = "returned" /\ ~ err
      /\ done = WantedOf(Earlier(step))
      /\ UNCHANGED <<poolVars, opts, job, estats, program, openBars, mainBar>>
  BY DEF ExportAndJob, StepsDone
<1>3. \/ /\ exp' = After(step) /\ ~ err'
         /\ done' = WantedOf(Earlier(step) \cup {step})
      \/ exp' = "leave" /\ err' /\ done' = done
  BY <1>2 DEF WantedOf
<1>4. err' \in BOOLEAN /\ done' \in SUBSET Post
  BY <1>2 DEF ExportVarsOK
<1>5. exp' \in Post \cup {"leave"}
  BY <1>3, StepOrder
<1>6. ExportVarsOK' /\ ProgramShown'
  BY <1>2, <1>4, <1>5, PlacesDiffer DEF ExportVarsOK, ProgramShown, BeforeJob, DuringJob
<1>7. ExportAndJob' /\ StatsAdded'
  BY <1>2, <1>5, PlacesDiffer, StatsUntouched DEF ExportAndJob, BeforeJob, DuringJob, poolVars
<1>8. StepsDone'
  <2>1. \A steps : WantedOf(steps)' = WantedOf(steps)
    BY <1>2, WantedUntouched
  <2>2. exp' \notin BeforeJob \cup DuringJob /\ job' = "over" /\ main' = "returned"
    BY <1>2, <1>5, PlacesDiffer DEF BeforeJob, DuringJob, poolVars
  <2>3. CASE exp' = "leave" /\ err'
    BY <2>2, <2>3, PlacesDiffer DEF StepsDone
  <2>4. CASE exp' = After(step) /\ ~ err' /\ done' = WantedOf(Earlier(step) \cup {step})
    <3>1. CASE After(step) = "leave" /\ Post = Earlier(step) \cup {step}
      BY <2>1, <2>2, <2>4, <3>1, PlacesDiffer DEF StepsDone
    <3>2. CASE After(step) \in Post /\ Earlier(After(step)) = Earlier(step) \cup {step}
      BY <2>1, <2>2, <2>4, <3>2, PlacesDiffer DEF StepsDone
    <3> QED
      BY <3>1, <3>2, StepOrder
  <2> QED
    BY <1>3, <2>3, <2>4
<1> QED
  BY <1>1, <1>6, <1>7, <1>8

\* The deferred calls end the run once the job is over or was never started.
LEMMA LeaveEInv == ASSUME EInv, Leave PROVE EInv'
<1> USE DEF EInv, Leave, displayVars
<1>1. IInv' /\ MainBarCounts'
  BY JobUntouched
<1>2. \A steps : WantedOf(steps)' = WantedOf(steps)
  BY WantedUntouched
<1>3. ExportVarsOK' /\ ProgramShown' /\ StatsAdded'
  BY StatsUntouched DEF ExportVarsOK, ProgramShown
<1>4. ExportAndJob'
  BY PlacesDiffer DEF ExportAndJob, BeforeJob, DuringJob, poolVars
<1>5. StepsDone'
  BY <1>2, PlacesDiffer DEF StepsDone, BeforeJob, DuringJob, poolVars
<1> QED
  BY <1>1, <1>3, <1>4, <1>5

\* A crash leaves everything else as it is.
LEMMA CrashEInv == ASSUME EInv, NEW w \in Workers, Crash(w) PROVE EInv'
<1> USE DEF EInv, Crash, displayVars
<1>1. IInv' /\ MainBarCounts'
  BY JobUntouched
<1>2. w \in Busy /\ main # "addWorkers"
  BY DEF Busy, IInv, JobsSent, Holding, PoolTypeOK
<1>3. ExportVarsOK' /\ ProgramShown' /\ StatsAdded'
  BY StatsUntouched DEF ExportVarsOK, ProgramShown
<1>4. ExportAndJob'
  BY <1>2, PlacesDiffer DEF ExportAndJob, BeforeJob, DuringJob, poolVars
<1>5. StepsDone'
  BY PlacesDiffer DEF StepsDone, BeforeJob, DuringJob, poolVars
<1> QED
  BY <1>1, <1>3, <1>4, <1>5
-----------------------------------------------------------------------------

\* What the other parts of the invariant say does not depend on the workers.
LEMMA ExportUntouched ==
    ASSUME EInv, UNCHANGED <<exp, opts, job, estats, program, done, err, main, total>>,
           mainBar' \in Nat, openBars' \in Nat
    PROVE  ExportVarsOK' /\ ExportAndJob' /\ StatsAdded' /\ ProgramShown' /\ StepsDone'
<1> USE DEF EInv
<1>1. ExportVarsOK' /\ ExportAndJob' /\ StatsAdded' /\ ProgramShown'
  BY DEF ExportVarsOK, ExportAndJob, StatsAdded, ProgramShown
<1>2. \A steps : WantedOf(steps)' = WantedOf(steps)
  BY WantedUntouched
<1>3. StepsDone'
  BY <1>2 DEF StepsDone
<1> QED
  BY <1>1, <1>3

\* A worker leaves RunExport where it is, and its kind is on the main bar once the
\* worker no longer lists or accounts it.
LEMMA WorkerOnMainBar ==
    ASSUME EInv, NEW w \in Workers, WorkerRuns(w)
    PROVE  /\ UNCHANGED <<main, total>>
           /\ [Next]_poolVars
           /\ mainBar' \in Nat /\ openBars' \in Nat /\ MainBarCounts'
<1> USE DEF EInv, mainVars
<1>1. /\ IsFiniteSet(Unaccounted) /\ Cardinality(Unaccounted) \in Nat
      /\ mainBar \in Nat /\ openBars \in Nat /\ taken \in Nat
  <2>1. Unaccounted \subseteq Workers
    BY DEF Unaccounted
  <2> QED
    BY <2>1, WorkersFinite, FS_Subset, FS_CardinalityType DEF ExportVarsOK, IInv, PoolTypeOK
<1>2. \A v \in Workers : wpc[v] \in {"idle", "list", "account", "send", "done"}
  BY DEF IInv, PoolTypeOK
<1>3. CASE Take(w) /\ UNCHANGED <<mainBar, openBars>>
  <2>1. w \notin Unaccounted /\ Unaccounted' = Unaccounted \cup {w} /\ taken' = taken + 1
    BY <1>2, <1>3 DEF Take, Unaccounted, IInv, PoolTypeOK
  <2>2. Cardinality(Unaccounted') = Cardinality(Unaccounted) + 1
    BY <1>1, <2>1, FS_AddElement
  <2>3. UNCHANGED <<main, total>> /\ Next
    BY <1>3 DEF Take, Next, Work
  <2> QED
    BY <1>1, <1>3, <2>1, <2>2, <2>3 DEF MainBarCounts
<1>4. ASSUME ListError(w) \/ \E p, more : ListPage(w, p, more) PROVE Unaccounted' = Unaccounted
  <2>1. /\ wpc[w] = "list"
        /\ wpc' = wpc \/ \E place \in {"list", "account"} : wpc' = [wpc EXCEPT ![w] = place]
    BY <1>4 DEF ListError, ListPage, NextNamespace
  <2> QED
    BY <2>1 DEF Unaccounted, IInv, PoolTypeOK
<1>5. CASE DisplayedError(w)
  <2>1. UNCHANGED <<main, total, taken, mainBar, openBars>> /\ Next
    BY <1>5 DEF DisplayedError, ListError, Next, Work
  <2> QED
    BY <1>1, <1>4, <1>5, <2>1 DEF MainBarCounts, DisplayedError
<1>6. CASE /\ wpc[w] = "list"
           /\ \E p \in PagesOf(cur[w], nsDone[w] + 1), more \in BOOLEAN :
                 DisplayedPage(w, p, more)
  <2>1. PICK p \in PagesOf(cur[w], nsDone[w] + 1), more \in BOOLEAN : DisplayedPage(w, p, more)
    BY <1>6
  <2>2. ListPage(w, p, more) /\ mainBar' = mainBar /\ openBars' \in {openBars, openBars + 1}
    BY <2>1 DEF DisplayedPage
  <2>3. UNCHANGED <<main, total, taken>> /\ Next
    BY <1>6, <2>2 DEF ListPage, Next, Work
  <2> QED
    BY <1>1, <1>4, <2>2, <2>3 DEF MainBarCounts
<1>7. CASE DisplayedAccount(w)
  <2>1. /\ w \in Unaccounted /\ Unaccounted' = Unaccounted \ {w}
        /\ UNCHANGED <<main, total, taken>> /\ Next
    BY <1>7 DEF DisplayedAccount, Account, Unaccounted, IInv, PoolTypeOK, Next, Work
  <2>2. Cardinality(Unaccounted') = Cardinality(Unaccounted) - 1
    BY <1>1, <2>1, FS_RemoveElement
  <2> QED
    BY <1>1, <1>7, <2>1, <2>2 DEF MainBarCounts, DisplayedAccount
<1>8. CASE (Send(w) \/ Done(w)) /\ UNCHANGED <<mainBar, openBars>>
  <2>1. Unaccounted' = Unaccounted /\ UNCHANGED <<main, total, taken>> /\ Next
    BY <1>8 DEF Send, Done, Unaccounted, IInv, PoolTypeOK, Next, Work
  <2> QED
    BY <1>1, <1>8, <2>1 DEF MainBarCounts
<1> QED
  BY <1>3, <1>5, <1>6, <1>7, <1>8 DEF WorkerRuns

\* A worker keeps the invariant of its job, and disturbs nothing else.
LEMMA WorkerRunsEInv == ASSUME EInv, NEW w \in Workers, WorkerRuns(w) PROVE EInv'
<1>1. /\ UNCHANGED <<main, total>> /\ [Next]_poolVars
      /\ mainBar' \in Nat /\ openBars' \in Nat /\ MainBarCounts'
  BY WorkerOnMainBar
<1>2. UNCHANGED <<exp, opts, job, estats, program, done, err>>
  BY DEF WorkerRuns
<1>3. IInv'
  BY <1>1, NextIInv DEF EInv
<1> QED
  BY <1>1, <1>2, <1>3, ExportUntouched DEF EInv

\* RunExport runs as long as the job does, so Export has not used its results yet.
LEMMA JobRunsEInv == ASSUME EInv, JobRuns PROVE EInv'
<1> USE DEF EInv, JobRuns, exportVars
<1>1. [Next]_poolVars
  BY DEF Next
<1>2. IInv'
  BY <1>1, NextIInv
<1>3. taken' = taken /\ wpc' = wpc
  BY DEF RunExport, AddWorkers, PoolFails, WgAdd, Delegate, Wait, CloseOut, Collect, Return,
         workerVars
<1>4. MainBarCounts'
  BY <1>3 DEF MainBarCounts, Unaccounted
<1>5. ExportVarsOK' /\ ProgramShown'
  BY DEF ExportVarsOK, ProgramShown
<1>6. ExportAndJob' /\ StatsAdded'
  BY DEF ExportAndJob, StatsAdded
<1>7. \A steps : WantedOf(steps)' = WantedOf(steps)
  BY WantedUntouched
<1>8. StepsDone'
  BY <1>7 DEF StepsDone
<1> QED
  BY <1>2, <1>4, <1>5, <1>6, <1>8

\* The job ends with the statistics it returns.
LEMMA JobOverEInv == ASSUME EInv, JobOver PROVE EInv'
<1> USE DEF EInv, JobOver, displayVars
<1>1. IInv' /\ MainBarCounts'
  BY JobUntouched
<1>2. estats = NoStats /\ main \in {"returned", "failed"} /\ total \in Stats
  BY DEF StatsAdded, IInv, PoolTypeOK
<1>3. ExportVarsOK' /\ ProgramShown'
  BY DEF ExportVarsOK, ProgramShown
<1>4. StatsAdded'
  BY <1>2, FirstSum DEF StatsAdded, poolVars
<1>5. ExportAndJob'
  BY <1>2 DEF ExportAndJob, poolVars
<1>6. \A steps : WantedOf(steps)' = WantedOf(steps)
  BY WantedUntouched
<1>7. StepsDone'
  BY <1>6 DEF StepsDone
<1> QED
  BY <1>1, <1>3, <1>4, <1>5, <1>7
-----------------------------------------------------------------------------

\* Every step keeps the invariant.
LEMMA ExportNextEInv == EInv /\ [ExportNext]_vars => EInv'
<1> SUFFICES ASSUME EInv, [ExportNext]_vars PROVE EInv'
  OBVIOUS
<1>1. CASE Export
  BY <1>1, BeforeJobEInv, DisplayEInv, AwaitEInv, PostStepEInv, LeaveEInv DEF Export
<1>2. CASE KeyPressed \/ ProgramFails
  BY <1>2, DisplayEInv
<1>3. CASE JobRuns \/ JobOver
  BY <1>3, JobRunsEInv, JobOverEInv
<1>4. CASE \E w \in Workers : WorkerRuns(w) \/ Crash(w)
  BY <1>4, WorkerRunsEInv, CrashEInv
<1>5. CASE ExportEnded \/ DisplayWaits \/ UNCHANGED vars
  <2>1. UNCHANGED <<poolVars, exportVars>>
    BY <1>5 DEF ExportEnded, DisplayWaits, vars
  <2>2. IInv' /\ MainBarCounts'
    BY <2>1, JobUntouched DEF exportVars
  <2>3. UNCHANGED <<exp, opts, job, estats, program, done, err, main, total, mainBar, openBars>>
    BY <2>1 DEF exportVars, poolVars
  <2> QED
    BY <2>2, <2>3, ExportUntouched DEF EInv, ExportVarsOK
<1> QED
  BY <1>1, <1>2, <1>3, <1>4, <1>5 DEF ExportNext

\* The invariant holds in every reachable state of a run.
THEOREM ExportInductive == ExportSpec => []EInv
BY ExportInitEInv, ExportNextEInv, PTL DEF ExportSpec

\* Every variable of a run keeps its type; the main bar never passes its end.
THEOREM ExportTypeCorrect == ExportSpec => []ExportTypeOK
<1>1. EInv => ExportTypeOK
  <2> SUFFICES ASSUME EInv PROVE ExportTypeOK
    OBVIOUS
  <2> USE DEF EInv
  <2>1. PoolTypeOK
    BY DEF IInv
  <2>2. mainBar \in 0 .. N
    <3>1. Unaccounted \subseteq Workers
      BY DEF Unaccounted
    <3>2. Cardinality(Unaccounted) \in Nat
      BY <3>1, WorkersFinite, FS_Subset, FS_CardinalityType
    <3> QED
      BY <2>1, <3>2, PoolAssumption DEF MainBarCounts, PoolTypeOK, ExportVarsOK
  <2>3. estats \in Stats
    BY <2>1 DEF StatsAdded, PoolTypeOK, NoStats, Stats
  <2> QED
    BY <2>1, <2>2, <2>3 DEF ExportTypeOK, ExportVarsOK, BeforeJob, DuringJob
<1> QED
  BY <1>1, ExportInductive, PTL

\* Export only reads results of a job that is over, on each of its ways out.
THEOREM ResultsAreFinal == ExportSpec => []ResultsFinalWhenRead
<1>1. EInv => ResultsFinalWhenRead
  BY PlacesDiffer DEF EInv, ExportAndJob, ExportVarsOK, StatsAdded, ResultsFinalWhenRead
<1> QED
  BY <1>1, ExportInductive, PTL

\* A run that reports success has carried out each step that is configured.
THEOREM SuccessIsComplete == ExportSpec => []SuccessMeansAllDone
<1>1. EInv => SuccessMeansAllDone
  BY DEF EInv, StepsDone, WantedOf, SuccessMeansAllDone
<1> QED
  BY <1>1, ExportInductive, PTL

\* Each step is one of the job, or leaves the job alone.
LEMMA ExportStepsOfJob == EInv /\ [ExportNext]_vars => [Next]_poolVars
<1> SUFFICES ASSUME EInv, [ExportNext]_vars PROVE [Next]_poolVars
  OBVIOUS
<1>1. CASE Export \/ KeyPressed \/ ProgramFails \/ JobOver \/ ExportEnded \/ DisplayWaits \/ UNCHANGED vars
  BY <1>1 DEF Export, Purge, Discover, StartJob, InlineOver, RunDisplay, RunNop, RunBar, NewProgram,
              RunProgram, ProgramCompletes, Await, Leave, SkipStep, DoStep, KeyPressed, ProgramFails, JobOver,
              ExportEnded, DisplayWaits, vars
<1>2. CASE JobRuns
  BY <1>2 DEF JobRuns, Next
<1>3. CASE \E w \in Workers : WorkerRuns(w) \/ Crash(w)
  BY <1>3, WorkerOnMainBar DEF Crash
<1> QED
  BY <1>1, <1>2, <1>3 DEF ExportNext

\* A run of the exporter runs the job as RunExport specifies it, whatever the
\* display does to its workers, so all invariants of the job hold here as well.
THEOREM ExportRunsTheJob == ExportSpec => Init /\ [][Next]_poolVars
<1>1. ExportInit => Init
  BY DEF ExportInit
<1> QED
  BY <1>1, ExportStepsOfJob, ExportInductive, PTL DEF ExportSpec
-----------------------------------------------------------------------------
(***************************************************************************)
(* The errors of the summary.  A kind keeps its last error only and the    *)
(* summary reads a sum over the workers; they agree through the workers'   *)
(* own counters, which no longer change once they are added up.            *)
(***************************************************************************)

ErrorsCounted ==
    /\ \A r \in Resources : res[r].error = "list" => \E w \in Workers : stats[w].errors > 0
    /\ \A w \in 1 .. collected : stats[w].errors > 0 => total.errors > 0
    /\ main # "collect" /\ main # "returned" => collected = 0
    /\ main = "returned" => collected = W

\* Errors are counted and noted together, and never taken back.
LEMMA ErrorsStayCounted ==
    ASSUME IInv, ErrorsCounted, [Next]_poolVars PROVE ErrorsCounted'
<1> USE PoolAssumption DEF IInv, ErrorsCounted, mainVars, workerVars
<1>1. CASE RunExport /\ ~ Collect
  BY <1>1 DEF RunExport, AddWorkers, PoolFails, WgAdd, Delegate, Wait, CloseOut, Return, PoolTypeOK
<1>2. CASE Collect
  <2>1. /\ collected \in Nat /\ collected + 1 \in Workers /\ collected' = collected + 1
        /\ total'.errors = total.errors + stats[collected + 1].errors
    BY <1>2 DEF Collect, AddStats, PoolTypeOK, Workers
  <2>2. total.errors \in Nat /\ stats[collected + 1].errors \in Nat
    BY <2>1 DEF PoolTypeOK, Stats
  <2>3. \A w \in 1 .. collected' : stats[w].errors > 0 => total'.errors > 0
    BY <2>1, <2>2
  <2> QED
    BY <1>2, <2>3 DEF Collect
<1>3. ASSUME NEW w \in Workers, Work(w)
      PROVE  /\ UNCHANGED <<main, collected, total>>
             /\ main \notin {"collect", "returned"}
             /\ \A v \in Workers : stats[v].errors > 0 => stats'[v].errors > 0
             /\ \A r \in Resources : res'[r].error = "list" =>
                   res[r].error = "list" \/ stats'[w].errors > 0
  <2>1. stats[w].errors \in Nat
    BY DEF PoolTypeOK, Stats
  <2>2. wpc[w] # "idle" \/ taken < delegated
    BY <1>3 DEF Work, Take, ListError, Account, Send, Done
  <2>3. main \notin {"collect", "returned"}
    BY <2>2 DEF Drained, JobsSent, Busy, PoolTypeOK
  <2>4. CASE Take(w) \/ Account(w)
    <3>1. \A v \in Workers : stats'[v].errors = stats[v].errors
      <4>1. \A v \in Workers \ {w} : stats'[v] = stats[v]
        BY <2>4 DEF Take, Account, PoolTypeOK
      <4>2. stats'[w].errors = stats[w].errors
        <5>1. CASE Take(w)
          <6>1. stats'[w] = [stats[w] EXCEPT !.kinds = @ + 1] /\ stats[w] \in Stats
            BY <5>1 DEF Take, PoolTypeOK
          <6> QED
            BY <6>1 DEF Stats
        <5>2. CASE Account(w)
          <6>1. /\ \E i, j : stats'[w] = [stats[w] EXCEPT !.resources = i, !.pages = j]
                /\ stats[w] \in Stats
            BY <5>2 DEF Account, PoolTypeOK
          <6> QED
            BY <6>1 DEF Stats
        <5> QED
          BY <2>4, <5>1, <5>2
      <4> QED
        BY <4>1, <4>2
    <3>2. UNCHANGED <<main, collected, total, res>>
      BY <2>4 DEF Take, Account
    <3> QED
      BY <2>3, <3>1, <3>2
  <2>5. CASE Send(w) \/ Done(w)
    BY <2>3, <2>5 DEF Send, Done
  <2>6. CASE ListError(w)
    <3>1. stats'[w] = [stats[w] EXCEPT !.errors = @ + 1] /\ stats[w] \in Stats
      BY <2>6 DEF ListError, PoolTypeOK
    <3>2. stats'[w].errors > 0
      BY <2>1, <3>1 DEF Stats
    <3>3. \A v \in Workers \ {w} : stats'[v] = stats[v]
      BY <2>6 DEF ListError, PoolTypeOK
    <3> QED
      BY <2>3, <2>6, <3>2, <3>3 DEF ListError
  <2>7. CASE \E p, more : ListPage(w, p, more)
    <3>1. PICK p, more : ListPage(w, p, more)
      BY <2>7
    <3>2. \A r \in Resources : res'[r].error \in {res[r].error, "write"}
      BY <3>1 DEF ListPage, PoolTypeOK
    <3>3. \A v \in Workers : stats'[v].errors = stats[v].errors
      BY <3>1 DEF ListPage, PoolTypeOK, Stats
    <3> QED
      BY <2>3, <3>1, <3>2, <3>3 DEF ListPage
  <2> QED
    BY <1>3, <2>4, <2>5, <2>6, <2>7 DEF Work
<1>4. CASE \E w \in Workers : Work(w)
  <2>1. collected = 0 /\ collected' = 0
    BY <1>3, <1>4
  <2>2. \A r \in Resources : res'[r].error = "list" => \E v \in Workers : stats'[v].errors > 0
    BY <1>3, <1>4
  <2> QED
    BY <1>3, <1>4, <2>1, <2>2
<1>5. CASE Finished \/ UNCHANGED poolVars
  BY <1>5 DEF Finished, poolVars
<1> QED
  BY <1>1, <1>2, <1>4, <1>5 DEF Next

\* The verbose summary has its column when a kind could not be listed, whichever
\* worker met the error and in whatever order the workers are added up.
THEOREM ListErrorsAreShown == ExportSpec => []ListErrorsInSummary
<1>1. ExportInit => ErrorsCounted
  BY PoolAssumption DEF ExportInit, Init, ErrorsCounted, EmptyReport
<1>2. EInv /\ ErrorsCounted /\ [ExportNext]_vars => ErrorsCounted'
  BY ExportStepsOfJob, ErrorsStayCounted DEF EInv
<1>3. EInv /\ ErrorsCounted => ListErrorsInSummary
  <2> SUFFICES ASSUME EInv, ErrorsCounted, "summary" \in done, opts.verbose, NEW r \in ListFailed
               PROVE  ErrorColumn
    BY DEF ListErrorsInSummary
  <2>1. main = "returned" /\ estats = total
    BY DEF EInv, StepsDone, StatsAdded
  <2>2. PICK w \in Workers : stats[w].errors > 0
    BY DEF ListFailed, ErrorsCounted
  <2>3. total.errors > 0
    BY <2>1, <2>2 DEF ErrorsCounted, Workers
  <2> QED
    BY <2>1, <2>3 DEF ErrorColumn
<1> QED
  BY <1>1, <1>2, <1>3, ExportInductive, PTL DEF ExportSpec
=============================================================================
