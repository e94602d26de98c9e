----------------------------- MODULE WorkerPool -----------------------------
(***************************************************************************)
(* The export job of kubexporter: RunExport (internal/export/worker/       *)
(* pool.go) hands the resource kinds found on the cluster to a fixed set   *)
(* of workers through a job channel, waits for all of them on a WaitGroup, *)
(* and adds up the workers' statistics.  A worker (worker.go) lists one    *)
(* kind namespace by namespace and page by page, exports every page, and   *)
(* reports the kind on the channel "out", which nobody ever reads.         *)
(*                                                                         *)
(* The job channel is FIFO and is filled in the order of the slice, so the *)
(* kinds waiting in it are always taken + 1 .. delegated: two counters     *)
(* stand for its content.  Of "out" only the number of buffered entries    *)
(* and whether it is closed can be observed.                               *)
(***************************************************************************)
EXTENDS Integers, Sequences, FiniteSets

CONSTANTS
    N,                 \* number of resource kinds handed to RunExport
    W,                 \* number of workers
    Namespaced,        \* the kinds that are namespaced, a subset of 1..N
    Namespaces,        \* the namespaces of the cluster
    ConfigNamespaces,  \* config.Namespaces, the sequence of namespaces asked for
    Paged,             \* TRUE iff a list request carries a Limit
    MaxItems,          \* bound: items the server puts on a page
    MaxPages,          \* bound: pages of a kind after which there is no continue
    PoolMayFail        \* TRUE iff AddWorker and Delegate may return an error

Resources == 1 .. N
Workers == 1 .. W

ASSUME PoolAssumption ==
    /\ N \in Nat
    /\ W \in Nat
    /\ Namespaced \subseteq Resources
    /\ ConfigNamespaces \in Seq(Namespaces)
    /\ Paged \in BOOLEAN
    /\ MaxItems \in Nat
    /\ MaxPages \in Nat
    /\ PoolMayFail \in BOOLEAN

VARIABLES
    main,       \* where RunExport is
    delegated,  \* number of kinds sent on the job channel
    taken,      \* number of kinds received from it
    wg,         \* counter of the WaitGroup
    out,        \* number of entries buffered in the channel out
    outClosed,  \* TRUE iff out was closed
    wpc,        \* where each worker is
    cur,        \* the kind each worker received last
    nsDone,     \* how many of its namespaces the worker has listed completely
    stats,      \* the statistics each worker keeps
    res,        \* what the workers wrote into each GroupResource
    collected,  \* number of workers whose statistics were added to total
    total       \* the statistics RunExport returns

poolVars == <<main, delegated, taken, wg, out, outClosed, wpc, cur, nsDone,
              stats, res, collected, total>>

----------------------------------------------------------------------------
(* Data *)

Stats == [kinds : Nat, pages : Nat, resources : Nat, errors : Nat,
          namespaces : SUBSET Namespaces]

NoStats == [kinds |-> 0, pages |-> 0, resources |-> 0, errors |-> 0,
            namespaces |-> {}]

\* What a worker reports of a kind. The error is the last one that was set:
\* by a failed list request or by a file that could not be written.
Report == [pages : Nat, instances : Nat, exported : Nat,
           error : {"none", "list", "write"}]

EmptyReport == [pages |-> 0, instances |-> 0, exported |-> 0, error |-> "none"]

\* The sum of two statistics.
AddStats(s, o) ==
    [kinds      |-> s.kinds + o.kinds,
     pages      |-> s.pages + o.pages,
     resources  |-> s.resources + o.resources,
     errors     |-> s.errors + o.errors,
     namespaces |-> s.namespaces \cup o.namespaces]

\* The number of list loops a worker runs for a kind: one per configured
\* namespace, or a single one over everything.
QueryCount(r) ==
    IF r \in Namespaced /\ ConfigNamespaces # <<>> THEN Len(ConfigNamespaces) ELSE 1

\* The namespaces that the items of the k-th list loop of r can lie in.
Visible(r, k) ==
    CASE r \notin Namespaced    -> {}
      [] ConfigNamespaces = <<>> -> Namespaces
      [] OTHER                  -> {ConfigNamespaces[k]}

\* A page of the k-th list loop of r and what its export comes to: every item
\* is exported, excluded, or fails to be written; the namespace of an item
\* counts unless the item is excluded.
PagesOf(r, k) ==
    {p \in [items : 0 .. MaxItems, exported : 0 .. MaxItems, failed : 0 .. MaxItems,
            namespaces : SUBSET Visible(r, k)] :
        /\ p.exported + p.failed <= p.items
        /\ Cardinality(p.namespaces) <= p.exported + p.failed
        /\ r \in Namespaced /\ p.exported + p.failed > 0 => p.namespaces # {}}

\* Mutant: out has one entry less than kinds.
OutTooSmall == N - 1

\* The size of the buffer of out.
OutCapacity == N

----------------------------------------------------------------------------
(* RunExport *)

Init ==
    /\ main = "addWorkers"
    /\ delegated = 0
    /\ taken = 0
    /\ wg = 0
    /\ out = 0
    /\ outClosed = FALSE
    /\ wpc = [w \in Workers |-> "idle"]
    /\ cur = [w \in Workers |-> 0]
    /\ nsDone = [w \in Workers |-> 0]
    /\ stats = [w \in Workers |-> NoStats]
    /\ res = [r \in Resources |-> EmptyReport]
    /\ collected = 0
    /\ total = NoStats

workerVars == <<taken, out, wpc, cur, nsDone, stats, res>>

\* All workers are started; each waits on the job channel.
AddWorkers ==
    /\ main = "addWorkers"
    /\ main' = "add"
    /\ UNCHANGED <<delegated, wg, outClosed, collected, total, workerVars>>

\* AddWorker or Delegate returned an error: RunExport gives up, and leaves the
\* workers, the WaitGroup and the channels as they are.
PoolFails ==
    /\ PoolMayFail
    /\ \/ main = "addWorkers"
       \/ main = "delegate" /\ delegated < N
    /\ main' = "failed"
    /\ UNCHANGED <<delegated, wg, outClosed, collected, total, workerVars>>

\* Mutants: the WaitGroup is raised by one only; by one too many.
WgAddOne ==
    /\ main = "add"
    /\ wg' = wg + 1
    /\ main' = "delegate"
    /\ UNCHANGED <<delegated, outClosed, collected, total, workerVars>>

WgAddTooMany ==
    /\ main = "add"
    /\ wg' = wg + N + 1
    /\ main' = "delegate"
    /\ UNCHANGED <<delegated, outClosed, collected, total, workerVars>>

WgAdd ==
    /\ main = "add"
    /\ wg' = wg + N
    /\ main' = "delegate"
    /\ UNCHANGED <<delegated, outClosed, collected, total, workerVars>>

\* The job channel has room for all kinds, so sending on it never blocks.
Delegate ==
    /\ main = "delegate"
    /\ delegated < N
    /\ delegated' = delegated + 1
    /\ UNCHANGED <<main, wg, outClosed, collected, total, workerVars>>

\* Mutant: RunExport goes on as soon as all kinds are delegated.
NoWait ==
    /\ main = "delegate"
    /\ delegated = N
    /\ main' = "close"
    /\ UNCHANGED <<delegated, wg, outClosed, collected, total, workerVars>>

\* wg.Wait returns once the counter is zero.
Wait ==
    /\ main = "delegate"
    /\ delegated = N
    /\ wg = 0
    /\ main' = "close"
    /\ UNCHANGED <<delegated, wg, outClosed, collected, total, workerVars>>

CloseOut ==
    /\ main = "close"
    /\ outClosed' = TRUE
    /\ main' = "collect"
    /\ UNCHANGED <<delegated, wg, collected, total, workerVars>>

\* One iteration of the loop over the workers.
Collect ==
    /\ main = "collect"
    /\ collected < W
    /\ collected' = collected + 1
    /\ total' = AddStats(total, stats[collected + 1])
    /\ UNCHANGED <<main, delegated, wg, outClosed, workerVars>>

Return ==
    /\ main = "collect"
    /\ collected = W
    /\ main' = "returned"
    /\ UNCHANGED <<delegated, wg, outClosed, collected, total, workerVars>>

RunExport ==
    \/ AddWorkers \/ PoolFails \/ WgAdd \/ Delegate \/ Wait \/ CloseOut
    \/ Collect \/ Return

----------------------------------------------------------------------------
(* A worker *)

mainVars == <<main, delegated, outClosed, collected, total>>

\* Mutant: the worker takes one job more than was delegated.
TakeTooMany(w) ==
    /\ wpc[w] = "idle"
    /\ taken <= delegated
    /\ taken' = taken + 1
    /\ cur' = [cur EXCEPT ![w] = taken + 1]
    /\ nsDone' = [nsDone EXCEPT ![w] = 0]
    /\ stats' = [stats EXCEPT ![w].kinds = @ + 1]
    /\ wpc' = [wpc EXCEPT ![w] = "list"]
    /\ UNCHANGED <<wg, out, res, mainVars>>

\* Mutant: the job is the loop variable of RunExport, not its value when it was
\* delegated.
TakeLoopVariable(w) ==
    /\ wpc[w] = "idle"
    /\ taken < delegated
    /\ taken' = taken + 1
    /\ cur' = [cur EXCEPT ![w] = delegated]
    /\ nsDone' = [nsDone EXCEPT ![w] = 0]
    /\ stats' = [stats EXCEPT ![w].kinds = @ + 1]
    /\ wpc' = [wpc EXCEPT ![w] = "list"]
    /\ UNCHANGED <<wg, out, res, mainVars>>

\* The worker receives the next kind from the job channel.
Take(w) ==
    /\ wpc[w] = "idle"
    /\ taken < delegated
    /\ taken' = taken + 1
    /\ cur' = [cur EXCEPT ![w] = taken + 1]
    /\ nsDone' = [nsDone EXCEPT ![w] = 0]
    /\ stats' = [stats EXCEPT ![w].kinds = @ + 1]
    /\ wpc' = [wpc EXCEPT ![w] = "list"]
    /\ UNCHANGED <<wg, out, res, mainVars>>

\* The list loop of the current namespace is over: on to the next namespace, or
\* to the end of the kind.
NextNamespace(w) ==
    /\ nsDone' = [nsDone EXCEPT ![w] = @ + 1]
    /\ wpc' = [wpc EXCEPT ![w] =
                  IF nsDone[w] + 1 = QueryCount(cur[w]) THEN "account" ELSE "list"]

\* Mutants: the failed request is noted on the kind that was handed out last, as
\* if the workers shared the variable; it is counted but not noted on the kind.
ListErrorOnLastKind(w) ==
    /\ wpc[w] = "list"
    /\ stats' = [stats EXCEPT ![w].errors = @ + 1]
    /\ res' = [res EXCEPT ![taken].error = "list"]
    /\ NextNamespace(w)
    /\ UNCHANGED <<taken, wg, out, cur, mainVars>>

ListErrorNotNoted(w) ==
    /\ wpc[w] = "list"
    /\ stats' = [stats EXCEPT ![w].errors = @ + 1]
    /\ NextNamespace(w)
    /\ UNCHANGED <<taken, wg, out, cur, res, mainVars>>

\* A list request fails (no mapping of the kind, not found, not allowed, lost
\* connection, expired continue token): the rest of this namespace is skipped.
ListError(w) ==
    /\ wpc[w] = "list"
    /\ stats' = [stats EXCEPT ![w].errors = @ + 1]
    /\ res' = [res EXCEPT ![cur[w]].error = "list"]
    /\ NextNamespace(w)
    /\ UNCHANGED <<taken, wg, out, cur, mainVars>>

\* A list request answers with page p, which is exported at once; more says
\* that the answer carries a continue token.
ListPage(w, p, more) ==
    LET r == cur[w] IN
    /\ wpc[w] = "list"
    /\ more => Paged /\ res[r].pages + 1 < MaxPages
    /\ stats' = [stats EXCEPT ![w].namespaces = @ \cup p.namespaces]
    /\ res' = [res EXCEPT ![r] =
                  [pages     |-> @.pages + 1,
                   instances |-> @.instances + p.items,
                   exported  |-> @.exported + p.exported,
                   error     |-> IF p.failed > 0 THEN "write" ELSE @.error]]
    /\ IF more THEN UNCHANGED <<nsDone, wpc>> ELSE NextNamespace(w)
    /\ UNCHANGED <<taken, wg, out, cur, mainVars>>

\* Mutant: the instances found are counted instead of those exported.
AccountInstances(w) ==
    /\ wpc[w] = "account"
    /\ stats' = [stats EXCEPT ![w].resources = @ + res[cur[w]].instances,
                              ![w].pages = @ + res[cur[w]].pages]
    /\ wpc' = [wpc EXCEPT ![w] = "send"]
    /\ UNCHANGED <<taken, wg, out, cur, nsDone, res, mainVars>>

\* All namespaces of the kind are done: its numbers go into the statistics.
Account(w) ==
    /\ wpc[w] = "account"
    /\ stats' = [stats EXCEPT ![w].resources = @ + res[cur[w]].exported,
                              ![w].pages = @ + res[cur[w]].pages]
    /\ wpc' = [wpc EXCEPT ![w] = "send"]
    /\ UNCHANGED <<taken, wg, out, cur, nsDone, res, mainVars>>

\* out <- res
Send(w) ==
    /\ wpc[w] = "send"
    /\ out < OutCapacity
    /\ out' = out + 1
    /\ wpc' = [wpc EXCEPT ![w] = "done"]
    /\ UNCHANGED <<taken, wg, cur, nsDone, stats, res, mainVars>>

\* The deferred wg.Done, after which the worker is back in the pool's loop.
Done(w) ==
    /\ wpc[w] = "done"
    /\ wg' = wg - 1
    /\ wpc' = [wpc EXCEPT ![w] = "idle"]
    /\ UNCHANGED <<taken, out, cur, nsDone, stats, res, mainVars>>

Work(w) ==
    \/ Take(w)
    \/ ListError(w)
    \/ /\ wpc[w] = "list"
       /\ \E p \in PagesOf(cur[w], nsDone[w] + 1), more \in BOOLEAN : ListPage(w, p, more)
    \/ Account(w)
    \/ Send(w)
    \/ Done(w)

----------------------------------------------------------------------------

Busy == {w \in Workers : wpc[w] # "idle"}
Unsent == {w \in Workers : wpc[w] \in {"list", "account", "send"}}

\* RunExport is back, every worker is idle and the job channel is empty.
Finished ==
    /\ main \in {"returned", "failed"}
    /\ Busy = {}
    /\ taken = delegated
    /\ UNCHANGED poolVars

Next == RunExport \/ (\E w \in Workers : Work(w)) \/ Finished

\* The Go scheduler runs every goroutine that is not blocked, and the API
\* server answers every request; neither AddWorker nor Delegate has to fail.
Fairness ==
    /\ WF_poolVars(RunExport)
    /\ \A w \in Workers : WF_poolVars(Work(w))

Spec == Init /\ [][Next]_poolVars /\ Fairness
----------------------------------------------------------------------------
(* Properties *)

PoolTypeOK ==
    /\ main \in {"addWorkers", "add", "delegate", "close", "collect", "returned", "failed"}
    /\ delegated \in 0 .. N
    /\ taken \in 0 .. N
    /\ wg \in Int
    /\ out \in Nat
    /\ outClosed \in BOOLEAN
    /\ wpc \in [Workers -> {"idle", "list", "account", "send", "done"}]
    /\ cur \in [Workers -> 0 .. N]
    /\ nsDone \in [Workers -> Nat]
    /\ stats \in [Workers -> Stats]
    /\ res \in [Resources -> Report]
    /\ collected \in 0 .. W
    /\ total \in Stats

\* From wg.Add on, the WaitGroup counts exactly the kinds whose worker has not
\* called wg.Done yet: those still in the job channel or about to be sent on it,
\* and those a worker is busy with. So it is never negative (Go would panic),
\* and wg.Wait can only return when nothing is left to do.
WgCountsUnfinished ==
    main \in {"delegate", "close", "collect", "returned"} =>
        wg = (N - taken) + Cardinality(Busy)

\* No worker can still send on out once RunExport has closed it: a send on a
\* closed channel panics, and the close is not ordered with the sends other than
\* through the WaitGroup.
NoSendOnClosedOut == outClosed => Unsent = {}

\* Nobody receives from out, so a worker that found it full would block for ever
\* and RunExport with it: there is room for every worker about to send.
OutHasRoom == \A w \in Unsent : out < OutCapacity

\* Workers write into a GroupResource without a lock; no two of them are ever
\* busy with the same one.
NoSharedKind ==
    \A v, w \in Busy : v # w => cur[v] # cur[w]

\* Once out is closed neither the workers' statistics nor the GroupResources
\* change: RunExport reads the statistics, and its caller the resources, without
\* synchronising with the workers any more.
NothingAfterClose == [][outClosed => UNCHANGED <<stats, res>>]_poolVars

\* RunExport returns: no wait of it is for ever, whatever the server answers.
RunExportReturns == <>(main \in {"returned", "failed"})

\* The kinds whose worker has called wg.Done.
FinishedKinds == {r \in 1 .. taken : \A w \in Busy : cur[w] # r}

\* Once the worker of a kind has called wg.Done the kind stays finished and its
\* report final, even when RunExport gave up and the other workers go on.
FinishedIsFinal ==
    [][\A r \in FinishedKinds : r \in FinishedKinds' /\ res'[r] = res[r]]_poolVars

Job == INSTANCE ExportJob WITH
    Kinds    <- Resources,
    finished <- FinishedKinds,
    report   <- [r \in Resources |-> IF r \in FinishedKinds THEN res[r] ELSE EmptyReport],
    outcome  <- CASE main = "returned" -> "ok"
                  [] main = "failed"   -> "err"
                  [] OTHER             -> "running",
    total    <- IF main = "returned" THEN total ELSE NoStats

\* RunExport and its workers implement the job seen by the caller: every kind is
\* finished once and for good, and the statistics returned are those of all the
\* final reports.
ImplementsJob == Job!Spec
=============================================================================
