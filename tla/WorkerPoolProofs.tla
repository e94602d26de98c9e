-------------------------- MODULE WorkerPoolProofs --------------------------
(***************************************************************************)
(* Proofs about the export job for any number of kinds, workers and        *)
(* namespaces, any answers of the server and any bounds: the counters of   *)
(* RunExport (WaitGroup, job channel, out) always agree with what the      *)
(* workers do.                                                             *)
(***************************************************************************)
EXTENDS WorkerPool, FiniteSetTheorems, SequenceTheorems, TLAPS

(***************************************************************************)
(* The inductive invariant.  WgCountsUnfinished alone is not inductive:    *)
(* Done lowers wg and |Busy| together only while the type of wpc is known, *)
(* and the wait can only tell that nothing is left from taken <= N.        *)
(***************************************************************************)

\* No job is in the channel before wg.Add, all of them are after the wait.
JobsSent ==
    /\ taken <= delegated
    /\ main \in {"addWorkers", "add"} => delegated = 0 /\ wg = 0
    /\ main \in {"close", "collect", "returned"} => delegated = N

\* A busy worker holds a kind it received; a listing one has a namespace left.
Holding ==
    /\ \A w \in Busy : cur[w] \in 1 .. taken
    /\ \A w \in Workers : wpc[w] = "list" => nsDone[w] < QueryCount(cur[w])

\* Every received kind is on out, or its worker is still to send it.
OutCountsSent == out = taken - Cardinality(Unsent)

\* After the wait there is no work left.
Drained == main \in {"close", "collect", "returned"} => taken = N /\ Busy = {}

ClosedAfterWait == outClosed => main \in {"collect", "returned"}

IInv ==
    /\ PoolTypeOK
    /\ JobsSent
    /\ Holding
    /\ NoSharedKind
    /\ WgCountsUnfinished
    /\ OutCountsSent
    /\ Drained
    /\ ClosedAfterWait

-----------------------------------------------------------------------------

\* The sets of workers whose sizes appear in the invariant are finite.
LEMMA WorkersFinite ==
    /\ IsFiniteSet(Workers)
    /\ IsFiniteSet(Busy) /\ Cardinality(Busy) \in Nat
    /\ IsFiniteSet(Unsent) /\ Cardinality(Unsent) \in Nat
<1>1. IsFiniteSet(Workers)
  BY FS_Interval, PoolAssumption DEF Workers
<1>2. Busy \in SUBSET Workers /\ Unsent \in SUBSET Workers
  BY DEF Busy, Unsent
<1> QED
  BY <1>1, <1>2, FS_Subset, FS_CardinalityType

\* Counting a kind, an error, a namespace or a finished kind keeps the record of
\* the statistics well typed.
LEMMA StatsUpdates ==
    ASSUME NEW s \in Stats
    PROVE  /\ [s EXCEPT !.kinds = @ + 1] \in Stats
           /\ [s EXCEPT !.errors = @ + 1] \in Stats
           /\ \A ns \in SUBSET Namespaces : [s EXCEPT !.namespaces = @ \cup ns] \in Stats
           /\ \A i, j \in Nat : [s EXCEPT !.resources = @ + i, !.pages = @ + j] \in Stats
<1> USE DEF Stats
<1>1. [s EXCEPT !.kinds = @ + 1] \in Stats
  OBVIOUS
<1>2. [s EXCEPT !.errors = @ + 1] \in Stats
  OBVIOUS
<1>3. ASSUME NEW ns \in SUBSET Namespaces PROVE [s EXCEPT !.namespaces = @ \cup ns] \in Stats
  OBVIOUS
<1>4. ASSUME NEW i \in Nat, NEW j \in Nat
      PROVE  [s EXCEPT !.resources = @ + i, !.pages = @ + j] \in Stats
  <2>1. [s EXCEPT !.resources = @ + i] \in Stats
    OBVIOUS
  <2>2. ASSUME NEW t \in Stats PROVE [t EXCEPT !.pages = s.pages + j] \in Stats
    OBVIOUS
  <2> QED
    BY <2>1, <2>2
<1> QED
  BY <1>1, <1>2, <1>3, <1>4

\* The sum of two statistics is one.
LEMMA SumOfStats == ASSUME NEW s \in Stats, NEW o \in Stats PROVE AddStats(s, o) \in Stats
<1>1. /\ s.kinds + o.kinds \in Nat
      /\ s.pages + o.pages \in Nat
      /\ s.resources + o.resources \in Nat
      /\ s.errors + o.errors \in Nat
  BY DEF Stats
<1>2. s.namespaces \cup o.namespaces \in SUBSET Namespaces
  BY DEF Stats
<1> QED
  BY <1>1, <1>2 DEF AddStats, Stats

\* Every kind has at least one list loop.
LEMMA QueryCountPositive == \A r : QueryCount(r) \in Nat \ {0}
<1>1. ConfigNamespaces # <<>> => Len(ConfigNamespaces) \in Nat \ {0}
  BY PoolAssumption, EmptySeq, LenProperties
<1> QED
  BY <1>1 DEF QueryCount

\* The namespaces seen on a page that a listing worker receives are namespaces
\* of the cluster.
LEMMA PageNamespaces ==
    ASSUME NEW w \in Workers, IInv, wpc[w] = "list",
           NEW p \in PagesOf(cur[w], nsDone[w] + 1)
    PROVE  /\ p.namespaces \in SUBSET Namespaces
           /\ p.items \in Nat
           /\ p.exported \in Nat
           /\ p.failed \in Nat
<1>1. p \in [items : 0 .. MaxItems, exported : 0 .. MaxItems, failed : 0 .. MaxItems,
             namespaces : SUBSET Visible(cur[w], nsDone[w] + 1)]
  BY DEF PagesOf
<1>2. Visible(cur[w], nsDone[w] + 1) \subseteq Namespaces
  <2>1. CASE cur[w] \notin Namespaced
    BY <2>1 DEF Visible
  <2>2. CASE cur[w] \in Namespaced /\ ConfigNamespaces = <<>>
    BY <2>2 DEF Visible
  <2>3. CASE cur[w] \in Namespaced /\ ConfigNamespaces # <<>>
    <3>1. nsDone[w] + 1 \in 1 .. Len(ConfigNamespaces)
      BY <2>3, PoolAssumption DEF IInv, Holding, PoolTypeOK, QueryCount
    <3>2. ConfigNamespaces[nsDone[w] + 1] \in Namespaces
      BY <3>1, PoolAssumption
    <3> QED
      BY <2>3, <3>2 DEF Visible
  <2> QED
    BY <2>1, <2>2, <2>3
<1> QED
  BY <1>1, <1>2, PoolAssumption
-----------------------------------------------------------------------------

\* The invariant holds initially: nobody is busy and all counters are zero.
LEMMA InitIInv == Init => IInv
<1> SUFFICES ASSUME Init PROVE IInv
  OBVIOUS
<1> USE PoolAssumption DEF Init
<1>1. Busy = {} /\ Unsent = {}
  BY DEF Busy, Unsent
<1>2. PoolTypeOK
  <2>1. NoStats \in Stats /\ EmptyReport \in Report
    BY DEF NoStats, Stats, EmptyReport, Report
  <2>2. /\ main \in {"addWorkers", "add", "delegate", "close", "collect", "returned", "failed"}
        /\ outClosed \in BOOLEAN
        /\ wpc \in [Workers -> {"idle", "list", "account", "send", "done"}]
    OBVIOUS
  <2>3. /\ delegated \in 0 .. N /\ taken \in 0 .. N /\ collected \in 0 .. W
        /\ wg \in Int /\ out \in Nat
        /\ cur \in [Workers -> 0 .. N]
        /\ nsDone \in [Workers -> Nat]
    OBVIOUS
  <2>4. /\ stats \in [Workers -> Stats]
        /\ res \in [Resources -> Report]
        /\ total \in Stats
    BY <2>1
  <2> QED
    BY <2>2, <2>3, <2>4 DEF PoolTypeOK
<1>3. Cardinality(Busy) = 0 /\ Cardinality(Unsent) = 0
  BY <1>1, FS_EmptySet
<1>4. JobsSent /\ Holding /\ NoSharedKind
  BY <1>1 DEF JobsSent, Holding, NoSharedKind
<1>5. WgCountsUnfinished /\ OutCountsSent /\ Drained /\ ClosedAfterWait
  BY <1>3 DEF WgCountsUnfinished, OutCountsSent, Drained, ClosedAfterWait
<1> QED
  BY <1>2, <1>4, <1>5 DEF IInv

\* A step of RunExport leaves the workers alone, and so Busy and Unsent.
LEMMA RunExportIInv == IInv /\ RunExport => IInv'
<1> SUFFICES ASSUME IInv, RunExport PROVE IInv'
  OBVIOUS
<1> USE PoolAssumption DEF IInv, workerVars
<1>1. /\ UNCHANGED <<taken, out, wpc, cur, nsDone, stats, res>>
      /\ Busy' = Busy /\ Unsent' = Unsent
  BY DEF RunExport, AddWorkers, PoolFails, WgAdd, Delegate, Wait, CloseOut,
         Collect, Return, Busy, Unsent
<1>2. Cardinality(Busy) \in Nat /\ Cardinality(Unsent) \in Nat
  BY WorkersFinite
<1>3. Holding' /\ NoSharedKind' /\ OutCountsSent'
  BY <1>1 DEF Holding, NoSharedKind, OutCountsSent, QueryCount
<1>4. CASE AddWorkers \/ PoolFails
  BY <1>1, <1>3, <1>4 DEF AddWorkers, PoolFails, PoolTypeOK, JobsSent, WgCountsUnfinished,
                          Drained, ClosedAfterWait
<1>5. CASE WgAdd
  <2>1. taken = 0 /\ Busy = {} /\ wg' = N
    BY <1>5 DEF WgAdd, JobsSent, Holding, PoolTypeOK
  <2>2. Cardinality(Busy) = 0
    BY <2>1, FS_EmptySet
  <2> QED
    BY <1>1, <1>3, <1>5, <2>1, <2>2 DEF WgAdd, PoolTypeOK, JobsSent, WgCountsUnfinished,
                                        Drained, ClosedAfterWait
<1>6. CASE Delegate
  BY <1>1, <1>3, <1>6 DEF Delegate, PoolTypeOK, JobsSent, WgCountsUnfinished,
                          Drained, ClosedAfterWait
<1>7. CASE Wait
  <2>1. taken = N /\ Cardinality(Busy) = 0
    BY <1>2, <1>7 DEF Wait, PoolTypeOK, WgCountsUnfinished
  <2>2. Busy = {}
    BY <2>1, WorkersFinite, FS_EmptySet
  <2> QED
    BY <1>1, <1>3, <1>7, <2>1, <2>2 DEF Wait, PoolTypeOK, JobsSent, WgCountsUnfinished,
                                        Drained, ClosedAfterWait
<1>8. CASE CloseOut \/ Return
  BY <1>1, <1>3, <1>8 DEF CloseOut, Return, PoolTypeOK, JobsSent, WgCountsUnfinished,
                          Drained, ClosedAfterWait
<1>9. CASE Collect
  <2>1. collected + 1 \in Workers
    BY <1>9 DEF Collect, PoolTypeOK, Workers
  <2>2. total \in Stats /\ stats[collected + 1] \in Stats
    BY <2>1 DEF PoolTypeOK
  <2>3. AddStats(total, stats[collected + 1]) \in Stats
    BY <2>2, SumOfStats
  <2> QED
    BY <1>1, <1>3, <1>9, <2>3 DEF Collect, PoolTypeOK, JobsSent, WgCountsUnfinished,
                                  Drained, ClosedAfterWait
<1> QED
  BY <1>4, <1>5, <1>6, <1>7, <1>8, <1>9 DEF RunExport

\* Receiving a kind makes the worker busy with a kind nobody else holds.
LEMMA TakeIInv == ASSUME IInv, NEW w \in Workers, Take(w) PROVE IInv'
<1> USE PoolAssumption DEF IInv, mainVars
<1>1. /\ w \notin Busy /\ w \notin Unsent
      /\ Busy' = Busy \cup {w} /\ Unsent' = Unsent \cup {w}
  BY DEF Take, Busy, Unsent, PoolTypeOK
<1>2. /\ Cardinality(Busy') = Cardinality(Busy) + 1
      /\ Cardinality(Unsent') = Cardinality(Unsent) + 1
      /\ Cardinality(Busy) \in Nat /\ Cardinality(Unsent) \in Nat
  BY <1>1, WorkersFinite, FS_AddElement
<1>3. taken' = taken + 1 /\ taken + 1 \in 1 .. N /\ taken < delegated /\ delegated \in 0 .. N
  BY DEF Take, PoolTypeOK
<1>4. main = "delegate" \/ main = "failed"
  BY <1>3 DEF PoolTypeOK, JobsSent, Drained
<1>5. PoolTypeOK'
  <2>1. [stats[w] EXCEPT !.kinds = @ + 1] \in Stats
    BY StatsUpdates DEF PoolTypeOK
  <2>2. stats' \in [Workers -> Stats]
    BY <2>1 DEF Take, PoolTypeOK
  <2>3. wpc' \in [Workers -> {"idle", "list", "account", "send", "done"}]
    BY DEF Take, PoolTypeOK
  <2>4. /\ cur' \in [Workers -> 0 .. N]
        /\ nsDone' \in [Workers -> Nat]
        /\ taken' \in 0 .. N
    BY <1>3 DEF Take, PoolTypeOK
  <2> QED
    BY <2>2, <2>3, <2>4 DEF Take, PoolTypeOK
<1>6. JobsSent'
  BY <1>3, <1>4 DEF Take, JobsSent, PoolTypeOK
<1>7. /\ cur'[w] = taken + 1 /\ nsDone'[w] = 0
      /\ \A v \in Workers \ {w} : wpc'[v] = wpc[v] /\ cur'[v] = cur[v] /\ nsDone'[v] = nsDone[v]
  BY DEF Take, PoolTypeOK
<1>8. taken \in Int /\ Busy \subseteq Workers \ {w} /\ \A v \in Busy : cur[v] \in 1 .. taken
  BY <1>1 DEF PoolTypeOK, Holding, Busy
<1>9. Holding'
  <2>1. \A v \in Busy' : cur'[v] \in 1 .. taken'
    BY <1>1, <1>3, <1>7, <1>8
  <2>2. \A r : QueryCount(r) > 0
    BY QueryCountPositive
  <2>3. nsDone'[w] < QueryCount(cur'[w])
    BY <1>7, <2>2
  <2>4. \A v \in Workers : wpc'[v] = "list" => nsDone'[v] < QueryCount(cur'[v])
    BY <1>7, <2>3 DEF Holding, QueryCount
  <2> QED
    BY <2>1, <2>4 DEF Holding, QueryCount
<1>10. NoSharedKind'
  <2>1. \A v \in Busy : cur'[v] = cur[v] /\ cur[v] # cur'[w]
    BY <1>7, <1>8
  <2>2. \A v, u \in Busy : v # u => cur'[v] # cur'[u]
    BY <2>1 DEF NoSharedKind
  <2>3. \A v, u \in Busy' : v # u => cur'[v] # cur'[u]
    BY <1>1, <2>1, <2>2
  <2> QED
    BY <2>3 DEF NoSharedKind
<1>11. WgCountsUnfinished'
  <2>1. main' = main /\ wg' = wg /\ taken \in Int /\ N \in Int
    BY DEF Take, PoolTypeOK
  <2> QED
    BY <1>2, <1>3, <2>1 DEF WgCountsUnfinished
<1>12. OutCountsSent'
  <2>1. out' = out /\ taken \in Int
    BY DEF Take, PoolTypeOK
  <2> QED
    BY <1>2, <1>3, <2>1 DEF OutCountsSent
<1>13. Drained' /\ ClosedAfterWait'
  BY <1>4 DEF Take, Drained, ClosedAfterWait
<1> QED
  BY <1>5, <1>6, <1>9, <1>10, <1>11, <1>12, <1>13

\* While a worker lists, it stays busy and unsent; its kind is its own.
LEMMA ListingFrame ==
    ASSUME IInv, NEW w \in Workers, wpc[w] = "list",
           UNCHANGED <<taken, wg, out, cur, mainVars>>,
           UNCHANGED <<nsDone, wpc>> \/ NextNamespace(w),
           stats' \in [Workers -> Stats], res' \in [Resources -> Report]
    PROVE  IInv'
<1> USE PoolAssumption DEF IInv, mainVars
<1>1. /\ wpc' \in [Workers -> {"idle", "list", "account", "send", "done"}]
      /\ nsDone' \in [Workers -> Nat]
  <2>1. CASE UNCHANGED <<nsDone, wpc>>
    BY <2>1 DEF PoolTypeOK
  <2>2. CASE NextNamespace(w)
    <3>1. nsDone' \in [Workers -> Nat]
      BY <2>2 DEF NextNamespace, PoolTypeOK
    <3>2. \E s \in {"list", "account"} : wpc' = [wpc EXCEPT ![w] = s]
      BY <2>2 DEF NextNamespace
    <3>3. wpc' \in [Workers -> {"idle", "list", "account", "send", "done"}]
      BY <3>2 DEF PoolTypeOK
    <3> QED
      BY <3>1, <3>3
  <2> QED
    BY <2>1, <2>2
<1>2. wpc'[w] \in {"list", "account"} /\ \A v \in Workers \ {w} : wpc'[v] = wpc[v]
  BY DEF NextNamespace, PoolTypeOK
<1>3. Busy' = Busy /\ Unsent' = Unsent
  BY <1>2 DEF Busy, Unsent
<1>4. \A v \in Workers : wpc'[v] = "list" => nsDone'[v] < QueryCount(cur[v])
  <2>1. QueryCount(cur[w]) \in Nat /\ nsDone[w] \in Nat /\ nsDone[w] < QueryCount(cur[w])
    BY QueryCountPositive DEF Holding, PoolTypeOK
  <2>2. \A v \in Workers \ {w} : nsDone'[v] = nsDone[v]
    BY DEF NextNamespace, PoolTypeOK
  <2>3. wpc'[w] = "list" => nsDone'[w] < QueryCount(cur[w])
    BY <2>1 DEF NextNamespace, PoolTypeOK
  <2> QED
    BY <1>2, <2>2, <2>3 DEF Holding
<1>5. PoolTypeOK'
  BY <1>1 DEF PoolTypeOK
<1>6. JobsSent' /\ NoSharedKind' /\ OutCountsSent' /\ ClosedAfterWait'
  BY <1>3 DEF JobsSent, NoSharedKind, OutCountsSent, ClosedAfterWait
<1>7. Holding'
  BY <1>3, <1>4 DEF Holding, QueryCount
<1>8. WgCountsUnfinished' /\ Drained'
  BY <1>3 DEF WgCountsUnfinished, Drained
<1> QED
  BY <1>5, <1>6, <1>7, <1>8

\* A failed list request only touches the worker's statistics and its kind.
LEMMA ListErrorIInv == ASSUME IInv, NEW w \in Workers, ListError(w) PROVE IInv'
<1>1. stats' \in [Workers -> Stats]
  <2>1. [stats[w] EXCEPT !.errors = @ + 1] \in Stats
    BY StatsUpdates DEF IInv, PoolTypeOK
  <2> QED
    BY <2>1 DEF ListError, IInv, PoolTypeOK
<1>2. res' \in [Resources -> Report]
  <2>1. \A r \in Resources : [res[r] EXCEPT !.error = "list"] \in Report
    BY DEF IInv, PoolTypeOK, Report
  <2> QED
    BY <2>1 DEF ListError, IInv, PoolTypeOK
<1> QED
  BY <1>1, <1>2, ListingFrame DEF ListError

\* So does the export of a page.
LEMMA ListPageIInv ==
    ASSUME IInv, NEW w \in Workers, wpc[w] = "list",
           NEW p \in PagesOf(cur[w], nsDone[w] + 1), NEW more \in BOOLEAN,
           ListPage(w, p, more)
    PROVE  IInv'
<1>1. /\ p.namespaces \in SUBSET Namespaces
      /\ p.items \in Nat /\ p.exported \in Nat /\ p.failed \in Nat
  BY PageNamespaces
<1>2. stats' \in [Workers -> Stats]
  <2>1. [stats[w] EXCEPT !.namespaces = @ \cup p.namespaces] \in Stats
    BY <1>1, StatsUpdates DEF IInv, PoolTypeOK
  <2> QED
    BY <2>1 DEF ListPage, IInv, PoolTypeOK
<1>3. res' \in [Resources -> Report]
  <2>1. \A r \in Resources :
           [pages     |-> res[r].pages + 1,
            instances |-> res[r].instances + p.items,
            exported  |-> res[r].exported + p.exported,
            error     |-> IF p.failed > 0 THEN "write" ELSE res[r].error] \in Report
    BY <1>1 DEF IInv, PoolTypeOK, Report
  <2> QED
    BY <2>1 DEF ListPage, IInv, PoolTypeOK
<1> QED
  BY <1>2, <1>3, ListingFrame DEF ListPage

\* Adding a kind's numbers to the statistics leaves the worker busy and unsent.
LEMMA AccountIInv == ASSUME IInv, NEW w \in Workers, Account(w) PROVE IInv'
<1> USE PoolAssumption DEF IInv, mainVars
<1>1. Busy' = Busy /\ Unsent' = Unsent
  BY DEF Account, Busy, Unsent, PoolTypeOK
<1>2. cur[w] \in Resources
  <2>1. w \in Busy
    BY DEF Account, Busy
  <2> QED
    BY <2>1 DEF Holding, PoolTypeOK, Resources
<1>3. stats' \in [Workers -> Stats]
  <2>1. res[cur[w]].exported \in Nat /\ res[cur[w]].pages \in Nat
    BY <1>2 DEF PoolTypeOK, Report
  <2>2. [stats[w] EXCEPT !.resources = @ + res[cur[w]].exported,
                         !.pages = @ + res[cur[w]].pages] \in Stats
    BY <2>1, StatsUpdates DEF PoolTypeOK
  <2>3. stats' = [stats EXCEPT ![w] = [stats[w] EXCEPT !.resources = @ + res[cur[w]].exported,
                                                     !.pages = @ + res[cur[w]].pages]]
    BY DEF Account, PoolTypeOK
  <2> QED
    BY <2>2, <2>3 DEF PoolTypeOK
<1>4. PoolTypeOK'
  <2>1. wpc' \in [Workers -> {"idle", "list", "account", "send", "done"}]
    BY DEF Account, PoolTypeOK
  <2> QED
    BY <1>3, <2>1 DEF Account, PoolTypeOK
<1>5. JobsSent' /\ NoSharedKind' /\ OutCountsSent' /\ ClosedAfterWait'
  BY <1>1 DEF Account, JobsSent, NoSharedKind, OutCountsSent, ClosedAfterWait
<1>6. Holding'
  BY <1>1 DEF Account, Holding, QueryCount, PoolTypeOK
<1>7. WgCountsUnfinished' /\ Drained'
  BY <1>1 DEF Account, WgCountsUnfinished, Drained
<1> QED
  BY <1>4, <1>5, <1>6, <1>7

\* A send moves the worker out of Unsent and an entry into out.
LEMMA SendIInv == ASSUME IInv, NEW w \in Workers, Send(w) PROVE IInv'
<1> USE PoolAssumption DEF IInv, mainVars
<1>1. w \in Unsent /\ Busy' = Busy /\ Unsent' = Unsent \ {w}
  BY DEF Send, Busy, Unsent, PoolTypeOK
<1>2. /\ Cardinality(Unsent') = Cardinality(Unsent) - 1
      /\ Cardinality(Unsent) \in Nat
  BY <1>1, WorkersFinite, FS_RemoveElement
<1>3. PoolTypeOK'
  <2>1. wpc' \in [Workers -> {"idle", "list", "account", "send", "done"}]
    BY DEF Send, PoolTypeOK
  <2> QED
    BY <2>1 DEF Send, PoolTypeOK
<1>4. JobsSent' /\ NoSharedKind' /\ ClosedAfterWait'
  BY <1>1 DEF Send, JobsSent, NoSharedKind, ClosedAfterWait
<1>5. Holding'
  BY <1>1 DEF Send, Holding, QueryCount, PoolTypeOK
<1>6. WgCountsUnfinished' /\ Drained'
  BY <1>1 DEF Send, WgCountsUnfinished, Drained
<1>7. OutCountsSent'
  BY <1>2 DEF Send, OutCountsSent, PoolTypeOK
<1> QED
  BY <1>3, <1>4, <1>5, <1>6, <1>7

\* wg.Done and the end of the work function are one: wg and Busy shrink together.
LEMMA DoneIInv == ASSUME IInv, NEW w \in Workers, Done(w) PROVE IInv'
<1> USE PoolAssumption DEF IInv, mainVars
<1>1. w \in Busy /\ Busy' = Busy \ {w} /\ Unsent' = Unsent
  BY DEF Done, Busy, Unsent, PoolTypeOK
<1>2. /\ Cardinality(Busy') = Cardinality(Busy) - 1
      /\ Cardinality(Busy) \in Nat
  BY <1>1, WorkersFinite, FS_RemoveElement
<1>3. PoolTypeOK'
  <2>1. wpc' \in [Workers -> {"idle", "list", "account", "send", "done"}]
    BY DEF Done, PoolTypeOK
  <2> QED
    BY <2>1 DEF Done, PoolTypeOK
<1>4. main \notin {"addWorkers", "add", "close", "collect", "returned"}
  BY <1>1 DEF JobsSent, Drained, Holding, PoolTypeOK
<1>5. JobsSent' /\ NoSharedKind' /\ ClosedAfterWait'
  BY <1>1, <1>4 DEF Done, JobsSent, NoSharedKind, ClosedAfterWait
<1>6. Holding'
  BY <1>1 DEF Done, Holding, QueryCount, PoolTypeOK
<1>7. WgCountsUnfinished' /\ Drained'
  BY <1>2, <1>4 DEF Done, WgCountsUnfinished, Drained, PoolTypeOK
<1>8. OutCountsSent'
  BY <1>1 DEF Done, OutCountsSent
<1> QED
  BY <1>3, <1>5, <1>6, <1>7, <1>8

-----------------------------------------------------------------------------

\* Every step keeps the invariant.
LEMMA NextIInv == IInv /\ [Next]_poolVars => IInv'
<1> SUFFICES ASSUME IInv, [Next]_poolVars PROVE IInv'
  OBVIOUS
<1>1. CASE RunExport
  BY <1>1, RunExportIInv
<1>2. ASSUME NEW w \in Workers, Work(w) PROVE IInv'
  <2>1. CASE Take(w)
    BY <2>1, TakeIInv
  <2>2. CASE ListError(w)
    BY <2>2, ListErrorIInv
  <2>3. CASE wpc[w] = "list" /\ \E p \in PagesOf(cur[w], nsDone[w] + 1), more \in BOOLEAN :
                ListPage(w, p, more)
    BY <2>3, ListPageIInv
  <2>4. CASE Account(w)
    BY <2>4, AccountIInv
  <2>5. CASE Send(w)
    BY <2>5, SendIInv
  <2>6. CASE Done(w)
    BY <2>6, DoneIInv
  <2> QED
    BY <1>2, <2>1, <2>2, <2>3, <2>4, <2>5, <2>6 DEF Work
<1>3. CASE Finished \/ UNCHANGED poolVars
  <2>1. UNCHANGED poolVars
    BY <1>3 DEF Finished
  <2> QED
    BY <2>1 DEF poolVars, IInv, PoolTypeOK, JobsSent, Holding, NoSharedKind, WgCountsUnfinished,
                OutCountsSent, Drained, ClosedAfterWait, Busy, Unsent, QueryCount
<1> QED
  BY <1>1, <1>2, <1>3 DEF Next

\* The invariant holds in every reachable state.
THEOREM Inductive == Spec => []IInv
BY InitIInv, NextIInv, PTL DEF Spec

\* Every variable keeps its type, for every number of kinds and workers.
THEOREM TypeCorrect == Spec => []PoolTypeOK
<1>1. IInv => PoolTypeOK
  BY DEF IInv
<1> QED
  BY <1>1, Inductive, PTL

\* The WaitGroup always counts the unfinished kinds, so wg.Done never drives it
\* below zero and wg.Wait never returns early.
THEOREM WaitGroupCorrect == Spec => []WgCountsUnfinished
<1>1. IInv => WgCountsUnfinished
  BY DEF IInv
<1> QED
  BY <1>1, Inductive, PTL

\* No worker ever sends on the closed channel.
THEOREM ClosedOutIsSafe == Spec => []NoSendOnClosedOut
<1>1. IInv => NoSendOnClosedOut
  BY DEF IInv, ClosedAfterWait, Drained, NoSendOnClosedOut, Busy, Unsent, PoolTypeOK
<1> QED
  BY <1>1, Inductive, PTL

\* A buffer of N entries suffices: a worker about to send always finds room.
THEOREM SendNeverBlocks == Spec => []OutHasRoom
<1>1. IInv => OutHasRoom
  <2> SUFFICES ASSUME IInv, NEW w \in Unsent PROVE out < N
    BY DEF OutHasRoom, OutCapacity
  <2>1. Cardinality(Unsent) \in Nat /\ Cardinality(Unsent) # 0
    BY WorkersFinite, FS_EmptySet
  <2> QED
    BY <2>1, PoolAssumption DEF IInv, PoolTypeOK, OutCountsSent
<1> QED
  BY <1>1, Inductive, PTL

\* No two workers ever write into the same GroupResource.
THEOREM KindsNotShared == Spec => []NoSharedKind
<1>1. IInv => NoSharedKind
  BY DEF IInv
<1> QED
  BY <1>1, Inductive, PTL

\* What a step can change in the GroupResources: only a listing worker writes, and
\* only into the kind it holds; a worker only becomes busy with a kind that
\* was not received before.
LEMMA StepWrites ==
    ASSUME IInv, [Next]_poolVars
    PROVE  /\ taken' \in {taken, taken + 1}
           /\ \A w \in Workers : \/ w \in Busy' => w \in Busy /\ cur'[w] = cur[w]
                                 \/ cur'[w] = taken + 1
           /\ \/ UNCHANGED res
              \/ \E w \in Busy : \A r \in Resources : r # cur[w] => res'[r] = res[r]
<1> USE DEF IInv, mainVars, workerVars
<1>1. CASE RunExport
  BY <1>1 DEF RunExport, AddWorkers, PoolFails, WgAdd, Delegate, Wait, CloseOut,
              Collect, Return, Busy
<1>2. ASSUME NEW w \in Workers, Take(w)
      PROVE  /\ taken' = taken + 1 /\ UNCHANGED res /\ cur'[w] = taken + 1
             /\ \A v \in Workers \ {w} : v \in Busy' => v \in Busy /\ cur'[v] = cur[v]
  BY <1>2 DEF Take, Busy, PoolTypeOK
<1>3. ASSUME NEW w \in Workers, wpc[w] = "list",
             UNCHANGED <<nsDone, wpc>> \/ NextNamespace(w)
      PROVE  Busy' \subseteq Busy /\ w \in Busy
  BY <1>3 DEF NextNamespace, Busy, PoolTypeOK
<1>4. ASSUME NEW w \in Workers, ListError(w)
      PROVE  /\ UNCHANGED <<taken, cur>> /\ Busy' \subseteq Busy /\ w \in Busy
             /\ \A r \in Resources : r # cur[w] => res'[r] = res[r]
  BY <1>3, <1>4 DEF ListError, PoolTypeOK
<1>5. ASSUME NEW w \in Workers, NEW p, NEW more, ListPage(w, p, more)
      PROVE  /\ UNCHANGED <<taken, cur>> /\ Busy' \subseteq Busy /\ w \in Busy
             /\ \A r \in Resources : r # cur[w] => res'[r] = res[r]
  BY <1>3, <1>5 DEF ListPage, PoolTypeOK
<1>6. ASSUME NEW w \in Workers, Account(w) \/ Send(w) \/ Done(w)
      PROVE  UNCHANGED <<taken, cur, res>> /\ Busy' \subseteq Busy
  BY <1>6 DEF Account, Send, Done, Busy, PoolTypeOK
<1>7. CASE Finished \/ UNCHANGED poolVars
  BY <1>7 DEF Finished, poolVars, Busy
<1>8. ASSUME NEW w \in Workers, Work(w)
      PROVE  \/ Take(w) \/ ListError(w)
             \/ \E p, more : ListPage(w, p, more)
             \/ Account(w) \/ Send(w) \/ Done(w)
  BY <1>8 DEF Work
<1> QED
  BY <1>1, <1>2, <1>4, <1>5, <1>6, <1>7, <1>8 DEF Next

\* After the close of out no step touches what the caller reads.
THEOREM QuietAfterClose == Spec => NothingAfterClose
<1>1. IInv /\ [Next]_poolVars => [outClosed => UNCHANGED <<stats, res>>]_poolVars
  <2> SUFFICES ASSUME IInv, Next, outClosed PROVE UNCHANGED <<stats, res>>
    BY DEF poolVars
  <2>1. Busy = {} /\ taken = N /\ delegated \in 0 .. N
    BY DEF IInv, ClosedAfterWait, Drained, PoolTypeOK
  <2>2. ASSUME NEW w \in Workers PROVE ~ Work(w)
    <3>1. wpc[w] = "idle" /\ ~ (taken < delegated)
      BY <2>1, PoolAssumption DEF Busy
    <3> QED
      BY <3>1 DEF Work, Take, ListError, Account, Send, Done
  <2> QED
    BY <2>2 DEF Next, Finished, poolVars, workerVars, RunExport, AddWorkers, PoolFails, WgAdd,
                Delegate, Wait, CloseOut, Collect, Return
<1> QED
  BY <1>1, Inductive, PTL DEF Spec, NothingAfterClose

\* A finished kind stays finished with its report, in every run.
THEOREM FinishedKindsAreFinal == Spec => FinishedIsFinal
<1>1. ASSUME IInv, [Next]_poolVars, NEW r \in FinishedKinds
      PROVE  r \in FinishedKinds' /\ res'[r] = res[r]
  <2>1. r \in 1 .. taken /\ taken \in 0 .. N /\ r \in Resources /\ \A w \in Busy : cur[w] # r
    BY <1>1, PoolAssumption DEF FinishedKinds, IInv, PoolTypeOK, Resources
  <2>2. r \in 1 .. taken'
    BY <1>1, <2>1, StepWrites
  <2>3. \A w \in Busy' : cur'[w] # r
    BY <1>1, <2>1, StepWrites DEF Busy
  <2>4. res'[r] = res[r]
    BY <1>1, <2>1, StepWrites
  <2> QED
    BY <2>2, <2>3, <2>4 DEF FinishedKinds
<1>2. IInv /\ [Next]_poolVars =>
         [\A r \in FinishedKinds : r \in FinishedKinds' /\ res'[r] = res[r]]_poolVars
  BY <1>1
<1> QED
  BY <1>2, Inductive, PTL DEF Spec, FinishedIsFinal

-----------------------------------------------------------------------------
(* Sums *)

Sum(g, S) == Cardinality(UNION {{x} \X (1 .. g[x]) : x \in S})

\* The sums of ExportJob, with its own instance of FiniteSets.
LEMMA JobSums ==
    /\ \A S : Job!Cardinality(S) = Cardinality(S)
    /\ \A g, S : Job!SumOver(g, S) = Sum(g, S)
<1>1. \A S : Job!Cardinality(S) = Cardinality(S)
  BY DEF Job!Cardinality, Cardinality
<1> QED
  BY <1>1 DEF Job!SumOver, Sum

\* What a summand stands for.
LEMMA SummandSize ==
    ASSUME NEW x, NEW n \in Nat
    PROVE  IsFiniteSet({x} \X (1 .. n)) /\ Cardinality({x} \X (1 .. n)) = n
<1>1. IsFiniteSet({x}) /\ Cardinality({x}) = 1
  BY FS_Singleton
<1>2. IsFiniteSet(1 .. n) /\ Cardinality(1 .. n) = n
  BY FS_Interval
<1>3. /\ IsFiniteSet({x} \X (1 .. n))
      /\ Cardinality({x} \X (1 .. n)) = Cardinality({x}) * Cardinality(1 .. n)
  BY <1>1, <1>2, FS_Product, Zenon
<1> QED
  BY <1>1, <1>2, <1>3

LEMMA SumType ==
    ASSUME NEW S, IsFiniteSet(S), NEW g, \A x \in S : g[x] \in Nat
    PROVE  /\ IsFiniteSet(UNION {{x} \X (1 .. g[x]) : x \in S})
           /\ Sum(g, S) \in Nat
<1> DEFINE T(x) == {x} \X (1 .. g[x])
           h == [x \in S |-> T(x)]
<1>1. \A x \in S : IsFiniteSet(T(x))
  BY SummandSize
<1>2. IsFiniteSet({T(x) : x \in S})
  <2>1. h \in Surjection(S, {T(x) : x \in S})
    BY DEF Surjection
  <2> QED
    BY <2>1, FS_Surjection
<1>3. IsFiniteSet(UNION {T(x) : x \in S})
  BY <1>1, <1>2, FS_UNION
<1> QED
  BY <1>3, FS_CardinalityType DEF Sum

\* The sum over a set is that over its other elements and the one of an element.
LEMMA SumRemove ==
    ASSUME NEW S, IsFiniteSet(S), NEW g, \A x \in S : g[x] \in Nat, NEW y \in S
    PROVE  Sum(g, S) = Sum(g, S \ {y}) + g[y]
<1> DEFINE T(x) == {x} \X (1 .. g[x])
           Others == UNION {T(x) : x \in S \ {y}}
<1>1. UNION {T(x) : x \in S} = Others \cup T(y) /\ Others \cap T(y) = {}
  OBVIOUS
<1>2. IsFiniteSet(Others) /\ Cardinality(Others) \in Nat
  <2>1. IsFiniteSet(S \ {y})
    BY FS_RemoveElement
  <2> QED
    BY <2>1, SumType DEF Sum
<1>3. IsFiniteSet(T(y)) /\ Cardinality(T(y)) = g[y]
  BY SummandSize
<1>4. Cardinality({}) = 0
  BY FS_EmptySet
<1>5. Cardinality(Others \cup T(y)) = Cardinality(Others) + g[y] - 0
  <2> HIDE DEF Others, T
  <2> QED
    BY <1>1, <1>2, <1>3, <1>4, FS_Union
<1>6. Sum(g, S) = Cardinality(Others \cup T(y))
  BY <1>1, Zenon DEF Sum
<1>7. Sum(g, S \ {y}) = Cardinality(Others)
  BY DEF Sum
<1> QED
  BY <1>2, <1>5, <1>6, <1>7

\* It only depends on the values, and is zero over the empty set.
LEMMA SumSame ==
    /\ \A g, h, S : (\A x \in S : g[x] = h[x]) => Sum(g, S) = Sum(h, S)
    /\ \A g : Sum(g, {}) = 0
<1>1. ASSUME NEW g, NEW h, NEW S, \A x \in S : g[x] = h[x]
      PROVE  Sum(g, S) = Sum(h, S)
  <2>1. {{x} \X (1 .. g[x]) : x \in S} = {{x} \X (1 .. h[x]) : x \in S}
    BY <1>1
  <2> QED
    BY <2>1 DEF Sum
<1>2. ASSUME NEW g PROVE Sum(g, {}) = 0
  <2>1. UNION {{x} \X (1 .. g[x]) : x \in {}} = {}
    OBVIOUS
  <2> QED
    BY <2>1, FS_EmptySet DEF Sum
<1> QED
  BY <1>1, <1>2

\* Raising one summand raises the sum.
LEMMA SumRaise ==
    ASSUME NEW S, IsFiniteSet(S), NEW g, NEW h, \A x \in S : g[x] \in Nat,
           NEW y \in S, NEW n \in Nat, h[y] = g[y] + n, \A x \in S \ {y} : h[x] = g[x]
    PROVE  Sum(h, S) = Sum(g, S) + n
<1>1. IsFiniteSet(S \ {y})
  BY FS_RemoveElement
<1>2. Sum(g, S \ {y}) \in Nat
  BY <1>1, SumType
<1>3. \A x \in S : h[x] \in Nat
  OBVIOUS
<1>4. Sum(g, S) = Sum(g, S \ {y}) + g[y]
  BY SumRemove
<1>5. Sum(h, S) = Sum(h, S \ {y}) + h[y]
  BY <1>3, SumRemove
<1>6. Sum(h, S \ {y}) = Sum(g, S \ {y})
  BY SumSame
<1> QED
  BY <1>2, <1>4, <1>5, <1>6

-----------------------------------------------------------------------------
(***************************************************************************)
(* RunExport and its workers implement the job of ExportJob.  The sums of  *)
(* the workers' statistics are those over the kinds accounted so far,      *)
(* however these are spread over the workers.                              *)
(***************************************************************************)

WorkersKinds == [w \in Workers |-> stats[w].kinds]
WorkersPages == [w \in Workers |-> stats[w].pages]
WorkersExported == [w \in Workers |-> stats[w].resources]
KindsPages == [r \in Resources |-> res[r].pages]
KindsExported == [r \in Resources |-> res[r].exported]

\* The kinds whose numbers are in the statistics of some worker.
Accounted == {r \in 1 .. taken : \A w \in Workers : cur[w] = r => wpc[w] \notin {"list", "account"}}

SumsMatch ==
    /\ Sum(WorkersKinds, Workers) = taken
    /\ Sum(WorkersPages, Workers) = Sum(KindsPages, Accounted)
    /\ Sum(WorkersExported, Workers) = Sum(KindsExported, Accounted)

ErrorsMatch ==
    /\ (\E r \in Resources : res[r].error = "list") => \E w \in Workers : stats[w].errors > 0
    /\ (\E w \in Workers : stats[w].errors > 0) => \E r \in Resources : res[r].error # "none"

\* total is the sum over the workers it was added for, which is done after the wait.
TotalMatches ==
    /\ total.kinds = Sum(WorkersKinds, 1 .. collected)
    /\ total.pages = Sum(WorkersPages, 1 .. collected)
    /\ total.resources = Sum(WorkersExported, 1 .. collected)
    /\ total.errors > 0 <=> \E w \in 1 .. collected : stats[w].errors > 0
    /\ main \notin {"collect", "returned"} => collected = 0
    /\ main = "returned" => collected = W

\* A kind that was received was visited, or a worker is still to send its first request.
VisitedOrListed ==
    \A r \in 1 .. taken : \/ Job!Visited(res[r])
                          \/ \E w \in Workers : cur[w] = r /\ wpc[w] = "list"

JInv == SumsMatch /\ ErrorsMatch /\ TotalMatches /\ VisitedOrListed
-----------------------------------------------------------------------------

LEMMA SumsAreNat ==
    ASSUME IInv
    PROVE  /\ \A w \in Workers : /\ WorkersKinds[w] \in Nat /\ WorkersPages[w] \in Nat
                                 /\ WorkersExported[w] \in Nat /\ stats[w].errors \in Nat
           /\ \A r \in Resources : KindsPages[r] \in Nat /\ KindsExported[r] \in Nat
           /\ Accounted \subseteq Resources /\ IsFiniteSet(Accounted) /\ IsFiniteSet(Workers)
           /\ \A w \in Busy : cur[w] \in Resources /\ cur[w] \in 1 .. taken
<1>1. \A w \in Workers : stats[w] \in Stats
  BY DEF IInv, PoolTypeOK
<1>2. \A r \in Resources : res[r] \in Report
  BY DEF IInv, PoolTypeOK
<1>3. Accounted \subseteq Resources /\ 1 .. taken \subseteq Resources
  BY PoolAssumption DEF IInv, PoolTypeOK, Accounted, Resources
<1>4. IsFiniteSet(Resources)
  BY FS_Interval, PoolAssumption DEF Resources
<1>5. IsFiniteSet(Accounted)
  BY <1>3, <1>4, FS_Subset
<1> QED
  BY <1>1, <1>2, <1>3, <1>5, WorkersFinite
     DEF Stats, Report, WorkersKinds, WorkersPages, WorkersExported, KindsPages, KindsExported,
         IInv, Holding

LEMMA JInvInit == Init => JInv
<1> SUFFICES ASSUME Init PROVE JInv
  OBVIOUS
<1>1. /\ \A w \in Workers : /\ WorkersKinds[w] = 0 /\ WorkersPages[w] = 0 /\ WorkersExported[w] = 0
                            /\ stats[w].errors = 0
      /\ \A r \in Resources : res[r].error = "none"
      /\ taken = 0 /\ collected = 0 /\ main = "addWorkers"
      /\ total = NoStats
  BY DEF Init, WorkersKinds, WorkersPages, WorkersExported, NoStats, EmptyReport
<1>2. ASSUME NEW g, \A w \in Workers : g[w] = 0 PROVE Sum(g, Workers) = 0
  <2>1. \A w \in Workers : {w} \X (1 .. g[w]) = {}
    BY <1>2
  <2>2. UNION {{w} \X (1 .. g[w]) : w \in Workers} = {}
    BY <2>1
  <2> QED
    BY <2>2, FS_EmptySet DEF Sum
<1>3. Accounted = {} /\ 1 .. collected = {}
  BY <1>1 DEF Accounted
<1>4. SumsMatch
  BY <1>1, <1>2, <1>3, SumSame DEF SumsMatch
<1>5. ErrorsMatch /\ VisitedOrListed
  BY <1>1 DEF ErrorsMatch, VisitedOrListed
<1>6. TotalMatches
  <2>1. total.kinds = 0 /\ total.pages = 0 /\ total.resources = 0 /\ ~ (total.errors > 0)
    BY <1>1 DEF NoStats
  <2> QED
    BY <1>1, <1>3, <2>1, SumSame DEF TotalMatches
<1> QED
  BY <1>4, <1>5, <1>6 DEF JInv

\* Until the wait is over nothing has been added to total.
LEMMA TotalKept ==
    ASSUME IInv, JInv, main \notin {"close", "collect", "returned"}, UNCHANGED <<main, collected, total>>
    PROVE  TotalMatches'
<1>1. collected = 0 /\ 1 .. collected = {}
  BY DEF JInv, TotalMatches
<1>2. \A g : Sum(g, 1 .. collected) = 0
  BY <1>1, SumSame
<1> QED
  BY <1>1, <1>2 DEF JInv, TotalMatches

LEMMA WorkBeforeWait ==
    ASSUME IInv, NEW w \in Workers, w \in Busy \/ taken < delegated
    PROVE  main \notin {"close", "collect", "returned"}
BY PoolAssumption DEF IInv, JobsSent, Drained, PoolTypeOK

LEMMA TakeJInv == ASSUME IInv, JInv, NEW w \in Workers, Take(w) PROVE JInv'
<1>1. /\ taken < delegated /\ taken' = taken + 1 /\ UNCHANGED <<res, main, collected, total>>
      /\ wpc[w] = "idle" /\ wpc'[w] = "list" /\ cur'[w] = taken + 1 /\ taken \in Nat
      /\ \A v \in Workers \ {w} : wpc'[v] = wpc[v] /\ cur'[v] = cur[v] /\ stats'[v] = stats[v]
      /\ stats'[w] = [stats[w] EXCEPT !.kinds = @ + 1]
  BY DEF Take, mainVars, IInv, PoolTypeOK
<1>2. stats[w] \in Stats
  BY DEF IInv, PoolTypeOK
<1>3. /\ stats'[w].kinds = stats[w].kinds + 1 /\ stats'[w].pages = stats[w].pages
      /\ stats'[w].resources = stats[w].resources /\ stats'[w].errors = stats[w].errors
  BY <1>1, <1>2 DEF Stats
<1>4. WorkersPages' = WorkersPages /\ WorkersExported' = WorkersExported
  BY <1>1, <1>3 DEF WorkersPages, WorkersExported
<1>5. Sum(WorkersKinds', Workers) = Sum(WorkersKinds, Workers) + 1
  <2>1. /\ WorkersKinds'[w] = WorkersKinds[w] + 1
        /\ \A v \in Workers \ {w} : WorkersKinds'[v] = WorkersKinds[v]
    BY <1>1, <1>3 DEF WorkersKinds
  <2> QED
    BY <2>1, SumsAreNat, SumRaise
<1>6. Accounted' = Accounted
  <2>1. \A r \in 1 .. taken : r # taken + 1 /\ r \in 1 .. taken + 1
    BY <1>1
  <2>2. \A r \in 1 .. taken + 1 : r = taken + 1 \/ r \in 1 .. taken
    BY <1>1
  <2> QED
    BY <1>1, <2>1, <2>2 DEF Accounted
<1>7. SumsMatch'
  BY <1>1, <1>4, <1>5, <1>6 DEF JInv, SumsMatch, KindsPages, KindsExported
<1>8. ErrorsMatch'
  <2>1. \A v \in Workers : stats'[v].errors = stats[v].errors
    BY <1>1, <1>3
  <2> QED
    BY <1>1, <2>1 DEF JInv, ErrorsMatch
<1>9. VisitedOrListed'
  <2>1. \A r \in 1 .. taken + 1 : r = taken + 1 \/ r \in 1 .. taken
    BY <1>1
  <2> QED
    BY <1>1, <2>1 DEF JInv, VisitedOrListed
<1>10. TotalMatches'
  BY <1>1, TotalKept, WorkBeforeWait
<1> QED
  BY <1>7, <1>8, <1>9, <1>10 DEF JInv

\* A list request, answered or not, changes the report of a kind that is not accounted.
LEMMA ListingJInv ==
    ASSUME IInv, JInv, NEW w \in Workers, wpc[w] = "list",
           UNCHANGED <<taken, cur, main, collected, total>>,
           UNCHANGED <<nsDone, wpc>> \/ NextNamespace(w),
           \A r \in Resources \ {cur[w]} : res'[r] = res[r],
           Job!Visited(res'[cur[w]]),
           \A v \in Workers : /\ stats'[v].kinds = stats[v].kinds
                              /\ stats'[v].pages = stats[v].pages
                              /\ stats'[v].resources = stats[v].resources,
           ErrorsMatch'
    PROVE  JInv'
<1>1. w \in Busy /\ cur[w] \in Resources
  BY SumsAreNat DEF Busy
<1>2. wpc'[w] \in {"list", "account"} /\ \A v \in Workers \ {w} : wpc'[v] = wpc[v]
  BY DEF NextNamespace, IInv, PoolTypeOK
<1>3. Accounted' = Accounted /\ cur[w] \notin Accounted
  BY <1>2 DEF Accounted
<1>4. /\ WorkersKinds' = WorkersKinds /\ WorkersPages' = WorkersPages
      /\ WorkersExported' = WorkersExported
  BY DEF WorkersKinds, WorkersPages, WorkersExported
<1>5. \A r \in Accounted : KindsPages'[r] = KindsPages[r] /\ KindsExported'[r] = KindsExported[r]
  BY <1>3, SumsAreNat DEF KindsPages, KindsExported
<1>6. /\ Sum(KindsPages', Accounted) = Sum(KindsPages, Accounted)
      /\ Sum(KindsExported', Accounted) = Sum(KindsExported, Accounted)
  BY <1>5, SumSame
<1>7. SumsMatch'
  BY <1>3, <1>4, <1>6 DEF JInv, SumsMatch
<1>8. VisitedOrListed'
  <2> SUFFICES ASSUME NEW r \in 1 .. taken
               PROVE  \/ Job!Visited(res'[r])
                      \/ \E v \in Workers : cur[v] = r /\ wpc'[v] = "list"
    BY DEF VisitedOrListed, Job!Visited
  <2>1. CASE r = cur[w]
    BY <2>1
  <2>2. CASE r # cur[w]
    <3>1. res'[r] = res[r]
      BY <2>2, PoolAssumption DEF IInv, PoolTypeOK, Resources
    <3> QED
      BY <1>2, <2>2, <3>1 DEF JInv, VisitedOrListed
  <2> QED
    BY <2>1, <2>2
<1>9. TotalMatches'
  BY <1>1, TotalKept, WorkBeforeWait
<1> QED
  BY <1>7, <1>8, <1>9 DEF JInv

LEMMA ListErrorJInv == ASSUME IInv, JInv, NEW w \in Workers, ListError(w) PROVE JInv'
<1>1. wpc[w] = "list" /\ cur[w] \in Resources
  BY SumsAreNat DEF ListError, Busy
<1>2. /\ \A r \in Resources \ {cur[w]} : res'[r] = res[r]
      /\ res'[cur[w]].error = "list"
  <2>1. res[cur[w]] \in Report
    BY <1>1 DEF IInv, PoolTypeOK
  <2> QED
    BY <1>1, <2>1 DEF ListError, IInv, PoolTypeOK, Report
<1>3. /\ \A v \in Workers : /\ stats'[v].kinds = stats[v].kinds
                            /\ stats'[v].pages = stats[v].pages
                            /\ stats'[v].resources = stats[v].resources
      /\ stats'[w].errors > 0
  <2>1. stats[w] \in Stats
    BY DEF IInv, PoolTypeOK
  <2>2. stats'[w] = [stats[w] EXCEPT !.errors = @ + 1] /\ \A v \in Workers \ {w} : stats'[v] = stats[v]
    BY DEF ListError, IInv, PoolTypeOK
  <2> QED
    BY <2>1, <2>2 DEF Stats
<1>4. ErrorsMatch'
  <2>1. res'[cur[w]].error # "none"
    BY <1>2
  <2> QED
    BY <1>1, <1>3, <2>1 DEF ErrorsMatch
<1>5. UNCHANGED <<taken, cur, main, collected, total>> /\ NextNamespace(w)
  BY DEF ListError, mainVars
<1> QED
  BY <1>1, <1>2, <1>3, <1>4, <1>5, ListingJInv DEF Job!Visited

LEMMA ListPageJInv ==
    ASSUME IInv, JInv, NEW w \in Workers, wpc[w] = "list",
           NEW p \in PagesOf(cur[w], nsDone[w] + 1), NEW more \in BOOLEAN,
           ListPage(w, p, more)
    PROVE  JInv'
<1>1. cur[w] \in Resources
  BY SumsAreNat DEF ListPage, Busy
<1>2. /\ \A r \in Resources \ {cur[w]} : res'[r] = res[r]
      /\ res'[cur[w]].pages > 0
      /\ res'[cur[w]].error \in {"write", res[cur[w]].error}
  <2>1. res[cur[w]].pages \in Nat
    BY <1>1 DEF IInv, PoolTypeOK, Report
  <2> QED
    BY <1>1, <2>1 DEF ListPage, IInv, PoolTypeOK
<1>3. \A v \in Workers : /\ stats'[v].kinds = stats[v].kinds
                         /\ stats'[v].pages = stats[v].pages
                         /\ stats'[v].resources = stats[v].resources
                         /\ stats'[v].errors = stats[v].errors
  <2>1. stats[w] \in Stats
    BY DEF IInv, PoolTypeOK
  <2>2. /\ stats'[w] = [stats[w] EXCEPT !.namespaces = @ \cup p.namespaces]
        /\ \A v \in Workers \ {w} : stats'[v] = stats[v]
    BY DEF ListPage, IInv, PoolTypeOK
  <2> QED
    BY <2>1, <2>2 DEF Stats
<1>4. ErrorsMatch'
  <2>1. \A r \in Resources : /\ res'[r].error = "list" => res[r].error = "list"
                             /\ res[r].error # "none" => res'[r].error # "none"
    BY <1>2
  <2> QED
    BY <1>3, <2>1 DEF JInv, ErrorsMatch
<1>5. UNCHANGED <<taken, cur, main, collected, total>> /\ (UNCHANGED <<nsDone, wpc>> \/ NextNamespace(w))
  BY DEF ListPage, mainVars
<1>6. Job!Visited(res'[cur[w]])
  BY <1>2 DEF Job!Visited
<1> QED
  BY <1>2, <1>3, <1>4, <1>5, <1>6, ListingJInv

\* With its numbers in the statistics the kind is accounted.
LEMMA AccountJInv == ASSUME IInv, JInv, NEW w \in Workers, Account(w) PROVE JInv'
<1> DEFINE r == cur[w]
<1>1. /\ w \in Busy /\ r \in Resources /\ r \in 1 .. taken /\ wpc[w] = "account"
      /\ UNCHANGED <<taken, cur, res, main, collected, total>>
      /\ wpc'[w] = "send" /\ \A v \in Workers \ {w} : wpc'[v] = wpc[v]
  BY SumsAreNat DEF Account, Busy, mainVars, IInv, PoolTypeOK
<1>2. /\ stats'[w].kinds = stats[w].kinds /\ stats'[w].errors = stats[w].errors
      /\ stats'[w].pages = stats[w].pages + KindsPages[r]
      /\ stats'[w].resources = stats[w].resources + KindsExported[r]
      /\ \A v \in Workers \ {w} : stats'[v] = stats[v]
  <2>1. stats[w] \in Stats
    BY DEF IInv, PoolTypeOK
  <2>2. stats'[w] = [stats[w] EXCEPT !.resources = @ + res[r].exported, !.pages = @ + res[r].pages]
    BY DEF Account, IInv, PoolTypeOK
  <2>3. \A v \in Workers \ {w} : stats'[v] = stats[v]
    BY DEF Account, IInv, PoolTypeOK
  <2> QED
    BY <1>1, <2>1, <2>2, <2>3 DEF Stats, KindsPages, KindsExported
<1>3. WorkersKinds' = WorkersKinds
  BY <1>2 DEF WorkersKinds
<1>4. /\ Sum(WorkersPages', Workers) = Sum(WorkersPages, Workers) + KindsPages[r]
      /\ Sum(WorkersExported', Workers) = Sum(WorkersExported, Workers) + KindsExported[r]
  <2>1. /\ WorkersPages'[w] = WorkersPages[w] + KindsPages[r]
        /\ \A v \in Workers \ {w} : WorkersPages'[v] = WorkersPages[v]
    BY <1>2 DEF WorkersPages
  <2>2. /\ WorkersExported'[w] = WorkersExported[w] + KindsExported[r]
        /\ \A v \in Workers \ {w} : WorkersExported'[v] = WorkersExported[v]
    BY <1>2 DEF WorkersExported
  <2>3. KindsPages[r] \in Nat /\ KindsExported[r] \in Nat
    BY <1>1, SumsAreNat
  <2> HIDE DEF r
  <2> QED
    BY <2>1, <2>2, <2>3, SumsAreNat, SumRaise
<1>5. r \notin Accounted /\ Accounted' = Accounted \cup {r}
  <2>1. \A v \in Workers \ {w} : cur[v] = r => wpc[v] \notin {"list", "account"}
    BY <1>1 DEF IInv, NoSharedKind, Busy
  <2> QED
    BY <1>1, <2>1 DEF Accounted
<1>6. /\ Sum(KindsPages, Accounted') = Sum(KindsPages, Accounted) + KindsPages[r]
      /\ Sum(KindsExported, Accounted') = Sum(KindsExported, Accounted) + KindsExported[r]
  <2>1. r \in Accounted' /\ Accounted = Accounted' \ {r} /\ Accounted' \subseteq Resources
    BY <1>1, <1>5, SumsAreNat
  <2>2. IsFiniteSet(Accounted')
    BY <1>5, SumsAreNat, FS_AddElement
  <2>3. \A x \in Accounted' : KindsPages[x] \in Nat /\ KindsExported[x] \in Nat
    BY <2>1, SumsAreNat
  <2> HIDE DEF r
  <2>4. Sum(KindsPages, Accounted') = Sum(KindsPages, Accounted' \ {r}) + KindsPages[r]
    BY <2>1, <2>2, <2>3, SumRemove
  <2>5. Sum(KindsExported, Accounted') = Sum(KindsExported, Accounted' \ {r}) + KindsExported[r]
    BY <2>1, <2>2, <2>3, SumRemove
  <2> QED
    BY <2>1, <2>4, <2>5
<1>7. SumsMatch'
  <2>1. KindsPages' = KindsPages /\ KindsExported' = KindsExported
    BY <1>1 DEF KindsPages, KindsExported
  <2> QED
    BY <1>1, <1>3, <1>4, <1>6, <2>1 DEF JInv, SumsMatch
<1>8. ErrorsMatch'
  <2>1. \A v \in Workers : stats'[v].errors = stats[v].errors
    BY <1>2
  <2> QED
    BY <1>1, <2>1 DEF JInv, ErrorsMatch
<1>9. VisitedOrListed'
  BY <1>1 DEF JInv, VisitedOrListed
<1>10. TotalMatches'
  BY <1>1, TotalKept, WorkBeforeWait
<1> QED
  BY <1>7, <1>8, <1>9, <1>10 DEF JInv

LEMMA EndOfWorkJInv == ASSUME IInv, JInv, NEW w \in Workers, Send(w) \/ Done(w) PROVE JInv'
<1>1. /\ wpc[w] \in {"send", "done"} /\ wpc'[w] \in {"done", "idle"} /\ w \in Busy
      /\ \A v \in Workers \ {w} : wpc'[v] = wpc[v]
      /\ UNCHANGED <<taken, cur, res, stats, main, collected, total>>
  BY DEF Send, Done, Busy, mainVars, IInv, PoolTypeOK
<1>2. Accounted' = Accounted
  BY <1>1 DEF Accounted
<1>3. SumsMatch'
  BY <1>1, <1>2 DEF JInv, SumsMatch, WorkersKinds, WorkersPages, WorkersExported, KindsPages, KindsExported
<1>4. ErrorsMatch' /\ VisitedOrListed'
  BY <1>1 DEF JInv, ErrorsMatch, VisitedOrListed
<1>5. TotalMatches'
  BY <1>1, TotalKept, WorkBeforeWait
<1> QED
  BY <1>3, <1>4, <1>5 DEF JInv

\* RunExport adds the statistics of one worker after the other.
LEMMA CollectTotal == ASSUME IInv, JInv, Collect PROVE TotalMatches'
<1> DEFINE w == collected + 1
<1>1. /\ w \in Workers /\ main = "collect" /\ collected' = w /\ UNCHANGED <<main, stats>>
      /\ total' = AddStats(total, stats[w])
      /\ IsFiniteSet(1 .. w) /\ 1 .. w \subseteq Workers /\ w \in 1 .. w
      /\ (1 .. w) \ {w} = 1 .. collected
  <2>1. collected \in Nat /\ collected < W /\ W \in Nat
    BY PoolAssumption DEF Collect, IInv, PoolTypeOK
  <2>2. w \in Workers /\ 1 .. w \subseteq Workers /\ w \in 1 .. w /\ (1 .. w) \ {w} = 1 .. collected
    BY <2>1 DEF Workers
  <2>3. IsFiniteSet(1 .. w)
    BY <2>2, WorkersFinite, FS_Subset
  <2> QED
    BY <2>2, <2>3 DEF Collect, workerVars
<1>2. /\ WorkersKinds' = WorkersKinds /\ WorkersPages' = WorkersPages
      /\ WorkersExported' = WorkersExported
  BY <1>1 DEF WorkersKinds, WorkersPages, WorkersExported
<1>3. ASSUME NEW g, \A v \in Workers : g[v] \in Nat
      PROVE  Sum(g, 1 .. w) = Sum(g, 1 .. collected) + g[w]
  <2> HIDE DEF w
  <2> QED
    BY <1>1, <1>3, SumRemove
<1>4. /\ total'.kinds = total.kinds + WorkersKinds[w]
      /\ total'.pages = total.pages + WorkersPages[w]
      /\ total'.resources = total.resources + WorkersExported[w]
      /\ total'.errors = total.errors + stats[w].errors
  BY <1>1 DEF AddStats, WorkersKinds, WorkersPages, WorkersExported
<1>5. total.errors \in Nat /\ stats[w].errors \in Nat
  BY <1>1, SumsAreNat DEF IInv, PoolTypeOK, Stats
<1>6. total'.errors > 0 <=> \E v \in 1 .. w : stats[v].errors > 0
  <2>1. total'.errors > 0 <=> total.errors > 0 \/ stats[w].errors > 0
    BY <1>4, <1>5
  <2> HIDE DEF w
  <2> QED
    BY <1>1, <2>1 DEF JInv, TotalMatches
<1>7. /\ total'.kinds = Sum(WorkersKinds, 1 .. w)
      /\ total'.pages = Sum(WorkersPages, 1 .. w)
      /\ total'.resources = Sum(WorkersExported, 1 .. w)
  BY <1>3, <1>4, SumsAreNat DEF JInv, TotalMatches
<1> QED
  BY <1>1, <1>2, <1>6, <1>7 DEF TotalMatches

LEMMA RunExportJInv == ASSUME IInv, JInv, RunExport PROVE JInv'
<1>1. UNCHANGED <<taken, wpc, cur, stats, res>>
  BY DEF RunExport, AddWorkers, PoolFails, WgAdd, Delegate, Wait, CloseOut, Collect, Return, workerVars
<1>2. Accounted' = Accounted
  BY <1>1 DEF Accounted
<1>3. /\ WorkersKinds' = WorkersKinds /\ WorkersPages' = WorkersPages
      /\ WorkersExported' = WorkersExported
      /\ KindsPages' = KindsPages /\ KindsExported' = KindsExported
  BY <1>1 DEF WorkersKinds, WorkersPages, WorkersExported, KindsPages, KindsExported
<1>4. SumsMatch' /\ ErrorsMatch' /\ VisitedOrListed'
  BY <1>1, <1>2, <1>3 DEF JInv, SumsMatch, ErrorsMatch, VisitedOrListed
<1>5. TotalMatches'
  <2>1. CASE Collect
    BY <2>1, CollectTotal
  <2>2. CASE Return
    BY <1>1, <1>3, <2>2 DEF Return, JInv, TotalMatches
  <2>3. CASE AddWorkers \/ PoolFails \/ WgAdd \/ Delegate \/ Wait \/ CloseOut
    <3>1. main \notin {"collect", "returned"} /\ main' # "returned" /\ UNCHANGED <<collected, total>>
      BY <2>3 DEF AddWorkers, PoolFails, WgAdd, Delegate, Wait, CloseOut
    <3> QED
      BY <1>1, <1>3, <3>1 DEF JInv, TotalMatches
  <2> QED
    BY <2>1, <2>2, <2>3 DEF RunExport
<1> QED
  BY <1>4, <1>5 DEF JInv

LEMMA JInvInductive == Spec => [](IInv /\ JInv)
<1>1. IInv /\ JInv /\ [Next]_poolVars => JInv'
  <2> SUFFICES ASSUME IInv, JInv, [Next]_poolVars PROVE JInv'
    OBVIOUS
  <2>1. CASE RunExport
    BY <2>1, RunExportJInv
  <2>2. ASSUME NEW w \in Workers, Work(w) PROVE JInv'
    BY <2>2, TakeJInv, ListErrorJInv, ListPageJInv, AccountJInv, EndOfWorkJInv DEF Work
  <2>3. CASE Finished \/ UNCHANGED poolVars
    <3>1. UNCHANGED <<main, taken, wpc, cur, stats, res, collected, total>>
      BY <2>3 DEF Finished, poolVars
    <3>2. UNCHANGED <<Accounted, WorkersKinds, WorkersPages, WorkersExported, KindsPages, KindsExported>>
      BY <3>1 DEF Accounted, WorkersKinds, WorkersPages, WorkersExported, KindsPages, KindsExported
    <3> QED
      BY <3>1, <3>2 DEF JInv, SumsMatch, ErrorsMatch, TotalMatches, VisitedOrListed
  <2> QED
    BY <2>1, <2>2, <2>3 DEF Next
<1> QED
  BY <1>1, JInvInit, Inductive, PTL DEF Spec

-----------------------------------------------------------------------------
(* The steps of the job *)

Reports == [r \in Resources |-> IF r \in FinishedKinds THEN res[r] ELSE EmptyReport]
Outcome == CASE main = "returned" -> "ok"
             [] main = "failed"   -> "err"
             [] OTHER             -> "running"
Returned == IF main = "returned" THEN total ELSE NoStats

\* A worker that is not done with a kind leaves the finished ones alone.
LEMMA WorkingIsHidden ==
    ASSUME IInv, NEW w \in Workers, Work(w), ~ Done(w)
    PROVE  UNCHANGED <<FinishedKinds, Reports, main, total>>
<1>1. CASE Take(w)
  <2>1. /\ taken' = taken + 1 /\ cur'[w] = taken + 1 /\ UNCHANGED <<res, main, total>> /\ taken \in Nat
        /\ w \notin Busy /\ Busy' = Busy \cup {w} /\ \A v \in Busy : cur'[v] = cur[v]
    BY <1>1 DEF Take, mainVars, Busy, IInv, PoolTypeOK
  <2>2. 1 .. taken + 1 = 1 .. taken \cup {taken + 1} /\ taken + 1 \notin 1 .. taken
    BY <2>1
  <2>3. FinishedKinds' = FinishedKinds
    BY <2>1, <2>2 DEF FinishedKinds
  <2> QED
    BY <2>1, <2>3 DEF Reports
<1>2. CASE ~ Take(w)
  <2>1. /\ UNCHANGED <<taken, cur, main, total>> /\ w \in Busy /\ Busy' = Busy
        /\ \A r \in Resources : r # cur[w] => res'[r] = res[r]
    BY <1>2 DEF Work, ListError, ListPage, NextNamespace, Account, Send, mainVars, Busy, IInv, PoolTypeOK
  <2>2. FinishedKinds' = FinishedKinds /\ cur[w] \notin FinishedKinds
    BY <2>1 DEF FinishedKinds
  <2> QED
    BY <2>1, <2>2 DEF Reports
<1> QED
  BY <1>1, <1>2

\* wg.Done finishes the kind of the worker, and no other.
LEMMA DoneFinishes ==
    ASSUME IInv, JInv, NEW w \in Workers, Done(w)
    PROVE  /\ cur[w] \in Resources \ FinishedKinds
           /\ FinishedKinds' = FinishedKinds \cup {cur[w]}
           /\ Reports' = [Reports EXCEPT ![cur[w]] = Reports'[cur[w]]]
           /\ Job!Visited(Reports'[cur[w]])
           /\ main # "returned" /\ UNCHANGED <<main, total>>
<1>1. /\ w \in Busy /\ Busy' = Busy \ {w} /\ wpc[w] = "done"
      /\ UNCHANGED <<taken, cur, res, main, total>>
  BY DEF Done, Busy, mainVars, IInv, PoolTypeOK
<1>2. cur[w] \in Resources /\ cur[w] \in 1 .. taken /\ main # "returned"
  BY <1>1, SumsAreNat, WorkBeforeWait
<1>3. cur[w] \notin FinishedKinds /\ FinishedKinds' = FinishedKinds \cup {cur[w]}
  BY <1>1, <1>2 DEF FinishedKinds, IInv, NoSharedKind
<1>4. Reports' = [Reports EXCEPT ![cur[w]] = Reports'[cur[w]]] /\ Reports'[cur[w]] = res[cur[w]]
  BY <1>1, <1>2, <1>3 DEF Reports
<1>5. \A v \in Workers : cur[v] = cur[w] => wpc[v] # "list"
  BY <1>1 DEF IInv, NoSharedKind, Busy
<1>6. Job!Visited(res[cur[w]])
  BY <1>2, <1>5 DEF JInv, VisitedOrListed
<1> QED
  BY <1>1, <1>2, <1>3, <1>4, <1>6 DEF Job!Visited

\* When RunExport returns, every kind is finished, and total is the sum over all workers,
\* which is that over all kinds.
LEMMA ReturnSummarises ==
    ASSUME IInv, JInv, Return
    PROVE  FinishedKinds = Resources /\ Job!Summarises(total, Reports)
<1>1. main = "collect" /\ collected = W /\ taken = N /\ Busy = {}
  BY DEF Return, IInv, Drained
<1>2. FinishedKinds = Resources /\ Accounted = Resources
  BY <1>1 DEF FinishedKinds, Accounted, Busy, Resources
<1>3. /\ [r \in Resources |-> Reports[r].pages] = KindsPages
      /\ [r \in Resources |-> Reports[r].exported] = KindsExported
      /\ \A r \in Resources : Reports[r].error = res[r].error
  BY <1>2 DEF Reports, KindsPages, KindsExported
<1>4. Cardinality(Resources) = N
  BY FS_Interval, PoolAssumption DEF Resources
<1>5. total.kinds = N /\ total.pages = Sum(KindsPages, Resources) /\ total.resources = Sum(KindsExported, Resources)
  BY <1>1, <1>2 DEF JInv, TotalMatches, SumsMatch, Workers
<1>6. total.errors > 0 <=> \E w \in Workers : stats[w].errors > 0
  BY <1>1 DEF JInv, TotalMatches, Workers
<1>7. /\ (\E r \in Resources : Reports[r].error = "list") => total.errors > 0
      /\ total.errors > 0 => \E r \in Resources : Reports[r].error # "none"
  BY <1>3, <1>6 DEF JInv, ErrorsMatch
<1> QED
  BY <1>2, <1>3, <1>4, <1>5, <1>7, JobSums DEF Job!Summarises

\* RunExport and its workers are a job as ExportJob promises it: each kind is finished
\* once and with a final report, and what is returned are the numbers of the reports.
THEOREM PoolImplementsJob == Spec => ImplementsJob
<1>1. Init => Job!Init
  BY PoolAssumption DEF Init, Job!Init, FinishedKinds
<1>2. IInv /\ JInv /\ [Next]_poolVars => [Job!Next]_<<FinishedKinds, Reports, Outcome, Returned>>
  <2> SUFFICES ASSUME IInv, JInv, [Next]_poolVars
               PROVE  Job!Next \/ UNCHANGED <<FinishedKinds, Reports, Outcome, Returned>>
    OBVIOUS
  <2>1. CASE RunExport
    <3>1. UNCHANGED <<FinishedKinds, Reports>>
      BY <2>1 DEF RunExport, AddWorkers, PoolFails, WgAdd, Delegate, Wait, CloseOut, Collect, Return,
                  workerVars, FinishedKinds, Busy, Reports
    <3>2. CASE Return
      <4>1. main = "collect" /\ main' = "returned" /\ UNCHANGED total
        BY <3>2 DEF Return
      <4>2. Outcome = "running" /\ Outcome' = "ok" /\ Returned' = total
        BY <4>1 DEF Outcome, Returned
      <4>3. Job!Succeed
        BY <3>1, <3>2, <4>2, ReturnSummarises DEF Job!Succeed, Reports, Outcome, Returned
      <4> QED
        BY <4>3 DEF Job!Next
    <3>3. CASE PoolFails
      <4>1. Outcome = "running" /\ Outcome' = "err" /\ UNCHANGED Returned
        BY <3>3 DEF PoolFails, Outcome, Returned
      <4>2. Job!GiveUp
        BY <3>1, <4>1 DEF Job!GiveUp, Reports, Outcome, Returned
      <4> QED
        BY <4>2 DEF Job!Next
    <3>4. CASE AddWorkers \/ WgAdd \/ Delegate \/ Wait \/ CloseOut \/ Collect
      <4>1. UNCHANGED <<Outcome, Returned>>
        BY <3>4 DEF AddWorkers, WgAdd, Delegate, Wait, CloseOut, Collect, Outcome, Returned
      <4> QED
        BY <3>1, <4>1
    <3> QED
      BY <2>1, <3>2, <3>3, <3>4 DEF RunExport
  <2>2. ASSUME NEW w \in Workers, Done(w) PROVE Job!Next
    <3>1. UNCHANGED <<Outcome, Returned>> /\ Outcome # "ok"
      BY <2>2, DoneFinishes DEF Outcome, Returned
    <3>2. PICK r \in Resources : r = cur[w]
      BY <2>2, DoneFinishes
    <3>3. Job!Finish(r)
      BY <2>2, <3>1, <3>2, DoneFinishes DEF Job!Finish, Reports, Outcome, Returned
    <3> QED
      BY <3>3 DEF Job!Next
  <2>3. ASSUME NEW w \in Workers, Work(w), ~ Done(w)
        PROVE  UNCHANGED <<FinishedKinds, Reports, Outcome, Returned>>
    BY <2>3, WorkingIsHidden DEF Outcome, Returned
  <2>4. CASE Finished \/ UNCHANGED poolVars
    BY <2>4 DEF Finished, poolVars, FinishedKinds, Busy, Reports, Outcome, Returned
  <2> QED
    BY <2>1, <2>2, <2>3, <2>4 DEF Next
<1> QED
  BY <1>1, <1>2, JInvInductive, PTL DEF Spec, ImplementsJob, Job!Spec, Job!jobVars, Reports, Outcome, Returned
=============================================================================
