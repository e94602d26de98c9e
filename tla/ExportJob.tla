------------------------------ MODULE ExportJob ------------------------------
(***************************************************************************)
(* What the export job promises to its caller, without workers, channels   *)
(* or a WaitGroup.  Every kind is finished at most once, with a final      *)
(* report.  The job succeeds only when every kind is finished, and then    *)
(* the statistics it returns are those of the reports.  It may give up at  *)
(* any time before; kinds may still finish behind the caller's back then.  *)
(***************************************************************************)
EXTENDS Integers, FiniteSets

CONSTANT Kinds

VARIABLES
    finished,  \* the kinds whose report is final
    report,    \* the report of every kind; meaningless until it is finished
    outcome,   \* "running", "ok" or "err"
    total      \* the statistics returned; meaningful once outcome = "ok"

jobVars == <<finished, report, outcome, total>>

\* A kind was visited: one of its list requests was answered, or refused.
Visited(rep) == rep.pages > 0 \/ rep.error = "list"

\* The sum of g[x] over the x in S: the number of things of which x has g[x].
SumOver(g, S) == Cardinality(UNION {{x} \X (1 .. g[x]) : x \in S})

\* The statistics t follow from the reports f of all kinds.
Summarises(t, f) ==
    /\ t.kinds = Cardinality(Kinds)
    /\ t.pages = SumOver([r \in Kinds |-> f[r].pages], Kinds)
    /\ t.resources = SumOver([r \in Kinds |-> f[r].exported], Kinds)
    /\ (\E r \in Kinds : f[r].error = "list") => t.errors > 0
    /\ t.errors > 0 => \E r \in Kinds : f[r].error # "none"

Init ==
    /\ finished = {}
    /\ outcome = "running"

Finish(r) ==
    /\ outcome # "ok"
    /\ r \notin finished
    /\ finished' = finished \cup {r}
    /\ Visited(report'[r])
    /\ report' = [report EXCEPT ![r] = report'[r]]
    /\ UNCHANGED <<outcome, total>>

Succeed ==
    /\ outcome = "running"
    /\ finished = Kinds
    /\ outcome' = "ok"
    /\ Summarises(total', report)
    /\ UNCHANGED <<finished, report>>

GiveUp ==
    /\ outcome = "running"
    /\ outcome' = "err"
    /\ UNCHANGED <<finished, report, total>>

Next == (\E r \in Kinds : Finish(r)) \/ Succeed \/ GiveUp

Spec == Init /\ [][Next]_jobVars
=============================================================================
