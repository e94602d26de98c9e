------------------------------ MODULE Selection ------------------------------
(***************************************************************************)
(* What is exported, from the config file and the flags on: listResources  *)
(* selects the kinds (internal/export/export.go), each is queried in its   *)
(* namespaces (worker.go), and single instances are left out               *)
(* (IsInstanceExcluded in types/config.go).                                *)
(***************************************************************************)
EXTENDS ConfigSetup, Functions

CONSTANTS
    ApiResources,  \* the kinds of the cluster: [kind, list, namespaced]
    Instances      \* [name, kind, ns, old, owners, values]: whether it is older than
                   \* createdWithin, the kinds of its owners, the values of its fields

ASSUME SelectionAssumption ==
    /\ \A i \in Instances : \E r \in ApiResources :
          r.kind = i.kind /\ (r.namespaced <=> i.ns # NoNamespace)
    /\ \A r, s \in ApiResources : r.kind = s.kind => r = s

VARIABLES
    resources,  \* the kinds that were selected and are still to be exported
    times       \* how often each instance was exported

vars == <<setupVars, resources, times>>

Init ==
    /\ SetupInit
    /\ resources = {}
    /\ times = [i \in Instances |-> 0]

----------------------------------------------------------------------------
HasNamespaces == config.namespaces # <<>>

\* Kinds that are included leave no say to those that are excluded.
IsExcluded(kind) ==
    IF config.included # {} THEN kind \notin config.included ELSE kind \in config.excluded

Selected ==
    {r \in ApiResources : /\ r.list
                          /\ ~ IsExcluded(r.kind)
                          /\ ~ r.namespaced /\ HasNamespaces => config.incCluster}

ListResources ==
    /\ pc = "list"
    /\ resources' = Selected
    /\ pc' = "export"
    /\ UNCHANGED <<inputs, config, times>>

\* Mutant: kinds of the cluster are queried in each namespace, too.
NamespacesForAny(r) == IF HasNamespaces THEN config.namespaces ELSE EmptyNamespaces

NamespacesForResource(r) ==
    IF r.namespaced /\ HasNamespaces THEN config.namespaces ELSE EmptyNamespaces

\* Mutant: only owners named as excluded count.
IsInstanceExcludedByName(i) ==
    \/ config.owners /\ i.owners \cap config.excluded # {}
    \/ config.createdWithin /\ i.old
    \/ \E kv \in config.byField : kv[1] = i.kind /\ kv[2] \in i.values

\* An instance goes with its owners: of a kind that is excluded, or not included.
IsInstanceExcluded(i) ==
    \/ config.owners /\ \E kind \in i.owners : IsExcluded(kind)
    \/ config.createdWithin /\ i.old
    \/ \E kv \in config.byField : kv[1] = i.kind /\ kv[2] \in i.values

\* How many of the queries for r find an instance in ns.
Finds(r, ns) ==
    LET queries == NamespacesForResource(r)
    IN  Cardinality({q \in DOMAIN queries : ~ r.namespaced \/ queries[q] \in {NoNamespace, ns}})

\* A worker exports one kind, with a query in each namespace.
ExportKind ==
    /\ pc = "export"
    /\ config.worker > 0
    /\ \E r \in resources :
          /\ resources' = resources \ {r}
          /\ times' = [i \in Instances |->
                IF i.kind = r.kind /\ ~ IsInstanceExcluded(i)
                  THEN times[i] + Finds(r, i.ns) ELSE times[i]]
    /\ UNCHANGED setupVars

\* Without a worker the export never gets there.
Exported ==
    /\ pc = "export"
    /\ resources = {}
    /\ pc' = "exported"
    /\ UNCHANGED <<inputs, config, resources, times>>

Next == (Setup /\ UNCHANGED <<resources, times>>) \/ ListResources \/ ExportKind \/ Exported

Spec == Init /\ [][Next]_vars
----------------------------------------------------------------------------
(* Properties *)

SelectionTypeOK ==
    /\ pc \in {"file", "flags", "masked", "encrypted", "diff", "list", "validate", "update",
               "export", "exported", "failed"}
    /\ DOMAIN config = DOMAIN Defaults
    /\ resources \subseteq ApiResources
    /\ times \in [Instances -> Nat]

\* The kinds that the file and the flags ask for: included ones; else all but those
\* excluded, by the default list when the file has none and the flags do not say.
WantedKind(kind) ==
    IF Given("included") # {} THEN kind \in Given("included")
    ELSE IF Given("excluded") = {} /\ {"excluded", "excludeDefaults"} \cap DOMAIN flags = {"excludeDefaults"}
           THEN kind \notin DefaultKinds
    ELSE kind \notin Given("excluded")

Wanted(i, namespaces) ==
    /\ \E r \in ApiResources : r.kind = i.kind /\ r.list
    /\ WantedKind(i.kind)
    /\ i.ns = NoNamespace => namespaces = {} \/ Given("incCluster")
    /\ i.ns # NoNamespace => namespaces = {} \/ {NoNamespace, i.ns} \cap namespaces # {}
    /\ Given("owners") => \A kind \in i.owners : WantedKind(kind)
    /\ Given("createdWithin") => ~ i.old
    /\ \A kv \in Given("byField") : ~ (kv[1] = i.kind /\ kv[2] \in i.values)

\* An export has what its config file and its flags ask for, the flags taking the
\* place of the file, and nothing else. (A single namespace: see NamespaceRespected.)
ExportsTheSelection ==
    pc = "exported" /\ Given("namespace") = "none" => \A i \in Instances :
        times[i] > 0 <=> Wanted(i, ToSet(Given("namespaces")))

\* Each instance is exported once, and so counted once, when no namespace is given
\* twice.
ExportedOnce ==
    IsInjective(Given("namespaces")) /\ NoNamespace \notin ToSet(Given("namespaces"))
        => \A i \in Instances : times[i] <= 1

\* "A single namespace (default all)", "joined with namespace, if both are set": an
\* export with namespaces is limited to them, in whichever way they are given.
NamespaceRespected ==
    pc = "exported" /\ Given("namespace") # "none" /\ "namespaces" \notin DOMAIN flags =>
        \A i \in Instances : times[i] > 0 =>
            Wanted(i, ToSet(Given("namespaces")) \cup {Given("namespace")})
=============================================================================
