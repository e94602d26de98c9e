------------------------------ MODULE FileNames ------------------------------
(***************************************************************************)
(* The files one kind is exported to, item by item or as lists:            *)
(* exportSingleResources, exportOneSingleResource, exportLists and         *)
(* exportOneSingleList (internal/export/worker/worker.go) with FileName    *)
(* and ListFileName (internal/types/config.go) and the default templates.  *)
(* Each page has its own map of names, which counts the instances of a     *)
(* namespace whose names differ in upper and lower case only; from the     *)
(* second one on FileName appends the count.  Characters that are not      *)
(* allowed in file names become "_".  Lists are not paginated, and have    *)
(* one file per namespace.                                                 *)
(*                                                                         *)
(* Names are sequences of the letters and signs that matter here.          *)
(***************************************************************************)
EXTENDS Integers, Sequences, SequencesExt, FiniteSets

CONSTANTS
    Instances,      \* the instances of the kind, as [ns |-> namespace, name |-> name]
    Lower,          \* the lower case form of each letter and sign
    Clean,          \* each letter and sign as it appears in a file name
    Digits,         \* the decimal form of each number
    Setups          \* the configurations and file systems considered

Chars == DOMAIN Lower

\* What FileName puts before a number.
Separator == "_"

ASSUME FileNamesAssumption ==
    /\ IsFiniteSet(Instances)
    /\ Lower \in [Chars -> Chars] /\ Clean \in [Chars -> Chars]
    /\ Separator \in Chars
    /\ Digits \in [1 .. Cardinality(Instances) -> Seq(Chars)]
    /\ \A i \in Instances : i = [ns |-> i.ns, name |-> i.name] /\ i.name \in Seq(Chars)
    /\ Setups \subseteq [pageSize : Nat, lists : BOOLEAN, byNamespace : BOOLEAN,
                            caseSensitive : BOOLEAN]

VARIABLES
    setup,    \* config.QueryPageSize (0 is no limit) and AsLists, whether there is a query
              \* for each namespace, and whether the file system respects case
    listed,   \* the instances on this page and the earlier ones
    page,     \* the items of this page that are still to be exported
    names,    \* the map of this page, as the sequence of names exported
    files,    \* the file each path holds, as a set of [path, instances, whole]
    written,  \* the instances whose export succeeded
    failed    \* the instances whose export failed or that are excluded

vars == <<setup, listed, page, names, files, written, failed>>

Map(f, s) == [i \in DOMAIN s |-> f[s[i]]]

\* Mutant: upper and lower case are told apart.
KeyAsIs(i) == [ns |-> i.ns, name |-> i.name]

\* The key of the map: namespace and name in lower case.
Key(i) == [ns |-> i.ns, name |-> Map(Lower, i.name)]

\* How many instances with the key of i this page has had so far.
NameCount(i) == Cardinality({k \in DOMAIN names : names[k] = Key(i)})

\* The path of an instance; kind and group are the same for all.
FileName(i, index) ==
    [ns |-> i.ns,
     name |-> Map(Clean, IF index > 0 THEN i.name \o <<Separator>> \o Digits[index] ELSE i.name)]

ListFileName(ns) == [ns |-> ns, name |-> <<>>]

\* The file a path denotes on the file system of the setup s.
OnDisk(s, path) ==
    IF s.caseSensitive THEN path ELSE [path EXCEPT !.name = Map(Lower, path.name)]

Init ==
    /\ setup \in Setups
    /\ listed = {}
    /\ page = <<>>
    /\ names = <<>>
    /\ files = {}
    /\ written = {}
    /\ failed = {}

\* Mutant: lists are paginated as well.
PageLimit == setup.pageSize

\* No limit is asked for in list mode.
Limit == IF setup.lists THEN 0 ELSE setup.pageSize

\* The queries, each as the instances it finds.
Queries ==
    IF setup.byNamespace THEN {{i \in Instances : i.ns = ns} : ns \in {i.ns : i \in Instances}}
                         ELSE {Instances}

\* The next page of a query arrives, with the remaining instances up to the limit, in
\* the order of the server; the map of names is a new one. A query is followed by the
\* next one when it has no more pages.
NextPage ==
    /\ page = <<>>
    /\ \E query \in Queries :
          LET rest == query \ listed
              size == IF Limit = 0 \/ Limit > Cardinality(rest) THEN Cardinality(rest) ELSE Limit
          IN  /\ rest # {}
              /\ \A other \in Queries \ {query} : other \subseteq listed \/ other \cap listed = {}
              /\ \E items \in {s \in SUBSET rest : Cardinality(s) = size} :
                    /\ listed' = listed \cup items
                    /\ page' \in SetToSeqs(items)
    /\ names' = <<>>
    /\ UNCHANGED <<setup, files, written, failed>>

\* os.Create truncates a file that is already there.
Create(path, instances, whole) ==
    {f \in files : f.path # OnDisk(setup, path)}
        \cup {[path |-> OnDisk(setup, path), instances |-> instances, whole |-> whole]}

\* An item is exported: the name is counted, then the file is written.
Export ==
    LET i == Head(page) IN
    /\ page # <<>> /\ ~ setup.lists
    /\ names' = Append(names, Key(i))
    /\ files' = Create(FileName(i, NameCount(i)), {i}, TRUE)
    /\ written' = written \cup {i}
    /\ page' = Tail(page)
    /\ UNCHANGED <<setup, listed, failed>>

\* MkdirAll or Create fails, and there is no file; or PrintObj fails, and leaves a
\* part of one. The name is counted either way.
ExportFails ==
    LET i == Head(page) IN
    /\ page # <<>> /\ ~ setup.lists
    /\ names' = Append(names, Key(i))
    /\ files' \in {files, Create(FileName(i, NameCount(i)), {i}, FALSE)}
    /\ failed' = failed \cup {i}
    /\ page' = Tail(page)
    /\ UNCHANGED <<setup, listed, written>>

\* An excluded item, or one whose file name cannot be made, has no part in the
\* names.
Skip ==
    /\ page # <<>> /\ ~ setup.lists
    /\ failed' = failed \cup {Head(page)}
    /\ page' = Tail(page)
    /\ UNCHANGED <<setup, listed, names, files, written>>

\* The items of a namespace that are not excluded are written as one list.
ExportList(ns) ==
    LET items == {i \in ToSet(page) : i.ns = ns} IN
    /\ setup.lists
    /\ items # {}
    /\ \E kept \in SUBSET items :
          /\ files' = IF kept = {} THEN files ELSE Create(ListFileName(ns), kept, TRUE)
          /\ written' = written \cup kept
          /\ failed' = failed \cup (items \ kept)
    /\ page' = SetToSeq(ToSet(page) \ items)
    /\ UNCHANGED <<setup, listed, names>>

ExportListFails(ns) ==
    LET items == {i \in ToSet(page) : i.ns = ns} IN
    /\ setup.lists
    /\ items # {}
    /\ files' \in {files, Create(ListFileName(ns), items, FALSE)}
    /\ failed' = failed \cup items
    /\ page' = SetToSeq(ToSet(page) \ items)
    /\ UNCHANGED <<setup, listed, names, written>>

Done ==
    /\ page = <<>>
    /\ listed = Instances
    /\ UNCHANGED vars

Next ==
    \/ NextPage \/ Export \/ ExportFails \/ Skip \/ Done
    \/ \E ns \in {i.ns : i \in Instances} : ExportList(ns) \/ ExportListFails(ns)

Spec == Init /\ [][Next]_vars
----------------------------------------------------------------------------
(* The condition on names under which the property holds *)

\* The instances that the names of a page do not tell apart.
SameKey(i) == {j \in Instances : Key(j) = Key(i)}

\* The numbers that an instance may get.
Indices(i) == 0 .. Cardinality(SameKey(i)) - 1

\* What the names of the instances must satisfy: two instances may share a file only if
\* they have the same key, and then with the same number only; and they must not
\* share any if there are pages, because the numbers start again on each of them.
NamesApart ==
    \A s \in Setups : ~ s.lists =>
        \A i, j \in Instances : \A m \in Indices(i), n \in Indices(j) :
            i # j /\ OnDisk(s, FileName(i, m)) = OnDisk(s, FileName(j, n))
                => s.pageSize = 0 /\ Key(i) = Key(j) /\ m = n

----------------------------------------------------------------------------
(* Properties *)

\* No export overwrites another, not even one that fails: every instance counted
\* as exported is in a file that is written completely: one of its own, or the list of
\* its namespace.
OwnFile == \A i \in written : \E f \in files : i \in f.instances /\ f.whole
=============================================================================
