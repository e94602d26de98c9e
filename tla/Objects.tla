------------------------------- MODULE Objects -------------------------------
(***************************************************************************)
(* Exported objects and the functions that change their fields:            *)
(* removeNestedField, transformNestedField and FilterFields with its       *)
(* preserved fields (internal/types/config.go), doMask (masked.go),        *)
(* doEncrypt and decryptFields (encrypted.go).                             *)
(*                                                                         *)
(* An object is a function from its paths to nodes. A path is the sequence *)
(* of map keys and list positions that lead to a node; every prefix of a   *)
(* path is a path, and <<>> is the object itself. A text is the set of the *)
(* pieces of information it shows, so that the text of a map shows what    *)
(* its values show; an encrypted text keeps what decryption brings back.   *)
(***************************************************************************)
EXTENDS Paths, FiniteSets

\* The positions of a list as they appear in a path. No list is longer.
CONSTANT Index
Positions == {Index[i] : i \in DOMAIN Index}

ASSUME IndexAssumption ==
    /\ Index \in Seq(STRING)
    /\ \A i, j \in DOMAIN Index : Index[i] = Index[j] => i = j

Map == [kind |-> "map", text |-> {}, key |-> "none"]
List == [kind |-> "list", text |-> {}, key |-> "none"]
Scalar(kind, text) == [kind |-> kind, text |-> text, key |-> "none"]
Text(text) == Scalar("string", text)

Kind(o, p) == IF p \in DOMAIN o THEN o[p].kind ELSE "absent"
Under(o, p) == {q \in DOMAIN o : IsPrefix(p, q)}
Subtree(o, p) == [r \in {SubSeq(q, Len(p) + 1, Len(q)) : q \in Under(o, p)} |-> o[p \o r]]

Put(o, p, value) ==
    [q \in (DOMAIN o \ Under(o, p)) \cup {p \o r : r \in DOMAIN value} |->
        IF IsPrefix(p, q) THEN value[SubSeq(q, Len(p) + 1, Len(q))] ELSE o[q]]

\* The objects that can be: maps and lists have children, scalars have none, and
\* the positions of a list start at 0 and have no gap.
WellFormed(o) ==
    /\ DOMAIN o \subseteq Seq(STRING)
    /\ \A p \in DOMAIN o : o[p] = [kind |-> o[p].kind, text |-> o[p].text, key |-> o[p].key]
    /\ Kind(o, <<>>) = "map"
    /\ \A p \in DOMAIN o \ {<<>>} :
          IF Last(p) \in Positions
            THEN /\ Kind(o, Front(p)) = "list"
                 /\ \A i \in 2 .. Len(Index) :
                       Last(p) = Index[i] => Front(p) \o <<Index[i - 1]>> \in DOMAIN o
            ELSE Kind(o, Front(p)) = "map"
    /\ \A p \in DOMAIN o :
          /\ o[p].key # "none" => o[p].kind = "string"
          /\ o[p].kind \in {"map", "list"} => o[p].text = {}

----------------------------------------------------------------------------
(* Removing and transforming fields *)

\* The nodes a configured field stands for: lists on the way are traversed, lists
\* of lists are not.
Reaches(p, field) ==
    LET keys == {i \in DOMAIN p : p[i] \notin Positions} IN
    /\ p # <<>>
    /\ Last(p) \notin Positions
    /\ Cardinality(keys) = Len(field)
    /\ \A i \in keys : p[i] = field[Cardinality(keys \cap (1 .. i))]
    /\ \A i \in 2 .. Len(p) : ~ (p[i - 1] \in Positions /\ p[i] \in Positions)

ReachedBy(o, field) == {p \in DOMAIN o : Reaches(p, field)}

\* Mutant: lists are not traversed.
RemoveInMaps(o, field) ==
    LET removed == UNION {Under(o, p) : p \in ReachedBy(o, field) \cap {field}}
    IN  [q \in DOMAIN o \ removed |-> o[q]]

RemoveNestedField(o, field) ==
    LET removed == UNION {Under(o, p) : p \in ReachedBy(o, field)}
    IN  [q \in DOMAIN o \ removed |-> o[q]]

\* A string is transformed itself, a map has each of its values transformed,
\* whatever they are; nothing else is.
Transformed(o, field) ==
    LET reached == ReachedBy(o, field)
    IN  {p \in reached : o[p].kind = "string"} \cup
        {p \in DOMAIN o \ {<<>>} : Front(p) \in reached /\ o[Front(p)].kind = "map"}

\* Mutants: values of a map are transformed only when they are strings; what is
\* below a target stays; the values next to the field are transformed too.
TransformStrings(o, field, new) ==
    LET targets == {p \in Transformed(o, field) : o[p].kind = "string"}
    IN  [q \in DOMAIN o |-> IF q \in targets THEN new[q] ELSE o[q]]

TransformInPlace(o, field, new) ==
    [q \in DOMAIN o |-> IF q \in Transformed(o, field) THEN new[q] ELSE o[q]]

TransformSiblings(o, field, new) ==
    LET targets == UNION {{q \in DOMAIN o \ {<<>>} : Front(q) = Front(p)} : p \in Transformed(o, field)}
    IN  [q \in {q \in DOMAIN o : ~ \E p \in targets : IsStrictPrefix(p, q)}
            |-> IF q \in targets THEN new[q] ELSE o[q]]

\* Each target becomes the scalar new has for it: what was below it is gone.
TransformNestedField(o, field, new) ==
    LET targets == Transformed(o, field)
    IN  [q \in {q \in DOMAIN o : ~ \E p \in targets : IsStrictPrefix(p, q)}
            |-> IF q \in targets THEN new[q] ELSE o[q]]

\* The text of a value: that of a map or list shows the texts of its values.
Shown(node) == IF node.key = "none" THEN node.text ELSE {"cipher"}
Printed(o, p) ==
    IF o[p].kind \in {"map", "list"}
      THEN {"printed"} \cup UNION {Shown(o[q]) : q \in Under(o, p)}
      ELSE Shown(o[p])

DoMask(checksum) == Text(IF checksum THEN {"sum"} ELSE {"*****"})

\* Mutant: what is encrypted is encrypted again.
DoEncryptAgain(o, p, aesKey) ==
    IF Printed(o, p) = {}
      THEN [o[p] EXCEPT !.kind = "string"]
      ELSE [kind |-> "string", text |-> Printed(o, p), key |-> aesKey]

\* What is empty or encrypted already stays as it is.
DoEncrypt(o, p, aesKey) ==
    IF o[p].key # "none" \/ Printed(o, p) = {}
      THEN [o[p] EXCEPT !.kind = "string"]
      ELSE [kind |-> "string", text |-> Printed(o, p), key |-> aesKey]

MaskField(o, field, checksum) == TransformNestedField(o, field, [p \in DOMAIN o |-> DoMask(checksum)])
EncryptField(o, field, aesKey) ==
    TransformNestedField(o, field, [p \in DOMAIN o |-> DoEncrypt(o, p, aesKey)])

\* One field after the other.
EncryptFields(o, fields, aesKey) ==
    LET after[i \in 0 .. Len(fields)] ==
            IF i = 0 THEN o ELSE EncryptField(after[i - 1], fields[i], aesKey)
    IN  after[Len(fields)]

IsScalar(node) == node.kind \notin {"map", "list"}

\* No value that a list of fields stands for is a map or a list: nothing is printed as a
\* whole when the fields are encrypted.
ScalarTargets(o, fields) ==
    \A i \in DOMAIN fields : \A t \in Transformed(o, fields[i]) : IsScalar(o[t])

\* decryptFields goes through maps, not through lists. One value that was encrypted
\* with another key fails it, and nothing is changed.
Decryptable(o) ==
    {p \in DOMAIN o : o[p].key # "none" /\ \A i \in 1 .. Len(p) : p[i] \notin Positions}
DecryptFails(o, aesKey) == \E p \in Decryptable(o) : o[p].key # aesKey
\* Mutant: the first value that is found is the only one.
DecryptOne(o) ==
    [p \in DOMAIN o |-> IF p \in Decryptable(o) /\ p = CHOOSE q \in Decryptable(o) : TRUE
                          THEN Text(o[p].text) ELSE o[p]]

DecryptFields(o) == [p \in DOMAIN o |-> IF p \in Decryptable(o) THEN Text(o[p].text) ELSE o[p]]

----------------------------------------------------------------------------
(* FilterFields *)

Below(e, f) == SubSeq(f, Len(e) + 1, Len(f))
IsSubField(e, f) == IsStrictPrefix(e, f)

\* From start through maps as far as keys lead: where a step is no map the walk
\* ends, and what follows is looked up in the map it has come to.
Walk(o, start, keys) ==
    LET along(i) == start \o SubSeq(keys, 1, i)
        far == {i \in 0 .. Len(keys) : \A j \in 1 .. i : Kind(o, along(j)) = "map"}
    IN  along(CHOOSE i \in far : \A j \in far : j <= i)

\* Mutant: only the last key is looked up.
SourceDirect(o, e, f) == Append(Walk(o, <<>>, e), Last(f))

\* Where FilterFields takes the value of the preserved field f of the excluded e.
Source(o, e, f) ==
    Append(Walk(o, Walk(o, <<>>, e), Front(Below(e, f))), Last(f))

\* The pairs of an excluded field and a preserved one below it, by their places in
\* the two lists, and the order of the two loops.
Pairs(excluded, preserved) ==
    {pair \in (DOMAIN excluded) \X (DOMAIN preserved) : IsSubField(excluded[pair[1]], preserved[pair[2]])}
NotAfter(x, y) == x[1] < y[1] \/ (x[1] = y[1] /\ x[2] <= y[2])

PreservedKey(e, f) == Join(Below(e, f), ".")

\* preservedValues: for each key the pair that is looked up last.
PreservedValues(o, excluded, preserved) ==
    LET place(pair) == Source(o, excluded[pair[1]], preserved[pair[2]])
        keyOf(pair) == PreservedKey(excluded[pair[1]], preserved[pair[2]])
        found == {pair \in Pairs(excluded, preserved) : place(pair) \in DOMAIN o}
        last(key) == CHOOSE x \in found :
                        keyOf(x) = key /\ \A y \in found : keyOf(y) = key => NotAfter(y, x)
    IN  [key \in {keyOf(pair) : pair \in found} |->
            [place |-> place(last(key)), held |-> "shared", value |-> Subtree(o, place(last(key)))]]

\* The values when the object has become o, by removing or setting f: a preserved map
\* is shared with the object and changes as it does, until it is cut off itself.
Shared(values, o, f) ==
    LET shared(v) == v.held = "shared" /\ v.place \in DOMAIN o /\ ~ IsPrefix(f, v.place) IN
    [key \in DOMAIN values |->
        IF shared(values[key])
          THEN [values[key] EXCEPT !.value = Subtree(o, values[key].place)]
          ELSE [values[key] EXCEPT !.held = "alone"]]

\* unstructured.SetNestedField: makes the maps that are missing, and does nothing
\* where something else is in the way.
SetNestedField(o, f, value) ==
    LET above == {SubSeq(f, 1, i) : i \in 0 .. Len(f) - 1} IN
    IF \E p \in above \cap DOMAIN o : o[p].kind # "map"
      THEN o
      ELSE Put([p \in DOMAIN o \cup above |-> IF p \in DOMAIN o THEN o[p] ELSE Map], f, value)

\* The preserved fields below an excluded one that have a key.
OfKey(excluded, preserved, key, i) ==
    {j \in DOMAIN preserved : /\ <<i, j>> \in Pairs(excluded, preserved)
                              /\ PreservedKey(excluded[i], preserved[j]) = key}
=============================================================================
