-------------------------------- MODULE Fields --------------------------------
(***************************************************************************)
(* What happens to one object between the cluster and its file, and when   *)
(* the file is decrypted: exportOneSingleResource calls FilterFields,      *)
(* MaskFields, EncryptFields and SortSliceFields and prints the object;    *)
(* "kubexporter decrypt" reads it back (worker.go, config.go, encrypted.go *)
(* in internal/). Each of these is a loop over configured fields, of which *)
(* a step here is one iteration.                                           *)
(***************************************************************************)
EXTENDS Objects

CONSTANTS
    Sources,    \* the objects of the cluster
    Configs,    \* the configurations, for the kind of these objects
    AesKeys,    \* keys that decryption may be tried with
    Value,      \* pieces of text as they are ordered; for integers, the integer
    Half        \* half the number of ints

FieldLists == {"excluded", "preserved", "kindFields", "masked", "encrypted", "sorted"}

ASSUME FieldsAssumption ==
    /\ \A o \in Sources : /\ WellFormed(o)
                          /\ \A p \in DOMAIN o : o[p].key = "none"
                          /\ \A p \in DOMAIN o : \A a \in o[p].text : Value[a] \in Int
    /\ \A c \in Configs : \A list \in FieldLists :
          c[list] \in Seq(Seq(STRING \ Positions) \ {<<>>})
    /\ \A c \in Configs : c.checksum \in BOOLEAN /\ c.aesKey \in AesKeys
    /\ "none" \notin AesKeys
    /\ Half \in Nat \ {0}

VARIABLES
    pc,      \* the loop that runs, or how the object ended
    done,    \* the iterations of that loop
    config,  \* the configuration
    source,  \* the object as the cluster has it
    values,  \* the preserved values that are still to be restored, by their keys
    current, \* the key whose value is being restored
    plain,   \* the object before it is encrypted
    obj      \* the object now

vars == <<pc, done, config, source, values, current, plain, obj>>

Init ==
    /\ pc = "collect"
    /\ done = 0
    /\ config \in Configs
    /\ source \in Sources
    /\ values = <<>>
    /\ current = "none"
    /\ plain = source
    /\ obj = source

----------------------------------------------------------------------------
(* FilterFields *)

Removals == config.excluded \o config.kindFields

Collect ==
    /\ pc = "collect"
    /\ values' = PreservedValues(obj, config.excluded, config.preserved)
    /\ pc' = "remove"
    /\ UNCHANGED <<done, config, source, current, plain, obj>>

Exclude ==
    /\ pc = "remove" /\ done < Len(Removals)
    /\ obj' = RemoveNestedField(obj, Removals[done + 1])
    /\ values' = Shared(values, obj', Removals[done + 1])
    /\ plain' = obj'
    /\ done' = done + 1
    /\ UNCHANGED <<pc, config, source, current>>

\* The preserved values are in a Go map: any order of restoring them. Each is set below
\* the excluded fields in turn, in the first preserved field that has its key.
Restore ==
    /\ pc = "restore" /\ done < Len(config.excluded)
    /\ current' \in (IF done = 0 THEN DOMAIN values ELSE {current})
    /\ LET fields == OfKey(config.excluded, config.preserved, current', done + 1) IN
          \/ /\ fields = {}
             /\ UNCHANGED <<values, plain, obj>>
          \/ \E j \in fields :
                /\ \A k \in fields : j <= k
                /\ obj' = SetNestedField(obj, config.preserved[j], values[current'].value)
                /\ values' = Shared(values, obj', config.preserved[j])
                /\ plain' = obj'
    /\ done' = done + 1
    /\ UNCHANGED <<pc, config, source>>

NextKey ==
    /\ pc = "restore" /\ done = Len(config.excluded) /\ current \in DOMAIN values
    /\ values' = [k \in DOMAIN values \ {current} |-> values[k]]
    /\ current' = "none"
    /\ done' = 0
    /\ UNCHANGED <<pc, config, source, plain, obj>>

----------------------------------------------------------------------------
Mask ==
    /\ pc = "mask" /\ done < Len(config.masked)
    /\ obj' = MaskField(obj, config.masked[done + 1], config.checksum)
    /\ plain' = obj'
    /\ done' = done + 1
    /\ UNCHANGED <<pc, config, source, values, current>>

Encrypt ==
    /\ pc = "encrypt" /\ done < Len(config.encrypted)
    /\ obj' = EncryptField(obj, config.encrypted[done + 1], config.aesKey)
    /\ done' = done + 1
    /\ UNCHANGED <<pc, config, source, values, current, plain>>

----------------------------------------------------------------------------
(* SortSliceFields *)

Wrap(n) == ((n + Half) % (2 * Half)) - Half

\* What a scalar is compared by; an empty text comes first.
OrderOf(node) == IF node.text = {} THEN -Half ELSE Value[CHOOSE a \in node.text : TRUE]

\* Mutant: integers are sorted in descending order.
CompareSwapped(kind, a, b) == IF kind = "int" THEN Wrap(b - a) ELSE a - b

\* The type of the first element decides. Integers are compared by their difference,
\* which is an int as well.
Compare(kind, a, b) == IF kind = "int" THEN Wrap(a - b) ELSE a - b
Typed == {"string", "int", "float"}

\* The positions that a list has elements at.
Elements(o, f) == {x \in Positions : Append(f, x) \in DOMAIN o}
Element(o, f, x) == o[Append(f, x)]
Precedes(x, y) == \E i, j \in DOMAIN Index : x = Index[i] /\ y = Index[j] /\ i < j

\* An element of another type than the first does not pass the type assertion.
Panics(o, f) ==
    LET kind == Element(o, f, Index[1]).kind
    IN  kind \in Typed /\ \E x \in Elements(o, f) : Element(o, f, x).kind # kind

\* The ways to rearrange the elements: where each one goes and where it is from.
Rearrangements(xs) ==
    {r \in [to : [xs -> xs], from : [xs -> xs]] :
        \A x \in xs : r.from[r.to[x]] = x /\ r.to[r.from[x]] = x}

\* slices.SortFunc: in ascending order if the comparison is an order, in any one
\* otherwise. Lists of other types are sorted by their JSON, which is in any order here.
Sorted(o, f) ==
    LET xs == Elements(o, f)
        kind == Element(o, f, Index[1]).kind
        less(x, y) == Compare(kind, OrderOf(Element(o, f, x)), OrderOf(Element(o, f, y))) < 0
        isOrder == \A x, y, z \in xs : less(x, y) => ~ less(y, x) /\ (less(x, z) \/ less(z, y))
    IN  {r \in Rearrangements(xs) : kind \in Typed /\ isOrder =>
            \A x, y \in xs : Precedes(x, y) => ~ less(r.from[y], r.from[x])}

Moved(o, f, r) ==
    LET below == {q \in DOMAIN o : IsStrictPrefix(f, q)}
        move(q, by) == [q EXCEPT ![Len(f) + 1] = by[@]]
    IN  [q \in (DOMAIN o \ below) \cup {move(q, r.to) : q \in below} |->
            IF IsStrictPrefix(f, q) THEN o[move(q, r.from)] ELSE o[q]]

Sort ==
    /\ pc = "sort" /\ done < Len(config.sorted)
    /\ LET f == config.sorted[done + 1] IN
          \/ /\ Kind(obj, f) # "list" \/ Elements(obj, f) = {}
             /\ UNCHANGED <<pc, obj>>
          \/ /\ Kind(obj, f) = "list" /\ Elements(obj, f) # {}
             /\ IF Panics(obj, f)
                  THEN pc' = "panicked" /\ UNCHANGED obj
                  ELSE (\E r \in Sorted(obj, f) : obj' = Moved(obj, f, r)) /\ UNCHANGED pc
    /\ done' = done + 1
    /\ UNCHANGED <<config, source, values, current, plain>>

----------------------------------------------------------------------------
\* Each loop follows when the one before has gone through its fields; in the end the
\* object is printed.
Proceed ==
    /\ \/ pc = "remove" /\ done = Len(Removals) /\ pc' = "restore"
       \/ pc = "restore" /\ DOMAIN values = {} /\ pc' = "mask"
       \/ pc = "mask" /\ done = Len(config.masked) /\ pc' = "encrypt"
       \/ pc = "encrypt" /\ done = Len(config.encrypted) /\ pc' = "sort"
       \/ pc = "sort" /\ done = Len(config.sorted) /\ pc' = "written"
    /\ done' = 0
    /\ UNCHANGED <<config, source, values, current, plain, obj>>

Decrypt ==
    /\ pc = "written"
    /\ \E aesKey \in AesKeys :
          IF DecryptFails(obj, aesKey)
            THEN pc' = "refused" /\ UNCHANGED obj
            ELSE pc' = "decrypted" /\ obj' = DecryptFields(obj)
    /\ UNCHANGED <<done, config, source, values, current, plain>>

Next == Collect \/ Exclude \/ Restore \/ NextKey \/ Mask \/ Encrypt \/ Sort \/ Proceed \/ Decrypt

Spec == Init /\ [][Next]_vars
----------------------------------------------------------------------------
(* Properties *)

Among(fields, p) == \E i \in DOMAIN fields : \E r \in ReachedBy(source, fields[i]) : IsPrefix(r, p)

Secrets == config.masked \o config.encrypted
Restored == {config.preserved[pair[2]] : pair \in Pairs(config.excluded, config.preserved)}

FieldsTypeOK ==
    /\ pc \in {"collect", "remove", "restore", "mask", "encrypt", "sort", "written", "decrypted",
               "refused", "panicked"}
    /\ done \in Nat
    /\ config \in Configs
    /\ source \in Sources
    /\ pc = "restore" /\ done > 0 => current \in DOMAIN values
    /\ WellFormed(plain) /\ WellFormed(obj)

\* Nothing below an excluded field is exported, in maps or in lists, global or
\* kind-specific, but for the preserved fields and the maps that lead to them.
ExcludedFieldsGone ==
    pc \notin {"collect", "remove"} => \A p \in DOMAIN obj :
        Among(Removals, p) => \E f \in Restored : IsPrefix(f, p) \/ IsPrefix(p, f)

\* What no part of the configuration speaks of is exported as it is in the cluster.
OthersUntouched ==
    pc = "written" => \A p \in DOMAIN source :
        ~ Among(Removals \o Secrets \o config.sorted, p) => p \in DOMAIN obj /\ obj[p] = source[p]

\* "PreservedFields defines fields that should be preserved when their parent field
\* is excluded": after FilterFields they are what they were, unless a removal
\* concerns a part of them, and none has come into being.
PreservedFieldsKept ==
    pc = "mask" /\ done = 0 => \A f \in Restored :
        /\ \A p \in Under(source, f) :
              \/ p \in DOMAIN obj /\ obj[p] = source[p]
              \/ \E i \in DOMAIN Removals : IsPrefix(f, Removals[i])
        /\ f \in DOMAIN obj => f \in DOMAIN source

\* No two preserved fields have a key in common, the maps they are in exist, and
\* nothing is removed between one and another above it.
Apart ==
    LET pairs == Pairs(config.excluded, config.preserved)
        excluded(pair) == config.excluded[pair[1]]
        preserved(pair) == config.preserved[pair[2]]
    IN  /\ \A x, y \in pairs :
              PreservedKey(excluded(x), preserved(x)) = PreservedKey(excluded(y), preserved(y))
                  => excluded(x) = excluded(y) /\ preserved(x) = preserved(y)
        /\ \A f \in Restored : Kind(source, Front(f)) = "map"
        /\ \A f, g \in Restored : \A i \in DOMAIN Removals :
              ~ (IsStrictPrefix(f, Removals[i]) /\ IsStrictPrefix(Removals[i], g))

\* Preserved fields that are apart are kept, in whichever order they are restored
\* and whatever else is removed.
PreservedWhenApart == Apart => PreservedFieldsKept

\* Nothing a masked or encrypted string or map shows in the cluster, at any depth,
\* is shown anywhere in the file.
SecretsHidden ==
    pc \in {"sort", "written"} =>
        \A i \in DOMAIN Secrets : \A r \in ReachedBy(source, Secrets[i]) :
            source[r].kind \in {"string", "map"} =>
                \A q \in Under(source, r), p \in DOMAIN obj :
                    source[q].text \cap Shown(obj[p]) = {}

\* Decryption brings back each string that encryption found outside of lists and
\* of the values it printed as a whole.
DecryptInverts ==
    LET printed(p) == \E i \in DOMAIN config.encrypted :
                        \E t \in Transformed(plain, config.encrypted[i]) : IsStrictPrefix(t, p)
        inList(p) == \E i \in DOMAIN p : p[i] \in Positions
    IN  pc = "decrypted" => \A p \in DOMAIN plain :
            plain[p].kind = "string" /\ ~ inList(p) /\ ~ printed(p) => obj[p] = plain[p]

\* A list of strings, of floats, or of integers whose differences are ints is
\* exported sorted, with the elements it has in the cluster; and the process ends
\* only for a list of several types.
SlicesSorted ==
    LET kinds(f) == {Element(source, f, x).kind : x \in Elements(source, f)}
        orders(f) == {OrderOf(Element(source, f, x)) : x \in Elements(source, f)}
        plainSlice(f) ==
            /\ Kind(obj, f) = "list"
            /\ \/ kinds(f) \in {{"string"}, {"float"}}
               \/ kinds(f) = {"int"} /\ \A a, b \in orders(f) : Wrap(a - b) = a - b
        ordered(f) == \A x, y \in Elements(obj, f) :
            Precedes(x, y) => OrderOf(Element(obj, f, x)) <= OrderOf(Element(obj, f, y))
        rearranged(f) == \E r \in Rearrangements(Elements(source, f)) :
            \A x \in Elements(source, f) :
                Append(f, x) \in DOMAIN obj /\ Element(obj, f, x) = Element(source, f, r.from[x])
    IN  /\ pc = "written" => \A i \in DOMAIN config.sorted : plainSlice(config.sorted[i]) =>
              /\ ordered(config.sorted[i])
              /\ Elements(obj, config.sorted[i]) = Elements(source, config.sorted[i])
              /\ rearranged(config.sorted[i])
        /\ pc = "panicked" => \E i \in DOMAIN config.sorted :
              \E k, l \in kinds(config.sorted[i]) : k # l
=============================================================================
