------------------------------- MODULE MCFields -------------------------------
(* A Secret with annotations, nested data and lists, an object without any    *)
(* annotations, and one whose fields are of other types than expected; the    *)
(* configurations combine a few settings of every kind.                       *)
EXTENDS Fields

MCIndex == <<"[0]", "[1]", "[2]">>

M(key) == <<"metadata", key>>
Annotation(key) == <<"metadata", "annotations", key>>
Label(key) == <<"metadata", "labels", key>>
Data(key) == <<"data", key>>
Item(i) == <<"spec", "items", Index[i]>>

Maps(paths) == [p \in paths |-> Map]
IntOf(text) == Scalar("int", {text})
ListAt(f, nodes) ==
    (f :> List) @@ [p \in {Append(f, Index[i]) : i \in DOMAIN nodes} |->
                        nodes[CHOOSE i \in DOMAIN nodes : p = Append(f, Index[i])]]

MCSecret ==
    Maps({<<>>, <<"metadata">>, M("annotations"), M("labels"), <<"data">>, Data("map"), <<"spec">>,
          Item(1), Item(2)})
    @@ (Annotation("app") :> Text({"annotated"})) @@ (Annotation("note") :> Text({"note"}))
    @@ (Label("app") :> Text({"labelled"})) @@ (Label("tier") :> Text({"tier"}))
    @@ (Data("pw") :> Text({"secret1"})) @@ (Data("none") :> Text({}))
    @@ (Data("map") \o <<"pw">> :> Text({"secret2"})) @@ (Data("map") \o <<"n">> :> IntOf("secret3"))
    @@ (<<"spec", "items">> :> List)
    @@ (Item(1) \o <<"token">> :> Text({"secret5"})) @@ (Item(2) \o <<"token">> :> Text({"secret4"}))
    @@ ListAt(<<"spec", "sizes">>, <<IntOf("2"), IntOf("-6"), IntOf("5")>>)

MCBare ==
    Maps({<<>>, <<"metadata">>, <<"spec">>})
    @@ (M("name") :> Text({"name"})) @@ (M("app") :> Text({"app"}))
    @@ (<<"data">> :> Text({"secret1"}))
    @@ ListAt(<<"spec", "sizes">>, <<IntOf("5"), IntOf("2"), IntOf("-1")>>)

MCOther ==
    Maps({<<>>, <<"metadata">>, M("annotations"), M("labels"), M("labels") \o <<"app">>})
    @@ (Annotation("app") :> Text({"annotated"}))
    @@ (M("labels") \o <<"app", "x">> :> Text({"labelled"}))
    @@ (M("labels") \o <<"app", "y">> :> Text({"note"}))
    @@ (<<"data">> :> IntOf("5"))
    @@ ListAt(<<"spec">>, <<IntOf("2"), Scalar("float", {"2.5"})>>)
    @@ ListAt(<<"items">>, <<Text({"note"}), Text({"item"}), Text({})>>)

MCSources == {MCSecret, MCBare, MCOther}

A == M("annotations")
L == M("labels")
Token == <<"spec", "items", "token">>

\* Configurations that differ in what is filtered, and ones that differ in what is
\* masked, encrypted and sorted.
Filters ==
    [excluded : {<<>>, <<A>>, <<A, L>>, <<Label("app") \o <<"x">>, L, A>>, <<<<"metadata">>, A>>,
                 <<Label("app"), <<"metadata">>>>},
     preserved : {<<>>, <<Annotation("app")>>, <<Label("tier"), Annotation("app")>>,
                  <<Label("app"), Label("app") \o <<"y">>>>, <<L, Label("app") \o <<"y">>>>},
     kindFields : {<<>>, <<Token>>, <<Label("app") \o <<"y">>, L>>},
     masked : {<<>>}, encrypted : {<<>>}, sorted : {<<>>}, checksum : {FALSE}, aesKey : {"k1"}]
Transformations ==
    [excluded : {<<>>, <<A, <<"data", "map">>>>}, preserved : {<<Annotation("app")>>}, kindFields : {<<>>},
     masked : {<<>>, <<<<"data">>>>, <<Data("pw")>>, <<Token>>},
     encrypted : {<<>>, <<<<"data">>>>, <<Data("map"), <<"data">>, Data("pw")>>, <<Token, Data("pw")>>},
     sorted : {<<<<"spec", "sizes">>, <<"spec", "items">>>>, <<<<"spec">>, <<"items">>>>},
     checksum : BOOLEAN, aesKey : {"k1"}]
MCConfigs == Filters \cup Transformations

\* The texts of secrets are their own (OwnTexts in FieldsProofs).
ASSUME MCOwnTexts ==
    \A o \in MCSources, c \in MCConfigs : \A field \in Range(c.masked \o c.encrypted) :
        \A r \in ReachedBy(o, field) : o[r].kind \in {"string", "map"} =>
            \A q \in Under(o, r) :
                /\ o[q].text \cap {"*****", "sum", "cipher"} = {}
                /\ \A p \in DOMAIN o \ Under(o, r) : o[q].text \cap o[p].text = {}

\* Annotations and labels are excluded but for a field of the same name.
MCSecretOnly == {MCSecret}
MCShared == {[c EXCEPT !.excluded = <<A, L>>, !.preserved = <<Annotation("app"), Label("app")>>] :
                c \in Transformations}

MCValue == [a \in {"2", "-6", "5", "-1", "2.5", "*****", "sum", "printed", "secret1", "secret2",
                    "secret3", "secret4", "secret5", "note", "item", "annotated", "labelled", "tier",
                    "name", "app"} |->
    CASE a = "2" -> 2 [] a = "-6" -> -6 [] a = "5" -> 5 [] a = "-1" -> -1
      [] a = "secret4" -> 4 [] a = "secret5" -> 5 [] a = "note" -> 3 [] a = "item" -> 2
      [] OTHER -> 1]
=============================================================================
