----------------------------- MODULE MCSelection -----------------------------
(* Five kinds with an instance or two each; config files that select kinds,   *)
(* namespaces and instances in every combination, and ones that mask and      *)
(* encrypt; command lines with one or two flags.                              *)
EXTENDS Selection

MCTrim == [ns \in {"", "n1", "n2", " n1"} |-> IF ns = " n1" THEN "n1" ELSE ns]
MCDefaultKinds == {"ReplicaSet", "Secret"}

Api(kind, list, namespaced) == [kind |-> kind, list |-> list, namespaced |-> namespaced]
MCApiResources == {Api("Deployment", TRUE, TRUE), Api("ReplicaSet", TRUE, TRUE),
                   Api("Secret", TRUE, TRUE), Api("Node", TRUE, FALSE), Api("Binding", FALSE, TRUE)}
I(name, kind, ns, old, owners, values) ==
    [name |-> name, kind |-> kind, ns |-> ns, old |-> old, owners |-> owners, values |-> values]
MCInstances == {I("d1", "Deployment", "n1", FALSE, {}, {"x"}), I("d2", "Deployment", "n2", TRUE, {}, {}),
                I("r1", "ReplicaSet", "n1", FALSE, {"Deployment"}, {}),
                I("s1", "Secret", "n1", FALSE, {"Node"}, {"y"}), I("s2", "Secret", "n2", FALSE, {}, {"x"}),
                I("node", "Node", "", TRUE, {}, {}), I("b1", "Binding", "n1", FALSE, {}, {})}

Selecting ==
    [namespaces : {<<>>, <<"n1">>, <<"n2", "n1">>, <<"n1", "n1">>, <<"">>}, incCluster : BOOLEAN,
     included : {{}, {"Deployment", "Secret"}}, excluded : {{}, {"Deployment"}},
     owners : BOOLEAN, createdWithin : BOOLEAN, byField : {{}, {<<"Secret", "x">>}}]
Hiding ==
    [included : {{"Node"}}, checksum : {"", "md5", "crc"}, aesKey : {"none", "short", "k1"},
     masked : {<<>>, "Secret" :> {<<"data">>}, "Secret" :> {<<"data", "pw">>},
               "Secret" :> {<<"d">>}, "Config" :> {<<"data">>}},
     encrypted : {<<>>, "Secret" :> {<<"data">>, <<"data", "pw">>, <<"stringData">>},
                  ("Secret" :> {<<"data", "pw">>}) @@ ("Config" :> {<<"data">>, <<"binaryData">>})}]
Validating ==
    [namespace : {"none", " n1", "n2"}, namespaces : {<<>>, <<"n2", "n1">>, <<"n1", " n1", "n1">>},
     worker : {0, 1}, quiet : BOOLEAN, progress : {"bar", "simple", "other"}, included : {{"Node"}}]

MCConfigFiles == Selecting \cup Hiding \cup Validating
MCFlagSets == {<<>>, "excludeDefaults" :> TRUE, ("excluded" :> {}) @@ ("excludeDefaults" :> TRUE), "namespaces" :> <<"n2">>,
               "included" :> {"ReplicaSet", "Node"},
               ("excluded" :> {"Node"}) @@ ("excludeDefaults" :> TRUE),
               ("incCluster" :> TRUE) @@ ("namespaces" :> <<"n1", "n2">>)}
MCEnvKeys == {"none", "", "short", "k1"}

\* Files with the setting of a single namespace.
MCNamespaceFiles == {[namespace |-> "n1"], [namespace |-> "n1", namespaces |-> <<"n2">>]}
MCNoFlags == {<<>>}
=============================================================================
