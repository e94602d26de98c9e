---------------------------- MODULE MCFileCommands ----------------------------
(* A Secret and another object whose secrets are in a list and in a map, both *)
(* owned by others; owners that were created anew, are gone, or have no       *)
(* namespace.                                                                 *)
EXTENDS FileCommands

MCIndex == <<"[0]", "[1]", "[2]">>
MCFiles == {"secret", "other"}
MCOriginal == [f \in MCFiles |->
    IF f = "secret"
      THEN (<<>> :> Map) @@ (<<"kind">> :> Text({"Secret"})) @@ (<<"data">> :> Map)
           @@ (<<"data", "pw">> :> Text({"secret1"})) @@ (<<"data", "none">> :> Text({}))
           @@ (<<"stringData">> :> Map) @@ (<<"stringData", "user">> :> Text({"secret4"}))
      ELSE (<<>> :> Map) @@ (<<"kind">> :> Text({"Other"})) @@ (<<"data">> :> Map)
           @@ (<<"data", "pw">> :> Text({"secret2"})) @@ (<<"list">> :> List)
           @@ (<<"list", "[0]">> :> Map) @@ (<<"list", "[0]", "pw">> :> Text({"secret3"}))]
MCNamespace == [f \in MCFiles |-> "n1"]
MCExportFields == {<<>>, <<<<"data">>, <<"stringData">>, <<"list", "pw">>>>}

Ref(kind, version, name) == [kind |-> kind, version |-> version, name |-> name, uid |-> "u0"]
MCRefs == [f \in MCFiles |->
    IF f = "secret" THEN <<Ref("A", "v1", "x"), Ref("B", "v2", "x")>> ELSE <<Ref("C", "v1", "x")>>]
Own(kind, version, ns, uid) == [kind |-> kind, version |-> version, name |-> "x", ns |-> ns, uid |-> uid]
MCClusters == {{Own("A", "v1", "n1", "u1"), Own("B", "v2", "n1", "u0"), Own("C", "v1", "", "u0")},
               {Own("A", "v1", "n1", "u0"), Own("B", "v2", "n1", "u2"), Own("C", "v1", "n1", "u3")}}

Keys(flag, env, secret, typed) == [flag |-> flag, env |-> env, secret |-> secret, typed |-> typed]
MCSettings == {Keys("k1", "k2", "none", "none"), Keys("none", "k1", "k2", "none"),
               Keys("short", "none", "k2", "none"), Keys("k1", "", "none", "k2"),
               Keys("k1", "short", "k2", "none")}
MCArgLists == {<<"secret", "other">>, <<"other", "secret">>}
MCAllFiles == <<"other", "secret">>

ASSUME MCFileCommandsConditions == Settled
=============================================================================
