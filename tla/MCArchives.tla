----------------------------- MODULE MCArchives -----------------------------
(* Two exporters with an archive directory of their own and one in common:  *)
(* "a" exports all namespaces, "b" has a base name that starts with that of *)
(* "a". Both keep their archives for a day.                                 *)
EXTENDS Archives

Shared == [target |-> "ta", archiveTarget |-> "archives", plainTarget |-> TRUE,
           retention |-> 1, clear |-> TRUE, s3 |-> TRUE, gcs |-> FALSE]

MCConfig == [e \in Exporters |->
    IF e = "a" THEN Shared ELSE [Shared EXCEPT !.target = "tb", !.s3 = FALSE, !.gcs = TRUE]]
MCBaseMatch == {<<"a", "a">>, <<"b", "b">>, <<"a", "b">>}

\* "a" exports to a target in another directory.
MCNestedTarget == [e \in Exporters |-> [Shared EXCEPT !.plainTarget = FALSE]]
MCOne == {<<"a", "a">>}

\* The conditions are met, but for the nested target.
ASSUME MCArchivesConditions == KeptOutside /\ PrunesNoYounger /\ (Config = MCConfig => PlainTargets)
=============================================================================
