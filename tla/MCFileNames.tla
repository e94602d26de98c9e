----------------------------- MODULE MCFileNames -----------------------------
(* Instances whose names differ in case, in the namespace, or not at all but *)
(* for a sign that file names cannot have.                                   *)
EXTENDS FileNames

MCChars == {"a", "A", "b", ":", "_", "1", "2", "3", "4", "5"}
MCLower == [c \in MCChars |-> IF c = "A" THEN "a" ELSE c]
MCClean == [c \in MCChars |-> IF c = ":" THEN "_" ELSE c]
MCDigits == <<<<"1">>, <<"2">>, <<"3">>, <<"4">>, <<"5">>>>

In(ns, name) == [ns |-> ns, name |-> name]

MCCases == {In("n1", <<"a">>), In("n1", <<"A">>), In("n1", <<"b">>), In("n2", <<"a">>),
            In("n1", <<"b", ":", "1">>)}

\* One page on a file system that ignores case; pages of two where case counts; a query
\* for each namespace; lists.
Setup(pageSize, lists, byNamespace, caseSensitive) ==
    [pageSize |-> pageSize, lists |-> lists, byNamespace |-> byNamespace,
     caseSensitive |-> caseSensitive]
MCSetups == {Setup(0, FALSE, FALSE, FALSE), Setup(2, FALSE, FALSE, TRUE), Setup(2, FALSE, TRUE, TRUE),
             Setup(2, TRUE, FALSE, TRUE), Setup(2, TRUE, TRUE, FALSE)}

ASSUME MCFileNamesCondition == NamesApart
=============================================================================
