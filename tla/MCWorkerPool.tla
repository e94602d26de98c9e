---------------------------- MODULE MCWorkerPool ----------------------------
(* Two workers, three kinds of which the last is namespaced. *)
EXTENDS WorkerPool

CONSTANTS n1, n2

MCNamespaced == {N}
MCTwoNamespaces == <<n1, n2>>
=============================================================================
