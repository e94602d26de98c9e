----------------------------- MODULE MCExportRun -----------------------------
(* Two workers and two kinds, with the configurations of the other steps that *)
(* differ in what Export does: nothing, everything, an archive that is kept   *)
(* locally, uploads without pruning.                                          *)
EXTENDS ExportRun

MCNoNamespaces == <<>>

Nothing == [display |-> "nop", lists |-> FALSE,
            clearTarget |-> FALSE, summary |-> FALSE, verbose |-> FALSE, metrics |-> FALSE,
            archive |-> FALSE, retention |-> FALSE, s3 |-> FALSE, gcs |-> FALSE]
Everything == [o \in DOMAIN Nothing |->
                  IF o = "display" THEN "bar" ELSE o # "lists"]
LocalArchive == [Nothing EXCEPT !.archive = TRUE, !.retention = TRUE]
Uploads == [Everything EXCEPT !.retention = FALSE, !.clearTarget = FALSE]
UploadsWithoutArchive == [Uploads EXCEPT !.archive = FALSE, !.verbose = FALSE]
With(option, display) == [option EXCEPT !.display = display]
AsLists(option) == [option EXCEPT !.lists = TRUE]

\* Lists are exported without a display of bars here: see MCBarLists.
MCOptions == {Everything, Uploads, UploadsWithoutArchive,
              With(Everything, "bubbles"), AsLists(With(Uploads, "bubbles")),
              Nothing, AsLists(LocalArchive), With(Everything, "nop")}
MCBarLists == {AsLists(Everything)}
=============================================================================
