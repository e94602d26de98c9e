------------------------------ MODULE Archives ------------------------------
(***************************************************************************)
(* The archives of exports and their retention: tarGz and pruneArchives    *)
(* (internal/export/archive.go), uploadS3 and pruneS3 (s3.go), uploadGCS   *)
(* and pruneGCS (gcs.go), and purgeTarget (export.go), over the runs of    *)
(* several exporters that share an archive directory and a bucket.         *)
(*                                                                         *)
(* An exporter is a configuration that is run again and again.  Its        *)
(* archives are named after the last element of the target path, the       *)
(* namespaces and the second; an archive stands for its name here.  Age is *)
(* counted in days.  An exporter is run at most once a day, and no run     *)
(* takes longer than the day, so the exporter and the day tell archives    *)
(* apart.                                                                  *)
(***************************************************************************)
EXTENDS Integers, FiniteSets

CONSTANTS
    Exporters,  \* the configurations
    Dirs,       \* directories that hold targets or archives
    Config,     \* the settings of each exporter
    BaseMatch,  \* pairs of exporters: the base name of the second one starts
                \* with that of the first one
    MaxDay      \* bound: the day after which the clock stands still

Settings == [target : Dirs,          \* the target directory
             archiveTarget : Dirs,   \* where archives go: archiveTarget, or the target
             plainTarget : BOOLEAN,  \* the target is given as a name without any "/"
             retention : Nat,        \* archiveRetentionDays
             clear : BOOLEAN,        \* clearTarget
             s3 : BOOLEAN, gcs : BOOLEAN]

ASSUME ArchivesAssumption ==
    /\ Config \in [Exporters -> Settings]
    /\ BaseMatch \subseteq Exporters \X Exporters
    /\ \A e \in Exporters : <<e, e>> \in BaseMatch
    /\ MaxDay \in Nat

VARIABLES
    day,    \* today
    files,  \* the archives in the directories
    s3,     \* the objects in the S3 bucket
    gcs,    \* the objects in the GCS bucket
    ran,    \* the exporters that were run today
    phase,  \* where the run of each exporter is; "idle" between runs
    result, \* the result of its last run: "none", "ok" or "err"
    skipped \* the exporters whose last run skipped errors of the S3 listing; a
            \* history variable, the program does not keep it

vars == <<day, files, s3, gcs, ran, phase, result, skipped>>

\* An archive, complete unless tarGz failed or was interrupted; an object also
\* has the day it was uploaded.
Archive == [exporter : Exporters, made : 0 .. MaxDay, dir : Dirs, complete : BOOLEAN]
Object == [archive : Archive, stored : 0 .. MaxDay]

Init ==
    /\ day = 0
    /\ files = {}
    /\ s3 = {}
    /\ gcs = {}
    /\ ran = {}
    /\ phase = [e \in Exporters |-> "idle"]
    /\ result = [e \in Exporters |-> "none"]
    /\ skipped = {}

\* Mutant: the date in the name is tomorrow's.
Tomorrows(e, complete) ==
    [exporter |-> e, made |-> day + 1, dir |-> Config[e].archiveTarget, complete |-> complete]

\* The archive of today's run of e.
Todays(e, complete) ==
    [exporter |-> e, made |-> day, dir |-> Config[e].archiveTarget, complete |-> complete]

To(e, p) == phase' = [phase EXCEPT ![e] = p]

Finish(e, r) ==
    /\ To(e, "idle")
    /\ result' = [result EXCEPT ![e] = r]

\* Older than the retention of e, seen from today: Before(MaxArchiveAge()).
Expired(e, d) == d < day - Config[e].retention

\* Mutant: the pattern has another base name than the archives.
MatchesOthers(e, a) ==
    /\ a.dir = Config[e].archiveTarget
    /\ <<e, a.exporter>> \in BaseMatch
    /\ a.exporter # e

\* The names that pruneArchives of e matches: its own base name, then anything.
MatchesPattern(e, a) ==
    /\ a.dir = Config[e].archiveTarget
    /\ <<e, a.exporter>> \in BaseMatch

\* The objects whose key starts with the target of e. The key is a base name, so
\* it only does when the target is a plain name.
MatchesPrefix(e, o) ==
    /\ Config[e].plainTarget
    /\ <<e, o.archive.exporter>> \in BaseMatch

----------------------------------------------------------------------------

NextDay ==
    /\ day < MaxDay
    /\ \A e \in Exporters : phase[e] = "idle"
    /\ day' = day + 1
    /\ ran' = {}
    /\ UNCHANGED <<files, s3, gcs, phase, result, skipped>>

\* A run starts: purgeTarget removes the target directory with all it contains.
Start(e) ==
    /\ phase[e] = "idle"
    /\ e \notin ran
    /\ ran' = ran \cup {e}
    /\ files' = IF Config[e].clear
                  THEN {a \in files : a.dir # Config[e].target}
                  ELSE files
    /\ To(e, "archive")
    /\ result' = [result EXCEPT ![e] = "none"]
    /\ skipped' = skipped \ {e}
    /\ UNCHANGED <<day, s3, gcs>>

\* Mutant: the name of the archive is another one than that of the upload.
TarGzElsewhere(e) ==
    /\ phase[e] = "archive"
    /\ files' = files \cup {[Todays(e, TRUE) EXCEPT !.dir = Config[e].target]}
    /\ To(e, IF Config[e].retention > 0 THEN "prune" ELSE "s3")
    /\ UNCHANGED <<day, s3, gcs, ran, result, skipped>>

\* tarGz
TarGz(e) ==
    /\ phase[e] = "archive"
    /\ files' = files \cup {Todays(e, TRUE)}
    /\ To(e, IF Config[e].retention > 0 THEN "prune" ELSE "s3")
    /\ UNCHANGED <<day, s3, gcs, ran, result, skipped>>

\* tarGz fails, or the process dies, before or after the file has been created.
TarGzFails(e) ==
    /\ phase[e] = "archive"
    /\ files' \in {files, files \cup {Todays(e, FALSE)}}
    /\ Finish(e, "err")
    /\ UNCHANGED <<day, s3, gcs, ran, skipped>>

\* The archives that pruneArchives of e has to remove.
Due(e) == {a \in files : MatchesPattern(e, a) /\ Expired(e, a.made)}

\* Mutant: archives are pruned before they are due.
PruneAll(e) ==
    /\ phase[e] = "prune"
    /\ \E a \in files : MatchesPattern(e, a) /\ a.made <= day /\ files' = files \ {a}
    /\ UNCHANGED <<day, s3, gcs, ran, phase, result, skipped>>

\* pruneArchives removes file by file, while others may prune the same directory. It
\* reads the directory once; what is due does not become more within a day.
Prune(e) ==
    /\ phase[e] = "prune"
    /\ \E a \in Due(e) : files' = files \ {a}
    /\ UNCHANGED <<day, s3, gcs, ran, phase, result, skipped>>

PruneDone(e) ==
    /\ phase[e] = "prune"
    /\ Due(e) = {}
    /\ To(e, "s3")
    /\ UNCHANGED <<day, files, s3, gcs, ran, result, skipped>>

\* pruneArchives returns an error: the directory cannot be read, or a file not be removed,
\* such as one that another has removed since. The process may also die.
PruneFails(e) ==
    /\ phase[e] = "prune"
    /\ Finish(e, "err")
    /\ UNCHANGED <<day, files, s3, gcs, ran, skipped>>

\* An upload reads the archive that this run made.
Stored(bucket, e) ==
    bucket \cup {[archive |-> a, stored |-> day] : a \in {Todays(e, TRUE)} \cap files}

\* Mutant: what is younger than the retention is removed.
UnexpiredSwapped(bucket, e) ==
    {o \in bucket : ~ (MatchesPrefix(e, o) /\ ~ Expired(e, o.stored))}

\* What pruneS3 and pruneGCS leave of a bucket.
Unexpired(bucket, e) ==
    {o \in bucket : ~ (MatchesPrefix(e, o) /\ Expired(e, o.stored))}

\* uploadS3, with pruneS3; skipped without an S3 configuration.
UploadS3(e) ==
    /\ phase[e] = "s3"
    /\ s3' = IF ~ Config[e].s3 THEN s3
             ELSE IF Config[e].retention > 0 THEN Unexpired(Stored(s3, e), e)
             ELSE Stored(s3, e)
    /\ To(e, "gcs")
    /\ UNCHANGED <<day, files, gcs, ran, result, skipped>>

\* pruneS3 skips what ListObjects reports as an error: the run goes on, and some
\* objects that are due stay.
S3ListError(e) ==
    /\ phase[e] = "s3" /\ Config[e].s3 /\ Config[e].retention > 0
    /\ \E gone \in SUBSET (Stored(s3, e) \ Unexpired(Stored(s3, e), e)) :
          s3' = Stored(s3, e) \ gone
    /\ To(e, "gcs")
    /\ skipped' = skipped \cup {e}
    /\ UNCHANGED <<day, files, gcs, ran, result>>

\* uploadGCS, with pruneGCS; the run ends with it.
UploadGCS(e) ==
    /\ phase[e] = "gcs"
    /\ gcs' = IF ~ Config[e].gcs THEN gcs
              ELSE IF Config[e].retention > 0 THEN Unexpired(Stored(gcs, e), e)
              ELSE Stored(gcs, e)
    /\ Finish(e, "ok")
    /\ UNCHANGED <<day, files, s3, ran, skipped>>

\* An upload fails, or the process dies before it.
UploadFails(e) ==
    /\ phase[e] \in {"s3", "gcs"}
    /\ Finish(e, "err")
    /\ UNCHANGED <<day, files, s3, gcs, ran, skipped>>

\* The upload succeeded but pruning the bucket did not: some objects are gone.
PruneS3Fails(e) ==
    /\ phase[e] = "s3" /\ Config[e].s3 /\ Config[e].retention > 0
    /\ \E gone \in SUBSET (Stored(s3, e) \ Unexpired(Stored(s3, e), e)) :
          s3' = Stored(s3, e) \ gone
    /\ Finish(e, "err")
    /\ UNCHANGED <<day, files, gcs, ran, skipped>>

PruneGCSFails(e) ==
    /\ phase[e] = "gcs" /\ Config[e].gcs /\ Config[e].retention > 0
    /\ \E gone \in SUBSET (Stored(gcs, e) \ Unexpired(Stored(gcs, e), e)) :
          gcs' = Stored(gcs, e) \ gone
    /\ Finish(e, "err")
    /\ UNCHANGED <<day, files, s3, ran, skipped>>

Run(e) ==
    \/ Start(e) \/ TarGz(e) \/ TarGzFails(e) \/ Prune(e) \/ PruneDone(e) \/ PruneFails(e)
    \/ UploadS3(e) \/ S3ListError(e) \/ UploadGCS(e) \/ UploadFails(e)
    \/ PruneS3Fails(e) \/ PruneGCSFails(e)

\* The clock has reached its bound and every run is over.
TimeUp ==
    /\ day = MaxDay
    /\ \A e \in Exporters : phase[e] = "idle"
    /\ UNCHANGED vars

Next == NextDay \/ (\E e \in Exporters : Run(e)) \/ TimeUp

Spec == Init /\ [][Next]_vars

----------------------------------------------------------------------------
(* Conditions on configurations, under which some of the properties hold *)

\* No exporter clears a directory that archives are kept in.
KeptOutside ==
    \A e, f \in Exporters : Config[e].clear => Config[e].target # Config[f].archiveTarget

\* An exporter that prunes archives of another one keeps them as long at least.
PrunesNoYounger ==
    \A e, f \in Exporters :
        Config[e].archiveTarget = Config[f].archiveTarget /\ <<e, f>> \in BaseMatch
            /\ Config[e].retention > 0
        => Config[f].retention > 0 /\ Config[f].retention <= Config[e].retention

\* An exporter that uploads has a plain name as its target.
PlainTargets ==
    \A e \in Exporters : Config[e].s3 \/ Config[e].gcs => Config[e].plainTarget

----------------------------------------------------------------------------
(* Properties *)

ArchivesTypeOK ==
    /\ day \in 0 .. MaxDay
    /\ ran \subseteq Exporters
    /\ files \subseteq Archive
    /\ s3 \subseteq Object
    /\ gcs \subseteq Object
    /\ phase \in [Exporters -> {"idle", "archive", "prune", "s3", "gcs"}]
    /\ result \in [Exporters -> {"none", "ok", "err"}]
    /\ skipped \subseteq Exporters

\* "Number of days to keep old archives": a complete archive leaves its directory
\* only once it is older than the retention of the exporter that made it,
\* whoever removes it and at whatever step.
RetentionRespected ==
    [][\A a \in files \ files' :
          a.complete =>
              Config[a.exporter].retention > 0 /\ Expired(a.exporter, a.made)]_vars

\* The archive a run is about to upload is still there and complete, in spite of
\* the other exporters that prune the same directory.
UploadFindsArchive ==
    \A e \in Exporters : phase[e] \in {"s3", "gcs"} => Todays(e, TRUE) \in files

\* "delete archives older than %d days": when a run with a retention ends well,
\* none of its archives older than that is left in the directory or in its
\* buckets, but for objects of the S3 bucket that could not be listed.
OldArchivesGone ==
    [][\A e \in Exporters :
          result[e] # "ok" /\ result'[e] = "ok" /\ Config[e].retention > 0 =>
             /\ \A a \in files' : a.exporter = e => ~ Expired(e, a.made)
             /\ \A o \in (IF Config[e].s3 /\ e \notin skipped THEN s3' ELSE {}) \cup
                         (IF Config[e].gcs THEN gcs' ELSE {}) :
                   o.archive.exporter = e => ~ Expired(e, o.stored)]_vars

\* A run that ends well leaves its own, complete archive in every bucket it is
\* configured for, whatever the other exporters pruned in the meantime.
UploadedWhenOk ==
    [][\A e \in Exporters :
          result[e] # "ok" /\ result'[e] = "ok" =>
             /\ Config[e].s3 => [archive |-> Todays(e, TRUE), stored |-> day] \in s3'
             /\ Config[e].gcs => [archive |-> Todays(e, TRUE), stored |-> day] \in gcs']_vars
=============================================================================
