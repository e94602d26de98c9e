---------------------------- MODULE ArchivesProofs ----------------------------
(***************************************************************************)
(* Proofs about archives and their retention, for any number of exporters, *)
(* directories and days, under the three conditions on configurations,     *)
(* each assumed only where a property needs it.                            *)
(***************************************************************************)
EXTENDS Archives, TLAPS

(***************************************************************************)
(* The inductive invariant.  What a run has done in its earlier phases     *)
(* still holds in its later ones, although other exporters prune the same  *)
(* directory and bucket: nobody prunes what is of today.                   *)
(***************************************************************************)

InOwnDir == \A a \in files : a.dir = Config[a.exporter].archiveTarget

PrunesIfAsked == \A e \in Exporters : phase[e] = "prune" => Config[e].retention > 0

ArchiveThere ==
    KeptOutside => \A e \in Exporters :
        phase[e] \in {"prune", "s3", "gcs"} => Todays(e, TRUE) \in files

DirPruned ==
    \A e \in Exporters : phase[e] \in {"s3", "gcs"} /\ Config[e].retention > 0 =>
        \A a \in files : a.exporter = e => ~ Expired(e, a.made)

InS3 ==
    KeptOutside => \A e \in Exporters : phase[e] = "gcs" /\ Config[e].s3 =>
        [archive |-> Todays(e, TRUE), stored |-> day] \in s3

S3Pruned ==
    \A e \in Exporters :
        phase[e] = "gcs" /\ Config[e].s3 /\ Config[e].plainTarget /\ Config[e].retention > 0
            /\ e \notin skipped
        => \A o \in s3 : o.archive.exporter = e => ~ Expired(e, o.stored)

AInv ==
    /\ ArchivesTypeOK
    /\ InOwnDir
    /\ PrunesIfAsked
    /\ ArchiveThere
    /\ DirPruned
    /\ InS3
    /\ S3Pruned
-----------------------------------------------------------------------------

\* The types of the settings.
LEMMA SettingsTypes ==
    /\ \A e \in Exporters : /\ Config[e].retention \in Nat
                            /\ Config[e].target \in Dirs /\ Config[e].archiveTarget \in Dirs
    /\ \A e \in Exporters : <<e, e>> \in BaseMatch
BY ArchivesAssumption DEF Settings

\* What is of today is not expired.
LEMMA TodayNotExpired == ASSUME ArchivesTypeOK, NEW e \in Exporters PROVE ~ Expired(e, day)
BY SettingsTypes, ArchivesAssumption DEF Expired, ArchivesTypeOK

\* The archive of today, and its upload, have their types.
LEMMA TodaysTypes ==
    ASSUME ArchivesTypeOK, NEW e \in Exporters, NEW complete \in BOOLEAN
    PROVE  /\ Todays(e, complete) \in Archive
           /\ [archive |-> Todays(e, complete), stored |-> day] \in Object
           /\ Todays(e, complete).exporter = e /\ Todays(e, complete).made = day
           /\ Todays(e, complete).dir = Config[e].archiveTarget
<1>1. Todays(e, complete) \in Archive
  BY SettingsTypes DEF Todays, Archive, ArchivesTypeOK
<1> QED
  BY <1>1 DEF Todays, Object, ArchivesTypeOK

\* A bucket after an upload and some pruning by e: it has nothing else that is
\* new, and nothing of today is gone.
LEMMA BucketAfter ==
    ASSUME ArchivesTypeOK, NEW e \in Exporters, NEW bucket \in SUBSET Object,
           NEW gone \in SUBSET (Stored(bucket, e) \ Unexpired(Stored(bucket, e), e)),
           NEW after, after = Stored(bucket, e) \ gone
    PROVE  /\ after \subseteq Object
           /\ \A o \in after : o \in bucket \/ o = [archive |-> Todays(e, TRUE), stored |-> day]
           /\ \A o \in bucket : o.stored = day => o \in after
           /\ Todays(e, TRUE) \in files => [archive |-> Todays(e, TRUE), stored |-> day] \in after
<1>1. [archive |-> Todays(e, TRUE), stored |-> day] \in Object
  BY TodaysTypes
<1>2. Stored(bucket, e) \subseteq Object
  BY <1>1 DEF Stored
<1>3. \A o \in gone : Expired(e, o.stored)
  BY DEF Unexpired
<1>4. \A o \in gone : o.stored # day
  BY <1>3, TodayNotExpired
<1>5. \A o \in bucket : o \in Stored(bucket, e)
  BY DEF Stored
<1>6. \A o \in Stored(bucket, e) : o \in bucket \/ o = [archive |-> Todays(e, TRUE), stored |-> day]
  BY DEF Stored
<1>7. Todays(e, TRUE) \in files => [archive |-> Todays(e, TRUE), stored |-> day] \in Stored(bucket, e)
  BY DEF Stored
<1> QED
  BY <1>2, <1>4, <1>5, <1>6, <1>7

\* Complete pruning is one case of it.
LEMMA PruningAll ==
    ASSUME NEW e, NEW bucket
    PROVE  /\ Unexpired(Stored(bucket, e), e)
                = Stored(bucket, e) \ (Stored(bucket, e) \ Unexpired(Stored(bucket, e), e))
           /\ Stored(bucket, e) = Stored(bucket, e) \ {}
BY DEF Unexpired
-----------------------------------------------------------------------------

Phases == {"idle", "archive", "prune", "s3", "gcs"}

\* Nothing is there in the beginning.
LEMMA InitAInv == Init => AInv
<1> SUFFICES ASSUME Init PROVE AInv
  OBVIOUS
<1>1. ArchivesTypeOK
  BY ArchivesAssumption DEF Init, ArchivesTypeOK
<1>2. \A e \in Exporters : phase[e] = "idle"
  BY DEF Init
<1>3. InOwnDir
  BY DEF Init, InOwnDir
<1> QED
  BY <1>1, <1>2, <1>3 DEF AInv, PrunesIfAsked, ArchiveThere, DirPruned, InS3, S3Pruned

\* A new day begins when no run is under way.
LEMMA NextDayAInv == ASSUME AInv, NextDay PROVE AInv'
<1>1. ArchivesTypeOK'
  BY ArchivesAssumption DEF AInv, NextDay, ArchivesTypeOK
<1>2. \A e \in Exporters : phase'[e] = "idle"
  BY DEF NextDay
<1>3. InOwnDir'
  BY DEF AInv, NextDay, InOwnDir
<1> QED
  BY <1>1, <1>2, <1>3 DEF AInv, PrunesIfAsked, ArchiveThere, DirPruned, InS3, S3Pruned

\* How the phase of e, and of no other exporter, changes.
LEMMA OnlyPhaseOf ==
    ASSUME AInv, NEW e \in Exporters, NEW p \in Phases,
           To(e, p) \/ (p = "idle" /\ \E r : Finish(e, r))
    PROVE  /\ phase' \in [Exporters -> Phases] /\ phase'[e] = p
           /\ \A f \in Exporters \ {e} : phase'[f] = phase[f]
BY DEF AInv, ArchivesTypeOK, To, Finish, Phases

\* The start of a run removes no archive that another run counts on, as archives
\* are kept outside of cleared targets.
LEMMA StartAInv == ASSUME AInv, NEW e \in Exporters, Start(e) PROVE AInv'
<1> USE DEF AInv, Start
<1>1. /\ phase' \in [Exporters -> Phases] /\ phase'[e] = "archive"
      /\ \A f \in Exporters \ {e} : phase'[f] = phase[f]
  BY OnlyPhaseOf DEF Phases
<1>2. files' \subseteq files /\ UNCHANGED <<day, s3, gcs>> /\ \A f \in Exporters \ {e} : f \in skipped' <=> f \in skipped
  OBVIOUS
<1>3. ArchivesTypeOK'
  BY <1>1, <1>2 DEF ArchivesTypeOK, Phases
<1>4. InOwnDir' /\ PrunesIfAsked'
  BY <1>1, <1>2 DEF InOwnDir, PrunesIfAsked
<1>5. ASSUME KeptOutside, NEW f \in Exporters, Todays(f, TRUE) \in files PROVE Todays(f, TRUE)' \in files'
  <2>1. Todays(f, TRUE).dir = Config[f].archiveTarget /\ Todays(f, TRUE)' = Todays(f, TRUE)
    BY <1>2 DEF Todays
  <2> QED
    BY <1>5, <2>1 DEF KeptOutside
<1>6. ArchiveThere'
  BY <1>1, <1>5 DEF ArchiveThere
<1>7. DirPruned'
  BY <1>1, <1>2 DEF DirPruned, Expired
<1>8. InS3'
  BY <1>1, <1>2 DEF InS3, Todays
<1>9. S3Pruned'
  BY <1>1, <1>2 DEF S3Pruned, Expired
<1> QED
  BY <1>3, <1>4, <1>6, <1>7, <1>8, <1>9

\* The archive made is that of today, so it is in its directory and not expired.
LEMMA TarGzAInv == ASSUME AInv, NEW e \in Exporters, TarGz(e) \/ TarGzFails(e) PROVE AInv'
<1> USE DEF AInv
<1>1. PICK complete \in BOOLEAN, p \in {"idle", "prune", "s3"} :
         /\ files \subseteq files' /\ files' \subseteq files \cup {Todays(e, complete)}
         /\ (To(e, p) /\ UNCHANGED result) \/ (p = "idle" /\ Finish(e, "err"))
         /\ p # "idle" => Todays(e, TRUE) \in files'
         /\ p = "prune" => Config[e].retention > 0
         /\ p = "s3" => ~ (Config[e].retention > 0)
  BY DEF TarGz, TarGzFails
<1>2. UNCHANGED <<day, s3, gcs, ran, skipped>>
  BY DEF TarGz, TarGzFails
<1>3. /\ phase' \in [Exporters -> Phases] /\ phase'[e] = p
      /\ \A f \in Exporters \ {e} : phase'[f] = phase[f]
  BY <1>1, OnlyPhaseOf DEF Phases
<1>4. /\ Todays(e, complete) \in Archive /\ Todays(e, complete).exporter = e
      /\ Todays(e, complete).dir = Config[e].archiveTarget
      /\ \A f \in Exporters : Todays(f, TRUE)' = Todays(f, TRUE)
  BY <1>2, TodaysTypes DEF Todays
<1>5. result' \in [Exporters -> {"none", "ok", "err"}]
  BY <1>1 DEF ArchivesTypeOK, Finish
<1>6. ArchivesTypeOK'
  BY <1>1, <1>2, <1>3, <1>4, <1>5 DEF ArchivesTypeOK, Phases
<1>7. InOwnDir'
  BY <1>1, <1>4 DEF InOwnDir
<1>8. PrunesIfAsked'
  BY <1>1, <1>3 DEF PrunesIfAsked
<1>9. ArchiveThere'
  BY <1>1, <1>3, <1>4 DEF ArchiveThere
<1>10. DirPruned'
  BY <1>1, <1>2, <1>3, <1>4 DEF DirPruned, Expired
<1>11. InS3'
  BY <1>1, <1>2, <1>3, <1>4 DEF InS3
<1>12. S3Pruned'
  BY <1>1, <1>2, <1>3 DEF S3Pruned, Expired
<1> QED
  BY <1>6, <1>7, <1>8, <1>9, <1>10, <1>11, <1>12

\* Pruning only removes what is not of today, and all of it unless it fails.
LEMMA PruneAInv == ASSUME AInv, NEW e \in Exporters, Prune(e) \/ PruneDone(e) \/ PruneFails(e) PROVE AInv'
<1> USE DEF AInv
<1>1. PICK p \in {"idle", "prune", "s3"} :
         /\ (To(e, p) /\ UNCHANGED result) \/ (p = "idle" /\ Finish(e, "err"))
         /\ p = "s3" => \A a \in files' : ~ (MatchesPattern(e, a) /\ Expired(e, a.made))
  <2>1. CASE Prune(e)
    <3>1. To(e, "prune") /\ UNCHANGED result
      BY <2>1 DEF Prune, To, ArchivesTypeOK
    <3> QED
      BY <3>1
  <2>2. CASE PruneDone(e)
    <3>1. To(e, "s3") /\ UNCHANGED <<result, files>>
          /\ \A a \in files : ~ (MatchesPattern(e, a) /\ Expired(e, a.made))
      BY <2>2 DEF PruneDone, Due
    <3> QED
      BY <3>1
  <2>3. CASE PruneFails(e)
    BY <2>3 DEF PruneFails
  <2> QED
    BY <2>1, <2>2, <2>3
<1>2. /\ UNCHANGED <<day, s3, gcs, ran, skipped>> /\ files' \subseteq files
      /\ \A a \in files \ files' : Expired(e, a.made)
      /\ phase[e] = "prune"
  BY DEF Prune, PruneDone, PruneFails, Due
<1>3. /\ phase' \in [Exporters -> Phases] /\ phase'[e] = p
      /\ \A f \in Exporters \ {e} : phase'[f] = phase[f]
  BY <1>1, OnlyPhaseOf DEF Phases
<1>4. result' \in [Exporters -> {"none", "ok", "err"}]
  BY <1>1 DEF ArchivesTypeOK, Finish
<1>5. ArchivesTypeOK'
  BY <1>1, <1>2, <1>3, <1>4 DEF ArchivesTypeOK, Phases
<1>6. InOwnDir'
  BY <1>2 DEF InOwnDir
<1>7. PrunesIfAsked'
  BY <1>1, <1>2, <1>3 DEF PrunesIfAsked
<1>8. \A f \in Exporters : Todays(f, TRUE) \in files => Todays(f, TRUE)' \in files'
  <2>1. \A f \in Exporters : Todays(f, TRUE).made = day /\ Todays(f, TRUE)' = Todays(f, TRUE)
    BY <1>2 DEF Todays
  <2> QED
    BY <1>2, <2>1, TodayNotExpired
<1>9. ArchiveThere'
  BY <1>1, <1>2, <1>3, <1>8 DEF ArchiveThere
<1>10. DirPruned'
  <2>1. \A a \in files' : a.exporter = e => MatchesPattern(e, a)
    BY <1>2, SettingsTypes DEF MatchesPattern, InOwnDir
  <2>2. phase'[e] = "s3" => \A a \in files' : a.exporter = e => ~ Expired(e, a.made)
    BY <1>1, <1>3, <2>1
  <2> QED
    BY <1>1, <1>2, <1>3, <2>2 DEF DirPruned, Expired
<1>11. InS3'
  BY <1>1, <1>2, <1>3 DEF InS3, Todays
<1>12. S3Pruned'
  BY <1>1, <1>2, <1>3 DEF S3Pruned, Expired
<1> QED
  BY <1>5, <1>6, <1>7, <1>9, <1>10, <1>11, <1>12
-----------------------------------------------------------------------------

\* What a step to the S3 bucket leaves there: everything of today, and nothing new
\* but the archive of this run.
LEMMA S3After ==
    ASSUME AInv, NEW e \in Exporters, UploadS3(e) \/ S3ListError(e) \/ PruneS3Fails(e)
    PROVE  /\ s3' \subseteq Object
           /\ \A o \in s3' : o \in s3 \/ (Config[e].s3 /\ o = [archive |-> Todays(e, TRUE), stored |-> day])
           /\ \A o \in s3 : o.stored = day => o \in s3'
           /\ Config[e].s3 /\ Todays(e, TRUE) \in files =>
                 [archive |-> Todays(e, TRUE), stored |-> day] \in s3'
<1>1. ArchivesTypeOK /\ s3 \in SUBSET Object
  BY DEF AInv, ArchivesTypeOK
<1>2. CASE ~ Config[e].s3
  BY <1>1, <1>2 DEF UploadS3, S3ListError, PruneS3Fails
<1>3. CASE Config[e].s3
  <2>1. \E gone \in SUBSET (Stored(s3, e) \ Unexpired(Stored(s3, e), e)) : s3' = Stored(s3, e) \ gone
    <3>1. CASE UploadS3(e)
      <4>1. s3' = Unexpired(Stored(s3, e), e) \/ s3' = Stored(s3, e)
        BY <1>3, <3>1 DEF UploadS3
      <4> QED
        BY <4>1, PruningAll
    <3>2. CASE S3ListError(e) \/ PruneS3Fails(e)
      BY <3>2 DEF S3ListError, PruneS3Fails
    <3> QED
      BY <3>1, <3>2
  <2>2. PICK gone \in SUBSET (Stored(s3, e) \ Unexpired(Stored(s3, e), e)) : s3' = Stored(s3, e) \ gone
    BY <2>1
  <2>3. \A after : after = Stored(s3, e) \ gone =>
           /\ after \subseteq Object
           /\ \A o \in after : o \in s3 \/ o = [archive |-> Todays(e, TRUE), stored |-> day]
           /\ \A o \in s3 : o.stored = day => o \in after
           /\ Todays(e, TRUE) \in files => [archive |-> Todays(e, TRUE), stored |-> day] \in after
    BY <1>1, BucketAfter
  <2> QED
    BY <1>3, <2>2, <2>3
<1> QED
  BY <1>2, <1>3

\* A run that goes on to the next bucket has its archive in the S3 bucket, without
\* those that are due, unless it skipped some.
LEMMA UploadS3AInv ==
    ASSUME AInv, NEW e \in Exporters, UploadS3(e) \/ S3ListError(e) \/ PruneS3Fails(e) PROVE AInv'
<1> USE DEF AInv
<1>1. PICK p \in {"idle", "gcs"} :
         /\ (To(e, p) /\ UNCHANGED result) \/ (p = "idle" /\ Finish(e, "err"))
         /\ p = "gcs" => UploadS3(e) \/ e \in skipped'
  BY DEF UploadS3, S3ListError, PruneS3Fails
<1>2. /\ UNCHANGED <<day, files, gcs, ran>> /\ phase[e] = "s3"
      /\ skipped' \in SUBSET Exporters
      /\ \A f \in Exporters \ {e} : f \in skipped' <=> f \in skipped
  BY DEF UploadS3, S3ListError, PruneS3Fails, ArchivesTypeOK
<1>3. /\ phase' \in [Exporters -> Phases] /\ phase'[e] = p
      /\ \A f \in Exporters \ {e} : phase'[f] = phase[f]
  BY <1>1, OnlyPhaseOf DEF Phases
<1>4. result' \in [Exporters -> {"none", "ok", "err"}]
  BY <1>1 DEF ArchivesTypeOK, Finish
<1>5. \A f \in Exporters : /\ Todays(f, TRUE)' = Todays(f, TRUE)
                           /\ Todays(f, TRUE).exporter = f
  BY <1>2 DEF Todays
<1>6. ArchivesTypeOK'
  BY <1>2, <1>3, <1>4, S3After DEF ArchivesTypeOK, Phases
<1>7. InOwnDir' /\ PrunesIfAsked' /\ ArchiveThere' /\ DirPruned'
  BY <1>1, <1>2, <1>3, <1>5 DEF InOwnDir, PrunesIfAsked, ArchiveThere, DirPruned, Expired
<1>8. InS3'
  <2>1. \A f \in Exporters : [archive |-> Todays(f, TRUE), stored |-> day].stored = day
    OBVIOUS
  <2>2. ASSUME KeptOutside, NEW f \in Exporters, phase'[f] = "gcs", Config[f].s3
        PROVE  [archive |-> Todays(f, TRUE), stored |-> day] \in s3'
    <3>1. CASE f = e
      BY <1>2, <2>2, <3>1, S3After DEF ArchiveThere
    <3>2. CASE f # e
      BY <1>3, <2>1, <2>2, <3>2, S3After DEF InS3
    <3> QED
      BY <3>1, <3>2
  <2> QED
    BY <1>2, <1>5, <2>2 DEF InS3
<1>9. S3Pruned'
  <2>1. ASSUME NEW f \in Exporters, phase'[f] = "gcs", Config[f].s3, Config[f].plainTarget,
               Config[f].retention > 0, f \notin skipped', NEW o \in s3', o.archive.exporter = f
        PROVE  ~ Expired(f, o.stored)
    <3>1. CASE f = e
      <4>1. s3' = Unexpired(Stored(s3, e), e)
        BY <1>1, <1>3, <2>1, <3>1 DEF UploadS3
      <4>2. MatchesPrefix(e, o)
        BY <2>1, <3>1, SettingsTypes DEF MatchesPrefix
      <4> QED
        BY <2>1, <3>1, <4>1, <4>2 DEF Unexpired
    <3>2. CASE f # e
      <4>1. [archive |-> Todays(e, TRUE), stored |-> day].archive.exporter = e
        BY <1>5
      <4>2. o \in s3
        BY <2>1, <3>2, <4>1, S3After
      <4> QED
        BY <1>2, <1>3, <2>1, <3>2, <4>2 DEF S3Pruned
    <3> QED
      BY <3>1, <3>2
  <2> QED
    BY <1>2, <2>1 DEF S3Pruned, Expired
<1> QED
  BY <1>6, <1>7, <1>8, <1>9

\* What a step to the GCS bucket leaves there.
LEMMA GCSAfter ==
    ASSUME AInv, NEW e \in Exporters, UploadGCS(e) \/ PruneGCSFails(e)
    PROVE  /\ gcs' \subseteq Object
           /\ Config[e].gcs /\ Todays(e, TRUE) \in files =>
                 [archive |-> Todays(e, TRUE), stored |-> day] \in gcs'
<1>1. ArchivesTypeOK /\ gcs \in SUBSET Object
  BY DEF AInv, ArchivesTypeOK
<1>2. CASE ~ Config[e].gcs
  BY <1>1, <1>2 DEF UploadGCS, PruneGCSFails
<1>3. CASE Config[e].gcs
  <2>1. \E gone \in SUBSET (Stored(gcs, e) \ Unexpired(Stored(gcs, e), e)) :
           gcs' = Stored(gcs, e) \ gone
    <3>1. CASE UploadGCS(e)
      <4>1. gcs' = Unexpired(Stored(gcs, e), e) \/ gcs' = Stored(gcs, e)
        BY <1>3, <3>1 DEF UploadGCS
      <4> QED
        BY <4>1, PruningAll
    <3>2. CASE PruneGCSFails(e)
      BY <3>2 DEF PruneGCSFails
    <3> QED
      BY <3>1, <3>2
  <2>2. PICK gone \in SUBSET (Stored(gcs, e) \ Unexpired(Stored(gcs, e), e)) :
           gcs' = Stored(gcs, e) \ gone
    BY <2>1
  <2>3. \A after : after = Stored(gcs, e) \ gone =>
           /\ after \subseteq Object
           /\ \A o \in after : o \in gcs \/ o = [archive |-> Todays(e, TRUE), stored |-> day]
           /\ \A o \in gcs : o.stored = day => o \in after
           /\ Todays(e, TRUE) \in files => [archive |-> Todays(e, TRUE), stored |-> day] \in after
    BY <1>1, BucketAfter
  <2> QED
    BY <1>3, <2>2, <2>3
<1> QED
  BY <1>2, <1>3

\* The end of a run, good or bad.
LEMMA EndAInv ==
    ASSUME AInv, NEW e \in Exporters, UploadGCS(e) \/ PruneGCSFails(e) \/ UploadFails(e) PROVE AInv'
<1> USE DEF AInv
<1>1. UNCHANGED <<day, files, s3, ran, skipped>> /\ \E r \in {"ok", "err"} : Finish(e, r)
  BY DEF UploadGCS, PruneGCSFails, UploadFails
<1>2. /\ phase' \in [Exporters -> Phases] /\ phase'[e] = "idle"
      /\ \A f \in Exporters \ {e} : phase'[f] = phase[f]
  BY <1>1, OnlyPhaseOf DEF Phases
<1>3. result' \in [Exporters -> {"none", "ok", "err"}]
  BY <1>1 DEF ArchivesTypeOK, Finish
<1>4. gcs' \subseteq Object
  BY GCSAfter DEF UploadFails, ArchivesTypeOK
<1>5. ArchivesTypeOK'
  BY <1>1, <1>2, <1>3, <1>4 DEF ArchivesTypeOK, Phases
<1>6. InOwnDir' /\ PrunesIfAsked' /\ ArchiveThere' /\ DirPruned'
  BY <1>1, <1>2 DEF InOwnDir, PrunesIfAsked, ArchiveThere, DirPruned, Expired, Todays
<1>7. InS3' /\ S3Pruned'
  BY <1>1, <1>2 DEF InS3, S3Pruned, Expired, Todays
<1> QED
  BY <1>5, <1>6, <1>7
-----------------------------------------------------------------------------

\* Every step keeps the invariant.
LEMMA NextAInv == AInv /\ [Next]_vars => AInv'
<1> SUFFICES ASSUME AInv, [Next]_vars PROVE AInv'
  OBVIOUS
<1>1. CASE NextDay
  BY <1>1, NextDayAInv
<1>2. CASE \E e \in Exporters : Run(e)
  BY <1>2, StartAInv, TarGzAInv, PruneAInv, UploadS3AInv, EndAInv DEF Run
<1>3. CASE TimeUp \/ UNCHANGED vars
  <2>1. UNCHANGED vars
    BY <1>3 DEF TimeUp
  <2> QED
    BY <2>1 DEF vars, AInv, ArchivesTypeOK, InOwnDir, PrunesIfAsked, ArchiveThere, DirPruned, InS3,
                S3Pruned, Todays, Expired
<1> QED
  BY <1>1, <1>2, <1>3 DEF Next

\* What a run has done by now still holds, whatever the other exporters do.
THEOREM ArchivesInductive == Spec => []AInv
BY InitAInv, NextAInv, PTL DEF Spec

\* Archives and objects are those of runs, made on days that have been.
THEOREM ArchivesTypeCorrect == Spec => []ArchivesTypeOK
<1>1. AInv => ArchivesTypeOK
  BY DEF AInv
<1> QED
  BY <1>1, ArchivesInductive, PTL

\* If archives are kept outside of cleared targets, a run finds the archive it is
\* about to upload, whatever the other exporters prune.
THEOREM UploadsFindTheirs ==
    ASSUME KeptOutside PROVE Spec => []UploadFindsArchive
<1>1. AInv => UploadFindsArchive
  BY DEF AInv, ArchiveThere, UploadFindsArchive
<1> QED
  BY <1>1, ArchivesInductive, PTL

\* If, moreover, nobody prunes the archives of an exporter that keeps them for
\* longer, complete archives stay for their retention.
THEOREM ArchivesStay ==
    ASSUME KeptOutside, PrunesNoYounger PROVE Spec => RetentionRespected
<1>1. AInv /\ [Next]_vars =>
         [\A a \in files \ files' :
             a.complete => Config[a.exporter].retention > 0 /\ Expired(a.exporter, a.made)]_vars
  <2> SUFFICES ASSUME AInv, [Next]_vars, NEW a \in files \ files'
               PROVE  Config[a.exporter].retention > 0 /\ Expired(a.exporter, a.made)
    OBVIOUS
  <2> USE DEF AInv
  <2>1. a \in Archive /\ a.exporter \in Exporters /\ a.made \in Nat /\ day \in Nat
    BY ArchivesAssumption DEF ArchivesTypeOK, Archive
  <2>2. ~ UNCHANGED files
    OBVIOUS
  <2>3. PICK e \in Exporters : Start(e) \/ Prune(e) \/ PruneDone(e) \/ PruneFails(e)
    BY <2>2 DEF Next, NextDay, TimeUp, vars, Run, TarGz, TarGzFails, UploadS3, S3ListError, UploadGCS,
                UploadFails, PruneS3Fails, PruneGCSFails
  <2>4. ~ Start(e)
    BY <2>1 DEF Start, KeptOutside, InOwnDir
  <2>5. phase[e] = "prune" /\ MatchesPattern(e, a) /\ Expired(e, a.made)
    BY <2>3, <2>4 DEF Prune, PruneDone, PruneFails, Due
  <2>6. /\ Config[e].retention > 0
        /\ Config[e].archiveTarget = Config[a.exporter].archiveTarget
        /\ <<e, a.exporter>> \in BaseMatch
    BY <2>5 DEF PrunesIfAsked, MatchesPattern, InOwnDir
  <2>7. Config[a.exporter].retention > 0 /\ Config[a.exporter].retention <= Config[e].retention
    BY <2>1, <2>6 DEF PrunesNoYounger
  <2> QED
    BY <2>1, <2>5, <2>7, SettingsTypes DEF Expired
<1> QED
  BY <1>1, ArchivesInductive, PTL DEF Spec, RetentionRespected

\* A run that ends well is the one that uploaded to GCS last.
LEMMA WellEnded ==
    ASSUME AInv, [Next]_vars, NEW e \in Exporters, result[e] # "ok", result'[e] = "ok"
    PROVE  UploadGCS(e)
<1>1. ASSUME NEW f \in Exporters, Run(f), f # e PROVE result'[e] = result[e]
  BY <1>1 DEF Run, Start, TarGz, TarGzFails, Prune, PruneDone, PruneFails, UploadS3, S3ListError, UploadGCS,
              UploadFails, PruneS3Fails, PruneGCSFails, Finish, AInv, ArchivesTypeOK
<1>2. Run(e)
  BY <1>1 DEF Next, NextDay, TimeUp, vars
<1>3. \A r : Finish(e, r) => result'[e] = r
  BY DEF Finish, AInv, ArchivesTypeOK
<1>4. Start(e) => result'[e] = "none"
  BY DEF Start, AInv, ArchivesTypeOK
<1> QED
  BY <1>2, <1>3, <1>4 DEF Run, TarGz, TarGzFails, Prune, PruneDone, PruneFails, UploadS3, S3ListError,
                          UploadFails, PruneS3Fails, PruneGCSFails

\* If archives are kept outside of cleared targets, a run that ends well leaves
\* its archive in each of its buckets.
THEOREM GoodRunsUpload ==
    ASSUME KeptOutside PROVE Spec => UploadedWhenOk
<1>1. AInv /\ [Next]_vars =>
         [\A e \in Exporters :
             result[e] # "ok" /\ result'[e] = "ok" =>
                /\ Config[e].s3 => [archive |-> Todays(e, TRUE), stored |-> day] \in s3'
                /\ Config[e].gcs => [archive |-> Todays(e, TRUE), stored |-> day] \in gcs']_vars
  <2> SUFFICES ASSUME AInv, [Next]_vars, NEW e \in Exporters, result[e] # "ok", result'[e] = "ok"
               PROVE  /\ Config[e].s3 => [archive |-> Todays(e, TRUE), stored |-> day] \in s3'
                      /\ Config[e].gcs => [archive |-> Todays(e, TRUE), stored |-> day] \in gcs'
    OBVIOUS
  <2>1. UploadGCS(e)
    BY WellEnded
  <2>2. phase[e] = "gcs" /\ s3' = s3
    BY <2>1 DEF UploadGCS
  <2>3. Todays(e, TRUE) \in files /\ (Config[e].s3 => [archive |-> Todays(e, TRUE), stored |-> day] \in s3)
    BY <2>2 DEF AInv, ArchiveThere, InS3
  <2> QED
    BY <2>1, <2>2, <2>3, GCSAfter
<1> QED
  BY <1>1, ArchivesInductive, PTL DEF Spec, UploadedWhenOk

\* If exporters that upload have plain names as targets, a run with a retention
\* that ends well leaves no archive of its own that is due.
THEOREM DueArchivesGo ==
    ASSUME PlainTargets PROVE Spec => OldArchivesGone
<1>1. AInv /\ [Next]_vars =>
         [\A e \in Exporters :
             result[e] # "ok" /\ result'[e] = "ok" /\ Config[e].retention > 0 =>
                /\ \A a \in files' : a.exporter = e => ~ Expired(e, a.made)
                /\ \A o \in (IF Config[e].s3 /\ e \notin skipped THEN s3' ELSE {}) \cup
                            (IF Config[e].gcs THEN gcs' ELSE {}) :
                      o.archive.exporter = e => ~ Expired(e, o.stored)]_vars
  <2> SUFFICES ASSUME AInv, [Next]_vars, NEW e \in Exporters, result[e] # "ok", result'[e] = "ok",
                      Config[e].retention > 0
               PROVE  /\ \A a \in files' : a.exporter = e => ~ Expired(e, a.made)
                      /\ Config[e].s3 /\ e \notin skipped =>
                            \A o \in s3' : o.archive.exporter = e => ~ Expired(e, o.stored)
                      /\ Config[e].gcs =>
                            \A o \in gcs' : o.archive.exporter = e => ~ Expired(e, o.stored)
    OBVIOUS
  <2>1. UploadGCS(e)
    BY WellEnded
  <2>2. phase[e] = "gcs" /\ s3' = s3 /\ files' = files
    BY <2>1 DEF UploadGCS
  <2>3. \A a \in files' : a.exporter = e => ~ Expired(e, a.made)
    BY <2>2 DEF AInv, DirPruned
  <2>4. Config[e].s3 /\ e \notin skipped => \A o \in s3' : o.archive.exporter = e => ~ Expired(e, o.stored)
    BY <2>2 DEF AInv, S3Pruned, PlainTargets
  <2>5. ASSUME Config[e].gcs, NEW o \in gcs', o.archive.exporter = e PROVE ~ Expired(e, o.stored)
    <3>1. gcs' = Unexpired(Stored(gcs, e), e)
      BY <2>1, <2>5 DEF UploadGCS
    <3>2. MatchesPrefix(e, o)
      BY <2>5, SettingsTypes DEF MatchesPrefix, PlainTargets
    <3> QED
      BY <2>5, <3>1, <3>2 DEF Unexpired
  <2> QED
    BY <2>3, <2>4, <2>5
<1> QED
  BY <1>1, ArchivesInductive, PTL DEF Spec, OldArchivesGone
=============================================================================
