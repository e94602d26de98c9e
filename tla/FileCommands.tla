----------------------------- MODULE FileCommands -----------------------------
(***************************************************************************)
(* The commands that rewrite exported files: encrypt and decrypt           *)
(* (internal/types/encrypted.go, cmd/encrypt.go, cmd/decrypt.go) and       *)
(* update-owner-references (internal/uor/update.go), over ReadFile and     *)
(* WriteFile (internal/utils/read.go).                                     *)
(*                                                                         *)
(* A command takes its files one after the other: it reads the file,       *)
(* changes the object in memory, truncates the file and prints the object  *)
(* to it. The first error ends it. It may also be killed at any point, and *)
(* commands follow one another, with the same or with other settings.      *)
(***************************************************************************)
EXTENDS Objects

CONSTANTS
    Files,        \* the files of an export
    Original,     \* the object of each file, with nothing encrypted
    Refs,         \* the owner references in each file, as [kind, version, name, uid]
    Namespace,    \* the namespace of each file's object, "" if it has none
    ExportFields, \* the lists of fields an export may have encrypted
    ArgLists,     \* the lists of files commands are called with
    AllFiles,     \* the files in the order filepath.Walk finds them
    AesKeys,      \* keys of a valid size
    Settings,     \* where keys come from: [flag, env, secret, typed |-> key or "none"]; an
                  \* environment variable may be set to "" as well
    Clusters,     \* sets of owners, as [kind, version, name, ns, uid]
    MaxCommands   \* bound on the number of commands

ASSUME FileCommandsAssumption ==
    /\ \A f \in Files : /\ WellFormed(Original[f]) /\ <<"kind">> \in DOMAIN Original[f]
                        /\ \A p \in DOMAIN Original[f] : Original[f][p].key = "none"
                        /\ Refs[f] \in Seq([kind : STRING, version : STRING, name : STRING, uid : STRING])
    /\ ExportFields \subseteq Seq(Seq(STRING))
    /\ ArgLists \subseteq Seq(Files) \ {<<>>}
    /\ AllFiles \in Seq(Files) \ {<<>>} /\ ToSet(AllFiles) = Files
    /\ {"none", ""} \cap AesKeys = {}
    /\ {"data", "stringData"} \cap Positions = {}
    /\ MaxCommands \in Nat

VARIABLES
    disk,      \* what each file holds: its object and references, and whether any of
               \* the original is lost
    pc,        \* where the command is, or "idle"
    op,        \* "encrypt", "decrypt" or "update"
    key,       \* the AES key of the command
    todo,      \* the files still to be taken, with the current one first
    mem,       \* the current file in memory
    next,      \* the next owner reference of the current file
    owners,    \* the owners found for the current file, by the keys of findOwner
    changed,   \* TRUE iff the references of the current file are to be written
    rows,      \* the rows of the table of update-owner-references
    cluster,   \* the owners that exist
    result,    \* how the last command ended: [op, files, status]
    used,      \* the settings that commands were called with
    started,   \* the number of commands
    damaged    \* the files whose rewriting failed or was killed

cmdVars == <<op, key, used, started>>
fileVars == <<mem, next, owners, changed>>
vars == <<disk, pc, cmdVars, todo, fileVars, rows, cluster, result, damaged>>

Nothing == [p \in {<<>>} |-> Map]
None == [op |-> "none", files |-> <<>>, status |-> "none"]

----------------------------------------------------------------------------
(* The key *)

\* The config is only read for a key in the cluster. Its Encrypted.Setup refuses a key
\* of the environment that has a wrong size, though that key is not the one to be used.
ConfigRefused(s) == s.secret # "none" /\ s.env \notin AesKeys \cup {"none", ""}

\* Mutant: the environment does not take precedence over the flag.
FlagFirst(s) ==
    LET given == IF s.secret # "none" THEN s.secret ELSE IF s.flag # "none" THEN s.flag ELSE s.env
    IN  IF ConfigRefused(s) THEN "none" ELSE IF given \in {"none", ""} THEN s.typed ELSE given

\* The key in the cluster, else that of the environment if it is set, be it to nothing,
\* else the flag. Without any the user is asked.
EvaluateAesKey(s) ==
    LET given == IF s.secret # "none" THEN s.secret ELSE IF s.env # "none" THEN s.env ELSE s.flag
    IN  IF ConfigRefused(s) THEN "none" ELSE IF given \in {"none", ""} THEN s.typed ELSE given

\* Encrypt sets up an Encrypted, which looks into the environment once more: a variable
\* that is set to nothing takes the key away again.
KeyOf(command, s) ==
    IF command = "encrypt" /\ s.env # "none" THEN s.env ELSE EvaluateAesKey(s)

\* The files come from an export with settings of its own; where they give no valid
\* key nothing was encrypted.
Init ==
    \E s \in Settings, fields \in [Files -> ExportFields] :
        /\ KeyOf("encrypt", s) \notin AesKeys => \A f \in Files : fields[f] = <<>>
        /\ disk = [f \in Files |-> [obj |-> EncryptFields(Original[f], fields[f], KeyOf("encrypt", s)),
                                    refs |-> Refs[f], lost |-> FALSE]]
        /\ used = {s}
        /\ pc = "idle" /\ op = "none" /\ key = "none" /\ todo = <<>>
        /\ mem = [obj |-> Nothing, refs |-> <<>>, lost |-> FALSE]
        /\ next = 1 /\ owners = <<>> /\ changed = FALSE /\ rows = {}
        /\ cluster \in Clusters
        /\ result = None
        /\ started = 0 /\ damaged = {}

----------------------------------------------------------------------------
(* A command *)

Return(status) ==
    /\ pc' = "idle"
    /\ todo' = <<>>
    /\ result' = [result EXCEPT !.status = status]

\* Mutant: the command does not end with its last file.
NextFileAlways ==
    pc' = "read" /\ todo' = Tail(todo) /\ UNCHANGED result

\* The next file, or the end of the command.
NextFile ==
    IF Len(todo) > 1
      THEN pc' = "read" /\ todo' = Tail(todo) /\ UNCHANGED result
      ELSE Return("ok")

\* A command is called; no key or one of a wrong size ends it before any file.
Start(command, args, s) ==
    /\ pc = "idle"
    /\ started < MaxCommands
    /\ started' = started + 1
    /\ op' = command
    /\ key' = IF command = "update" THEN "none" ELSE KeyOf(command, s)
    /\ used' = IF command = "update" THEN used ELSE used \cup {s}
    /\ rows' = {}
    /\ IF command # "update" /\ key' \notin AesKeys
         THEN /\ result' = [op |-> command, files |-> args, status |-> "key"]
              /\ UNCHANGED <<pc, todo>>
         ELSE /\ result' = [op |-> command, files |-> args, status |-> "running"]
              /\ pc' = "read" /\ todo' = args
    /\ UNCHANGED <<disk, fileVars, cluster, damaged>>

StartAny ==
    \E s \in Settings :
        \/ \E command \in {"encrypt", "decrypt"}, args \in ArgLists : Start(command, args, s)
        \/ Start("update", AllFiles, s)

\* ReadFile fails for an empty file, and may fail for any other: for a part of one, or
\* one that cannot be opened.
ReadFails ==
    /\ pc = "read"
    /\ Return("read")
    /\ UNCHANGED <<disk, cmdVars, fileVars, rows, cluster, damaged>>

\* Mutant: the file is opened for writing, and truncated, before it is decoded.
ReadTruncating ==
    /\ pc = "read"
    /\ disk[Head(todo)].obj # Nothing
    /\ mem' = disk[Head(todo)]
    /\ next' = 1 /\ owners' = <<>> /\ changed' = FALSE
    /\ pc' = CASE op = "encrypt" -> "encrypt" [] op = "decrypt" -> "decrypt" [] op = "update" -> "owner"
    /\ disk' = [disk EXCEPT ![Head(todo)].obj = Nothing, ![Head(todo)].lost = TRUE]
    /\ UNCHANGED <<cmdVars, todo, rows, cluster, result, damaged>>

Read ==
    /\ pc = "read"
    /\ disk[Head(todo)].obj # Nothing
    /\ mem' = disk[Head(todo)]
    /\ next' = 1 /\ owners' = <<>> /\ changed' = FALSE
    /\ pc' = CASE op = "encrypt" -> "encrypt" [] op = "decrypt" -> "decrypt" [] op = "update" -> "owner"
    /\ UNCHANGED <<disk, cmdVars, todo, rows, cluster, result, damaged>>

SecretFields == <<<<"data">>, <<"stringData">>>>

\* Mutant: only data is encrypted.
EncryptData ==
    /\ pc = "encrypt"
    /\ mem' = IF mem.obj[<<"kind">>].text # {"Secret"} THEN mem
              ELSE [mem EXCEPT !.obj = EncryptFields(@, <<<<"data">>>>, key)]
    /\ pc' = "truncate"
    /\ UNCHANGED <<disk, cmdVars, todo, next, owners, changed, rows, cluster, result, damaged>>

\* The fields of a Secret, whatever the config file says.
Encrypt ==
    /\ pc = "encrypt"
    /\ mem' = IF mem.obj[<<"kind">>].text # {"Secret"} THEN mem
              ELSE [mem EXCEPT !.obj = EncryptFields(@, SecretFields, key)]
    /\ pc' = "truncate"
    /\ UNCHANGED <<disk, cmdVars, todo, next, owners, changed, rows, cluster, result, damaged>>

\* One value that cannot be decrypted ends the command, with the file untouched.
Decrypt ==
    /\ pc = "decrypt"
    /\ IF DecryptFails(mem.obj, key)
         THEN Return("decrypt") /\ UNCHANGED mem
         ELSE /\ mem' = [mem EXCEPT !.obj = DecryptFields(@)]
              /\ pc' = "truncate"
              /\ UNCHANGED <<todo, result>>
    /\ UNCHANGED <<disk, cmdVars, next, owners, changed, rows, cluster, damaged>>

\* The first part of WriteFile: the file cannot be opened, or is empty from now on.
Truncate ==
    /\ pc = "truncate"
    /\ \/ Return("open") /\ UNCHANGED disk
       \/ /\ disk' = [disk EXCEPT ![Head(todo)] = [obj |-> Nothing, refs |-> <<>>, lost |-> TRUE]]
          /\ pc' = "print"
          /\ UNCHANGED <<todo, result>>
    /\ UNCHANGED <<cmdVars, fileVars, rows, cluster, damaged>>

PrintObj ==
    /\ pc = "print"
    /\ disk' = [disk EXCEPT ![Head(todo)] = mem]
    /\ NextFile
    /\ UNCHANGED <<cmdVars, fileVars, rows, cluster, damaged>>

\* The printer or the disk fails, and leaves nothing or the beginning of the object.
PrintObjFails ==
    /\ pc = "print"
    /\ disk' \in {disk, [disk EXCEPT ![Head(todo)] =
                            [obj |-> RemoveNestedField(mem.obj, <<"data">>), refs |-> <<>>, lost |-> TRUE]]}
    /\ damaged' = damaged \cup {Head(todo)}
    /\ Return("print")
    /\ UNCHANGED <<cmdVars, fileVars, rows, cluster>>

\* The process is killed: what is printed at that moment is lost.
Killed ==
    /\ pc # "idle"
    /\ damaged' = IF pc = "print" THEN damaged \cup {Head(todo)} ELSE damaged
    /\ Return("killed")
    /\ UNCHANGED <<disk, cmdVars, fileVars, rows, cluster>>

----------------------------------------------------------------------------
(* update-owner-references *)

\* Mutant: owners are looked up by name only once.
OwnerKeyByName(f, ref) == <<ref.name>>

\* The key of an owner has no kind.
OwnerKey(f, ref) == <<Namespace[f], ref.version, ref.name>>

\* What Get answers for a reference: it always asks in the namespace of the file's
\* object, also for owners that have none.
Owner(f, ref) ==
    {o \in cluster : o.kind = ref.kind /\ o.version = ref.version /\ o.name = ref.name
                        /\ o.ns = Namespace[f]}

NotFound == "<NOT FOUND>"
Error == "<ERROR>"
Row(f, ref, to) == [file |-> f, kind |-> ref.kind, name |-> ref.name, from |-> ref.uid, to |-> to]

\* One reference. The UID is set in a copy of the reference: the object in memory
\* stays as it is, and is to be written. Requests that fail or find nothing get a row.
UpdateReference ==
    LET f == Head(todo)
        ref == mem.refs[next]
        found(uid) == /\ rows' = IF ref.uid = uid THEN rows ELSE rows \cup {Row(f, ref, uid)}
                      /\ changed' = (changed \/ ref.uid # uid)
    IN  /\ pc = "owner"
        /\ next <= Len(mem.refs)
        /\ next' = next + 1
        /\ \/ /\ OwnerKey(f, ref) \in DOMAIN owners
              /\ found(owners[OwnerKey(f, ref)])
              /\ UNCHANGED owners
           \/ /\ OwnerKey(f, ref) \notin DOMAIN owners
              /\ \E o \in Owner(f, ref) :
                    /\ owners' = [k \in DOMAIN owners \cup {OwnerKey(f, ref)} |->
                                     IF k \in DOMAIN owners THEN owners[k] ELSE o.uid]
                    /\ found(o.uid)
           \/ /\ OwnerKey(f, ref) \notin DOMAIN owners
              /\ \/ rows' = rows \cup {Row(f, ref, Error)}
                 \/ Owner(f, ref) = {} /\ rows' = rows \cup {Row(f, ref, NotFound)}
              /\ UNCHANGED <<owners, changed>>
        /\ UNCHANGED <<disk, pc, cmdVars, todo, mem, cluster, result, damaged>>

\* After its last reference a file is written if one of them was out of date.
UpdateFile ==
    /\ pc = "owner"
    /\ next > Len(mem.refs)
    /\ IF changed THEN pc' = "truncate" /\ UNCHANGED <<todo, result>> ELSE NextFile
    /\ UNCHANGED <<disk, cmdVars, fileVars, rows, cluster, damaged>>

Next ==
    \/ StartAny \/ ReadFails \/ Read \/ Encrypt \/ Decrypt
    \/ UpdateReference \/ UpdateFile
    \/ Truncate \/ PrintObj \/ PrintObjFails \/ Killed

Spec == Init /\ [][Next]_vars
----------------------------------------------------------------------------
(* Conditions on exports, under which some of the properties hold *)

IsSecret(f) == Original[f][<<"kind">>].text = {"Secret"}

\* What an export and encrypt print into cipher texts are scalars, as in a Secret.
ValuesAreScalars ==
    \A f \in Files : /\ \A fields \in ExportFields : ScalarTargets(Original[f], fields)
                     /\ IsSecret(f) => ScalarTargets(Original[f], SecretFields)

\* data and stringData of a Secret are maps, and exported both encrypted or both in clear.
SecretsAreWhole ==
    \A f \in Files : IsSecret(f) =>
        /\ \A p \in {<<"data">>, <<"stringData">>} \cap DOMAIN Original[f] : Original[f][p].kind = "map"
        /\ \A fields \in ExportFields :
              fields = <<>> \/ {<<"data">>, <<"stringData">>} \subseteq {fields[i] : i \in DOMAIN fields}

Settled == ValuesAreScalars /\ SecretsAreWhole

----------------------------------------------------------------------------
(* Properties *)

FilesTypeOK ==
    /\ pc \in {"idle", "read", "encrypt", "decrypt", "owner", "truncate", "print"}
    /\ pc = "idle" <=> todo = <<>>
    /\ todo \in Seq(Files)
    /\ \A f \in Files : WellFormed(disk[f].obj)
    /\ WellFormed(mem.obj)
    /\ damaged \subseteq Files

\* Whatever commands are called, with whatever keys, fail and are killed: what is in a
\* file can be brought back from it, unless a part of the file was lost. Nothing is
\* encrypted twice or replaced by something else.
ContentKept ==
    \A f \in Files : ~ disk[f].lost => \A p \in DOMAIN Original[f] :
        p \in DOMAIN disk[f].obj /\ disk[f].obj[p].text = Original[f][p].text

\* A part of a file is only lost when printing it failed or was killed: no error of a
\* key, of a value or of another file costs any content.
LostOnlyByFailure ==
    \A f \in Files : disk[f].lost => f \in damaged \/ (pc = "print" /\ f = Head(todo))

\* The values of a file that decrypt visits have one key, so that one call decrypts
\* all of them.
OneKeyPerFile ==
    \A f \in Files : \A p, q \in Decryptable(disk[f].obj) : disk[f].obj[p].key = disk[f].obj[q].key

\* When encrypt or decrypt succeeds, each of its files is done: no value of a Secret
\* is in clear any more, or none is encrypted that decrypt can reach.
DoneWhenOk ==
    result.status = "ok" => \A f \in ToSet(result.files) :
        LET o == disk[f].obj IN
        /\ result.op = "encrypt" /\ o[<<"kind">>].text = {"Secret"} =>
              \A p \in DOMAIN o : Len(p) = 2 /\ p[1] \in {"data", "stringData"} =>
                  o[p].kind = "string" /\ (o[p].key # "none" \/ o[p].text = {})
        /\ result.op = "decrypt" => Decryptable(o) = {}

\* As long as the settings are the ones of the export, and do not have a key in the
\* cluster next to one in the environment, decrypt accepts what was encrypted, after
\* any number of calls that failed half-way.
NeverRefused ==
    (\A s \in used : used = {s} /\ (s.env # "none" => s.secret \in {"none", s.env}))
        => result.status # "decrypt"

\* No two references of a file differ in the kind of the owner only.
DistinctOwners(f) ==
    \A i, j \in DOMAIN Refs[f] :
        Refs[f][i].version = Refs[f][j].version /\ Refs[f][i].name = Refs[f][j].name => i = j

\* update-owner-references reports each reference that is out of date or without an
\* owner, and none with a UID that its owner does not have.
StaleReported ==
    result.op = "update" /\ result.status = "ok" =>
        \A f \in Files : DistinctOwners(f) =>
            /\ \A i \in DOMAIN disk[f].refs :
                  LET ref == disk[f].refs[i] IN
                  (\A o \in Owner(f, ref) : o.uid # ref.uid) => \E to \in {row.to : row \in rows} :
                                                                    Row(f, ref, to) \in rows
            /\ \A row \in rows : row.file = f =>
                  row.to \in {NotFound, Error} \cup
                      UNION {{o.uid : o \in Owner(f, Refs[f][i])} :
                                i \in {i \in DOMAIN Refs[f] : Refs[f][i].kind = row.kind
                                                            /\ Refs[f][i].name = row.name}}

\* "Allows updating Owner references against a running cluster": where a new UID is
\* reported for an owner, the file has a reference to that owner with the new UID once
\* the command succeeded.
OwnersUpdated ==
    result.op = "update" /\ result.status = "ok" =>
        \A row \in rows : row.to \notin {NotFound, Error} =>
            \E i \in DOMAIN disk[row.file].refs :
                LET ref == disk[row.file].refs[i] IN
                ref.kind = row.kind /\ ref.name = row.name /\ ref.uid = row.to
=============================================================================
