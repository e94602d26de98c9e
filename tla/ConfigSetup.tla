----------------------------- MODULE ConfigSetup -----------------------------
(***************************************************************************)
(* How the configuration of a run comes about: readConfig (cmd/root.go)    *)
(* lays the config file over the defaults and the flags over both, sets up *)
(* masking and encryption, and takes the fields that are masked out of     *)
(* those to be encrypted (internal/types). update-owner-references then    *)
(* validates the configuration; the export does not.                       *)
(*                                                                         *)
(* The config file and the flags are functions of the settings they give.  *)
(* masked and encrypted map kinds to sets of fields: their order is not    *)
(* looked at here.                                                         *)
(***************************************************************************)
EXTENDS Paths, FiniteSets

CONSTANTS
    ConfigFiles,    \* the config files considered
    FlagSets,       \* the command lines considered
    EnvKeys,        \* values of KUBEXPORTER_AES_KEY: "none" when it is not set, "" when
                    \* it is set to nothing
    ValidKeys,      \* AES keys of a valid size
    DefaultKinds,   \* DefaultExcludedKinds
    Trim            \* the namespaces as they may be written, without white space

Checksums == {"", "md5", "sha1", "sha256"}

\* NewConfig.
Defaults ==
    [namespace |-> "none", namespaces |-> <<>>, incCluster |-> FALSE,
     included |-> {}, excluded |-> {}, byField |-> {}, createdWithin |-> FALSE, owners |-> FALSE,
     masked |-> <<>>, encrypted |-> <<>>, aesKey |-> "none", checksum |-> "",
     worker |-> 1, quiet |-> FALSE, summary |-> FALSE, progress |-> "bar"]

ASSUME ConfigAssumption ==
    /\ \A file \in ConfigFiles : DOMAIN file \subseteq DOMAIN Defaults
    /\ \A flags \in FlagSets : DOMAIN flags \subseteq DOMAIN Defaults \cup {"excludeDefaults"}
    /\ \A given \in ConfigFiles \cup FlagSets :
          "namespaces" \in DOMAIN given => given.namespaces \in Seq(DOMAIN Trim)
    /\ {"none", ""} \cap ValidKeys = {}

VARIABLES
    pc,        \* the next step, or "failed"
    command,   \* "export" or "update"
    file,      \* the config file
    flags,     \* the flags that were given
    env,       \* KUBEXPORTER_AES_KEY
    terminal,  \* TRUE iff the output goes to a terminal
    config     \* the configuration

inputs == <<command, file, flags, env, terminal>>
setupVars == <<pc, inputs, config>>

SetupInit ==
    /\ pc = "file"
    /\ command \in {"export", "update"}
    /\ file \in ConfigFiles
    /\ flags \in IF command = "export" THEN FlagSets ELSE {<<>>}
    /\ env \in EnvKeys
    /\ terminal \in BOOLEAN
    /\ config = Defaults

----------------------------------------------------------------------------
(* readConfig *)

\* The settings of f, and those of g that f does not have.
Over(f, g) == [s \in DOMAIN f \cup DOMAIN g |-> IF s \in DOMAIN f THEN f[s] ELSE g[s]]

UpdateFrom ==
    /\ pc = "file"
    /\ config' = Over(file, config)
    /\ pc' = "flags"
    /\ UNCHANGED inputs

\* Mutant: --exclude-defaults is kept as a setting.
VisitFlagsRaw ==
    /\ pc = "flags"
    /\ config' = Over(flags, config)
    /\ pc' = "masked"
    /\ UNCHANGED inputs

\* The flags override the file. --exclude-defaults is visited before --exclude-kinds,
\* and counts only when the file excludes nothing.
VisitFlags ==
    /\ pc = "flags"
    /\ config' = LET given == Over(flags, config) IN
          [s \in DOMAIN config |->
             IF /\ s = "excluded" /\ "excluded" \notin DOMAIN flags
                /\ "excludeDefaults" \in DOMAIN flags /\ config.excluded = {}
               THEN DefaultKinds ELSE given[s]]
    /\ pc' = "masked"
    /\ UNCHANGED inputs

SetupMasked ==
    /\ pc = "masked"
    /\ pc' = IF config.checksum \in Checksums THEN "encrypted" ELSE "failed"
    /\ UNCHANGED <<inputs, config>>

\* The environment overrides the key, also with nothing; one of a wrong size is an error,
\* and so is none when there are fields to encrypt.
SetupEncrypted ==
    LET aesKey == IF env # "none" THEN env ELSE config.aesKey IN
    /\ pc = "encrypted"
    /\ config' = [config EXCEPT !.aesKey = aesKey]
    /\ pc' = IF aesKey \in ValidKeys \/ (aesKey \in {"none", ""} /\ config.encrypted = <<>>)
               THEN "diff" ELSE "failed"
    /\ UNCHANGED inputs

\* The other fields without those whose path, as one string, begins with one of these.
DiffFields(this, other) ==
    {o \in other : \A t \in this : ~ HasPrefix(Join(o, ";"), Join(t, ";"))}

\* Mutant: a kind with masked fields has nothing left to encrypt.
DiffKinds(this, other) ==
    [kind \in DOMAIN other \ DOMAIN this |-> other[kind]]

\* KindFields.Diff: masked and encrypted are functions from kinds to fields; kinds that
\* have no fields left are gone.
Diff(this, other) ==
    LET left(kind) == IF kind \in DOMAIN this THEN DiffFields(this[kind], other[kind]) ELSE other[kind]
    IN  [kind \in {k \in DOMAIN other : left(k) # {}} |-> left(kind)]

DiffEncrypted ==
    /\ pc = "diff"
    /\ config' = [config EXCEPT !.encrypted = Diff(config.masked, @),
                                !.progress = IF @ \in {"none", "simple"} \/ terminal THEN @ ELSE "simple"]
    /\ pc' = IF command = "export" THEN "list" ELSE "validate"
    /\ UNCHANGED inputs

----------------------------------------------------------------------------
(* Validate *)

\* It stands for all namespaces, and is that of the kinds of the cluster.
NoNamespace == ""
EmptyNamespaces == <<NoNamespace>>

\* Mutant: namespaces are compared before they are trimmed.
TrimLast(namespaces) ==
    LET distinct == SetToSeq(ToSet(namespaces)) IN [i \in DOMAIN distinct |-> Trim[distinct[i]]]

\* Sorted and without repetition (any one order stands for the sorted one).
Normalize(namespaces) == SetToSeq({Trim[namespaces[i]] : i \in DOMAIN namespaces})

\* Both settings are joined, blanks are cut off; without any it is NoNamespace. Whether
\* the templates of file names and the paths of the targets are valid is left open.
Validate ==
    LET joined == IF config.namespace = "none" THEN config.namespaces
                  ELSE Append(config.namespaces, config.namespace)
    IN  /\ pc = "validate"
        /\ \E valid \in BOOLEAN :
              /\ valid => config.worker > 0
              /\ config' = [config EXCEPT
                    !.namespace = "none",
                    !.namespaces = IF joined = <<>> THEN EmptyNamespaces ELSE Normalize(joined),
                    !.summary = @ /\ ~ (valid /\ config.quiet),
                    !.progress = IF ~ valid THEN @
                                 ELSE IF config.quiet THEN "none"
                                 ELSE IF @ \in {"simple", "none"} THEN @ ELSE "bar"]
              /\ pc' = IF valid THEN "update" ELSE "failed"
        /\ UNCHANGED inputs

Setup == UpdateFrom \/ VisitFlags \/ SetupMasked \/ SetupEncrypted \/ DiffEncrypted \/ Validate
----------------------------------------------------------------------------
(* Properties *)

\* The file, or what the flags and the environment put in its place.
Given(setting) == Over(flags, Over(file, Defaults))[setting]

\* What was configured to be encrypted, and is a prefix of it by the characters only
\* when it is one by the fields.
FieldPrefixes ==
    \A kind \in DOMAIN Given("masked") \cap DOMAIN Given("encrypted") :
        \A m \in Given("masked")[kind], e \in Given("encrypted")[kind] :
            HasPrefix(Join(e, ";"), Join(m, ";")) => IsPrefix(m, e)

\* No field that is configured to be encrypted gets to the export in clear: it is
\* encrypted, with a valid key, or lies in a field that is masked.
SecretsCovered ==
    pc \in {"list", "validate", "update", "export", "exported"} /\ FieldPrefixes =>
        \A kind \in DOMAIN Given("encrypted") : \A e \in Given("encrypted")[kind] :
            \/ /\ config.aesKey \in ValidKeys
               /\ kind \in DOMAIN config.encrypted /\ e \in config.encrypted[kind]
            \/ /\ kind \in DOMAIN config.masked
               /\ \E m \in config.masked[kind] : IsPrefix(m, e)

\* "Multiple namespaces (joined with namespace, if both are set)": a validated
\* configuration has each of them once, without blanks.
NamespacesJoined ==
    LET wanted == ToSet(Given("namespaces"))
                    \cup (IF Given("namespace") = "none" THEN {} ELSE {Given("namespace")})
    IN  pc = "update" =>
            /\ \A ns \in wanted : Trim[ns] \in ToSet(config.namespaces)
            /\ \A i, j \in DOMAIN config.namespaces :
                  config.namespaces[i] = config.namespaces[j] => i = j
=============================================================================
