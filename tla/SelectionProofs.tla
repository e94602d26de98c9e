--------------------------- MODULE SelectionProofs ---------------------------
(***************************************************************************)
(* Proofs about the configuration and the selection, for any config files, *)
(* flags, keys, kinds and instances: an export has what its file and flags *)
(* ask for and nothing else, each instance once, and no field that is to   *)
(* be encrypted in clear; a validated configuration joins its namespaces.  *)
(***************************************************************************)
EXTENDS Selection, FiniteSetTheorems, SequenceTheorems, TLAPS

(***************************************************************************)
(* The inductive invariant.  The configuration is, at each step, what was  *)
(* given, but for the settings that the later steps look at or change; and *)
(* an instance was exported as often as the queries for its kind find it,  *)
(* if these were made already.                                             *)
(***************************************************************************)

Exporting == {"list", "export", "exported"}
AfterFlags == {"masked", "encrypted", "diff", "validate"} \cup Exporting

\* The kinds excluded once the flags were visited.
GivenExcluded ==
    IF /\ Given("excluded") = {}
       /\ {"excluded", "excludeDefaults"} \cap DOMAIN flags = {"excludeDefaults"}
      THEN DefaultKinds ELSE Given("excluded")

Places ==
    /\ pc \in {"file", "flags", "masked", "encrypted", "diff", "list", "validate", "update",
               "export", "exported", "failed"}
    /\ DOMAIN config = DOMAIN Defaults
    /\ file \in ConfigFiles
    /\ flags \in FlagSets \cup {<<>>}

\* Nothing else changes these settings before they are validated.
Kept == {"namespace", "namespaces", "incCluster", "included", "byField", "createdWithin", "owners",
         "masked"}

ConfigAsGiven ==
    /\ pc = "file" => config = Defaults
    /\ pc = "flags" => config = Over(file, Defaults)
    /\ pc \in AfterFlags =>
          /\ \A s \in Kept : config[s] = Given(s)
          /\ config.excluded = GivenExcluded

\* What is left to encrypt, and the key to do it.
EncryptedAsGiven ==
    /\ pc \in {"masked", "encrypted", "diff"} => config.encrypted = Given("encrypted")
    /\ pc = "diff" => config.aesKey \in ValidKeys \/ config.encrypted = <<>>
    /\ pc \in Exporting \cup {"validate", "update"} =>
          /\ config.masked = Given("masked")
          /\ config.encrypted = Diff(Given("masked"), Given("encrypted"))
          /\ config.aesKey \in ValidKeys \/ Given("encrypted") = <<>>

\* A kind that was exported is no longer among the resources.
TimesAsFound ==
    /\ resources \subseteq (IF pc = "export" THEN Selected ELSE {})
    /\ times \in [Instances -> Nat]
    /\ pc \notin {"export", "exported"} => \A i \in Instances : times[i] = 0
    /\ pc \in {"export", "exported"} =>
          \A i \in Instances, r \in ApiResources : r.kind = i.kind =>
              times[i] = IF r \in Selected \ resources /\ ~ IsInstanceExcluded(i)
                           THEN Finds(r, i.ns) ELSE 0

SInv == Places /\ ConfigAsGiven /\ EncryptedAsGiven /\ TimesAsFound /\ NamespacesJoined
-----------------------------------------------------------------------------
(* Settings *)

\* One function laid over another.
LEMMA Overlay ==
    ASSUME NEW f, NEW g
    PROVE  /\ DOMAIN Over(f, g) = DOMAIN f \cup DOMAIN g
           /\ \A x \in DOMAIN f : Over(f, g)[x] = f[x]
           /\ \A x \in DOMAIN g \ DOMAIN f : Over(f, g)[x] = g[x]
BY DEF Over

LEMMA NoSettings == DOMAIN <<>> = {}
OBVIOUS

LEMMA OneNamespace == DOMAIN EmptyNamespaces = {1} /\ EmptyNamespaces[1] = NoNamespace
BY DEF EmptyNamespaces

\* Given, setting by setting.
LEMMA GivenBySetting ==
    ASSUME Places, NEW s \in DOMAIN Defaults
    PROVE  Given(s) = IF s \in DOMAIN flags THEN flags[s]
                      ELSE IF s \in DOMAIN file THEN file[s] ELSE Defaults[s]
BY DEF Given, Over

LEMMA SInit == Init => SInv
<1> SUFFICES ASSUME Init PROVE SInv
  OBVIOUS
<1>1. Places
  BY DEF Init, SetupInit, Places
<1>2. ConfigAsGiven /\ EncryptedAsGiven /\ NamespacesJoined
  BY DEF Init, SetupInit, ConfigAsGiven, EncryptedAsGiven, NamespacesJoined, AfterFlags, Exporting
<1>3. TimesAsFound
  BY DEF Init, SetupInit, TimesAsFound
<1> QED
  BY <1>1, <1>2, <1>3 DEF SInv

-----------------------------------------------------------------------------
(* readConfig *)

\* Nothing is exported before the configuration is read.
LEMMA SetupKeepsTimes ==
    ASSUME SInv, Setup, UNCHANGED <<resources, times>>
    PROVE  TimesAsFound'
<1>1. pc \notin {"export", "exported"} /\ pc' \notin {"export", "exported"}
  BY DEF Setup, UpdateFrom, VisitFlags, SetupMasked, SetupEncrypted, DiffEncrypted, Validate
<1> QED
  BY <1>1 DEF SInv, TimesAsFound

LEMMA ReadsFile ==
    ASSUME SInv, UpdateFrom
    PROVE  Places' /\ ConfigAsGiven' /\ EncryptedAsGiven' /\ NamespacesJoined'
<1>1. config' = Over(file, Defaults) /\ pc' = "flags"
  BY DEF UpdateFrom, SInv, ConfigAsGiven
<1>2. DOMAIN config' = DOMAIN Defaults
  BY <1>1, ConfigAssumption, Overlay DEF SInv, Places
<1>3. Places'
  BY <1>1, <1>2 DEF SInv, Places, UpdateFrom, inputs
<1>4. ConfigAsGiven' /\ EncryptedAsGiven' /\ NamespacesJoined'
  BY <1>1 DEF ConfigAsGiven, EncryptedAsGiven, NamespacesJoined, AfterFlags, Exporting, UpdateFrom, inputs
<1> QED
  BY <1>3, <1>4

LEMMA ReadsFlags ==
    ASSUME SInv, VisitFlags
    PROVE  Places' /\ ConfigAsGiven' /\ EncryptedAsGiven' /\ NamespacesJoined'
<1> DEFINE byDefault == {"excluded", "excludeDefaults"} \cap DOMAIN flags = {"excludeDefaults"}
<1>1. config = Over(file, Defaults) /\ pc' = "masked" /\ UNCHANGED <<file, flags>> /\ Places
  BY DEF VisitFlags, SInv, ConfigAsGiven, inputs
<1>2. ASSUME NEW s \in DOMAIN Defaults
      PROVE  config'[s] = IF s = "excluded" /\ byDefault /\ config.excluded = {}
                            THEN DefaultKinds ELSE Given(s)
  <2>1. s \in DOMAIN config
    BY <1>1 DEF Places
  <2>2. Over(flags, config)[s] = Given(s)
    BY <1>1 DEF Given
  <2> QED
    BY <2>1, <2>2 DEF VisitFlags
<1>3. DOMAIN config' = DOMAIN Defaults
  BY <1>1 DEF VisitFlags, Places
<1>4. config'.excluded = GivenExcluded
  <2>1. "excluded" \in DOMAIN Defaults
    BY DEF Defaults
  <2>2. byDefault => config.excluded = Given("excluded")
    <3>1. ASSUME byDefault PROVE "excluded" \notin DOMAIN flags
      BY <3>1
    <3>2. "excluded" \in DOMAIN config
      BY <1>1, <2>1 DEF Places
    <3> QED
      BY <1>1, <2>1, <3>1, <3>2 DEF Given, Over
  <2> QED
    BY <1>2, <2>1, <2>2 DEF GivenExcluded
<1>5. \A s \in Kept \cup {"encrypted"} : config'[s] = Given(s)
  <2>1. Kept \cup {"encrypted"} \subseteq DOMAIN Defaults \ {"excluded"}
    BY DEF Kept, Defaults
  <2> QED
    BY <1>2, <2>1
<1>6. \A s : Given(s)' = Given(s)
  BY <1>1 DEF Given
<1>7. GivenExcluded' = GivenExcluded
  BY <1>1, <1>6 DEF GivenExcluded
<1>8. Places'
  BY <1>1, <1>3 DEF SInv, Places
<1>9. ConfigAsGiven'
  BY <1>1, <1>4, <1>5, <1>6, <1>7 DEF ConfigAsGiven
<1>10. EncryptedAsGiven' /\ NamespacesJoined'
  BY <1>1, <1>5, <1>6 DEF EncryptedAsGiven, NamespacesJoined, AfterFlags, Exporting
<1> QED
  BY <1>8, <1>9, <1>10

\* Steps that leave alone what was read.
LEMMA GivenStays ==
    ASSUME UNCHANGED inputs
    PROVE  UNCHANGED <<file, flags, GivenExcluded>> /\ \A s : Given(s)' = Given(s)
BY DEF inputs, Given, GivenExcluded

LEMMA SetsUpMasked ==
    ASSUME SInv, SetupMasked
    PROVE  Places' /\ ConfigAsGiven' /\ EncryptedAsGiven' /\ NamespacesJoined'
<1>1. pc = "masked" /\ pc' \in {"encrypted", "failed"} /\ UNCHANGED <<inputs, config>>
  BY DEF SetupMasked
<1>2. UNCHANGED <<file, flags, GivenExcluded>> /\ \A s : Given(s)' = Given(s)
  BY <1>1, GivenStays
<1> QED
  BY <1>1, <1>2 DEF SInv, Places, ConfigAsGiven, EncryptedAsGiven, NamespacesJoined, AfterFlags, Exporting

LEMMA SetsUpEncrypted ==
    ASSUME SInv, SetupEncrypted
    PROVE  Places' /\ ConfigAsGiven' /\ EncryptedAsGiven' /\ NamespacesJoined'
<1>1. /\ pc = "encrypted" /\ pc' \in {"diff", "failed"} /\ UNCHANGED inputs
      /\ pc' = "diff" => config'.aesKey \in ValidKeys \/ config.encrypted = <<>>
      /\ DOMAIN config' = DOMAIN config
      /\ \A s \in DOMAIN config \ {"aesKey"} : config'[s] = config[s]
  <2>1. "aesKey" \in DOMAIN config
    BY DEF SInv, Places, Defaults
  <2> QED
    BY <2>1 DEF SetupEncrypted
<1>2. UNCHANGED <<file, flags, GivenExcluded>> /\ \A s : Given(s)' = Given(s)
  BY <1>1, GivenStays
<1>3. Kept \cup {"excluded", "encrypted"} \subseteq DOMAIN config \ {"aesKey"}
  BY DEF SInv, Places, Kept, Defaults
<1>4. Places'
  BY <1>1, <1>2 DEF SInv, Places
<1>5. ConfigAsGiven'
  <2>1. \A s \in Kept : config'[s] = Given(s)'
    BY <1>1, <1>2, <1>3 DEF SInv, ConfigAsGiven, AfterFlags
  <2>2. config'.excluded = GivenExcluded'
    BY <1>1, <1>2, <1>3 DEF SInv, ConfigAsGiven, AfterFlags
  <2> QED
    BY <1>1, <2>1, <2>2 DEF ConfigAsGiven
<1>6. EncryptedAsGiven' /\ NamespacesJoined'
  BY <1>1, <1>2, <1>3 DEF SInv, EncryptedAsGiven, NamespacesJoined, Exporting
<1> QED
  BY <1>4, <1>5, <1>6

LEMMA Diffs ==
    ASSUME SInv, DiffEncrypted
    PROVE  Places' /\ ConfigAsGiven' /\ EncryptedAsGiven' /\ NamespacesJoined'
<1>1. /\ pc = "diff" /\ pc' \in {"list", "validate"} /\ UNCHANGED inputs
      /\ config'.encrypted = Diff(config.masked, config.encrypted)
      /\ DOMAIN config' = DOMAIN config
      /\ \A s \in DOMAIN config \ {"encrypted", "progress"} : config'[s] = config[s]
  <2>1. {"encrypted", "progress"} \subseteq DOMAIN config
    BY DEF SInv, Places, Defaults
  <2> QED
    BY <2>1 DEF DiffEncrypted
<1>2. UNCHANGED <<file, flags, GivenExcluded>> /\ \A s : Given(s)' = Given(s)
  BY <1>1, GivenStays
<1>3. Kept \cup {"excluded", "aesKey"} \subseteq DOMAIN config \ {"encrypted", "progress"}
  BY DEF SInv, Places, Kept, Defaults
<1>4. Places'
  BY <1>1, <1>2 DEF SInv, Places
<1>5. \A s \in Kept : config'[s] = Given(s)
  BY <1>1, <1>3 DEF SInv, ConfigAsGiven, AfterFlags
<1>6. ConfigAsGiven'
  <2>1. config'.excluded = GivenExcluded
    BY <1>1, <1>3 DEF SInv, ConfigAsGiven, AfterFlags
  <2> QED
    BY <1>1, <1>2, <1>5, <2>1 DEF ConfigAsGiven
<1>7. EncryptedAsGiven'
  <2>1. config'.encrypted = Diff(Given("masked"), Given("encrypted"))
    BY <1>1 DEF SInv, ConfigAsGiven, EncryptedAsGiven, AfterFlags, Kept
  <2>2. config'.masked = Given("masked")
    BY <1>5 DEF Kept
  <2>3. config'.aesKey \in ValidKeys \/ Given("encrypted") = <<>>
    BY <1>1, <1>3 DEF SInv, EncryptedAsGiven
  <2>4. Diff(Given("masked"), Given("encrypted"))' = Diff(Given("masked"), Given("encrypted"))
    BY <1>2 DEF Diff, DiffFields
  <2> QED
    BY <1>1, <1>2, <2>1, <2>2, <2>3, <2>4 DEF EncryptedAsGiven
<1> QED
  BY <1>1, <1>4, <1>6, <1>7 DEF NamespacesJoined

-----------------------------------------------------------------------------
(* Validate *)

\* Some order of a finite set has each element, and once.
LEMMA SetToSeqOrders ==
    ASSUME NEW S, IsFiniteSet(S)
    PROVE  /\ SetToSeq(S) \in [1 .. Cardinality(S) -> S]
           /\ IsInjective(SetToSeq(S))
           /\ ToSet(SetToSeq(S)) = S
<1>1. PICK f \in Bijection(1 .. Cardinality(S), S) : TRUE
  BY FS_CardinalityType DEF ExistsBijection
<1>2. f \in [1 .. Cardinality(S) -> S] /\ IsInjective(f)
  BY <1>1 DEF Bijection, Injection, IsInjective
<1>3. /\ SetToSeq(S) \in [1 .. Cardinality(S) -> S]
      /\ IsInjective(SetToSeq(S))
  BY <1>2 DEF SetToSeq
<1>4. SetToSeq(S) \in Injection(1 .. Cardinality(S), S)
  BY <1>3 DEF Injection, IsInjective
<1>5. Cardinality(S) \in Nat
  BY FS_CardinalityType
<1>6. IsFiniteSet(1 .. Cardinality(S)) /\ Cardinality(1 .. Cardinality(S)) = Cardinality(S)
  BY <1>5, FS_Interval
<1>7. SetToSeq(S) \in Surjection(1 .. Cardinality(S), S)
  BY <1>4, <1>6, FS_Injection
<1>8. ToSet(SetToSeq(S)) = S
  BY <1>3, <1>7 DEF Surjection, ToSet
<1> QED
  BY <1>3, <1>8

\* The namespaces of a sequence, trimmed, are all there after Normalize, and once.
LEMMA NormalizeJoins ==
    ASSUME NEW namespaces, NEW n \in Nat, DOMAIN namespaces = 1 .. n
    PROVE  /\ IsInjective(Normalize(namespaces))
           /\ ToSet(Normalize(namespaces)) = {Trim[ns] : ns \in ToSet(namespaces)}
<1> DEFINE S == {Trim[namespaces[i]] : i \in DOMAIN namespaces}
           f == [i \in 1 .. n |-> Trim[namespaces[i]]]
<1>1. f \in Surjection(1 .. n, S)
  BY DEF Surjection
<1>2. IsFiniteSet(S)
  BY <1>1, FS_NatSurjection DEF ExistsSurjection
<1>3. S = {Trim[ns] : ns \in ToSet(namespaces)}
  BY DEF ToSet
<1> QED
  BY <1>2, <1>3, SetToSeqOrders DEF Normalize

LEMMA GivenNamespaces ==
    ASSUME Places
    PROVE  Given("namespaces") \in Seq(DOMAIN Trim)
<1>1. "namespaces" \in DOMAIN Defaults /\ Defaults["namespaces"] = <<>>
  BY DEF Defaults
<1>2. <<>> \in Seq(DOMAIN Trim) /\ DOMAIN <<>> = {}
  BY EmptySeq
<1> QED
  BY <1>1, <1>2, GivenBySetting, ConfigAssumption DEF Places

LEMMA Validates ==
    ASSUME SInv, Validate
    PROVE  Places' /\ ConfigAsGiven' /\ EncryptedAsGiven' /\ NamespacesJoined'
<1> DEFINE joined == IF config.namespace = "none" THEN config.namespaces
                     ELSE Append(config.namespaces, config.namespace)
           Changed == {"namespace", "namespaces", "summary", "progress"}
<1>1. /\ pc = "validate" /\ pc' \in {"failed", "update"} /\ UNCHANGED inputs
      /\ config'.namespaces = IF joined = <<>> THEN EmptyNamespaces ELSE Normalize(joined)
      /\ DOMAIN config' = DOMAIN config
      /\ \A s \in DOMAIN config \ Changed : config'[s] = config[s]
  <2>1. Changed \subseteq DOMAIN config
    BY DEF SInv, Places, Defaults
  <2> QED
    BY <2>1 DEF Validate
<1>2. UNCHANGED <<file, flags, GivenExcluded>> /\ \A s : Given(s)' = Given(s)
  BY <1>1, GivenStays
<1>3. {"masked", "encrypted", "aesKey"} \subseteq DOMAIN config \ Changed
  BY DEF SInv, Places, Defaults
<1>4. Places'
  BY <1>1, <1>2 DEF SInv, Places
<1>5. ConfigAsGiven'
  BY <1>1 DEF ConfigAsGiven, AfterFlags, Exporting
<1>6. EncryptedAsGiven'
  <2>1. Diff(Given("masked"), Given("encrypted"))' = Diff(Given("masked"), Given("encrypted"))
    BY <1>2 DEF Diff, DiffFields
  <2> QED
    BY <1>1, <1>2, <1>3, <2>1 DEF SInv, EncryptedAsGiven, Exporting
<1>7. NamespacesJoined'
  <2>1. config.namespace = Given("namespace") /\ config.namespaces = Given("namespaces")
    BY <1>1 DEF SInv, ConfigAsGiven, AfterFlags, Kept
  <2> DEFINE wanted == ToSet(Given("namespaces"))
                         \cup (IF Given("namespace") = "none" THEN {} ELSE {Given("namespace")})
  <2>2. Given("namespaces") \in Seq(ToSet(Given("namespaces")))
    <3>1. Range(Given("namespaces")) = ToSet(Given("namespaces"))
      BY DEF Range, ToSet
    <3>2. Given("namespaces") \in Seq(DOMAIN Trim)
      BY GivenNamespaces DEF SInv
    <3> QED
      BY <3>1, <3>2, SeqOfRange
  <2>3. (\E m \in Nat : DOMAIN joined = 1 .. m) /\ ToSet(joined) = wanted
    <3>1. CASE Given("namespace") = "none"
      BY <2>1, <2>2, <3>1, LenProperties
    <3>2. CASE Given("namespace") # "none"
      <4>1. joined = Append(Given("namespaces"), Given("namespace"))
        BY <2>1, <3>2
      <4> DEFINE n == Len(Given("namespaces"))
      <4>2. n \in Nat /\ DOMAIN Given("namespaces") = 1 .. n
        BY <2>2, LenProperties
      <4>3. DOMAIN joined = 1 .. n + 1
        BY <2>2, <4>1, <4>2
      <4>4. \A i \in 1 .. n + 1 : joined[i] = IF i <= n THEN Given("namespaces")[i] ELSE Given("namespace")
        BY <2>2, <4>1, <4>2
      <4> HIDE DEF joined, n
      <4>5. ToSet(joined) = wanted
        <5>1. \A i \in 1 .. n : i \in 1 .. n + 1 /\ i <= n
          BY <4>2
        <5>2. n + 1 \in 1 .. n + 1 /\ ~ (n + 1 <= n)
          BY <4>2
        <5>3. \A i \in 1 .. n + 1 : i <= n => i \in 1 .. n
          BY <4>2
        <5> QED
          BY <3>2, <4>2, <4>3, <4>4, <5>1, <5>2, <5>3 DEF ToSet
      <4> QED
        BY <4>2, <4>3, <4>5
    <3> QED
      BY <3>1, <3>2
  <2>4. /\ \A ns \in wanted : Trim[ns] \in ToSet(config'.namespaces)
        /\ \A i, j \in DOMAIN config'.namespaces :
              config'.namespaces[i] = config'.namespaces[j] => i = j
    <3>1. CASE joined = <<>>
      <4>1. ToSet(joined) = {}
        BY <3>1 DEF ToSet
      <4>2. config'.namespaces = EmptyNamespaces
        BY <1>1, <3>1
      <4>3. wanted = {}
        BY <2>3, <4>1
      <4>4. \A i, j \in DOMAIN EmptyNamespaces : i = j
        BY OneNamespace
      <4> HIDE DEF wanted
      <4> QED
        BY <4>2, <4>3, <4>4
    <3>2. CASE joined # <<>>
      <4>1. config'.namespaces = Normalize(joined)
        BY <1>1, <3>2
      <4> HIDE DEF joined
      <4>2. IsInjective(Normalize(joined)) /\ ToSet(Normalize(joined)) = {Trim[ns] : ns \in wanted}
        BY <2>3, NormalizeJoins
      <4> QED
        BY <4>1, <4>2 DEF IsInjective
    <3> QED
      BY <3>1, <3>2
  <2> QED
    BY <1>2, <2>4 DEF NamespacesJoined
<1> QED
  BY <1>4, <1>5, <1>6, <1>7

-----------------------------------------------------------------------------
(* The selection *)

\* Steps that leave the whole configuration alone.
LEMMA ConfigStays ==
    ASSUME SInv, UNCHANGED <<inputs, config>>, pc' \in Exporting, pc \in Exporting
    PROVE  Places' /\ ConfigAsGiven' /\ EncryptedAsGiven' /\ NamespacesJoined'
<1>1. UNCHANGED <<file, flags, GivenExcluded>> /\ \A s : Given(s)' = Given(s)
  BY GivenStays
<1>2. Diff(Given("masked"), Given("encrypted"))' = Diff(Given("masked"), Given("encrypted"))
  BY <1>1 DEF Diff, DiffFields
<1>3. Places' /\ ConfigAsGiven'
  BY <1>1 DEF SInv, Places, ConfigAsGiven, AfterFlags, Exporting
<1>4. EncryptedAsGiven' /\ NamespacesJoined'
  BY <1>1, <1>2 DEF SInv, EncryptedAsGiven, NamespacesJoined, Exporting
<1> QED
  BY <1>3, <1>4

LEMMA SelectionStays ==
    ASSUME UNCHANGED config
    PROVE  /\ UNCHANGED Selected
           /\ \A i : IsInstanceExcluded(i)' = IsInstanceExcluded(i)
           /\ \A r, ns : Finds(r, ns)' = Finds(r, ns)
BY DEF Selected, IsInstanceExcluded, IsExcluded, HasNamespaces, Finds, NamespacesForResource

FoundBy(r, ns) ==
    {q \in DOMAIN NamespacesForResource(r) :
        ~ r.namespaced \/ NamespacesForResource(r)[q] \in {NoNamespace, ns}}

\* The queries for a kind: finitely many, and none that finds an instance twice when
\* no namespace is given twice.
LEMMA QueriesCount ==
    ASSUME SInv, pc \in Exporting, NEW r, NEW ns
    PROVE  /\ Finds(r, ns) \in Nat
           /\ Finds(r, ns) > 0 <=> FoundBy(r, ns) # {}
           /\ (\A p, q \in FoundBy(r, ns) : p = q) => Finds(r, ns) <= 1
<1> DEFINE queries == NamespacesForResource(r)
           found == FoundBy(r, ns)
<1>1. IsFiniteSet(DOMAIN queries)
  <2>1. CASE queries = EmptyNamespaces
    <3>1. DOMAIN queries = {1}
      BY <2>1, OneNamespace
    <3> QED
      BY <3>1, FS_Singleton
  <2>2. CASE queries = Given("namespaces")
    <3>1. Given("namespaces") \in Seq(DOMAIN Trim)
      BY GivenNamespaces DEF SInv
    <3>2. Len(queries) \in Nat /\ DOMAIN queries = 1 .. Len(queries)
      BY <2>2, <3>1, LenProperties
    <3> QED
      BY <3>2, FS_Interval
  <2> QED
    BY <2>1, <2>2 DEF NamespacesForResource, SInv, ConfigAsGiven, AfterFlags, Kept
<1>2. IsFiniteSet(found) /\ Finds(r, ns) = Cardinality(found)
  BY <1>1, FS_Subset DEF Finds, FoundBy
<1>3. Cardinality(found) \in Nat /\ (Cardinality(found) = 0 <=> found = {})
  BY <1>2, FS_CardinalityType, FS_EmptySet
<1>4. ASSUME \A p, q \in found : p = q, found # {}
      PROVE  Cardinality(found) = 1
  <2>1. \E q \in found : found = {q}
    BY <1>4
  <2> QED
    BY <2>1, <1>2, FS_Singleton
<1> QED
  BY <1>2, <1>3, <1>4

LEMMA Lists == ASSUME SInv, ListResources PROVE SInv'
<1>1. pc = "list" /\ pc' = "export" /\ UNCHANGED <<inputs, config>> /\ UNCHANGED times
  BY DEF ListResources
<1>2. resources' = Selected'
  BY <1>1, SelectionStays DEF ListResources
<1>3. TimesAsFound'
  BY <1>1, <1>2 DEF SInv, TimesAsFound
<1> QED
  BY <1>1, <1>3, ConfigStays DEF SInv, Exporting

LEMMA Exports == ASSUME SInv, ExportKind PROVE SInv'
<1>1. pc = "export" /\ pc' = "export" /\ UNCHANGED <<inputs, config>>
  BY DEF ExportKind, setupVars
<1>2. PICK r \in resources :
        /\ resources' = resources \ {r}
        /\ times' = [i \in Instances |-> IF i.kind = r.kind /\ ~ IsInstanceExcluded(i)
                                           THEN times[i] + Finds(r, i.ns) ELSE times[i]]
  BY DEF ExportKind
<1>3. resources \subseteq Selected /\ r \in Selected /\ r \in ApiResources
  BY <1>1 DEF SInv, TimesAsFound, Selected
<1>4. \A i : Finds(r, i.ns) \in Nat
  BY <1>1, QueriesCount DEF Exporting
<1>5. times \in [Instances -> Nat]
  BY DEF SInv, TimesAsFound
<1>6. times' \in [Instances -> Nat]
  BY <1>2, <1>4, <1>5
<1>7. ASSUME NEW i \in Instances, NEW s \in ApiResources, s.kind = i.kind
      PROVE  times'[i] = IF s \in Selected \ resources' /\ ~ IsInstanceExcluded(i)
                           THEN Finds(s, i.ns) ELSE 0
  <2>1. times[i] = IF s \in Selected \ resources /\ ~ IsInstanceExcluded(i)
                     THEN Finds(s, i.ns) ELSE 0
    BY <1>1, <1>7 DEF SInv, TimesAsFound
  <2>2. CASE s = r
    BY <1>2, <1>3, <1>4, <1>7, <2>1, <2>2
  <2>3. CASE s # r
    <3>1. i.kind # r.kind
      BY <1>3, <1>7, <2>3, SelectionAssumption
    <3> QED
      BY <1>2, <2>1, <2>3, <3>1
  <2> QED
    BY <2>2, <2>3
<1>8. TimesAsFound'
  <2>1. UNCHANGED <<Selected, config>>
    BY <1>1, SelectionStays
  <2> QED
    BY <1>1, <1>2, <1>3, <1>6, <1>7, <2>1, SelectionStays DEF TimesAsFound
<1> QED
  BY <1>1, <1>8, ConfigStays DEF SInv, Exporting

LEMMA EndsExport == ASSUME SInv, Exported PROVE SInv'
<1>1. pc = "export" /\ pc' = "exported" /\ resources = {} /\ UNCHANGED <<inputs, config, resources, times>>
  BY DEF Exported
<1>2. TimesAsFound'
  BY <1>1, SelectionStays DEF SInv, TimesAsFound
<1> QED
  BY <1>1, <1>2, ConfigStays DEF SInv, Exporting

LEMMA Stutters == ASSUME SInv, UNCHANGED vars PROVE SInv'
<1>1. UNCHANGED <<pc, inputs, config, resources, times>> /\ UNCHANGED <<file, flags>>
  BY DEF vars, setupVars, inputs
<1>2. UNCHANGED GivenExcluded /\ \A s : Given(s)' = Given(s)
  BY <1>1, GivenStays
<1>3. Diff(Given("masked"), Given("encrypted"))' = Diff(Given("masked"), Given("encrypted"))
  BY <1>2 DEF Diff, DiffFields
<1>4. Places' /\ ConfigAsGiven' /\ EncryptedAsGiven' /\ NamespacesJoined'
  BY <1>1, <1>2, <1>3 DEF SInv, Places, ConfigAsGiven, EncryptedAsGiven, NamespacesJoined
<1>5. TimesAsFound'
  BY <1>1, SelectionStays DEF SInv, TimesAsFound
<1> QED
  BY <1>4, <1>5 DEF SInv

THEOREM SetupInductive == Spec => []SInv
<1>1. SInv /\ [Next]_vars => SInv'
  <2> SUFFICES ASSUME SInv, [Next]_vars PROVE SInv'
    OBVIOUS
  <2>1. CASE Setup /\ UNCHANGED <<resources, times>>
    <3>1. Places' /\ ConfigAsGiven' /\ EncryptedAsGiven' /\ NamespacesJoined'
      BY <2>1, ReadsFile, ReadsFlags, SetsUpMasked, SetsUpEncrypted, Diffs, Validates DEF Setup
    <3> QED
      BY <2>1, <3>1, SetupKeepsTimes DEF SInv
  <2>2. CASE ListResources
    BY <2>2, Lists
  <2>3. CASE ExportKind
    BY <2>3, Exports
  <2>4. CASE Exported
    BY <2>4, EndsExport
  <2>5. CASE UNCHANGED vars
    BY <2>5, Stutters
  <2> QED
    BY <2>1, <2>2, <2>3, <2>4, <2>5 DEF Next
<1> QED
  BY <1>1, SInit, PTL DEF Spec

-----------------------------------------------------------------------------
(* What follows *)

\* The configuration never gets a setting that it does not have, and only kinds of the
\* cluster are exported.
THEOREM SelectionTypeCorrect == Spec => []SelectionTypeOK
<1>1. SInv => SelectionTypeOK
  BY DEF SInv, Places, TimesAsFound, SelectionTypeOK, Selected
<1> QED
  BY <1>1, SetupInductive, PTL

\* readConfig takes the masked fields out of those to be encrypted, and fails without a
\* key for the others: none of them is exported in clear.
THEOREM SecretsAreCovered == Spec => []SecretsCovered
<1>1. SInv => SecretsCovered
  <2> SUFFICES ASSUME SInv, pc \in Exporting \cup {"validate", "update"}, FieldPrefixes,
                      NEW kind \in DOMAIN Given("encrypted"), NEW e \in Given("encrypted")[kind]
               PROVE  \/ /\ config.aesKey \in ValidKeys
                         /\ kind \in DOMAIN config.encrypted /\ e \in config.encrypted[kind]
                      \/ /\ kind \in DOMAIN config.masked
                         /\ \E m \in config.masked[kind] : IsPrefix(m, e)
    BY DEF SecretsCovered, Exporting
  <2>1. /\ config.masked = Given("masked")
        /\ config.encrypted = Diff(Given("masked"), Given("encrypted"))
        /\ config.aesKey \in ValidKeys
    BY DEF SInv, EncryptedAsGiven, Exporting
  <2>2. CASE kind \notin DOMAIN Given("masked")
    BY <2>1, <2>2 DEF Diff
  <2>3. CASE /\ kind \in DOMAIN Given("masked")
             /\ e \in DiffFields(Given("masked")[kind], Given("encrypted")[kind])
    BY <2>1, <2>3 DEF Diff
  <2>4. CASE /\ kind \in DOMAIN Given("masked")
             /\ e \notin DiffFields(Given("masked")[kind], Given("encrypted")[kind])
    <3>1. PICK m \in Given("masked")[kind] : HasPrefix(Join(e, ";"), Join(m, ";"))
      BY <2>4 DEF DiffFields
    <3>2. IsPrefix(m, e)
      BY <2>4, <3>1 DEF FieldPrefixes
    <3> QED
      BY <2>1, <2>4, <3>2
  <2> QED
    BY <2>2, <2>3, <2>4
<1> QED
  BY <1>1, SetupInductive, PTL

\* normalizeNamespaces joins both settings, each namespace once and without blanks.
THEOREM NamespacesAreJoined == Spec => []NamespacesJoined
<1>1. SInv => NamespacesJoined
  BY DEF SInv
<1> QED
  BY <1>1, SetupInductive, PTL

\* The kinds that are not excluded are the ones that file and flags ask for.
LEMMA KindsAsWanted ==
    ASSUME SInv, pc \in Exporting, NEW kind
    PROVE  IsExcluded(kind) <=> ~ WantedKind(kind)
<1>1. config.included = Given("included") /\ config.excluded = GivenExcluded
  BY DEF SInv, ConfigAsGiven, AfterFlags, Kept
<1> QED
  BY <1>1 DEF IsExcluded, WantedKind, GivenExcluded

\* The instances that are left out are the ones nobody asks for.
LEMMA InstancesAsWanted ==
    ASSUME SInv, pc \in Exporting, NEW i
    PROVE  ~ IsInstanceExcluded(i) <=>
              /\ Given("owners") => \A kind \in i.owners : WantedKind(kind)
              /\ Given("createdWithin") => ~ i.old
              /\ \A kv \in Given("byField") : ~ (kv[1] = i.kind /\ kv[2] \in i.values)
<1>1. /\ config.owners = Given("owners") /\ config.createdWithin = Given("createdWithin")
      /\ config.byField = Given("byField")
  BY DEF SInv, ConfigAsGiven, AfterFlags, Kept
<1>2. \A kind \in i.owners : IsExcluded(kind) <=> ~ WantedKind(kind)
  BY KindsAsWanted
<1> QED
  BY <1>1, <1>2 DEF IsInstanceExcluded

\* A query finds the instances of the namespaces that were given.
LEMMA QueriesAsWanted ==
    ASSUME SInv, pc \in Exporting, NEW r, NEW ns, r.namespaced <=> ns # NoNamespace
    PROVE  /\ HasNamespaces <=> ToSet(Given("namespaces")) # {}
           /\ FoundBy(r, ns) # {} <=>
                  (ns # NoNamespace => \/ ToSet(Given("namespaces")) = {}
                             \/ {NoNamespace, ns} \cap ToSet(Given("namespaces")) # {})
<1> DEFINE given == Given("namespaces")
<1>1. config.namespaces = given
  BY DEF SInv, ConfigAsGiven, AfterFlags, Kept
<1>2. HasNamespaces <=> ToSet(given) # {}
  <2>1. given \in Seq(DOMAIN Trim)
    BY GivenNamespaces DEF SInv
  <2>2. given # <<>> => 1 \in DOMAIN given
    BY <2>1, EmptySeq, LenProperties
  <2>3. given = <<>> => DOMAIN given = {}
    BY NoSettings
  <2> QED
    BY <1>1, <2>2, <2>3 DEF HasNamespaces, ToSet
<1>3. CASE r.namespaced /\ HasNamespaces
  <2>1. NamespacesForResource(r) = given
    BY <1>1, <1>3 DEF NamespacesForResource
  <2>2. FoundBy(r, ns) = {q \in DOMAIN given : given[q] \in {NoNamespace, ns}}
    BY <1>3, <2>1 DEF FoundBy
  <2>3. FoundBy(r, ns) # {} <=> {NoNamespace, ns} \cap ToSet(given) # {}
    BY <2>2 DEF ToSet
  <2> QED
    BY <1>2, <1>3, <2>3
<1>4. CASE ~ (r.namespaced /\ HasNamespaces)
  <2>1. NamespacesForResource(r) = EmptyNamespaces
    BY <1>4 DEF NamespacesForResource
  <2>2. 1 \in FoundBy(r, ns)
    BY <2>1, OneNamespace DEF FoundBy
  <2> QED
    BY <1>2, <1>4, <2>2
<1> QED
  BY <1>2, <1>3, <1>4

\* What file and flags ask for is exported, whatever the order of the kinds, and nothing
\* else: the flags replace the settings of the file, the cluster's kinds have no
\* namespace, and an instance goes with its owners.
THEOREM SelectionIsExported == Spec => []ExportsTheSelection
<1>1. SInv => ExportsTheSelection
  <2> SUFFICES ASSUME SInv, pc = "exported", NEW i \in Instances
               PROVE  times[i] > 0 <=> Wanted(i, ToSet(Given("namespaces")))
    BY DEF ExportsTheSelection
  <2>1. PICK r \in ApiResources : r.kind = i.kind /\ (r.namespaced <=> i.ns # NoNamespace)
    BY SelectionAssumption
  <2>2. \A s \in ApiResources : s.kind = i.kind => s = r
    BY <2>1, SelectionAssumption
  <2>3. pc \in Exporting
    BY DEF Exporting
  <2>4. resources = {}
    BY DEF SInv, TimesAsFound
  <2>5. times[i] = IF r \in Selected /\ ~ IsInstanceExcluded(i) THEN Finds(r, i.ns) ELSE 0
    BY <2>1, <2>4 DEF SInv, TimesAsFound
  <2>6. times[i] > 0 <=> r \in Selected /\ ~ IsInstanceExcluded(i) /\ FoundBy(r, i.ns) # {}
    BY <2>3, <2>5, QueriesCount
  <2>7. config.incCluster = Given("incCluster")
    BY <2>3 DEF SInv, ConfigAsGiven, AfterFlags, Kept
  <2>8. r \in Selected <=> /\ r.list /\ WantedKind(i.kind)
                           /\ ~ r.namespaced /\ ToSet(Given("namespaces")) # {} => Given("incCluster")
    BY <2>1, <2>3, <2>7, KindsAsWanted, QueriesAsWanted DEF Selected
  <2>9. r.list <=> \E s \in ApiResources : s.kind = i.kind /\ s.list
    BY <2>1, <2>2
  <2> QED
    BY <2>1, <2>3, <2>6, <2>8, <2>9, InstancesAsWanted, QueriesAsWanted DEF Wanted
<1> QED
  BY <1>1, SetupInductive, PTL

\* An instance is found by one query of one kind, and each kind is queried by one worker,
\* at any time of the export.
THEOREM EachIsExportedOnce == Spec => []ExportedOnce
<1>1. SInv => ExportedOnce
  <2> SUFFICES ASSUME SInv, IsInjective(Given("namespaces")), NoNamespace \notin ToSet(Given("namespaces")),
                      NEW i \in Instances
               PROVE  times[i] <= 1
    BY DEF ExportedOnce
  <2>1. CASE pc \notin {"export", "exported"}
    BY <2>1 DEF SInv, TimesAsFound
  <2>2. CASE pc \in {"export", "exported"}
    <3>1. PICK r \in ApiResources : r.kind = i.kind
      BY SelectionAssumption
    <3>2. times[i] = 0 \/ times[i] = Finds(r, i.ns)
      BY <2>2, <3>1 DEF SInv, TimesAsFound
    <3>3. \A p, q \in FoundBy(r, i.ns) : p = q
      <4>1. CASE NamespacesForResource(r) = EmptyNamespaces
        BY <4>1, OneNamespace DEF FoundBy
      <4>2. CASE r.namespaced /\ NamespacesForResource(r) = Given("namespaces")
        <5>1. \A q \in DOMAIN Given("namespaces") : Given("namespaces")[q] # NoNamespace
          BY DEF ToSet
        <5>2. FoundBy(r, i.ns) = {q \in DOMAIN Given("namespaces") : Given("namespaces")[q] = i.ns}
          BY <4>2, <5>1 DEF FoundBy
        <5> QED
          BY <5>2 DEF IsInjective
      <4> QED
        BY <2>2, <4>1, <4>2 DEF NamespacesForResource, SInv, ConfigAsGiven, AfterFlags, Exporting, Kept
    <3> QED
      BY <2>2, <3>2, <3>3, QueriesCount DEF Exporting
  <2> QED
    BY <2>1, <2>2
<1> QED
  BY <1>1, SetupInductive, PTL
=============================================================================
