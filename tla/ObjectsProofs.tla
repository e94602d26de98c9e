----------------------------- MODULE ObjectsProofs -----------------------------
(***************************************************************************)
(* Lemmas about objects and the functions that change them, for any        *)
(* object, fields and keys: what stays well formed, which texts and keys   *)
(* an object has after its fields were encrypted, decrypted or removed.    *)
(***************************************************************************)
EXTENDS Objects, SequenceTheorems, FiniteSetTheorems, TLAPS

(***************************************************************************)
(* A set of natural numbers has a least element: the finite sets 0 .. n-1  *)
(* have no infinite descending chain.  It replaces induction, which needs  *)
(* a theorem with an operator as its parameter.                            *)
(***************************************************************************)
LEMMA LeastOf == ASSUME NEW S \in SUBSET Nat, S # {} PROVE \E n \in S : \A m \in S : n <= m
<1> DEFINE below(n) == 0 .. n - 1
           T == {below(n) : n \in S}
           R == StrictSubsetOrdering(Nat)
<1>1. IsWellFoundedOn(R, FiniteSubsetsOf(Nat))
  BY FS_StrictSubsetOrderingWellFounded
<1>2. T \subseteq FiniteSubsetsOf(Nat)
  <2>1. SUFFICES ASSUME NEW n \in S PROVE below(n) \in FiniteSubsetsOf(Nat)
    OBVIOUS
  <2>2. IsFiniteSet(below(n))
    BY FS_Interval
  <2>3. below(n) \subseteq Nat
    OBVIOUS
  <2> QED
    BY <2>2, <2>3 DEF FiniteSubsetsOf
<1>3. T # {}
  OBVIOUS
<1>4. PICK x \in T : \A y \in T : ~ (<<y, x>> \in R)
  <2> HIDE DEF R, T
  <2> QED
    BY <1>1, <1>2, <1>3, WFMin
<1>5. PICK n \in S : x = below(n)
  BY <1>4
<1>6. ASSUME NEW m \in S, m < n PROVE FALSE
  <2>1. below(m) \in T /\ below(m) \subseteq Nat /\ below(n) \subseteq Nat
    OBVIOUS
  <2>2. below(m) \subseteq below(n) /\ m \in below(n) /\ m \notin below(m)
    BY <1>6
  <2>3. <<below(m), below(n)>> \in R
    BY <2>1, <2>2 DEF StrictSubsetOrdering
  <2> QED
    BY <2>1, <2>3, <1>4, <1>5
<1> QED
  BY <1>6
-----------------------------------------------------------------------------
(* Paths *)

\* The path above a path.
LEMMA FrontShape ==
    ASSUME NEW S, NEW q \in Seq(S), q # <<>>
    PROVE  /\ Front(q) \in Seq(S) /\ Last(q) \in S
           /\ Len(q) \in Nat \ {0} /\ Len(Front(q)) = Len(q) - 1
           /\ \A i \in 1 .. Len(q) - 1 : Front(q)[i] = q[i]
<1>1. Len(q) \in Nat \ {0}
  BY LenProperties, EmptySeq
<1>2. \A i \in 1 .. Len(q) - 1 : q[i] \in S
  BY <1>1, ElementOfSeq
<1>3. q[Len(q)] \in S
  BY <1>1, ElementOfSeq
<1>4. PICK n \in Int : n = Len(q) - 1
  BY <1>1
<1>5. /\ SubSeq(q, 1, n) \in Seq(S)
      /\ Len(SubSeq(q, 1, n)) = n
      /\ \A i \in 1 .. n : SubSeq(q, 1, n)[i] = q[i]
  <2>0. 1 \in Int /\ \A i \in 1 .. n : q[i] \in S
    BY <1>2, <1>4
  <2>1. /\ SubSeq(q, 1, n) \in Seq(S)
        /\ Len(SubSeq(q, 1, n)) = IF 1 <= n THEN n - 1 + 1 ELSE 0
        /\ \A i \in 1 .. n - 1 + 1 : SubSeq(q, 1, n)[i] = q[1 + i - 1]
    BY <2>0, SubSeqProperties
  <2>2. n >= 0
    BY <1>1, <1>4
  <2> QED
    BY <2>1, <2>2
<1> QED
  BY <1>1, <1>3, <1>4, <1>5 DEF Front, Last

\* What a prefix is, step by step.
LEMMA PrefixSteps ==
    ASSUME NEW S, NEW p \in Seq(S), NEW q \in Seq(S)
    PROVE  IsPrefix(p, q) <=> Len(p) <= Len(q) /\ \A i \in 1 .. Len(p) : p[i] = q[i]
<1>1. Len(p) \in Nat /\ Len(q) \in Nat
  BY LenProperties
<1>2. SubSeq(p, 1, Len(p)) = p
  BY SubSeqFull
<1>3. CASE Len(p) <= Len(q)
  <2>1. \A i \in 1 .. Len(p) : q[i] \in S
    BY <1>1, <1>3, ElementOfSeq
  <2>2. /\ SubSeq(q, 1, Len(p)) \in Seq(S) /\ Len(SubSeq(q, 1, Len(p))) = Len(p)
        /\ \A i \in 1 .. Len(p) : SubSeq(q, 1, Len(p))[i] = q[i]
    BY <1>1, <1>3, <2>1, SubSeqProperties
  <2>3. SubSeq(q, 1, Len(p)) = p <=> \A i \in 1 .. Len(p) : p[i] = q[i]
    BY <2>2, <1>1, SeqEqual
  <2> QED
    BY <1>2, <1>3, <2>3 DEF IsPrefix
<1> QED
  BY <1>1, <1>3 DEF IsPrefix

\* A path is below another one if the path above it is, or is that path.
LEMMA StrictPrefix ==
    ASSUME NEW S, NEW p \in Seq(S), NEW q \in Seq(S)
    PROVE  /\ IsPrefix(p, p)
           /\ IsStrictPrefix(p, q) <=> q # <<>> /\ IsPrefix(p, Front(q))
<1>1. Len(p) \in Nat /\ Len(q) \in Nat /\ (q = <<>> <=> Len(q) = 0)
  BY LenProperties, EmptySeq
<1>2. IsPrefix(p, p)
  BY <1>1, PrefixSteps
<1>3. CASE q = <<>>
  <2>1. IsPrefix(p, q) => Len(p) = 0
    <3>1. IsPrefix(p, q) => Len(p) <= Len(q)
      BY PrefixSteps
    <3> QED
      BY <1>1, <1>3, <3>1
  <2>2. Len(p) = 0 => p = <<>>
    BY EmptySeq
  <2> QED
    BY <1>2, <1>3, <2>1, <2>2 DEF IsStrictPrefix
<1>4. CASE q # <<>>
  <2>1. /\ Front(q) \in Seq(S) /\ Len(Front(q)) = Len(q) - 1 /\ Len(q) \in Nat \ {0}
        /\ \A i \in 1 .. Len(q) - 1 : Front(q)[i] = q[i]
    BY <1>4, FrontShape
  <2>2. ASSUME IsPrefix(p, Front(q)) PROVE IsPrefix(p, q) /\ p # q
    <3>1. Len(p) <= Len(Front(q)) /\ \A i \in 1 .. Len(p) : p[i] = Front(q)[i]
      BY <2>1, <2>2, PrefixSteps
    <3>2. Len(p) <= Len(q) /\ Len(p) # Len(q) /\ \A i \in 1 .. Len(p) : p[i] = q[i]
      BY <1>1, <2>1, <3>1
    <3> QED
      BY <3>2, PrefixSteps
  <2>3. ASSUME IsPrefix(p, q), p # q PROVE IsPrefix(p, Front(q))
    <3>1. Len(p) <= Len(q) /\ \A i \in 1 .. Len(p) : p[i] = q[i]
      BY <2>3, PrefixSteps
    <3>2. Len(p) # Len(q)
      BY <3>1, <2>3, SeqEqual
    <3> QED
      BY <1>1, <2>1, <3>1, <3>2, PrefixSteps, SMTT(30)
  <2> QED
    BY <1>2, <1>4, <2>2, <2>3 DEF IsStrictPrefix
<1> QED
  BY <1>3, <1>4
\* A path and a last step.
LEMMA FrontOfAppended ==
    ASSUME NEW S, NEW p \in Seq(S), NEW x \in S
    PROVE  p \o <<x>> \in Seq(S) /\ p \o <<x>> # <<>> /\ Front(p \o <<x>>) = p /\ Last(p \o <<x>>) = x
<1> DEFINE q == p \o <<x>>
<1>1. <<x>> \in Seq(S) /\ Len(<<x>>) = 1 /\ Len(p) \in Nat
  BY LenProperties
<1>2. /\ q \in Seq(S) /\ Len(q) = Len(p) + 1
      /\ \A i \in 1 .. Len(q) : q[i] = IF i <= Len(p) THEN p[i] ELSE <<x>>[i - Len(p)]
  BY <1>1, ConcatProperties
<1> HIDE DEF q
<1>3. q # <<>>
  BY <1>1, <1>2, EmptySeq
<1>4. /\ Front(q) \in Seq(S) /\ Len(Front(q)) = Len(q) - 1
      /\ \A i \in 1 .. Len(q) - 1 : Front(q)[i] = q[i]
  BY <1>2, <1>3, FrontShape
<1>5. Front(q) = p
  <2>1. Len(Front(q)) = Len(p) /\ \A i \in 1 .. Len(Front(q)) : Front(q)[i] = p[i]
    BY <1>1, <1>2, <1>4
  <2> QED
    BY <1>4, <2>1, SeqEqual
<1>6. Last(q) = x
  <2>1. q[Len(q)] = <<x>>[1]
    BY <1>1, <1>2
  <2> QED
    BY <2>1 DEF Last
<1> QED
  BY <1>2, <1>3, <1>5, <1>6 DEF q
-----------------------------------------------------------------------------
(* Objects *)

\* The steps to the elements of a list.
LEMMA PositionsShape ==
    /\ Len(Index) \in Nat /\ DOMAIN Index = 1 .. Len(Index)
    /\ Positions \subseteq STRING
    /\ \A i \in 2 .. Len(Index) : i - 1 \in DOMAIN Index /\ Index[i] \in Positions /\ Index[i - 1] \in Positions
<1>1. Len(Index) \in Nat /\ DOMAIN Index = 1 .. Len(Index)
  BY IndexAssumption, LenProperties
<1>2. \A i \in DOMAIN Index : Index[i] \in STRING
  BY <1>1, IndexAssumption, ElementOfSeq
<1> QED
  BY <1>1, <1>2 DEF Positions

IsNode(node) == node = [kind |-> node.kind, text |-> node.text, key |-> node.key]

\* What is above a path of an object is a map, or a list of which it is a position.
LEMMA AboveIsThere ==
    ASSUME NEW o, WellFormed(o), NEW q \in DOMAIN o \ {<<>>}
    PROVE  /\ q \in Seq(STRING) /\ Front(q) \in Seq(STRING) /\ Last(q) \in STRING
           /\ Front(q) \in DOMAIN o /\ ~ IsScalar(o[Front(q)])
           /\ o[Front(q)].kind = IF Last(q) \in Positions THEN "list" ELSE "map"
<1>1. q \in Seq(STRING) /\ q # <<>>
  BY DEF WellFormed
<1>2. Front(q) \in Seq(STRING) /\ Last(q) \in STRING
  BY <1>1, FrontShape
<1>3. Kind(o, Front(q)) = IF Last(q) \in Positions THEN "list" ELSE "map"
  BY DEF WellFormed
<1>4. Front(q) \in DOMAIN o /\ Kind(o, Front(q)) = o[Front(q)].kind
  BY <1>3 DEF Kind
<1> QED
  BY <1>1, <1>2, <1>3, <1>4 DEF IsScalar

\* Whatever is above a path of an object, at any distance, is no scalar.
LEMMA AboveIsNoScalar ==
    ASSUME NEW o, WellFormed(o), NEW p \in Seq(STRING), NEW q \in DOMAIN o, IsStrictPrefix(p, q)
    PROVE  p \in DOMAIN o /\ ~ IsScalar(o[p])
<1> DEFINE below == {r \in DOMAIN o : IsStrictPrefix(p, r)}
           lengths == {Len(r) : r \in below}
<1>1. lengths \in SUBSET Nat /\ lengths # {}
  <2>1. \A r \in below : Len(r) \in Nat
    BY LenProperties DEF WellFormed
  <2> QED
    BY <2>1
<1>2. PICK n \in lengths : \A m \in lengths : n <= m
  <2> HIDE DEF lengths
  <2> QED
    BY <1>1, LeastOf
<1>3. PICK r \in below : Len(r) = n
  OBVIOUS
<1>4. r \in Seq(STRING) /\ r # <<>> /\ IsPrefix(p, Front(r))
  <2>1. r \in Seq(STRING)
    BY DEF WellFormed
  <2> QED
    BY <2>1, StrictPrefix
<1>5. /\ Front(r) \in DOMAIN o /\ ~ IsScalar(o[Front(r)])
      /\ Len(r) \in Nat /\ Len(Front(r)) = Len(r) - 1
  BY <1>4, AboveIsThere, FrontShape
<1>6. p = Front(r)
  <2>1. SUFFICES ASSUME p # Front(r) PROVE FALSE
    OBVIOUS
  <2>2. Front(r) \in below
    BY <1>4, <1>5, <2>1 DEF IsStrictPrefix
  <2>3. n <= Len(Front(r))
    BY <1>2, <2>2
  <2> QED
    BY <1>3, <1>5, <2>3
<1> QED
  BY <1>5, <1>6
-----------------------------------------------------------------------------
(* Transforming a field *)

\* The targets are paths of the object, and not the object itself.
LEMMA TargetsAreThere ==
    ASSUME NEW o, NEW field
    PROVE  Transformed(o, field) \subseteq DOMAIN o \ {<<>>}
BY DEF Transformed, ReachedBy, Reaches

\* An object whose targets became scalars is well formed: what was below them is gone.
LEMMA TransformKeepsWellFormed ==
    ASSUME NEW o, WellFormed(o), NEW field, NEW new,
           \A t \in Transformed(o, field) :
               IsNode(new[t]) /\ IsScalar(new[t]) /\ (new[t].key # "none" => new[t].kind = "string")
    PROVE  WellFormed(TransformNestedField(o, field, new))
<1> DEFINE targets == Transformed(o, field)
           kept == {q \in DOMAIN o : ~ \E t \in targets : IsStrictPrefix(t, q)}
           r == TransformNestedField(o, field, new)
<1>1. /\ DOMAIN r = kept
      /\ \A q \in kept : r[q] = IF q \in targets THEN new[q] ELSE o[q]
  BY DEF TransformNestedField
<1>2. targets \subseteq DOMAIN o \ {<<>>} /\ kept \subseteq DOMAIN o /\ DOMAIN o \subseteq Seq(STRING)
  BY TargetsAreThere DEF WellFormed
<1>3. <<>> \in kept
  <2>1. <<>> \in DOMAIN o
    BY DEF WellFormed, Kind
  <2>2. \A t \in targets : ~ IsStrictPrefix(t, <<>>)
    BY <1>2, EmptySeq, StrictPrefix
  <2> QED
    BY <2>1, <2>2
<1> HIDE DEF r, targets
<1>4. ASSUME NEW q \in kept \ {<<>>}
      PROVE  /\ Front(q) \in kept \ targets
             /\ \A s \in DOMAIN o : s # <<>> /\ Front(s) = Front(q) => s \in kept
  <2>1. q \in Seq(STRING) /\ q # <<>> /\ Front(q) \in DOMAIN o
    BY <1>2, AboveIsThere
  <2>2. \A t \in targets : ~ IsPrefix(t, Front(q))
    BY <1>2, <2>1, StrictPrefix
  <2>3. Front(q) \in kept \ targets
    BY <1>2, <2>1, <2>2, StrictPrefix DEF IsStrictPrefix
  <2>4. ASSUME NEW s \in DOMAIN o, s # <<>>, Front(s) = Front(q) PROVE s \in kept
    BY <1>2, <2>2, <2>4, StrictPrefix
  <2> QED
    BY <2>3, <2>4
<1>5. Kind(r, <<>>) = "map"
  BY <1>1, <1>2, <1>3 DEF WellFormed, Kind
<1>6. ASSUME NEW q \in kept \ {<<>>}
      PROVE  IF Last(q) \in Positions
               THEN /\ Kind(r, Front(q)) = "list"
                    /\ \A i \in 2 .. Len(Index) :
                          Last(q) = Index[i] => Front(q) \o <<Index[i - 1]>> \in DOMAIN r
               ELSE Kind(r, Front(q)) = "map"
  <2>1. q \in DOMAIN o \ {<<>>} /\ Front(q) \in DOMAIN o /\ Front(q) \in kept \ targets
    BY <1>2, <1>4, AboveIsThere
  <2>2. Kind(r, Front(q)) = o[Front(q)].kind
    BY <1>1, <2>1 DEF Kind
  <2>3. CASE Last(q) \notin Positions
    BY <2>1, <2>2, <2>3, AboveIsThere
  <2>4. CASE Last(q) \in Positions
    <3>1. Kind(r, Front(q)) = "list"
      BY <2>1, <2>2, <2>4, AboveIsThere
    <3>2. ASSUME NEW i \in 2 .. Len(Index), Last(q) = Index[i]
          PROVE  Front(q) \o <<Index[i - 1]>> \in DOMAIN r
      <4> DEFINE s == Front(q) \o <<Index[i - 1]>>
      <4>1. s \in DOMAIN o
        BY <2>1, <2>4, <3>2 DEF WellFormed
      <4>2. Index[i - 1] \in Positions
        BY PositionsShape
      <4>3. Front(q) \in Seq(STRING \cup Positions)
        BY <2>1, AboveIsThere, SeqMonotonic
      <4>4. s # <<>> /\ Front(s) = Front(q)
        BY <4>2, <4>3, FrontOfAppended
      <4> QED
        BY <1>1, <1>4, <4>1, <4>4
    <3> QED
      BY <2>4, <3>1, <3>2
  <2> QED
    BY <2>3, <2>4
<1>7. ASSUME NEW q \in kept
      PROVE  /\ r[q] = [kind |-> r[q].kind, text |-> r[q].text, key |-> r[q].key]
             /\ r[q].key # "none" => r[q].kind = "string"
             /\ r[q].kind \in {"map", "list"} => r[q].text = {}
  BY <1>1, <1>2 DEF WellFormed, IsNode, IsScalar, targets
<1>8. DOMAIN r \subseteq Seq(STRING)
  BY <1>1, <1>2
<1> QED
  BY <1>1, <1>5, <1>6, <1>7, <1>8 DEF WellFormed, r
-----------------------------------------------------------------------------
(* Removing a field *)

\* What is kept of an object whose fields were removed.
LEMMA RemoveKeepsWellFormed ==
    ASSUME NEW o, WellFormed(o), NEW field
    PROVE  LET r == RemoveNestedField(o, field) IN
           /\ WellFormed(r)
           /\ DOMAIN r \subseteq DOMAIN o
           /\ \A q \in DOMAIN r : r[q] = o[q]
           /\ \A q \in DOMAIN o : q \in DOMAIN r <=> ~ \E p \in ReachedBy(o, field) : IsPrefix(p, q)
<1> DEFINE reached == ReachedBy(o, field)
           kept == {q \in DOMAIN o : ~ \E p \in reached : IsPrefix(p, q)}
           r == RemoveNestedField(o, field)
<1>1. DOMAIN r = kept /\ \A q \in kept : r[q] = o[q]
  BY DEF RemoveNestedField, Under
<1>2. /\ \A p \in reached : p \in DOMAIN o \ {<<>>} /\ Last(p) \notin Positions
      /\ DOMAIN o \subseteq Seq(STRING)
  BY DEF ReachedBy, Reaches, WellFormed
<1> HIDE DEF r, reached
<1>3. <<>> \in kept
  <2>1. <<>> \in DOMAIN o
    BY DEF WellFormed, Kind
  <2>2. ASSUME NEW p \in reached PROVE ~ IsPrefix(p, <<>>)
    <3>1. p \in Seq(STRING) /\ <<>> \in Seq(STRING) /\ p # <<>>
      BY <1>2, EmptySeq
    <3>2. Len(p) \in Nat \ {0} /\ Len(<<>>) = 0
      BY <3>1, EmptySeq
    <3> QED
      BY <3>2 DEF IsPrefix
  <2> QED
    BY <2>1, <2>2
<1>4. ASSUME NEW q \in kept \ {<<>>} PROVE Front(q) \in kept
  <2>1. q \in Seq(STRING) /\ q # <<>> /\ Front(q) \in DOMAIN o
    BY <1>2, AboveIsThere
  <2>2. \A p \in reached : IsPrefix(p, Front(q)) => IsPrefix(p, q)
    BY <1>2, <2>1, StrictPrefix DEF IsStrictPrefix
  <2> QED
    BY <2>1, <2>2
<1>5. Kind(r, <<>>) = "map"
  BY <1>1, <1>3 DEF WellFormed, Kind
<1>6. ASSUME NEW q \in kept \ {<<>>}
      PROVE  IF Last(q) \in Positions
               THEN /\ Kind(r, Front(q)) = "list"
                    /\ \A i \in 2 .. Len(Index) :
                          Last(q) = Index[i] => Front(q) \o <<Index[i - 1]>> \in DOMAIN r
               ELSE Kind(r, Front(q)) = "map"
  <2>1. q \in DOMAIN o \ {<<>>} /\ Front(q) \in DOMAIN o /\ Front(q) \in kept
    BY <1>4, AboveIsThere
  <2>2. Kind(r, Front(q)) = o[Front(q)].kind
    BY <1>1, <2>1 DEF Kind
  <2>3. ASSUME Last(q) \in Positions, NEW i \in 2 .. Len(Index), Last(q) = Index[i]
        PROVE  Front(q) \o <<Index[i - 1]>> \in DOMAIN r
    <3> DEFINE s == Front(q) \o <<Index[i - 1]>>
    <3>1. s \in DOMAIN o
      BY <2>1, <2>3 DEF WellFormed
    <3>2. Index[i - 1] \in Positions
      BY PositionsShape
    <3>3. Front(q) \in Seq(STRING \cup Positions)
      BY <2>1, AboveIsThere, SeqMonotonic
    <3>4. s # <<>> /\ Front(s) = Front(q) /\ Last(s) \in Positions
      BY <3>2, <3>3, FrontOfAppended
    <3> HIDE DEF s
    <3>5. ASSUME NEW p \in reached, IsPrefix(p, s) PROVE FALSE
      <4>1. p \in Seq(STRING) /\ s \in Seq(STRING) /\ p # s /\ q \in Seq(STRING)
        BY <1>2, <2>1, <3>1, <3>4
      <4>2. IsPrefix(p, Front(s))
        BY <4>1, <3>5, StrictPrefix DEF IsStrictPrefix
      <4>3. IsPrefix(p, q)
        BY <4>1, <4>2, <2>1, <3>4, StrictPrefix DEF IsStrictPrefix
      <4> QED
        BY <4>3
    <3> QED
      BY <1>1, <3>1, <3>5 DEF s
  <2> QED
    BY <2>1, <2>2, <2>3, AboveIsThere
<1>7. /\ DOMAIN r \subseteq Seq(STRING)
      /\ \A q \in kept :
            /\ r[q] = [kind |-> r[q].kind, text |-> r[q].text, key |-> r[q].key]
            /\ r[q].key # "none" => r[q].kind = "string"
            /\ r[q].kind \in {"map", "list"} => r[q].text = {}
  BY <1>1, <1>2 DEF WellFormed
<1>8. WellFormed(r)
  BY <1>1, <1>5, <1>6, <1>7 DEF WellFormed
<1> QED
  BY <1>1, <1>8 DEF r, reached
-----------------------------------------------------------------------------
(* Encryption *)

\* A value that encryption is done with: it is encrypted, or there is nothing in it.
Secured(node) == node.kind = "string" /\ (node.key # "none" \/ node.text = {})

\* What encryption makes of one value.
LEMMA EncryptedNode ==
    ASSUME NEW o, WellFormed(o), NEW p \in DOMAIN o, NEW aesKey
    PROVE  LET n == DoEncrypt(o, p, aesKey) IN
           /\ IsNode(n) /\ n.kind = "string"
           /\ n.key \in {o[p].key, aesKey}
           /\ o[p].key # "none" => n.key = o[p].key
           /\ IsScalar(o[p]) => n.text = o[p].text
           /\ aesKey # "none" => Secured(n)
           /\ Secured(o[p]) => n.key = o[p].key
<1>1. o[p] = [kind |-> o[p].kind, text |-> o[p].text, key |-> o[p].key]
  BY DEF WellFormed
<1>2. /\ o[p].key # "none" => IsScalar(o[p])
      /\ IsScalar(o[p]) /\ o[p].key = "none" => Printed(o, p) = o[p].text
      /\ ~ IsScalar(o[p]) => Printed(o, p) # {}
  <2>1. o[p].key # "none" => o[p].kind = "string"
    BY DEF WellFormed
  <2> QED
    BY <2>1 DEF IsScalar, Printed, Shown
<1> DEFINE n == DoEncrypt(o, p, aesKey)
<1>3. CASE o[p].key # "none" \/ Printed(o, p) = {}
  <2>1. n = [o[p] EXCEPT !.kind = "string"]
    BY <1>3 DEF DoEncrypt
  <2>2. n = [kind |-> "string", text |-> o[p].text, key |-> o[p].key]
    BY <1>1, <2>1
  <2> HIDE DEF n
  <2>3. Secured(n)
    BY <1>2, <1>3, <2>2 DEF Secured
  <2> QED
    BY <2>2, <2>3 DEF IsNode, n
<1>4. CASE ~ (o[p].key # "none" \/ Printed(o, p) = {})
  <2>1. n = [kind |-> "string", text |-> Printed(o, p), key |-> aesKey]
    BY <1>4 DEF DoEncrypt
  <2> HIDE DEF n
  <2> QED
    BY <1>2, <1>4, <2>1 DEF IsNode, Secured, IsScalar, n
<1> QED
  BY <1>3, <1>4

\* What an object that is encrypted, in however many steps, has to do with what it was:
\* no key is replaced, no text of a scalar changes, and a map or list is what it was or
\* one text.
EncryptsTo(o, r, aesKey) ==
    /\ WellFormed(r)
    /\ DOMAIN r \subseteq DOMAIN o
    /\ \A p \in DOMAIN r :
          /\ r[p].key \in {o[p].key, aesKey}
          /\ o[p].key # "none" \/ Secured(o[p]) => r[p].key = o[p].key
          /\ IsScalar(o[p]) => IsScalar(r[p]) /\ r[p].text = o[p].text
          /\ o[p].kind = "string" => r[p].kind = "string"
          /\ ~ IsScalar(o[p]) => r[p] = o[p] \/ IsScalar(r[p])

LEMMA EncryptsToRelation ==
    ASSUME NEW aesKey, NEW o
    PROVE  /\ WellFormed(o) => EncryptsTo(o, o, aesKey)
           /\ \A r, s : EncryptsTo(o, r, aesKey) /\ EncryptsTo(r, s, aesKey) => EncryptsTo(o, s, aesKey)
           /\ \A r : EncryptsTo(o, r, aesKey) =>
                 \A p \in DOMAIN r : Secured(o[p]) => Secured(r[p])
<1>1. WellFormed(o) => EncryptsTo(o, o, aesKey)
  BY DEF EncryptsTo
<1>2. ASSUME NEW r, NEW s, EncryptsTo(o, r, aesKey), EncryptsTo(r, s, aesKey)
      PROVE  EncryptsTo(o, s, aesKey)
  <2>1. WellFormed(s) /\ DOMAIN s \subseteq DOMAIN r /\ DOMAIN r \subseteq DOMAIN o
    BY <1>2 DEF EncryptsTo
  <2>2. SUFFICES ASSUME NEW p \in DOMAIN s
                 PROVE  /\ s[p].key \in {o[p].key, aesKey}
                        /\ o[p].key # "none" \/ Secured(o[p]) => s[p].key = o[p].key
                        /\ IsScalar(o[p]) => IsScalar(s[p]) /\ s[p].text = o[p].text
                        /\ o[p].kind = "string" => s[p].kind = "string"
                        /\ ~ IsScalar(o[p]) => s[p] = o[p] \/ IsScalar(s[p])
    BY <2>1 DEF EncryptsTo
  <2>3. /\ r[p].key \in {o[p].key, aesKey} /\ s[p].key \in {r[p].key, aesKey}
        /\ o[p].key # "none" \/ Secured(o[p]) => r[p].key = o[p].key
        /\ r[p].key # "none" \/ Secured(r[p]) => s[p].key = r[p].key
        /\ IsScalar(o[p]) => IsScalar(r[p]) /\ r[p].text = o[p].text
        /\ IsScalar(r[p]) => IsScalar(s[p]) /\ s[p].text = r[p].text
        /\ o[p].kind = "string" => r[p].kind = "string"
        /\ r[p].kind = "string" => s[p].kind = "string"
        /\ ~ IsScalar(o[p]) => r[p] = o[p] \/ IsScalar(r[p])
        /\ ~ IsScalar(r[p]) => s[p] = r[p] \/ IsScalar(s[p])
    BY <1>2, <2>1 DEF EncryptsTo
  <2>4. Secured(o[p]) => Secured(r[p])
    BY <2>3 DEF Secured, IsScalar
  <2> QED
    BY <2>3, <2>4
<1>3. ASSUME NEW r, EncryptsTo(o, r, aesKey), NEW p \in DOMAIN r, Secured(o[p]) PROVE Secured(r[p])
  BY <1>3 DEF EncryptsTo, Secured, IsScalar
<1> QED
  BY <1>1, <1>2, <1>3

\* One field.
LEMMA EncryptFieldIsStep ==
    ASSUME NEW o, WellFormed(o), NEW field, NEW aesKey
    PROVE  LET r == EncryptField(o, field, aesKey) IN
           /\ EncryptsTo(o, r, aesKey)
           /\ aesKey # "none" => \A p \in Transformed(o, field) \cap DOMAIN r : Secured(r[p])
           /\ (\A t \in Transformed(o, field) : IsScalar(o[t])) =>
                 /\ DOMAIN r = DOMAIN o
                 /\ \A p \in DOMAIN r : ~ IsScalar(o[p]) => r[p] = o[p]
           /\ \A p \in DOMAIN r \ Transformed(o, field) : r[p] = o[p]
<1> DEFINE targets == Transformed(o, field)
           new == [p \in DOMAIN o |-> DoEncrypt(o, p, aesKey)]
           r == EncryptField(o, field, aesKey)
<1>1. targets \subseteq DOMAIN o
  BY TargetsAreThere
<1>2. \A t \in targets : new[t] = DoEncrypt(o, t, aesKey)
  BY <1>1
<1>3. r = TransformNestedField(o, field, new)
  BY DEF EncryptField
<1>4. /\ DOMAIN r = {q \in DOMAIN o : ~ \E t \in targets : IsStrictPrefix(t, q)}
      /\ \A q \in DOMAIN r : r[q] = IF q \in targets THEN DoEncrypt(o, q, aesKey) ELSE o[q]
  BY <1>2, <1>3 DEF TransformNestedField
<1> HIDE DEF r, new, targets
<1>5. WellFormed(r)
  <2>1. \A t \in targets :
            IsNode(new[t]) /\ IsScalar(new[t]) /\ (new[t].key # "none" => new[t].kind = "string")
    <3>1. ASSUME NEW t \in targets PROVE IsNode(new[t]) /\ new[t].kind = "string"
      BY <1>1, <1>2, EncryptedNode
    <3> QED
      BY <3>1 DEF IsScalar
  <2> QED
    BY <1>3, <2>1, TransformKeepsWellFormed DEF targets
<1>6. ASSUME NEW p \in DOMAIN r
      PROVE  /\ r[p].key \in {o[p].key, aesKey}
             /\ o[p].key # "none" \/ Secured(o[p]) => r[p].key = o[p].key
             /\ IsScalar(o[p]) => IsScalar(r[p]) /\ r[p].text = o[p].text
             /\ o[p].kind = "string" => r[p].kind = "string"
             /\ ~ IsScalar(o[p]) => r[p] = o[p] \/ IsScalar(r[p])
             /\ p \in targets /\ aesKey # "none" => Secured(r[p])
  <2>1. p \in DOMAIN o
    BY <1>4
  <2>2. CASE p \notin targets
    BY <1>4, <2>1, <2>2
  <2>3. CASE p \in targets
    <3>1. r[p] = DoEncrypt(o, p, aesKey)
      BY <1>4, <2>3
    <3>2. /\ r[p].kind = "string" /\ r[p].key \in {o[p].key, aesKey}
          /\ o[p].key # "none" \/ Secured(o[p]) => r[p].key = o[p].key
          /\ IsScalar(o[p]) => r[p].text = o[p].text
          /\ aesKey # "none" => Secured(r[p])
      BY <2>1, <3>1, EncryptedNode
    <3> QED
      BY <3>2 DEF IsScalar
  <2> QED
    BY <2>2, <2>3
<1>7. EncryptsTo(o, r, aesKey)
  BY <1>4, <1>5, <1>6 DEF EncryptsTo
<1>8. ASSUME \A t \in targets : IsScalar(o[t])
      PROVE  DOMAIN r = DOMAIN o /\ \A p \in DOMAIN r : ~ IsScalar(o[p]) => r[p] = o[p]
  <2>1. ASSUME NEW q \in DOMAIN o, NEW t \in targets, IsStrictPrefix(t, q) PROVE FALSE
    <3>1. t \in Seq(STRING)
      BY <1>1 DEF WellFormed
    <3> QED
      BY <1>8, <2>1, <3>1, AboveIsNoScalar
  <2> QED
    BY <1>4, <1>8, <2>1
<1> QED
  BY <1>4, <1>6, <1>7, <1>8 DEF r, targets

\* The targets of a field in an object that is encrypted already: the ones it had, and
\* scalars that became texts.
LEMMA TargetsOfEncrypted ==
    ASSUME NEW o, WellFormed(o), NEW aesKey, NEW r, EncryptsTo(o, r, aesKey), NEW field
    PROVE  /\ Transformed(o, field) \cap DOMAIN r \subseteq Transformed(r, field)
           /\ \A p \in Transformed(r, field) \ Transformed(o, field) : r[p] # o[p] /\ IsScalar(r[p])
<1>1. WellFormed(r) /\ DOMAIN r \subseteq DOMAIN o
  BY DEF EncryptsTo
<1>2. \A p \in DOMAIN r : p \in ReachedBy(r, field) <=> p \in ReachedBy(o, field)
  BY <1>1 DEF ReachedBy, Reaches
<1>3. \A p \in DOMAIN r : r[p].kind = "map" <=> o[p].kind = "map" /\ ~ IsScalar(r[p])
  BY DEF EncryptsTo, IsScalar
<1>4. ASSUME NEW p \in Transformed(o, field) \cap DOMAIN r PROVE p \in Transformed(r, field)
  <2>1. CASE p \in ReachedBy(o, field) /\ o[p].kind = "string"
    <3>1. r[p].kind = "string"
      BY <2>1, <1>4 DEF EncryptsTo
    <3> QED
      BY <1>2, <1>4, <2>1, <3>1 DEF Transformed
  <2>2. CASE p \in DOMAIN o \ {<<>>} /\ Front(p) \in ReachedBy(o, field) /\ o[Front(p)].kind = "map"
    <3>1. Front(p) \in DOMAIN r /\ ~ IsScalar(r[Front(p)])
      BY <1>1, <1>4, <2>2, AboveIsThere
    <3> QED
      BY <1>2, <1>3, <1>4, <2>2, <3>1 DEF Transformed
  <2> QED
    BY <1>4, <2>1, <2>2 DEF Transformed
<1>5. ASSUME NEW p \in Transformed(r, field) \ Transformed(o, field)
      PROVE  r[p] # o[p] /\ IsScalar(r[p])
  <2>1. p \in DOMAIN r \ {<<>>}
    BY <1>5, TargetsAreThere
  <2>2. CASE p \in ReachedBy(r, field) /\ r[p].kind = "string"
    <3>1. o[p].kind # "string"
      BY <1>2, <1>5, <2>1, <2>2 DEF Transformed
    <3> QED
      BY <2>2, <3>1 DEF IsScalar
  <2>3. CASE Front(p) \in ReachedBy(r, field) /\ r[Front(p)].kind = "map"
    <3>1. Front(p) \in DOMAIN r
      BY <1>1, <2>1, AboveIsThere
    <3>2. Front(p) \in ReachedBy(o, field) /\ o[Front(p)].kind = "map" /\ p \in DOMAIN o
      BY <1>1, <1>2, <1>3, <2>1, <2>3, <3>1
    <3> QED
      BY <1>5, <2>1, <3>2 DEF Transformed
  <2> QED
    BY <1>5, <2>2, <2>3 DEF Transformed
<1> QED
  BY <1>4, <1>5
-----------------------------------------------------------------------------
(* One field after the other *)

EncryptRun(after, o, fields, aesKey) ==
    /\ after[0] = o
    /\ \A i \in 1 .. Len(fields) : after[i] = EncryptField(after[i - 1], fields[i], aesKey)
    /\ EncryptFields(o, fields, aesKey) = after[Len(fields)]

\* The recursive function in EncryptFields exists: there is no least number of fields
\* for which it does not.
LEMMA EncryptFieldsSteps ==
    ASSUME NEW o, NEW fields, Len(fields) \in Nat, NEW aesKey
    PROVE  \E after : EncryptRun(after, o, fields, aesKey)
<1> DEFINE step(g, i) == IF i = 0 THEN o ELSE EncryptField(g[i - 1], fields[i], aesKey)
           isRun(g, n) == g = [i \in 0 .. n |-> step(g, i)]
           bad == {n \in Nat : ~ \E g : isRun(g, n)}
<1>1. bad = {}
  <2>1. SUFFICES ASSUME bad # {} PROVE FALSE
    OBVIOUS
  <2>2. PICK n \in bad : \A m \in bad : n <= m
    <3>1. bad \in SUBSET Nat
      OBVIOUS
    <3> HIDE DEF bad
    <3> QED
      BY <2>1, <3>1, LeastOf
  <2>3. CASE n = 0
    <3> DEFINE g == [i \in 0 .. 0 |-> o]
    <3>1. \A i \in 0 .. 0 : step(g, i) = o
      OBVIOUS
    <3>2. isRun(g, 0)
      BY <3>1
    <3> QED
      BY <2>2, <2>3, <3>2
  <2>4. CASE n # 0
    <3>1. n - 1 \in Nat /\ n - 1 \notin bad
      <4>1. n \in Nat
        OBVIOUS
      <4> HIDE DEF bad
      <4> QED
        BY <2>2, <2>4, <4>1
    <3>2. PICK g : isRun(g, n - 1)
      BY <3>1
    <3> DEFINE h == [i \in 0 .. n |-> IF i = n THEN step(g, n) ELSE g[i]]
    <3>3. ASSUME NEW i \in 0 .. n PROVE h[i] = step(h, i)
      <4>1. CASE i = n
        <5>1. n - 1 \in 0 .. n /\ n - 1 # n
          BY <2>4, <3>1
        <5>2. h[n - 1] = g[n - 1]
          BY <5>1
        <5> QED
          BY <2>4, <4>1, <5>2
      <4>2. CASE i # n
        <5>1. i \in 0 .. n - 1
          BY <4>2
        <5>2. h[i] = g[i] /\ g[i] = step(g, i)
          BY <3>2, <4>2, <5>1
        <5>3. i # 0 => i - 1 \in 0 .. n /\ i - 1 # n
          BY <5>1
        <5> QED
          BY <5>2, <5>3
      <4> QED
        BY <4>1, <4>2
    <3>4. isRun(h, n)
      BY <3>3
    <3> QED
      BY <2>2, <3>4
  <2> QED
    BY <2>3, <2>4
<1>2. PICK g : isRun(g, Len(fields))
  BY <1>1
<1> DEFINE after == CHOOSE f : isRun(f, Len(fields))
<1>3. isRun(after, Len(fields))
  <2> HIDE DEF isRun
  <2> QED
    BY <1>2
<1>4. EncryptFields(o, fields, aesKey) = after[Len(fields)]
  BY DEF EncryptFields
<1> HIDE DEF after
<1>5. \A i \in 0 .. Len(fields) : after[i] = step(after, i)
  BY <1>3
<1> QED
  BY <1>4, <1>5 DEF EncryptRun

\* What an object is once its fields are encrypted.
LEMMA EncryptFieldsResult ==
    ASSUME NEW o, WellFormed(o), NEW fields, Len(fields) \in Nat, DOMAIN fields = 1 .. Len(fields),
           NEW aesKey
    PROVE  LET r == EncryptFields(o, fields, aesKey) IN
           /\ EncryptsTo(o, r, aesKey)
           /\ \A p \in DOMAIN r : r[p] # o[p] => \E i \in DOMAIN fields : p \in Transformed(o, fields[i])
           /\ aesKey # "none" => \A i \in DOMAIN fields :
                 \A p \in Transformed(o, fields[i]) \cap DOMAIN r : Secured(r[p])
           /\ ScalarTargets(o, fields) =>
                 /\ DOMAIN r = DOMAIN o
                 /\ \A p \in DOMAIN r : ~ IsScalar(o[p]) => r[p] = o[p]
<1>0. PICK after : EncryptRun(after, o, fields, aesKey)
  BY EncryptFieldsSteps
<1>1. /\ after[0] = o
      /\ \A i \in 1 .. Len(fields) : after[i] = EncryptField(after[i - 1], fields[i], aesKey)
      /\ EncryptFields(o, fields, aesKey) = after[Len(fields)]
  BY <1>0 DEF EncryptRun
<1> DEFINE Done(i) ==
              /\ EncryptsTo(o, after[i], aesKey)
              /\ \A p \in DOMAIN after[i] :
                    after[i][p] # o[p] => \E j \in DOMAIN fields : p \in Transformed(o, fields[j])
              /\ aesKey # "none" => \A j \in 1 .. i :
                    \A p \in Transformed(o, fields[j]) \cap DOMAIN after[i] : Secured(after[i][p])
              /\ ScalarTargets(o, fields) =>
                    /\ DOMAIN after[i] = DOMAIN o
                    /\ \A p \in DOMAIN after[i] : ~ IsScalar(o[p]) => after[i][p] = o[p]
           bad == {i \in 0 .. Len(fields) : ~ Done(i)}
<1>2. Done(0)
  BY <1>1, EncryptsToRelation
<1>3. ASSUME NEW i \in 1 .. Len(fields), Done(i - 1) PROVE Done(i)
  <2> DEFINE a == after[i - 1]
             r == after[i]
  <2>1. /\ EncryptsTo(o, a, aesKey) /\ WellFormed(a) /\ DOMAIN a \subseteq DOMAIN o
        /\ r = EncryptField(a, fields[i], aesKey)
    BY <1>1, <1>3 DEF EncryptsTo
  <2> HIDE DEF a, r
  <2>2. /\ EncryptsTo(a, r, aesKey)
        /\ aesKey # "none" => \A p \in Transformed(a, fields[i]) \cap DOMAIN r : Secured(r[p])
        /\ (\A t \in Transformed(a, fields[i]) : IsScalar(a[t])) =>
              /\ DOMAIN r = DOMAIN a
              /\ \A p \in DOMAIN r : ~ IsScalar(a[p]) => r[p] = a[p]
        /\ \A p \in DOMAIN r \ Transformed(a, fields[i]) : r[p] = a[p]
    BY <2>1, EncryptFieldIsStep
  <2>3. /\ Transformed(o, fields[i]) \cap DOMAIN a \subseteq Transformed(a, fields[i])
        /\ \A p \in Transformed(a, fields[i]) \ Transformed(o, fields[i]) : a[p] # o[p] /\ IsScalar(a[p])
    BY <2>1, TargetsOfEncrypted
  <2>4. EncryptsTo(o, r, aesKey) /\ DOMAIN r \subseteq DOMAIN a
    <3>1. EncryptsTo(o, r, aesKey)
      BY <2>1, <2>2, EncryptsToRelation, Zenon
    <3> QED
      BY <2>2, <3>1 DEF EncryptsTo
  <2>5. i \in DOMAIN fields /\ i - 1 \in Nat
    OBVIOUS
  <2>6. ASSUME NEW p \in DOMAIN r, r[p] # o[p]
        PROVE  \E j \in DOMAIN fields : p \in Transformed(o, fields[j])
    <3>1. CASE a[p] # o[p]
      BY <1>3, <2>4, <3>1 DEF a
    <3>2. CASE a[p] = o[p]
      BY <2>2, <2>3, <2>5, <2>6, <3>2
    <3> QED
      BY <3>1, <3>2
  <2>7. ASSUME aesKey # "none", NEW j \in 1 .. i, NEW p \in Transformed(o, fields[j]) \cap DOMAIN r
        PROVE  Secured(r[p])
    <3>1. CASE j = i
      BY <2>2, <2>3, <2>4, <2>7, <3>1
    <3>2. CASE j # i
      <4>1. j \in 1 .. i - 1
        BY <3>2
      <4>2. Secured(a[p])
        BY <1>3, <2>4, <2>7, <4>1 DEF a
      <4> QED
        BY <2>2, <2>7, <4>2, EncryptsToRelation
    <3> QED
      BY <3>1, <3>2
  <2>8. ASSUME ScalarTargets(o, fields)
        PROVE  DOMAIN r = DOMAIN o /\ \A p \in DOMAIN r : ~ IsScalar(o[p]) => r[p] = o[p]
    <3>1. DOMAIN a = DOMAIN o /\ \A p \in DOMAIN a : ~ IsScalar(o[p]) => a[p] = o[p]
      BY <1>3, <2>8 DEF a
    <3>2. ASSUME NEW t \in Transformed(a, fields[i]) PROVE IsScalar(a[t])
      <4>1. CASE t \in Transformed(o, fields[i])
        <5>1. t \in DOMAIN a /\ IsScalar(o[t])
          BY <2>5, <2>8, <3>2, <4>1, TargetsAreThere DEF ScalarTargets
        <5> QED
          BY <2>1, <5>1 DEF EncryptsTo
      <4> QED
        BY <2>3, <3>2, <4>1
    <3> QED
      BY <2>2, <3>1, <3>2
  <2> QED
    BY <2>4, <2>6, <2>7, <2>8 DEF r
<1>4. bad = {}
  <2>1. SUFFICES ASSUME bad # {} PROVE FALSE
    OBVIOUS
  <2>2. bad \in SUBSET Nat
    OBVIOUS
  <2>3. PICK n \in bad : \A m \in bad : n <= m
    <3> HIDE DEF bad
    <3> QED
      BY <2>1, <2>2, LeastOf
  <2>4. n \in 0 .. Len(fields) /\ ~ Done(n)
    OBVIOUS
  <2> HIDE DEF Done
  <2>5. n \in 1 .. Len(fields)
    BY <1>2, <2>4
  <2>6. Done(n - 1)
    BY <2>3, <2>5
  <2> QED
    BY <1>3, <2>4, <2>5, <2>6
<1>5. Done(Len(fields))
  <2> HIDE DEF Done
  <2> QED
    BY <1>4
<1> QED
  BY <1>1, <1>5
-----------------------------------------------------------------------------
(* Decryption *)

\* Decryption changes no text, and leaves nothing that it could decrypt.
LEMMA DecryptFieldsResult ==
    ASSUME NEW o, WellFormed(o)
    PROVE  LET r == DecryptFields(o) IN
           /\ WellFormed(r) /\ DOMAIN r = DOMAIN o /\ Decryptable(r) = {}
           /\ \A p \in DOMAIN o :
                 /\ r[p].text = o[p].text /\ r[p].key \in {o[p].key, "none"}
                 /\ IsScalar(o[p]) => IsScalar(r[p])
                 /\ ~ IsScalar(o[p]) => r[p] = o[p]
                 /\ o[p].kind = "string" => r[p].kind = "string"
<1> DEFINE r == DecryptFields(o)
<1>1. /\ DOMAIN r = DOMAIN o
      /\ \A p \in DOMAIN o : r[p] = IF p \in Decryptable(o)
                                    THEN [kind |-> "string", text |-> o[p].text, key |-> "none"] ELSE o[p]
  BY DEF DecryptFields, Text, Scalar
<1>2. \A p \in Decryptable(o) : p \in DOMAIN o /\ o[p].kind = "string"
  BY DEF Decryptable, WellFormed
<1> HIDE DEF r
<1>3. Decryptable(r) = {}
  BY <1>1 DEF Decryptable
<1>4. ASSUME NEW p \in DOMAIN o
      PROVE  /\ r[p].text = o[p].text /\ r[p].key \in {o[p].key, "none"} /\ r[p].kind = o[p].kind
             /\ IsNode(r[p]) /\ (r[p].key # "none" => r[p].kind = "string")
  BY <1>1, <1>2 DEF WellFormed, IsNode
<1>5. WellFormed(r)
  <2>1. \A p \in Seq(STRING) : Kind(r, p) = Kind(o, p)
    BY <1>1, <1>4 DEF Kind
  <2>2. <<>> \in Seq(STRING) /\ \A p \in DOMAIN o \ {<<>>} : Front(p) \in Seq(STRING)
    BY EmptySeq, AboveIsThere
  <2> QED
    BY <1>1, <1>4, <2>1, <2>2 DEF WellFormed, IsNode
<1>6. \A p \in DOMAIN o : /\ IsScalar(o[p]) => IsScalar(r[p])
                          /\ ~ IsScalar(o[p]) => r[p] = o[p]
  BY <1>1, <1>2, <1>4 DEF IsScalar
<1> QED
  BY <1>1, <1>3, <1>4, <1>5, <1>6 DEF r
-----------------------------------------------------------------------------
(* Fields at the top of an object *)

\* A field of the object itself is reached at its own path and nowhere else.
LEMMA TopFieldIsReached ==
    ASSUME NEW o, WellFormed(o), NEW d, d \notin Positions
    PROVE  ReachedBy(o, <<d>>) = {<<d>>} \cap DOMAIN o
<1>1. ASSUME NEW p \in ReachedBy(o, <<d>>) PROVE p = <<d>>
  <2> DEFINE keys == {i \in DOMAIN p : p[i] \notin Positions}
  <2>1. /\ p \in DOMAIN o \ {<<>>} /\ Last(p) \notin Positions /\ Cardinality(keys) = Len(<<d>>)
        /\ \A i \in keys : p[i] = <<d>>[Cardinality(keys \cap (1 .. i))]
        /\ \A i \in 2 .. Len(p) : ~ (p[i - 1] \in Positions /\ p[i] \in Positions)
    BY DEF ReachedBy, Reaches
  <2>2. p \in Seq(STRING) /\ Len(p) \in Nat \ {0} /\ DOMAIN p = 1 .. Len(p)
    BY <2>1, LenProperties, EmptySeq DEF WellFormed
  <2>3. Len(p) \in keys
    BY <2>1, <2>2 DEF Last
  <2>4. keys = {Len(p)}
    <3>1. Len(<<d>>) = 1
      OBVIOUS
    <3>2. IsFiniteSet(keys)
      <4>1. IsFiniteSet(1 .. Len(p))
        BY <2>2, FS_Interval
      <4> QED
        BY <2>2, <4>1, FS_Subset
    <3> HIDE DEF keys
    <3>3. PICK x : keys = {x}
      BY <2>1, <3>1, <3>2, FS_Singleton
    <3> QED
      BY <2>3, <3>3
  <2>5. Len(p) = 1
    <3>1. SUFFICES ASSUME Len(p) # 1 PROVE FALSE
      OBVIOUS
    <3>2. \A i \in 1 .. Len(p) - 1 : p[i] \in Positions
      BY <2>2, <2>4
    <3>3. Len(p) = 2
      <4>1. SUFFICES ASSUME Len(p) >= 3 PROVE FALSE
        BY <2>2, <3>1
      <4>2. p[1] \in Positions /\ p[2] \in Positions /\ 2 \in 2 .. Len(p) /\ 2 - 1 = 1
        BY <2>2, <3>2, <4>1
      <4> QED
        BY <2>1, <4>2
    <3>4. /\ Front(p) \in Seq(STRING) /\ Front(p) \in DOMAIN o
          /\ Len(Front(p)) = 1 /\ Front(p)[1] = p[1]
      <4>1. Front(p) \in DOMAIN o
        BY <2>1, AboveIsThere
      <4>2. /\ Front(p) \in Seq(STRING) /\ Len(Front(p)) = Len(p) - 1
            /\ \A i \in 1 .. Len(p) - 1 : Front(p)[i] = p[i]
        BY <2>1, <2>2, FrontShape
      <4> QED
        BY <3>3, <4>1, <4>2
    <3>5. Front(p) # <<>> /\ Last(Front(p)) \in Positions
      BY <3>2, <3>3, <3>4, EmptySeq DEF Last
    <3>6. /\ Front(Front(p)) \in Seq(STRING) /\ Len(Front(Front(p))) = 0
          /\ o[Front(Front(p))].kind = "list"
      BY <3>4, <3>5, FrontShape, AboveIsThere
    <3>7. Front(Front(p)) = <<>>
      BY <3>6, EmptySeq
    <3>8. o[<<>>].kind = "map"
      BY DEF WellFormed, Kind
    <3> QED
      BY <3>6, <3>7, <3>8
  <2>6. Cardinality(keys \cap (1 .. 1)) = 1
    <3>1. keys \cap (1 .. 1) = {1}
      BY <2>4, <2>5
    <3> QED
      BY <3>1, FS_Singleton
  <2>7. p[1] = d
    BY <2>1, <2>3, <2>5, <2>6
  <2> QED
    BY <2>2, <2>5, <2>7
<1>2. ASSUME <<d>> \in DOMAIN o PROVE <<d>> \in ReachedBy(o, <<d>>)
  <2> DEFINE p == <<d>>
             keys == {i \in DOMAIN p : p[i] \notin Positions}
  <2>1. keys = {1} /\ keys \cap (1 .. 1) = {1} /\ Len(p) = 1 /\ p[1] = d /\ p # <<>>
    OBVIOUS
  <2>2. Cardinality({1}) = 1
    BY FS_Singleton
  <2>3. Last(p) \notin Positions
    BY <2>1 DEF Last
  <2>4. Cardinality(keys) = Len(p) /\ \A i \in keys : p[i] = p[Cardinality(keys \cap (1 .. i))]
    <3> HIDE DEF keys, p
    <3> QED
      BY <2>1, <2>2
  <2>5. \A i \in 2 .. Len(p) : ~ (p[i - 1] \in Positions /\ p[i] \in Positions)
    BY <2>1
  <2> QED
    BY <1>2, <2>1, <2>3, <2>4, <2>5 DEF ReachedBy, Reaches
<1> QED
  BY <1>1, <1>2 DEF ReachedBy, Reaches
-----------------------------------------------------------------------------
(* Paths below paths *)

\* Prefixes of prefixes, and prefixes of one path.
LEMMA PrefixesOfOne ==
    ASSUME NEW p \in Seq(STRING), NEW q \in Seq(STRING), NEW r \in Seq(STRING)
    PROVE  /\ IsPrefix(p, q) /\ IsPrefix(q, r) => IsPrefix(p, r)
           /\ IsPrefix(p, r) /\ IsPrefix(q, r) => IsPrefix(p, q) \/ IsPrefix(q, p)
           /\ IsPrefix(p, r) /\ IsPrefix(q, r) /\ Len(p) <= Len(q) => IsPrefix(p, q)
           /\ IsPrefix(p, q) /\ IsPrefix(q, p) => p = q
           /\ IsPrefix(p, p) /\ IsPrefix(<<>>, p)
<1>1. Len(p) \in Nat /\ Len(q) \in Nat /\ Len(r) \in Nat /\ <<>> \in Seq(STRING) /\ Len(<<>>) = 0
  BY LenProperties, EmptySeq
<1>2. /\ IsPrefix(p, q) <=> Len(p) <= Len(q) /\ \A i \in 1 .. Len(p) : p[i] = q[i]
      /\ IsPrefix(q, p) <=> Len(q) <= Len(p) /\ \A i \in 1 .. Len(q) : q[i] = p[i]
  BY PrefixSteps
<1>3. /\ IsPrefix(q, r) <=> Len(q) <= Len(r) /\ \A i \in 1 .. Len(q) : q[i] = r[i]
      /\ IsPrefix(p, r) <=> Len(p) <= Len(r) /\ \A i \in 1 .. Len(p) : p[i] = r[i]
  BY PrefixSteps
<1>4. IsPrefix(p, p) /\ IsPrefix(<<>>, p)
  <2>1. PICK e \in Seq(STRING) : e = <<>> /\ Len(e) = 0
    BY <1>1
  <2>2. IsPrefix(e, p) <=> Len(e) <= Len(p) /\ \A i \in 1 .. Len(e) : e[i] = p[i]
    BY PrefixSteps
  <2>3. IsPrefix(e, p)
    BY <1>1, <2>1, <2>2
  <2> QED
    BY <2>1, <2>3, StrictPrefix
<1>5. IsPrefix(p, q) /\ IsPrefix(q, p) => p = q
  <2>1. IsPrefix(p, q) /\ IsPrefix(q, p) => Len(p) = Len(q) /\ \A i \in 1 .. Len(p) : p[i] = q[i]
    BY <1>1, <1>2
  <2> QED
    BY <2>1, SeqEqual
<1>6. IsPrefix(p, q) /\ IsPrefix(q, r) => IsPrefix(p, r)
  BY <1>1, <1>2, <1>3
<1>7. IsPrefix(p, r) /\ IsPrefix(q, r) /\ Len(p) <= Len(q) => IsPrefix(p, q)
  BY <1>1, <1>2, <1>3
<1>8. IsPrefix(p, r) /\ IsPrefix(q, r) /\ Len(q) <= Len(p) => IsPrefix(q, p)
  BY <1>1, <1>2, <1>3
<1> QED
  BY <1>1, <1>5, <1>6, <1>7, <1>8, <1>4

\* Every prefix of a path is a path.
LEMMA PrefixIsThere ==
    ASSUME NEW o, WellFormed(o), NEW p \in Seq(STRING), NEW q \in DOMAIN o, IsPrefix(p, q)
    PROVE  p \in DOMAIN o /\ (p # q => ~ IsScalar(o[p]))
<1>1. p # q => IsStrictPrefix(p, q)
  BY DEF IsStrictPrefix
<1> QED
  BY <1>1, AboveIsNoScalar

\* What follows a prefix.
LEMMA BelowShape ==
    ASSUME NEW f \in Seq(STRING), NEW q \in Seq(STRING), IsPrefix(f, q)
    PROVE  /\ Below(f, q) \in Seq(STRING) /\ Len(Below(f, q)) = Len(q) - Len(f)
           /\ \A i \in 1 .. Len(q) - Len(f) : Below(f, q)[i] = q[Len(f) + i]
           /\ f \o Below(f, q) = q
<1>1. Len(f) \in Nat /\ Len(q) \in Nat /\ Len(f) <= Len(q) /\ \A i \in 1 .. Len(f) : f[i] = q[i]
  BY LenProperties, PrefixSteps
<1>2. \A i \in Len(f) + 1 .. Len(q) : q[i] \in STRING
  BY <1>1, ElementOfSeq
<1>3. PICK m \in Int, n \in Int : m = Len(f) + 1 /\ n = Len(q)
  BY <1>1
<1>4. /\ SubSeq(q, m, n) \in Seq(STRING)
      /\ Len(SubSeq(q, m, n)) = IF m <= n THEN n - m + 1 ELSE 0
      /\ \A i \in 1 .. n - m + 1 : SubSeq(q, m, n)[i] = q[m + i - 1]
  BY <1>2, <1>3, SubSeqProperties
<1>5. PICK b : b = Below(f, q) /\ b = SubSeq(q, m, n)
  BY <1>3 DEF Below
<1>6. b \in Seq(STRING) /\ Len(b) = Len(q) - Len(f)
  BY <1>1, <1>3, <1>4, <1>5
<1>7. \A i \in 1 .. Len(q) - Len(f) : b[i] = q[Len(f) + i]
  BY <1>1, <1>3, <1>4, <1>5
<1>8. /\ f \o b \in Seq(STRING) /\ Len(f \o b) = Len(f) + Len(b)
      /\ \A i \in 1 .. Len(f \o b) : (f \o b)[i] = IF i <= Len(f) THEN f[i] ELSE b[i - Len(f)]
  BY <1>6, ConcatProperties
<1>9. Len(f \o b) = Len(q) /\ \A i \in 1 .. Len(q) : (f \o b)[i] = q[i]
  <2>1. Len(f \o b) = Len(q)
    BY <1>1, <1>6, <1>8
  <2>2. ASSUME NEW i \in 1 .. Len(q) PROVE (f \o b)[i] = q[i]
    <3>1. CASE i <= Len(f)
      BY <1>1, <1>8, <2>1, <3>1
    <3>2. CASE ~ (i <= Len(f))
      <4>1. i - Len(f) \in 1 .. Len(q) - Len(f) /\ Len(f) + (i - Len(f)) = i
        BY <1>1, <3>2
      <4>2. b[i - Len(f)] = q[Len(f) + (i - Len(f))]
        BY <1>7, <4>1
      <4> QED
        BY <1>1, <1>8, <2>1, <3>2, <4>1, <4>2
    <3> QED
      BY <3>1, <3>2
  <2> QED
    BY <2>1, <2>2
<1>10. f \o b = q
  BY <1>8, <1>9, SeqEqual
<1> QED
  BY <1>5, <1>6, <1>7, <1>10

LEMMA AppendedTwice ==
    ASSUME NEW p \in Seq(STRING), NEW q \in Seq(STRING), NEW r \in Seq(STRING)
    PROVE  (p \o q) \o r = p \o (q \o r)
BY ConcatAssociative, SMTT(30)

\* A path and one below it.
LEMMA Appended ==
    ASSUME NEW f \in Seq(STRING), NEW r \in Seq(STRING)
    PROVE  /\ f \o r \in Seq(STRING) /\ Len(f \o r) = Len(f) + Len(r) /\ IsPrefix(f, f \o r)
           /\ Below(f, f \o r) = r
           /\ f \o <<>> = f
           /\ r # <<>> => /\ f \o r # f /\ f \o r # <<>>
                          /\ Front(f \o r) = f \o Front(r) /\ Last(f \o r) = Last(r)
<1> DEFINE q == f \o r
<1>1. Len(f) \in Nat /\ Len(r) \in Nat /\ (r = <<>> <=> Len(r) = 0)
  BY LenProperties, EmptySeq
<1>2. /\ q \in Seq(STRING) /\ Len(q) = Len(f) + Len(r)
      /\ \A i \in 1 .. Len(q) : q[i] = IF i <= Len(f) THEN f[i] ELSE r[i - Len(f)]
  BY ConcatProperties
<1> HIDE DEF q
<1>3. IsPrefix(f, q)
  <2>1. \A i \in 1 .. Len(f) : f[i] = q[i]
    BY <1>1, <1>2, SMTT(30)
  <2>2. Len(f) <= Len(q) /\ q \in Seq(STRING)
    BY <1>1, <1>2
  <2> QED
    BY <2>1, <2>2, PrefixSteps, SMTT(30)
<1>4. Below(f, q) = r
  <2>1. /\ Below(f, q) \in Seq(STRING) /\ Len(Below(f, q)) = Len(q) - Len(f)
        /\ \A i \in 1 .. Len(q) - Len(f) : Below(f, q)[i] = q[Len(f) + i]
    BY <1>2, <1>3, BelowShape
  <2>2. ASSUME NEW i \in 1 .. Len(r) PROVE q[Len(f) + i] = r[i]
    <3>1. Len(f) + i \in 1 .. Len(q) /\ ~ (Len(f) + i <= Len(f)) /\ (Len(f) + i) - Len(f) = i
      BY <1>1, <1>2
    <3> QED
      BY <1>2, <3>1
  <2>3. Len(Below(f, q)) = Len(r) /\ \A i \in 1 .. Len(r) : Below(f, q)[i] = r[i]
    BY <1>1, <1>2, <2>1, <2>2
  <2> QED
    BY <2>1, <2>3, SeqEqual
<1>5. f \o <<>> = f
  BY ConcatEmptySeq
<1>6. ASSUME r # <<>>
      PROVE  q # f /\ q # <<>> /\ Front(q) = f \o Front(r) /\ Last(q) = Last(r)
  <2>1. Len(r) \in Nat \ {0} /\ Len(q) \in Nat \ {0} /\ q # f /\ q # <<>>
    <3>1. Len(r) \in Nat \ {0} /\ Len(q) \in Nat \ {0} /\ Len(q) # Len(f)
      BY <1>1, <1>2, <1>6
    <3> QED
      BY <1>2, <3>1, EmptySeq
  <2>2. /\ Front(r) \in Seq(STRING) /\ Len(Front(r)) = Len(r) - 1
        /\ \A i \in 1 .. Len(r) - 1 : Front(r)[i] = r[i]
    BY <1>6, FrontShape
  <2>3. /\ Front(q) \in Seq(STRING) /\ Len(Front(q)) = Len(q) - 1
        /\ \A i \in 1 .. Len(q) - 1 : Front(q)[i] = q[i]
    BY <1>2, <2>1, FrontShape
  <2>4. PICK above \in Seq(STRING) : above = Front(r)
    BY <2>2
  <2>5. PICK t : t = f \o above /\ above = Front(r)
    BY <2>4
  <2>6. /\ t \in Seq(STRING) /\ Len(t) = Len(f) + Len(Front(r))
        /\ \A i \in 1 .. Len(t) : t[i] = IF i <= Len(f) THEN f[i] ELSE Front(r)[i - Len(f)]
    <3>1. /\ f \o above \in Seq(STRING) /\ Len(f \o above) = Len(f) + Len(above)
          /\ \A i \in 1 .. Len(f \o above) : (f \o above)[i] = IF i <= Len(f) THEN f[i] ELSE above[i - Len(f)]
      BY <2>5, ConcatProperties
    <3> QED
      BY <2>5, <3>1
  <2>7. Len(t) = Len(Front(q)) /\ \A i \in 1 .. Len(Front(q)) : Front(q)[i] = t[i]
    <3>1. Len(t) = Len(q) - 1
      BY <1>1, <1>2, <2>2, <2>6
    <3>2. ASSUME NEW i \in 1 .. Len(q) - 1 PROVE q[i] = t[i]
      <4>1. i \in 1 .. Len(q) /\ i \in 1 .. Len(t)
        BY <2>1, <3>1
      <4>2. CASE i <= Len(f)
        BY <1>2, <2>6, <4>1, <4>2
      <4>3. CASE ~ (i <= Len(f))
        <5>1. i - Len(f) \in 1 .. Len(r) - 1
          BY <1>1, <1>2, <4>1, <4>3
        <5>2. Front(r)[i - Len(f)] = r[i - Len(f)]
          BY <2>2, <5>1
        <5> QED
          BY <1>2, <2>6, <4>1, <4>3, <5>2
      <4> QED
        BY <4>2, <4>3
    <3> QED
      BY <2>3, <3>1, <3>2
  <2>8. Front(q) = t
    BY <2>3, <2>6, <2>7, SeqEqual
  <2>9. Last(q) = Last(r)
    <3>1. Len(q) \in 1 .. Len(q) /\ ~ (Len(q) <= Len(f)) /\ Len(q) - Len(f) = Len(r)
      BY <1>1, <1>2, <2>1
    <3>2. q[Len(q)] = r[Len(r)]
      BY <1>2, <3>1
    <3> QED
      BY <3>2 DEF Last
  <2> QED
    BY <2>1, <2>5, <2>8, <2>9
<1> QED
  BY <1>2, <1>3, <1>4, <1>5, <1>6 DEF q
-----------------------------------------------------------------------------
(* Values that are put below a field *)

\* The nodes of a value that is looked up.
LEMMA SubtreeNodes ==
    ASSUME NEW o, WellFormed(o), NEW p \in Seq(STRING)
    PROVE  /\ DOMAIN Subtree(o, p) = {r \in Seq(STRING) : p \o r \in DOMAIN o}
           /\ \A r \in DOMAIN Subtree(o, p) : Subtree(o, p)[r] = o[p \o r]
<1> DEFINE rests == {SubSeq(q, Len(p) + 1, Len(q)) : q \in Under(o, p)}
<1>1. DOMAIN Subtree(o, p) = rests /\ \A r \in rests : Subtree(o, p)[r] = o[p \o r]
  BY DEF Subtree
<1>2. rests = {r \in Seq(STRING) : p \o r \in DOMAIN o}
  <2>1. ASSUME NEW q \in Under(o, p)
        PROVE  SubSeq(q, Len(p) + 1, Len(q)) \in Seq(STRING) /\ p \o SubSeq(q, Len(p) + 1, Len(q)) = q
    <3>1. q \in Seq(STRING) /\ IsPrefix(p, q)
      BY <2>1 DEF Under, WellFormed
    <3>2. Below(p, q) \in Seq(STRING) /\ p \o Below(p, q) = q
      BY <3>1, BelowShape
    <3> QED
      BY <3>2 DEF Below
  <2>2. ASSUME NEW r \in Seq(STRING), p \o r \in DOMAIN o PROVE r \in rests
    <3>1. IsPrefix(p, p \o r) /\ Below(p, p \o r) = r
      BY Appended
    <3>2. p \o r \in Under(o, p)
      BY <2>2, <3>1 DEF Under
    <3>3. r = SubSeq(p \o r, Len(p) + 1, Len(p \o r))
      BY <3>1 DEF Below
    <3> QED
      BY <3>2, <3>3
  <2> QED
    BY <2>1, <2>2 DEF Under
<1> QED
  BY <1>1, <1>2

\* A path of map keys.
IsKeys(f) == f \in Seq(STRING) /\ f # <<>> /\ \A i \in 1 .. Len(f) : f[i] \notin Positions

\* r is o with what t has at place put at f, and with the maps above f.
IsGraft(r, o, f, t, place) ==
    /\ \A q : q \in DOMAIN r <=>
          /\ q \in Seq(STRING)
          /\ IF IsPrefix(f, q) THEN place \o Below(f, q) \in DOMAIN t
                              ELSE q \in DOMAIN o \/ IsPrefix(q, f)
    /\ \A q \in DOMAIN r : r[q] = IF IsPrefix(f, q) THEN t[place \o Below(f, q)]
                                   ELSE IF q \in DOMAIN o THEN o[q] ELSE Map

LEMMA SetNestedFieldNodes ==
    ASSUME NEW o, WellFormed(o), NEW f, IsKeys(f), NEW t, WellFormed(t), NEW place \in DOMAIN t
    PROVE  LET r == SetNestedField(o, f, Subtree(t, place)) IN
           IF \E x \in DOMAIN o : IsStrictPrefix(x, f) /\ o[x].kind # "map"
             THEN r = o
             ELSE IsGraft(r, o, f, t, place)
<1> DEFINE above == {SubSeq(f, 1, i) : i \in 0 .. Len(f) - 1}
           v == Subtree(t, place)
           made == [p \in DOMAIN o \cup above |-> IF p \in DOMAIN o THEN o[p] ELSE Map]
           g == Put(made, f, v)
<1>1. f \in Seq(STRING) /\ Len(f) \in Nat \ {0} /\ place \in Seq(STRING) /\ DOMAIN o \subseteq Seq(STRING)
  BY LenProperties, EmptySeq DEF IsKeys, WellFormed
<1>2. above = {x \in Seq(STRING) : IsStrictPrefix(x, f)}
  <2>1. ASSUME NEW i \in 0 .. Len(f) - 1
        PROVE  SubSeq(f, 1, i) \in Seq(STRING) /\ IsStrictPrefix(SubSeq(f, 1, i), f)
    <3>1. \A j \in 1 .. i : f[j] \in STRING
      BY <1>1, ElementOfSeq
    <3>2. PICK n \in Int : n = i
      OBVIOUS
    <3>3. /\ SubSeq(f, 1, n) \in Seq(STRING) /\ Len(SubSeq(f, 1, n)) = IF 1 <= n THEN n - 1 + 1 ELSE 0
          /\ \A j \in 1 .. n - 1 + 1 : SubSeq(f, 1, n)[j] = f[1 + j - 1]
      BY <3>1, <3>2, SubSeqProperties
    <3>4. PICK x \in Seq(STRING) : x = SubSeq(f, 1, i)
      BY <3>2, <3>3
    <3>5. Len(x) = i /\ \A j \in 1 .. i : x[j] = f[j]
      BY <3>2, <3>3, <3>4
    <3>6. IsPrefix(x, f)
      BY <1>1, <3>5, PrefixSteps
    <3>7. x # f
      BY <1>1, <3>5
    <3> QED
      BY <3>4, <3>6, <3>7 DEF IsStrictPrefix
  <2>2. ASSUME NEW x \in Seq(STRING), IsStrictPrefix(x, f) PROVE x \in above
    <3>1. Len(x) \in Nat /\ IsPrefix(x, f) /\ x # f
      BY <2>2, LenProperties DEF IsStrictPrefix
    <3>2. Len(x) <= Len(f) /\ \A j \in 1 .. Len(x) : x[j] = f[j]
      BY <1>1, <3>1, PrefixSteps
    <3>3. Len(x) # Len(f)
      BY <1>1, <3>1, <3>2, SeqEqual
    <3>4. x = SubSeq(f, 1, Len(x))
      <4>1. SubSeq(x, 1, Len(x)) = SubSeq(f, 1, Len(x))
        BY <3>1 DEF IsPrefix
      <4> QED
        BY <4>1, SubSeqFull
    <3>5. Len(x) \in 0 .. Len(f) - 1
      BY <1>1, <3>1, <3>2, <3>3
    <3> QED
      BY <3>4, <3>5
  <2> QED
    BY <2>1, <2>2
<1>3. /\ DOMAIN v = {r \in Seq(STRING) : place \o r \in DOMAIN t}
      /\ \A r \in DOMAIN v : v[r] = t[place \o r]
  BY <1>1, SubtreeNodes
<1>4. SetNestedField(o, f, v) =
         IF \E x \in DOMAIN o : IsStrictPrefix(x, f) /\ o[x].kind # "map"
           THEN o ELSE g
  <2>1. SetNestedField(o, f, v) = IF \E p \in above \cap DOMAIN o : o[p].kind # "map" THEN o ELSE g
    BY DEF SetNestedField
  <2> HIDE DEF above, g
  <2> QED
    BY <1>1, <1>2, <2>1
<1>5. IsGraft(g, o, f, t, place)
  <2> DEFINE outside == DOMAIN made \ Under(made, f)
             inside == {f \o r : r \in DOMAIN v}
  <2>1. /\ DOMAIN g = outside \cup inside
        /\ \A q \in DOMAIN g : g[q] = IF IsPrefix(f, q) THEN v[SubSeq(q, Len(f) + 1, Len(q))] ELSE made[q]
    BY DEF Put
  <2>2. outside = {q \in DOMAIN o \cup above : ~ IsPrefix(f, q)}
    BY DEF Under
  <2>3. outside = {q \in Seq(STRING) : ~ IsPrefix(f, q) /\ (q \in DOMAIN o \/ IsPrefix(q, f))}
    <3>1. \A q \in Seq(STRING) : ~ IsPrefix(f, q) => (q \in above <=> IsPrefix(q, f))
      <4>1. IsPrefix(f, f)
        BY <1>1, StrictPrefix
      <4> QED
        BY <1>2, <4>1 DEF IsStrictPrefix
    <3> HIDE DEF above
    <3> QED
      BY <1>1, <1>2, <2>2, <3>1
  <2>4. inside = {q \in Seq(STRING) : IsPrefix(f, q) /\ place \o Below(f, q) \in DOMAIN t}
    <3>1. \A r \in DOMAIN v : f \o r \in Seq(STRING) /\ IsPrefix(f, f \o r) /\ Below(f, f \o r) = r
      BY <1>1, <1>3, Appended
    <3>2. \A q \in Seq(STRING) : IsPrefix(f, q) => Below(f, q) \in Seq(STRING) /\ f \o Below(f, q) = q
      BY <1>1, BelowShape
    <3> HIDE DEF v
    <3>3. ASSUME NEW r \in DOMAIN v
          PROVE  /\ f \o r \in Seq(STRING) /\ IsPrefix(f, f \o r)
                 /\ place \o Below(f, f \o r) \in DOMAIN t
      BY <1>3, <3>1
    <3>4. ASSUME NEW q \in Seq(STRING), IsPrefix(f, q), place \o Below(f, q) \in DOMAIN t
          PROVE  Below(f, q) \in DOMAIN v /\ q = f \o Below(f, q)
      BY <1>3, <3>2, <3>4
    <3> QED
      BY <3>3, <3>4
  <2>5. \A q \in DOMAIN g : g[q] = IF IsPrefix(f, q) THEN v[Below(f, q)] ELSE made[q]
    BY <2>1 DEF Below
  <2>6. \A q \in outside : made[q] = IF q \in DOMAIN o THEN o[q] ELSE Map
    OBVIOUS
  <2> HIDE DEF v, g, made, outside, inside
  <2>7. \A q : q \in DOMAIN g <=>
            /\ q \in Seq(STRING)
            /\ IF IsPrefix(f, q) THEN place \o Below(f, q) \in DOMAIN t
                                ELSE q \in DOMAIN o \/ IsPrefix(q, f)
    BY <2>1, <2>3, <2>4
  <2>8. ASSUME NEW q \in DOMAIN g
        PROVE  g[q] = IF IsPrefix(f, q) THEN t[place \o Below(f, q)] ELSE IF q \in DOMAIN o THEN o[q] ELSE Map
    <3>1. CASE IsPrefix(f, q)
      <4>1. Below(f, q) \in DOMAIN v
        <5>1. q \in Seq(STRING) /\ place \o Below(f, q) \in DOMAIN t
          BY <2>7, <3>1
        <5>2. Below(f, q) \in Seq(STRING)
          BY <1>1, <3>1, <5>1, BelowShape
        <5> QED
          BY <1>3, <5>1, <5>2
      <4> QED
        BY <1>3, <2>5, <3>1, <4>1
    <3>2. CASE ~ IsPrefix(f, q)
      <4>1. q \in outside
        BY <2>3, <2>7, <3>2
      <4> QED
        BY <2>5, <2>6, <3>2, <4>1
    <3> QED
      BY <3>1, <3>2
  <2> QED
    BY <2>7, <2>8 DEF IsGraft
<1> HIDE DEF g, v
<1>6. PICK r : r = SetNestedField(o, f, v)
  OBVIOUS
<1> QED
  BY <1>4, <1>5 DEF v

\* A graft is well formed if what is above it are maps.
LEMMA GraftKeepsWellFormed ==
    ASSUME NEW o, WellFormed(o), NEW f, IsKeys(f), NEW t, WellFormed(t), NEW place \in DOMAIN t,
           ~ \E x \in DOMAIN o : IsStrictPrefix(x, f) /\ o[x].kind # "map",
           NEW r, IsGraft(r, o, f, t, place)
    PROVE  WellFormed(r)
<1>1. /\ f \in Seq(STRING) /\ f # <<>> /\ Len(f) \in Nat \ {0} /\ place \in Seq(STRING)
      /\ DOMAIN o \subseteq Seq(STRING) /\ DOMAIN t \subseteq Seq(STRING) /\ Last(f) \notin Positions
  BY LenProperties, EmptySeq DEF IsKeys, WellFormed, Last
<1>2. \A q : q \in DOMAIN r <=>
          /\ q \in Seq(STRING)
          /\ IF IsPrefix(f, q) THEN place \o Below(f, q) \in DOMAIN t
                              ELSE q \in DOMAIN o \/ IsPrefix(q, f)
  BY DEF IsGraft
<1>3. \A q \in DOMAIN r : r[q] = IF IsPrefix(f, q) THEN t[place \o Below(f, q)]
                                  ELSE IF q \in DOMAIN o THEN o[q] ELSE Map
  BY DEF IsGraft
<1>4. \A q \in Seq(STRING) : q # <<>> => (IsPrefix(f, q) <=> q = f \/ IsPrefix(f, Front(q)))
  BY <1>1, StrictPrefix DEF IsStrictPrefix
<1>5. <<>> \in DOMAIN r /\ r[<<>>].kind = "map"
  <2>1. <<>> \in DOMAIN o /\ o[<<>>].kind = "map"
    BY DEF WellFormed, Kind
  <2>2. ~ IsPrefix(f, <<>>)
    BY <1>1, EmptySeq DEF IsPrefix
  <2> QED
    BY <1>1, <1>2, <1>3, <2>1, <2>2
<1>6. ASSUME NEW q \in DOMAIN r, ~ IsPrefix(f, q), IsPrefix(q, f) PROVE r[q].kind = "map"
  <2>1. q # f
    BY <1>1, <1>6, StrictPrefix
  <2>2. IsStrictPrefix(q, f)
    BY <1>6, <2>1 DEF IsStrictPrefix
  <2>3. Map.kind = "map"
    BY DEF Map
  <2> QED
    BY <1>3, <1>6, <2>2, <2>3
<1>7. \A c, x \in Seq(STRING) : /\ (f \o c) \o x = f \o (c \o x)
                               /\ (place \o c) \o x = place \o (c \o x)
  BY <1>1, AppendedTwice, ZenonT(60)
<1>8. ASSUME NEW q \in DOMAIN r \ {<<>>}
      PROVE  IF Last(q) \in Positions
               THEN /\ Kind(r, Front(q)) = "list"
                    /\ \A i \in 2 .. Len(Index) :
                          Last(q) = Index[i] => Front(q) \o <<Index[i - 1]>> \in DOMAIN r
               ELSE Kind(r, Front(q)) = "map"
  <2>1. q \in Seq(STRING) /\ q # <<>> /\ Front(q) \in Seq(STRING) /\ Last(q) \in STRING
    BY <1>2, FrontShape
  <2>2. \A i \in 2 .. Len(Index) :
           /\ <<Index[i - 1]>> \in Seq(STRING) /\ Index[i - 1] \in Positions
           /\ \A p \in Seq(STRING) : /\ p \o <<Index[i - 1]>> \in Seq(STRING) /\ p \o <<Index[i - 1]>> # <<>>
                                     /\ Front(p \o <<Index[i - 1]>>) = p
                                     /\ Last(p \o <<Index[i - 1]>>) = Index[i - 1]
    <3>1. SUFFICES ASSUME NEW i \in 2 .. Len(Index)
                   PROVE  /\ Index[i - 1] \in STRING /\ Index[i - 1] \in Positions
                          /\ \A p \in Seq(STRING) :
                                /\ p \o <<Index[i - 1]>> \in Seq(STRING) /\ p \o <<Index[i - 1]>> # <<>>
                                /\ Front(p \o <<Index[i - 1]>>) = p
                                /\ Last(p \o <<Index[i - 1]>>) = Index[i - 1]
      OBVIOUS
    <3>2. Index[i - 1] \in Positions /\ Index[i - 1] \in STRING
      BY PositionsShape
    <3> QED
      BY <3>2, FrontOfAppended
  <2>3. CASE q = f
    <3>1. Front(f) \in Seq(STRING) /\ IsPrefix(Front(f), f) /\ ~ IsPrefix(f, Front(f))
      <4>1. Front(f) \in Seq(STRING) /\ Len(Front(f)) = Len(f) - 1
        BY <1>1, FrontShape
      <4>2. IsStrictPrefix(Front(f), f)
        BY <1>1, <4>1, StrictPrefix
      <4>3. ~ IsPrefix(f, Front(f))
        BY <1>1, <4>1 DEF IsPrefix
      <4> QED
        BY <4>1, <4>2, <4>3 DEF IsStrictPrefix
    <3>2. Front(f) \in DOMAIN r
      BY <1>2, <3>1
    <3> QED
      BY <1>1, <1>6, <2>3, <3>1, <3>2 DEF Kind
  <2>4. CASE q # f /\ IsPrefix(f, q)
    <3>1. PICK b \in Seq(STRING) : b = Below(f, q) /\ f \o b = q /\ place \o b \in DOMAIN t
      BY <1>1, <1>2, <2>1, <2>4, BelowShape
    <3>2. b # <<>>
      BY <1>1, <2>4, <3>1, Appended
    <3>3. PICK c \in Seq(STRING) : c = Front(b)
      BY <3>2, FrontShape
    <3>4. PICK s \in DOMAIN t \ {<<>>} : s = place \o b /\ Front(s) = place \o c /\ Last(s) = Last(b)
      <4>1. place \in Seq(STRING) /\ b \in Seq(STRING)
        BY <1>1, <3>1
      <4>2. place \o b # <<>> /\ Front(place \o b) = place \o Front(b) /\ Last(place \o b) = Last(b)
        BY <4>1, <3>2, Appended
      <4> QED
        BY <3>1, <3>3, <4>2, Zenon
    <3>5. Front(q) = f \o c /\ Last(q) = Last(b)
      <4>1. f \in Seq(STRING) /\ b \in Seq(STRING)
        BY <1>1, <3>1
      <4>2. Front(f \o b) = f \o Front(b) /\ Last(f \o b) = Last(b)
        BY <4>1, <3>2, Appended
      <4> QED
        BY <3>1, <3>3, <4>2, Zenon
    <3>6. Below(f, Front(q)) = c /\ IsPrefix(f, Front(q))
      BY <1>1, <3>5, Appended
    <3>7. Front(s) \in DOMAIN t /\ t[Front(s)].kind = IF Last(s) \in Positions THEN "list" ELSE "map"
      BY AboveIsThere
    <3>8. Front(q) \in DOMAIN r /\ r[Front(q)] = t[Front(s)]
      BY <1>2, <1>3, <2>1, <3>4, <3>6, <3>7
    <3>9. ASSUME Last(q) \in Positions, NEW i \in 2 .. Len(Index), Last(q) = Index[i]
          PROVE  Front(q) \o <<Index[i - 1]>> \in DOMAIN r
      <4>1. PICK x \in Seq(STRING) : x = <<Index[i - 1]>> /\ Front(q) \o x \in Seq(STRING)
        BY <2>1, <2>2
      <4>2. Front(s) \o x \in DOMAIN t
        BY <3>4, <3>5, <3>9, <4>1, ZenonT(60) DEF WellFormed
      <4>3. PICK d \in Seq(STRING) : d = c \o x
        BY ConcatProperties
      <4>4. place \in Seq(STRING) /\ f \in Seq(STRING) /\ c \in Seq(STRING) /\ x \in Seq(STRING)
        BY <1>1, <3>3, <4>1
      <4>5. (place \o c) \o x = place \o d
        BY <1>7, <4>4, <4>3
      <4>6. (f \o c) \o x = f \o d
        BY <1>7, <4>4, <4>3
      <4>7. IsPrefix(f, f \o d) /\ Below(f, f \o d) = d
        BY <1>1, Appended
      <4>8. Front(q) \o x \in DOMAIN r
        BY <1>2, <3>4, <3>5, <4>1, <4>2, <4>5, <4>6, <4>7
      <4> QED
        BY <4>1, <4>8
    <3> QED
      BY <3>4, <3>5, <3>7, <3>8, <3>9 DEF Kind
  <2>5. CASE ~ IsPrefix(f, q) /\ q \in DOMAIN o
    <3>1. /\ Front(q) \in DOMAIN o
          /\ o[Front(q)].kind = IF Last(q) \in Positions THEN "list" ELSE "map"
      BY <2>1, <2>5, AboveIsThere
    <3>2. ~ IsPrefix(f, Front(q))
      BY <1>4, <2>1, <2>5
    <3>3. Front(q) \in DOMAIN r /\ r[Front(q)] = o[Front(q)]
      BY <1>2, <1>3, <2>1, <3>1, <3>2
    <3>4. ASSUME Last(q) \in Positions, NEW i \in 2 .. Len(Index), Last(q) = Index[i]
          PROVE  Front(q) \o <<Index[i - 1]>> \in DOMAIN r
      <4> DEFINE s == Front(q) \o <<Index[i - 1]>>
      <4>1. s \in DOMAIN o
        BY <2>1, <2>5, <3>4 DEF WellFormed
      <4>2. s \in Seq(STRING) /\ s # <<>> /\ Front(s) = Front(q) /\ Last(s) \in Positions
        BY <2>1, <2>2, <3>4
      <4> HIDE DEF s
      <4>3. ~ IsPrefix(f, s)
        BY <1>1, <1>4, <3>2, <4>2
      <4>4. s \in DOMAIN r
        BY <1>2, <4>1, <4>2, <4>3
      <4> QED
        BY <4>4 DEF s
    <3> QED
      BY <3>1, <3>3, <3>4 DEF Kind
  <2>6. CASE ~ IsPrefix(f, q) /\ q \notin DOMAIN o
    <3>1. IsPrefix(q, f)
      BY <1>2, <2>6
    <3>2. Last(q) \notin Positions
      <4>1. Len(q) \in Nat \ {0} /\ Len(q) <= Len(f) /\ \A i \in 1 .. Len(q) : q[i] = f[i]
        BY <1>1, <2>1, <3>1, LenProperties, EmptySeq, PrefixSteps
      <4>2. q[Len(q)] = f[Len(q)] /\ Len(q) \in 1 .. Len(f)
        BY <1>1, <4>1
      <4> QED
        BY <4>2 DEF Last, IsKeys
    <3>3. IsPrefix(Front(q), f) /\ ~ IsPrefix(f, Front(q))
      <4>1. IsPrefix(Front(q), q)
        BY <2>1, StrictPrefix DEF IsStrictPrefix
      <4> QED
        BY <1>1, <1>4, <2>1, <2>6, <3>1, <4>1, PrefixesOfOne
    <3>4. Front(q) \in DOMAIN r
      BY <1>2, <2>1, <3>3
    <3> QED
      BY <1>6, <3>2, <3>3, <3>4 DEF Kind
  <2> QED
    BY <2>3, <2>4, <2>5, <2>6
<1>9. ASSUME NEW q \in DOMAIN r
      PROVE  /\ r[q] = [kind |-> r[q].kind, text |-> r[q].text, key |-> r[q].key]
             /\ r[q].key # "none" => r[q].kind = "string"
             /\ r[q].kind \in {"map", "list"} => r[q].text = {}
  <2>1. CASE IsPrefix(f, q)
    <3>1. PICK p \in DOMAIN t : r[q] = t[p]
      BY <1>2, <1>3, <2>1
    <3> QED
      BY <3>1 DEF WellFormed
  <2>2. CASE ~ IsPrefix(f, q) /\ q \in DOMAIN o
    <3>1. r[q] = o[q]
      BY <1>3, <2>2
    <3> QED
      BY <2>2, <3>1 DEF WellFormed
  <2>3. CASE ~ IsPrefix(f, q) /\ q \notin DOMAIN o
    <3>1. r[q] = Map
      BY <1>3, <2>3
    <3> QED
      BY <3>1 DEF Map
  <2> QED
    BY <2>1, <2>2, <2>3
<1>10. DOMAIN r \subseteq Seq(STRING)
  BY <1>2
<1>11. Kind(r, <<>>) = "map"
  BY <1>5 DEF Kind
<1> QED
  BY <1>8, <1>9, <1>10, <1>11 DEF WellFormed
-----------------------------------------------------------------------------
(* Preserved fields *)

\* Of the pairs of two loops one comes last.
LEMMA LastPair ==
    ASSUME NEW m \in Nat, NEW n \in Nat, NEW S \in SUBSET ((1 .. m) \X (1 .. n)), S # {}
    PROVE  \E x \in S : \A y \in S : NotAfter(y, x)
<1> DEFINE left == {m - x[1] : x \in S}
<1>1. left \in SUBSET Nat /\ left # {}
  <2>1. \A x \in S : x[1] \in 1 .. m /\ x[2] \in 1 .. n
    OBVIOUS
  <2> QED
    BY <2>1
<1>2. PICK a \in left : \A b \in left : a <= b
  <2> HIDE DEF left
  <2> QED
    BY <1>1, LeastOf
<1> DEFINE inner == {n - x[2] : x \in {x \in S : m - x[1] = a}}
<1>3. inner \in SUBSET Nat /\ inner # {}
  <2>1. \A x \in S : x[1] \in 1 .. m /\ x[2] \in 1 .. n
    OBVIOUS
  <2> QED
    BY <2>1
<1>4. PICK c \in inner : \A d \in inner : c <= d
  <2> HIDE DEF inner
  <2> QED
    BY <1>3, LeastOf
<1>5. PICK x \in S : m - x[1] = a /\ n - x[2] = c
  OBVIOUS
<1>6. ASSUME NEW y \in S PROVE NotAfter(y, x)
  <2>1. x[1] \in 1 .. m /\ x[2] \in 1 .. n /\ y[1] \in 1 .. m /\ y[2] \in 1 .. n
    OBVIOUS
  <2>2. a <= m - y[1]
    BY <1>2
  <2>3. m - y[1] = a => c <= n - y[2]
    BY <1>4
  <2> QED
    BY <1>5, <2>1, <2>2, <2>3 DEF NotAfter
<1> QED
  BY <1>6

\* Each preserved value is one of the object, at the place that some pair looks it up.
LEMMA PreservedValuesResult ==
    ASSUME NEW o, NEW excluded, NEW preserved, Len(excluded) \in Nat, Len(preserved) \in Nat,
           DOMAIN excluded = 1 .. Len(excluded), DOMAIN preserved = 1 .. Len(preserved)
    PROVE  LET values == PreservedValues(o, excluded, preserved)
               place(x) == Source(o, excluded[x[1]], preserved[x[2]])
               keyOf(x) == PreservedKey(excluded[x[1]], preserved[x[2]])
           IN  /\ \A key \in DOMAIN values :
                     \E x \in Pairs(excluded, preserved) :
                        /\ key = keyOf(x) /\ place(x) \in DOMAIN o
                        /\ values[key] = [place |-> place(x), held |-> "shared", value |-> Subtree(o, place(x))]
               /\ \A x \in Pairs(excluded, preserved) : place(x) \in DOMAIN o => keyOf(x) \in DOMAIN values
<1> DEFINE place(x) == Source(o, excluded[x[1]], preserved[x[2]])
           keyOf(x) == PreservedKey(excluded[x[1]], preserved[x[2]])
           found == {x \in Pairs(excluded, preserved) : place(x) \in DOMAIN o}
           last(key) == CHOOSE x \in found :
                           keyOf(x) = key /\ \A y \in found : keyOf(y) = key => NotAfter(y, x)
           values == PreservedValues(o, excluded, preserved)
<1>1. /\ DOMAIN values = {keyOf(x) : x \in found}
      /\ \A key \in DOMAIN values :
            values[key] = [place |-> place(last(key)), held |-> "shared", value |-> Subtree(o, place(last(key)))]
  BY DEF PreservedValues
<1>2. found \subseteq (1 .. Len(excluded)) \X (1 .. Len(preserved))
  BY DEF Pairs
<1> HIDE DEF values
<1>3. ASSUME NEW key \in DOMAIN values PROVE last(key) \in found /\ keyOf(last(key)) = key
  <2> DEFINE S == {x \in found : keyOf(x) = key}
  <2>1. S # {} /\ S \in SUBSET ((1 .. Len(excluded)) \X (1 .. Len(preserved)))
    BY <1>1, <1>2
  <2>2. \E x \in S : \A y \in S : NotAfter(y, x)
    <3> HIDE DEF S
    <3> QED
      BY <2>1, LastPair
  <2>3. \E x \in found : keyOf(x) = key /\ \A y \in found : keyOf(y) = key => NotAfter(y, x)
    BY <2>2
  <2> HIDE DEF found, keyOf
  <2> QED
    BY <2>3
<1>4. ASSUME NEW key \in DOMAIN values
      PROVE  \E x \in Pairs(excluded, preserved) :
                /\ key = keyOf(x) /\ place(x) \in DOMAIN o
                /\ values[key] = [place |-> place(x), held |-> "shared", value |-> Subtree(o, place(x))]
  <2>1. PICK x : x = last(key)
    OBVIOUS
  <2>2. x \in found /\ keyOf(x) = key /\ values[key] = [place |-> place(x), held |-> "shared", value |-> Subtree(o, place(x))]
    BY <1>1, <1>3, <2>1
  <2> QED
    BY <2>2
<1>5. ASSUME NEW x \in Pairs(excluded, preserved), place(x) \in DOMAIN o PROVE keyOf(x) \in DOMAIN values
  BY <1>1, <1>5
<1> QED
  BY <1>4, <1>5 DEF values
=============================================================================
