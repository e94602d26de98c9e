--------------------------- MODULE FileNamesProofs ---------------------------
(***************************************************************************)
(* Proofs about the files of a kind, for any instances, case mapping, page *)
(* size and file system: no export overwrites another when the names are   *)
(* apart, which they are when they look like those of Kubernetes.          *)
(***************************************************************************)
EXTENDS FileNames, FiniteSetTheorems, SequenceTheorems, TLAPS

(***************************************************************************)
(* The inductive invariant.                                                *)
(***************************************************************************)

\* The items of the page that get a number after the same names as i.
Waiting(i) == {j \in ToSet(page) : Key(j) = Key(i)}

PageOK ==
    /\ setup \in Setups
    /\ listed \subseteq Instances
    /\ page \in Seq(Instances) /\ IsInjective(page) /\ ToSet(page) \subseteq listed
    /\ names \in Seq({Key(i) : i \in Instances})
    /\ written \subseteq listed \ ToSet(page)

\* Without a limit a query is answered by one page.
WholeQueries ==
    Limit = 0 => \A query \in Queries : query \subseteq listed \/ query \cap listed = {}

\* No number exceeds the instances with the key.
CountsFit ==
    \A i \in Instances : NameCount(i) + Cardinality(Waiting(i)) <= Cardinality(SameKey(i))

\* An item has the file of a number that no other item of the page gets.
ItemsKept ==
    ~ setup.lists =>
        \A i \in written : \E n \in Indices(i) :
            /\ [path |-> OnDisk(setup, FileName(i, n)), instances |-> {i}, whole |-> TRUE] \in files
            /\ setup.pageSize = 0 => n < NameCount(i) \/ Waiting(i) = {}

\* The list of a namespace is written once its last item was listed.
ListsKept ==
    setup.lists =>
        \A i \in written :
            /\ \E f \in files : /\ f.path = OnDisk(setup, ListFileName(i.ns))
                                /\ i \in f.instances /\ f.whole
            /\ \A j \in ToSet(page) : j.ns # i.ns

NInv == PageOK /\ WholeQueries /\ CountsFit /\ ItemsKept /\ ListsKept

(***************************************************************************)
(* Lemmas about sequences without repetition and about counts.             *)
(***************************************************************************)

\* The rest of a sequence without repetition has all its elements but the first.
LEMMA TailDistinct ==
    ASSUME NEW S, NEW s \in Seq(S), s # <<>>, IsInjective(s)
    PROVE  /\ Tail(s) \in Seq(S) /\ IsInjective(Tail(s))
           /\ Head(s) \in ToSet(s) /\ ToSet(Tail(s)) = ToSet(s) \ {Head(s)}
<1>1. /\ Len(s) \in Nat /\ Len(s) > 0 /\ DOMAIN s = 1 .. Len(s)
      /\ Tail(s) \in Seq(S) /\ DOMAIN Tail(s) = 1 .. (Len(s) - 1)
      /\ \A k \in 1 .. (Len(s) - 1) : Tail(s)[k] = s[k + 1]
      /\ Head(s) = s[1]
  OBVIOUS
<1>2. IsInjective(Tail(s))
  <2> SUFFICES ASSUME NEW a \in 1 .. (Len(s) - 1), NEW b \in 1 .. (Len(s) - 1),
                      Tail(s)[a] = Tail(s)[b]
               PROVE  a = b
    BY <1>1 DEF IsInjective
  <2>1. a + 1 \in DOMAIN s /\ b + 1 \in DOMAIN s /\ s[a + 1] = s[b + 1]
    BY <1>1
  <2> QED
    BY <2>1 DEF IsInjective
<1>3. Head(s) \in ToSet(s)
  BY <1>1 DEF ToSet
<1>4. ASSUME NEW x \in ToSet(Tail(s)) PROVE x \in ToSet(s) \ {Head(s)}
  <2>1. PICK k \in 1 .. (Len(s) - 1) : x = Tail(s)[k]
    BY <1>1 DEF ToSet
  <2>2. k + 1 \in DOMAIN s /\ 1 \in DOMAIN s /\ k + 1 # 1 /\ x = s[k + 1]
    BY <1>1, <2>1
  <2> QED
    BY <1>1, <2>2 DEF ToSet, IsInjective
<1>5. ASSUME NEW x \in ToSet(s) \ {Head(s)} PROVE x \in ToSet(Tail(s))
  <2>1. PICK k \in 1 .. Len(s) : x = s[k]
    BY <1>1 DEF ToSet
  <2>2. k - 1 \in 1 .. (Len(s) - 1) /\ x = Tail(s)[k - 1]
    BY <1>1, <2>1
  <2> QED
    BY <1>1, <2>2 DEF ToSet
<1> QED
  BY <1>1, <1>2, <1>3, <1>4, <1>5

\* The elements of a sequence are finitely many.
LEMMA ElementsFinite ==
    ASSUME NEW S, NEW s \in Seq(S)
    PROVE  IsFiniteSet(ToSet(s)) /\ ToSet(s) \subseteq S
<1>1. Len(s) \in Nat /\ DOMAIN s = 1 .. Len(s)
  OBVIOUS
<1>2. IsFiniteSet(1 .. Len(s))
  BY <1>1, FS_Interval
<1>3. s \in Surjection(1 .. Len(s), ToSet(s))
  BY <1>1 DEF Surjection, ToSet
<1> QED
  BY <1>1, <1>2, <1>3, FS_Surjection DEF ToSet

\* An order of the elements of a finite set has each of them once.
LEMMA OrderOfSet ==
    ASSUME NEW S, IsFiniteSet(S)
    PROVE  /\ \A s \in SetToSeqs(S) : s \in Seq(S) /\ IsInjective(s) /\ ToSet(s) = S
           /\ SetToSeq(S) \in SetToSeqs(S)
<1> DEFINE n == Cardinality(S)
<1>1. n \in Nat /\ IsFiniteSet(1 .. n) /\ Cardinality(1 .. n) = n
  BY FS_CardinalityType, FS_Interval
<1>2. SetToSeqs(S) = {f \in [1 .. n -> S] : IsInjective(f)}
  BY DEF SetToSeqs, IsInjective
<1>3. SetToSeq(S) = CHOOSE f \in [1 .. n -> S] : IsInjective(f)
  BY DEF SetToSeq
<1>4. \E f \in [1 .. n -> S] : IsInjective(f)
  <2>1. PICK f \in Bijection(1 .. n, S) : TRUE
    BY FS_CardinalityType DEF ExistsBijection
  <2> QED
    BY <2>1 DEF Bijection, Injection, IsInjective
<1>5. ASSUME NEW s \in SetToSeqs(S) PROVE s \in Seq(S) /\ IsInjective(s) /\ ToSet(s) = S
  <2> HIDE DEF n
  <2>1. s \in [1 .. n -> S] /\ IsInjective(s)
    BY <1>2
  <2>2. s \in Injection(1 .. n, S)
    BY <2>1 DEF Injection, IsInjective
  <2>3. s \in Surjection(1 .. n, S)
    BY <1>1, <2>2, FS_Injection DEF n
  <2>4. ToSet(s) = S
    BY <2>1, <2>3 DEF ToSet, Surjection
  <2> QED
    BY <1>1, <2>1, <2>4
<1>6. SetToSeq(S) \in SetToSeqs(S)
  <2> HIDE DEF n
  <2> QED
    BY <1>2, <1>3, <1>4
<1> QED
  BY <1>5, <1>6

\* How often k occurs in s.
Count(s, k) == Cardinality({x \in DOMAIN s : s[x] = k})

LEMMA CountIsNat ==
    ASSUME NEW S, NEW s \in Seq(S), NEW k
    PROVE  Count(s, k) \in Nat
<1> DEFINE here == {x \in DOMAIN s : s[x] = k}
<1>1. IsFiniteSet(1 .. Len(s)) /\ here \in SUBSET (1 .. Len(s))
  BY FS_Interval
<1>2. IsFiniteSet(here)
  BY <1>1, FS_Subset
<1> QED
  BY <1>2, FS_CardinalityType DEF Count

\* Appending k makes it occur once more, and nothing else.
LEMMA AppendCounts ==
    ASSUME NEW S, NEW s \in Seq(S), NEW k \in S, NEW l
    PROVE  Count(Append(s, k), l) = IF l = k THEN Count(s, l) + 1 ELSE Count(s, l)
<1> DEFINE old == {x \in DOMAIN s : s[x] = l}
           new == {x \in DOMAIN Append(s, k) : Append(s, k)[x] = l}
<1>1. Len(s) \in Nat /\ DOMAIN s = 1 .. Len(s)
  OBVIOUS
<1>2. /\ DOMAIN Append(s, k) = 1 .. (Len(s) + 1)
      /\ Append(s, k)[Len(s) + 1] = k
      /\ \A x \in 1 .. Len(s) : Append(s, k)[x] = s[x]
  OBVIOUS
<1>3. IsFiniteSet(old) /\ Cardinality(old) \in Nat
  <2>1. IsFiniteSet(1 .. Len(s)) /\ old \in SUBSET (1 .. Len(s))
    BY <1>1, FS_Interval
  <2>2. IsFiniteSet(old)
    BY <2>1, FS_Subset
  <2> QED
    BY <2>2, FS_CardinalityType
<1>4. new = IF l = k THEN old \cup {Len(s) + 1} ELSE old
  BY <1>1, <1>2
<1>5. Len(s) + 1 \notin old
  BY <1>1
<1>6. Cardinality(new) = IF l = k THEN Cardinality(old) + 1 ELSE Cardinality(old)
  <2> HIDE DEF old, new
  <2> QED
    BY <1>3, <1>4, <1>5, FS_AddElement
<1> QED
  BY <1>6 DEF Count

\* An empty sequence has no elements, and nothing occurs in it.
LEMMA NothingIn == ToSet(<<>>) = {} /\ \A k : Count(<<>>, k) = 0
<1>1. DOMAIN <<>> = {}
  OBVIOUS
<1> QED
  BY <1>1, FS_EmptySet DEF ToSet, Count

(***************************************************************************)
(* The steps.                                                              *)
(***************************************************************************)

\* What is counted is finite.
LEMMA CountsAreNat ==
    ASSUME PageOK, NEW i \in Instances
    PROVE  /\ NameCount(i) = Count(names, Key(i)) /\ NameCount(i) \in Nat
           /\ IsFiniteSet(Waiting(i)) /\ Cardinality(Waiting(i)) \in Nat
           /\ IsFiniteSet(SameKey(i)) /\ Cardinality(SameKey(i)) \in Nat
           /\ Waiting(i) \subseteq SameKey(i)
<1>1. NameCount(i) = Count(names, Key(i))
  BY DEF NameCount, Count
<1>2. NameCount(i) \in Nat
  BY <1>1, CountIsNat DEF PageOK
<1>3. IsFiniteSet(ToSet(page)) /\ ToSet(page) \subseteq Instances
  BY ElementsFinite DEF PageOK
<1>4. IsFiniteSet(Waiting(i)) /\ Waiting(i) \subseteq SameKey(i)
  <2>1. Waiting(i) \in SUBSET ToSet(page)
    BY DEF Waiting
  <2> QED
    BY <1>3, <2>1, FS_Subset DEF Waiting, SameKey
<1>5. IsFiniteSet(SameKey(i))
  <2>1. SameKey(i) \in SUBSET Instances
    BY DEF SameKey
  <2> QED
    BY <2>1, FileNamesAssumption, FS_Subset
<1> QED
  BY <1>1, <1>2, <1>4, <1>5, FS_CardinalityType

\* The number of the item that is exported is one that it may get.
LEMMA HeadHasIndex ==
    ASSUME NInv, page # <<>>
    PROVE  /\ Head(page) \in Instances \ written
           /\ Head(page) \in Waiting(Head(page))
           /\ NameCount(Head(page)) \in Indices(Head(page))
<1> DEFINE i == Head(page)
<1>1. i \in Instances /\ i \in ToSet(page)
  BY TailDistinct DEF NInv, PageOK
<1>2. i \in Waiting(i)
  BY <1>1 DEF Waiting
<1>3. Cardinality(Waiting(i)) # 0
  BY <1>1, <1>2, CountsAreNat, FS_EmptySet DEF NInv
<1>4. NameCount(i) + Cardinality(Waiting(i)) <= Cardinality(SameKey(i))
  BY <1>1 DEF NInv, CountsFit
<1>5. NameCount(i) \in Indices(i)
  <2> HIDE DEF i
  <2> QED
    BY <1>1, <1>3, <1>4, CountsAreNat DEF Indices, NInv
<1> QED
  BY <1>1, <1>2, <1>5 DEF NInv, PageOK

\* An item that leaves the page takes the place it had among the numbers, if any.
LEMMA ItemLeaves ==
    ASSUME NInv, page # <<>>, NEW h, h = Head(page), page' = Tail(page), UNCHANGED <<setup, listed>>,
           names' \in {names, Append(names, Key(h))}
    PROVE  /\ page' \in Seq(Instances) /\ IsInjective(page')
           /\ ToSet(page') = ToSet(page) \ {h}
           /\ names' \in Seq({Key(i) : i \in Instances})
           /\ WholeQueries' /\ CountsFit'
           /\ \A i \in Instances : /\ NameCount(i)' >= NameCount(i)
                                   /\ Waiting(i)' = Waiting(i) \ {h}
           /\ names' # names => NameCount(h)' = NameCount(h) + 1
<1>1. /\ page' \in Seq(Instances) /\ IsInjective(page')
      /\ ToSet(page') = ToSet(page) \ {h}
  BY TailDistinct DEF NInv, PageOK
<1>2. h \in Instances /\ h \in Waiting(h)
  BY HeadHasIndex
<1>3. names' \in Seq({Key(i) : i \in Instances})
  <2>1. names \in Seq({Key(i) : i \in Instances}) /\ Key(h) \in {Key(i) : i \in Instances}
    BY <1>2 DEF NInv, PageOK
  <2> QED
    BY <2>1
<1>4. WholeQueries'
  BY DEF NInv, WholeQueries, Limit, Queries
<1>5. \A i \in Instances : Waiting(i)' = Waiting(i) \ {h}
  BY <1>1 DEF Waiting
<1>6. ASSUME NEW i \in Instances
      PROVE  /\ NameCount(i)' \in {NameCount(i), NameCount(i) + 1}
             /\ NameCount(i)' # NameCount(i) => Key(i) = Key(h)
             /\ names' # names => NameCount(h)' = NameCount(h) + 1
  <2>1. NameCount(i)' = Count(names', Key(i)) /\ NameCount(i) = Count(names, Key(i))
    BY DEF NameCount, Count
  <2>2. NameCount(h)' = Count(names', Key(h)) /\ NameCount(h) = Count(names, Key(h))
    BY DEF NameCount, Count
  <2>3. names \in Seq({Key(j) : j \in Instances}) /\ Key(h) \in {Key(j) : j \in Instances}
    BY <1>2 DEF NInv, PageOK
  <2>4. CASE names' = names
    BY <2>1, <2>4
  <2>5. CASE names' = Append(names, Key(h))
    <3> QED
      BY <2>1, <2>2, <2>3, <2>5, AppendCounts
  <2> QED
    BY <2>4, <2>5
<1>7. CountsFit'
  <2> SUFFICES ASSUME NEW i \in Instances
               PROVE  NameCount(i)' + Cardinality(Waiting(i)') <= Cardinality(SameKey(i))
    BY DEF CountsFit, SameKey, Key
  <2>1. NameCount(i) + Cardinality(Waiting(i)) <= Cardinality(SameKey(i))
    BY DEF NInv, CountsFit
  <2>2. Cardinality(Waiting(i)') = IF h \in Waiting(i) THEN Cardinality(Waiting(i)) - 1
                                                       ELSE Cardinality(Waiting(i))
    BY <1>5, CountsAreNat, FS_RemoveElement DEF NInv
  <2>3. NameCount(i)' # NameCount(i) => h \in Waiting(i)
    BY <1>2, <1>6 DEF Waiting
  <2> QED
    BY <1>6, <2>1, <2>2, <2>3, CountsAreNat DEF NInv
<1>8. \A i \in Instances : NameCount(i)' >= NameCount(i)
  BY <1>6, CountsAreNat DEF NInv
<1> QED
  BY <1>1, <1>2, <1>3, <1>4, <1>5, <1>6, <1>7, <1>8

\* The file of the item that is exported is not that of an instance already written.
LEMMA FileIsFree ==
    ASSUME NamesApart, NInv, page # <<>>, ~ setup.lists,
           NEW i \in written, NEW n \in Indices(i),
           setup.pageSize = 0 => n < NameCount(i) \/ Waiting(i) = {}
    PROVE  OnDisk(setup, FileName(i, n))
               # OnDisk(setup, FileName(Head(page), NameCount(Head(page))))
<1> DEFINE h == Head(page)
<1> SUFFICES ASSUME OnDisk(setup, FileName(i, n)) = OnDisk(setup, FileName(h, NameCount(h)))
             PROVE  FALSE
  OBVIOUS
<1>1. i \in Instances /\ h \in Instances /\ i # h
  BY HeadHasIndex DEF NInv, PageOK
<1>2. setup.pageSize = 0 /\ Key(i) = Key(h) /\ n = NameCount(h)
  BY <1>1, HeadHasIndex DEF NamesApart, NInv, PageOK
<1>3. h \in Waiting(i) /\ NameCount(i) = NameCount(h)
  BY <1>2, HeadHasIndex DEF Waiting, NameCount
<1>4. NameCount(i) \in Nat
  BY <1>1, CountsAreNat DEF NInv
<1> QED
  BY <1>2, <1>3, <1>4

\* An item that is written, that fails or that is skipped leaves the others their files.
LEMMA ItemKeepsFiles ==
    ASSUME NamesApart, NInv, page # <<>>, ~ setup.lists,
           NEW h, h = Head(page), page' = Tail(page),
           UNCHANGED <<setup, listed>>,
           names' \in {names, Append(names, Key(h))},
           NEW whole \in BOOLEAN,
           files' \in {files, Create(FileName(h, NameCount(h)), {h}, whole)},
           \/ written' = written
           \/ /\ written' = written \cup {h}
              /\ files' = Create(FileName(h, NameCount(h)), {h}, TRUE)
              /\ names' # names
    PROVE  NInv'
<1> DEFINE k == NameCount(h)
<1>1. PageOK' /\ WholeQueries' /\ CountsFit'
  BY ItemLeaves, HeadHasIndex, TailDistinct DEF NInv, PageOK
<1>2. ListsKept'
  BY DEF ListsKept
<1>3. ASSUME NEW i \in written'
      PROVE  \E n \in Indices(i) :
                /\ [path |-> OnDisk(setup, FileName(i, n)), instances |-> {i}, whole |-> TRUE]
                        \in files'
                /\ setup.pageSize = 0 => n < NameCount(i)' \/ Waiting(i)' = {}
  <2>1. CASE i \in written
    <3>1. PICK n \in Indices(i) :
             /\ [path |-> OnDisk(setup, FileName(i, n)), instances |-> {i}, whole |-> TRUE]
                     \in files
             /\ setup.pageSize = 0 => n < NameCount(i) \/ Waiting(i) = {}
      BY <2>1 DEF NInv, ItemsKept
    <3>2. OnDisk(setup, FileName(i, n)) # OnDisk(setup, FileName(h, k))
      BY <2>1, <3>1, FileIsFree
    <3>3. [path |-> OnDisk(setup, FileName(i, n)), instances |-> {i}, whole |-> TRUE] \in files'
      BY <3>1, <3>2 DEF Create
    <3>4. i \in Instances /\ n \in Int
      BY <2>1 DEF NInv, PageOK, Indices
    <3>5. NameCount(i)' >= NameCount(i) /\ Waiting(i)' = Waiting(i) \ {h}
          /\ NameCount(i) \in Nat /\ NameCount(i)' \in Nat
      <4>1. NameCount(i)' = Count(names', Key(i))
        BY DEF NameCount, Count
      <4>2. NameCount(i)' \in Nat
        BY <1>1, <4>1, CountIsNat DEF PageOK
      <4> QED
        BY <3>4, <4>2, ItemLeaves, CountsAreNat DEF NInv
    <3>6. setup.pageSize = 0 => n < NameCount(i)' \/ Waiting(i)' = {}
      BY <3>1, <3>4, <3>5
    <3> QED
      BY <3>3, <3>6
  <2>2. CASE i \notin written
    <3>1. i = h /\ files' = Create(FileName(h, k), {h}, TRUE) /\ names' # names
      BY <2>2
    <3>2. k \in Indices(h) /\ h \in Instances /\ k \in Nat /\ NameCount(h)' = k + 1
      BY <3>1, HeadHasIndex, ItemLeaves, CountsAreNat DEF NInv
    <3>3. [path |-> OnDisk(setup, FileName(h, k)), instances |-> {h}, whole |-> TRUE] \in files'
      BY <3>1 DEF Create
    <3>4. k < NameCount(h)'
      BY <3>2
    <3> QED
      BY <3>1, <3>2, <3>3, <3>4
  <2> QED
    BY <2>1, <2>2
<1>4. ItemsKept'
  BY <1>3 DEF ItemsKept, Indices, SameKey, Key, FileName
<1> QED
  BY <1>1, <1>2, <1>4 DEF NInv

\* A page has all that its query finds if there is no limit.
LEMMA NextPageKeepsFiles ==
    ASSUME NInv, NextPage
    PROVE  NInv'
<1>1. PICK query \in Queries :
         LET rest == query \ listed
             size == IF Limit = 0 \/ Limit > Cardinality(rest) THEN Cardinality(rest) ELSE Limit
         IN  /\ rest # {}
             /\ \A other \in Queries \ {query} : other \subseteq listed \/ other \cap listed = {}
             /\ \E items \in {s \in SUBSET rest : Cardinality(s) = size} :
                   /\ listed' = listed \cup items
                   /\ page' \in SetToSeqs(items)
  BY DEF NextPage
<1> DEFINE rest == query \ listed
<1>2. PICK items \in SUBSET rest :
         /\ listed' = listed \cup items
         /\ page' \in SetToSeqs(items)
         /\ Limit = 0 => Cardinality(items) = Cardinality(rest)
  BY <1>1
<1>3. page = <<>> /\ names' = <<>> /\ UNCHANGED <<setup, files, written, failed>>
  BY DEF NextPage
<1>4. query \subseteq Instances /\ IsFiniteSet(rest) /\ IsFiniteSet(items)
  <2>1. query \subseteq Instances
    BY DEF Queries
  <2>2. rest \in SUBSET Instances /\ items \in SUBSET rest
    BY <2>1
  <2> HIDE DEF rest
  <2>3. IsFiniteSet(rest)
    BY <2>2, FileNamesAssumption, FS_Subset
  <2> QED
    BY <2>1, <2>2, <2>3, FS_Subset
<1>5. page' \in Seq(items) /\ IsInjective(page') /\ ToSet(page') = items
  BY <1>2, <1>4, OrderOfSet
<1>6. PageOK'
  <2>1. items \subseteq Instances \ listed
    BY <1>4
  <2>2. page' \in Seq(Instances) /\ names' \in Seq({Key(i) : i \in Instances})
    BY <1>3, <1>5, <2>1
  <2> QED
    BY <1>2, <1>3, <1>5, <2>1, <2>2 DEF NInv, PageOK, Key
<1>7. Limit = 0 => items = rest
  <2> HIDE DEF rest
  <2> QED
    BY <1>2, <1>4, FS_Subset
<1>8. Limit' = Limit /\ Queries' = Queries
  BY <1>3 DEF Limit, Queries
<1>9. ASSUME Limit = 0, NEW i \in Instances, i \in listed, NEW j \in items
      PROVE  i.ns # j.ns
  <2>1. i \notin query
    <3>1. query \subseteq listed \/ query \cap listed = {}
      BY <1>9 DEF NInv, WholeQueries
    <3> QED
      BY <1>1, <1>9, <3>1
  <2>2. j \in query
    OBVIOUS
  <2> QED
    BY <1>9, <2>1, <2>2 DEF Queries
<1>10. WholeQueries'
  <2> SUFFICES ASSUME Limit = 0, NEW other \in Queries
               PROVE  other \subseteq listed' \/ other \cap listed' = {}
    BY <1>8 DEF WholeQueries
  <2>1. listed' = listed \cup query
    BY <1>2, <1>7
  <2>2. CASE other = query
    BY <2>1, <2>2
  <2>3. CASE other # query
    <3>1. other \subseteq listed \/ other \cap listed = {}
      BY <1>1, <2>3
    <3>2. other \cap query = {}
      BY <2>3 DEF Queries
    <3> QED
      BY <2>1, <3>1, <3>2
  <2> QED
    BY <2>2, <2>3
<1>11. CountsFit'
  <2> SUFFICES ASSUME NEW i \in Instances
               PROVE  NameCount(i)' + Cardinality(Waiting(i)') <= Cardinality(SameKey(i))
    BY DEF CountsFit, SameKey, Key
  <2>1. NameCount(i)' = Count(names', Key(i))
    BY DEF NameCount, Count
  <2>2. NameCount(i)' = 0
    BY <1>3, <2>1, NothingIn
  <2>3. Waiting(i)' \in SUBSET SameKey(i)
    BY <1>4, <1>5 DEF Waiting, SameKey
  <2>4. IsFiniteSet(Waiting(i)') /\ Cardinality(Waiting(i)') <= Cardinality(SameKey(i))
    BY <2>3, CountsAreNat, FS_Subset DEF NInv
  <2>5. Cardinality(Waiting(i)') \in Nat
    BY <2>4, FS_CardinalityType
  <2> QED
    BY <2>2, <2>4, <2>5, CountsAreNat DEF NInv
<1>12. ItemsKept'
  <2> SUFFICES ASSUME ~ setup.lists, NEW i \in written
               PROVE  \E n \in Indices(i) :
                         /\ [path |-> OnDisk(setup, FileName(i, n)), instances |-> {i},
                             whole |-> TRUE] \in files
                         /\ setup.pageSize = 0 => n < NameCount(i)' \/ Waiting(i)' = {}
    BY <1>3 DEF ItemsKept, Indices, SameKey, Key, FileName, OnDisk, ListFileName
  <2>1. i \in Instances /\ i \in listed
    BY DEF NInv, PageOK
  <2>2. setup.pageSize = 0 => Waiting(i)' = {}
    <3> SUFFICES ASSUME setup.pageSize = 0, NEW j \in items, Key(j) = Key(i)
                 PROVE  FALSE
      BY <1>5 DEF Waiting, Key
    <3>1. Limit = 0
      BY DEF Limit
    <3>2. i.ns = j.ns
      BY DEF Key
    <3> QED
      BY <1>9, <2>1, <3>1, <3>2
  <2> QED
    BY <2>2 DEF NInv, ItemsKept
<1>13. ListsKept'
  <2> SUFFICES ASSUME setup.lists, NEW i \in written
               PROVE  /\ \E f \in files : /\ f.path = OnDisk(setup, ListFileName(i.ns))
                                          /\ i \in f.instances /\ f.whole
                      /\ \A j \in items : j.ns # i.ns
    BY <1>3, <1>5 DEF ListsKept, OnDisk, ListFileName
  <2>1. i \in Instances /\ i \in listed /\ Limit = 0
    BY DEF NInv, PageOK, Limit
  <2> QED
    BY <1>9, <2>1 DEF NInv, ListsKept
<1> QED
  BY <1>6, <1>10, <1>11, <1>12, <1>13 DEF NInv

\* The list of one namespace is not that of another.
LEMMA ListsApart ==
    ASSUME NEW s \in Setups, NEW a, NEW b, OnDisk(s, ListFileName(a)) = OnDisk(s, ListFileName(b))
    PROVE  a = b
<1>1. OnDisk(s, ListFileName(a)).ns = a /\ OnDisk(s, ListFileName(b)).ns = b
  BY DEF OnDisk, ListFileName
<1> QED
  BY <1>1

\* The items of a namespace leave the page together.
LEMMA ListKeepsFiles ==
    ASSUME NInv, setup.lists, NEW ns, NEW kept, NEW whole \in BOOLEAN, NEW instances,
           kept \subseteq {i \in ToSet(page) : i.ns = ns},
           page' = SetToSeq(ToSet(page) \ {i \in ToSet(page) : i.ns = ns}),
           UNCHANGED <<setup, listed, names>>,
           files' \in {files, Create(ListFileName(ns), instances, whole)},
           {i \in ToSet(page) : i.ns = ns} # {},
           written' = written \cup kept,
           kept # {} => files' = Create(ListFileName(ns), kept, TRUE)
    PROVE  NInv'
<1> DEFINE rest == ToSet(page) \ {i \in ToSet(page) : i.ns = ns}
<1>1. IsFiniteSet(rest)
  <2>1. rest \in SUBSET ToSet(page) /\ IsFiniteSet(ToSet(page))
    BY ElementsFinite DEF NInv, PageOK
  <2> QED
    BY <2>1, FS_Subset
<1>2. page' \in Seq(rest) /\ IsInjective(page') /\ ToSet(page') = rest
  <2> HIDE DEF rest
  <2>1. page' = SetToSeq(rest)
    BY DEF rest
  <2> QED
    BY <1>1, <2>1, OrderOfSet
<1>3. PageOK'
  <2>1. ToSet(page) \subseteq Instances
    BY ElementsFinite DEF NInv, PageOK
  <2>2. page' \in Seq(Instances)
    BY <1>2, <2>1
  <2> QED
    BY <1>2, <2>2 DEF NInv, PageOK, Key
<1>4. WholeQueries'
  BY DEF NInv, WholeQueries, Limit, Queries
<1>5. CountsFit'
  <2> SUFFICES ASSUME NEW i \in Instances
               PROVE  NameCount(i)' + Cardinality(Waiting(i)') <= Cardinality(SameKey(i))
    BY DEF CountsFit, SameKey, Key
  <2>1. NameCount(i)' = NameCount(i)
    BY DEF NameCount, Key
  <2>2. Waiting(i)' \in SUBSET Waiting(i)
    BY <1>2 DEF Waiting, Key
  <2>3. IsFiniteSet(Waiting(i)')
    BY <2>2, CountsAreNat, FS_Subset DEF NInv
  <2>4. Cardinality(Waiting(i)') <= Cardinality(Waiting(i)) /\ Cardinality(Waiting(i)') \in Nat
    BY <2>2, <2>3, CountsAreNat, FS_Subset, FS_CardinalityType DEF NInv
  <2>5. NameCount(i) + Cardinality(Waiting(i)) <= Cardinality(SameKey(i))
    BY DEF NInv, CountsFit
  <2> QED
    BY <2>1, <2>4, <2>5, CountsAreNat DEF NInv
<1>6. ItemsKept'
  BY DEF ItemsKept
<1>7. ListsKept'
  <2> SUFFICES ASSUME NEW i \in written'
               PROVE  /\ \E f \in files' : /\ f.path = OnDisk(setup, ListFileName(i.ns))
                                           /\ i \in f.instances /\ f.whole
                      /\ \A j \in rest : j.ns # i.ns
    BY <1>2 DEF ListsKept, OnDisk, ListFileName
  <2>1. CASE i \in kept
    <3>1. i.ns = ns /\ files' = Create(ListFileName(ns), kept, TRUE)
      BY <2>1
    <3>2. [path |-> OnDisk(setup, ListFileName(ns)), instances |-> kept, whole |-> TRUE]
              \in files'
      BY <3>1 DEF Create
    <3>3. \A j \in rest : j.ns # i.ns
      BY <3>1
    <3> QED
      BY <2>1, <3>1, <3>2, <3>3
  <2>2. CASE i \in written
    <3>1. PICK f \in files : /\ f.path = OnDisk(setup, ListFileName(i.ns))
                             /\ i \in f.instances /\ f.whole
      BY <2>2 DEF NInv, ListsKept
    <3>2. \A j \in ToSet(page) : j.ns # i.ns
      BY <2>2 DEF NInv, ListsKept
    <3>3. ns # i.ns
      BY <3>2
    <3>4. f.path # OnDisk(setup, ListFileName(ns))
      BY <3>1, <3>3, ListsApart DEF NInv, PageOK
    <3>5. f \in files'
      BY <3>4 DEF Create
    <3> QED
      BY <3>1, <3>2, <3>5
  <2> QED
    BY <2>1, <2>2
<1> QED
  BY <1>3, <1>4, <1>5, <1>6, <1>7 DEF NInv

LEMMA NInvInit == Init => NInv
<1> SUFFICES ASSUME Init PROVE NInv
  OBVIOUS
<1>1. page = <<>> /\ names = <<>> /\ listed = {} /\ written = {} /\ setup \in Setups
  BY DEF Init
<1>2. PageOK
  BY <1>1, NothingIn DEF PageOK, IsInjective
<1>3. CountsFit
  <2> SUFFICES ASSUME NEW i \in Instances
               PROVE  NameCount(i) + Cardinality(Waiting(i)) <= Cardinality(SameKey(i))
    BY DEF CountsFit
  <2>1. Waiting(i) = {}
    BY <1>1, NothingIn DEF Waiting
  <2>2. Cardinality(Waiting(i)) = 0
    BY <2>1, FS_EmptySet
  <2>3. NameCount(i) = 0
    BY <1>1, NothingIn DEF NameCount, Count
  <2> QED
    BY <1>2, <2>2, <2>3, CountsAreNat
<1> QED
  BY <1>1, <1>2, <1>3 DEF NInv, WholeQueries, ItemsKept, ListsKept

LEMMA NInvNext == ASSUME NamesApart, NInv, [Next]_vars PROVE NInv'
<1>1. CASE NextPage
  BY <1>1, NextPageKeepsFiles
<1>2. CASE Export
  <2>1. PICK h : h = Head(page)
    OBVIOUS
  <2>2. /\ page # <<>> /\ ~ setup.lists /\ page' = Tail(page) /\ UNCHANGED <<setup, listed>>
        /\ names' = Append(names, Key(h))
        /\ files' = Create(FileName(h, NameCount(h)), {h}, TRUE)
        /\ written' = written \cup {h}
    BY <1>2, <2>1 DEF Export
  <2>3. names' # names
    <3>1. Len(Append(names, Key(h))) = Len(names) + 1 /\ Len(names) \in Nat
      <4>1. names \in Seq({Key(i) : i \in Instances}) /\ h \in Instances
        BY <2>1, <2>2, HeadHasIndex DEF NInv, PageOK
      <4> QED
        BY <4>1
    <3> QED
      BY <2>2, <3>1
  <2> QED
    BY <2>1, <2>2, <2>3, ItemKeepsFiles
<1>3. CASE ExportFails
  BY <1>3, ItemKeepsFiles DEF ExportFails
<1>4. CASE Skip
  BY <1>4, ItemKeepsFiles DEF Skip
<1>5. ASSUME NEW ns \in {i.ns : i \in Instances}, ExportList(ns) PROVE NInv'
  BY <1>5, ListKeepsFiles DEF ExportList
<1>6. ASSUME NEW ns \in {i.ns : i \in Instances}, ExportListFails(ns) PROVE NInv'
  <2> DEFINE items == {i \in ToSet(page) : i.ns = ns}
  <2>1. /\ setup.lists /\ items # {} /\ UNCHANGED <<setup, listed, names>>
        /\ files' \in {files, Create(ListFileName(ns), items, FALSE)}
        /\ page' = SetToSeq(ToSet(page) \ items)
        /\ written' = written \cup {}
    BY <1>6 DEF ExportListFails
  <2> QED
    BY <2>1, ListKeepsFiles
<1>7. CASE UNCHANGED vars
  BY <1>7 DEF vars, NInv, PageOK, WholeQueries, CountsFit, ItemsKept, ListsKept, Limit, Queries,
              NameCount, Waiting, SameKey, Indices, Key, FileName, OnDisk, ListFileName
<1> QED
  BY <1>1, <1>2, <1>3, <1>4, <1>5, <1>6, <1>7 DEF Next, Done

\* If the names are apart, every instance counted as exported stays in a complete file,
\* whatever is exported, skipped or fails after it (exportSingleResources, exportLists).
THEOREM ExportsAreKept ==
    ASSUME NamesApart
    PROVE  Spec => []OwnFile
<1>1. NInv => OwnFile
  <2> SUFFICES ASSUME NInv, NEW i \in written
               PROVE  \E f \in files : i \in f.instances /\ f.whole
    BY DEF OwnFile
  <2>1. CASE setup.lists
    BY <2>1 DEF NInv, ListsKept
  <2>2. CASE ~ setup.lists
    <3>1. PICK n \in Indices(i) :
            [path |-> OnDisk(setup, FileName(i, n)), instances |-> {i}, whole |-> TRUE] \in files
      BY <2>2 DEF NInv, ItemsKept
    <3> QED
      BY <3>1
  <2> QED
    BY <2>1, <2>2
<1>2. NInv /\ [Next]_vars => NInv'
  BY NInvNext
<1> QED
  BY <1>1, <1>2, NInvInit, PTL DEF Spec

(***************************************************************************)
(* Names as most kinds of Kubernetes have them are apart.                  *)
(***************************************************************************)

\* The signs that are the same in a file name, and are not taken for the "_" before
\* a number.
PlainChars == {c \in Chars : Clean[c] = c /\ c # Separator /\ Lower[c] # Separator}

\* What DNS subdomain names satisfy: they have no sign that is replaced and no "_", and
\* their letters are lower case, which matters only with pages on a file system
\* that ignores case.
PlainNames ==
    /\ Clean[Separator] = Separator /\ Lower[Separator] = Separator
    /\ \A n \in DOMAIN Digits : \A k \in DOMAIN Digits[n] :
          Clean[Digits[n][k]] = Digits[n][k] /\ Lower[Digits[n][k]] = Digits[n][k]
    /\ IsInjective(Digits)
    /\ \A i \in Instances : \A k \in DOMAIN i.name : i.name[k] \in PlainChars
    /\ \A s \in Setups : \/ s.lists \/ s.pageSize = 0 \/ s.caseSensitive
                         \/ \A i \in Instances : \A k \in DOMAIN i.name :
                                Lower[i.name[k]] = i.name[k]

\* How a sign is compared by the file system of s.
Folded(s, c) == IF s.caseSensitive THEN c ELSE Lower[c]

\* A name with a number.
Numbered(x, d) == x \o <<Separator>> \o d

\* Where its parts are.
HasParts(y, x, a, d, e) ==
    /\ a \in Nat /\ e \in Nat /\ DOMAIN x = 1 .. a /\ DOMAIN d = 1 .. e
    /\ DOMAIN y = 1 .. (a + 1 + e)
    /\ \A k \in 1 .. a : y[k] = x[k]
    /\ y[a + 1] = Separator
    /\ \A k \in 1 .. e : y[a + 1 + k] = d[k]

LEMMA NumberedParts ==
    ASSUME NEW x \in Seq(Chars), NEW d \in Seq(Chars)
    PROVE  HasParts(Numbered(x, d), x, Len(x), d, Len(d))
<1> PICK y, a, e : y = Numbered(x, d) /\ a = Len(x) /\ e = Len(d)
  OBVIOUS
<1>1. a \in Nat /\ e \in Nat /\ DOMAIN x = 1 .. a /\ DOMAIN d = 1 .. e
  BY LenProperties
<1>2. PICK z : z = x \o <<Separator>>
  OBVIOUS
<1>3. /\ z \in Seq(Chars) /\ Len(z) = a + 1
      /\ \A k \in 1 .. a : z[k] = x[k]
      /\ z[a + 1] = Separator
  <2>1. <<Separator>> \in Seq(Chars) /\ Len(<<Separator>>) = 1 /\ <<Separator>>[1] = Separator
    BY FileNamesAssumption
  <2>2. z \in Seq(Chars) /\ Len(z) = a + 1
    BY <1>2, <2>1, ConcatProperties
  <2>3. \A k \in 1 .. (a + 1) : z[k] = IF k <= a THEN x[k] ELSE <<Separator>>[k - a]
    BY <1>2, <2>1, ConcatProperties
  <2>4. a + 1 \in 1 .. (a + 1) /\ (a + 1) - a = 1 /\ ~ a + 1 <= a
        /\ 1 .. a \subseteq 1 .. (a + 1)
    BY <1>1
  <2>5. z[a + 1] = Separator
    BY <2>1, <2>3, <2>4
  <2>6. \A k \in 1 .. a : z[k] = x[k]
    BY <1>1, <2>3, <2>4
  <2> QED
    BY <2>2, <2>5, <2>6
<1>4. y = z \o d
  BY <1>2 DEF Numbered
<1>5. /\ y \in Seq(Chars) /\ Len(y) = a + 1 + e
      /\ \A k \in 1 .. (a + 1 + e) : y[k] = IF k <= a + 1 THEN z[k] ELSE d[k - (a + 1)]
  <2>1. PICK c : c = Len(z) /\ c = a + 1
    BY <1>3
  <2>2. /\ y \in Seq(Chars) /\ Len(y) = c + e
        /\ \A k \in 1 .. c + e : y[k] = IF k <= c THEN z[k] ELSE d[k - c]
    <3>1. z \in Seq(Chars)
      BY <1>3
    <3>2. /\ z \o d \in Seq(Chars) /\ Len(z \o d) = Len(z) + Len(d)
          /\ \A k \in 1 .. Len(z) + Len(d) :
                (z \o d)[k] = IF k <= Len(z) THEN z[k] ELSE d[k - Len(z)]
      BY <3>1, ConcatProperties
    <3> QED
      BY <1>4, <2>1, <3>2
  <2> QED
    BY <2>1, <2>2
<1>6. DOMAIN y = 1 .. (a + 1 + e)
  BY <1>5, LenProperties
<1>7. \A k \in 1 .. (a + 1) : y[k] = z[k]
  <2>1. \A k \in 1 .. (a + 1) : k \in 1 .. (a + 1 + e) /\ k <= a + 1
    BY <1>1
  <2> QED
    BY <1>5, <2>1
<1>8. \A k \in 1 .. e : y[a + 1 + k] = d[k]
  <2>1. \A k \in 1 .. e : /\ a + 1 + k \in 1 .. (a + 1 + e) /\ ~ a + 1 + k <= a + 1
                          /\ (a + 1 + k) - (a + 1) = k
    BY <1>1
  <2> QED
    BY <1>5, <2>1
<1>9. a + 1 \in 1 .. (a + 1) /\ 1 .. a \subseteq 1 .. (a + 1)
  BY <1>1
<1> QED
  BY <1>1, <1>3, <1>6, <1>7, <1>8, <1>9 DEF HasParts

\* In the file name t of an instance with a name of length a, the name comes first, and
\* then, if its number m is not 0, the separator and the number.
HasName(s, i, a, t) ==
    /\ t.ns = i.ns
    /\ \A k \in 1 .. a : /\ k \in DOMAIN t.name /\ t.name[k] # Separator
                         /\ t.name[k] = Folded(s, i.name[k])

HasNumber(m, a, t) ==
    \/ m = 0 /\ DOMAIN t.name = 1 .. a
    \/ \E d \in Seq(Chars), e \in Nat :
          /\ m \in DOMAIN Digits /\ d = Digits[m] /\ DOMAIN d = 1 .. e
          /\ DOMAIN t.name = 1 .. (a + 1 + e)
          /\ t.name[a + 1] = Separator
          /\ \A k \in 1 .. e : t.name[a + 1 + k] = d[k]

LEMMA StoredName ==
    ASSUME PlainNames, NEW s \in Setups, NEW i \in Instances, NEW m \in Indices(i),
           NEW a, a = Len(i.name)
    PROVE  /\ HasName(s, i, a, OnDisk(s, FileName(i, m)))
           /\ HasNumber(m, a, OnDisk(s, FileName(i, m)))
<1>1. i.name \in Seq(Chars) /\ a \in Nat /\ DOMAIN i.name = 1 .. a
  BY FileNamesAssumption, LenProperties
<1>2. m \in Nat /\ (m > 0 => m \in DOMAIN Digits)
  <2>1. SameKey(i) \in SUBSET Instances
    BY DEF SameKey
  <2>2. /\ Cardinality(SameKey(i)) <= Cardinality(Instances)
        /\ Cardinality(SameKey(i)) \in Nat /\ Cardinality(Instances) \in Nat
    BY <2>1, FileNamesAssumption, FS_Subset, FS_CardinalityType
  <2>3. DOMAIN Digits = 1 .. Cardinality(Instances)
    BY FileNamesAssumption
  <2> QED
    BY <2>2, <2>3 DEF Indices
<1>3. PICK raw, t : /\ t = OnDisk(s, FileName(i, m))
                    /\ raw = IF m > 0 THEN Numbered(i.name, Digits[m]) ELSE i.name
  OBVIOUS
<1>4. /\ t.ns = i.ns /\ DOMAIN t.name = DOMAIN raw
      /\ \A k \in DOMAIN raw : t.name[k] = Folded(s, Clean[raw[k]])
  <2>1. FileName(i, m) = [ns |-> i.ns, name |-> Map(Clean, raw)]
    BY <1>3 DEF FileName, Numbered
  <2>2. t = [ns |-> i.ns, name |-> IF s.caseSensitive THEN Map(Clean, raw)
                                                      ELSE Map(Lower, Map(Clean, raw))]
    BY <1>3, <2>1 DEF OnDisk
  <2> QED
    BY <2>2 DEF Map, Folded
<1>5. ASSUME \A k \in 1 .. a : k \in DOMAIN raw /\ raw[k] = i.name[k]
      PROVE  HasName(s, i, a, t)
  <2> SUFFICES ASSUME NEW k \in 1 .. a
               PROVE  /\ k \in DOMAIN t.name /\ t.name[k] # Separator
                      /\ t.name[k] = Folded(s, i.name[k])
    BY <1>4 DEF HasName
  <2>1. i.name[k] \in PlainChars
    BY <1>1 DEF PlainNames
  <2> QED
    BY <1>4, <1>5, <2>1 DEF PlainChars, Folded
<1>6. CASE m = 0
  <2>1. raw = i.name
    BY <1>3, <1>6
  <2>2. HasName(s, i, a, t)
    BY <1>1, <1>5, <2>1
  <2>3. HasNumber(m, a, t)
    BY <1>1, <1>4, <1>6, <2>1 DEF HasNumber
  <2> QED
    BY <1>3, <2>2, <2>3
<1>7. CASE m > 0
  <2>1. PICK d \in Seq(Chars), e \in Nat : m \in DOMAIN Digits /\ d = Digits[m] /\ e = Len(d)
    BY <1>2, <1>7, FileNamesAssumption, LenProperties
  <2>2. raw = Numbered(i.name, d)
    BY <1>3, <1>7, <2>1
  <2>3. /\ e \in Nat /\ DOMAIN d = 1 .. e
        /\ DOMAIN raw = 1 .. (a + 1 + e)
        /\ \A k \in 1 .. a : raw[k] = i.name[k]
        /\ raw[a + 1] = Separator
        /\ \A k \in 1 .. e : raw[a + 1 + k] = d[k]
    <3>1. HasParts(Numbered(i.name, d), i.name, Len(i.name), d, Len(d))
      BY <1>1, NumberedParts
    <3> QED
      BY <2>1, <2>2, <3>1 DEF HasParts
  <2>4. /\ 1 .. a \subseteq 1 .. (a + 1 + e) /\ a + 1 \in 1 .. (a + 1 + e)
        /\ \A k \in 1 .. e : a + 1 + k \in 1 .. (a + 1 + e)
    BY <1>1, <2>3
  <2>5. HasName(s, i, a, t)
    BY <1>5, <2>3, <2>4
  <2>6. t.name[a + 1] = Separator
    <3>1. Folded(s, Clean[Separator]) = Separator
      BY DEF PlainNames, Folded
    <3> QED
      BY <1>4, <2>3, <2>4, <3>1
  <2>7. ASSUME NEW k \in 1 .. e PROVE t.name[a + 1 + k] = d[k]
    <3>1. Clean[d[k]] = d[k] /\ Lower[d[k]] = d[k]
      BY <2>1, <2>3 DEF PlainNames
    <3>2. PICK q : q = a + 1 + k /\ q \in DOMAIN raw /\ raw[q] = d[k]
      BY <2>3, <2>4
    <3>3. t.name[q] = d[k]
      BY <1>4, <3>1, <3>2 DEF Folded
    <3> QED
      BY <3>2, <3>3
  <2>8. HasNumber(m, a, t)
    BY <1>4, <2>1, <2>3, <2>6, <2>7 DEF HasNumber
  <2> QED
    BY <1>3, <2>5, <2>8
<1> QED
  BY <1>2, <1>6, <1>7

\* A "_" tells where the name ends: names of the same file are as long, and alike.
LEMMA SameFileSameName ==
    ASSUME PlainNames, NEW s \in Setups, NEW i \in Instances, NEW j \in Instances,
           NEW m \in Indices(i), NEW n \in Indices(j),
           OnDisk(s, FileName(i, m)) = OnDisk(s, FileName(j, n))
    PROVE  /\ i.ns = j.ns /\ Len(i.name) = Len(j.name) /\ m = n
           /\ \A k \in 1 .. Len(i.name) : Folded(s, i.name[k]) = Folded(s, j.name[k])
<1>1. PICK a \in Nat, b \in Nat : a = Len(i.name) /\ b = Len(j.name)
  BY FileNamesAssumption, LenProperties
<1>2. PICK t : /\ HasName(s, i, a, t) /\ HasNumber(m, a, t)
               /\ HasName(s, j, b, t) /\ HasNumber(n, b, t)
  BY <1>1, StoredName
<1>3. /\ a + 1 \in DOMAIN t.name => t.name[a + 1] = Separator
      /\ b + 1 \in DOMAIN t.name => t.name[b + 1] = Separator
  <2>1. /\ DOMAIN t.name = 1 .. a \/ t.name[a + 1] = Separator
        /\ DOMAIN t.name = 1 .. b \/ t.name[b + 1] = Separator
    BY <1>2 DEF HasNumber
  <2>2. a + 1 \notin 1 .. a /\ b + 1 \notin 1 .. b
    OBVIOUS
  <2> QED
    BY <2>1, <2>2
<1>4. ~ a < b
  <2> SUFFICES ASSUME a < b PROVE FALSE
    OBVIOUS
  <2>1. a + 1 \in 1 .. b
    OBVIOUS
  <2> QED
    BY <1>2, <1>3, <2>1 DEF HasName
<1>5. ~ b < a
  <2> SUFFICES ASSUME b < a PROVE FALSE
    OBVIOUS
  <2>1. b + 1 \in 1 .. a
    OBVIOUS
  <2> QED
    BY <1>2, <1>3, <2>1 DEF HasName
<1>6. a = b
  BY <1>4, <1>5
<1>7. ASSUME NEW e \in Nat PROVE 1 .. (a + 1 + e) # 1 .. a
  <2>1. a + 1 \in 1 .. (a + 1 + e) /\ a + 1 \notin 1 .. a
    OBVIOUS
  <2> QED
    BY <2>1
<1>8. m = n
  <2>1. CASE DOMAIN t.name = 1 .. a
    BY <1>2, <1>6, <1>7, <2>1 DEF HasNumber
  <2>2. CASE DOMAIN t.name # 1 .. a
    <3>1. PICK d \in Seq(Chars), e \in Nat :
             /\ m \in DOMAIN Digits /\ d = Digits[m] /\ DOMAIN d = 1 .. e
             /\ DOMAIN t.name = 1 .. (a + 1 + e)
             /\ \A k \in 1 .. e : t.name[a + 1 + k] = d[k]
      BY <1>2, <2>2 DEF HasNumber
    <3>2. PICK c \in Seq(Chars), f \in Nat :
             /\ n \in DOMAIN Digits /\ c = Digits[n] /\ DOMAIN c = 1 .. f
             /\ DOMAIN t.name = 1 .. (a + 1 + f)
             /\ \A k \in 1 .. f : t.name[a + 1 + k] = c[k]
      BY <1>2, <1>6, <2>2 DEF HasNumber
    <3>3. e = f
      BY <3>1, <3>2
    <3>4. \A k \in 1 .. e : d[k] = c[k]
      BY <3>1, <3>2, <3>3
    <3>5. d = c
      BY <3>1, <3>2, <3>3, <3>4
    <3> QED
      BY <3>1, <3>2, <3>5 DEF PlainNames, IsInjective
  <2> QED
    BY <2>1, <2>2
<1> QED
  BY <1>1, <1>2, <1>6, <1>8 DEF HasName

\* Instances with plain names never share a file.
THEOREM PlainNamesAreApart == PlainNames => NamesApart
<1> SUFFICES ASSUME PlainNames, NEW s \in Setups, ~ s.lists,
                    NEW i \in Instances, NEW j \in Instances, i # j,
                    NEW m \in Indices(i), NEW n \in Indices(j),
                    OnDisk(s, FileName(i, m)) = OnDisk(s, FileName(j, n))
             PROVE  s.pageSize = 0 /\ Key(i) = Key(j) /\ m = n
  BY DEF NamesApart
<1>1. /\ i.ns = j.ns /\ Len(i.name) = Len(j.name) /\ m = n
      /\ \A k \in 1 .. Len(i.name) : Folded(s, i.name[k]) = Folded(s, j.name[k])
  BY SameFileSameName
<1>2. i.name \in Seq(Chars) /\ j.name \in Seq(Chars) /\ i.name # j.name
  BY <1>1, FileNamesAssumption
<1>3. PICK k \in 1 .. Len(i.name) : i.name[k] # j.name[k]
  BY <1>1, <1>2
<1>4. ~ s.caseSensitive
  BY <1>1, <1>3 DEF Folded
<1>5. s.pageSize = 0
  BY <1>1, <1>2, <1>3, <1>4 DEF PlainNames, Folded
<1>6. \A l \in 1 .. Len(i.name) : Lower[i.name[l]] = Lower[j.name[l]]
  BY <1>1, <1>4 DEF Folded
<1>7. Map(Lower, i.name) = Map(Lower, j.name)
  BY <1>1, <1>2, <1>6 DEF Map
<1> QED
  BY <1>1, <1>5, <1>7 DEF Key
=============================================================================
