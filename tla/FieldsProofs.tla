----------------------------- MODULE FieldsProofs -----------------------------
(***************************************************************************)
(* Proofs about one object on its way to the file and back, for any        *)
(* objects, configurations and keys, and any order in which preserved      *)
(* values are restored: what is excluded is gone, what is preserved is     *)
(* kept, what is secret does not show, what nothing speaks of is as in the *)
(* cluster, lists are sorted, and decryption brings back what encryption   *)
(* found.  Each part has an inductive invariant of its own; all of them    *)
(* rest on TypeInv.                                                        *)
(***************************************************************************)
EXTENDS Fields, ObjectsProofs

-----------------------------------------------------------------------------
(* Rearranging the elements of a list *)

\* A path whose step below f is replaced.
Move(f, q, by) == [q EXCEPT ![Len(f) + 1] = by[@]]

LEMMA MoveShape ==
    ASSUME NEW f \in Seq(STRING), NEW q \in Seq(STRING), IsStrictPrefix(f, q),
           NEW xs \in SUBSET STRING, q[Len(f) + 1] \in xs, NEW by \in [xs -> xs]
    PROVE  LET r == Move(f, q, by) IN
           /\ r \in Seq(STRING) /\ Len(r) = Len(q) /\ IsStrictPrefix(f, r)
           /\ r[Len(f) + 1] = by[q[Len(f) + 1]]
           /\ \A i \in 1 .. Len(q) : i # Len(f) + 1 => r[i] = q[i]
           /\ Len(f) + 1 \in 1 .. Len(q)
<1>1. Len(f) \in Nat /\ Len(q) \in Nat /\ Len(f) + 1 \in 1 .. Len(q) /\ \A i \in 1 .. Len(f) : f[i] = q[i]
  <2>1. Len(f) \in Nat /\ Len(q) \in Nat /\ IsPrefix(f, q) /\ f # q
    BY LenProperties DEF IsStrictPrefix
  <2>2. Len(f) <= Len(q) /\ \A i \in 1 .. Len(f) : f[i] = q[i]
    BY <2>1, PrefixSteps
  <2>3. Len(f) # Len(q)
    BY <2>1, <2>2, SeqEqual
  <2> QED
    BY <2>1, <2>2, <2>3
<1>2. PICK n \in 1 .. Len(q) : n = Len(f) + 1
  BY <1>1
<1>3. PICK e \in STRING : e = by[q[n]]
  BY <1>2
<1>4. PICK r : r = [q EXCEPT ![n] = e]
  OBVIOUS
<1>5. r \in Seq(STRING) /\ Len(r) = Len(q) /\ \A i \in 1 .. Len(q) : r[i] = IF i = n THEN e ELSE q[i]
  BY <1>2, <1>3, <1>4, ExceptSeq
<1>6. r = Move(f, q, by)
  <2>1. Move(f, q, by) = [q EXCEPT ![Len(f) + 1] = by[q[Len(f) + 1]]]
    BY DEF Move
  <2> QED
    BY <1>2, <1>3, <1>4, <2>1
<1>7. IsStrictPrefix(f, r)
  <2>1. ASSUME NEW i \in 1 .. Len(f) PROVE f[i] = r[i]
    <3>1. i \in 1 .. Len(q) /\ i # n
      BY <1>1, <1>2
    <3> QED
      BY <1>1, <1>5, <3>1
  <2>2. IsPrefix(f, r)
    BY <1>1, <1>5, <2>1, PrefixSteps
  <2>3. f # r
    BY <1>1, <1>5
  <2> QED
    BY <2>2, <2>3 DEF IsStrictPrefix
<1> QED
  BY <1>1, <1>2, <1>3, <1>5, <1>7, <1>6

\* What is below a path is below or at one that is one step longer.
LEMMA StepAbove ==
    ASSUME NEW f \in Seq(STRING), NEW q \in Seq(STRING), IsStrictPrefix(f, q)
    PROVE  \E x \in STRING : \E e \in Seq(STRING) :
              /\ x = q[Len(f) + 1] /\ e = Append(f, x) /\ IsPrefix(e, q)
              /\ e # <<>> /\ Front(e) = f /\ Last(e) = x
<1>1. Len(f) \in Nat /\ Len(q) \in Nat /\ Len(f) < Len(q) /\ \A i \in 1 .. Len(f) : f[i] = q[i]
  <2>1. Len(f) \in Nat /\ Len(q) \in Nat /\ IsPrefix(f, q) /\ f # q
    BY LenProperties DEF IsStrictPrefix
  <2>2. Len(f) <= Len(q) /\ \A i \in 1 .. Len(f) : f[i] = q[i]
    BY <2>1, PrefixSteps
  <2>3. Len(f) # Len(q)
    BY <2>1, <2>2, SeqEqual
  <2> QED
    BY <2>1, <2>2, <2>3
<1>2. PICK x \in STRING : x = q[Len(f) + 1]
  <2>1. PICK n \in 1 .. Len(q) : n = Len(f) + 1
    BY <1>1
  <2>2. q[n] \in STRING
    BY <2>1, ElementOfSeq
  <2> QED
    BY <2>1, <2>2
<1>3. PICK e \in Seq(STRING) : /\ e = Append(f, x) /\ e # <<>> /\ Len(e) = Len(f) + 1
                              /\ \A i \in 1 .. Len(f) : e[i] = f[i]
                              /\ e[Len(f) + 1] = x
  BY AppendProperties
<1>4. IsPrefix(e, q)
  <2>1. Len(e) <= Len(q) /\ \A i \in 1 .. Len(e) : e[i] = q[i]
    BY <1>1, <1>2, <1>3
  <2> QED
    BY <2>1, PrefixSteps
<1>5. Front(e) = f /\ Last(e) = x
  <2>1. e = f \o <<x>>
    BY <1>3, AppendIsConcat
  <2> QED
    BY <2>1, FrontOfAppended
<1> QED
  BY <1>2, <1>3, <1>4, <1>5

\* What is below a list is below one of its elements.
LEMMA ElementAbove ==
    ASSUME NEW o, WellFormed(o), NEW f \in Seq(STRING), Kind(o, f) = "list",
           NEW q \in DOMAIN o, IsStrictPrefix(f, q)
    PROVE  /\ q[Len(f) + 1] \in Elements(o, f)
           /\ IsPrefix(Append(f, q[Len(f) + 1]), q)
<1>1. q \in Seq(STRING)
  BY DEF WellFormed
<1>2. PICK x \in STRING : \E e \in Seq(STRING) :
         /\ x = q[Len(f) + 1] /\ e = Append(f, x) /\ IsPrefix(e, q)
         /\ e # <<>> /\ Front(e) = f /\ Last(e) = x
  BY <1>1, StepAbove
<1>3. PICK e \in Seq(STRING) :
         /\ x = q[Len(f) + 1] /\ e = Append(f, x) /\ IsPrefix(e, q)
         /\ e # <<>> /\ Front(e) = f /\ Last(e) = x
  BY <1>2
<1>4. e \in DOMAIN o
  BY <1>3, PrefixIsThere
<1>5. x \in Positions
  <2>1. o[Front(e)].kind = IF Last(e) \in Positions THEN "list" ELSE "map"
    BY <1>3, <1>4, AboveIsThere
  <2>2. o[f].kind = "list"
    BY DEF Kind
  <2> QED
    BY <1>3, <2>1, <2>2
<1> QED
  BY <1>3, <1>4, <1>5 DEF Elements

LEMMA RearrangementShape ==
    ASSUME NEW xs, NEW m \in Rearrangements(xs)
    PROVE  /\ m.to \in [xs -> xs] /\ m.from \in [xs -> xs]
           /\ \A x \in xs : m.from[m.to[x]] = x /\ m.to[m.from[x]] = x
BY DEF Rearrangements

\* Where the nodes of a list are once its elements are rearranged.
LEMMA MovedNodes ==
    ASSUME NEW o, WellFormed(o), NEW f \in Seq(STRING), Kind(o, f) = "list",
           NEW m \in Rearrangements(Elements(o, f))
    PROVE  LET r == Moved(o, f, m) IN
           /\ \A p : p \in DOMAIN r <=>
                 /\ p \in Seq(STRING)
                 /\ IF IsStrictPrefix(f, p)
                      THEN p[Len(f) + 1] \in Elements(o, f) /\ Move(f, p, m.from) \in DOMAIN o
                      ELSE p \in DOMAIN o
           /\ \A p \in DOMAIN r : r[p] = IF IsStrictPrefix(f, p) THEN o[Move(f, p, m.from)] ELSE o[p]
<1> DEFINE below == {q \in DOMAIN o : IsStrictPrefix(f, q)}
           moved == {Move(f, q, m.to) : q \in below}
           xs == Elements(o, f)
           r == Moved(o, f, m)
<1>1. /\ DOMAIN r = (DOMAIN o \ below) \cup moved
      /\ \A p \in DOMAIN r : r[p] = IF IsStrictPrefix(f, p) THEN o[Move(f, p, m.from)] ELSE o[p]
  BY DEF Moved, Move
<1>2. xs \in SUBSET STRING /\ DOMAIN o \subseteq Seq(STRING)
  BY PositionsShape DEF Elements, WellFormed
<1>3. m.to \in [xs -> xs] /\ m.from \in [xs -> xs] /\ \A x \in xs : m.from[m.to[x]] = x /\ m.to[m.from[x]] = x
  BY RearrangementShape
<1> HIDE DEF r
<1>4. \A q \in below : q \in Seq(STRING) /\ q[Len(f) + 1] \in xs
  BY <1>2, ElementAbove
<1> HIDE DEF xs
<1>5. ASSUME NEW q \in Seq(STRING), IsStrictPrefix(f, q), q[Len(f) + 1] \in xs,
             NEW by \in [xs -> xs], NEW back \in [xs -> xs], \A x \in xs : back[by[x]] = x
      PROVE  /\ Move(f, q, by) \in Seq(STRING) /\ IsStrictPrefix(f, Move(f, q, by))
             /\ Move(f, q, by)[Len(f) + 1] \in xs
             /\ Move(f, Move(f, q, by), back) = q
  <2>1. PICK s : s = Move(f, q, by)
    OBVIOUS
  <2>2. /\ s \in Seq(STRING) /\ Len(s) = Len(q) /\ IsStrictPrefix(f, s)
        /\ s[Len(f) + 1] = by[q[Len(f) + 1]]
        /\ \A i \in 1 .. Len(q) : i # Len(f) + 1 => s[i] = q[i]
    BY <1>2, <1>5, <2>1, MoveShape, ZenonT(60)
  <2>3. s[Len(f) + 1] \in xs /\ back[s[Len(f) + 1]] = q[Len(f) + 1]
    BY <1>5, <2>2
  <2>4. PICK t \in Seq(STRING) : t = s /\ IsStrictPrefix(f, t) /\ t[Len(f) + 1] \in xs
    BY <2>2, <2>3
  <2>5. LET u == Move(f, t, back) IN
        /\ u \in Seq(STRING) /\ Len(u) = Len(t)
        /\ u[Len(f) + 1] = back[t[Len(f) + 1]]
        /\ \A i \in 1 .. Len(t) : i # Len(f) + 1 => u[i] = t[i]
    BY <1>2, <2>4, MoveShape
  <2>6. PICK u : u = Move(f, s, back)
    OBVIOUS
  <2>7. /\ u \in Seq(STRING) /\ Len(u) = Len(s)
        /\ u[Len(f) + 1] = back[s[Len(f) + 1]]
        /\ \A i \in 1 .. Len(s) : i # Len(f) + 1 => u[i] = s[i]
    BY <2>6, <2>4, <2>5
  <2>8. Len(u) = Len(q) /\ \A i \in 1 .. Len(u) : u[i] = q[i]
    BY <2>2, <2>3, <2>7
  <2>9. u = q
    BY <2>7, <2>8, SeqEqual
  <2> QED
    BY <2>1, <2>2, <2>3, <2>6, <2>9
<1>6. ASSUME NEW p
      PROVE  p \in DOMAIN r <=>
                 /\ p \in Seq(STRING)
                 /\ IF IsStrictPrefix(f, p)
                      THEN p[Len(f) + 1] \in xs /\ Move(f, p, m.from) \in DOMAIN o
                      ELSE p \in DOMAIN o
  <2>1. \A q \in below : /\ Move(f, q, m.to) \in Seq(STRING) /\ IsStrictPrefix(f, Move(f, q, m.to))
                         /\ Move(f, q, m.to)[Len(f) + 1] \in xs
                         /\ Move(f, Move(f, q, m.to), m.from) = q
    BY <1>3, <1>4, <1>5
  <2>2. CASE ~ IsStrictPrefix(f, p)
    BY <1>1, <1>2, <2>1, <2>2
  <2>3. CASE IsStrictPrefix(f, p)
    <3>1. p \in DOMAIN r <=> p \in moved
      BY <1>1, <2>3
    <3>2. ASSUME p \in moved
          PROVE  p \in Seq(STRING) /\ p[Len(f) + 1] \in xs /\ Move(f, p, m.from) \in DOMAIN o
      <4>1. PICK q \in below : p = Move(f, q, m.to)
        BY <3>2
      <4> QED
        BY <2>1, <4>1
    <3>3. ASSUME p \in Seq(STRING), p[Len(f) + 1] \in xs, Move(f, p, m.from) \in DOMAIN o
          PROVE  p \in moved
      <4>1. IsStrictPrefix(f, Move(f, p, m.from)) /\ Move(f, Move(f, p, m.from), m.to) = p
        BY <1>3, <1>5, <2>3, <3>3
      <4> QED
        BY <3>3, <4>1
    <3> QED
      BY <2>3, <3>1, <3>2, <3>3
  <2> QED
    BY <2>2, <2>3
<1> QED
  BY <1>1, <1>6 DEF r, xs

LEMMA FrontAndLast ==
    ASSUME NEW q \in Seq(STRING), q # <<>>
    PROVE  q = Front(q) \o <<Last(q)>>
<1>1. PICK p \in Seq(STRING), x \in STRING : p = Front(q) /\ x = Last(q)
  BY FrontShape
<1>2. Len(q) \in Nat \ {0} /\ Len(p) = Len(q) - 1 /\ \A i \in 1 .. Len(q) - 1 : p[i] = q[i]
  BY <1>1, FrontShape
<1>3. x = q[Len(q)]
  BY <1>1 DEF Last
<1>4. PICK s : s = p \o <<x>>
  OBVIOUS
<1>5. PICK e \in Seq(STRING) : e = <<x>> /\ Len(e) = 1 /\ e[1] = x
  <2>1. <<x>> \in Seq(STRING) /\ Len(<<x>>) = 1 /\ <<x>>[1] = x
    BY <1>1
  <2> QED
    BY <2>1
<1>6. /\ p \o e \in Seq(STRING) /\ Len(p \o e) = Len(p) + Len(e)
      /\ \A i \in 1 .. Len(p \o e) : (p \o e)[i] = IF i <= Len(p) THEN p[i] ELSE e[i - Len(p)]
  BY ConcatProperties
<1>7. /\ s \in Seq(STRING) /\ Len(s) = Len(p) + 1
      /\ \A i \in 1 .. Len(s) : s[i] = IF i <= Len(p) THEN p[i] ELSE e[i - Len(p)]
  BY <1>4, <1>5, <1>6
<1>8. Len(s) = Len(q)
  BY <1>2, <1>7
<1>9. ASSUME NEW i \in 1 .. Len(q) PROVE s[i] = q[i]
  <2>1. CASE i <= Len(p)
    BY <1>2, <1>7, <1>8, <2>1
  <2>2. CASE ~ (i <= Len(p))
    <3>1. i = Len(q) /\ i - Len(p) = 1
      BY <1>2, <2>2
    <3> QED
      BY <1>3, <1>5, <1>7, <1>8, <2>2, <3>1
  <2> QED
    BY <2>1, <2>2
<1>10. s = q
  BY <1>7, <1>8, <1>9, SeqEqual
<1> QED
  BY <1>1, <1>4, <1>10

\* One step below a path.
LEMMA StepBelow ==
    ASSUME NEW f \in Seq(STRING), NEW x \in STRING
    PROVE  /\ Append(f, x) = f \o <<x>> /\ Append(f, x) \in Seq(STRING) /\ Append(f, x) # <<>>
           /\ Front(Append(f, x)) = f /\ Last(Append(f, x)) = x
           /\ IsStrictPrefix(f, Append(f, x)) /\ Append(f, x)[Len(f) + 1] = x
           /\ Len(Append(f, x)) = Len(f) + 1
<1>1. Append(f, x) = f \o <<x>>
  BY AppendIsConcat
<1>2. Append(f, x) \in Seq(STRING) /\ Append(f, x) # <<>> /\ Append(f, x)[Len(f) + 1] = x /\ Len(Append(f, x)) = Len(f) + 1
  BY AppendProperties, ZenonT(60)
<1>3. Front(Append(f, x)) = f /\ Last(Append(f, x)) = x
  BY <1>1, FrontOfAppended
<1>4. IsStrictPrefix(f, Append(f, x))
  <2>1. PICK e \in Seq(STRING) : e = Append(f, x) /\ e # <<>> /\ Front(e) = f
    BY <1>2, <1>3
  <2>2. IsPrefix(f, f)
    BY StrictPrefix
  <2>3. IsStrictPrefix(f, e)
    BY <2>1, <2>2, StrictPrefix
  <2> QED
    BY <2>1, <2>3
<1> QED
  BY <1>1, <1>2, <1>3, <1>4

\* What is above a path whose step below f is replaced.
LEMMA MoveFront ==
    ASSUME NEW f \in Seq(STRING), NEW q \in Seq(STRING), IsStrictPrefix(f, q),
           NEW xs \in SUBSET STRING, q[Len(f) + 1] \in xs, NEW by \in [xs -> xs]
    PROVE  LET r == Move(f, q, by) IN
           /\ q # <<>> /\ r # <<>>
           /\ IF Front(q) = f
                THEN Last(q) = q[Len(f) + 1] /\ Front(r) = f /\ Last(r) = by[Last(q)]
                ELSE /\ IsStrictPrefix(f, Front(q)) /\ Front(q)[Len(f) + 1] = q[Len(f) + 1]
                     /\ Front(r) = Move(f, Front(q), by) /\ Last(r) = Last(q)
<1>1. ASSUME NEW t \in Seq(STRING), IsStrictPrefix(f, t), t[Len(f) + 1] \in xs,
             NEW u, u = Move(f, t, by)
      PROVE  /\ u \in Seq(STRING) /\ Len(u) = Len(t)
             /\ u[Len(f) + 1] = by[t[Len(f) + 1]]
             /\ \A i \in 1 .. Len(t) : i # Len(f) + 1 => u[i] = t[i]
  BY <1>1, MoveShape, ZenonT(60)
<1>2. PICK r : r = Move(f, q, by)
  OBVIOUS
<1>3. /\ r \in Seq(STRING) /\ Len(r) = Len(q) /\ IsStrictPrefix(f, r)
      /\ r[Len(f) + 1] = by[q[Len(f) + 1]]
      /\ \A i \in 1 .. Len(q) : i # Len(f) + 1 => r[i] = q[i]
      /\ Len(f) + 1 \in 1 .. Len(q)
  BY <1>2, MoveShape, ZenonT(60)
<1>4. Len(f) \in Nat /\ Len(q) \in Nat /\ \A i \in 1 .. Len(f) : f[i] = r[i] /\ f[i] = q[i]
  BY <1>3, LenProperties, PrefixSteps DEF IsStrictPrefix
<1>5. q # <<>> /\ r # <<>> /\ IsPrefix(f, Front(q))
  <2>1. q # <<>> /\ IsPrefix(f, Front(q))
    BY StrictPrefix
  <2>2. r # <<>>
    BY <1>3, StrictPrefix
  <2> QED
    BY <2>1, <2>2
<1>6. PICK a \in Seq(STRING) : a = Front(q) /\ Len(a) = Len(q) - 1 /\ \A i \in 1 .. Len(q) - 1 : a[i] = q[i]
  BY <1>5, FrontShape
<1>7. PICK c \in Seq(STRING) : c = Front(r) /\ Len(c) = Len(q) - 1 /\ \A i \in 1 .. Len(q) - 1 : c[i] = r[i]
  <2>1. PICK t \in Seq(STRING) : t = r /\ t # <<>>
    BY <1>3, <1>5
  <2>2. Front(t) \in Seq(STRING) /\ Len(Front(t)) = Len(t) - 1 /\ \A i \in 1 .. Len(t) - 1 : Front(t)[i] = t[i]
    BY <2>1, FrontShape
  <2> QED
    BY <1>3, <2>1, <2>2
<1>8. Last(q) = q[Len(q)] /\ Last(r) = r[Len(q)]
  BY <1>3 DEF Last
<1>9. CASE a = f
  <2>1. Len(q) = Len(f) + 1
    BY <1>4, <1>6, <1>9
  <2>2. Last(q) = q[Len(f) + 1] /\ Last(r) = by[Last(q)]
    BY <1>3, <1>8, <2>1
  <2>3. Len(c) = Len(f)
    BY <1>4, <1>7, <2>1
  <2>4. ASSUME NEW i \in 1 .. Len(f) PROVE c[i] = f[i]
    BY <1>4, <1>7, <2>1
  <2>5. c = f
    BY <2>3, <2>4, SeqEqual
  <2> QED
    BY <1>2, <1>5, <1>6, <1>7, <1>9, <2>2, <2>5
<1>10. CASE a # f
  <2>1. IsStrictPrefix(f, a)
    BY <1>5, <1>6, <1>10 DEF IsStrictPrefix
  <2>2. Len(f) < Len(a)
    <3>1. Len(f) <= Len(a) /\ \A i \in 1 .. Len(f) : f[i] = a[i]
      BY <2>1, PrefixSteps DEF IsStrictPrefix
    <3>2. Len(f) # Len(a)
      BY <1>10, <3>1, SeqEqual
    <3> QED
      BY <1>4, <1>6, <3>1, <3>2
  <2>3. Len(f) + 1 \in 1 .. Len(q) - 1 /\ Len(q) \in 1 .. Len(q) /\ Len(q) # Len(f) + 1
    BY <1>4, <1>6, <2>2
  <2>4. a[Len(f) + 1] = q[Len(f) + 1] /\ Last(r) = Last(q)
    BY <1>3, <1>6, <1>8, <2>3
  <2>5. PICK u : u = Move(f, a, by)
    OBVIOUS
  <2>6. a[Len(f) + 1] \in xs
    BY <2>4
  <2>7. /\ u \in Seq(STRING) /\ Len(u) = Len(a)
        /\ u[Len(f) + 1] = by[a[Len(f) + 1]]
        /\ \A i \in 1 .. Len(a) : i # Len(f) + 1 => u[i] = a[i]
    BY <1>1, <1>6, <2>1, <2>5, <2>6
  <2>8. ASSUME NEW i \in 1 .. Len(a) PROVE c[i] = u[i]
    <3>1. i \in 1 .. Len(q) - 1 /\ i \in 1 .. Len(q)
      BY <1>4, <1>6
    <3>2. CASE i = Len(f) + 1
      BY <1>3, <1>7, <2>4, <2>7, <3>1, <3>2
    <3>3. CASE i # Len(f) + 1
      BY <1>3, <1>6, <1>7, <2>7, <3>1, <3>3
    <3> QED
      BY <3>2, <3>3
  <2>9. c = u
    BY <1>6, <1>7, <2>7, <2>8, SeqEqual
  <2> QED
    BY <1>2, <1>5, <1>6, <1>7, <1>10, <2>1, <2>4, <2>5, <2>9
<1> QED
  BY <1>9, <1>10

\* A list whose elements are rearranged is one of a well-formed object.
LEMMA MovedKeepsWellFormed ==
    ASSUME NEW o, WellFormed(o), NEW f \in Seq(STRING), Kind(o, f) = "list",
           NEW m \in Rearrangements(Elements(o, f))
    PROVE  LET r == Moved(o, f, m) IN
           /\ WellFormed(r)
           /\ f \in DOMAIN r /\ r[f] = o[f]
           /\ Elements(r, f) = Elements(o, f)
           /\ \A x \in Elements(o, f) : m.from[x] \in Elements(o, f) /\ Element(r, f, x) = Element(o, f, m.from[x])
<1> DEFINE xs == Elements(o, f)
           r == Moved(o, f, m)
           move(p) == Move(f, p, m.from)
<1>1. /\ \A p : p \in DOMAIN r <=>
            /\ p \in Seq(STRING)
            /\ IF IsStrictPrefix(f, p) THEN p[Len(f) + 1] \in xs /\ move(p) \in DOMAIN o
                                       ELSE p \in DOMAIN o
      /\ \A p \in DOMAIN r : r[p] = IF IsStrictPrefix(f, p) THEN o[move(p)] ELSE o[p]
  BY MovedNodes
<1>2. /\ xs \subseteq Positions /\ xs \in SUBSET STRING /\ DOMAIN o \subseteq Seq(STRING)
      /\ \A x \in Positions : x \in xs <=> Append(f, x) \in DOMAIN o
  BY PositionsShape DEF Elements, WellFormed
<1>3. m.from \in [xs -> xs]
  BY RearrangementShape
<1> HIDE DEF r, xs, move
<1>4. ASSUME NEW p \in Seq(STRING), IsStrictPrefix(f, p), p[Len(f) + 1] \in xs
      PROVE  /\ p # <<>> /\ move(p) # <<>>
             /\ IF Front(p) = f
                  THEN Last(p) = p[Len(f) + 1] /\ Front(move(p)) = f /\ Last(move(p)) = m.from[Last(p)]
                  ELSE /\ IsStrictPrefix(f, Front(p)) /\ Front(p)[Len(f) + 1] = p[Len(f) + 1]
                       /\ Front(move(p)) = move(Front(p)) /\ Last(move(p)) = Last(p)
  BY <1>2, <1>3, <1>4, MoveFront DEF move
<1>5. ASSUME NEW p \in Seq(STRING), p # <<>>
      PROVE  /\ Front(p) \in Seq(STRING) /\ Last(p) \in STRING
             /\ p = Front(p) \o <<Last(p)>>
             /\ IsStrictPrefix(f, Front(p)) => IsStrictPrefix(f, p)
             /\ IsStrictPrefix(f, p) /\ ~ IsStrictPrefix(f, Front(p)) => Front(p) = f
             /\ f = Front(p) => IsStrictPrefix(f, p)
  <2>1. Front(p) \in Seq(STRING) /\ Last(p) \in STRING /\ p = Front(p) \o <<Last(p)>>
    BY <1>5, FrontShape, FrontAndLast
  <2>2. IsStrictPrefix(f, p) <=> IsPrefix(f, Front(p))
    BY <1>5, StrictPrefix
  <2>3. IsPrefix(f, f)
    BY StrictPrefix
  <2> QED
    BY <2>1, <2>2, <2>3 DEF IsStrictPrefix
<1>6. ~ IsStrictPrefix(f, f)
  BY DEF IsStrictPrefix
<1>7. f \in DOMAIN o /\ o[f].kind = "list"
  BY DEF Kind
<1>8. f \in DOMAIN r /\ r[f] = o[f]
  BY <1>1, <1>6, <1>7
<1>9. ASSUME NEW x \in Positions
      PROVE  /\ Append(f, x) \in DOMAIN r <=> x \in xs
             /\ x \in xs => Element(r, f, x) = Element(o, f, m.from[x])
  <2>1. x \in STRING
    BY PositionsShape
  <2>2. PICK e \in Seq(STRING) : /\ e = Append(f, x) /\ e # <<>> /\ Front(e) = f /\ Last(e) = x
                                 /\ IsStrictPrefix(f, e) /\ e[Len(f) + 1] = x /\ e = f \o <<x>>
    BY <2>1, StepBelow
  <2>3. ASSUME x \in xs PROVE move(e) = Append(f, m.from[x]) /\ m.from[x] \in xs
    <3>1. Front(move(e)) = f /\ Last(move(e)) = m.from[x] /\ move(e) # <<>>
      BY <1>4, <2>2, <2>3
    <3>2. m.from[x] \in xs /\ m.from[x] \in STRING
      BY <1>2, <1>3, <2>3
    <3>3. move(e) \in Seq(STRING)
      BY <1>2, <1>3, <2>2, <2>3, MoveShape DEF move
    <3>4. move(e) = f \o <<m.from[x]>>
      BY <1>5, <3>1, <3>3
    <3> QED
      BY <3>2, <3>4, StepBelow
  <2>4. m.from[x] \in xs => m.from[x] \in Positions
    BY <1>2
  <2> QED
    BY <1>1, <1>2, <2>2, <2>3, <2>4 DEF Element
<1>10. Elements(r, f) = xs
  BY <1>2, <1>9 DEF Elements
<1>11. ASSUME NEW p \in DOMAIN r \ {<<>>}
       PROVE  IF Last(p) \in Positions
                THEN /\ Kind(r, Front(p)) = "list"
                     /\ \A i \in 2 .. Len(Index) :
                           Last(p) = Index[i] => Front(p) \o <<Index[i - 1]>> \in DOMAIN r
                ELSE Kind(r, Front(p)) = "map"
  <2>1. p \in Seq(STRING) /\ p # <<>> /\ Front(p) \in Seq(STRING) /\ Last(p) \in STRING
    BY <1>1, <1>5
  <2>2. \A i \in 2 .. Len(Index) : Index[i - 1] \in Positions /\ Index[i - 1] \in STRING
    BY PositionsShape
  <2>3. ASSUME NEW a \in Seq(STRING), NEW i \in 2 .. Len(Index)
        PROVE  /\ a \o <<Index[i - 1]>> \in Seq(STRING) /\ a \o <<Index[i - 1]>> # <<>>
               /\ Front(a \o <<Index[i - 1]>>) = a
               /\ Last(a \o <<Index[i - 1]>>) = Index[i - 1]
    <3>1. PICK x \in STRING : x = Index[i - 1]
      BY <2>2
    <3>2. a \o <<x>> \in Seq(STRING) /\ a \o <<x>> # <<>> /\ Front(a \o <<x>>) = a /\ Last(a \o <<x>>) = x
      BY FrontOfAppended
    <3> QED
      BY <3>1, <3>2
  <2>4. CASE ~ IsStrictPrefix(f, p)
    <3>1. p \in DOMAIN o \ {<<>>}
      BY <1>1, <2>1, <2>4
    <3>2. Front(p) \in DOMAIN o /\ o[Front(p)].kind = IF Last(p) \in Positions THEN "list" ELSE "map"
      BY <3>1, AboveIsThere
    <3>3. ~ IsStrictPrefix(f, Front(p)) /\ f # Front(p)
      BY <1>5, <2>1, <2>4
    <3>4. Kind(r, Front(p)) = o[Front(p)].kind
      BY <1>1, <2>1, <3>2, <3>3 DEF Kind
    <3>5. ASSUME Last(p) \in Positions, NEW i \in 2 .. Len(Index), Last(p) = Index[i]
          PROVE  Front(p) \o <<Index[i - 1]>> \in DOMAIN r
      <4>1. PICK s : s = Front(p) \o <<Index[i - 1]>>
        OBVIOUS
      <4>2. s \in DOMAIN o
        BY <3>1, <3>5, <4>1 DEF WellFormed
      <4>3. s \in Seq(STRING) /\ s # <<>> /\ Front(s) = Front(p)
        BY <2>1, <2>3, <4>1
      <4>4. ~ IsStrictPrefix(f, s)
        BY <1>5, <3>3, <4>3
      <4> QED
        BY <1>1, <4>1, <4>2, <4>3, <4>4
    <3> QED
      BY <3>2, <3>4, <3>5
  <2>5. CASE IsStrictPrefix(f, p) /\ Front(p) = f
    <3>1. Last(p) \in xs /\ Last(p) \in Positions
      BY <1>1, <1>2, <1>4, <2>1, <2>5
    <3>2. Kind(r, Front(p)) = "list"
      BY <1>7, <1>8, <2>5 DEF Kind
    <3>3. ASSUME NEW i \in 2 .. Len(Index), Last(p) = Index[i]
          PROVE  Front(p) \o <<Index[i - 1]>> \in DOMAIN r
      <4>1. PICK e \in DOMAIN o \ {<<>>} : e = Append(f, Last(p)) /\ Front(e) = f /\ Last(e) = Last(p)
        <5>1. Append(f, Last(p)) \in DOMAIN o
          BY <1>2, <3>1
        <5>2. Append(f, Last(p)) # <<>> /\ Front(Append(f, Last(p))) = f /\ Last(Append(f, Last(p))) = Last(p)
          BY <2>1, StepBelow
        <5> QED
          BY <5>1, <5>2
      <4>2. f \o <<Index[i - 1]>> \in DOMAIN o
        BY <3>1, <3>3, <4>1 DEF WellFormed
      <4>3. Append(f, Index[i - 1]) = f \o <<Index[i - 1]>>
        BY <2>2, StepBelow
      <4>4. Index[i - 1] \in xs
        BY <1>2, <2>2, <4>2, <4>3
      <4> QED
        BY <1>9, <2>2, <2>5, <4>3, <4>4
    <3> QED
      BY <3>1, <3>2, <3>3
  <2>6. CASE IsStrictPrefix(f, p) /\ Front(p) # f
    <3>1. /\ IsStrictPrefix(f, Front(p)) /\ Front(p)[Len(f) + 1] \in xs
          /\ Front(move(p)) = move(Front(p)) /\ Last(move(p)) = Last(p)
          /\ move(p) \in DOMAIN o \ {<<>>}
      BY <1>1, <1>4, <2>1, <2>6
    <3>2. /\ Front(move(p)) \in DOMAIN o
          /\ o[Front(move(p))].kind = IF Last(move(p)) \in Positions THEN "list" ELSE "map"
      BY <3>1, AboveIsThere
    <3>3. Kind(r, Front(p)) = IF Last(p) \in Positions THEN "list" ELSE "map"
      BY <1>1, <2>1, <3>1, <3>2 DEF Kind
    <3>4. ASSUME Last(p) \in Positions, NEW i \in 2 .. Len(Index), Last(p) = Index[i]
          PROVE  Front(p) \o <<Index[i - 1]>> \in DOMAIN r
      <4>1. PICK s : s = Front(p) \o <<Index[i - 1]>>
        OBVIOUS
      <4>2. s \in Seq(STRING) /\ s # <<>> /\ Front(s) = Front(p) /\ Last(s) = Index[i - 1]
        BY <2>1, <2>3, <4>1
      <4>3. IsStrictPrefix(f, s)
        BY <1>5, <3>1, <4>2
      <4>4. s[Len(f) + 1] \in xs
        <5>1. IsPrefix(Front(s), s)
          <6>1. PICK a \in Seq(STRING) : a = Front(s)
            BY <2>1, <4>2
          <6>2. IsPrefix(a, a)
            BY StrictPrefix
          <6>3. IsStrictPrefix(a, s)
            BY <4>2, <6>1, <6>2, StrictPrefix
          <6> QED
            BY <6>1, <6>3 DEF IsStrictPrefix
        <5>2. Len(f) + 1 \in 1 .. Len(Front(p))
          BY <1>2, <2>1, <3>1, <1>3, MoveShape, ZenonT(60)
        <5>3. Front(s)[Len(f) + 1] = s[Len(f) + 1]
          BY <2>1, <4>2, <5>1, <5>2, PrefixSteps
        <5> QED
          BY <3>1, <4>2, <5>3
      <4>5. Front(move(s)) = Front(move(p)) /\ Last(move(s)) = Index[i - 1] /\ move(s) # <<>>
        BY <1>4, <2>6, <3>1, <4>2, <4>3, <4>4
      <4>6. move(s) \in Seq(STRING)
        BY <1>2, <1>3, <4>2, <4>3, <4>4, MoveShape DEF move
      <4>7. move(s) = Front(move(p)) \o <<Index[i - 1]>>
        BY <1>5, <4>5, <4>6
      <4>8. move(s) \in DOMAIN o
        BY <3>1, <3>4, <4>7 DEF WellFormed
      <4> QED
        BY <1>1, <4>1, <4>2, <4>3, <4>4, <4>8
    <3> QED
      BY <3>3, <3>4
  <2> QED
    BY <2>4, <2>5, <2>6
<1>12. ASSUME NEW p \in DOMAIN r
       PROVE  /\ r[p] = [kind |-> r[p].kind, text |-> r[p].text, key |-> r[p].key]
              /\ r[p].key # "none" => r[p].kind = "string"
              /\ r[p].kind \in {"map", "list"} => r[p].text = {}
  <2>1. PICK q \in DOMAIN o : r[p] = o[q]
    BY <1>1
  <2> QED
    BY <2>1 DEF WellFormed
<1>13. DOMAIN r \subseteq Seq(STRING)
  BY <1>1
<1>14. Kind(r, <<>>) = "map"
  <2>1. <<>> \in DOMAIN o /\ o[<<>>].kind = "map"
    BY DEF WellFormed, Kind
  <2>2. ~ IsStrictPrefix(f, <<>>)
    <3>1. PICK e \in Seq(STRING) : e = <<>>
      BY EmptySeq
    <3> QED
      BY <3>1, StrictPrefix
  <2> QED
    BY <1>1, <1>13, <2>1, <2>2, EmptySeq DEF Kind
<1>15. WellFormed(r)
  BY <1>11, <1>12, <1>13, <1>14 DEF WellFormed
<1>16. \A x \in xs : m.from[x] \in xs
  BY <1>3
<1> QED
  BY <1>2, <1>8, <1>9, <1>10, <1>15, <1>16 DEF r, xs

-----------------------------------------------------------------------------
(* Restoring preserved values *)

\* What restoring the value that t has at place below the fields F makes of o.
Restores(o, r, F, t, place) ==
    /\ WellFormed(r)
    /\ \A p \in DOMAIN r :
          \/ p \in DOMAIN o /\ r[p] = o[p]
          \/ \E f \in F : /\ IsPrefix(f, p) /\ place \o Below(f, p) \in DOMAIN t
                          /\ r[p] = t[place \o Below(f, p)]
          \/ r[p] = Map /\ \E f \in F : IsStrictPrefix(p, f)
    /\ \A p \in DOMAIN o : (~ \E f \in F : IsPrefix(f, p)) => p \in DOMAIN r /\ r[p] = o[p]

\* What is above f are maps, and what is below f is what t has below place.
Unblocked(o, f) == \A x \in DOMAIN o : IsStrictPrefix(x, f) => o[x].kind = "map"
Full(r, f, t, place) ==
    \A q \in Seq(STRING) : IsPrefix(f, q) =>
        /\ q \in DOMAIN r <=> place \o Below(f, q) \in DOMAIN t
        /\ q \in DOMAIN r => r[q] = t[place \o Below(f, q)]

LEMMA RestoreStep ==
    ASSUME NEW o, WellFormed(o), NEW F, NEW f \in F, IsKeys(f), NEW t, WellFormed(t), NEW place \in DOMAIN t
    PROVE  LET r == SetNestedField(o, f, Subtree(t, place)) IN
           /\ Restores(o, r, F, t, place)
           /\ Unblocked(o, f) => Full(r, f, t, place)
<1>1. PICK r : r = SetNestedField(o, f, Subtree(t, place))
  OBVIOUS
<1>2. IF \E x \in DOMAIN o : IsStrictPrefix(x, f) /\ o[x].kind # "map"
        THEN r = o
        ELSE IsGraft(r, o, f, t, place)
  BY <1>1, SetNestedFieldNodes
<1>3. CASE \E x \in DOMAIN o : IsStrictPrefix(x, f) /\ o[x].kind # "map"
  <2>1. r = o /\ ~ Unblocked(o, f)
    BY <1>2, <1>3 DEF Unblocked
  <2> QED
    BY <1>1, <2>1 DEF Restores
<1>4. CASE ~ \E x \in DOMAIN o : IsStrictPrefix(x, f) /\ o[x].kind # "map"
  <2>1. IsGraft(r, o, f, t, place)
    BY <1>2, <1>4
  <2>2. WellFormed(r)
    BY <1>4, <2>1, GraftKeepsWellFormed
  <2>3. DOMAIN o \subseteq Seq(STRING) /\ f \in Seq(STRING)
    BY DEF WellFormed, IsKeys
  <2>4. IsPrefix(f, f)
    BY <2>3, StrictPrefix
  <2>5. ASSUME NEW p \in DOMAIN r
        PROVE  \/ p \in DOMAIN o /\ r[p] = o[p]
               \/ \E g \in F : /\ IsPrefix(g, p) /\ place \o Below(g, p) \in DOMAIN t
                               /\ r[p] = t[place \o Below(g, p)]
               \/ r[p] = Map /\ \E g \in F : IsStrictPrefix(p, g)
    BY <2>1, <2>4 DEF IsGraft, IsStrictPrefix
  <2>6. ASSUME NEW p \in DOMAIN o, ~ \E g \in F : IsPrefix(g, p) PROVE p \in DOMAIN r /\ r[p] = o[p]
    BY <2>1, <2>3, <2>6 DEF IsGraft
  <2>7. Restores(o, r, F, t, place)
    BY <2>2, <2>5, <2>6 DEF Restores
  <2>8. Full(r, f, t, place)
    BY <2>1 DEF IsGraft, Full
  <2> QED
    BY <1>1, <2>7, <2>8
<1> QED
  BY <1>3, <1>4

-----------------------------------------------------------------------------
(* Fields of a configuration *)

\* Each field of x is one of z.
Covers(z, x) == \A i \in DOMAIN x : \E j \in DOMAIN z : z[j] = x[i]
MadeOf(z, x, y) == \A j \in DOMAIN z : (\E i \in DOMAIN x : z[j] = x[i]) \/ (\E i \in DOMAIN y : z[j] = y[i])

\* The parts of a list that is put together of two.
LEMMA Parts ==
    ASSUME NEW S, NEW a \in Seq(S), NEW b \in Seq(S)
    PROVE  /\ a \o b \in Seq(S) /\ DOMAIN (a \o b) = 1 .. Len(a \o b) /\ Len(a \o b) \in Nat
           /\ DOMAIN a = 1 .. Len(a) /\ DOMAIN b = 1 .. Len(b) /\ Len(a) \in Nat /\ Len(b) \in Nat
           /\ Covers(a \o b, a) /\ Covers(a \o b, b)
           /\ MadeOf(a \o b, a, b)
<1>1. PICK c : c = a \o b
  OBVIOUS
<1>2. /\ c \in Seq(S) /\ Len(c) = Len(a) + Len(b)
      /\ \A i \in 1 .. Len(c) : c[i] = IF i <= Len(a) THEN a[i] ELSE b[i - Len(a)]
  BY <1>1, ConcatProperties
<1>3. /\ DOMAIN c = 1 .. Len(c) /\ Len(c) \in Nat /\ DOMAIN a = 1 .. Len(a) /\ DOMAIN b = 1 .. Len(b)
      /\ Len(a) \in Nat /\ Len(b) \in Nat
  BY <1>2, LenProperties
<1>4. ASSUME NEW i \in DOMAIN a PROVE \E j \in DOMAIN c : c[j] = a[i]
  <2>1. i \in DOMAIN c /\ i <= Len(a)
    BY <1>2, <1>3
  <2> QED
    BY <1>2, <1>3, <2>1
<1>5. ASSUME NEW i \in DOMAIN b PROVE \E j \in DOMAIN c : c[j] = b[i]
  <2>1. PICK j \in DOMAIN c : j = Len(a) + i /\ ~ (j <= Len(a)) /\ j - Len(a) = i
    BY <1>2, <1>3
  <2> QED
    BY <1>2, <1>3, <2>1
<1>6. ASSUME NEW j \in DOMAIN c
      PROVE  (\E i \in DOMAIN a : c[j] = a[i]) \/ (\E i \in DOMAIN b : c[j] = b[i])
  <2>1. CASE j <= Len(a)
    BY <1>2, <1>3, <2>1
  <2>2. CASE ~ (j <= Len(a))
    <3>1. j - Len(a) \in DOMAIN b /\ c[j] = b[j - Len(a)]
      BY <1>2, <1>3, <2>2
    <3> QED
      BY <3>1
  <2> QED
    BY <2>1, <2>2
<1>7. Covers(c, a) /\ Covers(c, b)
  BY <1>4, <1>5 DEF Covers
<1>8. MadeOf(c, a, b)
  BY <1>6 DEF MadeOf
<1> QED
  BY <1>1, <1>2, <1>3, <1>7, <1>8

Fieldset == Seq(STRING \ Positions) \ {<<>>}

LEMMA FieldIsKeys ==
    ASSUME NEW f \in Fieldset
    PROVE  IsKeys(f)
<1>1. f \in Seq(STRING \ Positions) /\ f # <<>>
  BY DEF Fieldset
<1>2. \A i \in 1 .. Len(f) : f[i] \in STRING \ Positions
  BY <1>1, ElementOfSeq
<1>3. f \in Seq(STRING)
  BY <1>1, SeqMonotonic
<1> QED
  BY <1>1, <1>2, <1>3 DEF IsKeys

\* The fields of a configuration.
LEMMA ConfigShape ==
    ASSUME NEW c \in Configs
    PROVE  /\ c.excluded \in Seq(Fieldset) /\ c.preserved \in Seq(Fieldset) /\ c.kindFields \in Seq(Fieldset)
           /\ c.masked \in Seq(Fieldset) /\ c.encrypted \in Seq(Fieldset) /\ c.sorted \in Seq(Fieldset)
           /\ c.aesKey \in AesKeys /\ c.aesKey # "none"
<1>1. \A list \in FieldLists : c[list] \in Seq(Fieldset)
  BY FieldsAssumption DEF Fieldset
<1>2. {"excluded", "preserved", "kindFields", "masked", "encrypted", "sorted"} \subseteq FieldLists
  BY DEF FieldLists
<1>3. c.aesKey \in AesKeys /\ c.aesKey # "none"
  BY FieldsAssumption
<1> QED
  BY <1>1, <1>2, <1>3

LEMMA FieldsShape ==
    ASSUME NEW fields \in Seq(Fieldset)
    PROVE  /\ Len(fields) \in Nat /\ DOMAIN fields = 1 .. Len(fields)
           /\ \A i \in DOMAIN fields : IsKeys(fields[i])
<1>1. Len(fields) \in Nat /\ DOMAIN fields = 1 .. Len(fields)
  BY LenProperties
<1>2. \A i \in 1 .. Len(fields) : fields[i] \in Fieldset
  BY ElementOfSeq
<1> QED
  BY <1>1, <1>2, FieldIsKeys

\* The first steps of a path of keys are as many as keys as steps.
LEMMA KeysReach ==
    ASSUME NEW f, IsKeys(f)
    PROVE  Reaches(f, f)
<1>1. /\ f \in Seq(STRING) /\ f # <<>> /\ Len(f) \in Nat \ {0} /\ DOMAIN f = 1 .. Len(f)
      /\ \A i \in 1 .. Len(f) : f[i] \notin Positions
  BY LenProperties, EmptySeq DEF IsKeys
<1>2. {i \in DOMAIN f : f[i] \notin Positions} = 1 .. Len(f)
  BY <1>1
<1>3. \A i \in 1 .. Len(f) : (1 .. Len(f)) \cap (1 .. i) = 1 .. i
  BY <1>1
<1>4. \A i \in Nat : Cardinality(1 .. i) = i
  <2>1. ASSUME NEW i \in Nat PROVE Cardinality(1 .. i) = i
    <3>1. Cardinality(1 .. i) = IF 1 > i THEN 0 ELSE i - 1 + 1
      BY FS_Interval
    <3> QED
      BY <3>1
  <2> QED
    BY <2>1
<1>5. \A i \in 1 .. Len(f) : f[i] = f[Cardinality((1 .. Len(f)) \cap (1 .. i))]
  <2>1. ASSUME NEW i \in 1 .. Len(f) PROVE f[i] = f[Cardinality((1 .. Len(f)) \cap (1 .. i))]
    <3>1. Cardinality((1 .. Len(f)) \cap (1 .. i)) = i
      <4>1. PICK s : s = 1 .. i
        OBVIOUS
      <4>2. (1 .. Len(f)) \cap s = s
        BY <1>3, <4>1
      <4>3. i \in Nat
        BY <1>1
      <4>4. Cardinality(s) = i
        BY <1>4, <4>1, <4>3
      <4> QED
        BY <4>1, <4>2, <4>4
    <3> QED
      BY <3>1
  <2> QED
    BY <2>1
<1>6. Last(f) \notin Positions
  BY <1>1 DEF Last
<1>7. Cardinality(1 .. Len(f)) = Len(f)
  BY <1>1, <1>4
<1>8. \A i \in 2 .. Len(f) : ~ (f[i - 1] \in Positions /\ f[i] \in Positions)
  BY <1>1
<1> QED
  BY <1>1, <1>2, <1>5, <1>6, <1>7, <1>8 DEF Reaches

-----------------------------------------------------------------------------
(* Types *)

LEMMA MaskFieldResult ==
    ASSUME NEW o, WellFormed(o), NEW field, NEW checksum
    PROVE  LET r == MaskField(o, field, checksum) IN
           /\ WellFormed(r)
           /\ DOMAIN r \subseteq DOMAIN o
           /\ \A q \in DOMAIN o : q \in DOMAIN r <=> ~ \E t \in Transformed(o, field) : IsStrictPrefix(t, q)
           /\ \A q \in DOMAIN r : r[q] = IF q \in Transformed(o, field) THEN DoMask(checksum) ELSE o[q]
<1> DEFINE new == [p \in DOMAIN o |-> DoMask(checksum)]
<1>1. /\ IsNode(DoMask(checksum)) /\ IsScalar(DoMask(checksum)) /\ DoMask(checksum).key = "none"
  BY DEF DoMask, Text, Scalar, IsNode, IsScalar
<1>2. \A t \in Transformed(o, field) : new[t] = DoMask(checksum)
  BY TargetsAreThere
<1> HIDE DEF new
<1>3. PICK r : r = TransformNestedField(o, field, new)
  OBVIOUS
<1>4. WellFormed(r)
  BY <1>1, <1>2, <1>3, TransformKeepsWellFormed
<1>5. /\ DOMAIN r = {q \in DOMAIN o : ~ \E t \in Transformed(o, field) : IsStrictPrefix(t, q)}
      /\ \A q \in DOMAIN r : r[q] = IF q \in Transformed(o, field) THEN new[q] ELSE o[q]
  BY <1>3 DEF TransformNestedField
<1>6. r = MaskField(o, field, checksum)
  BY <1>3 DEF MaskField, new
<1> QED
  BY <1>2, <1>4, <1>5, <1>6

\* A preserved value: what some object had at the place it was looked up.
IsValue(v) == v = [place |-> v.place, held |-> v.held, value |-> v.value]
Taken(v) ==
    /\ IsValue(v) /\ v.held \in {"shared", "alone"}
    /\ \E t : /\ WellFormed(t) /\ \A p \in DOMAIN t : t[p].key = "none"
              /\ v.place \in DOMAIN t /\ v.value = Subtree(t, v.place)

Plain(o) == \A p \in DOMAIN o : o[p].key = "none"

\* The inductive invariant of the types: the object is what encryption starts from
\* until it starts, and nothing is encrypted before.
TypeInv ==
    /\ FieldsTypeOK
    /\ pc \in {"collect", "remove", "restore", "mask"} => plain = obj
    /\ Plain(plain)
    /\ \A key \in DOMAIN values : Taken(values[key])

LEMMA ListsShape ==
    ASSUME config \in Configs
    PROVE  /\ config.excluded \in Seq(Fieldset) /\ config.preserved \in Seq(Fieldset)
           /\ config.kindFields \in Seq(Fieldset) /\ config.masked \in Seq(Fieldset)
           /\ config.encrypted \in Seq(Fieldset) /\ config.sorted \in Seq(Fieldset)
           /\ config.aesKey \in AesKeys /\ config.aesKey # "none"
           /\ Removals \in Seq(Fieldset)
<1>1. PICK c \in Configs : c = config
  OBVIOUS
<1>2. /\ c.excluded \in Seq(Fieldset) /\ c.preserved \in Seq(Fieldset) /\ c.kindFields \in Seq(Fieldset)
      /\ c.masked \in Seq(Fieldset) /\ c.encrypted \in Seq(Fieldset) /\ c.sorted \in Seq(Fieldset)
      /\ c.aesKey \in AesKeys /\ c.aesKey # "none"
  BY ConfigShape
<1>3. c.excluded \o c.kindFields \in Seq(Fieldset)
  BY <1>2, Parts
<1> QED
  BY <1>1, <1>2, <1>3 DEF Removals

LEMMA SharedValue ==
    ASSUME NEW vs, NEW o, NEW f, NEW k \in DOMAIN vs, IsValue(vs[k])
    PROVE  LET v == vs[k]
               w == Shared(vs, o, f)[k]
           IN  /\ IsValue(w) /\ w.place = v.place
               /\ IF v.held = "shared" /\ v.place \in DOMAIN o /\ ~ IsPrefix(f, v.place)
                    THEN w.held = "shared" /\ w.value = Subtree(o, v.place)
                    ELSE w.held = "alone" /\ w.value = v.value
<1>1. Shared(vs, o, f)[k] = IF vs[k].held = "shared" /\ vs[k].place \in DOMAIN o /\ ~ IsPrefix(f, vs[k].place)
                              THEN [vs[k] EXCEPT !.value = Subtree(o, vs[k].place)]
                              ELSE [vs[k] EXCEPT !.held = "alone"]
  BY DEF Shared
<1>2. PICK u : u = vs[k] /\ u = [place |-> u.place, held |-> u.held, value |-> u.value]
  BY DEF IsValue
<1>3. \A w : [u EXCEPT !.value = w] = [place |-> u.place, held |-> u.held, value |-> w]
  BY <1>2
<1>4. [u EXCEPT !.held = "alone"] = [place |-> u.place, held |-> "alone", value |-> u.value]
  BY <1>2
<1>5. CASE u.held = "shared" /\ u.place \in DOMAIN o /\ ~ IsPrefix(f, u.place)
  <2>1. Shared(vs, o, f)[k] = [place |-> u.place, held |-> u.held, value |-> Subtree(o, u.place)]
    BY <1>1, <1>2, <1>3, <1>5
  <2> QED
    BY <1>2, <1>5, <2>1 DEF IsValue
<1>6. CASE ~ (u.held = "shared" /\ u.place \in DOMAIN o /\ ~ IsPrefix(f, u.place))
  <2>1. Shared(vs, o, f)[k] = [place |-> u.place, held |-> "alone", value |-> u.value]
    BY <1>1, <1>2, <1>4, <1>6
  <2> QED
    BY <1>2, <1>6, <2>1 DEF IsValue
<1> QED
  BY <1>5, <1>6

\* A value that follows the object is one of it, or what it was.
LEMMA SharedIsTaken ==
    ASSUME NEW o, WellFormed(o), Plain(o), NEW f, NEW vs, \A k \in DOMAIN vs : Taken(vs[k])
    PROVE  DOMAIN Shared(vs, o, f) = DOMAIN vs /\ \A k \in DOMAIN vs : Taken(Shared(vs, o, f)[k])
<1>1. DOMAIN Shared(vs, o, f) = DOMAIN vs
  BY DEF Shared
<1>2. ASSUME NEW k \in DOMAIN vs PROVE Taken(Shared(vs, o, f)[k])
  <2>1. PICK v, w : v = vs[k] /\ w = Shared(vs, o, f)[k] /\ IsValue(v) /\ Taken(v)
    BY DEF Taken
  <2>2. /\ IsValue(w) /\ w.place = v.place
        /\ IF v.held = "shared" /\ v.place \in DOMAIN o /\ ~ IsPrefix(f, v.place)
             THEN w.held = "shared" /\ w.value = Subtree(o, v.place)
             ELSE w.held = "alone" /\ w.value = v.value
    BY <2>1, SharedValue
  <2>3. Taken(w)
    BY <2>1, <2>2 DEF Taken, Plain
  <2> QED
    BY <2>1, <2>3
<1> QED
  BY <1>1, <1>2

\* What a step of restoring makes of the object: nothing, or it sets a preserved field
\* of the key below the next excluded one.
LEMMA RestoreResult ==
    ASSUME TypeInv, Restore
    PROVE  /\ done \in Nat /\ done < Len(config.excluded) /\ done' = done + 1 /\ current' \in DOMAIN values
           /\ pc = "restore" /\ UNCHANGED <<pc, config, source>>
           /\ LET fields == OfKey(config.excluded, config.preserved, current', done + 1) IN
              \/ fields = {} /\ UNCHANGED <<values, plain, obj>>
              \/ \E j \in fields : \E t : \E place \in DOMAIN t :
                    LET f == config.preserved[j] IN
                    /\ f \in Restored /\ IsKeys(f)
                    /\ WellFormed(t) /\ Plain(t)
                    /\ Restores(obj, obj', {f}, t, place)
                    /\ Unblocked(obj, f) => Full(obj', f, t, place)
                    /\ values' = Shared(values, obj', f)
                    /\ plain' = obj'
<1>1. /\ done \in Nat /\ done < Len(config.excluded) /\ done' = done + 1
      /\ pc = "restore" /\ UNCHANGED <<pc, config, source>>
  BY DEF TypeInv, FieldsTypeOK, Restore
<1>2. current' \in DOMAIN values
  <2>1. CASE done = 0
    BY <2>1 DEF Restore
  <2>2. CASE done # 0
    BY <1>1, <2>2 DEF TypeInv, FieldsTypeOK, Restore
  <2> QED
    BY <2>1, <2>2
<1>3. PICK fields : fields = OfKey(config.excluded, config.preserved, current', done + 1)
  OBVIOUS
<1>4. \/ fields = {} /\ UNCHANGED <<values, plain, obj>>
      \/ \E j \in fields :
            /\ obj' = SetNestedField(obj, config.preserved[j], values[current'].value)
            /\ values' = Shared(values, obj', config.preserved[j])
            /\ plain' = obj'
  BY <1>3 DEF Restore
<1>5. ASSUME NEW j \in fields,
             obj' = SetNestedField(obj, config.preserved[j], values[current'].value),
             values' = Shared(values, obj', config.preserved[j]), plain' = obj'
      PROVE  \E t : \E place \in DOMAIN t :
                LET f == config.preserved[j] IN
                /\ f \in Restored /\ IsKeys(f)
                /\ WellFormed(t) /\ Plain(t)
                /\ Restores(obj, obj', {f}, t, place)
                /\ Unblocked(obj, f) => Full(obj', f, t, place)
                /\ values' = Shared(values, obj', f)
                /\ plain' = obj'
  <2>1. PICK pair : pair = <<done + 1, j>> /\ pair[2] = j /\ pair \in Pairs(config.excluded, config.preserved)
    BY <1>3 DEF OfKey
  <2>2. PICK f \in Restored : f = config.preserved[j] /\ j \in DOMAIN config.preserved
    BY <2>1 DEF Restored, Pairs
  <2>3. IsKeys(f)
    BY <2>2, ListsShape, FieldsShape DEF TypeInv, FieldsTypeOK
  <2>4. PICK v : v = values[current'] /\ Taken(v)
    BY <1>2 DEF TypeInv
  <2>5. PICK t, place : /\ place \in DOMAIN t /\ WellFormed(t) /\ Plain(t)
                        /\ values[current'].value = Subtree(t, place)
    BY <2>4 DEF Taken, Plain
  <2>6. PICK o, r : o = obj /\ r = obj' /\ WellFormed(o) /\ r = SetNestedField(o, f, Subtree(t, place))
    BY <1>5, <2>2, <2>5 DEF TypeInv, FieldsTypeOK
  <2>7. Restores(o, r, {f}, t, place) /\ (Unblocked(o, f) => Full(r, f, t, place))
    BY <2>3, <2>5, <2>6, RestoreStep
  <2> QED
    BY <1>5, <2>2, <2>3, <2>5, <2>6, <2>7
<1> QED
  BY <1>1, <1>2, <1>3, <1>4, <1>5

LEMMA TypeInit == Init => TypeInv
<1> SUFFICES ASSUME Init PROVE TypeInv
  OBVIOUS
<1>1. values = <<>> /\ DOMAIN <<>> = {}
  BY DEF Init
<1>2. WellFormed(source) /\ Plain(source)
  BY FieldsAssumption DEF Init, Plain
<1> QED
  BY <1>1, <1>2 DEF Init, TypeInv, FieldsTypeOK

LEMMA TypeCollect == TypeInv /\ Collect => TypeInv'
<1> SUFFICES ASSUME TypeInv, Collect PROVE TypeInv'
  OBVIOUS
<1>1. PICK ex \in Seq(Fieldset), pr \in Seq(Fieldset) : ex = config.excluded /\ pr = config.preserved
  BY ListsShape DEF TypeInv, FieldsTypeOK
<1>2. /\ Len(ex) \in Nat /\ DOMAIN ex = 1 .. Len(ex) /\ Len(pr) \in Nat /\ DOMAIN pr = 1 .. Len(pr)
  BY FieldsShape
<1>3. PICK found : found = PreservedValues(obj, ex, pr)
  OBVIOUS
<1>4. \A key \in DOMAIN found : \E place \in DOMAIN obj :
         found[key] = [place |-> place, held |-> "shared", value |-> Subtree(obj, place)]
  BY <1>2, <1>3, PreservedValuesResult
<1>5. WellFormed(obj) /\ Plain(obj)
  BY DEF TypeInv, FieldsTypeOK, Collect
<1>6. ASSUME NEW key \in DOMAIN found PROVE Taken(found[key])
  <2>1. PICK place, v : place \in DOMAIN obj /\ v = found[key] /\ v = [place |-> place, held |-> "shared", value |-> Subtree(obj, place)]
    BY <1>4
  <2>2. IsValue(v) /\ v.held = "shared" /\ v.place = place /\ v.value = Subtree(obj, place)
    BY <2>1 DEF IsValue
  <2> QED
    BY <1>5, <2>1, <2>2 DEF Taken, Plain
<1>7. values' = found
  BY <1>1, <1>3 DEF Collect
<1> QED
  BY <1>6, <1>7 DEF TypeInv, FieldsTypeOK, Collect

LEMMA TypeExclude == TypeInv /\ Exclude => TypeInv'
<1> SUFFICES ASSUME TypeInv, Exclude PROVE TypeInv'
  OBVIOUS
<1>1. WellFormed(obj) /\ Plain(obj) /\ done \in Nat
  BY DEF TypeInv, FieldsTypeOK, Exclude
<1>2. PICK field, r : r = RemoveNestedField(obj, field) /\ r = obj'
  BY DEF Exclude
<1>3. WellFormed(r) /\ DOMAIN r \subseteq DOMAIN obj /\ \A q \in DOMAIN r : r[q] = obj[q]
  <2>1. PICK o : o = obj /\ WellFormed(o)
    BY <1>1
  <2>2. LET s == RemoveNestedField(o, field) IN
        WellFormed(s) /\ DOMAIN s \subseteq DOMAIN o /\ \A q \in DOMAIN s : s[q] = o[q]
    BY <2>1, RemoveKeepsWellFormed
  <2> QED
    BY <1>2, <2>1, <2>2
<1>4. Plain(r)
  BY <1>1, <1>3 DEF Plain
<1>5. PICK field2 : values' = Shared(values, r, field2)
  BY <1>2 DEF Exclude
<1>6. DOMAIN values' = DOMAIN values /\ \A k \in DOMAIN values' : Taken(values'[k])
  BY <1>3, <1>4, <1>5, SharedIsTaken DEF TypeInv
<1> QED
  BY <1>1, <1>2, <1>3, <1>4, <1>6 DEF TypeInv, FieldsTypeOK, Exclude

LEMMA TypeRestore == TypeInv /\ Restore => TypeInv'
<1> SUFFICES ASSUME TypeInv, Restore PROVE TypeInv'
  OBVIOUS
<1>1. /\ done \in Nat /\ done' = done + 1 /\ current' \in DOMAIN values
      /\ pc = "restore" /\ UNCHANGED <<pc, config, source>>
  BY RestoreResult
<1>2. CASE UNCHANGED <<values, plain, obj>>
  BY <1>1, <1>2 DEF TypeInv, FieldsTypeOK, Plain
<1>3. CASE ~ UNCHANGED <<values, plain, obj>>
  <2>1. PICK f, t, place : /\ Restores(obj, obj', {f}, t, place) /\ Plain(t)
                           /\ values' = Shared(values, obj', f) /\ plain' = obj'
    BY <1>3, RestoreResult
  <2>2. PICK r : r = obj' /\ WellFormed(r)
    BY <2>1 DEF Restores
  <2>3. Plain(obj) /\ Map.key = "none"
    BY <1>1 DEF TypeInv, Map
  <2>4. Plain(r)
    <3>1. ASSUME NEW p \in DOMAIN r PROVE r[p].key = "none"
      <4>1. \/ p \in DOMAIN obj /\ r[p] = obj[p]
            \/ \E q \in DOMAIN t : r[p] = t[q]
            \/ r[p] = Map
        BY <2>1, <2>2 DEF Restores
      <4> QED
        BY <2>1, <2>3, <4>1 DEF Plain
    <3> QED
      BY <3>1 DEF Plain
  <2>5. DOMAIN values' = DOMAIN values /\ \A k \in DOMAIN values' : Taken(values'[k])
    BY <2>1, <2>2, <2>4, SharedIsTaken DEF TypeInv
  <2> QED
    BY <1>1, <2>1, <2>2, <2>4, <2>5 DEF TypeInv, FieldsTypeOK
<1> QED
  BY <1>2, <1>3

LEMMA TypeNextKey == TypeInv /\ NextKey => TypeInv'
<1> SUFFICES ASSUME TypeInv, NextKey PROVE TypeInv'
  OBVIOUS
<1>1. /\ values' = [k \in DOMAIN values \ {current} |-> values[k]]
      /\ UNCHANGED <<pc, config, source, plain, obj>> /\ done' = 0
  BY DEF NextKey
<1>2. \A k \in DOMAIN values' : Taken(values'[k])
  BY <1>1 DEF TypeInv
<1> QED
  BY <1>1, <1>2 DEF TypeInv, FieldsTypeOK, Plain

LEMMA TypeMask == TypeInv /\ Mask => TypeInv'
<1> SUFFICES ASSUME TypeInv, Mask PROVE TypeInv'
  OBVIOUS
<1>1. WellFormed(obj) /\ Plain(obj) /\ done \in Nat
  BY DEF TypeInv, FieldsTypeOK, Mask
<1>2. PICK field, checksum : obj' = MaskField(obj, field, checksum)
  BY DEF Mask
<1>3. /\ WellFormed(obj') /\ DOMAIN obj' \subseteq DOMAIN obj
      /\ \A q \in DOMAIN obj' : obj'[q] = DoMask(checksum) \/ obj'[q] = obj[q]
  <2>1. PICK o : o = obj /\ WellFormed(o)
    BY <1>1
  <2>2. LET r == MaskField(o, field, checksum) IN
        /\ WellFormed(r)
        /\ DOMAIN r \subseteq DOMAIN o
        /\ \A q \in DOMAIN o : q \in DOMAIN r <=> ~ \E t \in Transformed(o, field) : IsStrictPrefix(t, q)
        /\ \A q \in DOMAIN r : r[q] = IF q \in Transformed(o, field) THEN DoMask(checksum) ELSE o[q]
    BY <2>1, MaskFieldResult
  <2> QED
    BY <1>2, <2>1, <2>2
<1>4. DoMask(checksum).key = "none"
  BY DEF DoMask, Text, Scalar
<1>5. Plain(obj')
  BY <1>1, <1>3, <1>4 DEF Plain
<1> QED
  BY <1>1, <1>3, <1>5 DEF TypeInv, FieldsTypeOK, Mask

LEMMA TypeEncrypt == TypeInv /\ Encrypt => TypeInv'
<1> SUFFICES ASSUME TypeInv, Encrypt PROVE TypeInv'
  OBVIOUS
<1>1. WellFormed(obj) /\ done \in Nat
  BY DEF TypeInv, FieldsTypeOK
<1>2. PICK field, aesKey : obj' = EncryptField(obj, field, aesKey)
  BY DEF Encrypt
<1>3. EncryptsTo(obj, EncryptField(obj, field, aesKey), aesKey)
  BY <1>1, EncryptFieldIsStep
<1>4. WellFormed(obj')
  BY <1>2, <1>3 DEF EncryptsTo
<1> QED
  BY <1>1, <1>4 DEF TypeInv, FieldsTypeOK, Encrypt

\* What sorting does to the object.
LEMMA SortResult ==
    ASSUME TypeInv, Sort
    PROVE  /\ done + 1 \in DOMAIN config.sorted /\ IsKeys(config.sorted[done + 1])
           /\ \/ obj' = obj
              \/ LET f == config.sorted[done + 1] IN
                 /\ Kind(obj, f) = "list" /\ Elements(obj, f) # {} /\ ~ Panics(obj, f)
                 /\ pc' = pc
                 /\ \E m \in Sorted(obj, f) : m \in Rearrangements(Elements(obj, f)) /\ obj' = Moved(obj, f, m)
<1>1. config.sorted \in Seq(Fieldset) /\ done \in Nat /\ done < Len(config.sorted)
  BY ListsShape DEF TypeInv, FieldsTypeOK, Sort
<1>2. done + 1 \in DOMAIN config.sorted /\ IsKeys(config.sorted[done + 1])
  BY <1>1, FieldsShape
<1>3. PICK f : f = config.sorted[done + 1]
  OBVIOUS
<1>4. \A m \in Sorted(obj, f) : m \in Rearrangements(Elements(obj, f))
  BY DEF Sorted
<1>5. \/ obj' = obj
      \/ /\ Kind(obj, f) = "list" /\ Elements(obj, f) # {} /\ ~ Panics(obj, f)
         /\ pc' = pc
         /\ \E m \in Sorted(obj, f) : obj' = Moved(obj, f, m)
  BY <1>3 DEF Sort
<1> QED
  BY <1>2, <1>3, <1>4, <1>5

LEMMA TypeSort == TypeInv /\ Sort => TypeInv'
<1> SUFFICES ASSUME TypeInv, Sort PROVE TypeInv'
  OBVIOUS
<1>1. WellFormed(obj) /\ done \in Nat
  BY DEF TypeInv, FieldsTypeOK
<1>2. WellFormed(obj')
  <2>1. CASE obj' = obj
    BY <1>1, <2>1
  <2>2. CASE obj' # obj
    <3>1. PICK f : /\ IsKeys(f) /\ Kind(obj, f) = "list"
                   /\ \E m \in Rearrangements(Elements(obj, f)) : obj' = Moved(obj, f, m)
      BY <2>2, SortResult
    <3>2. PICK m \in Rearrangements(Elements(obj, f)) : obj' = Moved(obj, f, m)
      BY <3>1
    <3>3. f \in Seq(STRING)
      BY <3>1 DEF IsKeys
    <3>4. WellFormed(Moved(obj, f, m))
      BY <1>1, <3>1, <3>3, MovedKeepsWellFormed
    <3> QED
      BY <3>2, <3>4
  <2> QED
    BY <2>1, <2>2
<1>3. pc' \in {"sort", "panicked"}
  BY DEF Sort
<1> QED
  BY <1>1, <1>2, <1>3 DEF TypeInv, FieldsTypeOK, Sort

LEMMA TypeProceed == TypeInv /\ Proceed => TypeInv'
BY DEF TypeInv, FieldsTypeOK, Proceed, Plain

LEMMA TypeDecrypt == TypeInv /\ Decrypt => TypeInv'
<1> SUFFICES ASSUME TypeInv, Decrypt PROVE TypeInv'
  OBVIOUS
<1>1. WellFormed(obj)
  BY DEF TypeInv, FieldsTypeOK
<1>2. WellFormed(DecryptFields(obj))
  BY <1>1, DecryptFieldsResult
<1>3. WellFormed(obj')
  BY <1>1, <1>2 DEF Decrypt
<1>4. pc' \in {"refused", "decrypted"}
  BY DEF Decrypt
<1> QED
  BY <1>3, <1>4 DEF TypeInv, FieldsTypeOK, Decrypt

LEMMA TypeInvIsInductive == TypeInv /\ [Next]_vars => TypeInv'
<1> SUFFICES ASSUME TypeInv, [Next]_vars PROVE TypeInv'
  OBVIOUS
<1>1. CASE UNCHANGED vars
  BY <1>1 DEF vars, TypeInv, FieldsTypeOK, Plain
<1> QED
  BY <1>1, TypeCollect, TypeExclude, TypeRestore, TypeNextKey, TypeMask, TypeEncrypt, TypeSort, TypeProceed,
     TypeDecrypt DEF Next

\* Removing, restoring, masking, encrypting, sorting and decrypting leave an object whose
\* values are all in maps or lists, and whose lists start at 0 and have no gap.
THEOREM FieldsTypesAreCorrect == Spec => []FieldsTypeOK
<1>1. TypeInv => FieldsTypeOK
  BY DEF TypeInv
<1> QED
  BY TypeInit, TypeInvIsInductive, <1>1, PTL DEF Spec

-----------------------------------------------------------------------------
(* Excluded fields *)

\* A path that a field stands for, or one below it, in whichever object.
Hit(p, field) == \E r \in Seq(STRING) : IsPrefix(r, p) /\ Reaches(r, field)

\* A field stands for a path whether an element of a list is at one position or another.
LEMMA ReachesMoved ==
    ASSUME NEW f \in Seq(STRING), NEW r \in Seq(STRING), IsStrictPrefix(f, r),
           NEW xs \in SUBSET Positions, r[Len(f) + 1] \in xs, NEW by \in [xs -> xs],
           NEW field, Reaches(r, field)
    PROVE  Reaches(Move(f, r, by), field)
<1>1. xs \in SUBSET STRING
  BY PositionsShape
<1>2. PICK s : s = Move(f, r, by)
  OBVIOUS
<1>3. /\ s \in Seq(STRING) /\ Len(s) = Len(r)
      /\ s[Len(f) + 1] = by[r[Len(f) + 1]]
      /\ \A i \in 1 .. Len(r) : i # Len(f) + 1 => s[i] = r[i]
      /\ Len(f) + 1 \in 1 .. Len(r)
  BY <1>1, <1>2, MoveShape, ZenonT(60)
<1>4. /\ DOMAIN r = 1 .. Len(r) /\ DOMAIN s = 1 .. Len(r) /\ Len(r) \in Nat
      /\ r[Len(f) + 1] \in Positions /\ s[Len(f) + 1] \in Positions
  BY <1>3, LenProperties
<1>5. \A i \in 1 .. Len(r) : /\ (s[i] \in Positions <=> r[i] \in Positions)
                             /\ (r[i] \notin Positions => s[i] = r[i])
  BY <1>3, <1>4
<1> DEFINE keys(p) == {i \in DOMAIN p : p[i] \notin Positions}
<1>6. keys(s) = keys(r) /\ \A i \in keys(r) : s[i] = r[i]
  BY <1>4, <1>5
<1>7. /\ r # <<>> /\ Last(r) \notin Positions /\ Cardinality(keys(r)) = Len(field)
      /\ \A i \in keys(r) : r[i] = field[Cardinality(keys(r) \cap (1 .. i))]
      /\ \A i \in 2 .. Len(r) : ~ (r[i - 1] \in Positions /\ r[i] \in Positions)
  BY DEF Reaches
<1> HIDE DEF keys
<1>8. s # <<>> /\ Last(s) \notin Positions
  <2>1. Len(r) \in Nat \ {0} /\ Len(r) \in 1 .. Len(r)
    BY <1>4, <1>7, EmptySeq
  <2>2. s # <<>>
    BY <1>3, <2>1, EmptySeq
  <2>3. r[Len(r)] \notin Positions
    BY <1>7 DEF Last
  <2>4. s[Len(s)] \notin Positions
    BY <1>3, <1>5, <2>1, <2>3
  <2> QED
    BY <2>2, <2>4 DEF Last
<1>9. \A i \in 2 .. Len(s) : ~ (s[i - 1] \in Positions /\ s[i] \in Positions)
  <2>1. ASSUME NEW i \in 2 .. Len(r) PROVE ~ (s[i - 1] \in Positions /\ s[i] \in Positions)
    <3>1. i \in 1 .. Len(r) /\ i - 1 \in 1 .. Len(r)
      BY <1>4
    <3> QED
      BY <1>5, <1>7, <3>1
  <2> QED
    BY <1>3, <2>1
<1>10. \A i \in keys(s) : s[i] = field[Cardinality(keys(s) \cap (1 .. i))]
  BY <1>6, <1>7
<1>11. Cardinality(keys(s)) = Len(field)
  BY <1>6, <1>7
<1>12. Reaches(s, field)
  BY <1>8, <1>9, <1>10, <1>11 DEF Reaches, keys
<1> QED
  BY <1>2, <1>12

LEMMA HitMoved ==
    ASSUME NEW f \in Seq(STRING), NEW p \in Seq(STRING), IsStrictPrefix(f, p),
           NEW xs \in SUBSET Positions, p[Len(f) + 1] \in xs, NEW by \in [xs -> xs],
           NEW field, Hit(p, field)
    PROVE  Hit(Move(f, p, by), field)
<1>1. PICK r \in Seq(STRING) : IsPrefix(r, p) /\ Reaches(r, field)
  BY DEF Hit
<1>2. xs \in SUBSET STRING
  BY PositionsShape
<1>3. PICK q : q = Move(f, p, by)
  OBVIOUS
<1>4. /\ q \in Seq(STRING) /\ Len(q) = Len(p) /\ IsStrictPrefix(f, q)
      /\ q[Len(f) + 1] = by[p[Len(f) + 1]]
      /\ \A i \in 1 .. Len(p) : i # Len(f) + 1 => q[i] = p[i]
      /\ Len(f) + 1 \in 1 .. Len(p)
  BY <1>2, <1>3, MoveShape, ZenonT(60)
<1>5. Len(f) \in Nat /\ Len(p) \in Nat /\ Len(r) \in Nat
  BY LenProperties
<1>6. Len(r) <= Len(p) /\ \A i \in 1 .. Len(r) : r[i] = p[i]
  BY <1>1, PrefixSteps
<1>7. CASE Len(r) <= Len(f)
  <2>1. \A i \in 1 .. Len(r) : r[i] = q[i]
    BY <1>4, <1>5, <1>6, <1>7
  <2>2. IsPrefix(r, q)
    BY <1>4, <1>6, <2>1, PrefixSteps
  <2> QED
    BY <1>1, <1>3, <2>2 DEF Hit
<1>8. CASE ~ (Len(r) <= Len(f))
  <2>1. IsStrictPrefix(f, r)
    <3>1. IsPrefix(f, p)
      BY DEF IsStrictPrefix
    <3>2. IsPrefix(f, r)
      BY <1>1, <1>5, <1>8, <3>1, PrefixesOfOne
    <3> QED
      BY <1>5, <1>8, <3>2 DEF IsStrictPrefix
  <2>2. Len(f) + 1 \in 1 .. Len(r) /\ r[Len(f) + 1] = p[Len(f) + 1]
    BY <1>5, <1>6, <1>8
  <2>3. r[Len(f) + 1] \in xs
    BY <2>2
  <2>4. PICK s : s = Move(f, r, by)
    OBVIOUS
  <2>5. Reaches(s, field)
    BY <1>1, <2>1, <2>3, <2>4, ReachesMoved
  <2>6. /\ s \in Seq(STRING) /\ Len(s) = Len(r)
        /\ s[Len(f) + 1] = by[r[Len(f) + 1]]
        /\ \A i \in 1 .. Len(r) : i # Len(f) + 1 => s[i] = r[i]
    BY <1>2, <2>1, <2>3, <2>4, MoveShape, ZenonT(60)
  <2>7. ASSUME NEW i \in 1 .. Len(s) PROVE s[i] = q[i]
    <3>1. i \in 1 .. Len(r) /\ i \in 1 .. Len(p)
      BY <1>5, <1>6, <2>6
    <3>2. CASE i = Len(f) + 1
      BY <1>4, <2>2, <2>6, <3>2
    <3>3. CASE i # Len(f) + 1
      BY <1>4, <1>6, <2>6, <3>1, <3>3
    <3> QED
      BY <3>2, <3>3
  <2>8. IsPrefix(s, q)
    BY <1>4, <1>6, <2>6, <2>7, PrefixSteps
  <2> QED
    BY <1>3, <2>5, <2>6, <2>8 DEF Hit
<1> QED
  BY <1>7, <1>8

\* What is above or below a path of keys stays so when an element of a list changes
\* its position: the list is not above the end of that path.
LEMMA RelatedMoved ==
    ASSUME NEW f \in Seq(STRING), NEW p \in Seq(STRING), IsStrictPrefix(f, p),
           NEW xs \in SUBSET Positions, p[Len(f) + 1] \in xs, NEW by \in [xs -> xs],
           NEW g, IsKeys(g), NEW q, q = Move(f, p, by), IsPrefix(g, q) \/ IsPrefix(q, g)
    PROVE  IsPrefix(g, f) /\ IsPrefix(g, p)
<1>1. xs \in SUBSET STRING
  BY PositionsShape
<1>2. /\ q \in Seq(STRING) /\ Len(q) = Len(p) /\ IsStrictPrefix(f, q)
      /\ q[Len(f) + 1] = by[p[Len(f) + 1]]
      /\ Len(f) + 1 \in 1 .. Len(p)
  BY <1>1, MoveShape, ZenonT(60)
<1>3. Len(f) \in Nat /\ Len(p) \in Nat /\ Len(g) \in Nat /\ g \in Seq(STRING) /\ \A i \in 1 .. Len(g) : g[i] \notin Positions
  BY LenProperties DEF IsKeys
<1>4. q[Len(f) + 1] \in Positions
  BY <1>2
<1>5. ~ IsPrefix(q, g)
  <2>1. IsPrefix(q, g) => Len(q) <= Len(g) /\ \A i \in 1 .. Len(q) : q[i] = g[i]
    BY <1>2, <1>3, PrefixSteps
  <2>2. IsPrefix(q, g) => q[Len(f) + 1] = g[Len(f) + 1] /\ Len(f) + 1 \in 1 .. Len(g)
    BY <1>2, <1>3, <2>1
  <2> QED
    BY <1>3, <1>4, <2>2
<1>6. IsPrefix(g, q)
  BY <1>5
<1>7. Len(g) <= Len(f)
  <2>1. Len(g) <= Len(q) /\ \A i \in 1 .. Len(g) : g[i] = q[i]
    BY <1>2, <1>3, <1>6, PrefixSteps
  <2>2. ~ (Len(f) + 1 \in 1 .. Len(g))
    BY <1>3, <1>4, <2>1
  <2> QED
    BY <1>3, <2>2
<1>8. IsPrefix(f, q) /\ IsPrefix(f, p)
  BY <1>2 DEF IsStrictPrefix
<1>9. IsPrefix(g, f)
  BY <1>2, <1>3, <1>6, <1>7, <1>8, PrefixesOfOne
<1> QED
  BY <1>3, <1>8, <1>9, PrefixesOfOne

\* The inductive invariant of the removals: what a removal has been through for is
\* gone, but for what was put below a preserved field or above one.
ExcludedInv ==
    /\ pc = "remove" => /\ done <= Len(Removals)
                        /\ \A p \in DOMAIN obj : \A i \in 1 .. done : ~ Hit(p, Removals[i])
    /\ pc \notin {"collect", "remove"} => \A p \in DOMAIN obj :
          (\E i \in DOMAIN Removals : Hit(p, Removals[i])) =>
              \E f \in Restored : IsPrefix(f, p) \/ IsPrefix(p, f)

LEMMA ExcludedInvIsEnough == TypeInv /\ ExcludedInv => ExcludedFieldsGone
<1> SUFFICES ASSUME TypeInv, ExcludedInv, pc \notin {"collect", "remove"},
                    NEW p \in DOMAIN obj, Among(Removals, p)
             PROVE  \E f \in Restored : IsPrefix(f, p) \/ IsPrefix(p, f)
  BY DEF ExcludedFieldsGone
<1>1. PICK i \in DOMAIN Removals : \E r \in ReachedBy(source, Removals[i]) : IsPrefix(r, p)
  BY DEF Among
<1>2. PICK r \in ReachedBy(source, Removals[i]) : IsPrefix(r, p)
  BY <1>1
<1>3. DOMAIN source \subseteq Seq(STRING)
  BY FieldsAssumption DEF TypeInv, FieldsTypeOK, WellFormed
<1>4. r \in Seq(STRING) /\ Reaches(r, Removals[i])
  BY <1>3 DEF ReachedBy
<1>5. Hit(p, Removals[i])
  BY <1>2, <1>4 DEF Hit
<1> QED
  BY <1>1, <1>5 DEF ExcludedInv

LEMMA ExcludedInit == Init => ExcludedInv
BY DEF Init, ExcludedInv

LEMMA ExcludedCollect == TypeInv /\ ExcludedInv /\ Collect /\ done = 0 => ExcludedInv'
<1> SUFFICES ASSUME TypeInv, ExcludedInv, Collect, done = 0 PROVE ExcludedInv'
  OBVIOUS
<1>1. Removals \in Seq(Fieldset)
  BY ListsShape DEF TypeInv, FieldsTypeOK
<1>2. Len(Removals) \in Nat
  BY <1>1, LenProperties
<1>3. Removals' = Removals /\ done' = 0 /\ pc' = "remove"
  BY DEF Removals, Collect
<1>4. 1 .. done' = {} /\ done' <= Len(Removals')
  BY <1>2, <1>3
<1> QED
  BY <1>3, <1>4 DEF ExcludedInv

LEMMA ExcludedExclude == TypeInv /\ ExcludedInv /\ Exclude => ExcludedInv'
<1> SUFFICES ASSUME TypeInv, ExcludedInv, Exclude PROVE ExcludedInv'
  OBVIOUS
<1>1. WellFormed(obj) /\ done \in Nat /\ pc = "remove" /\ pc' = "remove" /\ done < Len(Removals) /\ done' = done + 1
  BY DEF TypeInv, FieldsTypeOK, Exclude
<1>2. PICK field : field = Removals[done + 1]
  OBVIOUS
<1>3. PICK o : o = obj /\ WellFormed(o)
  BY <1>1
<1>4. LET s == RemoveNestedField(o, field) IN
      /\ DOMAIN s \subseteq DOMAIN o
      /\ \A q \in DOMAIN o : q \in DOMAIN s <=> ~ \E p \in ReachedBy(o, field) : IsPrefix(p, q)
  BY <1>3, RemoveKeepsWellFormed
<1>5. obj' = RemoveNestedField(o, field)
  BY <1>2, <1>3 DEF Exclude
<1>6. ASSUME NEW p \in DOMAIN obj' PROVE p \in DOMAIN obj /\ ~ Hit(p, field)
  <2>1. p \in DOMAIN o /\ ~ \E r \in ReachedBy(o, field) : IsPrefix(r, p)
    BY <1>4, <1>5
  <2>2. ASSUME NEW r \in Seq(STRING), IsPrefix(r, p), Reaches(r, field) PROVE FALSE
    <3>1. r \in DOMAIN o
      BY <1>3, <2>1, <2>2, PrefixIsThere
    <3>2. r \in ReachedBy(o, field)
      BY <2>2, <3>1 DEF ReachedBy
    <3> QED
      BY <2>1, <2>2, <3>2
  <2> QED
    BY <1>3, <2>1, <2>2 DEF Hit
<1>7. Removals' = Removals
  BY DEF Removals, Exclude
<1>8. Removals \in Seq(Fieldset)
  BY ListsShape DEF TypeInv, FieldsTypeOK
<1>9. Len(Removals) \in Nat
  BY <1>8, LenProperties
<1>10. ASSUME NEW p \in DOMAIN obj', NEW i \in 1 .. done + 1 PROVE ~ Hit(p, Removals[i])
  <2>1. CASE i = done + 1
    BY <1>2, <1>6, <2>1
  <2>2. CASE i # done + 1
    <3>1. i \in 1 .. done
      BY <1>1, <2>2
    <3> QED
      BY <1>1, <1>6, <3>1 DEF ExcludedInv
  <2> QED
    BY <2>1, <2>2
<1>11. done + 1 <= Len(Removals)
  BY <1>1, <1>9
<1> QED
  BY <1>1, <1>7, <1>10, <1>11 DEF ExcludedInv

LEMMA ExcludedRestore == TypeInv /\ ExcludedInv /\ Restore => ExcludedInv'
<1> SUFFICES ASSUME TypeInv, ExcludedInv, Restore PROVE ExcludedInv'
  OBVIOUS
<1>1. pc = "restore" /\ UNCHANGED <<pc, config, source>>
  BY RestoreResult
<1>2. Removals' = Removals /\ Restored' = Restored
  BY <1>1 DEF Removals, Restored
<1>3. CASE obj' = obj
  BY <1>1, <1>2, <1>3 DEF ExcludedInv
<1>4. CASE obj' # obj
  <2>1. PICK f \in Restored : \E t, place : Restores(obj, obj', {f}, t, place)
    BY <1>4, RestoreResult
  <2>2. ASSUME NEW p \in DOMAIN obj', NEW i \in DOMAIN Removals, Hit(p, Removals[i])
        PROVE  \E g \in Restored : IsPrefix(g, p) \/ IsPrefix(p, g)
    <3>1. p \in DOMAIN obj \/ IsPrefix(f, p) \/ IsStrictPrefix(p, f)
      BY <2>1 DEF Restores
    <3>2. p \in DOMAIN obj => \E g \in Restored : IsPrefix(g, p) \/ IsPrefix(p, g)
      BY <1>1, <2>2 DEF ExcludedInv
    <3> QED
      BY <3>1, <3>2 DEF IsStrictPrefix
  <2> QED
    BY <1>1, <1>2, <2>2 DEF ExcludedInv
<1> QED
  BY <1>3, <1>4

\* A step that adds no node to the object and changes nothing else that the removals
\* are about.
LEMMA ExcludedShrink ==
    ASSUME ExcludedInv, pc \notin {"collect", "remove"}, pc' \notin {"collect", "remove"},
           DOMAIN obj' \subseteq DOMAIN obj, config' = config
    PROVE  ExcludedInv'
<1>1. Removals' = Removals /\ Restored' = Restored
  BY DEF Removals, Restored
<1> QED
  BY <1>1 DEF ExcludedInv

LEMMA ExcludedMask == TypeInv /\ ExcludedInv /\ Mask => ExcludedInv'
<1> SUFFICES ASSUME TypeInv, ExcludedInv, Mask PROVE ExcludedInv'
  OBVIOUS
<1>1. PICK field, checksum, o : obj' = MaskField(o, field, checksum) /\ o = obj
  BY DEF Mask
<1>2. WellFormed(o)
  BY <1>1 DEF TypeInv, FieldsTypeOK
<1>3. DOMAIN MaskField(o, field, checksum) \subseteq DOMAIN o
  BY <1>2, MaskFieldResult
<1> QED
  BY <1>1, <1>3, ExcludedShrink DEF Mask

LEMMA ExcludedEncrypt == TypeInv /\ ExcludedInv /\ Encrypt => ExcludedInv'
<1> SUFFICES ASSUME TypeInv, ExcludedInv, Encrypt PROVE ExcludedInv'
  OBVIOUS
<1>1. PICK field, aesKey, o : obj' = EncryptField(o, field, aesKey) /\ o = obj
  BY DEF Encrypt
<1>2. WellFormed(o)
  BY <1>1 DEF TypeInv, FieldsTypeOK
<1>3. DOMAIN EncryptField(o, field, aesKey) \subseteq DOMAIN o
  BY <1>2, EncryptFieldIsStep DEF EncryptsTo
<1> QED
  BY <1>1, <1>3, ExcludedShrink DEF Encrypt

LEMMA ExcludedDecrypt == TypeInv /\ ExcludedInv /\ Decrypt => ExcludedInv'
<1> SUFFICES ASSUME TypeInv, ExcludedInv, Decrypt PROVE ExcludedInv'
  OBVIOUS
<1>1. DOMAIN DecryptFields(obj) = DOMAIN obj
  BY DEF DecryptFields
<1>2. DOMAIN obj' \subseteq DOMAIN obj
  BY <1>1 DEF Decrypt
<1>3. pc = "written" /\ pc' \in {"refused", "decrypted"} /\ config' = config
  BY DEF Decrypt
<1> QED
  BY <1>2, <1>3, ExcludedShrink

LEMMA ExcludedSort == TypeInv /\ ExcludedInv /\ Sort => ExcludedInv'
<1> SUFFICES ASSUME TypeInv, ExcludedInv, Sort PROVE ExcludedInv'
  OBVIOUS
<1>1. pc = "sort" /\ pc' \in {"sort", "panicked"} /\ config' = config
  BY DEF Sort
<1>2. CASE obj' = obj
  BY <1>1, <1>2, ExcludedShrink
<1>3. CASE obj' # obj
  <2>1. PICK f : /\ IsKeys(f) /\ Kind(obj, f) = "list"
                 /\ \E m \in Rearrangements(Elements(obj, f)) : obj' = Moved(obj, f, m)
    BY <1>3, SortResult
  <2>2. PICK xs : xs = Elements(obj, f)
    OBVIOUS
  <2>3. PICK m \in Rearrangements(xs) : obj' = Moved(obj, f, m)
    BY <2>1, <2>2
  <2>4. f \in Seq(STRING) /\ WellFormed(obj) /\ xs \in SUBSET Positions
    BY <2>1, <2>2 DEF IsKeys, TypeInv, FieldsTypeOK, Elements
  <2>5. m.from \in [xs -> xs]
    BY RearrangementShape
  <2>6. \A p \in DOMAIN obj' : /\ p \in Seq(STRING)
                               /\ IF IsStrictPrefix(f, p)
                                    THEN p[Len(f) + 1] \in xs /\ Move(f, p, m.from) \in DOMAIN obj
                                    ELSE p \in DOMAIN obj
    <3>1. \A p : p \in DOMAIN Moved(obj, f, m) <=>
                 /\ p \in Seq(STRING)
                 /\ IF IsStrictPrefix(f, p)
                      THEN p[Len(f) + 1] \in Elements(obj, f) /\ Move(f, p, m.from) \in DOMAIN obj
                      ELSE p \in DOMAIN obj
      BY <2>1, <2>2, <2>4, MovedNodes
    <3> QED
      BY <2>2, <2>3, <3>1
  <2>7. Removals' = Removals /\ Restored' = Restored
    BY <1>1 DEF Removals, Restored
  <2>8. ASSUME NEW g \in Restored PROVE IsKeys(g)
    <3>1. config.preserved \in Seq(Fieldset)
      BY ListsShape DEF TypeInv, FieldsTypeOK
    <3>2. \A j \in DOMAIN config.preserved : IsKeys(config.preserved[j])
      BY <3>1, FieldsShape
    <3> QED
      BY <3>2 DEF Restored, Pairs
  <2>9. ASSUME NEW p \in DOMAIN obj', NEW i \in DOMAIN Removals, Hit(p, Removals[i])
        PROVE  \E g \in Restored : IsPrefix(g, p) \/ IsPrefix(p, g)
    <3>1. CASE ~ IsStrictPrefix(f, p)
      BY <1>1, <2>6, <2>9, <3>1 DEF ExcludedInv
    <3>2. CASE IsStrictPrefix(f, p)
      <4>1. p \in Seq(STRING) /\ p[Len(f) + 1] \in xs
        BY <2>6, <3>2
      <4>2. PICK q \in DOMAIN obj : q = Move(f, p, m.from)
        BY <2>6, <3>2
      <4>3. PICK field : field = Removals[i]
        OBVIOUS
      <4>4. Hit(q, field)
        BY <2>4, <2>5, <2>9, <3>2, <4>1, <4>2, <4>3, HitMoved
      <4>5. PICK g \in Restored : IsPrefix(g, q) \/ IsPrefix(q, g)
        BY <1>1, <4>3, <4>4 DEF ExcludedInv
      <4>6. IsPrefix(g, p)
        BY <2>4, <2>5, <2>8, <3>2, <4>1, <4>2, <4>5, RelatedMoved
      <4> QED
        BY <4>6
    <3> QED
      BY <3>1, <3>2
  <2> QED
    BY <1>1, <2>7, <2>9 DEF ExcludedInv
<1> QED
  BY <1>2, <1>3

LEMMA ExcludedNextKey == TypeInv /\ ExcludedInv /\ NextKey => ExcludedInv'
BY ExcludedShrink DEF NextKey

LEMMA ExcludedProceed == TypeInv /\ ExcludedInv /\ Proceed => ExcludedInv'
<1> SUFFICES ASSUME TypeInv, ExcludedInv, Proceed PROVE ExcludedInv'
  OBVIOUS
<1>1. Removals' = Removals /\ Restored' = Restored /\ obj' = obj /\ config' = config
  BY DEF Removals, Restored, Proceed
<1>2. CASE pc = "remove"
  <2>1. done = Len(Removals) /\ pc' = "restore"
    BY <1>2 DEF Proceed
  <2>2. Removals \in Seq(Fieldset)
    BY ListsShape DEF TypeInv, FieldsTypeOK
  <2>3. DOMAIN Removals = 1 .. done
    BY <2>1, <2>2, LenProperties
  <2> QED
    BY <1>1, <1>2, <2>1, <2>3 DEF ExcludedInv
<1>3. CASE pc # "remove"
  <2>1. pc \notin {"collect", "remove"} /\ pc' \notin {"collect", "remove"}
    BY <1>3 DEF Proceed
  <2> QED
    BY <1>1, <2>1, ExcludedShrink
<1> QED
  BY <1>2, <1>3

\* No iteration has been made when the loop over the excluded fields starts.
StartInv == pc = "collect" => done = 0

LEMMA ExcludedInvIsInductive ==
    TypeInv /\ ExcludedInv /\ StartInv /\ [Next]_vars => ExcludedInv' /\ StartInv'
<1> SUFFICES ASSUME TypeInv, ExcludedInv, StartInv, [Next]_vars PROVE ExcludedInv' /\ StartInv'
  OBVIOUS
<1>1. StartInv'
  BY DEF StartInv, Next, vars, Collect, Exclude, Restore, NextKey, Mask, Encrypt, Sort, Proceed, Decrypt
<1>2. CASE UNCHANGED vars
  <2>1. Removals' = Removals /\ Restored' = Restored
    BY <1>2 DEF vars, Removals, Restored
  <2> QED
    BY <1>1, <1>2, <2>1 DEF vars, ExcludedInv
<1>3. CASE Collect
  <2>1. done = 0
    BY <1>3 DEF StartInv, Collect
  <2> QED
    BY <1>1, <1>3, <2>1, ExcludedCollect
<1> QED
  BY <1>1, <1>2, <1>3, ExcludedExclude, ExcludedRestore, ExcludedNextKey, ExcludedMask, ExcludedEncrypt,
     ExcludedSort, ExcludedProceed, ExcludedDecrypt DEF Next

LEMMA ExcludedAlways == Spec => [](TypeInv /\ ExcludedInv)
<1>1. Init => StartInv
  BY DEF Init, StartInv
<1> QED
  BY TypeInit, TypeInvIsInductive, ExcludedInit, ExcludedInvIsInductive, <1>1, PTL DEF Spec

\* Whatever the configuration, the object and the order in which FilterFields restores:
\* nothing that a removal stands for is exported, in maps or in lists, but for the
\* preserved fields and what leads to them.
THEOREM ExcludedFieldsAreGone == Spec => []ExcludedFieldsGone
BY ExcludedAlways, ExcludedInvIsEnough, PTL

-----------------------------------------------------------------------------
(* Fields that the configuration does not speak of *)

\* The fields the configuration speaks of.
Spoken == Removals \o Secrets \o config.sorted

LEMMA SpokenParts ==
    ASSUME config \in Configs
    PROVE  /\ Covers(Spoken, config.excluded) /\ Covers(Spoken, Removals)
           /\ Covers(Spoken, config.masked) /\ Covers(Spoken, config.encrypted)
           /\ Covers(Spoken, config.sorted)
<1>1. PICK a \in Seq(Fieldset), b \in Seq(Fieldset), c \in Seq(Fieldset), d \in Seq(Fieldset), e \in Seq(Fieldset) :
         a = config.excluded /\ b = config.kindFields /\ c = config.masked /\ d = config.encrypted /\ e = config.sorted
  BY ListsShape
<1>2. PICK r \in Seq(Fieldset) : r = a \o b /\ Covers(r, a) /\ Covers(r, b)
  BY Parts
<1>3. PICK s \in Seq(Fieldset) : s = c \o d /\ Covers(s, c) /\ Covers(s, d)
  BY Parts
<1>4. PICK u \in Seq(Fieldset) : u = r \o s /\ Covers(u, r) /\ Covers(u, s)
  BY Parts
<1>5. PICK w \in Seq(Fieldset) : w = u \o e /\ Covers(w, u) /\ Covers(w, e)
  BY Parts
<1>6. r = Removals /\ s = Secrets /\ w = Spoken
  BY <1>1, <1>2, <1>3, <1>4, <1>5 DEF Removals, Secrets, Spoken
<1>7. ASSUME NEW x, NEW y, NEW z, Covers(z, y), Covers(y, x) PROVE Covers(z, x)
  BY <1>7 DEF Covers
<1>8. Covers(w, r) /\ Covers(w, s)
  BY <1>4, <1>5, <1>7
<1>9. Covers(w, a) /\ Covers(w, c) /\ Covers(w, d)
  BY <1>2, <1>3, <1>7, <1>8
<1> QED
  BY <1>1, <1>5, <1>6, <1>8, <1>9

\* What a field transforms is a path it stands for, or one below it.
LEMMA TargetIsHit ==
    ASSUME NEW o, WellFormed(o), NEW field, NEW t \in Transformed(o, field)
    PROVE  t \in Seq(STRING) /\ Hit(t, field)
<1>1. t \in DOMAIN o /\ t # <<>> /\ t \in Seq(STRING)
  BY TargetsAreThere DEF WellFormed
<1>2. CASE t \in ReachedBy(o, field)
  <2>1. IsPrefix(t, t)
    BY <1>1, StrictPrefix
  <2> QED
    BY <1>1, <1>2, <2>1 DEF Hit, ReachedBy
<1>3. CASE Front(t) \in ReachedBy(o, field)
  <2>1. PICK a \in Seq(STRING) : a = Front(t)
    BY <1>1, FrontShape
  <2>2. IsPrefix(a, a)
    BY StrictPrefix
  <2>3. IsStrictPrefix(a, t)
    BY <1>1, <2>1, <2>2, StrictPrefix
  <2> QED
    BY <1>1, <1>3, <2>1, <2>3 DEF Hit, ReachedBy, IsStrictPrefix
<1> QED
  BY <1>1, <1>2, <1>3 DEF Transformed

\* What is below something that is hit is hit.
LEMMA BelowHit ==
    ASSUME NEW p \in Seq(STRING), NEW q \in Seq(STRING), IsPrefix(p, q), NEW field, Hit(p, field)
    PROVE  Hit(q, field)
<1>1. PICK r \in Seq(STRING) : IsPrefix(r, p) /\ Reaches(r, field)
  BY DEF Hit
<1>2. IsPrefix(r, q)
  BY <1>1, PrefixesOfOne
<1> QED
  BY <1>1, <1>2 DEF Hit

Untouched(p) == p \in DOMAIN source /\ ~ Among(Spoken, p)

\* What the configuration does not speak of is as it was in the cluster, at any time.
UntouchedInv == \A p \in DOMAIN source : ~ Among(Spoken, p) => p \in DOMAIN obj /\ obj[p] = source[p]

LEMMA UntouchedIsNotHit ==
    ASSUME TypeInv, NEW p, Untouched(p), NEW field, \E j \in DOMAIN Spoken : Spoken[j] = field
    PROVE  p \in Seq(STRING) /\ ~ Hit(p, field)
<1>1. WellFormed(source)
  BY FieldsAssumption DEF TypeInv, FieldsTypeOK
<1>2. p \in DOMAIN source /\ p \in Seq(STRING)
  BY <1>1 DEF Untouched, WellFormed
<1>3. ASSUME NEW r \in Seq(STRING), IsPrefix(r, p), Reaches(r, field) PROVE FALSE
  <2>1. r \in DOMAIN source
    BY <1>1, <1>2, <1>3, PrefixIsThere
  <2>2. r \in ReachedBy(source, field)
    BY <1>3, <2>1 DEF ReachedBy
  <2> QED
    BY <1>3, <2>2 DEF Untouched, Among
<1> QED
  BY <1>2, <1>3 DEF Hit

\* A step that leaves alone what is not hit by one of the fields.
LEMMA UntouchedStep ==
    ASSUME UntouchedInv, source' = source, config' = config,
           \A p : Untouched(p) /\ p \in DOMAIN obj => p \in DOMAIN obj' /\ obj'[p] = obj[p]
    PROVE  UntouchedInv'
<1>1. Spoken' = Spoken
  BY DEF Spoken, Removals, Secrets
<1>2. \A p : Among(Spoken, p)' <=> Among(Spoken, p)
  BY <1>1 DEF Among
<1>3. ASSUME NEW p \in DOMAIN source, ~ Among(Spoken, p) PROVE p \in DOMAIN obj' /\ obj'[p] = source[p]
  <2>1. Untouched(p) /\ p \in DOMAIN obj /\ obj[p] = source[p]
    BY <1>3 DEF Untouched, UntouchedInv
  <2> QED
    BY <2>1
<1> QED
  BY <1>2, <1>3 DEF UntouchedInv

LEMMA UntouchedExclude == TypeInv /\ UntouchedInv /\ Exclude => UntouchedInv'
<1> SUFFICES ASSUME TypeInv, UntouchedInv, Exclude PROVE UntouchedInv'
  OBVIOUS
<1>1. PICK o, field : /\ o = obj /\ WellFormed(o) /\ obj' = RemoveNestedField(o, field)
                      /\ field = Removals[done + 1]
  BY DEF Exclude, TypeInv, FieldsTypeOK
<1>2. LET s == RemoveNestedField(o, field) IN
      /\ \A q \in DOMAIN s : s[q] = o[q]
      /\ \A q \in DOMAIN o : q \in DOMAIN s <=> ~ \E p \in ReachedBy(o, field) : IsPrefix(p, q)
  BY <1>1, RemoveKeepsWellFormed
<1>3. \E j \in DOMAIN Spoken : Spoken[j] = field
  <2>1. config \in Configs /\ done \in Nat /\ done < Len(Removals)
    BY DEF TypeInv, FieldsTypeOK, Exclude
  <2>2. done + 1 \in DOMAIN Removals
    BY <2>1, ListsShape, LenProperties
  <2> QED
    BY <1>1, <2>1, <2>2, SpokenParts DEF Covers
<1>4. ASSUME NEW p, Untouched(p), p \in DOMAIN obj PROVE p \in DOMAIN obj' /\ obj'[p] = obj[p]
  <2>1. ~ Hit(p, field)
    BY <1>3, <1>4, UntouchedIsNotHit
  <2>2. ~ \E r \in ReachedBy(o, field) : IsPrefix(r, p)
    BY <1>1, <2>1 DEF Hit, ReachedBy, WellFormed
  <2> QED
    BY <1>1, <1>2, <1>4, <2>2
<1> QED
  BY <1>4, UntouchedStep DEF Exclude

LEMMA UntouchedRestore == TypeInv /\ UntouchedInv /\ Restore => UntouchedInv'
<1> SUFFICES ASSUME TypeInv, UntouchedInv, Restore PROVE UntouchedInv'
  OBVIOUS
<1>1. CASE obj' = obj
  BY <1>1, UntouchedStep DEF Restore
<1>2. CASE obj' # obj
  <2>1. PICK f \in Restored : \E t, place : Restores(obj, obj', {f}, t, place)
    BY <1>2, RestoreResult
  <2>2. ASSUME NEW p, Untouched(p), IsPrefix(f, p) PROVE FALSE
    <3>1. PICK pair \in Pairs(config.excluded, config.preserved) : f = config.preserved[pair[2]]
      BY <2>1 DEF Restored
    <3>2. PICK e : /\ e = config.excluded[pair[1]] /\ pair[1] \in DOMAIN config.excluded
                   /\ pair[2] \in DOMAIN config.preserved /\ IsPrefix(e, f)
      BY <3>1 DEF Pairs, IsSubField, IsStrictPrefix
    <3>3. config \in Configs
      BY DEF TypeInv, FieldsTypeOK
    <3>4. IsKeys(e) /\ IsKeys(f)
      BY <3>1, <3>2, <3>3, ListsShape, FieldsShape
    <3>5. \E j \in DOMAIN Spoken : Spoken[j] = e
      BY <3>2, <3>3, SpokenParts DEF Covers
    <3>6. p \in Seq(STRING) /\ ~ Hit(p, e)
      BY <2>2, <3>5, UntouchedIsNotHit
    <3>7. e \in Seq(STRING) /\ f \in Seq(STRING)
      BY <3>4 DEF IsKeys
    <3>8. IsPrefix(e, p)
      BY <2>2, <3>2, <3>6, <3>7, PrefixesOfOne
    <3> QED
      BY <3>4, <3>6, <3>7, <3>8, KeysReach DEF Hit
  <2>3. ASSUME NEW p, Untouched(p), p \in DOMAIN obj PROVE p \in DOMAIN obj' /\ obj'[p] = obj[p]
    BY <2>1, <2>2, <2>3 DEF Restores
  <2> QED
    BY <2>3, UntouchedStep DEF Restore
<1> QED
  BY <1>1, <1>2

LEMMA UntouchedMask == TypeInv /\ UntouchedInv /\ Mask => UntouchedInv'
<1> SUFFICES ASSUME TypeInv, UntouchedInv, Mask PROVE UntouchedInv'
  OBVIOUS
<1>1. PICK o, field, checksum : /\ o = obj /\ WellFormed(o) /\ obj' = MaskField(o, field, checksum)
                                /\ field = config.masked[done + 1]
  BY DEF Mask, TypeInv, FieldsTypeOK
<1>2. LET r == MaskField(o, field, checksum) IN
      /\ \A q \in DOMAIN o : q \in DOMAIN r <=> ~ \E t \in Transformed(o, field) : IsStrictPrefix(t, q)
      /\ \A q \in DOMAIN r : r[q] = IF q \in Transformed(o, field) THEN DoMask(checksum) ELSE o[q]
  BY <1>1, MaskFieldResult
<1>3. \E j \in DOMAIN Spoken : Spoken[j] = field
  <2>1. config \in Configs /\ done \in Nat /\ done < Len(config.masked)
    BY DEF TypeInv, FieldsTypeOK, Mask
  <2>2. done + 1 \in DOMAIN config.masked
    BY <2>1, ListsShape, LenProperties
  <2> QED
    BY <1>1, <2>1, <2>2, SpokenParts DEF Covers
<1>4. ASSUME NEW p, Untouched(p), p \in DOMAIN obj PROVE p \in DOMAIN obj' /\ obj'[p] = obj[p]
  <2>1. p \in Seq(STRING) /\ ~ Hit(p, field)
    BY <1>3, <1>4, UntouchedIsNotHit
  <2>2. \A t \in Transformed(o, field) : ~ IsPrefix(t, p)
    BY <1>1, <2>1, TargetIsHit, BelowHit
  <2>3. IsPrefix(p, p)
    BY <2>1, StrictPrefix
  <2> QED
    BY <1>1, <1>2, <1>4, <2>2, <2>3 DEF IsStrictPrefix
<1> QED
  BY <1>4, UntouchedStep DEF Mask

\* What encryption of one field does to a node: it is encrypted, or it was printed
\* with what is above it, or it stays.
LEMMA EncryptFieldNodes ==
    ASSUME NEW o, WellFormed(o), NEW field, NEW aesKey
    PROVE  LET r == EncryptField(o, field, aesKey) IN
           /\ DOMAIN r \subseteq DOMAIN o
           /\ \A q \in DOMAIN o : q \in DOMAIN r <=> ~ \E t \in Transformed(o, field) : IsStrictPrefix(t, q)
           /\ \A q \in DOMAIN r : q \notin Transformed(o, field) => r[q] = o[q]
BY DEF EncryptField, TransformNestedField

LEMMA UntouchedEncrypt == TypeInv /\ UntouchedInv /\ Encrypt => UntouchedInv'
<1> SUFFICES ASSUME TypeInv, UntouchedInv, Encrypt PROVE UntouchedInv'
  OBVIOUS
<1>1. PICK o, field, aesKey : /\ o = obj /\ WellFormed(o) /\ obj' = EncryptField(o, field, aesKey)
                              /\ field = config.encrypted[done + 1]
  BY DEF Encrypt, TypeInv, FieldsTypeOK
<1>2. LET r == EncryptField(o, field, aesKey) IN
      /\ \A q \in DOMAIN o : q \in DOMAIN r <=> ~ \E t \in Transformed(o, field) : IsStrictPrefix(t, q)
      /\ \A q \in DOMAIN r : q \notin Transformed(o, field) => r[q] = o[q]
  BY <1>1, EncryptFieldNodes
<1>3. \E j \in DOMAIN Spoken : Spoken[j] = field
  <2>1. config \in Configs /\ done \in Nat /\ done < Len(config.encrypted)
    BY DEF TypeInv, FieldsTypeOK, Encrypt
  <2>2. done + 1 \in DOMAIN config.encrypted
    BY <2>1, ListsShape, LenProperties
  <2> QED
    BY <1>1, <2>1, <2>2, SpokenParts DEF Covers
<1>4. ASSUME NEW p, Untouched(p), p \in DOMAIN obj PROVE p \in DOMAIN obj' /\ obj'[p] = obj[p]
  <2>1. p \in Seq(STRING) /\ ~ Hit(p, field)
    BY <1>3, <1>4, UntouchedIsNotHit
  <2>2. \A t \in Transformed(o, field) : ~ IsPrefix(t, p)
    BY <1>1, <2>1, TargetIsHit, BelowHit
  <2>3. IsPrefix(p, p)
    BY <2>1, StrictPrefix
  <2> QED
    BY <1>1, <1>2, <1>4, <2>2, <2>3 DEF IsStrictPrefix
<1> QED
  BY <1>4, UntouchedStep DEF Encrypt

LEMMA UntouchedSort == TypeInv /\ UntouchedInv /\ Sort => UntouchedInv'
<1> SUFFICES ASSUME TypeInv, UntouchedInv, Sort PROVE UntouchedInv'
  OBVIOUS
<1>1. CASE obj' = obj
  BY <1>1, UntouchedStep DEF Sort
<1>2. CASE obj' # obj
  <2>1. PICK f : /\ IsKeys(f) /\ f = config.sorted[done + 1] /\ done + 1 \in DOMAIN config.sorted
                 /\ Kind(obj, f) = "list"
                 /\ \E m \in Rearrangements(Elements(obj, f)) : obj' = Moved(obj, f, m)
    BY <1>2, SortResult
  <2>2. PICK m \in Rearrangements(Elements(obj, f)) : obj' = Moved(obj, f, m)
    BY <2>1
  <2>3. f \in Seq(STRING) /\ WellFormed(obj) /\ config \in Configs
    BY <2>1 DEF IsKeys, TypeInv, FieldsTypeOK
  <2>4. /\ \A p \in DOMAIN obj : ~ IsStrictPrefix(f, p) => p \in DOMAIN obj'
        /\ \A p \in DOMAIN obj' : ~ IsStrictPrefix(f, p) => obj'[p] = obj[p]
    <3>1. PICK o : o = obj
      OBVIOUS
    <3>2. LET r == Moved(o, f, m) IN
          /\ \A p : p \in DOMAIN r <=>
                /\ p \in Seq(STRING)
                /\ IF IsStrictPrefix(f, p)
                     THEN p[Len(f) + 1] \in Elements(o, f) /\ Move(f, p, m.from) \in DOMAIN o
                     ELSE p \in DOMAIN o
          /\ \A p \in DOMAIN r : r[p] = IF IsStrictPrefix(f, p) THEN o[Move(f, p, m.from)] ELSE o[p]
      BY <2>1, <2>3, <3>1, MovedNodes
    <3>3. DOMAIN o \subseteq Seq(STRING)
      BY <2>3, <3>1 DEF WellFormed
    <3> QED
      BY <2>2, <3>1, <3>2, <3>3
  <2>5. \E j \in DOMAIN Spoken : Spoken[j] = f
    BY <2>1, <2>3, SpokenParts DEF Covers
  <2>6. ASSUME NEW p, Untouched(p), p \in DOMAIN obj PROVE p \in DOMAIN obj' /\ obj'[p] = obj[p]
    <3>1. p \in Seq(STRING) /\ ~ Hit(p, f)
      BY <2>5, <2>6, UntouchedIsNotHit
    <3>2. ~ IsPrefix(f, p)
      BY <2>1, <2>3, <3>1, KeysReach DEF Hit
    <3> QED
      BY <2>4, <2>6, <3>2 DEF IsStrictPrefix
  <2> QED
    BY <2>6, UntouchedStep DEF Sort
<1> QED
  BY <1>1, <1>2

LEMMA UntouchedDecrypt == TypeInv /\ UntouchedInv /\ Decrypt => UntouchedInv'
<1> SUFFICES ASSUME TypeInv, UntouchedInv, Decrypt PROVE UntouchedInv'
  OBVIOUS
<1>1. obj' = obj \/ obj' = DecryptFields(obj)
  BY DEF Decrypt
<1>2. Plain(source)
  BY FieldsAssumption DEF TypeInv, FieldsTypeOK, Plain
<1>3. ASSUME NEW p, Untouched(p), p \in DOMAIN obj PROVE p \in DOMAIN obj' /\ obj'[p] = obj[p]
  <2>1. obj[p].key = "none"
    BY <1>2, <1>3 DEF Untouched, UntouchedInv, Plain
  <2>2. p \notin Decryptable(obj)
    BY <2>1 DEF Decryptable
  <2> QED
    BY <1>1, <1>3, <2>2 DEF DecryptFields
<1> QED
  BY <1>3, UntouchedStep DEF Decrypt

LEMMA UntouchedInit == Init => UntouchedInv
BY DEF Init, UntouchedInv

LEMMA UntouchedInvIsInductive == TypeInv /\ UntouchedInv /\ [Next]_vars => UntouchedInv'
<1> SUFFICES ASSUME TypeInv, UntouchedInv, [Next]_vars PROVE UntouchedInv'
  OBVIOUS
<1>1. CASE obj' = obj /\ source' = source /\ config' = config
  BY <1>1, UntouchedStep
<1>2. CASE UNCHANGED vars \/ Collect \/ NextKey \/ Proceed
  <2>1. obj' = obj /\ source' = source /\ config' = config
    BY <1>2 DEF vars, Collect, NextKey, Proceed
  <2> QED
    BY <1>1, <2>1
<1> QED
  BY <1>2, UntouchedExclude, UntouchedRestore, UntouchedMask, UntouchedEncrypt, UntouchedSort, UntouchedDecrypt
     DEF Next

\* Each operation changes what its fields stand for and nothing else: what no field
\* stands for is exported as it is in the cluster.
THEOREM OthersAreUntouched == Spec => []OthersUntouched
<1>1. UntouchedInv => OthersUntouched
  BY DEF UntouchedInv, OthersUntouched, Spoken
<1> QED
  BY TypeInit, TypeInvIsInductive, UntouchedInit, UntouchedInvIsInductive, <1>1, PTL DEF Spec

-----------------------------------------------------------------------------
(* Decryption *)

\* A string outside of lists that encryption does not print with what is above it.
PrintedIn(p) == \E i \in DOMAIN config.encrypted :
                    \E t \in Transformed(plain, config.encrypted[i]) : IsStrictPrefix(t, p)
Reversible(p) ==
    /\ p \in DOMAIN plain /\ plain[p].kind = "string"
    /\ ~ \E i \in DOMAIN p : p[i] \in Positions
    /\ ~ PrintedIn(p)

\* The inductive invariant of encryption: what is gone was printed, and what is there
\* shows the same text or hides it under one key; sorting moves none of it.
EncryptionInv ==
    /\ pc = "encrypt" => /\ EncryptsTo(plain, obj, config.aesKey)
                         /\ \A p \in DOMAIN plain : p \notin DOMAIN obj => PrintedIn(p)
    /\ pc \in {"sort", "written"} => \A p \in DOMAIN plain : Reversible(p) =>
          p \in DOMAIN obj /\ obj[p].kind = "string" /\ obj[p].text = plain[p].text

LEMMA EncryptionInit == Init => EncryptionInv
BY DEF Init, EncryptionInv

LEMMA EncryptionEncrypt == TypeInv /\ EncryptionInv /\ Encrypt => EncryptionInv'
<1> SUFFICES ASSUME TypeInv, EncryptionInv, Encrypt PROVE EncryptionInv'
  OBVIOUS
<1>1. PICK o, field, aesKey : /\ o = obj /\ WellFormed(o) /\ obj' = EncryptField(o, field, aesKey)
                              /\ field = config.encrypted[done + 1] /\ aesKey = config.aesKey
  BY DEF Encrypt, TypeInv, FieldsTypeOK
<1>2. PICK pl : pl = plain /\ WellFormed(pl) /\ EncryptsTo(pl, o, aesKey)
  BY <1>1 DEF EncryptionInv, Encrypt, TypeInv, FieldsTypeOK
<1>3. EncryptsTo(o, EncryptField(o, field, aesKey), aesKey)
  BY <1>1, EncryptFieldIsStep
<1>4. EncryptsTo(pl, EncryptField(o, field, aesKey), aesKey)
  BY <1>2, <1>3, EncryptsToRelation
<1>5. field \in {config.encrypted[i] : i \in DOMAIN config.encrypted}
  <2>1. config \in Configs /\ done \in Nat /\ done < Len(config.encrypted)
    BY DEF TypeInv, FieldsTypeOK, Encrypt
  <2>2. done + 1 \in DOMAIN config.encrypted
    BY <2>1, ListsShape, LenProperties
  <2> QED
    BY <1>1, <2>2
<1>6. /\ DOMAIN obj' \subseteq DOMAIN o
      /\ \A q \in DOMAIN o : q \in DOMAIN obj' <=> ~ \E t \in Transformed(o, field) : IsStrictPrefix(t, q)
  BY <1>1, EncryptFieldNodes
<1>7. ASSUME NEW p \in DOMAIN plain, p \notin DOMAIN obj' PROVE PrintedIn(p)
  <2>1. CASE p \notin DOMAIN o
    BY <1>1, <2>1 DEF EncryptionInv, Encrypt
  <2>2. CASE p \in DOMAIN o
    <3>1. PICK t \in Transformed(o, field) : IsStrictPrefix(t, p)
      BY <1>6, <1>7, <2>2
    <3>2. t \in Seq(STRING)
      BY <1>1, TargetIsHit
    <3>3. ~ IsScalar(o[t])
      BY <1>1, <2>2, <3>1, <3>2, AboveIsNoScalar
    <3>4. t \in Transformed(pl, field)
      BY <1>2, <3>3, TargetsOfEncrypted
    <3> QED
      BY <1>2, <1>5, <3>1, <3>4 DEF PrintedIn
  <2> QED
    BY <2>1, <2>2
<1>8. plain' = plain /\ config' = config /\ pc' = "encrypt"
  BY DEF Encrypt
<1>9. \A p : PrintedIn(p)' <=> PrintedIn(p)
  BY <1>8 DEF PrintedIn
<1>10. EncryptsTo(plain', obj', config'.aesKey)
  BY <1>1, <1>2, <1>4, <1>8
<1> QED
  BY <1>7, <1>8, <1>9, <1>10 DEF EncryptionInv

LEMMA EncryptionProceed == TypeInv /\ EncryptionInv /\ Proceed => EncryptionInv'
<1> SUFFICES ASSUME TypeInv, EncryptionInv, Proceed PROVE EncryptionInv'
  OBVIOUS
<1>1. plain' = plain /\ config' = config /\ obj' = obj
  BY DEF Proceed
<1>2. \A p : PrintedIn(p)' <=> PrintedIn(p)
  BY <1>1 DEF PrintedIn
<1>3. \A p : Reversible(p)' <=> Reversible(p)
  BY <1>1, <1>2 DEF Reversible
<1>4. CASE pc = "mask"
  <2>1. pc' = "encrypt" /\ plain = obj /\ WellFormed(obj)
    BY <1>4 DEF Proceed, TypeInv, FieldsTypeOK
  <2>2. EncryptsTo(obj, obj, config.aesKey)
    BY <2>1, EncryptsToRelation
  <2> QED
    BY <1>1, <2>1, <2>2 DEF EncryptionInv
<1>5. CASE pc = "encrypt"
  <2>1. pc' = "sort"
    BY <1>5 DEF Proceed
  <2>2. ASSUME NEW p \in DOMAIN plain, Reversible(p)
        PROVE  p \in DOMAIN obj /\ obj[p].kind = "string" /\ obj[p].text = plain[p].text
    <3>1. p \in DOMAIN obj
      BY <1>5, <2>2 DEF EncryptionInv, Reversible
    <3>2. IsScalar(plain[p])
      BY <2>2 DEF Reversible, IsScalar
    <3> QED
      BY <1>5, <2>2, <3>1, <3>2 DEF EncryptionInv, EncryptsTo, Reversible
  <2> QED
    BY <1>1, <1>3, <2>1, <2>2 DEF EncryptionInv
<1>6. CASE pc = "sort"
  <2>1. pc' = "written"
    BY <1>6 DEF Proceed
  <2> QED
    BY <1>1, <1>3, <1>6, <2>1 DEF EncryptionInv
<1>7. CASE pc \notin {"mask", "encrypt", "sort"}
  <2>1. pc' \in {"restore", "mask"}
    BY <1>7 DEF Proceed
  <2> QED
    BY <2>1 DEF EncryptionInv
<1> QED
  BY <1>4, <1>5, <1>6, <1>7

\* A path of keys is not below a list.
LEMMA KeysAreOutside ==
    ASSUME NEW o, WellFormed(o), NEW f \in Seq(STRING), Kind(o, f) = "list",
           NEW p \in DOMAIN o, ~ \E i \in DOMAIN p : p[i] \in Positions
    PROVE  ~ IsStrictPrefix(f, p)
<1> SUFFICES ASSUME IsStrictPrefix(f, p) PROVE FALSE
  OBVIOUS
<1>1. p \in Seq(STRING)
  BY DEF WellFormed
<1>2. p[Len(f) + 1] \in Positions
  BY ElementAbove DEF Elements
<1>3. Len(f) + 1 \in DOMAIN p
  <2>1. Len(f) \in Nat /\ Len(p) \in Nat /\ IsPrefix(f, p) /\ f # p /\ DOMAIN p = 1 .. Len(p)
    BY <1>1, LenProperties DEF IsStrictPrefix
  <2>2. Len(f) <= Len(p) /\ \A i \in 1 .. Len(f) : f[i] = p[i]
    BY <1>1, <2>1, PrefixSteps
  <2>3. Len(f) # Len(p)
    BY <1>1, <2>1, <2>2, SeqEqual
  <2> QED
    BY <2>1, <2>2, <2>3
<1> QED
  BY <1>2, <1>3

LEMMA EncryptionSort == TypeInv /\ EncryptionInv /\ Sort => EncryptionInv'
<1> SUFFICES ASSUME TypeInv, EncryptionInv, Sort PROVE EncryptionInv'
  OBVIOUS
<1>1. plain' = plain /\ config' = config /\ pc = "sort" /\ pc' \in {"sort", "panicked"}
  BY DEF Sort
<1>2. \A p : PrintedIn(p)' <=> PrintedIn(p)
  BY <1>1 DEF PrintedIn
<1>3. \A p : Reversible(p)' <=> Reversible(p)
  BY <1>1, <1>2 DEF Reversible
<1>4. ASSUME NEW p \in DOMAIN obj, ~ \E i \in DOMAIN p : p[i] \in Positions
      PROVE  p \in DOMAIN obj' /\ obj'[p] = obj[p]
  <2>1. CASE obj' = obj
    BY <2>1
  <2>2. CASE obj' # obj
    <3>1. PICK f : /\ IsKeys(f) /\ Kind(obj, f) = "list"
                   /\ \E m \in Rearrangements(Elements(obj, f)) : obj' = Moved(obj, f, m)
      BY <2>2, SortResult
    <3>2. PICK m \in Rearrangements(Elements(obj, f)) : obj' = Moved(obj, f, m)
      BY <3>1
    <3>3. PICK o : o = obj /\ WellFormed(o) /\ f \in Seq(STRING)
      BY <3>1 DEF IsKeys, TypeInv, FieldsTypeOK
    <3>4. ~ IsStrictPrefix(f, p)
      BY <1>4, <3>1, <3>3, KeysAreOutside
    <3>5. LET r == Moved(o, f, m) IN
          /\ \A q : q \in DOMAIN r <=>
                /\ q \in Seq(STRING)
                /\ IF IsStrictPrefix(f, q)
                     THEN q[Len(f) + 1] \in Elements(o, f) /\ Move(f, q, m.from) \in DOMAIN o
                     ELSE q \in DOMAIN o
          /\ \A q \in DOMAIN r : r[q] = IF IsStrictPrefix(f, q) THEN o[Move(f, q, m.from)] ELSE o[q]
      BY <3>1, <3>3, MovedNodes
    <3>6. p \in Seq(STRING)
      BY <3>3 DEF WellFormed
    <3> QED
      BY <3>2, <3>3, <3>4, <3>5, <3>6
  <2> QED
    BY <2>1, <2>2
<1>5. ASSUME NEW p \in DOMAIN plain, Reversible(p)
      PROVE  p \in DOMAIN obj' /\ obj'[p].kind = "string" /\ obj'[p].text = plain[p].text
  BY <1>1, <1>4, <1>5 DEF EncryptionInv, Reversible
<1> QED
  BY <1>1, <1>3, <1>5 DEF EncryptionInv

LEMMA EncryptionInvIsInductive == TypeInv /\ EncryptionInv /\ [Next]_vars => EncryptionInv'
<1> SUFFICES ASSUME TypeInv, EncryptionInv, [Next]_vars PROVE EncryptionInv'
  OBVIOUS
<1>1. CASE UNCHANGED vars
  BY <1>1 DEF vars, EncryptionInv, PrintedIn, Reversible
<1>2. CASE Collect \/ Exclude \/ Restore \/ NextKey \/ Mask \/ Decrypt
  <2>1. pc' \in {"remove", "restore", "mask", "refused", "decrypted"}
    BY <1>2 DEF Collect, Exclude, Restore, NextKey, Mask, Decrypt
  <2> QED
    BY <2>1 DEF EncryptionInv
<1> QED
  BY <1>1, <1>2, EncryptionEncrypt, EncryptionProceed, EncryptionSort DEF Next

\* What decryption leaves of what encryption found.
DecryptedInv == pc = "decrypted" => \A p \in DOMAIN plain : Reversible(p) => obj[p] = plain[p]

LEMMA DecryptedStep == TypeInv /\ EncryptionInv /\ DecryptedInv /\ [Next]_vars => DecryptedInv'
<1> SUFFICES ASSUME TypeInv, EncryptionInv, DecryptedInv, [Next]_vars, pc' = "decrypted",
                    NEW p \in DOMAIN plain', Reversible(p)'
             PROVE  obj'[p] = plain'[p]
  BY DEF DecryptedInv
<1>1. plain' = plain /\ config' = config
  BY DEF Next, vars, Collect, Exclude, Restore, NextKey, Mask, Encrypt, Sort, Proceed, Decrypt, TypeInv, FieldsTypeOK
<1>2. Reversible(p) /\ p \in DOMAIN plain
  BY <1>1 DEF Reversible, PrintedIn
<1>3. CASE UNCHANGED vars
  BY <1>2, <1>3 DEF vars, DecryptedInv
<1>4. CASE Decrypt
  <2>1. pc = "written" /\ obj' = DecryptFields(obj)
    BY <1>4 DEF Decrypt
  <2>2. p \in DOMAIN obj /\ obj[p].kind = "string" /\ obj[p].text = plain[p].text
    BY <1>2, <2>1 DEF EncryptionInv
  <2>3. plain[p] = [kind |-> "string", text |-> plain[p].text, key |-> "none"]
    BY <1>2 DEF Reversible, TypeInv, FieldsTypeOK, WellFormed, Plain
  <2>4. obj[p] = [kind |-> obj[p].kind, text |-> obj[p].text, key |-> obj[p].key]
    BY <2>2 DEF TypeInv, FieldsTypeOK, WellFormed
  <2>5. p \in Decryptable(obj) <=> obj[p].key # "none"
    <3>1. p \in Seq(STRING)
      BY <2>2 DEF TypeInv, FieldsTypeOK, WellFormed
    <3>2. DOMAIN p = 1 .. Len(p)
      BY <3>1, LenProperties
    <3> QED
      BY <1>2, <2>2, <3>2 DEF Reversible, Decryptable
  <2>6. obj'[p] = IF p \in Decryptable(obj) THEN Text(obj[p].text) ELSE obj[p]
    BY <2>1, <2>2 DEF DecryptFields
  <2>7. Text(obj[p].text) = [kind |-> "string", text |-> obj[p].text, key |-> "none"]
    BY DEF Text, Scalar
  <2> QED
    BY <1>1, <2>2, <2>3, <2>4, <2>5, <2>6, <2>7
<1> QED
  BY <1>3, <1>4 DEF Next, Collect, Exclude, Restore, NextKey, Mask, Encrypt, Sort, Proceed

\* Decryption brings back what encryption found: no text is lost on the way, whichever
\* lists are sorted in between.
THEOREM DecryptionInverts == Spec => []DecryptInverts
<1>1. Init => DecryptedInv
  BY DEF Init, DecryptedInv
<1>2. TypeInv /\ DecryptedInv => DecryptInverts
  BY DEF DecryptedInv, DecryptInverts, Reversible, PrintedIn
<1> QED
  BY TypeInit, TypeInvIsInductive, EncryptionInit, EncryptionInvIsInductive, DecryptedStep, <1>1, <1>2, PTL
     DEF Spec

-----------------------------------------------------------------------------
(* Preserved fields *)

\* What is above a map at a path of keys are maps.
LEMMA MapsAbove ==
    ASSUME NEW o, WellFormed(o), NEW a \in DOMAIN o, o[a].kind = "map",
           \A i \in 1 .. Len(a) : a[i] \notin Positions,
           NEW x \in Seq(STRING), IsPrefix(x, a)
    PROVE  x \in DOMAIN o /\ o[x].kind = "map"
<1>1. a \in Seq(STRING)
  BY DEF WellFormed
<1>2. CASE x = a
  BY <1>2
<1>3. CASE x # a
  <2>1. x \in DOMAIN o /\ ~ IsScalar(o[x])
    BY <1>3, PrefixIsThere
  <2>2. IsStrictPrefix(x, a)
    BY <1>3 DEF IsStrictPrefix
  <2>3. o[x].kind # "list"
    <3>1. SUFFICES ASSUME Kind(o, x) = "list" PROVE FALSE
      BY <2>1 DEF Kind
    <3>2. \A i \in DOMAIN a : a[i] \notin Positions
      BY <1>1, LenProperties
    <3> QED
      BY <2>2, <3>1, <3>2, KeysAreOutside
  <2> QED
    BY <2>1, <2>3 DEF IsScalar
<1> QED
  BY <1>2, <1>3

\* A walk through maps goes to its end.
LEMMA WalkToTheEnd ==
    ASSUME NEW o, NEW start \in Seq(STRING), NEW keys \in Seq(STRING),
           \A j \in 1 .. Len(keys) : Kind(o, start \o SubSeq(keys, 1, j)) = "map"
    PROVE  Walk(o, start, keys) = start \o keys
<1> DEFINE along(i) == start \o SubSeq(keys, 1, i)
           far == {i \in 0 .. Len(keys) : \A j \in 1 .. i : Kind(o, along(j)) = "map"}
           last == CHOOSE i \in far : \A j \in far : j <= i
<1>1. Len(keys) \in Nat /\ SubSeq(keys, 1, Len(keys)) = keys
  BY LenProperties, SubSeqFull
<1>2. far = 0 .. Len(keys)
  BY <1>1
<1>3. last = Len(keys)
  <2>1. Len(keys) \in far /\ \A j \in far : j <= Len(keys)
    BY <1>1, <1>2
  <2> HIDE DEF far
  <2>2. \A i \in far : (\A j \in far : j <= i) => i = Len(keys)
    <3>1. ASSUME NEW i \in far, \A j \in far : j <= i PROVE i = Len(keys)
      <4>1. Len(keys) <= i /\ i \in 0 .. Len(keys)
        BY <1>2, <2>1, <3>1
      <4>2. PICK n \in Nat : n = Len(keys)
        BY <1>1
      <4> QED
        BY <4>1, <4>2
    <3> QED
      BY <3>1
  <2> QED
    BY <2>1, <2>2
<1>4. Walk(o, start, keys) = along(last)
  BY DEF Walk
<1> HIDE DEF last
<1> QED
  BY <1>1, <1>3, <1>4

\* A preserved field that is in a map is looked up where it is.
LEMMA SourceIsField ==
    ASSUME NEW o, WellFormed(o), NEW e, IsKeys(e), NEW f, IsKeys(f), IsSubField(e, f),
           Kind(o, Front(f)) = "map"
    PROVE  Source(o, e, f) = f
<1>1. e \in Seq(STRING) /\ f \in Seq(STRING) /\ f # <<>> /\ IsStrictPrefix(e, f) /\ IsPrefix(e, f)
  BY DEF IsKeys, IsSubField, IsStrictPrefix
<1>2. PICK a \in Seq(STRING) : /\ a = Front(f) /\ a \in DOMAIN o /\ o[a].kind = "map"
                               /\ Len(a) = Len(f) - 1 /\ \A i \in 1 .. Len(f) - 1 : a[i] = f[i]
  BY <1>1, FrontShape DEF Kind
<1>3. \A i \in 1 .. Len(a) : a[i] \notin Positions
  BY <1>1, <1>2, LenProperties DEF IsKeys
<1>4. \A x \in Seq(STRING) : IsPrefix(x, a) => Kind(o, x) = "map"
  BY <1>2, <1>3, MapsAbove DEF Kind
<1>5. PICK b \in Seq(STRING) : b = Below(e, f) /\ e \o b = f
  BY <1>1, BelowShape
<1>6. b # <<>>
  <2>1. e # f
    BY <1>1 DEF IsStrictPrefix
  <2> QED
    BY <1>1, <1>5, <2>1, Appended
<1>7. PICK c \in Seq(STRING) : c = Front(b)
  BY <1>6, FrontShape
<1>8. e \o c = a
  <2>1. Front(e \o b) = e \o Front(b)
    BY <1>1, <1>6, Appended
  <2> QED
    BY <1>2, <1>5, <1>7, <2>1
<1>9. ASSUME NEW s \in Seq(STRING), NEW k \in Seq(STRING), IsPrefix(s \o k, a)
      PROVE  Walk(o, s, k) = s \o k
  <2>1. \A x, y \in Seq(STRING) : (s \o x) \o y = s \o (x \o y)
    BY AppendedTwice
  <2>2. ASSUME NEW j \in 1 .. Len(k) PROVE Kind(o, s \o SubSeq(k, 1, j)) = "map"
    <3>1. PICK n \in 0 .. Len(k) : n = j
      BY LenProperties
    <3>2. SubSeq(k, 1, n) \in Seq(STRING) /\ IsPrefix(SubSeq(k, 1, n), k)
      <4>1. PICK m \in Int : m = n
        OBVIOUS
      <4>2. \A i \in 1 .. m : k[i] \in STRING
        BY <4>1, ElementOfSeq, LenProperties
      <4>3. /\ SubSeq(k, 1, m) \in Seq(STRING) /\ Len(SubSeq(k, 1, m)) = IF 1 <= m THEN m - 1 + 1 ELSE 0
            /\ \A i \in 1 .. m - 1 + 1 : SubSeq(k, 1, m)[i] = k[1 + i - 1]
        BY <4>2, SubSeqProperties, SMTT(30)
      <4>4. PICK x \in Seq(STRING) : x = SubSeq(k, 1, m)
        BY <4>3
      <4>5. Len(x) = m
        BY <3>1, <4>1, <4>3, <4>4
      <4>6. \A i \in 1 .. m : x[i] = k[i]
        BY <3>1, <4>1, <4>3, <4>4
      <4>7. x = SubSeq(k, 1, m) /\ Len(x) = m /\ \A i \in 1 .. m : x[i] = k[i]
        BY <4>4, <4>5, <4>6
      <4>8. Len(x) <= Len(k) /\ \A i \in 1 .. Len(x) : x[i] = k[i]
        BY <3>1, <4>1, <4>7
      <4>9. IsPrefix(x, k)
        BY <4>8, PrefixSteps
      <4> QED
        BY <4>1, <4>7, <4>9
    <3>3. PICK x \in Seq(STRING) : x = SubSeq(k, 1, j) /\ IsPrefix(x, k)
      BY <3>1, <3>2
    <3>4. s \o x \in Seq(STRING) /\ s \o k \in Seq(STRING)
      BY Appended
    <3>5. IsPrefix(s \o x, s \o k)
      <4>1. PICK y \in Seq(STRING) : y = Below(x, k) /\ x \o y = k
        BY <3>3, BelowShape
      <4>2. (s \o x) \o y = s \o (x \o y)
        BY <2>1, <3>3, <4>1
      <4>3. IsPrefix(s \o x, (s \o x) \o y)
        BY <3>4, Appended
      <4> QED
        BY <4>1, <4>2, <4>3
    <3>6. IsPrefix(s \o x, a)
      BY <1>9, <3>4, <3>5, PrefixesOfOne, ZenonT(60)
    <3> QED
      BY <1>4, <3>3, <3>4, <3>6
  <2> QED
    BY <2>2, WalkToTheEnd
<1>10. Walk(o, <<>>, e) = e
  <2>1. PICK z \in Seq(STRING) : z = <<>> /\ z \o e = e
    <3>1. <<>> \in Seq(STRING) /\ <<>> \o e = e
      BY <1>1, EmptySeq, ConcatEmptySeq
    <3> QED
      BY <3>1
  <2>2. IsPrefix(e, a)
    BY <1>1, <1>2, StrictPrefix
  <2> QED
    BY <1>1, <1>9, <2>1, <2>2
<1>11. Walk(o, e, c) = a
  <2>1. IsPrefix(a, a)
    BY StrictPrefix
  <2> QED
    BY <1>1, <1>8, <1>9, <2>1
<1>12. Source(o, e, f) = Append(a, Last(f))
  BY <1>5, <1>7, <1>10, <1>11 DEF Source
<1>13. Append(a, Last(f)) = f
  <2>1. Last(f) \in STRING /\ f = Front(f) \o <<Last(f)>>
    BY <1>1, FrontAndLast, FrontShape
  <2> QED
    BY <1>2, <2>1, StepBelow
<1> QED
  BY <1>12, <1>13

\* A field stands for a path that begins with keys only if it begins with them too.
LEMMA ReachesKeys ==
    ASSUME NEW r \in Seq(STRING), NEW field \in Seq(STRING), Reaches(r, field),
           NEW h, IsKeys(h), IsPrefix(h, r)
    PROVE  IsPrefix(h, field) /\ (h = r => h = field)
<1> DEFINE keys == {i \in DOMAIN r : r[i] \notin Positions}
<1>1. /\ h \in Seq(STRING) /\ Len(h) \in Nat /\ Len(r) \in Nat /\ Len(field) \in Nat
      /\ DOMAIN r = 1 .. Len(r) /\ \A i \in 1 .. Len(h) : h[i] \notin Positions
  BY LenProperties DEF IsKeys
<1>2. Len(h) <= Len(r) /\ \A i \in 1 .. Len(h) : h[i] = r[i]
  BY <1>1, PrefixSteps
<1>3. /\ Cardinality(keys) = Len(field)
      /\ \A i \in keys : r[i] = field[Cardinality(keys \cap (1 .. i))]
  BY DEF Reaches
<1>4. 1 .. Len(h) \subseteq keys
  BY <1>1, <1>2
<1>5. \A i \in 0 .. Len(h) : Cardinality(1 .. i) = i
  <2>1. ASSUME NEW i \in 0 .. Len(h) PROVE Cardinality(1 .. i) = i
    <3>1. Cardinality(1 .. i) = IF 1 > i THEN 0 ELSE i - 1 + 1
      BY FS_Interval
    <3> QED
      BY <3>1
  <2> QED
    BY <2>1
<1>6. ASSUME NEW i \in 1 .. Len(h) PROVE h[i] = field[i]
  <2>1. PICK s : s = 1 .. i
    OBVIOUS
  <2>2. keys \cap s = s /\ i \in keys
    BY <1>1, <1>4, <2>1
  <2>3. Cardinality(s) = i
    BY <1>1, <1>5, <2>1
  <2>4. r[i] = field[Cardinality(keys \cap s)]
    BY <1>3, <2>1, <2>2
  <2> QED
    BY <1>2, <2>2, <2>3, <2>4
<1>7. Len(h) <= Len(field)
  <2>1. IsFiniteSet(1 .. Len(r))
    BY <1>1, FS_Interval
  <2>2. IsFiniteSet(keys)
    BY <1>1, <2>1, FS_Subset
  <2>3. Cardinality(1 .. Len(h)) <= Cardinality(keys)
    BY <1>4, <2>2, FS_Subset
  <2> QED
    BY <1>1, <1>3, <1>5, <2>3
<1>8. IsPrefix(h, field)
  BY <1>1, <1>6, <1>7, PrefixSteps
<1>9. ASSUME h = r PROVE h = field
  <2>1. keys = 1 .. Len(h)
    BY <1>1, <1>4, <1>9
  <2>2. Len(h) \in 0 .. Len(h)
    BY <1>1
  <2> HIDE DEF keys
  <2>3. Len(field) = Len(h)
    BY <1>3, <1>5, <2>1, <2>2
  <2> QED
    BY <1>1, <1>6, <2>3, SeqEqual
<1> QED
  BY <1>8, <1>9

\* o is what some removals leave of s: lists are removed as a whole.
Cut(s, o) ==
    /\ WellFormed(o)
    /\ \A p \in DOMAIN o : p \in DOMAIN s /\ o[p] = s[p]
    /\ \A p \in DOMAIN s \ {<<>>} : Last(p) \in Positions /\ Front(p) \in DOMAIN o => p \in DOMAIN o

\* o has everything that s has below the fields clean that are below f, or f itself.
Keeps(s, clean, o, f) == \A h \in clean : IsPrefix(f, h) => Under(s, h) \subseteq DOMAIN o

\* A value of f that some removals have left.
Holds(s, clean, v, f) ==
    /\ v.place = f
    /\ \E t : /\ f \in DOMAIN t /\ Cut(s, t) /\ Keeps(s, clean, t, f)
              /\ v.value = Subtree(t, f)

\* The preserved fields that no removal is at or below.
CleanFields == {h \in Restored : ~ \E i \in DOMAIN Removals : IsPrefix(h, Removals[i])}

AllPairs == Pairs(config.excluded, config.preserved)
FieldOf(c, x) == c.preserved[x[2]]
KeyOf(c, x) == PreservedKey(c.excluded[x[1]], c.preserved[x[2]])

\* The inductive invariant of preserving: the object and the values are parts of what
\* was in the cluster, the clean fields in them are complete, a value is shared as long
\* as it is in the object, and a field that is still to be restored has its value.
PreservedInv ==
    /\ pc = "collect" => obj = source
    /\ pc \in {"remove", "restore"} => Cut(source, obj)
    /\ pc = "remove" => \A f \in Restored : f \in DOMAIN obj => Keeps(source, CleanFields, obj, f)
    /\ pc \in {"remove", "restore"} => \A key \in DOMAIN values : \E x \in AllPairs :
          key = KeyOf(config, x) /\ Holds(source, CleanFields, values[key], FieldOf(config, x))
    /\ pc = "remove" => \A x \in AllPairs :
          FieldOf(config, x) \in DOMAIN source => KeyOf(config, x) \in DOMAIN values
    /\ pc = "remove" => \A key \in DOMAIN values : values[key].held = "shared" => values[key].place \in DOMAIN obj
    /\ pc = "restore" => \A key \in DOMAIN values : values[key].held = "alone"
    /\ pc = "restore" => \A x \in AllPairs :
          FieldOf(config, x) \in CleanFields \cap DOMAIN source =>
              \/ KeyOf(config, x) \in DOMAIN values /\ ~ (KeyOf(config, x) = current /\ x[1] <= done)
              \/ Under(source, FieldOf(config, x)) \subseteq DOMAIN obj
    /\ pc = "mask" /\ done = 0 => /\ Cut(source, obj)
                                  /\ \A f \in CleanFields : Under(source, f) \subseteq DOMAIN obj

LEMMA PairsShape ==
    ASSUME TypeInv, NEW x \in AllPairs
    PROVE  /\ x[1] \in DOMAIN config.excluded /\ x[2] \in DOMAIN config.preserved /\ x = <<x[1], x[2]>>
           /\ IsKeys(config.excluded[x[1]]) /\ IsKeys(FieldOf(config, x))
           /\ IsSubField(config.excluded[x[1]], FieldOf(config, x))
           /\ FieldOf(config, x) \in Restored
<1>1. /\ x[1] \in DOMAIN config.excluded /\ x[2] \in DOMAIN config.preserved /\ x = <<x[1], x[2]>>
      /\ IsSubField(config.excluded[x[1]], config.preserved[x[2]])
  BY DEF AllPairs, Pairs
<1>2. config \in Configs
  BY DEF TypeInv, FieldsTypeOK
<1>3. IsKeys(config.excluded[x[1]]) /\ IsKeys(config.preserved[x[2]])
  BY <1>1, <1>2, ListsShape, FieldsShape
<1> QED
  BY <1>1, <1>3 DEF FieldOf, Restored, AllPairs

LEMMA RestoredShape ==
    ASSUME TypeInv, NEW f \in Restored
    PROVE  IsKeys(f) /\ f \in Seq(STRING) /\ \E x \in AllPairs : f = FieldOf(config, x)
<1>1. PICK x \in AllPairs : f = FieldOf(config, x)
  BY DEF Restored, AllPairs, FieldOf
<1>2. IsKeys(f)
  BY <1>1, PairsShape
<1> QED
  BY <1>1, <1>2 DEF IsKeys

\* Above a preserved field there are maps only, in the cluster and in what is left.
LEMMA ApartIsUnblocked ==
    ASSUME TypeInv, Apart, NEW f \in Restored, NEW o, Cut(source, o)
    PROVE  Unblocked(o, f) /\ WellFormed(source) /\ Kind(source, Front(f)) = "map"
<1>1. WellFormed(source) /\ Kind(source, Front(f)) = "map"
  BY FieldsAssumption DEF TypeInv, FieldsTypeOK, Apart
<1>2. IsKeys(f) /\ f \in Seq(STRING) /\ f # <<>>
  BY RestoredShape DEF IsKeys
<1>3. PICK a \in Seq(STRING) : /\ a = Front(f) /\ a \in DOMAIN source /\ source[a].kind = "map"
                               /\ Len(a) = Len(f) - 1 /\ \A i \in 1 .. Len(f) - 1 : a[i] = f[i]
  BY <1>1, <1>2, FrontShape DEF Kind
<1>4. \A i \in 1 .. Len(a) : a[i] \notin Positions
  BY <1>2, <1>3, LenProperties DEF IsKeys
<1>5. ASSUME NEW x \in DOMAIN o, IsStrictPrefix(x, f) PROVE o[x].kind = "map"
  <2>1. x \in DOMAIN source /\ o[x] = source[x] /\ x \in Seq(STRING)
    BY <1>1 DEF Cut, WellFormed
  <2>2. IsPrefix(x, a)
    BY <1>2, <1>3, <1>5, <2>1, StrictPrefix
  <2>3. source[x].kind = "map"
    BY <1>1, <1>3, <1>4, <2>1, <2>2, MapsAbove
  <2> QED
    BY <2>1, <2>3
<1> QED
  BY <1>1, <1>5 DEF Unblocked

\* A removal takes nothing from a clean field that it leaves another preserved field above.
LEMMA RemovalOfClean ==
    ASSUME TypeInv, Apart, Cut(source, obj), NEW i \in DOMAIN Removals,
           NEW f \in Restored, NEW h \in CleanFields, IsPrefix(f, h),
           NEW q \in Under(source, h),
           NEW r \in ReachedBy(obj, Removals[i]), IsPrefix(r, q)
    PROVE  IsPrefix(r, f)
<1>1. PICK field : field = Removals[i] /\ IsKeys(field) /\ field \in Seq(STRING)
  <2>1. Removals \in Seq(Fieldset)
    BY ListsShape DEF TypeInv, FieldsTypeOK
  <2>2. IsKeys(Removals[i])
    BY <2>1, FieldsShape
  <2> QED
    BY <2>2 DEF IsKeys
<1>2. /\ r \in Seq(STRING) /\ Reaches(r, field) /\ q \in Seq(STRING) /\ IsPrefix(h, q)
  <2>1. WellFormed(source) /\ WellFormed(obj)
    BY FieldsAssumption DEF TypeInv, FieldsTypeOK
  <2> QED
    BY <1>1, <2>1 DEF ReachedBy, WellFormed, Under
<1>3. IsKeys(f) /\ f \in Seq(STRING) /\ IsKeys(h) /\ h \in Seq(STRING) /\ h \in Restored
  BY RestoredShape DEF CleanFields
<1>4. ~ IsPrefix(h, field)
  BY <1>1 DEF CleanFields
<1>5. IsPrefix(r, h) \/ IsPrefix(h, r)
  BY <1>2, <1>3, PrefixesOfOne
<1>6. ~ IsPrefix(h, r)
  BY <1>1, <1>2, <1>3, <1>4, ReachesKeys
<1>7. IsPrefix(r, h) /\ r # h
  <2>1. IsPrefix(h, h)
    BY <1>3, StrictPrefix
  <2> QED
    BY <1>5, <1>6, <2>1
<1>8. IsKeys(r)
  <2>1. Len(r) \in Nat /\ Len(h) \in Nat /\ Len(r) <= Len(h) /\ \A j \in 1 .. Len(r) : r[j] = h[j]
    BY <1>2, <1>3, <1>7, LenProperties, PrefixSteps
  <2>2. \A j \in 1 .. Len(r) : r[j] \notin Positions
    BY <1>3, <2>1 DEF IsKeys
  <2> QED
    BY <1>2, <2>2 DEF IsKeys, Reaches
<1>9. r = field
  <2>1. IsPrefix(r, r)
    BY <1>2, StrictPrefix
  <2> QED
    BY <1>1, <1>2, <1>8, <2>1, ReachesKeys
<1>10. ASSUME ~ IsPrefix(r, f) PROVE FALSE
  <2>1. IsPrefix(f, r)
    BY <1>2, <1>3, <1>7, <1>10, PrefixesOfOne
  <2>2. f # r
    BY <1>3, <1>10, StrictPrefix
  <2>3. IsStrictPrefix(f, Removals[i]) /\ IsStrictPrefix(Removals[i], h)
    BY <1>1, <1>7, <1>9, <2>1, <2>2 DEF IsStrictPrefix
  <2> QED
    BY <1>3, <2>3 DEF Apart
<1> QED
  BY <1>10

\* What is left of the cluster's object after one more removal.
LEMMA RemovalCuts ==
    ASSUME NEW s, WellFormed(s), NEW o, Cut(s, o), NEW field
    PROVE  Cut(s, RemoveNestedField(o, field))
<1>1. PICK r : r = RemoveNestedField(o, field)
  OBVIOUS
<1>2. WellFormed(o)
  BY DEF Cut
<1>3. /\ WellFormed(r) /\ DOMAIN r \subseteq DOMAIN o /\ \A q \in DOMAIN r : r[q] = o[q]
      /\ \A q \in DOMAIN o : q \in DOMAIN r <=> ~ \E p \in ReachedBy(o, field) : IsPrefix(p, q)
  BY <1>1, <1>2, RemoveKeepsWellFormed
<1>4. ASSUME NEW p \in DOMAIN s \ {<<>>}, Last(p) \in Positions, Front(p) \in DOMAIN r PROVE p \in DOMAIN r
  <2>1. p \in DOMAIN o /\ p \in Seq(STRING)
    BY <1>3, <1>4 DEF Cut, WellFormed
  <2>2. ASSUME NEW q \in ReachedBy(o, field), IsPrefix(q, p) PROVE FALSE
    <3>1. q \in Seq(STRING) /\ Last(q) \notin Positions
      BY <1>2 DEF ReachedBy, WellFormed, Reaches
    <3>2. IsPrefix(q, Front(p))
      BY <1>4, <2>1, <2>2, <3>1, StrictPrefix DEF IsStrictPrefix
    <3> QED
      BY <1>3, <1>4, <3>2
  <2> QED
    BY <1>3, <2>1, <2>2
<1> QED
  BY <1>1, <1>3, <1>4 DEF Cut

LEMMA PreservedCollect == TypeInv /\ Apart /\ PreservedInv /\ Collect => PreservedInv'
<1> SUFFICES ASSUME TypeInv, Apart, PreservedInv, Collect PROVE PreservedInv'
  OBVIOUS
<1>1. obj = source /\ pc' = "remove" /\ UNCHANGED <<config, source, obj>>
  BY DEF PreservedInv, Collect
<1>2. /\ AllPairs' = AllPairs /\ CleanFields' = CleanFields /\ Restored' = Restored
  BY <1>1 DEF AllPairs, CleanFields, Restored, Removals
<1>3. WellFormed(source)
  BY FieldsAssumption DEF TypeInv, FieldsTypeOK
<1>4. Cut(source, source) /\ \A f : Keeps(source, CleanFields, source, f)
  BY <1>3 DEF Cut, Keeps, Under
<1>5. ASSUME NEW x \in AllPairs
      PROVE  Source(source, config.excluded[x[1]], config.preserved[x[2]]) = FieldOf(config, x)
  <2>1. /\ IsKeys(config.excluded[x[1]]) /\ IsKeys(FieldOf(config, x))
        /\ IsSubField(config.excluded[x[1]], FieldOf(config, x)) /\ FieldOf(config, x) \in Restored
    BY PairsShape
  <2>2. Kind(source, Front(FieldOf(config, x))) = "map"
    BY <2>1 DEF Apart
  <2> QED
    BY <1>3, <2>1, <2>2, SourceIsField DEF FieldOf
<1>6. PICK ex \in Seq(Fieldset), pr \in Seq(Fieldset) : ex = config.excluded /\ pr = config.preserved
  BY ListsShape DEF TypeInv, FieldsTypeOK
<1>7. /\ Len(ex) \in Nat /\ DOMAIN ex = 1 .. Len(ex) /\ Len(pr) \in Nat /\ DOMAIN pr = 1 .. Len(pr)
  BY <1>6, FieldsShape
<1>8. PICK found : found = PreservedValues(source, ex, pr)
  OBVIOUS
<1>9. /\ \A key \in DOMAIN found : \E x \in Pairs(ex, pr) :
            /\ key = PreservedKey(ex[x[1]], pr[x[2]]) /\ Source(source, ex[x[1]], pr[x[2]]) \in DOMAIN source
            /\ found[key] = [place |-> Source(source, ex[x[1]], pr[x[2]]),
                             held |-> "shared", value |-> Subtree(source, Source(source, ex[x[1]], pr[x[2]]))]
      /\ \A x \in Pairs(ex, pr) : Source(source, ex[x[1]], pr[x[2]]) \in DOMAIN source =>
            PreservedKey(ex[x[1]], pr[x[2]]) \in DOMAIN found
  BY <1>7, <1>8, PreservedValuesResult, SMTT(30)
<1>10. values' = found
  BY <1>1, <1>6, <1>8 DEF Collect
<1>11. AllPairs = Pairs(ex, pr) /\ \A x : KeyOf(config, x) = PreservedKey(ex[x[1]], pr[x[2]])
  BY <1>6 DEF AllPairs, KeyOf
<1>12. ASSUME NEW key \in DOMAIN found
       PROVE  \E x \in AllPairs : /\ key = KeyOf(config, x)
                                  /\ Holds(source, CleanFields, found[key], FieldOf(config, x))
  <2>1. PICK x \in AllPairs :
            /\ key = KeyOf(config, x) /\ Source(source, ex[x[1]], pr[x[2]]) \in DOMAIN source
            /\ found[key] = [place |-> Source(source, ex[x[1]], pr[x[2]]),
                             held |-> "shared", value |-> Subtree(source, Source(source, ex[x[1]], pr[x[2]]))]
    BY <1>9, <1>11
  <2>2. Source(source, ex[x[1]], pr[x[2]]) = FieldOf(config, x)
    BY <1>5, <1>6
  <2>3. PICK f : /\ f = FieldOf(config, x) /\ f \in DOMAIN source
                 /\ found[key].place = f /\ found[key].value = Subtree(source, f)
    BY <2>1, <2>2
  <2>4. Holds(source, CleanFields, found[key], f)
    BY <1>4, <2>3 DEF Holds
  <2> QED
    BY <2>1, <2>3, <2>4
<1>13. ASSUME NEW x \in AllPairs, FieldOf(config, x) \in DOMAIN source PROVE KeyOf(config, x) \in DOMAIN found
  BY <1>5, <1>6, <1>9, <1>11, <1>13
<1>14. ASSUME NEW key \in DOMAIN found PROVE found[key].place \in DOMAIN source
  <2>1. PICK x \in Pairs(ex, pr) :
            /\ Source(source, ex[x[1]], pr[x[2]]) \in DOMAIN source
            /\ found[key] = [place |-> Source(source, ex[x[1]], pr[x[2]]),
                             held |-> "shared", value |-> Subtree(source, Source(source, ex[x[1]], pr[x[2]]))]
    BY <1>9
  <2> QED
    BY <2>1
<1>15. config' = config /\ source' = source /\ obj' = source
  BY <1>1
<1> QED
  BY <1>1, <1>2, <1>4, <1>10, <1>12, <1>13, <1>14, <1>15 DEF PreservedInv

LEMMA PreservedExclude == TypeInv /\ Apart /\ PreservedInv /\ Exclude => PreservedInv'
<1> SUFFICES ASSUME TypeInv, Apart, PreservedInv, Exclude PROVE PreservedInv'
  OBVIOUS
<1>1. pc = "remove" /\ pc' = "remove" /\ UNCHANGED <<config, source>> /\ done < Len(Removals) /\ done \in Nat
  BY DEF Exclude, TypeInv, FieldsTypeOK
<1>2. AllPairs' = AllPairs /\ CleanFields' = CleanFields /\ Restored' = Restored
  BY <1>1 DEF AllPairs, CleanFields, Restored, Removals
<1>3. WellFormed(source) /\ Cut(source, obj)
  BY <1>1, FieldsAssumption DEF TypeInv, FieldsTypeOK, PreservedInv
<1>4. PICK r : r = RemoveNestedField(obj, Removals[done + 1]) /\ r = obj'
  BY DEF Exclude
<1>5. Cut(source, r)
  BY <1>3, <1>4, RemovalCuts
<1>6. done + 1 \in DOMAIN Removals
  <2>1. Removals \in Seq(Fieldset)
    BY ListsShape DEF TypeInv, FieldsTypeOK
  <2>2. DOMAIN Removals = 1 .. Len(Removals) /\ Len(Removals) \in Nat
    BY <2>1, LenProperties
  <2> QED
    BY <1>1, <2>2
<1>7. /\ DOMAIN r \subseteq DOMAIN obj
      /\ \A q \in DOMAIN obj : q \in DOMAIN r <=> ~ \E p \in ReachedBy(obj, Removals[done + 1]) : IsPrefix(p, q)
  <2>1. PICK o, field : o = obj /\ WellFormed(o) /\ field = Removals[done + 1]
    BY <1>3 DEF Cut
  <2>2. LET k == RemoveNestedField(o, field) IN
        /\ DOMAIN k \subseteq DOMAIN o
        /\ \A q \in DOMAIN o : q \in DOMAIN k <=> ~ \E p \in ReachedBy(o, field) : IsPrefix(p, q)
    BY <2>1, RemoveKeepsWellFormed
  <2> QED
    BY <1>4, <2>1, <2>2
<1>8. ASSUME NEW f \in Restored, f \in DOMAIN r PROVE Keeps(source, CleanFields, r, f)
  <2>1. SUFFICES ASSUME NEW h \in CleanFields, IsPrefix(f, h), NEW q \in Under(source, h) PROVE q \in DOMAIN r
    BY DEF Keeps
  <2>2. f \in DOMAIN obj /\ q \in DOMAIN obj
    BY <1>1, <1>7, <1>8, <2>1 DEF PreservedInv, Keeps
  <2>3. ASSUME NEW p \in ReachedBy(obj, Removals[done + 1]), IsPrefix(p, q) PROVE FALSE
    <3>1. IsPrefix(p, f)
      BY <1>3, <1>6, <2>1, <2>3, RemovalOfClean
    <3> QED
      BY <1>7, <1>8, <2>2, <3>1
  <2> QED
    BY <1>7, <2>2, <2>3
<1>9. PICK vs, field : vs = Shared(values, r, field) /\ vs = values'
  BY <1>4 DEF Exclude
<1>10. DOMAIN vs = DOMAIN values
  BY <1>9 DEF Shared
<1>11. ASSUME NEW key \in DOMAIN values
       PROVE  /\ \E x \in AllPairs : key = KeyOf(config, x) /\ Holds(source, CleanFields, vs[key], FieldOf(config, x))
              /\ vs[key].held = "shared" => vs[key].place \in DOMAIN r
  <2>1. PICK x \in AllPairs : key = KeyOf(config, x) /\ Holds(source, CleanFields, values[key], FieldOf(config, x))
    BY <1>1 DEF PreservedInv
  <2>2. PICK f \in Restored : f = FieldOf(config, x)
    BY PairsShape
  <2>3. PICK t : /\ f \in DOMAIN t /\ Cut(source, t) /\ Keeps(source, CleanFields, t, f)
                 /\ values[key].place = f /\ values[key].value = Subtree(t, f)
    BY <2>1, <2>2 DEF Holds
  <2>4. IsValue(values[key])
    BY DEF TypeInv, Taken
  <2>5. PICK v, w : v = values[key] /\ w = vs[key]
    OBVIOUS
  <2>6. /\ w.place = f
        /\ \/ f \in DOMAIN r /\ w.value = Subtree(r, f)
           \/ w.held = "alone" /\ w.value = Subtree(t, f)
    <3>1. /\ w = Shared(values, r, field)[key] /\ IsValue(v)
          /\ v.place = f /\ v.value = Subtree(t, f)
      BY <1>9, <2>3, <2>4, <2>5
    <3>2. /\ w.place = v.place
          /\ IF v.held = "shared" /\ v.place \in DOMAIN r /\ ~ IsPrefix(field, v.place)
               THEN w.held = "shared" /\ w.value = Subtree(r, v.place)
               ELSE w.held = "alone" /\ w.value = v.value
      BY <2>5, <3>1, SharedValue
    <3> QED
      BY <3>1, <3>2
  <2>7. Holds(source, CleanFields, w, f)
    BY <1>5, <1>8, <2>3, <2>6 DEF Holds
  <2> QED
    BY <2>1, <2>2, <2>5, <2>6, <2>7
<1>12. values' = vs /\ obj' = r /\ config' = config /\ source' = source
  BY <1>1, <1>4, <1>9
<1>13. ASSUME NEW x \in AllPairs, FieldOf(config, x) \in DOMAIN source PROVE KeyOf(config, x) \in DOMAIN vs
  BY <1>1, <1>10, <1>13 DEF PreservedInv
<1> QED
  BY <1>1, <1>2, <1>5, <1>8, <1>10, <1>11, <1>12, <1>13 DEF PreservedInv

SameValue(w, v) == w.held = "alone" /\ w.place = v.place /\ w.value = v.value

\* A step of restoring what is apart sets a preserved field of the key to what is left of
\* it, if there is one below the excluded field, and leaves the values that are to come.
LEMMA RestoredApart ==
    ASSUME TypeInv, Apart, PreservedInv, Restore
    PROVE  /\ DOMAIN values' = DOMAIN values /\ \A key \in DOMAIN values : SameValue(values'[key], values[key])
           /\ \/ /\ obj' = obj
                 /\ \A y \in AllPairs : ~ (KeyOf(config, y) = current' /\ y[1] = done + 1)
              \/ \E f \in Restored : \E t :
                    /\ f \in DOMAIN t /\ Cut(source, t) /\ Keeps(source, CleanFields, t, f)
                    /\ Restores(obj, obj', {f}, t, f) /\ Full(obj', f, t, f)
                    /\ \A y \in AllPairs : KeyOf(config, y) = current' => FieldOf(config, y) = f
<1>1. /\ done \in Nat /\ current' \in DOMAIN values /\ pc = "restore"
      /\ \A key \in DOMAIN values : values[key].held = "alone" /\ Taken(values[key])
  BY RestoreResult DEF PreservedInv, TypeInv
<1>2. PICK fields : fields = OfKey(config.excluded, config.preserved, current', done + 1)
  OBVIOUS
<1>3. ASSUME fields = {}, UNCHANGED <<values, plain, obj>>, NEW y \in AllPairs,
             KeyOf(config, y) = current', y[1] = done + 1
      PROVE  FALSE
  <2>1. y[2] \in DOMAIN config.preserved /\ y = <<done + 1, y[2]>>
    BY <1>3, PairsShape
  <2>2. y[2] \in fields
    BY <1>2, <1>3, <2>1 DEF OfKey, KeyOf, AllPairs
  <2> QED
    BY <1>3, <2>2
<1>4. ASSUME NEW j \in fields,
             NEW f, f = config.preserved[j], f \in Restored,
             obj' = SetNestedField(obj, f, values[current'].value),
             values' = Shared(values, obj', f)
      PROVE  /\ DOMAIN values' = DOMAIN values /\ \A key \in DOMAIN values : SameValue(values'[key], values[key])
             /\ \E u : /\ f \in DOMAIN u /\ Cut(source, u) /\ Keeps(source, CleanFields, u, f)
                       /\ Restores(obj, obj', {f}, u, f) /\ Full(obj', f, u, f)
             /\ \A y \in AllPairs : KeyOf(config, y) = current' => FieldOf(config, y) = f
  <2>1. DOMAIN values' = DOMAIN values /\ \A key \in DOMAIN values : SameValue(values'[key], values[key])
    <3>1. PICK vs, o : vs = values /\ o = obj'
      OBVIOUS
    <3>2. DOMAIN Shared(vs, o, f) = DOMAIN vs
      BY DEF Shared
    <3>3. ASSUME NEW key \in DOMAIN vs PROVE SameValue(Shared(vs, o, f)[key], vs[key])
      <4>1. vs[key].held = "alone" /\ IsValue(vs[key])
        BY <1>1, <3>1 DEF Taken
      <4> QED
        BY <4>1, SharedValue DEF SameValue
    <3> QED
      BY <1>4, <3>1, <3>2, <3>3
  <2>2. PICK pair : pair = <<done + 1, j>> /\ pair[2] = j /\ pair \in AllPairs /\ KeyOf(config, pair) = current'
    BY <1>2 DEF OfKey, AllPairs, KeyOf
  <2>3. ASSUME NEW y \in AllPairs, KeyOf(config, y) = current' PROVE FieldOf(config, y) = f
    BY <1>4, <2>2, <2>3 DEF Apart, AllPairs, KeyOf, FieldOf
  <2>4. Holds(source, CleanFields, values[current'], f)
    <3>1. PICK x \in AllPairs : current' = KeyOf(config, x) /\ Holds(source, CleanFields, values[current'], FieldOf(config, x))
      BY <1>1 DEF PreservedInv
    <3> QED
      BY <2>3, <3>1
  <2>5. PICK u : /\ f \in DOMAIN u /\ Cut(source, u) /\ Keeps(source, CleanFields, u, f)
                 /\ values[current'].value = Subtree(u, f)
    BY <2>4 DEF Holds
  <2>6. PICK o, r : /\ o = obj /\ r = obj' /\ r = SetNestedField(o, f, Subtree(u, f))
                    /\ Cut(source, o) /\ WellFormed(o) /\ WellFormed(u)
    BY <1>1, <1>4, <2>5 DEF PreservedInv, Cut
  <2>7. IsKeys(f) /\ Unblocked(o, f)
    BY <1>4, <2>6, RestoredShape, ApartIsUnblocked
  <2>8. Restores(o, r, {f}, u, f) /\ Full(r, f, u, f)
    BY <2>5, <2>6, <2>7, RestoreStep
  <2> QED
    BY <2>1, <2>3, <2>5, <2>6, <2>8
<1>5. CASE fields = {} /\ UNCHANGED <<values, plain, obj>>
  <2>1. values' = values /\ obj' = obj
    BY <1>5
  <2>2. \A key \in DOMAIN values : SameValue(values[key], values[key])
    BY <1>1 DEF SameValue
  <2> QED
    BY <1>3, <1>5, <2>1, <2>2
<1>6. CASE ~ (fields = {} /\ UNCHANGED <<values, plain, obj>>)
  <2>1. PICK j \in fields : /\ obj' = SetNestedField(obj, config.preserved[j], values[current'].value)
                            /\ values' = Shared(values, obj', config.preserved[j])
    BY <1>2, <1>6 DEF Restore
  <2>2. config.preserved[j] \in Restored
    <3>1. PICK pair : pair = <<done + 1, j>> /\ pair[2] = j /\ pair \in Pairs(config.excluded, config.preserved)
      BY <1>2 DEF OfKey
    <3> QED
      BY <3>1 DEF Restored
  <2>3. PICK f \in Restored : f = config.preserved[j]
    BY <2>2
  <2>4. /\ DOMAIN values' = DOMAIN values /\ \A key \in DOMAIN values : SameValue(values'[key], values[key])
        /\ \E u : /\ f \in DOMAIN u /\ Cut(source, u) /\ Keeps(source, CleanFields, u, f)
                  /\ Restores(obj, obj', {f}, u, f) /\ Full(obj', f, u, f)
        /\ \A y \in AllPairs : KeyOf(config, y) = current' => FieldOf(config, y) = f
    BY <1>4, <2>1, <2>3
  <2> QED
    BY <2>4
<1> QED
  BY <1>5, <1>6

\* What that makes of an object is again a part of the cluster's.
LEMMA RestoredIsCut ==
    ASSUME TypeInv, Apart, NEW f \in Restored, NEW o, Cut(source, o), NEW t, Cut(source, t), f \in DOMAIN t,
           NEW r, Restores(o, r, {f}, t, f), Full(r, f, t, f)
    PROVE  /\ Cut(source, r)
           /\ \A p \in Seq(STRING) : IsPrefix(f, p) => (p \in DOMAIN r <=> p \in DOMAIN t)
           /\ \A p \in DOMAIN o : ~ IsPrefix(f, p) => p \in DOMAIN r
<1>1. /\ WellFormed(source) /\ Plain(source) /\ WellFormed(r) /\ WellFormed(o) /\ WellFormed(t)
      /\ Kind(source, Front(f)) = "map"
  BY ApartIsUnblocked, FieldsAssumption DEF TypeInv, FieldsTypeOK, Plain, Restores, Cut
<1>2. IsKeys(f) /\ f \in Seq(STRING) /\ f # <<>>
  BY RestoredShape DEF IsKeys
<1>3. \A p \in Seq(STRING) : IsPrefix(f, p) => f \o Below(f, p) = p
  BY <1>2, BelowShape
<1>4. \A p \in Seq(STRING) : IsPrefix(f, p) => (p \in DOMAIN r <=> p \in DOMAIN t)
  BY <1>3 DEF Full
<1>5. \A p \in DOMAIN o : ~ IsPrefix(f, p) => p \in DOMAIN r
  BY DEF Restores
<1>6. ASSUME NEW p \in DOMAIN r
      PROVE  \/ p \in DOMAIN o /\ r[p] = o[p]
             \/ IsPrefix(f, p) /\ p \in DOMAIN t /\ r[p] = t[p]
             \/ r[p] = Map /\ IsStrictPrefix(p, f)
  <2>1. p \in Seq(STRING)
    BY <1>1 DEF WellFormed
  <2>2. \/ p \in DOMAIN o /\ r[p] = o[p]
        \/ IsPrefix(f, p) /\ f \o Below(f, p) \in DOMAIN t /\ r[p] = t[f \o Below(f, p)]
        \/ r[p] = Map /\ IsStrictPrefix(p, f)
    BY DEF Restores
  <2> QED
    BY <1>3, <2>1, <2>2
<1>7. ASSUME NEW p \in Seq(STRING), IsStrictPrefix(p, f) PROVE p \in DOMAIN source /\ source[p] = Map
  <2>1. PICK a \in Seq(STRING) : /\ a = Front(f) /\ a \in DOMAIN source /\ source[a].kind = "map"
                                 /\ Len(a) = Len(f) - 1 /\ \A i \in 1 .. Len(f) - 1 : a[i] = f[i]
    BY <1>1, <1>2, FrontShape DEF Kind
  <2>2. \A i \in 1 .. Len(a) : a[i] \notin Positions
    BY <1>2, <2>1, LenProperties DEF IsKeys
  <2>3. IsPrefix(p, a)
    BY <1>2, <1>7, <2>1, StrictPrefix
  <2>4. p \in DOMAIN source /\ source[p].kind = "map"
    BY <1>1, <2>1, <2>2, <2>3, MapsAbove
  <2>5. /\ source[p] = [kind |-> source[p].kind, text |-> source[p].text, key |-> source[p].key]
        /\ source[p].text = {} /\ source[p].key = "none"
    BY <1>1, <2>4 DEF WellFormed, Plain
  <2> QED
    BY <2>4, <2>5 DEF Map
<1>8. ASSUME NEW p \in DOMAIN r PROVE p \in DOMAIN source /\ r[p] = source[p]
  <2>1. p \in Seq(STRING)
    BY <1>1 DEF WellFormed
  <2> QED
    BY <1>6, <1>7, <2>1 DEF Cut
<1>9. ASSUME NEW p \in DOMAIN source \ {<<>>}, Last(p) \in Positions, Front(p) \in DOMAIN r
      PROVE  p \in DOMAIN r
  <2>1. p \in Seq(STRING) /\ p # <<>>
    BY <1>1 DEF WellFormed
  <2>2. PICK a \in Seq(STRING) : a = Front(p)
    BY <2>1, FrontShape
  <2>3. f # p
    <3>1. Last(f) \notin Positions
      <4>1. Len(f) \in 1 .. Len(f)
        BY <1>2, LenProperties, EmptySeq
      <4> QED
        BY <1>2, <4>1 DEF IsKeys, Last
    <3> QED
      BY <1>9, <3>1
  <2>4. IsPrefix(f, p) <=> IsPrefix(f, a)
    BY <1>2, <2>1, <2>2, <2>3, StrictPrefix, PrefixesOfOne DEF IsStrictPrefix
  <2>5. CASE IsPrefix(f, a)
    <3>1. a \in DOMAIN t
      BY <1>4, <1>9, <2>2, <2>5
    <3>2. p \in DOMAIN t
      BY <1>9, <2>2, <3>1 DEF Cut
    <3> QED
      BY <1>4, <2>1, <2>4, <2>5, <3>2
  <2>6. CASE ~ IsPrefix(f, a)
    <3>1. a \in DOMAIN o \/ IsStrictPrefix(a, f)
      BY <1>6, <1>9, <2>2, <2>6
    <3>2. ~ IsStrictPrefix(a, f)
      <4>1. Kind(source, a) = "list"
        BY <1>1, <1>9, <2>2 DEF WellFormed
      <4>2. Map.kind = "map"
        BY DEF Map
      <4> QED
        BY <1>7, <4>1, <4>2 DEF Kind
    <3>3. p \in DOMAIN o
      BY <1>9, <2>2, <3>1, <3>2 DEF Cut
    <3> QED
      BY <1>5, <2>4, <2>6, <3>3
  <2> QED
    BY <2>5, <2>6
<1> QED
  BY <1>1, <1>4, <1>5, <1>8, <1>9 DEF Cut

LEMMA PreservedRestore == TypeInv /\ Apart /\ PreservedInv /\ Restore => PreservedInv'
<1> SUFFICES ASSUME TypeInv, Apart, PreservedInv, Restore PROVE PreservedInv'
  OBVIOUS
<1>1. /\ pc = "restore" /\ pc' = "restore" /\ config' = config /\ source' = source
      /\ done \in Nat /\ done' = done + 1 /\ current' \in DOMAIN values
  BY RestoreResult
<1>2. AllPairs' = AllPairs /\ CleanFields' = CleanFields /\ Restored' = Restored
  BY <1>1 DEF AllPairs, CleanFields, Restored, Removals
<1>3. /\ Cut(source, obj) /\ WellFormed(source)
      /\ DOMAIN values' = DOMAIN values /\ \A key \in DOMAIN values : SameValue(values'[key], values[key])
  BY <1>1, RestoredApart, FieldsAssumption DEF PreservedInv, TypeInv, FieldsTypeOK
<1>4. /\ \A key \in DOMAIN values' : values'[key].held = "alone"
      /\ \A key \in DOMAIN values' : \E x \in AllPairs :
            key = KeyOf(config, x) /\ Holds(source, CleanFields, values'[key], FieldOf(config, x))
  BY <1>1, <1>3 DEF PreservedInv, SameValue, Holds
\* What is not restored by this step is there before it, or still to be restored.
<1>5. ASSUME NEW y \in AllPairs, FieldOf(config, y) \in CleanFields \cap DOMAIN source,
             ~ (KeyOf(config, y) = current' /\ y[1] = done + 1)
      PROVE  \/ KeyOf(config, y) \in DOMAIN values' /\ ~ (KeyOf(config, y) = current' /\ y[1] <= done')
             \/ Under(source, FieldOf(config, y)) \subseteq DOMAIN obj
  <2>1. \/ KeyOf(config, y) \in DOMAIN values /\ ~ (KeyOf(config, y) = current /\ y[1] <= done)
        \/ Under(source, FieldOf(config, y)) \subseteq DOMAIN obj
    BY <1>1, <1>5 DEF PreservedInv
  <2>2. y[1] \in Nat /\ y[1] > 0
    <3>1. config.excluded \in Seq(Fieldset) /\ y[1] \in DOMAIN config.excluded
      BY ListsShape, PairsShape DEF TypeInv, FieldsTypeOK
    <3> QED
      BY <3>1, LenProperties
  <2>3. done = 0 \/ current' = current
    BY DEF Restore
  <2> QED
    BY <1>1, <1>3, <1>5, <2>1, <2>2, <2>3
<1>6. CASE /\ obj' = obj
           /\ \A y \in AllPairs : ~ (KeyOf(config, y) = current' /\ y[1] = done + 1)
  <2>1. ASSUME NEW y \in AllPairs, FieldOf(config, y) \in CleanFields \cap DOMAIN source
        PROVE  \/ KeyOf(config, y) \in DOMAIN values' /\ ~ (KeyOf(config, y) = current' /\ y[1] <= done')
               \/ Under(source, FieldOf(config, y)) \subseteq DOMAIN obj'
    BY <1>5, <1>6, <2>1
  <2> QED
    BY <1>1, <1>2, <1>3, <1>6, <1>4, <2>1 DEF PreservedInv
<1>7. ASSUME NEW f \in Restored, NEW t, f \in DOMAIN t, Cut(source, t), Keeps(source, CleanFields, t, f),
             Restores(obj, obj', {f}, t, f), Full(obj', f, t, f),
             \A y \in AllPairs : KeyOf(config, y) = current' => FieldOf(config, y) = f
      PROVE  PreservedInv'
  <2>1. /\ Cut(source, obj')
        /\ \A p \in Seq(STRING) : IsPrefix(f, p) => (p \in DOMAIN obj' <=> p \in DOMAIN t)
        /\ \A p \in DOMAIN obj : ~ IsPrefix(f, p) => p \in DOMAIN obj'
    <3>1. PICK o, r : o = obj /\ r = obj' /\ Cut(source, o) /\ Restores(o, r, {f}, t, f) /\ Full(r, f, t, f)
      BY <1>3, <1>7
    <3>2. /\ Cut(source, r)
          /\ \A p \in Seq(STRING) : IsPrefix(f, p) => (p \in DOMAIN r <=> p \in DOMAIN t)
          /\ \A p \in DOMAIN o : ~ IsPrefix(f, p) => p \in DOMAIN r
      BY <1>7, <3>1, RestoredIsCut
    <3> QED
      BY <3>1, <3>2
  <2>2. IsKeys(f) /\ f \in Seq(STRING) /\ \A g \in Restored : g \in Seq(STRING)
    BY RestoredShape
  <2>3. ASSUME NEW y \in AllPairs, FieldOf(config, y) \in CleanFields \cap DOMAIN source,
               \/ KeyOf(config, y) = current' /\ y[1] = done + 1
               \/ Under(source, FieldOf(config, y)) \subseteq DOMAIN obj
        PROVE  Under(source, FieldOf(config, y)) \subseteq DOMAIN obj'
    <3>1. PICK g \in CleanFields : g = FieldOf(config, y) /\ g \in Restored /\ g \in Seq(STRING)
      BY <2>2, <2>3 DEF CleanFields
    <3>2. SUFFICES ASSUME NEW p \in Under(source, g) PROVE p \in DOMAIN obj'
      BY <3>1
    <3>3. p \in Seq(STRING) /\ p \in DOMAIN source /\ IsPrefix(g, p)
      BY <1>3 DEF Under, WellFormed
    <3>4. CASE KeyOf(config, y) = current'
      <4>1. g = f
        BY <1>7, <3>1, <3>4
      <4>2. IsPrefix(f, f)
        BY <2>2, StrictPrefix
      <4>3. p \in DOMAIN t
        BY <1>7, <4>1, <4>2 DEF Keeps
      <4> QED
        BY <2>1, <3>3, <4>1, <4>3
    <3>5. CASE KeyOf(config, y) # current'
      <4>1. p \in DOMAIN obj
        BY <2>3, <3>1, <3>5
      <4>2. CASE ~ IsPrefix(f, p)
        BY <2>1, <4>1, <4>2
      <4>3. CASE IsPrefix(f, p)
        <5>1. IsPrefix(f, g) \/ IsPrefix(g, f)
          BY <2>2, <3>1, <3>3, <4>3, PrefixesOfOne
        <5>2. CASE IsPrefix(f, g)
          BY <1>7, <2>1, <3>3, <4>3, <5>2 DEF Keeps
        <5>3. CASE IsPrefix(g, f)
          <6>1. f \in CleanFields
            <7>1. ASSUME NEW i \in DOMAIN Removals, IsPrefix(f, Removals[i]) PROVE FALSE
              <8>1. PICK q \in Seq(STRING) : q = Removals[i]
                <9>1. Removals \in Seq(Fieldset)
                  BY ListsShape DEF TypeInv, FieldsTypeOK
                <9> QED
                  BY <9>1, FieldsShape DEF IsKeys
              <8>2. IsPrefix(g, q)
                BY <2>2, <3>1, <5>3, <7>1, <8>1, PrefixesOfOne
              <8> QED
                BY <8>1, <8>2 DEF CleanFields
            <7> QED
              BY <7>1 DEF CleanFields
          <6>2. IsPrefix(f, f)
            BY <2>2, StrictPrefix
          <6>3. p \in DOMAIN t
            BY <1>7, <3>3, <4>3, <6>1, <6>2 DEF Keeps, Under
          <6> QED
            BY <2>1, <3>3, <4>3, <6>3
        <5> QED
          BY <5>1, <5>2, <5>3
      <4> QED
        BY <4>2, <4>3
    <3> QED
      BY <3>4, <3>5
  <2>4. ASSUME NEW y \in AllPairs, FieldOf(config, y) \in CleanFields \cap DOMAIN source
        PROVE  \/ KeyOf(config, y) \in DOMAIN values' /\ ~ (KeyOf(config, y) = current' /\ y[1] <= done')
               \/ Under(source, FieldOf(config, y)) \subseteq DOMAIN obj'
    BY <1>5, <2>3, <2>4
  <2> QED
    BY <1>1, <1>2, <1>3, <1>4, <2>1, <2>4 DEF PreservedInv
<1> QED
  BY <1>6, <1>7, RestoredApart

LEMMA PreservedNextKey == TypeInv /\ PreservedInv /\ NextKey => PreservedInv'
<1> SUFFICES ASSUME TypeInv, PreservedInv, NextKey PROVE PreservedInv'
  OBVIOUS
<1>1. /\ pc = "restore" /\ pc' = "restore" /\ UNCHANGED <<config, source, obj>> /\ done' = 0
      /\ done = Len(config.excluded)
      /\ values' = [k \in DOMAIN values \ {current} |-> values[k]]
  BY DEF NextKey
<1>2. AllPairs' = AllPairs /\ CleanFields' = CleanFields /\ Restored' = Restored
  BY <1>1 DEF AllPairs, CleanFields, Restored, Removals
<1>3. ASSUME NEW y \in AllPairs, FieldOf(config, y) \in CleanFields \cap DOMAIN source
      PROVE  \/ KeyOf(config, y) \in DOMAIN values' /\ ~ (KeyOf(config, y) = current' /\ y[1] <= done')
             \/ Under(source, FieldOf(config, y)) \subseteq DOMAIN obj'
  <2>1. y[1] \in Nat /\ y[1] > 0 /\ y[1] <= done
    <3>1. config.excluded \in Seq(Fieldset) /\ y[1] \in DOMAIN config.excluded
      BY ListsShape, PairsShape DEF TypeInv, FieldsTypeOK
    <3> QED
      BY <1>1, <3>1, LenProperties
  <2>2. \/ KeyOf(config, y) \in DOMAIN values /\ KeyOf(config, y) # current
        \/ Under(source, FieldOf(config, y)) \subseteq DOMAIN obj
    BY <1>1, <1>3, <2>1 DEF PreservedInv
  <2> QED
    BY <1>1, <2>1, <2>2
<1>4. /\ \A key \in DOMAIN values' : values'[key].held = "alone"
      /\ \A key \in DOMAIN values' : \E x \in AllPairs :
            key = KeyOf(config, x) /\ Holds(source, CleanFields, values'[key], FieldOf(config, x))
  BY <1>1 DEF PreservedInv
<1> QED
  BY <1>1, <1>2, <1>3, <1>4 DEF PreservedInv

LEMMA PreservedProceed == TypeInv /\ ExcludedInv /\ PreservedInv /\ Proceed => PreservedInv'
<1> SUFFICES ASSUME TypeInv, ExcludedInv, PreservedInv, Proceed PROVE PreservedInv'
  OBVIOUS
<1>1. UNCHANGED <<config, source, values, obj>> /\ done' = 0
  BY DEF Proceed
<1>2. AllPairs' = AllPairs /\ CleanFields' = CleanFields /\ Restored' = Restored
  BY <1>1 DEF AllPairs, CleanFields, Restored, Removals
<1>3. WellFormed(source)
  BY FieldsAssumption DEF TypeInv, FieldsTypeOK
<1>4. CASE pc = "remove" /\ pc' = "restore"
  <2>1. ASSUME NEW key \in DOMAIN values, values[key].held = "shared" PROVE FALSE
    <3>1. PICK x \in AllPairs : Holds(source, CleanFields, values[key], FieldOf(config, x))
      BY <1>4 DEF PreservedInv
    <3>2. PICK f, e : /\ f = FieldOf(config, x) /\ e = config.excluded[x[1]] /\ x[1] \in DOMAIN config.excluded
                      /\ IsKeys(e) /\ IsKeys(f) /\ IsPrefix(e, f)
      BY PairsShape DEF IsSubField, IsStrictPrefix
    <3>3. f \in DOMAIN obj
      BY <1>4, <2>1, <3>1, <3>2 DEF PreservedInv, Holds
    <3>4. PICK i \in DOMAIN Removals : Removals[i] = e
      <4>1. config.excluded \in Seq(Fieldset) /\ config.kindFields \in Seq(Fieldset)
        BY ListsShape DEF TypeInv, FieldsTypeOK
      <4>2. Covers(Removals, config.excluded)
        BY <4>1, Parts DEF Removals
      <4> QED
        BY <3>2, <4>2 DEF Covers
    <3>5. Hit(f, e)
      BY <3>2, KeysReach DEF Hit, IsKeys
    <3>6. DOMAIN Removals = 1 .. done
      <4>1. Removals \in Seq(Fieldset) /\ done = Len(Removals)
        BY <1>4, ListsShape DEF TypeInv, FieldsTypeOK, Proceed
      <4> QED
        BY <4>1, LenProperties
    <3> QED
      BY <1>4, <3>3, <3>4, <3>5, <3>6 DEF ExcludedInv
  <2>2. ASSUME NEW x \in AllPairs PROVE ~ (x[1] <= done')
    <3>1. config.excluded \in Seq(Fieldset) /\ x[1] \in DOMAIN config.excluded
      BY ListsShape, PairsShape DEF TypeInv, FieldsTypeOK
    <3> QED
      BY <1>1, <3>1, LenProperties
  <2>3. \A key \in DOMAIN values : values[key].held \in {"shared", "alone"}
    BY DEF TypeInv, Taken
  <2> QED
    BY <1>1, <1>2, <1>4, <2>1, <2>2, <2>3 DEF PreservedInv
<1>5. CASE pc = "restore" /\ DOMAIN values = {} /\ pc' = "mask"
  <2>1. ASSUME NEW f \in CleanFields PROVE Under(source, f) \subseteq DOMAIN obj
    <3>1. PICK x \in AllPairs : f = FieldOf(config, x) /\ f \in Seq(STRING)
      BY RestoredShape DEF CleanFields
    <3>2. CASE f \in DOMAIN source
      BY <1>5, <3>1, <3>2 DEF PreservedInv
    <3>3. CASE f \notin DOMAIN source
      BY <1>3, <3>1, <3>3, PrefixIsThere DEF Under
    <3> QED
      BY <3>2, <3>3
  <2> QED
    BY <1>1, <1>2, <1>5, <2>1 DEF PreservedInv
<1>6. CASE pc' \notin {"collect", "remove", "restore", "mask"}
  BY <1>6 DEF PreservedInv
<1> QED
  BY <1>4, <1>5, <1>6 DEF Proceed

LEMMA PreservedInvIsInductive ==
    TypeInv /\ ExcludedInv /\ (Apart => PreservedInv) /\ [Next]_vars => (Apart => PreservedInv)'
<1> SUFFICES ASSUME TypeInv, ExcludedInv, Apart => PreservedInv, [Next]_vars, Apart' PROVE PreservedInv'
  OBVIOUS
<1>1. config' = config /\ source' = source
  BY DEF vars, Next, Collect, Exclude, Restore, NextKey, Mask, Encrypt, Sort, Proceed, Decrypt
<1>2. Apart /\ AllPairs' = AllPairs /\ CleanFields' = CleanFields /\ Restored' = Restored
  <2>1. AllPairs' = AllPairs /\ Restored' = Restored /\ Removals' = Removals
    BY <1>1 DEF AllPairs, Restored, Removals
  <2>2. CleanFields' = CleanFields
    BY <2>1 DEF CleanFields
  <2>3. Apart' <=> Apart
    BY <1>1, <2>1, ZenonT(60) DEF Apart
  <2> QED
    BY <2>1, <2>2, <2>3
<1>3. PreservedInv
  BY <1>2
<1>4. CASE UNCHANGED vars
  BY <1>1, <1>2, <1>3, <1>4 DEF vars, PreservedInv
<1>5. CASE Mask
  <2>1. done' # 0 /\ pc' = "mask"
    BY <1>5 DEF Mask, TypeInv, FieldsTypeOK
  <2> QED
    BY <2>1 DEF PreservedInv
<1>6. CASE Encrypt \/ Sort \/ Decrypt
  BY <1>6 DEF PreservedInv, Encrypt, Sort, Decrypt
<1> QED
  BY <1>2, <1>3, <1>4, <1>5, <1>6, PreservedCollect, PreservedExclude, PreservedRestore, PreservedNextKey,
     PreservedProceed DEF Next

LEMMA PreservedAlways == Spec => [](TypeInv /\ (Apart => PreservedInv))
<1>1. Init => (Apart => PreservedInv)
  BY DEF Init, PreservedInv
<1> QED
  BY ExcludedAlways, PreservedInvIsInductive, <1>1, PTL DEF Spec

LEMMA PreservedInvIsEnough == TypeInv /\ (Apart => PreservedInv) => PreservedWhenApart
<1> SUFFICES ASSUME TypeInv, PreservedInv, pc = "mask", done = 0, NEW f \in Restored
             PROVE  /\ \A p \in Under(source, f) :
                          \/ p \in DOMAIN obj /\ obj[p] = source[p]
                          \/ \E i \in DOMAIN Removals : IsPrefix(f, Removals[i])
                    /\ f \in DOMAIN obj => f \in DOMAIN source
  BY DEF PreservedWhenApart, PreservedFieldsKept
<1>1. Cut(source, obj)
  BY DEF PreservedInv
<1>2. CASE f \in CleanFields
  BY <1>1, <1>2 DEF PreservedInv, Cut
<1>3. CASE f \notin CleanFields
  BY <1>1, <1>3 DEF CleanFields, Cut
<1> QED
  BY <1>2, <1>3

\* Whichever order the preserved values are in when FilterFields goes through its Go map,
\* and whatever is removed before: preserved fields that are apart are what they were,
\* and none has come into being.
THEOREM PreservedFieldsAreKept == Spec => []PreservedWhenApart
BY PreservedAlways, PreservedInvIsEnough, PTL

-----------------------------------------------------------------------------
(* Secrets *)

Markers == {"*****", "sum", "cipher"}
Blind(node) == Shown(node) \subseteq Markers

\* r is o with what a field stands for masked or encrypted.
Hides(o, r, field) ==
    /\ WellFormed(r)
    /\ DOMAIN r \subseteq DOMAIN o
    /\ \A q \in DOMAIN o : q \in DOMAIN r <=> ~ \E t \in Transformed(o, field) : IsStrictPrefix(t, q)
    /\ \A q \in DOMAIN r :
          IF q \in Transformed(o, field) THEN r[q].kind = "string" /\ Blind(r[q]) ELSE r[q] = o[q]

LEMMA MaskHides ==
    ASSUME NEW o, WellFormed(o), NEW field, NEW checksum
    PROVE  Hides(o, MaskField(o, field, checksum), field)
<1>1. DoMask(checksum).kind = "string" /\ Blind(DoMask(checksum))
  BY DEF DoMask, Text, Scalar, Blind, Shown, Markers
<1>2. PICK r : r = MaskField(o, field, checksum)
  OBVIOUS
<1>3. /\ WellFormed(r)
      /\ DOMAIN r \subseteq DOMAIN o
      /\ \A q \in DOMAIN o : q \in DOMAIN r <=> ~ \E t \in Transformed(o, field) : IsStrictPrefix(t, q)
      /\ \A q \in DOMAIN r : r[q] = IF q \in Transformed(o, field) THEN DoMask(checksum) ELSE o[q]
  BY <1>2, MaskFieldResult
<1> QED
  BY <1>1, <1>2, <1>3 DEF Hides

LEMMA EncryptHides ==
    ASSUME NEW o, WellFormed(o), NEW field, NEW aesKey, aesKey # "none"
    PROVE  Hides(o, EncryptField(o, field, aesKey), field)
<1>1. PICK r : r = EncryptField(o, field, aesKey)
  OBVIOUS
<1>2. WellFormed(r)
  BY <1>1, EncryptFieldIsStep DEF EncryptsTo
<1>3. /\ DOMAIN r \subseteq DOMAIN o
      /\ \A q \in DOMAIN o : q \in DOMAIN r <=> ~ \E t \in Transformed(o, field) : IsStrictPrefix(t, q)
      /\ \A q \in DOMAIN r : q \notin Transformed(o, field) => r[q] = o[q]
  BY <1>1, EncryptFieldNodes
<1>4. ASSUME NEW q \in DOMAIN r, q \in Transformed(o, field) PROVE r[q].kind = "string" /\ Blind(r[q])
  <2>1. r[q] = DoEncrypt(o, q, aesKey)
    BY <1>1, <1>3, <1>4 DEF EncryptField, TransformNestedField
  <2>2. DoEncrypt(o, q, aesKey).kind = "string" /\ Secured(DoEncrypt(o, q, aesKey))
    BY <1>3, EncryptedNode
  <2> QED
    BY <2>1, <2>2 DEF Secured, Blind, Shown, Markers
<1> QED
  BY <1>1, <1>2, <1>3, <1>4 DEF Hides

\* What is left of s when fields are hidden.
Veiled(s, o) ==
    /\ WellFormed(o)
    /\ \A p \in DOMAIN o : p \in DOMAIN s /\ (o[p] = s[p] \/ (o[p].kind = "string" /\ Blind(o[p])))

\* What s has of the field that is secret shows nothing in o.
Covered(s, o, field) ==
    \A r \in ReachedBy(s, field) : s[r].kind \in {"string", "map"} => \A q \in Under(o, r) : Blind(o[q])

LEMMA HidingVeils ==
    ASSUME NEW s, WellFormed(s), Plain(s), NEW o, Veiled(s, o), NEW field, NEW r, Hides(o, r, field)
    PROVE  /\ Veiled(s, r)
           /\ Covered(s, r, field)
           /\ \A g : Covered(s, o, g) => Covered(s, r, g)
<1>1. WellFormed(o) /\ WellFormed(r)
  BY DEF Veiled, Hides
<1>2. Veiled(s, r)
  BY DEF Veiled, Hides
<1>3. ASSUME NEW g, Covered(s, o, g) PROVE Covered(s, r, g)
  BY <1>3 DEF Covered, Hides, Under
<1>4. ASSUME NEW x \in ReachedBy(s, field), s[x].kind \in {"string", "map"}, NEW q \in Under(r, x) PROVE Blind(r[q])
  <2>1. q \in DOMAIN r /\ q \in DOMAIN o /\ IsPrefix(x, q) /\ q \in Seq(STRING) /\ x \in Seq(STRING)
    BY <1>1 DEF Under, Hides, WellFormed, ReachedBy
  <2>2. x \in DOMAIN o /\ x \in ReachedBy(o, field)
    BY <1>1, <2>1, PrefixIsThere DEF ReachedBy
  <2>3. o[x] = s[x] \/ (o[x].kind = "string" /\ Blind(o[x]))
    BY <2>2 DEF Veiled
  <2>4. CASE o[x].kind = "string"
    <3>1. x \in Transformed(o, field)
      BY <2>2, <2>4 DEF Transformed
    <3>2. q = x
      BY <2>1, <3>1 DEF Hides, IsStrictPrefix
    <3> QED
      BY <2>1, <3>1, <3>2 DEF Hides
  <2>5. CASE o[x].kind = "map"
    <3>1. s[x] = o[x]
      BY <2>3, <2>5
    <3>2. CASE q = x
      <4>1. s[x].text = {} /\ s[x].key = "none"
        BY <2>5, <3>1 DEF WellFormed, Plain, ReachedBy
      <4>2. Blind(o[x])
        BY <3>1, <4>1 DEF Blind, Shown
      <4> QED
        BY <2>1, <3>2, <4>2 DEF Hides
    <3>3. CASE q # x
      <4>1. PICK c \in Seq(STRING) : IsPrefix(c, q) /\ c # <<>> /\ Front(c) = x
        BY <2>1, <3>3, StepAbove DEF IsStrictPrefix
      <4>2. c \in DOMAIN o
        BY <1>1, <2>1, <4>1, PrefixIsThere
      <4>3. c \in Transformed(o, field)
        BY <2>2, <2>5, <4>1, <4>2 DEF Transformed
      <4>4. q = c
        BY <2>1, <4>1, <4>3 DEF Hides, IsStrictPrefix
      <4> QED
        BY <2>1, <4>3, <4>4 DEF Hides
    <3> QED
      BY <3>2, <3>3
  <2> QED
    BY <1>4, <2>3, <2>4, <2>5
<1>5. Covered(s, r, field)
  BY <1>4 DEF Covered
<1> QED
  BY <1>2, <1>3, <1>5

\* What a secret shows is its own: nothing outside of it shows it as well.
OwnTexts ==
    \A i \in DOMAIN Secrets : \A r \in ReachedBy(source, Secrets[i]) :
        source[r].kind \in {"string", "map"} => \A q \in Under(source, r) :
            /\ source[q].text \cap Markers = {}
            /\ \A p \in DOMAIN source \ Under(source, r) : source[q].text \cap source[p].text = {}

\* The inductive invariant of hiding: each node is the cluster's or hidden, and the
\* fields that the loops have been through are covered.
HiddenInv ==
    /\ pc \in {"mask", "encrypt"} => Veiled(source, obj)
    /\ pc = "mask" => \A i \in 1 .. done : Covered(source, obj, config.masked[i])
    /\ pc = "encrypt" => /\ \A i \in DOMAIN config.masked : Covered(source, obj, config.masked[i])
                         /\ \A i \in 1 .. done : Covered(source, obj, config.encrypted[i])
    /\ SecretsHidden

LEMMA SourceShape == TypeInv => WellFormed(source) /\ Plain(source)
BY FieldsAssumption DEF TypeInv, FieldsTypeOK, Plain

LEMMA HiddenMask == TypeInv /\ HiddenInv /\ Mask => HiddenInv'
<1> SUFFICES ASSUME TypeInv, HiddenInv, Mask PROVE HiddenInv'
  OBVIOUS
<1>1. /\ pc = "mask" /\ pc' = "mask" /\ config' = config /\ source' = source /\ done' = done + 1 /\ done \in Nat
      /\ WellFormed(obj) /\ WellFormed(source) /\ Plain(source) /\ Veiled(source, obj)
  BY SourceShape DEF Mask, TypeInv, FieldsTypeOK, HiddenInv
<1>2. PICK field : field = config.masked[done + 1]
  OBVIOUS
<1>3. Hides(obj, obj', field)
  BY <1>1, <1>2, MaskHides DEF Mask
<1>4. /\ Veiled(source, obj') /\ Covered(source, obj', field)
      /\ \A g : Covered(source, obj, g) => Covered(source, obj', g)
  <2>1. PICK s, o, r : s = source /\ o = obj /\ r = obj'
    OBVIOUS
  <2>2. Veiled(s, r) /\ Covered(s, r, field) /\ \A g : Covered(s, o, g) => Covered(s, r, g)
    BY <1>1, <1>3, <2>1, HidingVeils
  <2> QED
    BY <2>1, <2>2
<1>5. ASSUME NEW i \in 1 .. done + 1 PROVE Covered(source, obj', config.masked[i])
  <2>1. CASE i = done + 1
    BY <1>2, <1>4, <2>1
  <2>2. CASE i # done + 1
    <3>1. i \in 1 .. done
      BY <1>1, <2>2
    <3>2. Covered(source, obj, config.masked[i])
      BY <1>1, <3>1 DEF HiddenInv
    <3> QED
      BY <1>4, <3>2
  <2> QED
    BY <2>1, <2>2
<1>6. SecretsHidden'
  BY <1>1 DEF SecretsHidden
<1> QED
  BY <1>1, <1>4, <1>5, <1>6 DEF HiddenInv

LEMMA HiddenEncrypt == TypeInv /\ HiddenInv /\ Encrypt => HiddenInv'
<1> SUFFICES ASSUME TypeInv, HiddenInv, Encrypt PROVE HiddenInv'
  OBVIOUS
<1>1. /\ pc = "encrypt" /\ pc' = "encrypt" /\ config' = config /\ source' = source /\ done' = done + 1 /\ done \in Nat
      /\ WellFormed(obj) /\ WellFormed(source) /\ Plain(source) /\ Veiled(source, obj)
  BY SourceShape DEF Encrypt, TypeInv, FieldsTypeOK, HiddenInv
<1>2. PICK field, aesKey : field = config.encrypted[done + 1] /\ aesKey = config.aesKey /\ aesKey # "none"
  BY ListsShape DEF TypeInv, FieldsTypeOK
<1>3. Hides(obj, obj', field)
  BY <1>1, <1>2, EncryptHides DEF Encrypt
<1>4. /\ Veiled(source, obj') /\ Covered(source, obj', field)
      /\ \A g : Covered(source, obj, g) => Covered(source, obj', g)
  <2>1. PICK s, o, r : s = source /\ o = obj /\ r = obj'
    OBVIOUS
  <2>2. Veiled(s, r) /\ Covered(s, r, field) /\ \A g : Covered(s, o, g) => Covered(s, r, g)
    BY <1>1, <1>3, <2>1, HidingVeils
  <2> QED
    BY <2>1, <2>2
<1>5. ASSUME NEW i \in 1 .. done + 1 PROVE Covered(source, obj', config.encrypted[i])
  <2>1. CASE i = done + 1
    BY <1>2, <1>4, <2>1
  <2>2. CASE i # done + 1
    <3>1. i \in 1 .. done
      BY <1>1, <2>2
    <3>2. Covered(source, obj, config.encrypted[i])
      BY <1>1, <3>1 DEF HiddenInv
    <3> QED
      BY <1>4, <3>2
  <2> QED
    BY <2>1, <2>2
<1>6. ASSUME NEW i \in DOMAIN config.masked PROVE Covered(source, obj', config.masked[i])
  <2>1. Covered(source, obj, config.masked[i])
    BY <1>1 DEF HiddenInv
  <2> QED
    BY <1>4, <2>1
<1>7. SecretsHidden'
  BY <1>1 DEF SecretsHidden
<1> QED
  BY <1>1, <1>4, <1>5, <1>6, <1>7 DEF HiddenInv

\* When all secrets are covered none shows.
LEMMA CoveredIsHidden ==
    ASSUME TypeInv, OwnTexts, Veiled(source, obj),
           \A i \in DOMAIN config.masked : Covered(source, obj, config.masked[i]),
           \A i \in DOMAIN config.encrypted : Covered(source, obj, config.encrypted[i])
    PROVE  \A i \in DOMAIN Secrets : \A r \in ReachedBy(source, Secrets[i]) :
               source[r].kind \in {"string", "map"} =>
                   \A q \in Under(source, r), p \in DOMAIN obj : source[q].text \cap Shown(obj[p]) = {}
<1>1. SUFFICES ASSUME NEW i \in DOMAIN Secrets, NEW r \in ReachedBy(source, Secrets[i]),
                      source[r].kind \in {"string", "map"}, NEW q \in Under(source, r), NEW p \in DOMAIN obj
               PROVE  source[q].text \cap Shown(obj[p]) = {}
  OBVIOUS
<1>2. Covered(source, obj, Secrets[i])
  <2>1. PICK a \in Seq(Fieldset), b \in Seq(Fieldset) : a = config.masked /\ b = config.encrypted
    BY ListsShape DEF TypeInv, FieldsTypeOK
  <2>2. MadeOf(Secrets, a, b)
    BY <2>1, Parts DEF Secrets
  <2>3. (\E j \in DOMAIN a : Secrets[i] = a[j]) \/ (\E j \in DOMAIN b : Secrets[i] = b[j])
    BY <2>2 DEF MadeOf
  <2> QED
    BY <2>1, <2>3
<1>3. source[q].text \cap Markers = {}
  BY <1>1 DEF OwnTexts
<1>4. CASE Blind(obj[p])
  BY <1>3, <1>4 DEF Blind
<1>5. CASE ~ Blind(obj[p])
  <2>1. p \in DOMAIN source /\ obj[p] = source[p]
    BY <1>5 DEF Veiled
  <2>2. p \notin Under(source, r)
    BY <1>1, <1>2, <1>5 DEF Covered, Under
  <2>3. Shown(obj[p]) = source[p].text
    BY <2>1, SourceShape DEF Shown, Plain
  <2> QED
    BY <1>1, <2>1, <2>2, <2>3 DEF OwnTexts
<1> QED
  BY <1>4, <1>5

LEMMA HiddenProceed ==
    TypeInv /\ (Apart => PreservedInv) /\ Apart /\ OwnTexts /\ HiddenInv /\ Proceed => HiddenInv'
<1> SUFFICES ASSUME TypeInv, PreservedInv, OwnTexts, HiddenInv, Proceed PROVE HiddenInv'
  OBVIOUS
<1>1. config' = config /\ source' = source /\ obj' = obj /\ done' = 0 /\ Secrets' = Secrets
  BY DEF Proceed, Secrets
<1>2. 1 .. done' = {}
  BY <1>1
<1>3. CASE pc = "remove" /\ pc' = "restore"
  BY <1>3 DEF HiddenInv, SecretsHidden
<1>4. CASE pc = "restore" /\ pc' = "mask"
  <2>1. Cut(source, obj)
    BY <1>4 DEF PreservedInv
  <2>2. Veiled(source, obj)
    BY <2>1 DEF Cut, Veiled
  <2> QED
    BY <1>1, <1>2, <1>4, <2>2 DEF HiddenInv, SecretsHidden
<1>5. CASE pc = "mask" /\ pc' = "encrypt"
  <2>1. config.masked \in Seq(Fieldset) /\ done = Len(config.masked)
    BY <1>5, ListsShape DEF TypeInv, FieldsTypeOK, Proceed
  <2>2. DOMAIN config.masked = 1 .. done
    BY <2>1, LenProperties
  <2>3. Veiled(source, obj) /\ \A i \in DOMAIN config.masked : Covered(source, obj, config.masked[i])
    BY <1>5, <2>2 DEF HiddenInv
  <2> QED
    BY <1>1, <1>2, <1>5, <2>3 DEF HiddenInv, SecretsHidden
<1>6. CASE pc = "encrypt" /\ pc' = "sort"
  <2>1. config.encrypted \in Seq(Fieldset) /\ done = Len(config.encrypted)
    BY <1>6, ListsShape DEF TypeInv, FieldsTypeOK, Proceed
  <2>2. DOMAIN config.encrypted = 1 .. done
    BY <2>1, LenProperties
  <2>3. /\ Veiled(source, obj)
        /\ \A i \in DOMAIN config.masked : Covered(source, obj, config.masked[i])
        /\ \A i \in DOMAIN config.encrypted : Covered(source, obj, config.encrypted[i])
    BY <1>6, <2>2 DEF HiddenInv
  <2>4. SecretsHidden'
    BY <1>1, <2>3, CoveredIsHidden DEF SecretsHidden
  <2> QED
    BY <1>6, <2>4 DEF HiddenInv
<1>7. CASE pc = "sort" /\ pc' = "written"
  BY <1>1, <1>7 DEF HiddenInv, SecretsHidden
<1> QED
  BY <1>3, <1>4, <1>5, <1>6, <1>7 DEF Proceed

LEMMA HiddenSort == TypeInv /\ HiddenInv /\ Sort => HiddenInv'
<1> SUFFICES ASSUME TypeInv, HiddenInv, Sort PROVE HiddenInv'
  OBVIOUS
<1>1. /\ pc = "sort" /\ pc' \in {"sort", "panicked"} /\ config' = config /\ source' = source /\ Secrets' = Secrets
      /\ WellFormed(obj)
  BY DEF Sort, Secrets, TypeInv, FieldsTypeOK
<1>2. \A p \in DOMAIN obj' : \E q \in DOMAIN obj : obj'[p] = obj[q]
  <2>1. CASE obj' = obj
    BY <2>1
  <2>2. CASE obj' # obj
    <3>1. PICK f : /\ IsKeys(f) /\ Kind(obj, f) = "list"
                   /\ \E m \in Rearrangements(Elements(obj, f)) : obj' = Moved(obj, f, m)
      BY <2>2, SortResult
    <3>2. PICK m \in Rearrangements(Elements(obj, f)) : obj' = Moved(obj, f, m)
      BY <3>1
    <3>3. f \in Seq(STRING)
      BY <3>1 DEF IsKeys
    <3>4. /\ \A p : p \in DOMAIN Moved(obj, f, m) <=>
                 /\ p \in Seq(STRING)
                 /\ IF IsStrictPrefix(f, p)
                      THEN p[Len(f) + 1] \in Elements(obj, f) /\ Move(f, p, m.from) \in DOMAIN obj
                      ELSE p \in DOMAIN obj
          /\ \A p \in DOMAIN Moved(obj, f, m) :
                Moved(obj, f, m)[p] = IF IsStrictPrefix(f, p) THEN obj[Move(f, p, m.from)] ELSE obj[p]
      BY <1>1, <3>1, <3>3, MovedNodes
    <3> QED
      BY <3>2, <3>4
  <2> QED
    BY <2>1, <2>2
<1>3. SecretsHidden'
  BY <1>1, <1>2 DEF HiddenInv, SecretsHidden
<1> QED
  BY <1>1, <1>3 DEF HiddenInv

LEMMA HiddenInvIsInductive ==
    TypeInv /\ (Apart => PreservedInv) /\ (Apart /\ OwnTexts => HiddenInv) /\ [Next]_vars
        => (Apart /\ OwnTexts => HiddenInv)'
<1> SUFFICES ASSUME TypeInv, Apart => PreservedInv, Apart /\ OwnTexts => HiddenInv, [Next]_vars, Apart', OwnTexts'
             PROVE  HiddenInv'
  OBVIOUS
<1>1. config' = config /\ source' = source
  BY DEF vars, Next, Collect, Exclude, Restore, NextKey, Mask, Encrypt, Sort, Proceed, Decrypt
<1>2. Secrets' = Secrets /\ Restored' = Restored /\ Removals' = Removals
  BY <1>1 DEF Secrets, Restored, Removals
<1>3. OwnTexts /\ Apart
  <2>1. OwnTexts
    BY <1>1, <1>2 DEF OwnTexts
  <2>2. Apart' <=> Apart
    BY <1>1, <1>2, ZenonT(60) DEF Apart
  <2> QED
    BY <2>1, <2>2
<1>4. HiddenInv
  BY <1>3
<1>5. CASE UNCHANGED vars
  BY <1>2, <1>4, <1>5 DEF vars, HiddenInv, SecretsHidden
<1>6. CASE Collect \/ Exclude \/ Restore \/ NextKey \/ Decrypt
  BY <1>6 DEF HiddenInv, SecretsHidden, Collect, Exclude, Restore, NextKey, Decrypt
<1> QED
  BY <1>3, <1>4, <1>5, <1>6, HiddenMask, HiddenEncrypt, HiddenSort, HiddenProceed DEF Next

\* MaskFields and EncryptFields leave nothing of a string or map that is masked or
\* encrypted to be exported, if the preserved fields are apart (otherwise one may be set to
\* the value of another) and no other field of the object shows the same.
THEOREM SecretsAreHidden == Spec => [](Apart /\ OwnTexts => SecretsHidden)
<1>1. Init => (Apart /\ OwnTexts => HiddenInv)
  BY DEF Init, HiddenInv, SecretsHidden
<1>2. HiddenInv => SecretsHidden
  BY DEF HiddenInv
<1> QED
  BY PreservedAlways, HiddenInvIsInductive, <1>1, <1>2, PTL DEF Spec

-----------------------------------------------------------------------------
(* Sorting *)

\* What is left of s has the lists in it complete.
Lists(s, o) ==
    /\ WellFormed(o)
    /\ DOMAIN o \subseteq DOMAIN s
    /\ \A p \in DOMAIN s \ {<<>>} :
          Last(p) \in Positions /\ Kind(o, Front(p)) = "list" => p \in DOMAIN o /\ o[p] = s[p]

LEMMA CutHasLists == ASSUME NEW s, NEW o, Cut(s, o) PROVE Lists(s, o)
BY DEF Cut, Lists, Kind

LEMMA HidingKeepsLists ==
    ASSUME NEW s, WellFormed(s), NEW o, Lists(s, o), NEW field, NEW r, Hides(o, r, field)
    PROVE  Lists(s, r)
<1>1. WellFormed(o) /\ WellFormed(r) /\ DOMAIN r \subseteq DOMAIN s
  BY DEF Lists, Hides
<1>2. ASSUME NEW p \in DOMAIN s \ {<<>>}, Last(p) \in Positions, Kind(r, Front(p)) = "list"
      PROVE  p \in DOMAIN r /\ r[p] = s[p]
  <2>1. PICK a \in Seq(STRING) : a = Front(p) /\ p \in Seq(STRING) /\ p # <<>>
    BY FrontShape DEF WellFormed
  <2>2. a \in DOMAIN r /\ r[a].kind = "list"
    BY <1>2, <2>1 DEF Kind
  <2>3. a \notin Transformed(o, field) /\ r[a] = o[a] /\ a \in DOMAIN o
    BY <2>2 DEF Hides
  <2>4. p \in DOMAIN o /\ o[p] = s[p]
    BY <1>2, <2>1, <2>2, <2>3 DEF Lists, Kind
  <2>5. p \notin Transformed(o, field)
    BY <1>2, <2>1, <2>2, <2>3 DEF Transformed, ReachedBy, Reaches
  <2>6. ASSUME NEW t \in Transformed(o, field), IsStrictPrefix(t, p) PROVE FALSE
    <3>1. t \in Seq(STRING)
      BY <1>1, TargetsAreThere DEF WellFormed
    <3>2. IsPrefix(t, a)
      BY <2>1, <2>6, <3>1, StrictPrefix
    <3>3. t # a
      BY <2>3
    <3> QED
      BY <2>2, <2>3, <3>2, <3>3 DEF Hides, IsStrictPrefix
  <2> QED
    BY <2>4, <2>5, <2>6 DEF Hides
<1> QED
  BY <1>1, <1>2 DEF Lists

\* What sorting makes of a list, and when it is in order.
Arranged(s, o, f) ==
    /\ Elements(o, f) = Elements(s, f)
    /\ \E r \in Rearrangements(Elements(s, f)) :
          \A x \in Elements(s, f) : Element(o, f, x) = Element(s, f, r.from[x])
Kinds(s, f) == {Element(s, f, x).kind : x \in Elements(s, f)}
Orders(s, f) == {OrderOf(Element(s, f, x)) : x \in Elements(s, f)}
PlainSlice(s, f) ==
    \/ Kinds(s, f) \in {{"string"}, {"float"}}
    \/ Kinds(s, f) = {"int"} /\ \A a, b \in Orders(s, f) : Wrap(a - b) = a - b
InOrder(o, f) == \A x, y \in Elements(o, f) :
    Precedes(x, y) => OrderOf(Element(o, f, x)) <= OrderOf(Element(o, f, y))

\* A list that is complete is arranged as it was.
LEMMA ListIsArranged ==
    ASSUME NEW s, NEW o, Lists(s, o), NEW f \in Seq(STRING), Kind(o, f) = "list"
    PROVE  Arranged(s, o, f)
<1>1. ASSUME NEW x \in Positions, Append(f, x) \in DOMAIN s
      PROVE  Append(f, x) \in DOMAIN o /\ o[Append(f, x)] = s[Append(f, x)]
  <2>1. x \in STRING
    BY PositionsShape
  <2>2. PICK e \in Seq(STRING) : e = Append(f, x) /\ e # <<>> /\ Front(e) = f /\ Last(e) = x
    BY <2>1, StepBelow
  <2> QED
    BY <1>1, <2>2 DEF Lists
<1>2. PICK xs : xs = Elements(s, f) /\ Elements(o, f) = xs /\ \A x \in xs : Element(o, f, x) = Element(s, f, x)
  <2>1. \A x \in Elements(s, f) : Element(o, f, x) = Element(s, f, x)
    BY <1>1 DEF Elements, Element
  <2>2. \A x : x \in Elements(s, f) <=> x \in Elements(o, f)
    BY <1>1 DEF Elements, Lists
  <2>3. Elements(s, f) = Elements(o, f)
    BY <2>2
  <2> QED
    BY <2>1, <2>3
<1>3. PICK id \in [xs -> xs] : \A x \in xs : id[x] = x
  <2> DEFINE id == [x \in xs |-> x]
  <2>1. id \in [xs -> xs] /\ \A x \in xs : id[x] = x
    OBVIOUS
  <2> QED
    BY <2>1
<1>4. PICK r : r = [to |-> id, from |-> id]
  OBVIOUS
<1>5. r \in Rearrangements(xs) /\ r.from = id
  BY <1>3, <1>4 DEF Rearrangements
<1> QED
  BY <1>2, <1>3, <1>5 DEF Arranged

\* Rearranging what is rearranged.
LEMMA RearrangedTwice ==
    ASSUME NEW xs, NEW r \in Rearrangements(xs), NEW m \in Rearrangements(xs)
    PROVE  \E q \in Rearrangements(xs) : \A x \in xs : q.from[x] = r.from[m.from[x]]
<1>1. /\ r.to \in [xs -> xs] /\ r.from \in [xs -> xs] /\ m.to \in [xs -> xs] /\ m.from \in [xs -> xs]
      /\ \A x \in xs : r.from[r.to[x]] = x /\ r.to[r.from[x]] = x
      /\ \A x \in xs : m.from[m.to[x]] = x /\ m.to[m.from[x]] = x
  BY RearrangementShape
<1>2. PICK to \in [xs -> xs], from \in [xs -> xs] :
         \A x \in xs : to[x] = m.to[r.to[x]] /\ from[x] = r.from[m.from[x]]
  <2> DEFINE to == [x \in xs |-> m.to[r.to[x]]]
             from == [x \in xs |-> r.from[m.from[x]]]
  <2>1. /\ to \in [xs -> xs] /\ from \in [xs -> xs]
        /\ \A x \in xs : to[x] = m.to[r.to[x]] /\ from[x] = r.from[m.from[x]]
    BY <1>1
  <2> HIDE DEF to, from
  <2> QED
    BY <2>1
<1>3. ASSUME NEW x \in xs PROVE from[to[x]] = x /\ to[from[x]] = x
  <2>1. PICK y \in xs, z \in xs : y = r.to[x] /\ z = m.to[y] /\ r.from[y] = x /\ m.from[z] = y
    BY <1>1
  <2>2. PICK u \in xs, v \in xs : u = m.from[x] /\ v = r.from[u] /\ r.to[v] = u /\ m.to[u] = x
    BY <1>1
  <2> QED
    BY <1>2, <2>1, <2>2
<1>4. PICK q : q = [to |-> to, from |-> from]
  OBVIOUS
<1>5. q \in Rearrangements(xs) /\ q.from = from
  BY <1>2, <1>3, <1>4 DEF Rearrangements
<1> QED
  BY <1>2, <1>5

\* A list that has elements has one at the first position.
LEMMA FirstElement ==
    ASSUME NEW o, WellFormed(o), NEW f \in Seq(STRING), Elements(o, f) # {}
    PROVE  Index[1] \in Elements(o, f)
<1>1. Len(Index) \in Nat /\ DOMAIN Index = 1 .. Len(Index)
  BY IndexAssumption, LenProperties
<1> DEFINE S == {i \in 1 .. Len(Index) : Index[i] \in Elements(o, f)}
<1>2. S \in SUBSET Nat /\ S # {}
  BY <1>1 DEF Elements, Positions
<1>3. PICK n \in S : \A m \in S : n <= m
  <2> HIDE DEF S
  <2> QED
    BY <1>2, LeastOf
<1>4. CASE n = 1
  BY <1>4
<1>5. CASE n # 1
  <2>1. n \in 2 .. Len(Index) /\ n - 1 \in 1 .. Len(Index) /\ ~ (n <= n - 1)
    BY <1>1, <1>5
  <2>2. PICK x \in Positions : x = Index[n] /\ Append(f, x) \in DOMAIN o
    BY <1>1, <2>1 DEF Elements
  <2>3. PICK e \in Seq(STRING) : e = Append(f, x) /\ e # <<>> /\ Front(e) = f /\ Last(e) = x
    BY <2>2, PositionsShape, StepBelow
  <2>4. f \o <<Index[n - 1]>> \in DOMAIN o
    BY <2>1, <2>2, <2>3 DEF WellFormed
  <2>5. Index[n - 1] \in Positions /\ Index[n - 1] \in STRING
    BY <1>1, <2>1, PositionsShape DEF Positions
  <2>6. Append(f, Index[n - 1]) = f \o <<Index[n - 1]>>
    BY <2>5, StepBelow
  <2>7. n - 1 \in S
    BY <2>1, <2>4, <2>5, <2>6 DEF Elements
  <2> HIDE DEF S
  <2> QED
    BY <1>3, <2>1, <2>7
<1> QED
  BY <1>4, <1>5

\* What a plain slice has are elements of one type, which are compared by the
\* difference of their orders.
LEMMA PlainSliceCompares ==
    ASSUME NEW s \in Sources, NEW f, PlainSlice(s, f)
    PROVE  /\ \A x \in Elements(s, f) : OrderOf(Element(s, f, x)) \in Int
           /\ \A x, y \in Elements(s, f) : Element(s, f, x).kind = Element(s, f, y).kind
           /\ \A x \in Elements(s, f) : Element(s, f, x).kind \in Typed
           /\ \A x, y, z \in Elements(s, f) :
                 LET a == OrderOf(Element(s, f, x))
                     b == OrderOf(Element(s, f, y))
                 IN  Compare(Element(s, f, z).kind, a, b) = a - b
<1>1. ASSUME NEW x \in Elements(s, f) PROVE OrderOf(Element(s, f, x)) \in Int
  <2>1. PICK n : n = Element(s, f, x) /\ \A a \in n.text : Value[a] \in Int
    BY FieldsAssumption DEF Elements, Element
  <2>2. CASE n.text = {}
    BY <2>1, <2>2, FieldsAssumption DEF OrderOf
  <2>3. CASE n.text # {}
    <3>1. (CHOOSE a \in n.text : TRUE) \in n.text
      BY <2>3
    <3> QED
      BY <2>1, <2>3, <3>1 DEF OrderOf
  <2> QED
    BY <2>2, <2>3
<1>2. \A x \in Elements(s, f) : Element(s, f, x).kind \in Kinds(s, f) /\ OrderOf(Element(s, f, x)) \in Orders(s, f)
  BY DEF Kinds, Orders
<1>3. PICK k \in Typed : /\ Kinds(s, f) = {k}
                         /\ k = "int" => \A a, b \in Orders(s, f) : Wrap(a - b) = a - b
  BY DEF PlainSlice, Typed
<1>4. \A x \in Elements(s, f) : Element(s, f, x).kind = k
  BY <1>2, <1>3
<1>5. \A a, b \in Orders(s, f) : Compare(k, a, b) = a - b
  BY <1>3 DEF Compare
<1> QED
  BY <1>1, <1>2, <1>3, <1>4, <1>5

\* Sorting puts a plain slice in order, however it is arranged.
LEMMA SortingOrders ==
    ASSUME NEW s \in Sources, NEW o, WellFormed(o), NEW f \in Seq(STRING), PlainSlice(s, f),
           Arranged(s, o, f), NEW m \in Sorted(o, f)
    PROVE  \A x, y \in Elements(o, f) : Precedes(x, y) =>
              OrderOf(Element(o, f, m.from[x])) <= OrderOf(Element(o, f, m.from[y]))
<1>1. PICK xs : xs = Elements(o, f) /\ xs = Elements(s, f)
  BY DEF Arranged
<1>2. PICK r \in Rearrangements(xs) : \A x \in xs : Element(o, f, x) = Element(s, f, r.from[x])
  BY <1>1 DEF Arranged
<1>3. r.from \in [xs -> xs]
  BY <1>2, RearrangementShape
<1> DEFINE ord(x) == OrderOf(Element(o, f, x))
           kind == Element(o, f, Index[1]).kind
           less(x, y) == Compare(kind, ord(x), ord(y)) < 0
           isOrder == \A x, y, z \in xs : less(x, y) => ~ less(y, x) /\ (less(x, z) \/ less(z, y))
<1>4. \A x \in xs : ord(x) \in Int
  BY <1>1, <1>2, <1>3, PlainSliceCompares
<1>5. CASE xs = {}
  BY <1>1, <1>5
<1>6. CASE xs # {}
  <2>1. Index[1] \in xs
    BY <1>1, <1>6, FirstElement
  <2>2. kind \in Typed
    BY <1>1, <1>2, <1>3, <2>1, PlainSliceCompares
  <2>3. ASSUME NEW x \in xs, NEW y \in xs PROVE Compare(kind, ord(x), ord(y)) = ord(x) - ord(y)
    <3>1. PICK u \in xs, v \in xs, w \in xs : u = r.from[x] /\ v = r.from[y] /\ w = r.from[Index[1]]
      BY <1>3, <2>1
    <3>2. /\ Element(o, f, x) = Element(s, f, u) /\ Element(o, f, y) = Element(s, f, v)
          /\ Element(o, f, Index[1]) = Element(s, f, w)
      BY <1>2, <2>1, <3>1
    <3>3. LET a == OrderOf(Element(s, f, u))
              b == OrderOf(Element(s, f, v))
          IN  Compare(Element(s, f, w).kind, a, b) = a - b
      BY <1>1, PlainSliceCompares
    <3> QED
      BY <3>2, <3>3
  <2> HIDE DEF ord, kind
  <2>4. \A x, y \in xs : less(x, y) <=> ord(x) - ord(y) < 0
    BY <2>3
  <2>5. isOrder
    <3>1. ASSUME NEW x \in xs, NEW y \in xs, NEW z \in xs, less(x, y) PROVE ~ less(y, x) /\ (less(x, z) \/ less(z, y))
      <4>1. PICK a \in Int, b \in Int, c \in Int : a = ord(x) /\ b = ord(y) /\ c = ord(z)
        BY <1>4
      <4>2. /\ less(x, y) <=> a - b < 0
            /\ less(y, x) <=> b - a < 0
            /\ less(x, z) <=> a - c < 0
            /\ less(z, y) <=> c - b < 0
        BY <2>4, <4>1
      <4> HIDE DEF less
      <4>3. a - b < 0
        BY <3>1, <4>2
      <4>4. ~ (b - a < 0) /\ (a - c < 0 \/ c - b < 0)
        BY <4>3
      <4> QED
        BY <4>2, <4>4
    <3> QED
      BY <3>1
  <2>6. /\ m \in Rearrangements(xs)
        /\ kind \in Typed /\ isOrder => \A x, y \in xs : Precedes(x, y) => ~ less(m.from[y], m.from[x])
    <3> HIDE DEF isOrder
    <3> QED
      BY <1>1 DEF Sorted, isOrder, less, ord, kind
  <2>7. m.from \in [xs -> xs]
    BY <2>6, RearrangementShape
  <2>8. ASSUME NEW x \in xs, NEW y \in xs, Precedes(x, y) PROVE ord(m.from[x]) <= ord(m.from[y])
    <3>1. PICK u \in xs, v \in xs : u = m.from[x] /\ v = m.from[y]
      BY <2>7
    <3>2. ~ less(v, u)
      BY <2>2, <2>5, <2>6, <2>8, <3>1
    <3>3. ~ (ord(v) - ord(u) < 0)
      BY <2>4, <3>2
    <3>4. PICK a \in Int, b \in Int : a = ord(u) /\ b = ord(v)
      BY <1>4
    <3> QED
      BY <3>1, <3>3, <3>4
  <2> QED
    BY <1>1, <2>8 DEF ord
<1> QED
  BY <1>5, <1>6

\* A list is what it was when another one is rearranged.
LEMMA MovedElsewhere ==
    ASSUME NEW o, WellFormed(o), NEW g \in Seq(STRING), Kind(o, g) = "list",
           NEW m \in Rearrangements(Elements(o, g)), NEW f, IsKeys(f), f # g,
           NEW r, r = Moved(o, g, m), Kind(r, f) = "list"
    PROVE  /\ Kind(o, f) = "list" /\ Elements(r, f) = Elements(o, f)
           /\ \A x \in Elements(o, f) : Element(r, f, x) = Element(o, f, x)
<1>1. /\ \A p : p \in DOMAIN r <=>
            /\ p \in Seq(STRING)
            /\ IF IsStrictPrefix(g, p)
                 THEN p[Len(g) + 1] \in Elements(o, g) /\ Move(g, p, m.from) \in DOMAIN o
                 ELSE p \in DOMAIN o
      /\ \A p \in DOMAIN r : r[p] = IF IsStrictPrefix(g, p) THEN o[Move(g, p, m.from)] ELSE o[p]
  BY MovedNodes
<1>2. f \in Seq(STRING) /\ f \in DOMAIN r
  BY DEF IsKeys, Kind
<1>3. ~ IsStrictPrefix(g, f)
  <2>1. SUFFICES ASSUME IsStrictPrefix(g, f) PROVE FALSE
    OBVIOUS
  <2>2. f[Len(g) + 1] \in Positions
    BY <1>1, <1>2, <2>1 DEF Elements
  <2>3. Len(g) + 1 \in 1 .. Len(f)
    <3>1. Len(g) \in Nat /\ Len(f) \in Nat /\ IsPrefix(g, f)
      BY <1>2, <2>1, LenProperties DEF IsStrictPrefix
    <3>2. Len(g) <= Len(f) /\ \A i \in 1 .. Len(g) : g[i] = f[i]
      BY <1>2, <3>1, PrefixSteps
    <3>3. Len(g) # Len(f)
      BY <1>2, <3>1, <3>2, SeqEqual
    <3> QED
      BY <3>1, <3>2, <3>3
  <2> QED
    BY <2>2, <2>3 DEF IsKeys
<1>4. Kind(o, f) = "list"
  BY <1>1, <1>2, <1>3 DEF Kind
<1>5. ASSUME NEW x \in Positions
      PROVE  /\ Append(f, x) \in DOMAIN r <=> Append(f, x) \in DOMAIN o
             /\ Append(f, x) \in DOMAIN r => r[Append(f, x)] = o[Append(f, x)]
  <2>1. PICK e \in Seq(STRING) : e = Append(f, x) /\ e # <<>> /\ Front(e) = f
    BY <1>2, PositionsShape, StepBelow
  <2>2. ~ IsStrictPrefix(g, e)
    <3>1. IsStrictPrefix(g, e) => IsPrefix(g, f)
      BY <2>1, StrictPrefix
    <3> QED
      BY <1>3, <3>1 DEF IsStrictPrefix
  <2> QED
    BY <1>1, <2>1, <2>2
<1>6. \A x : x \in Elements(r, f) <=> x \in Elements(o, f)
  BY <1>5 DEF Elements
<1> QED
  BY <1>4, <1>5, <1>6 DEF Elements, Element

\* The inductive invariant of sorting: the lists are complete until they are sorted,
\* then they are rearranged, and the ones that the loop has been through are in order.
SortingInv ==
    /\ pc \in {"mask", "encrypt"} => Lists(source, obj)
    /\ pc = "sort" => \A i \in DOMAIN config.sorted :
          Kind(obj, config.sorted[i]) = "list" =>
              /\ Arranged(source, obj, config.sorted[i])
              /\ i \in 1 .. done /\ PlainSlice(source, config.sorted[i]) => InOrder(obj, config.sorted[i])
    /\ SlicesSorted

SlicesInOrder ==
    /\ pc = "written" => \A i \in DOMAIN config.sorted :
          Kind(obj, config.sorted[i]) = "list" /\ PlainSlice(source, config.sorted[i]) =>
              InOrder(obj, config.sorted[i]) /\ Arranged(source, obj, config.sorted[i])
    /\ pc = "panicked" => \E i \in DOMAIN config.sorted :
          \E k, l \in Kinds(source, config.sorted[i]) : k # l

LEMMA SlicesSortedMeans == SlicesSorted <=> SlicesInOrder
<1>1. \A f : Arranged(source, obj, f) <=>
         /\ Elements(obj, f) = Elements(source, f)
         /\ \E r \in Rearrangements(Elements(source, f)) : \A x \in Elements(source, f) :
               Append(f, x) \in DOMAIN obj /\ Element(obj, f, x) = Element(source, f, r.from[x])
  BY DEF Arranged, Elements
<1> QED
  BY <1>1 DEF SlicesSorted, SlicesInOrder, InOrder, PlainSlice, Kinds, Orders

\* What one rearrangement makes of a list that is in the object.
LEMMA SortedOnce ==
    ASSUME NEW s \in Sources, NEW o, WellFormed(o), NEW g, IsKeys(g), Kind(o, g) = "list",
           NEW m \in Sorted(o, g), NEW r, r = Moved(o, g, m),
           NEW f, IsKeys(f), Kind(r, f) = "list", Kind(o, f) = "list" => Arranged(s, o, f)
    PROVE  /\ Kind(o, f) = "list" /\ Arranged(s, r, f)
           /\ PlainSlice(s, f) /\ (f = g \/ InOrder(o, f)) => InOrder(r, f)
<1>1. m \in Rearrangements(Elements(o, g)) /\ g \in Seq(STRING)
  BY DEF Sorted, IsKeys
<1>2. CASE f = g
  <2>1. PICK xs : xs = Elements(o, f) /\ xs = Elements(s, f)
    BY <1>2 DEF Arranged
  <2>2. /\ Elements(r, f) = xs
        /\ \A x \in xs : m.from[x] \in xs /\ Element(r, f, x) = Element(o, f, m.from[x])
    <3>1. f \in Seq(STRING) /\ Kind(o, f) = "list" /\ m \in Rearrangements(Elements(o, f)) /\ r = Moved(o, f, m)
      BY <1>1, <1>2
    <3>2. LET n == Moved(o, f, m) IN
          /\ Elements(n, f) = Elements(o, f)
          /\ \A x \in Elements(o, f) : m.from[x] \in Elements(o, f) /\ Element(n, f, x) = Element(o, f, m.from[x])
      BY <3>1, MovedKeepsWellFormed
    <3> QED
      BY <2>1, <3>1, <3>2
  <2>3. PICK a \in Rearrangements(xs) : \A x \in xs : Element(o, f, x) = Element(s, f, a.from[x])
    BY <1>2, <2>1 DEF Arranged
  <2>4. PICK q \in Rearrangements(xs) : \A x \in xs : q.from[x] = a.from[m.from[x]]
    BY <1>1, <1>2, <2>1, RearrangedTwice
  <2>5. Arranged(s, r, f)
    BY <2>1, <2>2, <2>3, <2>4 DEF Arranged
  <2>6. ASSUME PlainSlice(s, f) PROVE InOrder(r, f)
    <3>1. \A x, y \in xs : Precedes(x, y) =>
             OrderOf(Element(o, f, m.from[x])) <= OrderOf(Element(o, f, m.from[y]))
      BY <1>1, <1>2, <2>1, <2>6, SortingOrders
    <3> QED
      BY <2>2, <3>1 DEF InOrder
  <2> QED
    BY <1>2, <2>5, <2>6
<1>3. CASE f # g
  <2>1. /\ Kind(o, f) = "list" /\ Elements(r, f) = Elements(o, f)
        /\ \A x \in Elements(o, f) : Element(r, f, x) = Element(o, f, x)
    BY <1>1, <1>3, MovedElsewhere
  <2>2. Arranged(s, r, f)
    BY <2>1 DEF Arranged
  <2>3. InOrder(o, f) => InOrder(r, f)
    BY <2>1 DEF InOrder
  <2> QED
    BY <1>3, <2>1, <2>2, <2>3
<1> QED
  BY <1>2, <1>3

LEMMA SortingSort == TypeInv /\ SortingInv /\ Sort => SortingInv'
<1> SUFFICES ASSUME TypeInv, SortingInv, Sort PROVE SortingInv'
  OBVIOUS
<1>1. /\ pc = "sort" /\ pc' \in {"sort", "panicked"} /\ config' = config /\ source' = source
      /\ done' = done + 1 /\ done \in Nat /\ WellFormed(obj) /\ source \in Sources
  BY DEF Sort, TypeInv, FieldsTypeOK
<1>2. PICK g : g = config.sorted[done + 1] /\ IsKeys(g) /\ g \in Seq(STRING) /\ done + 1 \in DOMAIN config.sorted
  BY SortResult DEF IsKeys
<1>3. \A i \in DOMAIN config.sorted : IsKeys(config.sorted[i])
  <2>1. config.sorted \in Seq(Fieldset)
    BY ListsShape DEF TypeInv, FieldsTypeOK
  <2> QED
    BY <2>1, FieldsShape
<1>4. \A i \in 1 .. done + 1 : i \in 1 .. done \/ i = done + 1
  BY <1>1
<1>5. CASE Kind(obj, g) # "list" \/ Elements(obj, g) = {}
  <2>1. obj' = obj /\ pc' = pc
    BY <1>2, <1>5 DEF Sort
  <2>2. Kind(obj, g) = "list" => InOrder(obj, g)
    BY <1>5 DEF InOrder
  <2>3. ASSUME NEW i \in DOMAIN config.sorted, Kind(obj, config.sorted[i]) = "list"
        PROVE  /\ Arranged(source, obj, config.sorted[i])
               /\ i \in 1 .. done + 1 /\ PlainSlice(source, config.sorted[i]) => InOrder(obj, config.sorted[i])
    BY <1>1, <1>2, <1>4, <2>2, <2>3 DEF SortingInv
  <2>4. SlicesSorted'
    BY <1>1, <2>1 DEF SlicesSorted
  <2> QED
    BY <1>1, <2>1, <2>3, <2>4 DEF SortingInv
<1>6. CASE Kind(obj, g) = "list" /\ Elements(obj, g) # {} /\ Panics(obj, g)
  <2>1. obj' = obj /\ pc' = "panicked"
    BY <1>2, <1>6 DEF Sort
  <2>2. Arranged(source, obj, g)
    BY <1>1, <1>2, <1>6 DEF SortingInv
  <2>3. PICK xs : xs = Elements(obj, g) /\ xs = Elements(source, g)
    BY <2>2 DEF Arranged
  <2>4. PICK r \in Rearrangements(xs) : \A x \in xs : Element(obj, g, x) = Element(source, g, r.from[x])
    BY <2>2, <2>3 DEF Arranged
  <2>5. r.from \in [xs -> xs] /\ Index[1] \in xs
    BY <1>1, <1>2, <1>6, <2>3, <2>4, RearrangementShape, FirstElement
  <2>6. PICK x \in xs : Element(obj, g, x).kind # Element(obj, g, Index[1]).kind
    BY <1>6, <2>3 DEF Panics
  <2>7. \A y \in xs : Element(obj, g, y).kind \in Kinds(source, g)
    BY <2>3, <2>4, <2>5 DEF Kinds
  <2>8. \E i \in DOMAIN config.sorted : \E k, l \in Kinds(source, config.sorted[i]) : k # l
    <3>1. PICK k, l : k \in Kinds(source, g) /\ l \in Kinds(source, g) /\ k # l
      BY <2>5, <2>6, <2>7
    <3> QED
      BY <1>2, <3>1
  <2>9. SlicesSorted'
    BY <1>1, <2>1, <2>8 DEF SlicesSorted, Kinds
  <2> QED
    BY <2>1, <2>9 DEF SortingInv
<1>7. CASE Kind(obj, g) = "list" /\ Elements(obj, g) # {} /\ ~ Panics(obj, g)
  <2>1. PICK m \in Sorted(obj, g) : obj' = Moved(obj, g, m) /\ pc' = pc
    BY <1>2, <1>7 DEF Sort
  <2>2. PICK o, r, s : o = obj /\ r = obj' /\ s = source /\ s \in Sources /\ WellFormed(o) /\ Kind(o, g) = "list"
                      /\ m \in Sorted(o, g) /\ r = Moved(o, g, m)
    BY <1>1, <1>7, <2>1
  <2>3. ASSUME NEW i \in DOMAIN config.sorted, Kind(r, config.sorted[i]) = "list"
        PROVE  /\ Arranged(s, r, config.sorted[i])
               /\ i \in 1 .. done + 1 /\ PlainSlice(s, config.sorted[i]) => InOrder(r, config.sorted[i])
    <3>1. PICK f : f = config.sorted[i] /\ IsKeys(f)
      BY <1>3
    <3>2. /\ Kind(o, f) = "list" => Arranged(s, o, f)
          /\ Kind(o, f) = "list" /\ i \in 1 .. done /\ PlainSlice(s, f) => InOrder(o, f)
      BY <1>1, <2>2, <3>1 DEF SortingInv
    <3>3. /\ Kind(o, f) = "list" /\ Arranged(s, r, f)
          /\ PlainSlice(s, f) /\ (f = g \/ InOrder(o, f)) => InOrder(r, f)
      BY <1>2, <2>2, <2>3, <3>1, <3>2, SortedOnce
    <3>4. i = done + 1 => f = g
      BY <1>2, <3>1
    <3> QED
      BY <1>4, <3>1, <3>2, <3>3, <3>4
  <2>4. SlicesSorted'
    BY <1>1, <2>1 DEF SlicesSorted
  <2> QED
    BY <1>1, <2>1, <2>2, <2>3, <2>4 DEF SortingInv
<1> QED
  BY <1>5, <1>6, <1>7

LEMMA SortingProceed ==
    TypeInv /\ PreservedInv /\ SortingInv /\ Proceed => SortingInv'
<1> SUFFICES ASSUME TypeInv, PreservedInv, SortingInv, Proceed PROVE SortingInv'
  OBVIOUS
<1>1. config' = config /\ source' = source /\ obj' = obj /\ done' = 0 /\ 1 .. done' = {}
  BY DEF Proceed
<1>2. config.sorted \in Seq(Fieldset)
  BY ListsShape DEF TypeInv, FieldsTypeOK
<1>3. CASE pc = "remove" /\ pc' = "restore"
  BY <1>3 DEF SortingInv, SlicesSorted
<1>4. CASE pc = "restore" /\ pc' = "mask"
  <2>1. Lists(source, obj)
    BY <1>4, CutHasLists DEF PreservedInv
  <2> QED
    BY <1>1, <1>4, <2>1 DEF SortingInv, SlicesSorted
<1>5. CASE pc = "mask" /\ pc' = "encrypt"
  BY <1>1, <1>5 DEF SortingInv, SlicesSorted
<1>6. CASE pc = "encrypt" /\ pc' = "sort"
  <2>1. PICK s, o : s = source /\ o = obj /\ Lists(s, o)
    BY <1>6 DEF SortingInv
  <2>2. \A i \in DOMAIN config.sorted : config.sorted[i] \in Seq(STRING)
    BY <1>2, FieldsShape DEF IsKeys
  <2>3. \A i \in DOMAIN config.sorted :
           Kind(o, config.sorted[i]) = "list" => Arranged(s, o, config.sorted[i])
    BY <2>1, <2>2, ListIsArranged
  <2> QED
    BY <1>1, <1>6, <2>1, <2>3 DEF SortingInv, SlicesSorted
<1>7. CASE pc = "sort" /\ pc' = "written"
  <2>1. DOMAIN config.sorted = 1 .. done
    BY <1>2, <1>7, LenProperties DEF Proceed
  <2>2. \A i \in DOMAIN config.sorted :
           Kind(obj, config.sorted[i]) = "list" /\ PlainSlice(source, config.sorted[i]) =>
               InOrder(obj, config.sorted[i]) /\ Arranged(source, obj, config.sorted[i])
    BY <1>7, <2>1 DEF SortingInv
  <2>3. SlicesSorted' <=> SlicesInOrder'
    BY SlicesSortedMeans, PTL
  <2>4. SlicesInOrder'
    BY <1>1, <1>7, <2>2 DEF SlicesInOrder
  <2> QED
    BY <1>7, <2>3, <2>4 DEF SortingInv
<1> QED
  BY <1>3, <1>4, <1>5, <1>6, <1>7 DEF Proceed

LEMMA SortingInvIsInductive ==
    TypeInv /\ (Apart => PreservedInv) /\ (Apart => SortingInv) /\ [Next]_vars => (Apart => SortingInv)'
<1> SUFFICES ASSUME TypeInv, Apart => PreservedInv, Apart => SortingInv, [Next]_vars, Apart' PROVE SortingInv'
  OBVIOUS
<1>1. config' = config /\ source' = source
  BY DEF vars, Next, Collect, Exclude, Restore, NextKey, Mask, Encrypt, Sort, Proceed, Decrypt
<1>2. PreservedInv /\ SortingInv
  <2>1. Restored' = Restored /\ Removals' = Removals
    BY <1>1 DEF Restored, Removals
  <2>2. Apart' <=> Apart
    BY <1>1, <2>1, ZenonT(60) DEF Apart
  <2> QED
    BY <2>2
<1>3. CASE UNCHANGED vars
  <2>1. SlicesInOrder
    BY <1>2, SlicesSortedMeans DEF SortingInv
  <2>2. SlicesInOrder'
    BY <1>3, <2>1 DEF vars, SlicesInOrder
  <2>3. SlicesSorted' <=> SlicesInOrder'
    BY SlicesSortedMeans, PTL
  <2> QED
    BY <1>2, <1>3, <2>2, <2>3 DEF vars, SortingInv
<1>4. CASE Collect \/ Exclude \/ Restore \/ NextKey \/ Decrypt
  BY <1>4 DEF SortingInv, SlicesSorted, Collect, Exclude, Restore, NextKey, Decrypt
<1>5. ASSUME pc \in {"mask", "encrypt"}, pc' = pc, \E field : Hides(obj, obj', field) PROVE SortingInv'
  <2>1. PICK s, o, r, field : s = source /\ o = obj /\ r = obj' /\ Hides(o, r, field)
    BY <1>5
  <2>2. Lists(s, o) /\ WellFormed(s)
    BY <1>2, <1>5, <2>1, SourceShape DEF SortingInv
  <2>3. Lists(s, r)
    BY <2>1, <2>2, HidingKeepsLists
  <2> QED
    BY <1>1, <1>5, <2>1, <2>3 DEF SortingInv, SlicesSorted
<1>6. CASE Mask
  <2>1. WellFormed(obj) /\ pc = "mask" /\ pc' = pc
    BY <1>6 DEF Mask, TypeInv, FieldsTypeOK
  <2> QED
    BY <1>5, <1>6, <2>1, MaskHides DEF Mask
<1>7. CASE Encrypt
  <2>1. WellFormed(obj) /\ pc = "encrypt" /\ pc' = pc /\ config.aesKey # "none"
    BY <1>7, ListsShape DEF Encrypt, TypeInv, FieldsTypeOK
  <2> QED
    BY <1>5, <1>7, <2>1, EncryptHides DEF Encrypt
<1> QED
  BY <1>2, <1>3, <1>4, <1>6, <1>7, SortingSort, SortingProceed DEF Next

\* SortSliceFields exports a list of strings, floats or integers in order and complete,
\* and ends the process only for a list of several types, if the preserved fields are
\* apart (otherwise one may be set to the list of another).
THEOREM SlicesAreSorted == Spec => [](Apart => SlicesSorted)
<1>1. Init => (Apart => SortingInv)
  BY DEF Init, SortingInv, SlicesSorted
<1>2. SortingInv => SlicesSorted
  BY DEF SortingInv
<1> QED
  BY PreservedAlways, SortingInvIsInductive, <1>1, <1>2, PTL DEF Spec
===============================================================================
