--------------------------- MODULE EventQueryProofs ---------------------------
(***************************************************************************)
(* Proofs about EventQuery, for every table, every filter and all widths   *)
(* of limit and offset: an answer is the window that was asked for, and    *)
(* pages add up to the list.                                               *)
(***************************************************************************)
EXTENDS EventQuery, EventFilterProofs

-------------------------------------------------------------------------------
(* Windows of a sequence.                                                  *)

\* An injective sequence lists as many elements as it is long.
LEMMA SizeOfList ==
  ASSUME NEW S, NEW s \in Seq(S), IsInjective(s)
  PROVE  IsFiniteSet(ToSet(s)) /\ Cardinality(ToSet(s)) = Len(s)
<1>1. Len(s) \in Nat /\ DOMAIN s = 1 .. Len(s)
  OBVIOUS
<1>2. s \in Bijection(1 .. Len(s), ToSet(s))
  BY <1>1 DEF Bijection, Injection, Surjection, IsInjective, ToSet
<1>3. IsFiniteSet(1 .. Len(s)) /\ Cardinality(1 .. Len(s)) = Len(s)
  BY <1>1, FS_Interval
<1>4. QED BY <1>2, <1>3, FS_Bijection DEF ExistsBijection

\* A part of an injective sequence.
Elements(s, a, b) == {s[i] : i \in a .. b}

LEMMA Part ==
  ASSUME NEW S, NEW s \in Seq(S), IsInjective(s),
         NEW a \in 1 .. Len(s) + 1, NEW b \in a - 1 .. Len(s)
  PROVE  /\ SubSeq(s, a, b) \in Seq(S) /\ Len(SubSeq(s, a, b)) = b - a + 1
         /\ \A i \in 1 .. b - a + 1 : SubSeq(s, a, b)[i] = s[a + i - 1]
         /\ IsInjective(SubSeq(s, a, b))
         /\ ToSet(SubSeq(s, a, b)) = Elements(s, a, b)
<1> DEFINE t == SubSeq(s, a, b)
<1>1. Len(s) \in Nat /\ DOMAIN s = 1 .. Len(s) /\ \A i \in 1 .. Len(s) : s[i] \in S
  OBVIOUS
<1>2. a \in Int /\ b \in Int /\ \A i \in a .. b : s[i] \in S
  BY <1>1
<1>3. /\ t \in Seq(S) /\ Len(t) = b - a + 1
      /\ \A i \in 1 .. b - a + 1 : t[i] = s[a + i - 1]
  BY <1>2, SubSeqProperties
<1>4. DOMAIN t = 1 .. b - a + 1
  BY <1>3
<1>5. \A i, j \in DOMAIN s : s[i] = s[j] => i = j
  BY DEF IsInjective
<1>6. \A i, j \in DOMAIN t : t[i] = t[j] => i = j
  <2>1. TAKE i, j \in DOMAIN t
  <2>2. a + i - 1 \in DOMAIN s /\ a + j - 1 \in DOMAIN s
    BY <1>1, <1>4
  <2>3. t[i] = s[a + i - 1] /\ t[j] = s[a + j - 1]
    BY <1>3, <1>4
  <2>4. QED BY <1>4, <1>5, <2>2, <2>3
<1>7. ToSet(t) \subseteq {s[i] : i \in a .. b}
  <2>1. SUFFICES ASSUME NEW i \in DOMAIN t PROVE t[i] \in {s[k] : k \in a .. b}
    BY DEF ToSet
  <2>2. a + i - 1 \in a .. b
    BY <1>4
  <2>3. QED BY <1>3, <1>4, <2>2
<1>8. {s[i] : i \in a .. b} \subseteq ToSet(t)
  <2>1. SUFFICES ASSUME NEW k \in a .. b PROVE s[k] \in ToSet(t)
    OBVIOUS
  <2>2. k - a + 1 \in DOMAIN t /\ a + (k - a + 1) - 1 = k
    BY <1>4
  <2>3. t[k - a + 1] = s[k]
    BY <1>3, <1>4, <2>2
  <2>4. QED BY <2>2, <2>3 DEF ToSet
<1>9. IsInjective(t)
  BY <1>6 DEF IsInjective
<1>10. QED BY <1>3, <1>7, <1>8, <1>9 DEF Elements

\* A list of M with the earliest first, cut by skip and limit: the rows before
\* the window are the earliest, and those in it the earliest of the others.
LEMMA Window ==
  ASSUME NEW M \in SUBSET Rows, IsFiniteSet(M), NEW s \in SetToSeqs(M), Ascending(s),
         NEW limit \in Nat, NEW skip \in Nat,
         NEW got, got = Slice(s, limit, skip),
         NEW left, left = Cardinality(M) - Lesser(skip, Cardinality(M))
  PROVE  /\ got \in Seq(M) /\ left \in Nat /\ Len(got) = Lesser(limit, left)
         /\ IsInjective(got) /\ Ascending(got)
         /\ \E before \in Lowest(M, skip) : ToSet(got) \in Lowest(M \ before, Len(got))
<1> DEFINE n == Cardinality(M)
           k == Lesser(skip, n)
           m == Lesser(limit, left)
           head == SubSeq(s, 1, k)
           body == SubSeq(s, k + 1, k + m)
<1>1. /\ s \in Seq(M) /\ Len(s) = n /\ n \in Nat /\ DOMAIN s = 1 .. n
      /\ IsInjective(s) /\ ToSet(s) = M
  BY ListsAll
<1>2. \A i \in 1 .. n : s[i] \in M
  BY <1>1
<1>3. \A i, j \in 1 .. n : s[i].timestamp_utc \in Int
  BY <1>2 DEF Rows
<1>4. /\ k \in 0 .. n /\ left = n - k /\ left \in Nat
      /\ m \in 0 .. left
  BY <1>1 DEF Lesser
<1> HIDE DEF k, m, n
<1>5. got = body
  <2>1. got = SubSeq(s, skip + 1, Lesser(skip + limit, n))
    BY <1>1 DEF Slice, Lesser
  <2>2. CASE skip < n
    <3>1. k = skip /\ Lesser(skip + limit, n) = k + m
      BY <1>1, <1>4, <2>2 DEF k, m, Lesser
    <3>2. QED BY <2>1, <3>1
  <2>3. CASE skip >= n
    <3>1. k = n /\ m = 0 /\ Lesser(skip + limit, n) = n
      BY <1>1, <1>4, <2>3 DEF k, m, Lesser
    <3>2. got = << >> /\ body = << >>
      BY <1>1, <2>1, <2>3, <3>1, SubSeqEmpty
    <3>3. QED BY <3>2
  <2>4. QED BY <1>1, <2>2, <2>3
<1>6. /\ head \in Seq(M) /\ Len(head) = k /\ IsInjective(head)
      /\ ToSet(head) = {s[i] : i \in 1 .. k}
  <2>1. 1 \in 1 .. Len(s) + 1 /\ k \in 1 - 1 .. Len(s) /\ k - 1 + 1 = k
    BY <1>1, <1>4
  <2>2. QED BY <1>1, <2>1, Part DEF Elements
<1>7. /\ body \in Seq(M) /\ Len(body) = m /\ IsInjective(body)
      /\ ToSet(body) = {s[i] : i \in k + 1 .. k + m}
      /\ \A i \in 1 .. m : body[i] = s[k + i]
  <2> DEFINE a == k + 1
             b == k + m
  <2>1. /\ a \in 1 .. Len(s) + 1 /\ b \in a - 1 .. Len(s) /\ b - a + 1 = m
        /\ \A i \in 1 .. m : a + i - 1 = k + i
    BY <1>1, <1>4
  <2> HIDE DEF a, b
  <2>2. SubSeq(s, a, b) \in Seq(M) /\ IsInjective(SubSeq(s, a, b))
    BY <1>1, <2>1, Part
  <2>3. \A i \in 1 .. m : SubSeq(s, a, b)[i] = s[a + i - 1]
    BY <1>1, <2>1, Part
  <2>4. \A i \in 1 .. m : SubSeq(s, a, b)[i] = s[k + i]
    BY <2>1, <2>3
  <2>5. Len(SubSeq(s, a, b)) = m
    BY <1>1, <2>1, Part
  <2>6. ToSet(SubSeq(s, a, b)) = Elements(s, a, b)
    BY <1>1, <2>1, Part
  <2>7. QED BY <2>2, <2>4, <2>5, <2>6 DEF a, b, Elements
<1> HIDE DEF head, body
<1>8. Ascending(body)
  <2>1. SUFFICES ASSUME NEW i \in 1 .. m, NEW j \in 1 .. m, i < j
                 PROVE  body[i].timestamp_utc <= body[j].timestamp_utc
    BY <1>7 DEF Ascending
  <2>2. k + i \in DOMAIN s /\ k + j \in DOMAIN s /\ k + i < k + j
    BY <1>1, <1>4, <2>1
  <2>3. s[k + i].timestamp_utc <= s[k + j].timestamp_utc
    BY <2>2 DEF Ascending
  <2>4. QED BY <1>7, <2>3
<1>9. ToSet(head) \in Lowest(M, skip)
  <2>1. ToSet(head) \subseteq M
    BY <1>1, <1>2, <1>4, <1>6
  <2>2. Cardinality(ToSet(head)) = Lesser(skip, Cardinality(M))
    BY <1>6, SizeOfList DEF k, n
  <2>3. ASSUME NEW x \in ToSet(head), NEW y \in M \ ToSet(head)
        PROVE  x.timestamp_utc <= y.timestamp_utc
    <3>1. PICK i \in 1 .. k : x = s[i]
      BY <1>6
    <3>2. PICK j \in 1 .. n : y = s[j]
      BY <1>1 DEF ToSet
    <3>3. j \notin 1 .. k
      BY <1>6, <3>2
    <3>4. i \in DOMAIN s /\ j \in DOMAIN s /\ i < j
      BY <1>1, <1>4, <3>3
    <3>5. QED BY <3>1, <3>2, <3>4 DEF Ascending
  <2>4. QED BY <2>1, <2>2, <2>3 DEF Lowest
<1>10. ToSet(body) \in Lowest(M \ ToSet(head), Len(body))
  <2>1. ToSet(body) \subseteq M \ ToSet(head)
    <3>1. SUFFICES ASSUME NEW i \in k + 1 .. k + m
                   PROVE  s[i] \in M /\ s[i] \notin ToSet(head)
      BY <1>7
    <3>2. i \in 1 .. n
      BY <1>1, <1>4
    <3>3. \A j \in 1 .. k : j \in 1 .. n /\ i # j
      BY <1>1, <1>4
    <3>4. \A j \in 1 .. k : s[i] # s[j]
      BY <1>1, <3>2, <3>3 DEF IsInjective
    <3>5. QED BY <1>2, <1>6, <3>2, <3>4
  <2>2. Cardinality(ToSet(body)) = Lesser(Len(body), Cardinality(M \ ToSet(head)))
    <3>1. Cardinality(ToSet(body)) = m
      BY <1>7, SizeOfList
    <3>2. IsFiniteSet(M \ ToSet(head))
      BY FS_Difference
    <3>3. m <= Cardinality(M \ ToSet(head)) /\ Cardinality(M \ ToSet(head)) \in Nat
      BY <2>1, <3>1, <3>2, FS_Subset, FS_CardinalityType
    <3>4. QED BY <1>4, <1>7, <3>1, <3>3 DEF Lesser
  <2>3. ASSUME NEW x \in ToSet(body), NEW y \in (M \ ToSet(head)) \ ToSet(body)
        PROVE  x.timestamp_utc <= y.timestamp_utc
    <3>1. PICK i \in k + 1 .. k + m : x = s[i]
      BY <1>7
    <3>2. PICK j \in 1 .. n : y = s[j]
      BY <1>1 DEF ToSet
    <3>3. j \notin 1 .. k /\ j \notin k + 1 .. k + m
      BY <1>6, <1>7, <3>2
    <3>4. i \in DOMAIN s /\ j \in DOMAIN s /\ i < j
      BY <1>1, <1>4, <3>3
    <3>5. QED BY <3>1, <3>2, <3>4 DEF Ascending
  <2>4. QED BY <2>1, <2>2, <2>3 DEF Lowest
<1>11. QED BY <1>4, <1>5, <1>7, <1>8, <1>9, <1>10 DEF m

-------------------------------------------------------------------------------
(* The answer to a filter.                                                 *)

LEMMA AllOptions == Options = FilterSet(Optional(STRING))
  BY DEF Options, Optional, FilterSet, OrAbsent

\* What AnswerIsWindow says of the answer got to f when W is wanted.
IsWindow(got, W, f) ==
  LET skip  == IF f.offset = Absent THEN 0 ELSE f.offset
      limit == IF f.limit = Absent THEN MaxEvents ELSE f.limit
      left  == Cardinality(W) - Lesser(skip, Cardinality(W))
      size  == IF limit < 0 THEN left ELSE Lesser(limit, left)
  IN  IF skip < 0 \/ size > MaxMessage
        THEN got = Error
        ELSE /\ got # Error
             /\ IsInjective(got) /\ Ascending(got) /\ Len(got) = size
             /\ \E before \in Lowest(W, skip) : ToSet(got) \in Lowest(W \ before, size)

\* The statement answers with the window, whatever the order of equal timestamps.
LEMMA AnswerOf ==
  ASSUME NEW W \in SUBSET Rows, IsFiniteSet(W), NEW f \in Options,
         NEW s \in SetToSeqs(W), Ascending(s),
         NEW got, got = Received(GetEvents(Conveyed(f), s))
  PROVE  IsWindow(got, W, f) /\ (got = Error \/ got \in Seq(W))
<1> DEFINE skip  == IF f.offset = Absent THEN 0 ELSE f.offset
           limit == IF f.limit = Absent THEN MaxEvents ELSE f.limit
           left  == Cardinality(W) - Lesser(skip, Cardinality(W))
           size  == IF limit < 0 THEN left ELSE Lesser(limit, left)
           most  == IF f.limit = Absent THEN MaxEvents ELSE Image(f.limit)
           all   == Slice(s, most, skip)
<1>1. /\ IntMax \in Nat /\ MaxEvents \in Nat /\ MaxMessage \in Nat
      /\ MaxMessage <= IntMax /\ Absent \notin Int
  BY FilterAssumption DEF FilterAssumption
<1>2. /\ f.limit # Absent => f.limit \in -(IntMax + 1) .. IntMax
      /\ f.offset # Absent => f.offset \in -(IntMax + 1) .. IntMax
  BY DEF Options, Optional
<1>3. /\ f.limit # Absent =>
           /\ Image(f.limit) \in Nat
           /\ f.limit < 0 => Image(f.limit) > IntMax
           /\ f.limit >= 0 => Image(f.limit) = f.limit
      /\ f.offset # Absent =>
           /\ Image(f.offset) \in Nat
           /\ f.offset < 0 => Image(f.offset) > IntMax
           /\ f.offset >= 0 => Image(f.offset) = f.offset
  BY <1>1, <1>2, Images DEF Image
<1>4. /\ skip \in Int /\ skip <= IntMax /\ limit \in Int /\ most \in Nat
      /\ limit < 0 => most > MaxMessage
      /\ limit >= 0 => most = limit
  BY <1>1, <1>2, <1>3
<1>5. GetEvents(Conveyed(f), s) = IF skip < 0 THEN Error ELSE all
  <2>1. /\ Conveyed(f).limit = Absent <=> f.limit = Absent
        /\ f.limit # Absent => Conveyed(f).limit = Image(f.limit)
        /\ Conveyed(f).offset = Absent <=> f.offset = Absent
        /\ f.offset # Absent => Conveyed(f).offset = Image(f.offset)
    BY <1>1, <1>3, AllOptions, ConveyedFilter DEF Map
  <2>2. CASE f.offset = Absent
    BY <1>1, <2>1, <2>2 DEF GetEvents, Selected
  <2>3. CASE f.offset # Absent /\ f.offset < 0
    BY <1>1, <1>2, <1>3, <2>1, <2>3 DEF GetEvents, Selected
  <2>4. CASE f.offset # Absent /\ f.offset >= 0
    <3>1. ~ Image(f.offset) > IntMax
      BY <1>1, <1>2, <1>3, <2>4
    <3>2. Image(f.offset) = f.offset /\ ~ f.offset < 0
      BY <1>1, <1>2, <1>3, <2>4
    <3>3. QED BY <2>1, <2>4, <3>1, <3>2 DEF GetEvents, Selected
  <2>5. QED BY <1>2, <2>2, <2>3, <2>4
<1>6. CASE skip < 0
  <2>1. got = Error
    BY <1>5, <1>6 DEF Received
  <2>2. QED BY <1>6, <2>1 DEF IsWindow
<1>7. CASE skip >= 0
  <2>1. skip \in Nat
    BY <1>4, <1>7
  <2> HIDE DEF skip, limit, most
  <2>2. /\ all \in Seq(W) /\ left \in Nat /\ Len(all) = Lesser(most, left)
        /\ IsInjective(all) /\ Ascending(all)
        /\ \E before \in Lowest(W, skip) : ToSet(all) \in Lowest(W \ before, Len(all))
    BY <1>4, <2>1, Window
  <2>3. all # Error
    BY <2>2, QueryAssumption DEF QueryAssumption
  <2> HIDE DEF all, left
  <2>4. got = IF Len(all) > MaxMessage THEN Error ELSE all
    BY <1>4, <1>5, <1>7, <2>3 DEF Received
  <2>5. (Len(all) > MaxMessage <=> size > MaxMessage) /\ (Len(all) <= MaxMessage => Len(all) = size)
    BY <1>1, <1>4, <2>2 DEF Lesser
  <2>6. size \in Nat /\ Len(all) \in Nat /\ ~ skip < 0
    BY <1>4, <2>1, <2>2 DEF Lesser
  <2> HIDE DEF size
  <2>7. IF size > MaxMessage THEN got = Error
        ELSE /\ got # Error
             /\ IsInjective(got) /\ Ascending(got) /\ Len(got) = size
             /\ \E before \in Lowest(W, skip) : ToSet(got) \in Lowest(W \ before, size)
    <3>1. CASE size > MaxMessage
      BY <2>4, <2>5, <3>1
    <3>2. CASE ~ size > MaxMessage
      <4>1. got = all /\ Len(all) = size
        BY <1>1, <2>4, <2>5, <2>6, <3>2
      <4>2. PICK before \in Lowest(W, skip) : ToSet(all) \in Lowest(W \ before, Len(all))
        BY <2>2
      <4>3. ToSet(got) \in Lowest(W \ before, size)
        BY <4>1, <4>2
      <4>4. IsInjective(got) /\ Ascending(got) /\ Len(got) = size /\ got # Error
        BY <2>2, <2>3, <4>1
      <4>5. QED BY <3>2, <4>3, <4>4
    <3>3. QED BY <3>1, <3>2
  <2>8. IsWindow(got, W, f)
    BY <2>6, <2>7 DEF IsWindow, skip, limit, left, size
  <2>9. QED BY <2>2, <2>4, <2>8
<1>8. QED BY <1>4, <1>6, <1>7

-------------------------------------------------------------------------------
(* Pages.                                                                  *)

\* No row of W outside L is earlier than one inside.
Bottom(L, W) == /\ L \subseteq W
                /\ \A x \in L : \A y \in W \ L : x.timestamp_utc <= y.timestamp_utc

DistinctTimes(W) == \A x, y \in W : x.timestamp_utc = y.timestamp_utc => x = y

\* There is one way to take the earliest rows when no timestamps coincide.
LEMMA OneBottom ==
  ASSUME NEW W \in SUBSET Rows, IsFiniteSet(W), DistinctTimes(W),
         NEW A, NEW B, Bottom(A, W), Bottom(B, W), Cardinality(A) = Cardinality(B)
  PROVE  A = B
<1>1. A \subseteq W /\ B \subseteq W /\ IsFiniteSet(A) /\ IsFiniteSet(B)
  BY FS_Subset DEF Bottom
<1>2. A \subseteq B \/ B \subseteq A
  <2>1. SUFFICES ASSUME NEW x \in A, x \notin B, NEW y \in B, y \notin A PROVE FALSE
    OBVIOUS
  <2>2. x.timestamp_utc <= y.timestamp_utc /\ y.timestamp_utc <= x.timestamp_utc
    BY <1>1, <2>1 DEF Bottom
  <2>3. x.timestamp_utc \in Int /\ y.timestamp_utc \in Int
    BY <1>1 DEF Rows
  <2>4. x = y
    BY <1>1, <2>2, <2>3 DEF DistinctTimes
  <2>5. QED BY <2>1, <2>4
<1>3. CASE A \subseteq B
  BY <1>1, <1>3, FS_Subset
<1>4. CASE B \subseteq A
  BY <1>1, <1>4, FS_Subset
<1>5. QED BY <1>2, <1>3, <1>4

LEMMA Concatenation ==
  ASSUME NEW S, NEW a \in Seq(S), NEW b \in Seq(S)
  PROVE  /\ \A i \in DOMAIN (a \o b) :
              \/ i \in DOMAIN a /\ (a \o b)[i] = a[i]
              \/ i - Len(a) \in DOMAIN b /\ (a \o b)[i] = b[i - Len(a)]
         /\ DOMAIN (a \o b) \subseteq Int /\ Len(a) \in Int
         /\ ToSet(a \o b) = ToSet(a) \cup ToSet(b)
<1> DEFINE c == a \o b
           m == Len(a)
           n == Len(b)
<1>1. /\ m \in Nat /\ DOMAIN a = 1 .. m /\ n \in Nat /\ DOMAIN b = 1 .. n
      /\ DOMAIN c = 1 .. m + n
  OBVIOUS
<1>2. \A i \in 1 .. m : c[i] = a[i] /\ i \in DOMAIN c
  OBVIOUS
<1>3. \A i \in 1 .. n : c[m + i] = b[i] /\ m + i \in DOMAIN c
  OBVIOUS
<1>4. \A i \in DOMAIN c :
         \/ i \in 1 .. m
         \/ i - m \in 1 .. n /\ m + (i - m) = i
  BY <1>1
<1> HIDE DEF c
<1>5. \A i \in DOMAIN c :
         \/ i \in DOMAIN a /\ c[i] = a[i]
         \/ i - m \in DOMAIN b /\ c[i] = b[i - m]
  <2>1. TAKE i \in DOMAIN c
  <2>2. CASE i \in 1 .. m
    BY <1>1, <1>2, <2>2
  <2>3. CASE i - m \in 1 .. n /\ m + (i - m) = i
    <3>1. c[m + (i - m)] = b[i - m]
      BY <1>3, <2>3
    <3>2. QED BY <1>1, <2>3, <3>1
  <2>4. QED BY <1>4, <2>2, <2>3
<1>6. ToSet(c) = ToSet(a) \cup ToSet(b)
  <2>1. ToSet(c) \subseteq ToSet(a) \cup ToSet(b)
    BY <1>5 DEF ToSet
  <2>2. ToSet(a) \subseteq ToSet(c)
    BY <1>1, <1>2 DEF ToSet
  <2>3. ToSet(b) \subseteq ToSet(c)
    <3>1. SUFFICES ASSUME NEW i \in 1 .. n PROVE b[i] \in ToSet(c)
      BY <1>1 DEF ToSet
    <3>2. c[m + i] = b[i] /\ m + i \in DOMAIN c
      BY <1>3
    <3>3. QED BY <3>2 DEF ToSet
  <2>4. QED BY <2>1, <2>2, <2>3
<1>7. QED BY <1>1, <1>5, <1>6 DEF c

LEMMA Appended ==
  ASSUME NEW S, NEW a \in Seq(S), NEW b \in Seq(S), IsInjective(a), IsInjective(b),
         ToSet(a) \cap ToSet(b) = {}
  PROVE  IsInjective(a \o b) /\ ToSet(a \o b) = ToSet(a) \cup ToSet(b)
<1> DEFINE c == a \o b
           m == Len(a)
<1>1. /\ DOMAIN c \subseteq Int /\ m \in Int
      /\ \A i \in DOMAIN c :
           \/ i \in DOMAIN a /\ c[i] = a[i]
           \/ i - m \in DOMAIN b /\ c[i] = b[i - m]
  BY Concatenation
<1>2. ToSet(c) = ToSet(a) \cup ToSet(b)
  BY Concatenation
<1> HIDE DEF c, m
<1>3. ASSUME NEW i \in DOMAIN c, NEW j \in DOMAIN c, c[i] = c[j] PROVE i = j
  <2>1. CASE i \in DOMAIN a /\ c[i] = a[i] /\ j \in DOMAIN a /\ c[j] = a[j]
    BY <1>3, <2>1 DEF IsInjective
  <2>2. CASE i - m \in DOMAIN b /\ c[i] = b[i - m] /\ j - m \in DOMAIN b /\ c[j] = b[j - m]
    <3>1. i - m = j - m
      BY <1>3, <2>2 DEF IsInjective
    <3>2. QED BY <1>1, <3>1
  <2>3. CASE i \in DOMAIN a /\ c[i] = a[i] /\ j - m \in DOMAIN b /\ c[j] = b[j - m]
    BY <1>3, <2>3 DEF ToSet
  <2>4. CASE i - m \in DOMAIN b /\ c[i] = b[i - m] /\ j \in DOMAIN a /\ c[j] = a[j]
    BY <1>3, <2>4 DEF ToSet
  <2>5. QED BY <1>1, <2>1, <2>2, <2>3, <2>4
<1>4. IsInjective(c)
  BY <1>3 DEF IsInjective
<1>5. QED BY <1>2, <1>4 DEF c

\* A window that begins where the earliest rows end continues them.
LEMMA Continued ==
  ASSUME NEW W \in SUBSET Rows, IsFiniteSet(W), DistinctTimes(W),
         NEW a \in Seq(Rows), IsInjective(a), Bottom(ToSet(a), W),
         NEW b \in Seq(Rows), IsInjective(b),
         NEW before \in Lowest(W, Len(a)), ToSet(b) \in Lowest(W \ before, Len(b))
  PROVE  IsInjective(a \o b) /\ Bottom(ToSet(a \o b), W)
<1>1. Len(a) \in Nat /\ Cardinality(ToSet(a)) = Len(a) /\ ToSet(a) \subseteq W
  BY SizeOfList DEF Bottom
<1>2. Cardinality(W) \in Nat /\ Len(a) <= Cardinality(W)
  BY <1>1, FS_CardinalityType, FS_Subset
<1>3. Bottom(before, W) /\ Cardinality(before) = Len(a)
  BY <1>1, <1>2 DEF Lowest, Lesser, Bottom
<1>4. before = ToSet(a)
  BY <1>1, <1>3, OneBottom
<1>5. /\ ToSet(b) \subseteq W \ ToSet(a)
      /\ \A x \in ToSet(b) : \A y \in (W \ ToSet(a)) \ ToSet(b) :
            x.timestamp_utc <= y.timestamp_utc
  BY <1>4 DEF Lowest
<1>6. IsInjective(a \o b) /\ ToSet(a \o b) = ToSet(a) \cup ToSet(b)
  <2>1. ToSet(a) \cap ToSet(b) = {}
    BY <1>5
  <2>2. QED BY <2>1, Appended
<1>7. Bottom(ToSet(a) \cup ToSet(b), W)
  BY <1>1, <1>5 DEF Bottom
<1>8. QED BY <1>6, <1>7

LEMMA FirstPageIsBottom ==
  ASSUME NEW W \in SUBSET Rows, IsFiniteSet(W), NEW f, f.offset = Absent,
         NEW got, got # Error, IsWindow(got, W, f)
  PROVE  IsInjective(got) /\ Bottom(ToSet(got), W)
<1>1. PICK before \in Lowest(W, 0), size \in {Len(got)} :
         IsInjective(got) /\ ToSet(got) \in Lowest(W \ before, size)
  BY DEF IsWindow
<1>2. before = {}
  <2>1. before \subseteq W /\ Cardinality(before) = 0
    BY FS_CardinalityType DEF Lowest, Lesser
  <2>2. QED BY <2>1, FS_Subset, FS_EmptySet
<1>3. W \ before = W
  BY <1>2
<1>4. QED BY <1>1, <1>3 DEF Lowest, Bottom

LEMMA NextPageIsBottom ==
  ASSUME NEW W \in SUBSET Rows, IsFiniteSet(W), DistinctTimes(W),
         NEW a \in Seq(Rows), IsInjective(a), Bottom(ToSet(a), W),
         NEW f, f.offset = Len(a),
         NEW got \in Seq(Rows), got # Error, IsWindow(got, W, f)
  PROVE  IsInjective(a \o got) /\ Bottom(ToSet(a \o got), W)
<1>1. Len(a) # Absent
  BY FilterAssumption DEF FilterAssumption
<1>2. PICK before \in Lowest(W, Len(a)), size \in {Len(got)} :
         IsInjective(got) /\ ToSet(got) \in Lowest(W \ before, size)
  BY <1>1 DEF IsWindow
<1>3. QED BY <1>2, Continued

\* What is saved later than all that is there comes after what was read of it.
LEMMA BottomStays ==
  ASSUME NEW T, NEW S \in SUBSET T, NEW f, NEW g,
         f.source_service = g.source_service, f.status = g.status,
         f.from = g.from, f.to = g.to, T \subseteq Rows,
         \A x \in T \ S : \A y \in S : y.timestamp_utc < x.timestamp_utc,
         NEW L, Bottom(L, WantedIn(S, g))
  PROVE  Bottom(L, WantedIn(T, f))
<1>1. WantedIn(S, g) \subseteq WantedIn(T, f)
  BY DEF WantedIn
<1>2. WantedIn(T, f) \ WantedIn(S, g) \subseteq T \ S
  BY DEF WantedIn
<1>3. WantedIn(S, g) \subseteq S /\ L \subseteq WantedIn(S, g)
  BY DEF WantedIn, Bottom
<1>4. ASSUME NEW x \in L, NEW y \in WantedIn(T, f) \ L
      PROVE  x.timestamp_utc <= y.timestamp_utc
  <2>1. CASE y \in WantedIn(S, g)
    BY <2>1 DEF Bottom
  <2>2. CASE y \notin WantedIn(S, g)
    <3>1. x.timestamp_utc < y.timestamp_utc
      BY <1>2, <1>3, <2>2
    <3>2. x.timestamp_utc \in Int /\ y.timestamp_utc \in Int
      BY <1>2, <1>3, <2>2 DEF Rows
    <3>3. QED BY <3>1, <3>2
  <2>3. QED BY <2>1, <2>2
<1>5. QED BY <1>1, <1>3, <1>4 DEF Bottom

Earlier(r, W) == {y \in W : y.timestamp_utc < r.timestamp_utc}

LEMMA EarlierSize ==
  ASSUME NEW W, IsFiniteSet(W), NEW r
  PROVE  /\ IsFiniteSet(Earlier(r, W)) /\ Cardinality(Earlier(r, W)) \in Nat
         /\ Cardinality(Earlier(r, W)) <= Cardinality(W) /\ Cardinality(W) \in Nat
<1>1. Earlier(r, W) \subseteq W
  BY DEF Earlier
<1>2. QED BY <1>1, FS_Subset, FS_CardinalityType

\* The rows of a bottom of W are earlier than a row outside it.
LEMMA BelowIsEarlier ==
  ASSUME NEW W \in SUBSET Rows, DistinctTimes(W), NEW r \in W, NEW L, L \subseteq W, r \notin L,
         \A x \in L : x.timestamp_utc <= r.timestamp_utc
  PROVE  L \subseteq Earlier(r, W)
<1>1. ASSUME NEW x \in L PROVE x.timestamp_utc < r.timestamp_utc
  <2>1. x \in Rows /\ r \in Rows /\ x # r
    OBVIOUS
  <2>2. x.timestamp_utc \in Int /\ r.timestamp_utc \in Int
    BY <2>1 DEF Rows
  <2>3. x.timestamp_utc # r.timestamp_utc
    BY <2>1 DEF DistinctTimes
  <2>4. QED BY <2>2, <2>3
<1>2. QED BY <1>1 DEF Earlier

\* Where a page leaves a row out that it has not come to, at least as many rows
\* are earlier than that one as have been passed over with the page.
LEMMA StillToCome ==
  ASSUME NEW W \in SUBSET Rows, IsFiniteSet(W), DistinctTimes(W),
         NEW k \in Nat, NEW f, f.offset = k,
         NEW got \in Seq(Rows), got # Error, IsWindow(got, W, f),
         NEW r \in W, r \notin ToSet(got), k <= Cardinality(Earlier(r, W))
  PROVE  k + Len(got) <= Cardinality(Earlier(r, W))
<1>1. k # Absent
  BY FilterAssumption DEF FilterAssumption
<1>2. PICK before \in Lowest(W, k), size \in {Len(got)} :
         IsInjective(got) /\ ToSet(got) \in Lowest(W \ before, size)
  BY <1>1 DEF IsWindow
<1>3. /\ before \subseteq W /\ Cardinality(before) = k /\ IsFiniteSet(before)
      /\ \A x \in before, y \in W \ before : x.timestamp_utc <= y.timestamp_utc
  BY EarlierSize, FS_Subset DEF Lowest, Lesser
<1>4. r \notin before
  <2>1. SUFFICES ASSUME r \in before PROVE FALSE
    OBVIOUS
  <2>2. ASSUME NEW y \in Earlier(r, W) PROVE y \in before \ {r}
    <3>1. y \in W /\ y.timestamp_utc < r.timestamp_utc
      BY DEF Earlier
    <3>2. y.timestamp_utc \in Int /\ r.timestamp_utc \in Int
      BY <3>1 DEF Rows
    <3>3. QED BY <1>3, <2>1, <3>1, <3>2
  <2>3. Cardinality(before \ {r}) = k - 1 /\ IsFiniteSet(before \ {r})
    BY <1>3, <2>1, FS_RemoveElement
  <2>4. Cardinality(Earlier(r, W)) <= k - 1
    BY <2>2, <2>3, FS_Subset
  <2>5. QED BY <2>4, EarlierSize
<1>5. /\ ToSet(got) \subseteq W \ before
      /\ \A x \in ToSet(got) : x.timestamp_utc <= r.timestamp_utc
  BY <1>2, <1>4 DEF Lowest
<1>6. before \subseteq Earlier(r, W) /\ ToSet(got) \subseteq Earlier(r, W)
  <2>1. \A x \in before : x.timestamp_utc <= r.timestamp_utc
    BY <1>3, <1>4
  <2>2. QED BY <1>3, <1>4, <1>5, <2>1, BelowIsEarlier
<1>7. /\ IsFiniteSet(ToSet(got)) /\ Cardinality(ToSet(got)) = Len(got)
      /\ before \cap ToSet(got) = {}
  BY <1>2, <1>5, SizeOfList
<1>8. Cardinality(before \cup ToSet(got)) = k + Len(got)
  <2>1. PICK T : T = ToSet(got)
    OBVIOUS
  <2>2. IsFiniteSet(before) /\ IsFiniteSet(T) /\ before \cap T = {}
    BY <1>3, <1>7, <2>1
  <2>3. /\ Cardinality(before \cup T)
             = Cardinality(before) + Cardinality(T) - Cardinality(before \cap T)
        /\ Cardinality(before \cap T) = 0
    BY <2>2, FS_Union, FS_EmptySet
  <2>4. Cardinality(before) = k /\ Cardinality(T) = Len(got) /\ Len(got) \in Nat
    BY <1>3, <1>7, <2>1
  <2>5. QED BY <2>1, <2>3, <2>4
<1>9. Cardinality(before \cup ToSet(got)) <= Cardinality(Earlier(r, W))
  BY <1>6, EarlierSize, FS_Subset
<1>10. QED BY <1>8, <1>9

-------------------------------------------------------------------------------
(* The inductive invariant.                                                *)

\* The answer is one that the statement may have given when the table was last.
Answered ==
  request # Absent =>
    \E s \in Ordered(last, Conveyed(request)) :
       answer = Received(GetEvents(Conveyed(request), s))

Grown == IsFiniteSet(table) /\ first \subseteq last

\* The pages so far reach from the beginning to the end of the last answer, and
\* they are the earliest of the wanted rows as long as the others come after.
Paged ==
  seen # Absent =>
    /\ request # Absent /\ answer # Error
    /\ seen \in Seq(Rows)
    /\ Len(seen) = Len(answer) + (IF request.offset = Absent THEN 0 ELSE request.offset)
    /\ NoTies /\ appended => IsInjective(seen) /\ Bottom(ToSet(seen), WantedIn(last, request))

\* A row that was there from the beginning has been shown or is still to come.
Unlost ==
  seen # Absent /\ NoTies =>
    \A r \in WantedIn(first, request) \ ToSet(seen) :
      Len(seen) <= Cardinality(Earlier(r, WantedIn(last, request)))

IInv == TypeOK /\ Answered /\ Grown /\ Paged /\ Unlost

LEMMA Start == ASSUME Init PROVE IInv
<1>1. TypeOK
  BY DEF Init, TypeOK
<1>2. Answered /\ Paged /\ Unlost
  BY DEF Init, Answered, Paged, Unlost
<1>3. Grown
  BY FS_EmptySet DEF Init, Grown
<1>4. QED BY <1>1, <1>2, <1>3 DEF IInv

LEMMA SaveStep ==
  ASSUME IInv, NEW e \in Events, Save(e)
  PROVE  IInv'
<1>1. PICK n \in Ids : /\ table' = table \cup {[e EXCEPT !.id = n]}
                       /\ UNCHANGED <<request, answer, seen, first, last, appended>>
  BY DEF Save
<1>2. [e EXCEPT !.id = n] \in Rows
  BY QueryAssumption DEF QueryAssumption, Rows
<1>3. TypeOK'
  BY <1>1, <1>2 DEF IInv, TypeOK
<1>4. Answered'
  BY <1>1 DEF IInv, Answered
<1>5. Grown'
  BY <1>1, FS_AddElement DEF IInv, Grown
<1>6. Paged'
  BY <1>1 DEF IInv, Paged, NoTies
<1>7. Unlost'
  BY <1>1 DEF IInv, Unlost, NoTies
<1>8. QED BY <1>3, <1>4, <1>5, <1>6, <1>7 DEF IInv

LEMMA GetStep ==
  ASSUME IInv, NEW f \in Filters, Get(f)
  PROVE  IInv'
<1> DEFINE W == WantedIn(table, f)
<1>1. PICK s \in Ordered(table, Conveyed(f)) :
        LET got == Received(GetEvents(Conveyed(f), s)) IN
        /\ request' = f /\ answer' = got
        /\ seen' = IF got = Error THEN Absent
                   ELSE IF FirstPage(f) THEN got
                   ELSE IF NextPage(f) THEN seen \o got
                   ELSE Absent
        /\ first' = IF FirstPage(f) THEN table ELSE IF seen' = Absent THEN {} ELSE first
        /\ last' = table
        /\ appended' = \/ FirstPage(f) \/ seen' = Absent
                       \/ appended /\ Later(table \ last, last)
        /\ UNCHANGED table
  BY DEF Get
<1> DEFINE got == Received(GetEvents(Conveyed(f), s))
<1>2. f \in Options /\ f # Absent
  BY QueryAssumption DEF QueryAssumption
<1>3. table \subseteq Rows /\ IsFiniteSet(table) /\ first \subseteq last /\ last \subseteq table
  BY DEF IInv, TypeOK, Grown
<1>4. W \subseteq Rows /\ W \subseteq table /\ IsFiniteSet(W)
  <2>1. W \subseteq table
    BY DEF WantedIn
  <2>2. QED BY <1>3, <2>1, FS_Subset
<1>5. s \in SetToSeqs(W) /\ Ascending(s)
  BY <1>2, AllOptions, MatchingIsWanted DEF Ordered
<1> HIDE DEF W
<1>6. IsWindow(got, W, f) /\ (got = Error \/ got \in Seq(W))
  BY <1>2, <1>4, <1>5, AnswerOf
<1>7. got # Error => /\ got \in Seq(Rows) /\ ToSet(got) \subseteq table
                     /\ Len(got) <= MaxMessage
  <2>1. SUFFICES ASSUME got # Error
                 PROVE  /\ got \in Seq(Rows) /\ ToSet(got) \subseteq table
                        /\ Len(got) <= MaxMessage
    OBVIOUS
  <2>2. got \in Seq(W) /\ \A i \in DOMAIN got : got[i] \in W
    BY <1>6, <2>1
  <2>3. Len(got) <= MaxMessage
    <3>1. Len(got) \in Nat /\ MaxMessage \in Int
      BY <2>2, FilterAssumption DEF FilterAssumption
    <3>2. ~ Len(got) > MaxMessage
      BY <2>1 DEF Received
    <3>3. QED BY <3>1, <3>2
  <2>4. QED BY <1>4, <2>2, <2>3 DEF ToSet
<1>8. TypeOK'
  <2>1. first' \subseteq table' /\ last' \subseteq table'
    BY <1>1, <1>3
  <2>2. \/ answer' \in {Absent, Error}
        \/ ToSet(answer') \subseteq last' /\ Len(answer') <= MaxMessage
    BY <1>1, <1>7
  <2>3. appended' \in BOOLEAN
    BY <1>1 DEF IInv, TypeOK
  <2>4. QED BY <1>1, <2>1, <2>2, <2>3 DEF IInv, TypeOK
<1>9. Answered'
  BY <1>1 DEF Answered
<1>10. Grown'
  BY <1>1, <1>3 DEF Grown
<1>11. ASSUME NextPage(f), got # Error, ~ FirstPage(f)
       PROVE  /\ seen' = seen \o got /\ first' = first /\ f.offset = Len(seen)
              /\ f.offset # Absent /\ request \in Options
              /\ seen # Absent /\ request # Absent /\ seen \in Seq(Rows)
              /\ f.source_service = request.source_service /\ f.status = request.status
              /\ f.from = request.from /\ f.to = request.to
  <2>1. /\ f.offset # Absent /\ f.offset = Len(seen) /\ request # Absent /\ seen # Absent
        /\ [f EXCEPT !.offset = Absent] = [request EXCEPT !.offset = Absent]
    BY <1>11 DEF FirstPage, NextPage
  <2>2. seen \in Seq(Rows) /\ request \in Options
    BY <2>1, QueryAssumption DEF IInv, Paged, TypeOK, QueryAssumption
  <2>3. seen \o got # Absent
    <3>1. seen \o got \in Seq(Rows)
      BY <1>7, <1>11, <2>2
    <3>2. QED BY <3>1, QueryAssumption DEF QueryAssumption
  <2>4. /\ [f EXCEPT !.offset = Absent].source_service = f.source_service
        /\ [f EXCEPT !.offset = Absent].status = f.status
        /\ [f EXCEPT !.offset = Absent].from = f.from
        /\ [f EXCEPT !.offset = Absent].to = f.to
    BY <1>2 DEF Options
  <2>5. /\ [request EXCEPT !.offset = Absent].source_service = request.source_service
        /\ [request EXCEPT !.offset = Absent].status = request.status
        /\ [request EXCEPT !.offset = Absent].from = request.from
        /\ [request EXCEPT !.offset = Absent].to = request.to
    BY <2>2 DEF Options
  <2>6. seen' = seen \o got /\ first' = first
    BY <1>1, <1>11, <2>3
  <2>7. /\ f.source_service = request.source_service /\ f.status = request.status
        /\ f.from = request.from /\ f.to = request.to
    BY <2>1, <2>4, <2>5
  <2>8. QED BY <2>1, <2>2, <2>6, <2>7
<1>12. ASSUME NoTies' PROVE NoTies /\ DistinctTimes(W)
  BY <1>1, <1>3, <1>4, <1>12 DEF NoTies, DistinctTimes
<1>13. Paged'
  <2>1. SUFFICES ASSUME seen' # Absent
                 PROVE  /\ got # Error /\ seen' \in Seq(Rows)
                        /\ Len(seen') = Len(got) + (IF f.offset = Absent THEN 0 ELSE f.offset)
                        /\ NoTies' /\ appended' => IsInjective(seen') /\ Bottom(ToSet(seen'), W)
    BY <1>1, <1>2 DEF Paged, W
  <2>2. got # Error /\ got \in Seq(Rows) /\ (FirstPage(f) \/ NextPage(f))
    BY <1>1, <1>7, <2>1
  <2>3. CASE FirstPage(f)
    <3>1. seen' = got /\ f.offset = Absent
      BY <1>1, <2>2, <2>3 DEF FirstPage
    <3>2. IsInjective(got) /\ Bottom(ToSet(got), W)
      BY <1>4, <1>6, <2>2, <3>1, FirstPageIsBottom
    <3>3. QED BY <2>2, <3>1, <3>2
  <2>4. CASE ~ FirstPage(f)
    <3>1. /\ seen' = seen \o got /\ f.offset = Len(seen) /\ f.offset # Absent
          /\ seen # Absent /\ seen \in Seq(Rows)
      BY <1>11, <2>2, <2>4
    <3>2. Len(seen') = Len(got) + f.offset /\ seen' \in Seq(Rows)
      BY <2>2, <3>1
    <3>3. ASSUME NoTies', appended' PROVE IsInjective(seen') /\ Bottom(ToSet(seen'), W)
      <4>1. appended /\ \A x \in table \ last : \A y \in last : y.timestamp_utc < x.timestamp_utc
        BY <1>1, <2>1, <2>4, <3>3 DEF Later
      <4>2. NoTies /\ DistinctTimes(W)
        BY <1>12, <3>3
      <4>3. IsInjective(seen) /\ Bottom(ToSet(seen), WantedIn(last, request))
        BY <3>1, <4>1, <4>2 DEF IInv, Paged
      <4>4. /\ f.source_service = request.source_service /\ f.status = request.status
            /\ f.from = request.from /\ f.to = request.to
        BY <1>11, <2>2, <2>4
      <4>5. Bottom(ToSet(seen), W)
        BY <1>3, <4>1, <4>3, <4>4, BottomStays DEF W
      <4>6. QED BY <1>4, <1>6, <2>2, <3>1, <4>2, <4>3, <4>5, NextPageIsBottom
    <3>4. QED BY <2>2, <3>1, <3>2, <3>3
  <2>5. QED BY <2>3, <2>4
<1>14. Unlost'
  <2>1. SUFFICES ASSUME seen' # Absent, NoTies',
                        NEW r \in WantedIn(first', f), r \notin ToSet(seen')
                 PROVE  Len(seen') <= Cardinality(Earlier(r, W))
    BY <1>1 DEF Unlost, W
  <2>2. got # Error /\ got \in Seq(Rows) /\ (FirstPage(f) \/ NextPage(f))
    BY <1>1, <1>7, <2>1
  <2>3. NoTies /\ DistinctTimes(W)
    BY <1>12, <2>1
  <2>4. CASE FirstPage(f)
    <3>1. seen' = got /\ first' = table /\ f.offset = Absent
      BY <1>1, <2>2, <2>4 DEF FirstPage
    <3>2. IsInjective(got) /\ Bottom(ToSet(got), W)
      BY <1>4, <1>6, <2>2, <3>1, FirstPageIsBottom
    <3>3. r \in W /\ r \notin ToSet(got)
      BY <2>1, <3>1 DEF W
    <3>4. ToSet(got) \subseteq Earlier(r, W)
      BY <1>4, <2>3, <3>2, <3>3, BelowIsEarlier DEF Bottom
    <3>5. Cardinality(ToSet(got)) <= Cardinality(Earlier(r, W))
      BY <1>4, <3>4, EarlierSize, FS_Subset
    <3>6. QED BY <2>2, <3>1, <3>2, <3>5, SizeOfList
  <2>5. CASE ~ FirstPage(f)
    <3>1. /\ seen' = seen \o got /\ first' = first /\ f.offset = Len(seen)
          /\ seen # Absent /\ seen \in Seq(Rows)
          /\ f.source_service = request.source_service /\ f.status = request.status
          /\ f.from = request.from /\ f.to = request.to
      BY <1>11, <2>2, <2>5
    <3>2. ToSet(seen') = ToSet(seen) \cup ToSet(got) /\ Len(seen') = Len(seen) + Len(got)
      BY <2>2, <3>1, Concatenation
    <3>3. r \in WantedIn(first, request) \ ToSet(seen) /\ r \notin ToSet(got) /\ r \in W
      BY <1>3, <2>1, <3>1, <3>2 DEF WantedIn, W
    <3>4. Len(seen) <= Cardinality(Earlier(r, WantedIn(last, request)))
      BY <2>3, <3>1, <3>3 DEF IInv, Unlost
    <3>5. WantedIn(last, request) \subseteq W
      BY <1>3, <3>1 DEF WantedIn, W
    <3>6. Earlier(r, WantedIn(last, request)) \subseteq Earlier(r, W)
      BY <3>5 DEF Earlier
    <3>7. /\ Cardinality(Earlier(r, WantedIn(last, request))) <= Cardinality(Earlier(r, W))
          /\ Cardinality(Earlier(r, WantedIn(last, request))) \in Nat
          /\ Cardinality(Earlier(r, W)) \in Nat
      BY <1>4, <3>6, EarlierSize, FS_Subset, FS_CardinalityType
    <3>8. Len(seen) \in Nat /\ Len(seen) <= Cardinality(Earlier(r, W))
      BY <3>1, <3>4, <3>7
    <3>9. Len(seen) + Len(got) <= Cardinality(Earlier(r, W))
      BY <1>4, <1>6, <2>2, <2>3, <3>1, <3>3, <3>8, StillToCome
    <3>10. QED BY <3>2, <3>9
  <2>6. QED BY <2>4, <2>5
<1>15. QED BY <1>8, <1>9, <1>10, <1>13, <1>14 DEF IInv

LEMMA Inductive == IInv /\ [Next]_vars => IInv'
<1> SUFFICES ASSUME IInv, [Next]_vars PROVE IInv'
  OBVIOUS
<1>1. ASSUME NEW e \in Events, Save(e) PROVE IInv'
  BY <1>1, SaveStep
<1>2. ASSUME NEW f \in Filters, Get(f) PROVE IInv'
  BY <1>2, GetStep
<1>3. CASE UNCHANGED vars
  BY <1>3
  DEF IInv, TypeOK, Answered, Grown, Paged, Unlost, NoTies, vars
<1>4. QED BY <1>1, <1>2, <1>3 DEF Next

LEMMA Invariance == Spec => []IInv
<1>1. Init => IInv
  BY Start
<1>2. QED BY <1>1, Inductive, PTL DEF Spec

-------------------------------------------------------------------------------
(* The theorems.                                                           *)

\* An answer shows nothing that was not in the table, and fits into a message.
THEOREM TypeCorrect == Spec => []TypeOK
<1>1. IInv => TypeOK
  BY DEF IInv
<1>2. QED BY <1>1, Invariance, PTL

\* What an answer says of the filter it was given for.
LEMMA AnswerKnown ==
  ASSUME IInv, request # Absent
  PROVE  /\ IsWindow(answer, Wanted(request), request) /\ request \in Options
         /\ Wanted(request) = WantedIn(last, request)
         /\ Wanted(request) \subseteq Rows /\ IsFiniteSet(Wanted(request))
         /\ answer = Error \/ answer \in Seq(Wanted(request))
<1> DEFINE W == Wanted(request)
<1>1. request \in Options
  BY QueryAssumption DEF IInv, TypeOK, QueryAssumption
<1>2. W = WantedIn(last, request)
  BY DEF Wanted, WantedIn
<1>3. W \subseteq Rows /\ IsFiniteSet(W)
  <2>1. W \subseteq table
    BY DEF Wanted, IInv, TypeOK
  <2>2. QED BY <2>1, FS_Subset DEF IInv, TypeOK, Grown
<1>4. PICK s \in Ordered(last, Conveyed(request)) :
         answer = Received(GetEvents(Conveyed(request), s))
  BY DEF IInv, Answered
<1>5. s \in SetToSeqs(W) /\ Ascending(s)
  BY <1>1, <1>2, <1>4, AllOptions, MatchingIsWanted DEF Ordered
<1> HIDE DEF W
<1>6. IsWindow(answer, W, request) /\ (answer = Error \/ answer \in Seq(W))
  BY <1>1, <1>3, <1>4, <1>5, AnswerOf
<1>7. QED BY <1>1, <1>2, <1>3, <1>6 DEF W

\* Through five conversions of every limit and offset that an int may hold, the
\* statement and the response, an answer is the window that was asked for.
THEOREM AnswersAreWindows == Spec => []AnswerIsWindow
<1>1. ASSUME IInv, request # Absent, Documented(request) PROVE AnswerFits(request)
  <2> DEFINE limit == IF request.limit = Absent THEN MaxEvents ELSE request.limit
             skip  == IF request.offset = Absent THEN 0 ELSE request.offset
  <2>1. IsWindow(answer, Wanted(request), request) /\ request \in Options
    BY <1>1, AnswerKnown
  <2>2. limit \in Int /\ skip \in Int /\ limit >= 0 /\ skip >= 0
    BY <1>1, <2>1, FilterAssumption DEF Documented, Options, Optional, FilterAssumption
  <2>3. ~ limit < 0 /\ ~ skip < 0
    BY <2>2
  <2>4. QED BY <2>1, <2>3 DEF IsWindow, AnswerFits
<1>2. IInv => AnswerIsWindow
  BY <1>1 DEF AnswerIsWindow
<1>3. QED BY <1>2, Invariance, PTL

\* Once the last page is there, nothing is left that the pages have not reached.
LEMMA ReachedTheEnd ==
  ASSUME IInv, ListEnds
  PROVE  /\ request # Absent /\ seen # Absent /\ seen \in Seq(Rows)
         /\ Len(seen) >= Cardinality(Wanted(request)) /\ Len(seen) \in Nat
<1> DEFINE n == Cardinality(Wanted(request))
           skip == IF request.offset = Absent THEN 0 ELSE request.offset
           left == n - Lesser(skip, n)
<1>1. request # Absent /\ seen # Absent /\ request.limit # Absent /\ request.limit > Len(answer)
  BY DEF ListEnds
<1>2. /\ IsWindow(answer, Wanted(request), request) /\ request \in Options
      /\ IsFiniteSet(Wanted(request))
      /\ answer = Error \/ answer \in Seq(Wanted(request))
  BY <1>1, AnswerKnown
<1>3. answer # Error /\ seen \in Seq(Rows) /\ Len(seen) = Len(answer) + skip
  BY <1>1 DEF IInv, Paged
<1>4. /\ ~ skip < 0
      /\ Len(answer) = IF request.limit < 0 THEN left ELSE Lesser(request.limit, left)
  BY <1>1, <1>2, <1>3 DEF IsWindow
<1>5. n \in Nat /\ Len(answer) \in Nat /\ Len(seen) \in Nat
  BY <1>2, <1>3, FS_CardinalityType
<1>6. skip \in Int /\ request.limit \in Int
  BY <1>1, <1>2, FilterAssumption DEF Options, Optional, FilterAssumption
<1> HIDE DEF n, skip
<1>7. Len(seen) >= n
  BY <1>1, <1>3, <1>4, <1>5, <1>6 DEF Lesser
<1>8. QED BY <1>1, <1>3, <1>5, <1>7 DEF n

\* Pages show every event once, for tables and pages of every size, as long as no
\* timestamps coincide and what is saved while they are read is the latest.
THEOREM StablePagesAddUp == Spec => []StablePagesComplete
<1>1. ASSUME IInv, ListEnds, NoTies, appended PROVE ListIsComplete
  <2> DEFINE W == Wanted(request)
  <2>1. /\ request # Absent /\ seen # Absent /\ seen \in Seq(Rows)
        /\ Len(seen) >= Cardinality(W) /\ Len(seen) \in Nat
    BY <1>1, ReachedTheEnd
  <2>2. W = WantedIn(last, request) /\ IsFiniteSet(W)
    BY <1>1, <2>1, AnswerKnown
  <2>3. IsInjective(seen) /\ Bottom(ToSet(seen), W)
    BY <1>1, <2>1, <2>2 DEF IInv, Paged
  <2> HIDE DEF W
  <2>4. ToSet(seen) \subseteq W /\ Cardinality(ToSet(seen)) = Len(seen)
    BY <2>1, <2>3, SizeOfList DEF Bottom
  <2>5. Cardinality(ToSet(seen)) <= Cardinality(W) /\ Cardinality(W) \in Nat
    BY <2>2, <2>4, FS_Subset, FS_CardinalityType
  <2>6. Cardinality(ToSet(seen)) = Cardinality(W)
    BY <2>1, <2>4, <2>5
  <2>7. ToSet(seen) = W
    BY <2>2, <2>4, <2>6, FS_Subset
  <2>8. QED BY <2>3, <2>7 DEF ListIsComplete, W
<1>2. IInv => StablePagesComplete
  BY <1>1 DEF StablePagesComplete
<1>3. QED BY <1>2, Invariance, PTL

\* However early the timestamps of what is saved between two pages: none of the
\* events that were there when the first was read is lost.
THEOREM OldRowsAreNotLost == Spec => []OldRowsAreShown
<1>1. ASSUME IInv, ListEnds, NoTies, NEW r \in Wanted(request), r \in first
      PROVE  r \in ToSet(seen)
  <2> DEFINE W == WantedIn(last, request)
  <2>1. /\ request # Absent /\ seen # Absent
        /\ Len(seen) >= Cardinality(Wanted(request)) /\ Len(seen) \in Nat
    BY <1>1, ReachedTheEnd
  <2>2. Wanted(request) = W /\ IsFiniteSet(W) /\ W \subseteq Rows
    BY <1>1, <2>1, AnswerKnown
  <2>3. SUFFICES ASSUME r \notin ToSet(seen) PROVE FALSE
    OBVIOUS
  <2>4. r \in WantedIn(first, request)
    BY <1>1, <2>2 DEF WantedIn
  <2>5. Len(seen) <= Cardinality(Earlier(r, W))
    BY <1>1, <2>1, <2>3, <2>4 DEF IInv, Unlost
  <2> HIDE DEF W
  <2>6. r \notin Earlier(r, W) /\ r \in W
    <3>1. r \in W /\ r.timestamp_utc \in Int
      BY <2>2 DEF Rows
    <3>2. QED BY <3>1 DEF Earlier
  <2>7. Cardinality(W \ {r}) = Cardinality(W) - 1 /\ IsFiniteSet(W \ {r})
    BY <2>2, <2>6, FS_RemoveElement
  <2>8. Earlier(r, W) \subseteq W \ {r}
    BY <2>6 DEF Earlier
  <2>9. Cardinality(Earlier(r, W)) <= Cardinality(W) - 1
    BY <2>7, <2>8, FS_Subset
  <2>10. QED BY <2>1, <2>2, <2>5, <2>9, EarlierSize
<1>2. IInv => OldRowsAreShown
  BY <1>1 DEF OldRowsAreShown
<1>3. QED BY <1>2, Invariance, PTL
===============================================================================
