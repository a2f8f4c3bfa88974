---------------------------- MODULE FilterCliProofs ----------------------------
(***************************************************************************)
(* Proofs about FilterCli, for lines and files of every length: what the   *)
(* tokenizer and the parser of options make of a line, and that Get and    *)
(* Stats print what the log files say.                                     *)
(***************************************************************************)
EXTENDS FilterCli, EventFilterProofs

-------------------------------------------------------------------------------
(* Loops: an invariant holds after every round, and the state after each   *)
(* round is what the recursive definition says. The sets P and step stand  *)
(* for a predicate and for the body of the loop.                           *)

Less == {p \in Nat \X Nat : p[1] < p[2]}

LEMMA LessWellFounded == IsWellFoundedOn(Less, Nat)
<1>1. Less = OpToRel(<, Nat)
  BY DEF Less, OpToRel
<1>2. QED BY <1>1, NatLessThanWellFounded

LEMMA Induction ==
  ASSUME NEW a \in Nat, NEW b, b = a + 1, NEW n \in Nat, NEW P, a \in P,
         \A i \in b .. n : i - 1 \in P => i \in P
  PROVE  \A i \in a .. n : i \in P
<1> DEFINE T == {i \in a .. n : i \notin P}
<1>1. SUFFICES ASSUME T # {} PROVE FALSE
  OBVIOUS
<1>2. T \subseteq Nat
  OBVIOUS
<1>3. PICK x \in T : \A y \in T : ~ (<<y, x>> \in Less)
  <2> HIDE DEF T
  <2>1. QED BY <1>1, <1>2, LessWellFounded, WFMin
<1>4. x \in b .. n
  OBVIOUS
<1>5. x - 1 \in T => <<x - 1, x>> \in Less
  BY <1>4 DEF Less
<1>6. x - 1 \in P
  BY <1>3, <1>4, <1>5
<1>7. QED BY <1>4, <1>6

\* The body of each round of a loop, and what g is then after each of them.
Bodies(S, I) == [I -> [S -> S]]
Runs(g, S, base, step, a, b, n) ==
  g \in [a .. n -> S] /\ g[a] = base /\ \A i \in b .. n : g[i] = step[i][g[i - 1]]

LEMMA Recursion ==
  ASSUME NEW S, NEW base \in S, NEW a \in Nat, NEW b, b = a + 1, NEW n \in Nat, a <= n,
         NEW step \in Bodies(S, b .. n)
  PROVE  \E g : Runs(g, S, base, step, a, b, n)
<1> USE DEF Bodies
<1> DEFINE Is(g, m) == /\ g \in [a .. m -> S] /\ g[a] = base
                       /\ \A i \in b .. m : g[i] = step[i][g[i - 1]]
           P == {m \in a .. n : \E g : Is(g, m)}
<1>1. a \in P
  <2> DEFINE g0 == [i \in a .. a |-> base]
  <2>1. Is(g0, a)
    OBVIOUS
  <2> HIDE DEF Is, g0
  <2>2. QED BY <2>1
<1>2. ASSUME NEW m \in b .. n, m - 1 \in P PROVE m \in P
  <2>1. PICK g : Is(g, m - 1)
    BY <1>2
  <2> DEFINE h == [i \in a .. m |-> IF i < m THEN g[i] ELSE step[m][g[m - 1]]]
  <2>2. g[m - 1] \in S /\ step[m][g[m - 1]] \in S
    BY <2>1
  <2>3. \A i \in a .. m : h[i] \in S
    BY <2>1, <2>2
  <2>4. h \in [a .. m -> S] /\ h[a] = base
    BY <2>1, <2>3
  <2>5. ASSUME NEW i \in b .. m PROVE h[i] = step[i][h[i - 1]]
    <3>1. CASE i < m
      BY <2>1, <3>1
    <3>2. CASE i = m
      <4>1. h[m] = step[m][g[m - 1]] /\ h[m - 1] = g[m - 1]
        OBVIOUS
      <4>2. QED BY <3>2, <4>1
    <3>3. QED BY <3>1, <3>2
  <2> HIDE DEF h
  <2>6. Is(h, m)
    BY <2>4, <2>5
  <2>7. QED BY <2>6
<1>3. n \in P
  <2> HIDE DEF P
  <2>1. \A i \in b .. n : i - 1 \in P => i \in P
    BY <1>2
  <2>2. \A i \in a .. n : i \in P
    BY <1>1, <2>1, Induction
  <2>3. QED BY <2>2
<1>4. PICK g : Is(g, n)
  BY <1>3
<1>5. QED BY <1>4 DEF Runs

-------------------------------------------------------------------------------
(* Extract.                                                                *)

Rank(I, i) == Cardinality({j \in I : j <= i})
Place(I, p) == CHOOSE i \in I : Rank(I, i) = p

LEMMA Extracted ==
  ASSUME NEW s, NEW I, IsFiniteSet(I)
  PROVE  /\ Extract(s, I) = [p \in 1 .. Cardinality(I) |-> s[Place(I, p)]]
         /\ DOMAIN Extract(s, I) = 1 .. Cardinality(I) /\ Cardinality(I) \in Nat
  BY FS_CardinalityType DEF Extract, Place, Rank

LEMMA Ranks ==
  ASSUME NEW I \in SUBSET Int, IsFiniteSet(I)
  PROVE  /\ \A i \in I : Rank(I, i) \in 1 .. Cardinality(I)
         /\ \A i, j \in I : i < j => Rank(I, i) < Rank(I, j)
<1>1. Cardinality(I) \in Nat
  BY FS_CardinalityType
<1>2. ASSUME NEW i \in I PROVE Rank(I, i) \in 1 .. Cardinality(I)
  <2> DEFINE L == {j \in I : j <= i}
  <2>1. L \in SUBSET I /\ i \in L
    OBVIOUS
  <2> HIDE DEF L
  <2>2. IsFiniteSet(L) /\ Cardinality(L) <= Cardinality(I) /\ Cardinality(L) \in Nat
    BY <2>1, FS_Subset, FS_CardinalityType
  <2>3. Cardinality(L) # 0
    BY <2>1, <2>2, FS_EmptySet
  <2>4. QED BY <1>1, <2>2, <2>3 DEF Rank, L
<1>3. ASSUME NEW i \in I, NEW j \in I, i < j PROVE Rank(I, i) < Rank(I, j)
  <2> DEFINE L == {k \in I : k <= i}
             M == {k \in I : k <= j}
  <2>1. M \in SUBSET I /\ L \in SUBSET M /\ L # M
    <3>1. j \in M /\ j \notin L
      BY <1>3
    <3>2. \A k \in L : k \in M
      BY <1>3
    <3>3. QED BY <3>1, <3>2
  <2> HIDE DEF L, M
  <2>2. IsFiniteSet(M)
    BY <2>1, FS_Subset
  <2>3. /\ IsFiniteSet(L) /\ Cardinality(L) <= Cardinality(M)
        /\ Cardinality(M) = Cardinality(L) => M = L
    BY <2>1, <2>2, FS_Subset
  <2>4. Cardinality(L) < Cardinality(M)
    BY <2>1, <2>2, <2>3, FS_CardinalityType
  <2>5. QED BY <2>4 DEF Rank, L, M
<1>4. QED BY <1>2, <1>3

LEMMA Places ==
  ASSUME NEW I \in SUBSET Int, IsFiniteSet(I)
  PROVE  /\ \A p \in 1 .. Cardinality(I) : Place(I, p) \in I /\ Rank(I, Place(I, p)) = p
         /\ \A i \in I : Place(I, Rank(I, i)) = i
<1> DEFINE N == 1 .. Cardinality(I)
           f == [i \in I |-> Rank(I, i)]
<1>1. Cardinality(I) \in Nat
  BY FS_CardinalityType
<1>2. \A i, j \in I : Rank(I, i) = Rank(I, j) => i = j
  <2>1. TAKE i, j \in I
  <2>2. Rank(I, i) \in Int /\ Rank(I, j) \in Int /\ i \in Int /\ j \in Int
    BY Ranks
  <2>3. (i < j => Rank(I, i) < Rank(I, j)) /\ (j < i => Rank(I, j) < Rank(I, i))
    BY Ranks
  <2>4. QED BY <2>2, <2>3
<1>3. f \in Injection(I, N)
  BY <1>2, Ranks DEF Injection, IsInjective
<1>4. IsFiniteSet(N) /\ Cardinality(N) = Cardinality(I)
  BY <1>1, FS_Interval
<1>5. f \in Surjection(I, N)
  BY <1>3, <1>4, FS_Injection
<1>6. \A p \in N : \E i \in I : Rank(I, i) = p
  BY <1>5 DEF Surjection
<1>7. \A p \in N : Place(I, p) \in I /\ Rank(I, Place(I, p)) = p
  BY <1>6 DEF Place
<1>8. \A i \in I : Place(I, Rank(I, i)) = i
  BY <1>2, <1>7, Ranks
<1>9. QED BY <1>7, <1>8

LEMMA ExtractNothing == ASSUME NEW s PROVE Extract(s, {}) = << >>
<1>1. IsFiniteSet({}) /\ Cardinality({}) = 0
  BY FS_EmptySet
<1>2. QED BY <1>1 DEF Extract

LEMMA ExtractGrows ==
  ASSUME NEW s, NEW I \in SUBSET Int, IsFiniteSet(I), NEW m \in Int, \A i \in I : i < m
  PROVE  Extract(s, I \cup {m}) = Append(Extract(s, I), s[m])
<1> DEFINE J == I \cup {m}
           n == Cardinality(I)
<1>1. m \notin I /\ J \in SUBSET Int
  OBVIOUS
<1>2. n \in Nat /\ IsFiniteSet(J) /\ Cardinality(J) = n + 1
  BY <1>1, FS_CardinalityType, FS_AddElement
<1>3. ASSUME NEW i \in I PROVE Rank(J, i) = Rank(I, i)
  <2>1. {j \in J : j <= i} = {j \in I : j <= i}
    OBVIOUS
  <2>2. QED BY <2>1 DEF Rank
<1>4. Rank(J, m) = n + 1
  <2>1. \A j \in J : j <= m
    OBVIOUS
  <2>2. {j \in J : j <= m} = J
    BY <2>1
  <2>3. QED BY <1>2, <2>2 DEF Rank
<1> HIDE DEF n, J
<1>5. Place(J, n + 1) = m
  BY <1>1, <1>2, <1>4, Places DEF J
<1>6. ASSUME NEW p \in 1 .. n PROVE Place(J, p) = Place(I, p)
  <2>1. Place(I, p) \in I /\ Rank(I, Place(I, p)) = p
    BY Places DEF n
  <2>2. Rank(J, Place(I, p)) = p /\ Place(I, p) \in J
    BY <1>3, <2>1 DEF J
  <2>3. QED BY <1>1, <1>2, <2>2, Places
<1>7. Extract(s, J) = [p \in 1 .. n + 1 |-> s[Place(J, p)]]
  BY <1>2, Extracted
<1>8. Extract(s, I) = [p \in 1 .. n |-> s[Place(I, p)]]
  BY Extracted DEF n
<1>9. Append(Extract(s, I), s[m]) = [p \in 1 .. n + 1 |-> s[Place(J, p)]]
  <2>1. Len(Extract(s, I)) = n
    BY <1>2, <1>8
  <2>2. Append(Extract(s, I), s[m])
          = [p \in 1 .. n + 1 |-> IF p <= n THEN Extract(s, I)[p] ELSE s[m]]
    BY <1>2, <1>8, <2>1
  <2>3. \A p \in 1 .. n + 1 :
           (IF p <= n THEN Extract(s, I)[p] ELSE s[m]) = s[Place(J, p)]
    BY <1>2, <1>5, <1>6, <1>8
  <2>4. QED BY <2>2, <2>3
<1>10. QED BY <1>7, <1>9 DEF J

LEMMA ExtractSame ==
  ASSUME NEW s, NEW t, NEW I \in SUBSET Int, IsFiniteSet(I), \A i \in I : s[i] = t[i]
  PROVE  Extract(s, I) = Extract(t, I)
<1>1. \A p \in 1 .. Cardinality(I) : s[Place(I, p)] = t[Place(I, p)]
  BY Places
<1>2. QED BY <1>1, Extracted

\* The number of places of P before i.
Below(P, i) == Cardinality({j \in P : j < i})

LEMMA Counting ==
  ASSUME NEW n \in Nat, NEW P, \A j \in P : j \in 1 .. n
  PROVE  /\ Below(P, 1) = 0
         /\ \A i \in 1 .. n + 1 : Below(P, i) \in 0 .. i - 1
         /\ \A i \in 1 .. n : Below(P, i + 1) = IF i \in P THEN Below(P, i) + 1 ELSE Below(P, i)
         /\ \A i, j \in 1 .. n + 1 : i <= j => Below(P, i) <= Below(P, j)
<1>1. \A j \in P : j \in Int /\ 1 <= j /\ j <= n
  OBVIOUS
<1>2. Below(P, 1) = 0
  <2>1. {j \in P : j < 1} = {}
    BY <1>1
  <2>2. QED BY <2>1, FS_EmptySet DEF Below
<1>3. ASSUME NEW i \in 1 .. n + 1
      PROVE  /\ Below(P, i) \in 0 .. i - 1
             /\ IsFiniteSet({j \in P : j < i}) /\ Cardinality({j \in P : j < i}) \in Nat
  <2>1. PICK B : B = {j \in P : j < i}
    OBVIOUS
  <2>2. i - 1 \in Int /\ i - 1 >= 0
    OBVIOUS
  <2>3. PICK k \in Nat : k = i - 1
    BY <2>2
  <2>4. IsFiniteSet(1 .. k) /\ Cardinality(1 .. k) = k
    <3>1. 1 \in Int /\ k \in Int /\ (IF 1 > k THEN 0 ELSE k - 1 + 1) = k
      BY <2>3
    <3>2. QED BY <3>1, FS_Interval
  <2>5. B \in SUBSET (1 .. k)
    BY <1>1, <2>1, <2>3
  <2>6. IsFiniteSet(B) /\ Cardinality(B) <= k /\ Cardinality(B) \in Nat
    BY <2>4, <2>5, FS_Subset, FS_CardinalityType
  <2>7. QED BY <2>1, <2>3, <2>6 DEF Below
<1>4. ASSUME NEW i \in 1 .. n
      PROVE  Below(P, i + 1) = IF i \in P THEN Below(P, i) + 1 ELSE Below(P, i)
  <2>1. PICK B : B = {j \in P : j < i}
    OBVIOUS
  <2>2. IsFiniteSet(B) /\ Below(P, i) = Cardinality(B)
    <3>1. i \in 1 .. n + 1
      OBVIOUS
    <3>2. QED BY <1>3, <2>1, <3>1 DEF Below
  <2>3. CASE i \in P
    <3>1. {j \in P : j < i + 1} = B \cup {i} /\ i \notin B
      <4>1. i \notin B /\ i \in Int
        BY <2>1
      <4>2. \A j \in P : j < i + 1 <=> j < i \/ j = i
        BY <1>1
      <4>3. \A j : j \in {k \in P : k < i + 1} <=> j \in B \cup {i}
        BY <2>1, <2>3, <4>2
      <4>4. QED BY <4>1, <4>3
    <3>2. Cardinality(B \cup {i}) = Cardinality(B) + 1
      BY <2>2, <3>1, FS_AddElement
    <3>3. QED BY <2>2, <2>3, <3>1, <3>2 DEF Below
  <2>4. CASE i \notin P
    <3>1. {j \in P : j < i + 1} = B
      BY <1>1, <2>1, <2>4
    <3>2. QED BY <2>2, <2>4, <3>1 DEF Below
  <2>5. QED BY <2>3, <2>4
<1>5. ASSUME NEW i \in 1 .. n + 1, NEW j \in 1 .. n + 1, i <= j
      PROVE  Below(P, i) <= Below(P, j)
  <2>1. PICK B, D : B = {k \in P : k < i} /\ D = {k \in P : k < j}
    OBVIOUS
  <2>2. B \in SUBSET D
    BY <1>1, <1>5, <2>1
  <2>3. IsFiniteSet(D)
    BY <1>3, <2>1
  <2>4. Cardinality(B) <= Cardinality(D)
    BY <2>2, <2>3, FS_Subset
  <2>5. QED BY <2>1, <2>4 DEF Below
<1>6. QED BY <1>2, <1>3, <1>4, <1>5

-------------------------------------------------------------------------------
(* The tokenizer.                                                          *)

\* The values of its variables on a line of chunks of C.
ReadStates(C) == [args : Seq(Seq(C)), curr_arg : Seq(C), in_quotes : BOOLEAN]

LEMMA ReadTypes ==
  ASSUME NEW C, NEW t \in ReadStates(C)
  PROVE  EndArg(t) \in ReadStates(C) /\ \A c \in C : ReadChunk(t, c) \in ReadStates(C)
<1>1. t.args \in Seq(Seq(C)) /\ t.curr_arg \in Seq(C) /\ t.in_quotes \in BOOLEAN
  BY DEF ReadStates
<1>2. EndArg(t) \in ReadStates(C)
  <2>1. Append(t.args, t.curr_arg) \in Seq(Seq(C)) /\ << >> \in Seq(C)
    BY <1>1, AppendProperties, EmptySeq
  <2>2. QED BY <1>1, <2>1 DEF EndArg, ReadStates
<1>3. ASSUME NEW c \in C PROVE ReadChunk(t, c) \in ReadStates(C)
  <2>1. Append(t.curr_arg, c) \in Seq(C)
    BY <1>1, AppendProperties
  <2>2. CASE c = Quote
    <3>1. ReadChunk(t, c) = [t EXCEPT !.in_quotes = ~t.in_quotes]
      BY <1>1, <2>2, CliAssumption DEF ReadChunk, CliAssumption
    <3>2. QED BY <3>1 DEF ReadStates
  <2>3. CASE c # Quote /\ c = Space /\ ~t.in_quotes
    BY <1>2, <2>3 DEF ReadChunk
  <2>4. CASE c # Quote /\ ~(c = Space /\ ~t.in_quotes)
    <3>1. ReadChunk(t, c) = [t EXCEPT !.curr_arg = Append(t.curr_arg, c)]
      BY <2>4 DEF ReadChunk
    <3>2. QED BY <2>1, <3>1 DEF ReadStates
  <2>5. QED BY <2>2, <2>3, <2>4
<1>4. QED BY <1>2, <1>3

LEMMA ReadingSteps ==
  ASSUME NEW C, NEW l \in Seq(C)
  PROVE  /\ Reading(l)[0] = [args |-> << >>, curr_arg |-> << >>, in_quotes |-> FALSE]
         /\ \A i \in 1 .. Len(l) : Reading(l)[i] = ReadChunk(Reading(l)[i - 1], l[i])
         /\ \A i \in 0 .. Len(l) : Reading(l)[i] \in ReadStates(C)
<1> DEFINE base == [args |-> << >>, curr_arg |-> << >>, in_quotes |-> FALSE]
           S == ReadStates(C)
           n == Len(l)
           step == [i \in 1 .. n |-> [t \in S |-> ReadChunk(t, l[i])]]
<1>1. n \in Nat /\ base \in S /\ \A i \in 1 .. n : l[i] \in C
  BY DEF ReadStates
<1>2. step \in Bodies(S, 1 .. n)
  <2>1. \A i \in 1 .. n, t \in S : ReadChunk(t, l[i]) \in S
    BY <1>1, ReadTypes
  <2> HIDE DEF S, n
  <2>2. \A i \in 1 .. n : [t \in S |-> ReadChunk(t, l[i])] \in [S -> S]
    BY <2>1
  <2>3. QED BY <2>2 DEF Bodies
<1>3. PICK g : Runs(g, S, base, step, 0, 1, n)
  <2>1. n \in Nat /\ base \in S /\ 0 \in Nat /\ 0 <= n /\ 1 = 0 + 1
    BY <1>1
  <2> HIDE DEF S, base, n, step
  <2>2. QED BY <1>2, <2>1, Recursion
<1> HIDE DEF base, S, n
<1>4. g = [i \in 0 .. n |-> IF i = 0 THEN base ELSE ReadChunk(g[i - 1], l[i])]
  <2>1. ASSUME NEW i \in 1 .. n PROVE step[i][g[i - 1]] = ReadChunk(g[i - 1], l[i])
    <3>1. g[i - 1] \in S
      <4>1. i - 1 \in 0 .. n
        BY <1>1
      <4>2. QED BY <1>3, <4>1 DEF Runs
    <3>2. step[i] = [t \in S |-> ReadChunk(t, l[i])]
      OBVIOUS
    <3>3. QED BY <3>1, <3>2
  <2> HIDE DEF step
  <2>2. QED BY <1>1, <1>3, <2>1 DEF Runs
<1>5. Reading(l) = [i \in 0 .. n |-> IF i = 0 THEN base ELSE ReadChunk(Reading(l)[i - 1], l[i])]
  BY <1>4 DEF Reading, base, n
<1>6. /\ Reading(l)[0] = base
      /\ \A i \in 1 .. n : Reading(l)[i] = ReadChunk(Reading(l)[i - 1], l[i])
  BY <1>1, <1>5
<1>7. \A i \in 0 .. n : Reading(l)[i] \in S
  <2> DEFINE P == {i \in 0 .. n : Reading(l)[i] \in S}
  <2>1. 0 \in P /\ 0 \in Nat /\ 1 = 0 + 1
    BY <1>1, <1>6
  <2>2. \A i \in 1 .. n : i - 1 \in P => i \in P
    <3>1. TAKE i \in 1 .. n
    <3>2. HAVE i - 1 \in P
    <3>3. Reading(l)[i - 1] \in S /\ l[i] \in C
      BY <1>1, <3>2
    <3>4. ReadChunk(Reading(l)[i - 1], l[i]) \in S
      BY <3>3, ReadTypes DEF S
    <3>5. QED BY <1>6, <3>4
  <2> HIDE DEF P
  <2>3. \A i \in 0 .. n : i \in P
    BY <1>1, <2>1, <2>2, Induction
  <2>4. QED BY <2>3 DEF P
<1>8. QED BY <1>6, <1>7 DEF base, S, n

LEMMA TokensType ==
  ASSUME NEW C, NEW l \in Seq(C)
  PROVE  Tokens(l) \in Seq(Seq(C))
<1>1. Len(l) \in 0 .. Len(l)
  OBVIOUS
<1>2. EndArg(Reading(l)[Len(l)]) \in ReadStates(C)
  BY <1>1, ReadingSteps, ReadTypes
<1>3. QED BY <1>2 DEF Tokens, ReadStates

LEMMA NoTokens == Tokens(<< >>) = << >>
<1>1. << >> \in Seq({}) /\ Len(<< >>) = 0
  OBVIOUS
<1>2. Reading(<< >>)[0] = [args |-> << >>, curr_arg |-> << >>, in_quotes |-> FALSE]
  BY <1>1, ReadingSteps
<1>3. QED BY <1>1, <1>2 DEF Tokens, EndArg

\* The number of the field that place i is in or ends.
FieldAt(l, i) == Below(Separators(l), i)
Fields(l) == [k \in 0 .. Len(l) |-> Extract(l, Own(l, k))]

LEMMA Quotes ==
  ASSUME NEW C, NEW l \in Seq(C), NEW i \in 1 .. Len(l) + 1
  PROVE  QuotesBefore(l, i) = Below({j \in DOMAIN l : l[j] = Quote}, i)
<1>1. {j \in 1 .. i - 1 : l[j] = Quote} = {j \in {j \in DOMAIN l : l[j] = Quote} : j < i}
  OBVIOUS
<1>2. QED BY <1>1 DEF QuotesBefore, Below

LEMMA FieldCounting ==
  ASSUME NEW C, NEW l \in Seq(C)
  PROVE  /\ FieldAt(l, 1) = 0 /\ QuotesBefore(l, 1) = 0
         /\ \A i \in 1 .. Len(l) + 1 : FieldAt(l, i) \in 0 .. i - 1
         /\ \A i \in 1 .. Len(l) :
              FieldAt(l, i + 1) = IF i \in Separators(l) THEN FieldAt(l, i) + 1 ELSE FieldAt(l, i)
         /\ \A i \in 1 .. Len(l) + 1 : QuotesBefore(l, i) \in Nat
         /\ \A i \in 1 .. Len(l) :
              QuotesBefore(l, i + 1)
                = IF l[i] = Quote THEN QuotesBefore(l, i) + 1 ELSE QuotesBefore(l, i)
         /\ \A i, j \in 1 .. Len(l) + 1 : i <= j => FieldAt(l, i) <= FieldAt(l, j)
<1>1. PICK n : n \in Nat /\ n = Len(l) /\ DOMAIN l = 1 .. n
  OBVIOUS
<1>2. PICK Q : Q = {j \in DOMAIN l : l[j] = Quote}
  OBVIOUS
<1>3. (\A j \in Q : j \in 1 .. n) /\ \A j \in Separators(l) : j \in 1 .. n
  BY <1>1, <1>2 DEF Separators
<1>4. \A i \in 1 .. n + 1 : QuotesBefore(l, i) = Below(Q, i)
  BY <1>1, <1>2, Quotes
<1>5. /\ Below(Q, 1) = 0
      /\ \A i \in 1 .. n + 1 : Below(Q, i) \in 0 .. i - 1
      /\ \A i \in 1 .. n : Below(Q, i + 1) = IF i \in Q THEN Below(Q, i) + 1 ELSE Below(Q, i)
      /\ \A i, j \in 1 .. n + 1 : i <= j => Below(Q, i) <= Below(Q, j)
  BY <1>1, <1>3, Counting
<1>6. 1 \in 1 .. n + 1 /\ \A i \in 1 .. n : i \in 1 .. n + 1 /\ i + 1 \in 1 .. n + 1
  BY <1>1
<1>7. QuotesBefore(l, 1) = 0 /\ \A i \in 1 .. n + 1 : QuotesBefore(l, i) \in Nat
  BY <1>4, <1>5, <1>6
<1>8. \A i \in 1 .. n :
        QuotesBefore(l, i + 1)
          = IF l[i] = Quote THEN QuotesBefore(l, i) + 1 ELSE QuotesBefore(l, i)
  BY <1>1, <1>2, <1>4, <1>5, <1>6
<1>9. /\ FieldAt(l, 1) = 0
      /\ \A i \in 1 .. n + 1 : FieldAt(l, i) \in 0 .. i - 1
      /\ \A i \in 1 .. n :
           FieldAt(l, i + 1) = IF i \in Separators(l) THEN FieldAt(l, i) + 1 ELSE FieldAt(l, i)
      /\ \A i, j \in 1 .. n + 1 : i <= j => FieldAt(l, i) <= FieldAt(l, j)
  BY <1>1, <1>3, Counting DEF FieldAt
<1>10. QED BY <1>1, <1>7, <1>8, <1>9

LEMMA OwnPlaces ==
  ASSUME NEW C, NEW l \in Seq(C), NEW k
  PROVE  /\ \A j : j \in Own(l, k) <=> /\ j \in 1 .. Len(l) /\ j \notin Separators(l)
                                       /\ l[j] # Quote /\ FieldAt(l, j) = k
         /\ Own(l, k) \in SUBSET Int /\ IsFiniteSet(Own(l, k))
         /\ NonEmpty(l) \in SUBSET Int /\ IsFiniteSet(NonEmpty(l))
         /\ \A f : f \in NonEmpty(l) <=> f \in 0 .. Len(l) /\ Own(l, f) # {}
<1>1. PICK n \in Nat : n = Len(l) /\ DOMAIN l = 1 .. n
  OBVIOUS
<1>2. \A j : j \in Own(l, k) <=> /\ j \in 1 .. Len(l) /\ j \notin Separators(l)
                                 /\ l[j] # Quote /\ FieldAt(l, j) = k
  BY <1>1 DEF Own, FieldAt, Below
<1>3. IsFiniteSet(1 .. n) /\ IsFiniteSet(0 .. n)
  BY FS_Interval
<1>4. Own(l, k) \in SUBSET (1 .. n)
  BY <1>1, <1>2
<1>5. \A f : f \in NonEmpty(l) <=> f \in 0 .. Len(l) /\ Own(l, f) # {}
  BY DEF NonEmpty
<1>6. NonEmpty(l) \in SUBSET (0 .. n)
  BY <1>1, <1>5
<1>7. Own(l, k) \in SUBSET Int /\ NonEmpty(l) \in SUBSET Int
  BY <1>4, <1>6
<1>8. IsFiniteSet(Own(l, k)) /\ IsFiniteSet(NonEmpty(l))
  BY <1>3, <1>4, <1>6, FS_Subset
<1>9. QED BY <1>2, <1>5, <1>7, <1>8

\* The fields before field k that are not empty are arguments.
Arguments(l, k) == Extract(Fields(l), {f \in NonEmpty(l) : f < k})

LEMMA FieldEnds ==
  ASSUME NEW C, NEW l \in Seq(C), NEW k \in 0 .. Len(l), NEW t,
         t.curr_arg = Extract(l, Own(l, k)), t.args = Arguments(l, k), t.in_quotes \in BOOLEAN
  PROVE  /\ EndArg(t).args = Arguments(l, k + 1)
         /\ EndArg(t).curr_arg = << >> /\ EndArg(t).in_quotes = t.in_quotes
<1>1. PICK I : I = {f \in NonEmpty(l) : f < k}
  OBVIOUS
<1>2. I \in SUBSET Int /\ IsFiniteSet(I) /\ k \in Int /\ \A f \in I : f < k
  <2>1. I \in SUBSET NonEmpty(l)
    BY <1>1
  <2>2. QED BY <1>1, <2>1, OwnPlaces, FS_Subset
<1>3. \A f \in NonEmpty(l) : f < k + 1 <=> f < k \/ f = k
  BY OwnPlaces
<1>4. CASE Own(l, k) = {}
  <2>1. t.curr_arg = << >>
    BY <1>4, ExtractNothing
  <2>2. {f \in NonEmpty(l) : f < k + 1} = I
    BY <1>1, <1>3, <1>4, OwnPlaces
  <2>3. QED BY <1>1, <2>1, <2>2 DEF EndArg, Arguments
<1>5. CASE Own(l, k) # {}
  <2>1. t.curr_arg # << >>
    <3>1. Cardinality(Own(l, k)) # 0 /\ DOMAIN t.curr_arg = 1 .. Cardinality(Own(l, k))
      BY <1>5, OwnPlaces, Extracted, FS_EmptySet
    <3>2. Cardinality(Own(l, k)) \in Nat
      BY OwnPlaces, FS_CardinalityType
    <3>3. DOMAIN << >> = {} /\ 1 \in DOMAIN t.curr_arg
      BY <3>1, <3>2
    <3>4. QED BY <3>3
  <2>2. k \in NonEmpty(l)
    BY <1>5, OwnPlaces
  <2>3. {f \in NonEmpty(l) : f < k + 1} = I \cup {k}
    BY <1>1, <1>3, <2>2
  <2>4. Fields(l)[k] = t.curr_arg
    BY DEF Fields
  <2>5. Append(t.args, t.curr_arg) = Extract(Fields(l), I \cup {k})
    <3>1. Extract(Fields(l), I \cup {k}) = Append(Extract(Fields(l), I), Fields(l)[k])
      BY <1>2, ExtractGrows
    <3>2. t.args = Extract(Fields(l), I)
      BY <1>1 DEF Arguments
    <3>3. QED BY <2>4, <3>1, <3>2
  <2>6. PICK q \in BOOLEAN : q = t.in_quotes
    OBVIOUS
  <2>7. EndArg(t) = [args |-> Append(t.args, t.curr_arg), curr_arg |-> << >>, in_quotes |-> q]
    BY <2>1, <2>6 DEF EndArg
  <2>8. /\ EndArg(t).args = Append(t.args, t.curr_arg)
        /\ EndArg(t).curr_arg = << >> /\ EndArg(t).in_quotes = q
    BY <2>7
  <2>9. QED BY <2>3, <2>5, <2>6, <2>8 DEF Arguments
<1>6. QED BY <1>4, <1>5

\* The variables of the loop after i chunks: it is in quotes if their number is
\* odd, has read the places of its field up to i and has the fields before it.
IsAt(l, i, k, t) ==
  /\ t.in_quotes <=> QuotesBefore(l, i + 1) % 2 = 1
  /\ t.curr_arg = Extract(l, {j \in Own(l, k) : j <= i})
  /\ t.args = Arguments(l, k)

LEMMA Parity == ASSUME NEW n \in Nat PROVE /\ n % 2 = 0 <=> ~(n % 2 = 1)
                                           /\ (n + 1) % 2 = 1 <=> ~(n % 2 = 1)
  OBVIOUS

LEMMA ChunkRead ==
  ASSUME NEW C, NEW l \in Seq(C), NEW i \in 1 .. Len(l), NEW t \in ReadStates(C),
         IsAt(l, i - 1, FieldAt(l, i), t)
  PROVE  IsAt(l, i, FieldAt(l, i + 1), ReadChunk(t, l[i]))
<1>1. PICK k : k = FieldAt(l, i)
  OBVIOUS
<1>2. PICK n \in Nat : n = Len(l) /\ DOMAIN l = 1 .. n
  OBVIOUS
<1>3. /\ k \in 0 .. n /\ k \in Int /\ i \in Int /\ i - 1 + 1 = i
      /\ FieldAt(l, i + 1) = IF i \in Separators(l) THEN k + 1 ELSE k
      /\ QuotesBefore(l, i) \in Nat
      /\ QuotesBefore(l, i + 1)
           = IF l[i] = Quote THEN QuotesBefore(l, i) + 1 ELSE QuotesBefore(l, i)
  <2>1. i \in 1 .. n + 1
    BY <1>2
  <2>2. QED BY <1>1, <1>2, <2>1, FieldCounting
<1>4. /\ t.in_quotes <=> QuotesBefore(l, i) % 2 = 1
      /\ t.curr_arg = Extract(l, {j \in Own(l, k) : j <= i - 1})
      /\ t.args = Arguments(l, k) /\ t.in_quotes \in BOOLEAN
  BY <1>1, <1>3 DEF IsAt, ReadStates
<1>5. i \in Separators(l) <=> l[i] = Space /\ ~t.in_quotes
  BY <1>2, <1>3, <1>4, Parity DEF Separators
<1>6. \A j \in Own(l, k) : j \in Int
  BY OwnPlaces
<1>7. CASE l[i] = Quote
  <2>1. Quote # Space
    BY CliAssumption DEF CliAssumption
  <2>2. ReadChunk(t, l[i]) = [t EXCEPT !.in_quotes = ~t.in_quotes]
    BY <1>4, <1>7, <2>1 DEF ReadChunk
  <2>3. i \notin Own(l, k) /\ i \notin Separators(l)
    BY <1>5, <1>7, <2>1, OwnPlaces
  <2>4. {j \in Own(l, k) : j <= i} = {j \in Own(l, k) : j <= i - 1}
    BY <1>3, <1>6, <2>3
  <2>5. /\ ReadChunk(t, l[i]).in_quotes = ~t.in_quotes
        /\ ReadChunk(t, l[i]).curr_arg = t.curr_arg /\ ReadChunk(t, l[i]).args = t.args
    BY <2>2 DEF ReadStates
  <2>6. ReadChunk(t, l[i]).in_quotes <=> QuotesBefore(l, i + 1) % 2 = 1
    BY <1>3, <1>4, <1>7, <2>5, Parity
  <2>7. FieldAt(l, i + 1) = k
    BY <1>3, <2>3
  <2>8. QED BY <1>4, <2>4, <2>5, <2>6, <2>7 DEF IsAt
<1>8. CASE l[i] # Quote /\ i \in Separators(l)
  <2>1. ReadChunk(t, l[i]) = EndArg(t)
    BY <1>5, <1>8 DEF ReadChunk
  <2>2. FieldAt(l, i + 1) = k + 1 /\ QuotesBefore(l, i + 1) = QuotesBefore(l, i)
    BY <1>3, <1>8
  <2>3. {j \in Own(l, k) : j <= i - 1} = Own(l, k)
    <3>1. ASSUME NEW j \in Own(l, k) PROVE j <= i - 1
      <4>1. j \in 1 .. n /\ FieldAt(l, j) = k /\ j \in Int
        BY <1>2, OwnPlaces
      <4>2. i + 1 <= j => FieldAt(l, i + 1) <= FieldAt(l, j)
        BY <1>2, <1>3, <4>1, FieldCounting
      <4>3. j # i
        BY <1>8, OwnPlaces
      <4>4. QED BY <1>3, <2>2, <4>1, <4>2, <4>3
    <3>2. QED BY <3>1
  <2>4. {j \in Own(l, k + 1) : j <= i} = {}
    <3>1. ASSUME NEW j \in Own(l, k + 1), j <= i PROVE FALSE
      <4>1. j \in 1 .. n /\ FieldAt(l, j) = k + 1 /\ j \in 1 .. n + 1 /\ i \in 1 .. n + 1
        BY <1>2, OwnPlaces
      <4>2. FieldAt(l, j) <= FieldAt(l, i)
        BY <1>2, <3>1, <4>1, FieldCounting
      <4>3. QED BY <1>1, <1>3, <4>1, <4>2
    <3>2. QED BY <3>1
  <2>5. /\ EndArg(t).args = Arguments(l, k + 1) /\ EndArg(t).curr_arg = << >>
        /\ EndArg(t).in_quotes = t.in_quotes
    <3>1. k \in 0 .. Len(l) /\ t.curr_arg = Extract(l, Own(l, k))
      BY <1>2, <1>3, <1>4, <2>3
    <3>2. QED BY <1>4, <3>1, FieldEnds
  <2>6. EndArg(t).in_quotes <=> QuotesBefore(l, i + 1) % 2 = 1
    BY <1>4, <2>2, <2>5
  <2>7. QED BY <2>1, <2>2, <2>4, <2>5, <2>6, ExtractNothing DEF IsAt
<1>9. CASE l[i] # Quote /\ i \notin Separators(l)
  <2>1. ReadChunk(t, l[i]) = [t EXCEPT !.curr_arg = Append(t.curr_arg, l[i])]
    BY <1>5, <1>9 DEF ReadChunk
  <2>2. FieldAt(l, i + 1) = k /\ QuotesBefore(l, i + 1) = QuotesBefore(l, i)
    BY <1>3, <1>9
  <2>3. i \in Own(l, k)
    BY <1>1, <1>9, OwnPlaces
  <2>4. PICK I : I = {j \in Own(l, k) : j <= i - 1}
    OBVIOUS
  <2>5. I \in SUBSET Int /\ IsFiniteSet(I) /\ \A j \in I : j < i
    <3>1. I \in SUBSET Own(l, k)
      BY <2>4
    <3>2. IsFiniteSet(I) /\ I \in SUBSET Int
      BY <3>1, OwnPlaces, FS_Subset
    <3>3. \A j \in I : j < i
      BY <1>3, <1>6, <2>4
    <3>4. QED BY <3>2, <3>3
  <2>6. {j \in Own(l, k) : j <= i} = I \cup {i}
    <3>1. \A j \in Own(l, k) : j <= i <=> j <= i - 1 \/ j = i
      BY <1>3, <1>6
    <3>2. QED BY <2>3, <2>4, <3>1
  <2>7. Extract(l, I \cup {i}) = Append(Extract(l, I), l[i])
    BY <1>3, <2>5, ExtractGrows
  <2>8. /\ ReadChunk(t, l[i]).in_quotes = t.in_quotes /\ ReadChunk(t, l[i]).args = t.args
        /\ ReadChunk(t, l[i]).curr_arg = Append(t.curr_arg, l[i])
    BY <2>1 DEF ReadStates
  <2>9. ReadChunk(t, l[i]).in_quotes <=> QuotesBefore(l, i + 1) % 2 = 1
    BY <1>4, <2>2, <2>8
  <2>10. QED BY <1>4, <2>2, <2>4, <2>6, <2>7, <2>8, <2>9 DEF IsAt
<1>10. QED BY <1>7, <1>8, <1>9

LEMMA TokensAreFields ==
  ASSUME NEW C, NEW l \in Seq(C)
  PROVE  Tokens(l) = Extract(Fields(l), NonEmpty(l))
<1> DEFINE Good(i) == IsAt(l, i, FieldAt(l, i + 1), Reading(l)[i])
           P == {i \in 0 .. Len(l) : Good(i)}
<1>1. PICK n \in Nat : n = Len(l) /\ DOMAIN l = 1 .. n
  OBVIOUS
<1>2. 0 \in P
  <2>1. FieldAt(l, 1) = 0 /\ QuotesBefore(l, 1) = 0
    BY FieldCounting
  <2>2. 0 + 1 = 1 /\ ~(0 % 2 = 1)
    OBVIOUS
  <2>3. Reading(l)[0] = [args |-> << >>, curr_arg |-> << >>, in_quotes |-> FALSE]
    BY ReadingSteps
  <2>4. {j \in Own(l, 0) : j <= 0} = {}
    BY OwnPlaces
  <2>5. {f \in NonEmpty(l) : f < 0} = {}
    BY OwnPlaces
  <2>6. IsAt(l, 0, 0, Reading(l)[0])
    <3>1. PICK t : t = Reading(l)[0]
      OBVIOUS
    <3>2. ~t.in_quotes /\ t.curr_arg = << >> /\ t.args = << >>
      BY <2>3, <3>1
    <3>3. t.in_quotes <=> QuotesBefore(l, 0 + 1) % 2 = 1
      BY <2>1, <2>2, <3>2
    <3>4. t.curr_arg = Extract(l, {j \in Own(l, 0) : j <= 0})
      BY <2>4, <3>2, ExtractNothing
    <3>5. t.args = Arguments(l, 0)
      BY <2>5, <3>2, ExtractNothing DEF Arguments
    <3>6. QED BY <3>1, <3>3, <3>4, <3>5 DEF IsAt
  <2>7. QED BY <1>1, <2>1, <2>6, <2>2
<1>3. ASSUME NEW i \in 1 .. n, i - 1 \in P PROVE i \in P
  <2>1. i \in 1 .. Len(l) /\ i - 1 \in 0 .. Len(l) /\ i \in 0 .. Len(l) /\ i - 1 + 1 = i
    BY <1>1
  <2>2. IsAt(l, i - 1, FieldAt(l, i), Reading(l)[i - 1])
    BY <1>3, <2>1
  <2>3. Reading(l)[i - 1] \in ReadStates(C) /\ Reading(l)[i] = ReadChunk(Reading(l)[i - 1], l[i])
    BY <2>1, ReadingSteps
  <2>4. IsAt(l, i, FieldAt(l, i + 1), Reading(l)[i])
    BY <2>1, <2>2, <2>3, ChunkRead
  <2>5. QED BY <2>1, <2>4
<1>4. n \in P
  <2> HIDE DEF P
  <2>1. \A i \in 1 .. n : i - 1 \in P => i \in P
    BY <1>3
  <2>2. 0 \in Nat /\ 1 = 0 + 1 /\ n \in 0 .. n
    OBVIOUS
  <2>3. \A i \in 0 .. n : i \in P
    BY <1>2, <2>1, <2>2, Induction
  <2>4. QED BY <2>2, <2>3
<1>5. PICK k : k = FieldAt(l, n + 1)
  OBVIOUS
<1>6. PICK t : t = Reading(l)[n]
  OBVIOUS
<1>7. IsAt(l, n, k, t) /\ n + 1 \in 1 .. n + 1 /\ k \in 0 .. n
  <2>1. IsAt(l, n, k, t)
    BY <1>4, <1>5, <1>6
  <2>2. n + 1 \in 1 .. n + 1
    OBVIOUS
  <2>3. QED BY <1>1, <1>5, <2>1, <2>2, FieldCounting
<1>8. ASSUME NEW j \in 1 .. n PROVE FieldAt(l, j) <= k /\ FieldAt(l, j) \in Int
  <2>1. j \in 1 .. n + 1 /\ j <= n + 1
    BY <1>7
  <2>2. QED BY <1>1, <1>5, <1>7, <2>1, FieldCounting
<1>9. {j \in Own(l, k) : j <= n} = Own(l, k)
  <2>1. \A j \in Own(l, k) : j <= n
    BY <1>1, OwnPlaces
  <2>2. QED BY <2>1
<1>10. {f \in NonEmpty(l) : f < k + 1} = NonEmpty(l)
  <2>1. ASSUME NEW f \in NonEmpty(l) PROVE f < k + 1
    <3>1. PICK j \in Own(l, f) : TRUE
      BY OwnPlaces
    <3>2. j \in 1 .. n /\ FieldAt(l, j) = f
      BY <1>1, OwnPlaces
    <3>3. QED BY <1>7, <1>8, <3>2
  <2>2. QED BY <2>1
<1>11. t \in ReadStates(C)
  BY <1>1, <1>6, ReadingSteps
<1>12. EndArg(t).args = Arguments(l, k + 1)
  <2>1. t.in_quotes \in BOOLEAN
    BY <1>11 DEF ReadStates
  <2>2. t.curr_arg = Extract(l, Own(l, k)) /\ t.args = Arguments(l, k) /\ k \in 0 .. Len(l)
    BY <1>1, <1>7, <1>9 DEF IsAt
  <2>3. QED BY <2>1, <2>2, FieldEnds
<1>13. Tokens(l) = EndArg(t).args
  BY <1>1, <1>6 DEF Tokens
<1>14. QED BY <1>10, <1>12, <1>13 DEF Arguments

-------------------------------------------------------------------------------
(* The parser of options.                                                  *)

LEMMA TypesAre ==
  /\ Types = {"source_service", "status", "limit", "from", "to", "offset"}
  /\ Absent \notin Types
  BY CliAssumption DEF Types, NoFilter, CliAssumption

\* What the field of a filter may hold that takes its source from T.
Kind(type, T) ==
  IF type \in {"limit", "offset"} THEN OrAbsent(-(IntMax + 1) .. IntMax)
  ELSE IF type = "status" THEN OrAbsent(DOMAIN StrToStatus)
  ELSE IF type = "source_service" THEN T ELSE {Absent}

Filters(T) == {f \in [Types -> UNION {Kind(type, T) : type \in Types}] :
                 \A type \in Types : f[type] \in Kind(type, T)}

LEMMA FilterChanges ==
  ASSUME NEW T, NEW f \in Filters(T), NEW type \in Types, NEW v \in Kind(type, T)
  PROVE  [f EXCEPT ![type] = v] \in Filters(T)
<1>1. PICK U : U = UNION {Kind(t, T) : t \in Types}
  OBVIOUS
<1>2. v \in U
  BY <1>1
<1>3. f \in [Types -> U] /\ \A t \in Types : f[t] \in Kind(t, T)
  BY <1>1 DEF Filters
<1>4. [f EXCEPT ![type] = v] \in [Types -> U]
  BY <1>2, <1>3
<1>5. \A t \in Types : [f EXCEPT ![type] = v][t] \in Kind(t, T)
  BY <1>3
<1>6. QED BY <1>1, <1>4, <1>5 DEF Filters

LEMMA FiltersAreTyped ==
  ASSUME NEW T, NEW f \in Filters(T)
  PROVE  f \in FilterSet(T)
<1>1. f = [type \in Types |-> f[type]] /\ \A type \in Types : f[type] \in Kind(type, T)
  BY DEF Filters
<1>2. /\ f.source_service \in T /\ f.status \in OrAbsent(DOMAIN StrToStatus)
      /\ f.limit \in OrAbsent(-(IntMax + 1) .. IntMax)
      /\ f.offset \in OrAbsent(-(IntMax + 1) .. IntMax)
      /\ f.from = Absent /\ f.to = Absent
  BY <1>1, TypesAre DEF Kind
<1>3. f = [source_service |-> f.source_service, status |-> f.status, limit |-> f.limit,
           from |-> f.from, offset |-> f.offset, to |-> f.to]
  BY <1>1, TypesAre
<1>4. QED BY <1>2, <1>3 DEF FilterSet, OrAbsent

\* The states of its loop.
ParseStates(T) ==
  [filter : Filters(T), option : Types \cup {Absent}, outcome : {"ok", "invalid", "throws"}]

LEMMA ParseArgType ==
  ASSUME NEW T, NEW p \in ParseStates(T), NEW arg, Text(arg) \in T
  PROVE  ParseArg(p, arg) \in ParseStates(T)
<1>1. /\ p.filter \in Filters(T) /\ p.option \in Types \cup {Absent}
      /\ p.outcome \in {"ok", "invalid", "throws"}
  BY DEF ParseStates
<1>2. [p EXCEPT !.outcome = "throws"] \in ParseStates(T)
  BY DEF ParseStates
<1>3. [p EXCEPT !.outcome = "invalid"] \in ParseStates(T)
  BY DEF ParseStates
<1>4. ParseOption(p, arg) \in ParseStates(T)
  <2>1. CASE ~HasPrefix(arg)
    BY <1>2, <2>1 DEF ParseOption
  <2>2. CASE HasPrefix(arg) /\ AfterDashes(arg) \notin Types
    BY <1>3, <2>2 DEF ParseOption
  <2>3. CASE HasPrefix(arg) /\ AfterDashes(arg) \in Types
    <3>1. ParseOption(p, arg) = [p EXCEPT !.option = AfterDashes(arg)]
      BY <2>3 DEF ParseOption
    <3>2. QED BY <2>3, <3>1 DEF ParseStates
  <2>4. QED BY <2>1, <2>2, <2>3
<1>5. ASSUME NEW type \in Types, NEW v \in Kind(type, T)
      PROVE  SetOption(p, type, v) \in ParseStates(T)
  BY <1>1, <1>5, FilterChanges DEF SetOption, ParseStates
<1>6. p.option # Absent => ParseValue(p, arg) \in ParseStates(T)
  <2>1. HAVE p.option # Absent
  <2>2. CASE p.option \in {"from", "to"}
    <3>1. ParseValue(p, arg) = [p EXCEPT !.outcome = "invalid"]
      BY <2>2 DEF ParseValue
    <3>2. QED BY <1>3, <3>1
  <2>3. CASE p.option \in {"limit", "offset"} /\ Text(arg) \in DOMAIN Number
    <3>1. ParseValue(p, arg) = SetOption(p, p.option, Number[Text(arg)])
      BY <2>3 DEF ParseValue
    <3>2. Number[Text(arg)] \in -(IntMax + 1) .. IntMax
      BY <2>3, CliAssumption DEF CliAssumption
    <3>3. Number[Text(arg)] \in Kind(p.option, T) /\ p.option \in Types
      BY <2>3, <3>2, TypesAre DEF Kind, OrAbsent
    <3>4. QED BY <1>5, <3>1, <3>3
  <2>4. CASE p.option = "status" /\ Text(arg) \in DOMAIN StrToStatus
    <3>1. ParseValue(p, arg) = SetOption(p, "status", Text(arg))
      BY <2>4 DEF ParseValue
    <3>2. Text(arg) \in Kind("status", T) /\ "status" \in Types
      BY <2>4, TypesAre DEF Kind, OrAbsent
    <3>3. QED BY <1>5, <3>1, <3>2
  <2>5. CASE p.option = "source_service"
    <3>1. ParseValue(p, arg) = SetOption(p, "source_service", Text(arg))
      BY <2>5 DEF ParseValue
    <3>2. Text(arg) \in Kind("source_service", T) /\ "source_service" \in Types
      BY <2>5, TypesAre DEF Kind
    <3>3. QED BY <1>5, <3>1, <3>2
  <2>6. CASE /\ p.option \notin {"from", "to", "source_service"}
             /\ ~(p.option \in {"limit", "offset"} /\ Text(arg) \in DOMAIN Number)
             /\ ~(p.option = "status" /\ Text(arg) \in DOMAIN StrToStatus)
    <3>1. ParseValue(p, arg) = [p EXCEPT !.outcome = "throws"]
      BY <2>6 DEF ParseValue
    <3>2. QED BY <1>2, <3>1
  <2>7. QED BY <2>2, <2>3, <2>4, <2>5, <2>6
<1>7. QED BY <1>4, <1>6 DEF ParseArg

\* The texts of arguments, where the source of a filter comes from.
Texts(args) == {Absent} \cup {Text(args[k]) : k \in DOMAIN args}

NothingParsed == [filter |-> NoFilter, option |-> Absent, outcome |-> "ok"]

LEMMA NoFilterType ==
  ASSUME NEW T, Absent \in T
  PROVE  NoFilter \in Filters(T) /\ \A type \in Types : NoFilter[type] = Absent
<1>1. PICK U : U = UNION {Kind(t, T) : t \in Types}
  OBVIOUS
<1>2. \A type \in Types : Absent \in Kind(type, T)
  BY DEF Kind, OrAbsent
<1>3. Absent \in U
  BY <1>1, <1>2, TypesAre
<1>4. \A type \in Types : NoFilter[type] = Absent
  BY TypesAre DEF NoFilter
<1>5. NoFilter \in [Types -> U]
  BY <1>3, TypesAre DEF NoFilter
<1>6. QED BY <1>1, <1>2, <1>4, <1>5 DEF Filters

LEMMA ParsingSteps ==
  ASSUME NEW C, NEW args \in Seq(C), args # << >>
  PROVE  /\ Parsing(args)[1] = NothingParsed
         /\ \A i \in 2 .. Len(args) : Parsing(args)[i] = ParseArg(Parsing(args)[i - 1], args[i])
         /\ \A i \in 1 .. Len(args) : Parsing(args)[i] \in ParseStates(Texts(args))
<1> DEFINE base == NothingParsed
           S == ParseStates(Texts(args))
           n == Len(args)
           step == [i \in 2 .. n |-> [p \in S |-> ParseArg(p, args[i])]]
<1>1. n \in Nat /\ 1 <= n /\ DOMAIN args = 1 .. n
  OBVIOUS
<1>2. base \in S
  BY NoFilterType DEF ParseStates, NothingParsed, Texts
<1>3. \A i \in 2 .. n, p \in S : ParseArg(p, args[i]) \in S
  <2>1. TAKE i \in 2 .. n, p \in S
  <2>2. Text(args[i]) \in Texts(args)
    BY <1>1 DEF Texts
  <2>3. QED BY <2>2, ParseArgType
<1>4. step \in Bodies(S, 2 .. n)
  <2> HIDE DEF S, n
  <2>1. \A i \in 2 .. n : [p \in S |-> ParseArg(p, args[i])] \in [S -> S]
    BY <1>3
  <2>2. QED BY <2>1 DEF Bodies
<1>5. PICK g : Runs(g, S, base, step, 1, 2, n)
  <2>1. n \in Nat /\ 1 \in Nat /\ 1 <= n /\ 2 = 1 + 1
    BY <1>1
  <2> HIDE DEF S, base, n, step
  <2>2. QED BY <1>2, <1>4, <2>1, Recursion
<1> HIDE DEF base, S, n
<1>6. g = [i \in 1 .. n |-> IF i = 1 THEN base ELSE ParseArg(g[i - 1], args[i])]
  <2>1. ASSUME NEW i \in 2 .. n PROVE step[i][g[i - 1]] = ParseArg(g[i - 1], args[i])
    <3>1. g[i - 1] \in S
      <4>1. i - 1 \in 1 .. n
        BY <1>1
      <4>2. QED BY <1>5, <4>1 DEF Runs
    <3>2. step[i] = [p \in S |-> ParseArg(p, args[i])]
      OBVIOUS
    <3>3. QED BY <3>1, <3>2
  <2> HIDE DEF step
  <2>2. \A i \in 1 .. n : i # 1 => i \in 2 .. n
    BY <1>1
  <2>3. QED BY <1>1, <1>5, <2>1, <2>2 DEF Runs
<1>7. Parsing(args)
        = [i \in 1 .. n |-> IF i = 1 THEN base ELSE ParseArg(Parsing(args)[i - 1], args[i])]
  BY <1>6 DEF Parsing, base, n, NothingParsed
<1>8. /\ Parsing(args)[1] = base
      /\ \A i \in 2 .. n : Parsing(args)[i] = ParseArg(Parsing(args)[i - 1], args[i])
  BY <1>1, <1>7
<1>9. \A i \in 1 .. n : Parsing(args)[i] \in S
  <2> DEFINE P == {i \in 1 .. n : Parsing(args)[i] \in S}
  <2>1. 1 \in P /\ 1 \in Nat /\ 2 = 1 + 1
    BY <1>1, <1>2, <1>8
  <2>2. \A i \in 2 .. n : i - 1 \in P => i \in P
    <3>1. TAKE i \in 2 .. n
    <3>2. HAVE i - 1 \in P
    <3>3. Parsing(args)[i - 1] \in S
      BY <1>1, <3>2
    <3>4. ParseArg(Parsing(args)[i - 1], args[i]) \in S
      BY <1>3, <3>3
    <3>5. QED BY <1>8, <3>4
  <2> HIDE DEF P
  <2>3. \A i \in 1 .. n : i \in P
    BY <1>1, <2>1, <2>2, Induction
  <2>4. QED BY <2>3 DEF P
<1>10. QED BY <1>8, <1>9 DEF base, S, n

-------------------------------------------------------------------------------
(* The values given for options.                                           *)

\* The places where type is given a value, and what it means before place i.
Given(args, type) == {o \in Options(args) : AfterDashes(args[o]) = type}
MeansBefore(args, i, type) ==
  LET before == {o \in Given(args, type) : o < i}
  IN  IF before = {} THEN Absent ELSE Means(type, args[Max(before) + 1])

AllReadable(args) ==
  /\ Len(args) % 2 = 1
  /\ \A i \in Options(args) : HasPrefix(args[i]) /\ IsReadable(AfterDashes(args[i]), args[i + 1])

\* The loop after argument i of them.
HasRead(args, i, p) ==
  /\ p.outcome = "ok"
  /\ p.option = IF i % 2 = 0 THEN AfterDashes(args[i]) ELSE Absent
  /\ \A type \in Types : p.filter[type] = MeansBefore(args, i, type)

LEMMA MaxOfGrown ==
  ASSUME NEW S, NEW m \in Int, \A x \in S : x \in Int /\ x < m
  PROVE  Max(S \cup {m}) = m
<1>1. \A x \in S \cup {m} : (\A y \in S \cup {m} : x >= y) <=> x = m
  OBVIOUS
<1>2. QED BY <1>1 DEF Max

LEMMA OptionNamed ==
  ASSUME NEW C, NEW args \in Seq(C), AllReadable(args), NEW i \in 2 .. Len(args), i % 2 = 0,
         NEW p \in ParseStates(Texts(args)), HasRead(args, i - 1, p)
  PROVE  HasRead(args, i, ParseArg(p, args[i]))
<1>1. PICK n \in Nat : n = Len(args) /\ DOMAIN args = 1 .. n
  OBVIOUS
<1>2. i \in Options(args) /\ (i - 1) % 2 # 0 /\ i \in Int
  <2>1. i # n
    BY <1>1 DEF AllReadable
  <2>2. (i - 1) % 2 # 0
    BY <1>1
  <2>3. QED BY <1>1, <2>1, <2>2 DEF Options
<1>3. HasPrefix(args[i]) /\ IsReadable(AfterDashes(args[i]), args[i + 1])
  BY <1>2 DEF AllReadable
<1>4. AfterDashes(args[i]) \in {"limit", "offset", "status", "source_service"}
  BY <1>3 DEF IsReadable
<1>5. p.outcome = "ok" /\ p.option = Absent
  BY <1>2 DEF HasRead
<1>6. ParseArg(p, args[i]) = [p EXCEPT !.option = AfterDashes(args[i])]
  BY <1>3, <1>4, <1>5, TypesAre DEF ParseArg, ParseOption
<1>7. /\ ParseArg(p, args[i]).outcome = "ok"
      /\ ParseArg(p, args[i]).option = AfterDashes(args[i])
      /\ ParseArg(p, args[i]).filter = p.filter
  BY <1>5, <1>6 DEF ParseStates
<1>8. ASSUME NEW type \in Types
      PROVE  MeansBefore(args, i, type) = MeansBefore(args, i - 1, type)
  <2>1. \A o \in Given(args, type) : o < i <=> o < i - 1
    <3>1. TAKE o \in Given(args, type)
    <3>2. o \in Int /\ o % 2 = 0
      BY <1>1 DEF Given, Options
    <3>3. o # i - 1
      BY <1>2, <3>2
    <3>4. QED BY <1>2, <3>2, <3>3
  <2>2. {o \in Given(args, type) : o < i} = {o \in Given(args, type) : o < i - 1}
    BY <2>1
  <2>3. QED BY <2>2 DEF MeansBefore
<1>9. QED BY <1>7, <1>8 DEF HasRead

LEMMA OptionSet ==
  ASSUME NEW C, NEW args \in Seq(C), AllReadable(args), NEW i \in 2 .. Len(args), i % 2 # 0,
         NEW p \in ParseStates(Texts(args)), HasRead(args, i - 1, p)
  PROVE  HasRead(args, i, ParseArg(p, args[i]))
<1>1. PICK n \in Nat : n = Len(args) /\ DOMAIN args = 1 .. n
  OBVIOUS
<1>2. PICK h \in Int : h = i - 1 /\ h + 1 = i
  <2>1. i - 1 \in Int /\ i - 1 + 1 = i
    BY <1>1
  <2>2. QED BY <2>1
<1>3. h \in Options(args) /\ h % 2 = 0
  <2>1. h \in 1 .. n /\ h < n /\ h % 2 = 0
    BY <1>1, <1>2
  <2>2. QED BY <1>1, <2>1 DEF Options
<1>4. PICK type : type = AfterDashes(args[h])
  OBVIOUS
<1>5. IsReadable(type, args[i])
  BY <1>2, <1>3, <1>4 DEF AllReadable
<1>6. type \in {"limit", "offset", "status", "source_service"} /\ type \in Types
  BY <1>5, TypesAre DEF IsReadable
<1>7. p.outcome = "ok" /\ p.option = type
  BY <1>2, <1>3, <1>4 DEF HasRead
<1>8. ParseArg(p, args[i]) = SetOption(p, type, Means(type, args[i]))
  <2>1. ParseArg(p, args[i]) = ParseValue(p, args[i])
    BY <1>6, <1>7, TypesAre DEF ParseArg
  <2>2. CASE type \in {"limit", "offset"}
    <3>1. Text(args[i]) \in DOMAIN Number
      BY <1>5, <2>2 DEF IsReadable
    <3>2. ParseValue(p, args[i]) = SetOption(p, type, Number[Text(args[i])])
      BY <1>7, <2>2, <3>1 DEF ParseValue
    <3>3. QED BY <2>1, <2>2, <3>2 DEF Means
  <2>3. CASE type = "status"
    <3>1. Text(args[i]) \in DOMAIN StrToStatus
      BY <1>5, <2>3 DEF IsReadable
    <3>2. ParseValue(p, args[i]) = SetOption(p, type, Text(args[i]))
      BY <1>7, <2>3, <3>1 DEF ParseValue
    <3>3. QED BY <2>1, <2>3, <3>2 DEF Means
  <2>4. CASE type = "source_service"
    <3>1. ParseValue(p, args[i]) = SetOption(p, type, Text(args[i]))
      BY <1>7, <2>4 DEF ParseValue
    <3>2. QED BY <2>1, <2>4, <3>1 DEF Means
  <2>5. QED BY <1>6, <2>2, <2>3, <2>4
<1>9. /\ ParseArg(p, args[i]).outcome = "ok" /\ ParseArg(p, args[i]).option = Absent
      /\ ParseArg(p, args[i]).filter = [p.filter EXCEPT ![type] = Means(type, args[i])]
  BY <1>7, <1>8 DEF SetOption
<1>10. ASSUME NEW t \in Types
       PROVE  ParseArg(p, args[i]).filter[t] = MeansBefore(args, i, t)
  <2>1. p.filter \in Filters(Texts(args))
    BY DEF ParseStates
  <2>2. ParseArg(p, args[i]).filter[t] = IF t = type THEN Means(type, args[i]) ELSE p.filter[t]
    BY <1>6, <1>9, <2>1 DEF Filters
  <2>3. \A o \in Given(args, t) : o \in Int /\ (o < i <=> o < h \/ o = h)
    BY <1>1, <1>2 DEF Given, Options
  <2>4. h \in Given(args, t) <=> t = type
    BY <1>3, <1>4 DEF Given
  <2>5. PICK B : B = {o \in Given(args, t) : o < h}
    OBVIOUS
  <2>6. CASE t = type
    <3>1. {o \in Given(args, t) : o < i} = B \cup {h}
      BY <2>3, <2>4, <2>5, <2>6
    <3>2. Max(B \cup {h}) = h
      BY <2>3, <2>5, MaxOfGrown
    <3>3. MeansBefore(args, i, t) = Means(t, args[h + 1])
      BY <3>1, <3>2 DEF MeansBefore
    <3>4. QED BY <1>2, <2>2, <2>6, <3>3
  <2>7. CASE t # type
    <3>1. {o \in Given(args, t) : o < i} = {o \in Given(args, t) : o < h}
      BY <2>3, <2>4, <2>7
    <3>2. MeansBefore(args, i, t) = MeansBefore(args, h, t)
      BY <3>1 DEF MeansBefore
    <3>3. p.filter[t] = MeansBefore(args, h, t)
      BY <1>2 DEF HasRead
    <3>4. QED BY <2>2, <2>7, <3>2, <3>3
  <2>8. QED BY <2>6, <2>7
<1>11. QED BY <1>9, <1>10 DEF HasRead

LEMMA OptionsRead ==
  ASSUME NEW C, NEW args \in Seq(C), args # << >>, AllReadable(args)
  PROVE  /\ ParseEventFilter(args).outcome = "ok"
         /\ ParseEventFilter(args).filter
              = [type \in Types |-> IF Given(args, type) = {} THEN Absent
                                    ELSE Means(type, args[Max(Given(args, type)) + 1])]
<1> DEFINE P == {i \in 1 .. Len(args) : HasRead(args, i, Parsing(args)[i])}
<1>1. PICK n \in Nat : n = Len(args) /\ DOMAIN args = 1 .. n /\ 1 <= n
  OBVIOUS
<1>2. 1 \in P
  <2>1. \A type \in Types : {o \in Given(args, type) : o < 1} = {}
    BY <1>1 DEF Given, Options
  <2>2. \A type \in Types : MeansBefore(args, 1, type) = Absent
    BY <2>1 DEF MeansBefore
  <2>3. \A type \in Types : NoFilter[type] = Absent
    BY TypesAre DEF NoFilter
  <2>4. 1 % 2 # 0
    OBVIOUS
  <2>5. HasRead(args, 1, NothingParsed)
    BY <2>2, <2>3, <2>4 DEF HasRead, NothingParsed
  <2>6. QED BY <1>1, <2>5, ParsingSteps
<1>3. ASSUME NEW i \in 2 .. n, i - 1 \in P PROVE i \in P
  <2>1. i \in 2 .. Len(args) /\ i \in 1 .. Len(args) /\ i - 1 \in 1 .. Len(args)
    BY <1>1
  <2>2. HasRead(args, i - 1, Parsing(args)[i - 1])
    BY <1>3
  <2>3. /\ Parsing(args)[i - 1] \in ParseStates(Texts(args))
        /\ Parsing(args)[i] = ParseArg(Parsing(args)[i - 1], args[i])
    BY <2>1, ParsingSteps
  <2>4. HasRead(args, i, Parsing(args)[i])
    BY <2>1, <2>2, <2>3, OptionNamed, OptionSet
  <2>5. QED BY <2>1, <2>4
<1>4. n \in P
  <2> HIDE DEF P
  <2>1. \A i \in 2 .. n : i - 1 \in P => i \in P
    BY <1>3
  <2>2. 1 \in Nat /\ 2 = 1 + 1 /\ n \in 1 .. n
    BY <1>1
  <2>3. \A i \in 1 .. n : i \in P
    BY <1>2, <2>1, <2>2, Induction
  <2>4. QED BY <2>2, <2>3
<1>5. PICK p : p = ParseEventFilter(args)
  OBVIOUS
<1>6. HasRead(args, n, p) /\ p \in ParseStates(Texts(args))
  <2>1. n \in 1 .. Len(args) /\ p = Parsing(args)[n]
    BY <1>1, <1>5 DEF ParseEventFilter
  <2>2. QED BY <1>4, <2>1, ParsingSteps
<1>7. ASSUME NEW type \in Types
      PROVE  p.filter[type] = IF Given(args, type) = {} THEN Absent
                              ELSE Means(type, args[Max(Given(args, type)) + 1])
  <2>1. \A o \in Given(args, type) : o < n
    BY <1>1 DEF Given, Options
  <2>2. {o \in Given(args, type) : o < n} = Given(args, type)
    BY <2>1
  <2>3. QED BY <1>6, <2>2 DEF HasRead, MeansBefore
<1>8. p.filter = [type \in Types |-> p.filter[type]]
  BY <1>6 DEF ParseStates, Filters
<1>9. p.filter = [type \in Types |-> IF Given(args, type) = {} THEN Absent
                                     ELSE Means(type, args[Max(Given(args, type)) + 1])]
  BY <1>7, <1>8
<1>10. QED BY <1>5, <1>6, <1>9 DEF HasRead

-------------------------------------------------------------------------------
(* From a log entry to the line that is printed for it.                    *)

LEMMA Octets ==
  ASSUME NEW a \in Nat, a \div 256^3 < 256
  PROVE  IPv4AddressToString(a) \in Seq(Nat) /\ Quad(IPv4AddressToString(a)) = a
<1>1. 256^3 = 16777216 /\ 256^2 = 65536
  OBVIOUS
<1>2. /\ a \div 16777216 \in Nat /\ (a \div 16777216) % 256 = a \div 16777216
      /\ (a \div 65536) % 256 \in Nat /\ (a \div 256) % 256 \in Nat /\ a % 256 \in Nat
  BY <1>1
<1>3. IPv4AddressToString(a)
        = <<a \div 16777216, (a \div 65536) % 256, (a \div 256) % 256, a % 256>>
  BY <1>1, <1>2 DEF IPv4AddressToString
<1>4. Quad(IPv4AddressToString(a)) = a
  BY <1>2, <1>3 DEF Quad
<1>5. QED BY <1>2, <1>3, <1>4

EventOf(sv, t, s, raw, ip, d, r) ==
  [source_service |-> sv, timestamp_utc |-> t, status |-> s,
   payload |-> [raw_line |-> raw, parsed_ip |-> ip, filter_decision |-> d, reject_reason |-> r]]

LEMMA StatusSet ==
  ASSUME NEW sv, NEW t, NEW s, NEW raw, NEW ip, NEW d, NEW r, NEW q
  PROVE  [EventOf(sv, t, s, raw, ip, d, r) EXCEPT !.status = q] = EventOf(sv, t, q, raw, ip, d, r)
<1>1. PICK P : P = [raw_line |-> raw, parsed_ip |-> ip, filter_decision |-> d, reject_reason |-> r]
  OBVIOUS
<1>2. [[source_service |-> sv, timestamp_utc |-> t, status |-> s, payload |-> P]
         EXCEPT !.status = q]
        = [source_service |-> sv, timestamp_utc |-> t, status |-> q, payload |-> P]
  OBVIOUS
<1>3. QED BY <1>1, <1>2 DEF EventOf

LEMMA DecisionSet ==
  ASSUME NEW sv, NEW t, NEW s, NEW raw, NEW ip, NEW d, NEW r, NEW q
  PROVE  [EventOf(sv, t, s, raw, ip, d, r) EXCEPT !.payload.filter_decision = q]
           = EventOf(sv, t, s, raw, ip, q, r)
<1>1. PICK P : P = [raw_line |-> raw, parsed_ip |-> ip, filter_decision |-> d, reject_reason |-> r]
  OBVIOUS
<1>2. [P EXCEPT !.filter_decision = q]
        = [raw_line |-> raw, parsed_ip |-> ip, filter_decision |-> q, reject_reason |-> r]
  BY <1>1
<1>3. PICK Q : Q = [P EXCEPT !.filter_decision = q]
  OBVIOUS
<1>4. [[source_service |-> sv, timestamp_utc |-> t, status |-> s, payload |-> P]
         EXCEPT !.payload = Q]
        = [source_service |-> sv, timestamp_utc |-> t, status |-> s, payload |-> Q]
  OBVIOUS
<1>5. PICK e : e = EventOf(sv, t, s, raw, ip, d, r)
  OBVIOUS
<1>6. e.payload = P
  BY <1>1, <1>5 DEF EventOf
<1>7. [e EXCEPT !.payload.filter_decision = q] = [e EXCEPT !.payload = Q]
  BY <1>3, <1>6
<1>8. [e EXCEPT !.payload = Q]
        = [source_service |-> sv, timestamp_utc |-> t, status |-> s, payload |-> Q]
  BY <1>1, <1>4, <1>5 DEF EventOf
<1>9. QED BY <1>2, <1>3, <1>5, <1>7, <1>8 DEF EventOf

Changed(e, q, w) == [e EXCEPT !.status = q, !.payload.filter_decision = w]

LEMMA BothSet ==
  ASSUME NEW sv, NEW t, NEW s, NEW raw, NEW ip, NEW d, NEW r, NEW q, NEW w, NEW e,
         e = EventOf(sv, t, s, raw, ip, d, r)
  PROVE  Changed(e, q, w) = EventOf(sv, t, q, raw, ip, w, r)
<1>1. PICK u : u = [e EXCEPT !.status = q]
  OBVIOUS
<1>2. [e EXCEPT !.status = q, !.payload.filter_decision = w]
        = [u EXCEPT !.payload.filter_decision = w]
  BY <1>1
<1>3. u = EventOf(sv, t, q, raw, ip, d, r)
  BY <1>1, StatusSet
<1>4. [u EXCEPT !.payload.filter_decision = w] = EventOf(sv, t, q, raw, ip, w, r)
  BY <1>3, DecisionSet
<1>5. QED BY <1>2, <1>4 DEF Changed

LEMMA Protos ==
  ASSUME NEW sv, NEW t, NEW s, NEW raw, NEW ip, NEW d, NEW r, NEW e,
         e = EventOf(sv, t, s, raw, ip, d, r)
  PROVE  /\ ToProtoEvent(e)
              = EventOf(sv, t, ToProtoEventStatus(s), raw, ip, ToProtoFilterDecision(d), r)
         /\ ToDtoEvent(e)
              = EventOf(sv, t, FromProtoEventStatus(s), raw, ip, FromProtoFilterDecision(d), r)
<1>1. e.status = s /\ e.payload.filter_decision = d
  BY DEF EventOf
<1>2. \A q, w : Changed(e, q, w) = EventOf(sv, t, q, raw, ip, w, r)
  BY BothSet
<1>3. ToProtoEvent(e) = Changed(e, ToProtoEventStatus(s), ToProtoFilterDecision(d))
  BY <1>1 DEF ToProtoEvent, Changed
<1>4. ToDtoEvent(e) = Changed(e, FromProtoEventStatus(s), FromProtoFilterDecision(d))
  BY <1>1 DEF ToDtoEvent, Changed
<1>5. QED BY <1>2, <1>3, <1>4

\* The event of an entry that is read at a time, and the row it becomes.
Clock == 1 .. MaxTime
Stamp(time) == FormatTimestamp(time, Zone[time])
BuiltOf(sv, entry, time) == Built(sv, entry, Stamp(time))
RowOf(sv, x) == ToRow(BuiltOf(sv, x.entry, x.time), x.id)

StatusOf(ip) == IF ip # Absent THEN 1 ELSE 2

LEMMA BuiltIs ==
  ASSUME NEW sv, NEW entry \in Entries, NEW time \in Clock
  PROVE  /\ BuiltOf(sv, entry, time)
              = EventOf(sv, Stamp(time), StatusOf(entry.parsed_ip), entry.raw_line,
                        Map(entry.parsed_ip, IPv4AddressToString), GetFilterDecision(entry.reason),
                        FilterRejectReasonToStr(entry.reason))
         /\ Stamp(time) \in Int
         /\ StatusOf(entry.parsed_ip) \in {1, 2}
         /\ Map(entry.parsed_ip, IPv4AddressToString) \in {Absent} \cup Seq(Nat)
         /\ Map(Map(entry.parsed_ip, IPv4AddressToString), Quad) = entry.parsed_ip
         /\ GetFilterDecision(entry.reason) \in {"accepted", "rejected"}
         /\ GetFilterDecision(entry.reason) = "accepted" <=> entry.reason = "None"
         /\ FilterRejectReasonToStr(entry.reason)
              \in {Absent, "Invalid Format", "InvalidIPAddress", "FilterRejected"}
         /\ Reason(FilterRejectReasonToStr(entry.reason)) = entry.reason
<1>1. /\ entry.raw_line \in STRING
      /\ entry.parsed_ip # Absent => entry.parsed_ip \in Nat /\ entry.parsed_ip \div 256^3 < 256
      /\ entry.reason \in {"None", "InvalidFormat", "InvalidIPAddress", "FilterRejected"}
  BY DEF Entries
<1>2. time \in Int /\ Zone[time] \in Int
  <2>1. Zone \in [Clock -> Int] /\ MaxTime \in Int
    <3>1. MaxTime \in Nat
      BY CliAssumption DEF CliAssumption
    <3>2. Zone \in [1 .. MaxTime -> Int]
      BY CliAssumption DEF CliAssumption
    <3>3. QED BY <3>1, <3>2 DEF Clock
  <2>2. \A i \in Clock : i \in Int
    BY <2>1 DEF Clock
  <2>3. QED BY <2>1, <2>2
<1>3. /\ Absent \notin Seq(Nat)
      /\ Absent \notin {"Invalid Format", "InvalidIPAddress", "FilterRejected"}
  BY CliAssumption DEF CliAssumption
<1>4. BuiltOf(sv, entry, time)
        = EventOf(sv, Stamp(time), StatusOf(entry.parsed_ip), entry.raw_line,
                  Map(entry.parsed_ip, IPv4AddressToString), GetFilterDecision(entry.reason),
                  FilterRejectReasonToStr(entry.reason))
  BY DEF BuiltOf, Built, EventOf, StatusOf
<1>5. /\ Map(entry.parsed_ip, IPv4AddressToString) \in {Absent} \cup Seq(Nat)
      /\ Map(Map(entry.parsed_ip, IPv4AddressToString), Quad) = entry.parsed_ip
  <2>1. CASE entry.parsed_ip = Absent
    BY <2>1 DEF Map
  <2>2. CASE entry.parsed_ip # Absent
    <3>1. /\ IPv4AddressToString(entry.parsed_ip) \in Seq(Nat)
          /\ Quad(IPv4AddressToString(entry.parsed_ip)) = entry.parsed_ip
      BY <1>1, <2>2, Octets
    <3>2. QED BY <1>3, <2>2, <3>1 DEF Map
  <2>3. QED BY <2>1, <2>2
<1>6. /\ GetFilterDecision(entry.reason) \in {"accepted", "rejected"}
      /\ GetFilterDecision(entry.reason) = "accepted" <=> entry.reason = "None"
  BY <1>1 DEF GetFilterDecision
<1>7. /\ FilterRejectReasonToStr(entry.reason)
           \in {Absent, "Invalid Format", "InvalidIPAddress", "FilterRejected"}
      /\ Reason(FilterRejectReasonToStr(entry.reason)) = entry.reason
  BY <1>1, <1>3 DEF FilterRejectReasonToStr, Reason
<1>8. Stamp(time) \in Int
  BY <1>2 DEF Stamp, FormatTimestamp
<1>9. StatusOf(entry.parsed_ip) \in {1, 2}
  BY DEF StatusOf
<1>10. QED BY <1>4, <1>5, <1>6, <1>7, <1>8, <1>9

LEMMA StatusNames ==
  /\ ToProtoEventStatus(1) = "SUCCESS" /\ ToProtoEventStatus(2) = "ERROR"
  /\ FromProtoEventStatus("SUCCESS") = 1 /\ FromProtoEventStatus("ERROR") = 2
  /\ StatusToStr(1) = "success" /\ StatusToStr(2) = "error"
  /\ StrToStatus["success"] = 1 /\ StrToStatus["error"] = 2
  BY DEF ToProtoEventStatus, FromProtoEventStatus, StatusToStr, StrToStatus

LEMMA DecisionNames ==
  ASSUME NEW d \in {"accepted", "rejected"}
  PROVE  /\ ToProtoFilterDecision(d) \in {"ACCEPTED", "REJECTED"}
         /\ FromProtoFilterDecision(ToProtoFilterDecision(d)) = d
  BY DEF ToProtoFilterDecision, FromProtoFilterDecision

LEMMA EventSurvives ==
  ASSUME NEW sv, NEW entry \in Entries, NEW time \in Clock, NEW e, e = BuiltOf(sv, entry, time)
  PROVE  /\ ToDtoEvent(ToProtoEvent(e)) = e
         /\ sv \in Services => e # Absent
         /\ sv = "ipv4_filter" /\ entry.raw_line # "" => ValidateEvent(ToProtoEvent(e))
<1>1. PICK t, s, raw, ip, d, r :
        /\ t = Stamp(time) /\ raw = entry.raw_line
        /\ s = StatusOf(entry.parsed_ip) /\ ip = Map(entry.parsed_ip, IPv4AddressToString)
        /\ d = GetFilterDecision(entry.reason) /\ r = FilterRejectReasonToStr(entry.reason)
  OBVIOUS
<1>2. e = EventOf(sv, t, s, raw, ip, d, r) /\ raw = entry.raw_line
  BY <1>1, BuiltIs
<1>3. /\ t \in Int /\ s \in {1, 2} /\ raw \in STRING /\ ip \in {Absent} \cup Seq(Nat)
      /\ d \in {"accepted", "rejected"}
      /\ r \in {Absent, "Invalid Format", "InvalidIPAddress", "FilterRejected"}
  <2>1. raw \in STRING
    BY <1>1 DEF Entries
  <2>2. QED BY <1>1, <2>1, BuiltIs
<1>4. ToProtoEvent(e)
        = EventOf(sv, t, ToProtoEventStatus(s), raw, ip, ToProtoFilterDecision(d), r)
  BY <1>2, Protos
<1>5. /\ FromProtoEventStatus(ToProtoEventStatus(s)) = s
      /\ ToProtoEventStatus(s) \in {"SUCCESS", "ERROR"}
  BY <1>3, StatusNames
<1>6. /\ ToProtoFilterDecision(d) \in {"ACCEPTED", "REJECTED"}
      /\ FromProtoFilterDecision(ToProtoFilterDecision(d)) = d
  BY <1>3, DecisionNames
<1>7. ToDtoEvent(ToProtoEvent(e)) = e
  <2>1. PICK q, w : q = ToProtoEventStatus(s) /\ w = ToProtoFilterDecision(d)
    OBVIOUS
  <2>2. ToDtoEvent(EventOf(sv, t, q, raw, ip, w, r))
          = EventOf(sv, t, FromProtoEventStatus(q), raw, ip, FromProtoFilterDecision(w), r)
    BY Protos
  <2>3. QED BY <1>2, <1>4, <1>5, <1>6, <2>1, <2>2
<1>8. sv \in Services => e # Absent
  <2>1. HAVE sv \in Services
  <2>2. e \in DtoEvents
    <3>1. PICK P : P = [raw_line |-> raw, parsed_ip |-> ip, filter_decision |-> d,
                        reject_reason |-> r]
      OBVIOUS
    <3>2. PICK PS : PS = [raw_line : STRING, parsed_ip : {Absent} \cup Seq(Nat),
                          filter_decision : {"accepted", "rejected"},
                          reject_reason : {Absent, "Invalid Format", "InvalidIPAddress",
                                           "FilterRejected"}]
      OBVIOUS
    <3>3. P \in PS
      BY <1>3, <3>1, <3>2
    <3>4. e = [source_service |-> sv, timestamp_utc |-> t, status |-> s, payload |-> P]
      BY <1>2, <3>1 DEF EventOf
    <3>5. DtoEvents
            = [source_service : Services, timestamp_utc : Int, status : {1, 2}, payload : PS]
      BY <3>2 DEF DtoEvents
    <3>6. /\ t \in Int /\ s \in {1, 2}
          /\ [source_service |-> sv, timestamp_utc |-> t, status |-> s, payload |-> P]
               \in [source_service : Services, timestamp_utc : Int, status : {1, 2}, payload : PS]
      BY <1>3, <2>1, <3>3
    <3>7. QED BY <3>4, <3>5, <3>6
  <2>3. QED BY <2>2, CliAssumption DEF CliAssumption
<1>9. sv = "ipv4_filter" /\ entry.raw_line # "" => ValidateEvent(ToProtoEvent(e))
  <2>1. HAVE sv = "ipv4_filter" /\ entry.raw_line # ""
  <2>2. PICK q, w : /\ ToProtoEvent(e) = EventOf(sv, t, q, raw, ip, w, r)
                    /\ q \in {"SUCCESS", "ERROR"} /\ w \in {"ACCEPTED", "REJECTED"}
    BY <1>4, <1>5, <1>6
  <2>3. t # Absent
    BY <1>3, FilterAssumption DEF FilterAssumption
  <2>4. q # "UNSPECIFIED" /\ w # "FILTER_DECISION_UNSPECIFIED"
    BY <2>2
  <2>5. PICK m : m = ToProtoEvent(e)
    OBVIOUS
  <2>6. /\ m.source_service = sv /\ m.timestamp_utc = t /\ m.status = q
        /\ m.payload.raw_line = raw /\ m.payload.filter_decision = w
    BY <2>2, <2>5 DEF EventOf
  <2>7. QED BY <1>2, <2>1, <2>3, <2>4, <2>5, <2>6 DEF ValidateEvent
<1>10. QED BY <1>7, <1>8, <1>9

\* The line of an entry.
LineOf(sv, entry, time) ==
  EventOf(sv, Stamp(time), StatusToStr(StatusOf(entry.parsed_ip)), entry.raw_line,
          Map(entry.parsed_ip, IPv4AddressToString), GetFilterDecision(entry.reason),
          FilterRejectReasonToStr(entry.reason))

LEMMA RowIs ==
  ASSUME NEW sv, NEW x, x.entry \in Entries, x.time \in Clock
  PROVE  /\ RowOf(sv, x).id = x.id /\ RowOf(sv, x).source_service = sv
         /\ RowOf(sv, x).status = StatusToStr(StatusOf(x.entry.parsed_ip))
         /\ RowOf(sv, x).status \in {"success", "error"}
         /\ RowOf(sv, x).status = "success" <=> x.entry.parsed_ip # Absent
         /\ Shown(RowOf(sv, x)) = LineOf(sv, x.entry, x.time)
<1>1. PICK e : e = BuiltOf(sv, x.entry, x.time)
  OBVIOUS
<1>2. PICK s \in {1, 2} : s = StatusOf(x.entry.parsed_ip)
  BY DEF StatusOf
<1>3. PICK t, raw, ip, d, r :
        /\ e = EventOf(sv, t, s, raw, ip, d, r)
        /\ LineOf(sv, x.entry, x.time) = EventOf(sv, t, StatusToStr(s), raw, ip, d, r)
  BY <1>1, <1>2, BuiltIs DEF LineOf
<1>4. RowOf(sv, x) = [id |-> x.id, source_service |-> sv, timestamp_utc |-> t,
                      status |-> StatusToStr(s), payload |-> e.payload]
  BY <1>1, <1>3 DEF RowOf, ToRow, EventOf
<1>5. /\ StatusToStr(s) \in {"success", "error"} /\ StrToStatus[StatusToStr(s)] = s
      /\ StatusToStr(s) = "success" <=> x.entry.parsed_ip # Absent
  BY <1>2, StatusNames DEF StatusOf
<1>6. FromRow(RowOf(sv, x)) = e
  BY <1>3, <1>4, <1>5 DEF FromRow, EventOf
<1>7. Shown(RowOf(sv, x)) = [e EXCEPT !.status = StatusToStr(s)]
  <2>1. ToDtoEvent(ToProtoEvent(FromRow(RowOf(sv, x)))) = e
    BY <1>1, <1>6, EventSurvives
  <2>2. e.status = s
    BY <1>3 DEF EventOf
  <2>3. QED BY <2>1, <2>2 DEF Shown
<1>8. [e EXCEPT !.status = StatusToStr(s)] = EventOf(sv, t, StatusToStr(s), raw, ip, d, r)
  BY <1>3, StatusSet
<1>9. QED BY <1>2, <1>3, <1>4, <1>5, <1>7, <1>8

-------------------------------------------------------------------------------
(* The rows of the table and the entries behind them.                      *)

LEMMA SameNumber ==
  ASSUME NEW L, IsFiniteSet(L), NEW f, NEW R,
         \A x, y \in L : f[x] = f[y] => x = y,
         \A r : r \in R <=> \E x \in L : r = f[x]
  PROVE  IsFiniteSet(R) /\ Cardinality(R) = Cardinality(L)
<1> DEFINE g == [x \in L |-> f[x]]
<1>1. g \in [L -> R] /\ \A x \in L : g[x] = f[x]
  OBVIOUS
<1>2. g \in Injection(L, R)
  BY <1>1 DEF Injection, IsInjective
<1>3. g \in Surjection(L, R)
  BY <1>1 DEF Surjection
<1>4. ExistsBijection(L, R)
  BY <1>2, <1>3 DEF ExistsBijection, Bijection
<1>5. QED BY <1>4, FS_Bijection

Blank(entry) == entry.raw_line = ""

\* Entries with the numbers of their rows.
IsLog(L) ==
  /\ IsFiniteSet(L)
  /\ \A x \in L : /\ x.id \in 1 .. Cardinality(L) /\ x.time \in Clock
                  /\ x.entry \in Entries /\ ~Blank(x.entry)
  /\ \A x, y \in L : x.id = y.id => x = y

RowsOf(sv, L) == {RowOf(sv, x) : x \in L}

LEMMA LogRowIs ==
  ASSUME NEW sv, NEW L, IsLog(L), NEW x \in L
  PROVE  /\ x.entry \in Entries /\ x.time \in Clock
         /\ RowOf(sv, x).id = x.id /\ RowOf(sv, x).source_service = sv
         /\ RowOf(sv, x).status = StatusToStr(StatusOf(x.entry.parsed_ip))
         /\ RowOf(sv, x).status \in {"success", "error"}
         /\ RowOf(sv, x).status = "success" <=> x.entry.parsed_ip # Absent
         /\ Shown(RowOf(sv, x)) = LineOf(sv, x.entry, x.time)
<1>1. x.entry \in Entries /\ x.time \in Clock
  BY DEF IsLog
<1>2. QED BY <1>1, RowIs

LEMMA LogRows ==
  ASSUME NEW sv, NEW L, IsLog(L), NEW A, \A x \in A : x \in L,
         NEW R, \A r : r \in R <=> \E x \in A : r = RowOf(sv, x)
  PROVE  IsFiniteSet(R) /\ Cardinality(R) = Cardinality(A) /\ IsFiniteSet(A)
<1> DEFINE f == [x \in L |-> RowOf(sv, x)]
<1>1. IsFiniteSet(A)
  <2>1. A \in SUBSET L /\ IsFiniteSet(L)
    BY DEF IsLog
  <2>2. QED BY <2>1, FS_Subset
<1>2. \A x \in A : f[x] = RowOf(sv, x) /\ f[x].id = x.id
  BY LogRowIs
<1>3. \A x, y \in A : f[x] = f[y] => x = y
  <2>1. \A x, y \in L : x.id = y.id => x = y
    BY DEF IsLog
  <2> HIDE DEF f
  <2>2. QED BY <1>2, <2>1
<1>4. \A r : r \in R <=> \E x \in A : r = f[x]
  BY <1>2
<1> HIDE DEF f
<1>5. QED BY <1>1, <1>3, <1>4, SameNumber

Ids(S) == {x.id : x \in S}
Parsed(L) == {x \in L : x.entry.parsed_ip # Absent}

LEMMA TableCounts ==
  ASSUME NEW sv, NEW L, IsLog(L)
  PROVE  LET T == RowsOf(sv, L) IN
         /\ IsFiniteSet(T) /\ Cardinality(T) = Cardinality(L) /\ Cardinality(L) \in Nat
         /\ Ids(T) = Ids(L)
         /\ Counted(T).events_total = Cardinality(L)
         /\ Counted(T).events_success = Cardinality(Parsed(L))
         /\ Counted(T).events_total = Counted(T).events_success + Counted(T).events_error
<1>1. PICK T : T = RowsOf(sv, L)
  OBVIOUS
<1>2. \A r : r \in T <=> \E x \in L : r = RowOf(sv, x)
  BY <1>1 DEF RowsOf
<1>3. IsFiniteSet(T) /\ Cardinality(T) = Cardinality(L) /\ Cardinality(L) \in Nat
  BY <1>2, LogRows, FS_CardinalityType DEF IsLog
<1>4. \A x \in L : RowOf(sv, x).id = x.id
  BY LogRowIs
<1>5. Ids(T) = Ids(L)
  BY <1>2, <1>4 DEF Ids
<1>6. \A x \in L : /\ RowOf(sv, x).status \in {"success", "error"}
                   /\ RowOf(sv, x).status = "success" <=> x.entry.parsed_ip # Absent
  BY LogRowIs
<1>7. PICK A, S, E : /\ A = Parsed(L)
                     /\ S = {row \in T : row.status = "success"}
                     /\ E = {row \in T : row.status = "error"}
  OBVIOUS
<1>8. /\ Counted(T).events_total = Cardinality(T)
      /\ Counted(T).events_success = Cardinality(S)
      /\ Counted(T).events_error = Cardinality(E)
  BY <1>7 DEF Counted
<1>9. Cardinality(S) = Cardinality(A)
  <2>1. \A r : r \in S <=> \E x \in A : r = RowOf(sv, x)
    BY <1>2, <1>6, <1>7 DEF Parsed
  <2>2. \A x \in A : x \in L
    BY <1>7 DEF Parsed
  <2>3. QED BY <2>1, <2>2, LogRows
<1>10. Cardinality(T) = Cardinality(S) + Cardinality(E)
  <2>1. T = S \cup E /\ S \cap E = {}
    BY <1>2, <1>6, <1>7
  <2>2. S \in SUBSET T /\ E \in SUBSET T
    BY <1>7
  <2>3. IsFiniteSet(S) /\ IsFiniteSet(E)
    BY <1>3, <2>2, FS_Subset
  <2>4. Cardinality(S \cup E) = Cardinality(S) + Cardinality(E) - 0
    BY <2>1, <2>3, FS_Union, FS_EmptySet
  <2>5. Cardinality(S) \in Nat /\ Cardinality(E) \in Nat
    BY <2>3, FS_CardinalityType
  <2>6. QED BY <2>1, <2>4, <2>5
<1>11. QED BY <1>1, <1>3, <1>5, <1>7, <1>8, <1>9, <1>10

-------------------------------------------------------------------------------
(* A file that is sent.                                                    *)

\* The batch and the entries it stands for.
EventsOf(sv, entries, times) ==
  LET built == [i \in DOMAIN entries |-> Build(sv, entries[i], Stamp(times[i]))]
  IN  Extract(built, {i \in DOMAIN built : built[i] # Absent})

Batch(sv, entries, times) ==
  [i \in DOMAIN EventsOf(sv, entries, times) |-> ToProtoEvent(EventsOf(sv, entries, times)[i])]

NewRows(batch, c, n) == {ToRow(ToDtoEvent(batch[i]), c + i) : i \in 1 .. n}
NewLog(lines, c, n) ==
  {[id |-> c + i, entry |-> lines[i].entry, time |-> lines[i].time] : i \in 1 .. n}

\* m entries with the numbers after c.
IsNews(news, c, m) ==
  /\ \A k \in 1 .. m : \E x \in news : x.id = c + k
  /\ \A x \in news : /\ x.id \in c + 1 .. c + m /\ x.time \in Clock
                     /\ x.entry \in Entries /\ ~Blank(x.entry)
  /\ \A x, y \in news : x.id = y.id => x = y

\* The first n events of the batch have become rows of their entries.
Stored(sv, sent, lines, c, n) ==
  /\ NewRows(sent, c, n) = RowsOf(sv, NewLog(lines, c, n))
  /\ IsNews(NewLog(lines, c, n), c, n)

LEMMA BatchIs ==
  ASSUME NEW sv \in Services, NEW entries \in Seq(Entries), NEW times,
         \A i \in DOMAIN entries : times[i] \in Clock, NEW c \in Nat,
         NEW sent, sent = Batch(sv, entries, times)
  PROVE  \E m \in 0 .. Len(entries) :
           /\ DOMAIN sent = 1 .. m /\ Len(LinesOf(entries, times)) = m
           /\ m = 0 => \A i \in DOMAIN entries : Blank(entries[i])
           /\ sv = "ipv4_filter" => \A i \in DOMAIN sent : ValidateEvent(sent[i])
           /\ \A h \in 0 .. m : Stored(sv, sent, LinesOf(entries, times), c, h)
<1>1. PICK built, events, read, lines :
        /\ built = [i \in DOMAIN entries |-> Build(sv, entries[i], Stamp(times[i]))]
        /\ events = Extract(built, {i \in DOMAIN built : built[i] # Absent})
        /\ read = [i \in DOMAIN entries |-> [entry |-> entries[i], time |-> times[i]]]
        /\ lines = Extract(read, {i \in DOMAIN entries : ~Blank(entries[i])})
  OBVIOUS
<1>2. sent = [i \in DOMAIN events |-> ToProtoEvent(events[i])] /\ lines = LinesOf(entries, times)
  BY <1>1 DEF Batch, EventsOf, LinesOf, Blank
<1>3. PICK n \in Nat : n = Len(entries) /\ DOMAIN entries = 1 .. n
  OBVIOUS
<1>4. PICK I : I = {i \in 1 .. n : ~Blank(entries[i])}
  OBVIOUS
<1>5. \A i \in 1 .. n : entries[i] \in Entries
  BY <1>3
<1>6. DOMAIN built = 1 .. n /\ \A i \in 1 .. n :
        built[i] = IF Blank(entries[i]) THEN Absent ELSE BuiltOf(sv, entries[i], times[i])
  BY <1>3, <1>1 DEF Build, BuiltOf, Blank
<1>7. \A i \in 1 .. n : built[i] # Absent <=> ~Blank(entries[i])
  <2>1. TAKE i \in 1 .. n
  <2>2. entries[i] \in Entries /\ times[i] \in Clock
    BY <1>3, <1>5
  <2>3. BuiltOf(sv, entries[i], times[i]) # Absent
    BY <2>2, EventSurvives
  <2>4. QED BY <1>6, <2>3
<1>8. {i \in DOMAIN built : built[i] # Absent} = I
  BY <1>4, <1>6, <1>7
<1>9. IsFiniteSet(1 .. n) /\ Cardinality(1 .. n) = n
  <2>1. 1 \in Int /\ n \in Int /\ (IF 1 > n THEN 0 ELSE n - 1 + 1) = n
    BY <1>3
  <2>2. QED BY <2>1, FS_Interval
<1>10. I \in SUBSET (1 .. n) /\ I \in SUBSET Int
  BY <1>4
<1>11. PICK m \in Nat : m = Cardinality(I) /\ m <= n /\ IsFiniteSet(I)
  <2>1. IsFiniteSet(I) /\ Cardinality(I) <= Cardinality(1 .. n)
    BY <1>9, <1>10, FS_Subset
  <2>2. Cardinality(I) \in Nat
    BY <2>1, FS_CardinalityType
  <2>3. QED BY <1>9, <2>1, <2>2
<1>12. \A k \in 1 .. m : Place(I, k) \in I /\ Place(I, k) \in 1 .. n
  <2>1. \A k \in 1 .. Cardinality(I) : Place(I, k) \in I
    BY <1>10, <1>11, Places
  <2>2. QED BY <1>10, <1>11, <2>1
<1>13. events = [k \in 1 .. m |-> built[Place(I, k)]]
  <2>1. events = Extract(built, I)
    BY <1>1, <1>8
  <2>2. QED BY <1>11, <2>1, Extracted
<1>14. lines = [k \in 1 .. m |-> read[Place(I, k)]]
  <2>1. lines = Extract(read, I)
    BY <1>1, <1>3, <1>4
  <2>2. QED BY <1>11, <2>1, Extracted
<1>15. DOMAIN sent = 1 .. m /\ DOMAIN lines = 1 .. m /\ Len(lines) = m
  BY <1>2, <1>13, <1>14
<1>16. ASSUME NEW k \in 1 .. m
       PROVE  /\ sent[k] = ToProtoEvent(BuiltOf(sv, lines[k].entry, lines[k].time))
              /\ lines[k].entry \in Entries /\ ~Blank(lines[k].entry)
              /\ lines[k].time \in Clock
  <2>1. PICK i \in 1 .. n : i = Place(I, k) /\ ~Blank(entries[i])
    BY <1>4, <1>12
  <2>2. lines[k].entry = entries[i] /\ lines[k].time = times[i]
    BY <1>1, <1>3, <1>14, <2>1
  <2>3. events[k] = BuiltOf(sv, entries[i], times[i])
    BY <1>6, <1>13, <2>1
  <2>4. sent[k] = ToProtoEvent(events[k])
    BY <1>2, <1>13
  <2>5. QED BY <1>3, <1>5, <2>1, <2>2, <2>3, <2>4
<1>17. m = 0 => \A i \in 1 .. n : Blank(entries[i])
  <2>1. m = 0 => I = {}
    BY <1>11, FS_EmptySet
  <2>2. QED BY <1>4, <2>1
<1>18. sv = "ipv4_filter" => \A k \in 1 .. m : ValidateEvent(sent[k])
  BY <1>16, EventSurvives DEF Blank
<1>19. PICK new : new = [k \in 1 .. m |->
                           [id |-> c + k, entry |-> lines[k].entry, time |-> lines[k].time]]
  OBVIOUS
<1>20. ASSUME NEW k \in 1 .. m
       PROVE  /\ new[k].id = c + k /\ new[k].time \in Clock
              /\ new[k].entry \in Entries /\ ~Blank(new[k].entry)
              /\ ToRow(ToDtoEvent(sent[k]), c + k) = RowOf(sv, new[k])
  <2>1. new[k] = [id |-> c + k, entry |-> lines[k].entry, time |-> lines[k].time]
    BY <1>19
  <2>2. ToDtoEvent(sent[k]) = BuiltOf(sv, lines[k].entry, lines[k].time)
    BY <1>16, EventSurvives
  <2>3. ToRow(ToDtoEvent(sent[k]), c + k) = RowOf(sv, new[k])
    BY <2>1, <2>2 DEF RowOf
  <2>4. QED BY <1>16, <2>1, <2>3
<1>21. ASSUME NEW h \in 0 .. m PROVE Stored(sv, sent, lines, c, h)
  <2>1. PICK news : news = NewLog(lines, c, h)
    OBVIOUS
  <2>2. /\ \A k \in 1 .. h : k \in 1 .. m /\ c + k \in c + 1 .. c + h
        /\ \A j, k \in 1 .. h : c + j = c + k => j = k
    OBVIOUS
  <2>3. \A x : x \in news <=> \E k \in 1 .. h : x = new[k]
    BY <1>19, <2>1, <2>2 DEF NewLog
  <2>4. NewRows(sent, c, h) = RowsOf(sv, news)
    <3>1. PICK R : R = [k \in 1 .. h |-> ToRow(ToDtoEvent(sent[k]), c + k)]
      OBVIOUS
    <3>2. \A k \in 1 .. h : R[k] = RowOf(sv, new[k])
      BY <1>20, <2>2, <3>1
    <3>3. \A r : r \in NewRows(sent, c, h) <=> \E k \in 1 .. h : r = R[k]
      BY <3>1 DEF NewRows
    <3>4. \A r : r \in NewRows(sent, c, h) <=> \E x \in news : r = RowOf(sv, x)
      BY <2>3, <3>2, <3>3
    <3>5. QED BY <3>4 DEF RowsOf
  <2>5. \A x, y \in news : x.id = y.id => x = y
    BY <1>20, <2>2, <2>3
  <2>6. \A x \in news : /\ x.id \in c + 1 .. c + h /\ x.time \in Clock
                        /\ x.entry \in Entries /\ ~Blank(x.entry)
    BY <1>20, <2>2, <2>3
  <2>7. \A k \in 1 .. h : \E x \in news : x.id = c + k
    BY <1>20, <2>2, <2>3
  <2>8. QED BY <2>1, <2>4, <2>5, <2>6, <2>7 DEF Stored, IsNews
<1>22. m \in 0 .. Len(entries)
  BY <1>3, <1>11
<1>23. QED BY <1>2, <1>3, <1>15, <1>17, <1>18, <1>21, <1>22

LEMMA LogGrows ==
  ASSUME NEW L, IsLog(L), NEW m \in Nat, NEW news, IsNews(news, Cardinality(L), m),
         NEW N, N = L \cup news
  PROVE  IsLog(N) /\ Cardinality(N) = Cardinality(L) + m
<1>1. PICK c \in Nat : c = Cardinality(L) /\ IsFiniteSet(L)
  BY FS_CardinalityType DEF IsLog
<1>2. PICK A : A = c + 1 .. c + m
  OBVIOUS
<1>3. IsFiniteSet(A) /\ Cardinality(A) = m
  <2>1. c + 1 \in Int /\ c + m \in Int
        /\ (IF c + 1 > c + m THEN 0 ELSE c + m - (c + 1) + 1) = m
    BY <1>1
  <2>2. QED BY <1>2, <2>1, FS_Interval
<1>4. PICK f : f = [a \in A |-> CHOOSE x \in news : x.id = a]
  OBVIOUS
<1>5. \A a \in A : f[a] \in news /\ f[a].id = a
  <2>1. \A a \in A : a - c \in 1 .. m /\ a = c + (a - c)
    BY <1>1, <1>2
  <2>2. \A a \in A : \E x \in news : x.id = a
    BY <1>1, <2>1 DEF IsNews
  <2>3. QED BY <1>4, <2>2
<1>6. \A a, b \in A : f[a] = f[b] => a = b
  BY <1>5
<1>7. \A x : x \in news <=> \E a \in A : x = f[a]
  BY <1>1, <1>2, <1>5 DEF IsNews
<1>8. IsFiniteSet(news) /\ Cardinality(news) = m
  BY <1>3, <1>6, <1>7, SameNumber
<1>9. \A x \in L : x.id \in 1 .. c
  BY <1>1 DEF IsLog
<1>10. \A x \in L, y \in news : x.id # y.id
  BY <1>1, <1>9 DEF IsNews
<1>11. L \cap news = {}
  BY <1>10
<1>12. IsFiniteSet(L \cup news) /\ Cardinality(L \cup news) = c + m
  <2>1. /\ IsFiniteSet(L \cup news)
        /\ Cardinality(L \cup news) = Cardinality(L) + Cardinality(news) - Cardinality(L \cap news)
    BY <1>1, <1>8, FS_Union
  <2>2. Cardinality(L \cap news) = 0
    BY <1>11, FS_EmptySet
  <2>3. Cardinality(L \cup news) = c + m - 0
    BY <1>1, <1>8, <2>1, <2>2
  <2>4. QED BY <2>1, <2>3
<1>13. \A x \in L \cup news : /\ x.id \in 1 .. c + m /\ x.time \in Clock
                              /\ x.entry \in Entries /\ ~Blank(x.entry)
  <2>1. \A k : k \in 1 .. c \/ k \in c + 1 .. c + m => k \in 1 .. c + m
    BY <1>1
  <2>2. \A x \in L : x.time \in Clock /\ x.entry \in Entries /\ ~Blank(x.entry)
    BY DEF IsLog
  <2>3. \A x \in news : /\ x.id \in c + 1 .. c + m /\ x.time \in Clock
                        /\ x.entry \in Entries /\ ~Blank(x.entry)
    BY <1>1 DEF IsNews
  <2>4. QED BY <1>9, <2>1, <2>2, <2>3
<1>14. \A x, y \in L \cup news : x.id = y.id => x = y
  BY <1>1, <1>10 DEF IsLog, IsNews
<1>15. IsLog(L \cup news)
  BY <1>12, <1>13, <1>14 DEF IsLog
<1>16. QED BY <1>1, <1>12, <1>15

-------------------------------------------------------------------------------
(* The inductive invariant.                                                *)

Logged == IsLog(logged) /\ table = RowsOf(service, logged)

\* A Get is sent with the filter that was read.
Requested ==
  Command(line) = "get" /\ ParseEventFilter(Tokens(line)).outcome = "ok"
    => request = ParseEventFilter(Tokens(line)).filter

\* What is printed for a filter.
LinesFor(f, rows) ==
  LET answers == {Received(GetEvents(Conveyed(f), s)) : s \in Ordered(rows, Conveyed(f))}
  IN  {[i \in DOMAIN answer |-> Shown(answer[i])] : answer \in answers \ {Error}}

Answered ==
  printed.says = "events" =>
    /\ request \in Filters(Texts(Tokens(line)))
    /\ printed.what \in LinesFor(request, table)

Totalled == printed.says = "stats" => printed.what = ToDtoStats(ToProtoStats(Counted(table)))

\* At the prompt the last command is past.
Quiet == client \in {"starting", "prompt"} => printed.says = ""

IInv == /\ TypeOK /\ Logged /\ Requested /\ Quiet
        /\ Answered /\ Totalled /\ OnlyWrongNamesRefused

LEMMA EmptyCommand == Command(<< >>) = ""
  BY NoTokens DEF Command

LEMMA LinesAreRead ==
  ASSUME NEW l \in Lines \cup {<< >>}
  PROVE  l \in Seq(ToSet(l)) /\ Tokens(l) \in Seq(Seq(ToSet(l)))
<1>1. l \in Seq(ToSet(l))
  <2>1. CASE l \in Lines
    BY <2>1, CliAssumption DEF CliAssumption
  <2>2. CASE l = << >>
    BY <2>2, EmptySeq
  <2>3. QED BY <2>1, <2>2
<1>2. QED BY <1>1, TokensType

LEMMA FilterParsed ==
  ASSUME NEW l \in Lines \cup {<< >>}, Command(l) = "get"
  PROVE  ParseEventFilter(Tokens(l)).filter \in Filters(Texts(Tokens(l)))
<1>1. PICK args : args = Tokens(l)
  OBVIOUS
<1>2. PICK C : args \in Seq(C)
  BY <1>1, LinesAreRead
<1>3. args # << >>
  BY <1>1 DEF Command
<1>4. Len(args) \in 1 .. Len(args)
  BY <1>2, <1>3
<1>5. Parsing(args)[Len(args)] \in ParseStates(Texts(args))
  BY <1>2, <1>3, <1>4, ParsingSteps
<1>6. QED BY <1>1, <1>5 DEF ParseEventFilter, ParseStates

LEMMA FilterDomain == ASSUME NEW T, NEW f \in Filters(T) PROVE DOMAIN f = Types
  BY DEF Filters

LEMMA Start == ASSUME Init PROVE IInv
<1>1. logged = {} /\ table = {} /\ IsFiniteSet({}) /\ Cardinality({}) = 0
  BY FS_EmptySet DEF Init
<1>2. printed.says = "" /\ request = Absent /\ line = << >> /\ client = "starting"
  BY DEF Init, Output
<1>3. TypeOK
  <2>1. 1 \in 1 .. MaxTime /\ 0 <= MaxRows
    <3>1. MaxTime \in Nat /\ MaxTime # 0 /\ MaxRows \in Nat
      BY CliAssumption DEF CliAssumption
    <3>2. QED BY <3>1
  <2>2. {row.id : row \in table} = {x.id : x \in logged}
    BY <1>1
  <2>3. QED BY <1>1, <1>2, <2>1, <2>2 DEF TypeOK, Init
<1>4. Logged
  BY <1>1 DEF Logged, IsLog, RowsOf
<1>5. Requested
  BY <1>2, EmptyCommand DEF Requested
<1>6. Quiet /\ Answered /\ Totalled /\ OnlyWrongNamesRefused
  BY <1>2 DEF Quiet, Answered, Totalled, OnlyWrongNamesRefused
<1>7. QED BY <1>3, <1>4, <1>5, <1>6 DEF IInv

-------------------------------------------------------------------------------
(* The steps that leave the table alone.                                   *)

LEMMA TableStays ==
  ASSUME IInv, UNCHANGED <<service, table, logged, clock>>,
         client' \in {"starting", "prompt", "printed", "ended", "aborted"},
         line' \in Lines \cup {<< >>}, request' = Absent \/ DOMAIN request' = Types
  PROVE  TypeOK' /\ Logged'
  BY DEF IInv, TypeOK, Logged

\* A step that prints neither an answer nor a refusal.
LEMMA NothingClaimed ==
  ASSUME printed'.says \notin {"events", "stats", "refused"}
  PROVE  Answered' /\ Totalled' /\ OnlyWrongNamesRefused'
  BY DEF Answered, Totalled, OnlyWrongNamesRefused

LEMMA ProgramStep ==
  ASSUME IInv, Connect \/ ConnectFails \/ EndOfInput
  PROVE  IInv'
<1>1. /\ client' \in {"prompt", "ended"} /\ client \in {"starting", "prompt"}
      /\ UNCHANGED <<service, line, request, printed, table, logged, clock>>
  BY DEF Connect, ConnectFails, EndOfInput
<1>2. TypeOK' /\ Logged'
  BY <1>1, TableStays DEF IInv, TypeOK
<1>3. printed'.says = ""
  BY <1>1 DEF IInv, Quiet
<1>4. Requested' /\ Quiet'
  BY <1>1, <1>3 DEF IInv, Requested, Quiet
<1>5. QED BY <1>2, <1>3, <1>4, NothingClaimed DEF IInv

LEMMA PromptStep ==
  ASSUME IInv, Prompt
  PROVE  IInv'
<1>1. /\ client' = "prompt" /\ line' = << >> /\ request' = Absent /\ printed'.says = ""
      /\ UNCHANGED <<service, table, logged, clock>>
  BY DEF Prompt, Output
<1>2. TypeOK' /\ Logged'
  BY <1>1, TableStays
<1>3. Requested' /\ Quiet'
  BY <1>1, EmptyCommand DEF Requested, Quiet
<1>4. QED BY <1>1, <1>2, <1>3, NothingClaimed DEF IInv

\* A command that is not sent.
LEMMA TalkStep ==
  ASSUME IInv, NEW l \in Lines, Talk(l) \/ SaveWithoutFile(l) \/ GetRefused(l) \/ GetThrows(l)
  PROVE  IInv'
<1>1. /\ line' = l /\ UNCHANGED <<service, request, table, logged, clock>>
      /\ client' \in {"printed", "aborted"}
  BY DEF Talk, SaveWithoutFile, GetRefused, GetThrows, Reads, Show
<1>2. TypeOK' /\ Logged'
  BY <1>1, TableStays DEF IInv, TypeOK
<1>3. printed'.says \in {"", "help", "unknown", "missing file path", "can't open file", "invalid"}
  <2>1. CASE Talk(l)
    BY <2>1 DEF Talk, Show, Output
  <2>2. CASE SaveWithoutFile(l)
    BY <2>2 DEF SaveWithoutFile, Show, Output
  <2>3. CASE GetRefused(l)
    BY <2>3 DEF GetRefused, Show, Output
  <2>4. CASE GetThrows(l)
    BY <2>4 DEF GetThrows, Reads, IInv, Quiet
  <2>5. QED BY <2>1, <2>2, <2>3, <2>4
<1>4. ~(Command(l) = "get" /\ ParseEventFilter(Tokens(l)).outcome = "ok")
  BY DEF Talk, SaveWithoutFile, GetRefused, GetThrows, Reads
<1>5. Requested' /\ Quiet'
  BY <1>1, <1>4 DEF Requested, Quiet
<1>6. QED BY <1>2, <1>3, <1>5, NothingClaimed DEF IInv

LEMMA GetStep ==
  ASSUME IInv, NEW l \in Lines, Get(l)
  PROVE  IInv'
<1>1. PICK f : f = ParseEventFilter(Tokens(l)).filter
  OBVIOUS
<1>2. /\ Command(l) = "get" /\ line' = l /\ request' = f
      /\ UNCHANGED <<service, table, logged, clock>>
  BY <1>1 DEF Get, Reads
<1>3. f \in Filters(Texts(Tokens(l)))
  BY <1>1, <1>2, FilterParsed
<1>4. PICK s \in Ordered(table, Conveyed(f)) :
        LET answer == Received(GetEvents(Conveyed(f), s)) IN
        \/ answer # Error /\ Show("events", [i \in DOMAIN answer |-> Shown(answer[i])])
        \/ Show("failed", Absent)
  BY <1>2 DEF Get
<1>5. client' = "printed"
  BY <1>4 DEF Show
<1>6. TypeOK' /\ Logged'
  BY <1>2, <1>3, <1>5, FilterDomain, TableStays
<1>7. Requested' /\ Quiet'
  BY <1>1, <1>2, <1>5 DEF Requested, Quiet
<1>8. \/ printed'.says = "events" /\ printed'.what \in LinesFor(f, table)
      \/ printed'.says = "failed"
  BY <1>4 DEF Show, Output, LinesFor
<1>9. Answered' /\ Totalled' /\ OnlyWrongNamesRefused'
  BY <1>2, <1>3, <1>8 DEF Answered, Totalled, OnlyWrongNamesRefused
<1>10. QED BY <1>6, <1>7, <1>9 DEF IInv

LEMMA StatsStep ==
  ASSUME IInv, NEW l \in Lines, Stats(l)
  PROVE  IInv'
<1>1. /\ Command(l) = "stats" /\ line' = l /\ client' = "printed"
      /\ UNCHANGED <<service, request, table, logged, clock>>
  BY DEF Stats, Reads, Show
<1>2. TypeOK' /\ Logged'
  BY <1>1, TableStays DEF IInv, TypeOK
<1>3. Requested' /\ Quiet'
  BY <1>1 DEF Requested, Quiet
<1>4. \/ printed'.says = "stats" /\ printed'.what = ToDtoStats(ToProtoStats(Counted(table)))
      \/ printed'.says = "failed"
  BY DEF Stats, Show, Output
<1>5. Answered' /\ Totalled' /\ OnlyWrongNamesRefused'
  BY <1>1, <1>4 DEF Answered, Totalled, OnlyWrongNamesRefused
<1>6. QED BY <1>2, <1>3, <1>5 DEF IInv

-------------------------------------------------------------------------------
(* The step that adds to the table.                                        *)

LEMMA LastTime ==
  ASSUME NEW n \in Nat, NEW b \in Int, NEW c \in 1 .. b, NEW times \in [1 .. n -> c .. b],
         \A i, j \in 1 .. n : i < j => times[i] <= times[j]
  PROVE  Max({c} \cup ToSet(times)) \in 1 .. b
<1>1. PICK S : S = {c} \cup ToSet(times)
  OBVIOUS
<1>2. \A x : x \in S <=> x = c \/ \E i \in 1 .. n : x = times[i]
  BY <1>1 DEF ToSet
<1>3. \A x \in S : x \in c .. b /\ x \in 1 .. b
  BY <1>2
<1>4. \E x \in S : \A y \in S : x >= y
  <2>1. CASE n = 0
    BY <1>2, <2>1
  <2>2. CASE n # 0
    <3>1. n \in 1 .. n /\ \A i \in 1 .. n : times[n] >= times[i] /\ times[n] >= c
      <4>1. n \in 1 .. n
        BY <2>2
      <4>2. \A i \in 1 .. n : i = n \/ i < n
        OBVIOUS
      <4>3. \A i \in 1 .. n : times[i] \in Int /\ times[i] >= c
        OBVIOUS
      <4>4. QED BY <4>1, <4>2, <4>3
    <3>2. PICK x : x = times[n]
      OBVIOUS
    <3>3. x \in S /\ \A y \in S : x >= y
      BY <1>2, <3>1, <3>2
    <3>4. QED BY <3>3
  <2>3. QED BY <2>1, <2>2
<1>5. Max(S) \in S
  BY <1>4 DEF Max
<1>6. QED BY <1>1, <1>3, <1>5

LEMMA SaveStep ==
  ASSUME IInv, NEW l \in Lines, Save(l)
  PROVE  IInv'
<1>1. PICK entries : entries = Files[Path(l)]
  OBVIOUS
<1>2. /\ Command(l) = "save" /\ line' = l /\ service' = service /\ request' = request
      /\ Path(l) \in DOMAIN Files /\ Cardinality(table) + Len(entries) <= MaxRows
  BY <1>1 DEF Save, Reads
<1>3. PICK times : /\ times \in Times(entries) /\ SaveEvents(entries, times)
                   /\ clock' = Max({clock} \cup ToSet(times))
  BY <1>1 DEF Save
<1>4. PICK n \in Nat : n = Len(entries) /\ DOMAIN entries = 1 .. n /\ entries \in Seq(Entries)
  <2>1. entries \in Seq(Entries)
    BY <1>1, <1>2, CliAssumption DEF CliAssumption
  <2>2. QED BY <2>1
<1>5. /\ times \in [1 .. n -> clock .. MaxTime] /\ clock \in 1 .. MaxTime
      /\ MaxTime \in Int /\ MaxRows \in Nat
      /\ \A i, j \in 1 .. n : i < j => times[i] <= times[j]
  <2>1. clock \in 1 .. MaxTime /\ MaxTime \in Nat /\ MaxRows \in Nat
    BY CliAssumption DEF CliAssumption, IInv, TypeOK
  <2>2. QED BY <1>3, <1>4, <2>1 DEF Times
<1>6. clock' \in 1 .. MaxTime
  BY <1>3, <1>5, LastTime
<1>7. \A i \in DOMAIN entries : times[i] \in Clock
  <2>1. \A i \in 1 .. n : times[i] \in clock .. MaxTime
    BY <1>5
  <2>2. \A t \in clock .. MaxTime : t \in 1 .. MaxTime
    BY <1>5
  <2>3. QED BY <1>4, <2>1, <2>2 DEF Clock
<1>8. service \in Services /\ IsLog(logged) /\ table = RowsOf(service, logged)
  BY DEF IInv, TypeOK, Logged
<1>9. PICK c \in Nat : c = Cardinality(table) /\ c = Cardinality(logged)
  <2>1. Cardinality(table) = Cardinality(logged) /\ Cardinality(logged) \in Nat
    BY <1>8, TableCounts
  <2>2. QED BY <2>1
<1>10. PICK sent, lines : /\ sent = Batch(service, entries, times)
                          /\ lines = LinesOf(entries, times)
  OBVIOUS
<1>11. PICK m \in 0 .. Len(entries) :
         /\ DOMAIN sent = 1 .. m /\ Len(lines) = m
         /\ m = 0 => \A i \in DOMAIN entries : Blank(entries[i])
         /\ service = "ipv4_filter" => \A i \in DOMAIN sent : ValidateEvent(sent[i])
         /\ \A h \in 0 .. m : Stored(service, sent, lines, c, h)
  BY <1>4, <1>7, <1>8, <1>10, BatchIs
<1>12. PICK h \in 0 .. m :
         /\ \A row \in NewRows(sent, c, h) : SatisfiesSchema(row)
         /\ table' = table \cup NewRows(sent, c, h)
         /\ logged' = logged \cup NewLog(lines, c, h)
         /\ \/ /\ ~(sent # << >> /\ \A i \in DOMAIN sent : ValidateEvent(sent[i]))
               /\ Show("refused", Absent)
            \/ Show("saved", Absent) \/ Show("failed", Absent)
  <2>1. Events(entries, times) = EventsOf(service, entries, times)
    BY DEF Events, BuiltAt, EventsOf, Stamp
  <2>2. sent = [i \in DOMAIN Events(entries, times) |-> ToProtoEvent(Events(entries, times)[i])]
    BY <1>10, <2>1 DEF Batch
  <2>3. \A k : LogOf(lines, k) = NewLog(lines, c, k)
    BY <1>9 DEF LogOf, NewLog
  <2>4. \A k : {ToRow(ToDtoEvent(sent[i]), Cardinality(table) + i) : i \in 1 .. k}
                 = NewRows(sent, c, k)
    BY <1>9 DEF NewRows
  <2>5. Len(sent) = m /\ Len(lines) = m
    BY <1>11, <2>2
  <2>6. PICK k \in {0, m} \cup 0 .. m :
          /\ \A i \in 1 .. k : SatisfiesSchema(ToRow(ToDtoEvent(sent[i]), Cardinality(table) + i))
          /\ table' = table \cup {ToRow(ToDtoEvent(sent[i]), Cardinality(table) + i) : i \in 1 .. k}
          /\ logged' = logged \cup LogOf(lines, k)
          /\ \/ /\ ~(sent # << >> /\ \A i \in DOMAIN sent : ValidateEvent(sent[i]))
                /\ Show("refused", Absent)
             \/ Show("saved", Absent) \/ Show("failed", Absent)
    BY <1>3, <1>10, <2>2, <2>5 DEF SaveEvents
  <2>7. k \in 0 .. m
    OBVIOUS
  <2>8. \A row \in NewRows(sent, c, k) : SatisfiesSchema(row)
    BY <1>9, <2>6 DEF NewRows
  <2>9. QED BY <2>3, <2>4, <2>6, <2>7, <2>8
<1>13. client' = "printed"
  BY <1>12 DEF Show
<1>14. /\ Logged' /\ Cardinality(table') <= MaxRows
       /\ {row.id : row \in table'} = {x.id : x \in logged'}
  <2>1. h \in Nat /\ h <= Len(entries) /\ Stored(service, sent, lines, c, h)
    BY <1>11
  <2>2. PICK news : news = NewLog(lines, c, h) /\ NewRows(sent, c, h) = RowsOf(service, news)
    BY <2>1 DEF Stored
  <2>3. IsNews(news, Cardinality(logged), h)
    BY <1>9, <2>1, <2>2 DEF Stored
  <2>4. logged' = logged \cup news /\ table' = table \cup RowsOf(service, news)
    BY <1>12, <2>2
  <2>5. IsLog(logged') /\ Cardinality(logged') = c + h
    <3>1. PICK k, L, N : k = h /\ L = logged /\ N = logged'
      BY <2>1
    <3>2. k \in Nat /\ IsLog(L) /\ IsNews(news, Cardinality(L), k) /\ N = L \cup news
      BY <1>8, <2>1, <2>3, <2>4, <3>1
    <3>3. IsLog(N) /\ Cardinality(N) = Cardinality(L) + k
      BY <3>2, LogGrows
    <3>4. QED BY <1>9, <3>1, <3>3
  <2>6. table' = RowsOf(service, logged')
    BY <1>8, <2>4 DEF RowsOf
  <2>7. Cardinality(table') = c + h /\ Ids(table') = Ids(logged')
    BY <2>5, <2>6, TableCounts
  <2>8. c + h <= MaxRows
    BY <1>2, <1>4, <1>5, <1>9, <2>1
  <2>9. Logged' /\ Cardinality(table') <= MaxRows
    BY <1>2, <2>5, <2>6, <2>7, <2>8 DEF Logged
  <2>10. {row.id : row \in table'} = {x.id : x \in logged'}
    BY <2>7 DEF Ids
  <2>11. QED BY <2>9, <2>10
<1>15. TypeOK'
  <2>1. \A row \in table' : SatisfiesSchema(row)
    BY <1>12 DEF IInv, TypeOK
  <2>2. request' = Absent \/ DOMAIN request' = Types
    BY <1>2 DEF IInv, TypeOK
  <2>3. QED BY <1>2, <1>6, <1>8, <1>13, <1>14, <2>1, <2>2 DEF TypeOK
<1>16. Requested' /\ Quiet'
  BY <1>2, <1>13 DEF Requested, Quiet
<1>17. printed'.says \in {"refused", "saved", "failed"}
  BY <1>12 DEF Show, Output
<1>18. Answered' /\ Totalled'
  BY <1>17 DEF Answered, Totalled
<1>19. OnlyWrongNamesRefused'
  <2>1. SUFFICES ASSUME printed'.says = "refused", service = "ipv4_filter"
                 PROVE  \A entry \in ToSet(entries) : entry.raw_line = ""
    BY <1>1, <1>2 DEF OnlyWrongNamesRefused
  <2>2. ~(sent # << >> /\ \A i \in DOMAIN sent : ValidateEvent(sent[i]))
    BY <1>12, <2>1 DEF Show, Output
  <2>3. sent = << >>
    BY <1>11, <2>1, <2>2
  <2>4. m = 0
    <3>1. DOMAIN sent = {}
      BY <2>3
    <3>2. m \in Nat /\ 1 .. m = {}
      BY <1>11, <3>1
    <3>3. QED BY <3>2
  <2>5. QED BY <1>11, <2>4 DEF ToSet, Blank
<1>20. QED BY <1>14, <1>15, <1>16, <1>18, <1>19 DEF IInv

-------------------------------------------------------------------------------

LEMMA Inductive == IInv /\ [Next]_vars => IInv'
<1>1. SUFFICES ASSUME IInv, [Next]_vars PROVE IInv'
  OBVIOUS
<1>2. CASE UNCHANGED vars
  <2>1. TypeOK' /\ Logged' /\ Requested' /\ Quiet'
    BY <1>1, <1>2 DEF vars, IInv, TypeOK, Logged, Requested, Quiet
  <2>2. Answered' /\ Totalled'
    BY <1>1, <1>2 DEF vars, IInv, Answered, Totalled
  <2>3. OnlyWrongNamesRefused'
    BY <1>1, <1>2 DEF vars, IInv, OnlyWrongNamesRefused, Path
  <2>4. QED BY <2>1, <2>2, <2>3 DEF IInv
<1>3. CASE Connect \/ ConnectFails \/ EndOfInput
  BY <1>1, <1>3, ProgramStep
<1>4. CASE Prompt
  BY <1>1, <1>4, PromptStep
<1>5. ASSUME NEW l \in Lines,
             \/ Talk(l) \/ SaveWithoutFile(l) \/ Save(l)
             \/ GetRefused(l) \/ GetThrows(l) \/ Get(l) \/ Stats(l)
      PROVE  IInv'
  BY <1>1, <1>5, TalkStep, SaveStep, GetStep, StatsStep
<1>6. QED BY <1>1, <1>2, <1>3, <1>4, <1>5 DEF Next

LEMMA Invariance == Spec => []IInv
<1>1. Init => IInv
  BY Start
<1>2. QED BY <1>1, Inductive, PTL DEF Spec

\* Of the program: its variables have their types, every row in the table
\* satisfies the schema and stands for an entry that was logged.
THEOREM TypeCorrect == Spec => []TypeOK
<1>1. IInv => TypeOK
  BY DEF IInv
<1>2. QED BY <1>1, Invariance, PTL

\* The tokenizer, for lines of every length: its arguments are the fields of the
\* line that are not empty.
THEOREM TokensSplit == Spec => []TokensSplitAtSpaces
<1>1. ASSUME IInv PROVE TokensSplitAtSpaces
  <2>1. line \in Lines \cup {<< >>}
    BY <1>1 DEF IInv, TypeOK
  <2>2. PICK C : line \in Seq(C)
    BY <2>1, LinesAreRead
  <2>3. QED BY <2>2, TokensAreFields DEF TokensSplitAtSpaces, Fields
<1>2. QED BY <1>1, Invariance, PTL

\* ParseEventFilter, for any number of options in any order: a Get whose options
\* can be read is sent with the value given last for each.
THEOREM OptionsHonoured == Spec => []OptionsAreHonoured
<1>1. ASSUME IInv PROVE OptionsAreHonoured
  <2>1. PICK args : args = Tokens(line)
    OBVIOUS
  <2>2. SUFFICES ASSUME Command(line) = "get", AllReadable(args)
                 PROVE  request = [type \in Types |->
                                     IF Given(args, type) = {} THEN Absent
                                     ELSE Means(type, args[Max(Given(args, type)) + 1])]
    BY <2>1 DEF OptionsAreHonoured, AllReadable, Given
  <2>3. line \in Lines \cup {<< >>}
    BY <1>1 DEF IInv, TypeOK
  <2>4. PICK C : args \in Seq(C)
    BY <2>1, <2>3, LinesAreRead
  <2>5. args # << >>
    BY <2>1, <2>2 DEF Command
  <2>6. /\ ParseEventFilter(args).outcome = "ok"
        /\ ParseEventFilter(args).filter
             = [type \in Types |-> IF Given(args, type) = {} THEN Absent
                                   ELSE Means(type, args[Max(Given(args, type)) + 1])]
    BY <2>2, <2>4, <2>5, OptionsRead
  <2>7. request = ParseEventFilter(args).filter
    BY <1>1, <2>1, <2>2, <2>6 DEF IInv, Requested
  <2>8. QED BY <2>6, <2>7
<1>2. QED BY <1>1, Invariance, PTL

\* Stats, for every number of files that were sent: the totals add up and count
\* the entries of the log that became rows.
THEOREM StatsCountTheLog == Spec => []StatsAgree
<1>1. ASSUME IInv PROVE StatsAgree
  <2>1. SUFFICES ASSUME printed.says = "stats"
                 PROVE  /\ printed.what.events_total
                             = printed.what.events_success + printed.what.events_error
                        /\ printed.what.events_success = Cardinality(Parsed(logged))
                        /\ printed.what.events_total = Cardinality(logged)
    BY DEF StatsAgree, Parsed
  <2>2. PICK counts : counts = Counted(table)
    OBVIOUS
  <2>3. printed.what = ToDtoStats(ToProtoStats(counts))
    BY <1>1, <2>1, <2>2 DEF IInv, Totalled
  <2>4. /\ printed.what.events_total = counts.events_total
        /\ printed.what.events_success = counts.events_success
        /\ printed.what.events_error = counts.events_error
    BY <2>3 DEF ToDtoStats, ToProtoStats
  <2>5. IsLog(logged) /\ table = RowsOf(service, logged)
    BY <1>1 DEF IInv, Logged
  <2>6. /\ counts.events_total = Cardinality(logged)
        /\ counts.events_success = Cardinality(Parsed(logged))
        /\ counts.events_total = counts.events_success + counts.events_error
    BY <2>2, <2>5, TableCounts
  <2>7. QED BY <2>4, <2>6
<1>2. QED BY <1>1, Invariance, PTL

\* SaveEventUseCase and Validate, for every file: what the builder makes of its
\* lines is refused only under another service name or when it makes nothing.
THEOREM RefusalsHaveReasons == Spec => []OnlyWrongNamesRefused
<1>1. IInv => OnlyWrongNamesRefused
  BY DEF IInv
<1>2. QED BY <1>1, Invariance, PTL

-------------------------------------------------------------------------------
(* The answer of a Get.                                                    *)

\* Describes, for the name sv of the service.
DescribesAs(sv, p, x) ==
  /\ p.payload.raw_line = x.entry.raw_line
  /\ p.source_service = sv
  /\ p.status = "success" <=> x.entry.parsed_ip # Absent
  /\ p.payload.filter_decision = "accepted" <=> x.entry.reason = "None"
  /\ Reason(p.payload.reject_reason) = x.entry.reason
  /\ Map(p.payload.parsed_ip, Quad) = x.entry.parsed_ip

\* A line describes the entries whose lines are like it.
LEMMA LineDescribes ==
  ASSUME NEW sv, NEW x, x.entry \in Entries, x.time \in Clock,
         NEW y, y.entry \in Entries, y.time \in Clock, NEW p, p = LineOf(sv, y.entry, y.time),
         NEW q, q = LineOf(sv, x.entry, x.time)
  PROVE  DescribesAs(sv, p, x) <=> Alike(q, p)
<1>1. ASSUME NEW z, z.entry \in Entries, z.time \in Clock,
             NEW u, u = LineOf(sv, z.entry, z.time)
      PROVE  /\ u.source_service = sv
             /\ u.status = StatusToStr(StatusOf(z.entry.parsed_ip))
             /\ u.payload = [raw_line |-> z.entry.raw_line,
                             parsed_ip |-> Map(z.entry.parsed_ip, IPv4AddressToString),
                             filter_decision |-> GetFilterDecision(z.entry.reason),
                             reject_reason |-> FilterRejectReasonToStr(z.entry.reason)]
             /\ DescribesAs(sv, u, z)
  <2>1. PICK ip, d, r : /\ ip = Map(z.entry.parsed_ip, IPv4AddressToString)
                        /\ d = GetFilterDecision(z.entry.reason)
                        /\ r = FilterRejectReasonToStr(z.entry.reason)
    OBVIOUS
  <2>2. /\ u.source_service = sv /\ u.status = StatusToStr(StatusOf(z.entry.parsed_ip))
        /\ u.payload = [raw_line |-> z.entry.raw_line, parsed_ip |-> ip,
                        filter_decision |-> d, reject_reason |-> r]
    BY <1>1, <2>1 DEF LineOf, EventOf
  <2>3. /\ Map(ip, Quad) = z.entry.parsed_ip
        /\ d = "accepted" <=> z.entry.reason = "None"
        /\ Reason(r) = z.entry.reason
    BY <1>1, <2>1, BuiltIs
  <2>4. StatusToStr(StatusOf(z.entry.parsed_ip)) = "success" <=> z.entry.parsed_ip # Absent
    BY StatusNames DEF StatusOf
  <2>5. DescribesAs(sv, u, z)
    BY <2>2, <2>3, <2>4 DEF DescribesAs
  <2>6. QED BY <2>1, <2>2, <2>5
<1>2. DescribesAs(sv, p, x) => Alike(q, p)
  <2>1. HAVE DescribesAs(sv, p, x)
  <2>2. DescribesAs(sv, p, y)
    BY <1>1
  <2>3. /\ x.entry.raw_line = y.entry.raw_line /\ x.entry.reason = y.entry.reason
        /\ x.entry.parsed_ip = y.entry.parsed_ip
    BY <2>1, <2>2 DEF DescribesAs
  <2>4. q.payload = p.payload /\ q.status = p.status /\ q.source_service = p.source_service
    BY <1>1, <2>3
  <2>5. QED BY <2>4 DEF Alike
<1>3. Alike(q, p) => DescribesAs(sv, p, x)
  <2>1. HAVE Alike(q, p)
  <2>2. DescribesAs(sv, q, x)
    BY <1>1
  <2>3. QED BY <2>1, <2>2 DEF Alike, DescribesAs
<1>4. QED BY <1>2, <1>3

\* The entries that a Get of source and status selects.
Wanted(sv, L, f) ==
  {x \in L : /\ f.source_service \in {Absent, sv}
             /\ f.status = Absent \/ \E b \in {x.entry.parsed_ip # Absent} :
                  f.status = IF b THEN "success" ELSE "error"}

LEMMA RowsWanted ==
  ASSUME NEW sv, NEW L, IsLog(L), NEW f, f.from = Absent, f.to = Absent
  PROVE  WantedIn(RowsOf(sv, L), f) = RowsOf(sv, Wanted(sv, L, f))
<1>1. \A r : r \in WantedIn(RowsOf(sv, L), f) <=>
        \E x \in L : /\ r = RowOf(sv, x) /\ f.source_service \in {Absent, r.source_service}
                     /\ f.status \in {Absent, r.status}
  BY DEF WantedIn, RowsOf
<1>2. ASSUME NEW x \in L
      PROVE  /\ RowOf(sv, x).source_service = sv
             /\ f.status \in {Absent, RowOf(sv, x).status} <=>
                  f.status = Absent \/ \E b \in {x.entry.parsed_ip # Absent} :
                    f.status = IF b THEN "success" ELSE "error"
  <2>1. /\ RowOf(sv, x).source_service = sv
        /\ RowOf(sv, x).status \in {"success", "error"}
        /\ RowOf(sv, x).status = "success" <=> x.entry.parsed_ip # Absent
    BY LogRowIs
  <2>2. QED BY <2>1
<1>3. \A r : r \in RowsOf(sv, Wanted(sv, L, f)) <=>
        \E x \in L : /\ r = RowOf(sv, x) /\ f.source_service \in {Absent, sv}
                     /\ f.status = Absent \/ \E b \in {x.entry.parsed_ip # Absent} :
                          f.status = IF b THEN "success" ELSE "error"
  BY DEF RowsOf, Wanted
<1>4. \A r : r \in WantedIn(RowsOf(sv, L), f) <=> r \in RowsOf(sv, Wanted(sv, L, f))
  BY <1>1, <1>2, <1>3
<1>5. QED BY <1>4 DEF WantedIn

\* A request without limit and offset is answered with all that it selects.
LEMMA WholeAnswer ==
  ASSUME NEW T, NEW f \in FilterSet(T), f.limit = Absent, f.offset = Absent,
         NEW M, NEW s \in Seq(M), NEW answer, answer = Received(GetEvents(Conveyed(f), s)),
         answer # Error
  PROVE  answer = s
<1>1. Conveyed(f).limit = Absent /\ Conveyed(f).offset = Absent
  BY ConveyedFilter DEF Map
<1>2. GetEvents(Conveyed(f), s) = Slice(s, MaxEvents, 0)
  BY <1>1 DEF GetEvents, Selected
<1>3. PICK n \in Nat : n = Len(s)
  OBVIOUS
<1>4. MaxEvents \in Nat /\ MaxMessage \in Nat /\ MaxMessage < MaxEvents
  BY FilterAssumption DEF FilterAssumption
<1>5. PICK k \in 0 .. n : k = Lesser(0 + MaxEvents, n) /\ (k = n \/ k = MaxEvents)
  BY <1>4 DEF Lesser
<1>6. Slice(s, MaxEvents, 0) = SubSeq(s, 1, k) /\ Len(SubSeq(s, 1, k)) = k
  <2>1. 0 + 1 = 1
    OBVIOUS
  <2>2. Slice(s, MaxEvents, 0) = SubSeq(s, 1, k)
    BY <1>3, <1>5, <2>1 DEF Slice
  <2>3. QED BY <1>3, <2>2
<1>7. answer = SubSeq(s, 1, k) /\ ~(k > MaxMessage)
  BY <1>2, <1>6 DEF Received
<1>8. k = n
  BY <1>4, <1>5, <1>7
<1>9. SubSeq(s, 1, n) = s
  BY <1>3
<1>10. QED BY <1>7, <1>8, <1>9

\* As many lines as entries of A, and of each line as many like it as entries that it describes.
Depicts(sv, shown, A) ==
  /\ Len(shown) = Cardinality(A)
  /\ \A i \in DOMAIN shown :
       Cardinality({j \in DOMAIN shown : Alike(shown[j], shown[i])})
         = Cardinality({x \in A : DescribesAs(sv, shown[i], x)})

LEMMA LinesOfRows ==
  ASSUME NEW sv, NEW L, IsLog(L), NEW A, \A x \in A : x \in L,
         NEW s \in SetToSeqs(RowsOf(sv, A)), NEW shown,
         shown = [i \in DOMAIN s |-> Shown(s[i])]
  PROVE  Depicts(sv, shown, A)
<1>1. PICK M : M = RowsOf(sv, A)
  OBVIOUS
<1>2. \A r : r \in M <=> \E x \in A : r = RowOf(sv, x)
  BY <1>1 DEF RowsOf
<1>3. IsFiniteSet(M) /\ Cardinality(M) = Cardinality(A) /\ IsFiniteSet(A)
  BY <1>2, LogRows
<1>4. /\ s \in Seq(M) /\ Len(s) = Cardinality(A) /\ Len(s) \in Nat
      /\ IsInjective(s) /\ ToSet(s) = M
  BY <1>1, <1>3, ListsAll
<1>5. PICK n \in Nat : n = Len(s) /\ DOMAIN s = 1 .. n
  BY <1>4
<1>6. DOMAIN shown = 1 .. n /\ Len(shown) = n /\ \A i \in 1 .. n : shown[i] = Shown(s[i])
  BY <1>5
<1>7. /\ \A i, j \in 1 .. n : s[i] = s[j] => i = j
      /\ \A i \in 1 .. n : \E x \in A : s[i] = RowOf(sv, x)
      /\ \A x \in A : \E i \in 1 .. n : s[i] = RowOf(sv, x)
  <2>1. \A i, j \in 1 .. n : s[i] = s[j] => i = j
    BY <1>4, <1>5 DEF IsInjective
  <2>2. \A r : r \in M <=> \E i \in 1 .. n : s[i] = r
    BY <1>4, <1>5 DEF ToSet
  <2>3. QED BY <1>2, <2>1, <2>2
<1>8. \A x \in A : /\ x.entry \in Entries /\ x.time \in Clock /\ RowOf(sv, x).id = x.id
                   /\ Shown(RowOf(sv, x)) = LineOf(sv, x.entry, x.time)
  BY LogRowIs
<1>9. \A x, y \in A : RowOf(sv, x) = RowOf(sv, y) => x = y
  <2>1. \A x, y \in A : x.id = y.id => x = y
    BY DEF IsLog
  <2>2. QED BY <1>8, <2>1
<1>10. ASSUME NEW i \in 1 .. n
       PROVE  Cardinality({j \in DOMAIN shown : Alike(shown[j], shown[i])})
                = Cardinality({x \in A : DescribesAs(sv, shown[i], x)})
  <2>1. PICK B, J : /\ B = {x \in A : DescribesAs(sv, shown[i], x)}
                    /\ J = {j \in DOMAIN shown : Alike(shown[j], shown[i])}
    OBVIOUS
  <2>2. PICK p : p = shown[i]
    OBVIOUS
  <2>3. PICK y \in A : s[i] = RowOf(sv, y) /\ p = LineOf(sv, y.entry, y.time)
    BY <1>6, <1>7, <1>8, <2>2
  <2>4. ASSUME NEW x \in A PROVE x \in B <=> Alike(LineOf(sv, x.entry, x.time), p)
    <3>1. DescribesAs(sv, p, x) <=> Alike(LineOf(sv, x.entry, x.time), p)
      BY <1>8, <2>3, LineDescribes
    <3>2. QED BY <2>1, <2>2, <3>1
  <2>5. PICK f : f = [x \in B |-> CHOOSE j \in 1 .. n : s[j] = RowOf(sv, x)]
    OBVIOUS
  <2>6. \A x \in B : x \in A /\ f[x] \in 1 .. n /\ s[f[x]] = RowOf(sv, x)
    BY <1>7, <2>1, <2>5
  <2>7. \A x, z \in B : f[x] = f[z] => x = z
    BY <1>9, <2>6
  <2>8. ASSUME NEW j \in 1 .. n PROVE j \in J <=> \E x \in B : j = f[x]
    <3>1. PICK x \in A : s[j] = RowOf(sv, x) /\ shown[j] = LineOf(sv, x.entry, x.time)
      BY <1>6, <1>7, <1>8
    <3>2. j \in J <=> x \in B
      BY <1>6, <2>1, <2>2, <2>4, <3>1
    <3>3. x \in B => j = f[x]
      BY <1>7, <2>6, <3>1
    <3>4. \A z \in B : j = f[z] => z = x
      BY <1>9, <2>6, <3>1
    <3>5. QED BY <3>2, <3>3, <3>4
  <2>9. \A j : j \in J <=> \E x \in B : j = f[x]
    BY <1>6, <2>1, <2>6, <2>8
  <2>10. IsFiniteSet(B)
    <3>1. B \in SUBSET A
      BY <2>1
    <3>2. QED BY <1>3, <3>1, FS_Subset
  <2>11. Cardinality(J) = Cardinality(B)
    BY <2>7, <2>9, <2>10, SameNumber
  <2>12. QED BY <2>1, <2>11
<1>11. QED BY <1>4, <1>5, <1>6, <1>10 DEF Depicts

\* Get, for every log: without limit and offset, and with no status or one that an
\* event can have, it prints a line for each entry that its options select, through
\* all conversions, and nothing else. What the line says of the time is left open.
THEOREM GetPrintsTheLog == Spec => []GetPrintsWhatWasLogged
<1>1. ASSUME IInv PROVE GetPrintsWhatWasLogged
  <2>1. SUFFICES ASSUME printed.says = "events", request.limit = Absent, request.offset = Absent,
                        request.status # "unspecified"
                 PROVE  Depicts(service, printed.what, Wanted(service, logged, request))
    BY DEF GetPrintsWhatWasLogged, Depicts, Wanted, Describes, DescribesAs
  <2>2. PICK A, shown : A = Wanted(service, logged, request) /\ shown = printed.what
    OBVIOUS
  <2>3. PICK T, f : /\ f = request /\ f \in Filters(T) /\ shown \in LinesFor(f, table)
    BY <1>1, <2>1, <2>2 DEF IInv, Answered
  <2>4. f \in FilterSet(T)
    BY <2>3, FiltersAreTyped
  <2>5. f.from = Absent /\ f.to = Absent
    BY <2>3, TypesAre DEF Filters, Kind
  <2>6. IsLog(logged) /\ table = RowsOf(service, logged)
    BY <1>1 DEF IInv, Logged
  <2>7. PICK s, answer :
          /\ s \in Ordered(table, Conveyed(f))
          /\ answer = Received(GetEvents(Conveyed(f), s)) /\ answer # Error
          /\ shown = [i \in DOMAIN answer |-> Shown(answer[i])]
    BY <2>3 DEF LinesFor
  <2>8. Matching(table, Conveyed(f)) = RowsOf(service, A)
    BY <2>2, <2>3, <2>4, <2>5, <2>6, MatchingIsWanted, RowsWanted
  <2>9. s \in SetToSeqs(RowsOf(service, A))
    BY <2>7, <2>8 DEF Ordered
  <2>10. \A x \in A : x \in logged
    BY <2>2 DEF Wanted
  <2>11. PICK M : s \in Seq(M)
    <3>1. IsFiniteSet(RowsOf(service, A))
      <4>1. \A r : r \in RowsOf(service, A) <=> \E x \in A : r = RowOf(service, x)
        BY DEF RowsOf
      <4>2. QED BY <2>6, <2>10, <4>1, LogRows
    <3>2. QED BY <2>9, <3>1, ListsAll
  <2>12. answer = s
    BY <2>1, <2>3, <2>4, <2>7, <2>11, WholeAnswer
  <2>13. Depicts(service, shown, A)
    <3>1. shown = [i \in DOMAIN s |-> Shown(s[i])]
      BY <2>7, <2>12
    <3>2. QED BY <2>6, <2>9, <2>10, <3>1, LinesOfRows
  <2>14. QED BY <2>2, <2>13
<1>2. QED BY <1>1, Invariance, PTL
===============================================================================
