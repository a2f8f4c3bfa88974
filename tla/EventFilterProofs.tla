--------------------------- MODULE EventFilterProofs ---------------------------
(***************************************************************************)
(* Lemmas about EventFilter that the proofs about its users share: what is *)
(* left of a filter after its conversions, for all widths of limit and     *)
(* offset, and which rows the statement selects for it.                    *)
(***************************************************************************)
EXTENDS EventFilter, FiniteSetTheorems, SequenceTheorems, TLAPS

-------------------------------------------------------------------------------
(* The filter after its conversions.                                       *)

LEMMA ModSmall == ASSUME NEW n \in Nat, NEW m \in Nat, n < m PROVE n % m = n
  OBVIOUS

LEMMA ModNegative ==
  ASSUME NEW n \in Int, NEW m \in Nat, -m <= n, n < 0
  PROVE  n % m = n + m
  OBVIOUS

LEMMA ModMultiple ==
  ASSUME NEW q \in Int, NEW m \in Nat, NEW r \in 0 .. m - 1
  PROVE  (q * m + r) % m = r
  OBVIOUS

\* What is left of an int that goes through a size_t and a uint32.
Image(n) == IF n < 0 THEN n + UintSize ELSE n

LEMMA Images ==
  ASSUME NEW n \in -(IntMax + 1) .. IntMax
  PROVE  /\ (n % SizeSize) % UintSize = Image(n)
         /\ n % SizeSize \in Int /\ Image(n) \in Nat
         /\ n < 0 => Image(n) > IntMax
<1>1. IntMax \in Nat /\ UintSize \in Nat /\ UintSize = IntMax + IntMax + 2
  BY FilterAssumption DEF FilterAssumption, UintSize
<1>2. SizeSize \in Nat /\ SizeSize >= UintSize
  BY <1>1 DEF SizeSize
<1>3. CASE n >= 0
  <2>1. n \in Nat /\ n < UintSize /\ n < SizeSize
    BY <1>1, <1>2, <1>3
  <2>2. n % SizeSize = n /\ n % UintSize = n
    BY <1>1, <1>2, <2>1, ModSmall
  <2>3. QED BY <1>3, <2>1, <2>2 DEF Image
<1>4. CASE n < 0
  <2>1. n \in Int /\ -SizeSize <= n /\ n + UintSize \in 0 .. UintSize - 1
    BY <1>1, <1>2, <1>4
  <2>2. n % SizeSize = n + SizeSize
    BY <1>2, <1>4, <2>1, ModNegative
  <2>3. n + SizeSize = (UintSize - 1) * UintSize + (n + UintSize)
    BY <1>1, <2>1 DEF SizeSize
  <2>4. (n + SizeSize) % UintSize = n + UintSize
    <3>1. UintSize - 1 \in Int
      BY <1>1
    <3>2. ((UintSize - 1) * UintSize + (n + UintSize)) % UintSize = n + UintSize
      BY <1>1, <2>1, <3>1, ModMultiple
    <3>3. QED BY <2>3, <3>2
  <2>5. QED BY <1>1, <1>2, <1>4, <2>1, <2>2, <2>4 DEF Image
<1>5. QED BY <1>3, <1>4

LEMMA Statuses ==
  ASSUME NEW s \in DOMAIN StrToStatus
  PROVE  /\ StrToStatus[s] \in 0 .. 2
         /\ ToProtoEventStatus(StrToStatus[s]) \in {"UNSPECIFIED", "SUCCESS", "ERROR"}
         /\ FromProtoEventStatus(ToProtoEventStatus(StrToStatus[s])) = StrToStatus[s]
         /\ StatusToStr(StrToStatus[s]) = s
<1>1. DOMAIN StrToStatus = {"unspecified", "success", "error"}
  BY DEF StrToStatus
<1>2. CASE s = "unspecified"
  <2>1. StrToStatus[s] = 0
    BY <1>2 DEF StrToStatus
  <2>2. ToProtoEventStatus(StrToStatus[s]) = "UNSPECIFIED" /\ StatusToStr(StrToStatus[s]) = "unspecified"
    BY <2>1 DEF ToProtoEventStatus, StatusToStr
  <2>3. FromProtoEventStatus(ToProtoEventStatus(StrToStatus[s])) = 0
    BY <2>2 DEF FromProtoEventStatus
  <2>4. StrToStatus[s] \in 0 .. 2
    BY <2>1
  <2>5. QED BY <1>2, <2>1, <2>2, <2>3, <2>4
<1>3. CASE s = "success"
  <2>1. StrToStatus[s] = 1
    BY <1>3 DEF StrToStatus
  <2>2. ToProtoEventStatus(StrToStatus[s]) = "SUCCESS" /\ StatusToStr(StrToStatus[s]) = "success"
    BY <2>1 DEF ToProtoEventStatus, StatusToStr
  <2>3. FromProtoEventStatus(ToProtoEventStatus(StrToStatus[s])) = 1
    BY <2>2 DEF FromProtoEventStatus
  <2>4. StrToStatus[s] \in 0 .. 2
    BY <2>1
  <2>5. QED BY <1>3, <2>1, <2>2, <2>3, <2>4
<1>4. CASE s = "error"
  <2>1. StrToStatus[s] = 2
    BY <1>4 DEF StrToStatus
  <2>2. ToProtoEventStatus(StrToStatus[s]) = "ERROR" /\ StatusToStr(StrToStatus[s]) = "error"
    BY <2>1 DEF ToProtoEventStatus, StatusToStr
  <2>3. FromProtoEventStatus(ToProtoEventStatus(StrToStatus[s])) = 2
    BY <2>2 DEF FromProtoEventStatus
  <2>4. StrToStatus[s] \in 0 .. 2
    BY <2>1
  <2>5. QED BY <1>4, <2>1, <2>2, <2>3, <2>4
<1>5. QED BY <1>1, <1>2, <1>3, <1>4

OrAbsent(S) == S \cup {Absent}

\* The filters that name sources of S.
FilterSet(S) ==
  [source_service : S, status : OrAbsent(DOMAIN StrToStatus),
   limit : OrAbsent(-(IntMax + 1) .. IntMax), from : OrAbsent(Int),
   offset : OrAbsent(-(IntMax + 1) .. IntMax), to : OrAbsent(Int)]

\* Source, status and period arrive as they were typed, limit and offset as
\* their images.
LEMMA ConveyedFilter ==
  ASSUME NEW S, NEW f \in FilterSet(S)
  PROVE  /\ Conveyed(f).source_service = f.source_service
         /\ Map(Conveyed(f).status, StatusToStr) = f.status
         /\ Conveyed(f).from = f.from /\ Conveyed(f).to = f.to
         /\ Conveyed(f).limit = Map(f.limit, Image)
         /\ Conveyed(f).offset = Map(f.offset, Image)
<1> USE FilterAssumption DEF FilterAssumption
<1>1. /\ f.limit # Absent => f.limit \in -(IntMax + 1) .. IntMax
      /\ f.offset # Absent => f.offset \in -(IntMax + 1) .. IntMax
      /\ f.status # Absent => f.status \in DOMAIN StrToStatus
      /\ f.from # Absent => f.from \in Int
      /\ f.to # Absent => f.to \in Int
  BY DEF FilterSet, OrAbsent
<1>2. Conveyed(f).source_service = f.source_service
  BY DEF Conveyed, Typed, ToProtoEventFilter, FromProtoEventFilter, FilterSet
<1>3. Conveyed(f).limit = Map(f.limit, Image)
  BY <1>1, Images DEF Conveyed, Typed, ToProtoEventFilter, FromProtoEventFilter, FilterSet, Map
<1>4. Conveyed(f).offset = Map(f.offset, Image)
  BY <1>1, Images DEF Conveyed, Typed, ToProtoEventFilter, FromProtoEventFilter, FilterSet, Map
<1>5. Map(Conveyed(f).status, StatusToStr) = f.status
  BY <1>1, Statuses DEF Conveyed, Typed, ToProtoEventFilter, FromProtoEventFilter, FilterSet, Map
<1>6. Conveyed(f).from = f.from /\ Conveyed(f).to = f.to
  BY <1>1
  DEF Conveyed, Typed, ToProtoEventFilter, FromProtoEventFilter, FilterSet, Map,
      ToTimestampFromStr, FromTimestampToStr
<1>7. QED BY <1>2, <1>3, <1>4, <1>5, <1>6

-------------------------------------------------------------------------------
(* What the statement selects.                                             *)

\* The rows of T that f asks for, as it was typed.
WantedIn(T, f) ==
  {row \in T : /\ f.source_service \in {Absent, row.source_service}
               /\ f.status \in {Absent, row.status}
               /\ f.from # Absent => row.timestamp_utc >= f.from
               /\ f.to # Absent => row.timestamp_utc <= f.to}

LEMMA MatchingIsWanted ==
  ASSUME NEW S, NEW f \in FilterSet(S), NEW T
  PROVE  Matching(T, Conveyed(f)) = WantedIn(T, f)
<1>1. ASSUME NEW row \in T
      PROVE  row \in Matching(T, Conveyed(f)) <=> row \in WantedIn(T, f)
  BY ConveyedFilter DEF Matching, WantedIn
<1>2. QED BY <1>1 DEF Matching, WantedIn

-------------------------------------------------------------------------------
(* Sequences that list a set, and their windows.                           *)

LEMMA ListsAll ==
  ASSUME NEW M, IsFiniteSet(M), NEW s \in SetToSeqs(M)
  PROVE  /\ s \in Seq(M) /\ Len(s) = Cardinality(M) /\ Len(s) \in Nat
         /\ IsInjective(s) /\ ToSet(s) = M
<1> DEFINE D == 1 .. Cardinality(M)
<1>1. Cardinality(M) \in Nat
  BY FS_CardinalityType
<1>2. s \in [D -> M] /\ \A i, j \in D : i # j => s[i] # s[j]
  BY DEF SetToSeqs
<1>3. s \in Seq(M) /\ Len(s) = Cardinality(M) /\ DOMAIN s = D
  BY <1>1, <1>2
<1>4. IsInjective(s)
  BY <1>2, <1>3 DEF IsInjective
<1>5. s \in Injection(D, M)
  BY <1>2, <1>4 DEF Injection
<1>6. IsFiniteSet(D) /\ Cardinality(D) = Cardinality(M)
  BY <1>1, FS_Interval
<1>7. s \in Surjection(D, M)
  BY <1>5, <1>6, FS_Injection
<1>8. ToSet(s) = M
  BY <1>2, <1>3, <1>7 DEF Surjection, ToSet
<1>9. QED BY <1>1, <1>3, <1>4, <1>8
===============================================================================
