----------------------------- MODULE BufferProofs -----------------------------
(***************************************************************************)
(* What the gridder's and the degridder's buffer rely on: the slots that   *)
(* LocalTime gives, and the a-term interval of a slot.                     *)
(***************************************************************************)
EXTENDS Buffer, WellFoundedInduction, TLAPS

(* A nonempty set of natural numbers has a least element. *)
LEMMA Least ==
    ASSUME NEW T \in SUBSET Nat, T # {}
    PROVE  \E n \in T : \A m \in T : n <= m
<1> DEFINE R == {ss \in Nat \X Nat : ss[1] < ss[2]}
<1>1. IsWellFoundedOn(R, Nat)
  BY NatLessThanWellFounded DEF OpToRel
<1>2. \A m, n \in Nat : m < n => <<m, n>> \in R
  OBVIOUS
<1> HIDE DEF R
<1>3. PICK n \in T : \A m \in T : ~(<<m, n>> \in R)
  BY <1>1, WFMin
<1>4. ASSUME NEW m \in T PROVE n <= m
  <2>1. m \in Nat /\ n \in Nat
    OBVIOUS
  <2>2. ~(m < n)
    BY <1>2, <1>3, <2>1
  <2> QED BY <2>1, <2>2
<1> QED BY <1>4

-----------------------------------------------------------------------------
(* Integers modulo the range of an int. *)

(* A multiple of a positive number is no less than the number of times. *)
LEMMA Multiples ==
  ASSUME NEW a \in Int, NEW b \in Int, NEW n \in Nat \ {0}, a <= b
  PROVE  a * n \in Int /\ b * n \in Int /\ a * n <= b * n
<1> DEFINE d == b - a
<1>1. d \in Nat /\ b = a + d
  OBVIOUS
<1> HIDE DEF d
<1>2. b * n = a * n + d * n
  BY <1>1
<1>3. d * n \in Nat /\ a * n \in Int
  BY <1>1
<1> QED BY <1>2, <1>3

(* Multiples of n that are less than n apart are equal. *)
LEMMA MultiplesApart ==
  ASSUME NEW a \in Int, NEW b \in Int, NEW n \in Nat \ {0},
         a * n - b * n < n, b * n - a * n < n
  PROVE  a = b
<1>1. ASSUME NEW x \in Int, NEW y \in Int, x < y PROVE y * n - x * n >= n
  <2> DEFINE d == y - x - 1
  <2>1. d \in Nat /\ y = x + 1 + d
    BY <1>1
  <2> HIDE DEF d
  <2>2. y * n = x * n + n + d * n
    BY <2>1
  <2>3. d * n \in Nat /\ x * n \in Int
    BY <2>1
  <2> QED BY <2>2, <2>3
<1>2. a * n \in Int /\ b * n \in Int
  OBVIOUS
<1>3. ~(a < b) /\ ~(b < a)
  BY <1>1, <1>2
<1> QED BY <1>3

(* The remainder of a division. *)
LEMMA Remainder ==
  ASSUME NEW x \in Int, NEW n \in Nat \ {0}
  PROVE  /\ x % n \in 0 .. n - 1 /\ x \div n \in Int
         /\ x = (x \div n) * n + (x % n)
OBVIOUS

(* It is the only one. *)
LEMMA RemainderUnique ==
  ASSUME NEW n \in Nat \ {0}, NEW q \in Int, NEW m \in 0 .. n - 1, NEW x \in Int,
         x = q * n + m
  PROVE  x % n = m
<1> DEFINE r == x % n
           p == x \div n
<1>1. r \in 0 .. n - 1 /\ p \in Int /\ x = p * n + r
  BY Remainder
<1> HIDE DEF r, p
<1>2. p * n \in Int /\ q * n \in Int
  BY <1>1
<1>3. q * n - p * n < n /\ p * n - q * n < n
  BY <1>1, <1>2
<1>4. p = q
  BY <1>1, <1>3, MultiplesApart
<1>5. r = m
  BY <1>1, <1>2, <1>4
<1> QED BY <1>5 DEF r

(* The values of an int. *)
LEMMA IntRangeType ==
  /\ IntRange \in Nat \ {0} /\ BufferTimesteps \in Nat \ {0} /\ MaxTime \in Nat
  /\ 2 * (MaxTime + BufferTimesteps) <= IntRange
BY BufferAssumption

(* LocalTime differs from the difference by a multiple of the range. *)
LEMMA LocalTimeOf ==
  ASSUME NEW time \in Int, NEW start \in Int
  PROVE  /\ LocalTime(time, start) \in Int
         /\ 2 * LocalTime(time, start) < IntRange
         /\ -IntRange <= 2 * LocalTime(time, start)
         /\ \E q \in Int : time - start = q * IntRange + LocalTime(time, start)
<1> DEFINE x == time - start
           m == x % IntRange
           p == x \div IntRange
<1>1. m \in 0 .. IntRange - 1 /\ p \in Int /\ x = p * IntRange + m
  <2>1. x \in Int /\ IntRange \in Nat \ {0}
    BY IntRangeType
  <2> HIDE DEF x
  <2> QED BY <2>1, Remainder
<1>2. LocalTime(time, start) = IF 2 * m >= IntRange THEN m - IntRange ELSE m
  BY DEF LocalTime
<1>3. x = time - start
  OBVIOUS
<1> HIDE DEF m, p, x
<1>4. (p + 1) * IntRange = p * IntRange + IntRange /\ p * IntRange \in Int /\ p + 1 \in Int
  BY <1>1, IntRangeType
<1>5. CASE 2 * m >= IntRange
  <2>1. LocalTime(time, start) = m - IntRange
    BY <1>2, <1>5
  <2>2. x = (p + 1) * IntRange + (m - IntRange)
    <3>1. p * IntRange + IntRange + (m - IntRange) = p * IntRange + m
      BY <1>1, <1>4, IntRangeType
    <3> QED BY <1>1, <1>4, <3>1
  <2>3. /\ m - IntRange \in Int /\ 2 * (m - IntRange) < IntRange
        /\ -IntRange <= 2 * (m - IntRange)
    BY <1>1, <1>5, IntRangeType
  <2> QED BY <1>3, <1>4, <2>1, <2>2, <2>3
<1>6. CASE ~(2 * m >= IntRange)
  <2>1. LocalTime(time, start) = m
    BY <1>2, <1>6
  <2> QED BY <1>1, <1>3, <1>6, <2>1, IntRangeType
<1> QED BY <1>5, <1>6

(* It is the int that does, so that it counts on from one time to another. *)
LEMMA LocalTimeUnique ==
  ASSUME NEW time \in Int, NEW start \in Int, NEW t \in Int, NEW q \in Int,
         time - start = q * IntRange + t, 2 * t < IntRange, -IntRange <= 2 * t
  PROVE  LocalTime(time, start) = t
<1>1. PICK p \in Int : time - start = p * IntRange + LocalTime(time, start)
  BY LocalTimeOf
<1>2. /\ LocalTime(time, start) \in Int
      /\ 2 * LocalTime(time, start) < IntRange /\ -IntRange <= 2 * LocalTime(time, start)
  BY LocalTimeOf
<1> DEFINE s == LocalTime(time, start)
<1> HIDE DEF s
<1>3. /\ time - start = p * IntRange + s /\ s \in Int
      /\ 2 * s < IntRange /\ -IntRange <= 2 * s
  BY <1>1, <1>2 DEF s
<1>4. p * IntRange \in Int /\ q * IntRange \in Int
  BY IntRangeType
<1>5. p * IntRange - q * IntRange < IntRange /\ q * IntRange - p * IntRange < IntRange
  BY <1>3, <1>4, IntRangeType
<1>6. p = q
  BY <1>5, IntRangeType, MultiplesApart
<1>7. s = t
  BY <1>3, <1>4, <1>6
<1> QED BY <1>7 DEF s

(* Times count on within a batch, also beyond its end. *)
LEMMA LocalTimeLater ==
  ASSUME NEW start \in Int, NEW time \in Times, NEW later \in Times, time <= later,
         LocalTime(time, start) \in Slots
  PROVE  LocalTime(later, start) = LocalTime(time, start) + (later - time)
<1> DEFINE t == LocalTime(time, start)
<1>1. time \in Int /\ later \in Int /\ 0 <= time /\ later <= MaxTime
  BY IntRangeType DEF Times
<1>2. PICK q \in Int : time - start = q * IntRange + t
  BY <1>1, LocalTimeOf
<1>3. t \in Int /\ 0 <= t /\ t < BufferTimesteps
  BY IntRangeType DEF Slots
<1> HIDE DEF t
<1>4. q * IntRange \in Int
  BY IntRangeType
<1>5. later - start = q * IntRange + (t + (later - time))
  BY <1>1, <1>2, <1>3, <1>4
<1>6. /\ t + (later - time) \in Int /\ 2 * (t + (later - time)) < IntRange
      /\ -IntRange <= 2 * (t + (later - time))
  BY <1>1, <1>3, IntRangeType
<1> QED BY <1>1, <1>5, <1>6, LocalTimeUnique DEF t

(* Different times have different slots. *)
LEMMA LocalTimeApart ==
  ASSUME NEW start \in Int, NEW time \in Times, NEW other \in Times,
         LocalTime(time, start) = LocalTime(other, start)
  PROVE  time = other
<1> DEFINE t == LocalTime(time, start)
<1>1. time \in Int /\ other \in Int /\ time - other < IntRange /\ other - time < IntRange
  BY IntRangeType DEF Times
<1>2. PICK q \in Int : time - start = q * IntRange + t
  BY <1>1, LocalTimeOf
<1>3. PICK p \in Int : other - start = p * IntRange + t
  BY <1>1, LocalTimeOf
<1>4. t \in Int
  BY <1>1, LocalTimeOf
<1> HIDE DEF t
<1>5. q * IntRange \in Int /\ p * IntRange \in Int
  BY IntRangeType
<1>6. q * IntRange - p * IntRange < IntRange /\ p * IntRange - q * IntRange < IntRange
  BY <1>1, <1>2, <1>3, <1>4, <1>5
<1>7. p = q
  BY <1>6, IntRangeType, MultiplesApart
<1> QED BY <1>1, <1>2, <1>3, <1>4, <1>5, <1>7

(* Where the batch starts at 0, a time is in the slot of its number. *)
LEMMA LocalTimeOfFirst ==
  ASSUME NEW time \in Times
  PROVE  LocalTime(time, 0) = time
<1>1. /\ time \in Int /\ time - 0 = 0 * IntRange + time
      /\ 2 * time < IntRange /\ -IntRange <= 2 * time
  BY IntRangeType DEF Times
<1> QED BY <1>1, LocalTimeUnique

-----------------------------------------------------------------------------
(* The a-term of a slot. *)

(* The offsets begin at 0, end with the batch and do not decrease. *)
OffsetsInOrder(o) ==
  /\ o \in Seq(Nat) /\ Len(o) >= 2
  /\ o[1] = 0 /\ o[Len(o)] = BufferTimesteps
  /\ \A i, j \in 1 .. Len(o) : i <= j => o[i] <= o[j]

(* Every slot is in one of their intervals. *)
LEMMA AtermIndexOf ==
  ASSUME NEW o, OffsetsInOrder(o), NEW slot \in Slots
  PROVE  /\ AtermIndex(o, slot) \in 1 .. Len(o) - 1
         /\ o[AtermIndex(o, slot)] <= slot /\ slot < o[AtermIndex(o, slot) + 1]
         /\ \A n \in 1 .. Len(o) - 1 :
              o[n] <= slot /\ slot < o[n + 1] => AtermIndex(o, slot) = n
<1> DEFINE S == {n \in Nat : n \in 1 .. Len(o) /\ slot < o[n]}
<1>1. /\ Len(o) \in Nat /\ \A n \in 1 .. Len(o) : o[n] \in Nat
      /\ slot \in Nat /\ slot < BufferTimesteps
  BY IntRangeType DEF OffsetsInOrder, Slots
<1>2. Len(o) \in S
  BY <1>1 DEF OffsetsInOrder
<1>3. PICK n \in S : \A m \in S : n <= m
  <2> HIDE DEF S
  <2>1. S \in SUBSET Nat
    BY DEF S
  <2>2. S # {}
    BY <1>2
  <2> QED BY <2>1, <2>2, Least
<1>4. n # 1 /\ n - 1 \in 1 .. Len(o) - 1 /\ (n - 1) + 1 = n
  BY <1>1 DEF OffsetsInOrder
<1>5. n - 1 \notin S
  BY <1>3, <1>4
<1>6. o[n - 1] <= slot /\ slot < o[n]
  BY <1>1, <1>4, <1>5
<1>7. \E k \in 1 .. Len(o) - 1 : o[k] <= slot /\ slot < o[k + 1]
  BY <1>4, <1>6
<1> DEFINE k == AtermIndex(o, slot)
<1>8. k \in 1 .. Len(o) - 1 /\ o[k] <= slot /\ slot < o[k + 1]
  BY <1>7 DEF AtermIndex
<1> HIDE DEF k, S
<1>9. ASSUME NEW m \in 1 .. Len(o) - 1, o[m] <= slot, slot < o[m + 1]
      PROVE  k = m
  <2>1. \A i, j \in 1 .. Len(o) : i <= j => o[i] <= o[j]
    BY DEF OffsetsInOrder
  <2>2. /\ k + 1 \in 1 .. Len(o) /\ m + 1 \in 1 .. Len(o)
        /\ k \in 1 .. Len(o) /\ m \in 1 .. Len(o)
    BY <1>1, <1>8
  <2>3. ~(k + 1 <= m)
    BY <1>1, <1>8, <1>9, <2>1, <2>2
  <2>4. ~(m + 1 <= k)
    BY <1>1, <1>8, <1>9, <2>1, <2>2
  <2> QED BY <1>1, <1>8, <2>3, <2>4
<1> QED BY <1>8, <1>9 DEF k

(* The offsets of a buffer with one a-term. *)
LEMMA DefaultInOrder == OffsetsInOrder(DefaultOffsets)
<1> DEFINE o == DefaultOffsets
<1>1. o = <<0, BufferTimesteps>> /\ BufferTimesteps \in Nat
  BY IntRangeType DEF DefaultOffsets
<1>2. o \in Seq(Nat) /\ Len(o) = 2 /\ o[1] = 0 /\ o[2] = BufferTimesteps
  BY <1>1
<1> HIDE DEF o
<1>3. \A i, j \in 1 .. Len(o) : i <= j => o[i] <= o[j]
  <2> SUFFICES ASSUME NEW i \in {1, 2}, NEW j \in {1, 2}, i <= j PROVE o[i] <= o[j]
    BY <1>2
  <2> QED BY <1>1, <1>2
<1>4. OffsetsInOrder(o)
  BY <1>2, <1>3 DEF OffsetsInOrder
<1> QED BY <1>4 DEF o

(* A buffer that starts with one a-term. *)
LEMMA DefaultType ==
    ASSUME NEW a \in 0 .. MaxAterms
    PROVE  AtermsTypeOK(DefaultOffsets, <<a>>)
<1>1. DefaultOffsets \in Seq(Nat) /\ Len(DefaultOffsets) = 2
  BY IntRangeType DEF DefaultOffsets
<1>2. <<a>> \in Seq(0 .. MaxAterms) /\ Len(<<a>>) = 1
  OBVIOUS
<1> QED BY <1>1, <1>2 DEF AtermsTypeOK

(* All its slots have that one. *)
LEMMA AtermOfFirst ==
    ASSUME NEW t \in Slots
    PROVE  AtermIndex(DefaultOffsets, t) = 1
<1>1. /\ Len(DefaultOffsets) = 2 /\ DefaultOffsets[1] = 0 /\ DefaultOffsets[2] = BufferTimesteps
      /\ t \in Nat /\ t < BufferTimesteps
  BY IntRangeType DEF DefaultOffsets, Slots
<1>2. 1 \in 1 .. Len(DefaultOffsets) - 1
  BY <1>1
<1>3. DefaultOffsets[1] <= t /\ t < DefaultOffsets[1 + 1]
  BY <1>1
<1> QED BY <1>2, <1>3, DefaultInOrder, AtermIndexOf

(* The place of the last a-term. *)
LEMMA LastPlaces ==
    ASSUME AtermsTypeOK(atermOffsets, aterms), OffsetsInOrder(atermOffsets)
    PROVE  /\ Len(aterms) \in Nat \ {0} /\ Len(atermOffsets) = Len(aterms) + 1
           /\ LastOffset = atermOffsets[Len(aterms)] /\ LastOffset \in 0 .. BufferTimesteps
           /\ \A i \in 1 .. Len(aterms) : aterms[i] \in 0 .. MaxAterms
           /\ \A i \in 1 .. Len(aterms) + 1 : atermOffsets[i] \in Nat
           /\ LastAterm \in 0 .. MaxAterms
<1>1. /\ atermOffsets \in Seq(Nat) /\ aterms \in Seq(0 .. MaxAterms)
      /\ Len(atermOffsets) = Len(aterms) + 1 /\ Len(atermOffsets) >= 2
      /\ atermOffsets[Len(atermOffsets)] = BufferTimesteps
      /\ \A i, j \in 1 .. Len(atermOffsets) : i <= j => atermOffsets[i] <= atermOffsets[j]
  BY DEF AtermsTypeOK, OffsetsInOrder
<1>2. Len(aterms) \in Nat \ {0}
  BY <1>1
<1>3. LastOffset = atermOffsets[Len(aterms)]
  BY <1>1, <1>2 DEF LastOffset
<1>4. LastOffset \in 0 .. BufferTimesteps
  <2>1. Len(aterms) \in 1 .. Len(atermOffsets) /\ Len(atermOffsets) \in 1 .. Len(atermOffsets)
    BY <1>1, <1>2
  <2>2. atermOffsets[Len(aterms)] \in Nat
    BY <1>1, <2>1
  <2>3. atermOffsets[Len(aterms)] <= BufferTimesteps
    <3>1. Len(aterms) <= Len(atermOffsets)
      BY <1>1, <1>2
    <3> QED BY <1>1, <2>1, <3>1
  <2> QED BY <1>3, <2>2, <2>3, IntRangeType
<1>5. \A i \in 1 .. Len(aterms) : aterms[i] \in 0 .. MaxAterms
  <2> DEFINE A == 0 .. MaxAterms
  <2>1. aterms \in Seq(A)
    BY <1>1
  <2> HIDE DEF A
  <2>2. \A i \in 1 .. Len(aterms) : aterms[i] \in A
    BY <2>1
  <2> QED BY <2>2 DEF A
<1>8. \A i \in 1 .. Len(aterms) + 1 : atermOffsets[i] \in Nat
  <2>1. \A i \in 1 .. Len(atermOffsets) : atermOffsets[i] \in Nat
    BY <1>1
  <2> QED BY <1>1, <2>1
<1>6. LastAterm \in 0 .. MaxAterms
  <2>1. Len(aterms) \in 1 .. Len(aterms)
    BY <1>2
  <2> QED BY <2>1, <1>5 DEF LastAterm
<1>7. Len(atermOffsets) = Len(aterms) + 1
  BY <1>1
<1> QED BY <1>2, <1>3, <1>4, <1>5, <1>6, <1>7, <1>8

LEMMA DefaultLast ==
    ASSUME atermOffsets' = DefaultOffsets, NEW a, aterms' = <<a>>
    PROVE  LastOffset' = 0 /\ LastAterm' = a
<1>1. Len(atermOffsets') = 2 /\ atermOffsets'[1] = 0
  BY DEF DefaultOffsets
<1> QED BY <1>1 DEF LastOffset, LastAterm

(* What set_aterm makes of the a-terms and their offsets. *)
LEMMA SetAtermResult ==
    ASSUME AtermsTypeOK(atermOffsets, aterms), OffsetsInOrder(atermOffsets),
           atermSet \in 0 .. MaxAterms, SetAtermNow
    PROVE  LET n == Len(aterms)
               t == LocalTime(now, timeStart)
           IN  /\ t \in LastOffset .. BufferTimesteps
               /\ atermSet' = atermSet + 1 /\ atermSet' \in 0 .. MaxAterms
               /\ \/ /\ t = LastOffset /\ atermOffsets' = atermOffsets
                     /\ aterms' = [aterms EXCEPT ![n] = atermSet']
                  \/ /\ t > LastOffset /\ aterms' = Append(aterms, atermSet')
                     /\ atermOffsets' \in Seq(Nat) /\ Len(atermOffsets') = n + 2
                     /\ atermOffsets'[n + 1] = t /\ atermOffsets'[n + 2] = BufferTimesteps
                     /\ \A i \in 1 .. n : atermOffsets'[i] = atermOffsets[i]
               /\ aterms' \in Seq(0 .. MaxAterms)
               /\ Len(atermOffsets') = Len(aterms') + 1
               /\ OffsetsInOrder(atermOffsets')
               /\ LastAterm' = atermSet' /\ LastOffset' = t
<1> DEFINE n == Len(aterms)
           t == LocalTime(now, timeStart)
           a == atermSet'
<1>1. /\ n \in Nat \ {0} /\ Len(atermOffsets) = n + 1 /\ LastOffset = atermOffsets[n]
      /\ LastOffset \in Nat /\ LastOffset <= BufferTimesteps /\ BufferTimesteps \in Nat
      /\ \A i \in 1 .. n + 1 : atermOffsets[i] \in Nat
  BY LastPlaces, IntRangeType
<1>2. /\ atermOffsets \in Seq(Nat) /\ aterms \in Seq(0 .. MaxAterms) /\ OffsetsInOrder(atermOffsets)
      /\ atermSet \in 0 .. MaxAterms
  BY DEF AtermsTypeOK
<1>3. a = atermSet + 1 /\ a \in 0 .. MaxAterms
  BY <1>2, BufferAssumption DEF SetAtermNow
<1>4. t \in LastOffset .. BufferTimesteps /\ t \in Nat
  BY <1>1 DEF SetAtermNow, MaySetAterm, AtermInBatch
<1>5. IF t = LastOffset
      THEN aterms' = [aterms EXCEPT ![n] = a] /\ atermOffsets' = atermOffsets
      ELSE /\ aterms' = Append(aterms, a)
           /\ atermOffsets' = [atermOffsets EXCEPT ![Len(atermOffsets)] = t] \o <<BufferTimesteps>>
  BY DEF SetAtermNow
<1>6. LastAterm' = aterms'[Len(aterms')] /\ LastOffset' = atermOffsets'[Len(atermOffsets') - 1]
  BY DEF LastAterm, LastOffset
<1> HIDE DEF n, t, a
<1>7. CASE t = LastOffset
  <2>1. aterms' = [aterms EXCEPT ![n] = a] /\ atermOffsets' = atermOffsets
    BY <1>5, <1>7
  <2>2. aterms' \in Seq(0 .. MaxAterms) /\ Len(aterms') = n /\ aterms'[n] = a
    BY <2>1, <1>1, <1>2, <1>3 DEF n
  <2>3. LastAterm' = a /\ LastOffset' = t
    BY <1>1, <1>6, <1>7, <2>1, <2>2
  <2> QED BY <1>1, <1>2, <1>3, <1>4, <1>7, <2>1, <2>2, <2>3 DEF n, t, a
<1>8. CASE t # LastOffset
  <2> DEFINE o == atermOffsets
             o1 == [o EXCEPT ![n + 1] = t]
             o2 == o1 \o <<BufferTimesteps>>
  <2>1. aterms' = Append(aterms, a) /\ atermOffsets' = o2
    BY <1>1, <1>5, <1>8
  <2>2. aterms' \in Seq(0 .. MaxAterms) /\ Len(aterms') = n + 1 /\ aterms'[n + 1] = a
    BY <2>1, <1>1, <1>2, <1>3 DEF n
  <2>3. o1 \in Seq(Nat) /\ Len(o1) = n + 1 /\ o1[n + 1] = t /\ \A i \in 1 .. n : o1[i] = o[i]
    BY <1>1, <1>2, <1>4
  <2> HIDE DEF o1
  <2>4. /\ o2 \in Seq(Nat) /\ Len(o2) = n + 2 /\ o2[n + 2] = BufferTimesteps
        /\ \A i \in 1 .. n + 1 : o2[i] = o1[i]
    BY <2>3, <1>1
  <2>5. n + 1 \in 1 .. n + 1 /\ \A i \in 1 .. n : i \in 1 .. n + 1
    BY <1>1
  <2> HIDE DEF o2
  <2>6. o2[n + 1] = t /\ \A i \in 1 .. n : o2[i] = o[i]
    BY <2>3, <2>4, <2>5
  <2>7. \A i, j \in 1 .. n + 2 : i <= j => o2[i] <= o2[j]
    <3> SUFFICES ASSUME NEW i \in 1 .. n + 2, NEW j \in 1 .. n + 2, i <= j
                 PROVE  o2[i] <= o2[j]
      OBVIOUS
    <3>1. \A l, m \in 1 .. n : l <= m => o[l] <= o[m]
      BY <1>1, <1>2 DEF OffsetsInOrder
    <3>2. n \in 1 .. n /\ \A l \in 1 .. n : o[l] <= LastOffset /\ o[l] \in Nat
      BY <3>1, <1>1
    <3>3. \A l \in 1 .. n : o2[l] <= t /\ o2[l] <= BufferTimesteps
      BY <3>2, <2>6, <1>1, <1>4
    <3>4. /\ i \in 1 .. n \/ i = n + 1 \/ i = n + 2
          /\ j \in 1 .. n \/ j = n + 1 \/ j = n + 2
      BY <1>1
    <3>5. CASE j \in 1 .. n
      <4>1. i \in 1 .. n
        BY <3>5, <1>1
      <4> QED BY <4>1, <3>1, <3>5, <2>6
    <3>6. CASE j = n + 1
      <4>1. i \in 1 .. n \/ i = n + 1
        BY <3>4, <3>6, <1>1
      <4> QED BY <4>1, <3>3, <3>6, <2>6, <1>4
    <3>7. CASE j = n + 2
      BY <3>3, <3>4, <3>7, <2>4, <2>6, <1>1, <1>4
    <3> QED BY <3>4, <3>5, <3>6, <3>7
  <2>8. o2[1] = 0
    BY <2>6, <1>1, <1>2 DEF OffsetsInOrder
  <2>9. OffsetsInOrder(o2)
    BY <2>4, <2>7, <2>8, <1>1 DEF OffsetsInOrder
  <2>10. LastAterm' = a /\ LastOffset' = t
    BY <1>1, <1>6, <2>1, <2>2, <2>4, <2>6
  <2>11. t > LastOffset
    BY <1>1, <1>4, <1>8
  <2> QED BY <1>1, <1>3, <1>4, <2>1, <2>2, <2>4, <2>6, <2>9, <2>10, <2>11 DEF n, t, a
<1> QED BY <1>7, <1>8

(* A slot at which the last a-term has started gets that one. *)
LEMMA LastAtermOf ==
    ASSUME AtermsTypeOK(atermOffsets, aterms), OffsetsInOrder(atermOffsets),
           NEW slot \in Slots, LastOffset <= slot
    PROVE  aterms[AtermIndex(atermOffsets, slot)] = LastAterm
<1> DEFINE n == Len(aterms)
<1>1. /\ n \in Nat \ {0} /\ Len(atermOffsets) = n + 1 /\ LastOffset = atermOffsets[n]
      /\ atermOffsets[n + 1] = BufferTimesteps
  BY LastPlaces DEF OffsetsInOrder
<1>2. slot < BufferTimesteps
  BY IntRangeType DEF Slots
<1> HIDE DEF n
<1>3. n \in 1 .. Len(atermOffsets) - 1 /\ atermOffsets[n] <= slot /\ slot < atermOffsets[n + 1]
  BY <1>1, <1>2
<1>4. AtermIndex(atermOffsets, slot) = n
  BY <1>3, AtermIndexOf
<1> QED BY <1>4 DEF n, LastAterm

(* set_aterm leaves the a-terms of the slots before it as they are. *)
LEMMA SetAtermKeeps ==
    ASSUME AtermsTypeOK(atermOffsets, aterms), OffsetsInOrder(atermOffsets),
           atermSet \in 0 .. MaxAterms, SetAtermNow,
           NEW slot \in Slots, slot < LocalTime(now, timeStart),
           NEW o1, o1 = atermOffsets', NEW a1, a1 = aterms'
    PROVE  a1[AtermIndex(o1, slot)] = aterms[AtermIndex(atermOffsets, slot)]
<1> DEFINE n == Len(aterms)
           t == LocalTime(now, timeStart)
           k == AtermIndex(atermOffsets, slot)
<1>1. PICK a : a = atermSet'
  OBVIOUS
<1>2. /\ \/ t = LastOffset /\ o1 = atermOffsets /\ a1 = [aterms EXCEPT ![n] = a]
         \/ /\ t > LastOffset /\ a1 = Append(aterms, a)
            /\ Len(o1) = n + 2 /\ o1[n + 1] = t
            /\ \A i \in 1 .. n : o1[i] = atermOffsets[i]
      /\ OffsetsInOrder(o1) /\ t \in LastOffset .. BufferTimesteps
  BY <1>1, SetAtermResult
<1>3. /\ n \in Nat \ {0} /\ Len(atermOffsets) = n + 1 /\ LastOffset = atermOffsets[n]
      /\ LastOffset \in Nat /\ aterms \in Seq(0 .. MaxAterms)
      /\ \A i \in 1 .. n + 1 : atermOffsets[i] \in Nat
  BY LastPlaces DEF AtermsTypeOK
<1>4. k \in 1 .. n /\ atermOffsets[k] <= slot /\ slot < atermOffsets[k + 1]
  <2>1. k \in 1 .. Len(atermOffsets) - 1 /\ atermOffsets[k] <= slot /\ slot < atermOffsets[k + 1]
    BY AtermIndexOf
  <2> QED BY <1>3, <2>1
<1>5. slot \in Nat /\ slot < t /\ t \in Nat
  BY <1>2, <1>3, IntRangeType DEF Slots
<1> HIDE DEF k, t, n
<1>6. CASE t = LastOffset /\ o1 = atermOffsets /\ a1 = [aterms EXCEPT ![n] = a]
  <2>1. k # n
    BY <1>3, <1>4, <1>5, <1>6
  <2>2. a1[k] = aterms[k]
    BY <1>3, <1>4, <1>6, <2>1 DEF n
  <2> QED BY <1>6, <2>2 DEF k
<1>7. CASE /\ t > LastOffset /\ a1 = Append(aterms, a)
           /\ Len(o1) = n + 2 /\ o1[n + 1] = t
           /\ \A i \in 1 .. n : o1[i] = atermOffsets[i]
  <2>1. o1[k] <= slot
    BY <1>4, <1>7
  <2>2. slot < o1[k + 1]
    <3>1. CASE k = n
      BY <3>1, <1>5, <1>7
    <3>2. CASE k # n
      <4>1. k + 1 \in 1 .. n
        BY <3>2, <1>3, <1>4
      <4> QED BY <4>1, <1>4, <1>7
    <3> QED BY <3>1, <3>2
  <2>3. k \in 1 .. Len(o1) - 1
    BY <1>3, <1>4, <1>7
  <2>4. AtermIndex(o1, slot) = k
    BY <1>2, <2>1, <2>2, <2>3, AtermIndexOf
  <2>5. a1[k] = aterms[k]
    BY <1>3, <1>4, <1>7 DEF n
  <2> QED BY <2>4, <2>5 DEF k
<1> QED BY <1>2, <1>6, <1>7
=============================================================================
