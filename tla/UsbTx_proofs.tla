---------------------------- MODULE UsbTx_proofs ----------------------------
(* Proofs about UsbTx, for any buffers, transfers, vaps and bounds. *)
EXTENDS UsbTx, FiniteSetTheorems, FunctionTheorems, SequenceTheorems, TLAPS

Distinct(list) == \A m, n \in DOMAIN list : list[m] = list[n] => m = n

\* Each buffer is once in one of the lists, and the free ones are in "inactive".
Parted ==
    /\ \A list \in {inactive, pending, active} : Distinct(list)
    /\ ToSet(inactive) \union InLists = Bufs
    /\ ToSet(inactive) \intersect InLists = {}
    /\ ToSet(active) \intersect ToSet(pending) = {}
    /\ \A b \in Bufs : frame[b] = NoFrame <=> b \in ToSet(inactive)

\* Only the stop of the device cancels a transfer, and it waits for it.
CancelledDraining == \A x \in Xfers : xfer[x] = "cancelled" => x \in draining

IInv ==
    /\ TypeOK /\ Parted
    /\ ActiveServed /\ PendingServed /\ CancelledDraining
    /\ RoomAgrees /\ StoppedIsEmpty

-----------------------------------------------------------------------------
(* Lists of distinct buffers. *)

LEMMA SeqFacts ==
    ASSUME NEW S, NEW list \in Seq(S)
    PROVE  /\ Len(list) \in Nat /\ DOMAIN list = 1 .. Len(list)
           /\ ToSet(list) = {list[n] : n \in 1 .. Len(list)}
           /\ ToSet(list) \subseteq S
           /\ list = <<>> <=> ToSet(list) = {}
           /\ list = <<>> <=> Len(list) = 0
<1>1. Len(list) \in Nat /\ DOMAIN list = 1 .. Len(list)
  BY LenProperties
<1>2. ToSet(list) = {list[n] : n \in 1 .. Len(list)}
  BY <1>1 DEF ToSet
<1>3. ToSet(list) \subseteq S
  BY <1>2, ElementOfSeq
<1>4. list = <<>> <=> Len(list) = 0
  BY <1>1, EmptySeq
<1>5. Len(list) = 0 <=> ToSet(list) = {}
  <2>1. CASE Len(list) = 0
    BY <2>1, <1>2
  <2>2. CASE Len(list) # 0
    <3>1. 1 \in 1 .. Len(list)
      BY <2>2, <1>1
    <3> QED BY <2>2, <3>1, <1>2
  <2> QED BY <2>1, <2>2
<1> QED BY <1>1, <1>2, <1>3, <1>4, <1>5

LEMMA Appended ==
    ASSUME NEW S, NEW list \in Seq(S), NEW b \in S
    PROVE  /\ Append(list, b) \in Seq(S)
           /\ ToSet(Append(list, b)) = ToSet(list) \union {b}
           /\ Len(Append(list, b)) = Len(list) + 1
           /\ Distinct(list) /\ b \notin ToSet(list) => Distinct(Append(list, b))
<1> DEFINE new == Append(list, b)
<1>1. /\ new \in Seq(S) /\ Len(new) = Len(list) + 1
      /\ \A n \in 1 .. Len(list) : new[n] = list[n]
      /\ new[Len(list) + 1] = b
  BY AppendProperties
<1>2. /\ Len(list) \in Nat /\ DOMAIN list = 1 .. Len(list)
      /\ ToSet(list) = {list[n] : n \in 1 .. Len(list)}
      /\ DOMAIN new = 1 .. Len(new)
      /\ ToSet(new) = {new[n] : n \in 1 .. Len(new)}
  BY <1>1, SeqFacts
<1> HIDE DEF new
<1>3. ToSet(new) = ToSet(list) \union {b}
  <2>1. ASSUME NEW y \in ToSet(new) PROVE y \in ToSet(list) \union {b}
    <3>1. PICK n \in 1 .. Len(new) : y = new[n]
      BY <1>2
    <3>2. n \in 1 .. Len(list) \/ n = Len(list) + 1
      BY <3>1, <1>1, <1>2
    <3> QED BY <3>1, <3>2, <1>1, <1>2
  <2>2. ASSUME NEW y \in ToSet(list) \union {b} PROVE y \in ToSet(new)
    <3>1. \A n \in 1 .. Len(list) : n \in 1 .. Len(new)
      BY <1>1, <1>2
    <3>2. Len(list) + 1 \in 1 .. Len(new)
      BY <1>1, <1>2
    <3>3. CASE y \in ToSet(list)
      <4>1. PICK n \in 1 .. Len(list) : y = list[n]
        BY <3>3, <1>2
      <4> QED BY <4>1, <3>1, <1>1, <1>2
    <3> QED BY <3>2, <3>3, <1>1, <1>2
  <2> QED BY <2>1, <2>2
<1>4. ASSUME Distinct(list), b \notin ToSet(list) PROVE Distinct(new)
  <2> SUFFICES ASSUME NEW m \in 1 .. Len(new), NEW n \in 1 .. Len(new), new[m] = new[n]
              PROVE m = n
    BY <1>2 DEF Distinct
  <2>1. m \in 1 .. Len(list) \/ m = Len(list) + 1
    BY <1>1, <1>2
  <2>2. n \in 1 .. Len(list) \/ n = Len(list) + 1
    BY <1>1, <1>2
  <2>3. \A k \in 1 .. Len(list) : list[k] # b
    BY <1>2, <1>4
  <2> QED BY <2>1, <2>2, <2>3, <1>1, <1>2, <1>4 DEF Distinct
<1> QED BY <1>1, <1>3, <1>4 DEF new

LEMMA Removed ==
    ASSUME NEW S, NEW list \in Seq(S), list # <<>>, Distinct(list)
    PROVE  /\ Tail(list) \in Seq(S) /\ Head(list) \in ToSet(list)
           /\ ToSet(Tail(list)) = ToSet(list) \ {Head(list)}
           /\ Len(Tail(list)) = Len(list) - 1
           /\ Distinct(Tail(list))
<1> DEFINE rest == Tail(list)
<1>1. /\ rest \in Seq(S) /\ Len(rest) = Len(list) - 1
      /\ \A n \in 1 .. Len(rest) : rest[n] = list[n + 1]
      /\ Head(list) = list[1]
  BY HeadTailProperties
<1>2. /\ Len(list) \in Nat \ {0} /\ DOMAIN list = 1 .. Len(list)
      /\ ToSet(list) = {list[n] : n \in 1 .. Len(list)}
      /\ DOMAIN rest = 1 .. Len(rest)
      /\ ToSet(rest) = {rest[n] : n \in 1 .. Len(rest)}
  <2>1. /\ Len(list) \in Nat \ {0} /\ DOMAIN list = 1 .. Len(list)
        /\ ToSet(list) = {list[n] : n \in 1 .. Len(list)}
    BY SeqFacts
  <2>2. /\ DOMAIN rest = 1 .. Len(rest)
        /\ ToSet(rest) = {rest[n] : n \in 1 .. Len(rest)}
    BY <1>1, SeqFacts
  <2> QED BY <2>1, <2>2
<1> HIDE DEF rest
<1>3. 1 \in 1 .. Len(list) /\ \A n \in 1 .. Len(rest) : n + 1 \in 2 .. Len(list) /\ n + 1 \in 1 .. Len(list)
  BY <1>1, <1>2
<1>4. ToSet(rest) = ToSet(list) \ {Head(list)}
  <2>1. ASSUME NEW y \in ToSet(rest) PROVE y \in ToSet(list) \ {Head(list)}
    <3>1. PICK n \in 1 .. Len(rest) : y = list[n + 1]
      BY <1>1, <1>2
    <3>2. n + 1 # 1
      BY <3>1, <1>3
    <3> QED BY <3>1, <3>2, <1>1, <1>2, <1>3 DEF Distinct
  <2>2. ASSUME NEW y \in ToSet(list) \ {Head(list)} PROVE y \in ToSet(rest)
    <3>1. PICK n \in 1 .. Len(list) : y = list[n]
      BY <1>2
    <3>2. n # 1
      BY <3>1, <1>1
    <3>3. n - 1 \in 1 .. Len(rest) /\ (n - 1) + 1 = n
      BY <3>1, <3>2, <1>1, <1>2
    <3> QED BY <3>1, <3>3, <1>1, <1>2
  <2> QED BY <2>1, <2>2
<1>5. Distinct(rest)
  <2> SUFFICES ASSUME NEW m \in 1 .. Len(rest), NEW n \in 1 .. Len(rest), rest[m] = rest[n]
              PROVE m = n
    BY <1>2 DEF Distinct
  <2>1. list[m + 1] = list[n + 1]
    BY <1>1
  <2>2. m + 1 = n + 1
    BY <2>1, <1>2, <1>3 DEF Distinct
  <2> QED BY <2>2, <1>1, <1>2
<1> QED BY <1>1, <1>2, <1>3, <1>4, <1>5 DEF rest

LEMMA Joined ==
    ASSUME NEW S, NEW list \in Seq(S), NEW other \in Seq(S)
    PROVE  /\ list \o other \in Seq(S)
           /\ ToSet(list \o other) = ToSet(list) \union ToSet(other)
           /\ Len(list \o other) = Len(list) + Len(other)
           /\ (Distinct(list) /\ Distinct(other) /\ ToSet(list) \intersect ToSet(other) = {})
              => Distinct(list \o other)
<1> DEFINE new == list \o other
<1>1. /\ new \in Seq(S) /\ Len(new) = Len(list) + Len(other)
      /\ \A n \in 1 .. Len(list) + Len(other) : new[n] =
            IF n <= Len(list) THEN list[n] ELSE other[n - Len(list)]
  BY ConcatProperties
<1>2. /\ Len(list) \in Nat /\ Len(other) \in Nat
      /\ DOMAIN list = 1 .. Len(list) /\ ToSet(list) = {list[n] : n \in 1 .. Len(list)}
      /\ DOMAIN other = 1 .. Len(other) /\ ToSet(other) = {other[n] : n \in 1 .. Len(other)}
      /\ DOMAIN new = 1 .. Len(new) /\ ToSet(new) = {new[n] : n \in 1 .. Len(new)}
  BY <1>1, SeqFacts
<1> HIDE DEF new
<1>3. /\ \A n \in 1 .. Len(list) : n \in 1 .. Len(new) /\ new[n] = list[n]
      /\ \A n \in 1 .. Len(other) : n + Len(list) \in 1 .. Len(new) /\ new[n + Len(list)] = other[n]
  <2>1. ASSUME NEW n \in 1 .. Len(list) PROVE n \in 1 .. Len(new) /\ new[n] = list[n]
    BY <1>1, <1>2
  <2>2. ASSUME NEW n \in 1 .. Len(other)
        PROVE n + Len(list) \in 1 .. Len(new) /\ new[n + Len(list)] = other[n]
    <3>1. n + Len(list) \in 1 .. Len(new) /\ ~(n + Len(list) <= Len(list)) /\ (n + Len(list)) - Len(list) = n
      BY <1>1, <1>2
    <3> QED BY <3>1, <1>1
  <2> QED BY <2>1, <2>2
<1>4. ASSUME NEW n \in 1 .. Len(new)
      PROVE  \/ n \in 1 .. Len(list) /\ new[n] = list[n]
             \/ n - Len(list) \in 1 .. Len(other) /\ new[n] = other[n - Len(list)]
  BY <1>1, <1>2
<1>5. ToSet(new) = ToSet(list) \union ToSet(other)
  <2>1. ASSUME NEW y \in ToSet(new) PROVE y \in ToSet(list) \union ToSet(other)
    <3>1. PICK n \in 1 .. Len(new) : y = new[n]
      BY <1>2
    <3> QED BY <3>1, <1>2, <1>4
  <2>2. ASSUME NEW y \in ToSet(list) PROVE y \in ToSet(new)
    BY <1>2, <1>3
  <2>3. ASSUME NEW y \in ToSet(other) PROVE y \in ToSet(new)
    BY <1>2, <1>3
  <2> QED BY <2>1, <2>2, <2>3
<1>6. ASSUME Distinct(list), Distinct(other), ToSet(list) \intersect ToSet(other) = {}
      PROVE  Distinct(new)
  <2> SUFFICES ASSUME NEW m \in 1 .. Len(new), NEW n \in 1 .. Len(new), new[m] = new[n]
              PROVE m = n
    BY <1>2 DEF Distinct
  <2>1. \A k \in 1 .. Len(list), l \in 1 .. Len(other) : list[k] # other[l]
    BY <1>2, <1>6
  <2>2. CASE m \in 1 .. Len(list) /\ n \in 1 .. Len(list)
    BY <2>2, <1>2, <1>3, <1>6 DEF Distinct
  <2>3. CASE m \notin 1 .. Len(list) /\ n \notin 1 .. Len(list)
    <3>1. m - Len(list) = n - Len(list)
      BY <2>3, <1>2, <1>4, <1>6 DEF Distinct
    <3> QED BY <3>1, <1>1, <1>2
  <2>4. CASE m \in 1 .. Len(list) /\ n \notin 1 .. Len(list)
    BY <2>1, <2>4, <1>3, <1>4
  <2>5. CASE m \notin 1 .. Len(list) /\ n \in 1 .. Len(list)
    BY <2>1, <2>5, <1>3, <1>4
  <2> QED BY <2>2, <2>3, <2>4, <2>5
<1> QED BY <1>1, <1>5, <1>6 DEF new

-----------------------------------------------------------------------------
(* Select. *)

\* Ranks count the places: each of them has one, and no two the same.
LEMMA Ranks ==
    ASSUME NEW N \in Nat, NEW places \in SUBSET (1 .. N)
    PROVE  /\ Cardinality(places) \in 0 .. N
           /\ \A n \in places : Rank(places, n) \in 1 .. Cardinality(places)
           /\ \A m, n \in places : Rank(places, m) = Rank(places, n) => m = n
           /\ \A k \in 1 .. Cardinality(places) : \E n \in places : Rank(places, n) = k
<1> DEFINE UpTo(n) == {m \in places : m <= n}
           card == Cardinality(places)
<1>1. IsFiniteSet(places) /\ card \in Nat /\ card \in 0 .. N /\ \A n \in places : n \in Nat
  <2>1. IsFiniteSet(1 .. N) /\ Cardinality(1 .. N) = N
    BY FS_Interval
  <2>2. IsFiniteSet(places) /\ card <= N
    BY <2>1, FS_Subset
  <2>3. card \in Nat
    BY <2>2, FS_CardinalityType
  <2> HIDE DEF card
  <2> QED BY <2>2, <2>3
<1>2. ASSUME NEW n \in places
      PROVE  IsFiniteSet(UpTo(n)) /\ Rank(places, n) \in 1 .. card
  <2>1. UpTo(n) \subseteq places /\ n \in UpTo(n)
    BY <1>1
  <2>2. IsFiniteSet(UpTo(n)) /\ Cardinality(UpTo(n)) <= card
    BY <2>1, <1>1, FS_Subset
  <2>3. Cardinality(UpTo(n)) \in Nat /\ Cardinality(UpTo(n)) # 0
    BY <2>1, <2>2, FS_CardinalityType, FS_EmptySet
  <2> QED BY <1>1, <2>2, <2>3 DEF Rank
<1>3. ASSUME NEW m \in places, NEW n \in places, m < n
      PROVE  Rank(places, m) # Rank(places, n)
  <2>1. UpTo(m) \subseteq UpTo(n) /\ n \in UpTo(n) /\ n \notin UpTo(m)
    <3>1. m \in Nat /\ n \in Nat /\ ~(n <= m) /\ n <= n
      BY <1>1, <1>3
    <3>2. \A k \in places : k <= m => k <= n
      BY <1>1, <1>3
    <3> QED BY <3>1, <3>2
  <2>2. IsFiniteSet(UpTo(n))
    BY <1>2
  <2>3. Cardinality(UpTo(n)) # Cardinality(UpTo(m))
    BY <2>1, <2>2, FS_Subset
  <2> QED BY <2>3 DEF Rank
<1>4. \A m, n \in places : Rank(places, m) = Rank(places, n) => m = n
  BY <1>3
<1>5. \A k \in 1 .. card : \E n \in places : Rank(places, n) = k
  <2> DEFINE f == [n \in places |-> Rank(places, n)]
             ranks == 1 .. card
  <2>1. f \in [places -> ranks] /\ \A m, n \in places : f[m] = f[n] => m = n
    BY <1>2, <1>4
  <2>2. IsFiniteSet(ranks) /\ Cardinality(ranks) = card
    BY <1>1, FS_Interval
  <2>3. \A n \in places : f[n] = Rank(places, n)
    OBVIOUS
  <2> HIDE DEF f, ranks
  <2>4. f \in Injection(places, ranks)
    BY <2>1, Fun_IsInj
  <2>5. f \in Surjection(places, ranks)
    BY <2>2, <2>4, FS_Injection
  <2>6. \A k \in ranks : \E n \in places : f[n] = k
    BY <2>5, Fun_SurjectionProperties
  <2> QED BY <2>3, <2>6 DEF ranks
<1> QED BY <1>1, <1>2, <1>4, <1>5

LEMMA Selected ==
    ASSUME NEW list \in Seq(Bufs), NEW bufs
    PROVE  /\ Select(list, bufs) \in Seq(Bufs)
           /\ ToSet(Select(list, bufs)) = ToSet(list) \intersect bufs
           /\ Len(Select(list, bufs)) <= Len(list)
           /\ Distinct(list) => Distinct(Select(list, bufs))
<1> DEFINE places == {n \in 1 .. Len(list) : list[n] \in bufs}
           card == Cardinality(places)
           At(k) == CHOOSE n \in places : Rank(places, n) = k
           new == [k \in 1 .. card |-> list[At(k)]]
<1>1. /\ Len(list) \in Nat /\ DOMAIN list = 1 .. Len(list)
      /\ ToSet(list) = {list[n] : n \in 1 .. Len(list)}
  BY SeqFacts
<1>2. places \subseteq 1 .. Len(list) /\ \A n \in 1 .. Len(list) : n \in places <=> list[n] \in bufs
  OBVIOUS
<1>3. Select(list, bufs) = new
  BY DEF Select
<1> HIDE DEF places
<1>4. /\ card \in 0 .. Len(list)
      /\ \A n \in places : Rank(places, n) \in 1 .. card
      /\ \A m, n \in places : Rank(places, m) = Rank(places, n) => m = n
      /\ \A k \in 1 .. card : \E n \in places : Rank(places, n) = k
  BY <1>1, <1>2, Ranks
<1>5. \A k \in 1 .. card : At(k) \in places /\ Rank(places, At(k)) = k
  BY <1>4
<1>6. \A n \in places : At(Rank(places, n)) = n
  BY <1>4, <1>5
<1> HIDE DEF At
<1>7. \A k \in 1 .. card : list[At(k)] \in Bufs
  BY <1>2, <1>5, ElementOfSeq
<1>8. new \in [1 .. card -> Bufs] /\ DOMAIN new = 1 .. card
      /\ \A k \in 1 .. card : new[k] = list[At(k)]
  BY <1>7
<1> HIDE DEF new
<1>9. new \in Seq(Bufs) /\ Len(new) = card
  <2>1. card \in Nat
    BY <1>4
  <2>2. new \in Seq(Bufs)
    BY <1>8, <2>1, SeqDef
  <2> QED BY <1>8, <2>1, <2>2, LenProperties
<1>10. ToSet(new) = ToSet(list) \intersect bufs
  <2>1. ASSUME NEW b \in ToSet(new) PROVE b \in ToSet(list) \intersect bufs
    <3>1. PICK k \in 1 .. card : b = list[At(k)]
      BY <1>8 DEF ToSet
    <3> QED BY <3>1, <1>1, <1>2, <1>5
  <2>2. ASSUME NEW b \in ToSet(list) \intersect bufs PROVE b \in ToSet(new)
    <3>1. PICK n \in 1 .. Len(list) : b = list[n]
      BY <1>1
    <3>2. n \in places
      BY <3>1, <2>2, <1>2
    <3>3. Rank(places, n) \in 1 .. card /\ new[Rank(places, n)] = b
      BY <3>1, <3>2, <1>4, <1>6, <1>8
    <3> QED BY <3>3, <1>8 DEF ToSet
  <2> QED BY <2>1, <2>2
<1>11. ASSUME Distinct(list) PROVE Distinct(new)
  <2> SUFFICES ASSUME NEW m \in 1 .. card, NEW n \in 1 .. card, new[m] = new[n]
              PROVE m = n
    BY <1>8 DEF Distinct
  <2>1. At(m) = At(n)
    BY <1>1, <1>2, <1>5, <1>8, <1>11 DEF Distinct
  <2> QED BY <2>1, <1>5
<1> QED BY <1>3, <1>4, <1>1, <1>9, <1>10, <1>11

-----------------------------------------------------------------------------
(* What the operations do to the lists. *)

ListsTyped ==
    /\ \A list \in {inactive, pending, active} : list \in Seq(Bufs)
    /\ frame \in [Bufs -> Frames \union {NoFrame}]

LEMMA ListsKept ==
    ASSUME ListsTyped, Parted, UNCHANGED lists
    PROVE  ListsTyped' /\ Parted'
BY DEF lists, ListsTyped, Parted, InLists

\* rtwn_usb_tx_start()
LEMMA StartParted ==
    ASSUME ListsTyped, Parted, NEW f \in Frames, NEW x \in Xfers, TxStart(f, x)
    PROVE  /\ ListsTyped' /\ Parted'
           /\ inactive' = <<>> => qfullmsk'
<1> DEFINE b == Head(inactive)
<1>1. /\ inactive' = Tail(inactive) /\ pending' = Append(pending, b) /\ active' = active
      /\ frame' = [frame EXCEPT ![b] = f] /\ inactive # <<>>
  BY DEF TxStart
<1>2. /\ inactive' \in Seq(Bufs) /\ b \in ToSet(inactive)
      /\ ToSet(inactive') = ToSet(inactive) \ {b} /\ Distinct(inactive')
      /\ Len(inactive') = Len(inactive) - 1 /\ Len(inactive) \in Nat
  BY <1>1, Removed, SeqFacts DEF ListsTyped, Parted
<1>3. b \in Bufs /\ b \notin ToSet(pending)
  BY <1>2 DEF Parted, InLists
<1>4. /\ pending' \in Seq(Bufs) /\ ToSet(pending') = ToSet(pending) \union {b}
      /\ Distinct(pending')
  BY <1>1, <1>3, Appended DEF ListsTyped, Parted
<1>5. f # NoFrame
  BY FrameAssumption DEF Frames
<1> HIDE DEF b
<1>6. ListsTyped'
  BY <1>1, <1>2, <1>3, <1>4 DEF ListsTyped
<1>7. Parted'
  BY <1>1, <1>2, <1>3, <1>4, <1>5 DEF Parted, InLists, ListsTyped
<1>8. inactive' = <<>> => qfullmsk'
  <2>1. inactive' = <<>> => Len(inactive') = 0
    BY <1>2, SeqFacts
  <2>2. inactive' = <<>> => LastBuffer
    BY <2>1, <1>1, <1>2 DEF LastBuffer
  <2> QED BY <2>2 DEF TxStart
<1> QED BY <1>6, <1>7, <1>8

\* rtwn_usb_txeof(): the oldest active buffer becomes free.
LEMMA EndParted ==
    ASSUME ListsTyped, Parted, active # <<>>, Txeof
    PROVE  /\ inactive' \in Seq(Bufs) /\ inactive' # <<>> /\ Distinct(inactive')
           /\ ToSet(inactive') = ToSet(inactive) \union {Head(active)}
           /\ Tail(active) \in Seq(Bufs) /\ Distinct(Tail(active))
           /\ ToSet(Tail(active)) = ToSet(active) \ {Head(active)}
           /\ Len(Tail(active)) = Len(active) - 1
           /\ Head(active) \in ToSet(active) /\ Head(active) \in Bufs
           /\ frame' = [frame EXCEPT ![Head(active)] = NoFrame]
           /\ frame' \in [Bufs -> Frames \union {NoFrame}]
<1> DEFINE b == Head(active)
<1>1. inactive' = Append(inactive, b) /\ frame' = [frame EXCEPT ![b] = NoFrame]
  BY DEF Txeof
<1>2. /\ Tail(active) \in Seq(Bufs) /\ b \in ToSet(active)
      /\ ToSet(Tail(active)) = ToSet(active) \ {b} /\ Distinct(Tail(active))
      /\ Len(Tail(active)) = Len(active) - 1
  BY Removed DEF ListsTyped, Parted
<1>3. b \in Bufs /\ b \notin ToSet(inactive)
  BY <1>2 DEF Parted, InLists
<1>4. /\ inactive' \in Seq(Bufs) /\ ToSet(inactive') = ToSet(inactive) \union {b}
      /\ Distinct(inactive')
  BY <1>1, <1>3, Appended DEF ListsTyped, Parted
<1>5. inactive' # <<>>
  BY <1>4, SeqFacts
<1>6. frame' \in [Bufs -> Frames \union {NoFrame}]
  BY <1>1, <1>3 DEF ListsTyped
<1> QED BY <1>1, <1>2, <1>3, <1>4, <1>5, <1>6

\* From tr_setup on: the oldest pending buffer becomes the youngest active one.
LEMMA SetupParted ==
    ASSUME ListsTyped, Parted, NEW x \in Xfers, NEW rest \in Seq(Bufs), Distinct(rest),
           ToSet(rest) \subseteq ToSet(active), TrSetup(x, rest)
    PROVE  /\ active' \in Seq(Bufs) /\ pending' \in Seq(Bufs)
           /\ Distinct(active') /\ Distinct(pending')
           /\ ToSet(active') \union ToSet(pending') = ToSet(rest) \union ToSet(pending)
           /\ ToSet(active') \intersect ToSet(pending') = {}
           /\ xfer' = [xfer EXCEPT ![x] = IF pending = <<>> THEN "idle" ELSE "flight"]
           /\ IF pending = <<>> THEN pending' = <<>> /\ active' = rest
                               ELSE Len(active') = Len(rest) + 1
<1>1. CASE pending = <<>>
  <2>1. active' = rest /\ pending' = pending /\ xfer' = [xfer EXCEPT ![x] = "idle"]
    BY <1>1 DEF TrSetup
  <2> QED BY <1>1, <2>1 DEF Parted, ListsTyped
<1>2. CASE pending # <<>>
  <2> DEFINE b == Head(pending)
  <2>1. /\ active' = Append(rest, b) /\ pending' = Tail(pending)
        /\ xfer' = [xfer EXCEPT ![x] = "flight"]
    BY <1>2 DEF TrSetup
  <2>2. /\ pending' \in Seq(Bufs) /\ b \in ToSet(pending) /\ Distinct(pending')
        /\ ToSet(pending') = ToSet(pending) \ {b}
    BY <1>2, <2>1, Removed DEF ListsTyped, Parted
  <2>3. b \in Bufs /\ b \notin ToSet(rest)
    BY <2>2 DEF Parted, InLists
  <2>4. /\ active' \in Seq(Bufs) /\ ToSet(active') = ToSet(rest) \union {b}
        /\ Distinct(active') /\ Len(active') = Len(rest) + 1
    BY <2>1, <2>3, Appended
  <2> HIDE DEF b
  <2>5. /\ ToSet(active') \union ToSet(pending') = ToSet(rest) \union ToSet(pending)
        /\ ToSet(active') \intersect ToSet(pending') = {}
    BY <2>2, <2>3, <2>4 DEF Parted
  <2> QED BY <1>2, <2>1, <2>2, <2>4, <2>5
<1> QED BY <1>1, <1>2

\* rtwn_usb_reset_lists()
LEMMA ResetParted ==
    ASSUME ListsTyped, Parted, NEW gone \in SUBSET InLists, ToInactive(gone)
    PROVE  /\ ListsTyped' /\ Parted'
           /\ Len(active') <= Len(active)
           /\ inactive' = <<>> => inactive = <<>>
           /\ pending = <<>> => pending' = <<>>
           /\ active = <<>> => active' = <<>>
           /\ gone = InLists => pending' = <<>> /\ active' = <<>> /\ inactive' # <<>>
<1> DEFINE back == Select(active \o pending, gone)
<1>1. /\ inactive' = inactive \o back
      /\ active' = Select(active, Bufs \ gone)
      /\ pending' = Select(pending, Bufs \ gone)
      /\ frame' = [b \in Bufs |-> IF b \in gone THEN NoFrame ELSE frame[b]]
  BY DEF ToInactive
<1>2. /\ inactive \in Seq(Bufs) /\ pending \in Seq(Bufs) /\ active \in Seq(Bufs)
      /\ Distinct(inactive) /\ Distinct(pending) /\ Distinct(active)
  BY DEF ListsTyped, Parted
<1>3. gone \subseteq Bufs /\ gone \subseteq ToSet(active) \union ToSet(pending)
      /\ gone \intersect ToSet(inactive) = {}
  BY DEF Parted, InLists
<1>4. /\ active \o pending \in Seq(Bufs) /\ Distinct(active \o pending)
      /\ ToSet(active \o pending) = ToSet(active) \union ToSet(pending)
  BY <1>2, Joined DEF Parted
<1>5. back \in Seq(Bufs) /\ Distinct(back) /\ ToSet(back) = gone
  <2> DEFINE all == active \o pending
  <2>1. all \in Seq(Bufs) /\ Distinct(all) /\ ToSet(all) \intersect gone = gone
    BY <1>3, <1>4
  <2>2. back = Select(all, gone)
    OBVIOUS
  <2> HIDE DEF all, back
  <2> QED BY <2>1, <2>2, Selected
<1> HIDE DEF back
<1>6. /\ inactive' \in Seq(Bufs) /\ Distinct(inactive')
      /\ ToSet(inactive') = ToSet(inactive) \union gone
  BY <1>1, <1>2, <1>3, <1>5, Joined
<1>7. /\ active' \in Seq(Bufs) /\ Distinct(active') /\ Len(active') <= Len(active)
      /\ ToSet(active') = ToSet(active) \intersect (Bufs \ gone)
  BY <1>1, <1>2, Selected
<1>8. /\ pending' \in Seq(Bufs) /\ Distinct(pending')
      /\ ToSet(pending') = ToSet(pending) \intersect (Bufs \ gone)
  BY <1>1, <1>2, Selected
<1>9. ListsTyped'
  BY <1>1, <1>6, <1>7, <1>8 DEF ListsTyped
<1>10. ToSet(inactive') \union InLists' = Bufs
  BY <1>3, <1>6, <1>7, <1>8 DEF Parted, InLists
<1>11. /\ ToSet(inactive') \intersect InLists' = {}
       /\ ToSet(active') \intersect ToSet(pending') = {}
  BY <1>3, <1>6, <1>7, <1>8 DEF Parted, InLists
<1>12. \A b \in Bufs : frame'[b] = NoFrame <=> b \in ToSet(inactive')
  BY <1>1, <1>6 DEF Parted
<1>13. Parted'
  BY <1>6, <1>7, <1>8, <1>10, <1>11, <1>12 DEF Parted
<1>14. inactive' = <<>> => inactive = <<>>
  <2>1. inactive' = <<>> => ToSet(inactive') = {}
    BY <1>6, SeqFacts
  <2>2. ToSet(inactive) = {} => inactive = <<>>
    BY <1>2, SeqFacts
  <2> QED BY <1>6, <2>1, <2>2
<1>15. pending = <<>> => pending' = <<>>
  <2>1. pending = <<>> => ToSet(pending) = {}
    BY <1>2, SeqFacts
  <2>2. ToSet(pending') = {} => pending' = <<>>
    BY <1>8, SeqFacts
  <2> QED BY <1>8, <2>1, <2>2
<1>16. active = <<>> => active' = <<>>
  <2>1. active = <<>> => ToSet(active) = {}
    BY <1>2, SeqFacts
  <2>2. ToSet(active') = {} => active' = <<>>
    BY <1>7, SeqFacts
  <2> QED BY <1>7, <2>1, <2>2
<1>17. ASSUME gone = InLists PROVE pending' = <<>> /\ active' = <<>> /\ inactive' # <<>>
  <2>1. ToSet(pending') = {} /\ ToSet(active') = {} /\ ToSet(inactive') = Bufs
    BY <1>6, <1>7, <1>8, <1>17 DEF Parted, InLists
  <2>2. pending' = <<>>
    BY <2>1, <1>8, SeqFacts
  <2>3. active' = <<>>
    BY <2>1, <1>7, SeqFacts
  <2>4. inactive' # <<>>
    BY <2>1, <1>6, SeqFacts, BufsAssumption
  <2> QED BY <2>2, <2>3, <2>4
<1> QED BY <1>7, <1>9, <1>13, <1>14, <1>15, <1>16, <1>17

-----------------------------------------------------------------------------
(* The transfers that are under way. *)

LEMMA UnderWayFinite == IsFiniteSet(UnderWay) /\ Cardinality(UnderWay) \in Nat
BY XfersAssumption, FS_Subset, FS_CardinalityType DEF UnderWay

LEMMA XferMoves ==
    ASSUME xfer \in [Xfers -> States], NEW x \in Xfers, NEW s \in States,
           xfer' = [xfer EXCEPT ![x] = s]
    PROVE  /\ xfer' \in [Xfers -> States] /\ xfer'[x] = s
           /\ \A y \in Xfers \ {x} : xfer'[y] = xfer[y]
           /\ Cardinality(UnderWay') \in Nat
           /\ Cardinality(UnderWay) - 1 <= Cardinality(UnderWay')
           /\ s \notin {"idle", "setup"} => Cardinality(UnderWay') >= Cardinality(UnderWay)
           /\ s \notin {"idle", "setup"} /\ xfer[x] \in {"idle", "setup"} =>
                Cardinality(UnderWay') = Cardinality(UnderWay) + 1
           /\ xfer[x] \in {"idle", "setup"} => Cardinality(UnderWay') >= Cardinality(UnderWay)
<1>1. /\ xfer' \in [Xfers -> States] /\ xfer'[x] = s
      /\ \A y \in Xfers \ {x} : xfer'[y] = xfer[y]
  OBVIOUS
<1>2. /\ s \notin {"idle", "setup"} => UnderWay' = UnderWay \union {x}
      /\ s \in {"idle", "setup"} => UnderWay' = UnderWay \ {x}
      /\ x \in UnderWay <=> xfer[x] \notin {"idle", "setup"}
  BY <1>1 DEF UnderWay
<1>3. IsFiniteSet(UnderWay) /\ Cardinality(UnderWay) \in Nat
  BY UnderWayFinite
<1>4. /\ Cardinality(UnderWay \union {x}) =
            IF x \in UnderWay THEN Cardinality(UnderWay) ELSE Cardinality(UnderWay) + 1
      /\ Cardinality(UnderWay \ {x}) =
            IF x \in UnderWay THEN Cardinality(UnderWay) - 1 ELSE Cardinality(UnderWay)
  BY <1>3, FS_AddElement, FS_RemoveElement
<1>5. x \in UnderWay => Cardinality(UnderWay) # 0
  BY <1>3, FS_EmptySet
<1>6. Cardinality(UnderWay') =
        IF s \in {"idle", "setup"}
        THEN IF x \in UnderWay THEN Cardinality(UnderWay) - 1 ELSE Cardinality(UnderWay)
        ELSE IF x \in UnderWay THEN Cardinality(UnderWay) ELSE Cardinality(UnderWay) + 1
  <2>1. CASE s \in {"idle", "setup"}
    BY <2>1, <1>2, <1>4
  <2>2. CASE s \notin {"idle", "setup"}
    BY <2>2, <1>2, <1>4
  <2> QED BY <2>1, <2>2
<1> DEFINE before == Cardinality(UnderWay)
           after == Cardinality(UnderWay')
           was == x \in UnderWay
<1>7. /\ before \in Nat /\ (was => before # 0)
      /\ after = IF s \in {"idle", "setup"} THEN IF was THEN before - 1 ELSE before
                                           ELSE IF was THEN before ELSE before + 1
      /\ was <=> xfer[x] \notin {"idle", "setup"}
  BY <1>2, <1>3, <1>5, <1>6
<1> HIDE DEF before, after, was
<1>8. /\ after \in Nat /\ before - 1 <= after
      /\ s \notin {"idle", "setup"} => after >= before
      /\ s \notin {"idle", "setup"} /\ ~was => after = before + 1
      /\ ~was => after >= before
  BY <1>7
<1> QED BY <1>1, <1>7, <1>8 DEF before, after

LEMMA XfersKept ==
    ASSUME UNCHANGED xfer
    PROVE  UnderWay' = UnderWay
BY DEF UnderWay

-----------------------------------------------------------------------------
(* The actions. *)

LEMMA TypesOfLists == ASSUME TypeOK PROVE ListsTyped
BY DEF TypeOK, ListsTyped

LEMMA TxStartIInv ==
    ASSUME IInv, NEW f \in Frames, NEW x \in Xfers, TxStart(f, x), snd' \in Seq(Queued),
           running \/ Stopping, UNCHANGED <<running, vaps, dog, lock, draining>>
    PROVE  IInv'
<1> USE DEF IInv
<1>1. ListsTyped
  BY TypesOfLists
<1>2. ListsTyped' /\ Parted' /\ RoomAgrees'
  BY <1>1, StartParted DEF RoomAgrees
<1>3. /\ qfullmsk' \in BOOLEAN /\ timer' \in 0 .. TxTimeout /\ active' = active
      /\ timer' \in {timer, TxTimeout}
  <2>1. qfullmsk' \in BOOLEAN /\ active' = active
    BY DEF TxStart, LastBuffer, TypeOK
  <2>2. timer' \in {timer, TxTimeout}
    BY DEF TxStart
  <2> QED BY <2>1, <2>2, BoundsAssumption DEF TypeOK
<1>4. PICK s \in {xfer[x], "setup"} :
         xfer' = [xfer EXCEPT ![x] = s] /\ s = (IF xfer[x] = "idle" THEN "setup" ELSE xfer[x])
  BY DEF TxStart, StartXfer, TypeOK
<1>5. s \in States /\ s # "idle" /\ (s = "setup" => xfer[x] \in {"idle", "setup"})
      /\ (s = "cancelled" => xfer[x] = "cancelled") /\ xfer \in [Xfers -> States]
  BY <1>4 DEF TypeOK, States
<1>6. /\ xfer' \in [Xfers -> States] /\ xfer'[x] = s /\ \A y \in Xfers \ {x} : xfer'[y] = xfer[y]
      /\ Cardinality(UnderWay') \in Nat
      /\ Cardinality(UnderWay') >= Cardinality(UnderWay)
  BY <1>4, <1>5, XferMoves
<1>7. TypeOK'
  BY <1>2, <1>3, <1>6 DEF TypeOK, ListsTyped, dog
<1>8. ActiveServed'
  <2>1. Len(active) \in Nat /\ Cardinality(UnderWay) \in Nat
    BY UnderWayFinite, SeqFacts DEF TypeOK
  <2> QED BY <2>1, <1>3, <1>6 DEF ActiveServed
<1>9. PendingServed'
  BY <1>5, <1>6 DEF PendingServed
<1>10. CancelledDraining'
  BY <1>5, <1>6 DEF CancelledDraining
<1>11. StoppedIsEmpty'
  BY DEF StoppedIsEmpty, Stopping
<1> QED BY <1>2, <1>7, <1>8, <1>9, <1>10, <1>11

\* An end of a transfer gives way to the next or, at a stop, to none.
LEMMA SetupIInv ==
    ASSUME IInv, NEW x \in Xfers, Setup(x)
    PROVE  IInv'
<1> USE DEF IInv
<1>1. ListsTyped /\ active \in Seq(Bufs) /\ Distinct(active)
  BY TypesOfLists DEF TypeOK, Parted
<1>2. /\ TrSetup(x, active)
      /\ UNCHANGED <<running, vaps, snd, dog, draining, inactive, frame, flow>>
      /\ lock' = "start" /\ (xfer[x] = "setup" \/ active = <<>>)
  BY DEF Setup, Callback
<1>3. /\ active' \in Seq(Bufs) /\ pending' \in Seq(Bufs)
      /\ Distinct(active') /\ Distinct(pending')
      /\ ToSet(active') \union ToSet(pending') = ToSet(active) \union ToSet(pending)
      /\ ToSet(active') \intersect ToSet(pending') = {}
      /\ xfer' = [xfer EXCEPT ![x] = IF pending = <<>> THEN "idle" ELSE "flight"]
      /\ IF pending = <<>> THEN pending' = <<>> /\ active' = active
                          ELSE Len(active') = Len(active) + 1
  BY <1>1, <1>2, SetupParted
<1> PICK s : s = IF pending = <<>> THEN "idle" ELSE "flight"
  OBVIOUS
<1>4. /\ xfer' = [xfer EXCEPT ![x] = s] /\ s \in {"idle", "flight"}
      /\ s = "idle" => pending' = <<>> /\ active' = active
      /\ s = "flight" => Len(active') = Len(active) + 1
      /\ pending = <<>> => pending' = <<>> /\ active' = active
  BY <1>3
<1>5. /\ xfer' \in [Xfers -> States] /\ xfer'[x] = s /\ \A y \in Xfers \ {x} : xfer'[y] = xfer[y]
      /\ Cardinality(UnderWay') \in Nat
      /\ s = "flight" => Cardinality(UnderWay') >= Cardinality(UnderWay)
      /\ s = "flight" /\ xfer[x] = "setup" => Cardinality(UnderWay') = Cardinality(UnderWay) + 1
      /\ xfer[x] = "setup" => Cardinality(UnderWay') >= Cardinality(UnderWay)
  <2>1. s \in States
    BY <1>4 DEF States
  <2> QED BY <1>4, <2>1, XferMoves DEF TypeOK
<1>6. Parted'
  BY <1>2, <1>3 DEF Parted, InLists
<1>7. TypeOK'
  BY <1>2, <1>3, <1>5 DEF TypeOK, dog, flow
<1>8. ActiveServed'
  <2>1. Len(active) \in Nat /\ Cardinality(UnderWay) \in Nat /\ Len(active) <= Cardinality(UnderWay)
    BY UnderWayFinite, SeqFacts DEF TypeOK, ActiveServed
  <2>2. CASE xfer[x] = "setup"
    BY <2>1, <2>2, <1>4, <1>5 DEF ActiveServed
  <2>3. CASE active = <<>>
    <3>1. Len(active) = 0
      BY <2>3
    <3>2. s = "flight" => x \in UnderWay'
      BY <1>5 DEF UnderWay
    <3>3. s = "flight" => Cardinality(UnderWay') # 0
      BY <3>2, <1>5, FS_EmptySet, UnderWayFinite, XfersAssumption, FS_Subset DEF UnderWay
    <3>4. Len(active') = 0 \/ (Len(active') = 1 /\ Cardinality(UnderWay') # 0)
      BY <3>1, <3>3, <1>4
    <3>5. Cardinality(UnderWay') \in Nat
      BY <1>5
    <3> DEFINE after == Cardinality(UnderWay')
    <3>6. after \in Nat /\ (Len(active') = 0 \/ (Len(active') = 1 /\ after # 0))
      BY <3>4, <3>5
    <3> HIDE DEF after
    <3>7. Len(active') <= after
      BY <3>6
    <3> QED BY <3>7 DEF ActiveServed, after
  <2> QED BY <2>2, <2>3, <1>2
<1>9. PendingServed'
  BY <1>4, <1>5 DEF PendingServed
<1>10. CancelledDraining'
  BY <1>2, <1>5 DEF CancelledDraining
<1>11. StoppedIsEmpty'
  BY <1>2, <1>4 DEF StoppedIsEmpty, Stopping, flow
<1>12. RoomAgrees'
  BY <1>2 DEF RoomAgrees, flow
<1> QED BY <1>6, <1>7, <1>8, <1>9, <1>10, <1>11, <1>12

LEMMA TxeofTypes ==
    ASSUME TypeOK, Txeof
    PROVE  qfullmsk' \in BOOLEAN /\ timer' \in 0 .. TxTimeout
<1>1. timer' \in {0, TxTimeout} /\ qfullmsk' = FALSE
  BY DEF Txeof
<1>2. {0, TxTimeout} \subseteq 0 .. TxTimeout
  BY BoundsAssumption
<1> QED BY <1>1, <1>2

LEMMA TransferredIInv ==
    ASSUME IInv, NEW x \in Xfers, Transferred(x)
    PROVE  IInv'
<1> USE DEF IInv
<1> DEFINE rest == Tail(active)
<1>1. ListsTyped
  BY TypesOfLists
<1>2. /\ Txeof /\ TrSetup(x, Tail(active)) /\ active # <<>> /\ xfer[x] = "ended"
      /\ UNCHANGED <<running, vaps, snd, dog, draining>> /\ lock' = "start"
  BY DEF Transferred, Callback
<1>3. /\ inactive' \in Seq(Bufs) /\ inactive' # <<>> /\ Distinct(inactive')
      /\ ToSet(inactive') = ToSet(inactive) \union {Head(active)}
      /\ rest \in Seq(Bufs) /\ Distinct(rest)
      /\ ToSet(rest) = ToSet(active) \ {Head(active)}
      /\ Len(rest) = Len(active) - 1
      /\ Head(active) \in ToSet(active) /\ Head(active) \in Bufs
      /\ frame' = [frame EXCEPT ![Head(active)] = NoFrame]
      /\ frame' \in [Bufs -> Frames \union {NoFrame}]
  BY <1>1, <1>2, EndParted
<1>4. /\ active' \in Seq(Bufs) /\ pending' \in Seq(Bufs)
      /\ Distinct(active') /\ Distinct(pending')
      /\ ToSet(active') \union ToSet(pending') = ToSet(rest) \union ToSet(pending)
      /\ ToSet(active') \intersect ToSet(pending') = {}
      /\ xfer' = [xfer EXCEPT ![x] = IF pending = <<>> THEN "idle" ELSE "flight"]
      /\ IF pending = <<>> THEN pending' = <<>> /\ active' = rest
                          ELSE Len(active') = Len(rest) + 1
  <2>1. ToSet(rest) \subseteq ToSet(active) /\ TrSetup(x, rest)
    BY <1>2, <1>3
  <2> QED BY <1>1, <1>3, <2>1, SetupParted
<1> HIDE DEF rest
<1> PICK s : s = IF pending = <<>> THEN "idle" ELSE "flight"
  OBVIOUS
<1>5. /\ xfer' = [xfer EXCEPT ![x] = s] /\ s \in {"idle", "flight"}
      /\ s = "idle" => pending' = <<>> /\ active' = rest
      /\ s = "flight" => Len(active') = Len(rest) + 1
  BY <1>4
<1>6. /\ xfer' \in [Xfers -> States] /\ xfer'[x] = s /\ \A y \in Xfers \ {x} : xfer'[y] = xfer[y]
      /\ Cardinality(UnderWay') \in Nat
      /\ Cardinality(UnderWay) - 1 <= Cardinality(UnderWay')
      /\ s = "flight" => Cardinality(UnderWay') >= Cardinality(UnderWay)
  <2>1. s \in States
    BY <1>5 DEF States
  <2> QED BY <1>5, <2>1, XferMoves DEF TypeOK
<1>7. Parted'
  <2>1. ToSet(inactive') \union InLists' = Bufs
    BY <1>3, <1>4 DEF Parted, InLists
  <2>2. ToSet(inactive') \intersect InLists' = {}
    BY <1>3, <1>4 DEF Parted, InLists
  <2>3. \A b \in Bufs : frame'[b] = NoFrame <=> b \in ToSet(inactive')
    BY <1>1, <1>3 DEF Parted, ListsTyped
  <2> QED BY <1>3, <1>4, <2>1, <2>2, <2>3 DEF Parted
<1>8. TypeOK'
  BY <1>2, <1>3, <1>4, <1>6, TxeofTypes DEF TypeOK, dog
<1>9. ActiveServed'
  <2>1. Len(active) \in Nat /\ Cardinality(UnderWay) \in Nat /\ Len(active) <= Cardinality(UnderWay)
    BY UnderWayFinite, SeqFacts DEF TypeOK, ActiveServed
  <2> QED BY <2>1, <1>3, <1>5, <1>6 DEF ActiveServed
<1>10. PendingServed'
  BY <1>5, <1>6 DEF PendingServed
<1>11. CancelledDraining'
  BY <1>2, <1>6 DEF CancelledDraining
<1>12. StoppedIsEmpty'
  BY <1>2 DEF StoppedIsEmpty, Stopping
<1>13. RoomAgrees'
  BY <1>3 DEF RoomAgrees
<1> QED BY <1>7, <1>8, <1>9, <1>10, <1>11, <1>12, <1>13

LEMMA CancelledIInv ==
    ASSUME IInv, NEW x \in Xfers, Cancelled(x)
    PROVE  IInv'
<1> USE DEF IInv
<1>1. ListsTyped
  BY TypesOfLists
<1>2. /\ Txeof /\ active' = Tail(active) /\ active # <<>> /\ xfer[x] = "cancelled"
      /\ UNCHANGED <<running, vaps, snd, dog, draining, pending>> /\ lock' = "start"
      /\ xfer' = [xfer EXCEPT ![x] = "idle"]
  BY DEF Cancelled, Callback
<1>3. /\ inactive' \in Seq(Bufs) /\ inactive' # <<>> /\ Distinct(inactive')
      /\ ToSet(inactive') = ToSet(inactive) \union {Head(active)}
      /\ active' \in Seq(Bufs) /\ Distinct(active')
      /\ ToSet(active') = ToSet(active) \ {Head(active)}
      /\ Len(active') = Len(active) - 1
      /\ Head(active) \in ToSet(active) /\ Head(active) \in Bufs
      /\ frame' = [frame EXCEPT ![Head(active)] = NoFrame]
      /\ frame' \in [Bufs -> Frames \union {NoFrame}]
  BY <1>1, <1>2, EndParted
<1>4. /\ xfer' \in [Xfers -> States] /\ xfer'[x] = "idle" /\ \A y \in Xfers \ {x} : xfer'[y] = xfer[y]
      /\ Cardinality(UnderWay') \in Nat
      /\ Cardinality(UnderWay) - 1 <= Cardinality(UnderWay')
  <2>1. "idle" \in States
    BY DEF States
  <2> QED BY <1>2, <2>1, XferMoves DEF TypeOK
<1>5. Parted'
  <2>1. ToSet(inactive') \union InLists' = Bufs
    BY <1>2, <1>3 DEF Parted, InLists
  <2>2. /\ ToSet(inactive') \intersect InLists' = {}
        /\ ToSet(active') \intersect ToSet(pending') = {}
    BY <1>2, <1>3 DEF Parted, InLists
  <2>3. \A b \in Bufs : frame'[b] = NoFrame <=> b \in ToSet(inactive')
    BY <1>1, <1>3 DEF Parted, ListsTyped
  <2> QED BY <1>2, <1>3, <2>1, <2>2, <2>3 DEF Parted
<1>6. TypeOK'
  BY <1>2, <1>3, <1>4, TxeofTypes DEF TypeOK, dog
<1>7. ActiveServed'
  <2>1. Len(active) \in Nat /\ Cardinality(UnderWay) \in Nat /\ Len(active) <= Cardinality(UnderWay)
    BY UnderWayFinite, SeqFacts DEF TypeOK, ActiveServed
  <2> QED BY <2>1, <1>3, <1>4 DEF ActiveServed
<1>8. Stopping'
  BY <1>2 DEF CancelledDraining, Stopping
<1>9. PendingServed' /\ StoppedIsEmpty'
  BY <1>8 DEF PendingServed, StoppedIsEmpty
<1>10. CancelledDraining'
  BY <1>2, <1>4 DEF CancelledDraining
<1>11. RoomAgrees'
  BY <1>3 DEF RoomAgrees
<1> QED BY <1>5, <1>6, <1>7, <1>9, <1>10, <1>11

\* The actions that leave the lists and the transfers alone.
LEMMA QuietIInv ==
    ASSUME IInv, UNCHANGED lists, UNCHANGED <<xfer, qfullmsk>>, TypeOK',
           draining' = draining \/ draining' = Xfers \/ (Stopping /\ Stopping'),
           \A x \in draining : xfer[x] # "idle" => x \in draining',
           (~running' /\ ~Stopping') => (~running /\ ~Stopping /\ UNCHANGED snd)
    PROVE  IInv'
<1> USE DEF IInv
<1>1. Parted'
  BY ListsKept, TypesOfLists
<1>2. ActiveServed' /\ RoomAgrees'
  BY XfersKept DEF ActiveServed, RoomAgrees, lists
<1>3. PendingServed'
  <2>1. Stopping' \/ ~Stopping
    BY XfersAssumption DEF Stopping
  <2> QED BY <2>1 DEF PendingServed, lists
<1>4. CancelledDraining'
  BY DEF CancelledDraining
<1>5. StoppedIsEmpty'
  BY DEF StoppedIsEmpty, lists
<1> QED BY <1>1, <1>2, <1>3, <1>4, <1>5

LEMMA TransmitIInv ==
    ASSUME IInv, NEW v \in Vaps, NEW x \in Xfers, Transmit(v, x)
    PROVE  IInv'
<1>1. [vap |-> v, ac |-> x] \in Queued
  BY DEF Queued
<1>2. snd' \in Seq(Queued)
  BY <1>1, AppendProperties DEF IInv, TypeOK, Transmit
<1>3. TypeOK'
  BY <1>2 DEF IInv, TypeOK, Transmit, lists, flow, dog
<1> QED BY <1>3, QuietIInv DEF Transmit, flow, Stopping

LEMMA StartFrameIInv ==
    ASSUME IInv, StartFrame
    PROVE  IInv'
<1> DEFINE f == [vap |-> Head(snd).vap, beacon |-> FALSE]
           x == Head(snd).ac
<1>1. Head(snd) \in Queued /\ Tail(snd) \in Seq(Queued)
  BY HeadTailProperties DEF IInv, TypeOK, StartFrame
<1>2. f \in Frames /\ x \in Xfers
  BY <1>1 DEF Queued, Frames
<1>3. TxStart(f, x) /\ snd' = Tail(snd) /\ UNCHANGED <<running, vaps, dog, lock, draining>>
  BY DEF StartFrame
<1>4. running \/ Stopping
  BY DEF IInv, StoppedIsEmpty, StartFrame
<1> HIDE DEF f, x
<1> QED BY <1>1, <1>2, <1>3, <1>4, TxStartIInv

LEMMA RawXmitIInv ==
    ASSUME IInv, NEW v \in Vaps, RawXmit(v) \/ TxBeacon(v)
    PROVE  IInv'
<1>1. PICK f \in Frames : TxStart(f, VO)
  <2>1. \A b \in BOOLEAN : [vap |-> v, beacon |-> b] \in Frames
    BY DEF Frames
  <2> QED BY <2>1 DEF RawXmit, TxBeacon
<1>2. running /\ UNCHANGED <<running, vaps, snd, dog, lock, draining>>
  BY DEF RawXmit, TxBeacon
<1> QED BY <1>1, <1>2, TxStartIInv, XfersAssumption DEF IInv, TypeOK

LEMMA LockIInv ==
    ASSUME IInv, StartError \/ StartEnd
    PROVE  IInv'
<1>1. snd' \in Seq(Queued)
  BY HeadTailProperties DEF IInv, TypeOK, StartError, StartEnd
<1>2. TypeOK'
  BY <1>1 DEF IInv, TypeOK, StartError, StartEnd, lists, flow, dog
<1>3. (~running' /\ ~Stopping') => (~running /\ ~Stopping /\ UNCHANGED snd)
  BY DEF IInv, StoppedIsEmpty, StartError, StartEnd, Stopping
<1> QED BY <1>2, <1>3, QuietIInv DEF StartError, StartEnd, flow

LEMMA VapCreateIInv ==
    ASSUME IInv, NEW v \in Vaps, VapCreate(v)
    PROVE  IInv'
<1>1. TypeOK'
  BY DEF IInv, TypeOK, VapCreate, lists, flow, dog
<1> QED BY <1>1, QuietIInv DEF VapCreate, flow, Stopping

LEMMA StartIInv ==
    ASSUME IInv, Start
    PROVE  IInv'
<1>1. TypeOK'
  BY DEF IInv, TypeOK, Start, lists, flow
<1> QED BY <1>1, QuietIInv DEF Start, flow

LEMMA StopBeginIInv ==
    ASSUME IInv, StopBegin
    PROVE  IInv'
<1>1. TypeOK'
  <2>1. timer' \in 0 .. TxTimeout
    BY BoundsAssumption DEF StopBegin
  <2>2. restart' \in {"no", "stop", "init"}
    BY DEF StopBegin
  <2> QED BY <2>1, <2>2 DEF IInv, TypeOK, StopBegin, lists
<1>2. Stopping' /\ draining' = Xfers
  BY XfersAssumption DEF StopBegin, Stopping
<1>3. draining \subseteq draining'
  BY <1>2 DEF IInv, TypeOK
<1> QED BY <1>1, <1>2, <1>3, QuietIInv DEF StopBegin

LEMMA TickIInv ==
    ASSUME IInv, Tick
    PROVE  IInv'
<1>1. timer' \in 0 .. TxTimeout
  BY BoundsAssumption DEF IInv, TypeOK, Tick
<1>2. watchdog' \in BOOLEAN /\ restart' \in {"no", "stop", "init"}
  BY DEF IInv, TypeOK, Tick, dog
<1>3. TypeOK'
  BY <1>1, <1>2 DEF IInv, TypeOK, Tick, lists
<1> QED BY <1>3, QuietIInv DEF Tick, Stopping

LEMMA DrainNextIInv ==
    ASSUME IInv, NEW x \in Xfers, DrainNext(x)
    PROVE  IInv'
<1>1. TypeOK'
  BY DEF IInv, TypeOK, DrainNext, lists, flow, dog
<1>2. Stopping /\ Stopping'
  BY DEF DrainNext, Draining, Stopping
<1>3. \A y \in draining : xfer[y] # "idle" => y \in draining'
  BY DEF DrainNext
<1> QED BY <1>1, <1>2, <1>3, QuietIInv DEF DrainNext, flow

\* A transfer ends or is cancelled: its end is yet to be served.
LEMMA XferIInv ==
    ASSUME IInv, NEW x \in Xfers, XferEnds(x) \/ DrainBegin(x)
    PROVE  IInv'
<1> USE DEF IInv
<1> PICK s : s = IF XferEnds(x) THEN "ended" ELSE IF xfer[x] = "flight" THEN "cancelled" ELSE "idle"
  OBVIOUS
<1>1. /\ xfer' = [xfer EXCEPT ![x] = s] /\ s \in States
      /\ UNCHANGED <<running, vaps, snd, lists, flow, dog, lock, draining>>
      /\ s = "idle" => xfer[x] \in {"idle", "setup"} /\ Stopping
      /\ s = "cancelled" => x \in draining
      /\ s \notin {"idle", "cancelled"} => s = "ended"
  BY DEF XferEnds, DrainBegin, Draining, States, Stopping
<1>2. /\ xfer' \in [Xfers -> States] /\ xfer'[x] = s /\ \A y \in Xfers \ {x} : xfer'[y] = xfer[y]
      /\ Cardinality(UnderWay') \in Nat
      /\ Cardinality(UnderWay') >= Cardinality(UnderWay)
  BY <1>1, XferMoves DEF TypeOK
<1>3. TypeOK'
  BY <1>1, <1>2 DEF TypeOK, lists, flow, dog
<1>4. Parted'
  BY <1>1, ListsKept, TypesOfLists
<1>5. ActiveServed'
  <2>1. Len(active) \in Nat /\ Cardinality(UnderWay) \in Nat
    BY UnderWayFinite, SeqFacts DEF TypeOK
  <2> QED BY <2>1, <1>1, <1>2 DEF ActiveServed, lists
<1>6. PendingServed'
  BY <1>1, <1>2 DEF PendingServed, lists, Stopping
<1>7. CancelledDraining'
  BY <1>1, <1>2 DEF CancelledDraining
<1>8. RoomAgrees' /\ StoppedIsEmpty'
  BY <1>1 DEF RoomAgrees, StoppedIsEmpty, Stopping, lists, flow
<1> QED BY <1>3, <1>4, <1>5, <1>6, <1>7, <1>8

LEMMA VapDeleteIInv ==
    ASSUME IInv, NEW v \in Vaps, VapDelete(v)
    PROVE  IInv'
<1> USE DEF IInv
<1>1. PICK gone \in SUBSET InLists : ToInactive(gone)
  BY DEF VapDelete
<1>2. UNCHANGED <<running, snd, flow, dog, xfer, lock, draining>> /\ vaps' \subseteq Vaps
  BY DEF VapDelete, TypeOK
<1>3. /\ ListsTyped' /\ Parted'
      /\ Len(active') <= Len(active)
      /\ inactive' = <<>> => inactive = <<>>
      /\ pending = <<>> => pending' = <<>>
      /\ active = <<>> => active' = <<>>
  BY <1>1, ResetParted, TypesOfLists
<1>4. TypeOK'
  BY <1>2, <1>3 DEF TypeOK, ListsTyped, flow, dog
<1>5. ActiveServed'
  <2>1. Len(active) \in Nat /\ Len(active') \in Nat /\ Cardinality(UnderWay) \in Nat
    BY <1>3, UnderWayFinite, LenProperties DEF TypeOK, ListsTyped
  <2> QED BY <2>1, <1>2, <1>3, XfersKept DEF ActiveServed
<1>6. PendingServed' /\ CancelledDraining' /\ RoomAgrees' /\ StoppedIsEmpty'
  BY <1>2, <1>3 DEF PendingServed, CancelledDraining, RoomAgrees, StoppedIsEmpty, Stopping, flow
<1> QED BY <1>3, <1>4, <1>5, <1>6

LEMMA DrainEndIInv ==
    ASSUME IInv, NEW x \in Xfers, DrainEnd(x)
    PROVE  IInv'
<1> USE DEF IInv
<1>1. ToInactive(InLists)
  BY DEF DrainEnd
<1>2. /\ UNCHANGED <<running, vaps, timer, dog, xfer, lock>> /\ snd' = <<>> /\ qfullmsk' = FALSE
      /\ draining' = {} /\ draining = {x} /\ xfer[x] = "idle"
  BY DEF DrainEnd
<1>3. ListsTyped' /\ Parted' /\ pending' = <<>> /\ active' = <<>> /\ inactive' # <<>>
  BY <1>1, ResetParted, TypesOfLists
<1>4. snd' \in Seq(Queued)
  BY <1>2, EmptySeq
<1>5. TypeOK'
  BY <1>2, <1>3, <1>4 DEF TypeOK, ListsTyped, dog
<1>6. ActiveServed'
  <2>1. Len(active') = 0
    BY <1>3
  <2>2. Cardinality(UnderWay') \in Nat
    BY <1>2, UnderWayFinite, XfersKept
  <2> QED BY <2>1, <2>2 DEF ActiveServed
<1>7. PendingServed' /\ RoomAgrees' /\ StoppedIsEmpty'
  BY <1>2, <1>3 DEF PendingServed, RoomAgrees, StoppedIsEmpty
<1>8. CancelledDraining'
  BY <1>2 DEF CancelledDraining
<1> QED BY <1>3, <1>5, <1>6, <1>7, <1>8

LEMMA NextIInv ==
    ASSUME IInv, [Next]_vars
    PROVE  IInv'
<1>1. CASE UNCHANGED vars
  <2>1. TypeOK'
    BY <1>1 DEF IInv, TypeOK, vars
  <2> QED BY <1>1, <2>1, QuietIInv DEF vars, lists, Stopping
<1>2. CASE Next
  <2>1. ASSUME NEW v \in Vaps, NEW x \in Xfers, Transmit(v, x) PROVE IInv'
    BY <2>1, TransmitIInv
  <2>2. ASSUME NEW v \in Vaps, RawXmit(v) \/ TxBeacon(v) PROVE IInv'
    BY <2>2, RawXmitIInv
  <2>3. ASSUME NEW v \in Vaps, VapDelete(v) PROVE IInv'
    BY <2>3, VapDeleteIInv
  <2>4. ASSUME NEW v \in Vaps, VapCreate(v) PROVE IInv'
    BY <2>4, VapCreateIInv
  <2>5. CASE LockHolder
    BY <2>5, StartFrameIInv, LockIInv DEF LockHolder
  <2>6. ASSUME NEW x \in Xfers, XferEnds(x) \/ DrainBegin(x) PROVE IInv'
    BY <2>6, XferIInv
  <2>7. ASSUME NEW x \in Xfers, Callbacks(x) PROVE IInv'
    BY <2>7, SetupIInv, TransferredIInv, CancelledIInv DEF Callbacks
  <2>8. ASSUME NEW x \in Xfers, DrainNext(x) \/ DrainEnd(x) PROVE IInv'
    BY <2>8, DrainNextIInv, DrainEndIInv
  <2>9. CASE Start \/ StopBegin \/ Tick
    BY <2>9, StartIInv, StopBeginIInv, TickIInv
  <2> QED BY <1>2, <2>1, <2>2, <2>3, <2>4, <2>5, <2>6, <2>7, <2>8, <2>9 DEF Next
<1> QED BY <1>1, <1>2

-----------------------------------------------------------------------------
(* The initial state. *)

LEMMA AllBufs ==
    /\ SetToSeq(Bufs) \in Seq(Bufs)
    /\ Distinct(SetToSeq(Bufs))
    /\ ToSet(SetToSeq(Bufs)) = Bufs
<1> DEFINE n == Cardinality(Bufs)
           places == 1 .. n
           list == SetToSeq(Bufs)
<1>1. n \in Nat /\ ExistsBijection(places, Bufs) /\ IsFiniteSet(Bufs)
  BY BufsAssumption, FS_CardinalityType
<1>2. IsFiniteSet(places) /\ Cardinality(places) = n
  BY <1>1, FS_Interval
<1>3. \E f \in [places -> Bufs] : IsInjective(f)
  BY <1>1 DEF ExistsBijection, Bijection, Injection
<1>4. list \in [places -> Bufs] /\ IsInjective(list)
  BY <1>3 DEF SetToSeq
<1>5. list \in Seq(Bufs) /\ DOMAIN list = places
  BY <1>1, <1>4, SeqDef
<1> HIDE DEF list, places
<1>6. list \in Injection(places, Bufs)
  BY <1>4 DEF Injection
<1>7. list \in Surjection(places, Bufs)
  BY <1>1, <1>2, <1>6, FS_Injection
<1>8. \A b \in Bufs : \E k \in places : list[k] = b
  BY <1>7, Fun_SurjectionProperties
<1>9. ToSet(list) = Bufs
  BY <1>4, <1>5, <1>8 DEF ToSet
<1>10. Distinct(list)
  BY <1>4, <1>5 DEF Distinct, IsInjective
<1> QED BY <1>5, <1>9, <1>10 DEF list

LEMMA InitIInv == Init => IInv
<1> SUFFICES ASSUME Init PROVE IInv
  OBVIOUS
<1>1. inactive \in Seq(Bufs) /\ Distinct(inactive) /\ ToSet(inactive) = Bufs /\ inactive # <<>>
  BY AllBufs, SeqFacts, BufsAssumption DEF Init
<1>2. pending = <<>> /\ active = <<>> /\ snd = <<>>
  BY DEF Init
<1>3. \A S : <<>> \in Seq(S)
  BY EmptySeq
<1>4. ToSet(<<>>) = {} /\ Distinct(<<>>) /\ Len(<<>>) = 0
  BY DEF ToSet, Distinct
<1>5. timer \in 0 .. TxTimeout
  BY BoundsAssumption DEF Init
<1>6. frame \in [Bufs -> Frames \union {NoFrame}] /\ \A b \in Bufs : frame[b] = NoFrame
  BY DEF Init
<1>7. xfer \in [Xfers -> States] /\ \A x \in Xfers : xfer[x] = "idle"
  BY DEF Init, Idle, States
<1>8. TypeOK
  BY <1>1, <1>2, <1>3, <1>5, <1>6, <1>7 DEF TypeOK, Init
<1>9. Parted
  BY <1>1, <1>2, <1>4, <1>6 DEF Parted, InLists
<1>10. ActiveServed
  BY <1>2, <1>4, UnderWayFinite DEF ActiveServed
<1>11. PendingServed /\ CancelledDraining /\ RoomAgrees /\ StoppedIsEmpty
  BY <1>1, <1>2, <1>7 DEF PendingServed, CancelledDraining, RoomAgrees, StoppedIsEmpty, Init
<1> QED BY <1>8, <1>9, <1>10, <1>11 DEF IInv

-----------------------------------------------------------------------------
(* The theorems. *)

LEMMA LenOfDistinct ==
    ASSUME NEW list \in Seq(Bufs), Distinct(list)
    PROVE  Len(list) = Cardinality(ToSet(list))
<1> DEFINE places == 1 .. Len(list)
           bufs == ToSet(list)
<1>1. Len(list) \in Nat /\ DOMAIN list = places /\ bufs = {list[n] : n \in places}
  BY SeqFacts
<1>2. list \in [places -> bufs]
  BY <1>1, LenProperties
<1>3. \A m, n \in places : list[m] = list[n] => m = n
  BY <1>1 DEF Distinct
<1>4. \A b \in bufs : \E n \in places : list[n] = b
  BY <1>1
<1> HIDE DEF places, bufs
<1>5. list \in Bijection(places, bufs)
  BY <1>2, <1>3, <1>4, Fun_IsBij
<1>6. ExistsBijection(1 .. Len(list), ToSet(list))
  BY <1>5 DEF ExistsBijection, places, bufs
<1> QED BY <1>1, <1>6, FS_CountingElements

LEMMA OnceOfParted ==
    ASSUME TypeOK, Parted
    PROVE  BuffersOnce
<1> DEFINE some == inactive \o pending
           all == some \o active
<1>1. /\ inactive \in Seq(Bufs) /\ pending \in Seq(Bufs) /\ active \in Seq(Bufs)
      /\ Distinct(inactive) /\ Distinct(pending) /\ Distinct(active)
  BY DEF TypeOK, Parted
<1>2. some \in Seq(Bufs) /\ Distinct(some) /\ ToSet(some) = ToSet(inactive) \union ToSet(pending)
  BY <1>1, Joined DEF Parted, InLists
<1> HIDE DEF some
<1>3. all \in Seq(Bufs) /\ Distinct(all) /\ ToSet(all) = Bufs
  <2>1. ToSet(some) \intersect ToSet(active) = {} /\ ToSet(some) \union ToSet(active) = Bufs
    BY <1>2 DEF Parted, InLists
  <2>2. /\ all \in Seq(Bufs) /\ ToSet(all) = ToSet(some) \union ToSet(active)
        /\ Distinct(all)
    BY <1>1, <1>2, <2>1, Joined
  <2> HIDE DEF all
  <2> QED BY <2>1, <2>2
<1> HIDE DEF all
<1>4. Len(all) = Cardinality(Bufs)
  BY <1>3, LenOfDistinct
<1>5. \A b \in Bufs : Contains(all, b)
  BY <1>3, SeqFacts DEF Contains
<1>6. \A b \in Bufs : Contains(inactive, b) <=> b \in ToSet(inactive)
  BY <1>1, SeqFacts DEF Contains
<1> QED BY <1>4, <1>5, <1>6 DEF BuffersOnce, Parted, all, some

LEMMA AlwaysIInv == Spec => []IInv
<1> QED BY InitIInv, NextIInv, PTL DEF Spec

\* Through sends, callbacks, failed transfers, deletions of vaps and stops: each
\* of the buffers stays in one of rtwn_usb_tx_list's three lists, none stays
\* active or pending without a transfer that will come back for it.
THEOREM BuffersCorrect == Spec => []BuffersServed
<1>1. IInv => BuffersServed
  BY OnceOfParted DEF IInv, BuffersServed
<1> QED BY <1>1, AlwaysIInv, PTL

\* rtwn_start() and rtwn_raw_xmit() may go by qfullmsk alone: while it is clear
\* there is a free buffer; and after rtwn_stop() no queue holds a frame.
THEOREM ListsCorrect == Spec => []ListsAgree
<1>1. IInv => ListsAgree
  BY DEF IInv, ListsAgree
<1> QED BY <1>1, AlwaysIInv, PTL

=============================================================================
