--------------------------- MODULE Receive_proofs ---------------------------
(* Proofs about Receive, for any chips, length of the ring, packets, transfers *)
(* and bounds.                                                                *)
EXTENDS Receive, FiniteSetTheorems, FunctionTheorems, SequenceTheorems, TLAPS

Slots == 0 .. N - 1

\* The n descriptors from first on, and the one after them, without the modulus.
Wrapped(i) == IF i < N THEN i ELSE i - N
InWindow(first, n, i) == (first <= i /\ i < first + n) \/ i < first + n - N

\* From the driver's place on n descriptors are filled, up to the device's place.
Window(first, n) ==
    /\ \A i \in Slots : ~ring[i].own <=> InWindow(first, n, i)
    /\ dev = Wrapped(first + n)

AllFilled == \A i \in Slots : ~ring[i].own
AllOwned == \A i \in Slots : ring[i].own
EndMarked == \A i \in Slots : ring[i].eor <=> i = N - 1

\* Nothing has brought the driver's and the device's places apart.
Good == Pci /\ ~Odd({"mixed", "stopped", "reused"})

\* At "own" the current descriptor has been given back and cur not yet been moved.
Together ==
    /\ EndMarked
    /\ power = "off" => cur = 0 /\ AllOwned
    /\ power # "off" /\ isr.at # "own" => \E n \in 0 .. N : Window(cur, n)
    /\ isr.at = "own" =>
         /\ isr.idx = cur
         /\ AllFilled \/ (ring[cur].own /\ \E n \in 0 .. N - 1 : Window(Wrapped(cur + 1), n))
    /\ isr.at \in {"taken", "input"} => isr.idx = cur /\ ~ring[cur].own
    /\ isr.at # "idle" => power # "off"

\* A buffer that was passed up is older than one of the ring, so that the next
\* fresh one differs from it.
Buffers ==
    /\ \A i \in Slots : ring[i].own => ring[i].addr = ring[i].buf
    /\ \A i, j \in Slots : ring[i].buf = ring[j].buf => i = j
    /\ \A k \in DOMAIN delivered :
          /\ \A i \in Slots : ring[i].buf # delivered[k].buf
          /\ \E i \in Slots : ring[i].buf > delivered[k].buf
          /\ delivered[k].buf \in Int

\* NoLostReception, and how the handler's last step gets there.
Awaited ==
    Pci /\ power = "running" /\ isr.at \in {"idle", "end"} /\ ~Odd({"mixed", "reused", "deaf", "early"}) =>
        /\ isr.at = "idle" => himr
        /\ AllOwned \/ hisr \intersect (RxCauses \union ReportCauses) # {}

\* Where the handlers are, and in which states of the device.
Places ==
    /\ isr.at = "own" => power = "running"
    /\ isr.at \in {"loop", "end"} => power # "off"
    /\ "stopped" \in odd => isr.at \in {"taken", "input"}
    /\ isr.at \in {"taken", "input"} /\ power = "off" => "stopped" \in odd
    /\ ~Pci => /\ isr.at = "idle" /\ cur = 0 /\ dev = 0 /\ power # "on"
               /\ AllOwned /\ EndMarked
    /\ incb => ~Pci /\ power \in {"running", "draining"}

Ats == {"idle", "loop", "taken", "input", "own", "end"}
Events(S) == [event : S, timer : BOOLEAN, cmds : Nat, refused : BOOLEAN, fw : BOOLEAN]
Rings(S) ==
    [Slots -> [own : BOOLEAN, eor : BOOLEAN, addr : Nat, buf : Nat, got : S]]
Typed ==
    /\ \E S : ring \in Rings(S)
    /\ \E S : delivered \in Seq(S)
    /\ \E S : c2h \in Events(S)
    /\ power \in {"off", "on", "running", "draining"} /\ stops \in Nat
    /\ cur \in Slots /\ dev \in Nat /\ himr \in BOOLEAN
    /\ isr \in [at : Ats, idx : Slots]

IInv == Typed /\ (Good => Together) /\ Buffers /\ Awaited /\ Places /\ EventsPolled

-----------------------------------------------------------------------------
(* Indices. *)

LEMMA Length == N \in Nat \ {0}
BY RingAssumption

LEMMA Wraps ==
    ASSUME NEW i \in 0 .. 2 * N - 1
    PROVE  i % N = Wrapped(i) /\ Wrapped(i) \in Slots
<1>1. N \in Nat /\ N > 0 /\ i \in Nat
  BY Length
<1>2. CASE i < N
  BY <1>1, <1>2 DEF Slots, Wrapped
<1>3. CASE i >= N
  <2>1. i = N + (i - N) /\ i - N \in 0 .. N - 1
    BY <1>1, <1>3
  <2>2. i % N = i - N
    BY <1>1, <2>1
  <2> QED BY <1>1, <1>3, <2>1, <2>2 DEF Slots, Wrapped
<1> QED BY <1>1, <1>2, <1>3

\* A window of n has n descriptors.
LEMMA WindowCount ==
    ASSUME NEW first \in Slots, NEW n \in 0 .. N, NEW S,
           S = {i \in Slots : InWindow(first, n, i)}
    PROVE  S = {(first + k) % N : k \in 0 .. n - 1} /\ Cardinality(S) = n
<1> DEFINE K == 0 .. n - 1
           f == [k \in K |-> (first + k) % N]
<1>1. N \in Nat \ {0} /\ first \in 0 .. N - 1 /\ n \in 0 .. N
  BY Length DEF Slots
<1>2. ASSUME NEW k \in K
      PROVE  (first + k) % N = Wrapped(first + k) /\ Wrapped(first + k) \in S
  <2>1. first + k \in 0 .. 2 * N - 1
    BY <1>1
  <2>2. (first + k) % N = Wrapped(first + k) /\ Wrapped(first + k) \in Slots
    BY <2>1, Wraps
  <2>3. InWindow(first, n, Wrapped(first + k))
    BY <1>1 DEF InWindow, Wrapped
  <2> QED BY <2>2, <2>3
<1>3. ASSUME NEW i \in S PROVE \E k \in K : i = (first + k) % N
  <2>1. i \in 0 .. N - 1 /\ InWindow(first, n, i)
    BY DEF Slots
  <2> DEFINE at == IF first <= i THEN i - first ELSE i - first + N
  <2>2. at \in K
    <3>1. CASE first <= i
      BY <1>1, <2>1, <3>1 DEF InWindow
    <3>2. CASE ~(first <= i)
      BY <1>1, <2>1, <3>2 DEF InWindow
    <3> QED BY <3>1, <3>2
  <2> PICK k \in K : k = at
    BY <2>2
  <2>3. i = Wrapped(first + k)
    BY <1>1, <2>1, <2>2 DEF Wrapped
  <2> QED BY <1>2, <2>3
<1>4. ASSUME NEW k \in K, NEW m \in K, f[k] = f[m] PROVE k = m
  <2>1. Wrapped(first + k) = Wrapped(first + m)
    BY <1>2, <1>4
  <2> QED BY <1>1, <2>1 DEF Wrapped
<1>5. S = {(first + k) % N : k \in K}
  BY <1>2, <1>3
<1>6. f \in [K -> S] /\ \A i \in S : \E k \in K : f[k] = i
  BY <1>5
<1>7. IsFiniteSet(K) /\ Cardinality(K) = n
  BY <1>1, FS_Interval
<1> HIDE DEF K, f
<1>8. f \in Bijection(K, S)
  BY <1>4, <1>6, Fun_IsBij
<1>9. ExistsBijection(K, S)
  BY <1>8 DEF ExistsBijection
<1>10. Cardinality(S) = n
  BY <1>7, <1>9, FS_Bijection
<1> QED BY <1>5, <1>10 DEF K

-----------------------------------------------------------------------------
(* The greatest of finitely many numbers: the one whose rank is their number. *)

LEMMA MaxOf ==
    ASSUME NEW S \in SUBSET Int, IsFiniteSet(S), S # {}
    PROVE  Max(S) \in S /\ \A n \in S : Max(S) >= n
<1> DEFINE UpTo(n) == {m \in S : m <= n}
           card == Cardinality(S)
           ranks == 1 .. card
           f == [n \in S |-> Cardinality(UpTo(n))]
<1>1. card \in Nat /\ card # 0
  BY FS_CardinalityType, FS_EmptySet
<1>2. ASSUME NEW n \in S
      PROVE  /\ IsFiniteSet(UpTo(n)) /\ Cardinality(UpTo(n)) \in ranks
             /\ Cardinality(UpTo(n)) = card => UpTo(n) = S
  <2>1. UpTo(n) \subseteq S /\ n \in UpTo(n)
    OBVIOUS
  <2>2. IsFiniteSet(UpTo(n)) /\ Cardinality(UpTo(n)) <= card
        /\ (Cardinality(UpTo(n)) = card => UpTo(n) = S)
    BY <2>1, FS_Subset
  <2>3. Cardinality(UpTo(n)) \in Nat /\ Cardinality(UpTo(n)) # 0
    BY <2>1, <2>2, FS_CardinalityType, FS_EmptySet
  <2> QED BY <1>1, <2>2, <2>3
<1>3. ASSUME NEW m \in S, NEW n \in S, m < n
      PROVE  Cardinality(UpTo(m)) # Cardinality(UpTo(n))
  <2>1. UpTo(m) \subseteq UpTo(n) /\ n \in UpTo(n) /\ n \notin UpTo(m)
    <3>1. m \in Int /\ n \in Int /\ ~(n <= m) /\ n <= n
      BY <1>3
    <3>2. \A k \in S : k <= m => k <= n
      BY <1>3, <3>1
    <3> QED BY <3>1, <3>2
  <2>2. IsFiniteSet(UpTo(n))
    BY <1>2
  <2> QED BY <2>1, <2>2, FS_Subset
<1>4. f \in [S -> ranks] /\ \A n \in S : f[n] = Cardinality(UpTo(n))
  BY <1>2
<1>5. \A m, n \in S : f[m] = f[n] => m = n
  <2> SUFFICES ASSUME NEW m \in S, NEW n \in S, f[m] = f[n] PROVE m = n
    OBVIOUS
  <2>1. m < n \/ n < m \/ m = n
    OBVIOUS
  <2> QED BY <2>1, <1>3, <1>4
<1>6. IsFiniteSet(ranks) /\ Cardinality(ranks) = card /\ card \in ranks
  BY <1>1, FS_Interval
<1> HIDE DEF f, ranks, card
<1>7. f \in Injection(S, ranks)
  BY <1>4, <1>5, Fun_IsInj
<1>8. f \in Surjection(S, ranks)
  BY <1>6, <1>7, FS_Injection DEF card
<1>9. PICK n \in S : f[n] = card
  <2>1. \A k \in ranks : \E n \in S : f[n] = k
    BY <1>8, Fun_SurjectionProperties
  <2> QED BY <1>6, <2>1
<1>10. UpTo(n) = S
  BY <1>2, <1>4, <1>9
<1>11. \A m \in S : n >= m
  BY <1>10
<1> QED BY <1>11 DEF Max

\* Counting up to n.
LEMMA CountUp ==
    ASSUME NEW n \in Nat, NEW G, 0 \in G, \A i \in 0 .. n - 1 : i \in G => i + 1 \in G
    PROVE  0 .. n \subseteq G
<1> DEFINE S == {i \in 0 .. n : 0 .. i \subseteq G}
           top == Max(S)
<1>1. S \subseteq Int /\ 0 \in S
  OBVIOUS
<1>2. IsFiniteSet(S)
  <2>1. IsFiniteSet(0 .. n) /\ S \subseteq 0 .. n
    BY FS_Interval
  <2> HIDE DEF S
  <2> QED BY <2>1, FS_Subset
<1> HIDE DEF top
<1>3. top \in S /\ \A i \in S : top >= i
  <2> HIDE DEF S
  <2> QED BY <1>1, <1>2, MaxOf DEF top
<1>4. top \in 0 .. n /\ 0 .. top \subseteq G
  BY <1>3
<1>5. CASE top = n
  BY <1>4, <1>5
<1>6. CASE top # n
  <2>1. top \in 0 .. n - 1
    BY <1>4, <1>6
  <2>2. top + 1 \in G
    BY <1>4, <2>1
  <2>3. 0 .. top + 1 \subseteq G
    BY <1>4, <2>1, <2>2
  <2>4. top + 1 \in S
    BY <2>1, <2>3
  <2> QED BY <1>3, <2>1, <2>4
<1> QED BY <1>5, <1>6

\* A function may be defined step by step.
Stepwise(f, n, v, g) == f = [i \in 0 .. n |-> IF i = 0 THEN v ELSE g[i][f[i - 1]]]
LEMMA StepByStep ==
    ASSUME NEW n \in Nat, NEW V, NEW v \in V, NEW g \in [1 .. n -> [V -> V]]
    PROVE  \E f \in [0 .. n -> V] : Stepwise(f, n, v, g)
<1> DEFINE Defined(m, f) == f \in [0 .. m -> V]
                            /\ f = [i \in 0 .. m |-> IF i = 0 THEN v ELSE g[i][f[i - 1]]]
           G == {m \in 0 .. n : \E f : Defined(m, f)}
<1>1. 0 \in G
  <2> DEFINE f == [i \in 0 .. 0 |-> v]
  <2>1. Defined(0, f)
    OBVIOUS
  <2> HIDE DEF f, Defined
  <2> QED BY <2>1
<1>2. ASSUME NEW m \in 0 .. n - 1, m \in G PROVE m + 1 \in G
  <2>1. PICK f : Defined(m, f)
    BY <1>2
  <2> DEFINE w == g[m + 1][f[m]]
             h == [i \in 0 .. m + 1 |-> IF i = m + 1 THEN w ELSE f[i]]
  <2>2. m \in Nat /\ m + 1 \in 1 .. n /\ m \in 0 .. m
    OBVIOUS
  <2>3. w \in V
    BY <2>1, <2>2
  <2>4. h \in [0 .. m + 1 -> V]
    BY <2>1, <2>2, <2>3
  <2>5. ASSUME NEW i \in 0 .. m + 1
        PROVE  h[i] = IF i = 0 THEN v ELSE g[i][h[i - 1]]
    <3>1. CASE i = m + 1
      <4>1. h[i] = w /\ i # 0 /\ i - 1 = m /\ h[i - 1] = f[m]
        BY <2>2, <3>1
      <4> QED BY <4>1, <3>1
    <3>2. CASE i # m + 1
      <4>1. i \in 0 .. m /\ h[i] = f[i]
        BY <2>2, <3>2
      <4>2. f[i] = IF i = 0 THEN v ELSE g[i][f[i - 1]]
        BY <2>1, <4>1
      <4>3. i # 0 => h[i - 1] = f[i - 1]
        BY <2>2, <4>1
      <4> QED BY <4>1, <4>2, <4>3
    <3> QED BY <3>1, <3>2
  <2>6. h = [i \in 0 .. m + 1 |-> IF i = 0 THEN v ELSE g[i][h[i - 1]]]
    <3>1. h = [i \in 0 .. m + 1 |-> h[i]]
      OBVIOUS
    <3> HIDE DEF h
    <3> QED BY <2>5, <3>1
  <2>7. Defined(m + 1, h)
    <3> HIDE DEF h
    <3> QED BY <2>4, <2>6
  <2> HIDE DEF Defined, h
  <2> QED BY <2>2, <2>7
<1> HIDE DEF G
<1>3. n \in G
  <2>1. \A m \in 0 .. n - 1 : m \in G => m + 1 \in G
    BY <1>2
  <2>2. 0 .. n \subseteq G
    BY <1>1, <2>1, CountUp
  <2> QED BY <2>2
<1>4. PICK f : Defined(n, f)
  <2> HIDE DEF Defined
  <2> QED BY <1>3 DEF G
<1> QED BY <1>4 DEF Stepwise

LEMMA FreshIsNew ==
    ASSUME NEW S, ring \in Rings(S)
    PROVE  Fresh \in Nat /\ \A i \in Slots : ring[i].buf < Fresh
<1> DEFINE bufs == {ring[i].buf : i \in Slots}
           f == [i \in Slots |-> ring[i].buf]
<1>1. DOMAIN ring = Slots /\ \A i \in Slots : ring[i].buf \in Nat
  BY DEF Rings
<1>2. IsFiniteSet(Slots) /\ 0 \in Slots
  BY Length, FS_Interval DEF Slots
<1>3. bufs \subseteq Int /\ bufs # {}
  BY <1>1, <1>2
<1>4. f \in Surjection(Slots, bufs)
  <2>1. f \in [Slots -> bufs] /\ \A b \in bufs : \E i \in Slots : f[i] = b
    OBVIOUS
  <2> HIDE DEF f, bufs
  <2> QED BY <2>1, Fun_IsSurj
<1>5. IsFiniteSet(bufs)
  BY <1>2, <1>4, FS_Surjection
<1>6. Fresh = 1 + Max(bufs)
  BY <1>1 DEF Fresh
<1>7. \A i \in Slots : ring[i].buf \in bufs
  OBVIOUS
<1>8. bufs \subseteq Nat
  BY <1>1
<1> HIDE DEF bufs
<1>9. Max(bufs) \in bufs /\ \A n \in bufs : Max(bufs) >= n
  BY <1>3, <1>5, MaxOf
<1>10. PICK top \in Nat : top = Max(bufs)
  BY <1>8, <1>9
<1>11. Fresh = 1 + top
  BY <1>6, <1>10
<1>12. ASSUME NEW i \in Slots PROVE ring[i].buf < Fresh
  <2>1. ring[i].buf \in bufs /\ ring[i].buf \in Nat
    BY <1>7, <1>8
  <2>2. top >= ring[i].buf
    BY <1>9, <1>10, <2>1
  <2> QED BY <1>11, <2>1, <2>2
<1> QED BY <1>11, <1>12

-----------------------------------------------------------------------------
(* What the invariant says of the properties. *)

LEMMA RingAgreesOf ==
    ASSUME Typed, Good => Together, Places
    PROVE  RingAgrees
<1> SUFFICES ASSUME power = "running", ~Odd({"mixed", "stopped", "reused"})
             PROVE  LET first == IF isr.at = "own" THEN (cur + 1) % N ELSE cur
                        n == Cardinality(Filled \ (IF isr.at = "own" THEN {isr.idx} ELSE {}))
                    IN /\ \A i \in DOMAIN ring : ring[i].eor <=> i = N - 1
                       /\ Filled \ {isr.idx} = {(first + k) % N : k \in 0 .. n - 1} \ {isr.idx}
                       /\ isr.at # "own" => dev = (first + n) % N
  BY DEF RingAgrees
<1>1. DOMAIN ring = Slots /\ cur \in Slots /\ isr.idx \in Slots /\ N \in Nat \ {0}
  BY Length DEF Typed, Rings
<1>2. EndMarked
  BY DEF Places, Together, Good
<1>3. Filled = {i \in Slots : ~ring[i].own}
  BY <1>1 DEF Filled
<1>4. CASE isr.at # "own"
  <2>1. PICK n \in 0 .. N : Window(cur, n)
    <3>1. CASE Pci
      BY <3>1, <1>4 DEF Good, Together
    <3>2. CASE ~Pci
      <4>1. Wrapped(cur + 0) = 0 /\ 0 \in 0 .. N
        BY <3>2, <1>1 DEF Places, Wrapped
      <4>2. \A i \in Slots : ~InWindow(0, 0, i)
        BY <1>1 DEF InWindow, Slots
      <4>3. Window(cur, 0)
        BY <3>2, <4>1, <4>2 DEF Places, Window, AllOwned
      <4> QED BY <4>1, <4>3
    <3> QED BY <3>1, <3>2
  <2>2. Filled = {i \in Slots : InWindow(cur, n, i)}
    BY <1>3, <2>1 DEF Window
  <2>3. Filled = {(cur + k) % N : k \in 0 .. n - 1} /\ Cardinality(Filled) = n
    <3>1. cur \in Slots
      BY <1>1
    <3> HIDE DEF Filled
    <3> QED BY <3>1, <2>2, WindowCount
  <2>4. dev = (cur + n) % N
    <3>1. cur + n \in 0 .. 2 * N - 1
      BY <1>1 DEF Slots
    <3> QED BY <2>1, <3>1, Wraps DEF Window
  <2> QED BY <1>1, <1>2, <1>4, <2>3, <2>4 DEF EndMarked
<1>5. CASE isr.at = "own"
  <2> DEFINE others == Filled \ {cur}
             first == Wrapped(cur + 1)
  <2>1. Pci /\ isr.idx = cur
    BY <1>5 DEF Places, Good, Together
  <2>2. first = (cur + 1) % N /\ first \in Slots
    <3>1. cur + 1 \in 0 .. 2 * N - 1
      BY <1>1 DEF Slots
    <3> QED BY <3>1, Wraps
  <2>3. PICK n \in 0 .. N : others = {i \in Slots : InWindow(first, n, i)}
    <3>1. CASE AllFilled
      <4>1. \A i \in Slots : InWindow(first, N - 1, i) <=> i # cur
        BY <1>1 DEF Slots, InWindow, Wrapped
      <4>2. others = {i \in Slots : InWindow(first, N - 1, i)} /\ N - 1 \in 0 .. N
        BY <1>1, <1>3, <3>1, <4>1 DEF AllFilled
      <4> QED BY <4>2
    <3>2. CASE ~AllFilled
      <4>1. PICK n \in 0 .. N - 1 : Window(first, n)
        BY <1>5, <2>1, <3>2 DEF Good, Together
      <4>2. cur \notin Filled /\ n \in 0 .. N
        BY <1>1, <1>3, <1>5, <2>1, <3>2 DEF Good, Together
      <4>3. others = {i \in Slots : InWindow(first, n, i)}
        BY <1>3, <4>1, <4>2 DEF Window
      <4> QED BY <4>2, <4>3
    <3> QED BY <3>1, <3>2
  <2>4. others = {(first + k) % N : k \in 0 .. n - 1} /\ Cardinality(others) = n
    BY <2>2, <2>3, WindowCount
  <2>5. others \ {cur} = others
    OBVIOUS
  <2> QED BY <1>1, <1>2, <1>5, <2>1, <2>2, <2>4, <2>5 DEF EndMarked
<1> QED BY <1>4, <1>5

LEMMA IInvRing == IInv => RingSound
<1> SUFFICES ASSUME IInv PROVE RingSound
  OBVIOUS
<1>1. DOMAIN ring = Slots
  BY DEF IInv, Typed, Rings
<1>2. DmaSafe
  BY <1>1 DEF IInv, Buffers, DmaSafe
<1>3. NoLostReception
  BY <1>1 DEF IInv, Awaited, NoLostReception, AllOwned, Filled, Odd
<1> QED BY <1>2, <1>3, RingAgreesOf DEF IInv, RingSound

-----------------------------------------------------------------------------
(* What the operations do to a descriptor. *)

LEMMA FillSlot ==
    ASSUME NEW S, ring \in Rings(S), NEW i \in Slots, NEW g,
           ring' = [ring EXCEPT ![i].own = FALSE, ![i].got = g]
    PROVE  /\ ring' \in Rings(S \union {g})
           /\ ~ring'[i].own
           /\ \A j \in Slots : /\ j # i => ring'[j].own = ring[j].own
                               /\ ring'[j].eor = ring[j].eor /\ ring'[j].addr = ring[j].addr
                               /\ ring'[j].buf = ring[j].buf
BY DEF Rings

LEMMA GiveBack ==
    ASSUME NEW S, ring \in Rings(S), NEW i \in Slots, NEW k \in Slots,
           ring' = [ring EXCEPT ![i] = setup_rx_desc(ring[i], k)]
    PROVE  /\ ring' \in Rings(S \union {Nothing})
           /\ ring'[i].own /\ ring'[i].addr = ring[i].buf /\ (ring'[i].eor <=> k = N - 1)
           /\ \A j \in Slots : ring'[j].buf = ring[j].buf
           /\ \A j \in Slots \ {i} : ring'[j] = ring[j]
BY DEF Rings, setup_rx_desc

LEMMA ResetRing ==
    ASSUME NEW S, ring \in Rings(S), reset_rx_list
    PROVE  /\ ring' \in Rings(S \union {Nothing})
           /\ \A i \in Slots : /\ ring'[i].own /\ (ring'[i].eor <=> i = N - 1)
                               /\ ring'[i].addr = ring'[i].buf /\ ring'[i].buf = ring[i].buf
BY DEF Rings, setup_rx_desc, reset_rx_list

LEMMA RenewBuffer ==
    ASSUME NEW S, ring \in Rings(S), NEW i \in Slots, NEW b \in Nat,
           ring' = [ring EXCEPT ![i].buf = b]
    PROVE  /\ ring' \in Rings(S)
           /\ ring'[i].buf = b
           /\ \A j \in Slots : /\ ring'[j].own = ring[j].own /\ ring'[j].eor = ring[j].eor
                               /\ ring'[j].addr = ring[j].addr
                               /\ j # i => ring'[j].buf = ring[j].buf
BY DEF Rings

\* A sequence of anything.
LEMMA AppendAny ==
    ASSUME NEW S, NEW s \in Seq(S), NEW e
    PROVE  /\ Append(s, e) \in Seq(S \union {e})
           /\ DOMAIN s = 1 .. Len(s) /\ Len(s) \in Nat
           /\ DOMAIN Append(s, e) = 1 .. Len(s) + 1
           /\ \A k \in 1 .. Len(s) : Append(s, e)[k] = s[k]
           /\ Append(s, e)[Len(s) + 1] = e
<1>1. s \in Seq(S \union {e})
  BY SeqMonotonic
<1> QED BY <1>1, AppendProperties, LenProperties

-----------------------------------------------------------------------------
(* Windows. *)

LEMMA WindowGrows ==
    ASSUME NEW first \in Slots, NEW n \in 0 .. N - 1, NEW d, d = Wrapped(first + n)
    PROVE  /\ d \in Slots /\ ~InWindow(first, n, d)
           /\ \A i \in Slots : InWindow(first, n + 1, i) <=> InWindow(first, n, i) \/ i = d
           /\ Wrapped(first + (n + 1)) = IF d = N - 1 THEN 0 ELSE d + 1
BY Length DEF Slots, InWindow, Wrapped

LEMMA WindowShrinks ==
    ASSUME NEW first \in Slots, NEW n \in 1 .. N, NEW next, next = Wrapped(first + 1)
    PROVE  /\ next \in Slots
           /\ \A i \in Slots : InWindow(next, n - 1, i) <=> InWindow(first, n, i) /\ i # first
           /\ Wrapped(next + (n - 1)) = Wrapped(first + n)
BY Length DEF Slots, InWindow, Wrapped

LEMMA WindowEnds ==
    ASSUME NEW first \in Slots
    PROVE  /\ \A i \in Slots : InWindow(first, N, i) /\ ~InWindow(first, 0, i)
           /\ \A n \in 0 .. N : InWindow(first, n, first) <=> n # 0
           /\ \A n \in 0 .. N - 1 : Wrapped(first + n) = first => n = 0
           /\ Wrapped(first + N) = first /\ Wrapped(first + 0) = first
BY Length DEF Slots, InWindow, Wrapped

-----------------------------------------------------------------------------
(* Steps that leave the ring alone. *)

LEMMA EventsKept ==
    ASSUME EventsPolled, UNCHANGED <<chip, c2h>>, power' = "running" => power = "running"
    PROVE  EventsPolled'
BY DEF EventsPolled, R92c

LEMMA EventsStart ==
    ASSUME Typed, StartEvents, UNCHANGED chip
    PROVE  EventsPolled' /\ \E S : c2h' \in Events(S)
<1>1. PICK S : c2h \in Events(S)
  BY DEF Typed
<1>2. \/ c2h' = [c2h EXCEPT !.timer = TRUE, !.refused = FALSE, !.fw = TRUE]
      \/ c2h' = [c2h EXCEPT !.fw = FALSE]
      \/ UNCHANGED c2h /\ ~R92c
  BY DEF StartEvents
<1>3. c2h' \in Events(S) /\ (R92c /\ c2h'.fw => c2h'.timer)
  BY <1>1, <1>2 DEF Events
<1> QED BY <1>3 DEF EventsPolled, R92c

LEMMA EventsStop ==
    ASSUME Typed, StopEvents, power' = "off"
    PROVE  EventsPolled' /\ \E S : c2h' \in Events(S)
<1>1. PICK S : c2h \in Events(S)
  BY DEF Typed
<1>2. c2h' \in Events(S \union {-1})
  BY <1>1 DEF Events, StopEvents
<1> QED BY <1>2 DEF EventsPolled

\* The same places; only where the PCI handler and the device are may differ.
LEMMA TogetherKept ==
    ASSUME Good => Together, Places, UNCHANGED <<chip, ring, cur, dev, isr>>,
           Good' => Good, power' = power \/ ~Pci
    PROVE  (Good => Together)'
<1> SUFFICES ASSUME Good' PROVE Together'
  OBVIOUS
<1>1. Pci /\ Pci' /\ Together /\ power' = power
  BY DEF Good, Pci
<1> QED BY <1>1 DEF Together, EndMarked, AllOwned, AllFilled, Window

LEMMA BuffersKept ==
    ASSUME Buffers, UNCHANGED <<ring, delivered>>
    PROVE  Buffers'
BY DEF Buffers

LEMMA SameBuffers ==
    ASSUME Buffers, UNCHANGED delivered,
           \A i \in Slots : ring'[i].buf = ring[i].buf,
           \A i \in Slots : ring'[i].own => ring'[i].addr = ring'[i].buf
    PROVE  Buffers'
BY DEF Buffers

LEMMA AwaitedKept ==
    ASSUME Awaited, UNCHANGED <<chip, ring, isr, himr, hisr, odd>>, power' = power \/ ~Pci
    PROVE  Awaited'
BY DEF Awaited, AllOwned, Odd, Pci, ReportCauses, RxCauses

LEMMA PciVarsKept ==
    ASSUME IInv, UNCHANGED <<chip, stops, delivered, pciVars>>, Typed', EventsPolled',
           power' = power \/ (~Pci /\ stops' = stops /\ power' \in {"off", "running", "draining"}),
           incb' => ~Pci /\ power' \in {"running", "draining"}
    PROVE  IInv'
<1>1. UNCHANGED <<ring, cur, dev, hisr, himr, isr, odd>>
  BY DEF pciVars
<1>2. (Good => Together)'
  BY <1>1, TogetherKept DEF IInv, Good, Odd, Pci
<1>3. Buffers' /\ Awaited'
  BY <1>1, BuffersKept, AwaitedKept DEF IInv
<1>4. Places'
  BY <1>1 DEF IInv, Places, Pci, AllOwned, EndMarked
<1> QED BY <1>2, <1>3, <1>4 DEF IInv

\* A copy of a frame is passed up from a transfer.
LEMMA CopyUp ==
    ASSUME IInv, UNCHANGED <<chip, power, stops, c2h, pciVars>>, NEW no,
           delivered' = Append(delivered, Copy(no)),
           incb' => ~Pci /\ power \in {"running", "draining"}
    PROVE  IInv'
<1>1. UNCHANGED <<ring, cur, dev, hisr, himr, isr, odd>>
  BY DEF pciVars
<1>2. PICK S : delivered \in Seq(S)
  BY DEF IInv, Typed
<1>3. /\ delivered' \in Seq(S \union {Copy(no)})
      /\ DOMAIN delivered = 1 .. Len(delivered) /\ Len(delivered) \in Nat
      /\ DOMAIN delivered' = 1 .. Len(delivered) + 1
      /\ \A k \in 1 .. Len(delivered) : delivered'[k] = delivered[k]
      /\ delivered'[Len(delivered) + 1] = Copy(no)
  BY <1>2, AppendAny
<1>4. Typed'
  BY <1>1, <1>3 DEF IInv, Typed
<1>5. Buffers'
  <2>1. \A i \in Slots : ring[i].buf \in Nat
    BY DEF IInv, Typed, Rings
  <2>2. 0 \in Slots
    BY Length DEF Slots
  <2> SUFFICES ASSUME NEW k \in DOMAIN delivered'
               PROVE  /\ \A i \in Slots : ring'[i].buf # delivered'[k].buf
                      /\ \E i \in Slots : ring'[i].buf > delivered'[k].buf
                      /\ delivered'[k].buf \in Int
    BY <1>1 DEF IInv, Buffers
  <2>3. CASE k \in 1 .. Len(delivered)
    BY <2>3, <1>1, <1>3 DEF IInv, Buffers
  <2>4. CASE k = Len(delivered) + 1
    <3>1. delivered'[k].buf = -1
      BY <2>4, <1>3 DEF Copy
    <3> QED BY <3>1, <2>1, <2>2, <1>1
  <2> QED BY <2>3, <2>4, <1>3
<1>6. (Good => Together)'
  BY <1>1, TogetherKept DEF IInv, Good, Odd, Pci
<1>7. Awaited' /\ EventsPolled'
  BY <1>1, AwaitedKept, EventsKept DEF IInv
<1>8. Places'
  BY <1>1 DEF IInv, Places, Pci, AllOwned, EndMarked
<1> QED BY <1>4, <1>5, <1>6, <1>7, <1>8 DEF IInv

LEMMA UsbIInv ==
    ASSUME IInv,
           UsbTransferred \/ UsbPass \/ UsbReturn \/ UsbError \/ UsbSetup
           \/ UsbStart \/ UsbStop \/ UsbCancelled \/ UsbStopped
    PROVE  IInv'
<1>1. CASE UsbTransferred
  <2>1. /\ UNCHANGED <<chip, power, stops, c2h, pciVars>> /\ ~Pci
        /\ power \in {"running", "draining"}
    BY <1>1 DEF UsbTransferred
  <2>2. (\E no : delivered' = Append(delivered, Copy(no))) \/ (UNCHANGED delivered /\ incb' = FALSE)
    BY <1>1 DEF UsbTransferred
  <2>3. CASE \E no : delivered' = Append(delivered, Copy(no))
    BY <2>1, <2>3, CopyUp
  <2>4. CASE UNCHANGED delivered /\ incb' = FALSE
    <3>1. Typed' /\ EventsPolled'
      BY <2>1, <2>4, EventsKept DEF IInv, Typed, pciVars
    <3> QED BY <2>1, <2>4, <3>1, PciVarsKept
  <2> QED BY <2>2, <2>3, <2>4
<1>2. CASE UsbPass
  <2>1. /\ UNCHANGED <<chip, power, stops, c2h, pciVars, incb>> /\ incb
        /\ delivered' = Append(delivered, Copy(Head(chain)))
    BY <1>2 DEF UsbPass
  <2> QED BY <2>1, CopyUp DEF IInv, Places
<1>3. CASE UsbReturn \/ UsbError \/ UsbSetup \/ UsbCancelled
  <2>1. UNCHANGED <<chip, power, stops, delivered, c2h, pciVars>> /\ (incb' => incb)
    BY <1>3 DEF UsbReturn, UsbError, UsbSetup, UsbCancelled
  <2>2. Typed' /\ EventsPolled'
    BY <2>1, EventsKept DEF IInv, Typed, pciVars
  <2> QED BY <2>1, <2>2, PciVarsKept DEF IInv, Places
<1>4. CASE UsbStart
  <2>1. /\ UNCHANGED <<chip, stops, delivered, pciVars, incb>> /\ ~Pci /\ power = "off"
        /\ power' = "running"
        /\ StartEvents
    BY <1>4 DEF UsbStart
  <2>3. EventsPolled' /\ \E S : c2h' \in Events(S)
    BY <2>1, EventsStart DEF IInv
  <2>2. Typed'
    BY <2>1, <2>3 DEF IInv, Typed, pciVars
  <2> QED BY <2>1, <2>2, <2>3, PciVarsKept DEF IInv, Places
<1>5. CASE UsbStop
  <2>1. /\ UNCHANGED <<chip, delivered, pciVars, incb, c2h>> /\ ~Pci
        /\ power' = "draining" /\ stops' = stops + 1
    BY <1>5 DEF UsbStop, usbVars
  <2>2. UNCHANGED <<ring, cur, dev, hisr, himr, isr, odd>>
    BY <2>1 DEF pciVars
  <2>3. Typed' /\ EventsPolled'
    BY <2>1, <2>2, EventsKept DEF IInv, Typed
  <2>4. (Good => Together)' /\ Awaited' /\ Buffers'
    BY <2>1, <2>2, BuffersKept, AwaitedKept, TogetherKept DEF IInv, Good, Pci
  <2>5. Places'
    BY <2>1, <2>2 DEF IInv, Places, Pci, AllOwned, EndMarked
  <2> QED BY <2>3, <2>4, <2>5 DEF IInv
<1>6. CASE UsbStopped
  <2>1. /\ UNCHANGED <<chip, stops, delivered, pciVars, incb>> /\ power = "draining" /\ ~incb
        /\ power' = "off" /\ StopEvents /\ ~Pci
    BY <1>6 DEF UsbStopped, UsbDrained, usbVars
  <2>3. EventsPolled' /\ \E S : c2h' \in Events(S)
    BY <2>1, EventsStop DEF IInv
  <2>4. Typed'
    BY <2>1, <2>3 DEF IInv, Typed, pciVars
  <2> QED BY <2>1, <2>3, <2>4, PciVarsKept
<1> QED BY <1>1, <1>2, <1>3, <1>4, <1>5, <1>6

LEMMA EventIInv ==
    ASSUME IInv, Transmit \/ FwEvent \/ C2hTimer \/ C2hTask
    PROVE  IInv'
<1>1. UNCHANGED <<chip, power, stops, delivered, pciVars, incb>>
  BY DEF Transmit, FwEvent, C2hTimer, C2hTask, usbVars
<1>2. PICK S : c2h \in Events(S)
  BY DEF IInv, Typed
<1>3. EventsPolled' /\ \E T : c2h' \in Events(T)
  <2>1. CASE Transmit
    <3>1. c2h' = c2h
      BY <2>1 DEF Transmit
    <3> QED BY <3>1, <1>1, <1>2, EventsKept DEF IInv
  <2>2. CASE FwEvent
    <3>1. c2h' = [c2h EXCEPT !.event = Macid]
      BY <2>2 DEF FwEvent
    <3>2. c2h' \in Events(S \union {Macid})
      BY <1>2, <3>1 DEF Events
    <3>3. c2h'.timer = c2h.timer /\ c2h'.cmds = c2h.cmds /\ c2h'.refused = c2h.refused
          /\ c2h'.fw = c2h.fw
      BY <1>2, <3>1 DEF Events
    <3> QED BY <1>1, <3>2, <3>3 DEF IInv, EventsPolled, R92c
  <2>3. CASE C2hTimer
    <3>1. c2h' = [c2h EXCEPT !.timer = FALSE, !.cmds = @ + 1]
          \/ c2h' = [c2h EXCEPT !.timer = FALSE, !.refused = TRUE]
      BY <2>3 DEF C2hTimer
    <3>2. /\ c2h' \in Events(S)
          /\ c2h'.refused \/ c2h'.cmds > 0
      <4>1. CASE c2h' = [c2h EXCEPT !.timer = FALSE, !.cmds = @ + 1]
        <5>1. c2h.cmds + 1 \in Nat /\ c2h.cmds + 1 > 0
          BY <1>2 DEF Events
        <5>2. c2h'.cmds = c2h.cmds + 1
          BY <1>2, <4>1 DEF Events
        <5>3. c2h' \in Events(S)
          BY <1>2, <4>1, <5>1 DEF Events
        <5> QED BY <5>1, <5>2, <5>3
      <4>2. CASE c2h' = [c2h EXCEPT !.timer = FALSE, !.refused = TRUE]
        BY <1>2, <4>2 DEF Events
      <4> QED BY <3>1, <4>1, <4>2
    <3> QED BY <1>1, <3>2 DEF EventsPolled
  <2>4. CASE C2hTask
    <3>1. /\ c2h.cmds > 0
          /\ \/ power # "running" /\ c2h' = [c2h EXCEPT !.cmds = @ - 1]
             \/ c2h' = [c2h EXCEPT !.cmds = @ - 1, !.event = -1, !.timer = TRUE]
      BY <2>4 DEF C2hTask, NextPoll
    <3>2. /\ c2h' \in Events(S \union {-1})
          /\ power # "running" \/ c2h'.timer
      <4>1. c2h.cmds - 1 \in Nat
        BY <1>2, <3>1 DEF Events
      <4>2. CASE power # "running" /\ c2h' = [c2h EXCEPT !.cmds = @ - 1]
        BY <1>2, <4>1, <4>2 DEF Events
      <4>3. CASE c2h' = [c2h EXCEPT !.cmds = @ - 1, !.event = -1, !.timer = TRUE]
        BY <1>2, <4>1, <4>3 DEF Events
      <4> QED BY <3>1, <4>2, <4>3
    <3> QED BY <1>1, <3>2 DEF EventsPolled
  <2> QED BY <2>1, <2>2, <2>3, <2>4
<1>4. Typed'
  BY <1>1, <1>3 DEF IInv, Typed, pciVars
<1> QED BY <1>1, <1>3, <1>4, PciVarsKept DEF IInv, Places

-----------------------------------------------------------------------------
(* The steps of the PCI device and of its handler. *)

\* The device fills a descriptor between its window and the driver's place.
LEMMA FillIInv ==
    ASSUME IInv, Pci, power # "off", UNCHANGED <<chip, power, stops, delivered, cur, himr, isr, odd, c2h, incb>>,
           dev \in Slots, ring[dev].own, NEW g,
           ring' = [ring EXCEPT ![dev].own = FALSE, ![dev].got = g],
           dev' = IF ring[dev].eor THEN 0 ELSE dev + 1,
           hisr' \intersect (RxCauses \union ReportCauses) # {}
    PROVE  IInv'
<1>1. N \in Nat \ {0} /\ cur \in Slots
  BY Length DEF IInv, Typed
<1>2. PICK S : ring \in Rings(S)
  BY DEF IInv, Typed
<1>3. /\ ring' \in Rings(S \union {g})
      /\ ~ring'[dev].own
      /\ \A j \in Slots : /\ j # dev => ring'[j].own = ring[j].own
                          /\ ring'[j].eor = ring[j].eor /\ ring'[j].addr = ring[j].addr
                          /\ ring'[j].buf = ring[j].buf
  BY <1>2, FillSlot
<1>4. \A j \in Slots : ring[j].own \in BOOLEAN /\ ring'[j].own \in BOOLEAN
  BY <1>2, <1>3 DEF Rings
<1>5. Typed'
  <2>1. dev' \in Nat
    BY <1>1 DEF Slots
  <2> QED BY <1>3, <2>1 DEF IInv, Typed
<1>6. (Good => Together)'
  <2> SUFFICES ASSUME Good' PROVE Together'
    OBVIOUS
  <2>1. Together
    BY DEF IInv, Good, Pci, Odd
  <2>2. EndMarked'
    BY <1>3, <2>1 DEF Together, EndMarked
  <2>3. dev' = IF dev = N - 1 THEN 0 ELSE dev + 1
    BY <2>1 DEF Together, EndMarked
  <2>4. ASSUME NEW first \in Slots, NEW n \in 0 .. N - 1, Window(first, n)
        PROVE  Window(first, n + 1)'
    <3>1. dev = Wrapped(first + n)
      BY <2>4 DEF Window
    <3>2. /\ ~InWindow(first, n, dev)
          /\ \A i \in Slots : InWindow(first, n + 1, i) <=> InWindow(first, n, i) \/ i = dev
          /\ Wrapped(first + (n + 1)) = IF dev = N - 1 THEN 0 ELSE dev + 1
      BY <3>1, WindowGrows
    <3>3. \A i \in Slots : ~ring'[i].own <=> InWindow(first, n + 1, i)
      BY <1>3, <2>4, <3>2 DEF Window
    <3>4. dev' = Wrapped(first + (n + 1))
      BY <2>3, <3>2
    <3> QED BY <3>3, <3>4 DEF Window, InWindow, Wrapped, Slots
  <2>5. (power # "off" /\ isr.at # "own" => \E n \in 0 .. N : Window(cur, n))'
    <3> SUFFICES ASSUME isr.at # "own" PROVE \E n \in 0 .. N : Window(cur, n)'
      OBVIOUS
    <3>1. PICK n \in 0 .. N : Window(cur, n)
      BY <2>1 DEF Together
    <3>2. n # N
      BY <1>1, <3>1, WindowEnds DEF Window
    <3>3. n \in 0 .. N - 1 /\ n + 1 \in 0 .. N
      BY <1>1, <3>2
    <3> QED BY <1>1, <2>4, <3>1, <3>3
  <2>6. (isr.at = "own" =>
           /\ isr.idx = cur
           /\ AllFilled \/ (ring[cur].own /\ \E n \in 0 .. N - 1 : Window(Wrapped(cur + 1), n)))'
    <3> SUFFICES ASSUME isr.at = "own"
                 PROVE  isr.idx = cur
                        /\ (AllFilled' \/ (ring'[cur].own /\ \E n \in 0 .. N - 1 : Window(Wrapped(cur + 1), n)'))
      BY DEF Wrapped
    <3>1. PICK n \in 0 .. N - 1 : Window(Wrapped(cur + 1), n)
      BY <2>1 DEF Together, AllFilled
    <3>2. isr.idx = cur /\ ring[cur].own
      BY <2>1 DEF Together, AllFilled
    <3>3. Wrapped(cur + 1) \in Slots /\ (n = N - 1 <=> Wrapped(Wrapped(cur + 1) + n) = cur)
      BY <1>1 DEF Wrapped, Slots
    <3>4. Window(Wrapped(cur + 1), n + 1)'
      BY <2>4, <3>1, <3>3
    <3>5. CASE n = N - 1
      <4>1. n + 1 = N
        BY <1>1, <3>5
      <4>2. \A i \in Slots : InWindow(Wrapped(cur + 1), N, i)
        BY <3>3, WindowEnds
      <4>3. AllFilled'
        BY <3>4, <4>1, <4>2 DEF Window, AllFilled
      <4> QED BY <3>2, <4>3
    <3>6. CASE n # N - 1
      <4>1. dev # cur
        BY <3>1, <3>3, <3>6 DEF Window
      <4>2. n + 1 \in 0 .. N - 1
        BY <1>1, <3>6
      <4> QED BY <1>1, <1>3, <3>2, <3>4, <4>1, <4>2
    <3> QED BY <3>5, <3>6
  <2>7. (isr.at \in {"taken", "input"} => isr.idx = cur /\ ~ring[cur].own)'
    BY <1>1, <1>3, <2>1 DEF Together
  <2> QED BY <2>1, <2>2, <2>5, <2>6, <2>7 DEF Together
<1>7. Buffers'
  <2>1. Buffers /\ UNCHANGED delivered
    BY DEF IInv
  <2>2. \A i \in Slots : ring'[i].own => ring[i].own
    BY <1>3
  <2>3. ASSUME NEW i \in Slots, ring'[i].own PROVE ring'[i].addr = ring'[i].buf
    <3>1. ring[i].addr = ring[i].buf
      BY <2>1, <2>2, <2>3 DEF Buffers
    <3> QED BY <1>3, <3>1
  <2>4. \A i \in Slots : ring'[i].buf = ring[i].buf
    BY <1>3
  <2> QED BY <2>1, <2>3, <2>4, SameBuffers
<1>8. Awaited'
  BY DEF IInv, Awaited, Odd, RxCauses, ReportCauses, Pci
<1>9. Places' /\ EventsPolled'
  BY EventsKept DEF IInv, Places, Pci
<1> QED BY <1>5, <1>6, <1>7, <1>8, <1>9 DEF IInv

\* A frame, or a report, comes from the device.
LEMMA PostIInv ==
    ASSUME IInv, Pci, NEW pkt, Post(pkt), pkt.kind = "report" => chip = "r88ee"
    PROVE  IInv'
<1>1. /\ UNCHANGED <<chip, power, stops, delivered, cur, himr, isr, odd, c2h, incb>>
      /\ power # "off"
  BY DEF Post, usbVars
<1>2. DOMAIN ring = Slots
  BY DEF IInv, Typed, Rings
<1>3. CASE ring[dev].own
  <2>1. /\ ring' = [ring EXCEPT ![dev].own = FALSE,
                                ![dev].got = [no |-> posted + 1, pkt |-> pkt]]
        /\ dev' = IF ring[dev].eor THEN 0 ELSE dev + 1
        /\ hisr' = hisr \union {IF pkt.kind = "report" THEN "TXRPT" ELSE "ROK"}
        /\ dev \in Slots
    BY <1>2, <1>3 DEF Post
  <2>2. hisr' \intersect (RxCauses \union ReportCauses) # {}
    BY <2>1 DEF RxCauses, ReportCauses
  <2> QED BY <1>1, <1>3, <2>1, <2>2, FillIInv
<1>4. CASE ~ring[dev].own
  <2>1. hisr' = hisr \union {"RDU"} /\ UNCHANGED <<ring, dev>>
    BY <1>4 DEF Post
  <2>2. (Good => Together)' /\ Buffers' /\ EventsPolled'
    BY <1>1, <2>1, TogetherKept, BuffersKept, EventsKept DEF IInv, Good, Odd, Pci
  <2>3. Awaited'
    BY <1>1, <2>1 DEF IInv, Awaited, Odd, RxCauses, Pci
  <2>4. Typed' /\ Places'
    BY <1>1, <2>1 DEF IInv, Typed, Places, Pci
  <2> QED BY <2>2, <2>3, <2>4 DEF IInv
<1> QED BY <1>3, <1>4

LEMMA CauseIInv ==
    ASSUME IInv, PciCause
    PROVE  IInv'
<1>1. /\ UNCHANGED <<chip, power, stops, delivered, ring, cur, dev, himr, isr, odd, c2h, incb>>
      /\ hisr = {}
  BY DEF PciCause, usbVars
<1>2. (Good => Together)' /\ Buffers' /\ EventsPolled'
  BY <1>1, TogetherKept, BuffersKept, EventsKept DEF IInv, Good, Odd, Pci
<1>3. Awaited'
  BY <1>1 DEF IInv, Awaited, Odd, Pci, AllOwned
<1>4. Typed' /\ Places'
  BY <1>1 DEF IInv, Typed, Places, Pci, AllOwned, EndMarked
<1> QED BY <1>2, <1>3, <1>4 DEF IInv

LEMMA IntrIInv ==
    ASSUME IInv, Intr
    PROVE  IInv'
<1>1. /\ UNCHANGED <<chip, power, stops, delivered, ring, cur, dev, c2h, incb>>
      /\ Pci /\ power # "off" /\ isr.at = "idle" /\ himr' = FALSE
  BY DEF Intr, get_intr_status, usbVars
<1> DEFINE at == IF hisr \intersect (RxCauses \union ReportCauses) # {} THEN "loop" ELSE "end"
<1>2. \/ odd' = odd \union {"deaf"} /\ isr' = isr
      \/ odd' = odd /\ isr' = [isr EXCEPT !.at = at]
  BY DEF Intr
<1>3. /\ isr \in [at : Ats, idx : Slots]
      /\ isr' \in [at : Ats, idx : Slots]
      /\ \/ odd' = odd \union {"deaf"} /\ isr'.at = "idle"
         \/ odd' = odd /\ isr'.at = at
  BY <1>1, <1>2 DEF IInv, Typed, Ats
<1>4. (Good => Together)'
  <2> SUFFICES ASSUME Good' PROVE Together'
    OBVIOUS
  <2>1. Together /\ isr'.at \notin {"own", "taken", "input"}
    BY <1>1, <1>3 DEF IInv, Good, Pci, Odd
  <2>2. \E n \in 0 .. N : Window(cur, n)
    BY <1>1, <2>1 DEF Together
  <2> QED BY <1>1, <2>1, <2>2 DEF Together, EndMarked, Window
<1>5. Awaited'
  <2>1. CASE odd' = odd \union {"deaf"}
    BY <2>1 DEF Awaited, Odd
  <2>2. CASE odd' = odd /\ isr'.at = at
    <3> SUFFICES ASSUME hisr \intersect (RxCauses \union ReportCauses) = {},
                        ~Odd({"mixed", "reused", "deaf", "early"}), power = "running"
                 PROVE  AllOwned'
      BY <1>1, <2>2 DEF Awaited, Odd
    <3> QED BY <1>1 DEF IInv, Awaited, AllOwned
  <2> QED BY <1>3, <2>1, <2>2
<1>6. Buffers' /\ EventsPolled'
  BY <1>1, BuffersKept, EventsKept DEF IInv
<1>7. Typed' /\ Places'
  BY <1>1, <1>3 DEF IInv, Typed, Places, Pci
<1> QED BY <1>4, <1>5, <1>6, <1>7 DEF IInv

\* The handler ends when the driver's place has no frame: then no place has.
LEMMA IntrEndIInv ==
    ASSUME IInv, IntrEnd
    PROVE  IInv'
<1>1. /\ UNCHANGED <<chip, power, stops, delivered, ring, cur, dev, hisr, c2h, incb>>
      /\ Pci /\ power # "off" /\ isr.at \in {"end", "loop"} /\ himr' = (power = "running")
      /\ isr.at = "loop" => ring[cur].own
  BY DEF IInv, Places, IntrEnd, enable_intr, usbVars
<1>2. /\ isr' \in [at : Ats, idx : Slots]
      /\ isr'.at = "idle"
  BY DEF IInv, Typed, Ats, IntrEnd
<1>3. odd' = (IF isr.at = "loop" THEN odd \ {"early"} ELSE odd) /\ "stopped" \notin odd
  BY <1>1 DEF IInv, Places, IntrEnd
<1>4. Good' => Together /\ \E n \in 0 .. N : Window(cur, n)
  BY <1>1, <1>3 DEF IInv, Good, Pci, Odd, Together
<1>5. (Good => Together)'
  <2> SUFFICES ASSUME Good' PROVE Together'
    OBVIOUS
  <2> QED BY <1>1, <1>2, <1>4 DEF Together, EndMarked, Window
<1>6. Awaited'
  <2> SUFFICES ASSUME ~Odd({"mixed", "reused", "deaf", "early"})', power = "running"
               PROVE  AllOwned \/ hisr \intersect (RxCauses \union ReportCauses) # {}
    BY <1>1, <1>2 DEF Awaited, AllOwned, ReportCauses, RxCauses
  <2>1. CASE isr.at = "end"
    BY <1>1, <1>3, <2>1 DEF IInv, Awaited, Odd
  <2>2. CASE isr.at = "loop"
    <3>1. Good'
      BY <1>1, <1>3, <2>2 DEF Good, Odd, Pci
    <3>2. PICK n \in 0 .. N : Window(cur, n)
      BY <1>4, <3>1
    <3>3. cur \in Slots /\ ring[cur].own
      BY <1>1, <2>2 DEF IInv, Typed
    <3>4. n = 0
      BY <3>2, <3>3, WindowEnds DEF Window
    <3> QED BY <3>2, <3>3, <3>4, WindowEnds DEF Window, AllOwned
  <2> QED BY <1>1, <2>1, <2>2
<1>7. Buffers' /\ EventsPolled'
  BY <1>1, BuffersKept, EventsKept DEF IInv
<1>8. Typed' /\ Places'
  BY <1>1, <1>2, <1>3 DEF IInv, Typed, Places, Pci
<1> QED BY <1>5, <1>6, <1>7, <1>8 DEF IInv

LEMMA PowerIInv ==
    ASSUME IInv, PciPowerOn \/ PciStart
    PROVE  IInv'
<1>1. /\ UNCHANGED <<chip, stops, delivered, ring, cur, isr, incb>> /\ Pci
      /\ \/ /\ power = "off" /\ power' = "on" /\ dev' = 0
            /\ UNCHANGED <<hisr, himr, odd, c2h>>
         \/ /\ power = "on" /\ power' = "running" /\ dev' = dev /\ himr' = TRUE
            /\ odd' = odd \union {"early"}
            /\ StartEvents
      /\ isr.at \in {"idle", "taken", "input"}
  BY DEF PciPowerOn, PciStart, start_xfers, LockFree, usbVars
<1>2. (Good => Together)'
  <2> SUFFICES ASSUME Good' PROVE Together'
    OBVIOUS
  <2>1. Together /\ cur \in Slots /\ isr.at # "own"
    BY <1>1 DEF IInv, Typed, Good, Pci, Odd
  <2>2. \E n \in 0 .. N : Window(cur, n)'
    <3>1. CASE power = "off"
      <4>1. 0 \in 0 .. N /\ Wrapped(cur + 0) = 0 /\ cur = 0
        BY <1>1, <2>1, <3>1, WindowEnds, Length DEF Together
      <4>2. \A i \in Slots : ring[i].own /\ ~InWindow(cur, 0, i)
        BY <2>1, <3>1, WindowEnds DEF Together, AllOwned
      <4>3. Window(cur, 0)'
        BY <1>1, <3>1, <4>1, <4>2 DEF Window
      <4> QED BY <4>1, <4>3
    <3>2. CASE power = "on"
      <4>1. dev' = dev /\ ring' = ring /\ cur' = cur
        BY <1>1, <3>2
      <4>2. PICK n \in 0 .. N : Window(cur, n)
        BY <2>1, <3>2 DEF Together
      <4>3. Window(cur, n)'
        BY <4>1, <4>2 DEF Window
      <4> QED BY <4>3
    <3> QED BY <1>1, <3>1, <3>2
  <2> QED BY <1>1, <2>1, <2>2 DEF Together, EndMarked
<1>3. Awaited'
  BY <1>1 DEF Awaited, Odd
<1>4. Buffers'
  BY <1>1, BuffersKept DEF IInv
<1>5. EventsPolled' /\ \E S : c2h' \in Events(S)
  <2>1. CASE power = "off"
    BY <1>1, <2>1, EventsKept DEF IInv, Typed
  <2>2. CASE power = "on"
    BY <1>1, <2>2, EventsStart DEF IInv
  <2> QED BY <1>1, <2>1, <2>2
<1>6. Typed'
  <2>1. /\ power' \in {"off", "on", "running", "draining"}
        /\ dev' \in Nat /\ himr' \in BOOLEAN
    <3>1. CASE power = "off"
      BY <1>1, <3>1 DEF IInv, Typed
    <3>2. CASE power = "on"
      <4>1. power' = "running" /\ dev' = dev /\ himr' = TRUE
        BY <1>1, <3>2
      <4> QED BY <4>1 DEF IInv, Typed
    <3> QED BY <1>1, <3>1, <3>2
  <2>2. UNCHANGED <<ring, delivered, stops, cur, isr>>
    BY <1>1
  <2> QED BY <1>5, <2>1, <2>2 DEF IInv, Typed
<1>7. Places'
  BY <1>1 DEF IInv, Places, Pci
<1> QED BY <1>2, <1>3, <1>4, <1>5, <1>6, <1>7 DEF IInv

\* The ring is laid out as at the beginning.
LEMMA OffIInv ==
    ASSUME IInv, PowerOff, isr.at \in {"idle", "taken", "input"}, Pci,
           UNCHANGED <<chip, delivered, dev, isr, incb>>, stops' \in Nat
    PROVE  IInv'
<1>1. /\ power' = "off" /\ reset_rx_list /\ cur' = 0 /\ himr' = FALSE /\ StopEvents
  BY DEF PowerOff, reset_rx_list
<1>2. odd' = IF isr.at = "idle" THEN odd \ {"deaf", "reused", "mixed"} ELSE odd \union {"stopped"}
  BY DEF PowerOff
<1>3. PICK S : ring \in Rings(S)
  BY DEF IInv, Typed
<1>4. /\ ring' \in Rings(S \union {Nothing})
      /\ \A i \in Slots : /\ ring'[i].own /\ (ring'[i].eor <=> i = N - 1)
                          /\ ring'[i].addr = ring'[i].buf /\ ring'[i].buf = ring[i].buf
  BY <1>1, <1>3, ResetRing
<1>5. (Good => Together)'
  <2> SUFFICES ASSUME Good' PROVE Together'
    OBVIOUS
  <2>1. isr.at = "idle"
    BY <1>1, <1>2 DEF Good, Odd
  <2>2. EndMarked' /\ AllOwned'
    BY <1>4 DEF EndMarked, AllOwned
  <2> QED BY <1>1, <2>1, <2>2 DEF Together
<1>6. Buffers'
  <2>1. Buffers /\ UNCHANGED delivered
    BY <1>1 DEF IInv
  <2>2. \A i \in Slots : ring'[i].buf = ring[i].buf
    BY <1>4
  <2>3. \A i \in Slots : ring'[i].own => ring'[i].addr = ring'[i].buf
    BY <1>4
  <2> QED BY <2>1, <2>2, <2>3, SameBuffers
<1>7. Awaited' /\ EventsPolled' /\ \E T : c2h' \in Events(T)
  BY <1>1, EventsStop DEF Awaited, IInv
<1>8. Typed'
  <2>3. 0 \in Slots /\ stops' \in Nat
    BY Length DEF Slots
  <2>4. /\ UNCHANGED <<delivered, dev, isr>> /\ power' = "off" /\ cur' \in Slots
        /\ himr' = FALSE
    BY <1>1, <2>3
  <2>5. (\E R : ring' \in Rings(R)) /\ (\E D : delivered' \in Seq(D))
    BY <1>4, <2>4 DEF IInv, Typed
  <2> QED BY <1>7, <2>3, <2>4, <2>5 DEF IInv, Typed
<1>9. Places'
  BY <1>1, <1>2 DEF IInv, Places, Pci
<1> QED BY <1>5, <1>6, <1>7, <1>8, <1>9 DEF IInv

LEMMA StopIInv ==
    ASSUME IInv, PciStop \/ PciStopped
    PROVE  IInv'
<1>1. /\ UNCHANGED <<chip, delivered, dev, isr, incb>> /\ Pci /\ stops' \in Nat
      /\ power \in {"running", "draining"} /\ isr.at \in {"idle", "taken", "input"}
  BY DEF PciStop, PciStopped, LockFree, IInv, Typed, usbVars
<1>2. CASE PowerOff
  BY <1>1, <1>2, OffIInv
<1>3. CASE ~PowerOff
  <2>1. power' = "draining" /\ UNCHANGED <<ring, cur, hisr, himr, c2h, odd>>
    BY <1>3 DEF PciStop, PciStopped
  <2>2. (Good => Together)'
    <3> SUFFICES ASSUME Good' PROVE Together'
      OBVIOUS
    <3>1. Together
      BY <1>1, <2>1 DEF IInv, Good, Pci, Odd
    <3> QED BY <1>1, <2>1, <3>1 DEF Together, EndMarked, Window
  <2>3. Buffers' /\ Awaited' /\ EventsPolled'
    BY <1>1, <2>1, BuffersKept DEF IInv, Awaited, EventsPolled
  <2>4. Typed' /\ Places'
    BY <1>1, <2>1 DEF IInv, Typed, Places, Pci
  <2> QED BY <2>2, <2>3, <2>4 DEF IInv
<1> QED BY <1>2, <1>3

\* The descriptor at the driver's place is given back and the place yet to be
\* moved on.
LEMMA BackIInv ==
    ASSUME Typed, Together, Pci, isr.at # "own", ~ring[cur].own, power = "running",
           UNCHANGED <<chip, power, cur, dev>>,
           ring' = [ring EXCEPT ![cur] = setup_rx_desc(ring[cur], cur)],
           isr' = [at |-> "own", idx |-> cur]
    PROVE  Together'
<1>1. N \in Nat \ {0} /\ cur \in Slots
  BY Length DEF Typed
<1>2. PICK S : ring \in Rings(S)
  BY DEF Typed
<1>3. /\ ring'[cur].own /\ (ring'[cur].eor <=> cur = N - 1)
      /\ \A j \in Slots \ {cur} : ring'[j] = ring[j]
  BY <1>1, <1>2, GiveBack
<1>4. EndMarked'
  BY <1>3 DEF Together, EndMarked
<1>5. PICK n \in 0 .. N : Window(cur, n)
  BY DEF Together
<1>6. n # 0
  BY <1>1, <1>5, WindowEnds DEF Window
<1>7. n \in 1 .. N /\ n - 1 \in 0 .. N - 1
  BY <1>1, <1>6
<1>8. /\ \A i \in Slots : InWindow(Wrapped(cur + 1), n - 1, i) <=> InWindow(cur, n, i) /\ i # cur
      /\ Wrapped(Wrapped(cur + 1) + (n - 1)) = Wrapped(cur + n)
  BY <1>1, <1>7, WindowShrinks
<1>9. \A i \in Slots : ~ring'[i].own <=> InWindow(Wrapped(cur + 1), n - 1, i)
  <2> TAKE i \in Slots
  <2>1. CASE i = cur
    BY <2>1, <1>3, <1>8
  <2>2. CASE i # cur
    BY <2>2, <1>3, <1>5, <1>8 DEF Window
  <2> QED BY <2>1, <2>2
<1>10. dev' = Wrapped(Wrapped(cur + 1) + (n - 1))
  BY <1>5, <1>8 DEF Window
<1>11. (\E m \in 0 .. N - 1 : Window(Wrapped(cur + 1), m))'
  <2>1. Window(Wrapped(cur + 1), n - 1)'
    BY <1>9, <1>10 DEF Window, InWindow, Wrapped, Slots
  <2> QED BY <1>7, <2>1
<1>12. ring'[cur'].own /\ isr'.at = "own" /\ isr'.idx = cur'
  BY <1>3
<1>13. power' = "running"
  OBVIOUS
<1> QED BY <1>4, <1>11, <1>12, <1>13 DEF Together

\* A descriptor given back: its buffer is where it was.
LEMMA BackBuffers ==
    ASSUME Typed, Buffers, NEW i \in Slots, UNCHANGED delivered,
           ring' = [ring EXCEPT ![i] = setup_rx_desc(ring[i], cur)]
    PROVE  Buffers' /\ \E S : ring' \in Rings(S)
<1>1. PICK S : ring \in Rings(S)
  BY DEF Typed
<1>2. cur \in Slots
  BY DEF Typed
<1>3. /\ ring' \in Rings(S \union {Nothing})
      /\ ring'[i].own /\ ring'[i].addr = ring[i].buf
      /\ \A j \in Slots : ring'[j].buf = ring[j].buf
      /\ \A j \in Slots \ {i} : ring'[j] = ring[j]
  BY <1>1, <1>2, GiveBack
<1>4. ASSUME NEW j \in Slots, ring'[j].own PROVE ring'[j].addr = ring'[j].buf
  BY <1>3, <1>4 DEF Buffers
<1> QED BY <1>3, <1>4, SameBuffers

\* The buffer of the filled descriptor is passed up and replaced by a new one.
LEMMA PassIInv ==
    ASSUME IInv, Pci, isr.at = "loop", ~ring[cur].own, power # "off",
           UNCHANGED <<chip, power, stops, cur, dev, himr, odd, c2h, incb>>, NEW no,
           ring' = [ring EXCEPT ![cur].buf = Fresh],
           delivered' = Append(delivered, [no |-> no, buf |-> ring[cur].buf]),
           isr' = [at |-> "taken", idx |-> cur]
    PROVE  IInv'
<1>1. cur \in Slots
  BY DEF IInv, Typed
<1>2. PICK S : ring \in Rings(S)
  BY DEF IInv, Typed
<1>3. PICK D : delivered \in Seq(D)
  BY DEF IInv, Typed
<1>4. Fresh \in Nat /\ \A i \in Slots : ring[i].buf < Fresh
  BY <1>2, FreshIsNew
<1>5. PICK b \in Nat : b = Fresh
  BY <1>4
<1>6. /\ ring' \in Rings(S) /\ ring'[cur].buf = b
      /\ \A j \in Slots : /\ ring'[j].own = ring[j].own /\ ring'[j].eor = ring[j].eor
                          /\ ring'[j].addr = ring[j].addr
                          /\ j # cur => ring'[j].buf = ring[j].buf
  BY <1>1, <1>2, <1>5, RenewBuffer
<1>7. PICK e : e = [no |-> no, buf |-> ring[cur].buf]
  OBVIOUS
<1>8. /\ delivered' \in Seq(D \union {e})
      /\ DOMAIN delivered = 1 .. Len(delivered) /\ Len(delivered) \in Nat
      /\ DOMAIN delivered' = 1 .. Len(delivered) + 1
      /\ \A k \in 1 .. Len(delivered) : delivered'[k] = delivered[k]
      /\ delivered'[Len(delivered) + 1] = e
  BY <1>3, <1>7, AppendAny
<1>9. \A i \in Slots : ring[i].buf \in Nat
  BY <1>2 DEF Rings
<1>10. Buffers'
  <2>1. ASSUME NEW i \in Slots, ring'[i].own PROVE ring'[i].addr = ring'[i].buf
    <3>1. ring[i].own /\ i # cur
      BY <1>6, <2>1
    <3>2. ring[i].addr = ring[i].buf
      BY <3>1 DEF IInv, Buffers
    <3> QED BY <1>6, <3>1, <3>2
  <2>2. ASSUME NEW i \in Slots, NEW j \in Slots, ring'[i].buf = ring'[j].buf PROVE i = j
    <3>1. CASE i # cur /\ j # cur
      BY <1>6, <2>2, <3>1 DEF IInv, Buffers
    <3>2. CASE i = cur /\ j # cur
      BY <1>4, <1>5, <1>6, <1>9, <2>2, <3>2
    <3>3. CASE i # cur /\ j = cur
      BY <1>4, <1>5, <1>6, <1>9, <2>2, <3>3
    <3> QED BY <3>1, <3>2, <3>3
  <2>3. ASSUME NEW k \in DOMAIN delivered'
        PROVE  /\ \A i \in Slots : ring'[i].buf # delivered'[k].buf
               /\ \E i \in Slots : ring'[i].buf > delivered'[k].buf
               /\ delivered'[k].buf \in Int
    <3>1. delivered'[k].buf \in Int /\ delivered'[k].buf < b
          /\ \A i \in Slots : i # cur => ring[i].buf # delivered'[k].buf
      <4>1. CASE k \in 1 .. Len(delivered)
        <5>1. delivered'[k].buf = delivered[k].buf
          BY <4>1, <1>8
        <5>2. PICK i \in Slots : ring[i].buf > delivered[k].buf
          BY <4>1, <1>8 DEF IInv, Buffers
        <5>3. delivered[k].buf \in Int /\ \A j \in Slots : ring[j].buf # delivered[k].buf
          BY <4>1, <1>8 DEF IInv, Buffers
        <5>4. ring[i].buf \in Nat /\ ring[i].buf < b
          BY <1>4, <1>5, <1>9
        <5> QED BY <5>1, <5>2, <5>3, <5>4
      <4>2. CASE k = Len(delivered) + 1
        <5>1. delivered'[k].buf = ring[cur].buf
          BY <4>2, <1>7, <1>8
        <5>2. ring[cur].buf \in Nat /\ ring[cur].buf < b
          BY <1>1, <1>4, <1>5, <1>9
        <5>3. \A i \in Slots : ring[i].buf = ring[cur].buf => i = cur
          BY <1>1 DEF IInv, Buffers
        <5> QED BY <5>1, <5>2, <5>3
      <4> QED BY <1>8, <4>1, <4>2
    <3>2. ring'[cur].buf > delivered'[k].buf /\ ring'[cur].buf # delivered'[k].buf
      BY <3>1, <1>5, <1>6
    <3>3. \A i \in Slots : ring'[i].buf # delivered'[k].buf
      BY <1>6, <3>1, <3>2
    <3> QED BY <1>1, <3>1, <3>2, <3>3
  <2> QED BY <2>1, <2>2, <2>3 DEF Buffers
<1>11. Typed'
  BY <1>1, <1>6, <1>8 DEF IInv, Typed, Ats
<1>12. (Good => Together)'
  <2> SUFFICES ASSUME Good' PROVE Together'
    OBVIOUS
  <2>1. Together
    BY DEF IInv, Good, Pci, Odd
  <2>2. PICK n \in 0 .. N : Window(cur, n)
    BY <2>1 DEF Together
  <2>3. Window(cur, n)' /\ EndMarked'
    BY <1>6, <2>1, <2>2 DEF Window, Together, EndMarked
  <2>4. ~ring'[cur].own
    BY <1>1, <1>6
  <2> QED BY <2>3, <2>4 DEF Together
<1>13. Awaited' /\ EventsPolled'
  BY EventsKept DEF IInv, Awaited
<1>14. Places'
  BY DEF IInv, Places, Pci
<1> QED BY <1>10, <1>11, <1>12, <1>13, <1>14 DEF IInv

\* A descriptor is given back; the place moves on next, or stays for good.
LEMMA GivenIInv ==
    ASSUME IInv, Pci, NEW i \in Slots, GivenBack(i), isr.at \in {"loop", "input"},
           UNCHANGED <<chip, power, stops, delivered, cur, dev, himr, c2h, incb>>,
           "stopped" \notin odd',
           Good' => Good /\ power = "running" /\ i = cur /\ ~ring[cur].own
    PROVE  IInv'
<1>1. /\ ring' = [ring EXCEPT ![i] = setup_rx_desc(ring[i], cur)]
      /\ isr' = [at |-> IF power = "running" THEN "own" ELSE "idle", idx |-> i]
  BY DEF GivenBack
<1>2. isr' \in [at : Ats, idx : Slots] /\ isr'.at = IF power = "running" THEN "own" ELSE "idle"
  BY <1>1 DEF Ats
<1>3. Buffers' /\ \E S : ring' \in Rings(S)
  BY <1>1, BackBuffers DEF IInv
<1>4. (Good => Together)'
  <2> SUFFICES ASSUME Good' PROVE Together'
    OBVIOUS
  <2>1. Together /\ i = cur /\ ~ring[cur].own /\ power = "running"
    BY DEF IInv
  <2> QED BY <1>1, <2>1, BackIInv DEF IInv
<1>5. Typed'
  BY <1>2, <1>3 DEF IInv, Typed
<1>6. Awaited' /\ EventsPolled'
  BY <1>2, EventsKept DEF IInv, Awaited
<1>7. Places'
  BY <1>2 DEF IInv, Places, Pci
<1> QED BY <1>3, <1>4, <1>5, <1>6, <1>7 DEF IInv

LEMMA DoneIInv ==
    ASSUME IInv, RxDone
    PROVE  IInv'
<1>1. /\ UNCHANGED <<chip, power, stops, cur, dev, himr, c2h, incb>>
      /\ isr.at = "loop" /\ ~ring[cur].own /\ power # "off" /\ Pci /\ "stopped" \notin odd
  BY DEF IInv, Places, RxDone, usbVars
<1>2. \/ \E pkt, no : rx_frame(pkt, no)
      \/ Recycle
  BY DEF RxDone
<1>3. CASE \E pkt, no : rx_frame(pkt, no)
  BY <1>1, <1>3, PassIInv DEF rx_frame
<1>4. CASE Recycle
  <2>1. GivenBack(cur) /\ odd' = odd \union Parted /\ UNCHANGED delivered
    BY <1>4 DEF Recycle
  <2>2. cur \in Slots
    BY DEF IInv, Typed
  <2>3. "stopped" \notin odd'
    BY <1>1, <2>1 DEF Parted
  <2>4. Good' => Good /\ power = "running"
    BY <1>1, <2>1 DEF Good, Pci, Odd, Parted
  <2> QED BY <1>1, <2>1, <2>2, <2>3, <2>4, GivenIInv
<1> QED BY <1>2, <1>3, <1>4

\* The frame is on its way up.
LEMMA InputIInv ==
    ASSUME IInv, PciPass
    PROVE  IInv'
<1>1. /\ UNCHANGED <<chip, power, stops, delivered, ring, cur, dev, hisr, himr, odd, c2h, incb>>
      /\ isr.at = "taken" /\ isr' = [isr EXCEPT !.at = "input"]
  BY DEF PciPass, usbVars
<1>2. isr' \in [at : Ats, idx : Slots] /\ isr'.at = "input" /\ isr'.idx = isr.idx
  BY <1>1 DEF IInv, Typed, Ats
<1>3. (Good => Together)'
  <2> SUFFICES ASSUME Good' PROVE Together'
    OBVIOUS
  <2>1. Together
    BY <1>1 DEF IInv, Good, Pci, Odd
  <2> QED BY <1>1, <1>2, <2>1 DEF Together, EndMarked, Window
<1>4. Buffers' /\ Awaited' /\ EventsPolled'
  BY <1>1, <1>2, BuffersKept, EventsKept DEF IInv, Awaited
<1>5. Typed' /\ Places'
  BY <1>1, <1>2 DEF IInv, Typed, Places, Pci
<1> QED BY <1>3, <1>4, <1>5 DEF IInv

\* net80211 returns; had the device been stopped, the places are apart now.
LEMMA ReturnsIInv ==
    ASSUME IInv, InputReturns
    PROVE  IInv'
<1>1. /\ UNCHANGED <<chip, power, stops, delivered, cur, dev, himr, c2h, incb>>
      /\ isr.at = "input" /\ Pci /\ isr.idx \in Slots /\ GivenBack(isr.idx)
  BY DEF IInv, Typed, Places, InputReturns, usbVars
<1>2. odd' = IF "stopped" \in odd THEN (odd \ {"stopped"}) \union {"mixed", "disorder"}
             ELSE odd \union Parted
  BY DEF InputReturns
<1>3. "stopped" \notin odd'
  BY <1>2 DEF Parted
<1>4. ASSUME Good'
      PROVE  Good /\ power = "running" /\ isr.idx = cur /\ ~ring[cur].own
  <2>1. Good /\ power = "running"
    BY <1>1, <1>2, <1>4 DEF Good, Pci, Odd, Parted
  <2> QED BY <1>1, <2>1 DEF IInv, Together
<1> QED BY <1>1, <1>3, <1>4, GivenIInv

\* The driver's place moves on, unless the device has filled it again.
LEMMA NextPlaceIInv ==
    ASSUME IInv, RxNext
    PROVE  IInv'
<1>1. /\ UNCHANGED <<chip, power, stops, delivered, ring, dev, himr, c2h, incb>>
      /\ isr.at = "own" /\ isr' = [isr EXCEPT !.at = "loop"] /\ Pci /\ power = "running"
      /\ \/ ring[isr.idx].own /\ cur' = (cur + 1) % N /\ odd' = odd
         \/ ~ring[isr.idx].own /\ cur' = cur /\ odd' = odd \union {"reused", "disorder"}
  BY DEF IInv, Places, RxNext, Advance, usbVars
<1>2. N \in Nat \ {0} /\ cur \in Slots
  BY Length DEF IInv, Typed
<1>3. (cur + 1) % N = Wrapped(cur + 1) /\ Wrapped(cur + 1) \in Slots
  <2>1. cur + 1 \in 0 .. 2 * N - 1
    BY <1>2 DEF Slots
  <2> QED BY <2>1, Wraps
<1>4. /\ isr' \in [at : Ats, idx : Slots]
      /\ isr'.at = "loop" /\ cur' \in Slots
  BY <1>1, <1>2, <1>3 DEF IInv, Typed, Ats
<1>5. (Good => Together)'
  <2> SUFFICES ASSUME Good' PROVE Together'
    OBVIOUS
  <2>1. ring[isr.idx].own /\ cur' = Wrapped(cur + 1) /\ odd' = odd
    BY <1>1, <1>3 DEF Good, Odd
  <2>2. Together /\ isr.idx = cur
    BY <1>1, <2>1 DEF IInv, Good, Pci, Odd, Together
  <2>3. PICK n \in 0 .. N - 1 : Window(Wrapped(cur + 1), n)
    BY <1>1, <1>2, <2>1, <2>2 DEF Together, AllFilled
  <2>4. (\E m \in 0 .. N : Window(cur, m))'
    <3>1. n \in 0 .. N
      BY <1>2
    <3>2. Window(cur, n)'
      BY <1>1, <2>1, <2>3 DEF Window
    <3> QED BY <3>1, <3>2
  <2> QED BY <1>1, <1>4, <2>2, <2>4 DEF Together, EndMarked
<1>6. Buffers' /\ EventsPolled' /\ Awaited'
  BY <1>1, <1>4, BuffersKept, EventsKept DEF IInv, Awaited
<1>7. Typed'
  BY <1>1, <1>4 DEF IInv, Typed
<1>8. Places'
  BY <1>1, <1>4 DEF IInv, Places, Pci
<1> QED BY <1>5, <1>6, <1>7, <1>8 DEF IInv

LEMMA ReportIInv ==
    ASSUME IInv, TxReport
    PROVE  IInv'
<1>1. CASE Pci
  <2>1. Post(ReportPacket) /\ chip = "r88ee"
    BY <1>1 DEF TxReport, Pci, PciChips, R92c
  <2> QED BY <1>1, <2>1, PostIInv
<1>2. CASE ~Pci
  <2>1. UNCHANGED <<chip, power, stops, delivered, incb, c2h, pciVars>>
    BY <1>2 DEF TxReport, UsbReport, usbVars
  <2>2. Typed' /\ EventsPolled'
    BY <2>1, EventsKept DEF IInv, Typed, pciVars
  <2> QED BY <2>1, <2>2, PciVarsKept DEF IInv, Places
<1> QED BY <1>1, <1>2

-----------------------------------------------------------------------------
(* A transfer's packets: rtwn_rxeof() finds what the transfer holds. *)

Boundary == IF chip \in {"r12au", "r21au"} THEN 8 ELSE 128

LEMMA RoundedUp ==
    ASSUME NEW x \in Nat, NEW b \in {8, 128}
    PROVE  roundup2(x, b) \in Nat /\ roundup2(x, b) >= x
<1>1. CASE b = 8
  BY <1>1 DEF roundup2
<1>2. CASE b = 128
  BY <1>2 DEF roundup2
<1> QED BY <1>1, <1>2

\* A transfer of the device's.
Packed(t) ==
    /\ Len(t.pkts) \in Nat \ {0}
    /\ \A i \in 1 .. Len(t.pkts) : t.pkts[i].len \in Nat \ {0} /\ t.pkts[i].infosz \in Nat
    /\ t.tail \in {"padded", "bare", "cut"}

LEMMA PacketLengths ==
    ASSUME NEW t, Packed(t), NEW i \in 1 .. Len(t.pkts)
    PROVE  /\ PacketLen(t.pkts[i]) \in Nat /\ PacketLen(t.pkts[i]) >= 25
           /\ DeviceAlign(PacketLen(t.pkts[i])) \in Nat
           /\ DeviceAlign(PacketLen(t.pkts[i])) >= PacketLen(t.pkts[i])
<1>1. PICK len \in Nat \ {0} : len = t.pkts[i].len
  BY DEF Packed
<1>2. PICK info \in Nat : info = t.pkts[i].infosz
  BY DEF Packed
<1>3. PICK x \in Nat : x = PacketLen(t.pkts[i]) /\ x >= 25
  BY <1>1, <1>2 DEF PacketLen, R92C_RX_STAT_LEN
<1>4. roundup2(x, 8) \in Nat /\ roundup2(x, 8) >= x /\ roundup2(x, 128) \in Nat /\ roundup2(x, 128) >= x
  BY RoundedUp
<1>5. DeviceAlign(x) \in Nat /\ DeviceAlign(x) >= x
  BY <1>4 DEF DeviceAlign
<1> QED BY <1>3, <1>5

\* Where the packets end.
LEMMA Offsets ==
    ASSUME NEW t, Packed(t)
    PROVE  /\ Offset(t) \in [0 .. Len(t.pkts) -> Nat] /\ Offset(t)[0] = 0
           /\ \A i \in 1 .. Len(t.pkts) :
                 Offset(t)[i] = Offset(t)[i - 1] + DeviceAlign(PacketLen(t.pkts[i]))
<1>1. PICK n \in Nat \ {0} : n = Len(t.pkts)
  BY DEF Packed
<1> DEFINE size(i) == DeviceAlign(PacketLen(t.pkts[i]))
<1>2. \A i \in 1 .. n : size(i) \in Nat
  BY <1>1, PacketLengths
<1> DEFINE g == [i \in 1 .. n |-> [x \in Nat |-> x + size(i)]]
           Summed(f) == f = [i \in 0 .. n |-> IF i = 0 THEN 0 ELSE f[i - 1] + size(i)]
<1> HIDE DEF size
<1>3. g \in [1 .. n -> [Nat -> Nat]]
  BY <1>2
<1>4. PICK f \in [0 .. n -> Nat] : Stepwise(f, n, 0, g)
  <2>1. n \in Nat /\ 0 \in Nat
    OBVIOUS
  <2> HIDE DEF g
  <2> QED BY <1>3, <2>1, StepByStep
<1>5. Summed(f)
  <2>1. ASSUME NEW i \in 0 .. n PROVE f[i] = IF i = 0 THEN 0 ELSE f[i - 1] + size(i)
    <3>1. f[i] = IF i = 0 THEN 0 ELSE g[i][f[i - 1]]
      <4> HIDE DEF g
      <4> QED BY <1>4 DEF Stepwise
    <3>2. ASSUME i # 0 PROVE g[i][f[i - 1]] = f[i - 1] + size(i)
      <4>1. i \in 1 .. n /\ i - 1 \in 0 .. n
        BY <3>2
      <4>2. f[i - 1] \in Nat
        BY <1>4, <4>1
      <4> QED BY <4>1, <4>2
    <3> QED BY <3>1, <3>2
  <2> QED BY <2>1, <1>4
<1>6. Offset(t) = CHOOSE e : Summed(e)
  BY <1>1 DEF Offset, size
<1>7. PICK e : e = Offset(t) /\ Summed(e)
  <2> HIDE DEF Summed
  <2> QED BY <1>5, <1>6
<1>8. e[0] = 0 /\ \A i \in 1 .. n : e[i] = e[i - 1] + size(i)
  BY <1>7
<1>9. \A i \in 0 .. n : e[i] \in Nat
  <2> DEFINE G == {i \in 0 .. n : e[i] \in Nat}
  <2>1. 0 \in G
    BY <1>8
  <2>2. \A i \in 0 .. n - 1 : i \in G => i + 1 \in G
    <3> SUFFICES ASSUME NEW i \in 0 .. n - 1, e[i] \in Nat PROVE e[i + 1] \in Nat
      OBVIOUS
    <3>1. i + 1 \in 1 .. n /\ (i + 1) - 1 = i
      OBVIOUS
    <3>2. e[i + 1] = e[i] + size(i + 1)
      BY <1>8, <3>1
    <3> QED BY <1>2, <3>1, <3>2
  <2> HIDE DEF G
  <2>3. 0 .. n \subseteq G
    BY <2>1, <2>2, CountUp
  <2> QED BY <2>3 DEF G
<1> QED BY <1>1, <1>7, <1>8, <1>9 DEF size

\* Which packets a transfer holds, one after the other.
Kept(t, noMem, i) == Copied(t.pkts[i], i, noMem) /\ ~(i = Len(t.pkts) /\ t.tail = "cut")
Holding(h, t, noMem) ==
    /\ h[0] = <<>>
    /\ \A i \in 1 .. Len(t.pkts) :
          h[i] = IF Kept(t, noMem, i) THEN Append(h[i - 1], i) ELSE h[i - 1]
    /\ \A i \in 0 .. Len(t.pkts) : h[i] \in Seq(1 .. Len(t.pkts))

LEMMA HoldsUp ==
    ASSUME NEW t, Packed(t), NEW noMem
    PROVE  \E h : Holding(h, t, noMem) /\ Holds(t, noMem) = h[Len(t.pkts)]
<1>1. PICK n \in Nat \ {0} : n = Len(t.pkts)
  BY DEF Packed
<1> DEFINE kept(i) == Kept(t, noMem, i)
           V == Seq(1 .. n)
           g == [i \in 1 .. n |-> [x \in V |-> IF kept(i) THEN Append(x, i) ELSE x]]
           Held(f) == f = [i \in 0 .. n |-> IF i = 0 THEN <<>>
                                            ELSE IF kept(i) THEN Append(f[i - 1], i) ELSE f[i - 1]]
<1>2. Holds(t, noMem) = (CHOOSE f : Held(f))[n]
  BY <1>1 DEF Holds, Kept
<1> HIDE DEF kept
<1>3. \A x \in V, i \in 1 .. n : Append(x, i) \in V
  BY AppendProperties
<1>4. <<>> \in V
  BY EmptySeq
<1> HIDE DEF V
<1>5. g \in [1 .. n -> [V -> V]]
  BY <1>3
<1>6. PICK f \in [0 .. n -> V] : Stepwise(f, n, <<>>, g)
  <2>1. n \in Nat /\ <<>> \in V
    BY <1>4
  <2> HIDE DEF g
  <2> QED BY <1>5, <2>1, StepByStep
<1>7. Held(f)
  <2>1. ASSUME NEW i \in 0 .. n
        PROVE  f[i] = IF i = 0 THEN <<>> ELSE IF kept(i) THEN Append(f[i - 1], i) ELSE f[i - 1]
    <3>1. f[i] = IF i = 0 THEN <<>> ELSE g[i][f[i - 1]]
      <4> HIDE DEF g
      <4> QED BY <1>6 DEF Stepwise
    <3>2. ASSUME i # 0 PROVE g[i][f[i - 1]] = IF kept(i) THEN Append(f[i - 1], i) ELSE f[i - 1]
      <4>1. i \in 1 .. n /\ i - 1 \in 0 .. n
        BY <3>2
      <4>2. f[i - 1] \in V
        BY <1>6, <4>1
      <4> QED BY <4>1, <4>2
    <3> QED BY <3>1, <3>2
  <2>2. f = [i \in 0 .. n |-> f[i]]
    BY <1>6
  <2> QED BY <2>1, <2>2
<1>8. PICK h : h = (CHOOSE e : Held(e)) /\ Held(h)
  <2> HIDE DEF Held
  <2> QED BY <1>7
<1>9. /\ h[0] = <<>>
      /\ \A i \in 1 .. n : h[i] = IF kept(i) THEN Append(h[i - 1], i) ELSE h[i - 1]
  <2>1. Held(h)
    BY <1>8
  <2>2. 0 \in 0 .. n /\ \A i \in 1 .. n : i \in 0 .. n /\ i # 0
    OBVIOUS
  <2> QED BY <2>1, <2>2
<1>10. \A i \in 0 .. n : h[i] \in V
  <2> DEFINE G == {i \in 0 .. n : h[i] \in V}
  <2>1. 0 \in G
    BY <1>4, <1>9
  <2>2. \A i \in 0 .. n - 1 : i \in G => i + 1 \in G
    <3> SUFFICES ASSUME NEW i \in 0 .. n - 1, h[i] \in V PROVE h[i + 1] \in V
      OBVIOUS
    <3>1. i + 1 \in 1 .. n /\ (i + 1) - 1 = i
      OBVIOUS
    <3>2. h[i + 1] = IF kept(i + 1) THEN Append(h[i], i + 1) ELSE h[i]
      BY <1>9, <3>1
    <3> QED BY <1>3, <3>1, <3>2
  <2> HIDE DEF G
  <2>3. 0 .. n \subseteq G
    BY <2>1, <2>2, CountUp
  <2> QED BY <2>3 DEF G
<1>11. Holding(h, t, noMem)
  BY <1>1, <1>9, <1>10 DEF Holding, V, kept
<1> QED BY <1>1, <1>2, <1>8, <1>11

-----------------------------------------------------------------------------
(* The walk of rtwn_rxeof(). *)

States(t) == [off : Int, len : Int, out : Seq(1 .. Len(t.pkts)), go : BOOLEAN]
Start(t) == [off |-> 0, len |-> TransferLen(t), out |-> <<>>, go |-> TRUE]
Ends(t, i, s) == \/ ~s.go \/ (s.len >= 0 /\ s.len < R92C_RX_STAT_LEN) \/ s.off # Offset(t)[i - 1]
                 \/ t.pkts[i].len = 0 \/ PacketLen(t.pkts[i]) > s.len
Taken(t, noMem, i, s) ==
    LET next == align_rx(chip, PacketLen(t.pkts[i]), s.len)
    IN IF Ends(t, i, s) THEN [s EXCEPT !.go = FALSE]
       ELSE [s EXCEPT !.off = @ + next, !.len = @ - next,
                      !.out = IF Copied(t.pkts[i], i, noMem) THEN Append(@, i) ELSE @]
Walk(f, t, noMem) ==
    f = [i \in 0 .. Len(t.pkts) |-> IF i = 0 THEN Start(t) ELSE Taken(t, noMem, i, f[i - 1])]

LEMMA WalkIs ==
    ASSUME NEW t, NEW noMem
    PROVE  rxeof(t, noMem) = (CHOOSE f : Walk(f, t, noMem))[Len(t.pkts)].out
BY DEF rxeof, Walk, Start, Taken, Ends

\* How long a transfer is: up to its last packet, and that as the tail says.
LEMMA TransferLength ==
    ASSUME NEW t, Packed(t)
    PROVE  LET n == Len(t.pkts)
               rest == TransferLen(t) - Offset(t)[n - 1]
               last == PacketLen(t.pkts[n])
           IN /\ TransferLen(t) \in Nat /\ rest >= last - 1
              /\ t.tail = "cut" => rest = last - 1
              /\ t.tail # "cut" => rest >= last
<1>1. PICK n \in Nat \ {0} : n = Len(t.pkts)
  BY DEF Packed
<1>2. PICK base \in Nat : base = Offset(t)[n - 1]
  BY <1>1, Offsets
<1>3. PICK last \in Nat : last = PacketLen(t.pkts[n]) /\ last >= 25
  BY <1>1, PacketLengths
<1>4. PICK full \in Nat : full = DeviceAlign(last) /\ full >= last
  <2>1. n \in 1 .. Len(t.pkts)
    BY <1>1
  <2> QED BY <1>3, <2>1, PacketLengths
<1>5. TransferLen(t) = base + (CASE t.tail = "padded" -> full [] t.tail = "bare" -> last
                                 [] t.tail = "cut" -> last - 1)
  BY <1>1, <1>2, <1>3, <1>4 DEF TransferLen
<1>6. t.tail \in {"padded", "bare", "cut"}
  BY DEF Packed
<1>7. /\ t.tail = "padded" => TransferLen(t) = base + full
      /\ t.tail = "bare" => TransferLen(t) = base + last
      /\ t.tail = "cut" => TransferLen(t) = base + (last - 1)
  BY <1>5
<1>8. /\ TransferLen(t) \in Nat /\ TransferLen(t) - base >= last - 1
      /\ t.tail = "cut" => TransferLen(t) - base = last - 1
      /\ t.tail # "cut" => TransferLen(t) - base >= last
  BY <1>3, <1>4, <1>6, <1>7
<1> QED BY <1>1, <1>2, <1>3, <1>8

LEMMA TakenState ==
    ASSUME NEW t, Packed(t), NEW noMem, NEW i \in 1 .. Len(t.pkts), NEW s \in States(t)
    PROVE  Taken(t, noMem, i, s) \in States(t)
<1>1. PICK x \in Nat : x = PacketLen(t.pkts[i])
  BY PacketLengths
<1>2. align_rx(chip, x, s.len) \in Int
  <2>1. s.len \in Int
    BY DEF States
  <2>2. roundup2(x, 8) \in Nat /\ roundup2(x, 128) \in Nat
    BY RoundedUp
  <2> QED BY <2>1, <2>2 DEF align_rx, r92cu_align_rx, r12au_align_rx
<1>3. PICK next \in Int : next = align_rx(chip, PacketLen(t.pkts[i]), s.len)
  BY <1>1, <1>2
<1>4. Append(s.out, i) \in Seq(1 .. Len(t.pkts))
  BY AppendProperties DEF States
<1>5. PICK out \in Seq(1 .. Len(t.pkts)) :
        out = IF Copied(t.pkts[i], i, noMem) THEN Append(s.out, i) ELSE s.out
  BY <1>4 DEF States
<1>6. Taken(t, noMem, i, s) =
        IF Ends(t, i, s) THEN [s EXCEPT !.go = FALSE]
        ELSE [s EXCEPT !.off = @ + next, !.len = @ - next, !.out = out]
  BY <1>3, <1>5 DEF Taken
<1>7. CASE Ends(t, i, s)
  <2>1. Taken(t, noMem, i, s) = [s EXCEPT !.go = FALSE]
    BY <1>6, <1>7
  <2> QED BY <2>1 DEF States
<1>8. CASE ~Ends(t, i, s)
  <2>1. Taken(t, noMem, i, s) = [s EXCEPT !.off = @ + next, !.len = @ - next, !.out = out]
    BY <1>6, <1>8
  <2>2. s \in [off : Int, len : Int, out : Seq(1 .. Len(t.pkts)), go : BOOLEAN]
    BY DEF States
  <2> DEFINE Q == Seq(1 .. Len(t.pkts))
  <2>3. s.off + next \in Int /\ s.len - next \in Int /\ out \in Q
    BY <2>2
  <2>4. s \in [off : Int, len : Int, out : Q, go : BOOLEAN]
    BY <2>2
  <2> HIDE DEF Q
  <2>5. [s EXCEPT !.off = @ + next, !.len = @ - next, !.out = out]
          \in [off : Int, len : Int, out : Q, go : BOOLEAN]
    BY <2>3, <2>4
  <2> QED BY <2>1, <2>5 DEF States, Q
<1> QED BY <1>7, <1>8

LEMMA Walked ==
    ASSUME NEW t, Packed(t), NEW noMem
    PROVE  \E w : /\ rxeof(t, noMem) = w[Len(t.pkts)].out
                  /\ w[0] = Start(t)
                  /\ \A i \in 1 .. Len(t.pkts) : w[i] = Taken(t, noMem, i, w[i - 1])
<1>1. PICK n \in Nat \ {0} : n = Len(t.pkts)
  BY DEF Packed
<1> DEFINE V == States(t)
           step(i, s) == Taken(t, noMem, i, s)
           g == [i \in 1 .. n |-> [s \in V |-> step(i, s)]]
           from == Start(t)
<1>2. \A i \in 1 .. n, s \in V : step(i, s) \in V
  BY <1>1, TakenState
<1>3. from \in V
  <2>1. TransferLen(t) \in Int
    BY TransferLength
  <2>2. <<>> \in Seq(1 .. Len(t.pkts))
    BY EmptySeq
  <2> QED BY <2>1, <2>2 DEF Start, States
<1> HIDE DEF V, step, from
<1>4. g \in [1 .. n -> [V -> V]]
  BY <1>2
<1>5. PICK f \in [0 .. n -> V] : Stepwise(f, n, from, g)
  <2>1. n \in Nat
    OBVIOUS
  <2> HIDE DEF g
  <2> QED BY <1>3, <1>4, <2>1, StepByStep
<1>6. ASSUME NEW i \in 0 .. n PROVE f[i] = IF i = 0 THEN from ELSE step(i, f[i - 1])
  <2>1. f[i] = IF i = 0 THEN from ELSE g[i][f[i - 1]]
    <3> HIDE DEF g
    <3> QED BY <1>5 DEF Stepwise
  <2>2. ASSUME i # 0 PROVE g[i][f[i - 1]] = step(i, f[i - 1])
    <3>1. i \in 1 .. n /\ i - 1 \in 0 .. n
      BY <2>2
    <3>2. f[i - 1] \in V
      BY <1>5, <3>1
    <3> QED BY <3>1, <3>2
  <2> QED BY <2>1, <2>2
<1>7. f = [i \in 0 .. n |-> IF i = 0 THEN from ELSE step(i, f[i - 1])]
  <2>1. f = [i \in 0 .. n |-> f[i]]
    BY <1>5
  <2> QED BY <1>6, <2>1
<1>8. Walk(f, t, noMem)
  BY <1>1, <1>7 DEF Walk, step, from
<1>9. PICK w : w = (CHOOSE e : Walk(e, t, noMem)) /\ Walk(w, t, noMem)
  BY <1>8
<1>10. \A i \in 0 .. n : w[i] = IF i = 0 THEN Start(t) ELSE Taken(t, noMem, i, w[i - 1])
  BY <1>1, <1>9 DEF Walk
<1>11. 0 \in 0 .. n /\ \A i \in 1 .. n : i \in 0 .. n /\ i # 0
  OBVIOUS
<1>12. w[0] = Start(t) /\ \A i \in 1 .. n : w[i] = Taken(t, noMem, i, w[i - 1])
  BY <1>10, <1>11
<1> QED BY <1>1, <1>9, <1>12, WalkIs

\* No packet is further on than a later one.
LEMMA OffsetsGrow ==
    ASSUME NEW t, Packed(t), NEW i \in 0 .. Len(t.pkts) - 1
    PROVE  Offset(t)[Len(t.pkts) - 1] >= Offset(t)[i]
<1>1. PICK n \in Nat \ {0} : n = Len(t.pkts)
  BY DEF Packed
<1>2. PICK at : at = Offset(t)
  OBVIOUS
<1>3. /\ \A k \in 0 .. n : at[k] \in Nat
      /\ \A k \in 1 .. n : at[k] >= at[k - 1]
  <2>1. at \in [0 .. n -> Nat]
    BY <1>1, <1>2, Offsets
  <2>2. ASSUME NEW k \in 1 .. n PROVE at[k] >= at[k - 1]
    <3>1. PICK a \in Nat : a = at[k - 1]
      <4>1. k - 1 \in 0 .. n
        OBVIOUS
      <4> QED BY <2>1, <4>1
    <3>2. PICK d \in Nat : d = DeviceAlign(PacketLen(t.pkts[k]))
      BY <1>1, PacketLengths
    <3>3. at[k] = a + d
      BY <1>1, <1>2, <3>1, <3>2, Offsets
    <3> QED BY <3>1, <3>3
  <2> QED BY <2>1, <2>2
<1> DEFINE G == {k \in 0 .. n - 1 : k >= i => at[k] >= at[i]}
<1>4. 0 \in G
  <2>1. 0 >= i => i = 0
    BY <1>1
  <2>2. at[0] \in Nat
    BY <1>3
  <2> QED BY <2>1, <2>2
<1>5. \A k \in 0 .. (n - 1) - 1 : k \in G => k + 1 \in G
  <2> SUFFICES ASSUME NEW k \in 0 .. (n - 1) - 1, k >= i => at[k] >= at[i]
               PROVE  k + 1 >= i => at[k + 1] >= at[i]
    OBVIOUS
  <2>1. k + 1 \in 1 .. n /\ (k + 1) - 1 = k /\ k \in 0 .. n /\ k + 1 \in 0 .. n /\ i \in 0 .. n
    BY <1>1
  <2>2. at[k + 1] >= at[k] /\ at[k] \in Nat /\ at[k + 1] \in Nat /\ at[i] \in Nat
    <3>1. at[k + 1] >= at[(k + 1) - 1]
      BY <1>3, <2>1
    <3> QED BY <1>3, <2>1, <3>1
  <2>3. k + 1 >= i => k >= i \/ k + 1 = i
    BY <1>1
  <2> QED BY <2>2, <2>3
<1> HIDE DEF G
<1>6. n - 1 \in Nat /\ n - 1 \in 0 .. n - 1 /\ n - 1 >= i
  BY <1>1
<1>7. 0 .. n - 1 \subseteq G
  <2> DEFINE m == n - 1
  <2>1. m \in Nat /\ \A k \in 0 .. m - 1 : k \in G => k + 1 \in G
    BY <1>5, <1>6
  <2> HIDE DEF m
  <2>2. 0 .. m \subseteq G
    BY <1>4, <2>1, CountUp
  <2> QED BY <2>2 DEF m
<1>8. n - 1 \in G
  BY <1>6, <1>7
<1> QED BY <1>1, <1>2, <1>6, <1>8 DEF G

LEMMA AlignIs ==
    ASSUME chip \in ChipNames, ~Pci, NEW x \in Nat, NEW len \in Int, x < len
    PROVE  align_rx(chip, x, len) = DeviceAlign(x)
BY DEF ChipNames, Pci, PciChips, align_rx, r92cu_align_rx, r12au_align_rx, DeviceAlign

\* A packet that fits and lies where the walk is.
Fields == {"off", "len", "out", "go"}
Fits(t, i, s) ==
    /\ DOMAIN s = Fields
    /\ s.go = TRUE /\ s.off = Offset(t)[i - 1] /\ s.len \in Int /\ s.len >= PacketLen(t.pkts[i])
Further(t, noMem, i, s, r) ==
    LET next == align_rx(chip, PacketLen(t.pkts[i]), s.len)
    IN /\ DOMAIN r = Fields
       /\ r.off = s.off + next /\ r.len = s.len - next /\ r.go = TRUE
       /\ r.out = IF Copied(t.pkts[i], i, noMem) THEN Append(s.out, i) ELSE s.out
LEMMA TakesOne ==
    ASSUME NEW t, Packed(t), NEW noMem, NEW i \in 1 .. Len(t.pkts), NEW s, Fits(t, i, s)
    PROVE  Further(t, noMem, i, s, Taken(t, noMem, i, s))
<1>1. PICK x \in Nat : x = PacketLen(t.pkts[i]) /\ x >= 25
  BY PacketLengths
<1>2. PICK plen \in Nat \ {0} : plen = t.pkts[i].len
  BY DEF Packed
<1>3. ~Ends(t, i, s)
  <2>1. ~(PacketLen(t.pkts[i]) > s.len) /\ ~(s.len >= 0 /\ s.len < R92C_RX_STAT_LEN)
    BY <1>1 DEF Fits, R92C_RX_STAT_LEN
  <2> QED BY <1>2, <2>1 DEF Fits, Ends
<1>4. PICK next : next = align_rx(chip, PacketLen(t.pkts[i]), s.len)
  OBVIOUS
<1>5. PICK more : more = IF Copied(t.pkts[i], i, noMem) THEN Append(s.out, i) ELSE s.out
  OBVIOUS
<1>6. Taken(t, noMem, i, s) = [s EXCEPT !.off = @ + next, !.len = @ - next, !.out = more]
  BY <1>3, <1>4, <1>5 DEF Taken
<1>7. PICK r : r = Taken(t, noMem, i, s)
  OBVIOUS
<1>8. /\ DOMAIN r = Fields
      /\ r.off = s.off + next /\ r.len = s.len - next /\ r.go = s.go /\ r.out = more
  BY <1>6, <1>7 DEF Fits, Fields
<1> QED BY <1>4, <1>5, <1>7, <1>8 DEF Fits, Further

\* rtwn_rxeof() finds the complete and sound frames of a transfer, whatever the
\* transfer's end is, and no more.
LEMMA WholePackets ==
    ASSUME chip \in ChipNames, ~Pci, NEW t, Packed(t), NEW noMem
    PROVE  rxeof(t, noMem) = Holds(t, noMem) /\ rxeof(t, noMem) \in Seq(1 .. Len(t.pkts))
<1>1. PICK n \in Nat \ {0} : n = Len(t.pkts)
  BY DEF Packed
<1>2. PICK at : /\ at = Offset(t) /\ at \in [0 .. n -> Nat] /\ at[0] = 0
                /\ \A i \in 1 .. n : at[i] = at[i - 1] + DeviceAlign(PacketLen(t.pkts[i]))
  BY <1>1, Offsets
<1>3. PICK T \in Nat : T = TransferLen(t)
  BY TransferLength
<1>4. PICK last \in Nat :
        /\ last = PacketLen(t.pkts[n]) /\ last >= 25 /\ T - at[n - 1] >= last - 1
        /\ t.tail = "cut" => T - at[n - 1] = last - 1
        /\ t.tail # "cut" => T - at[n - 1] >= last
  <2>1. n \in 1 .. Len(t.pkts)
    BY <1>1
  <2> QED BY <1>1, <1>2, <1>3, <2>1, PacketLengths, TransferLength
<1>5. PICK w : /\ rxeof(t, noMem) = w[n].out /\ w[0] = Start(t)
               /\ \A i \in 1 .. n : w[i] = Taken(t, noMem, i, w[i - 1])
  <2>1. \E w : /\ rxeof(t, noMem) = w[Len(t.pkts)].out
               /\ w[0] = Start(t)
               /\ \A i \in 1 .. Len(t.pkts) : w[i] = Taken(t, noMem, i, w[i - 1])
    BY Walked
  <2> QED BY <1>1, <2>1
<1>6. PICK h : Holding(h, t, noMem) /\ Holds(t, noMem) = h[n]
  BY <1>1, HoldsUp
<1>7. /\ h[0] = <<>>
      /\ \A i \in 1 .. n : h[i] = IF Kept(t, noMem, i) THEN Append(h[i - 1], i) ELSE h[i - 1]
      /\ \A i \in 0 .. n : h[i] \in Seq(1 .. n)
  BY <1>1, <1>6 DEF Holding
<1> DEFINE At(i) == /\ DOMAIN w[i] = Fields
                    /\ w[i].off = at[i] /\ w[i].len = T - at[i] /\ w[i].out = h[i]
                    /\ w[i].go = TRUE
           G == {i \in 0 .. n - 1 : At(i)}
<1>8. 0 \in G
  <2>1. 0 \in 0 .. n - 1 /\ T - at[0] = T
    BY <1>2
  <2>2. /\ DOMAIN w[0] = Fields
        /\ w[0].off = 0 /\ w[0].len = T /\ w[0].out = <<>> /\ w[0].go = TRUE
    BY <1>3, <1>5 DEF Start, Fields
  <2> QED BY <1>2, <1>7, <2>1, <2>2
<1>9. ASSUME NEW i \in 0 .. (n - 1) - 1, At(i)
      PROVE  At(i + 1)
  <2>1. i + 1 \in 1 .. n /\ (i + 1) - 1 = i /\ i + 1 # n /\ i \in 0 .. n /\ i + 1 \in 0 .. n
        /\ n - 1 \in 0 .. n
    OBVIOUS
  <2>2. PICK x \in Nat : x = PacketLen(t.pkts[i + 1]) /\ x >= 25
    BY <1>1, <2>1, PacketLengths
  <2>3. PICK d \in Nat : d = DeviceAlign(x) /\ d >= x
    BY <1>1, <2>1, <2>2, PacketLengths
  <2>4. PICK a \in Nat : a = at[i]
    BY <1>2, <2>1
  <2>5. at[i + 1] = a + d
    BY <1>2, <2>1, <2>2, <2>3, <2>4
  <2>6. PICK z \in Nat : z = at[n - 1] /\ z >= a + d
    <3>1. i + 1 \in 0 .. Len(t.pkts) - 1
      BY <1>1
    <3>2. at[n - 1] >= at[i + 1]
      BY <1>1, <1>2, <3>1, OffsetsGrow
    <3> QED BY <1>2, <2>1, <2>5, <3>2
  <2>7. T - a > x /\ T - a \in Int
    BY <1>4, <2>2, <2>3, <2>6
  <2>8. align_rx(chip, x, T - a) = d
    BY <2>3, <2>7, AlignIs
  <2>9. Kept(t, noMem, i + 1) <=> Copied(t.pkts[i + 1], i + 1, noMem)
    BY <1>1, <2>1 DEF Kept
  <2>10. PICK len \in Int : len = T - a
    BY <2>7
  <2>11. PICK k \in 1 .. Len(t.pkts) : k = i + 1 /\ k - 1 = i
    BY <1>1, <2>1
  <2>12. PICK s : s = w[i]
    OBVIOUS
  <2>13. h[k] = IF Copied(t.pkts[k], k, noMem) THEN Append(h[i], k) ELSE h[i]
    BY <1>7, <2>1, <2>9, <2>11
  <2>14. w[k] = Taken(t, noMem, k, s)
    BY <1>5, <2>1, <2>11, <2>12
  <2>15. len - d = T - at[k] /\ at[k] = a + d
    BY <2>5, <2>10, <2>11
  <2>16. /\ DOMAIN s = Fields
         /\ s.off = a /\ s.len = len /\ s.out = h[i] /\ s.go = TRUE
    BY <1>9, <2>4, <2>10, <2>12
  <2>17. Fits(t, k, s)
    BY <1>2, <2>2, <2>4, <2>7, <2>10, <2>11, <2>16 DEF Fits
  <2>18. align_rx(chip, PacketLen(t.pkts[k]), s.len) = d
    BY <2>2, <2>8, <2>10, <2>11, <2>16
  <2>19. /\ DOMAIN w[k] = Fields
         /\ w[k].off = s.off + d /\ w[k].len = s.len - d /\ w[k].go = TRUE
         /\ w[k].out = IF Copied(t.pkts[k], k, noMem) THEN Append(s.out, k) ELSE s.out
    <3>1. Further(t, noMem, k, s, w[k])
      BY <2>14, <2>17, TakesOne
    <3> QED BY <2>18, <3>1 DEF Further
  <2>20. At(k)
    BY <2>13, <2>15, <2>16, <2>19
  <2> QED BY <2>11, <2>20
<1>10. At(n - 1)
  <2> DEFINE m == n - 1
  <2>1. \A i \in 0 .. m - 1 : i \in G => i + 1 \in G
    <3> SUFFICES ASSUME NEW i \in 0 .. (n - 1) - 1, At(i)
                 PROVE  i + 1 \in 0 .. n - 1 /\ At(i + 1)
      OBVIOUS
    <3> HIDE DEF At
    <3> QED BY <1>9
  <2>2. m \in Nat /\ m \in 0 .. m
    OBVIOUS
  <2> HIDE DEF m, G
  <2>3. 0 .. m \subseteq G
    BY <1>8, <2>1, <2>2, CountUp
  <2>4. m \in G
    BY <2>2, <2>3
  <2> HIDE DEF At
  <2> QED BY <2>4 DEF m, G
<1>11. n \in 1 .. n /\ n - 1 \in 0 .. n /\ n \in 0 .. n
  OBVIOUS
<1>12. PICK len \in Int : len = T - at[n - 1]
  <2>1. at[n - 1] \in Nat
    BY <1>2, <1>11
  <2> QED BY <2>1
<1>13. PICK s : /\ s = w[n - 1] /\ DOMAIN s = Fields /\ s.off = Offset(t)[n - 1]
                /\ s.len = len /\ s.out = h[n - 1] /\ s.go = TRUE
  BY <1>2, <1>10, <1>12
<1>14. w[n].out = h[n]
  <2>1. w[n] = Taken(t, noMem, n, s)
    BY <1>5, <1>11, <1>13
  <2>2. CASE t.tail = "cut"
    <3>1. Ends(t, n, s)
      <4>1. s.len = len /\ len = last - 1
        BY <1>4, <1>12, <1>13, <2>2
      <4>2. PacketLen(t.pkts[n]) > s.len
        BY <1>4, <4>1
      <4> QED BY <4>2 DEF Ends
    <3>2. w[n] = [s EXCEPT !.go = FALSE]
      BY <2>1, <3>1 DEF Taken
    <3>3. w[n].out = h[n - 1]
      BY <1>13, <3>2 DEF Fields
    <3>4. h[n] = h[n - 1]
      BY <1>1, <1>7, <1>11, <2>2 DEF Kept
    <3> QED BY <3>3, <3>4
  <2>3. CASE t.tail # "cut"
    <3>1. len >= PacketLen(t.pkts[n]) /\ n \in 1 .. Len(t.pkts)
      BY <1>1, <1>4, <1>11, <1>12, <2>3
    <3>2. w[n].out = IF Copied(t.pkts[n], n, noMem) THEN Append(h[n - 1], n) ELSE h[n - 1]
      <4>1. Fits(t, n, s)
        BY <1>13, <3>1 DEF Fits
      <4>2. Further(t, noMem, n, s, Taken(t, noMem, n, s))
        BY <3>1, <4>1, TakesOne
      <4> QED BY <1>13, <2>1, <4>2 DEF Further
    <3>3. Kept(t, noMem, n) <=> Copied(t.pkts[n], n, noMem)
      BY <2>3 DEF Kept
    <3> QED BY <1>7, <1>11, <3>2, <3>3
  <2> QED BY <2>2, <2>3
<1> QED BY <1>1, <1>5, <1>6, <1>7, <1>11, <1>14

-----------------------------------------------------------------------------
(* The signal. *)

LEMMA ByteSigned ==
    ASSUME NEW x \in Int
    PROVE  Int8(x) \in -128 .. 127
BY DEF Int8

LEMMA LeastOfTwo ==
    ASSUME NEW a \in Int, NEW b \in Int
    PROVE  Min({a, b}) = IF a <= b THEN a ELSE b
<1>1. ASSUME a <= b PROVE Min({a, b}) = a
  <2>1. \A x \in {a, b} : x <= a => x = a
    BY <1>1
  <2> QED BY <1>1, <2>1 DEF Min
<1>2. ASSUME ~(a <= b) PROVE Min({a, b}) = b
  <2>1. b <= a /\ \A x \in {a, b} : x <= b => x = b
    BY <1>2
  <2> QED BY <2>1 DEF Min
<1> QED BY <1>1, <1>2

LEMMA CckOfR92c ==
    ASSUME NEW agc \in 0 .. 255
    PROVE  r92c_get_rssi_cck(agc, FALSE) \in -128 .. 127
<1>1. agc \div 64 \in 0 .. 3 /\ 2 * ((agc \div 2) % 32) \in Nat
  OBVIOUS
<1>2. PICK rpt \in 0 .. 3 : rpt = agc \div 64
  BY <1>1
<1>3. PICK gain \in Nat : gain = 2 * ((agc \div 2) % 32)
  BY <1>1
<1>4. <<16, -12, -26, -46>>[rpt + 1] \in Int
  <2>1. rpt = 0 \/ rpt = 1 \/ rpt = 2 \/ rpt = 3
    OBVIOUS
  <2>2. PICK off : off = <<16, -12, -26, -46>>
    OBVIOUS
  <2>3. off[1] = 16 /\ off[2] = -12 /\ off[3] = -26 /\ off[4] = -46
    BY <2>2
  <2>4. off[rpt + 1] \in Int
    BY <2>1, <2>3
  <2> QED BY <2>2, <2>4
<1>5. PICK x \in Int : x = <<16, -12, -26, -46>>[rpt + 1] - gain
  BY <1>4
<1>6. r92c_get_rssi_cck(agc, FALSE) = Int8(x)
  BY <1>2, <1>3, <1>5 DEF r92c_get_rssi_cck
<1>7. PICK r : r = r92c_get_rssi_cck(agc, FALSE)
  OBVIOUS
<1>8. r = Int8(x)
  BY <1>6, <1>7
<1>9. r \in -128 .. 127
  BY <1>8, ByteSigned
<1> QED BY <1>7, <1>9

LEMMA CckOfR88e ==
    ASSUME NEW agc \in 0 .. 255
    PROVE  r88e_get_rssi_cck(agc, FALSE) \in -128 .. 127
<1>1. PICK lna \in 0 .. 7 : lna = agc \div 32
  OBVIOUS
<1>2. PICK vga \in 0 .. 31 : vga = agc % 32
  OBVIOUS
<1>3. PICK y \in Int : y = 6 - 2 * vga
  OBVIOUS
<1>4. PICK x : x = CASE lna = 7 -> IF vga > 27 THEN -94 ELSE y - 46
                     [] lna = 6 -> y - 44 [] lna = 5 -> y - 28 [] lna = 4 -> y - 22
                     [] lna = 3 -> y - 10 [] lna = 2 -> y + 4 [] lna = 1 -> y + 8
                     [] lna = 0 -> y + 14
  OBVIOUS
<1>5. x \in Int
  <2>1. CASE lna \in {0, 1, 2, 3}
    BY <1>4, <2>1
  <2>2. CASE lna \in {4, 5, 6}
    BY <1>4, <2>2
  <2>3. CASE lna = 7
    BY <1>4, <2>3
  <2> QED BY <2>1, <2>2, <2>3
<1>6. r88e_get_rssi_cck(agc, FALSE) = Int8(x)
  BY <1>1, <1>2, <1>3, <1>4 DEF r88e_get_rssi_cck
<1>7. PICK r : r = r88e_get_rssi_cck(agc, FALSE)
  OBVIOUS
<1>8. r = Int8(x)
  BY <1>6, <1>7
<1>9. r \in -128 .. 127
  BY <1>5, <1>8, ByteSigned
<1> QED BY <1>7, <1>9

LEMMA CckOfR21a ==
    ASSUME NEW agc \in 0 .. 255
    PROVE  r21a_get_rssi_cck(agc) \in -128 .. 127
<1>1. PICK lna \in 0 .. 7 : lna = agc \div 32
  OBVIOUS
<1>2. PICK vga \in 0 .. 31 : vga = agc % 32
  OBVIOUS
<1>3. PICK x \in Int : x = -6 - 2 * vga + (CASE lna = 5 -> -32 [] lna = 4 -> -24 [] lna = 2 -> -11
                                     [] lna = 1 -> 5 [] lna = 0 -> 21 [] OTHER -> 0)
  OBVIOUS
<1>4. r21a_get_rssi_cck(agc) = Int8(x)
  BY <1>1, <1>2, <1>3 DEF r21a_get_rssi_cck
<1> QED BY <1>4, ByteSigned

LEMMA SignalByte ==
    ASSUME chip \in ChipNames, NEW rate \in Nat, NEW agc \in 0 .. 255
    PROVE  rtwn_get_rssi(chip, rate, agc, FALSE) \in -128 .. 127
<1>1. r92c_get_rssi_ofdm(agc) \in -128 .. 127 /\ r88e_get_rssi_ofdm(agc) \in -128 .. 127
  BY DEF r92c_get_rssi_ofdm, r88e_get_rssi_ofdm
<1> QED BY <1>1, CckOfR92c, CckOfR88e, CckOfR21a DEF rtwn_get_rssi, ChipNames

LEMMA SignalPercent ==
    ASSUME NEW rssi \in -128 .. 127, NEW rate \in Nat
    PROVE  pwdb_of(rssi, rate) \in 0 .. 100
<1>1. PICK pwdb \in 0 .. 100 :
        pwdb = IF rssi <= -100 \/ rssi >= 20 THEN 0 ELSE IF rssi >= 0 THEN 100 ELSE 100 + rssi
  OBVIOUS
<1>2. PICK cck \in 6 .. 100 : cck = Min({pwdb + 6, 100})
  BY LeastOfTwo
<1>3. pwdb_of(rssi, rate) =
        IF ~IsCck(rate) THEN pwdb
        ELSE cck - (CASE cck <= 14 -> 4 [] cck > 14 /\ cck <= 26 -> 8
                      [] cck > 26 /\ cck <= 34 -> 6 [] cck > 34 /\ cck <= 42 -> 2 [] OTHER -> 0)
  BY <1>1, <1>2 DEF pwdb_of
<1> QED BY <1>3

LEMMA SignalAverage ==
    ASSUME NEW avg \in -1 .. 100, NEW pwdb \in 0 .. 100
    PROVE  rtwn_update_avgrssi(avg, pwdb) \in 0 .. 100
<1>1. CASE avg = -1
  BY <1>1 DEF rtwn_update_avgrssi
<1>2. CASE avg # -1
  <2>1. PICK q \in Int : q = (avg * 19 + pwdb) \div 20 /\ q >= 0 /\ 20 * q <= avg * 19 + pwdb
    BY <1>2
  <2>2. rtwn_update_avgrssi(avg, pwdb) = q + (IF avg < pwdb THEN 1 ELSE 0)
    BY <1>2, <2>1 DEF rtwn_update_avgrssi
  <2> QED BY <1>2, <2>1, <2>2
<1> QED BY <1>1, <1>2

LEMMA HeardRight ==
    ASSUME chip \in ChipNames, SignalInRange, NEW pkt, Received(pkt), Heard(pkt)
    PROVE  SignalInRange'
<1>1. CASE node' = node
  BY <1>1 DEF SignalInRange
<1>2. CASE node' # node
  <2>1. PICK rate \in Nat : rate = pkt.rate
    BY DEF Received
  <2>2. PICK agc \in 0 .. 255 : agc = pkt.agc
    BY DEF Received
  <2>3. PICK rssi \in -128 .. 127 : rssi = rtwn_get_rssi(chip, rate, agc, FALSE)
    BY SignalByte
  <2>4. PICK pwdb \in 0 .. 100 : pwdb = pwdb_of(rssi, rate)
    BY SignalPercent
  <2>5. PICK avg \in 0 .. 100 : avg = rtwn_update_avgrssi(node.avg_pwdb, pwdb)
    BY SignalAverage DEF SignalInRange
  <2>6. node' = [last_rssi |-> rssi, avg_pwdb |-> avg]
    BY <1>2, <2>1, <2>2, <2>3, <2>4, <2>5 DEF Heard, rtwn_rx_common
  <2> QED BY <2>6 DEF SignalInRange
<1> QED BY <1>1, <1>2

-----------------------------------------------------------------------------
(* The order of the frames. *)

\* Where the driver goes on when its round is over, and how far a descriptor is
\* from there.
Round == IF isr.at = "own" THEN Wrapped(cur + 1) ELSE cur
Place(first, i) == IF first <= i THEN i - first ELSE i - first + N

\* The descriptors with a frame that was not passed up yet.
Waiting(i) == ~ring[i].own /\ ~(isr.at \in {"taken", "input"} /\ i = cur)

\* The numbers of the frames, in the ring and passed up.
Numbers ==
    /\ posted \in Nat
    /\ \A k \in DOMAIN delivered : delivered[k].no \in 0 .. posted
    /\ \A i \in Slots : ~ring[i].own => ring[i].got.no \in 0 .. posted /\ Received(ring[i].got.pkt)
Increasing == \A j, k \in DOMAIN delivered : j < k => delivered[j].no < delivered[k].no
\* The frames of the ring are later than those passed up, and each is later
\* than those that the driver comes to before it.
Coming ==
    /\ \A i, j \in Slots :
          ~ring[i].own /\ ~ring[j].own /\ Place(Round, i) < Place(Round, j) =>
              ring[i].got.no < ring[j].got.no
    /\ \A i \in Slots, k \in DOMAIN delivered : Waiting(i) => delivered[k].no < ring[i].got.no

InOrder ==
    Pci => /\ Numbers
           /\ Odd({"mixed", "reused"}) =>
                 "disorder" \in odd \/ (power = "draining" /\ ring[cur].own /\ ~isr.at \in {"taken", "input"})
           /\ "disorder" \notin odd => Increasing /\ (Good => Coming)

\* What was passed up and what the running callback has yet to pass up.
Up == [k \in DOMAIN delivered |-> delivered[k].no]
Listed ==
    ~Pci => /\ posted \in Nat
            /\ Up \in Seq(Nat) /\ chain \in Seq(Nat) /\ due \in Seq(Nat)
            /\ Up \o chain = due
            /\ ~incb => chain = <<>>

Passing == chip \in ChipNames /\ InOrder /\ Listed /\ SignalInRange

LEMMA PlaceOf ==
    ASSUME NEW first \in Slots
    PROVE  /\ Place(first, first) = 0
           /\ \A i \in Slots : Place(first, i) \in 0 .. N - 1 /\ (i # first => Place(first, i) > 0)
           /\ \A n \in 0 .. N, i \in Slots : InWindow(first, n, i) => Place(first, i) < n
           /\ \A n \in 0 .. N - 1 : Place(first, Wrapped(first + n)) = n
           /\ \A i \in Slots : i # first => Place(Wrapped(first + 1), i) = Place(first, i) - 1
BY Length DEF Slots, Place, InWindow, Wrapped

\* The order is about the ring, the driver's place in it and what was passed up.
LEMMA OrderKept ==
    ASSUME InOrder, UNCHANGED <<chip, ring, cur, delivered>>,
           posted \in Nat => posted' \in Nat /\ posted' >= posted,
           \/ isr'.at = isr.at
           \/ {isr.at, isr'.at} \subseteq {"idle", "loop", "end"}
           \/ {isr.at, isr'.at} \subseteq {"taken", "input"},
           Good' => Good, "disorder" \in odd <=> "disorder" \in odd',
           Odd({"mixed", "reused"})' => Odd({"mixed", "reused"}),
           power = "draining" => power' = "draining"
    PROVE  InOrder'
<1> SUFFICES ASSUME Pci PROVE /\ Numbers'
                              /\ (Odd({"mixed", "reused"}) =>
                                     "disorder" \in odd
                                     \/ (power = "draining" /\ ring[cur].own
                                         /\ ~(isr.at \in {"taken", "input"})))'
                              /\ ("disorder" \notin odd => Increasing /\ (Good => Coming))'
  BY DEF InOrder, Pci
<1>1. Numbers'
  <2>1. Numbers
    BY DEF InOrder
  <2>2. posted' \in Nat /\ \A n \in 0 .. posted : n \in 0 .. posted'
    BY <2>1 DEF Numbers
  <2>3. \A k \in DOMAIN delivered' : delivered'[k].no \in 0 .. posted'
    BY <2>1, <2>2, Zenon DEF Numbers
  <2>4. \A i \in Slots : ~ring'[i].own => ring'[i].got.no \in 0 .. posted' /\ Received(ring'[i].got.pkt)
    BY <2>1, <2>2, Zenon DEF Numbers
  <2>5. \A p : Received(p)' <=> Received(p)
    BY DEF Received
  <2> QED BY <2>2, <2>3, <2>4, <2>5, Zenon DEF Numbers
<1>2. Increasing => Increasing'
  BY DEF Increasing
<1>3. /\ isr'.at = "own" <=> isr.at = "own"
      /\ isr'.at \in {"taken", "input"} <=> isr.at \in {"taken", "input"}
  OBVIOUS
<1>4. Coming => Coming'
  BY <1>3 DEF Coming, Round, Place, Waiting, Wrapped
<1> QED BY <1>1, <1>2, <1>4 DEF InOrder

\* A new frame is later than all others, and behind them.
LEMMA FillOrder ==
    ASSUME IInv, InOrder, Pci, power \in {"on", "running"},
           UNCHANGED <<chip, power, delivered, cur, isr, odd>>,
           dev \in Slots, ring[dev].own, NEW pkt, Received(pkt), posted' = posted + 1,
           ring' = [ring EXCEPT ![dev].own = FALSE,
                                ![dev].got = [no |-> posted + 1, pkt |-> pkt]]
    PROVE  InOrder'
<1>1. PICK S : ring \in Rings(S)
  BY DEF IInv, Typed
<1>2. /\ Numbers /\ cur \in Slots /\ N \in Nat \ {0}
      /\ posted \in Nat /\ posted' \in Nat
  BY Length DEF IInv, Typed, InOrder, Numbers
<1>3. /\ ~ring'[dev].own /\ ring'[dev].got.no = posted + 1 /\ ring'[dev].got.pkt = pkt
      /\ \A i \in Slots : i # dev => ring'[i] = ring[i]
  BY <1>1 DEF Rings
<1>4. Numbers'
  <2>1. 0 .. posted \subseteq 0 .. posted' /\ posted + 1 \in 0 .. posted'
    BY <1>2
  <2>2. \A k \in DOMAIN delivered' : delivered'[k].no \in 0 .. posted'
    BY <1>2, <2>1 DEF Numbers
  <2>3. ASSUME NEW i \in Slots, ~ring'[i].own
        PROVE  ring'[i].got.no \in 0 .. posted' /\ Received(ring'[i].got.pkt)
    <3>1. CASE i = dev
      BY <1>3, <2>1, <3>1
    <3>2. CASE i # dev
      BY <1>2, <1>3, <2>1, <2>3, <3>2 DEF Numbers
    <3> QED BY <3>1, <3>2
  <2> QED BY <1>2, <2>2, <2>3 DEF Numbers, Received
<1>5. Increasing => Increasing'
  BY DEF Increasing
<1>6. ASSUME Good, Coming PROVE Coming'
  <2>1. Together
    BY <1>6 DEF IInv
  <2>2. PICK first \in Slots : first = Round /\ Round' = first
    <3>1. cur + 1 \in 0 .. 2 * N - 1
      BY <1>2 DEF Slots
    <3> QED BY <1>2, <3>1, Wraps DEF Round, Wrapped
  <2>3. PICK n \in 0 .. N - 1 : Window(first, n)
    <3>1. CASE isr.at = "own"
      BY <2>1, <2>2, <3>1 DEF Together, AllFilled, Round
    <3>2. CASE isr.at # "own"
      <4>1. first = cur
        BY <2>2, <3>2 DEF Round
      <4>2. PICK n \in 0 .. N : Window(first, n)
        BY <2>1, <3>2, <4>1 DEF Together
      <4>3. n # N
        BY <4>2, WindowEnds DEF Window
      <4>4. n \in 0 .. N - 1
        BY <1>2, <4>3
      <4> QED BY <4>2, <4>4
    <3> QED BY <3>1, <3>2
  <2>4. Place(first, dev) = n
    BY <2>3, PlaceOf DEF Window
  <2>5. ASSUME NEW i \in Slots, ~ring[i].own PROVE Place(first, i) < n
    <3>1. n \in 0 .. N /\ InWindow(first, n, i)
      BY <1>2, <2>3, <2>5 DEF Window
    <3> QED BY <3>1, PlaceOf
  <2>6. ASSUME NEW i \in Slots, NEW j \in Slots, ~ring'[i].own, ~ring'[j].own,
               Place(first, i) < Place(first, j)
        PROVE  ring'[i].got.no < ring'[j].got.no
    <3>1. CASE i # dev /\ j # dev
      BY <1>3, <1>6, <2>2, <2>6, <3>1 DEF Coming
    <3>2. CASE i # dev /\ j = dev
      <4>1. ring[i].got.no \in 0 .. posted
        BY <1>2, <1>3, <2>6, <3>2 DEF Numbers
      <4>2. PICK a \in 0 .. posted : a = ring'[i].got.no
        BY <1>3, <3>2, <4>1
      <4>3. ring'[j].got.no = posted + 1
        BY <1>3, <3>2
      <4> QED BY <1>2, <4>2, <4>3
    <3>3. CASE i = dev /\ j # dev
      <4>1. Place(first, j) < n /\ Place(first, j) \in 0 .. N - 1
        BY <1>3, <2>5, <2>6, <3>3, PlaceOf
      <4> QED BY <1>2, <2>4, <2>6, <3>3, <4>1
    <3>4. CASE i = dev /\ j = dev
      <4>1. n < n
        BY <2>4, <2>6, <3>4
      <4> QED BY <1>2, <4>1
    <3> QED BY <3>1, <3>2, <3>3, <3>4
  <2>7. ASSUME NEW i \in Slots, NEW k \in DOMAIN delivered, ~ring'[i].own,
               ~(isr.at \in {"taken", "input"} /\ i = cur)
        PROVE  delivered[k].no < ring'[i].got.no
    <3>1. CASE i # dev
      BY <1>3, <1>6, <2>7, <3>1 DEF Coming, Waiting
    <3>2. CASE i = dev
      <4>1. delivered[k].no \in 0 .. posted
        BY <1>2 DEF Numbers
      <4> QED BY <1>2, <1>3, <3>2, <4>1
    <3> QED BY <3>1, <3>2
  <2>8. \A i, j \in Slots :
           ~ring'[i].own /\ ~ring'[j].own /\ Place(first, i) < Place(first, j) =>
              ring'[i].got.no < ring'[j].got.no
    BY <2>6
  <2>9. \A i \in Slots, k \in DOMAIN delivered' :
           Waiting(i)' => delivered'[k].no < ring'[i].got.no
    BY <2>7 DEF Waiting
  <2> QED BY <2>2, <2>8, <2>9 DEF Coming, Place
<1> QED BY <1>4, <1>5, <1>6 DEF InOrder, Good, Pci, Odd

\* The driver takes the frame that it comes to next.
LEMMA PassOrder ==
    ASSUME IInv, InOrder, Pci, isr.at = "loop", ~ring[cur].own, power # "off",
           UNCHANGED <<chip, posted, cur, odd>>, NEW b,
           ring' = [ring EXCEPT ![cur].buf = b],
           delivered' = Append(delivered, [no |-> ring[cur].got.no, buf |-> ring[cur].buf]),
           isr' = [at |-> "taken", idx |-> cur]
    PROVE  InOrder'
<1>1. PICK S : ring \in Rings(S)
  BY DEF IInv, Typed
<1>2. PICK D : delivered \in Seq(D)
  BY DEF IInv, Typed
<1>3. cur \in Slots /\ Numbers
  BY DEF IInv, Typed, InOrder
<1>4. \A i \in Slots : ring'[i].own = ring[i].own /\ ring'[i].got = ring[i].got
  BY <1>1 DEF Rings
<1>5. PICK e : e = [no |-> ring[cur].got.no, buf |-> ring[cur].buf]
  OBVIOUS
<1>6. /\ DOMAIN delivered = 1 .. Len(delivered) /\ Len(delivered) \in Nat
      /\ DOMAIN delivered' = 1 .. Len(delivered) + 1
      /\ \A k \in 1 .. Len(delivered) : delivered'[k] = delivered[k]
      /\ delivered'[Len(delivered) + 1] = e
  BY <1>2, <1>5, AppendAny
<1>7. PICK no \in Nat : no = ring[cur].got.no /\ no \in 0 .. posted
  BY <1>3 DEF Numbers
<1>8. PICK m \in Nat : m = Len(delivered)
  BY <1>6
<1>9. \A k \in DOMAIN delivered' :
         (k \in 1 .. m /\ delivered'[k].no = delivered[k].no) \/ (k = m + 1 /\ delivered'[k].no = no)
  BY <1>5, <1>6, <1>7, <1>8
<1>10. Numbers'
  <2>1. \A k \in DOMAIN delivered' : delivered'[k].no \in 0 .. posted
    BY <1>3, <1>6, <1>7, <1>8, <1>9 DEF Numbers
  <2> QED BY <1>3, <1>4, <2>1 DEF Numbers, Received
<1>11. ASSUME "disorder" \notin odd
       PROVE  Increasing' /\ (Good' => Coming')
  <2>1. Good /\ Increasing /\ Coming
    BY <1>11 DEF InOrder, Good, Odd, IInv, Places
  <2>2. \A k \in DOMAIN delivered : delivered[k].no < no
    BY <1>3, <1>7, <2>1 DEF Coming, Waiting
  <2>3. Increasing'
    <3> SUFFICES ASSUME NEW j \in DOMAIN delivered', NEW k \in DOMAIN delivered', j < k
                 PROVE  delivered'[j].no < delivered'[k].no
      BY DEF Increasing
    <3>1. j \in 1 .. m /\ delivered'[j].no = delivered[j].no
      BY <1>6, <1>8, <1>9
    <3>2. CASE k \in 1 .. m
      BY <1>6, <1>8, <2>1, <3>1, <3>2 DEF Increasing
    <3>3. CASE k = m + 1
      BY <1>6, <1>8, <1>9, <2>2, <3>1, <3>3
    <3> QED BY <1>6, <1>8, <3>2, <3>3
  <2>4. Round = cur /\ Round' = cur
    BY DEF Round
  <2>5. \A i, j \in Slots :
           ~ring'[i].own /\ ~ring'[j].own /\ Place(cur, i) < Place(cur, j) =>
              ring'[i].got.no < ring'[j].got.no
    BY <1>4, <2>1, <2>4 DEF Coming
  <2>6. ASSUME NEW i \in Slots, NEW k \in DOMAIN delivered', ~ring'[i].own, i # cur
        PROVE  delivered'[k].no < ring'[i].got.no
    <3>1. CASE k \in 1 .. m
      BY <1>4, <1>6, <1>8, <2>1, <2>6, <3>1 DEF Coming, Waiting
    <3>2. CASE k = m + 1
      <4>1. Place(cur, cur) < Place(cur, i)
        BY <1>3, <2>6, PlaceOf
      <4>2. no < ring[i].got.no
        BY <1>3, <1>4, <1>7, <2>1, <2>4, <2>6, <4>1 DEF Coming
      <4> QED BY <1>4, <1>6, <1>7, <1>8, <1>9, <3>2, <4>2
    <3> QED BY <1>6, <1>8, <3>1, <3>2
  <2>7. \A i \in Slots, k \in DOMAIN delivered' : Waiting(i)' => delivered'[k].no < ring'[i].got.no
    BY <2>6 DEF Waiting
  <2> QED BY <2>3, <2>4, <2>5, <2>7 DEF Coming, Place
<1> QED BY <1>10, <1>11 DEF InOrder, Odd, Pci

\* Of a ring with a descriptor given back the numbers are still in range.
LEMMA BackNumbers ==
    ASSUME Typed, Numbers, NEW i \in Slots, UNCHANGED <<posted, delivered>>,
           ring' = [ring EXCEPT ![i] = setup_rx_desc(ring[i], cur)]
    PROVE  Numbers'
<1>1. PICK S : ring \in Rings(S)
  BY DEF Typed
<1>2. cur \in Slots
  BY DEF Typed
<1>3. ring'[i].own /\ \A j \in Slots \ {i} : ring'[j] = ring[j]
  BY <1>1, <1>2, GiveBack
<1> QED BY <1>3 DEF Numbers, Received

\* The descriptor at the driver's place is given back: the round goes on behind
\* it.
LEMMA BackOrder ==
    ASSUME Typed, Coming, isr.at \in {"loop", "input"}, UNCHANGED <<delivered, cur>>,
           ring' = [ring EXCEPT ![cur] = setup_rx_desc(ring[cur], cur)],
           isr' = [at |-> "own", idx |-> cur]
    PROVE  Coming'
<1>1. PICK S : ring \in Rings(S)
  BY DEF Typed
<1>2. cur \in Slots
  BY DEF Typed
<1>3. ring'[cur].own /\ \A j \in Slots \ {cur} : ring'[j] = ring[j]
  BY <1>1, <1>2, GiveBack
<1>4. Round = cur /\ Round' = Wrapped(cur + 1)
  BY DEF Round, Wrapped
<1>5. ASSUME NEW i \in Slots, NEW j \in Slots, ~ring'[i].own, ~ring'[j].own,
             Place(Wrapped(cur + 1), i) < Place(Wrapped(cur + 1), j)
      PROVE  ring'[i].got.no < ring'[j].got.no
  <2>1. i # cur /\ j # cur
    BY <1>3, <1>5
  <2>2. /\ Place(Wrapped(cur + 1), i) = Place(cur, i) - 1
        /\ Place(Wrapped(cur + 1), j) = Place(cur, j) - 1
        /\ Place(cur, i) \in 0 .. N - 1 /\ Place(cur, j) \in 0 .. N - 1
    BY <1>2, <2>1, PlaceOf
  <2>3. Place(cur, i) < Place(cur, j)
    BY <1>5, <2>2, Length
  <2> QED BY <1>3, <1>4, <1>5, <2>1, <2>3 DEF Coming
<1>6. ASSUME NEW i \in Slots, NEW k \in DOMAIN delivered, ~ring'[i].own
      PROVE  delivered[k].no < ring'[i].got.no
  <2>1. i # cur
    BY <1>3, <1>6
  <2> QED BY <1>3, <1>6, <2>1 DEF Coming, Waiting
<1>7. /\ \A i, j \in Slots :
            ~ring'[i].own /\ ~ring'[j].own /\ Place(Wrapped(cur + 1), i) < Place(Wrapped(cur + 1), j) =>
               ring'[i].got.no < ring'[j].got.no
      /\ \A i \in Slots, k \in DOMAIN delivered' : Waiting(i)' => delivered'[k].no < ring'[i].got.no
  BY <1>5, <1>6 DEF Waiting
<1> QED BY <1>4, <1>7 DEF Coming, Place

LEMMA ResetOrder ==
    ASSUME IInv, InOrder, PowerOff, UNCHANGED <<chip, posted, delivered, isr>>,
           isr.at \in {"idle", "taken", "input"}
    PROVE  InOrder'
<1>1. PICK S : ring \in Rings(S)
  BY DEF IInv, Typed
<1>2. reset_rx_list
  BY DEF PowerOff
<1>3. \A i \in Slots : ring'[i].own
  BY <1>1, <1>2, ResetRing
<1>4. "disorder" \in odd <=> "disorder" \in odd'
  BY DEF PowerOff
<1>5. Odd({"mixed", "reused"})' => Odd({"mixed", "reused"}) /\ isr.at # "idle"
  BY DEF PowerOff, Odd
<1>6. (Numbers => Numbers') /\ (Increasing => Increasing')
  BY <1>2, <1>3 DEF Numbers, Increasing
<1>7. Coming'
  BY <1>3 DEF Coming, Waiting
<1> QED BY <1>2, <1>4, <1>5, <1>6, <1>7 DEF InOrder, Pci

LEMMA StopOrder ==
    ASSUME IInv, InOrder, PciStop \/ PciStopped
    PROVE  InOrder'
<1>1. /\ UNCHANGED <<chip, posted, delivered, isr>> /\ Pci
      /\ isr.at \in {"idle", "taken", "input"} /\ posted \in Nat
  BY DEF PciStop, PciStopped, LockFree, InOrder, Numbers
<1>2. CASE PowerOff
  BY <1>1, <1>2, ResetOrder
<1>3. CASE ~PowerOff
  <2>1. power' = "draining" /\ UNCHANGED <<ring, cur, odd>>
    BY <1>3 DEF PciStop, PciStopped
  <2> QED BY <1>1, <2>1, OrderKept DEF Good, Odd, Pci
<1> QED BY <1>2, <1>3

LEMMA PostOrder ==
    ASSUME IInv, InOrder, Pci, NEW pkt, Post(pkt), Received(pkt)
    PROVE  InOrder'
<1>1. /\ UNCHANGED <<chip, power, delivered, cur, isr, odd>>
      /\ power \in {"on", "running"} /\ posted' = posted + 1
  BY DEF Post
<1>2. DOMAIN ring = Slots
  BY DEF IInv, Typed, Rings
<1>3. CASE ring[dev].own
  <2>1. /\ ring' = [ring EXCEPT ![dev].own = FALSE,
                                ![dev].got = [no |-> posted + 1, pkt |-> pkt]]
        /\ dev \in Slots
    BY <1>2, <1>3 DEF Post
  <2> QED BY <1>1, <1>3, <2>1, FillOrder
<1>4. CASE ~ring[dev].own
  <2>1. UNCHANGED ring
    BY <1>4 DEF Post
  <2> QED BY <1>1, <2>1, OrderKept DEF Good, Odd, Pci
<1> QED BY <1>3, <1>4

\* A descriptor is given back.
LEMMA GivenOrder ==
    ASSUME IInv, InOrder, Pci, NEW i \in Slots, GivenBack(i), isr.at \in {"loop", "input"},
           UNCHANGED <<chip, posted, power, delivered, cur>>,
           "disorder" \notin odd' =>
              /\ "disorder" \notin odd
              /\ Good' => Good /\ power = "running" /\ i = cur
              /\ Odd({"mixed", "reused"})' => power = "draining" /\ i = cur
    PROVE  InOrder'
<1>1. /\ ring' = [ring EXCEPT ![i] = setup_rx_desc(ring[i], cur)]
      /\ isr' = [at |-> IF power = "running" THEN "own" ELSE "idle", idx |-> i]
  BY DEF GivenBack
<1>2. cur \in Slots /\ Typed /\ Numbers
  BY DEF IInv, Typed, InOrder
<1>3. PICK S : ring \in Rings(S)
  BY <1>2 DEF Typed
<1>4. ring'[i].own
  BY <1>1, <1>2, <1>3, GiveBack
<1>5. Numbers'
  BY <1>1, <1>2, BackNumbers
<1>6. Increasing => Increasing'
  BY DEF Increasing
<1>7. ASSUME "disorder" \notin odd', Good' PROVE Coming'
  <2>1. Coming /\ power = "running" /\ i = cur
    BY <1>7 DEF InOrder
  <2>2. isr' = [at |-> "own", idx |-> cur]
    BY <1>1, <2>1
  <2> QED BY <1>1, <1>2, <2>1, <2>2, BackOrder
<1>8. isr'.at \in {"own", "idle"}
  BY <1>1
<1> QED BY <1>4, <1>5, <1>6, <1>7, <1>8 DEF InOrder, Pci

LEMMA DoneOrder ==
    ASSUME IInv, InOrder, RxDone
    PROVE  InOrder'
<1>1. /\ UNCHANGED <<chip, posted, power, cur>>
      /\ isr.at = "loop" /\ ~ring[cur].own /\ power # "off" /\ Pci /\ "stopped" \notin odd
  BY DEF IInv, Places, RxDone
<1>2. \/ \E pkt : rx_frame(pkt, ring[cur].got.no)
      \/ Recycle
  BY DEF RxDone
<1>3. CASE \E pkt : rx_frame(pkt, ring[cur].got.no)
  BY <1>1, <1>3, PassOrder DEF rx_frame
<1>4. CASE Recycle
  <2>1. GivenBack(cur) /\ odd' = odd \union Parted /\ UNCHANGED delivered
    BY <1>4 DEF Recycle
  <2>2. cur \in Slots
    BY DEF IInv, Typed
  <2>3. ASSUME "disorder" \notin odd'
        PROVE  /\ "disorder" \notin odd
               /\ Good' => Good /\ power = "running"
               /\ Odd({"mixed", "reused"})' => power = "draining"
    <3>1. "disorder" \notin odd /\ ~Odd({"mixed", "reused"})
      BY <1>1, <2>1, <2>3 DEF InOrder
    <3>2. power = "running" => odd' = odd
      BY <2>1 DEF Parted
    <3>3. power \notin {"running", "draining"} => "disorder" \in odd'
      BY <2>1 DEF Parted
    <3> QED BY <1>1, <2>1, <2>3, <3>1, <3>2, <3>3 DEF Good, Odd, Pci, Parted
  <2> QED BY <1>1, <2>1, <2>2, <2>3, GivenOrder
<1> QED BY <1>2, <1>3, <1>4

LEMMA ReturnsOrder ==
    ASSUME IInv, InOrder, InputReturns
    PROVE  InOrder'
<1>1. /\ UNCHANGED <<chip, posted, delivered, power, cur>>
      /\ isr.at = "input" /\ Pci /\ isr.idx \in Slots /\ GivenBack(isr.idx)
  BY DEF IInv, Typed, Places, InputReturns
<1>2. odd' = IF "stopped" \in odd THEN (odd \ {"stopped"}) \union {"mixed", "disorder"}
             ELSE odd \union Parted
  BY DEF InputReturns
<1>3. ASSUME "disorder" \notin odd'
      PROVE  /\ "disorder" \notin odd
             /\ Good' => Good /\ power = "running" /\ isr.idx = cur
             /\ Odd({"mixed", "reused"})' => power = "draining" /\ isr.idx = cur
  <2>1. "stopped" \notin odd /\ odd' = odd \union Parted /\ "disorder" \notin odd
    BY <1>2, <1>3
  <2>2. ~Odd({"mixed", "reused"})
    BY <1>1, <2>1 DEF InOrder
  <2>3. Good
    BY <1>1, <2>1, <2>2 DEF Good, Odd
  <2>4. isr.idx = cur
    BY <1>1, <2>3 DEF IInv, Together
  <2>5. power = "running" => odd' = odd
    BY <2>1 DEF Parted
  <2>6. power \notin {"running", "draining"} => "disorder" \in odd'
    BY <2>1 DEF Parted
  <2> QED BY <1>1, <1>3, <2>1, <2>2, <2>3, <2>4, <2>5, <2>6 DEF Good, Odd, Parted, Pci
<1> QED BY <1>1, <1>3, GivenOrder

LEMMA NextPlaceOrder ==
    ASSUME IInv, InOrder, RxNext
    PROVE  InOrder'
<1>1. /\ UNCHANGED <<chip, posted, power, delivered, ring>>
      /\ isr.at = "own" /\ isr' = [isr EXCEPT !.at = "loop"] /\ Pci
      /\ \/ ring[isr.idx].own /\ cur' = (cur + 1) % N /\ odd' = odd
         \/ ~ring[isr.idx].own /\ cur' = cur /\ odd' = odd \union {"reused", "disorder"}
  BY DEF IInv, Places, RxNext, Advance
<1>2. isr'.at = "loop" /\ cur \in Slots /\ N \in Nat \ {0}
  BY <1>1, Length DEF IInv, Typed
<1>3. (Numbers => Numbers') /\ (Increasing => Increasing')
  BY <1>1 DEF Numbers, Received, Increasing
<1>4. CASE "disorder" \in odd'
  BY <1>1, <1>3, <1>4 DEF InOrder, Pci
<1>5. CASE "disorder" \notin odd'
  <2>1. cur' = (cur + 1) % N /\ odd' = odd
    BY <1>1, <1>5
  <2>2. (cur + 1) % N = Wrapped(cur + 1)
    <3>1. cur + 1 \in 0 .. 2 * N - 1
      BY <1>2 DEF Slots
    <3> QED BY <3>1, Wraps
  <2>3. Round' = Round
    BY <1>1, <1>2, <2>1, <2>2 DEF Round
  <2>4. Coming => Coming'
    BY <1>1, <1>2, <2>3 DEF Coming, Place, Waiting
  <2>5. Odd({"mixed", "reused"}) => "disorder" \in odd
    BY <1>1 DEF IInv, Places, InOrder
  <2>6. Good' => Good
    BY <1>1, <2>1 DEF Good, Odd, Pci
  <2>7. "disorder" \notin odd /\ ~Odd({"mixed", "reused"})'
    BY <1>5, <2>1, <2>5 DEF Odd
  <2>8. Numbers' /\ Increasing' /\ (Good' => Coming')
    BY <1>1, <1>3, <2>4, <2>6, <2>7 DEF InOrder
  <2> QED BY <2>7, <2>8 DEF InOrder
<1> QED BY <1>4, <1>5

LEMMA StepOrder ==
    ASSUME IInv, InOrder, [Next]_vars
    PROVE  InOrder'
<1> SUFFICES ASSUME Pci PROVE InOrder'
  <2>1. chip' = chip
    BY DEF Next, vars, usbVars, pciVars, PciReceive, Post, PciCause, Intr, IntrEnd, RxDone,
           PciPass, InputReturns, RxNext, PciPowerOn, PciStart, PciStop, PciStopped, UsbTransferred, UsbPass,
           UsbReturn, UsbError, UsbSetup, UsbStart, UsbStop, UsbCancelled, UsbStopped, Transmit,
           TxReport, UsbReport, FwEvent, C2hTimer, C2hTask
  <2> QED BY <2>1 DEF InOrder, Pci
<1>0. ~incb /\ posted \in Nat
  BY DEF IInv, Places, InOrder, Numbers
<1>1. CASE PciReceive
  <2>1. PICK pkt \in Packets : Post(pkt)
    BY <1>1 DEF PciReceive
  <2>2. Received(pkt)
    BY PacketsAssumption
  <2> QED BY <2>1, <2>2, PostOrder
<1>2. CASE TxReport
  <2>1. Post(ReportPacket)
    BY <1>2 DEF TxReport
  <2>2. Received(ReportPacket)
    BY DEF Received, ReportPacket, NoPacket
  <2> QED BY <2>1, <2>2, PostOrder
<1>3. CASE PciCause \/ UNCHANGED vars
  BY <1>3, OrderKept DEF PciCause, vars, Good, Odd, Pci
<1>4. CASE Intr
  <2>1. /\ UNCHANGED <<chip, power, ring, cur, delivered, posted>>
        /\ odd' \in {odd, odd \union {"deaf"}}
        /\ isr.at = "idle"
    BY <1>4 DEF Intr
  <2>2. isr'.at \in {"idle", "loop", "end"}
    BY <1>4 DEF Intr, IInv, Typed
  <2> QED BY <1>0, <2>1, <2>2, OrderKept DEF Good, Odd, Pci
<1>5. CASE IntrEnd
  <2>1. /\ UNCHANGED <<chip, power, ring, cur, delivered, posted>>
        /\ odd' \in {odd, odd \ {"early"}}
        /\ isr.at \in {"loop", "end"}
    BY <1>5 DEF IntrEnd
  <2>2. isr'.at = "idle"
    BY <1>5 DEF IntrEnd, IInv, Typed
  <2> QED BY <1>0, <2>1, <2>2, OrderKept DEF Good, Odd, Pci
<1>6. CASE PciPowerOn \/ PciStart
  <2>1. /\ UNCHANGED <<chip, ring, cur, delivered, posted, isr>>
        /\ odd' \in {odd, odd \union {"early"}} /\ power # "draining"
    BY <1>6 DEF PciPowerOn, PciStart
  <2> QED BY <1>0, <2>1, OrderKept DEF Good, Odd, Pci
<1>7. CASE Transmit \/ FwEvent \/ C2hTimer \/ C2hTask
  <2>1. /\ UNCHANGED <<chip, power, ring, cur, delivered, isr, odd>>
        /\ posted' \in {posted, posted + 1}
    BY <1>7 DEF Transmit, FwEvent, C2hTimer, C2hTask, pciVars
  <2>2. posted' \in Nat /\ posted' >= posted
    BY <1>0, <2>1
  <2> QED BY <2>1, <2>2, OrderKept DEF Good, Odd, Pci
<1>8. CASE UsbSetup \/ PciPass
  <2>1. /\ UNCHANGED <<chip, power, ring, cur, delivered, posted, odd>>
        /\ UNCHANGED isr \/ (isr.at = "taken" /\ isr' = [isr EXCEPT !.at = "input"])
    BY <1>8 DEF UsbSetup, PciPass, pciVars
  <2>2. isr'.at = isr.at \/ {isr.at, isr'.at} \subseteq {"taken", "input"}
    BY <2>1 DEF IInv, Typed
  <2> QED BY <1>0, <2>1, <2>2, OrderKept DEF Good, Odd, Pci
<1>9. /\ ~UsbTransferred /\ ~UsbPass /\ ~UsbReturn /\ ~UsbError /\ ~UsbStart /\ ~UsbStop
      /\ ~UsbCancelled /\ ~UsbStopped
  BY <1>0 DEF UsbTransferred, UsbPass, UsbReturn, UsbError, UsbStart, UsbStop, UsbCancelled,
              UsbStopped
<1> QED BY <1>1, <1>2, <1>3, <1>4, <1>5, <1>6, <1>7, <1>8, <1>9,
           DoneOrder, ReturnsOrder, NextPlaceOrder, StopOrder DEF Next

-----------------------------------------------------------------------------
(* A transfer's frames are passed up one after the other. *)

LEMMA HeadFirst ==
    ASSUME NEW S, NEW s \in Seq(S), NEW q \in Seq(S), q # <<>>
    PROVE  /\ Head(q) \in S /\ Tail(q) \in Seq(S)
           /\ Append(s, Head(q)) \in Seq(S)
           /\ Append(s, Head(q)) \o Tail(q) = s \o q
<1>1. Head(q) \in S /\ Tail(q) \in Seq(S) /\ Len(q) \in Nat /\ Len(q) > 0
      /\ Len(Tail(q)) = Len(q) - 1 /\ \A i \in 1 .. Len(q) - 1 : Tail(q)[i] = q[i + 1]
      /\ Head(q) = q[1]
  BY HeadTailProperties, LenProperties, EmptySeq
<1> DEFINE a == Append(s, Head(q))
           l == a \o Tail(q)
           r == s \o q
<1>2. /\ a \in Seq(S) /\ Len(a) = Len(s) + 1 /\ a[Len(s) + 1] = Head(q)
      /\ \A i \in 1 .. Len(s) : a[i] = s[i]
  BY <1>1, AppendProperties
<1>3. Len(s) \in Nat
  BY LenProperties
<1>4. l \in Seq(S) /\ Len(l) = Len(a) + Len(Tail(q))
      /\ \A i \in 1 .. Len(l) : l[i] = IF i <= Len(a) THEN a[i] ELSE Tail(q)[i - Len(a)]
  <2>1. PICK z \in Seq(S) : z = Tail(q)
    BY <1>1
  <2>2. PICK b \in Seq(S) : b = a
    BY <1>2
  <2>3. /\ b \o z \in Seq(S)
        /\ Len(b \o z) = Len(b) + Len(z)
        /\ \A i \in 1 .. Len(b) + Len(z) : (b \o z)[i] = IF i <= Len(b) THEN b[i] ELSE z[i - Len(b)]
    BY ConcatProperties
  <2> HIDE DEF a
  <2> QED BY <2>1, <2>2, <2>3
<1>5. r \in Seq(S) /\ Len(r) = Len(s) + Len(q)
      /\ \A i \in 1 .. Len(r) : r[i] = IF i <= Len(s) THEN s[i] ELSE q[i - Len(s)]
  BY ConcatProperties
<1> HIDE DEF a, l, r
<1>6. Len(l) = Len(r)
  BY <1>1, <1>2, <1>3, <1>4, <1>5
<1>7. ASSUME NEW i \in 1 .. Len(l) PROVE l[i] = r[i]
  <2>1. CASE i <= Len(s)
    BY <1>2, <1>3, <1>4, <1>5, <1>6, <2>1
  <2>2. CASE i = Len(s) + 1
    BY <1>1, <1>2, <1>3, <1>4, <1>5, <1>6, <2>2
  <2>3. CASE i > Len(s) + 1
    <3>1. l[i] = Tail(q)[i - Len(a)] /\ r[i] = q[i - Len(s)]
      BY <1>2, <1>3, <1>4, <1>5, <1>6, <2>3
    <3>2. i - Len(a) \in 1 .. Len(q) - 1 /\ (i - Len(a)) + 1 = i - Len(s)
      BY <1>1, <1>2, <1>3, <1>4, <2>3
    <3> QED BY <1>1, <3>1, <3>2
  <2> QED BY <1>3, <2>1, <2>2, <2>3
<1>8. l = r
  BY <1>4, <1>5, <1>6, <1>7, SeqEqual
<1> QED BY <1>1, <1>2, <1>8 DEF a, l, r

LEMMA UpGrows ==
    ASSUME IInv, Up \in Seq(Nat), NEW no \in Nat, delivered' = Append(delivered, Copy(no))
    PROVE  Up' = Append(Up, no)
<1>1. PICK S : delivered \in Seq(S)
  BY DEF IInv, Typed
<1>2. PICK m \in Nat : m = Len(delivered)
  BY <1>1, LenProperties
<1>3. /\ DOMAIN delivered = 1 .. m /\ DOMAIN delivered' = 1 .. m + 1
      /\ \A k \in 1 .. m : delivered'[k] = delivered[k]
      /\ delivered'[m + 1] = Copy(no)
  BY <1>1, <1>2, AppendAny
<1>4. Up = [k \in 1 .. m |-> delivered[k].no] /\ Up' = [k \in 1 .. m + 1 |-> delivered'[k].no]
  BY <1>3 DEF Up
<1>5. Len(Up) = m
  BY <1>4, LenProperties
<1>6. /\ Append(Up, no) \in Seq(Nat) /\ DOMAIN Append(Up, no) = 1 .. m + 1
      /\ \A k \in 1 .. m : Append(Up, no)[k] = Up[k]
      /\ Append(Up, no)[m + 1] = no
  BY <1>5, AppendProperties, LenProperties
<1>7. \A k \in 1 .. m + 1 : delivered'[k].no = Append(Up, no)[k]
  <2> TAKE k \in 1 .. m + 1
  <2>1. CASE k \in 1 .. m
    BY <1>3, <1>4, <1>6, <2>1
  <2>2. CASE k = m + 1
    BY <1>3, <1>6, <2>2 DEF Copy
  <2>3. k \in 1 .. m \/ k = m + 1
    OBVIOUS
  <2> QED BY <2>1, <2>2, <2>3
<1>8. Append(Up, no) = [k \in 1 .. m + 1 |-> Append(Up, no)[k]]
  <2>1. PICK q \in Seq(Nat) : q = Append(Up, no)
    BY <1>6
  <2>2. q \in [1 .. Len(q) -> Nat] /\ DOMAIN q = 1 .. Len(q)
    BY LenProperties
  <2>3. q \in [1 .. m + 1 -> Nat]
    BY <1>6, <2>1, <2>2
  <2> QED BY <2>1, <2>3
<1> QED BY <1>4, <1>7, <1>8

LEMMA NumberedSeq ==
    ASSUME posted \in Nat, NEW n \in Nat, NEW s \in Seq(1 .. n)
    PROVE  /\ Numbered(s) \in Seq(Nat)
           /\ Numbered(s) # <<>> => Head(Numbered(s)) - posted \in 1 .. n
<1>1. PICK m \in Nat : m = Len(s) /\ DOMAIN s = 1 .. m /\ \A j \in 1 .. m : s[j] \in 1 .. n
  BY LenProperties, ElementOfSeq
<1>2. Numbered(s) = [j \in 1 .. m |-> posted + s[j]]
  BY <1>1 DEF Numbered
<1>3. Numbered(s) \in [1 .. m -> Nat]
  BY <1>1, <1>2
<1>4. Numbered(s) \in Seq(Nat)
  BY <1>3, IsASeq
<1>5. ASSUME Numbered(s) # <<>> PROVE Head(Numbered(s)) - posted \in 1 .. n
  <2> DEFINE q == Numbered(s)
  <2>1. q \in Seq(Nat) /\ DOMAIN q = 1 .. m
    BY <1>3, <1>4
  <2> HIDE DEF q
  <2>2. Len(q) = m
    BY <2>1, LenProperties
  <2>3. Head(q) = q[1] /\ m # 0
    BY <1>5, <2>1, <2>2, HeadTailProperties, EmptySeq DEF q
  <2>4. q[1] = posted + s[1] /\ s[1] \in 1 .. n
    BY <1>1, <1>2, <2>3 DEF q
  <2> QED BY <2>3, <2>4 DEF q
<1> QED BY <1>4, <1>5
LEMMA ListedKept ==
    ASSUME Listed, UNCHANGED <<chip, delivered, chain, due>>, posted \in Nat => posted' \in Nat,
           ~Pci => incb' = incb \/ chain = <<>>
    PROVE  Listed'
<1>1. Up' = Up /\ Pci' = Pci
  BY DEF Up, Pci
<1> QED BY <1>1 DEF Listed

\* The first frame of a transfer goes up, the others wait in the chain.
LEMMA TransferredListed ==
    ASSUME IInv, chip \in ChipNames, Listed, UsbTransferred
    PROVE  Listed'
<1>1. ~Pci /\ ~incb /\ UNCHANGED chip
  BY DEF UsbTransferred
<1>2. posted \in Nat /\ Up \in Seq(Nat) /\ due \in Seq(Nat) /\ chain = <<>> /\ Up \o chain = due
  BY <1>1 DEF Listed
<1>3. Up = due
  BY <1>2, ConcatEmptySeq
<1>4. PICK t \in Transfers, noMem \in {{}, {1}} :
        /\ posted' = posted + Len(t.pkts)
        /\ due' = due \o Numbered(Holds(t, noMem))
        /\ IF Numbered(rxeof(t, noMem)) = <<>>
           THEN incb' = FALSE /\ UNCHANGED <<delivered, node, chain>>
           ELSE /\ incb' = TRUE /\ chain' = Tail(Numbered(rxeof(t, noMem)))
                /\ delivered' = Append(delivered, Copy(Head(Numbered(rxeof(t, noMem)))))
  BY DEF UsbTransferred
<1>5. Packed(t)
  BY TransfersAssumption DEF Packed
<1>6. PICK s \in Seq(1 .. Len(t.pkts)) : s = rxeof(t, noMem) /\ s = Holds(t, noMem)
  BY <1>1, <1>5, WholePackets
<1>7. PICK n \in Nat : n = Len(t.pkts)
  BY TransfersAssumption
<1>8. PICK frames \in Seq(Nat) : frames = Numbered(s)
  BY <1>2, <1>6, <1>7, NumberedSeq
<1>9. posted' \in Nat /\ Pci' = Pci
  BY <1>1, <1>2, <1>4, <1>7 DEF Pci
<1>10. due' = due \o frames /\ due' \in Seq(Nat)
  BY <1>2, <1>4, <1>6, <1>8, ConcatProperties
<1>11. CASE frames = <<>>
  <2>1. UNCHANGED <<delivered, chain>>
    BY <1>4, <1>6, <1>8, <1>11
  <2>2. Up' = Up
    BY <2>1 DEF Up
  <2>3. due' = due
    BY <1>2, <1>10, <1>11, ConcatEmptySeq
  <2> QED BY <1>2, <1>9, <2>1, <2>2, <2>3 DEF Listed
<1>12. CASE frames # <<>>
  <2>1. /\ incb' = TRUE /\ chain' = Tail(frames)
        /\ delivered' = Append(delivered, Copy(Head(frames)))
    BY <1>4, <1>6, <1>8, <1>12
  <2>2. /\ Head(frames) \in Nat /\ Tail(frames) \in Seq(Nat)
        /\ Append(Up, Head(frames)) \in Seq(Nat)
        /\ Append(Up, Head(frames)) \o Tail(frames) = Up \o frames
    BY <1>2, <1>12, HeadFirst
  <2>3. Up' = Append(Up, Head(frames))
    BY <1>2, <2>1, <2>2, UpGrows
  <2> QED BY <1>3, <1>9, <1>10, <2>1, <2>2, <2>3 DEF Listed
<1> QED BY <1>11, <1>12

LEMMA PassListed ==
    ASSUME IInv, Listed, UsbPass
    PROVE  Listed'
<1>1. ~Pci /\ incb /\ chain # <<>> /\ UNCHANGED <<chip, posted, incb, due>>
      /\ delivered' = Append(delivered, Copy(Head(chain))) /\ chain' = Tail(chain)
  BY DEF UsbPass, IInv, Places
<1>2. /\ posted \in Nat /\ Up \in Seq(Nat) /\ chain \in Seq(Nat) /\ due \in Seq(Nat)
      /\ Up \o chain = due
  BY <1>1 DEF Listed
<1>3. /\ Head(chain) \in Nat /\ Tail(chain) \in Seq(Nat)
      /\ Append(Up, Head(chain)) \in Seq(Nat)
      /\ Append(Up, Head(chain)) \o Tail(chain) = Up \o chain
  BY <1>1, <1>2, HeadFirst
<1>4. Up' = Append(Up, Head(chain))
  BY <1>1, <1>2, <1>3, UpGrows
<1> QED BY <1>1, <1>2, <1>3, <1>4 DEF Listed, Pci

LEMMA StepListed ==
    ASSUME IInv, chip \in ChipNames, Listed, [Next]_vars
    PROVE  Listed'
<1>1. CASE UsbTransferred
  BY <1>1, TransferredListed
<1>2. CASE UsbPass
  BY <1>2, PassListed
<1>3. CASE Pci
  <2>1. chip' = chip
    BY DEF Next, vars, usbVars, pciVars, PciReceive, Post, PciCause, Intr, IntrEnd, RxDone,
           PciPass, InputReturns, RxNext, PciPowerOn, PciStart, PciStop, PciStopped, UsbTransferred, UsbPass,
           UsbReturn, UsbError, UsbSetup, UsbStart, UsbStop, UsbCancelled, UsbStopped, Transmit,
           TxReport, UsbReport, FwEvent, C2hTimer, C2hTask
  <2> QED BY <1>3, <2>1 DEF Listed, Pci
<1>4. CASE ~Pci /\ ~UsbTransferred /\ ~UsbPass
  <2>1. isr.at = "idle" /\ power # "on"
    BY <1>4 DEF IInv, Places
  <2>2. \/ UsbReturn \/ UsbError \/ UsbSetup \/ UsbStart \/ UsbStop \/ UsbCancelled \/ UsbStopped
        \/ Transmit \/ TxReport \/ FwEvent \/ C2hTimer \/ C2hTask \/ UNCHANGED vars
    BY <1>4, <2>1 DEF Next, PciReceive, PciCause, Intr, IntrEnd, RxDone, PciPass, InputReturns,
                      RxNext, PciPowerOn, PciStart, PciStop, PciStopped
  <2>3. /\ UNCHANGED <<chip, delivered, chain, due>> /\ posted' \in {posted, posted + 1}
        /\ incb' = incb \/ chain = <<>>
    <3>1. CASE UsbReturn
      BY <3>1 DEF UsbReturn
    <3>2. CASE UsbError \/ UsbSetup \/ UsbStart \/ UsbCancelled
      BY <3>2 DEF UsbError, UsbSetup, UsbStart, UsbCancelled
    <3>3. CASE UsbStop \/ UsbStopped
      BY <3>3 DEF UsbStop, UsbStopped, usbVars
    <3>4. CASE Transmit \/ FwEvent \/ C2hTimer \/ C2hTask
      BY <3>4 DEF Transmit, FwEvent, C2hTimer, C2hTask, usbVars
    <3>5. CASE TxReport
      BY <1>4, <3>5 DEF TxReport, UsbReport, usbVars
    <3>6. CASE UNCHANGED vars
      BY <3>6 DEF vars, usbVars
    <3> QED BY <2>2, <3>1, <3>2, <3>3, <3>4, <3>5, <3>6
  <2> QED BY <2>3, ListedKept
<1> QED BY <1>1, <1>2, <1>3, <1>4

-----------------------------------------------------------------------------
(* The signal of a frame that is passed up. *)

LEMMA TransferredSignal ==
    ASSUME chip \in ChipNames, Listed, SignalInRange, UsbTransferred
    PROVE  SignalInRange'
<1>1. ~Pci
  BY DEF UsbTransferred
<1>2. posted \in Nat
  BY <1>1 DEF Listed
<1>3. PICK t \in Transfers, noMem \in {{}, {1}} :
        IF Numbered(rxeof(t, noMem)) = <<>> THEN UNCHANGED node
        ELSE Heard(t.pkts[Head(Numbered(rxeof(t, noMem))) - posted])
  BY DEF UsbTransferred
<1>4. Packed(t)
  BY TransfersAssumption DEF Packed
<1>5. PICK n \in Nat : n = Len(t.pkts)
  BY TransfersAssumption
<1>6. PICK s \in Seq(1 .. n) : s = rxeof(t, noMem)
  BY <1>1, <1>4, <1>5, WholePackets
<1>7. CASE Numbered(s) = <<>>
  BY <1>3, <1>6, <1>7 DEF SignalInRange
<1>8. CASE Numbered(s) # <<>>
  <2>1. PICK i \in 1 .. n : i = Head(Numbered(s)) - posted
    BY <1>2, <1>8, NumberedSeq
  <2>2. Received(t.pkts[i])
    BY <1>5, TransfersAssumption
  <2>3. Heard(t.pkts[i])
    BY <1>3, <1>6, <1>8, <2>1
  <2> QED BY <2>2, <2>3, HeardRight
<1> QED BY <1>7, <1>8

LEMMA DoneSignal ==
    ASSUME IInv, chip \in ChipNames, InOrder, SignalInRange, RxDone
    PROVE  SignalInRange'
<1>1. isr.at = "loop" /\ ~ring[cur].own /\ (UNCHANGED node \/ Heard(ring[cur].got.pkt))
  BY DEF RxDone, rx_frame, Recycle
<1>2. Pci /\ cur \in Slots
  BY <1>1 DEF IInv, Places, Typed
<1>3. Received(ring[cur].got.pkt)
  BY <1>1, <1>2 DEF InOrder, Numbers
<1> QED BY <1>1, <1>3, HeardRight DEF SignalInRange

LEMMA StepSignal ==
    ASSUME IInv, Passing, [Next]_vars
    PROVE  SignalInRange'
<1>1. CASE UsbTransferred
  BY <1>1, TransferredSignal DEF Passing
<1>2. CASE RxDone
  BY <1>2, DoneSignal DEF Passing
<1>3. CASE UsbPass
  <2>1. PICK pkt \in Packets : Heard(pkt)
    BY <1>3 DEF UsbPass
  <2> QED BY <2>1, PacketsAssumption, HeardRight DEF Passing
<1>4. CASE ~UsbTransferred /\ ~RxDone /\ ~UsbPass
  <2>1. UNCHANGED node
    BY <1>4 DEF Next, vars, usbVars, pciVars, PciReceive, Post, PciCause, Intr, IntrEnd,
           PciPass, InputReturns, RxNext, PciPowerOn, PciStart, PciStop, PciStopped, PowerOff,
           UsbReturn, UsbError, UsbSetup,
           UsbStart, UsbStop, UsbCancelled, UsbStopped, Transmit, TxReport, UsbReport, FwEvent,
           C2hTimer, C2hTask
  <2> QED BY <2>1 DEF Passing, SignalInRange
<1> QED BY <1>1, <1>2, <1>3, <1>4

-----------------------------------------------------------------------------
(* What is passed up, together. *)

LEMMA InitPassing == Init => Passing
<1> SUFFICES ASSUME Init PROVE Passing
  OBVIOUS
<1>1. /\ chip \in Chips /\ posted = 0 /\ delivered = <<>> /\ chain = <<>> /\ due = <<>>
      /\ node = [last_rssi |-> 0, avg_pwdb |-> -1] /\ odd = {}
      /\ ring = [i \in Slots |-> FreshSlot(i)]
  BY DEF Init, Slots
<1>2. DOMAIN delivered = {} /\ <<>> \in Seq(Nat)
  BY <1>1, EmptySeq, LenProperties
<1>3. \A i \in Slots : ring[i].own
  BY <1>1 DEF FreshSlot, setup_rx_desc
<1>4. InOrder
  BY <1>1, <1>2, <1>3 DEF InOrder, Numbers, Increasing, Coming, Waiting, Odd
<1>5. Up = <<>>
  BY <1>2 DEF Up
<1>6. Listed
  BY <1>1, <1>2, <1>5, ConcatEmptySeq DEF Listed
<1>7. chip \in ChipNames /\ SignalInRange
  BY <1>1, ChipsAssumption DEF SignalInRange
<1> QED BY <1>4, <1>6, <1>7 DEF Passing

LEMMA NextPassing == IInv /\ Passing /\ [Next]_vars => Passing'
<1> SUFFICES ASSUME IInv, Passing, [Next]_vars PROVE Passing'
  OBVIOUS
<1>1. UNCHANGED chip
  BY DEF Next, vars, usbVars, pciVars, PciReceive, Post, PciCause, Intr, IntrEnd, RxDone,
         PciPass, InputReturns, RxNext, PciPowerOn, PciStart, PciStop, PciStopped, UsbTransferred, UsbPass,
         UsbReturn, UsbError, UsbSetup, UsbStart, UsbStop, UsbCancelled, UsbStopped, Transmit,
         TxReport, UsbReport, FwEvent, C2hTimer, C2hTask
<1> QED BY <1>1, StepOrder, StepListed, StepSignal DEF Passing

LEMMA PassingUp == Passing => PassedUp
BY DEF Passing, InOrder, Listed, Increasing, Up, PassedUp, Odd

-----------------------------------------------------------------------------
(* The theorems. *)

LEMMA InitIInv == Init => IInv
<1> SUFFICES ASSUME Init PROVE IInv
  OBVIOUS
<1>1. /\ ring = [i \in Slots |-> FreshSlot(i)] /\ power = "off" /\ stops = 0 /\ cur = 0
      /\ dev = 0 /\ himr = FALSE /\ isr = [at |-> "idle", idx |-> 0] /\ odd = {}
      /\ delivered = <<>> /\ incb = FALSE
      /\ c2h = [event |-> -1, timer |-> FALSE, cmds |-> 0, refused |-> FALSE, fw |-> FALSE]
  BY DEF Init, Slots, NoEvents
<1>2. Slots \subseteq Nat /\ 0 \in Slots
  BY Length DEF Slots
<1>3. ring \in Rings({Nothing})
  BY <1>1, <1>2 DEF Rings, FreshSlot, setup_rx_desc
<1>4. \A i \in Slots : /\ ring[i].own /\ (ring[i].eor <=> i = N - 1)
                       /\ ring[i].addr = i /\ ring[i].buf = i
  BY <1>1 DEF FreshSlot, setup_rx_desc
<1>5. Typed
  <2>1. delivered \in Seq({})
    BY <1>1, EmptySeq
  <2>2. c2h \in Events({-1})
    BY <1>1 DEF Events
  <2> QED BY <1>1, <1>2, <1>3, <2>1, <2>2 DEF Typed, Ats
<1>6. Together
  BY <1>1, <1>4 DEF Together, EndMarked, AllOwned
<1>7. Buffers
  <2>1. DOMAIN delivered = {}
    BY <1>1, EmptySeq, LenProperties
  <2> QED BY <1>4, <2>1 DEF Buffers
<1>8. Awaited /\ EventsPolled
  BY <1>1 DEF Awaited, EventsPolled
<1>9. Places
  BY <1>1, <1>4 DEF Places, AllOwned, EndMarked
<1> QED BY <1>5, <1>6, <1>7, <1>8, <1>9 DEF IInv

LEMMA NextIInv == IInv /\ [Next]_vars => IInv'
<1> SUFFICES ASSUME IInv, [Next]_vars PROVE IInv'
  OBVIOUS
<1>1. CASE PciReceive
  <2>1. PICK pkt \in Packets : Post(pkt) /\ Pci
    BY <1>1 DEF PciReceive
  <2>2. pkt.kind # "report"
    BY PacketsAssumption
  <2> QED BY <2>1, <2>2, PostIInv
<1>2. CASE PciCause
  BY <1>2, CauseIInv
<1>3. CASE Intr
  BY <1>3, IntrIInv
<1>4. CASE IntrEnd
  BY <1>4, IntrEndIInv
<1>5. CASE RxDone
  BY <1>5, DoneIInv
<1>6. CASE InputReturns
  BY <1>6, ReturnsIInv
<1>7. CASE RxNext
  BY <1>7, NextPlaceIInv
<1>8. CASE PciPowerOn \/ PciStart
  BY <1>8, PowerIInv
<1>9. CASE PciStop \/ PciStopped
  BY <1>9, StopIInv
<1>14. CASE PciPass
  BY <1>14, InputIInv
<1>10. CASE UsbTransferred \/ UsbPass \/ UsbReturn \/ UsbError \/ UsbSetup
            \/ UsbStart \/ UsbStop \/ UsbCancelled \/ UsbStopped
  BY <1>10, UsbIInv
<1>11. CASE Transmit \/ FwEvent \/ C2hTimer \/ C2hTask
  BY <1>11, EventIInv
<1>12. CASE TxReport
  BY <1>12, ReportIInv
<1>13. CASE UNCHANGED vars
  <2>1. UNCHANGED <<chip, power, stops, delivered, incb, c2h, pciVars>>
    BY <1>13 DEF vars, pciVars
  <2>2. Typed' /\ EventsPolled'
    BY <2>1, EventsKept DEF IInv, Typed, pciVars
  <2> QED BY <2>1, <2>2, PciVarsKept DEF IInv, Places
<1> QED BY <1>1, <1>2, <1>3, <1>4, <1>5, <1>6, <1>7, <1>8, <1>9, <1>10, <1>11, <1>12, <1>13,
           <1>14 DEF Next

\* The device never writes to a buffer that net80211 has, the driver and the
\* device go round the ring together, and the driver comes back for every frame
\* (rtwn_pci_rx_done(), rtwn_pci_setup_rx_desc(), rtwn_pci_reset_rx_list()).
THEOREM RingCorrect == Spec => []RingSound
<1>1. IInv => RingSound
  BY IInvRing
<1> QED BY <1>1, InitIInv, NextIInv, PTL DEF Spec

\* While an r92c runs and its queue has refused no command, its events are
\* polled (r92c_handle_c2h_report(), r92c_handle_c2h_task()).
THEOREM PollingCorrect == Spec => []EventsPolled
<1>1. IInv => EventsPolled
  BY DEF IInv
<1> QED BY <1>1, InitIInv, NextIInv, PTL DEF Spec

\* After rtwn_stop() nothing is taken any more, and nothing passed up but the
\* frame that the PCI handler had in hand: it ends when it finds the device
\* stopped; rtwn_usb_abort_xfers() waits for the callback.
THEOREM StopCorrect == Spec => StopIsQuiet
<1> DEFINE Quiet == power = "off" => /\ delivered' = delivered
                                     /\ Passed' # Passed => isr.at = "taken" /\ "stopped" \in odd
<1>1. IInv /\ [Next]_vars => [Quiet]_vars
  <2> SUFFICES ASSUME IInv, [Next]_vars, power = "off"
               PROVE  /\ delivered' = delivered
                      /\ Passed' # Passed => isr.at = "taken" /\ "stopped" \in odd
    OBVIOUS
  <2>1. delivered' = delivered
    <3> SUFFICES ASSUME delivered' # delivered PROVE FALSE
      OBVIOUS
    <3>1. RxDone \/ UsbTransferred \/ UsbPass
      BY DEF Next, vars, usbVars, pciVars, PciReceive, Post, PciCause, Intr, IntrEnd, PciPass,
             InputReturns, RxNext, PciPowerOn, PciStart, PciStop, PciStopped, UsbReturn, UsbError,
             UsbSetup, UsbStart, UsbStop, UsbCancelled, UsbStopped, Transmit, TxReport, UsbReport,
             FwEvent, C2hTimer, C2hTask
    <3>2. ~RxDone
      BY DEF RxDone, IInv, Places
    <3>3. ~UsbTransferred /\ ~UsbPass
      BY DEF UsbTransferred, UsbPass, IInv, Places
    <3> QED BY <3>1, <3>2, <3>3
  <2>2. isr.at = "taken" => "stopped" \in odd
    BY DEF IInv, Places
  <2>3. isr.at # "taken" => isr'.at # "taken"
    <3> SUFFICES ASSUME isr.at # "taken", isr'.at = "taken" PROVE FALSE
      OBVIOUS
    <3>1. isr.at \notin {"own", "loop", "end"}
      BY DEF IInv, Places
    <3>2. InputReturns \/ isr' = isr
      BY <3>1 DEF Next, vars, usbVars, pciVars, PciReceive, Post, PciCause, Intr, IntrEnd, RxDone,
             PciPass, RxNext, PciPowerOn, PciStart, PciStop, PciStopped, UsbTransferred, UsbPass,
             UsbReturn, UsbError, UsbSetup, UsbStart, UsbStop, UsbCancelled, UsbStopped, Transmit,
             TxReport, UsbReport, FwEvent, C2hTimer, C2hTask
    <3>3. ~InputReturns
      BY DEF InputReturns, GivenBack
    <3> QED BY <3>2, <3>3
  <2> QED BY <2>1, <2>2, <2>3 DEF Passed
<1> QED BY <1>1, InitIInv, NextIInv, PTL DEF Spec, StopIsQuiet

\* Frames go up in the order of their arrival: from the ring as long as the two
\* places agree, and of a bulk transfer every complete and sound frame and
\* nothing else, however the transfer ends (rtwn_pci_rx_done(), rtwn_rxeof(),
\* rtwn_bulk_rx_callback()).
THEOREM PassedUpAlways == Spec => []PassedUp
<1>1. Passing => PassedUp
  BY PassingUp
<1> QED BY <1>1, InitIInv, NextIInv, InitPassing, NextPassing, PTL DEF Spec

\* Whatever byte of gain the radio reports at whatever rate, the signal a node
\* is told of and the average kept for it stay in their ranges
\* (rtwn_get_rssi_cck(), rtwn_get_rssi_ofdm(), rtwn_update_avgrssi()).
THEOREM SignalAlways == Spec => []SignalInRange
<1>1. Passing => SignalInRange
  BY DEF Passing
<1> QED BY <1>1, InitIInv, NextIInv, InitPassing, NextPassing, PTL DEF Spec

=============================================================================
