-------------------------- MODULE UartBuffersProof --------------------------
(***************************************************************************)
(* Theorems about UartBuffers, for every size of the buffers, of their     *)
(* indices and of the FIFO: type correctness, the chunks and idle reports  *)
(* of the receive side, the bytes and idles of the transmit side.          *)
(***************************************************************************)
EXTENDS UartBuffers, Integers, TLAPS

(* -------------- a position a and its slot a % C, for any C ------------- *)

(* Quotient and remainder.                                                 *)
LEMMA DivMod ==
    ASSUME NEW a \in Nat, NEW C \in Nat, C > 0
    PROVE  /\ a % C \in 0 .. (C - 1) /\ a \div C \in Nat
           /\ a = C * (a \div C) + (a % C)
  BY SMT

(* A multiple of C strictly between -C and C is zero.                      *)
LEMMA SmallMultiple ==
    ASSUME NEW C \in Nat, NEW z \in Int, C * z < C, C * z > 0 - C, C > 0
    PROVE  z = 0
<1>1. CASE z >= 1
  <2>1. C * z >= C
    BY <1>1, SMT
  <2> QED
    BY <2>1
<1>2. CASE z <= -1
  <2>1. C * (0 - z) >= C /\ C * (0 - z) = 0 - C * z
    BY <1>2, SMT
  <2> QED
    BY <2>1
<1> QED
  BY <1>1, <1>2

(* Positions a multiple of C apart share a slot.                           *)
LEMMA SameSlot ==
    ASSUME NEW C \in Nat, C > 0, NEW a \in Nat, NEW b \in Nat, NEW q \in Int,
           a = b + C * q
    PROVE  a % C = b % C
<1> DEFINE p == a \div C
           s == b \div C
           z == (s + q) - p
<1>1. /\ p \in Nat /\ s \in Nat
      /\ a % C \in 0 .. (C - 1) /\ b % C \in 0 .. (C - 1)
      /\ a = C * p + (a % C) /\ b = C * s + (b % C)
  BY DivMod
<1> HIDE DEF p, s
<1>2. /\ z \in Int /\ C * p \in Int /\ C * s \in Int /\ C * q \in Int
      /\ C * z = (C * s + C * q) - C * p
  BY <1>1, SMT
<1> HIDE DEF z
<1>3. (a % C) - (b % C) = C * z
  BY <1>1, <1>2
<1>4. C * z < C /\ C * z > 0 - C
  BY <1>1, <1>3
<1>5. z = 0
  BY <1>2, <1>4, SmallMultiple
<1>6. C * z = 0
  BY <1>5
<1> QED
  BY <1>1, <1>3, <1>6

(* Positions that share a slot are a multiple of C apart.                  *)
LEMMA SlotsApart ==
    ASSUME NEW C \in Nat, C > 0, NEW a \in Nat, NEW b \in Nat,
           a % C = b % C
    PROVE  \E q \in Int : a = b + C * q
<1> DEFINE p == a \div C
           s == b \div C
<1>1. /\ p \in Nat /\ s \in Nat
      /\ a % C \in 0 .. (C - 1) /\ b % C \in 0 .. (C - 1)
      /\ a = C * p + (a % C) /\ b = C * s + (b % C)
  BY DivMod
<1> HIDE DEF p, s
<1>2. /\ p - s \in Int /\ C * p \in Int /\ C * s \in Int
      /\ C * (p - s) = C * p - C * s
  BY <1>1, SMT
<1>3. a = b + C * (p - s)
  BY <1>1, <1>2
<1> QED
  BY <1>2, <1>3

(* Different positions less than C apart have different slots.             *)
LEMMA SlotsDiffer ==
    ASSUME NEW C \in Nat, C > 0, NEW a \in Nat, NEW b \in Nat,
           a < b + C, b < a + C, a % C = b % C
    PROVE  a = b
<1>1. PICK q \in Int : a = b + C * q
  BY SlotsApart
<1>2. C * q \in Int
  BY SMT
<1>3. C * q < C /\ C * q > 0 - C
  BY <1>1, <1>2
<1>4. q = 0
  BY <1>3, SmallMultiple
<1>5. C * q = 0
  BY <1>4
<1> QED
  BY <1>1, <1>5

(* ----------------------------------------------------------------------- *)

(* What the arithmetic needs of the constants.                             *)
LEMMA Sizes ==
    /\ RxSize \in Nat /\ RxSize > 0 /\ IndexMod \in Nat /\ IndexMod > RxSize
    /\ MinFragment \in Nat /\ MinFragment > 0
    /\ TriggerSize \in Nat /\ TriggerSize > 0
    /\ Backlog \in Nat /\ Backlog < RxSize /\ MinFragment + TriggerSize <= Backlog + 1
    /\ IndexMod % RxSize = 0
  BY UartAssumption

(* The range of the indices is a whole number of laps of either buffer.    *)
LEMMA Laps ==
    ASSUME NEW C \in Nat, C > 0, IndexMod % C = 0
    PROVE  \E q \in Nat : IndexMod = C * q
<1>1. IndexMod \div C \in Nat
      /\ IndexMod = C * (IndexMod \div C) + (IndexMod % C)
  BY Sizes, DivMod
<1> DEFINE q == IndexMod \div C
<1>2. q \in Nat /\ C * q \in Nat
  BY <1>1, Sizes, SMT
<1> HIDE DEF q
<1>3. IndexMod = C * q
  BY <1>1, <1>2, Sizes DEF q
<1> QED
  BY <1>2, <1>3

(* A number below C is its own remainder.                                  *)
LEMMA Small ==
    ASSUME NEW C \in Nat, C > 0, NEW a \in 0 .. (C - 1)
    PROVE  a % C = a
<1>1. a \in Nat /\ a % C \in 0 .. (C - 1) /\ a \div C \in Nat
      /\ a = C * (a \div C) + (a % C)
  BY DivMod
<1> DEFINE p == a \div C
<1>2. C * p < C /\ C * p > 0 - C /\ C * p \in Int
  BY <1>1, SMT
<1> HIDE DEF p
<1>3. p = 0
  BY <1>1, <1>2, SmallMultiple DEF p
<1>4. C * p = 0
  BY <1>3
<1> QED
  BY <1>1, <1>4 DEF p

(* An index and the position it stands for share a cell of the buffer.     *)
LEMMA IndexCell ==
    ASSUME NEW C \in Nat, C > 0, IndexMod % C = 0, NEW k \in Nat
    PROVE  (k % IndexMod) % C = k % C
<1>1. PICK q \in Nat : IndexMod = C * q
  BY Laps
<1> DEFINE a == k % IndexMod
           t == k \div IndexMod
<1>2. a \in Nat /\ t \in Nat /\ k = IndexMod * t + a
  BY Sizes, DivMod
<1> HIDE DEF a, t
<1>3. IndexMod * t = C * (q * t) /\ q * t \in Int
  BY <1>1, <1>2, Sizes, SMT
<1>4. C * (q * t) \in Nat
  BY <1>2, <1>3, Sizes, SMT
<1> DEFINE z == q * t
<1>5. k = a + C * z /\ z \in Int
  BY <1>2, <1>3, <1>4
<1> HIDE DEF a, z
<1>6. k % C = a % C
  BY <1>2, <1>5, SameSlot, ZenonT(60)
<1> QED
  BY <1>6 DEF a

(* The difference of two remainders is the distance of the positions.      *)
LEMMA Between ==
    ASSUME NEW C \in Nat, C > 0, NEW a \in Nat, NEW b \in Nat, b <= a, a - b < C
    PROVE  ((a % C) + C - (b % C)) % C = a - b
<1> DEFINE u == a % C  v == b % C
           s == a \div C  t == b \div C
           d == a - b  w == u + C - v
<1>1. /\ u \in 0 .. (C - 1) /\ s \in Nat /\ a = C * s + u
      /\ v \in 0 .. (C - 1) /\ t \in Nat /\ b = C * t + v
  BY DivMod
<1> HIDE DEF u, v, s, t
<1>2. /\ C * s \in Int /\ C * t \in Int
      /\ C * ((1 + t) - s) = (C + C * t) - C * s
  BY <1>1, SMT
<1>3. w = d + C * ((1 + t) - s)
  BY <1>1, <1>2
<1>4. w \in Nat /\ d \in 0 .. (C - 1) /\ (1 + t) - s \in Int
  BY <1>1
<1> DEFINE z == (1 + t) - s
<1>5. w \in Nat /\ d \in Nat /\ z \in Int /\ w = d + C * z
  BY <1>3, <1>4
<1> HIDE DEF w, d, z
<1>6. w % C = d % C
  BY <1>5, SameSlot, ZenonT(60)
<1>7. d % C = d
  BY <1>4, Small
<1> QED
  BY <1>6, <1>7 DEF w, u, v, d

(* Indices less than a turn apart give the distance of their counts.       *)
LEMMA DistanceIs ==
    ASSUME NEW a \in Nat, NEW b \in Nat, b <= a, a - b < IndexMod
    PROVE  Distance(a % IndexMod, b % IndexMod) = a - b
<1>1. IndexMod \in Nat /\ IndexMod > 0
  BY Sizes
<1>2. ((a % IndexMod) + IndexMod - (b % IndexMod)) % IndexMod = a - b
  BY <1>1, Between
<1> QED
  BY <1>2 DEF Distance, Index

(* An index that is advanced stands for the advanced position.             *)
LEMMA IndexAdvance ==
    ASSUME NEW k \in Nat, NEW n \in Nat
    PROVE  Index((k % IndexMod) + n) = (k + n) % IndexMod
<1> DEFINE a == k % IndexMod
           t == k \div IndexMod
           x == k + n
           y == a + n
<1>1. a \in Nat /\ t \in Nat /\ k = IndexMod * t + a /\ IndexMod * t \in Nat
  BY Sizes, DivMod, SMT
<1> HIDE DEF a, t
<1>2. x \in Nat /\ y \in Nat /\ x = y + IndexMod * t /\ t \in Int
  BY <1>1
<1> HIDE DEF x, y
<1>3. x % IndexMod = y % IndexMod
  <2>1. IndexMod \in Nat /\ IndexMod > 0
    BY Sizes
  <2> QED
    BY <1>2, <2>1, SameSlot, ZenonT(60)
<1> QED
  BY <1>3 DEF Index, x, y, a

(* The index is rebuilt exactly from the one seen last and the DMA's       *)
(* position, as long as the DMA has not lapped the reader.                 *)
LEMMA UpdateInIs ==
    ASSUME NEW seen \in Nat, received \in Nat, seen <= received, received - seen < RxSize,
           rxIn = seen % IndexMod
    PROVE  UpdateIn = received % IndexMod
<1> DEFINE m == rxIn % RxSize
           o == received % RxSize
           d == received - seen
           base == rxIn - m
           same == base + o
<1>1. rxIn \in Nat /\ m \in 0 .. (RxSize - 1) /\ rxIn >= m
      /\ o \in 0 .. (RxSize - 1) /\ d \in 0 .. (RxSize - 1)
  <2>1. rxIn \in Nat
    BY Sizes, DivMod
  <2> DEFINE p == rxIn \div RxSize
  <2>2. p \in Nat /\ rxIn = RxSize * p + m /\ m \in 0 .. (RxSize - 1)
        /\ o \in 0 .. (RxSize - 1)
    BY <2>1, Sizes, DivMod
  <2> HIDE DEF p, m, o
  <2>3. RxSize * p \in Nat
    BY <2>2, Sizes, SMT
  <2> QED
    BY <2>1, <2>2, <2>3, Sizes
<1>2. m = seen % RxSize
  BY Sizes, IndexCell
<1>3. o = IF m + d < RxSize THEN m + d ELSE m + d - RxSize
  <2> DEFINE p == seen \div RxSize  x == m + d
  <2>1. p \in Nat /\ seen = RxSize * p + m /\ RxSize * p \in Nat
    BY <1>2, Sizes, DivMod, SMT
  <2> HIDE DEF p, m
  <2>2. x \in Nat /\ received = x + RxSize * p /\ p \in Int
    BY <1>1, <2>1
  <2> HIDE DEF x
  <2>3. o = x % RxSize
    BY <2>2, Sizes, SameSlot
  <2> DEFINE y == x - RxSize
  <2>4. CASE x < RxSize
    <3>1. x \in 0 .. (RxSize - 1)
      BY <2>2, <2>4, Sizes
    <3> QED
      BY <2>3, <2>4, <3>1, Sizes, Small DEF x
  <2>5. CASE x >= RxSize
    <3>1. y \in 0 .. (RxSize - 1)
      BY <1>1, <2>5, Sizes DEF x
    <3>2. y \in Nat /\ x = y + RxSize * 1
      BY <2>2, <3>1, Sizes
    <3> HIDE DEF y
    <3>3. x % RxSize = y % RxSize /\ y % RxSize = y
      BY <2>2, <3>1, <3>2, Sizes, SameSlot, Small
    <3> QED
      BY <1>1, <2>3, <2>5, <3>3, Sizes DEF x, y
  <2> QED
    BY <1>1, <2>2, <2>4, <2>5, Sizes DEF x
<1>4. (IF same < rxIn THEN same + RxSize ELSE same) = rxIn + d
  <2> HIDE DEF m, o, d
  <2> QED
    BY <1>1, <1>3, Sizes
<1>5. Index(rxIn + d) = (seen + d) % IndexMod
  BY <1>1, IndexAdvance
<1>6. seen + d = received
  BY <1>1
<1> QED
  BY <1>4, <1>5, <1>6 DEF UpdateIn, DmaOffset

(* A cell the DMA has written within the last lap still holds that byte.   *)
LEMMA RxDataIs ==
    ASSUME received \in Nat, NEW from \in Nat, NEW i \in Nat, i > 0,
           from + i <= received, received - from < RxSize
    PROVE  RxData((from % IndexMod) + i - 1) = from + i
<1> DEFINE a == from % IndexMod
           n == i - 1
           at == from + n
           index == a + i - 1
           Holds(b) == /\ (b - 1) % RxSize = index % RxSize
                       /\ \A j \in (b + 1) .. received : (j - 1) % RxSize # index % RxSize
<1>1. a \in Nat /\ n \in Nat /\ at \in Nat /\ index = a + n /\ from + i = at + 1
  BY Sizes, DivMod
<1>2. a % RxSize = from % RxSize
  BY Sizes, IndexCell
<1> HIDE DEF a, n
<1>3. (a + n) % RxSize = (from + n) % RxSize
  <2> DEFINE x == a + n
  <2>1. PICK q \in Int : a = from + RxSize * q
    BY <1>1, <1>2, Sizes, SlotsApart
  <2>2. RxSize * q \in Int
    BY <2>1, Sizes, SMT
  <2>3. x = at + RxSize * q /\ x \in Nat
    BY <1>1, <2>1, <2>2
  <2> HIDE DEF x, at, index, Holds
  <2>4. x % RxSize = at % RxSize
    BY <1>1, <2>1, <2>3, Sizes, SameSlot
  <2> QED
    BY <2>4 DEF x, at
<1>4. index % RxSize = at % RxSize
  BY <1>1, <1>3
<1>5. at + 1 \in 1 .. received /\ received <= at + RxSize
  BY <1>1, Sizes
<1> HIDE DEF at, index
<1>6. Holds(at + 1)
  <2>1. (at + 1) - 1 = at
    BY <1>1
  <2>2. ASSUME NEW j \in (at + 2) .. received, (j - 1) % RxSize = at % RxSize
        PROVE  FALSE
    <3> DEFINE c == j - 1
    <3>1. c \in Nat /\ c > at /\ c < at + RxSize /\ at < c + RxSize
      BY <1>1, <1>5, Sizes
    <3> HIDE DEF c
    <3>2. c % RxSize = at % RxSize
      BY <2>2 DEF c
    <3> QED
      BY <1>1, <3>1, <3>2, Sizes, SlotsDiffer
  <2>3. (at + 1) + 1 = at + 2
    BY <1>1
  <2> QED
    BY <1>4, <2>1, <2>2, <2>3
<1>7. ASSUME NEW b \in 1 .. received, Holds(b)
      PROVE  b = at + 1
  <2>1. CASE b < at + 1
    <3>1. at + 1 \in (b + 1) .. received
      BY <1>1, <1>5, <2>1
    <3> QED
      BY <1>6, <1>7, <3>1
  <2>2. CASE b > at + 1
    <3>1. b \in ((at + 1) + 1) .. received
      BY <1>1, <1>5, <2>2
    <3> QED
      BY <1>6, <1>7, <3>1
  <2> QED
    BY <1>1, <2>1, <2>2
<1>8. RxData(index) = CHOOSE b \in 1 .. received : Holds(b)
  BY DEF RxData
<1> HIDE DEF Holds
<1>9. (CHOOSE b \in 1 .. received : Holds(b)) = at + 1
  BY <1>5, <1>6, <1>7
<1> QED
  BY <1>1, <1>8, <1>9 DEF index, a

-----------------------------------------------------------------------------
(* Between two interrupts the line has never brought a whole lap: a        *)
(* fragment is left behind by the last one at most, and the DMA asks for   *)
(* the next one within TriggerSize bytes.                                  *)
Waiting ==
    /\ received - released <= Backlog
    /\ dmaIrq \/ received - released < MinFragment + (received % TriggerSize)

(* Both indices stand for positions on the line: that of out_ for what was *)
(* released, that of in_ for some position seen since.                     *)
RxIndices ==
    /\ rxOut = released % IndexMod
    /\ \E seen \in released .. received : rxIn = seen % IndexMod

RxCounts ==
    /\ received \in Nat /\ released \in 0 .. received
    /\ dmaIrq \in BOOLEAN

(* The inductive invariant of the receive side.                            *)
RxInv == RxCounts /\ RxIndices /\ Waiting /\ RxExact

(* Nothing has been received.                                              *)
LEMMA InitRx == Init => RxInv
<1> SUFFICES ASSUME Init PROVE RxInv
  OBVIOUS
<1>1. 0 % IndexMod = 0 /\ 0 % TriggerSize = 0
  BY Sizes, Small
<1>2. RxCounts /\ Waiting
  <2>1. received = 0 /\ released = 0 /\ dmaIrq = FALSE
    BY DEF Init
  <2>2. received % TriggerSize = 0
    BY <1>1, <2>1
  <2>3. received - released <= Backlog
        /\ received - released < MinFragment + (received % TriggerSize)
    BY <2>1, <2>2, Sizes
  <2> QED
    <3>1. RxCounts
      <4>1. dmaIrq \in BOOLEAN
        BY <2>1
      <4>2. received \in Nat /\ released \in 0 .. received
        BY <2>1
      <4> QED
        BY <4>1, <4>2 DEF RxCounts
    <3>2. Waiting
      BY <2>3 DEF Waiting
    <3> QED
      BY <3>1, <3>2
<1>3. RxIndices
  BY <1>1 DEF Init, RxIndices
<1>4. RxExact
  BY DEF Init, RxExact, NoChunk
<1> QED
  BY <1>2, <1>3, <1>4 DEF RxInv

(* What is left behind grows with the position in the trigger period,      *)
(* which ends with an interrupt.                                           *)
LEMMA Trigger ==
    ASSUME NEW r \in Nat
    PROVE  /\ r % TriggerSize \in 0 .. (TriggerSize - 1)
           /\ \/ (r + 1) % TriggerSize = 0
              \/ (r + 1) % TriggerSize = (r % TriggerSize) + 1
<1> DEFINE m == r % TriggerSize
           p == r \div TriggerSize
           n == r + 1
           k == m + 1
<1>1. m \in 0 .. (TriggerSize - 1) /\ p \in Nat /\ r = TriggerSize * p + m
      /\ TriggerSize * p \in Nat
  BY Sizes, DivMod, SMT
<1> HIDE DEF m, p
<1>2. /\ n \in Nat /\ k \in Nat /\ n = k + TriggerSize * p /\ p \in Int
      /\ TriggerSize \in Nat /\ TriggerSize > 0
  BY <1>1, Sizes
<1> HIDE DEF n, k
<1>3. n % TriggerSize = k % TriggerSize
  BY <1>2, SameSlot, ZenonT(60)
<1>4. CASE k < TriggerSize
  <2>1. k \in 0 .. (TriggerSize - 1)
    BY <1>2, <1>4
  <2> QED
    BY <1>1, <1>2, <1>3, <2>1, Small DEF k, n, m
<1>5. CASE k >= TriggerSize
  <2> DEFINE z == 0
  <2>1. z \in Nat /\ k = z + TriggerSize * 1 /\ z \in 0 .. (TriggerSize - 1)
    BY <1>1, <1>2, <1>5 DEF k
  <2> HIDE DEF z
  <2>2. k % TriggerSize = z % TriggerSize /\ z % TriggerSize = z
    BY <1>2, <2>1, SameSlot, Small
  <2> QED
    BY <1>1, <1>3, <2>2 DEF z, n, m
<1> QED
  BY <1>2, <1>4, <1>5

(* A byte on the line: the guard, or the trigger, keeps the backlog        *)
(* bounded.                                                                *)
LEMMA ShiftKeeps == RxInv /\ Shift => RxInv'
<1> SUFFICES ASSUME RxInv, Shift PROVE RxInv'
  OBVIOUS
<1>1. /\ received \in Nat /\ released \in 0 .. received
      /\ dmaIrq \in BOOLEAN
  BY DEF RxInv, RxCounts
<1>2. /\ received' = received + 1 /\ released' = released
      /\ rxIn' = rxIn /\ rxOut' = rxOut
      /\ dmaIrq' = (dmaIrq \/ received' % TriggerSize = 0)
      /\ dmaIrq => received - released < Backlog
      /\ uplink' = NoChunk
  BY DEF Shift
<1>3. RxCounts'
  BY <1>1, <1>2 DEF RxCounts
<1>4. RxIndices'
  <2>1. PICK seen \in released .. received : rxIn = seen % IndexMod
    BY DEF RxInv, RxIndices
  <2>2. seen \in released' .. received'
    BY <1>1, <1>2, <2>1
  <2> QED
    BY <1>2, <2>1, <2>2 DEF RxInv, RxIndices
<1>5. Waiting'
  <2>1. /\ received % TriggerSize \in 0 .. (TriggerSize - 1)
        /\ \/ received' % TriggerSize = 0
           \/ received' % TriggerSize = (received % TriggerSize) + 1
    BY <1>1, <1>2, Trigger
  <2>2. dmaIrq \/ received - released < MinFragment + (received % TriggerSize)
    BY DEF RxInv, Waiting
  <2>3. received' - released' <= Backlog
    BY <1>1, <1>2, <2>1, <2>2, Sizes
  <2>4. dmaIrq' \/ received' - released' < MinFragment + (received' % TriggerSize)
    <3>1. CASE dmaIrq'
      BY <3>1
    <3>2. CASE ~dmaIrq'
      <4>1. ~dmaIrq /\ received' % TriggerSize # 0
        BY <1>2, <3>2
      <4> QED
        BY <1>1, <1>2, <2>1, <2>2, <4>1, Sizes
    <3> QED
      BY <3>1, <3>2
  <2> QED
    BY <2>3, <2>4 DEF Waiting
<1>6. RxExact'
  BY <1>2 DEF RxExact, NoChunk
<1> QED
  BY <1>3, <1>4, <1>5, <1>6 DEF RxInv

(* An interrupt counts exactly what was not released, and either leaves    *)
(* less than a fragment or releases all of it, each byte from its own      *)
(* cell.                                                                   *)
LEMMA ServeIs ==
    ASSUME RxInv, NEW idle \in BOOLEAN, Serve(idle), received' = received
    PROVE  LET count == received - released
           IN  /\ rxIn' = received % IndexMod
               /\ rxOut' = released' % IndexMod
               /\ \/ /\ ~idle /\ count < MinFragment
                     /\ released' = released /\ uplink' = uplink
                  \/ /\ released' = received
                     /\ \/ count > MaxPayload /\ uplink' = NoChunk
                        \/ uplink' = [bytes |-> [i \in 1 .. count |-> released + i],
                                      idle |-> idle]
<1> DEFINE count == received - released
<1>1. /\ received \in Nat /\ released \in 0 .. received /\ released \in Nat
      /\ rxOut = released % IndexMod
  BY DEF RxInv, RxCounts, RxIndices
<1>2. PICK seen \in released .. received : rxIn = seen % IndexMod
  BY DEF RxInv, RxIndices
<1>3. count \in Nat /\ count <= Backlog /\ count < RxSize /\ count < IndexMod
      /\ received - seen < RxSize /\ seen \in Nat /\ seen <= received
  BY <1>1, <1>2, Sizes DEF RxInv, Waiting
<1>4. UpdateIn = received % IndexMod
  BY <1>1, <1>2, <1>3, UpdateInIs
<1>5. Distance(UpdateIn, rxOut) = count
  BY <1>1, <1>3, <1>4, DistanceIs
<1>6. Index(rxOut + count) = received % IndexMod
  <2>1. released + count = received
    BY <1>1
  <2> QED
    BY <1>1, <1>3, <2>1, IndexAdvance
<1>7. ASSUME NEW i \in 1 .. count
      PROVE  RxData(rxOut + i - 1) = released + i
  <2>1. i \in Nat /\ i > 0 /\ released + i <= received
    BY <1>1, <1>3, <1>7
  <2> QED
    BY <1>1, <1>3, <2>1, RxDataIs
<1>8. [i \in 1 .. count |-> RxData(rxOut + i - 1)] = [i \in 1 .. count |-> released + i]
  BY <1>7
<1>9. rxIn' = received % IndexMod
  BY <1>4 DEF Serve
<1>10. CASE HoldsBack(count, idle)
  <2>1. rxOut' = rxOut /\ released' = released /\ uplink' = uplink
    BY <1>5, <1>10 DEF Serve
  <2> QED
    BY <1>1, <1>9, <1>10, <2>1 DEF HoldsBack
<1>11. CASE ~HoldsBack(count, idle)
  <2>1. /\ rxOut' = Index(rxOut + count) /\ released' = released + count
        /\ uplink' = IF count > MaxPayload THEN NoChunk
                     ELSE [bytes |-> [i \in 1 .. count |-> RxData(rxOut + i - 1)],
                           idle |-> idle]
    BY <1>5, <1>11 DEF Serve
  <2>2. released' = received
    BY <1>1, <2>1
  <2> HIDE DEF count
  <2> QED
    BY <1>6, <1>8, <1>9, <2>1, <2>2 DEF count
<1> QED
  BY <1>10, <1>11

(* So a served interrupt keeps the invariant, whichever it was.            *)
LEMMA ServeKeeps ==
    ASSUME RxInv, NEW idle \in BOOLEAN, Serve(idle), received' = received,
           dmaIrq' \in BOOLEAN, idle => dmaIrq' = dmaIrq
    PROVE  RxInv'
<1> DEFINE count == received - released
<1>1. /\ received \in Nat /\ released \in 0 .. received
      /\ received - released <= Backlog
  BY DEF RxInv, RxCounts, Waiting
<1>2. /\ rxIn' = received % IndexMod
      /\ rxOut' = released' % IndexMod
      /\ \/ /\ ~idle /\ count < MinFragment
            /\ released' = released /\ uplink' = uplink
         \/ /\ released' = received
            /\ \/ count > MaxPayload /\ uplink' = NoChunk
               \/ uplink' = [bytes |-> [i \in 1 .. count |-> released + i], idle |-> idle]
  BY ServeIs
<1>3. released' \in 0 .. received' /\ received' - released' \in 0 .. count
      /\ received' - released' < MinFragment /\ received' - released' <= Backlog
  BY <1>1, <1>2, Sizes
<1>4. RxCounts'
  BY <1>1, <1>3 DEF RxCounts
<1>5. RxIndices'
  <2>1. received \in released' .. received' /\ rxIn' = received % IndexMod
    BY <1>1, <1>2, <1>3
  <2> QED
    BY <1>2, <2>1 DEF RxIndices
<1>6. Waiting'
  <2>1. received' % TriggerSize \in 0 .. (TriggerSize - 1)
    BY <1>1, Trigger
  <2>2. received' - released' < MinFragment + (received' % TriggerSize)
    <3> DEFINE m == received' % TriggerSize
               k == received' - released'
    <3>1. m \in 0 .. (TriggerSize - 1) /\ k \in 0 .. count /\ k < MinFragment
      BY <1>3, <2>1
    <3> HIDE DEF m, k
    <3>2. k < MinFragment + m
      BY <1>1, <3>1, Sizes
    <3> QED
      BY <3>2 DEF m, k
  <2>3. received' - released' <= Backlog
    BY <1>3
  <2> HIDE DEF count
  <2> QED
    BY <2>2, <2>3 DEF Waiting
<1>7. RxExact'
  <2>1. CASE released' = released /\ uplink' = uplink
    BY <2>1 DEF RxInv, RxExact
  <2>2. CASE uplink' = NoChunk
    BY <2>2 DEF RxExact, NoChunk
  <2>3. CASE /\ released' = received
             /\ uplink' = [bytes |-> [i \in 1 .. count |-> released + i], idle |-> idle]
    <3>1. count \in Nat /\ uplink'.bytes = [i \in 1 .. count |-> released + i]
      BY <1>1, <2>3
    <3>2. Len(uplink'.bytes) = count
      BY <3>1
    <3> QED
      BY <1>1, <2>3, <3>1, <3>2 DEF RxExact
  <2> QED
    BY <1>2, <2>1, <2>2, <2>3
<1> QED
  BY <1>4, <1>5, <1>6, <1>7 DEF RxInv

(* The actions of the other contexts and of the line.                      *)
LEMMA OthersKeep ==
    ASSUME RxInv, UNCHANGED <<received, rxVars, dmaIrq>>
    PROVE  RxInv'
  BY DEF RxInv, RxCounts, RxIndices, Waiting, RxExact, rxVars

(* One step per action.                                                    *)
LEMMA StepKeeps == RxInv /\ [Next]_vars => RxInv'
<1> SUFFICES ASSUME RxInv, [Next]_vars PROVE RxInv'
  OBVIOUS
<1>1. dmaIrq \in BOOLEAN
  BY DEF RxInv, RxCounts
<1>2. CASE UNCHANGED vars
  BY <1>1, <1>2, OthersKeep DEF vars, lineVars, wireVars, rxVars, irqVars
<1>3. ASSUME NEW size \in 0 .. MaxWrite, NEW idle \in BOOLEAN, Enqueue(size, idle)
      PROVE  RxInv'
  BY <1>1, <1>3, OthersKeep DEF Enqueue, rxVars, irqVars
<1>4. CASE Settle
  BY <1>1, <1>4, OthersKeep DEF Settle, lineVars, wireVars, rxVars, irqVars
<1>5. CASE Load
  BY <1>1, <1>5, OthersKeep DEF Load, lineVars, wireVars, rxVars, irqVars
<1>6. CASE Wait
  BY <1>1, <1>6, OthersKeep DEF Wait, lineVars, wireVars, rxVars, irqVars
<1>7. CASE PassCheckpoint
  BY <1>1, <1>7, OthersKeep DEF PassCheckpoint, lineVars, wireVars, rxVars, irqVars
<1>8. CASE Select
  BY <1>1, <1>8, OthersKeep DEF Select, lineVars, wireVars, rxVars, irqVars
<1>9. CASE TriggerDma
  BY <1>1, <1>9, OthersKeep DEF TriggerDma, lineVars, wireVars, rxVars, irqVars
<1>10. ASSUME NEW ok \in BOOLEAN, SetBaudrate(ok)
       PROVE  RxInv'
  BY <1>1, <1>10, OthersKeep DEF SetBaudrate, rxVars, irqVars
<1>11. CASE DmaPush
  BY <1>1, <1>11, OthersKeep DEF DmaPush, wireVars, rxVars, irqVars
<1>12. CASE Shift
  BY <1>12, ShiftKeeps
<1>13. CASE RxLineIdle
  BY <1>1, <1>13, OthersKeep DEF RxLineIdle, wireVars, rxVars
<1>14. CASE TxLineIdle
  BY <1>1, <1>14, OthersKeep DEF TxLineIdle, wireVars, rxVars, irqVars
<1>15. CASE DmaTcHalfTcCallback
  BY <1>1, <1>15, ServeKeeps DEF DmaTcHalfTcCallback, lineVars, wireVars
<1>16. CASE RxIdleCallback
  BY <1>1, <1>16, ServeKeeps DEF RxIdleCallback, lineVars, wireVars
<1> QED
  BY <1>2, <1>3, <1>4, <1>5, <1>6, <1>7, <1>8, <1>9, <1>10, <1>11, <1>12, <1>13,
     <1>14, <1>15, <1>16 DEF Next

(* In every reachable state the indices of the receive buffer stand for    *)
(* the positions its interrupts have seen, and the line is less than a lap *)
(* ahead.                                                                  *)
THEOREM ReceiveInvariant == Spec => []RxInv
  BY InitRx, StepKeeps, PTL DEF Spec

(* Every chunk sent uplink holds the bytes that follow those released      *)
(* before it, for every buffer size that divides the range of the index,   *)
(* every fragment and trigger size, and any backlog short of a lap.        *)
THEOREM ReceiveExact == Spec => []RxExact
<1>1. RxInv => RxExact
  BY DEF RxInv
<1> QED
  BY <1>1, ReceiveInvariant, PTL

(* An idle period is reported behind every byte before it, with the empty  *)
(* chunk where nothing is left to report it with.                          *)
THEOREM IdlesReported == Spec => IdleReported
<1> DEFINE Reported == idleIrq /\ ~idleIrq' =>
         released' = received /\ (uplink'.idle \/ received - released > MaxPayload)
<1>1. RxInv /\ [Next]_vars => Reported
  <2> SUFFICES ASSUME RxInv, [Next]_vars, idleIrq, ~idleIrq'
               PROVE  released' = received /\ (uplink'.idle \/ received - released > MaxPayload)
    OBVIOUS
  <2>1. idleIrq' # idleIrq
    BY Zenon
  <2>2. RxIdleCallback
    <3>1. ~UNCHANGED vars
      BY <2>1 DEF vars, irqVars
    <3>2. ~(\E size \in 0 .. MaxWrite, idle \in BOOLEAN : Enqueue(size, idle))
      BY <2>1 DEF Enqueue, irqVars
    <3>3. ~Settle /\ ~Load /\ ~Wait /\ ~PassCheckpoint /\ ~Select /\ ~TriggerDma
      BY <2>1 DEF Settle, Load, Wait, PassCheckpoint, Select, TriggerDma, irqVars
    <3>4. ~(\E ok \in BOOLEAN : SetBaudrate(ok)) /\ ~DmaPush /\ ~TxLineIdle
      BY <2>1 DEF SetBaudrate, DmaPush, TxLineIdle, irqVars
    <3>5. ~Shift /\ ~DmaTcHalfTcCallback
      BY <2>1 DEF Shift, DmaTcHalfTcCallback
    <3>6. ~RxLineIdle
      BY Zenon DEF RxLineIdle
    <3> QED
      BY <3>1, <3>2, <3>3, <3>4, <3>5, <3>6 DEF Next
  <2>3. Serve(TRUE) /\ received' = received
    BY <2>2 DEF RxIdleCallback, lineVars, wireVars
  <2>4. /\ released' = received
        /\ \/ received - released > MaxPayload
           \/ uplink' = [bytes |-> [i \in 1 .. (received - released) |-> released + i],
                         idle |-> TRUE]
    BY <2>3, ServeIs
  <2> QED
    BY <2>4
<1> QED
  BY <1>1, ReceiveInvariant, PTL DEF Spec, IdleReported

-----------------------------------------------------------------------------
(* The transmit side.                                                      *)
LEMMA TxSizes ==
    /\ TxSize \in Nat /\ TxSize > 0 /\ IndexMod \in Nat /\ IndexMod > TxSize /\ IndexMod > 0
    /\ IndexMod % TxSize = 0
    /\ MaxIdleCount \in Nat /\ FifoDepth \in Nat /\ FifoDepth > 0
    /\ StreamSize \in Nat /\ MaxWrite \in Nat
  BY UartAssumption

(* What the transmit side is made of.                                      *)
TxTypes ==
    /\ txIn \in Nat /\ txOut \in Nat /\ inFlight \in Nat
    /\ txData \in [TxCell -> Nat]
    /\ checkpoints \in Seq(Nat)
    /\ step \in {"rest", "load", "select", "start"} /\ readable \in Nat
    /\ dmaAt \in Nat /\ dmaLeft \in Nat
    /\ fifo \in Seq(Nat) /\ last \in Nat /\ received \in Nat /\ accepted \in Nat
    /\ boundaries \subseteq Nat /\ seams \subseteq Nat /\ discarded \in Nat
    /\ stale \subseteq Nat

(* A sequence over a set is one over every larger set.                     *)
LEMMA SeqWider ==
    ASSUME NEW S, NEW T, S \subseteq T, NEW q \in Seq(S)
    PROVE  q \in Seq(T)
<1>1. Len(q) \in Nat /\ q = [i \in 1 .. Len(q) |-> q[i]] /\ \A i \in 1 .. Len(q) : q[i] \in S
  OBVIOUS
<1>2. [i \in 1 .. Len(q) |-> q[i]] \in Seq(T)
  BY <1>1
<1> QED
  BY <1>1, <1>2

(* What the transmit side needs of the type invariant.                     *)
LEMMA TypeOKGives == TypeOK => TxTypes
<1> SUFFICES ASSUME TypeOK PROVE TxTypes
  OBVIOUS
<1>1. /\ txIn \in Nat /\ txOut \in Nat /\ inFlight \in Nat /\ readable \in Nat
      /\ dmaAt \in Nat /\ dmaLeft \in Nat /\ received \in Nat /\ accepted \in Nat
      /\ last \in Nat /\ discarded \in Nat
  BY TxSizes DEF TypeOK, TxCell, Byte
<1>2. /\ txData \in [TxCell -> Nat] /\ boundaries \subseteq Nat /\ seams \subseteq Nat
      /\ stale \subseteq Nat /\ step \in {"rest", "load", "select", "start"}
  BY TxSizes DEF TypeOK
<1>3. checkpoints \in Seq(Nat)
  <2>1. checkpoints \in Seq(0 .. (IndexMod - 1)) /\ 0 .. (IndexMod - 1) \subseteq Nat
    BY TxSizes DEF TypeOK
  <2> QED
    BY <2>1, SeqWider
<1>4. fifo \in Seq(Nat)
  <2>1. fifo \in Seq(Byte) /\ Byte \subseteq Nat
    BY TxSizes DEF TypeOK, Byte
  <2> QED
    BY <2>1, SeqWider
<1> QED
  BY <1>1, <1>2, <1>3, <1>4 DEF TxTypes

(* Every byte of the row is a number, and the DMA does not run past its    *)
(* burst.                                                                  *)
LEMMA RowTyped ==
    ASSUME TxTypes, NEW out \in Nat, Buffered(out)
    PROVE  /\ Len(fifo) \in Nat
           /\ Pushed(out) \in Nat /\ out <= Pushed(out) /\ Pushed(out) <= out + inFlight
           /\ Pushed(out) <= accepted
           /\ \A k \in 0 .. (Len(fifo) + 1) : Row(out, k) \in Nat
           /\ Row(out, 0) = last /\ Row(out, Len(fifo) + 1) = Pushed(out) + 1
           /\ \A k \in 1 .. Len(fifo) : Row(out, k) = fifo[k]
<1>1. /\ inFlight \in Nat /\ dmaLeft \in Nat /\ dmaLeft <= inFlight /\ last \in Nat
      /\ fifo \in Seq(Nat) /\ Len(fifo) \in Nat /\ accepted \in Nat /\ out + inFlight <= accepted
  BY DEF TxTypes, Buffered
<1>2. /\ Pushed(out) \in Nat /\ out <= Pushed(out) /\ Pushed(out) <= out + inFlight
      /\ Pushed(out) <= accepted
  BY <1>1 DEF Pushed
<1>3. Row(out, 0) = last /\ Row(out, Len(fifo) + 1) = Pushed(out) + 1
  BY <1>1 DEF Row
<1>4. \A k \in 1 .. Len(fifo) : Row(out, k) = fifo[k] /\ fifo[k] \in Nat
  BY <1>1 DEF Row
<1>5. \A k \in 0 .. (Len(fifo) + 1) : k = 0 \/ k = Len(fifo) + 1 \/ k \in 1 .. Len(fifo)
  BY <1>1
<1> QED
  BY <1>1, <1>2, <1>3, <1>4, <1>5

(* Where no byte moves the row stays as it is.                             *)
LEMMA RowStays ==
    ASSUME NEW out, NEW o, fifo' = fifo, last' = last, Pushed(o)' = Pushed(out)
    PROVE  \A k : Row(o, k)' = Row(out, k)
  BY DEF Row

(* Bytes in flight stay in order when neither line nor FIFO moves.         *)
LEMMA ConsecutiveStays ==
    ASSUME TxTypes, NEW out \in Nat, NEW o \in Nat, Buffered(out), Consecutive(out),
           UNCHANGED <<fifo, last, received, seams, discarded>>,
           Pushed(o)' = Pushed(out), out <= o, accepted' \in Nat, accepted <= accepted'
    PROVE  Consecutive(o)'
<1>1. /\ Len(fifo) \in Nat /\ \A k \in 0 .. (Len(fifo) + 1) : Row(out, k) \in Nat
      /\ accepted \in Nat /\ TxSize \in Nat
  BY RowTyped, TxSizes DEF TxTypes
<1>2. \A k : Row(o, k)' = Row(out, k)
  BY RowStays
<1>3. ASSUME NEW k \in 0 .. Len(fifo)
      PROVE  /\ Row(o, k)' <= o + TxSize /\ Row(o, k)' <= accepted'
             /\ IF received + k \in seams THEN Row(o, k)' < Row(o, k + 1)' + TxSize
                ELSE Row(o, k + 1)' = Row(o, k)' + 1
  <2>1. /\ Row(out, k) <= out + TxSize /\ Row(out, k) <= accepted /\ Row(out, k) \in Nat
        /\ IF received + k \in seams THEN Row(out, k) < Row(out, k + 1) + TxSize
           ELSE Row(out, k + 1) = Row(out, k) + 1
    BY <1>1 DEF Consecutive
  <2> QED
    BY <1>1, <1>2, <2>1
<1>4. \A j, k \in 0 .. (Len(fifo) + 1) :
         j < k => Row(o, k)' <= Row(o, j)' + (k - j) + (IF j = 0 THEN discarded ELSE 0)
  BY <1>2 DEF Consecutive
<1> QED
  BY <1>3, <1>4 DEF Consecutive

(* ------- the invariant at one pair of witnesses, and what keeps it ----- *)
TxAt(out, marks) ==
    /\ Buffered(out) /\ Marked(out, marks) /\ Consecutive(out)
    /\ IdlesKept(out, marks)

(* Counts that fit the state after a step show the invariant there.        *)
LEMMA Witnessed ==
    ASSUME NEW o \in 0 .. accepted', NEW m \in [1 .. Len(checkpoints') -> 0 .. accepted'],
           TxAt(o, m)'
    PROVE  TxInv'
<1>1. /\ Buffered(o)' /\ Marked(o, m)' /\ Consecutive(o)'
      /\ IdlesKept(o, m)'
  BY DEF TxAt
<1> QED
  BY <1>1 DEF TxInv

(* Nothing has been accepted.                                              *)
LEMMA InitTx == Init => TxInv
<1> SUFFICES ASSUME Init PROVE TxInv
  OBVIOUS
<1>1. /\ txIn = 0 /\ txOut = 0 /\ inFlight = 0 /\ accepted = 0 /\ received = 0
      /\ dmaLeft = 0 /\ step = "rest" /\ boundaries = {} /\ boundaryBeforeIn = FALSE
      /\ checkpoints = <<>> /\ fifo = <<>> /\ last = 0 /\ seams = {} /\ discarded = 0
      /\ idleFlag = FALSE /\ stale = {}
  BY DEF Init
<1>2. Len(checkpoints) = 0 /\ Len(fifo) = 0
  BY <1>1
<1> DEFINE marks == [i \in 1 .. Len(checkpoints) |-> 0]
<1>3. marks \in [1 .. Len(checkpoints) -> 0 .. accepted] /\ 0 \in 0 .. accepted
  BY <1>1, <1>2
<1> HIDE DEF marks
<1>4. Buffered(0)
  <2>1. 0 % IndexMod = 0
    BY TxSizes, Small
  <2> QED
    BY <1>1, <2>1, TxSizes DEF Buffered
<1>5. Marked(0, marks)
  BY <1>1, <1>2 DEF Marked
<1>6. Consecutive(0)
  <2>1. Row(0, 0) = 0 /\ Row(0, 1) = 1
    BY <1>1, <1>2 DEF Row, Pushed
  <2>2. \A k \in 0 .. (Len(fifo) + 1) : k = 0 \/ k = 1
    BY <1>2
  <2>3. ASSUME NEW k \in 0 .. Len(fifo)
        PROVE  /\ Row(0, k) <= 0 + TxSize /\ Row(0, k) <= accepted
               /\ IF received + k \in seams THEN Row(0, k) < Row(0, k + 1) + TxSize
                  ELSE Row(0, k + 1) = Row(0, k) + 1
    <3>1. k = 0
      BY <1>2
    <3> QED
      BY <1>1, <2>1, <3>1, TxSizes
  <2>4. ASSUME NEW j \in 0 .. (Len(fifo) + 1), NEW k \in 0 .. (Len(fifo) + 1), j < k
        PROVE  Row(0, k) <= Row(0, j) + (k - j) + (IF j = 0 THEN discarded ELSE 0)
    <3>1. j = 0 /\ k = 1
      BY <1>2, <2>4
    <3> QED
      BY <1>1, <2>1, <3>1
  <2> QED
    BY <2>3, <2>4 DEF Consecutive
<1>7. IdlesKept(0, marks)
  BY <1>1, <1>2 DEF IdlesKept, FreeToBegin, FlagMeant, Rested, CutAt
<1> QED
  BY <1>3, <1>4, <1>5, <1>6, <1>7 DEF TxInv

(* The ring keeps its bytes when neither end nor the DMA moves.            *)
LEMMA BufferedStays ==
    ASSUME NEW out \in Nat, Buffered(out),
           UNCHANGED <<txIn, txOut, inFlight, txData, accepted, dmaAt, dmaLeft>>,
           step' # "rest" => inFlight = 0,
           step' \in {"select", "start"} => readable' > 0 /\ out + readable' <= accepted
    PROVE  Buffered(out)'
  BY DEF Buffered

(* The checkpoints keep their marks when the queue is left alone.          *)
LEMMA MarkedStays ==
    ASSUME NEW out \in Nat, NEW marks, Marked(out, marks),
           UNCHANGED <<checkpoints, inFlight, accepted, boundaries, boundaryBeforeIn>>,
           step' = "start" => \A i \in 1 .. Len(checkpoints) : out + readable' <= marks[i]
    PROVE  Marked(out, marks)'
  BY DEF Marked

(* Idles stay kept while nothing is sent, and no flag is raised too early. *)
LEMMA IdlesStay ==
    ASSUME NEW out \in Nat, NEW marks, IdlesKept(out, marks),
           UNCHANGED <<checkpoints, inFlight, boundaries, fifo, last, received, seams, stale,
                       dmaLeft>>,
           line = "idle" => line' = "idle",
           FreeToBegin', FlagMeant'
    PROVE  IdlesKept(out, marks)'
<1>1. Pushed(out)' = Pushed(out)
  BY DEF Pushed
<1>2. \A k : Row(out, k)' = Row(out, k)
  BY <1>1, RowStays
<1>3. \A p : CutAt(p)' <=> CutAt(p)
  BY DEF CutAt
<1>4. ASSUME NEW k \in 0 .. Len(fifo), k < Len(fifo), Row(out, k)' \in boundaries,
             Row(out, k + 1)' = Row(out, k)' + 1
      PROVE  CutAt(received + k) \/ (k = 0 /\ line' = "idle")
  BY <1>2, <1>4 DEF IdlesKept
<1>5. Rested => Rested'
  BY DEF Rested, CutAt
<1>6. out \in boundaries /\ inFlight = dmaLeft
          => Rested' \/ \E i \in 1 .. Len(checkpoints) : marks[i] = out
  BY <1>5 DEF IdlesKept
<1> QED
  BY <1>4, <1>6 DEF IdlesKept, CutAt

(* The same while the flags stay and no burst starts.                      *)
LEMMA FlagsStay ==
    ASSUME FreeToBegin, FlagMeant,
           UNCHANGED <<inFlight, fifo, received, seams, stale, dmaLeft, triggered, idleFlag, line>>,
           (step' = step /\ readable' = readable) \/ (step # "start" /\ step' # "start")
    PROVE  FreeToBegin' /\ FlagMeant'
<1>1. \A p : CutAt(p)' <=> CutAt(p)
  BY DEF CutAt
<1>2. BurstEnd' = BurstEnd
  BY DEF BurstEnd
<1>3. Rested' <=> Rested
  BY <1>1 DEF Rested
<1>4. FreeToBegin'
  BY <1>3 DEF FreeToBegin
<1>5. FlagMeant'
  BY <1>1, <1>2 DEF FlagMeant
<1> QED
  BY <1>4, <1>5

(* The steps that move neither a byte nor a burst.                         *)
LEMMA QuietKeeps ==
    ASSUME TxTypes, NEW out \in Nat, NEW marks, TxAt(out, marks),
           UNCHANGED <<producerVars, txOut, inFlight, dmaVars, fifo, received, last, seams,
                       discarded>>,
           boundaries' = boundaries,
           step' # "rest" => inFlight = 0,
           step' \in {"select", "start"} => readable' > 0 /\ out + readable' <= accepted,
           step' = "start" => \A i \in 1 .. Len(checkpoints) : out + readable' <= marks[i],
           IdlesKept(out, marks)'
    PROVE  TxAt(out, marks)'
<1>1. /\ UNCHANGED <<txIn, txOut, inFlight, txData, accepted, dmaAt, dmaLeft>>
      /\ UNCHANGED <<checkpoints, boundaries, boundaryBeforeIn>>
      /\ UNCHANGED <<fifo, last, received, seams, discarded>>
  BY DEF producerVars, dmaVars
<1>2. Buffered(out)'
  BY <1>1, BufferedStays DEF TxAt
<1>3. Marked(out, marks)'
  BY <1>1, MarkedStays DEF TxAt
<1>4. Consecutive(out)'
  <2>1. Pushed(out)' = Pushed(out)
    BY <1>1 DEF Pushed
  <2>2. accepted' \in Nat /\ accepted <= accepted' /\ out <= out
    BY <1>1 DEF TxTypes
  <2> QED
    BY <1>1, <2>1, <2>2, ConsecutiveStays DEF TxAt
<1> QED
  BY <1>2, <1>3, <1>4 DEF TxAt

(* The indices of the transmit buffer are as far apart as the positions.   *)
LEMMA TxDistance ==
    ASSUME TxTypes, NEW out \in 0 .. accepted, Buffered(out)
    PROVE  Distance(txIn, txOut) = accepted - out
<1>1. out \in Nat /\ accepted \in Nat /\ out <= accepted /\ accepted - out < IndexMod
  BY TxSizes DEF TxTypes, Buffered
<1>2. Distance(accepted % IndexMod, out % IndexMod) = accepted - out
  BY <1>1, DistanceIs
<1> QED
  BY <1>2 DEF Buffered

(* Loading the producer index keeps the transmit invariant.                *)
LEMMA LoadKeeps ==
    ASSUME TxTypes, NEW out \in 0 .. accepted,
           NEW marks \in [1 .. Len(checkpoints) -> 0 .. accepted], TxAt(out, marks), Load
    PROVE  TxInv'
<1>1. /\ out \in Nat /\ accepted \in Nat /\ out <= accepted
      /\ step = "load" /\ step' \in {"rest", "select"} /\ inFlight = 0
      /\ readable' = accepted - out /\ (step' = "select" => readable' # 0)
  <2>1. out \in Nat /\ accepted \in Nat /\ out <= accepted
    BY DEF TxTypes
  <2>2. step = "load" /\ step' = IF readable' = 0 THEN "rest" ELSE "select"
    BY DEF Load
  <2>3. readable' = accepted - out
    BY TxDistance DEF Load, TxAt
  <2>4. inFlight = 0
    BY <2>2 DEF TxAt, Buffered
  <2> QED
    BY <2>1, <2>2, <2>3, <2>4
<1>2. step' \in {"select", "start"} => readable' > 0 /\ out + readable' <= accepted
  BY <1>1
<1>3. /\ UNCHANGED <<producerVars, txOut, inFlight, dmaVars, fifo, wireVars>>
      /\ line' = line /\ triggered' = triggered /\ idleFlag' = idleFlag
  BY DEF Load, lineVars
<1>4. IdlesKept(out, marks)'
  <2>1. /\ UNCHANGED <<checkpoints, inFlight, boundaries, fifo, last, received, seams, stale>>
        /\ UNCHANGED <<dmaLeft, triggered, idleFlag, line>>
    BY <1>3 DEF producerVars, dmaVars, wireVars
  <2>2. FreeToBegin' /\ FlagMeant'
    BY <1>1, <2>1, FlagsStay DEF TxAt, IdlesKept
  <2> QED
    BY <1>1, <2>1, <2>2, IdlesStay DEF TxAt
<1>5. TxAt(out, marks)'
  BY <1>1, <1>2, <1>3, <1>4, QuietKeeps DEF wireVars
<1> QED
  BY <1>3, <1>5, Witnessed DEF producerVars

(* Waiting for the line to go idle keeps the transmit invariant.           *)
LEMMA WaitKeeps ==
    ASSUME TxTypes, NEW out \in 0 .. accepted,
           NEW marks \in [1 .. Len(checkpoints) -> 0 .. accepted], TxAt(out, marks), Wait
    PROVE  TxInv'
<1>1. /\ UNCHANGED <<producerVars, txOut, inFlight, dmaVars, fifo, wireVars>>
      /\ line' = line /\ triggered' = triggered /\ idleFlag' = idleFlag
      /\ step = "select" /\ step' = "rest"
  BY DEF Wait, lineVars
<1>2. IdlesKept(out, marks)'
  <2>1. /\ UNCHANGED <<checkpoints, inFlight, boundaries, fifo, last, received, seams, stale>>
        /\ UNCHANGED <<dmaLeft, triggered, idleFlag, line>>
    BY <1>1 DEF producerVars, dmaVars, wireVars
  <2>2. FreeToBegin' /\ FlagMeant'
    BY <1>1, <2>1, FlagsStay DEF TxAt, IdlesKept
  <2>3. out \in Nat
    BY DEF TxTypes
  <2> QED
    BY <2>1, <2>2, <2>3, IdlesStay DEF TxAt
<1>3. out \in Nat
  BY DEF TxTypes
<1>4. TxAt(out, marks)'
  BY <1>1, <1>2, <1>3, QuietKeeps DEF wireVars
<1> QED
  BY <1>1, <1>4, Witnessed DEF producerVars

(* The flags of the line: quiet or idle, with nothing left to send.        *)
LEMMA LineKeeps ==
    ASSUME TxTypes, NEW out \in 0 .. accepted,
           NEW marks \in [1 .. Len(checkpoints) -> 0 .. accepted], TxAt(out, marks),
           RxLineIdle \/ TxLineIdle
    PROVE  TxInv'
<1>1. /\ UNCHANGED <<producerVars, txOut, inFlight, dmaVars, fifo>>
      /\ UNCHANGED <<received, last, boundaries, seams, discarded>>
      /\ triggered' = triggered /\ step' = step /\ readable' = readable
  BY DEF RxLineIdle, TxLineIdle, consumerVars, wireVars
<1>2. UNCHANGED <<checkpoints, dmaLeft>>
  BY <1>1 DEF producerVars, dmaVars
<1>3. out \in Nat /\ IdlesKept(out, marks)
  BY DEF TxTypes, TxAt
<1>4. IdlesKept(out, marks)'
  <2>1. CASE RxLineIdle
    <3>1. /\ line = "busy" /\ line' = "quiet" /\ UNCHANGED <<stale, idleFlag>>
      BY <2>1 DEF RxLineIdle, wireVars
    <3>2. Rested' <=> Rested
      BY <1>1, <1>2, <3>1 DEF Rested, IdlesKept, CutAt
    <3>3. FreeToBegin'
      BY <1>1, <1>3, <3>2 DEF FreeToBegin, IdlesKept
    <3>4. FlagMeant'
      <4>1. idleFlag => CutAt(BurstEnd)
        BY <1>3, <3>1 DEF IdlesKept, FlagMeant
      <4>2. BurstEnd' = BurstEnd
        BY <1>1, <1>2 DEF BurstEnd
      <4>3. CutAt(BurstEnd)' <=> CutAt(BurstEnd)
        BY <1>1, <3>1, <4>2 DEF CutAt
      <4> QED
        BY <3>1, <4>1, <4>3 DEF FlagMeant
    <3> QED
      BY <1>1, <1>2, <1>3, <3>1, <3>3, <3>4, IdlesStay
  <2>2. CASE TxLineIdle
    <3>1. /\ fifo = <<>> /\ dmaLeft = 0 /\ line' = "idle"
          /\ stale' = IF step = "start" THEN {received + readable} ELSE {}
      BY <2>2 DEF TxLineIdle, NothingToSend
    <3>2. Rested' /\ Len(fifo) = 0
      BY <1>1, <3>1 DEF Rested
    <3>3. FreeToBegin'
      BY <1>1, <1>3, <3>2 DEF FreeToBegin, IdlesKept
    <3>4. FlagMeant'
      <4>1. CASE step = "start"
        <5>1. received \in Nat /\ readable \in Nat
          BY DEF TxTypes
        <5>2. BurstEnd' = received + readable
          BY <1>1, <1>2, <3>1, <3>2, <4>1, <5>1 DEF BurstEnd
        <5>3. BurstEnd' \in stale'
          BY <3>1, <4>1, <5>2
        <5> QED
          BY <5>3 DEF FlagMeant, CutAt
      <4>2. CASE step # "start"
        BY <1>1, <1>2, <3>1, <4>2 DEF FlagMeant
      <4> QED
        BY <4>1, <4>2
    <3>5. ASSUME NEW k \in 0 .. Len(fifo), k < Len(fifo) PROVE FALSE
      BY <3>2, <3>5
    <3> QED
      BY <1>1, <3>2, <3>3, <3>4, <3>5 DEF IdlesKept
  <2> QED
    BY <2>1, <2>2
<1>5. /\ step' # "rest" => inFlight = 0
      /\ step' \in {"select", "start"} => readable' > 0 /\ out + readable' <= accepted
      /\ step' = "start" => \A i \in 1 .. Len(checkpoints) : out + readable' <= marks[i]
  BY <1>1 DEF TxAt, Buffered, Marked
<1>6. TxAt(out, marks)'
  BY <1>1, <1>3, <1>4, <1>5, QuietKeeps
<1> QED
  BY <1>1, <1>6, Witnessed DEF producerVars

(* The next checkpoint is ahead, and the burst that is selected ends there *)
(* at the latest.                                                          *)
LEMMA SelectKeeps ==
    ASSUME TxTypes, NEW out \in 0 .. accepted,
           NEW marks \in [1 .. Len(checkpoints) -> 0 .. accepted], TxAt(out, marks), Select
    PROVE  TxInv'
<1>1. /\ UNCHANGED <<producerVars, txOut, inFlight, dmaVars, fifo, wireVars>>
      /\ line' = line /\ triggered' = TRUE /\ idleFlag' = FALSE
      /\ step = "select" /\ step' = "start"
      /\ readable' = IF checkpoints = <<>> THEN readable
                     ELSE Distance(Head(checkpoints), txOut)
      /\ checkpoints = <<>> \/ Head(checkpoints) # txOut
  BY DEF Select, ClearFlag, AtCheckpoint, lineVars
<1>2. /\ out \in Nat /\ accepted \in Nat /\ inFlight = 0 /\ readable \in Nat
      /\ readable > 0 /\ out + readable <= accepted /\ accepted - out < IndexMod
  BY <1>1, TxSizes DEF TxTypes, TxAt, Buffered
<1>3. /\ readable' > 0 /\ out + readable' <= accepted
      /\ \A i \in 1 .. Len(checkpoints) : out + readable' <= marks[i]
  <2>1. CASE checkpoints = <<>>
    BY <1>1, <1>2, <2>1
  <2>2. CASE checkpoints # <<>>
    <3>1. Len(checkpoints) \in Nat /\ 1 \in 1 .. Len(checkpoints)
          /\ Head(checkpoints) = checkpoints[1]
      BY <2>2 DEF TxTypes
    <3>2. checkpoints[1] = marks[1] % IndexMod /\ txOut = out % IndexMod
      BY <3>1 DEF TxAt, Marked, Buffered
    <3>3. /\ marks[1] \in Nat /\ out <= marks[1] /\ marks[1] <= accepted
          /\ \A i \in 1 .. Len(checkpoints) : marks[1] <= marks[i] /\ marks[i] \in Nat
      <4>1. /\ out + inFlight <= marks[1] /\ marks[1] <= accepted
            /\ \A i \in 1 .. Len(checkpoints) : 1 <= i => marks[1] <= marks[i]
        BY <3>1 DEF TxAt, Marked
      <4>2. \A i \in 1 .. Len(checkpoints) : marks[i] \in Nat /\ 1 <= i
        BY <1>2, <3>1
      <4>3. marks[1] \in Nat
        BY <3>1, <4>2
      <4>4. out <= marks[1]
        BY <1>2, <4>1, <4>3
      <4>5. \A i \in 1 .. Len(checkpoints) : marks[1] <= marks[i]
        <5> SUFFICES ASSUME NEW i \in 1 .. Len(checkpoints) PROVE marks[1] <= marks[i]
          OBVIOUS
        <5> QED
          BY <4>1, <4>2
      <4>6. marks[1] <= accepted
        BY <4>1
      <4> QED
        BY <4>2, <4>3, <4>4, <4>5, <4>6
    <3>4. readable' = marks[1] - out
      <4>1. Distance(marks[1] % IndexMod, out % IndexMod) = marks[1] - out
        <5>1. marks[1] \in Nat /\ out \in Nat /\ out <= marks[1] /\ marks[1] - out < IndexMod
          BY <1>2, <3>3, TxSizes
        <5> QED
          BY <5>1, DistanceIs
      <4> QED
        BY <1>1, <2>2, <3>1, <3>2, <4>1
    <3>5. marks[1] # out
      BY <1>1, <2>2, <3>1, <3>2
    <3> QED
      BY <1>2, <3>3, <3>4, <3>5
  <2> QED
    BY <2>1, <2>2
<1>4. IdlesKept(out, marks)'
  <2>1. UNCHANGED <<checkpoints, inFlight, boundaries, fifo, last, received, seams, stale, dmaLeft>>
    BY <1>1 DEF producerVars, dmaVars, wireVars
  <2>2. FreeToBegin' /\ FlagMeant'
    BY <1>1 DEF FreeToBegin, FlagMeant
  <2> QED
    BY <1>1, <1>2, <2>1, <2>2, IdlesStay DEF TxAt
<1>5. TxAt(out, marks)'
  BY <1>1, <1>2, <1>3, <1>4, QuietKeeps DEF wireVars
<1> QED
  BY <1>1, <1>5, Witnessed DEF producerVars

(* A burst is handed to the DMA: none of its bytes has been pushed.        *)
LEMMA TriggerKeeps ==
    ASSUME TxTypes, NEW out \in 0 .. accepted,
           NEW marks \in [1 .. Len(checkpoints) -> 0 .. accepted], TxAt(out, marks), TriggerDma
    PROVE  TxInv'
<1>1. /\ UNCHANGED <<producerVars, txOut, triggered, lineVars, idleFlag>>
      /\ step = "start" /\ step' = "rest" /\ readable' = 0
      /\ dmaAt' = txOut % TxSize /\ dmaLeft' = readable /\ inFlight' = readable
  BY DEF TriggerDma
<1>2. /\ UNCHANGED <<txIn, txData, checkpoints, boundaryBeforeIn, accepted>>
      /\ UNCHANGED <<fifo, line, received, last, boundaries, seams, discarded, stale>>
  BY <1>1 DEF producerVars, lineVars, wireVars
<1>3. /\ out \in Nat /\ accepted \in Nat /\ inFlight = 0 /\ dmaLeft = 0
      /\ readable \in Nat /\ readable > 0 /\ out + readable <= accepted
  BY <1>1 DEF TxTypes, TxAt, Buffered
<1>4. Buffered(out)'
  <2>1. txOut % TxSize = out % TxSize
    BY <1>3, TxSizes, IndexCell DEF TxAt, Buffered
  <2>2. out + inFlight' - dmaLeft' = out
    BY <1>1, <1>3
  <2>3. /\ txOut' = out % IndexMod /\ txIn' = accepted' % IndexMod
        /\ accepted' - out <= TxSize
        /\ \A p \in out .. (accepted' - 1) : txData'[p % TxSize] = p + 1
    BY <1>1, <1>2 DEF TxAt, Buffered
  <2>4. /\ out + inFlight' <= accepted' /\ dmaLeft' <= inFlight' /\ step' = "rest"
        /\ dmaAt' = (out + inFlight' - dmaLeft') % TxSize
    BY <1>1, <1>2, <1>3, <2>1, <2>2
  <2> QED
    BY <2>3, <2>4 DEF Buffered
<1>5. Marked(out, marks)'
  BY <1>1, <1>2 DEF TxAt, Marked
<1>6. Pushed(out)' = Pushed(out) /\ inFlight' = dmaLeft' /\ inFlight = dmaLeft
  BY <1>1, <1>3 DEF Pushed
<1>7. Consecutive(out)'
  <2>1. accepted' \in Nat /\ accepted <= accepted' /\ out <= out
    BY <1>2, <1>3
  <2> QED
    BY <1>2, <1>3, <1>6, <2>1, ConsecutiveStays DEF TxAt
<1>8. IdlesKept(out, marks)'
  <2>1. IdlesKept(out, marks)
    BY DEF TxAt
  <2>2. \A k : Row(out, k)' = Row(out, k)
    BY <1>2, <1>6, RowStays
  <2>3. FreeToBegin' /\ FlagMeant'
    <3>1. triggered'
      BY <1>1, <2>1 DEF IdlesKept, FreeToBegin
    <3>2. idleFlag => CutAt(BurstEnd)
      BY <1>1, <2>1 DEF IdlesKept, FlagMeant
    <3>3. BurstEnd' = BurstEnd
      BY <1>1, <1>2, <1>3 DEF BurstEnd, TxTypes
    <3> QED
      BY <1>1, <1>2, <3>1, <3>2, <3>3 DEF FreeToBegin, FlagMeant, CutAt
  <2>4. ASSUME NEW k \in 0 .. Len(fifo), k < Len(fifo), Row(out, k)' \in boundaries,
               Row(out, k + 1)' = Row(out, k)' + 1
        PROVE  CutAt(received + k) \/ (k = 0 /\ line = "idle")
    BY <2>1, <2>2, <2>4 DEF IdlesKept
  <2>5. out \in boundaries => Rested \/ \E i \in 1 .. Len(checkpoints) : marks[i] = out
    BY <1>6, <2>1 DEF IdlesKept
  <2> QED
    BY <1>2, <2>3, <2>4, <2>5 DEF IdlesKept, Rested, CutAt
<1>9. TxAt(out, marks)'
  BY <1>4, <1>5, <1>7, <1>8 DEF TxAt
<1> QED
  BY <1>2, <1>9, Witnessed

(* A burst that has gone leaves the buffer; an idle asked for behind it is *)
(* a checkpoint.                                                           *)
LEMMA SettleKeeps ==
    ASSUME TxTypes, NEW out \in 0 .. accepted,
           NEW marks \in [1 .. Len(checkpoints) -> 0 .. accepted], TxAt(out, marks), Settle
    PROVE  TxInv'
<1>1. /\ UNCHANGED <<producerVars, triggered, dmaVars, lineVars, idleFlag>>
      /\ dmaLeft = 0 /\ txOut' = Index(txOut + inFlight) /\ inFlight' = 0
      /\ step' = "load"
  BY DEF Settle
<1>2. /\ UNCHANGED <<txIn, txData, checkpoints, boundaryBeforeIn, accepted, dmaLeft>>
      /\ UNCHANGED <<fifo, line, received, last, boundaries, seams, discarded, stale>>
  BY <1>1 DEF producerVars, lineVars, wireVars, dmaVars
<1>3. /\ out \in Nat /\ accepted \in Nat /\ inFlight \in Nat /\ out + inFlight <= accepted
      /\ TxSize \in Nat
  BY TxSizes DEF TxTypes, TxAt, Buffered
<1>4. PICK o \in 0 .. accepted : o = out + inFlight
  BY <1>3
<1>5. o \in Nat /\ out <= o
  BY <1>3, <1>4
<1>6. Buffered(o)'
  <2>1. txOut' = o % IndexMod
    <3>1. txOut = out % IndexMod
      BY DEF TxAt, Buffered
    <3> QED
      BY <1>1, <1>3, <1>4, <3>1, IndexAdvance
  <2>2. accepted' - o <= TxSize
    BY <1>2, <1>3, <1>4 DEF TxAt, Buffered
  <2>3. \A p \in o .. (accepted' - 1) : txData'[p % TxSize] = p + 1
    <3>1. \A p \in o .. (accepted - 1) : p \in out .. (accepted - 1)
      BY <1>3, <1>5
    <3> QED
      BY <1>2, <3>1 DEF TxAt, Buffered
  <2>4. txIn' = accepted' % IndexMod /\ o + inFlight' <= accepted' /\ dmaLeft' = 0
        /\ step' = "load" /\ dmaLeft' <= inFlight' /\ inFlight' = 0
    BY <1>1, <1>2, <1>3, <1>4 DEF TxAt, Buffered
  <2> QED
    BY <2>1, <2>2, <2>3, <2>4 DEF Buffered
<1>7. Marked(o, marks)'
  <2>1. \A i \in 1 .. Len(checkpoints) : o + inFlight' <= marks[i] /\ marks[i] <= accepted
    BY <1>1, <1>4, <1>5 DEF TxAt, Marked
  <2>2. \A b \in boundaries : b > o => b > out
    BY <1>3, <1>5 DEF TxTypes
  <2> QED
    BY <1>1, <1>2, <2>1, <2>2 DEF TxAt, Marked
<1>8. Pushed(o)' = Pushed(out)
  BY <1>1, <1>2, <1>3, <1>4 DEF Pushed
<1>9. Consecutive(o)'
  <2>1. accepted' \in Nat /\ accepted <= accepted'
    BY <1>2, <1>3
  <2> QED
    BY <1>2, <1>3, <1>5, <1>8, <2>1, ConsecutiveStays DEF TxAt
<1>10. IdlesKept(o, marks)'
  <2>1. IdlesKept(out, marks)
    BY DEF TxAt
  <2>2. \A k : Row(o, k)' = Row(out, k)
    BY <1>2, <1>8, RowStays
  <2>3. FreeToBegin' /\ FlagMeant'
    <3>1. Rested' <=> Rested
      BY <1>2 DEF Rested, CutAt
    <3>2. BurstEnd' = BurstEnd /\ dmaLeft = 0 /\ step = "rest" /\ step' = "load"
      BY <1>1, <1>2 DEF BurstEnd, Settle
    <3> QED
      BY <1>1, <1>2, <2>1, <3>1, <3>2 DEF IdlesKept, FreeToBegin, FlagMeant, CutAt
  <2>4. ASSUME NEW k \in 0 .. Len(fifo), k < Len(fifo), Row(o, k)' \in boundaries,
               Row(o, k + 1)' = Row(o, k)' + 1
        PROVE  CutAt(received + k) \/ (k = 0 /\ line = "idle")
    BY <2>1, <2>2, <2>4 DEF IdlesKept
  <2>5. o \in boundaries => Rested \/ \E i \in 1 .. Len(checkpoints) : marks[i] = o
    <3>1. CASE inFlight = 0
      <4>1. o = out /\ inFlight = dmaLeft
        BY <1>1, <1>3, <1>4, <3>1
      <4> QED
        BY <2>1, <4>1 DEF IdlesKept
    <3>2. CASE inFlight # 0
      <4>1. o > out
        BY <1>3, <1>4, <3>2
      <4> QED
        BY <4>1 DEF TxAt, Marked
    <3> QED
      BY <3>1, <3>2
  <2> QED
    BY <1>1, <1>2, <2>3, <2>4, <2>5 DEF IdlesKept, Rested, CutAt
<1>11. TxAt(o, marks)'
  BY <1>6, <1>7, <1>9, <1>10 DEF TxAt
<1> QED
  BY <1>2, <1>11, Witnessed

(* The first checkpoint is where the next burst would begin; a place       *)
(* behind it keeps its own.                                                *)
LEMMA FirstMark ==
    ASSUME TxTypes, NEW out \in 0 .. accepted,
           NEW marks \in [1 .. Len(checkpoints) -> 0 .. accepted], TxAt(out, marks),
           checkpoints # <<>>, Head(checkpoints) = txOut
    PROVE  1 \in 1 .. Len(checkpoints) /\ marks[1] = out
<1>1. Len(checkpoints) \in Nat /\ 1 \in 1 .. Len(checkpoints)
      /\ Head(checkpoints) = checkpoints[1]
  BY DEF TxTypes
<1>2. marks[1] % IndexMod = out % IndexMod
  BY <1>1 DEF TxAt, Marked, Buffered
<1>3. /\ out + inFlight <= marks[1] /\ marks[1] <= accepted
      /\ accepted - out <= TxSize /\ inFlight \in Nat
  <2>1. out + inFlight <= marks[1] /\ marks[1] <= accepted
    BY <1>1 DEF TxAt, Marked
  <2>2. accepted - out <= TxSize /\ inFlight \in Nat
    BY DEF TxAt, Buffered, TxTypes
  <2> QED
    BY <2>1, <2>2
<1>4. marks[1] \in Nat /\ out \in Nat /\ accepted \in Nat
  <2>1. accepted \in Nat
    BY DEF TxTypes
  <2>2. marks[1] \in 0 .. accepted
    BY <1>1
  <2> QED
    BY <2>1, <2>2
<1>5. marks[1] < out + IndexMod /\ out < marks[1] + IndexMod
  BY <1>3, <1>4, TxSizes
<1>6. IndexMod \in Nat /\ IndexMod > 0
  BY TxSizes
<1>7. PICK h \in Nat : h = marks[1]
  BY <1>4
<1> QED
  BY <1>1, <1>2, <1>4, <1>5, <1>6, <1>7, SlotsDiffer

(* Passing a checkpoint keeps the transmit invariant.                      *)
LEMMA PassKeeps ==
    ASSUME TxTypes, NEW out \in 0 .. accepted,
           NEW marks \in [1 .. Len(checkpoints) -> 0 .. accepted], TxAt(out, marks),
           PassCheckpoint
    PROVE  TxInv'
<1>1. /\ UNCHANGED <<txIn, txData, boundaryBeforeIn, accepted, consumerVars,
                     dmaVars, lineVars, idleFlag>>
      /\ step = "select" /\ checkpoints' = Tail(checkpoints)
      /\ checkpoints # <<>> /\ Head(checkpoints) = txOut
      /\ ~triggered \/ idleFlag
  BY DEF PassCheckpoint, AtCheckpoint, MustWait
<1>2. /\ UNCHANGED <<txIn, txOut, inFlight, txData, accepted, dmaAt, dmaLeft, step, readable>>
      /\ UNCHANGED <<fifo, line, received, last, boundaries, seams, discarded, stale>>
      /\ UNCHANGED <<boundaryBeforeIn, triggered, idleFlag>>
  BY <1>1 DEF consumerVars, lineVars, wireVars, dmaVars
<1>3. /\ out \in Nat /\ accepted \in Nat /\ inFlight = 0
      /\ readable > 0 /\ out + readable <= accepted /\ readable \in Nat
  BY <1>1 DEF TxTypes, TxAt, Buffered
<1>4. marks[1] = out /\ 1 \in 1 .. Len(checkpoints)
  BY <1>1, FirstMark
<1> DEFINE n == Len(checkpoints)
<1>5. /\ n \in Nat /\ n > 0 /\ Len(checkpoints') = n - 1
      /\ \A i \in 1 .. (n - 1) : checkpoints'[i] = checkpoints[i + 1]
  BY <1>1 DEF TxTypes
<1>6. \A i \in 1 .. (n - 1) : i + 1 \in 1 .. n
  BY <1>5
<1>7. PICK m \in [1 .. (n - 1) -> 0 .. accepted] : m = [i \in 1 .. (n - 1) |-> marks[i + 1]]
  BY <1>5, <1>6
<1>8. /\ m \in [1 .. Len(checkpoints') -> 0 .. accepted']
      /\ \A i \in 1 .. (n - 1) : m[i] = marks[i + 1]
  BY <1>2, <1>5, <1>7
<1>9. \A b : b # out /\ (\E i \in 1 .. n : marks[i] = b) => \E i \in 1 .. (n - 1) : m[i] = b
  <2> SUFFICES ASSUME NEW b, b # out, NEW i \in 1 .. n, marks[i] = b
               PROVE  \E j \in 1 .. (n - 1) : m[j] = b
    OBVIOUS
  <2>1. i # 1
    BY <1>4
  <2>2. i - 1 \in 1 .. (n - 1) /\ (i - 1) + 1 = i
    BY <1>5, <2>1
  <2> QED
    BY <1>8, <2>2
<1>10. Buffered(out)'
  <2>1. /\ step' # "rest" => inFlight = 0
        /\ step' \in {"select", "start"} => readable' > 0 /\ out + readable' <= accepted
    BY <1>2 DEF TxAt, Buffered
  <2> QED
    BY <1>2, <1>3, <2>1, BufferedStays DEF TxAt
<1>11. Marked(out, m)'
  <2> HIDE DEF n
  <2>1. \A i \in 1 .. (n - 1) : checkpoints'[i] = m[i] % IndexMod
    BY <1>5, <1>6, <1>8 DEF TxAt, Marked, n
  <2>2. \A i, j \in 1 .. (n - 1) : i <= j => m[i] <= m[j]
    <3> SUFFICES ASSUME NEW i \in 1 .. (n - 1), NEW j \in 1 .. (n - 1), i <= j
                 PROVE  m[i] <= m[j]
      OBVIOUS
    <3>1. i + 1 \in 1 .. n /\ j + 1 \in 1 .. n /\ i + 1 <= j + 1
      BY <1>6
    <3>2. marks[i + 1] <= marks[j + 1]
      BY <3>1 DEF TxAt, Marked, n
    <3> QED
      BY <1>8, <3>2
  <2>3. \A i \in 1 .. (n - 1) : out + inFlight <= m[i] /\ m[i] <= accepted
    BY <1>6, <1>8 DEF TxAt, Marked, n
  <2>4. \A b \in boundaries : b > out => \E i \in 1 .. (n - 1) : m[i] = b
    <3> SUFFICES ASSUME NEW b \in boundaries, b > out
                 PROVE  \E i \in 1 .. (n - 1) : m[i] = b
      OBVIOUS
    <3>1. b # out
      BY <1>3 DEF TxTypes
    <3>2. \E i \in 1 .. n : marks[i] = b
      BY DEF TxAt, Marked, n
    <3> QED
      BY <1>9, <3>1, <3>2
  <2>5. boundaryBeforeIn => \E i \in 1 .. (n - 1) : m[i] = accepted
    <3>1. accepted # out
      BY <1>3
    <3>2. boundaryBeforeIn => \E i \in 1 .. n : marks[i] = accepted
      BY DEF TxAt, Marked, n
    <3> QED
      BY <1>9, <3>1, <3>2
  <2> QED
    <3>1. 1 .. Len(checkpoints') = 1 .. (n - 1) /\ step' = "select"
      BY <1>1, <1>2, <1>5
    <3> QED
      BY <1>2, <2>1, <2>2, <2>3, <2>4, <2>5, <3>1 DEF Marked
<1>12. Pushed(out)' = Pushed(out)
  BY <1>2 DEF Pushed
<1>13. Consecutive(out)'
  <2>1. accepted' \in Nat /\ accepted <= accepted' /\ out <= out
    BY <1>2, <1>3
  <2> QED
    BY <1>2, <1>3, <1>12, <2>1, ConsecutiveStays DEF TxAt
<1>14. IdlesKept(out, m)'
  <2>1. IdlesKept(out, marks)
    BY DEF TxAt
  <2>2. \A k : Row(out, k)' = Row(out, k)
    BY <1>2, <1>12, RowStays
  <2>3. FreeToBegin /\ FlagMeant /\ FreeToBegin' /\ FlagMeant'
    <3>1. FreeToBegin /\ FlagMeant
      BY <2>1 DEF IdlesKept
    <3> QED
      BY <1>1, <1>2, <3>1, FlagsStay DEF dmaVars
  <2>4. ASSUME NEW k \in 0 .. Len(fifo), k < Len(fifo), Row(out, k)' \in boundaries,
               Row(out, k + 1)' = Row(out, k)' + 1
        PROVE  CutAt(received + k) \/ (k = 0 /\ line = "idle")
    BY <2>1, <2>2, <2>4 DEF IdlesKept
  <2>5. Rested
    <3>1. CASE ~triggered
      BY <2>3, <3>1 DEF FreeToBegin
    <3>2. CASE idleFlag
      <4>1. dmaLeft = 0
        BY <1>3 DEF TxTypes, TxAt, Buffered
      <4>2. BurstEnd = received + Len(fifo)
        <5>1. received \in Nat /\ Len(fifo) \in Nat
          BY DEF TxTypes
        <5> QED
          BY <1>1, <4>1, <5>1 DEF BurstEnd
      <4> QED
        BY <2>3, <3>2, <4>2 DEF FlagMeant, Rested
    <3> QED
      BY <1>1, <3>1, <3>2
  <2> QED
    BY <1>2, <2>3, <2>4, <2>5 DEF IdlesKept, Rested, CutAt
<1>15. TxAt(out, m)'
  BY <1>10, <1>11, <1>13, <1>14 DEF TxAt
<1> QED
  <2>1. out \in 0 .. accepted'
    BY <1>2
  <2> QED
    BY <1>8, <1>15, <2>1, Witnessed

(* The DMA moves the byte that the buffer holds for the next position.     *)
LEMMA PushedByte ==
    ASSUME TxTypes, NEW out \in 0 .. accepted, Buffered(out), dmaLeft > 0
    PROVE  /\ txData[dmaAt] = Pushed(out) + 1 /\ dmaAt = Pushed(out) % TxSize
           /\ (dmaAt + 1) % TxSize = (Pushed(out) + 1) % TxSize
<1>1. /\ out \in Nat /\ accepted \in Nat /\ inFlight \in Nat /\ dmaLeft \in Nat
      /\ dmaLeft <= inFlight /\ out + inFlight <= accepted
      /\ dmaAt = (out + inFlight - dmaLeft) % TxSize
  BY DEF TxTypes, Buffered
<1>2. PICK p \in Nat : p = out + inFlight - dmaLeft
  BY <1>1
<1>3. p \in out .. (accepted - 1)
  BY <1>1, <1>2
<1>4. txData[p % TxSize] = p + 1
  BY <1>3 DEF Buffered
<1>5. ((p % TxSize) + 1) % TxSize = (p + 1) % TxSize
  <2> DEFINE a == p % TxSize
             t == p \div TxSize
             x == p + 1
             y == a + 1
  <2>1. a \in Nat /\ t \in Nat /\ p = TxSize * t + a /\ TxSize * t \in Nat
    BY TxSizes, DivMod, SMT
  <2> HIDE DEF a, t
  <2>2. x \in Nat /\ y \in Nat /\ x = y + TxSize * t /\ t \in Int
    BY <2>1
  <2> HIDE DEF x, y
  <2>3. x % TxSize = y % TxSize
    BY <2>2, TxSizes, SameSlot, ZenonT(60)
  <2> QED
    BY <2>3 DEF x, y, a
<1> QED
  BY <1>1, <1>2, <1>4, <1>5 DEF Pushed

(* A byte moved by the DMA keeps the transmit invariant.                   *)
LEMMA PushKeeps ==
    ASSUME TxTypes, NEW out \in 0 .. accepted,
           NEW marks \in [1 .. Len(checkpoints) -> 0 .. accepted], TxAt(out, marks), DmaPush
    PROVE  TxInv'
<1>1. /\ UNCHANGED <<producerVars, consumerVars, line, wireVars, idleFlag>>
      /\ dmaLeft > 0 /\ fifo' = Append(fifo, txData[dmaAt]) /\ dmaLeft' = dmaLeft - 1
      /\ dmaAt' = IF dmaLeft = 1 THEN 0 ELSE (dmaAt + 1) % TxSize
  BY DEF DmaPush
<1>2. /\ UNCHANGED <<txIn, txData, checkpoints, boundaryBeforeIn, accepted>>
      /\ UNCHANGED <<txOut, inFlight, triggered, step, readable>>
      /\ UNCHANGED <<received, last, boundaries, seams, discarded, stale>>
  BY <1>1 DEF producerVars, consumerVars, wireVars
<1>2a. PICK L \in Nat, P \in Nat : L = Len(fifo) /\ P = Pushed(out)
  BY RowTyped DEF TxTypes, TxAt
<1>3. /\ out \in Nat /\ accepted \in Nat /\ inFlight \in Nat /\ dmaLeft \in Nat
      /\ dmaLeft <= inFlight /\ inFlight > 0 /\ out + inFlight <= accepted
      /\ accepted - out <= TxSize /\ TxSize \in Nat /\ received \in Nat
      /\ P = out + inFlight - dmaLeft /\ P \in Nat
  BY <1>2a, <1>1, TxSizes DEF TxTypes, TxAt, Buffered, Pushed
<1>4. /\ txData[dmaAt] = P + 1 /\ dmaAt = P % TxSize
      /\ (dmaAt + 1) % TxSize = (P + 1) % TxSize
  BY <1>2a, <1>1, PushedByte DEF TxAt
<1>5. Pushed(out)' = P + 1
  BY <1>1, <1>2, <1>3 DEF Pushed
<1>6. /\ L \in Nat /\ Len(fifo') = L + 1 /\ fifo'[L + 1] = P + 1
      /\ \A k \in 1 .. L : fifo'[k] = fifo[k]
  <2>1. fifo \in Seq(Nat) /\ P + 1 \in Nat
    BY <1>3 DEF TxTypes
  <2>2. fifo' = Append(fifo, P + 1)
    BY <1>1, <1>4
  <2> QED
    BY <1>2a, <2>1, <2>2
<1>7. /\ \A k \in 0 .. (L + 1) : Row(out, k)' = Row(out, k) /\ Row(out, k) \in Nat
      /\ Row(out, L + 1) = P + 1 /\ Row(out, L + 2)' = P + 2
  <2>1. /\ \A k \in 0 .. (L + 1) : Row(out, k) \in Nat
        /\ Row(out, L + 1) = P + 1 /\ Row(out, 0) = last
        /\ \A k \in 1 .. L : Row(out, k) = fifo[k]
    BY <1>2a, <1>3, RowTyped DEF TxAt
  <2>2. Row(out, 0)' = last
    BY <1>2 DEF Row
  <2>3. \A k \in 1 .. L : Row(out, k)' = fifo[k]
    BY <1>6 DEF Row
  <2>4. Row(out, L + 1)' = P + 1
    BY <1>6 DEF Row
  <2>5. Row(out, L + 2)' = P + 2
    BY <1>3, <1>5, <1>6 DEF Row
  <2>6. \A k \in 0 .. (L + 1) : k = 0 \/ k = L + 1 \/ k \in 1 .. L
    BY <1>6
  <2> QED
    BY <2>1, <2>2, <2>3, <2>4, <2>5, <2>6
<1>8. Buffered(out)'
  <2>1. dmaLeft' > 0 => dmaAt' = (out + inFlight' - dmaLeft') % TxSize
    <3>1. out + inFlight' - dmaLeft' = P + 1
      BY <1>1, <1>2, <1>3
    <3>2. dmaLeft' > 0 => dmaLeft # 1
      BY <1>1, <1>3
    <3> QED
      BY <1>1, <1>4, <3>1, <3>2
  <2>2. dmaLeft' <= inFlight'
    BY <1>1, <1>2, <1>3
  <2>3. Buffered(out)
    BY DEF TxAt
  <2> QED
    BY <1>2, <2>1, <2>2, <2>3 DEF Buffered
<1>9. Marked(out, marks)'
  BY <1>2 DEF TxAt, Marked
<1>10. /\ \A k \in 0 .. L :
             /\ Row(out, k) <= out + TxSize /\ Row(out, k) <= accepted
             /\ IF received + k \in seams THEN Row(out, k) < Row(out, k + 1) + TxSize
                ELSE Row(out, k + 1) = Row(out, k) + 1
       /\ \A j, k \in 0 .. (L + 1) :
             j < k => Row(out, k) <= Row(out, j) + (k - j) + (IF j = 0 THEN discarded ELSE 0)
  BY <1>2a DEF TxAt, Consecutive
<1>11. Consecutive(out)'
  <2>1. ASSUME NEW k \in 0 .. (L + 1)
        PROVE  /\ Row(out, k)' <= out + TxSize /\ Row(out, k)' <= accepted
               /\ IF received + k \in seams THEN Row(out, k)' < Row(out, k + 1)' + TxSize
                  ELSE Row(out, k + 1)' = Row(out, k)' + 1
    <3>1. CASE k \in 0 .. L
      <4>1. k + 1 \in 0 .. (L + 1)
        BY <1>6, <3>1
      <4> QED
        BY <1>7, <1>10, <3>1, <4>1
    <3>2. CASE k = L + 1
      <4>1. Row(out, k)' = P + 1 /\ Row(out, k + 1)' = P + 2
        <5>1. k + 1 = L + 2
          BY <1>6, <3>2
        <5> QED
          BY <1>7, <3>2, <5>1
      <4>2. P + 1 <= out + TxSize /\ P + 1 <= accepted /\ P + 1 < P + 2 + TxSize
            /\ P + 2 = P + 1 + 1
        BY <1>1, <1>3
      <4> QED
        BY <4>1, <4>2
    <3> QED
      BY <1>6, <3>1, <3>2
  <2>2. ASSUME NEW j \in 0 .. (L + 2), NEW k \in 0 .. (L + 2), j < k
        PROVE  Row(out, k)' <= Row(out, j)' + (k - j) + (IF j = 0 THEN discarded ELSE 0)
    <3>1. j \in 0 .. (L + 1) /\ j \in Nat
      BY <1>6, <2>2
    <3>2. CASE k \in 0 .. (L + 1)
      BY <1>7, <1>10, <2>2, <3>1, <3>2
    <3>3. CASE k = L + 2 /\ j = L + 1
      <4>1. Row(out, k)' = P + 2 /\ Row(out, j)' = P + 1 /\ j # 0 /\ k - j = 1
        BY <1>6, <1>7, <3>1, <3>3
      <4> QED
        BY <1>3, <4>1
    <3>4. CASE k = L + 2 /\ j # L + 1
      <4>1. j < L + 1 /\ L + 1 \in 0 .. (L + 1)
        BY <1>6, <2>2, <3>4
      <4>2. P + 1 <= Row(out, j) + ((L + 1) - j) + (IF j = 0 THEN discarded ELSE 0)
        BY <1>7, <1>10, <3>1, <4>1
      <4>3. Row(out, k)' = P + 2 /\ Row(out, j)' = Row(out, j) /\ Row(out, j) \in Nat
        BY <1>7, <3>1, <3>4
      <4>4. discarded \in Nat
        BY DEF TxTypes
      <4> QED
        BY <1>3, <1>6, <3>1, <3>4, <4>2, <4>3, <4>4
    <3> QED
      BY <1>6, <2>2, <3>2, <3>3, <3>4
  <2>3. Len(fifo') + 1 = L + 2
    BY <1>6
  <2> QED
    BY <1>2, <1>6, <2>1, <2>2, <2>3 DEF Consecutive
<1>12. IdlesKept(out, marks)'
  <2>1. IdlesKept(out, marks)
    BY DEF TxAt
  <2>2. FreeToBegin' /\ FlagMeant'
    <3>1. triggered
      BY <1>3, <2>1 DEF IdlesKept, FreeToBegin
    <3>2. idleFlag => CutAt(BurstEnd)
      BY <1>1, <2>1 DEF IdlesKept, FlagMeant
    <3>3. step = "rest"
      BY <1>3 DEF TxAt, Buffered
    <3>4. BurstEnd' = BurstEnd
      BY <1>1, <1>2, <1>2a, <1>3, <1>6, <3>3 DEF BurstEnd
    <3> QED
      BY <1>1, <1>2, <3>1, <3>2, <3>4 DEF FreeToBegin, FlagMeant, CutAt
  <2>3. inFlight' # dmaLeft'
    BY <1>1, <1>2, <1>3
  <2>4. P \in boundaries => CutAt(received + L) \/ (L = 0 /\ line = "idle")
    <3>1. \A i \in 1 .. Len(checkpoints) : marks[i] # P
      <4>1. \A i \in 1 .. Len(checkpoints) : out + inFlight <= marks[i]
        BY DEF TxAt, Marked
      <4>2. \A i \in 1 .. Len(checkpoints) : marks[i] \in Nat
        BY <1>3
      <4>3. P < out + inFlight
        BY <1>1, <1>3
      <4> QED
        BY <1>3, <4>1, <4>2, <4>3
    <3>2. CASE inFlight = dmaLeft
      <4>1. P = out
        BY <1>3, <3>2
      <4>2. P \in boundaries => Rested
        BY <2>1, <3>1, <3>2, <4>1 DEF IdlesKept
      <4>3. fifo = <<>> => L = 0
        BY <1>2a
      <4> QED
        BY <1>2a, <4>2, <4>3 DEF Rested
    <3>3. CASE inFlight # dmaLeft
      <4>1. P > out
        BY <1>3, <3>3
      <4>2. P \in boundaries => \E i \in 1 .. Len(checkpoints) : marks[i] = P
        BY <4>1 DEF TxAt, Marked
      <4> QED
        BY <3>1, <4>2
    <3> QED
      BY <3>2, <3>3
  <2>5. ASSUME NEW k \in 0 .. (L + 1), k < L + 1, Row(out, k)' \in boundaries,
               Row(out, k + 1)' = Row(out, k)' + 1
        PROVE  CutAt(received + k) \/ (k = 0 /\ line = "idle")
    <3>1. k \in 0 .. L /\ k + 1 \in 0 .. (L + 1) /\ k \in 0 .. (L + 1)
      BY <1>6, <2>5
    <3>2. Row(out, k) \in boundaries /\ Row(out, k + 1) = Row(out, k) + 1
      BY <1>7, <2>5, <3>1
    <3>3. CASE k < L
      BY <1>2a, <2>1, <3>1, <3>2, <3>3 DEF IdlesKept
    <3>4. CASE k = L
      <4>1. Row(out, k) = P
        <5>1. Row(out, k + 1) = P + 1 /\ Row(out, k) \in Nat
          BY <1>7, <3>1, <3>4
        <5> QED
          BY <1>3, <3>2, <5>1
      <4> QED
        BY <2>4, <3>2, <3>4, <4>1
    <3> QED
      BY <1>6, <3>1, <3>3, <3>4
  <2> QED
    BY <1>1, <1>2, <1>6, <2>2, <2>3, <2>5 DEF IdlesKept, CutAt
<1>13. TxAt(out, marks)'
  BY <1>8, <1>9, <1>11, <1>12 DEF TxAt
<1> QED
  BY <1>2, <1>13, Witnessed

(* A baudrate request cuts the row off at the FIFO, or empties it too; the *)
(* next burst begins behind the one that was settled last.                 *)
LEMMA BaudrateKeeps ==
    ASSUME TxTypes, NEW out \in 0 .. accepted,
           NEW marks \in [1 .. Len(checkpoints) -> 0 .. accepted], TxAt(out, marks),
           NEW ok \in BOOLEAN, SetBaudrate(ok)
    PROVE  TxInv'
<1>1. /\ UNCHANGED <<producerVars, txOut, step, readable, line, received, last,
                     boundaries, idleFlag>>
      /\ step = "rest" /\ dmaAt' = 0 /\ dmaLeft' = 0 /\ triggered' = FALSE /\ inFlight' = 0
      /\ fifo' = IF ok THEN <<>> ELSE fifo
      /\ seams' = seams \cup {received + Len(fifo')}
      /\ discarded' = discarded + (Len(fifo) - Len(fifo'))
      /\ stale' = {s \in stale : s <= received + Len(fifo')}
  BY DEF SetBaudrate, AbortTransmit
<1>2. UNCHANGED <<txIn, txData, checkpoints, boundaryBeforeIn, accepted>>
  BY <1>1 DEF producerVars
<1>3. PICK L \in Nat, N \in Nat, P \in Nat :
         /\ L = Len(fifo) /\ N = Len(fifo') /\ P = Pushed(out)
         /\ N = L \/ N = 0
         /\ \A k \in 1 .. N : fifo'[k] = fifo[k]
  <2>1. Len(fifo) \in Nat /\ Pushed(out) \in Nat
    BY RowTyped DEF TxTypes, TxAt
  <2>2. (fifo' = <<>> /\ Len(fifo') = 0) \/ fifo' = fifo
    BY <1>1
  <2> QED
    BY <2>1, <2>2
<1>4. /\ out \in Nat /\ accepted \in Nat /\ inFlight \in Nat /\ dmaLeft \in Nat
      /\ out <= accepted /\ accepted - out <= TxSize /\ TxSize \in Nat /\ TxSize > 0
      /\ received \in Nat /\ out <= P /\ N <= L /\ discarded \in Nat
      /\ seams' = seams \cup {received + N} /\ discarded' = discarded + (L - N)
  <2>1. out <= P
    BY <1>3, RowTyped DEF TxAt, TxTypes
  <2> QED
    BY <1>1, <1>3, <2>1, TxSizes DEF TxTypes, TxAt, Buffered
<1>5. /\ \A k \in 0 .. N : Row(out, k)' = Row(out, k)
      /\ \A k \in 0 .. (L + 1) : Row(out, k) \in Nat
      /\ Row(out, N + 1)' = out + 1 /\ Row(out, L + 1) = P + 1
  <2>1. /\ \A k \in 0 .. (L + 1) : Row(out, k) \in Nat
        /\ Row(out, L + 1) = P + 1 /\ Row(out, 0) = last
        /\ \A k \in 1 .. L : Row(out, k) = fifo[k]
    BY <1>3, <1>4, RowTyped DEF TxAt
  <2>2. Row(out, 0)' = last
    BY <1>1 DEF Row
  <2>3. \A k \in 1 .. N : Row(out, k)' = fifo[k] /\ k \in 1 .. L
    BY <1>3, <1>4 DEF Row
  <2>4. Pushed(out)' = out
    BY <1>1, <1>4 DEF Pushed
  <2>5. Row(out, N + 1)' = out + 1
    BY <1>3, <2>4 DEF Row
  <2>6. \A k \in 0 .. N : k = 0 \/ k \in 1 .. N
    BY <1>3
  <2> QED
    BY <2>1, <2>2, <2>3, <2>5, <2>6
<1>6. Buffered(out)'
  BY <1>1, <1>2, <1>4 DEF TxAt, Buffered
<1>7. Marked(out, marks)'
  <2>1. \A i \in 1 .. Len(checkpoints) : out + inFlight' <= marks[i] /\ marks[i] <= accepted
    <3> SUFFICES ASSUME NEW i \in 1 .. Len(checkpoints)
                 PROVE  out + inFlight' <= marks[i] /\ marks[i] <= accepted
      OBVIOUS
    <3>1. out + inFlight <= marks[i] /\ marks[i] <= accepted
      BY DEF TxAt, Marked
    <3>2. marks[i] \in Nat
      BY <1>4
    <3> QED
      BY <1>1, <1>4, <3>1, <3>2
  <2> QED
    BY <1>1, <1>2, <2>1 DEF TxAt, Marked
<1>8. /\ \A k \in 0 .. L :
            /\ Row(out, k) <= out + TxSize /\ Row(out, k) <= accepted
            /\ IF received + k \in seams THEN Row(out, k) < Row(out, k + 1) + TxSize
               ELSE Row(out, k + 1) = Row(out, k) + 1
      /\ \A j, k \in 0 .. (L + 1) :
            j < k => Row(out, k) <= Row(out, j) + (k - j) + (IF j = 0 THEN discarded ELSE 0)
  BY <1>3 DEF TxAt, Consecutive
<1>9. Consecutive(out)'
  <2>1. ASSUME NEW k \in 0 .. N
        PROVE  /\ Row(out, k)' <= out + TxSize /\ Row(out, k)' <= accepted
               /\ IF received + k \in seams' THEN Row(out, k)' < Row(out, k + 1)' + TxSize
                  ELSE Row(out, k + 1)' = Row(out, k)' + 1
    <3>1. /\ Row(out, k)' = Row(out, k) /\ Row(out, k) <= out + TxSize
          /\ Row(out, k) <= accepted /\ Row(out, k) \in Nat /\ k \in 0 .. L
      <4>1. k \in 0 .. L /\ k \in 0 .. (L + 1)
        BY <1>3, <1>4
      <4> QED
        BY <1>5, <1>8, <4>1
    <3>2. CASE k = N
      <4>1. received + k \in seams'
        BY <1>4, <3>2
      <4>2. Row(out, k + 1)' = out + 1
        BY <1>5, <3>2
      <4>3. Row(out, k) < out + 1 + TxSize
        BY <1>4, <3>1
      <4> QED
        BY <3>1, <4>1, <4>2, <4>3
    <3>3. CASE k < N
      <4>1. k + 1 \in 0 .. N /\ received + k # received + N
        BY <1>3, <1>4, <3>3
      <4>2. Row(out, k + 1)' = Row(out, k + 1)
        BY <1>5, <4>1
      <4>3. received + k \in seams' <=> received + k \in seams
        BY <1>4, <4>1
      <4>4. IF received + k \in seams THEN Row(out, k) < Row(out, k + 1) + TxSize
            ELSE Row(out, k + 1) = Row(out, k) + 1
        BY <1>8, <3>1
      <4> QED
        BY <3>1, <4>2, <4>3, <4>4
    <3> QED
      BY <1>3, <3>2, <3>3
  <2>2. ASSUME NEW j \in 0 .. (N + 1), NEW k \in 0 .. (N + 1), j < k
        PROVE  Row(out, k)' <= Row(out, j)' + (k - j) + (IF j = 0 THEN discarded' ELSE 0)
    <3>1. /\ j \in 0 .. N /\ j \in 0 .. (L + 1) /\ k \in 0 .. (L + 1)
          /\ Row(out, j)' = Row(out, j) /\ Row(out, j) \in Nat
      <4>1. j \in 0 .. N /\ j \in 0 .. (L + 1) /\ k \in 0 .. (L + 1)
        BY <1>3, <1>4, <2>2
      <4> QED
        BY <1>5, <4>1
    <3>2. CASE k \in 0 .. N
      <4>1. Row(out, k) <= Row(out, j) + (k - j) + (IF j = 0 THEN discarded ELSE 0)
        BY <1>8, <2>2, <3>1
      <4>2. Row(out, k)' = Row(out, k) /\ Row(out, k) \in Nat
        BY <1>5, <3>1, <3>2
      <4>3. discarded <= discarded' /\ discarded' \in Nat
        BY <1>3, <1>4
      <4> QED
        BY <1>4, <3>1, <3>2, <4>1, <4>2, <4>3
    <3>3. CASE k = N + 1
      <4>1. L + 1 \in 0 .. (L + 1) /\ j < L + 1
        BY <1>3, <1>4, <2>2, <3>3
      <4>2. P + 1 <= Row(out, j) + ((L + 1) - j) + (IF j = 0 THEN discarded ELSE 0)
        BY <1>5, <1>8, <3>1, <4>1
      <4>3. j = 0 \/ N = L
        BY <1>3, <3>1
      <4>4. out + 1 <= Row(out, j) + ((N + 1) - j) + (IF j = 0 THEN discarded' ELSE 0)
        <5>1. CASE j = 0
          <6>1. P + 1 <= Row(out, j) + (L + 1) + discarded
            BY <1>4, <3>1, <4>2, <5>1
          <6> QED
            BY <1>3, <1>4, <3>1, <5>1, <6>1
        <5>2. CASE j # 0
          BY <1>4, <3>1, <4>2, <4>3, <5>2
        <5> QED
          BY <5>1, <5>2
      <4> QED
        BY <1>5, <3>1, <3>3, <4>4
    <3> QED
      BY <1>3, <3>2, <3>3
  <2> QED
    BY <1>1, <1>2, <1>3, <2>1, <2>2 DEF Consecutive
<1>10. IdlesKept(out, marks)'
  <2>1. IdlesKept(out, marks)
    BY DEF TxAt
  <2>2. CutAt(received + N)' /\ Rested'
    BY <1>1, <1>3, <1>4 DEF CutAt, Rested
  <2>3. \A k \in 0 .. N : CutAt(received + k) => CutAt(received + k)'
    <3> SUFFICES ASSUME NEW k \in 0 .. N, CutAt(received + k) PROVE CutAt(received + k)'
      OBVIOUS
    <3>1. received + k <= received + Len(fifo')
      BY <1>3, <1>4
    <3> QED
      BY <1>1, <1>4, <3>1 DEF CutAt
  <2>4. ASSUME NEW k \in 0 .. N, k < N, Row(out, k)' \in boundaries,
               Row(out, k + 1)' = Row(out, k)' + 1
        PROVE  CutAt(received + k)' \/ (k = 0 /\ line = "idle")
    <3>1. k \in 0 .. L /\ k < L /\ k + 1 \in 0 .. N
      BY <1>3, <1>4, <2>4
    <3>2. Row(out, k) \in boundaries /\ Row(out, k + 1) = Row(out, k) + 1
      BY <1>5, <2>4, <3>1
    <3>3. CutAt(received + k) \/ (k = 0 /\ line = "idle")
      BY <1>3, <2>1, <3>1, <3>2 DEF IdlesKept
    <3>4. CutAt(received + k) => CutAt(received + k)'
      BY <2>3
    <3> QED
      BY <3>3, <3>4
  <2>5. FreeToBegin' /\ FlagMeant'
    <3>1. BurstEnd' = received + N
      BY <1>1, <1>3, <1>4 DEF BurstEnd
    <3>2. CutAt(BurstEnd)'
      BY <1>4, <3>1 DEF CutAt
    <3> QED
      BY <1>1, <2>2, <3>2 DEF FreeToBegin, FlagMeant
  <2> QED
    BY <1>1, <1>2, <1>3, <2>2, <2>4, <2>5 DEF IdlesKept
<1>11. TxAt(out, marks)'
  BY <1>6, <1>7, <1>9, <1>10 DEF TxAt
<1> QED
  BY <1>2, <1>11, Witnessed

(* A byte leaves the FIFO: the row is one shorter at its head.             *)
LEMMA ShiftKeepsTx ==
    ASSUME TxTypes, NEW out \in 0 .. accepted,
           NEW marks \in [1 .. Len(checkpoints) -> 0 .. accepted], TxAt(out, marks), Shift
    PROVE  TxInv'
<1>1. /\ UNCHANGED <<producerVars, consumerVars, dmaVars, idleFlag>>
      /\ fifo # <<>> /\ fifo' = Tail(fifo)
      /\ received' = received + 1 /\ last' = Head(fifo) /\ discarded' = 0
      /\ boundaries' = {b \in boundaries : b >= last'}
      /\ seams' = {s \in seams : s > received}
      /\ stale' = {s \in stale : s > received}
  BY DEF Shift
<1>2. /\ UNCHANGED <<txIn, txOut, inFlight, txData, accepted, dmaAt, dmaLeft, step, readable>>
      /\ UNCHANGED <<checkpoints, boundaryBeforeIn, triggered, idleFlag>>
  BY <1>1 DEF producerVars, consumerVars, dmaVars
<1>3. PICK L \in Nat, P \in Nat : L = Len(fifo) /\ P = Pushed(out)
  BY RowTyped DEF TxTypes, TxAt
<1>4. /\ out \in Nat /\ accepted \in Nat /\ received \in Nat /\ TxSize \in Nat
      /\ boundaries' \subseteq boundaries
  BY <1>1, TxSizes DEF TxTypes
<1>5. /\ L > 0 /\ L - 1 \in Nat /\ Len(fifo') = L - 1 /\ last' = fifo[1]
      /\ \A k \in 1 .. (L - 1) : fifo'[k] = fifo[k + 1]
  BY <1>1, <1>3 DEF TxTypes
<1>6. /\ \A k \in 0 .. L : Row(out, k)' = Row(out, k + 1)
      /\ \A k \in 0 .. (L + 1) : Row(out, k) \in Nat
  <2>1. /\ \A k \in 0 .. (L + 1) : Row(out, k) \in Nat
        /\ Row(out, L + 1) = P + 1
        /\ \A k \in 1 .. L : Row(out, k) = fifo[k]
    BY <1>3, <1>4, RowTyped DEF TxAt
  <2>2. Row(out, 0)' = fifo[1] /\ 1 \in 1 .. L
    BY <1>5 DEF Row
  <2>3. \A k \in 1 .. (L - 1) : Row(out, k)' = fifo[k + 1] /\ k + 1 \in 1 .. L
    BY <1>5 DEF Row
  <2>4. Pushed(out)' = P
    BY <1>2, <1>3 DEF Pushed
  <2>5. Row(out, L)' = P + 1
    BY <1>5, <2>4 DEF Row
  <2>6. ASSUME NEW k \in 0 .. L PROVE Row(out, k)' = Row(out, k + 1)
    <3>1. CASE k = 0
      <4>1. k + 1 = 1
        BY <3>1
      <4> QED
        BY <2>1, <2>2, <3>1, <4>1
    <3>2. CASE k \in 1 .. (L - 1)
      BY <2>1, <2>3, <3>2
    <3>3. CASE k = L
      BY <2>1, <2>5, <3>3
    <3> QED
      BY <1>5, <3>1, <3>2, <3>3
  <2> QED
    BY <2>1, <2>6
<1>7. Buffered(out)'
  BY <1>2 DEF TxAt, Buffered
<1>8. Marked(out, marks)'
  BY <1>2, <1>4 DEF TxAt, Marked
<1>9. /\ \A k \in 0 .. L :
            /\ Row(out, k) <= out + TxSize /\ Row(out, k) <= accepted
            /\ IF received + k \in seams THEN Row(out, k) < Row(out, k + 1) + TxSize
               ELSE Row(out, k + 1) = Row(out, k) + 1
      /\ \A j, k \in 0 .. (L + 1) :
            j < k => Row(out, k) <= Row(out, j) + (k - j) + (IF j = 0 THEN discarded ELSE 0)
  BY <1>3 DEF TxAt, Consecutive
<1>10. \A k \in Nat : received' + k \in seams' <=> received + (k + 1) \in seams
  BY <1>1, <1>4
<1>11. Consecutive(out)'
  <2>1. ASSUME NEW k \in 0 .. (L - 1)
        PROVE  /\ Row(out, k)' <= out + TxSize /\ Row(out, k)' <= accepted
               /\ IF received' + k \in seams' THEN Row(out, k)' < Row(out, k + 1)' + TxSize
                  ELSE Row(out, k + 1)' = Row(out, k)' + 1
    <3>1. k + 1 \in 0 .. L /\ k \in 0 .. L /\ k \in Nat
      BY <1>5
    <3>2. Row(out, k)' = Row(out, k + 1) /\ Row(out, k + 1)' = Row(out, (k + 1) + 1)
      BY <1>6, <3>1
    <3>3. received' + k \in seams' <=> received + (k + 1) \in seams
      BY <1>10, <3>1
    <3>4. /\ Row(out, k + 1) <= out + TxSize /\ Row(out, k + 1) <= accepted
          /\ IF received + (k + 1) \in seams
             THEN Row(out, k + 1) < Row(out, (k + 1) + 1) + TxSize
             ELSE Row(out, (k + 1) + 1) = Row(out, k + 1) + 1
      BY <1>9, <3>1
    <3> QED
      BY <3>2, <3>3, <3>4
  <2>2. ASSUME NEW j \in 0 .. L, NEW k \in 0 .. L, j < k
        PROVE  Row(out, k)' <= Row(out, j)' + (k - j)
    <3>1. j + 1 \in 0 .. (L + 1) /\ k + 1 \in 0 .. (L + 1) /\ j + 1 < k + 1 /\ j + 1 # 0
          /\ (k + 1) - (j + 1) = k - j
      BY <2>2
    <3>2. Row(out, k + 1) <= Row(out, j + 1) + ((k + 1) - (j + 1)) + 0
      BY <1>9, <3>1
    <3>3. Row(out, k + 1) \in Nat /\ Row(out, j + 1) \in Nat
      BY <1>6, <3>1
    <3> QED
      BY <1>6, <3>1, <3>2, <3>3
  <2>3. ASSUME NEW j \in 0 .. L, NEW k \in 0 .. L, j < k
        PROVE  Row(out, k)' <= Row(out, j)' + (k - j) + (IF j = 0 THEN discarded' ELSE 0)
    <3>1. Row(out, j)' \in Nat
      <4>1. j + 1 \in 0 .. (L + 1)
        BY <2>3
      <4> QED
        BY <1>6, <4>1
    <3>2. (IF j = 0 THEN discarded' ELSE 0) = 0
      BY <1>1
    <3>3. Row(out, k)' <= Row(out, j)' + (k - j)
      BY <2>2, <2>3
    <3> QED
      BY <2>3, <3>1, <3>2, <3>3
  <2>4. (L - 1) + 1 = L
    BY <1>5
  <2> QED
    BY <1>2, <1>5, <2>1, <2>3, <2>4 DEF Consecutive
<1>12. IdlesKept(out, marks)'
  <2>1. IdlesKept(out, marks)
    BY DEF TxAt
  <2>3. ASSUME NEW k \in Nat, CutAt(received + (k + 1))
        PROVE  CutAt(received + k)'
    <3>1. /\ received + (k + 1) # 0 /\ received' + k = received + (k + 1)
          /\ received + (k + 1) > received
      BY <1>1, <1>4
    <3>2. received + (k + 1) \in stale => received + (k + 1) \in stale'
      BY <1>1, <3>1
    <3> QED
      BY <1>10, <2>3, <3>1, <3>2 DEF CutAt
  <2>4. ASSUME NEW k \in 0 .. (L - 1), k < L - 1, Row(out, k)' \in boundaries',
               Row(out, k + 1)' = Row(out, k)' + 1
        PROVE  CutAt(received + k)'
    <3>1. k + 1 \in 0 .. L /\ k \in 0 .. L /\ k \in Nat /\ k + 1 < L /\ k + 1 # 0
      BY <1>5, <2>4
    <3>2. Row(out, k)' = Row(out, k + 1) /\ Row(out, k + 1)' = Row(out, (k + 1) + 1)
      BY <1>6, <3>1
    <3>3. CutAt(received + (k + 1))
      BY <1>3, <1>4, <2>1, <2>4, <3>1, <3>2 DEF IdlesKept
    <3> QED
      BY <2>3, <3>1, <3>3
  <2>5. CutAt(received + L) => CutAt(received + (L - 1))'
    <3>1. (L - 1) + 1 = L
      BY <1>5
    <3> QED
      BY <1>5, <2>3, <3>1
  <2>6. out \in boundaries' /\ inFlight = dmaLeft
           => CutAt(received + (L - 1))' \/ \E i \in 1 .. Len(checkpoints) : marks[i] = out
    BY <1>1, <1>3, <1>4, <2>1, <2>5 DEF IdlesKept, Rested
  <2>7. Rested => Rested'
    BY <1>1, <1>3, <1>5, <2>5 DEF Rested
  <2>8. FreeToBegin'
    BY <1>2, <2>1, <2>7 DEF IdlesKept, FreeToBegin
  <2>9. FlagMeant'
    <3>1. idleFlag => CutAt(BurstEnd)
      BY <1>1, <2>1 DEF IdlesKept, FlagMeant
    <3>2. PICK c \in Nat, r \in Nat : c = dmaLeft /\ r = IF step = "start" THEN readable ELSE 0
      BY DEF TxTypes
    <3> DEFINE d == (L - 1) + (c + r)
    <3>3. BurstEnd = received + (d + 1) /\ d \in Nat
      <4>1. BurstEnd = received + L + c + r
        BY <1>3, <3>2 DEF BurstEnd
      <4> QED
        BY <1>4, <1>5, <4>1
    <3>4. BurstEnd' = received' + d
      <4>1. BurstEnd' = received' + (L - 1) + c + r
        BY <1>2, <1>5, <3>2 DEF BurstEnd
      <4>2. received' \in Nat
        BY <1>1, <1>4
      <4> QED
        BY <1>5, <4>1, <4>2
    <3> HIDE DEF d
    <3>5. CutAt(BurstEnd) => CutAt(BurstEnd)'
      BY <2>3, <3>3, <3>4
    <3> QED
      BY <1>2, <3>1, <3>5 DEF FlagMeant
  <2> QED
    BY <1>2, <1>5, <2>4, <2>6, <2>8, <2>9 DEF IdlesKept, Rested
<1>13. TxAt(out, marks)'
  BY <1>7, <1>8, <1>11, <1>12 DEF TxAt
<1> QED
  BY <1>2, <1>13, Witnessed

(* One sequence behind another.                                            *)
LEMMA Joined ==
    ASSUME NEW S, NEW s \in Seq(S), NEW t \in Seq(S)
    PROVE  /\ Len(s) \in Nat /\ Len(t) \in Nat
           /\ Len(s \o t) = Len(s) + Len(t)
           /\ \A k \in 1 .. (Len(s) + Len(t)) :
                 (s \o t)[k] = IF k <= Len(s) THEN s[k] ELSE t[k - Len(s)]
  OBVIOUS

(* Two sequences of one element, joined.                                   *)
LEMMA TwoCells ==
    ASSUME NEW c \in Nat, NEW d \in Nat
    PROVE  <<c>> \o <<d>> = <<c, d>>
<1>1. <<c>> \in Seq(Nat) /\ <<d>> \in Seq(Nat) /\ <<c, d>> \in Seq(Nat)
  OBVIOUS
<1>2. PICK p \in Seq(Nat), q \in Seq(Nat), r \in Seq(Nat) :
         p = <<c>> /\ q = <<d>> /\ r = <<c, d>>
  BY <1>1, Zenon
<1>3. /\ Len(p) = 1 /\ Len(q) = 1 /\ Len(r) = 2
      /\ p[1] = c /\ q[1] = d /\ r[1] = c /\ r[2] = d
      /\ p \in Seq(Nat) /\ q \in Seq(Nat) /\ r \in Seq(Nat)
  BY <1>2
<1>4. /\ Len(p \o q) = 2 /\ (p \o q)[1] = c /\ (p \o q)[2] = d
  <2>1. /\ Len(p \o q) = Len(p) + Len(q)
        /\ \A k \in 1 .. (Len(p) + Len(q)) :
              (p \o q)[k] = IF k <= Len(p) THEN p[k] ELSE q[k - Len(p)]
    <3>1. p \in Seq(Nat) /\ q \in Seq(Nat)
      BY <1>3
    <3> QED
      BY <3>1, Joined
  <2> QED
    BY <1>3, <2>1
<1>5. p \o q = r
  <2>1. p \o q \in Seq(Nat)
    BY <1>3
  <2> QED
    BY <1>3, <1>4, <2>1
<1> QED
  BY <1>2, <1>5

(* The positions that the checkpoints of a write stand for.                *)
LEMMA NewMarks ==
    ASSUME TxTypes, txIn = accepted % IndexMod, NEW size \in Nat, NEW idle \in BOOLEAN
    PROVE  \E nm \in Seq(accepted .. (accepted + size)) :
              /\ NewCheckpoints(size, idle) \in Seq(Nat)
              /\ Len(NewCheckpoints(size, idle)) = Len(nm)
              /\ \A i \in 1 .. Len(nm) : NewCheckpoints(size, idle)[i] = nm[i] % IndexMod
              /\ \A i, j \in 1 .. Len(nm) : i <= j => nm[i] <= nm[j]
              /\ idle /\ ~boundaryBeforeIn => \E i \in 1 .. Len(nm) : nm[i] = accepted
              /\ idle /\ (size # 0 \/ ~boundaryBeforeIn)
                    => \E i \in 1 .. Len(nm) : nm[i] = accepted + size
<1> DEFINE R == accepted .. (accepted + size)
<1>1. /\ accepted \in Nat /\ txIn \in Nat /\ accepted \in R /\ accepted + size \in R
  BY DEF TxTypes
<1>2. PICK a \in Nat, b \in Nat, c \in Nat, d \in Nat :
         /\ a = accepted /\ b = accepted + size /\ c = txIn /\ d = Index(txIn + size)
         /\ c = a % IndexMod /\ d = b % IndexMod /\ a \in R /\ b \in R /\ a <= b
  <2>1. Index(txIn + size) = (accepted + size) % IndexMod
    BY <1>1, IndexAdvance
  <2>2. (accepted + size) % IndexMod \in Nat /\ accepted + size \in Nat
    BY <1>1, TxSizes, DivMod
  <2> QED
    BY <1>1, <2>1, <2>2
<1> HIDE DEF R
<1>3. NewCheckpoints(size, idle) =
         IF ~idle THEN <<>>
         ELSE (IF boundaryBeforeIn THEN <<>> ELSE <<c>>) \o (IF size = 0 THEN <<>> ELSE <<d>>)
  BY <1>2 DEF NewCheckpoints
<1>4. CASE ~idle \/ (boundaryBeforeIn /\ size = 0)
  <2>0. NewCheckpoints(size, idle) = <<>>
    BY <1>3, <1>4
  <2>1. PICK nm \in Seq(R), q \in Seq(Nat) : nm = <<>> /\ q = <<>>
    <3>1. <<>> \in Seq(R) /\ <<>> \in Seq(Nat)
      OBVIOUS
    <3> QED
      BY <3>1, Zenon
  <2>2. q = NewCheckpoints(size, idle) /\ Len(nm) = 0 /\ Len(q) = 0
    BY <2>0, <2>1
  <2>3. \A i \in 1 .. Len(nm) : FALSE
    BY <2>2
  <2>4. /\ \A i \in 1 .. Len(nm) : NewCheckpoints(size, idle)[i] = nm[i] % IndexMod
        /\ \A i, j \in 1 .. Len(nm) : i <= j => nm[i] <= nm[j]
    BY <2>3
  <2> QED
    BY <1>4, <2>2, <2>4, Zenon DEF R
<1>5. CASE idle /\ ~boundaryBeforeIn /\ size = 0
  <2>0. NewCheckpoints(size, idle) = <<c>>
    BY <1>3, <1>5
  <2>1. PICK nm \in Seq(R), q \in Seq(Nat) : nm = <<a>> /\ q = <<c>>
    <3>1. <<a>> \in Seq(R) /\ <<c>> \in Seq(Nat)
      BY <1>2
    <3> QED
      BY <3>1, Zenon
  <2>2. /\ q = NewCheckpoints(size, idle) /\ Len(nm) = 1 /\ Len(q) = 1
        /\ nm[1] = a /\ q[1] = c
    BY <2>0, <2>1
  <2>3. 1 \in 1 .. Len(nm) /\ \A i \in 1 .. Len(nm) : i = 1
    BY <2>2
  <2>4. a = accepted /\ a = accepted + size /\ c = a % IndexMod /\ a <= a
    BY <1>2, <1>5
  <2>5. /\ \A i \in 1 .. Len(nm) : NewCheckpoints(size, idle)[i] = nm[i] % IndexMod
        /\ \A i, j \in 1 .. Len(nm) : i <= j => nm[i] <= nm[j]
    BY <2>2, <2>3, <2>4
  <2> QED
    BY <2>2, <2>3, <2>4, <2>5, Zenon DEF R
<1>6. CASE idle /\ boundaryBeforeIn /\ size # 0
  <2>0. NewCheckpoints(size, idle) = <<d>>
    BY <1>3, <1>6
  <2>1. PICK nm \in Seq(R), q \in Seq(Nat) : nm = <<b>> /\ q = <<d>>
    <3>1. <<b>> \in Seq(R) /\ <<d>> \in Seq(Nat)
      BY <1>2
    <3> QED
      BY <3>1, Zenon
  <2>2. /\ q = NewCheckpoints(size, idle) /\ Len(nm) = 1 /\ Len(q) = 1
        /\ nm[1] = b /\ q[1] = d
    BY <2>0, <2>1
  <2>3. 1 \in 1 .. Len(nm) /\ \A i \in 1 .. Len(nm) : i = 1
    BY <2>2
  <2>4. b = accepted + size /\ d = b % IndexMod /\ b <= b
    BY <1>2
  <2>5. /\ \A i \in 1 .. Len(nm) : NewCheckpoints(size, idle)[i] = nm[i] % IndexMod
        /\ \A i, j \in 1 .. Len(nm) : i <= j => nm[i] <= nm[j]
    BY <2>2, <2>3, <2>4
  <2> QED
    BY <1>6, <2>2, <2>3, <2>4, <2>5, Zenon DEF R
<1>7. CASE idle /\ ~boundaryBeforeIn /\ size # 0
  <2>0. NewCheckpoints(size, idle) = <<c, d>>
    <3>1. NewCheckpoints(size, idle) = <<c>> \o <<d>>
      BY <1>3, <1>7, Zenon
    <3>2. <<c>> \o <<d>> = <<c, d>>
      BY <1>2, TwoCells
    <3> QED
      BY <3>1, <3>2
  <2>1. PICK nm \in Seq(R), q \in Seq(Nat) : nm = <<a, b>> /\ q = <<c, d>>
    <3>1. <<a, b>> \in Seq(R) /\ <<c, d>> \in Seq(Nat)
      BY <1>2
    <3> QED
      BY <3>1, Zenon
  <2>2. /\ q = NewCheckpoints(size, idle) /\ Len(nm) = 2 /\ Len(q) = 2
        /\ nm[1] = a /\ q[1] = c /\ nm[2] = b /\ q[2] = d
    BY <2>0, <2>1
  <2>3. 1 \in 1 .. Len(nm) /\ 2 \in 1 .. Len(nm) /\ \A i \in 1 .. Len(nm) : i = 1 \/ i = 2
    BY <2>2
  <2>4. /\ a = accepted /\ b = accepted + size /\ c = a % IndexMod /\ d = b % IndexMod
        /\ a <= a /\ a <= b /\ b <= b
    BY <1>2
  <2>5. \A i \in 1 .. Len(nm) : NewCheckpoints(size, idle)[i] = nm[i] % IndexMod
    BY <2>2, <2>3, <2>4
  <2>6. \A i, j \in 1 .. Len(nm) : i <= j => nm[i] <= nm[j]
    BY <2>2, <2>3, <2>4
  <2> QED
    BY <2>2, <2>3, <2>4, <2>5, <2>6, Zenon DEF R
<1> QED
  BY <1>4, <1>5, <1>6, <1>7

(* A write goes to the cells behind those still needed.                    *)
LEMMA WrittenCells ==
    ASSUME TxTypes, NEW out \in 0 .. accepted, Buffered(out), NEW size \in Nat,
           size <= Writable,
           txData' = [c \in TxCell |->
                        LET ahead == (c + TxSize - (txIn % TxSize)) % TxSize
                        IN  IF ahead < size THEN accepted + ahead + 1 ELSE txData[c]]
    PROVE  /\ accepted + size - out <= TxSize
           /\ \A p \in out .. (accepted + size - 1) : txData'[p % TxSize] = p + 1
<1>1. /\ out \in Nat /\ accepted \in Nat /\ out <= accepted /\ TxSize \in Nat /\ TxSize > 0
      /\ accepted - out <= TxSize
  BY TxSizes DEF TxTypes, Buffered
<1>2. accepted + size - out <= TxSize
  <2>1. size <= TxSize - (accepted - out)
    BY TxDistance DEF Writable
  <2> QED
    BY <1>1, <2>1
<1>3. txIn % TxSize = accepted % TxSize
  BY <1>1, TxSizes, IndexCell DEF Buffered
<1>4. ASSUME NEW p \in out .. (accepted + size - 1)
      PROVE  txData'[p % TxSize] = p + 1
  <2>1. p \in Nat
    BY <1>1
  <2>2. PICK c \in TxCell : c = p % TxSize
    BY <1>1, <2>1, DivMod DEF TxCell
  <2>3. PICK h : h = (c + TxSize - (accepted % TxSize)) % TxSize
    OBVIOUS
  <2>4. txData'[c] = IF h < size THEN accepted + h + 1 ELSE txData[c]
    BY <1>3, <2>3
  <2>5. CASE p >= accepted
    <3>1. h = p - accepted
      <4>1. accepted <= p /\ p - accepted < TxSize
        BY <1>1, <1>2, <2>1, <2>5
      <4> QED
        BY <1>1, <2>1, <2>2, <2>3, <4>1, Between
    <3>2. h < size /\ accepted + h + 1 = p + 1
      BY <1>1, <2>1, <3>1
    <3> QED
      BY <2>2, <2>4, <3>2
  <2>6. CASE p < accepted
    <3>1. PICK q \in Nat : q = p + TxSize
      BY <1>1, <2>1
    <3>2. q % TxSize = p % TxSize
      <4>1. q = p + TxSize * 1
        BY <1>1, <2>1, <3>1
      <4> QED
        <5>1. 1 \in Int
          OBVIOUS
        <5> QED
          BY <1>1, <2>1, <4>1, <5>1, SameSlot, ZenonT(60)
    <3>3. accepted <= q /\ q - accepted < TxSize /\ size <= q - accepted
      BY <1>1, <1>2, <2>1, <2>6, <3>1
    <3>4. h = q - accepted
      <4>1. ((q % TxSize) + TxSize - (accepted % TxSize)) % TxSize = q - accepted
        BY <1>1, <3>3, Between
      <4>2. c = q % TxSize
        BY <2>2, <3>2
      <4> QED
        BY <2>3, <4>1, <4>2
    <3>5. ~(h < size)
      BY <1>1, <3>1, <3>3, <3>4
    <3>6. txData[p % TxSize] = p + 1
      BY <1>1, <2>1, <2>6 DEF Buffered
    <3> QED
      BY <2>2, <2>4, <3>5, <3>6
  <2> QED
    BY <1>1, <2>1, <2>5, <2>6
<1> QED
  BY <1>2, <1>4

(* An element of a sequence over a set is in the set.                      *)
LEMMA Elements ==
    ASSUME NEW S, NEW q \in Seq(S), NEW i \in 1 .. Len(q)
    PROVE  q[i] \in S
  OBVIOUS

(* A write: its bytes follow those accepted before, its checkpoints those  *)
(* asked for before.                                                       *)
LEMMA EnqueueKeeps ==
    ASSUME TxTypes, NEW out \in 0 .. accepted,
           NEW marks \in [1 .. Len(checkpoints) -> 0 .. accepted], TxAt(out, marks),
           NEW size \in Nat, NEW idle \in BOOLEAN, Enqueue(size, idle)
    PROVE  TxInv'
<1>1. /\ UNCHANGED <<consumerVars, dmaVars, fifo, line, received, last, seams, discarded,
                     stale, idleFlag>>
      /\ size <= Writable
      /\ checkpoints' = checkpoints \o NewCheckpoints(size, idle)
      /\ txData' = [c \in TxCell |->
                      LET ahead == (c + TxSize - (txIn % TxSize)) % TxSize
                      IN  IF ahead < size THEN accepted + ahead + 1 ELSE txData[c]]
      /\ txIn' = Index(txIn + size)
      /\ boundaryBeforeIn' = (idle \/ (size = 0 /\ boundaryBeforeIn))
      /\ accepted' = accepted + size
      /\ boundaries' = boundaries \cup (IF idle THEN {accepted, accepted + size} ELSE {})
  BY DEF Enqueue
<1>2. UNCHANGED <<txOut, inFlight, triggered, step, readable, dmaAt, dmaLeft>>
  BY <1>1 DEF consumerVars, dmaVars
<1>3. PICK n \in Nat, e \in Nat, C \in Seq(Nat) :
         n = Len(checkpoints) /\ e = accepted + size /\ C = checkpoints
  BY DEF TxTypes
<1>4. /\ out \in Nat /\ accepted \in Nat /\ out <= accepted /\ accepted <= e /\ accepted' = e
      /\ inFlight \in Nat /\ out + inFlight <= accepted /\ txIn = accepted % IndexMod
  BY <1>1, <1>3 DEF TxTypes, TxAt, Buffered
<1>5. PICK nm \in Seq(accepted .. e) :
         /\ NewCheckpoints(size, idle) \in Seq(Nat)
         /\ Len(NewCheckpoints(size, idle)) = Len(nm)
         /\ \A i \in 1 .. Len(nm) : NewCheckpoints(size, idle)[i] = nm[i] % IndexMod
         /\ \A i, j \in 1 .. Len(nm) : i <= j => nm[i] <= nm[j]
         /\ idle /\ ~boundaryBeforeIn => \E i \in 1 .. Len(nm) : nm[i] = accepted
         /\ idle /\ (size # 0 \/ ~boundaryBeforeIn) => \E i \in 1 .. Len(nm) : nm[i] = e
  BY <1>3, <1>4, NewMarks
<1>6. PICK w \in Nat, D \in Seq(Nat) : w = Len(nm) /\ D = NewCheckpoints(size, idle)
  BY <1>5
<1>6a. \A i \in 1 .. w : nm[i] \in accepted .. e
  BY <1>5, <1>6, Elements
<1>6b. \A i \in 1 .. n : marks[i] \in 0 .. accepted
  BY <1>3
<1>7. /\ Len(checkpoints') = n + w
      /\ \A i \in 1 .. n : checkpoints'[i] = checkpoints[i]
      /\ \A i \in 1 .. w : checkpoints'[n + i] = nm[i] % IndexMod
  <2>1. /\ Len(C \o D) = Len(C) + Len(D)
        /\ \A k \in 1 .. (Len(C) + Len(D)) :
              (C \o D)[k] = IF k <= Len(C) THEN C[k] ELSE D[k - Len(C)]
    BY Joined
  <2>2. Len(C) = n /\ Len(D) = w /\ checkpoints' = C \o D
        /\ \A i \in 1 .. w : D[i] = nm[i] % IndexMod
    BY <1>1, <1>3, <1>5, <1>6
  <2>3. \A k \in 1 .. (n + w) : checkpoints'[k] = IF k <= n THEN C[k] ELSE D[k - n]
    BY <2>1, <2>2
  <2>4. ASSUME NEW i \in 1 .. n PROVE checkpoints'[i] = checkpoints[i]
    <3>1. i \in 1 .. (n + w) /\ i <= n
      BY <1>3, <1>6
    <3> QED
      BY <1>3, <2>3, <3>1
  <2>5. ASSUME NEW i \in 1 .. w PROVE checkpoints'[n + i] = nm[i] % IndexMod
    <3>1. n + i \in 1 .. (n + w) /\ ~(n + i <= n) /\ (n + i) - n = i
      BY <1>3, <1>6
    <3> QED
      BY <2>2, <2>3, <3>1
  <2> QED
    BY <2>1, <2>2, <2>4, <2>5
<1>8. PICK m \in [1 .. (n + w) -> 0 .. e] :
         m = [i \in 1 .. (n + w) |-> IF i <= n THEN marks[i] ELSE nm[i - n]]
  <2>1. ASSUME NEW i \in 1 .. (n + w)
        PROVE  (IF i <= n THEN marks[i] ELSE nm[i - n]) \in 0 .. e
    <3>1. CASE i <= n
      <4>1. i \in 1 .. n
        BY <1>3, <1>6, <3>1
      <4>2. marks[i] \in 0 .. accepted
        BY <1>6b, <4>1
      <4> QED
        BY <1>3, <1>4, <3>1, <4>2
    <3>2. CASE ~(i <= n)
      <4>1. i - n \in 1 .. w
        BY <1>3, <1>6, <2>1, <3>2
      <4>2. nm[i - n] \in accepted .. e
        BY <1>6a, <4>1
      <4> QED
        BY <1>3, <1>4, <3>2, <4>2
    <3> QED
      BY <3>1, <3>2
  <2> QED
    BY <2>1
<1>9. /\ \A i \in 1 .. n : i \in 1 .. (n + w) /\ m[i] = marks[i] /\ marks[i] \in Nat
      /\ \A i \in 1 .. w : n + i \in 1 .. (n + w) /\ m[n + i] = nm[i] /\ nm[i] \in accepted .. e
  <2>1. ASSUME NEW i \in 1 .. n
        PROVE  i \in 1 .. (n + w) /\ m[i] = marks[i] /\ marks[i] \in Nat
    <3>1. i \in 1 .. (n + w) /\ i <= n
      BY <1>3, <1>6
    <3>2. m[i] = marks[i]
      BY <1>8, <3>1
    <3>3. marks[i] \in 0 .. accepted
      BY <1>6b
    <3> QED
      BY <1>4, <3>1, <3>2, <3>3
  <2>2. ASSUME NEW i \in 1 .. w
        PROVE  n + i \in 1 .. (n + w) /\ m[n + i] = nm[i] /\ nm[i] \in accepted .. e
    <3>1. n + i \in 1 .. (n + w) /\ ~(n + i <= n) /\ (n + i) - n = i
      BY <1>3, <1>6
    <3>2. m[n + i] = nm[i]
      BY <1>8, <3>1
    <3>3. nm[i] \in accepted .. e
      BY <1>6a
    <3> QED
      BY <3>1, <3>2, <3>3
  <2> QED
    BY <2>1, <2>2
<1>10. /\ \A i \in 1 .. n : /\ checkpoints[i] = marks[i] % IndexMod
                            /\ out + inFlight <= marks[i] /\ marks[i] <= accepted
                            /\ step = "start" => out + readable <= marks[i]
       /\ \A i, j \in 1 .. n : i <= j => marks[i] <= marks[j]
       /\ \A b \in boundaries : b > out => \E i \in 1 .. n : marks[i] = b
       /\ boundaryBeforeIn => \E i \in 1 .. n : marks[i] = accepted
       /\ step \in {"select", "start"} => out + readable <= accepted
  BY <1>3 DEF TxAt, Marked, Buffered
<1>11. \A i \in 1 .. (n + w) : i \in 1 .. n \/ \E k \in 1 .. w : i = n + k
  <2> SUFFICES ASSUME NEW i \in 1 .. (n + w), ~(i \in 1 .. n)
               PROVE  \E k \in 1 .. w : i = n + k
    OBVIOUS
  <2>1. i - n \in 1 .. w /\ i = n + (i - n)
    BY <1>3, <1>6
  <2> QED
    BY <2>1
<1>12. \A b : (\E i \in 1 .. n : marks[i] = b) => \E i \in 1 .. (n + w) : m[i] = b
  BY <1>9
<1>13. idle => /\ \E i \in 1 .. (n + w) : m[i] = accepted
               /\ \E i \in 1 .. (n + w) : m[i] = e
  <2> SUFFICES ASSUME idle
               PROVE  /\ \E i \in 1 .. (n + w) : m[i] = accepted
                      /\ \E i \in 1 .. (n + w) : m[i] = e
    OBVIOUS
  <2>1. \E i \in 1 .. (n + w) : m[i] = accepted
    <3>1. CASE boundaryBeforeIn
      BY <1>10, <1>12, <3>1
    <3>2. CASE ~boundaryBeforeIn
      BY <1>5, <1>6, <1>9, <3>2
    <3> QED
      BY <3>1, <3>2
  <2>2. \E i \in 1 .. (n + w) : m[i] = e
    <3>1. CASE boundaryBeforeIn /\ size = 0
      <4>1. e = accepted
        BY <1>3, <1>4, <3>1
      <4> QED
        BY <2>1, <4>1
    <3>2. CASE size # 0 \/ ~boundaryBeforeIn
      BY <1>5, <1>6, <1>9, <3>2
    <3> QED
      BY <3>1, <3>2
  <2> QED
    BY <2>1, <2>2
<1>14. Buffered(out)'
  <2>1. /\ e - out <= TxSize
        /\ \A p \in out .. (e - 1) : txData'[p % TxSize] = p + 1
    <3>1. Buffered(out)
      BY DEF TxAt
    <3>2. /\ accepted + size - out <= TxSize
          /\ \A p \in out .. (accepted + size - 1) : txData'[p % TxSize] = p + 1
      <4>1. /\ size <= Writable
            /\ txData' = [c \in TxCell |->
                            LET ahead == (c + TxSize - (txIn % TxSize)) % TxSize
                            IN  IF ahead < size THEN accepted + ahead + 1 ELSE txData[c]]
        BY <1>1
      <4>2. size \in Nat
        OBVIOUS
      <4> QED
        BY <3>1, <4>1, <4>2, WrittenCells, ZenonT(60)
    <3>3. e = accepted + size
      BY <1>3
    <3>4. ASSUME NEW p \in out .. (e - 1) PROVE txData'[p % TxSize] = p + 1
      <4>1. p \in out .. (accepted + size - 1)
        BY <1>4, <3>3
      <4> QED
        BY <3>2, <4>1, Zenon
    <3>5. e - out <= TxSize
      BY <1>4, <3>2, <3>3, TxSizes
    <3> QED
      BY <3>4, <3>5
  <2>2. txIn' = e % IndexMod
    BY <1>1, <1>3, <1>4, IndexAdvance
  <2>3. txOut = out % IndexMod /\ dmaLeft <= inFlight
        /\ (dmaLeft > 0 => dmaAt = (out + inFlight - dmaLeft) % TxSize)
        /\ (step # "rest" => inFlight = 0)
        /\ (step \in {"select", "start"} => readable > 0)
    BY DEF TxAt, Buffered
  <2>4. out + inFlight <= e /\ (step \in {"select", "start"} => out + readable <= e)
    <3>1. readable \in Nat
      BY DEF TxTypes
    <3> QED
      BY <1>3, <1>4, <1>10, <3>1
  <2> QED
    BY <1>2, <1>4, <2>1, <2>2, <2>3, <2>4 DEF Buffered
<1>15. Marked(out, m)'
  <2>1. ASSUME NEW i \in 1 .. (n + w)
        PROVE  checkpoints'[i] = m[i] % IndexMod
    <3>1. CASE i \in 1 .. n
      BY <1>7, <1>9, <1>10, <3>1
    <3>2. CASE \E k \in 1 .. w : i = n + k
      BY <1>7, <1>9, <3>2
    <3> QED
      BY <1>11, <3>1, <3>2
  <2>2. ASSUME NEW i \in 1 .. (n + w), NEW j \in 1 .. (n + w), i <= j
        PROVE  m[i] <= m[j]
    <3>1. CASE j \in 1 .. n
      <4>1. i \in 1 .. n
        BY <1>3, <2>2, <3>1
      <4>2. marks[i] <= marks[j]
        BY <1>10, <2>2, <3>1, <4>1
      <4> QED
        BY <1>9, <3>1, <4>1, <4>2
    <3>2. CASE i \in 1 .. n /\ \E k \in 1 .. w : j = n + k
      <4>1. m[i] \in Nat /\ m[i] <= accepted
        BY <1>9, <1>10, <3>2
      <4>2. m[j] \in accepted .. e
        BY <1>9, <3>2
      <4> QED
        BY <1>3, <1>4, <4>1, <4>2
    <3>3. CASE (\E k \in 1 .. w : i = n + k) /\ \E k \in 1 .. w : j = n + k
      <4>1. PICK k \in 1 .. w, l \in 1 .. w : i = n + k /\ j = n + l
        BY <3>3
      <4>2. k <= l
        BY <1>3, <1>6, <2>2, <4>1
      <4>3. nm[k] <= nm[l]
        BY <1>5, <1>6, <4>2
      <4> QED
        BY <1>9, <4>1, <4>3
    <3>4. CASE (\E k \in 1 .. w : i = n + k) /\ j \in 1 .. n
      BY <3>1, <3>4
    <3> QED
      BY <1>11, <3>1, <3>2, <3>3
  <2>3. ASSUME NEW i \in 1 .. (n + w)
        PROVE  out + inFlight <= m[i] /\ m[i] <= e /\ (step = "start" => out + readable <= m[i])
    <3>1. CASE i \in 1 .. n
      <4>1. m[i] = marks[i] /\ marks[i] \in Nat /\ marks[i] <= accepted
        BY <1>9, <1>10, <3>1
      <4> QED
        BY <1>3, <1>4, <1>10, <3>1, <4>1
    <3>2. CASE \E k \in 1 .. w : i = n + k
      <4>1. m[i] \in accepted .. e
        BY <1>9, <3>2
      <4>2. step = "start" => out + readable <= accepted
        BY <1>10
      <4>3. readable \in Nat
        BY DEF TxTypes
      <4> QED
        BY <1>3, <1>4, <4>1, <4>2, <4>3
    <3> QED
      BY <1>11, <3>1, <3>2
  <2>4. \A b \in boundaries' : b > out => \E i \in 1 .. (n + w) : m[i] = b
    BY <1>1, <1>3, <1>10, <1>12, <1>13
  <2>5. boundaryBeforeIn' => \E i \in 1 .. (n + w) : m[i] = e
    <3>1. CASE idle
      BY <1>13, <3>1
    <3>2. CASE ~idle /\ boundaryBeforeIn'
      <4>1. size = 0 /\ boundaryBeforeIn
        BY <1>1, <3>2
      <4>2. e = accepted
        BY <1>3, <1>4, <4>1
      <4> QED
        BY <1>10, <1>12, <4>1, <4>2
    <3> QED
      BY <3>1, <3>2
  <2> QED
    BY <1>2, <1>4, <1>7, <2>1, <2>2, <2>3, <2>4, <2>5 DEF Marked
<1>16. Pushed(out)' = Pushed(out)
  BY <1>2 DEF Pushed
<1>17. Consecutive(out)'
  BY <1>1, <1>3, <1>4, <1>16, ConsecutiveStays DEF TxAt
<1>18. IdlesKept(out, m)'
  <2>1. IdlesKept(out, marks) /\ Consecutive(out) /\ Buffered(out)
    BY DEF TxAt
  <2>2. \A k : Row(out, k)' = Row(out, k)
    BY <1>1, <1>16, RowStays
  <2>3. Len(fifo) \in Nat /\ \A k \in 0 .. (Len(fifo) + 1) : Row(out, k) \in Nat
    BY <1>4, <2>1, RowTyped
  <2>4. ASSUME NEW k \in 0 .. Len(fifo), k < Len(fifo), Row(out, k)' \in boundaries',
               Row(out, k + 1)' = Row(out, k)' + 1
        PROVE  CutAt(received + k) \/ (k = 0 /\ line = "idle")
    <3>1. Row(out, k) \in boundaries' /\ Row(out, k + 1) = Row(out, k) + 1
      BY <2>2, <2>4
    <3>2. k + 1 \in 0 .. Len(fifo) /\ Row(out, k) \in Nat
      BY <2>3, <2>4
    <3>3. Row(out, k + 1) <= accepted
      BY <2>1, <3>2 DEF Consecutive
    <3>4. Row(out, k) < accepted
      BY <1>4, <3>1, <3>2, <3>3
    <3>5. Row(out, k) # accepted /\ Row(out, k) # e
      BY <1>3, <1>4, <3>2, <3>4
    <3>6. Row(out, k) \in boundaries
      BY <1>1, <1>3, <3>1, <3>5
    <3> QED
      BY <2>1, <2>4, <3>1, <3>6 DEF IdlesKept
  <2>5. out \in boundaries' /\ inFlight = dmaLeft
           => Rested \/ \E i \in 1 .. (n + w) : m[i] = out
    <3>1. CASE out \in boundaries
      BY <1>3, <1>12, <2>1, <3>1 DEF IdlesKept
    <3>2. CASE out \in boundaries' /\ out \notin boundaries
      <4>1. idle /\ (out = accepted \/ out = e)
        BY <1>1, <1>3, <3>2
      <4> QED
        BY <1>13, <4>1
    <3> QED
      BY <3>1, <3>2
  <2>6. FreeToBegin' /\ FlagMeant'
    BY <1>1, <1>2, <2>1, FlagsStay DEF IdlesKept
  <2> QED
    BY <1>1, <1>2, <1>7, <2>4, <2>5, <2>6 DEF IdlesKept, Rested, CutAt
<1>19. TxAt(out, m)'
  BY <1>14, <1>15, <1>17, <1>18 DEF TxAt
<1>20. out \in 0 .. accepted' /\ m \in [1 .. Len(checkpoints') -> 0 .. accepted']
  BY <1>3, <1>4, <1>7, <1>8
<1> QED
  BY <1>19, <1>20, Witnessed

(* The receive interrupts leave the transmit side alone.                   *)
LEMMA OthersKeepTx ==
    ASSUME TxTypes, NEW out \in 0 .. accepted,
           NEW marks \in [1 .. Len(checkpoints) -> 0 .. accepted], TxAt(out, marks),
           UNCHANGED <<producerVars, consumerVars, dmaVars, lineVars, idleFlag>>
    PROVE  TxInv'
<1>1. /\ UNCHANGED <<producerVars, txOut, inFlight, dmaVars, fifo, wireVars>>
      /\ line' = line /\ triggered' = triggered /\ idleFlag' = idleFlag
      /\ step' = step /\ readable' = readable
  BY DEF consumerVars, lineVars
<1>2. IdlesKept(out, marks)'
  <2>1. /\ UNCHANGED <<checkpoints, inFlight, boundaries, fifo, last, received, seams, stale>>
        /\ UNCHANGED <<dmaLeft, triggered, idleFlag, line>>
    BY <1>1 DEF producerVars, dmaVars, wireVars
  <2>2. FreeToBegin' /\ FlagMeant'
    BY <1>1, <2>1, FlagsStay DEF TxAt, IdlesKept
  <2>3. out \in Nat
    BY DEF TxTypes
  <2> QED
    BY <2>1, <2>2, <2>3, IdlesStay DEF TxAt
<1>3. /\ step' # "rest" => inFlight = 0
      /\ step' \in {"select", "start"} => readable' > 0 /\ out + readable' <= accepted
      /\ step' = "start" => \A i \in 1 .. Len(checkpoints) : out + readable' <= marks[i]
  BY <1>1 DEF TxAt, Buffered, Marked
<1>4. out \in Nat
  BY DEF TxTypes
<1>5. TxAt(out, marks)'
  BY <1>1, <1>2, <1>3, <1>4, QuietKeeps DEF wireVars
<1> QED
  BY <1>1, <1>5, Witnessed DEF producerVars

(* One step per action.                                                    *)
LEMMA StepKeepsTx == TypeOK /\ TxInv /\ [Next]_vars => TxInv'
<1> SUFFICES ASSUME TypeOK, TxInv, [Next]_vars PROVE TxInv'
  OBVIOUS
<1>1. TxTypes
  BY TypeOKGives
<1>2. PICK out \in 0 .. accepted, marks \in [1 .. Len(checkpoints) -> 0 .. accepted] :
         TxAt(out, marks)
  BY DEF TxInv, TxAt
<1>3. ASSUME NEW size \in 0 .. MaxWrite, NEW idle \in BOOLEAN, Enqueue(size, idle)
      PROVE  TxInv'
  <2>1. size \in Nat
    BY TxSizes
  <2> QED
    BY <1>1, <1>2, <1>3, <2>1, EnqueueKeeps
<1>4. CASE Settle
  BY <1>1, <1>2, <1>4, SettleKeeps
<1>5. CASE Load
  BY <1>1, <1>2, <1>5, LoadKeeps
<1>6. CASE Wait
  BY <1>1, <1>2, <1>6, WaitKeeps
<1>7. CASE PassCheckpoint
  BY <1>1, <1>2, <1>7, PassKeeps
<1>8. CASE Select
  BY <1>1, <1>2, <1>8, SelectKeeps
<1>9. CASE TriggerDma
  BY <1>1, <1>2, <1>9, TriggerKeeps
<1>10. ASSUME NEW ok \in BOOLEAN, SetBaudrate(ok)
       PROVE  TxInv'
  BY <1>1, <1>2, <1>10, BaudrateKeeps
<1>11. CASE DmaPush
  BY <1>1, <1>2, <1>11, PushKeeps
<1>12. CASE Shift
  BY <1>1, <1>2, <1>12, ShiftKeepsTx
<1>13. CASE RxLineIdle \/ TxLineIdle
  BY <1>1, <1>2, <1>13, LineKeeps
<1>14. CASE DmaTcHalfTcCallback
  BY <1>1, <1>2, <1>14, OthersKeepTx DEF DmaTcHalfTcCallback
<1>15. CASE RxIdleCallback
  BY <1>1, <1>2, <1>15, OthersKeepTx DEF RxIdleCallback
<1>16. CASE UNCHANGED vars
  BY <1>1, <1>2, <1>16, OthersKeepTx DEF vars
<1> QED
  BY <1>3, <1>4, <1>5, <1>6, <1>7, <1>8, <1>9, <1>10, <1>11, <1>12, <1>13,
     <1>14, <1>15, <1>16 DEF Next

(* ----------------------- types, part by part --------------------------- *)
ProducerTypes ==
    /\ txIn \in 0 .. (IndexMod - 1) /\ txData \in [TxCell -> 0 .. StreamSize]
    /\ checkpoints \in Seq(0 .. (IndexMod - 1)) /\ Len(checkpoints) <= MaxIdleCount
    /\ boundaryBeforeIn \in BOOLEAN
    /\ accepted \in 0 .. StreamSize /\ boundaries \subseteq 0 .. StreamSize

ConsumerTypes ==
    /\ txOut \in 0 .. (IndexMod - 1) /\ inFlight \in 0 .. TxSize
    /\ triggered \in BOOLEAN /\ idleFlag \in BOOLEAN
    /\ step \in {"rest", "load", "select", "start"} /\ readable \in 0 .. TxSize
    /\ dmaAt \in TxCell /\ dmaLeft \in 0 .. inFlight

LineTypes ==
    /\ fifo \in Seq(Byte) /\ Len(fifo) <= FifoDepth
    /\ line \in {"busy", "quiet", "idle"} /\ received \in Nat /\ last \in Byte \cup {0}
    /\ seams \subseteq Nat /\ discarded \in Nat /\ switches \in 0 .. MaxSwitches
    /\ stale \subseteq Nat

ReceiverTypes ==
    /\ rxIn \in 0 .. (IndexMod - 1) /\ rxOut \in 0 .. (IndexMod - 1)
    /\ dmaIrq \in BOOLEAN /\ idleIrq \in BOOLEAN
    /\ released \in 0 .. received
    /\ uplink \in [bytes : Seq(1 .. received), idle : BOOLEAN]

(* The type invariant is four parts, one per actor.                        *)
LEMMA Typed == TypeOK <=> ProducerTypes /\ ConsumerTypes /\ LineTypes /\ ReceiverTypes
  BY Zenon DEF TypeOK, ProducerTypes, ConsumerTypes, LineTypes, ReceiverTypes

(* The initial states are well typed.                                      *)
LEMMA InitTypes == Init => TypeOK
<1> SUFFICES ASSUME Init PROVE TypeOK
  OBVIOUS
<1>1. ProducerTypes
  <2>1. boundaryBeforeIn \in BOOLEAN
    BY Zenon DEF Init
  <2>2. /\ txIn = 0 /\ txData = [c \in TxCell |-> 0] /\ checkpoints = <<>>
        /\ accepted = 0 /\ boundaries = {}
    BY Zenon DEF Init
  <2>3. <<>> \in Seq(0 .. (IndexMod - 1)) /\ Len(<<>>) = 0 /\ 0 \in 0 .. (IndexMod - 1)
        /\ 0 \in 0 .. StreamSize
    BY TxSizes
  <2> QED
    BY <2>1, <2>2, <2>3, TxSizes DEF ProducerTypes
<1>2. ConsumerTypes
  <2>1. triggered \in BOOLEAN /\ idleFlag \in BOOLEAN
    BY Zenon DEF Init
  <2>2. /\ txOut = 0 /\ inFlight = 0 /\ step = "rest" /\ readable = 0
        /\ dmaAt = 0 /\ dmaLeft = 0
    BY Zenon DEF Init
  <2>3. 0 \in 0 .. (IndexMod - 1) /\ 0 \in TxCell /\ 0 \in 0 .. TxSize /\ 0 \in 0 .. 0
    BY TxSizes DEF TxCell
  <2> QED
    BY <2>1, <2>2, <2>3 DEF ConsumerTypes
<1>3. LineTypes
  BY UartAssumption DEF Init, LineTypes
<1>4. ReceiverTypes
  <2>1. NoChunk \in [bytes : Seq(1 .. received), idle : BOOLEAN]
    BY DEF NoChunk
  <2>2. dmaIrq \in BOOLEAN /\ idleIrq \in BOOLEAN
    BY Zenon DEF Init
  <2>3. rxIn = 0 /\ rxOut = 0 /\ released = 0 /\ received = 0 /\ uplink = NoChunk
    BY Zenon DEF Init
  <2>4. 0 \in 0 .. (IndexMod - 1) /\ 0 \in 0 .. 0
    BY Sizes
  <2> QED
    BY <2>1, <2>2, <2>3, <2>4, Zenon DEF ReceiverTypes
<1> QED
  BY <1>1, <1>2, <1>3, <1>4, Typed

(* An index is in the range of the type.                                   *)
LEMMA IndexInRange ==
    ASSUME NEW n \in Nat
    PROVE  Index(n) \in 0 .. (IndexMod - 1) /\ n % IndexMod \in 0 .. (IndexMod - 1)
  BY TxSizes, DivMod DEF Index

(* A write keeps the producer's variables well typed.                      *)
LEMMA EnqueueTypes ==
    ASSUME TypeOK, NEW size \in Nat, NEW idle \in BOOLEAN, Enqueue(size, idle)
    PROVE  ProducerTypes'
<1>1. /\ accepted + size <= StreamSize
      /\ Len(checkpoints) + Len(NewCheckpoints(size, idle)) <= MaxIdleCount
      /\ checkpoints' = checkpoints \o NewCheckpoints(size, idle)
      /\ txData' = [c \in TxCell |->
                      LET ahead == (c + TxSize - (txIn % TxSize)) % TxSize
                      IN  IF ahead < size THEN accepted + ahead + 1 ELSE txData[c]]
      /\ txIn' = Index(txIn + size)
      /\ boundaryBeforeIn' = (idle \/ (size = 0 /\ boundaryBeforeIn))
      /\ accepted' = accepted + size
      /\ boundaries' = boundaries \cup (IF idle THEN {accepted, accepted + size} ELSE {})
  BY DEF Enqueue
<1>2. ProducerTypes
  BY Typed
<1>3. /\ txIn \in 0 .. (IndexMod - 1) /\ txIn \in Nat /\ accepted \in Nat /\ accepted <= StreamSize
      /\ accepted + size \in 0 .. StreamSize /\ StreamSize \in Nat
      /\ boundaryBeforeIn \in BOOLEAN /\ boundaries \subseteq 0 .. StreamSize
      /\ txData \in [TxCell -> 0 .. StreamSize]
  BY <1>1, <1>2, TxSizes DEF ProducerTypes
<1>4. Index(txIn + size) \in 0 .. (IndexMod - 1) /\ txIn' \in 0 .. (IndexMod - 1)
  <2>1. txIn + size \in Nat
    BY <1>3
  <2>2. Index(txIn + size) \in 0 .. (IndexMod - 1)
    BY <2>1, IndexInRange
  <2> QED
    BY <1>1, <2>2
<1>5. txData' \in [TxCell -> 0 .. StreamSize]
  <2>1. ASSUME NEW c \in TxCell
        PROVE  txData'[c] \in 0 .. StreamSize
    <3>1. PICK h : h = (c + TxSize - (txIn % TxSize)) % TxSize
      OBVIOUS
    <3>2. txData'[c] = IF h < size THEN accepted + h + 1 ELSE txData[c]
      BY <1>1, <3>1
    <3>3. h \in Nat
      <4>1. txIn % TxSize \in 0 .. (TxSize - 1)
        BY <1>3, TxSizes, DivMod
      <4>2. PICK k \in Nat : k = c + TxSize - (txIn % TxSize)
        BY <4>1, TxSizes DEF TxCell
      <4>3. k % TxSize \in 0 .. (TxSize - 1)
        BY TxSizes, DivMod
      <4> QED
        BY <3>1, <4>2, <4>3, TxSizes
    <3>4. CASE h < size
      <4>1. accepted + h + 1 \in 0 .. StreamSize
        BY <1>1, <1>3, <3>3, <3>4
      <4> QED
        BY <3>2, <3>4, <4>1
    <3>5. CASE ~(h < size)
      BY <1>3, <3>2, <3>5
    <3> QED
      BY <3>4, <3>5
  <2>2. txData' = [c \in TxCell |-> txData'[c]]
    BY <1>1
  <2> QED
    BY <2>1, <2>2
<1>6. /\ checkpoints' \in Seq(0 .. (IndexMod - 1)) /\ Len(checkpoints') <= MaxIdleCount
  <2> DEFINE R == 0 .. (IndexMod - 1)
             D == NewCheckpoints(size, idle)
  <2>1. checkpoints \in Seq(R)
    BY <1>2 DEF ProducerTypes
  <2>2. D \in Seq(R)
    <3>1. txIn \in R /\ Index(txIn + size) \in R
      BY <1>3, <1>4
    <3> HIDE DEF R
    <3>2. /\ <<txIn>> \in Seq(R) /\ <<Index(txIn + size)>> \in Seq(R) /\ <<>> \in Seq(R)
      BY <3>1
    <3>3. PICK a \in Seq(R), b \in Seq(R) :
             /\ a = (IF boundaryBeforeIn THEN <<>> ELSE <<txIn>>)
             /\ b = (IF size = 0 THEN <<>> ELSE <<Index(txIn + size)>>)
      BY <3>2, Zenon
    <3>4. D = IF ~idle THEN <<>> ELSE a \o b
      BY <3>3, Zenon DEF NewCheckpoints
    <3>5. a \o b \in Seq(R)
      OBVIOUS
    <3> QED
      BY <3>2, <3>4, <3>5, Zenon
  <2> HIDE DEF R, D
  <2>3. PICK q \in Seq(R), d \in Seq(R) : q = checkpoints /\ d = D
    BY <2>1, <2>2, Zenon
  <2>4. q \o d \in Seq(R) /\ Len(q \o d) = Len(q) + Len(d)
    <3>1. q \o d \in Seq(R)
      OBVIOUS
    <3> QED
      BY <3>1, Joined
  <2>5. checkpoints' = q \o d /\ Len(q) + Len(d) <= MaxIdleCount
    BY <1>1, <2>3, Zenon DEF D
  <2> QED
    BY <2>4, <2>5, Zenon DEF R
<1>7. boundaryBeforeIn' \in BOOLEAN
  BY <1>1, <1>3, Zenon
<1>8. accepted' \in 0 .. StreamSize /\ boundaries' \subseteq 0 .. StreamSize
  BY <1>1, <1>3
<1> QED
  BY <1>4, <1>5, <1>6, <1>7, <1>8, Zenon DEF ProducerTypes

(* Every step keeps the producer's variables well typed.                   *)
LEMMA ProducerStep == TypeOK /\ [Next]_vars => ProducerTypes'
<1> SUFFICES ASSUME TypeOK, [Next]_vars PROVE ProducerTypes'
  OBVIOUS
<1>1. ProducerTypes
  BY Typed
<1>2. ASSUME NEW size \in 0 .. MaxWrite, NEW idle \in BOOLEAN, Enqueue(size, idle)
      PROVE  ProducerTypes'
  <2>1. size \in Nat
    BY TxSizes
  <2> QED
    BY <1>2, <2>1, EnqueueTypes
<1>3. CASE PassCheckpoint
  <2>1. /\ UNCHANGED <<txIn, txData, boundaryBeforeIn, accepted, boundaries>>
        /\ checkpoints # <<>> /\ checkpoints' = Tail(checkpoints)
    BY <1>3 DEF PassCheckpoint, AtCheckpoint, lineVars, wireVars
  <2>2. PICK q \in Seq(0 .. (IndexMod - 1)) : q = checkpoints /\ Len(q) <= MaxIdleCount
    BY <1>1, Zenon DEF ProducerTypes
  <2>3. Tail(q) \in Seq(0 .. (IndexMod - 1)) /\ Len(Tail(q)) <= MaxIdleCount
    BY <2>1, <2>2, TxSizes
  <2>4. checkpoints' = Tail(q)
    BY <2>1, <2>2
  <2>5. checkpoints' \in Seq(0 .. (IndexMod - 1)) /\ Len(checkpoints') <= MaxIdleCount
    BY <2>3, <2>4
  <2> QED
    BY <1>1, <2>1, <2>5, Zenon DEF ProducerTypes
<1>4. CASE Shift
  <2>1. /\ UNCHANGED <<txIn, txData, checkpoints, boundaryBeforeIn, accepted>>
        /\ boundaries' \subseteq boundaries
    BY <1>4 DEF Shift, producerVars
  <2>2. boundaries' \subseteq 0 .. StreamSize
    BY <1>1, <2>1 DEF ProducerTypes
  <2> QED
    BY <1>1, <2>1, <2>2, Zenon DEF ProducerTypes
<1>5. CASE UNCHANGED <<producerVars, boundaries>>
  BY <1>1, <1>5, Zenon DEF ProducerTypes, producerVars
<1>6. CASE Settle \/ Load \/ Wait \/ Select \/ TriggerDma
  BY <1>5, <1>6 DEF Settle, Load, Wait, Select, TriggerDma, lineVars, wireVars
<1>7. ASSUME NEW ok \in BOOLEAN, SetBaudrate(ok)
      PROVE  ProducerTypes'
  BY <1>5, <1>7 DEF SetBaudrate
<1>8. CASE DmaPush \/ RxLineIdle \/ TxLineIdle
  BY <1>5, <1>8 DEF DmaPush, RxLineIdle, TxLineIdle, wireVars
<1>9. CASE DmaTcHalfTcCallback \/ RxIdleCallback
  BY <1>5, <1>9 DEF DmaTcHalfTcCallback, RxIdleCallback, lineVars, wireVars
<1>10. CASE UNCHANGED vars
  BY <1>5, <1>10 DEF vars, lineVars, wireVars
<1> QED
  BY <1>2, <1>3, <1>4, <1>6, <1>7, <1>8, <1>9, <1>10 DEF Next

(* What is left of a buffered run fits in the buffer.                      *)
LEMMA FitsIn ==
    ASSUME NEW o \in Nat, NEW r \in Nat, NEW a \in Nat, NEW t \in Nat, o + r <= a, a - o <= t
    PROVE  r \in 0 .. t
  OBVIOUS

(* A burst is no longer than the buffer.                                   *)
LEMMA ConsumerStep == TypeOK /\ TxInv /\ TxInv' /\ [Next]_vars => ConsumerTypes'
<1> SUFFICES ASSUME TypeOK, TxInv, TxInv', [Next]_vars PROVE ConsumerTypes'
  OBVIOUS
<1>1. ConsumerTypes /\ ProducerTypes
  BY Typed
<1>2. /\ txOut \in 0 .. (IndexMod - 1) /\ inFlight \in 0 .. TxSize
      /\ triggered \in BOOLEAN /\ idleFlag \in BOOLEAN
      /\ step \in {"rest", "load", "select", "start"} /\ readable \in 0 .. TxSize
      /\ dmaAt \in TxCell /\ dmaLeft \in 0 .. inFlight
  BY <1>1, Zenon DEF ConsumerTypes
<1>3. /\ txOut \in Nat /\ inFlight \in Nat /\ dmaLeft \in Nat /\ readable \in Nat /\ dmaAt \in Nat
      /\ 0 \in TxCell /\ 0 \in 0 .. TxSize /\ 0 \in 0 .. 0
  BY <1>2, TxSizes DEF TxCell
<1>4. PICK out \in 0 .. accepted : Buffered(out)
  BY DEF TxInv
<1>5. TxTypes
  BY TypeOKGives
<1>6. CASE UNCHANGED <<consumerVars, dmaVars, idleFlag>>
  BY <1>1, <1>6, Zenon DEF ConsumerTypes, consumerVars, dmaVars
<1>7. ASSUME NEW size \in 0 .. MaxWrite, NEW idle \in BOOLEAN, Enqueue(size, idle)
      PROVE  ConsumerTypes'
  BY <1>6, <1>7 DEF Enqueue
<1>8. CASE Settle
  <2>1. /\ txOut' = Index(txOut + inFlight) /\ inFlight' = 0 /\ dmaLeft' = 0 /\ step' = "load"
        /\ UNCHANGED <<triggered, readable, dmaAt, idleFlag>>
    BY <1>8 DEF Settle, dmaVars
  <2>2. txOut' \in 0 .. (IndexMod - 1)
    <3>1. txOut + inFlight \in Nat
      BY <1>3
    <3> QED
      BY <2>1, <3>1, IndexInRange
  <2>3. inFlight' \in 0 .. TxSize /\ dmaLeft' \in 0 .. inFlight'
    BY <1>3, <2>1
  <2> QED
    BY <1>2, <2>1, <2>2, <2>3 DEF ConsumerTypes
<1>9. CASE Load
  <2>1. /\ readable' = Distance(txIn, txOut) /\ step' \in {"rest", "select"}
        /\ UNCHANGED <<txOut, inFlight, triggered, dmaAt, dmaLeft, idleFlag>>
    BY <1>9 DEF Load, dmaVars
  <2>2. readable' \in 0 .. TxSize
    <3>1. readable' = accepted - out /\ accepted - out <= TxSize
      BY <1>4, <1>5, <2>1, TxDistance DEF Buffered
    <3>2. accepted \in Nat
      BY <1>5 DEF TxTypes
    <3> QED
      BY <3>1, <3>2, TxSizes
  <2> QED
    BY <1>2, <2>1, <2>2 DEF ConsumerTypes
<1>10. CASE Wait
  <2>1. /\ readable' = 0 /\ step' = "rest"
        /\ UNCHANGED <<txOut, inFlight, triggered, dmaAt, dmaLeft, idleFlag>>
    BY <1>10 DEF Wait, dmaVars
  <2> QED
    BY <1>2, <1>3, <2>1 DEF ConsumerTypes
<1>11. CASE PassCheckpoint
  BY <1>6, <1>11 DEF PassCheckpoint
<1>12. CASE Select
  <2>1. /\ step' = "start" /\ triggered' = TRUE /\ idleFlag' = FALSE
        /\ UNCHANGED <<producerVars, txOut, inFlight, dmaAt, dmaLeft>>
        /\ readable' = IF checkpoints = <<>> THEN readable
                       ELSE Distance(Head(checkpoints), txOut)
    BY <1>12 DEF Select, ClearFlag, dmaVars
  <2>2. readable' \in Nat
    <3>1. CASE checkpoints = <<>>
      BY <1>3, <2>1, <3>1
    <3>2. CASE checkpoints # <<>>
      <4>1. PICK h \in Nat : h = Head(checkpoints)
        BY <1>5, <3>2 DEF TxTypes
      <4>2. PICK k \in Nat : k = h + IndexMod - txOut
        BY <1>2, <1>3, TxSizes
      <4>3. Index(k) \in 0 .. (IndexMod - 1)
        BY IndexInRange
      <4>4. readable' = Index(k)
        BY <2>1, <3>2, <4>1, <4>2 DEF Distance
      <4> QED
        BY <4>3, <4>4, TxSizes
    <3> QED
      BY <3>1, <3>2
  <2>3. readable' \in 0 .. TxSize
    <3>1. accepted' = accepted /\ accepted \in Nat
      BY <1>5, <2>1 DEF producerVars, TxTypes
    <3>2. PICK o \in 0 .. accepted' : Buffered(o)'
      BY DEF TxInv
    <3>3. o + readable' <= accepted' /\ accepted' - o <= TxSize
      BY <2>1, <3>2 DEF Buffered
    <3>4. o \in Nat /\ TxSize \in Nat
      BY <3>1, TxSizes
    <3>5. accepted' \in Nat
      BY <3>1
    <3>6. PICK r \in Nat, a \in Nat : r = readable' /\ a = accepted'
      BY <2>2, <3>5
    <3>7. o + r <= a /\ a - o <= TxSize
      BY <3>3, <3>6
    <3>8. r \in 0 .. TxSize
      BY <3>4, <3>7, FitsIn
    <3> QED
      BY <3>6, <3>8
  <2> QED
    BY <1>2, <2>1, <2>3 DEF ConsumerTypes
<1>13. CASE TriggerDma
  <2>1. /\ dmaAt' = txOut % TxSize /\ dmaLeft' = readable /\ inFlight' = readable
        /\ readable' = 0 /\ step' = "rest" /\ UNCHANGED <<txOut, triggered, idleFlag>>
    BY <1>13 DEF TriggerDma
  <2>2. dmaAt' \in TxCell
    BY <1>3, <2>1, TxSizes, DivMod DEF TxCell
  <2>3. inFlight' \in 0 .. TxSize /\ dmaLeft' \in 0 .. inFlight' /\ readable' \in 0 .. TxSize
    BY <1>2, <1>3, <2>1
  <2> QED
    BY <1>2, <2>1, <2>2, <2>3 DEF ConsumerTypes
<1>14. ASSUME NEW ok \in BOOLEAN, SetBaudrate(ok)
       PROVE  ConsumerTypes'
  <2>1. /\ dmaAt' = 0 /\ dmaLeft' = 0 /\ triggered' = FALSE /\ inFlight' = 0
        /\ UNCHANGED <<txOut, step, readable, idleFlag>>
    BY <1>14 DEF SetBaudrate, AbortTransmit
  <2>2. dmaAt' \in TxCell /\ inFlight' \in 0 .. TxSize /\ dmaLeft' \in 0 .. inFlight'
    BY <1>3, <2>1
  <2> QED
    BY <1>2, <2>1, <2>2 DEF ConsumerTypes
<1>15. CASE DmaPush
  <2>1. /\ dmaLeft > 0 /\ dmaLeft' = dmaLeft - 1
        /\ dmaAt' = IF dmaLeft = 1 THEN 0 ELSE (dmaAt + 1) % TxSize
        /\ UNCHANGED <<consumerVars, idleFlag>>
    BY <1>15 DEF DmaPush
  <2>2. UNCHANGED <<txOut, inFlight, triggered, step, readable, idleFlag>>
    BY <2>1 DEF consumerVars
  <2>3. dmaAt' \in TxCell
    <3>1. (dmaAt + 1) % TxSize \in TxCell
      BY <1>3, TxSizes, DivMod DEF TxCell
    <3> QED
      BY <1>3, <2>1, <3>1
  <2>4. dmaLeft' \in 0 .. inFlight'
    BY <1>2, <1>3, <2>1, <2>2
  <2> QED
    BY <1>2, <2>2, <2>3, <2>4 DEF ConsumerTypes
<1>16. CASE Shift \/ RxLineIdle
  BY <1>6, <1>16 DEF Shift, RxLineIdle
<1>17. CASE TxLineIdle
  <2>1. idleFlag' = TRUE /\ UNCHANGED <<consumerVars, dmaVars>>
    BY <1>17 DEF TxLineIdle
  <2> QED
    BY <1>2, <2>1 DEF ConsumerTypes, consumerVars, dmaVars
<1>18. CASE DmaTcHalfTcCallback \/ RxIdleCallback
  BY <1>6, <1>18 DEF DmaTcHalfTcCallback, RxIdleCallback
<1>19. CASE UNCHANGED vars
  BY <1>6, <1>19 DEF vars
<1> QED
  BY <1>7, <1>8, <1>9, <1>10, <1>11, <1>12, <1>13, <1>14, <1>15, <1>16, <1>17, <1>18,
     <1>19 DEF Next

(* Only bytes of the stream get onto the line.                             *)
LEMMA LineStep == TypeOK /\ TxInv /\ [Next]_vars => LineTypes'
<1> SUFFICES ASSUME TypeOK, TxInv, [Next]_vars PROVE LineTypes'
  OBVIOUS
<1>1. LineTypes /\ ConsumerTypes /\ ProducerTypes
  BY Typed
<1>2. /\ fifo \in Seq(Byte) /\ Len(fifo) <= FifoDepth /\ Len(fifo) \in Nat
      /\ line \in {"busy", "quiet", "idle"} /\ received \in Nat /\ last \in Byte \cup {0}
      /\ seams \subseteq Nat /\ discarded \in Nat /\ switches \in 0 .. MaxSwitches
      /\ stale \subseteq Nat
  BY <1>1 DEF LineTypes
<1>3. CASE UNCHANGED <<lineVars, switches>>
  BY <1>1, <1>3, Zenon DEF LineTypes, lineVars, wireVars
<1>4. ASSUME NEW size \in 0 .. MaxWrite, NEW idle \in BOOLEAN, Enqueue(size, idle)
      PROVE  LineTypes'
  <2>1. UNCHANGED <<fifo, line, received, last, seams, discarded, stale, switches>>
    BY <1>4 DEF Enqueue
  <2> QED
    BY <1>1, <2>1, Zenon DEF LineTypes
<1>5. CASE Settle \/ Load \/ Wait \/ PassCheckpoint \/ Select \/ TriggerDma
  BY <1>3, <1>5 DEF Settle, Load, Wait, PassCheckpoint, Select, TriggerDma
<1>6. ASSUME NEW ok \in BOOLEAN, SetBaudrate(ok)
      PROVE  LineTypes'
  <2>1. /\ UNCHANGED <<line, received, last>> /\ fifo' = IF ok THEN <<>> ELSE fifo
        /\ seams' = seams \cup {received + Len(fifo')}
        /\ discarded' = discarded + (Len(fifo) - Len(fifo'))
        /\ switches < MaxSwitches /\ switches' = switches + 1
        /\ stale' = {s \in stale : s <= received + Len(fifo')}
    BY <1>6 DEF SetBaudrate
  <2>2. fifo' \in Seq(Byte) /\ Len(fifo') \in 0 .. Len(fifo)
    <3>1. CASE fifo' = <<>>
      <4>1. <<>> \in Seq(Byte) /\ Len(<<>>) = 0
        OBVIOUS
      <4> QED
        BY <1>2, <3>1, <4>1
    <3>2. CASE fifo' = fifo
      BY <1>2, <3>2
    <3> QED
      BY <2>1, <3>1, <3>2
  <2>3. /\ Len(fifo') <= FifoDepth /\ seams' \subseteq Nat /\ discarded' \in Nat
        /\ switches' \in 0 .. MaxSwitches
    <3>1. PICK n \in Nat : n = Len(fifo') /\ n <= Len(fifo)
      BY <1>2, <2>2
    <3>2. seams' \subseteq Nat
      <4>1. seams' = seams \cup {received + n}
        BY <2>1, <3>1, Zenon
      <4>2. received + n \in Nat
        BY <1>2
      <4> QED
        BY <1>2, <4>1, <4>2, Zenon
    <3>3. discarded' \in Nat
      <4>1. discarded' = discarded + (Len(fifo) - n)
        BY <2>1, <3>1, Zenon
      <4> QED
        BY <1>2, <3>1, <4>1
    <3>4. n <= FifoDepth
      BY <1>2, <3>1, TxSizes
    <3>5. switches' \in 0 .. MaxSwitches
      BY <1>2, <2>1, UartAssumption
    <3> QED
      BY <3>1, <3>2, <3>3, <3>4, <3>5
  <2>4. stale' \subseteq Nat
    BY <1>2, <2>1, Zenon
  <2> QED
    BY <1>2, <2>1, <2>2, <2>3, <2>4, Zenon DEF LineTypes
<1>7. CASE DmaPush
  <2>1. /\ UNCHANGED <<line, wireVars, switches>> /\ dmaLeft > 0 /\ Len(fifo) < FifoDepth
        /\ fifo' = Append(fifo, txData[dmaAt])
    BY <1>7 DEF DmaPush
  <2>2. txData[dmaAt] \in Byte
    <3>1. TxTypes
      BY TypeOKGives
    <3>2. PICK out \in 0 .. accepted : Buffered(out)
      BY DEF TxInv
    <3>3. out \in Nat
      BY <3>1 DEF TxTypes
    <3>4. txData[dmaAt] = Pushed(out) + 1
      BY <2>1, <3>1, <3>2, PushedByte
    <3>5. Pushed(out) \in Nat /\ Pushed(out) + 1 <= accepted
      BY <2>1, <3>1, <3>2, <3>3 DEF TxTypes, Buffered, Pushed
    <3>6. accepted \in Nat /\ accepted <= StreamSize /\ StreamSize \in Nat
      BY <1>1, TxSizes DEF ProducerTypes
    <3> QED
      BY <3>4, <3>5, <3>6 DEF Byte
  <2>3. fifo' \in Seq(Byte) /\ Len(fifo') <= FifoDepth
    <3>1. Append(fifo, txData[dmaAt]) \in Seq(Byte)
          /\ Len(Append(fifo, txData[dmaAt])) = Len(fifo) + 1
      BY <1>2, <2>2
    <3> QED
      BY <1>2, <2>1, <3>1, TxSizes
  <2> QED
    BY <1>2, <2>1, <2>3 DEF LineTypes, wireVars
<1>8. CASE Shift
  <2>1. /\ fifo # <<>> /\ fifo' = Tail(fifo) /\ last' = Head(fifo) /\ line' = "busy"
        /\ received' = received + 1 /\ seams' = {s \in seams : s > received}
        /\ discarded' = 0 /\ switches' = switches
        /\ stale' = {s \in stale : s > received}
    BY <1>8 DEF Shift
  <2>2. /\ Tail(fifo) \in Seq(Byte) /\ Len(Tail(fifo)) <= FifoDepth
        /\ Head(fifo) \in Byte
    <3>1. Tail(fifo) \in Seq(Byte) /\ Head(fifo) \in Byte
      BY <1>2, <2>1
    <3>2. Len(Tail(fifo)) = Len(fifo) - 1
      BY <1>2, <2>1
    <3> QED
      BY <1>2, <3>1, <3>2, TxSizes
  <2> QED
    <3>1. received' \in Nat /\ seams' \subseteq Nat /\ discarded' \in Nat
      <4>1. received' = received + 1 /\ seams' \subseteq seams /\ discarded' = 0
        BY <2>1, Zenon
      <4>2. received + 1 \in Nat
        BY <1>2
      <4>3. 0 \in Nat
        OBVIOUS
      <4> QED
        BY <1>2, <4>1, <4>2, <4>3, Zenon
    <3>2. line' \in {"busy", "quiet", "idle"} /\ last' \in Byte \cup {0}
      BY <2>1, <2>2
    <3>3. fifo' \in Seq(Byte) /\ Len(fifo') <= FifoDepth
      BY <2>1, <2>2
    <3>4. switches' \in 0 .. MaxSwitches
      BY <1>2, <2>1
    <3>5. stale' \subseteq Nat
      BY <1>2, <2>1, Zenon
    <3> QED
      BY <3>1, <3>2, <3>3, <3>4, <3>5, Zenon DEF LineTypes
<1>9. CASE RxLineIdle
  <2>1. line' = "quiet" /\ UNCHANGED <<fifo, wireVars, switches>>
    BY <1>9 DEF RxLineIdle
  <2> QED
    BY <1>2, <2>1 DEF LineTypes, wireVars
<1>10. CASE TxLineIdle
  <2>1. /\ line' = "idle" /\ UNCHANGED <<fifo, received, last, seams, discarded, switches>>
        /\ stale' = IF step = "start" THEN {received + readable} ELSE {}
    BY <1>10 DEF TxLineIdle
  <2>2. readable \in Nat /\ received + readable \in Nat
    BY <1>1, <1>2, TxSizes DEF ConsumerTypes
  <2>3. stale' \subseteq Nat
    BY <2>1, <2>2
  <2> QED
    BY <1>2, <2>1, <2>3 DEF LineTypes
<1>11. CASE DmaTcHalfTcCallback \/ RxIdleCallback
  BY <1>3, <1>11 DEF DmaTcHalfTcCallback, RxIdleCallback
<1>12. CASE UNCHANGED vars
  BY <1>3, <1>12 DEF vars
<1> QED
  BY <1>4, <1>5, <1>6, <1>7, <1>8, <1>9, <1>10, <1>11, <1>12 DEF Next

(* A chunk holds bytes of the line.                                        *)
LEMMA ServeTypes ==
    ASSUME TypeOK, RxInv, NEW idle \in BOOLEAN, Serve(idle), received' = received
    PROVE  uplink' \in [bytes : Seq(1 .. received'), idle : BOOLEAN]
<1> DEFINE count == received - released
<1>1. uplink \in [bytes : Seq(1 .. received), idle : BOOLEAN]
  BY Typed DEF ReceiverTypes
<1>2. NoChunk \in [bytes : Seq(1 .. received), idle : BOOLEAN]
  BY DEF NoChunk
<1>3. received \in Nat /\ released \in 0 .. received
  BY DEF RxInv, RxCounts
<1>4. [i \in 1 .. count |-> released + i] \in Seq(1 .. received)
  <2>1. count \in Nat /\ \A i \in 1 .. count : released + i \in 1 .. received
    BY <1>3
  <2> HIDE DEF count
  <2> QED
    BY <2>1
<1>5. \/ uplink' = uplink \/ uplink' = NoChunk
      \/ uplink' = [bytes |-> [i \in 1 .. count |-> released + i], idle |-> idle]
  BY ServeIs, Zenon
<1> HIDE DEF count
<1>6. [bytes |-> [i \in 1 .. count |-> released + i], idle |-> idle]
         \in [bytes : Seq(1 .. received), idle : BOOLEAN]
  BY <1>4
<1> QED
  BY <1>1, <1>2, <1>5, <1>6, Zenon

(* Every step keeps the receiver's variables well typed.                   *)
LEMMA ReceiverStep == TypeOK /\ RxInv /\ RxInv' /\ [Next]_vars => ReceiverTypes'
<1> SUFFICES ASSUME TypeOK, RxInv, RxInv', [Next]_vars PROVE ReceiverTypes'
  OBVIOUS
<1>1. /\ dmaIrq' \in BOOLEAN /\ released' \in 0 .. received'
      /\ received' \in Nat
  BY DEF RxInv, RxCounts
<1>2. rxIn' \in 0 .. (IndexMod - 1) /\ rxOut' \in 0 .. (IndexMod - 1)
  <2>1. /\ rxOut' = released' % IndexMod
        /\ \E seen \in released' .. received' : rxIn' = seen % IndexMod
    BY DEF RxInv, RxIndices
  <2>2. PICK seen \in released' .. received' : rxIn' = seen % IndexMod
    BY <2>1
  <2>3. PICK r \in Nat : r = released'
    BY <1>1
  <2>4. seen \in Nat
    BY <1>1
  <2> QED
    BY <2>1, <2>2, <2>3, <2>4, IndexInRange
<1>3. ReceiverTypes
  BY Typed
<1>4. /\ idleIrq \in BOOLEAN
      /\ uplink \in [bytes : Seq(1 .. received), idle : BOOLEAN]
  BY <1>3 DEF ReceiverTypes
<1> DEFINE Kept == /\ idleIrq' \in BOOLEAN
                   /\ uplink' \in [bytes : Seq(1 .. received'), idle : BOOLEAN]
<1> SUFFICES Kept
  BY <1>1, <1>2, Zenon DEF ReceiverTypes
<1>5. CASE UNCHANGED <<received, idleIrq, uplink>>
  BY <1>4, <1>5, Zenon
<1>6. ASSUME NEW size \in 0 .. MaxWrite, NEW idle \in BOOLEAN, Enqueue(size, idle)
      PROVE  Kept
  BY <1>5, <1>6 DEF Enqueue, rxVars, irqVars
<1>7. CASE Settle \/ Load \/ Wait \/ PassCheckpoint \/ Select \/ TriggerDma
  BY <1>5, <1>7 DEF Settle, Load, Wait, PassCheckpoint, Select, TriggerDma, rxVars, irqVars,
                    lineVars, wireVars
<1>8. ASSUME NEW ok \in BOOLEAN, SetBaudrate(ok)
      PROVE  Kept
  BY <1>5, <1>8 DEF SetBaudrate, rxVars, irqVars
<1>9. CASE DmaPush \/ TxLineIdle
  BY <1>5, <1>9 DEF DmaPush, TxLineIdle, rxVars, irqVars, wireVars
<1>10. CASE Shift
  <2>1. idleIrq' = idleIrq /\ uplink' = NoChunk
    BY <1>10 DEF Shift
  <2>2. NoChunk \in [bytes : Seq(1 .. received'), idle : BOOLEAN]
    BY DEF NoChunk
  <2> QED
    BY <1>4, <2>1, <2>2, Zenon
<1>11. CASE RxLineIdle
  <2>1. idleIrq' \in BOOLEAN
    BY <1>11, Zenon DEF RxLineIdle
  <2>2. received' = received /\ uplink' = uplink
    BY <1>11 DEF RxLineIdle, wireVars, rxVars
  <2> QED
    BY <1>4, <2>1, <2>2, Zenon
<1>12. CASE DmaTcHalfTcCallback
  <2>1. Serve(FALSE) /\ received' = received /\ idleIrq' = idleIrq
    BY <1>12 DEF DmaTcHalfTcCallback, lineVars, wireVars
  <2>2. FALSE \in BOOLEAN
    OBVIOUS
  <2> QED
    BY <1>4, <2>1, <2>2, ServeTypes, Zenon
<1>13. CASE RxIdleCallback
  <2>1. Serve(TRUE) /\ received' = received
    BY <1>13 DEF RxIdleCallback, lineVars, wireVars
  <2>2. TRUE \in BOOLEAN /\ idleIrq' \in BOOLEAN
    BY <1>13, Zenon DEF RxIdleCallback
  <2> QED
    BY <1>4, <2>1, <2>2, ServeTypes, Zenon
<1>14. CASE UNCHANGED vars
  BY <1>5, <1>14 DEF vars, rxVars, irqVars, lineVars, wireVars
<1> HIDE DEF Kept
<1> QED
  BY <1>6, <1>7, <1>8, <1>9, <1>10, <1>11, <1>12, <1>13, <1>14 DEF Next

(* In every reachable state the indices of the transmit buffer stand for   *)
(* positions of the accepted stream, and what is on its way to the line    *)
(* is in order.                                                            *)
THEOREM TransmitInvariant == Spec => [](TypeOK /\ TxInv)
<1>1. Init => TypeOK /\ RxInv /\ TxInv
  BY InitTypes, InitRx, InitTx
<1>2. TypeOK /\ RxInv /\ TxInv /\ [Next]_vars => (TypeOK /\ RxInv /\ TxInv)'
  <2> SUFFICES ASSUME TypeOK, RxInv, TxInv, [Next]_vars PROVE TypeOK' /\ RxInv' /\ TxInv'
    OBVIOUS
  <2>1. RxInv' /\ TxInv'
    BY StepKeeps, StepKeepsTx
  <2>2. ProducerTypes' /\ ConsumerTypes' /\ LineTypes' /\ ReceiverTypes'
    BY <2>1, ProducerStep, ConsumerStep, LineStep, ReceiverStep
  <2>3. TypeOK' <=> ProducerTypes' /\ ConsumerTypes' /\ LineTypes' /\ ReceiverTypes'
    BY Zenon DEF TypeOK, ProducerTypes, ConsumerTypes, LineTypes, ReceiverTypes
  <2> QED
    BY <2>1, <2>2, <2>3
<1> QED
  BY <1>1, <1>2, PTL DEF Spec

(* The types of either side: no index leaves the range of its type, and no *)
(* burst is longer than the buffer.                                        *)
THEOREM UartTypes == Spec => []TypeOK
  BY TransmitInvariant, PTL

(* Only a byte on the line moves the counts of the line.                   *)
LEMMA OnlyShift == [Next]_vars /\ received' # received => Shift
<1> SUFFICES ASSUME [Next]_vars, received' # received, ~Shift PROVE FALSE
  OBVIOUS
<1>1. ~UNCHANGED vars
  BY DEF vars, lineVars, wireVars
<1>2. ~(\E size \in 0 .. MaxWrite, idle \in BOOLEAN : Enqueue(size, idle))
  BY DEF Enqueue
<1>3. ~Settle /\ ~Load /\ ~Wait /\ ~PassCheckpoint /\ ~Select /\ ~TriggerDma
  BY DEF Settle, Load, Wait, PassCheckpoint, Select, TriggerDma, lineVars, wireVars
<1>4. ~(\E ok \in BOOLEAN : SetBaudrate(ok)) /\ ~DmaPush
  BY DEF SetBaudrate, DmaPush, wireVars
<1>5. ~RxLineIdle /\ ~TxLineIdle /\ ~DmaTcHalfTcCallback /\ ~RxIdleCallback
  BY DEF RxLineIdle, TxLineIdle, DmaTcHalfTcCallback, RxIdleCallback, lineVars, wireVars
<1> QED
  BY <1>1, <1>2, <1>3, <1>4, <1>5 DEF Next

(* The byte that leaves the FIFO is the second of the row.                 *)
LEMMA NextOfRow ==
    ASSUME TypeOK, NEW out \in 0 .. accepted, Buffered(out), Shift
    PROVE  /\ Len(fifo) \in Nat /\ Len(fifo) > 0
           /\ Row(out, 0) = last /\ Row(out, 1) = last' /\ last \in Nat /\ last' \in Nat
<1>1. TxTypes /\ out \in Nat
  BY TypeOKGives DEF TxTypes
<1>2. fifo # <<>> /\ last' = Head(fifo)
  BY DEF Shift
<1>3. Len(fifo) \in Nat /\ Len(fifo) > 0 /\ Head(fifo) = fifo[1]
  BY <1>1, <1>2 DEF TxTypes
<1>4. 1 \in 1 .. Len(fifo) /\ 0 \in 0 .. (Len(fifo) + 1) /\ 1 \in 0 .. (Len(fifo) + 1)
  BY <1>3
<1>5. /\ \A k \in 0 .. (Len(fifo) + 1) : Row(out, k) \in Nat
      /\ Row(out, 0) = last /\ \A k \in 1 .. Len(fifo) : Row(out, k) = fifo[k]
  BY <1>1, RowTyped
<1>6. Row(out, 1) = last'
  BY <1>2, <1>3, <1>4, <1>5
<1> QED
  BY <1>3, <1>4, <1>5, <1>6

(* The line carries the accepted bytes in order, for every size of the     *)
(* buffer that divides the range of its indices and every depth of the     *)
(* FIFO, whenever the main loop settles and starts its bursts; where a     *)
(* baudrate request cut in it goes back by a burst at most, and skips no   *)
(* more than the FIFO reset threw away.                                    *)
THEOREM TransmitExact == Spec => TxExact
<1> DEFINE Exact == received' # received =>
         IF Seam THEN last' <= last + 1 + discarded /\ last' + TxSize > last
         ELSE last' = last + 1
<1>1. TypeOK /\ TxInv /\ [Next]_vars => Exact
  <2> SUFFICES ASSUME TypeOK, TxInv, [Next]_vars, received' # received
               PROVE  IF Seam THEN last' <= last + 1 + discarded /\ last' + TxSize > last
                      ELSE last' = last + 1
    OBVIOUS
  <2>1. Shift
    BY OnlyShift
  <2>2. PICK out \in 0 .. accepted : Buffered(out) /\ Consecutive(out)
    BY DEF TxInv
  <2>3. /\ Len(fifo) \in Nat /\ Len(fifo) > 0
        /\ Row(out, 0) = last /\ Row(out, 1) = last' /\ last \in Nat /\ last' \in Nat
    BY <2>1, <2>2, NextOfRow
  <2>4. received \in Nat /\ discarded \in Nat /\ received + 0 = received
    BY TypeOKGives DEF TxTypes
  <2>5. 0 \in 0 .. Len(fifo) /\ 0 \in 0 .. (Len(fifo) + 1) /\ 1 \in 0 .. (Len(fifo) + 1)
        /\ 0 + 1 = 1 /\ 1 - 0 = 1
    BY <2>3
  <2>6. IF received + 0 \in seams THEN Row(out, 0) < Row(out, 0 + 1) + TxSize
        ELSE Row(out, 0 + 1) = Row(out, 0) + 1
    BY <2>2, <2>5 DEF Consecutive
  <2>7. IF received \in seams THEN last < last' + TxSize ELSE last' = last + 1
    BY <2>3, <2>4, <2>5, <2>6
  <2>8. Row(out, 1) <= Row(out, 0) + (1 - 0) + (IF 0 = 0 THEN discarded ELSE 0)
    BY <2>2, <2>5 DEF Consecutive
  <2>9. last' <= last + 1 + discarded
    BY <2>3, <2>4, <2>5, <2>8
  <2> QED
    BY <2>3, <2>7, <2>9, TxSizes DEF Seam
<1> QED
  BY <1>1, TransmitInvariant, PTL DEF Spec, TxExact

(* Where the host asked for an idle the line goes idle between the two     *)
(* bytes, whenever the flag rises, but for the idle behind a burst that    *)
(* began with a flag of the line before it.                                *)
THEOREM IdlesAreKept == Spec => IdleKept
<1> DEFINE Kept == received' # received /\ received # 0 /\ last \in boundaries /\ last' = last + 1
         => line = "idle" \/ Seam \/ received \in stale
<1>1. TypeOK /\ TxInv /\ [Next]_vars => Kept
  <2> SUFFICES ASSUME TypeOK, TxInv, [Next]_vars, received' # received, received # 0,
                      last \in boundaries, last' = last + 1
               PROVE  line = "idle" \/ Seam \/ received \in stale
    OBVIOUS
  <2>1. Shift
    BY OnlyShift
  <2>2. PICK out \in 0 .. accepted, marks \in [1 .. Len(checkpoints) -> 0 .. accepted] :
           Buffered(out) /\ IdlesKept(out, marks)
    BY DEF TxInv
  <2>3. /\ Len(fifo) \in Nat /\ Len(fifo) > 0
        /\ Row(out, 0) = last /\ Row(out, 1) = last' /\ last \in Nat /\ last' \in Nat
    BY <2>1, <2>2, NextOfRow
  <2>4. received \in Nat /\ received + 0 = received
    BY TypeOKGives DEF TxTypes
  <2>5. 0 \in 0 .. Len(fifo) /\ 0 < Len(fifo) /\ 0 + 1 = 1
    BY <2>3
  <2>6. CutAt(received + 0) \/ line = "idle"
    BY <2>2, <2>3, <2>5 DEF IdlesKept
  <2> QED
    BY <2>4, <2>6 DEF CutAt, Seam
<1> QED
  BY <1>1, TransmitInvariant, PTL DEF Spec, IdleKept
=============================================================================
