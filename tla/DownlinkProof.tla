--------------------------- MODULE DownlinkProof ---------------------------
(***************************************************************************)
(* Proofs about a board's downlink.  First SpscRing, which each CAN        *)
(* transmit queue is (transmit_buffer_, can.hpp:424): for every capacity,  *)
(* every index width that is a multiple of it and any number of elements,  *)
(* types, exact indices, no overwritten element, and that the ring         *)
(* implements ReliableStream.  Then VendorArm, which takes those queues as *)
(* sequences: for any number of buses, any depths, marks and packet sizes  *)
(* that leave the headroom the marks are chosen for, types, the order of   *)
(* the frames and the room for them between USB and the buses.             *)
(***************************************************************************)
EXTENDS SpscRing, VendorArm, Integers, TLAPS

(* ------------------------------- SpscRing ------------------------------- *)

(* -------------- a position a and its slot a % C, for any C ------------- *)

(* Quotient and remainder.                                                 *)
LEMMA DivMod ==
    ASSUME NEW a \in Nat, NEW C \in Nat, C > 0
    PROVE  /\ a % C \in 0 .. (C - 1) /\ a \div C \in Nat
           /\ a = C * (a \div C) + (a % C)
  BY SMT

(* A multiple of C strictly between -C and C is zero.                      *)
LEMMA SmallMultiple ==
    ASSUME NEW C \in Nat, NEW z \in Int, C * z < C, C * z > 0 - C, C > 0
    PROVE  z = 0
<1>1. CASE z >= 1
  <2>1. C * z >= C
    BY <1>1, SMT
  <2> QED
    BY <2>1
<1>2. CASE z <= -1
  <2>1. C * (0 - z) >= C /\ C * (0 - z) = 0 - C * z
    BY <1>2, SMT
  <2> QED
    BY <2>1
<1> QED
  BY <1>1, <1>2

(* Positions a multiple of C apart share a slot.                           *)
LEMMA SameSlot ==
    ASSUME NEW C \in Nat, C > 0, NEW a \in Nat, NEW b \in Nat, NEW q \in Int,
           a = b + C * q
    PROVE  a % C = b % C
<1> DEFINE p == a \div C
           s == b \div C
           z == (s + q) - p
<1>1. /\ p \in Nat /\ s \in Nat
      /\ a % C \in 0 .. (C - 1) /\ b % C \in 0 .. (C - 1)
      /\ a = C * p + (a % C) /\ b = C * s + (b % C)
  BY DivMod
<1> HIDE DEF p, s
<1>2. /\ z \in Int /\ C * p \in Int /\ C * s \in Int /\ C * q \in Int
      /\ C * z = (C * s + C * q) - C * p
  BY <1>1, SMT
<1> HIDE DEF z
<1>3. (a % C) - (b % C) = C * z
  BY <1>1, <1>2
<1>4. C * z < C /\ C * z > 0 - C
  BY <1>1, <1>3
<1>5. z = 0
  BY <1>2, <1>4, SmallMultiple
<1>6. C * z = 0
  BY <1>5
<1> QED
  BY <1>1, <1>3, <1>6

(* Positions that share a slot are a multiple of C apart.                  *)
LEMMA SlotsApart ==
    ASSUME NEW C \in Nat, C > 0, NEW a \in Nat, NEW b \in Nat,
           a % C = b % C
    PROVE  \E q \in Int : a = b + C * q
<1> DEFINE p == a \div C
           s == b \div C
<1>1. /\ p \in Nat /\ s \in Nat
      /\ a % C \in 0 .. (C - 1) /\ b % C \in 0 .. (C - 1)
      /\ a = C * p + (a % C) /\ b = C * s + (b % C)
  BY DivMod
<1> HIDE DEF p, s
<1>2. /\ p - s \in Int /\ C * p \in Int /\ C * s \in Int
      /\ C * (p - s) = C * p - C * s
  BY <1>1, SMT
<1>3. a = b + C * (p - s)
  BY <1>1, <1>2
<1> QED
  BY <1>2, <1>3

(* Different positions less than C apart have different slots.             *)
LEMMA SlotsDiffer ==
    ASSUME NEW C \in Nat, C > 0, NEW a \in Nat, NEW b \in Nat,
           a < b + C, b < a + C, a % C = b % C
    PROVE  a = b
<1>1. PICK q \in Int : a = b + C * q
  BY SlotsApart
<1>2. C * q \in Int
  BY SMT
<1>3. C * q < C /\ C * q > 0 - C
  BY <1>1, <1>2
<1>4. q = 0
  BY <1>3, SmallMultiple
<1>5. C * q = 0
  BY <1>4
<1> QED
  BY <1>1, <1>5

(* Positions in one slot stay in one slot when both advance.               *)
LEMMA SlotsAdvance ==
    ASSUME NEW C \in Nat, C > 0, NEW a \in Nat, NEW b \in Nat, NEW n \in Nat,
           a % C = b % C
    PROVE  (a + n) % C = (b + n) % C
<1>1. PICK q \in Int : a = b + C * q
  BY SlotsApart
<1>2. C * q \in Int
  BY SMT
<1> DEFINE x == a + n
           y == b + n
<1>3. x = y + C * q /\ x \in Nat /\ y \in Nat
  BY <1>1, <1>2
<1> HIDE DEF x, y
<1>4. x % C = y % C
  BY <1>3, SameSlot
<1> QED
  BY <1>4 DEF x, y

(* ----------------------------------------------------------------------- *)

(* The part of RingAssumption the arithmetic needs.                        *)
LEMMA Sizes == /\ Capacity \in Nat /\ Capacity >= 2
               /\ Modulus \in Nat /\ MaxItems \in Nat
  BY RingAssumption

(* ------------------------ positions and slots -------------------------- *)

(* The i-th element from an index lies in the slot of its position.        *)
LEMMA SlotExact ==
    ASSUME NEW index \in Nat, NEW position \in Nat,
           index % Capacity = position % Capacity,
           NEW i \in 0 .. (Capacity - 1)
    PROVE  /\ SlotOf(index, i) = (position + i) % Capacity
           /\ SlotOf(index, i) \in 0 .. (Capacity - 1)
<1> DEFINE offset == index % Capacity
           slot == SlotOf(index, i)
<1>1. offset \in 0 .. (Capacity - 1)
  BY Sizes, DivMod
<1>2. /\ slot \in 0 .. (Capacity - 1)
      /\ slot = offset + i \/ offset + i = slot + Capacity * 1
  BY <1>1, Sizes DEF SlotOf
<1>3. slot = slot % Capacity
  BY <1>2, Sizes, SMT
<1>4. offset = offset % Capacity
  BY <1>1, Sizes, SMT
<1> HIDE DEF slot
<1>5. (offset + i) % Capacity = slot
  <2> DEFINE x == offset + i
  <2>1. x \in Nat /\ (x = slot \/ x = slot + Capacity * 1)
    BY <1>1, <1>2, Sizes
  <2> HIDE DEF x
  <2>2. x % Capacity = slot % Capacity
    BY <2>1, <1>2, Sizes, SameSlot
  <2> QED
    BY <2>2, <1>3 DEF x
<1>6. (offset + i) % Capacity = (position + i) % Capacity
  <2> HIDE DEF offset
  <2>1. offset % Capacity = position % Capacity
    BY <1>4 DEF offset
  <2>2. offset \in Nat /\ i \in Nat /\ Capacity \in Nat /\ Capacity > 0
    BY <1>1, Sizes
  <2> QED
    BY <2>1, <2>2, SlotsAdvance, ZenonT(60)
<1> QED
  BY <1>2, <1>5, <1>6 DEF slot

(* Advancing an index, wrapping, keeps it in the slot of its position.     *)
LEMMA IndexAdvance ==
    ASSUME NEW index \in 0 .. (Modulus - 1), NEW position \in Nat,
           index % Capacity = position % Capacity,
           NEW n \in 0 .. Capacity
    PROVE  /\ WrapAdd(index, n) \in 0 .. (Modulus - 1)
           /\ WrapAdd(index, n) % Capacity = (position + n) % Capacity
<1>1. PICK k \in 2 .. Modulus : Modulus = k * Capacity
  BY RingAssumption
<1>2. Modulus = Capacity * k /\ Modulus >= Capacity
  BY <1>1, Sizes, SMT
<1> DEFINE next == WrapAdd(index, n)
           x == index + n
<1>3. /\ next \in 0 .. (Modulus - 1) /\ x \in Nat
      /\ x = next \/ x = next + Modulus
  BY <1>2, Sizes DEF WrapAdd
<1>4. x % Capacity = (position + n) % Capacity
  <2>1. index \in Nat /\ n \in Nat /\ Capacity \in Nat /\ Capacity > 0
    BY Sizes
  <2> QED
    BY <2>1, SlotsAdvance
<1> HIDE DEF next, x
<1>5. x % Capacity = next % Capacity
  <2>1. next \in Nat /\ k \in Int /\ Capacity \in Nat /\ Capacity > 0
    BY <1>3, Sizes
  <2>2. x = next + Capacity * k => x % Capacity = next % Capacity
    BY <1>3, <2>1, SameSlot, ZenonT(60)
  <2> QED
    BY <1>2, <1>3, <2>2
<1> QED
  BY <1>3, <1>4, <1>5 DEF next

(* The index width leaves full and empty apart.                            *)
LEMMA Wide == Modulus >= 2 * Capacity
<1>1. PICK k \in 2 .. Modulus : Modulus = k * Capacity
  BY RingAssumption
<1>2. k >= 2 /\ Capacity \in Nat => k * Capacity >= 2 * Capacity
  BY SMT
<1> QED
  BY <1>1, <1>2, Sizes

(* ----------------------- the inductive invariant ----------------------- *)

(* The ring starts empty.                                                  *)
LEMMA InitRing == RingInit => RingInv
<1> SUFFICES ASSUME RingInit PROVE RingInv
  OBVIOUS
<1>1. RingTypeOK
  BY Sizes, Wide DEF RingInit, RingTypeOK
<1>2. IndexExact
  BY Sizes DEF RingInit, IndexExact, WrapSub
<1>3. UnreadIntact
  BY DEF RingInit, UnreadIntact
<1>4. InOrder
  BY DEF RingInit, InOrder
<1> QED
  BY <1>1, <1>2, <1>3, <1>4, Sizes DEF RingInit, RingInv

(* The producer claims no more than the room its stale index shows.        *)
LEMMA ClaimKeeps == RingInv /\ PushBegin => RingInv'
<1> SUFFICES ASSUME RingInv, PushBegin PROVE RingInv'
  OBVIOUS
<1>1. Room \in 0 .. Capacity /\ Room = Capacity - (produced - consumed)
  BY Sizes DEF RingInv, RingTypeOK, IndexExact, Room
<1>2. claim' \in 0 .. Capacity /\ claim' <= Room
  <2>1. PICK count \in 1 .. (Capacity + 1) : claim' = Least(count, Room)
    BY DEF PushBegin
  <2> QED
    BY <1>1, <2>1, Sizes DEF Least
<1>3. RingTypeOK'
  BY <1>2, Sizes DEF RingInv, RingTypeOK, PushBegin
<1>4. IndexExact' /\ UnreadIntact' /\ InOrder'
  BY DEF RingInv, PushBegin, IndexExact, UnreadIntact, InOrder
<1>5. (produced' - consumed') + claim' <= Capacity
  BY <1>1, <1>2, Sizes DEF RingInv, RingTypeOK, PushBegin
<1>6. \A k \in produced' .. (produced' + placed' - 1) :
          storage'[k % Capacity] = k + 1
  BY DEF RingInv, RingTypeOK, PushBegin
<1> QED
  BY <1>3, <1>4, <1>5, <1>6 DEF RingInv, PushBegin

(* Constructing an element writes the slot of its position, which no       *)
(* unread element occupies.                                                *)
LEMMA PlaceKeeps == RingInv /\ PushElement => RingInv'
<1> SUFFICES ASSUME RingInv, PushElement PROVE RingInv'
  OBVIOUS
<1> DEFINE position == produced + placed
           slot == position % Capacity
<1>1. /\ in \in Nat /\ produced \in Nat /\ consumed \in Nat
      /\ placed \in 0 .. (Capacity - 1) /\ position \in Nat
      /\ in % Capacity = produced % Capacity
      /\ consumed <= produced /\ position < consumed + Capacity
      /\ Capacity \in Nat /\ Capacity > 0
  BY Sizes DEF RingInv, RingTypeOK, IndexExact, PushElement
<1>2. SlotOf(in, placed) = slot /\ slot \in 0 .. (Capacity - 1)
  BY <1>1, SlotExact
<1>3. storage' = [storage EXCEPT ![slot] = position + 1]
  BY <1>2 DEF PushElement
<1>4. ASSUME NEW k \in Nat, k # position, k >= consumed, k <= position
      PROVE  storage'[k % Capacity] = storage[k % Capacity]
  <2>1. k < position + Capacity /\ position < k + Capacity
    BY <1>1, <1>4
  <2>2. k % Capacity # position % Capacity
    <3> HIDE DEF position
    <3> QED
      BY <1>1, <1>4, <2>1, SlotsDiffer
  <2> QED
    BY <1>3, <2>2 DEF RingInv, RingTypeOK
<1>5. storage'[slot] = position + 1
  BY <1>2, <1>3 DEF RingInv, RingTypeOK
<1> HIDE DEF slot
<1>6. RingTypeOK'
  BY <1>1, <1>2, <1>3 DEF RingInv, RingTypeOK, PushElement
<1>7. IndexExact' /\ InOrder'
  BY DEF RingInv, PushElement, IndexExact, InOrder
<1>8. UnreadIntact'
  BY <1>1, <1>4 DEF RingInv, PushElement, UnreadIntact
<1>9. \A k \in produced' .. (produced' + placed' - 1) :
          storage'[k % Capacity] = k + 1
  <2> SUFFICES ASSUME NEW k \in produced .. position
               PROVE  storage'[k % Capacity] = k + 1
    BY <1>1 DEF PushElement
  <2>1. CASE k = position
    BY <1>5, <2>1 DEF slot
  <2>2. CASE k # position
    <3>1. k \in Nat /\ k >= consumed /\ k <= position
          /\ k \in produced .. (produced + placed - 1)
      BY <1>1, <2>2
    <3> QED
      BY <1>4, <2>2, <3>1 DEF RingInv
  <2> QED
    BY <2>1, <2>2
<1> QED
  BY <1>6, <1>7, <1>8, <1>9 DEF RingInv, PushElement

(* Publishing hands over exactly the elements constructed.                 *)
LEMMA PublishKeeps == RingInv /\ PushPublish => RingInv'
<1> SUFFICES ASSUME RingInv, PushPublish PROVE RingInv'
  OBVIOUS
<1>1. /\ in \in 0 .. (Modulus - 1) /\ out \in 0 .. (Modulus - 1)
      /\ produced \in Nat /\ consumed \in Nat /\ claim \in 0 .. Capacity
      /\ placed = claim /\ consumed <= produced
      /\ (produced - consumed) + claim <= Capacity
      /\ WrapSub(in, out) = produced - consumed
      /\ in % Capacity = produced % Capacity
  BY DEF RingInv, RingTypeOK, IndexExact, PushPublish
<1>2. in' \in 0 .. (Modulus - 1) /\ in' % Capacity = produced' % Capacity
  BY <1>1, IndexAdvance DEF PushPublish
<1>3. IndexExact'
  BY <1>1, Sizes, Wide DEF PushPublish, IndexExact, WrapSub, WrapAdd
<1>4. RingTypeOK'
  BY <1>1, <1>2, Sizes, SMTT(30) DEF RingInv, RingTypeOK, PushPublish
<1>5. UnreadIntact'
  <2> SUFFICES ASSUME NEW k \in consumed .. (produced + claim - 1)
               PROVE  storage[k % Capacity] = k + 1
    BY <1>1 DEF PushPublish, UnreadIntact
  <2>1. CASE k < produced
    BY <1>1, <2>1 DEF RingInv, UnreadIntact
  <2>2. CASE k >= produced
    BY <1>1, <2>2 DEF RingInv
  <2> QED
    BY <1>1, <2>1, <2>2
<1>6. InOrder'
  BY DEF RingInv, PushPublish, InOrder
<1>7. /\ (produced' - consumed') + claim' <= Capacity
      /\ consumed' + grab' <= produced'
  BY <1>1, Sizes DEF RingInv, RingTypeOK, PushPublish
<1>8. produced' + placed' - 1 < produced'
  BY <1>1 DEF PushPublish
<1> QED
  BY <1>1, <1>2, <1>3, <1>4, <1>5, <1>6, <1>7, <1>8
     DEF RingInv, RingTypeOK, PushPublish

(* The consumer takes no more than its stale index shows.                  *)
LEMMA GrabKeeps == RingInv /\ PopBegin => RingInv'
<1> SUFFICES ASSUME RingInv, PopBegin PROVE RingInv'
  OBVIOUS
<1>1. /\ WrapSub(in, out) = produced - consumed
      /\ produced - consumed \in 0 .. Capacity
  BY Sizes DEF RingInv, RingTypeOK, IndexExact
<1>2. grab' \in 0 .. Capacity /\ grab' <= produced - consumed
  <2>1. PICK count \in 1 .. (Capacity + 1) : grab' = Least(count, WrapSub(in, out))
    BY DEF PopBegin
  <2> QED
    BY <1>1, <2>1, Sizes DEF Least
<1>3. RingTypeOK'
  BY <1>2, Sizes DEF RingInv, RingTypeOK, PopBegin
<1>4. IndexExact' /\ UnreadIntact'
  BY DEF RingInv, PopBegin, IndexExact, UnreadIntact
<1>5. taken = 0
  BY Sizes DEF RingInv, RingTypeOK, PopBegin
<1>6. InOrder'
  BY <1>5 DEF RingInv, PopBegin, InOrder
<1>7. consumed' + grab' <= produced'
  BY <1>2 DEF RingInv, RingTypeOK, PopBegin
<1> QED
  BY <1>3, <1>4, <1>6, <1>7 DEF RingInv, PopBegin

(* The element handed to the callback is the next of the stream.           *)
LEMMA TakenIsNext ==
    ASSUME RingInv, PopElement
    PROVE  /\ storage[SlotOf(out, taken)] = (consumed + taken) + 1
           /\ consumed + taken < produced
<1>1. /\ out \in Nat /\ consumed \in Nat /\ produced \in Nat
      /\ taken \in 0 .. (Capacity - 1) /\ out % Capacity = consumed % Capacity
      /\ consumed + taken < produced
  BY Sizes DEF RingInv, RingTypeOK, PopElement
<1>2. SlotOf(out, taken) = (consumed + taken) % Capacity
  BY <1>1, SlotExact
<1>3. consumed + taken \in consumed .. (produced - 1)
  BY <1>1
<1> QED
  BY <1>1, <1>2, <1>3 DEF RingInv, UnreadIntact

(* Taking an element extends what was got by one.                          *)
LEMMA TakeKeeps == RingInv /\ PopElement => RingInv'
<1> SUFFICES ASSUME RingInv, PopElement PROVE RingInv'
  OBVIOUS
<1>1. got' = Append(got, (consumed + taken) + 1)
  BY TakenIsNext DEF PopElement
<1>2. /\ consumed + taken \in Nat /\ taken' = taken + 1 /\ taken' \in 0 .. grab
      /\ consumed' = consumed /\ consumed \in Nat /\ taken \in Nat
  BY Sizes DEF RingInv, RingTypeOK, PopElement
<1>3. got' = [i \in 1 .. (consumed' + taken') |-> i]
  <2> DEFINE n == consumed + taken
  <2>1. got = [i \in 1 .. n |-> i] /\ n \in Nat
    BY <1>2 DEF RingInv, InOrder
  <2>2. consumed' + taken' = n + 1 /\ got' = Append(got, n + 1)
    BY <1>1, <1>2
  <2> HIDE DEF n
  <2>3. Append([i \in 1 .. n |-> i], n + 1) = [i \in 1 .. (n + 1) |-> i]
    BY <2>1
  <2> QED
    BY <2>1, <2>2, <2>3
<1>4. RingTypeOK'
  <2>1. got' \in Seq(Nat)
    BY <1>1, <1>2 DEF RingInv, RingTypeOK
  <2> QED
    BY <1>2, <2>1 DEF RingInv, RingTypeOK, PopElement
<1>5. IndexExact' /\ UnreadIntact'
  BY DEF RingInv, PopElement, IndexExact, UnreadIntact
<1> QED
  BY <1>3, <1>4, <1>5 DEF RingInv, InOrder, PopElement

(* Giving slots back gives back exactly the elements taken.                *)
LEMMA ReleaseKeeps == RingInv /\ PopPublish => RingInv'
<1> SUFFICES ASSUME RingInv, PopPublish PROVE RingInv'
  OBVIOUS
<1>1. /\ in \in 0 .. (Modulus - 1) /\ out \in 0 .. (Modulus - 1)
      /\ produced \in Nat /\ consumed \in Nat /\ grab \in 0 .. Capacity
      /\ taken = grab /\ consumed + grab <= produced
      /\ produced - consumed <= Capacity
      /\ WrapSub(in, out) = produced - consumed
      /\ out % Capacity = consumed % Capacity
  BY DEF RingInv, RingTypeOK, IndexExact, PopPublish
<1>2. out' \in 0 .. (Modulus - 1) /\ out' % Capacity = consumed' % Capacity
  BY <1>1, IndexAdvance DEF PopPublish
<1>3. IndexExact'
  BY <1>1, Sizes, Wide DEF PopPublish, IndexExact, WrapSub, WrapAdd
<1>4. RingTypeOK'
  BY <1>1, <1>2, Sizes, SMTT(30) DEF RingInv, RingTypeOK, PopPublish
<1>5. UnreadIntact'
  BY <1>1 DEF RingInv, PopPublish, UnreadIntact
<1>6. InOrder'
  <2>1. consumed' + taken' = consumed + taken
    BY <1>1 DEF PopPublish
  <2> QED
    BY <2>1 DEF RingInv, PopPublish, InOrder
<1>7. /\ (produced' - consumed') + claim' <= Capacity
      /\ consumed' + grab' <= produced'
  BY <1>1, Sizes DEF RingInv, RingTypeOK, PopPublish
<1> QED
  BY <1>2, <1>3, <1>4, <1>5, <1>6, <1>7 DEF RingInv, PopPublish

(* The invariant holds of every ring: work in progress on either side      *)
(* never touches what the other side works on.                             *)
THEOREM RingInvariant == RingSpec => []RingInv
<1>1. RingInv /\ [RingNext]_ringVars => RingInv'
  <2> SUFFICES ASSUME RingInv, [RingNext]_ringVars PROVE RingInv'
    OBVIOUS
  <2>1. CASE UNCHANGED ringVars
    BY <2>1 DEF ringVars, RingInv, RingTypeOK, IndexExact, UnreadIntact, InOrder, WrapSub
  <2> QED
    BY <2>1, ClaimKeeps, PlaceKeeps, PublishKeeps, GrabKeeps, TakeKeeps,
       ReleaseKeeps DEF RingNext
<1> QED
  BY <1>1, InitRing, PTL DEF RingSpec

(* Both indices stay in their width, both works in progress in capacity.   *)
THEOREM RingTypes == RingSpec => []RingTypeOK
<1>1. RingInv => RingTypeOK
  BY DEF RingInv
<1> QED
  BY <1>1, RingInvariant, PTL

(* in - out counts the elements however often the indices have wrapped.    *)
THEOREM IndicesExact == RingSpec => []IndexExact
<1>1. RingInv => IndexExact
  BY DEF RingInv
<1> QED
  BY <1>1, RingInvariant, PTL

(* No element is overwritten before its slot was given back.               *)
THEOREM NothingOverwritten == RingSpec => []UnreadIntact
<1>1. RingInv => UnreadIntact
  BY DEF RingInv
<1> QED
  BY <1>1, RingInvariant, PTL

(* The ring implements the reliable stream: PushPublish is a Put,          *)
(* PopElement a Deliver of one element, everything else a stutter.         *)
THEOREM RingImplements == RingSpec => RingReliable
<1>1. RingInit => Stream!Init
  BY DEF RingInit, Stream!Init
<1>2. RingInv /\ [RingNext]_ringVars => [Stream!Next]_Stream!vars
  <2> SUFFICES ASSUME RingInv, [RingNext]_ringVars PROVE [Stream!Next]_Stream!vars
    OBVIOUS
  <2>1. CASE PushPublish
    <3>1. produced' \in Nat /\ produced' > produced /\ UNCHANGED got
      BY <2>1, Sizes DEF PushPublish, RingInv, RingTypeOK
    <3> QED
      BY <3>1 DEF Stream!Next, Stream!Put
  <2>2. CASE PopElement
    <3> DEFINE n == consumed + taken
    <3>1. /\ n \in Nat /\ n < produced /\ produced \in Nat
          /\ got' = Append(got, n + 1) /\ UNCHANGED produced
      BY <2>2, TakenIsNext, Sizes DEF PopElement, RingInv, RingTypeOK
    <3>2. got = [i \in 1 .. n |-> i] /\ got \in Seq(Nat)
      BY DEF RingInv, InOrder, RingTypeOK
    <3> HIDE DEF n
    <3>3. Len(got) = n
      BY <3>1, <3>2
    <3>4. Append(got, n + 1) = got \o [i \in 1 .. ((n + 1) - n) |-> n + i]
      BY <3>1, <3>2, <3>3
    <3>5. n + 1 \in (Len(got) + 1) .. produced
      BY <3>1, <3>3
    <3> QED
      BY <3>1, <3>3, <3>4, <3>5 DEF Stream!Next, Stream!Deliver, Stream!Bytes
  <2>3. CASE UNCHANGED <<produced, got>>
    BY <2>3 DEF Stream!vars
  <2> QED
    BY <2>1, <2>2, <2>3
       DEF RingNext, PushBegin, PushElement, PopBegin, PopPublish, ringVars
<1> QED
  BY <1>1, <1>2, RingInvariant, PTL DEF RingSpec, RingReliable, Stream!Spec

(* ------------------------------- VendorArm ------------------------------ *)

(* -------------- the CAN downlink: constants and sequences -------------- *)

(* What the constants are.                                                 *)
LEMMA VendorSizes ==
    /\ Buses \in Nat /\ Buses > 0 /\ FifoDepth \in Nat /\ FifoDepth > 0 /\ QueueSize \in Nat
    /\ EngageDepth \in Nat /\ EngageDepth > 0 /\ ReleaseDepth \in Nat
    /\ ReleaseDepth < EngageDepth /\ ThrottlePasses \in Nat /\ ThrottlePasses > 0
    /\ AuditPasses \in Nat /\ AuditPasses > 0 /\ PacketFrames \in Nat
    /\ Headroom \in Nat /\ Headroom > 0 /\ EngageDepth + Headroom = QueueSize + 1
    /\ \A b \in Bus : FrameCount[b] \in Nat
    /\ 1 \in Bus
  BY VendorAssumption DEF Bus, Headroom

(* A sequence with an element more, and one without its first.             *)
LEMMA Appended ==
    ASSUME NEW s \in Seq(Nat), NEW n \in Nat
    PROVE  /\ Append(s, n) \in Seq(Nat) /\ Append(s, n) # <<>> /\ Len(s) \in Nat
           /\ Len(Append(s, n)) = Len(s) + 1
           /\ \A i \in 1 .. Len(s) : Append(s, n)[i] = s[i]
           /\ Append(s, n)[Len(s) + 1] = n
  OBVIOUS

(* Only the empty sequence has length 0.                                   *)
LEMMA EmptyLength == ASSUME NEW s \in Seq(Nat) PROVE s = <<>> <=> Len(s) = 0
  OBVIOUS

LEMMA Removed ==
    ASSUME NEW s \in Seq(Nat), s # <<>>
    PROVE  /\ Tail(s) \in Seq(Nat) /\ Head(s) = s[1] /\ s[1] \in Nat
           /\ Len(s) \in Nat /\ Len(s) > 0 /\ Len(Tail(s)) = Len(s) - 1
           /\ \A i \in 1 .. (Len(s) - 1) : Tail(s)[i] = s[i + 1]
           /\ Tail(s) = <<>> <=> Len(s) = 1
<1>1. /\ Tail(s) \in Seq(Nat) /\ Head(s) = s[1] /\ s[1] \in Nat
      /\ Len(s) \in Nat /\ Len(s) > 0 /\ Len(Tail(s)) = Len(s) - 1
      /\ \A i \in 1 .. (Len(s) - 1) : Tail(s)[i] = s[i + 1]
  OBVIOUS
<1>2. Tail(s) = <<>> <=> Len(Tail(s)) = 0
  BY <1>1, EmptyLength
<1> QED
  BY <1>1, <1>2

(* The same two with elements of any set.                                  *)
LEMMA StaysTyped ==
    ASSUME NEW S, NEW s \in Seq(S)
    PROVE  /\ \A n \in S : Append(s, n) \in Seq(S)
           /\ s # <<>> => Head(s) \in S /\ Tail(s) \in Seq(S)
  OBVIOUS

(* A frame larger than all others keeps a sequence rising.                 *)
LEMMA AppendRises ==
    ASSUME NEW s \in Seq(Nat), NEW n \in Nat, NEW low \in Nat, NEW high \in Nat,
           Rising(s), Within(s, low, high), high < n, low <= n
    PROVE  Rising(Append(s, n)) /\ Within(Append(s, n), low, n)
<1> DEFINE t == Append(s, n)
<1>1. /\ Len(s) \in Nat /\ Len(t) = Len(s) + 1
      /\ \A i \in 1 .. Len(s) : t[i] = s[i] /\ s[i] \in Nat
      /\ t[Len(s) + 1] = n
  BY Appended
<1> HIDE DEF t
<1>2. \A i \in 1 .. Len(t) : i \in 1 .. Len(s) \/ i = Len(s) + 1
  BY <1>1
<1>3. Within(t, low, n)
  <2> SUFFICES ASSUME NEW i \in 1 .. Len(t) PROVE low <= t[i] /\ t[i] <= n
    BY DEF Within
  <2>1. CASE i \in 1 .. Len(s)
    BY <1>1, <2>1 DEF Within
  <2>2. CASE i = Len(s) + 1
    BY <1>1, <2>2
  <2> QED
    BY <1>2, <2>1, <2>2
<1>4. Rising(t)
  <2> SUFFICES ASSUME NEW i \in 1 .. Len(t), NEW j \in 1 .. Len(t), i < j PROVE t[i] < t[j]
    BY DEF Rising
  <2>1. i \in 1 .. Len(s)
    BY <1>1
  <2>2. CASE j \in 1 .. Len(s)
    BY <1>1, <2>1, <2>2 DEF Rising
  <2>3. CASE j = Len(s) + 1
    BY <1>1, <2>1, <2>3 DEF Within
  <2> QED
    BY <1>2, <2>2, <2>3
<1> QED
  BY <1>3, <1>4 DEF t

(* What follows the first element of a rising sequence is larger than it.  *)
LEMMA TailRises ==
    ASSUME NEW s \in Seq(Nat), s # <<>>, NEW low \in Nat, NEW high \in Nat,
           Rising(s), Within(s, low, high)
    PROVE  Rising(Tail(s)) /\ Within(Tail(s), s[1] + 1, high) /\ Within(s, s[1], high)
           /\ low <= s[1] /\ s[1] <= high
<1> DEFINE t == Tail(s)
<1>1. /\ Len(s) \in Nat /\ Len(s) > 0 /\ Len(t) = Len(s) - 1
      /\ \A i \in 1 .. (Len(s) - 1) : t[i] = s[i + 1]
      /\ \A i \in 1 .. Len(s) : s[i] \in Nat
  BY Removed
<1> HIDE DEF t
<1>2. Within(t, s[1] + 1, high)
  <2> SUFFICES ASSUME NEW i \in 1 .. Len(t) PROVE s[1] + 1 <= t[i] /\ t[i] <= high
    BY DEF Within
  <2>1. i + 1 \in 1 .. Len(s) /\ 1 \in 1 .. Len(s) /\ 1 < i + 1 /\ t[i] = s[i + 1]
    BY <1>1
  <2>2. s[1] < s[i + 1] /\ s[i + 1] <= high
    BY <2>1 DEF Rising, Within
  <2> QED
    BY <1>1, <2>1, <2>2
<1>3. Rising(t)
  <2> SUFFICES ASSUME NEW i \in 1 .. Len(t), NEW j \in 1 .. Len(t), i < j PROVE t[i] < t[j]
    BY DEF Rising
  <2>1. /\ i + 1 \in 1 .. Len(s) /\ j + 1 \in 1 .. Len(s) /\ i + 1 < j + 1
        /\ t[i] = s[i + 1] /\ t[j] = s[j + 1]
    BY <1>1
  <2> QED
    BY <2>1 DEF Rising
<1>4. Within(s, s[1], high)
  <2> SUFFICES ASSUME NEW i \in 1 .. Len(s) PROVE s[1] <= s[i] /\ s[i] <= high
    BY DEF Within
  <2>1. 1 \in 1 .. Len(s) /\ (i = 1 \/ 1 < i)
    BY <1>1
  <2>2. i # 1 => s[1] < s[i]
    BY <2>1 DEF Rising
  <2>3. s[1] \in Nat /\ s[i] \in Nat /\ s[i] <= high
    BY <1>1, <2>1 DEF Within
  <2> QED
    BY <2>2, <2>3
<1>5. 1 \in 1 .. Len(s)
  BY <1>1
<1> QED
  BY <1>2, <1>3, <1>4, <1>5 DEF t, Within

(* What a sequence holds after it grew, and after it shrank.               *)
LEMMA AppendHolds ==
    ASSUME NEW s \in Seq(Nat), NEW n \in Nat
    PROVE  Holds(Append(s, n), n) /\ \A f : Holds(s, f) => Holds(Append(s, n), f)
<1> DEFINE t == Append(s, n)
<1>1. /\ Len(s) \in Nat /\ Len(t) = Len(s) + 1
      /\ \A i \in 1 .. Len(s) : t[i] = s[i]
      /\ t[Len(s) + 1] = n
  BY Appended
<1> HIDE DEF t
<1>2. Holds(t, n)
  <2>1. Len(s) + 1 \in 1 .. Len(t)
    BY <1>1
  <2> QED
    BY <1>1, <2>1 DEF Holds
<1>3. ASSUME NEW f, NEW i \in 1 .. Len(s), s[i] = f PROVE Holds(t, f)
  <2>1. i \in 1 .. Len(t)
    BY <1>1
  <2> QED
    BY <1>1, <1>3, <2>1 DEF Holds
<1> QED
  BY <1>2, <1>3 DEF Holds, t

LEMMA TailHolds ==
    ASSUME NEW s \in Seq(Nat), s # <<>>
    PROVE  \A f : Holds(s, f) => f = s[1] \/ Holds(Tail(s), f)
<1> DEFINE t == Tail(s)
<1>1. /\ Len(s) \in Nat /\ Len(s) > 0 /\ Len(t) = Len(s) - 1
      /\ \A i \in 1 .. (Len(s) - 1) : t[i] = s[i + 1]
  BY Removed
<1> HIDE DEF t
<1>2. ASSUME NEW f, NEW i \in 1 .. Len(s), s[i] = f, i # 1 PROVE Holds(t, f)
  <2>1. i - 1 \in 1 .. Len(t) /\ t[i - 1] = s[i]
    BY <1>1, <1>2
  <2> QED
    BY <1>2, <2>1 DEF Holds
<1> QED
  BY <1>2 DEF Holds, t

(* What is within bounds is within wider ones.                             *)
LEMMA Wider ==
    ASSUME NEW s \in Seq(Nat), NEW low \in Nat, NEW high \in Nat, NEW lower \in Nat,
           NEW higher \in Nat, Within(s, low, high), lower <= low, high <= higher
    PROVE  Within(s, lower, higher)
<1> SUFFICES ASSUME NEW i \in 1 .. Len(s) PROVE lower <= s[i] /\ s[i] <= higher
  BY DEF Within
<1>1. s[i] \in Nat /\ low <= s[i] /\ s[i] <= high
  BY DEF Within
<1> QED
  BY <1>1

(* ----------------------------- one bus --------------------------------- *)

BusTypes(b) ==
    /\ fifo[b] \in Seq(1 .. FrameCount[b]) /\ Len(fifo[b]) <= FifoDepth
    /\ queue[b] \in Seq(1 .. FrameCount[b]) /\ Len(queue[b]) <= QueueSize
    /\ offered[b] \in 0 .. FrameCount[b] /\ carried[b] \in 0 .. FrameCount[b]

BusOK(b) == BusTypes(b) /\ FramesInOrder(b) /\ Kept(b)

(* A step that leaves a bus alone keeps it as it should be.                *)
LEMMA BusStays ==
    ASSUME NEW b \in Bus, BusOK(b), fifo'[b] = fifo[b], queue'[b] = queue[b],
           offered'[b] = offered[b], carried'[b] = carried[b], dropped \subseteq dropped',
           Popping(b)' <=> Popping(b)
    PROVE  BusOK(b)'
<1>1. BusTypes(b)'
  BY DEF BusOK, BusTypes
<1>2. FramesInOrder(b)'
  BY DEF BusOK, FramesInOrder, LastSent
<1>3. Kept(b)'
  BY DEF BusOK, Kept, Holds
<1> QED
  BY <1>1, <1>2, <1>3 DEF BusOK


(* What the state of one bus gives, with its types.                        *)
LEMMA BusFacts ==
    ASSUME DataShape, NEW b \in Bus, BusOK(b)
    PROVE  /\ fifo[b] \in Seq(Nat) /\ queue[b] \in Seq(Nat)
           /\ Len(fifo[b]) \in Nat /\ Len(queue[b]) \in Nat
           /\ carried[b] \in Nat /\ offered[b] \in Nat /\ carried[b] <= offered[b]
           /\ carried[b] + 1 \in Nat /\ offered[b] + 1 \in Nat
           /\ LastSent(b) \in Nat /\ carried[b] <= LastSent(b) /\ LastSent(b) <= offered[b]
           /\ fifo[b] # <<>> => carried[b] < LastSent(b) /\ Holds(fifo[b], LastSent(b))
<1>1. /\ fifo[b] \in Seq(Nat) /\ queue[b] \in Seq(Nat)
      /\ Len(fifo[b]) \in Nat /\ Len(queue[b]) \in Nat
      /\ carried[b] \in Nat /\ offered[b] \in Nat
  BY DEF DataShape
<1>2. carried[b] <= offered[b] /\ Within(fifo[b], carried[b] + 1, offered[b])
  BY DEF BusOK, FramesInOrder
<1>3. CASE fifo[b] = <<>>
  BY <1>1, <1>2, <1>3 DEF LastSent
<1>4. CASE fifo[b] # <<>>
  <2>1. Len(fifo[b]) \in 1 .. Len(fifo[b]) /\ LastSent(b) = fifo[b][Len(fifo[b])]
    BY <1>1, <1>4, EmptyLength DEF LastSent
  <2>2. LastSent(b) \in Nat /\ carried[b] + 1 <= LastSent(b) /\ LastSent(b) <= offered[b]
    BY <1>1, <1>2, <2>1 DEF Within
  <2>3. Holds(fifo[b], LastSent(b))
    BY <2>1 DEF Holds
  <2> QED
    BY <1>1, <1>2, <2>2, <2>3
<1> QED
  BY <1>3, <1>4

(* A bus carries the first frame of its FIFO: what it skips was refused.   *)
LEMMA CarryBus ==
    ASSUME DataShape, NEW b \in Bus, BusOK(b), Carry(b)
    PROVE  /\ BusOK(b)'
           /\ carried'[b] > carried[b]
           /\ \A f \in (carried[b] + 1) .. (carried'[b] - 1) : <<b, f>> \in dropped
<1> DEFINE s == fifo[b]
           q == queue[b]
<1>1. /\ s \in Seq(Nat) /\ q \in Seq(Nat) /\ Len(s) \in Nat /\ carried[b] \in Nat
      /\ offered[b] \in Nat /\ carried[b] + 1 \in Nat /\ LastSent(b) \in Nat
  BY BusFacts
<1>2. /\ s # <<>> /\ fifo'[b] = Tail(s) /\ carried'[b] = s[1] /\ queue'[b] = q
      /\ offered'[b] = offered[b] /\ dropped' = dropped /\ (Popping(b)' <=> Popping(b))
  BY DEF Carry, DataShape, Popping, loopVars
<1>3. /\ Tail(s) \in Seq(Nat) /\ Head(s) = s[1] /\ s[1] \in Nat
      /\ Len(s) > 0 /\ Len(Tail(s)) = Len(s) - 1
      /\ \A i \in 1 .. (Len(s) - 1) : Tail(s)[i] = s[i + 1]
      /\ Tail(s) = <<>> <=> Len(s) = 1
  BY <1>1, <1>2, Removed
<1>4. /\ Within(s, carried[b] + 1, offered[b]) /\ Rising(s)
      /\ Within(q, LastSent(b), offered[b]) /\ Rising(q)
  BY DEF BusOK, FramesInOrder
<1>5. /\ Rising(Tail(s)) /\ Within(Tail(s), s[1] + 1, offered[b]) /\ Within(s, s[1], offered[b])
      /\ carried[b] < s[1] /\ s[1] <= offered[b]
  BY <1>1, <1>2, <1>4, TailRises
<1>6. LastSent(b) = s[Len(s)] /\ s[1] <= LastSent(b) /\ LastSent(b)' = LastSent(b)
  <2>1. LastSent(b) = s[Len(s)]
    BY <1>2 DEF LastSent
  <2>2. Len(s) \in 1 .. Len(s)
    BY <1>1, <1>3
  <2>3. CASE Len(s) = 1
    BY <1>1, <1>2, <1>3, <2>1, <2>3 DEF LastSent
  <2>4. CASE Len(s) # 1
    <3>1. Tail(s) # <<>> /\ Len(s) - 1 \in 1 .. (Len(s) - 1) /\ (Len(s) - 1) + 1 = Len(s)
      BY <1>1, <1>3, <2>4
    <3>2. Tail(s)[Len(Tail(s))] = s[Len(s)]
      BY <1>3, <3>1
    <3>3. LastSent(b)' = LastSent(b)
      BY <1>2, <2>1, <3>1, <3>2 DEF LastSent
    <3> QED
      BY <1>5, <2>1, <2>2, <3>3 DEF Within
  <2> QED
    BY <2>1, <2>3, <2>4
<1>7. BusTypes(b)'
  <2>1. Head(s) \in 1 .. FrameCount[b] /\ Tail(s) \in Seq(1 .. FrameCount[b])
    BY <1>1, <1>2, StaysTyped DEF BusOK, BusTypes
  <2> QED
    BY <1>1, <1>2, <1>3, <2>1, VendorSizes DEF BusOK, BusTypes
<1>8. FramesInOrder(b)'
  BY <1>2, <1>5, <1>6 DEF BusOK, FramesInOrder
<1>9. \A f : Holds(q, f) => s[1] <= f
  <2> SUFFICES ASSUME NEW i \in 1 .. Len(q) PROVE s[1] <= q[i]
    BY DEF Holds
  <2>1. q[i] \in Nat /\ LastSent(b) <= q[i]
    BY <1>1, <1>4 DEF Within
  <2>2. s[1] \in Nat /\ LastSent(b) \in Nat /\ s[1] <= LastSent(b)
    BY <1>1, <1>3, <1>6
  <2> HIDE DEF s, q
  <2> QED
    BY <2>1, <2>2
<1>10. \A f : Holds(s, f) => s[1] <= f
  BY <1>5 DEF Holds, Within
<1>11. \A f \in (carried[b] + 1) .. offered[b] : Holds(s, f) \/ Holds(q, f) \/ <<b, f>> \in dropped
  BY DEF BusOK, Kept
<1>12. Kept(b)'
  <2> SUFFICES ASSUME NEW f \in (s[1] + 1) .. offered[b]
               PROVE  Holds(Tail(s), f) \/ Holds(q, f) \/ <<b, f>> \in dropped
    BY <1>2 DEF Kept
  <2>1. f \in (carried[b] + 1) .. offered[b] /\ f # s[1]
    BY <1>1, <1>3, <1>5
  <2> QED
    BY <1>1, <1>2, <1>11, <2>1, TailHolds
<1>13. \A f \in (carried[b] + 1) .. (s[1] - 1) : <<b, f>> \in dropped
  <2> SUFFICES ASSUME NEW f \in (carried[b] + 1) .. (s[1] - 1) PROVE <<b, f>> \in dropped
    OBVIOUS
  <2>1. f \in (carried[b] + 1) .. offered[b] /\ ~(s[1] <= f)
    <3>1. s[1] \in Nat /\ carried[b] \in Nat /\ offered[b] \in Nat /\ s[1] <= offered[b]
      BY <1>1, <1>3, <1>5
    <3> HIDE DEF s
    <3> QED
      BY <3>1
  <2> QED
    BY <1>9, <1>10, <1>11, <2>1
<1> QED
  BY <1>2, <1>5, <1>7, <1>8, <1>12, <1>13 DEF BusOK

(* A frame goes to the FIFO, to the queue, or is refused and on record.    *)
LEMMA HandleBus ==
    ASSUME DataShape, NEW b \in Bus, BusOK(b), HandleDownlink(b),
           GoesStraight(b) \/ HasRoom(b) \/ Excused(b)
    PROVE  BusOK(b)'
<1> DEFINE s == fifo[b]
           q == queue[b]
           n == offered[b] + 1
<1>1. /\ s \in Seq(Nat) /\ q \in Seq(Nat) /\ Len(s) \in Nat /\ Len(q) \in Nat
      /\ carried[b] \in Nat /\ offered[b] \in Nat /\ n \in Nat /\ carried[b] + 1 \in Nat
      /\ LastSent(b) \in Nat /\ LastSent(b) <= offered[b] /\ carried[b] <= offered[b]
      /\ LastSent(b) < n /\ offered[b] < n /\ carried[b] + 1 <= n
  BY BusFacts
<1>2. /\ offered'[b] = n /\ carried'[b] = carried[b] /\ dropped \subseteq dropped'
      /\ fifo'[b] = IF GoesStraight(b) THEN Append(s, n) ELSE s
      /\ queue'[b] = IF ~GoesStraight(b) /\ HasRoom(b) THEN Append(q, n) ELSE q
      /\ ~GoesStraight(b) /\ ~HasRoom(b) => <<b, n>> \in dropped'
      /\ (Popping(b)' <=> Popping(b))
  BY DEF HandleDownlink, DataShape, Popping, loopVars
<1>3. n \in 1 .. FrameCount[b] /\ FrameCount[b] \in Nat
  BY <1>1, VendorSizes DEF HandleDownlink, BusOK, BusTypes
<1>4. BusTypes(b)'
  <2>1. Append(s, n) \in Seq(1 .. FrameCount[b])
    BY <1>3, StaysTyped DEF BusOK, BusTypes
  <2>2. Append(q, n) \in Seq(1 .. FrameCount[b])
    BY <1>3, StaysTyped DEF BusOK, BusTypes
  <2>3. Len(Append(s, n)) = Len(s) + 1 /\ Len(Append(q, n)) = Len(q) + 1
    BY <1>1
  <2>4. fifo'[b] \in Seq(1 .. FrameCount[b]) /\ Len(fifo'[b]) <= FifoDepth
    <3>1. CASE GoesStraight(b)
      BY <1>1, <1>2, <2>1, <2>3, <3>1, VendorSizes DEF GoesStraight
    <3>2. CASE ~GoesStraight(b)
      BY <1>2, <3>2 DEF BusOK, BusTypes
    <3> QED
      BY <3>1, <3>2
  <2>5. queue'[b] \in Seq(1 .. FrameCount[b]) /\ Len(queue'[b]) <= QueueSize
    <3>1. CASE ~GoesStraight(b) /\ HasRoom(b)
      BY <1>1, <1>2, <2>2, <2>3, <3>1, VendorSizes DEF HasRoom
    <3>2. CASE ~(~GoesStraight(b) /\ HasRoom(b))
      BY <1>2, <3>2 DEF BusOK, BusTypes
    <3> QED
      BY <3>1, <3>2
  <2>6. offered'[b] \in 0 .. FrameCount[b] /\ carried'[b] \in 0 .. FrameCount[b]
    BY <1>2, <1>3 DEF BusOK, BusTypes
  <2> QED
    BY <2>4, <2>5, <2>6 DEF BusTypes
<1>5. /\ Within(s, carried[b] + 1, offered[b]) /\ Rising(s)
      /\ Within(q, LastSent(b), offered[b]) /\ Rising(q)
      /\ q # <<>> => (q[1] = LastSent(b) <=> Popping(b))
      /\ Popping(b) => q # <<>>
  BY DEF BusOK, FramesInOrder
<1>6. /\ Within(s, carried[b] + 1, n) /\ Within(q, LastSent(b), n)
      /\ Rising(Append(s, n)) /\ Within(Append(s, n), carried[b] + 1, n)
      /\ Rising(Append(q, n)) /\ Within(Append(q, n), LastSent(b), n)
  <2> HIDE DEF s, q, n
  <2>1. Within(s, carried[b] + 1, n) /\ Within(q, LastSent(b), n)
    <3>1. carried[b] + 1 <= carried[b] + 1 /\ LastSent(b) <= LastSent(b) /\ offered[b] <= n
      BY <1>1
    <3> QED
      BY <1>1, <1>5, <3>1, Wider
  <2>2. Rising(Append(s, n)) /\ Within(Append(s, n), carried[b] + 1, n)
    BY <1>1, <1>5, AppendRises
  <2>3. Rising(Append(q, n)) /\ Within(Append(q, n), LastSent(b), n)
    <3>1. LastSent(b) <= n
      BY <1>1
    <3> QED
      BY <1>1, <1>5, <3>1, AppendRises
  <2> QED
    BY <2>1, <2>2, <2>3
<1>7. Kept(b)'
  <2> SUFFICES ASSUME NEW f \in (carried[b] + 1) .. n
               PROVE  Holds(fifo'[b], f) \/ Holds(queue'[b], f) \/ <<b, f>> \in dropped'
    BY <1>2 DEF Kept
  <2>1. CASE f = n
    BY <1>1, <1>2, <2>1, AppendHolds
  <2>2. CASE f # n
    <3>1. f \in (carried[b] + 1) .. offered[b]
      BY <1>1, <2>2
    <3>2. Holds(s, f) \/ Holds(q, f) \/ <<b, f>> \in dropped
      BY <3>1 DEF BusOK, Kept
    <3> QED
      BY <1>1, <1>2, <3>2, AppendHolds
  <2> QED
    BY <2>1, <2>2
<1>8. FramesInOrder(b)'
  <2>1. CASE GoesStraight(b)
    <3>1. fifo'[b] = Append(s, n) /\ queue'[b] = q /\ q = <<>>
      BY <1>2, <2>1 DEF GoesStraight
    <3>2. Within(q, LastSent(b)', n)
      BY <3>1 DEF Within
    <3> QED
      BY <1>1, <1>2, <1>5, <1>6, <3>1, <3>2 DEF FramesInOrder
  <2>2. CASE ~GoesStraight(b)
    <3>1. fifo'[b] = s /\ LastSent(b)' = LastSent(b)
      BY <1>2, <2>2 DEF LastSent
    <3>2. CASE HasRoom(b)
      <4>1. queue'[b] = Append(q, n) /\ Append(q, n) # <<>>
        BY <1>1, <1>2, <2>2, <3>2, Appended
      <4>2. Append(q, n)[1] = IF q = <<>> THEN n ELSE q[1]
        BY <1>1, Appended, EmptyLength
      <4>3. Append(q, n)[1] = LastSent(b) <=> Popping(b)
        BY <1>1, <1>5, <4>2
      <4> QED
        BY <1>1, <1>2, <1>5, <1>6, <3>1, <4>1, <4>3 DEF FramesInOrder
    <3>3. CASE ~HasRoom(b)
      <4>1. queue'[b] = q
        BY <1>2, <2>2, <3>3
      <4>2. carried[b] <= n
        BY <1>1
      <4> HIDE DEF n
      <4> QED
        BY <1>2, <1>5, <1>6, <3>1, <4>1, <4>2 DEF FramesInOrder
    <3> QED
      BY <3>2, <3>3
  <2> QED
    BY <2>1, <2>2
<1> QED
  BY <1>4, <1>7, <1>8 DEF BusOK

(* The front of the queue goes to the FIFO, and stays in the queue so far. *)
LEMMA TransmitBus ==
    ASSUME DataShape, NEW b \in Bus, at = b, BusOK(b), Transmit
    PROVE  BusOK(b)'
<1> DEFINE s == fifo[b]
           q == queue[b]
           n == q[1]
<1>1. /\ s \in Seq(Nat) /\ q \in Seq(Nat) /\ Len(s) \in Nat /\ Len(q) \in Nat
      /\ carried[b] \in Nat /\ offered[b] \in Nat /\ carried[b] + 1 \in Nat
      /\ LastSent(b) \in Nat /\ carried[b] <= LastSent(b) /\ LastSent(b) <= offered[b]
  BY BusFacts
<1>2. /\ q # <<>> /\ Len(s) < FifoDepth /\ pc = "drain" /\ pc' = "pop" /\ at' = at
      /\ fifo'[b] = Append(s, Head(q)) /\ queue'[b] = q /\ carried'[b] = carried[b]
      /\ offered'[b] = offered[b] /\ dropped' = dropped
      /\ ~Popping(b) /\ Popping(b)'
  BY DEF Transmit, MainAt, DataShape, Popping, historyVars
<1>3. Head(q) = n /\ n \in Nat
  BY <1>1, <1>2, Removed
<1>4. /\ Within(s, carried[b] + 1, offered[b]) /\ Rising(s)
      /\ Within(q, LastSent(b), offered[b]) /\ Rising(q)
      /\ n # LastSent(b) /\ carried[b] <= offered[b]
  BY <1>2 DEF BusOK, FramesInOrder
<1>5. /\ Within(q, n, offered[b]) /\ LastSent(b) < n /\ n <= offered[b]
  BY <1>1, <1>2, <1>3, <1>4, TailRises
<1> HIDE DEF n
<1>6. Within(s, carried[b] + 1, LastSent(b))
  <2>1. CASE s = <<>>
    BY <2>1 DEF Within
  <2>2. CASE s # <<>>
    <3> SUFFICES ASSUME NEW i \in 1 .. Len(s)
                 PROVE  carried[b] + 1 <= s[i] /\ s[i] <= LastSent(b)
      BY DEF Within
    <3>1. LastSent(b) = s[Len(s)]
      BY <2>2 DEF LastSent
    <3>2. Len(s) \in 1 .. Len(s) /\ (i = Len(s) \/ i < Len(s)) /\ s[i] \in Nat
      BY <1>1
    <3>3. i < Len(s) => s[i] < s[Len(s)]
      BY <1>4, <3>2 DEF Rising
    <3>4. carried[b] + 1 <= s[i]
      BY <1>4 DEF Within
    <3> HIDE DEF s
    <3> QED
      BY <1>1, <3>1, <3>2, <3>3, <3>4
  <2> QED
    BY <2>1, <2>2
<1>7. Rising(Append(s, n)) /\ Within(Append(s, n), carried[b] + 1, n)
  <2>1. carried[b] + 1 <= n
    BY <1>1, <1>3, <1>5
  <2> QED
    BY <1>1, <1>3, <1>4, <1>5, <1>6, <2>1, AppendRises
<1>8. /\ Append(s, n) # <<>> /\ Append(s, n)[Len(Append(s, n))] = n
      /\ Within(Append(s, n), carried[b] + 1, offered[b])
  <2> DEFINE t == Append(s, n)
             low == carried[b] + 1
  <2>1. /\ t \in Seq(Nat) /\ t # <<>> /\ Len(t) = Len(s) + 1 /\ t[Len(s) + 1] = n
    BY <1>1, <1>3, Appended
  <2>2. low \in Nat /\ Within(t, low, n)
    BY <1>1, <1>7
  <2> HIDE DEF t, low
  <2>3. low <= low
    BY <2>2
  <2>4. Within(t, low, offered[b])
    BY <1>1, <1>3, <1>5, <2>1, <2>2, <2>3, Wider
  <2>5. t[Len(t)] = n
    BY <2>1
  <2> QED
    BY <2>1, <2>4, <2>5 DEF t, low
<1>9. LastSent(b)' = n
  <2> DEFINE t == Append(s, n)
  <2>1. fifo'[b] = t
    BY <1>2, <1>3
  <2>2. t # <<>> /\ t[Len(t)] = n
    BY <1>8
  <2> HIDE DEF t
  <2> QED
    BY <1>2, <2>1, <2>2 DEF LastSent
<1>10. FramesInOrder(b)'
  BY <1>2, <1>3, <1>4, <1>5, <1>7, <1>8, <1>9 DEF FramesInOrder, n
<1>11. BusTypes(b)'
  <2>1. Append(s, n) \in Seq(1 .. FrameCount[b])
    BY <1>2, <1>3, StaysTyped DEF BusOK, BusTypes
  <2>2. Len(Append(s, n)) = Len(s) + 1
    BY <1>1
  <2>3. Len(Append(s, n)) <= FifoDepth
    BY <1>1, <1>2, <2>2, VendorSizes
  <2> QED
    BY <1>2, <1>3, <2>1, <2>3 DEF BusOK, BusTypes
<1>12. Kept(b)'
  <2>1. \A f : Holds(s, f) => Holds(Append(s, n), f)
    BY <1>1, <1>3, AppendHolds
  <2> QED
    BY <1>2, <1>3, <2>1 DEF BusOK, Kept
<1> QED
  BY <1>10, <1>11, <1>12 DEF BusOK

(* The front leaves the queue: the FIFO has it, or the bus has carried it. *)
LEMMA PopBus ==
    ASSUME DataShape, NEW b \in Bus, at = b, BusOK(b), PopFront
    PROVE  BusOK(b)'
<1> DEFINE q == queue[b]
<1>1. /\ q \in Seq(Nat) /\ Len(q) \in Nat /\ fifo[b] \in Seq(Nat)
      /\ carried[b] \in Nat /\ offered[b] \in Nat /\ LastSent(b) \in Nat
      /\ fifo[b] # <<>> => Holds(fifo[b], LastSent(b))
  BY BusFacts
<1>2. /\ pc = "pop" /\ pc' = "drain" /\ at' = at
      /\ fifo'[b] = fifo[b] /\ queue'[b] = Tail(q) /\ carried'[b] = carried[b]
      /\ offered'[b] = offered[b] /\ dropped' = dropped
      /\ Popping(b) /\ ~Popping(b)'
  BY DEF PopFront, MainAt, DataShape, Popping, historyVars
<1>3. /\ q # <<>> /\ q[1] = LastSent(b)
      /\ Within(q, LastSent(b), offered[b]) /\ Rising(q)
  BY <1>2 DEF BusOK, FramesInOrder
<1>4. /\ Tail(q) \in Seq(Nat) /\ Len(Tail(q)) = Len(q) - 1 /\ Len(q) > 0
      /\ Rising(Tail(q)) /\ Within(Tail(q), LastSent(b) + 1, offered[b])
  BY <1>1, <1>3, TailRises, Removed
<1>5. LastSent(b)' = LastSent(b)
  BY <1>2 DEF LastSent
<1>6. Within(Tail(q), LastSent(b), offered[b])
  <2> DEFINE r == Tail(q)
             low == LastSent(b) + 1
  <2>1. /\ LastSent(b) \in Nat /\ low \in Nat /\ LastSent(b) <= low
        /\ offered[b] \in Nat /\ offered[b] <= offered[b]
    BY <1>1
  <2>2. r \in Seq(Nat) /\ Within(r, low, offered[b])
    BY <1>4
  <2> HIDE DEF r, low
  <2>3. Within(r, LastSent(b), offered[b])
    BY <2>1, <2>2, Wider
  <2> QED
    BY <2>3 DEF r
<1>7. Tail(q) # <<>> => Tail(q)[1] # LastSent(b)
  <2> DEFINE r == Tail(q)
  <2>1. r \in Seq(Nat) /\ Within(r, LastSent(b) + 1, offered[b])
    BY <1>4
  <2> HIDE DEF r
  <2>2. r # <<>> => 1 \in 1 .. Len(r) /\ r[1] \in Nat
    BY <2>1, EmptyLength
  <2>3. r # <<>> => LastSent(b) + 1 <= r[1]
    BY <2>1, <2>2 DEF Within
  <2>4. r # <<>> => r[1] # LastSent(b)
    BY <1>1, <2>2, <2>3
  <2> QED
    BY <2>4 DEF r
<1>8. FramesInOrder(b)'
  <2>1. carried[b] <= offered[b] /\ Within(fifo[b], carried[b] + 1, offered[b])
        /\ Rising(fifo[b])
    BY DEF BusOK, FramesInOrder
  <2> HIDE DEF q
  <2> QED
    BY <1>2, <1>4, <1>5, <1>6, <1>7, <2>1 DEF FramesInOrder
<1>9. BusTypes(b)'
  <2>1. Tail(q) \in Seq(1 .. FrameCount[b])
    BY <1>3, StaysTyped DEF BusOK, BusTypes
  <2>2. Len(q) <= QueueSize
    BY DEF BusOK, BusTypes
  <2>3. Len(Tail(q)) <= QueueSize
    BY <1>1, <1>4, <2>2, VendorSizes
  <2> QED
    BY <1>2, <2>1, <2>3 DEF BusOK, BusTypes
<1>10. Kept(b)'
  <2> SUFFICES ASSUME NEW f \in (carried[b] + 1) .. offered[b]
               PROVE  Holds(fifo[b], f) \/ Holds(Tail(q), f) \/ <<b, f>> \in dropped
    BY <1>2 DEF Kept
  <2>1. Holds(fifo[b], f) \/ Holds(q, f) \/ <<b, f>> \in dropped
    BY DEF BusOK, Kept
  <2>2. Holds(q, f) => f = LastSent(b) \/ Holds(Tail(q), f)
    BY <1>1, <1>3, TailHolds
  <2>3. f = LastSent(b) => Holds(fifo[b], f)
    <3>1. fifo[b] = <<>> => f # LastSent(b)
      BY <1>1 DEF LastSent
    <3> QED
      BY <1>1, <3>1
  <2> QED
    BY <2>1, <2>2, <2>3
<1> QED
  BY <1>8, <1>9, <1>10 DEF BusOK

(* ----------------------------- every step ------------------------------ *)

(* The type invariant apart from the buses and the refused frames.         *)
ScalarTypes ==
    /\ device \in {"off", "configured", "open"} /\ endpoint \in {"idle", "armed", "full", "callback"}
    /\ frames \in 0 .. PacketFrames
    /\ armPending \in BOOLEAN
    /\ throttling \in BOOLEAN /\ abandoned \in BOOLEAN /\ overdue \in BOOLEAN
    /\ throttleTick \in 0 .. (ThrottlePasses - 1) /\ auditTick \in 0 .. (AuditPasses - 1)
    /\ pc \in {"drain", "pop", "look", "audit", "arm", "store"} /\ at \in Bus
    /\ took \in BOOLEAN
    /\ fresh \in [Bus -> 0 .. Headroom] /\ reached \in BOOLEAN /\ late \in BOOLEAN

DroppedTypes == \A d \in dropped : d[1] \in Bus /\ d[2] \in 1 .. FrameCount[d[1]]

(* The invariant, regrouped.                                               *)
LEMMA TypesSplit == TypeOK <=> ScalarTypes /\ DroppedTypes /\ \A b \in Bus : BusTypes(b)
  BY Zenon DEF TypeOK, ScalarTypes, DroppedTypes, BusTypes

LEMMA InvSplit ==
    DownlinkInv <=> /\ ScalarTypes /\ DroppedTypes /\ DataShape /\ RoomKept
                    /\ \A b \in Bus : BusOK(b)
  BY TypesSplit, Zenon DEF DownlinkInv, BusOK

LEMMA InvSplitNext ==
    (DownlinkInv <=> /\ ScalarTypes /\ DroppedTypes /\ DataShape /\ RoomKept
                     /\ \A b \in Bus : BusOK(b))'
  BY InvSplit, PTL

(* A frame that is refused is one that backpressure could not save: what   *)
(* fills the queue above the upper mark has used up the headroom.          *)
LEMMA RefusedIsExcused ==
    ASSUME DownlinkInv, NEW b \in Bus
    PROVE  HasRoom(b) \/ Excused(b)
<1>1. RoomKept /\ ScalarTypes /\ DataShape /\ BusOK(b)
  BY InvSplit
<1>2. SUFFICES ASSUME ~HasRoom(b), ~abandoned PROVE ~late /\ fresh[b] >= Headroom
  BY DEF Excused
<1>3. ~late
  BY <1>1, <1>2 DEF RoomKept
<1>4. /\ Len(queue[b]) < EngageDepth + fresh[b] /\ ~(Len(queue[b]) < QueueSize)
      /\ Len(queue[b]) \in Nat /\ fresh[b] \in 0 .. Headroom
  BY <1>1, <1>2 DEF RoomKept, HasRoom, ScalarTypes, DataShape
<1>5. fresh[b] >= Headroom
  BY <1>4, VendorSizes
<1> QED
  BY <1>3, <1>5

(* Steps that leave the buses alone.                                       *)
LEMMA OtherSteps ==
    ASSUME DownlinkInv,
           \/ Mount \/ OpenEndpoint \/ (\E suspended \in BOOLEAN : UmountOrSuspend(suspended))
           \/ Abort \/ (\E count \in 0 .. PacketFrames : HostPacket(count))
           \/ DeadlinePasses \/ RxBegins \/ RxEnds
           \/ NextBus \/ Look \/ Audit \/ NothingToArm \/ ReadXfer \/ Store
           \/ UNCHANGED vars
    PROVE  /\ UNCHANGED <<canVars, offered, dropped, carried>>
           /\ \A b \in Bus : Popping(b)' <=> Popping(b)
<1>1. UNCHANGED <<canVars, offered, dropped, carried>>
  BY DEF Mount, OpenEndpoint, UmountOrSuspend, Abort, HostPacket, DeadlinePasses, RxBegins,
         RxEnds, NextBus, Look, Audit, NothingToArm, ReadXfer, Rearmed, Store, vars, historyVars
<1>2. UNCHANGED <<pc, at>> \/ (pc # "pop" /\ pc' # "pop")
  BY DEF Mount, OpenEndpoint, UmountOrSuspend, Abort, HostPacket, DeadlinePasses, RxBegins,
         RxEnds, NextBus, Look, Audit, NothingToArm, ReadXfer, Store, vars, MainAt, loopVars
<1> QED
  BY <1>1, <1>2 DEF Popping

(* Every step keeps every bus as it should be.                             *)
LEMMA BusesStep == DownlinkInv /\ [Next]_vars => \A b \in Bus : BusOK(b)'
<1> SUFFICES ASSUME DownlinkInv, [Next]_vars, NEW b \in Bus PROVE BusOK(b)'
  OBVIOUS
<1>1. BusOK(b) /\ DataShape /\ ScalarTypes
  BY InvSplit
<1>2. ASSUME NEW c \in Bus, Carry(c) PROVE BusOK(b)'
  <2>1. CASE b = c
    BY <1>1, <1>2, <2>1, CarryBus
  <2>2. CASE b # c
    BY <1>1, <1>2, <2>2, BusStays DEF Carry, DataShape, Popping, loopVars
  <2> QED
    BY <2>1, <2>2
<1>3. ASSUME NEW c \in Bus, HandleDownlink(c) PROVE BusOK(b)'
  <2>1. CASE b = c
    BY <1>1, <1>3, <2>1, RefusedIsExcused, HandleBus
  <2>2. CASE b # c
    <3>1. fifo'[b] = fifo[b] /\ queue'[b] = queue[b] /\ offered'[b] = offered[b]
      BY <1>1, <1>3, <2>2 DEF HandleDownlink, DataShape
    <3>2. carried'[b] = carried[b] /\ dropped \subseteq dropped' /\ (Popping(b)' <=> Popping(b))
      BY <1>3 DEF HandleDownlink, Popping, loopVars
    <3> QED
      BY <1>1, <3>1, <3>2, BusStays
  <2> QED
    BY <2>1, <2>2
<1>4. CASE Transmit \/ PopFront
  <2>1. at \in Bus
    BY <1>1 DEF ScalarTypes
  <2>2. CASE b = at
    BY <1>1, <1>4, <2>1, <2>2, TransmitBus, PopBus
  <2>3. CASE b # at
    <3>1. fifo'[b] = fifo[b] /\ queue'[b] = queue[b] /\ UNCHANGED historyVars /\ at' = at
      BY <1>1, <1>4, <2>3 DEF Transmit, PopFront, DataShape
    <3> QED
      BY <1>1, <2>3, <3>1, BusStays DEF historyVars, Popping
  <2> QED
    BY <2>2, <2>3
<1>5. CASE UNCHANGED <<canVars, offered, dropped, carried>> /\ \A c \in Bus : Popping(c)' <=> Popping(c)
  BY <1>1, <1>5, BusStays DEF canVars
<1> QED
  BY <1>2, <1>3, <1>4, <1>5, OtherSteps DEF Next

(* The maps stay maps over the buses, the refused frames frames.           *)
LEMMA ShapeStep == DownlinkInv /\ [Next]_vars => DataShape' /\ DroppedTypes'
<1> SUFFICES ASSUME DownlinkInv, [Next]_vars PROVE DataShape' /\ DroppedTypes'
  OBVIOUS
<1>1. DataShape /\ ScalarTypes /\ DroppedTypes /\ \A b \in Bus : BusOK(b)
  BY InvSplit
<1>2. ASSUME NEW c \in Bus, Carry(c) PROVE DataShape' /\ DroppedTypes'
  <2>1. fifo[c] \in Seq(Nat) /\ fifo[c] # <<>>
    BY <1>1, <1>2 DEF DataShape, Carry
  <2>2. Head(fifo[c]) \in Nat /\ Tail(fifo[c]) \in Seq(Nat)
    BY <2>1, Removed
  <2> QED
    BY <1>1, <1>2, <2>2 DEF DataShape, DroppedTypes, Carry
<1>3. ASSUME NEW c \in Bus, HandleDownlink(c) PROVE DataShape' /\ DroppedTypes'
  <2> DEFINE n == offered[c] + 1
  <2>1. n \in 1 .. FrameCount[c] /\ n \in Nat
    BY <1>1, <1>3, VendorSizes DEF DataShape, HandleDownlink, BusOK, BusTypes
  <2>2. Append(fifo[c], n) \in Seq(Nat) /\ Append(queue[c], n) \in Seq(Nat)
    BY <1>1, <2>1 DEF DataShape
  <2>3. /\ offered' = [offered EXCEPT ![c] = n] /\ offered'[c] = n /\ carried' = carried
        /\ fifo' = fifo \/ fifo' = [fifo EXCEPT ![c] = Append(@, n)]
        /\ queue' = queue \/ queue' = [queue EXCEPT ![c] = Append(@, n)]
        /\ dropped' \subseteq dropped \cup {<<c, n>>}
    BY <1>1, <1>3 DEF HandleDownlink, DataShape
  <2> HIDE DEF n
  <2>4. DataShape'
    BY <1>1, <2>1, <2>2, <2>3 DEF DataShape
  <2>5. DroppedTypes'
    BY <1>1, <2>1, <2>3 DEF DroppedTypes
  <2> QED
    BY <2>4, <2>5
<1>4. CASE Transmit
  <2>1. at \in Bus /\ queue[at] \in Seq(Nat) /\ queue[at] # <<>> /\ fifo[at] \in Seq(Nat)
    BY <1>1, <1>4 DEF ScalarTypes, DataShape, Transmit
  <2>2. Append(fifo[at], Head(queue[at])) \in Seq(Nat)
    BY <2>1, Removed
  <2> QED
    BY <1>1, <1>4, <2>1, <2>2 DEF Transmit, DataShape, DroppedTypes, historyVars
<1>5. CASE PopFront
  <2>1. at \in Bus /\ queue[at] \in Seq(Nat)
    BY <1>1 DEF ScalarTypes, DataShape
  <2>2. queue[at] # <<>>
    BY <1>1, <1>5, <2>1 DEF BusOK, FramesInOrder, PopFront, MainAt, Popping
  <2>3. Tail(queue[at]) \in Seq(Nat)
    BY <2>1, <2>2, Removed
  <2> QED
    BY <1>1, <1>5, <2>1, <2>3 DEF PopFront, DataShape, DroppedTypes, historyVars
<1>6. CASE UNCHANGED <<canVars, offered, dropped, carried>>
  BY <1>1, <1>6 DEF canVars, DataShape, DroppedTypes
<1> QED
  BY <1>2, <1>3, <1>4, <1>5, <1>6, OtherSteps DEF Next

(* Every step keeps the types of the rest.                                 *)
LEMMA ScalarStep == DownlinkInv /\ [Next]_vars => ScalarTypes'
<1> SUFFICES ASSUME DownlinkInv, [Next]_vars PROVE ScalarTypes'
  OBVIOUS
<1>1. ScalarTypes
  BY InvSplit
<1> USE <1>1, VendorSizes DEF ScalarTypes, usbVars, throttleVars, tickVars, loopVars,
    lookVars, historyVars
<1>2. CASE Mount \/ OpenEndpoint \/ (\E suspended \in BOOLEAN : UmountOrSuspend(suspended)) \/ Abort
  <2>1. CASE Mount \/ OpenEndpoint \/ Abort
    <3>1. CASE Mount
      BY <3>1 DEF Mount
    <3>2. CASE OpenEndpoint
      BY <3>2 DEF OpenEndpoint
    <3>3. CASE Abort
      BY <3>3 DEF Abort
    <3> QED
      BY <2>1, <3>1, <3>2, <3>3
  <2>2. ASSUME NEW suspended \in BOOLEAN, UmountOrSuspend(suspended) PROVE ScalarTypes'
    BY <2>2 DEF UmountOrSuspend
  <2> QED
    BY <1>2, <2>1, <2>2
<1>3. ASSUME NEW count \in 0 .. PacketFrames, HostPacket(count) PROVE ScalarTypes'
  BY <1>3 DEF HostPacket
<1>4. ASSUME NEW b \in Bus, Carry(b) PROVE ScalarTypes'
  BY <1>4 DEF Carry
<1>5. ASSUME NEW b \in Bus, HandleDownlink(b) PROVE ScalarTypes'
  <2>1. fresh' \in [Bus -> 0 .. Headroom]
    <3>1. fresh[b] < Headroom => fresh[b] + 1 \in 0 .. Headroom
      OBVIOUS
    <3> QED
      BY <1>5, <3>1 DEF HandleDownlink
  <2> QED
    BY <1>5, <2>1 DEF HandleDownlink
<1>6. CASE DeadlinePasses \/ RxBegins \/ RxEnds
  <2>1. CASE DeadlinePasses
    BY <1>1, <2>1, Zenon DEF DeadlinePasses
  <2>2. CASE RxBegins
    BY <2>2 DEF RxBegins
  <2>3. CASE RxEnds
    <3>1. /\ device' \in {"off", "configured", "open"}
          /\ endpoint' \in {"idle", "armed", "full", "callback"} /\ frames' \in 0 .. PacketFrames
          /\ UNCHANGED <<throttleVars, tickVars, loopVars, fresh, reached>>
      BY <2>3 DEF RxEnds, Rearmed
    <3>2. armPending' \in BOOLEAN /\ late' \in BOOLEAN
      <4>1. armPending' = throttling /\ (late' = late \/ late' = reached)
        BY <2>3 DEF RxEnds, Rearmed
      <4> QED
        BY <1>1, <4>1, Zenon
    <3> QED
      BY <3>1, <3>2
  <2> QED
    BY <1>6, <2>1, <2>2, <2>3
<1>7. CASE Transmit \/ PopFront
  BY <1>7 DEF Transmit, PopFront
<1>8. CASE NextBus
  <2>1. at \in Bus /\ at' = (at % Buses) + 1
    BY <1>8 DEF NextBus
  <2>2. at' \in Bus
    BY <2>1 DEF Bus
  <2> QED
    BY <1>8, <2>2 DEF NextBus
<1>9. CASE Look
  <2>1. throttleTick' \in 0 .. (ThrottlePasses - 1)
    BY <1>9 DEF Look
  <2>2. throttling' \in BOOLEAN /\ abandoned' \in BOOLEAN /\ overdue' \in BOOLEAN
    <3>1. UNCHANGED throttleVars \/ Engage \/ Withhold \/ StayOpen
      BY <1>9 DEF Look
    <3>2. CASE UNCHANGED throttleVars
      BY <3>2
    <3>3. CASE Engage
      BY <3>3, Zenon DEF Engage, DepthReaches
    <3>4. CASE Withhold
      BY <3>4, Zenon DEF Withhold, DepthReaches
    <3>5. CASE StayOpen
      BY <3>5, Zenon DEF StayOpen, DepthReaches
    <3> QED
      BY <3>1, <3>2, <3>3, <3>4, <3>5
  <2>3. fresh' \in [Bus -> 0 .. Headroom]
    <3>1. fresh' = fresh \/ fresh' = [b \in Bus |-> 0]
      BY <1>9 DEF Look
    <3> QED
      BY <3>1
  <2>4. reached' \in BOOLEAN /\ late' \in BOOLEAN
    <3>1. \/ reached' = reached /\ late' = late
          \/ reached' = DepthReaches(EngageDepth) /\ late' = (late /\ reached')
      BY <1>9 DEF Look
    <3> QED
      BY <1>1, <3>1, Zenon DEF DepthReaches
  <2> QED
    BY <1>9, <2>1, <2>2, <2>3, <2>4 DEF Look
<1>10. CASE Audit
  <2>1. auditTick' \in 0 .. (AuditPasses - 1)
    BY <1>10 DEF Audit
  <2>2. armPending' \in BOOLEAN
    BY <1>10, Zenon DEF Audit, FoundUnarmed
  <2> QED
    BY <1>10, <2>1, <2>2 DEF Audit
<1>11. CASE NothingToArm
  BY <1>11 DEF NothingToArm
<1>12. CASE ReadXfer
  <2>1. late' = late \/ late' = reached
    BY <1>12 DEF ReadXfer, Rearmed
  <2>2. late' \in BOOLEAN
    BY <1>1, <2>1, Zenon
  <2> QED
    BY <1>12, <2>2 DEF ReadXfer, DriverArms, Rearmed
<1>13. CASE Store
  BY <1>13 DEF Store
<1>14. CASE UNCHANGED vars
  BY <1>14 DEF vars
<1> QED
  BY <1>2, <1>3, <1>4, <1>5, <1>6, <1>7, <1>8, <1>9, <1>10, <1>11, <1>12, <1>13, <1>14 DEF Next

(* A frame is handled: one more may be in its queue, and one more is fresh *)
(* there, or the headroom covers the queue whole.                          *)
LEMMA HandleKeepsRoom ==
    ASSUME DownlinkInv, DataShape', NEW c \in Bus, BusTypes(c)', HandleDownlink(c)
    PROVE  RoomKept'
<1>1. RoomKept /\ ScalarTypes /\ DataShape
  BY InvSplit
<1>2. UNCHANGED <<throttling, abandoned, reached, late>>
  BY DEF HandleDownlink, throttleVars
<1>3. ASSUME ~abandoned, NEW b \in Bus PROVE Len(queue'[b]) < EngageDepth + fresh'[b]
  <2>1. /\ Len(queue[b]) < EngageDepth + fresh[b] /\ Len(queue[b]) \in Nat
        /\ Len(queue'[b]) \in Nat /\ fresh[b] \in 0 .. Headroom
    <3>1. queue[b] \in Seq(Nat) /\ queue'[b] \in Seq(Nat)
      BY <1>1 DEF DataShape
    <3>2. fresh[b] \in 0 .. Headroom
      BY <1>1 DEF ScalarTypes
    <3> QED
      BY <1>1, <1>3, <3>1, <3>2 DEF RoomKept
  <2>2. CASE b # c
    <3>1. queue'[b] = queue[b] /\ fresh'[b] = fresh[b]
      BY <1>1, <2>2 DEF HandleDownlink, ScalarTypes, DataShape
    <3> QED
      BY <2>1, <3>1
  <2>3. CASE b = c
    <3>1. queue'[b] = queue[b] \/ queue'[b] = Append(queue[b], offered[b] + 1)
      BY <1>1, <2>3 DEF HandleDownlink, DataShape
    <3>2. queue[b] \in Seq(Nat) /\ offered[b] + 1 \in Nat
      BY <1>1 DEF DataShape
    <3>3. Len(queue'[b]) <= Len(queue[b]) + 1
      BY <2>1, <3>1, <3>2, Appended
    <3>4. CASE fresh[b] < Headroom
      <4>1. fresh'[b] = fresh[b] + 1
        BY <1>1, <2>3, <3>4 DEF HandleDownlink, ScalarTypes
      <4> QED
        BY <2>1, <3>3, <4>1, VendorSizes
    <3>5. CASE ~(fresh[b] < Headroom)
      <4>1. fresh'[b] = fresh[b] /\ Len(queue'[b]) <= QueueSize
        BY <1>1, <2>3, <3>5 DEF HandleDownlink, ScalarTypes, BusTypes
      <4> QED
        BY <2>1, <3>5, <4>1, VendorSizes
    <3> QED
      BY <3>4, <3>5
  <2> QED
    BY <2>2, <2>3
<1> QED
  BY <1>1, <1>2, <1>3 DEF RoomKept

(* A look at the queues: below the upper mark the count starts afresh, at  *)
(* it the endpoint is withheld or backpressure is given up.                *)
LEMMA LookKeepsRoom == ASSUME DownlinkInv, Look PROVE RoomKept'
<1>1. RoomKept /\ ScalarTypes /\ DataShape
  BY InvSplit
<1>2. queue' = queue
  BY DEF Look, canVars
<1>3. CASE UNCHANGED <<throttleVars, lookVars>>
  BY <1>1, <1>2, <1>3 DEF RoomKept, throttleVars, lookVars
<1>4. CASE /\ Engage \/ Withhold \/ StayOpen
           /\ reached' = DepthReaches(EngageDepth)
           /\ fresh' = IF reached' THEN fresh ELSE [b \in Bus |-> 0]
           /\ late' = (late /\ reached')
  <2>1. DepthReaches(EngageDepth) => DepthReaches(ReleaseDepth + 1)
    BY <1>1, VendorSizes DEF DepthReaches, DataShape
  <2>2. DepthReaches(EngageDepth) => throttling' \/ abandoned'
    BY <1>4, <2>1 DEF Engage, Withhold, StayOpen
  <2>3. abandoned /\ DepthReaches(EngageDepth) => abandoned'
    BY <1>4, <2>1 DEF Engage, Withhold, StayOpen
  <2>4. late' => abandoned'
    BY <1>1, <1>4, <2>3 DEF RoomKept
  <2>5. ASSUME ~abandoned', NEW b \in Bus PROVE Len(queue[b]) < EngageDepth + fresh'[b]
    <3>1. CASE DepthReaches(EngageDepth)
      BY <1>1, <1>4, <2>3, <2>5, <3>1 DEF RoomKept
    <3>2. CASE ~DepthReaches(EngageDepth)
      <4>1. fresh'[b] = 0 /\ ~(Len(queue[b]) >= EngageDepth) /\ Len(queue[b]) \in Nat
        BY <1>1, <1>4, <3>2 DEF DepthReaches, DataShape
      <4> QED
        BY <4>1, VendorSizes
    <3> QED
      BY <3>1, <3>2
  <2> QED
    BY <1>2, <1>4, <2>2, <2>4, <2>5 DEF RoomKept
<1> QED
  BY <1>3, <1>4 DEF Look

(* No other step lengthens a queue, and the endpoint is armed only while   *)
(* it is not withheld.                                                     *)
LEMMA RoomStep == DownlinkInv /\ [Next]_vars => RoomKept'
<1> SUFFICES ASSUME DownlinkInv, [Next]_vars PROVE RoomKept'
  OBVIOUS
<1>1. RoomKept /\ ScalarTypes /\ DataShape /\ \A b \in Bus : BusOK(b)
  BY InvSplit
<1>2. CASE UNCHANGED <<throttling, abandoned, queue, lookVars>>
  BY <1>1, <1>2 DEF RoomKept, lookVars
<1>3. CASE \/ Mount \/ OpenEndpoint \/ (\E suspended \in BOOLEAN : UmountOrSuspend(suspended))
           \/ Abort \/ (\E count \in 0 .. PacketFrames : HostPacket(count))
           \/ DeadlinePasses \/ RxBegins \/ Transmit \/ NextBus \/ Audit \/ NothingToArm
           \/ Store \/ (\E b \in Bus : Carry(b)) \/ UNCHANGED vars
  BY <1>2, <1>3 DEF Mount, OpenEndpoint, UmountOrSuspend, Abort, HostPacket, DeadlinePasses,
     RxBegins, Transmit, NextBus, Audit, NothingToArm, Store, Carry, vars, throttleVars,
     canVars, historyVars
<1>4. CASE RxEnds \/ ReadXfer
  <2>1. /\ UNCHANGED <<throttling, abandoned, queue, fresh, reached>>
        /\ late' = late \/ (late' = reached /\ ~throttling)
    BY <1>4 DEF RxEnds, ReadXfer, Rearmed, throttleVars, canVars, historyVars, lookVars
  <2> QED
    BY <1>1, <2>1 DEF RoomKept
<1>5. ASSUME NEW c \in Bus, HandleDownlink(c) PROVE RoomKept'
  <2>1. DataShape' /\ BusTypes(c)'
    BY ShapeStep, BusesStep DEF BusOK
  <2> QED
    BY <1>5, <2>1, HandleKeepsRoom
<1>6. CASE PopFront
  <2>1. /\ UNCHANGED <<throttling, abandoned, lookVars>> /\ at \in Bus
        /\ queue[at] \in Seq(Nat) /\ queue[at] # <<>>
    BY <1>1, <1>6 DEF PopFront, MainAt, throttleVars, historyVars, ScalarTypes, DataShape,
       BusOK, FramesInOrder, Popping
  <2>2. Len(Tail(queue[at])) = Len(queue[at]) - 1 /\ Len(queue[at]) \in Nat
    BY <2>1, Removed
  <2>3. ASSUME ~abandoned, NEW b \in Bus PROVE Len(queue'[b]) < EngageDepth + fresh[b]
    <3>1. /\ Len(queue[b]) < EngageDepth + fresh[b]
          /\ queue'[b] = IF b = at THEN Tail(queue[b]) ELSE queue[b]
          /\ Len(queue[b]) \in Nat /\ fresh[b] \in 0 .. Headroom
      BY <1>1, <1>6, <2>1, <2>3 DEF RoomKept, PopFront, DataShape, ScalarTypes
    <3>2. CASE b = at
      BY <2>2, <3>1, <3>2, VendorSizes
    <3>3. CASE b # at
      BY <3>1, <3>3
    <3> QED
      BY <3>2, <3>3
  <2> QED
    BY <1>1, <2>1, <2>3 DEF RoomKept, lookVars
<1> QED
  BY <1>3, <1>4, <1>5, <1>6, LookKeepsRoom DEF Next

(* At the start there is nothing in the queues.                            *)
LEMMA VendorInit == Init => DownlinkInv
<1> SUFFICES ASSUME Init PROVE DownlinkInv
  OBVIOUS
<1>1. /\ \A b \in Bus : fifo[b] = <<>> /\ queue[b] = <<>> /\ offered[b] = 0 /\ carried[b] = 0
      /\ pc = "drain" /\ endpoint = "idle" /\ reached = FALSE /\ late = FALSE /\ dropped = {}
      /\ \A b \in Bus : fresh[b] = 0
  BY DEF Init
<1>2. ScalarTypes /\ DroppedTypes
  <2>1. 0 \in 0 .. PacketFrames /\ 0 \in 0 .. (ThrottlePasses - 1) /\ 0 \in 0 .. (AuditPasses - 1)
        /\ 1 \in Bus /\ 0 \in 0 .. Headroom
    BY VendorSizes
  <2>2. ScalarTypes
    BY <2>1 DEF Init, ScalarTypes
  <2>3. DroppedTypes
    BY <1>1 DEF DroppedTypes
  <2> QED
    BY <2>2, <2>3
<1>3. DataShape
  BY DEF Init, DataShape
<1>4. RoomKept
  BY <1>1, VendorSizes DEF RoomKept
<1>5. ASSUME NEW b \in Bus PROVE BusOK(b)
  <2>1. Rising(<<>>) /\ \A low, high : Within(<<>>, low, high)
    BY DEF Rising, Within
  <2>2. <<>> \in Seq(1 .. FrameCount[b]) /\ Len(<<>>) = 0
    OBVIOUS
  <2>3. BusTypes(b)
    <3>1. FrameCount[b] \in Nat /\ FifoDepth \in Nat /\ QueueSize \in Nat
      BY VendorSizes
    <3>2. 0 \in 0 .. FrameCount[b] /\ 0 <= FifoDepth /\ 0 <= QueueSize
      BY <3>1
    <3> QED
      BY <1>1, <2>2, <3>2 DEF BusTypes
  <2>4. FramesInOrder(b)
    BY <1>1, <2>1 DEF FramesInOrder, Popping
  <2>5. Kept(b)
    BY <1>1 DEF Kept
  <2> QED
    BY <2>3, <2>4, <2>5 DEF BusOK
<1> QED
  BY <1>2, <1>3, <1>4, <1>5, InvSplit

(* The order on every bus and the accounting of the room in every queue    *)
(* hold throughout, whoever preempts the drain, however old the throttle's *)
(* answer is and however many frames a packet carries.                     *)
THEOREM DownlinkInvariant == Spec => []DownlinkInv
<1>1. DownlinkInv /\ [Next]_vars => DownlinkInv'
  BY BusesStep, ShapeStep, ScalarStep, RoomStep, InvSplitNext
<1> QED
  BY <1>1, VendorInit, PTL DEF Spec

(* Types of the vendor class, the queues and the FIFOs.                    *)
THEOREM VendorTypes == Spec => []TypeOK
<1>1. DownlinkInv => TypeOK
  BY DEF DownlinkInv
<1> QED
  BY <1>1, DownlinkInvariant, PTL

(* A bus carries the host's frames in their order, and misses none but     *)
(* those backpressure could not save: refused after it was given up, or    *)
(* when more came than the headroom holds before a look could withhold     *)
(* the endpoint.  Nothing is assumed of the depths or of a packet's size.  *)
THEOREM BusesAreExact == Spec => BusExact
<1>1. DownlinkInv /\ [Next]_vars =>
        [\A b \in Bus : carried'[b] # carried[b] =>
           /\ carried'[b] > carried[b]
           /\ \A f \in (carried[b] + 1) .. (carried'[b] - 1) : <<b, f>> \in dropped]_vars
  <2> SUFFICES ASSUME DownlinkInv, [Next]_vars, NEW b \in Bus, carried'[b] # carried[b]
               PROVE  /\ carried'[b] > carried[b]
                      /\ \A f \in (carried[b] + 1) .. (carried'[b] - 1) : <<b, f>> \in dropped
    OBVIOUS
  <2>1. DataShape /\ \A c \in Bus : BusOK(c)
    BY InvSplit
  <2>2. Carry(b)
    <3>1. ASSUME NEW c \in Bus, Carry(c) PROVE c = b
      BY <2>1, <3>1 DEF Carry, DataShape
    <3>2. ASSUME NEW c \in Bus, HandleDownlink(c) PROVE FALSE
      BY <3>2 DEF HandleDownlink
    <3>3. CASE Transmit \/ PopFront
      BY <3>3 DEF Transmit, PopFront, historyVars
    <3> QED
      BY <3>1, <3>2, <3>3, OtherSteps DEF Next, historyVars
  <2> QED
    BY <2>1, <2>2, CarryBus
<1> QED
  BY <1>1, DownlinkInvariant, PTL DEF Spec, BusExact
=============================================================================
