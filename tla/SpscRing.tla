------------------------------ MODULE SpscRing ------------------------------
(***************************************************************************)
(* The lock-free single-producer single-consumer ring that carries bytes,  *)
(* frames and batches between interrupts, threads and cores: RingBuffer of *)
(* the firmware and of the host (ring_buffer.hpp) and XcoreRing between    *)
(* two harts (xcore_ring.hpp).  They share one algorithm; XcoreRing pushes *)
(* all or nothing, RingBuffer does so when asked to (fail_fast).           *)
(*                                                                         *)
(* Each side loads the other's index once, works on the elements one by    *)
(* one while the other side goes on, and publishes its own index last.     *)
(* Indices run freely and wrap at the width of IndexType.  An element is   *)
(* its position in the stream.                                             *)
(***************************************************************************)
EXTENDS Naturals, Sequences

CONSTANTS Capacity,   \* kMaxSize, mask_ + 1, buffer_size
          Modulus,    \* 2^w, w the width of IndexType
          MaxItems    \* bound: elements ever pushed

(* Both are powers of two and IndexType is chosen to hold kMaxSize itself. *)
ASSUME RingAssumption ==
    /\ Capacity \in Nat /\ Capacity >= 2
    /\ Modulus \in Nat
    /\ \E k \in 2 .. Modulus : Modulus = k * Capacity
    /\ MaxItems \in Nat

VARIABLES
    in, out,     \* the shared indices in_ and out_
    storage,     \* the slots
    claim,       \* elements the producer is adding, 0 when idle
    placed,      \* how many of them it has constructed
    grab,        \* elements the consumer is removing, 0 when idle
    taken,       \* how many of them it has handed to its callback
    produced,    \* elements published so far
    consumed,    \* elements whose slots were given back so far
    got          \* what the callback was given, in order

ringVars == <<in, out, storage, claim, placed, grab, taken, produced, consumed, got>>

Least(a, b) == IF a < b THEN a ELSE b

(* IndexType arithmetic.                                                   *)
WrapSub(a, b) == IF a >= b THEN a - b ELSE a + Modulus - b
(* Slip: the sum is kept in a wider type.                                  *)
WrapAddWide(a, n) == a + n

WrapAdd(a, n) == IF a + n < Modulus THEN a + n ELSE a + n - Modulus

(* The slot of the i-th element counted from an index: the tail of storage *)
(* first, then its beginning.                                              *)
SlotOf(index, i) == LET offset == index % Capacity IN
                    IF offset + i < Capacity THEN offset + i
                                             ELSE offset + i - Capacity

RingInit == /\ in = 0 /\ out = 0
            /\ storage = [s \in 0 .. (Capacity - 1) |-> 0]
            /\ claim = 0 /\ placed = 0 /\ grab = 0 /\ taken = 0
            /\ produced = 0 /\ consumed = 0
            /\ got = <<>>

(* emplace_back_n / try_push: with fail_fast all or nothing.               *)
Room == Capacity - WrapSub(in, out)

PushBegin ==
    /\ claim = 0
    /\ \E count \in 1 .. (Capacity + 1), failFast \in BOOLEAN :
          /\ count > Room => ~failFast
          /\ claim' = Least(count, Room)
    /\ claim' # 0 /\ produced + claim' <= MaxItems
    /\ placed' = 0
    /\ UNCHANGED <<in, out, storage, grab, taken, produced, consumed, got>>

PushElement ==
    /\ placed < claim
    /\ storage' = [storage EXCEPT ![SlotOf(in, placed)] = produced + placed + 1]
    /\ placed' = placed + 1
    /\ UNCHANGED <<in, out, claim, grab, taken, produced, consumed, got>>

(* Slip: the index is stored before the elements are constructed.          *)
PushPublishEarly ==
    /\ claim # 0
    /\ in' = WrapAdd(in, claim)
    /\ produced' = produced + claim
    /\ claim' = 0 /\ placed' = 0
    /\ UNCHANGED <<out, storage, grab, taken, consumed, got>>

PushPublish ==
    /\ claim # 0 /\ placed = claim
    /\ in' = WrapAdd(in, claim)
    /\ produced' = produced + claim
    /\ claim' = 0 /\ placed' = 0
    /\ UNCHANGED <<out, storage, grab, taken, consumed, got>>

(* pop_front_n / pop: as many as there are, up to the count asked for.     *)
PopBegin ==
    /\ grab = 0
    /\ \E count \in 1 .. (Capacity + 1) : grab' = Least(count, WrapSub(in, out))
    /\ grab' # 0
    /\ taken' = 0
    /\ UNCHANGED <<in, out, storage, claim, placed, produced, consumed, got>>

PopElement ==
    /\ taken < grab
    /\ got' = Append(got, storage[SlotOf(out, taken)])
    /\ taken' = taken + 1
    /\ UNCHANGED <<in, out, storage, claim, placed, grab, produced, consumed>>

PopPublish ==
    /\ grab # 0 /\ taken = grab
    /\ out' = WrapAdd(out, grab)
    /\ consumed' = consumed + grab
    /\ grab' = 0 /\ taken' = 0
    /\ UNCHANGED <<in, storage, claim, placed, produced, got>>

RingNext == \/ PushBegin \/ PushElement \/ PushPublish
            \/ PopBegin \/ PopElement \/ PopPublish

RingSpec == RingInit /\ [][RingNext]_ringVars
-----------------------------------------------------------------------------
RingTypeOK ==
    /\ in \in 0 .. (Modulus - 1) /\ out \in 0 .. (Modulus - 1)
    /\ storage \in [0 .. (Capacity - 1) -> Nat]
    /\ claim \in 0 .. Capacity /\ placed \in 0 .. claim
    /\ grab \in 0 .. Capacity /\ taken \in 0 .. grab
    /\ produced \in Nat /\ consumed \in Nat
    /\ got \in Seq(Nat)

(* in - out in IndexType is the number of elements in the ring, however    *)
(* often either index has wrapped, and it never exceeds the capacity: full *)
(* and empty are never confused.                                           *)
IndexExact ==
    /\ consumed <= produced
    /\ WrapSub(in, out) = produced - consumed
    /\ produced - consumed <= Capacity

(* The producer, working with an old value of the consumer's index, never  *)
(* constructs over an element whose slot was not given back.               *)
UnreadIntact ==
    \A k \in consumed .. (produced - 1) : storage[k % Capacity] = k + 1

(* The consumer gets every element once and in the order pushed.           *)
InOrder == got = [i \in 1 .. (consumed + taken) |-> i]

(* The ring as its users see it: elements put in come out once, in order.  *)
Stream == INSTANCE ReliableStream WITH sent <- produced, received <- got
RingReliable == Stream!Spec

(* The inductive invariant: besides the above, the work in progress of     *)
(* both sides.                                                             *)
RingInv ==
    /\ RingTypeOK
    /\ IndexExact
    /\ UnreadIntact
    /\ InOrder
    /\ in % Capacity = produced % Capacity
    /\ out % Capacity = consumed % Capacity
    /\ (produced - consumed) + claim <= Capacity
    /\ consumed + grab <= produced
    /\ \A k \in produced .. (produced + placed - 1) :
          storage[k % Capacity] = k + 1
=============================================================================
