------------------------- MODULE InputRefreshProof -------------------------
(***************************************************************************)
(* Theorems about the image that masks the doorbell around its main-loop   *)
(* refresh, for every window, sequence space and number of bytes: never    *)
(* two rebuilds at once, and therefore every uplink byte kept until the    *)
(* host has it, and taken by the host exactly once and in order.           *)
(***************************************************************************)
EXTENDS InputRefresh, Integers, TLAPS

(* -------------- a position a and its slot a % C, for any C ------------- *)

(* Quotient and remainder.                                                 *)
LEMMA DivMod ==
    ASSUME NEW a \in Nat, NEW C \in Nat, C > 0
    PROVE  /\ a % C \in 0 .. (C - 1) /\ a \div C \in Nat
           /\ a = C * (a \div C) + (a % C)
  BY SMT

(* A multiple of C strictly between -C and C is zero.                      *)
LEMMA SmallMultiple ==
    ASSUME NEW C \in Nat, NEW z \in Int, C * z < C, C * z > 0 - C, C > 0
    PROVE  z = 0
<1>1. CASE z >= 1
  <2>1. C * z >= C
    BY <1>1, SMT
  <2> QED
    BY <2>1
<1>2. CASE z <= -1
  <2>1. C * (0 - z) >= C /\ C * (0 - z) = 0 - C * z
    BY <1>2, SMT
  <2> QED
    BY <2>1
<1> QED
  BY <1>1, <1>2

(* Positions a multiple of C apart share a slot.                           *)
LEMMA SameSlot ==
    ASSUME NEW C \in Nat, C > 0, NEW a \in Nat, NEW b \in Nat, NEW q \in Int,
           a = b + C * q
    PROVE  a % C = b % C
<1> DEFINE p == a \div C
           s == b \div C
           z == (s + q) - p
<1>1. /\ p \in Nat /\ s \in Nat
      /\ a % C \in 0 .. (C - 1) /\ b % C \in 0 .. (C - 1)
      /\ a = C * p + (a % C) /\ b = C * s + (b % C)
  BY DivMod
<1> HIDE DEF p, s
<1>2. /\ z \in Int /\ C * p \in Int /\ C * s \in Int /\ C * q \in Int
      /\ C * z = (C * s + C * q) - C * p
  BY <1>1, SMT
<1> HIDE DEF z
<1>3. (a % C) - (b % C) = C * z
  BY <1>1, <1>2
<1>4. C * z < C /\ C * z > 0 - C
  BY <1>1, <1>3
<1>5. z = 0
  BY <1>2, <1>4, SmallMultiple
<1>6. C * z = 0
  BY <1>5
<1> QED
  BY <1>1, <1>3, <1>6

(* Positions that share a slot are a multiple of C apart.                  *)
LEMMA SlotsApart ==
    ASSUME NEW C \in Nat, C > 0, NEW a \in Nat, NEW b \in Nat,
           a % C = b % C
    PROVE  \E q \in Int : a = b + C * q
<1> DEFINE p == a \div C
           s == b \div C
<1>1. /\ p \in Nat /\ s \in Nat
      /\ a % C \in 0 .. (C - 1) /\ b % C \in 0 .. (C - 1)
      /\ a = C * p + (a % C) /\ b = C * s + (b % C)
  BY DivMod
<1> HIDE DEF p, s
<1>2. /\ p - s \in Int /\ C * p \in Int /\ C * s \in Int
      /\ C * (p - s) = C * p - C * s
  BY <1>1, SMT
<1>3. a = b + C * (p - s)
  BY <1>1, <1>2
<1> QED
  BY <1>2, <1>3

(* Different positions less than C apart have different slots.             *)
LEMMA SlotsDiffer ==
    ASSUME NEW C \in Nat, C > 0, NEW a \in Nat, NEW b \in Nat,
           a < b + C, b < a + C, a % C = b % C
    PROVE  a = b
<1>1. PICK q \in Int : a = b + C * q
  BY SlotsApart
<1>2. C * q \in Int
  BY SMT
<1>3. C * q < C /\ C * q > 0 - C
  BY <1>1, <1>2
<1>4. q = 0
  BY <1>3, SmallMultiple
<1>5. C * q = 0
  BY <1>4
<1> QED
  BY <1>1, <1>5

(* Positions in one slot stay in one slot when both advance.               *)
LEMMA SlotsAdvance ==
    ASSUME NEW C \in Nat, C > 0, NEW a \in Nat, NEW b \in Nat, NEW n \in Nat,
           a % C = b % C
    PROVE  (a + n) % C = (b + n) % C
<1>1. PICK q \in Int : a = b + C * q
  BY SlotsApart
<1>2. C * q \in Int
  BY SMT
<1> DEFINE x == a + n
           y == b + n
<1>3. x = y + C * q /\ x \in Nat /\ y \in Nat
  BY <1>1, <1>2
<1> HIDE DEF x, y
<1>4. x % C = y % C
  BY <1>3, SameSlot
<1> QED
  BY <1>4 DEF x, y

(* A number below C is its own remainder.                                  *)
LEMMA Small ==
    ASSUME NEW C \in Nat, C > 0, NEW a \in 0 .. (C - 1)
    PROVE  a % C = a
<1>1. a \in Nat /\ a % C \in 0 .. (C - 1) /\ a \div C \in Nat
      /\ a = C * (a \div C) + (a % C)
  BY DivMod
<1> DEFINE p == a \div C
<1>2. C * p < C /\ C * p > 0 - C /\ C * p \in Int
  BY <1>1, SMT
<1> HIDE DEF p
<1>3. p = 0
  BY <1>1, <1>2, SmallMultiple DEF p
<1>4. C * p = 0
  BY <1>3
<1> QED
  BY <1>1, <1>4 DEF p

(* The slot after the last one is the first.                               *)
LEMMA SlotAfter ==
    ASSUME NEW C \in Nat, C > 0, NEW a \in Nat
    PROVE  (a + 1) % C = IF a % C = C - 1 THEN 0 ELSE (a % C) + 1
<1> DEFINE r == a % C
<1>1. r \in 0 .. (C - 1)
  BY DivMod
<1>2. r % C = r
  BY <1>1, Small
<1>3. (a + 1) % C = (r + 1) % C
  <2>1. a % C = r % C /\ r \in Nat
    BY <1>1, <1>2
  <2> HIDE DEF r
  <2> QED
    BY <2>1, SlotsAdvance, ZenonT(60)
<1> HIDE DEF r
<1>4. CASE r = C - 1
  <2>1. C = 0 + C * 1
    OBVIOUS
  <2>2. C % C = 0 % C
    BY <2>1, SameSlot
  <2>3. 0 % C = 0 /\ r + 1 = C
    BY <1>1, <1>4, Small
  <2> QED
    BY <1>3, <1>4, <2>2, <2>3 DEF r
<1>5. CASE r # C - 1
  <2>1. r + 1 \in 0 .. (C - 1)
    BY <1>1, <1>5
  <2>2. (r + 1) % C = r + 1
    BY <2>1, Small
  <2> QED
    BY <1>3, <1>5, <2>2 DEF r
<1> QED
  BY <1>4, <1>5

(* ----------------------- sequence numbers, slots ----------------------- *)

(* What the arithmetic needs of the constants.                             *)
LEMMA Sizes ==
    /\ Window \in Nat /\ Window > 0 /\ SeqMax \in Nat /\ SeqMax > Window
    /\ StallFrames \in Nat /\ StallFrames > 0 /\ StreamSize \in Nat
  BY RefreshAssumption

(* Numbers follow one another, and 0 is no byte's.                         *)
LEMMA SeqNext ==
    ASSUME NEW b \in Nat
    PROVE  /\ SeqOf(b) \in 0 .. SeqMax /\ SeqOf(b + 1) = NextSeq(SeqOf(b))
           /\ b > 0 => SeqOf(b) > 0
<1>1. SeqMax \in Nat /\ SeqMax > 0
  BY Sizes
<1>2. CASE b = 0
  <2>1. 0 % SeqMax = 0
    BY <1>1, Small
  <2>2. SeqOf(b) = 0 /\ SeqOf(b + 1) = 1
    BY <1>2, <2>1 DEF SeqOf
  <2> QED
    BY <1>1, <1>2, <2>2 DEF NextSeq
<1>3. CASE b # 0
  <2> DEFINE a == b - 1
             r == a % SeqMax
             s == (a + 1) % SeqMax
  <2>1. a \in Nat /\ a + 1 = (b + 1) - 1
    BY <1>3
  <2>2. r \in 0 .. (SeqMax - 1) /\ s = (IF r = SeqMax - 1 THEN 0 ELSE r + 1)
    BY <1>1, <2>1, DivMod, SlotAfter
  <2>3. SeqOf(b) = r + 1
    BY <1>3 DEF SeqOf
  <2>4. SeqOf(b + 1) = s + 1
    BY <2>1 DEF SeqOf
  <2> HIDE DEF a, r, s
  <2> QED
    BY <1>1, <2>2, <2>3, <2>4 DEF NextSeq
<1> QED
  BY <1>2, <1>3

(* Two bytes less than SeqMax apart have different numbers.                *)
LEMMA SeqDistinct ==
    ASSUME NEW a \in Nat, NEW b \in Nat, a < b + SeqMax, b < a + SeqMax,
           SeqOf(a) = SeqOf(b)
    PROVE  a = b
<1>1. (a = 0) <=> (b = 0)
  BY SeqNext DEF SeqOf
<1>2. CASE a # 0
  <2> DEFINE x == a - 1
             y == b - 1
  <2>1. x \in Nat /\ y \in Nat /\ x < y + SeqMax /\ y < x + SeqMax
    BY <1>1, <1>2, Sizes
  <2>2. x % SeqMax \in Nat /\ y % SeqMax \in Nat
    BY <2>1, Sizes, DivMod
  <2>3. SeqOf(a) = (x % SeqMax) + 1 /\ SeqOf(b) = (y % SeqMax) + 1
    BY <1>1, <1>2 DEF SeqOf
  <2> HIDE DEF x, y
  <2>4. x % SeqMax = y % SeqMax
    <3> DEFINE u == x % SeqMax
               v == y % SeqMax
    <3>1. u \in Nat /\ v \in Nat /\ u + 1 = v + 1
      BY <2>2, <2>3
    <3> HIDE DEF u, v
    <3>2. u = v
      BY <3>1
    <3> QED
      BY <3>2 DEF u, v
  <2>5. x = y
    BY <2>1, <2>4, Sizes, SlotsDiffer
  <2> QED
    BY <2>5, <1>1, <1>2 DEF x, y
<1> QED
  BY <1>1, <1>2

(* Positions in one slot of the window stay in one when both advance.      *)
LEMMA WindowAdvance ==
    ASSUME NEW a \in Nat, NEW b \in Nat, NEW k \in Nat, a % Window = b % Window
    PROVE  (a + k) % Window = (b + k) % Window
<1>1. Window \in Nat
  BY Sizes
<1>2. Window > 0
  BY Sizes
<1> QED
  BY <1>1, <1>2, SlotsAdvance, ZenonT(60)

(* Two bytes of one window lie in different slots.                         *)
LEMMA SlotDistinct ==
    ASSUME NEW a \in Nat, a > 0, NEW b \in Nat, b > 0,
           a < b + Window, b < a + Window, SlotOf(a) = SlotOf(b)
    PROVE  a = b
<1> DEFINE x == a - 1
           y == b - 1
<1>1. x \in Nat /\ y \in Nat /\ x < y + Window /\ y < x + Window
  BY Sizes
<1>2. x % Window = y % Window
  BY DEF SlotOf
<1> HIDE DEF x, y
<1>3. x = y
  BY <1>1, <1>2, Sizes, SlotsDiffer
<1> QED
  BY <1>3 DEF x, y

(* Every byte has a slot.                                                  *)
LEMMA SlotTyped == \A b \in Nat : b > 0 => SlotOf(b) \in Slot
<1> SUFFICES ASSUME NEW b \in Nat, b > 0 PROVE SlotOf(b) \in Slot
  OBVIOUS
<1> DEFINE x == b - 1
<1>1. x \in Nat
  OBVIOUS
<1>2. x % Window \in 0 .. (Window - 1)
  BY <1>1, Sizes, DivMod
<1> QED
  BY <1>2 DEF SlotOf, Slot

(* ------------------------- reading the invariant ----------------------- *)

(* The window in positions.                                                *)
LEMMA Positions ==
    ASSUME RefreshInv
    PROVE  /\ Committed \in Nat /\ Base \in Nat /\ count \in Nat
           /\ Committed = Base + count /\ count <= Window
           /\ popped \in Nat /\ written \in Nat /\ Committed <= popped
           /\ Committed <= written /\ head \in Nat /\ head = Base % Window
<1>1. /\ popped \in Nat /\ written \in Nat /\ count \in Nat /\ count <= Window
      /\ count <= Committed /\ head = Base % Window /\ popped <= written
      /\ head \in Nat
  BY Sizes DEF RefreshInv, TypeOK, WindowFilled, Slot
<1>2. Committed \in Int /\ Committed <= popped
  BY <1>1 DEF Committed
<1>3. Committed \in Nat
  BY <1>1, <1>2
<1> QED
  BY <1>1, <1>2, <1>3 DEF Base

(* The slot at an offset of the window is that of the byte there.          *)
LEMMA AtIs ==
    ASSUME RefreshInv, NEW k \in Nat
    PROVE  At(k) = SlotOf(Base + k + 1) /\ At(k) \in Slot
<1>1. Base \in Nat /\ head \in Nat /\ head = Base % Window
  BY Positions
<1>2. head \in 0 .. (Window - 1)
  BY DEF RefreshInv, TypeOK, Slot
<1>3. head % Window = head
  BY <1>2, Sizes, Small
<1>4. (head + k) % Window = (Base + k) % Window
  <2>1. head % Window = Base % Window
    BY <1>1, <1>3, Zenon
  <2>2. Window \in Nat /\ Window > 0 /\ head \in Nat /\ Base \in Nat
    BY <1>1, Sizes
  <2> QED
    BY <2>1, <2>2, WindowAdvance, ZenonT(60)
<1>5. (Base + k + 1) - 1 = Base + k /\ Base + k + 1 \in Nat /\ Base + k + 1 > 0
  BY <1>1
<1> QED
  BY <1>4, <1>5, SlotTyped DEF At, SlotOf

(* ----------------------- the rebuilds stay apart ----------------------- *)

(* Steps that move no context and no mask.                                 *)
LEMMA MaskStutter ==
    ASSUME MaskInv, UNCHANGED <<pc, escMasked, bellMasked>>
    PROVE  MaskInv'
  BY DEF MaskInv, InBuild

(* A context moves inside its rebuild, or towards it.                      *)
LEMMA MaskAdvance ==
    ASSUME MaskInv, NEW c \in Context, NEW label \in {"pick", "pop", "commit", "paint"},
           InBuild(c), Goto(c, label), UNCHANGED <<escMasked, bellMasked>>
    PROVE  MaskInv'
<1>1. pc' = [pc EXCEPT ![c] = label]
  BY DEF Goto
<1>2. CASE c = "main"
  BY <1>1, <1>2 DEF MaskInv, InBuild, Context
<1>3. CASE c = "doorbell"
  BY <1>1, <1>3 DEF MaskInv, InBuild, Context
<1>4. CASE c = "pdi"
  BY <1>1, <1>4 DEF MaskInv, InBuild, Context
<1> QED
  BY <1>2, <1>3, <1>4 DEF Context

(* No step of any context breaks the masking invariant when the main loop  *)
(* masks the doorbell too.                                                 *)
LEMMA MaskStep ==
    ASSUME MaskDoorbell = TRUE, MaskInv, [Next]_vars
    PROVE  MaskInv'
<1>1. CASE Push \/ FramePass \/ UNCHANGED vars
  BY <1>1, MaskStutter DEF Push, FramePass, vars, irqVars
<1>2. CASE PdiEnter
  <2>1. pc' = [pc EXCEPT !["pdi"] = "slide"] /\ ~escMasked
        /\ UNCHANGED <<escMasked, bellMasked>>
    BY <1>2 DEF PdiEnter, Goto
  <2> QED
    BY <2>1 DEF MaskInv, InBuild, Context
<1>3. CASE DoorbellEnter
  <2>1. /\ pc' = [pc EXCEPT !["doorbell"] = "check"] /\ pc["pdi"] = "idle"
        /\ ~bellMasked /\ UNCHANGED <<escMasked, bellMasked>>
    BY <1>3 DEF DoorbellEnter, Goto, Runs
  <2> QED
    BY <2>1 DEF MaskInv, InBuild, Context
<1>4. CASE MainEnter
  <2>1. /\ pc' = [pc EXCEPT !["main"] = "check"] /\ pc["pdi"] = "idle"
        /\ pc["doorbell"] = "idle" /\ bellMasked' = TRUE
        /\ escMasked' = escMasked
    BY <1>4 DEF MainEnter, Goto, Runs
  <2> QED
    BY <2>1 DEF MaskInv, InBuild, Context
<1>5. ASSUME NEW c \in Context, CheckFails(c) PROVE MaskInv'
  <2>1. /\ pc' = [pc EXCEPT ![c] = "idle"] /\ c \in {"main", "doorbell"}
        /\ bellMasked' = IF c = "main" THEN FALSE ELSE bellMasked
        /\ escMasked' = escMasked
    BY <1>5 DEF CheckFails, Goto
  <2>2. CASE c = "main"
    BY <2>1, <2>2 DEF MaskInv, InBuild, Context
  <2>3. CASE c = "doorbell"
    BY <2>1, <2>3 DEF MaskInv, InBuild, Context
  <2> QED
    BY <2>1, <2>2, <2>3
<1>6. ASSUME NEW c \in Context, CheckPasses(c) PROVE MaskInv'
  <2>1. /\ pc' = [pc EXCEPT ![c] = "mask"] /\ c \in {"main", "doorbell"}
        /\ pc[c] = "check" /\ UNCHANGED <<escMasked, bellMasked>>
    BY <1>6 DEF CheckPasses, Goto, irqVars
  <2>2. CASE c = "main"
    BY <2>1, <2>2 DEF MaskInv, InBuild, Context
  <2>3. CASE c = "doorbell"
    BY <2>1, <2>3 DEF MaskInv, InBuild, Context
  <2> QED
    BY <2>1, <2>2, <2>3
<1>7. ASSUME NEW c \in Context, DisableEsc(c), c # "pdi" PROVE MaskInv'
  <2>1. /\ pc' = [pc EXCEPT ![c] = "slide"] /\ c \in {"main", "doorbell"}
        /\ pc[c] = "mask" /\ escMasked' = TRUE /\ bellMasked' = bellMasked
        /\ pc["pdi"] = "idle"
    BY <1>7 DEF DisableEsc, Goto, Runs, Context
  <2>2. CASE c = "main"
    BY <2>1, <2>2 DEF MaskInv, InBuild, Context
  <2>3. CASE c = "doorbell"
    BY <2>1, <2>3 DEF MaskInv, InBuild, Context
  <2> QED
    BY <2>1, <2>2, <2>3
<1>8. ASSUME NEW c \in Context,
             Slide(c) \/ PickReplay(c) \/ PickStage(c) \/ PickHold(c)
                 \/ Pop(c) \/ Commit(c)
      PROVE  MaskInv'
  <2>1. CASE Slide(c)
    BY <2>1, MaskAdvance DEF Slide, InBuild, irqVars
  <2>2. CASE PickReplay(c)
    BY <2>2, MaskAdvance DEF PickReplay, InBuild, irqVars
  <2>3. CASE PickStage(c)
    BY <2>3, MaskAdvance DEF PickStage, InBuild, irqVars
  <2>4. CASE PickHold(c)
    BY <2>4, MaskAdvance DEF PickHold, InBuild, irqVars
  <2>5. CASE Pop(c)
    BY <2>5, MaskAdvance DEF Pop, InBuild, irqVars
  <2>6. CASE Commit(c)
    BY <2>6, MaskAdvance DEF Commit, InBuild, irqVars
  <2> QED
    BY <1>8, <2>1, <2>2, <2>3, <2>4, <2>5, <2>6
<1>9. ASSUME NEW c \in Context, Paint(c) PROVE MaskInv'
  <2>1. /\ pc' = [pc EXCEPT ![c] = "idle"] /\ Runs(c) /\ pc[c] = "paint"
        /\ escMasked' = IF c = "pdi" THEN escMasked ELSE FALSE
        /\ bellMasked' = IF c = "main" THEN FALSE ELSE bellMasked
    BY <1>9 DEF Paint, Goto
  <2>2. CASE c = "main"
    BY <2>1, <2>2 DEF MaskInv, InBuild, Context, Runs
  <2>3. CASE c = "doorbell"
    BY <2>1, <2>3 DEF MaskInv, InBuild, Context, Runs
  <2>4. CASE c = "pdi"
    BY <2>1, <2>4 DEF MaskInv, InBuild, Context, Runs
  <2> QED
    BY <2>2, <2>3, <2>4 DEF Context
<1>10. ASSUME DisableEsc("pdi") PROVE FALSE
  BY <1>10 DEF DisableEsc
<1> QED
  BY <1>1, <1>2, <1>3, <1>4, <1>5, <1>6, <1>7, <1>8, <1>9, <1>10 DEF Next

(* In core0's image the PDO_InputMapping sites never interleave: the       *)
(* doorbell, the PDI interrupt and the main loop rebuild one at a time.    *)
THEOREM RebuildsExclusive ==
    ASSUME MaskDoorbell = TRUE
    PROVE  Spec => []BuildsNeverInterleave
<1>1. Init => MaskInv
  BY DEF Init, MaskInv, InBuild, Context
<1>2. MaskInv /\ [Next]_vars => MaskInv'
  BY MaskStep
<1>3. MaskInv => BuildsNeverInterleave
  <2> SUFFICES ASSUME MaskInv, NEW c \in Context, NEW d \in Context,
                      InBuild(c), InBuild(d), c # d
               PROVE  FALSE
    BY DEF BuildsNeverInterleave
  <2>1. ~(InBuild("main") /\ InBuild("doorbell"))
    BY DEF MaskInv, InBuild
  <2> QED
    BY <2>1 DEF MaskInv, Context
<1> QED
  BY <1>1, <1>2, <1>3, PTL DEF Spec

(* ------------------- the window, the acks, the image ------------------- *)

(* The slot of each byte of the window carries its number.                 *)
LEMMA NumberAt ==
    ASSUME RefreshInv, NEW j \in 1 .. count
    PROVE  slots[At(j - 1)].seq = SeqOf(Base + j)
<1> DEFINE k == j - 1
           b == Base + j
<1>1. Base \in Nat /\ count \in Nat /\ Committed = Base + count
  BY Positions
<1>2. k \in Nat /\ Base + k + 1 = b /\ b \in (Base + 1) .. Committed
  BY <1>1
<1>3. At(k) = SlotOf(b)
  BY <1>2, AtIs
<1>4. slots[SlotOf(b)] = [seq |-> SeqOf(b), byte |-> b]
  BY <1>2 DEF RefreshInv, WindowFilled
<1> QED
  BY <1>3, <1>4

(* The acked prefix reaches exactly up to the byte the ack is for.         *)
LEMMA AckedExact ==
    ASSUME RefreshInv, NEW acked \in Nat, Base <= acked, acked <= Committed,
           peerAck = SeqOf(acked)
    PROVE  AckedPrefix = acked - Base
<1> DEFINE hits == {j \in 1 .. count : slots[At(j - 1)].seq = peerAck}
           d == acked - Base
<1>1. /\ Base \in Nat /\ count \in Nat /\ Committed = Base + count /\ count <= Window
      /\ Window \in Nat /\ SeqMax \in Nat /\ Window < SeqMax
  BY Positions, Sizes
<1>2. \A j \in 1 .. count : slots[At(j - 1)].seq = SeqOf(Base + j)
  BY NumberAt
<1>3. ASSUME NEW j \in hits PROVE j = d
  <2> DEFINE b == Base + j
  <2>1. j \in 1 .. count
    OBVIOUS
  <2>2. SeqOf(b) = SeqOf(acked)
    BY <1>2
  <2>3. b \in Nat /\ b < acked + SeqMax /\ acked < b + SeqMax
    BY <1>1, <2>1
  <2> HIDE DEF b
  <2>4. b = acked
    BY <2>2, <2>3, SeqDistinct
  <2> QED
    BY <1>1, <2>1, <2>4 DEF b
<1>4. CASE acked = Base
  <2>1. hits = {}
    BY <1>1, <1>3, <1>4
  <2> HIDE DEF hits
  <2> QED
    BY <1>1, <1>4, <2>1 DEF AckedPrefix, hits
<1>5. CASE acked # Base
  <2>1. d \in 1 .. count /\ Base + d = acked
    BY <1>1, <1>5
  <2>2. d \in hits
    BY <1>2, <2>1
  <2>3. hits = {d}
    BY <1>3, <2>2
  <2>4. d \in Nat
    BY <2>1
  <2> HIDE DEF hits, d
  <2>5. hits # {} /\ (CHOOSE j \in hits : \A i \in hits : j <= i) = d
    BY <2>3, <2>4
  <2>6. AckedPrefix = d
    BY <2>5 DEF AckedPrefix, hits
  <2> QED
    BY <2>6 DEF d
<1> QED
  BY <1>4, <1>5

(* What the invariant says of the acks, with the bytes they are for.       *)
LEMMA AckedBytes ==
    ASSUME RefreshInv
    PROVE  \E acked, coming \in Nat :
              /\ Base <= acked /\ acked <= coming /\ coming <= Len(received)
              /\ Len(received) \in Nat /\ Len(received) <= Committed
              /\ peerAck = SeqOf(acked) /\ outputs = SeqOf(coming)
              /\ AckedPrefix = acked - Base
<1>1. Len(received) \in Nat /\ Len(received) <= Committed /\ Committed \in Nat
      /\ Base \in Nat
  <2>1. received \in Seq(1 .. StreamSize)
    BY DEF RefreshInv, TypeOK
  <2>2. Len(received) <= Committed
    BY DEF RefreshInv, Acks
  <2> QED
    BY <2>1, <2>2, Positions
<1>2. PICK acked \in 0 .. Len(received), coming \in 0 .. Len(received) :
         /\ Base <= acked /\ acked <= coming
         /\ peerAck = SeqOf(acked) /\ outputs = SeqOf(coming)
  BY DEF RefreshInv, Acks
<1>3. acked \in Nat /\ coming \in Nat /\ acked <= Committed /\ coming <= Len(received)
  BY <1>1, <1>2
<1>4. AckedPrefix = acked - Base
  BY <1>2, <1>3, AckedExact
<1> QED
  BY <1>1, <1>2, <1>3, <1>4

(* At first there is nothing in the window, on the wire or on its way.     *)
LEMMA InitRefresh == Init => RefreshInv
<1> SUFFICES ASSUME Init PROVE RefreshInv
  OBVIOUS
<1>1. TypeOK
  <2>1. /\ 0 \in 0 .. StreamSize /\ 0 \in Slot /\ 0 \in 0 .. Window /\ 0 \in 0 .. 0
        /\ 0 \in 0 .. (StallFrames - 1) /\ 0 \in 0 .. SeqMax
    BY Sizes DEF Slot
  <2>2. [seq |-> 0, byte |-> 0] \in [seq : 0 .. SeqMax, byte : 0 .. StreamSize]
    BY <2>1
  <2>3. <<>> \in Seq(1 .. StreamSize)
    OBVIOUS
  <2>4. /\ slots \in [Slot -> [seq : 0 .. SeqMax, byte : 0 .. StreamSize]]
        /\ image \in [seq : 0 .. SeqMax, byte : 0 .. StreamSize]
    BY <2>2 DEF Init
  <2>5. /\ pc \in [Context -> {"idle", "check", "mask", "slide", "pick", "pop",
                           "commit", "paint"}]
        /\ credit \in [Context -> BOOLEAN]
        /\ shown \in [Context -> Slot \cup {NoSlot}]
        /\ next \in [Context -> 0 .. StreamSize]
    BY <2>1 DEF Init
  <2> QED
    BY <2>1, <2>3, <2>4, <2>5 DEF Init, TypeOK
<1>2. MaskInv
  BY DEF Init, MaskInv, InBuild, Context
<1>3. Committed = 0 /\ Base = 0
  BY DEF Init, Committed, Base
<1>4. WindowFilled
  <2>1. 0 % Window = 0
    BY Sizes, Small
  <2> QED
    BY <1>3, <2>1 DEF Init, WindowFilled, SeqOf
<1>5. Building
  BY DEF Init, Building
<1>6. Acks
  <2>1. Len(received) = 0 /\ UplinkExact
    BY DEF Init, UplinkExact
  <2>2. SeqOf(0) = 0
    BY DEF SeqOf
  <2> QED
    BY <1>3, <2>1, <2>2 DEF Init, Acks
<1> QED
  BY <1>1, <1>2, <1>4, <1>5, <1>6 DEF RefreshInv

(* ------------------------ who is in a rebuild -------------------------- *)

(* At most one context is inside a rebuild.                                *)
LEMMA Alone ==
    ASSUME MaskInv, NEW c \in Context, NEW d \in Context, InBuild(c), InBuild(d)
    PROVE  c = d
<1>1. ~(InBuild("main") /\ InBuild("doorbell"))
  BY DEF MaskInv, InBuild
<1> QED
  BY <1>1 DEF MaskInv, Context

(* A step of the context inside a rebuild says alone what is committed.    *)
LEMMA CommittedMoves ==
    ASSUME MaskInv, NEW c \in Context, InBuild(c), NEW label, Goto(c, label)
    PROVE  /\ Committed = IF pc[c] = "commit" THEN popped - 1 ELSE popped
           /\ Committed' = IF label = "commit" THEN popped' - 1 ELSE popped'
           /\ pc'[c] = label
           /\ \A d \in Context : d # c => pc'[d] = pc[d] /\ ~InBuild(d)
<1>1. pc' = [pc EXCEPT ![c] = label] /\ c \in DOMAIN pc /\ DOMAIN pc = Context
  BY DEF Goto, MaskInv
<1>2. \A d \in Context : d # c => pc'[d] = pc[d] /\ ~InBuild(d)
  BY <1>1, Alone
<1>3. pc'[c] = label
  BY <1>1
<1>4. \A d \in Context : pc[d] = "commit" => d = c
  BY <1>2 DEF InBuild
<1>5. \A d \in Context : pc'[d] = "commit" => d = c
  BY <1>2 DEF InBuild
<1>6. (\E d \in Context : pc[d] = "commit") <=> pc[c] = "commit"
  BY <1>4
<1>7. (\E d \in Context : pc'[d] = "commit") <=> label = "commit"
  BY <1>3, <1>5
<1> QED
  BY <1>2, <1>3, <1>6, <1>7 DEF Committed

(* ------------------------ outside the rebuilds ------------------------- *)

(* Interrupts taken, checks and masks leave the window alone.              *)
LEMMA OutsideKeeps ==
    ASSUME RefreshInv, written' \in Nat, written <= written',
           UNCHANGED <<popped, head, count, txSeq, slots, shown, next>>,
           NEW x \in Context, NEW label \in {"idle", "check", "mask", "slide"},
           pc' = pc \/ (pc[x] \in {"idle", "check", "mask"} /\ Goto(x, label))
    PROVE  /\ Committed' = Committed /\ Base' = Base
           /\ WindowFilled' /\ Building'
<1>1. \A d \in Context : pc'[d] \in {"pop", "commit", "paint"} \/ pc[d] \in {"pop", "commit", "paint"}
         => pc'[d] = pc[d]
  <2>1. x \in DOMAIN pc /\ DOMAIN pc = Context
    BY DEF RefreshInv, MaskInv
  <2> QED
    BY <2>1 DEF Goto
<1>2. Committed' = Committed
  <2>1. (\E d \in Context : pc'[d] = "commit") <=> (\E d \in Context : pc[d] = "commit")
    BY <1>1
  <2> QED
    BY <2>1 DEF Committed
<1>3. Base' = Base
  BY <1>2 DEF Base
<1>4. WindowFilled'
  <2>1. popped <= written'
    BY Positions DEF RefreshInv, WindowFilled
  <2> QED
    BY <1>2, <1>3, <2>1 DEF RefreshInv, WindowFilled, SlotOf, SeqOf
<1>5. Building'
  <2>1. Committed < written => Committed < written'
    BY Positions
  <2> SUFFICES ASSUME NEW d \in Context
               PROVE  /\ pc'[d] \in {"pop", "commit"} =>
                            /\ count < Window
                            /\ shown[d] = SlotOf(Committed + 1)
                            /\ slots[shown[d]].byte = Committed + 1
                            /\ next[d] = Committed + 1 /\ Committed < written'
                      /\ pc'[d] = "paint" =>
                            shown[d] = NoSlot
                            \/ \E b \in (Base + 1) .. Committed : shown[d] = SlotOf(b)
    BY <1>2, <1>3 DEF Building, SlotOf
  <2> QED
    BY <1>1, <2>1 DEF RefreshInv, Building
<1> QED
  BY <1>2, <1>3, <1>4, <1>5

(* The acks depend on nothing else.                                        *)
LEMMA AcksStay ==
    ASSUME Acks, Committed' = Committed, Base' = Base,
           UNCHANGED <<image, outputs, hostAck, received, peerAck>>
    PROVE  Acks'
  BY DEF Acks, UplinkExact, SeqOf

(* A sequence over a set is one over every larger set.                     *)
LEMMA SeqWider ==
    ASSUME NEW S, NEW T, S \subseteq T, NEW q \in Seq(S)
    PROVE  q \in Seq(T)
<1>1. Len(q) \in Nat /\ q = [i \in 1 .. Len(q) |-> q[i]] /\ \A i \in 1 .. Len(q) : q[i] \in S
  OBVIOUS
<1>2. [i \in 1 .. Len(q) |-> q[i]] \in Seq(T)
  BY <1>1
<1> QED
  BY <1>1, <1>2

(* One more byte in order.                                                 *)
LEMMA OneMore ==
    ASSUME NEW q \in Seq(Nat), q = [i \in 1 .. Len(q) |-> i]
    PROVE  LET r == Append(q, Len(q) + 1) IN
           r = [i \in 1 .. Len(r) |-> i] /\ Len(r) = Len(q) + 1
<1> DEFINE r == Append(q, Len(q) + 1)
           m == Len(q) + 1
<1>1. /\ Len(q) \in Nat /\ m \in Nat /\ r \in Seq(Nat) /\ Len(r) = m /\ r[m] = m
      /\ \A i \in 1 .. Len(q) : r[i] = q[i]
  OBVIOUS
<1>2. \A i \in 1 .. Len(q) : q[i] = i
  OBVIOUS
<1>3. DOMAIN r = 1 .. m
  BY <1>1
<1> HIDE DEF r
<1>4. \A i \in 1 .. m : r[i] = i
  BY <1>1, <1>2
<1>5. r = [i \in DOMAIN r |-> r[i]]
  <2>1. r \in [1 .. Len(r) -> Nat]
    BY <1>1
  <2> QED
    BY <2>1
<1>6. r = [i \in 1 .. m |-> i]
  BY <1>3, <1>4, <1>5
<1> QED
  BY <1>1, <1>6 DEF r

(* Within a window of what the host has, the next number is the next byte. *)
LEMMA NextByte ==
    ASSUME RefreshInv, image.byte # 0, image.seq = NextSeq(hostAck)
    PROVE  image.byte = Len(received) + 1
<1> DEFINE p == image.byte
           n == Len(received)
           m == n + 1
<1>1. p \in Nat
  BY DEF RefreshInv, TypeOK
<1>2. n \in Nat /\ n <= Committed /\ Base <= n
  BY AckedBytes, Positions
<1>3. p <= Committed /\ m <= p + Window /\ hostAck = SeqOf(n) /\ image.seq = SeqOf(p)
  BY DEF RefreshInv, Acks
<1> HIDE DEF p, n
<1>4. SeqOf(p) = SeqOf(m)
  BY <1>2, <1>3, SeqNext
<1>5. p < m + SeqMax /\ m < p + SeqMax /\ m \in Nat
  BY <1>1, <1>2, <1>3, Positions, Sizes
<1> HIDE DEF m
<1>6. p = m
  BY <1>1, <1>4, <1>5, SeqDistinct
<1> QED
  BY <1>6 DEF p, m, n

(* The host takes the byte it waits for and no other; the frame carries    *)
(* its last ack back.                                                      *)
LEMMA FrameKeeps ==
    ASSUME RefreshInv, FramePass
    PROVE  TypeOK' /\ WindowFilled' /\ Building' /\ Acks'
<1> DEFINE n == Len(received)
<1>1. /\ pc' = pc /\ written' = written /\ "main" \in Context
      /\ UNCHANGED <<popped, head, count, txSeq, slots, shown, next>>
      /\ UNCHANGED <<image, peerAck>> /\ outputs' = hostAck
      /\ UNCHANGED <<sendOffset, stall, mayStage, credit, escMasked, bellMasked, bell>>
      /\ event' = TRUE
  BY DEF FramePass, Context, endpointVars, buildVars
<1>2. /\ Committed' = Committed /\ Base' = Base /\ WindowFilled' /\ Building'
  <2>1. written' \in Nat /\ written <= written'
    BY <1>1, Positions
  <2> QED
    BY <1>1, <2>1, OutsideKeeps
<1>3. PICK acked \in Nat, coming \in Nat :
         /\ Base <= acked /\ acked <= coming /\ coming <= n
         /\ n \in Nat /\ n <= Committed /\ peerAck = SeqOf(acked)
  BY AckedBytes
<1>4. /\ UplinkExact /\ hostAck = SeqOf(n)
      /\ image.byte # 0 =>
            /\ image.seq = SeqOf(image.byte)
            /\ image.byte <= Committed /\ n + 1 <= image.byte + Window
  BY DEF RefreshInv, Acks
<1>5. received \in Seq(1 .. StreamSize) /\ received \in Seq(Nat) /\ image.byte \in 0 .. StreamSize
      /\ image.seq \in 0 .. SeqMax /\ hostAck \in 0 .. SeqMax
  <2>1. received \in Seq(1 .. StreamSize) /\ 1 .. StreamSize \subseteq Nat
    BY DEF RefreshInv, TypeOK
  <2>2. received \in Seq(Nat)
    BY <2>1, SeqWider
  <2> QED
    BY <2>1, <2>2 DEF RefreshInv, TypeOK
<1>6. CASE image.byte # 0 /\ image.seq = NextSeq(hostAck)
  <2>1. hostAck' = image.seq /\ received' = Append(received, image.byte)
    BY <1>6 DEF FramePass
  <2>2. image.byte = n + 1
    BY <1>6, NextByte
  <2>3. UplinkExact' /\ Len(received') = n + 1
    BY <1>4, <1>5, <2>1, <2>2, OneMore DEF UplinkExact
  <2>4. received' \in Seq(1 .. StreamSize) /\ hostAck' \in 0 .. SeqMax
    <3>1. image.byte \in 1 .. StreamSize
      BY <1>5, <1>6
    <3> QED
      BY <1>5, <2>1, <3>1
  <2>5. hostAck' = SeqOf(n + 1) /\ image.byte <= Committed
    BY <1>4, <1>6, <2>1, <2>2
  <2>6. /\ n + 1 <= Committed /\ (n + 1) + 1 <= image.byte + Window
        /\ acked \in 0 .. (n + 1) /\ n \in 0 .. (n + 1) /\ acked <= n
    BY <1>3, <2>2, <2>5, Sizes
  <2>7. /\ hostAck' = SeqOf(Len(received')) /\ Len(received') <= Committed'
        /\ image'.byte # 0 =>
              /\ image'.seq = SeqOf(image'.byte)
              /\ image'.byte <= Committed' /\ Len(received') + 1 <= image'.byte + Window
    BY <1>1, <1>2, <1>4, <2>3, <2>5, <2>6
  <2>8. Base' <= acked /\ peerAck' = SeqOf(acked) /\ outputs' = SeqOf(n)
    BY <1>1, <1>2, <1>3, <1>4
  <2>9. Acks'
    BY <2>3, <2>6, <2>7, <2>8 DEF Acks, SeqOf
  <2>10. TypeOK'
    BY <1>1, <1>5, <2>4 DEF TypeOK, RefreshInv
  <2> QED
    BY <1>2, <2>9, <2>10
<1>7. CASE ~(image.byte # 0 /\ image.seq = NextSeq(hostAck))
  <2>1. hostAck' = hostAck /\ received' = received
    BY <1>7 DEF FramePass
  <2>2. acked \in 0 .. n /\ n \in 0 .. n
    BY <1>3
  <2>3. Base' <= acked /\ acked <= n /\ peerAck' = SeqOf(acked) /\ outputs' = SeqOf(n)
    BY <1>1, <1>2, <1>3, <1>4
  <2>4. Acks'
    BY <1>1, <1>2, <1>3, <1>4, <2>1, <2>2, <2>3 DEF Acks, UplinkExact, SeqOf
  <2>5. TypeOK'
    BY <1>1, <1>5, <2>1 DEF TypeOK, RefreshInv
  <2> QED
    BY <1>2, <2>4, <2>5
<1> QED
  BY <1>6, <1>7

(* Core0 adds a byte behind the others.                                    *)
LEMMA PushKeeps ==
    ASSUME RefreshInv, Push
    PROVE  TypeOK' /\ WindowFilled' /\ Building' /\ Acks'
<1>1. /\ written' = written + 1 /\ written < StreamSize /\ bell' = TRUE
      /\ UNCHANGED <<popped, endpointVars, image, pc, buildVars, hostVars,
                     escMasked, bellMasked, event>>
  BY DEF Push
<1>2. written' \in 0 .. StreamSize /\ written <= written' /\ written' \in Nat
  <2>1. written \in 0 .. StreamSize
    BY DEF RefreshInv, TypeOK
  <2> QED
    BY <1>1, <2>1, Sizes
<1>3. Committed' = Committed /\ Base' = Base /\ WindowFilled' /\ Building'
  BY <1>1, <1>2, OutsideKeeps DEF endpointVars, buildVars, Context
<1>4. Acks'
  BY <1>1, <1>3, AcksStay DEF RefreshInv, hostVars, endpointVars
<1>5. TypeOK'
  BY <1>1, <1>2 DEF RefreshInv, TypeOK, endpointVars, buildVars, hostVars
<1> QED
  BY <1>3, <1>4, <1>5

(* The PDI interrupt takes over the ack that came with the last frame.     *)
LEMMA PdiKeeps ==
    ASSUME RefreshInv, MaskInv', PdiEnter
    PROVE  TypeOK' /\ WindowFilled' /\ Building' /\ Acks'
<1>1. /\ pc["pdi"] = "idle" /\ Goto("pdi", "slide") /\ peerAck' = outputs
      /\ event' = FALSE /\ mayStage' = TRUE
      /\ UNCHANGED <<written, popped, head, count, sendOffset, stall, txSeq, slots,
                     image, credit, shown, next, escMasked, bellMasked, bell,
                     outputs, hostAck, received>>
  BY DEF PdiEnter, buildVars, hostVars
<1>2. Committed' = Committed /\ Base' = Base /\ WindowFilled' /\ Building'
  <2>1. written' \in Nat /\ written <= written'
    BY <1>1, Positions
  <2> QED
    BY <1>1, <2>1, OutsideKeeps DEF Context
<1>3. PICK acked \in Nat, coming \in Nat :
         /\ Base <= acked /\ acked <= coming /\ coming <= Len(received)
         /\ Len(received) \in Nat /\ outputs = SeqOf(coming)
  BY AckedBytes
<1>4. coming \in 0 .. Len(received) /\ Base <= coming /\ coming <= coming
  BY <1>3, Positions
<1>5. /\ Base' <= coming /\ peerAck' = SeqOf(coming) /\ outputs' = SeqOf(coming)
      /\ coming \in 0 .. Len(received')
  BY <1>1, <1>2, <1>3, <1>4
<1>6. Acks'
  BY <1>1, <1>2, <1>4, <1>5 DEF RefreshInv, Acks, UplinkExact, SeqOf
<1>7. TypeOK'
  BY <1>1 DEF RefreshInv, TypeOK, MaskInv
<1> QED
  BY <1>2, <1>6, <1>7

(* The other steps outside a rebuild touch masks and places only.          *)
LEMMA GateKeeps ==
    ASSUME RefreshInv, MaskInv', NEW x \in Context,
           pc[x] \in {"idle", "check", "mask"},
           NEW label \in {"idle", "check", "mask", "slide"}, Goto(x, label),
           escMasked' \in BOOLEAN, bellMasked' \in BOOLEAN, bell' \in BOOLEAN,
           UNCHANGED <<written, popped, endpointVars, image, buildVars, event, hostVars>>
    PROVE  TypeOK' /\ WindowFilled' /\ Building' /\ Acks'
<1>1. UNCHANGED <<written, popped, head, count, sendOffset, stall, mayStage, txSeq,
                  peerAck, slots, image, credit, shown, next, event, outputs,
                  hostAck, received>>
  BY DEF endpointVars, buildVars, hostVars
<1>2. Committed' = Committed /\ Base' = Base /\ WindowFilled' /\ Building'
  <2>1. written' \in Nat /\ written <= written'
    BY <1>1, Positions
  <2> QED
    BY <1>1, <2>1, OutsideKeeps
<1>3. Acks'
  BY <1>1, <1>2, AcksStay DEF RefreshInv
<1>4. TypeOK'
  BY <1>1 DEF RefreshInv, TypeOK, MaskInv
<1> QED
  BY <1>2, <1>3, <1>4

(* ------------------------- inside a rebuild ---------------------------- *)

(* What the one context inside a rebuild does is all there is to say.      *)
LEMMA BuildingMoves ==
    ASSUME MaskInv, NEW c \in Context, InBuild(c), NEW label, Goto(c, label),
           label \in {"pop", "commit"} =>
               /\ count' < Window
               /\ shown'[c] = SlotOf(Committed' + 1)
               /\ slots'[shown'[c]].byte = Committed' + 1
               /\ next'[c] = Committed' + 1 /\ Committed' < written',
           label = "paint" =>
               shown'[c] = NoSlot
               \/ \E b \in (Base' + 1) .. Committed' : shown'[c] = SlotOf(b)
    PROVE  Building'
<1> SUFFICES ASSUME NEW d \in Context
             PROVE  /\ pc'[d] \in {"pop", "commit"} =>
                          /\ count' < Window
                          /\ shown'[d] = SlotOf(Committed' + 1)
                          /\ slots'[shown'[d]].byte = Committed' + 1
                          /\ next'[d] = Committed' + 1 /\ Committed' < written'
                    /\ pc'[d] = "paint" =>
                          shown'[d] = NoSlot
                          \/ \E b \in (Base' + 1) .. Committed' : shown'[d] = SlotOf(b)
  BY DEF Building, SlotOf
<1>1. CASE d = c
  <2>1. pc'[d] = label
    BY <1>1, CommittedMoves
  <2> QED
    BY <1>1, <2>1
<1>2. CASE d # c
  <2>1. pc'[d] = pc[d] /\ ~InBuild(d)
    BY <1>2, CommittedMoves
  <2> QED
    BY <2>1 DEF InBuild
<1> QED
  BY <1>1, <1>2

(* The window slides up to the byte the ack is for.                        *)
LEMMA SlideKeeps ==
    ASSUME RefreshInv, MaskInv', NEW c \in Context, Slide(c)
    PROVE  TypeOK' /\ WindowFilled' /\ Building' /\ Acks'
<1> DEFINE n == Len(received)
<1>1. /\ InBuild(c) /\ pc[c] = "slide" /\ Goto(c, "pick") /\ MaskInv
      /\ head' = (head + AckedPrefix) % Window /\ count' = count - AckedPrefix
      /\ sendOffset' = (IF sendOffset > AckedPrefix THEN sendOffset - AckedPrefix ELSE 0)
      /\ stall' = (IF AckedPrefix = 0 THEN stall ELSE 0)
      /\ credit' = [credit EXCEPT ![c] = mayStage]
      /\ UNCHANGED <<written, popped, mayStage, txSeq, peerAck, slots, image,
                     shown, next, escMasked, bellMasked, event, bell,
                     outputs, hostAck, received>>
  BY DEF Slide, InBuild, RefreshInv, irqVars, hostVars
<1>2. PICK acked \in Nat, coming \in Nat :
         /\ Base <= acked /\ acked <= coming /\ coming <= n
         /\ n \in Nat /\ n <= Committed
         /\ peerAck = SeqOf(acked) /\ outputs = SeqOf(coming)
         /\ AckedPrefix = acked - Base
  BY AckedBytes
<1>3. PICK low \in Nat, high \in Nat :
         /\ low = Base /\ high = Committed /\ high = low + count /\ count \in Nat
         /\ count <= Window /\ popped = high /\ head \in Nat /\ head = low % Window
         /\ popped <= written
  <2>1. Committed = popped
    BY <1>1, CommittedMoves
  <2> QED
    BY <2>1, Positions DEF RefreshInv, WindowFilled
<1>4. PICK d \in Nat : d = AckedPrefix /\ low + d = acked /\ d <= count
  <2>1. acked - low \in Nat /\ acked - low <= count
    BY <1>2, <1>3
  <2> QED
    BY <1>2, <1>3, <2>1
<1>5. Committed' = high /\ Base' = acked
  <2>1. Committed' = popped'
    BY <1>1, CommittedMoves
  <2>2. Base' = high - (count - d)
    BY <1>1, <1>3, <1>4, <2>1 DEF Base
  <2> QED
    BY <1>1, <1>3, <1>4, <2>1, <2>2
<1>6. head' = acked % Window /\ head' \in Slot
  <2>1. head % Window = low % Window
    <3>1. head \in 0 .. (Window - 1)
      BY DEF RefreshInv, TypeOK, Slot
    <3>2. head % Window = head
      BY <3>1, Sizes, Small
    <3> QED
      BY <1>3, <3>2, Zenon
  <2>2. (head + d) % Window = (low + d) % Window
    BY <1>3, <2>1, WindowAdvance, ZenonT(60)
  <2>3. head' = acked % Window
    BY <1>1, <1>4, <2>2, Zenon
  <2>4. acked % Window \in 0 .. (Window - 1)
    BY Sizes, DivMod
  <2> QED
    BY <2>3, <2>4 DEF Slot
<1>7. WindowFilled'
  <2>1. \A b \in (acked + 1) .. high : slots[SlotOf(b)] = [seq |-> SeqOf(b), byte |-> b]
    <3>1. \A b \in (acked + 1) .. high : b \in (Base + 1) .. Committed
      BY <1>2, <1>3
    <3> QED
      BY <3>1 DEF RefreshInv, WindowFilled
  <2>2. count' <= high /\ txSeq' = SeqOf(high) /\ popped' <= written'
    <3>1. txSeq = SeqOf(high)
      BY <1>3 DEF RefreshInv, WindowFilled
    <3> QED
      BY <1>1, <1>3, <1>4, <3>1
  <2> QED
    BY <1>1, <1>5, <1>6, <2>1, <2>2 DEF WindowFilled, SlotOf, SeqOf
<1>8. Building'
  BY <1>1, BuildingMoves
<1>9. Acks'
  <2>1. acked \in 0 .. n /\ coming \in 0 .. n
    BY <1>2
  <2>2. Base' <= acked /\ peerAck' = SeqOf(acked) /\ outputs' = SeqOf(coming)
    BY <1>1, <1>2, <1>5
  <2>3. /\ received' = received /\ hostAck' = hostAck /\ image' = image
        /\ Committed' = Committed
    BY <1>1, <1>3, <1>5
  <2> QED
    BY <1>2, <2>1, <2>2, <2>3 DEF RefreshInv, Acks, UplinkExact, SeqOf
<1>10. TypeOK'
  <2>1. /\ sendOffset \in 0 .. count /\ count \in 0 .. Window
        /\ stall \in 0 .. (StallFrames - 1)
        /\ credit \in [Context -> BOOLEAN] /\ mayStage \in BOOLEAN
    BY DEF RefreshInv, TypeOK
  <2>2. count' \in 0 .. Window /\ sendOffset' \in 0 .. count'
    BY <1>1, <1>3, <1>4, <2>1, Sizes
  <2>3. stall' \in 0 .. (StallFrames - 1)
    BY <1>1, <2>1, Sizes
  <2>4. credit' \in [Context -> BOOLEAN]
    BY <1>1, <2>1
  <2> QED
    BY <1>1, <1>6, <2>2, <2>3, <2>4 DEF RefreshInv, TypeOK, MaskInv
<1> QED
  BY <1>7, <1>8, <1>9, <1>10

(* A rebuild whose step leaves the window, the acks and the image alone.   *)
LEMMA WindowStays ==
    ASSUME RefreshInv, Committed' = Committed, Base' = Base, popped' \in Nat,
           popped' <= written,
           UNCHANGED <<written, head, count, txSeq, slots, image, outputs, hostAck,
                       received, peerAck>>
    PROVE  WindowFilled' /\ Acks'
<1>1. WindowFilled'
  BY DEF RefreshInv, WindowFilled, SlotOf, SeqOf
<1>2. Acks'
  BY AcksStay DEF RefreshInv
<1> QED
  BY <1>1, <1>2

(* A replayed byte is one of the window.                                   *)
LEMMA ReplayKeeps ==
    ASSUME RefreshInv, MaskInv', NEW c \in Context, PickReplay(c)
    PROVE  TypeOK' /\ WindowFilled' /\ Building' /\ Acks'
<1>1. /\ InBuild(c) /\ pc[c] = "pick" /\ Goto(c, "paint") /\ MaskInv
      /\ sendOffset < count /\ shown' = [shown EXCEPT ![c] = At(sendOffset)]
      /\ sendOffset' = sendOffset + 1 /\ mayStage' = FALSE
      /\ UNCHANGED <<written, popped, head, count, stall, txSeq, peerAck, slots,
                     image, credit, next, escMasked, bellMasked, event, bell,
                     outputs, hostAck, received>>
  BY DEF PickReplay, Replays, InBuild, RefreshInv, irqVars, hostVars
<1>2. /\ Committed' = popped /\ Committed = popped /\ Base' = Base /\ popped <= written
      /\ popped \in Nat
  <2>1. Committed' = popped' /\ Committed = popped
    BY <1>1, CommittedMoves
  <2> QED
    BY <1>1, <2>1, Positions DEF Base
<1>3. sendOffset \in 0 .. count /\ count \in 0 .. Window
      /\ shown \in [Context -> Slot \cup {NoSlot}]
  BY DEF RefreshInv, TypeOK
<1>4. sendOffset \in Nat /\ At(sendOffset) \in Slot
      /\ At(sendOffset) = SlotOf(Base + sendOffset + 1)
  BY <1>3, AtIs, Sizes
<1>5. shown'[c] = SlotOf(Base + sendOffset + 1)
  BY <1>1, <1>3, <1>4
<1>6. Base + sendOffset + 1 \in (Base' + 1) .. Committed'
  BY <1>1, <1>2, <1>3, <1>4, Positions
<1>7. Building'
  BY <1>1, <1>5, <1>6, BuildingMoves
<1>8. WindowFilled' /\ Acks'
  BY <1>1, <1>2, WindowStays
<1>9. TypeOK'
  <2>1. sendOffset' \in 0 .. count'
    BY <1>1, <1>3, Sizes
  <2>2. shown' \in [Context -> Slot \cup {NoSlot}]
    BY <1>1, <1>3, <1>4
  <2> QED
    BY <1>1, <2>1, <2>2 DEF RefreshInv, TypeOK, MaskInv
<1> QED
  BY <1>7, <1>8, <1>9

(* The next byte is copied into the slot behind the newest, where no byte  *)
(* of the window lies.                                                     *)
LEMMA StageKeeps ==
    ASSUME RefreshInv, MaskInv', NEW c \in Context, PickStage(c)
    PROVE  TypeOK' /\ WindowFilled' /\ Building' /\ Acks'
<1>1. /\ InBuild(c) /\ pc[c] = "pick" /\ Goto(c, "pop") /\ MaskInv
      /\ count < Window /\ written > popped
      /\ shown' = [shown EXCEPT ![c] = At(count)]
      /\ slots' = [slots EXCEPT ![At(count)].byte = popped + 1]
      /\ next' = [next EXCEPT ![c] = popped + 1]
      /\ UNCHANGED <<written, popped, head, count, sendOffset, stall, mayStage,
                     txSeq, peerAck, image, credit, escMasked, bellMasked, event,
                     bell, outputs, hostAck, received>>
  BY DEF PickStage, Stages, InBuild, RefreshInv, irqVars, hostVars
<1>2. PICK low \in Nat, high \in Nat :
         /\ low = Base /\ high = Committed /\ high = low + count /\ count \in Nat
         /\ popped = high /\ high < written /\ written \in 0 .. StreamSize
  <2>1. Committed = popped
    BY <1>1, CommittedMoves
  <2>2. written \in 0 .. StreamSize
    BY DEF RefreshInv, TypeOK
  <2> QED
    BY <1>1, <2>1, <2>2, Positions
<1>3. Committed' = high /\ Base' = low
  <2>1. Committed' = popped'
    BY <1>1, CommittedMoves
  <2> QED
    BY <1>1, <1>2, <2>1 DEF Base
<1>4. PICK s \in Slot : s = At(count) /\ s = SlotOf(high + 1)
  BY <1>2, AtIs
<1>5. /\ slots \in [Slot -> [seq : 0 .. SeqMax, byte : 0 .. StreamSize]]
      /\ shown \in [Context -> Slot \cup {NoSlot}] /\ next \in [Context -> 0 .. StreamSize]
  BY DEF RefreshInv, TypeOK
<1>6. high + 1 \in 0 .. StreamSize
  BY <1>2, Sizes
<1>7. /\ shown'[c] = s /\ next'[c] = high + 1 /\ slots'[s].byte = high + 1
      /\ \A t \in Slot : t # s => slots'[t] = slots[t]
  BY <1>1, <1>2, <1>4, <1>5
<1>8. Building'
  BY <1>1, <1>2, <1>3, <1>4, <1>7, BuildingMoves
<1>9. WindowFilled'
  <2>1. ASSUME NEW b \in (low + 1) .. high
        PROVE  slots'[SlotOf(b)] = [seq |-> SeqOf(b), byte |-> b]
    <3>1. b \in (Base + 1) .. Committed /\ b \in Nat /\ b > 0
      BY <1>2
    <3>2. slots[SlotOf(b)] = [seq |-> SeqOf(b), byte |-> b]
      BY <3>1 DEF RefreshInv, WindowFilled
    <3>3. SlotOf(b) \in Slot
      BY <3>1, SlotTyped
    <3>4. SlotOf(b) # s
      <4> DEFINE after == high + 1
      <4>1. after \in Nat /\ after > 0 /\ b # after /\ b < after + Window /\ after < b + Window
        BY <1>1, <1>2, <3>1, Sizes
      <4> HIDE DEF after
      <4>2. SlotOf(b) # SlotOf(after)
        BY <3>1, <4>1, SlotDistinct
      <4> QED
        BY <1>4, <4>2 DEF after
    <3> QED
      BY <1>7, <3>2, <3>3, <3>4
  <2>2. count <= high /\ head = low % Window /\ txSeq = SeqOf(high) /\ popped <= written
    BY <1>2, Positions DEF RefreshInv, WindowFilled
  <2> QED
    BY <1>1, <1>3, <2>1, <2>2 DEF WindowFilled, SlotOf, SeqOf
<1>10. Acks'
  BY <1>1, <1>2, <1>3, AcksStay DEF RefreshInv
<1>11. TypeOK'
  <2>1. slots' \in [Slot -> [seq : 0 .. SeqMax, byte : 0 .. StreamSize]]
    BY <1>1, <1>2, <1>5, <1>6
  <2>2. /\ shown' \in [Context -> Slot \cup {NoSlot}]
        /\ next' \in [Context -> 0 .. StreamSize]
    BY <1>1, <1>2, <1>4, <1>5, <1>6
  <2> QED
    BY <1>1, <2>1, <2>2 DEF RefreshInv, TypeOK, MaskInv
<1> QED
  BY <1>8, <1>9, <1>10, <1>11

(* The ring gets the byte's room back.                                     *)
LEMMA PopKeeps ==
    ASSUME RefreshInv, MaskInv', NEW c \in Context, Pop(c)
    PROVE  TypeOK' /\ WindowFilled' /\ Building' /\ Acks'
<1>1. /\ InBuild(c) /\ pc[c] = "pop" /\ Goto(c, "commit") /\ MaskInv
      /\ popped' = next[c]
      /\ UNCHANGED <<written, head, count, sendOffset, stall, mayStage, txSeq,
                     peerAck, slots, image, credit, shown, next, escMasked,
                     bellMasked, event, bell, outputs, hostAck, received>>
  BY DEF Pop, InBuild, RefreshInv, irqVars, hostVars, endpointVars, buildVars
<1>2. /\ count < Window /\ shown[c] = SlotOf(Committed + 1)
      /\ slots[shown[c]].byte = Committed + 1
      /\ next[c] = Committed + 1 /\ Committed < written
  BY <1>1 DEF RefreshInv, Building
<1>3. written \in 0 .. StreamSize /\ Committed \in Nat
  BY Positions DEF RefreshInv, TypeOK
<1>4. popped' = Committed + 1 /\ popped' <= written /\ popped' \in 0 .. StreamSize
      /\ popped' \in Nat
  BY <1>1, <1>2, <1>3, Sizes
<1>5. Committed' = Committed /\ Base' = Base
  <2>1. Committed' = popped' - 1
    BY <1>1, CommittedMoves
  <2> QED
    BY <1>1, <1>3, <1>4, <2>1 DEF Base
<1>6. Building'
  BY <1>1, <1>2, <1>5, BuildingMoves
<1>7. WindowFilled' /\ Acks'
  BY <1>1, <1>4, <1>5, WindowStays
<1>8. TypeOK'
  BY <1>1, <1>4 DEF RefreshInv, TypeOK, MaskInv
<1> QED
  BY <1>6, <1>7, <1>8

(* The staged byte joins the window under the next number.                 *)
LEMMA CommitKeeps ==
    ASSUME RefreshInv, MaskInv', NEW c \in Context, Commit(c)
    PROVE  TypeOK' /\ WindowFilled' /\ Building' /\ Acks'
<1>1. /\ InBuild(c) /\ pc[c] = "commit" /\ Goto(c, "paint") /\ MaskInv
      /\ txSeq' = NextSeq(txSeq)
      /\ slots' = [slots EXCEPT ![shown[c]].seq = NextSeq(txSeq)]
      /\ count' = count + 1 /\ sendOffset' = count + 1 /\ mayStage' = FALSE
      /\ UNCHANGED <<written, popped, head, stall, peerAck, image, credit, shown,
                     next, escMasked, bellMasked, event, bell, outputs, hostAck,
                     received>>
  BY DEF Commit, InBuild, RefreshInv, irqVars, hostVars, buildVars
<1>2. /\ count < Window /\ shown[c] = SlotOf(Committed + 1)
      /\ slots[shown[c]].byte = Committed + 1
  BY <1>1 DEF RefreshInv, Building
<1>3. PICK low \in Nat, high \in Nat :
         /\ low = Base /\ high = Committed /\ high = low + count /\ count \in Nat
         /\ popped = high + 1 /\ popped <= written /\ head = low % Window
         /\ txSeq = SeqOf(high)
  <2>1. Committed = popped - 1
    BY <1>1, CommittedMoves
  <2> QED
    BY <2>1, Positions DEF RefreshInv, WindowFilled
<1>4. Committed' = high + 1 /\ Base' = low
  <2>1. Committed' = popped'
    BY <1>1, CommittedMoves
  <2>2. Base' = popped - (count + 1)
    BY <1>1, <2>1 DEF Base
  <2> QED
    BY <1>1, <1>3, <2>1, <2>2
<1>5. PICK s \in Slot : s = shown[c] /\ s = SlotOf(high + 1)
  <2>1. SlotOf(high + 1) \in Slot
    BY SlotTyped
  <2> QED
    BY <1>2, <1>3, <2>1
<1>6. /\ slots \in [Slot -> [seq : 0 .. SeqMax, byte : 0 .. StreamSize]]
      /\ txSeq \in 0 .. SeqMax /\ NextSeq(txSeq) \in 0 .. SeqMax
      /\ NextSeq(txSeq) = SeqOf(high + 1)
  <2>1. SeqOf(high + 1) = NextSeq(SeqOf(high)) /\ SeqOf(high + 1) \in 0 .. SeqMax
    BY SeqNext
  <2> QED
    BY <1>3, <2>1 DEF RefreshInv, TypeOK
<1>7. /\ slots'[s] = [seq |-> SeqOf(high + 1), byte |-> high + 1]
      /\ \A t \in Slot : t # s => slots'[t] = slots[t]
  <2>1. slots[s].byte = high + 1
    BY <1>2, <1>3, <1>5
  <2>2. slots'[s] = [slots[s] EXCEPT !.seq = NextSeq(txSeq)]
    BY <1>1, <1>5, <1>6
  <2>3. slots[s] \in [seq : 0 .. SeqMax, byte : 0 .. StreamSize]
    BY <1>6
  <2>4. slots'[s] = [seq |-> NextSeq(txSeq), byte |-> slots[s].byte]
    BY <2>2, <2>3
  <2>5. \A t \in Slot : t # s => slots'[t] = slots[t]
    BY <1>1, <1>5, <1>6
  <2> QED
    BY <1>6, <2>1, <2>4, <2>5
<1>8. Building'
  <2>1. shown'[c] = SlotOf(high + 1) /\ high + 1 \in (Base' + 1) .. Committed'
    BY <1>1, <1>3, <1>4, <1>5
  <2> QED
    BY <1>1, <2>1, BuildingMoves
<1>9. WindowFilled'
  <2>1. ASSUME NEW b \in (low + 1) .. (high + 1)
        PROVE  slots'[SlotOf(b)] = [seq |-> SeqOf(b), byte |-> b]
    <3>1. CASE b = high + 1
      BY <3>1, <1>5, <1>7
    <3>2. CASE b # high + 1
      <4>1. b \in (Base + 1) .. Committed /\ b \in Nat /\ b > 0
        BY <1>3, <3>2
      <4>2. slots[SlotOf(b)] = [seq |-> SeqOf(b), byte |-> b]
        BY <4>1 DEF RefreshInv, WindowFilled
      <4>3. SlotOf(b) \in Slot
        BY <4>1, SlotTyped
      <4>4. SlotOf(b) # s
        <5> DEFINE after == high + 1
        <5>1. after \in Nat /\ after > 0 /\ b # after /\ b < after + Window
              /\ after < b + Window
          BY <1>2, <1>3, <3>2, <4>1, Sizes
        <5> HIDE DEF after
        <5>2. SlotOf(b) # SlotOf(after)
          BY <4>1, <5>1, SlotDistinct
        <5> QED
          BY <1>5, <5>2 DEF after
      <4> QED
        BY <1>7, <4>2, <4>3, <4>4
    <3> QED
      BY <3>1, <3>2
  <2>2. /\ count' <= high + 1 /\ head' = low % Window /\ txSeq' = SeqOf(high + 1)
        /\ popped' <= written'
    BY <1>1, <1>3, <1>6
  <2> QED
    BY <1>4, <2>1, <2>2 DEF WindowFilled, SlotOf, SeqOf
<1>10. Acks'
  <2> DEFINE n == Len(received)
  <2>1. PICK acked \in Nat, coming \in Nat :
           /\ Base <= acked /\ acked <= coming /\ coming <= n
           /\ n \in Nat /\ n <= Committed
           /\ peerAck = SeqOf(acked) /\ outputs = SeqOf(coming)
    BY AckedBytes
  <2>2. acked \in 0 .. n /\ coming \in 0 .. n /\ Base' <= acked /\ n <= Committed'
    BY <1>3, <1>4, <2>1
  <2>3. image.byte # 0 =>
           /\ image.seq = SeqOf(image.byte)
           /\ image.byte <= Committed' /\ n + 1 <= image.byte + Window
    <3>1. image.byte \in Nat
      BY DEF RefreshInv, TypeOK
    <3>2. image.byte # 0 =>
             /\ image.seq = SeqOf(image.byte)
             /\ image.byte <= high /\ n + 1 <= image.byte + Window
      BY <1>3 DEF RefreshInv, Acks
    <3> QED
      BY <1>4, <3>1, <3>2
  <2> QED
    BY <1>1, <2>1, <2>2, <2>3 DEF RefreshInv, Acks, UplinkExact, SeqOf
<1>11. TypeOK'
  <2>1. slots' \in [Slot -> [seq : 0 .. SeqMax, byte : 0 .. StreamSize]]
    BY <1>1, <1>5, <1>6
  <2>2. count' \in 0 .. Window /\ sendOffset' \in 0 .. count' /\ txSeq' \in 0 .. SeqMax
    BY <1>1, <1>2, <1>3, <1>6, Sizes
  <2> QED
    BY <1>1, <2>1, <2>2 DEF RefreshInv, TypeOK, MaskInv
<1> QED
  BY <1>8, <1>9, <1>10, <1>11

(* A rebuild that holds shows the byte it showed last, or nothing.         *)
LEMMA HoldKeeps ==
    ASSUME RefreshInv, MaskInv', NEW c \in Context, PickHold(c)
    PROVE  TypeOK' /\ WindowFilled' /\ Building' /\ Acks'
<1> DEFINE waits == count # 0 /\ credit[c]
           rewinds == waits /\ stall + 1 >= StallFrames
           shows == count # 0 /\ ~rewinds /\ sendOffset # 0
<1>1. /\ InBuild(c) /\ pc[c] = "pick" /\ Goto(c, "paint") /\ MaskInv
      /\ stall' = (IF rewinds THEN 0 ELSE IF waits THEN stall + 1 ELSE stall)
      /\ sendOffset' = (IF rewinds THEN 0 ELSE sendOffset)
      /\ shown' = [shown EXCEPT ![c] = IF shows THEN At(sendOffset - 1) ELSE NoSlot]
      /\ UNCHANGED <<written, popped, head, count, mayStage, txSeq, peerAck, slots,
                     image, credit, next, escMasked, bellMasked, event, bell,
                     outputs, hostAck, received>>
  BY DEF PickHold, InBuild, RefreshInv, irqVars, hostVars
<1>2. /\ Committed' = popped /\ Committed = popped /\ Base' = Base /\ popped <= written
      /\ popped \in Nat
  <2>1. Committed' = popped' /\ Committed = popped
    BY <1>1, CommittedMoves
  <2> QED
    BY <1>1, <2>1, Positions DEF Base
<1>3. /\ sendOffset \in 0 .. count /\ count \in 0 .. Window
      /\ stall \in 0 .. (StallFrames - 1)
      /\ shown \in [Context -> Slot \cup {NoSlot}]
  BY DEF RefreshInv, TypeOK
<1>4. sendOffset \in Nat /\ count \in Nat
  BY <1>3, Sizes
<1>5. ASSUME shows
      PROVE  /\ At(sendOffset - 1) \in Slot /\ At(sendOffset - 1) = SlotOf(Base + sendOffset)
             /\ Base + sendOffset \in (Base' + 1) .. Committed'
  <2> DEFINE k == sendOffset - 1
  <2>1. k \in Nat /\ Base + k + 1 = Base + sendOffset
    BY <1>4, <1>5, Positions
  <2> HIDE DEF k
  <2>2. At(k) \in Slot /\ At(k) = SlotOf(Base + sendOffset)
    BY <2>1, AtIs
  <2>3. Base + sendOffset \in (Base' + 1) .. Committed'
    BY <1>2, <1>3, <1>4, <1>5, Positions
  <2> QED
    BY <2>2, <2>3 DEF k
<1>6. shown'[c] = IF shows THEN At(sendOffset - 1) ELSE NoSlot
  BY <1>1, <1>3
<1> HIDE DEF shows
<1>7. Building'
  <2>1. shown'[c] = NoSlot \/ \E b \in (Base' + 1) .. Committed' : shown'[c] = SlotOf(b)
    BY <1>5, <1>6
  <2> QED
    BY <1>1, <2>1, BuildingMoves
<1>8. WindowFilled' /\ Acks'
  BY <1>1, <1>2, WindowStays
<1>9. TypeOK'
  <2>1. sendOffset' \in 0 .. count'
    BY <1>1, <1>3, Sizes
  <2>2. shown' \in [Context -> Slot \cup {NoSlot}]
    BY <1>1, <1>3, <1>5
  <2>3. stall' \in 0 .. (StallFrames - 1)
    BY <1>1, <1>3, Sizes
  <2> QED
    BY <1>1, <2>1, <2>2, <2>3 DEF RefreshInv, TypeOK, MaskInv
<1> QED
  BY <1>7, <1>8, <1>9

(* The image shows a byte of the window, or none.                          *)
LEMMA PaintKeeps ==
    ASSUME RefreshInv, MaskInv', NEW c \in Context, Paint(c)
    PROVE  TypeOK' /\ WindowFilled' /\ Building' /\ Acks'
<1> DEFINE n == Len(received)
<1>1. /\ InBuild(c) /\ pc[c] = "paint" /\ Goto(c, "idle") /\ MaskInv
      /\ image' = (IF shown[c] = NoSlot THEN [seq |-> txSeq, byte |-> 0]
                   ELSE slots[shown[c]])
      /\ escMasked' = (IF c = "pdi" THEN escMasked ELSE FALSE)
      /\ bellMasked' = (IF c = "main" THEN FALSE ELSE bellMasked)
      /\ UNCHANGED <<written, popped, head, count, sendOffset, stall, mayStage,
                     txSeq, peerAck, slots, credit, shown, next, event, bell,
                     outputs, hostAck, received>>
  BY DEF Paint, InBuild, RefreshInv, hostVars, endpointVars, buildVars
<1>2. /\ Committed' = Committed /\ Base' = Base
  <2>1. Committed' = popped' /\ Committed = popped
    BY <1>1, CommittedMoves
  <2> QED
    BY <1>1, <2>1 DEF Base
<1>3. PICK acked \in Nat, coming \in Nat :
         /\ Base <= acked /\ acked <= coming /\ coming <= n
         /\ n \in Nat /\ n <= Committed
         /\ peerAck = SeqOf(acked) /\ outputs = SeqOf(coming)
  BY AckedBytes
<1>4. image'.byte # 0 =>
         /\ image'.seq = SeqOf(image'.byte)
         /\ image'.byte <= Committed /\ n + 1 <= image'.byte + Window
  <2>1. CASE shown[c] = NoSlot
    BY <1>1, <2>1
  <2>2. CASE shown[c] # NoSlot
    <3>1. PICK b \in (Base + 1) .. Committed : shown[c] = SlotOf(b)
      BY <1>1, <2>2 DEF RefreshInv, Building
    <3>2. image' = [seq |-> SeqOf(b), byte |-> b]
      BY <1>1, <2>2, <3>1 DEF RefreshInv, WindowFilled
    <3>3. b <= Committed /\ n + 1 <= b + Window
      BY <1>3, <3>1, Positions, Sizes
    <3> QED
      BY <3>2, <3>3
  <2> QED
    BY <2>1, <2>2
<1>5. Acks'
  <2>1. acked \in 0 .. n /\ coming \in 0 .. n /\ Base' <= acked
    BY <1>2, <1>3
  <2> QED
    BY <1>1, <1>2, <1>3, <1>4, <2>1 DEF RefreshInv, Acks, UplinkExact, SeqOf
<1>6. WindowFilled'
  BY <1>1, <1>2 DEF RefreshInv, WindowFilled, SlotOf, SeqOf
<1>7. Building'
  BY <1>1, BuildingMoves
<1>8. TypeOK'
  <2>1. /\ slots \in [Slot -> [seq : 0 .. SeqMax, byte : 0 .. StreamSize]]
        /\ shown \in [Context -> Slot \cup {NoSlot}] /\ txSeq \in 0 .. SeqMax
        /\ escMasked \in BOOLEAN /\ bellMasked \in BOOLEAN /\ 0 \in 0 .. StreamSize
    BY Sizes DEF RefreshInv, TypeOK
  <2>2. image' \in [seq : 0 .. SeqMax, byte : 0 .. StreamSize]
    BY <1>1, <2>1
  <2>3. escMasked' \in BOOLEAN /\ bellMasked' \in BOOLEAN
    BY <1>1, <2>1
  <2> QED
    BY <1>1, <2>2, <2>3 DEF RefreshInv, TypeOK, MaskInv
<1> QED
  BY <1>5, <1>6, <1>7, <1>8

(* Every step keeps the invariant, whichever context takes it.             *)
LEMMA RefreshStep ==
    ASSUME MaskDoorbell = TRUE, RefreshInv, [Next]_vars
    PROVE  RefreshInv'
<1>1. MaskInv /\ MaskInv'
  BY MaskStep DEF RefreshInv
<1>2. TypeOK' /\ WindowFilled' /\ Building' /\ Acks'
  <2>1. CASE UNCHANGED vars
    <3>1. UNCHANGED <<written, popped, head, count, sendOffset, stall, mayStage,
                      txSeq, peerAck, slots, image, pc, credit, shown, next,
                      escMasked, bellMasked, event, bell, outputs, hostAck, received>>
      BY <2>1 DEF vars, endpointVars, buildVars, irqVars, hostVars
    <3>2. Committed' = Committed /\ Base' = Base /\ WindowFilled' /\ Building'
      BY <3>1, Positions, OutsideKeeps DEF Context
    <3>3. Acks'
      BY <3>1, <3>2, AcksStay DEF RefreshInv
    <3>4. TypeOK'
      BY <3>1 DEF RefreshInv, TypeOK
    <3> QED
      BY <3>2, <3>3, <3>4
  <2>2. CASE Push
    BY <2>2, PushKeeps
  <2>3. CASE FramePass
    BY <2>3, FrameKeeps
  <2>4. CASE PdiEnter
    BY <1>1, <2>4, PdiKeeps
  <2>5. CASE DoorbellEnter
    <3>1. /\ pc["doorbell"] = "idle" /\ Goto("doorbell", "check") /\ "doorbell" \in Context
          /\ UNCHANGED <<escMasked, bellMasked>> /\ bell' = FALSE
          /\ UNCHANGED <<written, popped, endpointVars, image, buildVars, event, hostVars>>
      BY <2>5 DEF DoorbellEnter, Context
    <3>2. escMasked \in BOOLEAN /\ bellMasked \in BOOLEAN
      BY DEF RefreshInv, TypeOK
    <3> QED
      BY <1>1, <3>1, <3>2, GateKeeps
  <2>6. CASE MainEnter
    <3>1. /\ pc["main"] = "idle" /\ Goto("main", "check") /\ "main" \in Context
          /\ escMasked' = escMasked /\ bell' = bell /\ bellMasked' = TRUE
          /\ UNCHANGED <<written, popped, endpointVars, image, buildVars, event, hostVars>>
      BY <2>6 DEF MainEnter, Context
    <3>2. escMasked \in BOOLEAN /\ bell \in BOOLEAN
      BY DEF RefreshInv, TypeOK
    <3> QED
      BY <1>1, <3>1, <3>2, GateKeeps
  <2>7. ASSUME NEW c \in Context, CheckFails(c) \/ CheckPasses(c) \/ DisableEsc(c)
        PROVE  TypeOK' /\ WindowFilled' /\ Building' /\ Acks'
    <3>1. escMasked \in BOOLEAN /\ bellMasked \in BOOLEAN /\ bell \in BOOLEAN
      BY DEF RefreshInv, TypeOK
    <3>2. CASE CheckFails(c)
      <4>1. /\ pc[c] = "check" /\ Goto(c, "idle")
            /\ escMasked' = escMasked /\ bell' = bell
            /\ bellMasked' = (IF c = "main" THEN FALSE ELSE bellMasked)
            /\ UNCHANGED <<written, popped, endpointVars, image, buildVars, event, hostVars>>
        BY <3>2 DEF CheckFails
      <4>2. bellMasked' \in BOOLEAN
        BY <3>1, <4>1
      <4> QED
        BY <1>1, <3>1, <4>1, <4>2, GateKeeps
    <3>3. CASE CheckPasses(c)
      <4>1. /\ pc[c] = "check" /\ Goto(c, "mask")
            /\ UNCHANGED <<escMasked, bellMasked, bell>>
            /\ UNCHANGED <<written, popped, endpointVars, image, buildVars, event, hostVars>>
        BY <3>3 DEF CheckPasses, irqVars
      <4> QED
        BY <1>1, <3>1, <4>1, GateKeeps
    <3>4. CASE DisableEsc(c)
      <4>1. /\ pc[c] = "mask" /\ Goto(c, "slide")
            /\ escMasked' = TRUE /\ UNCHANGED <<bellMasked, bell>>
            /\ UNCHANGED <<written, popped, endpointVars, image, buildVars, event, hostVars>>
        BY <3>4 DEF DisableEsc
      <4> QED
        BY <1>1, <3>1, <4>1, GateKeeps
    <3> QED
      BY <2>7, <3>2, <3>3, <3>4
  <2>8. ASSUME NEW c \in Context,
               Slide(c) \/ PickReplay(c) \/ PickStage(c) \/ PickHold(c)
                   \/ Pop(c) \/ Commit(c) \/ Paint(c)
        PROVE  TypeOK' /\ WindowFilled' /\ Building' /\ Acks'
    BY <1>1, <2>8, SlideKeeps, ReplayKeeps, StageKeeps, HoldKeeps, PopKeeps,
       CommitKeeps, PaintKeeps
  <2> QED
    BY <2>1, <2>2, <2>3, <2>4, <2>5, <2>6, <2>7, <2>8 DEF Next
<1> QED
  BY <1>1, <1>2 DEF RefreshInv

(* ------------------------------- theorems ------------------------------ *)

(* Where the main loop masks the doorbell, the window, the acks and the    *)
(* image stay consistent with what the host has, although three contexts   *)
(* rebuild the image step by step.                                         *)
THEOREM RefreshInvariant ==
    ASSUME MaskDoorbell = TRUE
    PROVE  Spec => []RefreshInv
<1>1. RefreshInv /\ [Next]_vars => RefreshInv'
  BY RefreshStep
<1> QED
  BY <1>1, InitRefresh, PTL DEF Spec

(* The offsets, counts, numbers and masks keep their types: no send offset *)
(* ever points past the window, no stall count past its limit.             *)
THEOREM RefreshTypes ==
    ASSUME MaskDoorbell = TRUE
    PROVE  Spec => []TypeOK
<1>1. RefreshInv => TypeOK
  BY DEF RefreshInv
<1> QED
  BY <1>1, RefreshInvariant, PTL

(* The host takes the uplink bytes exactly once and in order, whichever    *)
(* context painted each of them and however often it was replayed.         *)
THEOREM UplinkInOrder ==
    ASSUME MaskDoorbell = TRUE
    PROVE  Spec => []UplinkExact
<1>1. RefreshInv => UplinkExact
  BY DEF RefreshInv, Acks
<1> QED
  BY <1>1, RefreshInvariant, PTL

(* A byte that was popped and has not arrived is in the window or on its   *)
(* way into it, so that a replay can still bring it to the host.           *)
THEOREM BytesKept ==
    ASSUME MaskDoorbell = TRUE
    PROVE  Spec => []NoByteDropped
<1>1. RefreshInv => NoByteDropped
  <2> SUFFICES ASSUME RefreshInv, NEW b \in (Len(received) + 1) .. popped
               PROVE  \/ \E j \in 1 .. count : slots[At(j - 1)].byte = b
                      \/ \E c \in Context : pc[c] = "commit" /\ slots[shown[c]].byte = b
    BY DEF NoByteDropped
  <2>1. Len(received) \in Nat /\ Base <= Len(received)
    BY AckedBytes, Positions
  <2>2. b \in Nat /\ b > Base
    BY <2>1, Positions
  <2>3. CASE b <= Committed
    <3> DEFINE k == b - Base - 1
    <3>1. k \in Nat /\ k + 1 \in 1 .. count /\ Base + k + 1 = b
          /\ b \in (Base + 1) .. Committed
      BY <2>2, <2>3, Positions
    <3> HIDE DEF k
    <3>2. At(k) = SlotOf(b)
      <4>1. At(k) = SlotOf(Base + k + 1)
        BY <3>1, AtIs
      <4> QED
        BY <3>1, <4>1, Zenon
    <3>3. slots[SlotOf(b)].byte = b
      <4>1. \A x \in (Base + 1) .. Committed :
               slots[SlotOf(x)] = [seq |-> SeqOf(x), byte |-> x]
        BY DEF RefreshInv, WindowFilled
      <4>2. slots[SlotOf(b)] = [seq |-> SeqOf(b), byte |-> b]
        BY <3>1, <4>1, Zenon
      <4> QED
        BY <4>2
    <3> DEFINE j == k + 1
    <3>4. j \in 1 .. count /\ j - 1 = k
      BY <3>1
    <3>5. slots[At(j - 1)].byte = b
      BY <3>2, <3>3, <3>4, Zenon
    <3> HIDE DEF j
    <3> QED
      BY <3>4, <3>5
  <2>4. CASE b > Committed
    <3>1. PICK c \in Context : pc[c] = "commit"
      BY <2>2, <2>4, Positions DEF Committed
    <3>2. Committed = popped - 1
      BY <3>1 DEF Committed
    <3>3. b = Committed + 1
      BY <2>2, <2>4, <3>2, Positions
    <3> QED
      BY <3>1, <3>3 DEF RefreshInv, Building
  <2> QED
    BY <2>2, <2>3, <2>4, Positions
<1> QED
  BY <1>1, RefreshInvariant, PTL
=============================================================================
