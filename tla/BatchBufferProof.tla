-------------------------- MODULE BatchBufferProof --------------------------
(***************************************************************************)
(* Theorems about BatchBuffer, for every number of priority levels,        *)
(* batches, fields and sessions: type correctness, the window of open      *)
(* batches, the batch the transport holds, and that every field whose      *)
(* reservation succeeded goes out whole, once and in its own session.      *)
(***************************************************************************)
EXTENDS BatchBuffer, Integers, TLAPS

(* -------------- a position a and its slot a % C, for any C ------------- *)

(* Quotient and remainder.                                                 *)
LEMMA DivMod ==
    ASSUME NEW a \in Nat, NEW C \in Nat, C > 0
    PROVE  /\ a % C \in 0 .. (C - 1) /\ a \div C \in Nat
           /\ a = C * (a \div C) + (a % C)
  BY SMT

(* A multiple of C strictly between -C and C is zero.                      *)
LEMMA SmallMultiple ==
    ASSUME NEW C \in Nat, NEW z \in Int, C * z < C, C * z > 0 - C, C > 0
    PROVE  z = 0
<1>1. CASE z >= 1
  <2>1. C * z >= C
    BY <1>1, SMT
  <2> QED
    BY <2>1
<1>2. CASE z <= -1
  <2>1. C * (0 - z) >= C /\ C * (0 - z) = 0 - C * z
    BY <1>2, SMT
  <2> QED
    BY <2>1
<1> QED
  BY <1>1, <1>2

(* Positions that share a slot are a multiple of C apart.                  *)
LEMMA SlotsApart ==
    ASSUME NEW C \in Nat, C > 0, NEW a \in Nat, NEW b \in Nat,
           a % C = b % C
    PROVE  \E q \in Int : a = b + C * q
<1> DEFINE p == a \div C
           s == b \div C
<1>1. /\ p \in Nat /\ s \in Nat
      /\ a % C \in 0 .. (C - 1) /\ b % C \in 0 .. (C - 1)
      /\ a = C * p + (a % C) /\ b = C * s + (b % C)
  BY DivMod
<1> HIDE DEF p, s
<1>2. /\ p - s \in Int /\ C * p \in Int /\ C * s \in Int
      /\ C * (p - s) = C * p - C * s
  BY <1>1, SMT
<1>3. a = b + C * (p - s)
  BY <1>1, <1>2
<1> QED
  BY <1>2, <1>3

(* Different positions less than C apart have different slots.             *)
LEMMA SlotsDiffer ==
    ASSUME NEW C \in Nat, C > 0, NEW a \in Nat, NEW b \in Nat,
           a < b + C, b < a + C, a % C = b % C
    PROVE  a = b
<1>1. PICK q \in Int : a = b + C * q
  BY SlotsApart
<1>2. C * q \in Int
  BY SMT
<1>3. C * q < C /\ C * q > 0 - C
  BY <1>1, <1>2
<1>4. q = 0
  BY <1>3, SmallMultiple
<1>5. C * q = 0
  BY <1>4
<1> QED
  BY <1>1, <1>5

(* ----------------------------------------------------------------------- *)

(* The part of BatchAssumption the steps need.                             *)
LEMMA Sizes ==
    /\ Batches \in Nat /\ Batches >= 2
    /\ BatchSize \in Nat /\ BatchSize >= 1
    /\ 0 \in Context
    /\ \A c \in Context : c \in Nat /\ FieldSize[c] \in 1 .. BatchSize
  BY BatchAssumption DEF Context

(* Every index has its slot.                                               *)
LEMMA SlotIn == ASSUME NEW index \in Nat PROVE SlotOf(index) \in Slot
  BY Sizes, DivMod DEF SlotOf, Slot

(* NoSlot is no slot.                                                      *)
LEMMA NoSlotApart == NoSlot \notin Slot
  BY Sizes DEF NoSlot, Slot

(* The batch the transport holds is none of the open ones.                 *)
LEMMA HeldApart ==
    ASSUME BInv, held # NoSlot
    PROVE  ~Open(held)
<1> SUFFICES ASSUME NEW i \in out .. (in - 1), held = SlotOf(i) PROVE FALSE
  BY DEF Open
<1>1. /\ in \in Nat /\ out \in Nat /\ out >= 1 /\ in - out <= Batches - 1
      /\ held = SlotOf(out - 1)
  BY DEF BInv, TypeOK, Window
<1> DEFINE before == out - 1
<1>2. /\ i \in Nat /\ before \in Nat
      /\ i < before + Batches /\ before < i + Batches /\ i # before
  BY <1>1, Sizes
<1>3. i % Batches = before % Batches
  BY <1>1 DEF SlotOf
<1> HIDE DEF before
<1>4. Batches \in Nat /\ Batches > 0
  BY Sizes
<1> QED
  BY <1>2, <1>3, <1>4, SlotsDiffer

(* The newest batch a context looks at is still open.                      *)
LEMMA NewestOpen ==
    ASSUME BInv, NEW c \in Context, pc[c] \in {"size", "take"}
    PROVE  Newest(c) \in Slot /\ Open(Newest(c))
<1>1. /\ in \in Nat /\ out \in Nat /\ myIn[c] \in Nat
      /\ out < myIn[c] /\ myIn[c] <= in
  BY DEF BInv, TypeOK, Working
<1>2. myIn[c] - 1 \in Nat /\ myIn[c] - 1 \in out .. (in - 1)
  BY <1>1
<1> QED
  BY <1>2, SlotIn DEF Newest, Open

(* While a context allocates, the pool is not being emptied.               *)
LEMMA NotEmptying ==
    ASSUME BInv, NEW c \in Context, pc[c] \in {"load", "size", "take", "open", "fill"}
    PROVE  pc[0] \notin {"reset", "empty"} /\ ~locked
<1>1. c = 0 \/ c > 0
  BY Sizes
<1> QED
  BY <1>1 DEF BInv, MainLoop

(* The pool starts empty.                                                  *)
LEMMA InitPool == Init => BInv
<1> SUFFICES ASSUME Init PROVE BInv
  OBVIOUS
<1>1. NoField \in Field
  BY Sizes DEF NoField, Field
<1>2. TypeOK
  <2>1. /\ written \in [Slot -> 0 .. BatchSize]
        /\ data \in [Slot -> [0 .. (BatchSize - 1) -> Field]]
        /\ held \in Slot \cup {NoSlot}
    BY <1>1, Sizes DEF Init
  <2>2. /\ pc \in [Context -> Label] /\ myIn \in [Context -> Nat]
        /\ mySize \in [Context -> 0 .. BatchSize] /\ made \in [Context -> Nat]
        /\ field \in [Context -> Field]
    BY <1>1, Sizes DEF Init, Label
  <2>3. span \in [Context -> [slot : Slot, from : 0 .. BatchSize]]
    BY Sizes DEF Init, Slot
  <2>4. sent \in Seq(Field)
    BY DEF Init
  <2> QED
    BY <2>1, <2>2, <2>3, <2>4 DEF Init, TypeOK
<1>3. Window
  BY Sizes DEF Init, Window
<1>4. \A c \in Context : Working(c)
  BY DEF Init, Working
<1>5. MainLoop
  BY Sizes DEF Init, MainLoop
<1> QED
  BY <1>2, <1>3, <1>4, <1>5 DEF BInv

(* ------------------------------ producers ------------------------------ *)

(* A new field is a field.                                                 *)
LEMMA NewFieldTyped == ASSUME BInv, NEW c \in Context PROVE NewField(c) \in Field
  BY DEF NewField, Field, BInv, TypeOK

(* A label given to a context is typed.                                    *)
LEMMA GotoTyped ==
    ASSUME BInv, NEW c \in Context, NEW label \in Label, Goto(c, label)
    PROVE  /\ pc' \in [Context -> Label] /\ pc'[c] = label
           /\ \A d \in Context : d # c => pc'[d] = pc[d]
  BY DEF Goto, BInv, TypeOK

(* Beginning a field is typed.                                             *)
LEMMA BeginTyped ==
    ASSUME BInv, NEW c \in Context, Begin(c)
    PROVE  /\ made' \in [Context -> Nat] /\ field' \in [Context -> Field]
           /\ pc' \in [Context -> Label] /\ pc'[c] = "load"
           /\ \A d \in Context : d # c => pc'[d] = pc[d]
<1>1. NewField(c) \in Field /\ "load" \in Label
  BY NewFieldTyped DEF Label
<1>2. field' \in [Context -> Field] /\ made' \in [Context -> Nat]
  BY <1>1 DEF Begin, BInv, TypeOK
<1> QED
  BY <1>1, <1>2, GotoTyped DEF Begin

(* Beginning a field touches nothing shared.                               *)
LEMMA InterruptKeeps ==
    ASSUME BInv, NEW c \in Context, Interrupt(c) PROVE BInv'
<1>2. TypeOK'
  BY BeginTyped DEF BInv, TypeOK, Interrupt, poolVars, sessionVars, historyVars
<1>3. Window'
  BY DEF BInv, Window, Open, Interrupt, poolVars, sessionVars
<1>4. \A d \in Context : Working(d)'
  BY DEF BInv, TypeOK, Working, Open, Interrupt, Begin, Goto, poolVars
<1>5. MainLoop'
  BY Sizes DEF BInv, TypeOK, MainLoop, Interrupt, Begin, Goto, poolVars, sessionVars
<1> QED
  BY <1>2, <1>3, <1>4, <1>5 DEF BInv

(* Loading in_ finds it no smaller than out_.                              *)
LEMMA LoadInKeeps ==
    ASSUME BInv, NEW c \in Context, LoadIn(c) PROVE BInv'
<1>1. TypeOK'
  BY DEF BInv, TypeOK, LoadIn, Goto, Label, poolVars, sessionVars, historyVars
<1>2. Window'
  BY DEF BInv, Window, Open, LoadIn, poolVars, sessionVars
<1>3. \A d \in Context : Working(d)'
  BY DEF BInv, TypeOK, Working, Window, Open, LoadIn, At, Goto, poolVars
<1>4. MainLoop'
  BY Sizes DEF BInv, TypeOK, MainLoop, LoadIn, At, Goto, poolVars, sessionVars
<1> QED
  BY <1>1, <1>2, <1>3, <1>4 DEF BInv

(* A context goes on to reserve only what fits the size it loaded.         *)
LEMMA LoadSizeKeeps ==
    ASSUME BInv, NEW c \in Context, LoadSize(c) PROVE BInv'
<1>1. /\ Newest(c) \in Slot /\ written[Newest(c)] \in 0 .. BatchSize
      /\ FieldSize[c] \in 1 .. BatchSize /\ BatchSize \in Nat
  BY NewestOpen, Sizes DEF LoadSize, At, BInv, TypeOK
<1>2. TypeOK'
  BY <1>1 DEF BInv, TypeOK, LoadSize, Goto, Label, poolVars, sessionVars, historyVars
<1>3. Window'
  BY DEF BInv, Window, Open, LoadSize, poolVars, sessionVars
<1>4. \A d \in Context : Working(d)'
  <2> SUFFICES ASSUME NEW d \in Context PROVE Working(d)'
    OBVIOUS
  <2>1. Working(d) /\ UNCHANGED <<in, out, myIn, span>>
    BY DEF BInv, LoadSize, poolVars
  <2>2. CASE d # c
    <3>1. pc'[d] = pc[d] /\ mySize'[d] = mySize[d]
      BY <2>2 DEF BInv, TypeOK, LoadSize, Goto
    <3> QED
      BY <2>1, <3>1 DEF Working, Open
  <2>3. CASE d = c
    <3>1. pc[c] = "size" /\ pc' = [pc EXCEPT ![c] = pc'[c]]
      BY DEF LoadSize, At, Goto, BInv, TypeOK
    <3>2. /\ mySize'[c] = written[Newest(c)]
          /\ \/ pc'[c] = "open"
             \/ pc'[c] = "take" /\ ~(BatchSize - written[Newest(c)] < FieldSize[c])
      BY DEF LoadSize, Goto, BInv, TypeOK
    <3>3. out < myIn[c] /\ myIn[c] <= in
      BY <2>1, <2>3, <3>1 DEF Working
    <3>4. out \in Nat /\ myIn[c] \in Nat
      BY DEF BInv, TypeOK
    <3>5. pc'[c] = "take" => mySize'[c] + FieldSize[c] <= BatchSize
      BY <1>1, <3>2
    <3> QED
      BY <2>1, <2>3, <3>2, <3>3, <3>4, <3>5 DEF Working
  <2> QED
    BY <2>2, <2>3
<1>5. MainLoop'
  BY Sizes DEF BInv, TypeOK, MainLoop, LoadSize, At, Goto, poolVars, sessionVars
<1> QED
  BY <1>2, <1>3, <1>4, <1>5 DEF BInv

(* What is reserved lies in an open batch and fits it.                     *)
LEMMA TakeKeeps ==
    ASSUME BInv, NEW c \in Context, Take(c) PROVE BInv'
<1>1. /\ Newest(c) \in Slot /\ Open(Newest(c))
      /\ written[Newest(c)] \in 0 .. BatchSize
      /\ mySize[c] \in 0 .. BatchSize /\ mySize[c] + FieldSize[c] <= BatchSize
      /\ FieldSize[c] \in 1 .. BatchSize /\ BatchSize \in Nat
  BY NewestOpen, Sizes DEF Take, At, BInv, TypeOK, Working
<1>2. TypeOK'
  <2>1. written' \in [Slot -> 0 .. BatchSize]
    <3>1. CASE written[Newest(c)] = mySize[c]
      <4>1. written[Newest(c)] + FieldSize[c] \in 0 .. BatchSize
        BY <1>1, <3>1
      <4> QED
        BY <3>1, <4>1 DEF Take, BInv, TypeOK
    <3>2. CASE written[Newest(c)] # mySize[c]
      BY <3>2 DEF Take, BInv, TypeOK
    <3> QED
      BY <3>1, <3>2
  <2>2. span' \in [Context -> [slot : Slot, from : 0 .. BatchSize]]
    <3>1. [slot |-> Newest(c), from |-> mySize[c]] \in [slot : Slot, from : 0 .. BatchSize]
      BY <1>1
    <3>2. CASE written[Newest(c)] = mySize[c]
      BY <3>1, <3>2 DEF Take, BInv, TypeOK
    <3>3. CASE written[Newest(c)] # mySize[c]
      BY <3>3 DEF Take, BInv, TypeOK
    <3> QED
      BY <3>2, <3>3
  <2>3. pc' \in [Context -> Label]
    BY DEF Take, Goto, Label, BInv, TypeOK
  <2> QED
    BY <2>1, <2>2, <2>3 DEF BInv, TypeOK, Take, sessionVars, historyVars
<1>3. Window'
  BY <1>1 DEF BInv, TypeOK, Window, Open, Take, sessionVars
<1>4. \A d \in Context : Working(d)'
  <2> SUFFICES ASSUME NEW d \in Context PROVE Working(d)'
    OBVIOUS
  <2>1. Working(d) /\ UNCHANGED <<in, out, myIn, mySize>>
    BY DEF BInv, Take
  <2>2. CASE d # c
    <3>1. pc'[d] = pc[d] /\ span'[d] = span[d]
      BY <2>2 DEF BInv, TypeOK, Take, Goto
    <3> QED
      BY <2>1, <3>1 DEF Working, Open
  <2>3. CASE d = c
    <3>1. pc[c] = "take"
      BY DEF Take, At
    <3>2. \/ pc'[c] = "size"
          \/ pc'[c] = "fill" /\ span'[c].slot = Newest(c)
      BY DEF Take, Goto, BInv, TypeOK
    <3> QED
      BY <1>1, <2>1, <2>3, <3>1, <3>2 DEF Working, Open
  <2> QED
    BY <2>2, <2>3
<1>5. MainLoop'
  <2>1. pc[0] \notin {"reset", "empty"} /\ ~locked
    BY NotEmptying DEF Take, At
  <2>2. \/ pc'[0] = pc[0]
        \/ pc'[0] \in {"fill", "size"}
    BY Sizes DEF Take, Goto, BInv, TypeOK
  <2>3. UNCHANGED <<in, out, locked, held>>
    BY DEF Take, sessionVars
  <2> QED
    BY <2>1, <2>2, <2>3 DEF BInv, MainLoop
<1> QED
  BY <1>2, <1>3, <1>4, <1>5 DEF BInv

(* A full pool turns a context away.                                       *)
LEMMA RefuseKeeps ==
    ASSUME BInv, NEW c \in Context, Refuse(c) PROVE BInv'
<1>1. TypeOK'
  BY DEF BInv, TypeOK, Refuse, Return, Goto, Label, poolVars, historyVars
<1>2. Window'
  BY DEF BInv, Window, Open, Refuse, poolVars
<1>3. \A d \in Context : Working(d)'
  BY DEF BInv, TypeOK, Working, Open, Refuse, Return, At, Goto, poolVars
<1>4. MainLoop'
  BY Sizes DEF BInv, TypeOK, MainLoop, Refuse, Return, At, Goto, poolVars
<1> QED
  BY <1>1, <1>2, <1>3, <1>4 DEF BInv

(* A longer window holds the shorter one.                                  *)
LEMMA Longer ==
    ASSUME NEW a \in Nat, NEW b \in Nat, NEW c \in Nat, b <= c
    PROVE  \A i \in a .. (b - 1) : i \in a .. (c - 1)
  OBVIOUS

(* Another batch is opened only while one slot stays free for the          *)
(* transport.                                                              *)
LEMMA OpenBatchKeeps ==
    ASSUME BInv, NEW c \in Context, OpenBatch(c) PROVE BInv'
<1>1. /\ in \in Nat /\ out \in Nat /\ myIn[c] \in Nat
      /\ out <= in /\ in - out <= Batches - 1 /\ Batches \in Nat
      /\ out <= myIn[c] /\ myIn[c] <= in
      /\ (Batches - (myIn[c] - out)) - 1 # 0
  BY Sizes DEF OpenBatch, At, Writable, BInv, TypeOK, Window, Working
<1>2. /\ in' \in Nat /\ in <= in' /\ in' - out <= Batches - 1
      /\ out' = out /\ written' = written /\ held' = held /\ locked' = locked
  BY <1>1 DEF OpenBatch, sessionVars
<1>0. in \in Nat /\ out \in Nat /\ in' \in Nat /\ out <= in /\ in <= in'
  BY <1>1, <1>2
<1>3. \A s : Open(s) => Open(s)'
  <2>1. \A i \in out .. (in - 1) : i \in out .. (in' - 1)
    BY <1>0, Longer
  <2>2. out' = out
    BY <1>2
  <2> QED
    BY <2>1, <2>2, Zenon DEF Open
<1>4. TypeOK'
  BY <1>2 DEF BInv, TypeOK, OpenBatch, Goto, Label, sessionVars, historyVars
<1>5. Window'
  <2>1. out <= in' /\ in' - out <= Batches - 1
    BY <1>0, <1>2
  <2>4. out' <= in' /\ in' - out' <= Batches - 1
    BY <1>2, <2>1, Zenon
  <2>2. held # NoSlot => out >= 1 /\ held = SlotOf(out - 1)
    BY DEF BInv, Window
  <2>3. \A s \in Slot : ~Open(s) /\ s # held => written[s] = 0
    BY DEF BInv, Window
  <2> QED
    BY <1>2, <1>3, <2>4, <2>2, <2>3, Zenon DEF Window
<1>6. \A d \in Context : Working(d)'
  BY <1>1, <1>2, <1>3 DEF BInv, TypeOK, Working, OpenBatch, At, Goto
<1>7. MainLoop'
  <2>1. pc[0] \notin {"reset", "empty"} /\ ~locked
    BY NotEmptying DEF OpenBatch, At
  <2>2. pc'[0] = pc[0] \/ pc'[0] = "load"
    BY Sizes DEF OpenBatch, Goto, BInv, TypeOK
  <2>3. pc[0] = "pop" => in # out
    BY DEF BInv, MainLoop
  <2>4. in # out => in' # out
    BY <1>0
  <2>5. in # out => in' # out'
    BY <1>2, <2>4, Zenon
  <2> QED
    BY <1>2, <2>1, <2>2, <2>3, <2>5 DEF BInv, MainLoop
<1> QED
  BY <1>4, <1>5, <1>6, <1>7 DEF BInv

(* Filling the reserved room changes cells only.                           *)
LEMMA FillKeeps ==
    ASSUME BInv, NEW c \in Context, Fill(c) PROVE BInv'
<1>1. field[c] \in Field /\ span[c].slot \in Slot
  BY DEF BInv, TypeOK
<1>2. data' \in [Slot -> [0 .. (BatchSize - 1) -> Field]]
  BY <1>1 DEF BInv, TypeOK, Fill
<1>3. TypeOK'
  BY <1>1, <1>2 DEF BInv, TypeOK, Fill, Return, Goto, Label
<1>4. Window'
  BY DEF BInv, Window, Open, Fill
<1>5. \A d \in Context : Working(d)'
  BY DEF BInv, TypeOK, Working, Open, Fill, Return, At, Goto
<1>6. MainLoop'
  BY Sizes DEF BInv, TypeOK, MainLoop, Fill, Return, At, Goto
<1> QED
  BY <1>3, <1>4, <1>5, <1>6 DEF BInv

(* ------------------------------ main loop ------------------------------ *)

(* While the main loop steps, no interrupt is active.                      *)
LEMMA Alone ==
    ASSUME NEW label, At(0, label)
    PROVE  \A c \in Context : c > 0 => pc[c] = "idle"
  BY DEF At, Runs

(* Looking at the oldest batch changes nothing.                            *)
LEMMA PopBatchKeeps == ASSUME BInv, PopBatch PROVE BInv'
<1>1. TypeOK'
  BY DEF BInv, TypeOK, PopBatch, Goto, Label, poolVars, sessionVars, historyVars
<1>2. Window'
  BY DEF BInv, Window, Open, PopBatch, poolVars, sessionVars
<1>3. \A d \in Context : Working(d)'
  BY DEF BInv, TypeOK, Working, Open, PopBatch, At, Goto, poolVars
<1>4. MainLoop'
  BY Sizes DEF BInv, TypeOK, MainLoop, PopBatch, At, Goto, poolVars, sessionVars
<1> QED
  BY <1>1, <1>2, <1>3, <1>4 DEF BInv

(* The oldest batch moves from the open ones into the transport's hands.   *)
LEMMA StoreOutKeeps == ASSUME BInv, StoreOut PROVE BInv'
<1>1. /\ in \in Nat /\ out \in Nat /\ out < in /\ in - out <= Batches - 1
      /\ held = NoSlot /\ Batches \in Nat /\ SlotOf(out) \in Slot
      /\ ~locked
  BY Sizes, SlotIn DEF StoreOut, At, BInv, TypeOK, Window, MainLoop
<1>2. /\ out' = out + 1 /\ held' = SlotOf(out) /\ UNCHANGED <<in, written, locked>>
      /\ pc' = [pc EXCEPT ![0] = "idle"] /\ pc[0] = "pop"
  BY DEF StoreOut, Goto, At
<1>3. TypeOK'
  <2>1. out' \in Nat /\ held' \in Slot
    BY <1>1, <1>2
  <2>2. pc' \in [Context -> Label]
    BY GotoTyped, Sizes DEF StoreOut, Label
  <2>3. written' = written /\ data' = data
    BY DEF StoreOut
  <2>4. locked' \in BOOLEAN /\ established' \in BOOLEAN /\ enabled' \in BOOLEAN
    BY Zenon DEF BInv, TypeOK, StoreOut
  <2>5. UNCHANGED <<in, myIn, mySize, span, field, made, epoch, sent, accepted, dropped>>
    BY DEF StoreOut, historyVars
  <2> QED
    BY <2>1, <2>2, <2>3, <2>4, <2>5 DEF BInv, TypeOK
<1>4. Window'
  <2>1. out' <= in' /\ in' - out' <= Batches - 1 /\ out' >= 1 /\ out' - 1 = out
    BY <1>1, <1>2
  <2>2. ASSUME NEW s \in Slot, ~Open(s)', s # held' PROVE written'[s] = 0
    <3>1. ~Open(s)
      <4> SUFFICES ASSUME NEW i \in out .. (in - 1), s = SlotOf(i) PROVE FALSE
        BY DEF Open
      <4>1. i # out
        BY <1>2, <2>2
      <4>2. i \in out' .. (in' - 1)
        BY <1>1, <1>2, <4>1
      <4> QED
        BY <2>2, <4>2 DEF Open
    <3>2. s # held
      BY <1>1, NoSlotApart
    <3> QED
      BY <1>2, <3>1, <3>2 DEF BInv, Window
  <2> QED
    BY <1>2, <2>1, <2>2 DEF Window
<1>5. \A c \in Context : pc'[c] = "idle"
  BY <1>2, Alone, Sizes DEF StoreOut, BInv, TypeOK
<1>6. \A c \in Context : Working(c)'
  BY <1>5 DEF Working
<1>7. MainLoop'
  BY <1>1, <1>2, <1>5, Sizes DEF MainLoop
<1> QED
  BY <1>3, <1>4, <1>6, <1>7 DEF BInv

(* Handing the held batch to the transport only extends what was sent.     *)
LEMMA TransmitKeeps == ASSUME BInv, Transmit PROVE BInv'
<1>1. held \in Slot /\ written[held] \in 0 .. BatchSize /\ BatchSize \in Nat
  BY Sizes DEF Transmit, BInv, TypeOK
<1>2. sent' \in Seq(Field)
  <2> DEFINE n == written[held]
             cells == [i \in 1 .. n |-> data[held][i - 1]]
  <2>1. \A i \in 1 .. n : data[held][i - 1] \in Field
    BY <1>1 DEF BInv, TypeOK
  <2>2. n \in Nat /\ cells \in [1 .. n -> Field]
    BY <1>1, <2>1
  <2> HIDE DEF n
  <2>3. cells \in Seq(Field)
    BY <2>2
  <2>4. sent \in Seq(Field) /\ sent' = sent \o cells
    BY DEF BInv, TypeOK, Transmit, n
  <2> HIDE DEF cells
  <2> QED
    BY <2>3, <2>4
<1>3. TypeOK'
  BY <1>2 DEF BInv, TypeOK, Transmit, Goto, Label, poolVars, sessionVars
<1>4. Window'
  BY DEF BInv, Window, Open, Transmit, poolVars, sessionVars
<1>5. \A d \in Context : Working(d)'
  BY DEF BInv, TypeOK, Working, Open, Transmit, At, Goto, poolVars
<1>6. MainLoop'
  BY Sizes DEF BInv, TypeOK, MainLoop, Transmit, At, Goto, poolVars, sessionVars
<1> QED
  BY <1>3, <1>4, <1>5, <1>6 DEF BInv

(* Giving the held batch back leaves it empty.                             *)
LEMMA FinishBatchKeeps == ASSUME BInv, FinishBatch PROVE BInv'
<1>1. /\ held \in Slot /\ held' = NoSlot /\ written' = [written EXCEPT ![held] = 0]
      /\ UNCHANGED <<in, out, locked, span, myIn, mySize>>
      /\ pc' = [pc EXCEPT ![0] = "idle"] /\ pc[0] = "release"
  BY DEF FinishBatch, Release, Goto, At, BInv, TypeOK, MainLoop
<1>2. TypeOK'
  <2>1. pc' \in [Context -> Label]
    BY GotoTyped, Sizes DEF FinishBatch, Label
  <2>2. 0 \in 0 .. BatchSize
    BY Sizes
  <2>3. written' \in [Slot -> 0 .. BatchSize]
    BY <1>1, <2>2 DEF BInv, TypeOK
  <2>4. locked' \in BOOLEAN /\ established' \in BOOLEAN /\ enabled' \in BOOLEAN
    BY Zenon DEF BInv, TypeOK, FinishBatch
  <2>5. UNCHANGED <<data, field, made, epoch, sent, accepted, dropped>>
    BY DEF FinishBatch, historyVars
  <2> QED
    BY <1>1, <2>1, <2>3, <2>4, <2>5 DEF BInv, TypeOK
<1>3. Window'
  BY <1>1 DEF BInv, TypeOK, Window, Open
<1>4. \A c \in Context : pc'[c] = "idle"
  BY <1>1, Alone, Sizes DEF FinishBatch, BInv, TypeOK
<1>5. \A c \in Context : Working(c)'
  BY <1>4 DEF Working
<1>6. MainLoop'
  BY <1>1, <1>4, Sizes DEF MainLoop, BInv
<1> QED
  BY <1>2, <1>3, <1>5, <1>6 DEF BInv

(* A session that ends leaves the pool alone.                              *)
LEMMA DeactivateKeeps == ASSUME BInv, Deactivate PROVE BInv'
<1>1. UNCHANGED <<poolVars, held, localVars, historyVars>> /\ established' = FALSE
      /\ enabled' = FALSE
  BY DEF Deactivate
<1>2. TypeOK'
  BY <1>1 DEF BInv, TypeOK, poolVars, localVars, historyVars
<1>3. Window'
  BY <1>1 DEF BInv, Window, Open, poolVars
<1>4. \A c \in Context : Working(c)'
  BY <1>1 DEF BInv, Working, Open, poolVars, localVars
<1>5. MainLoop'
  BY <1>1 DEF BInv, MainLoop, poolVars, localVars
<1> QED
  BY <1>2, <1>3, <1>4, <1>5 DEF BInv

(* An answer begins like any other field.                                  *)
LEMMA ReplyKeeps == ASSUME BInv, Reply PROVE BInv'
<1>1. 0 \in Context /\ Begin(0)
  BY Sizes DEF Reply
<1>2. TypeOK'
  BY <1>1, BeginTyped DEF BInv, TypeOK, Reply, poolVars, sessionVars, historyVars
<1>3. Window'
  BY DEF BInv, Window, Open, Reply, poolVars, sessionVars
<1>4. \A d \in Context : Working(d)'
  BY DEF BInv, TypeOK, Working, Open, Reply, At, Begin, Goto, poolVars
<1>5. MainLoop'
  BY Sizes DEF BInv, TypeOK, MainLoop, Reply, At, Begin, Goto, poolVars, sessionVars
<1> QED
  BY <1>2, <1>3, <1>4, <1>5 DEF BInv

(* A new session takes the held batch away from the transport.             *)
LEMMA ActivateKeeps == ASSUME BInv, Activate PROVE BInv'
<1>1. /\ held' = NoSlot
      /\ held # NoSlot => held \in Slot /\ written' = [written EXCEPT ![held] = 0]
      /\ held = NoSlot => written' = written
      /\ UNCHANGED <<in, out, locked, span, myIn, mySize>>
      /\ pc' = [pc EXCEPT ![0] = "clear"] /\ pc[0] = "idle"
  BY DEF Activate, Release, Goto, At, BInv, TypeOK
<1>2. written' \in [Slot -> 0 .. BatchSize]
  <2>1. 0 \in 0 .. BatchSize
    BY Sizes
  <2> QED
    BY <1>1, <2>1 DEF BInv, TypeOK
<1>3. dropped' \subseteq Field
  <2>1. ASSUME held \in Slot PROVE Fields(held) \subseteq Field
    BY <2>1, Sizes DEF Fields, BInv, TypeOK
  <2> QED
    BY <1>1, <2>1 DEF Activate, BInv, TypeOK
<1>4. TypeOK'
  BY <1>1, <1>2, <1>3 DEF BInv, TypeOK, Activate, Label
<1>5. Window'
  BY <1>1 DEF BInv, TypeOK, Window, Open
<1>6. /\ pc'[0] = "clear" /\ ~locked'
      /\ \A c \in Context : c # 0 => pc'[c] = "idle"
  BY <1>1, Alone, Sizes DEF Activate, BInv, TypeOK, MainLoop
<1>7. \A c \in Context : Working(c)'
  BY <1>6, Sizes DEF Working
<1>8. MainLoop'
  BY <1>1, <1>6, Sizes DEF MainLoop
<1> QED
  BY <1>4, <1>5, <1>7, <1>8 DEF BInv

(* clear() finds no interrupt active and locks the others out.             *)
LEMMA ClearKeeps == ASSUME BInv, Clear PROVE BInv'
<1>1. /\ myIn' = [myIn EXCEPT ![0] = in] /\ locked' = TRUE
      /\ held = NoSlot
      /\ UNCHANGED <<in, out, written, held>>
  BY DEF Clear, Lock, At, poolVars, sessionVars, BInv, MainLoop
<1>2. /\ pc' \in [Context -> Label] /\ pc'[0] = "reset"
      /\ \A d \in Context : d # 0 => pc'[d] = pc[d]
  BY GotoTyped, Sizes DEF Clear, Label
<1>3. \A c \in Context : c # 0 => pc'[c] = "idle"
  BY <1>2, Alone, Sizes DEF Clear
<1>4. TypeOK'
  <2>1. myIn' \in [Context -> Nat] /\ locked' \in BOOLEAN
    BY <1>1 DEF BInv, TypeOK
  <2> QED
    BY <1>2, <2>1, SMTT(30) DEF BInv, TypeOK, Clear, sessionVars, historyVars
<1>5. Window'
  BY <1>1 DEF BInv, Window, Open
<1>6. \A c \in Context : Working(c)'
  BY <1>2, <1>3, Sizes DEF Working
<1>7. MainLoop'
  BY <1>1, <1>2, <1>3, Sizes DEF MainLoop, BInv, TypeOK
<1> QED
  BY <1>4, <1>5, <1>6, <1>7 DEF BInv

(* Every open batch is reset, so every batch is empty.                     *)
LEMMA ResetKeeps == ASSUME BInv, Reset PROVE BInv'
<1>1. /\ myIn[0] = in /\ held = NoSlot /\ locked
      /\ UNCHANGED <<in, out, locked, held, myIn>>
      /\ \A c \in Context : c > 0 => pc[c] = "idle"
  BY DEF Reset, At, sessionVars, BInv, MainLoop
<1>2. /\ pc' \in [Context -> Label] /\ pc'[0] = "empty"
      /\ \A d \in Context : d # 0 => pc'[d] = pc[d]
  BY GotoTyped, Sizes DEF Reset, Label
<1>3. \A c \in Context : c # 0 => pc'[c] = "idle"
  BY <1>1, <1>2, Sizes
<1>4. written' = [s \in Slot |-> 0]
  <2>1. \A s \in Slot : ~Open(s) => written[s] = 0
    BY <1>1, NoSlotApart DEF BInv, Window
  <2>2. written' = [s \in Slot |-> IF Open(s) THEN 0 ELSE written[s]]
    BY <1>1 DEF Reset, Open
  <2> QED
    BY <2>1, <2>2
<1>5. dropped' \subseteq Field
  <2>1. \A s \in Slot : Fields(s) \subseteq Field
    BY Sizes DEF Fields, BInv, TypeOK
  <2> QED
    BY <2>1 DEF Pooled, Reset, BInv, TypeOK
<1>6. TypeOK'
  <2>1. written' \in [Slot -> 0 .. BatchSize]
    BY <1>4, Sizes
  <2> QED
    BY <1>2, <1>5, <2>1 DEF BInv, TypeOK, Reset, sessionVars
<1>7. Window'
  BY <1>1, <1>4 DEF BInv, Window
<1>8. \A c \in Context : Working(c)'
  BY <1>2, <1>3, Sizes DEF Working
<1>9. MainLoop'
  BY <1>1, <1>2, <1>3, <1>4, Sizes DEF MainLoop
<1> QED
  BY <1>6, <1>7, <1>8, <1>9 DEF BInv

(* The empty pool is opened again.                                         *)
LEMMA EmptyKeeps == ASSUME BInv, Empty PROVE BInv'
<1>1. /\ myIn[0] = in /\ held = NoSlot /\ in \in Nat /\ Batches \in Nat /\ Batches >= 2
      /\ out' = in /\ locked' = FALSE /\ UNCHANGED <<in, held, written>>
      /\ \A s \in Slot : written[s] = 0
      /\ \A c \in Context : c > 0 => pc[c] = "idle"
  BY Sizes DEF Empty, At, sessionVars, BInv, TypeOK, MainLoop
<1>2. /\ pc' \in [Context -> Label] /\ pc'[0] = "start"
      /\ \A d \in Context : d # 0 => pc'[d] = pc[d]
  BY GotoTyped, Sizes DEF Empty, Label
<1>3. \A c \in Context : c # 0 => pc'[c] = "idle"
  BY <1>1, <1>2, Sizes
<1>4. TypeOK'
  <2>1. in \in Nat /\ out' \in Nat /\ epoch' \in Nat
    BY <1>1 DEF Empty, BInv, TypeOK
  <2>2. locked' \in BOOLEAN /\ established' \in BOOLEAN /\ enabled' \in BOOLEAN
    BY Zenon DEF BInv, TypeOK, Empty, sessionVars
  <2>3. UNCHANGED <<data, myIn, mySize, span, field, made, sent, accepted, dropped>>
    BY DEF Empty
  <2> QED
    BY <1>1, <1>2, <2>1, <2>2, <2>3 DEF BInv, TypeOK
<1>5. Window'
  BY <1>1 DEF Window
<1>6. \A c \in Context : Working(c)'
  BY <1>2, <1>3, Sizes DEF Working
<1>7. MainLoop'
  BY <1>1, <1>2, <1>3, Sizes DEF MainLoop
<1> QED
  BY <1>4, <1>5, <1>6, <1>7 DEF BInv

(* The session is up and begins its first answer.                          *)
LEMMA EstablishKeeps == ASSUME BInv, Establish PROVE BInv'
<1>1. /\ 0 \in Context /\ Begin(0) /\ held = NoSlot /\ ~locked
      /\ UNCHANGED <<in, out, locked, written, data, held, myIn>>
  BY Sizes DEF Establish, At, poolVars, BInv, MainLoop
<1>2. /\ pc' \in [Context -> Label] /\ pc'[0] = "load"
      /\ \A d \in Context : d # 0 => pc'[d] = pc[d]
  BY <1>1, BeginTyped
<1>3. \A c \in Context : c # 0 => pc'[c] = "idle"
  BY <1>2, Alone, Sizes DEF Establish
<1>4. TypeOK'
  BY <1>1, BeginTyped DEF BInv, TypeOK, Establish, poolVars, historyVars
<1>5. Window'
  BY <1>1 DEF BInv, Window, Open
<1>6. \A c \in Context : Working(c)'
  BY <1>2, <1>3, Sizes DEF Working
<1>7. MainLoop'
  BY <1>1, <1>2, <1>3, Sizes DEF MainLoop
<1> QED
  BY <1>4, <1>5, <1>6, <1>7 DEF BInv

(* ------------------------------- theorems ------------------------------ *)

(* The invariant holds of every pool: whatever an interrupt does between   *)
(* two steps of another context or of the main loop, open batches and the  *)
(* held one stay apart, and every reservation lies in an open batch.       *)
THEOREM PoolInvariant == Spec => []BInv
<1>1. BInv /\ [Next]_vars => BInv'
  <2> SUFFICES ASSUME BInv, [Next]_vars PROVE BInv'
    OBVIOUS
  <2>1. CASE UNCHANGED vars
    <3>1. UNCHANGED <<poolVars, sessionVars, localVars, historyVars>>
      BY <2>1 DEF vars
    <3>2. TypeOK'
      BY <3>1 DEF BInv, TypeOK, poolVars, sessionVars, localVars, historyVars
    <3>3. Window' /\ MainLoop' /\ \A c \in Context : Working(c)'
      BY <3>1 DEF BInv, Window, MainLoop, Working, Open, poolVars, sessionVars,
                  localVars
    <3> QED
      BY <3>2, <3>3 DEF BInv
  <2>2. CASE \E c \in Context :
                \/ Interrupt(c) \/ LoadIn(c) \/ LoadSize(c) \/ Take(c)
                \/ Refuse(c) \/ OpenBatch(c) \/ Fill(c)
    BY <2>2, InterruptKeeps, LoadInKeeps, LoadSizeKeeps, TakeKeeps, RefuseKeeps,
       OpenBatchKeeps, FillKeeps
  <2>3. CASE \/ PopBatch \/ StoreOut \/ Transmit \/ FinishBatch \/ Deactivate \/ Reply
             \/ Activate \/ Clear \/ Reset \/ Empty \/ Establish
    BY <2>3, PopBatchKeeps, StoreOutKeeps, TransmitKeeps, FinishBatchKeeps,
       DeactivateKeeps, ReplyKeeps, ActivateKeeps, ClearKeeps, ResetKeeps,
       EmptyKeeps, EstablishKeeps
  <2> QED
    BY <2>1, <2>2, <2>3 DEF Next
<1> QED
  BY <1>1, InitPool, PTL DEF Spec

(* No batch is ever written beyond its end.                                *)
THEOREM PoolTypes == Spec => []TypeOK
<1>1. BInv => TypeOK
  BY DEF BInv
<1> QED
  BY <1>1, PoolInvariant, PTL

(* No producer writes the batch in the transport's hands.                  *)
THEOREM HeldStands == Spec => HeldFrozen
<1>1. BInv /\ [Next]_vars
        => [held # NoSlot /\ held' = held => Bytes(held)' = Bytes(held)]_vars
  <2> SUFFICES ASSUME BInv, [Next]_vars, held # NoSlot, held' = held
               PROVE  written'[held] = written[held] /\ data'[held] = data[held]
    BY DEF Bytes
  <2>1. held \in Slot /\ ~Open(held)
    BY HeldApart DEF BInv, TypeOK
  <2>2. ASSUME NEW c \in Context, Take(c)
        PROVE  written'[held] = written[held] /\ data'[held] = data[held]
    <3>1. Newest(c) \in Slot /\ Newest(c) # held
      BY <2>1, <2>2, NewestOpen DEF Take, At
    <3> QED
      BY <2>1, <2>2, <3>1 DEF Take, BInv, TypeOK
  <2>3. ASSUME NEW c \in Context, Fill(c)
        PROVE  written'[held] = written[held] /\ data'[held] = data[held]
    <3>1. span[c].slot # held
      BY <2>1, <2>3 DEF Fill, At, BInv, Working
    <3> QED
      BY <2>1, <2>3, <3>1 DEF Fill, BInv, TypeOK
  <2>4. ASSUME NEW c \in Context, Interrupt(c) \/ LoadIn(c) \/ LoadSize(c) \/ Refuse(c)
                                  \/ OpenBatch(c)
        PROVE  UNCHANGED <<written, data>>
    BY <2>4 DEF Interrupt, LoadIn, LoadSize, Refuse, OpenBatch, poolVars
  <2>5. ~FinishBatch /\ ~Reset /\ ~Activate /\ ~StoreOut
    BY DEF FinishBatch, Reset, Activate, StoreOut, At, BInv, MainLoop
  <2>6. CASE \/ PopBatch \/ Transmit \/ Deactivate \/ Reply \/ Clear \/ Empty
             \/ Establish \/ UNCHANGED vars
    BY <2>6 DEF PopBatch, Transmit, Deactivate, Reply, Clear, Empty, Establish,
                poolVars, vars
  <2> QED
    BY <2>2, <2>3, <2>4, <2>5, <2>6 DEF Next
<1> QED
  BY <1>1, PoolInvariant, PTL DEF Spec, HeldFrozen

(* ------------------------- no empty batch stays ------------------------ *)

(* A step that fills or drops nothing open, and after which whoever was    *)
(* under way still is.                                                     *)
LEMMA NewestFrame ==
    ASSUME BInv, OnlyNewestEmpty,
           in' = in, out' \in Nat, out <= out', out' <= in,
           \A i \in out' .. (in - 1) : written'[SlotOf(i)] # 0 \/ written'[SlotOf(i)] = written[SlotOf(i)],
           \A c \in Context : pc[c] \in {"load", "size", "take"} => pc'[c] = pc[c] /\ myIn'[c] = myIn[c],
           \A c \in Context : pc'[c] = "open" => pc[c] = "open" /\ myIn'[c] = myIn[c],
           pc[0] # "empty"
    PROVE  OnlyNewestEmpty'
<1>1. in \in Nat /\ out \in Nat
  BY DEF BInv, TypeOK
<1>2. \A i \in out' .. (in - 1) : i \in out .. (in - 1)
  BY <1>1
<1>3. ASSUME NEW i \in out' .. (in' - 1), written'[SlotOf(i)] = 0
      PROVE  /\ i = in' - 1
             /\ \E c \in Context : \/ pc'[c] = "load"
                                   \/ pc'[c] \in {"size", "take"} /\ myIn'[c] = in'
  <2>1. i \in out .. (in - 1) /\ written[SlotOf(i)] = 0
    BY <1>2, <1>3
  <2>2. i = in - 1
    BY <2>1 DEF OnlyNewestEmpty
  <2>3. PICK c \in Context : pc[c] = "load" \/ (pc[c] \in {"size", "take"} /\ myIn[c] = in)
    BY <2>1 DEF OnlyNewestEmpty
  <2>4. pc'[c] = pc[c] /\ myIn'[c] = myIn[c]
    BY <2>3
  <2> QED
    BY <2>2, <2>3, <2>4
<1>4. ASSUME NEW c \in Context, pc'[c] = "open", myIn'[c] = in', in' # out'
      PROVE  written'[SlotOf(in' - 1)] # 0
  <2>1. pc[c] = "open" /\ myIn[c] = in /\ in # out
    BY <1>1, <1>4
  <2>2. written[SlotOf(in - 1)] # 0
    BY <2>1 DEF OnlyNewestEmpty
  <2>3. in - 1 \in out' .. (in - 1)
    BY <1>1, <1>4
  <2> QED
    BY <2>2, <2>3
<1> QED
  BY <1>3, <1>4, Zenon DEF OnlyNewestEmpty

(* A context that was looking for room either still is, or has used it.    *)
LEMMA NewestProducer ==
    ASSUME BInv, OnlyNewestEmpty, NEW c \in Context,
           LoadIn(c) \/ LoadSize(c) \/ Take(c) \/ OpenBatch(c)
    PROVE  OnlyNewestEmpty'
<1>1. /\ in \in Nat /\ out \in Nat /\ out <= in /\ myIn[c] \in Nat /\ out' = out
      /\ \A d \in Context : d # c => pc'[d] = pc[d] /\ myIn'[d] = myIn[d]
      /\ pc'[c] \in Label
  BY DEF BInv, TypeOK, Window, Label, LoadIn, LoadSize, Take, OpenBatch, Goto, poolVars
<1>2. pc[0] # "empty" /\ pc'[0] # "empty"
  <2>1. pc[0] # "empty"
    BY NotEmptying DEF LoadIn, LoadSize, Take, OpenBatch, At
  <2>2. pc'[c] \in {"size", "open", "take", "fill", "load"}
    BY DEF BInv, TypeOK, LoadIn, LoadSize, Take, OpenBatch, Goto
  <2> QED
    BY <1>1, <2>1, <2>2, Sizes
<1>3. CASE LoadIn(c)
  <2>1. /\ UNCHANGED <<in, out, written>> /\ pc[c] = "load" /\ myIn'[c] = in
        /\ pc'[c] = IF in = out THEN "open" ELSE "size"
    BY <1>3 DEF LoadIn, At, Goto, BInv, TypeOK, poolVars
  <2>2. CASE in = out
    <3>1. out' .. (in' - 1) = {}
      BY <1>1, <2>1, <2>2
    <3> QED
      BY <2>1, <2>2, <3>1 DEF OnlyNewestEmpty
  <2>3. CASE in # out
    <3>1. ASSUME NEW i \in out' .. (in' - 1), written'[SlotOf(i)] = 0
          PROVE  i = in' - 1
      BY <1>2, <2>1, <3>1 DEF OnlyNewestEmpty
    <3>2. pc'[c] = "size" /\ myIn'[c] = in'
      BY <2>1, <2>3
    <3>3. ASSUME NEW d \in Context, pc'[d] = "open", myIn'[d] = in', in' # out'
          PROVE  written'[SlotOf(in' - 1)] # 0
      BY <1>1, <2>1, <3>2, <3>3 DEF OnlyNewestEmpty
    <3> QED
      BY <3>1, <3>2, <3>3 DEF OnlyNewestEmpty
  <2> QED
    BY <2>2, <2>3
<1>4. CASE LoadSize(c)
  <2>1. /\ UNCHANGED <<in, out, written, myIn>> /\ pc[c] = "size"
        /\ pc'[c] = IF BatchSize - written[Newest(c)] < FieldSize[c] THEN "open" ELSE "take"
    BY <1>4 DEF LoadSize, At, Goto, BInv, TypeOK, poolVars
  <2>2. written[Newest(c)] = 0 => pc'[c] = "take"
    BY <2>1, Sizes
  <2>3. ASSUME NEW i \in out' .. (in' - 1), written'[SlotOf(i)] = 0
        PROVE  /\ i = in' - 1
               /\ \E d \in Context : \/ pc'[d] = "load"
                                     \/ pc'[d] \in {"size", "take"} /\ myIn'[d] = in'
    <3>1. i \in out .. (in - 1) /\ written[SlotOf(i)] = 0
      BY <2>1, <2>3
    <3>2. i = in - 1
      BY <1>2, <3>1 DEF OnlyNewestEmpty
    <3>3. PICK d \in Context : pc[d] = "load" \/ (pc[d] \in {"size", "take"} /\ myIn[d] = in)
      BY <1>2, <3>1 DEF OnlyNewestEmpty
    <3>4. CASE d = c
      <4>1. myIn[c] = in
        BY <2>1, <3>3, <3>4
      <4>2. Newest(c) = SlotOf(i)
        BY <3>2, <4>1 DEF Newest
      <4> QED
        BY <2>1, <2>2, <3>1, <3>2, <4>1, <4>2
    <3>5. CASE d # c
      BY <1>1, <2>1, <3>2, <3>3, <3>5
    <3> QED
      BY <3>4, <3>5
  <2>4. ASSUME NEW d \in Context, pc'[d] = "open", myIn'[d] = in', in' # out'
        PROVE  written'[SlotOf(in' - 1)] # 0
    <3>1. CASE d = c
      <4>1. Newest(c) = SlotOf(in - 1)
        BY <2>1, <2>4, <3>1 DEF Newest
      <4> QED
        BY <2>1, <2>2, <2>4, <3>1, <4>1
    <3>2. CASE d # c
      BY <1>1, <2>1, <2>4, <3>2 DEF OnlyNewestEmpty
    <3> QED
      BY <3>1, <3>2
  <2> QED
    BY <2>3, <2>4, Zenon DEF OnlyNewestEmpty
<1>5. CASE Take(c)
  <2>1. /\ UNCHANGED <<in, out, myIn>> /\ pc[c] = "take" /\ Newest(c) \in Slot
        /\ pc'[c] \in {"fill", "size"}
        /\ written[Newest(c)] \in Nat /\ FieldSize[c] \in Nat /\ FieldSize[c] >= 1
    <3>1. UNCHANGED <<in, out, myIn>> /\ pc[c] = "take"
      BY <1>5 DEF Take, At
    <3>2. Newest(c) \in Slot
      BY <3>1, NewestOpen
    <3>3. pc'[c] \in {"fill", "size"}
      BY <1>5 DEF Take, Goto, BInv, TypeOK
    <3>4. written[Newest(c)] \in Nat
      BY <3>2, Sizes DEF BInv, TypeOK
    <3>5. FieldSize[c] \in Nat /\ FieldSize[c] >= 1
      BY Sizes
    <3> QED
      BY <3>1, <3>2, <3>3, <3>4, <3>5
  <2>2. \A s \in Slot : written'[s] # 0 \/ written'[s] = written[s]
    <3>1. CASE written[Newest(c)] = mySize[c]
      <4>1. written' = [written EXCEPT ![Newest(c)] = @ + FieldSize[c]]
        BY <1>5, <3>1 DEF Take
      <4>2. written[Newest(c)] + FieldSize[c] # 0
        BY <2>1
      <4> QED
        BY <2>1, <4>1, <4>2 DEF BInv, TypeOK
    <3>2. CASE written[Newest(c)] # mySize[c]
      BY <1>5, <3>2 DEF Take
    <3> QED
      BY <3>1, <3>2
  <2>3. pc'[c] = "fill" => written'[Newest(c)] # 0
    <3>1. CASE written[Newest(c)] = mySize[c]
      <4>1. written' = [written EXCEPT ![Newest(c)] = @ + FieldSize[c]]
        BY <1>5, <3>1 DEF Take
      <4>2. written[Newest(c)] + FieldSize[c] # 0
        BY <2>1
      <4> QED
        BY <2>1, <4>1, <4>2 DEF BInv, TypeOK
    <3>2. CASE written[Newest(c)] # mySize[c]
      <4>1. pc'[c] = "size"
        BY <1>5, <3>2 DEF Take, Goto, BInv, TypeOK
      <4> QED
        BY <4>1
    <3> QED
      BY <3>1, <3>2
  <2>4. \A i \in Nat : SlotOf(i) \in Slot
    BY SlotIn
  <2>5. ASSUME NEW i \in out' .. (in' - 1), written'[SlotOf(i)] = 0
        PROVE  /\ i = in' - 1
               /\ \E d \in Context : \/ pc'[d] = "load"
                                     \/ pc'[d] \in {"size", "take"} /\ myIn'[d] = in'
    <3>1. i \in out .. (in - 1) /\ i \in Nat /\ SlotOf(i) \in Slot
      BY <1>1, <2>1, <2>4, <2>5
    <3>2. written[SlotOf(i)] = 0
      BY <2>2, <2>5, <3>1
    <3>3. i = in - 1
      BY <1>2, <3>1, <3>2 DEF OnlyNewestEmpty
    <3>4. PICK d \in Context : pc[d] = "load" \/ (pc[d] \in {"size", "take"} /\ myIn[d] = in)
      BY <1>2, <3>1, <3>2 DEF OnlyNewestEmpty
    <3>5. CASE d = c
      <4>1. Newest(c) = SlotOf(i) /\ myIn[c] = in
        BY <2>1, <3>3, <3>4, <3>5 DEF Newest
      <4>2. pc'[c] = "size"
        BY <2>1, <2>3, <2>5, <4>1
      <4> QED
        BY <2>1, <3>3, <4>1, <4>2
    <3>6. CASE d # c
      BY <1>1, <2>1, <3>3, <3>4, <3>6
    <3> QED
      BY <3>5, <3>6
  <2>6. ASSUME NEW d \in Context, pc'[d] = "open", myIn'[d] = in', in' # out'
        PROVE  written'[SlotOf(in' - 1)] # 0
    <3>1. d # c
      BY <2>1, <2>6
    <3>2. written[SlotOf(in - 1)] # 0
      BY <1>1, <2>1, <2>6, <3>1 DEF OnlyNewestEmpty
    <3>3. in - 1 \in Nat
      BY <1>1, <2>1, <2>6
    <3> QED
      BY <2>1, <2>2, <2>4, <3>2, <3>3
  <2> QED
    BY <2>5, <2>6, Zenon DEF OnlyNewestEmpty
<1>6. CASE OpenBatch(c)
  <2>1. /\ UNCHANGED <<out, written, myIn>> /\ pc[c] = "open" /\ pc'[c] = "load"
        /\ in' = IF in = myIn[c] THEN in + 1 ELSE in
        /\ out <= myIn[c] /\ myIn[c] <= in
    BY <1>6 DEF OpenBatch, At, Goto, BInv, TypeOK, Working
  <2>2. ASSUME NEW i \in out' .. (in' - 1), written'[SlotOf(i)] = 0
        PROVE  i = in' - 1
    <3>1. CASE in' = in
      BY <1>2, <2>1, <2>2, <3>1 DEF OnlyNewestEmpty
    <3>2. CASE in = myIn[c] /\ in' = in + 1
      <4>1. CASE i = in
        BY <1>1, <3>2, <4>1
      <4>2. CASE i # in
        <5>1. i \in out .. (in - 1) /\ in # out
          BY <1>1, <2>1, <2>2, <3>2, <4>2
        <5>2. i = in - 1
          BY <1>2, <2>1, <2>2, <5>1 DEF OnlyNewestEmpty
        <5>3. written[SlotOf(in - 1)] # 0
          BY <2>1, <3>2, <5>1 DEF OnlyNewestEmpty
        <5> QED
          BY <2>1, <2>2, <5>2, <5>3
      <4> QED
        BY <4>1, <4>2
    <3> QED
      BY <2>1, <3>1, <3>2
  <2>3. ASSUME NEW d \in Context, pc'[d] = "open", myIn'[d] = in', in' # out'
        PROVE  written'[SlotOf(in' - 1)] # 0
    <3>1. d # c /\ pc[d] = "open" /\ myIn[d] = in'
      BY <1>1, <2>1, <2>3
    <3>2. in' = in
      <4>1. myIn[d] <= in /\ myIn[d] \in Nat
        BY <3>1 DEF BInv, TypeOK, Working
      <4> QED
        BY <1>1, <2>1, <3>1, <4>1
    <3> QED
      BY <2>1, <2>3, <3>1, <3>2 DEF OnlyNewestEmpty
  <2> QED
    BY <2>1, <2>2, <2>3 DEF OnlyNewestEmpty
<1> QED
  BY <1>3, <1>4, <1>5, <1>6

(* Every other step leaves the producers and the open batches alone, or    *)
(* finds none.                                                             *)
LEMMA NewestStep ==
    ASSUME BInv, BInv', OnlyNewestEmpty, [Next]_vars PROVE OnlyNewestEmpty'
<1>1. /\ in \in Nat /\ out \in Nat /\ out <= in /\ 0 \in Context
      /\ \A i \in out .. (in - 1) : SlotOf(i) \in Slot /\ SlotOf(i) # held
  <2>1. in \in Nat /\ out \in Nat /\ out <= in /\ 0 \in Context
    BY Sizes DEF BInv, TypeOK, Window
  <2>2. ASSUME NEW i \in out .. (in - 1) PROVE SlotOf(i) \in Slot /\ SlotOf(i) # held
    <3>1. i \in Nat
      BY <2>1, <2>2
    <3> QED
      BY <3>1, SlotIn, HeldApart, NoSlotApart DEF Open
  <2> QED
    BY <2>1, <2>2
<1>2. ASSUME NEW c \in Context, Interrupt(c) \/ Refuse(c) \/ Fill(c)
      PROVE  OnlyNewestEmpty'
  <2>1. UNCHANGED <<in, out, written, myIn>>
    BY <1>2 DEF Interrupt, Refuse, Fill, poolVars
  <2>2. pc[c] \in {"idle", "open", "fill"} /\ pc'[c] \in {"load", "idle"}
        /\ \A d \in Context : d # c => pc'[d] = pc[d]
    BY <1>2 DEF Interrupt, Begin, Refuse, Fill, Return, At, Goto, BInv, TypeOK
  <2>3. pc[0] # "empty"
    <3>1. CASE Interrupt(c)
      BY <3>1, Sizes DEF Interrupt, At, BInv, MainLoop
    <3>2. CASE Refuse(c) \/ Fill(c)
      BY <3>2, NotEmptying DEF Refuse, Fill, At
    <3> QED
      BY <1>2, <3>1, <3>2
  <2> QED
    BY <1>1, <2>1, <2>2, <2>3, NewestFrame
<1>3. CASE PopBatch \/ Transmit \/ Deactivate \/ Reply \/ Clear \/ Establish \/ UNCHANGED vars
  <2>1. UNCHANGED <<in, out, written>>
    BY <1>3 DEF PopBatch, Transmit, Deactivate, Reply, Clear, Establish, poolVars, vars
  <2>2. /\ \A d \in Context : pc[d] \in {"load", "size", "take"} => pc'[d] = pc[d] /\ myIn'[d] = myIn[d]
        /\ \A d \in Context : pc'[d] = "open" => pc[d] = "open" /\ myIn'[d] = myIn[d]
    BY <1>1, <1>3 DEF PopBatch, Transmit, Deactivate, Reply, Clear, Establish, Begin, At, Goto,
                      localVars, vars, BInv, TypeOK
  <2>3. CASE pc[0] # "empty"
    BY <1>1, <2>1, <2>2, <2>3, NewestFrame
  <2>4. CASE pc[0] = "empty"
    <3>1. UNCHANGED vars
      BY <1>3, <2>4 DEF PopBatch, Transmit, Deactivate, Reply, Clear, Establish, At
    <3> QED
      BY <2>1, <3>1 DEF OnlyNewestEmpty, vars, localVars
  <2> QED
    BY <2>3, <2>4
<1>4. CASE StoreOut
  <2>1. /\ UNCHANGED <<in, written, myIn>> /\ out' = out + 1 /\ in # out
        /\ pc[0] = "pop" /\ pc'[0] = "idle" /\ \A d \in Context : d # 0 => pc'[d] = pc[d]
    BY <1>1, <1>4 DEF StoreOut, At, Goto, BInv, TypeOK, MainLoop
  <2> QED
    BY <1>1, <2>1, NewestFrame
<1>5. CASE FinishBatch \/ Activate
  <2>1. /\ UNCHANGED <<in, out, myIn>>
        /\ pc[0] \in {"release", "idle"} /\ pc'[0] \in {"idle", "clear"}
        /\ \A d \in Context : d # 0 => pc'[d] = pc[d]
    BY <1>1, <1>5 DEF FinishBatch, Activate, At, Goto, BInv, TypeOK
  <2>2. \A s \in Slot : s # held => written'[s] = written[s]
    BY <1>5 DEF FinishBatch, Activate, Release, BInv, TypeOK
  <2> QED
    BY <1>1, <2>1, <2>2, NewestFrame
<1>6. CASE Reset
  <2>1. pc'[0] = "empty" /\ \A d \in Context : pc'[d] # "open"
    <3>1. \A d \in Context : d # 0 => pc[d] = "idle"
      BY <1>6, Alone, Sizes DEF Reset
    <3>2. pc'[0] = "empty" /\ \A d \in Context : d # 0 => pc'[d] = pc[d]
      BY <1>1, <1>6 DEF Reset, Goto, BInv, TypeOK
    <3> QED
      BY <3>1, <3>2
  <2> QED
    BY <2>1 DEF OnlyNewestEmpty
<1>7. CASE Empty
  <2>1. in' = in /\ out' = in
    BY <1>7 DEF Empty, At, BInv, MainLoop
  <2>2. out' .. (in' - 1) = {}
    BY <1>1, <2>1
  <2> QED
    BY <2>1, <2>2 DEF OnlyNewestEmpty
<1> QED
  BY <1>2, <1>3, <1>4, <1>5, <1>6, <1>7, NewestProducer DEF Next

(* No context leaves an empty batch behind, which would stop pop_batch.    *)
THEOREM NoneEmpty == Spec => []NoEmptyBatch
<1>1. Init => OnlyNewestEmpty
  BY DEF Init, OnlyNewestEmpty
<1>2. BInv /\ BInv' /\ OnlyNewestEmpty /\ [Next]_vars => OnlyNewestEmpty'
  BY NewestStep
<1>3. OnlyNewestEmpty => NoEmptyBatch
  BY Sizes DEF OnlyNewestEmpty, NoEmptyBatch
<1> QED
  BY <1>1, <1>2, <1>3, PoolInvariant, PTL DEF Spec

(* ----------------------- the line and its cells ------------------------ *)

(* The batches of the line lie in slots of their own.                      *)
LEMMA LiveIn ==
    ASSUME BInv, NEW b \in Live
    PROVE  /\ b \in Nat /\ SlotOf(b) \in Slot
           /\ out - 1 <= b /\ b < in
           /\ b < out => b = out - 1 /\ held # NoSlot /\ held = SlotOf(b) /\ pc[0] # "release"
<1>1. /\ in \in Nat /\ out \in Nat /\ out <= in
      /\ held # NoSlot => out >= 1 /\ held = SlotOf(out - 1)
  BY DEF BInv, TypeOK, Window
<1>2. b \in out .. (in - 1) \/ (b = out - 1 /\ held # NoSlot /\ pc[0] # "release")
  BY DEF Live
<1>3. b \in Nat /\ out - 1 <= b /\ b < in
  BY <1>1, <1>2
<1>4. b < out => b = out - 1 /\ held # NoSlot /\ held = SlotOf(b) /\ pc[0] # "release"
  BY <1>1, <1>2
<1> QED
  BY <1>3, <1>4, SlotIn

(* Two batches of the line never share a slot.                             *)
LEMMA LiveApart ==
    ASSUME BInv, NEW b \in Live, NEW d \in Live, SlotOf(b) = SlotOf(d)
    PROVE  b = d
<1>1. /\ b \in Nat /\ d \in Nat /\ out - 1 <= b /\ out - 1 <= d /\ b < in /\ d < in
  BY LiveIn
<1>2. in \in Nat /\ out \in Nat /\ in - out <= Batches - 1 /\ Batches \in Nat /\ Batches > 0
  BY Sizes DEF BInv, TypeOK, Window
<1>3. b < d + Batches /\ d < b + Batches
  BY <1>1, <1>2
<1>4. b % Batches = d % Batches
  BY DEF SlotOf
<1> QED
  BY <1>1, <1>2, <1>3, <1>4, SlotsDiffer

(* A cell holds what was written to it, or the field it is reserved for.   *)
LEMMA CellIs ==
    ASSUME Reserved, NEW slot \in Slot, NEW i \in 0 .. (BatchSize - 1)
    PROVE  /\ \A c \in Context : Pends(c, slot, i) => Cell(slot, i) = field[c]
           /\ (\A c \in Context : ~Pends(c, slot, i)) => Cell(slot, i) = data[slot][i]
<1>1. ASSUME NEW c \in Context, Pends(c, slot, i) PROVE Cell(slot, i) = field[c]
  <2> DEFINE d == CHOOSE d \in Context : Pends(d, slot, i)
  <2>1. d \in Context /\ Pends(d, slot, i)
    BY <1>1
  <2> HIDE DEF d
  <2>2. d = c
    BY <1>1, <2>1 DEF Reserved
  <2> QED
    BY <1>1, <2>2 DEF Cell, d
<1>2. (\A c \in Context : ~Pends(c, slot, i)) => Cell(slot, i) = data[slot][i]
  BY DEF Cell
<1> QED
  BY <1>1, <1>2

(* The same of the next state.                                             *)
LEMMA CellIsNext ==
    ASSUME Reserved', NEW slot \in Slot, NEW i \in 0 .. (BatchSize - 1)
    PROVE  /\ \A c \in Context : Pends(c, slot, i)' => Cell(slot, i)' = field'[c]
           /\ (\A c \in Context : ~Pends(c, slot, i)') => Cell(slot, i)' = data'[slot][i]
<1> DEFINE Will(c) == /\ pc'[c] = "fill" /\ span'[c].slot = slot
                      /\ i \in span'[c].from .. (span'[c].from + FieldSize[c] - 1)
           d == CHOOSE d \in Context : Will(d)
<1>1. \A c \in Context : Pends(c, slot, i)' <=> Will(c)
  BY DEF Pends
<1>2. Cell(slot, i)' = IF \E c \in Context : Will(c) THEN field'[d] ELSE data'[slot][i]
  BY DEF Cell, Pends
<1>3. ASSUME NEW c \in Context, Will(c) PROVE d = c
  <2>1. d \in Context /\ Will(d)
    BY <1>3
  <2> HIDE DEF d
  <2>2. \A e \in Context : Will(e) => e = c
    BY <1>3 DEF Reserved, Pends
  <2> QED
    BY <2>1, <2>2
<1> HIDE DEF d, Will
<1>4. \A c \in Context : Will(c) => Cell(slot, i)' = field'[c]
  BY <1>2, <1>3
<1>5. (\A c \in Context : ~Will(c)) => Cell(slot, i)' = data'[slot][i]
  BY <1>2
<1> QED
  BY <1>1, <1>4, <1>5, Zenon

(* What the line holds are fields.                                         *)
LEMMA LineTyped ==
    ASSUME BInv, Reserved, NEW b \in Live, NEW i \in Filled(b)
    PROVE  /\ i \in 0 .. (BatchSize - 1) /\ i \in Nat
           /\ Line(b, i) \in Field /\ Line(b, i).by \in Context /\ Line(b, i).n \in Nat
           /\ FieldSize[Line(b, i).by] \in 1 .. BatchSize
<1>1. SlotOf(b) \in Slot /\ written[SlotOf(b)] \in 0 .. BatchSize /\ BatchSize \in Nat
  BY LiveIn, Sizes DEF BInv, TypeOK
<1>2. i \in 0 .. (BatchSize - 1) /\ i \in Nat
  BY <1>1 DEF Filled
<1>3. Cell(SlotOf(b), i) \in Field
  <2>1. CASE \E c \in Context : Pends(c, SlotOf(b), i)
    BY <1>1, <1>2, <2>1, CellIs DEF BInv, TypeOK
  <2>2. CASE \A c \in Context : ~Pends(c, SlotOf(b), i)
    <3>1. Cell(SlotOf(b), i) = data[SlotOf(b)][i]
      BY <1>1, <1>2, <2>2, CellIs
    <3>2. data[SlotOf(b)] \in [0 .. (BatchSize - 1) -> Field]
      BY <1>1 DEF BInv, TypeOK
    <3> QED
      BY <1>2, <3>1, <3>2
  <2> QED
    BY <2>1, <2>2
<1> QED
  BY <1>2, <1>3, Sizes DEF Line, Field

(* Where nobody is filling, the cells hold what was written to them.       *)
LEMMA NothingPends ==
    ASSUME \A c \in Context : pc[c] # "fill"
    PROVE  \A slot, i : Cell(slot, i) = data[slot][i]
  BY DEF Cell, Pends

(* Reservations that stay keep their cells.                                *)
LEMMA CellStays ==
    ASSUME Reserved, data' = data,
           \A c \in Context : pc'[c] = "fill" <=> pc[c] = "fill",
           \A c \in Context : pc[c] = "fill" => /\ field'[c] = field[c] /\ span'[c] = span[c]
                                                /\ written'[span[c].slot] = written[span[c].slot]
    PROVE  /\ Reserved'
           /\ \A slot \in Slot, i \in 0 .. (BatchSize - 1) : Cell(slot, i)' = Cell(slot, i)
<1>1. \A c \in Context : \A slot, i : Pends(c, slot, i)' <=> Pends(c, slot, i)
  BY DEF Pends
<1>2. Reserved'
  <2>1. \A c \in Context : pc'[c] = "fill" => span'[c].from + FieldSize[c] <= written'[span'[c].slot]
    BY DEF Reserved
  <2> QED
    BY <1>1, <2>1 DEF Reserved
<1>3. ASSUME NEW slot \in Slot, NEW i \in 0 .. (BatchSize - 1)
      PROVE  Cell(slot, i)' = Cell(slot, i)
  <2>1. CASE \E c \in Context : Pends(c, slot, i)
    <3>1. PICK c \in Context : Pends(c, slot, i)
      BY <2>1
    <3>2. field'[c] = field[c]
      BY <3>1 DEF Pends
    <3> QED
      BY <1>1, <1>2, <3>1, <3>2, CellIs, CellIsNext
  <2>2. CASE \A c \in Context : ~Pends(c, slot, i)
    BY <1>1, <1>2, <2>2, CellIs, CellIsNext
  <2> QED
    BY <2>1, <2>2
<1> QED
  BY <1>2, <1>3

(* ----------------------- what leaves the line -------------------------- *)

(* If batches leave the line as a whole, what remains is still whole and   *)
(* in order.                                                               *)
LEMMA LineLeaves ==
    ASSUME BInv, Reserved, Whole, Ordered, NEW Gone,
           \A b, i : b \in Live' /\ i \in Filled(b)' <=> b \in Live /\ i \in Filled(b) /\ b \notin Gone,
           \A b \in Live : \A i \in Filled(b) : b \notin Gone => Line(b, i)' = Line(b, i)
    PROVE  Whole' /\ Ordered'
<1>1. ASSUME NEW b \in Live', NEW i \in Filled(b)'
      PROVE  \E first \in Filled(b)' :
                /\ first + FieldSize[Line(b, i)'.by] - 1 \in Filled(b)'
                /\ \A d \in Live' : \A j \in Filled(d)' :
                      Line(d, j)' = Line(b, i)'
                         <=> d = b /\ j \in first .. (first + FieldSize[Line(b, i)'.by] - 1)
  <2>1. b \in Live /\ i \in Filled(b) /\ b \notin Gone /\ Line(b, i)' = Line(b, i)
    BY <1>1
  <2>2. PICK first \in Filled(b) :
           /\ first + FieldSize[Line(b, i).by] - 1 \in Filled(b)
           /\ \A d \in Live : \A j \in Filled(d) :
                 Line(d, j) = Line(b, i)
                    <=> d = b /\ j \in first .. (first + FieldSize[Line(b, i).by] - 1)
    BY <2>1 DEF Whole
  <2>3. first \in Filled(b)' /\ first + FieldSize[Line(b, i)'.by] - 1 \in Filled(b)'
    BY <2>1, <2>2
  <2>4. ASSUME NEW d \in Live', NEW j \in Filled(d)'
        PROVE  Line(d, j)' = Line(b, i)'
                  <=> d = b /\ j \in first .. (first + FieldSize[Line(b, i)'.by] - 1)
    <3>1. d \in Live /\ j \in Filled(d) /\ Line(d, j)' = Line(d, j)
      BY <2>4
    <3> QED
      BY <2>1, <2>2, <3>1
  <2> QED
    BY <2>3, <2>4
<1>2. Ordered'
  BY DEF Ordered
<1> QED
  BY <1>1, <1>2, Zenon DEF Whole

(* What was sent stays as it was while the line only gets shorter.         *)
LEMMA SentStays ==
    ASSUME Behind, SentExact, sent' = sent, accepted \subseteq accepted',
           \A b, i : b \in Live' /\ i \in Filled(b)' =>
                        b \in Live /\ i \in Filled(b) /\ Line(b, i)' = Line(b, i)
    PROVE  Behind' /\ SentExact'
<1>1. Behind'
  BY DEF Behind
<1>2. ASSUME NEW k \in 1 .. Len(sent)
      PROVE  LET f == sent[k]
                 cells == {j \in 1 .. Len(sent) : sent[j] = f}
             IN  /\ f \in accepted'
                 /\ \E first \in 1 .. Len(sent) : cells = first .. (first + FieldSize[f.by] - 1)
                 /\ \A j \in 1 .. (k - 1) : sent[j].by = f.by => sent[j].n <= f.n
  BY DEF SentExact
<1>3. SentExact'
  BY <1>2, Zenon DEF SentExact
<1> QED
  BY <1>1, <1>3

(* A field that was accepted stays, or leaves for the dropped ones.        *)
LEMMA KeptStays ==
    ASSUME Kept, sent' = sent, dropped \subseteq dropped', NEW Gone,
           \A b \in Live : \A i \in Filled(b) :
              IF b \in Gone THEN Line(b, i) \in dropped'
              ELSE b \in Live' /\ i \in Filled(b)' /\ Line(b, i)' = Line(b, i),
           \A f \in accepted' : f \in accepted \/ \E b \in Live' : \E i \in Filled(b)' : Line(b, i)' = f
    PROVE  Kept'
<1> SUFFICES ASSUME NEW f \in accepted'
             PROVE  \/ f \in dropped'
                    \/ \E k \in 1 .. Len(sent') : sent'[k] = f
                    \/ \E b \in Live' : \E i \in Filled(b)' : Line(b, i)' = f
  BY Zenon DEF Kept
<1>1. CASE f \in accepted
  <2>1. CASE \E b \in Live : \E i \in Filled(b) : Line(b, i) = f
    <3>1. PICK b \in Live : \E i \in Filled(b) : Line(b, i) = f
      BY <2>1
    <3>2. PICK i \in Filled(b) : Line(b, i) = f
      BY <3>1
    <3> QED
      BY <3>2
  <2>2. CASE f \in dropped \/ \E k \in 1 .. Len(sent) : sent[k] = f
    BY <2>2
  <2> QED
    BY <1>1, <2>1, <2>2 DEF Kept
<1> QED
  BY <1>1

(* ---------------------- steps that leave the line ---------------------- *)

(* A context that begins a field, or gives one up, renumbers nothing.      *)
LEMMA NumberedStays ==
    ASSUME BInv, Numbered, NEW c \in Context,
           \A b, i : b \in Live' /\ i \in Filled(b)' =>
                        b \in Live /\ i \in Filled(b) /\ Line(b, i)' = Line(b, i),
           \A b \in Live : \A i \in Filled(b) : Line(b, i).by \in Context /\ Line(b, i).n \in Nat,
           epoch' = epoch, accepted' = accepted,
           \A d \in Context : d # c => pc'[d] = pc[d] /\ made'[d] = made[d] /\ field'[d] = field[d],
           pc[c] # "fill", pc'[c] # "fill",
           \/ made'[c] = made[c] /\ field'[c] = field[c] /\ (Seeking(c)' => Seeking(c))
           \/ made'[c] = made[c] + 1 /\ field'[c] = [by |-> c, n |-> made[c] + 1, epoch |-> epoch]
    PROVE  Numbered'
<1>1. made \in [Context -> Nat] /\ accepted \subseteq Field
  BY DEF BInv, TypeOK
<1>2. \A d \in Context : d # c => (Seeking(d)' <=> Seeking(d))
  BY DEF Seeking
<1>3. ASSUME NEW d \in Context, Seeking(d)' \/ pc'[d] = "fill"
      PROVE  field'[d] = [by |-> d, n |-> made'[d], epoch |-> epoch']
  <2>1. CASE d = c
    BY <1>3, <2>1 DEF Numbered
  <2>2. CASE d # c
    BY <1>2, <1>3, <2>2 DEF Numbered
  <2> QED
    BY <2>1, <2>2
<1>4. ASSUME NEW f \in accepted'
      PROVE  f.n <= made'[f.by] /\ (pc'[f.by] \in {"load", "size", "take", "open"} \/ pc'[f.by] = "fill" => f.n < made'[f.by])
  <2>1. f \in accepted /\ f.by \in Context /\ f.n \in Nat /\ made[f.by] \in Nat
    BY <1>1 DEF Field
  <2>2. f.n <= made[f.by] /\ (Seeking(f.by) \/ pc[f.by] = "fill" => f.n < made[f.by])
    BY <2>1 DEF Numbered
  <2>3. CASE f.by = c
    BY <2>1, <2>2, <2>3 DEF Seeking
  <2>4. CASE f.by # c
    BY <1>2, <2>1, <2>2, <2>4 DEF Seeking
  <2> QED
    BY <2>3, <2>4
<1>5. ASSUME NEW b \in Live', NEW i \in Filled(b)'
      PROVE  LET f == Line(b, i)'
             IN  /\ f.n <= made'[f.by] /\ f.epoch = epoch'
                 /\ pc'[f.by] \in {"load", "size", "take", "open"} => f.n < made'[f.by]
                 /\ f \in accepted' \/ (pc'[f.by] = "fill" /\ f = field'[f.by])
  <2> DEFINE f == Line(b, i)
  <2>1. /\ f.by \in Context /\ f.n \in Nat /\ made[f.by] \in Nat /\ Line(b, i)' = f
        /\ f.n <= made[f.by] /\ f.epoch = epoch
        /\ Seeking(f.by) => f.n < made[f.by]
        /\ f \in accepted \/ (pc[f.by] = "fill" /\ f = field[f.by])
    BY <1>1, <1>5 DEF Numbered
  <2> HIDE DEF f
  <2>2. CASE f.by = c
    BY <2>1, <2>2 DEF Seeking
  <2>3. CASE f.by # c
    BY <1>2, <2>1, <2>3 DEF Seeking
  <2> QED
    BY <2>1, <2>2, <2>3
<1> QED
  BY <1>3, <1>4, <1>5, Zenon DEF Numbered, Seeking

(* A context that loads in_ has the whole line before it.                  *)
LEMMA ReachingStays ==
    ASSUME BInv, Reaching,
           \A b, i : b \in Live' /\ i \in Filled(b)' =>
                        b \in Live /\ i \in Filled(b) /\ Line(b, i)' = Line(b, i),
           \A d \in Context : pc'[d] \in {"size", "take"} =>
                 \/ pc[d] \in {"size", "take"} /\ myIn'[d] = myIn[d]
                 \/ myIn'[d] = in
    PROVE  Reaching'
  BY LiveIn DEF Reaching

(* Where only the place of a context changes, the line stays as it is.     *)
LEMMA QuietStep ==
    ASSUME BInv, LineInv, NEW c \in Context,
           \A b, i : b \in Live' /\ i \in Filled(b)' <=> b \in Live /\ i \in Filled(b),
           UNCHANGED <<data, span, epoch, sent, accepted, dropped>>,
           \A d \in Context : d # c => pc'[d] = pc[d] /\ made'[d] = made[d] /\ field'[d] = field[d],
           pc[c] # "fill", pc'[c] # "fill",
           \/ made'[c] = made[c] /\ field'[c] = field[c] /\ (Seeking(c)' => Seeking(c))
           \/ made'[c] = made[c] + 1 /\ field'[c] = [by |-> c, n |-> made[c] + 1, epoch |-> epoch],
           \A d \in Context : pc[d] = "fill" => written'[span[d].slot] = written[span[d].slot],
           \A d \in Context : pc'[d] \in {"size", "take"} =>
                 \/ pc[d] \in {"size", "take"} /\ myIn'[d] = myIn[d]
                 \/ myIn'[d] = in
    PROVE  LineInv'
<1> DEFINE Gone == {}
<1>1. Reserved /\ Numbered /\ Whole /\ Ordered /\ Reaching /\ Behind /\ Kept /\ SentExact
  BY DEF LineInv
<1>2. /\ \A d \in Context : pc'[d] = "fill" <=> pc[d] = "fill"
      /\ \A d \in Context : pc[d] = "fill" => /\ field'[d] = field[d] /\ span'[d] = span[d]
                                              /\ written'[span[d].slot] = written[span[d].slot]
  OBVIOUS
<1>3. /\ Reserved'
      /\ \A slot \in Slot, i \in 0 .. (BatchSize - 1) : Cell(slot, i)' = Cell(slot, i)
  BY <1>1, <1>2, CellStays
<1>4. \A b \in Live : \A i \in Filled(b) :
         Line(b, i)' = Line(b, i) /\ Line(b, i).by \in Context /\ Line(b, i).n \in Nat
  BY <1>1, <1>3, LiveIn, LineTyped DEF Line
<1>5. Whole' /\ Ordered'
  <2>1. /\ \A b, i : b \in Live' /\ i \in Filled(b)' <=> b \in Live /\ i \in Filled(b) /\ b \notin Gone
        /\ \A b \in Live : \A i \in Filled(b) : b \notin Gone => Line(b, i)' = Line(b, i)
    BY <1>4
  <2> HIDE DEF Gone
  <2> QED
    BY <1>1, <2>1, LineLeaves
<1>6. \A b, i : b \in Live' /\ i \in Filled(b)' =>
                   b \in Live /\ i \in Filled(b) /\ Line(b, i)' = Line(b, i)
  BY <1>4
<1>7. Behind' /\ SentExact'
  BY <1>1, <1>6, SentStays
<1>8. Kept'
  <2>1. /\ \A b \in Live : \A i \in Filled(b) :
             IF b \in Gone THEN Line(b, i) \in dropped'
             ELSE b \in Live' /\ i \in Filled(b)' /\ Line(b, i)' = Line(b, i)
        /\ \A f \in accepted' : f \in accepted
        /\ dropped \subseteq dropped' /\ sent' = sent
    BY <1>4
  <2> HIDE DEF Gone
  <2> QED
    BY <1>1, <2>1, KeptStays
<1>9. Numbered'
  BY <1>1, <1>4, <1>6, NumberedStays
<1>10. Reaching'
  BY <1>1, <1>6, ReachingStays
<1> QED
  BY <1>3, <1>5, <1>7, <1>8, <1>9, <1>10 DEF LineInv

(* Whoever does not touch the indices or the sizes leaves the line there.  *)
LEMMA SamePlaces ==
    ASSUME UNCHANGED <<in, out, held, written>>, pc'[0] = "release" <=> pc[0] = "release"
    PROVE  \A b, i : b \in Live' /\ i \in Filled(b)' <=> b \in Live /\ i \in Filled(b)
  BY DEF Live, Filled

(* A context begins a field.                                               *)
LEMMA BeginLine ==
    ASSUME BInv, LineInv, NEW c \in Context, Begin(c), pc[c] \in {"idle", "start"},
           UNCHANGED <<poolVars, held, myIn, mySize, span, historyVars>>
    PROVE  LineInv'
<1>1. /\ pc'[c] = "load" /\ \A d \in Context : d # c => pc'[d] = pc[d]
      /\ made'[c] = made[c] + 1 /\ field'[c] = [by |-> c, n |-> made[c] + 1, epoch |-> epoch]
      /\ \A d \in Context : d # c => made'[d] = made[d] /\ field'[d] = field[d]
  BY BeginTyped DEF Begin, NewField, BInv, TypeOK
<1>2. pc'[0] = "release" <=> pc[0] = "release"
  BY <1>1, Sizes
<1>3. UNCHANGED <<in, out, held, written, data, span, myIn, epoch, sent, accepted, dropped>>
  BY DEF poolVars, historyVars
<1>4. \A b, i : b \in Live' /\ i \in Filled(b)' <=> b \in Live /\ i \in Filled(b)
  BY <1>2, <1>3, SamePlaces
<1> QED
  BY <1>1, <1>3, <1>4, QuietStep

(* A context that looks for room and finds none, or is overtaken, or looks *)
(* for another batch.                                                      *)
LEMMA SeekLine ==
    ASSUME BInv, LineInv, NEW c \in Context,
           \/ LoadIn(c) \/ LoadSize(c) \/ Refuse(c) \/ OpenBatch(c)
           \/ Take(c) /\ written[Newest(c)] # mySize[c]
    PROVE  LineInv'
<1>1. /\ UNCHANGED <<out, held, written, data, span, field, made, epoch, sent, accepted, dropped>>
      /\ pc[c] \in {"load", "size", "open", "take"}
      /\ \A d \in Context : d # c => myIn'[d] = myIn[d]
  BY DEF LoadIn, LoadSize, Refuse, OpenBatch, Take, At, poolVars, sessionVars, historyVars,
         BInv, TypeOK
<1>2. /\ pc'[c] \in {"open", "size", "take", "idle", "load"}
      /\ \A d \in Context : d # c => pc'[d] = pc[d]
      /\ pc'[c] \in {"size", "take"} =>
            \/ pc[c] \in {"size", "take"} /\ myIn'[c] = myIn[c]
            \/ myIn'[c] = in
  BY DEF LoadIn, LoadSize, Refuse, OpenBatch, Take, At, Goto, Return, BInv, TypeOK
<1>3. pc'[0] = "release" <=> pc[0] = "release"
  BY <1>1, <1>2, Sizes
<1>4. \A b, i : b \in Live' /\ i \in Filled(b)' <=> b \in Live /\ i \in Filled(b)
  <2>1. CASE in' = in
    BY <1>1, <1>3, <2>1, SamePlaces
  <2>2. CASE in' # in
    <3>1. /\ in' = in + 1 /\ in \in Nat /\ out \in Nat /\ out <= in /\ in - out <= Batches - 1
          /\ Batches \in Nat /\ Batches > 0 /\ in - out # Batches - 1
      BY <2>2, Sizes DEF LoadIn, LoadSize, Refuse, OpenBatch, Take, Writable, poolVars, BInv,
                         TypeOK, Window
    <3>2. written[SlotOf(in)] = 0
      <4>1. SlotOf(in) \in Slot
        BY <3>1, SlotIn
      <4>2. ~Open(SlotOf(in))
        <5> SUFFICES ASSUME NEW i \in out .. (in - 1), SlotOf(in) = SlotOf(i) PROVE FALSE
          BY DEF Open
        <5>1. i \in Nat /\ in < i + Batches /\ i < in + Batches /\ in # i
          BY <3>1
        <5> QED
          BY <3>1, <5>1, SlotsDiffer DEF SlotOf
      <4>3. SlotOf(in) # held
        <5> SUFFICES ASSUME SlotOf(in) = held PROVE FALSE
          OBVIOUS
        <5>1. out >= 1 /\ held = SlotOf(out - 1)
          BY <4>1, NoSlotApart DEF BInv, Window
        <5> DEFINE a == out - 1
        <5>2. a \in Nat /\ in < a + Batches /\ a < in + Batches /\ in # a
          BY <3>1, <5>1
        <5>3. in % Batches = a % Batches
          BY <5>1 DEF SlotOf
        <5> HIDE DEF a
        <5> QED
          BY <3>1, <5>2, <5>3, SlotsDiffer
      <4> QED
        BY <4>1, <4>2, <4>3 DEF BInv, Window
    <3>3. \A b : b = in => Filled(b) = {}
      BY <3>2 DEF Filled
    <3>4. \A b : b \in Live' <=> b \in Live \/ b = in
      BY <1>1, <1>3, <3>1 DEF Live
    <3>5. \A b : Filled(b)' = Filled(b)
      BY <1>1, Zenon DEF Filled
    <3> QED
      BY <3>3, <3>4, <3>5
  <2> QED
    BY <2>1, <2>2
<1>5. Seeking(c)
  BY <1>1 DEF Seeking
<1> QED
  BY <1>1, <1>2, <1>4, <1>5, QuietStep

(* ------------------- steps that fill the line -------------------------- *)

(* The field was in the line since its room was reserved: filling it       *)
(* changes no cell.                                                        *)
LEMMA FillCells ==
    ASSUME BInv, Reserved, NEW c \in Context, Fill(c)
    PROVE  /\ Reserved'
           /\ \A slot \in Slot, i \in 0 .. (BatchSize - 1) : Cell(slot, i)' = Cell(slot, i)
<1>1. /\ pc[c] = "fill" /\ pc'[c] = "idle" /\ \A d \in Context : d # c => pc'[d] = pc[d]
      /\ UNCHANGED <<span, field, written>>
      /\ \A slot \in Slot, i \in 0 .. (BatchSize - 1) :
            data'[slot][i] = IF Pends(c, slot, i) THEN field[c] ELSE data[slot][i]
  BY DEF Fill, At, Goto, Return, Pends, BInv, TypeOK
<1>2. \A d \in Context : \A slot, i : Pends(d, slot, i)' <=> d # c /\ Pends(d, slot, i)
  BY <1>1 DEF Pends
<1>3. Reserved'
  <2>1. \A d \in Context : pc'[d] = "fill" => span'[d].from + FieldSize[d] <= written'[span'[d].slot]
    BY <1>1 DEF Reserved
  <2> QED
    BY <1>2, <2>1 DEF Reserved
<1>4. ASSUME NEW slot \in Slot, NEW i \in 0 .. (BatchSize - 1)
      PROVE  Cell(slot, i)' = Cell(slot, i)
  <2>1. CASE Pends(c, slot, i)
    <3>1. \A d \in Context : ~Pends(d, slot, i)'
      BY <1>2, <2>1 DEF Reserved
    <3> QED
      BY <1>1, <1>3, <2>1, <3>1, CellIs, CellIsNext
  <2>2. CASE ~Pends(c, slot, i) /\ \E d \in Context : Pends(d, slot, i)
    <3>1. PICK d \in Context : Pends(d, slot, i) /\ d # c
      BY <2>2
    <3> QED
      BY <1>1, <1>2, <1>3, <3>1, CellIs, CellIsNext
  <2>3. CASE \A d \in Context : ~Pends(d, slot, i)
    BY <1>1, <1>2, <1>3, <2>3, CellIs, CellIsNext
  <2> QED
    BY <2>1, <2>2, <2>3
<1> QED
  BY <1>3, <1>4

(* A context fills its field.                                              *)
LEMMA FillLine ==
    ASSUME BInv, LineInv, NEW c \in Context, Fill(c)
    PROVE  LineInv'
<1> DEFINE Gone == {}
<1>1. Reserved /\ Numbered /\ Whole /\ Ordered /\ Reaching /\ Behind /\ Kept /\ SentExact
  BY DEF LineInv
<1>2. /\ Reserved'
      /\ \A slot \in Slot, i \in 0 .. (BatchSize - 1) : Cell(slot, i)' = Cell(slot, i)
  BY <1>1, FillCells
<1>3. /\ UNCHANGED <<in, out, held, written, span, field, made, myIn, epoch, sent, dropped>>
      /\ accepted' = accepted \cup {field[c]}
      /\ pc[c] = "fill" /\ pc'[c] = "idle" /\ \A d \in Context : d # c => pc'[d] = pc[d]
  BY DEF Fill, At, Goto, Return, BInv, TypeOK
<1>4. \A b, i : b \in Live' /\ i \in Filled(b)' <=> b \in Live /\ i \in Filled(b)
  BY <1>3, SamePlaces, Sizes
<1>5. \A b \in Live : \A i \in Filled(b) :
         Line(b, i)' = Line(b, i) /\ Line(b, i).by \in Context /\ Line(b, i).n \in Nat
  BY <1>1, <1>2, LiveIn, LineTyped DEF Line
<1>6. Whole' /\ Ordered'
  <2>1. /\ \A b, i : b \in Live' /\ i \in Filled(b)' <=> b \in Live /\ i \in Filled(b) /\ b \notin Gone
        /\ \A b \in Live : \A i \in Filled(b) : b \notin Gone => Line(b, i)' = Line(b, i)
    BY <1>4, <1>5
  <2> HIDE DEF Gone
  <2> QED
    BY <1>1, <2>1, LineLeaves
<1>7. \A b, i : b \in Live' /\ i \in Filled(b)' =>
                   b \in Live /\ i \in Filled(b) /\ Line(b, i)' = Line(b, i)
  BY <1>4, <1>5
<1>8. Behind' /\ SentExact'
  BY <1>1, <1>3, <1>7, SentStays
<1>9. \E b \in Live' : \E i \in Filled(b)' : Line(b, i)' = field[c]
  <2>1. /\ Open(span[c].slot) /\ span[c].slot \in Slot /\ span[c].from \in 0 .. BatchSize
        /\ span[c].from + FieldSize[c] <= written[span[c].slot]
        /\ written[span[c].slot] \in 0 .. BatchSize
        /\ FieldSize[c] \in 1 .. BatchSize /\ BatchSize \in Nat
    BY <1>1, <1>3, Sizes DEF BInv, TypeOK, Working, Reserved
  <2>2. PICK b \in out .. (in - 1) : span[c].slot = SlotOf(b)
    BY <2>1 DEF Open
  <2> DEFINE i == span[c].from
  <2>3. b \in Live /\ i \in Filled(b) /\ i \in 0 .. (BatchSize - 1)
    BY <2>1, <2>2 DEF Live, Filled
  <2>4. Pends(c, span[c].slot, i)
    BY <1>3, <2>1 DEF Pends
  <2>5. Cell(span[c].slot, i) = field[c]
    BY <1>1, <2>1, <2>3, <2>4, CellIs
  <2>6. Line(b, i) = field[c]
    BY <2>2, <2>5 DEF Line
  <2> HIDE DEF i
  <2> QED
    BY <1>4, <1>5, <2>3, <2>6
<1>10. Kept'
  <2>1. /\ \A b \in Live : \A i \in Filled(b) :
             IF b \in Gone THEN Line(b, i) \in dropped'
             ELSE b \in Live' /\ i \in Filled(b)' /\ Line(b, i)' = Line(b, i)
        /\ \A f \in accepted' : f \in accepted \/ \E b \in Live' : \E i \in Filled(b)' : Line(b, i)' = f
        /\ dropped \subseteq dropped' /\ sent' = sent
    BY <1>3, <1>4, <1>5, <1>9
  <2> HIDE DEF Gone
  <2> QED
    BY <1>1, <2>1, KeptStays
<1>11. Numbered'
  <2>1. made \in [Context -> Nat] /\ accepted \subseteq Field
    BY DEF BInv, TypeOK
  <2>2. \A d \in Context : d # c => (Seeking(d)' <=> Seeking(d))
    BY <1>3 DEF Seeking
  <2>3. ~Seeking(c)' /\ field[c] = [by |-> c, n |-> made[c], epoch |-> epoch]
    BY <1>1, <1>3 DEF Seeking, Numbered
  <2>4. ASSUME NEW d \in Context, Seeking(d)' \/ pc'[d] = "fill"
        PROVE  field'[d] = [by |-> d, n |-> made'[d], epoch |-> epoch']
    BY <1>1, <1>3, <2>2, <2>3, <2>4 DEF Numbered
  <2>5. ASSUME NEW f \in accepted'
        PROVE  /\ f.n <= made'[f.by]
               /\ pc'[f.by] \in {"load", "size", "take", "open"} \/ pc'[f.by] = "fill" => f.n < made'[f.by]
    <3>1. CASE f = field[c]
      BY <1>3, <2>1, <2>3, <3>1
    <3>2. CASE f \in accepted
      <4>1. f.by \in Context /\ f.n <= made[f.by] /\ (Seeking(f.by) \/ pc[f.by] = "fill" => f.n < made[f.by])
        BY <1>1, <2>1, <3>2 DEF Numbered, Field
      <4> QED
        BY <1>3, <4>1 DEF Seeking
    <3> QED
      BY <1>3, <2>5, <3>1, <3>2
  <2>6. ASSUME NEW b \in Live', NEW i \in Filled(b)'
        PROVE  LET f == Line(b, i)'
               IN  /\ f.n <= made'[f.by] /\ f.epoch = epoch'
                   /\ pc'[f.by] \in {"load", "size", "take", "open"} => f.n < made'[f.by]
                   /\ f \in accepted' \/ (pc'[f.by] = "fill" /\ f = field'[f.by])
    <3> DEFINE f == Line(b, i)
    <3>1. /\ f.by \in Context /\ f.n \in Nat /\ Line(b, i)' = f
          /\ f.n <= made[f.by] /\ f.epoch = epoch
          /\ Seeking(f.by) => f.n < made[f.by]
          /\ f \in accepted \/ (pc[f.by] = "fill" /\ f = field[f.by])
      BY <1>1, <1>5, <1>7, <2>6 DEF Numbered
    <3> HIDE DEF f
    <3>2. CASE f.by = c
      BY <1>3, <3>1, <3>2
    <3>3. CASE f.by # c
      BY <1>3, <3>1, <3>3 DEF Seeking
    <3> QED
      BY <3>1, <3>2, <3>3
  <2> QED
    BY <2>4, <2>5, <2>6, Zenon DEF Numbered, Seeking
<1>12. Reaching'
  BY <1>1, <1>3, <1>7, ReachingStays
<1> QED
  BY <1>2, <1>6, <1>8, <1>10, <1>11, <1>12 DEF LineInv

(* A context reserves room for its field, which is new to the line, after  *)
(* everything in the batch.                                                *)
LEMMA TakePlaces ==
    ASSUME BInv, LineInv, NEW c \in Context, Take(c), written[Newest(c)] = mySize[c],
           NEW newest, newest = myIn[c] - 1,
           NEW from, from = mySize[c], NEW last, last = from + FieldSize[c] - 1
    PROVE  /\ newest \in Live /\ from \in Nat /\ last \in Nat /\ from <= last
           /\ written[SlotOf(newest)] = from
           /\ \A b, i : b \in Live' /\ i \in Filled(b)' <=>
                  b \in Live /\ (i \in Filled(b) \/ (b = newest /\ i \in from .. last))
           /\ \A b \in Live : \A i \in Filled(b) : Line(b, i)' = Line(b, i)
           /\ \A i \in from .. last : Line(newest, i)' = field[c]
           /\ Reserved'
<1> DEFINE slot0 == SlotOf(newest)
<1>0. Newest(c) = slot0 /\ from = mySize[c]
  BY DEF Newest
<1> HIDE DEF slot0
<1>1. /\ pc[c] = "take" /\ pc'[c] = "fill" /\ \A d \in Context : d # c => pc'[d] = pc[d]
      /\ UNCHANGED <<in, out, held, data, field>>
      /\ written' = [written EXCEPT ![slot0] = from + FieldSize[c]]
      /\ span' = [span EXCEPT ![c] = [slot |-> slot0, from |-> from]]
      /\ written[slot0] = from
  <2>1. UNCHANGED <<in, out, held, data, field>>
    BY DEF Take, sessionVars
  <2>2. pc[c] = "take" /\ pc'[c] = "fill" /\ \A d \in Context : d # c => pc'[d] = pc[d]
    BY DEF Take, At, Goto, BInv, TypeOK
  <2>3. /\ written' = [written EXCEPT ![slot0] = from + FieldSize[c]]
        /\ span' = [span EXCEPT ![c] = [slot |-> slot0, from |-> from]]
        /\ written[slot0] = from
    BY <1>0 DEF Take
  <2> QED
    BY <2>1, <2>2, <2>3
<1>2. /\ out < myIn[c] /\ myIn[c] <= in /\ from \in Nat /\ FieldSize[c] \in Nat /\ FieldSize[c] >= 1
      /\ from + FieldSize[c] <= BatchSize /\ BatchSize \in Nat
      /\ in \in Nat /\ out \in Nat /\ myIn[c] \in Nat
  <2>1. /\ in \in Nat /\ out \in Nat /\ myIn[c] \in Nat /\ from \in Nat /\ BatchSize \in Nat
        /\ FieldSize[c] \in Nat /\ FieldSize[c] >= 1
    BY Sizes DEF BInv, TypeOK
  <2>2. Working(c)
    BY DEF BInv
  <2> QED
    BY <1>1, <2>1, <2>2 DEF Working
<1>3. newest \in out .. (in - 1) /\ newest \in Live /\ newest \in Nat
  BY <1>2 DEF Live
<1>4. slot0 \in Slot /\ slot0 = SlotOf(newest) /\ written \in [Slot -> 0 .. BatchSize] /\ span \in [Context -> [slot : Slot, from : 0 .. BatchSize]]
  BY <1>3, SlotIn DEF BInv, TypeOK, slot0
<1>5. last \in Nat /\ from <= last /\ from + FieldSize[c] - 1 = last
  BY <1>2
<1>6. Live' = Live
  <2>1. pc'[0] = "release" <=> pc[0] = "release"
    BY <1>1, Sizes
  <2> QED
    BY <1>1, <2>1 DEF Live
<1>7. \A b \in Live : b # newest => SlotOf(b) # slot0
  BY <1>3, <1>4, LiveApart
<1>8. \A b, i : b \in Live' /\ i \in Filled(b)' <=>
                  b \in Live /\ (i \in Filled(b) \/ (b = newest /\ i \in from .. last))
  <2>1. ASSUME NEW b \in Live, b # newest PROVE Filled(b)' = Filled(b)
    <3>1. SlotOf(b) # slot0 /\ SlotOf(b) \in Slot
      BY <1>7, <2>1, LiveIn
    <3>2. written'[SlotOf(b)] = written[SlotOf(b)]
      BY <1>1, <1>4, <3>1
    <3> QED
      BY <3>2 DEF Filled, SlotOf
  <2>2. ASSUME NEW b, b = newest
        PROVE  \A i : i \in Filled(b)' <=> i \in Filled(b) \/ i \in from .. last
    <3>1. Filled(b) = 0 .. (from - 1)
      BY <1>1, <1>4, <2>2 DEF Filled
    <3>2. written'[SlotOf(b)] = from + FieldSize[c]
      BY <1>1, <1>4, <2>2
    <3>3. Filled(b)' = 0 .. (from + FieldSize[c] - 1)
      BY <1>2, <3>2 DEF Filled
    <3> QED
      BY <1>2, <1>5, <3>1, <3>3
  <2> QED
    BY <1>3, <1>6, <2>1, <2>2
<1>9. \A d \in Context : \A slot, i :
         Pends(d, slot, i)' <=> \/ d # c /\ Pends(d, slot, i)
                                \/ d = c /\ slot = slot0 /\ i \in from .. last
  <2>1. \A slot, i : Pends(c, slot, i)' <=> slot = slot0 /\ i \in from .. last
    BY <1>1, <1>4, <1>5 DEF Pends
  <2>2. \A d \in Context : d # c => \A slot, i : Pends(d, slot, i)' <=> Pends(d, slot, i)
    BY <1>1, <1>4 DEF Pends
  <2> QED
    BY <2>1, <2>2
<1>10. \A d \in Context : \A i \in from .. last : ~Pends(d, slot0, i)
  <2> SUFFICES ASSUME NEW d \in Context, NEW i \in from .. last, Pends(d, slot0, i) PROVE FALSE
    OBVIOUS
  <2>1. /\ span[d].from + FieldSize[d] <= written[slot0]
        /\ i <= span[d].from + FieldSize[d] - 1 /\ span[d].from \in Nat /\ FieldSize[d] \in Nat
    BY <1>4, Sizes DEF Pends, LineInv, Reserved
  <2> QED
    BY <1>1, <1>2, <2>1
<1>11. Reserved'
  <2>1. ASSUME NEW d \in Context, pc'[d] = "fill"
        PROVE  span'[d].from + FieldSize[d] <= written'[span'[d].slot]
    <3>1. CASE d = c
      BY <1>1, <1>2, <1>4, <3>1
    <3>2. CASE d # c
      <4>1. /\ span'[d] = span[d] /\ span[d].from + FieldSize[d] <= written[span[d].slot]
            /\ span[d].slot \in Slot /\ span[d].from \in Nat /\ FieldSize[d] \in Nat
        BY <1>1, <1>4, <2>1, <3>2, Sizes DEF LineInv, Reserved
      <4>2. CASE span[d].slot = slot0
        BY <1>1, <1>2, <1>4, <4>1, <4>2
      <4>3. CASE span[d].slot # slot0
        BY <1>1, <1>4, <4>1, <4>3
      <4> QED
        BY <4>2, <4>3
    <3> QED
      BY <3>1, <3>2
  <2>2. ASSUME NEW d \in Context, NEW e \in Context, NEW slot \in Slot,
               NEW i \in 0 .. (BatchSize - 1), Pends(d, slot, i)', Pends(e, slot, i)'
        PROVE  d = e
    BY <1>9, <1>10, <2>2 DEF LineInv, Reserved
  <2> QED
    BY <2>1, <2>2 DEF Reserved
<1>12. ASSUME NEW b \in Live, NEW i \in Filled(b) PROVE Line(b, i)' = Line(b, i)
  <2> DEFINE slot == SlotOf(b)
  <2>1. slot \in Slot /\ i \in 0 .. (BatchSize - 1) /\ i \in Nat
    BY <1>12, LiveIn, LineTyped DEF LineInv
  <2>2. ~(slot = slot0 /\ i \in from .. last)
    BY <1>1, <1>2, <1>4 DEF Filled
  <2> HIDE DEF slot
  <2>3. Cell(slot, i)' = Cell(slot, i)
    <3>1. CASE \E d \in Context : Pends(d, slot, i)
      <4>1. PICK d \in Context : Pends(d, slot, i) /\ d # c
        BY <1>1, <3>1 DEF Pends
      <4> QED
        BY <1>1, <1>9, <1>11, <2>1, <4>1, CellIs, CellIsNext DEF LineInv
    <3>2. CASE \A d \in Context : ~Pends(d, slot, i)
      <4>1. \A d \in Context : ~Pends(d, slot, i)'
        BY <1>9, <2>2, <3>2
      <4> QED
        BY <1>1, <1>11, <2>1, <3>2, <4>1, CellIs, CellIsNext DEF LineInv
    <3> QED
      BY <3>1, <3>2
  <2> QED
    BY <2>3 DEF Line, slot
<1>13. ASSUME NEW i \in from .. last PROVE Line(newest, i)' = field[c]
  <2>1. i \in 0 .. (BatchSize - 1) /\ Pends(c, slot0, i)'
    BY <1>2, <1>9, <1>13
  <2>2. Cell(slot0, i)' = field[c]
    BY <1>1, <1>4, <1>11, <2>1, CellIsNext
  <2> QED
    BY <1>4, <2>2 DEF Line
<1> QED
  BY <1>1, <1>2, <1>3, <1>4, <1>5, <1>8, <1>11, <1>12, <1>13

(* What joins the line is one field, after the line it was in.             *)
LEMMA LineJoins ==
    ASSUME BInv, Reserved, Whole, Ordered,
           NEW g \in Field, NEW newest \in Live, NEW from \in Nat, NEW last \in Nat,
           written[SlotOf(newest)] = from, last = from + FieldSize[g.by] - 1, from <= last,
           \A b, i : b \in Live' /\ i \in Filled(b)' <=>
                        b \in Live /\ (i \in Filled(b) \/ (b = newest /\ i \in from .. last)),
           \A b \in Live : \A i \in Filled(b) : Line(b, i)' = Line(b, i),
           \A b : b = newest => \A i \in from .. last : Line(b, i)' = g,
           \A b \in Live : \A i \in Filled(b) :
              Line(b, i).by = g.by => Line(b, i).n < g.n /\ b <= newest
    PROVE  Whole' /\ Ordered'
<1> DEFINE New(b, i) == b = newest /\ i \in from .. last
<1>1. ASSUME NEW b \in Live, NEW i \in Filled(b)
      PROVE  /\ Line(b, i) \in Field /\ Line(b, i).n \in Nat /\ Line(b, i) # g
             /\ b \in Live' /\ i \in Filled(b)' /\ ~New(b, i) /\ i \in Nat
             /\ b = newest => i < from
  <2>1. Line(b, i) \in Field /\ Line(b, i).n \in Nat /\ i \in Nat
    BY <1>1, LineTyped
  <2>2. Line(b, i) # g
    BY <1>1, <2>1
  <2>3. b = newest => i < from
    BY <1>1, <2>1 DEF Filled
  <2> QED
    BY <1>1, <2>1, <2>2, <2>3
<1>2. ASSUME NEW b \in Live', NEW i \in Filled(b)'
      PROVE  /\ b \in Live /\ (i \in Filled(b) \/ New(b, i))
             /\ New(b, i) => Line(b, i)' = g
             /\ i \in Filled(b) => Line(b, i)' = Line(b, i)
  BY <1>2
<1>3. ASSUME NEW b \in Live', NEW i \in Filled(b)'
      PROVE  \E first \in Filled(b)' :
                /\ first + FieldSize[Line(b, i)'.by] - 1 \in Filled(b)'
                /\ \A d \in Live' : \A j \in Filled(d)' :
                      Line(d, j)' = Line(b, i)'
                         <=> d = b /\ j \in first .. (first + FieldSize[Line(b, i)'.by] - 1)
  <2>1. CASE i \in Filled(b)
    <3>1. b \in Live /\ Line(b, i)' = Line(b, i) /\ Line(b, i) # g
      BY <1>1, <1>2, <1>3, <2>1
    <3>2. PICK first \in Filled(b) :
             /\ first + FieldSize[Line(b, i).by] - 1 \in Filled(b)
             /\ \A d \in Live : \A j \in Filled(d) :
                   Line(d, j) = Line(b, i)
                      <=> d = b /\ j \in first .. (first + FieldSize[Line(b, i).by] - 1)
      BY <2>1, <3>1 DEF Whole
    <3> DEFINE end == first + FieldSize[Line(b, i).by] - 1
    <3>3. first \in Filled(b)' /\ end \in Filled(b)'
      BY <1>1, <3>1, <3>2
    <3>4. ASSUME NEW d \in Live', NEW j \in Filled(d)'
          PROVE  Line(d, j)' = Line(b, i) <=> d = b /\ j \in first .. end
      <4>1. CASE j \in Filled(d)
        BY <1>2, <3>2, <3>4, <4>1
      <4>2. CASE New(d, j)
        <5>1. Line(d, j)' # Line(b, i)
          BY <1>2, <3>1, <3>4, <4>2
        <5>2. b = newest => end < from /\ end \in Nat
          BY <1>1, <3>1, <3>2
        <5>3. ~(d = b /\ j \in first .. end)
          BY <4>2, <5>2
        <5> QED
          BY <5>1, <5>3
      <4> QED
        BY <1>2, <3>4, <4>1, <4>2
    <3> QED
      BY <3>1, <3>3, <3>4
  <2>2. CASE New(b, i)
    <3>1. Line(b, i)' = g
      BY <1>2, <1>3, <2>2
    <3>2. from \in Filled(b)' /\ last \in Filled(b)'
      BY <1>2, <1>3, <2>2
    <3>3. ASSUME NEW d \in Live', NEW j \in Filled(d)'
          PROVE  Line(d, j)' = g <=> d = b /\ j \in from .. last
      BY <1>1, <1>2, <2>2, <3>3
    <3> QED
      BY <3>1, <3>2, <3>3
  <2> QED
    BY <1>2, <1>3, <2>1, <2>2
<1>4. ASSUME NEW b \in Live', NEW d \in Live', NEW i \in Filled(b)', NEW j \in Filled(d)',
             b < d \/ (b = d /\ i <= j), Line(b, i)'.by = Line(d, j)'.by
      PROVE  Line(b, i)'.n <= Line(d, j)'.n
  <2>1. g.n \in Nat
    BY DEF Field
  <2>2. CASE i \in Filled(b) /\ j \in Filled(d)
    BY <1>2, <1>4, <2>2 DEF Ordered
  <2>3. CASE i \in Filled(b) /\ New(d, j)
    BY <1>1, <1>2, <1>4, <2>1, <2>3
  <2>4. CASE New(b, i) /\ New(d, j)
    BY <1>2, <1>4, <2>1, <2>4
  <2>5. CASE New(b, i) /\ j \in Filled(d)
    <3>1. d \in Live /\ d <= b /\ b \in Nat /\ d \in Nat
      BY <1>2, <1>4, <2>5, LiveIn
    <3>2. d = newest /\ i <= j
      BY <1>4, <2>5, <3>1
    <3> QED
      BY <1>1, <2>5, <3>1, <3>2
  <2> QED
    BY <1>2, <1>4, <2>2, <2>3, <2>4, <2>5
<1>5. Ordered'
  BY <1>4 DEF Ordered
<1> QED
  BY <1>3, <1>5, Zenon DEF Whole

(* A context reserves room: its field joins the line.                      *)
LEMMA TakeLine ==
    ASSUME BInv, LineInv, NEW c \in Context, Take(c), written[Newest(c)] = mySize[c]
    PROVE  LineInv'
<1>1. Reserved /\ Numbered /\ Whole /\ Ordered /\ Reaching /\ Behind /\ Kept /\ SentExact
  BY DEF LineInv
<1> DEFINE newest == myIn[c] - 1
           from == mySize[c]
           last == from + FieldSize[c] - 1
           g == field[c]
<1>2. /\ newest \in Live /\ from \in Nat /\ last \in Nat /\ from <= last
      /\ written[SlotOf(newest)] = from
      /\ \A b, i : b \in Live' /\ i \in Filled(b)' <=>
            b \in Live /\ (i \in Filled(b) \/ (b = newest /\ i \in from .. last))
      /\ \A b \in Live : \A i \in Filled(b) : Line(b, i)' = Line(b, i)
      /\ Reserved'
      /\ \A b : b = newest => \A i \in from .. last : Line(b, i)' = g
  BY TakePlaces
<1>3. /\ pc[c] = "take" /\ pc'[c] = "fill" /\ \A d \in Context : d # c => pc'[d] = pc[d]
      /\ UNCHANGED <<in, out, field, made, myIn, epoch, sent, accepted, dropped>>
      /\ \A d \in Context : d # c => span'[d] = span[d]
  BY DEF Take, At, Goto, BInv, TypeOK, sessionVars, historyVars
<1>4. /\ g \in Field /\ made \in [Context -> Nat] /\ accepted \subseteq Field /\ myIn[c] \in Nat
      /\ sent \in Seq(Field)
  BY DEF BInv, TypeOK
<1>5. Seeking(c) /\ ~Seeking(c)' /\ \A d \in Context : d # c => (Seeking(d)' <=> Seeking(d))
  BY <1>3 DEF Seeking
<1>6. g = [by |-> c, n |-> made[c], epoch |-> epoch]
  BY <1>1, <1>5 DEF Numbered
<1> HIDE DEF newest, from, last, g
<1>7. ASSUME NEW b \in Live, NEW i \in Filled(b)
      PROVE  /\ Line(b, i).by \in Context /\ Line(b, i).n \in Nat
             /\ Line(b, i).by = c => Line(b, i).n < made[c] /\ b < myIn[c] /\ b <= newest
  <2>1. Line(b, i).by \in Context /\ Line(b, i).n \in Nat /\ b \in Nat
    BY <1>1, <1>7, LineTyped, LiveIn
  <2>2. Line(b, i).by = c => Line(b, i).n < made[c]
    BY <1>1, <1>5, <1>7 DEF Numbered
  <2>3. Line(b, i).by = c => b < myIn[c]
    BY <1>1, <1>3, <1>7 DEF Reaching
  <2> QED
    BY <1>4, <2>1, <2>2, <2>3 DEF newest
<1>8. Whole' /\ Ordered'
  <2>1. g.by = c /\ g.n = made[c] /\ last = from + FieldSize[g.by] - 1
    BY <1>6 DEF last
  <2>2. \A b \in Live : \A i \in Filled(b) :
           Line(b, i).by = g.by => Line(b, i).n < g.n /\ b <= newest
    BY <1>7, <2>1
  <2>3. PICK h \in Field, m \in Live, a \in Nat, z \in Nat :
           h = g /\ m = newest /\ a = from /\ z = last
    BY <1>2, <1>4
  <2>4. /\ written[SlotOf(m)] = a /\ z = a + FieldSize[h.by] - 1 /\ a <= z
        /\ \A b, i : b \in Live' /\ i \in Filled(b)' <=>
              b \in Live /\ (i \in Filled(b) \/ (b = m /\ i \in a .. z))
        /\ \A b \in Live : \A i \in Filled(b) : Line(b, i)' = Line(b, i)
        /\ \A b : b = m => \A i \in a .. z : Line(b, i)' = h
        /\ \A b \in Live : \A i \in Filled(b) :
              Line(b, i).by = h.by => Line(b, i).n < h.n /\ b <= m
    BY <1>2, <2>1, <2>2, <2>3
  <2> QED
    BY <1>1, <2>4, LineJoins
<1>9. ASSUME NEW b \in Live', NEW i \in Filled(b)'
      PROVE  /\ b \in Live
             /\ \/ i \in Filled(b) /\ Line(b, i)' = Line(b, i)
                \/ b = newest /\ Line(b, i)' = g
  BY <1>2, <1>9
<1>10. Numbered'
  <2>1. ASSUME NEW d \in Context, Seeking(d)' \/ pc'[d] = "fill"
        PROVE  field'[d] = [by |-> d, n |-> made'[d], epoch |-> epoch']
    BY <1>1, <1>3, <1>5, <2>1 DEF Numbered
  <2>2. ASSUME NEW f \in accepted'
        PROVE  /\ f.n <= made'[f.by]
               /\ pc'[f.by] \in {"load", "size", "take", "open"} \/ pc'[f.by] = "fill" => f.n < made'[f.by]
    <3>1. f.by \in Context /\ f.n <= made[f.by] /\ (Seeking(f.by) \/ pc[f.by] = "fill" => f.n < made[f.by])
      BY <1>1, <1>3, <1>4, <2>2 DEF Numbered, Field
    <3> QED
      BY <1>3, <3>1 DEF Seeking
  <2>3. ASSUME NEW b \in Live', NEW i \in Filled(b)'
        PROVE  LET f == Line(b, i)'
               IN  /\ f.n <= made'[f.by] /\ f.epoch = epoch'
                   /\ pc'[f.by] \in {"load", "size", "take", "open"} => f.n < made'[f.by]
                   /\ f \in accepted' \/ (pc'[f.by] = "fill" /\ f = field'[f.by])
    <3>1. CASE Line(b, i)' = g
      BY <1>3, <1>4, <1>6, <3>1 DEF g
    <3>2. CASE i \in Filled(b) /\ Line(b, i)' = Line(b, i)
      <4> DEFINE f == Line(b, i)
      <4>1. /\ f.by \in Context /\ f.n \in Nat /\ Line(b, i)' = f
            /\ f.n <= made[f.by] /\ f.epoch = epoch
            /\ Seeking(f.by) => f.n < made[f.by]
            /\ f \in accepted \/ (pc[f.by] = "fill" /\ f = field[f.by])
        BY <1>1, <1>7, <1>9, <2>3, <3>2 DEF Numbered
      <4> HIDE DEF f
      <4>2. CASE f.by = c
        BY <1>3, <4>1, <4>2
      <4>3. CASE f.by # c
        BY <1>3, <4>1, <4>3 DEF Seeking
      <4> QED
        BY <4>1, <4>2, <4>3
    <3> QED
      BY <1>9, <2>3, <3>1, <3>2
  <2> QED
    BY <2>1, <2>2, <2>3, Zenon DEF Numbered, Seeking
<1>11. Reaching'
  <2> SUFFICES ASSUME NEW d \in Context, pc'[d] \in {"size", "take"},
                      NEW b \in Live', NEW i \in Filled(b)', Line(b, i)'.by = d
               PROVE  b < myIn'[d]
    BY DEF Reaching
  <2>1. d # c /\ pc[d] \in {"size", "take"} /\ g.by = c
    BY <1>3, <1>6
  <2> QED
    BY <1>1, <1>3, <1>9, <2>1 DEF Reaching
<1>12. Behind'
  <2> SUFFICES ASSUME NEW k \in 1 .. Len(sent), NEW b \in Live', NEW i \in Filled(b)'
               PROVE  /\ Line(b, i)' # sent[k]
                      /\ Line(b, i)'.by = sent[k].by => sent[k].n <= Line(b, i)'.n
    BY <1>3 DEF Behind
  <2>1. CASE Line(b, i)' = Line(b, i) /\ i \in Filled(b)
    BY <1>1, <1>9, <2>1 DEF Behind
  <2>2. CASE Line(b, i)' = g
    <3>1. sent[k] \in accepted /\ sent[k] \in Field /\ sent[k].by \in Context /\ sent[k].n \in Nat
      BY <1>1, <1>4 DEF SentExact, Field
    <3>2. sent[k].by = c => sent[k].n < made[c]
      BY <1>1, <1>5, <3>1 DEF Numbered
    <3> QED
      BY <1>4, <1>6, <2>2, <3>1, <3>2
  <2> QED
    BY <1>9, <2>1, <2>2
<1>13. SentExact'
  <2>1. ASSUME NEW k \in 1 .. Len(sent)
        PROVE  LET f == sent[k]
                   cells == {j \in 1 .. Len(sent) : sent[j] = f}
               IN  /\ f \in accepted'
                   /\ \E first \in 1 .. Len(sent) : cells = first .. (first + FieldSize[f.by] - 1)
                   /\ \A j \in 1 .. (k - 1) : sent[j].by = f.by => sent[j].n <= f.n
    BY <1>1, <1>3 DEF SentExact
  <2> QED
    BY <1>3, <2>1, Zenon DEF SentExact
<1>14. Kept'
  <2> DEFINE Gone == {}
  <2>1. /\ \A b \in Live : \A i \in Filled(b) :
             IF b \in Gone THEN Line(b, i) \in dropped'
             ELSE b \in Live' /\ i \in Filled(b)' /\ Line(b, i)' = Line(b, i)
        /\ \A f \in accepted' : f \in accepted
        /\ dropped \subseteq dropped' /\ sent' = sent
    BY <1>2, <1>3
  <2> HIDE DEF Gone
  <2> QED
    BY <1>1, <2>1, KeptStays
<1> QED
  BY <1>2, <1>8, <1>10, <1>11, <1>12, <1>13, <1>14 DEF LineInv

(* --------------------- steps of the main loop -------------------------- *)

(* While the main loop is not writing a field itself nobody is, for only   *)
(* contexts above it run between two of its steps.                         *)
NobodyWrites == \A c \in Context : ~Seeking(c) /\ pc[c] # "fill"

Writing == {"load", "size", "take", "open", "fill"}

(* While the main loop is outside a write, no other context is in one.     *)
LEMMA NobodyElse ==
    ASSUME BInv, Runs(0), pc[0] \notin Writing,
           pc' = pc \/ \E label \in Label \ Writing : Goto(0, label)
    PROVE  NobodyWrites /\ NobodyWrites'
<1>1. /\ 0 \in Context /\ \A d \in Context : d # 0 => pc[d] = "idle" /\ pc'[d] = "idle"
      /\ pc[0] \notin Writing /\ pc'[0] \notin Writing
  <2>1. 0 \in Context /\ \A d \in Context : d # 0 => d > 0
    BY Sizes DEF Context
  <2>2. \A d \in Context : d # 0 => pc[d] = "idle"
    BY <2>1 DEF Runs
  <2>3. pc \in [Context -> Label]
    BY DEF BInv, TypeOK
  <2>4. CASE pc' = pc
    BY <2>1, <2>2, <2>4
  <2>5. CASE \E label \in Label \ Writing : Goto(0, label)
    BY <2>1, <2>2, <2>3, <2>5 DEF Goto
  <2> QED
    BY <2>4, <2>5
<1>2. \A d \in Context : pc[d] \notin Writing /\ pc'[d] \notin Writing
  BY <1>1 DEF Writing
<1> QED
  BY <1>2 DEF NobodyWrites, Seeking, Writing

(* Where nobody writes, the line is what was written.                      *)
LEMMA LineWritten ==
    ASSUME NobodyWrites PROVE \A b, i : Line(b, i) = data[SlotOf(b)][i]
  BY NothingPends DEF NobodyWrites, Line

(* With no reservation open after it, a line is what the memory holds.     *)
LEMMA LineWrittenNext ==
    ASSUME NobodyWrites' PROVE \A b, i : Line(b, i)' = data'[SlotOf(b)][i]
<1>1. \A c \in Context : pc'[c] # "fill"
  BY DEF NobodyWrites
<1>2. \A slot, i : Cell(slot, i)' = data'[slot][i]
  BY <1>1 DEF Cell, Pends
<1> QED
  BY <1>2 DEF Line

(* The main loop takes batches out of the line, or none, and accounts for  *)
(* their fields; the epoch changes only when nothing is left.              *)
LEMMA LoopLine ==
    ASSUME BInv, LineInv, NobodyWrites, NobodyWrites', NEW Gone,
           UNCHANGED <<data, made, sent, accepted>>, dropped \subseteq dropped',
           \A b, i : b \in Live' /\ i \in Filled(b)' <=> b \in Live /\ i \in Filled(b) /\ b \notin Gone,
           \A b \in Live : \A i \in Filled(b) : b \in Gone => data[SlotOf(b)][i] \in dropped',
           epoch' = epoch \/ \A b \in Live : \A i \in Filled(b) : b \in Gone
    PROVE  LineInv'
<1>1. Reserved /\ Numbered /\ Whole /\ Ordered /\ Reaching /\ Behind /\ Kept /\ SentExact
  BY DEF LineInv
<1>2. \A c \in Context : pc'[c] # "fill" /\ pc'[c] \notin {"load", "size", "take", "open"}
  BY DEF NobodyWrites, Seeking
<1>3. Reserved'
  BY <1>2 DEF Reserved, Pends
<1>4. \A b \in Live : \A i \in Filled(b) :
         /\ Line(b, i)' = Line(b, i) /\ Line(b, i) = data[SlotOf(b)][i]
         /\ Line(b, i).by \in Context
  BY <1>1, LineTyped, LineWritten, LineWrittenNext
<1>5. Whole' /\ Ordered'
  BY <1>1, <1>4, LineLeaves
<1>6. \A b, i : b \in Live' /\ i \in Filled(b)' =>
                   b \in Live /\ i \in Filled(b) /\ Line(b, i)' = Line(b, i)
  BY <1>4
<1>7. Behind' /\ SentExact'
  BY <1>1, <1>6, SentStays
<1>8. Kept'
  <2>1. \A b \in Live : \A i \in Filled(b) :
           IF b \in Gone THEN Line(b, i) \in dropped'
           ELSE b \in Live' /\ i \in Filled(b)' /\ Line(b, i)' = Line(b, i)
    BY <1>4
  <2> QED
    BY <1>1, <2>1, KeptStays
<1>9. Numbered'
  <2>1. ASSUME NEW f \in accepted'
        PROVE  /\ f.n <= made'[f.by]
               /\ pc'[f.by] \in {"load", "size", "take", "open"} \/ pc'[f.by] = "fill" => f.n < made'[f.by]
    <3>1. f.by \in Context
      BY <2>1 DEF BInv, TypeOK, Field
    <3> QED
      BY <1>1, <1>2, <2>1, <3>1 DEF Numbered
  <2>2. ASSUME NEW b \in Live', NEW i \in Filled(b)'
        PROVE  LET f == Line(b, i)'
               IN  /\ f.n <= made'[f.by] /\ f.epoch = epoch'
                   /\ pc'[f.by] \in {"load", "size", "take", "open"} => f.n < made'[f.by]
                   /\ f \in accepted' \/ (pc'[f.by] = "fill" /\ f = field'[f.by])
    <3> DEFINE f == Line(b, i)
    <3>1. b \in Live /\ i \in Filled(b) /\ b \notin Gone /\ Line(b, i)' = f /\ f.by \in Context
      BY <1>4, <2>2
    <3>2. f.n <= made[f.by] /\ f.epoch = epoch /\ (f \in accepted \/ pc[f.by] = "fill")
      BY <1>1, <3>1 DEF Numbered
    <3> HIDE DEF f
    <3>3. pc[f.by] # "fill"
      BY <3>1 DEF NobodyWrites
    <3> QED
      BY <1>2, <3>1, <3>2, <3>3
  <2> QED
    BY <1>2, <2>1, <2>2, Zenon DEF Numbered, Seeking
<1>10. Reaching'
  BY <1>2 DEF Reaching
<1> QED
  BY <1>3, <1>5, <1>7, <1>8, <1>9, <1>10 DEF LineInv

(* Nothing enters or leaves the line: pop_batch's look at the oldest batch *)
(* and its store of out_, a lease that runs out, the beginning of a clear, *)
(* an activation with no batch in the transport's hands.                   *)
LEMMA CalmLine ==
    ASSUME BInv, LineInv,
           \/ PopBatch \/ StoreOut \/ Deactivate \/ Clear
           \/ Activate /\ held = NoSlot
    PROVE  LineInv'
<1> DEFINE Gone == {}
<1>1. /\ Runs(0) /\ 0 \in Context
      /\ pc[0] \in {"idle", "pop", "clear"} /\ pc'[0] \in {"idle", "pop", "clear", "reset"}
      /\ pc' = pc \/ Goto(0, "idle") \/ Goto(0, "pop") \/ Goto(0, "clear") \/ Goto(0, "reset")
  BY Sizes DEF PopBatch, StoreOut, Clear, Activate, Deactivate, At, Goto, localVars, BInv, TypeOK
<1>2. NobodyWrites /\ NobodyWrites'
  BY <1>1, NobodyElse DEF Writing, Label
<1>3. UNCHANGED <<in, written, data, made, epoch, sent, accepted, dropped>>
  BY DEF PopBatch, StoreOut, Clear, Activate, Deactivate, poolVars, localVars, historyVars
<1>4. Live' = Live
  <2>1. CASE UNCHANGED <<out, held>>
    BY <1>1, <1>3, <2>1 DEF Live
  <2>2. CASE StoreOut
    <3>1. /\ out' = out + 1 /\ held' = SlotOf(out) /\ held' # NoSlot
          /\ held = NoSlot /\ out < in /\ in \in Nat /\ out \in Nat
      BY <2>2, SlotIn, NoSlotApart DEF StoreOut, At, BInv, TypeOK, Window, MainLoop
    <3>2. Live = out .. (in - 1)
      BY <3>1 DEF Live
    <3>3. Live' = ((out + 1) .. (in - 1)) \cup {out}
      BY <1>1, <1>3, <3>1 DEF Live
    <3> QED
      BY <3>1, <3>2, <3>3
  <2> QED
    BY <2>1, <2>2 DEF PopBatch, StoreOut, Clear, Activate, Deactivate, poolVars, sessionVars
<1>5. /\ \A b, i : b \in Live' /\ i \in Filled(b)' <=> b \in Live /\ i \in Filled(b) /\ b \notin Gone
      /\ \A b \in Live : \A i \in Filled(b) : b \in Gone => data[SlotOf(b)][i] \in dropped'
  BY <1>3, <1>4 DEF Filled
<1> HIDE DEF Gone
<1> QED
  BY <1>2, <1>3, <1>5, LoopLine

(* The batch in the transport's hands is the oldest of the line, and no    *)
(* other batch of the line is in its slot.                                 *)
LEMMA HeldFirst ==
    ASSUME BInv, held # NoSlot
    PROVE  /\ out - 1 \in Nat /\ held = SlotOf(out - 1) /\ held \in Slot
           /\ pc[0] # "release" => out - 1 \in Live
           /\ \A b \in Live : b # out - 1 => b \in out .. (in - 1) /\ SlotOf(b) # held
<1>1. /\ out >= 1 /\ held = SlotOf(out - 1) /\ held \in Slot /\ out \in Nat /\ in \in Nat
      /\ in - out <= Batches - 1 /\ Batches \in Nat /\ Batches > 0
  BY Sizes DEF BInv, TypeOK, Window
<1>2. pc[0] # "release" => out - 1 \in Live
  BY <1>1 DEF Live
<1>3. ASSUME NEW b \in Live, b # out - 1 PROVE b \in out .. (in - 1) /\ SlotOf(b) # held
  <2>1. b \in out .. (in - 1)
    BY <1>3 DEF Live
  <2> DEFINE a == out - 1
  <2>2. a \in Nat /\ b \in Nat /\ b < a + Batches /\ a < b + Batches /\ a # b
    BY <1>1, <2>1
  <2> HIDE DEF a
  <2>3. b % Batches # a % Batches
    BY <1>1, <2>2, SlotsDiffer
  <2> QED
    BY <1>1, <2>1, <2>3 DEF SlotOf, a
<1> QED
  BY <1>1, <1>2, <1>3

(* The batch the transport took is released: it left the line before.      *)
LEMMA FinishLine ==
    ASSUME BInv, LineInv, FinishBatch
    PROVE  LineInv'
<1> DEFINE Gone == {}
<1>1. /\ Runs(0) /\ 0 \in Context /\ pc[0] = "release" /\ pc'[0] = "idle" /\ Goto(0, "idle")
      /\ held # NoSlot /\ held' = NoSlot /\ written' = [written EXCEPT ![held] = 0]
      /\ UNCHANGED <<in, out, data, made, epoch, sent, accepted, dropped>>
  <2>1. 0 \in Context /\ pc \in [Context -> Label] /\ (pc[0] = "release" => held # NoSlot)
    BY Sizes DEF BInv, TypeOK, MainLoop, Context
  <2> QED
    BY <2>1 DEF FinishBatch, At, Goto, Release, historyVars
<1>2. NobodyWrites /\ NobodyWrites'
  BY <1>1, NobodyElse DEF Writing, Label
<1>3. Live = out .. (in - 1) /\ Live' = Live
  BY <1>1 DEF Live
<1>4. ASSUME NEW b \in Live PROVE Filled(b)' = Filled(b)
  <2>1. b # out - 1
    BY <1>3 DEF BInv, TypeOK
  <2>2. SlotOf(b) # held /\ SlotOf(b) \in Slot
    BY <1>1, <2>1, HeldFirst, LiveIn
  <2>3. written'[SlotOf(b)] = written[SlotOf(b)]
    BY <1>1, <2>2 DEF BInv, TypeOK
  <2> QED
    BY <2>3 DEF Filled
<1>5. /\ \A b, i : b \in Live' /\ i \in Filled(b)' <=> b \in Live /\ i \in Filled(b) /\ b \notin Gone
      /\ \A b \in Live : \A i \in Filled(b) : b \in Gone => data[SlotOf(b)][i] \in dropped'
  BY <1>3, <1>4
<1> HIDE DEF Gone
<1> QED
  BY <1>1, <1>2, <1>5, LoopLine

(* An activation takes the held batch out of the line and counts it as     *)
(* dropped.                                                                *)
LEMMA ActivateLine ==
    ASSUME BInv, LineInv, Activate, held # NoSlot
    PROVE  LineInv'
<1> DEFINE h == out - 1
           Gone == {h}
<1>1. /\ Runs(0) /\ 0 \in Context /\ pc[0] = "idle" /\ pc'[0] = "clear" /\ Goto(0, "clear")
      /\ held' = NoSlot /\ written' = [written EXCEPT ![held] = 0]
      /\ UNCHANGED <<in, out, data, made, epoch, sent, accepted>>
      /\ dropped' = dropped \cup Fields(held)
  BY Sizes DEF Activate, At, Goto, Release, BInv, TypeOK
<1>2. NobodyWrites /\ NobodyWrites'
  BY <1>1, NobodyElse DEF Writing, Label
<1>3. /\ h \in Live /\ held = SlotOf(h)
      /\ \A b \in Live : b # h => b \in out .. (in - 1) /\ SlotOf(b) # held
  BY <1>1, HeldFirst
<1>4. h \notin out .. (in - 1)
  BY DEF BInv, TypeOK
<1>5. Live' = Live \ {h}
  BY <1>1, <1>3, <1>4 DEF Live
<1>6. ASSUME NEW b \in Live, b # h PROVE Filled(b)' = Filled(b)
  <2>1. SlotOf(b) # held /\ SlotOf(b) \in Slot
    BY <1>3, <1>6, LiveIn
  <2>2. written'[SlotOf(b)] = written[SlotOf(b)]
    BY <1>1, <2>1 DEF BInv, TypeOK
  <2> QED
    BY <2>2 DEF Filled
<1>7. \A i \in Filled(h) : data[SlotOf(h)][i] \in dropped'
  BY <1>1, <1>3 DEF Filled, Fields
<1> HIDE DEF h
<1>8. /\ \A b, i : b \in Live' /\ i \in Filled(b)' <=> b \in Live /\ i \in Filled(b) /\ b \notin Gone
      /\ \A b \in Live : \A i \in Filled(b) : b \in Gone => data[SlotOf(b)][i] \in dropped'
  BY <1>5, <1>6, <1>7
<1>9. dropped \subseteq dropped'
  BY <1>1
<1> HIDE DEF Gone
<1> QED
  BY <1>1, <1>2, <1>8, <1>9, LoopLine

(* A clear takes every batch out of the line.                              *)
LEMMA ResetLine ==
    ASSUME BInv, LineInv, Reset
    PROVE  LineInv'
<1>1. /\ Runs(0) /\ 0 \in Context /\ pc[0] = "reset" /\ pc'[0] = "empty" /\ Goto(0, "empty")
      /\ held = NoSlot /\ myIn[0] = in
      /\ UNCHANGED <<in, out, held, data, made, epoch, sent, accepted>>
      /\ dropped' = dropped \cup Pooled
      /\ written' = [s \in Slot |-> IF \E i \in out .. (myIn[0] - 1) : s = SlotOf(i)
                                    THEN 0 ELSE written[s]]
  BY Sizes DEF Reset, At, Goto, BInv, TypeOK, MainLoop, sessionVars
<1>2. NobodyWrites /\ NobodyWrites'
  BY <1>1, NobodyElse DEF Writing, Label
<1>3. Live = out .. (in - 1) /\ Live' = Live
  BY <1>1 DEF Live
<1>4. ASSUME NEW b \in Live PROVE Filled(b)' = {}
  <2>1. SlotOf(b) \in Slot
    BY LiveIn
  <2>2. written'[SlotOf(b)] = 0
    BY <1>1, <1>3, <2>1
  <2> QED
    BY <2>2 DEF Filled
<1>5. ASSUME NEW b \in Live, NEW i \in Filled(b) PROVE data[SlotOf(b)][i] \in dropped'
  <2>1. SlotOf(b) \in Slot /\ Open(SlotOf(b))
    BY <1>3, LiveIn DEF Open
  <2>2. data[SlotOf(b)][i] \in Fields(SlotOf(b))
    BY DEF Fields, Filled
  <2> QED
    BY <1>1, <2>1, <2>2 DEF Pooled
<1> DEFINE Gone == Live
<1>6. /\ \A b, i : b \in Live' /\ i \in Filled(b)' <=> b \in Live /\ i \in Filled(b) /\ b \notin Gone
      /\ \A b \in Live : \A i \in Filled(b) : b \in Gone => data[SlotOf(b)][i] \in dropped'
      /\ dropped \subseteq dropped'
  BY <1>1, <1>3, <1>4, <1>5
<1> HIDE DEF Gone
<1> QED
  BY <1>1, <1>2, <1>6, LoopLine

(* The end of a clear begins a new epoch with an empty line.               *)
LEMMA EmptyLine ==
    ASSUME BInv, LineInv, Empty
    PROVE  LineInv'
<1>1. /\ Runs(0) /\ 0 \in Context /\ pc[0] = "empty" /\ pc'[0] = "start" /\ Goto(0, "start")
      /\ held = NoSlot /\ out' = myIn[0] /\ myIn[0] = in /\ in \in Nat
      /\ UNCHANGED <<in, held, written, data, made, sent, accepted, dropped>>
      /\ \A s \in Slot : written[s] = 0
  BY Sizes DEF Empty, At, Goto, BInv, TypeOK, MainLoop, sessionVars
<1>2. NobodyWrites /\ NobodyWrites'
  BY <1>1, NobodyElse DEF Writing, Label
<1>3. \A b \in Live : Filled(b) = {}
  BY <1>1, LiveIn DEF Filled
<1>4. Live' = {}
  BY <1>1 DEF Live
<1> DEFINE Gone == Live
<1>5. /\ \A b, i : b \in Live' /\ i \in Filled(b)' <=> b \in Live /\ i \in Filled(b) /\ b \notin Gone
      /\ \A b \in Live : \A i \in Filled(b) : b \in Gone
      /\ \A b \in Live : \A i \in Filled(b) : b \in Gone => data[SlotOf(b)][i] \in dropped'
  BY <1>3, <1>4
<1> HIDE DEF Gone
<1> QED
  BY <1>1, <1>2, <1>5, LoopLine

(* Of two sequences one after the other.                                   *)
LEMMA Appended ==
    ASSUME NEW s \in Seq(Field), NEW t \in Seq(Field)
    PROVE  /\ Len(s \o t) = Len(s) + Len(t)
           /\ \A k \in 1 .. (Len(s) + Len(t)) :
                 (s \o t)[k] = IF k <= Len(s) THEN s[k] ELSE t[k - Len(s)]
  OBVIOUS

(* The transport takes the oldest batch of the line as a whole, and sends  *)
(* its cells after everything sent before.                                 *)
LEMMA TransmitSends ==
    ASSUME BInv, LineInv, Transmit, NEW h, h = out - 1, NEW n, n = Len(sent)
    PROVE  /\ h \in Live /\ n \in Nat
           /\ \A b, i : b \in Live' /\ i \in Filled(b)' <=> b \in Live /\ i \in Filled(b) /\ b # h
           /\ \A b \in Live : b # h => h < b
           /\ Len(sent') \in Nat /\ Len(sent') >= n
           /\ \A k \in 1 .. n : sent'[k] = sent[k]
           /\ \A k \in 1 .. Len(sent') : k > n => k - n - 1 \in Filled(h) /\ sent'[k] = Line(h, k - n - 1)
           /\ \A i \in Filled(h) : n + 1 + i \in 1 .. Len(sent') /\ sent'[n + 1 + i] = Line(h, i)
           /\ NobodyWrites /\ NobodyWrites'
           /\ \A b \in Live : \A i \in Filled(b) : Line(b, i)' = Line(b, i)
<1>1. /\ Runs(0) /\ 0 \in Context /\ pc[0] = "idle" /\ pc'[0] = "release" /\ Goto(0, "release")
      /\ held # NoSlot
      /\ UNCHANGED <<in, out, held, written, data, made, epoch, accepted, dropped>>
      /\ sent' = sent \o [i \in 1 .. written[held] |-> data[held][i - 1]]
  <2>1. 0 \in Context /\ pc \in [Context -> Label]
    BY Sizes DEF BInv, TypeOK, Context
  <2> QED
    BY <2>1 DEF Transmit, At, Goto, poolVars, sessionVars
<1>2. NobodyWrites /\ NobodyWrites'
  BY <1>1, NobodyElse DEF Writing, Label
<1>3. /\ h \in Live /\ held = SlotOf(h) /\ h \in Nat /\ held \in Slot
      /\ \A b \in Live : b # h => b \in out .. (in - 1)
  BY <1>1, HeldFirst
<1>4. out \in Nat /\ in \in Nat /\ sent \in Seq(Field) /\ written[held] \in Nat
  BY <1>3 DEF BInv, TypeOK
<1>5. \A b, i : b \in Live' /\ i \in Filled(b)' <=> b \in Live /\ i \in Filled(b) /\ b # h
  <2>1. Live' = Live \ {h}
    BY <1>1, <1>3, <1>4 DEF Live
  <2>2. \A b : Filled(b)' = Filled(b)
    BY <1>1 DEF Filled
  <2> QED
    BY <2>1, <2>2
<1>6. \A b \in Live : b # h => h < b
  BY <1>3, <1>4
<1>7. \A b, i : Line(b, i)' = Line(b, i) /\ Line(b, i) = data[SlotOf(b)][i]
  BY <1>1, <1>2, LineWritten, LineWrittenNext
<1> DEFINE w == written[held]
           tail == [i \in 1 .. w |-> data[held][i - 1]]
<1>8. tail \in Seq(Field) /\ Len(tail) = w
  <2>1. w \in 0 .. BatchSize /\ data[held] \in [0 .. (BatchSize - 1) -> Field] /\ BatchSize \in Nat
    BY <1>3, Sizes DEF BInv, TypeOK
  <2>2. \A i \in 1 .. w : data[held][i - 1] \in Field
    BY <2>1
  <2>3. tail \in [1 .. w -> Field] /\ w \in Nat
    BY <2>1, <2>2
  <2> HIDE DEF w, tail
  <2> QED
    BY <2>3
<1>9. \A i \in 1 .. w : tail[i] = data[held][i - 1]
  OBVIOUS
<1>10. Filled(h) = 0 .. (w - 1)
  BY <1>3 DEF Filled
<1>11. w \in Nat
  BY <1>4
<1> HIDE DEF tail, w
<1>12. sent' = sent \o tail
  BY <1>1 DEF tail, w
<1>13. /\ Len(sent') = n + w /\ n \in Nat /\ w \in Nat
       /\ \A k \in 1 .. n : sent'[k] = sent[k]
       /\ \A k \in 1 .. Len(sent') : k > n => sent'[k] = tail[k - n]
  <2>1. w \in Nat /\ n \in Nat /\ n = Len(sent)
    BY <1>4, <1>11
  <2>2. Len(sent') = n + w
    BY <1>4, <1>8, <1>12, <2>1, Appended
  <2>3. \A k \in 1 .. (n + w) : sent'[k] = IF k <= n THEN sent[k] ELSE tail[k - n]
    BY <1>4, <1>8, <1>12, <2>1, Appended
  <2>4. ASSUME NEW k \in 1 .. n PROVE sent'[k] = sent[k]
    <3>1. k \in 1 .. (n + w) /\ k <= n
      BY <2>1
    <3> QED
      BY <2>3, <3>1
  <2>5. ASSUME NEW k \in 1 .. (n + w), k > n PROVE sent'[k] = tail[k - n]
    <3>1. ~(k <= n)
      BY <2>1, <2>5
    <3> QED
      BY <2>3, <3>1
  <2> QED
    BY <2>1, <2>2, <2>4, <2>5
<1>14. ASSUME NEW k \in 1 .. Len(sent'), k > n
       PROVE  k - n - 1 \in Filled(h) /\ sent'[k] = Line(h, k - n - 1)
  <2>1. k - n \in 1 .. w /\ k - n - 1 \in 0 .. (w - 1)
    BY <1>13, <1>14
  <2>2. sent'[k] = data[held][k - n - 1]
    BY <1>9, <1>13, <1>14, <2>1
  <2> QED
    BY <1>3, <1>7, <1>10, <2>1, <2>2
<1>15. ASSUME NEW i \in Filled(h)
       PROVE  n + 1 + i \in 1 .. Len(sent') /\ sent'[n + 1 + i] = Line(h, i)
  <2>1. i \in 0 .. (w - 1)
    BY <1>10
  <2> DEFINE k == n + 1 + i
  <2>2. k \in 1 .. Len(sent') /\ k > n /\ k - n - 1 = i
    BY <1>13, <2>1
  <2> HIDE DEF k
  <2>3. sent'[k] = Line(h, i)
    BY <1>14, <2>2
  <2> QED
    BY <2>2, <2>3 DEF k
<1> QED
  BY <1>2, <1>3, <1>5, <1>6, <1>7, <1>13, <1>14, <1>15

(* What is sent is whole fields, each once, in order.                      *)
LEMMA TransmitExact ==
    ASSUME BInv, LineInv, Transmit
    PROVE  SentExact'
<1> DEFINE h == out - 1
           n == Len(sent)
<1>1. Numbered /\ Whole /\ Ordered /\ Behind /\ SentExact /\ Reserved
  BY DEF LineInv
<1>2. /\ h \in Live /\ n \in Nat /\ Len(sent') \in Nat /\ Len(sent') >= n
      /\ \A k \in 1 .. n : sent'[k] = sent[k]
      /\ \A k \in 1 .. Len(sent') : k > n => k - n - 1 \in Filled(h) /\ sent'[k] = Line(h, k - n - 1)
      /\ \A i \in Filled(h) : n + 1 + i \in 1 .. Len(sent') /\ sent'[n + 1 + i] = Line(h, i)
      /\ NobodyWrites
  BY TransmitSends
<1>3. accepted' = accepted
  BY DEF Transmit
<1>4. \A i \in Filled(h) : /\ i \in Nat /\ Line(h, i) \in Field /\ Line(h, i).by \in Context
                           /\ FieldSize[Line(h, i).by] \in Nat
  BY <1>1, <1>2, LineTyped, Sizes
<1> HIDE DEF h
<1>5. ASSUME NEW k \in 1 .. Len(sent')
      PROVE  \/ k \in 1 .. n /\ sent'[k] = sent[k]
             \/ /\ k > n /\ k - n - 1 \in Filled(h) /\ k - n - 1 \in Nat
                /\ sent'[k] = Line(h, k - n - 1)
  BY <1>2, <1>4
<1> HIDE DEF n
<1>6. ASSUME NEW k \in 1 .. Len(sent') PROVE sent'[k] \in accepted
  <2>1. CASE k \in 1 .. n /\ sent'[k] = sent[k]
    BY <1>1, <2>1 DEF SentExact, n
  <2>2. CASE k - n - 1 \in Filled(h) /\ sent'[k] = Line(h, k - n - 1)
    <3> DEFINE f == Line(h, k - n - 1)
    <3>1. f.by \in Context /\ (f \in accepted \/ pc[f.by] = "fill")
      BY <1>1, <1>2, <1>4, <2>2 DEF Numbered
    <3> QED
      BY <1>2, <2>2, <3>1 DEF NobodyWrites
  <2> QED
    BY <1>5, <1>6, <2>1, <2>2
<1>7. ASSUME NEW k \in 1 .. Len(sent')
      PROVE  \E first \in 1 .. Len(sent') :
                {j \in 1 .. Len(sent') : sent'[j] = sent'[k]}
                   = first .. (first + FieldSize[sent'[k].by] - 1)
  <2>1. CASE k \in 1 .. n /\ sent'[k] = sent[k]
    <3>1. PICK first \in 1 .. n :
             {j \in 1 .. n : sent[j] = sent[k]} = first .. (first + FieldSize[sent[k].by] - 1)
      BY <1>1, <2>1 DEF SentExact, n
    <3>2. ASSUME NEW j \in 1 .. Len(sent'), sent'[j] = sent[k] PROVE j \in 1 .. n
      <4>1. CASE j - n - 1 \in Filled(h) /\ sent'[j] = Line(h, j - n - 1)
        BY <1>1, <1>2, <2>1, <3>2, <4>1 DEF Behind, n
      <4> QED
        BY <1>5, <3>2, <4>1
    <3>3. {j \in 1 .. Len(sent') : sent'[j] = sent[k]} = {j \in 1 .. n : sent[j] = sent[k]}
      BY <1>2, <3>2
    <3>4. first \in 1 .. Len(sent')
      BY <1>2
    <3> QED
      BY <2>1, <3>1, <3>3, <3>4
  <2>2. CASE k - n - 1 \in Filled(h) /\ sent'[k] = Line(h, k - n - 1)
    <3> DEFINE i == k - n - 1
               f == Line(h, i)
    <3>1. PICK first \in Filled(h) :
             /\ first + FieldSize[f.by] - 1 \in Filled(h)
             /\ \A d \in Live : \A j \in Filled(d) :
                   Line(d, j) = f <=> d = h /\ j \in first .. (first + FieldSize[f.by] - 1)
      BY <1>1, <1>2, <2>2 DEF Whole
    <3> DEFINE last == first + FieldSize[f.by] - 1
    <3>2. first \in Nat /\ last \in Nat /\ FieldSize[f.by] \in Nat /\ f = sent'[k]
      BY <1>4, <2>2, <3>1
    <3>3. first \in Filled(h) /\ last \in Filled(h)
          /\ \A j \in Filled(h) : Line(h, j) = f <=> j \in first .. last
      BY <1>2, <3>1
    <3> HIDE DEF f
    <3>4. n + 1 + first \in 1 .. Len(sent') /\ n + 1 + last \in 1 .. Len(sent')
      BY <1>2, <3>3
    <3>5. n + 1 + last = (n + 1 + first) + FieldSize[f.by] - 1
      BY <1>2, <3>2
    <3> HIDE DEF last
    <3>6. ASSUME NEW j \in 1 .. Len(sent')
          PROVE  sent'[j] = f <=> j \in (n + 1 + first) .. (n + 1 + last)
      <4>1. CASE j \in 1 .. n /\ sent'[j] = sent[j]
        <5>1. sent[j] # f
          BY <1>1, <1>2, <2>2, <4>1 DEF Behind, n, f
        <5> QED
          BY <1>2, <3>2, <4>1, <5>1
      <4>2. CASE j > n /\ j - n - 1 \in Filled(h) /\ j - n - 1 \in Nat /\ sent'[j] = Line(h, j - n - 1)
        <5>1. sent'[j] = f <=> j - n - 1 \in first .. last
          BY <3>3, <4>2
        <5> QED
          BY <1>2, <3>2, <4>2, <5>1
      <4> QED
        BY <1>5, <3>6, <4>1, <4>2
    <3>7. {j \in 1 .. Len(sent') : sent'[j] = f} = (n + 1 + first) .. (n + 1 + last)
      <4>1. (n + 1 + first) .. (n + 1 + last) \subseteq 1 .. Len(sent')
        BY <1>2, <3>2, <3>4
      <4> QED
        BY <3>6, <4>1
    <3> QED
      BY <3>2, <3>4, <3>5, <3>7
  <2> QED
    BY <1>5, <1>7, <2>1, <2>2
<1>8. ASSUME NEW k \in 1 .. Len(sent'), NEW j \in 1 .. (k - 1), sent'[j].by = sent'[k].by
      PROVE  sent'[j].n <= sent'[k].n
  <2>0. j \in 1 .. Len(sent') /\ j < k
    BY <1>2
  <2>1. CASE k \in 1 .. n /\ sent'[k] = sent[k]
    <3>1. j \in 1 .. n /\ sent'[j] = sent[j]
      BY <1>2, <2>0, <2>1
    <3> QED
      BY <1>1, <1>8, <2>1, <3>1 DEF SentExact, n
  <2>2. CASE k > n /\ k - n - 1 \in Filled(h) /\ k - n - 1 \in Nat /\ sent'[k] = Line(h, k - n - 1)
    <3>1. CASE j \in 1 .. n /\ sent'[j] = sent[j]
      BY <1>1, <1>2, <1>8, <2>2, <3>1 DEF Behind, n
    <3>2. CASE j - n - 1 \in Filled(h) /\ j - n - 1 \in Nat /\ sent'[j] = Line(h, j - n - 1)
      <4>1. j - n - 1 <= k - n - 1
        BY <1>2, <2>0
      <4> QED
        BY <1>1, <1>2, <1>8, <2>2, <3>2, <4>1 DEF Ordered
    <3> QED
      BY <1>5, <2>0, <3>1, <3>2
  <2> QED
    BY <1>5, <1>8, <2>1, <2>2
<1> QED
  BY <1>3, <1>6, <1>7, <1>8, Zenon DEF SentExact

(* The transport takes the held batch.                                     *)
LEMMA TransmitLine ==
    ASSUME BInv, LineInv, Transmit
    PROVE  LineInv'
<1> DEFINE h == out - 1
           n == Len(sent)
           Gone == {h}
<1>1. Reserved /\ Numbered /\ Whole /\ Ordered /\ Behind /\ Kept
  BY DEF LineInv
<1>2. /\ h \in Live /\ n \in Nat /\ Len(sent') \in Nat
      /\ \A b, i : b \in Live' /\ i \in Filled(b)' <=> b \in Live /\ i \in Filled(b) /\ b # h
      /\ \A b \in Live : b # h => h < b
      /\ \A k \in 1 .. n : sent'[k] = sent[k] /\ k \in 1 .. Len(sent')
      /\ \A k \in 1 .. Len(sent') :
            k \in 1 .. n \/ (k - n - 1 \in Filled(h) /\ sent'[k] = Line(h, k - n - 1))
      /\ \A i \in Filled(h) : n + 1 + i \in 1 .. Len(sent') /\ sent'[n + 1 + i] = Line(h, i)
      /\ NobodyWrites /\ NobodyWrites'
      /\ \A b \in Live : \A i \in Filled(b) : Line(b, i)' = Line(b, i)
  <2>1. /\ n \in Nat /\ Len(sent') \in Nat /\ Len(sent') >= n
        /\ \A k \in 1 .. n : sent'[k] = sent[k]
        /\ \A k \in 1 .. Len(sent') :
              k > n => k - n - 1 \in Filled(h) /\ sent'[k] = Line(h, k - n - 1)
    BY TransmitSends
  <2> HIDE DEF n
  <2>2. \A k \in 1 .. n : k \in 1 .. Len(sent')
    BY <2>1
  <2>3. \A k \in 1 .. Len(sent') : k \in 1 .. n \/ k > n
    BY <2>1
  <2>4. /\ h \in Live
        /\ \A b, i : b \in Live' /\ i \in Filled(b)' <=> b \in Live /\ i \in Filled(b) /\ b # h
        /\ \A b \in Live : b # h => h < b
        /\ \A i \in Filled(h) : n + 1 + i \in 1 .. Len(sent') /\ sent'[n + 1 + i] = Line(h, i)
        /\ NobodyWrites /\ NobodyWrites'
        /\ \A b \in Live : \A i \in Filled(b) : Line(b, i)' = Line(b, i)
    BY TransmitSends DEF n
  <2> HIDE DEF h
  <2> QED
    BY <2>1, <2>2, <2>3, <2>4
<1>3. UNCHANGED <<made, epoch, accepted, dropped>>
  BY DEF Transmit, localVars
<1> HIDE DEF h, n
<1>4. \A c \in Context : pc'[c] # "fill" /\ pc'[c] \notin {"load", "size", "take", "open"}
  BY <1>2 DEF NobodyWrites, Seeking
<1>5. Reserved'
  BY <1>4 DEF Reserved, Pends
<1>6. Reaching'
  BY <1>4 DEF Reaching
<1>7. Whole' /\ Ordered'
  <2>1. /\ \A b, i : b \in Live' /\ i \in Filled(b)' <=> b \in Live /\ i \in Filled(b) /\ b \notin Gone
        /\ \A b \in Live : \A i \in Filled(b) : b \notin Gone => Line(b, i)' = Line(b, i)
    BY <1>2
  <2> HIDE DEF Gone
  <2> QED
    BY <1>1, <2>1, LineLeaves
<1>8. Behind'
  <2> SUFFICES ASSUME NEW k \in 1 .. Len(sent'), NEW b \in Live', NEW i \in Filled(b)'
               PROVE  /\ Line(b, i)' # sent'[k]
                      /\ Line(b, i)'.by = sent'[k].by => sent'[k].n <= Line(b, i)'.n
    BY DEF Behind
  <2>1. b \in Live /\ i \in Filled(b) /\ b # h /\ h < b /\ Line(b, i)' = Line(b, i)
    BY <1>2
  <2>2. CASE k \in 1 .. n
    BY <1>1, <1>2, <2>1, <2>2 DEF Behind, n
  <2>3. CASE k - n - 1 \in Filled(h) /\ sent'[k] = Line(h, k - n - 1)
    <3> DEFINE j == k - n - 1
    <3>1. j \in Filled(h) /\ sent'[k] = Line(h, j)
      BY <2>3
    <3> HIDE DEF j
    <3>2. Line(b, i) # Line(h, j)
      BY <1>1, <1>2, <2>1, <3>1 DEF Whole
    <3>3. Line(h, j).by = Line(b, i).by => Line(h, j).n <= Line(b, i).n
      BY <1>1, <1>2, <2>1, <3>1 DEF Ordered
    <3> QED
      BY <2>1, <3>1, <3>2, <3>3
  <2> QED
    BY <1>2, <2>2, <2>3
<1>9. Kept'
  <2> SUFFICES ASSUME NEW f \in accepted
               PROVE  \/ f \in dropped
                      \/ \E k \in 1 .. Len(sent') : sent'[k] = f
                      \/ \E b \in Live' : \E i \in Filled(b)' : Line(b, i)' = f
    BY <1>3, Zenon DEF Kept
  <2>1. CASE f \in dropped
    BY <2>1
  <2>2. CASE \E k \in 1 .. Len(sent) : sent[k] = f
    BY <1>2, <2>2 DEF n
  <2>3. CASE \E b \in Live : \E i \in Filled(b) : Line(b, i) = f
    <3>1. PICK b \in Live : \E i \in Filled(b) : Line(b, i) = f
      BY <2>3
    <3>2. PICK i \in Filled(b) : Line(b, i) = f
      BY <3>1
    <3>3. CASE b = h
      BY <1>2, <3>2, <3>3
    <3>4. CASE b # h
      BY <1>2, <3>2, <3>4
    <3> QED
      BY <3>3, <3>4
  <2> QED
    BY <1>1, <2>1, <2>2, <2>3 DEF Kept
<1>10. Numbered'
  <2>1. ASSUME NEW f \in accepted'
        PROVE  /\ f.n <= made'[f.by]
               /\ pc'[f.by] \in {"load", "size", "take", "open"} \/ pc'[f.by] = "fill" => f.n < made'[f.by]
    <3>1. f.by \in Context
      BY <1>3, <2>1 DEF BInv, TypeOK, Field
    <3> QED
      BY <1>1, <1>3, <1>4, <2>1, <3>1 DEF Numbered
  <2>2. ASSUME NEW b \in Live', NEW i \in Filled(b)'
        PROVE  LET f == Line(b, i)'
               IN  /\ f.n <= made'[f.by] /\ f.epoch = epoch'
                   /\ pc'[f.by] \in {"load", "size", "take", "open"} => f.n < made'[f.by]
                   /\ f \in accepted' \/ (pc'[f.by] = "fill" /\ f = field'[f.by])
    <3> DEFINE f == Line(b, i)
    <3>1. b \in Live /\ i \in Filled(b) /\ Line(b, i)' = f /\ f.by \in Context
      BY <1>1, <1>2, <2>2, LineTyped
    <3>2. f.n <= made[f.by] /\ f.epoch = epoch /\ (f \in accepted \/ pc[f.by] = "fill")
      BY <1>1, <3>1 DEF Numbered
    <3> HIDE DEF f
    <3>3. pc[f.by] # "fill"
      BY <1>2, <3>1 DEF NobodyWrites
    <3> QED
      BY <1>3, <1>4, <3>1, <3>2, <3>3
  <2> QED
    BY <1>4, <2>1, <2>2, Zenon DEF Numbered, Seeking
<1> QED
  BY <1>5, <1>6, <1>7, <1>8, <1>9, <1>10, TransmitExact DEF LineInv

(* ------------------- the line over a whole execution ------------------- *)

(* Every step keeps the line.                                              *)
LEMMA LineStep ==
    ASSUME BInv, LineInv, [Next]_vars
    PROVE  LineInv'
<1>1. ASSUME NEW c \in Context, Interrupt(c) PROVE LineInv'
  <2>1. /\ Begin(c) /\ pc[c] \in {"idle", "start"}
        /\ UNCHANGED <<poolVars, held, myIn, mySize, span, historyVars>>
    BY <1>1 DEF Interrupt, At, sessionVars
  <2> QED
    BY <2>1, BeginLine
<1>2. ASSUME Reply \/ Establish PROVE LineInv'
  <2>1. /\ Begin(0) /\ pc[0] \in {"idle", "start"} /\ 0 \in Context
        /\ UNCHANGED <<poolVars, held, myIn, mySize, span, historyVars>>
    BY <1>2, Sizes DEF Reply, Establish, At, sessionVars, Context
  <2> QED
    BY <2>1, BeginLine
<1>3. ASSUME NEW c \in Context, Take(c) PROVE LineInv'
  BY <1>3, TakeLine, SeekLine
<1>4. ASSUME UNCHANGED vars PROVE LineInv'
  <2>1. UNCHANGED <<in, out, written, data, held, pc, myIn, span, field, made, epoch, sent,
                    accepted, dropped>>
    BY <1>4 DEF vars, poolVars, sessionVars, localVars, historyVars
  <2>2. Reserved /\ Numbered /\ Whole /\ Ordered /\ Reaching /\ Behind /\ Kept /\ SentExact
    BY DEF LineInv
  <2>3. Live' = Live /\ \A b : Filled(b)' = Filled(b)
    BY <2>1 DEF Live, Filled
  <2>4. Reserved' /\ \A slot \in Slot, i \in 0 .. (BatchSize - 1) : Cell(slot, i)' = Cell(slot, i)
    BY <2>1, <2>2, CellStays
  <2>5. \A b \in Live : \A i \in Filled(b) : Line(b, i)' = Line(b, i)
    BY <2>2, <2>4, LiveIn, LineTyped DEF Line
  <2> DEFINE Gone == {}
  <2>6. /\ \A b, i : b \in Live' /\ i \in Filled(b)' <=> b \in Live /\ i \in Filled(b) /\ b \notin Gone
        /\ \A b \in Live : \A i \in Filled(b) :
              IF b \in Gone THEN Line(b, i) \in dropped'
              ELSE b \in Live' /\ i \in Filled(b)' /\ Line(b, i)' = Line(b, i)
    BY <2>3, <2>5
  <2> HIDE DEF Gone
  <2>7. Whole' /\ Ordered' /\ Kept'
    BY <2>1, <2>2, <2>5, <2>6, LineLeaves, KeptStays
  <2>8. Behind' /\ SentExact' /\ Reaching'
    BY <2>1, <2>2, <2>3, <2>5, SentStays, ReachingStays
  <2>9. Numbered'
    <3>1. ASSUME NEW c \in Context, pc[c] \in {"load", "size", "take", "open"} \/ pc[c] = "fill"
          PROVE  field'[c] = [by |-> c, n |-> made'[c], epoch |-> epoch']
      BY <2>1, <2>2, <3>1 DEF Numbered, Seeking
    <3>2. ASSUME NEW f \in accepted
          PROVE  /\ f.n <= made'[f.by]
                 /\ pc'[f.by] \in {"load", "size", "take", "open"} \/ pc'[f.by] = "fill" => f.n < made'[f.by]
      BY <2>1, <2>2, <3>2 DEF Numbered, Seeking
    <3>3. ASSUME NEW b \in Live', NEW i \in Filled(b)'
          PROVE  LET f == Line(b, i)'
                 IN  /\ f.n <= made'[f.by] /\ f.epoch = epoch'
                     /\ pc'[f.by] \in {"load", "size", "take", "open"} => f.n < made'[f.by]
                     /\ f \in accepted' \/ (pc'[f.by] = "fill" /\ f = field'[f.by])
      <4>1. b \in Live /\ i \in Filled(b) /\ Line(b, i)' = Line(b, i)
        BY <2>3, <2>5, <3>3
      <4> QED
        BY <2>1, <2>2, <4>1 DEF Numbered, Seeking
    <3> QED
      BY <2>1, <3>1, <3>2, <3>3 DEF Numbered, Seeking
  <2> QED
    BY <2>4, <2>7, <2>8, <2>9 DEF LineInv
<1> QED
  BY <1>1, <1>2, <1>3, <1>4, SeekLine, FillLine, CalmLine, FinishLine, ActivateLine, ResetLine,
     EmptyLine, TransmitLine DEF Next

(* The inductive invariant: the line of cells still to be sent.            *)
THEOREM LineInvariant == Spec => []LineInv
<1>1. Init => LineInv
  <2> SUFFICES ASSUME Init PROVE LineInv
    OBVIOUS
  <2>1. /\ \A c \in Context : pc[c] = "idle"
        /\ in = 0 /\ out = 0 /\ held = NoSlot /\ sent = <<>> /\ accepted = {}
    BY DEF Init
  <2>2. Live = {}
    BY <2>1 DEF Live
  <2>3. Reserved /\ Numbered
    BY <2>1, <2>2 DEF Reserved, Pends, Numbered, Seeking
  <2>4. Whole /\ Ordered /\ Reaching
    BY <2>2, Zenon DEF Whole, Ordered, Reaching
  <2>5. Behind /\ Kept /\ SentExact
    BY <2>1, <2>2 DEF Behind, Kept, SentExact
  <2> QED
    BY <2>3, <2>4, <2>5 DEF LineInv
<1>2. BInv /\ LineInv /\ [Next]_vars => LineInv'
  BY LineStep
<1> QED
  BY <1>1, <1>2, PoolInvariant, PTL DEF Spec

(* The transport gets whole fields, each once and in order.                *)
THEOREM WholeFieldsSent == Spec => []SentExact
<1>1. LineInv => SentExact
  BY DEF LineInv
<1> QED
  BY <1>1, LineInvariant, PTL

(* Every accepted field is sent, still in the pool, or emptied out.        *)
THEOREM AllAccounted == Spec => []NothingLost
<1>1. BInv /\ LineInv => NothingLost
  <2> SUFFICES ASSUME BInv, LineInv, NEW f \in accepted
               PROVE  f \in Pooled \/ f \in dropped \/ \E k \in 1 .. Len(sent) : sent[k] = f
    BY DEF NothingLost
  <2>1. Reserved /\ Numbered /\ Kept
    BY DEF LineInv
  <2>2. CASE \E b \in Live : \E i \in Filled(b) : Line(b, i) = f
    <3>1. PICK b \in Live : \E i \in Filled(b) : Line(b, i) = f
      BY <2>2
    <3>2. PICK i \in Filled(b) : Line(b, i) = f
      BY <3>1
    <3> DEFINE slot == SlotOf(b)
    <3>3. slot \in Slot /\ i \in 0 .. (BatchSize - 1) /\ Cell(slot, i) = f
      BY <2>1, <3>2, LiveIn, LineTyped DEF Line
    <3>4. slot = held \/ Open(slot)
      BY LiveIn DEF Open, BInv, TypeOK
    <3>5. i \in 0 .. (written[slot] - 1)
      BY DEF Filled
    <3> HIDE DEF slot
    <3>6. \A c \in Context : ~Pends(c, slot, i)
      <4> SUFFICES ASSUME NEW c \in Context, Pends(c, slot, i) PROVE FALSE
        OBVIOUS
      <4>1. f = field[c] /\ pc[c] = "fill"
        BY <2>1, <3>3, CellIs DEF Pends
      <4>2. f.by = c /\ f.n = made[c] /\ f.n < made[c] /\ made[c] \in Nat
        BY <2>1, <4>1 DEF Numbered, BInv, TypeOK
      <4> QED
        BY <4>2
    <3>7. data[slot][i] = f
      BY <2>1, <3>3, <3>6, CellIs
    <3> QED
      BY <3>3, <3>4, <3>5, <3>7 DEF Pooled, Fields
  <2> QED
    BY <2>1, <2>2 DEF Kept
<1> QED
  BY <1>1, PoolInvariant, LineInvariant, PTL

(* What a session sends was written after the pool was emptied for it.     *)
THEOREM OnlyThisSession == Spec => NothingFromBefore
<1>1. BInv /\ LineInv /\ [Next]_vars
        => [\A i \in (Len(sent) + 1) .. Len(sent') : sent'[i].epoch = epoch]_vars
  <2> SUFFICES ASSUME BInv, LineInv, [Next]_vars, NEW i \in (Len(sent) + 1) .. Len(sent')
               PROVE  sent'[i].epoch = epoch
    OBVIOUS
  <2>1. CASE sent' = sent
    BY <2>1 DEF BInv, TypeOK
  <2>2. CASE Transmit
    <3> DEFINE h == out - 1
               j == i - Len(sent) - 1
    <3>1. h \in Live /\ j \in Filled(h) /\ sent'[i] = Line(h, j)
      <4>1. Len(sent) \in Nat
        BY DEF BInv, TypeOK
      <4>2. /\ h \in Live /\ Len(sent') \in Nat
            /\ \A k \in 1 .. Len(sent') :
                  k > Len(sent) => /\ k - Len(sent) - 1 \in Filled(h)
                                   /\ sent'[k] = Line(h, k - Len(sent) - 1)
        BY <2>2, TransmitSends
      <4>3. i \in 1 .. Len(sent') /\ i > Len(sent)
        BY <4>1, <4>2
      <4> HIDE DEF h
      <4> QED
        BY <4>2, <4>3
    <3> HIDE DEF h, j
    <3> QED
      BY <3>1 DEF LineInv, Numbered
  <2>3. sent' = sent \/ Transmit
    BY DEF Next, vars, historyVars, Interrupt, LoadIn, LoadSize, Take, Refuse, OpenBatch, Fill,
           PopBatch, StoreOut, FinishBatch, Deactivate, Reply, Activate, Clear, Reset, Empty,
           Establish
  <2> QED
    BY <2>1, <2>2, <2>3
<1> QED
  BY <1>1, PoolInvariant, LineInvariant, PTL DEF Spec, NothingFromBefore
=============================================================================
