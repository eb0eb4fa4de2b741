----------------------------- MODULE BatchBuffer -----------------------------
(***************************************************************************)
(* The uplink batch pool of a board (InterruptSafeBuffer) and the part of  *)
(* HostSession that empties it.  Producers are nested interrupts and the   *)
(* main loop itself: each reserves room in the newest open batch with a    *)
(* compare-and-swap, or opens another one, and fills what it reserved.     *)
(* The main loop alone pops a batch, holds it until the transport took it, *)
(* releases it, and empties the pool for a new session.                    *)
(*                                                                         *)
(* A context is its priority: 0 is the main loop, higher ones preempt      *)
(* lower ones and run to completion.  So nothing but a higher context runs *)
(* between two steps of one, and out_ and is_locked_, which only the main  *)
(* loop writes, are constant while an interrupt is active.  A buffer cell  *)
(* holds the field whose bytes are in it.  in_ and out_ are size_t and     *)
(* kBatchCount divides 2^32, so they are natural numbers here.             *)
(***************************************************************************)
EXTENDS Naturals, Sequences, SequencesExt

CONSTANTS Levels,      \* priority levels above the main loop
          Batches,     \* kBatchCount
          BatchSize,   \* kProtocolBufferSize
          FieldSize,   \* [Context -> 1 .. BatchSize] the fields a context writes
          MaxFields,   \* [Context -> Nat] bound: fields a context ever writes
          MaxStarts,   \* bound: kStarts with a new nonce
          UsbGate      \* the drivers' gate is session_established(), as in the
                       \* USB application; else it is uplink_enabled()

Context == 0 .. Levels

ASSUME BatchAssumption ==
    /\ Levels \in Nat
    /\ Batches \in Nat /\ Batches >= 2
    /\ BatchSize \in Nat \ {0}
    /\ FieldSize \in [Context -> 1 .. BatchSize]
    /\ MaxFields \in [Context -> Nat]
    /\ MaxStarts \in Nat
    /\ UsbGate \in BOOLEAN

Slot == 0 .. (Batches - 1)
NoSlot == Batches

VARIABLES
    in, out, locked,     \* in_, out_, is_locked_
    written,             \* [Slot] written_size_
    data,                \* [Slot] data_, a field or NoField in each cell
    held,                \* transmitting_batch_, or NoSlot
    established, enabled,     \* the session is up, its uplink gate is open
    pc,                  \* [Context] where it stands
    myIn, mySize,        \* [Context] its copies of in_ and of written_size_
    span,                \* [Context] the room it reserved: [slot, from]
    field,               \* [Context] the field it is writing
    made,                \* [Context] fields begun so far
    epoch,               \* history: how often the pool was emptied
    sent,                \* history: the cells given to the transport, in order
    accepted, dropped    \* history: fields filled, fields emptied out

poolVars == <<in, out, locked, written, data>>
sessionVars == <<held, established, enabled>>
localVars == <<pc, myIn, mySize, span, field, made>>
historyVars == <<epoch, sent, accepted, dropped>>
vars == <<poolVars, sessionVars, localVars, historyVars>>

Field == [by : Context, n : Nat, epoch : Nat]
NoField == [by |-> 0, n |-> 0, epoch |-> 0]

SlotOf(index) == index % Batches

(* The batches between out_ and in_, and those in the transport's hands.   *)
Open(slot) == \E i \in out .. (in - 1) : slot = SlotOf(i)
Fields(slot) == {data[slot][i] : i \in 0 .. (written[slot] - 1)}
Pooled == UNION {Fields(slot) : slot \in {s \in Slot : Open(s) \/ s = held}}

Init ==
    /\ in = 0 /\ out = 0 /\ locked = FALSE
    /\ written = [s \in Slot |-> 0]
    /\ data = [s \in Slot |-> [i \in 0 .. (BatchSize - 1) |-> NoField]]
    /\ held = NoSlot /\ established = FALSE /\ enabled = FALSE
    /\ pc = [c \in Context |-> "idle"]
    /\ myIn = [c \in Context |-> 0] /\ mySize = [c \in Context |-> 0]
    /\ span = [c \in Context |-> [slot |-> 0, from |-> 0]]
    /\ field = [c \in Context |-> NoField] /\ made = [c \in Context |-> 0]
    /\ epoch = 0 /\ sent = <<>> /\ accepted = {} /\ dropped = {}

Runs(c) == \A d \in Context : d > c => pc[d] = "idle"
Goto(c, label) == pc' = [pc EXCEPT ![c] = label]
At(c, label) == pc[c] = label /\ Runs(c)
-----------------------------------------------------------------------------
(* InterruptSafeBuffer::allocate, in any context.  A driver's interrupt    *)
(* looks at the uplink gate first; a pool that is being emptied refuses.   *)
NewField(c) == [by |-> c, n |-> made[c] + 1, epoch |-> epoch]

Begin(c) ==
    /\ made[c] < MaxFields[c]
    /\ made' = [made EXCEPT ![c] = @ + 1]
    /\ field' = [field EXCEPT ![c] = NewField(c)]
    /\ Goto(c, "load")

Interrupt(c) ==
    /\ c > 0 /\ At(c, "idle")
    /\ enabled \/ (UsbGate /\ established)
    /\ ~locked
    /\ Begin(c)
    /\ UNCHANGED <<poolVars, sessionVars, myIn, mySize, span, historyVars>>

(* Load in_ and try the newest open batch, if there is one.                *)
LoadIn(c) ==
    /\ At(c, "load")
    /\ myIn' = [myIn EXCEPT ![c] = in]
    /\ Goto(c, IF in = out THEN "open" ELSE "size")
    /\ UNCHANGED <<poolVars, sessionVars, mySize, span, field, made, historyVars>>

Newest(c) == SlotOf(myIn[c] - 1)

LoadSizeUnchecked(c) ==           \* slip: the room left is not looked at
    /\ At(c, "size")
    /\ mySize' = [mySize EXCEPT ![c] = written[Newest(c)]]
    /\ Goto(c, "take")
    /\ UNCHANGED <<poolVars, sessionVars, myIn, span, field, made, historyVars>>

LoadSize(c) ==
    /\ At(c, "size")
    /\ mySize' = [mySize EXCEPT ![c] = written[Newest(c)]]
    /\ Goto(c, IF BatchSize - written[Newest(c)] < FieldSize[c] THEN "open" ELSE "take")
    /\ UNCHANGED <<poolVars, sessionVars, myIn, span, field, made, historyVars>>

(* Slip: the size is stored without comparing it.                          *)
TakeBlind(c) ==
    /\ At(c, "take")
    /\ written' = [written EXCEPT ![Newest(c)] = mySize[c] + FieldSize[c]]
    /\ span' = [span EXCEPT ![c] = [slot |-> Newest(c), from |-> mySize[c]]]
    /\ Goto(c, "fill")
    /\ UNCHANGED <<in, out, locked, data, sessionVars, myIn, mySize, field, made,
                   historyVars>>

(* The compare-and-swap of written_size_ reserves the room.                *)
Take(c) ==
    /\ At(c, "take")
    /\ IF written[Newest(c)] = mySize[c]
       THEN /\ written' = [written EXCEPT ![Newest(c)] = @ + FieldSize[c]]
            /\ span' = [span EXCEPT ![c] = [slot |-> Newest(c), from |-> mySize[c]]]
            /\ Goto(c, "fill")
       ELSE Goto(c, "size") /\ UNCHANGED <<written, span>>
    /\ UNCHANGED <<in, out, locked, data, sessionVars, myIn, mySize, field, made,
                   historyVars>>

(* A reply of the session opens the gate of the drivers.                   *)
Return(c) == /\ Goto(c, "idle")
             /\ enabled' = (enabled \/ c = 0)

WritableWithHeld(c) == Batches - (myIn[c] - out)   \* slip: no slot is kept for the held batch
Writable(c) == Batches - (myIn[c] - out) - 1

Refuse(c) ==
    /\ At(c, "open") /\ Writable(c) = 0
    /\ Return(c)
    /\ UNCHANGED <<poolVars, held, established, myIn, mySize, span, field, made,
                   historyVars>>

(* Slip: in_ is advanced without comparing it.                             *)
OpenBatchBlind(c) ==
    /\ At(c, "open") /\ Writable(c) # 0
    /\ in' = in + 1
    /\ Goto(c, "load")
    /\ UNCHANGED <<out, locked, written, data, sessionVars, myIn, mySize, span,
                   field, made, historyVars>>

(* The compare-and-swap of in_; in either case the search starts again.    *)
OpenBatch(c) ==
    /\ At(c, "open") /\ Writable(c) # 0
    /\ in' = IF in = myIn[c] THEN in + 1 ELSE in
    /\ Goto(c, "load")
    /\ UNCHANGED <<out, locked, written, data, sessionVars, myIn, mySize, span,
                   field, made, historyVars>>

(* The serializer writes the field into the room it was given.             *)
Fill(c) ==
    /\ At(c, "fill")
    /\ data' = [data EXCEPT ![span[c].slot] = [i \in DOMAIN @ |->
                   IF i \in span[c].from .. (span[c].from + FieldSize[c] - 1)
                   THEN field[c] ELSE @[i]]]
    /\ accepted' = accepted \cup {field[c]}
    /\ Return(c)
    /\ UNCHANGED <<in, out, locked, written, held, established, myIn, mySize, span,
                   field, made, epoch, sent, dropped>>
-----------------------------------------------------------------------------
(* The main loop.  pop_batch loads both indices and looks at the oldest    *)
(* batch, then takes it by storing out_.                                   *)
PopBatch ==
    /\ At(0, "idle") /\ established /\ held = NoSlot
    /\ in # out /\ written[SlotOf(out)] # 0
    /\ Goto(0, "pop")
    /\ UNCHANGED <<poolVars, sessionVars, myIn, mySize, span, field, made, historyVars>>

StoreOut ==
    /\ At(0, "pop")
    /\ out' = out + 1
    /\ held' = SlotOf(out)
    /\ Goto(0, "idle")
    /\ UNCHANGED <<in, locked, written, data, established, enabled, myIn, mySize,
                   span, field, made, historyVars>>

(* The transport takes the held batch as a whole, and it is released.      *)
Transmit ==
    /\ At(0, "idle") /\ established /\ held # NoSlot
    /\ sent' = sent \o [i \in 1 .. written[held] |-> data[held][i - 1]]
    /\ Goto(0, "release")
    /\ UNCHANGED <<poolVars, sessionVars, myIn, mySize, span, field, made, epoch,
                   accepted, dropped>>

ReleaseNot(slot) == UNCHANGED written   \* slip: the batch keeps its size
Release(slot) == written' = [written EXCEPT ![slot] = 0]

FinishBatch ==
    /\ At(0, "release")
    /\ Release(held)
    /\ held' = NoSlot
    /\ Goto(0, "idle")
    /\ UNCHANGED <<in, out, locked, data, established, enabled, myIn, mySize, span,
                   field, made, historyVars>>

(* The lease runs out, or the link restarts: deactivate_session.           *)
Deactivate ==
    /\ At(0, "idle") /\ established
    /\ established' = FALSE /\ enabled' = FALSE
    /\ UNCHANGED <<poolVars, held, localVars, historyVars>>

(* A keepalive or a kStart of the same nonce is answered, a captured pulse *)
(* or sync sample reported: the main loop queues a field itself.           *)
Reply ==
    /\ At(0, "idle") /\ established
    /\ Begin(0)
    /\ UNCHANGED <<poolVars, sessionVars, myIn, mySize, span, historyVars>>

(* A kStart with a new nonce: activate_session drops the held batch ...    *)
ActivateKeepingHeld ==            \* slip: the held batch goes on
    /\ At(0, "idle") /\ epoch < MaxStarts
    /\ Goto(0, "clear")
    /\ UNCHANGED <<written, held, dropped, in, out, locked, data, established,
                   enabled, myIn, mySize, span, field, made, epoch, sent, accepted>>

Activate ==
    /\ At(0, "idle") /\ epoch < MaxStarts
    /\ IF held = NoSlot
       THEN UNCHANGED <<written, held, dropped>>
       ELSE /\ Release(held)
            /\ held' = NoSlot
            /\ dropped' = dropped \cup Fields(held)
    /\ Goto(0, "clear")
    /\ UNCHANGED <<in, out, locked, data, established, enabled, myIn, mySize, span,
                   field, made, epoch, sent, accepted>>

(* ... and empties the pool, locked: load in_, reset every open batch, and *)
(* move out_ to the in_ loaded.                                            *)
Lock == locked' = TRUE

Clear ==
    /\ At(0, "clear")
    /\ Lock
    /\ myIn' = [myIn EXCEPT ![0] = in]
    /\ Goto(0, "reset")
    /\ UNCHANGED <<in, out, written, data, sessionVars, mySize, span, field, made,
                   historyVars>>

Reset ==
    /\ At(0, "reset")
    /\ written' = [s \in Slot |-> IF \E i \in out .. (myIn[0] - 1) : s = SlotOf(i)
                                  THEN 0 ELSE written[s]]
    /\ dropped' = dropped \cup Pooled
    /\ Goto(0, "empty")
    /\ UNCHANGED <<in, out, locked, data, sessionVars, myIn, mySize, span, field, made,
                   epoch, sent, accepted>>

Empty ==
    /\ At(0, "empty")
    /\ out' = myIn[0]
    /\ locked' = FALSE
    /\ epoch' = epoch + 1
    /\ Goto(0, "start")
    /\ UNCHANGED <<in, written, data, sessionVars, myIn, mySize, span, field, made,
                   sent, accepted, dropped>>

(* The session is up; uplink_enabled_ waits for the kStartAck.             *)
Establish ==
    /\ At(0, "start")
    /\ established' = TRUE /\ enabled' = FALSE
    /\ Begin(0)
    /\ UNCHANGED <<poolVars, held, myIn, mySize, span, historyVars>>

Next ==
    \/ \E c \in Context :
          \/ Interrupt(c)
          \/ LoadIn(c) \/ LoadSize(c) \/ Take(c) \/ Refuse(c) \/ OpenBatch(c) \/ Fill(c)
    \/ PopBatch \/ StoreOut \/ Transmit \/ FinishBatch
    \/ Deactivate \/ Reply
    \/ Activate \/ Clear \/ Reset \/ Empty \/ Establish

Spec == Init /\ [][Next]_vars
-----------------------------------------------------------------------------
Label == {"idle", "load", "size", "take", "open", "fill", "pop", "release",
          "clear", "reset", "empty", "start"}

TypeOK ==
    /\ in \in Nat /\ out \in Nat /\ locked \in BOOLEAN
    /\ written \in [Slot -> 0 .. BatchSize]
    /\ data \in [Slot -> [0 .. (BatchSize - 1) -> Field]]
    /\ held \in Slot \cup {NoSlot}
    /\ established \in BOOLEAN /\ enabled \in BOOLEAN
    /\ pc \in [Context -> Label]
    /\ myIn \in [Context -> Nat] /\ mySize \in [Context -> 0 .. BatchSize]
    /\ span \in [Context -> [slot : Slot, from : 0 .. BatchSize]]
    /\ field \in [Context -> Field] /\ made \in [Context -> Nat]
    /\ epoch \in Nat /\ sent \in Seq(Field)
    /\ accepted \subseteq Field /\ dropped \subseteq Field

(* What the transport gets is a sequence of whole fields, each once: no    *)
(* span is handed over before it was filled, shared by two contexts, or    *)
(* left over from an earlier use of its batch; and the fields of one       *)
(* context leave in the order it wrote them.                               *)
SentExact ==
    \A i \in 1 .. Len(sent) :
        LET f == sent[i]
            cells == {j \in 1 .. Len(sent) : sent[j] = f}
        IN  /\ f \in accepted
            /\ \E first \in 1 .. Len(sent) : cells = first .. (first + FieldSize[f.by] - 1)
            /\ \A j \in 1 .. (i - 1) : sent[j].by = f.by => sent[j].n <= f.n

(* A field that was accepted is sent, still in the pool, or was emptied    *)
(* out by a new session; nothing falls through the cracks between a        *)
(* producer, a pop and a release.                                          *)
NothingLost ==
    accepted \subseteq Pooled \cup dropped \cup {sent[i] : i \in 1 .. Len(sent)}

(* No context leaves an empty batch behind, which would stop pop_batch     *)
(* although later batches hold fields.                                     *)
NoEmptyBatch ==
    (\A c \in Context : pc[c] = "idle")
        => \A i \in out .. (in - 1) : written[SlotOf(i)] # 0

(* While the transport holds a batch its size and its bytes stand still,   *)
(* so that a transfer in several packets, or one tried again, goes on      *)
(* where it left off (host_session.hpp:103-108).                           *)
Bytes(slot) == [i \in 1 .. written[slot] |-> data[slot][i - 1]]
HeldFrozen == [][held # NoSlot /\ held' = held => Bytes(held)' = Bytes(held)]_vars

(* What a session sends was written after the pool was emptied for it:     *)
(* "the in-flight batch and all pending batches were just dropped"         *)
(* (host_session.hpp:127-128).                                             *)
NothingFromBefore ==
    [][\A i \in (Len(sent) + 1) .. Len(sent') : sent'[i].epoch = epoch]_vars
-----------------------------------------------------------------------------
(* The inductive invariant behind HeldFrozen: the open batches and the one *)
(* held are different slots, every other slot is empty, and what a context *)
(* is about to write lies in an open batch.                                *)
Window ==
    /\ out <= in /\ in - out <= Batches - 1
    /\ held # NoSlot => out >= 1 /\ held = SlotOf(out - 1)
    /\ \A s \in Slot : ~Open(s) /\ s # held => written[s] = 0

Working(c) ==
    /\ c > 0 => pc[c] \in {"idle", "load", "size", "take", "open", "fill"}
    /\ pc[c] \in {"size", "take"} => out < myIn[c] /\ myIn[c] <= in
    /\ pc[c] = "open" => out <= myIn[c] /\ myIn[c] <= in
    /\ pc[c] = "take" => mySize[c] + FieldSize[c] <= BatchSize
    /\ pc[c] = "fill" => Open(span[c].slot)

MainLoop ==
    /\ pc[0] = "pop" => in # out /\ held = NoSlot
    /\ pc[0] = "release" => held # NoSlot
    /\ pc[0] \in {"clear", "reset", "empty", "start"} => held = NoSlot
    /\ locked => pc[0] \in {"reset", "empty"}
    /\ pc[0] \in {"reset", "empty"} =>
          /\ locked /\ myIn[0] = in
          /\ \A c \in Context : c > 0 => pc[c] = "idle"
    /\ pc[0] = "empty" => \A s \in Slot : written[s] = 0

BInv == TypeOK /\ Window /\ (\A c \in Context : Working(c)) /\ MainLoop
-----------------------------------------------------------------------------
(* Why no empty batch is left behind: only the newest one can be empty,    *)
(* and then the context that will write to it is under way; and who opens  *)
(* another one has found the newest too full.                              *)
OnlyNewestEmpty ==
    /\ pc[0] # "empty" =>
          \A i \in out .. (in - 1) : written[SlotOf(i)] = 0 =>
             /\ i = in - 1
             /\ \E c \in Context : \/ pc[c] = "load"
                                   \/ pc[c] \in {"size", "take"} /\ myIn[c] = in
    /\ \A c \in Context :
          pc[c] = "open" /\ myIn[c] = in /\ in # out => written[SlotOf(in - 1)] # 0

(* What is still to be sent, in order: the held batch until the transport  *)
(* took it, and the open ones.  A cell that is reserved counts as holding  *)
(* the field that will be written to it.                                   *)
Pends(c, slot, i) == /\ pc[c] = "fill" /\ span[c].slot = slot
                     /\ i \in span[c].from .. (span[c].from + FieldSize[c] - 1)
Cell(slot, i) == IF \E c \in Context : Pends(c, slot, i)
                 THEN field[CHOOSE c \in Context : Pends(c, slot, i)] ELSE data[slot][i]
Live == (out .. (in - 1)) \cup (IF held # NoSlot /\ pc[0] # "release" THEN {out - 1} ELSE {})
Filled(b) == 0 .. (written[SlotOf(b)] - 1)
Line(b, i) == Cell(SlotOf(b), i)

(* Reservations lie within their batch and apart from each other.          *)
Reserved ==
    /\ \A c \in Context : pc[c] = "fill" => span[c].from + FieldSize[c] <= written[span[c].slot]
    /\ \A c, d \in Context, slot \in Slot, i \in 0 .. (BatchSize - 1) :
          Pends(c, slot, i) /\ Pends(d, slot, i) => c = d

(* Fields are numbered by the context that makes them: the one being made  *)
(* is the latest, and the others that were accepted or are in the line     *)
(* came before it.                                                         *)
Seeking(c) == pc[c] \in {"load", "size", "take", "open"}
Numbered ==
    /\ \A c \in Context : Seeking(c) \/ pc[c] = "fill"
                          => field[c] = [by |-> c, n |-> made[c], epoch |-> epoch]
    /\ \A f \in accepted : /\ f.n <= made[f.by]
                           /\ Seeking(f.by) \/ pc[f.by] = "fill" => f.n < made[f.by]
    /\ \A b \in Live : \A i \in Filled(b) :
          LET f == Line(b, i)
          IN  /\ f.n <= made[f.by] /\ f.epoch = epoch
              /\ Seeking(f.by) => f.n < made[f.by]
              /\ f \in accepted \/ (pc[f.by] = "fill" /\ f = field[f.by])

(* The line consists of whole fields, each of them once ...                *)
Whole ==
    \A b \in Live : \A i \in Filled(b) : \E first \in Filled(b) :
        LET last == first + FieldSize[Line(b, i).by] - 1
        IN  /\ last \in Filled(b)
            /\ \A d \in Live : \A j \in Filled(d) :
                  Line(d, j) = Line(b, i) <=> d = b /\ j \in first .. last

(* ... in the order their context made them ...                            *)
Ordered ==
    \A b, d \in Live : \A i \in Filled(b), j \in Filled(d) :
        (b < d \/ (b = d /\ i <= j)) /\ Line(b, i).by = Line(d, j).by
            => Line(b, i).n <= Line(d, j).n

(* ... nothing of a context behind the batch it is about to reserve in ... *)
Reaching ==
    \A c \in Context : pc[c] \in {"size", "take"} =>
        \A b \in Live : \A i \in Filled(b) : Line(b, i).by = c => b < myIn[c]

(* ... and after what was sent already.                                    *)
Behind ==
    \A k \in 1 .. Len(sent) : \A b \in Live : \A i \in Filled(b) :
        /\ Line(b, i) # sent[k]
        /\ Line(b, i).by = sent[k].by => sent[k].n <= Line(b, i).n

(* An accepted field is in the line, was sent, or was emptied out.         *)
Kept ==
    \A f \in accepted : \/ f \in dropped
                        \/ \E k \in 1 .. Len(sent) : sent[k] = f
                        \/ \E b \in Live : \E i \in Filled(b) : Line(b, i) = f

LineInv == Reserved /\ Numbered /\ Whole /\ Ordered /\ Reaching /\ Behind /\ Kept /\ SentExact
=============================================================================
