---------------------------- MODULE InputRefresh ----------------------------
(***************************************************************************)
(* The slave's input image is rebuilt from three contexts of one core:     *)
(* the ESC's PDI interrupt (after the output mapping), the uplink doorbell *)
(* interrupt below it, and the SSC main loop (ecat_appl.c).  All of them   *)
(* run BasicPdStreamEndpoint::build_own_chunk on the same endpoint and pop *)
(* the same ring, and nothing in there is atomic: what keeps two rebuilds  *)
(* apart is only which interrupts are masked around them.                  *)
(*                                                                         *)
(* PdStream takes a rebuild as one step; this module opens it.  The uplink *)
(* alone is modelled, against a host that takes every frame.  A byte is    *)
(* its position in the uplink stream.                                      *)
(*                                                                         *)
(* DISABLE_ESC_INT and ENABLE_ESC_INT come from the vendor's port and are  *)
(* taken to do what ecat_appl.c says of them: mask and unmask the ESC      *)
(* interrupt, nothing else, without counting.                              *)
(***************************************************************************)
EXTENDS Naturals, Sequences, FiniteSets

CONSTANTS Window,        \* kPdWindow
          SeqMax,        \* 255
          StallFrames,   \* kGoBackStallFrames
          StreamSize,    \* bound: bytes core0 ever pushes
          MaskDoorbell   \* the main loop masks the doorbell: TRUE in core0's
                         \* ecat_appl.c, FALSE in core1_ecat's

ASSUME RefreshAssumption ==
    /\ Window \in Nat \ {0} /\ SeqMax \in Nat /\ SeqMax > Window
    /\ StallFrames \in Nat \ {0}
    /\ StreamSize \in Nat
    /\ MaskDoorbell \in BOOLEAN

Context == {"main", "doorbell", "pdi"}
Slot == 0 .. (Window - 1)
NoSlot == Window

VARIABLES
    written,     \* bytes core0 has pushed into the up ring
    popped,      \* the ring's out_ index
    head, count, sendOffset, stall, mayStage, txSeq, peerAck,  \* the endpoint
    slots,       \* [Slot -> [seq, byte]]: one byte of payload, 0 = none
    image,       \* the ESC input image: [seq, byte], byte 0 when idle
    pc,          \* [Context] where each context stands
    credit,      \* [Context] build_own_chunk's frame_credit
    shown,       \* [Context] the slot "out" points to, or NoSlot
    next,        \* [Context] the out_ index its pop is about to store
    escMasked, bellMasked,   \* interrupt masks
    event, bell,             \* interrupts pending
    outputs,     \* the ack in the ESC output image
    hostAck,     \* the host's rx_ack_
    received     \* bytes the host has taken, in order

endpointVars == <<head, count, sendOffset, stall, mayStage, txSeq, peerAck, slots>>
buildVars == <<credit, shown, next>>
irqVars == <<escMasked, bellMasked, event, bell>>
hostVars == <<outputs, hostAck, received>>
vars == <<written, popped, endpointVars, image, pc, buildVars, irqVars, hostVars>>

NextSeq(seq) == IF seq = SeqMax THEN 1 ELSE seq + 1
At(offset) == (head + offset) % Window

Init ==
    /\ written = 0 /\ popped = 0
    /\ head = 0 /\ count = 0 /\ sendOffset = 0 /\ stall = 0
    /\ mayStage = TRUE /\ txSeq = 0 /\ peerAck = 0
    /\ slots = [s \in Slot |-> [seq |-> 0, byte |-> 0]]
    /\ image = [seq |-> 0, byte |-> 0]
    /\ pc = [c \in Context |-> "idle"]
    /\ credit = [c \in Context |-> FALSE]
    /\ shown = [c \in Context |-> NoSlot]
    /\ next = [c \in Context |-> 0]
    /\ escMasked = FALSE /\ bellMasked = FALSE /\ event = FALSE /\ bell = FALSE
    /\ outputs = 0 /\ hostAck = 0 /\ received = <<>>

Goto(c, label) == pc' = [pc EXCEPT ![c] = label]

(* One hart: a context runs only while none that preempted it is active.   *)
Runs(c) == /\ c # "pdi" => pc["pdi"] = "idle"
           /\ c = "main" => pc["doorbell"] = "idle"

AckedPrefix ==
    LET hits == {j \in 1 .. count : slots[At(j - 1)].seq = peerAck}
    IN  IF hits = {} THEN 0 ELSE CHOOSE j \in hits : \A i \in hits : j <= i

UplinkPending == /\ mayStage /\ count - AckedPrefix < Window
                 /\ written > popped
-----------------------------------------------------------------------------
(* Core0 pushes into the up ring, then pokes the doorbell mailbox.         *)
Push ==
    /\ written < StreamSize
    /\ written' = written + 1
    /\ bell' = TRUE
    /\ UNCHANGED <<popped, endpointVars, image, pc, buildVars, hostVars,
                   escMasked, bellMasked, event>>

(* A frame leaves the host's last ack in the output image, takes the input *)
(* image to the host and raises the SM2 event.                             *)
FramePass ==
    /\ outputs' = hostAck
    /\ event' = TRUE
    /\ IF image.byte # 0 /\ image.seq = NextSeq(hostAck)
       THEN /\ hostAck' = image.seq
            /\ received' = Append(received, image.byte)
       ELSE UNCHANGED <<hostAck, received>>
    /\ UNCHANGED <<written, popped, endpointVars, image, pc, buildVars,
                   escMasked, bellMasked, bell>>

(* The PDI interrupt: on_peer_chunk, then straight into the rebuild.       *)
PdiEnter ==
    /\ event /\ ~escMasked /\ pc["pdi"] = "idle"
    /\ event' = FALSE
    /\ peerAck' = outputs
    /\ mayStage' = TRUE
    /\ Goto("pdi", "slide")
    /\ UNCHANGED <<written, popped, head, count, sendOffset, stall, txSeq, slots,
                   image, buildVars, escMasked, bellMasked, bell, hostVars>>

DoorbellEnter ==
    /\ bell /\ ~bellMasked /\ Runs("doorbell") /\ pc["doorbell"] = "idle"
    /\ bell' = FALSE
    /\ Goto("doorbell", "check")
    /\ UNCHANGED <<written, popped, endpointVars, image, buildVars,
                   escMasked, bellMasked, event, hostVars>>

(* Slip: core1_ecat's hook where core0's is meant.                         *)
MainEnterUnmasked ==
    /\ Runs("main") /\ pc["main"] = "idle"
    /\ bellMasked' = FALSE
    /\ Goto("main", "check")
    /\ UNCHANGED <<written, popped, endpointVars, image, buildVars,
                   escMasked, event, bell, hostVars>>

(* pAPPL_MainLoop: core0's hook masks the doorbell first, core1_ecat's     *)
(* hook is the refresh itself.                                             *)
MainEnter ==
    /\ Runs("main") /\ pc["main"] = "idle"
    /\ bellMasked' = MaskDoorbell
    /\ Goto("main", "check")
    /\ UNCHANGED <<written, popped, endpointVars, image, buildVars,
                   escMasked, event, bell, hostVars>>

(* rmcs_input_refresh: nothing pending, nothing to do.                     *)
CheckFails(c) ==
    /\ c \in {"main", "doorbell"} /\ Runs(c) /\ pc[c] = "check"
    /\ ~UplinkPending
    /\ Goto(c, "idle")
    /\ bellMasked' = IF c = "main" THEN FALSE ELSE bellMasked
    /\ UNCHANGED <<written, popped, endpointVars, image, buildVars,
                   escMasked, event, bell, hostVars>>

CheckPasses(c) ==
    /\ c \in {"main", "doorbell"} /\ Runs(c) /\ pc[c] = "check"
    /\ UplinkPending
    /\ Goto(c, "mask")
    /\ UNCHANGED <<written, popped, endpointVars, image, buildVars, irqVars, hostVars>>

(* Slip: the rebuild starts with the ESC interrupt open.                   *)
DisableEscForgotten(c) ==
    /\ c \in {"main", "doorbell"} /\ Runs(c) /\ pc[c] = "mask"
    /\ Goto(c, "slide")
    /\ UNCHANGED <<written, popped, endpointVars, image, buildVars, irqVars, hostVars>>

DisableEsc(c) ==
    /\ c \in {"main", "doorbell"} /\ Runs(c) /\ pc[c] = "mask"
    /\ escMasked' = TRUE
    /\ Goto(c, "slide")
    /\ UNCHANGED <<written, popped, endpointVars, image, buildVars,
                   bellMasked, event, bell, hostVars>>
-----------------------------------------------------------------------------
(* Slip: a late ack after a rewind takes the offset past the window.       *)
SlideUnclamped(c) ==
    /\ Runs(c) /\ pc[c] = "slide"
    /\ LET acked == AckedPrefix IN
       /\ head' = (head + acked) % Window
       /\ count' = count - acked
       /\ stall' = IF acked = 0 THEN stall ELSE 0
    /\ credit' = [credit EXCEPT ![c] = mayStage]
    /\ Goto(c, "pick")
    /\ UNCHANGED <<written, popped, sendOffset, mayStage, txSeq, peerAck, slots,
                   image, shown, next, irqVars, hostVars>>

(* build_own_chunk, opened up: slide the window and read the credit; pick  *)
(* a branch, which may copy bytes out of the ring; store the ring's index; *)
(* commit the new chunk; paint the image.                                  *)
Slide(c) ==
    /\ Runs(c) /\ pc[c] = "slide"
    /\ LET acked == AckedPrefix IN
       /\ head' = (head + acked) % Window
       /\ count' = count - acked
       /\ sendOffset' = IF sendOffset > acked THEN sendOffset - acked ELSE 0
       /\ stall' = IF acked = 0 THEN stall ELSE 0
    /\ credit' = [credit EXCEPT ![c] = mayStage]
    /\ Goto(c, "pick")
    /\ UNCHANGED <<written, popped, mayStage, txSeq, peerAck, slots, image,
                   shown, next, irqVars, hostVars>>

Replays(c) == credit[c] /\ sendOffset < count
(* Slip: a chunk is staged over the oldest one in flight.                  *)
StagesPastWindow(c) == credit[c] /\ ~Replays(c) /\ written > popped

Stages(c) == credit[c] /\ ~Replays(c) /\ count < Window /\ written > popped

PickReplay(c) ==
    /\ Runs(c) /\ pc[c] = "pick"
    /\ Replays(c)
    /\ shown' = [shown EXCEPT ![c] = At(sendOffset)]
    /\ sendOffset' = sendOffset + 1
    /\ mayStage' = FALSE
    /\ Goto(c, "paint")
    /\ UNCHANGED <<written, popped, head, count, stall, txSeq, peerAck, slots,
                   image, credit, next, irqVars, hostVars>>

(* The pop reads both indices and copies into the free slot ...            *)
PickStage(c) ==
    /\ Runs(c) /\ pc[c] = "pick"
    /\ Stages(c)
    /\ shown' = [shown EXCEPT ![c] = At(count)]
    /\ slots' = [slots EXCEPT ![At(count)].byte = popped + 1]
    /\ next' = [next EXCEPT ![c] = popped + 1]
    /\ Goto(c, "pop")
    /\ UNCHANGED <<written, popped, head, count, sendOffset, stall, mayStage,
                   txSeq, peerAck, image, credit, irqVars, hostVars>>

(* ... and then hands the bytes' room back.                                *)
Pop(c) ==
    /\ Runs(c) /\ pc[c] = "pop"
    /\ popped' = next[c]
    /\ Goto(c, "commit")
    /\ UNCHANGED <<written, endpointVars, image, buildVars, irqVars, hostVars>>

Commit(c) ==
    /\ Runs(c) /\ pc[c] = "commit"
    /\ txSeq' = NextSeq(txSeq)
    /\ slots' = [slots EXCEPT ![shown[c]].seq = NextSeq(txSeq)]
    /\ count' = count + 1
    /\ sendOffset' = count + 1
    /\ mayStage' = FALSE
    /\ Goto(c, "paint")
    /\ UNCHANGED <<written, popped, head, stall, peerAck, image, buildVars,
                   irqVars, hostVars>>

PickHold(c) ==
    /\ Runs(c) /\ pc[c] = "pick"
    /\ ~Replays(c) /\ ~Stages(c)
    /\ LET waits == count # 0 /\ credit[c]
           rewinds == waits /\ stall + 1 >= StallFrames
       IN  /\ stall' = IF rewinds THEN 0 ELSE IF waits THEN stall + 1 ELSE stall
           /\ sendOffset' = IF rewinds THEN 0 ELSE sendOffset
           /\ shown' = [shown EXCEPT ![c] =
                           IF count # 0 /\ ~rewinds /\ sendOffset # 0
                           THEN At(sendOffset - 1) ELSE NoSlot]
    /\ Goto(c, "paint")
    /\ UNCHANGED <<written, popped, head, count, mayStage, txSeq, peerAck, slots,
                   image, credit, next, irqVars, hostVars>>

(* Paint, and return from the refresh or the interrupt.                    *)
Paint(c) ==
    /\ Runs(c) /\ pc[c] = "paint"
    /\ image' = IF shown[c] = NoSlot THEN [seq |-> txSeq, byte |-> 0]
                ELSE slots[shown[c]]
    /\ Goto(c, "idle")
    /\ escMasked' = IF c = "pdi" THEN escMasked ELSE FALSE
    /\ bellMasked' = IF c = "main" THEN FALSE ELSE bellMasked
    /\ UNCHANGED <<written, popped, endpointVars, buildVars, event, bell, hostVars>>

Next ==
    \/ Push \/ FramePass
    \/ PdiEnter \/ DoorbellEnter \/ MainEnter
    \/ \E c \in Context :
          \/ CheckFails(c) \/ CheckPasses(c) \/ DisableEsc(c)
          \/ Slide(c) \/ PickReplay(c) \/ PickStage(c) \/ PickHold(c)
          \/ Pop(c) \/ Commit(c) \/ Paint(c)

Spec == Init /\ [][Next]_vars
-----------------------------------------------------------------------------
InBuild(c) == pc[c] \in {"slide", "pick", "pop", "commit", "paint"}

TypeOK ==
    /\ written \in 0 .. StreamSize /\ popped \in 0 .. StreamSize
    /\ head \in Slot /\ count \in 0 .. Window /\ sendOffset \in 0 .. count
    /\ stall \in 0 .. (StallFrames - 1) /\ mayStage \in BOOLEAN
    /\ txSeq \in 0 .. SeqMax /\ peerAck \in 0 .. SeqMax
    /\ slots \in [Slot -> [seq : 0 .. SeqMax, byte : 0 .. StreamSize]]
    /\ image \in [seq : 0 .. SeqMax, byte : 0 .. StreamSize]
    /\ pc \in [Context -> {"idle", "check", "mask", "slide", "pick", "pop",
                           "commit", "paint"}]
    /\ credit \in [Context -> BOOLEAN] /\ shown \in [Context -> Slot \cup {NoSlot}]
    /\ next \in [Context -> 0 .. StreamSize]
    /\ escMasked \in BOOLEAN /\ bellMasked \in BOOLEAN
    /\ event \in BOOLEAN /\ bell \in BOOLEAN
    /\ outputs \in 0 .. SeqMax /\ hostAck \in 0 .. SeqMax
    /\ received \in Seq(1 .. StreamSize)

(* The PDO_InputMapping sites never interleave (ecat_doorbell.h:19-21).    *)
BuildsNeverInterleave ==
    \A c, d \in Context : InBuild(c) /\ InBuild(d) => c = d

(* The host gets the uplink bytes exactly once and in order (ecat_pd.h:13  *)
(* and 24-31), although three contexts take them out of one ring.          *)
UplinkExact == received = [i \in 1 .. Len(received) |-> i]

(* A byte that has left the ring and has not reached the host is still in  *)
(* a slot of the window, or on its way into one.                           *)
NoByteDropped ==
    \A b \in (Len(received) + 1) .. popped :
        \/ \E j \in 1 .. count : slots[At(j - 1)].byte = b
        \/ \E c \in Context : pc[c] = "commit" /\ slots[shown[c]].byte = b
-----------------------------------------------------------------------------
(* Why the rebuilds stay apart where the main loop masks the doorbell: a   *)
(* refresh holds the ESC interrupt masked, and the doorbell and the main   *)
(* loop never refresh at the same time.                                    *)
MaskInv ==
    /\ pc \in [Context -> {"idle", "check", "mask", "slide", "pick", "pop",
                           "commit", "paint"}]
    /\ pc["main"] # "idle" => bellMasked /\ pc["doorbell"] = "idle"
    /\ InBuild("main") \/ InBuild("doorbell") => escMasked
    /\ InBuild("pdi") => ~InBuild("main") /\ ~InBuild("doorbell")

-----------------------------------------------------------------------------
(* Why nothing is lost or doubled while the rebuilds stay apart: the       *)
(* window holds the bytes from the one after Base to Committed, byte b in  *)
(* slot (b - 1) % Window under the number SeqOf(b).                        *)
SeqOf(b) == IF b = 0 THEN 0 ELSE ((b - 1) % SeqMax) + 1

Committed == IF \E c \in Context : pc[c] = "commit" THEN popped - 1 ELSE popped
Base == Committed - count
SlotOf(b) == (b - 1) % Window

WindowFilled ==
    /\ popped <= written
    /\ count <= Committed /\ head = Base % Window /\ txSeq = SeqOf(Committed)
    /\ \A b \in (Base + 1) .. Committed :
          slots[SlotOf(b)] = [seq |-> SeqOf(b), byte |-> b]

(* A byte on its way into the window lies in the slot after the newest,    *)
(* and what a rebuild is about to paint is in the window.                  *)
Building ==
    \A c \in Context :
       /\ pc[c] \in {"pop", "commit"} =>
             /\ count < Window
             /\ shown[c] = SlotOf(Committed + 1)
             /\ slots[shown[c]].byte = Committed + 1
             /\ next[c] = Committed + 1 /\ Committed < written
       /\ pc[c] = "paint" =>
             shown[c] = NoSlot \/ \E b \in (Base + 1) .. Committed : shown[c] = SlotOf(b)

(* The acks on their way back are those of bytes the host has, none older  *)
(* than the window, and the image is within a window of what it has.       *)
Acks ==
    LET n == Len(received) IN
    /\ UplinkExact /\ hostAck = SeqOf(n) /\ n <= Committed
    /\ \E acked, coming \in 0 .. n :
          /\ Base <= acked /\ acked <= coming
          /\ peerAck = SeqOf(acked) /\ outputs = SeqOf(coming)
    /\ image.byte # 0 =>
          /\ image.seq = SeqOf(image.byte)
          /\ image.byte <= Committed /\ n + 1 <= image.byte + Window

RefreshInv == TypeOK /\ MaskInv /\ WindowFilled /\ Building /\ Acks
=============================================================================
