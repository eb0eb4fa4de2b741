---------------------------- MODULE UartBuffers ----------------------------
(***************************************************************************)
(* The serial ports of the board: the transmit buffer that the downlink    *)
(* fills and the main loop hands to the DMA burst by burst                 *)
(* (uart/tx_buffer.hpp), and the receive buffer that the DMA fills and the *)
(* receive interrupts empty (uart/rx_buffer.hpp).  The line of the         *)
(* transmitting port is wired to the receiving one, as in the host's       *)
(* uart_cross_test.cpp.                                                    *)
(*                                                                         *)
(* On the transmit side a byte is its position in the stream the downlink  *)
(* accepted, on the receive side its position on the line, both from 1.    *)
(* The downlink callback may preempt the main loop anywhere: the sources   *)
(* place it in the USB interrupt (vendor.cpp:28) and in tud_task()         *)
(* (can.hpp:410), and the second is a case of the first.                   *)
(*                                                                         *)
(* Outside src/, and modelled from how it is used: the DMA moves one byte  *)
(* per request; the transmit idle flag rises once, when the line has been  *)
(* quiet for 16 bit times, and stays until it is cleared; the receiver     *)
(* raises its idle interrupt earlier, after 10.                            *)
(***************************************************************************)
EXTENDS Naturals, Sequences

CONSTANTS TxSize, RxSize,   \* kBufferSize of either buffer
          IndexMod,         \* 2^16, the range of BufferIndexType
          MaxIdleCount,     \* kMaxIdleCount
          FifoDepth,        \* the UART's transmit FIFO
          MinFragment,      \* kMinFragmentSize
          MaxPayload,       \* kProtocolMaxPayloadSize
          TriggerSize,      \* kBufferTriggerIrqSize
          Backlog,          \* bytes waiting when the DMA's interrupt is served, at most
          MaxWrite,         \* bound: bytes of one write
          StreamSize,       \* bound: bytes the downlink ever gets accepted
          MaxSwitches       \* bound: baudrate requests

ASSUME UartAssumption ==
    /\ TxSize \in Nat \ {0} /\ RxSize \in Nat \ {0}
    /\ IndexMod \in Nat /\ IndexMod > TxSize /\ IndexMod > RxSize
    /\ IndexMod % TxSize = 0 /\ IndexMod % RxSize = 0
    /\ MaxIdleCount \in Nat /\ MaxIdleCount >= 2
    /\ FifoDepth \in Nat \ {0}
    /\ MinFragment \in Nat \ {0} /\ MaxPayload \in Nat /\ TriggerSize \in Nat \ {0}
    /\ MinFragment + TriggerSize <= MaxPayload + 1
    /\ Backlog \in Nat /\ Backlog < RxSize /\ MinFragment + TriggerSize <= Backlog + 1
    /\ MaxWrite \in Nat /\ StreamSize \in Nat /\ MaxSwitches \in Nat

Byte == 1 .. StreamSize
TxCell == 0 .. (TxSize - 1)
NoChunk == [bytes |-> <<>>, idle |-> FALSE]

VARIABLES
    txIn, txOut, inFlight, txData,    \* in_, out_, in_flight_, data_buffer_
    checkpoints,                      \* idle_checkpoints_, a RingBuffer
    boundaryBeforeIn, triggered,      \* idle_boundary_before_in_, tx_triggered_
    step, readable,                   \* where try_dequeue stands, and its local
    dmaAt, dmaLeft,                   \* the transmit channel: next cell, bytes to go
    fifo, line, idleFlag,             \* the transmitter and its line
    rxIn, rxOut,                      \* in_, out_ of the receive buffer
    dmaIrq, idleIrq,                  \* receive interrupts pending
    accepted,                         \* history: bytes the downlink got accepted
    received, last,                   \* history: bytes on the line so far, the last
    boundaries, seams,                \* history: idles asked for and baudrate
                                      \* requests, at or ahead of the line
    discarded,                        \* history: bytes FIFO resets took at the line
    stale,                            \* history: ends of bursts that began with the
                                      \* idle flag up, at or ahead of the line
    switches,
    released,                         \* history: bytes the receive buffer has let go
    uplink                            \* the last chunk sent uplink, if the line has
                                      \* not carried a byte since

producerVars == <<txIn, txData, checkpoints, boundaryBeforeIn, accepted>>
consumerVars == <<txOut, inFlight, triggered, step, readable>>
dmaVars == <<dmaAt, dmaLeft>>
wireVars == <<received, last, boundaries, seams, discarded, stale>>
lineVars == <<fifo, line, wireVars>>
rxVars == <<rxIn, rxOut, released, uplink>>
irqVars == <<dmaIrq, idleIrq>>
vars == <<producerVars, consumerVars, dmaVars, lineVars, idleFlag, rxVars, irqVars, switches>>

IndexWide(n) == n                     \* slip: an index that never wraps
Index(n) == n % IndexMod
Distance(to, from) == Index(to + IndexMod - from)

Init ==
    /\ txIn = 0 /\ txOut = 0 /\ inFlight = 0
    /\ txData = [c \in TxCell |-> 0]
    /\ checkpoints = <<>> /\ boundaryBeforeIn = FALSE /\ triggered = FALSE
    /\ step = "rest" /\ readable = 0
    /\ dmaAt = 0 /\ dmaLeft = 0
    /\ fifo = <<>> /\ line = "idle" /\ idleFlag = FALSE
    /\ rxIn = 0 /\ rxOut = 0 /\ dmaIrq = FALSE /\ idleIrq = FALSE
    /\ accepted = 0 /\ boundaries = {}
    /\ received = 0 /\ last = 0 /\ seams = {} /\ discarded = 0 /\ stale = {}
    /\ switches = 0
    /\ released = 0 /\ uplink = NoChunk
-----------------------------------------------------------------------------
(* TxBuffer::try_enqueue.  A frame that must stand alone gets a checkpoint *)
(* at either end, unless the write before it has left one at the first.    *)
NewCheckpoints(size, idle) ==
    IF ~idle THEN <<>>
    ELSE (IF boundaryBeforeIn THEN <<>> ELSE <<txIn>>)
         \o (IF size = 0 THEN <<>> ELSE <<Index(txIn + size)>>)

Writable == TxSize - Distance(txIn, txOut)

(* What does not fit is refused as a whole.                                *)
Enqueue(size, idle) ==
    /\ accepted + size <= StreamSize
    /\ size <= Writable
    /\ Len(checkpoints) + Len(NewCheckpoints(size, idle)) <= MaxIdleCount
    /\ checkpoints' = checkpoints \o NewCheckpoints(size, idle)
    /\ txData' = [c \in TxCell |->
                    LET ahead == (c + TxSize - (txIn % TxSize)) % TxSize
                    IN  IF ahead < size THEN accepted + ahead + 1 ELSE txData[c]]
    /\ txIn' = Index(txIn + size)
    /\ boundaryBeforeIn' = (idle \/ (size = 0 /\ boundaryBeforeIn))
    /\ accepted' = accepted + size
    /\ boundaries' = boundaries \cup (IF idle THEN {accepted, accepted + size} ELSE {})
    /\ UNCHANGED <<consumerVars, dmaVars, fifo, line, received, last, seams, discarded,
                   stale, idleFlag, rxVars, irqVars, switches>>
-----------------------------------------------------------------------------
(* TxBuffer::try_dequeue, in the main loop: settle the burst that has      *)
(* gone; load in_; go through the checkpoints; start the next burst.       *)
Settle ==
    /\ step = "rest" /\ dmaLeft = 0
    /\ txOut' = Index(txOut + inFlight)
    /\ inFlight' = 0
    /\ step' = "load"
    /\ UNCHANGED <<producerVars, triggered, readable, dmaVars, lineVars, idleFlag,
                   rxVars, irqVars, switches>>

Load ==
    /\ step = "load"
    /\ readable' = Distance(txIn, txOut)
    /\ step' = IF readable' = 0 THEN "rest" ELSE "select"
    /\ UNCHANGED <<producerVars, txOut, inFlight, triggered, dmaVars, lineVars,
                   idleFlag, rxVars, irqVars, switches>>

AtCheckpoint == checkpoints # <<>> /\ Head(checkpoints) = txOut
MustWaitAlways == ~idleFlag           \* slip: the first burst waits for an idle too
MustWait == triggered /\ ~idleFlag

(* The line is not idle yet: try again in the next pass.                   *)
Wait ==
    /\ step = "select" /\ AtCheckpoint /\ MustWait
    /\ step' = "rest" /\ readable' = 0
    /\ UNCHANGED <<producerVars, txOut, inFlight, triggered, dmaVars, lineVars,
                   idleFlag, rxVars, irqVars, switches>>

PassCheckpoint ==
    /\ step = "select" /\ AtCheckpoint /\ ~MustWait
    /\ checkpoints' = Tail(checkpoints)
    /\ UNCHANGED <<txIn, txData, boundaryBeforeIn, accepted, consumerVars,
                   dmaVars, lineVars, idleFlag, rxVars, irqVars, switches>>

ClearFlagNot == UNCHANGED idleFlag    \* slip: an idle before the burst counts as one after it
ClearFlag == idleFlag' = FALSE

(* A burst ends at the next checkpoint; readable holds its size from here. *)
Select ==
    /\ step = "select" /\ ~AtCheckpoint
    /\ readable' = IF checkpoints = <<>> THEN readable
                   ELSE Distance(Head(checkpoints), txOut)
    /\ triggered' = TRUE
    /\ ClearFlag
    /\ step' = "start"
    /\ UNCHANGED <<producerVars, txOut, inFlight, dmaVars, lineVars, rxVars, irqVars, switches>>

TriggerDma ==
    /\ step = "start"
    /\ dmaAt' = txOut % TxSize /\ dmaLeft' = readable
    /\ inFlight' = readable
    /\ readable' = 0
    /\ step' = "rest"
    /\ UNCHANGED <<producerVars, txOut, triggered, lineVars, idleFlag, rxVars, irqVars, switches>>

(* Slip: the count of the aborted burst survives.                          *)
AbortTransmitHalf ==
    /\ dmaAt' = 0 /\ dmaLeft' = 0
    /\ triggered' = FALSE
    /\ UNCHANGED inFlight

AbortTransmit ==
    /\ dmaAt' = 0 /\ dmaLeft' = 0
    /\ triggered' = FALSE
    /\ inFlight' = 0

(* Uart::set_baudrate, between two polls: an accepted rate also empties    *)
(* the FIFO.  The other port follows.                                      *)
SetBaudrate(ok) ==
    /\ step = "rest" /\ switches < MaxSwitches /\ switches' = switches + 1
    /\ AbortTransmit
    /\ fifo' = IF ok THEN <<>> ELSE fifo
    /\ seams' = seams \cup {received + Len(fifo')}
    /\ discarded' = discarded + (Len(fifo) - Len(fifo'))
    /\ stale' = {s \in stale : s <= received + Len(fifo')}
    /\ UNCHANGED <<producerVars, txOut, step, readable, line, received, last,
                   boundaries, idleFlag, rxVars, irqVars>>
-----------------------------------------------------------------------------
(* The hardware.                                                           *)
DmaPush ==
    /\ dmaLeft > 0 /\ Len(fifo) < FifoDepth
    /\ fifo' = Append(fifo, txData[dmaAt])
    /\ dmaLeft' = dmaLeft - 1
    /\ dmaAt' = IF dmaLeft = 1 THEN 0 ELSE (dmaAt + 1) % TxSize
    /\ UNCHANGED <<producerVars, consumerVars, line, wireVars, idleFlag,
                   rxVars, irqVars, switches>>

(* A byte crosses the line and the receiver's DMA stores it.  The DMA's    *)
(* interrupt is served with Backlog bytes waiting at most, so the DMA      *)
(* never laps; the idle interrupt may be late by any number.               *)
Shift ==
    /\ fifo # <<>>
    /\ dmaIrq => received - released < Backlog
    /\ received' = received + 1
    /\ last' = Head(fifo)
    /\ boundaries' = {b \in boundaries : b >= last'}
    /\ seams' = {s \in seams : s > received}
    /\ stale' = {s \in stale : s > received}
    /\ discarded' = 0
    /\ uplink' = NoChunk
    /\ fifo' = Tail(fifo)
    /\ line' = "busy"
    /\ dmaIrq' = (dmaIrq \/ received' % TriggerSize = 0)
    /\ UNCHANGED <<producerVars, consumerVars, dmaVars, idleFlag, rxIn, rxOut, released,
                   idleIrq, switches>>

NothingToSend == fifo = <<>> /\ dmaLeft = 0

RxLineIdle ==
    /\ line = "busy" /\ NothingToSend
    /\ line' = "quiet"
    /\ idleIrq' = TRUE
    /\ UNCHANGED <<producerVars, consumerVars, dmaVars, fifo, wireVars, idleFlag,
                   rxVars, dmaIrq, switches>>

(* Between the clear of the flag and the enable of the DMA, the flag it    *)
(* raises is of the line before the burst.                                 *)
TxLineIdle ==
    /\ line = "quiet" /\ NothingToSend
    /\ line' = "idle"
    /\ idleFlag' = TRUE
    /\ stale' = IF step = "start" THEN {received + readable} ELSE {}
    /\ UNCHANGED <<producerVars, consumerVars, dmaVars, fifo, received, last, boundaries,
                   seams, discarded, rxVars, irqVars, switches>>
-----------------------------------------------------------------------------
(* RxBuffer::update_in.  The DMA's position is known modulo RxSize.        *)
DmaOffset == received % RxSize
UpdateInUnlapped == (rxIn - (rxIn % RxSize)) + DmaOffset    \* slip: never the next lap
UpdateIn == LET same == (rxIn - (rxIn % RxSize)) + DmaOffset
            IN  Index(IF same < rxIn THEN same + RxSize ELSE same)

(* What the DMA stored last at an index.                                   *)
RxData(index) ==
    CHOOSE i \in 1 .. received :
        /\ (i - 1) % RxSize = index % RxSize
        /\ \A j \in (i + 1) .. received : (j - 1) % RxSize # index % RxSize

(* Slip: nothing readable, nothing to report.                              *)
HoldsBackEmpty(count, idle) == count = 0 \/ (~idle /\ count < MinFragment)
HoldsBack(count, idle) == ~idle /\ count < MinFragment

(* RxBuffer::try_dequeue.  More than a field can carry is thrown away.     *)
Serve(idle) ==
    LET count == Distance(UpdateIn, rxOut)
    IN  /\ rxIn' = UpdateIn
        /\ IF HoldsBack(count, idle)
           THEN UNCHANGED <<rxOut, released, uplink>>
           ELSE /\ rxOut' = Index(rxOut + count)
                /\ released' = released + count
                /\ uplink' = IF count > MaxPayload THEN NoChunk
                             ELSE [bytes |-> [i \in 1 .. count |-> RxData(rxOut + i - 1)],
                                   idle |-> idle]

DmaTcHalfTcCallback ==
    /\ dmaIrq /\ dmaIrq' = FALSE
    /\ Serve(FALSE)
    /\ UNCHANGED <<producerVars, consumerVars, dmaVars, lineVars, idleFlag, idleIrq, switches>>

RxIdleCallback ==
    /\ idleIrq /\ idleIrq' = FALSE
    /\ Serve(TRUE)
    /\ UNCHANGED <<producerVars, consumerVars, dmaVars, lineVars, idleFlag, dmaIrq, switches>>

TryDequeue == Settle \/ Load \/ Wait \/ PassCheckpoint \/ Select \/ TriggerDma
Hardware == DmaPush \/ Shift \/ RxLineIdle \/ TxLineIdle
RxCallbacks == DmaTcHalfTcCallback \/ RxIdleCallback

Next == \/ \E size \in 0 .. MaxWrite, idle \in BOOLEAN : Enqueue(size, idle)
        \/ Settle \/ Load \/ Wait \/ PassCheckpoint \/ Select \/ TriggerDma
        \/ \E ok \in BOOLEAN : SetBaudrate(ok)
        \/ DmaPush \/ Shift \/ RxLineIdle \/ TxLineIdle
        \/ DmaTcHalfTcCallback \/ RxIdleCallback

Spec == Init /\ [][Next]_vars

(* The main loop polls for ever, the hardware does not stop and pending    *)
(* interrupts are served.                                                  *)
Fairness == WF_vars(TryDequeue) /\ WF_vars(Hardware) /\ WF_vars(RxCallbacks)

FairSpec == Spec /\ Fairness
-----------------------------------------------------------------------------
TypeOK ==
    /\ txIn \in 0 .. (IndexMod - 1) /\ txOut \in 0 .. (IndexMod - 1)
    /\ inFlight \in 0 .. TxSize /\ txData \in [TxCell -> 0 .. StreamSize]
    /\ checkpoints \in Seq(0 .. (IndexMod - 1)) /\ Len(checkpoints) <= MaxIdleCount
    /\ boundaryBeforeIn \in BOOLEAN /\ triggered \in BOOLEAN
    /\ step \in {"rest", "load", "select", "start"} /\ readable \in 0 .. TxSize
    /\ dmaAt \in TxCell /\ dmaLeft \in 0 .. inFlight
    /\ fifo \in Seq(Byte) /\ Len(fifo) <= FifoDepth
    /\ line \in {"busy", "quiet", "idle"} /\ idleFlag \in BOOLEAN
    /\ rxIn \in 0 .. (IndexMod - 1) /\ rxOut \in 0 .. (IndexMod - 1)
    /\ dmaIrq \in BOOLEAN /\ idleIrq \in BOOLEAN
    /\ accepted \in 0 .. StreamSize /\ boundaries \subseteq 0 .. StreamSize
    /\ received \in Nat /\ last \in Byte \cup {0}
    /\ seams \subseteq Nat /\ discarded \in Nat /\ stale \subseteq Nat
    /\ released \in 0 .. received /\ switches \in 0 .. MaxSwitches
    /\ uplink \in [bytes : Seq(1 .. received), idle : BOOLEAN]

Seam == received \in seams

(* The line carries the accepted bytes in order, none skipped and none     *)
(* twice, whatever is written while the DMA reads.  Only where a baudrate  *)
(* request cut in may it go back, by a burst at most, and skip what the    *)
(* FIFO reset threw away; a rejected rate skips nothing (uart.hpp:84-88).  *)
TxExact ==
    [][received' # received =>
         IF Seam THEN last' <= last + 1 + discarded /\ last' + TxSize > last
         ELSE last' = last + 1]_vars

(* Where the host asked for an idle, the line goes idle between the two    *)
(* bytes, unless a baudrate request fell between them.  One idle may be    *)
(* missed: the one behind a burst that began with the flag up, because the *)
(* line before it went idle between the clear and the enable.              *)
IdleKept ==
    [][received' # received /\ received # 0 /\ last \in boundaries /\ last' = last + 1
         => line = "idle" \/ Seam \/ received \in stale]_vars

(* A chunk sent uplink holds the bytes that follow those released before,  *)
(* each from its own place in the line, however the DMA's position and the *)
(* indices have wrapped.                                                   *)
RxExact ==
    \A i \in 1 .. Len(uplink.bytes) :
        uplink.bytes[i] = released - Len(uplink.bytes) + i

(* An idle period of the line is reported behind every byte before it,     *)
(* also when no byte is left to report with it (uart_cross_test.cpp:41-46),*)
(* unless more bytes were waiting than a field can carry.                  *)
IdleReported ==
    [][idleIrq /\ ~idleIrq' =>
         released' = received /\ (uplink'.idle \/ received - released > MaxPayload)]_vars

(* What was accepted leaves the board, and what the line carried reaches   *)
(* the uplink, without anything further being written.                     *)
UartDelivers ==
    []<>(txIn = txOut /\ inFlight = 0 /\ NothingToSend /\ released = received)
-----------------------------------------------------------------------------
(* Why the transmit side keeps TxExact and IdleKept.  Positions count the  *)
(* bytes before them: out is what the downlink has got out of its buffer,  *)
(* marks[i] is where the line has to go idle for checkpoint i.  The        *)
(* indices stand for these positions, and the buffer holds what was        *)
(* accepted behind out.                                                    *)
Buffered(out) ==
    /\ txOut = out % IndexMod /\ txIn = accepted % IndexMod
    /\ accepted - out <= TxSize
    /\ out + inFlight <= accepted
    /\ \A p \in out .. (accepted - 1) : txData[p % TxSize] = p + 1
    /\ dmaLeft <= inFlight
    /\ dmaLeft > 0 => dmaAt = (out + inFlight - dmaLeft) % TxSize
    /\ step # "rest" => inFlight = 0
    /\ step \in {"select", "start"} => readable > 0 /\ out + readable <= accepted

(* The checkpoints are ahead of the bursts, in order, and an idle that was *)
(* asked for is one of them until its place is reached.                    *)
Marked(out, marks) ==
    /\ \A i \in 1 .. Len(checkpoints) : checkpoints[i] = marks[i] % IndexMod
    /\ \A i, j \in 1 .. Len(checkpoints) : i <= j => marks[i] <= marks[j]
    /\ \A i \in 1 .. Len(checkpoints) :
          /\ out + inFlight <= marks[i] /\ marks[i] <= accepted
          /\ step = "start" => out + readable <= marks[i]
    /\ \A b \in boundaries : b > out => \E i \in 1 .. Len(checkpoints) : marks[i] = b
    /\ boundaryBeforeIn => \E i \in 1 .. Len(checkpoints) : marks[i] = accepted

(* The row of bytes from the last one on the line over those in the FIFO   *)
(* to the next one of the DMA.  From one to the next it goes up by one;    *)
(* where a baudrate request cut in it may go back by a burst, or skip the  *)
(* bytes that a FIFO reset discarded.                                      *)
Pushed(out) == out + inFlight - dmaLeft
Row(out, k) == IF k = 0 THEN last
               ELSE IF k <= Len(fifo) THEN fifo[k] ELSE Pushed(out) + 1
Consecutive(out) ==
    /\ \A k \in 0 .. Len(fifo) :
          /\ Row(out, k) <= out + TxSize /\ Row(out, k) <= accepted
          /\ IF received + k \in seams THEN Row(out, k) < Row(out, k + 1) + TxSize
             ELSE Row(out, k + 1) = Row(out, k) + 1
    /\ \A j, k \in 0 .. (Len(fifo) + 1) :
          j < k => Row(out, k) <= Row(out, j) + (k - j) + (IF j = 0 THEN discarded ELSE 0)

(* A new burst may begin, with an idle before it: the line is idle, or a   *)
(* baudrate request fell there, or nothing was sent before, or the burst   *)
(* that ends there left a flag that is not its own.                        *)
CutAt(position) == position = 0 \/ position \in seams \/ position \in stale
BurstEnd == received + Len(fifo) + dmaLeft + (IF step = "start" THEN readable ELSE 0)
Rested == (line = "idle" /\ fifo = <<>>) \/ CutAt(received + Len(fifo))
FreeToBegin == ~triggered => inFlight = 0 /\ step # "start" /\ Rested

(* The idle flag tells of an idle behind all that was sent, or the burst   *)
(* ends where one may be missed.                                           *)
FlagMeant == idleFlag => \/ line = "idle" /\ fifo = <<>> /\ dmaLeft = 0 /\ step # "start"
                         \/ CutAt(BurstEnd)
IdlesKept(out, marks) ==
    /\ \A k \in 0 .. Len(fifo) :
          k < Len(fifo) /\ Row(out, k) \in boundaries /\ Row(out, k + 1) = Row(out, k) + 1
             => CutAt(received + k) \/ (k = 0 /\ line = "idle")
    /\ out \in boundaries /\ inFlight = dmaLeft
          => Rested \/ \E i \in 1 .. Len(checkpoints) : marks[i] = out
    /\ FreeToBegin /\ FlagMeant

TxInv ==
    \E out \in 0 .. accepted : \E marks \in [1 .. Len(checkpoints) -> 0 .. accepted] :
        /\ Buffered(out) /\ Marked(out, marks) /\ Consecutive(out)
        /\ IdlesKept(out, marks)
=============================================================================
