------------------------------ MODULE PdStream ------------------------------
(***************************************************************************)
(* The byte stream over EtherCAT process data: two symmetric go-back-N     *)
(* endpoints (BasicPdStreamEndpoint, pd_stream.hpp), one driven by the     *)
(* host's cycle thread (soem.cpp), one by the slave's PDI interrupt and    *)
(* main loop (ecat_appl.c, ecat_pd.cpp), and the wire between them.        *)
(*                                                                         *)
(* The wire is not a queue.  Each side owns one process image that the     *)
(* other side samples: a frame that passes the slave writes the host's     *)
(* image into the slave's output buffer and takes the slave's input image  *)
(* along, whatever was in either.  An image may be sampled twice, or be    *)
(* replaced before it was sampled; frames may be lost on either leg.       *)
(*                                                                         *)
(* One session is modelled: from the reset of both endpoints on.           *)
(*                                                                         *)
(* Bytes are identified by their stream position.  Every sequence number   *)
(* is kept as a tag [seq, n]: seq is the byte on the wire, n its ordinal   *)
(* since the reset, a history component that no guard reads.               *)
(***************************************************************************)
EXTENDS Naturals, Sequences

CONSTANTS Window,        \* kPdWindow: chunks in flight per direction
          SeqMax,        \* 255: sequence numbers run 1..SeqMax, then 1 again
          StallFrames,   \* kGoBackStallFrames
          PayloadSize,   \* kPdChunkPayloadSize
          RingSize,      \* [End -> Nat \ {0}] the ring an endpoint pushes into
          StreamSize,    \* [End -> Nat] bound: bytes an end ever transmits
          MaxFaults      \* bound: lost frames plus overrun slave events

End == {"host", "slave"}
Peer(e) == IF e = "host" THEN "slave" ELSE "host"

ASSUME PdAssumption ==
    /\ Window \in Nat \ {0}
    /\ SeqMax \in Nat /\ SeqMax > Window
    /\ StallFrames \in Nat \ {0}
    /\ PayloadSize \in Nat \ {0}
    /\ RingSize \in [End -> Nat \ {0}]
    /\ StreamSize \in [End -> Nat]
    /\ MaxFaults \in Nat

VARIABLES
    written,     \* [End] bytes the user has put into the transmit ring
    log,         \* [End] every chunk staged so far; the slots hold its tail
    base,        \* [End] chunks of log the window has slid over
    sendOffset,  \* [End] in-flight chunks already (re)transmitted
    stall,       \* [End] frames without ack progress
    mayStage,    \* [End] the one-new-chunk-per-frame credit
    peerAck,     \* [End] tag of the last own chunk the peer reported
    rxAck,       \* [End] tag of the last peer chunk consumed
    rcvd,        \* [End] bytes pushed into the receive ring, in order
    drained,     \* [End] how many of them its consumer has taken out
    image,       \* [End] own process image, as last built
    input,       \* [End] peer's process image, as last sampled
    registered,  \* the host's receive callback is registered
    frame,       \* where the host's current frame is
    event,       \* SM2 event pending: outputs written, slave not yet run
    isr,         \* the slave is between its output and its input mapping
    refresh,     \* a refresh saw uplink pending, its masked copy is to come
    faults       \* faults so far

streamVars == <<written, drained>>
senderVars == <<log, base, sendOffset, stall>>
receiverVars == <<peerAck, rxAck, rcvd, input>>
wireVars == <<registered, frame, event, isr, refresh, faults>>
vars == <<streamVars, senderVars, receiverVars, mayStage, image, wireVars>>

NoTag == [seq |-> 0, n |-> 0]

NextSeq(seq) == IF seq = SeqMax THEN 1 ELSE seq + 1

(* A chunk carries the bytes after position "from" up to position "to"; an *)
(* image is the chunk it shows and an ack; a chunk of length 0 is idle.    *)
Chunk == [seq : Nat, n : Nat, from : Nat, to : Nat]
Tag   == [seq : Nat, n : Nat]
Image == [chunk : Chunk, ack : Tag]

ZeroChunk == [seq |-> 0, n |-> 0, from |-> 0, to |-> 0]
ZeroImage == [chunk |-> ZeroChunk, ack |-> NoTag]

ChunkLen(c) == c.to - c.from

(* Last chunk staged: tx_seq_ is its seq, popped bytes end at its "to".    *)
Newest(e) == IF log[e] = <<>> THEN ZeroChunk ELSE log[e][Len(log[e])]

Bytes(from, to) == [i \in 1 .. (to - from) |-> from + i]

Init ==
    /\ written = [e \in End |-> 0]
    /\ log = [e \in End |-> <<>>]
    /\ base = [e \in End |-> 0]
    /\ sendOffset = [e \in End |-> 0]
    /\ stall = [e \in End |-> 0]
    /\ mayStage = [e \in End |-> TRUE]
    /\ peerAck = [e \in End |-> NoTag]
    /\ rxAck = [e \in End |-> NoTag]
    /\ rcvd = [e \in End |-> <<>>]
    /\ drained = [e \in End |-> 0]
    /\ image = [e \in End |-> ZeroImage]
    /\ input = [e \in End |-> ZeroImage]
    /\ registered = FALSE
    /\ frame = "none"
    /\ event = FALSE
    /\ isr = FALSE
    /\ refresh = FALSE
    /\ faults = 0
-----------------------------------------------------------------------------
(* Slip: stop-and-wait's duplicate test, any number but the last consumed. *)
AcceptableIfNew(e) ==
    LET c == input[e].chunk IN
    /\ c.seq # 0
    /\ ChunkLen(c) # 0
    /\ c.seq # rxAck[e].seq
    /\ ChunkLen(c) <= RingSize[e] - (Len(rcvd[e]) - drained[e])

(* on_peer_chunk: adopt the peer's ack, regain the credit, and consume the *)
(* chunk iff it is the exact next one and the receive ring has room.       *)
Acceptable(e) ==
    LET c == input[e].chunk IN
    /\ c.seq # 0
    /\ ChunkLen(c) # 0
    /\ c.seq = NextSeq(rxAck[e].seq)
    /\ ChunkLen(c) <= RingSize[e] - (Len(rcvd[e]) - drained[e])

OnPeerChunk(e) ==
    LET c == input[e].chunk IN
    /\ peerAck' = [peerAck EXCEPT ![e] = input[e].ack]
    /\ mayStage' = [mayStage EXCEPT ![e] = TRUE]
    /\ IF Acceptable(e)
       THEN /\ rxAck' = [rxAck EXCEPT ![e] = [seq |-> c.seq, n |-> c.n]]
            /\ rcvd' = [rcvd EXCEPT ![e] = @ \o Bytes(c.from, c.to)]
       ELSE UNCHANGED <<rxAck, rcvd>>

(* acked_prefix: how many of the oldest chunks in flight the ack covers.   *)
AckedPrefix(e) ==
    LET hits == {j \in 1 .. (Len(log[e]) - base[e]) :
                    log[e][base[e] + j].seq = peerAck[e].seq}
    IN  IF hits = {} THEN 0 ELSE CHOOSE j \in hits : \A i \in hits : j <= i

(* The window once build_own_chunk has slid it over the acked chunks: its  *)
(* base, and how many chunks it holds and has sent.                        *)
SlidBase(e)  == base[e] + AckedPrefix(e)
InFlight(e)  == Len(log[e]) - SlidBase(e)
(* Slip: a late ack after a rewind takes the offset below zero.            *)
SlidOffsetUnclamped(e) == sendOffset[e] - AckedPrefix(e)

SlidOffset(e) == IF sendOffset[e] > AckedPrefix(e)
                 THEN sendOffset[e] - AckedPrefix(e) ELSE 0
SlidStall(e) == IF AckedPrefix(e) = 0 THEN stall[e] ELSE 0

(* Slip: one chunk more than there are slots.                              *)
ReadyPastWindow(e) == mayStage[e] /\ InFlight(e) <= Window

ReadyToAdvance(e) == mayStage[e] /\ InFlight(e) < Window

(* Bytes waiting in the transmit ring.                                     *)
Readable(e) == written[e] - Newest(e).to
-----------------------------------------------------------------------------
(* build_own_chunk.  Its outcomes all slide the window; each then sets the *)
(* offset, the stall count and the chunk painted into the own image.       *)
Slide(e, offset, stalled) ==
    /\ base' = [base EXCEPT ![e] = SlidBase(e)]
    /\ sendOffset' = [sendOffset EXCEPT ![e] = offset]
    /\ stall' = [stall EXCEPT ![e] = stalled]

Paint(e, chunk) ==
    image' = [image EXCEPT ![e] = [chunk |-> chunk, ack |-> rxAck[e]]]

(* Nothing to show: the seq of the newest chunk and length 0.              *)
Idle(e) == [Newest(e) EXCEPT !.from = Newest(e).to]

SpendCredit(e) == mayStage' = [mayStage EXCEPT ![e] = FALSE]

Replaying(e) == mayStage[e] /\ SlidOffset(e) < InFlight(e)
Staging(e) == /\ ReadyToAdvance(e)
              /\ ~Replaying(e)
              /\ Readable(e) > 0

Stalled(e) == mayStage[e] /\ SlidStall(e) + 1 >= StallFrames

(* A go-back is under way: send the next chunk of the window again.        *)
Replay(e) ==
    /\ Replaying(e)
    /\ Slide(e, SlidOffset(e) + 1, SlidStall(e))
    /\ Paint(e, log[e][SlidBase(e) + SlidOffset(e) + 1])
    /\ SpendCredit(e)
    /\ UNCHANGED log

(* Pop up to one payload of the transmit ring into a fresh chunk.          *)
NewChunk(e) ==
    [seq  |-> NextSeq(Newest(e).seq),
     n    |-> Len(log[e]) + 1,
     from |-> Newest(e).to,
     to   |-> Newest(e).to + IF Readable(e) < PayloadSize
                             THEN Readable(e) ELSE PayloadSize]

Stage(e) ==
    /\ Staging(e)
    /\ log' = [log EXCEPT ![e] = Append(@, NewChunk(e))]
    /\ Slide(e, InFlight(e) + 1, SlidStall(e))
    /\ Paint(e, NewChunk(e))
    /\ SpendCredit(e)

(* Slip: the go-back restarts the stall count but rewinds nothing.         *)
GoBackNowhere(e) ==
    /\ ~Replaying(e) /\ ~Staging(e)
    /\ InFlight(e) > 0
    /\ Stalled(e)
    /\ Slide(e, SlidOffset(e), 0)
    /\ Paint(e, Idle(e))
    /\ UNCHANGED <<log, mayStage>>

(* Everything was sent and no ack came for StallFrames: rewind.            *)
GoBack(e) ==
    /\ ~Replaying(e) /\ ~Staging(e)
    /\ InFlight(e) > 0
    /\ Stalled(e)
    /\ Slide(e, 0, 0)
    /\ Paint(e, Idle(e))
    /\ UNCHANGED <<log, mayStage>>

(* Wait for the ack, showing the newest transmitted chunk if there is one. *)
Hold(e) ==
    /\ ~Replaying(e) /\ ~Staging(e)
    /\ InFlight(e) > 0 => ~Stalled(e)
    /\ Slide(e, SlidOffset(e),
             SlidStall(e) + IF mayStage[e] /\ InFlight(e) > 0 THEN 1 ELSE 0)
    /\ Paint(e, IF InFlight(e) > 0 /\ SlidOffset(e) # 0
                THEN log[e][SlidBase(e) + SlidOffset(e)] ELSE Idle(e))
    /\ UNCHANGED <<log, mayStage>>

BuildOwnChunk(e) ==
    /\ Replay(e) \/ Stage(e) \/ GoBack(e) \/ Hold(e)
    /\ UNCHANGED <<streamVars, receiverVars>>
-----------------------------------------------------------------------------
(* The users of the stream.                                                *)
Write(e) ==
    /\ \E to \in (written[e] + 1) .. StreamSize[e] :
           written' = [written EXCEPT ![e] = to]
    /\ UNCHANGED <<drained, senderVars, receiverVars, mayStage, image, wireVars>>

Drain(e) ==
    /\ \E to \in (drained[e] + 1) .. Len(rcvd[e]) :
           drained' = [drained EXCEPT ![e] = to]
    /\ UNCHANGED <<written, senderVars, receiverVars, mayStage, image, wireVars>>

RegisterCallback ==
    /\ ~registered
    /\ registered' = TRUE
    /\ UNCHANGED <<streamVars, senderVars, receiverVars, mayStage, image,
                   frame, event, isr, refresh, faults>>

(* The host's cycle: build and send, wait for the frame, feed the input.   *)
HostSend ==
    /\ frame = "none"
    /\ BuildOwnChunk("host")
    /\ frame' = "out"
    /\ UNCHANGED <<registered, event, isr, refresh, faults>>

HostReceive ==
    /\ frame = "back"
    /\ frame' = "none"
    /\ IF registered
       THEN OnPeerChunk("host")
       ELSE UNCHANGED <<peerAck, mayStage, rxAck, rcvd>>
    /\ UNCHANGED <<input, streamVars, senderVars, image,
                   registered, event, isr, refresh, faults>>

(* ec_receive_processdata comes back with a short working counter.         *)
HostMiss ==
    /\ frame = "lost"
    /\ frame' = "none"
    /\ UNCHANGED <<streamVars, senderVars, receiverVars, mayStage, image,
                   registered, event, isr, refresh, faults>>

(* The frame passes the slave: in one go it delivers the host's image and  *)
(* takes the slave's.  That the slave has not dealt with the previous one  *)
(* by then is a fault.                                                     *)
FramePass ==
    /\ frame = "out"
    /\ (event \/ isr) => faults < MaxFaults
    /\ faults' = faults + IF event \/ isr THEN 1 ELSE 0
    /\ input' = [e \in End |-> image[Peer(e)]]
    /\ frame' = "back"
    /\ event' = TRUE
    /\ UNCHANGED <<streamVars, senderVars, peerAck, rxAck, rcvd, mayStage,
                   image, registered, isr, refresh>>

FrameLost ==
    /\ frame \in {"out", "back"}
    /\ faults < MaxFaults
    /\ faults' = faults + 1
    /\ frame' = "lost"
    /\ UNCHANGED <<streamVars, senderVars, receiverVars, mayStage, image,
                   registered, event, isr, refresh>>

(* The slave's PDI interrupt: output mapping, then input mapping.  It is   *)
(* never interrupted by the refresh, but a frame may pass in between.      *)
SlaveOutputs ==
    /\ event /\ ~isr
    /\ event' = FALSE
    /\ isr' = TRUE
    /\ OnPeerChunk("slave")
    /\ UNCHANGED <<input, streamVars, senderVars, image,
                   registered, frame, refresh, faults>>

SlaveInputs ==
    /\ isr
    /\ isr' = FALSE
    /\ BuildOwnChunk("slave")
    /\ UNCHANGED <<registered, frame, event, refresh, faults>>

(* The out-of-cycle refresh: the check runs unmasked, so the interrupt may *)
(* run between it and the masked rebuild.                                  *)
RefreshCheck ==
    /\ ~isr /\ ~refresh
    /\ ReadyToAdvance("slave") /\ Readable("slave") > 0
    /\ refresh' = TRUE
    /\ UNCHANGED <<streamVars, senderVars, receiverVars, mayStage, image,
                   registered, frame, event, isr, faults>>

RefreshBuild ==
    /\ ~isr /\ refresh
    /\ refresh' = FALSE
    /\ BuildOwnChunk("slave")
    /\ UNCHANGED <<registered, frame, event, isr, faults>>

Next ==
    \/ \E e \in End : Write(e) \/ Drain(e)
    \/ RegisterCallback
    \/ HostSend \/ HostReceive \/ HostMiss
    \/ FramePass \/ FrameLost
    \/ SlaveOutputs \/ SlaveInputs
    \/ RefreshCheck \/ RefreshBuild

Spec == Init /\ [][Next]_vars

(* The cycle thread polls for ever, a frame in flight arrives or is lost,  *)
(* the pending interrupt is served and the ring's consumer keeps draining. *)
(* Nothing is assumed of the users' writes, of losses or of the refresh.   *)
Fairness ==
    /\ WF_vars(RegisterCallback)
    /\ WF_vars(HostSend) /\ WF_vars(HostReceive) /\ WF_vars(HostMiss)
    /\ WF_vars(FramePass)
    /\ WF_vars(SlaveOutputs) /\ WF_vars(SlaveInputs)
    /\ \A e \in End : WF_vars(Drain(e))

FairSpec == Spec /\ Fairness
-----------------------------------------------------------------------------
TypeOK ==
    /\ written \in [End -> Nat]
    /\ drained \in [End -> Nat]
    /\ log \in [End -> Seq(Chunk)]
    /\ base \in [End -> Nat]
    /\ sendOffset \in [End -> 0 .. Window]
    /\ stall \in [End -> 0 .. StallFrames - 1]
    /\ mayStage \in [End -> BOOLEAN]
    /\ peerAck \in [End -> Tag]
    /\ rxAck \in [End -> Tag]
    /\ rcvd \in [End -> Seq(Nat)]
    /\ image \in [End -> Image]
    /\ input \in [End -> Image]
    /\ registered \in BOOLEAN
    /\ frame \in {"none", "out", "back", "lost"}
    /\ event \in BOOLEAN
    /\ isr \in BOOLEAN
    /\ refresh \in BOOLEAN
    /\ faults \in Nat

(* What a receiver has handed on is the beginning of what its peer's user  *)
(* wrote: no byte lost, doubled or out of order, whatever frames were lost *)
(* or images read twice (pd_stream.hpp: exactly-once in-order delivery).   *)
ExactlyOnceInOrder ==
    \A e \in End : \E to \in 0 .. written[Peer(e)] : rcvd[e] = Bytes(0, to)

(* The slots of the window hold every chunk the peer may still need: what  *)
(* has left the window was consumed, and no more than Window chunks are    *)
(* kept, so that a slot is never overwritten by a newer chunk.             *)
WindowHoldsUnconsumed ==
    \A e \in End : /\ base[e] <= rxAck[Peer(e)].n
                   /\ rxAck[Peer(e)].n <= Len(log[e])
                   /\ Len(log[e]) <= base[e] + Window

(* The stream of each direction, as its users see it.                      *)
Down == INSTANCE ReliableStream
            WITH sent <- written["host"], received <- rcvd["slave"]
Up   == INSTANCE ReliableStream
            WITH sent <- written["slave"], received <- rcvd["host"]

DownReliable == Down!Spec
UpReliable   == Up!Spec

(* Whatever is lost, read twice or replaced on the wire, and whoever finds *)
(* a ring full or empty: each user sees a stream of its own that hands the *)
(* bytes over once and in order (on_peer_chunk, build_own_chunk).          *)
BothReliable == DownReliable /\ UpReliable

(* A faulty wire that recovers delays the stream but never stops it: every *)
(* byte written is eventually handed to the other side.  The ack can stall *)
(* with the window full, the credit spent and the last image unread; only  *)
(* the go-back gets both ends out of that.                                 *)
EverythingArrives ==
    \A e \in End : \A k \in 1 .. StreamSize[e] :
        written[e] >= k ~> Len(rcvd[Peer(e)]) >= k
-----------------------------------------------------------------------------
(* The inductive invariant behind ExactlyOnceInOrder, one conjunction for  *)
(* each direction: e sends, Peer(e) receives.                              *)

(* The chunks staged so far cut the written bytes into consecutive pieces; *)
(* the numbers of two less than SeqMax apart differ as their ordinals do.  *)
Staged(chunks, to) ==
    \A i \in 1 .. Len(chunks) :
        /\ chunks[i].n = i
        /\ chunks[i].seq \in 1 .. SeqMax
        /\ i = 1 => chunks[i].seq = 1 /\ chunks[i].from = 0
        /\ i > 1 => chunks[i].from = chunks[i - 1].to
        /\ chunks[i].from < chunks[i].to /\ chunks[i].to <= to

Numbered(chunks) ==
    \A i, j \in 1 .. Len(chunks) :
        i < j /\ j < i + SeqMax =>
            \/ chunks[j].seq = chunks[i].seq + (j - i)
            \/ chunks[j].seq + SeqMax = chunks[i].seq + (j - i)

(* A tag is NoTag or that of a chunk staged.                               *)
Names(chunks, tag) ==
    \/ tag = NoTag
    \/ /\ tag.n \in 1 .. Len(chunks)
       /\ tag.seq = chunks[tag.n].seq

(* An image shows no data, or a chunk staged after the first "low".        *)
Shows(chunks, low, chunk) ==
    \/ ChunkLen(chunk) = 0
    \/ /\ chunk.n \in (low + 1) .. Len(chunks)
       /\ chunk = chunks[chunk.n]

(* Acks only ever lag: each holder knows less than the one before it.      *)
AckChain(e) ==
    /\ base[e] <= peerAck[e].n
    /\ peerAck[e].n <= input[e].ack.n
    /\ input[e].ack.n <= image[Peer(e)].ack.n
    /\ image[Peer(e)].ack.n <= rxAck[Peer(e)].n
    /\ rxAck[Peer(e)].n <= Len(log[e])
    /\ Len(log[e]) <= base[e] + Window

AcksName(e) ==
    /\ Names(log[e], peerAck[e])
    /\ Names(log[e], input[e].ack)
    /\ Names(log[e], image[Peer(e)].ack)
    /\ Names(log[e], rxAck[Peer(e)])

ImagesShow(e) ==
    /\ Shows(log[e], base[e], image[e].chunk)
    /\ Shows(log[e], 0, input[Peer(e)].chunk)
    /\ ChunkLen(input[Peer(e)].chunk) # 0
           => rxAck[Peer(e)].n < input[Peer(e)].chunk.n + Window

(* Stream position up to which the first n chunks reach.                   *)
Reach(chunks, n) == IF n = 0 THEN 0 ELSE chunks[n].to

Direction(e) ==
    /\ Staged(log[e], written[e]) /\ Numbered(log[e])
    /\ AckChain(e)
    /\ AcksName(e)
    /\ ImagesShow(e)
    /\ base[e] + sendOffset[e] <= Len(log[e])
    /\ rcvd[Peer(e)] = Bytes(0, Reach(log[e], rxAck[Peer(e)].n))

IInv == TypeOK /\ \A e \in End : Direction(e)
=============================================================================
