----------------------------- MODULE VendorArm -----------------------------
(***************************************************************************)
(* The downlink of the board's USB vendor class: the debt that gets the    *)
(* bulk OUT endpoint armed again (usb/vendor.hpp), the throttle that       *)
(* withholds it while a CAN transmit queue is close to full, and those     *)
(* queues between the receive callback and the buses (can/can.cpp).        *)
(*                                                                         *)
(* A packet is the number of CAN frames it carries; a frame is its place   *)
(* among the frames the host sent for its bus.  The receive callback may   *)
(* preempt the main loop anywhere: the sources place it in the USB         *)
(* interrupt (vendor.cpp:28) and in tud_task() (can.hpp:410), and the      *)
(* second is a case of the first.                                          *)
(*                                                                         *)
(* Outside src/: the class driver refuses to arm an endpoint that is       *)
(* closed, armed, or whose packet was not handled yet, and may abort an    *)
(* armed transfer without any callback (vendord_set_itf).                  *)
(***************************************************************************)
EXTENDS Naturals, Sequences

CONSTANTS Buses,           \* can_count()
          FifoDepth,       \* the TX FIFO of a CAN controller
          QueueSize,       \* kTransmitQueueSize
          EngageDepth, ReleaseDepth,    \* kThrottleEngageDepth, kThrottleReleaseDepth
          ThrottlePasses,  \* main-loop passes from one look at the queues to the next
          AuditPasses,     \* ... at the endpoint
          PacketFrames,    \* frames of one packet, at most
          FrameCount       \* bound: frames the host sends to each bus

ASSUME VendorAssumption ==
    /\ Buses \in Nat \ {0} /\ FifoDepth \in Nat \ {0} /\ QueueSize \in Nat
    /\ EngageDepth \in Nat \ {0} /\ ReleaseDepth \in Nat /\ ReleaseDepth < EngageDepth
    /\ EngageDepth <= QueueSize
    /\ ThrottlePasses \in Nat \ {0} /\ AuditPasses \in Nat \ {0}
    /\ PacketFrames \in Nat /\ FrameCount \in [1 .. Buses -> Nat]

Bus == 1 .. Buses

(* What a queue holds beside the frames that a look may find in it without *)
(* withholding the endpoint: 17 in the code.                               *)
Headroom == QueueSize - EngageDepth + 1

VARIABLES
    device,          \* "off"; "configured", and "open" with its endpoints
    endpoint,        \* "idle"; "armed"; "full", a packet waits for its callback;
                     \* "callback", it is being handled
    frames,          \* frames of that packet not handled yet
    armPending,      \* arm_pending_
    throttling,      \* throttling_; throttle_active_ is the answer of the only
                     \* function that writes it, and equals it
    abandoned,       \* throttle_abandoned_
    overdue,         \* kThrottleDeadlineQuarterUs have passed since throttle_started_
    throttleTick, auditTick,
    pc, at, took,    \* where App::run stands, the bus, the driver's answer
    fifo, queue,     \* the controllers' FIFOs, transmit_buffer_
    offered,         \* history: frames the host has sent to a bus
    fresh,           \* history: frames for a bus since a look last found every queue
                     \* below the upper mark, counted up to Headroom
    reached,         \* history: the last look found a queue at the upper mark
    late,            \* history: the endpoint was armed in spite of that
    dropped,         \* history: refused frames that backpressure could not save
    carried          \* history: the last frame a bus has carried

loopVars == <<pc, at, took>>
throttleVars == <<throttling, abandoned, overdue>>
tickVars == <<throttleTick, auditTick>>
usbVars == <<device, endpoint, frames>>
canVars == <<fifo, queue>>
lookVars == <<fresh, reached, late>>
historyVars == <<offered, lookVars, dropped, carried>>
vars == <<usbVars, armPending, throttleVars, tickVars, loopVars, canVars, historyVars>>

Init ==
    /\ device = "off" /\ endpoint = "idle" /\ frames = 0
    /\ armPending = TRUE
    /\ throttling = FALSE /\ abandoned = FALSE /\ overdue = FALSE
    /\ throttleTick = 0 /\ auditTick = 0
    /\ pc = "drain" /\ at = 1 /\ took = FALSE
    /\ fifo = [b \in Bus |-> <<>>] /\ queue = [b \in Bus |-> <<>>]
    /\ offered = [b \in Bus |-> 0] /\ carried = [b \in Bus |-> 0]
    /\ fresh = [b \in Bus |-> 0]
    /\ reached = FALSE /\ late = FALSE /\ dropped = {}
-----------------------------------------------------------------------------
(* The bus side.                                                           *)

(* The endpoint does not exist yet when tud_mount_cb is called.            *)
Mount ==
    /\ device = "off"
    /\ device' = "configured"
    /\ armPending' = TRUE
    /\ UNCHANGED <<endpoint, frames, throttleVars, tickVars, loopVars, canVars,
                   historyVars>>

OpenEndpoint ==
    /\ device = "configured" /\ device' = "open"
    /\ UNCHANGED <<endpoint, frames, armPending, throttleVars, tickVars, loopVars,
                   canVars, historyVars>>

(* Unplugged, reset or suspended: the callbacks own up to the debt.  A     *)
(* suspended endpoint stays as it is.                                      *)
UmountOrSuspend(suspended) ==
    /\ device # "off" /\ endpoint # "callback"
    /\ device' = IF suspended THEN device ELSE "off"
    /\ armPending' = TRUE
    /\ IF suspended THEN UNCHANGED <<endpoint, frames>>
       ELSE endpoint' = "idle" /\ frames' = 0
    /\ UNCHANGED <<throttleVars, tickVars, loopVars, canVars, historyVars>>

(* The armed transfer is aborted, and nobody is told.                      *)
Abort ==
    /\ endpoint = "armed" /\ endpoint' = "idle"
    /\ UNCHANGED <<device, frames, armPending, throttleVars, tickVars, loopVars,
                   canVars, historyVars>>

HostPacket(count) ==
    /\ endpoint = "armed" /\ endpoint' = "full"
    /\ frames' = count
    /\ UNCHANGED <<device, armPending, throttleVars, tickVars, loopVars, canVars,
                   historyVars>>

(* The CAN bus carries a frame; a stuck one never does.                    *)
Carry(b) ==
    /\ fifo[b] # <<>>
    /\ carried' = [carried EXCEPT ![b] = Head(fifo[b])]
    /\ fifo' = [fifo EXCEPT ![b] = Tail(@)]
    /\ UNCHANGED <<usbVars, armPending, throttleVars, tickVars, loopVars, queue,
                   offered, lookVars, dropped>>

DeadlinePasses ==
    /\ throttling /\ ~overdue /\ overdue' = TRUE
    /\ UNCHANGED <<usbVars, armPending, throttling, abandoned, tickVars, loopVars,
                   canVars, historyVars>>
-----------------------------------------------------------------------------
(* tud_vendor_rx_cb.                                                       *)

RxBegins ==
    /\ endpoint = "full" /\ endpoint' = "callback"
    /\ UNCHANGED <<device, frames, armPending, throttleVars, tickVars, loopVars,
                   canVars, historyVars>>

(* Slip: the queue is bypassed whenever the FIFO has room.                 *)
GoesStraightAlways(b) == Len(fifo[b]) < FifoDepth
GoesStraight(b) == queue[b] = <<>> /\ Len(fifo[b]) < FifoDepth
HasRoomOneMore(b) == Len(queue[b]) <= QueueSize    \* slip: off by one
HasRoom(b) == Len(queue[b]) < QueueSize

(* Backpressure cannot save a frame after it was given up, nor one of a    *)
(* packet the endpoint was armed for before a look could withhold it, if   *)
(* the headroom is used up by frames that came since.                      *)
Excused(b) == abandoned \/ (~late /\ fresh[b] >= Headroom)

(* Can::handle_downlink.                                                   *)
HandleDownlink(b) ==
    /\ endpoint = "callback" /\ frames > 0 /\ offered[b] < FrameCount[b]
    /\ frames' = frames - 1
    /\ offered' = [offered EXCEPT ![b] = @ + 1]
    /\ fresh' = [fresh EXCEPT ![b] = IF @ < Headroom THEN @ + 1 ELSE @]
    /\ fifo' = IF GoesStraight(b) THEN [fifo EXCEPT ![b] = Append(@, offered'[b])] ELSE fifo
    /\ queue' = IF ~GoesStraight(b) /\ HasRoom(b)
                THEN [queue EXCEPT ![b] = Append(@, offered'[b])] ELSE queue
    /\ dropped' = IF ~GoesStraight(b) /\ ~HasRoom(b) /\ Excused(b)
                  THEN dropped \cup {<<b, offered'[b]>>} ELSE dropped
    /\ UNCHANGED <<device, endpoint, armPending, throttleVars, tickVars, loopVars,
                   reached, late, carried>>

Rearmed == late' = reached /\ UNCHANGED <<offered, fresh, reached, dropped, carried>>

DriverArms == device = "open" /\ endpoint = "idle"

(* The packet is handled (or FrameCount reached): arm again, or owe it.    *)
RxEnds ==
    /\ endpoint = "callback" /\ (frames = 0 \/ \A b \in Bus : offered[b] = FrameCount[b])
    /\ endpoint' = IF throttling THEN "idle" ELSE "armed"
    /\ armPending' = throttling
    /\ frames' = 0
    /\ IF throttling THEN UNCHANGED historyVars ELSE Rearmed
    /\ UNCHANGED <<device, throttleVars, tickVars, loopVars, canVars>>
-----------------------------------------------------------------------------
(* App::run.                                                               *)

MainAt(place) == pc = place /\ endpoint # "callback"

(* Can::try_transmit: the front goes out, and then off the queue.          *)
Transmit ==
    /\ MainAt("drain") /\ queue[at] # <<>> /\ Len(fifo[at]) < FifoDepth
    /\ fifo' = [fifo EXCEPT ![at] = Append(@, Head(queue[at]))]
    /\ pc' = "pop"
    /\ UNCHANGED <<usbVars, armPending, throttleVars, tickVars, at, took, queue,
                   historyVars>>

PopFront ==
    /\ MainAt("pop")
    /\ queue' = [queue EXCEPT ![at] = Tail(@)]
    /\ pc' = "drain"
    /\ UNCHANGED <<usbVars, armPending, throttleVars, tickVars, at, took, fifo,
                   historyVars>>

NextBus ==
    /\ MainAt("drain") /\ (queue[at] = <<>> \/ Len(fifo[at]) = FifoDepth)
    /\ at' = (at % Buses) + 1
    /\ pc' = IF at = Buses THEN "look" ELSE "drain"
    /\ UNCHANGED <<usbVars, armPending, throttleVars, tickVars, took, canVars,
                   historyVars>>

(* max_transmit_queue_depth() >= depth.                                    *)
DepthReaches(depth) == \E b \in Bus : Len(queue[b]) >= depth

(* downlink_throttled: withhold from the upper mark down to the lower one, *)
(* but give up after the deadline, until the queues have drained.          *)
Engage ==
    /\ ~abandoned /\ ~throttling
    /\ throttling' = DepthReaches(EngageDepth)
    /\ overdue' = FALSE /\ UNCHANGED abandoned

Withhold ==
    /\ ~abandoned /\ throttling
    /\ throttling' = (DepthReaches(ReleaseDepth + 1) /\ ~overdue)
    /\ abandoned' = (DepthReaches(ReleaseDepth + 1) /\ overdue)
    /\ UNCHANGED overdue

StayOpen ==
    /\ abandoned
    /\ abandoned' = DepthReaches(ReleaseDepth + 1)
    /\ UNCHANGED <<throttling, overdue>>

(* poll_downlink_arm_if_pending: the policy, at once if there is a reason  *)
(* and every few passes if not; the audit; the arm.                        *)
Look ==
    /\ MainAt("look") /\ pc' = "audit"
    /\ throttleTick' = IF armPending \/ throttling THEN throttleTick
                       ELSE (throttleTick + 1) % ThrottlePasses
    /\ IF armPending \/ throttling \/ throttleTick' = 0
       THEN /\ Engage \/ Withhold \/ StayOpen
            /\ reached' = DepthReaches(EngageDepth)
            /\ fresh' = IF reached' THEN fresh ELSE [b \in Bus |-> 0]
            /\ late' = (late /\ reached')
       ELSE UNCHANGED <<throttleVars, lookVars>>
    /\ UNCHANGED <<usbVars, armPending, auditTick, at, took, canVars, offered, dropped,
                   carried>>

(* Slip: the debt is trusted.                                              *)
FoundUnarmedNever == FALSE
FoundUnarmed == auditTick' = 0 /\ endpoint = "idle"

Audit ==
    /\ MainAt("audit") /\ pc' = "arm"
    /\ IF armPending \/ throttling THEN UNCHANGED <<armPending, auditTick>>
       ELSE /\ auditTick' = (auditTick + 1) % AuditPasses
            /\ armPending' = FoundUnarmed
    /\ UNCHANGED <<usbVars, throttleVars, throttleTick, at, took, canVars, historyVars>>

NothingToArm ==
    /\ MainAt("arm") /\ (~armPending \/ throttling)
    /\ pc' = "drain"
    /\ UNCHANGED <<usbVars, armPending, throttleVars, tickVars, at, took, canVars,
                   historyVars>>

(* The driver is asked, and its answer is stored over whatever a callback  *)
(* has recorded meanwhile.                                                 *)
ReadXfer ==
    /\ MainAt("arm") /\ armPending /\ ~throttling
    /\ took' = DriverArms
    /\ endpoint' = IF DriverArms THEN "armed" ELSE endpoint
    /\ pc' = "store"
    /\ IF DriverArms THEN Rearmed ELSE UNCHANGED historyVars
    /\ UNCHANGED <<device, frames, armPending, throttleVars, tickVars, at, canVars>>

Store ==
    /\ MainAt("store")
    /\ armPending' = ~took
    /\ took' = FALSE
    /\ pc' = "drain"
    /\ UNCHANGED <<usbVars, throttleVars, tickVars, at, canVars, historyVars>>

MainLoop == Transmit \/ PopFront \/ NextBus \/ Look \/ Audit \/ NothingToArm \/ ReadXfer \/ Store
RxCallback == RxBegins \/ (\E b \in Bus : HandleDownlink(b)) \/ RxEnds

Next == \/ Mount \/ OpenEndpoint \/ (\E suspended \in BOOLEAN : UmountOrSuspend(suspended)) \/ Abort
        \/ \E count \in 0 .. PacketFrames : HostPacket(count)
        \/ \E b \in Bus : Carry(b) \/ HandleDownlink(b)
        \/ DeadlinePasses \/ RxBegins \/ RxEnds
        \/ Transmit \/ PopFront \/ NextBus \/ Look \/ Audit \/ NothingToArm \/ ReadXfer \/ Store

Spec == Init /\ [][Next]_vars

(* The main loop runs for ever, a pending callback is served, time passes. *)
(* Nothing is assumed of the host or of the CAN buses.                     *)
Fairness == WF_vars(MainLoop) /\ WF_vars(RxCallback) /\ WF_vars(DeadlinePasses)

FairSpec == Spec /\ Fairness
-----------------------------------------------------------------------------
TypeOK ==
    /\ device \in {"off", "configured", "open"} /\ endpoint \in {"idle", "armed", "full", "callback"}
    /\ frames \in 0 .. PacketFrames
    /\ armPending \in BOOLEAN
    /\ throttling \in BOOLEAN /\ abandoned \in BOOLEAN /\ overdue \in BOOLEAN
    /\ throttleTick \in 0 .. (ThrottlePasses - 1) /\ auditTick \in 0 .. (AuditPasses - 1)
    /\ pc \in {"drain", "pop", "look", "audit", "arm", "store"} /\ at \in Bus
    /\ took \in BOOLEAN
    /\ \A b \in Bus :
         /\ fifo[b] \in Seq(1 .. FrameCount[b]) /\ Len(fifo[b]) <= FifoDepth
         /\ queue[b] \in Seq(1 .. FrameCount[b]) /\ Len(queue[b]) <= QueueSize
         /\ offered[b] \in 0 .. FrameCount[b] /\ carried[b] \in 0 .. FrameCount[b]
    /\ fresh \in [Bus -> 0 .. Headroom] /\ reached \in BOOLEAN /\ late \in BOOLEAN
    /\ \A d \in dropped : d[1] \in Bus /\ d[2] \in 1 .. FrameCount[d[1]]

(* A bus carries the host's frames in the order they were sent, none twice *)
(* and none skipped, whoever preempts the drain of the queue and however   *)
(* old the throttle's cached answer is.  Only frames that backpressure     *)
(* could not save may be missing (Excused): those refused after it was     *)
(* given up, and those of a burst, or of one big packet, that outgrows the *)
(* headroom before a look at the queues can withhold the endpoint          *)
(* (vendor.hpp:84-90).                                                     *)
BusExact ==
    [][\A b \in Bus : carried'[b] # carried[b] =>
         /\ carried'[b] > carried[b]
         /\ \A f \in (carried[b] + 1) .. (carried'[b] - 1) : <<b, f>> \in dropped]_vars

(* A connected board is never deaf for good: its endpoint is armed again     *)
(* although transfers are aborted without a callback, a debt recorded by a *)
(* callback is overwritten by the main loop, or a bus no longer drains.    *)
ArmedAgain == []<>(device = "open" => endpoint # "idle")
-----------------------------------------------------------------------------
(* The inductive invariant behind BusExact.                                *)

DataShape ==
    /\ fifo \in [Bus -> Seq(Nat)] /\ queue \in [Bus -> Seq(Nat)]
    /\ offered \in [Bus -> Nat] /\ carried \in [Bus -> Nat]

(* Between Transmit and PopFront the front is in the FIFO and the queue.   *)
Popping(b) == pc = "pop" /\ at = b

(* The last frame handed to the controller, carried since or not.          *)
LastSent(b) == IF fifo[b] = <<>> THEN carried[b] ELSE fifo[b][Len(fifo[b])]

Rising(s) == \A i, j \in 1 .. Len(s) : i < j => s[i] < s[j]
Within(s, low, high) == \A i \in 1 .. Len(s) : low <= s[i] /\ s[i] <= high
Holds(s, f) == \E i \in 1 .. Len(s) : s[i] = f

(* Behind the last frame carried, the FIFO and then the queue hold frames  *)
(* in the order they were offered.                                         *)
FramesInOrder(b) ==
    /\ carried[b] <= offered[b]
    /\ Within(fifo[b], carried[b] + 1, offered[b]) /\ Rising(fifo[b])
    /\ Within(queue[b], LastSent(b), offered[b]) /\ Rising(queue[b])
    /\ queue[b] # <<>> => (queue[b][1] = LastSent(b) <=> Popping(b))
    /\ Popping(b) => queue[b] # <<>>

(* A frame not carried yet waits, or was refused without backpressure.     *)
Kept(b) ==
    \A f \in (carried[b] + 1) .. offered[b] :
        Holds(fifo[b], f) \/ Holds(queue[b], f) \/ <<b, f>> \in dropped

(* What is above the upper mark came since a look found nothing there; a   *)
(* queue found at the mark has the endpoint withheld, or backpressure was  *)
(* given up, and then only can the endpoint have been armed in spite.      *)
RoomKept ==
    /\ ~abandoned => \A b \in Bus : Len(queue[b]) < EngageDepth + fresh[b]
    /\ reached => throttling \/ abandoned
    /\ late => abandoned

DownlinkInv == TypeOK /\ DataShape /\ RoomKept /\ (\A b \in Bus : FramesInOrder(b) /\ Kept(b))
=============================================================================
