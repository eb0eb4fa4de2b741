---------------------------- MODULE UsbTransport ----------------------------
(***************************************************************************)
(* The host's USB transport (usb.cpp): the pool of transmit transfers and  *)
(* the senders that wait for it, the receive transfers and the libusb      *)
(* event thread, the fault flag, and the keepalive thread (handler.cpp)    *)
(* that clears halted endpoints or closes and reopens the device.          *)
(*                                                                         *)
(* Transfers are counted, by who has them: the free pool, libusb, a sender *)
(* or the event thread.  What they carry is not modelled.  Two things the  *)
(* code does are undefined, and the model ends there ("undefined"): a      *)
(* reconnection whose bounded drain expires leaves a transfer with         *)
(* somebody who may submit it on the closed handle; and ~Usb() releases    *)
(* the interface of a null handle if the last reopen failed.               *)
(***************************************************************************)
EXTENDS Naturals, FiniteSets

CONSTANTS Senders,      \* application threads that send
          Keeper,       \* the keepalive thread, a sender too
          NTx,          \* kTransmitTransferCount
          NRx,          \* kReceiveTransferCount
          MaxTroubles   \* bound: unplugs, halts and failed libusb calls

ASSUME UsbAssumption == /\ IsFiniteSet(Senders) /\ Keeper \notin Senders
                        /\ NTx \in Nat \ {0} /\ NRx \in Nat \ {0}
                        /\ MaxTroubles \in Nat

VARIABLES
    present, halted,    \* the board is on the bus; its IN endpoint is halted
    handle,             \* the device handle: "none", "live", "dead"
    faulted, stop,      \* link_faulted_, stop_handling_events_
    free,               \* free_transmit_transfers_
    flight,             \* transmit transfers libusb has
    rx, rxCancelled,    \* receive transfers libusb has
    pc,                 \* where each sender stands
    ev,                 \* where the event thread stands
    giveUp,             \* the quiesce under way ends the attempt to reopen
    dtor,               \* where ~Usb() stands
    orphans,            \* transfers libusb had when ~Usb() closed the handle
    undefined,          \* a drain expired, or a null handle was used
    troubles

device == <<present, halted, handle>>
flags == <<faulted, stop>>
tx == <<free, flight>>
receives == <<rx, rxCancelled>>
control == <<giveUp, dtor, orphans, undefined>>
vars == <<device, flags, tx, receives, pc, ev, control, troubles>>

Threads == Senders \cup {Keeper}
Owning == {"hold", "submit", "raise", "release"}    \* a sender with a transfer
SendPcs == {"idle", "try", "look", "parked"} \cup Owning
KeepPcs == {"await", "recover", "replenish", "raiseOnly", "cancel", "drainRx",
            "drainTx", "close", "open", "restart", "armRx", "unfault", "gone"}

\* A thread that found acquire's predicate false holds the mutex until asleep
MutexFree == \A t \in Threads : pc[t] # "look"
InCallback == IF ev \in {"callback", "resubmit"} THEN 1 ELSE 0
Owners == {t \in Threads : pc[t] \in Owning}
PuttingBack == IF ev \in {"putBack", "raiseTx"} THEN 1 ELSE 0
Registered == rx + rxCancelled + InCallback                  \* rx_transfers_
Active == free + flight + Registered + PuttingBack + orphans \* active_transfers_

\* What an answered keepalive shows: the link works
Up == handle = "live" /\ ~faulted /\ ~halted /\ rx + InCallback > 0

TypeOK ==
    /\ {present, halted, faulted, stop, giveUp, undefined} \subseteq BOOLEAN
    /\ handle \in {"none", "live", "dead"}
    /\ {free, flight} \subseteq 0..NTx /\ {rx, rxCancelled} \subseteq 0..NRx
    /\ pc \in [Threads -> SendPcs \cup KeepPcs]
    /\ ev \in {"poll", "callback", "resubmit", "putBack", "raiseTx", "raiseRx",
               "exited"}
    /\ dtor \in {"none", "cancel", "drain", "join", "done"}
    /\ orphans \in 0..(NTx + NRx) /\ troubles \in 0..MaxTroubles

Init ==
    /\ present = TRUE /\ halted = FALSE /\ handle = "live"
    /\ faulted = FALSE /\ stop = FALSE
    /\ free = NTx /\ flight = 0 /\ rx = NRx /\ rxCancelled = 0
    /\ pc = [t \in Threads |-> "idle"] /\ ev = "poll"
    /\ giveUp = FALSE /\ dtor = "none" /\ orphans = 0 /\ undefined = FALSE
    /\ troubles = 0

-----------------------------------------------------------------------------
Trouble == troubles < MaxTroubles /\ troubles' = troubles + 1

Goto(t, next) == pc' = [pc EXCEPT ![t] = next]
\* notify_one and notify_all, with the threads at p
WakeOne(p) == LET waiting == {t \in Threads : p[t] = "parked"} IN
    IF waiting = {} THEN pc' = p
    ELSE \E w \in waiting : pc' = [p EXCEPT ![w] = "try"]
WakeAll(p) == pc' = [t \in Threads |-> IF p[t] = "parked" THEN "try" ELSE p[t]]

\* fault() is an exchange of the flag; then the thread that was first, in a
\* step of its own, takes the mutex, gives it back and notifies all
WakeFaultedNobody(p) == MutexFree /\ pc' = p    \* slip: not notified
WakeFaulted(p) == MutexFree /\ WakeAll(p)

-----------------------------------------------------------------------------
\* acquire_transmit_buffer: refused, served, or put to sleep
Acquire(t) ==
    /\ pc[t] = "idle" /\ ~stop /\ Goto(t, "try")
    /\ UNCHANGED <<device, flags, tx, receives, ev, control, troubles>>

NoBuffer(t) ==
    /\ pc[t] = "try" /\ MutexFree /\ (stop \/ faulted)
    /\ Goto(t, IF t = Keeper THEN "recover" ELSE "idle")
    /\ UNCHANGED <<device, flags, tx, receives, ev, control, troubles>>

Pop(t) ==
    /\ pc[t] = "try" /\ MutexFree /\ ~stop /\ ~faulted /\ free > 0
    /\ free' = free - 1 /\ Goto(t, "hold")
    /\ UNCHANGED <<device, flags, flight, receives, ev, control, troubles>>

Look(t) ==
    /\ pc[t] = "try" /\ MutexFree /\ ~stop /\ ~faulted /\ free = 0
    /\ Goto(t, "look")
    /\ UNCHANGED <<device, flags, tx, receives, ev, control, troubles>>

Park(t) ==
    /\ pc[t] = "look" /\ Goto(t, "parked")
    /\ UNCHANGED <<device, flags, tx, receives, ev, control, troubles>>

\* The PacketBuilder's scope ends: transmit checks the flag, and submits later;
\* an empty buffer is released
Transmit(t) ==
    /\ pc[t] = "hold" /\ Goto(t, IF faulted THEN "release" ELSE "submit")
    /\ UNCHANGED <<device, flags, tx, receives, ev, control, troubles>>

Discard(t) ==
    /\ pc[t] = "hold" /\ t # Keeper /\ Goto(t, "release")
    /\ UNCHANGED <<device, flags, tx, receives, ev, control, troubles>>

Sent(t) == IF t = Keeper THEN "await" ELSE "idle"

\* libusb_submit_transfer: done, refused for some reason, or NO_DEVICE
Submit(t) ==
    /\ pc[t] = "submit"
    /\ IF handle = "live"
       THEN \/ /\ flight' = flight + 1 /\ Goto(t, Sent(t))
               /\ UNCHANGED <<faulted, troubles>>
            \/ Trouble /\ Goto(t, "release") /\ UNCHANGED <<flight, faulted>>
       ELSE /\ faulted' = TRUE /\ Goto(t, IF faulted THEN "release" ELSE "raise")
            /\ UNCHANGED <<flight, troubles>>
    /\ UNCHANGED <<device, stop, free, receives, ev, control>>

WakeOnFault(t) ==
    /\ pc[t] \in {"raise", "raiseOnly"}
    /\ WakeFaulted([pc EXCEPT ![t] = IF pc[t] = "raise" THEN "release" ELSE "idle"])
    /\ UNCHANGED <<device, flags, tx, receives, ev, control, troubles>>

\* release_transmit_buffer
Release(t) ==
    /\ pc[t] = "release" /\ MutexFree
    /\ free' = free + 1 /\ WakeOne([pc EXCEPT ![t] = Sent(t)])
    /\ UNCHANGED <<device, flags, flight, receives, ev, control, troubles>>

Send(t) == \/ NoBuffer(t) \/ Pop(t) \/ Look(t) \/ Park(t) \/ Transmit(t)
           \/ Submit(t) \/ WakeOnFault(t) \/ Release(t)

-----------------------------------------------------------------------------
\* The event thread: a transmit transfer completes (note_transmit_completion,
\* which raises the fault of a missing device first) ...
ReapTx ==
    /\ ev = "poll" /\ flight > 0
    /\ flight' = flight - 1 /\ faulted' = (faulted \/ handle = "dead")
    /\ ev' = IF faulted' # faulted THEN "raiseTx" ELSE "putBack"
    /\ UNCHANGED <<device, stop, free, receives, pc, control, troubles>>

EventRaise ==
    /\ ev \in {"raiseTx", "raiseRx"} /\ WakeFaulted(pc)
    /\ ev' = IF ev = "raiseTx" THEN "putBack" ELSE "poll"
    /\ UNCHANGED <<device, flags, tx, receives, control, troubles>>

\* ... and goes back to the pool, or away once ~Usb() has begun
PutBack ==
    /\ ev = "putBack" /\ MutexFree /\ ev' = "poll"
    /\ IF stop THEN UNCHANGED <<free, pc>> ELSE free' = free + 1 /\ WakeOne(pc)
    /\ UNCHANGED <<device, flags, flight, receives, control, troubles>>

\* A receive transfer completes: with data or a passing error; by a halt, which
\* retires it
ReapRx ==
    /\ ev = "poll" /\ rx > 0 /\ handle = "live"
    /\ rx' = rx - 1
    /\ IF stop \/ halted THEN ev' = "poll" ELSE ev' \in {"callback", "resubmit"}
    /\ UNCHANGED <<device, flags, tx, rxCancelled, pc, control, troubles>>

ReapCancelled ==
    /\ ev = "poll" /\ rxCancelled > 0 /\ rxCancelled' = rxCancelled - 1
    /\ UNCHANGED <<device, flags, tx, rx, pc, ev, control, troubles>>

ReapNoDevice ==
    /\ ev = "poll" /\ rx > 0 /\ handle = "dead"
    /\ rx' = rx - 1 /\ faulted' = (faulted \/ ~stop)
    /\ ev' = IF faulted' # faulted THEN "raiseRx" ELSE "poll"
    /\ UNCHANGED <<device, stop, tx, rxCancelled, pc, control, troubles>>

CallbackReturns ==
    /\ ev = "callback" /\ ev' = "resubmit"
    /\ UNCHANGED <<device, flags, tx, receives, pc, control, troubles>>

\* A missing device is a fault, and so is the loss of the last transfer
Resubmit ==
    /\ ev = "resubmit"
    /\ \/ /\ handle = "live" /\ rx' = rx + 1
          /\ UNCHANGED <<faulted, troubles>>
       \/ /\ handle = "live" /\ Trouble /\ UNCHANGED rx
          /\ faulted' = (faulted \/ Registered = 1)
       \/ /\ handle # "live" /\ faulted' = TRUE /\ UNCHANGED <<rx, troubles>>
    /\ ev' = IF faulted' # faulted THEN "raiseRx" ELSE "poll"
    /\ UNCHANGED <<device, stop, tx, rxCancelled, pc, control>>

\* libusb_handle_events itself reports NO_DEVICE
PollFails ==
    /\ ev = "poll" /\ handle = "dead" /\ ~faulted
    /\ faulted' = TRUE /\ ev' = "raiseRx"
    /\ UNCHANGED <<device, stop, tx, receives, pc, control, troubles>>

\* A transfer libusb_close cancelled is reported, if libusb reports it at all
ReapOrphan ==
    /\ ev = "poll" /\ orphans > 0 /\ orphans' = orphans - 1
    /\ UNCHANGED <<device, flags, tx, receives, pc, ev, giveUp, dtor, undefined,
                   troubles>>

\* The loop ends once nothing is left to reap, or what is left is abandoned
LeaveLoopReaped ==    \* slip: never abandoned
    /\ ev = "poll" /\ stop /\ Active = 0 /\ ev' = "exited"
    /\ UNCHANGED <<device, flags, tx, receives, pc, control, troubles>>
LeaveLoop ==
    /\ ev = "poll" /\ stop /\ (Active = 0 \/ dtor = "join") /\ ev' = "exited"
    /\ UNCHANGED <<device, flags, tx, receives, pc, control, troubles>>

Events == \/ ReapTx \/ EventRaise \/ PutBack \/ ReapRx \/ ReapCancelled
          \/ ReapNoDevice \/ CallbackReturns \/ Resubmit \/ LeaveLoop

-----------------------------------------------------------------------------
\* The keepalive thread after its message: answered, or not
Answered ==
    /\ pc[Keeper] = "await" /\ Up /\ Goto(Keeper, "idle")
    /\ UNCHANGED <<device, flags, tx, receives, ev, control, troubles>>

Unanswered ==
    /\ pc[Keeper] = "await" /\ Goto(Keeper, "recover")
    /\ UNCHANGED <<device, flags, tx, receives, ev, control, troubles>>

\* try_recover_link: reconnect a faulted link, clear the halts of another
Reconnect ==
    /\ pc[Keeper] = "recover" /\ faulted /\ Goto(Keeper, "cancel")
    /\ giveUp' = FALSE
    /\ UNCHANGED <<device, flags, tx, receives, ev, dtor, orphans, undefined,
                   troubles>>

ClearHaltOut ==    \* slip: of the OUT endpoint only
    /\ pc[Keeper] = "recover" /\ ~faulted
    /\ faulted' = (handle = "dead") /\ UNCHANGED halted
    /\ Goto(Keeper, IF faulted' THEN "raiseOnly" ELSE "replenish")
    /\ UNCHANGED <<present, handle, stop, tx, receives, ev, control, troubles>>
ClearHalt ==
    /\ pc[Keeper] = "recover" /\ ~faulted
    /\ faulted' = (handle = "dead") /\ halted' = FALSE
    /\ Goto(Keeper, IF faulted' THEN "raiseOnly" ELSE "replenish")
    /\ UNCHANGED <<present, handle, stop, tx, receives, ev, control, troubles>>

\* libusb_submit_transfer, up to n times; the first failure ends it
SubmitRx(n, k) == /\ k \in 0..n /\ (handle # "live" => k = 0)
                  /\ rx' = rx + k
                  /\ IF handle = "live" /\ k < n THEN Trouble ELSE UNCHANGED troubles

\* replenish_receive_transfers
MissingAll == IF faulted THEN 0 ELSE NRx    \* slip: the whole pool again
Missing == IF faulted THEN 0 ELSE NRx - Registered
Replenish ==
    /\ pc[Keeper] = "replenish" /\ Goto(Keeper, "idle")
    /\ \E k \in 0..NRx : SubmitRx(Missing, k)
    /\ UNCHANGED <<device, flags, tx, rxCancelled, ev, control>>

\* quiesce_device: cancel, two drains, close
Cancel ==
    /\ pc[Keeper] = "cancel"
    /\ Goto(Keeper, IF handle = "none" THEN "open" ELSE "drainRx")
    /\ rxCancelled' = rxCancelled + rx /\ rx' = 0
    /\ UNCHANGED <<device, flags, tx, ev, control, troubles>>

DrainRxQueued ==    \* slip: a transfer in its callback is not waited for
    /\ pc[Keeper] = "drainRx" /\ rx + rxCancelled = 0 /\ Goto(Keeper, "drainTx")
    /\ UNCHANGED <<device, flags, tx, receives, ev, control, troubles>>
DrainRx ==
    /\ pc[Keeper] = "drainRx" /\ Registered = 0 /\ Goto(Keeper, "drainTx")
    /\ UNCHANGED <<device, flags, tx, receives, ev, control, troubles>>

DrainTxFlight ==    \* slip: a transfer a sender fills is not waited for
    /\ pc[Keeper] = "drainTx" /\ MutexFree /\ flight = 0 /\ Goto(Keeper, "close")
    /\ UNCHANGED <<device, flags, tx, receives, ev, control, troubles>>
DrainTx ==
    /\ pc[Keeper] = "drainTx" /\ MutexFree /\ free = NTx /\ Goto(Keeper, "close")
    /\ UNCHANGED <<device, flags, tx, receives, ev, control, troubles>>

\* After kTeardownDrainRounds: a sender or a callback keeps a transfer that
\* long, or a device that is still there does
DrainExpires ==
    /\ \/ pc[Keeper] = "drainRx" /\ rx + InCallback > 0
       \/ /\ pc[Keeper] = "drainTx" /\ free + PuttingBack < NTx
          /\ flight = 0 \/ handle = "live"
    /\ undefined' = TRUE
    /\ UNCHANGED <<device, flags, tx, receives, pc, ev, giveUp, dtor, orphans,
                   troubles>>

CloseDevice ==
    /\ pc[Keeper] = "close" /\ Goto(Keeper, IF giveUp THEN "idle" ELSE "open")
    /\ free' = 0 /\ handle' = "none"
    /\ UNCHANGED <<present, halted, flags, flight, receives, ev, control, troubles>>

\* reopen_device: the board is absent, or its interface cannot be claimed; the
\* link restarts; both pools are armed, or the device is quiesced again
OpenFails ==
    /\ pc[Keeper] = "open" /\ Goto(Keeper, "idle")
    /\ IF present THEN Trouble ELSE UNCHANGED troubles
    /\ UNCHANGED <<device, flags, tx, receives, ev, control>>

Open ==
    /\ pc[Keeper] = "open" /\ present /\ Goto(Keeper, "restart")
    /\ handle' = "live" /\ halted' = FALSE
    /\ UNCHANGED <<present, flags, tx, receives, ev, control, troubles>>

ArmTx ==    \* link_restart_callback_ has returned
    /\ pc[Keeper] = "restart" /\ Goto(Keeper, "armRx") /\ free' = NTx
    /\ UNCHANGED <<device, flags, flight, receives, ev, control, troubles>>

ArmRx ==
    /\ pc[Keeper] = "armRx"
    /\ \E k \in 0..NRx :
          /\ SubmitRx(NRx, k) /\ giveUp' = (k < NRx)
          /\ IF k < NRx THEN Goto(Keeper, "cancel")
             ELSE WakeAll([pc EXCEPT ![Keeper] = "unfault"])
    /\ UNCHANGED <<device, flags, tx, rxCancelled, ev, dtor, orphans, undefined>>

Unfault ==
    /\ pc[Keeper] = "unfault" /\ Goto(Keeper, "idle") /\ faulted' = FALSE
    /\ UNCHANGED <<device, stop, tx, receives, ev, control, troubles>>

Keep == \/ Answered \/ Unanswered \/ Reconnect \/ ClearHalt \/ Replenish \/ Cancel
        \/ DrainRx \/ DrainTx \/ DrainExpires \/ CloseDevice \/ OpenFails \/ Open
        \/ ArmTx \/ ArmRx \/ Unfault

-----------------------------------------------------------------------------
\* ~Impl() joins the keepalive thread
Quit ==
    /\ pc[Keeper] = "idle" /\ Goto(Keeper, "gone")
    /\ UNCHANGED <<device, flags, tx, receives, ev, control, troubles>>

\* ~Usb(), called when no application thread has a transfer: stop, wake
\* everyone, destroy the free pool, cancel, drain, close, abandon, join
Destroy ==
    /\ pc[Keeper] = "gone" /\ dtor = "none" /\ dtor' = "cancel" /\ MutexFree
    /\ \A t \in Senders : pc[t] \in {"idle", "try", "parked"}
    /\ stop' = TRUE /\ free' = 0 /\ WakeAll(pc)
    /\ UNCHANGED <<device, faulted, flight, receives, ev, giveUp, orphans, undefined,
                   troubles>>

DestroyCancel ==
    /\ dtor = "cancel" /\ dtor' = "drain"
    /\ rxCancelled' = rxCancelled + rx /\ rx' = 0
    /\ UNCHANGED <<device, flags, tx, pc, ev, giveUp, orphans, undefined, troubles>>

\* Drained, or out of rounds: close all the same
DestroyClose ==
    /\ dtor = "drain" /\ handle # "none" /\ dtor' = "join"
    /\ handle' = "none" /\ orphans' = flight + rx + rxCancelled
    /\ flight' = 0 /\ rx' = 0 /\ rxCancelled' = 0
    /\ UNCHANGED <<present, halted, flags, free, pc, ev, giveUp, undefined, troubles>>

\* libusb_release_interface is not guarded as quiesce_device is: after a failed
\* reopen it is called with a null handle
DestroyNull ==
    /\ dtor = "drain" /\ handle = "none" /\ undefined' = TRUE
    /\ UNCHANGED <<device, flags, tx, receives, pc, ev, giveUp, dtor, orphans,
                   troubles>>

Join ==
    /\ dtor = "join" /\ ev = "exited" /\ dtor' = "done"
    /\ UNCHANGED <<device, flags, tx, receives, pc, ev, giveUp, orphans, undefined,
                   troubles>>

Destructor == DestroyCancel \/ DestroyClose \/ DestroyNull \/ Join

-----------------------------------------------------------------------------
\* The board goes, comes back and is enumerated anew, halts its endpoint
Unplug ==
    /\ present /\ present' = FALSE /\ Trouble
    /\ handle' = IF handle = "live" THEN "dead" ELSE handle
    /\ UNCHANGED <<halted, flags, tx, receives, pc, ev, control>>

Return ==
    /\ ~present /\ present' = TRUE
    /\ UNCHANGED <<halted, handle, flags, tx, receives, pc, ev, control, troubles>>

Halt ==
    /\ handle = "live" /\ ~halted /\ halted' = TRUE /\ Trouble
    /\ UNCHANGED <<present, handle, flags, tx, receives, pc, ev, control>>

Bus == Unplug \/ Return \/ Halt

Over == (undefined \/ dtor = "done") /\ UNCHANGED vars

Next ==
    \/ /\ ~undefined
       /\ \/ \E t \in Threads : Acquire(t) \/ Discard(t) \/ Send(t)
          \/ Events \/ PollFails \/ ReapOrphan
          \/ Keep \/ Quit \/ Destroy \/ Destructor \/ Bus
    \/ Over

Spec == Init /\ [][Next]_vars

\* A thread that can run does; an application ends its PacketBuilders' scopes;
\* the keepalive thread keeps sending; a board that left is plugged in again.
\* The mutex and the condition variable, whose queues are served by age,
\* starve nobody
Served(t) == Pop(t) \/ NoBuffer(t)
Woken(t) == Next /\ pc[t] = "parked" /\ pc'[t] = "try"
Fairness ==
    /\ \A t \in Senders : WF_vars(~undefined /\ Send(t))
    /\ SF_vars(~undefined /\ Send(Keeper))
    /\ SF_vars(~undefined /\ Served(Keeper)) /\ SF_vars(Woken(Keeper))
    /\ WF_vars(~undefined /\ Acquire(Keeper))
    /\ SF_vars(~undefined /\ Events)
    /\ WF_vars(~undefined /\ Keep)
    /\ WF_vars(~undefined /\ Destructor)
    /\ WF_vars(~undefined /\ Return)
FairSpec == Spec /\ Fairness

-----------------------------------------------------------------------------
(* No transfer is lost or owned twice: between the senders, the event      *)
(* thread, libusb and the pool an open device has NTx transmit transfers   *)
(* and at most NRx receive transfers, whatever failed; and nobody is left  *)
(* with one when the handle it was built for is closed.                    *)
WholePool ==
    ~stop =>
       /\ Registered <= NRx
       /\ free + flight + PuttingBack + Cardinality(Owners)
          = IF handle = "none" \/ pc[Keeper] = "restart" THEN 0 ELSE NTx

(* usb.cpp:452: the link-restart callback resets the deserializer from the *)
(* keepalive thread while no receive callback can be feeding it.           *)
RestartAlone == pc[Keeper] = "restart" => ev # "callback"

(* No caller of acquire sleeps for ever on a condition that holds: a       *)
(* transfer in the pool, a faulted link, a transport being destroyed.      *)
NobodySleepsOn ==
    \A t \in Threads :
       []<>~(pc[t] = "parked" /\ (stop \/ faulted \/ free > 0) /\ ~undefined)

(* Once the unplugs, halts and failed submissions are over, the link works *)
(* again and for good: a fault that was lost while the device was being    *)
(* reopened is noticed again, and the receive pool is replenished.         *)
LinkReturns == <>[](Up \/ pc[Keeper] = "gone" \/ undefined)

(* ~Usb() returns if it has a handle, be the device dead or alive: its     *)
(* drain and its join end although the transfers still out when the handle *)
(* is closed may never be reported.  Without a handle, after a failed      *)
(* reopen, the destructor's behaviour is undefined (DestroyNull).          *)
TeardownEnds == stop /\ handle # "none" ~> dtor = "done"
=============================================================================
