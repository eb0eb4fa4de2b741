# librmcs: a verification project

librmcs moves robot commands and sensor data between a host program and motor
boards, over USB or EtherCAT. This directory holds TLA+ models of its
communication core, the TLC configurations that check them, and proofs for the
results that should not depend on the size of a test.

Everything is translated from the code (paths below are relative to the
repository; `rmcs_board/` is `firmware/rmcs_board/`). `PROJECT.json` maps every
definition to the lines it stands for.

## 1. The system and its parts

```
 application                                                    CAN / UART / GPIO
     |                                                          drivers (interrupts)
 Handler (handler.cpp)            host | board                        |
  keepalive thread, parser             |                    InterruptSafeBuffer, HostSession
     |                                 |                              | core0: pump_data_plane
 SOEM / IgH / USB transport            |                       down ring / up ring (XcoreRing)
  transmit ring, cycle thread          |                              | core1: PDI interrupt,
 PdStreamEndpoint  <--- EtherCAT process data --->  PdStreamEndpoint  doorbell, SSC main loop
```

| Component | State | Operations | What makes it hard | What makes it correct |
|---|---|---|---|---|
| Process-data endpoint, `core/include/librmcs/ecat/pd_stream.hpp` | slots, window, sequence numbers, acks, credit, stall count | `reset`, `on_peer_chunk`, `ready_to_advance`, `build_own_chunk` | images are sampled, not queued: re-read, replaced, lost | exactly once, in order; never stuck |
| Slave hooks, `rmcs_board/ecat/core*/src/ecat_appl.c`, `ecat_pd.cpp`, `pd_glue.cpp` | the endpoint, the two rings, interrupt masks | PDI interrupt, doorbell, main-loop refresh, reset on SAFEOP -> OP | three contexts on one endpoint | rebuilds never interleave |
| SPSC rings, `utility/ring_buffer.hpp`, `ecat/common/xcore_ring.hpp` | two indices, slots | push, pop | lock-free, stale indices, index wrap | a FIFO |
| SOEM transport, `host/src/transport/soem` | transmit ring, endpoint | transmit, cycle, supervise and recover | missed frames, link loss | what a recovery keeps and drops |
| IgH transport, `host/src/transport/igh` | the same, several frames in flight, zero-image probe, CAN banks | cycle, recovery | late images of an earlier epoch | no image crosses a discontinuity |
| Handler, `host/src/protocol/handler.cpp` | session nonce, parser, answer flags | handshake, keepalive, restart callback, receive | three threads; late answers | the session comes back; no field is misread |
| Pump and PdLink, `rmcs_board/app/src/xcore` | the last claim seen, parser, batch in hand | claim, flush, pop, publish | the other core moves on meanwhile | no stale command is executed |
| HostSession, `rmcs_board/app/src/link/host_session.hpp` | nonce, lease, uplink gate | start, keepalive, expiry | lease against slow host | one session, no foreign uplink |
| InterruptSafeBuffer, `link/interrupt_safe_buffer.hpp` | 8 batches, two indices, a lock flag | allocate, pop, release, clear | nested interrupts allocate | spans are disjoint, nothing is sent half-written |
| Serializer, Deserializer, `core/src/protocol` | field cursor, discard mode | feed, finish_transfer | transfers cut anywhere | round trip, resynchronisation |
| Hybrid and native CAN link, `hybrid_glue.cpp`, `native_glue.cpp`, `hybrid_link.cpp` | link epoch, owner, latest-wins mailboxes | publish, take over | two cores, two owners | no frame of an older epoch |
| USB host transport, `host/src/transport/usb/usb.cpp` | transmit pool and its waiters, receive transfers, fault flag, device handle | acquire, transmit, complete, clear halts, reconnect, destroy | senders, libusb's event thread and the keepalive thread meet in every step of a reconnection | no transfer lost, no caller asleep for ever, the link comes back, the destructor returns |
| USB vendor class, `rmcs_board/app/src/usb` | arming debt, throttle | receive, arm, audit | transfers cancelled without a callback; a cached answer; a bus that is stuck | the endpoint is armed again |
| UART buffers, `rmcs_board/app/src/uart` | ring indices, DMA positions, idle checkpoints | enqueue, dequeue, baudrate request, DMA and idle interrupts | position known modulo the buffer; writes in every gap of the dequeue | bytes and idles come out as they went in |
| CAN downlink, `rmcs_board/app/src/can` | software queue, controller FIFO | handle_downlink, try_transmit | bursts outrun the bus | order kept, nothing dropped while the host can be slowed down |
| GPIO, LED, diagnostics | registers, counters | - | - | - |
| Time base, pulse, timeline | fixed-point clocks, histories | capture, convert | wrap, torn reads | monotone conversion |
| Bootloader, metadata and DFU, `rmcs_board/bootloader/src` | metadata slots in flash and a copy in RAM, application sectors, mailbox word | boot decision, erase, program, confirm, manifest | any flash operation fails, is cut by a power loss, or lies | a firmware or DFU at every boot; DFU's verdict is true |
| FoE staging and flash service, `flash/staging.hpp`, `common/foe_staging.hpp`, `app/src/xcore/flash_server.cpp`, `ecat/core1_ecat/src/ecat_foe_support.cpp` | staging record and sectors, session flags, reset request | download, deferred commit, reset, installation | the answer precedes the commit; the installation is resumed from flash alone | the staged image ends up running, whole |
| Other boards' firmware (`c_board`, `mc02`, `ch32_board`) | as above, USB only | - | - | their ring is the one in SpscRing |

They interact as follows. The Handler gives whole fields to a transport's ring;
the cycle thread moves them chunk by chunk through the endpoint into the
process image; the frame carries both images past the slave controller; core1's
interrupt pushes consumed chunks into the down ring; core0's pump pops them
into the board's parser, whose callbacks drive the drivers and the session. The
way back is symmetric, starting at the batch buffer that driver interrupts fill.
On SAFEOP -> OP core1 resets its endpoint and bumps a claim counter that core0
honours in its next pass; the host resets its endpoint when it sees OP again.
Over USB the transport is libusb: a field goes into a buffer taken from the
transmit pool, the event thread returns the buffer and feeds the parser, and the
Handler's keepalive thread is also the one that repairs the link. Firmware
reaches the board in two ways: DFU, written by the bootloader itself, and FoE
over EtherCAT, which the running application stages in flash and the bootloader
installs at the next boot.

## 2. The modules

| Module | Models | Grain |
|---|---|---|
| `ReliableStream` | the promise of one direction: bytes come out once and in order | abstract |
| `PdStream` | both endpoints, the host's cycle, the slave's interrupt and refresh, the wire | one step per call of `on_peer_chunk` / `build_own_chunk` |
| `InputRefresh` | `build_own_chunk` opened up, in the three contexts of core1 | shared accesses |
| `SpscRing` | `RingBuffer` and `XcoreRing` | index load, element, index store |
| `BatchBuffer` | `InterruptSafeBuffer` and the part of HostSession that empties it | atomic loads, stores and compare-and-swaps |
| `LinkRestart` | Handler, transport ring, reset, claim, pump, HostSession across link losses | field halves; streams as queues |
| `BootFlash` | the bootloader, its metadata, a DFU session, FoE staging and the installation | one flash operation |
| `UsbTransport` | senders, event thread, keepalive thread, reconnection and destructor of `usb.cpp` | one critical section, atomic access or libusb call |
| `UartBuffers` | a transmitting serial port, the line, a receiving one | the steps of the main loop between which an interrupt can get in |
| `VendorArm` | the board's bulk OUT endpoint, its arming debt and throttle, the CAN transmit queues | the same |
| `*Proof` | the theorems about the module they extend (`DownlinkProof` extends two) | |
| `MC*` | the instances for TLC | |

`PdStream` and `SpscRing` implement `ReliableStream`, by `INSTANCE ... WITH`;
`LinkRestart` uses that result: between two resets it takes each direction as a
queue. `InputRefresh` justifies the atomic rebuild of `PdStream` on the slave:
where `BuildsNeverInterleave` holds, a rebuild is one step for every other
context. A CAN transmit queue (`transmit_buffer_`, `can.hpp:424`) is a ring with
the receive callback as its producer and the main loop as its consumer: that
`SpscRing` implements `ReliableStream` is why `VendorArm` may take it as a sequence.
The two modules have no name in common, so that `DownlinkProof` can extend both.
`BootFlash`, `UsbTransport` and `UartBuffers` stand alone.

### PdStream
`written`/`drained` are the users of the rings. The slots `slots_[head_ + i]`,
`count_` and `tx_seq_` are one sequence `log` of every chunk ever staged with a
`base`: the slots are its tail, and `WindowHoldsUnconsumed` bounds it by the
number of slots. `sendOffset`, `stall`, `mayStage`, `peerAck` and `rxAck` are
`send_offset_`, `stall_`, `may_stage_`, `peer_ack_` and `rx_ack_`. `image` is an
end's own process image and `input` the peer's as last sampled. Tags carry an
ordinal `n` beside the byte `seq` that is on the wire; no guard reads `n`. The
host is `soem.cpp`'s loop (`HostSend`, `HostReceive`, `HostMiss`); the slave is
`SlaveOutputs`, `SlaveInputs`, and the refresh split at its unmasked check.
`FramePass` may overrun an event the slave has not served; that, like a lost
frame on either leg, is a fault.

### InputRefresh
`pc[c]` says where the PDI interrupt, the doorbell interrupt and the main loop
stand; `Runs` is preemption on one hart. `MaskDoorbell` selects core0's hook,
which masks the doorbell around the refresh, or core1_ecat's, which does not.
A payload is one byte, and a byte its position in the stream.

### SpscRing
A push is `PushBegin` (both indices are loaded), one `PushElement` per element,
`PushPublish`; a pop likewise. The real order of memory accesses is taken from
the acquire/release annotations, so the model is sequentially consistent;
modelling weaker annotations is outside TLC's reach here.

### BatchBuffer
A context is its priority: 0 is the main loop (session control, replies,
transmit), higher ones are driver interrupts, which preempt lower ones and run
to completion. On one hart a compare-and-swap fails only if a higher context got
in between, and the relaxed atomics are read in program order. `written`,
`data`, `held`, `locked` are `written_size_`, `data_`, `transmitting_batch_`,
`is_locked_`; a cell of `data` names the field whose bytes it holds, so that a
torn, doubled or foreign span shows in `sent`. `UsbGate` selects what
`uplink_enabled()` asks in the two applications: `session_established()` with
USB, the flag set after the kStartAck with EtherCAT. The transport takes a batch
as a whole: USB's packets of it are read from a batch that `HeldFrozen` says
does not change. `in_` and `out_` are natural numbers, since `kBatchCount`
divides the range of `size_t`.

### LinkRestart
A protocol field is two tokens, so that a stream can break inside one. A parser
that reads a wrong token may become anything (`Parsed`), discard mode included.
The host's ARQ window and its ring are one queue, of which SOEM's reset drops up
to `Window` tokens and IgH's everything. `opened` is `ecat_claim`, `claimed` is
`g_last_ecat_claim`. `hostGarbled`, `boardGarbled` and `staleRun` are history.

### BootFlash
Flash is `app`, `stg` (the sectors of the application and of the staging
region: the image whose bytes they hold, or `Junk`), `meta` (the slots of the
metadata sector) and `srec` (the staging record). RAM is `lslot`/`lstate`, the
metadata singleton's slot pointer and state, and the session `img`, `pos`,
`last`, `complete`; `mbox` is the mailbox word, which survives a reset. `pc` names
the next flash operation. An operation may be refused (`"failed"`), be cut by a
power loss half-way (`"cut"`), or report success and do nothing (`"silent"`,
image sectors only, which the code validates afterwards); each spends one of
`MaxFaults`. A cut leaves the old value, the new one, or what NOR flash may
leave of half an operation (`Landed`, `TornSlots`, `TornRecord`).
`Latest` is the constructor's search for the latest slot; `BootHeld`, `Boot` and
`Decide` are `main()`. `EraseMetadata`, `ReuseMarker`, `MarkSlot`, `SkipSector`,
`EraseSector`, `ProgramSector`, `ProgramSize` and `ProgramState` are shared, as
in the code, by the installation of the staged image (`img = None`, ended by
`ClearRecord`) and by a download over DFU (`DfuStart` to `Check`). `FoeWrite`,
`FoeData`, the `Stage*` actions and `LeaveBoot` are the application's download.
`told`, the verdict of the last DFU download, and `excused` are history.

`NextIs(i)` says that the next boots, if nothing else fails, end in image `i`:
the staged one if it is committed and whole, or else the installed one.
`Recoverable`, `InstallTransparent` and `DfuVerdict` are stated on flash alone,
so that they speak of switching the board off at that very moment.

Assumed: the board is the one the firmware is for; images differ in every
sector and are measured in sectors, the last one partial; power may be cycled
at will, without a fault being spent, while no flash operation is under way.

### UsbTransport
Transfers are counted by who has them. `free` is `free_transmit_transfers_`,
`flight` the transmit transfers libusb has, `Owners` the threads that have one
between `acquire_transmit_buffer` and its end, `PuttingBack` the one the event
thread is returning; `rx`, `rxCancelled` and `InCallback` are the receive
transfers. `pc` gives every sending thread's place, the keepalive thread's
included, which is a sender first and then `try_recover_link`,
`quiesce_device` and `reopen_device`. `ev` is the event thread. `"look"` is the
one place where a thread holds the mutex across a step: it has found `acquire`'s
predicate false and is not yet asleep, which is where a notification could be
missed. `present`, `halted` and `handle` are the bus: a device that left makes
the handle `"dead"`, whose transfers all fail with NO_DEVICE.

Two things the code does are undefined, and the model ends there, in `undefined`.
A drain of a reconnection is bounded in the code (200 ms); if it expires while
somebody still has a transfer of the old handle, that transfer will be submitted
to a closed device. `DrainExpires` says what can lead there: a sender that keeps
its buffer, a receive callback, or a live board that keeps a transmit busy. And
`~Usb()` releases the interface of the handle it has without looking at it, which
is null after a failed reopen (`DestroyNull`, 5.8); of a destructor called then
`TeardownEnds` claims nothing. `~Usb()` is called, as the board classes do, when
no application thread has a buffer or will ask for one.

### UartBuffers
A transmitted byte is its position in the stream the downlink accepted, a
received one its position on the line; the transmitting port is wired to the
receiving one, as in the host's `uart_cross_test.cpp`. `txIn`, `txOut`,
`inFlight`, `checkpoints`, `boundaryBeforeIn`, `triggered`, `rxIn` and `rxOut`
are the members of the two buffers; `step` and `readable` are where
`TxBuffer::try_dequeue` stands. `dmaAt`/`dmaLeft`, `fifo`, `line` and `idleFlag`
are the hardware. `seams`, `discarded` and `stale` are history: the places of the
line at which a baudrate request cut in, the bytes it reset out of the FIFO there,
and the ends of bursts that began with the idle flag up.
`Serve` is `RxBuffer::try_dequeue`, which both receive
interrupts run; `UpdateIn` rebuilds the index from the DMA's position.

The downlink callback may get in between any two steps. Whether it can is not
agreed on: `vendor.cpp:28`, `pd_link.cpp:70` and `pd_link.hpp:143` place it in the
USB interrupt, `can.hpp:410`, `can.cpp:62` and `vendor_control.cpp:20` in
`tud_task()` on the main loop. The second is a case of the first, so that what
holds here holds either way; `VendorArm` does the same.

Timing enters in three places. The transmit idle flag is raised once, when the
line has been quiet for 16 bit times, later than the receiver's, after 10; it may
rise at any step of the main loop, between the clear of the flag and the start
of the DMA too, where it counts for the wrong side of the burst (`stale`, 5.11).
The DMA's interrupt is served before `Backlog` bytes wait, less than a lap of the
DMA; the receive idle interrupt may be late by any number.
The receiving port follows a change of the baudrate; bytes garbled by one are not
modelled, nor is the divisor latch. The uplink is always enabled.

### VendorArm
A packet is the number of CAN frames in it, a frame its place among the host's
frames for its bus. `endpoint` is the bulk OUT endpoint: idle, armed, full, or in
the hands of the callback, which is `RxBegins`, one `HandleDownlink` per frame,
and `RxEnds`. `pc` says where `App::run` stands: it drains the queues (`Transmit`,
`PopFront`), looks at them (`Look` with `downlink_throttled` as `Engage`,
`Withhold`, `StayOpen`), audits and arms. `ReadXfer` and `Store` are the two
halves of `arm_pending_ = !tud_vendor_n_read_xfer(0)`: the callback of the very
transfer that was armed may get in between and record a debt, which `Store`
erases; only the audit finds out. `throttling_` and `throttle_active_` are one
variable, since the second is the answer of the only function that writes the
first. A bus that is stuck is one whose `Carry` never happens. The depth of the
fullest queue is only compared with marks, hence `DepthReaches`.

Backpressure acts through the next packet only: a look at the queues withholds
the endpoint, but the packet it is armed for by then comes in whole, and so does
every other one that gets in between two looks. What a queue can take of that
above its upper mark is `Headroom`, 17 frames in the code, while one packet holds
up to 170 (`vendor.hpp:84-90`). The model leaves the size of a packet and the number
of packets between two looks free and keeps the account instead: `fresh` counts
what came for a bus since a look last found every queue below the mark, `reached`
says that the last look found one at it, `late` that the endpoint was armed all
the same. A refused frame is on record (`dropped`) only if backpressure could not
save it (`Excused`); `BusExact` lets no other be missing.

## 3. The runs

| Run | Question | Result |
|---|---|---|
| `pd_stream` | both ways a reliable stream (refinement), slots never reused early, and every byte arrives once the faults end | holds |
| `input_refresh` | three contexts, doorbell masked | holds |
| `input_refresh_unmasked` | the same with core1_ecat's hook | uplink no longer exact |
| `spsc_ring` | FIFO with stale and wrapped indices | holds |
| `batch_buffer` | are fields whole, unique, in order and of their session, whoever preempts whom? | holds |
| `link_restart` | IgH, claim seen before new bytes, two losses | holds |
| `link_restart_soem` | does SOEM's session come back after a loss? | violated |
| `boot_flash` | two flash operations of an update fail, are cut or lie: what do the next boots find? | a firmware, and the right one |
| `usb_transport` | unplugs, halts, failed libusb calls: transfers, sleepers, the link, the destructor | holds; the destructor only with a handle (5.8) |
| `uart_buffers` | writes and the idle flag in every gap of the dequeue, wrapping indices, a baudrate request: bytes and idles from port to port | holds, but for the idle of 5.11 |
| `vendor_arm` | silent aborts, lost debts, stuck buses: is the endpoint armed again, and do the buses carry in order what the host sent, all but what backpressure could not save? | holds |
| `link_restart_late_claim` | `pd_link.cpp:88-90`: the flush drops only old bytes | violated if the claim is seen late |

### Bounds, and why they are enough
- `PdStream`: `Window` 2 is the smallest with more than one chunk in flight;
  `SeqMax = Window + 1` is the smallest space the assumption admits, so numbers
  are reused as early as they ever can be (in the code 255 against a window of
  `kPdWindow`). `StallFrames` 2 makes go-backs frequent. The slave's ring holds
  one byte, so a full receive ring is routine. Four bytes one way and one the
  other make the number wrap. One fault, since the state space must be explored
  for cycles; the proof of the safety properties covers any number of faults and
  every payload size.
- `InputRefresh`: window 2 and four bytes fill the window twice. The violating
  run uses `SeqMax` 9 so that no wrap can be the cause.
- `SpscRing`: capacity 4, indices modulo 8, 13 elements: both indices wrap.
- `BatchBuffer`: two interrupt levels above the main loop, so that an interrupted
  interrupt is interrupted; four batches of two cells and fields of one and two
  cells, so that batches fill exactly and inexactly, the pool runs full and
  slots are reused; two sessions, so that one is cut short by the next. The gate
  is USB's, which admits everything the other one does.
- `LinkRestart`: rings of two fields and a pool of one or two, so that "no room"
  happens; two losses, so that a second one meets a half-finished recovery; one
  datum each way, two attempts.
- `BootFlash`: an image of one sector and one of two, so that an update shrinks
  and grows the application; three metadata slots, so that the sector fills up
  and is erased within one run; two faults, so that a recovery fails too.
- `UsbTransport`: pools of two transfers, which two senders and the keepalive
  thread exhaust, so that threads sleep; two troubles (an unplug, a halt, or a
  libusb call that fails), so that one meets the recovery from the other.
- `UartBuffers`: a transmit ring of two bytes and a receive ring of four, with
  indices that wrap at eight, and a stream of eight bytes: every ring and every
  index is lapped. One baudrate request, at any point; a FIFO of one byte. The
  proof of the receive side covers every size. Deadlock is not checked: an idle
  board with nothing left to write stops.
- `VendorArm`: queues of three frames, withheld at two and released at one, and
  packets of up to three frames, so that one packet outgrows the headroom of two
  as well as several small ones; two buses, of which one gets the six frames it
  takes to fill FIFO and queue, to be refused, and to go on after that. Looks and
  audits every other pass.

### Fairness
`PdStream`: the cycle thread polls for ever, a frame in flight comes back or its
receive call times out, an enabled interrupt is served, the consumer of a ring
keeps popping. Nothing is assumed of writers, of losses, or of the refresh: the
interrupt alone suffices. `LinkRestart`: the keepalive thread and core0's main
loop run for ever, a reachable slave is brought back to OP, an up link moves
bytes. All are weak fairness on the code's own loops. `BootFlash`: the
bootloader's steps go on while it has power; nothing is assumed of hosts.
`UsbTransport`: a thread that can run does, an application ends the scope of its
PacketBuilder, the keepalive thread keeps sending, a board that left is plugged
in again (weak fairness); a waiting thread gets the mutex and the notification
some time, since pthread's queues are served by age (strong fairness for the
keepalive thread and the event thread, which others could overtake for ever).
That transfers complete is part of it: a board that is alive and answers every
bulk OUT with NAK would fill the pool and park the keepalive thread itself, so
that no recovery were tried; the code has no timeout there.
`UartBuffers`: the main loop polls for ever, the hardware does not stop, pending
interrupts are served (weak fairness, one for each of the three); nothing is
assumed of writers. `VendorArm`: the main loop
runs, a pending callback is served, time passes; nothing is assumed of the host or
of the CAN buses, which is the point.

### Timing assumptions of LinkRestart
The code's timers are far apart, and the model keeps only their order.
A wait gives up (`TimesOut`) when no answer is under way; up to `MaxEarly` times
also when one is. The lease of 1 s (`LeaseMayRunOut`) outlives several keepalive
periods, so it expires only on a host that lost the session or the link. With
`PromptClaim`, core0's pass (microseconds) sees the claim before the host, which
must first notice OP, sends its first byte; the run `link_restart_late_claim`
drops this one. The host is taken to notice OP only once the slave is in
OP (observation 17 of section 5).

## 4. What is proved

For every value of the constants that the named assumptions admit:

- `PdStreamProof`: `Inductive`, `TypeCorrect`, `DeliveryExact`, `WindowSound`,
  `DownImplements`, `UpImplements` and their conjunction `StreamsImplement`.
  `ExactlyOnceInOrder` is not inductive: that a
  received number is the next one says nothing until it is known that no chunk
  `SeqMax` older can still be in an image. `IInv` adds, for each direction, the
  **ack chain**: base <= `peerAck` <= sampled ack <= the peer's image's ack <=
  `rxAck` <= newest <= base + `Window`. Every number that can still be seen
  belongs to a chunk within `Window` of the one expected (`ImagesShow`), numbers
  within `SeqMax` of each other differ as their ordinals do (`Numbered`), so the
  number identifies the chunk; the chunks cut the stream into consecutive pieces
  (`Staged`). The proof has a lemma for each outcome of `build_own_chunk`
  (`ReplayBuilds`, `StageBuilds`, `GoBackBuilds`, `HoldBuilds`), one for
  `on_peer_chunk` (`ReceiveReceives`), and one step per action on top. The
  assumption is `SeqMax > Window`.
- `DownlinkProof`, about `SpscRing`: `RingInvariant`, `RingTypes`, `IndicesExact`,
  `NothingOverwritten`, `RingImplements`. `RingInv` adds the work in progress:
  what the producer claimed fits beside everything unread even if the consumer's
  index has moved on since it was loaded, and what the consumer grabbed was
  published. The assumption is that the index space is a multiple, at least 2,
  of the capacity, which the choice of `IndexType` guarantees.
- `DownlinkProof`, about `VendorArm`: `DownlinkInvariant`, `VendorTypes`,
  `BusesAreExact`, for any number of buses, frames per packet and depths. That a
  bus carries frames in order says nothing of those still on their way.
  `FramesInOrder` follows them: the FIFO rises from the last frame carried, the
  queue from the last one handed to the controller (`LastSent`), and between
  `Transmit` and `PopFront` the front of the queue *is* that one (`Popping`): a
  callback in between finds the queue not empty and cannot overtake it, however
  much the bus has carried meanwhile. `Kept` says that a frame behind the last one
  carried waits or is on record as refused. Who may be on record is a matter of
  counting, which `RoomKept` does: unless backpressure was given up, what a queue
  holds above the upper mark came since a look last found it below
  (`RefusedIsExcused` draws the conclusion); a queue found at the mark has the
  endpoint withheld, or backpressure was given up; and the endpoint is armed in
  spite of such a look only in the latter case. Nothing is assumed of how large a
  packet is or how many come between two looks: with the code's 48 and 64 and
  packets of 170 frames the theorems say what is left of "nothing can cross
  unnoticed" (`vendor.hpp:126-127`). The assumptions are that the lower mark lies
  below the upper one, that within the queue, and that the sizes are numbers.
- `BatchBufferProof`: `PoolInvariant`, `PoolTypes`, `HeldStands`, `NoneEmpty`,
  `LineInvariant`, `WholeFieldsSent`, `AllAccounted`, `OnlyThisSession`, for any
  number of priority levels and at least two batches. That the held batch stands
  still is not inductive: a context far from its compare-and-swap holds a stale
  `in_` and a stale size. `BInv` says that the window of open batches leaves one
  slot free and the held batch is the slot just before it, that every other slot
  is empty, that whatever index an interrupted context still holds lies in the
  window, since `out_` cannot move under it, and that during `clear()` nobody
  else is active. `OnlyNewestEmpty` adds that only the newest batch may be empty,
  as long as the context that will write to it is under way.
  What is *sent* depends on bytes that are not written yet: a batch may be
  followed by others while an interrupted context still fills its span.
  `LineInv` therefore counts a reserved cell as holding its field already
  (`Cell`), and says that the held and the open batches are one line of such
  cells: reservations do not overlap (`Reserved`), the line consists of whole
  fields, each once (`Whole`), ordered as their context made them (`Numbered`,
  `Ordered`), behind everything sent (`Behind`), with nothing of a context behind
  the batch it is about to reserve in (`Reaching`); and every accepted field is
  in the line, sent, or emptied out (`Kept`). When the transport takes a batch,
  no reservation in it is open, because the main loop runs only when every
  interrupt has returned: the line is then what the memory holds.
- `LinkRestartProof`: `RestartInvariant`, `RestartTypes`, `FieldsAligned`,
  `BacklogDropped`, `FlushesOld`, for any rings, pools and number of losses, under
  `Notifies` (IgH). `ParsersAligned` says of a token being read what depends on
  all that were queued before it. `RestartInv` therefore speaks of whole queues:
  `Follows` that a parser reads through one without a surprise, `Whole` that it
  then stands between two fields. Upwards (`UpWhole`) the queue holds the rest of
  some field and whole fields after it, and a host that listens is in that very
  field; a host that waits for a kStartAck starts at the beginning of one, so it
  is there too once it listens. Downwards (`DownWhole`) the host's ring continues
  what core0 has, until a claim is open: then it begins anew, and what core0 still
  has is flushed together with its parser. `Intervals` dates the commands.
  `FieldsAligned` and `FlushesOld` assume `PromptClaim`; `BacklogDropped` does not:
  a late claim costs bytes, it does not let old ones pass.
- `InputRefreshProof`: `RebuildsExclusive`, `RefreshInvariant`, `RefreshTypes`,
  `UplinkInOrder`, `BytesKept`, under `MaskDoorbell` and `SeqMax > Window`.
  `MaskInv` says who holds which mask, so that at most one context is inside a
  rebuild. `RefreshInv` then speaks of that rebuild half done: the window holds
  the bytes from the one after `Base` to `Committed`, each in its slot under its
  number (`WindowFilled`); a byte between its copy and its commit lies in the
  slot after the newest, where no byte of the window can be (`Building`); the
  acks in the ESC and in the endpoint are those of bytes the host has, not older
  than `Base`, and the image is within a window of the byte the host waits for
  (`Acks`), so that a number means one byte only. That `PdStream` may take a
  rebuild as one step rests on these theorems.
- `BootFlashProof`: `Invariance`, `TypeCorrect`, `AlwaysRecoverable`,
  `VerdictTrue`, `Transparent`, for any images, slots, sectors and faults. None
  of the three properties is inductive: each says what the *next* boots find, and
  a session changes the flash in an order that only makes sense as a whole.
  `IInv` says where a session stands (`Session`), that no slot behind the one in
  RAM is used (`Beyond`), that an installation has its record and only Ready
  slots before its own (`Installing`), that the sectors written are the source's
  or junk (`Copied`), that a download is entered only after it was validated
  (`Checked`), that no verdict stands while sectors change (`Unjudged`), that the
  record is dropped only when the application is its image (`Clearing`), and that
  a running application is what a scan finds (`Running`).
- `UsbTransportProof`: `Invariance`, `TypeCorrect`, `PoolWhole`,
  `DeserializerAlone`, for any number of senders and transfers. That the count
  of transfers is right needs to know when the pool may be destroyed and filled
  anew: `Counted` gives the sum for every phase, `Quiet` says that from the
  first cancellation to the end of a reconnection the link stays faulted, that
  no receive transfer is registered after the drain, and that the whole pool is
  home when the handle is closed; `Ending` that `~Usb()` has the keepalive thread
  and all senders behind it. A step is classified by which thread it moves
  (`OwnersMove`, `OwnersStay`), which gives the change of the owners' number.
- `UartBuffersProof`: `UartTypes`; `ReceiveInvariant`, `ReceiveExact`,
  `IdlesReported`; `TransmitInvariant`, `TransmitExact`, `IdlesAreKept`, for any
  ring and index sizes. The code has the DMA's position modulo the ring and an
  index modulo 2^16; what they stand for is known only as long as less than a lap
  lies between them. `RxIndices` says that both indices are true positions, reduced;
  `Waiting` that the backlog stays short of a lap: less than a fragment is left
  behind at most, `TriggerSize` bytes later the DMA interrupts, and from then on
  no interrupt waits for more than `Backlog` bytes. The assumptions are that the
  rings divide the index space, `Backlog < RxSize` and `MinFragment + TriggerSize
  <= Backlog + 1`.
  On the transmit side a byte passes from the ring to the DMA, the FIFO and the
  line while the downlink writes on. `TxInv` gives `tx_out_` and every checkpoint
  a position in the stream (`Buffered`, `Marked`), and says that the last byte on
  the line, those in the FIFO and the DMA's next one make a row that goes up by
  one, except at a seam, where a baudrate request may send it back by a burst and
  the FIFO's reset may skip what it held (`Consecutive`). `TxExact` is what this
  says of the first two of the row. For the idles, `Marked` has each one asked
  for ahead of `tx_out_` as a checkpoint, no burst passes a checkpoint, and one
  that begins there was started when the line was idle (`IdlesKept`, `Rested`).
  The flag need not mean that: it may have risen for the line before the burst.
  `FlagMeant` says that it tells of an idle behind all that was sent, or else the
  current burst ends where `stale` has one that may be missed (5.11), and
  `FreeToBegin` that a first burst, which asks for no idle, finds the line at rest.

The invariants of these proofs (`IInv`, `RingInv`, `BInv`, `MaskInv`, ...) were
checked by TLC before they were proved; the runs list the properties they serve.

Only model-checked: liveness (`EverythingArrives`, `SessionRestored`,
`StagedImageBoots`, `NobodySleepsOn`, `LinkReturns`, `TeardownEnds`, `UartDelivers`,
`ArmedAgain`), which is beyond the proof system. Every safety property a passing
run checks is also a theorem. The theorems about the IgH session and core0's
refresh name their condition (`Notifies`, `MaskDoorbell`); where the code does not
meet it, a run shows what happens instead.

## 5. Where code and comments disagree

1. `pd_stream.hpp:42-44` argues that an image replaced after a frame was read by
   that frame. An out-of-cycle refresh breaks the argument: the credit is
   granted when the interrupt runs, after a refresh may have replaced the image,
   and the chunk staged under it is itself replaced before a frame read it.
   Delivery stays exact (`BothReliable`), at the price of a go-back, so no run
   singles this one out.
2. `core1_ecat/src/ecat_appl.c` installs the unmasked refresh as main-loop hook;
   core0's variant documents why it must not.
3. SOEM does not clear its ring or notify the Handler on a recovery. A field cut
   by the loss can leave a parser in discard mode, which nothing then ends.
4. The flush of the down ring is exact only if core0 honours the claim before
   new bytes arrive. If it is late, acknowledged bytes of the new interval are
   dropped, and since a field may be cut by that, `ParsersAligned` and
   `SessionRestored` fail as well.

Observations made while modelling, which no run singles out:

5. `metadata.hpp:43-48` advances the slot pointer before the marker is
   programmed. If the program fails, RAM says Ready and a second session of the
   same boot leaves an unused slot behind it; DFU reports that session as
   successful (`dfu.hpp:139` asks RAM), and the next scan finds the metadata
   fatal and waits in DFU. An erase of the metadata sector that fails half-way
   leaves RAM as stale. A new download recovers the board; `Gap` in `BootFlash`
   is the exception this makes to `Recoverable` and `DfuVerdict`.
6. The comment at `staging.hpp:46-48` has the application's metadata
   uncommitted after a failed installation. If the second validation (line 92)
   fails, `finish_flashing` (line 86) has committed it. The record is still there
   and the next boot installs again, which is why nothing is lost.
7. A DFU download made while a committed staging record exists is overwritten by
   the staged image at the next boot: `Boot` forgets the verdict there.
8. After a failed reopen `libusb_device_handle_` is null (`usb.cpp:432`, `442`).
   `~Usb()` (`usb.cpp:177`) and `vendor_control` (`usb.cpp:316`) use it without the
   check `quiesce_device` makes (`usb.cpp:387`). `UsbTransport` ends at the first of
   the two (`DestroyNull`): the destructor need not return then, and `TeardownEnds`
   speaks only of one that has a handle.
9. `usb.cpp:397-400` says the transmit drain leaves no transfer outstanding; it is
   bounded, and `DrainExpires` says when it does.
10. A fault raised between the arming of the pools and
    `link_faulted_.store(false)` in `try_reconnect` is erased. It is noticed again
    by the next transfer or by the event loop, so that `LinkReturns` holds.
11. `tx_buffer.hpp:174` clears the idle flag before the DMA is enabled at `:235`. If
    the line before the burst has then been quiet for most of the 16 bit times,
    the flag rises for it in between, and the idle requested behind the burst is
    taken as done: the next burst follows without one. No interrupt is needed for
    this. `IdleKept` excepts exactly the idle behind that burst (`stale`); without
    the exception TLC finds it violated.
12. `uart.hpp:84-88` says a rejected baudrate request changed nothing. The abort
    before it drops the count of the burst in flight, so that up to a ring of
    bytes is sent again; and since `tx_triggered_` is reset, a checkpoint that
    was due lets the next burst pass without an idle.
13. `tx_buffer.hpp:110-113` says an aborted burst is sent again rather than
    dropped. The bytes an accepted request resets out of the hardware FIFO may
    belong to bursts that are settled already; those are lost.
14. `assert_debug(distance <= readable)` (`tx_buffer.hpp:161`) can fail if a write
    with an idle gets in between the load of `in_` and the look at the
    checkpoint, which it can only if the downlink runs in an interrupt.
15. `vendor.hpp:109` in the main loop may overwrite the debt that the callback of
    the transfer it has just armed recorded. `audit_downlink_arm` finds the
    endpoint idle; without it `ArmedAgain` is violated.
16. `vendor.hpp:126-127` says nothing can cross the sixteen slots above the upper
    mark unnoticed. One packet can (`vendor.hpp:84-90` says so itself), and then
    frames are dropped although backpressure was never given up. `BusExact` says
    which, and that the rest keeps its order.
17. Read, not model-checked: `igh.cpp:934-956` takes the first complete probe after
    the slave was seen out of OP for its return to OP. The slave's stack enables
    both process-data sync managers in SAFEOP already (`ecatslv.c:1247-1252`,
    `1882-1891`), while `ecat_pd_reset` runs on SAFEOP -> OP only. A probe that is
    complete in SAFEOP resets the host's endpoint before the slave's, whereas
    `igh.cpp:487-489` has both restart together. `LinkRestart` assumes the other
    order ("Timing assumptions of LinkRestart"); `IghPipeline` of the plan is to settle it.

## 6. What is not modelled, and the plan

In the order in which it is to be done:

| Module | Subject | Abstract view, properties | Proof |
|---|---|---|---|
| `SoemLink` | supervision: an OP reached after `ec_statecheck` gave up, so that one endpoint is reset and the other is not | the two endpoints are reset as a pair | - |
| `IghPipeline` | several frames in flight, zero-image probe, epoch of CAN banks | no image crosses a discontinuity | epoch invariant |
| `HybridLink` | link epoch, owner handover, latest-wins mailboxes, USB takeover in `pd_glue.cpp` | one producer and one consumer per ring at any time | ownership |
| `Framing` | serializer and deserializer over bounded fields | round trip, resynchronisation | - |

Of the bootloader the USB side of DFU (poll-state replies, detach timing) and the
refusal of a foreign board's firmware are left out; of the flash service the
mailbox between the cores, which is one call in the model; of the USB transport
the DMA buffers and the vendor control path; of the board's USB
class the packetised transmit and the EP0 handshake; of the CAN drivers the
receive path, the watchdog and the recovery from bus-off.

Left out for good: register access, LEDs, GPIO, descriptors and logging (no
protocol state); vendored stacks (SSC, SOEM, TinyUSB, HAL), which appear as the
wire or as interrupt masks; `BasicPdStreamEndpoint` with the hybrid payload size
is covered by the constant `PayloadSize`.
