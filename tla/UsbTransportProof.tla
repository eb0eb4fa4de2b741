------------------------- MODULE UsbTransportProof -------------------------
(***************************************************************************)
(* The safety properties of UsbTransport for every number of senders,      *)
(* transfers and troubles.                                                 *)
(***************************************************************************)
EXTENDS UsbTransport, FiniteSetTheorems, TLAPS

\* TypeOK by kinds
Booleans == {present, halted, faulted, stop, giveUp, undefined} \subseteq BOOLEAN
Numbers == /\ free \in 0..NTx /\ flight \in 0..NTx /\ rx \in 0..NRx
           /\ rxCancelled \in 0..NRx /\ orphans \in 0..(NTx + NRx)
           /\ troubles \in 0..MaxTroubles
Places == /\ handle \in {"none", "live", "dead"}
          /\ pc \in [Threads -> SendPcs \cup KeepPcs]
          /\ ev \in {"poll", "callback", "resubmit", "putBack", "raiseTx",
                     "raiseRx", "exited"}
          /\ dtor \in {"none", "cancel", "drain", "join", "done"}

\* every transmit transfer is somewhere, once; after ~Usb() began the pool is
\* gone and the rest is on its way to libusb_free_transfer
Counted ==
    IF stop
    THEN free = 0 /\ Cardinality(Owners) = 0 /\ flight + PuttingBack <= NTx
    ELSE free + flight + PuttingBack + Cardinality(Owners)
         = IF handle = "none" \/ pc[Keeper] = "restart" THEN 0 ELSE NTx

\* every receive transfer too
Bounded == Registered <= NRx

\* ~Usb() runs after the keepalive thread, when nobody has a transfer
Ending == /\ stop <=> dtor # "none"
          /\ stop => /\ pc[Keeper] = "gone"
                     /\ \A t \in Senders : pc[t] \in {"idle", "try", "parked"}

\* a reconnection: the fault stays, receive transfers are gone once drained,
\* the whole pool is home when the handle is closed
Reconnecting == {"cancel", "drainRx", "drainTx", "close", "open", "restart",
                 "armRx", "unfault"}
Quiet ==
    /\ pc[Keeper] \in Reconnecting => faulted
    /\ pc[Keeper] \in {"drainTx", "close", "open", "restart", "armRx"} => Registered = 0
    /\ handle = "none" /\ ~stop => Registered = 0
    /\ pc[Keeper] = "close" => free = NTx
    /\ pc[Keeper] = "open" => handle = "none"
    /\ pc[Keeper] = "restart" => handle # "none"

Accounts == Counted /\ Bounded /\ Ending /\ Quiet
IInv == Booleans /\ Numbers /\ Places /\ Accounts

-----------------------------------------------------------------------------
\* The senders that have a transfer can be counted.
LEMMA OwnersCount == IsFiniteSet(Owners) /\ Cardinality(Owners) \in Nat
<1>1. IsFiniteSet(Threads)  BY UsbAssumption, FS_AddElement DEF Threads
<1>2. Owners \subseteq Threads  BY DEF Owners
<1>  QED  BY <1>1, <1>2, FS_Subset, FS_CardinalityType

\* What a step does to the threads: those that sleep may be woken, and at most
\* one other moves.
Woken1(u) == pc'[u] = pc[u] \/ (pc[u] = "parked" /\ pc'[u] = "try")
Stays == pc' \in [Threads -> SendPcs \cup KeepPcs] /\ \A u \in Threads : Woken1(u)
Moves(t, to) == /\ pc' \in [Threads -> SendPcs \cup KeepPcs]
                /\ pc'[t] = to /\ \A u \in Threads \ {t} : Woken1(u)
Owns(where) == IF where \in Owning THEN 1 ELSE 0

\* A thread that stays owns what it owned.
LEMMA OwnersStay ==
    ASSUME Stays  PROVE Cardinality(Owners)' = Cardinality(Owners)
<1>1. Owners' = Owners  BY DEF Owners, Stays, Woken1, Owning
<1>  QED  BY <1>1

\* A thread that moves may gain a transfer or lose one.
LEMMA OwnersMove ==
    ASSUME NEW t \in Threads, NEW to, Moves(t, to)
    PROVE  /\ Cardinality(Owners)' \in Nat
           /\ Cardinality(Owners)' + Owns(pc[t]) = Cardinality(Owners) + Owns(to)
<1>1. Owners' = IF to \in Owning THEN Owners \cup {t} ELSE Owners \ {t}
  BY DEF Owners, Moves, Woken1, Owning
<1>2. t \in Owners <=> pc[t] \in Owning  BY DEF Owners
<1>3. Cardinality(Owners)' = Cardinality(Owners')  OBVIOUS
<1>4. CASE to \in Owning
  <2>1. Cardinality(Owners)' = IF t \in Owners THEN Cardinality(Owners) ELSE Cardinality(Owners) + 1
    BY <1>1, <1>3, <1>4, OwnersCount, FS_AddElement
  <2>  QED  BY <2>1, <1>2, <1>4, OwnersCount DEF Owns
<1>5. CASE to \notin Owning
  <2>1. Cardinality(Owners)' = IF t \in Owners THEN Cardinality(Owners) - 1 ELSE Cardinality(Owners)
    BY <1>1, <1>3, <1>5, OwnersCount, FS_RemoveElement
  <2>2. t \in Owners => Cardinality(Owners) # 0
    BY OwnersCount, FS_EmptySet
  <2>  QED  BY <2>1, <2>2, <1>2, <1>5, OwnersCount DEF Owns
<1>  QED  BY <1>4, <1>5

\* A thread goes on, alone.
LEMMA GotoMoves ==
    ASSUME Places, NEW t \in Threads, NEW to \in SendPcs \cup KeepPcs, Goto(t, to)
    PROVE  Moves(t, to)
BY DEF Places, Goto, Moves, Woken1

\* A thread goes on and wakes one that sleeps, or all.
LEMMA WakeMoves ==
    ASSUME Places, NEW t \in Threads, NEW to \in (SendPcs \cup KeepPcs) \ {"parked"},
           \/ WakeOne([pc EXCEPT ![t] = to]) \/ WakeAll([pc EXCEPT ![t] = to])
    PROVE  Moves(t, to)
BY DEF Places, WakeOne, WakeAll, Moves, Woken1, SendPcs

\* The threads that sleep are woken, or one of them.
LEMMA WakeStays ==
    ASSUME Places, WakeOne(pc) \/ WakeAll(pc)
    PROVE  Stays
BY DEF Places, WakeOne, WakeAll, Stays, Woken1, SendPcs

(* A step that moves no thread keeps every place.                          *)
LEMMA SameStays ==
    ASSUME Places, UNCHANGED pc
    PROVE  Stays
BY DEF Places, Stays, Woken1

-----------------------------------------------------------------------------
\* What the constants are.
LEMMA Constants ==
    /\ NTx \in Nat /\ NTx >= 1 /\ NRx \in Nat /\ NRx >= 1 /\ MaxTroubles \in Nat
    /\ Keeper \in Threads /\ Keeper \notin Senders
    /\ \A t \in Threads : t # Keeper => t \in Senders
  BY UsbAssumption DEF Threads

\* A step of a thread that is not reconnecting and touches nothing but itself.
LEMMA OnlyMoves ==
    ASSUME IInv, NEW t \in Threads, NEW to, Moves(t, to),
           UNCHANGED <<device, flags, tx, receives, ev, dtor, orphans, troubles>>,
           to \in Owning <=> pc[t] \in Owning,
           t = Keeper => /\ pc[t] # "gone" /\ pc[t] # "restart"
                         /\ to \notin Reconnecting \cup {"gone"},
           stop /\ t # Keeper => to \in {"idle", "try", "parked"}
    PROVE  Numbers' /\ Places' /\ Accounts'
<1>1. Cardinality(Owners)' = Cardinality(Owners)
  BY OwnersMove, OwnersCount DEF Owns
<1>2. Numbers' /\ Places'
  BY DEF IInv, Numbers, Places, Moves, device, tx, receives
<1>3. Counted' /\ Bounded'
  BY <1>1, Constants
  DEF IInv, Accounts, Counted, Bounded, Registered, PuttingBack, InCallback,
      Moves, Woken1, Reconnecting, device, flags, tx, receives
<1>4. Ending'
  BY Constants DEF IInv, Accounts, Ending, Moves, Woken1, flags, Threads
<1>5. Quiet'
  BY Constants
  DEF IInv, Accounts, Quiet, Registered, InCallback, Moves, Woken1, Reconnecting,
      device, flags, tx, receives
<1>  QED  BY <1>2, <1>3, <1>4, <1>5 DEF Accounts

\* Where a thread may go.
LEMMA PcNames ==
    /\ SendPcs \cup KeepPcs =
         {"idle", "try", "look", "parked", "hold", "submit", "raise", "release",
          "await", "recover", "replenish", "raiseOnly", "cancel", "drainRx",
          "drainTx", "close", "open", "restart", "armRx", "unfault", "gone"}
    /\ Owning = {"hold", "submit", "raise", "release"}
  BY DEF SendPcs, KeepPcs, Owning

\* After ~Usb() has begun no thread has a transfer or looks for one.
LEMMA StoppedThreads ==
    ASSUME IInv, stop, NEW t \in Threads
    PROVE  pc[t] \in {"idle", "try", "parked", "gone"} /\ (t = Keeper => pc[t] = "gone")
  BY Constants DEF IInv, Accounts, Ending

(* A step of a sender before its submission keeps the accounts.            *)
LEMMA SenderMoves ==
    ASSUME IInv, NEW t \in Threads,
           \/ Acquire(t) \/ NoBuffer(t) \/ Look(t) \/ Park(t) \/ Transmit(t) \/ Discard(t)
           \/ pc[t] = "raise" /\ WakeOnFault(t)
           \/ pc[t] = "raiseOnly" /\ WakeOnFault(t)
    PROVE  Numbers' /\ Places' /\ Accounts'
<1>  USE DEF device, flags, tx, receives, control
<1>1. CASE Acquire(t)
  <2>1. Moves(t, "try")  BY <1>1, GotoMoves, PcNames DEF IInv, Acquire
  <2>  QED  BY <1>1, <2>1, OnlyMoves, StoppedThreads, PcNames DEF Acquire, Reconnecting
<1>2. CASE NoBuffer(t)
  <2>  DEFINE to == IF t = Keeper THEN "recover" ELSE "idle"
  <2>1. Moves(t, to)  BY <1>2, GotoMoves, PcNames DEF IInv, NoBuffer
  <2>  QED  BY <1>2, <2>1, OnlyMoves, PcNames DEF NoBuffer, Reconnecting
<1>3. CASE Look(t)
  <2>1. Moves(t, "look")  BY <1>3, GotoMoves, PcNames DEF IInv, Look
  <2>  QED  BY <1>3, <2>1, OnlyMoves, PcNames DEF Look, Reconnecting
<1>4. CASE Park(t)
  <2>1. Moves(t, "parked")  BY <1>4, GotoMoves, PcNames DEF IInv, Park
  <2>  QED  BY <1>4, <2>1, OnlyMoves, StoppedThreads, PcNames DEF Park, Reconnecting
<1>5. CASE Transmit(t)
  <2>  DEFINE to == IF faulted THEN "release" ELSE "submit"
  <2>1. Moves(t, to)  BY <1>5, GotoMoves, PcNames DEF IInv, Transmit
  <2>  QED  BY <1>5, <2>1, OnlyMoves, StoppedThreads, PcNames DEF Transmit, Reconnecting
<1>6. CASE Discard(t)
  <2>1. Moves(t, "release")  BY <1>6, GotoMoves, PcNames DEF IInv, Discard
  <2>  QED  BY <1>6, <2>1, OnlyMoves, StoppedThreads, PcNames DEF Discard, Reconnecting
<1>7. CASE pc[t] = "raise" /\ WakeOnFault(t)
  <2>1. Moves(t, "release")
    BY <1>7, WakeMoves, PcNames DEF IInv, WakeOnFault, WakeFaulted
  <2>  QED  BY <1>7, <2>1, OnlyMoves, StoppedThreads, PcNames DEF WakeOnFault, Reconnecting
<1>8. CASE pc[t] = "raiseOnly" /\ WakeOnFault(t)
  <2>1. Moves(t, "idle")
    BY <1>8, WakeMoves, PcNames DEF IInv, WakeOnFault, WakeFaulted
  <2>  QED  BY <1>8, <2>1, OnlyMoves, StoppedThreads, PcNames DEF WakeOnFault, Reconnecting
<1>  QED  BY <1>1, <1>2, <1>3, <1>4, <1>5, <1>6, <1>7, <1>8

\* The pool gives a transfer away, libusb takes one, the pool gets one back.
LEMMA PopStep ==
    ASSUME IInv, NEW t \in Threads, Pop(t)
    PROVE  Numbers' /\ Places' /\ Accounts'
<1>  USE DEF device, flags, tx, receives, control
<1>1. Moves(t, "hold") /\ pc[t] = "try"
  BY GotoMoves, PcNames DEF IInv, Pop
<1>2. Cardinality(Owners)' = Cardinality(Owners) + 1
  BY <1>1, OwnersMove, OwnersCount, PcNames DEF Owns
<1>3. Numbers' /\ Places'
  BY <1>1, Constants DEF IInv, Numbers, Places, Moves, Pop
<1>4. Counted' /\ Bounded'
  BY <1>1, <1>2, OwnersCount, Constants
  DEF IInv, Accounts, Counted, Bounded, Registered, PuttingBack, InCallback,
      Numbers, Moves, Woken1, Pop
<1>5. Ending'
  BY <1>1, Constants DEF IInv, Accounts, Ending, Pop
<1>6. Quiet'
  BY <1>1, Constants
  DEF IInv, Accounts, Quiet, Registered, InCallback, Moves, Woken1, Reconnecting, Pop
<1>  QED  BY <1>3, <1>4, <1>5, <1>6 DEF Accounts

(* A submission keeps the accounts, whether it fails or not.               *)
LEMMA SubmitStep ==
    ASSUME IInv, NEW t \in Threads, Submit(t)
    PROVE  Numbers' /\ Places' /\ Accounts'
<1>  USE DEF device, flags, tx, receives, control
<1>1. PICK to \in {"release", "raise", "await", "idle"} :
        /\ Goto(t, to) /\ flight' = flight + 1 - Owns(to)
        /\ to = "await" => t = Keeper
        /\ to \notin Owning <=> to \in {"await", "idle"}
  BY Constants DEF Submit, Sent, Owns, Owning, IInv, Numbers
<1>2. Moves(t, to) /\ pc[t] = "submit"
  BY <1>1, GotoMoves, PcNames DEF IInv, Submit
<1>3. Cardinality(Owners)' = Cardinality(Owners) + Owns(to) - 1
  BY <1>2, OwnersMove, OwnersCount, PcNames DEF Owns
<1>4. ~stop
  BY <1>2, StoppedThreads
<1>5. Counted' /\ Bounded' /\ Cardinality(Owners)' \in Nat
  <2>1. UNCHANGED <<handle, stop, free, rx, rxCancelled, ev>>
    BY DEF Submit
  <2>2. pc'[Keeper] = "restart" <=> pc[Keeper] = "restart"
    BY <1>1, <1>2, Constants DEF Moves, Woken1
  <2>3. Cardinality(Owners)' \in Nat
    BY <1>2, OwnersMove
  <2>4. Counted'
    BY <1>1, <1>3, <1>4, <2>1, <2>2, OwnersCount, Constants
    DEF IInv, Accounts, Counted, PuttingBack, Numbers, Owns
  <2>  QED  BY <2>1, <2>3, <2>4 DEF IInv, Accounts, Bounded, Registered, InCallback
<1>6. Numbers'
  BY <1>1, <1>4, <1>5, Constants
  DEF IInv, Numbers, Submit, Trouble, Counted, PuttingBack, Owns
<1>7. Places'
  BY <1>2 DEF IInv, Places, Moves, Submit
<1>8. Ending'
  BY <1>4 DEF IInv, Accounts, Ending, Submit
<1>9. Quiet'
  BY <1>1, <1>2, Constants
  DEF IInv, Accounts, Quiet, Registered, InCallback, Moves, Woken1, Reconnecting, Submit
<1>  QED  BY <1>5, <1>6, <1>7, <1>8, <1>9 DEF Accounts

(* Putting a buffer back keeps the accounts.                               *)
LEMMA ReleaseStep ==
    ASSUME IInv, NEW t \in Threads, Release(t)
    PROVE  Numbers' /\ Places' /\ Accounts'
<1>  USE DEF device, flags, tx, receives, control
<1>1. Moves(t, Sent(t)) /\ pc[t] = "release" /\ Sent(t) \in {"await", "idle"}
  BY WakeMoves, PcNames DEF IInv, Release, Sent
<1>2. Cardinality(Owners)' = Cardinality(Owners) - 1 /\ Cardinality(Owners)' \in Nat
  BY <1>1, OwnersMove, OwnersCount, PcNames DEF Owns
<1>3. ~stop
  BY <1>1, StoppedThreads
<1>4. Counted' /\ Bounded'
  BY <1>1, <1>2, <1>3, OwnersCount, Constants
  DEF IInv, Accounts, Counted, Bounded, Registered, PuttingBack, InCallback,
      Numbers, Moves, Woken1, Release
<1>5. Numbers'
  BY <1>2, <1>3, <1>4, Constants DEF IInv, Numbers, Release, Counted, PuttingBack
<1>6. Places'
  BY <1>1 DEF IInv, Places, Moves, Release
<1>7. Ending'
  BY <1>3 DEF IInv, Accounts, Ending, Release
<1>8. pc[Keeper] # "close" /\ pc'[Keeper] # "close"
  BY <1>1, <1>2, <1>3, OwnersCount, Constants
  DEF IInv, Accounts, Counted, Quiet, Numbers, PuttingBack, Moves, Woken1
<1>9. Quiet'
  BY <1>1, <1>8, Constants
  DEF IInv, Accounts, Quiet, Registered, InCallback, Moves, Woken1, Reconnecting, Release
<1>  QED  BY <1>4, <1>5, <1>6, <1>7, <1>9 DEF Accounts

-----------------------------------------------------------------------------
\* A step of the event thread: transfers move towards the pool or away, a
\* fault is raised and never cleared, threads are woken.
LEMMA RegisteredCount == Numbers => Registered \in Nat
  BY Constants DEF Numbers, Registered, InCallback

(* What a step of the event thread must show to keep the accounts.         *)
LEMMA EventFrame ==
    ASSUME IInv, Stays, UNCHANGED <<handle, stop, dtor>>, faulted => faulted',
           Numbers', Places', free' >= free, Registered' <= Registered,
           IF stop THEN free' = 0 /\ flight' + PuttingBack' <= flight + PuttingBack
           ELSE free' + flight' + PuttingBack' = free + flight + PuttingBack
    PROVE  Accounts'
<1>1. Cardinality(Owners)' = Cardinality(Owners)
  BY OwnersStay
<1>2. /\ pc'[Keeper] \in Reconnecting \cup {"gone"} <=> pc[Keeper] \in Reconnecting \cup {"gone"}
      /\ pc[Keeper] \in Reconnecting \cup {"gone"} => pc'[Keeper] = pc[Keeper]
  BY Constants DEF Stays, Woken1, Reconnecting
<1>3. pc'[Keeper] = "restart" <=> pc[Keeper] = "restart"
  BY <1>2 DEF Reconnecting
<1>5. Registered \in Nat /\ Registered' \in Nat
  <2>1. (Numbers => Registered \in Nat)'  BY RegisteredCount, PTL
  <2>  QED  BY <2>1, RegisteredCount DEF IInv
<1>6. Counted'
  <2>1. Numbers /\ Counted  BY DEF IInv, Accounts
  <2>2. CASE stop
    <3>  DEFINE gone == flight' + PuttingBack'
    <3>1. free' = 0 /\ gone <= flight + PuttingBack
      BY <2>2
    <3>2. Cardinality(Owners) = 0 /\ flight + PuttingBack <= NTx
      BY <2>1, <2>2 DEF Counted
    <3>3. gone \in Nat /\ flight + PuttingBack \in Nat
      <4>  DEFINE f == flight'
                  b == PuttingBack'
      <4>1. f \in Nat /\ b \in Nat  BY Constants DEF Numbers, PuttingBack
      <4>  HIDE DEF f, b
      <4>2. f + b \in Nat  BY <4>1
      <4>3. flight + PuttingBack \in Nat  BY <2>1, Constants DEF Numbers, PuttingBack
      <4>  QED  BY <4>2, <4>3 DEF f, b
    <3>  HIDE DEF gone
    <3>4. gone <= NTx
      BY <3>1, <3>2, <3>3, Constants
    <3>  QED  BY <2>2, <3>1, <3>2, <3>4, <1>1 DEF Counted, gone
  <2>3. CASE ~stop
    <3>1. free' + flight' + PuttingBack' = free + flight + PuttingBack
      BY <2>3
    <3>2. free + flight + PuttingBack + Cardinality(Owners)
             = IF handle = "none" \/ pc[Keeper] = "restart" THEN 0 ELSE NTx
      BY <2>1, <2>3 DEF Counted
    <3>3. free' + flight' + PuttingBack' + Cardinality(Owners)'
             = free + flight + PuttingBack + Cardinality(Owners)
      BY <3>1, <1>1
    <3>  QED  BY <3>2, <3>3, <2>3, <1>3 DEF Counted
  <2>  QED  BY <2>2, <2>3
<1>7. Bounded'
  BY <1>5, Constants DEF IInv, Accounts, Bounded
<1>8. Ending'
  BY <1>2, Constants DEF IInv, Accounts, Ending, Stays, Woken1, Threads, Reconnecting
<1>9. Quiet'
  <2>1. pc'[Keeper] = "close" => free' = NTx
    BY <1>2, Constants DEF IInv, Accounts, Quiet, Numbers, Reconnecting
  <2>  QED  BY <2>1, <1>2, <1>5 DEF IInv, Accounts, Quiet, Reconnecting
<1>  QED  BY <1>6, <1>7, <1>8, <1>9 DEF Accounts

(* Every step of the event thread keeps the accounts.                      *)
LEMMA EventStep ==
    ASSUME IInv, Events \/ PollFails \/ ReapOrphan
    PROVE  Numbers' /\ Places' /\ Accounts'
<1>  USE DEF device, flags, tx, receives, control
<1>  USE Constants DEF Numbers, Places, PuttingBack, InCallback, Registered
<1>0. Numbers /\ Places /\ Bounded /\ Counted  BY DEF IInv, Accounts
<1>1. CASE ReapTx
  <2>1. Numbers' /\ Places'  BY <1>0, <1>1 DEF ReapTx
  <2>2. PuttingBack = 0 /\ PuttingBack' = 1  BY <1>1 DEF ReapTx
  <2>3. InCallback = 0 /\ InCallback' = 0  BY <1>1 DEF ReapTx
  <2>  HIDE DEF PuttingBack, InCallback
  <2>4. flight' + PuttingBack' = flight + PuttingBack
    BY <1>0, <1>1, <2>2 DEF ReapTx
  <2>5. UNCHANGED <<handle, stop, dtor, free, pc, rx, rxCancelled>>
    BY <1>1 DEF ReapTx
  <2>6. faulted => faulted'  BY <1>1 DEF ReapTx
  <2>7. Registered' = Registered  BY <2>3, <2>5
  <2>8. free' + flight' + PuttingBack' = free + flight + PuttingBack
    BY <1>0, <2>2, <2>5, <1>1 DEF ReapTx
  <2>  HIDE DEF Numbers, Places, Registered
  <2>9. Stays  BY <1>0, <2>5, SameStays
  <2>10. free' >= free /\ Registered' <= Registered
    BY <1>0, <2>5, <2>7, RegisteredCount DEF Numbers
  <2>11. IF stop THEN free' = 0 /\ flight' + PuttingBack' <= flight + PuttingBack
         ELSE free' + flight' + PuttingBack' = free + flight + PuttingBack
    <3>1. flight + PuttingBack \in Nat  BY <1>0, <2>2 DEF Numbers
    <3>  QED  BY <1>0, <2>4, <2>5, <2>8, <3>1 DEF Counted
  <2>  QED  BY <2>1, <2>5, <2>6, <2>9, <2>10, <2>11, EventFrame
<1>2. CASE EventRaise
  <2>1. Stays  BY <1>0, <1>2, WakeStays DEF EventRaise, WakeFaulted
  <2>2. Numbers' /\ Places'  BY <1>0, <1>2, <2>1 DEF EventRaise, Stays
  <2>  QED  BY <1>0, <1>2, <2>1, <2>2, EventFrame DEF EventRaise, Counted
<1>3. CASE PutBack
  <2>1. Stays  BY <1>0, <1>3, WakeStays, SameStays DEF PutBack
  <2>2. ~stop => free + 1 <= NTx
    BY <1>0, <1>3, OwnersCount DEF PutBack, Counted
  <2>3. Numbers' /\ Places'  BY <1>0, <1>3, <2>1, <2>2 DEF PutBack, Stays
  <2>4. PuttingBack = 1 /\ PuttingBack' = 0  BY <1>3 DEF PutBack
  <2>5. InCallback = 0 /\ InCallback' = 0  BY <1>3 DEF PutBack
  <2>  HIDE DEF PuttingBack, InCallback
  <2>6. UNCHANGED <<handle, stop, dtor, flight, rx, rxCancelled, faulted>>
    BY <1>3 DEF PutBack
  <2>7. Registered' = Registered  BY <2>5, <2>6
  <2>8. IF stop THEN free' = free ELSE free' = free + 1
    BY <1>3 DEF PutBack
  <2>  HIDE DEF Numbers, Places, Registered
  <2>9. free' >= free /\ Registered' <= Registered
    BY <1>0, <2>7, <2>8, RegisteredCount DEF Numbers
  <2>10. IF stop THEN free' = 0 /\ flight' + PuttingBack' <= flight + PuttingBack
         ELSE free' + flight' + PuttingBack' = free + flight + PuttingBack
    <3>1. flight \in Nat /\ free \in Nat  BY <1>0 DEF Numbers
    <3>2. CASE stop  BY <1>0, <2>4, <2>6, <2>8, <3>1, <3>2 DEF Counted
    <3>3. CASE ~stop  BY <2>4, <2>6, <2>8, <3>1, <3>3
    <3>  QED  BY <3>2, <3>3
  <2>  QED  BY <2>1, <2>3, <2>6, <2>9, <2>10, EventFrame
<1>4. CASE ReapRx
  <2>1. Numbers' /\ Places'  BY <1>0, <1>4 DEF ReapRx
  <2>  QED  BY <1>0, <1>4, <2>1, EventFrame, SameStays DEF ReapRx, Counted
<1>5. CASE ReapCancelled
  <2>1. Numbers' /\ Places'  BY <1>0, <1>5 DEF ReapCancelled
  <2>  QED  BY <1>0, <1>5, <2>1, EventFrame, SameStays DEF ReapCancelled, Counted
<1>6. CASE ReapNoDevice
  <2>1. Numbers' /\ Places'  BY <1>0, <1>6 DEF ReapNoDevice
  <2>2. PuttingBack = 0 /\ PuttingBack' = 0  BY <1>6 DEF ReapNoDevice
  <2>3. InCallback = 0 /\ InCallback' = 0  BY <1>6 DEF ReapNoDevice
  <2>  HIDE DEF PuttingBack, InCallback
  <2>4. UNCHANGED <<handle, stop, dtor, free, flight, pc>> /\ (faulted => faulted')
    BY <1>6 DEF ReapNoDevice
  <2>5. Registered' <= Registered
    BY <1>0, <1>6, <2>3 DEF ReapNoDevice
  <2>  HIDE DEF Numbers, Places, Registered
  <2>6. Stays  BY <1>0, <2>4, SameStays
  <2>7. IF stop THEN free' = 0 /\ flight' + PuttingBack' <= flight + PuttingBack
        ELSE free' + flight' + PuttingBack' = free + flight + PuttingBack
    BY <1>0, <2>2, <2>4 DEF Counted, Numbers
  <2>8. free' >= free  BY <1>0, <2>4 DEF Numbers
  <2>  QED  BY <2>1, <2>4, <2>5, <2>6, <2>7, <2>8, EventFrame
<1>7. CASE CallbackReturns
  <2>1. Numbers' /\ Places'  BY <1>0, <1>7 DEF CallbackReturns
  <2>  QED  BY <1>0, <1>7, <2>1, EventFrame, SameStays DEF CallbackReturns, Counted
<1>8. CASE Resubmit
  <2>1. rx + 1 <= NRx  BY <1>0, <1>8 DEF Resubmit, Bounded
  <2>2. Numbers' /\ Places'  BY <1>0, <1>8, <2>1 DEF Resubmit, Trouble
  <2>3. PuttingBack = 0 /\ PuttingBack' = 0  BY <1>8 DEF Resubmit
  <2>4. InCallback = 1 /\ InCallback' = 0  BY <1>8 DEF Resubmit
  <2>  HIDE DEF PuttingBack, InCallback
  <2>5. Registered' <= Registered
    BY <1>0, <1>8, <2>4 DEF Resubmit
  <2>6. faulted => faulted'
    BY <1>8 DEF Resubmit
  <2>  QED  BY <1>0, <1>8, <2>2, <2>3, <2>5, <2>6, EventFrame, SameStays DEF Resubmit, Counted
<1>9. CASE LeaveLoop
  <2>1. Numbers' /\ Places'  BY <1>0, <1>9 DEF LeaveLoop
  <2>  QED  BY <1>0, <1>9, <2>1, EventFrame, SameStays DEF LeaveLoop, Counted
<1>10. CASE PollFails
  <2>1. Numbers' /\ Places'  BY <1>0, <1>10 DEF PollFails
  <2>  QED  BY <1>0, <1>10, <2>1, EventFrame, SameStays DEF PollFails, Counted
<1>11. CASE ReapOrphan
  <2>1. Numbers' /\ Places'  BY <1>0, <1>11 DEF ReapOrphan
  <2>  QED  BY <1>0, <1>11, <2>1, EventFrame, SameStays DEF ReapOrphan, Counted
<1>  QED
  BY <1>1, <1>2, <1>3, <1>4, <1>5, <1>6, <1>7, <1>8, <1>9, <1>10, <1>11 DEF Events

-----------------------------------------------------------------------------
\* What every step of the recovering keepalive thread leaves alone.
LEMMA KeeperFrame ==
    ASSUME IInv, NEW to, Moves(Keeper, to), UNCHANGED <<stop, dtor, ev>>,
           pc[Keeper] \in KeepPcs, pc[Keeper] # "gone", to \in KeepPcs \cup {"idle"}
    PROVE  /\ ~stop /\ Ending' /\ pc'[Keeper] = to
           /\ Cardinality(Owners)' = Cardinality(Owners) /\ Cardinality(Owners) \in Nat
           /\ handle' \in {"none", "live", "dead"} => Places'
<1>1. ~stop /\ pc'[Keeper] = to
  BY DEF IInv, Accounts, Ending, Moves
<1>2. Ending'
  BY <1>1 DEF IInv, Accounts, Ending
<1>3. Owns(pc[Keeper]) = 0 /\ Owns(to) = 0
  BY DEF Owns, Owning, KeepPcs
<1>4. /\ Cardinality(Owners)' \in Nat /\ Cardinality(Owners) \in Nat
      /\ Cardinality(Owners)' + Owns(pc[Keeper]) = Cardinality(Owners) + Owns(to)
  BY OwnersMove, OwnersCount, Constants
<1>5. Cardinality(Owners)' + 0 = Cardinality(Owners) + 0
  BY <1>3, <1>4
<1>6. Cardinality(Owners)' = Cardinality(Owners)
  <2>  DEFINE n == Cardinality(Owners)'
  <2>1. n \in Nat /\ n + 0 = Cardinality(Owners) + 0  BY <1>4, <1>5
  <2>  HIDE DEF n
  <2>2. n = Cardinality(Owners)  BY <2>1, <1>4
  <2>  QED  BY <2>2 DEF n
<1>7. handle' \in {"none", "live", "dead"} => Places'
  BY DEF IInv, Places, Moves
<1>  QED  BY <1>1, <1>2, <1>4, <1>6, <1>7

(* Every step of the keeper thread keeps the accounts.                     *)
LEMMA KeepStep ==
    ASSUME IInv, Keep
    PROVE  Numbers' /\ Places' /\ Accounts'
<1>  USE Constants DEF device, flags, tx, receives, control
<1>0. Numbers /\ Places /\ Counted /\ Bounded /\ Quiet /\ handle \in {"none", "live", "dead"}
  BY DEF IInv, Accounts, Places
<1>1. CASE Answered \/ Unanswered
  <2>1. PICK to \in {"idle", "recover"} : Moves(Keeper, to) /\ pc[Keeper] = "await"
    BY <1>0, <1>1, GotoMoves, PcNames DEF Answered, Unanswered
  <2>  QED  BY <1>1, <2>1, OnlyMoves, PcNames DEF Answered, Unanswered, Reconnecting
<1>2. CASE Reconnect
  <2>1. Moves(Keeper, "cancel") /\ pc[Keeper] = "recover"
    BY <1>0, <1>2, GotoMoves, PcNames DEF Reconnect
  <2>2. ~stop /\ Ending' /\ pc'[Keeper] = "cancel" /\ Cardinality(Owners)' = Cardinality(Owners) /\ Places'
    BY <1>0, <1>2, <2>1, KeeperFrame DEF Reconnect, KeepPcs
  <2>3. Numbers' /\ Counted' /\ Bounded'
    BY <1>0, <1>2, <2>1, <2>2
    DEF Reconnect, Numbers, Counted, PuttingBack, Bounded, Registered, InCallback
  <2>4. Quiet'
    BY <1>0, <1>2, <2>1, <2>2 DEF Reconnect, Quiet, Registered, InCallback, Reconnecting
  <2>  QED  BY <2>2, <2>3, <2>4 DEF Accounts
<1>3. CASE ClearHalt
  <2>1. PICK to \in {"raiseOnly", "replenish"} : Moves(Keeper, to) /\ pc[Keeper] = "recover"
    BY <1>0, <1>3, GotoMoves, PcNames DEF ClearHalt
  <2>2. ~stop /\ Ending' /\ pc'[Keeper] = to /\ Cardinality(Owners)' = Cardinality(Owners) /\ Places'
    BY <1>0, <1>3, <2>1, KeeperFrame DEF ClearHalt, KeepPcs
  <2>3. Numbers' /\ Counted' /\ Bounded'
    BY <1>0, <1>3, <2>1, <2>2
    DEF ClearHalt, Numbers, Counted, PuttingBack, Bounded, Registered, InCallback
  <2>4. Quiet'
    BY <1>0, <1>3, <2>1, <2>2 DEF ClearHalt, Quiet, Registered, InCallback, Reconnecting
  <2>  QED  BY <2>2, <2>3, <2>4 DEF Accounts
<1>4. CASE Replenish
  <2>1. Moves(Keeper, "idle") /\ pc[Keeper] = "replenish"
    BY <1>0, <1>4, GotoMoves, PcNames DEF Replenish
  <2>2. ~stop /\ Ending' /\ pc'[Keeper] = "idle" /\ Cardinality(Owners)' = Cardinality(Owners) /\ Places'
    BY <1>0, <1>4, <2>1, KeeperFrame DEF Replenish, KeepPcs
  <2>3. PICK n \in 0..NRx : SubmitRx(Missing, n)
    BY <1>4 DEF Replenish
  <2>4. rx + n + rxCancelled + InCallback <= NRx /\ rx + n \in 0..NRx
    BY <1>0, <2>3 DEF SubmitRx, Missing, Bounded, Registered, InCallback, Numbers
  <2>5. rx' = rx + n /\ troubles' \in 0..MaxTroubles /\ (handle = "none" => n = 0)
    BY <1>0, <2>3 DEF SubmitRx, Trouble, Numbers
  <2>6. UNCHANGED <<handle, faulted, stop, free, flight, rxCancelled, ev, orphans>>
    BY <1>4 DEF Replenish
  <2>7. Numbers' /\ Counted'
    BY <1>0, <2>1, <2>2, <2>4, <2>5, <2>6 DEF Numbers, Counted, PuttingBack
  <2>8. Registered' = rx + n + rxCancelled + InCallback
    BY <2>5, <2>6 DEF Registered, InCallback
  <2>9. Bounded'
    BY <2>4, <2>8 DEF Bounded
  <2>10. Quiet'
    BY <1>0, <2>1, <2>2, <2>5, <2>6, <2>8 DEF Quiet, Registered, Reconnecting, Numbers
  <2>  QED  BY <2>2, <2>7, <2>9, <2>10 DEF Accounts
<1>5. CASE Cancel
  <2>1. PICK to \in {"open", "drainRx"} :
          /\ Moves(Keeper, to) /\ pc[Keeper] = "cancel"
          /\ to = "open" => handle = "none"
    BY <1>0, <1>5, GotoMoves, PcNames DEF Cancel
  <2>2. ~stop /\ Ending' /\ pc'[Keeper] = to /\ Cardinality(Owners)' = Cardinality(Owners) /\ Places'
    BY <1>0, <1>5, <2>1, KeeperFrame DEF Cancel, KeepPcs
  <2>3. rx + rxCancelled <= NRx /\ rx + rxCancelled \in Nat
    BY <1>0 DEF Numbers, Bounded, Registered, InCallback
  <2>4. rxCancelled' = rxCancelled + rx /\ rx' = 0
        /\ UNCHANGED <<handle, faulted, stop, free, flight, ev, orphans, troubles>>
    BY <1>5 DEF Cancel
  <2>5. Numbers' /\ Counted'
    BY <1>0, <2>1, <2>2, <2>3, <2>4 DEF Numbers, Counted, PuttingBack
  <2>6. Registered' = Registered
    BY <1>0, <2>4 DEF Registered, InCallback, Numbers
  <2>7. Bounded'  BY <1>0, <2>6 DEF Bounded
  <2>8. Quiet'
    BY <1>0, <2>1, <2>2, <2>4, <2>6 DEF Quiet, Reconnecting
  <2>  QED  BY <2>2, <2>5, <2>7, <2>8 DEF Accounts
<1>6. CASE DrainRx
  <2>1. Moves(Keeper, "drainTx") /\ pc[Keeper] = "drainRx"
    BY <1>0, <1>6, GotoMoves, PcNames DEF DrainRx
  <2>2. ~stop /\ Ending' /\ pc'[Keeper] = "drainTx" /\ Cardinality(Owners)' = Cardinality(Owners) /\ Places'
    BY <1>0, <1>6, <2>1, KeeperFrame DEF DrainRx, KeepPcs
  <2>3. Numbers' /\ Counted' /\ Bounded'
    BY <1>0, <1>6, <2>1, <2>2
    DEF DrainRx, Numbers, Counted, PuttingBack, Bounded, Registered, InCallback
  <2>4. Quiet'
    BY <1>0, <1>6, <2>1, <2>2 DEF DrainRx, Quiet, Registered, InCallback, Reconnecting
  <2>  QED  BY <2>2, <2>3, <2>4 DEF Accounts
<1>7. CASE DrainTx
  <2>1. Moves(Keeper, "close") /\ pc[Keeper] = "drainTx"
    BY <1>0, <1>7, GotoMoves, PcNames DEF DrainTx
  <2>2. ~stop /\ Ending' /\ pc'[Keeper] = "close" /\ Cardinality(Owners)' = Cardinality(Owners) /\ Places'
    BY <1>0, <1>7, <2>1, KeeperFrame DEF DrainTx, KeepPcs
  <2>3. Numbers' /\ Counted' /\ Bounded'
    BY <1>0, <1>7, <2>1, <2>2
    DEF DrainTx, Numbers, Counted, PuttingBack, Bounded, Registered, InCallback
  <2>4. Quiet'
    BY <1>0, <1>7, <2>1, <2>2 DEF DrainTx, Quiet, Registered, InCallback, Reconnecting
  <2>  QED  BY <2>2, <2>3, <2>4 DEF Accounts
<1>8. CASE DrainExpires
  <2>1. UNCHANGED <<handle, faulted, stop, free, flight, rx, rxCancelled, pc, ev,
                    dtor, orphans, troubles>>
    BY <1>8 DEF DrainExpires
  <2>2. Owners' = Owners  BY <2>1 DEF Owners
  <2>  QED
    BY <2>1, <2>2
    DEF IInv, Accounts, Numbers, Places, Counted, PuttingBack, Bounded, Registered,
        InCallback, Ending, Quiet
<1>9. CASE CloseDevice
  <2>1. PICK to \in {"idle", "open"} : Moves(Keeper, to) /\ pc[Keeper] = "close"
    BY <1>0, <1>9, GotoMoves, PcNames DEF CloseDevice
  <2>2. /\ ~stop /\ Ending' /\ pc'[Keeper] = to /\ Places'
        /\ Cardinality(Owners)' = Cardinality(Owners) /\ Cardinality(Owners) \in Nat
    BY <1>0, <1>9, <2>1, KeeperFrame DEF CloseDevice, KeepPcs
  <2>3. free = NTx /\ Registered = 0
    BY <1>0, <2>1 DEF Quiet
  <2>4. PuttingBack \in Nat
    BY DEF PuttingBack
  <2>5. flight = 0 /\ PuttingBack = 0 /\ Cardinality(Owners) = 0
    BY <1>0, <2>1, <2>2, <2>3, <2>4 DEF Counted, Numbers
  <2>6. Numbers' /\ Counted'
    BY <1>0, <1>9, <2>1, <2>2, <2>5 DEF CloseDevice, Numbers, Counted, PuttingBack
  <2>7. Registered' = 0
    BY <1>9, <2>3 DEF CloseDevice, Registered, InCallback
  <2>8. Bounded' /\ Quiet'
    BY <1>0, <1>9, <2>1, <2>2, <2>7 DEF CloseDevice, Bounded, Quiet, Reconnecting
  <2>  QED  BY <2>2, <2>6, <2>8 DEF Accounts
<1>10. CASE OpenFails
  <2>1. Moves(Keeper, "idle") /\ pc[Keeper] = "open"
    BY <1>0, <1>10, GotoMoves, PcNames DEF OpenFails
  <2>2. ~stop /\ Ending' /\ pc'[Keeper] = "idle" /\ Cardinality(Owners)' = Cardinality(Owners) /\ Places'
    BY <1>0, <1>10, <2>1, KeeperFrame DEF OpenFails, KeepPcs
  <2>3. Numbers' /\ Counted' /\ Bounded'
    BY <1>0, <1>10, <2>1, <2>2
    DEF OpenFails, Trouble, Numbers, Counted, PuttingBack, Bounded, Registered, InCallback
  <2>4. Quiet'
    BY <1>0, <1>10, <2>1, <2>2 DEF OpenFails, Quiet, Registered, InCallback, Reconnecting
  <2>  QED  BY <2>2, <2>3, <2>4 DEF Accounts
<1>11. CASE Open
  <2>1. Moves(Keeper, "restart") /\ pc[Keeper] = "open"
    BY <1>0, <1>11, GotoMoves, PcNames DEF Open
  <2>2. ~stop /\ Ending' /\ pc'[Keeper] = "restart" /\ Cardinality(Owners)' = Cardinality(Owners) /\ Places'
    BY <1>0, <1>11, <2>1, KeeperFrame DEF Open, KeepPcs
  <2>3. handle = "none" /\ Registered = 0 /\ faulted
    BY <1>0, <2>1 DEF Quiet, Reconnecting
  <2>4. Numbers' /\ Counted' /\ Bounded'
    BY <1>0, <1>11, <2>2, <2>3
    DEF Open, Numbers, Counted, PuttingBack, Bounded, Registered, InCallback
  <2>5. Quiet'
    BY <1>11, <2>2, <2>3 DEF Open, Quiet, Registered, InCallback, Reconnecting
  <2>  QED  BY <2>2, <2>4, <2>5 DEF Accounts
<1>12. CASE ArmTx
  <2>1. Moves(Keeper, "armRx") /\ pc[Keeper] = "restart"
    BY <1>0, <1>12, GotoMoves, PcNames DEF ArmTx
  <2>2. /\ ~stop /\ Ending' /\ pc'[Keeper] = "armRx" /\ Places'
        /\ Cardinality(Owners)' = Cardinality(Owners) /\ Cardinality(Owners) \in Nat
    BY <1>0, <1>12, <2>1, KeeperFrame DEF ArmTx, KeepPcs
  <2>3. PuttingBack \in Nat
    BY DEF PuttingBack
  <2>4. handle # "none" /\ flight = 0 /\ PuttingBack = 0 /\ Cardinality(Owners) = 0
    BY <1>0, <2>1, <2>2, <2>3 DEF Counted, Numbers, Quiet
  <2>5. Numbers' /\ Counted' /\ Bounded'
    BY <1>0, <1>12, <2>1, <2>2, <2>4
    DEF ArmTx, Numbers, Counted, PuttingBack, Bounded, Registered, InCallback
  <2>6. Quiet'
    BY <1>0, <1>12, <2>1, <2>2, <2>4 DEF ArmTx, Quiet, Registered, InCallback, Reconnecting
  <2>  QED  BY <2>2, <2>5, <2>6 DEF Accounts
<1>13. CASE ArmRx
  <2>1. PICK n \in 0..NRx :
          /\ SubmitRx(NRx, n)
          /\ IF n < NRx THEN Goto(Keeper, "cancel")
             ELSE WakeAll([pc EXCEPT ![Keeper] = "unfault"])
    BY <1>13 DEF ArmRx
  <2>2. PICK to \in {"cancel", "unfault"} : Moves(Keeper, to) /\ pc[Keeper] = "armRx"
    BY <1>0, <1>13, <2>1, GotoMoves, WakeMoves, PcNames DEF ArmRx
  <2>3. ~stop /\ Ending' /\ pc'[Keeper] = to /\ Cardinality(Owners)' = Cardinality(Owners) /\ Places'
    BY <1>0, <1>13, <2>2, KeeperFrame DEF ArmRx, KeepPcs
  <2>4. Registered = 0 /\ faulted
    BY <1>0, <2>2 DEF Quiet, Reconnecting
  <2>5. rx = 0 /\ rxCancelled = 0 /\ InCallback = 0
    BY <1>0, <2>4 DEF Registered, InCallback, Numbers
  <2>6. rx' = n /\ troubles' \in 0..MaxTroubles /\ (handle = "none" => n = 0)
    BY <1>0, <2>1, <2>5 DEF SubmitRx, Trouble, Numbers
  <2>7. UNCHANGED <<handle, faulted, stop, free, flight, rxCancelled, ev, orphans>>
    BY <1>13 DEF ArmRx
  <2>8. Numbers' /\ Counted'
    BY <1>0, <2>2, <2>3, <2>6, <2>7 DEF Numbers, Counted, PuttingBack
  <2>9. Registered' = n
    BY <2>5, <2>6, <2>7 DEF Registered, InCallback
  <2>10. Bounded' /\ Quiet'
    BY <2>3, <2>4, <2>6, <2>7, <2>9 DEF Bounded, Quiet, Reconnecting
  <2>  QED  BY <2>3, <2>8, <2>10 DEF Accounts
<1>14. CASE Unfault
  <2>1. Moves(Keeper, "idle") /\ pc[Keeper] = "unfault"
    BY <1>0, <1>14, GotoMoves, PcNames DEF Unfault
  <2>2. ~stop /\ Ending' /\ pc'[Keeper] = "idle" /\ Cardinality(Owners)' = Cardinality(Owners) /\ Places'
    BY <1>0, <1>14, <2>1, KeeperFrame DEF Unfault, KeepPcs
  <2>3. Numbers' /\ Counted' /\ Bounded'
    BY <1>0, <1>14, <2>1, <2>2
    DEF Unfault, Numbers, Counted, PuttingBack, Bounded, Registered, InCallback
  <2>4. Quiet'
    BY <1>0, <1>14, <2>1, <2>2 DEF Unfault, Quiet, Registered, InCallback, Reconnecting
  <2>  QED  BY <2>2, <2>3, <2>4 DEF Accounts
<1>  QED
  BY <1>1, <1>2, <1>3, <1>4, <1>5, <1>6, <1>7, <1>8, <1>9, <1>10, <1>11, <1>12,
     <1>13, <1>14 DEF Keep

-----------------------------------------------------------------------------
\* The destructors of the handler and of the transport.
LEMMA DestroyStep ==
    ASSUME IInv, Quit \/ Destroy \/ Destructor
    PROVE  Numbers' /\ Places' /\ Accounts'
<1>  USE Constants DEF device, flags, tx, receives, control
<1>0. /\ Numbers /\ Places /\ Counted /\ Bounded /\ Quiet /\ Ending
      /\ handle \in {"none", "live", "dead"}
  BY DEF IInv, Accounts, Places
<1>1. CASE Quit
  <2>1. Moves(Keeper, "gone") /\ pc[Keeper] = "idle"
    BY <1>0, <1>1, GotoMoves, PcNames DEF Quit
  <2>2. ~stop /\ dtor = "none" /\ UNCHANGED <<stop, dtor>>
    BY <1>0, <1>1, <2>1 DEF Ending, Quit
  <2>3. Cardinality(Owners)' = Cardinality(Owners)
    <3>1. Owners' = Owners
      BY <2>1 DEF Owners, Moves, Woken1, Owning
    <3>  QED  BY <3>1
  <2>4. Numbers' /\ Places' /\ Counted' /\ Bounded'
    BY <1>0, <1>1, <2>1, <2>2, <2>3
    DEF Quit, Moves, Numbers, Places, Counted, PuttingBack, Bounded, Registered, InCallback
  <2>5. Ending' /\ Quiet'
    BY <1>0, <1>1, <2>1, <2>2
    DEF Quit, Moves, Ending, Quiet, Registered, InCallback, Reconnecting
  <2>  QED  BY <2>4, <2>5 DEF Accounts
<1>2. CASE Destroy
  <2>1. Stays  BY <1>0, <1>2, WakeStays DEF Destroy
  <2>2. /\ pc[Keeper] = "gone" /\ pc'[Keeper] = "gone" /\ ~stop /\ stop'
        /\ dtor' = "cancel" /\ free' = 0
        /\ UNCHANGED <<handle, flight, rx, rxCancelled, ev, orphans, troubles>>
    BY <1>0, <1>2, <2>1 DEF Destroy, Stays, Woken1, Ending
  <2>3. \A t \in Senders : pc'[t] \in {"idle", "try", "parked"}
    BY <1>2, <2>1 DEF Destroy, Stays, Woken1, Threads
  <2>4. Owners = {}
    BY <1>2, <2>2 DEF Destroy, Owners, Owning
  <2>5. Cardinality(Owners) = 0 /\ Cardinality(Owners)' = 0
    BY <2>1, <2>4, OwnersStay, FS_EmptySet
  <2>6. flight + PuttingBack <= NTx
    BY <1>0, <2>2, <2>5 DEF Counted, Numbers, PuttingBack
  <2>7. Numbers' /\ Places' /\ Counted' /\ Bounded'
    BY <1>0, <2>1, <2>2, <2>5, <2>6
    DEF Stays, Numbers, Places, Counted, PuttingBack, Bounded, Registered, InCallback
  <2>8. Ending'  BY <2>2, <2>3 DEF Ending
  <2>9. Quiet'  BY <2>2 DEF Quiet, Reconnecting
  <2>  QED  BY <2>7, <2>8, <2>9 DEF Accounts
<1>3. ASSUME Destructor
      PROVE  stop /\ stop' /\ UNCHANGED <<pc, free, ev, troubles>> /\ dtor' # "none"
  BY <1>0, <1>3 DEF Destructor, DestroyCancel, DestroyClose, DestroyNull, Join, Ending
<1>4. ASSUME Destructor  PROVE Ending' /\ Quiet' /\ Cardinality(Owners)' = Cardinality(Owners)
  <2>1. Owners' = Owners  BY <1>3, <1>4 DEF Owners
  <2>2. Ending'  BY <1>0, <1>3, <1>4 DEF Ending
  <2>3. Quiet'  BY <1>0, <1>3, <1>4 DEF Ending, Quiet, Reconnecting
  <2>  QED  BY <2>1, <2>2, <2>3
<1>5. CASE DestroyCancel
  <2>1. rx + rxCancelled <= NRx /\ rx + rxCancelled \in Nat
    BY <1>0 DEF Numbers, Bounded, Registered, InCallback
  <2>2. Numbers' /\ Places' /\ Counted' /\ Bounded'
    BY <1>0, <1>3, <1>4, <1>5, <2>1
    DEF Destructor, DestroyCancel, Numbers, Places, Counted, PuttingBack, Bounded,
        Registered, InCallback
  <2>  QED  BY <1>4, <1>5, <2>2 DEF Accounts, Destructor
<1>6. CASE DestroyClose
  <2>1. flight + rx + rxCancelled \in 0..(NTx + NRx)
    BY <1>0 DEF Numbers, Bounded, Registered, InCallback
  <2>2. PuttingBack <= NTx /\ InCallback <= NRx
    BY DEF PuttingBack, InCallback
  <2>3. Numbers' /\ Places' /\ Counted' /\ Bounded'
    BY <1>0, <1>3, <1>4, <1>6, <2>1, <2>2
    DEF Destructor, DestroyClose, Numbers, Places, Counted, PuttingBack, Bounded,
        Registered, InCallback
  <2>  QED  BY <1>4, <1>6, <2>3 DEF Accounts, Destructor
<1>7. CASE Join
  <2>1. Numbers' /\ Places' /\ Counted' /\ Bounded'
    BY <1>0, <1>3, <1>4, <1>7
    DEF Destructor, Join, Numbers, Places, Counted, PuttingBack, Bounded,
        Registered, InCallback
  <2>  QED  BY <1>4, <1>7, <2>1 DEF Accounts, Destructor
<1>8. CASE DestroyNull
  <2>1. Numbers' /\ Places' /\ Counted' /\ Bounded'
    BY <1>0, <1>3, <1>4, <1>8
    DEF Destructor, DestroyNull, Numbers, Places, Counted, PuttingBack, Bounded,
        Registered, InCallback
  <2>  QED  BY <1>4, <1>8, <2>1 DEF Accounts, Destructor
<1>  QED  BY <1>1, <1>2, <1>5, <1>6, <1>7, <1>8 DEF Destructor

\* The bus changes what the handle is good for; the model's last step nothing.
LEMMA BusStep ==
    ASSUME IInv, Bus \/ UNCHANGED vars
    PROVE  Numbers' /\ Places' /\ Accounts'
<1>1. UNCHANGED <<faulted, stop, free, flight, rx, rxCancelled, pc, ev, dtor, orphans>>
  BY DEF Bus, Unplug, Return, Halt, vars, flags, tx, receives, control
<1>2. handle' \in {"none", "live", "dead"} /\ (handle' = "none" <=> handle = "none")
  BY DEF IInv, Places, Bus, Unplug, Return, Halt, vars, device
<1>3. troubles' \in 0..MaxTroubles
  BY Constants DEF IInv, Numbers, Bus, Unplug, Return, Halt, Trouble, vars
<1>4. Owners' = Owners  BY <1>1 DEF Owners
<1>  QED
  BY <1>1, <1>2, <1>3, <1>4
  DEF IInv, Accounts, Numbers, Places, Counted, PuttingBack, Bounded, Registered,
      InCallback, Ending, Quiet

-----------------------------------------------------------------------------
\* The flags stay flags.
LEMMA BooleansStep ==
    ASSUME Booleans, [Next]_vars
    PROVE  Booleans'
<1>1. ASSUME NEW t \in Threads, Acquire(t) \/ Discard(t) \/ Send(t)
      PROVE  /\ UNCHANGED <<present, halted, stop, giveUp, undefined>>
             /\ faulted' = faulted \/ faulted' = TRUE
  BY <1>1, ZenonT(30)
  DEF Acquire, Discard, Send, NoBuffer, Pop, Look, Park, Transmit, Submit,
      WakeOnFault, Release, device, flags, control
<1>2. ASSUME Events \/ PollFails \/ ReapOrphan
      PROVE  /\ UNCHANGED <<present, halted, stop, giveUp, undefined>>
             /\ faulted' \in BOOLEAN
  BY <1>2, ZenonT(30)
  DEF Booleans, Events, ReapTx, EventRaise, PutBack, ReapRx, ReapCancelled,
      ReapNoDevice, CallbackReturns, Resubmit, LeaveLoop, PollFails, ReapOrphan,
      device, flags, control
<1>3. ASSUME Answered \/ Unanswered \/ Reconnect \/ ClearHalt \/ Replenish \/ Cancel
      PROVE  /\ UNCHANGED <<present, stop, undefined>>
             /\ halted' \in BOOLEAN /\ faulted' \in BOOLEAN /\ giveUp' \in BOOLEAN
  BY <1>3, ZenonT(30)
  DEF Booleans, Answered, Unanswered, Reconnect, ClearHalt, Replenish, Cancel,
      device, flags, control
<1>4. ASSUME \/ DrainRx \/ DrainTx \/ DrainExpires \/ CloseDevice \/ OpenFails
             \/ Open \/ ArmTx \/ Unfault
      PROVE  /\ UNCHANGED <<present, stop>>
             /\ halted' \in BOOLEAN /\ faulted' \in BOOLEAN /\ giveUp' \in BOOLEAN
             /\ undefined' \in BOOLEAN
  BY <1>4, ZenonT(30)
  DEF Booleans, DrainRx, DrainTx, DrainExpires, CloseDevice, OpenFails, Open,
      ArmTx, Unfault, device, flags, control
<1>5. ASSUME ArmRx
      PROVE  /\ UNCHANGED <<present, halted, faulted, stop, undefined>>
             /\ giveUp' \in BOOLEAN
  <2>1. PICK n \in 0..NRx : giveUp' = (n < NRx)
    BY <1>5 DEF ArmRx
  <2>2. (n < NRx) \in BOOLEAN
    BY SMT
  <2>  QED  BY <1>5, <2>1, <2>2, Zenon DEF ArmRx, device, flags
<1>6. ASSUME Quit \/ Destroy \/ Destructor \/ Bus \/ UNCHANGED vars
      PROVE  /\ UNCHANGED <<faulted, giveUp>> /\ undefined' \in BOOLEAN
             /\ present' \in BOOLEAN /\ halted' \in BOOLEAN /\ stop' \in BOOLEAN
  BY <1>6, ZenonT(30)
  DEF Booleans, Quit, Destroy, Destructor, DestroyCancel, DestroyClose, DestroyNull,
      Join, Bus, Unplug, Return, Halt, vars, device, flags, control
<1>7. /\ present \in BOOLEAN /\ halted \in BOOLEAN /\ faulted \in BOOLEAN
      /\ stop \in BOOLEAN /\ giveUp \in BOOLEAN /\ undefined \in BOOLEAN
  BY Zenon DEF Booleans
<1>8. /\ present' \in BOOLEAN /\ halted' \in BOOLEAN /\ faulted' \in BOOLEAN
      /\ stop' \in BOOLEAN /\ giveUp' \in BOOLEAN /\ undefined' \in BOOLEAN
  BY <1>1, <1>2, <1>3, <1>4, <1>5, <1>6, <1>7, ZenonT(30) DEF Next, Keep, Over
<1>  QED  BY <1>8, Zenon DEF Booleans

\* The inductive invariant holds at the start and through every step.
LEMMA InitIInv == Init => IInv
<1>  SUFFICES ASSUME Init  PROVE IInv
  OBVIOUS
<1>1. Booleans  BY Zenon DEF Init, Booleans
<1>2. Owners = {}
  BY DEF Init, Owners, Owning
<1>3. Cardinality(Owners) = 0
  BY <1>2, FS_EmptySet
<1>4. Numbers /\ Places
  BY Constants DEF Init, Numbers, Places, SendPcs, KeepPcs
<1>5. pc[Keeper] = "idle" /\ ~stop
  BY Constants DEF Init
<1>6. Accounts
  BY <1>3, <1>5, Constants
  DEF Init, Accounts, Counted, PuttingBack, Bounded, Registered, InCallback, Ending,
      Quiet, Reconnecting
<1>  QED  BY <1>1, <1>4, <1>6 DEF IInv

(* Every step keeps the inductive invariant.                               *)
LEMMA StepIInv == IInv /\ [Next]_vars => IInv'
<1>  SUFFICES ASSUME IInv, [Next]_vars  PROVE IInv'
  OBVIOUS
<1>1. ASSUME NEW t \in Threads, Acquire(t) \/ Discard(t) \/ Send(t)
      PROVE  Numbers' /\ Places' /\ Accounts'
  <2>1. CASE WakeOnFault(t)
    <3>1. pc[t] = "raise" \/ pc[t] = "raiseOnly"  BY <2>1 DEF WakeOnFault
    <3>  QED  BY <2>1, <3>1, SenderMoves
  <2>2. CASE Pop(t)  BY <2>2, PopStep
  <2>3. CASE Submit(t)  BY <2>3, SubmitStep
  <2>4. CASE Release(t)  BY <2>4, ReleaseStep
  <2>5. CASE \/ Acquire(t) \/ NoBuffer(t) \/ Look(t) \/ Park(t) \/ Transmit(t)
             \/ Discard(t)
    BY <2>5, SenderMoves
  <2>  QED  BY <1>1, <2>1, <2>2, <2>3, <2>4, <2>5 DEF Send
<1>2. Numbers' /\ Places' /\ Accounts'
  BY <1>1, EventStep, KeepStep, DestroyStep, BusStep DEF Next, Over
<1>3. Booleans'
  BY BooleansStep DEF IInv
<1>  QED  BY <1>2, <1>3 DEF IInv

\* The invariant holds in every state of the transport.
THEOREM Invariance == Spec => []IInv
<1>1. Init => IInv  BY InitIInv
<1>2. IInv /\ [Next]_vars => IInv'  BY StepIInv
<1>  QED  BY <1>1, <1>2, PTL DEF Spec

\* Every part of the state has its type: the counters stay within the pools
\* although several threads add to them.
THEOREM TypeCorrect == Spec => []TypeOK
<1>1. IInv => TypeOK
  <2>  SUFFICES ASSUME IInv  PROVE TypeOK
    OBVIOUS
  <2>1. {present, halted, faulted, stop, giveUp, undefined} \subseteq BOOLEAN
    BY Zenon DEF IInv, Booleans
  <2>2. {free, flight} \subseteq 0..NTx /\ {rx, rxCancelled} \subseteq 0..NRx
    BY DEF IInv, Numbers
  <2>3. orphans \in 0..(NTx + NRx) /\ troubles \in 0..MaxTroubles
    BY DEF IInv, Numbers
  <2>4. Places  BY DEF IInv
  <2>  QED  BY <2>1, <2>2, <2>3, <2>4, Zenon DEF Places, TypeOK
<1>  QED  BY <1>1, Invariance, PTL

\* No transfer is lost, owned twice, or still with somebody when the handle it
\* was built for is closed.
THEOREM PoolWhole == Spec => []WholePool
<1>1. IInv => WholePool
  BY DEF IInv, Accounts, Counted, Bounded, WholePool
<1>  QED  BY <1>1, Invariance, PTL

\* The link-restart callback has the deserializer to itself.
THEOREM DeserializerAlone == Spec => []RestartAlone
<1>1. IInv => RestartAlone
  <2>  SUFFICES ASSUME IInv, pc[Keeper] = "restart", ev = "callback"  PROVE FALSE
    BY DEF RestartAlone
  <2>1. Registered = 0 /\ InCallback = 1
    BY DEF IInv, Accounts, Quiet, InCallback
  <2>  QED  BY <2>1, Constants DEF IInv, Numbers, Registered
<1>  QED  BY <1>1, Invariance, PTL
=============================================================================
