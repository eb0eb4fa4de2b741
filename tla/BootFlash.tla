------------------------------ MODULE BootFlash ------------------------------
(***************************************************************************)
(* A firmware update across losses of power: the bootloader (main.cpp, its *)
(* Metadata, Writer and Dfu classes, install_staged_image_if_ready) and    *)
(* the running application's FoE download (foe_staging_writer.hpp,         *)
(* ecat_foe_support.cpp), which share the NOR flash.                       *)
(*                                                                         *)
(* The flash is what survives: the metadata slots, the application's       *)
(* sectors, the staging record and the staged sectors.  One action is one  *)
(* flash operation with the code around it, so that a loss of power or a   *)
(* failure falls between any two of them or inside one.  A sector holds a  *)
(* part of an image or Junk, which is also what an erased sector is: the   *)
(* hash suffix makes both equally unacceptable.  Sizes are in sectors.     *)
(***************************************************************************)
EXTENDS Naturals

CONSTANTS Images,     \* firmware images a host may send
          Size,       \* of each image, in sectors
          First,      \* the image the factory installed
          None, Junk, Busy,
          NSlots,     \* metadata slots in their flash sector
          NSectors,   \* sectors of the application and of the staging region
          ModeAuto,   \* LIBRMCS_BOOTLOADER_MODE_AUTO
          MaxFaults   \* bound: flash operations that fail or are cut short

ASSUME BootAssumption ==
    /\ NSlots \in Nat \ {0} /\ NSectors \in Nat \ {0} /\ MaxFaults \in Nat
    /\ Size \in [Images -> 1..NSectors] /\ First \in Images /\ ModeAuto \in BOOLEAN
    /\ None \notin Images /\ Junk \notin Images /\ Busy \notin Images
    /\ None # Busy

VARIABLES
    meta,       \* the metadata slots
    app, stg,   \* the application's sectors and the staged ones
    srec,       \* the staging record
    mbox,       \* BootMailbox: what the reset asked for
    pc,         \* where the running program stands
    lslot, lstate,   \* latest_valid_slot_ (0: none) and its state, in RAM
    img,        \* the image a DFU or FoE session carries; None: no session
    pos,        \* sectors written by the session or by the installation
    last,       \* the last block came; its sector or the commit is pending
    complete,   \* g_download_complete
    told,       \* history: the verdict of the latest DFU download
    excused,    \* history: a key, a request or a fault disturbed this boot
    faults      \* faults so far

flash == <<meta, app, stg, srec>>
slotVars == <<lslot, lstate>>
session == <<img, pos, last>>
ram == <<pc, slotVars, session, complete>>
vars == <<flash, mbox, ram, told, excused, faults>>

Sectors == 1..NSectors
Empty == [st |-> "Empty", size |-> 0]
Flashing == [st |-> "Flashing", size |-> 0]
Fatal == [st |-> "Fatal", size |-> 0]
Ready(n) == [st |-> "Ready", size |-> n]
Slot == {Empty, Flashing, Fatal} \cup {Ready(n) : n \in Sectors}
Record == {Empty, Flashing} \cup {Ready(n) : n \in Sectors}
BootPcs == {"reset", "begin", "write", "program", "check", "size", "state",
            "clear", "decide"}
AppPcs == {"app", "stageMark", "stageProgram", "stageState"}

-----------------------------------------------------------------------------
\* validate_image_at: signature and SHA-256 suffix accept exactly an image
ImageAt(i, content, n) == n = Size[i] /\ \A k \in 1..n : content[k] = i
ValidAt(content, n) == \E i \in Images : ImageAt(i, content, n)

\* scan_latest_valid_slot: the last used slot, or the first when none is; it
\* finds none when an unfinished slot is followed by a used one, or a slot
\* holds anything else
IsLatest(s) == /\ \A t \in 1..(s-1) : meta[t].st = "Ready"
               /\ \A t \in (s+1)..NSlots : meta[t] = Empty
               /\ meta[s] # Fatal /\ (meta[s] = Empty => s = 1)
WellFormed == \E s \in 1..NSlots : IsLatest(s)
Latest == CHOOSE s \in 1..NSlots : IsLatest(s)
LatestSlotKept ==    \* slip: the pointer is not cleared with the state
    IF WellFormed THEN Latest ELSE 1
LatestSlot == IF WellFormed THEN Latest ELSE 0
LatestState == IF WellFormed THEN meta[Latest].st ELSE "Fatal"

\* staging_record_is_ready, and the staged copy passes validation
CommittedImage(i) == srec.st = "Ready" /\ ImageAt(i, stg, srec.size)
Committed == \E i \in Images : CommittedImage(i)

\* validate_app_image, after a fresh scan
AppIs(i) == LatestState = "Ready" /\ ImageAt(i, app, meta[LatestSlot].size)

\* the firmware the next undisturbed boots end up running
NextIs(i) == CommittedImage(i) \/ (~Committed /\ AppIs(i))

-----------------------------------------------------------------------------
TypeOK ==
    /\ meta \in [1..NSlots -> Slot]
    /\ app \in [Sectors -> Images \cup {Junk}]
    /\ stg \in [Sectors -> Images \cup {Junk}]
    /\ srec \in Record
    /\ mbox \in {"none", "dfu", "once"}
    /\ pc \in BootPcs \cup AppPcs \cup {"dfu"}
    /\ lslot \in 0..NSlots
    /\ lstate \in {"Empty", "Flashing", "Fatal", "Ready"}
    /\ (lslot = 0 <=> lstate = "Fatal")
    /\ img \in Images \cup {None}
    /\ pos \in 0..NSectors
    /\ last \in BOOLEAN /\ complete \in BOOLEAN /\ excused \in BOOLEAN
    /\ told \in Images \cup {None, Busy}
    /\ faults \in 0..MaxFaults

Init ==
    /\ meta = [s \in 1..NSlots |-> IF s = 1 THEN Ready(Size[First]) ELSE Empty]
    /\ app = [k \in Sectors |-> IF k <= Size[First] THEN First ELSE Junk]
    /\ stg = [k \in Sectors |-> Junk]
    /\ srec = Empty
    /\ mbox = "none" /\ pc = "reset" /\ lslot = 0 /\ lstate = "Fatal"
    /\ img = None /\ pos = 0 /\ last = FALSE /\ complete = FALSE
    /\ told = None /\ excused = FALSE /\ faults = 0

-----------------------------------------------------------------------------
\* What one flash operation does.  "failed": the ROM driver says so; "cut":
\* power is lost; "silent": a program is reported done and is not.

Outcomes == {"done"} \cup IF faults < MaxFaults THEN {"failed", "cut"} ELSE {}
ProgramOutcomes ==
    Outcomes \cup IF faults < MaxFaults THEN {"silent"} ELSE {}

\* the values a cell may have after it; torn: those of half an operation
Landed(r, old, new, torn) == IF r = "done" THEN {new} ELSE {old, new} \cup torn

\* half an erasure only raises bits: a ready record may show another size,
\* which is no image's by chance (the hash would have to match)
TornRecord == {v \in Record : v.st = "Ready" => srec.st = "Ready" /\ ~ValidAt(stg, v.size)}

EndSession == img' = None /\ pos' = 0 /\ last' = FALSE

\* reboot(), or the power is back
Reset(requests) ==
    /\ mbox' \in requests
    /\ pc' = "reset" /\ lslot' = 0 /\ lstate' = "Fatal" /\ complete' = FALSE
    /\ EndSession

\* The early return: an installation goes on to the jump decision, a DFU or
\* FoE session is dropped with an error status.
Abandon ==
    /\ pc' = IF pc \in AppPcs THEN "app" ELSE IF img = None THEN "decide" ELSE "dfu"
    /\ EndSession
    /\ UNCHANGED complete

Op(r, slot, Ok) ==
    \/ /\ r \in {"done", "silent"}
       /\ Ok /\ lslot' = slot
       /\ excused' = (excused \/ r = "silent")
       /\ faults' = IF r = "silent" THEN faults + 1 ELSE faults
       /\ UNCHANGED mbox
    \/ /\ r = "failed"
       /\ Abandon /\ lslot' = slot
       /\ excused' = TRUE /\ faults' = faults + 1
       /\ UNCHANGED <<lstate, mbox>>
    \/ /\ r = "cut"
       /\ Reset({mbox, "none"})
       /\ faults' = faults + 1
       /\ UNCHANGED excused

-----------------------------------------------------------------------------
\* main(): the key is held, and neither an image is installed nor one started

BootHeld ==
    /\ pc = "reset"
    /\ pc' = "dfu" /\ lslot' = LatestSlot /\ lstate' = LatestState
    /\ excused' = TRUE
    /\ UNCHANGED <<flash, mbox, session, complete, told, faults>>

\* otherwise the staged copy is proven before anything is touched
BootUnproven ==      \* slip: the record alone starts an installation
    /\ pc = "reset"
    /\ pc' = IF srec.st = "Ready" THEN "begin" ELSE "decide"
    /\ told' = IF Committed THEN None ELSE told
    /\ lslot' = LatestSlot /\ lstate' = LatestState
    /\ excused' = FALSE
    /\ UNCHANGED <<flash, mbox, session, complete, faults>>
Boot ==
    /\ pc = "reset"
    /\ pc' = IF Committed THEN "begin"
             ELSE IF srec.st = "Ready" THEN "clear" ELSE "decide"
    /\ told' = IF Committed THEN None ELSE told
    /\ lslot' = LatestSlot /\ lstate' = LatestState
    /\ excused' = FALSE
    /\ UNCHANGED <<flash, mbox, session, complete, faults>>

\* the jump decision, which consumes the mailbox
Wanted == IF ModeAuto THEN mbox # "dfu" ELSE mbox = "once"
Decide ==
    /\ pc = "decide"
    /\ pc' = IF /\ Wanted /\ lstate = "Ready" /\ meta[lslot].st = "Ready"
                /\ ValidAt(app, meta[lslot].size)
             THEN "app" ELSE "dfu"
    /\ mbox' = "none"
    /\ excused' = (excused \/ ~Wanted)
    /\ EndSession
    /\ UNCHANGED <<flash, slotVars, complete, told, faults>>

\* Metadata::begin_flashing, for an installation or for a DFU session

NeedsErase == lslot = 0 \/ (lstate = "Ready" /\ lslot = NSlots)
Target == IF lstate = "Ready" THEN lslot + 1 ELSE lslot
Opened == pc' = IF img = None THEN "write" ELSE "dfu"

\* half an erasure: a slot keeps its words, loses all or loses some
TornSlots ==
    {m \in [1..NSlots -> Slot] :
        \A s \in 1..NSlots : m[s] \in {meta[s], Empty}
                              \/ (meta[s] # Empty /\ m[s] \in {Flashing, Fatal})}

\* erase_and_rescan
EraseMetadata(r) ==
    /\ pc = "begin" /\ NeedsErase
    /\ meta' \in Landed(r, meta, [s \in 1..NSlots |-> Empty], TornSlots)
    /\ Op(r, IF r = "done" THEN 1 ELSE lslot,
          lstate' = "Empty" /\ UNCHANGED <<pc, session, complete>>)
    /\ UNCHANGED <<app, stg, srec, told>>

ReuseMarkerRefused ==   \* slip: an interrupted session's marker is an error
    /\ pc = "begin" /\ lstate = "Flashing"
    /\ Abandon
    /\ UNCHANGED <<flash, mbox, slotVars, told, excused, faults>>
ReuseMarker ==
    /\ pc = "begin" /\ lstate = "Flashing"
    /\ Opened
    /\ UNCHANGED <<flash, mbox, slotVars, session, complete, told, excused, faults>>

\* The pointer has moved to the next slot before the marker is written, and
\* stays there when the write fails.
MarkSlot(r) ==
    /\ pc = "begin" /\ ~NeedsErase /\ lstate # "Flashing"
    /\ meta[Target] = Empty
    /\ \E v \in Landed(r, Empty, Flashing, {Fatal}) :
          meta' = [meta EXCEPT ![Target] = v]
    /\ Op(r, Target, Opened /\ lstate' = "Flashing" /\ UNCHANGED <<session, complete>>)
    /\ UNCHANGED <<app, stg, srec, told>>

\* enter_flashing_state finds the slot written: a marker failed here before
MarkRefused ==
    /\ pc = "begin" /\ ~NeedsErase /\ lstate # "Flashing"
    /\ meta[Target] # Empty
    /\ Abandon /\ lslot' = Target /\ excused' = TRUE
    /\ UNCHANGED <<flash, mbox, lstate, told, faults>>

\* Writer::commit_active_sector_if_needed: the next sector of the source

Source == IF img = None THEN stg[pos + 1] ELSE img
Written ==
    /\ pos' = pos + 1
    /\ pc' = IF img = None THEN (IF pos + 1 = srec.size THEN "size" ELSE "write")
             ELSE IF last THEN "check" ELSE "dfu"
    /\ UNCHANGED <<img, last>>

SkipSector ==
    /\ pc = "write" /\ app[pos + 1] = Source
    /\ Written
    /\ UNCHANGED <<flash, mbox, slotVars, complete, told, excused, faults>>

EraseSector(r) ==
    /\ pc = "write" /\ app[pos + 1] # Source
    /\ \E v \in Landed(r, app[pos + 1], Junk, {}) : app' = [app EXCEPT ![pos + 1] = v]
    /\ Op(r, lslot, pc' = "program" /\ UNCHANGED <<lstate, session, complete>>)
    /\ UNCHANGED <<meta, stg, srec, told>>

ProgramSector(r) ==
    /\ pc = "program"
    /\ \E v \in Landed(r, Junk, Source, {}) : app' = [app EXCEPT ![pos + 1] = v]
    /\ (r = "silent" => app'[pos + 1] = Junk)
    /\ Op(r, lslot, Written /\ UNCHANGED <<lstate, complete>>)
    /\ UNCHANGED <<meta, stg, srec, told>>

\* Metadata::finish_flashing: size first, the state word last

FinishRefused ==
    /\ pc = "size" /\ meta[lslot] # Flashing
    /\ Abandon /\ excused' = TRUE
    /\ UNCHANGED <<flash, mbox, slotVars, told, faults>>

ProgramSize(r) ==
    /\ pc = "size" /\ meta[lslot] = Flashing
    /\ \E v \in Landed(r, Flashing, Fatal, {}) : meta' = [meta EXCEPT ![lslot] = v]
    /\ Op(r, lslot, pc' = "state" /\ UNCHANGED <<lstate, session, complete>>)
    /\ UNCHANGED <<app, stg, srec, told>>

\* An installation validates what landed; a DFU session reports success.
ProgramStateUnchecked(r) ==   \* slip: what landed is not validated again
    /\ pc = "state"
    /\ \E v \in Landed(r, Fatal, Ready(pos), {}) : meta' = [meta EXCEPT ![lslot] = v]
    /\ Op(r, lslot,
          /\ lstate' = "Ready" /\ EndSession /\ UNCHANGED complete
          /\ pc' = IF img # None THEN "dfu" ELSE "clear")
    /\ told' = IF r = "done" /\ img # None THEN img ELSE told
    /\ UNCHANGED <<app, stg, srec>>
ProgramState(r) ==
    /\ pc = "state"
    /\ \E v \in Landed(r, Fatal, Ready(pos), {}) : meta' = [meta EXCEPT ![lslot] = v]
    /\ Op(r, lslot,
          /\ lstate' = "Ready" /\ EndSession /\ UNCHANGED complete
          /\ pc' = IF img # None THEN "dfu"
                   ELSE IF ValidAt(app, pos) THEN "clear" ELSE "decide")
    /\ told' = IF r = "done" /\ img # None THEN img ELSE told
    /\ UNCHANGED <<app, stg, srec>>

\* clear_staging_record, whose result is ignored
ClearRecord(r) ==
    /\ pc = "clear"
    /\ srec' \in Landed(r, srec, Empty, TornRecord)
    /\ \/ /\ r \in {"done", "failed"}
          /\ pc' = "decide"
          /\ UNCHANGED <<mbox, slotVars, session, complete>>
       \/ r = "cut" /\ Reset({mbox, "none"})
    /\ faults' = IF r = "done" THEN faults ELSE faults + 1
    /\ UNCHANGED <<meta, app, stg, told, excused>>

-----------------------------------------------------------------------------
\* The DFU class.  The host sends a sector a time; the last one is a part of
\* a sector and stays in the buffer until the manifestation.

DfuStart(i) ==
    /\ pc = "dfu"
    /\ pc' = "begin" /\ img' = i /\ pos' = 0 /\ last' = FALSE
    /\ told' = Busy
    /\ UNCHANGED <<flash, mbox, slotVars, complete, excused, faults>>

DfuBlock ==
    /\ pc = "dfu" /\ img # None /\ ~last
    /\ IF pos + 1 < Size[img] THEN pc' = "write" /\ UNCHANGED last
       ELSE last' = TRUE /\ UNCHANGED pc
    /\ UNCHANGED <<flash, mbox, slotVars, img, pos, complete, told, excused, faults>>

DfuAbort ==
    /\ pc = "dfu" /\ img # None
    /\ EndSession
    /\ UNCHANGED <<flash, mbox, slotVars, pc, complete, told, excused, faults>>

\* manifest: finish_session commits the tail; the host may come too early
Manifest ==
    /\ pc = "dfu" /\ img # None /\ (last \/ pos > 0)
    /\ pc' = IF last THEN "write" ELSE "check"
    /\ UNCHANGED <<flash, mbox, slotVars, session, complete, told, excused, faults>>

\* and validate_candidate_image stands before finish_flashing
CheckSize ==         \* slip: the complete size is taken for a complete image
    /\ pc = "check"
    /\ pc' = IF pos = Size[img] THEN "size" ELSE "dfu"
    /\ IF pos = Size[img] THEN UNCHANGED session ELSE EndSession
    /\ UNCHANGED <<flash, mbox, slotVars, complete, told, excused, faults>>
Check ==
    /\ pc = "check"
    /\ IF ValidAt(app, pos) THEN pc' = "size" /\ UNCHANGED session
       ELSE pc' = "dfu" /\ EndSession
    /\ UNCHANGED <<flash, mbox, slotVars, complete, told, excused, faults>>

\* a DFU detach, or poll() after the manifestation
Detach ==
    /\ pc = "dfu" /\ Reset({"once"})
    /\ UNCHANGED <<flash, told, excused, faults>>

-----------------------------------------------------------------------------
\* The FoE download in the running application, one flash RPC at a time

\* rmcs_foe_write, StagingWriter::begin: the old record goes first
FoeWrite(i, r) ==
    /\ pc = "app" /\ ~last
    /\ srec' \in Landed(r, srec, Empty, TornRecord)
    /\ Op(r, lslot, /\ pc' = "stageMark" /\ img' = i /\ pos' = 0
                    /\ UNCHANGED <<lstate, last, complete>>)
    /\ UNCHANGED <<meta, app, stg, told>>

StageMark(r) ==
    /\ pc = "stageMark"
    /\ srec' \in Landed(r, srec, Flashing, {})
    /\ Op(r, lslot, pc' = "app" /\ UNCHANGED <<lstate, session, complete>>)
    /\ UNCHANGED <<meta, app, stg, told>>

\* rmcs_foe_write_data: erase_step up to the write front, then write
FoeData(r) ==
    /\ pc = "app" /\ img # None /\ ~last
    /\ \E v \in Landed(r, stg[pos + 1], Junk, {}) : stg' = [stg EXCEPT ![pos + 1] = v]
    /\ Op(r, lslot, pc' = "stageProgram" /\ UNCHANGED <<lstate, session, complete>>)
    /\ UNCHANGED <<meta, app, srec, told>>

\* The last block leaves the commit to the main loop; a file may end early.
StageProgram(r) ==
    /\ pc = "stageProgram"
    /\ \E v \in Landed(r, Junk, img, {}) : stg' = [stg EXCEPT ![pos + 1] = v]
    /\ (r = "silent" => stg'[pos + 1] = Junk)
    /\ Op(r, lslot, /\ pc' = "app" /\ pos' = pos + 1
                    /\ last' \in BOOLEAN /\ (pos + 1 = Size[img] => last')
                    /\ UNCHANGED <<lstate, img, complete>>)
    /\ UNCHANGED <<meta, app, srec, told>>

\* ecat_foe_poll_reset, StagingWriter::commit: size, then the state word
StageSize(r) ==
    /\ pc = "app" /\ last
    /\ Op(r, lslot, pc' = "stageState" /\ UNCHANGED <<lstate, session, complete>>)
    /\ UNCHANGED <<flash, told>>

StageState(r) ==
    /\ pc = "stageState"
    /\ srec' \in Landed(r, srec, Ready(pos), {})
    /\ Op(r, lslot, pc' = "app" /\ EndSession /\ complete' = TRUE /\ UNCHANGED lstate)
    /\ UNCHANGED <<meta, app, stg, told>>

\* APPL_StopMailboxHandler: the master leaves BOOT
LeaveBoot ==
    /\ pc = "app" /\ complete /\ ~last
    /\ Reset({"once"})
    /\ UNCHANGED <<flash, told, excused, faults>>

\* core0's vendor request to enter DFU, at any moment of a download on core1
RebootToDfu ==
    /\ pc \in AppPcs /\ Reset({"dfu"})
    /\ UNCHANGED <<flash, told, excused, faults>>

PowerCycle ==
    /\ pc \in {"app", "dfu"} /\ Reset({mbox, "none"})
    /\ UNCHANGED <<flash, told, excused, faults>>

-----------------------------------------------------------------------------
Flashes ==
    \/ \E r \in Outcomes :
          \/ EraseMetadata(r) \/ MarkSlot(r) \/ EraseSector(r)
          \/ ProgramSize(r) \/ ProgramState(r) \/ ClearRecord(r)
    \/ \E r \in ProgramOutcomes : ProgramSector(r)
    \/ ReuseMarker \/ MarkRefused \/ SkipSector \/ FinishRefused \/ Check

Bootloader == Boot \/ Flashes \/ Decide

Host == DfuBlock \/ DfuAbort \/ Manifest \/ Detach \/ \E i \in Images : DfuStart(i)

Foe ==
    \/ \E r \in Outcomes :
          \/ StageMark(r) \/ FoeData(r) \/ StageSize(r) \/ StageState(r)
          \/ \E i \in Images : FoeWrite(i, r)
    \/ \E r \in ProgramOutcomes : StageProgram(r)
    \/ LeaveBoot

Next == Bootloader \/ Host \/ Foe \/ BootHeld \/ RebootToDfu \/ PowerCycle

Spec == Init /\ [][Next]_vars

\* the bootloader runs on by itself; no host, key or power cycle is forced
FairSpec == Spec /\ WF_vars(Bootloader)

-----------------------------------------------------------------------------
\* A slot that was left unfinished lies before a used one: begin_flashing
\* after a failed marker in the same session (metadata.hpp:43) can do that.
Gap == \E s \in 1..NSlots : \E t \in 1..(s-1) : meta[s] # Empty /\ meta[t].st # "Ready"

\* Whenever power is lost and whatever flash operation fails on the way, the
\* next boots find a complete firmware: the staged image, or the installed
\* application.  Only a DFU download under way may leave none, or a gap in
\* the slots (foe_staging.hpp:24-34, staging.hpp:36-48).
Recoverable == told = Busy \/ Gap \/ \E i \in Images : NextIs(i)

\* Installing a staged image never changes which firmware the next boots end
\* up with, at any of its steps and wherever one of them is cut
\* (install_staged_image_if_ready).
InstallTransparent ==
    [][img = None /\ pc \in BootPcs
          => \A i \in Images : NextIs(i)' = NextIs(i)]_vars

\* A download that DFU reported as done is what a fresh scan and validation
\* find in flash from then on, unless a gap was left (Dfu::manifest judges by
\* the state in RAM).
DfuVerdict == \A i \in Images : told = i /\ ~Gap => AppIs(i)

\* A boot that finds a committed image ends with that image running, however
\* often power is lost on the way, unless that boot has a reason: the key, the
\* mailbox, or a flash operation that failed.
StagedImageBoots ==
    \A i \in Images : (pc = "reset" /\ CommittedImage(i)) ~>
        \/ pc = "app" /\ ImageAt(i, app, meta[lslot].size)
        \/ pc \in {"app", "dfu"} /\ excused
=============================================================================
