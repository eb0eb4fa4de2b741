--------------------------- MODULE BootFlashProof ---------------------------
(***************************************************************************)
(* The safety properties of BootFlash for every number of slots, sectors   *)
(* and faults and every set of images.                                     *)
(***************************************************************************)
EXTENDS BootFlash, TLAPS

Writing == {"write", "program", "check", "size", "state"}
Installs == {"begin", "write", "program", "size", "state"}

\* where a session or an installation stands
Session ==
    /\ pc \in {"reset", "begin", "stageMark"} => pos = 0 /\ ~last
    /\ pc \in {"reset", "clear", "decide"} => img = None
    /\ pc \in {"check", "stageMark", "stageProgram"} => img # None
    /\ pc \in {"write", "program"} => pos < IF img = None THEN srec.size ELSE Size[img]
    /\ pc \in {"write", "program"} /\ img # None /\ ~last => pos + 1 < Size[img]
    /\ pc = "dfu" /\ img # None => pos < Size[img]
    /\ pc \in {"size", "state"} => pos > 0 /\ (img = None => pos = srec.size)
    /\ pc \in {"app", "stageProgram"} /\ img # None /\ ~last => pos < Size[img]
    /\ pc \in {"stageMark", "stageProgram"} => ~last
    /\ pc = "app" /\ last => pos > 0
    /\ pc = "stageState" => pos > 0
    /\ pc \in Writing \/ (pc = "dfu" /\ img # None) => lstate = "Flashing"

\* no slot after the one in RAM is used
Beyond == lslot > 0 => \A t \in (lslot + 1)..NSlots : meta[t] = Empty

\* an installation has its record, and all slots before its own are Ready
Installing ==
    pc \in Installs /\ img = None =>
        /\ Committed
        /\ lslot > 0 => /\ \A t \in 1..(lslot - 1) : meta[t].st = "Ready"
                        /\ pc = "begin" => meta[lslot].st = lstate

\* what was written is the source's or junk
Copied ==
    pc \in Writing \/ (pc = "dfu" /\ img # None) =>
        \A k \in 1..pos : app[k] \in {IF img = None THEN stg[k] ELSE img, Junk}

\* a DFU download is validated before it is entered in a slot
Checked == pc \in {"size", "state"} /\ img # None => ImageAt(img, app, pos)

\* no verdict stands while the application is rewritten
Unjudged ==
    pc \in Writing \cup {"begin"} \/ (pc = "dfu" /\ img # None)
        => told = IF img = None THEN None ELSE Busy

\* the staged image is dropped only when the application is that image
Clearing == pc = "clear" => \A i \in Images : CommittedImage(i) => AppIs(i)

\* a running application is what the next scan finds, unless there is a gap
Running == pc \in AppPcs => Gap \/ \E i \in Images : AppIs(i)

Struct == Session /\ Beyond /\ Installing /\ Copied
Meaning == Checked /\ Unjudged /\ Clearing /\ Running /\ DfuVerdict /\ Recoverable
IInv == TypeOK /\ Struct /\ Meaning

-----------------------------------------------------------------------------
\* The slots, as the provers see them.
LEMMA Slots ==
    /\ Empty \in Slot /\ Flashing \in Slot /\ Fatal \in Slot
    /\ \A n \in Sectors : Ready(n) \in Slot /\ Ready(n) \in Record
                          /\ Ready(n).st = "Ready" /\ Ready(n).size = n
    /\ Empty \in Record /\ Flashing \in Record
    /\ Empty.st = "Empty" /\ Flashing.st = "Flashing" /\ Fatal.st = "Fatal"
    /\ Empty.size = 0 /\ Flashing.size = 0 /\ Fatal.size = 0
    /\ \A v \in Slot : /\ v.st \in {"Empty", "Flashing", "Fatal", "Ready"}
                       /\ v.st = "Empty" <=> v = Empty
                       /\ v.st = "Flashing" <=> v = Flashing
                       /\ v.st = "Fatal" <=> v = Fatal
                       /\ v.st = "Ready" => v.size \in Sectors /\ v = Ready(v.size)
    /\ \A v \in Record : v \in Slot
<1>1. /\ Empty.st = "Empty" /\ Flashing.st = "Flashing" /\ Fatal.st = "Fatal"
      /\ Empty.size = 0 /\ Flashing.size = 0 /\ Fatal.size = 0
      /\ \A n \in Sectors : Ready(n).st = "Ready" /\ Ready(n).size = n
  BY DEF Empty, Flashing, Fatal, Ready
<1>2. /\ Empty \in Slot /\ Flashing \in Slot /\ Fatal \in Slot
      /\ \A n \in Sectors : Ready(n) \in Slot /\ Ready(n) \in Record
      /\ Empty \in Record /\ Flashing \in Record
      /\ \A v \in Record : v \in Slot
  BY DEF Slot, Record
<1>3. ASSUME NEW v \in Slot
      PROVE  \/ v = Empty \/ v = Flashing \/ v = Fatal
             \/ \E n \in Sectors : v = Ready(n)
  BY DEF Slot
<1>4. ASSUME NEW v \in Slot
      PROVE  /\ v.st \in {"Empty", "Flashing", "Fatal", "Ready"}
             /\ v.st = "Empty" <=> v = Empty
             /\ v.st = "Flashing" <=> v = Flashing
             /\ v.st = "Fatal" <=> v = Fatal
             /\ v.st = "Ready" => v.size \in Sectors /\ v = Ready(v.size)
  BY <1>1, <1>3
<1> QED
  BY <1>1, <1>2, <1>4

\* What the constants are.
LEMMA Sizes ==
    /\ NSlots \in Nat /\ NSlots >= 1 /\ NSectors \in Nat /\ NSectors >= 1
    /\ MaxFaults \in Nat
    /\ \A i \in Images : /\ Size[i] \in Nat /\ Size[i] >= 1 /\ Size[i] <= NSectors
                         /\ i # None /\ i # Junk /\ i # Busy
    /\ First \in Images /\ None # Busy
  BY BootAssumption

\* A scan finds a slot it may go on from, or none.
LEMMA ScanFinds ==
    ASSUME TypeOK
    PROVE  /\ WellFormed => /\ LatestSlot \in 1..NSlots /\ IsLatest(LatestSlot)
                            /\ LatestState = meta[LatestSlot].st
                            /\ LatestState # "Fatal"
           /\ ~WellFormed => LatestSlot = 0 /\ LatestState = "Fatal"
           /\ LatestSlot \in 0..NSlots
           /\ LatestState \in {"Empty", "Flashing", "Fatal", "Ready"}
           /\ LatestSlot = 0 <=> LatestState = "Fatal"
<1>1. CASE WellFormed
  <2>1. Latest \in 1..NSlots /\ IsLatest(Latest)
    BY <1>1 DEF WellFormed, Latest
  <2>2. meta[Latest] \in Slot /\ meta[Latest] # Fatal
    BY <2>1 DEF TypeOK, IsLatest
  <2> QED
    BY <1>1, <2>1, <2>2, Slots, Sizes DEF LatestSlot, LatestState
<1>2. CASE ~WellFormed
  BY <1>2, Sizes DEF LatestSlot, LatestState
<1> QED
  BY <1>1, <1>2

\* Only one slot is the latest.
LEMMA ScanUnique ==
    ASSUME TypeOK, NEW s \in 1..NSlots, IsLatest(s)
    PROVE  WellFormed /\ LatestSlot = s /\ LatestState = meta[s].st
<1>1. WellFormed
  BY DEF WellFormed
<1>2. LatestSlot \in 1..NSlots /\ IsLatest(LatestSlot)
  BY <1>1, ScanFinds
<1> DEFINE l == LatestSlot
<1>3. l = s
  <2>1. CASE l < s
    <3>1. meta[s] = Empty /\ s = 1
      BY <2>1, <1>2, Sizes DEF IsLatest
    <3> QED
      BY <3>1, <2>1, <1>2
  <2>2. CASE s < l
    <3>1. meta[l] = Empty /\ l = 1
      BY <2>2, <1>2, Sizes DEF IsLatest
    <3> QED
      BY <3>1, <2>2, <1>2
  <2> QED
    BY <2>1, <2>2, <1>2, Sizes
<1> QED
  BY <1>1, <1>3 DEF LatestSlot, LatestState

\* The application in the slot that a scan ends at.
LEMMA AppThere ==
    ASSUME TypeOK, NEW s \in 1..NSlots, NEW i \in Images,
           \A t \in (s+1)..NSlots : meta[t] = Empty,
           meta[s].st = "Ready", ImageAt(i, app, meta[s].size),
           \A t \in 1..(s-1) : meta[t].st = "Ready"
    PROVE  AppIs(i)
<1>1. IsLatest(s)
  BY Slots DEF IsLatest, TypeOK
<1> QED
  BY <1>1, ScanUnique DEF AppIs

\* The same, when all that is known is that there is no gap.
LEMMA AppUnlessGap ==
    ASSUME TypeOK, ~Gap, NEW s \in 1..NSlots, NEW i \in Images,
           \A t \in (s+1)..NSlots : meta[t] = Empty,
           meta[s].st = "Ready", ImageAt(i, app, meta[s].size)
    PROVE  AppIs(i)
<1>1. \A t \in 1..(s-1) : meta[t].st = "Ready"
  BY Slots DEF Gap, TypeOK
<1> QED
  BY <1>1, AppThere

\* A content is one image at most.
LEMMA OneImage ==
    ASSUME NEW content, NEW n, NEW m, NEW i \in Images, NEW j \in Images,
           ImageAt(i, content, n), ImageAt(j, content, m)
    PROVE  i = j
  BY Sizes DEF ImageAt

-----------------------------------------------------------------------------
\* The same lemmas about the next state.
LEMMA AppThereAll ==
    TypeOK => \A s \in 1..NSlots, i \in Images :
        /\ \A t \in (s+1)..NSlots : meta[t] = Empty
        /\ \A t \in 1..(s-1) : meta[t].st = "Ready"
        /\ meta[s].st = "Ready" /\ ImageAt(i, app, meta[s].size)
        => AppIs(i)
  BY AppThere

(* The same of the state a step reaches.                                   *)
LEMMA AppThereNext ==
    (TypeOK => \A s \in 1..NSlots, i \in Images :
        /\ \A t \in (s+1)..NSlots : meta[t] = Empty
        /\ \A t \in 1..(s-1) : meta[t].st = "Ready"
        /\ meta[s].st = "Ready" /\ ImageAt(i, app, meta[s].size)
        => AppIs(i))'
  BY AppThereAll, PTL

\* The steps, action by action.
LEMMA NextSteps == ASSUME [Next]_vars PROVE
    \/ Boot
    \/ \E r \in Outcomes : EraseMetadata(r)
    \/ \E r \in Outcomes : MarkSlot(r)
    \/ \E r \in Outcomes : EraseSector(r)
    \/ \E r \in Outcomes : ProgramSize(r)
    \/ \E r \in Outcomes : ProgramState(r)
    \/ \E r \in Outcomes : ClearRecord(r)
    \/ \E r \in ProgramOutcomes : ProgramSector(r)
    \/ ReuseMarker
    \/ MarkRefused
    \/ SkipSector
    \/ FinishRefused
    \/ Check
    \/ Decide
    \/ DfuBlock
    \/ DfuAbort
    \/ Manifest
    \/ Detach
    \/ \E i \in Images : DfuStart(i)
    \/ \E r \in Outcomes : StageMark(r)
    \/ \E r \in Outcomes : FoeData(r)
    \/ \E r \in Outcomes : StageSize(r)
    \/ \E r \in Outcomes : StageState(r)
    \/ \E r \in Outcomes : \E i \in Images : FoeWrite(i, r)
    \/ \E r \in ProgramOutcomes : StageProgram(r)
    \/ LeaveBoot
    \/ BootHeld
    \/ RebootToDfu
    \/ PowerCycle
    \/ UNCHANGED vars
  BY DEF Next, Bootloader, Flashes, Host, Foe

\* Those that touch the flash.
LEMMA FlashSteps == ASSUME [Next]_vars PROVE
    \/ \E r \in Outcomes : EraseMetadata(r)
    \/ \E r \in Outcomes : MarkSlot(r)
    \/ \E r \in Outcomes : EraseSector(r)
    \/ \E r \in ProgramOutcomes : ProgramSector(r)
    \/ \E r \in Outcomes : ProgramSize(r)
    \/ \E r \in Outcomes : ProgramState(r)
    \/ \E r \in Outcomes : ClearRecord(r)
    \/ \E r \in Outcomes : StageMark(r)
    \/ \E r \in Outcomes : FoeData(r)
    \/ \E r \in Outcomes : StageState(r)
    \/ \E r \in Outcomes : \E i \in Images : FoeWrite(i, r)
    \/ \E r \in ProgramOutcomes : StageProgram(r)
    \/ UNCHANGED flash
<1>1. CASE Boot
  BY <1>1 DEF Boot
<1>2. CASE ReuseMarker
  BY <1>2 DEF ReuseMarker
<1>3. CASE MarkRefused
  BY <1>3 DEF MarkRefused
<1>4. CASE SkipSector
  BY <1>4 DEF SkipSector
<1>5. CASE FinishRefused
  BY <1>5 DEF FinishRefused
<1>6. CASE Check
  BY <1>6 DEF Check
<1>7. CASE Decide
  BY <1>7 DEF Decide
<1>8. CASE DfuBlock
  BY <1>8 DEF DfuBlock
<1>9. CASE DfuAbort
  BY <1>9 DEF DfuAbort
<1>10. CASE Manifest
  BY <1>10 DEF Manifest
<1>11. CASE Detach
  BY <1>11 DEF Detach
<1>12. CASE \E i \in Images : DfuStart(i)
  BY <1>12 DEF DfuStart
<1>13. CASE \E r \in Outcomes : StageSize(r)
  BY <1>13 DEF StageSize
<1>14. CASE LeaveBoot
  BY <1>14 DEF LeaveBoot
<1>15. CASE BootHeld
  BY <1>15 DEF BootHeld
<1>16. CASE RebootToDfu
  BY <1>16 DEF RebootToDfu
<1>17. CASE PowerCycle
  BY <1>17 DEF PowerCycle
<1>18. CASE UNCHANGED vars
  BY <1>18 DEF vars
<1> QED
  BY <1>1, <1>2, <1>3, <1>4, <1>5, <1>6, <1>7, <1>8, <1>9, <1>10, <1>11,
     <1>12, <1>13, <1>14, <1>15, <1>16, <1>17, <1>18, NextSteps

\* TypeOK by the kind of variable.
FlashType == /\ meta \in [1..NSlots -> Slot]
             /\ app \in [Sectors -> Images \cup {Junk}]
             /\ stg \in [Sectors -> Images \cup {Junk}]
             /\ srec \in Record
PlaceType == /\ mbox \in {"none", "dfu", "once"}
             /\ pc \in BootPcs \cup AppPcs \cup {"dfu"}
             /\ lslot \in 0..NSlots
             /\ lstate \in {"Empty", "Flashing", "Fatal", "Ready"}
             /\ lslot = 0 <=> lstate = "Fatal"
DataType == /\ img \in Images \cup {None}
            /\ pos \in 0..NSectors
            /\ told \in Images \cup {None, Busy}
            /\ faults \in 0..MaxFaults
FlagType == last \in BOOLEAN /\ complete \in BOOLEAN /\ excused \in BOOLEAN

(* The type invariant is four parts, one per group of variables.           *)
LEMMA TypeParts == TypeOK <=> FlashType /\ PlaceType /\ DataType /\ FlagType
  BY DEF TypeOK, FlashType, PlaceType, DataType, FlagType

(* The same of the state a step reaches.                                   *)
LEMMA TypePartsNext == (TypeOK <=> FlashType /\ PlaceType /\ DataType /\ FlagType)'
  BY TypeParts, PTL

\* Every step keeps the place in the program.
LEMMA PlaceStep ==
    ASSUME TypeOK, Session, [Next]_vars
    PROVE  PlaceType'
<1>1. CASE Boot
  BY <1>1, Sizes, ScanFinds DEF Boot, PlaceType, TypeOK, BootPcs, AppPcs,
     session, flash
<1>2. CASE \E r \in Outcomes : EraseMetadata(r)
  <2>1. PICK r \in Outcomes : EraseMetadata(r)
    BY <1>2
  <2>2. CASE r \in {"done", "silent"}
    BY <2>1, <2>2, Sizes DEF PlaceType, TypeOK, BootPcs, AppPcs, Abandon,
       Reset, EndSession, Session, Writing, slotVars, session, flash,
       Outcomes, ProgramOutcomes, EraseMetadata, Op
  <2>3. CASE r = "failed"
    BY <2>1, <2>3, Sizes DEF PlaceType, TypeOK, BootPcs, AppPcs, Abandon,
       Reset, EndSession, Session, Writing, slotVars, session, flash,
       Outcomes, ProgramOutcomes, EraseMetadata, Op
  <2>4. CASE r = "cut"
    BY <2>1, <2>4, Sizes DEF PlaceType, TypeOK, BootPcs, AppPcs, Abandon,
       Reset, EndSession, Session, Writing, slotVars, session, flash,
       Outcomes, ProgramOutcomes, EraseMetadata, Op
  <2> QED
    BY <2>1, <2>2, <2>3, <2>4 DEF EraseMetadata, Op
<1>3. CASE \E r \in Outcomes : MarkSlot(r)
  BY <1>3, Sizes, ScanFinds DEF MarkSlot, PlaceType, TypeOK, BootPcs, AppPcs,
     NeedsErase, Target, Op, Reset, Abandon, EndSession, session, Opened
<1>4. CASE \E r \in Outcomes : EraseSector(r)
  BY <1>4, Sizes, ScanFinds DEF EraseSector, PlaceType, TypeOK, BootPcs,
     AppPcs, Op, Reset, Abandon, EndSession, session
<1>5. CASE \E r \in Outcomes : ProgramSize(r)
  BY <1>5, Sizes, ScanFinds DEF ProgramSize, PlaceType, TypeOK, BootPcs,
     AppPcs, Op, Reset, Abandon, EndSession, session
<1>6. CASE \E r \in Outcomes : ProgramState(r)
  <2>1. PICK r \in Outcomes : ProgramState(r)
    BY <1>6
  <2>2. CASE r \in {"done", "silent"}
    BY <2>1, <2>2, Sizes DEF PlaceType, TypeOK, BootPcs, AppPcs, Abandon,
       Reset, EndSession, Session, Writing, slotVars, session, flash,
       Outcomes, ProgramOutcomes, ProgramState, Op
  <2>3. CASE r = "failed"
    BY <2>1, <2>3, Sizes DEF PlaceType, TypeOK, BootPcs, AppPcs, Abandon,
       Reset, EndSession, Session, Writing, slotVars, session, flash,
       Outcomes, ProgramOutcomes, ProgramState, Op
  <2>4. CASE r = "cut"
    BY <2>1, <2>4, Sizes DEF PlaceType, TypeOK, BootPcs, AppPcs, Abandon,
       Reset, EndSession, Session, Writing, slotVars, session, flash,
       Outcomes, ProgramOutcomes, ProgramState, Op
  <2> QED
    BY <2>1, <2>2, <2>3, <2>4 DEF ProgramState, Op
<1>7. CASE \E r \in Outcomes : ClearRecord(r)
  BY <1>7, Sizes, ScanFinds DEF ClearRecord, PlaceType, TypeOK, BootPcs,
     AppPcs, Reset, EndSession, slotVars, session
<1>8. CASE \E r \in ProgramOutcomes : ProgramSector(r)
  BY <1>8, Sizes, ScanFinds DEF ProgramSector, PlaceType, TypeOK, BootPcs,
     AppPcs, Op, Reset, Abandon, EndSession, Written
<1>9. CASE ReuseMarker
  BY <1>9, Sizes, ScanFinds DEF ReuseMarker, PlaceType, TypeOK, BootPcs,
     AppPcs, slotVars, session, flash, Opened
<1>10. CASE MarkRefused
  BY <1>10, Sizes, ScanFinds DEF MarkRefused, PlaceType, TypeOK, BootPcs,
     AppPcs, NeedsErase, Target, Abandon, EndSession, flash
<1>11. CASE SkipSector
  BY <1>11, Sizes, ScanFinds DEF SkipSector, PlaceType, TypeOK, BootPcs,
     AppPcs, slotVars, flash, Written
<1>12. CASE FinishRefused
  BY <1>12, Sizes, ScanFinds DEF FinishRefused, PlaceType, TypeOK, BootPcs,
     AppPcs, Abandon, EndSession, slotVars, flash
<1>13. CASE Check
  BY <1>13, Sizes, ScanFinds DEF Check, PlaceType, TypeOK, BootPcs, AppPcs,
     EndSession, slotVars, session, flash
<1>14. CASE Decide
  BY <1>14, Sizes, ScanFinds DEF Decide, PlaceType, TypeOK, BootPcs, AppPcs,
     EndSession, slotVars, flash
<1>15. CASE DfuBlock
  BY <1>15, Sizes, ScanFinds DEF DfuBlock, PlaceType, TypeOK, BootPcs, AppPcs,
     slotVars, flash
<1>16. CASE DfuAbort
  BY <1>16, Sizes, ScanFinds DEF DfuAbort, PlaceType, TypeOK, BootPcs, AppPcs,
     EndSession, slotVars, flash
<1>17. CASE Manifest
  BY <1>17, Sizes, ScanFinds DEF Manifest, PlaceType, TypeOK, BootPcs, AppPcs,
     slotVars, session, flash
<1>18. CASE Detach
  BY <1>18, Sizes, ScanFinds DEF Detach, PlaceType, TypeOK, BootPcs, AppPcs,
     Reset, EndSession, flash
<1>19. CASE \E i \in Images : DfuStart(i)
  BY <1>19, Sizes, ScanFinds DEF DfuStart, PlaceType, TypeOK, BootPcs, AppPcs,
     slotVars, flash
<1>20. CASE \E r \in Outcomes : StageMark(r)
  BY <1>20, Sizes, ScanFinds DEF StageMark, PlaceType, TypeOK, BootPcs,
     AppPcs, Op, Reset, Abandon, EndSession, session
<1>21. CASE \E r \in Outcomes : FoeData(r)
  BY <1>21, Sizes, ScanFinds DEF FoeData, PlaceType, TypeOK, BootPcs, AppPcs,
     Op, Reset, Abandon, EndSession, session
<1>22. CASE \E r \in Outcomes : StageSize(r)
  <2>1. PICK r \in Outcomes : StageSize(r)
    BY <1>22
  <2>2. CASE r \in {"done", "silent"}
    BY <2>1, <2>2, Sizes DEF PlaceType, TypeOK, BootPcs, AppPcs, Abandon,
       Reset, EndSession, Session, Writing, slotVars, session, flash,
       Outcomes, ProgramOutcomes, StageSize, Op
  <2>3. CASE r = "failed"
    BY <2>1, <2>3, Sizes DEF PlaceType, TypeOK, BootPcs, AppPcs, Abandon,
       Reset, EndSession, Session, Writing, slotVars, session, flash,
       Outcomes, ProgramOutcomes, StageSize, Op
  <2>4. CASE r = "cut"
    BY <2>1, <2>4, Sizes DEF PlaceType, TypeOK, BootPcs, AppPcs, Abandon,
       Reset, EndSession, Session, Writing, slotVars, session, flash,
       Outcomes, ProgramOutcomes, StageSize, Op
  <2> QED
    BY <2>1, <2>2, <2>3, <2>4 DEF StageSize, Op
<1>23. CASE \E r \in Outcomes : StageState(r)
  BY <1>23, Sizes, ScanFinds DEF StageState, PlaceType, TypeOK, BootPcs,
     AppPcs, Op, Reset, Abandon, EndSession
<1>24. CASE \E r \in Outcomes : \E i \in Images : FoeWrite(i, r)
  BY <1>24, Sizes, ScanFinds DEF FoeWrite, PlaceType, TypeOK, BootPcs, AppPcs,
     Op, Reset, Abandon, EndSession
<1>25. CASE \E r \in ProgramOutcomes : StageProgram(r)
  <2>1. PICK r \in ProgramOutcomes : StageProgram(r)
    BY <1>25
  <2>2. CASE r \in {"done", "silent"}
    BY <2>1, <2>2, Sizes DEF PlaceType, TypeOK, BootPcs, AppPcs, Abandon,
       Reset, EndSession, Session, Writing, slotVars, session, flash,
       Outcomes, ProgramOutcomes, StageProgram, Op
  <2>3. CASE r = "failed"
    BY <2>1, <2>3, Sizes DEF PlaceType, TypeOK, BootPcs, AppPcs, Abandon,
       Reset, EndSession, Session, Writing, slotVars, session, flash,
       Outcomes, ProgramOutcomes, StageProgram, Op
  <2>4. CASE r = "cut"
    BY <2>1, <2>4, Sizes DEF PlaceType, TypeOK, BootPcs, AppPcs, Abandon,
       Reset, EndSession, Session, Writing, slotVars, session, flash,
       Outcomes, ProgramOutcomes, StageProgram, Op
  <2> QED
    BY <2>1, <2>2, <2>3, <2>4 DEF StageProgram, Op
<1>26. CASE LeaveBoot
  BY <1>26, Sizes, ScanFinds DEF LeaveBoot, PlaceType, TypeOK, BootPcs,
     AppPcs, Reset, EndSession, flash
<1>27. CASE BootHeld
  BY <1>27, Sizes, ScanFinds DEF BootHeld, PlaceType, TypeOK, BootPcs, AppPcs,
     session, flash
<1>28. CASE RebootToDfu
  BY <1>28, Sizes, ScanFinds DEF RebootToDfu, PlaceType, TypeOK, BootPcs,
     AppPcs, Reset, EndSession, flash
<1>29. CASE PowerCycle
  BY <1>29, Sizes, ScanFinds DEF PowerCycle, PlaceType, TypeOK, BootPcs,
     AppPcs, Reset, EndSession, flash
<1>30. CASE UNCHANGED vars
  BY <1>30, Sizes, ScanFinds DEF vars, ram, PlaceType, TypeOK, BootPcs,
     AppPcs, NeedsErase, Target, Op, Reset, Abandon, EndSession, slotVars,
     session, flash, Opened, Written
<1> QED
  BY <1>1, <1>2, <1>3, <1>4, <1>5, <1>6, <1>7, <1>8, <1>9, <1>10, <1>11,
     <1>12, <1>13, <1>14, <1>15, <1>16, <1>17, <1>18, <1>19, <1>20, <1>21,
     <1>22, <1>23, <1>24, <1>25, <1>26, <1>27, <1>28, <1>29, <1>30, NextSteps

\* And the flags.
LEMMA FlagStep ==
    ASSUME TypeOK, [Next]_vars
    PROVE  FlagType'
<1>1. CASE Boot
  BY <1>1, Zenon DEF Boot, FlagType, TypeOK, session, flash
<1>2. CASE \E r \in Outcomes : EraseMetadata(r)
  BY <1>2, Zenon DEF EraseMetadata, FlagType, TypeOK, Op, Reset, Abandon,
     EndSession, session
<1>3. CASE \E r \in Outcomes : MarkSlot(r)
  BY <1>3, Zenon DEF MarkSlot, FlagType, TypeOK, Op, Reset, Abandon,
     EndSession, session, Opened
<1>4. CASE \E r \in Outcomes : EraseSector(r)
  BY <1>4, Zenon DEF EraseSector, FlagType, TypeOK, Op, Reset, Abandon,
     EndSession, session
<1>5. CASE \E r \in Outcomes : ProgramSize(r)
  BY <1>5, Zenon DEF ProgramSize, FlagType, TypeOK, Op, Reset, Abandon,
     EndSession, session
<1>6. CASE \E r \in Outcomes : ProgramState(r)
  BY <1>6, Zenon DEF ProgramState, FlagType, TypeOK, Op, Reset, Abandon,
     EndSession
<1>7. CASE \E r \in Outcomes : ClearRecord(r)
  BY <1>7, Zenon DEF ClearRecord, FlagType, TypeOK, Reset, EndSession,
     slotVars, session
<1>8. CASE \E r \in ProgramOutcomes : ProgramSector(r)
  BY <1>8, Zenon DEF ProgramSector, FlagType, TypeOK, Op, Reset, Abandon,
     EndSession, Written
<1>9. CASE ReuseMarker
  BY <1>9, Zenon DEF ReuseMarker, FlagType, TypeOK, slotVars, session, flash,
     Opened
<1>10. CASE MarkRefused
  BY <1>10, Zenon DEF MarkRefused, FlagType, TypeOK, Abandon, EndSession, flash
<1>11. CASE SkipSector
  BY <1>11, Zenon DEF SkipSector, FlagType, TypeOK, slotVars, flash, Written
<1>12. CASE FinishRefused
  BY <1>12, Zenon DEF FinishRefused, FlagType, TypeOK, Abandon, EndSession,
     slotVars, flash
<1>13. CASE Check
  BY <1>13, Zenon DEF Check, FlagType, TypeOK, EndSession, slotVars, session,
     flash
<1>14. CASE Decide
  BY <1>14, Zenon DEF Decide, FlagType, TypeOK, EndSession, slotVars, flash
<1>15. CASE DfuBlock
  BY <1>15, Zenon DEF DfuBlock, FlagType, TypeOK, slotVars, flash
<1>16. CASE DfuAbort
  BY <1>16, Zenon DEF DfuAbort, FlagType, TypeOK, EndSession, slotVars, flash
<1>17. CASE Manifest
  BY <1>17, Zenon DEF Manifest, FlagType, TypeOK, slotVars, session, flash
<1>18. CASE Detach
  BY <1>18, Zenon DEF Detach, FlagType, TypeOK, Reset, EndSession, flash
<1>19. CASE \E i \in Images : DfuStart(i)
  BY <1>19, Zenon DEF DfuStart, FlagType, TypeOK, slotVars, flash
<1>20. CASE \E r \in Outcomes : StageMark(r)
  BY <1>20, Zenon DEF StageMark, FlagType, TypeOK, Op, Reset, Abandon,
     EndSession, session
<1>21. CASE \E r \in Outcomes : FoeData(r)
  BY <1>21, Zenon DEF FoeData, FlagType, TypeOK, Op, Reset, Abandon,
     EndSession, session
<1>22. CASE \E r \in Outcomes : StageSize(r)
  BY <1>22, Zenon DEF StageSize, FlagType, TypeOK, Op, Reset, Abandon,
     EndSession, session, flash
<1>23. CASE \E r \in Outcomes : StageState(r)
  BY <1>23, Zenon DEF StageState, FlagType, TypeOK, Op, Reset, Abandon,
     EndSession
<1>24. CASE \E r \in Outcomes : \E i \in Images : FoeWrite(i, r)
  BY <1>24, Zenon DEF FoeWrite, FlagType, TypeOK, Op, Reset, Abandon, EndSession
<1>25. CASE \E r \in ProgramOutcomes : StageProgram(r)
  BY <1>25, Zenon DEF StageProgram, FlagType, TypeOK, Op, Reset, Abandon,
     EndSession
<1>26. CASE LeaveBoot
  BY <1>26, Zenon DEF LeaveBoot, FlagType, TypeOK, Reset, EndSession, flash
<1>27. CASE BootHeld
  BY <1>27, Zenon DEF BootHeld, FlagType, TypeOK, session, flash
<1>28. CASE RebootToDfu
  BY <1>28, Zenon DEF RebootToDfu, FlagType, TypeOK, Reset, EndSession, flash
<1>29. CASE PowerCycle
  BY <1>29, Zenon DEF PowerCycle, FlagType, TypeOK, Reset, EndSession, flash
<1>30. CASE UNCHANGED vars
  BY <1>30, Zenon DEF vars, ram, FlagType, TypeOK, Op, Reset, Abandon,
     EndSession, slotVars, session, flash, Opened, Written
<1> QED
  BY <1>1, <1>2, <1>3, <1>4, <1>5, <1>6, <1>7, <1>8, <1>9, <1>10, <1>11,
     <1>12, <1>13, <1>14, <1>15, <1>16, <1>17, <1>18, <1>19, <1>20, <1>21,
     <1>22, <1>23, <1>24, <1>25, <1>26, <1>27, <1>28, <1>29, <1>30, NextSteps

\* Before a sector is written there is room for it.
LEMMA Room ==
    ASSUME TypeOK, Session,
           \/ pc \in {"write", "program", "stageProgram"}
           \/ pc = "app" /\ img # None /\ ~last
    PROVE  pos + 1 \in Sectors /\ pos \in 0..NSectors /\ pos + 1 \in 0..NSectors
<1>1. srec.size \in 0..NSectors
  BY Slots, Sizes DEF TypeOK, Sectors, Record
<1>2. pos \in Nat /\ (img \in Images \/ img = None)
  BY DEF TypeOK
<1>3. \A i \in Images : Size[i] \in Nat /\ Size[i] <= NSectors
  BY Sizes
<1>4. pos < NSectors
  BY <1>1, <1>2, <1>3, Sizes DEF Session
<1> QED
  BY <1>2, <1>4, Sizes DEF Sectors

\* And the numbers and images.
LEMMA DataStep ==
    ASSUME TypeOK, Session, [Next]_vars
    PROVE  DataType'
<1>1. CASE Boot
  BY <1>1, Room, Sizes DEF Boot, DataType, TypeOK, Outcomes, ProgramOutcomes,
     session, flash
<1>2. CASE \E r \in Outcomes : EraseMetadata(r)
  BY <1>2, Room, Sizes DEF EraseMetadata, DataType, TypeOK, Outcomes,
     ProgramOutcomes, Op, Reset, Abandon, EndSession, session
<1>3. CASE \E r \in Outcomes : MarkSlot(r)
  BY <1>3, Room, Sizes DEF MarkSlot, DataType, TypeOK, Outcomes,
     ProgramOutcomes, Op, Reset, Abandon, EndSession, session, Opened
<1>4. CASE \E r \in Outcomes : EraseSector(r)
  BY <1>4, Room, Sizes DEF EraseSector, DataType, TypeOK, Outcomes,
     ProgramOutcomes, Op, Reset, Abandon, EndSession, session
<1>5. CASE \E r \in Outcomes : ProgramSize(r)
  BY <1>5, Room, Sizes DEF ProgramSize, DataType, TypeOK, Outcomes,
     ProgramOutcomes, Op, Reset, Abandon, EndSession, session
<1>6. CASE \E r \in Outcomes : ProgramState(r)
  BY <1>6, Room, Sizes DEF ProgramState, DataType, TypeOK, Outcomes,
     ProgramOutcomes, Op, Reset, Abandon, EndSession
<1>7. CASE \E r \in Outcomes : ClearRecord(r)
  BY <1>7, Room, Sizes DEF ClearRecord, DataType, TypeOK, Outcomes,
     ProgramOutcomes, Reset, EndSession, slotVars, session
<1>8. CASE \E r \in ProgramOutcomes : ProgramSector(r)
  <2>1. PICK r \in ProgramOutcomes : ProgramSector(r)
    BY <1>8
  <2>2. CASE r \in {"done", "silent"}
    BY <2>1, <2>2, Room, Sizes DEF DataType, TypeOK, Abandon, Reset,
       EndSession, session, flash, Outcomes, ProgramOutcomes, Written,
       Sectors, ProgramSector, Op
  <2>3. CASE r = "failed"
    BY <2>1, <2>3, Room, Sizes DEF DataType, TypeOK, Abandon, Reset,
       EndSession, session, flash, Outcomes, ProgramOutcomes, Written,
       Sectors, ProgramSector, Op
  <2>4. CASE r = "cut"
    BY <2>1, <2>4, Room, Sizes DEF DataType, TypeOK, Abandon, Reset,
       EndSession, session, flash, Outcomes, ProgramOutcomes, Written,
       Sectors, ProgramSector, Op
  <2> QED
    BY <2>1, <2>2, <2>3, <2>4 DEF ProgramSector, Op
<1>9. CASE ReuseMarker
  BY <1>9, Room, Sizes DEF ReuseMarker, DataType, TypeOK, Outcomes,
     ProgramOutcomes, slotVars, session, flash, Opened
<1>10. CASE MarkRefused
  BY <1>10, Room, Sizes DEF MarkRefused, DataType, TypeOK, Outcomes,
     ProgramOutcomes, Abandon, EndSession, flash
<1>11. CASE SkipSector
  BY <1>11, Room, Sizes DEF SkipSector, DataType, TypeOK, Outcomes,
     ProgramOutcomes, slotVars, flash, Written
<1>12. CASE FinishRefused
  BY <1>12, Room, Sizes DEF FinishRefused, DataType, TypeOK, Outcomes,
     ProgramOutcomes, Abandon, EndSession, slotVars, flash
<1>13. CASE Check
  BY <1>13, Room, Sizes DEF Check, DataType, TypeOK, Outcomes,
     ProgramOutcomes, EndSession, slotVars, session, flash
<1>14. CASE Decide
  BY <1>14, Room, Sizes DEF Decide, DataType, TypeOK, Outcomes,
     ProgramOutcomes, EndSession, slotVars, flash
<1>15. CASE DfuBlock
  BY <1>15, Room, Sizes DEF DfuBlock, DataType, TypeOK, Outcomes,
     ProgramOutcomes, slotVars, flash
<1>16. CASE DfuAbort
  BY <1>16, Room, Sizes DEF DfuAbort, DataType, TypeOK, Outcomes,
     ProgramOutcomes, EndSession, slotVars, flash
<1>17. CASE Manifest
  BY <1>17, Room, Sizes DEF Manifest, DataType, TypeOK, Outcomes,
     ProgramOutcomes, slotVars, session, flash
<1>18. CASE Detach
  BY <1>18, Room, Sizes DEF Detach, DataType, TypeOK, Outcomes,
     ProgramOutcomes, Reset, EndSession, flash
<1>19. CASE \E i \in Images : DfuStart(i)
  BY <1>19, Room, Sizes DEF DfuStart, DataType, TypeOK, Outcomes,
     ProgramOutcomes, slotVars, flash
<1>20. CASE \E r \in Outcomes : StageMark(r)
  BY <1>20, Room, Sizes DEF StageMark, DataType, TypeOK, Outcomes,
     ProgramOutcomes, Op, Reset, Abandon, EndSession, session
<1>21. CASE \E r \in Outcomes : FoeData(r)
  BY <1>21, Room, Sizes DEF FoeData, DataType, TypeOK, Outcomes,
     ProgramOutcomes, Op, Reset, Abandon, EndSession, session
<1>22. CASE \E r \in Outcomes : StageSize(r)
  <2>1. PICK r \in Outcomes : StageSize(r)
    BY <1>22
  <2>2. CASE r \in {"done", "silent"}
    BY <2>1, <2>2, Room, Sizes DEF DataType, TypeOK, Abandon, Reset,
       EndSession, session, flash, Outcomes, ProgramOutcomes, Written,
       Sectors, StageSize, Op
  <2>3. CASE r = "failed"
    BY <2>1, <2>3, Room, Sizes DEF DataType, TypeOK, Abandon, Reset,
       EndSession, session, flash, Outcomes, ProgramOutcomes, Written,
       Sectors, StageSize, Op
  <2>4. CASE r = "cut"
    BY <2>1, <2>4, Room, Sizes DEF DataType, TypeOK, Abandon, Reset,
       EndSession, session, flash, Outcomes, ProgramOutcomes, Written,
       Sectors, StageSize, Op
  <2> QED
    BY <2>1, <2>2, <2>3, <2>4 DEF StageSize, Op
<1>23. CASE \E r \in Outcomes : StageState(r)
  BY <1>23, Room, Sizes DEF StageState, DataType, TypeOK, Outcomes,
     ProgramOutcomes, Op, Reset, Abandon, EndSession
<1>24. CASE \E r \in Outcomes : \E i \in Images : FoeWrite(i, r)
  BY <1>24, Room, Sizes DEF FoeWrite, DataType, TypeOK, Outcomes,
     ProgramOutcomes, Op, Reset, Abandon, EndSession
<1>25. CASE \E r \in ProgramOutcomes : StageProgram(r)
  <2>1. PICK r \in ProgramOutcomes : StageProgram(r)
    BY <1>25
  <2>2. CASE r \in {"done", "silent"}
    BY <2>1, <2>2, Room, Sizes DEF DataType, TypeOK, Abandon, Reset,
       EndSession, session, flash, Outcomes, ProgramOutcomes, Written,
       Sectors, StageProgram, Op
  <2>3. CASE r = "failed"
    BY <2>1, <2>3, Room, Sizes DEF DataType, TypeOK, Abandon, Reset,
       EndSession, session, flash, Outcomes, ProgramOutcomes, Written,
       Sectors, StageProgram, Op
  <2>4. CASE r = "cut"
    BY <2>1, <2>4, Room, Sizes DEF DataType, TypeOK, Abandon, Reset,
       EndSession, session, flash, Outcomes, ProgramOutcomes, Written,
       Sectors, StageProgram, Op
  <2> QED
    BY <2>1, <2>2, <2>3, <2>4 DEF StageProgram, Op
<1>26. CASE LeaveBoot
  BY <1>26, Room, Sizes DEF LeaveBoot, DataType, TypeOK, Outcomes,
     ProgramOutcomes, Reset, EndSession, flash
<1>27. CASE BootHeld
  BY <1>27, Room, Sizes DEF BootHeld, DataType, TypeOK, Outcomes,
     ProgramOutcomes, session, flash
<1>28. CASE RebootToDfu
  BY <1>28, Room, Sizes DEF RebootToDfu, DataType, TypeOK, Outcomes,
     ProgramOutcomes, Reset, EndSession, flash
<1>29. CASE PowerCycle
  BY <1>29, Room, Sizes DEF PowerCycle, DataType, TypeOK, Outcomes,
     ProgramOutcomes, Reset, EndSession, flash
<1>30. CASE UNCHANGED vars
  BY <1>30, Room, Sizes DEF vars, ram, DataType, TypeOK, Outcomes,
     ProgramOutcomes, Op, Reset, Abandon, EndSession, slotVars, session,
     flash, Opened, Written
<1> QED
  BY <1>1, <1>2, <1>3, <1>4, <1>5, <1>6, <1>7, <1>8, <1>9, <1>10, <1>11,
     <1>12, <1>13, <1>14, <1>15, <1>16, <1>17, <1>18, <1>19, <1>20, <1>21,
     <1>22, <1>23, <1>24, <1>25, <1>26, <1>27, <1>28, <1>29, <1>30, NextSteps

\* And the contents of the flash.
LEMMA CellStep ==
    ASSUME TypeOK, Session, [Next]_vars
    PROVE  FlashType'
<1>1. CASE \E r \in Outcomes : EraseMetadata(r)
  BY <1>1, Slots, Room, Sizes DEF EraseMetadata, FlashType, TypeOK, Landed,
     TornSlots, NeedsErase, Session, Sectors
<1>2. CASE \E r \in Outcomes : MarkSlot(r)
  BY <1>2, Slots, Room, Sizes DEF MarkSlot, FlashType, TypeOK, Landed,
     NeedsErase, Target, Session, Sectors
<1>3. CASE \E r \in Outcomes : EraseSector(r)
  BY <1>3, Slots, Room, Sizes DEF EraseSector, FlashType, TypeOK, Landed,
     Source, Session, Sectors
<1>4. CASE \E r \in ProgramOutcomes : ProgramSector(r)
  BY <1>4, Slots, Room, Sizes DEF ProgramSector, FlashType, TypeOK, Landed,
     Source, Session, Sectors
<1>5. CASE \E r \in Outcomes : ProgramSize(r)
  <2>1. PICK v \in {Flashing, Fatal} : meta' = [meta EXCEPT ![lslot] = v]
    BY <1>5 DEF ProgramSize, Landed
  <2>2. v \in Slot
    BY Slots
  <2> QED
    BY <1>5, <2>1, <2>2 DEF ProgramSize, FlashType, TypeOK
<1>6. CASE \E r \in Outcomes : ProgramState(r)
  <2>1. PICK v \in {Fatal, Ready(pos)} : meta' = [meta EXCEPT ![lslot] = v]
    BY <1>6 DEF ProgramState, Landed
  <2>2. pos \in Sectors
    BY <1>6, Sizes DEF ProgramState, Session, TypeOK, Sectors
  <2>3. v \in Slot
    BY <2>2, Slots
  <2> QED
    BY <1>6, <2>1, <2>3 DEF ProgramState, FlashType, TypeOK
<1>7. CASE \E r \in Outcomes : ClearRecord(r)
  BY <1>7, Slots, Room, Sizes DEF ClearRecord, FlashType, TypeOK, Landed,
     TornRecord, Session, Sectors
<1>8. CASE \E r \in Outcomes : StageMark(r)
  BY <1>8, Slots, Room, Sizes DEF StageMark, FlashType, TypeOK, Landed,
     Session, Sectors
<1>9. CASE \E r \in Outcomes : FoeData(r)
  BY <1>9, Slots, Room, Sizes DEF FoeData, FlashType, TypeOK, Landed, Session,
     Sectors
<1>10. CASE \E r \in Outcomes : StageState(r)
  BY <1>10, Slots, Room, Sizes DEF StageState, FlashType, TypeOK, Landed,
     Session, Sectors
<1>11. CASE \E r \in Outcomes : \E i \in Images : FoeWrite(i, r)
  BY <1>11, Slots, Room, Sizes DEF FoeWrite, FlashType, TypeOK, Landed,
     TornRecord, Session, Sectors
<1>12. CASE \E r \in ProgramOutcomes : StageProgram(r)
  BY <1>12, Slots, Room, Sizes DEF StageProgram, FlashType, TypeOK, Landed,
     Session, Sectors
<1>13. CASE UNCHANGED flash
  BY <1>13, Slots, Room, Sizes DEF flash, FlashType, TypeOK, Landed,
     TornSlots, TornRecord, Source, NeedsErase, Target, Session, Sectors
<1> QED
  BY <1>1, <1>2, <1>3, <1>4, <1>5, <1>6, <1>7, <1>8, <1>9, <1>10, <1>11,
     <1>12, <1>13, FlashSteps

(* Every step keeps the type invariant.                                    *)
LEMMA TypeStep == ASSUME TypeOK, Session, [Next]_vars PROVE TypeOK'
  BY CellStep, PlaceStep, DataStep, FlagStep, TypePartsNext

\* The source of a write has a size.
LEMMA SourceSize ==
    ASSUME TypeOK, Installing
    PROVE  /\ srec.size \in Nat /\ (img # None => Size[img] \in Nat /\ Size[img] > 0)
           /\ pc = "begin" /\ img = None => srec.size > 0
<1>1. srec.size \in Nat
  BY Slots, Sizes DEF TypeOK, Sectors
<1>2. img # None => Size[img] \in Nat /\ Size[img] > 0
  BY Sizes DEF TypeOK
<1>3. Committed => srec.size > 0
  BY Sizes DEF Committed, CommittedImage, ImageAt
<1> QED
  BY <1>1, <1>2, <1>3 DEF Installing, Installs

\* A sector is written.
LEMMA WrittenSession ==
    ASSUME TypeOK, Session, Installing, pc \in {"write", "program"}, Written, UNCHANGED <<srec, lstate>>
    PROVE  Session'
<1>1. CASE img = None
  <2>1. pos \in Nat /\ srec.size \in Nat /\ pos < srec.size /\ lstate = "Flashing"
    BY <1>1, SourceSize DEF TypeOK, Session, Writing
  <2> QED
    BY <1>1, <2>1 DEF Session, Writing, Written
<1>2. CASE img # None /\ last
  BY <1>2 DEF Session, Writing, Written, TypeOK
<1>3. CASE img # None /\ ~last
  <2>1. pos \in Nat /\ Size[img] \in Nat
    BY <1>3, SourceSize DEF TypeOK
  <2> QED
    BY <1>3, <2>1 DEF Session, Writing, Written
<1> QED
  BY <1>1, <1>2, <1>3

\* Every step keeps the account of where a session stands.
LEMMA SessionStep ==
    ASSUME TypeOK, Session, Installing, [Next]_vars
    PROVE  Session'
<1>1. CASE Boot
  BY <1>1, Room, Sizes DEF Boot, Session, TypeOK, Writing, session, flash,
     AppPcs
<1>2. CASE \E r \in Outcomes : EraseMetadata(r)
  BY <1>2, Room, Sizes DEF EraseMetadata, Session, TypeOK, Writing, Op, Reset,
     Abandon, EndSession, session, AppPcs
<1>3. CASE \E r \in Outcomes : MarkSlot(r)
  BY <1>3, Room, Sizes, SourceSize DEF MarkSlot, Session, TypeOK, Writing, Op,
     Reset, Abandon, EndSession, session, Opened, AppPcs
<1>4. CASE \E r \in Outcomes : EraseSector(r)
  BY <1>4, Room, Sizes DEF EraseSector, Session, TypeOK, Writing, Op, Reset,
     Abandon, EndSession, session, AppPcs
<1>5. CASE \E r \in Outcomes : ProgramSize(r)
  BY <1>5, Room, Sizes DEF ProgramSize, Session, TypeOK, Writing, Op, Reset,
     Abandon, EndSession, session, AppPcs
<1>6. CASE \E r \in Outcomes : ProgramState(r)
  BY <1>6, Room, Sizes DEF ProgramState, Session, TypeOK, Writing, Op, Reset,
     Abandon, EndSession, AppPcs
<1>7. CASE \E r \in Outcomes : ClearRecord(r)
  BY <1>7, Room, Sizes DEF ClearRecord, Session, TypeOK, Writing, Reset,
     EndSession, slotVars, session, AppPcs
<1>8. CASE \E r \in ProgramOutcomes : ProgramSector(r)
  <2>1. PICK r \in ProgramOutcomes : ProgramSector(r)
    BY <1>8
  <2>2. CASE r \in {"done", "silent"}
    BY <2>1, <2>2, WrittenSession DEF ProgramSector, Op
  <2>3. CASE r = "failed"
    BY <2>1, <2>3 DEF ProgramSector, Op, Abandon, EndSession, Session,
       Writing, AppPcs
  <2>4. CASE r = "cut"
    BY <2>1, <2>4 DEF ProgramSector, Op, Reset, EndSession, Session, Writing
  <2> QED
    BY <2>1, <2>2, <2>3, <2>4 DEF ProgramSector, Op
<1>9. CASE ReuseMarker
  BY <1>9, Room, Sizes, SourceSize DEF ReuseMarker, Session, TypeOK, Writing,
     slotVars, session, flash, Opened, AppPcs
<1>10. CASE MarkRefused
  BY <1>10, Room, Sizes DEF MarkRefused, Session, TypeOK, Writing, Abandon,
     EndSession, flash, AppPcs
<1>11. CASE SkipSector
  BY <1>11, WrittenSession DEF SkipSector, flash, slotVars
<1>12. CASE FinishRefused
  BY <1>12, Room, Sizes DEF FinishRefused, Session, TypeOK, Writing, Abandon,
     EndSession, slotVars, flash, AppPcs
<1>13. CASE Check
  <2>1. ValidAt(app, pos) => pos > 0
    BY Sizes DEF ValidAt, ImageAt
  <2> QED
    BY <1>13, <2>1 DEF Check, Session, Writing, EndSession, session, slotVars
<1>14. CASE Decide
  BY <1>14, Room, Sizes DEF Decide, Session, TypeOK, Writing, EndSession,
     slotVars, flash, AppPcs
<1>15. CASE DfuBlock
  BY <1>15, Room, Sizes DEF DfuBlock, Session, TypeOK, Writing, slotVars,
     flash, AppPcs
<1>16. CASE DfuAbort
  BY <1>16, Room, Sizes DEF DfuAbort, Session, TypeOK, Writing, EndSession,
     slotVars, flash, AppPcs
<1>17. CASE Manifest
  BY <1>17, Room, Sizes DEF Manifest, Session, TypeOK, Writing, slotVars,
     session, flash, AppPcs
<1>18. CASE Detach
  BY <1>18, Room, Sizes DEF Detach, Session, TypeOK, Writing, Reset,
     EndSession, flash, AppPcs
<1>19. CASE \E i \in Images : DfuStart(i)
  BY <1>19, Room, Sizes DEF DfuStart, Session, TypeOK, Writing, slotVars,
     flash, AppPcs
<1>20. CASE \E r \in Outcomes : StageMark(r)
  BY <1>20, Room, Sizes DEF StageMark, Session, TypeOK, Writing, Op, Reset,
     Abandon, EndSession, session, AppPcs
<1>21. CASE \E r \in Outcomes : FoeData(r)
  BY <1>21, Room, Sizes DEF FoeData, Session, TypeOK, Writing, Op, Reset,
     Abandon, EndSession, session, AppPcs
<1>22. CASE \E r \in Outcomes : StageSize(r)
  BY <1>22, Room, Sizes DEF StageSize, Session, TypeOK, Writing, Op, Reset,
     Abandon, EndSession, session, flash, AppPcs
<1>23. CASE \E r \in Outcomes : StageState(r)
  BY <1>23, Room, Sizes DEF StageState, Session, TypeOK, Writing, Op, Reset,
     Abandon, EndSession, AppPcs
<1>24. CASE \E r \in Outcomes : \E i \in Images : FoeWrite(i, r)
  BY <1>24, Room, Sizes DEF FoeWrite, Session, TypeOK, Writing, Op, Reset,
     Abandon, EndSession, AppPcs
<1>25. CASE \E r \in ProgramOutcomes : StageProgram(r)
  BY <1>25, Room, Sizes DEF StageProgram, Session, TypeOK, Writing, Op, Reset,
     Abandon, EndSession, AppPcs
<1>26. CASE LeaveBoot
  BY <1>26, Room, Sizes DEF LeaveBoot, Session, TypeOK, Writing, Reset,
     EndSession, flash, AppPcs
<1>27. CASE BootHeld
  BY <1>27, Room, Sizes DEF BootHeld, Session, TypeOK, Writing, session,
     flash, AppPcs
<1>28. CASE RebootToDfu
  BY <1>28, Room, Sizes DEF RebootToDfu, Session, TypeOK, Writing, Reset,
     EndSession, flash, AppPcs
<1>29. CASE PowerCycle
  BY <1>29, Room, Sizes DEF PowerCycle, Session, TypeOK, Writing, Reset,
     EndSession, flash, AppPcs
<1>30. CASE UNCHANGED vars
  BY <1>30, Room, Sizes DEF vars, ram, Session, TypeOK, Writing, Op, Reset,
     Abandon, EndSession, slotVars, session, flash, Opened, Written, AppPcs
<1> QED
  BY <1>1, <1>2, <1>3, <1>4, <1>5, <1>6, <1>7, <1>8, <1>9, <1>10, <1>11,
     <1>12, <1>13, <1>14, <1>15, <1>16, <1>17, <1>18, <1>19, <1>20, <1>21,
     <1>22, <1>23, <1>24, <1>25, <1>26, <1>27, <1>28, <1>29, <1>30, NextSteps

\* No step uses a slot after the one in RAM.
LEMMA BeyondStep ==
    ASSUME TypeOK, Session, Beyond, [Next]_vars
    PROVE  Beyond'
<1>1. CASE Boot
  BY <1>1, Slots, Sizes, ScanFinds DEF Boot, Beyond, TypeOK, IsLatest,
     Session, Writing, session, flash
<1>2. CASE \E r \in Outcomes : EraseMetadata(r)
  BY <1>2, Slots, Sizes, ScanFinds DEF EraseMetadata, Beyond, TypeOK,
     IsLatest, NeedsErase, Landed, Session, Writing, Op, Reset, Abandon,
     EndSession, session
<1>3. CASE \E r \in Outcomes : MarkSlot(r)
  BY <1>3, Slots, Sizes, ScanFinds DEF MarkSlot, Beyond, TypeOK, IsLatest,
     NeedsErase, Target, Landed, Session, Writing, Op, Reset, Abandon,
     EndSession, session, Opened
<1>4. CASE \E r \in Outcomes : EraseSector(r)
  BY <1>4, Slots, Sizes, ScanFinds DEF EraseSector, Beyond, TypeOK, IsLatest,
     Landed, Session, Writing, Op, Reset, Abandon, EndSession, session
<1>5. CASE \E r \in Outcomes : ProgramSize(r)
  BY <1>5, Slots, Sizes, ScanFinds DEF ProgramSize, Beyond, TypeOK, IsLatest,
     Landed, Session, Writing, Op, Reset, Abandon, EndSession, session
<1>6. CASE \E r \in Outcomes : ProgramState(r)
  BY <1>6, Slots, Sizes, ScanFinds DEF ProgramState, Beyond, TypeOK, IsLatest,
     Landed, Session, Writing, Op, Reset, Abandon, EndSession
<1>7. CASE \E r \in Outcomes : ClearRecord(r)
  BY <1>7, Slots, Sizes, ScanFinds DEF ClearRecord, Beyond, TypeOK, IsLatest,
     Landed, Session, Writing, Reset, EndSession, slotVars, session
<1>8. CASE \E r \in ProgramOutcomes : ProgramSector(r)
  BY <1>8, Slots, Sizes, ScanFinds DEF ProgramSector, Beyond, TypeOK,
     IsLatest, Landed, Session, Writing, Op, Reset, Abandon, EndSession,
     Written
<1>9. CASE ReuseMarker
  BY <1>9, Slots, Sizes, ScanFinds DEF ReuseMarker, Beyond, TypeOK, IsLatest,
     Session, Writing, slotVars, session, flash, Opened
<1>10. CASE MarkRefused
  BY <1>10, Slots, Sizes, ScanFinds DEF MarkRefused, Beyond, TypeOK, IsLatest,
     NeedsErase, Target, Session, Writing, Abandon, EndSession, flash
<1>11. CASE SkipSector
  BY <1>11, Slots, Sizes, ScanFinds DEF SkipSector, Beyond, TypeOK, IsLatest,
     Session, Writing, slotVars, flash, Written
<1>12. CASE FinishRefused
  BY <1>12, Slots, Sizes, ScanFinds DEF FinishRefused, Beyond, TypeOK,
     IsLatest, Session, Writing, Abandon, EndSession, slotVars, flash
<1>13. CASE Check
  BY <1>13, Slots, Sizes, ScanFinds DEF Check, Beyond, TypeOK, IsLatest,
     Session, Writing, EndSession, slotVars, session, flash
<1>14. CASE Decide
  BY <1>14, Slots, Sizes, ScanFinds DEF Decide, Beyond, TypeOK, IsLatest,
     Session, Writing, EndSession, slotVars, flash
<1>15. CASE DfuBlock
  BY <1>15, Slots, Sizes, ScanFinds DEF DfuBlock, Beyond, TypeOK, IsLatest,
     Session, Writing, slotVars, flash
<1>16. CASE DfuAbort
  BY <1>16, Slots, Sizes, ScanFinds DEF DfuAbort, Beyond, TypeOK, IsLatest,
     Session, Writing, EndSession, slotVars, flash
<1>17. CASE Manifest
  BY <1>17, Slots, Sizes, ScanFinds DEF Manifest, Beyond, TypeOK, IsLatest,
     Session, Writing, slotVars, session, flash
<1>18. CASE Detach
  BY <1>18, Slots, Sizes, ScanFinds DEF Detach, Beyond, TypeOK, IsLatest,
     Session, Writing, Reset, EndSession, flash
<1>19. CASE \E i \in Images : DfuStart(i)
  BY <1>19, Slots, Sizes, ScanFinds DEF DfuStart, Beyond, TypeOK, IsLatest,
     Session, Writing, slotVars, flash
<1>20. CASE \E r \in Outcomes : StageMark(r)
  BY <1>20, Slots, Sizes, ScanFinds DEF StageMark, Beyond, TypeOK, IsLatest,
     Landed, Session, Writing, Op, Reset, Abandon, EndSession, session
<1>21. CASE \E r \in Outcomes : FoeData(r)
  BY <1>21, Slots, Sizes, ScanFinds DEF FoeData, Beyond, TypeOK, IsLatest,
     Landed, Session, Writing, Op, Reset, Abandon, EndSession, session
<1>22. CASE \E r \in Outcomes : StageSize(r)
  <2>1. PICK r \in Outcomes : StageSize(r)
    BY <1>22
  <2>2. CASE r \in {"done", "silent"}
    BY <2>1, <2>2 DEF Beyond, Abandon, Reset, EndSession, flash, slotVars,
       Outcomes, StageSize, Op
  <2>3. CASE r = "failed"
    BY <2>1, <2>3 DEF Beyond, Abandon, Reset, EndSession, flash, slotVars,
       Outcomes, StageSize, Op
  <2>4. CASE r = "cut"
    BY <2>1, <2>4 DEF Beyond, Abandon, Reset, EndSession, flash, slotVars,
       Outcomes, StageSize, Op
  <2> QED
    BY <2>1, <2>2, <2>3, <2>4 DEF StageSize, Op
<1>23. CASE \E r \in Outcomes : StageState(r)
  BY <1>23, Slots, Sizes, ScanFinds DEF StageState, Beyond, TypeOK, IsLatest,
     Landed, Session, Writing, Op, Reset, Abandon, EndSession
<1>24. CASE \E r \in Outcomes : \E i \in Images : FoeWrite(i, r)
  BY <1>24, Slots, Sizes, ScanFinds DEF FoeWrite, Beyond, TypeOK, IsLatest,
     Landed, Session, Writing, Op, Reset, Abandon, EndSession
<1>25. CASE \E r \in ProgramOutcomes : StageProgram(r)
  BY <1>25, Slots, Sizes, ScanFinds DEF StageProgram, Beyond, TypeOK,
     IsLatest, Landed, Session, Writing, Op, Reset, Abandon, EndSession
<1>26. CASE LeaveBoot
  BY <1>26, Slots, Sizes, ScanFinds DEF LeaveBoot, Beyond, TypeOK, IsLatest,
     Session, Writing, Reset, EndSession, flash
<1>27. CASE BootHeld
  BY <1>27, Slots, Sizes, ScanFinds DEF BootHeld, Beyond, TypeOK, IsLatest,
     Session, Writing, session, flash
<1>28. CASE RebootToDfu
  BY <1>28, Slots, Sizes, ScanFinds DEF RebootToDfu, Beyond, TypeOK, IsLatest,
     Session, Writing, Reset, EndSession, flash
<1>29. CASE PowerCycle
  BY <1>29, Slots, Sizes, ScanFinds DEF PowerCycle, Beyond, TypeOK, IsLatest,
     Session, Writing, Reset, EndSession, flash
<1>30. CASE UNCHANGED vars
  BY <1>30, Slots, Sizes, ScanFinds DEF vars, ram, Beyond, TypeOK, IsLatest,
     NeedsErase, Target, Landed, Session, Writing, Op, Reset, Abandon,
     EndSession, slotVars, session, flash, Opened, Written
<1> QED
  BY <1>1, <1>2, <1>3, <1>4, <1>5, <1>6, <1>7, <1>8, <1>9, <1>10, <1>11,
     <1>12, <1>13, <1>14, <1>15, <1>16, <1>17, <1>18, <1>19, <1>20, <1>21,
     <1>22, <1>23, <1>24, <1>25, <1>26, <1>27, <1>28, <1>29, <1>30, NextSteps

\* No step takes the record from an installation.
LEMMA InstallingStep ==
    ASSUME TypeOK, Session, Beyond, Installing, [Next]_vars
    PROVE  Installing'
<1>1. CASE Boot
  BY <1>1, Slots, Sizes, ScanFinds DEF Boot, Installing, Installs, Beyond,
     TypeOK, IsLatest, Session, Writing, Committed, CommittedImage, AppPcs,
     session, flash
<1>2. CASE \E r \in Outcomes : EraseMetadata(r)
  <2>1. PICK r \in Outcomes : EraseMetadata(r)
    BY <1>2
  <2>2. CASE r = "done"
    <3>1. lslot' = 1 /\ lstate' = "Empty" /\ meta' = [s \in 1..NSlots |-> Empty]
          /\ UNCHANGED <<pc, img, stg, srec>>
      BY <2>1, <2>2 DEF EraseMetadata, Op, Landed, session
    <3> QED
      BY <2>1, <3>1, Slots, Sizes DEF EraseMetadata, Installing, Installs,
         Committed, CommittedImage
  <2>3. CASE r = "failed"
    BY <2>1, <2>3 DEF EraseMetadata, Op, Abandon, Installing, Installs, AppPcs
  <2>4. CASE r = "cut"
    BY <2>1, <2>4 DEF EraseMetadata, Op, Reset, Installing, Installs
  <2> QED
    BY <2>1, <2>2, <2>3, <2>4 DEF Outcomes
<1>3. CASE \E r \in Outcomes : MarkSlot(r)
  BY <1>3, Slots, Sizes, ScanFinds DEF MarkSlot, Installing, Installs, Beyond,
     TypeOK, IsLatest, NeedsErase, Target, Landed, Session, Writing,
     Committed, CommittedImage, AppPcs, Op, Reset, Abandon, EndSession,
     session, Opened
<1>4. CASE \E r \in Outcomes : EraseSector(r)
  BY <1>4, Slots, Sizes, ScanFinds DEF EraseSector, Installing, Installs,
     Beyond, TypeOK, IsLatest, Landed, Session, Writing, Committed,
     CommittedImage, AppPcs, Op, Reset, Abandon, EndSession, session
<1>5. CASE \E r \in Outcomes : ProgramSize(r)
  BY <1>5, Slots, Sizes, ScanFinds DEF ProgramSize, Installing, Installs,
     Beyond, TypeOK, IsLatest, Landed, Session, Writing, Committed,
     CommittedImage, AppPcs, Op, Reset, Abandon, EndSession, session
<1>6. CASE \E r \in Outcomes : ProgramState(r)
  BY <1>6, Slots, Sizes, ScanFinds DEF ProgramState, Installing, Installs,
     Beyond, TypeOK, IsLatest, Landed, Session, Writing, Committed,
     CommittedImage, AppPcs, Op, Reset, Abandon, EndSession
<1>7. CASE \E r \in Outcomes : ClearRecord(r)
  BY <1>7, Slots, Sizes, ScanFinds DEF ClearRecord, Installing, Installs,
     Beyond, TypeOK, IsLatest, Landed, Session, Writing, Committed,
     CommittedImage, AppPcs, Reset, EndSession, slotVars, session
<1>8. CASE \E r \in ProgramOutcomes : ProgramSector(r)
  BY <1>8, Slots, Sizes, ScanFinds DEF ProgramSector, Installing, Installs,
     Beyond, TypeOK, IsLatest, Landed, Session, Writing, Committed,
     CommittedImage, AppPcs, Op, Reset, Abandon, EndSession, Written
<1>9. CASE ReuseMarker
  BY <1>9, Slots, Sizes, ScanFinds DEF ReuseMarker, Installing, Installs,
     Beyond, TypeOK, IsLatest, Session, Writing, Committed, CommittedImage,
     AppPcs, slotVars, session, flash, Opened
<1>10. CASE MarkRefused
  BY <1>10, Slots, Sizes, ScanFinds DEF MarkRefused, Installing, Installs,
     Beyond, TypeOK, IsLatest, NeedsErase, Target, Session, Writing,
     Committed, CommittedImage, AppPcs, Abandon, EndSession, flash
<1>11. CASE SkipSector
  BY <1>11, Slots, Sizes, ScanFinds DEF SkipSector, Installing, Installs,
     Beyond, TypeOK, IsLatest, Session, Writing, Committed, CommittedImage,
     AppPcs, slotVars, flash, Written
<1>12. CASE FinishRefused
  BY <1>12, Slots, Sizes, ScanFinds DEF FinishRefused, Installing, Installs,
     Beyond, TypeOK, IsLatest, Session, Writing, Committed, CommittedImage,
     AppPcs, Abandon, EndSession, slotVars, flash
<1>13. CASE Check
  BY <1>13, Slots, Sizes, ScanFinds DEF Check, Installing, Installs, Beyond,
     TypeOK, IsLatest, Session, Writing, Committed, CommittedImage, AppPcs,
     EndSession, slotVars, session, flash
<1>14. CASE Decide
  BY <1>14, Slots, Sizes, ScanFinds DEF Decide, Installing, Installs, Beyond,
     TypeOK, IsLatest, Session, Writing, Committed, CommittedImage, AppPcs,
     EndSession, slotVars, flash
<1>15. CASE DfuBlock
  BY <1>15, Slots, Sizes, ScanFinds DEF DfuBlock, Installing, Installs,
     Beyond, TypeOK, IsLatest, Session, Writing, Committed, CommittedImage,
     AppPcs, slotVars, flash
<1>16. CASE DfuAbort
  BY <1>16, Slots, Sizes, ScanFinds DEF DfuAbort, Installing, Installs,
     Beyond, TypeOK, IsLatest, Session, Writing, Committed, CommittedImage,
     AppPcs, EndSession, slotVars, flash
<1>17. CASE Manifest
  BY <1>17, Slots, Sizes, ScanFinds DEF Manifest, Installing, Installs,
     Beyond, TypeOK, IsLatest, Session, Writing, Committed, CommittedImage,
     AppPcs, slotVars, session, flash
<1>18. CASE Detach
  BY <1>18, Slots, Sizes, ScanFinds DEF Detach, Installing, Installs, Beyond,
     TypeOK, IsLatest, Session, Writing, Committed, CommittedImage, AppPcs,
     Reset, EndSession, flash
<1>19. CASE \E i \in Images : DfuStart(i)
  BY <1>19, Slots, Sizes, ScanFinds DEF DfuStart, Installing, Installs,
     Beyond, TypeOK, IsLatest, Session, Writing, Committed, CommittedImage,
     AppPcs, slotVars, flash
<1>20. CASE \E r \in Outcomes : StageMark(r)
  BY <1>20, Slots, Sizes, ScanFinds DEF StageMark, Installing, Installs,
     Beyond, TypeOK, IsLatest, Landed, Session, Writing, Committed,
     CommittedImage, AppPcs, Op, Reset, Abandon, EndSession, session
<1>21. CASE \E r \in Outcomes : FoeData(r)
  BY <1>21, Slots, Sizes, ScanFinds DEF FoeData, Installing, Installs, Beyond,
     TypeOK, IsLatest, Landed, Session, Writing, Committed, CommittedImage,
     AppPcs, Op, Reset, Abandon, EndSession, session
<1>22. CASE \E r \in Outcomes : StageSize(r)
  BY <1>22, Slots, Sizes, ScanFinds DEF StageSize, Installing, Installs,
     Beyond, TypeOK, IsLatest, Session, Writing, Committed, CommittedImage,
     AppPcs, Op, Reset, Abandon, EndSession, session, flash
<1>23. CASE \E r \in Outcomes : StageState(r)
  BY <1>23, Slots, Sizes, ScanFinds DEF StageState, Installing, Installs,
     Beyond, TypeOK, IsLatest, Landed, Session, Writing, Committed,
     CommittedImage, AppPcs, Op, Reset, Abandon, EndSession
<1>24. CASE \E r \in Outcomes : \E i \in Images : FoeWrite(i, r)
  BY <1>24, Slots, Sizes, ScanFinds DEF FoeWrite, Installing, Installs,
     Beyond, TypeOK, IsLatest, Landed, Session, Writing, Committed,
     CommittedImage, AppPcs, Op, Reset, Abandon, EndSession
<1>25. CASE \E r \in ProgramOutcomes : StageProgram(r)
  BY <1>25, Slots, Sizes, ScanFinds DEF StageProgram, Installing, Installs,
     Beyond, TypeOK, IsLatest, Landed, Session, Writing, Committed,
     CommittedImage, AppPcs, Op, Reset, Abandon, EndSession
<1>26. CASE LeaveBoot
  BY <1>26, Slots, Sizes, ScanFinds DEF LeaveBoot, Installing, Installs,
     Beyond, TypeOK, IsLatest, Session, Writing, Committed, CommittedImage,
     AppPcs, Reset, EndSession, flash
<1>27. CASE BootHeld
  BY <1>27, Slots, Sizes, ScanFinds DEF BootHeld, Installing, Installs,
     Beyond, TypeOK, IsLatest, Session, Writing, Committed, CommittedImage,
     AppPcs, session, flash
<1>28. CASE RebootToDfu
  BY <1>28, Slots, Sizes, ScanFinds DEF RebootToDfu, Installing, Installs,
     Beyond, TypeOK, IsLatest, Session, Writing, Committed, CommittedImage,
     AppPcs, Reset, EndSession, flash
<1>29. CASE PowerCycle
  BY <1>29, Slots, Sizes, ScanFinds DEF PowerCycle, Installing, Installs,
     Beyond, TypeOK, IsLatest, Session, Writing, Committed, CommittedImage,
     AppPcs, Reset, EndSession, flash
<1>30. CASE UNCHANGED vars
  BY <1>30, Slots, Sizes, ScanFinds DEF vars, ram, Installing, Installs,
     Beyond, TypeOK, IsLatest, NeedsErase, Target, Landed, Session, Writing,
     Committed, CommittedImage, AppPcs, Op, Reset, Abandon, EndSession,
     slotVars, session, flash, Opened, Written
<1> QED
  BY <1>1, <1>2, <1>3, <1>4, <1>5, <1>6, <1>7, <1>8, <1>9, <1>10, <1>11,
     <1>12, <1>13, <1>14, <1>15, <1>16, <1>17, <1>18, <1>19, <1>20, <1>21,
     <1>22, <1>23, <1>24, <1>25, <1>26, <1>27, <1>28, <1>29, <1>30, NextSteps

\* No step writes anything but the source.
LEMMA CopiedStep ==
    ASSUME TypeOK, Session, Copied, Installing, [Next]_vars
    PROVE  Copied'
<1>1. CASE Boot
  BY <1>1, Room, Sizes DEF Boot, Copied, Session, TypeOK, Writing, AppPcs,
     Sectors, session, flash
<1>2. CASE \E r \in Outcomes : EraseMetadata(r)
  BY <1>2, Room, Sizes DEF EraseMetadata, Copied, Session, TypeOK, Landed,
     Writing, AppPcs, Sectors, Op, Reset, Abandon, EndSession, session
<1>3. CASE \E r \in Outcomes : MarkSlot(r)
  BY <1>3, Room, Sizes DEF MarkSlot, Copied, Session, TypeOK, Landed, Writing,
     AppPcs, Sectors, Op, Reset, Abandon, EndSession, session, Opened
<1>4. CASE \E r \in Outcomes : EraseSector(r)
  BY <1>4, Room, Sizes DEF EraseSector, Copied, Session, TypeOK, Landed,
     Writing, Source, AppPcs, Sectors, Op, Reset, Abandon, EndSession, session
<1>5. CASE \E r \in Outcomes : ProgramSize(r)
  BY <1>5, Room, Sizes DEF ProgramSize, Copied, Session, TypeOK, Landed,
     Writing, AppPcs, Sectors, Op, Reset, Abandon, EndSession, session
<1>6. CASE \E r \in Outcomes : ProgramState(r)
  BY <1>6, Room, Sizes DEF ProgramState, Copied, Session, TypeOK, Landed,
     Writing, AppPcs, Sectors, Op, Reset, Abandon, EndSession
<1>7. CASE \E r \in Outcomes : ClearRecord(r)
  BY <1>7, Room, Sizes DEF ClearRecord, Copied, Session, TypeOK, Landed,
     Writing, AppPcs, Sectors, Reset, EndSession, slotVars, session
<1>8. CASE \E r \in ProgramOutcomes : ProgramSector(r)
  BY <1>8, Room, Sizes DEF ProgramSector, Copied, Session, TypeOK, Landed,
     Writing, Source, AppPcs, Sectors, Op, Reset, Abandon, EndSession, Written
<1>9. CASE ReuseMarker
  BY <1>9, Room, Sizes DEF ReuseMarker, Copied, Session, TypeOK, Writing,
     AppPcs, Sectors, slotVars, session, flash, Opened
<1>10. CASE MarkRefused
  BY <1>10, Room, Sizes DEF MarkRefused, Copied, Session, TypeOK, Writing,
     AppPcs, Sectors, Abandon, EndSession, flash
<1>11. CASE SkipSector
  BY <1>11, Room, Sizes DEF SkipSector, Copied, Session, TypeOK, Writing,
     Source, AppPcs, Sectors, slotVars, flash, Written
<1>12. CASE FinishRefused
  BY <1>12, Room, Sizes DEF FinishRefused, Copied, Session, TypeOK, Writing,
     AppPcs, Sectors, Abandon, EndSession, slotVars, flash
<1>13. CASE Check
  BY <1>13, Room, Sizes DEF Check, Copied, Session, TypeOK, Writing, AppPcs,
     Sectors, EndSession, slotVars, session, flash
<1>14. CASE Decide
  BY <1>14, Room, Sizes DEF Decide, Copied, Session, TypeOK, Writing, AppPcs,
     Sectors, EndSession, slotVars, flash
<1>15. CASE DfuBlock
  BY <1>15, Room, Sizes DEF DfuBlock, Copied, Session, TypeOK, Writing,
     AppPcs, Sectors, slotVars, flash
<1>16. CASE DfuAbort
  BY <1>16, Room, Sizes DEF DfuAbort, Copied, Session, TypeOK, Writing,
     AppPcs, Sectors, EndSession, slotVars, flash
<1>17. CASE Manifest
  BY <1>17, Room, Sizes DEF Manifest, Copied, Session, TypeOK, Writing,
     AppPcs, Sectors, slotVars, session, flash
<1>18. CASE Detach
  BY <1>18, Room, Sizes DEF Detach, Copied, Session, TypeOK, Writing, AppPcs,
     Sectors, Reset, EndSession, flash
<1>19. CASE \E i \in Images : DfuStart(i)
  BY <1>19, Room, Sizes DEF DfuStart, Copied, Session, TypeOK, Writing,
     AppPcs, Sectors, slotVars, flash
<1>20. CASE \E r \in Outcomes : StageMark(r)
  BY <1>20, Room, Sizes DEF StageMark, Copied, Session, TypeOK, Landed,
     Writing, AppPcs, Sectors, Op, Reset, Abandon, EndSession, session
<1>21. CASE \E r \in Outcomes : FoeData(r)
  BY <1>21, Room, Sizes DEF FoeData, Copied, Session, TypeOK, Landed, Writing,
     AppPcs, Sectors, Op, Reset, Abandon, EndSession, session
<1>22. CASE \E r \in Outcomes : StageSize(r)
  BY <1>22, Room, Sizes DEF StageSize, Copied, Session, TypeOK, Writing,
     AppPcs, Sectors, Op, Reset, Abandon, EndSession, session, flash
<1>23. CASE \E r \in Outcomes : StageState(r)
  BY <1>23, Room, Sizes DEF StageState, Copied, Session, TypeOK, Landed,
     Writing, AppPcs, Sectors, Op, Reset, Abandon, EndSession
<1>24. CASE \E r \in Outcomes : \E i \in Images : FoeWrite(i, r)
  BY <1>24, Room, Sizes DEF FoeWrite, Copied, Session, TypeOK, Landed,
     Writing, AppPcs, Sectors, Op, Reset, Abandon, EndSession
<1>25. CASE \E r \in ProgramOutcomes : StageProgram(r)
  BY <1>25, Room, Sizes DEF StageProgram, Copied, Session, TypeOK, Landed,
     Writing, AppPcs, Sectors, Op, Reset, Abandon, EndSession
<1>26. CASE LeaveBoot
  BY <1>26, Room, Sizes DEF LeaveBoot, Copied, Session, TypeOK, Writing,
     AppPcs, Sectors, Reset, EndSession, flash
<1>27. CASE BootHeld
  BY <1>27, Room, Sizes DEF BootHeld, Copied, Session, TypeOK, Writing,
     AppPcs, Sectors, session, flash
<1>28. CASE RebootToDfu
  BY <1>28, Room, Sizes DEF RebootToDfu, Copied, Session, TypeOK, Writing,
     AppPcs, Sectors, Reset, EndSession, flash
<1>29. CASE PowerCycle
  BY <1>29, Room, Sizes DEF PowerCycle, Copied, Session, TypeOK, Writing,
     AppPcs, Sectors, Reset, EndSession, flash
<1>30. CASE UNCHANGED vars
  BY <1>30, Room, Sizes DEF vars, ram, Copied, Session, TypeOK, Landed,
     Writing, Source, AppPcs, Sectors, Op, Reset, Abandon, EndSession,
     slotVars, session, flash, Opened, Written
<1> QED
  BY <1>1, <1>2, <1>3, <1>4, <1>5, <1>6, <1>7, <1>8, <1>9, <1>10, <1>11,
     <1>12, <1>13, <1>14, <1>15, <1>16, <1>17, <1>18, <1>19, <1>20, <1>21,
     <1>22, <1>23, <1>24, <1>25, <1>26, <1>27, <1>28, <1>29, <1>30, NextSteps

-----------------------------------------------------------------------------
\* What the flash says is unchanged when the flash is.
LEMMA SameApp ==
    ASSUME UNCHANGED <<meta, app>>
    PROVE  /\ \A i \in Images : AppIs(i)' <=> AppIs(i)
           /\ Gap' <=> Gap
<1>1. \A s \in 1..NSlots : IsLatest(s)' <=> IsLatest(s)
  BY DEF IsLatest
<1>2. WellFormed' <=> WellFormed
  BY <1>1 DEF WellFormed
<1>3. Latest' = Latest
  BY <1>1 DEF Latest, IsLatest
<1>4. LatestSlot' = LatestSlot /\ LatestState' = LatestState
  BY <1>2, <1>3 DEF LatestSlot, LatestState
<1>5. \A i \in Images : AppIs(i)' <=> AppIs(i)
  BY <1>4 DEF AppIs
<1>6. Gap' <=> Gap
  BY DEF Gap
<1> QED
  BY <1>5, <1>6

(* What was committed depends on the staging area and the record only.     *)
LEMMA SameRecord ==
    ASSUME UNCHANGED <<stg, srec>>
    PROVE  /\ \A i \in Images : CommittedImage(i)' <=> CommittedImage(i)
           /\ Committed' <=> Committed
<1>1. \A i \in Images : CommittedImage(i)' <=> CommittedImage(i)
  BY DEF CommittedImage
<1> QED
  BY <1>1 DEF Committed

\* A validated DFU download is the image that was sent.
LEMMA ValidIsSent ==
    ASSUME TypeOK, Copied, pc = "check", img # None, ValidAt(app, pos)
    PROVE  ImageAt(img, app, pos)
<1>1. PICK i \in Images : ImageAt(i, app, pos)
  BY DEF ValidAt
<1>2. 1 \in 1..pos /\ app[1] = i /\ i # Junk
  BY <1>1, Sizes DEF ImageAt
<1>3. app[1] \in {img, Junk}
  BY <1>2 DEF Copied, Writing
<1> QED
  BY <1>1, <1>2, <1>3

\* No step enters an unvalidated download in a slot.
LEMMA CheckedStep ==
    ASSUME TypeOK, Session, Copied, Checked, [Next]_vars
    PROVE  Checked'
<1>1. CASE Boot
  BY <1>1 DEF Boot, Checked, ImageAt, Session, AppPcs, session, flash
<1>2. CASE \E r \in Outcomes : EraseMetadata(r)
  BY <1>2 DEF EraseMetadata, Checked, ImageAt, Session, AppPcs, Op, Reset,
     Abandon, EndSession, session
<1>3. CASE \E r \in Outcomes : MarkSlot(r)
  BY <1>3 DEF MarkSlot, Checked, ImageAt, Session, AppPcs, Op, Reset, Abandon,
     EndSession, session, Opened
<1>4. CASE \E r \in Outcomes : EraseSector(r)
  BY <1>4 DEF EraseSector, Checked, ImageAt, Session, AppPcs, Op, Reset,
     Abandon, EndSession, session
<1>5. CASE \E r \in Outcomes : ProgramSize(r)
  BY <1>5 DEF ProgramSize, Checked, ImageAt, Session, AppPcs, Op, Reset,
     Abandon, EndSession, session
<1>6. CASE \E r \in Outcomes : ProgramState(r)
  BY <1>6 DEF ProgramState, Checked, ImageAt, Session, AppPcs, Op, Reset,
     Abandon, EndSession
<1>7. CASE \E r \in Outcomes : ClearRecord(r)
  BY <1>7 DEF ClearRecord, Checked, ImageAt, Session, AppPcs, Reset,
     EndSession, slotVars, session
<1>8. CASE \E r \in ProgramOutcomes : ProgramSector(r)
  BY <1>8 DEF ProgramSector, Checked, ImageAt, Session, AppPcs, Op, Reset,
     Abandon, EndSession, Written
<1>9. CASE ReuseMarker
  BY <1>9 DEF ReuseMarker, Checked, ImageAt, Session, AppPcs, slotVars,
     session, flash, Opened
<1>10. CASE MarkRefused
  BY <1>10 DEF MarkRefused, Checked, ImageAt, Session, AppPcs, Abandon,
     EndSession, flash
<1>11. CASE SkipSector
  BY <1>11 DEF SkipSector, Checked, ImageAt, Session, AppPcs, slotVars, flash,
     Written
<1>12. CASE FinishRefused
  BY <1>12 DEF FinishRefused, Checked, ImageAt, Session, AppPcs, Abandon,
     EndSession, slotVars, flash
<1>13. CASE Check
  BY <1>13, ValidIsSent DEF Check, Checked, EndSession, session, flash
<1>14. CASE Decide
  BY <1>14 DEF Decide, Checked, ImageAt, Session, AppPcs, EndSession,
     slotVars, flash
<1>15. CASE DfuBlock
  BY <1>15 DEF DfuBlock, Checked, ImageAt, Session, AppPcs, slotVars, flash
<1>16. CASE DfuAbort
  BY <1>16 DEF DfuAbort, Checked, ImageAt, Session, AppPcs, EndSession,
     slotVars, flash
<1>17. CASE Manifest
  BY <1>17 DEF Manifest, Checked, ImageAt, Session, AppPcs, slotVars, session,
     flash
<1>18. CASE Detach
  BY <1>18 DEF Detach, Checked, ImageAt, Session, AppPcs, Reset, EndSession,
     flash
<1>19. CASE \E i \in Images : DfuStart(i)
  BY <1>19 DEF DfuStart, Checked, ImageAt, Session, AppPcs, slotVars, flash
<1>20. CASE \E r \in Outcomes : StageMark(r)
  BY <1>20 DEF StageMark, Checked, ImageAt, Session, AppPcs, Op, Reset,
     Abandon, EndSession, session
<1>21. CASE \E r \in Outcomes : FoeData(r)
  BY <1>21 DEF FoeData, Checked, ImageAt, Session, AppPcs, Op, Reset, Abandon,
     EndSession, session
<1>22. CASE \E r \in Outcomes : StageSize(r)
  BY <1>22 DEF StageSize, Checked, ImageAt, Session, AppPcs, Op, Reset,
     Abandon, EndSession, session, flash
<1>23. CASE \E r \in Outcomes : StageState(r)
  BY <1>23 DEF StageState, Checked, ImageAt, Session, AppPcs, Op, Reset,
     Abandon, EndSession
<1>24. CASE \E r \in Outcomes : \E i \in Images : FoeWrite(i, r)
  BY <1>24 DEF FoeWrite, Checked, ImageAt, Session, AppPcs, Op, Reset,
     Abandon, EndSession
<1>25. CASE \E r \in ProgramOutcomes : StageProgram(r)
  BY <1>25 DEF StageProgram, Checked, ImageAt, Session, AppPcs, Op, Reset,
     Abandon, EndSession
<1>26. CASE LeaveBoot
  BY <1>26 DEF LeaveBoot, Checked, ImageAt, Session, AppPcs, Reset,
     EndSession, flash
<1>27. CASE BootHeld
  BY <1>27 DEF BootHeld, Checked, ImageAt, Session, AppPcs, session, flash
<1>28. CASE RebootToDfu
  BY <1>28 DEF RebootToDfu, Checked, ImageAt, Session, AppPcs, Reset,
     EndSession, flash
<1>29. CASE PowerCycle
  BY <1>29 DEF PowerCycle, Checked, ImageAt, Session, AppPcs, Reset,
     EndSession, flash
<1>30. CASE UNCHANGED vars
  BY <1>30 DEF vars, ram, Checked, ImageAt, Session, AppPcs, Op, Reset,
     Abandon, EndSession, slotVars, session, flash, Opened, Written
<1> QED
  BY <1>1, <1>2, <1>3, <1>4, <1>5, <1>6, <1>7, <1>8, <1>9, <1>10, <1>11,
     <1>12, <1>13, <1>14, <1>15, <1>16, <1>17, <1>18, <1>19, <1>20, <1>21,
     <1>22, <1>23, <1>24, <1>25, <1>26, <1>27, <1>28, <1>29, <1>30, NextSteps

\* No step lets a verdict stand while it rewrites the application.
LEMMA UnjudgedStep ==
    ASSUME TypeOK, Session, Unjudged, [Next]_vars
    PROVE  Unjudged'
<1>1. CASE Boot
  BY <1>1, Sizes DEF Boot, Unjudged, Writing, Session, AppPcs, session, flash
<1>2. CASE \E r \in Outcomes : EraseMetadata(r)
  BY <1>2, Sizes DEF EraseMetadata, Unjudged, Writing, Session, AppPcs, Op,
     Reset, Abandon, EndSession, session
<1>3. CASE \E r \in Outcomes : MarkSlot(r)
  BY <1>3, Sizes DEF MarkSlot, Unjudged, Writing, Session, AppPcs, Op, Reset,
     Abandon, EndSession, session, Opened
<1>4. CASE \E r \in Outcomes : EraseSector(r)
  BY <1>4, Sizes DEF EraseSector, Unjudged, Writing, Session, AppPcs, Op,
     Reset, Abandon, EndSession, session
<1>5. CASE \E r \in Outcomes : ProgramSize(r)
  BY <1>5, Sizes DEF ProgramSize, Unjudged, Writing, Session, AppPcs, Op,
     Reset, Abandon, EndSession, session
<1>6. CASE \E r \in Outcomes : ProgramState(r)
  BY <1>6, Sizes DEF ProgramState, Unjudged, Writing, Session, AppPcs, Op,
     Reset, Abandon, EndSession
<1>7. CASE \E r \in Outcomes : ClearRecord(r)
  BY <1>7, Sizes DEF ClearRecord, Unjudged, Writing, Session, AppPcs, Reset,
     EndSession, slotVars, session
<1>8. CASE \E r \in ProgramOutcomes : ProgramSector(r)
  BY <1>8, Sizes DEF ProgramSector, Unjudged, Writing, Session, AppPcs, Op,
     Reset, Abandon, EndSession, Written
<1>9. CASE ReuseMarker
  BY <1>9, Sizes DEF ReuseMarker, Unjudged, Writing, Session, AppPcs,
     slotVars, session, flash, Opened
<1>10. CASE MarkRefused
  BY <1>10, Sizes DEF MarkRefused, Unjudged, Writing, Session, AppPcs,
     Abandon, EndSession, flash
<1>11. CASE SkipSector
  BY <1>11, Sizes DEF SkipSector, Unjudged, Writing, Session, AppPcs,
     slotVars, flash, Written
<1>12. CASE FinishRefused
  BY <1>12, Sizes DEF FinishRefused, Unjudged, Writing, Session, AppPcs,
     Abandon, EndSession, slotVars, flash
<1>13. CASE Check
  BY <1>13, Sizes DEF Check, Unjudged, Writing, Session, AppPcs, EndSession,
     slotVars, session, flash
<1>14. CASE Decide
  BY <1>14, Sizes DEF Decide, Unjudged, Writing, Session, AppPcs, EndSession,
     slotVars, flash
<1>15. CASE DfuBlock
  BY <1>15, Sizes DEF DfuBlock, Unjudged, Writing, Session, AppPcs, slotVars,
     flash
<1>16. CASE DfuAbort
  BY <1>16, Sizes DEF DfuAbort, Unjudged, Writing, Session, AppPcs,
     EndSession, slotVars, flash
<1>17. CASE Manifest
  BY <1>17, Sizes DEF Manifest, Unjudged, Writing, Session, AppPcs, slotVars,
     session, flash
<1>18. CASE Detach
  BY <1>18, Sizes DEF Detach, Unjudged, Writing, Session, AppPcs, Reset,
     EndSession, flash
<1>19. CASE \E i \in Images : DfuStart(i)
  BY <1>19, Sizes DEF DfuStart, Unjudged, Writing, Session, AppPcs, slotVars,
     flash
<1>20. CASE \E r \in Outcomes : StageMark(r)
  BY <1>20, Sizes DEF StageMark, Unjudged, Writing, Session, AppPcs, Op,
     Reset, Abandon, EndSession, session
<1>21. CASE \E r \in Outcomes : FoeData(r)
  BY <1>21, Sizes DEF FoeData, Unjudged, Writing, Session, AppPcs, Op, Reset,
     Abandon, EndSession, session
<1>22. CASE \E r \in Outcomes : StageSize(r)
  BY <1>22, Sizes DEF StageSize, Unjudged, Writing, Session, AppPcs, Op,
     Reset, Abandon, EndSession, session, flash
<1>23. CASE \E r \in Outcomes : StageState(r)
  BY <1>23, Sizes DEF StageState, Unjudged, Writing, Session, AppPcs, Op,
     Reset, Abandon, EndSession
<1>24. CASE \E r \in Outcomes : \E i \in Images : FoeWrite(i, r)
  BY <1>24, Sizes DEF FoeWrite, Unjudged, Writing, Session, AppPcs, Op, Reset,
     Abandon, EndSession
<1>25. CASE \E r \in ProgramOutcomes : StageProgram(r)
  BY <1>25, Sizes DEF StageProgram, Unjudged, Writing, Session, AppPcs, Op,
     Reset, Abandon, EndSession
<1>26. CASE LeaveBoot
  BY <1>26, Sizes DEF LeaveBoot, Unjudged, Writing, Session, AppPcs, Reset,
     EndSession, flash
<1>27. CASE BootHeld
  BY <1>27, Sizes DEF BootHeld, Unjudged, Writing, Session, AppPcs, session,
     flash
<1>28. CASE RebootToDfu
  BY <1>28, Sizes DEF RebootToDfu, Unjudged, Writing, Session, AppPcs, Reset,
     EndSession, flash
<1>29. CASE PowerCycle
  BY <1>29, Sizes DEF PowerCycle, Unjudged, Writing, Session, AppPcs, Reset,
     EndSession, flash
<1>30. CASE UNCHANGED vars
  BY <1>30, Sizes DEF vars, ram, Unjudged, Writing, Session, AppPcs, Op,
     Reset, Abandon, EndSession, slotVars, session, flash, Opened, Written
<1> QED
  BY <1>1, <1>2, <1>3, <1>4, <1>5, <1>6, <1>7, <1>8, <1>9, <1>10, <1>11,
     <1>12, <1>13, <1>14, <1>15, <1>16, <1>17, <1>18, <1>19, <1>20, <1>21,
     <1>22, <1>23, <1>24, <1>25, <1>26, <1>27, <1>28, <1>29, <1>30, NextSteps

\* An installation that validates has installed the committed image.
LEMMA InstalledIs ==
    ASSUME TypeOK, Session, Copied, pc = "state", img = None, ValidAt(app, pos),
           NEW i \in Images, CommittedImage(i)
    PROVE  ImageAt(i, app, pos)
<1>1. PICK j \in Images : ImageAt(j, app, pos)
  BY DEF ValidAt
<1>2. 1 \in 1..pos /\ app[1] = j /\ j # Junk
  BY <1>1, Sizes DEF ImageAt
<1>3. app[1] \in {stg[1], Junk}
  BY <1>2 DEF Copied, Writing
<1>4. stg[1] = i
  BY Sizes DEF CommittedImage, ImageAt
<1> QED
  BY <1>1, <1>2, <1>3, <1>4

\* The slot of the finished image is what the next scan finds.
LEMMA SlotFilled ==
    ASSUME TypeOK, TypeOK', Session, Beyond, pc = "state",
           meta' = [meta EXCEPT ![lslot] = Ready(pos)], UNCHANGED app,
           NEW i \in Images, ImageAt(i, app, pos),
           ~Gap' \/ \A t \in 1..(lslot-1) : meta[t].st = "Ready"
    PROVE  AppIs(i)'
<1>1. lslot \in 1..NSlots /\ pos \in Sectors
  BY Sizes DEF TypeOK, Session, Writing, Sectors
<1>2. meta'[lslot] = Ready(pos) /\ \A t \in 1..NSlots : t # lslot => meta'[t] = meta[t]
  BY <1>1 DEF TypeOK
<1>3. meta'[lslot].st = "Ready" /\ meta'[lslot].size = pos /\ meta'[lslot] # Empty
  BY <1>1, <1>2, Slots
<1>4. \A t \in (lslot+1)..NSlots : meta'[t] = Empty
  BY <1>1, <1>2, Sizes DEF Beyond
<1>5. \A t \in 1..(lslot-1) : meta'[t].st = "Ready"
  <2>1. CASE ~Gap'
    BY <2>1, <1>1, <1>3 DEF Gap
  <2>2. CASE \A t \in 1..(lslot-1) : meta[t].st = "Ready"
    BY <2>2, <1>1, <1>2, Sizes
  <2> QED
    BY <2>1, <2>2
<1>6. ImageAt(i, app', meta'[lslot].size)
  BY <1>3
<1> QED
  BY <1>1, <1>3, <1>4, <1>5, <1>6, AppThereNext

\* The application found by the jump decision is what a scan finds.
LEMMA JumpsToFound ==
    ASSUME TypeOK, Beyond, ~Gap, lstate = "Ready", meta[lslot].st = "Ready",
           ValidAt(app, meta[lslot].size)
    PROVE  \E i \in Images : AppIs(i)
<1>1. lslot \in 1..NSlots
  BY Sizes DEF TypeOK
<1>2. PICK i \in Images : ImageAt(i, app, meta[lslot].size)
  BY DEF ValidAt
<1> QED
  BY <1>1, <1>2, AppUnlessGap DEF Beyond

\* The staged image is dropped only when it is installed.
LEMMA ClearingStep ==
    ASSUME TypeOK, TypeOK', Session, Beyond, Installing, Copied, Clearing, [Next]_vars
    PROVE  Clearing'
<1>1. CASE Boot
  <2>1. CASE Committed
    BY <1>1, <2>1 DEF Boot, Clearing
  <2>2. CASE ~Committed
    <3>1. ~Committed'
      BY <1>1, <2>2, SameRecord DEF Boot, flash
    <3> QED
      BY <3>1 DEF Clearing, Committed
  <2> QED
    BY <2>1, <2>2
<1>2. CASE \E r \in Outcomes : EraseMetadata(r)
  BY <1>2 DEF EraseMetadata, Clearing, AppPcs, Op, Reset, Abandon, EndSession,
     session
<1>3. CASE \E r \in Outcomes : MarkSlot(r)
  BY <1>3 DEF MarkSlot, Clearing, AppPcs, Op, Reset, Abandon, EndSession,
     session, Opened
<1>4. CASE \E r \in Outcomes : EraseSector(r)
  BY <1>4 DEF EraseSector, Clearing, AppPcs, Op, Reset, Abandon, EndSession,
     session
<1>5. CASE \E r \in Outcomes : ProgramSize(r)
  BY <1>5 DEF ProgramSize, Clearing, AppPcs, Op, Reset, Abandon, EndSession,
     session
<1>6. CASE \E r \in Outcomes : ProgramState(r)
  <2>1. PICK r \in Outcomes : ProgramState(r)
    BY <1>6
  <2>2. CASE r = "done" /\ img = None /\ ValidAt(app, pos)
    <3>1. meta' = [meta EXCEPT ![lslot] = Ready(pos)] /\ UNCHANGED <<app, stg, srec>>
      BY <2>1, <2>2 DEF ProgramState, Landed
    <3>2. pc = "state" /\ lslot > 0
      BY <2>1, Sizes DEF ProgramState, Session, Writing, TypeOK
    <3>3. \A t \in 1..(lslot-1) : meta[t].st = "Ready"
      BY <2>2, <3>2 DEF Installing, Installs
    <3>4. ASSUME NEW i \in Images, CommittedImage(i)' PROVE AppIs(i)'
      <4>1. CommittedImage(i)
        BY <3>1, <3>4, SameRecord
      <4>2. ImageAt(i, app, pos)
        BY <2>2, <3>2, <4>1, InstalledIs
      <4> QED
        BY <3>1, <3>2, <3>3, <4>2, SlotFilled
    <3> QED
      BY <3>4 DEF Clearing
  <2>3. CASE ~(r = "done" /\ img = None /\ ValidAt(app, pos))
    <3>1. pc' # "clear"
      BY <2>1, <2>3 DEF ProgramState, Op, Abandon, Reset, AppPcs, Outcomes
    <3> QED
      BY <3>1 DEF Clearing
  <2> QED
    BY <2>2, <2>3
<1>7. CASE \E r \in Outcomes : ClearRecord(r)
  BY <1>7 DEF ClearRecord, Clearing, Reset
<1>8. CASE \E r \in ProgramOutcomes : ProgramSector(r)
  BY <1>8 DEF ProgramSector, Clearing, AppPcs, Op, Reset, Abandon, EndSession,
     Written
<1>9. CASE ReuseMarker
  BY <1>9 DEF ReuseMarker, Clearing, AppPcs, slotVars, session, flash, Opened
<1>10. CASE MarkRefused
  BY <1>10 DEF MarkRefused, Clearing, AppPcs, Abandon, EndSession, flash
<1>11. CASE SkipSector
  BY <1>11 DEF SkipSector, Clearing, AppPcs, slotVars, flash, Written
<1>12. CASE FinishRefused
  BY <1>12 DEF FinishRefused, Clearing, AppPcs, Abandon, EndSession, slotVars,
     flash
<1>13. CASE Check
  BY <1>13 DEF Check, Clearing, AppPcs, EndSession, slotVars, session, flash
<1>14. CASE Decide
  BY <1>14 DEF Decide, Clearing, AppPcs, EndSession, slotVars, flash
<1>15. CASE DfuBlock
  BY <1>15 DEF DfuBlock, Clearing, AppPcs, slotVars, flash
<1>16. CASE DfuAbort
  BY <1>16 DEF DfuAbort, Clearing, AppPcs, EndSession, slotVars, flash
<1>17. CASE Manifest
  BY <1>17 DEF Manifest, Clearing, AppPcs, slotVars, session, flash
<1>18. CASE Detach
  BY <1>18 DEF Detach, Clearing, AppPcs, Reset, EndSession, flash
<1>19. CASE \E i \in Images : DfuStart(i)
  BY <1>19 DEF DfuStart, Clearing, AppPcs, slotVars, flash
<1>20. CASE \E r \in Outcomes : StageMark(r)
  BY <1>20 DEF StageMark, Clearing, AppPcs, Op, Reset, Abandon, EndSession,
     session
<1>21. CASE \E r \in Outcomes : FoeData(r)
  BY <1>21 DEF FoeData, Clearing, AppPcs, Op, Reset, Abandon, EndSession,
     session
<1>22. CASE \E r \in Outcomes : StageSize(r)
  BY <1>22 DEF StageSize, Clearing, AppPcs, Op, Reset, Abandon, EndSession,
     session, flash
<1>23. CASE \E r \in Outcomes : StageState(r)
  BY <1>23 DEF StageState, Clearing, AppPcs, Op, Reset, Abandon, EndSession
<1>24. CASE \E r \in Outcomes : \E i \in Images : FoeWrite(i, r)
  BY <1>24 DEF FoeWrite, Clearing, AppPcs, Op, Reset, Abandon, EndSession
<1>25. CASE \E r \in ProgramOutcomes : StageProgram(r)
  BY <1>25 DEF StageProgram, Clearing, AppPcs, Op, Reset, Abandon, EndSession
<1>26. CASE LeaveBoot
  BY <1>26 DEF LeaveBoot, Clearing, AppPcs, Reset, EndSession, flash
<1>27. CASE BootHeld
  BY <1>27 DEF BootHeld, Clearing, AppPcs, session, flash
<1>28. CASE RebootToDfu
  BY <1>28 DEF RebootToDfu, Clearing, AppPcs, Reset, EndSession, flash
<1>29. CASE PowerCycle
  BY <1>29 DEF PowerCycle, Clearing, AppPcs, Reset, EndSession, flash
<1>30. CASE UNCHANGED vars
  BY <1>30, SameApp, SameRecord DEF vars, flash, ram, Clearing
<1> QED
  BY <1>1, <1>2, <1>3, <1>4, <1>5, <1>6, <1>7, <1>8, <1>9, <1>10, <1>11,
     <1>12, <1>13, <1>14, <1>15, <1>16, <1>17, <1>18, <1>19, <1>20, <1>21,
     <1>22, <1>23, <1>24, <1>25, <1>26, <1>27, <1>28, <1>29, <1>30, NextSteps

\* Only an update writes slots and the application.
LEMMA AppFrame ==
    ASSUME [Next]_vars, pc \notin {"begin", "write", "program", "size", "state"}
    PROVE  UNCHANGED <<meta, app>>
<1>1. CASE \E r \in Outcomes : EraseMetadata(r)
  BY <1>1 DEF EraseMetadata
<1>2. CASE \E r \in Outcomes : MarkSlot(r)
  BY <1>2 DEF MarkSlot
<1>3. CASE \E r \in Outcomes : EraseSector(r)
  BY <1>3 DEF EraseSector
<1>4. CASE \E r \in ProgramOutcomes : ProgramSector(r)
  BY <1>4 DEF ProgramSector
<1>5. CASE \E r \in Outcomes : ProgramSize(r)
  BY <1>5 DEF ProgramSize
<1>6. CASE \E r \in Outcomes : ProgramState(r)
  BY <1>6 DEF ProgramState
<1>7. CASE \E r \in Outcomes : ClearRecord(r)
  BY <1>7 DEF ClearRecord
<1>8. CASE \E r \in Outcomes : StageMark(r)
  BY <1>8 DEF StageMark
<1>9. CASE \E r \in Outcomes : FoeData(r)
  BY <1>9 DEF FoeData
<1>10. CASE \E r \in Outcomes : StageState(r)
  BY <1>10 DEF StageState
<1>11. CASE \E r \in Outcomes : \E i \in Images : FoeWrite(i, r)
  BY <1>11 DEF FoeWrite
<1>12. CASE \E r \in ProgramOutcomes : StageProgram(r)
  BY <1>12 DEF StageProgram
<1>13. CASE UNCHANGED flash
  BY <1>13 DEF flash
<1> QED
  BY FlashSteps, <1>1, <1>2, <1>3, <1>4, <1>5, <1>6, <1>7, <1>8, <1>9, <1>10,
     <1>11, <1>12, <1>13

\* Only these steps touch the verdict.
LEMMA VerdictFrame ==
    ASSUME TypeOK, [Next]_vars, told' # told
    PROVE  \/ told' = None /\ pc = "reset" /\ Committed
           \/ told' = Busy /\ pc = "dfu"
           \/ /\ told' = img /\ img \in Images /\ pc = "state"
              /\ meta' = [meta EXCEPT ![lslot] = Ready(pos)] /\ UNCHANGED app
<1>1. CASE Boot
  BY <1>1 DEF Boot, TypeOK, Landed
<1>2. CASE \E r \in Outcomes : EraseMetadata(r)
  BY <1>2 DEF EraseMetadata, TypeOK, Landed
<1>3. CASE \E r \in Outcomes : MarkSlot(r)
  BY <1>3 DEF MarkSlot, TypeOK, Landed
<1>4. CASE \E r \in Outcomes : EraseSector(r)
  BY <1>4 DEF EraseSector, TypeOK, Landed
<1>5. CASE \E r \in Outcomes : ProgramSize(r)
  BY <1>5 DEF ProgramSize, TypeOK, Landed
<1>6. CASE \E r \in Outcomes : ProgramState(r)
  BY <1>6 DEF ProgramState, TypeOK, Landed
<1>7. CASE \E r \in Outcomes : ClearRecord(r)
  BY <1>7 DEF ClearRecord, TypeOK, Landed
<1>8. CASE \E r \in ProgramOutcomes : ProgramSector(r)
  BY <1>8 DEF ProgramSector, TypeOK, Landed
<1>9. CASE ReuseMarker
  BY <1>9 DEF ReuseMarker, TypeOK, Landed
<1>10. CASE MarkRefused
  BY <1>10 DEF MarkRefused, TypeOK, Landed
<1>11. CASE SkipSector
  BY <1>11 DEF SkipSector, TypeOK, Landed
<1>12. CASE FinishRefused
  BY <1>12 DEF FinishRefused, TypeOK, Landed
<1>13. CASE Check
  BY <1>13 DEF Check, TypeOK, Landed
<1>14. CASE Decide
  BY <1>14 DEF Decide, TypeOK, Landed
<1>15. CASE DfuBlock
  BY <1>15 DEF DfuBlock, TypeOK, Landed
<1>16. CASE DfuAbort
  BY <1>16 DEF DfuAbort, TypeOK, Landed
<1>17. CASE Manifest
  BY <1>17 DEF Manifest, TypeOK, Landed
<1>18. CASE Detach
  BY <1>18 DEF Detach, TypeOK, Landed
<1>19. CASE \E i \in Images : DfuStart(i)
  BY <1>19 DEF DfuStart, TypeOK, Landed
<1>20. CASE \E r \in Outcomes : StageMark(r)
  BY <1>20 DEF StageMark, TypeOK, Landed
<1>21. CASE \E r \in Outcomes : FoeData(r)
  BY <1>21 DEF FoeData, TypeOK, Landed
<1>22. CASE \E r \in Outcomes : StageSize(r)
  BY <1>22 DEF StageSize, TypeOK, Landed
<1>23. CASE \E r \in Outcomes : StageState(r)
  BY <1>23 DEF StageState, TypeOK, Landed
<1>24. CASE \E r \in Outcomes : \E i \in Images : FoeWrite(i, r)
  BY <1>24 DEF FoeWrite, TypeOK, Landed
<1>25. CASE \E r \in ProgramOutcomes : StageProgram(r)
  BY <1>25 DEF StageProgram, TypeOK, Landed
<1>26. CASE LeaveBoot
  BY <1>26 DEF LeaveBoot, TypeOK, Landed
<1>27. CASE BootHeld
  BY <1>27 DEF BootHeld, TypeOK, Landed
<1>28. CASE RebootToDfu
  BY <1>28 DEF RebootToDfu, TypeOK, Landed
<1>29. CASE PowerCycle
  BY <1>29 DEF PowerCycle, TypeOK, Landed
<1>30. CASE UNCHANGED vars
  BY <1>30 DEF vars, ram, flash, slotVars, session
<1> QED
  BY NextSteps, <1>1, <1>2, <1>3, <1>4, <1>5, <1>6, <1>7, <1>8, <1>9, <1>10,
     <1>11, <1>12, <1>13, <1>14, <1>15, <1>16, <1>17, <1>18, <1>19, <1>20,
     <1>21, <1>22, <1>23, <1>24, <1>25, <1>26, <1>27, <1>28, <1>29, <1>30

\* A program that runs, or is downloading, leaves the application alone.
LEMMA RunningStep == ASSUME TypeOK, Session, Beyond, Running, [Next]_vars PROVE Running'
<1>1. CASE pc \in AppPcs /\ pc' \in AppPcs
  <2>1. UNCHANGED <<meta, app>>
    BY <1>1, AppFrame DEF AppPcs
  <2> QED
    BY <1>1, <2>1, SameApp DEF Running
<1>2. CASE pc \notin AppPcs /\ pc' \in AppPcs
  <2>1. Decide
    <3>1. CASE Boot
      BY <1>2, <3>1 DEF Boot, AppPcs, Op, Reset, Abandon, EndSession,
         slotVars, session, flash, Opened, Written
    <3>2. CASE \E r \in Outcomes : EraseMetadata(r)
      BY <1>2, <3>2 DEF EraseMetadata, AppPcs, Op, Reset, Abandon,
         EndSession, slotVars, session, flash, Opened, Written
    <3>3. CASE \E r \in Outcomes : MarkSlot(r)
      BY <1>2, <3>3 DEF MarkSlot, AppPcs, Op, Reset, Abandon, EndSession,
         slotVars, session, flash, Opened, Written
    <3>4. CASE \E r \in Outcomes : EraseSector(r)
      BY <1>2, <3>4 DEF EraseSector, AppPcs, Op, Reset, Abandon,
         EndSession, slotVars, session, flash, Opened, Written
    <3>5. CASE \E r \in Outcomes : ProgramSize(r)
      BY <1>2, <3>5 DEF ProgramSize, AppPcs, Op, Reset, Abandon,
         EndSession, slotVars, session, flash, Opened, Written
    <3>6. CASE \E r \in Outcomes : ProgramState(r)
      BY <1>2, <3>6 DEF ProgramState, AppPcs, Op, Reset, Abandon,
         EndSession, slotVars, session, flash, Opened, Written
    <3>7. CASE \E r \in Outcomes : ClearRecord(r)
      BY <1>2, <3>7 DEF ClearRecord, AppPcs, Op, Reset, Abandon,
         EndSession, slotVars, session, flash, Opened, Written
    <3>8. CASE \E r \in ProgramOutcomes : ProgramSector(r)
      BY <1>2, <3>8 DEF ProgramSector, AppPcs, Op, Reset, Abandon,
         EndSession, slotVars, session, flash, Opened, Written
    <3>9. CASE ReuseMarker
      BY <1>2, <3>9 DEF ReuseMarker, AppPcs, Op, Reset, Abandon,
         EndSession, slotVars, session, flash, Opened, Written
    <3>10. CASE MarkRefused
      BY <1>2, <3>10 DEF MarkRefused, AppPcs, Op, Reset, Abandon,
         EndSession, slotVars, session, flash, Opened, Written
    <3>11. CASE SkipSector
      BY <1>2, <3>11 DEF SkipSector, AppPcs, Op, Reset, Abandon,
         EndSession, slotVars, session, flash, Opened, Written
    <3>12. CASE FinishRefused
      BY <1>2, <3>12 DEF FinishRefused, AppPcs, Op, Reset, Abandon,
         EndSession, slotVars, session, flash, Opened, Written
    <3>13. CASE Check
      BY <1>2, <3>13 DEF Check, AppPcs, Op, Reset, Abandon, EndSession,
         slotVars, session, flash, Opened, Written
    <3>14. CASE DfuBlock
      BY <1>2, <3>14 DEF DfuBlock, AppPcs, Op, Reset, Abandon, EndSession,
         slotVars, session, flash, Opened, Written
    <3>15. CASE DfuAbort
      BY <1>2, <3>15 DEF DfuAbort, AppPcs, Op, Reset, Abandon, EndSession,
         slotVars, session, flash, Opened, Written
    <3>16. CASE Manifest
      BY <1>2, <3>16 DEF Manifest, AppPcs, Op, Reset, Abandon, EndSession,
         slotVars, session, flash, Opened, Written
    <3>17. CASE Detach
      BY <1>2, <3>17 DEF Detach, AppPcs, Op, Reset, Abandon, EndSession,
         slotVars, session, flash, Opened, Written
    <3>18. CASE \E i \in Images : DfuStart(i)
      BY <1>2, <3>18 DEF DfuStart, AppPcs, Op, Reset, Abandon, EndSession,
         slotVars, session, flash, Opened, Written
    <3>19. CASE \E r \in Outcomes : StageMark(r)
      BY <1>2, <3>19 DEF StageMark, AppPcs, Op, Reset, Abandon,
         EndSession, slotVars, session, flash, Opened, Written
    <3>20. CASE \E r \in Outcomes : FoeData(r)
      BY <1>2, <3>20 DEF FoeData, AppPcs, Op, Reset, Abandon, EndSession,
         slotVars, session, flash, Opened, Written
    <3>21. CASE \E r \in Outcomes : StageSize(r)
      BY <1>2, <3>21 DEF StageSize, AppPcs, Op, Reset, Abandon,
         EndSession, slotVars, session, flash, Opened, Written
    <3>22. CASE \E r \in Outcomes : StageState(r)
      BY <1>2, <3>22 DEF StageState, AppPcs, Op, Reset, Abandon,
         EndSession, slotVars, session, flash, Opened, Written
    <3>23. CASE \E r \in Outcomes : \E i \in Images : FoeWrite(i, r)
      BY <1>2, <3>23 DEF FoeWrite, AppPcs, Op, Reset, Abandon, EndSession,
         slotVars, session, flash, Opened, Written
    <3>24. CASE \E r \in ProgramOutcomes : StageProgram(r)
      BY <1>2, <3>24 DEF StageProgram, AppPcs, Op, Reset, Abandon,
         EndSession, slotVars, session, flash, Opened, Written
    <3>25. CASE LeaveBoot
      BY <1>2, <3>25 DEF LeaveBoot, AppPcs, Op, Reset, Abandon,
         EndSession, slotVars, session, flash, Opened, Written
    <3>26. CASE BootHeld
      BY <1>2, <3>26 DEF BootHeld, AppPcs, Op, Reset, Abandon, EndSession,
         slotVars, session, flash, Opened, Written
    <3>27. CASE RebootToDfu
      BY <1>2, <3>27 DEF RebootToDfu, AppPcs, Op, Reset, Abandon,
         EndSession, slotVars, session, flash, Opened, Written
    <3>28. CASE PowerCycle
      BY <1>2, <3>28 DEF PowerCycle, AppPcs, Op, Reset, Abandon,
         EndSession, slotVars, session, flash, Opened, Written
    <3>29. CASE UNCHANGED vars
      BY <1>2, <3>29 DEF vars, ram
    <3> QED
      BY NextSteps, <3>1, <3>2, <3>3, <3>4, <3>5, <3>6, <3>7, <3>8, <3>9,
         <3>10, <3>11, <3>12, <3>13, <3>14, <3>15, <3>16, <3>17, <3>18,
         <3>19, <3>20, <3>21, <3>22, <3>23, <3>24, <3>25, <3>26, <3>27,
         <3>28, <3>29
  <2>2. /\ lstate = "Ready" /\ meta[lslot].st = "Ready" /\ ValidAt(app, meta[lslot].size)
        /\ UNCHANGED <<meta, app>>
    BY <1>2, <2>1 DEF Decide, AppPcs, flash
  <2>3. Gap \/ \E i \in Images : AppIs(i)
    BY <2>2, JumpsToFound
  <2> QED
    BY <2>2, <2>3, SameApp DEF Running
<1>3. CASE pc' \notin AppPcs
  BY <1>3 DEF Running, AppPcs
<1> QED
  BY <1>1, <1>2, <1>3

\* A verdict is only given for what a scan will find.
LEMMA VerdictStep ==
    ASSUME TypeOK, TypeOK', Session, Beyond, Checked, Unjudged, DfuVerdict, [Next]_vars
    PROVE  DfuVerdict'
<1> SUFFICES ASSUME NEW i \in Images, told' = i, ~Gap' PROVE AppIs(i)'
  BY DEF DfuVerdict
<1>1. CASE told' # told
  <2>1. /\ pc = "state" /\ img = i
        /\ meta' = [meta EXCEPT ![lslot] = Ready(pos)] /\ UNCHANGED app
    BY <1>1, VerdictFrame, Sizes
  <2>2. ImageAt(i, app, pos)
    BY <2>1, Sizes DEF Checked
  <2> QED
    BY <2>1, <2>2, SlotFilled
<1>2. CASE told' = told
  <2>1. pc \notin Writing \cup {"begin"}
    BY <1>2, Sizes DEF Unjudged
  <2>2. UNCHANGED <<meta, app>>
    BY <2>1, AppFrame DEF Writing
  <2> QED
    BY <1>2, <2>2, SameApp DEF DfuVerdict
<1> QED
  BY <1>1, <1>2

\* Installing never changes what the next boots end up with.
LEMMA TransparentStep ==
    ASSUME TypeOK, Session, Installing, Clearing, [Next]_vars, pc \in BootPcs, img = None
    PROVE  \A i \in Images : NextIs(i)' <=> NextIs(i)
<1>1. CASE UNCHANGED flash
  BY <1>1, SameApp, SameRecord DEF flash, NextIs
<1>2. CASE pc \in Installs /\ UNCHANGED <<stg, srec>>
  BY <1>2, SameRecord DEF NextIs, Installing
<1>3. CASE \E r \in Outcomes : ClearRecord(r)
  <2>1. UNCHANGED <<meta, app, stg>> /\ pc = "clear"
    BY <1>3 DEF ClearRecord
  <2>2. srec' = srec \/ ~Committed'
    BY <1>3, Slots DEF ClearRecord, Landed, TornRecord, Committed,
       CommittedImage, ValidAt
  <2>3. CASE srec' = srec
    BY <2>1, <2>3, SameApp, SameRecord DEF NextIs
  <2>4. CASE ~Committed'
    <3>1. ASSUME NEW i \in Images PROVE NextIs(i)' <=> AppIs(i)
      BY <2>1, <2>4, SameApp DEF NextIs, Committed
    <3>2. ASSUME NEW i \in Images PROVE NextIs(i) <=> AppIs(i)
      <4>1. CASE ~Committed
        BY <4>1 DEF NextIs, Committed
      <4>2. CASE Committed
        <5>1. PICK j \in Images : CommittedImage(j)
          BY <4>2 DEF Committed
        <5>2. AppIs(j)
          BY <2>1, <5>1 DEF Clearing
        <5>3. AppIs(i) => i = j
          BY <5>2, OneImage DEF AppIs
        <5> QED
          BY <2>1, <4>2, <5>1, <5>3 DEF NextIs, Clearing
      <4> QED
        BY <4>1, <4>2
    <3> QED
      BY <3>1, <3>2
  <2> QED
    BY <2>2, <2>3, <2>4
<1>4. CASE \/ \E r \in Outcomes : EraseMetadata(r) \/ MarkSlot(r) \/ EraseSector(r)
           \/ \E r \in ProgramOutcomes : ProgramSector(r)
           \/ \E r \in Outcomes : ProgramSize(r) \/ ProgramState(r)
  <2>1. pc \in Installs /\ UNCHANGED <<stg, srec>>
    BY <1>4 DEF EraseMetadata, MarkSlot, EraseSector, ProgramSector,
       ProgramSize,
                ProgramState, Installs
  <2> QED
    BY <2>1, <1>2
<1>5. ASSUME NEW r, NEW i PROVE ~(\/ StageMark(r) \/ FoeData(r) \/ StageState(r)
                                 \/ FoeWrite(i, r) \/ StageProgram(r))
  BY DEF StageMark, FoeData, StageState, FoeWrite, StageProgram, BootPcs
<1> QED
  BY <1>1, <1>3, <1>4, <1>5, FlashSteps

\* What is found is recoverable.
LEMMA FoundNext ==
    (Gap \/ (\E i \in Images : AppIs(i)) => Recoverable)'
<1>1. Gap \/ (\E i \in Images : AppIs(i)) => Recoverable
  BY DEF Recoverable, NextIs, Committed
<1> QED
  BY <1>1, PTL

(* Every step leaves an application, or a gap that can be refilled.        *)
LEMMA RecoverableStep ==
    ASSUME TypeOK, TypeOK', Struct, Meaning, DfuVerdict', [Next]_vars
    PROVE  Recoverable'
<1>1. CASE told' \in Images
  <2>1. Gap' \/ \E i \in Images : AppIs(i)'
    BY <1>1 DEF DfuVerdict
  <2> QED
    BY <2>1, FoundNext
<1>2. CASE told' = Busy
  BY <1>2 DEF Recoverable
<1>3. CASE told' \notin Images /\ told' # Busy /\ pc \in BootPcs /\ img = None
  <2>1. \A i \in Images : NextIs(i)' <=> NextIs(i)
    BY <1>3, TransparentStep DEF Struct, Meaning
  <2>2. CASE \E i \in Images : NextIs(i)
    BY <2>1, <2>2 DEF Recoverable
  <2>3. CASE ~\E i \in Images : NextIs(i)
    <3>1. ~Committed
      BY <2>3 DEF NextIs, Committed
    <3>2. pc \notin Installs /\ pc # "check"
      BY <1>3, <3>1 DEF Struct, Installing, Session
    <3>3. UNCHANGED <<meta, app>>
      BY <3>2, AppFrame DEF Installs
    <3>4. told' = told
      BY <1>3, <3>1, <3>2, VerdictFrame DEF Installs
    <3> QED
      BY <1>3, <2>3, <3>3, <3>4, SameApp DEF Meaning, Recoverable
  <2> QED
    BY <2>2, <2>3
<1>4. CASE told' \notin Images /\ told' # Busy /\ (pc \in BootPcs \/ pc = "dfu") /\ img # None
  <2>1. told = Busy
    BY <1>4 DEF Struct, Session, Meaning, Unjudged, Writing, BootPcs
  <2>2. told' = Busy \/ told' \in Images
    BY <1>4, <2>1, VerdictFrame DEF Struct, Session
  <2> QED
    BY <1>4, <2>2
<1>5. CASE told' \notin Images /\ told' # Busy /\ pc = "dfu" /\ img = None
  <2>1. UNCHANGED flash
    <3>1. CASE \E r \in Outcomes : EraseMetadata(r)
      BY <1>5, <3>1 DEF EraseMetadata
    <3>2. CASE \E r \in Outcomes : MarkSlot(r)
      BY <1>5, <3>2 DEF MarkSlot
    <3>3. CASE \E r \in Outcomes : EraseSector(r)
      BY <1>5, <3>3 DEF EraseSector
    <3>4. CASE \E r \in ProgramOutcomes : ProgramSector(r)
      BY <1>5, <3>4 DEF ProgramSector
    <3>5. CASE \E r \in Outcomes : ProgramSize(r)
      BY <1>5, <3>5 DEF ProgramSize
    <3>6. CASE \E r \in Outcomes : ProgramState(r)
      BY <1>5, <3>6 DEF ProgramState
    <3>7. CASE \E r \in Outcomes : ClearRecord(r)
      BY <1>5, <3>7 DEF ClearRecord
    <3>8. CASE \E r \in Outcomes : StageMark(r)
      BY <1>5, <3>8 DEF StageMark
    <3>9. CASE \E r \in Outcomes : FoeData(r)
      BY <1>5, <3>9 DEF FoeData
    <3>10. CASE \E r \in Outcomes : StageState(r)
      BY <1>5, <3>10 DEF StageState
    <3>11. CASE \E r \in Outcomes : \E i \in Images : FoeWrite(i, r)
      BY <1>5, <3>11 DEF FoeWrite
    <3>12. CASE \E r \in ProgramOutcomes : StageProgram(r)
      BY <1>5, <3>12 DEF StageProgram
    <3>13. CASE UNCHANGED flash
      BY <1>5, <3>13 DEF flash
    <3> QED
      BY FlashSteps, <3>1, <3>2, <3>3, <3>4, <3>5, <3>6, <3>7, <3>8, <3>9,
         <3>10, <3>11, <3>12, <3>13
  <2>2. told' = told
    BY <1>5, VerdictFrame
  <2>3. \A i \in Images : NextIs(i)' <=> NextIs(i)
    BY <2>1, SameApp, SameRecord DEF flash, NextIs
  <2> QED
    BY <1>5, <2>1, <2>2, <2>3, SameApp DEF flash, Meaning, Recoverable
<1>6. CASE pc \in AppPcs
  <2>1. UNCHANGED <<meta, app>>
    BY <1>6, AppFrame DEF AppPcs
  <2>2. Gap' \/ \E i \in Images : AppIs(i)'
    BY <1>6, <2>1, SameApp DEF Meaning, Running
  <2> QED
    BY <2>2, FoundNext
<1> QED
  BY <1>1, <1>2, <1>3, <1>4, <1>5, <1>6 DEF TypeOK

-----------------------------------------------------------------------------
\* The flash as it leaves the factory.
LEMMA InitInv == Init => IInv
<1> SUFFICES ASSUME Init PROVE IInv
  OBVIOUS
<1>1. Size[First] \in Sectors /\ First \in Images /\ 1 \in 1..NSlots
  BY Sizes DEF Sectors
<1>2. TypeOK
  <2>1. FlashType
    BY <1>1, Slots DEF Init, FlashType
  <2>2. PlaceType /\ DataType
    BY Sizes DEF Init, PlaceType, DataType, BootPcs
  <2>3. FlagType
    BY DEF Init, FlagType
  <2> QED
    BY <2>1, <2>2, <2>3, TypeParts
<1>3. Struct
  BY DEF Init, Struct, Session, Beyond, Installing, Installs, Copied, Writing
<1>4. AppIs(First)
  <2>1. meta[1] = Ready(Size[First]) /\ \A t \in (1+1)..NSlots : meta[t] = Empty
    BY Sizes DEF Init
  <2>2. meta[1].st = "Ready" /\ meta[1].size = Size[First]
    BY <1>1, <2>1, Slots
  <2>3. ImageAt(First, app, meta[1].size)
    BY <1>1, <2>2, Sizes DEF Init, ImageAt, Sectors
  <2> QED
    BY <1>1, <1>2, <2>1, <2>2, <2>3, AppThere
<1>5. Checked /\ Unjudged /\ Clearing /\ Running /\ DfuVerdict
  BY Sizes DEF Init, Checked, Unjudged, Writing, Clearing, Running, AppPcs,
     DfuVerdict
<1>6. Recoverable
  BY <1>1, <1>4 DEF Recoverable, NextIs, Committed
<1> QED
  BY <1>2, <1>3, <1>5, <1>6 DEF IInv, Meaning

(* Every step keeps the inductive invariant.                               *)
LEMMA StepInv == IInv /\ [Next]_vars => IInv'
<1> SUFFICES ASSUME IInv, [Next]_vars PROVE IInv'
  OBVIOUS
<1>1. /\ TypeOK /\ Session /\ Beyond /\ Installing /\ Copied /\ Struct
      /\ Checked /\ Unjudged /\ Clearing /\ Running /\ DfuVerdict /\ Meaning
  BY DEF IInv, Struct, Meaning
<1>2. TypeOK'
  BY <1>1, TypeStep
<1>3. Session' /\ Beyond' /\ Installing' /\ Copied'
  BY <1>1, SessionStep, BeyondStep, InstallingStep, CopiedStep
<1>4. Checked' /\ Unjudged' /\ Running'
  BY <1>1, CheckedStep, UnjudgedStep, RunningStep
<1>5. Clearing' /\ DfuVerdict'
  BY <1>1, <1>2, ClearingStep, VerdictStep
<1>6. Recoverable'
  BY <1>1, <1>2, <1>5, RecoverableStep
<1> QED
  BY <1>2, <1>3, <1>4, <1>5, <1>6 DEF IInv, Struct, Meaning

\* The inductive invariant holds in every reachable state.
THEOREM Invariance == Spec => []IInv
  BY InitInv, StepInv, PTL DEF Spec

\* Every reachable state is well-typed (Metadata's pointer and state agree).
THEOREM TypeCorrect == Spec => []TypeOK
<1>1. IInv => TypeOK
  BY DEF IInv
<1> QED
  BY <1>1, Invariance, PTL

\* Wherever power is lost and whatever flash operation fails, the next boots
\* find a firmware, except after a DFU download begun or a gap in the slots.
THEOREM AlwaysRecoverable == Spec => []Recoverable
<1>1. IInv => Recoverable
  BY DEF IInv, Meaning
<1> QED
  BY <1>1, Invariance, PTL

\* What DFU reported as done is in flash, valid, and found by the next scan,
\* unless there is a gap in the slots.
THEOREM VerdictTrue == Spec => []DfuVerdict
<1>1. IInv => DfuVerdict
  BY DEF IInv, Meaning
<1> QED
  BY <1>1, Invariance, PTL

\* No step of an installation changes the firmware the next boots end up with.
THEOREM Transparent == Spec => InstallTransparent
<1>1. IInv /\ [Next]_vars => [img = None /\ pc \in BootPcs
          => \A i \in Images : NextIs(i)' = NextIs(i)]_vars
  <2> SUFFICES ASSUME IInv, [Next]_vars, img = None, pc \in BootPcs, NEW i \in Images
               PROVE  NextIs(i)' = NextIs(i)
    OBVIOUS
  <2>1. NextIs(i)' <=> NextIs(i)
    BY TransparentStep DEF IInv, Struct, Meaning
  <2>2. NextIs(i) \in BOOLEAN /\ NextIs(i)' \in BOOLEAN
    BY DEF NextIs
  <2> QED
    BY <2>1, <2>2
<1> QED
  BY <1>1, Invariance, PTL DEF Spec, InstallTransparent

=============================================================================
