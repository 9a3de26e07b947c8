------------------------------- MODULE NVData -------------------------------
(***************************************************************************)
(* The non volatile storage of the control board (Service/all/NVData) and  *)
(* the brown-out monitor that triggers it (Common/acu/BrownOut).           *)
(*                                                                         *)
(* Two flash pages hold copies of the appliance and statistics segments of *)
(* the RAM behind a header with a counter and one CRC per segment.  A      *)
(* store writes the page Next_Store_Address points at and flips the        *)
(* pointer; a boot erases the page the next store will use; a cold boot    *)
(* first restores the RAM from the page with the higher counter.           *)
(*                                                                         *)
(* A store runs with interrupts disabled and the scheduler suspended, so   *)
(* no thread interleaves with it; what can cut it is the loss of power,    *)
(* between any two flash operations or in the middle of one (PowerLost).   *)
(* Only the erases of Recover are outside that section, and in the ERROR   *)
(* state the handler does nothing, so a store is one call here all along.  *)
(*                                                                         *)
(* Abstractions.  A segment is one value; its CRC is the value itself (no  *)
(* CRC collision).  A segment that could not be restored counts as zero:   *)
(* its owners reset it (Statistics.c:248, Supervisor.c:550).  Erasing      *)
(* always succeeds; a write fails on a page that is not erased and, up to  *)
(* MaxFaults times, for no reason.                                         *)
(***************************************************************************)
EXTENDS Integers

CONSTANTS
    Values,         \* the values a segment takes in RAM, 0 the reset value
    Firmwares,      \* the firmware images the board may run, 1..n
    RecoverTicks,   \* BROWNOUT_RECOVER_FILTER_MS in ticks of the monitor
    MaxCounter,     \* bound: stores between two blank boots
    MaxFaults       \* bound: flash writes that fail on an erased page

ASSUME ValuesAssumption == 0 \in Values /\ Values \subseteq Nat
ASSUME FirmwaresAssumption == 1 \in Firmwares /\ Firmwares \subseteq Nat \ {0}
ASSUME BoundsAssumption ==
    RecoverTicks \in 1 .. 65535 /\ MaxCounter \in Nat /\ MaxFaults \in Nat

VARIABLES
    page,       \* the two flash pages, by page number
    next,       \* Next_Store_Address
    counter,    \* NVData_Header.Signature_Counter
    ram,        \* the appliance and statistics segments
    status,     \* NVData_Status
    state,      \* Nvdata_State
    brownout,   \* NVData_BrownOut (and Brown_Out_Detected)
    monitor,    \* Brown_Out_State
    filter,     \* Brown_Out_Recover_Filter, in ticks
    line,       \* the supply: "low" (<= 950), "mid", "high" (> 1100)
    pc,         \* what the processor is doing
    caller,     \* who called the store in progress
    firmware,   \* the image in program flash
    faults,     \* flash writes that have failed so far
    kept,       \* history: the segments of the last complete store, or those
                \* the last cold boot has read
    tried,      \* history: the segments of the last store begun, or the same
    fresh,      \* history: no boot has ended since that store began
    failed      \* history: the last store since the last cold boot failed

flash == <<page, faults>>
header == <<next, counter>>
supply == <<brownout, monitor, filter>>
history == <<kept, tried, fresh, failed>>
\* what the flash operations of a boot or a store leave alone
board == <<ram, status, state, supply, line, caller, firmware>>
vars == <<page, next, counter, ram, status, state, brownout, monitor, filter,
          line, pc, caller, firmware, faults, kept, tried, fresh, failed>>

-----------------------------------------------------------------------------
(* The flash. *)

Garbage == -1
NoPage == 2                       \* Next_Store_Address = 0xFFFFFFFF
Other(p) == 1 - p
FilterWidth == 65536              \* Brown_Out_Recover_Filter is a uint16
CounterWidth == 65536             \* Signature_Counter is a uint16

\* The appliance segment: the owners' data, the flag that asks for its loss
\* at the next restore, and the firmware and setting file it was made by.
Appliance == [val : Values \cup {Garbage}, force : BOOLEAN,
              fw : Firmwares \cup {0}]
BlankAppliance(fw) == [val |-> 0, force |-> FALSE, fw |-> fw]
ZeroAppliance == BlankAppliance(0)
GarbledAppliance == [val |-> Garbage, force |-> FALSE, fw |-> 0]
Segments == [app : Appliance, stat : Values \cup {Garbage}]

Signatures == {"erased", "init", "good", "torn"}
Page == [sig : Signatures, counter : 0 .. CounterWidth - 1,
         appCrc : Appliance, statCrc : Values \cup {Garbage},
         app : Appliance, stat : Values \cup {Garbage}]
Erased == [sig |-> "erased", counter |-> 0,
           appCrc |-> GarbledAppliance, statCrc |-> Garbage,
           app |-> GarbledAppliance, stat |-> Garbage]
Torn == [Erased EXCEPT !.sig = "torn"]

\* What an erase cut by the loss of power leaves behind: any part of the page
\* may have lost its contents.
Remains(p) ==
    {[p EXCEPT !.sig = s, !.app = a, !.stat = d] :
        s \in {p.sig, "torn"}, a \in {p.app, GarbledAppliance},
        d \in {p.stat, Garbage}}

FlushPage(p) == page' = [page EXCEPT ![p] = Erased]

-----------------------------------------------------------------------------
(* Restoring. *)

Restored == {"OKAY", "OKAY_BACKUP", "CORRUPTED"}

\* Mutant: the page with the lower counter wins.
LowestCounterPage ==
    CASE page[0].sig = "good" /\ page[1].sig = "good" ->
            IF page[1].counter < page[0].counter THEN 1 ELSE 0
      [] page[0].sig = "good" /\ page[1].sig # "good" -> 0
      [] page[0].sig # "good" /\ page[1].sig = "good" -> 1
      [] OTHER -> NoPage

\* The page Restore reads first and the page it falls back on, as the boot
\* chooses them from the two headers (NoPage where there is none).
NewestPage ==
    CASE page[0].sig = "good" /\ page[1].sig = "good" ->
            IF page[1].counter > page[0].counter THEN 1 ELSE 0
      [] page[0].sig = "good" /\ page[1].sig # "good" -> 0
      [] page[0].sig # "good" /\ page[1].sig = "good" -> 1
      [] OTHER -> NoPage

BackupPage ==
    IF page[0].sig = "good" /\ page[1].sig = "good"
    THEN Other(NewestPage) ELSE NoPage

\* The one page that is left counts as a backup, unless the other one was
\* never written since the flash was blank.
OnlyCopy ==
    /\ NewestPage # NoPage
    /\ BackupPage = NoPage
    /\ ~ (NewestPage = 0 /\ page[1].sig = "init")

\* Mutant: the only copy left counts as restored.
NeverDemoted(s) == s

Demoted(s) == IF OnlyCopy /\ s = "OKAY" THEN "OKAY_BACKUP" ELSE s

\* The appliance segment as read, and how it was restored.
ReadAppliance ==
    LET n == page[NewestPage]
        b == page[BackupPage]
    IN  IF n.app = n.appCrc
        THEN [seg |-> n.app, how |-> "OKAY"]
        ELSE IF BackupPage # NoPage /\ b.app = b.appCrc
        THEN [seg |-> b.app, how |-> "OKAY_BACKUP"]
        ELSE [seg |-> GarbledAppliance, how |-> "CORRUPTED"]

\* Mutant: the request to corrupt the segment is not looked at.
RestoreForgetsForce ==
    LET r == ReadAppliance
        discard == r.seg.fw # firmware \/ r.how = "CORRUPTED"
    IN  IF discard
        THEN [seg |-> BlankAppliance(firmware),
              how |-> "CORRUPTED"]
        ELSE r

\* ... after the forced corruption and the check of the firmware.
RestoreAppliance ==
    LET r == ReadAppliance
        discard == r.seg.force \/ r.seg.fw # firmware
                   \/ r.how = "CORRUPTED"
    IN  IF discard
        THEN [seg |-> BlankAppliance(firmware),
              how |-> "CORRUPTED"]
        ELSE r

\* The statistics: the backup is compared with the CRC of the newest header.
RestoreStatistics ==
    LET n == page[NewestPage]
        b == page[BackupPage]
    IN  IF n.stat = n.statCrc
        THEN [seg |-> n.stat, how |-> "OKAY"]
        ELSE IF BackupPage # NoPage /\ b.stat = n.statCrc
        THEN [seg |-> b.stat, how |-> "OKAY_BACKUP"]
        ELSE [seg |-> 0, how |-> "CORRUPTED"]

NothingRead == [app |-> GarbledAppliance, stat |-> Garbage]

\* Both segments as they have been read, Garbage where they could not be.
ReadBack ==
    IF NewestPage = NoPage THEN NothingRead
    ELSE [app |-> ReadAppliance.seg,
          stat |-> IF RestoreStatistics.how = "CORRUPTED" THEN Garbage
                   ELSE RestoreStatistics.seg]

-----------------------------------------------------------------------------
(* Boot: NVData__Initialize, one step per flash operation. *)

NvdataInitialize == state' = "IDLE" /\ brownout' = FALSE

BrownOutInitialize == monitor' = "INITIALIZE" /\ filter' = RecoverTicks

\* A cold boot restores the RAM from flash.
ColdBoot ==
    /\ pc \in {"off", "cold_reset"}
    /\ pc' = "prepare"
    /\ IF NewestPage = NoPage
       THEN /\ next' = NoPage
            /\ counter' = 0
            /\ ram' = [app |-> BlankAppliance(firmware),
                       stat |-> 0]
            /\ status' = [app |-> "CORRUPTED", stat |-> "CORRUPTED"]
       ELSE /\ next' = Other(NewestPage)
            /\ counter' = page[NewestPage].counter
            /\ ram' = [app |-> RestoreAppliance.seg,
                       stat |-> RestoreStatistics.seg]
            /\ status' = [app |-> Demoted(RestoreAppliance.how),
                          stat |-> Demoted(RestoreStatistics.how)]
    /\ NvdataInitialize
    /\ BrownOutInitialize
    /\ kept' = ReadBack /\ tried' = ReadBack /\ failed' = FALSE
    /\ UNCHANGED <<flash, line, caller, firmware, fresh>>

\* A warm boot keeps the RAM.
WarmBoot ==
    /\ pc \in {"reset", "loader"}
    /\ pc' = "prepare"
    /\ NvdataInitialize
    /\ BrownOutInitialize
    /\ UNCHANGED <<flash, header, ram, status, line, caller, firmware,
                   history>>

\* Not consistent: page 1 is erased and marked, then page 0 is erased.
BlankEraseSecond ==
    /\ pc = "prepare" /\ next = NoPage
    /\ FlushPage(1)
    /\ pc' = "blank_mark"
    /\ UNCHANGED <<header, board, faults, history>>

BlankMark ==
    /\ pc = "blank_mark"
    /\ page' = [page EXCEPT ![1].sig = "init"]
    /\ pc' = "blank_first"
    /\ UNCHANGED <<header, board, faults, history>>

BlankEraseFirst ==
    /\ pc = "blank_first"
    /\ FlushPage(0)
    /\ next' = 0
    /\ counter' = 0
    /\ pc' = "run"
    /\ fresh' = FALSE
    /\ UNCHANGED <<board, faults, kept, tried, failed>>

\* Mutant: the boot erases the page it has restored from.
PreparesOtherPage ==
    /\ pc = "prepare" /\ next # NoPage
    /\ FlushPage(Other(next))
    /\ pc' = "run"
    /\ fresh' = FALSE
    /\ UNCHANGED <<header, board, faults, kept, tried, failed>>

\* Consistent: the page of the next store is made ready.
PreparePage ==
    /\ pc = "prepare" /\ next # NoPage
    /\ FlushPage(next)
    /\ pc' = "run"
    /\ fresh' = FALSE
    /\ UNCHANGED <<header, board, faults, kept, tried, failed>>

-----------------------------------------------------------------------------
(* Storing: NVData__Store and NVData__ForceBlockingStore. *)

Callers == {"none", "handler", "blocking", "lowpower", "iap", "corrupt"}

\* Mutant: the counter is not incremented.
StoreKeepsCounter(c, a) ==
    /\ caller' = c
    /\ ram' = [ram EXCEPT !.app = a]
    /\ tried' = ram'
    /\ fresh' = TRUE
    /\ pc' = "write_header"
    /\ UNCHANGED counter

\* Entry of a store by c of the appliance segment a: the counter and the
\* CRCs are updated.
BeginStore(c, a) ==
    /\ caller' = c
    /\ counter' = (counter + 1) % CounterWidth
    /\ ram' = [ram EXCEPT !.app = a]
    /\ tried' = ram'
    /\ fresh' = TRUE
    /\ pc' = "write_header"

\* A write programs the page only where it is erased.
WriteFailsOnFault ==
    /\ faults < MaxFaults
    /\ faults' = faults + 1

StoreStep(here) ==
    /\ pc = here
    /\ UNCHANGED <<header, board, tried, fresh, failed>>

WriteHeader ==
    /\ StoreStep("write_header")
    /\ page[next].sig = "erased"
    /\ page' = [page EXCEPT ![next].sig = "good", ![next].counter = counter,
                            ![next].appCrc = ram.app,
                            ![next].statCrc = ram.stat]
    /\ pc' = "write_appliance"
    /\ UNCHANGED <<faults, kept>>

\* The page was not erased: nothing is programmed.
WriteHeaderRefused ==
    /\ StoreStep("write_header")
    /\ page[next].sig # "erased"
    /\ pc' = "flip_failed"
    /\ UNCHANGED <<page, faults, kept>>

WriteAppliance ==
    /\ StoreStep("write_appliance")
    /\ page' = [page EXCEPT ![next].app = ram.app]
    /\ pc' = "write_statistics"
    /\ UNCHANGED <<faults, kept>>

WriteStatistics ==
    /\ StoreStep("write_statistics")
    /\ page' = [page EXCEPT ![next].stat = ram.stat]
    /\ pc' = "flip_done"
    /\ kept' = ram
    /\ UNCHANGED faults

\* A write fails on an erased page: what it left there is unusable.
WriteFault ==
    /\ \/ /\ StoreStep("write_header")
          /\ page[next].sig = "erased"
          /\ page' = [page EXCEPT ![next] = Torn]
       \/ /\ \/ StoreStep("write_appliance")
             \/ StoreStep("write_statistics")
          /\ UNCHANGED page
    /\ WriteFailsOnFault
    /\ pc' = "flip_failed"
    /\ UNCHANGED kept

\* Where the caller of NVData__Store goes on: the handler returns, the other
\* callers reset the board or put it to sleep.
AfterStore(c) ==
    CASE c = "handler"  -> "run"
      [] c = "lowpower" -> "asleep"
      [] c = "iap"      -> "loader"
      [] c = "corrupt"  -> "cold_reset"

\* The end of a store that wrote all it had to.
StoreDone ==
    /\ pc = "flip_done"
    /\ next' = Other(next)
    /\ IF caller = "blocking"
       THEN /\ pc' = "flush_next"
            /\ UNCHANGED <<status, state>>
       ELSE /\ status' = [app |-> "OKAY", stat |-> "OKAY"]
            /\ state' = IF state = "STORING" THEN "STORED" ELSE state
            /\ pc' = AfterStore(caller)
    /\ caller' = "none"
    /\ failed' = FALSE
    /\ UNCHANGED <<flash, counter, ram, supply, line, firmware, kept, tried,
                   fresh>>

\* The end of a store of which a write failed: the pointer flips all the same.
StoreFailed ==
    /\ pc = "flip_failed"
    /\ next' = Other(next)
    /\ \/ /\ caller = "blocking"
          /\ pc' = "flush_next" /\ caller' = "none"
          /\ UNCHANGED state
       \/ /\ caller # "blocking" /\ state = "STORING"
          /\ pc' = "recover_first" /\ state' = "ERROR"
          /\ UNCHANGED caller
       \/ /\ caller # "blocking" /\ state # "STORING"
          /\ pc' = AfterStore(caller) /\ caller' = "none"
          /\ UNCHANGED state
    /\ failed' = TRUE
    /\ UNCHANGED <<flash, counter, ram, status, supply, line, firmware, kept,
                   tried, fresh>>

\* NVData__ForceBlockingStore makes the other page ready at once.
BlockingFlush ==
    /\ pc = "flush_next"
    /\ FlushPage(next)
    /\ pc' = "run"
    /\ UNCHANGED <<header, board, faults, history>>

\* Recover: entry function of the ERROR state.
RecoverFirst ==
    /\ pc = "recover_first"
    /\ FlushPage(0)
    /\ pc' = "recover_next"
    /\ UNCHANGED <<header, board, faults, history>>

\* Mutant: the event that ends the recovery is not raised.
RecoverStaysInError ==
    /\ pc = "recover_next"
    /\ FlushPage(next)
    /\ next' = 0
    /\ pc' = AfterStore(caller)
    /\ caller' = "none"
    /\ UNCHANGED <<counter, ram, status, state, supply, line, firmware,
                   faults, history>>

RecoverNext ==
    /\ pc = "recover_next"
    /\ FlushPage(next)
    /\ next' = 0
    /\ state' = "STORING"
    /\ pc' = AfterStore(caller)
    /\ caller' = "none"
    /\ UNCHANGED <<counter, ram, status, supply, line, firmware, faults,
                   history>>

-----------------------------------------------------------------------------
(* The brown-out monitor and the handler, in this order in one 5 ms pass. *)

DetectStablePower ==
    /\ monitor = "INITIALIZE"
    /\ monitor' = IF line = "high" THEN "DETECT" ELSE monitor
    /\ UNCHANGED <<brownout, filter>>

DetectBrownOutEvent ==
    /\ monitor = "DETECT"
    /\ IF line = "low"
       THEN monitor' = "RECOVER" /\ brownout' = TRUE
       ELSE UNCHANGED <<monitor, brownout>>
    /\ UNCHANGED filter

\* Mutant: the filter is signed.
FilterCountsBelowZero ==
    /\ monitor = "RECOVER"
    /\ IF line = "high"
       THEN /\ filter' = filter - 1
            /\ IF filter = 0
               THEN monitor' = "DETECT" /\ brownout' = FALSE
               ELSE UNCHANGED <<monitor, brownout>>
       ELSE /\ filter' = RecoverTicks
            /\ UNCHANGED <<monitor, brownout>>

\* The filter counts on in the pass in which it expires.
DetectBrownOutRecover ==
    /\ monitor = "RECOVER"
    /\ IF line = "high"
       THEN /\ filter' = (filter - 1) % FilterWidth
            /\ IF filter = 0
               THEN monitor' = "DETECT" /\ brownout' = FALSE
               ELSE UNCHANGED <<monitor, brownout>>
       ELSE /\ filter' = RecoverTicks
            /\ UNCHANGED <<monitor, brownout>>

BrownOutMonitor ==
    DetectStablePower \/ DetectBrownOutEvent \/ DetectBrownOutRecover

\* NvdataExecute, with the flag the monitor has just left.
HandlerIdle ==
    /\ state = "IDLE"
    /\ state' = IF brownout' THEN "STORING" ELSE state
    /\ UNCHANGED <<pc, counter, ram, caller, tried, fresh>>

HandlerStoring ==
    /\ state = "STORING"
    /\ BeginStore("handler", ram.app)
    /\ UNCHANGED state

\* Mutant: the return of the power is not looked at.
StoredIgnoresPower ==
    /\ state = "STORED"
    /\ UNCHANGED <<state, pc, counter, ram, caller, tried, fresh>>

HandlerStored ==
    /\ state = "STORED"
    /\ pc' = IF brownout' THEN pc ELSE "reset"
    /\ UNCHANGED <<state, counter, ram, caller, tried, fresh>>

AsynchPass ==
    /\ pc = "run"
    /\ BrownOutMonitor
    /\ HandlerIdle \/ HandlerStoring \/ HandlerStored
    /\ UNCHANGED <<flash, next, status, line, firmware, kept, failed>>

-----------------------------------------------------------------------------
(* The other threads and the environment. *)

\* Some owner of a segment changes its data.
ApplianceChanges ==
    /\ pc = "run"
    /\ \E v \in Values : ram' = [ram EXCEPT !.app.val = v]
    /\ UNCHANGED <<flash, header, status, state, supply, line, pc, caller,
                   firmware, history>>

StatisticsChange ==
    /\ pc = "run"
    /\ \E v \in Values : ram' = [ram EXCEPT !.stat = v]
    /\ UNCHANGED <<flash, header, status, state, supply, line, pc, caller,
                   firmware, history>>

\* A request that stores: going to low power, entering the boot loader,
\* restoring the factory regulations, saving a service test.
RequestStore ==
    /\ pc = "run" /\ counter < MaxCounter
    /\ \/ \E c \in {"blocking", "lowpower", "iap"} : BeginStore(c, ram.app)
       \/ BeginStore("corrupt", [ram.app EXCEPT !.force = TRUE])
    /\ UNCHANGED <<flash, next, status, state, supply, line, firmware, kept,
                   failed>>

\* A cold start: the RAM is initialised (Micro.c:599-601).
RamLost ==
    /\ pc' = "off"
    /\ next' = NoPage
    /\ counter' = 0
    /\ ram' = [app |-> ZeroAppliance, stat |-> 0]
    /\ status' = [app |-> "CORRUPTED", stat |-> "CORRUPTED"]
    /\ NvdataInitialize
    /\ BrownOutInitialize
    /\ caller' = "none"
    /\ line' = "low"

\* The network wakes the board up.
WakeUp ==
    /\ pc = "asleep"
    /\ pc' = "reset"
    /\ UNCHANGED <<flash, header, board, history>>

\* A warm reset that stores nothing: a change of mode, API 9, an exception.
WarmReset ==
    /\ pc = "run"
    /\ pc' = "reset"
    /\ UNCHANGED <<flash, header, ram, status, state, supply, line, caller>>
    /\ UNCHANGED <<firmware, history>>

\* The boot loader has replaced the firmware; the new image boots cold.
FirmwareUpdated ==
    /\ pc = "loader"
    /\ firmware + 1 \in Firmwares
    /\ firmware' = firmware + 1
    /\ RamLost
    /\ UNCHANGED <<flash, history>>

\* The supply is read in a pass only, so only changes between passes count.
LineChanges ==
    /\ pc = "run"
    /\ \E l \in {"low", "mid", "high"} :
          /\ l = "low" => counter < MaxCounter
          /\ line' = l
    /\ UNCHANGED <<flash, header, ram, status, state, supply, pc, caller,
                   firmware, history>>

\* The page an erase in progress is working on.
ErasingPage ==
    CASE pc = "prepare" -> IF next = NoPage THEN 1 ELSE next
      [] pc \in {"blank_first", "recover_first"} -> 0
      [] pc \in {"flush_next", "recover_next"} -> next
      [] OTHER -> NoPage

\* The page whose header is being written.
HeadedPage ==
    CASE pc = "blank_mark" -> 1
      [] pc = "write_header" /\ page[next].sig = "erased" -> next
      [] OTHER -> NoPage

\* The power is lost, or an exception resets the board cold, at any moment;
\* the flash operation in progress leaves its page in any state.
PowerLost ==
    /\ pc # "off"
    /\ RamLost
    /\ \/ UNCHANGED page
       \/ /\ HeadedPage # NoPage
          /\ page' = [page EXCEPT ![HeadedPage] = Torn]
       \/ /\ ErasingPage # NoPage
          /\ \E r \in Remains(page[ErasingPage]) :
                page' = [page EXCEPT ![ErasingPage] = r]
    /\ UNCHANGED <<firmware, faults, history>>

-----------------------------------------------------------------------------
Init ==
    /\ page = [p \in {0, 1} |-> Erased]
    /\ next = NoPage
    /\ counter = 0
    /\ ram = [app |-> ZeroAppliance, stat |-> 0]
    /\ status = [app |-> "CORRUPTED", stat |-> "CORRUPTED"]
    /\ state = "IDLE"
    /\ brownout = FALSE
    /\ monitor = "INITIALIZE"
    /\ filter = RecoverTicks
    /\ line = "low"
    /\ pc = "off"
    /\ caller = "none"
    /\ firmware = 1
    /\ faults = 0
    /\ kept = NothingRead
    /\ tried = NothingRead
    /\ fresh = FALSE
    /\ failed = FALSE

Boot ==
    \/ ColdBoot \/ WarmBoot
    \/ BlankEraseSecond \/ BlankMark \/ BlankEraseFirst
    \/ PreparePage

Store ==
    \/ WriteHeader \/ WriteHeaderRefused \/ WriteAppliance \/ WriteStatistics
    \/ StoreDone \/ StoreFailed \/ BlockingFlush
    \/ RecoverFirst \/ RecoverNext

Next ==
    \/ Boot
    \/ Store \/ WriteFault
    \/ AsynchPass
    \/ ApplianceChanges \/ StatisticsChange
    \/ RequestStore \/ WarmReset \/ WakeUp \/ FirmwareUpdated
    \/ LineChanges \/ PowerLost

Spec == Init /\ [][Next]_vars

-----------------------------------------------------------------------------
(* Fairness: the processor goes on with a boot or a store it has begun, and *)
(* the kernel runs the 5 ms thread (SRMain_prv.h:325).  Nothing is assumed  *)
(* of the supply, the requests or the data.                                 *)

FairSpec == Spec /\ WF_vars(Boot) /\ WF_vars(Store) /\ WF_vars(AsynchPass)

-----------------------------------------------------------------------------
(* Properties. *)

FlashTyped == page \in [{0, 1} -> Page]

HeaderTyped == next \in {0, 1, NoPage} /\ counter \in 0 .. CounterWidth - 1

DataTyped == /\ ram \in Segments
             /\ status \in [app : Restored, stat : Restored]

PowerTyped == /\ state \in {"IDLE", "STORING", "STORED", "ERROR"}
              /\ monitor \in {"INITIALIZE", "DETECT", "RECOVER"}
              /\ filter \in 0 .. FilterWidth - 1

BoardTyped == /\ line \in {"low", "mid", "high"} /\ caller \in Callers
              /\ firmware \in Firmwares

HistoryTyped == kept \in Segments /\ tried \in Segments

FlagsTyped == {brownout, fresh, failed} \subseteq BOOLEAN

\* Every variable has its type.
TypeOK == /\ FlashTyped /\ HeaderTyped /\ DataTyped
          /\ PowerTyped /\ BoardTyped /\ HistoryTyped /\ FlagsTyped

\* A segment reported as restored (OKAY) is that of the last complete store,
\* or of a later store the loss of power cut after it had written the
\* segment; once it has come back it stays so.  It is never an older copy,
\* whichever page holds it and however the boots and stores before were cut
\* (NVData__Initialize, Restore).
OkayIsLastStore ==
    [][ColdBoot =>
        /\ status'.app = "OKAY" =>
              \/ ram'.app = kept.app
              \/ ram'.app = tried.app
        /\ status'.stat = "OKAY" => ram'.stat \in {kept.stat, tried.stat}
      ]_vars

\* OKAY also means that nothing ran since: a board that booted after the
\* store and then lost its power without storing is told OKAY_BACKUP, for the
\* data of that session are lost (the erase of the next page at every boot).
OkayMeansNothingRanSince ==
    [][ColdBoot /\ "OKAY" \in {status'.app, status'.stat} => fresh]_vars

\* The segments of page p are those its header was written for.
Whole(p) == page[p].app = page[p].appCrc /\ page[p].stat = page[p].statCrc

\* The copy of page p is whole and is the last one completed.
HoldsKept(p) ==
    /\ page[p].sig = "good" /\ Whole(p)
    /\ page[p].app = kept.app /\ page[p].stat = kept.stat

CopyInFlash == \E p \in {0, 1} : HoldsKept(p)

\* A boot under way has found the higher counter on a page whose store was
\* cut after its header, or failed: the other page is the next one to erase.
BootsFromCutStore ==
    /\ pc \in {"off", "cold_reset", "prepare"}
    /\ NewestPage # NoPage /\ ~Whole(NewestPage)

\* No step, a loss of power in the middle of an erase or a write included,
\* leaves the flash without the last complete copy, unless a store has failed
\* since the last cold boot or the boot under way finds a store that was cut
\* after its header: it may restore every segment from the other page, but
\* erases that page at once, whether it reports OKAY_BACKUP or CORRUPTED
\* (NVData.c, 405-410).
LastCopySurvives ==
    [][CopyInFlash /\ ~CopyInFlash' => failed \/ BootsFromCutStore]_vars

\* The recover filter never expires before the data are stored: the pass that
\* ends a brown-out always resets the board (CheckForPower), which also
\* clears the filter the same pass has let wrap.
RecoveryResets ==
    [][monitor = "RECOVER" /\ monitor' = "DETECT" => pc' = "reset"]_vars

\* Restoring the factory regulations makes the next boot discard the
\* appliance segment and keep the statistics, if the store succeeded
\* (NVData__SetApplianceSegmentCorrupt: "This does not affect any other
\* segment").
ForcedCorruption ==
    [][ColdBoot /\ pc = "cold_reset" /\ ~failed =>
        status'.app = "CORRUPTED" /\ status'.stat # "CORRUPTED"]_vars

Service == INSTANCE Storage WITH
    up <- pc \notin {"off", "cold_reset"},
    data <- ram, how <- status, durable <- kept,
    Reset <- [app |-> {BlankAppliance(f) : f \in Firmwares}, stat |-> {0}],
    Nothing <- NothingRead

\* The two pages, their counters and the erases at every boot make stores
\* atomic for each segment: what a power up restores, from either page, is of
\* the last complete store or of the one that was cut, and what it has once
\* settled never changes back (NVData__Initialize, NVData__Store).
KeepsData == Service!Spec

\* A brown-out ends with the data stored, unless the power or the board goes
\* first: a failed write is recovered from and tried again.
BrownOutIsStored ==
    brownout ~> \/ state = "STORED"
                \/ pc \in {"off", "cold_reset", "reset", "loader", "asleep"}

\* The statistics are restored from the backup page where the newest page is
\* torn, as the comment of Restore has it ("restore from backup").
StatisticsFallBack ==
    [][ColdBoot /\ BackupPage # NoPage =>
        \/ page[NewestPage].stat = page[NewestPage].statCrc
        \/ page[BackupPage].stat # page[BackupPage].statCrc
        \/ status'.stat = "OKAY_BACKUP"]_vars

=============================================================================
