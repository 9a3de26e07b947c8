----------------------------- MODULE NVDataProofs -----------------------------
(***************************************************************************)
(* Type correctness of the storage and OkayIsLastStore for every value of  *)
(* the constants, as long as the 16-bit counter of the headers has not     *)
(* wrapped.                                                                *)
(***************************************************************************)
EXTENDS NVData, TLAPS

-----------------------------------------------------------------------------
(* Types.                                                                  *)

\* The constants are what the definitions take them for.
LEMMA Constants ==
    /\ 0 \in Values /\ 1 \in Firmwares /\ Firmwares \subseteq Nat
    /\ RecoverTicks \in 0 .. FilterWidth - 1
    /\ FilterWidth = 65536 /\ CounterWidth = 65536
BY ValuesAssumption, FirmwaresAssumption, BoundsAssumption
   DEF ValuesAssumption, FirmwaresAssumption, BoundsAssumption, FilterWidth,
       CounterWidth

\* The segments a reset leaves and the pages an erase leaves have their types.
LEMMA BlankTyped ==
    /\ \A f \in Firmwares \cup {0} : BlankAppliance(f) \in Appliance
    /\ ZeroAppliance \in Appliance /\ GarbledAppliance \in Appliance
    /\ Erased \in Page /\ Torn \in Page
    /\ [app |-> ZeroAppliance, stat |-> 0] \in Segments
<1>1. \A f \in Firmwares \cup {0} : BlankAppliance(f) \in Appliance
  BY Constants DEF BlankAppliance, Appliance
<1>2. ZeroAppliance \in Appliance
  BY <1>1 DEF ZeroAppliance
<1>3. GarbledAppliance \in Appliance
  BY DEF GarbledAppliance, Appliance
<1>4. Erased \in Page
  BY <1>3, Constants DEF Erased, Page, Signatures
<1>5. Torn \in Page
  BY <1>4 DEF Torn, Page, Signatures
<1>6. [app |-> ZeroAppliance, stat |-> 0] \in Segments
  BY <1>2, Constants DEF Segments
<1> QED
  BY <1>1, <1>2, <1>3, <1>4, <1>5, <1>6

\* The steps of a store, and of the recovery from a failed one.
Storing == {"write_header", "write_appliance", "write_statistics",
            "flip_done", "flip_failed"}
Recovering == {"recover_first", "recover_next"}

\* Whenever a store may begin or goes on, the boot has found the page to
\* write; a store has a caller, and the handler stores in STORING only.
Controlled ==
    /\ pc \notin {"off", "prepare", "blank_mark", "blank_first"}
         => next \in {0, 1}
    /\ pc = "off" => next = NoPage
    /\ pc \in Storing => caller # "none"
    /\ pc \in Recovering => caller \notin {"none", "blocking"}
    /\ pc \in Storing /\ caller = "handler" => state = "STORING"

\* What the boot chooses from the two headers are page numbers.
LEMMA ChoiceTyped ==
    /\ NewestPage \in {0, 1, NoPage}
    /\ BackupPage \in {0, 1, NoPage}
    /\ NewestPage # NoPage => Other(NewestPage) \in {0, 1}
    /\ BackupPage # NoPage => BackupPage = Other(NewestPage)
<1>1. NewestPage \in {0, 1, NoPage}
  BY DEF NewestPage
<1>2. NewestPage # NoPage => Other(NewestPage) \in {0, 1}
  BY <1>1 DEF Other, NoPage
<1>3. /\ BackupPage \in {0, 1, NoPage}
      /\ BackupPage # NoPage => BackupPage = Other(NewestPage)
  BY DEF BackupPage, NewestPage, Other, NoPage
<1> QED
  BY <1>1, <1>2, <1>3

\* What is restored has the types of the segments.
LEMMA RestoreTyped ==
    ASSUME FlashTyped, firmware \in Firmwares, NewestPage # NoPage
    PROVE  /\ RestoreAppliance.seg \in Appliance
           /\ RestoreAppliance.how \in Restored
           /\ RestoreStatistics.seg \in Values \cup {Garbage}
           /\ RestoreStatistics.how \in Restored
<1>1. page[NewestPage] \in Page
  BY ChoiceTyped DEF FlashTyped
<1>2. BackupPage # NoPage => page[BackupPage] \in Page
  BY ChoiceTyped DEF FlashTyped
<1>3. ReadAppliance.seg \in Appliance /\ ReadAppliance.how \in Restored
  BY <1>1, <1>2, BlankTyped DEF ReadAppliance, Page, Restored
<1>4. /\ RestoreAppliance.seg \in Appliance
      /\ RestoreAppliance.how \in Restored
  BY <1>3, BlankTyped DEF RestoreAppliance, Restored
<1>5. /\ RestoreStatistics.seg \in Values \cup {Garbage}
      /\ RestoreStatistics.how \in Restored
  <2> DEFINE n == page[NewestPage]
             b == page[BackupPage]
  <2>1. n.stat \in Values \cup {Garbage}
    BY <1>1 DEF Page
  <2>2. BackupPage # NoPage => b.stat \in Values \cup {Garbage}
    BY <1>2 DEF Page
  <2>3. \/ RestoreStatistics = [seg |-> n.stat, how |-> "OKAY"]
        \/ /\ BackupPage # NoPage
           /\ RestoreStatistics = [seg |-> b.stat, how |-> "OKAY_BACKUP"]
        \/ RestoreStatistics = [seg |-> 0, how |-> "CORRUPTED"]
    BY DEF RestoreStatistics
  <2> HIDE DEF n, b
  <2> QED
    BY <2>1, <2>2, <2>3, Constants DEF Restored
<1> QED
  BY <1>4, <1>5

\* What is read back has the type of the segments.
LEMMA ReadBackTyped ==
    ASSUME FlashTyped, firmware \in Firmwares
    PROVE  ReadBack \in Segments
<1>1. NothingRead \in Segments
  BY BlankTyped DEF NothingRead, Segments
<1>2. CASE NewestPage # NoPage
  <2>1. /\ page[NewestPage] \in Page
        /\ BackupPage # NoPage => page[BackupPage] \in Page
    BY <1>2, ChoiceTyped DEF FlashTyped
  <2>2. ReadAppliance.seg \in Appliance
    BY <2>1, BlankTyped DEF ReadAppliance, Page
  <2>3. RestoreStatistics.seg \in Values \cup {Garbage}
    BY <1>2, RestoreTyped
  <2> QED
    BY <1>2, <2>2, <2>3 DEF ReadBack, Segments
<1> QED
  BY <1>1, <1>2 DEF ReadBack

\* What a step leaves alone keeps its type.
LEMMA SameTyped ==
    ASSUME TypeOK
    PROVE  /\ UNCHANGED flash => FlashTyped'
           /\ UNCHANGED header => HeaderTyped'
           /\ UNCHANGED <<ram, status>> => DataTyped'
           /\ UNCHANGED <<state, supply>> => PowerTyped'
           /\ UNCHANGED <<line, caller, firmware>> => BoardTyped'
           /\ UNCHANGED history => HistoryTyped'
           /\ UNCHANGED <<supply, history>> => FlagsTyped'
<1>1. UNCHANGED flash => FlashTyped'
  BY DEF TypeOK, flash, FlashTyped
<1>2. UNCHANGED header => HeaderTyped'
  BY DEF TypeOK, header, HeaderTyped
<1>3. UNCHANGED <<ram, status>> => DataTyped'
  BY DEF TypeOK, DataTyped
<1>4. UNCHANGED <<state, supply>> => PowerTyped'
  BY DEF TypeOK, supply, PowerTyped
<1>5. UNCHANGED <<line, caller, firmware>> => BoardTyped'
  BY DEF TypeOK, BoardTyped
<1>6. UNCHANGED history => HistoryTyped'
  BY DEF TypeOK, history, HistoryTyped
<1>7. UNCHANGED <<supply, history>> => FlagsTyped'
  BY DEF TypeOK, supply, history, FlagsTyped
<1> QED
  BY <1>1, <1>2, <1>3, <1>4, <1>5, <1>6, <1>7

\* A page keeps its type when it is erased, cut in an erase or in a write.
LEMMA FlashStepTyped ==
    ASSUME FlashTyped, NEW p \in {0, 1, NoPage},
           \/ FlushPage(p)
           \/ page' = [page EXCEPT ![p] = Torn]
           \/ p # NoPage
              /\ \E r \in Remains(page[p]) : page' = [page EXCEPT ![p] = r]
    PROVE  FlashTyped'
<1>1. CASE p # NoPage /\ \E r \in Remains(page[p]) :
                            page' = [page EXCEPT ![p] = r]
  <2>1. page[p] \in Page
    BY <1>1 DEF FlashTyped
  <2>2. ASSUME NEW r \in Remains(page[p])
        PROVE  r \in Page
    <3>1. PICK s \in {page[p].sig, "torn"}, a \in {page[p].app, GarbledAppliance},
               d \in {page[p].stat, Garbage} :
                  r = [page[p] EXCEPT !.sig = s, !.app = a, !.stat = d]
      BY <2>2 DEF Remains
    <3>2. /\ s \in Signatures /\ a \in Appliance
          /\ d \in Values \cup {Garbage}
      BY <2>1, BlankTyped DEF Page, Signatures
    <3> QED
      BY <2>1, <3>1, <3>2 DEF Page
  <2> QED
    BY <1>1, <2>2 DEF FlashTyped
<1>2. CASE FlushPage(p) \/ page' = [page EXCEPT ![p] = Torn]
  BY <1>2, BlankTyped DEF FlashTyped, FlushPage
<1> QED
  BY <1>1, <1>2

\* The reset of the two state machines.
LEMMA MachinesTyped ==
    ASSUME NvdataInitialize, BrownOutInitialize
    PROVE  PowerTyped' /\ brownout' = FALSE
BY Constants DEF NvdataInitialize, BrownOutInitialize, PowerTyped, FilterWidth

\* A cold boot keeps the types.
LEMMA ColdBootTyped ==
    ASSUME TypeOK, ColdBoot
    PROVE  TypeOK'
<1>1. FlashTyped' /\ BoardTyped' /\ HistoryTyped'
  <2>1. ReadBack \in Segments
    BY ReadBackTyped DEF TypeOK, BoardTyped
  <2> QED
    BY <2>1
       DEF TypeOK, ColdBoot, flash, FlashTyped, BoardTyped, HistoryTyped
<1>2. PowerTyped' /\ FlagsTyped'
  BY MachinesTyped DEF ColdBoot, TypeOK, FlagsTyped
<1>3. HeaderTyped'
  <2>1. CASE NewestPage = NoPage
    BY <2>1, Constants DEF ColdBoot, HeaderTyped
  <2>2. CASE NewestPage # NoPage
    <3>1. page[NewestPage] \in Page
      BY <2>2, ChoiceTyped DEF TypeOK, FlashTyped
    <3> QED
      BY <2>2, <3>1, ChoiceTyped DEF ColdBoot, HeaderTyped, Page
  <2> QED
    BY <2>1, <2>2
<1>4. DataTyped'
  <2>1. CASE NewestPage = NoPage
    BY <2>1, Constants, BlankTyped
       DEF ColdBoot, TypeOK, BoardTyped, DataTyped, Segments, Restored
  <2>2. CASE NewestPage # NoPage
    <3>1. /\ RestoreAppliance.seg \in Appliance
          /\ Demoted(RestoreAppliance.how) \in Restored
          /\ RestoreStatistics.seg \in Values \cup {Garbage}
          /\ Demoted(RestoreStatistics.how) \in Restored
      BY <2>2, RestoreTyped DEF TypeOK, BoardTyped, Demoted, Restored
    <3> QED
      BY <2>2, <3>1 DEF ColdBoot, DataTyped, Segments
  <2> QED
    BY <2>1, <2>2
<1> QED
  BY <1>1, <1>2, <1>3, <1>4 DEF TypeOK

\* The steps of a boot keep the types.
LEMMA BootTyped ==
    ASSUME TypeOK, Boot
    PROVE  TypeOK'
<1>1. CASE ColdBoot
  BY <1>1, ColdBootTyped
<1>2. CASE WarmBoot
  <2>1. PowerTyped' /\ FlagsTyped'
    BY <1>2, MachinesTyped DEF WarmBoot, history, TypeOK, FlagsTyped
  <2>2. FlashTyped' /\ DataTyped'
    BY <1>2 DEF WarmBoot, flash, TypeOK, FlashTyped, DataTyped
  <2>3. HeaderTyped'
    BY <1>2 DEF WarmBoot, header, TypeOK, HeaderTyped, NoPage
  <2>4. BoardTyped' /\ HistoryTyped'
    BY <1>2 DEF WarmBoot, history, TypeOK, BoardTyped, HistoryTyped
  <2> QED
    BY <2>1, <2>2, <2>3, <2>4 DEF TypeOK
<1>3. CASE BlankEraseSecond \/ BlankMark \/ BlankEraseFirst \/ PreparePage
  <2>1. FlashTyped'
    <3>1. CASE BlankMark
      BY <3>1 DEF BlankMark, TypeOK, FlashTyped, Page, Signatures
    <3>2. CASE BlankEraseSecond \/ BlankEraseFirst \/ PreparePage
      BY <3>2, FlashStepTyped
         DEF BlankEraseSecond, BlankEraseFirst, PreparePage, TypeOK,
             HeaderTyped
    <3> QED
      BY <1>3, <3>1, <3>2
  <2>2. HeaderTyped'
    <3>1. UNCHANGED header \/ (next' = 0 /\ counter' = 0)
      BY <1>3
         DEF BlankEraseSecond, BlankMark, BlankEraseFirst, PreparePage
    <3>2. CASE UNCHANGED header
      BY <3>2 DEF header, TypeOK, HeaderTyped
    <3>3. CASE next' = 0 /\ counter' = 0
      BY <3>3, Constants DEF HeaderTyped
    <3> QED
      BY <3>1, <3>2, <3>3
  <2>3. /\ UNCHANGED <<board, kept, tried, failed>>
        /\ UNCHANGED fresh \/ fresh' = FALSE
    BY <1>3
       DEF BlankEraseSecond, BlankMark, BlankEraseFirst, PreparePage, history
  <2>4. DataTyped' /\ BoardTyped' /\ HistoryTyped' /\ FlagsTyped'
    BY <2>3
       DEF board, supply, TypeOK, DataTyped, BoardTyped, HistoryTyped,
           FlagsTyped
  <2>5. PowerTyped'
    <3>1. UNCHANGED <<state, monitor, filter>>
      BY <2>3 DEF board, supply
    <3> QED
      BY <3>1 DEF TypeOK, PowerTyped
  <2> QED
    BY <2>1, <2>2, <2>4, <2>5 DEF TypeOK
<1> QED
  BY <1>1, <1>2, <1>3 DEF Boot

\* What BeginStore writes keeps its type.
LEMMA BeginStoreTyped ==
    ASSUME TypeOK, NEW c \in Callers, NEW a \in Appliance, BeginStore(c, a)
    PROVE  /\ counter' \in 0 .. CounterWidth - 1
           /\ ram' \in Segments /\ tried' \in Segments
           /\ caller' = c /\ fresh' = TRUE
<1>1. counter' \in 0 .. CounterWidth - 1
  <2>1. counter \in 0 .. 65535
    BY DEF TypeOK, HeaderTyped, CounterWidth
  <2>2. counter' = (counter + 1) % 65536
    BY DEF BeginStore, CounterWidth
  <2>3. counter' \in 0 .. 65535
    BY <2>1, <2>2
  <2> QED
    BY <2>3 DEF CounterWidth
<1>2. ram' \in Segments
  BY DEF BeginStore, TypeOK, DataTyped, Segments
<1> QED
  BY <1>1, <1>2 DEF BeginStore

\* The writes of a store keep the types.
LEMMA WriteTyped ==
    ASSUME TypeOK,
           WriteHeader \/ WriteHeaderRefused \/ WriteAppliance
              \/ WriteStatistics \/ WriteFault
    PROVE  TypeOK'
<1>1. /\ UNCHANGED <<header, board, tried, fresh, failed>>
      /\ kept' \in {kept, ram}
  BY DEF WriteHeader, WriteHeaderRefused, WriteAppliance, WriteStatistics,
         WriteFault, StoreStep
<1>2. /\ HeaderTyped' /\ DataTyped' /\ BoardTyped' /\ HistoryTyped'
      /\ FlagsTyped'
  <2>1. UNCHANGED <<next, counter, ram, status, line, caller, firmware, tried,
                    brownout, fresh, failed>>
    BY <1>1 DEF header, board, supply
  <2> QED
    BY <1>1, <2>1
       DEF TypeOK, HeaderTyped, DataTyped, BoardTyped, HistoryTyped,
           FlagsTyped
<1>3. PowerTyped'
  <2>1. UNCHANGED <<state, monitor, filter>>
    BY <1>1 DEF board, supply
  <2> QED
    BY <2>1 DEF TypeOK, PowerTyped
<1>4. FlashTyped'
  <2>1. /\ ram.app \in Appliance /\ ram.stat \in Values \cup {Garbage}
        /\ counter \in 0 .. CounterWidth - 1
    BY DEF TypeOK, DataTyped, HeaderTyped, Segments
  <2>2. CASE WriteHeader
    <3>1. page' = [page EXCEPT ![next] =
                     [page[next] EXCEPT !.sig = "good", !.counter = counter,
                                        !.appCrc = ram.app,
                                        !.statCrc = ram.stat]]
      BY <2>2 DEF WriteHeader
    <3> QED
      BY <2>1, <3>1 DEF TypeOK, FlashTyped, Page, Signatures
  <2>3. CASE WriteAppliance
    BY <2>1, <2>3 DEF WriteAppliance, TypeOK, FlashTyped, Page
  <2>4. CASE WriteStatistics
    BY <2>1, <2>4 DEF WriteStatistics, TypeOK, FlashTyped, Page
  <2>5. CASE UNCHANGED page
    BY <2>5 DEF TypeOK, FlashTyped
  <2>6. CASE page' = [page EXCEPT ![next] = Torn]
    BY <2>6, FlashStepTyped DEF TypeOK, HeaderTyped
  <2> QED
    BY <2>2, <2>3, <2>4, <2>5, <2>6 DEF WriteHeaderRefused, WriteFault
<1> QED
  BY <1>2, <1>3, <1>4 DEF TypeOK

\* The end of a store and the recovery from a failed one keep the types.
LEMMA StoreEndTyped ==
    ASSUME TypeOK, Controlled,
           StoreDone \/ StoreFailed \/ BlockingFlush \/ RecoverFirst
              \/ RecoverNext
    PROVE  TypeOK'
<1>1. FlashTyped'
  <2>1. CASE StoreDone \/ StoreFailed
    BY <2>1 DEF StoreDone, StoreFailed, flash, TypeOK, FlashTyped
  <2>2. CASE BlockingFlush \/ RecoverFirst \/ RecoverNext
    BY <2>2, FlashStepTyped
       DEF BlockingFlush, RecoverFirst, RecoverNext, TypeOK, HeaderTyped
  <2> QED
    BY <2>1, <2>2
<1>2. HeaderTyped'
  <2>1. UNCHANGED counter /\ next' \in {next, Other(next), 0}
    BY DEF StoreDone, StoreFailed, BlockingFlush, RecoverFirst, RecoverNext,
           header
  <2>2. next \in {0, 1}
    BY DEF Controlled, Storing, Recovering, StoreDone, StoreFailed,
           BlockingFlush, RecoverFirst, RecoverNext
  <2> QED
    BY <2>1, <2>2 DEF TypeOK, HeaderTyped, Other
<1>3. DataTyped' /\ BoardTyped' /\ HistoryTyped'
  <2>1. /\ UNCHANGED <<ram, line, firmware, kept, tried>>
        /\ status' \in {status, [app |-> "OKAY", stat |-> "OKAY"]}
        /\ caller' \in {caller, "none"}
    BY DEF StoreDone, StoreFailed, BlockingFlush, RecoverFirst, RecoverNext,
           board, history
  <2> QED
    BY <2>1
       DEF TypeOK, DataTyped, BoardTyped, HistoryTyped, Restored, Callers
<1>4. FlagsTyped'
  BY DEF StoreDone, StoreFailed, BlockingFlush, RecoverFirst, RecoverNext,
         board, history, supply, TypeOK, FlagsTyped
<1>5. PowerTyped'
  <2>1. UNCHANGED <<monitor, filter>>
    BY DEF StoreDone, StoreFailed, BlockingFlush, RecoverFirst, RecoverNext,
           board, supply
  <2>2. state' \in {state, "STORED", "ERROR", "STORING"}
    BY DEF StoreDone, StoreFailed, BlockingFlush, RecoverFirst, RecoverNext,
           board
  <2> QED
    BY <2>1, <2>2 DEF TypeOK, PowerTyped
<1> QED
  BY <1>1, <1>2, <1>3, <1>4, <1>5 DEF TypeOK

\* A pass of the 5 ms thread keeps the types.
LEMMA PassTyped ==
    ASSUME TypeOK, AsynchPass
    PROVE  TypeOK'
<1>1. FlashTyped'
  BY DEF AsynchPass, flash, TypeOK, FlashTyped
<1>2. /\ counter' \in 0 .. CounterWidth - 1
      /\ ram' \in Segments /\ tried' \in Segments
      /\ caller' \in Callers /\ fresh' \in BOOLEAN
  <2>1. CASE HandlerStoring
    <3>1. ram.app \in Appliance /\ "handler" \in Callers
      BY DEF TypeOK, DataTyped, Segments, Callers
    <3> QED
      BY <2>1, <3>1, BeginStoreTyped DEF HandlerStoring
  <2>2. CASE UNCHANGED <<counter, ram, tried, caller, fresh>>
    <3>1. counter \in 0 .. CounterWidth - 1
      BY DEF TypeOK, HeaderTyped
    <3> QED
      BY <2>2, <3>1
         DEF TypeOK, DataTyped, HistoryTyped, BoardTyped, FlagsTyped
  <2> QED
    BY <2>1, <2>2 DEF AsynchPass, HandlerIdle, HandlerStored
<1>3. HeaderTyped' /\ DataTyped' /\ BoardTyped' /\ HistoryTyped'
  BY <1>2
     DEF AsynchPass, TypeOK, HeaderTyped, DataTyped, BoardTyped, HistoryTyped,
         NoPage
<1>4. FlagsTyped'
  <2>1. brownout' \in {brownout, TRUE, FALSE}
    BY DEF AsynchPass, BrownOutMonitor, DetectStablePower,
           DetectBrownOutEvent, DetectBrownOutRecover
  <2> QED
    BY <1>2, <2>1 DEF AsynchPass, TypeOK, FlagsTyped
<1>5. PowerTyped'
  <2>1. state' \in {state, "STORING"}
    BY DEF AsynchPass, HandlerIdle, HandlerStoring, HandlerStored
  <2>2. monitor' \in {monitor, "DETECT", "RECOVER"}
    BY DEF AsynchPass, BrownOutMonitor, DetectStablePower,
           DetectBrownOutEvent, DetectBrownOutRecover
  <2> DEFINE Down == (filter - 1) % 65536
             Ticks == 0 .. 65535
  <2>3. filter' \in {filter, RecoverTicks, Down}
    BY DEF AsynchPass, BrownOutMonitor, DetectStablePower,
           DetectBrownOutEvent, DetectBrownOutRecover, FilterWidth
  <2>4. filter \in Ticks
    BY DEF TypeOK, PowerTyped, FilterWidth
  <2>5. RecoverTicks \in Ticks
    BY BoundsAssumption DEF BoundsAssumption
  <2>6. Down \in Ticks
    BY <2>4
  <2>7. filter' \in Ticks
    <3> HIDE DEF Down, Ticks
    <3> QED
      BY <2>3, <2>4, <2>5, <2>6
  <2>8. filter' \in 0 .. FilterWidth - 1
    BY <2>7 DEF FilterWidth
  <2> QED
    BY <2>1, <2>2, <2>8 DEF TypeOK, PowerTyped
<1> QED
  BY <1>1, <1>3, <1>4, <1>5 DEF TypeOK

\* The loss of the RAM leaves it reset.
LEMMA RamLostTyped ==
    ASSUME RamLost
    PROVE  /\ HeaderTyped' /\ DataTyped' /\ PowerTyped'
           /\ caller' \in Callers /\ line' = "low" /\ brownout' = FALSE
<1>1. PowerTyped' /\ brownout' = FALSE
  BY MachinesTyped DEF RamLost
<1>2. HeaderTyped'
  BY Constants DEF RamLost, HeaderTyped
<1>3. DataTyped' /\ caller' \in Callers /\ line' = "low"
  BY BlankTyped DEF RamLost, DataTyped, Restored, Callers
<1> QED
  BY <1>1, <1>2, <1>3

\* The other threads and the environment keep the types.
LEMMA EnvironmentTyped ==
    ASSUME TypeOK,
           \/ ApplianceChanges \/ StatisticsChange \/ RequestStore
           \/ WarmReset \/ WakeUp \/ FirmwareUpdated \/ LineChanges
           \/ PowerLost
    PROVE  TypeOK'
<1>1. CASE ApplianceChanges \/ StatisticsChange
  <2>1. ram' \in Segments
    BY <1>1
       DEF ApplianceChanges, StatisticsChange, TypeOK, DataTyped, Segments,
           Appliance
  <2>2. UNCHANGED <<flash, header, status, state, supply, line, caller,
                    firmware, history>>
    BY <1>1 DEF ApplianceChanges, StatisticsChange
  <2> QED
    BY <2>1, <2>2, SameTyped DEF TypeOK, DataTyped
<1>2. CASE WarmReset \/ WakeUp \/ LineChanges
  <2>1. /\ UNCHANGED <<flash, header, ram, status, state, supply, caller,
                       firmware, history>>
        /\ line' \in {line, "low", "mid", "high"}
    BY <1>2 DEF WarmReset, WakeUp, LineChanges, board
  <2> QED
    BY <2>1, SameTyped DEF TypeOK, BoardTyped
<1>3. CASE RequestStore
  <2>1. PICK c \in Callers, a \in Appliance : BeginStore(c, a)
    BY <1>3
       DEF RequestStore, Callers, TypeOK, DataTyped, Segments, Appliance
  <2>2. UNCHANGED <<flash, next, status, state, supply, line, firmware, kept,
                    failed>>
    BY <1>3 DEF RequestStore
  <2>3. /\ FlashTyped' /\ PowerTyped' /\ BoardTyped' /\ HistoryTyped'
        /\ HeaderTyped' /\ DataTyped'
    BY <2>1, <2>2, BeginStoreTyped, SameTyped
       DEF TypeOK, HeaderTyped, DataTyped, BoardTyped, HistoryTyped
  <2>4. FlagsTyped'
    BY <2>1, <2>2 DEF BeginStore, supply, TypeOK, FlagsTyped
  <2> QED
    BY <2>3, <2>4 DEF TypeOK
<1>4. CASE FirmwareUpdated \/ PowerLost
  <2>1. RamLost /\ UNCHANGED history
    BY <1>4 DEF FirmwareUpdated, PowerLost
  <2>2. FlashTyped'
    <3>1. CASE UNCHANGED page
      BY <3>1 DEF TypeOK, FlashTyped
    <3>2. CASE page' = [page EXCEPT ![HeadedPage] = Torn]
      <4>1. HeadedPage \in {0, 1, NoPage}
        BY DEF HeadedPage, TypeOK, HeaderTyped
      <4> QED
        BY <3>2, <4>1, FlashStepTyped DEF TypeOK
    <3>3. CASE /\ ErasingPage # NoPage
               /\ \E r \in Remains(page[ErasingPage]) :
                     page' = [page EXCEPT ![ErasingPage] = r]
      <4>1. ErasingPage \in {0, 1, NoPage}
        BY DEF ErasingPage, TypeOK, HeaderTyped
      <4> QED
        BY <3>3, <4>1, FlashStepTyped DEF TypeOK
    <3> QED
      BY <1>4, <3>1, <3>2, <3>3 DEF FirmwareUpdated, PowerLost, flash
  <2>3. firmware' \in Firmwares
    BY <1>4 DEF FirmwareUpdated, PowerLost, TypeOK, BoardTyped
  <2>4. /\ HeaderTyped' /\ DataTyped' /\ PowerTyped' /\ BoardTyped'
        /\ HistoryTyped'
    BY <2>1, <2>3, RamLostTyped, SameTyped DEF BoardTyped
  <2>5. FlagsTyped'
    BY <2>1, RamLostTyped DEF history, TypeOK, FlagsTyped
  <2> QED
    BY <2>2, <2>4, <2>5 DEF TypeOK
<1> QED
  BY <1>1, <1>2, <1>3, <1>4

\* The control stays within what Controlled says.
LEMMA ControlledNext ==
    ASSUME TypeOK, Controlled, [Next]_vars
    PROVE  Controlled'
<1> USE DEF Controlled, Storing, Recovering
<1>1. CASE UNCHANGED vars
  BY <1>1 DEF vars
<1>2. CASE Boot
  <2>1. pc' \in {"prepare", "blank_mark", "blank_first"}
          \/ (pc' = "run" /\ next' \in {0, 1})
    BY <1>2
       DEF Boot, ColdBoot, WarmBoot, BlankEraseSecond, BlankMark,
           BlankEraseFirst, PreparePage, header, TypeOK, HeaderTyped
  <2> QED
    BY <2>1
<1>3. CASE WriteHeader \/ WriteHeaderRefused \/ WriteAppliance
             \/ WriteStatistics \/ WriteFault
  BY <1>3
     DEF WriteHeader, WriteHeaderRefused, WriteAppliance, WriteStatistics,
         WriteFault, StoreStep, header, board
<1>4. CASE StoreDone \/ StoreFailed \/ BlockingFlush \/ RecoverFirst
             \/ RecoverNext
  BY <1>4
     DEF StoreDone, StoreFailed, BlockingFlush, RecoverFirst, RecoverNext,
         AfterStore, Other, header, board, TypeOK, BoardTyped, Callers
<1>5. CASE AsynchPass
  BY <1>5
     DEF AsynchPass, HandlerIdle, HandlerStoring, HandlerStored, BeginStore
<1>6. CASE RequestStore
  BY <1>6 DEF RequestStore, BeginStore
<1>7. CASE \/ ApplianceChanges \/ StatisticsChange \/ WarmReset \/ WakeUp
           \/ FirmwareUpdated \/ LineChanges \/ PowerLost
  BY <1>7
     DEF ApplianceChanges, StatisticsChange, WarmReset, WakeUp,
         FirmwareUpdated, LineChanges, PowerLost, RamLost, header
<1> QED
  BY <1>1, <1>2, <1>3, <1>4, <1>5, <1>6, <1>7 DEF Next, Store

\* The first state is typed, and every step keeps the types.
LEMMA InitTyped ==
    ASSUME Init
    PROVE  TypeOK /\ Controlled
<1>1. FlashTyped
  BY BlankTyped DEF Init, FlashTyped
<1>2. HeaderTyped
  BY Constants DEF Init, HeaderTyped
<1>3. DataTyped /\ HistoryTyped
  BY BlankTyped
     DEF Init, DataTyped, HistoryTyped, Restored, Segments, NothingRead
<1>4. BoardTyped
  BY Constants DEF Init, BoardTyped, Callers
<1>5. FlagsTyped
  BY DEF Init, FlagsTyped
<1>6. PowerTyped
  <2>1. state = "IDLE" /\ monitor = "INITIALIZE" /\ filter = RecoverTicks
    BY DEF Init
  <2> QED
    BY <2>1, Constants DEF PowerTyped
<1>7. Controlled
  BY DEF Init, Controlled, Storing, Recovering
<1> QED
  BY <1>1, <1>2, <1>3, <1>4, <1>5, <1>6, <1>7 DEF TypeOK

LEMMA NextTyped ==
    ASSUME TypeOK, Controlled, [Next]_vars
    PROVE  TypeOK'
<1>1. CASE UNCHANGED vars
  BY <1>1, SameTyped DEF vars, flash, header, supply, history, TypeOK
<1>2. CASE Next
  BY <1>2, BootTyped, WriteTyped, StoreEndTyped, PassTyped, EnvironmentTyped
     DEF Next, Store
<1> QED
  BY <1>1, <1>2

\* Every variable keeps its type in every behaviour: the recover filter and
\* the counter of the headers stay within their 16 bits, and a store always
\* knows its page.
THEOREM TypeCorrect == Spec => []TypeOK
<1>1. Init => TypeOK /\ Controlled
  BY InitTyped
<1>2. TypeOK /\ Controlled /\ [Next]_vars => TypeOK' /\ Controlled'
  BY NextTyped, ControlledNext
<1> QED
  BY <1>1, <1>2, PTL DEF Spec

-----------------------------------------------------------------------------
(* OkayIsLastStore.                                                        *)

Good(p) == page[p].sig = "good"

\* The boot restores from the newest page without calling it the only copy.
Trusted == Good(0) /\ (Good(1) \/ page[1].sig = "init")

\* What page p holds intact is of the last store begun or completed ...
Current(p) ==
    /\ page[p].app = page[p].appCrc => page[p].app \in {kept.app, tried.app}
    /\ page[p].stat = page[p].statCrc =>
          page[p].stat \in {kept.stat, tried.stat}

\* ... or of the last one completed.
AsKept(p) ==
    /\ page[p].app = page[p].appCrc => page[p].app = kept.app
    /\ page[p].stat = page[p].statCrc => page[p].stat = kept.stat

\* Neither the RAM nor the CRC of a whole header is that of erased flash.
Clean ==
    /\ ram.app.val \in Values /\ ram.stat \in Values
    /\ \A p \in {0, 1} :
          Good(p) => page[p].appCrc.val \in Values
                     /\ page[p].statCrc \in Values

\* No page is ahead of the counter; a store about to write is ahead of both.
CounterAhead ==
    \A p \in {0, 1} : Good(p) =>
        /\ pc # "off" => page[p].counter <= counter
        /\ pc = "write_header" => page[p].counter < counter

\* A store works on the newest page, with the CRCs of the store begun last.
StoreInProgress ==
    /\ pc \in Storing \ {"flip_failed"} => ram = tried
    /\ pc \in Storing \ {"flip_failed", "write_header"} =>
          /\ Good(next) /\ NewestPage = next
          /\ page[next].appCrc = tried.app /\ page[next].statCrc = tried.stat
    /\ pc = "flip_done" => kept = tried

\* A boot that found no good page is about to erase both.
NothingGood ==
    pc \in {"blank_mark", "blank_first"} \/ (pc = "prepare" /\ next = NoPage)
      => ~Good(0) /\ ~Good(1)

NewestIsCurrent == Trusted => Current(NewestPage)

RestsOnKept == pc = "run" /\ Trusted => AsKept(NewestPage)

StoreInv == /\ Clean /\ CounterAhead /\ StoreInProgress /\ NothingGood
            /\ NewestIsCurrent /\ RestsOnKept

\* Which page is the newest, and when the boot has more than an only copy.
LEMMA NewestCases ==
    /\ Good(0) /\ ~Good(1) => NewestPage = 0
    /\ ~Good(0) /\ Good(1) => NewestPage = 1
    /\ ~Good(0) /\ ~Good(1) => NewestPage = NoPage
    /\ Good(0) /\ Good(1) =>
          NewestPage = IF page[1].counter > page[0].counter THEN 1 ELSE 0
    /\ Trusted <=> NewestPage # NoPage /\ ~OnlyCopy
<1>1. /\ Good(0) /\ ~Good(1) => NewestPage = 0
      /\ ~Good(0) /\ Good(1) => NewestPage = 1
      /\ ~Good(0) /\ ~Good(1) => NewestPage = NoPage
      /\ Good(0) /\ Good(1) =>
            NewestPage = IF page[1].counter > page[0].counter THEN 1 ELSE 0
  BY DEF NewestPage, Good
<1>2. Trusted <=> NewestPage # NoPage /\ ~OnlyCopy
  <2>1. Good(1) => page[1].sig # "init"
    BY DEF Good
  <2>2. BackupPage = NoPage <=> ~(Good(0) /\ Good(1))
    BY <1>1 DEF BackupPage, Other, NoPage, Good
  <2> QED
    BY <1>1, <2>1, <2>2 DEF Trusted, OnlyCopy, NoPage
<1> QED
  BY <1>1, <1>2

\* An erased page takes the trust away.
LEMMA FlushedPage ==
    ASSUME FlashTyped, NEW p \in {0, 1}, FlushPage(p)
    PROVE  /\ ~Trusted' /\ ~Good(p)'
           /\ \A q \in {0, 1} : q # p => page'[q] = page[q]
BY DEF FlashTyped, FlushPage, Erased, Trusted, Good

\* So does a torn page.
LEMMA TornPage ==
    ASSUME FlashTyped, NEW p \in {0, 1}, page' = [page EXCEPT ![p] = Torn]
    PROVE  /\ ~Trusted' /\ ~Good(p)'
           /\ \A q \in {0, 1} : q # p => page'[q] = page[q]
<1>1. Torn.sig = "torn"
  BY DEF Torn, Erased
<1> QED
  BY <1>1 DEF FlashTyped, Trusted, Good

\* What is left of a page whose erase was cut is the page, with less in it.
LEMMA RemainsOfPage ==
    ASSUME FlashTyped, NEW p \in {0, 1}, NEW r \in Remains(page[p]),
           page' = [page EXCEPT ![p] = r]
    PROVE  /\ r.sig \in {page[p].sig, "torn"}
           /\ r.counter = page[p].counter
           /\ r.appCrc = page[p].appCrc /\ r.statCrc = page[p].statCrc
           /\ r.app \in {page[p].app, GarbledAppliance}
           /\ r.stat \in {page[p].stat, Garbage}
           /\ page'[p] = r
           /\ \A q \in {0, 1} : q # p => page'[q] = page[q]
<1>1. page[p] \in Page
  BY DEF FlashTyped
<1>2. PICK s \in {page[p].sig, "torn"}, a \in {page[p].app, GarbledAppliance},
           d \in {page[p].stat, Garbage} :
              r = [page[p] EXCEPT !.sig = s, !.app = a, !.stat = d]
  BY DEF Remains
<1>3. /\ r.sig = s /\ r.app = a /\ r.stat = d
      /\ r.counter = page[p].counter
      /\ r.appCrc = page[p].appCrc /\ r.statCrc = page[p].statCrc
  BY <1>1, <1>2 DEF Page
<1> QED
  BY <1>3 DEF FlashTyped

\* The erased flash is not a value of a segment.
LEMMA GarbageIsNoValue ==
    /\ Garbage \notin Values
    /\ \A a \in Appliance : a.val \in Values => a # GarbledAppliance
BY ValuesAssumption
   DEF ValuesAssumption, Garbage, Appliance, GarbledAppliance

\* A cut erase leaves the newest page current.
LEMMA RemainsCurrent ==
    ASSUME FlashTyped, Clean, NewestIsCurrent, UNCHANGED <<kept, tried>>,
           NEW p \in {0, 1}, NEW r \in Remains(page[p]),
           page' = [page EXCEPT ![p] = r]
    PROVE  NewestIsCurrent'
<1> SUFFICES ASSUME Trusted'
             PROVE  Current(NewestPage)'
  BY DEF NewestIsCurrent
<1>1. r.sig = page[p].sig
  BY RemainsOfPage DEF Trusted, Good
<1>2. /\ page'[0].sig = page[0].sig /\ page'[1].sig = page[1].sig
      /\ page'[0].counter = page[0].counter
      /\ page'[1].counter = page[1].counter
  BY <1>1, RemainsOfPage
<1>3. Trusted /\ NewestPage' = NewestPage
  BY <1>2 DEF Trusted, Good, NewestPage, NoPage
<1>4. NewestPage \in {0, 1} /\ Good(NewestPage)
  BY <1>3, NewestCases DEF Trusted
<1>5. CASE NewestPage # p
  BY <1>3, <1>4, <1>5, RemainsOfPage DEF NewestIsCurrent, Current
<1>6. CASE NewestPage = p
  <2>1. /\ page[p].appCrc # GarbledAppliance
        /\ page[p].statCrc # Garbage
    BY <1>4, <1>6, GarbageIsNoValue DEF Clean, FlashTyped, Page
  <2>2. Current(p)
    BY <1>3, <1>6 DEF NewestIsCurrent
  <2>3. /\ r.app = r.appCrc => page[p].app = page[p].appCrc
                               /\ r.app = page[p].app
        /\ r.stat = r.statCrc => page[p].stat = page[p].statCrc
                                 /\ r.stat = page[p].stat
    BY <2>1, RemainsOfPage
  <2>4. page'[p] = r /\ NewestPage' = p
    BY <1>3, <1>6, RemainsOfPage
  <2> QED
    BY <2>2, <2>3, <2>4 DEF Current
<1> QED
  BY <1>5, <1>6

\* A step that leaves the pages, kept and tried alone leaves it current.
LEMMA SamePages ==
    ASSUME UNCHANGED page
    PROVE  /\ \A p \in {0, 1} : Good(p)' <=> Good(p)
           /\ Trusted' <=> Trusted
           /\ NewestPage' = NewestPage
           /\ UNCHANGED <<kept, tried>> /\ NewestIsCurrent
                => NewestIsCurrent'
<1>1. /\ \A p \in {0, 1} : Good(p)' <=> Good(p)
      /\ Trusted' <=> Trusted
  BY DEF Good, Trusted
<1>2. NewestPage' = NewestPage
  BY DEF NewestPage, NoPage
<1> QED
  BY <1>1, <1>2 DEF NewestIsCurrent, Current

\* The counters are numbers.
LEMMA CountersTyped ==
    ASSUME TypeOK
    PROVE  /\ counter \in Nat
           /\ \A p \in {0, 1} : page[p].counter \in Nat
<1>1. 0 .. CounterWidth - 1 \subseteq Nat
  BY DEF CounterWidth
<1>2. \A p \in {0, 1} : page[p].counter \in 0 .. CounterWidth - 1
  BY DEF TypeOK, FlashTyped, Page
<1> QED
  BY <1>1, <1>2, Zenon DEF TypeOK, HeaderTyped

\* A store that begins at rest leaves what the last complete one wrote.
LEMMA BeginStoreInv ==
    ASSUME TypeOK, Controlled, StoreInv, counter < 65535, pc = "run",
           UNCHANGED <<page, next, kept>>,
           NEW c, NEW a \in Appliance, a.val \in Values, BeginStore(c, a)
    PROVE  StoreInv'
<1>1. counter' = counter + 1
  <2>1. counter \in Nat
    BY CountersTyped
  <2>2. counter' = (counter + 1) % 65536
    BY DEF BeginStore, CounterWidth
  <2> QED
    BY <2>1, <2>2
<1>2. ram'.app = a /\ ram'.stat = ram.stat /\ tried' = ram'
  BY DEF BeginStore, TypeOK, DataTyped, Segments
<1>3. pc' = "write_header"
  BY DEF BeginStore
<1>4. Clean'
  BY <1>2, SamePages DEF StoreInv, Clean, Good
<1>5. CounterAhead'
  <2>1. ASSUME NEW p \in {0, 1}, Good(p)
        PROVE  page[p].counter < counter' /\ page[p].counter <= counter'
    <3>1. page[p].counter \in Nat /\ counter \in Nat
      BY CountersTyped
    <3>2. page[p].counter <= counter
      BY <2>1 DEF StoreInv, CounterAhead
    <3> QED
      BY <1>1, <3>1, <3>2
  <2> QED
    BY <2>1 DEF CounterAhead, Good
<1>6. StoreInProgress' /\ NothingGood'
  BY <1>2, <1>3 DEF StoreInProgress, NothingGood, Storing
<1>7. NewestIsCurrent'
  <2>1. Trusted' => AsKept(NewestPage)
    BY SamePages DEF StoreInv, RestsOnKept
  <2> QED
    BY <2>1, SamePages DEF NewestIsCurrent, Current, AsKept
<1>8. RestsOnKept'
  BY <1>3 DEF RestsOnKept
<1> QED
  BY <1>4, <1>5, <1>6, <1>7, <1>8 DEF StoreInv

\* What a cold boot finds in flash is clean.
LEMMA RestoredClean ==
    ASSUME TypeOK, Clean, NewestPage # NoPage
    PROVE  /\ RestoreAppliance.seg.val \in Values
           /\ RestoreStatistics.seg \in Values
<1>1. NewestPage \in {0, 1} /\ Good(NewestPage)
  BY NewestCases
<1>2. BackupPage # NoPage => BackupPage \in {0, 1} /\ Good(BackupPage)
  BY ChoiceTyped DEF BackupPage, Good, NoPage, Other
<1>3. /\ page[NewestPage].appCrc.val \in Values
      /\ page[NewestPage].statCrc \in Values
      /\ BackupPage # NoPage => page[BackupPage].appCrc.val \in Values
  BY <1>1, <1>2 DEF Clean
<1>4. ReadAppliance.how # "CORRUPTED" => ReadAppliance.seg.val \in Values
  BY <1>3 DEF ReadAppliance
<1>5. BlankAppliance(firmware).val \in Values
  BY Constants DEF BlankAppliance
<1>6. RestoreAppliance.seg.val \in Values
  BY <1>4, <1>5 DEF RestoreAppliance
<1>7. RestoreStatistics.seg \in Values
  BY <1>3, Constants DEF RestoreStatistics
<1> QED
  BY <1>6, <1>7

\* What the newest page holds intact is read back from there.
LEMMA ReadsNewest ==
    ASSUME NewestPage # NoPage
    PROVE  /\ page[NewestPage].app = page[NewestPage].appCrc
                => ReadBack.app = page[NewestPage].app
           /\ page[NewestPage].stat = page[NewestPage].statCrc
                => ReadBack.stat = page[NewestPage].stat
BY DEF ReadBack, ReadAppliance, RestoreStatistics

\* A cold boot keeps the invariant.
LEMMA ColdBootInv ==
    ASSUME TypeOK, StoreInv, ColdBoot
    PROVE  StoreInv'
<1>1. UNCHANGED page /\ kept' = ReadBack /\ pc' = "prepare"
  BY DEF ColdBoot, flash
<1>2. Clean'
  <2>1. ram'.app.val \in Values /\ ram'.stat \in Values
    <3>1. CASE NewestPage = NoPage
      BY <3>1, Constants DEF ColdBoot, BlankAppliance
    <3>2. CASE NewestPage # NoPage
      BY <3>2, RestoredClean DEF ColdBoot, StoreInv
    <3> QED
      BY <3>1, <3>2
  <2> QED
    BY <1>1, <2>1 DEF StoreInv, Clean, Good
<1>3. CounterAhead'
  <2>1. ASSUME NEW p \in {0, 1}, Good(p)
        PROVE  page[p].counter <= counter'
    <3>1. page[0].counter \in Nat /\ page[1].counter \in Nat
      BY CountersTyped
    <3>2. counter' = page[NewestPage].counter
      BY <2>1, NewestCases DEF ColdBoot, NoPage
    <3> QED
      BY <2>1, <3>1, <3>2, NewestCases
  <2> QED
    BY <1>1, <2>1 DEF CounterAhead, Good
<1>4. NothingGood'
  <2>1. CASE NewestPage = NoPage
    BY <1>1, <2>1, NewestCases DEF NothingGood, Good, NoPage
  <2>2. CASE NewestPage # NoPage
    BY <1>1, <2>2, ChoiceTyped DEF ColdBoot, NothingGood, NoPage
  <2> QED
    BY <2>1, <2>2
<1>5. StoreInProgress' /\ RestsOnKept'
  BY <1>1 DEF StoreInProgress, RestsOnKept, Storing
<1>6. NewestIsCurrent'
  <2> SUFFICES ASSUME Trusted'
               PROVE  Current(NewestPage)'
    BY DEF NewestIsCurrent
  <2>1. NewestPage # NoPage /\ NewestPage' = NewestPage
    BY <1>1, SamePages, NewestCases
  <2> QED
    BY <1>1, <2>1, ReadsNewest DEF Current
<1> QED
  BY <1>2, <1>3, <1>4, <1>5, <1>6 DEF StoreInv

\* So does a step that erases or damages page p and writes nothing.
LEMMA DamageInv ==
    ASSUME TypeOK, StoreInv, NEW p \in {0, 1},
           \/ FlushPage(p)
           \/ page' = [page EXCEPT ![p] = Torn]
           \/ \E r \in Remains(page[p]) : page' = [page EXCEPT ![p] = r],
           UNCHANGED <<kept, tried>>
    PROVE  /\ \A q \in {0, 1} : Good(q)' =>
                  /\ Good(q)
                  /\ page'[q].counter = page[q].counter
                  /\ page'[q].appCrc = page[q].appCrc
                  /\ page'[q].statCrc = page[q].statCrc
           /\ NewestIsCurrent'
<1>1. CASE FlushPage(p)
  BY <1>1, FlushedPage DEF TypeOK, Good, NewestIsCurrent
<1>2. CASE page' = [page EXCEPT ![p] = Torn]
  BY <1>2, TornPage DEF TypeOK, Good, NewestIsCurrent
<1>3. CASE \E r \in Remains(page[p]) : page' = [page EXCEPT ![p] = r]
  <2>1. PICK r \in Remains(page[p]) : page' = [page EXCEPT ![p] = r]
    BY <1>3
  <2>2. NewestIsCurrent'
    BY <2>1, RemainsCurrent DEF TypeOK, StoreInv
  <2>3. ASSUME NEW q \in {0, 1}, Good(q)'
        PROVE  /\ Good(q)
               /\ page'[q].counter = page[q].counter
               /\ page'[q].appCrc = page[q].appCrc
               /\ page'[q].statCrc = page[q].statCrc
    <3>1. /\ r.sig \in {page[p].sig, "torn"}
          /\ r.counter = page[p].counter
          /\ r.appCrc = page[p].appCrc /\ r.statCrc = page[p].statCrc
          /\ page'[p] = r
          /\ q # p => page'[q] = page[q]
      BY <2>1, RemainsOfPage DEF TypeOK
    <3> QED
      BY <2>3, <3>1 DEF Good
  <2> QED
    BY <2>2, <2>3
<1> QED
  BY <1>1, <1>2, <1>3

\* An erase outside a store keeps the invariant.
LEMMA FlushedInv ==
    ASSUME TypeOK, StoreInv, NEW p \in {0, 1}, FlushPage(p),
           UNCHANGED <<kept, tried, ram, counter>>,
           pc # "off", pc' \notin Storing \cup {"off"},
           NothingGood'
    PROVE  StoreInv'
<1>1. Clean'
  BY DamageInv DEF StoreInv, Clean
<1>2. CounterAhead'
  BY DamageInv DEF StoreInv, CounterAhead, Storing
<1>3. StoreInProgress' /\ RestsOnKept'
  BY FlushedPage DEF StoreInProgress, RestsOnKept, Storing, TypeOK
<1> QED
  BY <1>1, <1>2, <1>3, DamageInv DEF StoreInv

\* The other steps of a boot keep it.
LEMMA BootInv ==
    ASSUME TypeOK, Controlled, StoreInv, Boot
    PROVE  StoreInv'
<1>1. CASE ColdBoot
  BY <1>1, ColdBootInv
<1>2. CASE WarmBoot
  <2>1. UNCHANGED <<page, kept, tried, next, counter, ram>> /\ pc' = "prepare"
    BY <1>2 DEF WarmBoot, flash, header, history
  <2>2. pc # "off" /\ next \in {0, 1}
    BY <1>2 DEF WarmBoot, Controlled
  <2>3. Clean' /\ CounterAhead'
    BY <2>1, <2>2 DEF StoreInv, Clean, CounterAhead, Good
  <2>4. StoreInProgress' /\ NothingGood' /\ RestsOnKept'
    BY <2>1, <2>2
       DEF StoreInProgress, NothingGood, RestsOnKept, Storing, NoPage
  <2>5. NewestIsCurrent'
    BY <2>1, SamePages DEF StoreInv
  <2> QED
    BY <2>3, <2>4, <2>5 DEF StoreInv
<1>3. CASE BlankMark
  <2>1. /\ UNCHANGED <<kept, tried, next, counter, ram>>
        /\ pc' = "blank_first" /\ ~Good(0) /\ ~Good(1)
    BY <1>3 DEF BlankMark, header, board, history, StoreInv, NothingGood
  <2>2. ~Good(0)' /\ ~Good(1)'
    BY <1>3, <2>1 DEF BlankMark, Good, TypeOK, FlashTyped, Page
  <2> QED
    BY <2>1, <2>2
       DEF StoreInv, Clean, CounterAhead, StoreInProgress, NothingGood,
           NewestIsCurrent, RestsOnKept, Storing, Trusted
<1>4. CASE BlankEraseSecond
  <2>1. /\ UNCHANGED <<kept, tried, next, counter, ram>>
        /\ pc' = "blank_mark" /\ ~Good(0) /\ ~Good(1) /\ FlushPage(1)
    BY <1>4 DEF BlankEraseSecond, header, board, history, StoreInv, NothingGood
  <2>2. ~Good(0)' /\ ~Good(1)'
    BY <2>1, FlushedPage DEF Good, TypeOK
  <2> QED
    BY <2>1, <2>2
       DEF StoreInv, Clean, CounterAhead, StoreInProgress, NothingGood,
           NewestIsCurrent, RestsOnKept, Storing, Trusted
<1>5. CASE BlankEraseFirst
  <2>1. /\ UNCHANGED <<kept, tried, ram>>
        /\ pc' = "run" /\ ~Good(0) /\ ~Good(1) /\ FlushPage(0)
    BY <1>5 DEF BlankEraseFirst, board, StoreInv, NothingGood
  <2>2. ~Good(0)' /\ ~Good(1)'
    BY <2>1, FlushedPage DEF Good, TypeOK
  <2> QED
    BY <2>1, <2>2
       DEF StoreInv, Clean, CounterAhead, StoreInProgress, NothingGood,
           NewestIsCurrent, RestsOnKept, Storing, Trusted
<1>6. CASE PreparePage
  <2>1. /\ UNCHANGED <<kept, tried, ram, counter, next>>
        /\ pc' = "run" /\ pc = "prepare" /\ next \in {0, 1}
        /\ FlushPage(next)
    BY <1>6 DEF PreparePage, header, board, TypeOK, HeaderTyped
  <2>2. NothingGood' /\ pc' \notin Storing \cup {"off"}
    BY <2>1 DEF NothingGood, Storing
  <2> QED
    BY <2>1, <2>2, FlushedInv
<1> QED
  BY <1>1, <1>2, <1>3, <1>4, <1>5, <1>6 DEF Boot

\* The header makes its page the newest.
LEMMA WriteHeaderInv ==
    ASSUME TypeOK, Controlled, StoreInv, WriteHeader
    PROVE  StoreInv'
<1>1. /\ UNCHANGED <<next, counter, ram, tried, kept>>
      /\ pc = "write_header" /\ pc' = "write_appliance" /\ next \in {0, 1}
      /\ ram = tried
  BY DEF WriteHeader, StoreStep, header, board, Controlled, StoreInv,
         StoreInProgress, Storing
<1>2. page' = [page EXCEPT ![next] =
                 [page[next] EXCEPT !.sig = "good", !.counter = counter,
                                    !.appCrc = ram.app,
                                    !.statCrc = ram.stat]]
  BY DEF WriteHeader
<1>3. page[next] \in Page
  BY <1>1 DEF TypeOK, FlashTyped
<1>4. /\ page'[next].sig = "good" /\ page'[next].counter = counter
      /\ page'[next].appCrc = ram.app /\ page'[next].statCrc = ram.stat
      /\ \A q \in {0, 1} : q # next => page'[q] = page[q]
  BY <1>1, <1>2, <1>3 DEF Page, TypeOK, FlashTyped
<1>5. Clean'
  BY <1>1, <1>4 DEF StoreInv, Clean, Good
<1>6. \A q \in {0, 1} : Good(q) => page[q].counter < counter
  BY <1>1 DEF StoreInv, CounterAhead
<1>7. counter \in Nat /\ \A q \in {0, 1} : page[q].counter \in Nat
  BY CountersTyped
<1>8. CounterAhead'
  <2>1. ASSUME NEW q \in {0, 1}, Good(q)'
        PROVE  page'[q].counter <= counter
    BY <1>1, <1>4, <1>6, <1>7, <2>1 DEF Good
  <2> QED
    BY <1>1, <2>1 DEF CounterAhead
<1>9. Good(next)' /\ NewestPage' = next
  <2>1. CASE next = 0
    BY <1>1, <1>4, <1>6, <1>7, <2>1 DEF NewestPage, Good
  <2>2. CASE next = 1
    BY <1>1, <1>4, <1>6, <1>7, <2>2 DEF NewestPage, Good
  <2> QED
    BY <1>1, <2>1, <2>2
<1>10. StoreInProgress' /\ NothingGood' /\ RestsOnKept'
  BY <1>1, <1>4, <1>9
     DEF StoreInProgress, NothingGood, RestsOnKept, Storing, Good
<1>11. NewestIsCurrent'
  BY <1>1, <1>4, <1>9 DEF NewestIsCurrent, Current
<1> QED
  BY <1>5, <1>8, <1>10, <1>11 DEF StoreInv

\* The segments go into the page that is the newest already.
LEMMA WriteSegmentInv ==
    ASSUME TypeOK, Controlled, StoreInv, WriteAppliance \/ WriteStatistics
    PROVE  StoreInv'
<1>1. /\ UNCHANGED <<next, counter, ram, tried>>
      /\ pc \in {"write_appliance", "write_statistics"}
      /\ \/ pc' = "write_statistics" /\ UNCHANGED kept
         \/ pc' = "flip_done" /\ kept' = ram
      /\ next \in {0, 1} /\ ram = tried
  BY DEF WriteAppliance, WriteStatistics, StoreStep, header, board,
         Controlled, StoreInv, StoreInProgress, Storing
<1>2. /\ Good(next) /\ NewestPage = next
      /\ page[next].appCrc = tried.app /\ page[next].statCrc = tried.stat
  BY <1>1 DEF StoreInv, StoreInProgress, Storing
<1>3. \A q \in {0, 1} :
         /\ page'[q].sig = page[q].sig /\ page'[q].counter = page[q].counter
         /\ page'[q].appCrc = page[q].appCrc
         /\ page'[q].statCrc = page[q].statCrc
  BY DEF WriteAppliance, WriteStatistics, TypeOK, FlashTyped, Page
<1>4. NewestPage' = NewestPage
  BY <1>3 DEF NewestPage, NoPage
<1>5. Clean' /\ CounterAhead'
  BY <1>1, <1>3 DEF StoreInv, Clean, CounterAhead, Good
<1>6. StoreInProgress' /\ NothingGood' /\ RestsOnKept'
  BY <1>1, <1>2, <1>3, <1>4
     DEF StoreInProgress, NothingGood, RestsOnKept, Storing, Good
<1>7. NewestIsCurrent'
  BY <1>1, <1>2, <1>3, <1>4 DEF NewestIsCurrent, Current
<1> QED
  BY <1>5, <1>6, <1>7 DEF StoreInv

\* A write that fails leaves what was current current.
LEMMA WriteFailsInv ==
    ASSUME TypeOK, Controlled, StoreInv, WriteHeaderRefused \/ WriteFault
    PROVE  StoreInv'
<1>1. /\ UNCHANGED <<next, counter, ram, tried, kept>>
      /\ pc \in Storing /\ pc' = "flip_failed" /\ next \in {0, 1}
      /\ UNCHANGED page \/ page' = [page EXCEPT ![next] = Torn]
  BY DEF WriteHeaderRefused, WriteFault, StoreStep, header, board, Controlled,
         Storing
<1>2. StoreInProgress' /\ NothingGood' /\ RestsOnKept'
  BY <1>1 DEF StoreInProgress, NothingGood, RestsOnKept, Storing
<1>3. CASE UNCHANGED page
  BY <1>1, <1>2, <1>3, SamePages
     DEF StoreInv, Clean, CounterAhead, Good, Storing
<1>4. CASE page' = [page EXCEPT ![next] = Torn]
  BY <1>1, <1>2, <1>4, DamageInv
     DEF StoreInv, Clean, CounterAhead, Storing
<1> QED
  BY <1>1, <1>3, <1>4

\* A complete store hands the page it wrote over to what was kept.
LEMMA StoreEndInv ==
    ASSUME TypeOK, Controlled, StoreInv, StoreDone \/ StoreFailed
    PROVE  StoreInv'
<1>1. /\ UNCHANGED <<page, counter, ram, tried, kept>>
      /\ pc' \notin Storing
      /\ pc' \notin {"off", "prepare", "blank_mark", "blank_first"}
      /\ pc # "off"
  BY DEF StoreDone, StoreFailed, flash, Storing, AfterStore, Controlled,
         TypeOK, BoardTyped, Callers
<1>2. Clean' /\ CounterAhead' /\ StoreInProgress' /\ NothingGood'
  BY <1>1
     DEF StoreInv, Clean, CounterAhead, StoreInProgress, NothingGood, Good,
         Storing
<1>3. NewestIsCurrent'
  BY <1>1, SamePages DEF StoreInv
<1>4. RestsOnKept'
  <2>1. CASE StoreDone
    BY <1>1, <2>1, SamePages
       DEF StoreDone, StoreInv, StoreInProgress, NewestIsCurrent, Current,
           RestsOnKept, AsKept
  <2>2. CASE StoreFailed
    <3>1. pc' # "run"
      BY <2>2
         DEF StoreFailed, Controlled, Storing, AfterStore, TypeOK,
             BoardTyped, Callers
    <3> QED
      BY <3>1 DEF RestsOnKept
  <2> QED
    BY <2>1, <2>2
<1> QED
  BY <1>2, <1>3, <1>4 DEF StoreInv

\* Every step of a store keeps the invariant.
LEMMA StoreInvStore ==
    ASSUME TypeOK, Controlled, StoreInv, Store \/ WriteFault
    PROVE  StoreInv'
<1>1. CASE BlockingFlush \/ RecoverFirst \/ RecoverNext
  <2>1. PICK p \in {0, 1} : FlushPage(p)
    BY <1>1
       DEF BlockingFlush, RecoverFirst, RecoverNext, Controlled, Recovering
  <2>2. /\ UNCHANGED <<kept, tried, ram, counter>>
        /\ pc # "off" /\ pc' \notin Storing \cup {"off"}
        /\ pc' \notin {"prepare", "blank_mark", "blank_first"}
    BY <1>1
       DEF BlockingFlush, RecoverFirst, RecoverNext, header, board, history,
           Storing, Recovering, AfterStore, Controlled, TypeOK, BoardTyped,
           Callers
  <2> QED
    BY <2>1, <2>2, FlushedInv DEF NothingGood
<1> QED
  BY <1>1, WriteHeaderInv, WriteSegmentInv, WriteFailsInv, StoreEndInv
     DEF Store

\* So does a step that leaves the flash and its history alone, and goes
\* neither into a store nor out of a boot.
LEMMA QuietInv ==
    ASSUME StoreInv, UNCHANGED <<page, counter, kept, tried>>,
           ram'.app.val \in Values, ram'.stat \in Values,
           pc # "off", pc' \notin Storing,
           pc' = "run" => pc = "run",
           pc' \notin {"off", "prepare", "blank_mark", "blank_first"}
    PROVE  StoreInv'
<1>1. Clean' /\ CounterAhead' /\ StoreInProgress' /\ NothingGood'
  BY DEF StoreInv, Clean, CounterAhead, StoreInProgress, NothingGood, Good,
         Storing
<1>2. NewestIsCurrent' /\ RestsOnKept'
  BY SamePages DEF StoreInv, RestsOnKept, AsKept
<1> QED
  BY <1>1, <1>2 DEF StoreInv

\* A pass of the 5 ms thread keeps the invariant.
LEMMA PassInv ==
    ASSUME TypeOK, Controlled, StoreInv, counter < 65535, AsynchPass
    PROVE  StoreInv'
<1>1. pc = "run" /\ UNCHANGED <<page, next, kept>>
  BY DEF AsynchPass, flash
<1>2. CASE HandlerStoring
  <2>1. ram.app \in Appliance /\ ram.app.val \in Values
    BY DEF TypeOK, DataTyped, Segments, StoreInv, Clean
  <2> QED
    BY <1>1, <1>2, <2>1, BeginStoreInv DEF HandlerStoring
<1>3. CASE HandlerIdle \/ HandlerStored
  <2>1. UNCHANGED <<counter, ram, tried>> /\ pc' \in {pc, "reset"}
    BY <1>3 DEF HandlerIdle, HandlerStored
  <2> QED
    BY <1>1, <2>1, QuietInv DEF StoreInv, Clean, Storing
<1> QED
  BY <1>2, <1>3 DEF AsynchPass

\* What the loss of power leaves of the pages.
LEMMA LostPageInv ==
    ASSUME TypeOK, StoreInv, PowerLost
    PROVE  /\ \A q \in {0, 1} : Good(q)' =>
                  /\ Good(q)
                  /\ page'[q].appCrc = page[q].appCrc
                  /\ page'[q].statCrc = page[q].statCrc
           /\ NewestIsCurrent'
<1>1. UNCHANGED <<kept, tried>>
  BY DEF PowerLost, history
<1>2. CASE UNCHANGED page
  BY <1>1, <1>2, SamePages DEF StoreInv, Good
<1>3. ASSUME NEW p \in {0, 1}, page' = [page EXCEPT ![p] = Torn]
      PROVE  /\ \A q \in {0, 1} : Good(q)' =>
                    /\ Good(q)
                    /\ page'[q].appCrc = page[q].appCrc
                    /\ page'[q].statCrc = page[q].statCrc
             /\ NewestIsCurrent'
  BY <1>1, <1>3, DamageInv
<1>4. ASSUME NEW p \in {0, 1}, NEW r \in Remains(page[p]),
             page' = [page EXCEPT ![p] = r]
      PROVE  /\ \A q \in {0, 1} : Good(q)' =>
                    /\ Good(q)
                    /\ page'[q].appCrc = page[q].appCrc
                    /\ page'[q].statCrc = page[q].statCrc
             /\ NewestIsCurrent'
  BY <1>1, <1>4, DamageInv
<1>5. /\ HeadedPage # NoPage => HeadedPage \in {0, 1}
      /\ ErasingPage # NoPage => ErasingPage \in {0, 1}
  BY DEF HeadedPage, ErasingPage, TypeOK, HeaderTyped, NoPage
<1> QED
  BY <1>2, <1>3, <1>4, <1>5 DEF PowerLost, TypeOK, FlashTyped

\* Setting the force flag keeps the type and the value of a segment.
LEMMA ForcedApp ==
    ASSUME NEW x \in Appliance
    PROVE  /\ [x EXCEPT !.force = TRUE] \in Appliance
           /\ [x EXCEPT !.force = TRUE].val = x.val
<1>1. [x EXCEPT !.force = TRUE].val = x.val
  BY DEF Appliance
<1>2. [x EXCEPT !.force = TRUE] \in Appliance
  BY DEF Appliance
<1> QED
  BY <1>1, <1>2

\* So do the other threads and the environment.
LEMMA EnvironmentInv ==
    ASSUME TypeOK, Controlled, StoreInv, counter < 65535,
           \/ ApplianceChanges \/ StatisticsChange \/ RequestStore
           \/ WarmReset \/ WakeUp \/ FirmwareUpdated \/ LineChanges
           \/ PowerLost
    PROVE  StoreInv'
<1>1. CASE ApplianceChanges \/ StatisticsChange
  <2>1. ram'.app.val \in Values /\ ram'.stat \in Values
    BY <1>1
       DEF ApplianceChanges, StatisticsChange, TypeOK, DataTyped, Segments,
           Appliance, StoreInv, Clean
  <2>2. UNCHANGED <<page, counter, kept, tried, pc>> /\ pc = "run"
    BY <1>1 DEF ApplianceChanges, StatisticsChange, flash, header, history
  <2> QED
    BY <2>1, <2>2, QuietInv DEF Storing
<1>2. CASE WarmReset \/ WakeUp \/ LineChanges
  <2>1. /\ UNCHANGED <<page, counter, kept, tried, ram>>
        /\ pc \in {"run", "asleep"} /\ pc' \in {"run", "reset"}
        /\ pc' = "run" => pc = "run"
    BY <1>2 DEF WarmReset, WakeUp, LineChanges, flash, header, history, board
  <2> QED
    BY <2>1, QuietInv DEF StoreInv, Clean, Storing
<1>3. CASE RequestStore
  <2>1. PICK c \in Callers, a \in Appliance :
           a.val = ram.app.val /\ BeginStore(c, a)
    <3>1. ram.app \in Appliance
      BY DEF TypeOK, DataTyped, Segments
    <3>2. CASE \E c \in {"blocking", "lowpower", "iap"} :
                  BeginStore(c, ram.app)
      BY <3>1, <3>2 DEF Callers
    <3>3. CASE BeginStore("corrupt", [ram.app EXCEPT !.force = TRUE])
      <4>1. /\ [ram.app EXCEPT !.force = TRUE] \in Appliance
            /\ [ram.app EXCEPT !.force = TRUE].val = ram.app.val
        BY <3>1, ForcedApp
      <4> DEFINE a == [ram.app EXCEPT !.force = TRUE]
      <4>2. a \in Appliance /\ a.val = ram.app.val /\ BeginStore("corrupt", a)
        BY <3>3, <4>1
      <4> HIDE DEF a
      <4> QED
        BY <4>2 DEF Callers
    <3> QED
      BY <1>3, <3>2, <3>3 DEF RequestStore
  <2>2. a.val \in Values
    BY <2>1 DEF StoreInv, Clean
  <2>3. pc = "run" /\ UNCHANGED <<page, next, kept>>
    BY <1>3 DEF RequestStore, flash
  <2> QED
    BY <2>1, <2>2, <2>3, BeginStoreInv
<1>4. CASE FirmwareUpdated \/ PowerLost
  <2>1. /\ UNCHANGED <<kept, tried>> /\ pc' = "off"
        /\ ram'.app.val \in Values /\ ram'.stat \in Values
    BY <1>4, Constants
       DEF FirmwareUpdated, PowerLost, RamLost, history, ZeroAppliance,
           BlankAppliance
  <2>2. /\ \A q \in {0, 1} : Good(q)' =>
               /\ Good(q)
               /\ page'[q].appCrc = page[q].appCrc
               /\ page'[q].statCrc = page[q].statCrc
        /\ NewestIsCurrent'
    <3>1. CASE PowerLost
      BY <3>1, LostPageInv
    <3>2. CASE FirmwareUpdated
      <4>1. UNCHANGED page
        BY <3>2 DEF FirmwareUpdated, flash
      <4> QED
        BY <2>1, <4>1, SamePages DEF StoreInv, Good
    <3> QED
      BY <1>4, <3>1, <3>2
  <2>3. Clean' /\ CounterAhead'
    BY <2>1, <2>2 DEF StoreInv, Clean, CounterAhead
  <2>4. StoreInProgress' /\ NothingGood' /\ RestsOnKept'
    BY <2>1 DEF StoreInProgress, NothingGood, RestsOnKept, Storing
  <2> QED
    BY <2>2, <2>3, <2>4 DEF StoreInv
<1> QED
  BY <1>1, <1>2, <1>3, <1>4

LEMMA NextInv ==
    ASSUME TypeOK, Controlled, StoreInv, counter < 65535, [Next]_vars
    PROVE  StoreInv'
<1>1. CASE UNCHANGED vars
  <2>1. UNCHANGED <<page, next, counter, ram, pc, kept, tried>>
    BY <1>1 DEF vars
  <2>2. /\ Clean' /\ CounterAhead' /\ StoreInProgress' /\ NothingGood'
        /\ RestsOnKept' /\ NewestIsCurrent'
    BY <2>1, SamePages
       DEF StoreInv, Clean, CounterAhead, StoreInProgress, NothingGood,
           RestsOnKept, AsKept, Good
  <2> QED
    BY <2>2 DEF StoreInv
<1>2. CASE Next
  BY <1>2, BootInv, StoreInvStore, PassInv, EnvironmentInv DEF Next
<1> QED
  BY <1>1, <1>2

\* The first state: both pages are erased.
LEMMA InitInv ==
    ASSUME Init
    PROVE  StoreInv
<1>1. ~Good(0) /\ ~Good(1)
  BY DEF Init, Good, Erased
<1>2. ram.app.val \in Values /\ ram.stat \in Values /\ pc = "off"
  BY Constants DEF Init, ZeroAppliance, BlankAppliance
<1> QED
  BY <1>1, <1>2
     DEF StoreInv, Clean, CounterAhead, StoreInProgress, NothingGood,
         NewestIsCurrent, RestsOnKept, Storing, Trusted

\* What a cold boot calls OKAY is what the newest page holds intact.
LEMMA OkayFromNewest ==
    ASSUME StoreInv, ColdBoot
    PROVE  /\ status'.app = "OKAY" =>
                 ram'.app = kept.app \/ ram'.app = tried.app
           /\ status'.stat = "OKAY" => ram'.stat \in {kept.stat, tried.stat}
<1>1. CASE NewestPage = NoPage
  BY <1>1 DEF ColdBoot
<1>2. CASE NewestPage # NoPage
  <2>1. /\ ram'.app = RestoreAppliance.seg /\ ram'.stat = RestoreStatistics.seg
        /\ status'.app = Demoted(RestoreAppliance.how)
        /\ status'.stat = Demoted(RestoreStatistics.how)
    BY <1>2 DEF ColdBoot
  <2>2. ASSUME "OKAY" \in {status'.app, status'.stat}
        PROVE  Current(NewestPage)
    BY <1>2, <2>1, <2>2, NewestCases
       DEF Demoted, StoreInv, NewestIsCurrent
  <2>3. status'.app = "OKAY" =>
           /\ page[NewestPage].app = page[NewestPage].appCrc
           /\ ram'.app = page[NewestPage].app
    BY <2>1 DEF Demoted, RestoreAppliance, ReadAppliance
  <2>4. status'.stat = "OKAY" =>
           /\ page[NewestPage].stat = page[NewestPage].statCrc
           /\ ram'.stat = page[NewestPage].stat
    BY <2>1 DEF Demoted, RestoreStatistics
  <2> QED
    BY <2>2, <2>3, <2>4 DEF Current
<1> QED
  BY <1>1, <1>2

\* The counter of the headers has not reached the end of its 16 bits.
CounterLow == counter < 65535

\* However boots and stores are cut, by power or by failing writes, a segment
\* the boot calls OKAY is that of the last store begun or completed, as long
\* as the counter that orders the two pages does not wrap.
THEOREM OkayIsLast == Spec /\ []CounterLow => OkayIsLastStore
<1>1. Init => TypeOK /\ Controlled /\ StoreInv
  BY InitTyped, InitInv
<1>2. TypeOK /\ Controlled /\ StoreInv /\ CounterLow /\ [Next]_vars
        => TypeOK' /\ Controlled' /\ StoreInv'
  BY NextTyped, ControlledNext, NextInv DEF CounterLow
<1>3. StoreInv /\ [Next]_vars
        => [ColdBoot =>
              /\ status'.app = "OKAY" =>
                    \/ ram'.app = kept.app
                    \/ ram'.app = tried.app
              /\ status'.stat = "OKAY" => ram'.stat \in {kept.stat, tried.stat}
           ]_vars
  BY OkayFromNewest
<1> QED
  BY <1>1, <1>2, <1>3, PTL DEF Spec, OkayIsLastStore
===============================================================================
