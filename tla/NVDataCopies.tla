----------------------------- MODULE NVDataCopies -----------------------------
(***************************************************************************)
(* What the two copies in flash are worth, for every value of the          *)
(* constants: what OKAY says of the session before, that the recovery of   *)
(* the supply always resets the board, that the last copy survives, that a *)
(* forced corruption is honoured, and that NVData implements Storage.      *)
(***************************************************************************)
EXTENDS NVDataProofs

-----------------------------------------------------------------------------
(* OkayMeansNothingRanSince.                                               *)

Booting == {"prepare", "blank_mark", "blank_first"}

\* The boot trusts the flash only while no boot has ended since the store: the
\* erase that ends every boot takes the trust away, a store gives it back.
TrustedIsFresh == Trusted => fresh

StoringIsFresh == pc \in Storing => fresh

FreshInv == TrustedIsFresh /\ StoringIsFresh /\ NothingGood

\* A step that leaves the history alone, does not add to the trust and goes
\* neither into a store nor into a boot keeps it.
LEMMA FreshRest ==
    ASSUME FreshInv, UNCHANGED fresh, Trusted' => Trusted,
           pc' \notin Storing, pc' \notin Booting
    PROVE  FreshInv'
BY DEF FreshInv, TrustedIsFresh, StoringIsFresh, NothingGood, Booting

\* The steps of a boot: the last one ends the trust.
LEMMA BootFresh ==
    ASSUME TypeOK, Controlled, FreshInv, Boot
    PROVE  FreshInv'
<1>1. CASE ColdBoot
  <2>1. UNCHANGED <<page, fresh>> /\ pc' = "prepare"
        /\ (next' = NoPage => NewestPage = NoPage)
    BY <1>1, ChoiceTyped DEF ColdBoot, flash, NoPage
  <2>2. NothingGood'
    BY <2>1, NewestCases, SamePages DEF NothingGood, NoPage
  <2> QED
    BY <2>1, <2>2, SamePages
       DEF FreshInv, TrustedIsFresh, StoringIsFresh, Storing
<1>2. CASE WarmBoot
  <2>1. /\ UNCHANGED <<page, next, fresh>> /\ pc' = "prepare"
        /\ next \in {0, 1}
    BY <1>2 DEF WarmBoot, flash, header, history, Controlled
  <2> QED
    BY <2>1, SamePages
       DEF FreshInv, TrustedIsFresh, StoringIsFresh, Storing, NothingGood,
           NoPage
<1>3. CASE BlankEraseSecond \/ BlankMark
  <2>1. ~Good(0) /\ ~Good(1)
    BY <1>3 DEF FreshInv, NothingGood, BlankEraseSecond, BlankMark
  <2>2. ~Good(0)' /\ ~Good(1)' /\ pc' \notin Storing
    <3>1. CASE BlankEraseSecond
      BY <2>1, <3>1, FlushedPage
         DEF BlankEraseSecond, Good, TypeOK, Storing
    <3>2. CASE BlankMark
      BY <2>1, <3>2 DEF BlankMark, Good, TypeOK, FlashTyped, Page, Storing
    <3> QED
      BY <1>3, <3>1, <3>2
  <2> QED
    BY <2>2
       DEF FreshInv, TrustedIsFresh, StoringIsFresh, NothingGood, Trusted
<1>4. CASE BlankEraseFirst \/ PreparePage
  <2>1. PICK p \in {0, 1} : FlushPage(p)
    BY <1>4 DEF BlankEraseFirst, PreparePage, TypeOK, HeaderTyped
  <2>2. ~Trusted' /\ pc' = "run"
    BY <1>4, <2>1, FlushedPage DEF BlankEraseFirst, PreparePage, TypeOK
  <2> QED
    BY <2>2
       DEF FreshInv, TrustedIsFresh, StoringIsFresh, NothingGood, Storing
<1> QED
  BY <1>1, <1>2, <1>3, <1>4 DEF Boot

\* The steps of a store belong to the store begun last.
LEMMA StoreFresh ==
    ASSUME TypeOK, Controlled, FreshInv, Store \/ WriteFault
    PROVE  FreshInv'
<1>1. CASE BlockingFlush \/ RecoverFirst \/ RecoverNext
  <2>1. PICK p \in {0, 1} : FlushPage(p)
    BY <1>1
       DEF BlockingFlush, RecoverFirst, RecoverNext, Controlled, Recovering
  <2>2. /\ ~Trusted' /\ UNCHANGED fresh
        /\ pc' \notin Storing /\ pc' \notin Booting
    BY <1>1, <2>1, FlushedPage
       DEF BlockingFlush, RecoverFirst, RecoverNext, history, AfterStore,
           Controlled, Recovering, TypeOK, BoardTyped, Callers, Storing,
           Booting
  <2> QED
    BY <2>2, FreshRest
<1>2. CASE \/ WriteHeader \/ WriteHeaderRefused \/ WriteAppliance
           \/ WriteStatistics \/ WriteFault
  <2>1. pc \in Storing /\ pc' \in Storing /\ UNCHANGED fresh
    BY <1>2
       DEF WriteHeader, WriteHeaderRefused, WriteAppliance, WriteStatistics,
           WriteFault, StoreStep, Storing
  <2> QED
    BY <2>1
       DEF FreshInv, TrustedIsFresh, StoringIsFresh, NothingGood, Storing
<1>3. CASE StoreDone \/ StoreFailed
  <2>1. UNCHANGED <<page, fresh>> /\ pc' \notin Storing /\ pc' \notin Booting
    BY <1>3
       DEF StoreDone, StoreFailed, flash, AfterStore, Controlled, TypeOK,
           BoardTyped, Callers, Storing, Booting
  <2> QED
    BY <2>1, FreshRest, SamePages
<1> QED
  BY <1>1, <1>2, <1>3 DEF Store

\* Whatever begins a store begins a session of its own.
LEMMA BeginFresh ==
    ASSUME FreshInv, NEW c, NEW a, BeginStore(c, a)
    PROVE  FreshInv'
BY DEF BeginStore, FreshInv, TrustedIsFresh, StoringIsFresh, NothingGood

\* The loss of power adds nothing to the flash.
LEMMA LossNotTrusted ==
    ASSUME TypeOK, PowerLost
    PROVE  Trusted' => Trusted
<1>1. CASE UNCHANGED page
  BY <1>1, SamePages
<1>2. ASSUME NEW p \in {0, 1}, page' = [page EXCEPT ![p] = Torn]
      PROVE  Trusted' => Trusted
  BY <1>2, TornPage DEF TypeOK
<1>3. ASSUME NEW p \in {0, 1}, NEW r \in Remains(page[p]),
             page' = [page EXCEPT ![p] = r]
      PROVE  Trusted' => Trusted
  <2>1. \A q \in {0, 1} : page'[q].sig \in {page[q].sig, "torn"}
    BY <1>3, RemainsOfPage DEF TypeOK
  <2> QED
    BY <2>1 DEF Trusted, Good
<1>4. /\ HeadedPage # NoPage => HeadedPage \in {0, 1}
      /\ ErasingPage # NoPage => ErasingPage \in {0, 1}
  BY DEF HeadedPage, ErasingPage, TypeOK, HeaderTyped, NoPage
<1> QED
  BY <1>1, <1>2, <1>3, <1>4 DEF PowerLost

LEMMA NextFresh ==
    ASSUME TypeOK, Controlled, FreshInv, [Next]_vars
    PROVE  FreshInv'
<1>1. CASE UNCHANGED vars
  <2>1. UNCHANGED <<page, next, pc, fresh>>
    BY <1>1 DEF vars
  <2> QED
    BY <2>1, SamePages
       DEF FreshInv, TrustedIsFresh, StoringIsFresh, NothingGood
<1>2. CASE AsynchPass
  <2>1. CASE HandlerStoring
    BY <2>1, BeginFresh DEF HandlerStoring
  <2>2. CASE HandlerIdle \/ HandlerStored
    <3>1. UNCHANGED <<page, fresh>> /\ pc' \in {"run", "reset"}
      BY <1>2, <2>2 DEF AsynchPass, flash, HandlerIdle, HandlerStored
    <3> QED
      BY <3>1, FreshRest, SamePages DEF Storing, Booting
  <2> QED
    BY <1>2, <2>1, <2>2 DEF AsynchPass
<1>3. CASE RequestStore
  BY <1>3, BeginFresh DEF RequestStore
<1>4. CASE \/ ApplianceChanges \/ StatisticsChange \/ WarmReset \/ WakeUp
           \/ FirmwareUpdated \/ LineChanges
  <2>1. UNCHANGED <<page, fresh>> /\ pc' \in {"run", "reset", "off"}
    BY <1>4
       DEF ApplianceChanges, StatisticsChange, WarmReset, WakeUp,
           FirmwareUpdated, LineChanges, RamLost, flash, history
  <2> QED
    BY <2>1, FreshRest, SamePages DEF Storing, Booting
<1>5. CASE PowerLost
  <2>1. UNCHANGED fresh /\ pc' = "off"
    BY <1>5 DEF PowerLost, RamLost, history
  <2> QED
    BY <1>5, <2>1, FreshRest, LossNotTrusted DEF Storing, Booting
<1> QED
  BY <1>1, <1>2, <1>3, <1>4, <1>5, BootFresh, StoreFresh DEF Next

LEMMA InitFresh ==
    ASSUME Init
    PROVE  FreshInv
BY DEF Init, FreshInv, TrustedIsFresh, StoringIsFresh, NothingGood, Trusted,
       Good, Erased, Storing

\* What is OKAY has been read from pages the boot trusts.
LEMMA OkayIsFresh ==
    ASSUME FreshInv, ColdBoot, "OKAY" \in {status'.app, status'.stat}
    PROVE  fresh
<1>1. NewestPage # NoPage
  BY DEF ColdBoot
<1>2. ~OnlyCopy
  BY <1>1 DEF ColdBoot, Demoted
<1> QED
  BY <1>1, <1>2, NewestCases DEF FreshInv, TrustedIsFresh

\* A boot that reports OKAY for a segment found the flash as the last store
\* left it: no other boot ended in between, and so nothing ran that was not
\* stored.
THEOREM NothingRanSince == Spec => OkayMeansNothingRanSince
<1>1. Init => TypeOK /\ Controlled /\ FreshInv
  BY InitTyped, InitFresh
<1>2. TypeOK /\ Controlled /\ FreshInv /\ [Next]_vars
        => TypeOK' /\ Controlled' /\ FreshInv'
  BY NextTyped, ControlledNext, NextFresh
<1>3. FreshInv /\ [Next]_vars
        => [ColdBoot /\ "OKAY" \in {status'.app, status'.stat} => fresh]_vars
  BY OkayIsFresh
<1> QED
  BY <1>1, <1>2, <1>3, PTL DEF Spec, OkayMeansNothingRanSince

-----------------------------------------------------------------------------
(* RecoveryResets.                                                         *)

\* The page a store will write is erased, until the handler has stored.
ReadyToStore ==
    /\ pc \in {"run", "write_header"} /\ state # "STORED"
         => page[next].sig = "erased"
    /\ pc = "recover_next" => page[0].sig = "erased"

\* A brown-out has told the handler, and a recovery of the flash is in ERROR.
RecoverIsTold ==
    /\ monitor = "RECOVER" => state # "IDLE"
    /\ pc \in Recovering => state = "ERROR"

\* A store of the handler is in progress that no write has failed so far.
HandlerStores ==
    pc \in Storing \ {"flip_failed"} /\ caller = "handler"

\* The filter has counted one pass for the store in progress and one for each
\* write that failed, at most.
FilterWaits ==
    /\ monitor # "RECOVER" /\ pc # "reset" => filter = RecoverTicks
    /\ monitor = "RECOVER" /\ state \in {"STORING", "ERROR"} =>
          /\ filter + faults + 1 >= RecoverTicks
          /\ ~HandlerStores => filter + faults >= RecoverTicks

FaultsBounded == faults \in 0 .. MaxFaults

RecoverInv == ReadyToStore /\ RecoverIsTold /\ FilterWaits /\ FaultsBounded

\* The filter and its reload are numbers of 16 bits.
LEMMA FilterIsNat ==
    ASSUME TypeOK
    PROVE  filter \in Nat /\ filter <= 65535 /\ RecoverTicks \in Nat
<1>1. PICK n \in 0 .. FilterWidth - 1 : n = filter
  BY DEF TypeOK, PowerTyped
<1>2. n \in Nat /\ n <= 65535
  BY <1>1 DEF FilterWidth
<1>3. filter \in Nat /\ filter <= 65535
  BY <1>1, <1>2
<1>4. RecoverTicks \in Nat
  BY BoundsAssumption DEF BoundsAssumption
<1> QED
  BY <1>3, <1>4

\* What the filter owes the stores, across a step that does not count it.
LEMMA KeepsWaiting ==
    ASSUME TypeOK, FilterWaits, faults \in Nat,
           UNCHANGED <<monitor, filter>>, pc # "reset" \/ pc' = "reset",
           state' \in {"STORING", "ERROR"} =>
              /\ state \in {"STORING", "ERROR"}
              /\ \/ faults' = faults + 1
                 \/ faults' = faults /\ (HandlerStores => HandlerStores')
    PROVE  FilterWaits'
<1>1. filter \in Nat /\ RecoverTicks \in Nat
  BY FilterIsNat
<1>2. CASE monitor = "RECOVER" /\ state' \in {"STORING", "ERROR"}
  <2>1. /\ filter + faults + 1 >= RecoverTicks
        /\ ~HandlerStores => filter + faults >= RecoverTicks
    BY <1>2 DEF FilterWaits
  <2>2. CASE faults' = faults + 1
    <3>1. filter' + faults' >= RecoverTicks
      BY <1>1, <2>1, <2>2
    <3>2. filter' + faults' + 1 >= RecoverTicks
      BY <1>1, <2>1, <2>2
    <3> QED
      BY <1>2, <3>1, <3>2 DEF FilterWaits
  <2>3. CASE faults' = faults /\ (HandlerStores => HandlerStores')
    BY <1>2, <2>1, <2>3 DEF FilterWaits
  <2> QED
    BY <1>2, <2>2, <2>3
<1>3. CASE ~(monitor = "RECOVER" /\ state' \in {"STORING", "ERROR"})
  BY <1>3 DEF FilterWaits
<1> QED
  BY <1>2, <1>3

\* Both machines start again.
LEMMA RestartedRecover ==
    ASSUME NvdataInitialize, BrownOutInitialize, FaultsBounded,
           UNCHANGED faults, pc' \in {"prepare", "off"}
    PROVE  RecoverInv'
BY DEF NvdataInitialize, BrownOutInitialize, RecoverInv, ReadyToStore,
       RecoverIsTold, FilterWaits, FaultsBounded, Recovering

LEMMA FaultsAreNat ==
    ASSUME FaultsBounded
    PROVE  faults \in Nat
BY BoundsAssumption DEF BoundsAssumption, FaultsBounded

LEMMA BootRecover ==
    ASSUME TypeOK, RecoverInv, Boot
    PROVE  RecoverInv'
<1>1. CASE ColdBoot \/ WarmBoot
  BY <1>1, RestartedRecover DEF ColdBoot, WarmBoot, flash, RecoverInv
<1>2. CASE BlankEraseSecond \/ BlankMark \/ BlankEraseFirst \/ PreparePage
  <2>1. /\ UNCHANGED <<state, monitor, filter, faults, caller>>
        /\ pc \in Booting /\ pc' \in Booting \cup {"run"}
    BY <1>2
       DEF BlankEraseSecond, BlankMark, BlankEraseFirst, PreparePage, board,
           supply, Booting
  <2>2. pc' = "run" => page'[next'].sig = "erased"
    <3>1. CASE BlankEraseFirst
      BY <3>1, BlankTyped
         DEF BlankEraseFirst, FlushPage, Erased, TypeOK, FlashTyped
    <3>2. CASE PreparePage
      BY <3>2
         DEF PreparePage, FlushPage, Erased, header, TypeOK, FlashTyped,
             HeaderTyped
    <3> QED
      BY <1>2, <3>1, <3>2 DEF BlankEraseSecond, BlankMark
  <2>3. ReadyToStore' /\ RecoverIsTold' /\ FaultsBounded'
    BY <2>1, <2>2
       DEF RecoverInv, ReadyToStore, RecoverIsTold, FaultsBounded, Recovering,
           Booting
  <2>4. ~HandlerStores
    BY <2>1 DEF HandlerStores, Storing, Booting
  <2>5. FilterWaits'
    BY <2>1, <2>4, FaultsAreNat, KeepsWaiting DEF RecoverInv, Booting
  <2> QED
    BY <2>3, <2>5 DEF RecoverInv
<1> QED
  BY <1>1, <1>2 DEF Boot

\* The handler never meets a page it cannot write: only a fault makes its
\* store fail.
LEMMA WriteRecover ==
    ASSUME TypeOK, Controlled, RecoverInv,
           \/ WriteHeader \/ WriteHeaderRefused \/ WriteAppliance
           \/ WriteStatistics \/ WriteFault
    PROVE  RecoverInv'
<1>1. /\ UNCHANGED <<state, monitor, filter, caller, next>>
      /\ pc \in Storing \ {"flip_done", "flip_failed"}
      /\ pc' \in Storing \ {"write_header"}
  BY DEF WriteHeader, WriteHeaderRefused, WriteAppliance, WriteStatistics,
         WriteFault, StoreStep, header, board, supply, Storing
<1>2. FaultsBounded'
  <2>1. faults \in Nat /\ MaxFaults \in Nat /\ faults <= MaxFaults
    BY BoundsAssumption DEF BoundsAssumption, RecoverInv, FaultsBounded
  <2>2. UNCHANGED faults \/ (faults < MaxFaults /\ faults' = faults + 1)
    <3>1. CASE WriteFault
      BY <3>1 DEF WriteFault, WriteFailsOnFault
    <3>2. CASE ~WriteFault
      BY <3>2
         DEF WriteHeader, WriteHeaderRefused, WriteAppliance, WriteStatistics
    <3> QED
      BY <3>1, <3>2
  <2> QED
    BY <2>1, <2>2 DEF FaultsBounded
<1>3. ReadyToStore' /\ RecoverIsTold'
  BY <1>1
     DEF RecoverInv, ReadyToStore, RecoverIsTold, Storing, Recovering
<1>4. \/ faults' = faults + 1
      \/ faults' = faults /\ (HandlerStores => HandlerStores')
  <2>1. CASE WriteFault
    BY <2>1 DEF WriteFault, WriteFailsOnFault
  <2>2. CASE WriteHeaderRefused
    <3>1. /\ pc = "write_header" /\ page[next].sig # "erased"
          /\ UNCHANGED faults
      BY <2>2 DEF WriteHeaderRefused, StoreStep
    <3>2. caller # "handler"
      BY <3>1 DEF Controlled, Storing, RecoverInv, ReadyToStore
    <3> QED
      BY <3>1, <3>2 DEF HandlerStores
  <2>3. CASE WriteHeader \/ WriteAppliance \/ WriteStatistics
    <3>1. pc' \in Storing \ {"flip_failed"} /\ UNCHANGED faults
      BY <2>3 DEF WriteHeader, WriteAppliance, WriteStatistics, Storing
    <3> QED
      BY <1>1, <3>1 DEF HandlerStores
  <2> QED
    BY <2>1, <2>2, <2>3
<1>5. FilterWaits'
  BY <1>1, <1>4, FaultsAreNat, KeepsWaiting DEF RecoverInv, Storing
<1> QED
  BY <1>2, <1>3, <1>5 DEF RecoverInv

LEMMA StoreEndRecover ==
    ASSUME TypeOK, Controlled, RecoverInv,
           StoreDone \/ StoreFailed \/ BlockingFlush \/ RecoverFirst
              \/ RecoverNext
    PROVE  RecoverInv'
<1>1. /\ UNCHANGED <<monitor, filter, faults>> /\ pc # "reset"
      /\ state' \in {"STORING", "ERROR"} => state \in {"STORING", "ERROR"}
  BY DEF StoreDone, StoreFailed, BlockingFlush, RecoverFirst, RecoverNext,
         board, supply, flash, RecoverInv, RecoverIsTold, Recovering
<1>2. state' \in {"STORING", "ERROR"} => ~HandlerStores
  <2>1. CASE StoreDone
    <3>1. caller = "handler" => state' = "STORED"
      BY <2>1 DEF StoreDone, Controlled, Storing
    <3> QED
      BY <3>1 DEF HandlerStores
  <2>2. CASE StoreFailed \/ BlockingFlush \/ RecoverFirst \/ RecoverNext
    BY <2>2
       DEF StoreFailed, BlockingFlush, RecoverFirst, RecoverNext,
           HandlerStores, Storing
  <2> QED
    BY <2>1, <2>2
<1>3. FilterWaits' /\ FaultsBounded'
  BY <1>1, <1>2, FaultsAreNat, KeepsWaiting DEF RecoverInv, FaultsBounded
<1>4. RecoverIsTold'
  <2>1. state' = "IDLE" => state = "IDLE"
    BY DEF StoreDone, StoreFailed, BlockingFlush, RecoverFirst, RecoverNext,
           board
  <2>2. pc' \in Recovering => state' = "ERROR"
    BY DEF StoreDone, StoreFailed, BlockingFlush, RecoverFirst, RecoverNext,
           AfterStore, Controlled, Storing, Recovering, TypeOK, BoardTyped,
           Callers, RecoverInv, RecoverIsTold, board
  <2> QED
    BY <1>1, <2>1, <2>2 DEF RecoverInv, RecoverIsTold
<1>5. ReadyToStore'
  <2>1. CASE StoreDone \/ StoreFailed
    <3>1. pc' = "run" => state' = "STORED"
      BY <2>1
         DEF StoreDone, StoreFailed, AfterStore, Controlled, Storing, TypeOK,
             BoardTyped, Callers
    <3>2. pc' \notin {"write_header", "recover_next"}
      BY <2>1
         DEF StoreDone, StoreFailed, AfterStore, Controlled, Storing, TypeOK,
             BoardTyped, Callers
    <3> QED
      BY <3>1, <3>2 DEF ReadyToStore
  <2>2. CASE BlockingFlush \/ RecoverFirst \/ RecoverNext
    <3>1. PICK p \in {0, 1} : FlushPage(p)
      BY <2>2
         DEF BlockingFlush, RecoverFirst, RecoverNext, Controlled, Recovering
    <3>2. next \in {0, 1}
      BY <2>2
         DEF BlockingFlush, RecoverFirst, RecoverNext, Controlled, Recovering
    <3>3. CASE BlockingFlush
      BY <3>2, <3>3
         DEF BlockingFlush, FlushPage, Erased, header, TypeOK, FlashTyped,
             ReadyToStore
    <3>4. CASE RecoverFirst
      BY <3>4
         DEF RecoverFirst, FlushPage, Erased, TypeOK, FlashTyped, ReadyToStore
    <3>5. CASE RecoverNext
      <4>1. page[0].sig = "erased"
        BY <3>5 DEF RecoverNext, RecoverInv, ReadyToStore
      <4>2. page'[0].sig = "erased" /\ next' = 0
        BY <3>2, <3>5, <4>1
           DEF RecoverNext, FlushPage, Erased, TypeOK, FlashTyped
      <4>3. pc' # "recover_next"
        BY <3>5
           DEF RecoverNext, AfterStore, Controlled, Recovering, TypeOK,
               BoardTyped, Callers
      <4> QED
        BY <4>2, <4>3 DEF ReadyToStore
    <3> QED
      BY <2>2, <3>3, <3>4, <3>5
  <2> QED
    BY <2>1, <2>2
<1> QED
  BY <1>3, <1>4, <1>5 DEF RecoverInv

\* The pass in which the filter expires finds the data stored.
LEMMA PassRecover ==
    ASSUME MaxFaults < RecoverTicks, TypeOK, RecoverInv, AsynchPass
    PROVE  /\ RecoverInv'
           /\ monitor = "RECOVER" /\ monitor' = "DETECT" => pc' = "reset"
<1>1. /\ pc = "run" /\ UNCHANGED <<page, next, faults>>
      /\ faults \in Nat /\ faults <= MaxFaults /\ MaxFaults \in Nat
  BY FaultsAreNat, BoundsAssumption
     DEF AsynchPass, flash, RecoverInv, FaultsBounded, BoundsAssumption
<1>2. filter \in Nat /\ filter <= 65535 /\ RecoverTicks \in Nat
  BY FilterIsNat
<1>3. CASE HandlerStored
  <2>1. state = "STORED" /\ state' = "STORED" /\ pc' \in {"run", "reset"}
    BY <1>1, <1>3 DEF HandlerStored
  <2>2. \/ monitor' # "RECOVER" /\ monitor # "RECOVER" /\ filter' = filter
        \/ monitor' = "RECOVER"
        \/ monitor = "RECOVER" /\ monitor' = "DETECT" /\ brownout' = FALSE
    BY DEF AsynchPass, BrownOutMonitor, DetectStablePower,
           DetectBrownOutEvent, DetectBrownOutRecover
  <2>3. brownout' = FALSE => pc' = "reset"
    BY <1>3 DEF HandlerStored
  <2>4. FilterWaits'
    BY <1>1, <2>1, <2>2, <2>3 DEF RecoverInv, FilterWaits
  <2>5. ReadyToStore' /\ RecoverIsTold' /\ FaultsBounded'
    BY <1>1, <2>1
       DEF RecoverInv, ReadyToStore, RecoverIsTold, FaultsBounded, Recovering
  <2> QED
    BY <2>2, <2>3, <2>4, <2>5 DEF RecoverInv
<1>4. CASE HandlerIdle
  <2>1. /\ state = "IDLE" /\ UNCHANGED <<pc, caller>>
        /\ state' = IF brownout' THEN "STORING" ELSE "IDLE"
    BY <1>4 DEF HandlerIdle
  <2>2. monitor # "RECOVER" /\ filter = RecoverTicks
    BY <1>1, <2>1 DEF RecoverInv, RecoverIsTold, FilterWaits
  <2>3. /\ filter' = RecoverTicks
        /\ monitor' = "RECOVER" => brownout' = TRUE
    BY <2>2
       DEF AsynchPass, BrownOutMonitor, DetectStablePower,
           DetectBrownOutEvent, DetectBrownOutRecover
  <2>4. /\ filter' + faults' >= RecoverTicks
        /\ filter' + faults' + 1 >= RecoverTicks
    BY <1>1, <1>2, <2>3
  <2>5. FilterWaits'
    BY <2>3, <2>4 DEF FilterWaits
  <2>6. monitor' = "RECOVER" => state' # "IDLE"
    BY <2>1, <2>3
  <2>7. ReadyToStore' /\ RecoverIsTold' /\ FaultsBounded'
    BY <1>1, <2>1, <2>6
       DEF RecoverInv, ReadyToStore, RecoverIsTold, FaultsBounded, Recovering
  <2> QED
    BY <2>2, <2>5, <2>7 DEF RecoverInv
<1>5. CASE HandlerStoring
  <2>1. /\ state = "STORING" /\ state' = "STORING"
        /\ pc' = "write_header" /\ caller' = "handler"
    BY <1>5 DEF HandlerStoring, BeginStore
  <2>2. HandlerStores'
    BY <2>1 DEF HandlerStores, Storing
  <2>3. ASSUME monitor = "RECOVER"
        PROVE  FilterWaits' /\ monitor' = "RECOVER"
    <3>1. filter + faults >= RecoverTicks
      BY <1>1, <2>1, <2>3
         DEF RecoverInv, FilterWaits, HandlerStores, Storing
    <3>2. filter # 0
      BY <1>1, <1>2, <3>1
    <3>3. /\ monitor' = "RECOVER"
          /\ filter' \in {(filter - 1) % 65536, RecoverTicks}
      BY <2>3, <3>2
         DEF AsynchPass, BrownOutMonitor, DetectStablePower,
             DetectBrownOutEvent, DetectBrownOutRecover, FilterWidth
    <3>4. (filter - 1) % 65536 = filter - 1
      BY <1>2, <3>2
    <3>5. filter' + faults' + 1 >= RecoverTicks
      <4>1. CASE filter' = RecoverTicks
        BY <1>1, <1>2, <4>1
      <4>2. CASE filter' = filter - 1
        BY <1>1, <1>2, <3>1, <4>2
      <4> QED
        BY <3>3, <3>4, <4>1, <4>2
    <3>6. FilterWaits'
      BY <2>2, <3>3, <3>5 DEF FilterWaits
    <3> QED
      BY <3>3, <3>6
  <2>4. ASSUME monitor # "RECOVER"
        PROVE  FilterWaits'
    <3>1. filter = RecoverTicks
      BY <1>1, <2>4 DEF RecoverInv, FilterWaits
    <3>2. filter' = RecoverTicks
      BY <2>4, <3>1
         DEF AsynchPass, BrownOutMonitor, DetectStablePower,
             DetectBrownOutEvent, DetectBrownOutRecover
    <3>3. filter' + faults' + 1 >= RecoverTicks
      BY <1>1, <1>2, <3>2
    <3> QED
      BY <2>2, <2>4, <3>2, <3>3 DEF FilterWaits
  <2>5. FilterWaits' /\ (monitor = "RECOVER" => monitor' = "RECOVER")
    BY <2>3, <2>4
  <2>6. ReadyToStore' /\ RecoverIsTold' /\ FaultsBounded'
    BY <1>1, <2>1
       DEF RecoverInv, ReadyToStore, RecoverIsTold, FaultsBounded, Recovering
  <2> QED
    BY <2>5, <2>6 DEF RecoverInv
<1> QED
  BY <1>3, <1>4, <1>5 DEF AsynchPass

LEMMA EnvironmentRecover ==
    ASSUME TypeOK, RecoverInv,
           \/ ApplianceChanges \/ StatisticsChange \/ RequestStore
           \/ WarmReset \/ WakeUp \/ FirmwareUpdated \/ LineChanges
           \/ PowerLost
    PROVE  RecoverInv'
<1>1. CASE FirmwareUpdated \/ PowerLost
  BY <1>1, RestartedRecover
     DEF FirmwareUpdated, PowerLost, RamLost, flash, RecoverInv
<1>2. CASE \/ ApplianceChanges \/ StatisticsChange \/ RequestStore
           \/ WarmReset \/ WakeUp \/ LineChanges
  <2>1. /\ UNCHANGED <<page, next, state, monitor, filter, faults>>
        /\ pc \in {"run", "asleep"}
        /\ \/ pc' = "reset"
           \/ pc = "run" /\ pc' = "run"
           \/ pc = "run" /\ pc' = "write_header" /\ caller' # "handler"
    BY <1>2
       DEF ApplianceChanges, StatisticsChange, RequestStore, BeginStore,
           WarmReset, WakeUp, LineChanges, flash, header, supply, board
  <2>2. ~HandlerStores
    BY <2>1 DEF HandlerStores, Storing
  <2>3. FilterWaits'
    BY <2>1, <2>2, FaultsAreNat, KeepsWaiting DEF RecoverInv
  <2>4. ReadyToStore' /\ RecoverIsTold' /\ FaultsBounded'
    BY <2>1
       DEF RecoverInv, ReadyToStore, RecoverIsTold, FaultsBounded, Recovering
  <2> QED
    BY <2>3, <2>4 DEF RecoverInv
<1> QED
  BY <1>1, <1>2

\* Only a pass of the 5 ms thread moves the monitor from RECOVER to DETECT.
LEMMA OnlyPassDetects ==
    ASSUME Next, monitor = "RECOVER", monitor' = "DETECT"
    PROVE  AsynchPass
BY DEF Next, Boot, Store, ColdBoot, WarmBoot, BlankEraseSecond, BlankMark,
       BlankEraseFirst, PreparePage, WriteHeader, WriteHeaderRefused,
       WriteAppliance, WriteStatistics, WriteFault, StoreStep, StoreDone,
       StoreFailed, BlockingFlush, RecoverFirst, RecoverNext,
       ApplianceChanges, StatisticsChange, RequestStore, WarmReset, WakeUp,
       FirmwareUpdated, LineChanges, PowerLost, RamLost, BrownOutInitialize,
       board, supply

LEMMA NextRecover ==
    ASSUME MaxFaults < RecoverTicks, TypeOK, Controlled, RecoverInv,
           [Next]_vars
    PROVE  /\ RecoverInv'
           /\ [monitor = "RECOVER" /\ monitor' = "DETECT"
                 => pc' = "reset"]_vars
<1>1. CASE UNCHANGED vars
  <2>1. UNCHANGED <<page, next, pc, state, monitor, filter, faults, caller>>
    BY <1>1 DEF vars
  <2>2. RecoverInv'
    BY <2>1
       DEF RecoverInv, ReadyToStore, RecoverIsTold, FilterWaits,
           FaultsBounded, HandlerStores
  <2> QED
    BY <1>1, <2>2
<1>2. CASE Next
  <2>1. RecoverInv'
    BY <1>2, BootRecover, WriteRecover, StoreEndRecover, PassRecover,
       EnvironmentRecover DEF Next, Store
  <2>2. monitor = "RECOVER" /\ monitor' = "DETECT" => pc' = "reset"
    BY <1>2, OnlyPassDetects, PassRecover
  <2> QED
    BY <2>1, <2>2
<1> QED
  BY <1>1, <1>2

LEMMA InitRecover ==
    ASSUME Init
    PROVE  RecoverInv
BY BoundsAssumption
   DEF Init, BoundsAssumption, RecoverInv, ReadyToStore, RecoverIsTold,
       FilterWaits, FaultsBounded, Recovering

\* The return of the supply always resets the board, after the data are
\* stored: the filter is longer than the stores that may have to be tried
\* again, as long as fewer writes fail than it has ticks.
THEOREM RecoveryEnds ==
    ASSUME MaxFaults < RecoverTicks
    PROVE  Spec => RecoveryResets
<1>1. Init => TypeOK /\ Controlled /\ RecoverInv
  BY InitTyped, InitRecover
<1>2. TypeOK /\ Controlled /\ RecoverInv /\ [Next]_vars
        => /\ TypeOK' /\ Controlled' /\ RecoverInv'
           /\ [monitor = "RECOVER" /\ monitor' = "DETECT"
                 => pc' = "reset"]_vars
  BY NextTyped, ControlledNext, NextRecover
<1> QED
  BY <1>1, <1>2, PTL DEF Spec, RecoveryResets

-----------------------------------------------------------------------------
(* LastCopySurvives and ForcedCorruption.                                  *)

ErasedIsEmpty ==
    \A p \in {0, 1} : page[p].sig = "erased" =>
        page[p].app = GarbledAppliance /\ page[p].stat = Garbage

\* How much of the page the store in progress has written.
WrittenSoFar ==
    /\ pc \in {"write_appliance", "write_statistics"} =>
          page[next].stat = Garbage
    /\ pc \in {"write_statistics", "flip_done"} => page[next].app = ram.app
    /\ pc = "flip_done" => page[next].stat = ram.stat

\* A whole page the boot would trust holds the last complete copy.
WholeIsKept == Trusted /\ Whole(NewestPage) => HoldsKept(NewestPage)

\* The page no store and no boot will touch.
SafePage == IF pc = "flip_done" THEN next ELSE Other(next)

\* Nothing that costs the copy has happened since the last cold boot.
Spared == ~failed /\ pc # "off" /\ ~BootsFromCutStore

\* If the copy is in flash at all, it is on the safe page.
SafePageHoldsKept ==
    Spared /\ CopyInFlash =>
        /\ next \in {0, 1} /\ pc \notin {"blank_mark", "blank_first"}
        /\ HoldsKept(SafePage)

RecoveryFailed == pc \in Recovering => failed

\* A store that asks for the corruption leaves the flag in the newest page.
ForcedInStore ==
    /\ pc \in Storing /\ caller = "corrupt" => ram.app.force
    /\ pc = "cold_reset" /\ ~failed =>
          /\ NewestPage # NoPage /\ Whole(NewestPage)
          /\ page[NewestPage].app.force

CopyInv == /\ ErasedIsEmpty /\ WrittenSoFar /\ WholeIsKept
           /\ SafePageHoldsKept /\ RecoveryFailed /\ ForcedInStore

\* What the pages hold is what they held.
LEMMA SameCopies ==
    ASSUME UNCHANGED <<page, kept>>
    PROVE  /\ \A p \in {0, 1} : HoldsKept(p)' <=> HoldsKept(p)
           /\ \A p \in {0, 1} : Whole(p)' <=> Whole(p)
           /\ ErasedIsEmpty => ErasedIsEmpty'
           /\ WholeIsKept => WholeIsKept'
<1>1. /\ \A p \in {0, 1} : HoldsKept(p)' <=> HoldsKept(p)
      /\ \A p \in {0, 1} : Whole(p)' <=> Whole(p)
      /\ ErasedIsEmpty => ErasedIsEmpty'
  BY DEF HoldsKept, Whole, ErasedIsEmpty
<1>2. WholeIsKept => WholeIsKept'
  <2>1. NewestPage' = NewestPage /\ (Trusted' <=> Trusted)
    BY SamePages
  <2>2. Trusted => NewestPage \in {0, 1}
    BY NewestCases DEF Trusted
  <2> QED
    BY <1>1, <2>1, <2>2 DEF WholeIsKept, Whole, HoldsKept
<1> QED
  BY <1>1, <1>2

\* The page that is safe is one of the two.
LEMMA SafeIsPage ==
    ASSUME next \in {0, 1}
    PROVE  Other(next) \in {0, 1} /\ Other(next) # next
           /\ SafePage \in {0, 1} /\ Other(Other(next)) = next
BY DEF Other, SafePage

\* A step that leaves the other page alone, and the page of the next store
\* alone or without the copy.
LEMMA SpareStep ==
    ASSUME SafePageHoldsKept, UNCHANGED <<next, kept, failed>>,
           next \in {0, 1}, pc \notin {"off", "flip_done"},
           pc' \notin {"flip_done", "blank_mark", "blank_first"},
           page'[Other(next)] = page[Other(next)],
           \/ ~HoldsKept(next)'
           \/ page' = page /\ ~BootsFromCutStore
    PROVE  SafePageHoldsKept'
<1> SUFFICES ASSUME Spared', CopyInFlash'
             PROVE  HoldsKept(SafePage)'
  BY DEF SafePageHoldsKept
<1>1. SafePage = Other(next) /\ SafePage' = Other(next)
  BY DEF SafePage, Other
<1>2. PICK q \in {0, 1} : q = Other(next) /\ q # next
  BY SafeIsPage
<1>3. HoldsKept(q)'
  <2>1. CASE ~HoldsKept(next)'
    <3>1. PICK p \in {0, 1} : HoldsKept(p)'
      BY DEF CopyInFlash
    <3>2. p # next
      BY <2>1, <3>1 DEF HoldsKept, Whole
    <3> QED
      BY <1>2, <3>1, <3>2
  <2>2. CASE page' = page /\ ~BootsFromCutStore
    <3>1. CopyInFlash
      BY <2>2 DEF CopyInFlash, HoldsKept, Whole
    <3>2. Spared
      BY <2>2 DEF Spared
    <3>3. HoldsKept(q)
      BY <1>1, <1>2, <3>1, <3>2 DEF SafePageHoldsKept
    <3> QED
      BY <2>2, <3>3 DEF HoldsKept, Whole
  <2> QED
    BY <2>1, <2>2
<1> QED
  BY <1>1, <1>2, <1>3 DEF HoldsKept, Whole

\* A step that leaves the flash alone, between two stores or on the way into
\* one.
LEMMA QuietCopies ==
    ASSUME CopyInv, UNCHANGED <<page, next, kept, failed>>, next \in {0, 1},
           pc \notin {"off", "cold_reset", "prepare", "flip_done"},
           pc' \notin Storing \ {"write_header", "flip_failed"},
           pc' \notin Recovering \cup {"cold_reset", "blank_mark",
                                      "blank_first"},
           pc' \in Storing /\ caller' = "corrupt" => ram'.app.force
    PROVE  CopyInv'
<1>1. ErasedIsEmpty' /\ WholeIsKept'
  BY SameCopies DEF CopyInv
<1>2. WrittenSoFar' /\ RecoveryFailed' /\ ForcedInStore'
  BY DEF WrittenSoFar, RecoveryFailed, ForcedInStore, Storing
<1>3. SafePageHoldsKept'
  <2>1. ~BootsFromCutStore /\ pc' # "flip_done"
    BY DEF BootsFromCutStore, Storing
  <2> QED
    BY <2>1, SpareStep DEF CopyInv
<1> QED
  BY <1>1, <1>2, <1>3 DEF CopyInv

\* A step that erases a page: the page of the next store, or any page when
\* the copy is not there to lose or not to be saved.
LEMMA FlushCopies ==
    ASSUME TypeOK, CopyInv, NEW p \in {0, 1}, FlushPage(p),
           UNCHANGED <<kept, failed>>,
           pc \notin {"off", "flip_done"}, pc' \notin Storing,
           pc' \in Recovering \cup {"cold_reset"} => failed,
           \/ failed \/ ~CopyInFlash'
           \/ /\ p = next /\ UNCHANGED next
              /\ pc' \notin {"blank_mark", "blank_first"}
    PROVE  CopyInv'
<1>1. page'[p] = Erased /\ \A q \in {0, 1} : q # p => page'[q] = page[q]
  BY DEF FlushPage, TypeOK, FlashTyped
<1>2. ErasedIsEmpty'
  BY <1>1 DEF CopyInv, ErasedIsEmpty, Erased
<1>3. WholeIsKept'
  BY FlushedPage DEF WholeIsKept, TypeOK
<1>4. WrittenSoFar' /\ RecoveryFailed' /\ ForcedInStore'
  BY DEF WrittenSoFar, RecoveryFailed, ForcedInStore, Storing
<1>5. SafePageHoldsKept'
  <2>1. CASE failed \/ ~CopyInFlash'
    BY <2>1 DEF SafePageHoldsKept, Spared
  <2>2. CASE /\ p = next /\ UNCHANGED next
             /\ pc' \notin {"blank_mark", "blank_first"}
    <3>1. ~HoldsKept(next)' /\ page'[Other(next)] = page[Other(next)]
      BY <1>1, <2>2, SafeIsPage DEF HoldsKept, Erased
    <3> QED
      BY <2>2, <3>1, SpareStep DEF CopyInv, Storing
  <2> QED
    BY <2>1, <2>2
<1> QED
  BY <1>2, <1>3, <1>4, <1>5 DEF CopyInv

\* A cold boot that finds the newest page whole has found the last complete
\* copy, and will not erase it.
LEMMA ColdBootCopies ==
    ASSUME TypeOK, StoreInv, CopyInv, ColdBoot
    PROVE  CopyInv'
<1>1. /\ UNCHANGED page /\ kept' = ReadBack
      /\ pc' = "prepare" /\ failed' = FALSE
  BY DEF ColdBoot, flash
<1>2. ErasedIsEmpty' /\ WholeIsKept'
  <2>1. ErasedIsEmpty'
    BY <1>1 DEF CopyInv, ErasedIsEmpty
  <2>2. NewestPage' = NewestPage /\ (Trusted' <=> Trusted)
    BY <1>1, SamePages
  <2>3. Trusted => NewestPage # NoPage /\ Good(NewestPage)
    BY NewestCases
  <2>4. WholeIsKept'
    BY <1>1, <2>2, <2>3, ReadsNewest DEF WholeIsKept, Whole, HoldsKept, Good
  <2> QED
    BY <2>1, <2>4
<1>3. WrittenSoFar' /\ RecoveryFailed' /\ ForcedInStore'
  BY <1>1
     DEF WrittenSoFar, RecoveryFailed, ForcedInStore, Storing, Recovering
<1>4. SafePageHoldsKept'
  <2> SUFFICES ASSUME Spared', CopyInFlash'
               PROVE  next' \in {0, 1} /\ HoldsKept(SafePage)'
    BY <1>1 DEF SafePageHoldsKept
  <2>1. NewestPage # NoPage /\ Whole(NewestPage)
    <3>1. CopyInFlash' => Good(0) \/ Good(1)
      BY <1>1 DEF CopyInFlash, HoldsKept, Good
    <3>2. NewestPage' = NewestPage
      BY <1>1, SamePages
    <3>3. NewestPage # NoPage
      BY <3>1, NewestCases DEF NoPage
    <3> QED
      BY <1>1, <3>2, <3>3 DEF Spared, BootsFromCutStore, Whole
  <2>2. next' = Other(NewestPage)
    BY <2>1 DEF ColdBoot
  <2>5. NewestPage \in {0, 1} /\ Good(NewestPage)
    BY <2>1, NewestCases
  <2>6. next' \in {0, 1} /\ SafePage' = NewestPage
    BY <1>1, <2>2, <2>5 DEF Other, SafePage
  <2>7. /\ page'[NewestPage] = page[NewestPage]
        /\ kept'.app = page[NewestPage].app
        /\ kept'.stat = page[NewestPage].stat
    BY <1>1, <2>1, ReadsNewest DEF Whole
  <2> QED
    BY <2>1, <2>5, <2>6, <2>7 DEF HoldsKept, Whole, Good
<1> QED
  BY <1>2, <1>3, <1>4 DEF CopyInv

\* Before its first store a blank flash holds no copy.
LEMMA BlankCopies ==
    ASSUME TypeOK, StoreInv,
           BlankEraseSecond \/ BlankMark \/ BlankEraseFirst
    PROVE  ~CopyInFlash'
<1>1. ~Good(0) /\ ~Good(1)
  BY DEF BlankEraseSecond, BlankMark, BlankEraseFirst, StoreInv, NothingGood
<1>2. page'[0].sig # "good" /\ page'[1].sig # "good"
  BY <1>1
     DEF BlankEraseSecond, BlankMark, BlankEraseFirst, FlushPage, Erased,
         Good, TypeOK, FlashTyped, Page
<1> QED
  BY <1>2 DEF CopyInFlash, HoldsKept

LEMMA BootCopies ==
    ASSUME TypeOK, Controlled, StoreInv, CopyInv, Boot
    PROVE  CopyInv'
<1>1. CASE ColdBoot
  BY <1>1, ColdBootCopies
<1>2. CASE WarmBoot
  <2>1. /\ UNCHANGED <<page, next, kept, failed>> /\ pc' = "prepare"
        /\ pc \in {"reset", "loader"} /\ next \in {0, 1}
    BY <1>2 DEF WarmBoot, flash, header, history, Controlled
  <2> QED
    BY <2>1, QuietCopies DEF Storing, Recovering
<1>3. CASE BlankMark
  <2>1. ~CopyInFlash' /\ ~Good(0)
    BY <1>3, BlankCopies DEF BlankMark, StoreInv, NothingGood
  <2>2. /\ pc' = "blank_first"
        /\ page' = [page EXCEPT ![1].sig = "init"]
    BY <1>3 DEF BlankMark
  <2>3. page'[0] = page[0] /\ page'[1].sig = "init"
    BY <2>2 DEF TypeOK, FlashTyped, Page
  <2>4. ErasedIsEmpty' /\ WholeIsKept'
    BY <2>1, <2>3 DEF CopyInv, ErasedIsEmpty, WholeIsKept, Trusted, Good
  <2>5. WrittenSoFar' /\ RecoveryFailed' /\ ForcedInStore'
    BY <2>2
       DEF WrittenSoFar, RecoveryFailed, ForcedInStore, Storing, Recovering
  <2>6. SafePageHoldsKept'
    BY <2>1 DEF SafePageHoldsKept
  <2> QED
    BY <2>4, <2>5, <2>6 DEF CopyInv
<1>4. CASE BlankEraseSecond \/ BlankEraseFirst
  <2>1. ~CopyInFlash'
    BY <1>4, BlankCopies
  <2>2. /\ UNCHANGED <<kept, failed>> /\ pc \in {"prepare", "blank_first"}
        /\ pc' \in {"blank_mark", "run"}
        /\ FlushPage(0) \/ FlushPage(1)
    BY <1>4 DEF BlankEraseSecond, BlankEraseFirst, board, history
  <2> QED
    BY <2>1, <2>2, FlushCopies DEF Storing, Recovering
<1>5. CASE PreparePage
  <2>1. /\ UNCHANGED <<kept, failed, next>> /\ pc = "prepare"
        /\ pc' = "run" /\ FlushPage(next) /\ next \in {0, 1}
    BY <1>5 DEF PreparePage, board, header, TypeOK, HeaderTyped
  <2> QED
    BY <2>1, FlushCopies DEF Storing, Recovering
<1> QED
  BY <1>1, <1>2, <1>3, <1>4, <1>5 DEF Boot

\* What the writes of a store leave alone.
LEMMA WriteFrame ==
    ASSUME CopyInv, next \in {0, 1},
           UNCHANGED <<next, ram, failed, caller>>,
           pc \in Storing, pc' \in Storing, pc # "flip_done",
           \A q \in {0, 1} : q # next => page'[q] = page[q]
    PROVE  /\ RecoveryFailed' /\ ForcedInStore'
           /\ UNCHANGED kept /\ pc' # "flip_done" /\ ~HoldsKept(next)'
                => SafePageHoldsKept'
<1>1. RecoveryFailed' /\ ForcedInStore'
  BY DEF CopyInv, RecoveryFailed, ForcedInStore, Storing, Recovering
<1>2. page'[Other(next)] = page[Other(next)]
  BY SafeIsPage
<1>3. pc # "off" /\ pc' \notin {"blank_mark", "blank_first"}
  BY DEF Storing
<1> QED
  BY <1>1, <1>2, <1>3, SpareStep DEF CopyInv

\* The header makes the page the newest, but not whole.
LEMMA WriteHeaderCopies ==
    ASSUME TypeOK, Controlled, StoreInv, StoreInv', CopyInv, WriteHeader
    PROVE  CopyInv'
<1>1. /\ pc = "write_header" /\ pc' = "write_appliance"
      /\ UNCHANGED <<next, ram, status, failed, caller, kept>>
      /\ page[next].sig = "erased" /\ next \in {0, 1}
  BY DEF WriteHeader, StoreStep, header, board, Controlled
<1>2. page' = [page EXCEPT ![next] =
                 [page[next] EXCEPT !.sig = "good", !.counter = counter,
                                    !.appCrc = ram.app,
                                    !.statCrc = ram.stat]]
  BY DEF WriteHeader
<1>3. /\ page'[next].sig = "good" /\ page'[next].stat = page[next].stat
      /\ page'[next].statCrc = ram.stat
      /\ \A q \in {0, 1} : q # next => page'[q] = page[q]
  BY <1>1, <1>2 DEF TypeOK, FlashTyped, Page
<1>4. page'[next].stat = Garbage /\ ram.stat # Garbage
  BY <1>1, <1>3, GarbageIsNoValue
     DEF CopyInv, ErasedIsEmpty, StoreInv, Clean
<1>5. NewestPage' = next
  BY <1>1 DEF StoreInv, StoreInProgress, Storing
<1>6. WholeIsKept'
  BY <1>3, <1>4, <1>5 DEF WholeIsKept, Whole
<1>7. ErasedIsEmpty'
  BY <1>1, <1>3 DEF CopyInv, ErasedIsEmpty
<1>8. WrittenSoFar'
  BY <1>1, <1>4 DEF WrittenSoFar
<1>9. ~HoldsKept(next)'
  BY <1>1, <1>3, <1>4, GarbageIsNoValue DEF HoldsKept, Whole
<1>10. RecoveryFailed' /\ ForcedInStore' /\ SafePageHoldsKept'
  BY <1>1, <1>3, <1>9, WriteFrame DEF Storing
<1> QED
  BY <1>6, <1>7, <1>8, <1>10 DEF CopyInv

LEMMA WriteApplianceCopies ==
    ASSUME TypeOK, Controlled, StoreInv, CopyInv, WriteAppliance
    PROVE  CopyInv'
<1>1. /\ pc = "write_appliance" /\ pc' = "write_statistics"
      /\ UNCHANGED <<next, ram, status, failed, caller, kept>>
      /\ next \in {0, 1}
  BY DEF WriteAppliance, StoreStep, header, board, Controlled
<1>2. page' = [page EXCEPT ![next] = [page[next] EXCEPT !.app = ram.app]]
  BY DEF WriteAppliance
<1>3. /\ page'[next].sig = page[next].sig
      /\ page'[next].counter = page[next].counter
      /\ page'[next].stat = page[next].stat
      /\ page'[next].statCrc = page[next].statCrc
      /\ page'[next].app = ram.app
      /\ \A q \in {0, 1} : q # next => page'[q] = page[q]
  BY <1>1, <1>2 DEF TypeOK, FlashTyped, Page
<1>4. /\ Good(next) /\ NewestPage = next
      /\ page[next].statCrc \in Values /\ page[next].stat = Garbage
  BY <1>1
     DEF StoreInv, StoreInProgress, Storing, Clean, CopyInv, WrittenSoFar
<1>5. NewestPage' = next
  <2>1. \A q \in {0, 1} : /\ page'[q].sig = page[q].sig
                          /\ page'[q].counter = page[q].counter
    BY <1>3
  <2> QED
    BY <1>4, <2>1 DEF NewestPage, NoPage
<1>6. WholeIsKept'
  BY <1>3, <1>4, <1>5, GarbageIsNoValue DEF WholeIsKept, Whole
<1>7. ErasedIsEmpty'
  BY <1>1, <1>3, <1>4 DEF CopyInv, ErasedIsEmpty, Good
<1>8. WrittenSoFar'
  BY <1>1, <1>3, <1>4 DEF WrittenSoFar
<1>9. ~HoldsKept(next)'
  BY <1>1, <1>3, <1>4, GarbageIsNoValue DEF HoldsKept, Whole
<1>10. RecoveryFailed' /\ ForcedInStore' /\ SafePageHoldsKept'
  BY <1>1, <1>3, <1>9, WriteFrame DEF Storing
<1> QED
  BY <1>6, <1>7, <1>8, <1>10 DEF CopyInv

\* The last write completes the copy: it is the one that counts from here on.
LEMMA WrittenCopy ==
    ASSUME TypeOK, Controlled, StoreInv, CopyInv, WriteStatistics
    PROVE  /\ next \in {0, 1} /\ Good(next) /\ HoldsKept(next)'
           /\ page'[next].sig = page[next].sig
           /\ \A q \in {0, 1} : /\ page'[q].sig = page[q].sig
                                /\ page'[q].counter = page[q].counter
                                /\ q # next => page'[q] = page[q]
<1>1. /\ pc = "write_statistics" /\ kept' = ram /\ UNCHANGED <<next, ram>>
      /\ next \in {0, 1}
  BY DEF WriteStatistics, StoreStep, header, board, Controlled
<1>2. page' = [page EXCEPT ![next] = [page[next] EXCEPT !.stat = ram.stat]]
  BY DEF WriteStatistics
<1>3. /\ page'[next].sig = page[next].sig
      /\ page'[next].counter = page[next].counter
      /\ page'[next].app = page[next].app
      /\ page'[next].appCrc = page[next].appCrc
      /\ page'[next].statCrc = page[next].statCrc
      /\ page'[next].stat = ram.stat
      /\ \A q \in {0, 1} : q # next => page'[q] = page[q]
  BY <1>1, <1>2 DEF TypeOK, FlashTyped, Page
<1>4. /\ Good(next)
      /\ page[next].statCrc = ram.stat /\ page[next].appCrc = ram.app
      /\ page[next].app = ram.app
  BY <1>1 DEF StoreInv, StoreInProgress, Storing, CopyInv, WrittenSoFar
<1>5. HoldsKept(next)'
  BY <1>1, <1>3, <1>4 DEF HoldsKept, Whole, Good
<1> QED
  BY <1>1, <1>3, <1>4, <1>5

LEMMA WriteStatisticsCopies ==
    ASSUME TypeOK, Controlled, StoreInv, CopyInv, WriteStatistics
    PROVE  CopyInv'
<1>1. /\ pc = "write_statistics" /\ pc' = "flip_done" /\ kept' = ram
      /\ UNCHANGED <<next, ram, failed, caller>>
      /\ next \in {0, 1}
  BY DEF WriteStatistics, StoreStep, header, board, Controlled
<1>2. /\ Good(next) /\ HoldsKept(next)'
      /\ page'[next].sig = page[next].sig
      /\ \A q \in {0, 1} : /\ page'[q].sig = page[q].sig
                           /\ page'[q].counter = page[q].counter
                           /\ q # next => page'[q] = page[q]
  BY WrittenCopy
<1>3. NewestPage' = next
  <2>1. NewestPage = next
    BY <1>1 DEF StoreInv, StoreInProgress, Storing
  <2> QED
    BY <1>2, <2>1 DEF NewestPage, NoPage
<1>4. WholeIsKept'
  BY <1>1, <1>2, <1>3 DEF WholeIsKept, HoldsKept, Whole
<1>5. ErasedIsEmpty'
  BY <1>1, <1>2 DEF CopyInv, ErasedIsEmpty, Good
<1>6. WrittenSoFar'
  BY <1>1, <1>2 DEF WrittenSoFar, HoldsKept
<1>7. SafePageHoldsKept'
  BY <1>1, <1>2 DEF SafePageHoldsKept, SafePage, HoldsKept, Whole
<1>8. RecoveryFailed' /\ ForcedInStore'
  BY <1>1, <1>2, WriteFrame DEF Storing
<1> QED
  BY <1>4, <1>5, <1>6, <1>7, <1>8 DEF CopyInv

LEMMA WriteFailsCopies ==
    ASSUME TypeOK, Controlled, CopyInv, WriteHeaderRefused \/ WriteFault
    PROVE  CopyInv'
<1>1. /\ UNCHANGED <<next, ram, status, failed, caller, kept>>
      /\ pc \in Storing /\ pc # "flip_done" /\ pc' = "flip_failed"
      /\ next \in {0, 1}
      /\ UNCHANGED page \/ page' = [page EXCEPT ![next] = Torn]
  BY DEF WriteHeaderRefused, WriteFault, StoreStep, header, board, Controlled,
         Storing
<1>2. CASE UNCHANGED page
  <2>1. pc' \in Storing /\ caller' = "corrupt" => ram'.app.force
    BY <1>1 DEF CopyInv, ForcedInStore
  <2>2. pc \notin {"off", "cold_reset", "prepare", "flip_done"}
    BY <1>1 DEF Storing
  <2> QED
    BY <1>1, <1>2, <2>1, <2>2, QuietCopies DEF Storing, Recovering
<1>3. CASE page' = [page EXCEPT ![next] = Torn]
  <2>1. page'[next].sig = "torn"
        /\ \A q \in {0, 1} : q # next => page'[q] = page[q]
    BY <1>1, <1>3 DEF TypeOK, FlashTyped, Torn, Erased
  <2>2. ErasedIsEmpty'
    BY <1>1, <2>1 DEF CopyInv, ErasedIsEmpty
  <2>3. WholeIsKept'
    BY <1>1, <1>3, TornPage DEF WholeIsKept, TypeOK
  <2>4. WrittenSoFar'
    BY <1>1 DEF WrittenSoFar
  <2>5. ~HoldsKept(next)'
    BY <1>1, <2>1 DEF HoldsKept
  <2>6. RecoveryFailed' /\ ForcedInStore' /\ SafePageHoldsKept'
    BY <1>1, <2>1, <2>5, WriteFrame DEF Storing
  <2> QED
    BY <2>2, <2>3, <2>4, <2>6 DEF CopyInv
<1> QED
  BY <1>1, <1>2, <1>3

LEMMA StoreDoneCopies ==
    ASSUME TypeOK, Controlled, StoreInv, CopyInv, StoreDone
    PROVE  CopyInv'
<1>1. /\ pc = "flip_done" /\ UNCHANGED <<page, kept, ram>>
      /\ next' = Other(next) /\ next \in {0, 1}
      /\ pc' \notin Storing \cup Recovering
      /\ pc' \notin {"blank_mark", "blank_first"}
      /\ pc' = "cold_reset" => caller = "corrupt"
  BY DEF StoreDone, flash, AfterStore, Controlled, TypeOK, BoardTyped,
         Callers, Storing, Recovering
<1>2. /\ Good(next) /\ NewestPage = next /\ kept = ram
      /\ page[next].appCrc = ram.app /\ page[next].statCrc = ram.stat
      /\ page[next].app = ram.app /\ page[next].stat = ram.stat
  BY <1>1 DEF StoreInv, StoreInProgress, Storing, CopyInv, WrittenSoFar
<1>3. ErasedIsEmpty' /\ WholeIsKept'
  BY <1>1, SameCopies DEF CopyInv
<1>4. WrittenSoFar' /\ RecoveryFailed'
  BY <1>1 DEF WrittenSoFar, RecoveryFailed, Storing
<1>5. ForcedInStore'
  <2>1. NewestPage' = next
    BY <1>1, <1>2, SamePages
  <2>2. pc' = "cold_reset" => ram.app.force
    BY <1>1 DEF CopyInv, ForcedInStore, Storing
  <2> QED
    BY <1>1, <1>2, <2>1, <2>2 DEF ForcedInStore, Whole, NoPage
<1>6. SafePageHoldsKept'
  <2>1. SafePage' = next /\ next' \in {0, 1}
    BY <1>1, SafeIsPage DEF SafePage, Storing, Other
  <2>2. HoldsKept(next)
    BY <1>2 DEF HoldsKept, Whole, Good
  <2> QED
    BY <1>1, <2>1, <2>2 DEF SafePageHoldsKept, HoldsKept, Whole
<1> QED
  BY <1>3, <1>4, <1>5, <1>6 DEF CopyInv

LEMMA StoreCopies ==
    ASSUME TypeOK, Controlled, StoreInv, StoreInv', CopyInv,
           Store \/ WriteFault
    PROVE  CopyInv'
<1>1. CASE StoreFailed
  <2>1. /\ UNCHANGED <<page, kept>> /\ failed' = TRUE
        /\ pc' \notin Storing
    BY <1>1
       DEF StoreFailed, flash, AfterStore, Controlled, TypeOK, BoardTyped,
           Callers, Storing
  <2>2. ErasedIsEmpty' /\ WholeIsKept'
    BY <2>1, SameCopies DEF CopyInv
  <2>3. WrittenSoFar' /\ RecoveryFailed' /\ ForcedInStore'
    BY <2>1 DEF WrittenSoFar, RecoveryFailed, ForcedInStore, Storing
  <2>4. SafePageHoldsKept'
    BY <2>1 DEF SafePageHoldsKept, Spared
  <2> QED
    BY <2>2, <2>3, <2>4 DEF CopyInv
<1>2. CASE BlockingFlush
  <2>1. /\ UNCHANGED <<next, kept, failed>> /\ pc = "flush_next"
        /\ pc' = "run" /\ next \in {0, 1} /\ FlushPage(next)
    BY <1>2 DEF BlockingFlush, header, board, history, Controlled
  <2> QED
    BY <2>1, FlushCopies DEF Storing, Recovering
<1>3. CASE RecoverFirst \/ RecoverNext
  <2>1. PICK p \in {0, 1} : FlushPage(p)
    BY <1>3 DEF RecoverFirst, RecoverNext, Controlled, Recovering
  <2>2. /\ UNCHANGED <<kept, failed>> /\ pc \in Recovering
        /\ pc' \notin Storing
    BY <1>3
       DEF RecoverFirst, RecoverNext, board, history, AfterStore, Controlled,
           Recovering, TypeOK, BoardTyped, Callers, Storing
  <2>3. failed /\ pc \notin {"off", "flip_done"}
    BY <2>2 DEF CopyInv, RecoveryFailed, Recovering
  <2> QED
    BY <2>1, <2>2, <2>3, FlushCopies DEF Recovering
<1> QED
  BY <1>1, <1>2, <1>3, WriteHeaderCopies, WriteApplianceCopies,
     WriteStatisticsCopies, WriteFailsCopies, StoreDoneCopies DEF Store

\* The loss of power works on the page of the store or of the boot only, and
\* adds nothing to it.
LEMMA LossDamage ==
    ASSUME TypeOK, PowerLost
    PROVE  \/ UNCHANGED page
           \/ \E p \in {0, 1} :
                 /\ p \in {HeadedPage, ErasingPage}
                 /\ \/ page' = [page EXCEPT ![p] = Torn]
                    \/ \E r \in Remains(page[p]) :
                          page' = [page EXCEPT ![p] = r]
<1>1. /\ HeadedPage # NoPage => HeadedPage \in {0, 1}
      /\ ErasingPage # NoPage => ErasingPage \in {0, 1}
  BY DEF HeadedPage, ErasingPage, TypeOK, HeaderTyped, NoPage
<1> QED
  BY <1>1 DEF PowerLost

\* What is left of a page is not whole unless the page was.
LEMMA RemainsWhole ==
    ASSUME TypeOK, StoreInv, CopyInv, UNCHANGED kept,
           NEW p \in {0, 1}, NEW r \in Remains(page[p]),
           page' = [page EXCEPT ![p] = r]
    PROVE  WholeIsKept' /\ ErasedIsEmpty'
<1>1. /\ r.sig \in {page[p].sig, "torn"} /\ r.counter = page[p].counter
      /\ r.appCrc = page[p].appCrc /\ r.statCrc = page[p].statCrc
      /\ r.app \in {page[p].app, GarbledAppliance}
      /\ r.stat \in {page[p].stat, Garbage}
      /\ page'[p] = r /\ \A q \in {0, 1} : q # p => page'[q] = page[q]
  BY RemainsOfPage DEF TypeOK
<1>2. ErasedIsEmpty'
  BY <1>1 DEF CopyInv, ErasedIsEmpty
<1>3. WholeIsKept'
  <2> SUFFICES ASSUME Trusted', Whole(NewestPage)'
               PROVE  HoldsKept(NewestPage)'
    BY DEF WholeIsKept
  <2>1. r.sig = page[p].sig
    BY <1>1 DEF Trusted, Good
  <2>2. \A q \in {0, 1} : /\ page'[q].sig = page[q].sig
                          /\ page'[q].counter = page[q].counter
    BY <1>1, <2>1
  <2>3. Trusted /\ NewestPage' = NewestPage
    BY <2>2 DEF Trusted, Good, NewestPage, NoPage
  <2>4. NewestPage \in {0, 1} /\ Good(NewestPage)
    BY <2>3, NewestCases DEF Trusted
  <2>5. page'[NewestPage] = page[NewestPage]
        \/ NewestPage = p
    BY <1>1, <2>4
  <2>6. CASE page'[NewestPage] = page[NewestPage]
    <3>1. Whole(NewestPage)
      BY <2>3, <2>6 DEF Whole
    <3> QED
      BY <2>3, <2>6, <3>1 DEF CopyInv, WholeIsKept, HoldsKept, Whole
  <2>7. CASE NewestPage = p
    <3>1. page[p].appCrc # GarbledAppliance /\ page[p].statCrc # Garbage
      BY <2>4, <2>7, GarbageIsNoValue
         DEF StoreInv, Clean, TypeOK, FlashTyped, Page
    <3>2. r.app = r.appCrc /\ r.stat = r.statCrc
      BY <1>1, <2>3, <2>7 DEF Whole
    <3>3. r.app = page[p].app /\ r.stat = page[p].stat
      BY <1>1, <3>1, <3>2
    <3>4. Whole(p) /\ HoldsKept(p)
      BY <1>1, <2>3, <2>7, <3>2, <3>3 DEF Whole, CopyInv, WholeIsKept
    <3> QED
      BY <1>1, <2>1, <2>3, <2>7, <3>2, <3>3, <3>4 DEF HoldsKept, Whole
  <2> QED
    BY <2>5, <2>6, <2>7
<1> QED
  BY <1>2, <1>3

LEMMA EnvironmentCopies ==
    ASSUME TypeOK, Controlled, StoreInv, CopyInv,
           \/ ApplianceChanges \/ StatisticsChange \/ RequestStore
           \/ WarmReset \/ WakeUp \/ FirmwareUpdated \/ LineChanges
           \/ PowerLost
    PROVE  CopyInv'
<1>1. CASE FirmwareUpdated \/ PowerLost
  <2>1. UNCHANGED kept /\ pc' = "off"
    BY <1>1 DEF FirmwareUpdated, PowerLost, RamLost, history
  <2>2. ErasedIsEmpty' /\ WholeIsKept'
    <3>1. CASE UNCHANGED page
      BY <2>1, <3>1, SameCopies DEF CopyInv
    <3>2. ASSUME NEW p \in {0, 1}, page' = [page EXCEPT ![p] = Torn]
          PROVE  ErasedIsEmpty' /\ WholeIsKept'
      <4>1. page'[p].sig = "torn"
            /\ \A q \in {0, 1} : q # p => page'[q] = page[q]
        BY <3>2 DEF TypeOK, FlashTyped, Torn, Erased
      <4> QED
        BY <3>2, <4>1, TornPage
           DEF CopyInv, ErasedIsEmpty, WholeIsKept, TypeOK
    <3>3. CASE FirmwareUpdated
      BY <3>1, <3>3 DEF FirmwareUpdated, flash
    <3> QED
      BY <1>1, <2>1, <3>1, <3>2, <3>3, LossDamage, RemainsWhole
  <2>3. WrittenSoFar' /\ RecoveryFailed' /\ ForcedInStore'
    BY <2>1
       DEF WrittenSoFar, RecoveryFailed, ForcedInStore, Storing, Recovering
  <2>4. SafePageHoldsKept'
    BY <2>1 DEF SafePageHoldsKept, Spared
  <2> QED
    BY <2>2, <2>3, <2>4 DEF CopyInv
<1>2. CASE RequestStore
  <2>1. /\ UNCHANGED <<page, next, kept, failed>> /\ pc = "run"
        /\ pc' = "write_header" /\ next \in {0, 1}
    BY <1>2 DEF RequestStore, BeginStore, flash, Controlled
  <2>2. caller' = "corrupt" => ram'.app.force
    <3>1. CASE \E c \in {"blocking", "lowpower", "iap"} :
                  BeginStore(c, ram.app)
      BY <3>1 DEF BeginStore
    <3>2. CASE BeginStore("corrupt", [ram.app EXCEPT !.force = TRUE])
      <4>1. ram.app \in Appliance
        BY DEF TypeOK, DataTyped, Segments
      <4>2. [ram.app EXCEPT !.force = TRUE].force = TRUE
        BY <4>1 DEF Appliance
      <4> DEFINE a == [ram.app EXCEPT !.force = TRUE]
      <4>3. ram' = [ram EXCEPT !.app = a] /\ a.force = TRUE
        BY <3>2, <4>2 DEF BeginStore
      <4> HIDE DEF a
      <4> QED
        BY <4>3 DEF TypeOK, DataTyped, Segments
    <3> QED
      BY <1>2, <3>1, <3>2 DEF RequestStore
  <2> QED
    BY <2>1, <2>2, QuietCopies DEF Storing, Recovering
<1>3. CASE \/ ApplianceChanges \/ StatisticsChange \/ WarmReset \/ WakeUp
           \/ LineChanges
  <2>1. /\ UNCHANGED <<page, next, kept, failed>> /\ next \in {0, 1}
        /\ pc \in {"run", "asleep"} /\ pc' \in {"run", "reset"}
    BY <1>3
       DEF ApplianceChanges, StatisticsChange, WarmReset, WakeUp, LineChanges,
           flash, header, board, history, Controlled
  <2> QED
    BY <2>1, QuietCopies DEF Storing, Recovering
<1> QED
  BY <1>1, <1>2, <1>3

LEMMA PassCopies ==
    ASSUME Controlled, CopyInv, AsynchPass
    PROVE  CopyInv'
<1>1. /\ UNCHANGED <<page, next, kept, failed>> /\ pc = "run"
      /\ next \in {0, 1}
      /\ \/ pc' \in {"run", "reset"}
         \/ pc' = "write_header" /\ caller' = "handler"
  BY DEF AsynchPass, flash, HandlerIdle, HandlerStoring, HandlerStored,
         BeginStore, Controlled
<1> QED
  BY <1>1, QuietCopies DEF Storing, Recovering

LEMMA NextCopies ==
    ASSUME TypeOK, Controlled, StoreInv, StoreInv', CopyInv, [Next]_vars
    PROVE  CopyInv'
<1>1. CASE UNCHANGED vars
  <2>1. UNCHANGED <<page, next, ram, pc, caller, status, kept, failed>>
    BY <1>1 DEF vars
  <2>2. ErasedIsEmpty' /\ WholeIsKept'
    BY <2>1, SameCopies DEF CopyInv
  <2>3. WrittenSoFar' /\ RecoveryFailed'
    BY <2>1 DEF CopyInv, WrittenSoFar, RecoveryFailed
  <2>4. ForcedInStore'
    BY <2>1, SamePages DEF CopyInv, ForcedInStore, Whole
  <2>5. SafePageHoldsKept'
    <3>1. SafePage' = SafePage
      BY <2>1 DEF SafePage, Other
    <3>2. NewestPage' = NewestPage
      BY <2>1, SamePages
    <3> QED
      BY <2>1, <3>1, <3>2
         DEF CopyInv, SafePageHoldsKept, Spared, BootsFromCutStore,
             CopyInFlash, HoldsKept, Whole
  <2> QED
    BY <2>2, <2>3, <2>4, <2>5 DEF CopyInv
<1>2. CASE Next
  BY <1>2, BootCopies, StoreCopies, PassCopies, EnvironmentCopies DEF Next
<1> QED
  BY <1>1, <1>2

LEMMA InitCopies ==
    ASSUME Init
    PROVE  CopyInv
<1>1. ErasedIsEmpty
  BY DEF Init, ErasedIsEmpty, Erased
<1>2. WholeIsKept
  BY DEF Init, WholeIsKept, Trusted, Good, Erased
<1>3. WrittenSoFar /\ RecoveryFailed /\ ForcedInStore
  BY DEF Init, WrittenSoFar, RecoveryFailed, ForcedInStore, Storing,
         Recovering
<1>4. SafePageHoldsKept
  BY DEF Init, SafePageHoldsKept, Spared
<1> QED
  BY <1>1, <1>2, <1>3, <1>4 DEF CopyInv

\* The invariant that both of the following theorems rest on.
LEMMA CopiesInvariant ==
    /\ Init => TypeOK /\ Controlled /\ StoreInv /\ CopyInv
    /\ TypeOK /\ Controlled /\ StoreInv /\ CopyInv /\ CounterLow
       /\ [Next]_vars
         => TypeOK' /\ Controlled' /\ StoreInv' /\ CopyInv'
BY InitTyped, InitInv, InitCopies, NextTyped, ControlledNext, NextInv,
   NextCopies DEF CounterLow

\* A boot that finds the newest page whole reads it back.
LEMMA BootFindsCopy ==
    ASSUME ColdBoot, CopyInFlash, ~BootsFromCutStore
    PROVE  CopyInFlash'
<1>1. NewestPage # NoPage
  <2>1. Good(0) \/ Good(1)
    BY DEF CopyInFlash, HoldsKept, Good
  <2> QED
    BY <2>1, NewestCases DEF NoPage
<1>2. Whole(NewestPage)
  BY <1>1 DEF BootsFromCutStore, ColdBoot
<1>3. PICK p \in {0, 1} : p = NewestPage /\ Good(p) /\ Whole(p)
  BY <1>1, <1>2, NewestCases
<1>4. page' = page /\ kept' = ReadBack
  BY DEF ColdBoot, flash
<1>5. ReadBack.app = page[p].app /\ ReadBack.stat = page[p].stat
  BY <1>1, <1>3, ReadsNewest DEF Whole
<1>6. HoldsKept(p)'
  BY <1>3, <1>4, <1>5 DEF HoldsKept, Whole, Good
<1> QED
  BY <1>6 DEF CopyInFlash

\* The other steps leave the safe page alone, or complete a copy.
LEMMA SafePageStays ==
    ASSUME TypeOK, Controlled, CopyInv, Next, ~failed, next \in {0, 1},
           pc \notin {"off", "blank_mark", "blank_first"},
           ~ColdBoot, ~WriteStatistics
    PROVE  UNCHANGED kept /\ page'[SafePage] = page[SafePage]
<1>1. pc \notin Recovering
  BY DEF CopyInv, RecoveryFailed
<1>2. PICK q \in {0, 1} : q = SafePage
  BY SafeIsPage
<1>3. CASE PowerLost
  <2>1. UNCHANGED kept
    BY <1>3 DEF PowerLost, history
  <2>2. SafePage \notin {HeadedPage, ErasingPage}
    BY <1>1 DEF SafePage, HeadedPage, ErasingPage, Other, NoPage, Recovering
  <2>3. page'[q] = page[q]
    BY <1>2, <1>3, <2>2, LossDamage DEF TypeOK, FlashTyped
  <2> QED
    BY <1>2, <2>1, <2>3
<1>4. CASE \/ WriteHeader \/ WriteAppliance \/ WriteFault
           \/ PreparePage \/ BlockingFlush
  <2>1. /\ UNCHANGED kept /\ pc # "flip_done"
        /\ \A p \in {0, 1} : p # next => page'[p] = page[p]
    BY <1>4
       DEF WriteHeader, WriteAppliance, WriteFault, PreparePage,
           BlockingFlush, StoreStep, FlushPage, history, TypeOK, FlashTyped
  <2>2. q # next
    BY <1>2, <2>1, SafeIsPage DEF SafePage
  <2> QED
    BY <1>2, <2>1, <2>2
<1>5. CASE ~(\/ PowerLost \/ WriteHeader \/ WriteAppliance \/ WriteFault
             \/ PreparePage \/ BlockingFlush)
  <2>1. UNCHANGED <<page, kept>>
    BY <1>1, <1>5
       DEF Next, Boot, Store, WarmBoot, BlankEraseSecond, BlankMark,
           BlankEraseFirst, WriteHeaderRefused, StoreStep, StoreDone,
           StoreFailed, RecoverFirst, RecoverNext, AsynchPass,
           ApplianceChanges, StatisticsChange, RequestStore, WarmReset,
           WakeUp, FirmwareUpdated, LineChanges, Recovering, NoPage, flash,
           history
  <2> QED
    BY <2>1
<1> QED
  BY <1>3, <1>4, <1>5

LEMMA CopyStays ==
    ASSUME TypeOK, Controlled, StoreInv, CopyInv, Next, CopyInFlash,
           ~failed, ~BootsFromCutStore
    PROVE  CopyInFlash'
<1>1. CASE ColdBoot
  BY <1>1, BootFindsCopy
<1>2. CASE WriteStatistics
  <2>1. PICK q \in {0, 1} : q = next /\ next' = q
    BY <1>2, WrittenCopy DEF WriteStatistics, StoreStep, header
  <2>2. HoldsKept(q)'
    BY <1>2, <2>1, WrittenCopy DEF HoldsKept, Whole
  <2> QED
    BY <2>2 DEF CopyInFlash
<1>3. CASE ~ColdBoot /\ ~WriteStatistics
  <2>1. pc # "off"
    BY <1>3
       DEF Next, Boot, Store, WarmBoot, BlankEraseSecond, BlankMark,
           BlankEraseFirst, PreparePage, WriteHeader, WriteHeaderRefused,
           WriteAppliance, WriteFault, StoreStep, StoreDone, StoreFailed,
           BlockingFlush, RecoverFirst, RecoverNext, AsynchPass,
           ApplianceChanges, StatisticsChange, RequestStore, WarmReset,
           WakeUp, FirmwareUpdated, LineChanges, PowerLost
  <2>2. /\ next \in {0, 1} /\ pc \notin {"blank_mark", "blank_first"}
        /\ HoldsKept(SafePage)
    BY <2>1 DEF CopyInv, SafePageHoldsKept, Spared
  <2>3. PICK q \in {0, 1} : q = SafePage
    BY <2>2, SafeIsPage
  <2>4. kept' = kept /\ page'[q] = page[q] /\ HoldsKept(q)
    BY <1>3, <2>1, <2>2, <2>3, SafePageStays
  <2>5. HoldsKept(q)'
    BY <2>4 DEF HoldsKept, Whole
  <2> QED
    BY <2>5 DEF CopyInFlash
<1> QED
  BY <1>1, <1>2, <1>3

\* The last complete copy survives every step, the loss of power in the
\* middle of a flash operation included, until a store fails or a boot takes
\* a page for the newest whose store was cut after its header: that boot
\* erases the other page (NVData.c, 405-410) even where it has restored both
\* segments from there.
THEOREM CopySurvives == Spec /\ []CounterLow => LastCopySurvives
<1>1. TypeOK /\ Controlled /\ StoreInv /\ CopyInv /\ [Next]_vars
        => [CopyInFlash /\ ~CopyInFlash' => failed \/ BootsFromCutStore]_vars
  BY CopyStays
<1> QED
  BY <1>1, CopiesInvariant, PTL DEF Spec, LastCopySurvives

\* The cold boot after a request to corrupt the appliance segment discards
\* that segment and restores the other one.
THEOREM CorruptionHonoured == Spec /\ []CounterLow => ForcedCorruption
<1>1. ASSUME CopyInv, ColdBoot, pc = "cold_reset", ~failed
      PROVE  status'.app = "CORRUPTED" /\ status'.stat # "CORRUPTED"
  <2>1. /\ NewestPage # NoPage /\ Whole(NewestPage)
        /\ page[NewestPage].app.force
    BY <1>1 DEF CopyInv, ForcedInStore
  <2>2. /\ status'.app = Demoted(RestoreAppliance.how)
        /\ status'.stat = Demoted(RestoreStatistics.how)
    BY <1>1, <2>1 DEF ColdBoot
  <2>3. RestoreAppliance.how = "CORRUPTED"
    BY <2>1 DEF RestoreAppliance, ReadAppliance, Whole
  <2>4. RestoreStatistics.how = "OKAY"
    BY <2>1 DEF RestoreStatistics, Whole
  <2> QED
    BY <2>2, <2>3, <2>4 DEF Demoted
<1>2. CopyInv /\ [Next]_vars
        => [ColdBoot /\ pc = "cold_reset" /\ ~failed =>
              status'.app = "CORRUPTED" /\ status'.stat # "CORRUPTED"]_vars
  BY <1>1
<1> QED
  BY <1>2, CopiesInvariant, PTL DEF Spec, ForcedCorruption

-----------------------------------------------------------------------------
(* KeepsData.                                                              *)

\* What the flash would give back now is of the last complete store, of the
\* one in progress or cut, or nothing ...
FromEither ==
    /\ ReadBack.app \in {kept.app, tried.app, GarbledAppliance}
    /\ ReadBack.stat \in {kept.stat, tried.stat, Garbage}

\* ... or of the last complete one or nothing.
FromKept ==
    /\ ReadBack.app \in {kept.app, GarbledAppliance}
    /\ ReadBack.stat \in {kept.stat, Garbage}

\* The page to be erased or written next is not the one to read first.
SparesNewest == NewestPage = next => NewestPage = NoPage

AtRest == pc \notin Storing \cup {"off"}

BackupInv == ~failed => /\ FromEither
                        /\ AtRest => FromKept /\ SparesNewest

\* How the segments are read from page n when it is the newest.
ReadsFrom(n) ==
    /\ ReadBack.app = IF page[n].app = page[n].appCrc THEN page[n].app
                      ELSE IF Good(Other(n))
                              /\ page[Other(n)].app = page[Other(n)].appCrc
                           THEN page[Other(n)].app
                           ELSE GarbledAppliance
    /\ ReadBack.stat = IF page[n].stat = page[n].statCrc THEN page[n].stat
                       ELSE IF Good(Other(n))
                               /\ page[Other(n)].stat = page[n].statCrc
                            THEN page[Other(n)].stat
                            ELSE Garbage

ReadsNewestPage ==
    /\ NewestPage = NoPage => ReadBack = NothingRead
    /\ \A n \in {0, 1} : NewestPage = n => Good(n) /\ ReadsFrom(n)

\* Reading prefers the newest page and falls back on the other one.
LEMMA ReadCases == ReadsNewestPage
<1>1. NewestPage = NoPage => ReadBack = NothingRead
  BY DEF ReadBack
<1>2. ASSUME NEW n \in {0, 1}, NewestPage = n
      PROVE  Good(n) /\ ReadsFrom(n)
  <2>1. Good(n) /\ n # NoPage
    BY <1>2, NewestCases DEF NoPage
  <2>2. /\ BackupPage # NoPage <=> Good(Other(n))
        /\ BackupPage # NoPage => BackupPage = Other(n)
    BY <1>2, <2>1 DEF BackupPage, Other, NoPage, Good
  <2>3. ReadBack.app = ReadAppliance.seg
        /\ ReadBack.stat = IF RestoreStatistics.how = "CORRUPTED" THEN Garbage
                           ELSE RestoreStatistics.seg
    BY <1>2, <2>1 DEF ReadBack
  <2>4. ReadAppliance.seg =
           IF page[n].app = page[n].appCrc THEN page[n].app
           ELSE IF Good(Other(n))
                   /\ page[Other(n)].app = page[Other(n)].appCrc
                THEN page[Other(n)].app
                ELSE GarbledAppliance
    BY <1>2, <2>2 DEF ReadAppliance
  <2>5. ReadBack.stat =
           IF page[n].stat = page[n].statCrc THEN page[n].stat
           ELSE IF Good(Other(n))
                   /\ page[Other(n)].stat = page[n].statCrc
                THEN page[Other(n)].stat
                ELSE Garbage
    BY <1>2, <2>2, <2>3 DEF RestoreStatistics
  <2> QED
    BY <2>1, <2>3, <2>4, <2>5 DEF ReadsFrom
<1> QED
  BY <1>1, <1>2 DEF ReadsNewestPage

\* So it does after a step.
LEMMA ReadCasesNext == ReadsNewestPage'
BY ReadCases, PTL

\* Pages that stay as they are are read as they were.
LEMMA SameRead ==
    ASSUME UNCHANGED page
    PROVE  ReadBack' = ReadBack /\ NewestPage' = NewestPage
<1>1. NewestPage' = NewestPage
  BY SamePages
<1>2. CASE NewestPage = NoPage
  BY <1>1, <1>2, ReadCases, ReadCasesNext DEF ReadsNewestPage, NothingRead
<1>3. CASE NewestPage \in {0, 1}
  <2>1. PICK n \in {0, 1} : n = NewestPage
    BY <1>3
  <2>2. ReadsFrom(n) /\ ReadsFrom(n)'
    BY <1>1, <2>1, ReadCases, ReadCasesNext DEF ReadsNewestPage
  <2>3. Good(Other(n))' <=> Good(Other(n))
    BY DEF Good, Other
  <2>4. ReadBack'.app = ReadBack.app /\ ReadBack'.stat = ReadBack.stat
    BY <2>2, <2>3 DEF ReadsFrom, Other
  <2> QED
    BY <1>1, <2>1, <2>4 DEF ReadBack, NoPage
<1> QED
  BY <1>2, <1>3, ChoiceTyped

\* Damage to the page that is not read first can only make the other one
\* unreadable where that page was the one to fall back on.
LEMMA DamageRead ==
    ASSUME TypeOK, StoreInv, UNCHANGED <<kept, tried>>,
           NEW p \in {0, 1}, p # NewestPage,
           \/ FlushPage(p)
           \/ page' = [page EXCEPT ![p] = Torn]
           \/ \E r \in Remains(page[p]) : page' = [page EXCEPT ![p] = r]
    PROVE  /\ NewestPage' = NewestPage
           /\ ReadBack'.app \in {ReadBack.app, GarbledAppliance}
           /\ ReadBack'.stat \in {ReadBack.stat, Garbage}
<1> DEFINE n == Other(p)
<1>1. n \in {0, 1} /\ n # p /\ Other(n) = p
  BY DEF Other
<1>2. \A q \in {0, 1} : Good(q)' =>
         /\ Good(q) /\ page'[q].counter = page[q].counter
         /\ page'[q].appCrc = page[q].appCrc
  BY DamageInv
<1>3. page'[n] = page[n] /\ (Good(n)' <=> Good(n))
  <2>1. page'[n] = page[n]
    BY <1>1 DEF FlushPage, TypeOK, FlashTyped
  <2> QED
    BY <2>1 DEF Good
<1>4. Good(p)' => /\ page'[p].app \in {page[p].app, GarbledAppliance}
                  /\ page'[p].stat \in {page[p].stat, Garbage}
  <2>1. ASSUME NEW r \in Remains(page[p]), page' = [page EXCEPT ![p] = r]
        PROVE  /\ page'[p].app \in {page[p].app, GarbledAppliance}
               /\ page'[p].stat \in {page[p].stat, Garbage}
    BY <2>1, RemainsOfPage DEF TypeOK
  <2> QED
    BY <2>1, FlushedPage, TornPage DEF TypeOK
<1>5. CASE NewestPage = NoPage
  <2>1. ~Good(0)' /\ ~Good(1)'
    BY <1>2, <1>5, NewestCases DEF NoPage
  <2>2. NewestPage' = NoPage
    BY <2>1 DEF NewestPage, Good
  <2> QED
    BY <1>5, <2>2, ReadCases, ReadCasesNext DEF ReadsNewestPage
<1>6. CASE NewestPage = n
  <2>1. Good(n) /\ Good(n)' /\ ReadsFrom(n)
    BY <1>1, <1>3, <1>6, ReadCases DEF ReadsNewestPage
  <2>2. NewestPage' = n
    <3>1. /\ n = 1 => (Good(0) => page[1].counter > page[0].counter)
          /\ n = 0 => (Good(1) => ~(page[1].counter > page[0].counter))
      <4> HIDE DEF n
      <4> QED
        BY <1>1, <1>6, <2>1, NewestCases
    <3>2. /\ Good(0)' => Good(0) /\ page'[0].counter = page[0].counter
          /\ Good(1)' => Good(1) /\ page'[1].counter = page[1].counter
          /\ n = 0 => Good(0)'
          /\ n = 1 => Good(1)'
      BY <1>2, <2>1
    <3>3. NewestPage' =
             IF Good(1)' /\ (Good(0)' => page'[1].counter > page'[0].counter)
             THEN 1 ELSE 0
      BY <1>1, <2>1 DEF NewestPage, Good
    <3> HIDE DEF n
    <3> QED
      BY <1>1, <2>1, <3>1, <3>2, <3>3
  <2>3. ReadsFrom(n)'
    BY <1>1, <2>2, ReadCasesNext DEF ReadsNewestPage
  <2>4. page[p].appCrc # GarbledAppliance \/ ~Good(p)
    BY GarbageIsNoValue DEF StoreInv, Clean, TypeOK, FlashTyped, Page
  <2>5. page[n].statCrc # Garbage
    BY <1>1, <2>1, GarbageIsNoValue DEF StoreInv, Clean
  <2>6. Good(p)' => /\ Good(p) /\ page'[p].appCrc = page[p].appCrc
    BY <1>2
  <2> HIDE DEF n
  <2>7. ReadBack'.app \in {ReadBack.app, GarbledAppliance}
    BY <1>1, <1>3, <1>4, <2>1, <2>3, <2>4, <2>6 DEF ReadsFrom
  <2>8. ReadBack'.stat \in {ReadBack.stat, Garbage}
    BY <1>1, <1>3, <1>4, <2>1, <2>3, <2>5, <2>6 DEF ReadsFrom
  <2> QED
    BY <1>6, <2>2, <2>7, <2>8
<1> QED
  BY <1>1, <1>5, <1>6, ChoiceTyped DEF Other

\* A step that leaves the pages and what was stored alone, and begins a store
\* between two stores only.
LEMMA QuietBackup ==
    ASSUME BackupInv, UNCHANGED <<page, kept, failed>>,
           UNCHANGED tried \/ AtRest,
           AtRest' => AtRest /\ UNCHANGED next
    PROVE  BackupInv'
<1> SUFFICES ASSUME ~failed
             PROVE  FromEither' /\ (AtRest' => FromKept' /\ SparesNewest')
  BY DEF BackupInv
<1>1. ReadBack' = ReadBack /\ NewestPage' = NewestPage
  BY SameRead
<1>2. FromEither /\ (AtRest => FromKept /\ SparesNewest)
  BY DEF BackupInv
<1>3. FromEither'
  BY <1>1, <1>2 DEF FromEither, FromKept
<1>4. AtRest' => FromKept' /\ SparesNewest'
  BY <1>1, <1>2 DEF FromKept, SparesNewest, NoPage
<1> QED
  BY <1>3, <1>4

\* A step that erases or damages the page that is not read first.
LEMMA DamageBackup ==
    ASSUME TypeOK, StoreInv, BackupInv, UNCHANGED <<kept, tried, failed>>,
           NEW p \in {0, 1}, ~failed => p # NewestPage,
           \/ FlushPage(p)
           \/ page' = [page EXCEPT ![p] = Torn]
           \/ \E r \in Remains(page[p]) : page' = [page EXCEPT ![p] = r],
           AtRest' => AtRest /\ (UNCHANGED next \/ NewestPage = NoPage)
    PROVE  BackupInv'
<1> SUFFICES ASSUME ~failed
             PROVE  FromEither' /\ (AtRest' => FromKept' /\ SparesNewest')
  BY DEF BackupInv
<1>1. /\ NewestPage' = NewestPage
      /\ ReadBack'.app \in {ReadBack.app, GarbledAppliance}
      /\ ReadBack'.stat \in {ReadBack.stat, Garbage}
  BY DamageRead
<1>2. FromEither /\ (AtRest => FromKept /\ SparesNewest)
  BY DEF BackupInv
<1>3. FromEither'
  BY <1>1, <1>2 DEF FromEither
<1>4. AtRest' => FromKept' /\ SparesNewest'
  BY <1>1, <1>2 DEF FromKept, SparesNewest, NoPage
<1> QED
  BY <1>3, <1>4

\* A cold boot has read back what is kept from there on.
LEMMA ColdBootBackup ==
    ASSUME ColdBoot
    PROVE  BackupInv'
<1>1. /\ UNCHANGED page /\ kept' = ReadBack
      /\ next' = IF NewestPage = NoPage THEN NoPage ELSE Other(NewestPage)
  BY DEF ColdBoot, flash
<1>2. ReadBack' = ReadBack /\ NewestPage' = NewestPage
  BY <1>1, SameRead
<1>3. FromEither' /\ FromKept'
  BY <1>1, <1>2 DEF FromEither, FromKept
<1>4. SparesNewest'
  BY <1>1, <1>2, ChoiceTyped DEF SparesNewest, Other, NoPage
<1> QED
  BY <1>3, <1>4 DEF BackupInv

\* Neither does a boot erase the page it has restored from.
LEMMA BootBackup ==
    ASSUME TypeOK, Controlled, StoreInv, BackupInv, Boot
    PROVE  BackupInv'
<1>1. CASE ColdBoot
  BY <1>1, ColdBootBackup
<1>2. CASE WarmBoot
  <2>1. AtRest /\ UNCHANGED <<page, next, kept, tried, failed>>
    BY <1>2 DEF WarmBoot, flash, header, history, AtRest, Storing
  <2> QED
    BY <2>1, QuietBackup
<1>3. CASE BlankEraseSecond \/ BlankMark \/ BlankEraseFirst
  <2>1. /\ NewestPage = NoPage /\ AtRest
        /\ UNCHANGED <<kept, tried, failed>>
    BY <1>3, NewestCases
       DEF BlankEraseSecond, BlankMark, BlankEraseFirst, StoreInv,
           NothingGood, AtRest, Storing, history
  <2>2. CASE BlankMark
    <3>1. /\ page' = [page EXCEPT ![1].sig = "init"] /\ UNCHANGED next
          /\ ~Good(0)
      BY <2>2 DEF BlankMark, header, StoreInv, NothingGood
    <3>2. page'[0].sig # "good" /\ page'[1].sig = "init"
      BY <3>1 DEF TypeOK, FlashTyped, Page, Good
    <3>3. NewestPage' = NoPage
      BY <3>2 DEF NewestPage
    <3>4. ReadBack' = ReadBack
      BY <2>1, <3>3, ReadCases, ReadCasesNext
         DEF ReadsNewestPage, NothingRead
    <3> QED
      BY <2>1, <3>1, <3>3, <3>4
         DEF BackupInv, FromEither, FromKept, SparesNewest, NoPage
  <2>3. CASE BlankEraseSecond \/ BlankEraseFirst
    <3>1. FlushPage(0) \/ FlushPage(1)
      BY <2>3 DEF BlankEraseSecond, BlankEraseFirst
    <3> QED
      BY <2>1, <3>1, DamageBackup DEF NoPage
  <2> QED
    BY <1>3, <2>2, <2>3
<1>4. CASE PreparePage
  <2>1. /\ AtRest /\ UNCHANGED <<kept, tried, failed, next>>
        /\ next \in {0, 1} /\ FlushPage(next)
    BY <1>4
       DEF PreparePage, header, AtRest, Storing, TypeOK, HeaderTyped
  <2>2. ~failed => next # NewestPage
    BY <2>1 DEF BackupInv, SparesNewest, NoPage
  <2> QED
    BY <2>1, <2>2, DamageBackup
<1> QED
  BY <1>1, <1>2, <1>3, <1>4 DEF Boot

\* The header hides the copy before: its appliance segment is read from the
\* backup page, and its statistics only if they are those of the new header.
LEMMA WriteHeaderBackup ==
    ASSUME TypeOK, Controlled, StoreInv, StoreInv', CopyInv, BackupInv,
           WriteHeader
    PROVE  BackupInv'
<1> SUFFICES ASSUME ~failed
             PROVE  FromEither' /\ ~AtRest'
  BY DEF BackupInv, WriteHeader, StoreStep
<1>1. /\ pc = "write_header" /\ pc' = "write_appliance"
      /\ UNCHANGED <<next, ram, kept, tried>>
      /\ page[next].sig = "erased" /\ next \in {0, 1}
  BY DEF WriteHeader, StoreStep, header, board, Controlled
<1>2. PICK n \in {0, 1}, b \in {0, 1} :
         n = next /\ b # n /\ b = Other(n)
  BY <1>1 DEF Other
<1>3. page' = [page EXCEPT ![n] =
                 [page[n] EXCEPT !.sig = "good", !.counter = counter,
                                 !.appCrc = ram.app, !.statCrc = ram.stat]]
  BY <1>2 DEF WriteHeader
<1>4. /\ page'[n].app = GarbledAppliance /\ page'[n].stat = Garbage
      /\ page'[n].appCrc = ram.app /\ page'[n].statCrc = ram.stat
      /\ page'[b] = page[b]
  BY <1>1, <1>2, <1>3 DEF TypeOK, FlashTyped, Page, CopyInv, ErasedIsEmpty
<1>5. ram.app # GarbledAppliance /\ ram.stat # Garbage /\ ram = tried
  BY <1>1, GarbageIsNoValue
     DEF StoreInv, Clean, StoreInProgress, Storing, TypeOK, DataTyped,
         Segments
<1>6. ReadsFrom(n)'
  <2>1. NewestPage' = n
    BY <1>1, <1>2 DEF StoreInv, StoreInProgress, Storing
  <2> QED
    BY <2>1, ReadCasesNext DEF ReadsNewestPage
<1>7. Good(b) => ReadsFrom(b)
  <2>1. ~Good(n)
    BY <1>1, <1>2 DEF Good
  <2>2. Good(b) => NewestPage = b
    BY <1>2, <2>1, NewestCases
  <2> QED
    BY <2>2, ReadCases DEF ReadsNewestPage
<1>8. (Good(b)' <=> Good(b)) /\ FromEither
  BY <1>4 DEF Good, BackupInv
<1>9. ReadBack'.app \in {kept.app, tried.app, GarbledAppliance}
  <2>1. ReadBack'.app = IF Good(b) /\ page[b].app = page[b].appCrc
                        THEN page[b].app ELSE GarbledAppliance
    BY <1>2, <1>4, <1>5, <1>6, <1>8 DEF ReadsFrom
  <2>2. Good(b) /\ page[b].app = page[b].appCrc
          => ReadBack.app = page[b].app
    BY <1>7 DEF ReadsFrom
  <2> QED
    BY <1>8, <2>1, <2>2 DEF FromEither
<1>10. ReadBack'.stat \in {tried.stat, Garbage}
  BY <1>2, <1>4, <1>5, <1>6 DEF ReadsFrom
<1> QED
  BY <1>1, <1>9, <1>10 DEF FromEither, AtRest, Storing

\* The appliance segment is read back as soon as it is written; that of the
\* statistics is what it was.
LEMMA WriteApplianceBackup ==
    ASSUME TypeOK, Controlled, StoreInv, BackupInv, WriteAppliance
    PROVE  BackupInv'
<1> SUFFICES ASSUME ~failed
             PROVE  FromEither' /\ ~AtRest'
  BY DEF BackupInv, WriteAppliance, StoreStep
<1>1. /\ pc = "write_appliance" /\ pc' = "write_statistics"
      /\ UNCHANGED <<next, ram, kept, tried>> /\ next \in {0, 1}
  BY DEF WriteAppliance, StoreStep, header, board, Controlled
<1>2. PICK n \in {0, 1}, b \in {0, 1} :
         n = next /\ b # n /\ b = Other(n)
  BY <1>1 DEF Other
<1>3. page' = [page EXCEPT ![n] = [page[n] EXCEPT !.app = ram.app]]
  BY <1>2 DEF WriteAppliance
<1>4. /\ page'[n].sig = page[n].sig
      /\ page'[n].counter = page[n].counter
      /\ page'[n].appCrc = page[n].appCrc
      /\ page'[n].stat = page[n].stat
      /\ page'[n].statCrc = page[n].statCrc
      /\ page'[n].app = ram.app
      /\ page'[b] = page[b]
  BY <1>2, <1>3 DEF TypeOK, FlashTyped, Page
<1>5. /\ NewestPage = n /\ ram = tried
      /\ page[n].appCrc = tried.app
  BY <1>1, <1>2 DEF StoreInv, StoreInProgress, Storing
<1>6. NewestPage' = n
  <2>1. \A q \in {0, 1} : /\ page'[q].sig = page[q].sig
                          /\ page'[q].counter = page[q].counter
    BY <1>2, <1>4
  <2> QED
    BY <1>5, <2>1 DEF NewestPage, NoPage
<1>7. ReadsFrom(n) /\ ReadsFrom(n)'
  BY <1>5, <1>6, ReadCases, ReadCasesNext DEF ReadsNewestPage
<1>8. (Good(b)' <=> Good(b)) /\ FromEither
  BY <1>4 DEF Good, BackupInv
<1>9. ReadBack'.app = tried.app
  BY <1>4, <1>5, <1>7 DEF ReadsFrom
<1>10. ReadBack'.stat = ReadBack.stat
  BY <1>2, <1>4, <1>7, <1>8 DEF ReadsFrom
<1> QED
  BY <1>1, <1>8, <1>9, <1>10 DEF FromEither, AtRest, Storing

\* A store that has written all of its page is read back.
StoredIsRead ==
    pc = "flip_done" => /\ NewestPage = next
                        /\ ReadBack.app = kept.app
                        /\ ReadBack.stat = kept.stat

LEMMA StoredReadBack ==
    Controlled /\ StoreInv /\ CopyInv => StoredIsRead
<1> SUFFICES ASSUME Controlled, StoreInv, CopyInv, pc = "flip_done"
             PROVE  /\ NewestPage = next
                    /\ ReadBack.app = kept.app
                    /\ ReadBack.stat = kept.stat
  BY DEF StoredIsRead
<1>1. /\ next \in {0, 1} /\ NewestPage = next /\ kept = tried /\ ram = tried
      /\ page[next].appCrc = tried.app /\ page[next].statCrc = tried.stat
      /\ page[next].app = ram.app /\ page[next].stat = ram.stat
  BY DEF Controlled, StoreInv, StoreInProgress, Storing, CopyInv,
         WrittenSoFar
<1>2. ReadsFrom(next)
  BY <1>1, ReadCases DEF ReadsNewestPage
<1> QED
  BY <1>1, <1>2 DEF ReadsFrom

LEMMA StoredReadBackNext ==
    Controlled' /\ StoreInv' /\ CopyInv' => StoredIsRead'
BY StoredReadBack, PTL

LEMMA StoreBackup ==
    ASSUME TypeOK, Controlled, StoreInv, CopyInv, BackupInv,
           Controlled', StoreInv', CopyInv', Store \/ WriteFault
    PROVE  BackupInv'
<1>1. CASE WriteStatistics
  <2>1. pc' = "flip_done" /\ ~AtRest'
    BY <1>1 DEF WriteStatistics, AtRest, Storing
  <2> QED
    BY <2>1, StoredReadBackNext DEF StoredIsRead, BackupInv, FromEither
<1>2. CASE WriteHeaderRefused \/ WriteFault
  <2>1. /\ UNCHANGED <<kept, tried, failed>> /\ ~AtRest'
        /\ \/ UNCHANGED page
           \/ /\ page[next].sig = "erased" /\ next \in {0, 1}
              /\ page' = [page EXCEPT ![next] = Torn]
    BY <1>2
       DEF WriteHeaderRefused, WriteFault, StoreStep, AtRest, Storing,
           Controlled
  <2>2. page[next].sig = "erased" => next # NewestPage \/ next \notin {0, 1}
    BY ReadCases DEF ReadsNewestPage, Good
  <2> QED
    BY <2>1, <2>2, QuietBackup, DamageBackup
<1>3. CASE StoreDone
  <2>1. /\ UNCHANGED <<page, kept>> /\ pc = "flip_done"
        /\ next \in {0, 1} /\ next' = Other(next)
    BY <1>3 DEF StoreDone, flash, Controlled
  <2>2. /\ NewestPage' = next /\ ReadBack'.app = kept'.app
        /\ ReadBack'.stat = kept'.stat
    BY <2>1, SameRead, StoredReadBack DEF StoredIsRead
  <2> QED
    BY <2>1, <2>2
       DEF BackupInv, FromEither, FromKept, SparesNewest, Other
<1>4. CASE StoreFailed \/ RecoverFirst \/ RecoverNext
  <2>1. failed' = TRUE
    BY <1>4
       DEF StoreFailed, RecoverFirst, RecoverNext, history, CopyInv,
           RecoveryFailed, Recovering
  <2> QED
    BY <2>1 DEF BackupInv
<1>5. CASE BlockingFlush
  <2>1. /\ AtRest /\ UNCHANGED <<kept, tried, failed, next>>
        /\ next \in {0, 1} /\ FlushPage(next)
    BY <1>5
       DEF BlockingFlush, header, history, AtRest, Storing, Controlled
  <2>2. ~failed => next # NewestPage
    BY <2>1 DEF BackupInv, SparesNewest, NoPage
  <2> QED
    BY <2>1, <2>2, DamageBackup
<1> QED
  BY <1>1, <1>2, <1>3, <1>4, <1>5, WriteHeaderBackup, WriteApplianceBackup
     DEF Store

\* The power never fails in the middle of a write or an erase of the page that
\* is read first.
LEMMA LossSparesNewest ==
    ASSUME TypeOK, Controlled, StoreInv, CopyInv, BackupInv, ~failed,
           NEW p \in {0, 1}, p \in {HeadedPage, ErasingPage}
    PROVE  p # NewestPage
<1>1. CASE pc \in {"blank_mark", "blank_first"}
           \/ (pc = "prepare" /\ next = NoPage)
  BY <1>1, NewestCases DEF StoreInv, NothingGood, NoPage
<1>2. CASE pc = "flush_next" \/ (pc = "prepare" /\ next # NoPage)
  <2>1. p = next /\ AtRest
    BY <1>2 DEF HeadedPage, ErasingPage, NoPage, AtRest, Storing
  <2> QED
    BY <2>1 DEF BackupInv, SparesNewest, NoPage
<1>3. CASE pc = "write_header"
  <2>1. p = next /\ ~Good(next)
    BY <1>3 DEF HeadedPage, ErasingPage, NoPage, Good
  <2> QED
    BY <2>1, ReadCases DEF ReadsNewestPage
<1>4. pc \notin Recovering
  BY DEF CopyInv, RecoveryFailed
<1> QED
  BY <1>1, <1>2, <1>3, <1>4 DEF HeadedPage, ErasingPage, NoPage, Recovering

LEMMA EnvironmentBackup ==
    ASSUME TypeOK, Controlled, StoreInv, CopyInv, BackupInv,
           \/ AsynchPass \/ ApplianceChanges \/ StatisticsChange
           \/ RequestStore \/ WarmReset \/ WakeUp \/ FirmwareUpdated
           \/ LineChanges \/ PowerLost
    PROVE  BackupInv'
<1>1. CASE PowerLost
  <2>1. UNCHANGED <<kept, tried, failed>> /\ ~AtRest'
    BY <1>1 DEF PowerLost, RamLost, history, AtRest
  <2>2. CASE UNCHANGED page
    BY <2>1, <2>2, QuietBackup
  <2>3. ASSUME NEW p \in {0, 1}, p \in {HeadedPage, ErasingPage},
               \/ page' = [page EXCEPT ![p] = Torn]
               \/ \E r \in Remains(page[p]) : page' = [page EXCEPT ![p] = r]
        PROVE  BackupInv'
    BY <2>1, <2>3, LossSparesNewest, DamageBackup
  <2> QED
    BY <1>1, <2>2, <2>3, LossDamage
<1>2. CASE FirmwareUpdated
  <2>1. UNCHANGED <<page, kept, tried, failed>> /\ ~AtRest'
    BY <1>2 DEF FirmwareUpdated, RamLost, flash, history, AtRest
  <2> QED
    BY <2>1, QuietBackup
<1>3. CASE \/ AsynchPass \/ ApplianceChanges \/ StatisticsChange
           \/ RequestStore \/ WarmReset \/ WakeUp \/ LineChanges
  <2>1. AtRest /\ UNCHANGED <<page, next, kept, failed>>
    BY <1>3
       DEF AsynchPass, ApplianceChanges, StatisticsChange, RequestStore,
           WarmReset, WakeUp, LineChanges, flash, header, history, AtRest,
           Storing
  <2> QED
    BY <2>1, QuietBackup
<1> QED
  BY <1>1, <1>2, <1>3

LEMMA NextBackup ==
    ASSUME TypeOK, Controlled, StoreInv, CopyInv, BackupInv,
           Controlled', StoreInv', CopyInv', [Next]_vars
    PROVE  BackupInv'
<1>1. CASE UNCHANGED vars
  <2>1. UNCHANGED <<page, next, pc, kept, tried, failed>>
    BY <1>1 DEF vars
  <2> QED
    BY <2>1, QuietBackup DEF AtRest
<1>2. CASE Next
  BY <1>2, BootBackup, StoreBackup, EnvironmentBackup DEF Next
<1> QED
  BY <1>1, <1>2

LEMMA InitBackup ==
    ASSUME Init
    PROVE  BackupInv
<1>1. NewestPage = NoPage /\ ~AtRest
  BY DEF Init, NewestPage, Erased, AtRest
<1> QED
  BY <1>1, ReadCases
     DEF Init, BackupInv, FromEither, NothingRead, ReadsNewestPage

\* What the states of NVData are to Storage.
Up == pc \notin {"off", "cold_reset"}
ResetValues == [app |-> {BlankAppliance(f) : f \in Firmwares}, stat |-> {0}]

\* A step of a running board that neither begins nor ends anything.
LEMMA QuietService ==
    ASSUME Up, Up', UNCHANGED <<status, kept, tried, fresh, failed>>
    PROVE  Service!Next
BY DEF Up, Service!Next, Service!Use

\* What a cold boot does to the appliance segment.
LEMMA ApplianceRestored ==
    ASSUME TypeOK, StoreInv, FreshInv, BackupInv, ColdBoot
    PROVE  Service!Comes("app") \/ Service!Resets("app")
<1>1. /\ kept'.app = ReadBack.app
      /\ ~failed => ReadBack.app \in {kept.app, tried.app, GarbledAppliance}
      /\ NothingRead.app = GarbledAppliance
  BY DEF ColdBoot, BackupInv, FromEither, NothingRead
<1>2. status'.app = "OKAY" =>
         /\ fresh
         /\ ram'.app \in {kept.app, tried.app}
  BY OkayFromNewest, OkayIsFresh
<1>3. CASE status'.app = "CORRUPTED"
  <2>1. ram'.app = BlankAppliance(firmware) /\ firmware \in Firmwares
    BY <1>3
       DEF ColdBoot, Demoted, RestoreAppliance, ReadAppliance, TypeOK,
           BoardTyped
  <2>2. ram'.app \in ResetValues.app
    BY <2>1 DEF ResetValues
  <2> QED
    BY <1>1, <1>3, <2>2
       DEF Service!Resets, Service!Candidates, ResetValues
<1>4. CASE status'.app # "CORRUPTED"
  <2>1. /\ NewestPage # NoPage
        /\ ram'.app = RestoreAppliance.seg
        /\ status'.app = Demoted(RestoreAppliance.how)
    BY <1>4 DEF ColdBoot
  <2>2. /\ RestoreAppliance.seg = ReadAppliance.seg
        /\ RestoreAppliance.seg.fw = firmware
        /\ RestoreAppliance.how \in {"OKAY", "OKAY_BACKUP"}
    BY <1>4, <2>1 DEF Demoted, RestoreAppliance, ReadAppliance
  <2>3. firmware # 0
    BY FirmwaresAssumption DEF FirmwaresAssumption, TypeOK, BoardTyped
  <2>4. ram'.app = ReadBack.app /\ ram'.app # GarbledAppliance
    BY <2>1, <2>2, <2>3 DEF ReadBack, GarbledAppliance
  <2>5. status'.app \in {"OKAY", "OKAY_BACKUP"}
    BY <2>1, <2>2 DEF Demoted
  <2> QED
    BY <1>1, <1>2, <2>4, <2>5 DEF Service!Comes, Service!Candidates
<1> QED
  BY <1>3, <1>4

\* ... and to that of the statistics.
LEMMA StatisticsRestored ==
    ASSUME TypeOK, StoreInv, FreshInv, BackupInv, ColdBoot
    PROVE  Service!Comes("stat") \/ Service!Resets("stat")
<1>1. /\ kept'.stat = ReadBack.stat
      /\ ~failed => ReadBack.stat \in {kept.stat, tried.stat, Garbage}
      /\ NothingRead.stat = Garbage
  BY DEF ColdBoot, BackupInv, FromEither, NothingRead
<1>2. status'.stat = "OKAY" => fresh /\ ram'.stat \in {kept.stat, tried.stat}
  BY OkayFromNewest, OkayIsFresh
<1>3. CASE status'.stat = "CORRUPTED"
  <2>1. ram'.stat = 0
    BY <1>3 DEF ColdBoot, Demoted, RestoreStatistics
  <2> QED
    BY <1>1, <1>3, <2>1
       DEF Service!Resets, Service!Candidates, ResetValues
<1>4. CASE status'.stat # "CORRUPTED"
  <2>1. /\ NewestPage # NoPage
        /\ ram'.stat = RestoreStatistics.seg
        /\ status'.stat = Demoted(RestoreStatistics.how)
    BY <1>4 DEF ColdBoot
  <2>2. RestoreStatistics.how \in {"OKAY", "OKAY_BACKUP"}
    BY <1>4, <2>1 DEF Demoted, RestoreStatistics
  <2>3. ram'.stat = ReadBack.stat /\ ram'.stat # Garbage
    BY <2>1, <2>2, RestoredClean, GarbageIsNoValue DEF ReadBack, StoreInv
  <2>4. status'.stat \in {"OKAY", "OKAY_BACKUP"}
    BY <2>1, <2>2 DEF Demoted
  <2> QED
    BY <1>1, <1>2, <2>3, <2>4 DEF Service!Comes, Service!Candidates
<1> QED
  BY <1>3, <1>4

\* A boot begins with a power up and ends when its last page is erased.
LEMMA BootService ==
    ASSUME TypeOK, StoreInv, FreshInv, BackupInv, Boot
    PROVE  Service!Next
<1>1. CASE ColdBoot
  <2>1. \A s \in {"app", "stat"} : Service!Comes(s) \/ Service!Resets(s)
    BY <1>1, ApplianceRestored, StatisticsRestored
  <2>2. /\ ~Up /\ Up' /\ tried' = kept' /\ failed' = FALSE
        /\ UNCHANGED fresh
    BY <1>1 DEF ColdBoot, Up
  <2>3. Service!PowerUp
    BY <2>1, <2>2 DEF Service!PowerUp, Service!Segments, Up
  <2> QED
    BY <2>3 DEF Service!Next
<1>2. CASE BlankEraseFirst \/ PreparePage
  <2>1. /\ Up /\ Up' /\ fresh' = FALSE
        /\ UNCHANGED <<ram, status, kept, tried, failed>>
    BY <1>2 DEF BlankEraseFirst, PreparePage, board, Up
  <2> QED
    BY <2>1 DEF Up, Service!Next, Service!EndBoot
<1>3. CASE WarmBoot \/ BlankEraseSecond \/ BlankMark
  <2>1. Up /\ Up' /\ UNCHANGED <<status, kept, tried, fresh, failed>>
    BY <1>3
       DEF WarmBoot, BlankEraseSecond, BlankMark, board, history, Up
  <2> QED
    BY <2>1, QuietService
<1> QED
  BY <1>1, <1>2, <1>3 DEF Boot

\* A store is complete with its last write; its end tells how it went.
LEMMA StoreService ==
    ASSUME TypeOK, Controlled, StoreInv, FreshInv, Store \/ WriteFault
    PROVE  Service!Next
<1>1. CASE WriteStatistics
  <2>1. /\ pc = "write_statistics" /\ kept' = ram /\ Up /\ Up'
        /\ UNCHANGED <<ram, status, tried, fresh, failed>>
    BY <1>1 DEF WriteStatistics, StoreStep, board, Up
  <2>2. ram = tried /\ fresh
    BY <2>1
       DEF StoreInv, StoreInProgress, FreshInv, StoringIsFresh, Storing
  <2> QED
    BY <2>1, <2>2 DEF Up, Service!Next, Service!CompleteStore
<1>2. CASE StoreDone
  <2>1. /\ Up /\ kept = tried /\ failed' = FALSE
        /\ UNCHANGED <<ram, kept, tried, fresh>>
    BY <1>2 DEF StoreDone, StoreInv, StoreInProgress, Storing, Up
  <2>2. status' \in {status, [app |-> "OKAY", stat |-> "OKAY"]}
    BY <1>2 DEF StoreDone
  <2>3. [app |-> "OKAY", stat |-> "OKAY"]
          = [s \in {"app", "stat"} |-> "OKAY"]
    OBVIOUS
  <2> QED
    BY <2>1, <2>2, <2>3
       DEF Up, Service!Next, Service!EndStore, Service!Segments
<1>3. CASE StoreFailed
  <2>1. /\ Up /\ failed' = TRUE
        /\ UNCHANGED <<ram, status, kept, tried, fresh>>
    BY <1>3 DEF StoreFailed, Up
  <2> QED
    BY <2>1 DEF Up, Service!Next, Service!EndStore
<1>4. CASE \/ WriteHeader \/ WriteHeaderRefused \/ WriteAppliance
           \/ WriteFault \/ BlockingFlush \/ RecoverFirst \/ RecoverNext
  <2>1. Up /\ UNCHANGED <<status, kept, tried, fresh, failed>>
    BY <1>4
       DEF WriteHeader, WriteHeaderRefused, WriteAppliance, WriteFault,
           StoreStep, BlockingFlush, RecoverFirst, RecoverNext, board,
           history, Up
  <2>2. CASE Up'
    BY <2>1, <2>2, QuietService
  <2>3. CASE ~Up'
    BY <2>1, <2>3 DEF Up, Service!Next, Service!Lose
  <2> QED
    BY <2>2, <2>3
<1> QED
  BY <1>1, <1>2, <1>3, <1>4 DEF Store

\* Between stores the data are used, and either one begins or the power goes.
LEMMA EnvironmentService ==
    ASSUME \/ AsynchPass \/ ApplianceChanges \/ StatisticsChange
           \/ RequestStore \/ WarmReset \/ WakeUp \/ FirmwareUpdated
           \/ LineChanges \/ PowerLost
    PROVE  Service!Next
<1>1. ASSUME NEW c, NEW a, pc = "run", BeginStore(c, a),
             UNCHANGED <<status, kept, failed>>
      PROVE  Service!Next
  <2>1. Up /\ Up' /\ tried' = ram' /\ fresh' = TRUE
    BY <1>1 DEF BeginStore, Up
  <2> QED
    BY <1>1, <2>1 DEF Up, Service!Next, Service!BeginStore
<1>2. CASE RequestStore
  BY <1>1, <1>2 DEF RequestStore
<1>3. CASE AsynchPass
  <2>1. pc = "run" /\ UNCHANGED <<status, kept, failed>>
    BY <1>3 DEF AsynchPass
  <2>2. CASE HandlerStoring
    BY <1>1, <2>1, <2>2 DEF HandlerStoring
  <2>3. CASE HandlerIdle \/ HandlerStored
    <3>1. Up /\ Up' /\ UNCHANGED <<tried, fresh>>
      BY <2>1, <2>3 DEF HandlerIdle, HandlerStored, Up
    <3> QED
      BY <2>1, <3>1, QuietService
  <2> QED
    BY <1>3, <2>2, <2>3 DEF AsynchPass
<1>4. CASE \/ ApplianceChanges \/ StatisticsChange \/ WarmReset \/ WakeUp
           \/ LineChanges
  <2>1. Up /\ Up' /\ UNCHANGED <<status, kept, tried, fresh, failed>>
    BY <1>4
       DEF ApplianceChanges, StatisticsChange, WarmReset, WakeUp,
           LineChanges, board, history, Up
  <2> QED
    BY <2>1, QuietService
<1>5. CASE FirmwareUpdated \/ PowerLost
  <2>1. ~Up' /\ UNCHANGED <<kept, tried, fresh, failed>>
    BY <1>5 DEF FirmwareUpdated, PowerLost, RamLost, history, Up
  <2> QED
    BY <2>1 DEF Up, Service!Next, Service!Lose
<1> QED
  BY <1>2, <1>3, <1>4, <1>5

\* What the storage promises to the owners of its segments: each store counts
\* as a whole or not at all, segment by segment, whatever cuts it and whichever
\* page is damaged, as long as the counter of the headers does not wrap.
THEOREM DataKept == Spec /\ []CounterLow => KeepsData
<1> DEFINE Inv == /\ TypeOK /\ Controlled /\ StoreInv /\ CopyInv
                  /\ FreshInv /\ BackupInv
<1>1. Init => Inv
  BY CopiesInvariant, InitFresh, InitBackup
<1>2. Inv /\ CounterLow /\ [Next]_vars => Inv'
  BY CopiesInvariant, NextFresh, NextBackup
<1>3. Init => Service!Init
  BY DEF Init, Service!Init
<1>4. Inv /\ [Next]_vars => [Service!Next]_(Service!vars)
  <2>1. CASE UNCHANGED vars
    BY <2>1 DEF vars, Service!vars
  <2>2. ASSUME Inv, Next
        PROVE  Service!Next
    BY <2>2, BootService, StoreService, EnvironmentService DEF Next
  <2> QED
    BY <2>1, <2>2
<1> HIDE DEF Inv
<1> QED
  BY <1>1, <1>2, <1>3, <1>4, PTL DEF Spec, KeepsData, Service!Spec

===============================================================================
