# Vostok ACU: a verification project

The repository is the firmware of the control board (ACU, appliance control
unit) of a Whirlpool dishwasher: about 173 000 lines of C for an STM32G0 under
the embOS kernel, in `src/Vostok_ACU_A/source/`. This directory holds TLA+
modules of its parts, the TLC configurations that check them, and theorems that
TLAPS proves. Its cores are the **supervisor**, the state machine that starts,
delays, pauses, cancels and ends washing cycles; the **interpreter**, which runs
their steps and sub-cycles; the **non volatile storage**
with the brown-out monitor, which carries the machine over a loss of power; and
the **Win bus**, over which the boards of the appliance talk to each other.

Paths below are relative to `src/Vostok_ACU_A/source/`; `XC` is `XCategory`.

1. [The system](#1-the-system)
2. [The modules](#2-the-modules)
3. [The runs](#3-the-runs)
4. [The proofs](#4-the-proofs)
5. [Where the code and its comments disagree](#5-where-the-code-and-its-comments-disagree)
6. [What is not modelled](#6-what-is-not-modelled)
7. [Plan](#7-plan)

## 1. The system

### Layers

| directory | what it is |
|---|---|
| `XC/Application` | the platform: supervisor, interpreter, selector, regulations, tests, APIs |
| `XC/Service` | bus protocol (Win), message routing (Reveal), non volatile data (NVData) |
| `XC/Common` | faults, statistics, brown-out, timers, the kernel's threads, self tests |
| `XC/Hbl` | loads and inputs |
| `Category` | the dishwasher: door and sensor monitors, fill, wash and dispense processes |
| `ProjectSpecific` | the configuration of this product |
| `Micros` | drivers of the microcontroller |

Listings, objects, executables and the IAR project are build products.

### Threads

`SRMain.c:140-260` creates the threads, `SRMain_prv.h:225-345` lists what each
calls. A higher priority preempts a lower one at any instruction.

| thread | priority | period | what runs in it |
|---|---|---|---|
| Main | 120 | 10 ms | watchdog, self tests |
| Asynch | 100 | 5 ms | loads, brown-out monitor, NVData |
| Communication | 80 | 5 ms | Reveal, the APIs and through them the requests of the HMI |
| FastAppMgr | 60 | 20 ms | fast processes |
| AppMgr | 40 | 100 ms | ApplianceMgr (monitors, interpreter, supervisor), Statistics, Fault, TestMgr |
| background | 10 | | the rest |

`Win__Handle1ms` runs in the context of the millisecond tick. There is little
locking: a module relies on who may preempt whom, and on each datum having one
writer, where it has one.

### Components

The state each component keeps, its operations, whom it talks to and what makes
it correct. `PROJECT.json` lists the same components with their files and how
much of each is modelled.

**Supervisor** (`XC/Application/acu/Supervisor`). State: the machine's state
(PROGRAMMING, DELAY, RUN, PAUSE, CANCELLING, END_OF_CYCLE, FAULT and the two
other pauses), the start and selector regulations it has read, the remaining
delay, a fault flag, a test flag and one record of external requests. Each
100 ms pass (`Supervisor__Run`) checks the regulations, then the fault flag,
then the *do* function of the state; a transition runs the exit, transition and
entry functions of the generated dispatcher. *Interaction:* it configures the
interpreter and reads its result; the door monitor, fill processes, TestMgr, Fault and the
service API post requests by function calls; the communication thread writes
the requested regulations. *Hard:* requests from four sources with one slot for
each kind, read at different points of the pass and answered later; resets,
warm and cold, at any point. *Correct when* the interpreter always runs what
the state says; no cycle starts or goes on behind an open door; a fault, a
reset or an elapsed delay takes effect; a committed program is not replaced.

**Interpreter, Selector, SubCycle** (`XC/Application/acu/...`). State: per
compartment the cycle, phase, step and statement being run, the same as saved
by a pause, the calls to sub-cycles. Operations: configure, run one pass of statements,
advance a phase or step, pause, resume; enter a sub-cycle, pre-empt one, end it in
five ways. *Hard:* two copies of the data, one put aside by a pause and one by a
sub-cycle, and a status that is written by some functions and copied by
others; requests for sub-cycles from processes, tasks, pre-faults and the end of a
pause. *Correct when* a resumed cycle goes on where it was paused, a sub-cycle
returns to its caller, nothing sends the interpreter where the setting file has
no step, a pass terminates.

**Regulations, RegulationAccept** (`XC/Application/acuhmi`, `acu`). State: for
each regulation the requested and the accepted index. The HMI writes the
first, the supervisor copies one to the other (accept or reject). *Correct
when* every request is answered and the answer is to the request that was
looked at.

**Door monitor, CycleResume, cartridge monitor** (`Category/Application/acu`).
State: the last door reading, a step advance kept while the door is open. Edges
of the door post a pause or a start; opening by the door opening system is
told apart. *Correct when* an open door pauses a running cycle, and a kept step
is applied to the cycle it was meant for.

**Fault** (`XC/Common/acu/Fault`). State: observers, pre-fault and fault,
sub-codes. It tells the supervisor of a fault or a pre-fault and decides when
the fault state may be left.

**TestMgr** (`XC/Application/acu/TestMgr`). Engages and disengages test cycles
through the supervisor's selector and external start.

**ApplianceMgr, Mode, CommunicationMonitor** (`XC/Application/...`). Order of
a pass of the application thread, stabilisation of inputs after power-up,
sub-modes, loss of the HMI.

**Processes, tasks and monitors** (`Category/Application/acu`,
`XC/Application/acu/Processes`). Statements of the cycles: fill, wash, heat,
dispense, jump, maintain; control laws over sensors. Some ask the supervisor
for a pause.

**NVData** (`XC/Service/all/NVData`). State: three RAM segments (appliance,
statistics, static), two flash pages with a header and a copy of the first
two, the pointer to the page of the next store, a machine IDLE, STORING, STORED,
ERROR. Operations: boot (choose the newest page, restore, erase the other),
store, forced blocking store, forced corruption, recovery from a failed write.
*Hard:* the power may go during any flash operation, and during the boot or
the recovery that follows. *Correct when* the boot never takes an old copy for
the last one, nothing but a failed or a cut store costs the last copy, and a brown-out
gets its data stored.

**BrownOut** (`XC/Common/acu/BrownOut`). State: a machine INITIALIZE, DETECT,
RECOVER, a filter. It sets the flag NVData works on.

**Statistics** (`XC/Common/acu/Statistics`). Counters of cycles and faults, in
an NVData segment.

**Win** (`XC/Service/all/Win`). State: one outgoing and one
incoming message buffer, the last message counter of each node, timers, retries. *Hard:* collisions,
breaks, lost and duplicated frames, a receive time-out racing the processing.

**Reveal and the APIs** (`XC/Service/all/Reveal`, `API*`). Routing of messages
between bus, diagnostics and the APIs; parsing and formatting.

**SetLoadQueue, LoadsControl, Hbl** (`XC/Hbl`). The queue of load commands
between the application and the 5 ms thread, and the drivers of the loads.

**SystemTimers, Callback, Millis**; **SRTaskMonitor and the self tests**;
**SFUpdater and SettingFile**; **ActivateTask**; **Estimator, Condition,
Status**; **motor control API**; **micro drivers**.

### How a pass and a request meet

```
 HMI -> Win -> Reveal -> APIs                    door, cartridge (inputs)
            | requested[..], phase/step                 |
            v                                           v
   Regulations buffers                    post-monitors: DoorMonitor
            |                                           | SetStart(PAUSE/START)
            v                                           v
  Supervisor__Run: regulations -> fault flag -> do function -> entry functions
            ^            ^                              |
  TestMgr --+   Fault ---+                              v configure, pause, resume
                                              Interpreter (result of the pass)
            segments in RAM  <-- Supervisor, Statistics, Fault ...
                    |
   BrownOut -> NVData -> flash pages -> next cold boot
```

The hazards this gives rise to are listed in `PROJECT.json`, each at its line
with the properties that would catch it, or with the reason why none does.

## 2. The modules

| module | what it is |
|---|---|
| `Supervisor.tla` | the supervisor with the parts of its neighbours that write its state; properties |
| `CycleLifecycle.tla` | abstract specification: the life of a cycle |
| `MCSupervisor.tla` | the constants TLC needs as definitions (jump targets, heading behaviours) |
| `SupervisorProofs.tla` | theorems `TypeCorrect`, `SupervisorCoherent`, `SupervisorKeepsLifecycle` |
| `SupervisorDoors.tla` | theorems `StepAdvanceIsTaken`, `DoorsClosedAtStart`, `OpenDoorPauses` |
| `Interpreter.tla` | the functions of the interpreter, as operators on its record of data |
| `InterpreterRun.tla` | the interpreter used by the supervisor, the sub-cycle requests, the monitors and the resets; properties |
| `MainCycle.tla` | abstract specification: the place of the main cycle is kept |
| `MCInterpreter.tla` | a small setting file for TLC |
| `InterpreterProofs.tla` | theorems `TypeCorrect`, `SettingFileFollowed`, `DataStacked`, `HigherPreempts`, `RequestsAnswered`, `MainCycleRefined` |
| `InterpreterStatus.tla` | theorems `PauseAsked`, `AdvancesRight`, `StepsTold` |
| `NVData.tla` | the storage, the brown-out monitor and the loss of power; properties |
| `Storage.tla` | abstract specification: a store counts for each segment as a whole or not at all |
| `NVDataProofs.tla` | theorems `TypeCorrect`, `OkayIsLast` |
| `NVDataCopies.tla` | theorems `NothingRanSince`, `RecoveryEnds`, `CopySurvives`, `CorruptionHonoured`, `DataKept` |
| `Win.tla` | the bus driver of each node, the wire between them and its faults; properties |
| `WinService.tla` | abstract specification: what the bus promises to the layers above |
| `MCWin.tla` | the timings and message bounds TLC needs as definitions |
| `WinProofs.tla` | theorems `TypeCorrect`, `TxBufferIsKept`, `RxBufferIsKept`, `ContentionIsReleased` |
| `WinDelivery.tla` | theorem `InOrder` |

An operator whose comment begins with *Mutant:* is not used by the
specification. It is the definition next to it with a plausible bug, and
`PROJECT.json` names the property that finds it.

### Supervisor

*The pass.* `pc` names the seams of a pass of the application thread, in the
order of `ApplianceMgr__Handler`:

| `pc` | what comes next | code |
|---|---|---|
| `monitors` | the post-monitors: door reading, stabilisation | DoorMonitor.c, ApplianceMgr.c |
| `interpreter` | a pass of the interpreter, abstracted to its result, or nothing when its configuration is invalid | Interpreter.c, Supervisor.c |
| `regulations` | CheckRegulations: a reset from the HMI, an external reset, or reading start and selector | Supervisor.c |
| `fault` | the fault flag, taken before the state's function | Supervisor.c:877 |
| `execute` | the do function of the state with all it calls | Supervisor.c, Supervisor_fsm.h |
| `engage` | the rest of an EngageTest that has been called | TestMgr.c, Supervisor.c:745-800 |
| `background` | the cartridge door is read, TestMgr may engage a test | ApplianceMgr.c |

The communication thread (`CommunicationThread`) takes a step at any seam:
`HmiRequest` writes a requested regulation, `ApiAdvance` an external phase or
step, `Disengage` ends a test. It preempts the application thread at
instructions, the model only at seams; the two windows inside one do function
that this leaves out are listed as hazards.

*State.* `state`, `fault`, `testActive` are the fields of `Supervisor_Data`;
`selector` and `start` those of `Spv_Regulations` (`start = None` when
`Start_Changed` is FALSE); `delayLeft` and `delayTicks` the remaining delay and
`Time_Counter`; `ext` is `External_Request`; `requested` and `accepted` the two
buffers of Regulations; `interp` and `saved` what the interpreter is configured
to run and `Pause_Resume_Data`; `doorClosed`, `cartridgeClosed`, `stepAdvance`
the monitors'; `stable` is `System_Stable`. `result` keeps the interpreter's
result with the cycle it came from, which the code forgets: a result may be
applied to another cycle than its own (section 5).

*Transitions.* `EvReset`, `EvPause`, `EvResume`, `EvStart`, `EvEnd`, `EvFault`
are the dispatcher's events with the exit, transition and entry functions in one
step. The dispatcher works on a copy of the state that is written back last:
`StepAfterRunEntry` is the function that sees the old value.

*Abstractions.* One compartment, as in this product. A configuration of the
interpreter is the label of the macro it runs and the cycle; phase, step and statement
are left out, and advancing one of them may succeed, run off the last, or fail.
The setting file is the constants: which cycles are `RUN`, which may be paused,
where a `JUMP_IF` may go, what the heading asks after a cold reset, whether
there is a cancel cycle. A cycle run as a sub-cycle is part of its main cycle.
`Pause_Request` of the interpreter is never set in this product and is left
out, as is the command END, which nobody sends. Before the inputs are stable
`Supervisor__Run` is skipped, but TestMgr's engagement is not.

*Resets.* A warm reset keeps RAM, and so the machine; `Supervisor__Initialize`
clears `External_Request`. A cold reset restores the segments and asks the
heading of the running cycle whether to cancel, pause or resume; a second loop
restarts a machine that was terminated or may leave the fault state. `Restarted`
is what both have in common.

*Properties.*

| property | what it says |
|---|---|
| `TypeOK` | types; the delay does not underflow and its tenths stay below a second |
| `Coherent` | the interpreter runs what the state says; what a pause saved is what its end will run; a drain is never a test (`WaitingCoherent`, `RunCoherent`, `CancellingCoherent`, `OverCoherent`) |
| `OpenDoorPausesRun` | while a pausable cycle runs behind an open door the door's pause is still posted: nothing else makes it get lost |
| `StartsBehindClosedDoors` | every entry into RUN is behind closed doors |
| `StepAdvanceBelongsToPause` | a step kept for a paused cycle never waits in a running one |
| `KeepsLifecycle` | the supervisor implements `CycleLifecycle` |
| `DelayExpires`, `FaultTakesEffect`, `ResetIsAnswered` | liveness |

*Refinement.* `CycleLifecycle` knows three things: the mode (idle, waiting,
running, held, draining, finished, faulted, dead), the chosen program and the
cycle being executed or held. A program that has been committed to is neither
replaced nor swapped while it waits, runs or is held; a held cycle continues as it was; a
drain is never taken for a running program. `Mode`, `selector` and `Executed`
map the supervisor to it: the cycle executed is `interp.cycle` in RUN and
CANCELLING, `saved.cycle` in their pauses.

### Interpreter

*Setting file.* It is a constant: `Program[c][p]` is the sequence of steps of
phase `p` of cycle `c`, a step the sequence of its statements (in the file, those
that share a `T_Flag`). `Cps` counts statements and the status counts steps; here a
place is a cycle, a phase and a step, and the statement at which a step begins
stands for it. `ProgramAssumption` and `PhasesAssumption` say what a well
formed file is, which the code takes for granted: cycles and phases are
there, the cycles of PROGRAMMING, PAUSE, END and FAULT have a phase for each cycle
they stand in for and neither jump nor end a sub-cycle, jumps lead to existing
places, those of a sub-cycle into itself and those of a main cycle into no
sub-cycle, and no sub-cycle is listed under two priorities.

*State.* `itp` is the record of `Interpreter_Data` (`data`), `Interpreter_Status`
(`status`), `Pause_Resume_Data` and `Sub_Cycle_Resume_Data` with the copy of the
status in each (`pauseData`, `pauseStatus`, `subData`, `subStatus`), what SetPhase and SetStep
read of `Itp_Phase_Data` (`loaded`) and `Main_Cycle_Number_Of_Phases`
(`mainPhases`). `fsm` is the supervisor's state without the two of the delay, in
which the interpreter runs a cycle like that of PROGRAMMING; `result` and `steps` are
`Interpreter_Result` and `interpreter_step_count` of the pass; `requested` is the
priority of `Requested_Sub_Cycle`. An operator of `Interpreter.tla` is the C
function of that name: it takes the record and returns what the function
makes of it.

| action | code |
|---|---|
| `InterpreterRun` | one turn of the loop of Supervisor__Run over Interpreter__Run: LoadPhaseData, SubCycle__GetActive and CheckForSubCycle (`EnterSubCycle`), the statements of the step (`RunStep`: stay, end the step, phase, cycle or sub-cycle, jump, pause) |
| `RequestStart` | SubCycle__RequestStart, at any seam |
| `TerminateFromMonitor` | the motor fault monitors: Interpreter__TerminateSubCycle |
| `StabilityReaction` | StabilityControl: Interpreter__SetPhase from a task |
| `RunPauses`, `PauseResumes` | PauseEntry; the way back with CycleResume__StartSubcycle |
| `RunSetsPhase`, `RunSetsStep` | advances of the HMI or the service API: Interpreter__SetPhase, Interpreter__SetStep |
| `ProgrammingStarts`, `RunEnds`, `RunEndsInReset`, `FaultDo`, `Command`, `TakeFault` | the do functions and events that configure another cycle |
| `ColdReset*` | the restored data with nothing loaded, and what the heading asks |

*A step.* What a process does is whether it is busy; the run of a step ends with
the first statement of SET_STATE that asks for it, or with a jump that is taken, or when all its
processes are done. `Resume_From_Pause` lets the run that comes back from a pause pass
the statement that asked for it. An interpreter pass is as many turns of the loop as
results ask for, at most `MaxSteps`.

*Abstractions.* The timers of the steps and `Resume_From_Reset` are left out,
which only processes and the estimator read. A warm reset keeps all of the
interpreter's RAM and is left out, as is the terminated machine, which
`NoSettingFileError` shows is never reached. The result of a pass is forgotten at its end.
Cold resets come between two passes. The options are those of this product:
sub-cycles run in tests but not in all states, `OK_TO_START_SUB_CYCLE` is the door, a
fault does not lead to a drain, the heading of a special cycle is asked of the
cycle it stands in for, and there is a cancel cycle.

*Properties.*

| property | what it says |
|---|---|
| `TypeOK` | types; the turns of a pass stay within `MaxSteps` |
| `NoSettingFileError` | nothing sends the interpreter to a place the file lacks |
| `ResumeDataStacked` | while a sub-cycle runs or is paused, what it put aside is a main cycle's; what a pause put aside is what ran; no sub-cycle outlives its cycle |
| `PauseAsksMainCycle` | whether a pause is granted is asked of the main cycle, whatever sub-cycle runs |
| `AdvancesFromHere` | an advance moves from the step in place, with the phase data of that place |
| `StepsAreTold` | a step that is entered, or come back to, is told so at its next run |
| `OnlyHigherPreempts` | a sub-cycle gives way to one of a higher priority only |
| `RequestIsAnswered` | a request that a run of a cycle finds, with the door closed, is answered |
| `MainCycleKept` | the interpreter implements `MainCycle` |

*Refinement.* `MainCycle` knows the place of the main cycle and what is on top of
it: nothing, a sub-cycle, a pause, or a pause of a sub-cycle. The place moves only
when the main cycle itself runs, by its own steps and jumps, or as the code of a sub-cycle's end
says: the same place, the first step of its phase or the first of the
next. `MainPlace` finds it in `data`, `subData` or `pauseData`, by the state and
the status.

### NVData

*Control.* `pc` says what the processor is doing: off, in a boot, running, in a
store, in a recovery, asleep or in the boot loader. Boot and store take one
step per flash operation, so that `PowerLost` fits between any two, and it may
also leave the page in progress half erased (`Remains`) or its header half
written (`Torn`). A store runs with the interrupts disabled and the scheduler
suspended, so no thread interleaves with it.

| action | code |
|---|---|
| `ColdBoot` | NVData__Initialize and Restore: choice of the page, CRCs, fallback, firmware check, forced corruption |
| `WarmBoot` | the same with the RAM kept |
| `BlankEraseSecond`, `BlankMark`, `BlankEraseFirst` | the boot of a flash that holds nothing usable |
| `PreparePage` | the boot's erase of the page of the next store |
| `BeginStore` ... `StoreDone`, `StoreFailed` | NVData__Store |
| `BlockingFlush` | the end of NVData__ForceBlockingStore |
| `RecoverFirst`, `RecoverNext` | Recover, the entry function of ERROR |
| `AsynchPass` | 5 ms: BrownOut__Monitor, then NVData__Handler with the flag just set |
| `RequestStore` | the other callers: service tests and API 19 (blocking), low power, boot loader, factory regulations |
| `LineChanges`, `PowerLost`, `WarmReset`, `WakeUp`, `FirmwareUpdated` | the environment |

*Abstractions.* A segment is one value and its CRC is the value, so CRCs never
collide. The header is 12 bytes and its signature is written last
(`Flash.c:115-180` writes the tail double word first): a torn header never has
a valid signature. A segment that is not restored counts as zero, which is what
its owners make of it (`Statistics.c:248`, `Supervisor.c:550`). Erases succeed;
a write fails on a page that is not erased, and up to `MaxFaults` times
otherwise. `line` is the supply in the three ranges the thresholds tell apart.

*History.* `kept` is the content of the last complete store, `tried` that of
the last one begun; a cold boot sets both to what it has read from flash
(`ReadBack`), for from then on that is all there is. `fresh` tells that no boot has
ended since that store began, `failed` that the last store since the last cold boot
failed. No action's guard reads them.

*Refinement.* `Storage` is what the owners of the segments are told: data in RAM,
how each of them was restored, and the durable ones. A store begins, is complete at
one moment, and ends with its result; a power up gives back, segment by segment, the
durable value or that of the store that was cut, or resets it, and from then on what it
gave back is durable. `NVData` implements it (`KeepsData`) with `durable` as `kept`,
`data` as `ram`, `how` as `status`, and the board up unless it is off or in a cold reset:
the store is complete with the last write of `WriteStatistics`, the power up is
`ColdBoot`, and the boot ends with its last erase. The two segments are
atomic one by one, not together: a store cut between `WriteAppliance` and
`WriteStatistics` comes back with the new appliance segment and, unless they had not
changed, without statistics (`v_nv_statistics`).

*Properties.*

| property | what it says |
|---|---|
| `TypeOK` | types, with the 16 bits of the counter and of the filter |
| `OkayIsLastStore` | a segment the boot calls OKAY is that of the last store completed or begun |
| `OkayMeansNothingRanSince` | a board that ran on after its store and lost its power without storing is told OKAY_BACKUP |
| `KeepsData` | the storage implements `Storage`: what a power up restores, from either page, is of the last complete store or of the one that was cut, and never changes back |
| `LastCopySurvives` | no step leaves the flash without the last complete copy, unless a store has failed or a boot finds the newest page cut after its header (`BootsFromCutStore`): such a boot does lose it, section 5 |
| `RecoveryResets` | the filter never expires before the data are stored: the pass that ends a brown-out resets the board |
| `ForcedCorruption` | restoring the factory regulations discards the appliance segment, and only that |
| `BrownOutIsStored` | a brown-out ends with the data stored, after a failed write too |

### Win

*Time.* A millisecond is a step `Wire`, in which the bytes that the UARTs have
to send reach every node (`Deliver`), followed by one `Win__Handle1ms` of each
node, in any order. `Handle1ms` does the outgoing process, the timers of the
incoming process and the number of bytes to read; each of these bytes is a step
`ReadByte`, so that a frame may end in the middle of a loop.

*The two threads.* The handler runs in the interrupt of the timer
(`SRMain.c:468`) and preempts the Communication thread at any instruction,
and so inside the calls of the driver. `Win__GetIncomingMessage` and
`Win__FreeIncomingMessage` look at the state of the receive buffer and set it later
(`Win.c:365` and `370`, `383` and `387`); each is two steps, between which
any number of milliseconds may pass, and `thread` says where each node's thread is.
The state is set without another look. `held` is the message the thread took.
The calls for the transmit buffer are one step: in the states they start from (FREE
and PROCESSING) the handler leaves that buffer alone.

| action | code |
|---|---|
| `Handle1ms` | Win__Handle1ms: WinOutgoingProcess (`TxIdle`, `TxGrant`, `TxSending`), `IncomingTimers` |
| `ReadByte` | one turn of the loop of WinIncomingProcess: `CheckEcho` for the sender, `RxStx` ... `RxCrc` for a receiver |
| `AllocateMessage`, `QueueMessage`, `RejectMessage` | Win__AllocateMessage, Win__QueueMessage |
| `CheckIncomingMessage`, `GetIncomingMessage` | Win__GetIncomingMessage: READY is seen, PROCESSING is set |
| `CheckParsedMessage`, `FreeIncomingMessage` | Win__FreeIncomingMessage: PROCESSING is looked for, FREE is set |
| `Wire`, `FaultyWire` | the half-duplex wire: two nodes that send at once read `Noise` |
| `Skip`, `Restart` | an interrupt that comes a millisecond late; a reset of one board |

*Data.* A byte is a tagged value; a CRC carries the bytes it protects, so it is
perfect, and no damaged byte turns into a control byte. A frame has one byte of
data, the identity of the message. `node[n]` is the record of the static
variables of `Win.c`. `DropSendingMessage`, `SendData` and the others are
functions of that record, as they are of the static variables.

*History.* `queued`, `handed`, `last`, `acked` and `restarted` say what was
given to the driver, what it handed over, how often, and what it acknowledged.
They are the state of `WinService`. Of a message queued the service sees the
destination and whether it is the first of its node, so the refinement mapping is
`Requested` for `queued` and the identity for the others.

*WinService.* A message is handed over only at a node it is for, in the order of
queueing and once, except that the first message after power-up may be handed over
again while it is the last: its count 0 is never taken for a repetition
(Win.c:909). A sender that is told of an acknowledgement has had its message
handed over, unless it has restarted since: the counts start again and an
answer may be for an older frame. `DeliverySpec` is the same service without the
promise about acknowledgements.

| property | what it says |
|---|---|
| `TypeOK` | types: counters stay in their widths, the comparison of the echo inside the frame |
| `TxBufferKept` | while a frame is on the wire its buffer is not handed out |
| `RxBufferKept` | a message is overwritten only when the time-out has passed: a frame is received into the one buffer while it is free, or held by a thread whose message timed out before it took it; until then the thread parses what the buffer holds |
| `ContentionReleased` | a node that counts its messages for the contention has the timer running that ends it |
| `KeepsService` | the driver implements `WinService` |
| `DeliversInOrder` | it implements `DeliverySpec`: the deliveries are in order, at most once and for the right nodes, whatever is acknowledged; the part of `KeepsService` that is proved for all constants, checked for the formula of the theorem itself |
| `MessageEnds` | a queued message is sent, acknowledged or given up in the end |

## 3. The runs

| run | instance | distinct states |
|---|---|---|
| `hmi` | one washing cycle and a cancel cycle; start, reset, pause, reset-fault and a delay from the HMI; doors, brown-outs, process pauses, faults | 1.72 M |
| `fair` | no cancel cycle; start, reset, restart and a delay; doors and faults; `FairSpec` | 0.51 M |
| `resets` | two cycles, one branching into the other, with pausing, resuming and cancelling headings; warm and cold resets, faults and pre-faults | 1.67 M |
| `tests` | a user cycle, a test cycle, a cancel cycle, a selector value that names no cycle; TestMgr engages and disengages; cold resets; the cartridge | 1.97 M |
| `advance` | rapid advance and the door opening system, phase and step from the HMI and the service API, brown-outs | 2.07 M |
| `nvdata` | two values, two firmware images, recover filter of 2 ticks, two stores, one failing write; `FairSpec` | 0.51 M |
| `win` | two nodes, two messages and one, one fault: a byte lost or turned to noise for either node or both, a late interrupt or a restart; interrupts inside the calls; `FairSpec` | 1.50 M |
| `interpreter` | two cycles, one branching into the other and pausing itself, the other ending in a reset; two sub-cycles with every way to end, one started by a condition; a drain; all five behaviours after a cold reset | 1.57 M |
| `v_*` | one finding each, section 5 | small |

The passing runs of the supervisor share one specification; each has the actors
of one kind of scenario in `Environment`, since all together are too many for
one run. `Coherent` and `KeepsLifecycle` are asked of each of them because the
actors that could break them differ.

*Bounds.* One user cycle is enough for the machine, which only compares cycles
for equality; the second cycle in `resets` is there for `JUMP_IF`, the invalid
one in `tests` for the machine that dies. `TicksPerSecond` is 2 (1 in `resets`)
instead of 10 and the delay 1: the first second that is not over, the last that is, and zero all
occur. No counter of the supervisor needs a bound. In `nvdata` `MaxCounter`
limits the stores asked for (and new brown-outs) between two blank boots to two, so that both
pages are written and the first is used again after a failed store;
`RecoverTicks` is 2 instead of 60, which leaves a pass in which the filter
counts and one in which it expires; more than one failing write only repeats
the recovery. `v_nv_statistics` needs no failing write.

In `win` the lower address queues two messages, the other one, to each other and
to everybody. `CounterLimit` is 2 instead of 15, `Retries` and `CollisionRetries`
1 instead of 3 and 10, `MaxNumMessages` 2 instead of 20, `HoldingTime` 7 ms instead of
100; the silences are those of the addresses 1 and 2 with
`NodeMaxTime` 5 ms, the acknowledgement is waited for 3 ms as in the code, and the wire
carries 5 bytes in a millisecond: a frame of 7 bytes takes two, as one of that
length does at the product's 38400 baud (3.8 bytes in a millisecond). `ParserTimeout` is
6 ms instead of 25, longer than a frame and shorter than a message may
wait: it passes before, between and inside the calls of the parser. One fault suffices
for every retry to happen and for a repetition to meet
a receiver that has the message already; damage to an address byte is in
`v_win_repeat`. `MaxFaultsInCalls` is 0: after the fault the calls of the parser take no
time, so the run has each fault, and each preemption of a call without a fault before
it or inside it, but not a preemption after a fault. It is a constant, and the theorems
have no such limit.

In `interpreter` a phase has at most three steps and a cycle three phases, so
that a step is followed by another one, by another phase and by the end; the
limit `MaxSteps` of a pass is 2 instead of 10, which some passes reach and others do not. Two
sub-cycles are the least of which one pre-empts the other; the requests for a phase
and a step are one that exists, forward and backward. No counter needs a bound.

*Deadlock* is checked in every passing run.

*Fairness.* Supervisor: weak fairness of `ApplicationThread`, for embOS runs
the 100 ms task and nothing of higher priority keeps the processor for that
long; strong fairness of `Stabilises`, for ApplianceMgr waits for stable inputs
no longer than `POWER_UP_STABILIZATION_MAX_DECISECONDS`. Nothing is assumed of
the HMI, the door or the interpreter's results. NVData: weak fairness of `Boot`
and `Store`, code that has begun and is not interrupted, and of `AsynchPass`, the 5 ms
thread (`SRMain_prv.h:327-335`). Nothing is assumed of the supply. Win:
milliseconds begin and end for ever (`[]<>(todo = {})`, `[]<>(todo # {})`), which is
weak fairness of `Clock`; nothing is assumed of the applications or the wire.

`DelayExpires` is conditional (doors closed from some time on and the delay
time left alone): a delay that is over waits for the doors, and each new delay
time restarts it. `ResetIsAnswered` and `FaultTakesEffect` hold whatever the
HMI writes meanwhile. Resets of the board are not in `fair`: a board that is
reset for ever answers nobody.

## 4. The proofs

All theorems are checked by TLAPS to the last leaf. They hold for every value
of the constants that satisfies the named assumptions of the modules
(`CyclesAssumption`, `RequestsAssumption`; `ProgramAssumption`, `PhasesAssumption`,
`UseAssumption`; `ValuesAssumption`,
`FirmwaresAssumption`, `BoundsAssumption`; `WinAssumption`): any setting file, any set of
requests, any environment.

| theorem | statement |
|---|---|
| `SupervisorProofs!TypeCorrect` | `Spec => []TypeOK` |
| `SupervisorProofs!SupervisorCoherent` | `Spec => []Coherent` |
| `SupervisorProofs!SupervisorKeepsLifecycle` | `Spec => KeepsLifecycle` |
| `SupervisorDoors!StepAdvanceIsTaken` | `Spec => []StepAdvanceBelongsToPause` |
| `SupervisorDoors!DoorsClosedAtStart` | under `UserStarts`, `Spec => StartsBehindClosedDoors` |
| `SupervisorDoors!OpenDoorPauses` | under `DoorPauses`, `Spec => []OpenDoorPausesRun` |
| `InterpreterProofs!TypeCorrect` | `Spec => []TypeOK` |
| `InterpreterProofs!SettingFileFollowed` | `Spec => []NoSettingFileError` |
| `InterpreterProofs!DataStacked` | `Spec => []ResumeDataStacked` |
| `InterpreterProofs!HigherPreempts` | `Spec => OnlyHigherPreempts` |
| `InterpreterProofs!RequestsAnswered` | `Spec => RequestIsAnswered` |
| `InterpreterProofs!MainCycleRefined` | `Spec => MainCycleKept` |
| `InterpreterStatus!PauseAsked` | `Spec => []PauseAsksMainCycle` |
| `InterpreterStatus!AdvancesRight` | `Spec => []AdvancesFromHere` |
| `InterpreterStatus!StepsTold` | `Spec => StepsAreTold` |
| `NVDataProofs!TypeCorrect` | `Spec => []TypeOK` |
| `NVDataProofs!OkayIsLast` | `Spec /\ []CounterLow => OkayIsLastStore` |
| `NVDataCopies!NothingRanSince` | `Spec => OkayMeansNothingRanSince` |
| `NVDataCopies!RecoveryEnds` | if `MaxFaults < RecoverTicks`, `Spec => RecoveryResets` |
| `NVDataCopies!CopySurvives` | `Spec /\ []CounterLow => LastCopySurvives` |
| `NVDataCopies!CorruptionHonoured` | `Spec /\ []CounterLow => ForcedCorruption` |
| `NVDataCopies!DataKept` | `Spec /\ []CounterLow => KeepsData` |
| `WinProofs!TypeCorrect` | `Spec => []TypeOK` |
| `WinProofs!TxBufferIsKept` | `Spec => []TxBufferKept` |
| `WinProofs!RxBufferIsKept` | `Spec => []RxBufferKept` |
| `WinProofs!ContentionIsReleased` | `Spec => []ContentionReleased` |
| `WinDelivery!InOrder` | if `"misaddress" \notin Faults`, `Spec => DeliversInOrder` |

*Supervisor.* `Coherent` is inductive together with `TypeOK`; it was written in
four parts so that each action disturbs few of them. The parts about the drain
(`CancellingCoherent`) are needed for the part about runs: a pause of a drain
saves the cancel cycle, and without knowing that, its resumption could run
anything. The refinement needs only `Coherent` and `TypeOK`: they say what the
interpreter runs at the moment a transition copies or replaces it.

*Doors.* `StartsBehindClosedDoors` is false of the general product, by design:
with life test or rapid advance the door monitor starts a cycle as the door closes,
and a test starts without asking the doors (see section 5). The
theorem names what has to be absent (`UserStarts`); the extra invariant is that
then no external start is ever pending (`NoExternalStart`). `OpenDoorPausesRun`
further needs that there is no door opening system (an opening by it posts no
pause), that no reset clears the request, that nothing disengages a test, and that
no cycle that may not be paused branches into one that may, for the dropped
pause is not asked for again. `DoorPauses` is these conditions.

*Interpreter.* The invariant `IInv` says what the interpreter looks like in each
state of the supervisor: `Runs` (a run cycle in place, the sub-cycle the
status names, and what it put aside, `Keeps`), `Pauses` (the macro of the pause in
place, a run cycle in `pauseData`) and `Idles` (the macro of the state). Its
second part, `LoadedOK`, is that the phase data in RAM are those of the place
(`Here`), except between a cold reset and the next load. Both are needed for
`NoSettingFileError`: a place is computed from `loaded` and `mainPhases`, so it exists only if
they are those of the cycle it is computed for. The proof goes operator by
operator, as the code does: each function of the interpreter has lemmas that say
from which shape it leads to which, and the lemma of an action puts
them together. For the refinement each of them also says what becomes of the main
cycle's place. The sub-cycle chosen by `GetActive` is the least of a set of
priorities; that it exists is the well-foundedness of the natural numbers.

*Status.* What the status names is written by halves: a sub-cycle leaves the main cycle's
entries to those who entered it, and the pause and the sub-cycle each keep a copy.
`StatusOK`, inductive on top of `IInv`, therefore follows each copy: while a cycle runs,
the status and the one put aside name the main cycle (`NamesAside`, `Names`), while it is
paused the two put aside do (`PausedNames`), and when the state machine is reached the
status has the step in place, but for the results that leave it behind
(`Unsettled`; of these only the loop's limit lets an advance read it). The one exception is the drain that has not run yet. That each step is
told it starts anew is proved along the same lemmas, for the flags are written where
the place is (`Signals`).

*Storage.* `OkayIsLast` is about histories of any length, with any number of
failing writes. Its invariant `StoreInv` is, in words:
neither the RAM nor the CRCs of a valid header are those of erased flash
(`Clean`); no page's counter is ahead of the RAM's, and both are behind it
when a header is about to be written (`CounterAhead`); a store in progress
works on the newest page with the CRCs of what was tried (`StoreInProgress`);
a boot that found no valid page is about to erase both (`NothingGood`); on a
running board the newest page, if it is to be trusted, is that of `kept`
(`RestsOnKept`); and at all times what a boot would restore from the newest
page as OKAY is `kept` or `tried` (`NewestIsCurrent`). The last is what the
theorem needs; the others make it inductive: without `CounterAhead` a new store
could be sorted behind an old one, without `StoreInProgress` writing a segment
could make whole a page that is not the one begun last, without `RestsOnKept`
a new store would forget the `tried` its predecessor left in the newest page.
`Controlled` adds which combinations of `pc`, caller and pointer occur.
`CounterLow` is a hypothesis because the 16-bit counter is compared as it is: once it wraps, the older page wins and the
property is false.

*Copies.* `NothingRanSince` needs no counter: the boot trusts the flash only if both
pages are good (or page 1 was never written), and every boot ends by erasing one of
them. `CopySurvives` and `CorruptionHonoured` add to `StoreInv` what is written so far of
the page in progress (`WrittenSoFar`), that a trusted page that is whole holds `kept`
(`WholeIsKept`), and that where no store has failed and no boot from a cut store is under
way (`Spared`) `kept`, if the flash holds it at all, is on the page neither
the next store nor the next boot will touch (`SafePageHoldsKept`, the argument of the
property: which page is safe changes with the pointer at the end of a store, so it
is stated for each moment). A boot that finds the newest page whole, or no newest page,
restores `Spared`; one that finds it cut is what the property leaves out, and it
must: of a store cut behind its header the other page is the last whole copy, and
the page `PreparePage` erases. `RecoveryEnds` counts: the filter has run through at most
one pass for the store in progress and one for each write that failed (`FilterWaits`),
and a store of the handler always finds its page erased (`ReadyToStore`), so that nothing
else makes it fail. The hypothesis `MaxFaults < RecoverTicks` is needed: with as many
failing writes as ticks the filter expires in the middle of the retries.

*Refinement of the storage.* `DataKept` shows each step of `NVData` to be one of `Storage`
or a stutter. All but the power up follow from the invariants above; the power up needs to know, in
every state, what the flash would give back if it were read now. `BackupInv` says
it of `ReadBack`: as long as no store has failed each segment is that of `kept` or
`tried`, or nothing (`FromEither`), and between stores that of `kept` or nothing
(`FromKept`), while the page to be erased or written next is not the one to be read
first (`SparesNewest`). The last part is what makes the damage of an erase or of a lost
power harmless (`DamageRead`): it can only take away the page to fall back on. The
interesting step is `WriteHeader`, which makes a page the newest that holds nothing yet: from there on
the appliance segment is read from the other page, and the statistics only if they did not change.
What is OKAY is `fresh` by the invariant of `NothingRanSince`. After a failed store nothing is known of the copies:
the pointer may stand on the only one (`Recover` and the next boot may erase it), and `Storage` leaves open what
an OKAY_BACKUP is then; an OKAY is still `kept` or `tried`, by `OkayIsLast`.

*Win.* The driver's invariant is a property of each node alone, whatever
arrives on the wire, so the theorems hold for any number of nodes, any timings
that satisfy `WinAssumption`, any faults and any preemption of the calls. `Stable` relates the states of the
transmitter, the receiver, the two buffers and the echo position. For the contention a
margin between two timers is needed (`Silence`): the counter of sent messages is
cleared by the end of `Not_Sending_Timer`, but counted up only after an access
that has restarted `Bus_Idle_Timer`; the invariant says how far the one is
ahead of the other. `TypeInv` adds the bytes on the wire. That the
thread sets a state it has not looked at again is bearable until the time-out, and
only until then: `Calls` says of each place of the thread that the message it has
seen is still READY or its time is over, and that the one it has taken is the one in the buffer
or its time is; `Overwrites` that a frame in its data or CRC never meets a READY buffer, and
a buffer in PROCESSING only after the time-out.

*Delivery.* What keeps a retry from being delivered after its successor is not in
any one node: it is that the wire and the FIFOs keep the order of the bytes. Two bytes of a
message act on a receiver in the name of its source: the address byte, which may make it
forget the count it has seen, and the CRC byte, which may make it deliver
(`Marked`). `Tagged(s, m, q, lo, hi)` says that the marks of m in the bytes s belong
to messages of m with numbers from `lo` to `hi` that never go down. The invariant
`FlowInv` follows all bytes on their way from m to n: those in the input of n
(`Arrives`) begin after the last message of m handed over at n, or with that very
message while n still knows its count; those in the output of m go on from
there and end with the last message m has queued (`Flow`), which is the one in its
buffer (`SendsLast`). Cutting, losing and damaging bytes, repeating the last message and
queueing the next one keep a sequence tagged; each is a lemma. On the receiver's
side `Parses` says that the header and the payload are the bytes the CRC was computed over,
although frames may be cut in the middle and mixed: so a frame with a good CRC is a message
someone queued (`GoodFrameIsMessage`), and not below the last one. If it is the
last one, its count is still known and it is a repetition, or the count is 0, that
of a first message. Forgetting a count is harmless for the same reason: the address
byte of a message for another node belongs to a later message, for the last
one handed over was for this node. An address byte damaged into that of another node
breaks exactly this step, and the theorem excludes it; `v_win_repeat` is the
behaviour that results. Everything else may happen: bytes lost or unreadable for any nodes, late
interrupts, restarts, collisions, any timing and any limit of the counts, which may
be as small as 1.

*Only model-checked:* that a sender is told of an acknowledgement only for a message
that has been handed over, the part `KeepsService` adds to `DeliversInOrder`: an acknowledgement
has no number, so that it is not taken for that of the next message is a matter of the
timings, of how late interrupts are and of how many bytes the wire carries, and is not true of every value of the
constants. And the liveness properties (`MessageEnds`, `DelayExpires`,
`FaultTakesEffect`, `ResetIsAnswered`, `BrownOutIsStored`), which are out of
this prover's reach with their fairness.

## 5. Where the code and its comments disagree

Each of the `v_*` runs checks one sentence of the source's own comments, and
TLC shows a behaviour of the code that contradicts it.

| run | sentence | what happens |
|---|---|---|
| `v_reset_race` | Supervisor.c:1118, a reset generates evReset in all states | a reset that arrives after the regulation was read is accepted by the do function and never executed |
| `v_step_advance` | CycleResume.c:120, the step advance is executed within RUN_ENTRY | SetStep still sees the state PAUSE there and refuses; the stored step is dropped |
| `v_nv_statistics` | NVData.c:868, statistics are restored from the backup | their CRC is compared with that of the newest header, so a torn store loses the whole backup copy |
| `v_win_repeat` | Win.c:907, a repeated message is not parsed | a damaged repetition makes the receiver forget the count, and the next repetition is parsed again |

The models showed some more of the kind, which no run keeps. In some of them
the comment may be the one that is wrong.

- Supervisor.c:133 has a cancelled run go to CANCELLING: the interpreter's
  result of the old cycle, when the reset is taken in the same pass, ends the
  cancel cycle before its first step (1995).
- Supervisor.c:33-38 make the user's Start the beginning of a cycle: a start
  that the door monitor posted for the paused cycle survives the reset of that
  cycle (1134-1160) and starts it again.
- Regulations.c:63 wants functions accepted or rejected: a phase request that
  ends the cycle is answered on the step regulation (Supervisor.c:2046) and
  stays pending.
- Win_prv.h:138 gives the application 25 ms to get a pending message:
  Win.c:743-753 frees the buffer also of a message the application is parsing.
- A frame that starts after that time-out, while the thread is between the look at
  READY (Win.c:365) and the setting of PROCESSING (370), is received into a buffer in
  PROCESSING, which a new frame is not supposed to touch (880); the thread parses
  the buffer while it is written.
- In the same way the thread may look at PROCESSING (383), the time-out free the buffer and a
  whole frame be received and acknowledged, before 387 sets FREE: the new message is
  lost and its sender believes it delivered. (`handed` counts a message where it
  becomes READY, so `WinService` does not promise that the thread sees it. Both
  behaviours occur in the instance of `win`.)
- NVData.c:405-410: a store that is cut after its header leaves the newest page
  without whole segments. The boot restores each from the other page where its CRC
  allows, both as OKAY_BACKUP if the statistics had not changed, and then erases that
  page, the last whole copy, before anything is stored: until the next store the data are in
  RAM alone, and a second loss of power in that time costs them.
- Supervisor.c:65 has a reset in DELAY set the delay time to 0;
  ProgrammingEntry (1899) reloads it from the regulation.
- Supervisor.c:2032 calls reset and END commands "handled globally"; END is
  rejected by 2034.
- Supervisor.c:368 says what test is engaged; a selector regulation pending at
  that time is taken at 1813, before the test's external start at 1854.
- Supervisor.c:37 makes OK_TO_START part of every start; an external start
  (1854) was checked only where it was posted, and for a test not at all.
- Supervisor.c:1859 wants the selector to be "still valid"; 1861 checks only
  that it is not 0, and TestCycleEnd (1254) sets it to a value nobody validated.
- Supervisor.c:40-42 schedule a delay with a start; 1841 asks for the doors to
  be closed first.
- Regulations.c:63 again: in PROGRAMMING a start regulation other than START is
  neither accepted nor rejected (1835-1852).
- SubCycle.c:137 has RequestStart return TRUE for a sub-cycle that is "planned to be run";
  GetActive (207) erases the request in every pass, also in a pause and with
  the door open, where no sub-cycle is started.
- A reset in a sub-cycle configures the drain before the sub-cycle is cleared from the
  status, so LoadPhaseData (Interpreter.c:1268) leaves `Main_Cycle` and `Main_Step` those of the
  cycle cancelled until the drain first runs: a pause or an advance of the
  same pass is judged by them (`DrainNotRunYet`).
- GetFirstStatement (Interpreter.c:1175) answers 0 for a step the phase lacks:
  an advance to it restarts the phase.

## 6. What is not modelled

- *What the statements of a cycle do*, and the conditions of JUMP_IF and of
  sub-cycles: the interpreter's model takes any outcome.
- *The step timers*, and what the estimator and the bus read of the interpreter.
- *Statistics, log messages, time estimation and the elapsed time of a cycle*:
  written by the supervisor, read by nothing that is modelled.
- *Windows within one do function* in which the communication thread changes a
  regulation between two reads; the seam model shows the same pattern where a seam
  lies between them.
- *A brown-out snapshot in the middle of a transition* of the supervisor:
  Supervisor resets at seams and NVData takes a segment as one value.
- *The static data page* of NVData: a single copy with its CRC and no machine.
- *CRC collisions, failing erases, wear.*
- *The break signal of Win*: `Win__SendBreak` and the branch of `Win__Handle1ms` that
  counts `Win_Break_Counter` down, skips the outgoing process and forces the
  transmitter to IDLE (Win.c:341-345). Both are linked into the image, but the only
  caller is SRPowerMgr's wake-up (SRPowerMgr.c:576), and Micro_prm.h:109 disables it.
- *The application protocol (sap) of a message*: the model has one, so the second look of the
  parser's calls (Win.c:367, 385) always agrees. Read, not modelled: a frame of
  another sap that starts in the window at 370 and is damaged or cut changes
  `Win_Rx_Buffer.sap`, the look at 385 then fails, and no time-out is left to end PROCESSING.
- *External starts in `hmi`*: `StartsBehindClosedDoors` is checked there for the user's
  starts and resumes only; the missing late check of an external start (section 5) is not
  exercised by a run.
- *Control laws and sensor filters* (heaters, pumps, phase control of triacs):
  analogue values and timing.
- *Message formatting and parsing, setting-file decoding*: data without control.
- *Vendored and generated drivers.*

## 7. Plan

Done: Supervisor, Interpreter and Win with their refinements and proofs; NVData with
its refinement and all its safety properties proved. Next, in this order:

1. **Supervisor and Interpreter composed**: `InterpreterRun` has the supervisor's
   requests as arbitrary inputs and `Supervisor` the interpreter's results; each
   allows more than the other does.
2. **SetLoadQueue and LoadsControl**: the queue between two threads; no command
   lost or applied twice.
3. **Fault**: observers, pre-fault and fault, to replace the fault flag's
   environment; **Mode and CommunicationMonitor**, which stop the supervisor.
4. **SystemTimers and Millis**: wrap-around of the millisecond counter as pure
   operators checked against unbounded time; **SRTaskMonitor**'s sequence.
5. **Statistics** on top of NVData; **TestMgr**; **ActivateTask**.

The findings of the supervisor need no run of their own once they are fixed or
accepted. The passing runs are not to be merged: with all actors in one instance
the supervisor has more states than can be explored in minutes.
