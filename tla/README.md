# TLA+ models of the Advanced Computer Architecture simulators

The repository holds four trace-driven simulators of parts of a processor.
Each is a single-threaded C++ program that reads a compressed instruction trace
through a pipe and prints statistics. The concurrency is in what is simulated:
several instructions, lanes, stages, queues and cores are in progress at once,
and the program steps through them in a fixed order that has to give the
behaviour of hardware in which they work at the same time. That is where these
programs go wrong and where tests on four large traces reach least, and it is
what the modules here model.

## 1. Inventory

### All labs: the trace pipe
`open_gunzip_pipe` (in Lab 1 the beginning of `main`) forks a child that execs
`gunzip` with its output in a pipe; `main` reads the other end. State: the bytes
in the pipe, who holds which end, the child and its exit status. Hard: reads and
writes of any size that cut records anywhere, a trace that is cut short, a
child that cannot exec and is then a second copy of the program, a loop that is
left while `gunzip` waits for room, and in Lab 4 a second child that inherits
the first one's read end. Correct when the simulator gets the records that were
written, in order, knows why there are no more, and no process is left waiting.

### Lab 1, `src/Lab_1_trace_analysis`: trace analysis
Counts instructions by type, cycles by a fixed table, and distinct addresses.
State: four counters and a set. Its reader (`sim.cpp:107`) gives up where a
`read` returns part of a record; the readers of the other labs go on. Correct
when success is reported for whole traces only and the counters belong to one
trace.

### Lab 2, `src/Lab_2_InO_processor`: in-order superscalar pipeline
| part | state | operations |
|---|---|---|
| pipeline (`pipeline.cpp`) | four latches of up to 8 lanes, a stall flag per IF lane, `fetch_cbr_stall`, `last_op_id`, `halt_op_id`, `halt` | `pipe_cycle`: WB, MA, EX, ID, IF in this order |
| branch predictor (`bpred.cpp`) | history register, pattern table, two counters | `predict`, `update` |
| driver (`sim.cpp`) | options | loop until `halt`; heartbeat |

Interaction: ID reads the latches of later stages, which have already moved in
this cycle, and leaves stall flags for IF. IF calls the predictor and stops
fetching until WB sees the mispredicted branch. Hard: after a stall the lanes
of a latch are not in program order; a stalled lane disappears from the latch
while later lanes are still being examined; the end of the trace is found by
IF while WB decides when to halt. Correct when no instruction is lost or
overtakes an older one, each issues exactly when its operands are available,
the predictor trains what it used, and the run ends.

### Lab 3, `src/Lab_3_OoO_processor`: out-of-order superscalar pipeline
| part | state | operations |
|---|---|---|
| reorder buffer (`rob.cpp`) | ring of entries, `head_ptr`, `tail_ptr` | check_space, insert, mark_exec, mark_ready, check_ready, check_head, wakeup, remove_head |
| register alias table (`rat.cpp`) | an alias per register | get_remap, set_remap, reset_entry |
| execution queue (`exeq.cpp`) | slots with a countdown | insert, cycle, check_done, remove |
| pipeline (`pipeline.cpp`) | FE, ID, SC and EX latches, statistics, halting | commit, writeback, exe, schedule, issue, decode, fetch |
| driver (`sim.cpp`) | options | loop until `halt`; heartbeat |

Interaction: issue renames through the alias table into the reorder buffer,
schedule takes from the buffer, exe goes through the queue, writeback
broadcasts a tag to the buffer, commit frees the head and resets aliases. Hard:
wakeups that are lost or go to a reused entry; aliases that outlive their
entry; the order of instructions at issue; a full buffer or queue; the race
between the last commit and the read that finds the end of the trace.
Correct when the whole executes the program's dataflow.

### Lab 4, `src/Lab_4_memory_hierarchy`: caches and DRAM for one or two cores
| part | state | operations |
|---|---|---|
| cache (`cache.cpp`) | sets of lines (valid, dirty, tag, core, time, hits), last evicted line, statistics | access, install, victim search (LRU, RANDOM, static and dynamic way partitioning) |
| DRAM (`dram.cpp`) | a row buffer per bank, statistics | access with a page policy |
| memory system (`memsys.cpp`) | caches of both levels, DRAM, statistics | access in modes A, B, C and DEF; L2 access; page mapping |
| cores (`core.cpp`) | record, end of the current delay, counters | `core_cycle`, record reading through a buffer |
| driver (`sim.cpp`) | cycle counter, options | loop over the cores until all are done |

Hard: write-backs between levels whose order and addresses must be right
although the simulator keeps no data that would show a mistake; two cores that
interleave in one second level; quotas at their limits; delays counted to the
cycle. Correct when no store is lost, statistics agree, partitions keep their
quotas and time is accounted for.

### Scripts
Shell scripts run a simulator and compare its output with reference results.
Not modelled.

## 2. Modules

| module | models | state and actions |
|---|---|---|
| `TracePipe` | `open_gunzip_pipe` of all labs, the kernel's pipe and `gunzip` (external) | bytes sent and taken, holders of each end, the child; `Fork`, `Read`, `Close…`; `Exec`, `Write`, `Exits`, `GivesUp`, `Killed` |
| `RecordStream` | what a trace reader is for | abstract: bytes written, records delivered, one verdict |
| `TraceAnalysis` | Lab 1 `main`, `read_trace`, `analyze_trace_record` | an action is one system call with what follows it |
| `RecordReader` | Labs 2 and 3 `main` and the read loop of fetch (the same code in both) | the same; the pipeline is reduced to asking for records and halting, at the end of the trace or, in Lab 3 only (`ExeFull`), with the EXEQ full |
| `BufferedReader` | Lab 4 `core_new`, `core_read_trace`, `trace_read`, end of `core_print_stats` | the same for up to two cores, with `read_buf` |
| `Instructions` | Lab 3 `trace.h` | records and `InstInfo` |
| `ROB`, `RAT`, `EXEQ` | Lab 3 `rob`, `rat`, `exeq` | values and operators named as in the code |
| `OoOPipeline` | Lab 3 `pipeline.cpp`, loop of `main` | an action is one iteration of a stage's loop; `stage` and `lane` are the place of the thread |
| `Dataflow` | what Lab 3 is for | abstract: programs, started, done and retired instructions; no buffer, no cycles |
| `OoOProperties` | | properties; refinement of `Dataflow` |
| `OoOMain` | Lab 3 `main`, `check_heartbeat` | composes the pipeline with the cycle counter |
| `OoOTypeProofs`, `OoORobProofs` | | theorems about Lab 3's pipeline |
| `BPred` | Lab 2 `bpred` | a predictor is a value |
| `InOrderPipeline` | Lab 2 `pipeline.cpp`, loop of `main` | an action is one call of a stage function, or one lane of fetch |
| `InOrderProperties` | | properties |
| `InOrderMain` | Lab 2 `main`, `check_heartbeat` | composes the pipeline with the cycle counter; the recurrence `Times` |
| `InOrderProofs` | | theorems about Lab 2's pipeline and driver |
| `Cache`, `DRAM`, `MemSys` | Lab 4 `cache`, `dram`, `memsys` | values; an access returns its delay and the new value |
| `MemSim` | Lab 4 `core.cpp`, loop of `main` | an action is one call of `core_cycle`, or the end of a turn |
| `LRUCaches` | what LRU replacement means | abstract: a sequence of tags for each set; no ways, no clock |
| `MemProperties` | | properties; refinement of `LRUCaches` for the first level |
| `MemRecency` | | `MemSim` with a history of the second level's use |
| `MemProofs` | | theorems about Lab 4 |
| `TracePipeProofs`, `RecordReaderProofs`, `TraceAnalysisProofs`, `BufferedReaderProofs` | | theorems about the readers; the first holds the lemmas on the pipe that the others share |
| `MCOoO`, `MCOoOMain`, `MCInOrder`, `MCInOrderMain`, `MCMem`, `MCMemRecency`, `MCTraceAnalysis` | | trace records for TLC |

A stage of Lab 3 is split into loop iterations because properties are about
what an iteration sees of the ones before it. In Lab 2 only fetch is split: it
alone takes an input. ID's loop is the operator `StalledAmong`, which goes
through the lanes in the code's order. In Lab 4 a call of `core_cycle` is
indivisible for everyone else. The readers are split at system calls, the only
places where the child's progress can be seen. Options of the command line that
the code reads again and again are variables chosen in `Init` (Labs 2 and 4)
or constants (Lab 3).

How the modules fit: the readers implement `RecordStream`, and that is the
interface that the pipelines and the memory simulator assume of their input
(the next record, the end, or an invalid record, at any time). The pipelines
are composed with their drivers in `OoOMain` and `InOrderMain`.

Definitions called `X_Something` with a comment that begins "Slip:" are
mistakes that could be made in writing `X`; each serves to see that a property
notices it. No specification uses them.

### What is abstracted
* A trace is any sequence of at most `MaxInst` records from a given set.
  The read that finds the end may come at any time.
* In the readers a byte is its number in the stream, so a record is right when
  it consists of the right numbers; whether a record is valid is a free choice.
  A child that cannot exec goes on as a copy of the program and flushes some
  text; in Lab 4 it runs into a core that is not there and never writes as much
  as a record. If `pipe` or `fork` fails, Labs 1 to 3 return 1 and Lab 4 crashes.
* `RecordReader` knows of the pipeline when it may halt, not when it does. Lab 3's
  can find its EXEQ full as soon as one instruction more than `MAX_EXEQ_ENTRIES`
  has been read; `OoOPipeline` says when it really does. Behaviours without the
  step `ExeFull` are Lab 2's, and those of Lab 3 where the EXEQ suffices. A
  fault of Lab 3 (below), which ends `main` by a signal, is left out there.
* The count of cycles in `OoOMain` is kept modulo `HEARTBEAT_CYCLES`, the only
  way in which the code looks at it.
* Addresses in Lab 2 are the sets of their one-bits among the low `KEY_BITS`,
  so that exclusive or is symmetric difference.
* Lab 4 keeps no contents. The model adds one bit to each line (`current`) and a
  set to DRAM (`stale`) that follow what the last store wrote. No operator of
  the simulator reads them; they are there for `LoadsSeeTheLastStore`.
* `trace` in Labs 1 and 2, `fetched` in Lab 3 and `l2_used` in Lab 4 are
  histories, read by properties only.
* The row id, tag and line addresses are computed as in the code, at a smaller
  line, page and bank size.

### Undefined behaviour and what the models do with it
* Lab 3 `rob_mark_ready` of a latch that was never used: once every entry has
  been used, `find_rob_inst` answers -1 and `entries[-1].ready` is written. In
  the x86-64 build that byte belongs to the alias of register 29, which
  `OobReg` stands for. A later use of the spoilt alias indexes the buffer out
  of range: `IssueCrash`, or a wild read of any outcome (`WildTag`).
* Lab 2 fetch at the end of the trace checks the branch of an operation that was
  never initialised: any record, or no branch.
* Lab 4 `cache_find_victim` may return -1, with which `cache_install` indexes:
  `fault`, after which nothing more happens.
* Lab 4 `dram_new` reserves a vector and then indexes it (`dram.cpp:96`). It
  works in every known library and is modelled as an array.

## 3. Runs

| run | configuration | shows |
|---|---|---|
| `ooo_width2` | `MCOoOMain.cfg`: 2 lanes, out of order, 3 entries, loads of 2 cycles, 5 instructions, with the driver | the tables stay consistent between any two iterations (`RobProgramOrder`, `RatNamesLatestWriter`, `OperandsWaitForTheirProducer`, `ExecutedOnce`, `ExeqDrainsInTime`), `HealthyRunsGoOn`, `ImplementsDataflow`, `Halts` |
| `ooo_inorder` | `MCOoO_inorder.cfg`: 2 lanes, in order, 3 entries, single-cycle operations, 6 instructions | `ImplementsDataflow` where the EXEQ is bypassed and instructions must start in order |
| `ooo_limits` | `MCOoO_limits.cfg`: 3 lanes, an EXEQ of 1, invalid records, the overwritten register in use | what still holds there (`RobWindow`, `NoInstructionLost`), and that the loop ends (`LoopEnds`) |
| `ooo_order_width3` | `MCOoO_order3.cfg`: 3 lanes | violation: `HeadIsOldest` |
| `ino_width2` | `MCInOrderMain.cfg`: 2 lanes, all predictors and forwarding options, 4 instructions, with the driver | nothing lost or reordered, fetch waits for mispredicted branches only, gshare learns what it used, the cycles are those of the recurrence `Times` (`KeepsTime`), and the loop ends with the trace and in time |
| `ino_halts` | `MCInOrder_halts.cfg`: 1 lane, always-taken | violation: `Halts` |
| `mem_single` | `MCMemRecency_single.cfg`: 1 core, modes A, B, C, both page policies, 5 instructions | `LoadsSeeTheLastStore`, `TrafficBalances`, `TimeIsAccounted`; LRU at both levels (`FirstLevelIsLRU` is a refinement) |
| `mem_shared` | `MCMem_shared.cfg`: 2 cores, all second-level policies, 3 instructions each | `OneCopy`, `LoadsSeeTheLastStore`, `VictimIsAWay`, `QuotaConverges`, `StopsWithTheLastCore` |
| `mem_dwp_utility` | `MCMem_dwp.cfg`: dynamic partitioning, 3 ways | violation: `PartitionMaximizesUtility` |
| `trace_whole` | `MCTraceAnalysis_whole.cfg`: writes of whole records, traces cut short, exec and read failures | `SuccessMeansWhole`, `StatisticsAgree`, `RefusedOnlyIfInvalid`, `BothProcessesEnd` |
| `record_reader` | `RecordReader.cfg`: writes of any size, the same failures, invalid records, an EXEQ found full | `ReadsTheStream` (refinement of `RecordStream`), `SuccessMeansRun`, `BothProcessesEnd` |
| `buffered_reader` | `BufferedReader.cfg`: 2 cores, a buffer smaller than a record | `CoresReadTheirStreams` (refinement, for each core), `EverybodyEnds` |

Seven more configurations are kept to be run by hand (`tlc -config X.cfg M`).
`MCInOrder_bad.cfg` (module `MCInOrder`) passes: with records that are not
valid, `EveryInstructionOnce`, `HaltsNoEarlier` and `HaltsWhenPerfect`. The
others end in the counterexamples of section 5: `MCOoO_alias.cfg` (`MCOoO`,
`AliasNamesValidEntry`), `MCMem_swpdefault.cfg` (`MCMem`, `VictimIsAWay`),
`MCInOrder_branches.cfg` and `MCInOrder_wrap.cfg` (`MCInOrder`,
`BranchesAreCounted` and `CountNeverWraps`), `MCTraceAnalysis_split.cfg` and
`MCTraceAnalysis_empty.cfg` (`MCTraceAnalysis`, `RefusedOnlyIfInvalid` and
`CountIsTheTrace`).

### Why the bounds are enough
* Lab 3: the buffer has fewer entries than the trace has instructions, so both
  pointers wrap, the buffer is full and empty, and entries are reused while
  older ones wait. Two lanes stall against each other; three are where issue's
  sort first differs from a sort. The records contain true dependences through
  both operands, an instruction that reads what it writes, repeated writers of
  a register, loads (long) and other operations (short). A heartbeat of 8 is
  the shortest without a false alarm (with 7 TLC finds one), so that a heartbeat
  falls on every cycle of a stall somewhere; the 10000 of the code is longer in
  proportion to any load latency that is used (section 4 proves what is enough).
* Lab 2: four instructions in four stages of two lanes with several writers
  of one register in flight; every combination of forwarding. One key bit
  makes two table entries, enough for a wrong entry to be trained. A heartbeat
  of 8 cycles is longer than any instruction takes, short enough that a run
  contains several. The cycle counter needs no bound: `EndsInTime` bounds it.
  `STAT_SPAN` is 2^32 in the code; 16 is more than the branches of a run.
* Lab 4: second levels of one set of two ways, first levels between one line and
  two sets of two ways, with more lines of a set than there are ways at every
  level, so that every access can evict, the victim's write-back can evict in
  turn, and index and tag of a line differ between levels. Two ways have
  every order of use; with two cores a set is shared in every proportion.
  `MaxCycle` is never reached: the traces end first.
* Readers: in `record_reader` an EXEQ of one slot, so that it can be full before, at
  and after the end of a trace of three records; a pipe of 3 or 4 bytes, records of
  2 to 4 bytes and writes of up to a pipe's size, so that records are cut at every
  place, the pipe is full and empty, and there are traces of no record, whole ones,
  and ones cut short. In `BufferedReader` the buffer is smaller than a record and
  does not divide it, so fields and records lie across refills.
* `MaxInst` bounds the trace in every model. `MAX_WRITEBACKS` (256 in the code)
  only has to exceed the lanes that can finish in one cycle.

### Deadlock
Lab 3's specifications stutter when the run is over. The others stop when the
loop of `main` ends, when all processes have ended or after a fault, hence
`CHECK_DEADLOCK FALSE`; that they do not stop earlier is what `EndsInTime`,
`BothProcessesEnd`, `EverybodyEnds` and `StopsWithTheLastCore` are about.

### Fairness
* Labs 2 and 3 assume weak fairness of the whole next step: one thread that has
  something to do at every point and waits for nothing, the pipe apart, whose
  other end writes the trace and closes. Nothing is assumed of any single
  stage. Lab 4's `MemSim` assumes none; `StopsWithTheLastCore` says without it
  when the loop ends.
* The readers assume weak fairness of `main` and of each child, because the
  kernel runs every process that can run. A child that finds its file damaged
  (`GivesUp`) and a read that fails (`ReadError`) are outside it: they may
  never happen. `RecordReader` also assumes strong fairness of leaving the loop
  once fetch has been told that there is no more, or the EXEQ is full, which
  stands for the pipeline's halt or its heartbeat (`LoopEnds`, `EndsInTime`).
  That the EXEQ is ever full is not assumed.
* `EverybodyEnds` makes an exception of runs in which reading has failed for
  every core. There the first child can wait for ever: the second child holds
  the read end it inherited and itself waits for `main`, which waits for the
  first.

## 4. Proofs
| theorem | says | needs |
|---|---|---|
| `OoOTypeProofs!TypeCorrect`, `TypeOKHolds` | `TypeInv`, `TypeOK` | |
| `OoORobProofs!RobWindowHolds` | `RobWindow` | |
| `OoORobProofs!ExeqDrainsInTimeHolds` | `ExeqDrainsInTime` | |
| `OoORobProofs!NoInstructionLostHolds` | `NoInstructionLost` | |
| `OoORobProofs!ExecutedOnceHolds` | `ExecutedOnce` | |
| `OoORobProofs!RatNamesLatestWriterHolds` | `RatNamesLatestWriter` | no record writes `OobReg`; without that for every other register |
| `OoORobProofs!OperandsWaitForTheirProducerHolds` | `OperandsWaitForTheirProducer` | the same |
| `OoORobProofs!RobProgramOrderHolds` | `RobProgramOrder` | `PIPE_WIDTH <= 2` |
| `OoORobProofs!PipelineImplementsDataflow` | `ImplementsDataflow`, the refinement of `Dataflow` | `PIPE_WIDTH <= 2`, `ExeqSuffices`, no invalid records, no record writes `OobReg` |
| `OoORobProofs!HealthyRunsGoOnHolds` | `HealthyRunsGoOn` | no record writes `OobReg`, `HEARTBEAT_CYCLES >= LOAD_EXE_CYCLES + 6` |
| `InOrderProofs!InOrderTypeCorrect` | `InOrderTypeOK` | |
| `InOrderProofs!EveryInstructionOnceHolds` | `EveryInstructionOnce` | |
| `InOrderProofs!FetchWaitsForTheBranchHolds` | `FetchWaitsForTheBranch` | |
| `InOrderProofs!GshareLearnsHolds` | `GshareLearns` | |
| `InOrderProofs!HaltsNoEarlierHolds` | `HaltsNoEarlier`, an action property | |
| `InOrderProofs!EndsInTimeHolds` | `EndsInTime` | |
| `InOrderProofs!EndsWithTheTraceHolds` | `EndsWithTheTrace` | `Paced` |
| `InOrderProofs!KeepsTimeHolds` | `KeepsTime` | no invalid records |
| `RecordReaderProofs!SuccessMeansRunHolds` | `SuccessMeansRun`, for Lab 3 with its EXEQ full too | |
| `RecordReaderProofs!ReaderImplementsStream` | `ReadsTheStream`, the refinement of `RecordStream` | |
| `BufferedReaderProofs!CoresReadTheirStreamsHolds` | `CoresReadTheirStreams`, the same for each core | |
| `TraceAnalysisProofs!SuccessMeansWholeHolds` | `SuccessMeansWhole` | |
| `TraceAnalysisProofs!StatisticsAgreeHolds` | `StatisticsAgree` | |
| `TraceAnalysisProofs!RefusedOnlyIfInvalidHolds` | `RefusedOnlyIfInvalid` | `WritesRecords` |
| `MemProofs!MemTypesHold` | `MemTypeOK` | |
| `MemProofs!LinesAreSingle` | `OneCopy` | |
| `MemProofs!VictimIsAlwaysAWay` | `VictimIsAWay` | `QuotasFit` |
| `MemProofs!NoStoreIsLost` | `LoadsSeeTheLastStore` until a victim search fails | |
| `MemProofs!LoadsAlwaysSeeTheLastStore` | `LoadsSeeTheLastStore` | `QuotasFit` |
| `MemProofs!StatisticsBalance` | `TrafficBalances` | |
| `MemProofs!DelaysAreWaitedOut` | `TimeIsAccounted` | `HitsTakeACycle` |
| `MemProofs!EndsWithTheLastCore` | `StopsWithTheLastCore` | |
| `MemProofs!QuotaIsApproached` | `QuotaConverges`, an action property | |
| `MemProofs!SecondLevelKeepsTheLast` | `SecondLevelIsLRU` until a victim search fails | |
| `MemProofs!SecondLevelAlwaysKeepsTheLast` | `SecondLevelIsLRU` | `QuotasFit` |
| `MemProofs!FirstLevelIsLRUHolds` | `FirstLevelIsLRU`, the refinement of `LRUCaches` | `REPL_POLICY = "LRU"`, `QuotasFit` |

They hold for every width, size, latency, policy and trace, from the named
assumptions on the constants, which TLC evaluates in each run, and from what
the last column adds.

### What is assumed, and why
* `PipelineAssumption` (Lab 3) says that `MAX_WRITEBACKS`, 256 in the code,
  is at least the width and at least the size of the EXEQ. `pipe_cycle_exe`
  takes both into an array of that length without looking.
* `OobReg \notin Dests`: the stray write of `pipeline.cpp:729` makes the alias of
  this one register wrong (section 5, 4). The theorems hold of all others. In
  `HealthyRunsGoOnHolds`: an instruction at the head could wait for ever for the
  result of one that has left the buffer.
* `HEARTBEAT_CYCLES >= LOAD_EXE_CYCLES + 6`: the code has 10000, a default load
  latency of 4, and does not compare the two. The bound is exact in `ooo_width2`,
  which has 8 and 2. Neither widths nor sizes enter it, invalid records may occur,
  and a run that a full EXEQ ends is ended by the halt, not by the heartbeat.
* `PIPE_WIDTH <= 2`: with three lanes the sort of issue is wrong (section 5, 1).
* `ExeqSuffices`: the EXEQ holds what two lanes can put into it within the latency
  of a load, or all of the buffer, or nothing enters it because loads take one
  cycle. The defaults of the code are 16 slots, 4 cycles and 32 entries. Without
  it `pipe_cycle_exe` finds the EXEQ full and halts a run that has instructions
  left (`ExeFull`). `Dataflow` forbids that, and `ooo_limits` shows what holds there.
* No invalid records in `PipelineImplementsDataflow`: `pipe_cycle_fetch` takes one
  for the end of the trace, the next lane reads on, and the pipeline may halt with
  instructions left.
* `Paced`: no invalid records, and a heartbeat of at least 5 cycles, the time from
  fetch to retirement in an empty pipeline; the code has 10000. With 4 TLC finds a
  run that is given up. An invalid record before the first instruction halts the
  pipeline at once, whatever the next lane reads.
* No invalid records in `KeepsTimeHolds`: such a record takes a lane for a cycle and
  is no instruction, and the recurrence of `Times` is over the instructions. As in
  `ino_width2`, every other trace, width and forwarding option is allowed;
  `KeepsTime` itself leaves out GSHARE, whose predictions depend on the past.
* `WritesRecords`: gunzip writes whole records. Without it the property is false
  (section 5, 7).
* `MemSysAssumption` (Lab 4) says what `memsys_new` needs in order to divide by
  nothing that is 0: that associativities are positive and each cache has a set,
  and that a line is no longer than a page.
* `QuotasFit`: under static partitioning each core is left a way, and under
  dynamic partitioning there are two. The code checks neither, and its default
  quota of 0 breaks it (section 5, 6). `FirstLevelIsLRU` needs it too: where the
  second level finds no way for a line that is written back, the run ends with the
  first level as it was, in the middle of an install.
* `HitsTakeACycle`: the hit latencies of the first level are at least 1. With a
  load that takes no time the next instruction would start in the cycle of this
  one's fetch, which `core_cycle` does not do.

### Along which arguments
**Lab 3.** `TypeOK` is not inductive: a stage indexes its latches with `lane`,
and a result is well typed only if the index is in range. `TypeInv` adds
`LaneInRange`, the range of `lane` in each stage's loop. One lemma for each
operator of `ROB`, `RAT` and `EXEQ` says that it keeps its component's type.
`RobWindow` rests on lemmas on arithmetic modulo the number of entries: the age
of the tail, of the entry after the head, and of all others when a pointer moves.
Everything else adds a conjunct at a time:
* `ExeqInv` counts slots: between `exeq_cycle` and the end of exe, those that are
  done fit into the EX latches that are still free.
* `FlightInv` gives each number exactly one of the FE latch, the ID latch and the
  buffer; it is stated with a cardinality for the sum with the retired ones.
* `ExecInv` does the same for the units behind the scheduler, and `CopyInv` says
  that the copy in a unit agrees with the entry, tag and registers included: that
  is what makes writeback's broadcast reach the right entry.
* `RatInv` and `OperandInv` are the two properties for the registers that can
  be trusted. They are inductive only together with `RobWindow` and `CopyInv`:
  a reset at commit must recognise the entry by its alias, and a tag must not
  name an entry that has been freed.
* `NumberInv` and `SortInv` say where in the latches, and in which order, the
  numbers after the youngest in the buffer are, pass by pass of the sort of issue.

`PipelineImplementsDataflow` maps each step to one of `Dataflow` or to a stutter:
commit to `Retire`, the iteration of writeback that marks an entry to `Finish`,
schedule to `Start`, and fetch to `Read`, or to `Stop` where the cycle ends and the
loop of `main` sees the halt. That an instruction starts after its producers is
`OperandInv` read the other way: what it waits for is the youngest older writer in the
buffer, so a ready operand has a producer that is ready or has retired, and
`NumberInv` turns ages in the buffer into numbers. Three invariants are new.
`RecordInv` says that what is in the latches and the buffer has the registers of the
record with its number. `EndInv` says that `halt_inst_num` is the last number once the
trace has been read, and that a halt comes with all retired. `RoomInv` bounds, for
each v, the slots of the EXEQ that have v cycles or more left by what the lanes filled
in the cycles since; with v = 1 and `ExeqSuffices` the EXEQ is never full when an
instruction enters.

`HealthyRunsGoOn` follows one instruction, the next to retire: the head of the
buffer or, with the buffer empty, what is in an ID latch, an FE latch, or unread.
`HeartInv` gives each place it can be in a date by which it has moved on (`By(S, k)`:
after the stages `S`, k cycles are left before the heartbeat), as long as nothing has
retired since the last heartbeat. That no stage passes it over is `LaneInv` (issue
visits every lane, and leaves out an instruction only when the buffer is full),
`FrontInv` (decode finds what the FE latches hold) and `BackInv` (the scheduler's
first lane is free and takes the head). The head can be scheduled at once:
by `OperandInv` it waits for an older instruction, and there is none. So it matters
neither how long the buffer is nor how long the others take.

**Lab 2.** `FlowInv` orders the latches: all numbers of a later latch are older
than all of an earlier one, lanes of one latch are in no order but distinct.
`BranchInv` ties `fetch_cbr_stall` to the youngest instruction. `GshareInv` says
what the predictor is in terms of the trace: the history register has the
directions of the last branches, an entry of the table is not at the end opposite
to the last branch that used it, and two uses alike make it predict that way
(`Learned`). One more branch shifts every bit of `History` by one and is one more
use of one entry, `update`'s. `EndsInTime`
needs nothing of the pipeline. `EndsWithTheTrace` needs that something retires
within each heartbeat: while nothing has, `ProgressInv` has the oldest instruction
as many latches from fetch as there have been cycles since the heartbeat.
`HeartInv` and `HaltInv` are what the heartbeat has counted and which number ends
the run, `StallInv` that only an instruction holds a lane up, and `PerfectInv` that
with a perfect predictor fetch never waits and reads in every cycle that it can.

`KeepsTime` compares the pipeline with the recurrence `Times`. About that alone:
it has exactly one solution (`TimesSolve`), issue cycles go up with the numbers
(`TimesAreClocked`), and what is read later does not change it (`TimesStay`). Then
`TimeInv` says where its instruction is at any point of a cycle, for every latch,
from its issue cycle: `PlaceInv` for what is in flight and what has retired,
`CopyInv` that a latch has the trace's record under its number, `FetchInv` that
all that is fetched was due and what comes next is not, `EndInv` when the last one
retires. Three lemmas carry it. `IssuesInTime`: among the instructions that
`pipe_cycle_ID` sees, by the least for which it fails, a lane goes on exactly in the
cycle of the recurrence, because the youngest producer is the last writer
(`WaitsForLastWriter`), whichever latch or lane it is in, and a bubble left by a lane
before it changes nothing: it is younger, or stalls this one in the second loop.
`FetchIsDue` and `FetchIsBehind`: a lane is free when and only when the
instruction `PIPE_WIDTH` before has left the IF latch, which counts lanes.

**Readers.** `PipeInv` says how many bytes can have been written and taken, and
which processes hold an end. Each reader adds where its bytes are: `ReaderInv`
that the record being filled has the bytes after the ones delivered, `CoresInv`
the same for the buffer's rest and the field being copied. `SuccessMeansRun` also
needs that records that count, and so an EXEQ that is full, are gunzip's
(`StatusInv`): a child that could not exec and is killed when `main` closes the
pipe early has status 0. The sequence of
records that `RecordStream` speaks of is then a function of these counts, and
each step maps to a step of it or to a stutter.

**Lab 4.** `MemInv` has five parts. `CachesInv` is the type of each cache with
what it takes to be inductive: no line is from the future, none is there twice,
lines belong to the cores whose frames they are in (`AllFine`). `RightInv` says
which copy of a line is current: if the first level has none that is dirty, the
second level's is, or DRAM's. It is stated for the system between two accesses,
and lemmas carry a weaker form through the middle of an access, where a victim
has left one level and has not reached the other (`Right`, `Below`, `Ready`).
`TrafficInv` is `TrafficBalances` with the sums written out. `CoresInv` and
`LoopInv` say how the cores and the loop of `main` stand at each turn. `FetchInv`
and `TimeInv` are sums over the cores of which one step changes one term.
`MemInv` was checked with TLC on the configurations of section 3 before it was
proved.

What replacement does is proved on top of `MemInv`, from the installs, hits and
victims on the path of one instruction through the caches:
* `QuotaIsApproached` follows such a path (`Goes`, `TwoLevelsGo`): a victim search
  takes a way of the other core where that core has more than its share, and one of
  the core's own otherwise, so no install takes a full set further from the quota.
* `RecencyInv` says what the ways of the second level have to do with the
  history: each line's time is that of its last use there, and if a line of a set
  is not held, the set is full and every way was used later (`UnderLRU`).
* `SettledInv` is the reason why a time per way is enough for an order: no way of
  a first-level cache has been used in the cycle in which its core comes next, so
  the valid ways of a set have different times. A set with different times is one
  sequence (`Listed`, a way's place being the number of ways used later), a use of a
  way moves its tag to the front (`UseIsUsed`), and the way with the least time is
  the sequence's last (`LRUVictim`). Each call of `core_cycle` is then a step of
  `LRUCaches` in which each of the core's caches is asked or rests.

Where a proof needs induction over data, it is done for the function in question:
the least element of a set of counterexamples (`FirstExists`), from the library's
well-foundedness of `<`.

### What is only model-checked, and why
Every invariant and every other action property of the passing runs, and each of their
refinements, is stated by a theorem above. Left to TLC is liveness (`Halts`,
`LoopEnds`, `HaltsWhenPerfect`, `BothProcessesEnd`, `EverybodyEnds`), which is out of
the prover's reach.

## 5. Where code and documents differ
Three are runs that end in a counterexample:
1. Lab 3 `pipeline.cpp:458` compares neighbouring lanes instead of the lanes
   that `pipeIndex` names. With three or more lanes instructions can enter the
   reorder buffer out of program order (`ooo_order_width3`).
2. Lab 2 `pipeline.cpp:682` checks the branch of an operation that was not read:
   the run may never halt (the heartbeat reports a deadlock), also when the
   last branch of the trace is mispredicted (`ino_halts`).
3. Lab 4 `cache.cpp:436` assigns the best utility the wrong way round
   (`mem_dwp_utility`).

These have a configuration to be run by hand (section 3):

4. Lab 3 `pipeline.cpp:729` marks entry -1 ready (see section 2;
   `MCOoO_alias.cfg`).
5. Lab 2 `pipeline.cpp:682` makes the predictor count branches that are not in
   the trace (`MCInOrder_branches.cfg`), and `sat_increment` returns 32 bits,
   so that the counts start again at 2^32 (`MCInOrder_wrap.cfg`).
6. Lab 4 `sim.cpp:62` starts with a quota of 0 where the usage text says 1, and
   `cache_find_victim_from_partition` then returns -1 (`MCMem_swpdefault.cfg`).
7. Lab 1 `sim.cpp:122` calls a valid trace invalid if a read gives part of a
   record (`MCTraceAnalysis_split.cfg`). It cannot while the writer's blocks are
   whole records and the pipe is large enough.
8. Lab 1 `sim.cpp` prints a count of one instruction for an empty trace
   (`MCTraceAnalysis_empty.cfg`).

Noted while reading: in Lab 3 a load latency near the heartbeat is taken for a
deadlock (`HealthyRunsGoOnHolds` says which ones cannot be); lines that
were last used in the same cycle tie under LRU, and the one in the lowest way is
evicted, not the least recently used one of `cache.h:48`; the second level is
1024 KB by default although the usage text says 512 (Lab 4 `sim.cpp:46`,
`:375`); RANDOM makes a fresh generator on each call and always picks way 0; a
core idles in cycle 0 because `snooze_end_cycle` starts at 0 and is inclusive;
a number of sets that is not a power of two leaves sets unused; `gunzip`'s
own failure (status 1) is ignored, so what it did not write is lost silently; Lab 3
prints its statistics and returns 0 (`sim.cpp:127`) also for a run that it gave up
with "EXEQ full" in the middle of the trace.

## 6. Plan
Done: all four simulators with their readers and drivers; the abstract
specifications `Dataflow`, `RecordStream` and `LRUCaches`; the theorems of section 4.

Not modelled, and why: `parse_args` of the drivers only gives the constants
their values, in the order of the command line; printing of statistics formats
numbers; the debugging functions that print state change none; the shell scripts
compare outputs with reference results.

Proofs: every property of a passing run that is not liveness is proved. Next would be
`RobProgramOrder` for a sort that is right for any width, if issue is repaired.

Next, modelling: an abstract memory (a map from lines to the last store) that
`MemSim` implements, in place of `LoadsSeeTheLastStore`; a composition of
`BufferedReader` with `MemSim`.
