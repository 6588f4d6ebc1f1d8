# LegUp's parallel hardware, specified

LegUp compiles a C program to Verilog.  A program that uses pthreads (or OpenMP)
becomes several copies of a hardware function that run at the same time and share
one memory port, a set of lock cores and a set of barrier cores.  None of this
exists as concurrent code in the repository: the C++ passes *print* it, signal by
signal, and the only tests are simulations of a few example programs.  This
directory specifies what the printed hardware does, cycle by cycle, checks it with
TLC and proves the central parts with TLAPS.  It does the same for three other parts
whose correctness is a matter of long histories: the data cache of the hybrid flow, the
scheduler of loop pipelines, and the host library of the PCIe flow.

The bulk of the repository is LLVM, dragonegg, cloog, benchmarks, boards and tools.
The project's own logic is in

- `src/llvm/lib/Transforms/LegUp` (passes over LLVM IR),
- `src/llvm/lib/Target/Verilog` (scheduling, binding, RTL generation, printing),
- `src/examples/lib/llvm/liblegupParallel` (the C library of locks and barriers,
  itself compiled to hardware),
- the hand-written Verilog of the hybrid flow (`src/ip`),
- the host libraries of the PCIe flow (`src/pcie/shared_mem`, `src/pcie/scheduler`).

## 1. Inventory

| Component | State it keeps | Operations | Talks to |
|---|---|---|---|
| Round robin arbiter (`VerilogWriter::printArbiterModule`) and its clients (`GenerateRTL::createWaitrequestLogic`) | priority pointer, last cycle's grant; per client the request it holds; in the hybrid flow who was granted last | one clock edge; a client may ask at any time and holds its request until it is granted | every module instance with a memory port, and the parent's port |
| Read data path (`createMemoryReaddataLogicForParallelInstance`, `createMemoryReaddataStorageForParallelFunction`) | two-stage shift register per requester outside of it, another one inside it that moves with its FSM, the kept word | a read is granted; the word arrives two cycles later; the FSM reaches the load's end state | arbiter, memory, FSMs |
| Locks (`legup_lock`, `legup_unlock`, synchronization controller, `legup_HW_lock`) | per core: taken, owner; two output registers and the shift register that switches the bus; the polling FSMs | poll (test and take), release, hear the answer | arbiter, read data path |
| Barrier (`legup_barrier_init`, `legup_barrier_wait`, `legup_HW_barrier`) | count, number of threads | initialise, arrive, reset of a full count, poll | arbiter, read data path, controller |
| pthread create and join (`ParallelAPI`, `GenerateRTL`) | global thread counter, pthread_t variables; per instance start, argument, finish and return value registers | create, call state, join poll, return of an instance, clearing of registers | master FSM, instances |
| Lowering (`ParallelAPI`, `Allocation::getSynchronizationUsage`, address decoder of `VerilogWriter`) | mutex names and numbers, region flags, core counts | replace lock, unlock, barrier; make loads volatile; count cores; decode | defines the constants of the two components above |
| Data cache (`legup_dm_wt_cache.v`) | state, latched request, word counter, tag and data RAM, the RAM's registered output | look up, write through, fill a line in a burst, reset | processor and accelerators on one side, off-chip memory on the other |
| Modulo scheduler (`ModuloScheduler.cpp`, `SDCModuloScheduler.cpp`) | dependence graph, linear program, work list, schedule, reservation table, II, budget | place, postpone, evict, start over with a larger II | scheduling DAG, LP solver, pipeline generation |
| PCIe shared memory allocator (`legup_mem_shared.c`) | nodes with free list and neighbour links, search tree, two heaps | `malloc_shared`, `free_shared` | host's `malloc` and `tsearch` |
| PCIe calls (`LegUpScheduler.c`, `SwOnly::generatePCIeWrapper`, register file of `VerilogWriter`) | per scheduler a bit vector, a count and a condition; per accelerator argument, start, done and return registers | get and free a handle, write arguments, start, poll, read | host threads, PCIe driver |
| Scheduling, FSM creation, binding, bitwidths | graphs over IR instructions | compile-time algorithms | RTL generation |
| Hybrid flow: partitioning passes, Avalon mutex and barrier, hybrid pthread master | registers polled by processor and accelerators | wrappers, polling | Tiger, caches, interconnect |
| Other caches, adapters, profilers, debuggers, Tiger, PCIe driver | hardware registers | bus transactions | hybrid and PCIe flow |

`PROJECT.json` lists every component with its status and the reason where nothing
is modelled.

### Behaviours that are hard to get right

- **Time in two units.** FSMs are scheduled in *states*; memory and controllers
  answer in *cycles*; an arbiter stretches a state to any number of cycles.  Each
  shift register in the read path moves with one of the two units, and a word is on
  the shared bus for one cycle.
- **Test-and-set by reading.** A lock is taken by the *read* that finds it free.
  The answer is on the way for four clock edges and passes three multiplexers.
- **A barrier whose completion is a moment.** The count is zero only between the
  reset of a full count and the next arrival.
- **Registers shared between calls.** A start, finish or return value register is
  set in one cycle by an instance and cleared in another one by a later call.
- **Numbers assigned in one scan and counted in another.** Mutex numbers, core
  counts and address fields must agree without being computed in the same place.
- **A burst that outlives what started it.** The cache counts the words of a fill, the
  memory delays them, and a reset may come in between.
- **Undoing decisions.** An evicted instruction must disappear from four data
  structures, and an evicted one may evict its evictor again.
- **A heap that is a web of pointers.** Each block is in a neighbour list, and in a free
  list or a tree; which of them a `free` repairs depends on the whole history.
- **Handles, addresses and done bits.** A PCIe call uses an accelerator that another
  thread used a moment ago, and whose done bit is still set.

### What makes each component correct

- arbiter: at most one grant, to a requester; nobody is passed over for ever, and
  not longer than a bound; nothing is lost when the parent stalls;
- read path: the word a load keeps is the word of its own address;
- locks: mutual exclusion, no lock is lost on its way, answers are never mistaken,
  a polled lock is taken and a taken one becomes free;
- barrier: nobody leaves early, everybody leaves, also when it is used again;
- pthreads: a join returns after its thread and with its value, and does return;
- lowering: equal mutexes have equal numbers, every number has a core, no address
  selects two cores, no load in a critical section is moved out of it.
- data cache: with its memory it is a memory of words, and every request ends;
- modulo scheduler: a schedule can be repeated every II cycles and keeps the order of
  dependent accesses; the pass ends;
- allocator: allocations are disjoint and where they should be, nothing is leaked, and a
  heap that is empty again is whole again;
- PCIe calls: each call gets the result of its own arguments, no accelerator is idle
  while somebody sleeps for it, every call returns.

`PROJECT.json` lists under "hazards" the lines where these can go wrong and the
properties that watch them.

## 2. Modules

A step is one rising clock edge, except in `ParallelLowering`, `ModuloScheduler`,
`SharedMemory` and `PCIeAccelerators`, which are software.  A bit vector is the
set of the positions that are 1.  Non-blocking assignments become primed variables,
wires become operators, and the choices of the *program* (when to compute, access
memory, or call) are nondeterministic.

```
RoundRobinArbiter            rotate_ptr, grant; ArbiterClock
  |-- ArbitratedPorts        closed with arbitrary clients, both flows    -> ArbiterProofs
  `-- ReadRouting            dataReady shift register, out register; RoutingClock
        |-- ReadPath         pipelined loads of parallel functions and of the master -> ArbiterProofs
        |-- LockSystem       threads in legup_lock/unlock, controller, lock cores -> LockProofs
        |     `-- Mutex      the abstract mutex, refined by LockSystem    -> LockProofs
        `-- BarrierSystem    threads in legup_barrier_wait, controller, barrier core -> BarrierProofs
PthreadMaster                create, join, registers between master and instances -> PthreadProofs
ParallelLowering             passes that number mutexes, count cores, decode addresses -> PthreadProofs

DataCache                    legup_dm_wt_cache with its requester and memory -> CacheProofs
  |-- DataCacheMC            bounded writes and resets
  `-- WordMemory             the abstract memory, refined by DataCache    -> CacheProofs
ModuloScheduler              SDC modulo scheduling, attempt by attempt    -> ModuloProofs
  `-- ModuloSchedulerMC      two families of loops
SharedMemory                 malloc_shared, free_shared                   -> SharedMemoryProofs
  `-- HeapAllocator          the abstract allocator, refined by SharedMemory -> SharedMemoryProofs
PCIeAccelerators             schedulers, wrappers and registers, PCIe    -> PCIeProofs
```

Definitions whose comment begins with "Faulty" are plausible bugs.  The system does not use
them; each replaces the definition that follows it to show that a property notices.

**RoundRobinArbiter** is `printArbiterModule` register by register.  The pointer is
computed from the *registered* grant, so it accounts for a grant one cycle late.

**ArbitratedPorts** closes it with clients wired as `createWaitrequestLogic` does:
a client that is enabled and not granted stays in its state with its request high.
In the hybrid flow the parent's stall goes to whoever was granted last (`gnt_reg`).
`age` is a history variable that counts the cycles a client has been waiting, those of parent
stalls not included.

**ReadRouting** and **ReadPath**: `dataReady0/1` move with the memory, the registers
`first_` and `second_state_after_memory_read` with the requester's FSM.  A word
carries the requester and the number (modulo 3) of the state that asked for it, which is all that
the properties tell apart.  Ports a and b are wired alike; one is modelled.
`ParallelPorts` are the requesters with `totalNumThreads`; the others (the master)
sample `memory_controller_out` directly.

**LockSystem**: `pc` has the states of the scheduled FSMs.  `x_start` is the caller's
state in which the callee's start is high; `x_ret`, `x_finish`, `x_finish_reg` are the
return handshake.  `poll`, `poll1`, `poll2` are the three states of a volatile load
and the test of its result in `legup_lock`.  Input 0 of the arbiter is the master
thread; it accesses memory whenever it likes.  An ordinary memory word is 1,
the value a poll would take for success; so a bus switched in the wrong cycle shows.

**BarrierSystem** has the same structure with `legup_barrier_wait`; an ordinary
memory word is 0 there, which would let a poller out.  `arrived` and `left` are
history variables.  `main_created` says that the master has executed
`legup_barrier_init`, which the programs do before they create threads.

**PthreadMaster**: `rolled` says whether LLVM left the creates of a fork as one call in a loop
(then the call can start as many instances as the loop has iterations, and clears the
registers of all of them) or unrolled them to one call per thread, which can start the instance
of its `THREADID`.  The user's guide describes both.  `ownSites` says whether each fork of the
program has create calls of its own, or the forks execute the same calls again.  With
calls of their own, unrolled, every fork has its own instances: the pass gives each create call
of a function the next `THREADID` (`ParallelAPI.cpp:265-283`), in the order in which it visits
them, which the model takes to be the order in which they run.  All threads run one function.

**ParallelLowering** reveals the program site by site in scan order; a program locks
a mutex before it unlocks it.  The code keeps a map from mutex names to numbers and
gives a new name the size of the map; the model keeps the names as a sequence in the
order of their numbers, so `IndexOf` is the look-up.

**DataCache** is `legup_dm_wt_cache.v`.  The tag RAM and the data RAM register what they
read (`port_a`), so that a hit is decided one cycle after the address was latched.
The requester makes any legal request when the cache does not make it wait.  The memory
raises `waitrequest` and withholds the words of a burst at will.  A reset may come in any
cycle; `cut` is a history variable that names the lines whose fill or write a
reset interrupted.  **WordMemory** is what the requester may rely on: one request at a
time, reads see the last write, and a reset puts one block of addresses in doubt.

**ModuloScheduler**: a loop is a record of instructions, uses with their iteration
distance, functional units and array accesses.  The linear program is the set of its
constraints and its least solution, which is the one the objective (the sum of
start times) selects.  `ScheduleAtStep`, `Postpone` and `Backtrack` are the three outcomes
of a step of `SDCWithBacktracking`, `GreedySchedule` and `GreedyPostpone` those of `SDCGreedy`.
The order in which the priority queue hands out instructions is the code's, not a choice.
A failing assertion is the phase "assertion".  The first II is any one that meets both
bounds of `getInitialMII`: the code starts counting at an estimate of the elementary
cycles, which can be above the least possible II, and the model leaves the estimate open.

**SharedMemory** keeps the `S_NODE`s as a function from live nodes to their fields, so
that a freed node is outside its domain and a dangling pointer is visible.  The search loop of
`malloc_shared_internal` takes one step per block; the other functions are one step
each.  The host's `malloc` may fail at the two places where the code looks
at its result.  `ONCHIP_TAG_MASK` is a parameter; in the run the DDR heap is twice the
mask, as in the code (`mem_constants_and_types.h`), so that the addresses of its upper half
have the on-chip bit.  `HeapsServing(loc)` is the set of heaps whose blocks can be in the ring of
`loc`: at this ratio both for on-chip memory, only DDR for DDR.  **HeapAllocator** knows only
the regions in use.  It grants a gap of a heap that serves the request, and may refuse a request
for a heap that serves others although it has a gap, if every gap lies below memory in use.

**PCIeAccelerators**: a thread's `pc` is its place in the client (`try`, `client`,
`clientFree`) or the wrapper.  A step is a critical section of a scheduler, a `pcie_write` or
`pcie_read` (both hold `fpga_lock`), or the end of an accelerator's run.  Threads may also wake
up from `pthread_cond_wait` without a signal.  A call's arguments are its number, so that
a result shows whose arguments it was computed from.

## 3. Runs

| Run | Instance | Question |
|---|---|---|
| `arbiter_hybrid` | 3 clients, hybrid flow with parent stalls | no client waits longer than 2(N-1) cycles; every request is served although the stall of one access arrives at the next one |
| `read_path` | a parallel function and the master | a load of a parallel function keeps its own word under any stretching; the master's does when no other load overlaps it |
| `locks` | master, 2 threads, 1 lock | mutual exclusion, no lost lock, polls hear the controller, the system implements `Mutex`; of two competing threads none starves |
| `barrier_reuse` | master, 3 participants, 2 meetings | nobody leaves early, nobody is overtaken, everybody leaves |
| `barrier_reuse_many_ports` | 11 ports, 2 participants, the others always busy | **violated**: a poll that is granted too late misses the window |
| `pthread` | 3 threads, two forks, both loop forms, create calls per fork or executed again | joins wait and return; no instance is started while it runs; a join gets its own thread's value, or in a rolled loop a cleared one; the second fork starts its threads if its create calls are its own and unrolled, else it starts nothing |
| `data_cache` | 2 tags, 2 lines of 2 words of 2 bytes, 1 write, 1 interrupted line | cache and memory implement `WordMemory`; valid lines agree with the memory; bursts stay in step; requests finish |
| `modulo` | every dependence graph on 4 instructions with a recurrence, every three accesses to an array; 4 settings | schedules repeat, loads see their stores, the bookkeeping survives evictions, no modelled assertion fails, the pass ends |
| `modulo_memory` | the array loops | **violated**: carried dependences between stores, or from a load to a store, are reversed |
| `lowering` | 2 pthread mutexes, OpenMP critical and atomic sections, 6 sites, nesting 2 | numbers agree; an address selects its own core and no other, for the locks up to the last call's number; loads after a lock are volatile |
| `shared_memory` | heaps of 1 and 4 units, DDR twice the tag mask, requests of 1 and 2 units, 1 failure of the host | no pointer dangles, allocations are disjoint, requests for DDR get DDR memory, free lists are exact although the on-chip one takes blocks of the upper half of the DDR heap, an empty heap is one block, the search ends, the library implements `HeapAllocator` |
| `pcie_calls` | 3 threads, 3 calls, 2 accelerators, a client scheduler for 1 | own results, exact schedulers, no lost wake-up, every call returns |

Every module of the system states its `TypeOK`.  It is a theorem and not repeated in a run; in the
allocator it says that no pointer dangles and is both.  The read path and the lowering share a
proof module with another specification, so theirs are `PathTypeOK` and `LoweringTypeOK`, and
likewise `PathSpec` and `LoweringSpec`.

Bounds, and why they suffice:

- *Clients and threads.* Three arbiter inputs are the least number with a
  requester that is passed over while two others alternate, which is where the lag of
  the pointer shows (the bound 2(N-1) is reached, N-1 is not an upper bound).  Three lock system
  inputs have two threads that compete and a master that takes the bus from both.  For
  every other number the theorems of section 5 hold.
- *Read path.* Two requesters: one foreign requester is enough to bring a foreign
  word to the bus in every cycle in which the requester is stalled.
- *Barrier.* `MaxWaits = 2`: a second meeting is what reuse means; the state
  after the second one is that after the first.  The window cannot be missed with up to
  nine ports (`BarrierNobodyOvertaken`) and it is missed with eleven, which is
  the reason for two runs.  The larger one restricts the others to permanent
  access (`OthersMayPause = FALSE`) so that TLC finishes.
- *pthreads.* Three threads: a first, a middle and a last create; two rounds are the least number
  in which a counter that is never set back matters, and in which create calls of their
  own give the forks different instances.
- *Lowering.* Six sites hold a nested pair of critical sections and two loads;
  three kinds of names, two of one kind.
- *Data cache.* Two tags compete for a line, two lines and two words make an index and
  a word offset that can be wrong.  One write (`MaxWrites`) is followed by any number of
  reads of it; more writes only change values again.  `MaxCut` bounds the lines in doubt
  at once.  The theorems have no bounds.
- *Modulo scheduler.* Four instructions are the least number in which an evicted
  instruction can evict another one whose place a third one needs.  A budget ratio of 1
  makes the budget run out, the default of 6 does not; II is bounded by the code
  (`sanityCheckII`).
- *Allocator.* Four units hold a free block with used neighbours on both sides, which is
  every case of `free_coalesce`; five host nodes are more than the blocks of both heaps
  need.  The upper two units of DDR have the on-chip bit, so blocks freed there join the
  on-chip ring, whose own heap is one unit.  The theorems hold for all sizes.
- *PCIe calls.* `MaxCalls` is 3: a handle is used again after its first call, and a thread
  that did not wait can overtake one that was signalled.  With 4 calls the run has
  five times as many states and the same answer.
- `CHECK_DEADLOCK FALSE` in `barrier_reuse*`, `lowering` and `pcie_calls`: a bounded program
  stops when it has made its calls.

### Fairness

- `WF(Next)`: the clock runs.
- `ArbitratedPorts`: `WF(Clock(ParentReady))`, the parent's stalls end: they are
  cache misses and bus transactions.
- `LockSystem`: `SF(Leave(t))`, a program leaves its critical section after
  finitely many memory accesses.  It is strong because an access disables the call for
  as long as it lasts.  Nothing is assumed about the arbiter or the lock cores, nor
  that a thread ever calls `legup_lock`.
- `BarrierSystem`: `SF(Come(t))`, a participant comes to the barrier for all its calls,
  likewise.
- `PthreadMaster`: `WF` of the master's own steps and of the return of each running
  thread.
- `DataCache`: `WF(MemoryServes)`, edges at which there is no reset and the memory neither
  waits nor withholds a word: it does not do so for ever.
- `ModuloScheduler`, `SharedMemory`: the compiler, or the search loop, runs.
- `PCIeAccelerators`: `WF` of each thread's step and of each accelerator's end.  Whether a
  thread makes another call, or wakes up unasked, is not fair.  In a program that calls
  without end a waiting thread can be overtaken for ever; `AllCallsReturn` is about the
  calls of a program that ends.

`TwoThreadsServed` needs a comment: the lock cores keep no queue, so that a thread is
served because the polls have a fixed rhythm of three cycles plus arbitration, and a
thread that releases needs more than that until it polls again.  This is an argument
about two threads, and the property says so (`N <= 3`).  Three threads do not have it:
with four inputs TLC finds, in a few thousand states, an execution in which two
threads take the lock in turn, each in the window in which the third one's poll is on
its way.  No document of the repository promises more than exclusion, so it is
no finding, but a program must not rely on being served under contention.

## 4. Disagreements between code and documentation

Two runs show a disagreement:

1. **Barrier window (`barrier_reuse_many_ports`).** `legup_barrier_wait` polls for a
   count of zero, which lasts from the reset to the next arrival.  A
   participant that returns at once and arrives again closes the window; one whose
   poll is not granted in it waits for ever.  It takes enough ports that a
   poll can wait longer than the quick one needs to return.  Nine are too few, which
   is a theorem.  Ten are enough: with `N = 10`, `Participants = {1, 6}` and others that pause and
   start together TLC finds `NobodyOvertaken` violated; the run has eleven, of which
   the others never pause.
2. **Memory order in pipelines (`modulo_memory`).** `findMemoryAliasingWithStore`
   (`ModuloScheduler.cpp:1043`) adds carried dependences from stores to later loads
   only.  In `t = f(d[i+1]); d[i+1] = t; d[i] = const` at II 2 two stores to one element
   from different iterations change places.  `LoadsSeeStores` says what the code keeps.

For others the passing runs state what the code keeps, and the stronger statement
can be checked by adding it to the module:

3. **Return value lost.** `connectReturnSignal` (`GenerateRTL.cpp:1884`) clears the return
   value register of all instances the call may start, in the state before the call.  In
   a rolled loop of creates the create of thread 1 clears the value of a thread 0 that has
   already finished; its join then stores 0, while the user's guide shows `pthread_join`
   delivering results.  TLC finds it as a violation of
   `\A t \in Threads : Joined(t) => result[t] = ReturnValue(t, round)` with two threads;
   `ResultOfOwnThread` says what remains true.
4. **Pipelined loads of the master.** `visitLoadInst` (`GenerateRTL.cpp:1338`) uses the
   storage on data valid only in functions with `totalNumThreads`.  The master
   shares the arbiter with them; when it is stalled in the end state of one load with the
   next in flight, the second word replaces the first
   (`\A p \in Ports \ ParallelPorts : GetsItsWord(p)` is violated).
   `MasterLoneLoadsCorrect` says when it is safe.
5. **Second fork.** `legup_count` is never set back.  A second fork of a function whose create
   calls are its own and unrolled is numbered on and has its own instances, which it starts.  When
   the create calls of the first fork are executed again (a fork in a loop or in
   a function called twice), or stand in rolled loops, whose calls name the instances
   from zero (`getInstanceNum`, `GenerateRTL.cpp:1712-1722`), its numbers are past
   the last instance: nothing starts and its joins poll for ever.  `LaterForksNeedOwnCalls`
   says both.  The examples `df_fork_twice` and `hash_fork_twice` do not meet this: they create each
   thread function once, so every function's first number is zero in its only fork
   (`blackscholes_fork_twice` creates no pthreads).
6. **Too few lock cores.** `getSynchronizationUsage` (`Allocation.cpp:979`) overwrites the
   number of cores at every call of `legup_lock`; `AddressesSelectCores` says which
   mutexes have one.
7. **Budget of zero.** `SDCWithBacktracking` (`SDCModuloScheduler.cpp:1108`) assigns the
   unconstrained instructions only while the budget is positive but succeeds whenever no
   constrained one is left; `phase = "scheduled" => DOMAIN schedTime = loop.ops`, which
   `gather_pipeline_stats` asserts, is violated.  The other properties are
   about the instructions that have a time.
8. **Tag bit of the DDR heap.** `root_node_for_memory_address` (`legup_mem_shared.c:18`)
   tests bit 0x20000000, which the addresses from 0x60000000 on have too.  The default
   DDR heap of 1 GB, which `src/pcie/README:26` also asks for, reaches to 0x80000000: a
   block freed in its upper half joins the on-chip list, is handed out as on-chip memory and
   is missed by requests for DDR.  The run and the theorems include this:
   `AllocationsInServingHeap`, `FreeRingsExact` and `ImplementsAllocator` say what remains true.
   That each heap serves only its own requests is false; with `HeapsServing(loc) == {loc}` TLC
   finds each of the three violated.
9. **A second PCIe function.** The wrapper multiplies the handle by 32 and does not use
   the start address it is given (`SwOnly.cpp:1006`), while the system builder places the
   accelerators of all functions one after the other.  With two accelerated functions, as
   in `src/pcie/examples/chstone/aes/config.tcl`, calls of the second one reach the first
   one's accelerator: `ResultOfOwnCall` is violated with `NumFcts = 2` and
   `NumAccelerated = 1`.  The same distance of 32 bytes is wrong for several accelerators of
   a function with more than five 32 bit arguments or with fewer than two.

Two smaller remarks.  `setLoadtoVolatile` has one flag for all mutexes: after an inner
unlock the loads that still belong to the outer section are not volatile, although the
comment at `ParallelAPI.cpp:131` speaks of all loads between lock and unlock;
`LoadsAfterLockVolatile` states what the code keeps.  And the comment at
`VerilogWriter.cpp:974` ("grant one cycle after req") describes an older arbiter: the grant that
is used is the combinational one.

## 5. Proofs

Each theorem holds for every value of the constants that the named assumption of its
module allows:

| Module | Holds for | Assumptions |
|---|---|---|
| `ArbiterProofs`, `LockProofs` | any number of clients, threads and locks | `ArbiterSize` (N at least 2), `FlowAssumption`, `StallAssumption` |
| `ArbiterProofs` (the read path) | any number of requesters | `ArbiterSize`, `ParallelAssumption` |
| `BarrierProofs` | any number of participants and meetings | `ArbiterSize`, `ParticipantsAssumption`; `BarrierNobodyOvertaken` at most nine ports |
| `PthreadProofs` | any number of threads and forks | at least one of each; a rolled loop has more than one iteration |
| `PthreadProofs` (the lowering) | programs of any length and nesting | `BoundsAssumption`; `LoweringAddresses` at most 128 mutexes |
| `CacheProofs` | every geometry of the cache | `CacheSizes` |
| `ModuloProofs` | every loop | `LoopsAssumption`, `SettingsAssumption` |
| `SharedMemoryProofs` | heaps of every size up to the 1 GB of DDR that the code has | `MemoryAssumption` |
| `PCIeProofs` | any number of threads, functions and calls, up to 63 accelerators of a function, as `getAndSetNextAvailableBit` asserts | `PCIeAssumption`; `PCIeOwnResults` also `FixedDistance` |

The three conditions that a theorem adds to its module's assumptions are where the code stops
being right: the number of ports of disagreement 1, the width of `tag_lock` (seven bits), and
item 9 of section 4 (the fixed distance of 32 bytes).

- **ArbiterTypes**, **LockTypes**: type correctness.  The proofs have one step per register
  and use nothing but the definitions.
- **ArbiterBoundedBypass**: `BoundedBypass`, which is not inductive.  The
  invariant `IInv` adds that at most one grant is registered and a *budget*: the age of
  a waiting client plus what it can still be made to wait for stays below
  2(N-1).  There are two pointers, the one in use now and the one
  the registered grant will produce, because odd and even cycles rotate independently;
  each has a *distance* to the waiting client, and every cycle in which somebody else is
  granted shortens one of them.
- **ReadPathTypes**, **ReadPathParallelLoads**, **ReadPathLoneLoads**: the invariant ties the two
  shift registers together, the one that moves with the memory (`dataReady0/1`) and the one
  that moves with the requester's FSM.  In the first cycle of the state after a load the memory has
  the load's word (`JustGranted`); while that state is stretched the word is heard and kept
  (`StretchedStart`); the end state hears it in its first cycle (`FirstOfEnd`) and has it stored in
  the others (`StretchedEnd`).  The master does not use the store: it hears the word for as
  long as no second load is in flight (`LoneEnd`).
- **LockPollsHeard**, **LockNoneLost**, **LockMutualExclusion**: the invariant has two parts.
  `PollsTracked` says where each answer is: a thread in `poll1` or
  `poll2` has exactly its bit in `dataReady0` or `dataReady1` and in the controller's shift
  register, and at most one thread is in each of these states.  `CoresMatch` says that status
  and owner of a core agree, that a taken core has exactly one thread that `Has` it
  and a free one none.  The lemma `HasStep` describes a step by what it
  does to `Has`: a thread has a lock afterwards if it had it and did not give it
  back, or if its granted poll found the core free.  The proof that a step
  keeps `CoresMatch` is a case split on taken, given back and untouched.

- **LockRefinesMutex**: `Spec => ImplementsMutex`, the refinement that `locks`
  checks.  The mapping takes as holder the thread that `Has` the lock and as waiting
  the threads in the polling loop that do not.  `HasStep` and the uniqueness in `CoresMatch`
  turn a clock edge into, for each lock, an acquisition by a thread that waited
  (`FreeStep`), a release by the holder or no change (`TakenStep`); `TryingStep` says that
  nobody stops waiting without the lock, which needs `PollsTracked`: a thread that hears a 1
  has been answered by its core.

- **BarrierTypes**, **BarrierNoEarlyExit**, **BarrierResets**: `Meeting(r)` says that r meetings are
  complete: everybody has arrived r or r + 1 times, the core counts those who came once
  more, and whoever is outside the barrier, or is about to hear a zero, has come r times.
  `CallsCounted` ties the history variables to the places in the call, and `PollsTracked` says
  where each answer is, as for the locks.  `BarrierResets` is an action property: the
  count falls only when all have arrived equally often.
- **BarrierNobodyOvertaken**, for at most nine ports.  While somebody is `Behind`, that is, still has to
  poll the zero of a complete meeting, those who have heard it have at least the cycles
  `Away` to go before their next arrival, seven after the cycle in which the poll was granted.
  Priority is two rotations, `rotate_ptr` and `ptr_next`, that take turns.  `InTime` says that
  the waiting poll reaches its turn in one of them before the arrival can ask, or that the arrival
  does not come before the poll in either by then.  `GrantIsNearest` and
  `OrderKept` say what a grant does to the order of two ports, so that a cycle without the poll
  brings it closer by as much as the other (`InTimeStep`).  When the other's poll is granted,
  one rotation starts right behind it, so that it comes last there.  At most seven ports are
  neither of the two: either at most three of them come before the other's port in the second
  rotation, which has passed it then when it arrives, or at most three lie between it
  and the poll, which is then granted in the first rotation (`InTimeFromPoll`).
- **PthreadTypes**, **PthreadJoinWaits**, **PthreadNoRestart**, **PthreadResults**,
  **PthreadLaterForks**: `ForkProgress` relates the master's place in its loops of creates and joins to
  `legup_count` and the pthread_t variables, `InstanceProgress` says for each instance whether it was
  started, runs, or has finished with which value in its register, and `ThreadProgress` what a join has
  stored.  `Starting` tells the forks that start instances, the first one or, with unrolled
  create calls of their own, all of them, from the second fork of the other programs, which gets to
  its joins and no further.  For the programs in which every fork starts, the theorems are about any
  number of forks one after the other; `Numbers` says that their numbers follow on one another up
  to the last instance.
- **LoweringTypes**, **LoweringNumbers**, **LoweringAddresses**, **LoweringLoadsVolatile**: no mutex
  is in the map twice (`MapExact`) and every call has the position of its mutex as operand
  (`CallsNumbered`); after a lock with no unlock since, loads are volatile (`OpenAtomic`); the
  number of lock cores is decided by the last lock call scanned (`ScannedCores`).  The
  address decoder is then a fact about bit fields of seven bits.
- **CacheTypes**, **CacheBurstInStep**, **CacheCoherent**: beside the properties themselves the
  invariant says that reads enable all bytes (`ReadsEnableAll`), that the registered output of the
  RAMs is that of the latched address while a look-up uses it (`PortLooksUp`), and which words
  of the line being filled are already those of memory (`FillMatches`).
- **CacheRefinesMemory**: `Spec => ImplementsWordMemory`; a hit answers what is stored
  because a valid line that is not cut agrees with the memory.
- **ModuloTypes**, **ModuloBookkeeping**, **ModuloScheduleRepeats**, **ModuloLoadsSeeStores**:
  `Fixed` ties work list, EQ constraints, schedule and reservation table to each other,
  `Solved` says that `sdcSchedTime` is a solution of the constraints as they are now.  A
  schedule that is returned consists of pinned times and of that solution, hence keeps every
  edge; the reservation table keeps the units apart; an edge with the carried distance puts a load after
  its stores.
- **LinearProgramIsExact**: the least solution that the model computes by pushing instructions
  later is *the* least solution, for every system of constraints.  The pointwise minimum of
  two solutions is one, so there is a least one; the pushes never pass it; and
  each settles at least one more instruction, because otherwise all the unsettled ones could start a
  cycle earlier.  As many pushes as instructions are therefore enough, and what is still
  moving after them has no solution.  This is what `SDCSolver` asks of the LP library.
- **ModuloAssertionsHold**: the invariant is that the dependences alone have a solution at the II of
  the attempt (`Pipelinable`: the first II is chosen so, and a larger one gives them more room) and
  that `sdcSchedTime` is the least solution of the constraints as they are now (`Earliest`).
  `OnlyLegalTime`: of the times that `backtracking` tries up to the solution's, exactly that one can be
  pinned.  `DisplacedMakesRoom` and `EvictionRelieves`: without the user of port 0 there is a
  slot, and with everything evicted there is a solution, the old one with
  all other instructions moved along.  The sanity check of `findEmptySlot` that a time is below
  1000 (`SDCModuloScheduler.cpp:625`) is not modelled: a long loop fails it.
- **SharedMemoryTypes**, **SharedMemoryDisjoint**, **SharedMemoryInHeap**: disjointness is a
  property of a linked structure, which no induction along the list can use here.  `IInv`
  is therefore local: each node agrees with its neighbours on addresses and links (`Stacked`),
  any two nodes are apart (`Spread`), each free node's ring links are mutual
  (`Ringed`), and each pointer a caller holds is backed by a used node in the tree.
  `RingsApart` says that some colouring of the free nodes is constant along the links and
  different at the two static nodes, which is how "the two rings do not meet" is said
  without walking them.  A search that starts in one ring then ends in the same one.  `Owned`
  says that every block of a ring can serve the requests of that ring: its tag bit put it
  there.
- **SharedMemoryOneBlock**: a second invariant says that the heaps are `Whole`.  `Tiled`: every address
  of a heap is in a block, only the block at the base has none below and only the static one
  none above; `Merged`: no two free blocks are neighbours; `Aligned`.  In a heap without
  used blocks the static block then has none below it and ends at the end of the heap.  Every
  helper keeps each part; `free_coalesce` with two free neighbours passes through a state
  in which the blocks are not merged around one node and that node is in no ring, so the
  parts have that node as a parameter.
- **SharedMemoryRings**: `Reached` says that a set of free blocks with both static nodes that is closed
  under the links is the set of all free blocks; it is how "every free block can be reached" is said
  without walking, and each helper keeps it.  The walk of `FreeRingsExact` is a recursive function;
  that it exists, is unique and comes back to its start is proved with least
  counterexamples and the pigeonhole principle (`WalkExists`, `WalkUnique`, `Repeats`,
  `WalkClosed`).  The nodes it meets are closed under the links, and `Reached` gives the rest.
- **SharedMemoryRefines**: `Spec => ImplementsAllocator`.  `Searched` says that the search has
  seen a segment of the ring in which nothing fits.  When it returns NULL the segment is
  the ring (`AllSeen`), and because the heap is tiled and merged a gap with room can only be in a
  free block of the other ring, below the used block above it (`GapIsBelowUsed`); when it finds a block, the block's beginning is a place the abstract allocator
  may choose (`FreeBlockIsCandidate`); a free takes away the one region with the
  caller's address.
- **PCIeTypes**, **PCIeSchedulerExact**, **PCIeNoLostWakeup**: `HasHandle` says at which places of its
  call a thread has a handle, so that a step takes or gives back exactly one (`AcquireExact`,
  `ReleaseExact`).  `NoLostWakeup` is not inductive: two `freeAccel` may follow each
  other before either signalled thread runs.  `SignalsSuffice` counts: while somebody
  sleeps, at least as many threads are awake to take a handle as handles are free.  A
  thread that takes one lowers both numbers, a signal raises both, and a thread falls asleep
  only where no handle is free.
- **PCIeOwnResults**: `CallInv` follows a call through the registers: while a thread is between
  the start of its accelerator and the read of the result, the registers hold its own arguments
  and, once done is set, their result (`Stage`); an accelerator nobody holds does not run
  (`Quiet`).  That nobody else writes these registers is `SchedulerExact` together with the
  distance of the addresses.

Only model-checked: the liveness properties of the runs, because temporal reasoning under
fairness is beyond what the prover does.  Every invariant and every action property of
the runs, and each refinement, is a theorem.

## 6. Not modelled

- Scheduling, binding and analyses: compile-time algorithms, planned as
  functions over small graphs.  The FSM shapes of the models (call handshake,
  two-state loads, a gap between a store and a volatile load) are taken from them.
- Of modulo scheduling: the ITERATIVE scheduler, the perturbation order, restructuring of
  recurrences, chaining, the sanity check that a time is below 1000, accesses that share an address computation, the options that ignore memory
  dependences or solve incrementally, and the control generated from the schedule.
- Of the caches: the state that clears the tags, which is entered only at power-up, the simple cache,
  Tiger's own caches and the adapters.
- Of the PCIe flow: arguments of 64 bits, void functions, the memcpy functions (they keep no
  state; copies of less than 8 bytes are widened to 8), and the driver.  In the
  allocator the free list links of a used block, which the code leaves as they were and
  never reads, are NULL.
- The hybrid flow beyond arbiter and cache: its master's waitrequest is fed back into the
  arbiter, and locks and barriers are other components there.
- OpenMP's blocking parallel calls; several thread functions in one program; more
  callers of a barrier than `numthreads`.
- LLVM, vendor code, Tiger, boards, viewers, scripts, drivers, and the tables of constants
  in the example programs, which are most of the repository's lines.
- Undefined uses of the API: an unlock scanned before any lock of its mutex
  dereferences `end()` at `ParallelAPI.cpp:600`; such programs are left out.

## 7. Plan

In this order:

1. Fork and join in general: several thread functions (`functionID`) in `PthreadMaster`, and the
   blocking OpenMP call that waits for the conjunction of finish registers.
2. The hybrid pthread master: its arbiter, whose waitrequest contains its own ungranted
   request; the Avalon mutex and barrier.
3. More callers than `numthreads` at the barrier core (arrival and reset in one cycle).
4. FSM creation from a schedule; the assignment algorithm against a reference definition.
5. The bus adapters and the profiler's call stack.
6. Theorems: the same kind of invariants for what 1 to 5 add.
