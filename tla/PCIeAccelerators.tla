------------------------- MODULE PCIeAccelerators --------------------------
(***************************************************************************)
(* Calls of accelerated functions in the PCIe flow.  The threads of the    *)
(* host program call a wrapper that SwOnly.cpp generates for each function *)
(* (generatePCIeWrapper): it takes one of the function's accelerators from *)
(* a scheduler (LegUpScheduler.c), writes the arguments and the start bit  *)
(* to the accelerator over PCIe, polls its status register, reads the      *)
(* result and gives the accelerator back.  The accelerator's registers are *)
(* the ones VerilogWriter.cpp prints.  A client may put a scheduler of its *)
(* own before the wrapper (facedectFPGA.c).                                *)
(*                                                                         *)
(* A step is a critical section of a scheduler, a pcie_write or pcie_read, *)
(* both of which hold fpga_lock, or the end of a run of an accelerator.    *)
(***************************************************************************)
EXTENDS Integers, FiniteSetsExt

CONSTANTS
    Threads,            \* of the host program
    NumFcts,            \* length of AcceleratedFcts
    NumAccelerated,     \* accelerators of each function
    NumArgs,            \* arguments of each function, of 32 bits
    ClientTotal,        \* totalOfAccels of the client's fpgaSched
    MaxCalls            \* bound on the number of calls

\* With fewer arguments there are addresses that no accelerator answers; a
\* BitVector has room for 63 handles, as getAndSetNextAvailableBit asserts.
ASSUME PCIeAssumption ==
    /\ IsFiniteSet(Threads)
    /\ NumFcts \in Nat \ {0} /\ NumArgs \in Nat \ {0, 1}
    /\ NumAccelerated \in 1..63 /\ ClientTotal \in 1..63
    /\ MaxCalls \in Nat \ {0}

Functions == 1..NumFcts
Accels == Functions \X (0..NumAccelerated - 1)
Args == 1..NumArgs

\* The schedulers: fpgaSched and the wrappers' own.
fpgaSched == 0
Schedulers == {fpgaSched} \cup Functions
totalOfAccels(s) == IF s = fpgaSched THEN ClientTotal ELSE NumAccelerated

VARIABLES
    sched,      \* per scheduler: availableAccels (a set bit is a handle in
                \* use), numOfUsedAccels, threads waiting on the condition
    thread,     \* per thread: where it is in its call
    accel,      \* per accelerator: its registers
    calls       \* the number of calls so far; a call is named by its number

vars == <<sched, thread, accel, calls>>

INVALID_HANDLE == -1
NoResult == [fct |-> 0, args |-> [i \in Args |-> 0]]
Out == [pc |-> "out", fct |-> 1, call |-> 0, client |-> INVALID_HANDLE,
        handle |-> INVALID_HANDLE, arg |-> 1, result |-> NoResult]

Init ==
    /\ sched = [s \in Schedulers |-> [available |-> {}, used |-> 0, waiting |-> {}]]
    /\ thread = [t \in Threads |-> Out]
    /\ accel = [a \in Accels |-> [arg |-> [i \in Args |-> 0], ready |-> {}, running |-> FALSE,
                                  done |-> FALSE, return_val |-> NoResult]]
    /\ calls = 0

-----------------------------------------------------------------------------
(* Addresses, in bytes.                                                    *)

\* Data, status and arguments, in words, rounded up to a power of two.
AddressSize == 4 * Min({p \in {2^k : k \in 0..(NumArgs + 3)} : p >= NumArgs + 3})

\* Where the system builder puts accelerator a.
baseAddress(a) == ((a[1] - 1) * NumAccelerated + a[2]) * AddressSize

\* What the wrapper computes from the handle.
accelAddr(handle) == handle * 32
statusAddr(handle) == accelAddr(handle) + 8
paramAddr(handle, i) == accelAddr(handle) + 12 + 4 * (i - 1)

\* The register of accelerator a at an address; -1 when it is not there.
Register(a, addr) ==
    IF baseAddress(a) <= addr /\ addr < baseAddress(a) + AddressSize
    THEN (addr - baseAddress(a)) \div 4 ELSE -1

-----------------------------------------------------------------------------
(* The accelerators.                                                       *)

\* Faulty: the old done bit stays until the run ends.
DoneStays(r) == [r EXCEPT !.ready = {}, !.running = TRUE]

\* "start": only with all arguments there.
Started(r) == [r EXCEPT !.ready = {}, !.done = FALSE, !.running = TRUE]

Written(r, register, value) ==
    CASE register = 2 /\ value = 1 /\ r.ready = Args -> Started(r)
      [] register - 2 \in Args -> [r EXCEPT !.arg[register - 2] = value,
                                            !.ready = @ \cup {register - 2}]
      [] OTHER -> r

pcie_write(addr, value) == accel' = [a \in Accels |-> Written(accel[a], Register(a, addr), value)]

\* avs_s1_readdata when it is not 0.
ReadStatus(addr) == \E a \in Accels : Register(a, addr) = 2 /\ accel[a].done
ReadResult(addr) ==
    LET answering == {a \in Accels : Register(a, addr) = 0 /\ accel[a].done}
    IN  IF answering = {} THEN NoResult ELSE accel[CHOOSE a \in answering : TRUE].return_val

\* The function's result depends on its arguments only.
Finish(a) ==
    /\ accel[a].running
    /\ accel' = [accel EXCEPT ![a].running = FALSE, ![a].done = TRUE,
                              ![a].return_val = [fct |-> a[1], args |-> accel[a].arg]]
    /\ UNCHANGED <<sched, thread, calls>>

-----------------------------------------------------------------------------
(* The scheduler.                                                          *)

IsFull(s) == sched[s].used >= totalOfAccels(s)

\* Faulty: the number of used accelerators is the next handle.
CountAsHandle(s) == sched[s].used

\* getAndSetNextAvailableBit.
NextAvailable(s) == Min((0..totalOfAccels(s) - 1) \ sched[s].available)
Taken(s) == [sched EXCEPT ![s].available = @ \cup {NextAvailable(s)}, ![s].used = @ + 1]

\* The scheduler whose getAccel a thread is in.
Wants(t) == CASE thread[t].pc = "client" -> {fpgaSched}
              [] thread[t].pc = "wrapper" -> {thread[t].fct}
              [] OTHER -> {}

\* The handle goes to the client or to the wrapper.
Got(t, handle) ==
    IF thread[t].pc = "wrapper"
    THEN [thread EXCEPT ![t].pc = "args", ![t].handle = handle, ![t].arg = 1]
    ELSE [thread EXCEPT ![t].pc = "wrapper", ![t].client = handle]

getAccel(t) ==
    \E s \in Wants(t) :
        /\ t \notin sched[s].waiting
        /\ ~IsFull(s)
        /\ thread' = Got(t, NextAvailable(s))
        /\ sched' = Taken(s)
        /\ UNCHANGED <<accel, calls>>

pthread_cond_wait(t) ==
    \E s \in Wants(t) :
        /\ t \notin sched[s].waiting
        /\ IsFull(s)
        /\ sched' = [sched EXCEPT ![s].waiting = @ \cup {t}]
        /\ UNCHANGED <<thread, accel, calls>>

\* A thread may also wake up without a signal.
WakeUp(t) ==
    \E s \in Schedulers :
        /\ t \in sched[s].waiting
        /\ sched' = [sched EXCEPT ![s].waiting = @ \ {t}]
        /\ UNCHANGED <<thread, accel, calls>>

\* The client tries first; then it waits.
getAccelIfAvailable(t) ==
    /\ thread[t].pc = "try"
    /\ \/ /\ ~IsFull(fpgaSched)
          /\ thread' = Got(t, NextAvailable(fpgaSched))
          /\ sched' = Taken(fpgaSched)
       \/ /\ IsFull(fpgaSched)
          /\ thread' = [thread EXCEPT ![t].pc = "client"]
          /\ UNCHANGED sched
    /\ UNCHANGED <<accel, calls>>

\* Faulty: nobody is told.
FreeSilently(s, handle) ==
    sched' = [sched EXCEPT ![s].available = @ \ {handle}, ![s].used = @ - 1]

\* pthread_cond_signal wakes one of the waiting threads.
freeAccel(s, handle) ==
    \E woken \in SUBSET sched[s].waiting :
        /\ Cardinality(woken) = Min({1, Cardinality(sched[s].waiting)})
        /\ sched' = [sched EXCEPT ![s].available = @ \ {handle}, ![s].used = @ - 1,
                                  ![s].waiting = @ \ woken]

-----------------------------------------------------------------------------
(* The client and the wrapper.                                             *)

\* A call of f, through the client when f is the client's function; the
\* client's other scheduler has no CPU to give.
Call(t) ==
    /\ thread[t].pc = "out"
    /\ calls < MaxCalls
    /\ calls' = calls + 1
    /\ \E f \in Functions, pc \in {"try", "wrapper"} :
        /\ pc = "try" => f = 1
        /\ thread' = [thread EXCEPT ![t] = [Out EXCEPT !.pc = pc, !.fct = f, !.call = calls + 1]]
    /\ UNCHANGED <<sched, accel>>

\* Every argument of a call is its number.
WriteArg(t) ==
    /\ thread[t].pc = "args"
    /\ pcie_write(paramAddr(thread[t].handle, thread[t].arg), thread[t].call)
    /\ thread' = IF thread[t].arg = NumArgs THEN [thread EXCEPT ![t].pc = "start"]
                 ELSE [thread EXCEPT ![t].arg = @ + 1]
    /\ UNCHANGED <<sched, calls>>

SendStart(t) ==
    /\ thread[t].pc = "start"
    /\ pcie_write(statusAddr(thread[t].handle), 1)
    /\ thread' = [thread EXCEPT ![t].pc = "poll"]
    /\ UNCHANGED <<sched, calls>>

\* A poll that reads 0 changes nothing.
Poll(t) ==
    /\ thread[t].pc = "poll"
    /\ ReadStatus(statusAddr(thread[t].handle))
    /\ thread' = [thread EXCEPT ![t].pc = "load"]
    /\ UNCHANGED <<sched, accel, calls>>

LoadResult(t) ==
    /\ thread[t].pc = "load"
    /\ thread' = [thread EXCEPT ![t].pc = "free",
                                ![t].result = ReadResult(accelAddr(thread[t].handle))]
    /\ UNCHANGED <<sched, accel, calls>>

Free(t) ==
    /\ thread[t].pc = "free"
    /\ freeAccel(thread[t].fct, thread[t].handle)
    /\ thread' = IF thread[t].client = INVALID_HANDLE THEN [thread EXCEPT ![t] = Out]
                 ELSE [thread EXCEPT ![t].pc = "clientFree", ![t].handle = INVALID_HANDLE]
    /\ UNCHANGED <<accel, calls>>

\* Faulty: the client keeps what it acquired.
ClientKeeps(t) ==
    /\ thread[t].pc = "clientFree"
    /\ thread' = [thread EXCEPT ![t] = Out]
    /\ UNCHANGED <<sched, accel, calls>>

ClientFree(t) ==
    /\ thread[t].pc = "clientFree"
    /\ freeAccel(fpgaSched, thread[t].client)
    /\ thread' = [thread EXCEPT ![t] = Out]
    /\ UNCHANGED <<accel, calls>>

Step(t) ==
    \/ getAccelIfAvailable(t) \/ getAccel(t) \/ pthread_cond_wait(t)
    \/ WriteArg(t) \/ SendStart(t) \/ Poll(t) \/ LoadResult(t)
    \/ Free(t) \/ ClientFree(t)

Next ==
    \/ \E t \in Threads : Call(t) \/ WakeUp(t) \/ Step(t)
    \/ \E a \in Accels : Finish(a)

\* The host schedules every thread, and every accelerator ends its run.
Spec ==
    /\ Init /\ [][Next]_vars
    /\ \A t \in Threads : WF_vars(Step(t))
    /\ \A a \in Accels : WF_vars(Finish(a))

-----------------------------------------------------------------------------
(* Properties.                                                             *)

Values == 0..MaxCalls
Handles == {INVALID_HANDLE} \cup (0..NumAccelerated - 1)
Results == [fct : {0} \cup Functions, args : [Args -> Values]]

PCs == {"out", "try", "client", "wrapper", "args", "start", "poll", "load", "free", "clientFree"}
ThreadStates ==
    [pc : PCs, fct : Functions, call : Values, client : {INVALID_HANDLE} \cup (0..ClientTotal - 1),
     handle : Handles, arg : Args, result : Results]
Registers ==
    [arg : [Args -> Values], ready : SUBSET Args, running : BOOLEAN, done : BOOLEAN,
     return_val : Results]

\* The state has its types; in particular no argument beyond the last is
\* written and no handle beyond the last accelerator is given out.
TypeOK ==
    /\ sched \in [Schedulers -> [available : SUBSET Nat, used : Int, waiting : SUBSET Threads]]
    /\ \A s \in Schedulers : sched[s].available \subseteq 0..totalOfAccels(s) - 1
    /\ thread \in [Threads -> ThreadStates]
    /\ accel \in [Accels -> Registers]
    /\ calls \in Values

\* A wrapper returns what its own function computed from its own arguments:
\* not a stale result that the done bit of an earlier call announced, and not
\* one mixed from the registers of two accelerators or the writes of two
\* calls.  getAccel, the accelerator's address, the start and done bits and
\* the polling loop must play together for it.
ResultOfOwnCall ==
    \A t \in Threads : thread[t].pc \in {"free", "clientFree"} =>
        thread[t].result = [fct |-> thread[t].fct, args |-> [i \in Args |-> thread[t].call]]

\* Per scheduler, the set bits are exactly the handles that threads hold, no
\* two threads hold the same one, and numOfUsedAccels counts them: the
\* critical sections leave no handle behind and give none out twice.
Held(s, t) == IF s = fpgaSched THEN thread[t].client
              ELSE IF thread[t].fct = s THEN thread[t].handle ELSE INVALID_HANDLE
Holders(s) == {t \in Threads : Held(s, t) # INVALID_HANDLE}

SchedulerExact ==
    \A s \in Schedulers :
        /\ sched[s].available = {Held(s, t) : t \in Holders(s)}
        /\ sched[s].used = Cardinality(sched[s].available)
        /\ \A t, u \in Holders(s) : Held(s, t) = Held(s, u) => t = u

\* No accelerator lies idle while threads sleep for it: when some thread waits
\* for a scheduler that has a free handle, a thread is awake that is about to
\* take it.  One signal per freeAccel is enough, although a thread that was
\* not waiting may take the handle first and threads may wake up unasked.
NoLostWakeup ==
    \A s \in Schedulers : sched[s].waiting # {} /\ ~IsFull(s) =>
        \E t \in Threads : s \in Wants(t) /\ t \notin sched[s].waiting

\* Every call returns, also with both schedulers contended, in a program
\* whose calls end; among endless calls a waiting thread can be overtaken.
AllCallsReturn == \A t \in Threads : thread[t].pc # "out" ~> thread[t].pc = "out"
=============================================================================
