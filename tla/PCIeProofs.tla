---------------------------- MODULE PCIeProofs ----------------------------
(***************************************************************************)
(* Proofs about PCIeAccelerators, for any number of threads, functions,    *)
(* accelerators and calls.  SchedulerExact needs to know where in its call *)
(* a thread has a handle (HasHandle); NoLostWakeup needs a count: while    *)
(* threads sleep, at least as many are awake to take a handle as there are *)
(* free handles (SignalsSuffice).  ResultOfOwnCall needs the stage that    *)
(* each accelerator is in (CallInv), and a function whose argument count   *)
(* puts its accelerators where the wrapper looks for them (FixedDistance). *)
(***************************************************************************)
EXTENDS PCIeAccelerators, FiniteSetTheorems, WellFoundedInduction, TLAPS

HasHandle ==
    \A t \in Threads :
        /\ thread[t].handle # INVALID_HANDLE
              <=> thread[t].pc \in {"args", "start", "poll", "load", "free"}
        /\ thread[t].pc \in {"out", "try", "client"} => thread[t].client = INVALID_HANDLE
        /\ thread[t].pc = "clientFree" => thread[t].client # INVALID_HANDLE

SleepersWant == \A s \in Schedulers : \A t \in sched[s].waiting : s \in Wants(t)

Awake(s) == {t \in Threads : s \in Wants(t) /\ t \notin sched[s].waiting}

Sufficient(s) == sched[s].waiting # {} => Cardinality(Awake(s)) + sched[s].used >= totalOfAccels(s)
SignalsSuffice == \A s \in Schedulers : Sufficient(s)

Exact(s) ==
    /\ sched[s].available = {Held(s, t) : t \in Holders(s)}
    /\ sched[s].used = Cardinality(sched[s].available)
    /\ \A t, u \in Holders(s) : Held(s, t) = Held(s, u) => t = u

IInv == TypeOK /\ HasHandle /\ SchedulerExact /\ SleepersWant /\ SignalsSuffice
-----------------------------------------------------------------------------
(* Numbers.                                                                *)

LessThan == OpToRel(<, Nat)

\* Min of a non-empty set of natural numbers is its least element.
LEMMA MinInSet ==
  ASSUME NEW S \in SUBSET Nat, S # {}
  PROVE  Min(S) \in S /\ \A n \in S : Min(S) <= n
<1>1. IsWellFoundedOn(LessThan, Nat)
  BY NatLessThanWellFounded DEF LessThan
<1>2. PICK m \in S : \A n \in S : <<n, m>> \notin LessThan
  BY <1>1, WFMin
<1>3. ASSUME NEW n \in S PROVE m <= n
  <2>1. <<n, m>> \in Nat \X Nat
    OBVIOUS
  <2>2. ~(n < m)
    BY <1>2, <2>1 DEF OpToRel, LessThan
  <2> QED
    BY <2>2
<1> QED
  BY <1>3 DEF Min

LEMMA TotalType == \A s \in Schedulers : totalOfAccels(s) \in 1..63
BY PCIeAssumption DEF totalOfAccels

\* When a scheduler is not full, getAndSetNextAvailableBit finds a clear bit.
LEMMA NextIsFree ==
  ASSUME TypeOK, SchedulerExact, NEW s \in Schedulers, ~IsFull(s)
  PROVE  NextAvailable(s) \in (0..totalOfAccels(s) - 1) \ sched[s].available
<1> DEFINE Bits == 0..totalOfAccels(s) - 1
<1>1. totalOfAccels(s) \in 1..63
  BY TotalType
<1>2. Cardinality(Bits) = totalOfAccels(s)
  <2>1. 0 \in Int /\ totalOfAccels(s) - 1 \in Int /\ ~(0 > totalOfAccels(s) - 1)
        /\ totalOfAccels(s) - 1 - 0 + 1 = totalOfAccels(s)
    BY <1>1
  <2> QED
    BY <2>1, FS_Interval, Zenon
<1>3. /\ sched[s].used \in Int
      /\ sched[s].used = Cardinality(sched[s].available)
      /\ sched[s].used < totalOfAccels(s)
  <2>1. sched[s].used \in Int
    BY DEF TypeOK
  <2>2. sched[s].used = Cardinality(sched[s].available)
    BY DEF SchedulerExact
  <2> HIDE DEF Bits
  <2> QED
    BY <1>1, <2>1, <2>2 DEF IsFull
<1>4. sched[s].available \subseteq Bits
  BY DEF TypeOK
<1>5. Bits \ sched[s].available # {}
  <2> SUFFICES ASSUME Bits = sched[s].available PROVE FALSE
    BY <1>4
  <2>1. Cardinality(sched[s].available) = totalOfAccels(s)
    BY <1>2
  <2> QED
    BY <1>1, <1>3, <2>1
<1>6. Bits \ sched[s].available \in SUBSET Nat
  BY <1>1
<1> QED
  BY <1>5, <1>6, MinInSet DEF NextAvailable

\* pthread_cond_signal wakes exactly one thread when some wait.
LEMMA WakesOne ==
  ASSUME NEW W, IsFiniteSet(W), NEW woken \in SUBSET W,
         Cardinality(woken) = Min({1, Cardinality(W)})
  PROVE  /\ W = {} => woken = {}
         /\ W # {} => \E w \in W : woken = {w}
<1>1. IsFiniteSet(woken) /\ Cardinality(W) \in Nat
  BY FS_Subset, FS_CardinalityType
<1>2. Min({1, Cardinality(W)}) \in {1, Cardinality(W)}
      /\ Min({1, Cardinality(W)}) <= 1
  BY <1>1, MinInSet
<1>3. CASE W = {}
  BY <1>3
<1>4. CASE W # {}
  <2>1. Cardinality(W) >= 1
    BY <1>1, <1>4, FS_EmptySet
  <2>2. Cardinality(woken) = 1
    BY <1>1, <1>2, <2>1
  <2>3. PICK w : woken = {w}
    BY <1>1, <2>2, FS_Singleton
  <2> QED
    BY <1>4, <2>3
<1> QED
  BY <1>3, <1>4

-----------------------------------------------------------------------------
(* One scheduler: what its handles and its sleepers look like after a step *)
(* that takes a handle, gives one back, or does neither.                   *)

LEMMA BitsFinite == TypeOK => \A s \in Schedulers : IsFiniteSet(sched[s].available)
<1> SUFFICES ASSUME TypeOK, NEW s \in Schedulers PROVE IsFiniteSet(sched[s].available)
  OBVIOUS
<1>1. totalOfAccels(s) - 1 \in Int
  BY TotalType
<1>2. IsFiniteSet(0..totalOfAccels(s) - 1)
  BY <1>1, FS_Interval, 0 \in Int, Zenon
<1> QED
  BY <1>2, FS_Subset DEF TypeOK

LEMMA KeepExact ==
  ASSUME NEW s \in Schedulers, Exact(s),
         sched'[s].available = sched[s].available, sched'[s].used = sched[s].used,
         \A u \in Threads : Held(s, u)' = Held(s, u)
  PROVE  Exact(s)'
<1>1. Holders(s)' = Holders(s)
  BY DEF Holders
<1> QED
  BY <1>1 DEF Exact, Holders

LEMMA AcquireExact ==
  ASSUME TypeOK, NEW s \in Schedulers, Exact(s), NEW t \in Threads,
         NEW h \in Nat \ sched[s].available,
         sched'[s].available = sched[s].available \cup {h}, sched'[s].used = sched[s].used + 1,
         Held(s, t) = INVALID_HANDLE, Held(s, t)' = h,
         \A u \in Threads \ {t} : Held(s, u)' = Held(s, u)
  PROVE  Exact(s)'
<1>1. Holders(s)' = Holders(s) \cup {t} /\ t \notin Holders(s)
  BY DEF Holders, INVALID_HANDLE
<1>2. \A u \in Holders(s) : u \in Threads /\ Held(s, u)' = Held(s, u) /\ Held(s, u) # h
  BY <1>1 DEF Exact, Holders
<1>3. sched'[s].available = {Held(s, u)' : u \in Holders(s)'}
  BY <1>1, <1>2 DEF Exact
<1>4. sched'[s].used = Cardinality(sched'[s].available)
  BY BitsFinite, FS_AddElement DEF Exact
<1>5. \A u, v \in Holders(s)' : Held(s, u)' = Held(s, v)' => u = v
  BY <1>1, <1>2 DEF Exact
<1> QED
  BY <1>3, <1>4, <1>5 DEF Exact

LEMMA ReleaseExact ==
  ASSUME TypeOK, NEW s \in Schedulers, Exact(s), NEW t \in Holders(s),
         sched'[s].available = sched[s].available \ {Held(s, t)},
         sched'[s].used = sched[s].used - 1,
         Held(s, t)' = INVALID_HANDLE,
         \A u \in Threads \ {t} : Held(s, u)' = Held(s, u)
  PROVE  Exact(s)'
<1>1. Holders(s)' = Holders(s) \ {t}
  BY DEF Holders
<1>2. \A u \in Holders(s)' : Held(s, u)' = Held(s, u) /\ Held(s, u) # Held(s, t)
  BY <1>1 DEF Exact, Holders
<1>3. sched'[s].available = {Held(s, u)' : u \in Holders(s)'}
  BY <1>1, <1>2 DEF Exact
<1>4. sched'[s].used = Cardinality(sched'[s].available)
  <2>1. Held(s, t) \in sched[s].available
    BY DEF Exact
  <2>2. Cardinality(sched[s].available \ {Held(s, t)}) = Cardinality(sched[s].available) - 1
    BY <2>1, BitsFinite, FS_RemoveElement
  <2> QED
    BY <2>2 DEF Exact
<1>5. \A u, v \in Holders(s)' : Held(s, u)' = Held(s, v)' => u = v
  BY <1>1, <1>2 DEF Exact
<1> QED
  BY <1>3, <1>4, <1>5 DEF Exact

LEMMA AwakeCount ==
  /\ \A s : IsFiniteSet(Awake(s)) /\ Cardinality(Awake(s)) \in Nat
  /\ \A s : IsFiniteSet(Awake(s)') /\ Cardinality(Awake(s)') \in Nat
<1>1. \A S \in SUBSET Threads : IsFiniteSet(S) /\ Cardinality(S) \in Nat
  BY PCIeAssumption, FS_Subset, FS_CardinalityType
<1> QED
  BY <1>1 DEF Awake

LEMMA KeepSufficient ==
  ASSUME NEW s \in Schedulers, Sufficient(s),
         sched[s].used \in Int, sched'[s].used \in Int, sched'[s].used >= sched[s].used,
         sched'[s].waiting \subseteq sched[s].waiting,
         Awake(s) \subseteq Awake(s)'
  PROVE  Sufficient(s)'
<1>1. Cardinality(Awake(s)) <= Cardinality(Awake(s)')
  BY AwakeCount, FS_Subset
<1>2. totalOfAccels(s)' = totalOfAccels(s)
  BY DEF totalOfAccels
<1> QED
  BY <1>1, <1>2, AwakeCount, TotalType DEF Sufficient

LEMMA TakeSufficient ==
  ASSUME NEW s \in Schedulers, Sufficient(s), NEW t,
         sched[s].used \in Int, sched'[s].used = sched[s].used + 1,
         sched'[s].waiting = sched[s].waiting,
         Awake(s) \ {t} \subseteq Awake(s)'
  PROVE  Sufficient(s)'
<1>1. Cardinality(Awake(s)) - 1 <= Cardinality(Awake(s) \ {t})
  <2>1. Cardinality(Awake(s) \ {t}) = IF t \in Awake(s) THEN Cardinality(Awake(s)) - 1
                                      ELSE Cardinality(Awake(s))
    BY AwakeCount, FS_RemoveElement, Zenon
  <2> QED
    BY <2>1, AwakeCount
<1>2. Cardinality(Awake(s) \ {t}) \in Nat
  BY AwakeCount, FS_RemoveElement, FS_CardinalityType
<1>3. Cardinality(Awake(s) \ {t}) <= Cardinality(Awake(s)')
  BY AwakeCount, FS_Subset
<1>4. totalOfAccels(s)' = totalOfAccels(s)
  BY DEF totalOfAccels
<1> QED
  BY <1>1, <1>2, <1>3, <1>4, AwakeCount, TotalType DEF Sufficient

LEMMA FreeSufficient ==
  ASSUME TypeOK, NEW s \in Schedulers, Sufficient(s), SleepersWant,
         sched'[s].used = sched[s].used - 1,
         NEW woken \in SUBSET sched[s].waiting,
         Cardinality(woken) = Min({1, Cardinality(sched[s].waiting)}),
         sched'[s].waiting = sched[s].waiting \ woken,
         Awake(s) \cup woken \subseteq Awake(s)'
  PROVE  Sufficient(s)'
<1>1. sched[s].waiting \subseteq Threads /\ sched[s].used \in Int
  BY DEF TypeOK
<1>2. IsFiniteSet(sched[s].waiting)
  BY <1>1, PCIeAssumption, FS_Subset
<1>3. CASE sched[s].waiting = {}
  BY <1>3 DEF Sufficient
<1>4. CASE sched[s].waiting # {}
  <2>1. PICK w \in sched[s].waiting : woken = {w}
    BY <1>2, <1>4, WakesOne
  <2>2. w \notin Awake(s)
    BY DEF Awake
  <2>3. IsFiniteSet(Awake(s) \cup {w})
        /\ Cardinality(Awake(s) \cup {w}) = Cardinality(Awake(s)) + 1
    BY <2>2, AwakeCount, FS_AddElement
  <2>4. Cardinality(Awake(s) \cup {w}) <= Cardinality(Awake(s)')
    BY <2>1, AwakeCount, FS_Subset
  <2>5. totalOfAccels(s)' = totalOfAccels(s)
    BY DEF totalOfAccels
  <2> QED
    BY <1>1, <1>4, <2>3, <2>4, <2>5, AwakeCount, TotalType DEF Sufficient
<1> QED
  BY <1>3, <1>4

-----------------------------------------------------------------------------
(* Types.                                                                  *)

LEMMA TypeInit == Init => TypeOK
<1> SUFFICES ASSUME Init PROVE TypeOK
  OBVIOUS
<1> USE PCIeAssumption
<1>1. NoResult \in Results
  BY DEF NoResult, Results, Values
<1>2. sched \in [Schedulers -> [available : SUBSET Nat, used : Int, waiting : SUBSET Threads]]
      /\ \A s \in Schedulers : sched[s].available \subseteq 0..totalOfAccels(s) - 1
  BY DEF Init
<1>3. thread \in [Threads -> ThreadStates]
  BY <1>1 DEF Init, Out, ThreadStates, PCs, Functions, Values, Handles, Args
<1>4. accel \in [Accels -> Registers]
  BY <1>1 DEF Init, Values, Registers
<1>5. calls \in Values
  BY DEF Init, Values
<1> QED
  BY <1>2, <1>3, <1>4, <1>5 DEF TypeOK

LEMMA WrittenType ==
  ASSUME NEW r \in Registers, NEW register, NEW value \in Values
  PROVE  Written(r, register, value) \in Registers
<1>1. CASE register = 2 /\ value = 1 /\ r.ready = Args
  BY <1>1 DEF Written, Started, Registers
<1>2. CASE ~(register = 2 /\ value = 1 /\ r.ready = Args) /\ register - 2 \in Args
  <2>1. Written(r, register, value) = [r EXCEPT !.arg[register - 2] = value,
                                                !.ready = @ \cup {register - 2}]
    BY <1>2 DEF Written, Args
  <2>2. [r.arg EXCEPT ![register - 2] = value] \in [Args -> Values]
        /\ r.ready \cup {register - 2} \in SUBSET Args
    BY <1>2 DEF Registers
  <2>3. Written(r, register, value) = [r EXCEPT !.arg = [r.arg EXCEPT ![register - 2] = value],
                                                !.ready = r.ready \cup {register - 2}]
    BY <2>1 DEF Registers
  <2> QED
    BY <2>2, <2>3 DEF Registers
<1>3. CASE ~(register = 2 /\ value = 1 /\ r.ready = Args) /\ register - 2 \notin Args
  <2>1. Written(r, register, value) = r
    BY <1>3 DEF Written
  <2> QED
    BY <2>1
<1> QED
  BY <1>1, <1>2, <1>3

LEMMA TakenType ==
  ASSUME TypeOK, SchedulerExact, NEW s \in Schedulers, ~IsFull(s), sched' = Taken(s)
  PROVE  /\ sched' \in [Schedulers -> [available : SUBSET Nat, used : Int, waiting : SUBSET Threads]]
         /\ \A x \in Schedulers : sched'[x].available \subseteq 0..totalOfAccels(x) - 1
<1>1. NextAvailable(s) \in 0..totalOfAccels(s) - 1 /\ NextAvailable(s) \in Nat
  BY NextIsFree, TotalType
<1> QED
  BY <1>1 DEF TypeOK, Taken

LEMMA GotType ==
  ASSUME TypeOK, SchedulerExact, NEW t \in Threads, NEW s \in Schedulers, ~IsFull(s),
         thread[t].pc # "wrapper" => s = fpgaSched,
         thread[t].pc = "wrapper" => s \in Functions,
         thread' = Got(t, NextAvailable(s))
  PROVE  thread' \in [Threads -> ThreadStates]
<1>1. NextAvailable(s) \in 0..totalOfAccels(s) - 1
  BY NextIsFree
<1>2. CASE thread[t].pc = "wrapper"
  <2>1. NextAvailable(s) \in Handles
    BY <1>1, <1>2, PCIeAssumption DEF totalOfAccels, Functions, fpgaSched, Handles
  <2>2. 1 \in Args
    BY PCIeAssumption DEF Args
  <2>3. [thread[t] EXCEPT !.pc = "args", !.handle = NextAvailable(s), !.arg = 1] \in ThreadStates
    BY <2>1, <2>2 DEF TypeOK, ThreadStates, PCs
  <2>4. thread' = [thread EXCEPT ![t] = [thread[t] EXCEPT !.pc = "args",
                                             !.handle = NextAvailable(s), !.arg = 1]]
    BY <1>2 DEF Got, TypeOK
  <2> QED
    BY <2>3, <2>4 DEF TypeOK
<1>3. CASE thread[t].pc # "wrapper"
  <2>1. NextAvailable(s) \in 0..ClientTotal - 1
    BY <1>1, <1>3 DEF totalOfAccels
  <2>2. [thread[t] EXCEPT !.pc = "wrapper", !.client = NextAvailable(s)] \in ThreadStates
    BY <2>1 DEF TypeOK, ThreadStates, PCs
  <2>3. thread' = [thread EXCEPT ![t] = [thread[t] EXCEPT !.pc = "wrapper",
                                             !.client = NextAvailable(s)]]
    BY <1>3 DEF Got, TypeOK
  <2> QED
    BY <2>2, <2>3 DEF TypeOK
<1> QED
  BY <1>2, <1>3

LEMMA FreedType ==
  ASSUME TypeOK, NEW s \in Schedulers, NEW handle, freeAccel(s, handle)
  PROVE  /\ sched' \in [Schedulers -> [available : SUBSET Nat, used : Int, waiting : SUBSET Threads]]
         /\ \A x \in Schedulers : sched'[x].available \subseteq 0..totalOfAccels(x) - 1
BY DEF TypeOK, freeAccel

LEMMA WriteType ==
  ASSUME TypeOK, NEW addr, NEW value \in Values, pcie_write(addr, value)
  PROVE  accel' \in [Accels -> Registers]
<1>1. \A a \in Accels : Written(accel[a], Register(a, addr), value) \in Registers
  BY WrittenType DEF TypeOK
<1> QED
  BY <1>1 DEF pcie_write

LEMMA ResultType == TypeOK => \A addr : ReadResult(addr) \in Results
<1> SUFFICES ASSUME TypeOK, NEW addr PROVE ReadResult(addr) \in Results
  OBVIOUS
<1> DEFINE answering == {a \in Accels : Register(a, addr) = 0 /\ accel[a].done}
<1>1. CASE answering = {}
  <2>1. NoResult \in Results
    BY PCIeAssumption DEF NoResult, Results, Values
  <2> QED
    BY <1>1, <2>1 DEF ReadResult
<1>2. CASE answering # {}
  <2>1. (CHOOSE a \in answering : TRUE) \in Accels
    BY <1>2
  <2>2. accel[CHOOSE a \in answering : TRUE].return_val \in Results
    BY <2>1 DEF TypeOK, Registers
  <2> QED
    BY <1>2, <2>2 DEF ReadResult
<1> QED
  BY <1>1, <1>2

LEMMA OutType == Out \in ThreadStates
BY PCIeAssumption DEF Out, NoResult, ThreadStates, PCs, Args, Handles, Functions, Values, Results

LEMMA TypeNext == TypeOK /\ SchedulerExact /\ [Next]_vars => TypeOK'
<1> SUFFICES ASSUME TypeOK, SchedulerExact, [Next]_vars PROVE TypeOK'
  OBVIOUS
<1> DEFINE SchedOK ==
      /\ sched' \in [Schedulers -> [available : SUBSET Nat, used : Int, waiting : SUBSET Threads]]
      /\ \A s \in Schedulers : sched'[s].available \subseteq 0..totalOfAccels(s) - 1
<1>a. /\ sched' = sched => SchedOK
      /\ thread' = thread => thread' \in [Threads -> ThreadStates]
      /\ accel' = accel => accel' \in [Accels -> Registers]
      /\ calls' = calls => calls' \in Values
  BY DEF TypeOK
<1>b. ASSUME SchedOK, thread' \in [Threads -> ThreadStates], accel' \in [Accels -> Registers],
             calls' \in Values
      PROVE  TypeOK'
  <2>1. \A s \in Schedulers : totalOfAccels(s)' = totalOfAccels(s)
    BY DEF totalOfAccels
  <2> QED
    BY <1>b, <2>1 DEF TypeOK
<1>c. fpgaSched \in Schedulers /\ \A f \in Functions : f \in Schedulers /\ f # fpgaSched
  BY DEF fpgaSched, Schedulers, Functions
<1>d. \A t \in Threads : thread[t] \in ThreadStates
  BY DEF TypeOK
<1> HIDE DEF SchedOK
<1>1. ASSUME NEW t \in Threads, Call(t) PROVE TypeOK'
  <2>1. calls' \in Values /\ calls + 1 \in Values
    BY <1>1, PCIeAssumption DEF Call, TypeOK, Values
  <2>2. PICK f \in Functions, pc \in {"try", "wrapper"} :
          thread' = [thread EXCEPT ![t] = [Out EXCEPT !.pc = pc, !.fct = f, !.call = calls + 1]]
    BY <1>1 DEF Call
  <2>3. Out \in ThreadStates
    BY OutType
  <2>4. [Out EXCEPT !.pc = pc, !.fct = f, !.call = calls + 1] \in ThreadStates
    BY <2>1, <2>3 DEF ThreadStates, PCs
  <2>5. thread' \in [Threads -> ThreadStates]
    BY <2>2, <2>4 DEF TypeOK
  <2> QED
    BY <1>1, <1>a, <1>b, <2>1, <2>5 DEF Call
<1>2. ASSUME NEW t \in Threads, WakeUp(t) PROVE TypeOK'
  <2>1. SchedOK
    BY <1>2 DEF WakeUp, TypeOK, SchedOK
  <2> QED
    BY <1>2, <1>a, <1>b, <2>1 DEF WakeUp
<1>3. ASSUME NEW t \in Threads, getAccelIfAvailable(t) PROVE TypeOK'
  <2>1. CASE ~IsFull(fpgaSched)
    <3>1. SchedOK
      BY <1>3, <1>c, <2>1, TakenType DEF getAccelIfAvailable, SchedOK
    <3>2. thread' \in [Threads -> ThreadStates]
      BY <1>3, <1>c, <2>1, GotType DEF getAccelIfAvailable
    <3> QED
      BY <1>3, <1>a, <1>b, <3>1, <3>2 DEF getAccelIfAvailable
  <2>2. CASE IsFull(fpgaSched)
    <3>1. thread' \in [Threads -> ThreadStates]
      BY <1>3, <2>2 DEF getAccelIfAvailable, TypeOK, ThreadStates, PCs
    <3> QED
      BY <1>3, <1>a, <1>b, <2>2, <3>1 DEF getAccelIfAvailable
  <2> QED
    BY <2>1, <2>2
<1>4. ASSUME NEW t \in Threads, getAccel(t) PROVE TypeOK'
  <2>1. PICK s \in Wants(t) : /\ ~IsFull(s)
                              /\ thread' = Got(t, NextAvailable(s))
                              /\ sched' = Taken(s)
                              /\ UNCHANGED <<accel, calls>>
    BY <1>4 DEF getAccel
  <2>2. /\ s \in Schedulers
        /\ thread[t].pc # "wrapper" => s = fpgaSched
        /\ thread[t].pc = "wrapper" => s \in Functions
    BY <1>c, <1>d, <2>1 DEF Wants, ThreadStates
  <2>3. SchedOK
    BY <2>1, <2>2, TakenType DEF SchedOK
  <2>4. thread' \in [Threads -> ThreadStates]
    BY <2>1, <2>2, GotType
  <2> QED
    BY <1>a, <1>b, <2>1, <2>3, <2>4
<1>5. ASSUME NEW t \in Threads, pthread_cond_wait(t) PROVE TypeOK'
  <2>1. PICK s \in Wants(t) : sched' = [sched EXCEPT ![s].waiting = @ \cup {t}]
    BY <1>5 DEF pthread_cond_wait
  <2>2. s \in Schedulers
    BY <1>c, <1>d, <2>1 DEF Wants, ThreadStates
  <2>3. SchedOK
    BY <2>1, <2>2 DEF TypeOK, SchedOK
  <2> QED
    BY <1>5, <1>a, <1>b, <2>3 DEF pthread_cond_wait
<1>6. ASSUME NEW t \in Threads, WriteArg(t) PROVE TypeOK'
  <2>1. accel' \in [Accels -> Registers]
    BY <1>6, <1>d, WriteType DEF WriteArg, ThreadStates
  <2>2. thread' \in [Threads -> ThreadStates]
    <3>1. CASE thread[t].arg = NumArgs
      <4>1. thread' = [thread EXCEPT ![t] = [thread[t] EXCEPT !.pc = "start"]]
        BY <1>6, <3>1 DEF WriteArg, TypeOK
      <4>2. [thread[t] EXCEPT !.pc = "start"] \in ThreadStates
        BY <1>d DEF ThreadStates, PCs
      <4> QED
        BY <4>1, <4>2 DEF TypeOK
    <3>2. CASE thread[t].arg # NumArgs
      <4>1. thread' = [thread EXCEPT ![t] = [thread[t] EXCEPT !.arg = thread[t].arg + 1]]
        BY <1>6, <3>2 DEF WriteArg, TypeOK
      <4>2. thread[t].arg \in Args
        BY <1>d DEF ThreadStates
      <4>3. thread[t].arg + 1 \in Args
        BY <3>2, <4>2, PCIeAssumption DEF Args
      <4>4. [thread[t] EXCEPT !.arg = thread[t].arg + 1] \in ThreadStates
        BY <1>d, <4>3 DEF ThreadStates
      <4> QED
        BY <4>1, <4>4 DEF TypeOK
    <3> QED
      BY <3>1, <3>2
  <2> QED
    BY <1>6, <1>a, <1>b, <2>1, <2>2 DEF WriteArg
<1>7. ASSUME NEW t \in Threads, SendStart(t) PROVE TypeOK'
  <2>1. 1 \in Values
    BY PCIeAssumption DEF Values
  <2>2. accel' \in [Accels -> Registers]
    BY <1>7, <2>1, WriteType DEF SendStart
  <2>3. thread' \in [Threads -> ThreadStates]
    BY <1>7 DEF SendStart, TypeOK, ThreadStates, PCs
  <2> QED
    BY <1>7, <1>a, <1>b, <2>2, <2>3 DEF SendStart
<1>8. ASSUME NEW t \in Threads, Poll(t) PROVE TypeOK'
  <2>1. thread' \in [Threads -> ThreadStates]
    BY <1>8 DEF Poll, TypeOK, ThreadStates, PCs
  <2> QED
    BY <1>8, <1>a, <1>b, <2>1 DEF Poll
<1>9. ASSUME NEW t \in Threads, LoadResult(t) PROVE TypeOK'
  <2> DEFINE result == ReadResult(accelAddr(thread[t].handle))
  <2>1. result \in Results
    BY ResultType
  <2> HIDE DEF result
  <2>2. thread' = [thread EXCEPT ![t] = [thread[t] EXCEPT !.pc = "free", !.result = result]]
    BY <1>9 DEF LoadResult, TypeOK, result
  <2>3. [thread[t] EXCEPT !.pc = "free", !.result = result] \in ThreadStates
    BY <1>d, <2>1 DEF ThreadStates, PCs
  <2>4. thread' \in [Threads -> ThreadStates]
    BY <2>2, <2>3 DEF TypeOK
  <2> QED
    BY <1>9, <1>a, <1>b, <2>4 DEF LoadResult
<1>10. ASSUME NEW t \in Threads, Free(t) PROVE TypeOK'
  <2>1. SchedOK
    BY <1>10, <1>c, <1>d, FreedType DEF Free, SchedOK, ThreadStates
  <2>2. Out \in ThreadStates
    BY OutType
  <2>3. thread' \in [Threads -> ThreadStates]
    BY <1>10, <2>2 DEF Free, TypeOK, ThreadStates, PCs, Handles
  <2> QED
    BY <1>10, <1>a, <1>b, <2>1, <2>3 DEF Free
<1>11. ASSUME NEW t \in Threads, ClientFree(t) PROVE TypeOK'
  <2>1. SchedOK
    BY <1>11, <1>c, FreedType DEF ClientFree, SchedOK
  <2>2. Out \in ThreadStates
    BY OutType
  <2>3. thread' \in [Threads -> ThreadStates]
    BY <1>11, <2>2 DEF ClientFree, TypeOK
  <2> QED
    BY <1>11, <1>a, <1>b, <2>1, <2>3 DEF ClientFree
<1>12. ASSUME NEW a \in Accels, Finish(a) PROVE TypeOK'
  <2>1. [fct |-> a[1], args |-> accel[a].arg] \in Results
    BY DEF TypeOK, Registers, Results, Accels
  <2>2. accel' \in [Accels -> Registers]
    BY <1>12, <2>1 DEF Finish, TypeOK, Registers
  <2> QED
    BY <1>12, <1>a, <1>b, <2>2 DEF Finish
<1>13. CASE UNCHANGED vars
  BY <1>13, <1>a, <1>b DEF vars
<1> QED
  BY <1>1, <1>2, <1>3, <1>4, <1>5, <1>6, <1>7, <1>8, <1>9, <1>10, <1>11, <1>12, <1>13
     DEF Next, Step

-----------------------------------------------------------------------------
(* The invariant.                                                          *)

Busy == {"args", "start", "poll", "load", "free"}

LEMMA ExactEach == SchedulerExact <=> \A s \in Schedulers : Exact(s)
BY DEF SchedulerExact, Exact

LEMMA ExactEachNext == SchedulerExact' <=> \A s \in Schedulers : Exact(s)'
BY DEF SchedulerExact, Exact, Schedulers

LEMMA SufficientNext == SignalsSuffice' <=> \A s \in Schedulers : Sufficient(s)'
BY DEF SignalsSuffice, Schedulers

LEMMA WantsSchedulers ==
  ASSUME TypeOK
  PROVE  /\ fpgaSched \in Schedulers
         /\ \A f \in Functions : f \in Schedulers /\ f # fpgaSched
         /\ \A t \in Threads :
              /\ thread[t].fct \in Functions
              /\ \A s \in Wants(t) :
                    \/ s = fpgaSched /\ thread[t].pc = "client"
                    \/ s = thread[t].fct /\ thread[t].pc = "wrapper"
              /\ thread[t].pc = "client" => Wants(t) = {fpgaSched}
              /\ thread[t].pc = "wrapper" => Wants(t) = {thread[t].fct}
              /\ thread[t].pc \notin {"client", "wrapper"} => Wants(t) = {}
<1>1. \A t \in Threads : thread[t].fct \in Functions
  BY DEF TypeOK, ThreadStates
<1>2. \A f \in Functions : f \in Schedulers /\ f # fpgaSched
  BY DEF fpgaSched, Schedulers, Functions
<1> QED
  BY <1>1, <1>2 DEF Schedulers, Wants

\* A thread that makes a step outside WakeUp sleeps nowhere.
LEMMA ActsAwake ==
  ASSUME TypeOK, SleepersWant, NEW t \in Threads,
         \A s \in Wants(t) : t \notin sched[s].waiting
  PROVE  \A s \in Schedulers : t \notin sched[s].waiting
BY DEF SleepersWant

\* A step of the wrapper or of an accelerator that no scheduler notices.
LEMMA LocalStep ==
  ASSUME IInv, TypeOK', sched' = sched,
         \A u \in Threads :
            /\ thread'[u].fct = thread[u].fct
            /\ thread'[u].client = thread[u].client
            /\ thread'[u].handle = thread[u].handle
            /\ thread'[u].pc = thread[u].pc \/ {thread[u].pc, thread'[u].pc} \subseteq Busy
  PROVE  IInv'
<1> USE DEF IInv
<1>1. \A u \in Threads : Wants(u)' = Wants(u)
  BY DEF Wants, Busy
<1>2. \A s \in Schedulers, u \in Threads : Held(s, u)' = Held(s, u)
  BY DEF Held
<1>3. HasHandle'
  BY DEF HasHandle, Busy
<1>4. SchedulerExact'
  BY <1>2, KeepExact, ExactEach, ExactEachNext
<1>5. SleepersWant'
  BY <1>1 DEF SleepersWant, TypeOK, Schedulers
<1>6. SignalsSuffice'
  <2> SUFFICES ASSUME NEW s \in Schedulers PROVE Sufficient(s)'
    BY SufficientNext
  <2>1. Awake(s) \subseteq Awake(s)'
    BY <1>1 DEF Awake
  <2>2. Sufficient(s) /\ sched[s].used \in Int
    BY DEF SignalsSuffice, TypeOK
  <2> QED
    BY <2>1, <2>2, KeepSufficient
<1> QED
  BY <1>3, <1>4, <1>5, <1>6

\* A thread whose step takes or gives back nothing and puts nobody to sleep:
\* it may come to want a scheduler.
LEMMA ArriveStep ==
  ASSUME IInv, TypeOK', sched' = sched, NEW t \in Threads,
         \A u \in Threads \ {t} : thread'[u] = thread[u],
         thread[t].pc \in {"out", "try"},
         thread'[t].pc \in {"try", "client", "wrapper"},
         thread'[t].client = INVALID_HANDLE, thread'[t].handle = INVALID_HANDLE
  PROVE  IInv'
<1> USE DEF IInv
<1>1. \A u \in Threads : Wants(u) \subseteq Wants(u)'
  BY WantsSchedulers DEF Wants
<1>2. \A s \in Schedulers, u \in Threads : Held(s, u)' = Held(s, u)
  <2>1. thread[t].client = INVALID_HANDLE /\ thread[t].handle = INVALID_HANDLE
    BY DEF HasHandle
  <2> QED
    BY <2>1 DEF Held
<1>3. HasHandle'
  BY DEF HasHandle
<1>4. SchedulerExact'
  BY <1>2, KeepExact, ExactEach, ExactEachNext
<1>5. SleepersWant'
  BY <1>1 DEF SleepersWant, TypeOK, Schedulers
<1>6. SignalsSuffice'
  <2> SUFFICES ASSUME NEW s \in Schedulers PROVE Sufficient(s)'
    BY SufficientNext
  <2>1. Awake(s) \subseteq Awake(s)'
    BY <1>1 DEF Awake
  <2>2. Sufficient(s) /\ sched[s].used \in Int
    BY DEF SignalsSuffice, TypeOK
  <2> QED
    BY <2>1, <2>2, KeepSufficient
<1> QED
  BY <1>3, <1>4, <1>5, <1>6

\* A thread falls asleep where no handle is left.
LEMMA SleepStep ==
  ASSUME IInv, TypeOK', NEW t \in Threads, pthread_cond_wait(t)
  PROVE  IInv'
<1> USE DEF IInv
<1>1. PICK s \in Wants(t) : IsFull(s) /\ sched' = [sched EXCEPT ![s].waiting = @ \cup {t}]
  BY DEF pthread_cond_wait
<1>2. thread' = thread /\ s \in Schedulers
  <2>1. thread' = thread
    BY DEF pthread_cond_wait
  <2>2. thread[t].pc \in {"client", "wrapper"} /\ thread[t].fct \in Schedulers
    BY <1>1, WantsSchedulers
  <2> QED
    BY <1>1, <2>1, <2>2, WantsSchedulers
<1>3. \A u \in Threads : Wants(u)' = Wants(u)
  BY <1>2 DEF Wants
<1>4. \A x \in Schedulers :
        /\ sched'[x].available = sched[x].available
        /\ sched'[x].used = sched[x].used
        /\ sched'[x].waiting = IF x = s THEN sched[x].waiting \cup {t} ELSE sched[x].waiting
  BY <1>1, <1>2 DEF TypeOK
<1>5. \A x \in Schedulers, u \in Threads : Held(x, u)' = Held(x, u)
  BY <1>2 DEF Held
<1>6. HasHandle'
  BY <1>2 DEF HasHandle
<1>7. SchedulerExact'
  BY <1>4, <1>5, KeepExact, ExactEach, ExactEachNext
<1>8. SleepersWant'
  BY <1>1, <1>3, <1>4 DEF SleepersWant, TypeOK, Schedulers
<1>9. SignalsSuffice'
  <2> SUFFICES ASSUME NEW x \in Schedulers PROVE Sufficient(x)'
    BY SufficientNext
  <2>1. Sufficient(x) /\ sched[x].used \in Int
    BY DEF SignalsSuffice, TypeOK
  <2>2. CASE x = s
    <3>1. sched'[x].used >= totalOfAccels(x)'
      BY <1>1, <1>4, <2>2 DEF IsFull, totalOfAccels
    <3>2. totalOfAccels(x)' \in Int /\ sched'[x].used \in Int
      <4>1. totalOfAccels(x)' = totalOfAccels(x)
        BY DEF totalOfAccels
      <4>2. sched'[x].used \in Int
        BY <1>2 DEF TypeOK, Schedulers
      <4> QED
        BY <4>1, <4>2, TotalType
    <3>3. Cardinality(Awake(x)') \in Nat
      BY AwakeCount
    <3>4. Cardinality(Awake(x)') + sched'[x].used >= totalOfAccels(x)'
      BY <3>1, <3>2, <3>3
    <3> QED
      BY <3>4 DEF Sufficient
  <2>3. CASE x # s
    <3>1. Awake(x) \subseteq Awake(x)'
      BY <1>3, <1>4, <2>3 DEF Awake
    <3>2. sched'[x].used = sched[x].used /\ sched'[x].waiting = sched[x].waiting
      BY <1>4, <2>3
    <3> QED
      BY <2>1, <3>1, <3>2, KeepSufficient
  <2> QED
    BY <2>2, <2>3
<1> QED
  BY <1>6, <1>7, <1>8, <1>9

LEMMA WakeStep ==
  ASSUME IInv, TypeOK', NEW t \in Threads, WakeUp(t)
  PROVE  IInv'
<1> USE DEF IInv
<1>1. PICK s \in Schedulers : sched' = [sched EXCEPT ![s].waiting = @ \ {t}]
  BY DEF WakeUp
<1>2. thread' = thread
  BY DEF WakeUp
<1>3. \A u \in Threads : Wants(u)' = Wants(u)
  BY <1>2 DEF Wants
<1>4. \A x \in Schedulers :
        /\ sched'[x].available = sched[x].available
        /\ sched'[x].used = sched[x].used
        /\ sched'[x].waiting \subseteq sched[x].waiting
  BY <1>1 DEF TypeOK
<1>5. \A x \in Schedulers, u \in Threads : Held(x, u)' = Held(x, u)
  BY <1>2 DEF Held
<1>6. HasHandle'
  BY <1>2 DEF HasHandle
<1>7. SchedulerExact'
  BY <1>4, <1>5, KeepExact, ExactEach, ExactEachNext
<1>8. SleepersWant'
  BY <1>3, <1>4 DEF SleepersWant, TypeOK, Schedulers
<1>9. SignalsSuffice'
  <2> SUFFICES ASSUME NEW x \in Schedulers PROVE Sufficient(x)'
    BY SufficientNext
  <2>1. Sufficient(x) /\ sched[x].used \in Int
    BY DEF SignalsSuffice, TypeOK
  <2>2. Awake(x) \subseteq Awake(x)'
    BY <1>3, <1>4 DEF Awake
  <2> QED
    BY <1>4, <2>1, <2>2, KeepSufficient
<1> QED
  BY <1>6, <1>7, <1>8, <1>9

\* A thread that is awake takes the next handle of scheduler s.
LEMMA TakeStep ==
  ASSUME IInv, TypeOK', NEW t \in Threads, NEW s \in Schedulers,
         \/ s = fpgaSched /\ thread[t].pc \in {"try", "client"}
         \/ s = thread[t].fct /\ thread[t].pc = "wrapper",
         t \notin sched[s].waiting, ~IsFull(s),
         thread' = Got(t, NextAvailable(s)), sched' = Taken(s)
  PROVE  IInv'
<1> USE DEF IInv
<1> DEFINE h == NextAvailable(s)
<1>1. h \in Nat \ sched[s].available /\ h # INVALID_HANDLE
  BY NextIsFree, TotalType DEF INVALID_HANDLE
<1> HIDE DEF h
<1>2. thread' = Got(t, h)
  BY DEF h
<1>3. \A x \in Schedulers :
        /\ sched'[x].available = IF x = s THEN sched[x].available \cup {h} ELSE sched[x].available
        /\ sched'[x].used = IF x = s THEN sched[x].used + 1 ELSE sched[x].used
        /\ sched'[x].waiting = sched[x].waiting
  BY DEF Taken, TypeOK, h
<1>4. /\ \A u \in Threads \ {t} : thread'[u] = thread[u]
      /\ thread'[t].fct = thread[t].fct
      /\ thread[t].pc = "wrapper" => /\ thread'[t].pc = "args" /\ thread'[t].handle = h
                                     /\ thread'[t].client = thread[t].client
      /\ thread[t].pc # "wrapper" => /\ thread'[t].pc = "wrapper" /\ thread'[t].client = h
                                     /\ thread'[t].handle = thread[t].handle
  BY <1>2 DEF Got, TypeOK, ThreadStates
<1>5. /\ thread[t].handle = INVALID_HANDLE
      /\ thread[t].pc # "wrapper" => thread[t].client = INVALID_HANDLE
  BY DEF HasHandle
<1>6. /\ Held(s, t) = INVALID_HANDLE /\ Held(s, t)' = h
      /\ \A x \in Schedulers, u \in Threads : x # s \/ u # t => Held(x, u)' = Held(x, u)
  <2>1. \A x \in Schedulers, u \in Threads \ {t} : Held(x, u)' = Held(x, u)
    BY <1>4 DEF Held
  <2>2. CASE s = fpgaSched /\ thread[t].pc \in {"try", "client"}
    <3>1. Held(s, t) = INVALID_HANDLE /\ Held(s, t)' = h
      BY <1>4, <1>5, <2>2 DEF Held
    <3>2. \A x \in Schedulers \ {s} : Held(x, t)' = Held(x, t)
      BY <1>4, <1>5, <2>2 DEF Held
    <3> QED
      BY <2>1, <3>1, <3>2
  <2>3. CASE s = thread[t].fct /\ thread[t].pc = "wrapper"
    <3>1. s # fpgaSched
      BY <2>3, WantsSchedulers
    <3>2. Held(s, t) = INVALID_HANDLE /\ Held(s, t)' = h
      BY <1>4, <1>5, <2>3, <3>1 DEF Held
    <3>3. \A x \in Schedulers \ {s} : Held(x, t)' = Held(x, t)
      BY <1>4, <2>3 DEF Held
    <3> QED
      BY <2>1, <3>2, <3>3
  <2> QED
    BY <2>2, <2>3
<1>7. /\ \A u \in Threads \ {t} : Wants(u)' = Wants(u)
      /\ \A x \in Wants(t) : x = s
  <2>1. \A u \in Threads \ {t} : Wants(u)' = Wants(u)
    BY <1>4 DEF Wants
  <2>2. \A x \in Wants(t) : x = s
    BY WantsSchedulers
  <2> QED
    BY <2>1, <2>2
<1>8. \A x \in Schedulers : t \notin sched[x].waiting
  BY <1>7, ActsAwake
<1>9. HasHandle'
  BY <1>1, <1>4, <1>5 DEF HasHandle
<1>10. SchedulerExact'
  <2> SUFFICES ASSUME NEW x \in Schedulers PROVE Exact(x)'
    BY ExactEachNext
  <2>1. CASE x = s
    BY <1>1, <1>3, <1>6, <2>1, AcquireExact, ExactEach
  <2>2. CASE x # s
    BY <1>3, <1>6, <2>2, KeepExact, ExactEach
  <2> QED
    BY <2>1, <2>2
<1>11. SleepersWant'
  <2> SUFFICES ASSUME NEW x \in Schedulers, NEW u \in sched[x].waiting PROVE x \in Wants(u)'
    BY <1>3 DEF SleepersWant, Schedulers
  <2>1. u \in Threads \ {t} /\ x \in Wants(u)
    BY <1>8 DEF SleepersWant, TypeOK
  <2> QED
    BY <1>7, <2>1
<1>12. SignalsSuffice'
  <2> SUFFICES ASSUME NEW x \in Schedulers PROVE Sufficient(x)'
    BY SufficientNext
  <2>1. Sufficient(x) /\ sched[x].used \in Int
    BY DEF SignalsSuffice, TypeOK
  <2>2. Awake(x) \ {t} \subseteq Awake(x)'
    BY <1>3, <1>7 DEF Awake
  <2>3. CASE x = s
    BY <1>3, <2>1, <2>2, <2>3, TakeSufficient
  <2>4. CASE x # s
    <3>1. Awake(x) \subseteq Awake(x)'
      BY <1>3, <1>7, <2>4 DEF Awake
    <3>2. sched'[x].used = sched[x].used /\ sched'[x].waiting = sched[x].waiting
      BY <1>3, <2>4
    <3> QED
      BY <2>1, <3>1, <3>2, KeepSufficient
  <2> QED
    BY <2>3, <2>4
<1> QED
  BY <1>9, <1>10, <1>11, <1>12

\* A thread gives its handle of scheduler s back and keeps the other one.
LEMMA FreeStep ==
  ASSUME IInv, TypeOK', HasHandle', NEW t \in Threads, NEW s \in Schedulers, NEW h,
         Held(s, t) = h, h # INVALID_HANDLE, freeAccel(s, h),
         Held(s, t)' = INVALID_HANDLE,
         \A x \in Schedulers \ {s} : Held(x, t)' = Held(x, t),
         \A u \in Threads \ {t} : thread'[u] = thread[u],
         Wants(t) = {}
  PROVE  IInv'
<1> USE DEF IInv
<1>1. PICK woken \in SUBSET sched[s].waiting :
        /\ Cardinality(woken) = Min({1, Cardinality(sched[s].waiting)})
        /\ sched' = [sched EXCEPT ![s].available = @ \ {h}, ![s].used = @ - 1,
                                  ![s].waiting = @ \ woken]
  BY DEF freeAccel
<1>2. \A x \in Schedulers :
        /\ x = s => /\ sched'[x].available = sched[x].available \ {h}
                    /\ sched'[x].used = sched[x].used - 1
                    /\ sched'[x].waiting = sched[x].waiting \ woken
        /\ x # s => sched'[x] = sched[x]
  BY <1>1 DEF TypeOK
<1>3. \A x \in Schedulers, u \in Threads \ {t} : Held(x, u)' = Held(x, u)
  BY DEF Held
<1>4. \A x \in Schedulers : t \notin sched[x].waiting
  BY ActsAwake
<1>5. \A u \in Threads \ {t} : Wants(u)' = Wants(u)
  BY DEF Wants
<1>6. SchedulerExact'
  <2> SUFFICES ASSUME NEW x \in Schedulers PROVE Exact(x)'
    BY ExactEachNext
  <2>1. CASE x = s
    <3>1. t \in Holders(s)
      BY DEF Holders
    <3> QED
      BY <1>2, <1>3, <2>1, <3>1, ReleaseExact, ExactEach
  <2>2. CASE x # s
    <3>1. \A u \in Threads : Held(x, u)' = Held(x, u)
      BY <1>3, <2>2
    <3> QED
      BY <1>2, <2>2, <3>1, KeepExact, ExactEach
  <2> QED
    BY <2>1, <2>2
<1>7. SleepersWant'
  <2> SUFFICES ASSUME NEW x \in Schedulers, NEW u \in sched'[x].waiting PROVE x \in Wants(u)'
    BY DEF SleepersWant, Schedulers
  <2>1. u \in sched[x].waiting
    BY <1>2
  <2>2. u \in Threads \ {t} /\ x \in Wants(u)
    BY <1>4, <2>1 DEF SleepersWant, TypeOK
  <2> QED
    BY <1>5, <2>2
<1>8. SignalsSuffice'
  <2> SUFFICES ASSUME NEW x \in Schedulers PROVE Sufficient(x)'
    BY SufficientNext
  <2>1. Sufficient(x) /\ sched[x].used \in Int
    BY DEF SignalsSuffice, TypeOK
  <2>2. sched[x].waiting \subseteq Threads
    BY DEF TypeOK
  <2>3. CASE x = s
    <3>1. Awake(x) \cup woken \subseteq Awake(x)'
      <4>1. \A u \in Awake(x) : u \in Threads \ {t} /\ x \in Wants(u)
        BY DEF Awake
      <4>2. \A u \in woken : u \in Threads \ {t} /\ x \in Wants(u)
        BY <1>4, <2>2, <2>3 DEF SleepersWant
      <4> QED
        BY <1>2, <1>5, <2>3, <4>1, <4>2 DEF Awake
    <3> QED
      BY <1>1, <1>2, <2>1, <2>3, <3>1, FreeSufficient
  <2>4. CASE x # s
    <3>1. Awake(x) \subseteq Awake(x)'
      BY <1>2, <1>5, <2>4 DEF Awake
    <3> QED
      BY <1>2, <2>1, <2>4, <3>1, KeepSufficient
  <2> QED
    BY <2>3, <2>4
<1> QED
  BY <1>6, <1>7, <1>8

LEMMA InvInit == Init => IInv
<1> SUFFICES ASSUME Init PROVE IInv
  OBVIOUS
<1>1. TypeOK
  BY TypeInit
<1>2. \A t \in Threads : thread[t] = Out
  BY DEF Init
<1>3. \A s \in Schedulers : sched[s] = [available |-> {}, used |-> 0, waiting |-> {}]
  BY DEF Init
<1>4. HasHandle
  BY <1>2 DEF HasHandle, Out
<1>5. SchedulerExact
  <2>1. \A s \in Schedulers : Holders(s) = {}
    BY <1>2 DEF Holders, Held, Out
  <2> QED
    BY <1>3, <2>1, FS_EmptySet DEF SchedulerExact
<1>6. SleepersWant /\ SignalsSuffice
  BY <1>3 DEF SleepersWant, SignalsSuffice, Sufficient
<1> QED
  BY <1>1, <1>4, <1>5, <1>6 DEF IInv

LEMMA InvNext == IInv /\ [Next]_vars => IInv'
<1> SUFFICES ASSUME IInv, [Next]_vars PROVE IInv'
  OBVIOUS
<1>a. TypeOK'
  BY TypeNext DEF IInv
<1>b. /\ thread \in [Threads -> ThreadStates]
      /\ TypeOK /\ HasHandle /\ SleepersWant
  BY DEF IInv, TypeOK, ThreadStates
<1>1. ASSUME NEW t \in Threads, Call(t) PROVE IInv'
  <2>1. PICK f \in Functions, pc \in {"try", "wrapper"} :
          thread' = [thread EXCEPT ![t] = [Out EXCEPT !.pc = pc, !.fct = f, !.call = calls + 1]]
    BY <1>1 DEF Call
  <2>2. /\ thread'[t].pc = pc
        /\ thread'[t].client = INVALID_HANDLE /\ thread'[t].handle = INVALID_HANDLE
    BY <1>b, <2>1 DEF Out
  <2> QED
    BY <1>1, <1>a, <1>b, <2>1, <2>2, ArriveStep DEF Call
<1>2. ASSUME NEW t \in Threads, WakeUp(t) PROVE IInv'
  BY <1>2, <1>a, WakeStep
<1>3. ASSUME NEW t \in Threads, getAccelIfAvailable(t) PROVE IInv'
  <2>1. thread[t].pc = "try" /\ fpgaSched \in Schedulers
    BY <1>3, <1>b, WantsSchedulers DEF getAccelIfAvailable
  <2>2. CASE ~IsFull(fpgaSched)
    <3>1. t \notin sched[fpgaSched].waiting
      BY <1>b, <2>1, WantsSchedulers, ActsAwake
    <3> QED
      BY <1>3, <1>a, <2>1, <2>2, <3>1, TakeStep DEF getAccelIfAvailable
  <2>3. CASE IsFull(fpgaSched)
    <3>1. /\ thread' = [thread EXCEPT ![t].pc = "client"]
          /\ sched' = sched
      BY <1>3, <2>3 DEF getAccelIfAvailable
    <3>2. thread[t].client = INVALID_HANDLE /\ thread[t].handle = INVALID_HANDLE
      BY <1>b, <2>1 DEF HasHandle
    <3>3. /\ thread'[t].pc = "client"
          /\ thread'[t].client = INVALID_HANDLE /\ thread'[t].handle = INVALID_HANDLE
      BY <1>b, <3>1, <3>2 DEF ThreadStates
    <3> QED
      BY <1>a, <1>b, <2>1, <3>1, <3>3, ArriveStep
  <2> QED
    BY <2>2, <2>3
<1>4. ASSUME NEW t \in Threads, getAccel(t) PROVE IInv'
  <2>1. PICK s \in Wants(t) : /\ t \notin sched[s].waiting /\ ~IsFull(s)
                              /\ thread' = Got(t, NextAvailable(s)) /\ sched' = Taken(s)
    BY <1>4 DEF getAccel
  <2>2. \/ s = fpgaSched /\ thread[t].pc = "client"
        \/ s = thread[t].fct /\ thread[t].pc = "wrapper"
    BY <1>b, WantsSchedulers
  <2>3. s \in Schedulers
    BY <1>b, <2>2, WantsSchedulers
  <2> QED
    BY <1>a, <2>1, <2>2, <2>3, TakeStep
<1>5. ASSUME NEW t \in Threads, pthread_cond_wait(t) PROVE IInv'
  BY <1>5, <1>a, SleepStep
<1>6. ASSUME NEW t \in Threads, WriteArg(t) \/ SendStart(t) \/ Poll(t) \/ LoadResult(t)
      PROVE  IInv'
  <2>1. sched' = sched
    BY <1>6 DEF WriteArg, SendStart, Poll, LoadResult
  <2>2. \A u \in Threads :
          /\ thread'[u].fct = thread[u].fct
          /\ thread'[u].client = thread[u].client
          /\ thread'[u].handle = thread[u].handle
          /\ thread'[u].pc = thread[u].pc \/ {thread[u].pc, thread'[u].pc} \subseteq Busy
    BY <1>6, <1>b DEF WriteArg, SendStart, Poll, LoadResult, ThreadStates, Busy
  <2> QED
    BY <1>a, <2>1, <2>2, LocalStep
<1>7. ASSUME NEW t \in Threads, Free(t) PROVE IInv'
  <2>0. PICK s \in Functions, h \in Handles : s = thread[t].fct /\ h = thread[t].handle
    BY <1>b DEF ThreadStates
  <2>1. /\ freeAccel(s, h) /\ thread[t].pc = "free"
        /\ thread' = IF thread[t].client = INVALID_HANDLE THEN [thread EXCEPT ![t] = Out]
                     ELSE [thread EXCEPT ![t].pc = "clientFree", ![t].handle = INVALID_HANDLE]
    BY <1>7, <2>0 DEF Free
  <2>2. /\ s \in Schedulers /\ s # fpgaSched /\ Wants(t) = {}
    BY <1>b, <2>0, <2>1, WantsSchedulers
  <2>3. h # INVALID_HANDLE /\ Held(s, t) = h
    BY <1>b, <2>0, <2>1, <2>2 DEF HasHandle, Held
  <2>4. /\ thread'[t].handle = INVALID_HANDLE /\ thread'[t].client = thread[t].client
        /\ thread'[t].pc = IF thread[t].client = INVALID_HANDLE THEN "out" ELSE "clientFree"
        /\ \A u \in Threads \ {t} : thread'[u] = thread[u]
    BY <1>b, <2>1 DEF Out, ThreadStates
  <2>5. HasHandle'
    BY <1>b, <2>4 DEF HasHandle
  <2>6. Held(s, t)' = INVALID_HANDLE
    BY <2>2, <2>4 DEF Held
  <2>7. \A x \in Schedulers \ {s} : Held(x, t)' = Held(x, t)
    BY <2>0, <2>1, <2>4 DEF Held, Out
  <2> QED
    BY <1>a, <2>1, <2>2, <2>3, <2>4, <2>5, <2>6, <2>7, FreeStep
<1>8. ASSUME NEW t \in Threads, ClientFree(t) PROVE IInv'
  <2>1. /\ freeAccel(fpgaSched, thread[t].client) /\ thread[t].pc = "clientFree"
        /\ thread' = [thread EXCEPT ![t] = Out]
    BY <1>8 DEF ClientFree
  <2>2. fpgaSched \in Schedulers /\ Wants(t) = {}
    BY <1>b, <2>1, WantsSchedulers
  <2>3. /\ thread[t].client # INVALID_HANDLE /\ Held(fpgaSched, t) = thread[t].client
        /\ thread[t].handle = INVALID_HANDLE
    BY <1>b, <2>1 DEF HasHandle, Held
  <2>4. /\ thread'[t] = Out
        /\ \A u \in Threads \ {t} : thread'[u] = thread[u]
    BY <1>b, <2>1
  <2>5. HasHandle'
    BY <1>b, <2>4 DEF HasHandle, Out
  <2>6. Held(fpgaSched, t)' = INVALID_HANDLE
    BY <2>4 DEF Held, Out
  <2>7. \A x \in Schedulers \ {fpgaSched} : Held(x, t)' = Held(x, t)
    BY <2>3, <2>4 DEF Held, Out
  <2> QED
    BY <1>a, <2>1, <2>2, <2>3, <2>4, <2>5, <2>6, <2>7, FreeStep
<1>9. ASSUME NEW a \in Accels, Finish(a) PROVE IInv'
  BY <1>9, <1>a, LocalStep DEF Finish
<1>10. CASE UNCHANGED vars
  BY <1>10, <1>a, LocalStep DEF vars
<1> QED
  BY <1>1, <1>2, <1>3, <1>4, <1>5, <1>6, <1>7, <1>8, <1>9, <1>10 DEF Next, Step

-----------------------------------------------------------------------------
(* Whose accelerator is in which stage of a call.                          *)

Uses(t) == thread[t].pc \in Busy
Mine(t) == <<thread[t].fct, thread[t].handle>>
Own(th) == [fct |-> th.fct, args |-> [i \in Args |-> th.call]]

\* Between two calls an accelerator has no arguments and does not run.
Quiet(r) == r.ready = {} /\ ~r.running

\* The registers r of the accelerator that a thread in state th uses.
Stage(th, r) ==
    /\ th.pc = "args" =>
        /\ r.ready = 1..th.arg - 1 /\ ~r.running
        /\ \A i \in 1..th.arg - 1 : r.arg[i] = th.call
    /\ th.pc = "start" => r.ready = Args /\ ~r.running
    /\ th.pc \in {"start", "poll"} => \A i \in Args : r.arg[i] = th.call
    /\ th.pc = "poll" => r.ready = {} /\ r.running = ~r.done
    /\ th.pc \in {"load", "free"} => Quiet(r)
    /\ th.pc = "load" => r.done
    /\ th.pc \in {"poll", "load"} /\ r.done => r.return_val = Own(th)

CallInv ==
    /\ \A t \in Threads : Uses(t) => Stage(thread[t], accel[Mine(t)])
    /\ \A a \in Accels : (\A t \in Threads : Uses(t) => Mine(t) # a) => Quiet(accel[a])
    /\ ResultOfOwnCall

\* One accelerated function whose argument count gives its accelerators the
\* distance that the wrapper assumes; AddressSize is 32 for 2 to 5 arguments.
FixedDistance == NumFcts = 1 /\ NumArgs <= 5 /\ AddressSize = 32

\* An address of the wrapper reaches the register it means, in the accelerator
\* of its handle and in no other.
LEMMA AddressReaches ==
  ASSUME FixedDistance, NEW a \in Accels, NEW h \in 0..NumAccelerated - 1
  PROVE  /\ Register(a, accelAddr(h)) = IF a = <<1, h>> THEN 0 ELSE -1
         /\ Register(a, statusAddr(h)) = IF a = <<1, h>> THEN 2 ELSE -1
         /\ \A i \in Args : Register(a, paramAddr(h, i)) = IF a = <<1, h>> THEN i + 2 ELSE -1
<1>1. a[1] = 1 /\ a[2] \in 0..NumAccelerated - 1 /\ a = <<1, a[2]>>
  BY DEF Accels, Functions, FixedDistance
<1>2. NumAccelerated \in Nat /\ NumArgs \in Nat
  BY PCIeAssumption
<1>3. baseAddress(a) = a[2] * 32
  BY <1>1, <1>2 DEF baseAddress, FixedDistance
<1>4. a = <<1, h>> <=> a[2] = h
  BY <1>1
<1> DEFINE k == a[2]
<1>5. k \in Int /\ h \in Int /\ AddressSize = 32
  BY <1>1, <1>2 DEF FixedDistance
<1> HIDE DEF k
<1>6. ASSUME NEW offset \in 0..31
      PROVE  Register(a, h * 32 + offset) = IF a = <<1, h>> THEN offset \div 4 ELSE -1
  <2>1. Register(a, h * 32 + offset) =
          IF k * 32 <= h * 32 + offset /\ h * 32 + offset < k * 32 + 32
          THEN (h * 32 + offset - k * 32) \div 4 ELSE -1
    BY <1>3, <1>5 DEF Register, k
  <2>2. CASE k = h
    <3>1. h * 32 + offset - k * 32 = offset
      BY <1>5, <2>2
    <3> QED
      BY <1>4, <1>5, <2>1, <2>2, <3>1 DEF k
  <2>3. CASE k < h
    BY <1>4, <1>5, <2>1, <2>3 DEF k
  <2>4. CASE k > h
    BY <1>4, <1>5, <2>1, <2>4 DEF k
  <2> QED
    BY <1>5, <2>2, <2>3, <2>4
<1>7. Register(a, accelAddr(h)) = IF a = <<1, h>> THEN 0 ELSE -1
  <2>1. accelAddr(h) = h * 32 + 0 /\ 0 \div 4 = 0
    BY <1>5 DEF accelAddr
  <2> QED
    BY <1>6, <2>1
<1>8. Register(a, statusAddr(h)) = IF a = <<1, h>> THEN 2 ELSE -1
  <2>1. statusAddr(h) = h * 32 + 8 /\ 8 \div 4 = 2
    BY <1>5 DEF accelAddr, statusAddr
  <2> QED
    BY <1>6, <2>1
<1>9. ASSUME NEW i \in Args
      PROVE  Register(a, paramAddr(h, i)) = IF a = <<1, h>> THEN i + 2 ELSE -1
  <2>1. i \in 1..5
    BY <1>2 DEF Args, FixedDistance
  <2>2. paramAddr(h, i) = h * 32 + (8 + 4 * i) /\ 8 + 4 * i \in 0..31 /\ (8 + 4 * i) \div 4 = i + 2
    BY <1>5, <2>1 DEF accelAddr, paramAddr
  <2> QED
    BY <1>6, <2>2
<1> QED
  BY <1>7, <1>8, <1>9

\* Nobody shares the accelerator of a call.
LEMMA MineOnly ==
  ASSUME FixedDistance, TypeOK, HasHandle, SchedulerExact, NEW t \in Threads, Uses(t)
  PROVE  /\ thread[t].fct = 1 /\ thread[t].handle \in 0..NumAccelerated - 1
         /\ Mine(t) \in Accels
         /\ \A u \in Threads : Uses(u) /\ Mine(u) = Mine(t) => u = t
<1>1. \A u \in Threads : thread[u].fct = 1 /\ thread[u].handle \in Handles
  BY DEF TypeOK, ThreadStates, Functions, FixedDistance
<1>2. \A u \in Threads : Uses(u) => thread[u].handle # INVALID_HANDLE
  BY DEF Uses, Busy, HasHandle
<1>3. thread[t].handle \in 0..NumAccelerated - 1
  BY <1>1, <1>2 DEF Handles
<1>4. Mine(t) \in Accels
  BY <1>1, <1>3 DEF Mine, Accels, Functions, FixedDistance
<1>5. ASSUME NEW u \in Threads, Uses(u), Mine(u) = Mine(t) PROVE u = t
  <2>1. thread[u].handle = thread[t].handle
    BY <1>5 DEF Mine
  <2>2. 1 \in Schedulers /\ 1 # fpgaSched
    BY DEF Schedulers, Functions, FixedDistance, fpgaSched
  <2>3. u \in Holders(1) /\ t \in Holders(1) /\ Held(1, u) = Held(1, t)
    BY <1>1, <1>2, <1>5, <2>1, <2>2 DEF Holders, Held
  <2> QED
    BY <2>2, <2>3 DEF SchedulerExact
<1> QED
  BY <1>1, <1>3, <1>4, <1>5

\* A step of one thread that touches at most its own accelerator.
LEMMA CallStep ==
  ASSUME FixedDistance, IInv, CallInv, NEW t \in Threads,
         \A u \in Threads \ {t} : thread'[u] = thread[u],
         \A a \in Accels : accel'[a] = accel[a] \/ (Uses(t) /\ Uses(t)' /\ a = Mine(t)),
         Uses(t) /\ Uses(t)' => Mine(t)' = Mine(t),
         Uses(t)' => /\ Mine(t)' \in Accels
                     /\ Stage(thread'[t], accel'[Mine(t)'])
                     /\ \A u \in Threads \ {t} : Uses(u) => Mine(u) # Mine(t)',
         Uses(t) /\ ~Uses(t)' => Quiet(accel[Mine(t)]),
         thread'[t].pc \in {"free", "clientFree"} => thread'[t].result = Own(thread'[t])
  PROVE  CallInv'
<1>1. \A u \in Threads \ {t} : (Uses(u)' <=> Uses(u)) /\ Mine(u)' = Mine(u)
  BY DEF Uses, Mine
<1>2. \A u \in Threads : Uses(u) => Mine(u) \in Accels
  BY MineOnly DEF IInv
<1>3. \A u \in Threads \ {t} : Uses(u) /\ Uses(t) => Mine(u) # Mine(t)
  BY MineOnly DEF IInv
<1>4. ASSUME NEW u \in Threads, Uses(u)' PROVE Stage(thread[u], accel[Mine(u)])'
  <2>1. CASE u = t
    BY <1>4, <2>1
  <2>2. CASE u # t
    <3>1. Uses(u) /\ Stage(thread[u], accel[Mine(u)]) /\ Mine(u)' = Mine(u)
      BY <1>1, <1>4, <2>2 DEF CallInv
    <3>2. accel'[Mine(u)] = accel[Mine(u)]
      BY <1>2, <1>3, <2>2, <3>1
    <3> QED
      BY <2>2, <3>1, <3>2
  <2> QED
    BY <2>1, <2>2
<1>5. ASSUME NEW a \in Accels, \A u \in Threads : Uses(u)' => Mine(u)' # a
      PROVE  Quiet(accel'[a])
  <2>1. accel'[a] = accel[a]
    BY <1>5
  <2>2. \A u \in Threads \ {t} : Uses(u) => Mine(u) # a
    BY <1>1, <1>5
  <2>3. CASE Uses(t) /\ Mine(t) = a
    BY <1>5, <2>1, <2>3
  <2>4. CASE ~(Uses(t) /\ Mine(t) = a)
    BY <2>1, <2>2, <2>4 DEF CallInv
  <2> QED
    BY <2>3, <2>4
<1>6. ResultOfOwnCall'
  BY DEF ResultOfOwnCall, CallInv, Own
<1> QED
  BY <1>4, <1>5, <1>6 DEF CallInv

\* What a write of a using thread does to the accelerators.
LEMMA WritesMine ==
  ASSUME FixedDistance, IInv, NEW t \in Threads, Uses(t)
  PROVE  /\ pcie_write(statusAddr(thread[t].handle), 1) =>
              /\ accel'[Mine(t)] = IF accel[Mine(t)].ready = Args THEN Started(accel[Mine(t)])
                                   ELSE accel[Mine(t)]
              /\ \A a \in Accels \ {Mine(t)} : accel'[a] = accel[a]
         /\ \A i \in Args : \A v : pcie_write(paramAddr(thread[t].handle, i), v) =>
              /\ accel'[Mine(t)] = [accel[Mine(t)] EXCEPT !.arg[i] = v, !.ready = @ \cup {i}]
              /\ \A a \in Accels \ {Mine(t)} : accel'[a] = accel[a]
<1> DEFINE h == thread[t].handle
<1>1. h \in 0..NumAccelerated - 1 /\ Mine(t) = <<1, h>> /\ Mine(t) \in Accels
  BY MineOnly DEF IInv, Mine
<1>2. \A i \in Args : i + 2 # 2 /\ (i + 2) - 2 = i /\ i \in Int
  BY PCIeAssumption DEF Args
<1>3. 2 - 2 \notin Args /\ -1 - 2 \notin Args
  BY PCIeAssumption DEF Args
<1>4. \A r, v : /\ Written(r, -1, v) = r
               /\ Written(r, 2, 1) = IF r.ready = Args THEN Started(r) ELSE r
  BY <1>3 DEF Written
<1>5. ASSUME NEW r, NEW v, NEW i \in Args
      PROVE  Written(r, i + 2, v) = [r EXCEPT !.arg[i] = v, !.ready = @ \cup {i}]
  BY <1>2 DEF Written
<1>6. ASSUME pcie_write(statusAddr(h), 1)
      PROVE  /\ accel'[Mine(t)] = IF accel[Mine(t)].ready = Args THEN Started(accel[Mine(t)])
                                  ELSE accel[Mine(t)]
             /\ \A a \in Accels \ {Mine(t)} : accel'[a] = accel[a]
  <2>1. \A a \in Accels : accel'[a] = Written(accel[a], Register(a, statusAddr(h)), 1)
    BY <1>6 DEF pcie_write
  <2>2. \A a \in Accels : Register(a, statusAddr(h)) = IF a = Mine(t) THEN 2 ELSE -1
    BY <1>1, AddressReaches
  <2> QED
    BY <1>1, <1>4, <2>1, <2>2
<1>7. ASSUME NEW i \in Args, NEW v, pcie_write(paramAddr(h, i), v)
      PROVE  /\ accel'[Mine(t)] = [accel[Mine(t)] EXCEPT !.arg[i] = v, !.ready = @ \cup {i}]
             /\ \A a \in Accels \ {Mine(t)} : accel'[a] = accel[a]
  <2>1. \A a \in Accels : accel'[a] = Written(accel[a], Register(a, paramAddr(h, i)), v)
    BY <1>7 DEF pcie_write
  <2>2. \A a \in Accels : Register(a, paramAddr(h, i)) = IF a = Mine(t) THEN i + 2 ELSE -1
    BY <1>1, AddressReaches
  <2>3. accel'[Mine(t)] = Written(accel[Mine(t)], i + 2, v)
    BY <1>1, <2>1, <2>2
  <2>4. Written(accel[Mine(t)], i + 2, v) = [accel[Mine(t)] EXCEPT !.arg[i] = v, !.ready = @ \cup {i}]
    BY <1>5
  <2>5. ASSUME NEW a \in Accels, a # Mine(t) PROVE accel'[a] = accel[a]
    BY <1>4, <2>1, <2>2, <2>5
  <2> QED
    BY <2>3, <2>4, <2>5
<1> QED
  BY <1>6, <1>7

\* What a using thread reads.
LEMMA ReadsMine ==
  ASSUME FixedDistance, IInv, NEW t \in Threads, Uses(t)
  PROVE  /\ ReadStatus(statusAddr(thread[t].handle)) <=> accel[Mine(t)].done
         /\ accel[Mine(t)].done =>
              ReadResult(accelAddr(thread[t].handle)) = accel[Mine(t)].return_val
<1> DEFINE h == thread[t].handle
<1>1. h \in 0..NumAccelerated - 1 /\ Mine(t) = <<1, h>> /\ Mine(t) \in Accels
  BY MineOnly DEF IInv, Mine
<1>2. \A a \in Accels : /\ Register(a, statusAddr(h)) = 2 <=> a = Mine(t)
                        /\ Register(a, accelAddr(h)) = 0 <=> a = Mine(t)
  BY <1>1, AddressReaches
<1>3. ReadStatus(statusAddr(h)) <=> accel[Mine(t)].done
  BY <1>1, <1>2 DEF ReadStatus
<1>4. ASSUME accel[Mine(t)].done
      PROVE  ReadResult(accelAddr(h)) = accel[Mine(t)].return_val
  <2>1. {a \in Accels : Register(a, accelAddr(h)) = 0 /\ accel[a].done} = {Mine(t)}
    BY <1>1, <1>2, <1>4
  <2> QED
    BY <2>1 DEF ReadResult
<1> QED
  BY <1>3, <1>4

LEMMA CallInit == Init => CallInv
BY DEF Init, CallInv, Uses, Busy, Out, Quiet, ResultOfOwnCall

\* A thread takes an accelerator that nobody uses.
LEMMA TakenQuiet ==
  ASSUME FixedDistance, IInv, CallInv, NEW t \in Threads, thread[t].pc = "wrapper",
         getAccel(t)
  PROVE  CallInv'
<1> USE DEF IInv
<1>1. thread[t].fct = 1 /\ 1 \in Schedulers /\ 1 # fpgaSched /\ ~Uses(t)
  BY DEF TypeOK, ThreadStates, Functions, FixedDistance, Schedulers, fpgaSched, Uses, Busy
<1>2. /\ ~IsFull(1) /\ UNCHANGED accel
      /\ thread' = [thread EXCEPT ![t].pc = "args", ![t].handle = NextAvailable(1), ![t].arg = 1]
  <2>1. Wants(t) = {1}
    BY <1>1 DEF Wants
  <2> QED
    BY <2>1 DEF getAccel, Got
<1>3. NextAvailable(1) \in 0..NumAccelerated - 1 /\ NextAvailable(1) \notin sched[1].available
  BY <1>1, <1>2, NextIsFree DEF totalOfAccels
<1>4. /\ thread'[t] = [thread[t] EXCEPT !.pc = "args", !.handle = NextAvailable(1), !.arg = 1]
      /\ \A u \in Threads \ {t} : thread'[u] = thread[u]
  BY <1>2 DEF TypeOK
<1> DEFINE A == <<1, NextAvailable(1)>>
<1>5. thread'[t].fct = 1 /\ thread'[t].handle = NextAvailable(1) /\ thread'[t].pc = "args"
      /\ thread'[t].arg = 1
  BY <1>1, <1>4 DEF TypeOK, ThreadStates
<1>6. Uses(t)' /\ Mine(t)' = A /\ A \in Accels
  BY <1>3, <1>5 DEF Uses, Busy, Mine, Accels, Functions, FixedDistance
<1>7. ASSUME NEW u \in Threads, Uses(u) PROVE Mine(u) # A
  <2>1. thread[u].fct = 1 /\ thread[u].handle # INVALID_HANDLE
    BY <1>7, MineOnly DEF HasHandle, Uses, Busy
  <2>2. u \in Holders(1) /\ Held(1, u) = thread[u].handle
    BY <1>1, <2>1 DEF Holders, Held
  <2>3. thread[u].handle \in sched[1].available
    BY <1>1, <2>2 DEF SchedulerExact
  <2> QED
    BY <1>3, <2>3 DEF Mine
<1>8. Quiet(accel[A])
  BY <1>6, <1>7 DEF CallInv
<1>9. Stage(thread'[t], accel'[A])
  <2>1. accel'[A] = accel[A] /\ 1..thread'[t].arg - 1 = {}
    BY <1>2, <1>5
  <2> QED
    BY <1>5, <1>8, <2>1 DEF Stage, Quiet
<1> QED
  BY <1>1, <1>2, <1>4, <1>5, <1>6, <1>7, <1>9, CallStep

\* A step after which the thread still has no accelerator, or has none any more.
LEMMA OutsideStep ==
  ASSUME FixedDistance, IInv, CallInv, NEW t \in Threads, accel' = accel,
         \A u \in Threads \ {t} : thread'[u] = thread[u],
         ~Uses(t)', Uses(t) => thread[t].pc = "free",
         thread'[t].pc = "clientFree" => thread'[t].result = Own(thread'[t])
  PROVE  CallInv'
<1>1. Uses(t) => Quiet(accel[Mine(t)])
  BY DEF CallInv, Stage
<1>2. thread'[t].pc # "free"
  BY DEF Uses, Busy
<1> QED
  BY <1>1, <1>2, CallStep

LEMMA WriteArgStep ==
  ASSUME FixedDistance, IInv, CallInv, NEW t \in Threads, WriteArg(t)
  PROVE  CallInv'
<1> DEFINE r == accel[Mine(t)]
           n == thread[t].arg
           c == thread[t].call
<1>1. thread[t].pc = "args" /\ Uses(t) /\ n \in Args /\ n \in Nat /\ NumArgs \in Nat
  BY PCIeAssumption DEF WriteArg, Uses, Busy, IInv, TypeOK, ThreadStates, Args
<1>2. Mine(t) \in Accels /\ r \in Registers
  BY <1>1, MineOnly DEF IInv, TypeOK
<1>3. accel'[Mine(t)] = [r EXCEPT !.arg[n] = c, !.ready = @ \cup {n}]
      /\ \A a \in Accels \ {Mine(t)} : accel'[a] = accel[a]
  BY <1>1, WritesMine DEF WriteArg
<1>4. r.ready = 1..n - 1 /\ ~r.running /\ \A i \in 1..n - 1 : r.arg[i] = c
  BY <1>1 DEF CallInv, Stage
<1>5. /\ accel'[Mine(t)].ready = 1..n /\ ~accel'[Mine(t)].running
      /\ \A i \in 1..n : accel'[Mine(t)].arg[i] = c
  <2>1. /\ accel'[Mine(t)].ready = (1..n - 1) \cup {n}
        /\ ~accel'[Mine(t)].running
        /\ accel'[Mine(t)].arg = [r.arg EXCEPT ![n] = c]
    BY <1>2, <1>3, <1>4 DEF Registers
  <2>2. (1..n - 1) \cup {n} = 1..n
    BY <1>1 DEF Args
  <2>3. r.arg \in [Args -> Values] /\ 1..n \subseteq Args
    BY <1>1, <1>2 DEF Registers, Args
  <2> QED
    BY <1>1, <1>4, <2>1, <2>2, <2>3
<1>6. \A u \in Threads \ {t} : thread'[u] = thread[u]
  BY DEF WriteArg, IInv, TypeOK
<1>7. \A u \in Threads \ {t} : Uses(u) => Mine(u) # Mine(t)
  BY <1>1, MineOnly DEF IInv
<1>8. CASE n = NumArgs
  <2>1. thread'[t] = [thread[t] EXCEPT !.pc = "start"]
    BY <1>8 DEF WriteArg, IInv, TypeOK
  <2>2. thread'[t].pc = "start" /\ thread'[t].call = c /\ Mine(t)' = Mine(t) /\ Uses(t)'
    BY <2>1 DEF IInv, TypeOK, ThreadStates, Mine, Uses, Busy
  <2>3. Stage(thread'[t], accel'[Mine(t)])
    BY <1>5, <1>8, <2>2 DEF Stage, Args
  <2> QED
    BY <1>1, <1>2, <1>3, <1>6, <1>7, <2>2, <2>3, CallStep
<1>9. CASE n # NumArgs
  <2>1. thread'[t] = [thread[t] EXCEPT !.arg = n + 1]
    BY <1>9 DEF WriteArg, IInv, TypeOK
  <2>2. /\ thread'[t].pc = "args" /\ thread'[t].call = c /\ thread'[t].arg = n + 1
        /\ Mine(t)' = Mine(t) /\ Uses(t)'
    BY <1>1, <2>1 DEF IInv, TypeOK, ThreadStates, Mine, Uses, Busy
  <2>3. thread'[t].arg - 1 = n
    BY <1>1, <2>2
  <2>4. Stage(thread'[t], accel'[Mine(t)])
    BY <1>5, <2>2, <2>3 DEF Stage
  <2> QED
    BY <1>1, <1>2, <1>3, <1>6, <1>7, <2>2, <2>4, CallStep
<1> QED
  BY <1>8, <1>9

LEMMA SendStartStep ==
  ASSUME FixedDistance, IInv, CallInv, NEW t \in Threads, SendStart(t)
  PROVE  CallInv'
<1> DEFINE r == accel[Mine(t)]
<1>1. thread[t].pc = "start" /\ Uses(t)
  BY DEF SendStart, Uses, Busy
<1>2. Mine(t) \in Accels /\ r \in Registers
  BY <1>1, MineOnly DEF IInv, TypeOK
<1>3. r.ready = Args /\ \A i \in Args : r.arg[i] = thread[t].call
  BY <1>1 DEF CallInv, Stage
<1>4. accel'[Mine(t)] = Started(r) /\ \A a \in Accels \ {Mine(t)} : accel'[a] = accel[a]
  BY <1>1, <1>3, WritesMine DEF SendStart
<1>5. /\ thread'[t] = [thread[t] EXCEPT !.pc = "poll"]
      /\ \A u \in Threads \ {t} : thread'[u] = thread[u]
  BY DEF SendStart, IInv, TypeOK
<1>6. thread'[t].pc = "poll" /\ thread'[t].call = thread[t].call /\ Mine(t)' = Mine(t) /\ Uses(t)'
  BY <1>5 DEF IInv, TypeOK, ThreadStates, Mine, Uses, Busy
<1>7. Stage(thread'[t], accel'[Mine(t)])
  BY <1>2, <1>3, <1>4, <1>6 DEF Stage, Started, Registers
<1>8. \A u \in Threads \ {t} : Uses(u) => Mine(u) # Mine(t)
  BY <1>1, MineOnly DEF IInv
<1>9. /\ \A a \in Accels : accel'[a] = accel[a] \/ (Uses(t) /\ Uses(t)' /\ a = Mine(t))
      /\ thread'[t].pc \notin {"free", "clientFree"}
  BY <1>1, <1>4, <1>6
<1> QED
  BY <1>1, <1>2, <1>5, <1>6, <1>7, <1>8, <1>9, CallStep

LEMMA PollStep ==
  ASSUME FixedDistance, IInv, CallInv, NEW t \in Threads, Poll(t)
  PROVE  CallInv'
<1>1. thread[t].pc = "poll" /\ Uses(t) /\ accel' = accel
  BY DEF Poll, Uses, Busy
<1>2. accel[Mine(t)].done /\ Mine(t) \in Accels
  BY <1>1, ReadsMine, MineOnly DEF Poll, IInv
<1>3. /\ thread'[t] = [thread[t] EXCEPT !.pc = "load"]
      /\ \A u \in Threads \ {t} : thread'[u] = thread[u]
  BY DEF Poll, IInv, TypeOK
<1>4. /\ thread'[t].pc = "load" /\ Own(thread'[t]) = Own(thread[t])
      /\ Mine(t)' = Mine(t) /\ Uses(t)'
  BY <1>3 DEF IInv, TypeOK, ThreadStates, Mine, Uses, Busy, Own
<1>5. Stage(thread'[t], accel'[Mine(t)])
  BY <1>1, <1>2, <1>4 DEF CallInv, Stage, Quiet
<1>6. \A u \in Threads \ {t} : Uses(u) => Mine(u) # Mine(t)
  BY <1>1, MineOnly DEF IInv
<1> QED
  BY <1>1, <1>2, <1>3, <1>4, <1>5, <1>6, CallStep

LEMMA LoadStep ==
  ASSUME FixedDistance, IInv, CallInv, NEW t \in Threads, LoadResult(t)
  PROVE  CallInv'
<1>1. thread[t].pc = "load" /\ Uses(t) /\ accel' = accel
  BY DEF LoadResult, Uses, Busy
<1>2. /\ Mine(t) \in Accels /\ accel[Mine(t)].done /\ Quiet(accel[Mine(t)])
      /\ accel[Mine(t)].return_val = Own(thread[t])
  BY <1>1, MineOnly DEF CallInv, Stage, IInv
<1>3. /\ thread'[t] = [thread[t] EXCEPT !.pc = "free",
                                        !.result = ReadResult(accelAddr(thread[t].handle))]
      /\ \A u \in Threads \ {t} : thread'[u] = thread[u]
  BY DEF LoadResult, IInv, TypeOK
<1>4. ReadResult(accelAddr(thread[t].handle)) = Own(thread[t])
  BY <1>1, <1>2, ReadsMine
<1>5. /\ thread'[t].pc = "free" /\ Own(thread'[t]) = Own(thread[t])
      /\ thread'[t].result = Own(thread[t]) /\ Mine(t)' = Mine(t) /\ Uses(t)'
  BY <1>3, <1>4 DEF IInv, TypeOK, ThreadStates, Mine, Uses, Busy, Own
<1>6. Stage(thread'[t], accel'[Mine(t)])
  BY <1>1, <1>2, <1>5 DEF Stage
<1>7. \A u \in Threads \ {t} : Uses(u) => Mine(u) # Mine(t)
  BY <1>1, MineOnly DEF IInv
<1> QED
  BY <1>1, <1>2, <1>3, <1>5, <1>6, <1>7, CallStep

\* Only the accelerator of a call that polls is running.
LEMMA FinishStep ==
  ASSUME FixedDistance, IInv, CallInv, NEW a \in Accels, Finish(a)
  PROVE  CallInv'
<1>1. accel[a].running /\ thread' = thread /\ a[1] = 1 /\ accel[a] \in Registers
  BY DEF Finish, IInv, TypeOK, Accels, Functions, FixedDistance
<1>2. PICK t \in Threads : Uses(t) /\ Mine(t) = a
  BY <1>1 DEF CallInv, Quiet
<1>3. Stage(thread[t], accel[a]) /\ thread[t].pc = "poll"
  BY <1>1, <1>2 DEF CallInv, Stage, Quiet, Uses, Busy
<1>4. /\ accel'[a] = [accel[a] EXCEPT !.running = FALSE, !.done = TRUE,
                                     !.return_val = [fct |-> a[1], args |-> accel[a].arg]]
      /\ \A b \in Accels \ {a} : accel'[b] = accel[b]
  BY DEF Finish, IInv, TypeOK
<1>5. [fct |-> a[1], args |-> accel[a].arg] = Own(thread[t])
  <2>1. thread[t].fct = 1 /\ \A i \in Args : accel[a].arg[i] = thread[t].call
    BY <1>2, <1>3, MineOnly DEF Stage, IInv
  <2>2. accel[a].arg = [i \in Args |-> thread[t].call]
    BY <1>1, <2>1 DEF Registers
  <2> QED
    BY <1>1, <2>1, <2>2 DEF Own
<1>6. Stage(thread[t], accel'[a])
  BY <1>1, <1>3, <1>4, <1>5 DEF Stage, Registers
<1>7. ASSUME NEW u \in Threads, Uses(u)' PROVE Stage(thread[u], accel[Mine(u)])'
  <2>1. Uses(u) /\ Mine(u)' = Mine(u) /\ Mine(u) \in Accels
    BY <1>1, <1>7, MineOnly DEF Uses, Mine, IInv
  <2>2. CASE Mine(u) = a
    <3>1. u = t
      BY <1>2, <2>1, <2>2, MineOnly DEF IInv
    <3> QED
      BY <1>1, <1>6, <2>1, <2>2, <3>1
  <2>3. CASE Mine(u) # a
    BY <1>1, <1>4, <2>1, <2>3 DEF CallInv
  <2> QED
    BY <2>2, <2>3
<1>8. ASSUME NEW b \in Accels, \A u \in Threads : Uses(u)' => Mine(u)' # b
      PROVE  Quiet(accel'[b])
  <2>1. \A u \in Threads : Uses(u) => Mine(u) # b
    BY <1>1, <1>8 DEF Uses, Mine
  <2>2. b # a
    BY <1>2, <2>1
  <2> QED
    BY <1>4, <2>1, <2>2 DEF CallInv
<1>9. ResultOfOwnCall'
  BY <1>1 DEF ResultOfOwnCall, CallInv
<1> QED
  BY <1>7, <1>8, <1>9 DEF CallInv

LEMMA CallNext ==
  ASSUME FixedDistance, IInv, CallInv, [Next]_vars
  PROVE  CallInv'
<1> USE DEF IInv
<1>1. ASSUME NEW t \in Threads, Call(t) PROVE CallInv'
  <2>1. accel' = accel /\ ~Uses(t) /\ \A u \in Threads \ {t} : thread'[u] = thread[u]
    BY <1>1 DEF Call, Uses, Busy, TypeOK
  <2>2. thread'[t].pc \in {"try", "wrapper"}
    BY <1>1 DEF Call, Out, TypeOK
  <2>3. ~Uses(t)' /\ thread'[t].pc # "clientFree"
    BY <2>2 DEF Uses, Busy
  <2> QED
    BY <2>1, <2>3, OutsideStep
<1>2. ASSUME NEW t \in Threads, WakeUp(t) \/ pthread_cond_wait(t) PROVE CallInv'
  BY <1>2 DEF WakeUp, pthread_cond_wait, CallInv, Uses, Mine, ResultOfOwnCall
<1>3. ASSUME NEW t \in Threads, getAccelIfAvailable(t) PROVE CallInv'
  <2>1. accel' = accel /\ ~Uses(t) /\ \A u \in Threads \ {t} : thread'[u] = thread[u]
    BY <1>3 DEF getAccelIfAvailable, Got, Uses, Busy, TypeOK
  <2>2. thread'[t].pc \in {"client", "wrapper"}
    BY <1>3 DEF getAccelIfAvailable, Got, TypeOK, ThreadStates
  <2>3. ~Uses(t)' /\ thread'[t].pc # "clientFree"
    BY <2>2 DEF Uses, Busy
  <2> QED
    BY <2>1, <2>3, OutsideStep
<1>4. ASSUME NEW t \in Threads, getAccel(t) PROVE CallInv'
  <2>1. CASE thread[t].pc = "wrapper"
    BY <1>4, <2>1, TakenQuiet
  <2>2. CASE thread[t].pc # "wrapper"
    <3>1. thread[t].pc = "client"
      BY <1>4, <2>2 DEF getAccel, Wants
    <3>2. accel' = accel /\ ~Uses(t) /\ \A u \in Threads \ {t} : thread'[u] = thread[u]
      BY <1>4, <3>1 DEF getAccel, Got, Uses, Busy, TypeOK
    <3>3. thread'[t].pc = "wrapper"
      BY <1>4, <2>2 DEF getAccel, Got, TypeOK, ThreadStates
    <3>4. ~Uses(t)' /\ thread'[t].pc # "clientFree"
      BY <3>3 DEF Uses, Busy
    <3> QED
      BY <3>2, <3>4, OutsideStep
  <2> QED
    BY <2>1, <2>2
<1>5. ASSUME NEW t \in Threads, Free(t) PROVE CallInv'
  <2>1. accel' = accel /\ thread[t].pc = "free" /\ \A u \in Threads \ {t} : thread'[u] = thread[u]
    BY <1>5 DEF Free, TypeOK
  <2>2. CASE thread[t].client = INVALID_HANDLE
    <3>1. thread'[t].pc = "out"
      BY <1>5, <2>2 DEF Free, Out, TypeOK
    <3>2. ~Uses(t)' /\ thread'[t].pc # "clientFree"
      BY <3>1 DEF Uses, Busy
    <3> QED
      BY <2>1, <3>2, OutsideStep
  <2>3. CASE thread[t].client # INVALID_HANDLE
    <3>1. thread'[t] = [thread[t] EXCEPT !.pc = "clientFree", !.handle = INVALID_HANDLE]
      BY <1>5, <2>3 DEF Free, TypeOK
    <3>2. /\ thread'[t].pc = "clientFree" /\ Own(thread'[t]) = Own(thread[t])
          /\ thread'[t].result = thread[t].result
      BY <3>1 DEF TypeOK, ThreadStates, Own
    <3>3. ~Uses(t)' /\ thread[t].result = Own(thread[t])
      BY <2>1, <3>2 DEF Uses, Busy, CallInv, ResultOfOwnCall, Own
    <3> QED
      BY <2>1, <3>2, <3>3, OutsideStep
  <2> QED
    BY <2>2, <2>3
<1>6. ASSUME NEW t \in Threads, ClientFree(t) PROVE CallInv'
  <2>1. accel' = accel /\ ~Uses(t) /\ \A u \in Threads \ {t} : thread'[u] = thread[u]
    BY <1>6 DEF ClientFree, Uses, Busy, TypeOK
  <2>2. thread'[t].pc = "out"
    BY <1>6 DEF ClientFree, Out, TypeOK
  <2>3. ~Uses(t)' /\ thread'[t].pc # "clientFree"
    BY <2>2 DEF Uses, Busy
  <2> QED
    BY <2>1, <2>3, OutsideStep
<1>7. CASE UNCHANGED vars
  BY <1>7 DEF vars, CallInv, Uses, Mine, ResultOfOwnCall
<1> QED
  BY <1>1, <1>2, <1>3, <1>4, <1>5, <1>6, <1>7, WriteArgStep, SendStartStep, PollStep, LoadStep,
     FinishStep DEF Next, Step

-----------------------------------------------------------------------------
(* The theorems.                                                           *)

LEMMA InvHolds == Spec => []IInv
<1>1. Init => IInv
  BY InvInit
<1>2. IInv /\ [Next]_vars => IInv'
  BY InvNext
<1> QED
  BY <1>1, <1>2, PTL DEF Spec

\* The bits, the counts and the registers keep their types, and the handles
\* stay below the number of accelerators.
THEOREM PCIeTypes == Spec => []TypeOK
<1>1. IInv => TypeOK
  BY DEF IInv
<1> QED
  BY <1>1, InvHolds, PTL

\* The set bits of a scheduler are the handles of its holders, no two hold the
\* same accelerator, and numOfUsedAccels counts them.
THEOREM PCIeSchedulerExact == Spec => []SchedulerExact
<1>1. IInv => SchedulerExact
  BY DEF IInv
<1> QED
  BY <1>1, InvHolds, PTL

\* No handle is free while all threads that want one sleep: one signal per
\* freeAccel is enough for any number of threads.
THEOREM PCIeNoLostWakeup == Spec => []NoLostWakeup
<1>1. IInv => NoLostWakeup
  <2> SUFFICES ASSUME IInv, NEW s \in Schedulers, sched[s].waiting # {}, ~IsFull(s)
               PROVE  Awake(s) # {}
    BY DEF NoLostWakeup, Awake
  <2>1. Cardinality(Awake(s)) + sched[s].used >= totalOfAccels(s)
    BY DEF IInv, SignalsSuffice, Sufficient
  <2>2. sched[s].used \in Int
    BY DEF IInv, TypeOK
  <2>3. Cardinality(Awake(s)) > 0
    BY <2>1, <2>2, AwakeCount, TotalType DEF IsFull
  <2> QED
    BY <2>3, FS_EmptySet
<1> QED
  BY <1>1, InvHolds, PTL

\* A wrapper returns the result of its own call, for any number of threads,
\* accelerators and calls, when the accelerators lie where the wrapper
\* addresses them.
THEOREM PCIeOwnResults == ASSUME FixedDistance PROVE Spec => []ResultOfOwnCall
<1>1. IInv /\ [Next]_vars => IInv'
  BY InvNext
<1>2. IInv /\ CallInv /\ [Next]_vars => (IInv /\ CallInv)'
  BY <1>1, CallNext
<1>3. Init => IInv /\ CallInv
  BY InvInit, CallInit
<1>4. CallInv => ResultOfOwnCall
  BY DEF CallInv
<1> QED
  BY <1>2, <1>3, <1>4, PTL DEF Spec
=============================================================================
