---------------------------- MODULE PthreadProofs ----------------------------
(***************************************************************************)
(* The two halves of the pthread API.  For every number of threads, forks  *)
(* and both forms of the create loop: the types of PthreadMaster, what a   *)
(* join waits for and stores, and which later forks start their threads.   *)
(* For every program, however long: the types of ParallelLowering, and what*)
(* it makes of mutexes, barriers and loads.                                *)
(***************************************************************************)
EXTENDS PthreadMaster, ParallelLowering, TLAPS

\* The number of the first thread of a fork, and of the current one.
FirstOf(r) == NumThreads * (r - 1)
Before == FirstOf(round)

\* Whether the creates of the current fork start instances.
Starting == round = 1 \/ OwnInstances

\* How far the current fork has come.  One that starts nothing gets to its joins
\* and no further.
ForkProgress ==
    /\ ~OwnInstances => round \in {1, 2}
    /\ main = "before_create" => legup_count = Before + i /\ toJoin = 0 .. (i - 1)
    /\ main = "create" => legup_count = Before + i + 1 /\ toJoin = 0 .. i
    /\ main \in {"before_join", "join", "done"} => legup_count = Before + NumThreads
    /\ main \in {"before_join", "join"} /\ ~Starting => toJoin = Threads
    /\ main = "join" => i \in toJoin
    /\ main = "done" => Starting
    /\ \A t \in Threads : Created(t) => threadVar[t] = Before + t
    /\ start = IF main = "create" /\ Starting THEN {Before + i} ELSE {}

\* An instance has not been started, or it has the argument of the thread with
\* its number, runs, and keeps that thread's result once it has finished.
InstanceProgress(k) ==
    /\ k \in finish_reg => instance[k] = "LEGUP_0"
    /\ k >= legup_count \/ k \in start \/ k \notin Instances =>
          instance[k] = "LEGUP_0" /\ k \notin finish_reg
    /\ k < legup_count /\ k \in Instances =>
          arg[k] = 1 + k /\ (k \in start \cup finish_reg \/ instance[k] # "LEGUP_0")
    /\ Starting /\ k \in finish_reg => return_val_reg[k] = 1 + k \/ (rolled /\ return_val_reg[k] = 0)
    /\ k < Before /\ k \in Instances => k \in finish_reg

\* A joined thread's instance has finished, and the join has stored its value.
ThreadProgress(t) ==
    Joined(t) => /\ Starting /\ Before + t \in finish_reg
                 /\ result[t] = 1 + (Before + t) \/ (rolled /\ result[t] = 0)

\* The types, but for the bound on the counter that ForkProgress implies.
Registers ==
    /\ rolled \in BOOLEAN /\ ownSites \in BOOLEAN
    /\ main \in {"before_create", "create", "before_join", "join", "done"}
    /\ i \in Threads /\ round \in 1 .. Rounds /\ toJoin \subseteq Threads
    /\ legup_count \in Nat
    /\ threadVar \in [Threads -> Nat]
    /\ start \subseteq InstanceNums /\ finish_reg \subseteq InstanceNums
    /\ arg \in [InstanceNums -> Nat]
    /\ instance \in [InstanceNums -> {"LEGUP_0", "run", "return", "finish"}]
    /\ return_val_reg \in [InstanceNums -> Nat]
    /\ result \in [Threads -> Nat]

AllInstances == \A k \in InstanceNums : InstanceProgress(k)
AllThreads == \A t \in Threads : ThreadProgress(t)
IInv == Registers /\ ForkProgress /\ AllInstances /\ AllThreads
Master == Create \/ CreateCall \/ Join \/ JoinReturn \/ Stay

LEMMA NextSplit ==
  ASSUME [Next]_vars
  PROVE  \/ Master /\ \E returning \in SUBSET Running : Hardware(returning)
         \/ UNCHANGED vars
BY DEF Next, Master

\* The forks number their threads one after the other, and the last number is
\* that of the last instance.
LEMMA Numbers ==
  ASSUME NEW r \in 1 .. Rounds
  PROVE  /\ FirstOf(r) \in Nat /\ FirstOf(1) = 0
         /\ FirstOf(r + 1) = FirstOf(r) + NumThreads
         /\ FirstOf(r) + NumThreads <= NumThreads * Rounds
         /\ r > 1 => FirstOf(r) >= NumThreads
         /\ \A t \in Threads : /\ t \in Nat /\ t < NumThreads
                               /\ FirstOf(r) + t \in InstanceNums
                               /\ ReturnValue(t, r) = 1 + (FirstOf(r) + t)
<1>1. NumThreads \in Nat /\ Rounds \in Nat /\ r \in Nat /\ r >= 1 /\ r <= Rounds
  BY NumThreadsAssumption, RoundsAssumption
<1>2. \A a, c \in Nat : a * c \in Nat
  OBVIOUS
<1>3. PICK m \in Nat : r = m + 1
  BY <1>1
<1>4. PICK d \in Nat : Rounds = r + d
  BY <1>1
<1>5. FirstOf(r) = NumThreads * m /\ NumThreads * m \in Nat
  BY <1>1, <1>2, <1>3 DEF FirstOf
<1>6. FirstOf(r + 1) = NumThreads * m + NumThreads
  BY <1>1, <1>3 DEF FirstOf
<1>7. NumThreads * Rounds = NumThreads * m + NumThreads + NumThreads * d /\ NumThreads * d \in Nat
  BY <1>1, <1>2, <1>3, <1>4
<1>8. FirstOf(r) + NumThreads <= NumThreads * Rounds
  BY <1>1, <1>5, <1>7
<1>9. r > 1 => FirstOf(r) >= NumThreads
  <2> SUFFICES ASSUME r > 1 PROVE NumThreads * m >= NumThreads
    BY <1>5
  <2>1. PICK l \in Nat : m = l + 1
    BY <1>3
  <2>2. NumThreads * m = NumThreads * l + NumThreads /\ NumThreads * l \in Nat
    BY <1>1, <1>2, <2>1
  <2> QED
    BY <1>1, <2>2
<1>10. FirstOf(1) = 0
  BY <1>1 DEF FirstOf
<1>11. ASSUME NEW t \in Threads
       PROVE  /\ t \in Nat /\ t < NumThreads
              /\ FirstOf(r) + t \in InstanceNums
              /\ ReturnValue(t, r) = 1 + (FirstOf(r) + t)
  <2>1. t \in Nat /\ t < NumThreads
    BY <1>1 DEF Threads
  <2>2. NumThreads * Rounds \in Nat
    BY <1>1, <1>2
  <2>3. FirstOf(r) + t \in InstanceNums
    BY <1>1, <1>5, <1>8, <2>1, <2>2 DEF InstanceNums
  <2>4. ReturnValue(t, r) = 1 + t + FirstOf(r)
    BY DEF ReturnValue, FirstOf
  <2> QED
    BY <1>5, <2>1, <2>3, <2>4
<1> QED
  BY <1>5, <1>6, <1>8, <1>9, <1>10, <1>11

\* Which numbers belong to instances.
LEMMA InstanceSets ==
  /\ Threads \subseteq InstanceNums /\ Instances \subseteq InstanceNums
  /\ \A k \in InstanceNums : k \in Nat
<1>1. /\ Rounds \in Nat \ {0} /\ NumThreads \in Nat \ {0}
      /\ \A t \in Threads : FirstOf(1) + t \in InstanceNums /\ FirstOf(1) = 0 /\ t \in Nat
  BY Numbers, RoundsAssumption, NumThreadsAssumption
<1>2. Threads \subseteq InstanceNums
  BY <1>1
<1>3. ASSUME NEW k \in InstanceNums PROVE k \in Nat
  <2>1. \A a, c \in Nat : a * c \in Nat
    OBVIOUS
  <2>2. PICK m \in Nat : m = NumThreads * Rounds
    BY <1>1, <2>1
  <2> QED
    BY <2>2 DEF InstanceNums
<1> QED
  BY <1>2, <1>3 DEF Instances

\* The numbers that the current fork gives its threads.
LEMMA CurrentFork ==
  ASSUME Registers, ForkProgress
  PROVE  /\ Before \in Nat /\ NumThreads \in Nat /\ NumThreads > 0
         /\ \A t \in Threads : /\ t \in Nat /\ t < NumThreads /\ Before + t \in InstanceNums
                               /\ Starting => Before + t \in Instances
                               /\ ~Starting => Before + t \notin Instances
                               /\ ReturnValue(t, round) = 1 + (Before + t)
         /\ i \in Nat /\ i < NumThreads
         /\ ~Starting => round = 2
<1>1. round \in 1 .. Rounds /\ round \in Nat /\ i \in Threads
  BY RoundsAssumption DEF Registers
<1>2. ~Starting => round = 2
  BY DEF Starting, ForkProgress
<1>3. Starting => \A t \in Threads : Before + t \in Instances
  <2>1. CASE round = 1
    <3>1. \A t \in Threads : Before + t = t
      BY <1>1, <2>1, Numbers DEF Before
    <3> QED
      BY <3>1, InstanceSets DEF Instances
  <2>2. CASE OwnInstances
    BY <1>1, <2>2, Numbers DEF Before, Instances
  <2> QED
    BY <2>1, <2>2 DEF Starting
<1>4. ~Starting => \A t \in Threads : Before + t \notin Instances
  <2> SUFFICES ASSUME ~Starting, NEW t \in Threads PROVE Before + t \notin Threads
    BY DEF Starting, Instances
  <2>1. Before >= NumThreads /\ Before \in Nat /\ t \in Nat
    BY <1>1, <1>2, Numbers DEF Before
  <2> QED
    BY <2>1, NumThreadsAssumption DEF Threads
<1> QED
  BY <1>1, <1>2, <1>3, <1>4, Numbers, NumThreadsAssumption DEF Before

\* The instances that the create call at hand can start.
LEMMA Called ==
  ASSUME Registers, ForkProgress
  PROVE  /\ CalledInstances \subseteq Instances
         /\ Starting => Before + i \in CalledInstances
         /\ Starting /\ ~rolled => CalledInstances = {Before + i}
<1>1. i \in Threads /\ i \in Nat /\ round \in 1 .. Rounds
  BY CurrentFork DEF Registers
<1>2. round = 1 => Before + i = i
  BY <1>1, Numbers DEF Before
<1>3. CASE rolled
  <2>1. CalledInstances = Threads /\ Instances = Threads /\ (Starting => round = 1)
    BY <1>3 DEF CalledInstances, Instances, OwnInstances, Starting
  <2> QED
    BY <1>1, <1>2, <1>3, <2>1
<1>4. CASE ~rolled /\ ownSites
  <2>1. CalledInstances = {NumThreads * (round - 1) + i} /\ OwnInstances
    BY <1>4 DEF CalledInstances, THREADID, OwnInstances
  <2>2. CalledInstances = {Before + i}
    BY <2>1 DEF Before, FirstOf
  <2>3. Starting
    BY <2>1 DEF Starting
  <2> QED
    BY <1>1, <2>2, <2>3, CurrentFork
<1>5. CASE ~rolled /\ ~ownSites
  <2>1. CalledInstances = {i} /\ Instances = Threads /\ (Starting => round = 1)
    BY <1>5 DEF CalledInstances, THREADID, Instances, OwnInstances, Starting
  <2> QED
    BY <1>1, <1>2, <2>1
<1> QED
  BY <1>3, <1>4, <1>5

LEMMA InitInductive == Init => IInv
<1> SUFFICES ASSUME Init PROVE IInv
  OBVIOUS
<1>0. 1 \in 1 .. Rounds /\ FirstOf(1) = 0
  BY RoundsAssumption, Numbers
<1>1. Registers
  BY NumThreadsAssumption, RoundsAssumption, LoopFormsAssumption DEF Init, Registers, Threads
<1>2. ForkProgress
  BY <1>0 DEF Init, ForkProgress, Before, Created, Starting
<1>3. AllInstances
  <2> SUFFICES ASSUME NEW k \in InstanceNums PROVE InstanceProgress(k)
    BY DEF AllInstances
  <2>1. k \in Nat
    BY InstanceSets
  <2> QED
    BY <1>0, <2>1 DEF Init, InstanceProgress, Before
<1>4. AllThreads
  BY DEF Init, AllThreads, ThreadProgress, Joined, Created
<1> QED
  BY <1>1, <1>2, <1>3, <1>4 DEF IInv

\* A poll succeeds only in a fork that starts instances, and for the thread that
\* is joined.
LEMMA PollStartedFork ==
  ASSUME IInv, JoinReturn
  PROVE  /\ main = "join" /\ Starting /\ i \in toJoin
         /\ threadVar[i] = Before + i /\ Before + i \in finish_reg
         /\ Before + i \in InstanceNums
<1>1. main = "join" /\ PollFinish
  BY DEF JoinReturn
<1>2. i \in toJoin /\ i \in Threads /\ threadVar[i] = Before + i
  BY <1>1 DEF IInv, Registers, ForkProgress, Created
<1>3. threadVar[i] \in Instances /\ threadVar[i] \in finish_reg
  BY <1>1 DEF PollFinish
<1> QED
  BY <1>1, <1>2, <1>3, CurrentFork DEF IInv

LEMMA RegistersStep ==
  ASSUME IInv, Master, NEW returning, Hardware(returning)
  PROVE  Registers'
<1> USE DEF IInv, Registers
<1>1. /\ rolled' \in BOOLEAN /\ ownSites' \in BOOLEAN
      /\ instance' \in [InstanceNums -> {"LEGUP_0", "run", "return", "finish"}]
      /\ finish_reg' \subseteq InstanceNums
      /\ return_val_reg' \in [InstanceNums -> Nat]
  BY DEF Hardware, RunInstances, FinishRegisters, Finishing
<1>2. CASE Create
  <2>1. ReturnValue(i, round) \in Nat
    BY CurrentFork
  <2>2. arg' \in [InstanceNums -> Nat] /\ start' \subseteq InstanceNums
    BY <1>2, <2>1, Called, InstanceSets DEF Create
  <2> QED
    BY <1>1, <1>2, <2>2 DEF Create
<1>3. CASE CreateCall
  <2>1. i' \in Threads /\ main' \in {"before_create", "before_join"}
    <3>1. \/ i < NumThreads - 1 /\ i' = i + 1 /\ main' = "before_create"
          \/ i' = i /\ main' = "before_join"
      BY <1>3 DEF CreateCall
    <3>2. i < NumThreads - 1 => i + 1 \in Threads
      BY NumThreadsAssumption DEF Threads
    <3> QED
      BY <3>1, <3>2
  <2>2. start' \subseteq InstanceNums
    BY <1>3 DEF CreateCall
  <2> QED
    BY <1>1, <1>3, <2>1, <2>2 DEF CreateCall
<1>4. CASE Join
  BY <1>1, <1>4 DEF Join
<1>5. CASE JoinReturn
  <2>1. result' \in [Threads -> Nat]
    <3>1. return_val_reg[threadVar[i]] \in Nat
      BY <1>5, PollStartedFork
    <3> QED
      BY <1>5, <3>1 DEF JoinReturn
  <2>2. i' \in Threads /\ round' \in 1 .. Rounds
    <3>1. 0 \in Threads /\ Rounds \in Nat
      BY NumThreadsAssumption, RoundsAssumption DEF Threads
    <3>2. \/ UNCHANGED <<i, round>>
          \/ round < Rounds /\ i' = 0 /\ round' = round + 1
      BY <1>5 DEF JoinReturn
    <3> QED
      BY <3>1, <3>2
  <2>3. main' \in {"before_create", "create", "before_join", "join", "done"}
    BY <1>5 DEF JoinReturn
  <2> QED
    BY <1>1, <1>5, <2>1, <2>2, <2>3 DEF JoinReturn
<1>6. CASE Stay
  BY <1>1, <1>6 DEF Stay
<1> QED
  BY <1>2, <1>3, <1>4, <1>5, <1>6 DEF Master

\* In which forks and instances numbers change their meaning: in none but when
\* the last join starts the next fork.
LEMMA SameFork ==
  ASSUME NEW returning, Hardware(returning)
  PROVE  /\ rolled' = rolled /\ OwnInstances' = OwnInstances /\ Instances' = Instances
         /\ round' = round => Before' = Before /\ Starting' = Starting
BY DEF Hardware, OwnInstances, Instances, Before, Starting

LEMMA ForkStep ==
  ASSUME IInv, Master, NEW returning, Hardware(returning)
  PROVE  ForkProgress'
<1> USE DEF IInv
<1>0. /\ i \in Nat /\ i < NumThreads /\ i \in Threads /\ NumThreads \in Nat /\ NumThreads > 0
      /\ threadVar \in [Threads -> Nat] /\ toJoin \subseteq Threads
      /\ legup_count \in Nat /\ Before \in Nat
      /\ round' = round => Before' = Before /\ Starting' = Starting
      /\ OwnInstances' = OwnInstances
      /\ ~OwnInstances => round \in {1, 2}
  BY CurrentFork, SameFork DEF Registers, ForkProgress
<1>1. CASE Create
  <2>1. /\ main = "before_create" /\ main' = "create" /\ i' = i /\ round' = round
        /\ legup_count' = legup_count + 1 /\ toJoin' = toJoin \cup {i}
        /\ threadVar' = [threadVar EXCEPT ![i] = legup_count]
    BY <1>1 DEF Create
  <2>2. legup_count = Before + i /\ toJoin = 0 .. (i - 1) /\ Before' = Before /\ Starting' = Starting
    BY <1>0, <2>1 DEF ForkProgress
  <2>3. toJoin' = 0 .. i
    BY <1>0, <2>1, <2>2
  <2>4. legup_count' = Before' + i' + 1
    BY <1>0, <2>1, <2>2
  <2>5. \A t \in Threads : Created(t)' => threadVar'[t] = Before' + t
    <3> SUFFICES ASSUME NEW t \in Threads, t \in toJoin'
                 PROVE  threadVar'[t] = Before' + t
      BY <2>1 DEF Created
    <3>1. CASE t = i
      BY <1>0, <2>1, <2>2, <3>1
    <3>2. CASE t # i
      <4>1. t \in toJoin /\ threadVar'[t] = threadVar[t]
        BY <1>0, <2>1, <3>2
      <4> QED
        BY <2>2, <4>1 DEF ForkProgress, Created
    <3> QED
      BY <3>1, <3>2
  <2>6. start' = IF Starting THEN {Before + i} ELSE {}
    <3>1. start' = {k \in CalledInstances : k = Before + i}
      BY <1>1, <2>2 DEF Create
    <3>2. Starting => Before + i \in CalledInstances
      BY Called
    <3>3. ~Starting => Before + i \notin CalledInstances
      BY <1>0, Called, CurrentFork
    <3> QED
      BY <3>1, <3>2, <3>3
  <2> QED
    BY <1>0, <2>1, <2>2, <2>3, <2>4, <2>5, <2>6 DEF ForkProgress
<1>2. CASE CreateCall
  <2>1. /\ main = "create" /\ round' = round /\ toJoin' = toJoin
        /\ legup_count' = legup_count /\ threadVar' = threadVar
        /\ start' = start \ CalledInstances
        /\ IF i < NumThreads - 1 THEN i' = i + 1 /\ main' = "before_create"
           ELSE i' = i /\ main' = "before_join"
    BY <1>2 DEF CreateCall
  <2>2. /\ legup_count = Before + i + 1 /\ toJoin = 0 .. i
        /\ Before' = Before /\ Starting' = Starting
    BY <1>0, <2>1 DEF ForkProgress
  <2>3. start' = {}
    BY <2>1, Called DEF ForkProgress
  <2>5. CASE i < NumThreads - 1
    BY <1>0, <2>1, <2>2, <2>3, <2>5 DEF ForkProgress, Created
  <2>6. CASE ~(i < NumThreads - 1)
    <3>1. i = NumThreads - 1 /\ toJoin = Threads
      BY <1>0, <2>2, <2>6 DEF Threads
    <3> QED
      BY <1>0, <2>1, <2>2, <2>3, <2>6, <3>1 DEF ForkProgress, Created
  <2> QED
    BY <2>5, <2>6
<1>3. CASE Join
  BY <1>0, <1>3 DEF Join, ForkProgress, Created
<1>4. CASE JoinReturn
  <2>1. /\ main = "join" /\ Starting /\ legup_count = Before + NumThreads /\ start = {}
        /\ \A t \in Threads : threadVar[t] = Before + t
    BY <1>0, <1>4, PollStartedFork DEF ForkProgress, Created
  <2>2. /\ legup_count' = legup_count /\ threadVar' = threadVar /\ start' = start
    BY <1>4 DEF JoinReturn
  <2>3. \/ main' = "before_join" /\ round' = round
        \/ main' = "before_create" /\ i' = 0 /\ round' = round + 1 /\ toJoin' = {}
        \/ main' = "done" /\ round' = round
    BY <1>4 DEF JoinReturn
  <2>4. CASE main' = "before_create" /\ i' = 0 /\ round' = round + 1 /\ toJoin' = {}
    <3>1. toJoin' = 0 .. (i' - 1) /\ round \in 1 .. Rounds
      BY <2>4 DEF Registers
    <3>2. Before' = Before + NumThreads
      BY <2>4, <3>1, Numbers DEF Before
    <3>3. legup_count' = Before' + i'
      BY <1>0, <2>1, <2>2, <2>4, <3>2
    <3>4. ~OwnInstances => round' = 2
      BY <2>1, <2>4 DEF Starting
    <3> QED
      BY <1>0, <2>1, <2>2, <2>4, <3>1, <3>3, <3>4 DEF ForkProgress, Created
  <2>5. CASE main' \in {"before_join", "done"} /\ round' = round
    BY <1>0, <2>1, <2>2, <2>5 DEF ForkProgress, Created
  <2> QED
    BY <2>3, <2>4, <2>5
<1>5. CASE Stay
  BY <1>0, <1>5 DEF Stay, ForkProgress, Created
<1> QED
  BY <1>1, <1>2, <1>3, <1>4, <1>5 DEF Master

\* What the hardware does to one instance.
LEMMA OneInstance ==
  ASSUME IInv, NEW returning, Hardware(returning), NEW k \in InstanceNums
  PROVE  /\ k \in finish_reg' <=> (k \in finish_reg /\ k \notin start) \/ instance[k] = "finish"
         /\ instance'[k] = "LEGUP_0" <=> instance[k] \in {"LEGUP_0", "finish"} /\ k \notin start
         /\ return_val_reg'[k] =
               IF instance[k] = "finish" THEN arg[k]
               ELSE IF main = "before_create" /\ main' = "create" /\ k \in CalledInstances THEN 0
               ELSE return_val_reg[k]
<1>1. instance[k] \in {"LEGUP_0", "run", "return", "finish"}
  BY DEF IInv, Registers
<1>2. instance'[k] = "LEGUP_0" <=> instance[k] \in {"LEGUP_0", "finish"} /\ k \notin start
  BY <1>1 DEF Hardware, RunInstances
<1> QED
  BY <1>2 DEF Hardware, FinishRegisters, Finishing

\* What a create does to one instance.
LEMMA CreatedInstance ==
  ASSUME IInv, Create, NEW returning, Hardware(returning), NEW k \in InstanceNums
  PROVE  InstanceProgress(k)'
<1> USE DEF IInv
<1>1. /\ k \in Nat /\ Before \in Nat /\ i \in Nat /\ i \in Threads /\ legup_count \in Nat
      /\ Before' = Before /\ Starting' = Starting /\ Instances' = Instances /\ rolled' = rolled
      /\ arg \in [InstanceNums -> Nat]
  BY InstanceSets, CurrentFork, SameFork DEF Create, Registers
<1>2. /\ main = "before_create" /\ main' = "create" /\ legup_count' = legup_count + 1
      /\ legup_count = Before + i /\ start = {}
      /\ arg'[k] = IF k \in start' THEN ReturnValue(i, round) ELSE arg[k]
      /\ start' = {j \in CalledInstances : j = legup_count}
  BY DEF Create, ForkProgress
<1>3. ReturnValue(i, round) = 1 + (Before + i)
  BY <1>1, CurrentFork
<1>4. CalledInstances \subseteq Instances /\ (Starting => Before + i \in CalledInstances)
  BY Called
<1>5. Starting /\ ~rolled => CalledInstances = {legup_count}
  BY <1>2, Called
<1>6. ~Starting => legup_count \notin Instances
  BY <1>1, <1>2, CurrentFork
<1>7. k \in start' <=> k = legup_count /\ k \in Instances
  BY <1>2, <1>4, <1>6
<1>8. k \in finish_reg' <=> k \in finish_reg \/ instance[k] = "finish"
  BY <1>2, OneInstance
<1>9. instance'[k] = "LEGUP_0" <=> instance[k] \in {"LEGUP_0", "finish"}
  BY <1>2, OneInstance
<1>10. /\ k \in finish_reg => instance[k] = "LEGUP_0"
       /\ k >= legup_count \/ k \notin Instances => instance[k] = "LEGUP_0" /\ k \notin finish_reg
       /\ k < legup_count /\ k \in Instances =>
             arg[k] = 1 + k /\ (k \in finish_reg \/ instance[k] # "LEGUP_0")
       /\ Starting /\ k \in finish_reg => return_val_reg[k] = 1 + k \/ (rolled /\ return_val_reg[k] = 0)
       /\ k < Before /\ k \in Instances => k \in finish_reg
  BY <1>2 DEF AllInstances, InstanceProgress
<1>11. instance[k] = "finish" => k < legup_count /\ k \in Instances /\ arg[k] = 1 + k
  BY <1>1, <1>10
<1>12. k < legup_count' <=> k < legup_count \/ k = legup_count
  BY <1>1, <1>2
<1>13. k < legup_count' /\ k \in Instances =>
          arg'[k] = 1 + k /\ (k \in start' \cup finish_reg' \/ instance'[k] # "LEGUP_0")
  BY <1>1, <1>2, <1>3, <1>7, <1>8, <1>9, <1>10, <1>12
<1>14. Starting /\ k \in finish_reg' =>
          return_val_reg'[k] = 1 + k \/ (rolled /\ return_val_reg'[k] = 0)
  <2>1. CASE instance[k] = "finish"
    <3>1. return_val_reg'[k] = arg[k]
      BY <2>1, OneInstance
    <3> QED
      BY <1>11, <2>1, <3>1
  <2>2. CASE instance[k] # "finish" /\ k \in CalledInstances
    <3>1. return_val_reg'[k] = 0
      BY <1>2, <2>2, OneInstance
    <3>2. Starting /\ ~rolled => k \notin finish_reg
      BY <1>1, <1>5, <1>10, <2>2
    <3> QED
      BY <1>8, <2>2, <3>1, <3>2
  <2>3. CASE instance[k] # "finish" /\ k \notin CalledInstances
    <3>1. return_val_reg'[k] = return_val_reg[k]
      BY <2>3, OneInstance
    <3> QED
      BY <1>8, <1>10, <2>3, <3>1
  <2> QED
    BY <2>1, <2>2, <2>3
<1>15. k >= legup_count' \/ k \in start' \/ k \notin Instances =>
          instance'[k] = "LEGUP_0" /\ k \notin finish_reg'
  <2>1. k >= legup_count' \/ k \in start' => k >= legup_count
    BY <1>1, <1>2, <1>7
  <2> QED
    BY <1>8, <1>9, <1>10, <2>1
<1>16. k \in finish_reg' => instance'[k] = "LEGUP_0"
  BY <1>8, <1>9, <1>10
<1>17. k < Before /\ k \in Instances => k \in finish_reg'
  BY <1>8, <1>10
<1> QED
  BY <1>1, <1>13, <1>14, <1>15, <1>16, <1>17 DEF InstanceProgress

\* What the rest of the program does to one instance.
LEMMA RunningInstance ==
  ASSUME IInv, Master, ~Create, NEW returning, Hardware(returning), NEW k \in InstanceNums
  PROVE  InstanceProgress(k)'
<1> USE DEF IInv
<1>1. /\ k \in Nat /\ Before \in Nat /\ legup_count \in Nat
      /\ Instances' = Instances /\ rolled' = rolled /\ round \in 1 .. Rounds
      /\ round' = round => Before' = Before /\ Starting' = Starting
  BY InstanceSets, CurrentFork, SameFork DEF Registers
<1>2. /\ legup_count' = legup_count /\ arg' = arg /\ start' \subseteq start
      /\ ~(main = "before_create" /\ main' = "create")
  BY DEF Master, CreateCall, Join, JoinReturn, Stay
<1>3. k \in finish_reg' <=> (k \in finish_reg /\ k \notin start) \/ instance[k] = "finish"
  BY OneInstance
<1>4. instance'[k] = "LEGUP_0" <=> instance[k] \in {"LEGUP_0", "finish"} /\ k \notin start
  BY OneInstance
<1>5. /\ k \in finish_reg => instance[k] = "LEGUP_0"
      /\ k >= legup_count \/ k \in start \/ k \notin Instances =>
            instance[k] = "LEGUP_0" /\ k \notin finish_reg
      /\ k < legup_count /\ k \in Instances =>
            arg[k] = 1 + k /\ (k \in start \cup finish_reg \/ instance[k] # "LEGUP_0")
      /\ Starting /\ k \in finish_reg => return_val_reg[k] = 1 + k \/ (rolled /\ return_val_reg[k] = 0)
      /\ k < Before /\ k \in Instances => k \in finish_reg
  BY DEF AllInstances, InstanceProgress
<1>6. instance[k] = "finish" => k < legup_count /\ k \in Instances /\ arg[k] = 1 + k
  BY <1>1, <1>5
<1>7. k \in start => k < legup_count /\ k \in Instances
  <2>1. i \in Threads /\ i \in Nat /\ (Starting => Before + i \in Instances)
    BY CurrentFork DEF Registers
  <2> QED
    BY <1>1, <2>1 DEF ForkProgress
<1>8. k \in start' => k \notin start
  <2>1. start' = {} \/ (start' = start /\ start = {})
    <3>1. CASE CreateCall
      BY <3>1, Called DEF CreateCall, ForkProgress
    <3>2. CASE Join \/ JoinReturn \/ Stay
      BY <3>2 DEF Join, JoinReturn, Stay, ForkProgress
    <3> QED
      BY <3>1, <3>2 DEF Master
  <2> QED
    BY <2>1
<1>9. k \in finish_reg' => instance'[k] = "LEGUP_0"
  BY <1>3, <1>4, <1>5
<1>10. k >= legup_count' \/ k \in start' \/ k \notin Instances =>
          instance'[k] = "LEGUP_0" /\ k \notin finish_reg'
  BY <1>1, <1>2, <1>3, <1>4, <1>5, <1>6, <1>7, <1>8
<1>11. k < legup_count' /\ k \in Instances =>
          arg'[k] = 1 + k /\ (k \in start' \cup finish_reg' \/ instance'[k] # "LEGUP_0")
  BY <1>2, <1>3, <1>4, <1>5
<1>12. round' = round \/ (JoinReturn /\ round' = round + 1 /\ toJoin' = {})
  BY DEF Master, CreateCall, Join, JoinReturn, Stay
<1>13. Starting' => Starting
  <2>1. JoinReturn => Starting
    BY PollStartedFork
  <2> QED
    BY <1>1, <1>12, <2>1
<1>14. Starting' /\ k \in finish_reg' =>
          return_val_reg'[k] = 1 + k \/ (rolled' /\ return_val_reg'[k] = 0)
  <2>1. CASE instance[k] = "finish"
    <3>1. return_val_reg'[k] = arg[k]
      BY <2>1, OneInstance
    <3> QED
      BY <1>6, <2>1, <3>1
  <2>2. CASE instance[k] # "finish"
    <3>1. return_val_reg'[k] = return_val_reg[k]
      BY <1>2, <2>2, OneInstance
    <3> QED
      BY <1>1, <1>3, <1>5, <1>13, <2>2, <3>1
  <2> QED
    BY <2>1, <2>2
<1>15. k < Before' /\ k \in Instances => k \in finish_reg'
  <2>1. k \in finish_reg => k \in finish_reg'
    BY <1>3, <1>5
  <2>2. CASE round' = round
    BY <1>1, <1>5, <2>1, <2>2
  <2>3. CASE JoinReturn /\ round' = round + 1 /\ toJoin' = {}
    <3>1. Before' = Before + NumThreads
      BY <1>1, <2>3, Numbers DEF Before
    <3>2. \A t \in Threads : Joined(t) \/ t = i
      BY <2>3, PollStartedFork DEF JoinReturn, Joined, Created
    <3>3. \A t \in Threads : Before + t \in finish_reg
      BY <2>3, <3>2, PollStartedFork DEF AllThreads, ThreadProgress
    <3>4. ASSUME k >= Before, k < Before + NumThreads PROVE k \in finish_reg
      <4>1. k - Before \in Threads /\ k = Before + (k - Before)
        BY <1>1, <3>4, NumThreadsAssumption DEF Threads
      <4> QED
        BY <3>3, <4>1
    <3> QED
      BY <1>1, <1>5, <2>1, <3>1, <3>4, NumThreadsAssumption
  <2> QED
    BY <1>12, <2>2, <2>3
<1> QED
  BY <1>1, <1>2, <1>9, <1>10, <1>11, <1>14, <1>15 DEF InstanceProgress

\* A join is the only step that makes a thread joined, and takes the value that
\* its instance has kept.
LEMMA ThreadStep ==
  ASSUME IInv, Master, NEW returning, Hardware(returning), NEW t \in Threads
  PROVE  ThreadProgress(t)'
<1> USE DEF IInv
<1>1. /\ rolled' = rolled /\ Before \in Nat /\ Before + t \in InstanceNums /\ i \in Threads
      /\ round' = round => Before' = Before /\ Starting' = Starting
  BY CurrentFork, SameFork DEF Registers
<1>2. SUFFICES ASSUME Joined(t)'
               PROVE  /\ Starting' /\ Before' + t \in finish_reg'
                      /\ result'[t] = 1 + (Before' + t) \/ (rolled' /\ result'[t] = 0)
  BY DEF ThreadProgress
<1>3. \/ round' = round /\ Joined(t) /\ result'[t] = result[t]
      \/ round' = round /\ JoinReturn /\ t = i
  <2>1. CASE Create
    BY <1>2, <2>1 DEF Create, Joined, Created, ForkProgress
  <2>2. CASE CreateCall
    <3>1. main = "create" /\ toJoin' = toJoin /\ toJoin = 0 .. i
      BY <2>2 DEF CreateCall, ForkProgress
    <3>2. CASE i < NumThreads - 1
      BY <1>2, <2>2, <3>1, <3>2 DEF CreateCall, Joined, Created
    <3>3. CASE ~(i < NumThreads - 1)
      <4>1. toJoin = Threads
        BY <3>1, <3>3, CurrentFork DEF Threads
      <4> QED
        BY <1>2, <3>1, <4>1 DEF Joined
    <3> QED
      BY <3>2, <3>3
  <2>3. CASE Join \/ Stay
    BY <1>2, <2>3 DEF Join, Stay, Joined, Created
  <2>4. CASE JoinReturn
    BY <1>2, <2>4 DEF JoinReturn, Joined, Created, Registers
  <2> QED
    BY <2>1, <2>2, <2>3, <2>4 DEF Master
<1>4. Before + t \in finish_reg /\ Before + t \notin start => Before + t \in finish_reg'
  BY <1>1, OneInstance
<1>5. CASE Joined(t)
  <2>1. start = {} \/ Before + t \notin start
    BY <1>1, <1>5 DEF ThreadProgress, AllThreads, AllInstances, InstanceProgress
  <2>2. /\ Starting /\ Before + t \in finish_reg
        /\ result[t] = 1 + (Before + t) \/ (rolled /\ result[t] = 0)
    BY <1>5 DEF AllThreads, ThreadProgress
  <2>3. CASE result'[t] = result[t]
    BY <1>1, <1>3, <1>4, <2>1, <2>2, <2>3
  <2>4. CASE JoinReturn /\ t = i
    BY <1>5, <2>4, PollStartedFork DEF Joined
  <2> QED
    BY <1>3, <2>3, <2>4
<1>6. CASE round' = round /\ JoinReturn /\ t = i
  <2>1. Starting /\ Before + t \in finish_reg /\ start = {} /\ threadVar[i] = Before + i
    BY <1>6, PollStartedFork DEF ForkProgress
  <2>2. result'[t] = return_val_reg[Before + t]
    BY <1>1, <1>6, <2>1 DEF JoinReturn, Registers
  <2>3. \/ return_val_reg[Before + t] = 1 + (Before + t)
        \/ rolled /\ return_val_reg[Before + t] = 0
    BY <1>1, <2>1 DEF AllInstances, InstanceProgress
  <2> QED
    BY <1>1, <1>4, <1>6, <2>1, <2>2, <2>3
<1> QED
  BY <1>3, <1>5, <1>6

LEMMA StepInductive == IInv /\ [Next]_vars => IInv'
<1> SUFFICES ASSUME IInv, [Next]_vars PROVE IInv'
  OBVIOUS
<1>1. ASSUME Master, NEW returning, Hardware(returning) PROVE IInv'
  <2>1. ASSUME NEW k \in InstanceNums PROVE InstanceProgress(k)'
    BY <1>1, CreatedInstance, RunningInstance
  <2>2. ASSUME NEW t \in Threads PROVE ThreadProgress(t)'
    BY <1>1, ThreadStep
  <2> QED
    BY <1>1, <2>1, <2>2, RegistersStep, ForkStep DEF IInv, AllInstances, AllThreads
<1>2. CASE UNCHANGED vars
  BY <1>2 DEF vars, IInv, Registers, ForkProgress, Before, Starting, OwnInstances, Instances,
              AllInstances, AllThreads, InstanceProgress, ThreadProgress, Joined, Created
<1> QED
  BY <1>1, <1>2, NextSplit

\* The types, and that the counter stays below a fork's threads times the forks.
THEOREM PthreadTypes == Spec => []TypeOK
<1>1. IInv => TypeOK
  <2> SUFFICES ASSUME IInv PROVE legup_count \in 0 .. (NumThreads * Rounds)
    BY DEF IInv, Registers, TypeOK
  <2>1. /\ Before + NumThreads <= NumThreads * Rounds /\ Before \in Nat
        /\ i \in Nat /\ i < NumThreads /\ NumThreads \in Nat
    BY Numbers, CurrentFork DEF IInv, Registers, Before
  <2>2. legup_count \in Nat /\ legup_count <= Before + NumThreads
    BY <2>1 DEF IInv, Registers, ForkProgress
  <2>3. \A a, c \in Nat : a * c \in Nat
    OBVIOUS
  <2>4. PICK m \in Nat : m = NumThreads * Rounds
    BY <2>3, NumThreadsAssumption, RoundsAssumption
  <2> QED
    BY <2>1, <2>2, <2>4
<1> QED
  BY <1>1, InitInductive, StepInductive, PTL DEF Spec

\* A join waits for the thread it names.
THEOREM PthreadJoinWaits == Spec => []JoinWaitsForThread
<1>1. IInv => JoinWaitsForThread
  <2> SUFFICES ASSUME IInv, NEW t \in Threads, Joined(t)
               PROVE  /\ threadVar[t] \in Instances
                      /\ instance[threadVar[t]] = "LEGUP_0"
                      /\ arg[threadVar[t]] = ReturnValue(t, round)
    BY DEF JoinWaitsForThread
  <2>1. /\ Starting /\ Before + t \in finish_reg /\ Before + t \in Instances
        /\ Before + t \in InstanceNums /\ ReturnValue(t, round) = 1 + (Before + t)
    BY CurrentFork DEF IInv, AllThreads, ThreadProgress
  <2>2. threadVar[t] = Before + t
    BY DEF IInv, ForkProgress, Joined
  <2>3. Before + t < legup_count \/ Before + t >= legup_count
    BY <2>1, CurrentFork DEF IInv, Registers
  <2> QED
    BY <2>1, <2>2, <2>3 DEF IInv, AllInstances, InstanceProgress
<1> QED
  BY <1>1, InitInductive, StepInductive, PTL DEF Spec

\* An instance is started only while it is idle and unfinished.
THEOREM PthreadNoRestart == Spec => []NoStartWhileRunning
<1>1. IInv => NoStartWhileRunning
  BY DEF IInv, Registers, AllInstances, InstanceProgress, NoStartWhileRunning
<1> QED
  BY <1>1, InitInductive, StepInductive, PTL DEF Spec

\* What a join stores is its own thread's value, or 0 from a rolled loop.
THEOREM PthreadResults == Spec => []ResultOfOwnThread
<1>1. IInv => ResultOfOwnThread
  BY CurrentFork DEF IInv, AllThreads, ThreadProgress, ResultOfOwnThread
<1> QED
  BY <1>1, InitInductive, StepInductive, PTL DEF Spec

\* A later fork starts its threads if its create calls are its own and unrolled;
\* else it starts nothing and its joins never return.
THEOREM PthreadLaterForks == Spec => []LaterForksNeedOwnCalls
<1>1. ASSUME IInv, round > 1, OwnInstances, NEW t \in Threads, Created(t)
      PROVE  /\ threadVar[t] \in Instances
             /\ arg[threadVar[t]] = ReturnValue(t, round)
             /\ \/ threadVar[t] \in start \cup finish_reg
                \/ instance[threadVar[t]] # "LEGUP_0"
  <2>1. /\ threadVar[t] = Before + t /\ Before + t \in Instances /\ Before + t \in InstanceNums
        /\ ReturnValue(t, round) = 1 + (Before + t) /\ Before \in Nat /\ t \in Nat
        /\ i \in Nat /\ t < NumThreads /\ NumThreads \in Nat
    BY <1>1, CurrentFork DEF IInv, ForkProgress, Starting
  <2>2. Before + t < legup_count
    <3>1. CASE main = "before_create" \/ main = "create"
      <4>1. t \in toJoin
        BY <1>1, <3>1 DEF Created
      <4> QED
        BY <1>1, <2>1, <3>1, <4>1 DEF IInv, ForkProgress
    <3>2. CASE main \in {"before_join", "join", "done"}
      BY <1>1, <2>1, <3>2 DEF IInv, ForkProgress
    <3> QED
      BY <1>1, <3>1, <3>2 DEF IInv, Registers
  <2> QED
    BY <1>1, <2>1, <2>2 DEF IInv, AllInstances, InstanceProgress
<1>2. ASSUME IInv, round > 1, ~OwnInstances
      PROVE  /\ start = {} /\ \A k \in InstanceNums : instance[k] = "LEGUP_0"
             /\ \A t \in toJoin : threadVar[t] \notin Instances
             /\ main # "done"
  <2>1. ~Starting
    BY <1>2 DEF Starting
  <2>2. start = {} /\ main # "done"
    BY <1>2, <2>1 DEF IInv, ForkProgress
  <2>3. \A t \in toJoin : threadVar[t] \notin Instances
    BY <1>2, <2>1, CurrentFork DEF IInv, Registers, ForkProgress, Created
  <2>4. ASSUME NEW k \in InstanceNums PROVE instance[k] = "LEGUP_0"
    <3>1. k \in Instances => k < Before
      <4>1. round = 2 /\ round \in 1 .. Rounds /\ Instances = Threads
        BY <1>2, <2>1, CurrentFork DEF IInv, Registers, Instances
      <4>2. Before >= NumThreads /\ Before \in Nat
        BY <4>1, Numbers DEF Before
      <4> QED
        BY <4>1, <4>2, NumThreadsAssumption DEF Threads
    <3> QED
      BY <1>2, <2>4, <3>1 DEF IInv, AllInstances, InstanceProgress
  <2> QED
    BY <2>2, <2>3, <2>4
<1>3. IInv => LaterForksNeedOwnCalls
  BY <1>1, <1>2 DEF LaterForksNeedOwnCalls
<1> QED
  BY <1>3, InitInductive, StepInductive, PTL DEF Spec
-----------------------------------------------------------------------------
\* The passes that lower the API, a program of their own.

\* Every name a program can have for a mutex.
AllNames == Names \cup {<<"OMP_atomic", n>> : n \in Nat}
Operations == {"legup_lock", "legup_unlock", "legup_barrier_wait", "load"}
MutexCalls == Calls("legup_lock") \cup Calls("legup_unlock")

NameOf == AllNames \cup {<<"barrier", 0>>, <<"load", 0>>}
SiteRecord == [op : Operations, operand : Nat, volatile : BOOLEAN, name : NameOf]

SiteTypes ==
    /\ sites \in Seq(SiteRecord)
    /\ mutexMap \in Seq(AllNames)
    /\ nextSite \in Nat \ {0} /\ numOMPatomic \in Nat

\* No mutex is in the map twice, and every mutex that is held is in it.
MapExact ==
    /\ \A j, k \in 1 .. Len(mutexMap) : mutexMap[j] = mutexMap[k] => j = k
    /\ \A name \in held : \E k \in 1 .. Len(mutexMap) : mutexMap[k] = name

\* A rewritten call has the position of its mutex as operand.
CallsNumbered ==
    \A k \in MutexCalls : /\ sites[k].operand < Len(mutexMap)
                          /\ mutexMap[sites[k].operand + 1] = sites[k].name

\* While a lock call is the last of the lock and unlock calls, loads are volatile.
OpenAtomic ==
    (\E j \in Calls("legup_lock") : \A u \in Calls("legup_unlock") : u <= j) => atomicRegion

\* What the second scan has counted: the last lock call before its position
\* decides the number of lock cores.
ScannedCores ==
    /\ phase = "lower" => nextSite = 1
    /\ \/ /\ syncMap["lock"] = 0
          /\ \A l \in Calls("legup_lock") : l >= nextSite
       \/ \E l \in Calls("legup_lock") :
             /\ l < nextSite /\ syncMap["lock"] = sites[l].operand + 1
             /\ \A j \in Calls("legup_lock") : j < nextSite => j <= l
    /\ syncMap["barrier"] =
          IF \E b \in Calls("legup_barrier_wait") : b < nextSite THEN 1 ELSE 0
    /\ DOMAIN syncMap = {"lock", "barrier"}

LoweringInv == SiteTypes /\ MapExact /\ CallsNumbered /\ OpenAtomic /\ ScannedCores /\ LoadsAfterLockVolatile
\* One more site leaves the earlier ones where they were.
LEMMA SiteStep ==
  ASSUME SiteTypes, NEW op \in Operations, NEW operand \in Nat,
         NEW volatile \in BOOLEAN, NEW name \in NameOf,
         Site(op, operand, volatile, name)
  PROVE  LET last == Len(sites) + 1
         IN  /\ sites' \in Seq(SiteRecord)
             /\ Len(sites) \in Nat /\ Len(sites') = last
             /\ \A k \in 1 .. Len(sites) : sites'[k] = sites[k]
             /\ sites'[last] = [op |-> op, operand |-> operand, volatile |-> volatile,
                                name |-> name]
             /\ \A o : Calls(o)' = IF o = op THEN Calls(o) \cup {last} ELSE Calls(o)
             /\ \A o : Calls(o) \subseteq 1 .. Len(sites) /\ Calls(o)' \subseteq 1 .. last
<1> DEFINE site == [op |-> op, operand |-> operand, volatile |-> volatile, name |-> name]
           last == Len(sites) + 1
<1>1. site \in SiteRecord
  BY DEF SiteRecord
<1>2. sites \in Seq(SiteRecord) /\ sites' = Append(sites, site)
  BY DEF SiteTypes, Site
<1>3. sites' \in Seq(SiteRecord) /\ Len(sites) \in Nat /\ Len(sites') = last
  BY <1>1, <1>2
<1>4. /\ \A k \in 1 .. Len(sites) : sites'[k] = sites[k]
      /\ sites'[last] = site
  BY <1>1, <1>2
<1>5. \A o : Calls(o) \subseteq 1 .. Len(sites) /\ Calls(o)' \subseteq 1 .. last
  BY <1>3 DEF Calls
<1>6. ASSUME NEW o
      PROVE  Calls(o)' = IF o = op THEN Calls(o) \cup {last} ELSE Calls(o)
  <2>1. \A k \in 1 .. last : sites'[k].op = IF k = last THEN op ELSE sites[k].op
    BY <1>3, <1>4
  <2>2. 1 .. Len(sites') = (1 .. Len(sites)) \cup {last} /\ last \notin 1 .. Len(sites)
    BY <1>3
  <2> QED
    BY <2>1, <2>2 DEF Calls
<1> QED
  BY <1>3, <1>4, <1>5, <1>6

\* Inserting a name keeps the positions of the others, and the name has one.
LEMMA InsertStep ==
  ASSUME SiteTypes, MapExact, NEW name \in AllNames, mutexMap' = Insert(name)
  PROVE  /\ mutexMap' \in Seq(AllNames)
         /\ Len(mutexMap) \in Nat /\ Len(mutexMap') \in Nat /\ Len(mutexMap) <= Len(mutexMap')
         /\ \A k \in 1 .. Len(mutexMap) : mutexMap'[k] = mutexMap[k]
         /\ \A j, k \in 1 .. Len(mutexMap') : mutexMap'[j] = mutexMap'[k] => j = k
         /\ \E k \in 1 .. Len(mutexMap') : mutexMap'[k] = name
<1>1. mutexMap \in Seq(AllNames)
  BY DEF SiteTypes
<1>2. CASE \E k \in 1 .. Len(mutexMap) : mutexMap[k] = name
  BY <1>1, <1>2 DEF Insert, MapExact
<1>3. CASE ~\E k \in 1 .. Len(mutexMap) : mutexMap[k] = name
  <2>1. mutexMap' = Append(mutexMap, name)
    BY <1>3 DEF Insert
  <2>2. /\ mutexMap' \in Seq(AllNames)
        /\ Len(mutexMap) \in Nat /\ Len(mutexMap') = Len(mutexMap) + 1
        /\ \A k \in 1 .. Len(mutexMap) : mutexMap'[k] = mutexMap[k]
        /\ mutexMap'[Len(mutexMap) + 1] = name
    BY <1>1, <2>1
  <2>3. ASSUME NEW j \in 1 .. Len(mutexMap'), NEW k \in 1 .. Len(mutexMap'),
               mutexMap'[j] = mutexMap'[k]
        PROVE  j = k
    BY <1>3, <2>2, <2>3 DEF MapExact
  <2> QED
    BY <2>2, <2>3
<1> QED
  BY <1>2, <1>3

\* A name's position, counted from zero.
LEMMA IndexOfName ==
  ASSUME NEW map, Len(map) \in Nat, NEW name, \E k \in 1 .. Len(map) : map[k] = name
  PROVE  /\ IndexOf(name, map) \in Nat /\ IndexOf(name, map) < Len(map)
         /\ map[IndexOf(name, map) + 1] = name
<1>1. PICK k \in 1 .. Len(map) : map[k] = name
  OBVIOUS
<1>2. k - 1 \in 0 .. (Len(map) - 1) /\ map[(k - 1) + 1] = name
  BY <1>1
<1>3. \E j \in 0 .. (Len(map) - 1) : map[j + 1] = name
  BY <1>2
<1>4. /\ IndexOf(name, map) \in 0 .. (Len(map) - 1)
      /\ map[IndexOf(name, map) + 1] = name
  BY <1>3 DEF IndexOf
<1> QED
  BY <1>4

LEMMA LoweringInvInit == LoweringInit => LoweringInv
BY DEF LoweringInit, LoweringInv, SiteTypes, MapExact, CallsNumbered, OpenAtomic, ScannedCores,
       LoadsAfterLockVolatile, MutexCalls, Calls

\* What every new site keeps, given that its number and its volatility are
\* right and that the map only grows at its end.
LEMMA SiteKeeps ==
  ASSUME LoweringInv, NEW op \in Operations, NEW operand \in Nat,
         NEW volatile \in BOOLEAN, NEW name \in NameOf,
         Site(op, operand, volatile, name),
         Len(mutexMap) \in Nat, Len(mutexMap') \in Nat, Len(mutexMap) <= Len(mutexMap'),
         \A k \in 1 .. Len(mutexMap) : mutexMap'[k] = mutexMap[k],
         op \in {"legup_lock", "legup_unlock"} =>
            operand < Len(mutexMap') /\ mutexMap'[operand + 1] = name,
         op = "legup_lock" => atomicRegion',
         op \notin {"legup_lock", "legup_unlock"} => atomicRegion' = atomicRegion,
         op = "load" /\ atomicRegion => volatile
  PROVE  /\ sites' \in Seq(SiteRecord) /\ nextSite' = nextSite
         /\ CallsNumbered' /\ OpenAtomic' /\ ScannedCores' /\ LoadsAfterLockVolatile'
<1> DEFINE last == Len(sites) + 1
<1>1. /\ sites' \in Seq(SiteRecord)
      /\ Len(sites) \in Nat /\ Len(sites') = last
      /\ \A k \in 1 .. Len(sites) : sites'[k] = sites[k]
      /\ sites'[last] = [op |-> op, operand |-> operand, volatile |-> volatile, name |-> name]
      /\ \A o : Calls(o)' = IF o = op THEN Calls(o) \cup {last} ELSE Calls(o)
      /\ \A o : Calls(o) \subseteq 1 .. Len(sites) /\ Calls(o)' \subseteq 1 .. last
  BY SiteStep DEF LoweringInv
<1>2. \A k \in 1 .. Len(sites) : sites[k] \in SiteRecord
  BY <1>1 DEF LoweringInv, SiteTypes
<1>3. CallsNumbered'
  <2> SUFFICES ASSUME NEW k \in MutexCalls'
               PROVE  /\ sites'[k].operand < Len(mutexMap')
                      /\ mutexMap'[sites'[k].operand + 1] = sites'[k].name
    BY DEF CallsNumbered
  <2>1. CASE k = last
    <3>1. last \notin Calls("legup_lock") \cup Calls("legup_unlock")
      BY <1>1
    <3>2. op \in {"legup_lock", "legup_unlock"}
      BY <1>1, <2>1, <3>1 DEF MutexCalls
    <3> QED
      BY <1>1, <2>1, <3>2
  <2>2. CASE k # last
    <3>1. k \in MutexCalls /\ sites'[k] = sites[k] /\ k \in 1 .. Len(sites)
      BY <1>1, <2>2 DEF MutexCalls
    <3>2. sites[k].operand \in Nat
      BY <1>2, <3>1 DEF SiteRecord
    <3>3. sites[k].operand < Len(mutexMap) /\ mutexMap[sites[k].operand + 1] = sites[k].name
      BY <3>1 DEF LoweringInv, CallsNumbered
    <3>4. sites[k].operand + 1 \in 1 .. Len(mutexMap)
      BY <3>2, <3>3
    <3>5. mutexMap'[sites[k].operand + 1] = mutexMap[sites[k].operand + 1]
      BY <3>4
    <3>6. sites[k].operand < Len(mutexMap')
      BY <3>2, <3>3
    <3> QED
      BY <3>1, <3>3, <3>5, <3>6
  <2> QED
    BY <2>1, <2>2
<1>4. OpenAtomic'
  <2>1. CASE op = "legup_lock"
    BY <2>1 DEF OpenAtomic
  <2>2. CASE op = "legup_unlock"
    <3>1. \A j \in Calls("legup_lock")' : j < last
      BY <1>1, <2>2
    <3>2. last \in Calls("legup_unlock")'
      BY <1>1, <2>2
    <3> QED
      BY <1>1, <3>1, <3>2 DEF OpenAtomic
  <2>3. CASE op \notin {"legup_lock", "legup_unlock"}
    <3>1. /\ Calls("legup_lock")' = Calls("legup_lock")
          /\ Calls("legup_unlock")' = Calls("legup_unlock")
      BY <1>1, <2>3
    <3> QED
      BY <2>3, <3>1 DEF LoweringInv, OpenAtomic
  <2> QED
    BY <2>1, <2>2, <2>3
<1>5. ScannedCores' /\ nextSite' = nextSite
  <2>1. phase = "lower" /\ phase' = "lower" /\ nextSite' = nextSite /\ syncMap' = syncMap
    BY DEF Site
  <2>2. nextSite = 1
    BY <2>1 DEF LoweringInv, ScannedCores
  <2>3. ASSUME NEW o, NEW k \in Calls(o)' PROVE k >= 1 /\ ~(k < 1)
    <3>1. k \in 1 .. last
      BY <1>1
    <3> QED
      BY <1>1, <3>1
  <2>4. /\ \A l \in Calls("legup_lock") : ~(l < 1)
        /\ \A b \in Calls("legup_barrier_wait") : ~(b < 1)
    BY <1>1
  <2>5. syncMap["lock"] = 0 /\ syncMap["barrier"] = 0 /\ DOMAIN syncMap = {"lock", "barrier"}
    BY <2>2, <2>4 DEF LoweringInv, ScannedCores
  <2> QED
    BY <2>1, <2>2, <2>3, <2>5 DEF ScannedCores
<1>6. LoadsAfterLockVolatile'
  <2> SUFFICES ASSUME NEW j \in Calls("legup_lock")', NEW k \in Calls("load")', j < k,
                      ~(\E u \in Calls("legup_unlock")' : j < u /\ u < k)
               PROVE  sites'[k].volatile
    BY DEF LoadsAfterLockVolatile
  <2>1. j \in Calls("legup_lock") /\ j \in 1 .. Len(sites)
    <3>1. k \in 1 .. last
      BY <1>1
    <3> QED
      BY <1>1, <3>1
  <2>2. ~(\E u \in Calls("legup_unlock") : j < u /\ u < k)
    BY <1>1
  <2>3. CASE k = last
    <3>1. op = "load"
      BY <1>1, <2>3
    <3>2. \A u \in Calls("legup_unlock") : u <= j
      BY <1>1, <2>1, <2>2, <2>3
    <3> QED
      BY <1>1, <2>1, <2>3, <3>1, <3>2 DEF LoweringInv, OpenAtomic
  <2>4. CASE k # last
    <3>1. k \in Calls("load") /\ sites'[k] = sites[k]
      BY <1>1, <2>4
    <3> QED
      BY <2>1, <2>2, <3>1 DEF LoweringInv, LoadsAfterLockVolatile
  <2> QED
    BY <2>3, <2>4
<1> QED
  BY <1>1, <1>3, <1>4, <1>5, <1>6

LEMMA LockStep ==
  ASSUME LoweringInv, NEW name \in AllNames, ReplaceLock(name)
  PROVE  LoweringInv'
<1>1. /\ mutexMap' = Insert(name) /\ held' = held \cup {name} /\ atomicRegion' = TRUE
      /\ numOMPatomic' = numOMPatomic
  BY DEF ReplaceLock
<1>2. /\ mutexMap' \in Seq(AllNames)
      /\ Len(mutexMap) \in Nat /\ Len(mutexMap') \in Nat /\ Len(mutexMap) <= Len(mutexMap')
      /\ \A k \in 1 .. Len(mutexMap) : mutexMap'[k] = mutexMap[k]
      /\ \A j, k \in 1 .. Len(mutexMap') : mutexMap'[j] = mutexMap'[k] => j = k
      /\ \E k \in 1 .. Len(mutexMap') : mutexMap'[k] = name
  BY <1>1, InsertStep DEF LoweringInv
<1>3. PICK n \in Nat : /\ n = IndexOf(name, mutexMap') /\ n < Len(mutexMap')
                       /\ mutexMap'[n + 1] = name
  BY <1>2, IndexOfName
<1>4. Site("legup_lock", n, FALSE, name) /\ "legup_lock" \in Operations /\ name \in NameOf
  BY <1>3 DEF ReplaceLock, Operations, NameOf
<1>5. /\ sites' \in Seq(SiteRecord) /\ nextSite' = nextSite
      /\ CallsNumbered' /\ OpenAtomic' /\ ScannedCores' /\ LoadsAfterLockVolatile'
  BY <1>1, <1>2, <1>3, <1>4, SiteKeeps
<1>6. MapExact'
  <2>1. \A m \in held : \E k \in 1 .. Len(mutexMap') : mutexMap'[k] = m
    BY <1>2 DEF LoweringInv, MapExact
  <2> QED
    BY <1>1, <1>2, <2>1 DEF MapExact
<1> QED
  BY <1>1, <1>2, <1>5, <1>6 DEF LoweringInv, SiteTypes

LEMMA UnlockStep ==
  ASSUME LoweringInv, NEW name \in AllNames, ReplaceUnlock(name)
  PROVE  LoweringInv'
<1>1. /\ mutexMap' = mutexMap /\ held' = held \ {name} /\ atomicRegion' = FALSE
      /\ name \in held /\ numOMPatomic' \in {numOMPatomic, numOMPatomic + 1}
  BY DEF ReplaceUnlock
<1>2. mutexMap \in Seq(AllNames) /\ Len(mutexMap) \in Nat
  BY DEF LoweringInv, SiteTypes
<1>3. PICK n \in Nat : /\ n = IndexOf(name, mutexMap) /\ n < Len(mutexMap)
                       /\ mutexMap[n + 1] = name
  BY <1>1, <1>2, IndexOfName DEF LoweringInv, MapExact
<1>4. Site("legup_unlock", n, FALSE, name) /\ "legup_unlock" \in Operations /\ name \in NameOf
  BY <1>3 DEF ReplaceUnlock, Operations, NameOf
<1>a. /\ Len(mutexMap') \in Nat /\ Len(mutexMap) <= Len(mutexMap')
      /\ \A k \in 1 .. Len(mutexMap) : mutexMap'[k] = mutexMap[k]
      /\ n < Len(mutexMap') /\ mutexMap'[n + 1] = name
  BY <1>1, <1>2, <1>3
<1>5. /\ sites' \in Seq(SiteRecord) /\ nextSite' = nextSite
      /\ CallsNumbered' /\ OpenAtomic' /\ ScannedCores' /\ LoadsAfterLockVolatile'
  BY <1>2, <1>4, <1>a, SiteKeeps
<1>6. MapExact'
  BY <1>1 DEF LoweringInv, MapExact
<1> QED
  BY <1>1, <1>2, <1>5, <1>6 DEF LoweringInv, SiteTypes

\* Barriers and loads leave the mutexes alone.
LEMMA OtherSiteStep ==
  ASSUME LoweringInv, ReplaceBarrierWait \/ VisitLoad
  PROVE  LoweringInv'
<1>1. /\ mutexMap' = mutexMap /\ held' = held /\ atomicRegion' = atomicRegion
      /\ numOMPatomic' = numOMPatomic
  BY DEF ReplaceBarrierWait, VisitLoad
<1>2. mutexMap \in Seq(AllNames) /\ Len(mutexMap) \in Nat
  BY DEF LoweringInv, SiteTypes
<1>a. /\ Len(mutexMap') \in Nat /\ Len(mutexMap) <= Len(mutexMap')
      /\ \A k \in 1 .. Len(mutexMap) : mutexMap'[k] = mutexMap[k]
  BY <1>1, <1>2
<1>3. /\ sites' \in Seq(SiteRecord) /\ nextSite' = nextSite
      /\ CallsNumbered' /\ OpenAtomic' /\ ScannedCores' /\ LoadsAfterLockVolatile'
  <2>1. CASE ReplaceBarrierWait
    <3>1. /\ Site("legup_barrier_wait", 0, FALSE, <<"barrier", 0>>)
          /\ "legup_barrier_wait" \in Operations /\ <<"barrier", 0>> \in NameOf
      BY <2>1 DEF ReplaceBarrierWait, Operations, NameOf
    <3> QED
      BY <1>1, <1>2, <1>a, <3>1, SiteKeeps
  <2>2. CASE VisitLoad
    <3>1. PICK volatile \in BOOLEAN : volatile = (atomicRegion \/ barrierRegion)
      OBVIOUS
    <3>2. /\ Site("load", 0, volatile, <<"load", 0>>)
          /\ "load" \in Operations /\ <<"load", 0>> \in NameOf
      BY <2>2, <3>1 DEF VisitLoad, Operations, NameOf
    <3> QED
      BY <1>1, <1>2, <1>a, <3>1, <3>2, SiteKeeps
  <2> QED
    BY <2>1, <2>2
<1>4. MapExact'
  BY <1>1 DEF LoweringInv, MapExact
<1> QED
  BY <1>1, <1>2, <1>3, <1>4 DEF LoweringInv, SiteTypes

\* A step of the second scan counts one more call.
LEMMA ScanStep ==
  ASSUME LoweringInv, GetSynchronizationUsage
  PROVE  LoweringInv'
<1>1. /\ UNCHANGED <<phase, sites, mutexMap, numOMPatomic, atomicRegion, held>> /\ phase = "allocate"
      /\ nextSite <= Len(sites) /\ nextSite' = nextSite + 1
      /\ syncMap' = CASE sites[nextSite].op = "legup_lock" ->
                            [syncMap EXCEPT !["lock"] = sites[nextSite].operand + 1]
                      [] sites[nextSite].op = "legup_barrier_wait" ->
                            [syncMap EXCEPT !["barrier"] = 1]
                      [] OTHER -> syncMap
  BY DEF GetSynchronizationUsage
<1>2. nextSite \in Nat /\ nextSite # 0 /\ Len(sites) \in Nat /\ nextSite \in 1 .. Len(sites)
  BY <1>1 DEF LoweringInv, SiteTypes
<1>3. \A o : Calls(o)' = Calls(o) /\ Calls(o) \subseteq 1 .. Len(sites)
  BY <1>1 DEF Calls
<1>4. \A o : nextSite \in Calls(o) <=> sites[nextSite].op = o
  BY <1>2 DEF Calls
<1>5. ScannedCores'
  <2>1. DOMAIN syncMap = {"lock", "barrier"} /\ DOMAIN syncMap' = {"lock", "barrier"}
    BY <1>1 DEF LoweringInv, ScannedCores
  <2>2. \A k \in 1 .. Len(sites) : k < nextSite' <=> k < nextSite \/ k = nextSite
    BY <1>1, <1>2
  <2>3. CASE sites[nextSite].op = "legup_lock"
    <3>1. syncMap'["lock"] = sites[nextSite].operand + 1 /\ syncMap'["barrier"] = syncMap["barrier"]
      BY <1>1, <2>1, <2>3
    <3>2. nextSite \in Calls("legup_lock") /\ nextSite \notin Calls("legup_barrier_wait")
      BY <1>4, <2>3
    <3>3. \A j \in Calls("legup_lock") : j < nextSite' => j <= nextSite
      BY <1>2, <1>3, <2>2
    <3>4. (\E b \in Calls("legup_barrier_wait") : b < nextSite')
             <=> \E b \in Calls("legup_barrier_wait") : b < nextSite
      BY <1>3, <2>2, <3>2
    <3>5. nextSite < nextSite' /\ sites' = sites /\ phase' = phase
      BY <1>1, <1>2
    <3> QED
      BY <1>1, <1>3, <2>1, <3>1, <3>2, <3>3, <3>4, <3>5 DEF LoweringInv, ScannedCores
  <2>4. CASE sites[nextSite].op # "legup_lock"
    <3>1. nextSite \notin Calls("legup_lock") /\ syncMap'["lock"] = syncMap["lock"]
      BY <1>1, <1>4, <2>1, <2>4
    <3>2. \A j \in Calls("legup_lock") : j < nextSite' <=> j < nextSite
      BY <1>3, <2>2, <3>1
    <3>3. \A j \in Calls("legup_lock") : j >= nextSite' <=> j >= nextSite
      BY <1>1, <1>2, <1>3, <3>2
    <3>4. syncMap'["barrier"] =
             IF \E b \in Calls("legup_barrier_wait") : b < nextSite' THEN 1 ELSE 0
      <4>1. CASE sites[nextSite].op = "legup_barrier_wait"
        <5>1. nextSite \in Calls("legup_barrier_wait") /\ nextSite < nextSite'
          BY <1>1, <1>2, <1>4, <4>1
        <5>2. syncMap'["barrier"] = 1
          BY <1>1, <2>1, <4>1
        <5> QED
          BY <5>1, <5>2
      <4>2. CASE sites[nextSite].op # "legup_barrier_wait"
        <5>1. nextSite \notin Calls("legup_barrier_wait") /\ syncMap' = syncMap
          BY <1>1, <1>4, <2>4, <4>2
        <5>2. (\E b \in Calls("legup_barrier_wait") : b < nextSite')
                 <=> \E b \in Calls("legup_barrier_wait") : b < nextSite
          BY <1>3, <2>2, <5>1
        <5> QED
          BY <5>1, <5>2 DEF LoweringInv, ScannedCores
      <4> QED
        BY <4>1, <4>2
    <3>5. sites' = sites /\ phase' = phase
      BY <1>1
    <3> QED
      BY <1>1, <1>3, <2>1, <3>1, <3>2, <3>3, <3>4, <3>5 DEF LoweringInv, ScannedCores
  <2> QED
    BY <2>3, <2>4
<1> QED
  BY <1>1, <1>2, <1>3, <1>5 DEF LoweringInv, SiteTypes, MapExact, CallsNumbered, OpenAtomic, MutexCalls,
                         LoadsAfterLockVolatile

LEMMA LoweringStep == LoweringInv /\ [LoweringNext]_loweringVars => LoweringInv'
<1> SUFFICES ASSUME LoweringInv, [LoweringNext]_loweringVars PROVE LoweringInv'
  OBVIOUS
<1>1. Names \cup {AtomicName} \subseteq AllNames
  BY DEF LoweringInv, SiteTypes, AllNames, AtomicName
<1>2. ASSUME NEW name \in Names \cup {AtomicName}, ReplaceLock(name) PROVE LoweringInv'
  BY <1>1, <1>2, LockStep
<1>3. ASSUME NEW name \in Names \cup {AtomicName}, ReplaceUnlock(name) PROVE LoweringInv'
  BY <1>1, <1>3, UnlockStep
<1>4. CASE ReplaceBarrierWait \/ VisitLoad
  BY <1>4, OtherSiteStep
<1>5. CASE EndOfBasicBlock \/ EndOfModule
  <2>1. /\ UNCHANGED <<sites, mutexMap, numOMPatomic, atomicRegion, held, nextSite, syncMap>>
        /\ phase' = "lower" => phase = "lower"
    BY <1>5 DEF EndOfBasicBlock, EndOfModule
  <2>2. \A o : Calls(o)' = Calls(o)
    BY <2>1 DEF Calls
  <2>3. SiteTypes' /\ MapExact'
    BY <2>1 DEF LoweringInv, SiteTypes, MapExact
  <2>4. CallsNumbered' /\ OpenAtomic' /\ LoadsAfterLockVolatile'
    BY <2>1, <2>2 DEF LoweringInv, CallsNumbered, OpenAtomic, MutexCalls, LoadsAfterLockVolatile
  <2>5. ScannedCores'
    BY <2>1, <2>2 DEF LoweringInv, ScannedCores
  <2> QED
    BY <2>3, <2>4, <2>5 DEF LoweringInv
<1>6. CASE GetSynchronizationUsage
  BY <1>6, ScanStep
<1>7. CASE UNCHANGED loweringVars
  BY <1>7 DEF loweringVars, LoweringInv, SiteTypes, MapExact, CallsNumbered, OpenAtomic,
              MutexCalls, Calls, ScannedCores, LoadsAfterLockVolatile
<1> QED
  BY <1>2, <1>3, <1>4, <1>5, <1>6, <1>7 DEF LoweringNext
LEMMA OperandRange ==
  ASSUME LoweringInv, NEW k \in MutexCalls
  PROVE  /\ sites[k].operand \in Nat /\ Len(mutexMap) \in Nat
         /\ sites[k].operand < Len(mutexMap)
         /\ sites[k].operand + 1 \in 1 .. Len(mutexMap)
<1>1. sites[k] \in SiteRecord /\ Len(mutexMap) \in Nat
  BY DEF LoweringInv, SiteTypes, MutexCalls, Calls
<1>2. sites[k].operand \in Nat
  BY <1>1 DEF SiteRecord
<1>3. sites[k].operand < Len(mutexMap)
  BY DEF LoweringInv, CallsNumbered
<1> QED
  BY <1>1, <1>2, <1>3

\* Two calls have the same number exactly when they are about the same mutex.
THEOREM LoweringNumbers == LoweringSpec => []MutexNumbersAgree
<1>1. LoweringInv => MutexNumbersAgree
  <2> SUFFICES ASSUME LoweringInv, NEW j \in MutexCalls, NEW k \in MutexCalls
               PROVE  sites[j].operand = sites[k].operand <=> sites[j].name = sites[k].name
    BY DEF MutexNumbersAgree, MutexCalls
  <2>1. sites[j].operand + 1 \in 1 .. Len(mutexMap) /\ sites[k].operand + 1 \in 1 .. Len(mutexMap)
    BY OperandRange
  <2>2. /\ mutexMap[sites[j].operand + 1] = sites[j].name
        /\ mutexMap[sites[k].operand + 1] = sites[k].name
    BY DEF LoweringInv, CallsNumbered
  <2>3. sites[j].operand \in Nat /\ sites[k].operand \in Nat
    BY OperandRange
  <2>4. sites[j].name = sites[k].name => sites[j].operand + 1 = sites[k].operand + 1
    BY <2>1, <2>2 DEF LoweringInv, MapExact
  <2> QED
    BY <2>2, <2>3, <2>4
<1> QED
  BY <1>1, LoweringInvInit, LoweringStep, PTL DEF LoweringSpec

LEMMA LoweringTypesStep ==
  ASSUME LoweringInv, LoweringInv', LoweringTypeOK, [LoweringNext]_loweringVars
  PROVE  LoweringTypeOK'
<1>1. /\ sites \in Seq(SiteRecord) /\ Len(sites) \in Nat
      /\ sites' \in Seq(SiteRecord) /\ Len(sites') \in Nat
      /\ nextSite' \in Nat \ {0} /\ numOMPatomic' \in Nat
  BY DEF LoweringInv, SiteTypes
<1>2. \A k \in 1 .. Len(sites') : sites'[k].operand \in Nat /\ sites'[k].volatile \in BOOLEAN
  <2>1. \A r \in SiteRecord : r.operand \in Nat /\ r.volatile \in BOOLEAN
    BY DEF SiteRecord
  <2>2. \A k \in 1 .. Len(sites') : sites'[k] \in SiteRecord
    BY <1>1
  <2> QED
    BY <2>1, <2>2
<1>3. ASSUME NEW op, NEW operand, NEW volatile, NEW name, Site(op, operand, volatile, name)
      PROVE  /\ phase' = phase /\ nextSite' = nextSite /\ syncMap' = syncMap
             /\ Len(sites') <= MaxSites
  <2>1. Len(sites) < MaxSites /\ Len(sites') = Len(sites) + 1
    BY <1>1, <1>3 DEF Site
  <2> QED
    BY <1>1, <1>3, <2>1, BoundsAssumption DEF Site
<1>4. ASSUME NEW name, ReplaceLock(name) \/ ReplaceUnlock(name) PROVE LoweringTypeOK'
  <2>1. /\ atomicRegion' \in BOOLEAN /\ barrierRegion' = barrierRegion
        /\ \E op, operand : Site(op, operand, FALSE, name)
    BY <1>4 DEF ReplaceLock, ReplaceUnlock
  <2> QED
    BY <1>1, <1>2, <1>3, <2>1 DEF LoweringTypeOK
<1>5. CASE ReplaceBarrierWait \/ VisitLoad
  <2>1. /\ atomicRegion' = atomicRegion /\ barrierRegion' \in BOOLEAN
        /\ \E op, operand, volatile, name : Site(op, operand, volatile, name)
    BY <1>5 DEF ReplaceBarrierWait, VisitLoad, LoweringTypeOK
  <2> QED
    BY <1>1, <1>2, <1>3, <2>1 DEF LoweringTypeOK
<1>6. CASE EndOfBasicBlock \/ EndOfModule \/ UNCHANGED loweringVars
  BY <1>1, <1>6 DEF EndOfBasicBlock, EndOfModule, loweringVars, LoweringTypeOK
<1>7. CASE GetSynchronizationUsage
  <2>1. /\ UNCHANGED <<phase, sites, numOMPatomic, atomicRegion, barrierRegion>>
        /\ nextSite <= Len(sites) /\ nextSite' = nextSite + 1
    BY <1>7 DEF GetSynchronizationUsage
  <2>2. nextSite \in 1 .. Len(sites) /\ sites[nextSite].operand \in Nat
    BY <2>1 DEF LoweringTypeOK, LoweringInv, SiteTypes
  <2>3. nextSite' \in 1 .. (MaxSites + 1)
    BY <1>1, <2>1, <2>2, BoundsAssumption DEF LoweringTypeOK
  <2>4. syncMap' \in {[syncMap EXCEPT !["lock"] = sites[nextSite].operand + 1],
                      [syncMap EXCEPT !["barrier"] = 1], syncMap}
    BY <1>7 DEF GetSynchronizationUsage
  <2>5. syncMap' \in [{"lock", "barrier"} -> Nat]
    BY <2>2, <2>4 DEF LoweringTypeOK
  <2> QED
    BY <2>1, <2>3, <2>5 DEF LoweringTypeOK
<1> QED
  BY <1>4, <1>5, <1>6, <1>7 DEF LoweringNext

\* The types hold for any program and for as many sites as it may have.
THEOREM LoweringTypes == LoweringSpec => []LoweringTypeOK
<1>1. LoweringInit => LoweringTypeOK
  <2> SUFFICES ASSUME LoweringInit PROVE LoweringTypeOK
    OBVIOUS
  <2>1. Len(sites) = 0 /\ 1 .. Len(sites) = {}
    BY DEF LoweringInit
  <2>2. nextSite \in 1 .. (MaxSites + 1) /\ Len(sites) <= MaxSites
    BY <2>1, BoundsAssumption DEF LoweringInit
  <2>3. syncMap \in [{"lock", "barrier"} -> Nat]
    BY DEF LoweringInit
  <2> QED
    BY <2>1, <2>2, <2>3 DEF LoweringInit, LoweringTypeOK
<1>2. LoweringTypeOK /\ LoweringInv /\ LoweringInv' /\ [LoweringNext]_loweringVars => LoweringTypeOK'
  BY LoweringTypesStep
<1> QED
  BY <1>1, <1>2, LoweringInvInit, LoweringStep, PTL DEF LoweringSpec

\* Loads after a lock are volatile until the next unlock.
THEOREM LoweringLoadsVolatile == LoweringSpec => []LoadsAfterLockVolatile
BY LoweringInvInit, LoweringStep, PTL DEF LoweringSpec, LoweringInv

\* The decoder takes apart what the library puts together, as far as the seven
\* bits of tag_lock reach.
LEMMA AddressFields ==
  \A m \in 0 .. 127 :
     /\ tag_lock(LockAddress(m)) = m /\ tag_lock(UnlockAddress(m)) = m
     /\ tag_barrier(LockAddress(m)) = 0 /\ tag_barrier(UnlockAddress(m)) = 0
     /\ StatusAddress(LockAddress(m)) = 0 /\ StatusAddress(UnlockAddress(m)) = 1
BY DEF tag_lock, tag_barrier, StatusAddress, LockAddress, UnlockAddress

LEMMA BarrierFields ==
  /\ tag_lock(BarrierWaitAddress) = 0 /\ tag_barrier(BarrierWaitAddress) = 1
  /\ tag_lock(BarrierInitAddress) = 0 /\ tag_barrier(BarrierInitAddress) = 1
BY DEF tag_lock, tag_barrier, BarrierWaitAddress, BarrierInitAddress

\* When both scans are over, there are as many lock cores as the last lock call
\* says, and a barrier core if there is a barrier call.
LEMMA AllScanned ==
  ASSUME LoweringInv, Allocated
  PROVE  /\ \/ syncMap["lock"] = 0 /\ Calls("legup_lock") = {}
            \/ \E l \in Calls("legup_lock") :
                  /\ syncMap["lock"] = sites[l].operand + 1
                  /\ \A j \in Calls("legup_lock") : j <= l
         /\ Calls("legup_barrier_wait") # {} => syncMap["barrier"] = 1
         /\ syncMap["barrier"] \in {0, 1}
<1>1. \A o : \A k \in Calls(o) : k < nextSite
  BY DEF LoweringInv, SiteTypes, Calls, Allocated
<1>2. \A o : \A k \in Calls(o) : ~(k >= nextSite)
  BY <1>1 DEF LoweringInv, SiteTypes, Calls
<1> QED
  BY <1>1, <1>2 DEF LoweringInv, ScannedCores

\* An address with a lock's tag selects the core of that number, if there is one.
LEMMA SelectedLock ==
  ASSUME LoweringInv, Allocated, NEW k \in MutexCalls, NEW address,
         tag_lock(address) = sites[k].operand, tag_barrier(address) = 0
  PROVE  Selected(address) = CoresOf(k)
<1> DEFINE m == sites[k].operand
<1>1. \A l \in MutexCalls : sites[l].operand \in Nat
  BY OperandRange
<1>2. Selected(address) = {<<"lock", j>> : j \in {j \in 0 .. (syncMap["lock"] - 1) : j = m}}
  <2>1. \A j \in 0 .. (syncMap["barrier"] - 1) : 0 # j + 1
    BY AllScanned
  <2> QED
    BY <2>1 DEF Selected
<1>3. CASE Calls("legup_lock") = {}
  <2>1. syncMap["lock"] = 0
    BY <1>3, AllScanned
  <2>2. Selected(address) = {}
    BY <1>2, <2>1
  <2>3. CoresOf(k) = {}
    BY <1>3 DEF CoresOf
  <2> QED
    BY <2>2, <2>3
<1>4. CASE Calls("legup_lock") # {}
  <2>1. PICK l \in Calls("legup_lock") : /\ syncMap["lock"] = sites[l].operand + 1
                                         /\ \A j \in Calls("legup_lock") : j <= l
    BY <1>4, AllScanned
  <2>2. sites[l].operand \in Nat /\ m \in Nat
    BY <1>1, <2>1 DEF MutexCalls
  <2>3. m \in 0 .. (syncMap["lock"] - 1) <=> m <= sites[l].operand
    BY <2>1, <2>2
  <2>4. \A j \in Calls("legup_lock") : (\A h \in Calls("legup_lock") : h <= j) <=> j = l
    BY <2>1 DEF Calls
  <2>5. CoresOf(k) = IF m <= sites[l].operand THEN {<<"lock", m>>} ELSE {}
    BY <2>1, <2>4 DEF CoresOf
  <2>6. Selected(address) = IF m \in 0 .. (syncMap["lock"] - 1) THEN {<<"lock", m>>} ELSE {}
    BY <1>2
  <2> QED
    BY <2>3, <2>5, <2>6
<1> QED
  BY <1>3, <1>4

\* Every synchronization access selects its own core and no other, in a program
\* with no more mutexes than seven bits tell apart.
THEOREM LoweringAddresses == LoweringSpec => [](Len(mutexMap) <= 128 => AddressesSelectCores)
<1>1. ASSUME LoweringInv, Len(mutexMap) <= 128, Allocated
      PROVE  /\ \A k \in Calls("legup_lock") :
                   LET a == LockAddress(sites[k].operand) IN
                   Selected(a) = CoresOf(k) /\ StatusAddress(a) = 0
             /\ \A k \in Calls("legup_unlock") :
                   LET a == UnlockAddress(sites[k].operand) IN
                   Selected(a) = CoresOf(k) /\ StatusAddress(a) = 1
             /\ \A k \in Calls("legup_barrier_wait") :
                   /\ Selected(BarrierWaitAddress) = {<<"barrier", 0>>}
                   /\ Selected(BarrierInitAddress) = {<<"barrier", 0>>}
  <2>1. \A k \in MutexCalls : sites[k].operand \in 0 .. 127
    <3> SUFFICES ASSUME NEW k \in MutexCalls PROVE sites[k].operand \in 0 .. 127
      OBVIOUS
    <3>1. /\ sites[k].operand \in Nat /\ Len(mutexMap) \in Nat
          /\ sites[k].operand < Len(mutexMap)
      BY <1>1, OperandRange
    <3>2. PICK n \in Nat, size \in Nat :
             n = sites[k].operand /\ size = Len(mutexMap) /\ n < size
      BY <3>1
    <3>3. size <= 128
      BY <1>1, <3>2
    <3>4. n < size
      BY <3>2
    <3>5. n \in 0 .. 127
      BY <3>3, <3>4
    <3> QED
      BY <3>2, <3>5
  <2>2. ASSUME NEW k \in Calls("legup_lock")
        PROVE  LET a == LockAddress(sites[k].operand) IN
               Selected(a) = CoresOf(k) /\ StatusAddress(a) = 0
    BY <1>1, <2>1, AddressFields, SelectedLock DEF MutexCalls
  <2>3. ASSUME NEW k \in Calls("legup_unlock")
        PROVE  LET a == UnlockAddress(sites[k].operand) IN
               Selected(a) = CoresOf(k) /\ StatusAddress(a) = 1
    BY <1>1, <2>1, AddressFields, SelectedLock DEF MutexCalls
  <2>4. ASSUME NEW k \in Calls("legup_barrier_wait"),
               NEW a \in {BarrierWaitAddress, BarrierInitAddress}
        PROVE  Selected(a) = {<<"barrier", 0>>}
    <3>1. syncMap["barrier"] = 1
      BY <1>1, <2>4, AllScanned
    <3>2. tag_lock(a) = 0 /\ tag_barrier(a) = 1
      BY BarrierFields
    <3>3. {j \in 0 .. (syncMap["barrier"] - 1) : 1 = j + 1 /\ 0 = 0} = {0}
      BY <3>1
    <3> QED
      BY <3>2, <3>3 DEF Selected
  <2> QED
    BY <2>2, <2>3, <2>4
<1>2. LoweringInv => (Len(mutexMap) <= 128 => AddressesSelectCores)
  BY <1>1 DEF AddressesSelectCores
<1> QED
  BY <1>2, LoweringInvInit, LoweringStep, PTL DEF LoweringSpec
=============================================================================
