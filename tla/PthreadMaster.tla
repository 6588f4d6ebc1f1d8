--------------------------- MODULE PthreadMaster ---------------------------
(***************************************************************************)
(* pthread_create and pthread_join in the pure hardware flow.  ParallelAPI  *)
(* turns a create into a non-blocking call that numbers the threads with a  *)
(* global counter, and a join into a poll; GenerateRTL gives every thread   *)
(* instance a start register, a finish register and a return value register *)
(* in the master's module.  One step is one clock edge of the master FSM    *)
(* and of all instances; the master may spend any number of cycles on other *)
(* work before each call.                                                   *)
(*                                                                          *)
(* The program forks and joins the same number of threads of one function   *)
(* several times.  Either every fork has create calls of its own, in the    *)
(* order in which the pass visits them, or the forks execute the same calls *)
(* again.                                                                   *)
(***************************************************************************)
EXTENDS Naturals

CONSTANTS NumThreads,  \* creates of the thread function in one fork
          Rounds,      \* how often the program forks and joins
          LoopForms    \* whether LLVM may leave the create loop rolled (TRUE), unroll it (FALSE)

ASSUME NumThreadsAssumption == NumThreads \in Nat \ {0}
ASSUME RoundsAssumption == Rounds \in Nat \ {0}
\* A loop of one create has the trip count 1 of a call without a loop.
ASSUME LoopFormsAssumption ==
    /\ LoopForms \subseteq BOOLEAN
    /\ TRUE \in LoopForms => NumThreads > 1

\* The threads of one fork, and the instances that calls of all forks can name.
Threads == 0 .. (NumThreads - 1)
InstanceNums == 0 .. (NumThreads * Rounds - 1)

VARIABLES rolled,     \* whether the creates of a fork are one call in a rolled loop
          ownSites,   \* whether each fork has create calls of its own
          main,       \* the master's FSM state
          i,          \* its loop counter, or the thread it joins
          round,
          toJoin,     \* the threads of this round that are not joined yet
          legup_count,     \* global: threads numbered so far
          threadVar,       \* the pthread_t of each thread of the program
          start,           \* the instances whose start register is 1
          arg,             \* argument register of each instance
          instance,        \* FSM state of each instance
          finish_reg,      \* the instances whose finish register is 1
          return_val_reg,  \* return value register of each instance
          result           \* what pthread_join stored

vars == <<rolled, ownSites, main, i, round, toJoin, legup_count, threadVar, start, arg, instance,
          finish_reg, return_val_reg, result>>

\* Each thread returns a word of its own, different in every round; 0 is what
\* a cleared return value register holds.
ReturnValue(t, r) == 1 + t + NumThreads * (r - 1)

\* The THREADID of an unrolled call counts the calls before it that create the
\* same function.
THREADID == IF ownSites THEN NumThreads * (round - 1) + i ELSE i

\* Faulty: a call that is not in a loop clears every instance, too.
EveryInstance == InstanceNums

\* The instances a create call can start: as many as the loop has iterations,
\* from zero, when it is rolled, else the one of its THREADID.
CalledInstances == IF rolled THEN Threads ELSE {THREADID}

\* The instances that some create call can start.
OwnInstances == ownSites /\ ~rolled
Instances == IF OwnInstances THEN InstanceNums ELSE Threads

\* legup_pthreadpoll_finish of the thread being joined.
PollFinish == \E k \in Instances : k = threadVar[i] /\ k \in finish_reg

Finishing == {k \in InstanceNums : instance[k] = "finish"}
-----------------------------------------------------------------------------
Init ==
    /\ rolled \in LoopForms /\ ownSites \in BOOLEAN
    /\ main = "before_create" /\ i = 0 /\ round = 1 /\ toJoin = {}
    /\ legup_count = 0
    /\ threadVar = [t \in Threads |-> 0]
    /\ start = {}
    /\ arg = [k \in InstanceNums |-> 0]
    /\ instance = [k \in InstanceNums |-> "LEGUP_0"]
    /\ finish_reg = {}
    /\ return_val_reg = [k \in InstanceNums |-> 0]
    /\ result = [t \in Threads |-> 0]

\* Faulty: the counter is not stored back.
CreateNotCounted ==
    /\ main = "before_create"
    /\ main' = "create"
    /\ threadVar' = [threadVar EXCEPT ![i] = legup_count]
    /\ legup_count' = legup_count
    /\ start' = {k \in CalledInstances : k = legup_count}
    /\ arg' = [k \in InstanceNums |-> IF k \in start' THEN ReturnValue(i, round) ELSE arg[k]]
    /\ toJoin' = toJoin \cup {i}
    /\ UNCHANGED <<i, round, result>>

\* Faulty: each fork numbers its threads from zero.
CreateNumberedAnew ==
    /\ main = "before_create"
    /\ main' = "create"
    /\ threadVar' = [threadVar EXCEPT ![i] = i]
    /\ legup_count' = legup_count + 1
    /\ start' = {k \in CalledInstances : k = i}
    /\ arg' = [k \in InstanceNums |-> IF k \in start' THEN ReturnValue(i, round) ELSE arg[k]]
    /\ toJoin' = toJoin \cup {i}
    /\ UNCHANGED <<i, round, result>>

\* The state before the call: the counter has been read and incremented and
\* the thread variable stored; start and argument are set for the instance
\* with that number.
Create ==
    /\ main = "before_create"
    /\ main' = "create"
    /\ threadVar' = [threadVar EXCEPT ![i] = legup_count]
    /\ legup_count' = legup_count + 1
    /\ start' = {k \in CalledInstances : k = legup_count}
    /\ arg' = [k \in InstanceNums |-> IF k \in start' THEN ReturnValue(i, round) ELSE arg[k]]
    /\ toJoin' = toJoin \cup {i}
    /\ UNCHANGED <<i, round, result>>

\* The call state: start is high for this one cycle and nobody waits.
CreateCall ==
    /\ main = "create"
    /\ start' = start \ CalledInstances
    /\ IF i < NumThreads - 1
       THEN i' = i + 1 /\ main' = "before_create"
       ELSE i' = i /\ main' = "before_join"
    /\ UNCHANGED <<round, toJoin, legup_count, threadVar, arg, result>>

\* The program joins its threads in some order.
Join ==
    /\ main = "before_join"
    /\ main' = "join"
    /\ i' \in toJoin
    /\ UNCHANGED <<round, toJoin, legup_count, threadVar, start, arg, result>>

\* The polling wrapper leaves its call state with the registered result.
JoinReturn ==
    /\ main = "join" /\ PollFinish
    /\ result' = [result EXCEPT ![i] = return_val_reg[threadVar[i]]]
    /\ toJoin' = toJoin \ {i}
    /\ IF toJoin' # {} THEN main' = "before_join" /\ UNCHANGED <<i, round>>
       ELSE IF round < Rounds THEN main' = "before_create" /\ i' = 0 /\ round' = round + 1
       ELSE main' = "done" /\ UNCHANGED <<i, round>>
    /\ UNCHANGED <<legup_count, threadVar, start, arg>>

\* Other work, polling in vain, and the end of main.
Stay ==
    /\ main = "join" => ~PollFinish
    /\ main # "create"
    /\ UNCHANGED <<main, i, round, toJoin, legup_count, threadVar, start, arg, result>>

\* The instances: LEGUP_0 waits for start, the return state sets finish for
\* one cycle.  returning are the ones whose program reaches its return.
RunInstances(returning) ==
    instance' = [k \in InstanceNums |->
        CASE k \in start /\ instance[k] \in {"LEGUP_0", "finish"} -> "run"
          [] instance[k] = "finish" /\ k \notin start -> "LEGUP_0"
          [] instance[k] = "return" -> "finish"
          [] instance[k] = "run" /\ k \in returning -> "return"
          [] OTHER -> instance[k]]

\* Faulty: the finish pulse is not registered.
FinishNotKept ==
    /\ finish_reg' = Finishing
    /\ return_val_reg' = [k \in InstanceNums |->
          IF k \in Finishing THEN arg[k]
          ELSE IF main = "before_create" /\ main' = "create" /\ k \in CalledInstances THEN 0
          ELSE return_val_reg[k]]

\* finish_reg is cleared by start, the return value register in the state
\* before the call; a finish in the same cycle wins.
FinishRegisters ==
    /\ finish_reg' = (finish_reg \ start) \cup Finishing
    /\ return_val_reg' = [k \in InstanceNums |->
          IF k \in Finishing THEN arg[k]
          ELSE IF main = "before_create" /\ main' = "create" /\ k \in CalledInstances THEN 0
          ELSE return_val_reg[k]]

Hardware(returning) == RunInstances(returning) /\ FinishRegisters /\ UNCHANGED <<rolled, ownSites>>

Running == {k \in InstanceNums : instance[k] = "run"}

Next ==
    \E returning \in SUBSET Running :
       /\ Create \/ CreateCall \/ Join \/ JoinReturn \/ Stay
       /\ Hardware(returning)

\* The master gets on with its program and every thread reaches its return.
MasterStep == \E returning \in SUBSET Running :
                 (Create \/ CreateCall \/ Join \/ JoinReturn) /\ Hardware(returning)
Return(k) == \E returning \in SUBSET Running :
                 /\ k \in returning
                 /\ Create \/ CreateCall \/ Join \/ JoinReturn \/ Stay
                 /\ Hardware(returning)

Spec == /\ Init /\ [][Next]_vars
        /\ WF_vars(Next) /\ WF_vars(MasterStep) /\ \A k \in InstanceNums : WF_vars(Return(k))
-----------------------------------------------------------------------------
TypeOK ==
    /\ rolled \in BOOLEAN /\ ownSites \in BOOLEAN
    /\ main \in {"before_create", "create", "before_join", "join", "done"}
    /\ i \in Threads /\ round \in 1 .. Rounds /\ toJoin \subseteq Threads
    /\ legup_count \in 0 .. (NumThreads * Rounds)
    /\ threadVar \in [Threads -> Nat]
    /\ start \subseteq InstanceNums /\ finish_reg \subseteq InstanceNums
    /\ arg \in [InstanceNums -> Nat]
    /\ instance \in [InstanceNums -> {"LEGUP_0", "run", "return", "finish"}]
    /\ return_val_reg \in [InstanceNums -> Nat]
    /\ result \in [Threads -> Nat]

Created(t) == t \in toJoin \/ main \in {"before_join", "join", "done"}
Joined(t) == Created(t) /\ t \notin toJoin

\* pthread_join returns only after the thread it names has returned.
JoinWaitsForThread ==
    \A t \in Threads : Joined(t) => /\ threadVar[t] \in Instances
                                    /\ instance[threadVar[t]] = "LEGUP_0"
                                    /\ arg[threadVar[t]] = ReturnValue(t, round)

\* No instance is started while it runs, and none is started twice at once.
NoStartWhileRunning ==
    \A k \in start : instance[k] = "LEGUP_0" /\ k \notin finish_reg

\* A join stores the value its own thread returned ("connect register if
\* instance is finished", connectPthreadPollFinishAndReturnVal), never that of
\* another thread or of an earlier fork.  Only with the creates in a rolled
\* loop may it find its register cleared by a later create.
ResultOfOwnThread ==
    \A t \in Threads : Joined(t) => \/ result[t] = ReturnValue(t, round)
                                    \/ rolled /\ result[t] = 0

\* The join of a thread that has an instance returns, since every thread does.
\* Threads of a later fork may have none: see LaterForksNeedOwnCalls.
JoinsOfInstancesReturn == main = "join" /\ threadVar[i] \in Instances ~> main # "join"

\* The counter goes on where the first fork ended.  A later fork whose create
\* calls are its own and unrolled starts an instance for each of its threads,
\* with its argument (the calls get THREADIDs of their own, ParallelAPI.cpp:
\* 265-283, 316-330).  When the calls of the first fork are executed again, or
\* the calls are in rolled loops, which name the instances from zero
\* (getInstanceNum), the numbers of a later fork are past the last instance: its
\* creates start nothing, and its joins poll for ever (ParallelAPI.cpp:364-376).
LaterForksNeedOwnCalls ==
    round > 1 =>
        IF OwnInstances
        THEN \A t \in Threads : Created(t) =>
                /\ threadVar[t] \in Instances
                /\ arg[threadVar[t]] = ReturnValue(t, round)
                /\ \/ threadVar[t] \in start \cup finish_reg
                   \/ instance[threadVar[t]] # "LEGUP_0"
        ELSE /\ start = {} /\ \A k \in InstanceNums : instance[k] = "LEGUP_0"
             /\ \A t \in toJoin : threadVar[t] \notin Instances
             /\ main # "done"
=============================================================================
