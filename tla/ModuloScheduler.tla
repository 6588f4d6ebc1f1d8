--------------------------- MODULE ModuloScheduler ---------------------------
(***************************************************************************)
(* The scheduler of loop pipelines: SDCModuloScheduler finds a start time   *)
(* for every instruction of a loop body such that an iteration can start    *)
(* every II cycles.  A system of difference constraints, solved by a linear *)
(* program, keeps the dependences; instructions that use a constrained      *)
(* functional unit are fixed one by one in a modulo reservation table, and  *)
(* an instruction that finds no place evicts others.  When an attempt       *)
(* fails, II grows by one and everything starts again.                      *)
(*                                                                         *)
(* Instructions are numbered in program order.  A loop is a record with     *)
(*   ops          its instructions, 1 .. n                                  *)
(*   latency      cycles from the start of an instruction to its result     *)
(*   deps         uses of results: [from, to, distance], the distance in    *)
(*                iterations (1 for a phi fed by the loop itself)           *)
(*   fu           the functional unit of each constrained instruction       *)
(*   issueSlots   for each constrained unit, instructions per cycle         *)
(*   access       the accesses to the array d of the loop: the instruction  *)
(*                and the c of d[i + c], i the induction variable           *)
(* The linear program returns the earliest start times (its objective is    *)
(* their sum, in difference constraints).  Timing constraints of chained    *)
(* operations are latencies here.                                           *)
(***************************************************************************)
EXTENDS Integers, FiniteSets, FiniteSetsExt, Functions

CONSTANTS Loops,    \* the loops to pipeline
          Settings  \* what the configuration may say of them

ASSUME LoopsAssumption ==
    \A l \in Loops :
        /\ IsFiniteSet(l.ops) /\ l.ops # {} /\ l.ops = 1 .. Cardinality(l.ops)
        /\ l.latency \in [l.ops -> Nat]
        /\ l.deps \subseteq [from : l.ops, to : l.ops, distance : Nat]
        /\ \A d \in l.deps : d.distance = 0 => d.from < d.to
        /\ DOMAIN l.fu \subseteq l.ops
        /\ \A o \in DOMAIN l.fu : l.fu[o] \in DOMAIN l.issueSlots
        /\ \A f \in DOMAIN l.issueSlots : l.issueSlots[f] \in Nat \ {0}
        /\ l.access \subseteq [op : l.ops, store : BOOLEAN, offset : Int]

\* MODULO_SCHEDULER, SDC_BACKTRACKING_BUDGET_RATIO and the II of the
\* loop_pipeline command, 0 when it gives none.
ASSUME SettingsAssumption ==
    Settings \subseteq [scheduler : {"SDC_BACKTRACKING", "SDC_GREEDY"},
                        budgetRatio : Nat \ {0}, user_II : Nat]

VARIABLES
    loop, setting,
    dag,               \* its dependence graph
    phase,             \* of runOnLoop
    II,                \* the initiation interval of the attempt
    budget,
    queue,             \* unscheduledInstPriorityQueue
    unscheduled,       \* unscheduledInstsConstrained
    atLeast,           \* GE constraints: the bound of each instruction
    pinned,            \* EQ constraints: the time of the instructions that have one
    sdcSchedTime,      \* the last solution of the linear program
    schedTime,         \* the schedule: the time of every instruction that has one
    reservationTable,  \* who uses a unit's port in a slot modulo II
    prevSchedTime      \* the last time of every instruction ever scheduled

attempt == <<budget, queue, unscheduled, atLeast, pinned, sdcSchedTime,
             schedTime, reservationTable, prevSchedTime>>
vars == <<loop, setting, dag, phase, II, attempt>>

NoOp == 0  \* NULL

-----------------------------------------------------------------------------
(* Dependences.                                                            *)

\* A store needs an extra cycle for the memory to be ready.
Delay(l, o) ==
    IF \E a \in l.access : a.op = o /\ a.store THEN 1 ELSE l.latency[o]

\* Faulty: the distance from the load to the store.
CarriedDistanceSwapped(s, c) == c.offset - s.offset

\* A store of d[i + s] is seen by the load of d[i + c] that comes s - c
\* iterations later; other distances carry nothing.
CarriedDistance(s, c) == s.offset - c.offset

Aliases(l) ==
    {p \in l.access \X l.access :
        p[1].store /\ ~p[2].store /\ CarriedDistance(p[1], p[2]) > 0}

\* The edge from the store to the load, and the one from the load to the
\* store that the dependence graph gets with it.
CarriedDeps(l) ==
    {[from |-> p[1].op, to |-> p[2].op, distance |-> CarriedDistance(p[1], p[2])]
        : p \in Aliases(l)}
    \cup {[from |-> p[2].op, to |-> p[1].op, distance |-> 0] : p \in Aliases(l)}

\* Accesses to one address in one iteration stay in program order.
MemoryDeps(l) ==
    {[from |-> p[1].op, to |-> p[2].op, distance |-> 0] :
        p \in {q \in l.access \X l.access :
                 /\ q[1].op < q[2].op
                 /\ q[1].offset = q[2].offset
                 /\ q[1].store \/ q[2].store}}

\* The dependence graph: per edge, the latency of its source.
Graph(l) ==
    {[from |-> d.from, to |-> d.to, latency |-> Delay(l, d.from), distance |-> d.distance] :
        d \in l.deps \cup MemoryDeps(l) \cup CarriedDeps(l)}

-----------------------------------------------------------------------------
(* The system of difference constraints of a graph g on the instructions ops. *)

\* Start times t keep the dependence d when an iteration starts every ii cycles.
Keeps(ii, t, d) == t[d.to] >= t[d.from] + d.latency - ii * d.distance

\* The start times that the bounds and the dependences force, step by step.
Pushed(g, ii, t) ==
    [o \in DOMAIN t |->
        Max({t[o]} \cup {t[d.from] + d.latency - ii * d.distance : d \in {e \in g : e.to = o}})]

IsSolution(g, ii, ge, eq, t) ==
    /\ t \in [DOMAIN ge -> Nat]
    /\ \A o \in DOMAIN ge : t[o] >= ge[o]
    /\ \A o \in DOMAIN eq : t[o] = eq[o]
    /\ \A d \in g : Keeps(ii, t, d)

\* What the linear program returns: the least solution, if there is one.
Solutions(g, ii, ge, eq) ==
    LET start == [o \in DOMAIN ge |-> IF o \in DOMAIN eq THEN Max({ge[o], eq[o]}) ELSE ge[o]]
    IN  {t \in FoldSet(LAMBDA o, T : {Pushed(g, ii, t) : t \in T}, {start}, DOMAIN ge) :
            IsSolution(g, ii, ge, eq, t)}

Feasible(g, ii, ge, eq) == Solutions(g, ii, ge, eq) # {}

Unbounded(l) == [o \in l.ops |-> 0]
NoPins == [o \in {} |-> 0]

\* An EQ constraint on o, a GE constraint on o, and o without constraints.
WithTime(f, o, t) == [p \in DOMAIN f \cup {o} |-> IF p = o THEN t ELSE f[p]]
WithBound(ge, o, t) == [ge EXCEPT ![o] = IF t > @ THEN t ELSE @]
\* Faulty: nothing is removed.
WithoutNothing(f, S) == f
Without(f, S) == Restrict(f, DOMAIN f \ S)
Unbound(ge, S) == [o \in DOMAIN ge |-> IF o \in S THEN 0 ELSE ge[o]]

-----------------------------------------------------------------------------
(* The modulo reservation table.                                           *)

Constrained(l) == DOMAIN l.fu
EmptyTable(l, ii) ==
    [f \in DOMAIN l.issueSlots |-> [port \in 0 .. l.issueSlots[f] - 1 |->
        [slot \in 0 .. ii - 1 |-> NoOp]]]

Users(table, o, time) == [p \in DOMAIN table[loop.fu[o]] |-> table[loop.fu[o]][p][time % II]]
resourceConflict(table, o, time) ==
    \A p \in DOMAIN Users(table, o, time) : Users(table, o, time)[p] # NoOp
\* The first free port.  The code's sanity check that the time is below 1000, a
\* limit for long loops, is left out.
findEmptySlot(table, o, time) ==
    {p \in DOMAIN Users(table, o, time) :
        /\ Users(table, o, time)[p] = NoOp
        /\ \A q \in 0 .. p - 1 : Users(table, o, time)[q] # NoOp}
Release(table, S) ==
    [f \in DOMAIN table |-> [p \in DOMAIN table[f] |-> [slot \in DOMAIN table[f][p] |->
        IF table[f][p][slot] \in S THEN NoOp ELSE table[f][p][slot]]]]

-----------------------------------------------------------------------------
(* The initiation interval to start with.                                  *)

sanityCheckII(l, ii) == ii <= Cardinality(l.ops) + 1

\* ii times its issue slots are enough for the instructions of every unit.
ResourcesSuffice(l, ii) ==
    \A f \in DOMAIN l.issueSlots :
        Cardinality({o \in Constrained(l) : l.fu[o] = f}) <= ii * l.issueSlots[f]

\* The larger one of resourceMII and recurrenceMII_SDC, which counts up from
\* findLoopRecurrences' estimate of the elementary cycles.  The estimate rounds
\* up and adds a cycle for a phi, so it can be above the least possible II; it is
\* any number here.  Both bounds stay met when II grows.  None up to the sanity
\* check stops the compiler.
getInitialMII(l, g) ==
    {ii \in 1 .. Cardinality(l.ops) + 1 :
        ResourcesSuffice(l, ii) /\ Feasible(g, ii, Unbounded(l), NoPins)}

Nothing ==
    /\ budget = 0
    /\ queue = {} /\ unscheduled = {}
    /\ atLeast = NoPins /\ pinned = NoPins /\ sdcSchedTime = NoPins
    /\ schedTime = NoPins /\ reservationTable = NoPins /\ prevSchedTime = NoPins

\* runOnLoop up to its first attempt.
Init ==
    /\ loop \in Loops
    /\ setting \in Settings
    /\ dag = Graph(loop)
    /\ Nothing
    /\ \/ /\ getInitialMII(loop, dag) = {}
          /\ II = 1
          /\ phase = "II too large"
       \/ \E mii \in getInitialMII(loop, dag) :
             /\ II = IF setting.user_II > mii THEN setting.user_II ELSE mii
             /\ phase = IF setting.user_II \in 1 .. mii - 1
                        THEN "not pipelined" ELSE "start"

-----------------------------------------------------------------------------
(* One attempt.                                                            *)

\* The assertions of a step, or the scheduler stops.
Asserting(A) == phase' = IF A THEN "scheduling" ELSE "assertion"

\* scheduleSDC keeps the old times when there is no solution.
scheduleSDC(ge, eq) ==
    IF Feasible(dag, II, ge, eq)
    THEN sdcSchedTime' \in Solutions(dag, II, ge, eq) ELSE UNCHANGED sdcSchedTime

\* iterativeSchedule, up to the loop over the queue.
StartAttempt ==
    /\ phase = "start"
    /\ budget' = setting.budgetRatio * Cardinality(loop.ops)
    /\ queue' = Constrained(loop)
    /\ unscheduled' = Constrained(loop)
    /\ atLeast' = Unbounded(loop)
    /\ pinned' = NoPins
    /\ scheduleSDC(Unbounded(loop), NoPins)
    /\ schedTime' = NoPins
    /\ reservationTable' = EmptyTable(loop, II)
    /\ prevSchedTime' = NoPins
    /\ Asserting(Feasible(dag, II, Unbounded(loop), NoPins))
    /\ UNCHANGED <<loop, setting, dag, II>>

\* The queued instructions at the lowest step; the perturbation, which
\* depends on the whole loop, picks one of them.
unscheduledInstPriorityQueue_pop ==
    {o \in queue : \A p \in queue : sdcSchedTime[o] <= sdcSchedTime[p]}

\* Not before instStepASAP, the step of the first solution.
NotBeforeASAP(o, time) ==
    \A t \in Solutions(dag, II, Unbounded(loop), NoPins) : t[o] <= time

FeasibleAt(ge, eq, o, time) == Feasible(dag, II, ge, WithTime(eq, o, time))

\* scheduleSDCInstruction on a table and a schedule without the instructions S.
ScheduleWithout(S, o, time) ==
    /\ pinned' = WithTime(Without(pinned, S), o, time)
    /\ schedTime' = WithTime(Without(schedTime, S), o, time)
    /\ unscheduled' = (unscheduled \cup S) \ {o}
    /\ prevSchedTime' = WithTime(prevSchedTime, o, time)
    /\ \E port \in findEmptySlot(Release(reservationTable, S), o, time) :
          reservationTable' = [Release(reservationTable, S) EXCEPT
                                  ![loop.fu[o]][port][time % II] = o]
    /\ queue' = (queue \ {o}) \cup S
    /\ atLeast' = Unbound(atLeast, S)

Selected(s, o) ==
    /\ phase = "scheduling"
    /\ setting.scheduler = s
    /\ s = "SDC_BACKTRACKING" => budget > 0
    /\ o \in unscheduledInstPriorityQueue_pop
    /\ budget' = IF s = "SDC_BACKTRACKING" THEN budget - 1 ELSE budget
    /\ UNCHANGED <<loop, setting, dag, II>>

\* The table has room at the step of the solution.
ScheduleAtStep(o) ==
    /\ Selected("SDC_BACKTRACKING", o)
    /\ ~resourceConflict(reservationTable, o, sdcSchedTime[o])
    /\ ScheduleWithout({}, o, sdcSchedTime[o])
    /\ Asserting(/\ NotBeforeASAP(o, sdcSchedTime[o])
                 /\ FeasibleAt(atLeast, pinned, o, sdcSchedTime[o]))
    /\ UNCHANGED sdcSchedTime

Later(o) == WithBound(atLeast, o, sdcSchedTime[o] + 1)

\* It has none, and the instruction can start later.
Postpone(o) ==
    /\ Selected("SDC_BACKTRACKING", o)
    /\ resourceConflict(reservationTable, o, sdcSchedTime[o])
    /\ Feasible(dag, II, Later(o), pinned)
    /\ atLeast' = Later(o)
    /\ scheduleSDC(Later(o), pinned)
    /\ Asserting(NotBeforeASAP(o, sdcSchedTime[o]))
    /\ UNCHANGED <<queue, unscheduled, pinned, schedTime, reservationTable, prevSchedTime>>

\* backtracking, whose member instStepASAP is hidden by a local one of its
\* caller and empty: the search starts at 0.
LegalTimes(o) == {time \in 0 .. sdcSchedTime[o] : FeasibleAt(atLeast, pinned, o, time)}
minTime(o) ==
    LET legal == LegalTimes(o)
    IN  IF legal = {} THEN {sdcSchedTime[o] + 1}
        ELSE {time \in legal : \A other \in legal : time <= other}

evictSlot(o) ==
    {IF o \notin DOMAIN prevSchedTime \/ time > prevSchedTime[o]
     THEN time ELSE prevSchedTime[o] + 1 : time \in minTime(o)}

\* The user of port 0 where o is forced to, when no port is free there.
Displaced(o, time) ==
    IF resourceConflict(reservationTable, o, time)
    THEN {Users(reservationTable, o, time)[0]} ELSE {}

\* Feasible once the instructions S are out.
Relieved(S, o, time) == FeasibleAt(Unbound(atLeast, S), Without(pinned, S), o, time)

\* Faulty: one user is always enough.
EvictedUser(o, time) == Displaced(o, time)

Evicted(o, time) ==
    IF Relieved(Displaced(o, time), o, time) THEN Displaced(o, time) ELSE DOMAIN schedTime

\* No room and no later start: the instruction is forced in, others leave.
Backtrack(o) ==
    /\ Selected("SDC_BACKTRACKING", o)
    /\ resourceConflict(reservationTable, o, sdcSchedTime[o])
    /\ ~Feasible(dag, II, Later(o), pinned)
    /\ \E time \in evictSlot(o) : \E S \in {Evicted(o, time)} :
          /\ ScheduleWithout(S, o, time)
          /\ scheduleSDC(atLeast', pinned')
          /\ Asserting(/\ NotBeforeASAP(o, sdcSchedTime[o])
                       /\ LegalTimes(o) # {}
                       /\ \/ resourceConflict(reservationTable, o, time)
                          \/ ~FeasibleAt(atLeast, pinned, o, time)
                       /\ ~resourceConflict(
                             Release(reservationTable, Displaced(o, time)), o, time)
                       /\ Relieved(S, o, time)
                       /\ Feasible(dag, II, atLeast', pinned'))

\* SDCGreedy: the last free step up to that of the solution, or a later start.
FreeTimes(o) ==
    {time \in 0 .. sdcSchedTime[o] :
        /\ NotBeforeASAP(o, time)
        /\ ~resourceConflict(reservationTable, o, time)
        /\ FeasibleAt(atLeast, pinned, o, time)}

GreedySchedule(o) ==
    /\ Selected("SDC_GREEDY", o)
    /\ \E time \in FreeTimes(o) :
          /\ \A other \in FreeTimes(o) : other <= time
          /\ ScheduleWithout({}, o, time)
    /\ scheduleSDC(atLeast, pinned')
    /\ UNCHANGED phase

\* Faulty: the next attempt is the same one.
IncrementIINot == phase' = "start" /\ UNCHANGED II

\* The attempt at this II has failed.
IncrementII ==
    IF setting.user_II # 0
    THEN phase' = "not pipelined" /\ UNCHANGED II
    ELSE /\ II' = II + 1
         /\ phase' = IF sanityCheckII(loop, II + 1) THEN "start" ELSE "II too large"

GreedyPostpone(o) ==
    /\ phase = "scheduling"
    /\ setting.scheduler = "SDC_GREEDY"
    /\ o \in unscheduledInstPriorityQueue_pop
    /\ FreeTimes(o) = {}
    /\ atLeast' = Later(o)
    /\ scheduleSDC(Later(o), pinned)
    /\ IF Feasible(dag, II, Later(o), pinned) THEN UNCHANGED <<phase, II>> ELSE IncrementII
    /\ UNCHANGED <<loop, setting, dag, budget, queue, unscheduled, pinned, schedTime,
                   reservationTable, prevSchedTime>>

\* Faulty: the times of the first solution.
assignUnconstrainedOperationsASAP ==
    \E t \in Solutions(dag, II, Unbounded(loop), NoPins) :
        schedTime' = [o \in loop.ops |-> IF o \in DOMAIN schedTime THEN schedTime[o] ELSE t[o]]

assignUnconstrainedOperations ==
    schedTime' = [o \in loop.ops |->
                    IF o \in DOMAIN schedTime THEN schedTime[o] ELSE sdcSchedTime[o]]

\* Without budget the other instructions get no time, even when the last
\* constrained one has just been scheduled.
FinishAttempt ==
    /\ phase = "scheduling"
    /\ queue = {} \/ (setting.scheduler = "SDC_BACKTRACKING" /\ budget = 0)
    /\ IF budget > 0 THEN assignUnconstrainedOperations ELSE UNCHANGED schedTime
    /\ IF unscheduled = {} THEN phase' = "scheduled" /\ UNCHANGED II ELSE IncrementII
    /\ UNCHANGED <<loop, setting, dag, budget, queue, unscheduled, atLeast, pinned,
                   sdcSchedTime, reservationTable, prevSchedTime>>

Ended == {"scheduled", "not pipelined", "II too large", "assertion"}
Return == phase \in Ended /\ UNCHANGED vars

Next ==
    \/ StartAttempt
    \/ \E o \in queue :
          \/ ScheduleAtStep(o) \/ Postpone(o) \/ Backtrack(o)
          \/ GreedySchedule(o) \/ GreedyPostpone(o)
    \/ FinishAttempt
    \/ Return

Spec == Init /\ [][Next]_vars /\ WF_vars(Next)

-----------------------------------------------------------------------------
(* Properties.                                                             *)

TypeOK ==
    /\ loop \in Loops
    /\ setting \in Settings
    /\ phase \in Ended \cup {"start", "scheduling"}
    /\ II \in Nat \ {0}
    /\ budget \in Nat
    /\ queue \subseteq Constrained(loop)
    /\ unscheduled \subseteq Constrained(loop)
    /\ phase \in {"scheduling", "scheduled"} =>
        /\ atLeast \in [loop.ops -> Nat]
        /\ sdcSchedTime \in [loop.ops -> Nat]
        /\ pinned \in [DOMAIN pinned -> Nat]
        /\ schedTime \in [DOMAIN schedTime -> Nat]
        /\ DOMAIN prevSchedTime \subseteq Constrained(loop)
        /\ prevSchedTime \in [DOMAIN prevSchedTime -> Nat]
        /\ DOMAIN reservationTable = DOMAIN loop.issueSlots

Occupants(f, slot) ==
    {o \in DOMAIN schedTime \cap Constrained(loop) : loop.fu[o] = f /\ schedTime[o] % II = slot}

\* The schedule that runOnLoop returns can be repeated every II cycles: in the
\* steady state every dependence, carried ones included, waits for its result
\* and no unit starts more instructions in a cycle than it has issue slots.
ScheduleRepeats ==
    phase = "scheduled" =>
        /\ \A d \in dag :
              {d.from, d.to} \subseteq DOMAIN schedTime => Keeps(II, schedTime, d)
        /\ \A f \in DOMAIN loop.issueSlots, slot \in 0 .. II - 1 :
              Cardinality(Occupants(f, slot)) <= loop.issueSlots[f]

\* Instance i of the access p and instance i + p.offset - q.offset of q are
\* about one element of the array; p comes first in the source program.
Precedes(p, q) == p.offset > q.offset \/ (p.offset = q.offset /\ p.op < q.op)

\* It also does in the pipeline; a store takes a cycle.
InOrder(p, q) ==
    {p.op, q.op} \subseteq DOMAIN schedTime =>
        schedTime[p.op] + (IF p.store THEN 1 ELSE 0)
            <= schedTime[q.op] + II * (p.offset - q.offset)

\* A load reads what the last store to its element wrote, in this iteration or
\* in an earlier one that is still in the pipeline.
LoadsSeeStores ==
    phase = "scheduled" =>
        \A p, q \in loop.access : p.store /\ ~q.store /\ Precedes(p, q) => InOrder(p, q)

\* No two accesses to an element, a store among them, change places (faulty:
\* stores that overtake a load or a store of an earlier iteration).
MemoryInOrder ==
    phase = "scheduled" =>
        \A p, q \in loop.access : (p.store \/ q.store) /\ Precedes(p, q) => InOrder(p, q)

\* The work list, the linear program, the schedule and the reservation table,
\* changed in different places, agree about which instructions are fixed and
\* where, through every eviction.
BookkeepingAgrees ==
    phase = "scheduling" =>
        /\ queue = unscheduled
        /\ DOMAIN schedTime = Constrained(loop) \ unscheduled
        /\ pinned = schedTime
        /\ \A f \in DOMAIN reservationTable : \A p \in DOMAIN reservationTable[f] :
              \A slot \in DOMAIN reservationTable[f][p] :
                reservationTable[f][p][slot] # NoOp =>
                    reservationTable[f][p][slot] \in Occupants(f, slot)
        /\ \A o \in DOMAIN schedTime :
              LET users == Users(reservationTable, o, schedTime[o])
              IN  \E port \in DOMAIN users : \A p \in DOMAIN users : users[p] = o <=> p = port

\* No assertion of SDCWithBacktracking and backtracking about the schedule fails
\* (findEmptySlot's limit of 1000 on a time is not one of them): the step of the
\* solution is legal, backtracking finds a legal time, evicting one user or
\* everything makes room, and the linear program has a solution afterwards.
AssertionsHold == phase # "assertion"

\* Evictions do not go on for ever, at any II: the pass ends.
SchedulingEnds == <>(phase \in Ended)
=============================================================================
