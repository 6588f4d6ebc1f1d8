---------------------------- MODULE ModuloProofs ----------------------------
(***************************************************************************)
(* For all loops and settings: the types of ModuloScheduler, that its      *)
(* bookkeeping agrees through every eviction, that a schedule it returns   *)
(* repeats every II cycles and lets loads see their stores, and that none  *)
(* of its assertions fails.                                                *)
(***************************************************************************)
EXTENDS ModuloScheduler, FiniteSetTheorems, WellFoundedInduction, TLAPS

\* A modulo reservation table of the loop l.
Shaped(l, ii, table) ==
    /\ DOMAIN table = DOMAIN l.issueSlots
    /\ \A f \in DOMAIN l.issueSlots :
          /\ DOMAIN table[f] = 0 .. l.issueSlots[f] - 1
          /\ \A p \in 0 .. l.issueSlots[f] - 1 : DOMAIN table[f][p] = 0 .. ii - 1

\* Every entry of the table is an instruction of the schedule, in its place.
EntriesScheduled(l, ii, table, sched) ==
    \A f \in DOMAIN l.issueSlots : \A p \in 0 .. l.issueSlots[f] - 1 :
        \A slot \in 0 .. ii - 1 :
            table[f][p][slot] # NoOp =>
                /\ table[f][p][slot] \in DOMAIN sched
                /\ l.fu[table[f][p][slot]] = f
                /\ sched[table[f][p][slot]] % ii = slot

\* Every instruction of the schedule has one port.
InstructionsPlaced(l, ii, table, sched) ==
    \A o \in DOMAIN sched :
        \E port \in 0 .. l.issueSlots[l.fu[o]] - 1 :
            \A p \in 0 .. l.issueSlots[l.fu[o]] - 1 :
                table[l.fu[o]][p][sched[o] % ii] = o <=> p = port

Agrees(l, ii, table, sched) ==
    /\ Shaped(l, ii, table)
    /\ EntriesScheduled(l, ii, table, sched)
    /\ InstructionsPlaced(l, ii, table, sched)

\* The table with o in a slot of a port.
Put(table, f, port, slot, o) == [table EXCEPT ![f][port][slot] = o]

\* The times of some constrained instructions.
Times(l, sched) ==
    /\ DOMAIN sched \subseteq DOMAIN l.fu
    /\ sched \in [DOMAIN sched -> Nat]

LEMMA LoopFacts ==
  ASSUME NEW l \in Loops
  PROVE  /\ Cardinality(l.ops) \in Nat
         /\ \A o \in l.ops : o \in Nat \ {0}
         /\ NoOp \notin l.ops
         /\ Constrained(l) \subseteq l.ops
         /\ \A o \in DOMAIN l.fu : l.fu[o] \in DOMAIN l.issueSlots
         /\ \A f \in DOMAIN l.issueSlots : l.issueSlots[f] \in Nat \ {0}
<1>1. /\ IsFiniteSet(l.ops) /\ l.ops = 1 .. Cardinality(l.ops)
      /\ DOMAIN l.fu \subseteq l.ops
      /\ \A o \in DOMAIN l.fu : l.fu[o] \in DOMAIN l.issueSlots
      /\ \A f \in DOMAIN l.issueSlots : l.issueSlots[f] \in Nat \ {0}
  BY LoopsAssumption
<1>2. Cardinality(l.ops) \in Nat
  BY <1>1, FS_CardinalityType
<1>3. \A o \in l.ops : o \in Nat \ {0}
  BY <1>1, <1>2
<1> QED
  BY <1>1, <1>2, <1>3 DEF NoOp, Constrained

LEMMA SlotOfTime ==
  ASSUME NEW ii \in Nat \ {0}, NEW time \in Nat
  PROVE  time % ii \in 0 .. ii - 1
OBVIOUS

-----------------------------------------------------------------------------
(* The reservation table.                                                  *)

\* An empty table agrees with an empty schedule.
LEMMA EmptyAgrees ==
  ASSUME NEW l \in Loops, NEW ii \in Nat \ {0}
  PROVE  Agrees(l, ii, EmptyTable(l, ii), NoPins) /\ Times(l, NoPins)
BY DEF Agrees, Shaped, EntriesScheduled, InstructionsPlaced, Times, EmptyTable, NoPins

\* Evicting instructions from table and schedule keeps them in agreement.
LEMMA ReleaseAgrees ==
  ASSUME NEW l \in Loops, NEW ii \in Nat \ {0}, NEW table, NEW sched,
         Times(l, sched), Agrees(l, ii, table, sched),
         NEW S \in SUBSET DOMAIN sched
  PROVE  /\ Agrees(l, ii, Release(table, S), Without(sched, S))
         /\ Times(l, Without(sched, S))
         /\ DOMAIN Without(sched, S) = DOMAIN sched \ S
<1> DEFINE released == Release(table, S)
           rest == Without(sched, S)
<1>1. /\ DOMAIN rest = DOMAIN sched \ S
      /\ \A o \in DOMAIN sched \ S : rest[o] = sched[o]
      /\ rest \in [DOMAIN rest -> Nat]
  BY DEF Without, Restrict, Times
<1>2. /\ Shaped(l, ii, released)
      /\ \A f \in DOMAIN l.issueSlots : \A p \in 0 .. l.issueSlots[f] - 1 :
            \A slot \in 0 .. ii - 1 :
               released[f][p][slot] =
                   IF table[f][p][slot] \in S THEN NoOp ELSE table[f][p][slot]
  BY DEF Agrees, Shaped, Release
<1>3. EntriesScheduled(l, ii, released, rest)
  BY <1>1, <1>2 DEF Agrees, EntriesScheduled
<1>4. InstructionsPlaced(l, ii, released, rest)
  <2> SUFFICES ASSUME NEW o \in DOMAIN sched \ S
               PROVE  \E port \in 0 .. l.issueSlots[l.fu[o]] - 1 :
                         \A p \in 0 .. l.issueSlots[l.fu[o]] - 1 :
                            released[l.fu[o]][p][sched[o] % ii] = o <=> p = port
    BY <1>1 DEF InstructionsPlaced
  <2>1. /\ o # NoOp /\ l.fu[o] \in DOMAIN l.issueSlots /\ sched[o] \in Nat
    BY LoopFacts DEF Times, Constrained
  <2>2. PICK port \in 0 .. l.issueSlots[l.fu[o]] - 1 :
           \A p \in 0 .. l.issueSlots[l.fu[o]] - 1 :
              table[l.fu[o]][p][sched[o] % ii] = o <=> p = port
    BY DEF Agrees, InstructionsPlaced
  <2>3. sched[o] % ii \in 0 .. ii - 1
    BY <2>1, SlotOfTime
  <2> QED
    BY <1>2, <2>1, <2>2, <2>3
<1> QED
  BY <1>1, <1>2, <1>3, <1>4 DEF Agrees, Times

\* So does giving an instruction a time and a port that is free there.
LEMMA PlaceAgrees ==
  ASSUME NEW l \in Loops, NEW ii \in Nat \ {0}, NEW table, NEW sched,
         Times(l, sched), Agrees(l, ii, table, sched),
         NEW o \in DOMAIN l.fu, o \notin DOMAIN sched, NEW time \in Nat,
         NEW slot, slot = time % ii,
         NEW port \in DOMAIN table[l.fu[o]],
         table[l.fu[o]][port][slot] = NoOp
  PROVE  /\ Agrees(l, ii, Put(table, l.fu[o], port, slot, o), WithTime(sched, o, time))
         /\ Times(l, WithTime(sched, o, time))
         /\ DOMAIN WithTime(sched, o, time) = DOMAIN sched \cup {o}
<1> DEFINE placed == Put(table, l.fu[o], port, slot, o)
           more == WithTime(sched, o, time)
<1>1. /\ DOMAIN more = DOMAIN sched \cup {o}
      /\ more[o] = time
      /\ \A q \in DOMAIN sched : more[q] = sched[q]
      /\ more \in [DOMAIN more -> Nat]
  BY DEF WithTime, Times
<1>2. /\ l.fu[o] \in DOMAIN l.issueSlots
      /\ slot \in 0 .. ii - 1
      /\ o # NoOp
  BY LoopFacts, SlotOfTime DEF Constrained
<1>0. port \in 0 .. l.issueSlots[l.fu[o]] - 1
  BY <1>2 DEF Agrees, Shaped
<1>3. Shaped(l, ii, placed)
  BY <1>2 DEF Agrees, Shaped, Put
<1>4. \A f \in DOMAIN l.issueSlots : \A p \in 0 .. l.issueSlots[f] - 1 :
         \A s \in 0 .. ii - 1 :
            placed[f][p][s] =
                IF f = l.fu[o] /\ p = port /\ s = slot THEN o ELSE table[f][p][s]
  BY <1>2 DEF Agrees, Shaped, Put
<1>5. EntriesScheduled(l, ii, placed, more)
  BY <1>1, <1>2, <1>4 DEF Agrees, EntriesScheduled
<1>6. InstructionsPlaced(l, ii, placed, more)
  <2> SUFFICES ASSUME NEW q \in DOMAIN more
               PROVE  \E r \in 0 .. l.issueSlots[l.fu[q]] - 1 :
                         \A p \in 0 .. l.issueSlots[l.fu[q]] - 1 :
                            placed[l.fu[q]][p][more[q] % ii] = q <=> p = r
    BY DEF InstructionsPlaced
  <2>1. CASE q = o
    <3>1. \A p \in 0 .. l.issueSlots[l.fu[o]] - 1 : table[l.fu[o]][p][slot] # o
      BY <1>2 DEF Agrees, EntriesScheduled
    <3> QED
      BY <1>0, <1>1, <1>2, <1>4, <2>1, <3>1
  <2>2. CASE q # o
    <3>1. q \in DOMAIN sched /\ q # NoOp /\ l.fu[q] \in DOMAIN l.issueSlots
          /\ more[q] = sched[q] /\ sched[q] % ii \in 0 .. ii - 1
      BY <1>1, <2>2, LoopFacts, SlotOfTime DEF Times, Constrained
    <3>2. PICK r \in 0 .. l.issueSlots[l.fu[q]] - 1 :
             \A p \in 0 .. l.issueSlots[l.fu[q]] - 1 :
                table[l.fu[q]][p][sched[q] % ii] = q <=> p = r
      BY <3>1 DEF Agrees, InstructionsPlaced
    <3>3. \A p \in 0 .. l.issueSlots[l.fu[q]] - 1 :
             placed[l.fu[q]][p][sched[q] % ii] = q <=> table[l.fu[q]][p][sched[q] % ii] = q
      BY <1>4, <2>2, <3>1
    <3> QED
      BY <3>1, <3>2, <3>3
  <2> QED
    BY <2>1, <2>2
<1> QED
  BY <1>1, <1>3, <1>5, <1>6 DEF Agrees, Times

\* A set from which every element is found in one of n places.
LEMMA AtMostPlaces ==
  ASSUME NEW users, NEW n \in Nat \ {0}, NEW place,
         \A o \in users : \E p \in 0 .. n - 1 : place[p] = o
  PROVE  Cardinality(users) <= n
<1> DEFINE ports == 0 .. n - 1
           placeOf == [o \in users |-> CHOOSE p \in ports : place[p] = o]
<1>1. IsFiniteSet(ports) /\ Cardinality(ports) = n
  BY FS_Interval
<1>2. \A o \in users : placeOf[o] \in ports /\ place[placeOf[o]] = o
  OBVIOUS
<1>3. placeOf \in [users -> ports] /\ DOMAIN placeOf = users
  BY <1>2
<1>4. IsInjective(placeOf)
  BY <1>2 DEF IsInjective
<1>5. placeOf \in Injection(users, ports)
  BY <1>3, <1>4 DEF Injection
<1> HIDE DEF placeOf, ports
<1>6. Cardinality(users) <= Cardinality(ports)
  BY <1>1, <1>5, FS_Injection
<1> QED
  BY <1>1, <1>6

\* No unit has more instructions in a slot than ports.
LEMMA AtMostIssueSlots ==
  ASSUME NEW l \in Loops, NEW ii \in Nat \ {0}, NEW table, NEW sched,
         Times(l, sched), Agrees(l, ii, table, sched),
         NEW f \in DOMAIN l.issueSlots, NEW slot \in 0 .. ii - 1
  PROVE  Cardinality({o \in DOMAIN sched : l.fu[o] = f /\ sched[o] % ii = slot})
            <= l.issueSlots[f]
<1> DEFINE users == {o \in DOMAIN sched : l.fu[o] = f /\ sched[o] % ii = slot}
           place == [p \in 0 .. l.issueSlots[f] - 1 |-> table[f][p][slot]]
<1>1. l.issueSlots[f] \in Nat \ {0}
  BY LoopFacts
<1>2. \A o \in users : \E p \in 0 .. l.issueSlots[f] - 1 : table[f][p][slot] = o
  BY DEF Agrees, InstructionsPlaced
<1>3. \A o \in users : \E p \in 0 .. l.issueSlots[f] - 1 : place[p] = o
  BY <1>2
<1> HIDE DEF users, place
<1>4. Cardinality(users) <= l.issueSlots[f]
  BY <1>1, <1>3, AtMostPlaces
<1> QED
  BY <1>4 DEF users

-----------------------------------------------------------------------------
(* The invariant.                                                          *)

\* Work list, linear program, schedule and table agree during an attempt.
Fixed ==
    phase = "scheduling" =>
        /\ Agrees(loop, II, reservationTable, schedTime)
        /\ Times(loop, schedTime)
        /\ queue = unscheduled
        /\ DOMAIN schedTime = Constrained(loop) \ unscheduled
        /\ pinned = schedTime

\* The times of the linear program meet its constraints.
Solved ==
    phase = "scheduling" => IsSolution(dag, II, atLeast, pinned, sdcSchedTime)

IInv == TypeOK /\ dag = Graph(loop) /\ Fixed /\ Solved /\ ScheduleRepeats

\* TypeOK, without its phases.
AttemptTypes ==
    /\ queue \subseteq Constrained(loop)
    /\ unscheduled \subseteq Constrained(loop)
    /\ atLeast \in [loop.ops -> Nat]
    /\ sdcSchedTime \in [loop.ops -> Nat]
    /\ pinned \in [DOMAIN pinned -> Nat]
    /\ schedTime \in [DOMAIN schedTime -> Nat]
    /\ DOMAIN prevSchedTime \subseteq Constrained(loop)
    /\ prevSchedTime \in [DOMAIN prevSchedTime -> Nat]
    /\ DOMAIN reservationTable = DOMAIN loop.issueSlots

\* The solutions of the linear program.
LEMMA SolutionMeets ==
  ASSUME NEW g, NEW ii, NEW ge, NEW eq, NEW t \in Solutions(g, ii, ge, eq)
  PROVE  IsSolution(g, ii, ge, eq, t)
BY DEF Solutions

LEMMA SolutionType ==
  ASSUME NEW g, NEW ii, NEW ops, NEW ge \in [ops -> Nat], NEW eq, NEW t,
         IsSolution(g, ii, ge, eq, t)
  PROVE  t \in [ops -> Nat]
BY DEF IsSolution

\* scheduleSDCInstruction keeps the agreement, whatever is evicted.
LEMMA Placement ==
  ASSUME IInv, phase = "scheduling", NEW o \in queue, NEW S \in SUBSET DOMAIN schedTime,
         NEW time \in Nat, ScheduleWithout(S, o, time)
  PROVE  /\ Agrees(loop, II, reservationTable', schedTime')
         /\ Times(loop, schedTime')
         /\ queue' = unscheduled' /\ unscheduled' \subseteq Constrained(loop)
         /\ DOMAIN schedTime' = Constrained(loop) \ unscheduled'
         /\ pinned' = schedTime'
         /\ atLeast' \in [loop.ops -> Nat]
         /\ DOMAIN prevSchedTime' \subseteq Constrained(loop)
         /\ prevSchedTime' \in [DOMAIN prevSchedTime' -> Nat]
         /\ DOMAIN reservationTable' = DOMAIN loop.issueSlots
<1> DEFINE released == Release(reservationTable, S)
           rest == Without(schedTime, S)
           slot == time % II
<1>1. /\ loop \in Loops /\ II \in Nat \ {0}
      /\ o \in Constrained(loop) /\ o \notin DOMAIN schedTime
      /\ S \subseteq Constrained(loop)
      /\ Agrees(loop, II, reservationTable, schedTime) /\ Times(loop, schedTime)
      /\ queue = unscheduled /\ unscheduled \subseteq Constrained(loop)
      /\ DOMAIN schedTime = Constrained(loop) \ unscheduled
      /\ pinned = schedTime
      /\ atLeast \in [loop.ops -> Nat]
      /\ DOMAIN prevSchedTime \subseteq Constrained(loop)
      /\ prevSchedTime \in [DOMAIN prevSchedTime -> Nat]
  BY DEF IInv, TypeOK, Fixed
<1>2. /\ Agrees(loop, II, released, rest) /\ Times(loop, rest)
      /\ DOMAIN rest = DOMAIN schedTime \ S
  BY <1>1, ReleaseAgrees
<1>3. PICK port \in findEmptySlot(released, o, time) :
         reservationTable' = Put(released, loop.fu[o], port, slot, o)
  BY DEF ScheduleWithout, Put
<1>4. /\ port \in DOMAIN released[loop.fu[o]]
      /\ released[loop.fu[o]][port][slot] = NoOp
  BY DEF findEmptySlot, Users
<1>5. o \in DOMAIN loop.fu /\ o \notin DOMAIN rest
  BY <1>1, <1>2 DEF Constrained
<1>6. slot = time % II
  OBVIOUS
<1>7. schedTime' = WithTime(rest, o, time) /\ pinned' = schedTime'
  BY <1>1 DEF ScheduleWithout
<1> HIDE DEF released, rest, slot
<1>8. /\ Agrees(loop, II, reservationTable', schedTime') /\ Times(loop, schedTime')
      /\ DOMAIN schedTime' = DOMAIN rest \cup {o}
  <2>1. /\ Agrees(loop, II, Put(released, loop.fu[o], port, slot, o),
                   WithTime(rest, o, time))
        /\ Times(loop, WithTime(rest, o, time))
        /\ DOMAIN WithTime(rest, o, time) = DOMAIN rest \cup {o}
    <3>1. /\ loop \in Loops /\ II \in Nat \ {0} /\ time \in Nat
          /\ o \in DOMAIN loop.fu /\ o \notin DOMAIN rest
          /\ Agrees(loop, II, released, rest) /\ Times(loop, rest)
          /\ port \in DOMAIN released[loop.fu[o]]
          /\ released[loop.fu[o]][port][slot] = NoOp
          /\ slot = time % II
      BY <1>1, <1>2, <1>4, <1>5, <1>6
    <3> QED
      BY ONLY <3>1, PlaceAgrees
  <2> QED
    BY ONLY <1>3, <1>7, <2>1
<1>9. /\ queue' = unscheduled' /\ unscheduled' \subseteq Constrained(loop)
      /\ DOMAIN schedTime' = Constrained(loop) \ unscheduled'
  BY <1>1, <1>2, <1>8 DEF ScheduleWithout
<1>10. atLeast' \in [loop.ops -> Nat]
  BY <1>1 DEF ScheduleWithout, Unbound
<1>11. /\ DOMAIN prevSchedTime' \subseteq Constrained(loop)
       /\ prevSchedTime' \in [DOMAIN prevSchedTime' -> Nat]
  BY <1>1 DEF ScheduleWithout, WithTime
<1>12. DOMAIN reservationTable' = DOMAIN loop.issueSlots
  BY <1>8 DEF Agrees, Shaped
<1> QED
  BY <1>7, <1>8, <1>9, <1>10, <1>11, <1>12

\* What a step inside an attempt has to keep.
Inside ==
    /\ phase \in {"scheduling", "assertion"}
    /\ budget \in Nat
    /\ AttemptTypes
    /\ Fixed
    /\ Solved

LEMMA Continues ==
  ASSUME IInv, Inside', UNCHANGED <<loop, setting, dag, II>>
  PROVE  IInv'
BY DEF IInv, Inside, TypeOK, AttemptTypes, ScheduleRepeats, Ended

\* The state of an attempt, spelled out.
LEMMA Attempt ==
  ASSUME IInv, phase = "scheduling"
  PROVE  /\ loop \in Loops /\ II \in Nat \ {0} /\ budget \in Nat
         /\ AttemptTypes
         /\ IsSolution(dag, II, atLeast, pinned, sdcSchedTime)
         /\ \A o \in queue : o \in Constrained(loop) /\ o \in loop.ops /\ sdcSchedTime[o] \in Nat
<1>1. loop \in Loops /\ queue \subseteq Constrained(loop) /\ sdcSchedTime \in [loop.ops -> Nat]
  BY DEF IInv, TypeOK
<1>2. \A o \in queue : o \in Constrained(loop) /\ o \in loop.ops
  BY <1>1, LoopFacts
<1> QED
  BY <1>1, <1>2 DEF IInv, TypeOK, AttemptTypes, Solved

LEMMA WithoutNone ==
  ASSUME NEW f, f \in [DOMAIN f -> Nat]
  PROVE  Without(f, {}) = f
BY DEF Without, Restrict

LEMMA UnboundNone ==
  ASSUME NEW ops, NEW ge \in [ops -> Nat]
  PROVE  Unbound(ge, {}) = ge
BY DEF Unbound

LEMMA WithBoundType ==
  ASSUME NEW ops, NEW ge \in [ops -> Nat], NEW o, NEW t \in Nat
  PROVE  WithBound(ge, o, t) \in [ops -> Nat]
BY DEF WithBound

LEMMA InitIInv == Init => IInv
<1> SUFFICES ASSUME Init PROVE IInv
  OBVIOUS
<1>1. loop \in Loops /\ setting \in Settings /\ setting.user_II \in Nat
  BY SettingsAssumption DEF Init
<1>2. phase \in {"II too large", "not pipelined", "start"}
  BY DEF Init
<1>3. II \in Nat /\ II # 0
  <2>1. \A mii \in getInitialMII(loop, dag) : mii \in Nat /\ mii # 0
    BY DEF getInitialMII
  <2>2. II = 1 \/ \E mii \in getInitialMII(loop, dag) :
                     II = IF setting.user_II > mii THEN setting.user_II ELSE mii
    BY DEF Init
  <2> QED
    BY <1>1, <2>1, <2>2
<1> QED
  BY <1>1, <1>2, <1>3 DEF Init, Nothing, IInv, TypeOK, Ended, Fixed, Solved, ScheduleRepeats

LEMMA StartKeeps ==
  ASSUME IInv, StartAttempt
  PROVE  IInv'
<1>1. /\ loop \in Loops /\ setting \in Settings /\ II \in Nat \ {0}
      /\ setting.budgetRatio \in Nat
  BY SettingsAssumption DEF IInv, TypeOK
<1>2. budget' \in Nat
  BY <1>1, LoopFacts DEF StartAttempt
<1>3. /\ UNCHANGED <<loop, setting, dag, II>>
      /\ phase' \in {"scheduling", "assertion"}
      /\ queue' = Constrained(loop) /\ unscheduled' = Constrained(loop)
      /\ schedTime' = NoPins /\ pinned' = NoPins /\ prevSchedTime' = NoPins
      /\ atLeast' = Unbounded(loop) /\ reservationTable' = EmptyTable(loop, II)
  BY DEF StartAttempt, Asserting
<1>4. Fixed'
  BY <1>1, <1>3, EmptyAgrees DEF Fixed, NoPins
<1>5. Unbounded(loop) \in [loop.ops -> Nat]
  BY DEF Unbounded
<1>6. CASE phase' = "scheduling"
  <2>1. IsSolution(dag, II, Unbounded(loop), NoPins, sdcSchedTime')
    BY <1>6, SolutionMeets DEF StartAttempt, Asserting, scheduleSDC
  <2>2. sdcSchedTime' \in [loop.ops -> Nat]
    BY <1>5, <2>1, SolutionType
  <2>3. AttemptTypes'
    BY <1>3, <1>5, <2>2 DEF AttemptTypes, NoPins, EmptyTable
  <2>4. Solved'
    BY <1>3, <2>1 DEF Solved
  <2> QED
    BY <1>2, <1>3, <1>4, <2>3, <2>4, Continues DEF Inside
<1>7. CASE phase' = "assertion"
  BY <1>1, <1>2, <1>3, <1>7 DEF IInv, TypeOK, Ended, Fixed, Solved, ScheduleRepeats
<1> QED
  BY <1>3, <1>6, <1>7

LEMMA ScheduleAtStepKeeps ==
  ASSUME IInv, NEW o \in queue, ScheduleAtStep(o)
  PROVE  IInv'
<1>1. /\ phase = "scheduling" /\ budget' = budget - 1 /\ budget > 0
      /\ UNCHANGED <<loop, setting, dag, II, sdcSchedTime>>
      /\ phase' \in {"scheduling", "assertion"}
      /\ ScheduleWithout({}, o, sdcSchedTime[o])
  BY DEF ScheduleAtStep, Selected, Asserting
<1>2. budget' \in Nat /\ sdcSchedTime[o] \in Nat
  BY <1>1, Attempt
<1>3. AttemptTypes' /\ Fixed'
  BY <1>1, <1>2, Attempt, Placement DEF AttemptTypes, Fixed, Times
<1>4. Solved'
  <2>1. /\ pinned' = WithTime(pinned, o, sdcSchedTime[o])
        /\ atLeast' = atLeast
    BY <1>1, Attempt, WithoutNone, UnboundNone DEF ScheduleWithout, AttemptTypes
  <2>2. IsSolution(dag, II, atLeast, pinned, sdcSchedTime)
    BY <1>1, Attempt
  <2> QED
    BY <1>1, <2>1, <2>2 DEF Solved, IsSolution, WithTime
<1> QED
  BY <1>1, <1>2, <1>3, <1>4, Continues DEF Inside

\* A later start of an instruction that finds no room.
LEMMA PostponedInside ==
  ASSUME IInv, phase = "scheduling", NEW o \in queue,
         Feasible(dag, II, Later(o), pinned),
         atLeast' = Later(o), scheduleSDC(Later(o), pinned),
         phase' \in {"scheduling", "assertion"}, budget' \in Nat,
         UNCHANGED <<loop, setting, dag, II, queue, unscheduled, pinned, schedTime,
                     reservationTable, prevSchedTime>>
  PROVE  IInv'
<1>1. /\ AttemptTypes /\ sdcSchedTime[o] \in Nat
      /\ loop \in Loops /\ II \in Nat \ {0}
  BY Attempt
<1>2. Later(o) \in [loop.ops -> Nat]
  <2>1. sdcSchedTime[o] + 1 \in Nat /\ atLeast \in [loop.ops -> Nat]
    BY <1>1 DEF AttemptTypes
  <2> QED
    BY <2>1, WithBoundType DEF Later
<1>3. IsSolution(dag, II, Later(o), pinned, sdcSchedTime')
  BY SolutionMeets DEF scheduleSDC
<1>4. sdcSchedTime' \in [loop.ops -> Nat]
  BY <1>2, <1>3, SolutionType
<1>5. AttemptTypes'
  BY <1>1, <1>2, <1>4 DEF AttemptTypes
<1>6. Fixed'
  BY DEF IInv, Fixed
<1>7. Solved'
  BY <1>3 DEF Solved
<1> QED
  BY <1>5, <1>6, <1>7, Continues DEF Inside

LEMMA PostponeKeeps ==
  ASSUME IInv, NEW o \in queue, Postpone(o)
  PROVE  IInv'
<1>1. /\ phase = "scheduling" /\ budget' = budget - 1 /\ budget > 0
      /\ phase' \in {"scheduling", "assertion"}
      /\ UNCHANGED <<loop, setting, dag, II>>
  BY DEF Postpone, Selected, Asserting
<1>2. budget' \in Nat
  BY <1>1, Attempt
<1> QED
  BY <1>1, <1>2, PostponedInside DEF Postpone

\* Whom backtracking evicts is in the schedule.
LEMMA EvictedScheduled ==
  ASSUME IInv, phase = "scheduling", NEW o \in queue, NEW time \in Nat
  PROVE  Evicted(o, time) \subseteq DOMAIN schedTime
<1>1. /\ loop \in Loops /\ II \in Nat \ {0}
      /\ Agrees(loop, II, reservationTable, schedTime)
      /\ o \in DOMAIN loop.fu
  BY Attempt DEF IInv, Fixed, Constrained
<1>2. /\ loop.fu[o] \in DOMAIN loop.issueSlots
      /\ loop.issueSlots[loop.fu[o]] \in Nat \ {0}
  BY <1>1, LoopFacts
<1>3. time % II \in 0 .. II - 1
  BY <1>1, SlotOfTime
<1>4. 0 \in DOMAIN Users(reservationTable, o, time)
  BY <1>1, <1>2 DEF Agrees, Shaped, Users
<1>5. ASSUME resourceConflict(reservationTable, o, time)
      PROVE  Users(reservationTable, o, time)[0] \in DOMAIN schedTime
  <2>1. /\ Users(reservationTable, o, time)[0] # NoOp
        /\ Users(reservationTable, o, time)[0] = reservationTable[loop.fu[o]][0][time % II]
    BY <1>4, <1>5 DEF resourceConflict, Users
  <2> QED
    BY <1>1, <1>2, <1>3, <2>1 DEF Agrees, EntriesScheduled
<1> QED
  BY <1>5 DEF Evicted, Displaced

LEMMA EvictSlotType ==
  ASSUME IInv, phase = "scheduling", NEW o \in queue
  PROVE  evictSlot(o) \subseteq Nat
<1>1. sdcSchedTime[o] \in Nat /\ prevSchedTime \in [DOMAIN prevSchedTime -> Nat]
  BY Attempt DEF AttemptTypes
<1>2. LegalTimes(o) \subseteq Nat
  BY <1>1 DEF LegalTimes
<1>3. minTime(o) \subseteq Nat
  BY <1>1, <1>2 DEF minTime
<1> QED
  BY <1>1, <1>3 DEF evictSlot

LEMMA BacktrackKeeps ==
  ASSUME IInv, NEW o \in queue, Backtrack(o)
  PROVE  IInv'
<1>1. /\ phase = "scheduling" /\ budget' = budget - 1 /\ budget > 0
      /\ UNCHANGED <<loop, setting, dag, II>>
  BY DEF Backtrack, Selected
<1>2. PICK time \in evictSlot(o) : \E S \in {Evicted(o, time)} :
         /\ ScheduleWithout(S, o, time)
         /\ scheduleSDC(atLeast', pinned')
         /\ phase' \in {"scheduling", "assertion"}
         /\ phase' = "scheduling" => Feasible(dag, II, atLeast', pinned')
  BY DEF Backtrack, Asserting
<1>3. PICK S \in {Evicted(o, time)} :
         /\ ScheduleWithout(S, o, time)
         /\ scheduleSDC(atLeast', pinned')
         /\ phase' \in {"scheduling", "assertion"}
         /\ phase' = "scheduling" => Feasible(dag, II, atLeast', pinned')
  BY <1>2
<1>4. time \in Nat /\ S \in SUBSET DOMAIN schedTime
  BY <1>1, EvictSlotType, EvictedScheduled
<1>5. /\ budget' \in Nat /\ loop \in Loops /\ II \in Nat \ {0}
      /\ sdcSchedTime \in [loop.ops -> Nat]
  BY <1>1, Attempt DEF AttemptTypes
<1>6. /\ Agrees(loop, II, reservationTable', schedTime')
      /\ Times(loop, schedTime')
      /\ queue' = unscheduled' /\ unscheduled' \subseteq Constrained(loop)
      /\ DOMAIN schedTime' = Constrained(loop) \ unscheduled'
      /\ pinned' = schedTime'
      /\ atLeast' \in [loop.ops -> Nat]
      /\ DOMAIN prevSchedTime' \subseteq Constrained(loop)
      /\ prevSchedTime' \in [DOMAIN prevSchedTime' -> Nat]
      /\ DOMAIN reservationTable' = DOMAIN loop.issueSlots
  BY <1>1, <1>3, <1>4, Placement
<1>7. Fixed'
  BY <1>1, <1>6 DEF Fixed
<1>8. Feasible(dag, II, atLeast', pinned') => IsSolution(dag, II, atLeast', pinned', sdcSchedTime')
  BY <1>3, SolutionMeets DEF scheduleSDC
<1>9. sdcSchedTime' \in [loop.ops -> Nat]
  BY <1>3, <1>5, <1>6, <1>8, SolutionType DEF scheduleSDC
<1>10. Solved'
  BY <1>1, <1>3, <1>8 DEF Solved
<1>11. AttemptTypes'
  BY <1>1, <1>6, <1>9 DEF AttemptTypes, Times
<1> QED
  BY <1>1, <1>3, <1>5, <1>7, <1>10, <1>11, Continues DEF Inside

LEMMA GreedyScheduleKeeps ==
  ASSUME IInv, NEW o \in queue, GreedySchedule(o)
  PROVE  IInv'
<1>1. /\ phase = "scheduling" /\ budget' = budget
      /\ UNCHANGED <<loop, setting, dag, II, phase>>
  BY DEF GreedySchedule, Selected
<1>2. PICK time \in FreeTimes(o) : ScheduleWithout({}, o, time)
  BY DEF GreedySchedule
<1>3. time \in Nat /\ FeasibleAt(atLeast, pinned, o, time)
  BY <1>1, Attempt DEF FreeTimes
<1>4. /\ budget' \in Nat /\ loop \in Loops /\ II \in Nat \ {0} /\ AttemptTypes
  BY <1>1, Attempt
<1>5. /\ pinned' = WithTime(pinned, o, time)
      /\ atLeast' = atLeast
  BY <1>2, <1>4, WithoutNone, UnboundNone DEF ScheduleWithout, AttemptTypes
<1>6. IsSolution(dag, II, atLeast, pinned', sdcSchedTime')
  <2>1. Feasible(dag, II, atLeast, pinned')
    BY <1>3, <1>5 DEF FeasibleAt
  <2>2. sdcSchedTime' \in Solutions(dag, II, atLeast, pinned')
    BY <2>1 DEF GreedySchedule, scheduleSDC
  <2> QED
    BY <2>2, SolutionMeets
<1>7. sdcSchedTime' \in [loop.ops -> Nat]
  BY <1>4, <1>6, SolutionType DEF AttemptTypes
<1>8. AttemptTypes' /\ Fixed'
  BY <1>1, <1>2, <1>3, <1>7, Placement DEF AttemptTypes, Fixed, Times
<1>9. Solved'
  BY <1>1, <1>5, <1>6 DEF Solved
<1> QED
  BY <1>1, <1>4, <1>8, <1>9, Continues DEF Inside

\* An attempt that fails starts the next one, or ends the pass.
LEMMA IncrementKeeps ==
  ASSUME IInv, phase = "scheduling", IncrementII, budget' = budget,
         UNCHANGED <<loop, setting, dag, queue, unscheduled>>
  PROVE  IInv'
<1>1. /\ phase' \in {"start", "not pipelined", "II too large"}
  BY DEF IncrementII
<1>2. II' \in Nat /\ II' # 0
  <2>1. II \in Nat /\ II # 0
    BY DEF IInv, TypeOK
  <2>2. II' = II \/ II' = II + 1
    BY DEF IncrementII
  <2> QED
    BY <2>1, <2>2
<1> QED
  BY <1>1, <1>2 DEF IInv, TypeOK, Ended, Fixed, Solved, ScheduleRepeats

LEMMA GreedyPostponeKeeps ==
  ASSUME IInv, NEW o \in queue, GreedyPostpone(o)
  PROVE  IInv'
<1>1. /\ phase = "scheduling" /\ atLeast' = Later(o) /\ scheduleSDC(Later(o), pinned)
      /\ UNCHANGED <<loop, setting, dag, budget, queue, unscheduled, pinned, schedTime,
                     reservationTable, prevSchedTime>>
  BY DEF GreedyPostpone
<1>2. CASE Feasible(dag, II, Later(o), pinned)
  <2>1. UNCHANGED <<phase, II>> /\ budget' \in Nat
    BY <1>1, <1>2, Attempt DEF GreedyPostpone
  <2> QED
    BY <1>1, <1>2, <2>1, PostponedInside
<1>3. CASE ~Feasible(dag, II, Later(o), pinned)
  BY <1>1, <1>3, IncrementKeeps DEF GreedyPostpone
<1> QED
  BY <1>2, <1>3

\* The schedule that is returned has the times of the linear program, and the
\* places of the table.
LEMMA FinishRepeats ==
  ASSUME IInv, FinishAttempt, phase' = "scheduled"
  PROVE  ScheduleRepeats' /\ TypeOK'
<1>1. /\ phase = "scheduling"
      /\ UNCHANGED <<loop, setting, dag, budget, queue, unscheduled, atLeast, pinned,
                     sdcSchedTime, reservationTable, prevSchedTime>>
      /\ assignUnconstrainedOperations \/ UNCHANGED schedTime
      /\ unscheduled = {} /\ UNCHANGED II
  BY DEF FinishAttempt, IncrementII
<1>2. /\ loop \in Loops /\ II \in Nat \ {0} /\ AttemptTypes
      /\ IsSolution(dag, II, atLeast, pinned, sdcSchedTime)
  BY <1>1, Attempt
<1>3. /\ Agrees(loop, II, reservationTable, schedTime) /\ Times(loop, schedTime)
      /\ DOMAIN schedTime = Constrained(loop)
      /\ pinned = schedTime
  BY <1>1 DEF IInv, Fixed
<1>4. \A o \in DOMAIN schedTime : schedTime[o] = sdcSchedTime[o]
  BY <1>2, <1>3 DEF IsSolution
<1>5. /\ DOMAIN schedTime \subseteq loop.ops
      /\ sdcSchedTime \in [loop.ops -> Nat]
  BY <1>2, <1>3, LoopFacts DEF AttemptTypes
<1>6. /\ \A o \in DOMAIN schedTime' : schedTime'[o] = sdcSchedTime[o]
      /\ \A o \in Constrained(loop) : o \in DOMAIN schedTime' /\ schedTime'[o] = schedTime[o]
      /\ schedTime' \in [DOMAIN schedTime' -> Nat]
  BY <1>1, <1>3, <1>4, <1>5, <1>2 DEF assignUnconstrainedOperations, AttemptTypes
<1>7. ASSUME NEW d \in dag, {d.from, d.to} \subseteq DOMAIN schedTime'
      PROVE  Keeps(II, schedTime', d)
  BY <1>2, <1>6, <1>7 DEF IsSolution, Keeps
<1>8. ASSUME NEW f \in DOMAIN loop.issueSlots, NEW slot \in 0 .. II - 1
      PROVE  Cardinality(Occupants(f, slot)') <= loop.issueSlots[f]
  <2>1. Occupants(f, slot)' =
            {o \in DOMAIN schedTime : loop.fu[o] = f /\ schedTime[o] % II = slot}
    BY <1>1, <1>3, <1>6 DEF Occupants
  <2> QED
    BY <1>2, <1>3, <2>1, AtMostIssueSlots
<1>9. ScheduleRepeats'
  BY <1>1, <1>7, <1>8 DEF ScheduleRepeats
<1>10. TypeOK'
  BY <1>1, <1>2, <1>6 DEF IInv, TypeOK, Ended
<1> QED
  BY <1>9, <1>10

LEMMA FinishKeeps ==
  ASSUME IInv, FinishAttempt
  PROVE  IInv'
<1>1. CASE unscheduled = {}
  <2>1. phase' = "scheduled" /\ UNCHANGED <<loop, dag>>
    BY <1>1 DEF FinishAttempt
  <2>2. ScheduleRepeats' /\ TypeOK'
    BY <2>1, FinishRepeats
  <2> QED
    BY <2>1, <2>2 DEF IInv, Fixed, Solved
<1>2. CASE unscheduled # {}
  BY <1>2, IncrementKeeps DEF FinishAttempt
<1> QED
  BY <1>1, <1>2

LEMMA ReturnKeeps ==
  ASSUME IInv, UNCHANGED vars
  PROVE  IInv'
BY DEF IInv, vars, attempt, TypeOK, Fixed, Solved, ScheduleRepeats, Occupants

\* IInv is inductive.
LEMMA StepKeepsIInv == IInv /\ [Next]_vars => IInv'
<1> SUFFICES ASSUME IInv, [Next]_vars PROVE IInv'
  OBVIOUS
<1>1. CASE StartAttempt
  BY <1>1, StartKeeps
<1>2. ASSUME NEW o \in queue, ScheduleAtStep(o) PROVE IInv'
  BY <1>2, ScheduleAtStepKeeps
<1>3. ASSUME NEW o \in queue, Postpone(o) PROVE IInv'
  BY <1>3, PostponeKeeps
<1>4. ASSUME NEW o \in queue, Backtrack(o) PROVE IInv'
  BY <1>4, BacktrackKeeps
<1>5. ASSUME NEW o \in queue, GreedySchedule(o) PROVE IInv'
  BY <1>5, GreedyScheduleKeeps
<1>6. ASSUME NEW o \in queue, GreedyPostpone(o) PROVE IInv'
  BY <1>6, GreedyPostponeKeeps
<1>7. CASE FinishAttempt
  BY <1>7, FinishKeeps
<1>8. CASE Return
  BY <1>8, ReturnKeeps DEF Return
<1>9. CASE UNCHANGED vars
  BY <1>9, ReturnKeeps
<1> QED
  BY <1>1, <1>2, <1>3, <1>4, <1>5, <1>6, <1>7, <1>8, <1>9 DEF Next

LEMMA SpecIInv == Spec => []IInv
BY InitIInv, StepKeepsIInv, PTL DEF Spec

-----------------------------------------------------------------------------
(* Least elements.                                                         *)

LessThan == {ss \in Nat \X Nat : ss[1] < ss[2]}

\* A non-empty set of natural numbers has a least element.
LEMMA LeastNatural ==
  ASSUME NEW S \in SUBSET Nat, S # {}
  PROVE  \E m \in S : \A n \in S : m <= n
<1>1. IsWellFoundedOn(LessThan, Nat)
  BY NatLessThanWellFounded DEF OpToRel, LessThan
<1>2. PICK m \in S : \A n \in S : <<n, m>> \notin LessThan
  BY <1>1, WFMin
<1>3. ASSUME NEW n \in S PROVE m <= n
  <2>1. <<n, m>> \in Nat \X Nat
    OBVIOUS
  <2>2. ~(n < m)
    BY <1>2, <2>1 DEF LessThan
  <2> QED
    BY <2>2
<1> QED
  BY <1>3

-----------------------------------------------------------------------------
(* The linear program.                                                     *)

\* A system of difference constraints on finitely many start times.
IsSystem(ops, g, ii, ge, eq) ==
    /\ IsFiniteSet(ops) /\ ii \in Nat
    /\ ge \in [ops -> Nat]
    /\ DOMAIN eq \subseteq ops /\ \A o \in DOMAIN eq : eq[o] \in Nat
    /\ \A d \in g : /\ d.from \in ops /\ d.to \in ops
                    /\ d.latency \in Nat /\ d.distance \in Nat

Below(ops, s, t) == \A o \in ops : s[o] <= t[o]

IsLeast(ops, g, ii, ge, eq, m) ==
    /\ IsSolution(g, ii, ge, eq, m)
    /\ \A t : IsSolution(g, ii, ge, eq, t) => Below(ops, m, t)

\* What the edge d asks of its target when its source starts at t.
Asked(ii, t, d) == t[d.from] + d.latency - ii * d.distance

\* A set of integers with an upper bound has a maximum.
LEMMA MaxOfBounded ==
  ASSUME NEW S \in SUBSET Int, S # {}, NEW b \in Int, \A x \in S : x <= b
  PROVE  Max(S) \in S /\ \A x \in S : x <= Max(S)
<1> DEFINE gaps == {b - x : x \in S}
<1>1. gaps \in SUBSET Nat /\ gaps # {}
  <2>1. \A x \in S : b - x \in Nat
    OBVIOUS
  <2>2. PICK x \in S : TRUE
    OBVIOUS
  <2> QED
    BY <2>1, <2>2
<1>2. PICK n \in gaps : \A k \in gaps : n <= k
  <2> HIDE DEF gaps
  <2> QED
    BY <1>1, LeastNatural
<1>3. PICK x \in S : n = b - x
  OBVIOUS
<1>4. \A y \in S : x >= y
  BY <1>2, <1>3
<1> QED
  BY <1>3, <1>4 DEF Max

\* The least start times are those of a solution, when there is one.
LEMMA LeastSolution ==
  ASSUME NEW ops, NEW g, NEW ii, NEW ge, NEW eq, IsSystem(ops, g, ii, ge, eq),
         NEW any, IsSolution(g, ii, ge, eq, any)
  PROVE  \E m : IsLeast(ops, g, ii, ge, eq, m)
<1> DEFINE all == {t \in [ops -> Nat] : IsSolution(g, ii, ge, eq, t)}
           times(o) == {t[o] : t \in all}
           m == [o \in ops |-> CHOOSE x \in times(o) : \A y \in times(o) : x <= y]
<1>1. \A t : IsSolution(g, ii, ge, eq, t) => t \in all
  BY DEF IsSolution, IsSystem
<1>2. any \in all
  BY <1>1
<1>3. ASSUME NEW o \in ops
      PROVE  m[o] \in times(o) /\ \A x \in times(o) : m[o] <= x
  <2>1. times(o) \in SUBSET Nat /\ times(o) # {}
    BY <1>2
  <2> HIDE DEF times
  <2>2. \E x \in times(o) : \A y \in times(o) : x <= y
    BY <2>1, LeastNatural
  <2> QED
    BY <2>2
<1>4. \A o \in ops : \A t \in all : m[o] <= t[o]
  BY <1>3
<1>5. ASSUME NEW o \in ops PROVE \E t \in all : m[o] = t[o]
  BY <1>3
<1>6. m \in [ops -> Nat]
  <2>1. \A o \in ops : m[o] \in Nat
    BY <1>5
  <2>2. m = [o \in ops |-> m[o]]
    OBVIOUS
  <2> HIDE DEF m
  <2> QED
    BY <2>1, <2>2
<1> HIDE DEF m
<1>7. \A o \in DOMAIN ge : m[o] >= ge[o]
  BY <1>5 DEF IsSolution, IsSystem
<1>8. \A o \in DOMAIN eq : m[o] = eq[o]
  BY <1>5 DEF IsSolution, IsSystem
<1>9. ASSUME NEW d \in g PROVE Keeps(ii, m, d)
  <2>1. d.from \in ops /\ d.to \in ops /\ d.latency \in Nat /\ d.distance \in Nat /\ ii \in Nat
    BY DEF IsSystem
  <2>2. PICK t \in all : m[d.to] = t[d.to]
    BY <2>1, <1>5
  <2>3. m[d.from] <= t[d.from] /\ t[d.from] \in Nat /\ m[d.from] \in Nat /\ t[d.to] \in Nat
    BY <2>1, <1>4, <1>6
  <2>4. t[d.to] >= t[d.from] + d.latency - ii * d.distance
    BY DEF IsSolution, Keeps
  <2>5. ii * d.distance \in Nat
    BY <2>1
  <2> QED
    BY <2>1, <2>2, <2>3, <2>4, <2>5 DEF Keeps
<1>10. IsSolution(g, ii, ge, eq, m)
  BY <1>6, <1>7, <1>8, <1>9 DEF IsSolution, IsSystem
<1> HIDE DEF all
<1>11. ASSUME NEW t, IsSolution(g, ii, ge, eq, t) PROVE Below(ops, m, t)
  BY <1>1, <1>4, <1>11 DEF Below
<1> QED
  BY <1>10, <1>11 DEF IsLeast

\* Pushing start times that are below a solution raises them, keeps them below
\* it and gives every edge what it asks.
LEMMA PushedBelow ==
  ASSUME NEW ops, NEW g, NEW ii, NEW ge, NEW eq, IsSystem(ops, g, ii, ge, eq),
         NEW m, IsSolution(g, ii, ge, eq, m),
         NEW t \in [ops -> Nat], Below(ops, t, m)
  PROVE  /\ Pushed(g, ii, t) \in [ops -> Nat]
         /\ Below(ops, t, Pushed(g, ii, t))
         /\ Below(ops, Pushed(g, ii, t), m)
         /\ \A d \in g : Asked(ii, t, d) <= Pushed(g, ii, t)[d.to]
<1> DEFINE p == Pushed(g, ii, t)
           asked(o) == {Asked(ii, t, d) : d \in {e \in g : e.to = o}}
<1>1. m \in [ops -> Nat]
  BY DEF IsSolution, IsSystem
<1>2. ASSUME NEW d \in g
      PROVE  /\ d.to \in ops /\ Asked(ii, t, d) \in Int
             /\ Asked(ii, t, d) <= m[d.to]
  <2>1. d.from \in ops /\ d.to \in ops /\ d.latency \in Nat /\ d.distance \in Nat /\ ii \in Nat
    BY DEF IsSystem
  <2>2. t[d.from] <= m[d.from] /\ t[d.from] \in Nat /\ m[d.from] \in Nat /\ m[d.to] \in Nat
    BY <1>1, <2>1 DEF Below
  <2>3. m[d.to] >= m[d.from] + d.latency - ii * d.distance
    BY DEF IsSolution, Keeps
  <2>4. ii * d.distance \in Nat
    BY <2>1
  <2> QED
    BY <2>1, <2>2, <2>3, <2>4 DEF Asked
<1>3. ASSUME NEW o \in ops
      PROVE  /\ p[o] \in {t[o]} \cup asked(o)
             /\ t[o] <= p[o] /\ p[o] <= m[o]
             /\ \A x \in asked(o) : x <= p[o]
  <2>1. p[o] = Max({t[o]} \cup asked(o))
    BY DEF Pushed, Asked
  <2>2. {t[o]} \cup asked(o) \in SUBSET Int
    BY <1>2
  <2>3. \A x \in {t[o]} \cup asked(o) : x <= m[o]
    BY <1>2 DEF Below
  <2>4. m[o] \in Int /\ {t[o]} \cup asked(o) # {}
    BY <1>1
  <2> HIDE DEF p, asked
  <2>5. /\ Max({t[o]} \cup asked(o)) \in {t[o]} \cup asked(o)
        /\ \A x \in {t[o]} \cup asked(o) : x <= Max({t[o]} \cup asked(o))
    BY <2>2, <2>3, <2>4, MaxOfBounded
  <2> QED
    BY <2>1, <2>3, <2>5
<1>4. p \in [ops -> Nat]
  <2>1. \A o \in ops : p[o] \in Nat
    <3> SUFFICES ASSUME NEW o \in ops PROVE p[o] \in Nat
      OBVIOUS
    <3>1. p[o] \in Int /\ t[o] \in Nat /\ t[o] <= p[o]
      BY <1>2, <1>3
    <3> QED
      BY <3>1
  <2>2. p = [o \in ops |-> p[o]]
    BY DEF Pushed
  <2> HIDE DEF p
  <2> QED
    BY <2>1, <2>2
<1>5. \A d \in g : Asked(ii, t, d) <= p[d.to]
  BY <1>2, <1>3
<1> QED
  BY <1>3, <1>4, <1>5 DEF Below

\* The instructions that already have their least time.
Settled(ops, m, t) == {o \in ops : t[o] = m[o]}

\* While an instruction is not settled, a push settles one: otherwise all that
\* are not could start a cycle before their least time.
LEMMA PushSettles ==
  ASSUME NEW ops, NEW g, NEW ii, NEW ge, NEW eq, IsSystem(ops, g, ii, ge, eq),
         NEW m, IsLeast(ops, g, ii, ge, eq, m),
         NEW t \in [ops -> Nat], Below(ops, t, m),
         \A o \in ops : ge[o] <= t[o] /\ (o \in DOMAIN eq => eq[o] <= t[o]),
         Settled(ops, m, t) # ops
  PROVE  \E o \in ops : o \in Settled(ops, m, Pushed(g, ii, t)) /\ o \notin Settled(ops, m, t)
<1> DEFINE p == Pushed(g, ii, t)
           early == [o \in ops |-> IF t[o] = m[o] THEN m[o] ELSE m[o] - 1]
<1> SUFFICES ASSUME \A o \in ops : p[o] = m[o] => t[o] = m[o] PROVE FALSE
  BY DEF Settled
<1>1. IsSolution(g, ii, ge, eq, m) /\ m \in [ops -> Nat]
  BY DEF IsLeast, IsSolution, IsSystem
<1>2. /\ p \in [ops -> Nat]
      /\ Below(ops, t, p) /\ Below(ops, p, m)
      /\ \A d \in g : Asked(ii, t, d) <= p[d.to]
  BY <1>1, PushedBelow
<1> HIDE DEF p
<1>3. \A o \in ops : t[o] # m[o] => t[o] <= p[o] /\ p[o] <= m[o] - 1
  BY <1>1, <1>2 DEF Below
<1>4. early \in [ops -> Nat]
  <2>1. \A o \in ops : t[o] \in Nat /\ m[o] \in Nat /\ p[o] \in Nat
    BY <1>1, <1>2
  <2>2. \A o \in ops : t[o] # m[o] => m[o] - 1 \in Nat
    BY <1>3, <2>1
  <2> QED
    BY <2>1, <2>2
<1>5. /\ \A o \in ops : t[o] <= early[o] /\ early[o] <= m[o]
      /\ \A o \in ops : t[o] # m[o] => p[o] <= early[o] /\ early[o] = m[o] - 1
      /\ \A o \in ops : t[o] = m[o] => early[o] = m[o]
  <2>1. \A o \in ops : t[o] \in Nat /\ m[o] \in Nat /\ p[o] \in Nat
    BY <1>1, <1>2
  <2> QED
    BY <1>3, <2>1
<1> HIDE DEF early
<1>6. \A o \in DOMAIN ge : early[o] >= ge[o]
  <2>1. \A o \in ops : ge[o] \in Nat /\ t[o] \in Nat /\ early[o] \in Nat
    BY <1>4 DEF IsSystem
  <2> QED
    BY <1>5, <2>1 DEF IsSystem
<1>7. \A o \in DOMAIN eq : early[o] = eq[o]
  <2> SUFFICES ASSUME NEW o \in DOMAIN eq PROVE early[o] = eq[o]
    OBVIOUS
  <2>1. o \in ops /\ eq[o] \in Nat /\ t[o] \in Nat /\ early[o] \in Nat /\ m[o] = eq[o]
    BY <1>1, <1>4 DEF IsSystem, IsSolution
  <2> QED
    BY <1>5, <2>1
<1>8. ASSUME NEW d \in g PROVE Keeps(ii, early, d)
  <2>1. d.from \in ops /\ d.to \in ops /\ d.latency \in Nat /\ d.distance \in Nat /\ ii \in Nat
    BY DEF IsSystem
  <2>2. ii * d.distance \in Nat
    BY <2>1
  <2>3. /\ early[d.from] \in Nat /\ early[d.to] \in Nat /\ m[d.from] \in Nat /\ m[d.to] \in Nat
        /\ t[d.from] \in Nat /\ p[d.to] \in Nat
    BY <1>1, <1>2, <1>4, <2>1
  <2>4. m[d.to] >= m[d.from] + d.latency - ii * d.distance
    BY <1>1 DEF IsSolution, Keeps
  <2>5. t[d.from] + d.latency - ii * d.distance <= p[d.to]
    BY <1>2 DEF Asked
  <2>6. CASE t[d.to] = m[d.to]
    <3>1. early[d.to] = m[d.to] /\ early[d.from] <= m[d.from]
      BY <1>5, <2>1, <2>6
    <3> QED
      BY <2>1, <2>2, <2>3, <2>4, <3>1 DEF Keeps
  <2>7. CASE t[d.to] # m[d.to] /\ t[d.from] = m[d.from]
    <3>1. p[d.to] <= early[d.to] /\ early[d.from] = t[d.from]
      BY <1>5, <2>1, <2>7
    <3> QED
      BY <2>1, <2>2, <2>3, <2>5, <3>1 DEF Keeps
  <2>8. CASE t[d.to] # m[d.to] /\ t[d.from] # m[d.from]
    <3>1. early[d.to] = m[d.to] - 1 /\ early[d.from] = m[d.from] - 1
      BY <1>5, <2>1, <2>8
    <3> QED
      BY <2>1, <2>2, <2>3, <2>4, <3>1 DEF Keeps
  <2> QED
    BY <2>6, <2>7, <2>8
<1>9. IsSolution(g, ii, ge, eq, early)
  BY <1>4, <1>6, <1>7, <1>8 DEF IsSolution, IsSystem
<1>10. Below(ops, m, early)
  BY <1>9 DEF IsLeast
<1>11. PICK o \in ops : t[o] # m[o]
  BY DEF Settled
<1> QED
  BY <1>1, <1>5, <1>10, <1>11 DEF Below

-----------------------------------------------------------------------------
(* Solutions pushes as often as there are instructions.                    *)

\* The start times after each of n rounds.
Rounds(x, ops, g, ii, start, n) ==
    /\ x \in [0 .. n -> [ops -> Nat]]
    /\ x[0] = start
    /\ \A k \in 1 .. n : x[k] = Pushed(g, ii, x[k - 1])

Closed(ops, g, ii, m) ==
    \A t \in [ops -> Nat] : Below(ops, t, m) => /\ Pushed(g, ii, t) \in [ops -> Nat]
                                               /\ Below(ops, Pushed(g, ii, t), m)

AllBelow(x, ops, m, n) == \A k \in 0 .. n : Below(ops, x[k], m)

LEMMA RoundsExist ==
  ASSUME NEW ops, NEW g, NEW ii, NEW m, Closed(ops, g, ii, m),
         NEW start \in [ops -> Nat], Below(ops, start, m), NEW n \in Nat
  PROVE  \E x : Rounds(x, ops, g, ii, start, n) /\ AllBelow(x, ops, m, n)
<1> DEFINE Good(x, k) == Rounds(x, ops, g, ii, start, k) /\ AllBelow(x, ops, m, k)
           bad == {k \in Nat : ~\E x : Good(x, k)}
<1> SUFFICES ASSUME bad # {} PROVE FALSE
  OBVIOUS
<1>1. PICK k \in bad : \A j \in bad : k <= j
  <2>1. bad \in SUBSET Nat
    OBVIOUS
  <2> HIDE DEF bad
  <2> QED
    BY <2>1, LeastNatural
<1>2. CASE k = 0
  <2>1. Good([j \in 0 .. 0 |-> start], 0)
    BY DEF Rounds, AllBelow
  <2> QED
    BY <1>2, <2>1
<1>3. CASE k # 0
  <2>1. k \in Nat /\ k - 1 \in Nat /\ k - 1 \notin bad
    BY <1>1, <1>3
  <2>2. PICK x : Good(x, k - 1)
    BY <2>1
  <2> DEFINE last == x[k - 1]
             y == [j \in 0 .. k |-> IF j = k THEN Pushed(g, ii, last) ELSE x[j]]
  <2>3. /\ x \in [0 .. k - 1 -> [ops -> Nat]]
        /\ x[0] = start
        /\ \A j \in 1 .. k - 1 : x[j] = Pushed(g, ii, x[j - 1])
        /\ \A j \in 0 .. k - 1 : Below(ops, x[j], m)
    BY <2>2 DEF Rounds, AllBelow
  <2>4. last \in [ops -> Nat] /\ Below(ops, last, m)
    BY <2>1, <2>3
  <2>5. Pushed(g, ii, last) \in [ops -> Nat] /\ Below(ops, Pushed(g, ii, last), m)
    BY <2>4 DEF Closed
  <2>6. \A j \in 0 .. k : j # k => j \in 0 .. k - 1
    BY <2>1
  <2>7. y \in [0 .. k -> [ops -> Nat]] /\ AllBelow(y, ops, m, k)
    BY <2>3, <2>5, <2>6 DEF AllBelow
  <2>8. y[0] = start
    BY <1>3, <2>1, <2>3
  <2>9. ASSUME NEW j \in 1 .. k PROVE y[j] = Pushed(g, ii, y[j - 1])
    <3>1. j - 1 \in 0 .. k - 1 /\ j - 1 # k /\ y[j - 1] = x[j - 1]
      BY <2>1
    <3>2. CASE j = k
      BY <2>1, <3>1, <3>2
    <3>3. CASE j # k
      BY <2>1, <2>3, <3>1, <3>3
    <3> QED
      BY <3>2, <3>3
  <2> HIDE DEF y
  <2>10. Good(y, k)
    BY <2>7, <2>8, <2>9 DEF Rounds
  <2> QED
    BY <2>10
<1> QED
  BY <1>2, <1>3

\* Every round settles an instruction, as long as there is one to settle.
LEMMA RoundsSettle ==
  ASSUME NEW ops, NEW g, NEW ii, NEW ge, NEW eq, IsSystem(ops, g, ii, ge, eq),
         NEW m, IsLeast(ops, g, ii, ge, eq, m),
         NEW start \in [ops -> Nat],
         \A o \in ops : ge[o] <= start[o] /\ (o \in DOMAIN eq => eq[o] <= start[o]),
         NEW n \in Nat, NEW x,
         Rounds(x, ops, g, ii, start, n), AllBelow(x, ops, m, n)
  PROVE  \A k \in 0 .. n : /\ Below(ops, start, x[k])
                           /\ \/ Settled(ops, m, x[k]) = ops
                              \/ k <= Cardinality(Settled(ops, m, x[k]))
<1> DEFINE Good(k) == /\ Below(ops, start, x[k])
                      /\ \/ Settled(ops, m, x[k]) = ops
                         \/ k <= Cardinality(Settled(ops, m, x[k]))
           bad == {k \in 0 .. n : ~Good(k)}
<1> SUFFICES ASSUME bad # {} PROVE FALSE
  OBVIOUS
<1>1. PICK k \in bad : \A j \in bad : k <= j
  <2>1. bad \in SUBSET Nat
    OBVIOUS
  <2> HIDE DEF bad
  <2> QED
    BY <2>1, LeastNatural
<1>2. IsFiniteSet(ops) /\ \A S \in SUBSET ops : IsFiniteSet(S) /\ Cardinality(S) \in Nat
  BY FS_Subset, FS_CardinalityType DEF IsSystem
<1>3. x[0] = start /\ \A j \in 0 .. n : x[j] \in [ops -> Nat] /\ Below(ops, x[j], m)
  BY DEF Rounds, AllBelow
<1>4. CASE k = 0
  <2>1. Below(ops, start, start)
    BY DEF Below
  <2>2. Settled(ops, m, start) \in SUBSET ops
    BY DEF Settled
  <2>3. 0 <= Cardinality(Settled(ops, m, start))
    BY <1>2, <2>2
  <2> QED
    BY <1>3, <1>4, <2>1, <2>3
<1>5. CASE k # 0
  <2>1. k \in 1 .. n /\ k - 1 \in 0 .. n /\ k - 1 \notin bad
    BY <1>1, <1>5
  <2> DEFINE t == x[k - 1]
             p == Pushed(g, ii, t)
  <2>2. Good(k - 1) /\ x[k] = p /\ t \in [ops -> Nat] /\ p \in [ops -> Nat]
        /\ Below(ops, t, m) /\ Below(ops, p, m) /\ Below(ops, start, t)
    BY <1>3, <2>1 DEF Rounds
  <2>3. IsSolution(g, ii, ge, eq, m) /\ m \in [ops -> Nat]
    BY DEF IsLeast, IsSolution, IsSystem
  <2>4. Below(ops, t, p)
    BY <2>2, <2>3, PushedBelow
  <2> HIDE DEF p, t, Good, bad
  <2>5. Below(ops, start, p)
    BY <2>2, <2>4 DEF Below
  <2> DEFINE old == Settled(ops, m, t)
             new == Settled(ops, m, p)
  <2>6. old \subseteq new /\ old \in SUBSET ops /\ new \in SUBSET ops
    BY <2>2, <2>3, <2>4 DEF Settled, Below
  <2>7. new = ops \/ k <= Cardinality(new)
    <3>1. CASE old = ops
      BY <2>6, <3>1
    <3>2. CASE old # ops
      <4>1. \A o \in ops : ge[o] <= t[o] /\ (o \in DOMAIN eq => eq[o] <= t[o])
        <5> SUFFICES ASSUME NEW o \in ops
                     PROVE  ge[o] <= t[o] /\ (o \in DOMAIN eq => eq[o] <= t[o])
          OBVIOUS
        <5>1. ge[o] \in Nat /\ start[o] \in Nat /\ t[o] \in Nat /\ start[o] <= t[o]
              /\ (o \in DOMAIN eq => eq[o] \in Nat)
          BY <2>2 DEF Below, IsSystem
        <5> QED
          BY <5>1
      <4>2. PICK o \in ops : o \in new /\ o \notin old
        BY <2>2, <3>2, <4>1, PushSettles DEF p
      <4>3. Cardinality(old \cup {o}) = Cardinality(old) + 1
        BY <1>2, <2>6, <4>2, FS_AddElement
      <4>4. old \cup {o} \subseteq new
        BY <2>6, <4>2
      <4>5. Cardinality(old \cup {o}) <= Cardinality(new)
        BY <1>2, <2>6, <4>4, FS_Subset
      <4>6. k - 1 <= Cardinality(old)
        BY <2>2, <3>2 DEF Good, t
      <4>7. Cardinality(old) \in Nat /\ Cardinality(new) \in Nat /\ k \in Nat
        BY <1>2, <2>1, <2>6
      <4> HIDE DEF old, new
      <4> QED
        BY <4>3, <4>5, <4>6, <4>7
    <3> QED
      BY <3>1, <3>2
  <2>8. Good(k)
    BY <2>2, <2>5, <2>7 DEF Good
  <2> QED
    BY <1>1, <2>8 DEF bad
<1> QED
  BY <1>4, <1>5

\* A fold over a set of instructions pushes once for each of them.
Choice(s) == CHOOSE o \in s : TRUE
Folded(f, ops, g, ii, start) ==
    f = [s \in SUBSET ops |->
            IF s = {} THEN {start} ELSE {Pushed(g, ii, t) : t \in f[s \ {Choice(s)}]}]

LEMMA FoldIsRounds ==
  ASSUME NEW ops, IsFiniteSet(ops), NEW g, NEW ii, NEW start, NEW x,
         Rounds(x, ops, g, ii, start, Cardinality(ops))
  PROVE  FoldSet(LAMBDA o, T : {Pushed(g, ii, t) : t \in T}, {start}, ops)
            = {x[Cardinality(ops)]}
<1> DEFINE n == Cardinality(ops)
           fold == CHOOSE f : Folded(f, ops, g, ii, start)
           counted == [s \in SUBSET ops |-> {x[Cardinality(s)]}]
<1>1. FoldSet(LAMBDA o, T : {Pushed(g, ii, t) : t \in T}, {start}, ops) = fold[ops]
  BY DEF FoldSet, MapThenFoldSet, Folded, Choice
<1>2. /\ n \in Nat
      /\ \A s \in SUBSET ops : IsFiniteSet(s) /\ Cardinality(s) \in 0 .. n
  BY FS_Subset, FS_CardinalityType
<1>3. /\ x[0] = start
      /\ \A k \in 1 .. n : x[k] = Pushed(g, ii, x[k - 1])
  BY DEF Rounds
<1>4. ASSUME NEW s \in SUBSET ops, s # {}
      PROVE  /\ s \ {Choice(s)} \in SUBSET ops
             /\ Cardinality(s \ {Choice(s)}) = Cardinality(s) - 1
             /\ Cardinality(s) \in 1 .. n
  <2>1. Choice(s) \in s
    BY <1>4 DEF Choice
  <2>2. Cardinality(s \ {Choice(s)}) = Cardinality(s) - 1
    BY <1>2, <2>1, FS_RemoveElement
  <2>3. Cardinality(s) # 0
    BY <1>2, <1>4, FS_EmptySet
  <2> QED
    BY <1>2, <2>2, <2>3
<1>5. Cardinality({}) = 0
  BY FS_EmptySet
<1>6. Folded(counted, ops, g, ii, start)
  <2>1. ASSUME NEW s \in SUBSET ops
        PROVE  {x[Cardinality(s)]} =
                  IF s = {} THEN {start}
                  ELSE {Pushed(g, ii, t) : t \in counted[s \ {Choice(s)}]}
    <3>1. CASE s = {}
      BY <1>3, <1>5, <3>1
    <3>2. CASE s # {}
      <4>1. counted[s \ {Choice(s)}] = {x[Cardinality(s) - 1]}
        BY <1>4, <3>2
      <4>2. x[Cardinality(s)] = Pushed(g, ii, x[Cardinality(s) - 1])
        BY <1>3, <1>4, <3>2
      <4> HIDE DEF counted
      <4> QED
        BY <3>2, <4>1, <4>2
    <3> QED
      BY <3>1, <3>2
  <2> QED
    BY <2>1 DEF Folded
<1> HIDE DEF counted
<1>7. Folded(fold, ops, g, ii, start)
  BY <1>6
<1> HIDE DEF fold
<1> DEFINE Good(k) == \A s \in SUBSET ops : Cardinality(s) = k => fold[s] = {x[k]}
           bad == {k \in 0 .. n : ~Good(k)}
<1>8. bad = {}
  <2> SUFFICES ASSUME bad # {} PROVE FALSE
    OBVIOUS
  <2>1. PICK k \in bad : \A j \in bad : k <= j
    <3>1. bad \in SUBSET Nat
      OBVIOUS
    <3> HIDE DEF bad
    <3> QED
      BY <3>1, LeastNatural
  <2>2. PICK s \in SUBSET ops : Cardinality(s) = k /\ fold[s] # {x[k]}
    BY <2>1
  <2>3. fold[s] = IF s = {} THEN {start}
                  ELSE {Pushed(g, ii, t) : t \in fold[s \ {Choice(s)}]}
    BY <1>7 DEF Folded
  <2>4. s # {}
    BY <1>3, <1>5, <2>2, <2>3
  <2>5. k \in 1 .. n /\ k - 1 \in 0 .. n /\ Cardinality(s \ {Choice(s)}) = k - 1
    BY <1>2, <1>4, <2>2, <2>4
  <2>6. k - 1 \notin bad
    BY <2>1, <2>5
  <2>7. fold[s \ {Choice(s)}] = {x[k - 1]}
    BY <2>5, <2>6, <1>4, <2>4
  <2>8. x[k] = Pushed(g, ii, x[k - 1])
    BY <1>3, <2>5
  <2> QED
    BY <2>2, <2>3, <2>4, <2>7, <2>8
<1>9. n \notin bad
  BY <1>8
<1>10. fold[ops] = {x[n]}
  BY <1>2, <1>9
<1> QED
  BY <1>1, <1>10

StartTimes(ge, eq) ==
    [o \in DOMAIN ge |-> IF o \in DOMAIN eq THEN Max({ge[o], eq[o]}) ELSE ge[o]]

LEMMA StartBetween ==
  ASSUME NEW ops, NEW g, NEW ii, NEW ge, NEW eq, IsSystem(ops, g, ii, ge, eq),
         NEW m, IsSolution(g, ii, ge, eq, m)
  PROVE  /\ StartTimes(ge, eq) \in [ops -> Nat]
         /\ Below(ops, StartTimes(ge, eq), m)
         /\ \A o \in ops : /\ ge[o] <= StartTimes(ge, eq)[o]
                           /\ o \in DOMAIN eq => eq[o] <= StartTimes(ge, eq)[o]
<1> DEFINE start == StartTimes(ge, eq)
<1>1. ASSUME NEW o \in ops
      PROVE  /\ start[o] \in Nat /\ start[o] <= m[o] /\ ge[o] <= start[o]
             /\ o \in DOMAIN eq => eq[o] <= start[o]
  <2>1. ge[o] \in Nat /\ m[o] \in Nat /\ ge[o] <= m[o]
    BY DEF IsSystem, IsSolution
  <2>2. CASE o \notin DOMAIN eq
    BY <2>1, <2>2 DEF StartTimes, IsSystem
  <2>3. CASE o \in DOMAIN eq
    <3>1. eq[o] \in Nat /\ eq[o] = m[o]
      BY <2>3 DEF IsSystem, IsSolution
    <3> DEFINE both == {ge[o], eq[o]}
    <3>2. /\ both \in SUBSET Int /\ both # {} /\ m[o] \in Int
          /\ \A v \in both : v <= m[o]
      BY <2>1, <3>1
    <3>3. start[o] = Max(both)
      BY <2>3 DEF StartTimes, IsSystem
    <3> HIDE DEF both, start
    <3>4. start[o] \in both /\ \A v \in both : v <= start[o]
      BY <3>2, <3>3, MaxOfBounded
    <3> QED
      BY <2>1, <3>1, <3>4 DEF both
  <2> QED
    BY <2>2, <2>3
<1>2. start = [o \in ops |-> start[o]]
  BY DEF StartTimes, IsSystem
<1> HIDE DEF start
<1>3. start \in [ops -> Nat]
  BY <1>1, <1>2
<1> QED
  BY <1>1, <1>3 DEF Below, start

\* The linear program finds the least solution whenever there is a solution.
LEMMA SolutionsExact ==
  ASSUME NEW ops, NEW g, NEW ii, NEW ge, NEW eq, IsSystem(ops, g, ii, ge, eq),
         NEW any, IsSolution(g, ii, ge, eq, any)
  PROVE  \E m : IsLeast(ops, g, ii, ge, eq, m) /\ Solutions(g, ii, ge, eq) = {m}
<1>1. PICK m : IsLeast(ops, g, ii, ge, eq, m)
  BY LeastSolution
<1>2. IsSolution(g, ii, ge, eq, m) /\ m \in [ops -> Nat]
  BY <1>1 DEF IsLeast, IsSolution, IsSystem
<1> DEFINE n == Cardinality(ops)
           start == StartTimes(ge, eq)
<1>3. /\ start \in [ops -> Nat] /\ Below(ops, start, m)
      /\ \A o \in ops : ge[o] <= start[o] /\ (o \in DOMAIN eq => eq[o] <= start[o])
  BY <1>2, StartBetween
<1>4. n \in Nat /\ IsFiniteSet(ops) /\ DOMAIN ge = ops
  BY FS_CardinalityType DEF IsSystem
<1>5. Closed(ops, g, ii, m)
  BY <1>2, PushedBelow DEF Closed
<1> HIDE DEF start
<1>6. PICK x : Rounds(x, ops, g, ii, start, n) /\ AllBelow(x, ops, m, n)
  BY <1>3, <1>4, <1>5, RoundsExist
<1>7. Settled(ops, m, x[n]) = ops \/ n <= Cardinality(Settled(ops, m, x[n]))
  <2>1. \A k \in 0 .. n : \/ Settled(ops, m, x[k]) = ops
                          \/ k <= Cardinality(Settled(ops, m, x[k]))
    BY <1>1, <1>3, <1>4, <1>6, RoundsSettle
  <2> QED
    BY <1>4, <2>1
<1>8. Settled(ops, m, x[n]) = ops
  <2> DEFINE S == Settled(ops, m, x[n])
  <2>1. S \in SUBSET ops
    BY DEF Settled
  <2> HIDE DEF S
  <2>2. /\ IsFiniteSet(S) /\ Cardinality(S) \in Nat /\ Cardinality(S) <= n
        /\ Cardinality(S) = n => S = ops
    BY <1>4, <2>1, FS_Subset, FS_CardinalityType
  <2>3. S = ops \/ n <= Cardinality(S)
    BY <1>7 DEF S
  <2>4. S = ops
    BY <1>4, <2>2, <2>3
  <2> QED
    BY <2>4 DEF S
<1>9. x[n] = m
  <2>1. x[n] \in [ops -> Nat] /\ \A o \in ops : x[n][o] = m[o]
    BY <1>4, <1>6, <1>8 DEF Rounds, Settled
  <2> QED
    BY <1>2, <2>1
<1>10. FoldSet(LAMBDA o, T : {Pushed(g, ii, t) : t \in T}, {start}, ops) = {m}
  BY <1>4, <1>6, <1>9, FoldIsRounds
<1>11. Solutions(g, ii, ge, eq) = {t \in {m} : IsSolution(g, ii, ge, eq, t)}
  BY <1>4, <1>10 DEF Solutions, StartTimes, start
<1>12. Solutions(g, ii, ge, eq) = {m}
  BY <1>2, <1>11
<1> QED
  BY <1>1, <1>12

\* More cycles between two iterations, and fewer constraints, keep a solution.
LEMMA SlowerKeeps ==
  ASSUME NEW ops, NEW g, NEW ii, NEW ge, NEW eq, IsSystem(ops, g, ii, ge, eq),
         NEW jj \in Nat, ii <= jj, NEW t, IsSolution(g, ii, ge, eq, t)
  PROVE  IsSolution(g, jj, ge, eq, t)
<1> SUFFICES ASSUME NEW d \in g PROVE Keeps(jj, t, d)
  BY DEF IsSolution
<1>1. d.from \in ops /\ d.to \in ops /\ d.latency \in Nat /\ d.distance \in Nat /\ ii \in Nat
  BY DEF IsSystem
<1>2. t[d.from] \in Nat /\ t[d.to] \in Nat
  BY <1>1 DEF IsSolution, IsSystem
<1>3. t[d.to] >= t[d.from] + d.latency - ii * d.distance
  BY DEF IsSolution, Keeps
<1>4. ii * d.distance <= jj * d.distance /\ ii * d.distance \in Nat /\ jj * d.distance \in Nat
  <2>1. \A a, b, c \in Nat : a <= b => a * c <= b * c /\ a * c \in Nat /\ b * c \in Nat
    OBVIOUS
  <2> QED
    BY <1>1, <2>1
<1> QED
  BY <1>1, <1>2, <1>3, <1>4 DEF Keeps

LEMMA SolutionFeasible ==
  ASSUME NEW ops, NEW g, NEW ii, NEW ge, NEW eq, IsSystem(ops, g, ii, ge, eq),
         NEW t, IsSolution(g, ii, ge, eq, t)
  PROVE  Feasible(g, ii, ge, eq)
<1>1. PICK m : Solutions(g, ii, ge, eq) = {m}
  BY SolutionsExact
<1> QED
  BY <1>1 DEF Feasible

LEMMA FoundIsLeast ==
  ASSUME NEW ops, NEW g, NEW ii, NEW ge, NEW eq, IsSystem(ops, g, ii, ge, eq),
         NEW t \in Solutions(g, ii, ge, eq)
  PROVE  IsLeast(ops, g, ii, ge, eq, t)
<1>1. IsSolution(g, ii, ge, eq, t)
  BY SolutionMeets
<1>2. PICK m : IsLeast(ops, g, ii, ge, eq, m) /\ Solutions(g, ii, ge, eq) = {m}
  BY <1>1, SolutionsExact
<1> QED
  BY <1>2

\* Solutions is the linear program of the scheduler with its objective, for every
\* system of difference constraints: the least solution, and nothing when there
\* is none, though it only pushes as often as there are instructions.
THEOREM LinearProgramIsExact ==
  ASSUME NEW ops, NEW g, NEW ii, NEW ge, NEW eq, IsSystem(ops, g, ii, ge, eq)
  PROVE  \A t : t \in Solutions(g, ii, ge, eq) <=> IsLeast(ops, g, ii, ge, eq, t)
<1>1. ASSUME NEW t \in Solutions(g, ii, ge, eq) PROVE IsLeast(ops, g, ii, ge, eq, t)
  BY FoundIsLeast
<1>2. ASSUME NEW t, IsLeast(ops, g, ii, ge, eq, t) PROVE t \in Solutions(g, ii, ge, eq)
  <2>1. IsSolution(g, ii, ge, eq, t)
    BY <1>2 DEF IsLeast
  <2>2. PICK m : IsLeast(ops, g, ii, ge, eq, m) /\ Solutions(g, ii, ge, eq) = {m}
    BY <2>1, SolutionsExact
  <2>3. t \in [ops -> Nat] /\ m \in [ops -> Nat]
    BY <1>2, <2>2, SolutionType DEF IsLeast, IsSystem
  <2>4. \A o \in ops : t[o] <= m[o] /\ m[o] <= t[o] /\ t[o] \in Nat /\ m[o] \in Nat
    BY <1>2, <2>2, <2>3 DEF IsLeast, Below
  <2>5. \A o \in ops : t[o] = m[o]
    BY <2>4
  <2>6. t = m
    BY <2>3, <2>5
  <2> QED
    BY <2>2, <2>6
<1> QED
  BY <1>1, <1>2

\* The dependences of a loop are a system for every II.
EdgeTypes(ops, g) ==
    \A d \in g : /\ d.from \in ops /\ d.to \in ops
                 /\ d.latency \in Nat /\ d.distance \in Nat

LEMMA GraphTypes ==
  ASSUME NEW l \in Loops
  PROVE  EdgeTypes(l.ops, Graph(l))
<1>1. /\ l.latency \in [l.ops -> Nat]
      /\ l.deps \subseteq [from : l.ops, to : l.ops, distance : Nat]
      /\ l.access \subseteq [op : l.ops, store : BOOLEAN, offset : Int]
  BY LoopsAssumption
<1>2. \A o \in l.ops : Delay(l, o) \in Nat
  BY <1>1 DEF Delay
<1> DEFINE Edge == [from : l.ops, to : l.ops, distance : Nat]
<1>3. MemoryDeps(l) \subseteq Edge
  BY <1>1 DEF MemoryDeps
<1>4. CarriedDeps(l) \subseteq Edge
  <2>1. \A p \in Aliases(l) : /\ p[1].op \in l.ops /\ p[2].op \in l.ops
                              /\ CarriedDistance(p[1], p[2]) \in Nat
    <3> SUFFICES ASSUME NEW p \in Aliases(l)
                 PROVE  /\ p[1].op \in l.ops /\ p[2].op \in l.ops
                        /\ CarriedDistance(p[1], p[2]) \in Nat
      OBVIOUS
    <3>1. p[1] \in l.access /\ p[2] \in l.access /\ CarriedDistance(p[1], p[2]) > 0
      BY DEF Aliases
    <3>2. p[1].offset \in Int /\ p[2].offset \in Int /\ p[1].op \in l.ops /\ p[2].op \in l.ops
      BY <1>1, <3>1
    <3> QED
      BY <3>1, <3>2 DEF CarriedDistance
  <2> QED
    BY <2>1 DEF CarriedDeps
<1>5. l.deps \cup MemoryDeps(l) \cup CarriedDeps(l) \subseteq Edge
  BY <1>1, <1>3, <1>4
<1>6. \A d \in l.deps \cup MemoryDeps(l) \cup CarriedDeps(l) :
         d.from \in l.ops /\ d.to \in l.ops /\ d.distance \in Nat
  BY <1>5
<1> QED
  BY <1>2, <1>6 DEF Graph, EdgeTypes

\* A system of the loop that is being scheduled.
LEMMA LoopSystem ==
  ASSUME loop \in Loops, dag = Graph(loop), NEW ii \in Nat,
         NEW ge \in [loop.ops -> Nat], NEW eq, Times(loop, eq)
  PROVE  IsSystem(loop.ops, dag, ii, ge, eq)
<1>1. IsFiniteSet(loop.ops) /\ DOMAIN loop.fu \subseteq loop.ops
  BY LoopsAssumption
<1>2. EdgeTypes(loop.ops, dag)
  BY GraphTypes
<1>3. DOMAIN eq \subseteq loop.ops /\ \A o \in DOMAIN eq : eq[o] \in Nat
  BY <1>1 DEF Times
<1> QED
  BY <1>1, <1>2, <1>3 DEF IsSystem, EdgeTypes

\* The constraints of the dependences alone.
LEMMA FreeSystem ==
  ASSUME loop \in Loops, dag = Graph(loop), NEW ii \in Nat
  PROVE  IsSystem(loop.ops, dag, ii, Unbounded(loop), NoPins)
<1>1. Unbounded(loop) \in [loop.ops -> Nat]
  BY DEF Unbounded
<1>2. Times(loop, NoPins)
  BY DEF Times, NoPins
<1> QED
  BY <1>1, <1>2, LoopSystem

-----------------------------------------------------------------------------
(* What the assertions rest on.                                            *)

\* The dependences alone have a solution at the II of the attempt.
Pipelinable ==
    phase \in {"start", "scheduling"} =>
        \E t : IsSolution(dag, II, Unbounded(loop), NoPins, t)

\* The times of the linear program are the earliest ones.
Earliest ==
    phase = "scheduling" => IsLeast(loop.ops, dag, II, atLeast, pinned, sdcSchedTime)

Asserted == Pipelinable /\ Earliest /\ AssertionsHold

LEMMA InitAsserted == Init => Asserted
<1> SUFFICES ASSUME Init PROVE Asserted
  OBVIOUS
<1>1. phase \in {"II too large", "not pipelined", "start"}
  BY DEF Init
<1>2. ASSUME phase = "start"
      PROVE  \E t : IsSolution(dag, II, Unbounded(loop), NoPins, t)
  <2>1. PICK mii \in getInitialMII(loop, dag) :
           II = IF setting.user_II > mii THEN setting.user_II ELSE mii
    BY <1>2 DEF Init
  <2>2. /\ mii \in 1 .. Cardinality(loop.ops) + 1
        /\ Feasible(dag, mii, Unbounded(loop), NoPins)
    BY <2>1 DEF getInitialMII
  <2>3. loop \in Loops /\ dag = Graph(loop) /\ setting.user_II \in Nat
    BY SettingsAssumption DEF Init
  <2>4. mii \in Nat /\ II \in Nat /\ mii <= II
    BY <2>1, <2>2, <2>3
  <2>5. PICK t : IsSolution(dag, mii, Unbounded(loop), NoPins, t)
    BY <2>2, SolutionMeets DEF Feasible
  <2> QED
    BY <2>3, <2>4, <2>5, FreeSystem, SlowerKeeps
<1> QED
  BY <1>1, <1>2 DEF Asserted, Pipelinable, Earliest, AssertionsHold

\* A solution of a system of the loop does not start before the first one.
LEMMA AfterASAP ==
  ASSUME IInv, NEW ge \in [loop.ops -> Nat], NEW eq, NEW t,
         IsSolution(dag, II, ge, eq, t), NEW o \in loop.ops
  PROVE  NotBeforeASAP(o, t[o])
<1>1. loop \in Loops /\ dag = Graph(loop) /\ II \in Nat
  BY DEF IInv, TypeOK
<1>2. IsSolution(dag, II, Unbounded(loop), NoPins, t)
  <2>1. t \in [loop.ops -> Nat]
    BY SolutionType
  <2> QED
    BY <2>1 DEF IsSolution, Unbounded, NoPins
<1>3. \A m \in Solutions(dag, II, Unbounded(loop), NoPins) : Below(loop.ops, m, t)
  <2> SUFFICES ASSUME NEW m \in Solutions(dag, II, Unbounded(loop), NoPins)
               PROVE  Below(loop.ops, m, t)
    OBVIOUS
  <2>1. IsLeast(loop.ops, dag, II, Unbounded(loop), NoPins, m)
    BY <1>1, FreeSystem, FoundIsLeast
  <2> QED
    BY <1>2, <2>1 DEF IsLeast
<1> QED
  BY <1>3 DEF NotBeforeASAP, Below

\* The state of an attempt, for the assertions.
LEMMA AttemptSystem ==
  ASSUME IInv, Asserted, phase = "scheduling"
  PROVE  /\ loop \in Loops /\ dag = Graph(loop) /\ II \in Nat \ {0}
         /\ atLeast \in [loop.ops -> Nat]
         /\ sdcSchedTime \in [loop.ops -> Nat]
         /\ Times(loop, pinned) /\ pinned = schedTime
         /\ IsSystem(loop.ops, dag, II, atLeast, pinned)
         /\ IsSolution(dag, II, atLeast, pinned, sdcSchedTime)
         /\ IsLeast(loop.ops, dag, II, atLeast, pinned, sdcSchedTime)
         /\ \A o \in queue : /\ o \in loop.ops /\ o \in Constrained(loop)
                             /\ o \notin DOMAIN pinned
<1>1. /\ loop \in Loops /\ dag = Graph(loop) /\ II \in Nat \ {0}
      /\ atLeast \in [loop.ops -> Nat]
      /\ sdcSchedTime \in [loop.ops -> Nat]
      /\ Times(loop, pinned) /\ pinned = schedTime
      /\ queue = unscheduled
      /\ DOMAIN schedTime = Constrained(loop) \ unscheduled
  BY DEF IInv, TypeOK, Fixed
<1>2. \A o \in queue : o \in loop.ops /\ o \in Constrained(loop) /\ o \notin DOMAIN pinned
  BY <1>1, Attempt
<1>3. IsSystem(loop.ops, dag, II, atLeast, pinned)
  BY <1>1, LoopSystem
<1> QED
  BY <1>1, <1>2, <1>3 DEF Asserted, Earliest, IsLeast

LEMMA WithTimeTimes ==
  ASSUME NEW l, NEW eq, Times(l, eq), NEW o \in DOMAIN l.fu, NEW time \in Nat
  PROVE  Times(l, WithTime(eq, o, time))
BY DEF WithTime, Times

LEMMA LaterFacts ==
  ASSUME loop \in Loops, atLeast \in [loop.ops -> Nat],
         sdcSchedTime \in [loop.ops -> Nat], NEW o \in loop.ops
  PROVE  /\ Later(o) \in [loop.ops -> Nat]
         /\ Later(o)[o] >= sdcSchedTime[o] + 1
         /\ Later(o)[o] = sdcSchedTime[o] + 1 \/ Later(o)[o] = atLeast[o]
         /\ \A p \in loop.ops : p # o => Later(o)[p] = atLeast[p]
BY DEF Later, WithBound

-----------------------------------------------------------------------------
(* Backtracking.                                                           *)

\* What meets a system with o at some time meets it without that.
LEMMA PinnedAlso ==
  ASSUME IInv, Asserted, phase = "scheduling", NEW o \in queue, NEW time \in Nat,
         FeasibleAt(atLeast, pinned, o, time)
  PROVE  \E t : IsSolution(dag, II, atLeast, pinned, t) /\ t[o] = time
<1>1. PICK t : IsSolution(dag, II, atLeast, WithTime(pinned, o, time), t)
  BY SolutionMeets DEF FeasibleAt, Feasible
<1>2. /\ DOMAIN WithTime(pinned, o, time) = DOMAIN pinned \cup {o}
      /\ WithTime(pinned, o, time)[o] = time
      /\ \A p \in DOMAIN pinned : p # o => WithTime(pinned, o, time)[p] = pinned[p]
  BY DEF WithTime
<1>3. o \notin DOMAIN pinned
  BY AttemptSystem
<1> QED
  BY <1>1, <1>2, <1>3 DEF IsSolution

\* The only legal time up to that of the solution is the solution's.
LEMMA OnlyLegalTime ==
  ASSUME IInv, Asserted, phase = "scheduling", NEW o \in queue
  PROVE  /\ FeasibleAt(atLeast, pinned, o, sdcSchedTime[o])
         /\ LegalTimes(o) = {sdcSchedTime[o]}
<1>1. /\ loop \in Loops /\ dag = Graph(loop) /\ II \in Nat
      /\ atLeast \in [loop.ops -> Nat]
      /\ Times(loop, pinned)
      /\ IsSolution(dag, II, atLeast, pinned, sdcSchedTime)
      /\ IsLeast(loop.ops, dag, II, atLeast, pinned, sdcSchedTime)
      /\ o \in loop.ops /\ o \in Constrained(loop) /\ sdcSchedTime[o] \in Nat
      /\ o \notin DOMAIN pinned
  BY AttemptSystem, Attempt
<1> DEFINE eq == WithTime(pinned, o, sdcSchedTime[o])
<1>2. /\ Times(loop, eq) /\ DOMAIN eq = DOMAIN pinned \cup {o}
      /\ eq[o] = sdcSchedTime[o]
      /\ \A p \in DOMAIN pinned : p # o => eq[p] = pinned[p]
  <2>1. o \in DOMAIN loop.fu
    BY <1>1 DEF Constrained
  <2>2. Times(loop, eq)
    BY <1>1, <2>1, WithTimeTimes
  <2> QED
    BY <2>2 DEF WithTime
<1> HIDE DEF eq
<1>3. IsSolution(dag, II, atLeast, eq, sdcSchedTime)
  BY <1>1, <1>2 DEF IsSolution
<1>4. Feasible(dag, II, atLeast, eq)
  BY <1>1, <1>2, <1>3, LoopSystem, SolutionFeasible
<1>5. FeasibleAt(atLeast, pinned, o, sdcSchedTime[o])
  BY <1>4 DEF FeasibleAt, eq
<1>6. ASSUME NEW time \in LegalTimes(o) PROVE time = sdcSchedTime[o]
  <2>1. time \in 0 .. sdcSchedTime[o] /\ FeasibleAt(atLeast, pinned, o, time)
    BY <1>6 DEF LegalTimes
  <2>2. time \in Nat /\ time <= sdcSchedTime[o]
    BY <1>1, <2>1
  <2>3. PICK t : IsSolution(dag, II, atLeast, pinned, t) /\ t[o] = time
    BY <2>1, <2>2, PinnedAlso
  <2>4. sdcSchedTime[o] <= time
    BY <1>1, <2>3 DEF IsLeast, Below
  <2> QED
    BY <1>1, <2>2, <2>4
<1>7. sdcSchedTime[o] \in LegalTimes(o)
  BY <1>1, <1>5 DEF LegalTimes
<1> QED
  BY <1>5, <1>6, <1>7

\* Where backtracking forces the instruction to, and why not a place before.
LEMMA EvictSlot ==
  ASSUME IInv, Asserted, phase = "scheduling", NEW o \in queue, NEW time \in evictSlot(o)
  PROVE  time \in Nat /\ (time = sdcSchedTime[o] \/ time >= sdcSchedTime[o] + 1)
<1>1. LegalTimes(o) = {sdcSchedTime[o]}
  BY OnlyLegalTime
<1>2. minTime(o) = {sdcSchedTime[o]}
  <2>1. sdcSchedTime[o] \in Nat
    BY Attempt
  <2> QED
    BY <1>1, <2>1 DEF minTime
<1>3. \/ time = sdcSchedTime[o]
      \/ /\ o \in DOMAIN prevSchedTime /\ ~(sdcSchedTime[o] > prevSchedTime[o])
         /\ time = prevSchedTime[o] + 1
  BY <1>2 DEF evictSlot
<1>4. sdcSchedTime[o] \in Nat /\ prevSchedTime \in [DOMAIN prevSchedTime -> Nat]
  BY Attempt DEF AttemptTypes
<1> QED
  BY <1>3, <1>4

\* An instruction that cannot start later has no room where it is forced to.
LEMMA NoRoom ==
  ASSUME IInv, Asserted, phase = "scheduling", NEW o \in queue, NEW time \in evictSlot(o),
         resourceConflict(reservationTable, o, sdcSchedTime[o]),
         ~Feasible(dag, II, Later(o), pinned)
  PROVE  resourceConflict(reservationTable, o, time) \/ ~FeasibleAt(atLeast, pinned, o, time)
<1> SUFFICES ASSUME time # sdcSchedTime[o], FeasibleAt(atLeast, pinned, o, time) PROVE FALSE
  OBVIOUS
<1>1. time \in Nat /\ time >= sdcSchedTime[o] + 1
  BY EvictSlot
<1>2. PICK t : IsSolution(dag, II, atLeast, pinned, t) /\ t[o] = time
  BY <1>1, PinnedAlso
<1>3. /\ loop \in Loops /\ dag = Graph(loop) /\ II \in Nat
      /\ atLeast \in [loop.ops -> Nat] /\ sdcSchedTime \in [loop.ops -> Nat]
      /\ Times(loop, pinned) /\ o \in loop.ops
  BY AttemptSystem
<1>4. /\ Later(o) \in [loop.ops -> Nat]
      /\ Later(o)[o] = sdcSchedTime[o] + 1 \/ Later(o)[o] = atLeast[o]
      /\ \A p \in loop.ops : p # o => Later(o)[p] = atLeast[p]
  BY <1>3, LaterFacts
<1>5. \A p \in loop.ops : t[p] >= Later(o)[p]
  BY <1>1, <1>2, <1>3, <1>4 DEF IsSolution
<1>6. IsSolution(dag, II, Later(o), pinned, t)
  BY <1>2, <1>3, <1>4, <1>5 DEF IsSolution
<1>7. IsSystem(loop.ops, dag, II, Later(o), pinned)
  BY <1>3, <1>4, LoopSystem
<1>8. Feasible(dag, II, Later(o), pinned)
  BY <1>6, <1>7, SolutionFeasible
<1> QED
  BY <1>8

\* Evicting the user of port 0 makes room.
LEMMA DisplacedMakesRoom ==
  ASSUME IInv, phase = "scheduling", NEW o \in queue, NEW time \in Nat
  PROVE  ~resourceConflict(Release(reservationTable, Displaced(o, time)), o, time)
<1> DEFINE users == Users(reservationTable, o, time)
           freed == Users(Release(reservationTable, Displaced(o, time)), o, time)
<1>1. /\ loop \in Loops /\ II \in Nat \ {0}
      /\ Agrees(loop, II, reservationTable, schedTime)
      /\ o \in DOMAIN loop.fu
  BY Attempt DEF IInv, Fixed, Constrained
<1>2. /\ loop.fu[o] \in DOMAIN loop.issueSlots
      /\ loop.issueSlots[loop.fu[o]] \in Nat \ {0}
      /\ time % II \in 0 .. II - 1
  BY <1>1, LoopFacts, SlotOfTime
<1>3. /\ DOMAIN users = 0 .. loop.issueSlots[loop.fu[o]] - 1
      /\ DOMAIN freed = DOMAIN users
      /\ \A p \in DOMAIN users :
            freed[p] = IF users[p] \in Displaced(o, time) THEN NoOp ELSE users[p]
  BY <1>1, <1>2 DEF Agrees, Shaped, Users, Release
<1>4. 0 \in DOMAIN users
  BY <1>2, <1>3
<1>5. CASE resourceConflict(reservationTable, o, time)
  <2>1. users[0] \in Displaced(o, time)
    BY <1>5 DEF Displaced
  <2>2. freed[0] = NoOp
    BY <1>3, <1>4, <2>1
  <2> QED
    BY <1>3, <1>4, <2>2 DEF resourceConflict
<1>6. CASE ~resourceConflict(reservationTable, o, time)
  <2>1. PICK p \in DOMAIN users : users[p] = NoOp
    BY <1>6 DEF resourceConflict
  <2>2. freed[p] = NoOp
    BY <1>3, <2>1
  <2> QED
    BY <1>3, <2>1, <2>2 DEF resourceConflict
<1> QED
  BY <1>5, <1>6

\* With everything evicted the instruction fits anywhere after its time: all
\* others move with it.
LEMMA EvictionRelieves ==
  ASSUME IInv, Asserted, phase = "scheduling", NEW o \in queue, NEW time \in evictSlot(o)
  PROVE  Relieved(Evicted(o, time), o, time)
<1> SUFFICES Relieved(DOMAIN schedTime, o, time)
  BY DEF Evicted
<1>1. /\ loop \in Loops /\ dag = Graph(loop) /\ II \in Nat
      /\ atLeast \in [loop.ops -> Nat] /\ sdcSchedTime \in [loop.ops -> Nat]
      /\ Times(loop, pinned) /\ pinned = schedTime
      /\ IsSolution(dag, II, atLeast, pinned, sdcSchedTime)
      /\ o \in loop.ops /\ o \in Constrained(loop)
  BY AttemptSystem
<1>2. time \in Nat /\ sdcSchedTime[o] \in Nat /\ time >= sdcSchedTime[o]
  BY <1>1, EvictSlot
<1> DEFINE ge == Unbound(atLeast, DOMAIN schedTime)
           none == Without(pinned, DOMAIN schedTime)
           eq == WithTime(none, o, time)
           delay == time - sdcSchedTime[o]
           moved == [p \in loop.ops |-> sdcSchedTime[p] + delay]
<1>3. ge \in [loop.ops -> Nat] /\ \A p \in loop.ops : ge[p] = 0 \/ ge[p] = atLeast[p]
  BY <1>1 DEF Unbound
<1>4. DOMAIN none = {} /\ Times(loop, none)
  BY <1>1 DEF Without, Restrict, Times
<1> HIDE DEF ge, none
<1>5. Times(loop, eq) /\ DOMAIN eq = {o} /\ eq[o] = time
  <2>1. o \in DOMAIN loop.fu
    BY <1>1 DEF Constrained
  <2>2. Times(loop, eq)
    BY <1>2, <1>4, <2>1, WithTimeTimes
  <2> QED
    BY <1>4, <2>2 DEF WithTime
<1> HIDE DEF eq
<1>6. delay \in Nat
  BY <1>2
<1>7. moved[o] = time
  BY <1>1, <1>2
<1> HIDE DEF delay
<1>8. moved \in [loop.ops -> Nat] /\ \A p \in loop.ops : moved[p] = sdcSchedTime[p] + delay
  BY <1>1, <1>6
<1> HIDE DEF moved
<1>9. \A p \in loop.ops : moved[p] >= ge[p]
  <2> SUFFICES ASSUME NEW p \in loop.ops PROVE moved[p] >= ge[p]
    OBVIOUS
  <2>1. sdcSchedTime[p] >= atLeast[p] /\ sdcSchedTime[p] \in Nat /\ atLeast[p] \in Nat
    BY <1>1 DEF IsSolution
  <2> QED
    BY <1>3, <1>6, <1>8, <2>1
<1>10. ASSUME NEW d \in dag PROVE Keeps(II, moved, d)
  <2>1. d.from \in loop.ops /\ d.to \in loop.ops /\ d.latency \in Nat /\ d.distance \in Nat
    BY <1>1, GraphTypes DEF EdgeTypes
  <2>2. sdcSchedTime[d.to] >= sdcSchedTime[d.from] + d.latency - II * d.distance
    BY <1>1 DEF IsSolution, Keeps
  <2>3. II * d.distance \in Nat
    BY <1>1, <2>1
  <2>4. /\ sdcSchedTime[d.to] \in Nat /\ sdcSchedTime[d.from] \in Nat
        /\ moved[d.to] = sdcSchedTime[d.to] + delay
        /\ moved[d.from] = sdcSchedTime[d.from] + delay
    BY <1>1, <1>8, <2>1
  <2> QED
    BY <1>6, <2>1, <2>2, <2>3, <2>4 DEF Keeps
<1>11. IsSolution(dag, II, ge, eq, moved)
  BY <1>3, <1>5, <1>7, <1>8, <1>9, <1>10 DEF IsSolution
<1>12. Feasible(dag, II, ge, eq)
  BY <1>1, <1>3, <1>5, <1>11, LoopSystem, SolutionFeasible
<1> QED
  BY <1>12 DEF Relieved, FeasibleAt, ge, eq, none

-----------------------------------------------------------------------------
(* Every step keeps what the assertions rest on.                           *)

\* An attempt that goes on with the earliest times of its new system.
LEMMA GoesOn ==
  ASSUME Asserted, phase \in {"start", "scheduling"}, phase' = "scheduling",
         UNCHANGED <<loop, dag, II>>,
         IsLeast(loop.ops, dag, II, atLeast', pinned', sdcSchedTime')
  PROVE  Asserted'
<1>1. PICK t : IsSolution(dag, II, Unbounded(loop), NoPins, t)
  BY DEF Asserted, Pipelinable
<1>2. Pipelinable'
  BY <1>1 DEF Pipelinable
<1>3. Earliest' /\ AssertionsHold'
  BY DEF Earliest, AssertionsHold
<1> QED
  BY <1>2, <1>3 DEF Asserted

\* An attempt that ends: the next II leaves the dependences more room.
LEMMA EndsAsserted ==
  ASSUME IInv, Asserted, phase = "scheduling", UNCHANGED <<loop, dag>>,
         \/ phase' \in {"scheduled", "not pipelined", "II too large"}
         \/ phase' = "start" /\ II' = II + 1
  PROVE  Asserted'
<1>1. CASE phase' \in {"scheduled", "not pipelined", "II too large"}
  BY <1>1 DEF Asserted, Pipelinable, Earliest, AssertionsHold
<1>2. CASE phase' = "start" /\ II' = II + 1
  <2>1. loop \in Loops /\ dag = Graph(loop) /\ II \in Nat
    BY DEF IInv, TypeOK
  <2>2. PICK t : IsSolution(dag, II, Unbounded(loop), NoPins, t)
    BY DEF Asserted, Pipelinable
  <2>3. IsSystem(loop.ops, dag, II, Unbounded(loop), NoPins)
    BY <2>1, FreeSystem
  <2>4. II + 1 \in Nat /\ II <= II + 1
    BY ONLY <2>1
  <2>5. IsSolution(dag, II + 1, Unbounded(loop), NoPins, t)
    BY <2>2, <2>3, <2>4, SlowerKeeps
  <2>6. IsSolution(dag', II', Unbounded(loop'), NoPins, t)
    BY <1>2, <2>5
  <2>7. Pipelinable'
    BY <2>6 DEF Pipelinable, Unbounded, NoPins
  <2> QED
    BY <1>2, <2>7 DEF Asserted, Earliest, AssertionsHold
<1> QED
  BY <1>1, <1>2

LEMMA StartAsserted ==
  ASSUME IInv, Asserted, StartAttempt
  PROVE  Asserted'
<1>1. /\ loop \in Loops /\ dag = Graph(loop) /\ II \in Nat /\ phase = "start"
      /\ UNCHANGED <<loop, dag, II>>
      /\ atLeast' = Unbounded(loop) /\ pinned' = NoPins
  BY DEF IInv, TypeOK, StartAttempt
<1>2. IsSystem(loop.ops, dag, II, Unbounded(loop), NoPins)
  BY <1>1, FreeSystem
<1>3. PICK t : IsSolution(dag, II, Unbounded(loop), NoPins, t)
  BY <1>1 DEF Asserted, Pipelinable
<1>4. Feasible(dag, II, Unbounded(loop), NoPins)
  BY <1>2, <1>3, SolutionFeasible
<1>5. phase' = "scheduling"
  BY <1>4 DEF StartAttempt, Asserting
<1>6. sdcSchedTime' \in Solutions(dag, II, Unbounded(loop), NoPins)
  BY <1>4 DEF StartAttempt, scheduleSDC
<1>7. IsLeast(loop.ops, dag, II, Unbounded(loop), NoPins, sdcSchedTime')
  BY <1>2, <1>6, FoundIsLeast
<1> QED
  BY <1>1, <1>5, <1>7, GoesOn

\* Placing an instruction where the solution has it changes no time.
LEMMA ScheduleAtStepAsserted ==
  ASSUME IInv, Asserted, NEW o \in queue, ScheduleAtStep(o)
  PROVE  Asserted'
<1>1. /\ phase = "scheduling" /\ UNCHANGED <<loop, dag, II, sdcSchedTime>>
      /\ ScheduleWithout({}, o, sdcSchedTime[o])
  BY DEF ScheduleAtStep, Selected
<1>2. /\ atLeast \in [loop.ops -> Nat] /\ o \in loop.ops
      /\ pinned \in [DOMAIN pinned -> Nat] /\ o \notin DOMAIN pinned
      /\ IsSolution(dag, II, atLeast, pinned, sdcSchedTime)
      /\ IsLeast(loop.ops, dag, II, atLeast, pinned, sdcSchedTime)
  BY <1>1, AttemptSystem DEF Times
<1>3. NotBeforeASAP(o, sdcSchedTime[o])
  BY <1>2, AfterASAP
<1>4. FeasibleAt(atLeast, pinned, o, sdcSchedTime[o])
  BY <1>1, OnlyLegalTime
<1>5. phase' = "scheduling"
  BY <1>3, <1>4 DEF ScheduleAtStep, Asserting
<1>6. atLeast' = atLeast /\ pinned' = WithTime(pinned, o, sdcSchedTime[o])
  BY <1>1, <1>2, WithoutNone, UnboundNone DEF ScheduleWithout
<1>7. /\ DOMAIN pinned' = DOMAIN pinned \cup {o} /\ pinned'[o] = sdcSchedTime[o]
      /\ \A p \in DOMAIN pinned : p # o => pinned'[p] = pinned[p]
  BY <1>6 DEF WithTime
<1>8. IsSolution(dag, II, atLeast, pinned', sdcSchedTime)
  BY <1>2, <1>7 DEF IsSolution
<1>9. \A t : IsSolution(dag, II, atLeast, pinned', t) => IsSolution(dag, II, atLeast, pinned, t)
  BY <1>2, <1>7 DEF IsSolution
<1>10. IsLeast(loop.ops, dag, II, atLeast', pinned', sdcSchedTime')
  BY <1>1, <1>2, <1>6, <1>8, <1>9 DEF IsLeast
<1> QED
  BY <1>1, <1>5, <1>10, GoesOn

\* The linear program with a later start of o.
LEMMA PostponedLeast ==
  ASSUME IInv, Asserted, phase = "scheduling", NEW o \in queue,
         Feasible(dag, II, Later(o), pinned), scheduleSDC(Later(o), pinned)
  PROVE  IsLeast(loop.ops, dag, II, Later(o), pinned, sdcSchedTime')
<1>1. /\ loop \in Loops /\ dag = Graph(loop) /\ II \in Nat /\ o \in loop.ops
      /\ atLeast \in [loop.ops -> Nat] /\ sdcSchedTime \in [loop.ops -> Nat]
      /\ Times(loop, pinned)
  BY AttemptSystem
<1>2. Later(o) \in [loop.ops -> Nat]
  BY <1>1, LaterFacts
<1>3. IsSystem(loop.ops, dag, II, Later(o), pinned)
  BY <1>1, <1>2, LoopSystem
<1>4. sdcSchedTime' \in Solutions(dag, II, Later(o), pinned)
  BY DEF scheduleSDC
<1> QED
  BY <1>3, <1>4, FoundIsLeast

LEMMA PostponeAsserted ==
  ASSUME IInv, Asserted, NEW o \in queue, Postpone(o)
  PROVE  Asserted'
<1>1. /\ phase = "scheduling" /\ UNCHANGED <<loop, dag, II, pinned>>
      /\ Feasible(dag, II, Later(o), pinned) /\ scheduleSDC(Later(o), pinned)
      /\ atLeast' = Later(o)
  BY DEF Postpone, Selected
<1>2. NotBeforeASAP(o, sdcSchedTime[o])
  BY <1>1, AttemptSystem, AfterASAP
<1>3. phase' = "scheduling"
  BY <1>2 DEF Postpone, Asserting
<1>4. IsLeast(loop.ops, dag, II, atLeast', pinned', sdcSchedTime')
  BY <1>1, PostponedLeast
<1> QED
  BY <1>1, <1>3, <1>4, GoesOn

\* Backtracking: its assertions hold, and the linear program can be solved.
LEMMA BacktrackAsserted ==
  ASSUME IInv, Asserted, NEW o \in queue, Backtrack(o)
  PROVE  Asserted'
<1>1. /\ phase = "scheduling" /\ UNCHANGED <<loop, dag, II>>
      /\ resourceConflict(reservationTable, o, sdcSchedTime[o])
      /\ ~Feasible(dag, II, Later(o), pinned)
  BY DEF Backtrack, Selected
<1> DEFINE Assertions(time, S) ==
      /\ NotBeforeASAP(o, sdcSchedTime[o])
      /\ LegalTimes(o) # {}
      /\ \/ resourceConflict(reservationTable, o, time)
         \/ ~FeasibleAt(atLeast, pinned, o, time)
      /\ ~resourceConflict(Release(reservationTable, Displaced(o, time)), o, time)
      /\ Relieved(S, o, time)
      /\ Feasible(dag, II, atLeast', pinned')
<1>2. PICK time \in evictSlot(o) : \E S \in {Evicted(o, time)} :
         /\ ScheduleWithout(S, o, time)
         /\ scheduleSDC(atLeast', pinned')
         /\ Asserting(Assertions(time, S))
  BY DEF Backtrack
<1>3. PICK S \in {Evicted(o, time)} :
         /\ ScheduleWithout(S, o, time)
         /\ scheduleSDC(atLeast', pinned')
         /\ Asserting(Assertions(time, S))
  BY <1>2
<1>4. time \in Nat /\ S \in SUBSET DOMAIN schedTime
  BY <1>1, EvictSlotType, EvictedScheduled
<1>5. NotBeforeASAP(o, sdcSchedTime[o])
  BY <1>1, AttemptSystem, AfterASAP
<1>6. LegalTimes(o) # {}
  BY <1>1, OnlyLegalTime
<1>7. \/ resourceConflict(reservationTable, o, time)
      \/ ~FeasibleAt(atLeast, pinned, o, time)
  BY <1>1, NoRoom
<1>8. ~resourceConflict(Release(reservationTable, Displaced(o, time)), o, time)
  BY <1>1, <1>4, DisplacedMakesRoom
<1>9. Relieved(S, o, time)
  BY <1>1, EvictionRelieves
<1>10. /\ pinned' = WithTime(Without(pinned, S), o, time)
       /\ atLeast' = Unbound(atLeast, S)
  BY <1>3 DEF ScheduleWithout
<1>11. Feasible(dag, II, atLeast', pinned')
  BY <1>9, <1>10 DEF Relieved, FeasibleAt
<1>12. Assertions(time, S)
  BY <1>5, <1>6, <1>7, <1>8, <1>9, <1>11
<1> HIDE DEF Assertions
<1>13. phase' = "scheduling"
  BY <1>3, <1>12 DEF Asserting
<1>14. loop \in Loops /\ dag = Graph(loop) /\ II \in Nat
  BY <1>1, AttemptSystem
<1>15. atLeast' \in [loop.ops -> Nat] /\ Times(loop, pinned')
  <2>1. /\ Times(loop, schedTime') /\ pinned' = schedTime'
        /\ atLeast' \in [loop.ops -> Nat]
    BY <1>1, <1>3, <1>4, Placement
  <2> QED
    BY <2>1
<1>16. IsSystem(loop.ops, dag, II, atLeast', pinned')
  BY <1>14, <1>15, LoopSystem
<1>17. sdcSchedTime' \in Solutions(dag, II, atLeast', pinned')
  BY <1>3, <1>11 DEF scheduleSDC
<1>18. IsLeast(loop.ops, dag, II, atLeast', pinned', sdcSchedTime')
  BY <1>16, <1>17, FoundIsLeast
<1> QED
  BY <1>1, <1>13, <1>18, GoesOn

LEMMA GreedyScheduleAsserted ==
  ASSUME IInv, Asserted, NEW o \in queue, GreedySchedule(o)
  PROVE  Asserted'
<1>1. /\ phase = "scheduling" /\ UNCHANGED <<loop, dag, II, phase>>
      /\ scheduleSDC(atLeast, pinned')
  BY DEF GreedySchedule, Selected
<1>2. PICK time \in FreeTimes(o) : ScheduleWithout({}, o, time)
  BY DEF GreedySchedule
<1>3. /\ loop \in Loops /\ dag = Graph(loop) /\ II \in Nat
      /\ atLeast \in [loop.ops -> Nat] /\ sdcSchedTime[o] \in Nat
      /\ pinned \in [DOMAIN pinned -> Nat]
  BY <1>1, AttemptSystem, Attempt DEF Times
<1>4. time \in Nat /\ FeasibleAt(atLeast, pinned, o, time)
  BY <1>2, <1>3 DEF FreeTimes
<1>5. pinned' = WithTime(pinned, o, time) /\ atLeast' = atLeast
  BY <1>2, <1>3, WithoutNone, UnboundNone DEF ScheduleWithout
<1>6. sdcSchedTime' \in Solutions(dag, II, atLeast', pinned')
  BY <1>1, <1>4, <1>5 DEF FeasibleAt, scheduleSDC
<1>7. Times(loop, pinned')
  <2>1. {} \in SUBSET DOMAIN schedTime
    OBVIOUS
  <2>2. Times(loop, schedTime') /\ pinned' = schedTime'
    BY <1>1, <1>2, <1>4, <2>1, Placement
  <2> QED
    BY <2>2
<1>8. IsSystem(loop.ops, dag, II, atLeast', pinned')
  BY <1>3, <1>5, <1>7, LoopSystem
<1>9. IsLeast(loop.ops, dag, II, atLeast', pinned', sdcSchedTime')
  BY <1>6, <1>8, FoundIsLeast
<1> QED
  BY <1>1, <1>9, GoesOn

LEMMA GreedyPostponeAsserted ==
  ASSUME IInv, Asserted, NEW o \in queue, GreedyPostpone(o)
  PROVE  Asserted'
<1>1. /\ phase = "scheduling" /\ UNCHANGED <<loop, dag, pinned>>
      /\ atLeast' = Later(o) /\ scheduleSDC(Later(o), pinned)
  BY DEF GreedyPostpone
<1>2. CASE Feasible(dag, II, Later(o), pinned)
  <2>1. IsLeast(loop.ops, dag, II, atLeast', pinned', sdcSchedTime')
    BY <1>1, <1>2, PostponedLeast
  <2>2. UNCHANGED <<phase, II>>
    BY <1>2 DEF GreedyPostpone
  <2> QED
    BY <1>1, <2>1, <2>2, GoesOn
<1>3. CASE ~Feasible(dag, II, Later(o), pinned)
  <2>1. IncrementII
    BY <1>3 DEF GreedyPostpone
  <2> QED
    BY <1>1, <2>1, EndsAsserted DEF IncrementII
<1> QED
  BY <1>2, <1>3

LEMMA FinishAsserted ==
  ASSUME IInv, Asserted, FinishAttempt
  PROVE  Asserted'
<1>1. /\ phase = "scheduling" /\ UNCHANGED <<loop, dag>>
      /\ phase' = "scheduled" \/ IncrementII
  BY DEF FinishAttempt
<1> QED
  BY <1>1, EndsAsserted DEF IncrementII

LEMMA StepAsserted == IInv /\ Asserted /\ [Next]_vars => Asserted'
<1> SUFFICES ASSUME IInv, Asserted, [Next]_vars PROVE Asserted'
  OBVIOUS
<1>1. CASE StartAttempt
  BY <1>1, StartAsserted
<1>2. ASSUME NEW o \in queue, ScheduleAtStep(o) PROVE Asserted'
  BY <1>2, ScheduleAtStepAsserted
<1>3. ASSUME NEW o \in queue, Postpone(o) PROVE Asserted'
  BY <1>3, PostponeAsserted
<1>4. ASSUME NEW o \in queue, Backtrack(o) PROVE Asserted'
  BY <1>4, BacktrackAsserted
<1>5. ASSUME NEW o \in queue, GreedySchedule(o) PROVE Asserted'
  BY <1>5, GreedyScheduleAsserted
<1>6. ASSUME NEW o \in queue, GreedyPostpone(o) PROVE Asserted'
  BY <1>6, GreedyPostponeAsserted
<1>7. CASE FinishAttempt
  BY <1>7, FinishAsserted
<1>8. CASE UNCHANGED vars
  BY <1>8 DEF vars, attempt, Asserted, Pipelinable, Earliest, AssertionsHold
<1> QED
  BY <1>1, <1>2, <1>3, <1>4, <1>5, <1>6, <1>7, <1>8 DEF Next, Return

-----------------------------------------------------------------------------
(* The theorems.                                                           *)

\* The state of the scheduler keeps its types.
THEOREM ModuloTypes == Spec => []TypeOK
<1>1. IInv => TypeOK
  BY DEF IInv
<1> QED
  BY SpecIInv, <1>1, PTL

\* A schedule that runOnLoop returns keeps every dependence and every issue
\* slot when an iteration starts each II cycles, whatever was evicted on the way.
THEOREM ModuloScheduleRepeats == Spec => []ScheduleRepeats
<1>1. IInv => ScheduleRepeats
  BY DEF IInv
<1> QED
  BY SpecIInv, <1>1, PTL

\* Work list, EQ constraints, schedule and reservation table of SDCWithBacktracking
\* and SDCGreedy never disagree.
THEOREM ModuloBookkeeping == Spec => []BookkeepingAgrees
<1>1. ASSUME IInv, phase = "scheduling"
      PROVE  BookkeepingAgrees
  <2>1. /\ loop \in Loops /\ II \in Nat \ {0}
        /\ Agrees(loop, II, reservationTable, schedTime)
        /\ Times(loop, schedTime)
        /\ queue = unscheduled
        /\ DOMAIN schedTime = Constrained(loop) \ unscheduled
        /\ pinned = schedTime
    BY <1>1 DEF IInv, Fixed, TypeOK
  <2>2. /\ DOMAIN reservationTable = DOMAIN loop.issueSlots
        /\ \A f \in DOMAIN reservationTable :
              /\ DOMAIN reservationTable[f] = 0 .. loop.issueSlots[f] - 1
              /\ \A p \in DOMAIN reservationTable[f] :
                    DOMAIN reservationTable[f][p] = 0 .. II - 1
    BY <2>1 DEF Agrees, Shaped
  <2>3. ASSUME NEW f \in DOMAIN reservationTable, NEW p \in DOMAIN reservationTable[f],
               NEW slot \in DOMAIN reservationTable[f][p],
               reservationTable[f][p][slot] # NoOp
        PROVE  reservationTable[f][p][slot] \in Occupants(f, slot)
    <3> DEFINE o == reservationTable[f][p][slot]
    <3>1. o \in DOMAIN schedTime /\ loop.fu[o] = f /\ schedTime[o] % II = slot
      <4>1. /\ f \in DOMAIN loop.issueSlots /\ p \in 0 .. loop.issueSlots[f] - 1
            /\ slot \in 0 .. II - 1
        BY <2>2
      <4>2. EntriesScheduled(loop, II, reservationTable, schedTime)
        BY <2>1 DEF Agrees
      <4> QED
        BY <2>3, <4>1, <4>2 DEF EntriesScheduled
    <3>2. o \in Constrained(loop)
      BY <2>1, <3>1
    <3> QED
      BY <3>1, <3>2 DEF Occupants
  <2>4. ASSUME NEW o \in DOMAIN schedTime
        PROVE  LET users == Users(reservationTable, o, schedTime[o])
               IN  \E port \in DOMAIN users : \A p \in DOMAIN users : users[p] = o <=> p = port
    <3>1. loop.fu[o] \in DOMAIN loop.issueSlots
      BY <2>1, LoopFacts DEF Constrained
    <3> DEFINE users == Users(reservationTable, o, schedTime[o])
    <3>2. /\ DOMAIN users = 0 .. loop.issueSlots[loop.fu[o]] - 1
          /\ \A p \in DOMAIN users :
                users[p] = reservationTable[loop.fu[o]][p][schedTime[o] % II]
      BY <2>2, <3>1 DEF Users
    <3>3. \E port \in 0 .. loop.issueSlots[loop.fu[o]] - 1 :
             \A p \in 0 .. loop.issueSlots[loop.fu[o]] - 1 :
                reservationTable[loop.fu[o]][p][schedTime[o] % II] = o <=> p = port
      BY <2>1 DEF Agrees, InstructionsPlaced
    <3> QED
      BY <3>2, <3>3
  <2> QED
    BY <2>1, <2>3, <2>4 DEF BookkeepingAgrees
<1>2. IInv => BookkeepingAgrees
  BY <1>1 DEF BookkeepingAgrees
<1> QED
  BY SpecIInv, <1>2, PTL

\* The edges of a store and a load that reads from it.
LEMMA CarriedEdge ==
  ASSUME NEW l, NEW p, NEW q, <<p, q>> \in Aliases(l)
  PROVE  [from |-> p.op, to |-> q.op, distance |-> CarriedDistance(p, q)] \in CarriedDeps(l)
<1> DEFINE edge(a) == [from |-> a[1].op, to |-> a[2].op,
                       distance |-> CarriedDistance(a[1], a[2])]
<1>1. edge(<<p, q>>) \in {edge(a) : a \in Aliases(l)}
  OBVIOUS
<1>2. edge(<<p, q>>) = [from |-> p.op, to |-> q.op, distance |-> CarriedDistance(p, q)]
  OBVIOUS
<1> QED
  BY <1>1, <1>2 DEF CarriedDeps

LEMMA MemoryEdge ==
  ASSUME NEW l, NEW p \in l.access, NEW q \in l.access,
         p.op < q.op, p.offset = q.offset, p.store
  PROVE  [from |-> p.op, to |-> q.op, distance |-> 0] \in MemoryDeps(l)
<1> DEFINE ordered == {a \in l.access \X l.access :
                         /\ a[1].op < a[2].op
                         /\ a[1].offset = a[2].offset
                         /\ a[1].store \/ a[2].store}
           edge(a) == [from |-> a[1].op, to |-> a[2].op, distance |-> 0]
<1>1. <<p, q>> \in ordered
  OBVIOUS
<1>2. edge(<<p, q>>) \in {edge(a) : a \in ordered}
  BY <1>1
<1>3. edge(<<p, q>>) = [from |-> p.op, to |-> q.op, distance |-> 0]
  OBVIOUS
<1> QED
  BY <1>2, <1>3 DEF MemoryDeps

\* In the pipeline a load comes after the store it reads from, in its own
\* iteration or in an earlier one.
THEOREM ModuloLoadsSeeStores == Spec => []LoadsSeeStores
<1>1. ASSUME IInv, phase = "scheduled", NEW p \in loop.access, NEW q \in loop.access,
             p.store, ~q.store, Precedes(p, q), {p.op, q.op} \subseteq DOMAIN schedTime
      PROVE  schedTime[p.op] + 1 <= schedTime[q.op] + II * (p.offset - q.offset)
  <2>1. /\ loop \in Loops /\ II \in Nat /\ dag = Graph(loop)
        /\ schedTime \in [DOMAIN schedTime -> Nat]
        /\ \A d \in dag :
              {d.from, d.to} \subseteq DOMAIN schedTime => Keeps(II, schedTime, d)
    BY <1>1 DEF IInv, TypeOK, ScheduleRepeats
  <2>2. p.offset \in Int /\ q.offset \in Int
    BY <2>1, LoopsAssumption
  <2>3. schedTime[p.op] \in Nat /\ schedTime[q.op] \in Nat
    BY <1>1, <2>1
  <2>4. Delay(loop, p.op) = 1
    BY <1>1 DEF Delay
  <2>5. ASSUME NEW distance,
               [from |-> p.op, to |-> q.op, distance |-> distance]
                   \in MemoryDeps(loop) \cup CarriedDeps(loop)
        PROVE  schedTime[q.op] >= schedTime[p.op] + 1 - II * distance
    <3> DEFINE d == [from |-> p.op, to |-> q.op, latency |-> 1, distance |-> distance]
    <3>1. d \in dag
      BY <2>1, <2>4, <2>5 DEF Graph
    <3>2. Keeps(II, schedTime, d)
      BY <1>1, <2>1, <3>1
    <3> QED
      BY <3>2 DEF Keeps
  <2>6. CASE p.offset > q.offset
    <3>1. <<p, q>> \in Aliases(loop)
      BY <1>1, <2>2, <2>6 DEF Aliases, CarriedDistance
    <3>2. [from |-> p.op, to |-> q.op, distance |-> p.offset - q.offset] \in CarriedDeps(loop)
      BY <3>1, CarriedEdge DEF CarriedDistance
    <3>3. schedTime[q.op] >= schedTime[p.op] + 1 - II * (p.offset - q.offset)
      BY <2>5, <3>2
    <3>4. II * (p.offset - q.offset) \in Int
      BY <2>1, <2>2
    <3> QED
      BY <2>3, <3>3, <3>4
  <2>7. CASE p.offset = q.offset /\ p.op < q.op
    <3>1. [from |-> p.op, to |-> q.op, distance |-> 0] \in MemoryDeps(loop)
      BY <1>1, <2>7, MemoryEdge
    <3>2. schedTime[q.op] >= schedTime[p.op] + 1 - II * 0
      BY <2>5, <3>1
    <3> QED
      BY <2>1, <2>2, <2>3, <2>7, <3>2
  <2> QED
    BY <1>1, <2>6, <2>7 DEF Precedes
<1>2. IInv => LoadsSeeStores
  BY <1>1 DEF LoadsSeeStores, InOrder
<1> QED
  BY SpecIInv, <1>2, PTL

\* None of the modelled assertions of SDCWithBacktracking and backtracking fails,
\* for any loop (findEmptySlot's limit of 1000 on a time is not modelled): the
\* time of the linear program is the one legal time backtracking finds, evicting
\* one user or everything makes room, and the dependences can then be met.
THEOREM ModuloAssertionsHold == Spec => []AssertionsHold
<1>1. Asserted => AssertionsHold
  BY DEF Asserted
<1> QED
  BY InitAsserted, StepAsserted, SpecIInv, <1>1, PTL DEF Spec
=============================================================================
