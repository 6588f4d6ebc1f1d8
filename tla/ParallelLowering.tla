-------------------------- MODULE ParallelLowering --------------------------
(***************************************************************************)
(* From the mutexes of a program to lock cores.  ParallelAPI scans the      *)
(* module once, numbers the mutexes in the order in which it meets them,    *)
(* rewrites every lock, unlock and barrier call and makes the loads inside  *)
(* atomic and barrier regions volatile; later Allocation scans the rewritten*)
(* calls and decides how many cores the synchronization controller gets,    *)
(* whose address decoder VerilogWriter prints.  The program is revealed     *)
(* site by site as it is scanned: any sequence in which a mutex is locked   *)
(* before it is unlocked.                                                   *)
(***************************************************************************)
EXTENDS Naturals, Sequences, FiniteSets

CONSTANTS PthreadMutexes,  \* pthread_mutex_t variables of the program, numbers
          MaxSites,        \* bound: calls and loads in the program
          MaxHeld          \* bound: mutexes a program holds at once

ASSUME MutexesAssumption == PthreadMutexes \subseteq Nat
ASSUME BoundsAssumption == MaxSites \in Nat /\ MaxHeld \in Nat \ {0}

VARIABLES phase,          \* which scan is running
          sites,          \* the rewritten calls and the loads, in module order
          mutexMap,       \* the mutex names, a mutex has its position as number
          numOMPatomic,
          atomicRegion, barrierRegion,
          held,           \* history: the mutexes locked at this point
          nextSite,       \* the second scan's position
          syncMap         \* cores needed, by type

loweringVars == <<phase, sites, mutexMap, numOMPatomic, atomicRegion, barrierRegion,
                  held, nextSite, syncMap>>

\* getMutexName: one name per pthread mutex, one for all OpenMP critical
\* sections, and a new one for every OpenMP atomic section.
Names == {<<"pthread", m>> : m \in PthreadMutexes} \cup {<<"OMP", 0>>}
AtomicName == <<"OMP_atomic", numOMPatomic>>

\* Faulty: the number is the size of the map, which a known mutex does not change.
IndexIsSize(name, map) == Len(map) - 1

IndexOf(name, map) == CHOOSE k \in 0 .. (Len(map) - 1) : map[k + 1] = name

\* mutexMap.insert of a name that is not there yet.
Insert(name) ==
    IF \E k \in 1 .. Len(mutexMap) : mutexMap[k] = name THEN mutexMap
    ELSE Append(mutexMap, name)
-----------------------------------------------------------------------------
LoweringInit ==
    /\ phase = "lower"
    /\ sites = <<>> /\ mutexMap = <<>> /\ numOMPatomic = 0
    /\ atomicRegion = FALSE /\ barrierRegion = FALSE
    /\ held = {}
    /\ nextSite = 1
    /\ syncMap = [type \in {"lock", "barrier"} |-> 0]

\* One more call or load; name is history: the mutex it is about.
Site(op, operand, volatile, name) ==
    /\ phase = "lower" /\ Len(sites) < MaxSites
    /\ sites' = Append(sites, [op |-> op, operand |-> operand, volatile |-> volatile,
                               name |-> name])
    /\ UNCHANGED <<phase, nextSite, syncMap>>

\* pthread_mutex_lock, GOMP_critical_start and GOMP_atomic_start.
ReplaceLock(name) ==
    /\ name \notin held
    /\ held' = held \cup {name}
    /\ mutexMap' = Insert(name)
    /\ Site("legup_lock", IndexOf(name, mutexMap'), FALSE, name)
    /\ atomicRegion' = TRUE
    /\ UNCHANGED <<numOMPatomic, barrierRegion>>

\* pthread_mutex_unlock, GOMP_critical_end and GOMP_atomic_end.
ReplaceUnlock(name) ==
    /\ name \in held
    /\ held' = held \ {name}
    /\ numOMPatomic' = IF name = AtomicName THEN numOMPatomic + 1 ELSE numOMPatomic
    /\ Site("legup_unlock", IndexOf(name, mutexMap), FALSE, name)
    /\ atomicRegion' = FALSE
    /\ UNCHANGED <<mutexMap, barrierRegion>>

ReplaceBarrierWait ==
    /\ held = {}
    /\ barrierRegion' = TRUE
    /\ Site("legup_barrier_wait", 0, FALSE, <<"barrier", 0>>)
    /\ UNCHANGED <<mutexMap, numOMPatomic, atomicRegion, held>>

\* Faulty: only loads after a barrier are made volatile.
VisitLoadBarrierOnly ==
    /\ Site("load", 0, barrierRegion, <<"load", 0>>)
    /\ UNCHANGED <<mutexMap, numOMPatomic, atomicRegion, barrierRegion, held>>

\* setLoadtoVolatile.
VisitLoad ==
    /\ Site("load", 0, atomicRegion \/ barrierRegion, <<"load", 0>>)
    /\ UNCHANGED <<mutexMap, numOMPatomic, atomicRegion, barrierRegion, held>>

EndOfBasicBlock ==
    /\ phase = "lower" /\ barrierRegion
    /\ barrierRegion' = FALSE
    /\ UNCHANGED <<phase, sites, mutexMap, numOMPatomic, atomicRegion, held, nextSite, syncMap>>

\* The program ends with every mutex unlocked; Allocation starts over.
EndOfModule ==
    /\ phase = "lower" /\ held = {}
    /\ phase' = "allocate"
    /\ UNCHANGED <<sites, mutexMap, numOMPatomic, atomicRegion, barrierRegion, held,
                   nextSite, syncMap>>

\* getSynchronizationUsage, one call at a time.
GetSynchronizationUsage ==
    /\ phase = "allocate" /\ nextSite <= Len(sites)
    /\ nextSite' = nextSite + 1
    /\ syncMap' = LET site == sites[nextSite] IN
          CASE site.op = "legup_lock" -> [syncMap EXCEPT !["lock"] = site.operand + 1]
            [] site.op = "legup_barrier_wait" -> [syncMap EXCEPT !["barrier"] = 1]
            [] OTHER -> syncMap
    /\ UNCHANGED <<phase, sites, mutexMap, numOMPatomic, atomicRegion, barrierRegion, held>>

LoweringNext ==
    \/ \E name \in Names \cup {AtomicName} :
          \/ Cardinality(held) < MaxHeld /\ ReplaceLock(name)
          \/ ReplaceUnlock(name)
    \/ ReplaceBarrierWait
    \/ VisitLoad
    \/ EndOfBasicBlock
    \/ EndOfModule
    \/ GetSynchronizationUsage

LoweringSpec == LoweringInit /\ [][LoweringNext]_loweringVars
-----------------------------------------------------------------------------
\* The addresses the library functions use, relative to 0xC5000000, whose low
\* 19 bits are 0: LOCK and UNLOCK with 8 words per mutex, and the barrier's.
LockAddress(mutexNum) == 32 * mutexNum
UnlockAddress(mutexNum) == 32 * mutexNum + 16
BarrierInitAddress == 4096
BarrierWaitAddress == 4096 + 16

\* The cores a read or write of an address selects (printSyncCtrlSignals):
\* bits 11 to 5 are tag_lock, bits 18 to 12 are tag_barrier, which starts at 1.
tag_lock(address) == (address \div 32) % 128
tag_barrier(address) == (address \div 4096) % 128

\* Faulty: a core is selected by its own tag alone.
SelectedByTagOnly(address) ==
    {<<"lock", k>> : k \in {k \in 0 .. (syncMap["lock"] - 1) : tag_lock(address) = k}}
    \cup {<<"barrier", k>> : k \in {k \in 0 .. (syncMap["barrier"] - 1) :
                               tag_barrier(address) = k + 1}}

Selected(address) ==
    {<<"lock", k>> : k \in {k \in 0 .. (syncMap["lock"] - 1) :
                               tag_lock(address) = k /\ tag_barrier(address) = 0}}
    \cup {<<"barrier", k>> : k \in {k \in 0 .. (syncMap["barrier"] - 1) :
                               tag_barrier(address) = k + 1 /\ tag_lock(address) = 0}}

\* Bit 4: lock and barrier init against unlock and barrier wait.
StatusAddress(address) == (address \div 16) % 2
-----------------------------------------------------------------------------
Calls(op) == {k \in 1 .. Len(sites) : sites[k].op = op}
Allocated == phase = "allocate" /\ nextSite > Len(sites)

LoweringTypeOK ==
    /\ phase \in {"lower", "allocate"}
    /\ Len(sites) <= MaxSites
    /\ \A k \in 1 .. Len(sites) : sites[k].operand \in Nat /\ sites[k].volatile \in BOOLEAN
    /\ numOMPatomic \in Nat
    /\ atomicRegion \in BOOLEAN /\ barrierRegion \in BOOLEAN
    /\ nextSite \in 1 .. (MaxSites + 1)
    /\ syncMap \in [{"lock", "barrier"} -> Nat]

\* Two lock or unlock calls use the same core exactly when they are about the
\* same mutex (replaceLockFunction, getMutexName).
MutexNumbersAgree ==
    \A j, k \in Calls("legup_lock") \cup Calls("legup_unlock") :
        sites[j].operand = sites[k].operand <=> sites[j].name = sites[k].name

\* The address of a synchronization access selects its own core and no other,
\* and bit 4 tells a lock from an unlock.  A lock has a core when its number is
\* not above that of the last lock call scanned ("we add one to indicate the
\* number of lock cores needed", getSynchronizationUsage): an earlier call with
\* a higher number polls an address that nothing answers.
CoresOf(k) ==
    {<<"lock", sites[k].operand>> : l \in {l \in Calls("legup_lock") :
        sites[k].operand <= sites[l].operand /\ \A j \in Calls("legup_lock") : j <= l}}

AddressesSelectCores ==
    Allocated =>
       /\ \A k \in Calls("legup_lock") :
             LET a == LockAddress(sites[k].operand) IN
             Selected(a) = CoresOf(k) /\ StatusAddress(a) = 0
       /\ \A k \in Calls("legup_unlock") :
             LET a == UnlockAddress(sites[k].operand) IN
             Selected(a) = CoresOf(k) /\ StatusAddress(a) = 1
       /\ \A k \in Calls("legup_barrier_wait") :
             /\ Selected(BarrierWaitAddress) = {<<"barrier", 0>>}
             /\ Selected(BarrierInitAddress) = {<<"barrier", 0>>}

\* A load that follows a lock with no unlock in between is volatile, whatever
\* barriers and other loads lie between them (setLoadtoVolatile).
LoadsAfterLockVolatile ==
    \A j \in Calls("legup_lock"), k \in Calls("load") :
        j < k /\ ~(\E u \in Calls("legup_unlock") : j < u /\ u < k) => sites[k].volatile

=============================================================================
