----------------------------- MODULE LockSystem -----------------------------
(***************************************************************************)
(* Threads that call legup_lock and legup_unlock in the pure hardware flow, *)
(* cycle by cycle: the FSMs of the thread instances with the called modules *)
(* in them, the round robin arbiter between them and the master thread      *)
(* (input 0), the synchronization controller with its lock cores and its    *)
(* two output registers, and the read data path back to the threads.        *)
(* Every variable is a register; one step is one clock edge.                *)
(***************************************************************************)
EXTENDS ReadRouting

CONSTANT Locks  \* the lock cores, lock_inst0 and on

VARIABLES pc,           \* the FSM state of each thread, legup_lock's included
          mutexNum,     \* the argument of its last legup_lock
          main_req,     \* whether the master thread's enable is high
          mutex_status, \* per lock core: 1 when the mutex is taken
          mutex_owner,
          synchronization_controller_out_reg,
          synchronization_controller_out_reg_reg,
          sync_controller_shiftreg  \* the bits that are 1

coreVars == <<mutex_status, mutex_owner>>
busVars == <<synchronization_controller_out_reg,
             synchronization_controller_out_reg_reg, sync_controller_shiftreg>>
vars == <<rotate_ptr, grant, dataReady0, dataReady1, out_reg, pc, mutexNum,
          main_req, mutex_status, mutex_owner,
          synchronization_controller_out_reg,
          synchronization_controller_out_reg_reg, sync_controller_shiftreg>>

Threads == Ports \ {0}

\* FSM states.  x_start is the state of the caller in which the callee's start
\* is high; x_ret is the callee's return state, then its finish is high, then
\* finish_reg in the caller, which goes on in the next cycle.
LockReturn == {"lock_ret", "lock_finish", "lock_finish_reg"}
UnlockReturn == {"unlock_ret", "unlock_finish", "unlock_finish_reg"}
Accessing == {"idle_access", "critical_access"}
States == {"idle", "lock_start", "poll", "poll1", "poll2", "critical",
           "unlock_start", "release"} \cup Accessing \cup LockReturn \cup UnlockReturn

\* The states in which a thread relies on having the lock.
Holding == LockReturn \cup {"critical", "critical_access", "unlock_start", "release"}

In(S) == {t \in Threads : pc[t] \in S}

req_in == In(Accessing \cup {"poll", "release"}) \cup (IF main_req THEN {0} ELSE {})
gnt == grant_final(req_in, FALSE)
Stalled == req_in \ gnt

\* Faulty: the core sees the enable of a thread that is not granted.
LockReadUngranted(l) == \E t \in In({"poll"}) : mutexNum[t] = l

\* Accesses with address bit 31 set, steered to the core of mutexNum; bit 4
\* tells a poll from a release.
LockRead(l) == \E t \in gnt \cap In({"poll"}) : mutexNum[t] = l
LockWrite(l) == \E t \in gnt \cap In({"release"}) : mutexNum[t] = l

mutex_free(l) == mutex_status[l] = 0

\* The selected core's answer; nobody looks at it without a read.
synchronization_controller_out ==
    IF \E l \in Locks : LockRead(l) /\ mutex_free(l) THEN 1 ELSE 0

\* A word of ordinary memory: one that a poll would take for a free lock.
MemoryWord == 1

\* Faulty: the bus is switched one cycle early.
SwitchedEarly ==
    IF 0 \in sync_controller_shiftreg THEN synchronization_controller_out_reg_reg
    ELSE MemoryWord

data_from_memory ==
    IF 1 \in sync_controller_shiftreg THEN synchronization_controller_out_reg_reg
    ELSE MemoryWord
-----------------------------------------------------------------------------
Init ==
    /\ ArbiterReset
    /\ RoutingReset(0)
    /\ pc = [t \in Threads |-> "idle"]
    /\ mutexNum \in [Threads -> Locks]
    /\ main_req = FALSE
    /\ mutex_status = [l \in Locks |-> 0]
    /\ mutex_owner = [l \in Locks |-> 0]
    /\ synchronization_controller_out_reg = 0
    /\ synchronization_controller_out_reg_reg = 0
    /\ sync_controller_shiftreg = {}

\* The FSM edges.  A program computes (idle) for as long as it likes, accesses
\* memory, or calls legup_lock and later legup_unlock for the same lock; call
\* and access are its choices, all else is fixed by the code.
NextState(t, call, access) ==
    CASE t \in Stalled -> pc[t]
      [] pc[t] = "idle" -> IF t \in call THEN "lock_start"
                           ELSE IF t \in access THEN "idle_access" ELSE "idle"
      [] pc[t] = "idle_access" -> "idle"
      [] pc[t] = "lock_start" -> "poll"
      [] pc[t] = "poll" /\ t \notin Stalled -> "poll1"
      [] pc[t] = "poll1" -> "poll2"
      [] pc[t] = "poll2" -> IF memory_controller_out(t, data_from_memory) = 0
                            THEN "poll" ELSE "lock_ret"
      [] pc[t] = "lock_ret" -> "lock_finish"
      [] pc[t] = "lock_finish" -> "lock_finish_reg"
      [] pc[t] = "lock_finish_reg" -> "critical"
      [] pc[t] = "critical" -> IF t \in call THEN "unlock_start"
                               ELSE IF t \in access THEN "critical_access" ELSE "critical"
      [] pc[t] = "critical_access" /\ t \notin Stalled -> "critical"
      [] pc[t] = "unlock_start" -> "release"
      [] pc[t] = "release" /\ t \notin Stalled -> "unlock_ret"
      [] pc[t] = "unlock_ret" -> "unlock_finish"
      [] pc[t] = "unlock_finish" -> "unlock_finish_reg"
      [] pc[t] = "unlock_finish_reg" -> "idle"

ThreadFSMs(call, access) ==
    /\ pc' = [t \in Threads |-> NextState(t, call, access)]
    /\ mutexNum' \in [Threads -> Locks]
    /\ \A t \in Threads : pc[t] # "idle" \/ t \notin call => mutexNum'[t] = mutexNum[t]

\* The master thread accesses memory whenever it likes and holds the request.
MasterFSM == main_req' \in (IF 0 \in Stalled THEN {TRUE} ELSE BOOLEAN)

\* The lock cores: a read of a free mutex takes it, a write of 1 by the owner
\* gives it back.
LockCores ==
    /\ mutex_status' = [l \in Locks |->
          IF mutex_free(l) /\ LockRead(l) THEN 1
          ELSE IF mutex_owner[l] = 1 /\ LockWrite(l) THEN 0 ELSE mutex_status[l]]
    /\ mutex_owner' = [l \in Locks |->
          IF mutex_free(l) /\ LockRead(l) THEN 1
          ELSE IF mutex_owner[l] = 1 /\ LockWrite(l) THEN 0 ELSE mutex_owner[l]]

\* Faulty: a new read overwrites the shift register instead of entering it.
SyncOutputOverwrite ==
    /\ synchronization_controller_out_reg' = synchronization_controller_out
    /\ synchronization_controller_out_reg_reg' = synchronization_controller_out_reg
    /\ sync_controller_shiftreg' =
          IF gnt \cap In({"poll"}) # {} THEN {0}
          ELSE IF 0 \in sync_controller_shiftreg THEN {1} ELSE {}

\* The answer reaches the bus after two cycles, and the shift register says
\* when to take the bus from the controller instead of the memory.
SyncOutput ==
    /\ synchronization_controller_out_reg' = synchronization_controller_out
    /\ synchronization_controller_out_reg_reg' = synchronization_controller_out_reg
    /\ sync_controller_shiftreg' =
          (IF gnt \cap In({"poll"}) # {} THEN {0} ELSE {})
             \cup (IF 0 \in sync_controller_shiftreg THEN {1} ELSE {})

\* One clock edge; an ordinary access granted in this cycle may be a store.
Clock(call, access) ==
    /\ ThreadFSMs(call, access)
    /\ MasterFSM
    /\ ArbiterClock(req_in, FALSE)
    /\ \E stores \in SUBSET (gnt \ In({"poll", "release"})) :
          RoutingClock(req_in \ (stores \cup In({"release"})), gnt, FALSE, data_from_memory)
    /\ LockCores
    /\ SyncOutput

Next ==
    \E call \in SUBSET In({"idle", "critical"}) :
       \E access \in SUBSET (In({"idle", "critical"}) \ call) : Clock(call, access)

\* The clock keeps running, and a program leaves its critical section after
\* finitely many accesses.
Leave(t) ==
    \E call \in SUBSET In({"idle", "critical"}) :
       \E access \in SUBSET (In({"idle", "critical"}) \ call) :
          t \in call /\ pc[t] = "critical" /\ Clock(call, access)

Spec == Init /\ [][Next]_vars /\ WF_vars(Next) /\ \A t \in Threads : SF_vars(Leave(t))
-----------------------------------------------------------------------------
TypeOK ==
    /\ ArbiterTypeOK
    /\ dataReady0 \subseteq Ports /\ dataReady1 \subseteq Ports
    /\ out_reg \in [Ports -> {0, 1}]
    /\ pc \in [Threads -> States]
    /\ mutexNum \in [Threads -> Locks]
    /\ main_req \in BOOLEAN
    /\ mutex_status \in [Locks -> {0, 1}] /\ mutex_owner \in [Locks -> {0, 1}]
    /\ synchronization_controller_out_reg \in {0, 1}
    /\ synchronization_controller_out_reg_reg \in {0, 1}
    /\ sync_controller_shiftreg \subseteq {0, 1}

\* Thread t has lock l: it relies on it, or the core gave it to the poll whose
\* answer is still on its way.
Has(t, l) ==
    /\ mutexNum[t] = l
    /\ \/ pc[t] \in Holding
       \/ pc[t] = "poll1" /\ synchronization_controller_out_reg = 1
       \/ pc[t] = "poll2" /\ synchronization_controller_out_reg_reg = 1

\* At most one thread is between legup_lock and legup_unlock of a lock.
MutualExclusion ==
    \A t, u \in Threads :
        t # u /\ pc[t] \in Holding /\ pc[u] \in Holding => mutexNum[t] # mutexNum[u]

\* A taken core belongs to exactly one thread that will release it: no poll
\* takes a lock whose answer then goes to nobody or to somebody else.
NoLostLock ==
    \A l \in Locks : mutex_status[l] = 1 <=> \E t \in Threads : Has(t, l)

\* A poll is answered by the lock controller, never by a word of memory.
PollHearsController ==
    \A t \in In({"poll2"}) : t \in dataReady1 /\ 1 \in sync_controller_shiftreg

Holder(l) == IF \E t \in Threads : Has(t, l) THEN CHOOSE t \in Threads : Has(t, l) ELSE 0

Trying(l) ==
    {t \in In({"lock_start", "poll", "poll1", "poll2"}) : mutexNum[t] = l /\ ~Has(t, l)}

M == INSTANCE Mutex WITH NoThread <- 0,
        holder <- [l \in Locks |-> Holder(l)], wants <- [l \in Locks |-> Trying(l)]

\* The lock cores, the shared bus and the polling loop implement the mutex.
ImplementsMutex == M!Init /\ [][M!Next]_M!vars

\* Of two threads that compete, each one that polls gets the lock.  The cores
\* keep no queue: it is the rhythm of the polls that serves both, and from a
\* third competitor on two can pass the lock between them for ever.
TwoThreadsServed ==
    N <= 3 => \A t \in Threads : pc[t] = "poll" ~> pc[t] = "critical"
=============================================================================
