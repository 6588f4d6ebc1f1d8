------------------------------ MODULE ReadPath ------------------------------
(***************************************************************************)
(* Pipelined loads behind an arbiter in the pure hardware flow.  The FSM of *)
(* every requester is scheduled for a memory that answers two STATES after  *)
(* the load, the memory answers two CYCLES after the grant, and a state     *)
(* lasts as many cycles as the requester waits for its grant.  A parallel   *)
(* function stores the word on the first cycle of the load's end state      *)
(* (createMemoryReaddataStorageForParallelFunction); a function without     *)
(* totalNumThreads, such as the master thread, samples memory_controller_   *)
(* out in every cycle of the end state (visitLoadInst).                     *)
(***************************************************************************)
EXTENDS ReadRouting

CONSTANT ParallelPorts  \* the requesters that are parallel functions

ASSUME ParallelAssumption == ParallelPorts \subseteq Ports

\* Every FSM state has a number; a load issued in it is still in flight in the
\* next two states, so three numbers tell all of them apart.
StateNumbers == 0 .. 2
Word == Ports \X StateNumbers
NoWord == <<N, 0>>

VARIABLES access,      \* what each requester's current state does: idle, load or store
          state,       \* the number of that state
          first_state_after_memory_read,
          second_state_after_memory_read,
          memory_controller_waitrequest_inverted_reg,
          stored_on_datavalid_reg,
          mem_out_reg, \* the word read by the access of the previous cycle
          mem_out      \* the word on the bus

memoryVars == <<mem_out_reg, mem_out>>
pathVars == <<rotate_ptr, grant, dataReady0, dataReady1, out_reg, access, state,
              first_state_after_memory_read, second_state_after_memory_read,
              memory_controller_waitrequest_inverted_reg, stored_on_datavalid_reg,
              mem_out_reg, mem_out>>

Enabled == {p \in Ports : access[p] # "idle"}
memRead == {p \in Ports : access[p] = "load"}
path_gnt == grant_final(Enabled, FALSE)
StalledFSMs == Enabled \ path_gnt

\* Faulty: every cycle of the end state stores the bus, not only the first.
ValidInEveryCycle(p) == p \in second_state_after_memory_read

memReaddataValid(p) ==
    /\ p \in second_state_after_memory_read
    /\ p \in memory_controller_waitrequest_inverted_reg

stored_on_datavalid(p) ==
    IF memReaddataValid(p) THEN memory_controller_out(p, mem_out)
    ELSE IF p \in second_state_after_memory_read THEN stored_on_datavalid_reg[p]
    ELSE NoWord

\* What the load register of p is fed with in this cycle.
LoadWire(p) == IF p \in ParallelPorts THEN stored_on_datavalid(p)
               ELSE memory_controller_out(p, mem_out)

\* The word of the load that was issued two states ago.
WordOf(p) == <<p, (state[p] + 1) % 3>>

PathInit ==
    /\ ArbiterReset
    /\ RoutingReset(NoWord)
    /\ access = [p \in Ports |-> "idle"]
    /\ state = [p \in Ports |-> 0]
    /\ first_state_after_memory_read = {}
    /\ second_state_after_memory_read = {}
    /\ memory_controller_waitrequest_inverted_reg = {}
    /\ stored_on_datavalid_reg = [p \in Ports |-> NoWord]
    /\ mem_out_reg = NoWord
    /\ mem_out = NoWord

\* The FSMs: a stalled one stays, any other one enters its next state.
FSMs ==
    /\ \E next \in [Ports -> {"idle", "load", "store"}] :
          access' = [p \in Ports |-> IF p \in StalledFSMs THEN access[p] ELSE next[p]]
    /\ state' = [p \in Ports |-> IF p \in StalledFSMs THEN state[p] ELSE (state[p] + 1) % 3]

\* The shift registers inside the requesters move with the FSM.
ReadShiftRegisters ==
    /\ first_state_after_memory_read' =
          (first_state_after_memory_read \cap StalledFSMs) \cup (memRead \ StalledFSMs)
    /\ second_state_after_memory_read' =
          (second_state_after_memory_read \cap StalledFSMs)
             \cup (first_state_after_memory_read \ StalledFSMs)
    /\ memory_controller_waitrequest_inverted_reg' = Ports \ StalledFSMs
    /\ stored_on_datavalid_reg' =
          [p \in Ports |-> IF memReaddataValid(p) THEN memory_controller_out(p, mem_out)
                           ELSE stored_on_datavalid_reg[p]]

\* The memory behind the arbiter: two cycles of latency, one access a cycle.
Memory ==
    /\ mem_out_reg' = IF \E p \in path_gnt : p \in memRead
                      THEN CHOOSE w \in Word : w[1] \in path_gnt /\ w[2] = state[w[1]]
                      ELSE NoWord
    /\ mem_out' = mem_out_reg

PathNext ==
    /\ ArbiterClock(Enabled, FALSE)
    /\ RoutingClock(memRead, path_gnt, FALSE, mem_out)
    /\ FSMs
    /\ ReadShiftRegisters
    /\ Memory

PathSpec == PathInit /\ [][PathNext]_pathVars
-----------------------------------------------------------------------------
PathTypeOK ==
    /\ ArbiterTypeOK
    /\ dataReady0 \subseteq Ports /\ dataReady1 \subseteq Ports
    /\ out_reg \in [Ports -> Word \cup {NoWord}]
    /\ access \in [Ports -> {"idle", "load", "store"}]
    /\ state \in [Ports -> StateNumbers]
    /\ first_state_after_memory_read \subseteq Ports
    /\ second_state_after_memory_read \subseteq Ports
    /\ memory_controller_waitrequest_inverted_reg \subseteq Ports
    /\ stored_on_datavalid_reg \in [Ports -> Word \cup {NoWord}]
    /\ mem_out_reg \in Word \cup {NoWord}
    /\ mem_out \in Word \cup {NoWord}

\* When p leaves the end state of a load, what its load register keeps is the
\* word of that load.
GetsItsWord(p) ==
    p \in second_state_after_memory_read \ StalledFSMs => LoadWire(p) = WordOf(p)

\* Parallel functions always read their own data, however their states are
\* stretched and whatever the other requesters load meanwhile.
ParallelLoadsCorrect == \A p \in ParallelPorts : GetsItsWord(p)

\* Of a requester that has only the first of the two functions that "are needed
\* to get the correct data from memory": without another load in the state
\* between its start and its end, a load reads its own word.
MasterLoneLoadsCorrect ==
    \A p \in Ports \ ParallelPorts :
        p \notin first_state_after_memory_read => GetsItsWord(p)
=============================================================================
