--------------------------- MODULE BarrierSystem ---------------------------
(***************************************************************************)
(* Threads that call legup_barrier_wait in the pure hardware flow, cycle by *)
(* cycle, over the same arbiter, synchronization controller and read path   *)
(* as LockSystem.  The master thread (input 0) has stored the number of     *)
(* participants with legup_barrier_init before it creates the threads, and  *)
(* then, like the bystanders, accesses memory whenever it likes.            *)
(***************************************************************************)
EXTENDS ReadRouting, FiniteSets

CONSTANTS Participants,  \* the threads that meet at the barrier
          MaxWaits,      \* bound: calls of legup_barrier_wait by each of them
          OthersMayPause \* bound: FALSE has the others access memory all the time

ASSUME ParticipantsAssumption == Participants \subseteq Ports \ {0} /\ Participants # {}
ASSUME BoundsAssumption == MaxWaits \in Nat /\ OthersMayPause \in BOOLEAN

VARIABLES pc,             \* the FSM state of each participant
          main_created,   \* whether main is past legup_barrier_init
          other_req,      \* main and the bystanders: whose enable is high
          barrier_count, numthreads,                \* the barrier core
          synchronization_controller_out_reg,
          synchronization_controller_out_reg_reg, sync_controller_shiftreg,
          arrived, left   \* history: how often each participant came and went

busVars == <<synchronization_controller_out_reg,
             synchronization_controller_out_reg_reg, sync_controller_shiftreg>>
vars == <<rotate_ptr, grant, dataReady0, dataReady1, out_reg, pc, main_created,
          other_req, barrier_count, numthreads, synchronization_controller_out_reg,
          synchronization_controller_out_reg_reg, sync_controller_shiftreg, arrived, left>>

NumParticipants == Cardinality(Participants)

\* x_start, x_ret, x_finish and x_finish_reg are the call handshake; gap is the
\* state the scheduler leaves between the store and the first load.
WaitReturn == {"wait_ret", "wait_finish", "wait_finish_reg"}
States == {"idle", "idle_access", "wait_start", "arrive", "gap",
           "poll", "poll1", "poll2"} \cup WaitReturn

In(S) == {t \in Participants : pc[t] \in S}
Others == Ports \ Participants

req_in == In({"idle_access", "arrive", "poll"}) \cup other_req
gnt == grant_final(req_in, FALSE)
Stalled == req_in \ gnt

\* main's store of legup_barrier_init (address bit 4 is 0), a participant's
\* store on arrival (bit 4 is 1), and its reads.
BarrierInit == ~main_created /\ 0 \in gnt
BarrierArrive == gnt \cap In({"arrive"}) # {}
BarrierRead == gnt \cap In({"poll"}) # {}

\* A word of ordinary memory: one that a poll would take for "all are here".
MemoryWord == 0

\* Faulty: the bus is switched one cycle early.
SwitchedEarly ==
    IF 0 \in sync_controller_shiftreg THEN synchronization_controller_out_reg_reg
    ELSE MemoryWord

data_from_memory ==
    IF 1 \in sync_controller_shiftreg THEN synchronization_controller_out_reg_reg
    ELSE MemoryWord
-----------------------------------------------------------------------------
Init ==
    /\ ArbiterReset
    /\ RoutingReset(0)
    /\ pc = [t \in Participants |-> "idle"]
    /\ main_created = FALSE
    /\ other_req = {0}
    /\ barrier_count = 0
    /\ numthreads = 0
    /\ synchronization_controller_out_reg = 0
    /\ synchronization_controller_out_reg_reg = 0
    /\ sync_controller_shiftreg = {}
    /\ arrived = [t \in Participants |-> 0]
    /\ left = [t \in Participants |-> 0]

\* The FSM edges; call and access are the program's choices.
NextState(t, call, access) ==
    CASE t \in Stalled -> pc[t]
      [] pc[t] = "idle" -> IF t \in call THEN "wait_start"
                           ELSE IF t \in access THEN "idle_access" ELSE "idle"
      [] pc[t] = "idle_access" /\ t \notin Stalled -> "idle"
      [] pc[t] = "wait_start" -> "arrive"
      [] pc[t] = "arrive" /\ t \notin Stalled -> "gap"
      [] pc[t] = "gap" -> "poll"
      [] pc[t] = "poll" /\ t \notin Stalled -> "poll1"
      [] pc[t] = "poll1" -> "poll2"
      [] pc[t] = "poll2" -> IF memory_controller_out(t, data_from_memory) # 0
                            THEN "poll" ELSE "wait_ret"
      [] pc[t] = "wait_ret" -> "wait_finish"
      [] pc[t] = "wait_finish" -> "wait_finish_reg"
      [] pc[t] = "wait_finish_reg" -> "idle"

ParticipantFSMs(call, access) ==
    /\ pc' = [t \in Participants |-> NextState(t, call, access)]
    /\ arrived' = [t \in Participants |->
          IF t \in In({"arrive"}) \cap gnt THEN arrived[t] + 1 ELSE arrived[t]]
    /\ left' = [t \in Participants |->
          IF pc[t] = "wait_finish_reg" THEN left[t] + 1 ELSE left[t]]

\* main initialises the barrier, then creates the threads; after that main and
\* the bystanders access memory whenever they like and hold their requests.
OtherFSMs ==
    /\ main_created' = (main_created \/ BarrierInit)
    /\ IF main_created
       THEN \E new \in (IF OthersMayPause THEN SUBSET (Others \ Stalled)
                                           ELSE {Others \ Stalled}) :
               other_req' = (other_req \cap Stalled) \cup new
       ELSE other_req' = other_req \cap Stalled

\* Faulty: a full count is kept.
BarrierCoreNoReset ==
    /\ numthreads' = IF BarrierInit THEN NumParticipants ELSE numthreads
    /\ barrier_count' = IF BarrierArrive THEN barrier_count + 1 ELSE barrier_count

\* The barrier core: an arrival counts before a full count is reset.
BarrierCore ==
    /\ numthreads' = IF BarrierInit THEN NumParticipants ELSE numthreads
    /\ barrier_count' = IF BarrierArrive THEN barrier_count + 1
                        ELSE IF barrier_count = numthreads THEN 0 ELSE barrier_count

SyncOutput ==
    /\ synchronization_controller_out_reg' = IF BarrierRead THEN barrier_count ELSE 0
    /\ synchronization_controller_out_reg_reg' = synchronization_controller_out_reg
    /\ sync_controller_shiftreg' =
          (IF BarrierRead THEN {0} ELSE {})
             \cup (IF 0 \in sync_controller_shiftreg THEN {1} ELSE {})

Clock(call, access) ==
    /\ ParticipantFSMs(call, access)
    /\ OtherFSMs
    /\ ArbiterClock(req_in, FALSE)
    /\ \E stores \in SUBSET (gnt \ In({"poll", "arrive"})) :
          RoutingClock(req_in \ (stores \cup In({"arrive"})), gnt, FALSE, data_from_memory)
    /\ BarrierCore
    /\ SyncOutput

\* The participants run after they are created; each has MaxWaits calls to make.
Running == IF main_created THEN In({"idle"}) ELSE {}
MayWait == {t \in Running : arrived[t] < MaxWaits}

Next == \E call \in SUBSET MayWait :
           \E access \in SUBSET (Running \ call) : Clock(call, access)

\* A participant comes to the barrier after finitely many accesses.
Come(t) == \E call \in SUBSET MayWait :
              \E access \in SUBSET (Running \ call) : t \in call /\ Clock(call, access)

Spec == Init /\ [][Next]_vars /\ WF_vars(Next) /\ \A t \in Participants : SF_vars(Come(t))
-----------------------------------------------------------------------------
TypeOK ==
    /\ ArbiterTypeOK
    /\ dataReady0 \subseteq Ports /\ dataReady1 \subseteq Ports
    /\ out_reg \in [Ports -> Nat]
    /\ pc \in [Participants -> States]
    /\ main_created \in BOOLEAN /\ other_req \subseteq Others
    /\ barrier_count \in Nat /\ numthreads \in Nat
    /\ synchronization_controller_out_reg \in Nat
    /\ synchronization_controller_out_reg_reg \in Nat
    /\ sync_controller_shiftreg \subseteq {0, 1}
    /\ arrived \in [Participants -> Nat] /\ left \in [Participants -> Nat]

\* Nobody returns from its k-th legup_barrier_wait before everybody has
\* arrived for the k-th time.
NoEarlyExit == \A t, u \in Participants : left[t] <= arrived[u]

\* Nobody comes back to the barrier while another participant has not yet
\* heard that the last meeting is complete: it would wait for ever.
NobodyOvertaken ==
    \A t, u \in Participants : t \in In({"gap", "poll"}) => arrived[u] <= arrived[t]

\* Once everybody has arrived for the k-th time, everybody leaves.
EveryoneLeaves ==
    \A k \in 1 .. MaxWaits :
       (\A u \in Participants : arrived[u] >= k) ~> (\A t \in Participants : left[t] >= k)
=============================================================================
