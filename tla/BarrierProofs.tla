---------------------------- MODULE BarrierProofs ----------------------------
(***************************************************************************)
(* For every number of ports and every set of participants: the types of   *)
(* BarrierSystem, that nobody leaves a meeting before everybody has come,  *)
(* and that the core's count returns to zero only between two meetings.    *)
(* For up to nine ports: nobody comes back to the barrier before everybody *)
(* has heard that the last meeting is complete.                            *)
(***************************************************************************)
EXTENDS BarrierSystem, FiniteSetTheorems, WellFoundedInduction, TLAPS

\* The states before the store of an arrival and after the last answer.
Outside == {"idle", "idle_access", "wait_start", "arrive"} \cup WaitReturn

\* The arbiter grants at most one request, and only a request.
LEMMA GrantOne ==
  /\ gnt \subseteq req_in
  /\ TypeOK => \A g, h \in gnt : g = h
<1>1. gnt \subseteq req_in
  BY DEF gnt, grant_final, grant_comb, mask_req, LowestBit
<1>2. ASSUME TypeOK, NEW g \in gnt, NEW h \in gnt PROVE g = h
  <2>1. req_in \subseteq Nat
    <3>1. req_in \subseteq Ports
      BY <1>2, ParticipantsAssumption DEF req_in, In, Others, TypeOK
    <3>2. Ports \subseteq Nat
      BY ArbiterSize DEF Ports
    <3> QED
      BY <3>1, <3>2
  <2>2. g \in req_in /\ h \in req_in
    BY <1>1
  <2>3. g <= h /\ h <= g
    BY DEF gnt, grant_final, grant_comb, mask_req, LowestBit
  <2> QED
    BY <2>1, <2>2, <2>3
<1> QED
  BY <1>1, <1>2

\* The FSM edges that the proofs need, one participant at a time.
LEMMA FsmEdges ==
  ASSUME TypeOK, NEW t \in Participants, NEW call, NEW access
  PROVE
    LET new == NextState(t, call, access)
        heard == memory_controller_out(t, data_from_memory)
    IN  /\ new \in States
        /\ new = "poll1" <=> pc[t] = "poll" /\ t \in gnt
        /\ new = "poll2" <=> pc[t] = "poll1"
        /\ new = "wait_ret" <=> pc[t] = "poll2" /\ heard = 0
        /\ new \in WaitReturn \ {"wait_ret"} <=> pc[t] \in WaitReturn \ {"wait_finish_reg"}
        /\ new \in Outside \ WaitReturn <=>
              \/ pc[t] \in Outside \ (WaitReturn \cup {"arrive"})
              \/ pc[t] = "arrive" /\ t \notin gnt
              \/ pc[t] = "wait_finish_reg"
        /\ pc[t] = "idle" /\ t \notin call /\ t \notin access => new = "idle"
<1>1. pc[t] \in States
  BY DEF TypeOK
<1>2. t \in Stalled <=> pc[t] \in {"idle_access", "arrive", "poll"} /\ t \notin gnt
  BY DEF Stalled, req_in, In, Others, TypeOK
<1>3. CASE t \in Stalled
  BY <1>1, <1>2, <1>3 DEF NextState, States, Outside, WaitReturn
<1>4. CASE t \notin Stalled
  BY <1>1, <1>2, <1>4 DEF NextState, States, Outside, WaitReturn
<1> QED
  BY <1>3, <1>4

\* The participants and their meetings are finite sets.
LEMMA FiniteParticipants ==
  /\ IsFiniteSet(Participants)
  /\ NumParticipants \in Nat /\ NumParticipants # 0
  /\ \A S \in SUBSET Participants :
        /\ IsFiniteSet(S)
        /\ Cardinality(S) \in Nat
        /\ Cardinality(S) = NumParticipants => S = Participants
<1>1. IsFiniteSet(Ports)
  <2>1. 0 \in Int /\ N - 1 \in Int
    BY ArbiterSize
  <2> QED
    BY <2>1, FS_Interval, Zenon DEF Ports
<1>2. IsFiniteSet(Participants)
  BY <1>1, FS_Subset, ParticipantsAssumption
<1>3. ASSUME NEW S \in SUBSET Participants
      PROVE  /\ IsFiniteSet(S)
             /\ Cardinality(S) \in Nat
             /\ Cardinality(S) = NumParticipants => S = Participants
  BY <1>2, FS_Subset, FS_CardinalityType DEF NumParticipants
<1>4. NumParticipants \in Nat /\ NumParticipants # 0
  BY <1>2, FS_CardinalityType, FS_EmptySet, ParticipantsAssumption DEF NumParticipants
<1> QED
  BY <1>2, <1>3, <1>4

\* An edge, with the participants that may start something.
LEMMA NextSplit ==
  ASSUME [Next]_vars
  PROVE  \/ \E call \in SUBSET Running, access \in SUBSET Running : Clock(call, access)
         \/ UNCHANGED vars
BY DEF Next, MayWait

LEMMA InitTypes == Init => TypeOK
<1> SUFFICES ASSUME Init PROVE TypeOK
  OBVIOUS
<1>1. ArbiterTypeOK
  BY DEF Init, ArbiterReset, ArbiterTypeOK
<1>2. out_reg \in [Ports -> Nat] /\ dataReady0 = {} /\ dataReady1 = {}
  BY DEF Init, RoutingReset
<1>3. pc \in [Participants -> States]
  BY DEF Init, States
<1>4. other_req \subseteq Others
  BY ArbiterSize, ParticipantsAssumption DEF Init, Others, Ports
<1> QED
  BY <1>1, <1>2, <1>3, <1>4 DEF Init, TypeOK

LEMMA TypesStep == TypeOK /\ [Next]_vars => TypeOK'
<1> SUFFICES ASSUME TypeOK, [Next]_vars PROVE TypeOK'
  OBVIOUS
<1>1. ASSUME NEW call, NEW access, Clock(call, access) PROVE TypeOK'
  <2>1. req_in \subseteq Ports
    BY ParticipantsAssumption DEF req_in, In, Others, TypeOK
  <2>2. ArbiterTypeOK'
    BY <1>1, <2>1 DEF Clock, ArbiterClock, TypeOK, ArbiterTypeOK, PtrAfter,
                      grant_comb, mask_req, LowestBit
  <2>3. data_from_memory \in Nat
    BY DEF data_from_memory, MemoryWord, TypeOK
  <2>4. dataReady0' \subseteq Ports /\ dataReady1' \subseteq Ports
    BY <1>1, <2>1 DEF Clock, RoutingClock, TypeOK
  <2>5. out_reg' \in [Ports -> Nat]
    BY <1>1, <2>3 DEF Clock, RoutingClock, memory_controller_out, TypeOK
  <2>6. pc' \in [Participants -> States]
    BY <1>1, FsmEdges DEF Clock, ParticipantFSMs
  <2>7. arrived' \in [Participants -> Nat] /\ left' \in [Participants -> Nat]
    BY <1>1 DEF Clock, ParticipantFSMs, TypeOK
  <2>8. main_created' \in BOOLEAN /\ other_req' \subseteq Others
    BY <1>1 DEF Clock, OtherFSMs, TypeOK, BarrierInit
  <2>9. barrier_count' \in Nat /\ numthreads' \in Nat
    BY <1>1, FiniteParticipants DEF Clock, BarrierCore, TypeOK
  <2>10. /\ synchronization_controller_out_reg' \in Nat
         /\ synchronization_controller_out_reg_reg' \in Nat
         /\ sync_controller_shiftreg' \subseteq {0, 1}
    BY <1>1 DEF Clock, SyncOutput, TypeOK
  <2> QED
    BY <2>2, <2>4, <2>5, <2>6, <2>7, <2>8, <2>9, <2>10 DEF TypeOK
<1>2. CASE UNCHANGED vars
  BY <1>2 DEF TypeOK, vars, ArbiterTypeOK
<1> QED
  BY <1>1, <1>2, NextSplit

\* The types hold for any number of ports and participants.
THEOREM BarrierTypes == Spec => []TypeOK
BY InitTypes, TypesStep, PTL DEF Spec
-----------------------------------------------------------------------------
\* Nothing happens at the barrier before main has initialised it.
Prepared ==
    /\ numthreads = IF main_created THEN NumParticipants ELSE 0
    /\ ~main_created => barrier_count = 0 /\ In({"idle"}) = Participants

\* A poll that was granted is marked in the routing and in the controller's
\* shift register, stage by stage.
PollsTracked ==
    /\ \A t \in In({"poll1"}) : t \in dataReady0 /\ 0 \in sync_controller_shiftreg
    /\ \A t \in In({"poll2"}) : t \in dataReady1 /\ 1 \in sync_controller_shiftreg

\* Those who have come to the meeting after the r-th.
Met(r) == {t \in Participants : arrived[t] = r + 1}

\* r meetings are complete: whoever is not waiting, and whoever is about to
\* hear a zero, has come r times; the count is of those who came once more.
Meeting(r) ==
    /\ \A t \in Participants : arrived[t] \in {r, r + 1}
    /\ barrier_count = Cardinality(Met(r))
    /\ \A t \in In(Outside) : arrived[t] = r
    /\ \A t \in In({"poll1"}) : synchronization_controller_out_reg = 0 => arrived[t] = r
    /\ \A t \in In({"poll2"}) : synchronization_controller_out_reg_reg = 0 => arrived[t] = r

\* A call is counted in arrived at its store and in left at its end.
CallsCounted ==
    \A t \in Participants :
       arrived[t] = left[t] + IF pc[t] \in Outside \ WaitReturn THEN 0 ELSE 1

IInv == TypeOK /\ Prepared /\ PollsTracked /\ CallsCounted /\ \E r \in Nat : Meeting(r)

LEMMA InitInductive == Init => IInv
<1> SUFFICES ASSUME Init PROVE IInv
  OBVIOUS
<1>1. Prepared /\ PollsTracked /\ CallsCounted
  BY DEF Init, Prepared, PollsTracked, CallsCounted, In, Outside, WaitReturn
<1>2. Meeting(0)
  <2>1. Met(0) = {}
    BY DEF Met, Init
  <2> QED
    BY <2>1, FS_EmptySet DEF Init, Meeting, In
<1> QED
  BY <1>1, <1>2, InitTypes DEF IInv

LEMMA PollsStep ==
  ASSUME IInv, NEW call, NEW access, Clock(call, access)
  PROVE  PollsTracked'
<1>1. \A t \in Participants : pc'[t] = NextState(t, call, access)
  BY DEF Clock, ParticipantFSMs
<1>2. \A t \in In({"poll1"})' : t \in gnt \cap In({"poll"})
  BY <1>1, FsmEdges DEF In, IInv
<1>3. \A t \in In({"poll2"})' : t \in In({"poll1"})
  BY <1>1, FsmEdges DEF In, IInv
<1>4. \A t \in In({"poll1"})' : t \in dataReady0' /\ 0 \in sync_controller_shiftreg'
  <2> SUFFICES ASSUME NEW t \in In({"poll1"})'
               PROVE  t \in dataReady0' /\ 0 \in sync_controller_shiftreg'
    OBVIOUS
  <2>1. t \in gnt \cap In({"poll"})
    BY <1>2
  <2>2. t \in req_in /\ t \notin In({"arrive"}) /\ t \in In({"poll", "arrive"})
    BY <2>1, GrantOne DEF In
  <2>3. t \in dataReady0'
    BY <2>1, <2>2 DEF Clock, RoutingClock
  <2>4. 0 \in sync_controller_shiftreg'
    BY <2>1 DEF Clock, SyncOutput, BarrierRead
  <2> QED
    BY <2>3, <2>4
<1>5. \A t \in In({"poll2"})' : t \in dataReady1' /\ 1 \in sync_controller_shiftreg'
  <2> SUFFICES ASSUME NEW t \in In({"poll2"})'
               PROVE  t \in dataReady1' /\ 1 \in sync_controller_shiftreg'
    OBVIOUS
  <2>1. t \in dataReady0 /\ 0 \in sync_controller_shiftreg
    BY <1>3 DEF IInv, PollsTracked
  <2> QED
    BY <2>1 DEF Clock, RoutingClock, SyncOutput
<1> QED
  BY <1>4, <1>5 DEF PollsTracked

LEMMA PreparedStep ==
  ASSUME IInv, NEW call \in SUBSET Running, NEW access \in SUBSET Running,
         Clock(call, access)
  PROVE  Prepared'
<1>1. numthreads' = IF main_created' THEN NumParticipants ELSE 0
  BY DEF Clock, OtherFSMs, BarrierCore, BarrierInit, IInv, Prepared, TypeOK
<1>2. ASSUME ~main_created'
      PROVE  barrier_count' = 0 /\ In({"idle"})' = Participants
  <2>1. ~main_created
    BY <1>2 DEF Clock, OtherFSMs
  <2>2. In({"idle"}) = Participants /\ barrier_count = 0 /\ numthreads = 0
    BY <2>1 DEF IInv, Prepared
  <2>3. barrier_count' = 0
    BY <2>2 DEF Clock, BarrierCore, BarrierArrive, In
  <2>4. Running = {}
    BY <2>1 DEF Running
  <2>5. \A t \in Participants : pc'[t] = "idle"
    BY <2>2, <2>4, FsmEdges DEF Clock, ParticipantFSMs, In, IInv
  <2> QED
    BY <2>3, <2>5 DEF In
<1> QED
  BY <1>1, <1>2 DEF Prepared

LEMMA CallsStep ==
  ASSUME IInv, NEW call, NEW access, Clock(call, access)
  PROVE  CallsCounted'
<1> SUFFICES ASSUME NEW t \in Participants
             PROVE  arrived'[t] = left'[t] + IF pc'[t] \in Outside \ WaitReturn THEN 0 ELSE 1
  BY DEF CallsCounted
<1>1. pc'[t] = NextState(t, call, access)
  BY DEF Clock, ParticipantFSMs
<1>2. arrived[t] = left[t] + IF pc[t] \in Outside \ WaitReturn THEN 0 ELSE 1
  BY DEF IInv, CallsCounted
<1>3. arrived'[t] = IF pc[t] = "arrive" /\ t \in gnt THEN arrived[t] + 1 ELSE arrived[t]
  BY DEF Clock, ParticipantFSMs, In
<1>4. left'[t] = IF pc[t] = "wait_finish_reg" THEN left[t] + 1 ELSE left[t]
  BY DEF Clock, ParticipantFSMs
<1>5. arrived[t] \in Nat /\ left[t] \in Nat
  BY DEF IInv, TypeOK
<1>6. pc'[t] \in Outside \ WaitReturn <=>
         \/ pc[t] \in Outside \ (WaitReturn \cup {"arrive"})
         \/ pc[t] = "arrive" /\ t \notin gnt
         \/ pc[t] = "wait_finish_reg"
  BY <1>1, FsmEdges DEF IInv
<1> QED
  BY <1>2, <1>3, <1>4, <1>5, <1>6 DEF Outside, WaitReturn

\* Whoever has left the meeting after an edge, or is about to hear a zero, had
\* come to r meetings before it and does not come to another one in it.
LEMMA AwayStep ==
  ASSUME IInv, NEW call, NEW access, Clock(call, access),
         NEW r \in Nat, Meeting(r), NEW t \in Participants,
         \/ pc'[t] \in Outside
         \/ pc'[t] = "poll1" /\ synchronization_controller_out_reg' = 0
         \/ pc'[t] = "poll2" /\ synchronization_controller_out_reg_reg' = 0
  PROVE  arrived[t] = r /\ arrived'[t] = r
<1>1. pc'[t] = NextState(t, call, access)
  BY DEF Clock, ParticipantFSMs
<1>2. arrived'[t] = IF pc[t] = "arrive" /\ t \in gnt THEN arrived[t] + 1 ELSE arrived[t]
  BY DEF Clock, ParticipantFSMs, In
<1>3. CASE pc'[t] \in Outside
  <2>1. CASE pc[t] \in Outside /\ ~(pc[t] = "arrive" /\ t \in gnt)
    BY <1>2, <2>1 DEF Meeting, In
  <2>2. CASE ~(pc[t] \in Outside /\ ~(pc[t] = "arrive" /\ t \in gnt))
    <3>1. pc[t] = "poll2" /\ memory_controller_out(t, data_from_memory) = 0
      BY <1>1, <1>3, <2>2, FsmEdges DEF IInv, Outside, WaitReturn
    <3>2. t \in dataReady1 /\ 1 \in sync_controller_shiftreg
      BY <3>1 DEF IInv, PollsTracked, In
    <3>3. synchronization_controller_out_reg_reg = 0
      BY <3>1, <3>2 DEF memory_controller_out, data_from_memory
    <3> QED
      BY <1>2, <3>1, <3>3 DEF Meeting, In
  <2> QED
    BY <2>1, <2>2
<1>4. CASE pc'[t] = "poll1" /\ synchronization_controller_out_reg' = 0
  <2>1. pc[t] = "poll" /\ t \in gnt
    BY <1>1, <1>4, FsmEdges DEF IInv
  <2>2. barrier_count = 0
    BY <1>4, <2>1 DEF Clock, SyncOutput, BarrierRead, In
  <2>3. Met(r) = {}
    BY <2>2, FiniteParticipants, FS_EmptySet DEF Meeting, Met
  <2> QED
    BY <1>2, <2>1, <2>3 DEF Meeting, Met
<1>5. CASE pc'[t] = "poll2" /\ synchronization_controller_out_reg_reg' = 0
  <2>1. pc[t] = "poll1"
    BY <1>1, <1>5, FsmEdges DEF IInv
  <2> QED
    BY <1>2, <1>5, <2>1 DEF Clock, SyncOutput, Meeting, In
<1> QED
  BY <1>3, <1>4, <1>5

\* An arrival counts one participant more.
LEMMA ArrivalStep ==
  ASSUME IInv, NEW call, NEW access, Clock(call, access),
         NEW r \in Nat, Meeting(r), BarrierArrive
  PROVE  Meeting(r)'
<1>1. PICK t \in gnt : t \in In({"arrive"})
  BY DEF BarrierArrive
<1>2. t \in Participants /\ \A u \in gnt : u = t
  BY <1>1, GrantOne DEF In, IInv
<1>3. arrived[t] = r
  BY <1>1 DEF Meeting, In, Outside
<1>4. /\ arrived'[t] = r + 1
      /\ \A u \in Participants \ {t} : arrived'[u] = arrived[u]
  BY <1>1, <1>2, <1>3 DEF Clock, ParticipantFSMs
<1>5. Met(r)' = Met(r) \cup {t} /\ t \notin Met(r)
  BY <1>2, <1>3, <1>4 DEF Met
<1>6. barrier_count' = Cardinality(Met(r)')
  <2>1. barrier_count' = barrier_count + 1
    BY DEF Clock, BarrierCore
  <2>2. IsFiniteSet(Met(r))
    BY FiniteParticipants DEF Met
  <2>3. Cardinality(Met(r) \cup {t}) = Cardinality(Met(r)) + 1
    BY <1>5, <2>2, FS_AddElement, Zenon
  <2> QED
    BY <1>5, <2>1, <2>3 DEF Meeting
<1>7. \A u \in Participants : arrived'[u] \in {r, r + 1}
  BY <1>4 DEF Meeting
<1> QED
  BY <1>6, <1>7, AwayStep DEF Meeting, In

\* Without an arrival the meeting goes on, or is complete and the next begins.
LEMMA NoArrivalStep ==
  ASSUME IInv, NEW call, NEW access, Clock(call, access),
         NEW r \in Nat, Meeting(r), ~BarrierArrive
  PROVE  Meeting(r)' \/ Meeting(r + 1)'
<1>1. \A t \in Participants : arrived'[t] = arrived[t]
  BY DEF Clock, ParticipantFSMs, BarrierArrive
<1>2. CASE barrier_count' = barrier_count
  <2>1. Met(r)' = Met(r)
    BY <1>1 DEF Met
  <2>2. barrier_count' = Cardinality(Met(r)')
    BY <1>2, <2>1 DEF Meeting
  <2>3. \A t \in Participants : arrived'[t] \in {r, r + 1}
    BY <1>1 DEF Meeting
  <2>4. Meeting(r)'
    BY <2>2, <2>3, AwayStep DEF Meeting, In
  <2> QED
    BY <2>4
<1>3. CASE barrier_count' # barrier_count
  <2>1. barrier_count = numthreads /\ barrier_count # 0 /\ barrier_count' = 0
    BY <1>3 DEF Clock, BarrierCore
  <2>2. barrier_count = NumParticipants
    BY <2>1 DEF IInv, Prepared
  <2>3. Met(r) = Participants
    BY <2>2, FiniteParticipants DEF Meeting, Met
  <2>4. \A t \in Participants : arrived[t] = r + 1 /\ r + 1 # r /\ r + 1 # (r + 1) + 1
    BY <2>3 DEF Met
  <2>5. Met(r + 1)' = {}
    BY <1>1, <2>4 DEF Met
  <2>6. barrier_count' = Cardinality(Met(r + 1)')
    BY <2>1, <2>5, FS_EmptySet
  <2>7. \A t \in Participants : /\ pc'[t] \notin Outside
                                /\ pc'[t] = "poll1" => synchronization_controller_out_reg' # 0
                                /\ pc'[t] = "poll2" => synchronization_controller_out_reg_reg' # 0
    BY <2>4, AwayStep
  <2> QED
    BY <1>1, <2>4, <2>6, <2>7 DEF Meeting, In
<1> QED
  BY <1>2, <1>3

LEMMA StepInductive == IInv /\ [Next]_vars => IInv'
<1> SUFFICES ASSUME IInv, [Next]_vars PROVE IInv'
  OBVIOUS
<1>1. TypeOK'
  BY TypesStep DEF IInv
<1>2. ASSUME NEW call \in SUBSET Running, NEW access \in SUBSET Running,
             Clock(call, access)
      PROVE  IInv'
  <2>1. PollsTracked' /\ CallsCounted'
    BY <1>2, PollsStep, CallsStep
  <2>2. Prepared'
    BY <1>2, PreparedStep
  <2>3. PICK r \in Nat : Meeting(r)
    BY DEF IInv
  <2>4. Meeting(r)' \/ Meeting(r + 1)'
    BY <1>2, <2>3, ArrivalStep, NoArrivalStep
  <2> QED
    BY <1>1, <2>1, <2>2, <2>4 DEF IInv
<1>3. CASE UNCHANGED vars
  <2>1. PollsTracked' /\ CallsCounted' /\ Prepared'
    BY <1>3 DEF IInv, vars, PollsTracked, CallsCounted, Prepared, In
  <2>2. ASSUME NEW r \in Nat, Meeting(r) PROVE Meeting(r)'
    BY <1>3, <2>2 DEF Meeting, Met, vars, In
  <2> QED
    BY <1>1, <2>1, <2>2 DEF IInv
<1> QED
  BY <1>2, <1>3, NextSplit

\* Nobody returns from a call before everybody has arrived for it.
THEOREM BarrierNoEarlyExit == Spec => []NoEarlyExit
<1>1. IInv => NoEarlyExit
  <2> SUFFICES ASSUME IInv, NEW t \in Participants, NEW u \in Participants
               PROVE  left[t] <= arrived[u]
    BY DEF NoEarlyExit
  <2>1. PICK r \in Nat : Meeting(r)
    BY DEF IInv
  <2>2. r <= arrived[u] /\ arrived[t] <= r + 1 /\ (pc[t] \in Outside => arrived[t] = r)
    BY <2>1 DEF Meeting, In
  <2>3. arrived[t] = left[t] + IF pc[t] \in Outside \ WaitReturn THEN 0 ELSE 1
    BY DEF IInv, CallsCounted
  <2>4. left[t] \in Nat /\ arrived[u] \in Nat /\ arrived[t] \in Nat
    BY DEF IInv, TypeOK
  <2> QED
    BY <2>2, <2>3, <2>4
<1> QED
  BY <1>1, InitInductive, StepInductive, PTL DEF Spec

\* The count of arrivals falls only when everybody has come to the same meeting.
ResetsBetweenMeetings ==
    [][barrier_count' < barrier_count => \A t, u \in Participants : arrived[t] = arrived[u]]_vars

\* At every reset of the core all participants have arrived equally often.
THEOREM BarrierResets == Spec => ResetsBetweenMeetings
<1>1. ASSUME IInv, [Next]_vars, barrier_count' < barrier_count
      PROVE  \A t, u \in Participants : arrived[t] = arrived[u]
  <2>1. PICK r \in Nat : Meeting(r)
    BY <1>1 DEF IInv
  <2>2. PICK call \in SUBSET Running, access \in SUBSET Running : Clock(call, access)
    BY <1>1, NextSplit DEF vars, IInv, TypeOK
  <2>3. barrier_count = NumParticipants
    BY <1>1, <2>2 DEF Clock, BarrierCore, IInv, TypeOK, Prepared
  <2>4. Met(r) = Participants
    BY <2>1, <2>3, FiniteParticipants DEF Meeting, Met
  <2> QED
    BY <2>4 DEF Met
<1> QED
  BY <1>1, InitInductive, StepInductive, PTL DEF Spec, ResetsBetweenMeetings
-----------------------------------------------------------------------------
(* The arbiter's order.                                                    *)

Suffix(k) == k .. (N - 1)

\* rotate_ptr as it will be in the next cycle.
ptr_next == IF grant # {} THEN PtrAfter(grant) ELSE rotate_ptr

\* The ports that come before port j when priority starts at port k, and the
\* port where it starts once g has been served.
Distance(j, k) == IF k <= j THEN j - k ELSE j + N - k
After(g) == IF g = N - 1 THEN 0 ELSE g + 1

LessThan == {ss \in Nat \X Nat : ss[1] < ss[2]}

LEMMA LeastNatural ==
  ASSUME NEW S \in SUBSET Nat, S # {}
  PROVE  \E m \in S : \A n \in S : m <= n
<1>1. IsWellFoundedOn(LessThan, Nat)
  BY NatLessThanWellFounded DEF OpToRel, LessThan
<1>2. PICK m \in S : \A n \in S : <<n, m>> \notin LessThan
  BY <1>1, WFMin
<1>3. ASSUME NEW n \in S PROVE m <= n
  <2>1. <<n, m>> \in Nat \X Nat
    OBVIOUS
  <2>2. ~(n < m)
    BY <1>2, <2>1 DEF LessThan
  <2> QED
    BY <2>2
<1> QED
  BY <1>3

LEMMA LowestBitOfVector ==
  ASSUME NEW v \in SUBSET Ports, v # {}
  PROVE  \E g \in v : LowestBit(v) = {g} /\ \A j \in v : g <= j
<1>1. v \in SUBSET Nat
  BY ArbiterSize DEF Ports
<1>2. PICK g \in v : \A j \in v : g <= j
  BY <1>1, LeastNatural
<1>3. LowestBit(v) = {g}
  <2>1. \A i \in LowestBit(v) : i = g
    BY <1>1, <1>2 DEF LowestBit
  <2>2. g \in LowestBit(v)
    BY <1>2 DEF LowestBit
  <2> QED
    BY <2>1, <2>2
<1> QED
  BY <1>2, <1>3

LEMMA PointerAfterGrant ==
  ASSUME NEW g \in Ports
  PROVE  PtrAfter({g}) = Suffix(After(g)) /\ After(g) \in Ports
<1>1. CASE g = N - 1
  BY <1>1, ArbiterSize DEF PtrAfter, Suffix, Ports, After
<1>2. CASE g # N - 1
  <2>1. PtrAfter({g}) = {i \in Ports : g < i}
    BY <1>2, ArbiterSize DEF PtrAfter, Ports
  <2>2. g \in Nat /\ N \in Nat
    BY ArbiterSize DEF Ports
  <2>3. \A i : i \in PtrAfter({g}) <=> i \in (g + 1) .. (N - 1)
    BY <2>1, <2>2 DEF Ports
  <2>4. After(g) = g + 1 /\ After(g) \in Ports
    BY <1>2, ArbiterSize DEF After, Ports
  <2> QED
    BY <2>3, <2>4 DEF Suffix
<1> QED
  BY <1>1, <1>2

\* The grant goes to the first requester in the order that starts at the pointer.
LEMMA GrantIsNearest ==
  ASSUME NEW req \in SUBSET Ports, NEW i \in req,
         NEW k \in Ports, rotate_ptr = Suffix(k)
  PROVE  \E g \in req : grant_comb(req) = {g} /\ Distance(g, k) <= Distance(i, k)
<1>1. CASE mask_req(req) # {}
  <2>1. PICK g \in mask_req(req) : /\ LowestBit(mask_req(req)) = {g}
                                   /\ \A j \in mask_req(req) : g <= j
    BY <1>1, LowestBitOfVector DEF mask_req
  <2>2. g \in req /\ k <= g
    BY <2>1, ArbiterSize DEF mask_req, Suffix, Ports
  <2>3. i >= k => g <= i
    BY <2>1, ArbiterSize DEF mask_req, Suffix, Ports
  <2>4. Distance(g, k) <= Distance(i, k)
    BY <2>2, <2>3, ArbiterSize DEF Distance, Ports
  <2> QED
    BY <1>1, <2>1, <2>2, <2>4 DEF grant_comb
<1>2. CASE mask_req(req) = {}
  <2>1. PICK g \in req : LowestBit(req) = {g} /\ \A j \in req : g <= j
    BY LowestBitOfVector
  <2>2. g < k /\ i < k
    BY <1>2, <2>1, ArbiterSize DEF mask_req, Suffix, Ports
  <2>3. Distance(g, k) <= Distance(i, k)
    BY <2>1, <2>2, ArbiterSize DEF Distance, Ports
  <2> QED
    BY <1>2, <2>1, <2>3 DEF grant_comb
<1> QED
  BY <1>1, <1>2

-----------------------------------------------------------------------------
(* A poll and an arrival that race.                                        *)

\* With priority starting at k now and at n in the next cycle, port t, which is
\* asking, is served before port u, which does not ask for the next a cycles: t
\* is served within a cycles, or neither order brings u before t then.
InTime(t, u, k, n, a) ==
    \/ 2 * Distance(t, k) <= a
    \/ 2 * Distance(t, n) + 1 <= a
    \/ /\ Distance(u, k) < Distance(t, k) => 2 * Distance(u, k) < a
       /\ Distance(u, n) < Distance(t, n) => 2 * Distance(u, n) + 1 < a

\* Serving g, which came before t, brings t closer; ports that are before t
\* then were before it already, and are closer too.
LEMMA OrderKept ==
  ASSUME NEW g \in Ports, NEW t \in Ports, NEW u \in Ports, NEW k \in Ports,
         g # t, Distance(g, k) <= Distance(t, k)
  PROVE  /\ Distance(t, After(g)) <= Distance(t, k) - 1
         /\ Distance(u, After(g)) < Distance(t, After(g)) =>
               /\ Distance(u, k) < Distance(t, k)
               /\ Distance(u, After(g)) <= Distance(u, k) - 1
BY ArbiterSize DEF Distance, After, Ports

LEMMA DistanceType ==
  ASSUME NEW i \in Ports, NEW k \in Ports
  PROVE  Distance(i, k) \in Nat
BY ArbiterSize DEF Distance, Ports

\* A cycle that serves another port leaves t in time.
LEMMA InTimeStep ==
  ASSUME NEW g \in Ports, NEW t \in Ports, NEW u \in Ports,
         NEW k \in Ports, NEW n \in Ports, NEW a \in Nat, NEW b \in Nat,
         g # t, Distance(g, k) <= Distance(t, k), b >= a - 1,
         InTime(t, u, k, n, a)
  PROVE  InTime(t, u, n, After(g), b)
<1> DEFINE tk == Distance(t, k)
           tn == Distance(t, n)
           tg == Distance(t, After(g))
           uk == Distance(u, k)
           un == Distance(u, n)
           ug == Distance(u, After(g))
<1>1. tk \in Nat /\ tn \in Nat /\ tg \in Nat /\ uk \in Nat /\ un \in Nat /\ ug \in Nat
  BY DistanceType, PointerAfterGrant
<1>2. tg <= tk - 1 /\ (ug < tg => uk < tk /\ ug <= uk - 1)
  BY OrderKept
<1>3. \/ 2 * tk <= a
      \/ 2 * tn + 1 <= a
      \/ (uk < tk => 2 * uk < a) /\ (un < tn => 2 * un + 1 < a)
  BY DEF InTime
<1> HIDE DEF tk, tn, tg, uk, un, ug
<1>4. \/ 2 * tn <= b
      \/ 2 * tg + 1 <= b
      \/ (un < tn => 2 * un < b) /\ (ug < tg => 2 * ug + 1 < b)
  BY <1>1, <1>2, <1>3
<1> QED
  BY <1>4 DEF InTime, tn, tg, un, ug

\* Once u may ask, it is not served before t.
LEMMA InTimeFirst ==
  ASSUME NEW t \in Ports, NEW u \in Ports, NEW k \in Ports, NEW n \in Ports, t # u,
         InTime(t, u, k, n, 0), Distance(u, k) <= Distance(t, k)
  PROVE  FALSE
BY ArbiterSize DEF InTime, Distance, Ports

\* With up to nine ports: u's poll has just been served, so that one order has u
\* last, and u asks again in eight cycles.  Of the other ports at most three come
\* before u in the other order, or at most three before t in the first.
LEMMA InTimeFromPoll ==
  ASSUME N <= 9, NEW t \in Ports, NEW u \in Ports, NEW n \in Ports, t # u
  PROVE  InTime(t, u, n, After(u), 7)
BY ArbiterSize DEF InTime, Distance, After, Ports

\* The same when t's last poll was served just before u's, a cycle later.
LEMMA InTimeFromEarlierPoll ==
  ASSUME N <= 9, NEW t \in Ports, NEW u \in Ports, NEW m \in Ports, t # u,
         m = After(u) \/ \E g \in Ports : g # t /\ m = After(g)
  PROVE  InTime(t, u, After(u), m, 6)
BY ArbiterSize DEF InTime, Distance, After, Ports

-----------------------------------------------------------------------------
(* Nobody is overtaken.                                                    *)

OneGrant == grant = {} \/ \E g \in Ports : grant = {g}

\* Priority starts at k now and at n in the next cycle; polls leave their mark.
Pointers(k, n) ==
    /\ rotate_ptr = Suffix(k) /\ ptr_next = Suffix(n)
    /\ \A t \in In({"poll1"}) : n = After(t)
    /\ \A t \in In({"poll2"}) : k = After(t)

\* Who has just arrived has come to the meeting after the r-th.
JustArrived(r) == \A t \in In({"gap"}) : arrived[t] = r + 1

\* Those who have come to the r-th meeting and still have to poll for it.
Behind(r) ==
    {t \in Participants :
        /\ arrived[t] = r
        /\ \/ pc[t] = "poll"
           \/ pc[t] = "poll1" /\ synchronization_controller_out_reg # 0
           \/ pc[t] = "poll2" /\ synchronization_controller_out_reg_reg # 0}

\* The cycles until a participant that has heard a zero can arrive again.
Away(s) ==
    CASE s = "poll1" -> 7 [] s = "poll2" -> 6
      [] s = "wait_ret" -> 5 [] s = "wait_finish" -> 4 [] s = "wait_finish_reg" -> 3
      [] s = "idle_access" -> 3 [] s = "idle" -> 2 [] s = "wait_start" -> 1
      [] s = "arrive" -> 0

Leaving == {"poll1", "poll2"} \cup Outside

Ahead(t, u, k, n) ==
    \/ pc[t] = "poll" /\ InTime(t, u, k, n, Away(pc[u]))
    \/ pc[t] = "poll2" /\ pc[u] = "poll1"

\* While somebody is behind, nobody comes to the next meeting, and those who are
\* ahead come too late to be served first.
Window(r, k, n) ==
    \A t \in Behind(r) :
       /\ \A u \in Participants : arrived[u] = r
       /\ \A u \in Participants \ Behind(r) : Ahead(t, u, k, n)

Safe ==
    /\ OneGrant
    /\ \E r \in Nat, k \in Ports, n \in Ports :
          Meeting(r) /\ JustArrived(r) /\ Pointers(k, n) /\ Window(r, k, n)

\* The edges of the loop of polls.
LEMMA PollEdges ==
  ASSUME TypeOK, PollsTracked, NEW t \in Participants, NEW call, NEW access
  PROVE
    LET new == NextState(t, call, access)
    IN  /\ new = "gap" <=> pc[t] = "arrive" /\ t \in gnt
        /\ new = "poll1" <=> pc[t] = "poll" /\ t \in gnt
        /\ new = "poll2" <=> pc[t] = "poll1"
        /\ new = "poll" <=> \/ pc[t] = "gap"
                            \/ pc[t] = "poll" /\ t \notin gnt
                            \/ pc[t] = "poll2" /\ synchronization_controller_out_reg_reg # 0
<1>1. pc[t] \in States
  BY DEF TypeOK
<1>2. t \in Stalled <=> pc[t] \in {"idle_access", "arrive", "poll"} /\ t \notin gnt
  BY DEF Stalled, req_in, In, Others, TypeOK
<1>3. pc[t] = "poll2" =>
         memory_controller_out(t, data_from_memory) = synchronization_controller_out_reg_reg
  BY DEF PollsTracked, In, memory_controller_out, data_from_memory
<1>4. CASE t \in Stalled
  BY <1>1, <1>2, <1>4 DEF NextState, States, WaitReturn
<1>5. CASE t \notin Stalled
  BY <1>1, <1>2, <1>3, <1>5 DEF NextState, States, WaitReturn
<1> QED
  BY <1>4, <1>5

\* Each cycle brings a participant at most one closer to its arrival.
LEMMA AwayEdge ==
  ASSUME TypeOK, PollsTracked, NEW u \in Participants, NEW call, NEW access,
         pc[u] \in Leaving,
         pc[u] = "poll2" => synchronization_controller_out_reg_reg = 0,
         ~(pc[u] = "arrive" /\ u \in gnt)
  PROVE  /\ Away(pc[u]) \in Nat /\ Away(NextState(u, call, access)) \in Nat
         /\ Away(NextState(u, call, access)) >= Away(pc[u]) - 1
<1>1. u \in Stalled <=> pc[u] \in {"idle_access", "arrive", "poll"} /\ u \notin gnt
  BY DEF Stalled, req_in, In, Others, TypeOK
<1>2. pc[u] = "poll2" =>
         memory_controller_out(u, data_from_memory) = synchronization_controller_out_reg_reg
  BY DEF PollsTracked, In, memory_controller_out, data_from_memory
<1> DEFINE new == NextState(u, call, access)
<1>3. pc[u] \in {"poll1", "poll2", "wait_ret", "wait_finish", "wait_finish_reg",
                 "idle_access", "idle", "wait_start", "arrive"}
  BY DEF Leaving, Outside, WaitReturn
<1>4. \/ new = pc[u]
      \/ pc[u] = "poll1" /\ new = "poll2"
      \/ pc[u] = "poll2" /\ new = "wait_ret"
      \/ pc[u] = "wait_ret" /\ new = "wait_finish"
      \/ pc[u] = "wait_finish" /\ new = "wait_finish_reg"
      \/ pc[u] = "wait_finish_reg" /\ new = "idle"
      \/ pc[u] = "idle_access" /\ new = "idle"
      \/ pc[u] = "idle" /\ new \in {"wait_start", "idle_access"}
      \/ pc[u] = "wait_start" /\ new = "arrive"
  <2>1. CASE u \in Stalled
    BY <1>1, <2>1 DEF NextState
  <2>2. CASE u \notin Stalled
    <3>1. CASE pc[u] \in {"poll1", "poll2"}
      BY <1>1, <1>2, <2>2, <3>1 DEF NextState
    <3>2. CASE pc[u] \in {"wait_ret", "wait_finish", "wait_finish_reg"}
      BY <1>1, <2>2, <3>2 DEF NextState
    <3>3. CASE pc[u] \in {"idle_access", "wait_start", "arrive"}
      BY <1>1, <2>2, <3>3 DEF NextState
    <3>4. CASE pc[u] = "idle"
      BY <2>2, <3>4 DEF NextState
    <3> QED
      BY <1>3, <3>1, <3>2, <3>3, <3>4
  <2> QED
    BY <2>1, <2>2
<1> HIDE DEF new
<1>5. Away(pc[u]) \in Nat /\ Away(new) \in Nat /\ Away(new) >= Away(pc[u]) - 1
  BY <1>3, <1>4 DEF Away
<1> QED
  BY <1>5 DEF new

\* The port that is served in a cycle.
Served(g, k) ==
    /\ g \in req_in /\ gnt = {g}
    /\ \A i \in req_in : Distance(g, k) <= Distance(i, k)

\* A clock edge moves the priority behind the port that was served.
LEMMA PointersStep ==
  ASSUME IInv, OneGrant, NEW call, NEW access, Clock(call, access),
         NEW k \in Ports, NEW n \in Ports, Pointers(k, n)
  PROVE  /\ OneGrant'
         /\ \E m \in Ports : /\ Pointers(n, m)'
                             /\ \/ req_in = {} /\ m = n
                                \/ \E g \in Ports : Served(g, k) /\ m = After(g)
<1>1. req_in \subseteq Ports /\ TypeOK /\ PollsTracked
  BY ParticipantsAssumption DEF IInv, req_in, In, Others, TypeOK
<1>2. gnt = grant_comb(req_in)
  BY DEF gnt, grant_final
<1>3. rotate_ptr = Suffix(k) /\ ptr_next = Suffix(n)
  BY DEF Pointers
<1>4. rotate_ptr' = Suffix(n) /\ grant' = gnt \ grant
  BY <1>2, <1>3 DEF Clock, ArbiterClock, ptr_next
<1>5. \A t \in Participants : pc'[t] = NextState(t, call, access)
  BY DEF Clock, ParticipantFSMs
<1>6. \A t \in In({"poll2"})' : n = After(t)
  BY <1>1, <1>5, PollEdges DEF In, Pointers
<1>7. \A t \in In({"poll1"})' : t \in gnt
  BY <1>1, <1>5, PollEdges DEF In
<1>8. CASE req_in = {}
  <2>1. gnt = {}
    BY <1>8, GrantOne
  <2>2. grant' = {} /\ ptr_next' = Suffix(n)
    BY <1>4, <2>1 DEF ptr_next
  <2>3. Pointers(n, n)'
    BY <1>4, <1>6, <1>7, <2>1, <2>2 DEF Pointers, Suffix, After
  <2> QED
    BY <1>8, <2>2, <2>3 DEF OneGrant
<1>9. CASE req_in # {}
  <2>1. PICK g \in req_in : gnt = {g}
    BY <1>1, <1>2, <1>3, <1>9, GrantIsNearest
  <2>2. \A i \in req_in : Distance(g, k) <= Distance(i, k)
    <3>1. \A i \in req_in : \E h \in req_in :
             grant_comb(req_in) = {h} /\ Distance(h, k) <= Distance(i, k)
      BY <1>1, <1>3, GrantIsNearest
    <3> QED
      BY <1>2, <2>1, <3>1
  <2>3. g \in Ports /\ PtrAfter({g}) = Suffix(After(g)) /\ After(g) \in Ports
    BY <1>1, <2>1, PointerAfterGrant
  <2>4. OneGrant' /\ ptr_next' = Suffix(After(g))
    <3>1. CASE grant = {g}
      <4>1. grant' = {} /\ Suffix(n) = Suffix(After(g))
        BY <1>3, <1>4, <2>1, <2>3, <3>1 DEF ptr_next
      <4> QED
        BY <1>4, <4>1 DEF OneGrant, ptr_next
    <3>2. CASE grant # {g}
      <4>1. grant' = {g}
        BY <1>4, <2>1, <3>2 DEF OneGrant
      <4>2. ptr_next' = PtrAfter({g})
        BY <4>1 DEF ptr_next, PtrAfter, Ports
      <4> QED
        BY <2>3, <4>1, <4>2 DEF OneGrant
    <3> QED
      BY <3>1, <3>2
  <2>5. Pointers(n, After(g))'
    BY <1>4, <1>6, <1>7, <2>1, <2>4 DEF Pointers, Suffix, After
  <2>6. Served(g, k)
    BY <2>1, <2>2 DEF Served
  <2> QED
    BY <2>3, <2>4, <2>5, <2>6
<1> QED
  BY <1>8, <1>9

\* The words of the polls, one edge at a time.
LEMMA HeardEdge ==
  ASSUME IInv, NEW call, NEW access, Clock(call, access)
  PROVE  /\ TypeOK /\ PollsTracked
         /\ \A t \in Participants : pc'[t] = NextState(t, call, access)
         /\ \A t \in Participants :
               arrived'[t] = IF pc[t] = "arrive" /\ t \in gnt THEN arrived[t] + 1
                             ELSE arrived[t]
         /\ synchronization_controller_out_reg' # 0 => barrier_count # 0
         /\ synchronization_controller_out_reg_reg' = synchronization_controller_out_reg
BY DEF IInv, Clock, ParticipantFSMs, SyncOutput, In

\* Nobody falls behind once the meeting is complete.
LEMMA BehindBefore ==
  ASSUME IInv, NEW call, NEW access, Clock(call, access),
         NEW r \in Nat, Meeting(r), JustArrived(r), NEW k \in Ports, NEW n \in Ports,
         Window(r, k, n), NEW t \in Behind(r)'
  PROVE  /\ t \in Behind(r) /\ t \notin gnt
         /\ pc'[t] = IF pc[t] = "poll1" THEN "poll2" ELSE "poll"
<1>1. /\ TypeOK /\ PollsTracked /\ t \in Participants
      /\ pc'[t] = NextState(t, call, access)
      /\ arrived'[t] = IF pc[t] = "arrive" /\ t \in gnt THEN arrived[t] + 1 ELSE arrived[t]
      /\ synchronization_controller_out_reg' # 0 => barrier_count # 0
      /\ synchronization_controller_out_reg_reg' = synchronization_controller_out_reg
  BY HeardEdge DEF Behind
<1>2. /\ arrived'[t] = r
      /\ \/ pc'[t] = "poll"
         \/ pc'[t] = "poll1" /\ synchronization_controller_out_reg' # 0
         \/ pc'[t] = "poll2" /\ synchronization_controller_out_reg_reg' # 0
  BY DEF Behind
<1>3. arrived[t] = r
  <2>1. arrived[t] = r \/ arrived[t] = r + 1
    BY <1>1 DEF Meeting
  <2>2. arrived'[t] = arrived[t] \/ arrived'[t] = arrived[t] + 1
    BY <1>1
  <2> QED
    BY <1>2, <2>1, <2>2
<1>4. /\ pc'[t] = "poll1" <=> pc[t] = "poll" /\ t \in gnt
      /\ pc'[t] = "poll2" <=> pc[t] = "poll1"
      /\ pc'[t] = "poll" <=> \/ pc[t] = "gap"
                             \/ pc[t] = "poll" /\ t \notin gnt
                             \/ pc[t] = "poll2" /\ synchronization_controller_out_reg_reg # 0
  BY <1>1, PollEdges
<1>5. pc[t] # "gap"
  <2>1. pc[t] = "gap" => arrived[t] = r + 1
    BY <1>1 DEF JustArrived, In
  <2> QED
    BY <1>3, <2>1
<1>6. CASE pc'[t] = "poll1"
  <2>1. pc[t] = "poll" /\ barrier_count # 0
    BY <1>1, <1>2, <1>4, <1>6
  <2>2. t \in Behind(r)
    BY <1>1, <1>3, <2>1 DEF Behind
  <2>3. \A u \in Participants : arrived[u] = r
    BY <2>2 DEF Window
  <2>4. Met(r) = {}
    BY <2>3 DEF Met
  <2>5. barrier_count = 0
    BY <2>4, FS_EmptySet DEF Meeting
  <2> QED
    BY <2>1, <2>5
<1>7. CASE pc'[t] = "poll2"
  <2>1. pc[t] = "poll1" /\ synchronization_controller_out_reg # 0
    BY <1>1, <1>2, <1>4, <1>7
  <2>2. t \notin gnt
    BY <2>1, GrantOne, <1>1, ParticipantsAssumption DEF req_in, In, TypeOK, Others
  <2> QED
    BY <1>1, <1>3, <1>7, <2>1, <2>2 DEF Behind
<1>8. CASE pc'[t] = "poll"
  <2>1. \/ pc[t] = "poll" /\ t \notin gnt
        \/ pc[t] = "poll2" /\ synchronization_controller_out_reg_reg # 0
    BY <1>4, <1>5, <1>8
  <2>2. t \notin gnt
    BY <2>1, GrantOne, <1>1, ParticipantsAssumption DEF req_in, In, TypeOK, Others
  <2> QED
    BY <1>1, <1>3, <1>8, <2>1, <2>2 DEF Behind
<1> QED
  BY <1>2, <1>6, <1>7, <1>8

\* While somebody is behind, no arrival is served.
LEMMA NobodyArrives ==
  ASSUME IInv, NEW r \in Nat, NEW k \in Ports, NEW n \in Ports,
         Window(r, k, n), NEW t \in Behind(r), NEW u \in Participants,
         pc[u] = "arrive", u \in gnt,
         NEW g \in Ports, Served(g, k)
  PROVE  FALSE
<1>1. u = g /\ t \in Participants /\ t # u /\ t \in Ports /\ u \in Ports
  BY ParticipantsAssumption DEF Served, Behind
<1>2. pc[t] = "poll" /\ InTime(t, u, k, n, Away(pc[u]))
  <2>1. u \notin Behind(r)
    BY DEF Behind
  <2> QED
    BY <2>1 DEF Window, Ahead
<1>3. Away(pc[u]) = 0
  BY DEF Away
<1>4. t \in req_in
  BY <1>1, <1>2 DEF req_in, In
<1>5. Distance(u, k) <= Distance(t, k)
  BY <1>1, <1>4 DEF Served
<1> QED
  BY <1>1, <1>2, <1>3, <1>5, InTimeFirst

\* Whoever is ahead after an edge was behind and has just polled, or was ahead.
LEMMA AheadBefore ==
  ASSUME IInv, NEW call, NEW access, Clock(call, access),
         NEW r \in Nat, Meeting(r), JustArrived(r), NEW k \in Ports, NEW n \in Ports,
         Window(r, k, n), NEW t \in Behind(r),
         NEW u \in Participants, u \notin Behind(r)', ~(pc[u] = "arrive" /\ u \in gnt)
  PROVE  \/ pc[u] = "poll" /\ u \in gnt /\ pc'[u] = "poll1"
         \/ /\ u \notin Behind(r)
            /\ pc[u] \in Leaving
            /\ pc[u] = "poll2" => synchronization_controller_out_reg_reg = 0
<1>1. /\ TypeOK /\ PollsTracked
      /\ pc'[u] = NextState(u, call, access)
      /\ arrived'[u] = IF pc[u] = "arrive" /\ u \in gnt THEN arrived[u] + 1 ELSE arrived[u]
      /\ synchronization_controller_out_reg_reg' = synchronization_controller_out_reg
  BY HeardEdge
<1>2. arrived[u] = r /\ arrived'[u] = r
  BY <1>1 DEF Window
<1>3. /\ pc'[u] = "poll1" <=> pc[u] = "poll" /\ u \in gnt
      /\ pc'[u] = "poll2" <=> pc[u] = "poll1"
      /\ pc'[u] = "poll" <=> \/ pc[u] = "gap"
                             \/ pc[u] = "poll" /\ u \notin gnt
                             \/ pc[u] = "poll2" /\ synchronization_controller_out_reg_reg # 0
  BY <1>1, PollEdges
<1>4. /\ pc'[u] # "poll"
      /\ pc'[u] = "poll2" => synchronization_controller_out_reg = 0
  BY <1>1, <1>2 DEF Behind
<1>5. CASE pc[u] = "poll"
  BY <1>3, <1>4, <1>5
<1>6. CASE pc[u] # "poll"
  <2>1. /\ pc[u] # "gap"
        /\ pc[u] = "poll1" => synchronization_controller_out_reg = 0
        /\ pc[u] = "poll2" => synchronization_controller_out_reg_reg = 0
    BY <1>3, <1>4
  <2>2. u \notin Behind(r)
    BY <1>6, <2>1 DEF Behind
  <2>3. pc[u] \in Leaving
    BY <1>1, <1>6, <2>1 DEF TypeOK, States, Leaving, Outside
  <2> QED
    BY <2>1, <2>2, <2>3
<1> QED
  BY <1>5, <1>6

\* Where the priority goes in a cycle.
Moved(k, n, m) ==
    \/ req_in = {} /\ m = n
    \/ \E g \in Ports : Served(g, k) /\ m = After(g)

\* An edge leaves those who are ahead too late.
LEMMA AheadStep ==
  ASSUME N <= 9, IInv, NEW call, NEW access, Clock(call, access),
         NEW r \in Nat, Meeting(r), JustArrived(r),
         NEW k \in Ports, NEW n \in Ports, NEW m \in Ports,
         Pointers(k, n), Window(r, k, n), Moved(k, n, m),
         NEW t \in Behind(r)', NEW u \in Participants, u \notin Behind(r)',
         ~(pc[u] = "arrive" /\ u \in gnt)
  PROVE  \/ pc'[t] = "poll" /\ InTime(t, u, n, m, Away(pc'[u]))
         \/ pc'[t] = "poll2" /\ pc'[u] = "poll1"
<1>1. /\ t \in Behind(r) /\ t \notin gnt
      /\ pc'[t] = IF pc[t] = "poll1" THEN "poll2" ELSE "poll"
  BY BehindBefore
<1>2. /\ t \in Participants /\ t \in Ports /\ u \in Ports /\ t # u
      /\ TypeOK /\ PollsTracked
  BY HeardEdge, ParticipantsAssumption DEF Behind
<1>3. pc'[u] = NextState(u, call, access)
  BY HeardEdge
<1>4. \/ pc[u] = "poll" /\ u \in gnt /\ pc'[u] = "poll1"
      \/ /\ u \notin Behind(r)
         /\ pc[u] \in Leaving
         /\ pc[u] = "poll2" => synchronization_controller_out_reg_reg = 0
  BY <1>1, AheadBefore
<1>5. CASE pc[u] = "poll" /\ u \in gnt /\ pc'[u] = "poll1"
  <2>1. CASE pc[t] = "poll1"
    BY <1>1, <1>5, <2>1
  <2>2. CASE pc[t] # "poll1"
    <3>1. m = After(u)
      BY <1>5, GrantOne DEF Moved, Served
    <3>2. Away(pc'[u]) = 7
      BY <1>5 DEF Away
    <3>3. InTime(t, u, n, m, Away(pc'[u]))
      BY <1>2, <3>1, <3>2, InTimeFromPoll
    <3> QED
      BY <1>1, <2>2, <3>3
  <2> QED
    BY <2>1, <2>2
<1>6. CASE /\ u \notin Behind(r)
           /\ pc[u] \in Leaving
           /\ pc[u] = "poll2" => synchronization_controller_out_reg_reg = 0
  <2>1. Ahead(t, u, k, n)
    BY <1>1, <1>6 DEF Window
  <2>2. CASE pc[t] = "poll" /\ InTime(t, u, k, n, Away(pc[u]))
    <3>1. t \in req_in
      BY <1>2, <2>2 DEF req_in, In
    <3>2. PICK g \in Ports : Served(g, k) /\ m = After(g)
      BY <3>1 DEF Moved
    <3>3. g # t /\ Distance(g, k) <= Distance(t, k)
      BY <1>1, <3>1, <3>2 DEF Served
    <3>4. /\ Away(pc[u]) \in Nat /\ Away(pc'[u]) \in Nat
          /\ Away(pc'[u]) >= Away(pc[u]) - 1
      BY <1>2, <1>3, <1>6, AwayEdge
    <3>5. InTime(t, u, n, After(g), Away(pc'[u]))
      BY <1>2, <2>2, <3>2, <3>3, <3>4, InTimeStep
    <3> QED
      BY <1>1, <2>2, <3>2, <3>5
  <2>3. CASE pc[t] = "poll2" /\ pc[u] = "poll1"
    <3>1. k = After(t) /\ n = After(u)
      BY <1>2, <2>3 DEF Pointers, In
    <3>2. pc'[u] = "poll2"
      BY <1>2, <1>3, <2>3, PollEdges
    <3>3. Away(pc'[u]) = 6
      BY <3>2 DEF Away
    <3>4. m = After(u) \/ \E g \in Ports : g # t /\ m = After(g)
      BY <1>1, <3>1 DEF Moved, Served
    <3>5. InTime(t, u, n, m, Away(pc'[u]))
      BY <1>2, <3>1, <3>3, <3>4, InTimeFromEarlierPoll
    <3> QED
      BY <1>1, <2>3, <3>5
  <2> QED
    BY <2>1, <2>2, <2>3 DEF Ahead
<1> QED
  BY <1>4, <1>5, <1>6

\* While the meeting goes on.
LEMMA WindowStep ==
  ASSUME N <= 9, IInv, NEW call, NEW access, Clock(call, access),
         NEW r \in Nat, Meeting(r), JustArrived(r),
         NEW k \in Ports, NEW n \in Ports, NEW m \in Ports,
         Pointers(k, n), Window(r, k, n), Moved(k, n, m)
  PROVE  JustArrived(r)' /\ Window(r, n, m)'
<1>1. JustArrived(r)'
  <2> SUFFICES ASSUME NEW t \in In({"gap"})' PROVE arrived'[t] = r + 1
    BY DEF JustArrived
  <2>1. t \in Participants /\ pc'[t] = "gap"
    BY DEF In
  <2>2. pc[t] = "arrive" /\ t \in gnt
    BY <2>1, HeardEdge, PollEdges
  <2>3. arrived[t] = r
    BY <2>1, <2>2 DEF Meeting, In, Outside
  <2> QED
    BY <2>1, <2>2, <2>3, HeardEdge
<1>2. ASSUME NEW t \in Behind(r)'
      PROVE  /\ \A u \in Participants : arrived'[u] = r
             /\ \A u \in Participants \ Behind(r)' :
                   \/ pc'[t] = "poll" /\ InTime(t, u, n, m, Away(pc'[u]))
                   \/ pc'[t] = "poll2" /\ pc'[u] = "poll1"
  <2>1. t \in Behind(r)
    BY BehindBefore
  <2>2. ASSUME NEW u \in Participants, pc[u] = "arrive", u \in gnt PROVE FALSE
    <3>1. u \in req_in
      BY <2>2, GrantOne
    <3>2. PICK g \in Ports : Served(g, k)
      BY <3>1 DEF Moved
    <3> QED
      BY <2>1, <2>2, <3>2, NobodyArrives
  <2>3. \A u \in Participants : arrived'[u] = arrived[u] /\ arrived[u] = r
    BY <2>1, <2>2, HeardEdge DEF Window
  <2>4. ASSUME NEW u \in Participants, u \notin Behind(r)'
        PROVE  \/ pc'[t] = "poll" /\ InTime(t, u, n, m, Away(pc'[u]))
               \/ pc'[t] = "poll2" /\ pc'[u] = "poll1"
    BY <2>2, <2>4, AheadStep
  <2> QED
    BY <2>3, <2>4
<1>3. Window(r, n, m)'
  BY <1>2 DEF Window, Ahead, InTime, Distance, Away
<1> QED
  BY <1>1, <1>3

\* When the meeting is complete everybody still has to poll.
LEMMA WindowOpens ==
  ASSUME IInv, NEW call, NEW access, Clock(call, access),
         NEW r \in Nat, Meeting(r), ~BarrierArrive, Meeting(r + 1)',
         NEW n \in Ports, NEW m \in Ports
  PROVE  JustArrived(r + 1)' /\ Window(r + 1, n, m)'
<1>1. ASSUME NEW t \in Participants
      PROVE  arrived'[t] = r + 1 /\ arrived[t] = r + 1 /\ pc'[t] # "gap"
  <2>1. ~(pc[t] = "arrive" /\ t \in gnt)
    BY DEF BarrierArrive, In
  <2>2. arrived'[t] = arrived[t] /\ pc'[t] # "gap"
    BY <2>1, HeardEdge, PollEdges
  <2>3. arrived[t] \in {r, r + 1} /\ arrived'[t] \in {r + 1, (r + 1) + 1}
    BY DEF Meeting
  <2> QED
    BY <2>2, <2>3
<1>2. ASSUME NEW t \in Participants PROVE t \in Behind(r + 1)'
  <2>1. /\ pc'[t] \notin Outside
        /\ pc'[t] = "poll1" => synchronization_controller_out_reg' # 0
        /\ pc'[t] = "poll2" => synchronization_controller_out_reg_reg' # 0
    BY <1>1, AwayStep
  <2>2. pc'[t] \in States
    BY HeardEdge, FsmEdges
  <2> QED
    BY <1>1, <2>1, <2>2 DEF Behind, States, Outside, WaitReturn
<1>3. JustArrived(r + 1)'
  BY <1>1 DEF JustArrived, In
<1>4. Window(r + 1, n, m)'
  BY <1>1, <1>2 DEF Window
<1> QED
  BY <1>3, <1>4

LEMMA SafeInit == Init => Safe
<1> SUFFICES ASSUME Init PROVE Safe
  OBVIOUS
<1>1. 0 \in Nat /\ 0 \in Ports /\ Ports = Suffix(0)
  BY ArbiterSize DEF Ports, Suffix
<1>2. \A t \in Participants : pc[t] = "idle" /\ arrived[t] = 0
  BY DEF Init
<1>3. Meeting(0)
  <2>1. Met(0) = {}
    BY <1>2 DEF Met
  <2> QED
    BY <2>1, FS_EmptySet DEF Init, Meeting, In
<1>4. OneGrant /\ Pointers(0, 0)
  BY <1>1, <1>2 DEF Init, ArbiterReset, OneGrant, Pointers, ptr_next, In
<1>5. JustArrived(0) /\ Window(0, 0, 0)
  BY <1>2 DEF JustArrived, Window, Behind, In
<1> QED
  BY <1>1, <1>3, <1>4, <1>5 DEF Safe

LEMMA SafeStep ==
  ASSUME N <= 9, IInv, Safe, [Next]_vars
  PROVE  Safe'
<1>1. OneGrant
  BY DEF Safe
<1>2. PICK r \in Nat, k \in Ports, n \in Ports :
         Meeting(r) /\ JustArrived(r) /\ Pointers(k, n) /\ Window(r, k, n)
  BY DEF Safe
<1>3. ASSUME NEW call \in SUBSET Running, NEW access \in SUBSET Running,
             Clock(call, access)
      PROVE  Safe'
  <2>1. OneGrant' /\ \E m \in Ports : Pointers(n, m)' /\ Moved(k, n, m)
    <3>1. /\ OneGrant'
          /\ \E m \in Ports : /\ Pointers(n, m)'
                              /\ \/ req_in = {} /\ m = n
                                 \/ \E g \in Ports : Served(g, k) /\ m = After(g)
      BY <1>1, <1>2, <1>3, PointersStep
    <3> QED
      BY <3>1 DEF Moved
  <2>2. PICK m \in Ports : Pointers(n, m)' /\ Moved(k, n, m)
    BY <2>1
  <2>3. CASE Meeting(r)'
    <3>1. JustArrived(r)' /\ Window(r, n, m)'
      BY <1>2, <1>3, <2>2, WindowStep
    <3> QED
      BY <2>1, <2>2, <2>3, <3>1 DEF Safe
  <2>4. CASE ~BarrierArrive /\ Meeting(r + 1)'
    <3>1. JustArrived(r + 1)' /\ Window(r + 1, n, m)'
      BY <1>2, <1>3, <2>4, WindowOpens
    <3>2. r + 1 \in Nat
      OBVIOUS
    <3> QED
      BY <2>1, <2>2, <2>4, <3>1, <3>2 DEF Safe
  <2> QED
    BY <1>2, <1>3, <2>3, <2>4, ArrivalStep, NoArrivalStep
<1>4. CASE UNCHANGED vars
  <2>1. OneGrant' /\ Pointers(k, n)'
    BY <1>1, <1>2, <1>4 DEF vars, OneGrant, Pointers, ptr_next, In
  <2>2. Meeting(r)' /\ JustArrived(r)'
    BY <1>2, <1>4 DEF vars, Meeting, Met, JustArrived, In
  <2>3. Behind(r)' = Behind(r)
    BY <1>4 DEF vars, Behind
  <2>4. \A t, u : Ahead(t, u, k, n)' <=> Ahead(t, u, k, n)
    BY <1>4 DEF vars, Ahead, Away, InTime, Distance
  <2>5. Window(r, k, n)'
    BY <1>2, <1>4, <2>3, <2>4 DEF vars, Window
  <2> QED
    BY <2>1, <2>2, <2>5 DEF Safe
<1> QED
  BY <1>3, <1>4, NextSplit

\* With up to nine requesters at its arbiter nobody can come back to the barrier
\* before everybody has heard that the last meeting is complete, which
\* legup_barrier_wait takes for granted; with ten it can happen.
THEOREM BarrierNobodyOvertaken == N <= 9 => (Spec => []NobodyOvertaken)
<1>1. IInv /\ Safe => NobodyOvertaken
  <2> SUFFICES ASSUME IInv, Safe, NEW t \in Participants, NEW u \in Participants,
                      t \in In({"gap", "poll"})
               PROVE  arrived[u] <= arrived[t]
    BY DEF NobodyOvertaken
  <2>1. PICK r \in Nat, k \in Ports, n \in Ports :
           Meeting(r) /\ JustArrived(r) /\ Window(r, k, n)
    BY DEF Safe
  <2>2. arrived[t] \in {r, r + 1} /\ arrived[u] \in {r, r + 1}
    BY <2>1 DEF Meeting
  <2>3. CASE arrived[t] = r + 1
    BY <2>2, <2>3
  <2>4. CASE arrived[t] = r
    <3>1. pc[t] = "poll"
      BY <2>1, <2>4 DEF JustArrived, In
    <3>2. t \in Behind(r)
      BY <2>4, <3>1 DEF Behind
    <3>3. arrived[u] = r
      BY <2>1, <3>2 DEF Window
    <3> QED
      BY <2>4, <3>3
  <2> QED
    BY <2>2, <2>3, <2>4
<1> SUFFICES ASSUME N <= 9 PROVE Spec => []NobodyOvertaken
  OBVIOUS
<1>2. IInv /\ Safe /\ [Next]_vars => Safe'
  BY SafeStep
<1> QED
  BY <1>1, <1>2, InitInductive, StepInductive, SafeInit, PTL DEF Spec
=============================================================================
