----------------------------- MODULE LockProofs -----------------------------
(***************************************************************************)
(* For every number of threads and lock cores: the types of LockSystem,    *)
(* mutual exclusion, that no lock is lost between the core and the thread  *)
(* that polled it, and, from the invariant that says who has a lock in     *)
(* every cycle, that each clock edge is a step of the abstract Mutex.      *)
(***************************************************************************)
EXTENDS LockSystem, TLAPS

\* The arbiter grants at most one request, and only a request.
LEMMA GrantOne ==
  /\ gnt \subseteq req_in
  /\ TypeOK => \A g, h \in gnt : g = h
<1>1. gnt \subseteq req_in
  BY DEF gnt, grant_final, grant_comb, mask_req, LowestBit
<1>2. ASSUME TypeOK, NEW g \in gnt, NEW h \in gnt PROVE g = h
  <2>1. req_in \subseteq Nat
    BY ArbiterSize DEF req_in, In, Threads, Ports
  <2>2. g \in req_in /\ h \in req_in
    BY <1>1
  <2>3. g <= h /\ h <= g
    BY DEF gnt, grant_final, grant_comb, mask_req, LowestBit
  <2> QED
    BY <2>1, <2>2, <2>3
<1> QED
  BY <1>1, <1>2

\* A thread is stalled in a state with an access that is not granted.
LEMMA StalledThread ==
  ASSUME TypeOK, NEW t \in Threads
  PROVE  t \in Stalled <=> /\ pc[t] \in Accessing \cup {"poll", "release"}
                           /\ t \notin gnt
<1>1. t # 0
  BY DEF Threads
<1> QED
  BY <1>1 DEF Stalled, req_in, In

\* The FSM edges that the proofs need, one thread at a time.
LEMMA FsmEdges ==
  ASSUME TypeOK, NEW t \in Threads, NEW call, NEW access
  PROVE
    LET new == NextState(t, call, access)
        heard == memory_controller_out(t, data_from_memory)
    IN  /\ new \in States
        /\ new = "poll1" <=> pc[t] = "poll" /\ t \in gnt
        /\ new = "poll2" <=> pc[t] = "poll1"
        /\ new = "lock_ret" <=> pc[t] = "poll2" /\ heard # 0
        /\ new \in Holding \ {"lock_ret"} <=>
              pc[t] \in Holding /\ ~(pc[t] = "release" /\ t \in gnt)
<1>1. pc[t] \in States
  BY DEF TypeOK
<1>2. t \in Stalled <=> /\ pc[t] \in Accessing \cup {"poll", "release"}
                        /\ t \notin gnt
  BY StalledThread
<1>3. CASE t \in Stalled
  BY <1>1, <1>2, <1>3 DEF NextState, States, Holding, Accessing, LockReturn,
                          UnlockReturn
<1>4. CASE t \notin Stalled
  BY <1>1, <1>2, <1>4 DEF NextState, States, Holding, Accessing, LockReturn,
                          UnlockReturn
<1> QED
  BY <1>3, <1>4

\* What the bus delivers is a bit, in this model's data abstraction.
LEMMA BusBit ==
  ASSUME TypeOK
  PROVE  /\ data_from_memory \in {0, 1}
         /\ \A p \in Ports : memory_controller_out(p, data_from_memory) \in {0, 1}
BY DEF data_from_memory, MemoryWord, memory_controller_out, TypeOK

\* An edge with everything but the programs' choices forgotten.
LEMMA NextSplit ==
  ASSUME [Next]_vars
  PROVE  \/ \E call, access : Clock(call, access)
         \/ UNCHANGED vars
BY DEF Next

LEMMA InitTypes == Init => TypeOK
<1> SUFFICES ASSUME Init PROVE TypeOK
  OBVIOUS
<1>1. ArbiterTypeOK
  BY DEF Init, ArbiterReset, ArbiterTypeOK
<1>2. out_reg \in [Ports -> {0, 1}] /\ dataReady0 = {} /\ dataReady1 = {}
  BY DEF Init, RoutingReset
<1>3. pc \in [Threads -> States]
  BY DEF Init, States
<1> QED
  BY <1>1, <1>2, <1>3 DEF Init, TypeOK

LEMMA TypesStep == TypeOK /\ [Next]_vars => TypeOK'
<1> SUFFICES ASSUME TypeOK, [Next]_vars PROVE TypeOK'
  OBVIOUS
<1>1. ASSUME NEW call, NEW access, Clock(call, access) PROVE TypeOK'
  <2>1. ArbiterTypeOK'
    <3>1. req_in \subseteq Ports
      BY ArbiterSize DEF req_in, In, Threads, Ports
    <3> QED
      BY <1>1, <3>1 DEF Clock, ArbiterClock, TypeOK, ArbiterTypeOK, PtrAfter,
                        grant_comb, mask_req, LowestBit
  <2>2. /\ dataReady0' \subseteq Ports /\ dataReady1' \subseteq Ports
        /\ out_reg' \in [Ports -> {0, 1}]
    <3>1. req_in \subseteq Ports
      BY ArbiterSize DEF req_in, In, Threads, Ports
    <3> QED
      BY <1>1, <3>1, BusBit DEF Clock, RoutingClock, TypeOK
  <2>3. pc' \in [Threads -> States]
    BY <1>1, FsmEdges DEF Clock, ThreadFSMs
  <2>4. mutexNum' \in [Threads -> Locks] /\ main_req' \in BOOLEAN
    BY <1>1 DEF Clock, ThreadFSMs, MasterFSM
  <2>5. mutex_status' \in [Locks -> {0, 1}] /\ mutex_owner' \in [Locks -> {0, 1}]
    BY <1>1 DEF Clock, LockCores, TypeOK
  <2>6. /\ synchronization_controller_out_reg' \in {0, 1}
        /\ synchronization_controller_out_reg_reg' \in {0, 1}
        /\ sync_controller_shiftreg' \subseteq {0, 1}
    BY <1>1 DEF Clock, SyncOutput, synchronization_controller_out, TypeOK
  <2> QED
    BY <2>1, <2>2, <2>3, <2>4, <2>5, <2>6 DEF TypeOK
<1>2. CASE UNCHANGED vars
  BY <1>2 DEF TypeOK, vars, ArbiterTypeOK
<1> QED
  BY <1>1, <1>2, NextSplit

\* The types hold for any number of threads and lock cores.
THEOREM LockTypes == Spec => []TypeOK
BY InitTypes, TypesStep, PTL DEF Spec
-----------------------------------------------------------------------------
\* A poll that was granted is marked in the routing of the thread and in the
\* controller's shift register, stage by stage, and is the only one there.
PollsTracked ==
    /\ \A t \in In({"poll1"}) : t \in dataReady0 /\ 0 \in sync_controller_shiftreg
    /\ PollHearsController
    /\ \A t, u \in In({"poll1"}) : t = u
    /\ \A t, u \in In({"poll2"}) : t = u

\* A core is taken, status and owner alike, exactly when a thread has it, and
\* then only one does.
CoresMatch ==
    /\ \A l \in Locks : mutex_owner[l] = mutex_status[l]
    /\ NoLostLock
    /\ \A l \in Locks : \A t, u \in Threads : Has(t, l) /\ Has(u, l) => t = u

IInv == TypeOK /\ PollsTracked /\ CoresMatch

LEMMA InitInductive == Init => IInv
<1> SUFFICES ASSUME Init PROVE IInv
  OBVIOUS
<1>1. \A t \in Threads : pc[t] = "idle"
  BY DEF Init
<1>2. PollsTracked
  BY <1>1 DEF PollsTracked, PollHearsController, In
<1>3. \A t \in Threads, l \in Locks : ~Has(t, l)
  BY <1>1 DEF Has, Holding, LockReturn
<1>4. CoresMatch
  BY <1>3 DEF CoresMatch, NoLostLock, Init
<1> QED
  BY <1>2, <1>4, InitTypes DEF IInv

\* A thread newly gets a lock by polling a free core while granted.
Gets(t, l) == t \in gnt \cap In({"poll"}) /\ mutexNum[t] = l /\ mutex_free(l)

\* A thread gives a lock back by its granted store.
Gives(t, l) == t \in gnt \cap In({"release"}) /\ mutexNum[t] = l

LEMMA PollsStep ==
  ASSUME IInv, NEW call, NEW access, Clock(call, access)
  PROVE  PollsTracked'
<1>1. \A t \in Threads : pc'[t] = NextState(t, call, access)
  BY DEF Clock, ThreadFSMs
<1>2. \A t \in In({"poll1"})' : t \in Threads /\ pc[t] = "poll" /\ t \in gnt
  BY <1>1, FsmEdges DEF In, IInv
<1>3. \A t \in In({"poll2"})' : t \in In({"poll1"})
  BY <1>1, FsmEdges DEF In, IInv
<1>4. \A t \in In({"poll1"})' : t \in dataReady0' /\ 0 \in sync_controller_shiftreg'
  <2> SUFFICES ASSUME NEW t \in In({"poll1"})'
               PROVE  t \in dataReady0' /\ 0 \in sync_controller_shiftreg'
    OBVIOUS
  <2>1. t \in gnt \cap In({"poll"})
    BY <1>2 DEF In
  <2>2. t \in req_in /\ t \notin In({"release"})
    BY <2>1, GrantOne DEF In
  <2>3. t \in dataReady0'
    BY <2>1, <2>2 DEF Clock, RoutingClock, In
  <2>4. 0 \in sync_controller_shiftreg'
    BY <2>1 DEF Clock, SyncOutput
  <2> QED
    BY <2>3, <2>4
<1>5. PollHearsController'
  <2> SUFFICES ASSUME NEW t \in In({"poll2"})'
               PROVE  t \in dataReady1' /\ 1 \in sync_controller_shiftreg'
    BY DEF PollHearsController
  <2>1. t \in dataReady0 /\ 0 \in sync_controller_shiftreg
    BY <1>3 DEF IInv, PollsTracked
  <2> QED
    BY <2>1 DEF Clock, RoutingClock, SyncOutput
<1>6. \A t, u \in In({"poll1"})' : t = u
  BY <1>2, GrantOne DEF IInv
<1>7. \A t, u \in In({"poll2"})' : t = u
  BY <1>3 DEF IInv, PollsTracked
<1> QED
  BY <1>4, <1>5, <1>6, <1>7 DEF PollsTracked

\* Who has a lock after an edge: who had it and did not give it back, and who
\* got it now.
LEMMA HasStep ==
  ASSUME IInv, NEW call, NEW access, Clock(call, access),
         NEW t \in Threads, NEW l \in Locks
  PROVE  Has(t, l)' <=> (Has(t, l) /\ ~Gives(t, l)) \/ Gets(t, l)
<1>1. pc'[t] = NextState(t, call, access)
  BY DEF Clock, ThreadFSMs
<1>2. pc[t] # "idle" => mutexNum'[t] = mutexNum[t]
  BY DEF Clock, ThreadFSMs
<1>a. synchronization_controller_out_reg' = synchronization_controller_out
  BY DEF Clock, SyncOutput
<1>b. synchronization_controller_out_reg_reg' = synchronization_controller_out_reg
  BY DEF Clock, SyncOutput
<1>3. pc[t] = "poll" /\ t \in gnt =>
         (synchronization_controller_out = 1 <=> mutex_free(mutexNum[t]))
  <2> SUFFICES ASSUME pc[t] = "poll", t \in gnt
               PROVE  synchronization_controller_out = 1 <=> mutex_free(mutexNum[t])
    OBVIOUS
  <2>1. mutexNum[t] \in Locks
    BY DEF IInv, TypeOK
  <2>2. \A k \in Locks : LockRead(k) <=> k = mutexNum[t]
    BY GrantOne DEF LockRead, In, IInv
  <2> QED
    BY <2>1, <2>2 DEF synchronization_controller_out
<1>4. pc[t] = "poll2" =>
         (memory_controller_out(t, data_from_memory) # 0 <=>
            synchronization_controller_out_reg_reg = 1)
  BY DEF IInv, TypeOK, PollsTracked, PollHearsController, In,
         memory_controller_out, data_from_memory
<1>5. CASE pc'[t] = "poll1"
  <2>1. pc[t] = "poll" /\ t \in gnt
    BY <1>1, <1>5, FsmEdges DEF IInv
  <2> QED
    BY <2>1, <1>2, <1>3, <1>5, <1>a DEF Has, Gets, Gives, Holding, LockReturn, In
<1>6. CASE pc'[t] = "poll2"
  <2>1. pc[t] = "poll1"
    BY <1>1, <1>6, FsmEdges DEF IInv
  <2> QED
    BY <2>1, <1>2, <1>6, <1>b DEF Has, Gets, Gives, Holding, LockReturn, In
<1>7. CASE pc'[t] = "lock_ret"
  <2>1. pc[t] = "poll2" /\ memory_controller_out(t, data_from_memory) # 0
    BY <1>1, <1>7, FsmEdges DEF IInv
  <2> QED
    BY <2>1, <1>2, <1>4, <1>7 DEF Has, Gets, Gives, Holding, LockReturn, In
<1>8. CASE pc'[t] \in Holding \ {"lock_ret"}
  <2>1. pc[t] \in Holding /\ ~(pc[t] = "release" /\ t \in gnt)
    BY <1>1, <1>8, FsmEdges DEF IInv
  <2> QED
    BY <2>1, <1>2, <1>8 DEF Has, Gets, Gives, Holding, LockReturn, In
<1>9. CASE pc'[t] \notin Holding \cup {"poll1", "poll2"}
  <2>1. /\ ~(pc[t] = "poll" /\ t \in gnt)
        /\ pc[t] # "poll1"
        /\ ~(pc[t] = "poll2" /\ memory_controller_out(t, data_from_memory) # 0)
        /\ pc[t] \in Holding => pc[t] = "release" /\ t \in gnt
    BY <1>1, <1>9, FsmEdges DEF IInv, Holding, LockReturn
  <2> QED
    BY <2>1, <1>4, <1>9 DEF Has, Gets, Gives, In
<1> QED
  BY <1>5, <1>6, <1>7, <1>8, <1>9

LEMMA CoresStep ==
  ASSUME IInv, NEW call, NEW access, Clock(call, access)
  PROVE  CoresMatch'
<1>1. \A l \in Locks : mutex_owner'[l] = mutex_status'[l]
  BY DEF Clock, LockCores, IInv, CoresMatch
<1>2. ASSUME NEW l \in Locks, mutex_free(l)
      PROVE  /\ \A t \in Threads : ~Has(t, l)
             /\ mutex_status'[l] = 1 <=> \E t \in Threads : Gets(t, l)
             /\ \A t, u \in Threads : Gets(t, l) /\ Gets(u, l) => t = u
  <2>1. \A t \in Threads : ~Has(t, l)
    BY <1>2 DEF IInv, CoresMatch, NoLostLock, mutex_free
  <2>2. mutex_status'[l] = 1 <=> LockRead(l)
    BY <1>2 DEF Clock, LockCores, mutex_free
  <2>3. LockRead(l) <=> \E t \in Threads : Gets(t, l)
    BY <1>2 DEF LockRead, Gets, In
  <2>4. \A t, u \in Threads : Gets(t, l) /\ Gets(u, l) => t = u
    BY GrantOne DEF Gets, IInv
  <2> QED
    BY <2>1, <2>2, <2>3, <2>4
<1>3. ASSUME NEW l \in Locks, ~mutex_free(l)
      PROVE  /\ \A t \in Threads : ~Gets(t, l)
             /\ mutex_status'[l] = 1 <=> \E t \in Threads : Has(t, l) /\ ~Gives(t, l)
  <2>1. mutex_status[l] = 1 /\ mutex_owner[l] = 1
    BY <1>3 DEF IInv, CoresMatch, TypeOK, mutex_free
  <2>2. mutex_status'[l] = 1 <=> ~LockWrite(l)
    BY <1>3, <2>1 DEF Clock, LockCores
  <2>3. LockWrite(l) <=> \E t \in Threads : Gives(t, l)
    BY DEF LockWrite, Gives, In
  <2>4. \A t \in Threads : Gives(t, l) => Has(t, l)
    BY DEF Gives, Has, In, Holding
  <2>5. PICK t \in Threads : Has(t, l)
    BY <2>1 DEF IInv, CoresMatch, NoLostLock
  <2>6. \A u \in Threads : Has(u, l) => u = t
    BY <2>5 DEF IInv, CoresMatch
  <2>7. \A u \in Threads : ~Gets(u, l)
    BY <1>3 DEF Gets
  <2> QED
    BY <2>2, <2>3, <2>4, <2>5, <2>6, <2>7
<1>4. NoLostLock'
  BY <1>2, <1>3, HasStep DEF NoLostLock
<1>5. ASSUME NEW l \in Locks, NEW t \in Threads, NEW u \in Threads,
             Has(t, l)', Has(u, l)'
      PROVE  t = u
  <2>1. CASE mutex_free(l)
    BY <1>2, <1>5, <2>1, HasStep
  <2>2. CASE ~mutex_free(l)
    BY <1>3, <1>5, <2>2, HasStep DEF IInv, CoresMatch
  <2> QED
    BY <2>1, <2>2
<1> QED
  BY <1>1, <1>4, <1>5 DEF CoresMatch

LEMMA StepInductive == IInv /\ [Next]_vars => IInv'
<1> SUFFICES ASSUME IInv, [Next]_vars PROVE IInv'
  OBVIOUS
<1>1. TypeOK'
  BY TypesStep DEF IInv
<1>2. ASSUME NEW call, NEW access, Clock(call, access) PROVE IInv'
  BY <1>1, <1>2, PollsStep, CoresStep DEF IInv
<1>3. CASE UNCHANGED vars
  BY <1>1, <1>3 DEF IInv, vars, PollsTracked, PollHearsController, In,
                    CoresMatch, NoLostLock, Has
<1> QED
  BY <1>2, <1>3, NextSplit

\* Two threads are never both between legup_lock and legup_unlock of a lock.
THEOREM LockMutualExclusion == Spec => []MutualExclusion
<1>1. IInv => MutualExclusion
  <2> SUFFICES ASSUME IInv, NEW t \in Threads, NEW u \in Threads, t # u,
                      pc[t] \in Holding, pc[u] \in Holding
               PROVE  mutexNum[t] # mutexNum[u]
    BY DEF MutualExclusion
  <2>1. mutexNum[t] \in Locks
    BY DEF IInv, TypeOK
  <2> QED
    BY <2>1 DEF IInv, CoresMatch, Has
<1> QED
  BY <1>1, InitInductive, StepInductive, PTL DEF Spec

\* A core is taken exactly when a thread has it or is about to hear so.
THEOREM LockNoneLost == Spec => []NoLostLock
<1>1. IInv => NoLostLock
  BY DEF IInv, CoresMatch
<1> QED
  BY <1>1, InitInductive, StepInductive, PTL DEF Spec

\* A poll's answer comes from the controller in the cycle the thread reads it.
THEOREM LockPollsHeard == Spec => []PollHearsController
<1>1. IInv => PollHearsController
  BY DEF IInv, PollsTracked
<1> QED
  BY <1>1, InitInductive, StepInductive, PTL DEF Spec
-----------------------------------------------------------------------------
Polling == {"lock_start", "poll", "poll1", "poll2"}

\* A thread that tries leaves legup_lock's loop only when it hears a 1.
LEMMA PollingEdges ==
  ASSUME TypeOK, NEW t \in Threads, NEW call, NEW access, pc[t] \in Polling
  PROVE  \/ NextState(t, call, access) \in Polling
         \/ pc[t] = "poll2" /\ memory_controller_out(t, data_from_memory) # 0
<1>1. t \in Stalled <=> /\ pc[t] \in Accessing \cup {"poll", "release"}
                        /\ t \notin gnt
  BY StalledThread
<1> QED
  BY <1>1 DEF NextState, Polling, Accessing

\* Whom the mapping names: a thread that has the lock, or 0 when there is none.
LEMMA HolderIs ==
  ASSUME NEW l \in Locks
  PROVE  /\ \A t \in Threads :
               Has(t, l) /\ (\A u \in Threads : Has(u, l) => u = t) => Holder(l) = t
         /\ (\A t \in Threads : ~Has(t, l)) => Holder(l) = 0
         /\ Holder(l) \in Threads \cup {0}
BY DEF Holder

LEMMA HolderIsNext ==
  ASSUME NEW l \in Locks
  PROVE  /\ \A t \in Threads :
               Has(t, l)' /\ (\A u \in Threads : Has(u, l)' => u = t) => Holder(l)' = t
         /\ (\A t \in Threads : ~Has(t, l)') => Holder(l)' = 0
         /\ Holder(l)' \in Threads \cup {0}
BY DEF Holder

\* A thread that tries goes on trying until it has the lock.
LEMMA TryingStep ==
  ASSUME IInv, NEW call, NEW access, Clock(call, access),
         NEW l \in Locks, NEW t \in Trying(l)
  PROVE  Has(t, l)' \/ t \in Trying(l)'
<1>1. t \in Threads /\ pc[t] \in Polling /\ mutexNum[t] = l /\ ~Has(t, l)
  BY DEF Trying, In, Polling
<1>2. pc'[t] = NextState(t, call, access) /\ mutexNum'[t] = l
  BY <1>1 DEF Clock, ThreadFSMs, Polling
<1>3. ~(pc[t] = "poll2" /\ memory_controller_out(t, data_from_memory) # 0)
  BY <1>1 DEF IInv, TypeOK, PollsTracked, PollHearsController, In, Has,
              memory_controller_out, data_from_memory
<1>4. pc'[t] \in Polling
  BY <1>1, <1>2, <1>3, PollingEdges DEF IInv
<1> QED
  BY <1>1, <1>2, <1>4 DEF Trying, In, Polling

\* A core that was free is taken by a thread that tried, or stays free.
LEMMA FreeStep ==
  ASSUME IInv, NEW call, NEW access, Clock(call, access), NEW l \in Locks,
         \A t \in Threads : ~Has(t, l)
  PROVE  /\ Holder(l) = 0
         /\ \/ /\ Holder(l)' \in Trying(l) /\ Holder(l)' \notin Trying(l)'
               /\ Trying(l) \ Trying(l)' \subseteq {Holder(l)'}
            \/ /\ Holder(l)' = 0
               /\ Trying(l) \subseteq Trying(l)'
<1>1. Holder(l) = 0
  BY HolderIs
<1>2. \A t \in Threads : Has(t, l)' <=> Gets(t, l)
  BY HasStep
<1>3. \A t, u \in Threads : Has(t, l)' /\ Has(u, l)' => t = u
  BY CoresStep DEF CoresMatch
<1>4. CASE \E t \in Threads : Gets(t, l)
  <2>1. PICK t \in Threads : Gets(t, l)
    BY <1>4
  <2>2. Has(t, l)' /\ Holder(l)' = t
    BY <1>2, <1>3, <2>1, HolderIsNext
  <2>3. t \in Trying(l)
    BY <2>1 DEF Gets, Trying, In
  <2>4. t \notin Trying(l)'
    BY <2>2 DEF Trying
  <2>5. Trying(l) \ Trying(l)' \subseteq {t}
    BY <1>3, <2>2, TryingStep DEF Trying, In
  <2> QED
    BY <1>1, <2>2, <2>3, <2>4, <2>5
<1>5. CASE \A t \in Threads : ~Gets(t, l)
  <2>1. \A t \in Threads : ~Has(t, l)'
    BY <1>2, <1>5
  <2>2. Trying(l) \subseteq Trying(l)'
    BY <2>1, TryingStep DEF Trying, In
  <2> QED
    BY <1>1, <2>1, <2>2, HolderIsNext
<1> QED
  BY <1>4, <1>5

\* A core that was taken is given back by its holder, or stays taken by it.
LEMMA TakenStep ==
  ASSUME IInv, NEW call, NEW access, Clock(call, access), NEW l \in Locks,
         NEW h \in Threads, Has(h, l)
  PROVE  /\ Holder(l) = h
         /\ Holder(l)' \in {h, 0}
         /\ Trying(l) \subseteq Trying(l)'
<1>1. \A t \in Threads : Has(t, l) => t = h
  BY DEF IInv, CoresMatch
<1>2. ~mutex_free(l)
  BY DEF IInv, CoresMatch, NoLostLock, mutex_free
<1>3. \A t \in Threads : ~Gets(t, l)
  BY <1>2 DEF Gets
<1>4. \A t \in Threads : Has(t, l)' => t = h
  BY <1>1, <1>3, HasStep
<1>5. Holder(l) = h /\ Holder(l)' \in {h, 0}
  BY <1>1, <1>4, HolderIs, HolderIsNext
<1>6. Trying(l) \subseteq Trying(l)'
  BY <1>4, TryingStep DEF Trying, In
<1> QED
  BY <1>5, <1>6

LEMMA MapsInit == Init => M!Init
<1> SUFFICES ASSUME Init PROVE M!Init
  OBVIOUS
<1>1. \A t \in Threads : pc[t] = "idle"
  BY DEF Init
<1>2. \A l \in Locks : Holder(l) = 0
  BY <1>1, HolderIs DEF Has, Holding, LockReturn
<1>3. \A l \in Locks : Trying(l) = {}
  BY <1>1 DEF Trying, In
<1> QED
  BY <1>2, <1>3 DEF M!Init

LEMMA MapsStep == IInv /\ [Next]_vars => [M!Next]_M!vars
<1> SUFFICES ASSUME IInv, [Next]_vars PROVE [M!Next]_M!vars
  OBVIOUS
<1>1. ASSUME NEW call, NEW access, Clock(call, access) PROVE M!Next
  <2>1. \A l \in Locks : Holder(l)' \in Threads \cup {0} /\ Trying(l)' \subseteq Threads
    BY HolderIsNext DEF Trying, In
  <2>2. 0 \notin Threads
    BY DEF Threads
  <2>3. ASSUME NEW l \in Locks
        PROVE  /\ \/ /\ Holder(l) = 0
                     /\ Holder(l)' \in Trying(l) /\ Holder(l)' \notin Trying(l)'
                  \/ Holder(l) # 0 /\ Holder(l)' = 0
                  \/ Holder(l)' = Holder(l) /\ Trying(l) \subseteq Trying(l)'
               /\ Trying(l) \ Trying(l)' \subseteq {Holder(l)'}
    <3>1. CASE \A t \in Threads : ~Has(t, l)
      BY <1>1, <3>1, FreeStep
    <3>2. CASE \E t \in Threads : Has(t, l)
      BY <1>1, <2>2, <3>2, TakenStep
    <3> QED
      BY <3>1, <3>2
  <2> QED
    BY <2>1, <2>3 DEF M!Next, M!Acquire, M!Release, M!Keep
<1>2. CASE UNCHANGED vars
  <2>1. \A l \in Locks : Holder(l)' = Holder(l) /\ Trying(l)' = Trying(l)
    BY <1>2 DEF vars, Holder, Trying, Has, In
  <2> QED
    BY <2>1 DEF M!vars
<1> QED
  BY <1>1, <1>2, NextSplit

\* The lock hardware implements the mutex: it starts as one, and every clock
\* edge is a step of it or changes nothing that a program can see.
THEOREM LockRefinesMutex == Spec => ImplementsMutex
BY InitInductive, StepInductive, MapsInit, MapsStep, PTL DEF Spec, ImplementsMutex
=============================================================================
