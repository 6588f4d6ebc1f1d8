--------------------------- MODULE ArbiterProofs ---------------------------
(***************************************************************************)
(* For every number of clients, both flows and any stalling parent: the    *)
(* types of ArbitratedPorts and the bound on how long a client is bypassed.*)
(* For every choice of parallel functions among the requesters: the types  *)
(* of ReadPath, the way back behind the same arbiter, and that loads read  *)
(* their own words.                                                        *)
(***************************************************************************)
EXTENDS ArbitratedPorts, ReadPath, WellFoundedInduction, TLAPS

Suffix(k) == k .. (N - 1)

\* rotate_ptr as it will be in the next cycle, unless a stall freezes it.
ptr_next == IF grant # {} THEN PtrAfter(grant) ELSE rotate_ptr

\* The clients that come before client j when priority starts at client k.
Distance(j, k) == IF k <= j THEN j - k ELSE j + N - k

LessThan == {ss \in Nat \X Nat : ss[1] < ss[2]}

\* A non-empty set of natural numbers has a least element.
LEMMA LeastNatural ==
  ASSUME NEW S \in SUBSET Nat, S # {}
  PROVE  \E m \in S : \A n \in S : m <= n
<1>1. IsWellFoundedOn(LessThan, Nat)
  BY NatLessThanWellFounded DEF OpToRel, LessThan
<1>2. PICK m \in S : \A n \in S : <<n, m>> \notin LessThan
  BY <1>1, WFMin
<1>3. ASSUME NEW n \in S PROVE m <= n
  <2>1. <<n, m>> \in Nat \X Nat
    OBVIOUS
  <2>2. ~(n < m)
    BY <1>2, <2>1 DEF LessThan
  <2> QED
    BY <2>2
<1> QED
  BY <1>3

\* LowestBit picks exactly one position of a vector that is not zero.
LEMMA LowestBitOfVector ==
  ASSUME NEW v \in SUBSET Ports, v # {}
  PROVE  \E g \in v : LowestBit(v) = {g} /\ \A j \in v : g <= j
<1>1. v \in SUBSET Nat
  BY ArbiterSize DEF Ports
<1>2. PICK g \in v : \A j \in v : g <= j
  BY <1>1, LeastNatural
<1>3. LowestBit(v) = {g}
  <2>1. \A i \in LowestBit(v) : i = g
    BY <1>1, <1>2 DEF LowestBit
  <2>2. g \in LowestBit(v)
    BY <1>2 DEF LowestBit
  <2> QED
    BY <2>1, <2>2
<1> QED
  BY <1>2, <1>3

\* After a grant to g the priority starts right behind g.
LEMMA PointerAfterGrant ==
  ASSUME NEW g \in Ports
  PROVE  PtrAfter({g}) = Suffix(IF g = N - 1 THEN 0 ELSE g + 1)
<1>1. CASE g = N - 1
  BY <1>1, ArbiterSize DEF PtrAfter, Suffix, Ports
<1>2. CASE g # N - 1
  <2>1. PtrAfter({g}) = {i \in Ports : g < i}
    BY <1>2, ArbiterSize DEF PtrAfter, Ports
  <2>2. g \in Nat /\ N \in Nat
    BY ArbiterSize DEF Ports
  <2>3. \A i : i \in PtrAfter({g}) <=> i \in (g + 1) .. (N - 1)
    BY <2>1, <2>2 DEF Ports
  <2> QED
    BY <1>2, <2>3 DEF Suffix
<1> QED
  BY <1>1, <1>2

\* A request is granted when there is one, and the grant goes to the first
\* requester in the order that starts at the pointer.
LEMMA GrantIsNearest ==
  ASSUME NEW req \in SUBSET Ports, NEW i \in req,
         NEW k \in Ports, rotate_ptr = Suffix(k)
  PROVE  \E g \in req : grant_comb(req) = {g} /\ Distance(g, k) <= Distance(i, k)
<1>1. CASE mask_req(req) # {}
  <2>1. PICK g \in mask_req(req) : /\ LowestBit(mask_req(req)) = {g}
                                   /\ \A j \in mask_req(req) : g <= j
    BY <1>1, LowestBitOfVector DEF mask_req
  <2>2. g \in req /\ k <= g
    BY <2>1, ArbiterSize DEF mask_req, Suffix, Ports
  <2>3. i >= k => g <= i
    BY <2>1, ArbiterSize DEF mask_req, Suffix, Ports
  <2>4. Distance(g, k) <= Distance(i, k)
    BY <2>2, <2>3, ArbiterSize DEF Distance, Ports
  <2> QED
    BY <1>1, <2>1, <2>2, <2>4 DEF grant_comb
<1>2. CASE mask_req(req) = {}
  <2>1. PICK g \in req : LowestBit(req) = {g} /\ \A j \in req : g <= j
    BY LowestBitOfVector
  <2>2. g < k /\ i < k
    BY <1>2, <2>1, ArbiterSize DEF mask_req, Suffix, Ports
  <2>3. Distance(g, k) <= Distance(i, k)
    BY <2>1, <2>2, ArbiterSize DEF Distance, Ports
  <2> QED
    BY <1>2, <2>1, <2>3 DEF grant_comb
<1> QED
  BY <1>1, <1>2

\* The client after g, in the order of the rotation.
After(g) == IF g = N - 1 THEN 0 ELSE g + 1

\* Moving the priority behind a granted client g brings every client that was
\* behind g at least one place closer.
LEMMA DistanceShrinks ==
  ASSUME NEW g \in Ports, NEW i \in Ports, NEW k \in Ports,
         i # g, Distance(g, k) <= Distance(i, k)
  PROVE  Distance(i, After(g)) <= Distance(i, k) - 1
BY ArbiterSize DEF Distance, After, Ports

LEMMA DistanceRange ==
  ASSUME NEW i \in Ports, NEW k \in Ports
  PROVE  Distance(i, k) \in 0 .. (N - 1)
BY ArbiterSize DEF Distance, Ports
-----------------------------------------------------------------------------
\* What a clock edge does, whatever the parent answers in the next cycle.
Edge ==
    ArbiterClock(req_in, waitrequest) /\ ClientsMove /\ GrantRegister /\ CountWait

LEMMA NextSplit == [Next]_vars => Edge \/ UNCHANGED vars
BY DEF Next, Clock, Edge

LEMMA InitTypes == Init => TypeOK
<1> SUFFICES ASSUME Init PROVE TypeOK
  OBVIOUS
<1>1. ArbiterTypeOK
  BY DEF Init, ArbiterReset, ArbiterTypeOK
<1>2. waitrequest \in BOOLEAN
  <2>1. CASE ParentStalls
    BY <2>1, Zenon DEF Init
  <2>2. CASE ~ParentStalls
    BY <2>2 DEF Init
  <2> QED
    BY <2>1, <2>2
<1>3. age \in [Ports -> Nat]
  BY DEF Init
<1> QED
  BY <1>1, <1>2, <1>3 DEF Init, TypeOK

LEMMA TypesStep == TypeOK /\ [Next]_vars => TypeOK'
<1> SUFFICES ASSUME TypeOK, [Next]_vars PROVE TypeOK'
  OBVIOUS
<1>1. CASE Edge
  <2>1. ArbiterTypeOK'
    BY <1>1 DEF Edge, ArbiterClock, TypeOK, ArbiterTypeOK, PtrAfter,
                grant_comb, mask_req, LowestBit
  <2>2. req_in' \subseteq Ports
    BY <1>1 DEF Edge, ClientsMove, TypeOK, Stalled
  <2>3. gnt_reg' \subseteq Ports
    BY <1>1 DEF Edge, GrantRegister, TypeOK, gnt, grant_final,
                grant_comb, mask_req, LowestBit
  <2>4. age' \in [Ports -> Nat]
    BY <1>1 DEF Edge, CountWait, TypeOK
  <2>5. waitrequest' \in BOOLEAN
    BY Zenon DEF Next, Clock, ParentReady, ParentStall, TypeOK, vars
  <2> QED
    BY <2>1, <2>2, <2>3, <2>4, <2>5 DEF TypeOK
<1>2. CASE UNCHANGED vars
  BY <1>2 DEF TypeOK, vars, ArbiterTypeOK
<1> QED
  BY <1>1, <1>2, NextSplit

\* The types are an invariant of both flows and of any number of clients.
THEOREM ArbiterTypes == Spec => []TypeOK
BY InitTypes, TypesStep, PTL DEF Spec
-----------------------------------------------------------------------------
\* The registered grant is none or one client.
OneGrant == grant = {} \/ \E g \in Ports : grant = {g}

\* With priority starting at k now and at n in the next cycle, every client's
\* remaining turns make up for the cycles it has waited.
Budget(k, n) ==
    \A i \in Ports : /\ 2 * Distance(i, k) + age[i] <= 2 * N - 1
                     /\ 2 * Distance(i, n) + age[i] <= 2 * N - 2

IInv ==
    /\ TypeOK
    /\ OneGrant
    /\ \E k, n \in Ports :
          rotate_ptr = Suffix(k) /\ ptr_next = Suffix(n) /\ Budget(k, n)

LEMMA InitInductive == Init => IInv
<1> SUFFICES ASSUME Init PROVE IInv
  OBVIOUS
<1>1. TypeOK
  BY InitTypes
<1>2. 0 \in Ports
  BY ArbiterSize DEF Ports
<1>3. rotate_ptr = Suffix(0) /\ ptr_next = Suffix(0)
  BY DEF Init, ArbiterReset, Suffix, Ports, ptr_next
<1>4. Budget(0, 0)
  <2> SUFFICES ASSUME NEW i \in Ports
               PROVE  2 * Distance(i, 0) + age[i] <= 2 * N - 2
    BY <1>1, <1>2, DistanceRange, ArbiterSize DEF Budget, TypeOK
  <2>1. age[i] = 0
    BY DEF Init
  <2>2. Distance(i, 0) \in 0 .. (N - 1)
    BY <1>2, DistanceRange
  <2> QED
    BY <2>1, <2>2, ArbiterSize
<1>5. OneGrant
  BY DEF Init, ArbiterReset, OneGrant
<1> QED
  BY <1>1, <1>2, <1>3, <1>4, <1>5 DEF IInv

\* A pointer that does not move has one budget, the smaller one.
LEMMA EqualBudget ==
  ASSUME TypeOK', NEW n \in Ports,
         \A i \in Ports : 2 * Distance(i, n) + age'[i] <= 2 * N - 2
  PROVE  Budget(n, n)'
<1>1. \A i \in Ports : Distance(i, n) \in Int /\ age'[i] \in Int
  BY DistanceRange DEF TypeOK
<1>2. \A i \in Ports : 2 * Distance(i, n) + age'[i] <= 2 * N - 1
  BY <1>1, ArbiterSize
<1> QED
  BY <1>2 DEF Budget, Distance, Ports

\* A client that is asking and is not served in a cycle without a stall is not
\* the granted one.
LEMMA PassedOver ==
  ASSUME TypeOK, waitrequest = FALSE, NEW i \in Ports, i \in req_in, i \notin Taken
  PROVE  i \notin grant_comb(req_in)
BY DEF Taken, Stalled, waitrequest_inst, gnt, grant_final

LEMMA StepInductive == IInv /\ [Next]_vars => IInv'
<1> SUFFICES ASSUME IInv, [Next]_vars PROVE IInv'
  OBVIOUS
<1>0. TypeOK'
  BY TypesStep DEF IInv
<1> PICK k \in Ports, n \in Ports :
          rotate_ptr = Suffix(k) /\ ptr_next = Suffix(n) /\ Budget(k, n)
  BY DEF IInv
<1>1. CASE UNCHANGED vars
  BY <1>1, <1>0 DEF IInv, vars, OneGrant, ptr_next, Budget
<1>2. CASE Edge
  <2>1. OneGrant'
    <3>1. grant_comb(req_in) = {} \/ \E g \in Ports : grant_comb(req_in) = {g}
      <4>1. CASE req_in = {}
        BY <4>1 DEF grant_comb, mask_req, LowestBit
      <4>2. CASE req_in # {}
        BY <4>2, GrantIsNearest DEF IInv, TypeOK
      <4> QED
        BY <4>1, <4>2
    <3> QED
      BY <3>1, <1>2 DEF Edge, ArbiterClock, OneGrant, IInv
  <2>2. rotate_ptr' = Suffix(n)
    BY <1>2 DEF Edge, ArbiterClock, ptr_next
  <2>3. \E m \in Ports : ptr_next' = Suffix(m) /\ Budget(n, m)'
    <3>1. CASE waitrequest
      <4>1. ptr_next' = Suffix(n)
        BY <3>1, <1>2, <2>2 DEF Edge, ArbiterClock, ptr_next, PtrAfter, Ports
      <4>2. Budget(n, n)'
        <5> SUFFICES ASSUME NEW i \in Ports
                     PROVE  2 * Distance(i, n) + age'[i] <= 2 * N - 2
          BY <1>0, EqualBudget
        <5>1. age'[i] = 0 \/ age'[i] = age[i]
          BY <3>1, <1>2 DEF Edge, CountWait
        <5> QED
          BY <5>1, DistanceRange, ArbiterSize DEF Budget, IInv, TypeOK
      <4> QED
        BY <4>1, <4>2
    <3>2. CASE ~waitrequest /\ req_in = {}
      <4>1. ptr_next' = Suffix(n)
        BY <3>2, <1>2, <2>2 DEF Edge, ArbiterClock, ptr_next, grant_comb,
                                mask_req, LowestBit
      <4>2. Budget(n, n)'
        <5> SUFFICES ASSUME NEW i \in Ports
                     PROVE  2 * Distance(i, n) + age'[i] <= 2 * N - 2
          BY <1>0, EqualBudget
        <5>1. age'[i] = 0
          BY <3>2, <1>2 DEF Edge, CountWait
        <5> QED
          BY <5>1, DistanceRange, ArbiterSize
      <4> QED
        BY <4>1, <4>2
    <3>3. CASE ~waitrequest /\ req_in # {}
      <4>1. PICK g \in Ports : grant_comb(req_in) = {g}
                /\ \A i \in req_in : Distance(g, k) <= Distance(i, k)
        <5>1. \A i \in req_in : \E g \in req_in : 
                 grant_comb(req_in) = {g} /\ Distance(g, k) <= Distance(i, k)
          BY GrantIsNearest DEF IInv, TypeOK
        <5>2. PICK g \in req_in : grant_comb(req_in) = {g}
          BY <3>3, <5>1
        <5>3. \A i \in req_in : Distance(g, k) <= Distance(i, k)
          BY <5>1, <5>2
        <5> QED
          BY <5>2, <5>3 DEF IInv, TypeOK
      <4>2. After(g) \in Ports
        BY ArbiterSize DEF After, Ports
      <4>3. ptr_next' = Suffix(After(g))
        <5>1. PtrAfter({g}) = Suffix(After(g))
          BY PointerAfterGrant DEF After
        <5>2. CASE grant = {g}
          BY <5>1, <5>2, <4>1, <3>3, <1>2 DEF Edge, ArbiterClock, ptr_next
        <5>3. CASE grant # {g}
          <6>1. grant' = {g}
            BY <5>3, <4>1, <3>3, <1>2 DEF Edge, ArbiterClock, IInv, OneGrant
          <6> QED
            BY <6>1, <5>1 DEF ptr_next, PtrAfter, Ports
        <5> QED
          BY <5>2, <5>3
      <4>4. Budget(n, After(g))'
        <5> SUFFICES ASSUME NEW i \in Ports
                     PROVE  /\ 2 * Distance(i, n) + age'[i] <= 2 * N - 1
                            /\ 2 * Distance(i, After(g)) + age'[i] <= 2 * N - 2
          BY DEF Budget, Distance, Ports
        <5>1. CASE age'[i] = 0
          BY <5>1, <4>2, DistanceRange, ArbiterSize
        <5>2. CASE age'[i] # 0
          <6>1. i \in req_in /\ i \notin Taken /\ age'[i] = age[i] + 1
            BY <5>2, <3>3, <1>2 DEF Edge, CountWait
          <6>2. i # g
            BY <6>1, <4>1, <3>3, PassedOver DEF IInv, TypeOK
          <6>3. Distance(i, After(g)) <= Distance(i, k) - 1
            BY <6>1, <6>2, <4>1, DistanceShrinks
          <6>4. age[i] \in Nat
            BY DEF IInv, TypeOK
          <6>5. /\ Distance(i, k) \in Int
                /\ Distance(i, n) \in Int
                /\ Distance(i, After(g)) \in Int
            BY <4>2, DistanceRange
          <6> QED
            BY <6>1, <6>3, <6>4, <6>5, ArbiterSize DEF Budget
        <5> QED
          BY <5>1, <5>2
      <4> QED
        BY <4>2, <4>3, <4>4
    <3> QED
      BY <3>1, <3>2, <3>3
  <2> QED
    BY <1>0, <2>1, <2>2, <2>3 DEF IInv, Suffix
<1> QED
  BY <1>1, <1>2, NextSplit

\* No client waits longer than two turns of every other client, for every
\* number of clients, both flows and any pattern of requests and stalls.
THEOREM ArbiterBoundedBypass == Spec => []BoundedBypass
<1>1. IInv => BoundedBypass
  <2> SUFFICES ASSUME IInv, NEW i \in Ports PROVE age[i] <= 2 * (N - 1)
    BY DEF BoundedBypass
  <2>1. PICK k \in Ports, n \in Ports : Budget(k, n)
    BY DEF IInv
  <2>2. Distance(i, n) \in 0 .. (N - 1) /\ age[i] \in Nat
    BY DistanceRange DEF IInv, TypeOK
  <2> QED
    BY <2>1, <2>2, ArbiterSize DEF Budget
<1> QED
  BY <1>1, InitInductive, StepInductive, PTL DEF Spec
-----------------------------------------------------------------------------
\* The read data path, behind the same arbiter.

OneAgo(s) == (s + 2) % 3
TwoAgo(s) == (s + 1) % 3

\* Three numbers tell the current state and the two before it apart.
LEMMA StateArithmetic ==
  \A s \in StateNumbers :
     /\ TwoAgo(s) \in StateNumbers /\ OneAgo(s) \in StateNumbers
     /\ OneAgo((s + 1) % 3) = s
     /\ TwoAgo((s + 1) % 3) = OneAgo(s)
     /\ (s + 1) % 3 \in StateNumbers
BY DEF StateNumbers, OneAgo, TwoAgo

\* The arbiter grants at most one request, and only a request.
LEMMA GrantOne ==
  /\ path_gnt \subseteq Enabled
  /\ \A g, h \in path_gnt : g = h
<1>1. path_gnt \subseteq Enabled
  BY DEF path_gnt, grant_final, grant_comb, mask_req, LowestBit
<1>2. Enabled \subseteq Nat
  BY ArbiterSize DEF Enabled, Ports
<1>3. \A g, h \in path_gnt : g <= h /\ h <= g
  BY DEF path_gnt, grant_final, grant_comb, mask_req, LowestBit
<1> QED
  BY <1>1, <1>2, <1>3

\* The word that the memory is asked for is that of the granted load.
LEMMA MemoryReads ==
  ASSUME PathTypeOK, Memory
  PROVE  /\ mem_out_reg' \in Word \cup {NoWord}
         /\ \A p \in path_gnt \cap memRead : mem_out_reg' = <<p, state[p]>>
<1>1. ASSUME NEW p \in path_gnt \cap memRead
      PROVE  /\ <<p, state[p]>> \in Word
             /\ mem_out_reg' = <<p, state[p]>>
  <2> DEFINE Asked(w) == w[1] \in path_gnt /\ w[2] = state[w[1]]
  <2>1. p \in Ports /\ state[p] \in StateNumbers
    BY DEF memRead, PathTypeOK
  <2>2. <<p, state[p]>> \in Word /\ Asked(<<p, state[p]>>)
    BY <2>1 DEF Word
  <2>3. \A w \in Word : Asked(w) => w = <<p, state[p]>>
    BY GrantOne DEF Word
  <2>4. (CHOOSE w \in Word : Asked(w)) = <<p, state[p]>>
    BY <2>2, <2>3
  <2>5. mem_out_reg' = CHOOSE w \in Word : Asked(w)
    BY DEF Memory
  <2> QED
    BY <2>2, <2>4, <2>5
<1>2. (\A p \in path_gnt : p \notin memRead) => mem_out_reg' = NoWord
  BY DEF Memory
<1> QED
  BY <1>1, <1>2

LEMMA PathInitTypes == PathInit => PathTypeOK
<1> SUFFICES ASSUME PathInit PROVE PathTypeOK
  OBVIOUS
<1>1. ArbiterTypeOK
  BY DEF PathInit, ArbiterReset, ArbiterTypeOK
<1>2. out_reg \in [Ports -> Word \cup {NoWord}] /\ dataReady0 = {} /\ dataReady1 = {}
  BY DEF PathInit, RoutingReset
<1>3. state \in [Ports -> StateNumbers]
  BY DEF PathInit, StateNumbers
<1> QED
  BY <1>1, <1>2, <1>3 DEF PathInit, PathTypeOK

LEMMA PathTypesStep == PathTypeOK /\ [PathNext]_pathVars => PathTypeOK'
<1> SUFFICES ASSUME PathTypeOK, [PathNext]_pathVars PROVE PathTypeOK'
  OBVIOUS
<1>1. CASE PathNext
  <2>1. Enabled \subseteq Ports /\ memRead \subseteq Ports
    BY DEF Enabled, memRead
  <2>2. ArbiterTypeOK'
    BY <1>1, <2>1 DEF PathNext, ArbiterClock, PathTypeOK, ArbiterTypeOK, PtrAfter,
                      grant_comb, mask_req, LowestBit
  <2>3. dataReady0' \subseteq Ports /\ dataReady1' \subseteq Ports
    BY <1>1, <2>1 DEF PathNext, RoutingClock, PathTypeOK
  <2>4. \A p \in Ports : memory_controller_out(p, mem_out) \in Word \cup {NoWord}
    BY DEF memory_controller_out, PathTypeOK
  <2>5. out_reg' \in [Ports -> Word \cup {NoWord}]
    BY <1>1, <2>4 DEF PathNext, RoutingClock
  <2>6. access' \in [Ports -> {"idle", "load", "store"}]
    BY <1>1 DEF PathNext, FSMs, PathTypeOK
  <2>7. state' \in [Ports -> StateNumbers]
    BY <1>1, StateArithmetic DEF PathNext, FSMs, PathTypeOK
  <2>8. /\ first_state_after_memory_read' \subseteq Ports
        /\ second_state_after_memory_read' \subseteq Ports
        /\ memory_controller_waitrequest_inverted_reg' \subseteq Ports
    BY <1>1, <2>1 DEF PathNext, ReadShiftRegisters, PathTypeOK
  <2>9. stored_on_datavalid_reg' \in [Ports -> Word \cup {NoWord}]
    BY <1>1, <2>4 DEF PathNext, ReadShiftRegisters, PathTypeOK
  <2>10. mem_out_reg' \in Word \cup {NoWord} /\ mem_out' \in Word \cup {NoWord}
    BY <1>1, MemoryReads DEF PathNext, Memory, PathTypeOK
  <2> QED
    BY <2>2, <2>3, <2>5, <2>6, <2>7, <2>8, <2>9, <2>10 DEF PathTypeOK
<1>2. CASE UNCHANGED pathVars
  BY <1>2 DEF PathTypeOK, pathVars, ArbiterTypeOK
<1> QED
  BY <1>1, <1>2

\* The types hold for any number of requesters.
THEOREM ReadPathTypes == PathSpec => []PathTypeOK
BY PathInitTypes, PathTypesStep, PTL DEF PathSpec
-----------------------------------------------------------------------------
Heard(p) == memory_controller_out(p, mem_out)

\* The cycle after a granted load is the first cycle of the next state, and the
\* memory has the load's word.
JustGranted(p) ==
    /\ p \in dataReady0 => /\ p \in first_state_after_memory_read
                           /\ p \in memory_controller_waitrequest_inverted_reg
                           /\ mem_out_reg = <<p, OneAgo(state[p])>>
    /\ p \in first_state_after_memory_read
          /\ p \in memory_controller_waitrequest_inverted_reg => p \in dataReady0

\* While the next state is stretched the word is heard, and kept in out_reg.
StretchedStart(p) ==
    p \in first_state_after_memory_read
       /\ p \notin memory_controller_waitrequest_inverted_reg
    => Heard(p) = <<p, OneAgo(state[p])>>

\* The first cycle of the end state hears the word.
FirstOfEnd(p) ==
    p \in second_state_after_memory_read
       /\ p \in memory_controller_waitrequest_inverted_reg
    => Heard(p) = <<p, TwoAgo(state[p])>>

\* Its other cycles have the word stored,
StretchedEnd(p) ==
    p \in second_state_after_memory_read
       /\ p \notin memory_controller_waitrequest_inverted_reg
    => stored_on_datavalid_reg[p] = <<p, TwoAgo(state[p])>>

\* and hear it as well unless a second load is in flight.
LoneEnd(p) ==
    p \in second_state_after_memory_read /\ p \notin first_state_after_memory_read
    => Heard(p) = <<p, TwoAgo(state[p])>>

PathInv ==
    /\ PathTypeOK
    /\ \A p \in Ports : /\ JustGranted(p)
                        /\ StretchedStart(p)
                        /\ FirstOfEnd(p)
                        /\ StretchedEnd(p)
                        /\ LoneEnd(p)

LEMMA PathInvInit == PathInit => PathInv
BY PathInitTypes DEF PathInit, RoutingReset, PathInv, JustGranted, StretchedStart, FirstOfEnd,
                 StretchedEnd, LoneEnd

\* What a requester hears in the next cycle: the word that the memory had ready
\* for it, or what it hears now.
LEMMA HeardNext ==
  ASSUME PathTypeOK, PathNext, NEW p \in Ports
  PROVE  Heard(p)' = IF p \in dataReady0 THEN mem_out_reg ELSE Heard(p)
BY DEF PathNext, RoutingClock, Memory, Heard, memory_controller_out

LEMMA PathStep == PathInv /\ [PathNext]_pathVars => PathInv'
<1> SUFFICES ASSUME PathInv, [PathNext]_pathVars PROVE PathInv'
  OBVIOUS
<1>1. PathTypeOK'
  BY PathTypesStep DEF PathInv
<1>2. CASE PathNext
  <2> SUFFICES ASSUME NEW p \in Ports
               PROVE  /\ JustGranted(p)'
                      /\ StretchedStart(p)'
                      /\ FirstOfEnd(p)'
                      /\ StretchedEnd(p)'
                      /\ LoneEnd(p)'
    BY <1>1 DEF PathInv
  <2>1. PathTypeOK /\ state[p] \in StateNumbers
    BY DEF PathInv, PathTypeOK
  <2>2. state'[p] = IF p \in StalledFSMs THEN state[p] ELSE (state[p] + 1) % 3
    BY <1>2 DEF PathNext, FSMs
  <2>3. p \in memory_controller_waitrequest_inverted_reg' <=> p \notin StalledFSMs
    BY <1>2 DEF PathNext, ReadShiftRegisters
  <2>4. p \in first_state_after_memory_read' <=>
           IF p \in StalledFSMs THEN p \in first_state_after_memory_read ELSE p \in memRead
    BY <1>2 DEF PathNext, ReadShiftRegisters
  <2>5. p \in second_state_after_memory_read' <=>
           IF p \in StalledFSMs THEN p \in second_state_after_memory_read
                            ELSE p \in first_state_after_memory_read
    BY <1>2 DEF PathNext, ReadShiftRegisters
  <2>6. p \in dataReady0' <=> p \in memRead /\ p \in path_gnt
    BY <1>2 DEF PathNext, RoutingClock
  <2>7. p \in memRead => (p \in path_gnt <=> p \notin StalledFSMs)
    BY DEF memRead, StalledFSMs, Enabled
  <2>8. Heard(p)' = IF p \in dataReady0 THEN mem_out_reg ELSE Heard(p)
    BY <1>2, <2>1, HeardNext
  <2>9. p \in path_gnt /\ p \in memRead => mem_out_reg' = <<p, state[p]>>
    BY <1>2, <2>1, MemoryReads DEF PathNext
  <2>10. p \in path_gnt => p \notin StalledFSMs
    BY DEF StalledFSMs
  <2> HIDE DEF Heard, path_gnt, StalledFSMs, memRead
  <2>11. JustGranted(p)'
    BY <2>1, <2>2, <2>3, <2>4, <2>6, <2>7, <2>9, <2>10, StateArithmetic DEF JustGranted
  <2>12. StretchedStart(p)'
    BY <2>2, <2>3, <2>4, <2>8 DEF PathInv, JustGranted, StretchedStart
  <2>13. FirstOfEnd(p)'
    BY <2>1, <2>2, <2>3, <2>5, <2>8, StateArithmetic
    DEF PathInv, JustGranted, StretchedStart, FirstOfEnd
  <2>14. StretchedEnd(p)'
    <3>1. stored_on_datavalid_reg'[p] = IF memReaddataValid(p) THEN Heard(p)
                                        ELSE stored_on_datavalid_reg[p]
      BY <1>2 DEF PathNext, ReadShiftRegisters, Heard
    <3> QED
      BY <2>2, <2>3, <2>5, <3>1 DEF PathInv, FirstOfEnd, StretchedEnd, memReaddataValid
  <2>15. LoneEnd(p)'
    <3>1. CASE p \in StalledFSMs
      BY <2>2, <2>4, <2>5, <2>8, <3>1 DEF PathInv, JustGranted, LoneEnd
    <3>2. CASE p \notin StalledFSMs
      BY <2>3, <2>13, <3>2 DEF FirstOfEnd, LoneEnd
    <3> QED
      BY <3>1, <3>2
  <2> QED
    BY <2>11, <2>12, <2>13, <2>14, <2>15
<1>3. CASE UNCHANGED pathVars
  BY <1>1, <1>3 DEF PathInv, pathVars, JustGranted, StretchedStart, FirstOfEnd, StretchedEnd,
                    LoneEnd, Heard, memory_controller_out
<1> QED
  BY <1>2, <1>3

\* A parallel function stores the word of the load that ends, in every cycle of
\* the end state.
THEOREM ReadPathParallelLoads == PathSpec => []ParallelLoadsCorrect
<1>1. PathInv => ParallelLoadsCorrect
  <2> SUFFICES ASSUME PathInv, NEW p \in ParallelPorts, p \in second_state_after_memory_read
               PROVE  LoadWire(p) = WordOf(p)
    BY DEF ParallelLoadsCorrect, GetsItsWord
  <2>1. p \in Ports
    BY ParallelAssumption
  <2> QED
    BY <2>1 DEF PathInv, FirstOfEnd, StretchedEnd, LoadWire, WordOf, TwoAgo,
                stored_on_datavalid, memReaddataValid, Heard
<1> QED
  BY <1>1, PathInvInit, PathStep, PTL DEF PathSpec

\* The master samples the right word as long as no second load is in flight.
THEOREM ReadPathLoneLoads == PathSpec => []MasterLoneLoadsCorrect
<1>1. PathInv => MasterLoneLoadsCorrect
  BY DEF PathInv, LoneEnd, MasterLoneLoadsCorrect, GetsItsWord, LoadWire, WordOf, TwoAgo, Heard
<1> QED
  BY <1>1, PathInvInit, PathStep, PTL DEF PathSpec
=============================================================================
