-------------------------- MODULE ArbitratedPorts --------------------------
(***************************************************************************)
(* The arbiter closed with its clients, as generateRoundRobinArbiter-       *)
(* Declaration and createWaitrequestLogic connect them: FSMs that raise     *)
(* memory_controller_enable in some state and stay in that state, enable    *)
(* still high, while their own waitrequest is high.  What a client does     *)
(* next is its own business: it may ask again at once or never.             *)
(***************************************************************************)
EXTENDS RoundRobinArbiter

CONSTANT ParentStalls  \* whether the parent may assert waitrequest

ASSUME StallAssumption == ParentStalls \in BOOLEAN

VARIABLES req_in,       \* the clients whose enable is high in this cycle
          waitrequest,  \* the parent's waitrequest in this cycle
          gnt_reg,      \* hybrid flow: the clients granted last
          age           \* history: the cycles each client has been waiting

vars == <<rotate_ptr, grant, req_in, waitrequest, gnt_reg, age>>

gnt == grant_final(req_in, waitrequest)

\* waitrequest of client i: enabled and not granted, or stalled by the parent,
\* which in the hybrid flow answers one state after the access.
waitrequest_inst(i) ==
    \/ i \in req_in /\ i \notin gnt
    \/ waitrequest /\ i \in (IF Hybrid THEN gnt_reg ELSE gnt)

Stalled == {i \in Ports : waitrequest_inst(i)}

\* The accesses the parent's memory port takes in this cycle.
Taken == req_in \ Stalled

Init ==
    /\ ArbiterReset
    /\ req_in \in SUBSET Ports
    /\ waitrequest \in (IF ParentStalls THEN BOOLEAN ELSE {FALSE})
    /\ gnt_reg = {}
    /\ age = [i \in Ports |-> 0]

\* Faulty: a client does not wait for its grant and gives the access up.
MoveWithoutGrant == \E new \in SUBSET (Ports \ Stalled) : req_in' = new

\* The clients' FSMs: a stalled one holds its state and its request, any other
\* one enters a state with or without a memory access.
ClientsMove ==
    \E new \in SUBSET (Ports \ Stalled) : req_in' = (req_in \cap Stalled) \cup new

\* The grant register of createWaitrequestLogic exists in the hybrid flow only.
GrantRegister ==
    gnt_reg' = IF Hybrid THEN (gnt_reg \cap Stalled) \cup (gnt \ Stalled) ELSE {}

ParentReady == waitrequest' = FALSE

ParentStall == ParentStalls /\ waitrequest' = TRUE

\* Cycles the parent stalls are not counted: no arbiter could use them.
CountWait ==
    age' = [i \in Ports |-> IF i \notin req_in \/ i \in Taken THEN 0
                            ELSE IF waitrequest THEN age[i] ELSE age[i] + 1]

Clock(parent) ==
    /\ ArbiterClock(req_in, waitrequest)
    /\ ClientsMove
    /\ GrantRegister
    /\ parent
    /\ CountWait

Next == Clock(ParentReady) \/ Clock(ParentStall)

\* The clock keeps running and the parent keeps coming back.
Spec == Init /\ [][Next]_vars /\ WF_vars(Clock(ParentReady))
-----------------------------------------------------------------------------
TypeOK ==
    /\ ArbiterTypeOK
    /\ req_in \subseteq Ports
    /\ waitrequest \in BOOLEAN
    /\ gnt_reg \subseteq Ports
    /\ age \in [Ports -> Nat]

\* A client waits for at most two turns of every other client, whatever the
\* others do: the pointer lags the grants by a cycle, so odd and even cycles
\* rotate independently.  2 * (N - 1) is reached; N - 1, the bound of an
\* immediate round robin, does not hold.  (printArbiterModule)
BoundedBypass == \A i \in Ports : age[i] <= 2 * (N - 1)

\* No access is lost and no client is locked out: an enable that went high is
\* taken, as long as the parent does not stall for ever.
EveryRequestServed == \A i \in Ports : i \in req_in ~> i \in Taken
=============================================================================
