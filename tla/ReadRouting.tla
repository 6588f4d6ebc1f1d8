---------------------------- MODULE ReadRouting ----------------------------
(***************************************************************************)
(* The way back from the memory to the requesters of one arbiter, as        *)
(* GenerateRTL::createMemoryReaddataLogicForParallelInstance builds it.     *)
(* All requesters hear the same read data bus; a two-bit shift register per *)
(* requester marks the cycle in which the word on the bus is its own, and a *)
(* register keeps that word until the next one.  Ports a and b of a         *)
(* requester are granted together and routed alike, so one is modelled.     *)
(***************************************************************************)
EXTENDS RoundRobinArbiter

VARIABLES dataReady0,  \* reg: the requesters whose read was granted last cycle
          dataReady1,  \* reg: those whose word is on the bus now
          out_reg      \* reg: the last word each requester was given

\* Faulty: no register keeps the word while the requester waits.
NoOutReg(p, bus) == bus

\* memory_controller_out of requester p while bus is the parent's read data.
memory_controller_out(p, bus) == IF p \in dataReady1 THEN bus ELSE out_reg[p]

RoutingReset(zero) ==
    /\ dataReady0 = {}
    /\ dataReady1 = {}
    /\ out_reg = [p \in Ports |-> zero]

\* One clock edge: memRead are the requesters with enable and not
\* write_enable, wait is the parent's waitrequest.
RoutingClock(memRead, gnt, wait, bus) ==
    /\ dataReady0' = IF wait THEN dataReady0 ELSE memRead \cap gnt
    /\ dataReady1' = IF Hybrid /\ wait THEN dataReady1 ELSE dataReady0
    /\ out_reg' = [p \in Ports |-> memory_controller_out(p, bus)]
=============================================================================
