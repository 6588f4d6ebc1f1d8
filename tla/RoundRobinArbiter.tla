------------------------- MODULE RoundRobinArbiter -------------------------
(***************************************************************************)
(* The module round_robin_arbiter that VerilogWriter::printArbiterModule    *)
(* emits into every design with parallel threads.  One arbiter sits between *)
(* the memory ports of the thread instances (and of the master thread) and  *)
(* the single memory port of the parent module.                             *)
(*                                                                         *)
(* A bit vector over the N inputs is the set of the positions that are 1.   *)
(* This module has the registers and the combinational outputs; the modules *)
(* that extend it say who drives req_in and waitrequest.                    *)
(***************************************************************************)
EXTENDS Naturals

CONSTANTS N,       \* parameter N: the number of inputs
          Hybrid   \* LEGUP_CONFIG->isHybridFlow() when the design is printed

\* "note: N must be at least 2": bits 0 and 1 of the pointer always exist.
ASSUME ArbiterSize == N \in Nat /\ N >= 2
ASSUME FlowAssumption == Hybrid \in BOOLEAN

VARIABLES rotate_ptr,  \* reg: the inputs that have priority now
          grant        \* reg: last cycle's grant, feeds the pointer only

Ports == 0 .. (N - 1)

\* The (at most one) least position of a vector: v[i] & ~|v[i-1:0].
LowestBit(v) == {i \in v : \A j \in v : i <= j}

mask_req(req) == req \cap rotate_ptr

grant_comb(req) ==
    IF mask_req(req) # {} THEN LowestBit(mask_req(req)) ELSE LowestBit(req)

\* Only the hybrid flow gates the grant with waitrequest.
grant_final(req, waitrequest) ==
    IF Hybrid /\ waitrequest THEN {} ELSE grant_comb(req)

\* Faulty: the priority never rotates.
FixedPriority(g) == Ports

\* The inputs after the granted one, or all of them after the last one.
PtrAfter(g) == {i \in Ports : N - 1 \in g \/ \E j \in g : j < i}

ArbiterReset == rotate_ptr = Ports /\ grant = {}

\* One clock edge.  The pointer is computed from the registered grant, so it
\* lags the grant it accounts for by one more cycle.
ArbiterClock(req, waitrequest) ==
    /\ rotate_ptr' = IF grant # {} THEN PtrAfter(grant) ELSE rotate_ptr
    /\ grant' = IF waitrequest THEN grant ELSE grant_comb(req) \ grant

ArbiterTypeOK == rotate_ptr \subseteq Ports /\ grant \subseteq Ports
=============================================================================
