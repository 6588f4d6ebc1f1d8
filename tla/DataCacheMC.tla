---------------------------- MODULE DataCacheMC ----------------------------
(***************************************************************************)
(* DataCache with a bounded number of writes, starting from a memory in     *)
(* which neighbouring words differ.                                         *)
(***************************************************************************)
EXTENDS DataCache, FiniteSets

CONSTANTS MaxWrites,  \* writes that the requester makes
          MaxCut      \* lines that resets interrupt and that are still in doubt

VARIABLE writes

mcvars == <<vars, writes>>

MCInit ==
    /\ Init
    /\ memory = [a \in Address |-> [b \in Lanes |-> (a.tag + a.index + a.block + b) % 2]]
    /\ writes = 0

Bounded(A) ==
    /\ A
    /\ writes' = IF cache_state = "IDLE" /\ cache_state' = "ISSUE_WRITE_CHECK_HIT"
                 THEN writes + 1 ELSE writes
    /\ writes' <= MaxWrites
    /\ Cardinality(cut') <= MaxCut

MCSpec == MCInit /\ [][Bounded(Next)]_mcvars /\ WF_mcvars(Bounded(MemoryServes))
=============================================================================
