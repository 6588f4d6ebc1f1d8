------------------------- MODULE ModuloSchedulerMC -------------------------
(***************************************************************************)
(* ModuloScheduler on two families of loops of four instructions.           *)
(***************************************************************************)
EXTENDS ModuloScheduler

Use(i, j) == [from |-> i, to |-> j, distance |-> 0]

\* Every dependence graph, with a result that the next iteration needs: all or
\* three instructions share a unit of one or two slots, the second one is slow.
Dataflow ==
    {[ops |-> 1 .. 4, latency |-> [o \in 1 .. 4 |-> IF o = 2 THEN 2 ELSE 1],
      deps |-> D \cup {[from |-> 4, to |-> phi, distance |-> 1]},
      fu |-> [o \in F |-> "unit"], issueSlots |-> [f \in {"unit"} |-> slots],
      access |-> {}] :
        D \in SUBSET {Use(d[1], d[2]) : d \in {p \in (1 .. 4) \X (1 .. 4) : p[1] < p[2]}},
        phi \in {1, 2}, F \in {1 .. 4, {1, 3, 4}}, slots \in {1, 2}}

\* Three accesses to the array on a RAM of one or two ports, the first one a
\* load of d[i + 1], and an operation.
Access(o, kind) == [op |-> o, store |-> kind[1], offset |-> kind[2]]
Kinds == BOOLEAN \X (0 .. 2)
ArrayAccess ==
    {[ops |-> 1 .. 4, latency |-> [o \in 1 .. 4 |-> IF o = 2 THEN 1 ELSE IF k[o][1] THEN 0 ELSE 2],
      deps |-> {d \in D : (d.from = 2 \/ ~k[d.from][1]) /\ (d.to = 2 \/ k[d.to][1])},
      fu |-> [o \in {1, 3, 4} |-> "ram"], issueSlots |-> [f \in {"ram"} |-> slots],
      access |-> {Access(o, k[o]) : o \in {1, 3, 4}}] :
        k \in {f \in [{1, 3, 4} -> Kinds] : f[1] = <<FALSE, 1>>},
        D \in SUBSET {Use(1, 2), Use(2, 3), Use(2, 4)}, slots \in {1, 2}}

MCLoops == Dataflow \cup ArrayAccess

\* The defaults of legup.tcl, a budget that runs out, the greedy scheduler and
\* an II asked for by the user.
Setting(scheduler, ratio, ii) ==
    [scheduler |-> scheduler, budgetRatio |-> ratio, user_II |-> ii]
MCSettings ==
    {Setting("SDC_BACKTRACKING", 6, 0), Setting("SDC_BACKTRACKING", 1, 0),
     Setting("SDC_GREEDY", 6, 0), Setting("SDC_BACKTRACKING", 6, 2)}
=============================================================================
