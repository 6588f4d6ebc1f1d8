---------------------------- MODULE SharedMemory ----------------------------
(***************************************************************************)
(* The allocator for the memory that the host shares with the accelerators *)
(* of the PCIe flow: malloc_shared and free_shared (legup_mem.c) over two  *)
(* heaps, on chip and DDR (legup_mem_shared.c).  Blocks are described by   *)
(* S_NODE records in host memory: "up" and "down" link a block to the ones *)
(* at the next higher and lower address, "prev" and "next" link the free   *)
(* blocks of a heap in a ring, and a search tree (tsearch) finds the used  *)
(* block of an address.  The first free block of a heap is a static node;  *)
(* it stays the topmost block and the end of every search.                 *)
(*                                                                         *)
(* A step is a call of the library up to its return, but the loop of       *)
(* malloc_shared_internal is a step per iteration.  Host memory may run    *)
(* out in malloc and in tsearch.                                           *)
(***************************************************************************)
EXTENDS Integers, FiniteSets

CONSTANTS
    NodeIds,            \* S_NODEs the host's malloc can return
    free_onchip_blk,    \* the static nodes
    free_ddr_blk,
    NULL,
    ONCHIP_TAG_MASK,    \* 0x20000000: the address bit, and the on-chip base
    ONCHIP_HEAP_SIZE,   \* in bytes
    DDR_HEAP_SIZE,      \* in the code 1 GB, twice the mask
    Sizes,              \* the sizes that callers ask for
    MaxHostFailures     \* bound on the times that the host runs out of memory

Statics == {free_onchip_blk, free_ddr_blk}
Nodes == NodeIds \cup Statics
Locations == {"ONCHIP", "DDR2"}
ALIGN == 8

ASSUME MemoryAssumption ==
    /\ free_onchip_blk # free_ddr_blk
    /\ Statics \cap NodeIds = {}
    /\ NULL \notin Nodes
    /\ ONCHIP_TAG_MASK \in Nat /\ ONCHIP_HEAP_SIZE \in Nat /\ DDR_HEAP_SIZE \in Nat
    /\ ONCHIP_HEAP_SIZE < ONCHIP_TAG_MASK
    /\ DDR_HEAP_SIZE <= 2 * ONCHIP_TAG_MASK
    /\ ONCHIP_TAG_MASK % ALIGN = 0 /\ ONCHIP_HEAP_SIZE % ALIGN = 0 /\ DDR_HEAP_SIZE % ALIGN = 0
    /\ Sizes \subseteq Nat
    /\ MaxHostFailures \in Nat

\* DDR_BASE_ADDR, 0x40000000, is the next power of two.
base_addr(loc) == IF loc = "ONCHIP" THEN ONCHIP_TAG_MASK ELSE 2 * ONCHIP_TAG_MASK
HeapSize(loc) == IF loc = "ONCHIP" THEN ONCHIP_HEAP_SIZE ELSE DDR_HEAP_SIZE
FreeBlk(loc) == IF loc = "ONCHIP" THEN free_onchip_blk ELSE free_ddr_blk

\* addr & ONCHIP_TAG_MASK, for addresses below four times the mask.
HasOnchipTag(addr) ==
    \/ ONCHIP_TAG_MASK <= addr /\ addr < 2 * ONCHIP_TAG_MASK
    \/ 3 * ONCHIP_TAG_MASK <= addr

root_node_for_memory_address(addr) ==
    IF HasOnchipTag(addr) THEN free_onchip_blk ELSE free_ddr_blk

\* The heaps whose memory can be in the ring of loc.  A DDR heap of more than the
\* mask, as the code's is, has the on-chip bit in the addresses of its upper half;
\* their blocks join the on-chip ring when they are freed.
HeapsServing(loc) ==
    IF loc = "ONCHIP" /\ DDR_HEAP_SIZE > ONCHIP_TAG_MASK THEN Locations ELSE {loc}

\* At least one unit, rounded up to whole units.
BlockSize(size) == (((IF size < 8 THEN 8 ELSE size) + ALIGN - 1) \div ALIGN) * ALIGN

VARIABLES
    blk,      \* the S_NODEs in host memory
    tree,     \* the nodes in the search tree
    pc,       \* "idle", or "search" inside malloc_shared_internal
    req,      \* size and location of the call in progress
    finger,   \* its loop variable
    held,     \* the pointers that callers have and have not freed
    hostFailures

vars == <<blk, tree, pc, req, finger, held, hostFailures>>

StaticNode(loc) ==
    [addr |-> base_addr(loc), size |-> HeapSize(loc), used |-> FALSE,
     prev |-> FreeBlk(loc), next |-> FreeBlk(loc), up |-> NULL, down |-> NULL]

Init ==
    /\ blk = [n \in Statics |-> IF n = free_onchip_blk THEN StaticNode("ONCHIP")
                                                      ELSE StaticNode("DDR2")]
    /\ tree = {}
    /\ pc = "idle"
    /\ req = [size |-> 0, loc |-> "ONCHIP"]
    /\ finger = NULL
    /\ held = {}
    /\ hostFailures = 0

-----------------------------------------------------------------------------
(* What the helpers do to the nodes b.                                     *)

\* Faulty: only the forward link is repaired.
UnlinkForward(b, f) ==
    [n \in DOMAIN b |-> [b[n] EXCEPT !.next = IF n = b[f].prev THEN b[f].next ELSE @]]

\* Neighbours in the ring no longer point to f.
Unlink(b, f) ==
    [n \in DOMAIN b |->
        [b[n] EXCEPT !.next = IF n = b[f].prev THEN b[f].next ELSE @,
                     !.prev = IF n = b[f].next THEN b[f].prev ELSE @]]

\* The links of a used block are not read until free_used_block sets them;
\* they are NULL here.
use_free_block(b, f) ==
    [Unlink(b, f) EXCEPT ![f].used = TRUE, ![f].prev = NULL, ![f].next = NULL]

\* Faulty: the rest keeps the address of the whole block.
SplitKeepsAddress(b, f, node, size) ==
    [n \in DOMAIN b \cup {node} |->
        CASE n = node -> [addr |-> b[f].addr, size |-> size, used |-> TRUE,
                          prev |-> NULL, next |-> NULL, up |-> f, down |-> b[f].down]
          [] n = f -> [b[f] EXCEPT !.size = @ - size, !.down = node]
          [] n = b[f].down -> [b[n] EXCEPT !.up = node]
          [] OTHER -> b[n]]

\* The new node takes the low end of block f, which keeps the rest.
SplitBlock(b, f, node, size) ==
    [n \in DOMAIN b \cup {node} |->
        CASE n = node -> [addr |-> b[f].addr, size |-> size, used |-> TRUE,
                          prev |-> NULL, next |-> NULL, up |-> f, down |-> b[f].down]
          [] n = f -> [b[f] EXCEPT !.addr = @ + size, !.size = @ - size, !.down = node]
          [] n = b[f].down -> [b[n] EXCEPT !.up = node]
          [] OTHER -> b[n]]

\* Faulty: the block below still points up to the node that was freed.
CoalesceUpOneWay(b, f) ==
    LET d == b[f].down IN
    [[n \in DOMAIN b \ {d} |-> b[n]] EXCEPT
        ![f].addr = b[d].addr, ![f].size = @ + b[d].size, ![f].down = b[d].down]

\* f takes over the block below it; that block's node is freed.
coalesce_up(b, f) ==
    LET d == b[f].down IN
    [n \in DOMAIN b \ {d} |->
        CASE n = f -> [b[f] EXCEPT !.addr = b[d].addr, !.size = @ + b[d].size, !.down = b[d].down]
          [] n = b[d].down -> [b[n] EXCEPT !.up = f]
          [] OTHER -> b[n]]

\* f takes over the block above it.
coalesce_down(b, f) ==
    LET u == b[f].up IN
    [n \in DOMAIN b \ {u} |->
        CASE n = f -> [b[f] EXCEPT !.size = @ + b[u].size, !.up = b[u].up]
          [] n = b[u].up -> [b[n] EXCEPT !.down = f]
          [] OTHER -> b[n]]

\* f becomes the first free block of the heap that its address belongs to.
free_used_block(b, f) ==
    LET root == root_node_for_memory_address(b[f].addr) IN
    [n \in DOMAIN b |->
        CASE n = f -> [b[f] EXCEPT !.used = FALSE, !.next = b[root].next, !.prev = root]
          [] OTHER -> [b[n] EXCEPT !.next = IF n = root THEN f ELSE @,
                                   !.prev = IF n = b[root].next THEN f ELSE @]]

IsFree(b, n) == n # NULL /\ ~b[n].used

\* Faulty: a block that was merged with the one above is not merged with the
\* one below.
CoalesceOnce(b, f) ==
    LET u == b[f].up
        d == b[f].down
    IN  CASE IsFree(b, u) -> coalesce_up(b, u)
          [] ~IsFree(b, u) /\ IsFree(b, d) -> coalesce_down(b, d)
          [] OTHER -> free_used_block(b, f)

free_coalesce(b, f) ==
    LET u == b[f].up
        d == b[f].down
    IN  CASE IsFree(b, u) /\ IsFree(b, d) -> coalesce_up(Unlink(coalesce_up(b, u), d), u)
          [] IsFree(b, u) /\ ~IsFree(b, d) -> coalesce_up(b, u)
          [] ~IsFree(b, u) /\ IsFree(b, d) -> coalesce_down(b, d)
          [] OTHER -> free_used_block(b, f)

\* A tree holds one node per address.
tsearch(b, n) == IF \E t \in tree : b[t].addr = b[n].addr THEN tree ELSE tree \cup {n}
tfind(addr) == {t \in tree : blk[t].addr = addr}

-----------------------------------------------------------------------------
\* Faulty: every search starts in the on-chip ring.
SearchOnchip(size, loc) ==
    /\ pc = "idle"
    /\ pc' = "search"
    /\ req' = [size |-> BlockSize(size), loc |-> loc]
    /\ finger' = blk[free_onchip_blk].next
    /\ UNCHANGED <<blk, tree, held, hostFailures>>

malloc_shared(size, loc) ==
    /\ pc = "idle"
    /\ pc' = "search"
    /\ req' = [size |-> BlockSize(size), loc |-> loc]
    /\ finger' = blk[FreeBlk(loc)].next
    /\ UNCHANGED <<blk, tree, held, hostFailures>>

\* Faulty: an exact fit does not count.
FitsStrictly == blk[finger].size > req.size
Fits == blk[finger].size >= req.size
Return == pc' = "idle" /\ finger' = NULL /\ UNCHANGED req

\* Faulty: the search does not stop at the static node.
NextBlockAlways ==
    /\ pc = "search"
    /\ ~Fits
    /\ finger' = blk[finger].next
    /\ UNCHANGED <<blk, tree, pc, req, held, hostFailures>>

NextBlock ==
    /\ pc = "search"
    /\ ~Fits
    /\ finger # FreeBlk(req.loc)
    /\ finger' = blk[finger].next
    /\ UNCHANGED <<blk, tree, pc, req, held, hostFailures>>

ReturnNull ==
    /\ pc = "search"
    /\ ~Fits
    /\ finger = FreeBlk(req.loc)
    /\ Return
    /\ UNCHANGED <<blk, tree, held, hostFailures>>

HostFails == hostFailures < MaxHostFailures /\ hostFailures' = hostFailures + 1

\* The rest of malloc_shared_internal, once block n is marked as used: the
\* caller gets its address, or NULL when the tree has no memory for it.
Deliver(n) ==
    \/ /\ tree' = tsearch(blk', n)
       /\ held' = held \cup {[addr |-> blk'[n].addr, size |-> req.size, loc |-> req.loc]}
       /\ UNCHANGED hostFailures
    \/ HostFails /\ UNCHANGED <<tree, held>>

\* malloc(sizeof(S_NODE)): any node that is not in use.
NewNode(b) == CHOOSE node \in NodeIds \ DOMAIN b : TRUE

IsExact == blk[finger].size = req.size /\ finger # FreeBlk(req.loc)

TakeBlock ==
    /\ pc = "search"
    /\ Fits /\ IsExact
    /\ blk' = use_free_block(blk, finger)
    /\ Deliver(finger)
    /\ Return

TakePart ==
    /\ pc = "search"
    /\ Fits /\ ~IsExact
    /\ NodeIds \ DOMAIN blk # {}
    /\ LET node == NewNode(blk)
       IN  /\ blk' = SplitBlock(blk, finger, node, req.size)
           /\ Deliver(node)
    /\ Return

\* The host has no memory for the new node.
NoNode ==
    /\ pc = "search"
    /\ Fits /\ ~IsExact
    /\ HostFails
    /\ Return
    /\ UNCHANGED <<blk, tree, held>>

\* A caller frees a pointer that it got; it ends the program on any other.
free_shared(p) ==
    /\ pc = "idle"
    /\ \E f \in tfind(p.addr) :
        /\ blk' = free_coalesce(blk, f)
        /\ tree' = tree \ {f}
    /\ held' = held \ {p}
    /\ UNCHANGED <<pc, req, finger, hostFailures>>

Search == NextBlock \/ ReturnNull \/ TakeBlock \/ TakePart \/ NoNode

Next ==
    \/ \E size \in Sizes, loc \in Locations : malloc_shared(size, loc)
    \/ Search
    \/ \E p \in held : free_shared(p)

\* The library runs in its caller's thread and never waits.
Spec == Init /\ [][Next]_vars /\ WF_vars(Search)

-----------------------------------------------------------------------------
(* Properties.                                                             *)

Used == {n \in DOMAIN blk : blk[n].used}
Free == DOMAIN blk \ Used

\* Every pointer of a live node leads to a live node: no step of malloc or
\* free leaves a pointer to a node that it gave back to the host.
TypeOK ==
    /\ DOMAIN blk \subseteq Nodes /\ Statics \subseteq DOMAIN blk
    /\ blk \in [DOMAIN blk -> [addr : Nat, size : Nat, used : BOOLEAN,
                               prev : DOMAIN blk \cup {NULL}, next : DOMAIN blk \cup {NULL},
                               up : DOMAIN blk \cup {NULL}, down : DOMAIN blk \cup {NULL}]]
    /\ tree \subseteq Used
    /\ pc \in {"idle", "search"}
    /\ req \in [size : Nat, loc : Locations]
    /\ finger \in DOMAIN blk \cup {NULL}
    /\ hostFailures \in 0..MaxHostFailures
    /\ \A p \in held : p \in [addr : Nat, size : Nat, loc : Locations]

Apart(r, s) == r.addr + r.size <= s.addr \/ s.addr + s.size <= r.addr
Within(r, loc) ==
    base_addr(loc) <= r.addr /\ r.addr + r.size <= base_addr(loc) + HeapSize(loc)

\* After any sequence of calls no two pointers that callers hold share a byte:
\* splitting and merging in malloc_shared_internal and free_coalesce keep the
\* blocks apart.
AllocationsDisjoint == \A p, q \in held : p = q \/ Apart(p, q)

\* A caller that asks for DDR gets DDR, never on-chip memory, also from blocks
\* that were freed and merged.  One that asks for on-chip memory gets it from the
\* on-chip heap if no DDR address has the on-chip bit; with the code's DDR heap
\* of twice the mask it may get DDR memory instead (free_used_block).
AllocationsInServingHeap == \A p \in held : \E h \in HeapsServing(p.loc) : Within(p, h)

\* Walked from the two static nodes, in either direction, the rings hold every
\* free block, none twice, and only free blocks: what use_free_block,
\* free_coalesce and free_used_block unlink and link.  A free block outside them
\* is lost, a used one inside is handed out twice.  The blocks of a ring are of
\* its own heap, but for DDR blocks in the on-chip ring when the DDR heap is
\* larger than the mask.
After(n, link) ==
    LET f[k \in 0..Cardinality(DOMAIN blk)] ==
            IF k = 0 THEN n
            ELSE LET m == f[k - 1] IN IF m \in DOMAIN blk THEN blk[m][link] ELSE m
    IN  {f[k] : k \in DOMAIN f}
FreeRingsExact ==
    LET Ring == [loc \in Locations |-> After(FreeBlk(loc), "next")] IN
    /\ Ring["ONCHIP"] \cup Ring["DDR2"] = Free
    /\ Ring["ONCHIP"] \cap Ring["DDR2"] = {}
    /\ \A loc \in Locations :
        /\ After(FreeBlk(loc), "prev") = Ring[loc]
        /\ \A n \in Ring[loc] : \E h \in HeapsServing(loc) : Within(blk[n], h)

\* Whatever the order of the frees, once callers hold nothing, and the host
\* did not fail in tsearch, each heap is again the one block it started as.
EverythingFreedIsOneBlock ==
    Used = {} => \A loc \in Locations :
        /\ blk[FreeBlk(loc)].addr = base_addr(loc)
        /\ blk[FreeBlk(loc)].size = HeapSize(loc)

\* The search of malloc_shared_internal comes back to the static node or finds
\* a block, whatever was freed into the ring before.
MallocReturns == (pc = "search") ~> (pc = "idle")

Abstract == INSTANCE HeapAllocator WITH
    used <- {[addr |-> blk[n].addr, size |-> blk[n].size] : n \in Used},
    pending <- IF pc = "search" THEN {req} ELSE {}

\* The library behaves as an allocator that keeps only the set of used
\* regions: memory is granted in a gap of a heap that serves the request, and
\* NULL is returned only if the requested heap has no gap or the host is out of
\* memory.  With the code's DDR heap of twice the mask, on-chip requests can be
\* granted DDR memory, and DDR requests refused although there is a gap, but only
\* below memory in use: gaps may be in the on-chip ring.
ImplementsAllocator == Abstract!Spec
=============================================================================
