--------------------------- MODULE HeapAllocator ---------------------------
(***************************************************************************)
(* What malloc_shared and free_shared promise: an allocator that knows     *)
(* nothing but the regions in use.  A request is granted a region, apart   *)
(* from every used one, of its heap or of another heap that serves it, or  *)
(* refused when its heap has no such region.  A heap that serves requests  *)
(* for others keeps for its own only what lies above all regions in use.   *)
(* When the host's own memory is used up the request fails, and the region *)
(* chosen for it may be lost.                                              *)
(***************************************************************************)
EXTENDS Integers

CONSTANTS
    Locations,
    base_addr(_),     \* first address of a heap
    HeapSize(_),
    HeapsServing(_),  \* the heaps that a request can be granted memory of
    ALIGN,
    BlockSize(_),     \* what a request is rounded to
    Sizes

VARIABLES
    used,          \* regions in use, lost ones included
    held,          \* the pointers of the callers
    pending,       \* the request in progress, if any
    hostFailures

vars == <<used, held, pending, hostFailures>>

Init == used = {} /\ held = {} /\ pending = {} /\ hostFailures = 0

Overlap(r, s) == r.addr < s.addr + s.size /\ s.addr < r.addr + r.size

\* Regions of the heap that the request r fits into.
Gaps(r, heap) ==
    {[addr |-> a, size |-> r.size] : a \in
        {a \in base_addr(heap) .. base_addr(heap) + HeapSize(heap) - r.size :
            /\ a % ALIGN = 0
            /\ \A u \in used : ~Overlap([addr |-> a, size |-> r.size], u)}}

\* Regions that the request r can be given.
Candidates(r) == UNION {Gaps(r, heap) : heap \in HeapsServing(r.loc)}

\* Whether the gaps of a heap may be set aside for requests to another one.
ServesOthers(heap) == \E loc \in Locations \ {heap} : heap \in HeapsServing(loc)

BelowUsed(c, heap) ==
    \E u \in used : c.addr < u.addr /\ u.addr <= base_addr(heap) + HeapSize(heap)

Request(size, loc) ==
    /\ pending = {}
    /\ pending' = {[size |-> BlockSize(size), loc |-> loc]}
    /\ UNCHANGED <<used, held, hostFailures>>

Grant(r) ==
    /\ \E c \in Candidates(r) :
        /\ used' = used \cup {c}
        /\ held' = held \cup {[addr |-> c.addr, size |-> c.size, loc |-> r.loc]}
    /\ pending' = {}
    /\ UNCHANGED hostFailures

Refuse(r) ==
    /\ \A c \in Gaps(r, r.loc) : ServesOthers(r.loc) /\ BelowUsed(c, r.loc)
    /\ pending' = {}
    /\ UNCHANGED <<used, held, hostFailures>>

HostOutOfMemory(r) ==
    /\ \E c \in Candidates(r) : used' \in {used, used \cup {c}}
    /\ hostFailures' = hostFailures + 1
    /\ pending' = {}
    /\ UNCHANGED held

Release(p) ==
    /\ pending = {}
    /\ used' = used \ {[addr |-> p.addr, size |-> p.size]}
    /\ held' = held \ {p}
    /\ UNCHANGED <<pending, hostFailures>>

Next ==
    \/ \E size \in Sizes, loc \in Locations : Request(size, loc)
    \/ \E r \in pending : Grant(r) \/ Refuse(r) \/ HostOutOfMemory(r)
    \/ \E p \in held : Release(p)

Spec == Init /\ [][Next]_vars
=============================================================================
