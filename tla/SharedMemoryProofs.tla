------------------------- MODULE SharedMemoryProofs -------------------------
(***************************************************************************)
(* Proofs about SharedMemory, for heaps and requests of any size and any   *)
(* sequence of calls and host failures.  The inductive invariant says what *)
(* the S_NODEs look like between two calls: what a pointer may point to    *)
(* (WellFormed), and that the blocks are merged, fill the heaps and can be *)
(* reached through the rings (Whole).  Each helper of the library has a    *)
(* lemma for each part that it keeps it so.  From these follow the type    *)
(* invariant, that allocations are disjoint and in a heap for the request, *)
(* that everything freed is one block again, that the rings hold exactly   *)
(* the free blocks, and that the library implements HeapAllocator.         *)
(***************************************************************************)
EXTENDS SharedMemory, FiniteSetTheorems, WellFoundedInduction, TLAPS

\* A region of memory that requests for loc can be granted.
Serves(r, loc) == \E h \in HeapsServing(loc) : Within(r, h)

Link == Nodes \cup {NULL}
Node == [addr : Nat, size : Nat, used : BOOLEAN, prev : Link, next : Link, up : Link, down : Link]

Typed(b) ==
    /\ DOMAIN b \subseteq Nodes
    /\ Statics \subseteq DOMAIN b
    /\ b \in [DOMAIN b -> Node]

\* Only a static node's block may be empty; it ends where its heap ends.
Placed(b) ==
    /\ \A n \in DOMAIN b \ Statics : b[n].size > 0
    /\ \A n \in DOMAIN b : \E loc \in Locations : Within(b[n], loc)
    /\ \A loc \in Locations :
        LET s == b[FreeBlk(loc)] IN
        /\ Within(s, loc)
        /\ s.addr + s.size = base_addr(loc) + HeapSize(loc)
        /\ ~s.used /\ s.up = NULL

Before(r, s) == r.addr < s.addr /\ r.addr + r.size <= s.addr
Spread(b) == \A m, n \in DOMAIN b : m = n \/ Before(b[m], b[n]) \/ Before(b[n], b[m])

Stacked(b) ==
    \A n \in DOMAIN b :
        /\ b[n].up # NULL =>
            /\ b[n].up \in DOMAIN b
            /\ b[b[n].up].down = n
            /\ b[b[n].up].addr = b[n].addr + b[n].size
        /\ b[n].down # NULL =>
            /\ b[n].down \in DOMAIN b
            /\ b[b[n].down].up = n
            /\ b[n].addr = b[b[n].down].addr + b[b[n].down].size

InRing(b, x, n) == n \in DOMAIN b /\ ~b[n].used /\ n # x

\* The free blocks are in rings; x, a free block that was just unlinked, is not.
Ringed(b, x) ==
    \A n \in DOMAIN b :
        /\ b[n].used => b[n].next = NULL /\ b[n].prev = NULL
        /\ InRing(b, x, n) =>
            /\ InRing(b, x, b[n].next) /\ InRing(b, x, b[n].prev)
            /\ b[b[n].next].prev = n /\ b[b[n].prev].next = n

WellFormed(b, x) == Typed(b) /\ Placed(b) /\ Spread(b) /\ Stacked(b) /\ Ringed(b, x)

-----------------------------------------------------------------------------
(* The static nodes and the heaps.                                         *)

LEMMA StaticFacts ==
    /\ \A loc \in Locations : FreeBlk(loc) \in Statics
    /\ \A s \in Statics : \E loc \in Locations : s = FreeBlk(loc)
    /\ FreeBlk("ONCHIP") # FreeBlk("DDR2")
    /\ Statics \subseteq Nodes /\ NULL \notin Nodes
    /\ \A loc \in Locations : base_addr(loc) \in Nat /\ HeapSize(loc) \in Nat
    BY MemoryAssumption DEF Statics, Locations, FreeBlk, Nodes, base_addr, HeapSize

\* A region lies in one heap only.
LEMMA OneHeap ==
    ASSUME NEW r, r.addr \in Nat, r.size \in Nat,
           NEW l \in Locations, NEW m \in Locations, Within(r, l), Within(r, m)
    PROVE  l = m
    BY MemoryAssumption DEF Locations, Within, base_addr, HeapSize

\* Two regions of which one begins where the other ends lie in the same heap.
LEMMA AdjacentSameHeap ==
    ASSUME NEW r, r.addr \in Nat, r.size \in Nat,
           NEW s, s.addr \in Nat, s.size \in Nat, s.addr = r.addr + r.size,
           NEW l \in Locations, NEW m \in Locations, Within(r, l), Within(s, m)
    PROVE  l = m
    BY MemoryAssumption DEF Locations, Within, base_addr, HeapSize

\* So do two that begin, or end, at the same address.
LEMMA TouchingSameHeap ==
    ASSUME NEW r, r.addr \in Nat, r.size \in Nat, NEW s, s.addr \in Nat, s.size \in Nat,
           s.addr = r.addr \/ s.addr + s.size = r.addr + r.size,
           NEW l \in Locations, NEW m \in Locations, Within(r, l), Within(s, m)
    PROVE  l = m
    BY MemoryAssumption DEF Locations, Within, base_addr, HeapSize

\* Only on-chip requests are served by the other heap.
LEMMA HeapsServingFacts ==
    /\ \A loc \in Locations : loc \in HeapsServing(loc) /\ HeapsServing(loc) \subseteq Locations
    /\ HeapsServing("DDR2") = {"DDR2"}
    /\ DDR_HEAP_SIZE <= ONCHIP_TAG_MASK => HeapsServing("ONCHIP") = {"ONCHIP"}
    /\ DDR_HEAP_SIZE > ONCHIP_TAG_MASK => HeapsServing("ONCHIP") = Locations
    BY MemoryAssumption DEF HeapsServing, Locations

LEMMA NodeFields ==
    ASSUME NEW b, Typed(b), NEW n \in DOMAIN b
    PROVE  /\ b[n] \in Node
           /\ b[n].addr \in Nat /\ b[n].size \in Nat /\ b[n].used \in BOOLEAN
           /\ b[n].prev \in Link /\ b[n].next \in Link /\ b[n].up \in Link /\ b[n].down \in Link
           /\ n # NULL
    BY MemoryAssumption DEF Typed, Node, Nodes, Statics

-----------------------------------------------------------------------------
(* The helpers.                                                            *)

LEMMA UnlinkKeeps ==
    ASSUME NEW b, WellFormed(b, NULL), NEW d \in DOMAIN b \ Statics, ~b[d].used
    PROVE  /\ WellFormed(Unlink(b, d), d)
           /\ DOMAIN Unlink(b, d) = DOMAIN b
           /\ \A n \in DOMAIN b :
                /\ Unlink(b, d)[n].addr = b[n].addr
                /\ Unlink(b, d)[n].size = b[n].size
                /\ Unlink(b, d)[n].used = b[n].used
                /\ Unlink(b, d)[n].up = b[n].up
                /\ Unlink(b, d)[n].down = b[n].down
  <1> DEFINE c == Unlink(b, d)
  <1>1. Typed(b) /\ Placed(b) /\ Spread(b) /\ Stacked(b) /\ Ringed(b, NULL)
    BY DEF WellFormed
  <1>2. DOMAIN c = DOMAIN b
    BY DEF Unlink
  <1>3. \A n \in DOMAIN b :
            /\ c[n] \in Node
            /\ c[n].addr = b[n].addr /\ c[n].size = b[n].size /\ c[n].used = b[n].used
            /\ c[n].up = b[n].up /\ c[n].down = b[n].down
            /\ c[n].next = IF n = b[d].prev THEN b[d].next ELSE b[n].next
            /\ c[n].prev = IF n = b[d].next THEN b[d].prev ELSE b[n].prev
    BY <1>1, NodeFields DEF Unlink, Node
  <1> HIDE DEF c
  <1>4. Typed(c)
    <2>1. c = [n \in DOMAIN c |-> c[n]]
      BY DEF c, Unlink
    <2> QED BY <1>1, <1>2, <1>3, <2>1 DEF Typed
  <1>5. Placed(c)
    BY <1>1, <1>2, <1>3, StaticFacts DEF Placed, Within, Typed
  <1>6. Spread(c)
    BY <1>1, <1>2, <1>3 DEF Spread, Before
  <1>7. Stacked(c)
    BY <1>1, <1>2, <1>3 DEF Stacked
  <1>8. Ringed(c, d)
    <2>1. InRing(b, NULL, d) /\ d # NULL
      BY <1>1, NodeFields DEF InRing
    <2>2. \A n \in DOMAIN b : InRing(c, d, n) <=> InRing(b, NULL, n) /\ n # d
      BY <1>1, <1>2, <1>3, NodeFields DEF InRing
    <2>3. ASSUME NEW n \in DOMAIN c, InRing(c, d, n)
          PROVE  /\ InRing(c, d, c[n].next) /\ InRing(c, d, c[n].prev)
                 /\ c[c[n].next].prev = n /\ c[c[n].prev].next = n
      BY <1>1, <1>2, <1>3, <2>1, <2>2, <2>3 DEF Ringed, InRing
    <2>4. \A n \in DOMAIN c : c[n].used => c[n].next = NULL /\ c[n].prev = NULL
      BY <1>1, <1>2, <1>3, <2>1 DEF Ringed, InRing
    <2> QED BY <2>3, <2>4 DEF Ringed
  <1> QED BY <1>2, <1>3, <1>4, <1>5, <1>6, <1>7, <1>8 DEF WellFormed, c

\* Merging a free block f with the block d below it, which no ring holds.
LEMMA CoalesceUpKeeps ==
    ASSUME NEW b, NEW x, WellFormed(b, x), NEW f \in DOMAIN b, ~b[f].used, f # x,
           b[f].down # NULL, (b[b[f].down].used /\ x = NULL) \/ x = b[f].down
    PROVE  /\ WellFormed(coalesce_up(b, f), NULL)
           /\ b[f].down \in DOMAIN b \ Statics
           /\ DOMAIN coalesce_up(b, f) = DOMAIN b \ {b[f].down}
           /\ coalesce_up(b, f)[f].down = b[b[f].down].down
           /\ \A n \in DOMAIN coalesce_up(b, f) :
                /\ coalesce_up(b, f)[n].used = b[n].used
                /\ n # f => /\ coalesce_up(b, f)[n].addr = b[n].addr
                            /\ coalesce_up(b, f)[n].size = b[n].size
  <1> DEFINE c == coalesce_up(b, f)
             d == b[f].down
  <1>1. Typed(b) /\ Placed(b) /\ Spread(b) /\ Stacked(b) /\ Ringed(b, x)
    BY DEF WellFormed
  <1>2. DOMAIN c = DOMAIN b \ {d}
    BY DEF coalesce_up
  <1>3. /\ d \in DOMAIN b /\ d # f /\ b[d].up = f /\ b[f].addr = b[d].addr + b[d].size
        /\ b[d].down # f /\ b[d].down # d
    <2>1. d \in DOMAIN b /\ b[d].up = f /\ b[f].addr = b[d].addr + b[d].size
      BY <1>1 DEF Stacked
    <2>2. d # f
      <3>1. SUFFICES ASSUME d = f PROVE FALSE
        OBVIOUS
      <3>2. b[f].size = 0
        BY <2>1, <3>1, <1>1, NodeFields
      <3>3. f \in Statics
        BY <1>1, <3>2 DEF Placed
      <3>4. b[f].up = NULL
        BY <1>1, <3>3, StaticFacts DEF Placed
      <3> QED BY <3>1, <3>4, <2>1, <1>1, NodeFields
    <2>3. b[d].size > 0
      BY <2>1, <1>1, NodeFields, StaticFacts DEF Placed
    <2>4. b[d].down # f /\ b[d].down # d
      BY <2>1, <2>3, <1>1, NodeFields DEF Stacked
    <2> QED BY <2>1, <2>2, <2>4
  <1>4. d \notin Statics
    BY <1>1, <1>3, NodeFields, StaticFacts DEF Placed
  <1>5. \A n \in DOMAIN c :
            /\ c[n] \in Node
            /\ c[n].used = b[n].used /\ c[n].next = b[n].next /\ c[n].prev = b[n].prev
            /\ c[n].addr = IF n = f THEN b[d].addr ELSE b[n].addr
            /\ c[n].size = IF n = f THEN b[f].size + b[d].size ELSE b[n].size
            /\ c[n].down = IF n = f THEN b[d].down ELSE b[n].down
            /\ c[n].up = IF n # f /\ n = b[d].down THEN f ELSE b[n].up
    <2> SUFFICES ASSUME NEW n \in DOMAIN c
                 PROVE  /\ c[n] \in Node
                        /\ c[n].used = b[n].used /\ c[n].next = b[n].next /\ c[n].prev = b[n].prev
                        /\ c[n].addr = IF n = f THEN b[d].addr ELSE b[n].addr
                        /\ c[n].size = IF n = f THEN b[f].size + b[d].size ELSE b[n].size
                        /\ c[n].down = IF n = f THEN b[d].down ELSE b[n].down
                        /\ c[n].up = IF n # f /\ n = b[d].down THEN f ELSE b[n].up
      OBVIOUS
    <2>1. b[n] \in Node /\ b[f] \in Node /\ b[d] \in Node /\ f \in Link /\ n \in DOMAIN b \ {d}
      BY <1>1, <1>2, <1>3, NodeFields DEF Typed, Link
    <2>2. c[n] = CASE n = f -> [b[f] EXCEPT !.addr = b[d].addr, !.size = @ + b[d].size, !.down = b[d].down]
                   [] n = b[d].down -> [b[n] EXCEPT !.up = f]
                   [] OTHER -> b[n]
      BY <2>1 DEF coalesce_up
    <2> HIDE DEF c
    <2>3. CASE n = f
      <3>1. c[n] = [b[f] EXCEPT !.addr = b[d].addr, !.size = @ + b[d].size, !.down = b[d].down]
        BY <1>3, <2>2, <2>3
      <3>2. b[d].addr \in Nat /\ b[f].size + b[d].size \in Nat /\ b[d].down \in Link
        BY <1>1, <1>3, NodeFields
      <3> QED BY <3>1, <3>2, <2>1, <2>3 DEF Node
    <2>4. CASE n # f /\ n = b[d].down
      <3>1. c[n] = [b[n] EXCEPT !.up = f]
        BY <2>2, <2>4
      <3> QED BY <3>1, <2>1, <2>4 DEF Node
    <2>5. CASE n # f /\ n # b[d].down
      BY <2>2, <2>1, <2>5 DEF Node
    <2> QED BY <2>3, <2>4, <2>5
  <1>6. Typed(c)
    <2>1. c = [n \in DOMAIN c |-> c[n]]
      BY DEF coalesce_up
    <2> HIDE DEF c
    <2> QED BY <1>1, <1>2, <1>4, <1>5, <2>1 DEF Typed
  <1> HIDE DEF c
  <1>7. Placed(c)
    <2>1. \A n \in DOMAIN c \ Statics : c[n].size > 0
      BY <1>1, <1>2, <1>3, <1>5, NodeFields DEF Placed
    <2>2. \A n \in DOMAIN c : \E loc \in Locations : Within(c[n], loc)
      <3> SUFFICES ASSUME NEW n \in DOMAIN c PROVE \E loc \in Locations : Within(c[n], loc)
        OBVIOUS
      <3>1. PICK loc \in Locations : Within(b[n], loc)
        BY <1>1, <1>2 DEF Placed
      <3>2. CASE n # f
        BY <3>1, <3>2, <1>5 DEF Within
      <3>3. CASE n = f
        <4>1. PICK m \in Locations : Within(b[d], m)
          BY <1>1, <1>3 DEF Placed
        <4>2. m = loc
          BY <3>1, <3>3, <4>1, <1>1, <1>3, NodeFields, AdjacentSameHeap
        <4> QED BY <3>1, <3>3, <4>1, <4>2, <1>1, <1>3, <1>5, NodeFields, StaticFacts DEF Within
      <3> QED BY <3>2, <3>3
    <2>3. ASSUME NEW loc \in Locations
          PROVE  LET s == c[FreeBlk(loc)] IN
                 /\ Within(s, loc)
                 /\ s.addr + s.size = base_addr(loc) + HeapSize(loc)
                 /\ ~s.used /\ s.up = NULL
      <3>1. FreeBlk(loc) \in DOMAIN b \ {d}
        BY <1>1, <1>4, StaticFacts DEF Typed
      <3>2. FreeBlk(loc) # b[d].down
        <4>1. b[FreeBlk(loc)].up = NULL
          BY <1>1 DEF Placed
        <4> QED BY <4>1, <1>1, <1>3, <3>1, NodeFields DEF Stacked
      <3>3. /\ Within(b[FreeBlk(loc)], loc)
            /\ b[FreeBlk(loc)].addr + b[FreeBlk(loc)].size = base_addr(loc) + HeapSize(loc)
            /\ ~b[FreeBlk(loc)].used /\ b[FreeBlk(loc)].up = NULL
        BY <1>1 DEF Placed
      <3>4. CASE FreeBlk(loc) # f
        BY <3>1, <3>2, <3>3, <3>4, <1>2, <1>5 DEF Within
      <3>5. CASE FreeBlk(loc) = f
        <4>1. PICK m \in Locations : Within(b[d], m)
          BY <1>1, <1>3 DEF Placed
        <4>2. m = loc
          BY <3>3, <3>5, <4>1, <1>1, <1>3, NodeFields, AdjacentSameHeap
        <4> QED BY <3>1, <3>3, <3>5, <4>1, <4>2, <1>1, <1>2, <1>3, <1>5, NodeFields, StaticFacts DEF Within
      <3> QED BY <3>4, <3>5
    <2> QED BY <2>1, <2>2, <2>3 DEF Placed
  <1>8. Spread(c)
    <2> SUFFICES ASSUME NEW m \in DOMAIN c, NEW n \in DOMAIN c, m # n
                 PROVE  Before(c[m], c[n]) \/ Before(c[n], c[m])
      BY DEF Spread
    <2>1. /\ Before(b[m], b[n]) \/ Before(b[n], b[m])
          /\ Before(b[m], b[d]) \/ Before(b[d], b[m])
          /\ Before(b[n], b[d]) \/ Before(b[d], b[n])
          /\ b[d].size > 0
      BY <1>1, <1>2, <1>3, <1>4 DEF Spread, Placed
    <2> QED BY <2>1, <1>1, <1>2, <1>3, <1>5, NodeFields DEF Before
  <1>9. Stacked(c)
    <2> SUFFICES ASSUME NEW n \in DOMAIN c
                 PROVE  /\ c[n].up # NULL =>
                            /\ c[n].up \in DOMAIN c
                            /\ c[c[n].up].down = n
                            /\ c[c[n].up].addr = c[n].addr + c[n].size
                        /\ c[n].down # NULL =>
                            /\ c[n].down \in DOMAIN c
                            /\ c[c[n].down].up = n
                            /\ c[n].addr = c[c[n].down].addr + c[c[n].down].size
      BY DEF Stacked
    <2>1. CASE n = f
      BY <2>1, <1>1, <1>2, <1>3, <1>5, NodeFields DEF Stacked
    <2>2. CASE n # f /\ n = b[d].down
      <3>1. /\ c[n].up = f /\ c[n].down = b[n].down /\ c[n].addr = b[n].addr /\ c[n].size = b[n].size
            /\ f \in DOMAIN c /\ c[f].down = n /\ c[f].addr = b[d].addr
            /\ n \in DOMAIN b
        BY <2>2, <1>2, <1>3, <1>5
      <3>2. b[d].addr = b[n].addr + b[n].size
        BY <2>2, <1>1, <1>3, <3>1, NodeFields DEF Stacked
      <3>3. ASSUME b[n].down # NULL
            PROVE  /\ b[n].down \in DOMAIN c
                   /\ c[b[n].down].up = n
                   /\ b[n].addr = c[b[n].down].addr + c[b[n].down].size
        <4>1. /\ b[n].down \in DOMAIN b /\ b[b[n].down].up = n
              /\ b[n].addr = b[b[n].down].addr + b[b[n].down].size
          BY <1>1, <3>1, <3>3 DEF Stacked
        <4>2. b[n].down # d
          BY <4>1, <2>2, <1>3
        <4>3. b[n].down # f
          <5>1. b[n].down = f => b[n].addr = b[d].addr + b[d].size + b[f].size
            BY <4>1, <1>1, <1>3, NodeFields
          <5>2. b[d].size > 0 /\ b[n].size \in Nat /\ b[f].size \in Nat /\ b[d].addr \in Nat
                /\ b[n].addr \in Nat /\ b[d].size \in Nat
            BY <1>1, <1>3, <1>4, <3>1, NodeFields DEF Placed
          <5> QED BY <5>1, <5>2, <3>2
        <4>4. b[n].down # n
          BY <4>1, <3>1, <3>2, <1>1, <1>3, <1>4, <2>2, NodeFields DEF Stacked, Placed
        <4> QED BY <4>1, <4>2, <4>3, <4>4, <2>2, <1>2, <1>5
      <3> QED BY <3>1, <3>2, <3>3, <1>1, <1>3, NodeFields
    <2>3. CASE n # f /\ n # b[d].down
      <3>1. c[n].up = b[n].up /\ c[n].down = b[n].down /\ n \in DOMAIN b /\ n # d
            /\ c[n].addr = b[n].addr /\ c[n].size = b[n].size
        BY <2>3, <1>2, <1>5
      <3>2. ASSUME b[n].up # NULL
            PROVE  /\ b[n].up \in DOMAIN c
                   /\ c[b[n].up].down = n
                   /\ c[b[n].up].addr = c[n].addr + c[n].size
        <4>1. b[n].up \in DOMAIN c /\ b[n].up # f
          BY <2>3, <3>1, <3>2, <1>1, <1>2, <1>3 DEF Stacked
        <4> QED BY <4>1, <2>3, <3>1, <3>2, <1>1, <1>2, <1>5 DEF Stacked
      <3>3. ASSUME b[n].down # NULL
            PROVE  /\ b[n].down \in DOMAIN c
                   /\ c[b[n].down].up = n
                   /\ c[n].addr = c[b[n].down].addr + c[b[n].down].size
        <4>1. b[n].down \in DOMAIN c
          BY <2>3, <3>1, <3>3, <1>1, <1>2, <1>3 DEF Stacked
        <4>2. b[n].down = f => b[f].up = n
          BY <3>1, <3>3, <1>1 DEF Stacked
        <4>3. /\ c[b[n].down].up = n
              /\ c[n].addr = c[b[n].down].addr + c[b[n].down].size
          <5>1. b[b[n].down].up = n /\ b[n].addr = b[b[n].down].addr + b[b[n].down].size
            BY <3>1, <3>3, <1>1 DEF Stacked
          <5>2. CASE b[n].down = f
            BY <5>1, <5>2, <4>1, <2>3, <1>1, <1>3, <1>5, NodeFields
          <5>3. CASE b[n].down # f
            <6>1. b[n].down # b[d].down
              BY <5>1, <3>1, <3>3, <1>1, <1>3 DEF Stacked
            <6> QED BY <5>1, <5>3, <6>1, <4>1, <2>3, <1>5
          <5> QED BY <5>2, <5>3
        <4> QED BY <4>1, <4>3
      <3> QED BY <3>1, <3>2, <3>3
    <2> QED BY <2>1, <2>2, <2>3
  <1>10. Ringed(c, NULL)
    <2>1. \A n \in DOMAIN c : InRing(c, NULL, n) <=> InRing(b, x, n)
      BY <1>1, <1>2, <1>3, <1>5, NodeFields DEF InRing
    <2>2. \A n : InRing(b, x, n) => n \in DOMAIN c
      BY <1>2, <1>3 DEF InRing
    <2>3. ASSUME NEW n \in DOMAIN c, InRing(c, NULL, n)
          PROVE  /\ InRing(c, NULL, c[n].next) /\ InRing(c, NULL, c[n].prev)
                 /\ c[c[n].next].prev = n /\ c[c[n].prev].next = n
                 /\ c[n].next \in DOMAIN c /\ c[n].prev \in DOMAIN c
      <3>1. InRing(b, x, n) /\ n \in DOMAIN b
        BY <2>1, <2>3, <1>2
      <3>2. /\ InRing(b, x, b[n].next) /\ InRing(b, x, b[n].prev)
            /\ b[b[n].next].prev = n /\ b[b[n].prev].next = n
        BY <1>1, <3>1 DEF Ringed
      <3> QED BY <3>1, <3>2, <1>5, <2>1, <2>2
    <2>4. \A n \in DOMAIN c : c[n].used => c[n].next = NULL /\ c[n].prev = NULL
      BY <1>1, <1>2, <1>5 DEF Ringed
    <2> QED BY <2>3, <2>4 DEF Ringed
  <1> QED BY <1>2, <1>3, <1>4, <1>5, <1>6, <1>7, <1>8, <1>9, <1>10 DEF WellFormed, c

\* Merging a free block f with the used block u above it.
LEMMA CoalesceDownKeeps ==
    ASSUME NEW b, WellFormed(b, NULL), NEW f \in DOMAIN b, ~b[f].used,
           b[f].up # NULL, b[b[f].up].used
    PROVE  /\ WellFormed(coalesce_down(b, f), NULL)
           /\ DOMAIN coalesce_down(b, f) = DOMAIN b \ {b[f].up}
           /\ \A n \in DOMAIN coalesce_down(b, f) :
                /\ coalesce_down(b, f)[n].used = b[n].used
                /\ n # f => /\ coalesce_down(b, f)[n].addr = b[n].addr
                            /\ coalesce_down(b, f)[n].size = b[n].size
  <1> DEFINE c == coalesce_down(b, f)
             u == b[f].up
  <1>1. Typed(b) /\ Placed(b) /\ Spread(b) /\ Stacked(b) /\ Ringed(b, NULL)
    BY DEF WellFormed
  <1>2. DOMAIN c = DOMAIN b \ {u}
    BY DEF coalesce_down
  <1>3. /\ u \in DOMAIN b /\ u # f /\ b[u].down = f /\ b[u].addr = b[f].addr + b[f].size
        /\ u \notin Statics /\ f \notin Statics /\ b[u].size > 0 /\ b[f].size > 0
    <2>1. u \in DOMAIN b /\ u # f /\ b[u].down = f /\ b[u].addr = b[f].addr + b[f].size
      BY <1>1 DEF Stacked
    <2>2. u \notin Statics /\ f \notin Statics
      BY <1>1, StaticFacts DEF Placed
    <2> QED BY <2>1, <2>2, <1>1 DEF Placed
  <1>4. b[u].up # f /\ b[u].up # u
    BY <1>3, <1>1, NodeFields DEF Stacked
  <1>5. \A n \in DOMAIN c :
            /\ c[n] \in Node
            /\ c[n].used = b[n].used /\ c[n].next = b[n].next /\ c[n].prev = b[n].prev
            /\ c[n].addr = b[n].addr
            /\ c[n].size = IF n = f THEN b[f].size + b[u].size ELSE b[n].size
            /\ c[n].up = IF n = f THEN b[u].up ELSE b[n].up
            /\ c[n].down = IF n # f /\ n = b[u].up THEN f ELSE b[n].down
    <2> SUFFICES ASSUME NEW n \in DOMAIN c
                 PROVE  /\ c[n] \in Node
                        /\ c[n].used = b[n].used /\ c[n].next = b[n].next /\ c[n].prev = b[n].prev
                        /\ c[n].addr = b[n].addr
                        /\ c[n].size = IF n = f THEN b[f].size + b[u].size ELSE b[n].size
                        /\ c[n].up = IF n = f THEN b[u].up ELSE b[n].up
                        /\ c[n].down = IF n # f /\ n = b[u].up THEN f ELSE b[n].down
      OBVIOUS
    <2>1. b[n] \in Node /\ b[f] \in Node /\ b[u] \in Node /\ f \in Link /\ n \in DOMAIN b \ {u}
      BY <1>1, <1>2, <1>3, NodeFields DEF Typed, Link
    <2>2. c[n] = CASE n = f -> [b[f] EXCEPT !.size = @ + b[u].size, !.up = b[u].up]
                   [] n = b[u].up -> [b[n] EXCEPT !.down = f]
                   [] OTHER -> b[n]
      BY <2>1 DEF coalesce_down
    <2> HIDE DEF c
    <2>3. CASE n = f
      <3>1. c[n] = [b[f] EXCEPT !.size = @ + b[u].size, !.up = b[u].up]
        BY <1>4, <2>2, <2>3
      <3>2. b[f].size + b[u].size \in Nat /\ b[u].up \in Link
        BY <1>1, <1>3, NodeFields
      <3> QED BY <3>1, <3>2, <2>1, <2>3 DEF Node
    <2>4. CASE n # f /\ n = b[u].up
      <3>1. c[n] = [b[n] EXCEPT !.down = f]
        BY <2>2, <2>4
      <3> QED BY <3>1, <2>1, <2>4 DEF Node
    <2>5. CASE n # f /\ n # b[u].up
      BY <2>2, <2>1, <2>5 DEF Node
    <2> QED BY <2>3, <2>4, <2>5
  <1>6. Typed(c)
    <2>1. c = [n \in DOMAIN c |-> c[n]]
      BY DEF coalesce_down
    <2> HIDE DEF c
    <2> QED BY <1>1, <1>2, <1>3, <1>5, <2>1 DEF Typed
  <1> HIDE DEF c
  <1>7. \E loc \in Locations : Within(c[f], loc) /\ Within(b[f], loc)
    <2>1. PICK l \in Locations : Within(b[f], l)
      BY <1>1 DEF Placed
    <2>2. PICK m \in Locations : Within(b[u], m)
      BY <1>1, <1>3 DEF Placed
    <2>3. l = m
      BY <2>1, <2>2, <1>1, <1>3, NodeFields, AdjacentSameHeap
    <2> QED BY <2>1, <2>2, <2>3, <1>1, <1>2, <1>3, <1>5, NodeFields, StaticFacts DEF Within
  <1>8. Placed(c)
    <2>1. \A n \in DOMAIN c \ Statics : c[n].size > 0
      BY <1>1, <1>2, <1>3, <1>5, NodeFields DEF Placed
    <2>2. \A n \in DOMAIN c : \E loc \in Locations : Within(c[n], loc)
      <3>1. \A n \in DOMAIN c \ {f} : \E loc \in Locations : Within(b[n], loc)
        BY <1>1, <1>2 DEF Placed
      <3>2. \A n \in DOMAIN c \ {f} : \E loc \in Locations : Within(c[n], loc)
        BY <3>1, <1>5 DEF Within
      <3> QED BY <3>2, <1>7
    <2>3. \A loc \in Locations : FreeBlk(loc) \in DOMAIN c \ {f}
      BY <1>1, <1>2, <1>3, StaticFacts DEF Typed
    <2>4. \A loc \in Locations :
            LET s == c[FreeBlk(loc)] IN
            /\ Within(s, loc)
            /\ s.addr + s.size = base_addr(loc) + HeapSize(loc)
            /\ ~s.used /\ s.up = NULL
      BY <2>3, <1>1, <1>5 DEF Placed, Within
    <2> QED BY <2>1, <2>2, <2>4 DEF Placed
  <1>9. Spread(c)
    <2> SUFFICES ASSUME NEW m \in DOMAIN c, NEW n \in DOMAIN c, m # n
                 PROVE  Before(c[m], c[n]) \/ Before(c[n], c[m])
      BY DEF Spread
    <2>1. /\ Before(b[m], b[n]) \/ Before(b[n], b[m])
          /\ Before(b[m], b[u]) \/ Before(b[u], b[m])
          /\ Before(b[n], b[u]) \/ Before(b[u], b[n])
      BY <1>1, <1>2, <1>3 DEF Spread
    <2> QED BY <2>1, <1>1, <1>2, <1>3, <1>5, NodeFields DEF Before
  <1>10. Stacked(c)
    <2> SUFFICES ASSUME NEW n \in DOMAIN c
                 PROVE  /\ c[n].up # NULL =>
                            /\ c[n].up \in DOMAIN c
                            /\ c[c[n].up].down = n
                            /\ c[c[n].up].addr = c[n].addr + c[n].size
                        /\ c[n].down # NULL =>
                            /\ c[n].down \in DOMAIN c
                            /\ c[c[n].down].up = n
                            /\ c[n].addr = c[c[n].down].addr + c[c[n].down].size
      BY DEF Stacked
    <2>1. CASE n = f
      <3>1. ASSUME b[u].up # NULL
            PROVE  /\ b[u].up \in DOMAIN c
                   /\ c[b[u].up].down = n
                   /\ c[b[u].up].addr = c[n].addr + c[n].size
        <4>1. b[u].up \in DOMAIN b /\ b[b[u].up].addr = b[u].addr + b[u].size
          BY <3>1, <1>1, <1>3 DEF Stacked
        <4> QED BY <4>1, <2>1, <1>1, <1>2, <1>3, <1>4, <1>5, NodeFields
      <3>2. ASSUME b[f].down # NULL
            PROVE  /\ b[f].down \in DOMAIN c
                   /\ c[b[f].down].up = n
                   /\ c[n].addr = c[b[f].down].addr + c[b[f].down].size
        <4>1. /\ b[f].down \in DOMAIN b /\ b[b[f].down].up = f
              /\ b[f].addr = b[b[f].down].addr + b[b[f].down].size
          BY <3>2, <1>1 DEF Stacked
        <4>2. b[f].down # f /\ b[f].down # u
          BY <4>1, <1>1, <1>3, <1>4, NodeFields
        <4> QED BY <4>1, <4>2, <2>1, <1>2, <1>5
      <3> QED BY <3>1, <3>2, <2>1, <1>4, <1>5
    <2>2. CASE n # f /\ n = b[u].up
      <3>1. /\ c[n].down = f /\ c[n].up = b[n].up /\ c[n].addr = b[n].addr /\ c[n].size = b[n].size
            /\ f \in DOMAIN c /\ c[f].up = n /\ c[f].addr = b[f].addr
            /\ c[f].size = b[f].size + b[u].size
            /\ n \in DOMAIN b
        BY <2>2, <1>2, <1>3, <1>5
      <3>2. b[n].addr = b[u].addr + b[u].size /\ b[n].down = u
        BY <2>2, <1>1, <1>3, <3>1, NodeFields DEF Stacked
      <3>3. ASSUME b[n].up # NULL
            PROVE  /\ b[n].up \in DOMAIN c
                   /\ c[b[n].up].down = n
                   /\ c[b[n].up].addr = b[n].addr + b[n].size
        <4>1. /\ b[n].up \in DOMAIN b /\ b[b[n].up].down = n
              /\ b[b[n].up].addr = b[n].addr + b[n].size
          BY <1>1, <3>1, <3>3 DEF Stacked
        <4>2. b[n].up # u
          BY <4>1, <2>2, <1>3
        <4>3. b[n].up # n
          BY <4>1, <3>2, <2>2, <1>3, <1>4
        <4>4. b[n].up # f
          <5>1. b[n].up = f => b[f].addr = b[u].addr + b[u].size + b[n].size
            BY <4>1, <3>2
          <5>2. /\ b[u].size \in Nat /\ b[n].size \in Nat /\ b[f].size \in Nat
                /\ b[f].addr \in Nat /\ b[u].addr \in Nat
            BY <1>1, <1>3, <3>1, NodeFields
          <5> QED BY <5>1, <5>2, <1>3
        <4> QED BY <4>1, <4>2, <4>3, <4>4, <2>2, <1>2, <1>5
      <3>4. c[n].addr = c[f].addr + c[f].size
        BY <3>1, <3>2, <1>1, <1>3, NodeFields
      <3> QED BY <3>1, <3>3, <3>4
    <2>3. CASE n # f /\ n # b[u].up
      <3>1. c[n].up = b[n].up /\ c[n].down = b[n].down /\ n \in DOMAIN b /\ n # u
            /\ c[n].addr = b[n].addr /\ c[n].size = b[n].size
        BY <2>3, <1>2, <1>5
      <3>2. ASSUME b[n].up # NULL
            PROVE  /\ b[n].up \in DOMAIN c
                   /\ c[b[n].up].down = n
                   /\ c[b[n].up].addr = c[n].addr + c[n].size
        <4>1. /\ b[n].up \in DOMAIN b /\ b[b[n].up].down = n
              /\ b[b[n].up].addr = b[n].addr + b[n].size
          BY <1>1, <3>1, <3>2 DEF Stacked
        <4>2. b[n].up # u
          BY <4>1, <2>3, <1>3
        <4>3. b[n].up = b[u].up => b[u].up = NULL
          BY <4>1, <3>1, <1>1, <1>3 DEF Stacked
        <4> QED BY <4>1, <4>2, <4>3, <3>1, <3>2, <1>2, <1>5
      <3>3. ASSUME b[n].down # NULL
            PROVE  /\ b[n].down \in DOMAIN c
                   /\ c[b[n].down].up = n
                   /\ c[n].addr = c[b[n].down].addr + c[b[n].down].size
        <4>1. /\ b[n].down \in DOMAIN b /\ b[b[n].down].up = n
              /\ b[n].addr = b[b[n].down].addr + b[b[n].down].size
          BY <1>1, <3>1, <3>3 DEF Stacked
        <4>2. b[n].down # u /\ b[n].down # f
          BY <4>1, <2>3, <3>1
        <4> QED BY <4>1, <4>2, <3>1, <1>2, <1>5
      <3> QED BY <3>1, <3>2, <3>3
    <2> QED BY <2>1, <2>2, <2>3
  <1>11. Ringed(c, NULL)
    <2>1. \A n \in DOMAIN c : InRing(c, NULL, n) <=> InRing(b, NULL, n)
      BY <1>1, <1>2, <1>5, NodeFields DEF InRing
    <2>2. \A n : InRing(b, NULL, n) => n \in DOMAIN c
      BY <1>2 DEF InRing
    <2>3. ASSUME NEW n \in DOMAIN c, InRing(c, NULL, n)
          PROVE  /\ InRing(c, NULL, c[n].next) /\ InRing(c, NULL, c[n].prev)
                 /\ c[c[n].next].prev = n /\ c[c[n].prev].next = n
                 /\ c[n].next \in DOMAIN c /\ c[n].prev \in DOMAIN c
      <3>1. InRing(b, NULL, n) /\ n \in DOMAIN b
        BY <2>1, <2>3, <1>2
      <3>2. /\ InRing(b, NULL, b[n].next) /\ InRing(b, NULL, b[n].prev)
            /\ b[b[n].next].prev = n /\ b[b[n].prev].next = n
        BY <1>1, <3>1 DEF Ringed
      <3> QED BY <3>1, <3>2, <1>5, <2>1, <2>2
    <2>4. \A n \in DOMAIN c : c[n].used => c[n].next = NULL /\ c[n].prev = NULL
      BY <1>1, <1>2, <1>5 DEF Ringed
    <2> QED BY <2>3, <2>4 DEF Ringed
  <1> QED BY <1>2, <1>5, <1>6, <1>8, <1>9, <1>10, <1>11 DEF WellFormed, c

\* A whole free block becomes a used one.
LEMMA UseFreeBlockKeeps ==
    ASSUME NEW b, WellFormed(b, NULL), NEW f \in DOMAIN b \ Statics, ~b[f].used
    PROVE  /\ WellFormed(use_free_block(b, f), NULL)
           /\ DOMAIN use_free_block(b, f) = DOMAIN b
           /\ \A n \in DOMAIN b :
                /\ use_free_block(b, f)[n].addr = b[n].addr
                /\ use_free_block(b, f)[n].size = b[n].size
                /\ use_free_block(b, f)[n].used = (n = f \/ b[n].used)
  <1> DEFINE l == Unlink(b, f)
             c == use_free_block(b, f)
  <1>1. /\ Typed(l) /\ Placed(l) /\ Spread(l) /\ Stacked(l) /\ Ringed(l, f)
        /\ DOMAIN l = DOMAIN b
        /\ \A n \in DOMAIN b : l[n].addr = b[n].addr /\ l[n].size = b[n].size /\ l[n].used = b[n].used
    BY UnlinkKeeps DEF WellFormed
  <1>2. c = [l EXCEPT ![f].used = TRUE, ![f].prev = NULL, ![f].next = NULL]
    BY DEF use_free_block
  <1> HIDE DEF l
  <1>3. DOMAIN c = DOMAIN l /\ c = [n \in DOMAIN c |-> c[n]]
    BY <1>2
  <1>4. \A n \in DOMAIN l \ {f} : c[n] = l[n]
    BY <1>2
  <1>5. c[f] = [l[f] EXCEPT !.used = TRUE, !.prev = NULL, !.next = NULL]
    BY <1>1, <1>2
  <1> HIDE DEF c
  <1>6. /\ c[f] \in Node /\ c[f].used = TRUE /\ c[f].prev = NULL /\ c[f].next = NULL
        /\ c[f].addr = l[f].addr /\ c[f].size = l[f].size /\ c[f].up = l[f].up /\ c[f].down = l[f].down
    <2>1. l[f] \in Node /\ NULL \in Link
      BY <1>1, NodeFields DEF Link
    <2> QED BY <1>5, <2>1 DEF Node
  <1>7. \A n \in DOMAIN l :
            /\ c[n] \in Node
            /\ c[n].addr = l[n].addr /\ c[n].size = l[n].size /\ c[n].up = l[n].up /\ c[n].down = l[n].down
            /\ n # f => c[n].used = l[n].used /\ c[n].prev = l[n].prev /\ c[n].next = l[n].next
    BY <1>1, <1>4, <1>6, NodeFields
  <1>8. Typed(c)
    BY <1>1, <1>3, <1>7 DEF Typed
  <1>9. Placed(c)
    <2>1. \A n \in DOMAIN l, loc \in Locations : Within(c[n], loc) <=> Within(l[n], loc)
      BY <1>7 DEF Within
    <2>2. \A loc \in Locations : FreeBlk(loc) \in DOMAIN l \ {f}
      BY <1>1, StaticFacts DEF Typed
    <2>3. \A loc \in Locations :
            LET s == c[FreeBlk(loc)] IN
            /\ Within(s, loc)
            /\ s.addr + s.size = base_addr(loc) + HeapSize(loc)
            /\ ~s.used /\ s.up = NULL
      BY <2>1, <2>2, <1>1, <1>7 DEF Placed
    <2> QED BY <2>1, <2>3, <1>1, <1>3, <1>7 DEF Placed
  <1>10. Spread(c)
    BY <1>1, <1>3, <1>7 DEF Spread, Before
  <1>11. Stacked(c)
    BY <1>1, <1>3, <1>7 DEF Stacked
  <1>12. Ringed(c, NULL)
    <2>1. \A n : InRing(c, NULL, n) <=> InRing(l, f, n)
      BY <1>1, <1>3, <1>6, <1>7, NodeFields DEF InRing
    <2>2. ASSUME NEW n \in DOMAIN c, InRing(c, NULL, n)
          PROVE  /\ InRing(c, NULL, c[n].next) /\ InRing(c, NULL, c[n].prev)
                 /\ c[c[n].next].prev = n /\ c[c[n].prev].next = n
      <3>1. InRing(l, f, n) /\ n \in DOMAIN l /\ n # f
        BY <2>1, <2>2, <1>3 DEF InRing
      <3>2. /\ InRing(l, f, l[n].next) /\ InRing(l, f, l[n].prev)
            /\ l[l[n].next].prev = n /\ l[l[n].prev].next = n
        BY <1>1, <3>1 DEF Ringed
      <3>3. /\ c[n].next = l[n].next /\ c[n].prev = l[n].prev
            /\ l[n].next \in DOMAIN l \ {f} /\ l[n].prev \in DOMAIN l \ {f}
        BY <3>1, <3>2, <1>7 DEF InRing
      <3> QED BY <3>1, <3>2, <3>3, <2>1, <1>7
    <2>3. \A n \in DOMAIN c : c[n].used => c[n].next = NULL /\ c[n].prev = NULL
      BY <1>1, <1>3, <1>6, <1>7 DEF Ringed
    <2> QED BY <2>2, <2>3 DEF Ringed
  <1>13. WellFormed(c, NULL) /\ DOMAIN c = DOMAIN b
    BY <1>1, <1>3, <1>8, <1>9, <1>10, <1>11, <1>12 DEF WellFormed
  <1>14. ASSUME NEW n \in DOMAIN b
         PROVE  /\ c[n].addr = b[n].addr /\ c[n].size = b[n].size
                /\ c[n].used = (n = f \/ b[n].used)
    <2>1. c[n].addr = b[n].addr /\ c[n].size = b[n].size
      BY <1>1, <1>7
    <2>2. CASE n = f
      BY <2>1, <2>2, <1>6
    <2>3. CASE n # f
      <3>1. c[n].used = b[n].used /\ b[n].used \in BOOLEAN
        BY <2>3, <1>1, <1>7, NodeFields DEF WellFormed
      <3> QED BY <2>1, <2>3, <3>1
    <2> QED BY <2>2, <2>3
  <1> QED BY <1>13, <1>14 DEF c

\* A used block becomes a free one.
LEMMA FreeUsedBlockKeeps ==
    ASSUME NEW b, WellFormed(b, NULL), NEW f \in DOMAIN b, b[f].used
    PROVE  /\ WellFormed(free_used_block(b, f), NULL)
           /\ DOMAIN free_used_block(b, f) = DOMAIN b
           /\ \A n \in DOMAIN b :
                /\ free_used_block(b, f)[n].addr = b[n].addr
                /\ free_used_block(b, f)[n].size = b[n].size
                /\ free_used_block(b, f)[n].used = (b[n].used /\ n # f)
  <1> DEFINE c == free_used_block(b, f)
             root == root_node_for_memory_address(b[f].addr)
  <1>1. Typed(b) /\ Placed(b) /\ Spread(b) /\ Stacked(b) /\ Ringed(b, NULL)
    BY DEF WellFormed
  <1>2. DOMAIN c = DOMAIN b
    BY DEF free_used_block
  <1>3. PICK home \in Locations : root = FreeBlk(home)
    BY DEF root_node_for_memory_address, FreeBlk, Locations
  <1> HIDE DEF root
  <1>4. /\ root \in DOMAIN b /\ root # f /\ InRing(b, NULL, root)
        /\ InRing(b, NULL, b[root].next) /\ b[root].next # f /\ b[b[root].next].prev = root
    <2>1. root \in DOMAIN b /\ ~b[root].used
      BY <1>1, <1>3, StaticFacts DEF Placed, Typed
    <2>2. InRing(b, NULL, root)
      BY <2>1, <1>1, NodeFields DEF InRing
    <2>3. InRing(b, NULL, b[root].next) /\ b[b[root].next].prev = root
      BY <2>1, <2>2, <1>1 DEF Ringed
    <2> QED BY <2>1, <2>2, <2>3 DEF InRing
  <1>5. \A n \in DOMAIN b :
            /\ c[n] \in Node
            /\ c[n].addr = b[n].addr /\ c[n].size = b[n].size /\ c[n].up = b[n].up /\ c[n].down = b[n].down
            /\ c[n].used = (b[n].used /\ n # f)
            /\ c[n].next = IF n = f THEN b[root].next ELSE IF n = root THEN f ELSE b[n].next
            /\ c[n].prev = IF n = f THEN root ELSE IF n = b[root].next THEN f ELSE b[n].prev
    <2> SUFFICES ASSUME NEW n \in DOMAIN b
                 PROVE  /\ c[n] \in Node
                        /\ c[n].addr = b[n].addr /\ c[n].size = b[n].size
                        /\ c[n].up = b[n].up /\ c[n].down = b[n].down
                        /\ c[n].used = (b[n].used /\ n # f)
                        /\ c[n].next = IF n = f THEN b[root].next ELSE IF n = root THEN f ELSE b[n].next
                        /\ c[n].prev = IF n = f THEN root ELSE IF n = b[root].next THEN f ELSE b[n].prev
      OBVIOUS
    <2>1. b[n] \in Node /\ b[f] \in Node /\ f \in Link /\ root \in Link /\ b[root].next \in Link
      BY <1>1, <1>4, NodeFields DEF Typed, Link
    <2>2. c[n] = CASE n = f -> [b[f] EXCEPT !.used = FALSE, !.next = b[root].next, !.prev = root]
                   [] OTHER -> [b[n] EXCEPT !.next = IF n = root THEN f ELSE @,
                                            !.prev = IF n = b[root].next THEN f ELSE @]
      BY DEF free_used_block, root
    <2> HIDE DEF c
    <2>3. CASE n = f
      <3>1. c[n] = [b[f] EXCEPT !.used = FALSE, !.next = b[root].next, !.prev = root]
        BY <2>2, <2>3
      <3> QED BY <3>1, <2>1, <2>3 DEF Node
    <2>4. CASE n # f
      <3>1. c[n] = [b[n] EXCEPT !.next = IF n = root THEN f ELSE @,
                                !.prev = IF n = b[root].next THEN f ELSE @]
        BY <2>2, <2>4
      <3>2. /\ (IF n = root THEN f ELSE b[n].next) \in Link
            /\ (IF n = b[root].next THEN f ELSE b[n].prev) \in Link
        BY <2>1, <1>1, NodeFields
      <3> QED BY <3>1, <3>2, <2>1, <2>4 DEF Node
    <2> QED BY <2>3, <2>4
  <1>6. Typed(c)
    <2>1. c = [n \in DOMAIN c |-> c[n]]
      BY DEF free_used_block
    <2> HIDE DEF c
    <2> QED BY <1>1, <1>2, <1>5, <2>1 DEF Typed
  <1> HIDE DEF c
  <1>7. \A n \in DOMAIN b, loc \in Locations : Within(c[n], loc) <=> Within(b[n], loc)
    BY <1>5 DEF Within
  <1>8. Placed(c)
    <2>1. \A loc \in Locations : FreeBlk(loc) \in DOMAIN b
      BY <1>1, StaticFacts DEF Typed
    <2>2. \A loc \in Locations :
            LET s == c[FreeBlk(loc)] IN
            /\ Within(s, loc)
            /\ s.addr + s.size = base_addr(loc) + HeapSize(loc)
            /\ ~s.used /\ s.up = NULL
      BY <2>1, <1>1, <1>5, <1>7 DEF Placed
    <2> QED BY <2>2, <1>1, <1>2, <1>5, <1>7 DEF Placed
  <1>9. Spread(c)
    BY <1>1, <1>2, <1>5 DEF Spread, Before
  <1>10. Stacked(c)
    BY <1>1, <1>2, <1>5 DEF Stacked
  <1>11. Ringed(c, NULL)
    <2>1. ASSUME NEW n
          PROVE  InRing(c, NULL, n) <=> n = f \/ InRing(b, NULL, n)
      <3>1. CASE n = f
        <4>1. n \in DOMAIN c /\ ~c[n].used /\ n # NULL
          BY <3>1, <1>1, <1>2, <1>5, NodeFields
        <4> QED BY <3>1, <4>1 DEF InRing
      <3>2. CASE n # f
        <4>1. n \in DOMAIN b => (c[n].used <=> b[n].used)
          BY <3>2, <1>5
        <4> QED BY <3>2, <4>1, <1>2 DEF InRing
      <3> QED BY <3>1, <3>2
    <2>2. ~InRing(b, NULL, f)
      BY DEF InRing
    <2>3. ASSUME NEW n \in DOMAIN c, InRing(c, NULL, n)
          PROVE  /\ InRing(c, NULL, c[n].next) /\ InRing(c, NULL, c[n].prev)
                 /\ c[c[n].next].prev = n /\ c[c[n].prev].next = n
      <3>1. CASE n = f
        <4>1. /\ c[n].next = b[root].next /\ c[n].prev = root
              /\ c[b[root].next].prev = f /\ c[root].next = f
              /\ b[root].next \in DOMAIN b
          BY <3>1, <1>4, <1>5 DEF InRing
        <4> QED BY <3>1, <4>1, <2>1, <1>4
      <3>2. CASE n # f
        <4>1. InRing(b, NULL, n) /\ n \in DOMAIN b
          BY <2>1, <2>3, <3>2 DEF InRing
        <4>2. /\ InRing(b, NULL, b[n].next) /\ InRing(b, NULL, b[n].prev)
              /\ b[b[n].next].prev = n /\ b[b[n].prev].next = n
          BY <1>1, <4>1 DEF Ringed
        <4>3. b[n].next \in DOMAIN b \ {f} /\ b[n].prev \in DOMAIN b \ {f}
          BY <4>2 DEF InRing
        <4>4. InRing(c, NULL, c[n].next) /\ c[c[n].next].prev = n
          <5>1. CASE n = root
            BY <5>1, <3>2, <2>1, <4>1, <1>5
          <5>2. CASE n # root
            <6>1. b[n].next # b[root].next
              BY <5>2, <4>2, <1>4
            <6> QED BY <5>2, <6>1, <3>2, <4>1, <4>2, <4>3, <2>1, <1>5
          <5> QED BY <5>1, <5>2
        <4>5. InRing(c, NULL, c[n].prev) /\ c[c[n].prev].next = n
          <5>1. CASE n = b[root].next
            BY <5>1, <3>2, <2>1, <4>1, <1>5
          <5>2. CASE n # b[root].next
            <6>1. b[n].prev # root
              BY <5>2, <4>2, <1>4
            <6> QED BY <5>2, <6>1, <3>2, <4>1, <4>2, <4>3, <2>1, <1>5
          <5> QED BY <5>1, <5>2
        <4> QED BY <4>4, <4>5
      <3> QED BY <3>1, <3>2
    <2>4. \A n \in DOMAIN c : c[n].used => c[n].next = NULL /\ c[n].prev = NULL
      <3>1. \A n \in DOMAIN c : c[n].used => b[n].used /\ n # f /\ n # root /\ n # b[root].next
        BY <1>2, <1>4, <1>5 DEF InRing
      <3> QED BY <3>1, <1>1, <1>2, <1>5 DEF Ringed
    <2> QED BY <2>3, <2>4 DEF Ringed
  <1> QED BY <1>2, <1>5, <1>6, <1>8, <1>9, <1>10, <1>11 DEF WellFormed, c

\* c is b after the low end of block f went to the new node.
SplitOf(b, c, f, node, size) ==
    /\ WellFormed(c, NULL)
    /\ DOMAIN c = DOMAIN b \cup {node}
    /\ c[node].addr = b[f].addr
    /\ c[node].size = size
    /\ c[node].used
    /\ \A n \in DOMAIN b :
        /\ c[n].used = b[n].used
        /\ n # f => c[n].addr = b[n].addr /\ c[n].size = b[n].size

\* The low end of a free block becomes a used one, with a new node.
LEMMA SplitBlockKeeps ==
    ASSUME NEW b, WellFormed(b, NULL), NEW f \in DOMAIN b, ~b[f].used,
           NEW node \in NodeIds \ DOMAIN b,
           NEW size \in Nat, size > 0, size <= b[f].size, size < b[f].size \/ f \in Statics
    PROVE  SplitOf(b, SplitBlock(b, f, node, size), f, node, size)
  <1> DEFINE c == SplitBlock(b, f, node, size)
             d == b[f].down
  <1>1. Typed(b) /\ Placed(b) /\ Spread(b) /\ Stacked(b) /\ Ringed(b, NULL)
    BY DEF WellFormed
  <1>2. DOMAIN c = DOMAIN b \cup {node}
    BY DEF SplitBlock
  <1>3. /\ node # f /\ node \notin DOMAIN b /\ node \notin Statics /\ node # NULL /\ node \in Nodes
        /\ b[f].addr \in Nat /\ b[f].size \in Nat /\ b[f].size - size \in Nat /\ b[f].addr + size \in Nat
    BY <1>1, StaticFacts, MemoryAssumption, NodeFields DEF Nodes
  <1>4. d # NULL => /\ d \in DOMAIN b /\ d # f /\ d # node
                    /\ b[d].up = f /\ b[f].addr = b[d].addr + b[d].size
    <2>1. d # NULL => d \in DOMAIN b /\ b[d].up = f /\ b[f].addr = b[d].addr + b[d].size
      BY <1>1 DEF Stacked
    <2>2. d # f
      BY <2>1, <1>3, <1>1, NodeFields
    <2> QED BY <2>1, <2>2, <1>3
  <1>5. /\ c[node] \in Node
        /\ c[node].addr = b[f].addr /\ c[node].size = size /\ c[node].used = TRUE
        /\ c[node].prev = NULL /\ c[node].next = NULL /\ c[node].up = f /\ c[node].down = d
    <2>1. c[node] = [addr |-> b[f].addr, size |-> size, used |-> TRUE,
                     prev |-> NULL, next |-> NULL, up |-> f, down |-> d]
      BY <1>2, <1>3, <1>4 DEF SplitBlock
    <2>2. f \in Link /\ NULL \in Link /\ d \in Link
      BY <1>1, NodeFields DEF Typed, Link
    <2> HIDE DEF c, d
    <2> QED BY <2>1, <2>2, <1>3 DEF Node
  <1>6. \A n \in DOMAIN b :
            /\ c[n] \in Node
            /\ c[n].used = b[n].used /\ c[n].next = b[n].next /\ c[n].prev = b[n].prev
            /\ c[n].addr = IF n = f THEN b[f].addr + size ELSE b[n].addr
            /\ c[n].size = IF n = f THEN b[f].size - size ELSE b[n].size
            /\ c[n].down = IF n = f THEN node ELSE b[n].down
            /\ c[n].up = IF n # f /\ n = d THEN node ELSE b[n].up
    <2> SUFFICES ASSUME NEW n \in DOMAIN b
                 PROVE  /\ c[n] \in Node
                        /\ c[n].used = b[n].used /\ c[n].next = b[n].next /\ c[n].prev = b[n].prev
                        /\ c[n].addr = IF n = f THEN b[f].addr + size ELSE b[n].addr
                        /\ c[n].size = IF n = f THEN b[f].size - size ELSE b[n].size
                        /\ c[n].down = IF n = f THEN node ELSE b[n].down
                        /\ c[n].up = IF n # f /\ n = d THEN node ELSE b[n].up
      OBVIOUS
    <2>1. b[n] \in Node /\ b[f] \in Node /\ node \in Link /\ n # node /\ f # d
      BY <1>1, <1>3, <1>4, NodeFields DEF Link
    <2>2. c[n] = CASE n = f -> [b[f] EXCEPT !.addr = @ + size, !.size = @ - size, !.down = node]
                   [] n = d -> [b[n] EXCEPT !.up = node]
                   [] OTHER -> b[n]
      BY <2>1 DEF SplitBlock
    <2> HIDE DEF c, d
    <2>3. CASE n = f
      <3>1. c[n] = [b[f] EXCEPT !.addr = @ + size, !.size = @ - size, !.down = node]
        BY <2>1, <2>2, <2>3
      <3> QED BY <3>1, <2>1, <2>3, <1>3 DEF Node
    <2>4. CASE n # f /\ n = d
      <3>1. c[n] = [b[n] EXCEPT !.up = node]
        BY <2>2, <2>4
      <3> QED BY <3>1, <2>1, <2>4 DEF Node
    <2>5. CASE n # f /\ n # d
      BY <2>2, <2>1, <2>5 DEF Node
    <2> QED BY <2>3, <2>4, <2>5
  <1>7. Typed(c)
    <2>1. c = [n \in DOMAIN c |-> c[n]]
      BY DEF SplitBlock
    <2> HIDE DEF c
    <2> QED BY <1>1, <1>2, <1>3, <1>5, <1>6, <2>1 DEF Typed
  <1> HIDE DEF c
  <1>8. PICK home \in Locations : Within(b[f], home) /\ (f \in Statics => f = FreeBlk(home))
    <2>1. CASE f \in Statics
      BY <2>1, <1>1, StaticFacts DEF Placed
    <2>2. CASE f \notin Statics
      BY <2>2, <1>1 DEF Placed
    <2> QED BY <2>1, <2>2
  <1>9. Within(c[f], home) /\ Within(c[node], home)
    BY <1>3, <1>5, <1>6, <1>8, StaticFacts DEF Within
  <1>10. Placed(c)
    <2>1. \A n \in DOMAIN c \ Statics : c[n].size > 0
      BY <1>1, <1>2, <1>3, <1>5, <1>6, NodeFields DEF Placed
    <2>2. \A n \in DOMAIN b \ {f} : \A loc \in Locations : Within(c[n], loc) <=> Within(b[n], loc)
      BY <1>6 DEF Within
    <2>3. \A n \in DOMAIN c : \E loc \in Locations : Within(c[n], loc)
      BY <2>2, <1>1, <1>2, <1>9 DEF Placed
    <2>4. ASSUME NEW loc \in Locations
          PROVE  LET s == c[FreeBlk(loc)] IN
                 /\ Within(s, loc)
                 /\ s.addr + s.size = base_addr(loc) + HeapSize(loc)
                 /\ ~s.used /\ s.up = NULL
      <3>1. /\ FreeBlk(loc) \in DOMAIN b
            /\ Within(b[FreeBlk(loc)], loc)
            /\ b[FreeBlk(loc)].addr + b[FreeBlk(loc)].size = base_addr(loc) + HeapSize(loc)
            /\ ~b[FreeBlk(loc)].used /\ b[FreeBlk(loc)].up = NULL
        BY <1>1, StaticFacts DEF Placed, Typed
      <3>2. FreeBlk(loc) # d
        BY <3>1, <1>1, <1>4, NodeFields
      <3>3. CASE FreeBlk(loc) # f
        BY <3>1, <3>2, <3>3, <2>2, <1>6
      <3>4. CASE FreeBlk(loc) = f
        <4>1. Within(c[f], loc)
          BY <3>1, <3>4, <1>3, <1>6, StaticFacts DEF Within
        <4> QED BY <3>1, <3>2, <3>4, <4>1, <1>3, <1>6
      <3> QED BY <3>3, <3>4
    <2> QED BY <2>1, <2>3, <2>4 DEF Placed
  <1>11. Spread(c)
    <2>1. ASSUME NEW m \in DOMAIN b, m # f
          PROVE  /\ Before(b[m], c[f]) \/ Before(c[f], b[m])
                 /\ Before(b[m], c[node]) \/ Before(c[node], b[m])
      <3>1. b[m].addr \in Nat /\ b[m].size \in Nat
        BY <1>1, <2>1, NodeFields
      <3>2. CASE Before(b[m], b[f])
        BY <3>1, <3>2, <1>3, <1>5, <1>6 DEF Before
      <3>3. CASE Before(b[f], b[m])
        <4>1. Before(c[node], b[m])
          BY <3>1, <3>3, <1>3, <1>5 DEF Before
        <4>2. b[f].addr + size < b[m].addr
          <5>1. CASE size < b[f].size
            BY <5>1, <3>1, <3>3, <1>3 DEF Before
          <5>2. CASE f \in Statics
            <6>1. f = FreeBlk(home) /\ b[f].addr + b[f].size = base_addr(home) + HeapSize(home)
              BY <5>2, <1>1, <1>8 DEF Placed
            <6>2. PICK k \in Locations : Within(b[m], k)
              BY <1>1 DEF Placed
            <6>3. base_addr(home) + HeapSize(home) <= b[m].addr
              BY <6>1, <3>3 DEF Before
            <6>4. CASE k = home
              <7>1. b[m].size = 0 /\ b[m].addr = base_addr(home) + HeapSize(home)
                BY <6>2, <6>3, <6>4, <3>1, StaticFacts DEF Within
              <7>2. m \in Statics
                BY <7>1, <1>1 DEF Placed
              <7>3. PICK j \in Locations : m = FreeBlk(j)
                BY <7>2, StaticFacts
              <7>4. Within(b[m], j)
                BY <7>3, <1>1 DEF Placed
              <7>5. j = home
                BY <7>4, <6>2, <6>4, <3>1, OneHeap
              <7> QED BY <7>3, <7>5, <6>1, <2>1
            <6>5. CASE k # home
              BY <6>1, <6>2, <6>3, <6>5, <3>1, <1>3, MemoryAssumption
                 DEF Within, Locations, base_addr, HeapSize
            <6> QED BY <6>4, <6>5
          <5> QED BY <5>1, <5>2
        <4> QED BY <4>1, <4>2, <3>1, <3>3, <1>3, <1>6 DEF Before
      <3> QED BY <2>1, <3>2, <3>3, <1>1 DEF Spread
    <2>2. Before(c[node], c[f])
      BY <1>3, <1>5, <1>6 DEF Before
    <2>3. \A m \in DOMAIN b \ {f} : c[m].addr = b[m].addr /\ c[m].size = b[m].size
      BY <1>6
    <2> SUFFICES ASSUME NEW m \in DOMAIN c, NEW n \in DOMAIN c, m # n
                 PROVE  Before(c[m], c[n]) \/ Before(c[n], c[m])
      BY DEF Spread
    <2>4. CASE m \in DOMAIN b \ {f} /\ n \in DOMAIN b \ {f}
      BY <2>3, <2>4, <1>1 DEF Spread, Before
    <2>5. CASE m \in {f, node} /\ n \in DOMAIN b \ {f}
      BY <2>1, <2>3, <2>5 DEF Before
    <2>6. CASE m \in DOMAIN b \ {f} /\ n \in {f, node}
      BY <2>1, <2>3, <2>6 DEF Before
    <2>7. CASE m \in {f, node} /\ n \in {f, node}
      BY <2>2, <2>7
    <2> QED BY <2>4, <2>5, <2>6, <2>7, <1>2
  <1>12. Stacked(c)
    <2> SUFFICES ASSUME NEW n \in DOMAIN c
                 PROVE  /\ c[n].up # NULL =>
                            /\ c[n].up \in DOMAIN c
                            /\ c[c[n].up].down = n
                            /\ c[c[n].up].addr = c[n].addr + c[n].size
                        /\ c[n].down # NULL =>
                            /\ c[n].down \in DOMAIN c
                            /\ c[c[n].down].up = n
                            /\ c[n].addr = c[c[n].down].addr + c[c[n].down].size
      BY DEF Stacked
    <2>1. CASE n = node
      BY <2>1, <1>2, <1>3, <1>4, <1>5, <1>6
    <2>2. CASE n = f
      <3>1. /\ c[n].up = b[f].up /\ c[n].down = node /\ c[node].up = f
            /\ c[n].addr = b[f].addr + size /\ c[n].size = b[f].size - size
            /\ c[node].addr = b[f].addr /\ c[node].size = size
        BY <2>2, <1>5, <1>6
      <3>2. ASSUME b[f].up # NULL
            PROVE  /\ b[f].up \in DOMAIN b /\ b[f].up # f
                   /\ b[b[f].up].down = f
                   /\ b[b[f].up].addr = b[f].addr + b[f].size
        <4>1. b[f].up \in DOMAIN b /\ b[b[f].up].down = f /\ b[b[f].up].addr = b[f].addr + b[f].size
          BY <3>2, <1>1 DEF Stacked
        <4> QED BY <4>1, <1>3
      <3> QED BY <3>1, <3>2, <2>2, <1>2, <1>3, <1>6
    <2>3. CASE n \notin {f, node} /\ n = d
      <3>1. /\ c[n].up = node /\ c[n].down = b[n].down /\ c[n].addr = b[n].addr /\ c[n].size = b[n].size
            /\ n \in DOMAIN b /\ b[n].up = f /\ b[f].addr = b[n].addr + b[n].size
            /\ b[n].addr \in Nat /\ b[n].size \in Nat
        BY <2>3, <1>1, <1>2, <1>4, <1>6, NodeFields
      <3>2. ASSUME b[n].down # NULL
            PROVE  /\ b[n].down \in DOMAIN b \ {f, d} /\ b[b[n].down].up = n
                   /\ b[n].addr = b[b[n].down].addr + b[b[n].down].size
        <4>1. /\ b[n].down \in DOMAIN b /\ b[b[n].down].up = n
              /\ b[n].addr = b[b[n].down].addr + b[b[n].down].size
          BY <3>1, <3>2, <1>1 DEF Stacked
        <4>2. b[n].down # d
          BY <4>1, <3>1, <2>3
        <4>3. b[n].down # f
          BY <4>1, <3>1, <1>3
        <4> QED BY <4>1, <4>2, <4>3
      <3> QED BY <3>1, <3>2, <2>3, <1>2, <1>5, <1>6
    <2>4. CASE n \notin {f, node, d}
      <3>1. /\ c[n].up = b[n].up /\ c[n].down = b[n].down /\ c[n].addr = b[n].addr /\ c[n].size = b[n].size
            /\ n \in DOMAIN b
        BY <2>4, <1>2, <1>6
      <3>2. ASSUME b[n].up # NULL
            PROVE  /\ b[n].up \in DOMAIN b \ {f} /\ b[b[n].up].down = n
                   /\ b[b[n].up].addr = b[n].addr + b[n].size
        BY <2>4, <3>1, <3>2, <1>1 DEF Stacked
      <3>3. ASSUME b[n].down # NULL
            PROVE  /\ b[n].down \in DOMAIN b \ {d} /\ b[b[n].down].up = n
                   /\ b[n].addr = b[b[n].down].addr + b[b[n].down].size
        BY <2>4, <3>1, <3>3, <1>1, <1>4 DEF Stacked
      <3>4. ASSUME b[n].down # NULL
            PROVE  c[b[n].down].addr + c[b[n].down].size = b[b[n].down].addr + b[b[n].down].size
        <4>1. CASE b[n].down = f
          BY <4>1, <1>3, <1>6
        <4>2. CASE b[n].down # f
          BY <4>2, <3>3, <3>4, <1>6
        <4> QED BY <4>1, <4>2
      <3>5. b[n].up # NULL => /\ c[b[n].up].down = n /\ c[b[n].up].addr = b[b[n].up].addr
                              /\ b[n].up \in DOMAIN c
        BY <3>2, <1>2, <1>6
      <3>6. b[n].down # NULL => c[b[n].down].up = n /\ b[n].down \in DOMAIN c
        BY <3>3, <1>2, <1>6
      <3> QED BY <3>1, <3>2, <3>3, <3>4, <3>5, <3>6
    <2> QED BY <2>1, <2>2, <2>3, <2>4
  <1>13. Ringed(c, NULL)
    <2>1. \A n : InRing(c, NULL, n) <=> InRing(b, NULL, n)
      BY <1>2, <1>5, <1>6 DEF InRing
    <2>2. ASSUME NEW n \in DOMAIN c, InRing(c, NULL, n)
          PROVE  /\ InRing(c, NULL, c[n].next) /\ InRing(c, NULL, c[n].prev)
                 /\ c[c[n].next].prev = n /\ c[c[n].prev].next = n
      <3>1. InRing(b, NULL, n) /\ n \in DOMAIN b /\ c[n].next = b[n].next /\ c[n].prev = b[n].prev
        BY <2>1, <2>2, <1>6 DEF InRing
      <3>2. /\ InRing(b, NULL, b[n].next) /\ InRing(b, NULL, b[n].prev)
            /\ b[b[n].next].prev = n /\ b[b[n].prev].next = n
        BY <1>1, <3>1 DEF Ringed
      <3>3. b[n].next \in DOMAIN b /\ b[n].prev \in DOMAIN b
        BY <3>2 DEF InRing
      <3> QED BY <3>1, <3>2, <3>3, <2>1, <1>6
    <2>3. \A n \in DOMAIN c : c[n].used => c[n].next = NULL /\ c[n].prev = NULL
      BY <1>1, <1>2, <1>5, <1>6 DEF Ringed
    <2> QED BY <2>2, <2>3 DEF Ringed
  <1>14. SplitOf(b, c, f, node, size)
    BY <1>2, <1>5, <1>6, <1>7, <1>10, <1>11, <1>12, <1>13 DEF WellFormed, SplitOf
  <1> QED BY <1>14 DEF c

\* Freeing a block: the node list stays well formed, and the other used blocks
\* stay where they are.
LEMMA FreeCoalesceKeeps ==
    ASSUME NEW b, WellFormed(b, NULL), NEW f \in DOMAIN b, b[f].used
    PROVE  /\ WellFormed(free_coalesce(b, f), NULL)
           /\ \A n \in DOMAIN b : b[n].used /\ n # f =>
                /\ n \in DOMAIN free_coalesce(b, f)
                /\ free_coalesce(b, f)[n].used
                /\ free_coalesce(b, f)[n].addr = b[n].addr
                /\ free_coalesce(b, f)[n].size = b[n].size
           /\ \A n \in DOMAIN free_coalesce(b, f) :
                free_coalesce(b, f)[n].used => n \in DOMAIN b /\ b[n].used /\ n # f
  <1> DEFINE c == free_coalesce(b, f)
             u == b[f].up
             d == b[f].down
  <1>1. Typed(b) /\ Placed(b) /\ Spread(b) /\ Stacked(b) /\ Ringed(b, NULL)
    BY DEF WellFormed
  <1>2. /\ u # NULL => u \in DOMAIN b /\ b[u].down = f /\ b[u].addr = b[f].addr + b[f].size
        /\ d # NULL => d \in DOMAIN b /\ b[d].up = f /\ b[f].addr = b[d].addr + b[d].size
        /\ f # NULL /\ b[f].size > 0 /\ b[f].size \in Nat /\ b[f].addr \in Nat
    BY <1>1, NodeFields, StaticFacts DEF Stacked, Placed
  <1>3. /\ IsFree(b, u) /\ IsFree(b, d) => c = coalesce_up(Unlink(coalesce_up(b, u), d), u)
        /\ IsFree(b, u) /\ ~IsFree(b, d) => c = coalesce_up(b, u)
        /\ ~IsFree(b, u) /\ IsFree(b, d) => c = coalesce_down(b, d)
        /\ ~IsFree(b, u) /\ ~IsFree(b, d) => c = free_used_block(b, f)
    BY DEF free_coalesce
  <1> HIDE DEF c, u, d
  <1>4. CASE IsFree(b, u) /\ IsFree(b, d)
    <2> DEFINE up == coalesce_up(b, u)
               cut == Unlink(up, d)
    <2>1. /\ u \in DOMAIN b /\ d \in DOMAIN b /\ ~b[u].used /\ ~b[d].used
          /\ u # f /\ d # f /\ u # NULL /\ d # NULL
      BY <1>2, <1>4 DEF IsFree
    <2>2. u # d
      BY <2>1, <1>1, <1>2, NodeFields
    <2>3. d \notin Statics
      BY <2>1, <1>1, <1>2, StaticFacts DEF Placed
    <2>4. /\ WellFormed(up, NULL) /\ DOMAIN up = DOMAIN b \ {f} /\ up[u].down = d
          /\ \A n \in DOMAIN up :
                /\ up[n].used = b[n].used
                /\ n # u => up[n].addr = b[n].addr /\ up[n].size = b[n].size
      <3>1. b[u].down # NULL /\ b[b[u].down].used /\ b[b[u].down].down = d
        BY <2>1, <1>2 DEF d
      <3>2. /\ WellFormed(up, NULL) /\ DOMAIN up = DOMAIN b \ {b[u].down}
            /\ up[u].down = b[b[u].down].down
            /\ \A n \in DOMAIN up :
                  /\ up[n].used = b[n].used
                  /\ n # u => up[n].addr = b[n].addr /\ up[n].size = b[n].size
        BY <2>1, <3>1, CoalesceUpKeeps
      <3> QED BY <2>1, <3>1, <3>2, <1>2
    <2> HIDE DEF up
    <2>5. d \in DOMAIN up \ Statics /\ ~up[d].used
      BY <2>1, <2>3, <2>4
    <2>6. /\ WellFormed(cut, d) /\ DOMAIN cut = DOMAIN up
          /\ \A n \in DOMAIN up :
                /\ cut[n].addr = up[n].addr /\ cut[n].size = up[n].size
                /\ cut[n].used = up[n].used /\ cut[n].down = up[n].down
      BY <2>4, <2>5, UnlinkKeeps
    <2> HIDE DEF cut
    <2>7. u \in DOMAIN cut /\ ~cut[u].used /\ cut[u].down = d
      BY <2>1, <2>4, <2>6
    <2>8. /\ WellFormed(coalesce_up(cut, u), NULL)
          /\ DOMAIN coalesce_up(cut, u) = DOMAIN cut \ {d}
          /\ \A n \in DOMAIN coalesce_up(cut, u) :
                /\ coalesce_up(cut, u)[n].used = cut[n].used
                /\ n # u => /\ coalesce_up(cut, u)[n].addr = cut[n].addr
                            /\ coalesce_up(cut, u)[n].size = cut[n].size
      BY <2>1, <2>2, <2>6, <2>7, CoalesceUpKeeps
    <2>9. c = coalesce_up(cut, u)
      BY <1>3, <1>4 DEF cut, up
    <2> QED BY <2>1, <2>4, <2>6, <2>8, <2>9 DEF c
  <1>5. CASE IsFree(b, u) /\ ~IsFree(b, d)
    <2>1. u \in DOMAIN b /\ ~b[u].used /\ u # NULL /\ b[u].down = f
      BY <1>2, <1>5 DEF IsFree
    <2>2. c = coalesce_up(b, u)
      BY <1>3, <1>5
    <2>3. /\ WellFormed(c, NULL) /\ DOMAIN c = DOMAIN b \ {f}
          /\ \A n \in DOMAIN c :
                /\ c[n].used = b[n].used
                /\ n # u => c[n].addr = b[n].addr /\ c[n].size = b[n].size
      BY <2>1, <2>2, <1>2, CoalesceUpKeeps
    <2> QED BY <2>1, <2>3 DEF c
  <1>6. CASE ~IsFree(b, u) /\ IsFree(b, d)
    <2>1. d \in DOMAIN b /\ ~b[d].used /\ d # NULL /\ b[d].up = f
      BY <1>2, <1>6 DEF IsFree
    <2>2. c = coalesce_down(b, d)
      BY <1>3, <1>6
    <2>3. /\ WellFormed(c, NULL) /\ DOMAIN c = DOMAIN b \ {f}
          /\ \A n \in DOMAIN c :
                /\ c[n].used = b[n].used
                /\ n # d => c[n].addr = b[n].addr /\ c[n].size = b[n].size
      BY <2>1, <2>2, <1>2, CoalesceDownKeeps
    <2> QED BY <2>1, <2>3 DEF c
  <1>7. CASE ~IsFree(b, u) /\ ~IsFree(b, d)
    <2>1. c = free_used_block(b, f)
      BY <1>3, <1>7
    <2>2. /\ WellFormed(c, NULL) /\ DOMAIN c = DOMAIN b
          /\ \A n \in DOMAIN b :
                /\ c[n].addr = b[n].addr /\ c[n].size = b[n].size
                /\ c[n].used = (b[n].used /\ n # f)
      BY <2>1, FreeUsedBlockKeeps
    <2> QED BY <2>2 DEF c
  <1> QED BY <1>4, <1>5, <1>6, <1>7

-----------------------------------------------------------------------------
(* The inductive invariant.                                                *)

\* Every free block but x is in the ring of one static node, and can serve its
\* requests, also when blocks of both heaps are in one ring.
Owned(b, x, ring) ==
    /\ ring \in [Nodes -> Locations]
    /\ \A loc \in Locations : ring[FreeBlk(loc)] = loc
    /\ \A n \in DOMAIN b : InRing(b, x, n) => ring[b[n].next] = ring[n] /\ Serves(b[n], ring[n])

\* The search stays in the ring of the requested heap.
RingsApart ==
    \E ring \in [Nodes -> Locations] :
        /\ Owned(blk, NULL, ring)
        /\ pc = "search" => ring[finger] = req.loc

\* A pointer that a caller holds is the address of a used block.
Backed(b, t, p) == \E n \in t : b[n].addr = p.addr /\ b[n].size = p.size

IInv ==
    /\ WellFormed(blk, NULL)
    /\ tree \subseteq Used
    /\ pc \in {"idle", "search"}
    /\ req \in [size : Nat, loc : Locations]
    /\ hostFailures \in 0..MaxHostFailures
    /\ pc = "idle" => finger = NULL
    /\ pc = "search" =>
        /\ finger \in DOMAIN blk /\ ~blk[finger].used
        /\ req.size > 0
    /\ \A p \in held :
        /\ p \in [addr : Nat, size : Nat, loc : Locations]
        /\ p.size > 0
        /\ Backed(blk, tree, p)
        /\ Serves(p, p.loc)
    /\ \A p, q \in held : p.addr = q.addr => p = q

\* Callers get whole units, at least one.
LEMMA BlockSizePositive ==
    ASSUME NEW size \in Nat PROVE BlockSize(size) \in Nat /\ BlockSize(size) > 0
  <1>1. CASE size < 8
    BY <1>1 DEF BlockSize, ALIGN
  <1>2. CASE ~(size < 8)
    BY <1>2 DEF BlockSize, ALIGN
  <1> QED BY <1>1, <1>2

\* Used blocks have different addresses.
LEMMA UsedAddresses ==
    ASSUME WellFormed(blk, NULL), NEW m \in DOMAIN blk, NEW n \in DOMAIN blk,
           blk[m].used, blk[n].used, blk[m].addr = blk[n].addr
    PROVE  m = n
    BY NodeFields DEF WellFormed, Spread, Before

\* A free block's neighbours in the ring are free.
LEMMA RingNeighbour ==
    ASSUME WellFormed(blk, NULL), NEW n \in DOMAIN blk, ~blk[n].used
    PROVE  blk[n].next \in DOMAIN blk /\ ~blk[blk[n].next].used
  <1>1. InRing(blk, NULL, n)
    BY NodeFields DEF WellFormed, InRing
  <1>2. InRing(blk, NULL, blk[n].next)
    BY <1>1 DEF WellFormed, Ringed
  <1> QED BY <1>1, <1>2 DEF WellFormed, Ringed, InRing

LEMMA InitIInv == Init => IInv
  <1> SUFFICES ASSUME Init PROVE IInv
    OBVIOUS
  <1>1. /\ DOMAIN blk = Statics
        /\ \A n \in Statics : \E loc \in Locations : n = FreeBlk(loc) /\ blk[n] = StaticNode(loc)
        /\ \A loc \in Locations : blk[FreeBlk(loc)] = StaticNode(loc)
        /\ blk = [n \in Statics |-> blk[n]]
    BY MemoryAssumption DEF Init, Statics, Locations, FreeBlk
  <1>2. \A loc \in Locations :
            LET s == StaticNode(loc) IN
            /\ s \in Node
            /\ s.addr = base_addr(loc) /\ s.size = HeapSize(loc) /\ s.used = FALSE
            /\ s.prev = FreeBlk(loc) /\ s.next = FreeBlk(loc) /\ s.up = NULL /\ s.down = NULL
    BY StaticFacts DEF StaticNode, Node, Link
  <1>3. Typed(blk)
    BY <1>1, <1>2, StaticFacts DEF Typed
  <1>4. Placed(blk)
    BY <1>1, <1>2, StaticFacts DEF Placed, Within
  <1>5. Spread(blk)
    <2>1. Before(StaticNode("ONCHIP"), StaticNode("DDR2"))
      BY MemoryAssumption DEF StaticNode, Before, base_addr, HeapSize
    <2> QED BY <1>1, <2>1 DEF Spread, Locations
  <1>6. Stacked(blk)
    BY <1>1, <1>2 DEF Stacked
  <1>7. Ringed(blk, NULL)
    BY <1>1, <1>2, StaticFacts DEF Ringed, InRing
  <1>8. req \in [size : Nat, loc : Locations] /\ hostFailures \in 0..MaxHostFailures
    BY MemoryAssumption DEF Init, Locations
  <1> QED BY <1>3, <1>4, <1>5, <1>6, <1>7, <1>8 DEF WellFormed, IInv, Init

\* What malloc_shared_internal does with the block n that it marked as used.
LEMMA DeliverKeeps ==
    ASSUME IInv, pc = "search", WellFormed(blk', NULL),
           NEW n \in DOMAIN blk', blk'[n].used, n \notin tree, blk'[n].size = req.size,
           Serves(blk'[n], req.loc),
           \A t \in tree : /\ t \in DOMAIN blk' /\ blk'[t].used
                           /\ blk'[t].addr = blk[t].addr /\ blk'[t].size = blk[t].size,
           Deliver(n), Return
    PROVE  IInv'
  <1>1. /\ tree' \subseteq Used'
        /\ tree \subseteq tree'
        /\ hostFailures' \in 0..MaxHostFailures
    <2>1. tree' = tree \/ tree' = tree \cup {n}
      BY DEF Deliver, tsearch
    <2>2. hostFailures' \in 0..MaxHostFailures
      BY MemoryAssumption DEF IInv, Deliver, HostFails
    <2>3. tree \subseteq Used' /\ n \in Used'
      BY DEF Used
    <2> QED BY <2>1, <2>2, <2>3
  <1>2. \A p \in held :
            /\ p \in [addr : Nat, size : Nat, loc : Locations]
            /\ p.size > 0
            /\ Backed(blk', tree', p)
            /\ Serves(p, p.loc)
    BY <1>1 DEF IInv, Backed
  <1>3. pc' = "idle" /\ finger' = NULL /\ req' = req
    BY DEF Return
  <1>4. CASE UNCHANGED held
    BY <1>1, <1>2, <1>3, <1>4 DEF IInv
  <1>5. CASE ~UNCHANGED held
    <2> DEFINE p == [addr |-> blk'[n].addr, size |-> req.size, loc |-> req.loc]
    <2>1. held' = held \cup {p} /\ tree' = tsearch(blk', n)
      BY <1>5 DEF Deliver
    <2>2. blk'[n].addr \in Nat /\ req.size \in Nat /\ req.size > 0 /\ req.loc \in Locations
      <3>1. Typed(blk')
        BY DEF WellFormed
      <3> QED BY <3>1, NodeFields DEF IInv
    <2>3. \A t \in tree : blk'[t].addr # blk'[n].addr
      <3>1. Typed(blk') /\ Spread(blk')
        BY DEF WellFormed
      <3> QED BY <3>1, NodeFields DEF Spread, Before
    <2>4. n \in tree'
      BY <2>1, <2>3 DEF tsearch
    <2>5. /\ p \in [addr : Nat, size : Nat, loc : Locations]
          /\ p.size > 0 /\ Backed(blk', tree', p) /\ Serves(p, p.loc)
      BY <2>2, <2>4 DEF Backed, Serves, Within
    <2>6. \A q \in held : q.addr # p.addr
      BY <2>3 DEF IInv, Backed
    <2> HIDE DEF p
    <2>7. \A q \in held' : /\ q \in [addr : Nat, size : Nat, loc : Locations]
                           /\ q.size > 0 /\ Backed(blk', tree', q) /\ Serves(q, q.loc)
      BY <1>2, <2>1, <2>5
    <2>8. \A q, r \in held' : q.addr = r.addr => q = r
      BY <2>1, <2>6 DEF IInv
    <2> QED BY <1>1, <1>3, <2>7, <2>8 DEF IInv
  <1> QED BY <1>4, <1>5

\* The search looks at blocks that can serve its request.
LEMMA FingerServes ==
    ASSUME IInv, RingsApart, pc = "search" PROVE Serves(blk[finger], req.loc)
  <1>1. InRing(blk, NULL, finger)
    BY NodeFields DEF IInv, WellFormed, InRing
  <1>2. finger \in DOMAIN blk
    BY DEF IInv
  <1> QED BY <1>1, <1>2 DEF RingsApart, Owned

LEMMA NextIInv == IInv /\ RingsApart /\ [Next]_vars => IInv'
  <1> SUFFICES ASSUME IInv, RingsApart, [Next]_vars PROVE IInv'
    OBVIOUS
  <1>1. ASSUME NEW size \in Sizes, NEW loc \in Locations, malloc_shared(size, loc)
        PROVE  IInv'
    <2>1. req' = [size |-> BlockSize(size), loc |-> loc] /\ BlockSize(size) \in Nat /\ BlockSize(size) > 0
      BY <1>1, BlockSizePositive, MemoryAssumption DEF malloc_shared
    <2>2. FreeBlk(loc) \in DOMAIN blk /\ ~blk[FreeBlk(loc)].used
      BY StaticFacts DEF IInv, WellFormed, Typed, Placed
    <2>3. finger' \in DOMAIN blk /\ ~blk[finger'].used
      BY <1>1, <2>2, RingNeighbour DEF IInv, malloc_shared
    <2> QED BY <1>1, <2>1, <2>3 DEF IInv, malloc_shared, Used, Backed
  <1>2. CASE NextBlock
    <2>1. blk[finger].next \in DOMAIN blk /\ ~blk[blk[finger].next].used
      BY <1>2, RingNeighbour DEF IInv, NextBlock
    <2> QED BY <1>2, <2>1 DEF IInv, NextBlock, Used, Backed
  <1>3. CASE ReturnNull
    BY <1>3 DEF IInv, ReturnNull, Return, Used, Backed
  <1>4. CASE TakeBlock
    <2>1. /\ pc = "search" /\ blk' = use_free_block(blk, finger) /\ Deliver(finger) /\ Return
          /\ blk[finger].size = req.size /\ finger # FreeBlk(req.loc)
      BY <1>4 DEF TakeBlock, IsExact
    <2>2. finger \in DOMAIN blk /\ ~blk[finger].used /\ Serves(blk[finger], req.loc)
      BY <2>1, FingerServes DEF IInv
    <2>3. finger \in DOMAIN blk \ Statics
      BY <2>1, <2>2, StaticFacts DEF RingsApart, Owned
    <2>4. /\ WellFormed(blk', NULL) /\ DOMAIN blk' = DOMAIN blk
          /\ \A n \in DOMAIN blk : /\ blk'[n].addr = blk[n].addr /\ blk'[n].size = blk[n].size
                                   /\ blk'[n].used = (n = finger \/ blk[n].used)
      BY <2>1, <2>2, <2>3, UseFreeBlockKeeps DEF IInv
    <2>5. finger \notin tree
      BY <2>2 DEF IInv, Used
    <2>6. \A t \in tree : t \in DOMAIN blk' /\ blk'[t].used
      BY <2>4 DEF IInv, Used
    <2>7. Serves(blk'[finger], req.loc)
      BY <2>2, <2>4 DEF Serves, Within
    <2> QED BY <2>1, <2>2, <2>4, <2>5, <2>6, <2>7, DeliverKeeps
  <1>5. CASE TakePart
    <2> DEFINE node == NewNode(blk)
    <2>1. /\ pc = "search" /\ blk' = SplitBlock(blk, finger, node, req.size) /\ Deliver(node) /\ Return
          /\ node \in NodeIds \ DOMAIN blk
          /\ req.size <= blk[finger].size
          /\ blk[finger].size # req.size \/ finger = FreeBlk(req.loc)
      <3>1. node \in NodeIds \ DOMAIN blk
        BY <1>5 DEF TakePart, NewNode
      <3> HIDE DEF node
      <3>2. blk' = SplitBlock(blk, finger, node, req.size) /\ Deliver(node)
        BY <1>5 DEF TakePart, node
      <3>3. req.size <= blk[finger].size
        BY <1>5 DEF TakePart, Fits
      <3> QED BY <1>5, <3>1, <3>2, <3>3 DEF TakePart, IsExact
    <2> HIDE DEF node
    <2>2. /\ finger \in DOMAIN blk /\ ~blk[finger].used /\ Serves(blk[finger], req.loc)
          /\ req.size \in Nat /\ req.size > 0 /\ req.loc \in Locations
      BY <2>1, FingerServes DEF IInv
    <2>3. req.size < blk[finger].size \/ finger \in Statics
      BY <2>1, <2>2, StaticFacts, NodeFields DEF IInv, WellFormed
    <2>4. /\ WellFormed(blk', NULL) /\ DOMAIN blk' = DOMAIN blk \cup {node}
          /\ blk'[node].addr = blk[finger].addr /\ blk'[node].size = req.size /\ blk'[node].used
          /\ \A n \in DOMAIN blk :
                /\ blk'[n].used = blk[n].used
                /\ n # finger => blk'[n].addr = blk[n].addr /\ blk'[n].size = blk[n].size
      <3>1. WellFormed(blk, NULL)
        BY DEF IInv
      <3>2. SplitOf(blk, blk', finger, node, req.size)
        BY <2>1, <2>2, <2>3, <3>1, SplitBlockKeeps
      <3> QED BY <3>2 DEF SplitOf
    <2>5. node \notin tree
      BY <2>1 DEF IInv, Used
    <2>6. \A t \in tree : /\ t \in DOMAIN blk' /\ blk'[t].used
                          /\ blk'[t].addr = blk[t].addr /\ blk'[t].size = blk[t].size
      BY <2>2, <2>4 DEF IInv, Used
    <2>7. Serves(blk'[node], req.loc)
      <3>1. PICK h \in HeapsServing(req.loc) : Within(blk[finger], h)
        BY <2>2 DEF Serves
      <3>2. base_addr(h) \in Nat /\ HeapSize(h) \in Nat
        BY <3>1, <2>2, HeapsServingFacts, StaticFacts
      <3>3. Within(blk'[node], h)
        BY <3>1, <3>2, <2>1, <2>2, <2>4, NodeFields DEF Within, IInv, WellFormed
      <3> QED BY <3>1, <3>3 DEF Serves
    <2> QED BY <2>1, <2>4, <2>5, <2>6, <2>7, DeliverKeeps
  <1>6. CASE NoNode
    BY <1>6, MemoryAssumption DEF IInv, NoNode, HostFails, Return, Used, Backed
  <1>7. ASSUME NEW p \in held, free_shared(p)
        PROVE  IInv'
    <2>1. PICK f \in tree : /\ blk[f].addr = p.addr
                            /\ blk' = free_coalesce(blk, f) /\ tree' = tree \ {f}
      BY <1>7 DEF free_shared, tfind
    <2>2. /\ WellFormed(blk', NULL)
          /\ \A n \in DOMAIN blk : blk[n].used /\ n # f =>
                /\ n \in DOMAIN blk' /\ blk'[n].used
                /\ blk'[n].addr = blk[n].addr /\ blk'[n].size = blk[n].size
      BY <2>1, FreeCoalesceKeeps DEF IInv, Used
    <2>3. /\ pc = "idle" /\ held' = held \ {p} /\ UNCHANGED <<pc, req, finger, hostFailures>>
      BY <1>7 DEF free_shared
    <2>4. tree' \subseteq Used'
      BY <2>1, <2>2 DEF IInv, Used
    <2>5. ASSUME NEW q \in held' PROVE Backed(blk', tree', q)
      <3>1. q \in held /\ q.addr # p.addr
        BY <2>3, <2>5 DEF IInv
      <3>2. PICK n \in tree : blk[n].addr = q.addr /\ blk[n].size = q.size
        BY <3>1 DEF IInv, Backed
      <3>3. n # f
        BY <2>1, <3>1, <3>2
      <3> QED BY <2>1, <2>2, <3>2, <3>3 DEF IInv, Used, Backed
    <2> QED BY <2>2, <2>3, <2>4, <2>5 DEF IInv
  <1>8. CASE UNCHANGED vars
    BY <1>8 DEF IInv, vars, Used, Backed
  <1> QED BY <1>1, <1>2, <1>3, <1>4, <1>5, <1>6, <1>7, <1>8 DEF Next, Search

-----------------------------------------------------------------------------
(* The rings of the two static nodes stay apart.                           *)

\* A block that keeps its address, or its end, stays in its heap.
LEMMA TouchingServes ==
    ASSUME NEW b, NEW x, WellFormed(b, x), NEW c, NEW y, WellFormed(c, y),
           NEW n \in DOMAIN b, n \in DOMAIN c,
           c[n].addr = b[n].addr \/ c[n].addr + c[n].size = b[n].addr + b[n].size,
           NEW loc \in Locations, Serves(b[n], loc)
    PROVE  Serves(c[n], loc)
  <1>1. PICK h \in HeapsServing(loc) : Within(b[n], h)
    BY DEF Serves
  <1>2. PICK k \in Locations : Within(c[n], k)
    BY DEF WellFormed, Placed
  <1>3. /\ b[n].addr \in Nat /\ b[n].size \in Nat /\ c[n].addr \in Nat /\ c[n].size \in Nat
        /\ h \in Locations
    BY NodeFields, HeapsServingFacts DEF WellFormed
  <1>4. h = k
    BY <1>1, <1>2, <1>3, TouchingSameHeap
  <1> QED BY <1>1, <1>2, <1>4 DEF Serves

\* Blocks that stay in the rings keep their links, and an address.
KeptIn(b, x, c, y) ==
    \A n : InRing(c, y, n) =>
        /\ InRing(b, x, n)
        /\ c[n].next = b[n].next
        /\ c[n].addr = b[n].addr \/ c[n].addr + c[n].size = b[n].addr + b[n].size

LEMMA OwnedSame ==
    ASSUME NEW b, NEW x, WellFormed(b, x), NEW c, NEW y, WellFormed(c, y),
           NEW ring, Owned(b, x, ring), KeptIn(b, x, c, y)
    PROVE  Owned(c, y, ring)
  <1>1. ASSUME NEW n \in DOMAIN c, InRing(c, y, n)
        PROVE  ring[c[n].next] = ring[n] /\ Serves(c[n], ring[n])
    <2>1. /\ n \in DOMAIN b /\ InRing(b, x, n) /\ c[n].next = b[n].next
          /\ c[n].addr = b[n].addr \/ c[n].addr + c[n].size = b[n].addr + b[n].size
      BY <1>1 DEF KeptIn, InRing
    <2>2. ring[b[n].next] = ring[n] /\ Serves(b[n], ring[n])
      BY <2>1 DEF Owned
    <2>3. ring[n] \in Locations
      BY <2>1 DEF Owned, WellFormed, Typed
    <2> QED BY <2>1, <2>2, <2>3, TouchingServes
  <1> QED BY <1>1 DEF Owned

LEMMA UnlinkOwned ==
    ASSUME NEW b, WellFormed(b, NULL), NEW d \in DOMAIN b, ~b[d].used,
           NEW ring, Owned(b, NULL, ring)
    PROVE  Owned(Unlink(b, d), d, ring)
  <1> DEFINE c == Unlink(b, d)
  <1>1. Typed(b) /\ Ringed(b, NULL) /\ DOMAIN c = DOMAIN b
    BY DEF WellFormed, Unlink
  <1>2. \A n \in DOMAIN b :
            /\ c[n].used = b[n].used /\ c[n].addr = b[n].addr /\ c[n].size = b[n].size
            /\ c[n].next = IF n = b[d].prev THEN b[d].next ELSE b[n].next
    BY <1>1, NodeFields DEF Unlink, Node
  <1> HIDE DEF c
  <1>3. InRing(b, NULL, d)
    BY <1>1, NodeFields DEF InRing
  <1>4. b[b[d].prev].next = d
    BY <1>1, <1>3 DEF Ringed
  <1>5. ASSUME NEW n, InRing(c, d, n) PROVE ring[c[n].next] = ring[n] /\ Serves(c[n], ring[n])
    <2>1. InRing(b, NULL, n) /\ n \in DOMAIN b
      BY <1>1, <1>2, <1>5, NodeFields DEF InRing
    <2>2. ring[b[n].next] = ring[n] /\ ring[b[d].next] = ring[d]
      BY <2>1, <1>3 DEF Owned
    <2>3. Serves(c[n], ring[n])
      BY <2>1, <1>2 DEF Owned, Serves, Within
    <2>4. CASE n = b[d].prev
      BY <2>1, <2>2, <2>3, <2>4, <1>2, <1>4
    <2>5. CASE n # b[d].prev
      BY <2>1, <2>2, <2>3, <2>5, <1>2
    <2> QED BY <2>4, <2>5
  <1> QED BY <1>5 DEF Owned, c

LEMMA UseFreeBlockOwned ==
    ASSUME NEW b, WellFormed(b, NULL), NEW f \in DOMAIN b \ Statics, ~b[f].used,
           NEW ring, Owned(b, NULL, ring)
    PROVE  Owned(use_free_block(b, f), NULL, ring)
  <1> DEFINE l == Unlink(b, f)
             c == use_free_block(b, f)
  <1>1. Owned(l, f, ring)
    BY UnlinkOwned
  <1>2. c = [l EXCEPT ![f].used = TRUE, ![f].prev = NULL, ![f].next = NULL]
    BY DEF use_free_block
  <1>3. \A n \in DOMAIN b : l[n] \in Node
    BY NodeFields DEF WellFormed, Unlink, Node
  <1>4. DOMAIN l = DOMAIN b /\ WellFormed(l, f) /\ WellFormed(c, NULL)
    BY UnlinkKeeps, UseFreeBlockKeeps
  <1> HIDE DEF c, l
  <1>5. DOMAIN c = DOMAIN l /\ \A n \in DOMAIN l \ {f} : c[n] = l[n]
    BY <1>2
  <1>6. c[f].used
    <2>1. c[f] = [l[f] EXCEPT !.used = TRUE, !.prev = NULL, !.next = NULL]
      BY <1>2, <1>4
    <2> QED BY <2>1, <1>3 DEF Node
  <1>7. KeptIn(l, f, c, NULL)
    BY <1>5, <1>6 DEF InRing, KeptIn
  <1>8. Owned(c, NULL, ring)
    BY <1>1, <1>4, <1>7, OwnedSame
  <1> QED BY <1>8 DEF c

LEMMA SplitBlockOwned ==
    ASSUME NEW b, WellFormed(b, NULL), NEW f \in DOMAIN b, NEW node \in NodeIds \ DOMAIN b,
           NEW size \in Nat, WellFormed(SplitBlock(b, f, node, size), NULL),
           NEW ring, Owned(b, NULL, ring)
    PROVE  Owned(SplitBlock(b, f, node, size), NULL, ring)
  <1> DEFINE c == SplitBlock(b, f, node, size)
             d == b[f].down
  <1>1. ASSUME NEW n, InRing(c, NULL, n)
        PROVE  /\ InRing(b, NULL, n) /\ c[n].next = b[n].next
               /\ c[n].addr = b[n].addr \/ c[n].addr + c[n].size = b[n].addr + b[n].size
    <2>1. n \in DOMAIN b \cup {node} /\ ~c[n].used /\ n # NULL
      BY <1>1 DEF InRing, SplitBlock
    <2>2. n # node
      <3>1. d # node
        <4>1. d # NULL => d \in DOMAIN b
          BY DEF WellFormed, Stacked
        <4> QED BY <4>1, MemoryAssumption DEF Nodes
      <3>2. c[node] = [addr |-> b[f].addr, size |-> size, used |-> TRUE,
                       prev |-> NULL, next |-> NULL, up |-> f, down |-> d]
        BY <3>1 DEF SplitBlock
      <3> QED BY <2>1, <3>2
    <2>3. n \in DOMAIN b /\ b[n] \in Node
      BY <2>1, <2>2, NodeFields DEF WellFormed
    <2>4. c[n] = CASE n = f -> [b[f] EXCEPT !.addr = @ + size, !.size = @ - size, !.down = node]
                   [] n = d -> [b[n] EXCEPT !.up = node]
                   [] OTHER -> b[n]
      BY <2>2, <2>3 DEF SplitBlock
    <2> HIDE DEF c, d
    <2>5. /\ c[n].used = b[n].used /\ c[n].next = b[n].next
          /\ c[n].addr = b[n].addr \/ c[n].addr + c[n].size = b[n].addr + b[n].size
      <3>1. \/ n = f /\ c[n] = [b[f] EXCEPT !.addr = @ + size, !.size = @ - size, !.down = node]
            \/ c[n] = [b[n] EXCEPT !.up = node] \/ c[n] = b[n]
        BY <2>4
      <3>2. CASE n = f /\ c[n] = [b[f] EXCEPT !.addr = @ + size, !.size = @ - size, !.down = node]
        <4>1. /\ c[n].addr = b[n].addr + size /\ c[n].size = b[n].size - size
              /\ c[n].used = b[n].used /\ c[n].next = b[n].next
          BY <3>2, <2>3 DEF Node
        <4>2. b[n].addr \in Nat /\ b[n].size \in Nat
          BY <2>3 DEF Node
        <4> QED BY <4>1, <4>2
      <3>3. CASE c[n] = [b[n] EXCEPT !.up = node] \/ c[n] = b[n]
        BY <3>3, <2>3 DEF Node
      <3> QED BY <3>1, <3>2, <3>3
    <2> QED BY <2>1, <2>3, <2>5 DEF InRing
  <1> HIDE DEF c
  <1>2. KeptIn(b, NULL, c, NULL)
    BY <1>1 DEF KeptIn
  <1>3. Owned(c, NULL, ring)
    BY <1>2, OwnedSame DEF c
  <1> QED BY <1>3 DEF c

LEMMA CoalesceUpOwned ==
    ASSUME NEW b, NEW x, WellFormed(b, x), NEW f \in DOMAIN b,
           b[f].down # NULL, x = NULL \/ x = b[f].down,
           WellFormed(coalesce_up(b, f), NULL), NEW ring, Owned(b, x, ring)
    PROVE  Owned(coalesce_up(b, f), NULL, ring)
  <1> DEFINE c == coalesce_up(b, f)
             d == b[f].down
  <1>0. b[d] \in Node /\ b[f] \in Node /\ b[f].addr = b[d].addr + b[d].size
    BY NodeFields DEF WellFormed, Stacked
  <1>1. ASSUME NEW n, InRing(c, NULL, n)
        PROVE  /\ InRing(b, x, n) /\ c[n].next = b[n].next
               /\ c[n].addr = b[n].addr \/ c[n].addr + c[n].size = b[n].addr + b[n].size
    <2>1. n \in DOMAIN b \ {d} /\ ~c[n].used /\ n # NULL
      BY <1>1 DEF InRing, coalesce_up
    <2>2. b[n] \in Node
      BY <2>1, NodeFields DEF WellFormed
    <2>3. c[n] = CASE n = f -> [b[f] EXCEPT !.addr = b[d].addr, !.size = @ + b[d].size, !.down = b[d].down]
                   [] n = b[d].down -> [b[n] EXCEPT !.up = f]
                   [] OTHER -> b[n]
      BY <2>1 DEF coalesce_up
    <2> HIDE DEF c, d
    <2>4. /\ c[n].used = b[n].used /\ c[n].next = b[n].next
          /\ c[n].addr = b[n].addr \/ c[n].addr + c[n].size = b[n].addr + b[n].size
      <3>1. \/ n = f /\ c[n] = [b[f] EXCEPT !.addr = b[d].addr, !.size = @ + b[d].size, !.down = b[d].down]
            \/ c[n] = [b[n] EXCEPT !.up = f] \/ c[n] = b[n]
        BY <2>3
      <3>2. CASE n = f /\ c[n] = [b[f] EXCEPT !.addr = b[d].addr, !.size = @ + b[d].size, !.down = b[d].down]
        <4>1. /\ c[n].addr = b[d].addr /\ c[n].size = b[n].size + b[d].size
              /\ c[n].used = b[n].used /\ c[n].next = b[n].next
          BY <3>2, <2>2 DEF Node
        <4>2. /\ b[n].addr = b[d].addr + b[d].size
              /\ b[d].addr \in Nat /\ b[d].size \in Nat /\ b[n].size \in Nat
          BY <3>2, <1>0 DEF Node
        <4> QED BY <4>1, <4>2
      <3>3. CASE c[n] = [b[n] EXCEPT !.up = f] \/ c[n] = b[n]
        BY <3>3, <2>2 DEF Node
      <3> QED BY <3>1, <3>2, <3>3
    <2> QED BY <2>1, <2>4 DEF InRing, d
  <1> HIDE DEF c
  <1>2. KeptIn(b, x, c, NULL)
    BY <1>1 DEF KeptIn
  <1>3. Owned(c, NULL, ring)
    BY <1>2, OwnedSame DEF c
  <1> QED BY <1>3 DEF c

LEMMA CoalesceDownOwned ==
    ASSUME NEW b, WellFormed(b, NULL), NEW f \in DOMAIN b,
           WellFormed(coalesce_down(b, f), NULL), NEW ring, Owned(b, NULL, ring)
    PROVE  Owned(coalesce_down(b, f), NULL, ring)
  <1> DEFINE c == coalesce_down(b, f)
             u == b[f].up
  <1>1. ASSUME NEW n, InRing(c, NULL, n)
        PROVE  /\ InRing(b, NULL, n) /\ c[n].next = b[n].next
               /\ c[n].addr = b[n].addr \/ c[n].addr + c[n].size = b[n].addr + b[n].size
    <2>1. n \in DOMAIN b \ {u} /\ ~c[n].used /\ n # NULL
      BY <1>1 DEF InRing, coalesce_down
    <2>2. b[n] \in Node
      BY <2>1, NodeFields DEF WellFormed
    <2>3. c[n] = CASE n = f -> [b[f] EXCEPT !.size = @ + b[u].size, !.up = b[u].up]
                   [] n = b[u].up -> [b[n] EXCEPT !.down = f]
                   [] OTHER -> b[n]
      BY <2>1 DEF coalesce_down
    <2> HIDE DEF c, u
    <2>4. /\ c[n].used = b[n].used /\ c[n].next = b[n].next
          /\ c[n].addr = b[n].addr \/ c[n].addr + c[n].size = b[n].addr + b[n].size
      <3>1. \/ n = f /\ c[n] = [b[f] EXCEPT !.size = @ + b[u].size, !.up = b[u].up]
            \/ c[n] = [b[n] EXCEPT !.down = f]
            \/ c[n] = b[n]
        BY <2>3
      <3> QED BY <3>1, <2>2 DEF Node
    <2> QED BY <2>1, <2>4 DEF InRing
  <1> HIDE DEF c
  <1>2. KeptIn(b, NULL, c, NULL)
    BY <1>1 DEF KeptIn
  <1>3. Owned(c, NULL, ring)
    BY <1>2, OwnedSame DEF c
  <1> QED BY <1>3 DEF c

LEMMA FreeUsedBlockOwned ==
    ASSUME NEW b, WellFormed(b, NULL), NEW f \in DOMAIN b, b[f].used,
           NEW ring, Owned(b, NULL, ring)
    PROVE  \E r : Owned(free_used_block(b, f), NULL, r)
  <1> DEFINE c == free_used_block(b, f)
             root == root_node_for_memory_address(b[f].addr)
  <1>1. PICK home \in Locations : root = FreeBlk(home) /\ Serves(b[f], home)
    <2>1. PICK l \in Locations : Within(b[f], l)
      BY DEF WellFormed, Placed
    <2>2. b[f].addr \in Nat /\ b[f].size \in Nat /\ b[f].size > 0
      BY StaticFacts, NodeFields DEF WellFormed, Placed
    <2>3. CASE HasOnchipTag(b[f].addr)
      <3>1. l = "ONCHIP" \/ DDR_HEAP_SIZE > ONCHIP_TAG_MASK
        BY <2>1, <2>2, <2>3, MemoryAssumption DEF HasOnchipTag, Within, Locations, base_addr, HeapSize
      <3>2. root = FreeBlk("ONCHIP") /\ "ONCHIP" \in Locations
        BY <2>3 DEF root_node_for_memory_address, FreeBlk, Locations
      <3> QED BY <2>1, <3>1, <3>2, HeapsServingFacts DEF Serves
    <2>4. CASE ~HasOnchipTag(b[f].addr)
      <3>1. l = "DDR2"
        BY <2>1, <2>2, <2>4, MemoryAssumption DEF HasOnchipTag, Within, Locations, base_addr, HeapSize
      <3>2. root = FreeBlk("DDR2") /\ "DDR2" \in Locations
        BY <2>4 DEF root_node_for_memory_address, FreeBlk, Locations
      <3> QED BY <2>1, <3>1, <3>2, HeapsServingFacts DEF Serves
    <2> QED BY <2>3, <2>4
  <1>2. f \notin Statics /\ f \in Nodes
    BY StaticFacts DEF WellFormed, Placed, Typed
  <1>3. root \in DOMAIN b /\ root # f /\ InRing(b, NULL, root)
    BY <1>1, <1>2, StaticFacts, NodeFields DEF WellFormed, Typed, Placed, InRing
  <1>4. InRing(b, NULL, b[root].next) /\ b[root].next # f
    BY <1>3 DEF WellFormed, Ringed, InRing
  <1>5. ASSUME NEW n \in DOMAIN b
        PROVE  /\ c[n].used <=> b[n].used /\ n # f
               /\ c[n].addr = b[n].addr /\ c[n].size = b[n].size
               /\ c[n].next = IF n = f THEN b[root].next ELSE IF n = root THEN f ELSE b[n].next
    <2>1. b[n] \in Node /\ b[f] \in Node
      BY NodeFields DEF WellFormed
    <2>2. c[n] = CASE n = f -> [b[f] EXCEPT !.used = FALSE, !.next = b[root].next, !.prev = root]
                   [] OTHER -> [b[n] EXCEPT !.next = IF n = root THEN f ELSE @,
                                            !.prev = IF n = b[root].next THEN f ELSE @]
      BY DEF free_used_block
    <2> HIDE DEF c, root
    <2>3. CASE n = f
      <3>1. c[n] = [b[f] EXCEPT !.used = FALSE, !.next = b[root].next, !.prev = root]
        BY <2>2, <2>3
      <3> QED BY <3>1, <2>1, <2>3 DEF Node
    <2>4. CASE n # f
      <3>1. c[n] = [b[n] EXCEPT !.next = IF n = root THEN f ELSE @,
                                !.prev = IF n = b[root].next THEN f ELSE @]
        BY <2>2, <2>4
      <3> QED BY <3>1, <2>1, <2>4 DEF Node
    <2> QED BY <2>3, <2>4
  <1>6. DOMAIN c = DOMAIN b
    BY DEF free_used_block
  <1> HIDE DEF c, root
  <1> DEFINE r == [ring EXCEPT ![f] = home]
  <1>7. /\ r \in [Nodes -> Locations] /\ r[f] = home
        /\ \A n \in Nodes : n # f => r[n] = ring[n]
    BY <1>2 DEF Owned
  <1>8. \A loc \in Locations : r[FreeBlk(loc)] = loc
    BY <1>2, <1>7, StaticFacts DEF Owned
  <1>9. ASSUME NEW n, InRing(c, NULL, n) PROVE r[c[n].next] = r[n] /\ Serves(c[n], r[n])
    <2>1. n \in DOMAIN b /\ n \in Nodes
      BY <1>6, <1>9 DEF InRing, WellFormed, Typed
    <2>2. ring[root] = home /\ ring[b[root].next] = home /\ b[root].next \in Nodes
      BY <1>1, <1>3, <1>4 DEF Owned, InRing, WellFormed, Typed
    <2>3. \A loc \in Locations : Serves(b[n], loc) => Serves(c[n], loc)
      BY <2>1, <1>5 DEF Serves, Within
    <2>4. n # f => InRing(b, NULL, n)
      BY <2>1, <1>5, <1>9 DEF InRing
    <2>5. Serves(c[n], r[n])
      BY <2>1, <2>3, <2>4, <1>1, <1>7 DEF Owned
    <2>6. CASE n = f
      BY <2>2, <2>6, <2>5, <1>4, <1>5, <1>7
    <2>7. CASE n = root
      BY <2>1, <2>2, <2>7, <2>5, <1>3, <1>5, <1>7
    <2>8. CASE n # f /\ n # root
      <3>1. InRing(b, NULL, n)
        BY <2>8, <2>4
      <3>2. InRing(b, NULL, b[n].next)
        BY <3>1, <2>1 DEF WellFormed, Ringed
      <3>3. b[n].next # f /\ b[n].next \in Nodes
        BY <3>2 DEF InRing, WellFormed, Typed
      <3> QED BY <3>1, <3>3, <2>1, <2>8, <2>5, <1>5, <1>7 DEF Owned
    <2> QED BY <2>6, <2>7, <2>8
  <1> HIDE DEF r
  <1>10. Owned(c, NULL, r)
    BY <1>7, <1>8, <1>9 DEF Owned
  <1> QED BY <1>10 DEF c

LEMMA FreeCoalesceOwned ==
    ASSUME NEW b, WellFormed(b, NULL), NEW f \in DOMAIN b, b[f].used,
           NEW ring, Owned(b, NULL, ring)
    PROVE  \E r : Owned(free_coalesce(b, f), NULL, r)
  <1> DEFINE c == free_coalesce(b, f)
             u == b[f].up
             d == b[f].down
  <1>1. /\ u # NULL => u \in DOMAIN b /\ b[u].down = f /\ b[u].addr = b[f].addr + b[f].size
        /\ d # NULL => d \in DOMAIN b /\ b[d].up = f /\ b[f].addr = b[d].addr + b[d].size
        /\ f # NULL /\ b[f].size > 0 /\ b[f].size \in Nat /\ b[f].addr \in Nat
    BY NodeFields, StaticFacts DEF WellFormed, Stacked, Placed
  <1>2. /\ IsFree(b, u) /\ IsFree(b, d) => c = coalesce_up(Unlink(coalesce_up(b, u), d), u)
        /\ IsFree(b, u) /\ ~IsFree(b, d) => c = coalesce_up(b, u)
        /\ ~IsFree(b, u) /\ IsFree(b, d) => c = coalesce_down(b, d)
        /\ ~IsFree(b, u) /\ ~IsFree(b, d) => c = free_used_block(b, f)
    BY DEF free_coalesce
  <1> HIDE DEF c, u, d
  <1>3. IsFree(b, u) => u \in DOMAIN b /\ ~b[u].used
    BY <1>1 DEF IsFree
  <1>4. IsFree(b, d) => d \in DOMAIN b /\ ~b[d].used
    BY <1>1 DEF IsFree
  <1>5. ASSUME IsFree(b, u) PROVE Owned(coalesce_up(b, u), NULL, ring)
    <2>1. u \in DOMAIN b /\ ~b[u].used /\ u # NULL /\ b[u].down = f
      BY <1>1, <1>3, <1>5 DEF IsFree
    <2>2. WellFormed(coalesce_up(b, u), NULL)
      BY <2>1, <1>1, CoalesceUpKeeps
    <2> QED BY <2>1, <2>2, <1>1, CoalesceUpOwned
  <1>6. CASE IsFree(b, u) /\ IsFree(b, d)
    <2> DEFINE up == coalesce_up(b, u)
               cut == Unlink(up, d)
    <2>1. /\ u \in DOMAIN b /\ d \in DOMAIN b /\ ~b[u].used /\ ~b[d].used
          /\ u # f /\ d # f /\ u # NULL /\ d # NULL
      BY <1>1, <1>6 DEF IsFree
    <2>2. u # d /\ d \notin Statics
      BY <2>1, <1>1, NodeFields, StaticFacts DEF WellFormed, Placed
    <2>3. b[u].down # NULL /\ b[b[u].down].used /\ b[b[u].down].down = d /\ b[u].down = f
      BY <2>1, <1>1 DEF d
    <2>4. /\ WellFormed(up, NULL) /\ DOMAIN up = DOMAIN b \ {b[u].down}
          /\ up[u].down = b[b[u].down].down
          /\ \A n \in DOMAIN up : up[n].used = b[n].used
      BY <2>1, <2>3, CoalesceUpKeeps
    <2>5. Owned(up, NULL, ring)
      BY <1>5, <1>6
    <2> HIDE DEF up
    <2>6. d \in DOMAIN up \ Statics /\ ~up[d].used /\ u \in DOMAIN up
      BY <2>1, <2>2, <2>3, <2>4
    <2>7. /\ WellFormed(cut, d) /\ DOMAIN cut = DOMAIN up
          /\ \A n \in DOMAIN up : cut[n].down = up[n].down
      BY <2>4, <2>6, UnlinkKeeps
    <2>8. Owned(cut, d, ring)
      BY <2>4, <2>5, <2>6, UnlinkOwned
    <2> HIDE DEF cut
    <2>9. u \in DOMAIN cut /\ cut[u].down = d
      BY <2>3, <2>4, <2>6, <2>7
    <2>10. WellFormed(coalesce_up(cut, u), NULL)
      BY <1>6, FreeCoalesceKeeps, <1>2 DEF cut, up, c
    <2>11. Owned(coalesce_up(cut, u), NULL, ring)
      BY <2>1, <2>7, <2>8, <2>9, <2>10, CoalesceUpOwned
    <2>12. c = coalesce_up(cut, u)
      BY <1>2, <1>6 DEF cut, up
    <2> QED BY <2>11, <2>12 DEF c
  <1>7. CASE IsFree(b, u) /\ ~IsFree(b, d)
    BY <1>2, <1>5, <1>7 DEF c
  <1>8. CASE ~IsFree(b, u) /\ IsFree(b, d)
    <2>1. WellFormed(coalesce_down(b, d), NULL)
      BY <1>2, <1>8, FreeCoalesceKeeps DEF c
    <2>2. Owned(coalesce_down(b, d), NULL, ring)
      BY <2>1, <1>4, <1>8, CoalesceDownOwned
    <2> QED BY <2>2, <1>2, <1>8 DEF c
  <1>9. CASE ~IsFree(b, u) /\ ~IsFree(b, d)
    <2>1. c = free_used_block(b, f)
      BY <1>2, <1>9
    <2> QED BY <2>1, FreeUsedBlockOwned DEF c
  <1> QED BY <1>6, <1>7, <1>8, <1>9

LEMMA InitRingsApart == Init => RingsApart
  <1> SUFFICES ASSUME Init PROVE RingsApart
    OBVIOUS
  <1> DEFINE ring == [n \in Nodes |-> IF n = free_onchip_blk THEN "ONCHIP" ELSE "DDR2"]
  <1>1. ring \in [Nodes -> Locations]
    BY DEF Locations
  <1>2. \A loc \in Locations : ring[FreeBlk(loc)] = loc
    BY StaticFacts DEF FreeBlk, Locations
  <1>3. \A n \in DOMAIN blk : blk[n].next = n
    BY MemoryAssumption DEF Init, StaticNode, FreeBlk, Statics
  <1> HIDE DEF ring
  <1>4. \A n \in DOMAIN blk : Serves(blk[n], ring[n])
    <2>1. \A loc \in Locations : FreeBlk(loc) \in Statics /\ Within(StaticNode(loc), loc)
      BY StaticFacts DEF StaticNode, Within
    <2>2. \A n \in DOMAIN blk : \E loc \in Locations : n = FreeBlk(loc) /\ blk[n] = StaticNode(loc)
      BY MemoryAssumption DEF Init, Statics, Locations, FreeBlk
    <2> QED BY <2>1, <2>2, <1>2, HeapsServingFacts DEF Serves
  <1>5. Owned(blk, NULL, ring)
    BY <1>1, <1>2, <1>3, <1>4 DEF Owned, InRing
  <1> QED BY <1>1, <1>5 DEF RingsApart, Init

LEMMA NextRingsApart == IInv /\ RingsApart /\ [Next]_vars => RingsApart'
  <1> SUFFICES ASSUME IInv, RingsApart, [Next]_vars PROVE RingsApart'
    OBVIOUS
  <1>1. PICK ring \in [Nodes -> Locations] :
            Owned(blk, NULL, ring) /\ (pc = "search" => ring[finger] = req.loc)
    BY DEF RingsApart
  <1>2. ASSUME pc' = "idle", NEW r, Owned(blk', NULL, r)
        PROVE  RingsApart'
    BY <1>2 DEF RingsApart, Owned
  <1>0. WellFormed(blk, NULL) /\ WellFormed(blk', NULL)
    BY NextIInv DEF IInv
  <1>3. ASSUME NEW n \in DOMAIN blk, ~blk[n].used PROVE ring[blk[n].next] = ring[n]
    <2>1. InRing(blk, NULL, n)
      BY <1>3, NodeFields DEF IInv, WellFormed, InRing
    <2> QED BY <2>1, <1>1 DEF Owned
  <1>4. ASSUME NEW size \in Sizes, NEW loc \in Locations, malloc_shared(size, loc)
        PROVE  RingsApart'
    <2>1. FreeBlk(loc) \in DOMAIN blk /\ ~blk[FreeBlk(loc)].used
      BY StaticFacts DEF IInv, WellFormed, Typed, Placed
    <2>2. ring[finger'] = loc /\ req'.loc = loc /\ blk' = blk
      BY <1>1, <1>3, <1>4, <2>1 DEF malloc_shared, Owned
    <2> QED BY <1>1, <2>2 DEF RingsApart
  <1>5. CASE NextBlock
    <2>1. ring[finger'] = req'.loc /\ blk' = blk
      BY <1>1, <1>3, <1>5 DEF IInv, NextBlock
    <2> QED BY <1>1, <2>1 DEF RingsApart
  <1>6. CASE ReturnNull \/ NoNode
    BY <1>1, <1>2, <1>6 DEF ReturnNull, NoNode, Return
  <1>7. CASE TakeBlock
    <2>1. /\ pc' = "idle" /\ blk' = use_free_block(blk, finger) /\ finger \in DOMAIN blk /\ ~blk[finger].used
          /\ finger # FreeBlk(req.loc) /\ pc = "search" /\ req.loc \in Locations
      BY <1>7 DEF TakeBlock, Return, IsExact, IInv
    <2>2. pc' = "idle" /\ blk' = use_free_block(blk, finger) /\ finger \in DOMAIN blk \ Statics /\ ~blk[finger].used
      BY <2>1, <1>1, StaticFacts DEF Owned
    <2>3. Owned(blk', NULL, ring)
      BY <1>1, <2>2, UseFreeBlockOwned DEF IInv
    <2> QED BY <1>2, <2>2, <2>3
  <1>8. CASE TakePart
    <2>1. pc' = "idle" /\ finger \in DOMAIN blk /\ req.size \in Nat
      BY <1>8 DEF TakePart, Return, IInv
    <2>2. PICK node \in NodeIds \ DOMAIN blk : blk' = SplitBlock(blk, finger, node, req.size)
      BY <1>8 DEF TakePart, NewNode
    <2>3. Owned(blk', NULL, ring)
      BY <1>0, <1>1, <2>1, <2>2, SplitBlockOwned
    <2> QED BY <1>2, <2>1, <2>3
  <1>9. ASSUME NEW p \in held, free_shared(p)
        PROVE  RingsApart'
    <2>1. PICK f \in tree : blk' = free_coalesce(blk, f)
      BY <1>9 DEF free_shared, tfind
    <2>2. pc' = "idle"
      BY <1>9 DEF free_shared
    <2>3. f \in DOMAIN blk /\ blk[f].used
      BY <2>1 DEF IInv, Used
    <2>4. \E r : Owned(blk', NULL, r)
      BY <1>1, <2>1, <2>3, FreeCoalesceOwned DEF IInv
    <2> QED BY <1>2, <2>2, <2>4
  <1>10. CASE UNCHANGED vars
    BY <1>1, <1>10 DEF RingsApart, vars
  <1> QED BY <1>4, <1>5, <1>6, <1>7, <1>8, <1>9, <1>10 DEF Next, Search

-----------------------------------------------------------------------------
(* The theorems.                                                           *)

LEMMA Invariance == Spec => [](IInv /\ RingsApart)
  <1>1. Init => IInv /\ RingsApart
    BY InitIInv, InitRingsApart
  <1>2. (IInv /\ RingsApart) /\ [Next]_vars => (IInv /\ RingsApart)'
    BY NextIInv, NextRingsApart
  <1> QED BY <1>1, <1>2, PTL DEF Spec

\* After any calls, every pointer of an S_NODE is null or leads to an S_NODE
\* that was not given back to the host (coalesce_up, coalesce_down,
\* free_coalesce).
THEOREM SharedMemoryTypes == Spec => []TypeOK
  <1>1. IInv => TypeOK
    <2> SUFFICES ASSUME IInv PROVE TypeOK
      OBVIOUS
    <2>1. ASSUME NEW n \in DOMAIN blk
          PROVE  blk[n] \in [addr : Nat, size : Nat, used : BOOLEAN,
                             prev : DOMAIN blk \cup {NULL}, next : DOMAIN blk \cup {NULL},
                             up : DOMAIN blk \cup {NULL}, down : DOMAIN blk \cup {NULL}]
      <3>1. blk[n] \in Node
        BY NodeFields DEF IInv, WellFormed
      <3>2. blk[n].up \in DOMAIN blk \cup {NULL} /\ blk[n].down \in DOMAIN blk \cup {NULL}
        BY DEF IInv, WellFormed, Stacked
      <3>3. blk[n].prev \in DOMAIN blk \cup {NULL} /\ blk[n].next \in DOMAIN blk \cup {NULL}
        <4>1. CASE blk[n].used
          BY <4>1 DEF IInv, WellFormed, Ringed
        <4>2. CASE ~blk[n].used
          <5>1. InRing(blk, NULL, n)
            BY <4>2, NodeFields DEF IInv, WellFormed, InRing
          <5> QED BY <5>1 DEF IInv, WellFormed, Ringed, InRing
        <4> QED BY <4>1, <4>2
      <3> QED BY <3>1, <3>2, <3>3 DEF Node
    <2>2. blk = [n \in DOMAIN blk |-> blk[n]] /\ DOMAIN blk \subseteq Nodes /\ Statics \subseteq DOMAIN blk
      BY DEF IInv, WellFormed, Typed
    <2>3. finger \in DOMAIN blk \cup {NULL}
      BY DEF IInv
    <2> QED BY <2>1, <2>2, <2>3 DEF IInv, TypeOK
  <1> QED BY <1>1, Invariance, PTL

\* Heaps of any size, the shipped 1 GB of DDR among them: malloc_shared never
\* hands out memory that a caller still holds.
THEOREM SharedMemoryDisjoint == Spec => []AllocationsDisjoint
  <1>1. IInv => AllocationsDisjoint
    <2> SUFFICES ASSUME IInv, NEW p \in held, NEW q \in held, p # q
                 PROVE  Apart(p, q)
      BY DEF AllocationsDisjoint
    <2>1. p.addr # q.addr
      BY DEF IInv
    <2>2. PICK m \in tree : blk[m].addr = p.addr /\ blk[m].size = p.size
      BY DEF IInv, Backed
    <2>3. PICK n \in tree : blk[n].addr = q.addr /\ blk[n].size = q.size
      BY DEF IInv, Backed
    <2>4. m \in DOMAIN blk /\ n \in DOMAIN blk /\ m # n
      BY <2>1, <2>2, <2>3 DEF IInv, Used
    <2>5. Before(blk[m], blk[n]) \/ Before(blk[n], blk[m])
      BY <2>4 DEF IInv, WellFormed, Spread
    <2> QED BY <2>2, <2>3, <2>5 DEF Before, Apart
  <1> QED BY <1>1, Invariance, PTL

\* Heaps of any size, the shipped ones among them: DDR requests are granted DDR
\* memory, and on-chip requests on-chip memory unless the DDR heap is larger than
\* the tag mask.
THEOREM SharedMemoryInHeap == Spec => []AllocationsInServingHeap
  <1>1. IInv => AllocationsInServingHeap
    BY DEF IInv, Serves, AllocationsInServingHeap
  <1> QED BY <1>1, Invariance, PTL

-----------------------------------------------------------------------------
(* Whole heaps: what else holds of the S_NODEs between two calls.          *)

\* Blocks begin and end at multiples of the unit.
Aligned(b) == \A n \in DOMAIN b : b[n].addr % ALIGN = 0 /\ b[n].size % ALIGN = 0

\* Only the first block of a heap has none below it, only the static one none
\* above it, and every address of a heap is in a block.
Tiled(b) ==
    /\ \A n \in DOMAIN b : b[n].up = NULL => n \in Statics
    /\ \A n \in DOMAIN b : b[n].down = NULL =>
            \E loc \in Locations : Within(b[n], loc) /\ b[n].addr = base_addr(loc)
    /\ \A loc \in Locations, a \in Nat :
            base_addr(loc) <= a /\ a < base_addr(loc) + HeapSize(loc) =>
                \E n \in DOMAIN b : b[n].addr <= a /\ a < b[n].addr + b[n].size

\* No two free blocks lie side by side, but for x and the one below it.
Merged(b, x) ==
    \A n \in DOMAIN b : n # x /\ ~b[n].used /\ b[n].down # NULL => b[b[n].down].used

\* Whoever follows the links from the static nodes comes to every free block.
Reached(b, x) ==
    \A S \in SUBSET DOMAIN b :
        /\ Statics \subseteq S
        /\ \A n \in S : InRing(b, x, n) /\ b[n].next \in S /\ b[n].prev \in S
        => \A n \in DOMAIN b : InRing(b, x, n) => n \in S

\* The search has seen the blocks of V, which lie between the static node and
\* the finger, and none of them fits.
Searched ==
    pc = "search" =>
        \E V \in SUBSET DOMAIN blk :
            /\ \A n \in V :
                /\ InRing(blk, NULL, n) /\ blk[n].size < req.size
                /\ blk[n].next \in V \cup {finger}
                /\ blk[n].prev \in V \cup {FreeBlk(req.loc)}
            /\ blk[FreeBlk(req.loc)].next \in V \cup {finger}
            /\ blk[finger].prev \in V \cup {FreeBlk(req.loc)}

-----------------------------------------------------------------------------
(* What each helper writes, field by field.                                *)

LEMMA UnlinkFields ==
    ASSUME NEW b, Typed(b), NEW d \in DOMAIN b, NEW n \in DOMAIN b
    PROVE  LET c == Unlink(b, d) IN
           /\ c[n] \in Node /\ DOMAIN c = DOMAIN b
           /\ c[n].addr = b[n].addr /\ c[n].size = b[n].size /\ c[n].used = b[n].used
           /\ c[n].up = b[n].up /\ c[n].down = b[n].down
           /\ c[n].next = IF n = b[d].prev THEN b[d].next ELSE b[n].next
           /\ c[n].prev = IF n = b[d].next THEN b[d].prev ELSE b[n].prev
    BY NodeFields DEF Unlink, Node

LEMMA UseFreeBlockFields ==
    ASSUME NEW b, Typed(b), NEW f \in DOMAIN b, NEW n \in DOMAIN b
    PROVE  LET l == Unlink(b, f)
               c == use_free_block(b, f)
           IN  /\ DOMAIN c = DOMAIN b
               /\ c[n].addr = b[n].addr /\ c[n].size = b[n].size
               /\ c[n].up = b[n].up /\ c[n].down = b[n].down
               /\ c[n].used <=> b[n].used \/ n = f
               /\ n # f => c[n].next = l[n].next /\ c[n].prev = l[n].prev
  <1> DEFINE l == Unlink(b, f)
             c == use_free_block(b, f)
  <1>1. /\ l[n] \in Node /\ l[f] \in Node /\ DOMAIN l = DOMAIN b
        /\ l[n].addr = b[n].addr /\ l[n].size = b[n].size /\ l[n].used = b[n].used
        /\ l[n].up = b[n].up /\ l[n].down = b[n].down
    BY UnlinkFields
  <1>2. c = [l EXCEPT ![f].used = TRUE, ![f].prev = NULL, ![f].next = NULL]
    BY DEF use_free_block
  <1> HIDE DEF l
  <1>3. DOMAIN c = DOMAIN b /\ (n # f => c[n] = l[n])
        /\ c[f] = [l[f] EXCEPT !.used = TRUE, !.prev = NULL, !.next = NULL]
    BY <1>1, <1>2
  <1> HIDE DEF c
  <1>4. CASE n = f
    BY <1>1, <1>3, <1>4 DEF Node, c, l
  <1>5. CASE n # f
    BY <1>1, <1>3, <1>5 DEF c, l
  <1> QED BY <1>4, <1>5

SplitFields(b, c, f, node, size) ==
    /\ DOMAIN c = DOMAIN b \cup {node} /\ node # NULL
    /\ c[node].addr = b[f].addr /\ c[node].size = size /\ c[node].used
    /\ c[node].up = f /\ c[node].down = b[f].down
    /\ \A n \in DOMAIN b :
        /\ c[n].used = b[n].used /\ c[n].next = b[n].next /\ c[n].prev = b[n].prev
        /\ c[n].addr = IF n = f THEN b[f].addr + size ELSE b[n].addr
        /\ c[n].size = IF n = f THEN b[f].size - size ELSE b[n].size
        /\ c[n].down = IF n = f THEN node ELSE b[n].down
        /\ c[n].up = IF n # f /\ n = b[f].down THEN node ELSE b[n].up

LEMMA SplitBlockFields ==
    ASSUME NEW b, Typed(b), NEW f \in DOMAIN b, NEW node \in NodeIds \ DOMAIN b, NEW size,
           b[f].down \notin {f, node}
    PROVE  SplitFields(b, SplitBlock(b, f, node, size), f, node, size)
  <1> DEFINE c == SplitBlock(b, f, node, size)
             d == b[f].down
  <1>1. DOMAIN c = DOMAIN b \cup {node} /\ node # NULL
    BY MemoryAssumption DEF SplitBlock, Nodes
  <1>2. c[node] = [addr |-> b[f].addr, size |-> size, used |-> TRUE, prev |-> NULL,
                   next |-> NULL, up |-> f, down |-> d]
    BY DEF SplitBlock
  <1>3. ASSUME NEW n \in DOMAIN b
        PROVE  /\ c[n].used = b[n].used /\ c[n].next = b[n].next /\ c[n].prev = b[n].prev
               /\ c[n].addr = IF n = f THEN b[f].addr + size ELSE b[n].addr
               /\ c[n].size = IF n = f THEN b[f].size - size ELSE b[n].size
               /\ c[n].down = IF n = f THEN node ELSE b[n].down
               /\ c[n].up = IF n # f /\ n = d THEN node ELSE b[n].up
    <2>1. b[n] \in Node /\ n # node
      BY NodeFields
    <2>2. c[n] = CASE n = f -> [b[f] EXCEPT !.addr = @ + size, !.size = @ - size, !.down = node]
                   [] n = d -> [b[n] EXCEPT !.up = node]
                   [] OTHER -> b[n]
      BY <2>1 DEF SplitBlock
    <2>a. d # f
      OBVIOUS
    <2> HIDE DEF c, d
    <2>3. CASE n = f
      <3>1. c[n] = [b[f] EXCEPT !.addr = @ + size, !.size = @ - size, !.down = node]
        BY <2>2, <2>3, <2>a
      <3> QED BY <3>1, <2>1, <2>3 DEF Node
    <2>4. CASE n # f /\ n = d
      <3>1. c[n] = [b[n] EXCEPT !.up = node]
        BY <2>2, <2>4
      <3> QED BY <3>1, <2>1, <2>4 DEF Node
    <2>5. CASE n # f /\ n # d
      BY <2>2, <2>5
    <2> QED BY <2>3, <2>4, <2>5
  <1> HIDE DEF c
  <1>4. SplitFields(b, c, f, node, size)
    BY <1>1, <1>2, <1>3 DEF SplitFields
  <1> QED BY <1>4 DEF c

UpFields(b, c, f, d) ==
    /\ DOMAIN c = DOMAIN b \ {d}
    /\ \A n \in DOMAIN b \ {d} :
        /\ c[n].used = b[n].used /\ c[n].next = b[n].next /\ c[n].prev = b[n].prev
        /\ c[n].addr = IF n = f THEN b[d].addr ELSE b[n].addr
        /\ c[n].size = IF n = f THEN b[f].size + b[d].size ELSE b[n].size
        /\ c[n].down = IF n = f THEN b[d].down ELSE b[n].down
        /\ c[n].up = IF n # f /\ n = b[d].down THEN f ELSE b[n].up

LEMMA CoalesceUpFields ==
    ASSUME NEW b, Typed(b), NEW f \in DOMAIN b, b[b[f].down].down # f
    PROVE  UpFields(b, coalesce_up(b, f), f, b[f].down)
  <1> DEFINE c == coalesce_up(b, f)
             d == b[f].down
  <1>1. DOMAIN c = DOMAIN b \ {d}
    BY DEF coalesce_up
  <1>2. ASSUME NEW n \in DOMAIN b \ {d}
        PROVE  /\ c[n].used = b[n].used /\ c[n].next = b[n].next /\ c[n].prev = b[n].prev
               /\ c[n].addr = IF n = f THEN b[d].addr ELSE b[n].addr
               /\ c[n].size = IF n = f THEN b[f].size + b[d].size ELSE b[n].size
               /\ c[n].down = IF n = f THEN b[d].down ELSE b[n].down
               /\ c[n].up = IF n # f /\ n = b[d].down THEN f ELSE b[n].up
    <2>1. b[n] \in Node
      BY NodeFields
    <2>2. c[n] = CASE n = f -> [b[f] EXCEPT !.addr = b[d].addr, !.size = @ + b[d].size, !.down = b[d].down]
                   [] n = b[d].down -> [b[n] EXCEPT !.up = f]
                   [] OTHER -> b[n]
      BY DEF coalesce_up
    <2>a. b[d].down # f
      OBVIOUS
    <2> HIDE DEF c, d
    <2>3. CASE n = f
      <3>1. c[n] = [b[f] EXCEPT !.addr = b[d].addr, !.size = @ + b[d].size, !.down = b[d].down]
        BY <2>2, <2>3, <2>a
      <3> QED BY <3>1, <2>1, <2>3 DEF Node
    <2>4. CASE n # f /\ n = b[d].down
      <3>1. c[n] = [b[n] EXCEPT !.up = f]
        BY <2>2, <2>4
      <3> QED BY <3>1, <2>1, <2>4 DEF Node
    <2>5. CASE n # f /\ n # b[d].down
      BY <2>1, <2>2, <2>5
    <2> QED BY <2>3, <2>4, <2>5
  <1> HIDE DEF c, d
  <1>3. UpFields(b, c, f, d)
    BY <1>1, <1>2 DEF UpFields
  <1> QED BY <1>3 DEF c, d

DownFields(b, c, f, u) ==
    /\ DOMAIN c = DOMAIN b \ {u}
    /\ \A n \in DOMAIN b \ {u} :
        /\ c[n].used = b[n].used /\ c[n].next = b[n].next /\ c[n].prev = b[n].prev
        /\ c[n].addr = b[n].addr
        /\ c[n].size = IF n = f THEN b[f].size + b[u].size ELSE b[n].size
        /\ c[n].up = IF n = f THEN b[u].up ELSE b[n].up
        /\ c[n].down = IF n # f /\ n = b[u].up THEN f ELSE b[n].down

LEMMA CoalesceDownFields ==
    ASSUME NEW b, Typed(b), NEW f \in DOMAIN b, b[b[f].up].up # f
    PROVE  DownFields(b, coalesce_down(b, f), f, b[f].up)
  <1> DEFINE c == coalesce_down(b, f)
             u == b[f].up
  <1>1. DOMAIN c = DOMAIN b \ {u}
    BY DEF coalesce_down
  <1>2. ASSUME NEW n \in DOMAIN b \ {u}
        PROVE  /\ c[n].used = b[n].used /\ c[n].next = b[n].next /\ c[n].prev = b[n].prev
               /\ c[n].addr = b[n].addr
               /\ c[n].size = IF n = f THEN b[f].size + b[u].size ELSE b[n].size
               /\ c[n].up = IF n = f THEN b[u].up ELSE b[n].up
               /\ c[n].down = IF n # f /\ n = b[u].up THEN f ELSE b[n].down
    <2>1. b[n] \in Node
      BY NodeFields
    <2>2. c[n] = CASE n = f -> [b[f] EXCEPT !.size = @ + b[u].size, !.up = b[u].up]
                   [] n = b[u].up -> [b[n] EXCEPT !.down = f]
                   [] OTHER -> b[n]
      BY DEF coalesce_down
    <2>a. b[u].up # f
      OBVIOUS
    <2> HIDE DEF c, u
    <2>3. CASE n = f
      <3>1. c[n] = [b[f] EXCEPT !.size = @ + b[u].size, !.up = b[u].up]
        BY <2>2, <2>3, <2>a
      <3> QED BY <3>1, <2>1, <2>3 DEF Node
    <2>4. CASE n # f /\ n = b[u].up
      <3>1. c[n] = [b[n] EXCEPT !.down = f]
        BY <2>2, <2>4
      <3> QED BY <3>1, <2>1, <2>4 DEF Node
    <2>5. CASE n # f /\ n # b[u].up
      BY <2>1, <2>2, <2>5
    <2> QED BY <2>3, <2>4, <2>5
  <1> HIDE DEF c, u
  <1>3. DownFields(b, c, f, u)
    BY <1>1, <1>2 DEF DownFields
  <1> QED BY <1>3 DEF c, u

LEMMA FreeUsedBlockFields ==
    ASSUME NEW b, Typed(b), NEW f \in DOMAIN b, NEW n \in DOMAIN b
    PROVE  LET c == free_used_block(b, f)
               root == root_node_for_memory_address(b[f].addr)
           IN  /\ DOMAIN c = DOMAIN b
               /\ c[n].addr = b[n].addr /\ c[n].size = b[n].size
               /\ c[n].up = b[n].up /\ c[n].down = b[n].down
               /\ c[n].used <=> b[n].used /\ n # f
               /\ c[n].next = IF n = f THEN b[root].next ELSE IF n = root THEN f ELSE b[n].next
               /\ c[n].prev = IF n = f THEN root ELSE IF n = b[root].next THEN f ELSE b[n].prev
  <1> DEFINE c == free_used_block(b, f)
             root == root_node_for_memory_address(b[f].addr)
  <1>1. b[n] \in Node /\ DOMAIN c = DOMAIN b
    BY NodeFields DEF free_used_block
  <1>2. c[n] = CASE n = f -> [b[f] EXCEPT !.used = FALSE, !.next = b[root].next, !.prev = root]
                 [] OTHER -> [b[n] EXCEPT !.next = IF n = root THEN f ELSE @,
                                          !.prev = IF n = b[root].next THEN f ELSE @]
    BY DEF free_used_block
  <1> HIDE DEF c, root
  <1>3. CASE n = f
    <2>1. c[n] = [b[f] EXCEPT !.used = FALSE, !.next = b[root].next, !.prev = root]
      BY <1>2, <1>3
    <2> QED BY <2>1, <1>1, <1>3 DEF Node, c, root
  <1>4. CASE n # f
    <2>1. c[n] = [b[n] EXCEPT !.next = IF n = root THEN f ELSE @,
                              !.prev = IF n = b[root].next THEN f ELSE @]
      BY <1>2, <1>4
    <2> QED BY <2>1, <1>1, <1>4 DEF Node, c, root
  <1> QED BY <1>3, <1>4

-----------------------------------------------------------------------------
(* The blocks of a heap, from its first address to its last.               *)

\* The blocks above and below a block are other ones.
LEMMA NeighbourFacts ==
    ASSUME NEW b, NEW x, WellFormed(b, x), NEW n \in DOMAIN b
    PROVE  /\ b[n].down # NULL =>
                /\ b[n].down \in DOMAIN b \ Statics /\ b[n].down # n
                /\ b[b[n].down].up = n /\ b[b[n].down].down # n
                /\ b[n].addr = b[b[n].down].addr + b[b[n].down].size
                /\ b[b[n].down].size > 0
           /\ b[n].up # NULL =>
                /\ b[n].up \in DOMAIN b /\ b[n].up # n /\ n \notin Statics
                /\ b[b[n].up].down = n /\ b[b[n].up].up # n
                /\ b[b[n].up].addr = b[n].addr + b[n].size
                /\ b[n].size > 0
  <1>1. Typed(b) /\ Placed(b) /\ Stacked(b)
    BY DEF WellFormed
  <1>2. ASSUME NEW m \in DOMAIN b, b[m].up # NULL
        PROVE  /\ b[m].up \in DOMAIN b /\ b[m].up # m /\ m \notin Statics
               /\ b[b[m].up].down = m /\ b[b[m].up].up # m
               /\ b[b[m].up].addr = b[m].addr + b[m].size
               /\ b[m].size > 0
    <2>1. m \notin Statics /\ b[m].size > 0
      BY <1>1, <1>2, StaticFacts DEF Placed
    <2>2. /\ b[m].up \in DOMAIN b /\ b[b[m].up].down = m
          /\ b[b[m].up].addr = b[m].addr + b[m].size
      BY <1>1, <1>2 DEF Stacked
    <2>3. b[m].up # m
      BY <2>1, <2>2, <1>1, NodeFields
    <2>4. b[b[m].up].up # m
      <3> SUFFICES ASSUME b[b[m].up].up = m PROVE FALSE
        OBVIOUS
      <3>1. b[m].addr = b[b[m].up].addr + b[b[m].up].size
        BY <2>2, <1>1, NodeFields DEF Stacked
      <3> QED BY <2>1, <2>2, <3>1, <1>1, NodeFields
    <2> QED BY <2>1, <2>2, <2>3, <2>4
  <1>3. ASSUME b[n].down # NULL
        PROVE  /\ b[n].down \in DOMAIN b \ Statics /\ b[n].down # n
               /\ b[b[n].down].up = n /\ b[b[n].down].down # n
               /\ b[n].addr = b[b[n].down].addr + b[b[n].down].size
               /\ b[b[n].down].size > 0
    <2>1. /\ b[n].down \in DOMAIN b /\ b[b[n].down].up = n
          /\ b[n].addr = b[b[n].down].addr + b[b[n].down].size
      BY <1>1, <1>3 DEF Stacked
    <2>2. n # NULL
      BY <1>1, NodeFields
    <2>3. b[n].down \notin Statics /\ b[n].down # n /\ b[b[n].down].size > 0
      BY <1>2, <2>1, <2>2
    <2>4. b[b[n].down].down # n
      <3> SUFFICES ASSUME b[b[n].down].down = n PROVE FALSE
        OBVIOUS
      <3>1. b[b[n].down].addr = b[n].addr + b[n].size
        BY <2>1, <2>2, <1>1 DEF Stacked
      <3> QED BY <2>1, <2>3, <3>1, <1>1, NodeFields
    <2> QED BY <2>1, <2>3, <2>4
  <1> QED BY <1>2, <1>3

\* Blocks that do not move stay tiled.
LEMMA SamePlaces ==
    ASSUME NEW b, NEW c, DOMAIN c = DOMAIN b,
           \A n \in DOMAIN b : /\ c[n].addr = b[n].addr /\ c[n].size = b[n].size
                               /\ c[n].up = b[n].up /\ c[n].down = b[n].down
    PROVE  /\ Aligned(b) => Aligned(c)
           /\ Tiled(b) => Tiled(c)
  <1>1. \A n \in DOMAIN b, loc \in Locations : Within(c[n], loc) <=> Within(b[n], loc)
    BY DEF Within
  <1>2. Aligned(b) => Aligned(c)
    BY DEF Aligned
  <1>3. ASSUME Tiled(b) PROVE Tiled(c)
    <2>1. \A n \in DOMAIN c : c[n].up = NULL => n \in Statics
      BY <1>3 DEF Tiled
    <2>2. \A n \in DOMAIN c : c[n].down = NULL =>
             \E loc \in Locations : Within(c[n], loc) /\ c[n].addr = base_addr(loc)
      BY <1>1, <1>3 DEF Tiled
    <2>3. \A loc \in Locations, a \in Nat :
            base_addr(loc) <= a /\ a < base_addr(loc) + HeapSize(loc) =>
                \E n \in DOMAIN c : c[n].addr <= a /\ a < c[n].addr + c[n].size
      <3> SUFFICES ASSUME NEW loc \in Locations, NEW a \in Nat,
                          base_addr(loc) <= a, a < base_addr(loc) + HeapSize(loc)
                   PROVE  \E n \in DOMAIN c : c[n].addr <= a /\ a < c[n].addr + c[n].size
        OBVIOUS
      <3>1. PICK n \in DOMAIN b : b[n].addr <= a /\ a < b[n].addr + b[n].size
        BY <1>3 DEF Tiled
      <3> QED BY <3>1
    <2> QED BY <2>1, <2>2, <2>3 DEF Tiled
  <1> QED BY <1>2, <1>3

LEMMA SplitBlockTiles ==
    ASSUME NEW b, WellFormed(b, NULL), Aligned(b), Tiled(b), Merged(b, NULL),
           NEW f \in DOMAIN b, ~b[f].used, NEW node \in NodeIds \ DOMAIN b,
           NEW size \in Nat, size % ALIGN = 0, size <= b[f].size,
           WellFormed(SplitBlock(b, f, node, size), NULL)
    PROVE  LET c == SplitBlock(b, f, node, size)
           IN  Aligned(c) /\ Tiled(c) /\ Merged(c, NULL)
  <1> DEFINE c == SplitBlock(b, f, node, size)
             d == b[f].down
  <1>1. Typed(b) /\ Typed(c) /\ d \notin {f, node}
    <2>1. d \in DOMAIN b \/ d = NULL
      BY NeighbourFacts
    <2> QED BY <2>1, NeighbourFacts, MemoryAssumption, NodeFields DEF Nodes, WellFormed
  <1>0. SplitFields(b, c, f, node, size)
    <2>1. b[f].down \notin {f, node}
      BY <1>1
    <2> QED BY <1>1, <2>1, SplitBlockFields
  <1>d. d = b[f].down
    OBVIOUS
  <1> HIDE DEF c, d
  <1>2. /\ DOMAIN c = DOMAIN b \cup {node} /\ node # NULL /\ f # NULL
        /\ c[node].addr = b[f].addr /\ c[node].size = size /\ c[node].used
        /\ c[node].up = f /\ c[node].down = d
        /\ \A n \in DOMAIN b :
             /\ c[n].used = b[n].used
             /\ c[n].addr = IF n = f THEN b[f].addr + size ELSE b[n].addr
             /\ c[n].size = IF n = f THEN b[f].size - size ELSE b[n].size
             /\ c[n].down = IF n = f THEN node ELSE b[n].down
             /\ c[n].up = IF n # f /\ n = d THEN node ELSE b[n].up
    BY <1>0, <1>1, <1>d, NodeFields DEF SplitFields
  <1>3. \A n \in DOMAIN b : b[n].addr \in Nat /\ b[n].size \in Nat
    BY <1>1, NodeFields
  <1>4. Aligned(c)
    <2>1. b[f].addr % 8 = 0 /\ b[f].size % 8 = 0 /\ size % 8 = 0
      BY DEF Aligned, ALIGN
    <2>2. (b[f].addr + size) % 8 = 0 /\ (b[f].size - size) % 8 = 0
      BY <1>3, <2>1
    <2> QED BY <1>2, <2>1, <2>2 DEF Aligned, ALIGN
  <1>5. Tiled(c)
    <2>1. \A n \in DOMAIN c : c[n].up = NULL => n \in Statics
      BY <1>2 DEF Tiled
    <2>2. ASSUME NEW n \in DOMAIN c, c[n].down = NULL
          PROVE  \E loc \in Locations : Within(c[n], loc) /\ c[n].addr = base_addr(loc)
      <3>1. CASE n = node
        <4>1. PICK loc \in Locations : Within(b[f], loc) /\ b[f].addr = base_addr(loc)
          BY <1>2, <2>2, <3>1 DEF Tiled, d
        <4> QED BY <1>2, <1>3, <3>1, <4>1, StaticFacts DEF Within
      <3>2. CASE n # node
        <4>1. n \in DOMAIN b /\ n # f
          BY <1>2, <2>2, <3>2
        <4>2. PICK loc \in Locations : Within(b[n], loc) /\ b[n].addr = base_addr(loc)
          BY <1>2, <2>2, <4>1 DEF Tiled
        <4> QED BY <1>2, <4>1, <4>2 DEF Within
      <3> QED BY <3>1, <3>2
    <2>3. ASSUME NEW loc \in Locations, NEW a \in Nat,
                 base_addr(loc) <= a, a < base_addr(loc) + HeapSize(loc)
          PROVE  \E n \in DOMAIN c : c[n].addr <= a /\ a < c[n].addr + c[n].size
      <3>1. PICK n \in DOMAIN b : b[n].addr <= a /\ a < b[n].addr + b[n].size
        BY <2>3 DEF Tiled
      <3>2. CASE n # f
        BY <1>2, <3>1, <3>2
      <3>3. CASE n = f /\ a < b[f].addr + size
        BY <1>2, <3>1, <3>3
      <3>4. CASE n = f /\ ~(a < b[f].addr + size)
        <4>1. c[f].addr <= a /\ a < c[f].addr + c[f].size /\ f \in DOMAIN c
          BY <1>2, <1>3, <3>1, <3>4
        <4> QED BY <4>1
      <3> QED BY <3>2, <3>3, <3>4
    <2> QED BY <2>1, <2>2, <2>3 DEF Tiled
  <1>6. Merged(c, NULL)
    <2> SUFFICES ASSUME NEW n \in DOMAIN c, ~c[n].used, c[n].down # NULL
                 PROVE  c[c[n].down].used
      BY DEF Merged
    <2>1. n \in DOMAIN b /\ ~b[n].used /\ n # NULL
      BY <1>1, <1>2, NodeFields
    <2>2. CASE n = f
      BY <1>2, <2>2
    <2>3. CASE n # f
      <3>1. b[b[n].down].used /\ b[n].down \in DOMAIN b /\ c[n].down = b[n].down
        BY <1>2, <2>1, <2>3, NeighbourFacts DEF Merged
      <3> QED BY <1>2, <3>1
    <2> QED BY <2>2, <2>3
  <1> QED BY <1>4, <1>5, <1>6 DEF c

LEMMA UseFreeBlockTiles ==
    ASSUME NEW b, WellFormed(b, NULL), Aligned(b), Tiled(b), Merged(b, NULL),
           NEW f \in DOMAIN b
    PROVE  LET c == use_free_block(b, f)
           IN  Aligned(c) /\ Tiled(c) /\ Merged(c, NULL)
  <1> DEFINE c == use_free_block(b, f)
  <1>1. Typed(b)
    BY DEF WellFormed
  <1>2. /\ DOMAIN c = DOMAIN b
        /\ \A n \in DOMAIN b :
            /\ c[n].addr = b[n].addr /\ c[n].size = b[n].size
            /\ c[n].up = b[n].up /\ c[n].down = b[n].down
            /\ c[n].used <=> b[n].used \/ n = f
    BY <1>1, UseFreeBlockFields
  <1> HIDE DEF c
  <1>3. Aligned(c) /\ Tiled(c)
    BY <1>2, SamePlaces
  <1>4. Merged(c, NULL)
    BY <1>2, NeighbourFacts DEF Merged
  <1> QED BY <1>3, <1>4 DEF c

\* Merging f with the block below it.
LEMMA CoalesceUpTiles ==
    ASSUME NEW b, NEW x, WellFormed(b, x), Aligned(b), Tiled(b),
           NEW f \in DOMAIN b, b[f].down # NULL, Merged(b, f)
    PROVE  LET c == coalesce_up(b, f)
               d == b[f].down
           IN  /\ Aligned(c) /\ Tiled(c) /\ Merged(c, f)
               /\ (b[d].down # NULL => b[b[d].down].used) => Merged(c, NULL)
  <1> DEFINE c == coalesce_up(b, f)
             d == b[f].down
  <1>1. /\ Typed(b) /\ d \in DOMAIN b \ Statics /\ d # f /\ b[d].up = f /\ b[d].down # f
        /\ b[f].addr = b[d].addr + b[d].size /\ d # NULL /\ f # NULL
    BY NeighbourFacts, NodeFields DEF WellFormed
  <1>2. /\ DOMAIN c = DOMAIN b \ {d}
        /\ \A n \in DOMAIN b \ {d} :
            /\ c[n].used = b[n].used
            /\ c[n].addr = IF n = f THEN b[d].addr ELSE b[n].addr
            /\ c[n].size = IF n = f THEN b[f].size + b[d].size ELSE b[n].size
            /\ c[n].down = IF n = f THEN b[d].down ELSE b[n].down
            /\ c[n].up = IF n # f /\ n = b[d].down THEN f ELSE b[n].up
    <2>1. b[b[f].down].down # f
      BY <1>1
    <2>2. UpFields(b, c, f, d)
      BY <1>1, <2>1, CoalesceUpFields
    <2> HIDE DEF c, d
    <2> QED BY <2>2 DEF UpFields
  <1>3. \A n \in DOMAIN b : b[n].addr \in Nat /\ b[n].size \in Nat
    BY <1>1, NodeFields
  <1>4. b[d].down # NULL => b[d].down \in DOMAIN b \ {d} /\ b[b[d].down].up = d
    BY <1>1, NeighbourFacts
  <1>5. \A n \in DOMAIN b : n # f /\ b[n].down # NULL => b[n].down \in DOMAIN b \ {d}
    BY <1>1, NeighbourFacts
  <1> HIDE DEF c, d
  <1>6. Aligned(c)
    <2>1. b[f].addr % 8 = 0 /\ b[f].size % 8 = 0 /\ b[d].addr % 8 = 0 /\ b[d].size % 8 = 0
      BY <1>1 DEF Aligned, ALIGN
    <2>2. (b[f].size + b[d].size) % 8 = 0
      BY <1>1, <1>3, <2>1
    <2> QED BY <1>2, <2>1, <2>2 DEF Aligned, ALIGN
  <1>7. Tiled(c)
    <2>1. \A n \in DOMAIN c : c[n].up = NULL => n \in Statics
      BY <1>1, <1>2 DEF Tiled
    <2>2. ASSUME NEW n \in DOMAIN c, c[n].down = NULL
          PROVE  \E loc \in Locations : Within(c[n], loc) /\ c[n].addr = base_addr(loc)
      <3>1. CASE n = f
        <4>1. PICK loc \in Locations : Within(b[d], loc) /\ b[d].addr = base_addr(loc)
          BY <1>1, <1>2, <2>2, <3>1 DEF Tiled
        <4>2. PICK m \in Locations : Within(b[f], m)
          BY DEF WellFormed, Placed
        <4>3. m = loc
          BY <1>1, <1>3, <4>1, <4>2, AdjacentSameHeap
        <4> QED BY <1>1, <1>2, <1>3, <3>1, <4>1, <4>2, <4>3, StaticFacts DEF Within
      <3>2. CASE n # f
        <4>1. n \in DOMAIN b \ {d}
          BY <1>2
        <4>2. PICK loc \in Locations : Within(b[n], loc) /\ b[n].addr = base_addr(loc)
          BY <1>2, <2>2, <3>2, <4>1 DEF Tiled
        <4> QED BY <1>2, <3>2, <4>1, <4>2 DEF Within
      <3> QED BY <3>1, <3>2
    <2>3. ASSUME NEW loc \in Locations, NEW a \in Nat,
                 base_addr(loc) <= a, a < base_addr(loc) + HeapSize(loc)
          PROVE  \E n \in DOMAIN c : c[n].addr <= a /\ a < c[n].addr + c[n].size
      <3>1. PICK n \in DOMAIN b : b[n].addr <= a /\ a < b[n].addr + b[n].size
        BY <2>3 DEF Tiled
      <3>2. CASE n \notin {d, f}
        BY <1>2, <3>1, <3>2
      <3>3. CASE n \in {d, f}
        <4>1. f \in DOMAIN c /\ c[f].addr = b[d].addr /\ c[f].size = b[f].size + b[d].size
          BY <1>1, <1>2
        <4>2. c[f].addr <= a /\ a < c[f].addr + c[f].size
          BY <1>1, <1>3, <3>1, <3>3, <4>1
        <4> QED BY <4>1, <4>2
      <3> QED BY <3>2, <3>3
    <2> QED BY <2>1, <2>2, <2>3 DEF Tiled
  <1>8. Merged(c, f)
    BY <1>2, <1>5 DEF Merged
  <1>9. ASSUME b[d].down # NULL => b[b[d].down].used
        PROVE  Merged(c, NULL)
    <2> SUFFICES ASSUME NEW n \in DOMAIN c, ~c[n].used, c[n].down # NULL
                 PROVE  c[c[n].down].used
      BY DEF Merged
    <2>1. CASE n = f
      BY <1>2, <1>4, <1>9, <2>1
    <2>2. CASE n # f
      BY <1>8, <2>2 DEF Merged
    <2> QED BY <2>1, <2>2
  <1> QED BY <1>6, <1>7, <1>8, <1>9 DEF c, d

\* Merging f with the block above it, whose upper neighbour is not free.
LEMMA CoalesceDownTiles ==
    ASSUME NEW b, WellFormed(b, NULL), Aligned(b), Tiled(b), Merged(b, NULL),
           NEW f \in DOMAIN b, b[f].up # NULL, ~b[f].used,
           b[b[f].up].up # NULL => b[b[b[f].up].up].used, b[f].up \notin Statics
    PROVE  LET c == coalesce_down(b, f)
           IN  Aligned(c) /\ Tiled(c) /\ Merged(c, NULL)
  <1> DEFINE c == coalesce_down(b, f)
             u == b[f].up
  <1>1. /\ Typed(b) /\ u \in DOMAIN b /\ u # f /\ b[u].down = f /\ b[u].up # f
        /\ b[u].addr = b[f].addr + b[f].size /\ u # NULL /\ f # NULL
    BY NeighbourFacts, NodeFields DEF WellFormed
  <1>2. /\ DOMAIN c = DOMAIN b \ {u}
        /\ \A n \in DOMAIN b \ {u} :
            /\ c[n].used = b[n].used /\ c[n].addr = b[n].addr
            /\ c[n].size = IF n = f THEN b[f].size + b[u].size ELSE b[n].size
            /\ c[n].up = IF n = f THEN b[u].up ELSE b[n].up
            /\ c[n].down = IF n # f /\ n = b[u].up THEN f ELSE b[n].down
    <2>1. b[b[f].up].up # f
      BY <1>1
    <2>2. DownFields(b, c, f, u)
      BY <1>1, <2>1, CoalesceDownFields
    <2> HIDE DEF c, u
    <2> QED BY <2>2 DEF DownFields
  <1>3. \A n \in DOMAIN b : b[n].addr \in Nat /\ b[n].size \in Nat
    BY <1>1, NodeFields
  <1>4. b[u].up # NULL => b[u].up \in DOMAIN b \ {u} /\ b[b[u].up].used
    BY <1>1, NeighbourFacts
  <1>5. \A n \in DOMAIN b : b[n].down # NULL =>
            b[n].down \in DOMAIN b /\ (b[n].down = u => n = b[u].up)
    BY <1>1, NeighbourFacts
  <1> HIDE DEF c, u
  <1>0. u \notin Statics
    BY DEF u
  <1>6. Aligned(c)
    <2>1. b[f].size % 8 = 0 /\ b[u].size % 8 = 0
      BY <1>1 DEF Aligned, ALIGN
    <2>2. (b[f].size + b[u].size) % 8 = 0
      BY <1>1, <1>3, <2>1
    <2> QED BY <1>2, <2>1, <2>2 DEF Aligned, ALIGN
  <1>7. Tiled(c)
    <2>1. \A n \in DOMAIN c : c[n].up = NULL => n \in Statics
      BY <1>0, <1>1, <1>2 DEF Tiled
    <2>2. ASSUME NEW n \in DOMAIN c, c[n].down = NULL
          PROVE  \E loc \in Locations : Within(c[n], loc) /\ c[n].addr = base_addr(loc)
      <3>1. n \in DOMAIN b \ {u} /\ b[n].down = NULL
        BY <1>1, <1>2, <2>2
      <3>2. PICK loc \in Locations : Within(b[n], loc) /\ b[n].addr = base_addr(loc)
        BY <3>1 DEF Tiled
      <3>3. CASE n = f
        <4>1. PICK m \in Locations : Within(b[u], m)
          BY <1>1 DEF WellFormed, Placed
        <4>2. m = loc
          BY <1>1, <1>3, <3>2, <3>3, <4>1, AdjacentSameHeap
        <4> QED BY <1>1, <1>2, <1>3, <3>1, <3>2, <3>3, <4>1, <4>2, StaticFacts DEF Within
      <3>4. CASE n # f
        BY <1>2, <3>1, <3>2, <3>4 DEF Within
      <3> QED BY <3>3, <3>4
    <2>3. ASSUME NEW loc \in Locations, NEW a \in Nat,
                 base_addr(loc) <= a, a < base_addr(loc) + HeapSize(loc)
          PROVE  \E n \in DOMAIN c : c[n].addr <= a /\ a < c[n].addr + c[n].size
      <3>1. PICK n \in DOMAIN b : b[n].addr <= a /\ a < b[n].addr + b[n].size
        BY <2>3 DEF Tiled
      <3>2. CASE n \notin {u, f}
        BY <1>2, <3>1, <3>2
      <3>3. CASE n \in {u, f}
        <4>1. f \in DOMAIN c /\ c[f].addr = b[f].addr /\ c[f].size = b[f].size + b[u].size
          BY <1>1, <1>2
        <4>2. c[f].addr <= a /\ a < c[f].addr + c[f].size
          BY <1>1, <1>3, <3>1, <3>3, <4>1
        <4> QED BY <4>1, <4>2
      <3> QED BY <3>2, <3>3
    <2> QED BY <2>1, <2>2, <2>3 DEF Tiled
  <1>8. Merged(c, NULL)
    <2> SUFFICES ASSUME NEW n \in DOMAIN c, ~c[n].used, c[n].down # NULL
                 PROVE  c[c[n].down].used
      BY DEF Merged
    <2>1. n \in DOMAIN b \ {u} /\ ~b[n].used /\ n # NULL
      BY <1>1, <1>2, NodeFields
    <2>2. n # b[u].up
      BY <1>1, <1>4, <2>1, NodeFields
    <2>3. c[n].down = b[n].down
      BY <1>2, <2>1, <2>2
    <2>4. b[n].down \in DOMAIN b \ {u} /\ b[b[n].down].used
      BY <1>5, <2>1, <2>2, <2>3 DEF Merged
    <2> QED BY <1>2, <2>3, <2>4
  <1> QED BY <1>6, <1>7, <1>8 DEF c

\* A block between two used ones becomes free.
LEMMA FreeUsedBlockTiles ==
    ASSUME NEW b, WellFormed(b, NULL), Aligned(b), Tiled(b), Merged(b, NULL),
           NEW f \in DOMAIN b, ~IsFree(b, b[f].up), ~IsFree(b, b[f].down)
    PROVE  LET c == free_used_block(b, f)
           IN  Aligned(c) /\ Tiled(c) /\ Merged(c, NULL)
  <1> DEFINE c == free_used_block(b, f)
  <1>1. Typed(b)
    BY DEF WellFormed
  <1>2. /\ DOMAIN c = DOMAIN b
        /\ \A n \in DOMAIN b :
            /\ c[n].addr = b[n].addr /\ c[n].size = b[n].size
            /\ c[n].up = b[n].up /\ c[n].down = b[n].down
            /\ c[n].used <=> b[n].used /\ n # f
    BY <1>1, FreeUsedBlockFields
  <1> HIDE DEF c
  <1>3. Aligned(c) /\ Tiled(c)
    BY <1>2, SamePlaces
  <1>4. Merged(c, NULL)
    <2> SUFFICES ASSUME NEW n \in DOMAIN c, ~c[n].used, c[n].down # NULL
                 PROVE  c[c[n].down].used
      BY DEF Merged
    <2>1. n \in DOMAIN b /\ n # NULL /\ c[n].down = b[n].down /\ b[n].down \in DOMAIN b
          /\ b[b[n].down].up = n /\ b[n].down # n
      BY <1>1, <1>2, NodeFields, NeighbourFacts
    <2>2. CASE n = f
      BY <1>2, <2>1, <2>2 DEF IsFree
    <2>3. CASE n # f
      <3>1. ~b[n].used /\ b[b[n].down].used
        BY <1>2, <2>1, <2>3 DEF Merged
      <3>2. b[n].down # f
        BY <2>1, <3>1 DEF IsFree
      <3> QED BY <1>2, <2>1, <3>1, <3>2
    <2> QED BY <2>2, <2>3
  <1> QED BY <1>3, <1>4 DEF c

-----------------------------------------------------------------------------
(* Every free block can be reached.                                        *)

LEMMA ReachedSame ==
    ASSUME NEW b, NEW x, NEW c, NEW y, Reached(b, x),
           \A n : InRing(c, y, n) <=> InRing(b, x, n),
           \A n : InRing(b, x, n) => c[n].next = b[n].next /\ c[n].prev = b[n].prev
    PROVE  Reached(c, y)
  <1> SUFFICES ASSUME NEW S \in SUBSET DOMAIN c, Statics \subseteq S,
                      \A n \in S : InRing(c, y, n) /\ c[n].next \in S /\ c[n].prev \in S,
                      NEW m \in DOMAIN c, InRing(c, y, m)
               PROVE  m \in S
    BY DEF Reached
  <1>1. S \in SUBSET DOMAIN b /\ m \in DOMAIN b
    BY DEF InRing
  <1>2. \A n \in S : InRing(b, x, n) /\ b[n].next \in S /\ b[n].prev \in S
    OBVIOUS
  <1> QED BY <1>1, <1>2 DEF Reached

LEMMA UnlinkReached ==
    ASSUME NEW b, WellFormed(b, NULL), Reached(b, NULL),
           NEW d \in DOMAIN b \ Statics, ~b[d].used
    PROVE  Reached(Unlink(b, d), d)
  <1> DEFINE c == Unlink(b, d)
             p == b[d].prev
             q == b[d].next
  <1>1. Typed(b) /\ Ringed(b, NULL) /\ InRing(b, NULL, d)
    BY NodeFields DEF WellFormed, InRing
  <1>2. ASSUME NEW n \in DOMAIN b
        PROVE  /\ InRing(c, d, n) <=> InRing(b, NULL, n) /\ n # d
               /\ c[n].next = IF n = p THEN q ELSE b[n].next
               /\ c[n].prev = IF n = q THEN p ELSE b[n].prev
    BY <1>1, UnlinkFields, NodeFields DEF InRing
  <1>3. DOMAIN c = DOMAIN b
    BY DEF Unlink
  <1>4. b[p].next = d /\ b[q].prev = d /\ p \in DOMAIN b /\ q \in DOMAIN b
    BY <1>1 DEF Ringed, InRing
  <1> HIDE DEF c, p, q
  <1> SUFFICES ASSUME NEW S \in SUBSET DOMAIN b, Statics \subseteq S,
                      \A n \in S : InRing(c, d, n) /\ c[n].next \in S /\ c[n].prev \in S,
                      NEW m \in DOMAIN b, InRing(c, d, m)
               PROVE  m \in S
    BY <1>3 DEF Reached, c
  <1>5. CASE p \in S
    <2> DEFINE T == S \cup {d}
    <2>1. q \in S
      BY <1>2, <1>5
    <2>2. \A n \in S : InRing(b, NULL, n) /\ b[n].next \in T /\ b[n].prev \in T
      BY <1>2, <1>4
    <2>3. InRing(b, NULL, d) /\ b[d].next \in T /\ b[d].prev \in T
      BY <1>1, <1>5, <2>1 DEF p, q
    <2>4. T \in SUBSET DOMAIN b /\ Statics \subseteq T
      OBVIOUS
    <2>5. m \in T
      <3> HIDE DEF T
      <3>1. \A n \in T : InRing(b, NULL, n) /\ b[n].next \in T /\ b[n].prev \in T
        BY <2>2, <2>3 DEF T
      <3>2. InRing(b, NULL, m)
        BY <1>2
      <3> QED BY <2>4, <3>1, <3>2 DEF Reached
    <2> QED BY <1>2, <2>5
  <1>6. CASE p \notin S
    <2>1. q \notin S
      BY <1>2, <1>6
    <2>2. \A n \in S : InRing(b, NULL, n) /\ b[n].next \in S /\ b[n].prev \in S
      BY <1>2, <1>6, <2>1
    <2>3. InRing(b, NULL, m)
      BY <1>2
    <2> QED BY <2>2, <2>3 DEF Reached
  <1> QED BY <1>5, <1>6

LEMMA UseFreeBlockReached ==
    ASSUME NEW b, WellFormed(b, NULL), Reached(b, NULL),
           NEW f \in DOMAIN b \ Statics, ~b[f].used
    PROVE  Reached(use_free_block(b, f), NULL)
  <1> DEFINE c == use_free_block(b, f)
             l == Unlink(b, f)
  <1>1. Typed(b) /\ Reached(l, f)
    BY UnlinkReached DEF WellFormed
  <1>2. DOMAIN l = DOMAIN b /\ DOMAIN c = DOMAIN b
    BY DEF Unlink, use_free_block
  <1>3. ASSUME NEW n \in DOMAIN b
        PROVE  /\ InRing(c, NULL, n) <=> InRing(l, f, n)
               /\ InRing(l, f, n) => c[n].next = l[n].next /\ c[n].prev = l[n].prev
    BY <1>1, <1>2, UnlinkFields, UseFreeBlockFields, NodeFields DEF InRing
  <1> HIDE DEF c, l
  <1>4. \A n : InRing(c, NULL, n) <=> InRing(l, f, n)
    BY <1>2, <1>3 DEF InRing
  <1>5. \A n : InRing(l, f, n) => c[n].next = l[n].next /\ c[n].prev = l[n].prev
    BY <1>2, <1>3 DEF InRing
  <1>6. Reached(c, NULL)
    BY <1>1, <1>4, <1>5, ReachedSame
  <1> QED BY <1>6 DEF c

LEMMA SplitBlockReached ==
    ASSUME NEW b, WellFormed(b, NULL), Reached(b, NULL),
           NEW f \in DOMAIN b, NEW node \in NodeIds \ DOMAIN b, NEW size,
           NEW c, SplitFields(b, c, f, node, size)
    PROVE  Reached(c, NULL)
  <1>1. DOMAIN c = DOMAIN b \cup {node} /\ c[node].used
    BY DEF SplitFields
  <1>2. ASSUME NEW n \in DOMAIN b
        PROVE  c[n].used = b[n].used /\ c[n].next = b[n].next /\ c[n].prev = b[n].prev
    BY DEF SplitFields
  <1>3. \A n : InRing(c, NULL, n) <=> InRing(b, NULL, n)
    <2> SUFFICES ASSUME NEW n PROVE InRing(c, NULL, n) <=> InRing(b, NULL, n)
      OBVIOUS
    <2>1. CASE n \in DOMAIN b
      BY <1>1, <1>2, <2>1 DEF InRing
    <2>2. CASE n \notin DOMAIN b
      BY <1>1, <2>2 DEF InRing
    <2> QED BY <2>1, <2>2
  <1>4. \A n : InRing(b, NULL, n) => c[n].next = b[n].next /\ c[n].prev = b[n].prev
    BY <1>2 DEF InRing
  <1> QED BY <1>3, <1>4, ReachedSame

LEMMA CoalesceUpReached ==
    ASSUME NEW b, NEW x, WellFormed(b, x), Reached(b, x), NEW f \in DOMAIN b, b[f].down # NULL,
           (b[b[f].down].used /\ x = NULL) \/ x = b[f].down
    PROVE  Reached(coalesce_up(b, f), NULL)
  <1> DEFINE c == coalesce_up(b, f)
             d == b[f].down
  <1>1. Typed(b) /\ d \in DOMAIN b /\ b[d].down # f
    BY NeighbourFacts DEF WellFormed
  <1>2. (b[d].used /\ x = NULL) \/ x = d
    OBVIOUS
  <1>3. UpFields(b, c, f, d)
    <2>1. b[b[f].down].down # f
      BY <1>1
    <2> QED BY <1>1, <2>1, CoalesceUpFields
  <1> HIDE DEF c, d
  <1>4. /\ DOMAIN c = DOMAIN b \ {d}
        /\ \A n \in DOMAIN b \ {d} :
            c[n].used = b[n].used /\ c[n].next = b[n].next /\ c[n].prev = b[n].prev
    BY <1>3 DEF UpFields
  <1>n. NULL \notin DOMAIN b
    BY <1>1, NodeFields
  <1>5. \A n : InRing(c, NULL, n) <=> InRing(b, x, n)
    <2>1. CASE x = d
      BY <1>n, <1>4, <2>1 DEF InRing
    <2>2. CASE b[d].used /\ x = NULL
      BY <1>n, <1>4, <2>2 DEF InRing
    <2> QED BY <1>2, <2>1, <2>2
  <1>6. \A n : InRing(b, x, n) => c[n].next = b[n].next /\ c[n].prev = b[n].prev
    BY <1>2, <1>4 DEF InRing
  <1>7. Reached(c, NULL)
    BY <1>5, <1>6, ReachedSame
  <1> QED BY <1>7 DEF c

LEMMA CoalesceDownReached ==
    ASSUME NEW b, WellFormed(b, NULL), Reached(b, NULL), NEW f \in DOMAIN b, b[f].up # NULL,
           b[b[f].up].used
    PROVE  Reached(coalesce_down(b, f), NULL)
  <1> DEFINE c == coalesce_down(b, f)
             u == b[f].up
  <1>1. Typed(b) /\ u \in DOMAIN b /\ b[u].up # f /\ b[u].used
    BY NeighbourFacts DEF WellFormed
  <1>2. DownFields(b, c, f, u)
    <2>1. b[b[f].up].up # f
      BY <1>1
    <2> QED BY <1>1, <2>1, CoalesceDownFields
  <1> HIDE DEF c, u
  <1>3. /\ DOMAIN c = DOMAIN b \ {u}
        /\ \A n \in DOMAIN b \ {u} :
            c[n].used = b[n].used /\ c[n].next = b[n].next /\ c[n].prev = b[n].prev
    BY <1>2 DEF DownFields
  <1>4. \A n : InRing(c, NULL, n) <=> InRing(b, NULL, n)
    BY <1>1, <1>2, <1>3 DEF InRing
  <1>5. \A n : InRing(b, NULL, n) => c[n].next = b[n].next /\ c[n].prev = b[n].prev
    BY <1>1, <1>3 DEF InRing
  <1>6. Reached(c, NULL)
    BY <1>4, <1>5, ReachedSame
  <1> QED BY <1>6 DEF c

LEMMA FreeUsedBlockReached ==
    ASSUME NEW b, WellFormed(b, NULL), Reached(b, NULL), NEW f \in DOMAIN b, b[f].used
    PROVE  Reached(free_used_block(b, f), NULL)
  <1> DEFINE c == free_used_block(b, f)
             root == root_node_for_memory_address(b[f].addr)
             q == b[root].next
  <1>1. Typed(b) /\ Ringed(b, NULL) /\ f \notin Statics
    BY StaticFacts DEF WellFormed, Placed
  <1>2. root \in Statics /\ root \in DOMAIN b /\ root # f /\ InRing(b, NULL, root)
    <2>1. root \in Statics
      BY DEF root_node_for_memory_address, Statics
    <2> HIDE DEF root
    <2>2. root \in DOMAIN b /\ ~b[root].used
      BY <2>1, StaticFacts DEF WellFormed, Typed, Placed
    <2> QED BY <1>1, <2>1, <2>2, NodeFields DEF InRing
  <1>3. ASSUME NEW n \in DOMAIN b
        PROVE  /\ InRing(c, NULL, n) <=> InRing(b, NULL, n) \/ n = f
               /\ c[n].next = IF n = f THEN q ELSE IF n = root THEN f ELSE b[n].next
               /\ c[n].prev = IF n = f THEN root ELSE IF n = q THEN f ELSE b[n].prev
    BY <1>1, FreeUsedBlockFields, NodeFields DEF InRing
  <1>4. DOMAIN c = DOMAIN b
    BY DEF free_used_block
  <1>5. InRing(b, NULL, q) /\ q \in DOMAIN b /\ b[q].prev = root
    BY <1>1, <1>2 DEF Ringed, InRing
  <1> HIDE DEF c, root, q
  <1> SUFFICES ASSUME NEW S \in SUBSET DOMAIN b, Statics \subseteq S,
                      \A n \in S : InRing(c, NULL, n) /\ c[n].next \in S /\ c[n].prev \in S,
                      NEW m \in DOMAIN b, InRing(c, NULL, m)
               PROVE  m \in S
    BY <1>4 DEF Reached, c
  <1> DEFINE T == S \ {f}
  <1>6. f \in S /\ q \in S
    BY <1>2, <1>3
  <1>7. ASSUME NEW n \in T
        PROVE  InRing(b, NULL, n) /\ b[n].next \in T /\ b[n].prev \in T
    <2>1. InRing(b, NULL, n)
      BY <1>3
    <2>2. b[n].next # f /\ b[n].prev # f
      BY <1>1, <2>1 DEF Ringed, InRing
    <2>3. b[n].next \in S
      BY <1>3, <1>6, <2>1 DEF q
    <2>4. b[n].prev \in S
      BY <1>2, <1>3, <1>5
    <2> QED BY <2>1, <2>2, <2>3, <2>4
  <1>8. T \in SUBSET DOMAIN b /\ Statics \subseteq T
    BY <1>1
  <1> HIDE DEF T
  <1>9. CASE m = f
    BY <1>6, <1>9
  <1>10. CASE m # f
    <2>1. InRing(b, NULL, m)
      BY <1>3, <1>10
    <2>2. m \in T
      BY <1>7, <1>8, <2>1 DEF Reached
    <2> QED BY <2>2 DEF T
  <1> QED BY <1>9, <1>10

-----------------------------------------------------------------------------
(* Between two calls the heaps are whole.                                  *)

Whole(b) == Aligned(b) /\ Tiled(b) /\ Merged(b, NULL) /\ Reached(b, NULL)

LEMMA SplitBlockWhole ==
    ASSUME NEW b, WellFormed(b, NULL), Whole(b), NEW f \in DOMAIN b, ~b[f].used,
           NEW node \in NodeIds \ DOMAIN b,
           NEW size \in Nat, size % ALIGN = 0, size <= b[f].size,
           WellFormed(SplitBlock(b, f, node, size), NULL)
    PROVE  Whole(SplitBlock(b, f, node, size))
  <1>1. b[f].down \notin {f, node}
    <2>1. b[f].down \in DOMAIN b \/ b[f].down = NULL
      BY NeighbourFacts
    <2> QED BY <2>1, NeighbourFacts, MemoryAssumption, NodeFields DEF Nodes, WellFormed
  <1>2. SplitFields(b, SplitBlock(b, f, node, size), f, node, size)
    BY <1>1, SplitBlockFields DEF WellFormed
  <1>3. Reached(SplitBlock(b, f, node, size), NULL)
    BY <1>2, SplitBlockReached DEF Whole
  <1>4. LET c == SplitBlock(b, f, node, size) IN Aligned(c) /\ Tiled(c) /\ Merged(c, NULL)
    BY SplitBlockTiles DEF Whole
  <1> QED BY <1>3, <1>4 DEF Whole

LEMMA UseFreeBlockWhole ==
    ASSUME NEW b, WellFormed(b, NULL), Whole(b), NEW f \in DOMAIN b \ Statics, ~b[f].used
    PROVE  Whole(use_free_block(b, f))
  <1>1. LET c == use_free_block(b, f) IN Aligned(c) /\ Tiled(c) /\ Merged(c, NULL)
    BY UseFreeBlockTiles DEF Whole
  <1>2. Reached(use_free_block(b, f), NULL)
    BY UseFreeBlockReached DEF Whole
  <1> QED BY <1>1, <1>2 DEF Whole

LEMMA FreeCoalesceWhole ==
    ASSUME NEW b, WellFormed(b, NULL), Whole(b), NEW f \in DOMAIN b, b[f].used
    PROVE  Whole(free_coalesce(b, f))
  <1> DEFINE c == free_coalesce(b, f)
             u == b[f].up
             d == b[f].down
  <1>1. /\ u # NULL => u \in DOMAIN b /\ b[u].down = f /\ u # f
        /\ d # NULL => d \in DOMAIN b \ Statics /\ b[d].up = f /\ b[d].down # f /\ d # f
        /\ f # NULL /\ f \notin Statics
    BY NeighbourFacts, NodeFields, StaticFacts DEF WellFormed, Placed
  <1>2. /\ IsFree(b, u) /\ IsFree(b, d) => c = coalesce_up(Unlink(coalesce_up(b, u), d), u)
        /\ IsFree(b, u) /\ ~IsFree(b, d) => c = coalesce_up(b, u)
        /\ ~IsFree(b, u) /\ IsFree(b, d) => c = coalesce_down(b, d)
        /\ ~IsFree(b, u) /\ ~IsFree(b, d) => c = free_used_block(b, f)
    BY DEF free_coalesce
  <1>d. d = b[f].down /\ u = b[f].up
    OBVIOUS
  <1> HIDE DEF c, u, d
  <1>3. Aligned(b) /\ Tiled(b) /\ Merged(b, NULL) /\ Reached(b, NULL)
    BY DEF Whole
  <1>4. IsFree(b, u) => /\ u \in DOMAIN b /\ ~b[u].used /\ u # NULL
                        /\ b[u].down = f /\ b[u].down # NULL /\ Merged(b, u)
    BY <1>1, <1>3, NodeFields DEF IsFree, Merged, WellFormed
  <1>5. IsFree(b, d) => d \in DOMAIN b \ Statics /\ ~b[d].used /\ d # NULL
    BY <1>1 DEF IsFree
  <1>6. CASE IsFree(b, u) /\ IsFree(b, d)
    <2> DEFINE up == coalesce_up(b, u)
               cut == Unlink(up, d)
    <2>1. u # d
      <3>1. b[f].addr = b[d].addr + b[d].size /\ b[u].addr = b[f].addr + b[f].size /\ b[f].size > 0
        BY <1>4, <1>5, <1>6, <1>d, NeighbourFacts
      <3> QED BY <3>1, <1>4, <1>5, <1>6, NodeFields DEF WellFormed
    <2>2. b[u].down # NULL /\ b[b[u].down].used /\ b[b[u].down].down = d /\ b[u].down = f
      BY <1>4, <1>6, <1>d
    <2>3. /\ WellFormed(up, NULL) /\ DOMAIN up = DOMAIN b \ {b[u].down}
          /\ up[u].down = b[b[u].down].down
      BY <1>4, <1>6, <2>2, CoalesceUpKeeps
    <2>4. Aligned(up) /\ Tiled(up) /\ Merged(up, u)
      <3>1. u \in DOMAIN b /\ b[u].down # NULL /\ Merged(b, u)
        BY <1>4, <1>6
      <3> QED BY <1>3, <3>1, CoalesceUpTiles
    <2>5. Reached(up, NULL)
      <3>1. u \in DOMAIN b /\ b[u].down # NULL /\ b[b[u].down].used
        BY <1>4, <1>6, <2>2
      <3> QED BY <1>3, <3>1, CoalesceUpReached
    <2>6. UpFields(b, up, u, f)
      <3>1. Typed(b) /\ u \in DOMAIN b /\ b[b[u].down].down # u
        BY <1>4, <1>6, <2>1, <2>2 DEF WellFormed
      <3>2. UpFields(b, up, u, b[u].down)
        BY <3>1, CoalesceUpFields
      <3> QED BY <2>2, <3>2
    <2>7. /\ DOMAIN up = DOMAIN b \ {f}
          /\ \A n \in DOMAIN b \ {f} : up[n].used = b[n].used /\ (n # u => up[n].down = b[n].down)
      BY <2>6 DEF UpFields
    <2> HIDE DEF up
    <2>8. d \in DOMAIN up \ Statics /\ ~up[d].used /\ u \in DOMAIN up /\ up[d].down = b[d].down /\ up[u].down = d
      BY <1>1, <1>4, <1>5, <1>6, <2>1, <2>2, <2>3, <2>7
    <2>9. /\ WellFormed(cut, d) /\ DOMAIN cut = DOMAIN up
          /\ \A n \in DOMAIN up :
                /\ cut[n].addr = up[n].addr /\ cut[n].size = up[n].size
                /\ cut[n].used = up[n].used /\ cut[n].up = up[n].up /\ cut[n].down = up[n].down
      BY <2>3, <2>8, UnlinkKeeps
    <2>10. Reached(cut, d)
      BY <2>3, <2>5, <2>8, UnlinkReached
    <2> HIDE DEF cut
    <2>11. Aligned(cut) /\ Tiled(cut)
      BY <2>4, <2>9, SamePlaces
    <2>12. Merged(cut, u)
      <3> SUFFICES ASSUME NEW n \in DOMAIN cut, n # u, ~cut[n].used, cut[n].down # NULL
                   PROVE  cut[cut[n].down].used
        BY DEF Merged
      <3>1. n \in DOMAIN up /\ ~up[n].used /\ up[n].down # NULL /\ cut[n].down = up[n].down
        BY <2>9
      <3>2. up[up[n].down].used /\ up[n].down \in DOMAIN up
        BY <2>3, <2>4, <3>1, NeighbourFacts DEF Merged
      <3> QED BY <2>9, <3>1, <3>2
    <2>13. u \in DOMAIN cut /\ cut[u].down = d /\ d # NULL
      BY <1>5, <1>6, <2>8, <2>9
    <2>14. cut[d].down # NULL => cut[cut[d].down].used
      <3> SUFFICES ASSUME cut[d].down # NULL PROVE cut[cut[d].down].used
        OBVIOUS
      <3>1. d \in DOMAIN b /\ ~b[d].used /\ b[d].down # NULL /\ cut[d].down = b[d].down /\ d # NULL
        BY <1>5, <1>6, <2>8, <2>9
      <3>2. b[b[d].down].used /\ b[d].down \in DOMAIN b /\ b[d].down # f
        BY <1>1, <1>3, <3>1, NeighbourFacts DEF Merged
      <3> QED BY <2>7, <2>9, <3>1, <3>2
    <2>15. c = coalesce_up(cut, u)
      BY <1>2, <1>6 DEF cut, up
    <2>16. Aligned(c) /\ Tiled(c) /\ Merged(c, NULL)
      <3>1. cut[u].down # NULL
        BY <2>13
      <3>2. cut[cut[u].down].down # NULL => cut[cut[cut[u].down].down].used
        BY <2>13, <2>14
      <3> QED BY <2>9, <2>11, <2>12, <2>13, <2>15, <3>1, <3>2, CoalesceUpTiles
    <2>17. Reached(c, NULL)
      <3>1. cut[u].down # NULL /\ d = cut[u].down
        BY <2>13
      <3> QED BY <2>9, <2>10, <2>13, <2>15, <3>1, CoalesceUpReached
    <2> QED BY <2>16, <2>17 DEF Whole, c
  <1>7. CASE IsFree(b, u) /\ ~IsFree(b, d)
    <2>1. c = coalesce_up(b, u) /\ u \in DOMAIN b /\ b[u].down # NULL /\ Merged(b, u)
      BY <1>2, <1>4, <1>7
    <2>2. b[b[u].down].used /\ (b[b[u].down].down # NULL => b[b[b[u].down].down].used)
      BY <1>4, <1>7, <1>d DEF IsFree
    <2>3. Aligned(c) /\ Tiled(c) /\ Merged(c, NULL)
      BY <1>3, <2>1, <2>2, CoalesceUpTiles
    <2>4. Reached(c, NULL)
      BY <1>3, <2>1, <2>2, CoalesceUpReached
    <2> QED BY <2>3, <2>4 DEF Whole, c
  <1>8. CASE ~IsFree(b, u) /\ IsFree(b, d)
    <2>1. c = coalesce_down(b, d) /\ d \in DOMAIN b /\ ~b[d].used
      BY <1>2, <1>5, <1>8
    <2>2. /\ b[d].up # NULL /\ b[b[d].up].used /\ b[d].up \notin Statics
          /\ b[b[d].up].up # NULL => b[b[b[d].up].up].used
      BY <1>1, <1>5, <1>8, <1>d DEF IsFree
    <2>3. Aligned(c) /\ Tiled(c) /\ Merged(c, NULL)
      BY <1>3, <2>1, <2>2, CoalesceDownTiles
    <2>4. Reached(c, NULL)
      BY <1>3, <2>1, <2>2, CoalesceDownReached
    <2> QED BY <2>3, <2>4 DEF Whole, c
  <1>9. CASE ~IsFree(b, u) /\ ~IsFree(b, d)
    <2>1. c = free_used_block(b, f)
      BY <1>2, <1>9
    <2>2. Aligned(c) /\ Tiled(c) /\ Merged(c, NULL)
      BY <1>3, <1>9, <1>d, <2>1, FreeUsedBlockTiles
    <2>3. Reached(c, NULL)
      BY <1>3, <2>1, FreeUsedBlockReached
    <2> QED BY <2>2, <2>3 DEF Whole, c
  <1> QED BY <1>6, <1>7, <1>8, <1>9

WholeHeaps == Whole(blk) /\ (pc = "search" => req.size % ALIGN = 0)

LEMMA BlockSizeAligned ==
    ASSUME NEW size \in Nat PROVE BlockSize(size) % ALIGN = 0
  <1>1. \A k \in Nat : ((k \div 8) * 8) % 8 = 0
    OBVIOUS
  <1>2. CASE size < 8
    BY <1>2 DEF BlockSize, ALIGN
  <1>3. CASE ~(size < 8)
    BY <1>1, <1>3 DEF BlockSize, ALIGN
  <1> QED BY <1>2, <1>3

LEMMA InitWholeHeaps == Init => WholeHeaps
  <1> SUFFICES ASSUME Init PROVE WholeHeaps
    OBVIOUS
  <1>1. /\ DOMAIN blk = Statics
        /\ \A n \in Statics : \E loc \in Locations : n = FreeBlk(loc) /\ blk[n] = StaticNode(loc)
        /\ \A loc \in Locations : blk[FreeBlk(loc)] = StaticNode(loc)
    BY MemoryAssumption DEF Init, Statics, Locations, FreeBlk
  <1>2. \A loc \in Locations :
            LET s == StaticNode(loc) IN
            s.addr = base_addr(loc) /\ s.size = HeapSize(loc) /\ s.down = NULL
    BY DEF StaticNode
  <1>3. Aligned(blk)
    <2>1. \A loc \in Locations : base_addr(loc) % ALIGN = 0 /\ HeapSize(loc) % ALIGN = 0
      BY MemoryAssumption DEF Locations, base_addr, HeapSize, ALIGN
    <2> QED BY <1>1, <1>2, <2>1 DEF Aligned
  <1>4. Tiled(blk)
    <2>1. \A n \in DOMAIN blk : \E loc \in Locations : Within(blk[n], loc) /\ blk[n].addr = base_addr(loc)
      BY <1>1, <1>2, StaticFacts DEF Within
    <2>2. \A loc \in Locations, a \in Nat :
            base_addr(loc) <= a /\ a < base_addr(loc) + HeapSize(loc) =>
                \E n \in DOMAIN blk : blk[n].addr <= a /\ a < blk[n].addr + blk[n].size
      BY <1>1, <1>2, StaticFacts
    <2> QED BY <1>1, <2>1, <2>2 DEF Tiled
  <1>5. Merged(blk, NULL)
    BY <1>1, <1>2 DEF Merged
  <1>6. Reached(blk, NULL)
    BY <1>1 DEF Reached
  <1> QED BY <1>3, <1>4, <1>5, <1>6 DEF WholeHeaps, Whole, Init

LEMMA NextWholeHeaps == IInv /\ RingsApart /\ WholeHeaps /\ [Next]_vars => WholeHeaps'
  <1> SUFFICES ASSUME IInv, RingsApart, WholeHeaps, [Next]_vars PROVE WholeHeaps'
    OBVIOUS
  <1>1. WellFormed(blk, NULL) /\ Whole(blk)
    BY DEF IInv, WholeHeaps
  <1>2. ASSUME NEW size \in Sizes, NEW loc \in Locations, malloc_shared(size, loc)
        PROVE  WholeHeaps'
    <2>1. req'.size % ALIGN = 0 /\ blk' = blk
      BY <1>2, BlockSizeAligned, MemoryAssumption DEF malloc_shared
    <2> QED BY <1>1, <2>1 DEF WholeHeaps
  <1>3. CASE NextBlock \/ ReturnNull \/ NoNode \/ UNCHANGED vars
    BY <1>3 DEF WholeHeaps, NextBlock, ReturnNull, NoNode, Return, vars
  <1>4. CASE TakeBlock
    <2>1. /\ pc = "search" /\ pc' = "idle" /\ blk' = use_free_block(blk, finger)
          /\ finger # FreeBlk(req.loc)
      BY <1>4 DEF TakeBlock, IsExact, Return
    <2>2. finger \in DOMAIN blk \ Statics /\ ~blk[finger].used
      BY <2>1, StaticFacts DEF RingsApart, Owned, IInv
    <2>3. Whole(blk')
      BY <1>1, <2>1, <2>2, UseFreeBlockWhole
    <2> QED BY <2>1, <2>3 DEF WholeHeaps
  <1>5. CASE TakePart
    <2>1. PICK node \in NodeIds \ DOMAIN blk : blk' = SplitBlock(blk, finger, node, req.size)
      BY <1>5 DEF TakePart, NewNode
    <2>2. /\ pc = "search" /\ pc' = "idle" /\ finger \in DOMAIN blk /\ ~blk[finger].used
          /\ req.size \in Nat /\ req.size % ALIGN = 0 /\ req.size <= blk[finger].size
      BY <1>5, NodeFields DEF TakePart, Fits, Return, IInv, WellFormed, WholeHeaps
    <2>3. WellFormed(blk', NULL)
      BY NextIInv DEF IInv
    <2>4. Whole(blk')
      BY <1>1, <2>1, <2>2, <2>3, SplitBlockWhole
    <2> QED BY <2>2, <2>4 DEF WholeHeaps
  <1>6. ASSUME NEW p \in held, free_shared(p)
        PROVE  WholeHeaps'
    <2>1. PICK f \in tree : blk' = free_coalesce(blk, f)
      BY <1>6 DEF free_shared, tfind
    <2>2. pc' = "idle"
      BY <1>6 DEF free_shared
    <2>3. f \in DOMAIN blk /\ blk[f].used
      BY <2>1 DEF IInv, Used
    <2>4. Whole(blk')
      BY <1>1, <2>1, <2>3, FreeCoalesceWhole
    <2> QED BY <2>2, <2>4 DEF WholeHeaps
  <1> QED BY <1>2, <1>3, <1>4, <1>5, <1>6 DEF Next, Search

LEMMA WholeInvariance == Spec => [](IInv /\ RingsApart /\ WholeHeaps)
  <1>1. Init => IInv /\ RingsApart /\ WholeHeaps
    BY InitIInv, InitRingsApart, InitWholeHeaps
  <1>2. (IInv /\ RingsApart /\ WholeHeaps) /\ [Next]_vars => (IInv /\ RingsApart /\ WholeHeaps)'
    BY NextIInv, NextRingsApart, NextWholeHeaps
  <1> QED BY <1>1, <1>2, PTL DEF Spec

\* Whatever was allocated and in whatever order it was freed, the blocks of a
\* heap in which nothing is used are merged into one again (free_coalesce).
THEOREM SharedMemoryOneBlock == Spec => []EverythingFreedIsOneBlock
  <1>1. IInv /\ WholeHeaps => EverythingFreedIsOneBlock
    <2> SUFFICES ASSUME IInv, WholeHeaps, Used = {}, NEW loc \in Locations
                 PROVE  /\ blk[FreeBlk(loc)].addr = base_addr(loc)
                        /\ blk[FreeBlk(loc)].size = HeapSize(loc)
      BY DEF EverythingFreedIsOneBlock
    <2> DEFINE s == FreeBlk(loc)
    <2>1. WellFormed(blk, NULL) /\ Tiled(blk) /\ Merged(blk, NULL)
      BY DEF IInv, WholeHeaps, Whole
    <2>2. /\ s \in DOMAIN blk /\ s # NULL /\ ~blk[s].used
          /\ Within(blk[s], loc) /\ blk[s].addr + blk[s].size = base_addr(loc) + HeapSize(loc)
          /\ blk[s].addr \in Nat /\ blk[s].size \in Nat
      BY <2>1, StaticFacts, NodeFields DEF WellFormed, Typed, Placed
    <2> HIDE DEF s
    <2>3. blk[s].down = NULL
      <3> SUFFICES ASSUME blk[s].down # NULL PROVE FALSE
        OBVIOUS
      <3>1. blk[s].down \in DOMAIN blk /\ blk[blk[s].down].used
        BY <2>1, <2>2, NeighbourFacts DEF Merged
      <3> QED BY <3>1 DEF Used
    <2>4. PICK m \in Locations : Within(blk[s], m) /\ blk[s].addr = base_addr(m)
      BY <2>1, <2>2, <2>3 DEF Tiled
    <2>5. m = loc
      BY <2>2, <2>4, OneHeap
    <2> QED BY <2>2, <2>4, <2>5, StaticFacts DEF s
  <1> QED BY <1>1, WholeInvariance, PTL

-----------------------------------------------------------------------------
(* The search and the allocator that it implements.                        *)

LEMMA NextSearched == IInv /\ Searched /\ [Next]_vars => Searched'
  <1> SUFFICES ASSUME IInv, Searched, [Next]_vars, pc' = "search"
               PROVE  \E V \in SUBSET DOMAIN blk' :
                        /\ \A n \in V :
                            /\ InRing(blk', NULL, n) /\ blk'[n].size < req'.size
                            /\ blk'[n].next \in V \cup {finger'}
                            /\ blk'[n].prev \in V \cup {FreeBlk(req'.loc)}
                        /\ blk'[FreeBlk(req'.loc)].next \in V \cup {finger'}
                        /\ blk'[finger'].prev \in V \cup {FreeBlk(req'.loc)}
    BY DEF Searched
  <1>1. Typed(blk) /\ Ringed(blk, NULL) /\ Placed(blk)
    BY DEF IInv, WellFormed
  <1>2. ASSUME NEW size \in Sizes, NEW loc \in Locations, malloc_shared(size, loc)
        PROVE  /\ blk'[FreeBlk(req'.loc)].next \in {} \cup {finger'}
               /\ blk'[finger'].prev \in {} \cup {FreeBlk(req'.loc)}
    <2>1. blk' = blk /\ finger' = blk[FreeBlk(loc)].next /\ req'.loc = loc
      BY <1>2 DEF malloc_shared
    <2>2. InRing(blk, NULL, FreeBlk(loc))
      BY <1>1, StaticFacts, NodeFields DEF InRing, Typed, Placed
    <2>3. blk[blk[FreeBlk(loc)].next].prev = FreeBlk(loc)
      BY <1>1, <2>2 DEF Ringed, InRing
    <2> QED BY <2>1, <2>3
  <1>3. CASE NextBlock
    <2>1. /\ pc = "search" /\ ~Fits /\ finger' = blk[finger].next
          /\ UNCHANGED <<blk, req>>
      BY <1>3 DEF NextBlock
    <2>2. PICK V \in SUBSET DOMAIN blk :
            /\ \A n \in V :
                /\ InRing(blk, NULL, n) /\ blk[n].size < req.size
                /\ blk[n].next \in V \cup {finger}
                /\ blk[n].prev \in V \cup {FreeBlk(req.loc)}
            /\ blk[FreeBlk(req.loc)].next \in V \cup {finger}
            /\ blk[finger].prev \in V \cup {FreeBlk(req.loc)}
      BY <2>1 DEF Searched
    <2>3. InRing(blk, NULL, finger) /\ finger \in DOMAIN blk
      BY <1>1, <2>1, NodeFields DEF IInv, InRing
    <2>4. blk[finger].size < req.size
      BY <1>1, <2>1, <2>3, NodeFields DEF Fits, IInv
    <2>5. blk[blk[finger].next].prev = finger
      BY <1>1, <2>3 DEF Ringed
    <2> DEFINE W == V \cup {finger}
    <2>6. \A n \in W :
            /\ InRing(blk, NULL, n) /\ blk[n].size < req.size
            /\ blk[n].next \in W \cup {finger'}
            /\ blk[n].prev \in W \cup {FreeBlk(req.loc)}
      BY <2>1, <2>2, <2>3, <2>4
    <2>7. /\ blk[FreeBlk(req.loc)].next \in W \cup {finger'}
          /\ blk[finger'].prev \in W \cup {FreeBlk(req.loc)}
          /\ W \in SUBSET DOMAIN blk
      BY <2>1, <2>2, <2>3, <2>5
    <2> HIDE DEF W
    <2> QED BY <2>1, <2>6, <2>7
  <1>4. CASE ReturnNull \/ TakeBlock \/ TakePart \/ NoNode
    BY <1>4 DEF ReturnNull, TakeBlock, TakePart, NoNode, Return
  <1>5. ASSUME NEW p \in held, free_shared(p) PROVE FALSE
    BY <1>5 DEF free_shared
  <1>6. CASE UNCHANGED vars
    BY <1>6 DEF Searched, vars
  <1> QED BY <1>2, <1>3, <1>4, <1>5, <1>6 DEF Next, Search

\* The ring of loc is closed under the links, and so is the other one.
LEMMA RingClosed ==
    ASSUME WellFormed(blk, NULL), NEW ring, Owned(blk, NULL, ring),
           NEW n \in DOMAIN blk, InRing(blk, NULL, n)
    PROVE  /\ InRing(blk, NULL, blk[n].next) /\ ring[blk[n].next] = ring[n]
           /\ InRing(blk, NULL, blk[n].prev) /\ ring[blk[n].prev] = ring[n]
  <1>1. /\ InRing(blk, NULL, blk[n].next) /\ InRing(blk, NULL, blk[n].prev)
        /\ blk[blk[n].prev].next = n
    BY DEF WellFormed, Ringed
  <1>2. blk[n].prev \in DOMAIN blk
    BY <1>1 DEF InRing
  <1> QED BY <1>1, <1>2 DEF Owned

\* A part of the ring of loc that has its static node and is closed under the
\* links has every free block of the ring.
LEMMA ClosedIsWhole ==
    ASSUME IInv, WholeHeaps, NEW loc \in Locations, NEW ring, Owned(blk, NULL, ring),
           NEW W \in SUBSET DOMAIN blk, FreeBlk(loc) \in W,
           \A n \in W : InRing(blk, NULL, n) /\ blk[n].next \in W /\ blk[n].prev \in W,
           NEW m \in DOMAIN blk, ~blk[m].used, ring[m] = loc
    PROVE  m \in W
  <1> DEFINE Others == {n \in DOMAIN blk : InRing(blk, NULL, n) /\ ring[n] # loc}
             S == W \cup Others
  <1>1. Typed(blk) /\ Ringed(blk, NULL) /\ Placed(blk) /\ Reached(blk, NULL)
    BY DEF IInv, WellFormed, WholeHeaps, Whole
  <1>2. ASSUME NEW n \in Others
        PROVE  InRing(blk, NULL, n) /\ blk[n].next \in Others /\ blk[n].prev \in Others
    <2>1. /\ InRing(blk, NULL, blk[n].next) /\ ring[blk[n].next] = ring[n]
          /\ InRing(blk, NULL, blk[n].prev) /\ ring[blk[n].prev] = ring[n]
      BY RingClosed DEF IInv
    <2> QED BY <2>1 DEF InRing
  <1>3. Statics \subseteq S
    <2> SUFFICES ASSUME NEW s \in Statics, s # FreeBlk(loc) PROVE s \in Others
      OBVIOUS
    <2>1. PICK l \in Locations : s = FreeBlk(l)
      BY StaticFacts
    <2>2. s \in DOMAIN blk /\ ~blk[s].used /\ ring[s] # loc
      BY <1>1, <2>1 DEF Placed, Typed, Owned
    <2> QED BY <1>1, <2>2, NodeFields DEF InRing
  <1> HIDE DEF Others
  <1>4. \A n \in S : InRing(blk, NULL, n) /\ blk[n].next \in S /\ blk[n].prev \in S
    BY <1>2
  <1>5. S \in SUBSET DOMAIN blk
    BY <1>4 DEF InRing
  <1>6. InRing(blk, NULL, m)
    BY <1>1, NodeFields DEF InRing
  <1>7. m \in S
    BY <1>1, <1>3, <1>4, <1>5, <1>6 DEF Reached
  <1> QED BY <1>7 DEF Others

\* The search that is back at the static node has seen every block of its ring.
LEMMA AllSeen ==
    ASSUME IInv, WholeHeaps, Searched, pc = "search", finger = FreeBlk(req.loc),
           blk[finger].size < req.size, NEW ring, Owned(blk, NULL, ring),
           NEW m \in DOMAIN blk, ~blk[m].used, ring[m] = req.loc
    PROVE  blk[m].size < req.size
  <1>1. PICK V \in SUBSET DOMAIN blk :
            /\ \A n \in V :
                /\ InRing(blk, NULL, n) /\ blk[n].size < req.size
                /\ blk[n].next \in V \cup {finger}
                /\ blk[n].prev \in V \cup {FreeBlk(req.loc)}
            /\ blk[FreeBlk(req.loc)].next \in V \cup {finger}
            /\ blk[finger].prev \in V \cup {FreeBlk(req.loc)}
    BY DEF Searched
  <1> DEFINE W == V \cup {finger}
  <1>2. finger \in DOMAIN blk /\ InRing(blk, NULL, finger) /\ req.loc \in Locations
    BY NodeFields DEF IInv, InRing, WellFormed
  <1>3. \A n \in W : InRing(blk, NULL, n) /\ blk[n].next \in W /\ blk[n].prev \in W
    BY <1>1, <1>2
  <1>4. W \in SUBSET DOMAIN blk /\ FreeBlk(req.loc) \in W
    BY <1>2
  <1> HIDE DEF W
  <1>5. m \in W
    BY <1>2, <1>3, <1>4, ClosedIsWhole
  <1> QED BY <1>1, <1>5 DEF W

Regions == {[addr |-> blk[n].addr, size |-> blk[n].size] : n \in Used}

\* The beginning of a free block that is large enough is a candidate.
LEMMA FreeBlockIsCandidate ==
    ASSUME IInv, WholeHeaps, pc = "search", NEW f \in DOMAIN blk, ~blk[f].used,
           Serves(blk[f], req.loc), req.size <= blk[f].size
    PROVE  [addr |-> blk[f].addr, size |-> req.size] \in Abstract!Candidates(req)
  <1> DEFINE a == blk[f].addr
             r == [addr |-> a, size |-> req.size]
  <1>1. Typed(blk) /\ Spread(blk) /\ Aligned(blk) /\ req.loc \in Locations /\ req.size \in Nat
    BY DEF IInv, WellFormed, WholeHeaps, Whole
  <1>0. PICK h \in HeapsServing(req.loc) : Within(blk[f], h)
    BY DEF Serves
  <1>2. a \in Nat /\ blk[f].size \in Nat /\ a % ALIGN = 0
    BY <1>1, NodeFields DEF Aligned
  <1>3. a \in base_addr(h) .. base_addr(h) + HeapSize(h) - req.size
    BY <1>0, <1>1, <1>2, StaticFacts, HeapsServingFacts DEF Within
  <1>4. ASSUME NEW n \in Used
        PROVE  ~Abstract!Overlap(r, [addr |-> blk[n].addr, size |-> blk[n].size])
    <2>1. n \in DOMAIN blk /\ n # f /\ blk[n].addr \in Nat /\ blk[n].size \in Nat
      BY <1>1, NodeFields DEF Used
    <2>2. Before(blk[n], blk[f]) \/ Before(blk[f], blk[n])
      BY <1>1, <2>1 DEF Spread
    <2> QED BY <1>1, <1>2, <2>1, <2>2 DEF Before, Abstract!Overlap
  <1>5. \A u \in Regions : ~Abstract!Overlap(r, u)
    BY <1>4 DEF Regions
  <1> HIDE DEF a
  <1>6. a \in {x \in base_addr(h) .. base_addr(h) + HeapSize(h) - req.size :
            /\ x % ALIGN = 0
            /\ \A u \in Regions : ~Abstract!Overlap([addr |-> x, size |-> req.size], u)}
    BY <1>2, <1>3, <1>5
  <1>7. [addr |-> a, size |-> req.size] \in Abstract!Gaps(req, h)
    BY <1>6 DEF Abstract!Gaps, Regions
  <1> QED BY <1>0, <1>7 DEF Abstract!Candidates, a

\* A gap of the heap that the static block has no room for is in another free
\* block, and below the used one above that.
LEMMA GapIsBelowUsed ==
    ASSUME IInv, WholeHeaps, pc = "search", blk[FreeBlk(req.loc)].size < req.size,
           NEW c \in Abstract!Gaps(req, req.loc)
    PROVE  /\ \E n \in DOMAIN blk : ~blk[n].used /\ Within(blk[n], req.loc) /\ req.size <= blk[n].size
           /\ Abstract!BelowUsed(c, req.loc)
  <1>1. /\ WellFormed(blk, NULL) /\ Tiled(blk) /\ Merged(blk, NULL)
        /\ req.loc \in Locations /\ req.size \in Nat /\ req.size > 0
    BY DEF IInv, WholeHeaps, Whole
  <1>2. Typed(blk) /\ Placed(blk) /\ Stacked(blk)
    BY <1>1 DEF WellFormed
  <1> DEFINE loc == req.loc
             size == req.size
  <1>0. PICK a \in base_addr(loc) .. base_addr(loc) + HeapSize(loc) - size :
            /\ c = [addr |-> a, size |-> size]
            /\ \A u \in Regions : ~Abstract!Overlap([addr |-> a, size |-> size], u)
    BY DEF Abstract!Gaps, Regions
  <1>3. /\ a \in Nat /\ base_addr(loc) <= a /\ a + size <= base_addr(loc) + HeapSize(loc)
        /\ base_addr(loc) \in Nat /\ HeapSize(loc) \in Nat
    BY <1>1, StaticFacts
  <1>4. ASSUME NEW n \in DOMAIN blk, blk[n].used, blk[n].addr < a + size
        PROVE  ~(a < blk[n].addr + blk[n].size)
    <2>1. [addr |-> blk[n].addr, size |-> blk[n].size] \in Regions
      BY <1>4 DEF Regions, Used
    <2>2. ~Abstract!Overlap([addr |-> a, size |-> size], [addr |-> blk[n].addr, size |-> blk[n].size])
      BY <1>0, <2>1
    <2> QED BY <1>4, <2>2 DEF Abstract!Overlap
  <1>5. PICK n \in DOMAIN blk : blk[n].addr <= a /\ a < blk[n].addr + blk[n].size
    BY <1>1, <1>3 DEF Tiled
  <1>6. blk[n].addr \in Nat /\ blk[n].size \in Nat
    BY <1>2, NodeFields
  <1>7. ~blk[n].used
    BY <1>1, <1>3, <1>4, <1>5, <1>6
  <1>8. Within(blk[n], loc)
    <2>1. PICK m \in Locations : Within(blk[n], m)
      BY <1>2 DEF Placed
    <2>2. m = loc
      BY <1>1, <1>3, <1>5, <1>6, <2>1, MemoryAssumption DEF Locations, Within, base_addr, HeapSize
    <2> QED BY <2>1, <2>2
  <1>9. n \in Statics => n = FreeBlk(loc) /\ blk[n].addr + blk[n].size = base_addr(loc) + HeapSize(loc)
    <2> SUFFICES ASSUME n \in Statics
                 PROVE  n = FreeBlk(loc) /\ blk[n].addr + blk[n].size = base_addr(loc) + HeapSize(loc)
      OBVIOUS
    <2>1. PICK l \in Locations : n = FreeBlk(l)
      BY StaticFacts
    <2>2. Within(blk[n], l) /\ blk[n].addr + blk[n].size = base_addr(l) + HeapSize(l)
      BY <1>2, <2>1 DEF Placed
    <2>3. l = loc
      BY <1>1, <1>6, <1>8, <2>2, OneHeap
    <2> QED BY <2>1, <2>2, <2>3
  <1>10. blk[n].up # NULL
    <2> SUFFICES ASSUME blk[n].up = NULL PROVE FALSE
      OBVIOUS
    <2>1. n = FreeBlk(loc) /\ blk[n].addr + blk[n].size = base_addr(loc) + HeapSize(loc)
      BY <1>1, <1>9 DEF Tiled
    <2>2. blk[n].size < size
      BY <2>1
    <2> QED BY <1>1, <1>3, <1>5, <1>6, <2>1, <2>2
  <1> DEFINE m == blk[n].up
  <1>11. m \in DOMAIN blk /\ m # NULL /\ blk[m].down = n /\ blk[m].addr = blk[n].addr + blk[n].size /\ n # NULL
    BY <1>1, <1>2, <1>10, NeighbourFacts, NodeFields
  <1> HIDE DEF m
  <1>12. blk[m].used
    BY <1>1, <1>7, <1>11 DEF Merged
  <1>13. blk[m].size > 0 /\ blk[m].size \in Nat
    BY <1>2, <1>11, <1>12, StaticFacts, NodeFields DEF Placed
  <1>14. a < blk[m].addr
    BY <1>3, <1>5, <1>6, <1>11
  <1>15. ~(blk[m].addr < a + size)
    BY <1>3, <1>4, <1>6, <1>11, <1>12, <1>13, <1>14
  <1>16. size <= blk[n].size
    BY <1>1, <1>3, <1>5, <1>6, <1>11, <1>15
  <1>17. Abstract!BelowUsed(c, loc)
    <2> DEFINE u == [addr |-> blk[m].addr, size |-> blk[m].size]
    <2>1. u \in Regions
      BY <1>11, <1>12 DEF Regions, Used
    <2>2. c.addr < u.addr /\ u.addr <= base_addr(loc) + HeapSize(loc)
      BY <1>0, <1>8, <1>11, <1>14 DEF Within
    <2> HIDE DEF u
    <2> QED BY <2>1, <2>2 DEF Abstract!BelowUsed, Regions
  <1> QED BY <1>7, <1>8, <1>16, <1>17

LEMMA SearchEnds ==
    ASSUME pc = "search",
           Abstract!Grant(req) \/ Abstract!Refuse(req) \/ Abstract!HostOutOfMemory(req)
    PROVE  Abstract!Next
  <1>1. CASE Abstract!Grant(req)
    BY <1>1 DEF Abstract!Next, Abstract!Grant
  <1>2. CASE Abstract!Refuse(req)
    BY <1>2 DEF Abstract!Next, Abstract!Refuse
  <1>3. CASE Abstract!HostOutOfMemory(req)
    BY <1>3 DEF Abstract!Next, Abstract!HostOutOfMemory
  <1> QED BY <1>1, <1>2, <1>3

\* The call returns the block n that was chosen for it, or fails.
LEMMA DeliverRefines ==
    ASSUME pc = "search", pc' = "idle", NEW n, blk'[n].addr \in Nat,
           [addr |-> blk'[n].addr, size |-> req.size] \in Abstract!Candidates(req),
           Regions' = Regions \cup {[addr |-> blk'[n].addr, size |-> req.size]},
           Deliver(n)
    PROVE  Abstract!Next
  <1> DEFINE c == [addr |-> blk'[n].addr, size |-> req.size]
             pending == IF pc = "search" THEN {req} ELSE {}
  <1>1. pending = {req} /\ pending' = {}
    OBVIOUS
  <1>2. c \in Abstract!Candidates(req) /\ c.addr = blk'[n].addr /\ c.size = req.size
        /\ Regions' = Regions \cup {c}
    OBVIOUS
  <1> HIDE DEF c
  <1>3. CASE /\ held' = held \cup {[addr |-> blk'[n].addr, size |-> req.size, loc |-> req.loc]}
             /\ UNCHANGED hostFailures
    <2>1. Abstract!Grant(req)
      BY <1>1, <1>2, <1>3 DEF Abstract!Grant, Regions
    <2> QED BY <2>1, SearchEnds
  <1>4. CASE HostFails /\ UNCHANGED held
    <2>1. Abstract!HostOutOfMemory(req)
      BY <1>1, <1>2, <1>4 DEF Abstract!HostOutOfMemory, Regions, HostFails
    <2> QED BY <2>1, SearchEnds
  <1> QED BY <1>3, <1>4 DEF Deliver

LEMMA StepRefines ==
    ASSUME IInv, RingsApart, WholeHeaps, Searched, IInv', [Next]_vars
    PROVE  [Abstract!Next]_(Abstract!vars)
  <1> DEFINE pending == IF pc = "search" THEN {req} ELSE {}
  <1>1. WellFormed(blk, NULL) /\ Typed(blk) /\ Typed(blk')
    BY DEF IInv, WellFormed
  <1>2. pc = "search" =>
            /\ finger \in DOMAIN blk /\ ~blk[finger].used /\ Serves(blk[finger], req.loc)
            /\ req.size \in Nat /\ req.size > 0 /\ req.loc \in Locations
    BY FingerServes DEF IInv
  <1>3. ASSUME NEW size \in Sizes, NEW loc \in Locations, malloc_shared(size, loc)
        PROVE  Abstract!Next
    <2>1. Abstract!Request(size, loc)
      BY <1>3 DEF malloc_shared, Abstract!Request, Used
    <2> QED BY <2>1 DEF Abstract!Next
  <1>4. CASE NextBlock \/ UNCHANGED vars
    BY <1>4 DEF NextBlock, vars, Abstract!vars, Used
  <1>5. CASE ReturnNull
    <2>1. /\ pc = "search" /\ pc' = "idle" /\ ~Fits /\ finger = FreeBlk(req.loc)
          /\ UNCHANGED <<blk, tree, held, hostFailures>>
      BY <1>5 DEF ReturnNull, Return
    <2>2. blk[finger].size < req.size
      BY <1>1, <1>2, <2>1, NodeFields DEF Fits
    <2>3. ASSUME NEW c \in Abstract!Gaps(req, req.loc)
          PROVE  Abstract!ServesOthers(req.loc) /\ Abstract!BelowUsed(c, req.loc)
      <3>1. PICK ring : Owned(blk, NULL, ring)
        BY DEF RingsApart
      <3>2. PICK n \in DOMAIN blk : ~blk[n].used /\ Within(blk[n], req.loc) /\ req.size <= blk[n].size
        BY <2>1, <2>2, GapIsBelowUsed
      <3>3. Serves(blk[n], ring[n]) /\ ring[n] \in Locations
        BY <1>1, <3>1, <3>2, NodeFields DEF Owned, InRing, Typed
      <3>4. req.loc \in HeapsServing(ring[n])
        BY <1>1, <1>2, <2>1, <3>2, <3>3, OneHeap, NodeFields, HeapsServingFacts DEF Serves
      <3>5. ring[n] # req.loc
        <4> SUFFICES ASSUME ring[n] = req.loc PROVE FALSE
          OBVIOUS
        <4>1. blk[n].size < req.size
          BY <2>1, <2>2, <3>1, <3>2, AllSeen
        <4> QED BY <1>1, <1>2, <2>1, <3>2, <4>1, NodeFields
      <3>6. Abstract!ServesOthers(req.loc)
        BY <3>3, <3>4, <3>5 DEF Abstract!ServesOthers
      <3> QED BY <2>1, <2>2, <3>6, GapIsBelowUsed
    <2>4. Abstract!Refuse(req)
      BY <2>1, <2>3 DEF Abstract!Refuse, Used
    <2> QED BY <2>1, <2>4, SearchEnds
  <1>6. CASE TakeBlock
    <2>1. /\ pc = "search" /\ pc' = "idle" /\ blk' = use_free_block(blk, finger) /\ Deliver(finger)
          /\ blk[finger].size = req.size /\ finger # FreeBlk(req.loc)
      BY <1>6 DEF TakeBlock, IsExact, Return
    <2>2. finger \in DOMAIN blk \ Statics
      BY <1>2, <2>1, StaticFacts DEF RingsApart, Owned
    <2>3. /\ DOMAIN blk' = DOMAIN blk
          /\ \A n \in DOMAIN blk : /\ blk'[n].addr = blk[n].addr /\ blk'[n].size = blk[n].size
                                   /\ blk'[n].used = (n = finger \/ blk[n].used)
      BY <1>1, <1>2, <2>1, <2>2, UseFreeBlockKeeps
    <2>4. [addr |-> blk'[finger].addr, size |-> req.size] \in Abstract!Candidates(req)
      BY <1>1, <1>2, <2>1, <2>3, FreeBlockIsCandidate
    <2>5. Used' = Used \cup {finger}
      BY <1>2, <2>1, <2>3 DEF Used
    <2>6. Regions' = Regions \cup {[addr |-> blk'[finger].addr, size |-> req.size]}
      BY <1>2, <2>1, <2>3, <2>5 DEF Regions, Used
    <2> QED BY <1>1, <1>2, <2>1, <2>3, <2>4, <2>6, NodeFields, DeliverRefines
  <1>7. CASE TakePart
    <2>1. PICK node \in NodeIds \ DOMAIN blk :
              blk' = SplitBlock(blk, finger, node, req.size) /\ Deliver(node)
      BY <1>7 DEF TakePart, NewNode
    <2>2. /\ pc = "search" /\ pc' = "idle" /\ req.size <= blk[finger].size
          /\ blk[finger].size # req.size \/ finger = FreeBlk(req.loc)
      BY <1>7 DEF TakePart, Fits, IsExact, Return
    <2>3. /\ DOMAIN blk' = DOMAIN blk \cup {node}
          /\ blk'[node].addr = blk[finger].addr /\ blk'[node].size = req.size /\ blk'[node].used
          /\ \A n \in DOMAIN blk :
                /\ blk'[n].used = blk[n].used
                /\ n # finger => blk'[n].addr = blk[n].addr /\ blk'[n].size = blk[n].size
      <3>1. req.size < blk[finger].size \/ finger \in Statics
        BY <1>1, <1>2, <2>2, StaticFacts, NodeFields
      <3>2. SplitOf(blk, blk', finger, node, req.size)
        BY <1>1, <1>2, <2>1, <2>2, <3>1, SplitBlockKeeps
      <3> QED BY <3>2 DEF SplitOf
    <2>4. [addr |-> blk'[node].addr, size |-> req.size] \in Abstract!Candidates(req)
      BY <1>2, <2>2, <2>3, FreeBlockIsCandidate
    <2>5. Used' = Used \cup {node}
      BY <2>3 DEF Used
    <2>6. Regions' = Regions \cup {[addr |-> blk'[node].addr, size |-> req.size]}
      <3>1. \A n \in Used : blk'[n].addr = blk[n].addr /\ blk'[n].size = blk[n].size
        BY <1>2, <2>2, <2>3 DEF Used
      <3> QED BY <2>3, <2>5, <3>1 DEF Regions
    <2>7. blk'[node].addr \in Nat
      BY <1>1, <1>2, <2>2, <2>3, NodeFields
    <2> QED BY <2>1, <2>2, <2>4, <2>6, <2>7, DeliverRefines
  <1>8. CASE NoNode
    <2>1. /\ pc = "search" /\ pc' = "idle" /\ req.size <= blk[finger].size /\ HostFails
          /\ UNCHANGED <<blk, tree, held>>
      BY <1>8 DEF NoNode, Fits, Return
    <2>2. [addr |-> blk[finger].addr, size |-> req.size] \in Abstract!Candidates(req)
      BY <1>2, <2>1, FreeBlockIsCandidate
    <2>3. Abstract!HostOutOfMemory(req)
      BY <2>1, <2>2 DEF Abstract!HostOutOfMemory, HostFails, Used
    <2> QED BY <2>1, <2>3, SearchEnds
  <1>9. ASSUME NEW p \in held, free_shared(p)
        PROVE  Abstract!Next
    <2>1. PICK f \in tree : blk[f].addr = p.addr /\ blk' = free_coalesce(blk, f)
      BY <1>9 DEF free_shared, tfind
    <2>2. /\ pc = "idle" /\ pc' = "idle" /\ held' = held \ {p} /\ UNCHANGED hostFailures
      BY <1>9 DEF free_shared
    <2>3. f \in DOMAIN blk /\ blk[f].used /\ tree \subseteq Used
      BY <2>1 DEF IInv, Used
    <2>4. blk[f].size = p.size
      <3>1. PICK n \in tree : blk[n].addr = p.addr /\ blk[n].size = p.size
        BY <1>9 DEF IInv, Backed
      <3>2. n = f
        BY <1>1, <2>1, <2>3, <3>1, UsedAddresses DEF Used
      <3> QED BY <3>1, <3>2
    <2>5. /\ \A n \in DOMAIN blk : blk[n].used /\ n # f =>
                /\ n \in DOMAIN blk' /\ blk'[n].used
                /\ blk'[n].addr = blk[n].addr /\ blk'[n].size = blk[n].size
          /\ \A n \in DOMAIN blk' : blk'[n].used => n \in DOMAIN blk /\ blk[n].used /\ n # f
      BY <1>1, <2>1, <2>3, FreeCoalesceKeeps
    <2>6. Used' = Used \ {f}
      BY <2>5 DEF Used
    <2>7. \A n \in Used : n # f => blk[n].addr # p.addr
      BY <1>1, <2>1, <2>3, UsedAddresses DEF Used
    <2>8. Regions' = Regions \ {[addr |-> p.addr, size |-> p.size]}
      <3>1. \A n \in Used' : blk'[n].addr = blk[n].addr /\ blk'[n].size = blk[n].size
        BY <2>5, <2>6 DEF Used
      <3> QED BY <2>1, <2>3, <2>4, <2>6, <2>7, <3>1 DEF Regions, Used
    <2>9. Abstract!Release(p)
      BY <2>2, <2>8 DEF Abstract!Release, Regions
    <2> QED BY <1>9, <2>9 DEF Abstract!Next
  <1> QED BY <1>3, <1>4, <1>5, <1>6, <1>7, <1>8, <1>9 DEF Next, Search

LEMMA InitRefines == Init => Abstract!Init
  <1> SUFFICES ASSUME Init PROVE Abstract!Init
    OBVIOUS
  <1>1. \A n \in DOMAIN blk : ~blk[n].used
    BY MemoryAssumption DEF Init, Statics, StaticNode
  <1>2. Used = {}
    BY <1>1 DEF Used
  <1> QED BY <1>2 DEF Abstract!Init, Init

\* Heaps of any size, the shipped ones among them: the library is an allocator
\* that knows only the regions in use.  What is split, merged and unlinked can
\* be noticed by a caller only where the DDR heap is larger than the tag mask:
\* an on-chip request can then be granted DDR memory, and a DDR request refused
\* although a gap below memory in use has room for it.
THEOREM SharedMemoryRefines == Spec => ImplementsAllocator
  <1> DEFINE Inv == IInv /\ RingsApart /\ WholeHeaps /\ Searched
  <1>1. Init => Inv
    BY InitIInv, InitRingsApart, InitWholeHeaps DEF Init, Searched
  <1>2. Inv /\ [Next]_vars => Inv'
    BY NextIInv, NextRingsApart, NextWholeHeaps, NextSearched
  <1>3. Inv /\ Inv' /\ [Next]_vars => [Abstract!Next]_(Abstract!vars)
    BY StepRefines
  <1>4. Init => Abstract!Init
    BY InitRefines
  <1> HIDE DEF Inv
  <1> QED BY <1>1, <1>2, <1>3, <1>4, PTL DEF Spec, ImplementsAllocator, Abstract!Spec

-----------------------------------------------------------------------------
(* Walking along a ring.                                                   *)

LessThan == {ss \in Nat \X Nat : ss[1] < ss[2]}

\* A non-empty set of natural numbers has a least element.
LEMMA LeastNatural ==
    ASSUME NEW S \in SUBSET Nat, S # {}
    PROVE  \E m \in S : \A n \in S : m <= n
  <1>1. IsWellFoundedOn(LessThan, Nat)
    BY NatLessThanWellFounded DEF OpToRel, LessThan
  <1>2. PICK m \in S : \A n \in S : <<n, m>> \notin LessThan
    BY <1>1, WFMin
  <1>3. ASSUME NEW n \in S PROVE m <= n
    <2>1. <<n, m>> \in Nat \X Nat
      OBVIOUS
    <2>2. ~(n < m)
      BY <1>2, <2>1 DEF LessThan
    <2> QED BY <2>2
  <1> QED BY <1>3

\* g takes N steps along the links nx of the nodes R, from s.
Walks(g, nx, R, s, N) ==
    /\ g \in [0..N -> R]
    /\ g[0] = s
    /\ \A k \in 1..N : g[k] = nx[g[k - 1]]

Walked(g, N) == {g[k] : k \in 0..N}

\* nx and pv are the two directions of the rings through the nodes R.
Links(nx, pv, R) ==
    /\ nx \in [R -> R] /\ pv \in [R -> R]
    /\ \A n \in R : pv[nx[n]] = n /\ nx[pv[n]] = n

Closed(W, nx, pv) == \A n \in W : nx[n] \in W /\ pv[n] \in W
ComesBack(g, N) == \E x, y \in 0..N : x # y /\ g[x] = g[y]

LEMMA WalkExists ==
    ASSUME NEW R, NEW nx \in [R -> R], NEW s \in R, NEW N \in Nat
    PROVE  \E g : Walks(g, nx, R, s, N)
  <1> DEFINE Bad == {m \in Nat : ~\E g : Walks(g, nx, R, s, m)}
  <1> SUFFICES ASSUME Bad # {} PROVE FALSE
    OBVIOUS
  <1>1. PICK m \in Bad : \A n \in Bad : m <= n
    <2>1. Bad \in SUBSET Nat
      OBVIOUS
    <2> HIDE DEF Bad
    <2> QED BY <2>1, LeastNatural
  <1>2. CASE m = 0
    <2>1. Walks([k \in 0..0 |-> s], nx, R, s, m)
      BY <1>2 DEF Walks
    <2> QED BY <2>1
  <1>3. CASE m # 0
    <2>1. m \in Nat /\ m - 1 \in Nat /\ m - 1 \notin Bad
      BY <1>1, <1>3
    <2>2. PICK g : Walks(g, nx, R, s, m - 1)
      BY <2>1
    <2> DEFINE h == [k \in 0..m |-> IF k = m THEN nx[g[m - 1]] ELSE g[k]]
    <2>3. h \in [0..m -> R]
      <3>1. \A k \in 0..m : k = m \/ k \in 0..(m - 1)
        BY <2>1
      <3>2. g \in [0..(m - 1) -> R] /\ m - 1 \in 0..(m - 1)
        BY <2>1, <2>2 DEF Walks
      <3> QED BY <3>1, <3>2
    <2>4. h[0] = s
      BY <1>3, <2>1, <2>2 DEF Walks
    <2>5. ASSUME NEW k \in 1..m PROVE h[k] = nx[h[k - 1]]
      <3>1. k - 1 \in 0..(m - 1) /\ k - 1 # m /\ h[k - 1] = g[k - 1]
        BY <2>1
      <3>2. CASE k = m
        BY <2>1, <3>1, <3>2
      <3>3. CASE k # m
        BY <2>1, <2>2, <3>1, <3>3 DEF Walks
      <3> QED BY <3>2, <3>3
    <2> HIDE DEF h
    <2>6. Walks(h, nx, R, s, m)
      BY <2>3, <2>4, <2>5 DEF Walks
    <2> QED BY <2>6
  <1> QED BY <1>2, <1>3

\* More steps than there are nodes come to a node twice.
LEMMA Repeats ==
    ASSUME NEW D, IsFiniteSet(D), NEW R \in SUBSET D, NEW g \in [0..Cardinality(D) -> R]
    PROVE  ComesBack(g, Cardinality(D))
  <1> DEFINE N == Cardinality(D)
             I == 0..N
  <1>1. N \in Nat /\ IsFiniteSet(R) /\ Cardinality(R) \in Nat /\ Cardinality(R) <= N
    BY FS_CardinalityType, FS_Subset
  <1>2. IsFiniteSet(I) /\ Cardinality(I) = N + 1
    BY <1>1, FS_Interval
  <1>3. g \in [I -> R]
    OBVIOUS
  <1> HIDE DEF N, I
  <1>4. Cardinality(R) < Cardinality(I)
    BY <1>1, <1>2
  <1>5. \E x, y \in I : x # y /\ g[x] = g[y]
    BY <1>1, <1>2, <1>3, <1>4, FS_PigeonHole
  <1> QED BY <1>5 DEF I, N, ComesBack

\* A walk that comes to a node twice has gone around the ring: the nodes on
\* it are closed under the links in both directions.
LEMMA WalkClosed ==
    ASSUME NEW R, NEW nx, NEW pv, Links(nx, pv, R), NEW s \in R, NEW N \in Nat,
           NEW g, Walks(g, nx, R, s, N), ComesBack(g, N)
    PROVE  Closed(Walked(g, N), nx, pv)
  <1>1. N \in Nat
    OBVIOUS
  <1>2. /\ nx \in [R -> R] /\ pv \in [R -> R]
        /\ \A n \in R : pv[nx[n]] = n /\ nx[pv[n]] = n
    BY DEF Links
  <1>w. g \in [0..N -> R] /\ g[0] = s /\ \A k \in 1..N : g[k] = nx[g[k - 1]]
    BY DEF Walks
  <1>3. PICK x, y \in 0..N : x # y /\ g[x] = g[y]
    BY DEF ComesBack
  <1> DEFINE Again == {j \in 1..N : \E i \in 0..N : i < j /\ g[i] = g[j]}
  <1>4. Again # {} /\ Again \in SUBSET Nat
    <2>1. x < y => y \in Again
      BY <1>1, <1>3
    <2>2. y < x => x \in Again
      BY <1>1, <1>3
    <2> QED BY <1>1, <1>3, <2>1, <2>2
  <1>5. PICK p \in Again : \A j \in Again : p <= j
    <2> HIDE DEF Again
    <2> QED BY <1>4, LeastNatural
  <1>6. p \in 1..N /\ p \in Nat
    BY <1>1, <1>5
  <1>7. g[p] = s
    <2>1. PICK i \in 0..N : i < p /\ g[i] = g[p]
      BY <1>5
    <2>2. CASE i = 0
      BY <1>w, <2>1, <2>2
    <2>3. CASE i # 0
      <3>1. i \in 1..N /\ i - 1 \in 0..N /\ p - 1 \in 1..N /\ p - 1 \in 0..N /\ i - 1 < p - 1
        BY <1>1, <1>6, <2>1, <2>3
      <3>2. g[i] = nx[g[i - 1]] /\ g[p] = nx[g[p - 1]] /\ g[i - 1] \in R /\ g[p - 1] \in R
        BY <1>w, <1>6, <3>1
      <3>3. g[i - 1] = g[p - 1]
        <4>1. pv[nx[g[i - 1]]] = g[i - 1] /\ pv[nx[g[p - 1]]] = g[p - 1]
          BY <1>2, <3>2
        <4> QED BY <2>1, <3>2, <4>1
      <3>4. p - 1 \in Again
        BY <3>1, <3>3
      <3> QED BY <1>5, <1>6, <3>4
    <2> QED BY <2>2, <2>3
  <1> HIDE DEF Again
  <1> DEFINE C == {g[k] : k \in 0..(p - 1)}
  <1>8. \A k \in 0..(p - 1) : k \in 0..N /\ g[k] \in R
    <2> SUFFICES ASSUME NEW k \in 0..(p - 1) PROVE k \in 0..N /\ g[k] \in R
      OBVIOUS
    <2>1. k \in 0..N
      BY <1>1, <1>6
    <2> QED BY <1>w, <2>1
  <1>9. ASSUME NEW n \in C PROVE n \in R /\ nx[n] \in C /\ pv[n] \in C
    <2>1. PICK k \in 0..(p - 1) : n = g[k]
      BY <1>9
    <2>2. nx[n] = g[k + 1] /\ k + 1 \in 1..N
      <3>1. k + 1 \in 1..N /\ k + 1 - 1 = k
        BY <1>1, <1>6
      <3> QED BY <1>w, <2>1, <3>1
    <2>3. nx[n] \in C
      <3>1. CASE k + 1 = p
        <4>1. nx[n] = g[p] /\ g[p] = g[0]
          BY <1>7, <1>w, <2>2, <3>1
        <4>2. 0 \in 0..(p - 1)
          BY <1>6
        <4> QED BY <4>1, <4>2
      <3>2. CASE k + 1 # p
        <4>1. k + 1 \in 0..(p - 1)
          BY <1>6, <3>2
        <4> QED BY <2>2, <4>1
      <3> QED BY <3>1, <3>2
    <2>4. pv[n] \in C
      <3>1. CASE k = 0
        <4>1. p - 1 \in 0..(p - 1) /\ g[p] = nx[g[p - 1]] /\ g[p - 1] \in R
          BY <1>6, <1>8, <1>w
        <4>2. pv[n] = g[p - 1]
          BY <1>2, <1>7, <1>w, <2>1, <3>1, <4>1
        <4> QED BY <4>1, <4>2
      <3>2. CASE k # 0
        <4>1. k - 1 \in 0..(p - 1) /\ k \in 1..N
          BY <1>1, <1>6, <3>2
        <4>2. g[k] = nx[g[k - 1]] /\ g[k - 1] \in R
          BY <1>8, <1>w, <4>1
        <4>3. pv[n] = g[k - 1]
          BY <1>2, <2>1, <4>2
        <4> QED BY <4>1, <4>3
      <3> QED BY <3>1, <3>2
    <2> QED BY <1>8, <2>1, <2>3, <2>4
  <1>10. \A k \in 0..N : g[k] \in C
    <2> DEFINE Out == {k \in 0..N : g[k] \notin C}
    <2> SUFFICES ASSUME Out # {} PROVE FALSE
      OBVIOUS
    <2>1. PICK k \in Out : \A j \in Out : k <= j
      <3>1. Out \in SUBSET Nat
        BY <1>1
      <3> HIDE DEF Out
      <3> QED BY <3>1, LeastNatural
    <2>2. g[0] \in C
      <3>1. 0 \in 0..(p - 1)
        BY <1>6
      <3> QED BY <3>1
    <2>3. k \in 1..N /\ k - 1 \in 0..N /\ k - 1 < k
      <3>1. k \in 0..N /\ k # 0
        BY <2>1, <2>2
      <3> QED BY <1>1, <3>1
    <2>4. g[k - 1] \in C
      BY <1>1, <2>1, <2>3
    <2> HIDE DEF C
    <2>5. g[k] \in C
      BY <1>9, <1>w, <2>3, <2>4
    <2> QED BY <2>1, <2>5
  <1>11. ASSUME NEW n \in C PROVE \E j \in 0..N : n = g[j]
    BY <1>8
  <1> HIDE DEF C
  <1>12. ASSUME NEW k \in 0..N PROVE nx[g[k]] \in Walked(g, N) /\ pv[g[k]] \in Walked(g, N)
    <2>1. nx[g[k]] \in C /\ pv[g[k]] \in C
      BY <1>9, <1>10
    <2> QED BY <1>11, <2>1 DEF Walked
  <1> QED BY <1>12 DEF Walked, Closed

-----------------------------------------------------------------------------
(* The rings hold every free block of their heaps.                         *)

FiniteBlocks == IsFiniteSet(DOMAIN blk)

LEMMA NextFiniteBlocks == IInv /\ FiniteBlocks /\ [Next]_vars => FiniteBlocks'
  <1> SUFFICES ASSUME IInv, FiniteBlocks, [Next]_vars PROVE FiniteBlocks'
    OBVIOUS
  <1>1. ASSUME NEW size \in Sizes, NEW loc \in Locations, malloc_shared(size, loc)
        PROVE  blk' = blk
    BY <1>1 DEF malloc_shared
  <1>2. CASE NextBlock \/ ReturnNull \/ NoNode \/ UNCHANGED vars
    BY <1>2 DEF FiniteBlocks, NextBlock, ReturnNull, NoNode, vars
  <1>3. CASE TakeBlock
    <2>1. DOMAIN blk' = DOMAIN blk
      BY <1>3 DEF TakeBlock, use_free_block, Unlink
    <2> QED BY <2>1 DEF FiniteBlocks
  <1>4. CASE TakePart
    <2>1. PICK node \in NodeIds \ DOMAIN blk : blk' = SplitBlock(blk, finger, node, req.size)
      BY <1>4 DEF TakePart, NewNode
    <2>2. DOMAIN blk' = DOMAIN blk \cup {node}
      BY <2>1 DEF SplitBlock
    <2> QED BY <2>2, FS_AddElement DEF FiniteBlocks
  <1>5. ASSUME NEW p \in held, free_shared(p)
        PROVE  FiniteBlocks'
    <2>1. PICK f \in tree : blk' = free_coalesce(blk, f)
      BY <1>5 DEF free_shared, tfind
    <2>2. DOMAIN free_coalesce(blk, f) \subseteq DOMAIN blk
      BY DEF free_coalesce, coalesce_up, coalesce_down, free_used_block, Unlink
    <2> QED BY <2>1, <2>2, FS_Subset DEF FiniteBlocks
  <1> QED BY <1>1, <1>2, <1>3, <1>4, <1>5 DEF Next, Search, FiniteBlocks

\* f lists the nodes that the property's walk from n along a link meets.
WalkOf(f, n, link) ==
    f = [k \in 0..Cardinality(DOMAIN blk) |->
            IF k = 0 THEN n
            ELSE IF f[k - 1] \in DOMAIN blk THEN blk[f[k - 1]][link] ELSE f[k - 1]]

LEMMA AfterWalks ==
    ASSUME NEW n, NEW link, NEW g, WalkOf(g, n, link)
    PROVE  \E f : WalkOf(f, n, link) /\ After(n, link) = {f[k] : k \in DOMAIN f}
    BY DEF After, WalkOf

\* A function that satisfies the equation of a walk is the walk.
Follows(f, nx, R, s, N) ==
    /\ f[0] = s
    /\ \A k \in 1..N : f[k - 1] \in R => f[k] = nx[f[k - 1]]

LEMMA WalkUnique ==
    ASSUME NEW R, NEW nx, NEW s, NEW N \in Nat, NEW g, Walks(g, nx, R, s, N),
           NEW f, Follows(f, nx, R, s, N)
    PROVE  Walked(f, N) = Walked(g, N)
  <1> DEFINE Out == {k \in 0..N : f[k] # g[k]}
  <1>1. Out = {}
    <2> SUFFICES ASSUME Out # {} PROVE FALSE
      OBVIOUS
    <2>1. PICK k \in Out : \A j \in Out : k <= j
      <3>1. Out \in SUBSET Nat
        OBVIOUS
      <3> HIDE DEF Out
      <3> QED BY <3>1, LeastNatural
    <2>2. k \in 1..N /\ k - 1 \in 0..N /\ k - 1 < k
      BY <2>1 DEF Walks, Follows
    <2>3. f[k - 1] = g[k - 1] /\ g[k - 1] \in R
      BY <2>1, <2>2 DEF Walks
    <2>4. f[k] = g[k]
      BY <2>2, <2>3 DEF Walks, Follows
    <2> QED BY <2>1, <2>4
  <1>2. \A k \in 0..N : f[k] = g[k]
    BY <1>1
  <1> QED BY <1>2 DEF Walked

\* The walk from a static node comes to all the blocks of its ring.
LEMMA RingIsExact ==
    ASSUME IInv, WholeHeaps, FiniteBlocks, NEW ring, Owned(blk, NULL, ring),
           NEW loc \in Locations, NEW link \in {"next", "prev"}
    PROVE  After(FreeBlk(loc), link) = {n \in Free : ring[n] = loc}
  <1> DEFINE R == {n \in Free : ring[n] = loc}
             s == FreeBlk(loc)
             N == Cardinality(DOMAIN blk)
             back == IF link = "next" THEN "prev" ELSE "next"
             nx == [n \in R |-> blk[n][link]]
             pv == [n \in R |-> blk[n][back]]
  <1>1. Typed(blk) /\ Ringed(blk, NULL) /\ Placed(blk)
    BY DEF IInv, WellFormed
  <1>2. N \in Nat
    BY FS_CardinalityType DEF FiniteBlocks
  <1>3. R \in SUBSET DOMAIN blk /\ \A n \in R : InRing(blk, NULL, n) /\ ring[n] = loc
    BY <1>1, NodeFields DEF Free, Used, InRing
  <1>4. \A n : InRing(blk, NULL, n) /\ ring[n] = loc => n \in R
    BY DEF Free, Used, InRing
  <1>5. s \in R
    BY <1>1, StaticFacts DEF Placed, Typed, Free, Used, Owned
  <1> HIDE DEF R, s, N
  <1>6. ASSUME NEW n \in R
        PROVE  /\ blk[n].next \in R /\ blk[n].prev \in R
               /\ blk[blk[n].next].prev = n /\ blk[blk[n].prev].next = n
    <2>1. InRing(blk, NULL, n) /\ n \in DOMAIN blk /\ ring[n] = loc
      BY <1>3
    <2>2. /\ InRing(blk, NULL, blk[n].next) /\ ring[blk[n].next] = ring[n]
          /\ InRing(blk, NULL, blk[n].prev) /\ ring[blk[n].prev] = ring[n]
      BY <2>1, RingClosed DEF IInv
    <2> QED BY <1>1, <1>4, <2>1, <2>2 DEF Ringed
  <1>7. ASSUME NEW n \in R
        PROVE  /\ blk[n][link] \in R /\ blk[n][back] \in R
               /\ blk[blk[n][link]][back] = n /\ blk[blk[n][back]][link] = n
    BY <1>6
  <1>8. nx \in [R -> R] /\ pv \in [R -> R] /\ \A n \in R : pv[nx[n]] = n /\ nx[pv[n]] = n
    BY <1>7
  <1>9. \A n \in R : nx[n] = blk[n][link] /\ pv[n] = blk[n][back]
    OBVIOUS
  <1> HIDE DEF nx, pv
  <1>10. PICK g : Walks(g, nx, R, s, N)
    BY <1>2, <1>5, <1>8, WalkExists
  <1>11. WalkOf(g, s, link)
    <2>1. g \in [0..N -> R] /\ g[0] = s
      BY <1>10 DEF Walks
    <2>2. ASSUME NEW k \in 1..N PROVE g[k - 1] \in DOMAIN blk /\ g[k] = blk[g[k - 1]][link]
      <3>1. k - 1 \in 0..N /\ g[k] = nx[g[k - 1]]
        BY <1>2, <1>10 DEF Walks
      <3> QED BY <1>3, <1>9, <2>1, <3>1
    <2>3. \A k \in 0..N : k = 0 \/ k \in 1..N
      BY <1>2
    <2>4. g = [k \in 0..N |-> IF k = 0 THEN s
                           ELSE IF g[k - 1] \in DOMAIN blk THEN blk[g[k - 1]][link] ELSE g[k - 1]]
      BY <2>1, <2>2, <2>3
    <2> QED BY <2>4 DEF WalkOf, N
  <1>12. PICK f : WalkOf(f, s, link) /\ After(s, link) = {f[k] : k \in DOMAIN f}
    BY <1>11, AfterWalks
  <1>13. After(s, link) = Walked(f, N) /\ Follows(f, nx, R, s, N)
    <2>1. f = [k \in 0..N |-> IF k = 0 THEN s
                           ELSE IF f[k - 1] \in DOMAIN blk THEN blk[f[k - 1]][link] ELSE f[k - 1]]
      BY <1>12 DEF WalkOf, N
    <2>2. DOMAIN f = 0..N /\ f[0] = s
      BY <1>2, <2>1
    <2>3. ASSUME NEW k \in 1..N, f[k - 1] \in R PROVE f[k] = nx[f[k - 1]]
      <3>1. k \in 0..N /\ k # 0 /\ f[k - 1] \in DOMAIN blk
        BY <1>2, <1>3, <2>3
      <3> QED BY <1>9, <2>1, <2>3, <3>1
    <2> QED BY <1>12, <2>2, <2>3 DEF Walked, Follows
  <1> DEFINE W == Walked(g, N)
  <1>14. After(s, link) = W
    BY <1>2, <1>10, <1>13, WalkUnique
  <1>15. W \subseteq R /\ s \in W
    BY <1>2, <1>10 DEF Walks, Walked
  <1>16. ComesBack(g, N)
    <2>1. g \in [0..Cardinality(DOMAIN blk) -> R]
      BY <1>10 DEF Walks, N
    <2> QED BY <1>3, <2>1, Repeats DEF N, FiniteBlocks
  <1>17. Closed(W, nx, pv)
    <2>1. Links(nx, pv, R)
      BY <1>8 DEF Links
    <2> QED BY <1>2, <1>5, <1>10, <1>16, <2>1, WalkClosed
  <1> HIDE DEF W
  <1>18. ASSUME NEW n \in W PROVE InRing(blk, NULL, n) /\ blk[n].next \in W /\ blk[n].prev \in W
    BY <1>3, <1>9, <1>15, <1>17 DEF Closed
  <1>19. ASSUME NEW m \in R PROVE m \in W
    <2>1. W \in SUBSET DOMAIN blk /\ FreeBlk(loc) \in W
      BY <1>3, <1>15 DEF s
    <2>2. m \in DOMAIN blk /\ ~blk[m].used /\ ring[m] = loc
      BY <1>3 DEF InRing
    <2> QED BY <1>18, <2>1, <2>2, ClosedIsWhole
  <1> QED BY <1>14, <1>15, <1>19 DEF R, s

LEMMA RingsAreExact ==
    ASSUME IInv, RingsApart, WholeHeaps, FiniteBlocks PROVE FreeRingsExact
  <1>1. PICK ring : Owned(blk, NULL, ring)
    BY DEF RingsApart
  <1> DEFINE R(loc) == {n \in Free : ring[n] = loc}
             Ring == [loc \in Locations |-> After(FreeBlk(loc), "next")]
  <1>2. \A loc \in Locations : After(FreeBlk(loc), "next") = R(loc) /\ After(FreeBlk(loc), "prev") = R(loc)
    BY <1>1, RingIsExact
  <1>3. \A loc \in Locations : Ring[loc] = R(loc)
    BY <1>2
  <1>4. \A n \in Free : ring[n] \in Locations /\ Serves(blk[n], ring[n])
    <2> SUFFICES ASSUME NEW n \in Free PROVE ring[n] \in Locations /\ Serves(blk[n], ring[n])
      OBVIOUS
    <2>1. n \in DOMAIN blk /\ InRing(blk, NULL, n) /\ n \in Nodes
      BY NodeFields DEF Free, Used, InRing, IInv, WellFormed, Typed
    <2> QED BY <2>1, <1>1 DEF Owned
  <1> HIDE DEF Ring
  <1>5. Ring["ONCHIP"] \cup Ring["DDR2"] = Free
    BY <1>3, <1>4 DEF Locations
  <1>6. Ring["ONCHIP"] \cap Ring["DDR2"] = {}
    BY <1>3 DEF Locations
  <1>7. \A loc \in Locations :
            /\ After(FreeBlk(loc), "prev") = Ring[loc]
            /\ \A n \in Ring[loc] : \E h \in HeapsServing(loc) : Within(blk[n], h)
    BY <1>2, <1>3, <1>4 DEF Serves
  <1> QED BY <1>5, <1>6, <1>7 DEF FreeRingsExact, Ring

\* Heaps of any size, the shipped ones among them: no free block is ever lost
\* from the rings and no used one is left in them.  What use_free_block,
\* free_coalesce and free_used_block link and unlink is right in every order of
\* calls, also when blocks of both heaps are in the on-chip ring.
THEOREM SharedMemoryRings == Spec => []FreeRingsExact
  <1> DEFINE Inv == IInv /\ RingsApart /\ WholeHeaps /\ FiniteBlocks
  <1>1. Init => Inv
    <2>1. Init => FiniteBlocks
      <3>1. IsFiniteSet({}) /\ IsFiniteSet({} \cup {free_onchip_blk})
        BY FS_EmptySet, FS_AddElement
      <3>2. IsFiniteSet(({} \cup {free_onchip_blk}) \cup {free_ddr_blk})
        BY <3>1, FS_AddElement
      <3>3. Init => DOMAIN blk = ({} \cup {free_onchip_blk}) \cup {free_ddr_blk}
        BY DEF Init, Statics
      <3> QED BY <3>2, <3>3 DEF FiniteBlocks
    <2> QED BY <2>1, InitIInv, InitRingsApart, InitWholeHeaps
  <1>2. Inv /\ [Next]_vars => Inv'
    BY NextIInv, NextRingsApart, NextWholeHeaps, NextFiniteBlocks
  <1>3. Inv => FreeRingsExact
    BY RingsAreExact
  <1> HIDE DEF Inv
  <1> QED BY <1>1, <1>2, <1>3, PTL DEF Spec
=============================================================================
