---------------------------- MODULE CacheProofs ----------------------------
(***************************************************************************)
(* For every size of the cache and of its words: the types of DataCache,   *)
(* that bursts stay in step with the cache, that valid lines hold what the *)
(* memory holds, and that cache and memory implement WordMemory.           *)
(***************************************************************************)
EXTENDS DataCache, TLAPS

\* A read enables every byte.
ReadsEnableAll ==
    cache_state \in {"CHECK_HIT", "BEGIN_BURST", "ISSUE_READ", "WAIT_FOR_DATA"} =>
       last.byteenable = Lanes

\* In the cycle that uses it, port a shows the line of the latched address.
PortLooksUp ==
    cache_state \in {"CHECK_HIT", "ISSUE_WRITE_CHECK_HIT"} =>
       /\ port_a.tag = tag_memory[last.address.index]
       /\ port_a.data = data_memory[last.address.index][last.address.block]

\* From its first word on, the line being filled has its new tag, and the
\* words that have arrived are in it, even if a reset once spoiled the line.
FillMatches ==
    cache_state = "WAIT_FOR_DATA" =>
       /\ read_word_count > 0 =>
             tag_memory[last.address.index] = [valid |-> TRUE, tag |-> last.address.tag]
       /\ \A b \in Blocks : b < read_word_count =>
             data_memory[last.address.index][b] = memory[[last.address EXCEPT !.block = b]]

IInv == /\ TypeOK
        /\ BurstInStep
        /\ ValidLinesMatchMemory
        /\ ReadsEnableAll
        /\ PortLooksUp
        /\ FillMatches

LEMMA ZeroWordType == ZeroWord \in Word
BY CacheSizes DEF ZeroWord, Word

LEMMA ResetLatchType == ResetLatch \in Latched
BY ZeroWordType, CacheSizes DEF ResetLatch, Latched, Address, Tags, Indexes, Blocks

\* A legal request, and what the cache latches of it.
LEMMA RequestType ==
  ASSUME TypeOK, NEW request \in Requests
  PROVE  /\ request \in Request
         /\ ~(request.read /\ request.write)
         /\ cache_state # "IDLE" => ~request.read /\ ~request.write
         /\ Latch(request) \in Latched
         /\ request.read => Latch(request).byteenable = Lanes
<1>1. /\ IdleRequest \in Request
      /\ ~IdleRequest.read /\ ~IdleRequest.write
  BY DEF TypeOK, Latched, IdleRequest, Request
<1>2. ASSUME NEW r \in Reads PROVE r \in Request /\ r.read /\ ~r.write
  BY ZeroWordType DEF Reads, Request
<1>3. ASSUME NEW r \in Writes PROVE r \in Request /\ ~r.read /\ r.write
  BY DEF Writes, Request
<1>4. /\ request \in Request
      /\ ~(request.read /\ request.write)
      /\ cache_state # "IDLE" => ~request.read /\ ~request.write
  <2>1. CASE request = IdleRequest
    BY <1>1, <2>1
  <2>2. CASE cache_state = "IDLE" /\ request \in Reads \cup Writes
    BY <1>2, <1>3, <2>2
  <2> QED
    BY <2>1, <2>2 DEF Requests
<1>5. Latch(request) \in Latched
  BY <1>4 DEF Latch, TypeOK, Latched, Request
<1>6. request.read => Latch(request).byteenable = Lanes
  BY <1>4 DEF Latch
<1> QED
  BY <1>4, <1>5, <1>6

LEMMA MergeType ==
  ASSUME NEW word \in Word, NEW request, request.writedata \in Word
  PROVE  Merge(word, request) \in Word
BY DEF Merge, Word

LEMMA InitInductive == Init => IInv
<1> SUFFICES ASSUME Init PROVE IInv
  OBVIOUS
<1>1. TypeOK
  BY ZeroWordType, ResetLatchType, CacheSizes
     DEF Init, TypeOK, States, PortUnread, NoBurst, Tags, Indexes, Blocks
<1> QED
  BY <1>1 DEF Init, IInv, BurstInStep, ValidLinesMatchMemory, ReadsEnableAll,
              PortLooksUp, FillMatches, NoBurst

\* The edges of the state machine, one state at a time.
LEMMA StateEdges ==
  ASSUME TypeOK, NEW request \in Requests, NEW wait \in BOOLEAN, NEW valid \in BOOLEAN
  PROVE  LET next == NextState(request, wait, valid)
         IN  /\ next \in States
             /\ cache_state = "IDLE" =>
                   next = IF request.write THEN "ISSUE_WRITE_CHECK_HIT"
                          ELSE IF request.read THEN "CHECK_HIT" ELSE "IDLE"
             /\ cache_state \in Writing =>
                   next = IF wait THEN "ISSUE_WRITE_WAIT" ELSE "IDLE"
             /\ cache_state = "CHECK_HIT" =>
                   next = IF TagMatches THEN "IDLE" ELSE "BEGIN_BURST"
             /\ cache_state \in {"BEGIN_BURST", "ISSUE_READ"} =>
                   next = IF wait THEN "ISSUE_READ" ELSE "WAIT_FOR_DATA"
             /\ cache_state = "WAIT_FOR_DATA" =>
                   next = IF LastWord(valid) THEN "IDLE" ELSE "WAIT_FOR_DATA"
<1> DEFINE next == NextState(request, wait, valid)
<1>1. cache_state \in States
  BY DEF TypeOK
<1>2. CASE cache_state = "IDLE"
  BY <1>2 DEF NextState, States, Writing, cache_hit, cache_miss, avm_cache_read
<1>3. CASE cache_state \in Writing
  BY <1>3 DEF NextState, States, Writing, cache_hit, cache_miss, avm_cache_read
<1>4. CASE cache_state = "CHECK_HIT"
  BY <1>4 DEF NextState, States, Writing, cache_hit, cache_miss, avm_cache_read
<1>5. CASE cache_state \in {"BEGIN_BURST", "ISSUE_READ"}
  BY <1>5 DEF NextState, States, Writing, cache_hit, cache_miss, avm_cache_read
<1>6. CASE cache_state = "WAIT_FOR_DATA"
  BY <1>6 DEF NextState, States, Writing, cache_hit, cache_miss, avm_cache_read
<1> QED
  BY <1>1, <1>2, <1>3, <1>4, <1>5, <1>6 DEF States, Writing

\* The memory delivers only while the cache counts, and what it delivers then
\* is the word that the count names.
LEMMA BurstWord ==
  ASSUME IInv, burst.owed > 0
  PROVE  /\ cache_state = "WAIT_FOR_DATA"
         /\ avm_cache_readdata = memory[[last.address EXCEPT !.block = read_word_count]]
         /\ avm_cache_readdata \in Word
<1>1. cache_state = "WAIT_FOR_DATA"
  BY DEF IInv, BurstInStep
<1>2. /\ burst.tag = last.address.tag /\ burst.index = last.address.index
      /\ burst.byteenable = Lanes
      /\ burst.owed = BLOCK_SIZE - read_word_count
  BY <1>1 DEF IInv, BurstInStep
<1>3. read_word_count \in Blocks /\ last.address \in Address
  BY DEF IInv, TypeOK, Latched
<1>4. (BLOCK_SIZE - burst.owed) % BLOCK_SIZE = read_word_count
  <2>1. BLOCK_SIZE - burst.owed = read_word_count
    BY <1>2, <1>3, CacheSizes DEF Blocks
  <2>2. read_word_count % BLOCK_SIZE = read_word_count
    BY <1>3, CacheSizes DEF Blocks
  <2> QED
    BY <2>1, <2>2
<1> DEFINE a == [last.address EXCEPT !.block = read_word_count]
<1>5. a \in Address
  BY <1>3 DEF Address
<1>6. a = [tag |-> burst.tag, index |-> burst.index,
           block |-> (BLOCK_SIZE - burst.owed) % BLOCK_SIZE]
  BY <1>2, <1>3, <1>4 DEF Address
<1>7. memory[a] \in Word
  BY <1>5 DEF IInv, TypeOK
<1>8. avm_cache_readdata = [b \in Lanes |-> memory[a][b]]
  BY <1>2, <1>6 DEF avm_cache_readdata
<1>9. avm_cache_readdata = memory[a]
  BY <1>7, <1>8 DEF Word
<1> QED
  BY <1>1, <1>7, <1>9

\* The variables that a clock edge and a reset treat alike.
LEMMA RamTypes ==
  ASSUME IInv, NEW valid \in BOOLEAN, valid => burst.owed > 0, NEW wait \in BOOLEAN
  PROVE  /\ TagRam(valid) \in [Indexes -> [valid : BOOLEAN, tag : Tags]]
         /\ DataRam(valid) \in [Indexes -> [Blocks -> Word]]
         /\ MemoryTakes(wait) \in [Address -> Word]
         /\ cache_hit_writedata \in Word
<1> USE DEF IInv
<1>1. /\ last.address \in Address /\ last.writedata \in Word
      /\ last.address.index \in Indexes /\ last.address.tag \in Tags
      /\ last.address.block \in Blocks
  BY DEF TypeOK, Latched, Address
<1>2. TagRam(valid) \in [Indexes -> [valid : BOOLEAN, tag : Tags]]
  BY <1>1 DEF TagRam, TypeOK
<1>3. cache_hit_writedata \in Word
  BY <1>1, MergeType DEF cache_hit_writedata, TypeOK
<1>4. DataRam(valid) \in [Indexes -> [Blocks -> Word]]
  BY <1>1, <1>3, BurstWord DEF DataRam, TypeOK
<1>5. MemoryTakes(wait) \in [Address -> Word]
  BY <1>1, MergeType DEF MemoryTakes, TypeOK
<1> QED
  BY <1>2, <1>3, <1>4, <1>5

LEMMA TypeClock ==
  ASSUME IInv, NEW request \in Requests, NEW wait \in BOOLEAN, NEW valid \in BOOLEAN,
         Clock(request, wait, valid)
  PROVE  TypeOK'
<1> USE DEF IInv
<1>1. cache_state' \in States
  BY StateEdges DEF Clock
<1>2. last' \in Latched /\ request \in Request
  BY RequestType DEF Clock
<1>3. read_word_count' \in Blocks
  BY CacheSizes DEF Clock, CountWords, TypeOK, Blocks
<1>4. /\ tag_memory' \in [Indexes -> [valid : BOOLEAN, tag : Tags]]
      /\ data_memory' \in [Indexes -> [Blocks -> Word]]
      /\ memory' \in [Address -> Word]
  BY RamTypes DEF Clock
<1>5. port_a' \in [tag : [valid : BOOLEAN, tag : Tags], data : Word]
  <2>1. PortUnread \in [tag : [valid : BOOLEAN, tag : Tags], data : Word]
    BY ZeroWordType, CacheSizes DEF PortUnread, Tags
  <2>2. request.address.index \in Indexes /\ request.address.block \in Blocks
    BY <1>2 DEF Request, Address
  <2> QED
    BY <2>1, <2>2 DEF Clock, PortA, TypeOK
<1>6. burst' \in [owed : 0 .. BLOCK_SIZE, tag : Tags, index : Indexes,
                  byteenable : SUBSET Lanes]
  <2>1. last.address \in Address /\ last.byteenable \in SUBSET Lanes
    BY DEF TypeOK, Latched
  <2>2. CASE avm_cache_read /\ ~wait
    BY <2>1, <2>2, CacheSizes DEF Clock, BurstAfter, Address
  <2>3. CASE ~(avm_cache_read /\ ~wait)
    BY <2>3, CacheSizes DEF Clock, BurstAfter, TypeOK
  <2> QED
    BY <2>2, <2>3
<1>7. accepted' \in {<<>>} \cup {<<r>> : r \in Request}
  BY <1>2 DEF Clock
<1>8. answer' \in {<<>>} \cup {<<w>> : w \in Word}
  BY BurstWord DEF Clock, avs_cache_readdata, TypeOK
<1>9. cut' \subseteq Indexes
  BY DEF Clock, TypeOK
<1> QED
  BY <1>1, <1>2, <1>3, <1>4, <1>5, <1>6, <1>7, <1>8, <1>9 DEF TypeOK

LEMMA TypeReset ==
  ASSUME IInv, NEW wait \in BOOLEAN, NEW valid \in BOOLEAN, Reset(wait, valid)
  PROVE  TypeOK'
<1> USE DEF IInv
<1>1. /\ tag_memory' \in [Indexes -> [valid : BOOLEAN, tag : Tags]]
      /\ data_memory' \in [Indexes -> [Blocks -> Word]]
      /\ memory' \in [Address -> Word]
  BY RamTypes DEF Reset, TypeOK
<1>2. last' \in Latched
  BY ResetLatchType DEF Reset
<1>3. port_a' \in [tag : [valid : BOOLEAN, tag : Tags], data : Word]
  BY ZeroWordType, CacheSizes DEF Reset, PortUnread, Tags
<1>4. cut' \subseteq Indexes
  BY DEF Reset, TypeOK, Latched, Address
<1> QED
  BY <1>1, <1>2, <1>3, <1>4, CacheSizes
     DEF Reset, TypeOK, States, Blocks, NoBurst, Tags, Indexes

\* Reads keep every byte enabled, port a shows what the next cycle needs, and
\* the memory's burst follows the cache's counter.
LEMMA InStepClock ==
  ASSUME IInv, NEW request \in Requests, NEW wait \in BOOLEAN, NEW valid \in BOOLEAN,
         Clock(request, wait, valid)
  PROVE  BurstInStep' /\ ReadsEnableAll' /\ PortLooksUp'
<1> USE DEF IInv
<1>1. burst.owed > 0 => cache_state = "WAIT_FOR_DATA"
  BY DEF BurstInStep
<1>2. cache_state \in States /\ cache_state' = NextState(request, wait, valid)
  BY DEF TypeOK, Clock
<1>3. last.address \in Address /\ last.byteenable \in SUBSET Lanes
  BY DEF TypeOK, Latched
<1>4. ReadsEnableAll'
  BY <1>2, RequestType, StateEdges DEF Clock, Latch, ReadsEnableAll, States, Writing
<1>5. PortLooksUp'
  <2>1. CASE cache_state = "IDLE"
    <3>1. ~valid /\ ~cache_hit_write
      BY <1>1, <2>1 DEF Clock, cache_hit_write
    <3>2. UNCHANGED <<tag_memory, data_memory>>
      BY <3>1 DEF Clock, TagRam, DataRam
    <3>3. last'.address = request.address
      BY <2>1 DEF Clock, Latch
    <3>4. CASE request.read \/ request.write
      BY <2>1, <3>2, <3>3, <3>4 DEF Clock, PortA, PortLooksUp
    <3>5. CASE ~(request.read \/ request.write)
      BY <1>2, <2>1, <3>5, StateEdges DEF PortLooksUp
    <3> QED
      BY <3>4, <3>5
  <2>2. CASE cache_state # "IDLE"
    BY <1>2, <2>2, StateEdges DEF PortLooksUp, States, Writing
  <2> QED
    BY <2>1, <2>2
<1>6. BurstInStep'
  <2>1. CASE cache_state = "WAIT_FOR_DATA"
    <3>1. last' = last /\ ~avm_cache_read
      BY <2>1 DEF Clock, Latch, avm_cache_read
    <3>2. /\ burst.owed = BLOCK_SIZE - read_word_count
          /\ burst.tag = last.address.tag /\ burst.index = last.address.index
          /\ burst.byteenable = Lanes
          /\ burst.owed \in Nat
      BY <2>1 DEF BurstInStep, TypeOK
    <3>3. burst' = IF valid THEN [burst EXCEPT !.owed = @ - 1] ELSE burst
      BY <3>1 DEF Clock, BurstAfter
    <3>4. /\ burst'.tag = last'.address.tag /\ burst'.index = last'.address.index
          /\ burst'.byteenable = Lanes
          /\ burst'.owed = IF valid THEN burst.owed - 1 ELSE burst.owed
      BY <3>1, <3>2, <3>3 DEF TypeOK
    <3>5. CASE LastWord(valid)
      <4>1. burst'.owed = 0
        BY <3>2, <3>4, <3>5, CacheSizes DEF LastWord, TypeOK, Blocks
      <4>2. cache_state' # "WAIT_FOR_DATA"
        BY <1>2, <2>1, <3>5, StateEdges
      <4> QED
        BY <4>1, <4>2 DEF BurstInStep
    <3>6. CASE ~LastWord(valid)
      <4>1. read_word_count \in Nat /\ read_word_count < BLOCK_SIZE
        BY CacheSizes DEF TypeOK, Blocks
      <4>2. read_word_count' = IF valid THEN read_word_count + 1 ELSE read_word_count
        <5>1. CASE valid
          <6>1. read_word_count + 1 < BLOCK_SIZE
            BY <3>6, <4>1, <5>1, CacheSizes DEF LastWord
          <6>2. (read_word_count + 1) % BLOCK_SIZE = read_word_count + 1
            BY <4>1, <6>1, CacheSizes
          <6> QED
            BY <2>1, <5>1, <6>2 DEF Clock, CountWords
        <5>2. CASE ~valid
          BY <2>1, <5>2 DEF Clock, CountWords
        <5> QED
          BY <5>1, <5>2
      <4>3. burst'.owed = BLOCK_SIZE - read_word_count'
        BY <3>2, <3>4, <4>1, <4>2, CacheSizes
      <4>4. cache_state' = "WAIT_FOR_DATA"
        BY <1>2, <2>1, <3>6, StateEdges
      <4> QED
        BY <3>4, <4>3, <4>4 DEF BurstInStep
    <3> QED
      BY <3>5, <3>6
  <2>2. CASE avm_cache_read
    <3>1. last' = last /\ read_word_count' = 0 /\ last.byteenable = Lanes
      BY <2>2 DEF Clock, Latch, CountWords, avm_cache_read, ReadsEnableAll
    <3>2. ~valid /\ burst.owed = 0
      BY <1>1, <2>2 DEF Clock, avm_cache_read, BurstInStep
    <3>3. CASE wait
      BY <1>2, <2>2, <3>2, <3>3, StateEdges
         DEF Clock, BurstAfter, avm_cache_read, BurstInStep
    <3>4. CASE ~wait
      BY <1>2, <2>2, <3>1, <3>4, StateEdges, CacheSizes
         DEF Clock, BurstAfter, avm_cache_read, BurstInStep
    <3> QED
      BY <3>3, <3>4
  <2>3. CASE cache_state # "WAIT_FOR_DATA" /\ ~avm_cache_read
    <3>1. ~valid /\ burst.owed = 0
      BY <1>1, <2>3 DEF Clock, BurstInStep
    <3>2. burst' = burst
      BY <2>3, <3>1 DEF Clock, BurstAfter
    <3>3. cache_state' # "WAIT_FOR_DATA"
      BY <1>2, <2>3, StateEdges DEF avm_cache_read, States, Writing
    <3> QED
      BY <3>1, <3>2, <3>3 DEF BurstInStep
  <2> QED
    BY <2>1, <2>2, <2>3
<1> QED
  BY <1>4, <1>5, <1>6

\* The words of a burst go to the line one by one, and nothing else moves.
LEMMA FillClock ==
  ASSUME IInv, NEW request \in Requests, NEW wait \in BOOLEAN, NEW valid \in BOOLEAN,
         Clock(request, wait, valid), cache_state = "WAIT_FOR_DATA"
  PROVE  /\ last' = last /\ memory' = memory
         /\ FillMatches'
         /\ LastWord(valid) =>
               /\ tag_memory'[last.address.index] = [valid |-> TRUE, tag |-> last.address.tag]
               /\ \A b \in Blocks : data_memory'[last.address.index][b] =
                                       memory[[last.address EXCEPT !.block = b]]
         /\ ~LastWord(valid) /\ valid => read_word_count' = read_word_count + 1
         /\ ~valid => /\ read_word_count' = read_word_count
                      /\ UNCHANGED <<tag_memory, data_memory>>
<1> USE DEF IInv
<1> DEFINE i == last.address.index
           a(b) == [last.address EXCEPT !.block = b]
<1>1. last' = last /\ memory' = memory
  BY DEF Clock, Latch, MemoryTakes, avm_cache_write, Writing
<1>2. /\ i \in Indexes /\ read_word_count \in Blocks
      /\ tag_memory \in [Indexes -> [valid : BOOLEAN, tag : Tags]]
      /\ data_memory \in [Indexes -> [Blocks -> Word]]
  BY DEF TypeOK, Latched, Address
<1>3. \A b \in Blocks : b < read_word_count => data_memory[i][b] = memory[a(b)]
  BY DEF FillMatches
<1>4. CASE ~valid
  <2>1. UNCHANGED <<tag_memory, data_memory, read_word_count>>
    BY <1>4 DEF Clock, TagRam, DataRam, cache_hit_write, CountWords
  <2>2. FillMatches'
    BY <1>1, <2>1 DEF FillMatches
  <2> QED
    BY <1>1, <1>4, <2>1, <2>2 DEF LastWord
<1>5. CASE valid
  <2>1. avm_cache_readdata = memory[a(read_word_count)]
    BY <1>5, BurstWord DEF Clock
  <2>2. data_memory' = [data_memory EXCEPT ![i][read_word_count] = memory[a(read_word_count)]]
    BY <1>5, <2>1 DEF Clock, DataRam
  <2>3. tag_memory'[i] = [valid |-> TRUE, tag |-> last.address.tag]
    BY <1>2, <1>5 DEF Clock, TagRam
  <2>4. \A b \in Blocks : b <= read_word_count => data_memory'[i][b] = memory[a(b)]
    <3> TAKE b \in Blocks
    <3>1. CASE b = read_word_count
      BY <1>2, <2>2, <3>1
    <3>2. CASE b < read_word_count
      <4>1. data_memory'[i][b] = data_memory[i][b]
        BY <1>2, <2>2, <3>2, CacheSizes DEF Blocks
      <4> QED
        BY <1>3, <3>2, <4>1
    <3> QED
      BY <1>2, <3>1, <3>2, CacheSizes DEF Blocks
  <2>5. CASE LastWord(valid)
    <3>1. cache_state' = "IDLE"
      BY <2>5, StateEdges DEF Clock
    <3>2. \A b \in Blocks : b <= read_word_count
      BY <1>2, <2>5, CacheSizes DEF LastWord, Blocks
    <3> QED
      BY <1>1, <1>5, <2>3, <2>4, <2>5, <3>1, <3>2 DEF FillMatches
  <2>6. CASE ~LastWord(valid)
    <3>1. read_word_count + 1 < BLOCK_SIZE /\ read_word_count \in Nat
      BY <1>2, <1>5, <2>6, CacheSizes DEF LastWord, Blocks
    <3>2. (read_word_count + 1) % BLOCK_SIZE = read_word_count + 1
      BY <3>1, CacheSizes
    <3>3. read_word_count' = read_word_count + 1
      BY <1>5, <3>2 DEF Clock, CountWords
    <3>4. \A b \in Blocks : b < read_word_count' => b <= read_word_count
      BY <3>1, <3>3, CacheSizes DEF Blocks
    <3>5. FillMatches'
      BY <1>1, <2>3, <2>4, <3>4 DEF FillMatches
    <3> QED
      BY <1>1, <1>5, <2>6, <3>3, <3>5
  <2> QED
    BY <2>5, <2>6
<1> QED
  BY <1>4, <1>5

\* A word that is valid, not spoiled and not still to come is as it should be.
LEMMA ValidWord ==
  ASSUME IInv, NEW i \in Indexes \ cut, tag_memory[i].valid, NEW b \in Blocks,
         ~(cache_state = "WAIT_FOR_DATA" /\ i = last.address.index /\ b >= read_word_count)
  PROVE  LET a == [tag |-> tag_memory[i].tag, index |-> i, block |-> b]
         IN  /\ a \in Address
             /\ data_memory[i][b] = IF Behind(a) THEN memory[a] ELSE Stored(a)
<1>1. [tag |-> tag_memory[i].tag, index |-> i, block |-> b] \in Address
  BY DEF IInv, TypeOK, Address
<1> QED
  BY <1>1 DEF IInv, ValidLinesMatchMemory

\* The write that looks up the cache updates the line if and only if the line
\* holds the address.
LEMMA WriteLooksUp ==
  ASSUME IInv, NEW request \in Requests, NEW wait \in BOOLEAN, NEW valid \in BOOLEAN,
         Clock(request, wait, valid), cache_state = "ISSUE_WRITE_CHECK_HIT",
         NEW i \in Indexes \ cut, tag_memory[i].valid, NEW b \in Blocks
  PROVE  LET a == [tag |-> tag_memory[i].tag, index |-> i, block |-> b]
         IN  data_memory'[i][b] =
                IF a = last.address THEN Merge(memory[a], last) ELSE memory[a]
<1> USE DEF IInv
<1> DEFINE a == [tag |-> tag_memory[i].tag, index |-> i, block |-> b]
<1>1. ~valid
  BY DEF Clock, BurstInStep
<1>2. data_memory' =
        IF TagMatches
        THEN [data_memory EXCEPT ![last.address.index][last.address.block] = cache_hit_writedata]
        ELSE data_memory
  BY <1>1 DEF Clock, DataRam, cache_hit_write
<1>3. /\ port_a.tag = tag_memory[last.address.index]
      /\ port_a.data = data_memory[last.address.index][last.address.block]
  BY DEF PortLooksUp
<1>4. data_memory[i][b] = memory[a]
  BY ValidWord DEF Behind, Stored
<1>5. last.address \in Address /\ data_memory \in [Indexes -> [Blocks -> Word]]
  BY DEF TypeOK, Latched
<1>6. CASE a = last.address
  <2>1. i = last.address.index /\ b = last.address.block
        /\ tag_memory[i].tag = last.address.tag
    BY <1>6
  <2>2. TagMatches
    BY <1>3, <2>1 DEF TagMatches
  <2>3. data_memory'[i][b] = cache_hit_writedata
    BY <1>2, <1>5, <2>1, <2>2
  <2>4. cache_hit_writedata = Merge(memory[a], last)
    BY <1>3, <1>4, <2>1 DEF cache_hit_writedata
  <2> QED
    BY <1>6, <2>3, <2>4
<1>7. CASE a # last.address
  <2>1. CASE i = last.address.index /\ b = last.address.block
    <3>1. last.address = [tag |-> last.address.tag, index |-> i, block |-> b]
      BY <1>5, <2>1 DEF Address
    <3>2. ~TagMatches
      BY <1>3, <1>7, <2>1, <3>1 DEF TagMatches
    <3> QED
      BY <1>2, <1>4, <1>7, <3>2
  <2>2. CASE ~(i = last.address.index /\ b = last.address.block)
    <3>1. data_memory'[i][b] = data_memory[i][b]
      BY <1>2, <1>5, <2>2
    <3> QED
      BY <1>4, <1>7, <3>1
  <2> QED
    BY <2>1, <2>2
<1> QED
  BY <1>6, <1>7

LEMMA ValidClock ==
  ASSUME IInv, NEW request \in Requests, NEW wait \in BOOLEAN, NEW valid \in BOOLEAN,
         Clock(request, wait, valid)
  PROVE  ValidLinesMatchMemory'
<1> USE DEF IInv
<1> SUFFICES ASSUME NEW i \in Indexes \ cut', tag_memory'[i].valid, NEW b \in Blocks,
                    ~(cache_state' = "WAIT_FOR_DATA" /\ i = last'.address.index
                        /\ b >= read_word_count')
             PROVE  LET a == [tag |-> tag_memory'[i].tag, index |-> i, block |-> b]
                    IN  data_memory'[i][b] =
                           IF cache_state' = "ISSUE_WRITE_WAIT" /\ a = last'.address
                           THEN Merge(memory'[a], last') ELSE memory'[a]
  BY DEF ValidLinesMatchMemory, Behind, Stored, Merge, Writing
<1> DEFINE a == [tag |-> tag_memory'[i].tag, index |-> i, block |-> b]
<1>1. cache_state \in States /\ cache_state' = NextState(request, wait, valid)
  BY DEF TypeOK, Clock
<1>2. /\ tag_memory \in [Indexes -> [valid : BOOLEAN, tag : Tags]]
      /\ data_memory \in [Indexes -> [Blocks -> Word]]
      /\ memory \in [Address -> Word]
      /\ last.address \in Address /\ last.address.index \in Indexes
      /\ read_word_count \in Blocks
  BY DEF TypeOK, Latched, Address
<1>3. cache_state # "WAIT_FOR_DATA" => ~valid
  BY DEF Clock, BurstInStep
<1>4. cache_state # "WAIT_FOR_DATA" => tag_memory' = tag_memory /\ cut' = cut
  BY <1>3 DEF Clock, TagRam
<1>5. CASE cache_state = "WAIT_FOR_DATA"
  <2>1. cache_state' = IF LastWord(valid) THEN "IDLE" ELSE "WAIT_FOR_DATA"
    BY <1>1, <1>5, StateEdges
  <2>2. SUFFICES data_memory'[i][b] = memory'[a]
    BY <2>1
  <2>3. last' = last /\ memory' = memory
    BY <1>5, FillClock
  <2>4. CASE i # last.address.index
    <3>1. tag_memory'[i] = tag_memory[i] /\ data_memory'[i] = data_memory[i]
      BY <1>2, <1>5, <2>4 DEF Clock, TagRam, DataRam, cache_hit_write
    <3>2. i \notin cut
      BY <2>4 DEF Clock
    <3>3. data_memory[i][b] = memory[a]
      BY <1>5, <2>4, <3>1, <3>2, ValidWord DEF Behind, Stored, Writing
    <3> QED
      BY <2>3, <3>1, <3>3
  <2>5. CASE i = last.address.index /\ LastWord(valid)
    <3>1. a = [last.address EXCEPT !.block = b]
      BY <1>2, <1>5, <2>5, FillClock DEF Address
    <3> QED
      BY <1>5, <2>3, <2>5, <3>1, FillClock
  <2>6. CASE i = last.address.index /\ ~LastWord(valid)
    <3>1. b < read_word_count' /\ FillMatches' /\ cache_state' = "WAIT_FOR_DATA"
      <4>1. read_word_count' \in Blocks
        BY TypeClock DEF TypeOK
      <4> QED
        BY <1>5, <2>1, <2>3, <2>6, <4>1, FillClock, CacheSizes DEF Blocks
    <3>2. read_word_count' > 0
      BY <3>1, TypeClock, CacheSizes DEF TypeOK, Blocks
    <3>3. a = [last.address EXCEPT !.block = b]
      BY <1>2, <2>3, <2>6, <3>1, <3>2 DEF FillMatches, Address
    <3> QED
      BY <2>3, <2>6, <3>1, <3>3 DEF FillMatches
  <2> QED
    BY <2>4, <2>5, <2>6
<1>6. CASE cache_state = "ISSUE_WRITE_CHECK_HIT"
  <2>1. data_memory'[i][b] = IF a = last.address THEN Merge(memory[a], last) ELSE memory[a]
    BY <1>4, <1>6, WriteLooksUp
  <2>2. last' = last /\ cache_state' = IF wait THEN "ISSUE_WRITE_WAIT" ELSE "IDLE"
    BY <1>1, <1>6, StateEdges DEF Clock, Latch, Writing
  <2>3. memory' = IF wait THEN memory
                  ELSE [memory EXCEPT ![last.address] = Merge(memory[last.address], last)]
    BY <1>6 DEF Clock, MemoryTakes, avm_cache_write, Writing
  <2>4. a \in Address
    BY <1>2, <1>4, <1>6 DEF Address
  <2> QED
    BY <1>2, <2>1, <2>2, <2>3, <2>4
<1>7. CASE cache_state = "ISSUE_WRITE_WAIT"
  <2>1. data_memory' = data_memory
    BY <1>3, <1>7 DEF Clock, DataRam, cache_hit_write
  <2>2. a \in Address /\ data_memory'[i][b] = Stored(a)
    BY <1>4, <1>7, <2>1, ValidWord DEF Behind
  <2>3. last' = last /\ cache_state' = IF wait THEN "ISSUE_WRITE_WAIT" ELSE "IDLE"
    BY <1>1, <1>7, StateEdges DEF Clock, Latch, Writing
  <2>4. memory' = IF wait THEN memory
                  ELSE [memory EXCEPT ![last.address] = Merge(memory[last.address], last)]
    BY <1>7 DEF Clock, MemoryTakes, avm_cache_write, Writing
  <2> QED
    BY <1>2, <1>7, <2>2, <2>3, <2>4 DEF Stored, Writing
<1>8. CASE cache_state \in {"IDLE", "CHECK_HIT", "BEGIN_BURST", "ISSUE_READ"}
  <2>1. data_memory' = data_memory /\ memory' = memory
    BY <1>3, <1>8 DEF Clock, DataRam, cache_hit_write, MemoryTakes, avm_cache_write, Writing
  <2>2. data_memory'[i][b] = memory'[a]
    BY <1>4, <1>8, <2>1, ValidWord DEF Behind, Stored, Writing
  <2>3. cache_state' # "ISSUE_WRITE_WAIT"
    BY <1>1, <1>8, StateEdges
  <2> QED
    BY <2>2, <2>3
<1> QED
  BY <1>1, <1>5, <1>6, <1>7, <1>8 DEF States

\* A reset spoils at most the line that was being worked on.
LEMMA ValidReset ==
  ASSUME IInv, NEW wait \in BOOLEAN, NEW valid \in BOOLEAN, Reset(wait, valid)
  PROVE  ValidLinesMatchMemory'
<1> USE DEF IInv
<1> SUFFICES ASSUME NEW i \in Indexes \ cut', tag_memory'[i].valid, NEW b \in Blocks
             PROVE  data_memory'[i][b] =
                       memory'[[tag |-> tag_memory'[i].tag, index |-> i, block |-> b]]
  BY DEF ValidLinesMatchMemory, Reset, Behind, Stored, Writing
<1>1. i \notin cut
      /\ (cache_state \in Writing \cup {"WAIT_FOR_DATA"} => i # last.address.index)
  BY DEF Reset
<1>2. /\ last.address \in Address
      /\ tag_memory \in [Indexes -> [valid : BOOLEAN, tag : Tags]]
      /\ data_memory \in [Indexes -> [Blocks -> Word]]
      /\ memory \in [Address -> Word]
  BY DEF TypeOK, Latched
<1>3. valid => cache_state = "WAIT_FOR_DATA"
  BY DEF Reset, BurstInStep
<1>4. tag_memory'[i] = tag_memory[i] /\ data_memory'[i] = data_memory[i]
  BY <1>1, <1>2, <1>3 DEF Reset, TagRam, DataRam, cache_hit_write, Writing
<1> DEFINE a == [tag |-> tag_memory[i].tag, index |-> i, block |-> b]
<1>5. a \in Address /\ data_memory[i][b] = IF Behind(a) THEN memory[a] ELSE Stored(a)
  BY <1>1, <1>4, ValidWord
<1>6. cache_state \in Writing => a # last.address
  BY <1>1
<1>7. data_memory[i][b] = memory[a]
  BY <1>5, <1>6 DEF Behind, Stored
<1>8. memory'[a] = memory[a]
  BY <1>2, <1>5, <1>6 DEF Reset, MemoryTakes, avm_cache_write
<1> QED
  BY <1>4, <1>7, <1>8

LEMMA StepInductive == IInv /\ [Next]_vars => IInv'
<1> SUFFICES ASSUME IInv, [Next]_vars PROVE IInv'
  OBVIOUS
<1>1. ASSUME NEW request \in Requests, NEW wait \in BOOLEAN, NEW valid \in BOOLEAN,
             Clock(request, wait, valid)
      PROVE  IInv'
  <2>1. FillMatches'
    <3>1. CASE cache_state = "WAIT_FOR_DATA"
      BY <1>1, <3>1, FillClock
    <3>2. CASE cache_state # "WAIT_FOR_DATA"
      <4>1. read_word_count' = 0
        BY <1>1, <3>2 DEF Clock, CountWords
      <4> QED
        BY <4>1, CacheSizes DEF FillMatches, Blocks
    <3> QED
      BY <3>1, <3>2
  <2> QED
    BY <1>1, <2>1, TypeClock, InStepClock, ValidClock DEF IInv
<1>2. ASSUME NEW wait \in BOOLEAN, NEW valid \in BOOLEAN, Reset(wait, valid)
      PROVE  IInv'
  <2>1. TypeOK' /\ ValidLinesMatchMemory'
    BY <1>2, TypeReset, ValidReset
  <2>2. BurstInStep' /\ ReadsEnableAll' /\ PortLooksUp' /\ FillMatches'
    BY <1>2 DEF Reset, BurstInStep, NoBurst, ReadsEnableAll, PortLooksUp, FillMatches
  <2> QED
    BY <2>1, <2>2 DEF IInv
<1>3. CASE UNCHANGED vars
  BY <1>3 DEF vars, IInv, TypeOK, BurstInStep, ValidLinesMatchMemory, Behind, Stored,
              ReadsEnableAll, PortLooksUp, FillMatches
<1> QED
  BY <1>1, <1>2, <1>3 DEF Next

\* The types of the cache, for every size (legup_dm_wt_cache.v:10-12).
THEOREM CacheTypes == Spec => []TypeOK
BY InitInductive, StepInductive, PTL DEF Spec, IInv

\* Whatever the processor and the memory do, the words owed and the words
\* counted agree (legup_dm_wt_cache.v:253-260, 301-308).
THEOREM CacheBurstInStep == Spec => []BurstInStep
BY InitInductive, StepInductive, PTL DEF Spec, IInv

\* No write, fill or eviction leaves a valid line that differs from the
\* memory, and a reset spoils only the line it interrupts.
THEOREM CacheCoherent == Spec => []ValidLinesMatchMemory
BY InitInductive, StepInductive, PTL DEF Spec, IInv
-----------------------------------------------------------------------------
Store == [a \in Address |-> Stored(a)]
Doubt == {a \in Address : a.index \in cut}

\* What the mapping of a clock edge must show of the memory.
LEMMA StoreStep ==
  ASSUME IInv, NEW request \in Requests, NEW wait \in BOOLEAN, NEW valid \in BOOLEAN,
         Clock(request, wait, valid)
  PROVE  /\ ~(cache_state = "IDLE" /\ request.write) => Store' = Store
         /\ cache_state = "IDLE" /\ request.write =>
               Store' = [Store EXCEPT ![request.address] = Merge(@, request)]
         /\ Doubt' \subseteq Doubt
         /\ cache_state # "WAIT_FOR_DATA" => Doubt' = Doubt
<1> USE DEF IInv
<1>1. cache_state \in States /\ cache_state' = NextState(request, wait, valid)
  BY DEF TypeOK, Clock
<1>2. last.address \in Address /\ memory \in [Address -> Word] /\ request \in Request
  BY RequestType DEF TypeOK, Latched
<1>3. CASE cache_state \in Writing
  <2>1. last' = last /\ cache_state' = IF wait THEN "ISSUE_WRITE_WAIT" ELSE "IDLE"
    BY <1>1, <1>3, StateEdges DEF Clock, Latch, Writing
  <2>2. memory' = IF wait THEN memory
                  ELSE [memory EXCEPT ![last.address] = Merge(memory[last.address], last)]
    BY <1>3 DEF Clock, MemoryTakes, avm_cache_write
  <2>3. ASSUME NEW a \in Address PROVE Stored(a)' = Stored(a)
    BY <1>2, <1>3, <2>1, <2>2 DEF Stored, Writing, Merge
  <2> QED
    BY <1>3, <2>3 DEF Store, Writing, Clock, Doubt
<1>4. CASE cache_state \notin Writing
  <2>1. memory' = memory
    BY <1>4 DEF Clock, MemoryTakes, avm_cache_write
  <2>2. CASE ~(cache_state = "IDLE" /\ request.write)
    <3>1. cache_state' \notin Writing
      BY <1>1, <1>4, <2>2, StateEdges DEF Writing, States
    <3>2. ASSUME NEW a \in Address PROVE Stored(a)' = Stored(a)
      BY <1>4, <2>1, <3>1 DEF Stored
    <3> QED
      BY <2>2, <3>2 DEF Store, Clock, Doubt
  <2>3. CASE cache_state = "IDLE" /\ request.write
    <3>1. cache_state' = "ISSUE_WRITE_CHECK_HIT"
      BY <1>1, <2>3, StateEdges
    <3>2. last' = [address |-> request.address, byteenable |-> request.byteenable,
                   writedata |-> request.writedata]
      BY <2>3, RequestType DEF Clock, Latch
    <3>3. ASSUME NEW a \in Address
          PROVE  Stored(a)' = IF a = request.address THEN Merge(memory[a], request)
                              ELSE memory[a]
      BY <2>1, <3>1, <3>2 DEF Stored, Writing, Merge
    <3>4. ASSUME NEW a \in Address PROVE Stored(a) = memory[a]
      BY <1>4 DEF Stored
    <3>5. request.address \in Address
      BY <1>2 DEF Request
    <3> QED
      BY <2>3, <3>3, <3>4, <3>5 DEF Store, Clock, Doubt
  <2> QED
    BY <2>2, <2>3
<1> QED
  BY <1>3, <1>4

\* An answer is the word last written at the address asked for, or in doubt.
LEMMA AnswerStep ==
  ASSUME IInv, NEW request \in Requests, NEW wait \in BOOLEAN, NEW valid \in BOOLEAN,
         Clock(request, wait, valid), avs_cache_readdatavalid(valid)
  PROVE  /\ Asked = <<last.address>> /\ last.address \in Address
         /\ answer' # <<>>
         /\ last.address.index \in cut \/ answer' = <<Stored(last.address)>>
<1> USE DEF IInv
<1>1. /\ last.address \in Address /\ last.address.index \in Indexes
      /\ last.address.block \in Blocks /\ read_word_count \in Blocks
  BY DEF TypeOK, Latched, Address
<1>2. answer' = <<avs_cache_readdata(valid)>>
  BY DEF Clock
<1>3. CASE cache_hit
  <2>1. cache_state = "CHECK_HIT" /\ TagMatches /\ ~valid
    BY <1>3 DEF cache_hit, Clock, BurstInStep
  <2>2. answer' = <<port_a.data>>
    BY <1>2, <2>1 DEF avs_cache_readdata
  <2>3. /\ tag_memory[last.address.index].valid
        /\ tag_memory[last.address.index].tag = last.address.tag
        /\ port_a.data = data_memory[last.address.index][last.address.block]
    BY <2>1 DEF PortLooksUp, TagMatches
  <2>4. last.address = [tag |-> tag_memory[last.address.index].tag,
                        index |-> last.address.index, block |-> last.address.block]
    BY <1>1, <2>3 DEF Address
  <2>5. last.address.index \notin cut =>
           data_memory[last.address.index][last.address.block] = Stored(last.address)
    BY <1>1, <2>1, <2>3, <2>4, ValidWord DEF Behind
  <2> QED
    BY <1>1, <2>1, <2>2, <2>3, <2>5 DEF Asked
<1>4. CASE valid /\ read_word_count = last.address.block
  <2>1. /\ cache_state = "WAIT_FOR_DATA"
        /\ avm_cache_readdata = memory[[last.address EXCEPT !.block = read_word_count]]
    BY <1>4, BurstWord DEF Clock
  <2>2. [last.address EXCEPT !.block = read_word_count] = last.address
    BY <1>1, <1>4 DEF Address
  <2>3. answer' = <<Stored(last.address)>>
    BY <1>2, <1>4, <2>1, <2>2 DEF avs_cache_readdata, Stored, Writing
  <2> QED
    BY <1>1, <1>4, <2>1, <2>3, CacheSizes DEF Asked, Blocks
<1> QED
  BY <1>3, <1>4 DEF avs_cache_readdatavalid

\* Which read is waiting for its answer after a clock edge.
LEMMA AskedStep ==
  ASSUME IInv, NEW request \in Requests, NEW wait \in BOOLEAN, NEW valid \in BOOLEAN,
         Clock(request, wait, valid)
  PROVE  /\ cache_state = "IDLE" =>
               /\ Asked = <<>>
               /\ Asked' = IF request.read THEN <<request.address>> ELSE <<>>
         /\ cache_state # "IDLE" =>
               Asked' = IF avs_cache_readdatavalid(valid) THEN <<>> ELSE Asked
<1> USE DEF IInv
<1>1. cache_state \in States /\ cache_state' = NextState(request, wait, valid)
  BY DEF TypeOK, Clock
<1>2. last.address.block \in Blocks /\ read_word_count \in Blocks
  BY DEF TypeOK, Latched, Address
<1>3. cache_state # "WAIT_FOR_DATA" => ~valid
  BY DEF Clock, BurstInStep
<1>4. CASE cache_state = "IDLE"
  BY <1>1, <1>4, StateEdges, RequestType DEF Asked, Clock, Latch
<1>5. CASE cache_state \in Writing
  BY <1>1, <1>3, <1>5, StateEdges
     DEF Asked, avs_cache_readdatavalid, cache_hit, Writing
<1>6. CASE cache_state = "CHECK_HIT"
  BY <1>1, <1>3, <1>6, StateEdges
     DEF Asked, avs_cache_readdatavalid, cache_hit, Clock, Latch
<1>7. CASE cache_state \in {"BEGIN_BURST", "ISSUE_READ"}
  <2>1. read_word_count' = 0 /\ last' = last
    BY <1>7 DEF Clock, CountWords, Latch
  <2> QED
    BY <1>1, <1>2, <1>3, <1>7, <2>1, StateEdges, CacheSizes
       DEF Asked, avs_cache_readdatavalid, cache_hit, Blocks
<1>8. CASE cache_state = "WAIT_FOR_DATA"
  <2>1. last' = last /\ ~cache_hit
    BY <1>8, FillClock DEF cache_hit
  <2>2. CASE LastWord(valid)
    <3>1. valid /\ read_word_count = BLOCK_SIZE - 1 /\ cache_state' = "IDLE"
      BY <1>1, <1>8, <2>2, StateEdges DEF LastWord
    <3>2. Asked' = <<>>
      BY <3>1 DEF Asked
    <3>3. read_word_count <= last.address.block <=> read_word_count = last.address.block
      BY <1>2, <3>1, CacheSizes DEF Blocks
    <3> QED
      BY <1>8, <2>1, <3>1, <3>2, <3>3 DEF Asked, avs_cache_readdatavalid
  <2>3. CASE ~LastWord(valid)
    <3>1. read_word_count' = IF valid THEN read_word_count + 1 ELSE read_word_count
      BY <1>8, <2>3, FillClock
    <3>2. cache_state' = "WAIT_FOR_DATA"
      BY <1>1, <1>8, <2>3, StateEdges
    <3> QED
      BY <1>2, <1>8, <2>1, <3>1, <3>2, CacheSizes
         DEF Asked, avs_cache_readdatavalid, Blocks
  <2> QED
    BY <2>2, <2>3
<1> QED
  BY <1>1, <1>4, <1>5, <1>6, <1>7, <1>8 DEF States, Writing

LEMMA ResetStep ==
  ASSUME IInv, NEW wait \in BOOLEAN, NEW valid \in BOOLEAN, Reset(wait, valid)
  PROVE  /\ last.address \in Address
         /\ Store' = [Store EXCEPT ![last.address] = Store'[last.address]]
         /\ Asked' = <<>> /\ accepted' = <<>> /\ answer' = <<>>
         /\ Doubt' \subseteq Doubt \cup SameLine(last.address)
<1> USE DEF IInv
<1>1. last.address \in Address /\ memory \in [Address -> Word]
  BY DEF TypeOK, Latched
<1>2. ASSUME NEW a \in Address, a # last.address PROVE Stored(a)' = Stored(a)
  BY <1>1, <1>2 DEF Reset, Stored, Writing, MemoryTakes
<1>3. Store' = [Store EXCEPT ![last.address] = Store'[last.address]]
  BY <1>1, <1>2 DEF Store
<1>4. Asked' = <<>> /\ accepted' = <<>> /\ answer' = <<>>
  BY DEF Reset, Asked
<1>5. Doubt' \subseteq Doubt \cup SameLine(last.address)
  BY DEF Reset, Doubt, SameLine
<1> QED
  BY <1>1, <1>3, <1>4, <1>5

LEMMA MapsInit == Init => W!Init
<1> SUFFICES ASSUME Init PROVE W!Init
  OBVIOUS
<1>1. \A a \in Address : Stored(a) = memory[a]
  BY DEF Init, Stored, Writing
<1>2. [a \in Address |-> Stored(a)] \in [Address -> W!Word]
  BY <1>1 DEF Init, Word, W!Word
<1> QED
  BY <1>2 DEF Init, W!Init, Asked

LEMMA MapsStep == IInv /\ [Next]_vars => [W!Next]_W!vars
<1> SUFFICES ASSUME IInv, [Next]_vars PROVE [W!Next]_W!vars
  OBVIOUS
<1>1. ASSUME NEW request \in Requests, NEW wait \in BOOLEAN, NEW valid \in BOOLEAN,
             Clock(request, wait, valid)
      PROVE  W!Next
  <2>1. /\ request \in Request
        /\ ~(request.read /\ request.write)
        /\ cache_state # "IDLE" => ~request.read /\ ~request.write
    BY <1>1, RequestType DEF IInv
  <2>2. CASE cache_state = "IDLE"
    <3>1. answer' = <<>>
      BY <1>1, <2>2 DEF Clock, IInv, BurstInStep, avs_cache_readdatavalid, cache_hit
    <3>2. CASE request.read
      BY <1>1, <2>1, <2>2, <3>1, <3>2, StoreStep, AskedStep
         DEF Clock, Store, Doubt, W!Next, W!Read
    <3>3. CASE request.write
      <4>1. Asked = <<>> /\ Asked' = <<>> /\ accepted' = <<request>>
        BY <1>1, <2>1, <2>2, <3>3, AskedStep DEF Clock
      <4>2. Store' = [Store EXCEPT ![request.address] = W!Put(@, request)]
        BY <1>1, <2>2, <3>3, StoreStep DEF Merge, W!Put
      <4>3. Doubt' = Doubt
        BY <1>1, <2>2, StoreStep
      <4> QED
        BY <2>1, <3>1, <3>3, <4>1, <4>2, <4>3 DEF Store, Doubt, W!Next, W!Write
    <3>4. CASE ~request.read /\ ~request.write
      BY <1>1, <2>2, <3>1, <3>4, StoreStep, AskedStep
         DEF Clock, Store, Doubt, W!Next, W!Quiet
    <3> QED
      BY <3>2, <3>3, <3>4
  <2>3. CASE cache_state # "IDLE" /\ avs_cache_readdatavalid(valid)
    <3>1. Store[last.address] = Stored(last.address)
      BY <1>1, <2>3, AnswerStep DEF Store
    <3>2. accepted' = <<>>
      BY <1>1, <2>1, <2>3 DEF Clock
    <3>3. /\ Asked = <<last.address>> /\ Asked' = <<>> /\ answer' # <<>>
          /\ last.address \in Doubt \/ answer' = <<Store[last.address]>>
      BY <1>1, <2>3, <3>1, AskedStep, AnswerStep DEF Doubt
    <3>4. Store' = Store /\ Doubt' \subseteq Doubt
      BY <1>1, <2>3, StoreStep
    <3> QED
      BY <3>2, <3>3, <3>4 DEF Store, Doubt, W!Next, W!Answer
  <2>4. CASE cache_state # "IDLE" /\ ~avs_cache_readdatavalid(valid)
    BY <1>1, <2>1, <2>4, StoreStep, AskedStep
       DEF Clock, Store, Doubt, W!Next, W!Quiet
  <2> QED
    BY <2>2, <2>3, <2>4
<1>2. ASSUME NEW wait \in BOOLEAN, NEW valid \in BOOLEAN, Reset(wait, valid)
      PROVE  W!Next
  BY <1>2, ResetStep DEF Store, Doubt, W!Next, W!Reset
<1>3. CASE UNCHANGED vars
  BY <1>3 DEF vars, W!vars, Stored, Asked
<1> QED
  BY <1>1, <1>2, <1>3 DEF Next

\* Processor and accelerators see a memory: whether the line is there, missing
\* or half filled, a read gets the last word written, once, and a reset puts in
\* doubt only the line it interrupts (legup_dm_wt_cache.v:150-178, 270-310).
THEOREM CacheRefinesMemory == Spec => ImplementsWordMemory
BY InitInductive, StepInductive, MapsInit, MapsStep, PTL DEF Spec, ImplementsWordMemory, W!Spec
=============================================================================
