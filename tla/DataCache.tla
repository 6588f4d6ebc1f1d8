----------------------------- MODULE DataCache -----------------------------
(***************************************************************************)
(* legup_dm_wt_cache, the direct mapped write through cache between the     *)
(* processor and the accelerators on one side and the off chip memory on    *)
(* the other.  One step is one clock edge.  The requester and the memory    *)
(* are external: the requester drives any legal request, the memory makes   *)
(* the cache wait and delays the words of a burst as it likes.              *)
(***************************************************************************)
EXTENDS Naturals

CONSTANTS
    NumTags,      \* 2^(TW-1) in the code: blocks of memory per cache line
    CACHE_LINES,
    BLOCK_SIZE,   \* words of a line
    Lanes,        \* the bytes of a word, one byte enable each
    Bytes

ASSUME CacheSizes ==
    /\ NumTags \in Nat \ {0} /\ CACHE_LINES \in Nat \ {0} /\ BLOCK_SIZE \in Nat \ {0}
    /\ 0 \in Bytes

Tags == 0 .. NumTags - 1
Indexes == 0 .. CACHE_LINES - 1
Blocks == 0 .. BLOCK_SIZE - 1
Address == [tag : Tags, index : Indexes, block : Blocks]
Word == [Lanes -> Bytes]
ZeroWord == [b \in Lanes |-> 0]

\* What the requester drives in a cycle, and what the cache latches of it.
Request == [read : BOOLEAN, write : BOOLEAN, address : Address,
            byteenable : SUBSET Lanes, writedata : Word]
Latched == [address : Address, byteenable : SUBSET Lanes, writedata : Word]

VARIABLES
    cache_state,
    last,             \* last_avs_address, last_avs_byteenable, last_avs_writedata
    read_word_count,
    tag_memory,       \* per line: valid bit and tag
    data_memory,      \* per line: its words
    port_a,           \* port_a_tag_out and port_a_data_out, registered in the RAMs
    memory,           \* the off chip memory
    burst,            \* its burst in progress: words owed, and of which block
    accepted,         \* the request accepted at the last edge: <<>> or <<request>>
    answer,           \* what the requester sampled at the last edge: <<>> or <<word>>
    cut               \* history: the lines that a reset interrupted

vars == <<cache_state, last, read_word_count, tag_memory, data_memory, port_a,
          memory, burst, accepted, answer, cut>>

States == {"IDLE", "ISSUE_WRITE_CHECK_HIT", "ISSUE_WRITE_WAIT", "CHECK_HIT",
           "BEGIN_BURST", "ISSUE_READ", "WAIT_FOR_DATA"}
Writing == {"ISSUE_WRITE_CHECK_HIT", "ISSUE_WRITE_WAIT"}

NoBurst == [owed |-> 0, tag |-> 0, index |-> 0, byteenable |-> {}]
ResetLatch == [address |-> [tag |-> 0, index |-> 0, block |-> 0],
               byteenable |-> {}, writedata |-> ZeroWord]

PortUnread == [tag |-> [valid |-> FALSE, tag |-> 0], data |-> ZeroWord]

\* The word with the enabled bytes of the request written over it.
Merge(word, request) ==
    [b \in Lanes |-> IF b \in request.byteenable THEN request.writedata[b] ELSE word[b]]

\* Faulty: the valid bit is not looked at.
TagMatchesInvalid == port_a.tag.tag = last.address.tag

\* The comparison of the tag RAM's registered output with the latched address.
TagMatches == port_a.tag.valid /\ port_a.tag.tag = last.address.tag

cache_hit_write == cache_state = "ISSUE_WRITE_CHECK_HIT" /\ TagMatches
cache_hit == cache_state = "CHECK_HIT" /\ TagMatches
cache_miss == cache_state = "CHECK_HIT" /\ ~cache_hit

cache_hit_writedata == Merge(port_a.data, last)

avm_cache_read == cache_state \in {"BEGIN_BURST", "ISSUE_READ"}
avm_cache_write == cache_state \in Writing

\* The word of the burst that the memory delivers next.  It fills only the
\* bytes that the request enabled.
avm_cache_readdata ==
    LET a == [tag |-> burst.tag, index |-> burst.index,
              block |-> (BLOCK_SIZE - burst.owed) % BLOCK_SIZE]
    IN  [b \in Lanes |-> IF b \in burst.byteenable THEN memory[a][b] ELSE 0]

\* Faulty: the cache accepts the next request with the requested word, while
\* the rest of the burst is still on its way.
LastWordEarly(valid) == valid /\ read_word_count = last.address.block

\* Faulty: it waits for one more word, a count that the counter never shows.
LastWordLate(valid) == valid /\ read_word_count = BLOCK_SIZE

\* The last word of the burst is arriving.
LastWord(valid) == valid /\ read_word_count = BLOCK_SIZE - 1

NextState(request, wait, valid) ==
    CASE cache_state = "IDLE" /\ request.write -> "ISSUE_WRITE_CHECK_HIT"
      [] cache_state \in Writing /\ ~wait -> "IDLE"
      [] cache_state = "ISSUE_WRITE_CHECK_HIT" /\ wait -> "ISSUE_WRITE_WAIT"
      [] cache_state = "IDLE" /\ ~request.write /\ request.read -> "CHECK_HIT"
      [] cache_hit -> "IDLE"
      [] cache_miss -> "BEGIN_BURST"
      [] avm_cache_read /\ ~wait -> "WAIT_FOR_DATA"
      [] cache_state = "BEGIN_BURST" /\ wait -> "ISSUE_READ"
      [] cache_state = "WAIT_FOR_DATA" /\ LastWord(valid) -> "IDLE"
      [] OTHER -> cache_state

\* The address and data of the request are held from the cycle it is accepted.
\* A read enables every byte, so that a burst fills whole words.
Latch(request) ==
    IF cache_state = "IDLE"
    THEN [address |-> request.address,
          byteenable |-> IF request.read THEN Lanes ELSE request.byteenable,
          writedata |-> request.writedata]
    ELSE last

CountWords(valid) ==
    IF cache_state # "WAIT_FOR_DATA" THEN 0
    ELSE IF valid THEN (read_word_count + 1) % BLOCK_SIZE ELSE read_word_count

\* Faulty: a write that misses takes the line without filling it.
TagRamAllocating(valid) ==
    IF valid \/ cache_state = "ISSUE_WRITE_CHECK_HIT"
    THEN [tag_memory EXCEPT ![last.address.index] =
             [valid |-> TRUE, tag |-> last.address.tag]]
    ELSE tag_memory

\* Port b of the tag RAM: the line becomes valid with the first word of a burst.
TagRam(valid) ==
    IF valid
    THEN [tag_memory EXCEPT ![last.address.index] =
             [valid |-> TRUE, tag |-> last.address.tag]]
    ELSE tag_memory

\* Port b of the data RAM takes the words of the burst, port a the write that hits.
DataRam(valid) ==
    IF valid
    THEN [data_memory EXCEPT ![last.address.index][read_word_count] = avm_cache_readdata]
    ELSE IF cache_hit_write
    THEN [data_memory EXCEPT ![last.address.index][last.address.block] = cache_hit_writedata]
    ELSE data_memory

\* Port a of the RAMs registers what it reads.  Only what it reads for a
\* request in the idle state is looked at, and only in the next cycle.
PortA(request) ==
    IF cache_state = "IDLE" /\ (request.read \/ request.write)
    THEN [tag  |-> tag_memory[request.address.index],
          data |-> data_memory[request.address.index][request.address.block]]
    ELSE PortUnread

avs_cache_readdatavalid(valid) ==
    cache_hit \/ (valid /\ read_word_count = last.address.block)

avs_cache_readdata(valid) == IF valid THEN avm_cache_readdata ELSE port_a.data

\* The memory takes a write or a burst in a cycle in which it does not make
\* the cache wait, and owes the words of a burst from the next cycle on.
MemoryTakes(wait) ==
    IF avm_cache_write /\ ~wait
    THEN [memory EXCEPT ![last.address] = Merge(@, last)]
    ELSE memory

BurstAfter(wait, valid) ==
    IF avm_cache_read /\ ~wait
    THEN [owed |-> BLOCK_SIZE, tag |-> last.address.tag,
          index |-> last.address.index, byteenable |-> last.byteenable]
    ELSE IF valid THEN [burst EXCEPT !.owed = @ - 1] ELSE burst

\* What the requester may drive.  It never reads and writes at once, and a
\* write enables some byte.  An idle requester leaves its lines alone, and one
\* whose request has to wait may as well be idle: nobody looks at its lines.
IdleRequest ==
    [read |-> FALSE, write |-> FALSE, address |-> last.address,
     byteenable |-> last.byteenable, writedata |-> last.writedata]

Reads == [read : {TRUE}, write : {FALSE}, address : Address,
          byteenable : SUBSET Lanes, writedata : {ZeroWord}]

Writes == [read : {FALSE}, write : {TRUE}, address : Address,
           byteenable : (SUBSET Lanes) \ {{}}, writedata : Word]

Requests == {IdleRequest} \cup (IF cache_state = "IDLE" THEN Reads \cup Writes ELSE {})

Clock(request, wait, valid) ==
    /\ valid => burst.owed > 0
    /\ cache_state' = NextState(request, wait, valid)
    /\ last' = Latch(request)
    /\ read_word_count' = CountWords(valid)
    /\ tag_memory' = TagRam(valid)
    /\ data_memory' = DataRam(valid)
    /\ port_a' = PortA(request)
    /\ memory' = MemoryTakes(wait)
    /\ burst' = BurstAfter(wait, valid)
    /\ accepted' = IF request.read \/ request.write THEN <<request>> ELSE <<>>
    /\ answer' = IF avs_cache_readdatavalid(valid) THEN <<avs_cache_readdata(valid)>>
                 ELSE <<>>
    /\ cut' = IF cache_state = "WAIT_FOR_DATA" /\ NextState(request, wait, valid) = "IDLE"
              THEN cut \ {last.address.index} ELSE cut

\* The system's reset.  It returns the cache to the idle state, not to the one
\* that clears the tags; the RAMs have no reset and write in this cycle as in
\* any other; the memory keeps its words and forgets the burst it owes.
Reset(wait, valid) ==
    /\ valid => burst.owed > 0
    /\ cache_state' = "IDLE"
    /\ last' = ResetLatch
    /\ read_word_count' = 0
    /\ tag_memory' = TagRam(valid)
    /\ data_memory' = DataRam(valid)
    /\ port_a' = PortUnread
    /\ memory' \in {memory, MemoryTakes(wait)}
    /\ burst' = NoBurst
    /\ accepted' = <<>> /\ answer' = <<>>
    /\ cut' = IF cache_state \in Writing \cup {"WAIT_FOR_DATA"}
              THEN cut \cup {last.address.index} ELSE cut

Init ==
    /\ cache_state = "IDLE"
    /\ last = ResetLatch
    /\ read_word_count = 0
    /\ tag_memory = [i \in Indexes |-> [valid |-> FALSE, tag |-> 0]]
    /\ data_memory = [i \in Indexes |-> [b \in Blocks |-> ZeroWord]]
    /\ port_a = PortUnread
    /\ memory \in [Address -> Word]
    /\ burst = NoBurst
    /\ accepted = <<>> /\ answer = <<>>
    /\ cut = {}

Next ==
    \E wait, valid \in BOOLEAN :
       \/ \E request \in Requests : Clock(request, wait, valid)
       \/ Reset(wait, valid)

\* The memory does not make the cache wait for ever and delivers what it owes.
MemoryServes == \E request \in Requests : Clock(request, FALSE, burst.owed > 0)

Spec == Init /\ [][Next]_vars /\ WF_vars(MemoryServes)
-----------------------------------------------------------------------------
TypeOK ==
    /\ cache_state \in States
    /\ last \in Latched
    /\ read_word_count \in Blocks
    /\ tag_memory \in [Indexes -> [valid : BOOLEAN, tag : Tags]]
    /\ data_memory \in [Indexes -> [Blocks -> Word]]
    /\ port_a \in [tag : [valid : BOOLEAN, tag : Tags], data : Word]
    /\ memory \in [Address -> Word]
    /\ burst \in [owed : 0 .. BLOCK_SIZE, tag : Tags, index : Indexes,
                  byteenable : SUBSET Lanes]
    /\ accepted \in {<<>>} \cup {<<r>> : r \in Request}
    /\ answer \in {<<>>} \cup {<<w>> : w \in Word}
    /\ cut \subseteq Indexes

\* The word at an address once the write in progress has reached the memory.
Stored(a) ==
    IF cache_state \in Writing /\ a = last.address THEN Merge(memory[a], last) ELSE memory[a]

\* A line is behind the write in progress in the one cycle that looks it up.
Behind(a) == cache_state = "ISSUE_WRITE_CHECK_HIT" /\ a = last.address

\* A valid line holds what the memory holds, or will hold when the write in
\* progress arrives, except for the words of a burst still to come and for
\* a line whose burst or write a reset interrupted (lines 298-326).
ValidLinesMatchMemory ==
    \A i \in Indexes \ cut : tag_memory[i].valid =>
       \A b \in Blocks :
          LET a == [tag |-> tag_memory[i].tag, index |-> i, block |-> b]
          IN  \/ /\ cache_state = "WAIT_FOR_DATA" /\ i = last.address.index
                 /\ b >= read_word_count
              \/ data_memory[i][b] = IF Behind(a) THEN memory[a] ELSE Stored(a)

\* The words that the memory still owes are those that the cache still
\* counts: no word of a burst arrives outside the state that counts them, and
\* the cache never waits for a word that nobody owes (lines 227-235, 280-291).
BurstInStep ==
    /\ cache_state = "WAIT_FOR_DATA" =>
          /\ burst.owed = BLOCK_SIZE - read_word_count
          /\ burst.tag = last.address.tag /\ burst.index = last.address.index
          /\ burst.byteenable = Lanes
    /\ cache_state # "WAIT_FOR_DATA" => burst.owed = 0

SameLine(a) == {b \in Address : b.index = a.index}

\* The read that has been accepted and not answered.
Asked ==
    IF \/ cache_state \in {"CHECK_HIT", "BEGIN_BURST", "ISSUE_READ"}
       \/ /\ cache_state = "WAIT_FOR_DATA"
          /\ read_word_count <= last.address.block
    THEN <<last.address>> ELSE <<>>

W == INSTANCE WordMemory WITH
        Block <- SameLine,
        store <- [a \in Address |-> Stored(a)],
        asked <- Asked,
        doubt <- {a \in Address : a.index \in cut}

\* The cache and the memory behind it are a memory: each read is answered
\* once with the last word written there, whichever of hit, miss and burst
\* serves it, and only the line a reset interrupted is in doubt afterwards.
ImplementsWordMemory == W!Spec

\* Every request is finished, or forgotten by a reset: the cache comes back
\* to the state that accepts the next one (lines 250-292).
RequestsFinish == []<>(cache_state = "IDLE")
=============================================================================
