---------------------------- MODULE WordMemory ----------------------------
(***************************************************************************)
(* What a cache promises the processor and the accelerators in front of it: *)
(* a memory of words that serves one request at a time; a read is answered  *)
(* once, with what was last written there.  A reset forgets the read in     *)
(* progress, may lose the write in progress, and leaves in doubt the        *)
(* answers of one block of addresses, until that block recovers.            *)
(***************************************************************************)
CONSTANTS Address, Lanes, Bytes,
          Block(_)  \* the addresses that share their fate with an address

Word == [Lanes -> Bytes]

VARIABLES store,     \* the word at each address
          accepted,  \* the request accepted at the last clock edge: <<>> or <<request>>
          asked,     \* the address of the read in progress: <<>> or <<address>>
          answer,    \* what the last clock edge answered: <<>> or <<word>>
          doubt      \* the addresses whose answers a reset spoiled

vars == <<store, accepted, asked, answer, doubt>>

Init ==
    /\ store \in [Address -> Word]
    /\ accepted = <<>> /\ asked = <<>> /\ answer = <<>>
    /\ doubt = {}

\* The enabled bytes of a write replace those of the stored word.
Put(word, request) ==
    [b \in Lanes |-> IF b \in request.byteenable THEN request.writedata[b] ELSE word[b]]

Read ==
    /\ asked = <<>> /\ answer' = <<>>
    /\ accepted' # <<>> /\ accepted'[1].read /\ ~accepted'[1].write
    /\ asked' = <<accepted'[1].address>>
    /\ UNCHANGED <<store, doubt>>

Write ==
    /\ asked = <<>> /\ asked' = <<>> /\ answer' = <<>>
    /\ accepted' # <<>> /\ accepted'[1].write /\ ~accepted'[1].read
    /\ store' = [store EXCEPT ![accepted'[1].address] = Put(@, accepted'[1])]
    /\ UNCHANGED doubt

Answer ==
    /\ asked # <<>> /\ asked' = <<>> /\ accepted' = <<>>
    /\ answer' # <<>>
    /\ asked[1] \in doubt \/ answer' = <<store[asked[1]]>>
    /\ doubt' \subseteq doubt
    /\ UNCHANGED store

Quiet ==
    /\ accepted' = <<>> /\ answer' = <<>>
    /\ doubt' \subseteq doubt
    /\ UNCHANGED <<store, asked>>

Reset(a) ==
    /\ accepted' = <<>> /\ asked' = <<>> /\ answer' = <<>>
    /\ store' = [store EXCEPT ![a] = store'[a]]
    /\ doubt' \subseteq doubt \cup Block(a)

Next == Quiet \/ Answer \/ Read \/ Write \/ \E a \in Address : Reset(a)

Spec == Init /\ [][Next]_vars
=============================================================================
