------------------------------- MODULE Mutex -------------------------------
(***************************************************************************)
(* What legup_lock and legup_unlock promise a program: a lock is free or    *)
(* has one holder; it passes from one thread to another only by becoming    *)
(* free in between; nobody gets a lock it did not ask for, and only the     *)
(* holder gives it back.                                                    *)
(***************************************************************************)
CONSTANTS Threads, Locks, NoThread  \* NoThread is not a thread

VARIABLES holder,  \* the thread that holds each lock, or NoThread
          wants    \* the threads that are trying to get each lock

vars == <<holder, wants>>

Init ==
    /\ holder = [l \in Locks |-> NoThread]
    /\ wants = [l \in Locks |-> {}]

Acquire(l) == holder[l] = NoThread /\ holder'[l] \in wants[l] /\ holder'[l] \notin wants'[l]

Release(l) == holder[l] # NoThread /\ holder'[l] = NoThread

Keep(l) == holder'[l] = holder[l] /\ wants[l] \subseteq wants'[l]

\* Several threads move in one step of the hardware, each lock changes hands
\* at most once, and a thread waits until it is given the lock.
Next ==
    /\ holder' \in [Locks -> Threads \cup {NoThread}]
    /\ wants' \in [Locks -> SUBSET Threads]
    /\ \A l \in Locks :
          /\ Acquire(l) \/ Release(l) \/ Keep(l)
          /\ wants[l] \ wants'[l] \subseteq {holder'[l]}

Spec == Init /\ [][Next]_vars
=============================================================================
