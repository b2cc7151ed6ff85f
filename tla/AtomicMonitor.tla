--------------------------- MODULE AtomicMonitor ---------------------------
(***************************************************************************)
(* What MutexLock and Condition promise the classes built on them: threads *)
(* that lock, wait, notify and unlock, each operation a single step.  It   *)
(* is the view the other modules take of the mutex, and MutexLock          *)
(* implements it.                                                          *)
(***************************************************************************)
EXTENDS Monitor

VARIABLE pc    \* "out", "held" (since lock()), "waiting" or "resumed"

vars == <<owner, holder_, waiters, pc>>

Init == MonitorInit /\ pc = [t \in Threads |-> "out"]

Move(t, from, to) == pc[t] \in from /\ pc' = [pc EXCEPT ![t] = to]

Acquire(t) == Move(t, {"out"}, "held") /\ Lock(t) /\ UNCHANGED waiters

Release(t) == Move(t, {"held", "resumed"}, "out") /\ Unlock /\ UNCHANGED waiters

Sleep(t, c) == Move(t, {"held", "resumed"}, "waiting") /\ CondWait(t, c)

Resume(t) == /\ Move(t, {"waiting"}, "resumed")
             /\ \A c \in Conds : t \notin waiters[c]
             /\ owner = NoThread
             /\ owner' = t
             /\ UNCHANGED <<holder_, waiters>>

Notify(c) == /\ waiters' \in Notified(c) \cup {AllNotified(c)}
             /\ UNCHANGED <<owner, holder_, pc>>

Next == \/ \E t \in Threads : \/ Acquire(t) \/ Release(t) \/ Resume(t)
                              \/ \E c \in Conds : Sleep(t, c)
                              \/ SpuriousWakeup(t) /\ UNCHANGED pc
        \/ \E c \in Conds : Notify(c)

Spec == Init /\ [][Next]_vars

=============================================================================
