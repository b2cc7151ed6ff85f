------------------------------ MODULE Monitor ------------------------------
(***************************************************************************)
(* MutexLock (Mutex.h) and Condition (Condition.h) as every class of       *)
(* muduo/base uses them: one mutex and the conditions bound to it.         *)
(*                                                                         *)
(* The operators below are the calls those classes make; the modules of    *)
(* the classes EXTEND this one and add their own state.  lock() and        *)
(* unlock() are single steps here; module MutexLock takes them apart into  *)
(* their statements and shows that the single steps are what clients see.  *)
(***************************************************************************)
EXTENDS Integers, FiniteSets

CONSTANTS Threads,   \* the threads that may use the object
          Conds,     \* its condition variables
          NoThread   \* holder_ == 0, or a mutex nobody owns

ASSUME ThreadsAssumption == /\ IsFiniteSet(Threads)
                            /\ NoThread \notin Threads

VARIABLES owner,     \* owner of mutex_, as pthread sees it
          holder_,   \* the thread id MutexLock keeps beside it
          waiters    \* waiters[c]: the threads asleep in c.wait()

monitorVars == <<owner, holder_, waiters>>

MonitorTypeOK == /\ owner \in Threads \cup {NoThread}
                 /\ holder_ \in Threads \cup {NoThread}
                 /\ waiters \in [Conds -> SUBSET Threads]

MonitorInit == /\ owner = NoThread
               /\ holder_ = NoThread
               /\ waiters = [c \in Conds |-> {}]

----------------------------------------------------------------------------
(* MutexLock *)

\* Faulty: lock() does not wait for the mutex.
LockUnguarded(t) == /\ owner' = t
                    /\ holder_' = t

Lock(t) == /\ owner = NoThread
           /\ owner' = t
           /\ holder_' = t

Unlock == /\ owner' = NoThread
          /\ holder_' = NoThread

----------------------------------------------------------------------------
(* Condition.  wait() hands the bare pthread mutex to pthread_cond_wait,   *)
(* so the mutex is released and taken back behind MutexLock's back:        *)
(* holder_ is not touched.                                                 *)

CondWait(t, c) == /\ owner' = NoThread
                  /\ waiters' = [waiters EXCEPT ![c] = @ \cup {t}]
                  /\ UNCHANGED holder_

\* The end of wait(): t is no longer asleep and the mutex is free again.
CondResume(t, c) == /\ t \notin waiters[c]
                    /\ owner = NoThread
                    /\ owner' = t
                    /\ UNCHANGED <<holder_, waiters>>

\* The wait sets that notify() can leave: one waiter less, if there is one.
Notified(c) == IF waiters[c] = {}
               THEN {waiters}
               ELSE {[waiters EXCEPT ![c] = @ \ {t}] : t \in waiters[c]}

AllNotified(c) == [waiters EXCEPT ![c] = {}]

\* pthread_cond_wait may return although nobody notified (and
\* pthread_cond_signal may wake more than one waiter).
SpuriousWakeup(t) ==
    /\ \E c \in Conds : /\ t \in waiters[c]
                        /\ waiters' = [waiters EXCEPT ![c] = @ \ {t}]
    /\ UNCHANGED <<owner, holder_>>

=============================================================================
