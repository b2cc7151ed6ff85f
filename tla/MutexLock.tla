----------------------------- MODULE MutexLock -----------------------------
(***************************************************************************)
(* Mutex.h and Condition.h statement by statement.  MutexLock keeps the id *)
(* of the thread that holds it in a plain integer, holder_, written next   *)
(* to the pthread calls: lock() sets it after pthread_mutex_lock, unlock() *)
(* clears it before pthread_mutex_unlock, and Condition::wait releases and *)
(* retakes the mutex without either.  isLockedbyThisThread() reads it      *)
(* without the mutex.                                                      *)
(*                                                                         *)
(* Every thread locks and unlocks, and while it holds the mutex waits and  *)
(* notifies, in any order and without end.                                 *)
(***************************************************************************)
EXTENDS Monitor

VARIABLE at          \* the statement each thread has reached

mutexVars == <<owner, holder_, waiters, at>>

\* out        outside, holding nothing
\* acquired   in lock(), pthread_mutex_lock has returned
\* held       lock() has returned
\* waiting    in Condition::wait()
\* resumed    wait() has returned
\* releasing  in unlock(), holder_ cleared
MutexSteps == {"out", "acquired", "held", "waiting", "resumed", "releasing"}

\* The thread is between lock() and unlock() and not asleep.
Holding(t) == at[t] \in {"held", "resumed"}

MutexInit == MonitorInit /\ at = [t \in Threads |-> "out"]

Reach(t, step) == at' = [at EXCEPT ![t] = step]

----------------------------------------------------------------------------
(* void lock() *)

\* Faulty: pthread_mutex_trylock, its result ignored.
PthreadMutexTryLock(t) == /\ at[t] = "out"
                          /\ owner' = IF owner = NoThread THEN t ELSE owner
                          /\ Reach(t, "acquired")
                          /\ UNCHANGED <<holder_, waiters>>

PthreadMutexLock(t) == /\ at[t] = "out"
                       /\ owner = NoThread
                       /\ owner' = t
                       /\ Reach(t, "acquired")
                       /\ UNCHANGED <<holder_, waiters>>

SetHolder(t) == /\ at[t] = "acquired"
                /\ holder_' = t
                /\ Reach(t, "held")
                /\ UNCHANGED <<owner, waiters>>

----------------------------------------------------------------------------
(* void unlock() *)

\* Faulty: the two statements swapped, the mutex is released first.
UnlockFirst(t) == /\ Holding(t)
                  /\ owner' = NoThread
                  /\ Reach(t, "releasing")
                  /\ UNCHANGED <<holder_, waiters>>

\* Faulty: holder_ is not cleared.
ClearHolderForgotten(t) == /\ Holding(t)
                           /\ Reach(t, "releasing")
                           /\ UNCHANGED monitorVars

ClearHolder(t) == /\ Holding(t)
                  /\ holder_' = NoThread
                  /\ Reach(t, "releasing")
                  /\ UNCHANGED <<owner, waiters>>

PthreadMutexUnlock(t) == /\ at[t] = "releasing"
                         /\ owner' = NoThread
                         /\ Reach(t, "out")
                         /\ UNCHANGED <<holder_, waiters>>

----------------------------------------------------------------------------
(* Condition *)

Wait(t, c) == /\ Holding(t)
              /\ CondWait(t, c)
              /\ Reach(t, "waiting")

WaitReturns(t) == /\ at[t] = "waiting"
                  /\ \A c \in Conds : t \notin waiters[c]
                  /\ owner = NoThread
                  /\ owner' = t
                  /\ Reach(t, "resumed")
                  /\ UNCHANGED <<holder_, waiters>>

\* notify() and notifyAll(); the classes of muduo/base call them with the
\* mutex held, pthread does not ask for it.
NotifyAny(c) == /\ waiters' \in Notified(c) \cup {AllNotified(c)}
                /\ UNCHANGED <<owner, holder_, at>>

----------------------------------------------------------------------------
(* The specification *)

MutexNext == \/ \E t \in Threads : \/ PthreadMutexLock(t) \/ SetHolder(t)
                                   \/ ClearHolder(t) \/ PthreadMutexUnlock(t)
                                   \/ \E c \in Conds : Wait(t, c)
                                   \/ WaitReturns(t)
                                   \/ SpuriousWakeup(t) /\ UNCHANGED at
             \/ \E c \in Conds : NotifyAny(c)

MutexSpec == MutexInit /\ [][MutexNext]_mutexVars

----------------------------------------------------------------------------
(* Properties *)

MutexTypeOK == MonitorTypeOK /\ at \in [Threads -> MutexSteps]

\* The mutex belongs to exactly the thread that is between the return of
\* pthread_mutex_lock and the call of pthread_mutex_unlock, and only a
\* thread in wait() is in a wait set.
LockDiscipline ==
    /\ \A t \in Threads : owner = t <=> at[t] \notin {"out", "waiting"}
    /\ \A t \in Threads, c \in Conds : t \in waiters[c] => at[t] = "waiting"

\* isLockedbyThisThread() is never true of a thread that does not hold the
\* mutex, although it reads holder_ while others write it: a thread that
\* can ask and finds its own id there owns the mutex.
NeverFalselyHeld == \A t \in Threads : holder_ = t /\ at[t] # "waiting" => owner = t

\* A thread that has not slept since it called lock() finds its own id in
\* holder_: nobody writes it until this thread calls unlock().
HolderExact == \A t \in Threads : at[t] = "held" => holder_ = t

\* `assert(holder_ == 0)' of the destructor: once every thread has left,
\* whatever it did in between, holder_ is clear.
QuietWhenOut == (\A t \in Threads : at[t] = "out") => holder_ = NoThread

\* lock() takes effect when it sets holder_ and unlock() when it clears it;
\* between the pthread call and that statement the mutex looks free and the
\* thread outside.
AbstractOwner == IF \E t \in Threads : at[t] \in {"acquired", "releasing"}
                 THEN NoThread ELSE owner

AbstractAt == [t \in Threads |->
                 IF at[t] \in {"acquired", "releasing"} THEN "out" ELSE at[t]]

Atomic == INSTANCE AtomicMonitor WITH owner <- AbstractOwner, pc <- AbstractAt

\* The two statements of lock() and of unlock() look like one step each to
\* the clients of the class, wherever other threads run in between.
ImplementsMonitor == Atomic!Spec

=============================================================================
