----------------------- MODULE MutexAndLatchProofs -----------------------
(***************************************************************************)
(* The mutex, and the smallest of the classes that are built on it.        *)
(*                                                                         *)
(* MutexLock, for any number of threads and conditions: holder_ is right   *)
(* whenever a thread that can read it asks, except after wait(); and       *)
(* lock() and unlock() are atomic to its clients.  CountDownLatch, which   *)
(* starts from that: for any number of threads, any programs and any       *)
(* count, zero and negative ones included.                                 *)
(*                                                                         *)
(* The two share the variables of Monitor; nothing said of one speaks of   *)
(* the variables or the constants of the other.                            *)
(***************************************************************************)
EXTENDS MutexLock, CountDownLatch, SequenceTheorems, TLAPS

----------------------------------------------------------------------------
(* MutexLock: the inductive invariant                                      *)

\* A thread whose id is in holder_ is past lock() and not yet in unlock().
HolderInside == \A t \in Threads : holder_ = t => at[t] \in {"held", "waiting", "resumed"}

MutexInv == MutexTypeOK /\ LockDiscipline /\ HolderExact /\ HolderInside

\* notify() and notifyAll() take threads out of the wait set they are called
\* on and change no other.
LEMMA NotifyShrinks ==
    ASSUME MonitorTypeOK, NEW c \in Conds,
           waiters' \in Notified(c) \cup {AllNotified(c)}
    PROVE  /\ waiters' \in [Conds -> SUBSET Threads]
           /\ \A d \in Conds : waiters'[d] \subseteq waiters[d]
BY DEF MonitorTypeOK, Notified, AllNotified

LEMMA MutexInitInv == MutexInit => MutexInv
BY ThreadsAssumption
   DEF MutexInit, MonitorInit, MutexInv, MutexTypeOK, MonitorTypeOK, LockDiscipline, HolderExact,
       HolderInside, MutexSteps

LEMMA MutexNextInv == MutexInv /\ [MutexNext]_mutexVars => MutexInv'
<1> SUFFICES ASSUME MutexInv, [MutexNext]_mutexVars PROVE MutexInv'
  OBVIOUS
<1> USE ThreadsAssumption
        DEF MutexInv, MutexTypeOK, MonitorTypeOK, LockDiscipline, HolderExact, HolderInside,
            MutexSteps, Reach, Holding
<1>1. CASE \E t \in Threads : PthreadMutexLock(t)
  BY <1>1 DEF PthreadMutexLock
<1>2. CASE \E t \in Threads : SetHolder(t)
  BY <1>2 DEF SetHolder
<1>3. CASE \E t \in Threads : ClearHolder(t)
  BY <1>3 DEF ClearHolder
<1>4. CASE \E t \in Threads : PthreadMutexUnlock(t)
  BY <1>4 DEF PthreadMutexUnlock
<1>5. CASE \E t \in Threads, c \in Conds : Wait(t, c)
  <2> PICK t \in Threads, c \in Conds : Wait(t, c)
    BY <1>5
  <2>1. /\ waiters' \in [Conds -> SUBSET Threads]
        /\ \A d \in Conds : waiters'[d] \subseteq waiters[d] \cup {t}
    BY DEF Wait, CondWait
  <2> QED
    BY <2>1 DEF Wait, CondWait
<1>6. CASE \E t \in Threads : WaitReturns(t)
  BY <1>6 DEF WaitReturns
<1>7. CASE \E t \in Threads : SpuriousWakeup(t) /\ UNCHANGED at
  <2> PICK t \in Threads, c \in Conds :
             /\ waiters' = [waiters EXCEPT ![c] = @ \ {t}]
             /\ UNCHANGED <<owner, holder_, at>>
    BY <1>7 DEF SpuriousWakeup
  <2>1. /\ waiters' \in [Conds -> SUBSET Threads]
        /\ \A d \in Conds : waiters'[d] \subseteq waiters[d]
    OBVIOUS
  <2> QED
    BY <2>1
<1>8. CASE \E c \in Conds : NotifyAny(c)
  <2> PICK c \in Conds : NotifyAny(c)
    BY <1>8
  <2>1. /\ waiters' \in [Conds -> SUBSET Threads]
        /\ \A d \in Conds : waiters'[d] \subseteq waiters[d]
    BY NotifyShrinks DEF NotifyAny
  <2> QED
    BY <2>1 DEF NotifyAny
<1>9. CASE UNCHANGED mutexVars
  BY <1>9 DEF mutexVars
<1> QED
  BY <1>1, <1>2, <1>3, <1>4, <1>5, <1>6, <1>7, <1>8, <1>9 DEF MutexNext

LEMMA MutexInvariance == MutexSpec => []MutexInv
BY MutexInitInv, MutexNextInv, PTL DEF MutexSpec

\* The variables of Mutex.h keep their types, and a thread never owns the
\* mutex outside the steps between lock() and unlock().
THEOREM MutexTypeCorrect == MutexSpec => []MutexTypeOK
BY MutexInvariance, PTL DEF MutexInv

THEOREM LockDisciplined == MutexSpec => []LockDiscipline
BY MutexInvariance, PTL DEF MutexInv

\* isLockedbyThisThread(), read without the mutex, is never true by mistake.
THEOREM HolderNeverLies == MutexSpec => []NeverFalselyHeld
<1>1. MutexInv => NeverFalselyHeld
  BY DEF MutexInv, HolderInside, LockDiscipline, NeverFalselyHeld
<1> QED
  BY <1>1, MutexInvariance, PTL

\* It is true of a thread that holds the mutex and has not slept.
THEOREM HolderIsExact == MutexSpec => []HolderExact
BY MutexInvariance, PTL DEF MutexInv

\* The assertion of ~MutexLock holds once every thread has left.
THEOREM DestructorAssertion == MutexSpec => []QuietWhenOut
<1>1. MutexInv => QuietWhenOut
  BY DEF MutexInv, MutexTypeOK, MonitorTypeOK, HolderInside, QuietWhenOut
<1> QED
  BY <1>1, MutexInvariance, PTL

----------------------------------------------------------------------------
(* Refinement: SetHolder is the abstract Acquire, ClearHolder the abstract *)
(* Release, and the two pthread calls are stuttering steps.                *)

\* The abstract owner is the thread between lock() and unlock(), if any.
OwnerView == /\ \A t \in Threads : Holding(t) => AbstractOwner = t
             /\ \A t \in Threads : at[t] \in {"acquired", "releasing"} => AbstractOwner = NoThread
             /\ owner = NoThread => AbstractOwner = NoThread

LEMMA OwnerViewHolds == MutexInv => OwnerView
BY DEF MutexInv, MutexTypeOK, MonitorTypeOK, LockDiscipline, Holding, AbstractOwner, OwnerView

LEMMA OwnerViewHoldsNext == MutexInv' => OwnerView'
BY OwnerViewHolds, PTL

LEMMA MutexInitRefines == MutexInit => Atomic!Init
BY DEF MutexInit, MonitorInit, Atomic!Init, Atomic!MonitorInit, AbstractOwner, AbstractAt

LEMMA MutexStepRefines == MutexInv /\ MutexInv' /\ [MutexNext]_mutexVars => [Atomic!Next]_(Atomic!vars)
<1> SUFFICES ASSUME MutexInv, MutexInv', [MutexNext]_mutexVars PROVE [Atomic!Next]_(Atomic!vars)
  OBVIOUS
<1>a. at \in [Threads -> MutexSteps] /\ at' \in [Threads -> MutexSteps]
  BY DEF MutexInv, MutexTypeOK
<1>b. OwnerView /\ OwnerView'
  BY OwnerViewHolds, OwnerViewHoldsNext
<1>c. AbstractAt \in [Threads -> {"out", "held", "waiting", "resumed"}]
  BY <1>a DEF AbstractAt, MutexSteps
<1> USE <1>a, <1>b DEF Reach, MutexSteps, Holding, OwnerView, AbstractAt
<1>1. ASSUME NEW t \in Threads, PthreadMutexLock(t) PROVE UNCHANGED Atomic!vars
  BY <1>1 DEF PthreadMutexLock, Atomic!vars
<1>2. ASSUME NEW t \in Threads, SetHolder(t) PROVE Atomic!Acquire(t)
  <2>1. AbstractOwner = NoThread /\ AbstractOwner' = t
    BY <1>2 DEF SetHolder
  <2> QED
    BY <1>2, <2>1 DEF SetHolder, Atomic!Acquire, Atomic!Move, Atomic!Lock
<1>3. ASSUME NEW t \in Threads, ClearHolder(t) PROVE Atomic!Release(t)
  <2>1. AbstractOwner' = NoThread
    BY <1>3 DEF ClearHolder
  <2> QED
    BY <1>3, <2>1 DEF ClearHolder, Atomic!Release, Atomic!Move, Atomic!Unlock
<1>4. ASSUME NEW t \in Threads, PthreadMutexUnlock(t) PROVE UNCHANGED Atomic!vars
  BY <1>4 DEF PthreadMutexUnlock, Atomic!vars
<1>5. ASSUME NEW t \in Threads, NEW c \in Conds, Wait(t, c) PROVE Atomic!Sleep(t, c)
  <2>1. AbstractOwner' = NoThread
    BY <1>5 DEF Wait, CondWait
  <2> QED
    BY <1>5, <2>1 DEF Wait, CondWait, Atomic!Sleep, Atomic!Move, Atomic!CondWait
<1>6. ASSUME NEW t \in Threads, WaitReturns(t) PROVE Atomic!Resume(t)
  <2>1. AbstractOwner = NoThread /\ AbstractOwner' = t
    BY <1>6 DEF WaitReturns
  <2> QED
    BY <1>6, <2>1 DEF WaitReturns, Atomic!Resume, Atomic!Move
<1>7. ASSUME NEW t \in Threads, SpuriousWakeup(t), UNCHANGED at
      PROVE  Atomic!SpuriousWakeup(t) /\ UNCHANGED AbstractAt
  BY <1>7 DEF SpuriousWakeup, Atomic!SpuriousWakeup, AbstractOwner
<1>8. ASSUME NEW c \in Conds, NotifyAny(c) PROVE Atomic!Notify(c)
  BY <1>8 DEF NotifyAny, Atomic!Notify, Notified, AllNotified, Atomic!Notified,
              Atomic!AllNotified, AbstractOwner
<1>9. ASSUME UNCHANGED mutexVars PROVE UNCHANGED Atomic!vars
  BY <1>9 DEF mutexVars, Atomic!vars, AbstractOwner
<1> QED
  BY <1>1, <1>2, <1>3, <1>4, <1>5, <1>6, <1>7, <1>8, <1>9 DEF MutexNext, Atomic!Next

\* lock() and unlock(), each made of a pthread call and an assignment, are
\* atomic to the clients of the class: the view that the modules of the
\* latch, the queues and the pool start from.
THEOREM LockIsAtomic == MutexSpec => ImplementsMonitor
BY MutexInvariance, MutexInitRefines, MutexStepRefines, PTL DEF MutexSpec, ImplementsMonitor, Atomic!Spec


----------------------------------------------------------------------------
(* CountDownLatch: the inductive invariant.  CountExact needs to know that *)
(* what a thread read in countDown() is still the value of count_ when it  *)
(* writes, which the mutex gives; NoSleeperLeft has to be sharpened, for a *)
(* countDown() that takes the counter below zero does not notify.          *)

LatchDiscipline ==
    /\ \A t \in Threads : owner = t <=> pc[t] \in LockedSteps
    /\ \A t \in waiters["condition_"] : pc[t] = "waitBlocked"

ReadFresh == \A t \in Threads : pc[t] = "countWrite" => read[t] = count_

SleepJustified == \A t \in Threads : pc[t] = "waitSleep" => count_ > 0

SleepersServed ==
    waiters["condition_"] # {} =>
        count_ > 0 \/ (count_ = 0 /\ \E t \in Threads : pc[t] = "countNotify")

LatchInv == /\ TypeOK /\ LatchDiscipline /\ ReadFresh /\ SleepJustified
        /\ CountExact /\ SleepersServed

\* What a call of the program can be.
LEMMA ProgramCalls ==
    ASSUME NEW t \in Threads, NEW i \in DOMAIN Program[t]
    PROVE  Program[t][i] \in {"wait", "countDown", "getCount"}
BY ProgramAssumption, ElementOfSeq, LenProperties

LEMMA LatchInitInv == Init => LatchInv
BY ThreadsAssumption, CondsAssumption, CountAssumption
   DEF Init, MonitorInit, LatchInv, TypeOK, MonitorTypeOK, LatchDiscipline, ReadFresh,
       SleepJustified, CountExact, SleepersServed, Steps, LockedSteps

LEMMA LatchNextInv == LatchInv /\ [Next]_vars => LatchInv'
<1> SUFFICES ASSUME LatchInv, [Next]_vars PROVE LatchInv'
  OBVIOUS
<1>a. MonitorTypeOK
  BY DEF LatchInv, TypeOK
<1> USE ThreadsAssumption, CondsAssumption, CountAssumption
        DEF LatchInv, TypeOK, LatchDiscipline, ReadFresh, SleepJustified, CountExact,
            SleepersServed, Steps, WaitSteps, CountSteps, LockedSteps, Goto
<1>1. ASSUME NEW t \in Threads, Enter(t) PROVE LatchInv'
  <2>1. Program[t][next[t]] \in {"wait", "countDown", "getCount"}
    BY <1>1, ProgramCalls DEF Enter
  <2>2. PICK s \in {"waitTest", "countRead", "leave"} : pc' = [pc EXCEPT ![t] = s]
    BY <1>1, <2>1 DEF Enter
  <2>3. /\ pc[t] = "idle" /\ Lock(t)
        /\ UNCHANGED <<waiters, count_, next, read, counted, passed>>
    BY <1>1 DEF Enter
  <2> QED
    BY <2>2, <2>3 DEF Lock, MonitorTypeOK
<1>2. ASSUME NEW t \in Threads, Leave(t) PROVE LatchInv'
  BY <1>2 DEF Leave, Unlock, MonitorTypeOK
<1>3. ASSUME NEW t \in Threads, WaitTest(t) PROVE LatchInv'
  <2>1. CASE count_ > 0
    BY <1>3, <2>1 DEF WaitTest, monitorVars, MonitorTypeOK
  <2>2. CASE ~(count_ > 0)
    BY <1>3, <2>2 DEF WaitTest, monitorVars, MonitorTypeOK
  <2> QED
    BY <2>1, <2>2
<1>4. ASSUME NEW t \in Threads, WaitSleep(t) PROVE LatchInv'
  <2>1. waiters'["condition_"] = waiters["condition_"] \cup {t} /\ MonitorTypeOK'
    BY <1>4, <1>a DEF WaitSleep, CondWait, MonitorTypeOK
  <2> QED
    BY <1>4, <2>1 DEF WaitSleep, CondWait
<1>5. ASSUME NEW t \in Threads, WaitResume(t) PROVE LatchInv'
  BY <1>5 DEF WaitResume, CondResume, MonitorTypeOK
<1>6. ASSUME NEW t \in Threads, CountRead(t) PROVE LatchInv'
  BY <1>6 DEF CountRead, monitorVars, MonitorTypeOK
<1>7. ASSUME NEW t \in Threads, CountWrite(t) PROVE LatchInv'
  BY <1>7 DEF CountWrite, monitorVars, MonitorTypeOK
<1>8. ASSUME NEW t \in Threads, CountNotify(t) PROVE LatchInv'
  <2>1. CASE count_ = 0
    BY <1>8, <2>1 DEF CountNotify, AllNotified, MonitorTypeOK
  <2>2. CASE count_ # 0
    BY <1>8, <2>2 DEF CountNotify, MonitorTypeOK
  <2> QED
    BY <2>1, <2>2
<1>9. ASSUME Spurious PROVE LatchInv'
  <2>1. /\ waiters' \in [Conds -> SUBSET Threads]
        /\ waiters'["condition_"] \subseteq waiters["condition_"]
        /\ owner' = owner /\ holder_' = holder_
    BY <1>9, <1>a DEF Spurious, SpuriousWakeup, MonitorTypeOK
  <2> QED
    BY <1>9, <2>1 DEF Spurious, MonitorTypeOK
<1>10. ASSUME UNCHANGED vars PROVE LatchInv'
  BY <1>10 DEF vars, MonitorTypeOK
<1> QED
  BY <1>1, <1>2, <1>3, <1>4, <1>5, <1>6, <1>7, <1>8, <1>9, <1>10 DEF Next, Step, Finished

LEMMA LatchInvariance == Spec => []LatchInv
BY LatchInitInv, LatchNextInv, PTL DEF Spec

----------------------------------------------------------------------------
(* The theorems *)

\* The variables of the latch keep their types.
THEOREM LatchTypeCorrect == Spec => []TypeOK
BY LatchInvariance, PTL DEF LatchInv

\* No countDown() is lost.
THEOREM NoCountLost == Spec => []CountExact
BY LatchInvariance, PTL DEF LatchInv

\* The one notifyAll(), at the moment the counter meets zero, is enough:
\* nobody is left asleep behind it.
THEOREM NobodyLeftAsleep == Spec => []NoSleeperLeft
<1>1. LatchInv => NoSleeperLeft
  BY DEF LatchInv, SleepersServed, NoSleeperLeft
<1> QED
  BY <1>1, LatchInvariance, PTL

LEMMA LatchInitRefines == Init => Latch!LatchInit
BY DEF Init, Latch!LatchInit

LEMMA LatchStepRefines == LatchInv /\ [Next]_vars => [Latch!LatchNext]_(Latch!latchVars)
<1> SUFFICES ASSUME LatchInv, [Next]_vars PROVE [Latch!LatchNext]_(Latch!latchVars)
  OBVIOUS
<1>1. ASSUME NEW t \in Threads, WaitTest(t) PROVE Latch!Pass(t) \/ UNCHANGED Latch!latchVars
  BY <1>1, CountAssumption
     DEF WaitTest, LatchInv, TypeOK, CountExact, Latch!Pass, Latch!latchVars
<1>2. ASSUME NEW t \in Threads, CountWrite(t) PROVE Latch!CountDown
  BY <1>2 DEF CountWrite, Latch!CountDown
<1>3. ASSUME UNCHANGED <<counted, passed>> PROVE UNCHANGED Latch!latchVars
  BY <1>3 DEF Latch!latchVars
<1> QED
  BY <1>1, <1>2, <1>3
     DEF Next, Step, Enter, Leave, WaitSleep, WaitResume, CountRead, CountNotify, Spurious,
         Finished, vars, Latch!LatchNext

\* The latch opens with the Count-th countDown(), not earlier, and stays
\* open.
THEOREM LatchRefines == Spec => ImplementsLatch
BY LatchInvariance, LatchInitRefines, LatchStepRefines, PTL DEF Spec, ImplementsLatch, Latch!LatchSpec

=============================================================================
