---------------------- MODULE BoundBlockingQueueProofs ----------------------
(***************************************************************************)
(* BoundBlockingQueue for any number of threads, any programs and any      *)
(* capacity: nothing is lost or overwritten, the assertions hold, no       *)
(* wakeup is lost, and the queue implements the bounded FIFO channel.      *)
(***************************************************************************)
EXTENDS BoundBlockingQueue, SequenceTheorems, FiniteSetTheorems, TLAPS

----------------------------------------------------------------------------
(* The operators of Monitor, FIFO histories and sets of threads            *)

\* notify() wakes one of the threads asleep on c, if there is one, and
\* nobody else.
LEMMA NotifiedOne ==
    ASSUME MonitorTypeOK, NEW c \in Conds, waiters' \in Notified(c)
    PROVE  /\ waiters' \in [Conds -> SUBSET Threads]
           /\ \A d \in Conds \ {c} : waiters'[d] = waiters[d]
           /\ \/ waiters[c] = {} /\ waiters'[c] = {}
              \/ \E u \in waiters[c] : waiters'[c] = waiters[c] \ {u}
BY DEF MonitorTypeOK, Notified

\* wait() puts the caller to sleep on c and lets go of the mutex.
LEMMA CondWaitAdds ==
    ASSUME MonitorTypeOK, NEW t \in Threads, NEW c \in Conds, CondWait(t, c)
    PROVE  /\ waiters' \in [Conds -> SUBSET Threads]
           /\ \A d \in Conds \ {c} : waiters'[d] = waiters[d]
           /\ waiters'[c] = waiters[c] \cup {t}
           /\ MonitorTypeOK'
BY DEF MonitorTypeOK, CondWait

\* A spurious wakeup takes one thread out of one wait set.
LEMMA SpuriousOne ==
    ASSUME MonitorTypeOK, NEW t \in Threads, SpuriousWakeup(t)
    PROVE  /\ waiters' \in [Conds -> SUBSET Threads]
           /\ owner' = owner /\ holder_' = holder_
           /\ \E c \in Conds : /\ t \in waiters[c]
                               /\ waiters'[c] = waiters[c] \ {t}
                               /\ \A d \in Conds \ {c} : waiters'[d] = waiters[d]
BY DEF MonitorTypeOK, SpuriousWakeup

\* Appending to what was put keeps `put = taken \o queue' when the same item
\* is appended to the queue.
LEMMA FifoPush ==
    ASSUME NEW S, NEW p \in Seq(S), NEW k \in Seq(S), NEW q \in Seq(S), NEW x \in S,
           p = k \o q
    PROVE  Append(p, x) = k \o Append(q, x)
<1>1. Append(p, x) = p \o <<x>> /\ Append(q, x) = q \o <<x>>
  BY AppendIsConcat
<1>2. <<x>> \in Seq(S)
  OBVIOUS
<1> QED
  BY <1>1, <1>2, ConcatAssociative

\* So does moving the head of the queue to the end of what was taken.
LEMMA FifoPop ==
    ASSUME NEW S, NEW k \in Seq(S), NEW q \in Seq(S), q # <<>>
    PROVE  /\ k \o q = Append(k, Head(q)) \o Tail(q)
           /\ Head(q) \in S /\ Tail(q) \in Seq(S) /\ Len(Tail(q)) = Len(q) - 1
           /\ Append(k, Head(q)) \in Seq(S)
<1>1. /\ Head(q) \in S /\ Tail(q) \in Seq(S) /\ Len(Tail(q)) = Len(q) - 1
      /\ Append(k, Head(q)) \in Seq(S)
  BY HeadTailProperties, AppendProperties
<1>2. q = <<Head(q)>> \o Tail(q)
  <2>1. /\ Len(q) \in Nat /\ 1 \in 1 .. Len(q) /\ Len(q) \in 1 .. Len(q)
        /\ Head(q) = q[1]
    BY EmptySeq, LenProperties
  <2>2. SubSeq(q, 1, Len(q)) = <<q[1]>> \o SubSeq(q, 2, Len(q))
    BY <2>1, SubSeqRecursiveFirst
  <2> QED
    BY <2>1, <2>2, SubSeqFull, TailIsSubSeq
<1>3. /\ <<Head(q)>> \in Seq(S)
      /\ Append(k, Head(q)) = k \o <<Head(q)>>
  BY <1>1, AppendIsConcat
<1> QED
  BY <1>1, <1>2, <1>3, ConcatAssociative

\* Sets of threads are finite, and a set with a further thread is larger.
LEMMA ThreadCount ==
    ASSUME NEW A \in SUBSET Threads
    PROVE  /\ Cardinality(A) \in Nat
           /\ \A B \in SUBSET Threads : A \subseteq B => Cardinality(A) <= Cardinality(B)
           /\ \A u \in Threads \ A : Cardinality(A \cup {u}) = Cardinality(A) + 1
           /\ \A u \in A : Cardinality(A \ {u}) = Cardinality(A) - 1
<1>1. IsFiniteSet(A)
  BY ThreadsAssumption, FS_Subset
<1>2. ASSUME NEW B \in SUBSET Threads, A \subseteq B
      PROVE  Cardinality(A) <= Cardinality(B)
  <2>1. IsFiniteSet(B)
    BY ThreadsAssumption, FS_Subset
  <2> QED
    BY <1>2, <2>1, FS_Subset
<1> QED
  BY <1>1, <1>2, FS_CardinalityType, FS_AddElement, FS_RemoveElement

----------------------------------------------------------------------------
(* The inductive invariant.  Fifo needs AssertsHold (push_back must not    *)
(* overwrite); AssertsHold needs to know that the mutex keeps the others   *)
(* away between the test and the act (LockDiscipline); NoLostWakeup needs  *)
(* to know that what sent a thread to sleep is still true when it falls    *)
(* asleep (SleepJustified).                                                *)

LockDiscipline ==
    /\ \A t \in Threads : owner = t <=> pc[t] \in LockedSteps
    /\ \A t \in waiters["notEmpty_"] : pc[t] = "takeBlocked"
    /\ \A t \in waiters["notFull_"] : pc[t] = "putBlocked"

SleepJustified == \A t \in Threads : /\ pc[t] = "putSleep" => Full
                                     /\ pc[t] = "takeSleep" => Empty

Safe == TypeOK /\ LockDiscipline /\ AssertsHold /\ SleepJustified

IInv == Safe /\ Fifo /\ NoLostWakeup

\* What a call of the program can be.
LEMMA ProgramCalls ==
    ASSUME NEW t \in Threads, NEW i \in DOMAIN Program[t]
    PROVE  /\ Program[t][i] \in {"put", "take", "query"}
           /\ <<t, i>> \in Items
BY ProgramAssumption, ElementOfSeq, LenProperties DEF Items

----------------------------------------------------------------------------
(* Types, lock discipline, assertions and reasons to sleep *)

\* What put() does to the buffer: there is a free place, and push_back uses
\* it.
PushedOne(t) == /\ <<t, next[t]>> \in Items
                /\ queue_' = Append(queue_, <<t, next[t]>>)
                /\ queue_' \in Seq(Items)
                /\ Len(queue_) < maxSize /\ Len(queue_') = Len(queue_) + 1
                /\ putLog' = Append(putLog, <<t, next[t]>>)
                /\ putLog' \in Seq(Items)

LEMMA PushAppends ==
    ASSUME Safe, NEW t \in Threads, PutPush(t)
    PROVE  PushedOne(t)
<1>1. queue_ \in Seq(Items) /\ Len(queue_) \in Nat /\ putLog \in Seq(Items)
  BY LenProperties DEF Safe, TypeOK
<1>2. /\ <<t, next[t]>> \in Items
      /\ queue_' = Append(queue_, <<t, next[t]>>)
      /\ Len(queue_) < maxSize
  <2>1. <<t, next[t]>> \in Items
    BY ProgramCalls DEF PutPush, Safe, TypeOK
  <2>2. Len(queue_) < maxSize
    BY <1>1, MaxSizeAssumption DEF PutPush, Safe, TypeOK, AssertsHold, Full
  <2> QED
    BY <2>1, <2>2 DEF PutPush, PushBack
<1>3. putLog' = Append(putLog, <<t, next[t]>>)
  BY DEF PutPush
<1>4. queue_' \in Seq(Items) /\ Len(queue_') = Len(queue_) + 1
  BY <1>1, <1>2, AppendProperties
<1>5. putLog' \in Seq(Items)
  BY <1>1, <1>2, <1>3, AppendProperties
<1> QED
  BY <1>2, <1>3, <1>4, <1>5 DEF PushedOne

LEMMA InitSafe == Init => Safe
<1> SUFFICES ASSUME Init PROVE Safe
  OBVIOUS
<1>1. /\ MonitorTypeOK
      /\ waiters = [c \in Conds |-> {}] /\ owner = NoThread
  BY DEF Init, MonitorInit, MonitorTypeOK
<1>2. /\ <<>> \in Seq(Items) /\ Len(<<>>) = 0
  BY EmptySeq
<1> QED
  BY <1>1, <1>2, ThreadsAssumption, CondsAssumption, MaxSizeAssumption
     DEF Init, Safe, TypeOK, LockDiscipline, AssertsHold, SleepJustified, Steps, LockedSteps

\* Every action, seen from the thread that takes it: t goes from one step to
\* another, and the two agree on who owns the mutex.
LEMMA NextSafe == Safe /\ [Next]_vars => Safe'
<1> SUFFICES ASSUME Safe, [Next]_vars PROVE Safe'
  OBVIOUS
<1> USE ThreadsAssumption, CondsAssumption, MaxSizeAssumption
<1>a. /\ MonitorTypeOK /\ queue_ \in Seq(Items) /\ Len(queue_) \in Nat
      /\ putLog \in Seq(Items) /\ takeLog \in Seq(Items)
  BY LenProperties DEF Safe, TypeOK
<1>1. ASSUME NEW t \in Threads, Enter(t) PROVE Safe'
  <2>1. /\ Program[t][next[t]] \in {"put", "take", "query"}
        /\ pc[t] = "idle" /\ next[t] \in DOMAIN Program[t]
    BY <1>1, ProgramCalls DEF Enter
  <2>2. PICK s \in {"putTest", "takeTest", "leave"} : pc' = [pc EXCEPT ![t] = s]
    BY <1>1, <2>1 DEF Enter, Goto
  <2> QED
    BY <1>1, <2>1, <2>2
       DEF Enter, Lock, Safe, TypeOK, MonitorTypeOK, LockDiscipline, AssertsHold,
           SleepJustified, Steps, PutSteps, TakeSteps, LockedSteps, Full, Empty
<1>2. ASSUME NEW t \in Threads, Leave(t) PROVE Safe'
  BY <1>2 DEF Leave, Unlock, Goto, Safe, TypeOK, MonitorTypeOK, LockDiscipline, AssertsHold,
              SleepJustified, Steps, PutSteps, TakeSteps, LockedSteps, Full, Empty
<1>3. ASSUME NEW t \in Threads, PutTest(t) PROVE Safe'
  BY <1>3 DEF PutTest, monitorVars, Goto, Safe, TypeOK, MonitorTypeOK, LockDiscipline,
              AssertsHold, SleepJustified, Steps, PutSteps, TakeSteps, LockedSteps, Full, Empty
<1>4. ASSUME NEW t \in Threads, PutSleep(t) PROVE Safe'
  <2>1. /\ waiters'["notFull_"] = waiters["notFull_"] \cup {t}
        /\ waiters'["notEmpty_"] = waiters["notEmpty_"]
        /\ MonitorTypeOK'
    BY <1>4, <1>a, CondWaitAdds DEF PutSleep
  <2> QED
    BY <1>4, <2>1
       DEF PutSleep, CondWait, Goto, Safe, TypeOK, LockDiscipline, AssertsHold,
           SleepJustified, Steps, PutSteps, TakeSteps, LockedSteps, Full, Empty
<1>5. ASSUME NEW t \in Threads, PutResume(t) PROVE Safe'
  BY <1>5 DEF PutResume, CondResume, Goto, Safe, TypeOK, MonitorTypeOK, LockDiscipline,
              AssertsHold, SleepJustified, Steps, PutSteps, TakeSteps, LockedSteps, Full, Empty
<1>6. ASSUME NEW t \in Threads, PutPush(t) PROVE Safe'
  <2>1. PushedOne(t)
    BY <1>6, PushAppends
  <2>3. /\ waiters' \in [Conds -> SUBSET Threads]
        /\ \A c \in Conds : waiters'[c] \subseteq waiters[c]
    BY <1>6, <1>a, NotifiedOne DEF PutPush
  <2> QED
    BY <1>6, <2>1, <2>3
       DEF PushedOne, PutPush, Goto, Safe, TypeOK, MonitorTypeOK, LockDiscipline, AssertsHold,
           SleepJustified, Steps, PutSteps, TakeSteps, LockedSteps
<1>7. ASSUME NEW t \in Threads, TakeTest(t) PROVE Safe'
  BY <1>7 DEF TakeTest, monitorVars, Goto, Safe, TypeOK, MonitorTypeOK, LockDiscipline,
              AssertsHold, SleepJustified, Steps, PutSteps, TakeSteps, LockedSteps, Full, Empty
<1>8. ASSUME NEW t \in Threads, TakeSleep(t) PROVE Safe'
  <2>1. /\ waiters'["notEmpty_"] = waiters["notEmpty_"] \cup {t}
        /\ waiters'["notFull_"] = waiters["notFull_"]
        /\ MonitorTypeOK'
    BY <1>8, <1>a, CondWaitAdds DEF TakeSleep
  <2> QED
    BY <1>8, <2>1
       DEF TakeSleep, CondWait, Goto, Safe, TypeOK, LockDiscipline, AssertsHold,
           SleepJustified, Steps, PutSteps, TakeSteps, LockedSteps, Full, Empty
<1>9. ASSUME NEW t \in Threads, TakeResume(t) PROVE Safe'
  BY <1>9 DEF TakeResume, CondResume, Goto, Safe, TypeOK, MonitorTypeOK, LockDiscipline,
              AssertsHold, SleepJustified, Steps, PutSteps, TakeSteps, LockedSteps, Full, Empty
<1>10. ASSUME NEW t \in Threads, TakePop(t) PROVE Safe'
  <2>1. queue_ # <<>>
    BY <1>10 DEF TakePop, Safe, AssertsHold, Empty
  <2>2. /\ queue_' \in Seq(Items) /\ Len(queue_') = Len(queue_) - 1
        /\ takeLog' \in Seq(Items)
    BY <1>10, <1>a, <2>1, FifoPop DEF TakePop
  <2>3. /\ waiters' \in [Conds -> SUBSET Threads]
        /\ \A c \in Conds : waiters'[c] \subseteq waiters[c]
    BY <1>10, <1>a, NotifiedOne DEF TakePop
  <2> QED
    BY <1>10, <1>a, <2>2, <2>3
       DEF TakePop, Goto, Safe, TypeOK, MonitorTypeOK, LockDiscipline, AssertsHold,
           SleepJustified, Steps, PutSteps, TakeSteps, LockedSteps
<1>11. ASSUME Spurious PROVE Safe'
  <2>1. /\ waiters' \in [Conds -> SUBSET Threads]
        /\ \A c \in Conds : waiters'[c] \subseteq waiters[c]
        /\ owner' = owner /\ holder_' = holder_
    BY <1>11, <1>a, SpuriousOne DEF Spurious
  <2> QED
    BY <1>11, <2>1
       DEF Spurious, Safe, TypeOK, MonitorTypeOK, LockDiscipline, AssertsHold,
           SleepJustified, Full, Empty
<1>12. ASSUME UNCHANGED vars PROVE Safe'
  BY <1>12 DEF vars, Safe, TypeOK, MonitorTypeOK, LockDiscipline, AssertsHold,
               SleepJustified, Full, Empty
<1> QED
  BY <1>1, <1>2, <1>3, <1>4, <1>5, <1>6, <1>7, <1>8, <1>9, <1>10, <1>11, <1>12
     DEF Next, Step, Finished

----------------------------------------------------------------------------
(* The FIFO history *)

LEMMA NextFifo == Safe /\ Fifo /\ [Next]_vars => Fifo'
<1> SUFFICES ASSUME Safe, Fifo, [Next]_vars PROVE Fifo'
  OBVIOUS
<1>a. /\ queue_ \in Seq(Items) /\ putLog \in Seq(Items) /\ takeLog \in Seq(Items)
  BY DEF Safe, TypeOK
<1>1. ASSUME NEW t \in Threads, PutPush(t) PROVE Fifo'
  <2>1. PushedOne(t) /\ takeLog' = takeLog
    BY <1>1, PushAppends DEF PutPush
  <2>2. Append(putLog, <<t, next[t]>>) = takeLog \o Append(queue_, <<t, next[t]>>)
    <3>1. <<t, next[t]>> \in Items /\ putLog = takeLog \o queue_
      BY <2>1 DEF PushedOne, Fifo
    <3> QED
      BY <1>a, <3>1, FifoPush
  <2>3. putLog' = takeLog' \o queue_'
    BY <2>1, <2>2 DEF PushedOne
  <2> QED
    BY <2>3 DEF Fifo
<1>2. ASSUME NEW t \in Threads, TakePop(t) PROVE Fifo'
  <2>1. queue_ # <<>>
    BY <1>2 DEF TakePop, Safe, AssertsHold, Empty
  <2>2. takeLog \o queue_ = Append(takeLog, Head(queue_)) \o Tail(queue_)
    BY <1>a, <2>1, FifoPop
  <2>3. /\ putLog' = putLog
        /\ takeLog' = Append(takeLog, Head(queue_)) /\ queue_' = Tail(queue_)
    BY <1>2 DEF TakePop
  <2> QED
    BY <2>2, <2>3 DEF Fifo
<1>3. ASSUME UNCHANGED <<queue_, putLog, takeLog>> PROVE Fifo'
  BY <1>3 DEF Fifo
<1> QED
  BY <1>1, <1>2, <1>3
     DEF Next, Step, Enter, Leave, PutTest, PutSleep, PutResume, TakeTest, TakeSleep,
         TakeResume, Spurious, Finished, vars

----------------------------------------------------------------------------
(* Wakeups: the two halves of NoLostWakeup. *)

TakersEnough == waiters["notEmpty_"] # {} => Len(queue_) <= Cardinality(AwakeTakers)
PuttersEnough == waiters["notFull_"] # {} => maxSize - Len(queue_) <= Cardinality(AwakePutters)

\* A step that leaves the buffer alone, puts nobody to sleep and keeps the
\* awake takers awake preserves the first half.
LEMMA TakersCalm ==
    ASSUME TakersEnough, queue_ \in Seq(Items), queue_' = queue_,
           waiters'["notEmpty_"] # {} => waiters["notEmpty_"] # {},
           AwakeTakers \subseteq AwakeTakers'
    PROVE  TakersEnough'
<1>1. AwakeTakers \in SUBSET Threads /\ AwakeTakers' \in SUBSET Threads
  BY DEF AwakeTakers
<1>2. /\ Cardinality(AwakeTakers) <= Cardinality(AwakeTakers')
      /\ Cardinality(AwakeTakers) \in Nat /\ Cardinality(AwakeTakers') \in Nat
  BY <1>1, ThreadCount
<1>3. Len(queue_) \in Nat
  BY LenProperties
<1> QED
  BY <1>2, <1>3 DEF TakersEnough

LEMMA NextTakers == Safe /\ TakersEnough /\ [Next]_vars => TakersEnough'
<1> SUFFICES ASSUME Safe, TakersEnough, [Next]_vars PROVE TakersEnough'
  OBVIOUS
<1>a. /\ MonitorTypeOK /\ queue_ \in Seq(Items) /\ Len(queue_) \in Nat
      /\ pc \in [Threads -> Steps]
  BY LenProperties DEF Safe, TypeOK
<1>b. /\ AwakeTakers \in SUBSET Threads /\ AwakeTakers' \in SUBSET Threads
      /\ Cardinality(AwakeTakers) \in Nat /\ Cardinality(AwakeTakers') \in Nat
  <2>1. AwakeTakers \in SUBSET Threads /\ AwakeTakers' \in SUBSET Threads
    BY DEF AwakeTakers
  <2> QED
    BY <2>1, ThreadCount
<1>c. Empty /\ queue_' = queue_ => TakersEnough'
  BY <1>b, EmptySeq DEF Empty, TakersEnough
<1> USE CondsAssumption DEF Steps, PutSteps, TakeSteps, Goto
<1>1. ASSUME NEW t \in Threads, Enter(t) \/ Leave(t) \/ PutTest(t) PROVE TakersEnough'
  <2>1. /\ queue_' = queue_ /\ waiters' = waiters
        /\ pc[t] \in {"idle", "leave", "putTest"}
        /\ \A u \in Threads \ {t} : pc'[u] = pc[u]
    BY <1>a, <1>1 DEF Enter, Leave, PutTest, monitorVars
  <2>2. AwakeTakers \subseteq AwakeTakers'
    BY <2>1 DEF AwakeTakers
  <2> QED
    BY <1>a, <2>1, <2>2, TakersCalm
<1>2. ASSUME NEW t \in Threads, PutSleep(t) PROVE TakersEnough'
  <2>1. waiters'["notEmpty_"] = waiters["notEmpty_"]
    BY <1>a, <1>2, CondWaitAdds DEF PutSleep
  <2>2. AwakeTakers \subseteq AwakeTakers'
    BY <1>a, <1>2, <2>1 DEF PutSleep, AwakeTakers
  <2> QED
    BY <1>a, <1>2, <2>1, <2>2, TakersCalm DEF PutSleep
<1>3. ASSUME NEW t \in Threads, PutResume(t) \/ TakeResume(t) PROVE TakersEnough'
  <2>1. queue_' = queue_ /\ waiters' = waiters
    BY <1>3 DEF PutResume, TakeResume, CondResume
  <2>2. AwakeTakers \subseteq AwakeTakers'
    BY <1>a, <1>3, <2>1 DEF PutResume, TakeResume, CondResume, AwakeTakers
  <2> QED
    BY <1>a, <2>1, <2>2, TakersCalm
<1>4. ASSUME NEW t \in Threads, PutPush(t) PROVE TakersEnough'
  <2>2. Len(queue_') = Len(queue_) + 1
    BY <1>4, PushAppends DEF PushedOne
  <2>3. CASE waiters'["notEmpty_"] = {}
    BY <2>3 DEF TakersEnough
  <2>4. ASSUME NEW u \in waiters["notEmpty_"],
               waiters'["notEmpty_"] = waiters["notEmpty_"] \ {u}
        PROVE  TakersEnough'
    <3>1. /\ u \in Threads \ AwakeTakers /\ pc[u] = "takeBlocked" /\ u # t
          /\ waiters["notEmpty_"] # {}
      BY <1>a, <1>4, <2>4 DEF MonitorTypeOK, AwakeTakers, Safe, LockDiscipline, PutPush
    <3>2. AwakeTakers' = AwakeTakers \cup {u}
      BY <1>a, <1>4, <2>4, <3>1 DEF AwakeTakers, PutPush
    <3>3. Cardinality(AwakeTakers') = Cardinality(AwakeTakers) + 1
      BY <1>b, <3>1, <3>2, ThreadCount
    <3> QED
      BY <1>a, <1>b, <2>2, <3>1, <3>3 DEF TakersEnough
  <2> QED
    BY <1>a, <1>4, <2>3, <2>4, NotifiedOne DEF PutPush
<1>5. ASSUME NEW t \in Threads, TakeTest(t) PROVE TakersEnough'
  <2>1. CASE Empty
    BY <1>5, <1>c, <2>1 DEF TakeTest
  <2>2. CASE ~Empty
    <3>1. AwakeTakers \subseteq AwakeTakers'
      BY <1>a, <1>5, <2>2 DEF TakeTest, monitorVars, AwakeTakers
    <3> QED
      BY <1>a, <1>5, <3>1, TakersCalm DEF TakeTest, monitorVars
  <2> QED
    BY <2>1, <2>2
<1>6. ASSUME NEW t \in Threads, TakeSleep(t) PROVE TakersEnough'
  BY <1>6, <1>c DEF TakeSleep, Safe, SleepJustified
<1>7. ASSUME NEW t \in Threads, TakePop(t) PROVE TakersEnough'
  <2>1. Len(queue_') = Len(queue_) - 1
    BY <1>a, <1>7, HeadTailProperties DEF TakePop, Safe, AssertsHold, Empty
  <2>2. waiters'["notEmpty_"] = waiters["notEmpty_"]
    BY <1>a, <1>7, NotifiedOne DEF TakePop
  <2>3. t \in AwakeTakers /\ AwakeTakers' = AwakeTakers \ {t}
    BY <1>a, <1>7, <2>2 DEF TakePop, AwakeTakers, Safe, LockDiscipline
  <2>4. Cardinality(AwakeTakers') = Cardinality(AwakeTakers) - 1
    BY <1>b, <2>3, ThreadCount
  <2> QED
    BY <1>a, <1>b, <2>1, <2>2, <2>4 DEF TakersEnough
<1>8. ASSUME Spurious PROVE TakersEnough'
  <2>1. /\ waiters'["notEmpty_"] \subseteq waiters["notEmpty_"]
        /\ queue_' = queue_ /\ pc' = pc
    BY <1>a, <1>8, SpuriousOne DEF Spurious
  <2>2. AwakeTakers \subseteq AwakeTakers'
    BY <2>1 DEF AwakeTakers
  <2> QED
    BY <1>a, <2>1, <2>2, TakersCalm
<1>9. ASSUME UNCHANGED vars PROVE TakersEnough'
  BY <1>9 DEF vars, TakersEnough, AwakeTakers
<1> QED
  BY <1>1, <1>2, <1>3, <1>4, <1>5, <1>6, <1>7, <1>8, <1>9 DEF Next, Step, Finished

\* The same for the putters.
LEMMA PuttersCalm ==
    ASSUME PuttersEnough, queue_ \in Seq(Items), queue_' = queue_,
           waiters'["notFull_"] # {} => waiters["notFull_"] # {},
           AwakePutters \subseteq AwakePutters'
    PROVE  PuttersEnough'
<1>1. AwakePutters \in SUBSET Threads /\ AwakePutters' \in SUBSET Threads
  BY DEF AwakePutters
<1>2. /\ Cardinality(AwakePutters) <= Cardinality(AwakePutters')
      /\ Cardinality(AwakePutters) \in Nat /\ Cardinality(AwakePutters') \in Nat
  BY <1>1, ThreadCount
<1>3. Len(queue_) \in Nat
  BY LenProperties
<1> QED
  BY <1>2, <1>3, MaxSizeAssumption DEF PuttersEnough

LEMMA NextPutters == Safe /\ PuttersEnough /\ [Next]_vars => PuttersEnough'
<1> SUFFICES ASSUME Safe, PuttersEnough, [Next]_vars PROVE PuttersEnough'
  OBVIOUS
<1>a. /\ MonitorTypeOK /\ queue_ \in Seq(Items) /\ Len(queue_) \in Nat
      /\ pc \in [Threads -> Steps]
  BY LenProperties DEF Safe, TypeOK
<1>b. /\ AwakePutters \in SUBSET Threads /\ AwakePutters' \in SUBSET Threads
      /\ Cardinality(AwakePutters) \in Nat /\ Cardinality(AwakePutters') \in Nat
  <2>1. AwakePutters \in SUBSET Threads /\ AwakePutters' \in SUBSET Threads
    BY DEF AwakePutters
  <2> QED
    BY <2>1, ThreadCount
<1>c. Full /\ queue_' = queue_ => PuttersEnough'
  BY <1>b, MaxSizeAssumption DEF Full, PuttersEnough
<1> USE CondsAssumption DEF Steps, PutSteps, TakeSteps, Goto
<1>1. ASSUME NEW t \in Threads, Enter(t) \/ Leave(t) \/ TakeTest(t) PROVE PuttersEnough'
  <2>1. /\ queue_' = queue_ /\ waiters' = waiters
        /\ pc[t] \in {"idle", "leave", "takeTest"}
        /\ \A u \in Threads \ {t} : pc'[u] = pc[u]
    BY <1>a, <1>1 DEF Enter, Leave, TakeTest, monitorVars
  <2>2. AwakePutters \subseteq AwakePutters'
    BY <2>1 DEF AwakePutters
  <2> QED
    BY <1>a, <2>1, <2>2, PuttersCalm
<1>2. ASSUME NEW t \in Threads, TakeSleep(t) PROVE PuttersEnough'
  <2>1. waiters'["notFull_"] = waiters["notFull_"]
    BY <1>a, <1>2, CondWaitAdds DEF TakeSleep
  <2>2. AwakePutters \subseteq AwakePutters'
    BY <1>a, <1>2, <2>1 DEF TakeSleep, AwakePutters
  <2> QED
    BY <1>a, <1>2, <2>1, <2>2, PuttersCalm DEF TakeSleep
<1>3. ASSUME NEW t \in Threads, PutResume(t) \/ TakeResume(t) PROVE PuttersEnough'
  <2>1. queue_' = queue_ /\ waiters' = waiters
    BY <1>3 DEF PutResume, TakeResume, CondResume
  <2>2. AwakePutters \subseteq AwakePutters'
    BY <1>a, <1>3, <2>1 DEF PutResume, TakeResume, CondResume, AwakePutters
  <2> QED
    BY <1>a, <2>1, <2>2, PuttersCalm
<1>4. ASSUME NEW t \in Threads, TakePop(t) PROVE PuttersEnough'
  <2>1. Len(queue_') = Len(queue_) - 1
    BY <1>a, <1>4, HeadTailProperties DEF TakePop, Safe, AssertsHold, Empty
  <2>2. CASE waiters'["notFull_"] = {}
    BY <2>2 DEF PuttersEnough
  <2>3. ASSUME NEW u \in waiters["notFull_"],
               waiters'["notFull_"] = waiters["notFull_"] \ {u}
        PROVE  PuttersEnough'
    <3>1. /\ u \in Threads \ AwakePutters /\ pc[u] = "putBlocked" /\ u # t
          /\ waiters["notFull_"] # {}
      BY <1>a, <1>4, <2>3 DEF MonitorTypeOK, AwakePutters, Safe, LockDiscipline, TakePop
    <3>2. AwakePutters' = AwakePutters \cup {u}
      BY <1>a, <1>4, <2>3, <3>1 DEF AwakePutters, TakePop
    <3>3. Cardinality(AwakePutters') = Cardinality(AwakePutters) + 1
      BY <1>b, <3>1, <3>2, ThreadCount
    <3> QED
      BY <1>a, <1>b, <2>1, <3>1, <3>3, MaxSizeAssumption DEF PuttersEnough
  <2> QED
    BY <1>a, <1>4, <2>2, <2>3, NotifiedOne DEF TakePop
<1>5. ASSUME NEW t \in Threads, PutTest(t) PROVE PuttersEnough'
  <2>1. CASE Full
    BY <1>5, <1>c, <2>1 DEF PutTest
  <2>2. CASE ~Full
    <3>1. AwakePutters \subseteq AwakePutters'
      BY <1>a, <1>5, <2>2 DEF PutTest, monitorVars, AwakePutters
    <3> QED
      BY <1>a, <1>5, <3>1, PuttersCalm DEF PutTest, monitorVars
  <2> QED
    BY <2>1, <2>2
<1>6. ASSUME NEW t \in Threads, PutSleep(t) PROVE PuttersEnough'
  BY <1>6, <1>c DEF PutSleep, Safe, SleepJustified
<1>7. ASSUME NEW t \in Threads, PutPush(t) PROVE PuttersEnough'
  <2>1. Len(queue_') = Len(queue_) + 1
    BY <1>7, PushAppends DEF PushedOne
  <2>2. waiters'["notFull_"] = waiters["notFull_"]
    BY <1>a, <1>7, NotifiedOne DEF PutPush
  <2>3. t \in AwakePutters /\ AwakePutters' = AwakePutters \ {t}
    BY <1>a, <1>7, <2>2 DEF PutPush, AwakePutters, Safe, LockDiscipline
  <2>4. Cardinality(AwakePutters') = Cardinality(AwakePutters) - 1
    BY <1>b, <2>3, ThreadCount
  <2> QED
    BY <1>a, <1>b, <2>1, <2>2, <2>4, MaxSizeAssumption DEF PuttersEnough
<1>8. ASSUME Spurious PROVE PuttersEnough'
  <2>1. /\ waiters'["notFull_"] \subseteq waiters["notFull_"]
        /\ queue_' = queue_ /\ pc' = pc
    BY <1>a, <1>8, SpuriousOne DEF Spurious
  <2>2. AwakePutters \subseteq AwakePutters'
    BY <2>1 DEF AwakePutters
  <2> QED
    BY <1>a, <2>1, <2>2, PuttersCalm
<1>9. ASSUME UNCHANGED vars PROVE PuttersEnough'
  BY <1>9 DEF vars, PuttersEnough, AwakePutters
<1> QED
  BY <1>1, <1>2, <1>3, <1>4, <1>5, <1>6, <1>7, <1>8, <1>9 DEF Next, Step, Finished

----------------------------------------------------------------------------
(* The theorems *)

LEMMA InitIInv == Init => IInv
<1> SUFFICES ASSUME Init PROVE IInv
  OBVIOUS
<1>1. Safe
  BY InitSafe
<1>2. Fifo
  <2>1. <<>> = <<>> \o <<>>
    BY EmptySeq, ConcatEmptySeq
  <2> QED
    BY <2>1 DEF Init, Fifo
<1>3. NoLostWakeup
  BY CondsAssumption DEF Init, MonitorInit, NoLostWakeup
<1> QED
  BY <1>1, <1>2, <1>3 DEF IInv

LEMMA NextIInv == IInv /\ [Next]_vars => IInv'
<1>1. NoLostWakeup <=> TakersEnough /\ PuttersEnough
  BY DEF NoLostWakeup, TakersEnough, PuttersEnough
<1>2. NoLostWakeup' <=> TakersEnough' /\ PuttersEnough'
  BY DEF NoLostWakeup, TakersEnough, PuttersEnough
<1> QED
  BY <1>1, <1>2, NextSafe, NextFifo, NextTakers, NextPutters DEF IInv

LEMMA Invariance == Spec => []IInv
BY InitIInv, NextIInv, PTL DEF Spec

\* The types of the class, the capacity bound included: the buffer never
\* holds more than maxSize items.
THEOREM TypeCorrect == Spec => []TypeOK
BY Invariance, PTL DEF IInv, Safe

\* put() and take() never trip over the assertions that follow their wait
\* loops.
THEOREM AssertionsHold == Spec => []AssertsHold
BY Invariance, PTL DEF IInv, Safe

\* What was put is what was taken and then the buffer, in order.
THEOREM NothingLost == Spec => []Fifo
BY Invariance, PTL DEF IInv

\* notify() to a single thread is enough: no thread sleeps while there is
\* more for its kind to do than awake threads to do it.
THEOREM WakeupsSuffice == Spec => []NoLostWakeup
BY Invariance, PTL DEF IInv

LEMMA InitRefines == Init => Channel!ChannelInit
BY DEF Init, Channel!ChannelInit

LEMMA StepRefines == IInv /\ [Next]_vars => [Channel!ChannelNext]_(Channel!channelVars)
<1> SUFFICES ASSUME IInv, [Next]_vars PROVE [Channel!ChannelNext]_(Channel!channelVars)
  OBVIOUS
<1>a. /\ queue_ \in Seq(Items) /\ putLog \in Seq(Items) /\ takeLog \in Seq(Items)
      /\ Len(queue_) \in Nat /\ Len(putLog) \in Nat /\ Len(takeLog) \in Nat
  BY LenProperties DEF IInv, Safe, TypeOK
<1>b. putLog = takeLog \o queue_
  BY DEF IInv, Fifo
<1>c. Channel!InTransit = Len(queue_)
  <2>1. Len(putLog) = Len(takeLog) + Len(queue_)
    BY <1>a, <1>b, ConcatProperties
  <2> QED
    BY <1>a, <2>1 DEF Channel!InTransit
<1>1. ASSUME NEW t \in Threads, PutPush(t)
      PROVE  \E x \in Items : Channel!Put(x)
  <2>1. PushedOne(t) /\ takeLog' = takeLog
    BY <1>1, PushAppends DEF PutPush, IInv
  <2>2. <<t, next[t]>> \in Items
    BY <2>1 DEF PushedOne
  <2> WITNESS <<t, next[t]>> \in Items
  <2> QED
    BY <1>c, <2>1 DEF PushedOne, Channel!Put
<1>2. ASSUME NEW t \in Threads, TakePop(t) PROVE Channel!Take
  <2>1. queue_ # <<>>
    BY <1>2 DEF TakePop, IInv, Safe, AssertsHold, Empty
  <2>2. Len(queue_) > 0
    BY <1>a, <2>1, EmptySeq
  <2>3. putLog[Len(takeLog) + 1] = Head(queue_)
    <3>1. Len(takeLog) + 1 \in 1 .. Len(takeLog) + Len(queue_)
      BY <1>a, <2>2
    <3>2. (takeLog \o queue_)[Len(takeLog) + 1] = queue_[Len(takeLog) + 1 - Len(takeLog)]
      BY <1>a, <3>1, ConcatProperties
    <3>3. Len(takeLog) + 1 - Len(takeLog) = 1
      BY <1>a
    <3> QED
      BY <1>b, <3>2, <3>3
  <2> QED
    BY <1>2, <1>c, <2>2, <2>3 DEF TakePop, Channel!Take
<1>3. ASSUME UNCHANGED <<putLog, takeLog>> PROVE UNCHANGED Channel!channelVars
  BY <1>3 DEF Channel!channelVars
<1> QED
  BY <1>1, <1>2, <1>3
     DEF Next, Step, Enter, Leave, PutTest, PutSleep, PutResume, TakeTest, TakeSleep,
         TakeResume, Spurious, Finished, vars, Channel!ChannelNext

\* To its clients a BoundBlockingQueue is a FIFO channel of capacity
\* maxSize.
THEOREM QueueIsChannel == Spec => ImplementsChannel
BY Invariance, InitRefines, StepRefines, PTL
   DEF Spec, ImplementsChannel, Channel!ChannelSpec

=============================================================================
