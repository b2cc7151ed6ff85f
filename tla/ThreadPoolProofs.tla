-------------------------- MODULE ThreadPoolProofs --------------------------
(***************************************************************************)
(* ThreadPool for any number of clients and workers and for any programs   *)
(* that keep the contract of the class: tasks are taken once and in order, *)
(* no wakeup is lost, stop() leaves nobody asleep, is prompt and abandons  *)
(* no task, and nobody uses a destroyed pool.                              *)
(***************************************************************************)
EXTENDS ThreadPool, SequenceTheorems, FiniteSetTheorems, TLAPS

----------------------------------------------------------------------------
(* The operators of Monitor, FIFO histories and sets of threads            *)

\* notify() wakes one of the threads asleep on c, if there is one, and
\* nobody else.
LEMMA NotifiedOne ==
    ASSUME MonitorTypeOK, NEW c \in Conds, waiters' \in Notified(c)
    PROVE  /\ waiters' \in [Conds -> SUBSET Threads]
           /\ \A d \in Conds \ {c} : waiters'[d] = waiters[d]
           /\ \/ waiters[c] = {} /\ waiters'[c] = {}
              \/ \E u \in waiters[c] : waiters'[c] = waiters[c] \ {u}
BY DEF MonitorTypeOK, Notified

\* wait() puts the caller to sleep on c and lets go of the mutex.
LEMMA CondWaitAdds ==
    ASSUME MonitorTypeOK, NEW t \in Threads, NEW c \in Conds, CondWait(t, c)
    PROVE  /\ waiters' \in [Conds -> SUBSET Threads]
           /\ \A d \in Conds \ {c} : waiters'[d] = waiters[d]
           /\ waiters'[c] = waiters[c] \cup {t}
           /\ MonitorTypeOK'
BY DEF MonitorTypeOK, CondWait

\* A spurious wakeup takes one thread out of one wait set.
LEMMA SpuriousOne ==
    ASSUME MonitorTypeOK, NEW t \in Threads, SpuriousWakeup(t)
    PROVE  /\ waiters' \in [Conds -> SUBSET Threads]
           /\ owner' = owner /\ holder_' = holder_
           /\ \E c \in Conds : /\ t \in waiters[c]
                               /\ waiters'[c] = waiters[c] \ {t}
                               /\ \A d \in Conds \ {c} : waiters'[d] = waiters[d]
BY DEF MonitorTypeOK, SpuriousWakeup

\* Appending to what was put keeps `put = taken \o queue' when the same item
\* is appended to the queue.
LEMMA FifoPush ==
    ASSUME NEW S, NEW p \in Seq(S), NEW k \in Seq(S), NEW q \in Seq(S), NEW x \in S,
           p = k \o q
    PROVE  Append(p, x) = k \o Append(q, x)
<1>1. Append(p, x) = p \o <<x>> /\ Append(q, x) = q \o <<x>>
  BY AppendIsConcat
<1>2. <<x>> \in Seq(S)
  OBVIOUS
<1> QED
  BY <1>1, <1>2, ConcatAssociative

\* So does moving the head of the queue to the end of what was taken.
LEMMA FifoPop ==
    ASSUME NEW S, NEW k \in Seq(S), NEW q \in Seq(S), q # <<>>
    PROVE  /\ k \o q = Append(k, Head(q)) \o Tail(q)
           /\ Head(q) \in S /\ Tail(q) \in Seq(S) /\ Len(Tail(q)) = Len(q) - 1
           /\ Append(k, Head(q)) \in Seq(S)
<1>1. /\ Head(q) \in S /\ Tail(q) \in Seq(S) /\ Len(Tail(q)) = Len(q) - 1
      /\ Append(k, Head(q)) \in Seq(S)
  BY HeadTailProperties, AppendProperties
<1>2. q = <<Head(q)>> \o Tail(q)
  <2>1. /\ Len(q) \in Nat /\ 1 \in 1 .. Len(q) /\ Len(q) \in 1 .. Len(q)
        /\ Head(q) = q[1]
    BY EmptySeq, LenProperties
  <2>2. SubSeq(q, 1, Len(q)) = <<q[1]>> \o SubSeq(q, 2, Len(q))
    BY <2>1, SubSeqRecursiveFirst
  <2> QED
    BY <2>1, <2>2, SubSeqFull, TailIsSubSeq
<1>3. /\ <<Head(q)>> \in Seq(S)
      /\ Append(k, Head(q)) = k \o <<Head(q)>>
  BY <1>1, AppendIsConcat
<1> QED
  BY <1>1, <1>2, <1>3, ConcatAssociative

\* Sets of threads are finite, and a set with a further thread is larger.
LEMMA ThreadCount ==
    ASSUME NEW A \in SUBSET Threads
    PROVE  /\ Cardinality(A) \in Nat
           /\ \A B \in SUBSET Threads : A \subseteq B => Cardinality(A) <= Cardinality(B)
           /\ \A u \in Threads \ A : Cardinality(A \cup {u}) = Cardinality(A) + 1
           /\ \A u \in A : Cardinality(A \ {u}) = Cardinality(A) - 1
<1>1. IsFiniteSet(A)
  BY ThreadsAssumption, FS_Subset
<1>2. ASSUME NEW B \in SUBSET Threads, A \subseteq B
      PROVE  Cardinality(A) <= Cardinality(B)
  <2>1. IsFiniteSet(B)
    BY ThreadsAssumption, FS_Subset
  <2> QED
    BY <1>2, <2>1, FS_Subset
<1> QED
  BY <1>1, <1>2, FS_CardinalityType, FS_AddElement, FS_RemoveElement

----------------------------------------------------------------------------
(* The inductive invariant                                                 *)
(*                                                                         *)
(* The mutex.                                                              *)

LockedSteps == {"stopClear", "stopNotify", "stopLeave", "runPush", "runLeave",
                "takeTest", "takeSleep", "takePop", "takeLeave"}

\* The mutex belongs to the thread inside, only workers in take() sleep, and
\* an id in holder_ is that of a thread that is inside, perhaps asleep.
LockDiscipline ==
    /\ \A t \in Threads : owner = t <=> pc[t] \in LockedSteps
    /\ \A w \in waiters["cond_"] : pc[w] = "takeBlocked"
    /\ holder_ # NoThread => pc[holder_] \in LockedSteps \cup {"takeBlocked"}

\* What take() tested is still true when its worker falls asleep.
SleepJustified == \A w \in Workers : pc[w] = "takeSleep" => queue_ = <<>> /\ running_

----------------------------------------------------------------------------
(* The calls.  What ProgramAssumption says of a whole program holds of the *)
(* calls a client has still to make.                                       *)

StartSteps == {"startPush", "startCreate"}
StopSteps  == {"stopLock", "stopClear", "stopNotify", "stopLeave", "join"}

OnceEach(s) == \A i, j \in DOMAIN s :
    /\ s[i] = s[j] /\ s[i] \notin TaskKinds => i = j
    /\ s[i] = "destroy" => j <= i

\* Master has still to begin this call.
ToCome(call) == \E i \in DOMAIN todo[Master] :
    todo[Master][i] = call /\ (i = 1 => pc[Master] = "idle")

Calls ==
    /\ OnceEach(todo[Master])
    /\ \A c \in Clients \ {Master} : todo[c] \in Seq(TaskKinds)
    /\ \A c \in Clients :
          /\ pc[c] # "idle" => todo[c] # <<>>
          /\ pc[c] \in StartSteps => Call(c) = "start" /\ c = Master
          /\ pc[c] \in StopSteps => Call(c) \in {"stop", "destroy"} /\ c = Master
    /\ pc[Master] \in StopSteps /\ Call(Master) = "destroy" => OthersReturned

\* The pool is started once.
StartedOnce == running_ \/ threads_ # <<>> \/ pc[Master] \in StartSteps => ~ToCome("start")

----------------------------------------------------------------------------
(* The workers *)

\* They are made one after the other.
Born == /\ pc[Master] = "startCreate" => threads_ # <<>>
        /\ \A i \in 1 .. Len(Pool) :
              pc[Pool[i]] = "unborn" <=>
                  i > Len(threads_) \/ (pc[Master] = "startCreate" /\ i = Len(threads_))

\* They are joined one after the other, by the call that clears running_.
NoneJoined == \A i \in 1 .. Len(Pool) : joins[Pool[i]] = 0

Joined == /\ \A i \in 1 .. Len(Pool) :
                /\ joins[Pool[i]] \in {0, 1}
                /\ joins[Pool[i]] = 1 => pc[Pool[i]] \in {"ended", "failed"}
          /\ running_ => NoneJoined
          /\ ToCome("stop") => NoneJoined
          /\ pc[Master] \in StartSteps => running_
          /\ pc[Master] \in StopSteps \ {"join"} => NoneJoined
          /\ pc[Master] \in {"stopNotify", "stopLeave", "join"} => ~running_
          /\ pc[Master] = "join" =>
                /\ joining <= Len(threads_) + 1
                /\ \A i \in 1 .. Len(Pool) : joins[Pool[i]] = 1 <=> i < joining
          /\ ~running_ /\ pc[Master] \notin {"stopNotify", "stopLeave", "join"} =>
                \A i \in 1 .. Len(threads_) : joins[Pool[i]] = 1

\* A worker that took a task after running_ was cleared takes no other one.
LateOnce == \A w \in Workers :
    /\ late[w] <= 1
    /\ late[w] = 1 => /\ ~running_ /\ threads_ # <<>>
                      /\ pc[w] \in {"takeLeave", "loop", "ended"} \cup RunSteps

\* A task that was taken is executed, or is with the worker that took it.
TakenKept == \A i \in DOMAIN taken :
    \/ taken[i] \in done
    \/ \E w \in Workers : pc[w] \in {"takeLeave", "exec"} /\ task[w] = taken[i]

Gone == destroyed => /\ \A c \in Clients : pc[c] = "idle" /\ todo[c] = <<>>
                     /\ ~running_

IInv == /\ TypeOK /\ LockDiscipline /\ SleepJustified
        /\ Calls /\ StartedOnce /\ Born /\ Joined /\ Gone
        /\ LateOnce /\ TakenKept
        /\ Fifo /\ NoLostWakeup /\ NoSleeperAfterStop

----------------------------------------------------------------------------
(* The constants *)

LEMMA Roles ==
    /\ Master \in Clients /\ Clients \subseteq Threads /\ Workers \subseteq Threads
    /\ Threads = Clients \cup Workers /\ Clients \cap Workers = {}
    /\ Conds = {"cond_"}
BY PoolAssumption

LEMMA PoolIsSeq ==
    /\ Pool \in Seq(Workers) /\ Len(Pool) \in Nat /\ DOMAIN Pool = 1 .. Len(Pool)
    /\ \A i \in 1 .. Len(Pool) : Pool[i] \in Workers
    /\ \A w \in Workers : \E i \in 1 .. Len(Pool) : w = Pool[i]
    /\ \A i, j \in 1 .. Len(Pool) : Pool[i] = Pool[j] => i = j
<1>1. /\ Len(Pool) \in Nat /\ DOMAIN Pool = 1 .. Len(Pool)
      /\ Pool \in [1 .. Len(Pool) -> Threads]
  BY PoolAssumption, LenProperties
<1>2. /\ \A i \in 1 .. Len(Pool) : Pool[i] \in Workers
      /\ \A w \in Workers : \E i \in 1 .. Len(Pool) : w = Pool[i]
  BY <1>1 DEF Workers
<1>3. Pool \in Seq(Workers)
  <2>1. Pool \in [1 .. Len(Pool) -> Workers]
    BY <1>1, <1>2
  <2> QED
    BY <1>1, <2>1, SeqDef
<1> QED
  BY <1>1, <1>2, <1>3, PoolAssumption

\* threads_ is a beginning of Pool.
LEMMA CrewIsPrefix ==
    ASSUME TypeOK
    PROVE  /\ threads_ \in Seq(Workers)
           /\ Len(threads_) \in 0 .. Len(Pool)
           /\ \A i \in 1 .. Len(threads_) : threads_[i] = Pool[i]
           /\ threads_ = SubSeq(Pool, 1, Len(threads_))
           /\ threads_ = <<>> <=> Len(threads_) = 0
<1>1. PICK n \in 0 .. Len(Pool) : threads_ = SubSeq(Pool, 1, n)
  BY DEF TypeOK
<1>2. /\ threads_ \in Seq(Workers) /\ Len(threads_) = n
      /\ \A i \in 1 .. n : threads_[i] = Pool[i]
  <2>1. /\ \A i \in 1 .. n : Pool[i] \in Workers
        /\ n \in Int /\ n >= 0
    BY PoolIsSeq
  <2>2. /\ SubSeq(Pool, 1, n) \in Seq(Workers)
        /\ Len(SubSeq(Pool, 1, n)) = IF 1 <= n THEN n - 1 + 1 ELSE 0
        /\ \A i \in 1 .. n - 1 + 1 : SubSeq(Pool, 1, n)[i] = Pool[1 + i - 1]
    BY <2>1, SubSeqProperties
  <2> QED
    BY <1>1, <2>1, <2>2
<1> QED
  BY <1>1, <1>2, EmptySeq

\* One worker more.
LEMMA CrewGrows ==
    ASSUME TypeOK, Len(threads_) < Len(Pool),
           threads_' = Append(threads_, Pool[Len(threads_) + 1])
    PROVE  /\ threads_' = SubSeq(Pool, 1, Len(threads_) + 1)
           /\ Len(threads_') = Len(threads_) + 1
           /\ Len(threads_) + 1 \in 1 .. Len(Pool)
<1>1. /\ threads_ \in Seq(Workers) /\ Len(threads_) \in 0 .. Len(Pool) /\ Len(Pool) \in Nat
      /\ threads_ = SubSeq(Pool, 1, Len(threads_)) /\ Pool \in Seq(Workers)
  BY CrewIsPrefix, PoolIsSeq
<1> DEFINE n == Len(threads_) + 1
<1>2. n \in 1 .. Len(Pool) /\ 1 \in 1 .. Len(Pool) /\ n - 1 = Len(threads_)
  BY <1>1
<1>3. SubSeq(Pool, 1, n) = SubSeq(Pool, 1, n - 1) \o <<Pool[n]>>
  <2>1. n \in 1 .. Len(Pool) /\ 1 \in 1 .. Len(Pool)
    BY <1>2
  <2> HIDE DEF n
  <2> QED
    BY <1>1, <2>1, SubSeqRecursiveSecond
<1>4. /\ Pool[n] \in Workers
      /\ threads_' = threads_ \o <<Pool[n]>>
      /\ Len(threads_') = n
  BY <1>1, <1>2, PoolIsSeq, AppendProperties, AppendIsConcat
<1> QED
  BY <1>1, <1>2, <1>3, <1>4

----------------------------------------------------------------------------
(* Types *)

\* The tasks of run() calls.
LEMMA CallIsTask ==
    ASSUME TypeOK, NEW t \in Clients, todo[t] # <<>>
    PROVE  /\ Call(t) \in TaskKinds \cup {"start", "stop", "destroy"}
           /\ Call(t) = todo[t][1]
           /\ Len(todo[t]) \in Nat \ {0}
           /\ Tail(todo[t]) \in Seq(TaskKinds \cup {"start", "stop", "destroy"})
           /\ Call(t) \in TaskKinds =>
                  [id |-> <<t, Len(todo[t])>>, kind |-> Call(t)] \in Tasks
<1>1. todo[t] \in Seq(TaskKinds \cup {"start", "stop", "destroy"})
  BY DEF TypeOK
<1>2. /\ Call(t) \in TaskKinds \cup {"start", "stop", "destroy"}
      /\ Tail(todo[t]) \in Seq(TaskKinds \cup {"start", "stop", "destroy"})
      /\ Len(todo[t]) \in Nat \ {0}
      /\ Call(t) = todo[t][1]
  BY <1>1, HeadTailProperties, EmptySeq DEF Call
<1> QED
  BY <1>2 DEF Tasks

\* A thread that moves to a step of its own kind keeps the types of pc.
PcOK == /\ pc \in [Threads -> ClientSteps \cup RunSteps \cup WorkerSteps]
        /\ \A c \in Clients : pc[c] \in ClientSteps \cup RunSteps
        /\ \A w \in Workers : pc[w] \in WorkerSteps \cup RunSteps

TodoOK == todo \in [Clients -> Seq(TaskKinds \cup {"start", "stop", "destroy"})]

LEMMA GotoTypes ==
    ASSUME PcOK, NEW t \in Threads, NEW step, Goto(t, step),
           t \in Clients => step \in ClientSteps \cup RunSteps,
           t \in Workers => step \in WorkerSteps \cup RunSteps
    PROVE  PcOK'
BY Roles DEF PcOK, Goto

LEMMA ReturnTypes ==
    ASSUME PcOK, TodoOK, Calls, NEW t \in Threads, Return(t),
           t \in Clients => todo[t] # <<>>
    PROVE  PcOK' /\ TodoOK'
<1>1. CASE t \in Clients
  <2>1. Goto(t, "idle") /\ todo' = [todo EXCEPT ![t] = Tail(@)]
    BY <1>1 DEF Return
  <2>2. Tail(todo[t]) \in Seq(TaskKinds \cup {"start", "stop", "destroy"})
    BY <1>1, HeadTailProperties DEF TodoOK
  <2>3. TodoOK'
    BY <1>1, <2>1, <2>2 DEF TodoOK
  <2>4. PcOK'
    BY <1>1, <2>1, Roles, GotoTypes DEF ClientSteps
  <2> QED
    BY <2>3, <2>4
<1>2. CASE t \in Workers
  <2>1. Goto(t, "loop") /\ todo' = todo
    BY <1>2, Roles DEF Return
  <2>2. PcOK'
    BY <1>2, <2>1, Roles, GotoTypes DEF WorkerSteps
  <2> QED
    BY <2>1, <2>2 DEF TodoOK
<1> QED
  BY <1>1, <1>2, Roles

\* The worker that start() creates, or fails to create, is the one it has just
\* pushed.
LEMMA OneCreated ==
    ASSUME TypeOK, Calls, Born, NEW t \in Threads, StartCreate(t)
    PROVE  /\ t = Master
           /\ Len(threads_) \in 1 .. Len(Pool)
           /\ Pool[Len(threads_)] \in Workers
           /\ pc[Pool[Len(threads_)]] = "unborn"
           /\ \E s \in {"loop", "failed"} :
                 pc' = [pc EXCEPT ![Master] = "startPush", ![Pool[Len(threads_)]] = s]
<1>1. t = Master /\ pc[Master] = "startCreate"
  <2>1. pc[t] = "startCreate"
    BY DEF StartCreate, At
  <2>2. t \in Clients
    BY <2>1, Roles DEF TypeOK, WorkerSteps, RunSteps, TakeSteps
  <2> QED
    BY <2>1, <2>2 DEF Calls, StartSteps
<1>2. threads_ # <<>>
  BY <1>1 DEF Born
<1>3. /\ Len(threads_) \in 1 .. Len(Pool)
      /\ threads_[Len(threads_)] = Pool[Len(threads_)]
  BY <1>2, CrewIsPrefix, PoolIsSeq
<1>4. Pool[Len(threads_)] \in Workers /\ pc[Pool[Len(threads_)]] = "unborn"
  BY <1>1, <1>3, PoolIsSeq DEF Born
<1>5. \E s \in {"loop", "failed"} :
         pc' = [pc EXCEPT ![Master] = "startPush", ![Pool[Len(threads_)]] = s]
  BY <1>1, <1>3 DEF StartCreate
<1> QED
  BY <1>1, <1>3, <1>4, <1>5

\* What the steps do to the state that is not control.
DataOK == /\ running_ \in BOOLEAN
          /\ \E n \in 0 .. Len(Pool) : threads_ = SubSeq(Pool, 1, n)
          /\ queue_ \in Seq(Tasks)
          /\ task \in [Threads -> Tasks]
          /\ joining \in 1 .. Len(Pool) + 1
          /\ crashed \in BOOLEAN /\ destroyed \in BOOLEAN
          /\ enqueued \in Seq(Tasks) /\ taken \in Seq(Tasks) /\ done \subseteq Tasks
          /\ late \in [Workers -> Nat] /\ joins \in [Workers -> Nat]

LEMMA TypeParts == TypeOK <=> MonitorTypeOK /\ PcOK /\ TodoOK /\ DataOK
BY DEF TypeOK, PcOK, TodoOK, DataOK

LEMMA NextPcTypes ==
    ASSUME TypeOK, Calls, Born, [Next]_vars
    PROVE  PcOK' /\ TodoOK'
<1>a. PcOK /\ TodoOK
  BY TypeParts
<1>b. ASSUME NEW t \in Threads, pc[t] \in ClientSteps \cup RunSteps, pc[t] # "idle"
      PROVE  t \in Clients => todo[t] # <<>>
  BY <1>b, Roles DEF Calls
<1>c. ASSUME NEW t \in Threads
      PROVE  /\ pc[t] \in ClientSteps => t \in Clients
             /\ pc[t] \in WorkerSteps => t \in Workers
  BY <1>a, <1>c, Roles DEF PcOK, ClientSteps, WorkerSteps, RunSteps, TakeSteps
<1>d. ASSUME NEW t \in Threads, NEW step, Goto(t, step), UNCHANGED todo,
             \/ step \in RunSteps
             \/ step \in ClientSteps /\ pc[t] \in ClientSteps
             \/ step \in WorkerSteps /\ pc[t] \in WorkerSteps
      PROVE  PcOK' /\ TodoOK'
  BY <1>a, <1>c, <1>d, Roles, GotoTypes DEF TodoOK
<1>e. ASSUME NEW t \in Threads, Return(t), t \in Clients => todo[t] # <<>>
      PROVE  PcOK' /\ TodoOK'
  BY <1>a, <1>e, ReturnTypes
<1>1. ASSUME NEW t \in Threads, Start(t) \/ Stop(t) \/ StopLock(t) \/ StopClear(t)
                                \/ StopNotify(t) \/ StopLeave(t) \/ Run(t)
      PROVE  PcOK' /\ TodoOK'
  BY <1>1, <1>d DEF Start, Stop, StopLock, StopClear, StopNotify, StopLeave, Run,
     Calling, At, ClientSteps, RunSteps
<1>2. ASSUME NEW t \in Threads, StartPush(t) PROVE PcOK' /\ TodoOK'
  BY <1>2, <1>b, <1>d, <1>e DEF StartPush, At, ClientSteps
<1>3. ASSUME NEW t \in Threads, StartCreate(t) PROVE PcOK' /\ TodoOK'
  <2>1. PICK w \in Workers, s \in {"loop", "failed"} :
            pc' = [pc EXCEPT ![t] = "startPush", ![w] = s]
    BY <1>3, OneCreated
  <2>2. t \in Clients /\ UNCHANGED todo
    BY <1>3, <1>c DEF StartCreate, At, ClientSteps
  <2> QED
    BY <1>a, <2>1, <2>2, Roles DEF PcOK, TodoOK, ClientSteps, WorkerSteps
<1>4. ASSUME NEW t \in Threads, Destroy(t) PROVE PcOK' /\ TodoOK'
  BY <1>4, <1>d, <1>e DEF Destroy, Calling, At, ClientSteps
<1>5. ASSUME NEW t \in Threads, JoinedAll(t) PROVE PcOK' /\ TodoOK'
  BY <1>5, <1>b, <1>e DEF JoinedAll, At, ClientSteps
<1>6. ASSUME NEW t \in Threads, RunTest(t) \/ RunLock(t) \/ RunPush(t) \/ ExecSpawns(t)
      PROVE  PcOK' /\ TodoOK'
  BY <1>6, <1>d DEF RunTest, RunLock, RunPush, ExecSpawns, RunSteps
<1>7. ASSUME NEW t \in Threads, RunLeave(t) \/ ExecReturns(t) PROVE PcOK' /\ TodoOK'
  BY <1>7, <1>b, <1>e DEF RunLeave, ExecReturns, At, RunSteps
<1>8. ASSUME NEW t \in Threads, ExecThrows(t) PROVE PcOK' /\ TodoOK'
  <2>1. CASE t \in Clients
    BY <1>8, <1>b, <1>e, <2>1 DEF ExecThrows, At, RunSteps
  <2>2. CASE t \in Workers
    BY <1>8, <1>a, <2>2, Roles, GotoTypes DEF ExecThrows, WorkerSteps, TodoOK
  <2> QED
    BY <2>1, <2>2, Roles
<1>9. ASSUME NEW t \in Threads, WorkerStep(t) PROVE PcOK' /\ TodoOK'
  BY <1>9, <1>d DEF WorkerStep, Loop, TakeLock, TakeTest, TakeSleep, TakeResume, TakePop,
     TakeLeave, At, WorkerSteps, TakeSteps, RunSteps
<1>10. ASSUME UNCHANGED <<pc, todo>> PROVE PcOK' /\ TodoOK'
  BY <1>10, <1>a DEF PcOK, TodoOK
<1> QED
  BY <1>1, <1>2, <1>3, <1>4, <1>5, <1>6, <1>7, <1>8, <1>9, <1>10
     DEF Next, Step, ClientStep, RunStep, Join, Spurious, Finished, vars

LEMMA NextDataTypes ==
    ASSUME TypeOK, Calls, Joined, [Next]_vars
    PROVE  MonitorTypeOK' /\ DataOK'
<1>a. MonitorTypeOK /\ DataOK /\ PcOK
  BY TypeParts
<1>b. /\ Len(Pool) \in Nat /\ threads_ \in Seq(Workers) /\ Len(threads_) \in 0 .. Len(Pool)
      /\ \A i \in 1 .. Len(threads_) : threads_[i] \in Workers
  BY CrewIsPrefix, PoolIsSeq
<1>c. UNCHANGED <<threads_, queue_, task, joining, crashed, destroyed, enqueued, taken, done,
                  late, joins>> /\ running_' \in BOOLEAN => DataOK'
  BY <1>a DEF DataOK
<1>d. UNCHANGED monitorVars => MonitorTypeOK'
  BY <1>a DEF monitorVars, MonitorTypeOK
<1>e. \A t \in Threads : Lock(t) /\ UNCHANGED waiters => MonitorTypeOK'
  BY <1>a DEF Lock, MonitorTypeOK
<1>f. Unlock /\ UNCHANGED waiters => MonitorTypeOK'
  BY <1>a DEF Unlock, MonitorTypeOK
<1>g. \A t \in Threads : task[t] \in Tasks
  BY <1>a DEF DataOK
<1>1. ASSUME NEW t \in Threads, Start(t) \/ StopClear(t) PROVE MonitorTypeOK' /\ DataOK'
  BY <1>1, <1>c, <1>d DEF Start, StopClear, fate, history
<1>2. ASSUME NEW t \in Threads, StartPush(t) PROVE MonitorTypeOK' /\ DataOK'
  <2>1. CASE Len(threads_) < Len(Pool)
    <3>1. threads_' = Append(threads_, Pool[Len(threads_) + 1])
      BY <1>2, <2>1 DEF StartPush
    <3>2. \E n \in 0 .. Len(Pool) : threads_' = SubSeq(Pool, 1, n)
      BY <1>b, <2>1, <3>1, CrewGrows
    <3> QED
      BY <1>2, <1>a, <1>d, <3>2 DEF StartPush, DataOK, fate, history
  <2>2. CASE ~(Len(threads_) < Len(Pool))
    BY <1>2, <1>a, <1>c, <1>d, <2>2 DEF StartPush, DataOK, fate, history
  <2> QED
    BY <2>1, <2>2
<1>3. ASSUME NEW t \in Threads, StartCreate(t) \/ Stop(t) \/ RunTest(t) \/ TakeTest(t) \/ Loop(t)
      PROVE  MonitorTypeOK' /\ DataOK'
  BY <1>3, <1>a, <1>c, <1>d
     DEF StartCreate, Stop, RunTest, TakeTest, Loop, poolVars, fate, history, DataOK
<1>4. ASSUME NEW t \in Threads, StopLock(t) \/ RunLock(t) \/ TakeLock(t)
      PROVE  MonitorTypeOK' /\ DataOK'
  BY <1>4, <1>a, <1>c, <1>e DEF StopLock, RunLock, TakeLock, poolVars, fate, history, DataOK
<1>5. ASSUME NEW t \in Threads, RunLeave(t) \/ TakeLeave(t)
      PROVE  MonitorTypeOK' /\ DataOK'
  BY <1>5, <1>a, <1>c, <1>f DEF RunLeave, TakeLeave, poolVars, fate, history, DataOK
<1>6. ASSUME NEW t \in Threads, StopLeave(t) PROVE MonitorTypeOK' /\ DataOK'
  BY <1>6, <1>a, <1>b, <1>f DEF StopLeave, poolVars, fate, history, DataOK
<1>7. ASSUME NEW t \in Threads, StopNotify(t) PROVE MonitorTypeOK' /\ DataOK'
  <2>1. MonitorTypeOK'
    BY <1>7, <1>a, Roles DEF StopNotify, AllNotified, MonitorTypeOK
  <2> QED
    BY <1>7, <1>a, <1>c, <2>1 DEF StopNotify, poolVars, fate, history, DataOK
<1>8. ASSUME NEW t \in Threads, Join(t) PROVE MonitorTypeOK' /\ DataOK'
  <2>1. joining \in 1 .. Len(threads_)
    BY <1>8, <1>a DEF Join, DataOK
  <2>2. joins' \in [Workers -> Nat] /\ joining' \in 1 .. Len(Pool) + 1
    BY <1>8, <1>a, <1>b, <2>1 DEF Join, DataOK
  <2>3. crashed' \in BOOLEAN
    BY <1>8, <1>a DEF Join, DataOK
  <2> QED
    BY <1>8, <1>a, <1>d, <2>2, <2>3 DEF Join, poolVars, DataOK
<1>9. ASSUME NEW t \in Threads, JoinedAll(t) \/ Destroy(t) PROVE MonitorTypeOK' /\ DataOK'
  <2>1. destroyed' \in BOOLEAN
    BY <1>9, <1>a DEF JoinedAll, Destroy, DataOK
  <2> QED
    BY <1>9, <1>a, <1>d, <2>1 DEF JoinedAll, Destroy, poolVars, history, DataOK
<1>10. ASSUME NEW t \in Threads, Run(t) PROVE MonitorTypeOK' /\ DataOK'
  <2>1. task' \in [Threads -> Tasks]
    <3>1. t \in Clients /\ todo[t] # <<>> /\ Call(t) \in TaskKinds
      BY <1>10 DEF Run, Calling
    <3>2. [id |-> <<t, Len(todo[t])>>, kind |-> Call(t)] \in Tasks
      BY <3>1, CallIsTask
    <3> QED
      BY <1>10, <1>a, <3>2 DEF Run, DataOK
  <2> QED
    BY <1>10, <1>a, <1>d, <2>1 DEF Run, poolVars, fate, history, DataOK
<1>11. ASSUME NEW t \in Threads, RunPush(t) PROVE MonitorTypeOK' /\ DataOK'
  <2>1. MonitorTypeOK'
    BY <1>11, <1>a, Roles, NotifiedOne DEF RunPush, MonitorTypeOK
  <2>2. queue_' \in Seq(Tasks) /\ enqueued' \in Seq(Tasks)
    BY <1>11, <1>a, <1>g, AppendProperties DEF RunPush, DataOK
  <2> QED
    BY <1>11, <1>a, <2>1, <2>2 DEF RunPush, poolVars, fate, DataOK
<1>12. ASSUME NEW t \in Threads, TakeSleep(t) \/ TakeResume(t) PROVE MonitorTypeOK' /\ DataOK'
  <2>1. MonitorTypeOK'
    BY <1>12, <1>a, Roles, CondWaitAdds DEF TakeSleep, TakeResume, CondResume, MonitorTypeOK
  <2> QED
    BY <1>12, <1>a, <1>c, <2>1 DEF TakeSleep, TakeResume, poolVars, fate, history, DataOK
<1>13. ASSUME NEW t \in Threads, TakePop(t) PROVE MonitorTypeOK' /\ DataOK'
  <2>1. t \in Workers
    BY <1>13, <1>a, Roles DEF TakePop, At, PcOK, ClientSteps, RunSteps
  <2>2. CASE queue_ # <<>>
    <3>1. /\ Head(queue_) \in Tasks /\ Tail(queue_) \in Seq(Tasks)
          /\ Append(taken, Head(queue_)) \in Seq(Tasks)
      BY <1>a, <2>2, FifoPop DEF DataOK
    <3>2. late' \in [Workers -> Nat]
      <4>1. \E n \in Nat : late' = [late EXCEPT ![t] = n]
        <5>1. late[t] \in Nat /\ late[t] + 1 \in Nat
          BY <1>a, <2>1 DEF DataOK
        <5> QED
          BY <1>13, <2>2, <5>1 DEF TakePop
      <4> QED
        BY <1>a, <4>1 DEF DataOK
    <3> QED
      BY ZenonT(40), <1>13, <1>a, <1>d, <2>2, <3>1, <3>2, Roles DEF TakePop, fate, DataOK
  <2>3. CASE queue_ = <<>>
    <3>1. NoTask \in Tasks
      BY DEF NoTask, Tasks
    <3> QED
      BY <1>13, <1>a, <1>d, <2>3, <3>1 DEF TakePop, fate, DataOK
  <2> QED
    BY <2>2, <2>3
<1>14. ASSUME NEW t \in Threads, ExecReturns(t) \/ ExecThrows(t) PROVE MonitorTypeOK' /\ DataOK'
  <2>1. done' \subseteq Tasks /\ crashed' \in BOOLEAN
    BY <1>14, <1>a, <1>g DEF ExecReturns, ExecThrows, fate, DataOK
  <2> QED
    BY <1>14, <1>a, <1>d, <2>1 DEF ExecReturns, ExecThrows, poolVars, fate, DataOK
<1>15. ASSUME NEW t \in Threads, ExecSpawns(t) PROVE MonitorTypeOK' /\ DataOK'
  <2>1. done' \subseteq Tasks /\ task' \in [Threads -> Tasks]
    BY ZenonT(40), <1>15, <1>a, <1>g DEF ExecSpawns, DataOK, Tasks, TaskKinds
  <2> QED
    BY <1>15, <1>a, <1>d, <2>1 DEF ExecSpawns, poolVars, fate, DataOK
<1>16. ASSUME Spurious PROVE MonitorTypeOK' /\ DataOK'
  <2>1. MonitorTypeOK'
    BY <1>16, <1>a, SpuriousOne DEF Spurious, MonitorTypeOK
  <2> QED
    BY <1>16, <1>a, <1>c, <2>1 DEF Spurious, poolVars, fate, history, DataOK
<1>17. ASSUME UNCHANGED vars PROVE MonitorTypeOK' /\ DataOK'
  BY <1>17, <1>a, <1>c, <1>d DEF vars, monitorVars, DataOK
<1> QED
  BY <1>1, <1>2, <1>3, <1>4, <1>5, <1>6, <1>7, <1>8, <1>9, <1>10, <1>11, <1>12, <1>13,
     <1>14, <1>15, <1>16, <1>17
     DEF Next, Step, ClientStep, RunStep, WorkerStep, Finished

LEMMA NextTypes ==
    ASSUME TypeOK, Calls, Born, Joined, [Next]_vars
    PROVE  TypeOK'
<1>1. (MonitorTypeOK /\ PcOK /\ TodoOK /\ DataOK)'
  BY NextPcTypes, NextDataTypes
<1> QED
  BY <1>1 DEF TypeOK, PcOK, TodoOK, DataOK

----------------------------------------------------------------------------
(* The mutex *)

\* A thread that stays inside, or outside, leaves the discipline alone.
LEMMA LockStays ==
    ASSUME TypeOK, LockDiscipline, NEW t \in Threads, NEW s, pc' = [pc EXCEPT ![t] = s],
           pc[t] \in LockedSteps <=> s \in LockedSteps, pc[t] # "takeBlocked",
           UNCHANGED <<owner, holder_>>, waiters'["cond_"] \subseteq waiters["cond_"]
    PROVE  LockDiscipline'
<1>1. pc \in [Threads -> ClientSteps \cup RunSteps \cup WorkerSteps]
      /\ holder_ \in Threads \cup {NoThread} /\ waiters["cond_"] \subseteq Threads
  BY Roles DEF TypeOK, MonitorTypeOK
<1> HIDE DEF LockedSteps
<1> QED
  BY <1>1 DEF LockDiscipline

LEMMA ReturnPc ==
    ASSUME NEW t \in Threads, Return(t)
    PROVE  \E s \in {"idle", "loop"} : pc' = [pc EXCEPT ![t] = s]
BY DEF Return, Goto

LEMMA NextLock ==
    ASSUME TypeOK, Calls, Born, LockDiscipline, [Next]_vars
    PROVE  LockDiscipline'
<1>a. /\ pc \in [Threads -> ClientSteps \cup RunSteps \cup WorkerSteps]
      /\ MonitorTypeOK /\ waiters["cond_"] \subseteq Threads
      /\ NoThread \notin Threads
  BY Roles, ThreadsAssumption DEF TypeOK, MonitorTypeOK
<1>1. ASSUME NEW t \in Threads,
             \/ Start(t) \/ Stop(t) \/ StopClear(t) \/ Run(t) \/ RunTest(t)
             \/ TakeTest(t) \/ TakePop(t) \/ Loop(t) \/ ExecSpawns(t)
      PROVE  LockDiscipline'
  <2>1. PICK s : /\ pc' = [pc EXCEPT ![t] = s]
                 /\ pc[t] \in LockedSteps <=> s \in LockedSteps
                 /\ pc[t] # "takeBlocked"
    BY <1>1 DEF Start, Stop, StopClear, Run, RunTest, TakeTest, TakePop, Loop, ExecSpawns,
       Calling, At, Goto, LockedSteps
  <2>2. UNCHANGED monitorVars
    BY <1>1 DEF Start, Stop, StopClear, Run, RunTest, TakeTest, TakePop, Loop, ExecSpawns
  <2> QED
    BY <2>1, <2>2, LockStays DEF monitorVars
<1>2. ASSUME NEW t \in Threads, StopNotify(t) \/ RunPush(t) PROVE LockDiscipline'
  <2>1. PICK s : /\ pc' = [pc EXCEPT ![t] = s]
                 /\ pc[t] \in LockedSteps <=> s \in LockedSteps
                 /\ pc[t] # "takeBlocked"
    BY <1>2 DEF StopNotify, RunPush, At, Goto, LockedSteps
  <2>2. waiters'["cond_"] \subseteq waiters["cond_"] /\ UNCHANGED <<owner, holder_>>
    BY <1>2, <1>a, Roles, NotifiedOne DEF StopNotify, RunPush, AllNotified, MonitorTypeOK
  <2> QED
    BY <2>1, <2>2, LockStays
<1>3. ASSUME NEW t \in Threads,
             \/ StartPush(t) \/ Destroy(t) \/ JoinedAll(t) \/ ExecReturns(t) \/ ExecThrows(t)
      PROVE  LockDiscipline'
  <2>1. PICK s : /\ pc' = [pc EXCEPT ![t] = s]
                 /\ pc[t] \in LockedSteps <=> s \in LockedSteps
                 /\ pc[t] # "takeBlocked"
    BY <1>3, ReturnPc DEF StartPush, Destroy, JoinedAll, ExecReturns, ExecThrows,
       Calling, At, Goto, LockedSteps
  <2>2. UNCHANGED monitorVars
    BY <1>3 DEF StartPush, Destroy, JoinedAll, ExecReturns, ExecThrows
  <2> QED
    BY <2>1, <2>2, LockStays DEF monitorVars
<1>4. ASSUME NEW t \in Threads, StartCreate(t) PROVE LockDiscipline'
  <2>1. PICK w \in Workers, s \in {"loop", "failed"} :
            /\ pc' = [pc EXCEPT ![Master] = "startPush", ![w] = s]
            /\ pc[w] = "unborn" /\ pc[Master] = "startCreate"
    BY <1>4, OneCreated DEF StartCreate, At
  <2>2. UNCHANGED monitorVars
    BY <1>4 DEF StartCreate
  <2> QED
    BY <1>a, <2>1, <2>2, Roles DEF LockDiscipline, LockedSteps, monitorVars, MonitorTypeOK
<1>5. ASSUME NEW t \in Threads, StopLock(t) \/ RunLock(t) \/ TakeLock(t) PROVE LockDiscipline'
  <2>1. PICK s \in LockedSteps : pc' = [pc EXCEPT ![t] = s]
    BY <1>5 DEF StopLock, RunLock, TakeLock, Goto, LockedSteps
  <2>2. pc[t] \in {"stopLock", "runLock", "takeLock"} /\ Lock(t) /\ UNCHANGED waiters
    BY <1>5 DEF StopLock, RunLock, TakeLock, At
  <2> QED
    BY <1>a, <2>1, <2>2 DEF Lock, LockDiscipline, LockedSteps
<1>6. ASSUME NEW t \in Threads, StopLeave(t) \/ RunLeave(t) \/ TakeLeave(t)
      PROVE  LockDiscipline'
  <2>1. PICK s \in {"join", "idle", "loop", "exec"} : pc' = [pc EXCEPT ![t] = s]
    BY <1>6, ReturnPc DEF StopLeave, RunLeave, TakeLeave, Goto
  <2>2. pc[t] \in {"stopLeave", "runLeave", "takeLeave"} /\ Unlock /\ UNCHANGED waiters
    BY <1>6 DEF StopLeave, RunLeave, TakeLeave, At
  <2> QED
    BY <1>a, <2>1, <2>2 DEF Unlock, LockDiscipline, LockedSteps
<1>7. ASSUME NEW t \in Threads, TakeSleep(t) PROVE LockDiscipline'
  <2>1. /\ pc' = [pc EXCEPT ![t] = "takeBlocked"] /\ pc[t] = "takeSleep"
        /\ owner' = NoThread /\ holder_' = holder_
        /\ waiters'["cond_"] = waiters["cond_"] \cup {t}
    BY <1>7, <1>a, Roles, CondWaitAdds DEF TakeSleep, At, Goto, CondWait
  <2> QED
    BY <1>a, <2>1 DEF LockDiscipline, LockedSteps, MonitorTypeOK
<1>8. ASSUME NEW t \in Threads, TakeResume(t) PROVE LockDiscipline'
  BY <1>8, <1>a DEF TakeResume, CondResume, At, Goto, LockDiscipline, LockedSteps, MonitorTypeOK
<1>9. ASSUME Spurious PROVE LockDiscipline'
  BY <1>9, <1>a, Roles, SpuriousOne DEF Spurious, LockDiscipline, MonitorTypeOK
<1>10. ASSUME UNCHANGED <<monitorVars, pc>> PROVE LockDiscipline'
  BY <1>10 DEF LockDiscipline, monitorVars
<1> QED
  BY <1>1, <1>2, <1>3, <1>4, <1>5, <1>6, <1>7, <1>8, <1>9, <1>10
     DEF Next, Step, ClientStep, RunStep, WorkerStep, Join, Finished, vars, monitorVars

LEMMA NextSleep ==
    ASSUME TypeOK, LockDiscipline, SleepJustified, Calls, Born, [Next]_vars
    PROVE  SleepJustified'
<1>a. /\ pc \in [Threads -> ClientSteps \cup RunSteps \cup WorkerSteps]
      /\ Workers \subseteq Threads
  BY Roles DEF TypeOK
<1>b. ASSUME NEW w \in Workers, pc[w] = "takeSleep"
      PROVE  queue_ = <<>> /\ running_ /\ owner = w
  BY <1>a, <1>b DEF SleepJustified, LockDiscipline, LockedSteps
<1>1. ASSUME NEW t \in Threads, TakeTest(t) PROVE SleepJustified'
  BY <1>1, <1>a DEF TakeTest, Goto, poolVars, SleepJustified
<1>2. ASSUME NEW t \in Threads, StopClear(t) \/ RunPush(t) \/ TakePop(t) PROVE SleepJustified'
  <2>1. owner = t
    BY <1>2 DEF StopClear, RunPush, TakePop, At, LockDiscipline, LockedSteps
  <2>2. PICK s \in {"stopNotify", "runLeave", "takeLeave"} : pc' = [pc EXCEPT ![t] = s]
    BY <1>2 DEF StopClear, RunPush, TakePop, Goto
  <2> QED
    BY <1>a, <1>b, <2>1, <2>2 DEF SleepJustified
<1>3. ASSUME NEW t \in Threads, StartCreate(t) PROVE SleepJustified'
  <2>1. PICK w \in Workers, s \in {"loop", "failed"} :
            pc' = [pc EXCEPT ![Master] = "startPush", ![w] = s]
    BY <1>3, OneCreated
  <2> QED
    BY <1>3, <1>a, <2>1, Roles DEF StartCreate, poolVars, SleepJustified
<1>4. ASSUME \A w \in Workers : pc'[w] = "takeSleep" => pc[w] = "takeSleep",
             queue_' = queue_, running_' = running_ \/ running_' = TRUE
      PROVE  SleepJustified'
  BY <1>4 DEF SleepJustified
<1>5. ASSUME NEW t \in Threads, NEW s, pc' = [pc EXCEPT ![t] = s], s # "takeSleep"
      PROVE  \A w \in Workers : pc'[w] = "takeSleep" => pc[w] = "takeSleep"
  BY <1>5, <1>a
<1>6. ASSUME NEW t \in Threads,
             \/ Start(t) \/ Stop(t) \/ StopLock(t) \/ StopNotify(t) \/ StopLeave(t)
             \/ Run(t) \/ RunTest(t) \/ RunLock(t) \/ ExecSpawns(t)
      PROVE  SleepJustified'
  <2>1. \E s \in {"startPush", "stopLock", "stopClear", "stopLeave", "join", "runTest", "exec",
                   "runLock", "runPush"} : pc' = [pc EXCEPT ![t] = s]
    BY <1>6 DEF Start, Stop, StopLock, StopNotify, StopLeave, Run, RunTest, RunLock, ExecSpawns,
       Goto
  <2>2. queue_' = queue_ /\ (running_' = running_ \/ running_' = TRUE)
    BY <1>6 DEF Start, Stop, StopLock, StopNotify, StopLeave, Run, RunTest, RunLock, ExecSpawns,
       poolVars
  <2> QED
    BY <1>4, <1>5, <2>1, <2>2
<1>7. ASSUME NEW t \in Threads,
             TakeLock(t) \/ TakeSleep(t) \/ TakeResume(t) \/ TakeLeave(t) \/ Loop(t)
      PROVE  SleepJustified'
  <2>1. \E s \in {"takeTest", "takeBlocked", "exec", "takeLock", "ended"} :
            pc' = [pc EXCEPT ![t] = s]
    BY <1>7 DEF TakeLock, TakeSleep, TakeResume, TakeLeave, Loop, Goto
  <2>2. queue_' = queue_ /\ running_' = running_
    BY <1>7 DEF TakeLock, TakeSleep, TakeResume, TakeLeave, Loop, poolVars
  <2> QED
    BY <1>4, <1>5, <2>1, <2>2
<1>8. ASSUME NEW t \in Threads,
             \/ StartPush(t) \/ Destroy(t) \/ JoinedAll(t) \/ RunLeave(t)
             \/ ExecReturns(t) \/ ExecThrows(t)
      PROVE  SleepJustified'
  <2>1. \E s \in {"startCreate", "stopLock", "idle", "loop", "ended"} :
            pc' = [pc EXCEPT ![t] = s]
    BY <1>8, ReturnPc DEF StartPush, Destroy, JoinedAll, RunLeave, ExecReturns, ExecThrows, Goto
  <2>2. queue_' = queue_ /\ running_' = running_
    BY <1>8 DEF StartPush, Destroy, JoinedAll, RunLeave, ExecReturns, ExecThrows, poolVars
  <2> QED
    BY <1>4, <1>5, <2>1, <2>2
<1>9. ASSUME UNCHANGED <<pc, poolVars>> PROVE SleepJustified'
  BY <1>9 DEF SleepJustified, poolVars
<1> QED
  BY <1>1, <1>2, <1>3, <1>6, <1>7, <1>8, <1>9
     DEF Next, Step, ClientStep, RunStep, WorkerStep, Join, Spurious, Finished, vars, poolVars

----------------------------------------------------------------------------
(* The calls.  A step begins a call, is one step of a call, returns from   *)
(* one, or is none of a client's business.                                 *)

Begins(c, s) ==
    /\ c \in Clients /\ pc[c] = "idle" /\ todo[c] # <<>>
    /\ \/ Call(c) = "start" /\ s = "startPush"
       \/ Call(c) = "stop" /\ s = "stopLock"
       \/ Call(c) = "destroy" /\ s = "stopLock" /\ OthersReturned
       \/ Call(c) \in TaskKinds /\ s = "runTest"
    /\ UNCHANGED todo
    /\ \A d \in Clients : pc'[d] = IF d = c THEN s ELSE pc[d]

Continues(c, s) ==
    /\ c \in Clients
    /\ \/ pc[c] \in StartSteps /\ s \in StartSteps
       \/ pc[c] \in StopSteps /\ s \in StopSteps
       \/ pc[c] \in RunSteps /\ s \in RunSteps
    /\ UNCHANGED todo
    /\ \A d \in Clients : pc'[d] = IF d = c THEN s ELSE pc[d]

Returns(c) ==
    /\ c \in Clients /\ todo[c] # <<>>
    /\ pc[c] # "idle" \/ (Call(c) = "destroy" /\ OthersReturned)
    /\ todo' = [todo EXCEPT ![c] = Tail(@)]
    /\ \A d \in Clients : pc'[d] = IF d = c THEN "idle" ELSE pc[d]

ClientsRest == UNCHANGED todo /\ \A c \in Clients : pc'[c] = pc[c]

LEMMA CallMoves ==
    ASSUME TypeOK, Calls, Born, [Next]_vars
    PROVE  \/ \E c \in Clients, s \in ClientSteps \cup RunSteps : Begins(c, s) \/ Continues(c, s)
           \/ \E c \in Clients : Returns(c)
           \/ ClientsRest
<1> DEFINE Goal == \/ \E c \in Clients, s \in ClientSteps \cup RunSteps :
                          Begins(c, s) \/ Continues(c, s)
                   \/ \E c \in Clients : Returns(c)
                   \/ ClientsRest
<1>g. /\ \A c \in Clients, s \in ClientSteps \cup RunSteps :
             Begins(c, s) \/ Continues(c, s) => Goal
      /\ \A c \in Clients : Returns(c) => Goal
      /\ ClientsRest => Goal
  OBVIOUS
<1> HIDE DEF Goal
<1>a. /\ pc \in [Threads -> ClientSteps \cup RunSteps \cup WorkerSteps]
      /\ \A w \in Workers : pc[w] \in WorkerSteps \cup RunSteps
      /\ \A c \in Clients : pc[c] \in ClientSteps \cup RunSteps
  BY DEF TypeOK
<1>b. ASSUME NEW t \in Threads, NEW s, pc' = [pc EXCEPT ![t] = s], t \in Clients
      PROVE  \A d \in Clients : pc'[d] = IF d = t THEN s ELSE pc[d]
  BY <1>a, <1>b, Roles
<1>c. ASSUME NEW t \in Workers, NEW s, pc' = [pc EXCEPT ![t] = s], UNCHANGED todo
      PROVE  ClientsRest
  BY <1>a, <1>c, Roles DEF ClientsRest
<1>d. ASSUME NEW t \in Threads, Return(t), pc[t] # "idle" \/ (Call(t) = "destroy" /\ OthersReturned),
             t \in Clients => todo[t] # <<>>
      PROVE  Goal
  <2>1. CASE t \in Clients
    BY <1>b, <1>d, <1>g, <2>1 DEF Return, Goto, Returns
  <2>2. CASE t \in Workers
    BY <1>c, <1>d, <1>g, <2>2, Roles DEF Return, Goto
  <2> QED
    BY <2>1, <2>2, Roles
<1>f. ASSUME NEW t \in Clients, pc[t] # "idle" PROVE todo[t] # <<>>
  BY <1>f DEF Calls
<1>1. ASSUME NEW t \in Threads, Start(t) \/ Stop(t) \/ Run(t) PROVE Goal
  <2>1. PICK s \in ClientSteps \cup RunSteps :
          /\ pc' = [pc EXCEPT ![t] = s] /\ t \in Clients
          /\ \/ Call(t) = "start" /\ s = "startPush"
             \/ Call(t) = "stop" /\ s = "stopLock"
             \/ Call(t) \in TaskKinds /\ s = "runTest"
    BY <1>1 DEF Start, Stop, Run, Calling, Goto, ClientSteps, RunSteps
  <2>2. pc[t] = "idle" /\ todo[t] # <<>> /\ UNCHANGED todo
    BY <1>1 DEF Start, Stop, Run, Calling, At
  <2>3. Begins(t, s)
    BY <1>b, <2>1, <2>2 DEF Begins
  <2> QED
    BY <1>g, <2>1, <2>3
<1>2. ASSUME NEW t \in Threads, Destroy(t) PROVE Goal
  <2>1. CASE running_
    <3>1. Begins(t, "stopLock")
      BY <1>2, <1>b, <2>1 DEF Destroy, Calling, At, Goto, Begins
    <3> QED
      BY <1>2, <1>g, <3>1 DEF Destroy, Calling, ClientSteps
  <2>2. CASE ~running_
    BY <1>2, <1>d, <2>2 DEF Destroy, Calling
  <2> QED
    BY <2>1, <2>2
<1>3. ASSUME NEW t \in Threads,
             \/ StopLock(t) \/ StopClear(t) \/ StopNotify(t) \/ StopLeave(t)
             \/ StartPush(t) /\ pc' = [pc EXCEPT ![t] = "startCreate"] /\ UNCHANGED todo
      PROVE  Goal
  <2>1. PICK s \in ClientSteps :
          /\ pc' = [pc EXCEPT ![t] = s]
          /\ \/ pc[t] \in StartSteps /\ s \in StartSteps
             \/ pc[t] \in StopSteps /\ s \in StopSteps
    BY <1>3 DEF StopLock, StopClear, StopNotify, StopLeave, StartPush, At, Goto, ClientSteps,
       StartSteps, StopSteps
  <2>2. t \in Clients
    BY <1>a, <2>1, Roles DEF StartSteps, StopSteps, WorkerSteps, RunSteps, TakeSteps
  <2>3. UNCHANGED todo
    BY <1>3 DEF StopLock, StopClear, StopNotify, StopLeave
  <2>4. Continues(t, s)
    BY <1>b, <2>1, <2>2, <2>3 DEF Continues
  <2> QED
    BY <1>g, <2>1, <2>2, <2>4
<1>4. ASSUME NEW t \in Threads, StartPush(t) PROVE Goal
  <2>1. pc[t] # "idle"
    BY <1>4 DEF StartPush, At
  <2>2. t \in Clients => todo[t] # <<>>
    BY <1>f, <2>1
  <2>3. Return(t) => Goal
    BY <1>d, <2>1, <2>2
  <2> QED
    BY <1>3, <1>4, <2>3 DEF StartPush, Goto
<1>5. ASSUME NEW t \in Threads, StartCreate(t) PROVE Goal
  <2>1. PICK w \in Workers, s \in {"loop", "failed"} :
            pc' = [pc EXCEPT ![Master] = "startPush", ![w] = s]
    BY <1>5, OneCreated
  <2>2. pc[Master] = "startCreate" /\ UNCHANGED todo
    BY <1>5, OneCreated DEF StartCreate, At
  <2>3. Continues(Master, "startPush")
    BY <1>a, <2>1, <2>2, Roles DEF Continues, StartSteps
  <2> QED
    BY <1>g, <2>3, Roles DEF ClientSteps
<1>6. ASSUME NEW t \in Threads, RunTest(t) \/ RunLock(t) \/ RunPush(t) \/ ExecSpawns(t)
      PROVE  Goal
  <2>1. PICK s \in RunSteps : pc' = [pc EXCEPT ![t] = s]
    BY <1>6 DEF RunTest, RunLock, RunPush, ExecSpawns, Goto, RunSteps
  <2>2. pc[t] \in RunSteps /\ UNCHANGED todo
    BY <1>6 DEF RunTest, RunLock, RunPush, ExecSpawns, At, RunSteps
  <2>3. CASE t \in Clients
    <3>1. Continues(t, s)
      BY <1>b, <2>1, <2>2, <2>3 DEF Continues
    <3> QED
      BY <1>g, <2>1, <2>3, <3>1
  <2>4. CASE t \in Workers
    BY <1>c, <1>g, <2>1, <2>2, <2>4
  <2> QED
    BY <2>3, <2>4, Roles
<1>7. ASSUME NEW t \in Threads, JoinedAll(t) \/ RunLeave(t) \/ ExecReturns(t) PROVE Goal
  <2>1. pc[t] # "idle" /\ Return(t)
    BY <1>7 DEF JoinedAll, RunLeave, ExecReturns, At
  <2>2. t \in Clients => todo[t] # <<>>
    BY <1>f, <2>1
  <2> QED
    BY <1>d, <2>1, <2>2
<1>8. ASSUME NEW t \in Threads, ExecThrows(t) PROVE Goal
  <2>1. pc[t] # "idle"
    BY <1>8 DEF ExecThrows, At
  <2>2. CASE t \in Clients
    <3>1. Return(t) /\ todo[t] # <<>>
      BY <1>8, <1>f, <2>1, <2>2 DEF ExecThrows
    <3> QED
      BY <1>d, <2>1, <3>1
  <2>3. CASE t \in Workers
    BY <1>8, <1>c, <1>g, <2>3, Roles DEF ExecThrows, Goto
  <2> QED
    BY <2>2, <2>3, Roles
<1>9. ASSUME NEW t \in Threads, WorkerStep(t) PROVE Goal
  <2>1. PICK s : pc' = [pc EXCEPT ![t] = s]
    BY <1>9 DEF WorkerStep, Loop, TakeLock, TakeTest, TakeSleep, TakeResume, TakePop, TakeLeave,
       Goto
  <2>2. pc[t] \in WorkerSteps /\ UNCHANGED todo
    BY <1>9 DEF WorkerStep, Loop, TakeLock, TakeTest, TakeSleep, TakeResume, TakePop, TakeLeave,
       At, WorkerSteps, TakeSteps
  <2>3. t \in Workers
    BY <1>a, <2>2, Roles DEF ClientSteps, RunSteps, WorkerSteps, TakeSteps
  <2> QED
    BY <1>c, <1>g, <2>1, <2>2, <2>3
<1>10. ASSUME UNCHANGED <<pc, todo>> PROVE Goal
  BY <1>10, <1>g DEF ClientsRest
<1>11. Goal
  BY <1>1, <1>2, <1>4, <1>5, <1>3, <1>6, <1>7, <1>8, <1>9, <1>10
     DEF Next, Step, ClientStep, RunStep, Join, Spurious, Finished, vars
<1> QED
  BY <1>11 DEF Goal

\* A tail of a program keeps what is asked of the program.
LEMMA OnceEachTail ==
    ASSUME NEW S, NEW s \in Seq(S), s # <<>>, OnceEach(s)
    PROVE  /\ OnceEach(Tail(s))
           /\ DOMAIN Tail(s) = 1 .. Len(s) - 1 /\ Len(s) \in Nat \ {0}
           /\ \A i \in DOMAIN Tail(s) : i + 1 \in DOMAIN s /\ Tail(s)[i] = s[i + 1]
           /\ Head(s) = "destroy" => Tail(s) = <<>>
<1>1. /\ Tail(s) \in Seq(S) /\ Len(Tail(s)) = Len(s) - 1 /\ Len(s) \in Nat \ {0}
      /\ \A i \in 1 .. Len(Tail(s)) : Tail(s)[i] = s[i + 1]
      /\ Head(s) = s[1] /\ DOMAIN s = 1 .. Len(s)
  BY HeadTailProperties, EmptySeq, LenProperties
<1>2. DOMAIN Tail(s) = 1 .. Len(s) - 1
  BY <1>1, LenProperties
<1>3. \A i \in DOMAIN Tail(s) : i + 1 \in DOMAIN s /\ Tail(s)[i] = s[i + 1]
  BY <1>1, <1>2
<1>4. OnceEach(Tail(s))
  BY <1>1, <1>2, <1>3 DEF OnceEach
<1>5. ASSUME Head(s) = "destroy" PROVE Tail(s) = <<>>
  <2>1. Len(s) <= 1
    BY <1>1, <1>5 DEF OnceEach
  <2> QED
    BY <1>1, <2>1, EmptySeq
<1> QED
  BY <1>1, <1>2, <1>3, <1>4, <1>5

LEMMA MasterTodo ==
    ASSUME TypeOK, Calls
    PROVE  /\ todo[Master] \in Seq(TaskKinds \cup {"start", "stop", "destroy"})
           /\ OnceEach(todo[Master])
           /\ DOMAIN todo[Master] = 1 .. Len(todo[Master]) /\ Len(todo[Master]) \in Nat
           /\ todo[Master] # <<>> => 1 \in DOMAIN todo[Master] /\ Call(Master) = todo[Master][1]
<1>1. todo[Master] \in Seq(TaskKinds \cup {"start", "stop", "destroy"})
  BY Roles DEF TypeOK
<1> QED
  BY <1>1, LenProperties, EmptySeq, HeadTailProperties DEF Calls, Call

\* A call that has begun is not to come again, and nothing follows the destructor.
LEMMA CallIsOnce ==
    ASSUME TypeOK, Calls, NEW call, call \notin TaskKinds,
           todo[Master] # <<>>, Call(Master) \in {call, "destroy"}, pc[Master] # "idle"
    PROVE  ~ToCome(call)
<1>1. /\ OnceEach(todo[Master]) /\ 1 \in DOMAIN todo[Master] /\ Call(Master) = todo[Master][1]
      /\ DOMAIN todo[Master] = 1 .. Len(todo[Master]) /\ Len(todo[Master]) \in Nat
  BY MasterTodo
<1>2. ASSUME NEW i \in DOMAIN todo[Master], todo[Master][i] = call PROVE i = 1
  BY <1>1, <1>2 DEF OnceEach
<1> QED
  BY <1>2 DEF ToCome

LEMMA StopIsOnce ==
    ASSUME TypeOK, Calls, pc[Master] \in StopSteps
    PROVE  ~ToCome("stop")
BY CallIsOnce, Roles DEF Calls, StopSteps, TaskKinds

LEMMA StartIsOnce ==
    ASSUME TypeOK, Calls, pc[Master] \in StartSteps
    PROVE  ~ToCome("start")
BY CallIsOnce, Roles DEF Calls, StartSteps, TaskKinds

\* The calls to come only become fewer.
LEMMA ToComeShrinks ==
    ASSUME TypeOK, Calls, Born, [Next]_vars, NEW call, ToCome(call)'
    PROVE  ToCome(call)
<1>a. /\ OnceEach(todo[Master])
      /\ todo[Master] \in Seq(TaskKinds \cup {"start", "stop", "destroy"})
      /\ Len(todo[Master]) \in Nat /\ DOMAIN todo[Master] = 1 .. Len(todo[Master])
      /\ todo \in [Clients -> Seq(TaskKinds \cup {"start", "stop", "destroy"})]
  BY MasterTodo DEF TypeOK
<1>1. PICK i \in DOMAIN todo'[Master] :
         todo'[Master][i] = call /\ (i = 1 => pc'[Master] = "idle")
  BY DEF ToCome
<1>2. CASE \E c \in Clients : Returns(c)
  <2>1. PICK c \in Clients : Returns(c)
    BY <1>2
  <2>2. CASE c = Master
    <3>1. todo'[Master] = Tail(todo[Master]) /\ todo[Master] # <<>>
      BY <1>a, <2>1, <2>2 DEF Returns
    <3>2. i + 1 \in DOMAIN todo[Master] /\ todo[Master][i + 1] = call /\ i + 1 # 1
      BY <1>a, <1>1, <3>1, OnceEachTail
    <3> QED
      BY <3>2 DEF ToCome
  <2>3. CASE c # Master
    BY <1>a, <1>1, <2>1, <2>3, Roles DEF Returns, ToCome
  <2> QED
    BY <2>2, <2>3
<1>3. CASE \E c \in Clients, s \in ClientSteps \cup RunSteps : Begins(c, s) \/ Continues(c, s)
  <2>1. PICK c \in Clients, s \in ClientSteps \cup RunSteps : Begins(c, s) \/ Continues(c, s)
    BY <1>3
  <2>2. todo' = todo /\ (pc'[Master] = "idle" => pc[Master] = "idle")
    BY <2>1, Roles DEF Begins, Continues, StartSteps, StopSteps, RunSteps
  <2> QED
    BY <1>1, <2>2 DEF ToCome
<1>4. CASE ClientsRest
  BY <1>1, <1>4, Roles DEF ClientsRest, ToCome
<1> QED
  BY <1>2, <1>3, <1>4, CallMoves

LEMMA NextCalls ==
    ASSUME TypeOK, Calls, Born, [Next]_vars
    PROVE  Calls'
<1>a. /\ OnceEach(todo[Master])
      /\ todo[Master] \in Seq(TaskKinds \cup {"start", "stop", "destroy"})
      /\ todo \in [Clients -> Seq(TaskKinds \cup {"start", "stop", "destroy"})]
      /\ Master \in Clients
  BY MasterTodo, Roles DEF TypeOK
<1>1. ASSUME NEW c \in Clients, Returns(c) PROVE Calls'
  <2>1. OnceEach(todo'[Master])
    BY <1>a, <1>1, OnceEachTail DEF Returns
  <2>2. ASSUME NEW d \in Clients \ {Master} PROVE todo'[d] \in Seq(TaskKinds)
    <3>1. todo[d] \in Seq(TaskKinds)
      BY <2>2 DEF Calls
    <3> QED
      BY <1>a, <1>1, <3>1, HeadTailProperties DEF Returns
  <2>3. \A d \in Clients :
          /\ pc'[d] # "idle" => todo'[d] # <<>>
          /\ pc'[d] \in StartSteps => Call(d)' = "start" /\ d = Master
          /\ pc'[d] \in StopSteps => Call(d)' \in {"stop", "destroy"} /\ d = Master
    BY <1>a, <1>1 DEF Returns, Calls, Call, StartSteps, StopSteps
  <2>4. ASSUME pc'[Master] \in StopSteps, Call(Master)' = "destroy" PROVE OthersReturned'
    <3>1. c # Master /\ pc[Master] \in StopSteps /\ Call(Master) = "destroy"
      BY <1>a, <1>1, <2>4 DEF Returns, StopSteps, Call
    <3>2. OthersReturned
      BY <3>1 DEF Calls
    <3> QED
      BY <1>1, <3>1, <3>2 DEF Returns, OthersReturned
  <2> QED
    BY <2>1, <2>2, <2>3, <2>4 DEF Calls
<1>2. ASSUME NEW c \in Clients, NEW s \in ClientSteps \cup RunSteps, Begins(c, s) PROVE Calls'
  <2>1. c # Master => Call(c) \in TaskKinds
    BY <1>2, HeadTailProperties DEF Calls, Begins, Call
  <2>2. \A d \in Clients : Call(d)' = Call(d)
    BY <1>2 DEF Begins, Call
  <2>3. OthersReturned => OthersReturned'
    BY <1>2 DEF Begins, OthersReturned
  <2> QED
    BY <1>2, <1>a, <2>1, <2>2, <2>3 DEF Begins, Calls, StartSteps, StopSteps, TaskKinds
<1>3. ASSUME NEW c \in Clients, NEW s \in ClientSteps \cup RunSteps, Continues(c, s) PROVE Calls'
  <2>2. \A d \in Clients : Call(d)' = Call(d)
    BY <1>3 DEF Continues, Call
  <2>3. OthersReturned => OthersReturned'
    BY <1>3 DEF Continues, OthersReturned, StartSteps, StopSteps, RunSteps
  <2> QED
    BY <1>3, <1>a, <2>2, <2>3 DEF Continues, Calls, StartSteps, StopSteps, RunSteps
<1>4. ASSUME ClientsRest PROVE Calls'
  <2>1. \A d \in Clients : Call(d)' = Call(d)
    BY <1>4 DEF ClientsRest, Call
  <2> QED
    BY <1>4, <1>a, <2>1 DEF ClientsRest, Calls, OthersReturned
<1> QED
  BY <1>1, <1>2, <1>3, <1>4, CallMoves

----------------------------------------------------------------------------
(* Which steps write which variables, and which move which threads *)

LEMMA Frame ==
    ASSUME [Next]_vars
    PROVE  /\ (\E t \in Threads : Start(t) \/ StopClear(t)) \/ running_' = running_
           /\ (\E t \in Threads : StartPush(t)) \/ threads_' = threads_
           /\ (\E t \in Threads : Join(t)) \/ joins' = joins
           /\ (\E t \in Threads : Join(t) \/ StopLeave(t)) \/ joining' = joining
           /\ (\E t \in Threads : JoinedAll(t) \/ Destroy(t)) \/ destroyed' = destroyed
           /\ (\E t \in Threads : RunPush(t)) \/ enqueued' = enqueued
           /\ (\E t \in Threads : TakePop(t)) \/ (taken' = taken /\ late' = late)
           /\ (\E t \in Threads : RunPush(t) \/ TakePop(t)) \/ queue_' = queue_
           /\ (\E t \in Threads : Run(t) \/ ExecSpawns(t) \/ TakePop(t)) \/ task' = task
           /\ done \subseteq done'
<1>1. \/ \E t \in Threads : Step(t)
      \/ UNCHANGED <<running_, threads_, joins, joining, destroyed, enqueued, taken, late,
                     queue_, task, done>>
  BY DEF Next, Spurious, Finished, vars, poolVars, fate, history
<1>2. ASSUME NEW t \in Threads, ClientStep(t)
      PROVE  /\ Start(t) \/ StopClear(t) \/ running_' = running_
             /\ StartPush(t) \/ threads_' = threads_
             /\ Join(t) \/ joins' = joins
             /\ Join(t) \/ StopLeave(t) \/ joining' = joining
             /\ JoinedAll(t) \/ Destroy(t) \/ destroyed' = destroyed
             /\ UNCHANGED <<enqueued, taken, late, queue_, task, done>>
  BY <1>2 DEF ClientStep, Start, StartPush, StartCreate, Stop, Destroy, StopLock, StopClear,
     StopNotify, StopLeave, Join, JoinedAll, poolVars, fate, history
<1>3. ASSUME NEW t \in Threads, RunStep(t)
      PROVE  /\ UNCHANGED <<running_, threads_, joins, joining, destroyed, taken, late>>
             /\ RunPush(t) \/ enqueued' = enqueued
             /\ RunPush(t) \/ queue_' = queue_
             /\ Run(t) \/ ExecSpawns(t) \/ task' = task
             /\ done \subseteq done'
  BY <1>3 DEF RunStep, Run, RunTest, RunLock, RunPush, RunLeave, ExecReturns, ExecSpawns,
     ExecThrows, poolVars, fate, history
<1>4. ASSUME NEW t \in Threads, WorkerStep(t)
      PROVE  /\ UNCHANGED <<running_, threads_, joins, joining, destroyed, enqueued, done>>
             /\ TakePop(t) \/ (taken' = taken /\ late' = late /\ queue_' = queue_ /\ task' = task)
  BY <1>4 DEF WorkerStep, Loop, TakeLock, TakeTest, TakeSleep, TakeResume, TakePop, TakeLeave,
     poolVars, fate, history
<1> QED
  BY <1>1, <1>2, <1>3, <1>4 DEF Step

LEMMA PcMoves ==
    ASSUME TypeOK, Calls, Born, [Next]_vars, NEW t \in Threads, pc'[t] # pc[t]
    PROVE  \/ Step(t)
           \/ StartCreate(Master) /\ t = Pool[Len(threads_)]
<1>a. pc \in [Threads -> ClientSteps \cup RunSteps \cup WorkerSteps] /\ Master \in Threads
  BY Roles DEF TypeOK
<1>1. PICK u \in Threads : Step(u)
  BY DEF Next, Spurious, Finished, vars
<1>2. CASE StartCreate(u)
  BY <1>1, <1>2, <1>a, OneCreated
<1>3. CASE ~StartCreate(u)
  <2>1. CASE \E s : Goto(u, s)
    BY <1>1, <1>a, <2>1 DEF Goto
  <2>2. CASE Return(u)
    BY <1>1, <1>a, <2>2, ReturnPc
  <2>3. CASE Join(u)
    BY <2>3 DEF Join
  <2>4. (\E s : Goto(u, s)) \/ Return(u) \/ Join(u)
    <3>1. CASE ClientStep(u)
      BY <1>3, <3>1 DEF ClientStep, Start, StartPush, Stop, Destroy, StopLock, StopClear,
         StopNotify, StopLeave, JoinedAll
    <3>2. CASE RunStep(u)
      BY <3>2 DEF RunStep, Run, RunTest, RunLock, RunPush, RunLeave, ExecReturns, ExecSpawns,
         ExecThrows
    <3>3. CASE WorkerStep(u)
      BY <3>3 DEF WorkerStep, Loop, TakeLock, TakeTest, TakeSleep, TakeResume, TakePop, TakeLeave
    <3> QED
      BY <1>1, <3>1, <3>2, <3>3 DEF Step
  <2> QED
    BY <2>1, <2>2, <2>3, <2>4
<1> QED
  BY <1>2, <1>3

\* Only Master starts and stops the pool.
LEMMA MasterOnly ==
    ASSUME TypeOK, Calls, NEW t \in Threads
    PROVE  /\ pc[t] \in StartSteps \cup StopSteps => t = Master
           /\ Start(t) \/ Stop(t) \/ Destroy(t) =>
                  t = Master /\ pc[Master] = "idle" /\ todo[Master] # <<>>
<1>1. ASSUME pc[t] \in StartSteps \cup StopSteps PROVE t = Master
  <2>1. t \in Clients
    BY <1>1, Roles DEF TypeOK, StartSteps, StopSteps, WorkerSteps, RunSteps, TakeSteps
  <2> QED
    BY <1>1, <2>1 DEF Calls
<1>2. ASSUME Start(t) \/ Stop(t) \/ Destroy(t)
      PROVE  t = Master /\ pc[Master] = "idle" /\ todo[Master] # <<>>
  <2>1. /\ t \in Clients /\ todo[t] # <<>> /\ pc[t] = "idle"
        /\ Call(t) \in {"start", "stop", "destroy"}
    BY <1>2 DEF Start, Stop, Destroy, Calling, At
  <2> QED
    BY <2>1, HeadTailProperties DEF Calls, Call, TaskKinds
<1> QED
  BY <1>1, <1>2

LEMMA StartBegins ==
    ASSUME TypeOK, Calls, NEW t \in Threads, Start(t)
    PROVE  t = Master /\ ToCome("start") /\ ~ToCome("start")'
<1>1. /\ t = Master /\ pc[Master] = "idle" /\ todo[Master] # <<>> /\ Call(Master) = "start"
      /\ todo' = todo /\ pc' = [pc EXCEPT ![Master] = "startPush"]
  BY MasterOnly DEF Start, Calling, Goto
<1>2. /\ OnceEach(todo[Master]) /\ 1 \in DOMAIN todo[Master] /\ todo[Master][1] = "start"
  BY <1>1, MasterTodo
<1>3. ToCome("start")
  BY <1>1, <1>2 DEF ToCome
<1>4. ~ToCome("start")'
  <2>1. pc'[Master] # "idle"
    BY <1>1, Roles DEF TypeOK
  <2>2. \A i \in DOMAIN todo[Master] : todo[Master][i] = "start" => i = 1
    BY <1>2 DEF OnceEach, TaskKinds
  <2> QED
    BY <1>1, <2>1, <2>2 DEF ToCome
<1> QED
  BY <1>1, <1>3, <1>4

LEMMA StopBegins ==
    ASSUME TypeOK, Calls, NEW t \in Threads, Stop(t)
    PROVE  t = Master /\ ToCome("stop")
<1>1. t = Master /\ pc[Master] = "idle" /\ todo[Master] # <<>> /\ Call(Master) = "stop"
  BY MasterOnly DEF Stop, Calling
<1> QED
  BY <1>1, MasterTodo DEF ToCome

----------------------------------------------------------------------------
(* The life of the pool *)

LEMMA NextStarted ==
    ASSUME TypeOK, Calls, Born, StartedOnce, [Next]_vars
    PROVE  StartedOnce'
<1>1. ASSUME running_ \/ threads_ # <<>> \/ pc[Master] \in StartSteps PROVE ~ToCome("start")'
  BY <1>1, ToComeShrinks DEF StartedOnce
<1>2. ASSUME NEW t \in Threads, Start(t) PROVE ~ToCome("start")'
  BY <1>2, StartBegins
<1>3. ASSUME running_' \/ threads_' # <<>> \/ pc'[Master] \in StartSteps
      PROVE  \/ \E t \in Threads : Start(t)
             \/ running_ \/ threads_ # <<>> \/ pc[Master] \in StartSteps
  <2>1. CASE running_' # running_
    BY <1>3, <2>1, Frame DEF StopClear, TypeOK
  <2>2. CASE threads_' # threads_
    <3>1. PICK t \in Threads : pc[t] = "startPush"
      BY <2>2, Frame DEF StartPush, At
    <3> QED
      BY <3>1, MasterOnly DEF StartSteps
  <2>3. CASE pc'[Master] \in StartSteps /\ pc[Master] \notin StartSteps
    <3>1. Step(Master)
      BY <2>3, PcMoves, OneCreated, Roles
    <3> QED
      BY <2>3, <3>1, ReturnPc, Roles
         DEF Step, ClientStep, RunStep, WorkerStep, StartPush, StartCreate, Stop, Destroy,
             StopLock, StopClear, StopNotify, StopLeave, Join, JoinedAll, Run, RunTest, RunLock,
             RunPush, RunLeave, ExecReturns, ExecSpawns, ExecThrows, Loop, TakeLock, TakeTest,
             TakeSleep, TakeResume, TakePop, TakeLeave, Goto, At, StartSteps, TypeOK
  <2> QED
    BY <1>3, <2>1, <2>2, <2>3
<1> QED
  BY <1>1, <1>2, <1>3 DEF StartedOnce

\* What the steps do to the workers: one that has ended, or never came to life,
\* stays where it is, and only start() takes one out of "unborn".
LEMMA WorkerMoves ==
    ASSUME TypeOK, Calls, Born, [Next]_vars, NEW w \in Workers
    PROVE  /\ pc[w] \in {"ended", "failed"} => pc'[w] = pc[w]
           /\ pc'[w] = "unborn" => pc[w] = "unborn"
           /\ \/ pc[w] = "unborn" => pc'[w] = "unborn"
              \/ StartCreate(Master) /\ w = Pool[Len(threads_)]
<1>a. /\ w \in Threads /\ w \notin Clients
      /\ pc \in [Threads -> ClientSteps \cup RunSteps \cup WorkerSteps]
      /\ pc[w] \in WorkerSteps \cup RunSteps
  BY Roles DEF TypeOK
<1>1. CASE pc'[w] = pc[w]
  BY <1>1
<1>2. CASE StartCreate(Master) /\ w = Pool[Len(threads_)]
  <2>1. Master \in Threads /\ Master # w
    BY <1>a, Roles
  <2>2. pc[w] = "unborn" /\ pc'[w] \in {"loop", "failed"}
    BY <1>a, <1>2, <2>1, OneCreated
  <2> QED
    BY <1>2, <2>2
<1>3. CASE Step(w)
  <2>1. CASE ClientStep(w)
    BY <1>a, <2>1, MasterOnly, Roles
       DEF ClientStep, Start, StartPush, StartCreate, Stop, Destroy, StopLock, StopClear,
           StopNotify, StopLeave, Join, JoinedAll, Calling, At, StartSteps, StopSteps
  <2>2. CASE RunStep(w) \/ WorkerStep(w)
    <3>1. pc[w] \notin {"unborn", "failed", "ended"}
      BY <1>a, <2>2
         DEF RunStep, Run, RunTest, RunLock, RunPush, RunLeave, ExecReturns, ExecSpawns,
             ExecThrows, WorkerStep, Loop, TakeLock, TakeTest, TakeSleep, TakeResume, TakePop,
             TakeLeave, Calling, At
    <3>2. \E s : pc' = [pc EXCEPT ![w] = s] /\ s # "unborn"
      <4>1. CASE RunStep(w)
        <5>1. (\E s \in RunSteps \cup {"ended"} : pc' = [pc EXCEPT ![w] = s]) \/ Return(w)
          BY <4>1
             DEF RunStep, Run, RunTest, RunLock, RunPush, RunLeave, ExecReturns, ExecSpawns,
                 ExecThrows, Goto, RunSteps
        <5>2. "ended" # "unborn" /\ "loop" # "unborn" /\ "idle" # "unborn"
          OBVIOUS
        <5> QED
          BY <1>a, <5>1, <5>2, ReturnPc DEF RunSteps
      <4>2. CASE WorkerStep(w)
        <5>1. \E s \in TakeSteps \cup {"takeLock", "ended", "exec"} : pc' = [pc EXCEPT ![w] = s]
          BY <4>2 DEF WorkerStep, Loop, TakeLock, TakeTest, TakeSleep, TakeResume, TakePop,
             TakeLeave, Goto, TakeSteps
        <5> QED
          BY <5>1 DEF TakeSteps
      <4> QED
        BY <2>2, <4>1, <4>2
    <3> QED
      BY <1>a, <3>1, <3>2
  <2> QED
    BY <1>3, <2>1, <2>2 DEF Step
<1> QED
  BY <1>a, <1>1, <1>2, <1>3, PcMoves

\* And to Master inside start(), stop() and the destructor.
LEMMA MasterMoves ==
    ASSUME TypeOK, Calls, Born, [Next]_vars, pc'[Master] # pc[Master]
    PROVE  \/ Start(Master) /\ pc'[Master] = "startPush"
           \/ /\ StartPush(Master)
              /\ \/ Len(threads_) < Len(Pool) /\ pc'[Master] = "startCreate"
                 \/ ~(Len(threads_) < Len(Pool)) /\ pc'[Master] = "idle"
           \/ StartCreate(Master) /\ pc'[Master] = "startPush"
           \/ Stop(Master) /\ pc'[Master] = "stopLock"
           \/ Destroy(Master) /\ running_ /\ pc'[Master] = "stopLock"
           \/ StopLock(Master) /\ pc'[Master] = "stopClear"
           \/ StopClear(Master) /\ pc'[Master] = "stopNotify"
           \/ StopNotify(Master) /\ pc'[Master] = "stopLeave"
           \/ StopLeave(Master) /\ pc'[Master] = "join"
           \/ JoinedAll(Master) /\ pc'[Master] = "idle"
           \/ /\ pc[Master] \in RunSteps \cup {"idle"}
              /\ pc'[Master] \in RunSteps \cup {"idle"}
<1>a. /\ Master \in Threads /\ Master \in Clients
      /\ pc \in [Threads -> ClientSteps \cup RunSteps \cup WorkerSteps]
      /\ pc[Master] \in ClientSteps \cup RunSteps
  BY Roles DEF TypeOK
<1>b. \A s : Goto(Master, s) => pc'[Master] = s
  BY <1>a DEF Goto
<1>c. Return(Master) => pc'[Master] = "idle"
  BY <1>a, <1>b DEF Return
<1>d. StartCreate(Master) => pc'[Master] = "startPush"
  <2>1. Master \notin Workers
    BY Roles
  <2> QED
    BY <1>a, <2>1, OneCreated
<1>1. Step(Master)
  BY PcMoves, OneCreated, Roles
<1>2. CASE ClientStep(Master)
  BY <1>a, <1>b, <1>c, <1>d, <1>2
     DEF ClientStep, Start, StartPush, Stop, Destroy, StopLock, StopClear,
         StopNotify, StopLeave, Join, JoinedAll, Calling, At, RunSteps
<1>3. CASE RunStep(Master)
  BY <1>a, <1>b, <1>c, <1>3
     DEF RunStep, Run, RunTest, RunLock, RunPush, RunLeave, ExecReturns, ExecSpawns,
         ExecThrows, Calling, At, RunSteps
<1>4. CASE WorkerStep(Master)
  BY <1>a, <1>4
     DEF WorkerStep, Loop, TakeLock, TakeTest, TakeSleep, TakeResume, TakePop, TakeLeave, At,
         ClientSteps, RunSteps
<1> QED
  BY <1>1, <1>2, <1>3, <1>4 DEF Step

LEMMA NextBorn ==
    ASSUME TypeOK, Calls, Born, [Next]_vars
    PROVE  Born'
<1>a. /\ Len(Pool) \in Nat /\ Len(threads_) \in 0 .. Len(Pool)
      /\ \A i \in 1 .. Len(Pool) : Pool[i] \in Workers
      /\ \A i, j \in 1 .. Len(Pool) : Pool[i] = Pool[j] => i = j
      /\ threads_ = <<>> <=> Len(threads_) = 0
  BY PoolIsSeq, CrewIsPrefix
<1>1. ASSUME StartCreate(Master) PROVE Born'
  <2>1. /\ Len(threads_) \in 1 .. Len(Pool) /\ Pool[Len(threads_)] \in Workers
        /\ \E s \in {"loop", "failed"} :
              pc' = [pc EXCEPT ![Master] = "startPush", ![Pool[Len(threads_)]] = s]
        /\ pc[Master] = "startCreate" /\ threads_' = threads_
    BY <1>1, Roles, OneCreated DEF StartCreate, At, poolVars
  <2>2. pc'[Master] = "startPush" /\ pc'[Pool[Len(threads_)]] \in {"loop", "failed"}
    BY <2>1, Roles DEF TypeOK
  <2>3. \A i \in 1 .. Len(Pool) : i # Len(threads_) => pc'[Pool[i]] = pc[Pool[i]]
    BY <1>a, <2>1, Roles DEF TypeOK
  <2>4. ASSUME NEW i \in 1 .. Len(Pool)
        PROVE  pc'[Pool[i]] = "unborn" <=> i > Len(threads_)
    <3>1. CASE i = Len(threads_)
      BY <1>a, <2>2, <3>1
    <3>2. CASE i # Len(threads_)
      <4>1. pc'[Pool[i]] = pc[Pool[i]]
        BY <2>3, <3>2
      <4>2. pc[Pool[i]] = "unborn" <=> i > Len(threads_)
        BY <2>1, <3>2 DEF Born
      <4> QED
        BY <4>1, <4>2
    <3> QED
      BY <3>1, <3>2
  <2> QED
    BY <2>1, <2>2, <2>4 DEF Born
<1>2. ASSUME StartPush(Master), Len(threads_) < Len(Pool) PROVE Born'
  <2>1. /\ pc[Master] = "startPush" /\ Len(threads_') = Len(threads_) + 1
        /\ pc' = [pc EXCEPT ![Master] = "startCreate"]
        /\ threads_' \in Seq(Workers)
    BY <1>2, <1>a, CrewGrows, CrewIsPrefix, AppendProperties DEF StartPush, At, Goto
  <2>2. pc'[Master] = "startCreate" /\ \A i \in 1 .. Len(Pool) : pc'[Pool[i]] = pc[Pool[i]]
    <3>1. pc'[Master] = "startCreate" /\ \A w \in Workers : pc'[w] = pc[w]
      BY <2>1, Roles DEF TypeOK
    <3> QED
      BY <1>a, <3>1
  <2>3. threads_' # <<>>
    BY <1>a, <2>1, EmptySeq
  <2> QED
    BY <1>a, <2>1, <2>2, <2>3 DEF Born
<1>3. ASSUME ~StartCreate(Master), ~(StartPush(Master) /\ Len(threads_) < Len(Pool)) PROVE Born'
  <2>1. threads_' = threads_
    <3>1. ASSUME NEW t \in Threads, StartPush(t) PROVE threads_' = threads_
      <4>1. t = Master
        BY <3>1, MasterOnly DEF StartPush, At, StartSteps
      <4> QED
        BY <1>3, <3>1, <4>1 DEF StartPush
    <3> QED
      BY <3>1, Frame
  <2>2. pc'[Master] = "startCreate" <=> pc[Master] = "startCreate"
    BY <1>3, MasterMoves
       DEF StartPush, Start, StartCreate, Stop, Destroy, StopLock, StopClear, StopNotify, StopLeave,
           JoinedAll, At, Calling, RunSteps
  <2>3. \A i \in 1 .. Len(Pool) : pc'[Pool[i]] = "unborn" <=> pc[Pool[i]] = "unborn"
    BY <1>3, <1>a, WorkerMoves
  <2> QED
    BY <2>1, <2>2, <2>3 DEF Born
<1> QED
  BY <1>1, <1>2, <1>3

\* Nobody but Master writes what Joined is about.
LEMMA PoolFrame ==
    ASSUME TypeOK, Calls, [Next]_vars
    PROVE  /\ ~Start(Master) /\ ~StopClear(Master) => running_' = running_
           /\ ~StartPush(Master) => threads_' = threads_
           /\ ~Join(Master) => joins' = joins
           /\ ~Join(Master) /\ ~StopLeave(Master) => joining' = joining
           /\ ~JoinedAll(Master) /\ ~Destroy(Master) => destroyed' = destroyed
<1>1. ASSUME NEW t \in Threads,
             \/ Start(t) \/ StopClear(t) \/ StartPush(t) \/ Join(t) \/ StopLeave(t)
             \/ JoinedAll(t) \/ Destroy(t)
      PROVE  t = Master
  BY <1>1, MasterOnly
     DEF StopClear, StartPush, Join, StopLeave, JoinedAll, At, StartSteps, StopSteps
<1> QED
  BY <1>1, Frame

LEMMA NextJoined ==
    ASSUME TypeOK, Calls, StartedOnce, Born, Joined, [Next]_vars
    PROVE  Joined'
<1>a. /\ Len(Pool) \in Nat /\ Len(threads_) \in 0 .. Len(Pool)
      /\ \A i \in 1 .. Len(Pool) : Pool[i] \in Workers
      /\ \A i, j \in 1 .. Len(Pool) : Pool[i] = Pool[j] => i = j
      /\ threads_ = <<>> <=> Len(threads_) = 0
      /\ joining \in 1 .. Len(Pool) + 1 /\ joins \in [Workers -> Nat]
      /\ Master \in Threads
  BY PoolIsSeq, CrewIsPrefix, Roles DEF TypeOK
<1>b. \A i \in 1 .. Len(Pool) :
         pc[Pool[i]] \in {"ended", "failed"} => pc'[Pool[i]] \in {"ended", "failed"}
  BY <1>a, WorkerMoves
<1>c. ToCome("stop")' => ToCome("stop")
  BY ToComeShrinks
<1>d. pc[Master] \in StopSteps => ~ToCome("stop")
  BY StopIsOnce
<1>1. ASSUME Join(Master) PROVE Joined'
  <2>1. /\ pc[Master] = "join" /\ joining \in 1 .. Len(threads_)
        /\ threads_[joining] = Pool[joining]
        /\ pc[Pool[joining]] \in {"ended", "failed"}
        /\ joins' = [joins EXCEPT ![Pool[joining]] = @ + 1] /\ joining' = joining + 1
        /\ UNCHANGED <<pc, running_, threads_>>
    <3>1. joining \in 1 .. Len(threads_)
      BY <1>1, <1>a DEF Join
    <3>2. threads_[joining] = Pool[joining]
      BY <3>1, CrewIsPrefix
    <3> QED
      BY <1>1, <3>1, <3>2 DEF Join, At, poolVars
  <2>2. /\ ~running_ /\ joins[Pool[joining]] # 1 /\ joins[Pool[joining]] \in {0, 1}
        /\ \A i \in 1 .. Len(Pool) : joins[Pool[i]] = 1 <=> i < joining
    BY <1>a, <2>1 DEF Joined, StopSteps
  <2>3. /\ joins'[Pool[joining]] = 1
        /\ \A i \in 1 .. Len(Pool) : i # joining => joins'[Pool[i]] = joins[Pool[i]]
    BY <1>a, <2>1, <2>2
  <2>4. ~ToCome("stop")'
    BY <1>c, <1>d, <2>1 DEF StopSteps
  <2>5. \A i \in 1 .. Len(Pool) : /\ joins'[Pool[i]] \in {0, 1}
                                  /\ joins'[Pool[i]] = 1 => pc[Pool[i]] \in {"ended", "failed"}
    <3> SUFFICES ASSUME NEW i \in 1 .. Len(Pool)
                 PROVE  /\ joins'[Pool[i]] \in {0, 1}
                        /\ joins'[Pool[i]] = 1 => pc[Pool[i]] \in {"ended", "failed"}
      OBVIOUS
    <3>1. CASE i = joining
      BY <2>1, <2>3, <3>1
    <3>2. CASE i # joining
      BY <2>3, <3>2 DEF Joined
    <3> QED
      BY <3>1, <3>2
  <2>6. \A i \in 1 .. Len(Pool) : joins'[Pool[i]] = 1 <=> i < joining'
    <3> SUFFICES ASSUME NEW i \in 1 .. Len(Pool)
                 PROVE  joins'[Pool[i]] = 1 <=> i < joining'
      OBVIOUS
    <3>1. joining' = joining + 1 /\ joining \in Nat
      BY <1>a, <2>1
    <3>2. CASE i = joining
      BY <2>3, <3>1, <3>2
    <3>3. CASE i # joining
      <4>1. joins'[Pool[i]] = joins[Pool[i]]
        BY <2>3, <3>3
      <4> QED
        BY <2>2, <3>1, <3>3, <4>1
    <3> QED
      BY <3>2, <3>3
  <2> QED
    BY <1>a, <2>1, <2>2, <2>4, <2>5, <2>6 DEF Joined, StartSteps, StopSteps
<1>2. ASSUME ~Join(Master) PROVE Joined'
  <2>a. joins' = joins
    BY <1>2, PoolFrame
  <2>b. NoneJoined' <=> NoneJoined
    BY <2>a DEF NoneJoined
  <2>c. \A i \in 1 .. Len(Pool) : /\ joins'[Pool[i]] \in {0, 1}
                                  /\ joins'[Pool[i]] = 1 => pc'[Pool[i]] \in {"ended", "failed"}
    BY <1>b, <2>a DEF Joined
  <2>d. ToCome("stop")' => NoneJoined'
    BY <1>c, <2>b DEF Joined
  <2>1. CASE Start(Master)
    <3>1. ~running_ /\ Len(threads_) = 0 /\ pc[Master] = "idle"
      BY <1>a, <2>1, StartBegins DEF StartedOnce, Start, Calling, At
    <3>2. \A i \in 1 .. Len(Pool) : pc[Pool[i]] \notin {"ended", "failed"}
      BY <1>a, <3>1 DEF Born
    <3>3. NoneJoined
      BY <3>2 DEF NoneJoined, Joined
    <3>4. running_' = TRUE /\ pc'[Master] = "startPush"
      BY <1>a, <2>1 DEF Start, Goto, TypeOK
    <3> QED
      BY <2>b, <2>c, <2>d, <3>3, <3>4 DEF Joined, StartSteps, StopSteps
  <2>2. CASE StopClear(Master)
    <3>1. pc[Master] = "stopClear" /\ running_' = FALSE /\ pc'[Master] = "stopNotify"
      BY <1>a, <2>2 DEF StopClear, At, Goto, TypeOK
    <3>2. NoneJoined
      BY <3>1 DEF Joined, StopSteps
    <3> QED
      BY <2>b, <2>c, <2>d, <3>1, <3>2 DEF Joined, StartSteps, StopSteps
  <2>3. CASE StopLeave(Master)
    <3>1. /\ pc[Master] = "stopLeave" /\ pc'[Master] = "join" /\ joining' = 1
          /\ UNCHANGED <<running_, threads_>>
      BY <1>a, <2>3 DEF StopLeave, At, Goto, TypeOK, poolVars
    <3>2. NoneJoined /\ ~running_
      BY <3>1 DEF Joined, StopSteps
    <3>3. \A i \in 1 .. Len(Pool) : joins'[Pool[i]] = 1 <=> i < 1
      BY <2>a, <3>2 DEF NoneJoined
    <3> QED
      BY <1>a, <2>b, <2>c, <2>d, <3>1, <3>2, <3>3 DEF Joined, StartSteps, StopSteps
  <2>4. CASE StartPush(Master)
    <3>1. /\ pc[Master] = "startPush" /\ pc'[Master] \in {"startCreate", "idle"}
          /\ running_' = running_
      BY <1>a, <2>4, ReturnPc, Roles DEF StartPush, At, Goto, Return, TypeOK
    <3>2. running_ /\ NoneJoined
      BY <3>1 DEF Joined, StartSteps
    <3> QED
      BY <2>b, <2>c, <2>d, <3>1, <3>2 DEF Joined, StartSteps, StopSteps
  <2>5. CASE ~(Start(Master) \/ StopClear(Master) \/ StopLeave(Master) \/ StartPush(Master))
    <3>1. UNCHANGED <<running_, threads_, joining>>
      BY <1>2, <2>5, PoolFrame
    <3>2. CASE pc'[Master] = pc[Master]
      BY <2>a, <2>b, <2>c, <2>d, <3>1, <3>2 DEF Joined
    <3>3. CASE StartCreate(Master) /\ pc'[Master] = "startPush"
      <4>1. running_ /\ NoneJoined
        BY <3>3 DEF Joined, StartCreate, At, StartSteps
      <4> QED
        BY <2>b, <2>c, <2>d, <3>1, <3>3, <4>1 DEF Joined, StartSteps, StopSteps
    <3>4. CASE (Stop(Master) \/ (Destroy(Master) /\ running_)) /\ pc'[Master] = "stopLock"
      <4>1. NoneJoined /\ pc[Master] = "idle"
        BY <1>a, <3>4, StopBegins, MasterOnly DEF Joined
      <4> QED
        BY <2>a, <2>b, <2>c, <2>d, <3>1, <3>4, <4>1 DEF Joined, StartSteps, StopSteps
    <3>5. CASE (StopLock(Master) /\ pc'[Master] = "stopClear")
               \/ (StopNotify(Master) /\ pc'[Master] = "stopLeave")
      <4>1. pc[Master] \in {"stopLock", "stopNotify"} /\ (pc[Master] = "stopNotify" => ~running_)
        BY <3>5 DEF Joined, StopLock, StopNotify, At
      <4>2. NoneJoined
        BY <4>1 DEF Joined, StopSteps
      <4> QED
        BY <2>a, <2>b, <2>c, <2>d, <3>1, <3>5, <4>1, <4>2
           DEF Joined, StartSteps, StopSteps, StopLock, StopNotify, At
    <3>6. CASE JoinedAll(Master) /\ pc'[Master] = "idle"
      <4>1. ~running_ /\ \A i \in 1 .. Len(threads_) : joins[Pool[i]] = 1
        BY <1>a, <3>6 DEF Joined, JoinedAll, At
      <4> QED
        BY <2>a, <2>b, <2>c, <2>d, <3>1, <3>6, <4>1 DEF Joined, StartSteps, StopSteps
    <3>7. CASE pc[Master] \in RunSteps \cup {"idle"} /\ pc'[Master] \in RunSteps \cup {"idle"}
      BY <2>a, <2>b, <2>c, <2>d, <3>1, <3>7 DEF Joined, StartSteps, StopSteps, RunSteps
    <3> QED
      BY <2>5, <3>2, <3>3, <3>4, <3>5, <3>6, <3>7, MasterMoves
  <2> QED
    BY <2>1, <2>2, <2>3, <2>4, <2>5
<1> QED
  BY <1>1, <1>2

LEMMA NextGone ==
    ASSUME TypeOK, Calls, Born, Joined, Gone, [Next]_vars
    PROVE  Gone'
<1>a. Master \in Threads /\ Master \in Clients
  BY Roles
<1>1. CASE destroyed
  <2>1. ClientsRest
    BY <1>1, CallMoves DEF Gone, Begins, Continues, Returns, StartSteps, StopSteps, RunSteps
  <2>2. ~Start(Master) /\ ~StopClear(Master)
    BY <1>1, <1>a DEF Gone, Start, Calling, StopClear, At
  <2> QED
    BY <1>1, <2>1, <2>2, PoolFrame DEF Gone, ClientsRest
<1>2. CASE ~destroyed /\ ~JoinedAll(Master) /\ ~Destroy(Master)
  BY <1>2, PoolFrame DEF Gone
<1>3. ASSUME destroyed', JoinedAll(Master) \/ Destroy(Master), ~destroyed PROVE Gone'
  <2>1. /\ OthersReturned /\ Call(Master) = "destroy" /\ ~running_ /\ running_' = running_
        /\ todo[Master] # <<>> /\ Return(Master)
    <3>1. CASE JoinedAll(Master)
      BY <1>3, <1>a, <3>1 DEF JoinedAll, At, Calls, Joined, StopSteps, poolVars
    <3>2. CASE Destroy(Master)
      BY <1>3, <3>2 DEF Destroy, Calling, poolVars
    <3> QED
      BY <1>3, <3>1, <3>2
  <2>2. /\ pc' = [pc EXCEPT ![Master] = "idle"]
        /\ todo' = [todo EXCEPT ![Master] = Tail(@)]
    BY <1>a, <2>1 DEF Return, Goto
  <2>3. Tail(todo[Master]) = <<>>
    BY <2>1, MasterTodo, OnceEachTail DEF Call
  <2> QED
    BY <1>a, <2>1, <2>2, <2>3, Roles DEF Gone, OthersReturned, TypeOK
<1> QED
  BY <1>1, <1>2, <1>3 DEF Gone

----------------------------------------------------------------------------
(* Sleepers *)

LEMMA NextNoSleeper ==
    ASSUME TypeOK, LockDiscipline, SleepJustified, Calls, Born, NoSleeperAfterStop, [Next]_vars
    PROVE  NoSleeperAfterStop'
<1>a. /\ MonitorTypeOK /\ waiters["cond_"] \subseteq Threads
      /\ Master \in Threads /\ Master \notin Workers
      /\ pc \in [Threads -> ClientSteps \cup RunSteps \cup WorkerSteps]
  BY Roles DEF TypeOK, MonitorTypeOK
<1>1. ASSUME StopNotify(Master) PROVE waiters'["cond_"] = {}
  BY <1>1, <1>a, Roles DEF StopNotify, AllNotified, MonitorTypeOK
<1>2. ASSUME NEW t \in Threads, TakeSleep(t) PROVE running_'
  <2>1. pc[t] = "takeSleep" /\ running_' = running_
    BY <1>2 DEF TakeSleep, At, poolVars
  <2>2. t \in Workers
    BY <2>1, Roles DEF TypeOK, ClientSteps, RunSteps
  <2> QED
    BY <2>1, <2>2 DEF SleepJustified
<1>3. (\E t \in Threads : TakeSleep(t)) \/ waiters'["cond_"] \subseteq waiters["cond_"]
  <2>1. ASSUME NEW t \in Threads, StopNotify(t) PROVE waiters'["cond_"] \subseteq waiters["cond_"]
    BY <1>a, <2>1, Roles DEF StopNotify, AllNotified, MonitorTypeOK
  <2>2. ASSUME NEW t \in Threads, RunPush(t) PROVE waiters'["cond_"] \subseteq waiters["cond_"]
    BY <1>a, <2>2, Roles, NotifiedOne DEF RunPush
  <2>3. ASSUME Spurious PROVE waiters'["cond_"] \subseteq waiters["cond_"]
    BY <1>a, <2>3, Roles, SpuriousOne DEF Spurious
  <2>4. ASSUME NEW t \in Threads, ClientStep(t), ~StopNotify(t) PROVE waiters' = waiters
    BY <2>4 DEF ClientStep, Start, StartPush, StartCreate, Stop, Destroy, StopLock, StopClear,
       StopLeave, Join, JoinedAll, monitorVars
  <2>5. ASSUME NEW t \in Threads, RunStep(t), ~RunPush(t) PROVE waiters' = waiters
    BY <2>5 DEF RunStep, Run, RunTest, RunLock, RunLeave, ExecReturns, ExecSpawns, ExecThrows,
       monitorVars
  <2>6. ASSUME NEW t \in Threads, WorkerStep(t), ~TakeSleep(t) PROVE waiters' = waiters
    BY <2>6 DEF WorkerStep, Loop, TakeLock, TakeTest, TakeResume, TakePop, TakeLeave,
       CondResume, monitorVars
  <2>7. UNCHANGED vars => waiters' = waiters
    BY DEF vars
  <2> QED
    BY <2>1, <2>2, <2>3, <2>4, <2>5, <2>6, <2>7 DEF Next, Step, Finished
<1>4. ASSUME running_ \/ pc[Master] = "stopNotify", ~StopNotify(Master)
      PROVE  running_' \/ pc'[Master] = "stopNotify"
  <2>1. CASE StopClear(Master)
    BY <1>a, <2>1 DEF StopClear, Goto
  <2>2. CASE Start(Master)
    BY <2>2 DEF Start
  <2>3. CASE ~StopClear(Master) /\ ~Start(Master)
    <3>1. running_' = running_
      BY <2>3, PoolFrame
    <3>2. ASSUME pc[Master] = "stopNotify" PROVE pc'[Master] = "stopNotify"
      <4>1. SUFFICES ASSUME pc'[Master] # pc[Master] PROVE FALSE
        BY <3>2
      <4> QED
        BY <1>4, <3>2, <4>1, MasterMoves
           DEF Start, StartPush, StartCreate, Stop, Destroy, StopLock, StopClear, StopLeave,
               JoinedAll, Calling, At, RunSteps
    <3> QED
      BY <1>4, <3>1, <3>2
  <2> QED
    BY <2>1, <2>2, <2>3
<1> QED
  BY <1>1, <1>2, <1>3, <1>4 DEF NoSleeperAfterStop

\* take() by a worker.
LEMMA OnePopped ==
    ASSUME TypeOK, NEW t \in Threads, TakePop(t)
    PROVE  /\ t \in Workers /\ pc[t] = "takePop" /\ pc' = [pc EXCEPT ![t] = "takeLeave"]
           /\ running_' = running_ /\ threads_' = threads_
           /\ \/ /\ queue_ = <<>> /\ UNCHANGED <<queue_, taken, late>>
                 /\ task' = [task EXCEPT ![t] = NoTask]
              \/ /\ queue_ # <<>> /\ queue_' = Tail(queue_) /\ taken' = Append(taken, Head(queue_))
                 /\ task' = [task EXCEPT ![t] = Head(queue_)]
                 /\ \/ running_ /\ late' = late
                    \/ ~running_ /\ late' = [late EXCEPT ![t] = late[t] + 1]
<1>1. pc[t] = "takePop" /\ pc' = [pc EXCEPT ![t] = "takeLeave"]
      /\ running_' = running_ /\ threads_' = threads_
  BY DEF TakePop, At, Goto
<1>2. t \in Workers
  BY <1>1, Roles DEF TypeOK, ClientSteps, RunSteps
<1>3. CASE queue_ = <<>>
  BY <1>1, <1>2, <1>3 DEF TakePop
<1>4. CASE queue_ # <<>>
  <2>1. late' = [late EXCEPT ![t] = IF running_ THEN @ ELSE @ + 1]
        /\ queue_' = Tail(queue_) /\ taken' = Append(taken, Head(queue_))
        /\ task' = [task EXCEPT ![t] = Head(queue_)]
    BY <1>4 DEF TakePop
  <2>2. running_ => late' = late
    BY <1>2, <2>1 DEF TypeOK
  <2> QED
    BY <1>1, <1>2, <1>4, <2>1, <2>2
<1> QED
  BY <1>3, <1>4

LEMMA NextLate ==
    ASSUME TypeOK, Calls, StartedOnce, Born, LateOnce, [Next]_vars
    PROVE  LateOnce'
<1>a. /\ pc \in [Threads -> ClientSteps \cup RunSteps \cup WorkerSteps]
      /\ late \in [Workers -> Nat] /\ Workers \subseteq Threads
      /\ \A w \in Workers : pc[w] \in WorkerSteps \cup RunSteps
  BY Roles DEF TypeOK
<1>1. ASSUME NEW t \in Threads, TakePop(t) PROVE LateOnce'
  <2>1. /\ t \in Workers /\ pc[t] = "takePop" /\ pc' = [pc EXCEPT ![t] = "takeLeave"]
        /\ running_' = running_ /\ threads_' = threads_
        /\ late' = late \/ (~running_ /\ late' = [late EXCEPT ![t] = late[t] + 1])
    BY <1>1, OnePopped
  <2>2. late[t] = 0
    BY <1>a, <2>1 DEF LateOnce, RunSteps
  <2>3. threads_ # <<>>
    <3>1. PICK i \in 1 .. Len(Pool) : t = Pool[i]
      BY <2>1, PoolIsSeq
    <3>2. ~(i > Len(threads_))
      BY <2>1, <3>1 DEF Born
    <3> QED
      BY <3>1, <3>2, CrewIsPrefix, PoolIsSeq
  <2> QED
    BY <1>a, <2>1, <2>2, <2>3 DEF LateOnce, RunSteps
<1>2. ASSUME \A t \in Threads : ~TakePop(t), NEW w \in Workers
      PROVE  /\ late'[w] <= 1
             /\ late'[w] = 1 => /\ ~running_' /\ threads_' # <<>>
                                /\ pc'[w] \in {"takeLeave", "loop", "ended"} \cup RunSteps
  <2>1. late' = late /\ late[w] <= 1
    BY <1>2, Frame DEF LateOnce
  <2>2. ASSUME late[w] = 1
        PROVE  /\ ~running_' /\ threads_' # <<>>
               /\ pc'[w] \in {"takeLeave", "loop", "ended"} \cup RunSteps
    <3>1. /\ ~running_ /\ threads_ # <<>>
          /\ pc[w] \in {"takeLeave", "loop", "ended"} \cup RunSteps
      BY <2>2 DEF LateOnce
    <3>2. ~running_'
      BY <3>1, StartBegins, Roles, PoolFrame DEF StartedOnce, StopClear
    <3>3. threads_' # <<>>
      <4>1. threads_' = threads_ \/ (Len(threads_) < Len(Pool) /\ StartPush(Master))
        BY PoolFrame DEF StartPush
      <4>2. ASSUME Len(threads_) < Len(Pool), StartPush(Master) PROVE threads_' # <<>>
        BY <4>2, CrewGrows, CrewIsPrefix, AppendProperties, EmptySeq, PoolIsSeq DEF StartPush
      <4> QED
        BY <3>1, <4>1, <4>2
    <3>4. pc'[w] \in {"takeLeave", "loop", "ended"} \cup RunSteps
      <4>1. CASE pc'[w] = pc[w]
        BY <3>1, <4>1
      <4>2. CASE StartCreate(Master) /\ w = Pool[Len(threads_)]
        BY <3>1, <4>2, OneCreated, Roles DEF RunSteps
      <4>3. CASE RunStep(w)
        <5>1. (\E s \in RunSteps \cup {"ended"} : pc' = [pc EXCEPT ![w] = s]) \/ Goto(w, "loop")
          BY <4>3, Roles
             DEF RunStep, Run, Calling, RunTest, RunLock, RunPush, RunLeave, ExecReturns,
                 ExecSpawns, ExecThrows, Goto, Return, RunSteps
        <5> QED
          BY <1>a, <5>1 DEF Goto
      <4>4. CASE WorkerStep(w)
        <5>1. Loop(w) \/ TakeLeave(w)
          BY <3>1, <4>4
             DEF WorkerStep, TakeLock, TakeTest, TakeSleep, TakeResume, TakePop, At, RunSteps
        <5>2. pc'[w] \in {"ended", "exec"}
          BY <1>a, <3>1, <5>1 DEF Loop, TakeLeave, Goto
        <5> QED
          BY <5>2 DEF RunSteps
      <4>5. CASE ClientStep(w)
        BY <3>1, <4>5, <1>a, MasterOnly, Roles
           DEF ClientStep, Start, StartPush, StartCreate, Stop, Destroy, StopLock, StopClear,
               StopNotify, StopLeave, Join, JoinedAll, Calling, At, StartSteps, StopSteps
      <4> QED
        BY <1>a, <4>1, <4>2, <4>3, <4>4, <4>5, PcMoves DEF Step
    <3> QED
      BY <3>2, <3>3, <3>4
  <2> QED
    BY <2>1, <2>2
<1> QED
  BY <1>1, <1>2 DEF LateOnce

----------------------------------------------------------------------------
(* The tasks *)

\* What a worker holds it keeps until it has executed it.
LEMMA HeldTask ==
    ASSUME TypeOK, Calls, Born, [Next]_vars, NEW w \in Workers,
           pc[w] \in {"takeLeave", "exec"}
    PROVE  \/ task[w] \in done'
           \/ pc'[w] \in {"takeLeave", "exec"} /\ task'[w] = task[w]
<1>a. /\ w \in Threads /\ w \notin Clients
      /\ pc \in [Threads -> ClientSteps \cup RunSteps \cup WorkerSteps]
      /\ task \in [Threads -> Tasks]
  BY Roles DEF TypeOK
<1>1. CASE ExecReturns(w) \/ ExecSpawns(w) \/ ExecThrows(w)
  BY <1>a, <1>1 DEF ExecReturns, ExecSpawns, ExecThrows
<1>2. CASE TakeLeave(w)
  BY <1>a, <1>2 DEF TakeLeave, Goto
<1>3. CASE ~(ExecReturns(w) \/ ExecSpawns(w) \/ ExecThrows(w) \/ TakeLeave(w))
  <2>1. ~Step(w)
    <3>1. ~ClientStep(w)
      BY <1>a, MasterOnly, Roles
         DEF ClientStep, Start, StartPush, StartCreate, Stop, Destroy, StopLock, StopClear,
             StopNotify, StopLeave, Join, JoinedAll, Calling, At
    <3>2. ~RunStep(w)
      BY <1>a, <1>3 DEF RunStep, Run, Calling, RunTest, RunLock, RunPush, RunLeave, At
    <3>3. ~WorkerStep(w)
      BY <1>3 DEF WorkerStep, Loop, TakeLock, TakeTest, TakeSleep, TakeResume, TakePop, At
    <3> QED
      BY <3>1, <3>2, <3>3 DEF Step
  <2>2. pc'[w] = pc[w]
    BY <1>a, <2>1, PcMoves, OneCreated, Roles
  <2>3. task'[w] = task[w]
    <3>1. ASSUME NEW t \in Threads, Run(t) \/ ExecSpawns(t) \/ TakePop(t)
          PROVE  task'[w] = task[w]
      <4>1. t # w
        BY <1>3, <1>a, <3>1 DEF Run, Calling, TakePop, At
      <4>2. CASE Run(t)
        BY <1>a, <4>1, <4>2 DEF Run
      <4>3. CASE ExecSpawns(t)
        BY <1>a, <4>1, <4>3 DEF ExecSpawns
      <4>4. CASE TakePop(t)
        BY <1>a, <4>1, <4>4, OnePopped
      <4> QED
        BY <3>1, <4>2, <4>3, <4>4
    <3> QED
      BY <1>a, <3>1, Frame
  <2> QED
    BY <2>2, <2>3
<1> QED
  BY <1>1, <1>2, <1>3

LEMMA NextTaken ==
    ASSUME TypeOK, Calls, Born, TakenKept, [Next]_vars
    PROVE  TakenKept'
<1>a. /\ taken \in Seq(Tasks) /\ DOMAIN taken = 1 .. Len(taken) /\ Len(taken) \in Nat
      /\ queue_ \in Seq(Tasks)
      /\ pc \in [Threads -> ClientSteps \cup RunSteps \cup WorkerSteps]
      /\ task \in [Threads -> Tasks] /\ Workers \subseteq Threads
  BY LenProperties, Roles DEF TypeOK
<1>1. ASSUME NEW i \in DOMAIN taken
      PROVE  \/ taken[i] \in done'
             \/ \E w \in Workers : pc'[w] \in {"takeLeave", "exec"} /\ task'[w] = taken[i]
  <2>1. CASE taken[i] \in done
    BY <2>1, Frame
  <2>2. CASE \E w \in Workers : pc[w] \in {"takeLeave", "exec"} /\ task[w] = taken[i]
    BY <2>2, HeldTask
  <2> QED
    BY <2>1, <2>2 DEF TakenKept
<1>2. CASE taken' = taken
  BY <1>1, <1>2 DEF TakenKept
<1>3. ASSUME NEW t \in Threads, TakePop(t), taken' # taken PROVE TakenKept'
  <2>1. /\ t \in Workers /\ queue_ # <<>> /\ taken' = Append(taken, Head(queue_))
        /\ task' = [task EXCEPT ![t] = Head(queue_)]
        /\ pc' = [pc EXCEPT ![t] = "takeLeave"]
    BY <1>3, OnePopped
  <2>2. Head(queue_) \in Tasks
    BY <1>a, <2>1, FifoPop
  <2>3. /\ DOMAIN taken' = 1 .. Len(taken) + 1
        /\ taken'[Len(taken) + 1] = Head(queue_)
        /\ \A i \in 1 .. Len(taken) : taken'[i] = taken[i]
    BY <1>a, <2>1, <2>2, AppendProperties, LenProperties
  <2>4. ASSUME NEW i \in DOMAIN taken'
        PROVE  \/ taken'[i] \in done'
               \/ \E w \in Workers : pc'[w] \in {"takeLeave", "exec"} /\ task'[w] = taken'[i]
    <3>1. CASE i \in 1 .. Len(taken)
      BY <1>1, <1>a, <2>3, <3>1
    <3>2. CASE i = Len(taken) + 1
      BY <1>a, <2>1, <2>3, <3>2
    <3> QED
      BY <1>a, <2>3, <3>1, <3>2
  <2> QED
    BY <2>4 DEF TakenKept
<1> QED
  BY <1>2, <1>3, Frame

LEMMA NextFifo ==
    ASSUME TypeOK, Fifo, [Next]_vars
    PROVE  Fifo'
<1>a. /\ queue_ \in Seq(Tasks) /\ enqueued \in Seq(Tasks) /\ taken \in Seq(Tasks)
      /\ task \in [Threads -> Tasks]
  BY DEF TypeOK
<1>1. ASSUME NEW t \in Threads, RunPush(t) PROVE Fifo'
  <2>1. /\ queue_' = Append(queue_, task[t]) /\ enqueued' = Append(enqueued, task[t])
        /\ taken' = taken
    BY <1>1 DEF RunPush
  <2>2. task[t] \in Tasks /\ enqueued = taken \o queue_
    BY <1>a DEF Fifo
  <2>3. Append(enqueued, task[t]) = taken \o Append(queue_, task[t])
    BY <1>a, <2>2, FifoPush
  <2> QED
    BY <2>1, <2>3 DEF Fifo
<1>2. ASSUME NEW t \in Threads, TakePop(t) PROVE Fifo'
  <2>1. enqueued' = enqueued
    BY <1>2 DEF TakePop
  <2>2. CASE queue_ = <<>>
    BY <1>2, <2>1, <2>2, OnePopped DEF Fifo
  <2>3. CASE queue_ # <<>>
    <3>1. taken \o queue_ = Append(taken, Head(queue_)) \o Tail(queue_)
      BY <1>a, <2>3, FifoPop
    <3>2. taken' = Append(taken, Head(queue_)) /\ queue_' = Tail(queue_)
      BY <1>2, <2>3, OnePopped
    <3> QED
      BY <2>1, <3>1, <3>2 DEF Fifo
  <2> QED
    BY <2>2, <2>3
<1>3. CASE UNCHANGED <<enqueued, taken, queue_>>
  BY <1>3 DEF Fifo
<1> QED
  BY <1>1, <1>2, <1>3, Frame

----------------------------------------------------------------------------
(* Wakeups *)

\* A step that leaves the deque alone, puts nobody to sleep and keeps the
\* awake takers awake loses no wakeup.
LEMMA TakersCalm ==
    ASSUME NoLostWakeup, queue_ \in Seq(Tasks), queue_' = queue_,
           waiters'["cond_"] # {} => waiters["cond_"] # {},
           AwakeTakers \subseteq AwakeTakers'
    PROVE  NoLostWakeup'
<1>1. AwakeTakers \in SUBSET Threads /\ AwakeTakers' \in SUBSET Threads
  BY Roles DEF AwakeTakers
<1>2. /\ Cardinality(AwakeTakers) <= Cardinality(AwakeTakers')
      /\ Cardinality(AwakeTakers) \in Nat /\ Cardinality(AwakeTakers') \in Nat
  BY <1>1, ThreadCount
<1>3. Len(queue_) \in Nat
  BY LenProperties
<1> QED
  BY <1>2, <1>3 DEF NoLostWakeup

LEMMA NextWakeups ==
    ASSUME TypeOK, LockDiscipline, SleepJustified, Calls, Born, NoLostWakeup, [Next]_vars
    PROVE  NoLostWakeup'
<1>a. /\ MonitorTypeOK /\ queue_ \in Seq(Tasks) /\ Len(queue_) \in Nat
      /\ pc \in [Threads -> ClientSteps \cup RunSteps \cup WorkerSteps]
      /\ waiters["cond_"] \subseteq Threads /\ Workers \subseteq Threads
      /\ task \in [Threads -> Tasks]
  BY LenProperties, Roles DEF TypeOK, MonitorTypeOK
<1>b. /\ AwakeTakers \in SUBSET Threads /\ AwakeTakers' \in SUBSET Threads
      /\ Cardinality(AwakeTakers) \in Nat /\ Cardinality(AwakeTakers') \in Nat
  <2>1. AwakeTakers \in SUBSET Threads /\ AwakeTakers' \in SUBSET Threads
    BY Roles DEF AwakeTakers
  <2> QED
    BY <2>1, ThreadCount
<1>c. queue_ = <<>> /\ queue_' = queue_ => NoLostWakeup'
  BY <1>b, EmptySeq DEF NoLostWakeup
<1>1. ASSUME NEW t \in Threads, RunPush(t) PROVE NoLostWakeup'
  <2>1. Len(queue_') = Len(queue_) + 1
    BY <1>1, <1>a, AppendProperties DEF RunPush
  <2>2. CASE waiters'["cond_"] = {}
    BY <2>2 DEF NoLostWakeup
  <2>3. ASSUME NEW u \in waiters["cond_"], waiters'["cond_"] = waiters["cond_"] \ {u}
        PROVE  NoLostWakeup'
    <3>1. /\ u \in Threads \ AwakeTakers /\ pc[u] = "takeBlocked" /\ u # t
          /\ waiters["cond_"] # {} /\ u \in Workers
          /\ pc[t] = "runPush" /\ pc' = [pc EXCEPT ![t] = "runLeave"]
      BY <1>a, <1>1, <2>3, Roles
         DEF AwakeTakers, LockDiscipline, RunPush, At, Goto, TypeOK, ClientSteps, RunSteps
    <3>2. AwakeTakers' = AwakeTakers \cup {u}
      BY <1>a, <2>3, <3>1 DEF AwakeTakers
    <3>3. Cardinality(AwakeTakers') = Cardinality(AwakeTakers) + 1
      BY <1>b, <3>1, <3>2, ThreadCount
    <3> QED
      BY <1>a, <1>b, <2>1, <3>1, <3>3 DEF NoLostWakeup
  <2> QED
    BY <1>a, <1>1, <2>2, <2>3, NotifiedOne, Roles DEF RunPush
<1>2. ASSUME NEW t \in Threads, TakePop(t) PROVE NoLostWakeup'
  <2>1. CASE queue_ = <<>>
    BY <1>2, <1>c, <2>1, OnePopped
  <2>2. CASE queue_ # <<>>
    <3>1. Len(queue_') = Len(queue_) - 1
      BY <1>a, <1>2, <2>2, OnePopped, FifoPop
    <3>2. waiters' = waiters
      BY <1>2 DEF TakePop, monitorVars
    <3>3. t \in AwakeTakers /\ AwakeTakers' = AwakeTakers \ {t}
      BY <1>a, <1>2, <3>2, OnePopped DEF AwakeTakers, LockDiscipline
    <3>4. Cardinality(AwakeTakers') = Cardinality(AwakeTakers) - 1
      BY <1>b, <3>3, ThreadCount
    <3> QED
      BY <1>a, <1>b, <3>1, <3>2, <3>4 DEF NoLostWakeup
  <2> QED
    BY <2>1, <2>2
<1>3. ASSUME NEW t \in Threads, TakeSleep(t) PROVE NoLostWakeup'
  <2>1. t \in Workers /\ pc[t] = "takeSleep" /\ queue_' = queue_
    BY <1>3, <1>a, Roles DEF TakeSleep, At, TypeOK, ClientSteps, RunSteps, poolVars
  <2> QED
    BY <1>c, <2>1 DEF SleepJustified
<1>4. ASSUME NEW t \in Threads, TakeTest(t) PROVE NoLostWakeup'
  <2>1. queue_' = queue_ /\ waiters' = waiters
    BY <1>4 DEF TakeTest, poolVars, monitorVars
  <2>2. CASE queue_ = <<>>
    BY <1>c, <2>1, <2>2
  <2>3. CASE queue_ # <<>>
    <3>1. AwakeTakers \subseteq AwakeTakers'
      BY <1>a, <1>4, <2>1, <2>3 DEF TakeTest, Goto, AwakeTakers
    <3> QED
      BY <1>a, <2>1, <3>1, TakersCalm
  <2> QED
    BY <2>2, <2>3
<1>5. ASSUME NEW t \in Threads, TakeResume(t) PROVE NoLostWakeup'
  <2>1. queue_' = queue_ /\ waiters' = waiters
    BY <1>5 DEF TakeResume, CondResume, poolVars
  <2>2. AwakeTakers \subseteq AwakeTakers'
    BY <1>a, <1>5, <2>1 DEF TakeResume, Goto, AwakeTakers
  <2> QED
    BY <1>a, <2>1, <2>2, TakersCalm
<1>6. ASSUME queue_' = queue_, waiters'["cond_"] \subseteq waiters["cond_"],
             \A w \in Workers : pc[w] \in {"takeTest", "takeBlocked", "takePop"} =>
                                    pc'[w] = pc[w]
      PROVE  NoLostWakeup'
  <2>1. AwakeTakers \subseteq AwakeTakers'
    BY <1>6 DEF AwakeTakers
  <2> QED
    BY <1>a, <1>6, <2>1, TakersCalm
<1>7. ASSUME NEW t \in Threads, Step(t),
             ~(RunPush(t) \/ TakePop(t) \/ TakeSleep(t) \/ TakeTest(t) \/ TakeResume(t))
      PROVE  /\ queue_' = queue_
             /\ waiters'["cond_"] \subseteq waiters["cond_"]
             /\ pc[t] \notin {"takeTest", "takeBlocked", "takePop"}
  <2>1. CASE ClientStep(t)
    <3>1. StopNotify(t) => waiters'["cond_"] = {}
      BY <1>a, Roles DEF StopNotify, AllNotified, MonitorTypeOK
    <3> QED
      BY <2>1, <3>1
         DEF ClientStep, Start, StartPush, StartCreate, Stop, Destroy, StopLock, StopClear,
             StopNotify, StopLeave, Join, JoinedAll, Calling, At, poolVars, monitorVars
  <2>2. CASE RunStep(t)
    BY <1>7, <2>2
       DEF RunStep, Run, Calling, RunTest, RunLock, RunLeave, ExecReturns, ExecSpawns,
           ExecThrows, At, poolVars, monitorVars
  <2>3. CASE WorkerStep(t)
    BY <1>7, <2>3 DEF WorkerStep, Loop, TakeLock, TakeLeave, At, poolVars, monitorVars
  <2> QED
    BY <1>7, <2>1, <2>2, <2>3 DEF Step
<1>8. ASSUME NEW t \in Threads, Step(t), pc[t] \notin {"takeTest", "takeBlocked", "takePop"},
             NEW w \in Workers, pc[w] \in {"takeTest", "takeBlocked", "takePop"}
      PROVE  pc'[w] = pc[w]
  <2>1. t # w
    BY <1>8
  <2>2. CASE StartCreate(t)
    BY <1>8, <1>a, <2>1, <2>2, OneCreated
  <2>3. CASE ~StartCreate(t)
    <3>1. (\E s : Goto(t, s)) \/ Return(t) \/ pc' = pc
      BY <1>8, <2>3
         DEF Step, ClientStep, Start, StartPush, Stop, Destroy, StopLock, StopClear,
             StopNotify, StopLeave, Join, JoinedAll, RunStep, Run, RunTest, RunLock, RunPush,
             RunLeave, ExecReturns, ExecSpawns, ExecThrows, WorkerStep, Loop, TakeLock,
             TakeTest, TakeSleep, TakeResume, TakePop, TakeLeave
    <3> QED
      BY <1>a, <2>1, <3>1, ReturnPc DEF Goto
  <2> QED
    BY <2>2, <2>3
<1>9. ASSUME Spurious PROVE NoLostWakeup'
  <2>1. /\ waiters'["cond_"] \subseteq waiters["cond_"]
        /\ queue_' = queue_ /\ pc' = pc
    BY <1>a, <1>9, Roles, SpuriousOne DEF Spurious, poolVars
  <2> QED
    BY <1>6, <2>1
<1>10. ASSUME UNCHANGED vars PROVE NoLostWakeup'
  BY <1>10 DEF vars, NoLostWakeup, AwakeTakers
<1> QED
  BY <1>1, <1>2, <1>3, <1>4, <1>5, <1>6, <1>7, <1>8, <1>9, <1>10 DEF Next, Finished

----------------------------------------------------------------------------
(* The theorems *)

LEMMA InitIInv == Init => IInv
<1> SUFFICES ASSUME Init PROVE IInv
  OBVIOUS
<1>a. /\ pc = [t \in Threads |-> IF t \in Clients THEN "idle" ELSE "unborn"]
      /\ running_ = FALSE /\ threads_ = <<>> /\ queue_ = <<>> /\ destroyed = FALSE
      /\ enqueued = <<>> /\ taken = <<>> /\ late = [w \in Workers |-> 0]
      /\ joins = [w \in Workers |-> 0]
      /\ owner = NoThread /\ holder_ = NoThread /\ waiters = [c \in Conds |-> {}]
  BY DEF Init, MonitorInit
<1>b. /\ \A c \in Clients : pc[c] = "idle"
      /\ \A w \in Workers : pc[w] = "unborn"
      /\ Master \in Clients /\ waiters["cond_"] = {} /\ NoThread \notin Threads
  BY <1>a, Roles, ThreadsAssumption
<1>c. Len(Pool) \in Nat /\ \A i \in 1 .. Len(Pool) : Pool[i] \in Workers
  BY PoolIsSeq
<1>1. TypeOK
  <2>1. MonitorTypeOK
    BY <1>a DEF MonitorTypeOK
  <2>2. PcOK
    BY <1>a, <1>b, Roles DEF PcOK, ClientSteps, WorkerSteps
  <2>3. TodoOK
    BY ProgramAssumption DEF Init, TodoOK
  <2>4. DataOK
    <3>1. SubSeq(Pool, 1, 0) = <<>> /\ 0 \in 0 .. Len(Pool)
      BY <1>c, PoolIsSeq, SubSeqEmpty
    <3>2. <<>> \in Seq(Tasks) /\ NoTask \in Tasks
      BY DEF Tasks, NoTask
    <3>3. \E n \in 0 .. Len(Pool) : threads_ = SubSeq(Pool, 1, n)
      BY <1>a, <3>1
    <3>4. /\ task = [t \in Threads |-> NoTask] /\ joining = 1 /\ crashed = FALSE
          /\ done = {}
      BY DEF Init
    <3>5. task \in [Threads -> Tasks] /\ joining \in 1 .. Len(Pool) + 1
      BY <1>c, <3>2, <3>4
    <3> QED
      BY <1>a, <3>2, <3>3, <3>4, <3>5 DEF DataOK
  <2> QED
    BY <2>1, <2>2, <2>3, <2>4, TypeParts
<1>2. LockDiscipline /\ SleepJustified
  BY <1>a, <1>b, Roles DEF LockDiscipline, SleepJustified, LockedSteps
<1>3. Calls
  BY <1>b, ProgramAssumption DEF Init, Calls, OnceEach, StartSteps, StopSteps
<1>4. StartedOnce
  BY <1>a, <1>b DEF StartedOnce, StartSteps
<1>5. Born /\ Joined
  <2>1. Len(threads_) = 0
    BY <1>a, EmptySeq
  <2>2. NoneJoined
    BY <1>a, <1>c DEF NoneJoined
  <2>3. Born
    BY <1>b, <1>c, <2>1 DEF Born
  <2>4. pc[Master] = "idle" /\ \A i \in 1 .. Len(Pool) : joins[Pool[i]] = 0
    BY <1>b, <2>2 DEF NoneJoined
  <2>5. Joined
    BY <1>a, <2>1, <2>2, <2>4 DEF Joined, StartSteps, StopSteps
  <2> QED
    BY <2>3, <2>5
<1>6. Gone /\ LateOnce /\ TakenKept
  <2>1. DOMAIN taken = {}
    BY <1>a
  <2> QED
    BY <1>a, <2>1 DEF Gone, LateOnce, TakenKept
<1>7. Fifo
  <2>1. <<>> = <<>> \o <<>>
    BY EmptySeq, ConcatEmptySeq
  <2> QED
    BY <1>a, <2>1 DEF Fifo
<1>8. NoLostWakeup /\ NoSleeperAfterStop
  BY <1>b DEF NoLostWakeup, NoSleeperAfterStop
<1> QED
  BY <1>1, <1>2, <1>3, <1>4, <1>5, <1>6, <1>7, <1>8 DEF IInv

LEMMA NextIInv == IInv /\ [Next]_vars => IInv'
<1> SUFFICES ASSUME IInv, [Next]_vars PROVE IInv'
  OBVIOUS
<1>1. /\ TypeOK /\ LockDiscipline /\ SleepJustified
      /\ Calls /\ StartedOnce /\ Born /\ Joined /\ Gone
      /\ LateOnce /\ TakenKept
      /\ Fifo /\ NoLostWakeup /\ NoSleeperAfterStop
  BY DEF IInv
<1>2. TypeOK' /\ LockDiscipline' /\ SleepJustified' /\ Calls' /\ StartedOnce'
  BY <1>1, NextTypes, NextLock, NextSleep, NextCalls, NextStarted
<1>3. Born' /\ Joined' /\ Gone' /\ LateOnce' /\ TakenKept'
  BY <1>1, NextBorn, NextJoined, NextGone, NextLate, NextTaken
<1>4. Fifo' /\ NoLostWakeup' /\ NoSleeperAfterStop'
  BY <1>1, NextFifo, NextWakeups, NextNoSleeper
<1> QED
  BY <1>2, <1>3, <1>4 DEF IInv

LEMMA Invariance == Spec => []IInv
BY InitIInv, NextIInv, PTL DEF Spec

\* What is joined has ended, or never lived, what has not been made has nothing.
LEMMA JoinedHasEnded ==
    ASSUME IInv, (pc[Master] = "join" /\ joining > Len(threads_)) \/ destroyed, NEW w \in Workers
    PROVE  \/ pc[w] = "unborn"
           \/ pc[w] \in {"ended", "failed"} /\ joins[w] = 1
<1>1. PICK i \in 1 .. Len(Pool) : w = Pool[i]
  BY PoolIsSeq
<1>2. /\ Len(Pool) \in Nat /\ Len(threads_) \in 0 .. Len(Pool) /\ joining \in 1 .. Len(Pool) + 1
      /\ Born /\ Joined /\ Gone
  BY PoolIsSeq, CrewIsPrefix DEF IInv, TypeOK
<1>3. CASE i > Len(threads_)
  BY <1>1, <1>2, <1>3 DEF Born
<1>4. CASE i <= Len(threads_)
  <2>1. joins[Pool[i]] = 1
    <3>1. CASE pc[Master] = "join" /\ joining > Len(threads_)
      BY <1>2, <1>4, <3>1 DEF Joined
    <3>2. CASE destroyed
      <4>1. ~running_ /\ pc[Master] = "idle"
        BY <1>2, <3>2, Roles DEF Gone
      <4> QED
        BY <1>2, <1>4, <4>1 DEF Joined
    <3> QED
      BY <3>1, <3>2
  <2> QED
    BY <1>1, <1>2, <2>1 DEF Joined
<1> QED
  BY <1>2, <1>3, <1>4

LEMMA FinishesTasks == IInv => StopFinishesTasks
<1> SUFFICES ASSUME IInv, (pc[Master] = "join" /\ joining > Len(threads_)) \/ destroyed,
                    NEW i \in DOMAIN taken
             PROVE  taken[i] \in done
  BY DEF StopFinishesTasks
<1>1. \A w \in Workers : pc[w] \notin {"takeLeave", "exec"}
  BY JoinedHasEnded
<1> QED
  BY <1>1 DEF IInv, TakenKept

LEMMA IsSafelyDestroyed == IInv => SafeDestruction
<1> SUFFICES ASSUME IInv, destroyed PROVE SafeDestruction
  BY DEF SafeDestruction
<1>1. /\ \A w \in Workers : pc[w] = "unborn" \/ (pc[w] \in {"ended", "failed"} /\ joins[w] = 1)
      /\ \A c \in Clients : pc[c] = "idle"
  BY JoinedHasEnded DEF IInv, Gone
<1>2. \A t \in Threads : pc[t] \notin LockedSteps \cup {"takeBlocked"}
  BY <1>1, Roles DEF LockedSteps
<1>3. owner = NoThread /\ holder_ = NoThread /\ waiters["cond_"] = {}
  BY <1>2, Roles DEF IInv, TypeOK, MonitorTypeOK, LockDiscipline
<1> QED
  BY <1>1, <1>3 DEF SafeDestruction

\* The types of the class; in particular threads_ is always a beginning of
\* the pool, and join() never runs past it.
THEOREM TypeCorrect == Spec => []TypeOK
BY Invariance, PTL DEF IInv

\* Tasks leave the deque once, in the order in which run() put them there.
THEOREM NothingLost == Spec => []Fifo
BY Invariance, PTL DEF IInv

\* One notify() for each run() is enough, whatever becomes of the workers
\* that are executing tasks.
THEOREM WakeupsSuffice == Spec => []NoLostWakeup
BY Invariance, PTL DEF IInv

\* stop() leaves no worker asleep, though running_ is read without the mutex
\* by the loop of runInThread().
THEOREM NobodyLeftAsleep == Spec => []NoSleeperAfterStop
BY Invariance, PTL DEF IInv

\* After stop() cleared running_ a worker takes at most one task more.
THEOREM StopPrompt == Spec => []StopIsPrompt
<1>1. IInv => StopIsPrompt
  BY DEF IInv, LateOnce, StopIsPrompt
<1> QED
  BY <1>1, Invariance, PTL

\* When stop() returns every task that was taken has been executed.
THEOREM NoTaskAbandoned == Spec => []StopFinishesTasks
BY Invariance, FinishesTasks, PTL

\* Nobody uses a pool that is gone, and join() was called once for every worker,
\* whichever of them came to life.  Where one did not, the join() that the
\* destructor survived to get here is itself undefined (Thread.cc:124).
THEOREM DestructionIsSafe == Spec => []SafeDestruction
BY Invariance, IsSafelyDestroyed, PTL

=============================================================================
