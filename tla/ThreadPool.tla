----------------------------- MODULE ThreadPool -----------------------------
(***************************************************************************)
(* ThreadPool.cc: worker threads that take tasks from a deque behind one   *)
(* mutex and one condition.                                                *)
(*                                                                         *)
(* Clients run programs of calls; one of them, Master, starts, stops and   *)
(* destroys the pool.  A task is one of                                    *)
(*   "ok"       returns                                                    *)
(*   "spawn"    calls run() with a task that returns                       *)
(*   "throws"   throws an Exception or a std::exception                    *)
(*   "unknown"  throws anything else                                       *)
(* running_ and threads_ are read without the mutex by runInThread(),      *)
(* run() and the destructor, as the code does.                             *)
(***************************************************************************)
EXTENDS Monitor, Sequences

CONSTANTS Clients, Master,   \* the threads outside the pool
          Pool,              \* the worker threads, in the order start() makes them
          Programs           \* p \in Programs: p[c] is the calls client c makes

TaskKinds == {"ok", "spawn", "throws", "unknown"}

Workers == {Pool[i] : i \in DOMAIN Pool}

ASSUME PoolAssumption == /\ Conds = {"cond_"}
                         /\ Pool \in Seq(Threads)
                         /\ \A i, j \in DOMAIN Pool : Pool[i] = Pool[j] => i = j
                         /\ Threads = Clients \cup Workers
                         /\ Clients \cap Workers = {}
                         /\ Master \in Clients

\* The contract of the class: Master alone starts, stops and destroys the
\* pool; start() is called once (stop() leaves threads_ as it is, and a
\* second start() would meet `assert(threads_.empty())'), stop() once (it
\* would join again), and nothing follows the destructor.
ASSUME ProgramAssumption == \A p \in Programs :
    /\ p \in [Clients -> Seq(TaskKinds \cup {"start", "stop", "destroy"})]
    /\ \A c \in Clients \ {Master} : p[c] \in Seq(TaskKinds)
    /\ \A i, j \in DOMAIN p[Master] :
          /\ p[Master][i] = p[Master][j] /\ p[Master][i] \notin TaskKinds => i = j
          /\ p[Master][i] = "destroy" => j <= i

VARIABLES running_,
          threads_,    \* ptr_vector<Thread>: the workers pushed so far
          queue_,      \* deque<Task>
          pc,          \* where each thread is
          todo,        \* todo[c]: the calls c has still to make, the present one first
          task,        \* task[t]: the task t runs, passes to run() or took
          joining,     \* join() loop of stop(): position in threads_
          crashed,     \* the process was terminated, by std::terminate or in join()
          destroyed    \* the pool is gone

\* History: tasks put in queue_ and taken out of it in order, the tasks that
\* were executed, the number of tasks a worker took after stop() cleared
\* running_, and how often join() was called for a worker.
VARIABLES enqueued, taken, done, late, joins

poolVars == <<running_, threads_, queue_>>
fate     == <<crashed, destroyed>>
history  == <<enqueued, taken, done, late, joins>>

vars == <<owner, holder_, waiters, running_, threads_, queue_, pc, todo, task,
          joining, crashed, destroyed, enqueued, taken, done, late, joins>>

----------------------------------------------------------------------------
(* State *)

\* The empty boost::function that take() returns when the deque is empty.
NoTask == [id |-> <<>>, kind |-> "none"]

ClientSteps == {"idle", "startPush", "startCreate", "stopLock", "stopClear",
                "stopNotify", "stopLeave", "join"}
RunSteps    == {"runTest", "runLock", "runPush", "runLeave", "exec"}
TakeSteps   == {"takeTest", "takeSleep", "takeBlocked", "takePop", "takeLeave"}
WorkerSteps == {"unborn", "failed", "loop", "takeLock", "ended"} \cup TakeSteps

Call(t) == Head(todo[t])

Init == /\ MonitorInit
        /\ running_ = FALSE
        /\ threads_ = <<>>
        /\ queue_ = <<>>
        /\ pc = [t \in Threads |-> IF t \in Clients THEN "idle" ELSE "unborn"]
        /\ todo \in Programs
        /\ task = [t \in Threads |-> NoTask]
        /\ joining = 1
        /\ crashed = FALSE
        /\ destroyed = FALSE
        /\ enqueued = <<>>
        /\ taken = <<>>
        /\ done = {}
        /\ late = [w \in Workers |-> 0]
        /\ joins = [w \in Workers |-> 0]

Goto(t, step) == pc' = [pc EXCEPT ![t] = step]

At(t, step) == pc[t] = step

\* A client's call returns; a worker that called run() or executed a task
\* goes back to the loop of runInThread().
Return(t) == IF t \in Clients
             THEN Goto(t, "idle") /\ todo' = [todo EXCEPT ![t] = Tail(@)]
             ELSE Goto(t, "loop") /\ UNCHANGED todo

Calling(t, calls) == /\ t \in Clients
                     /\ At(t, "idle")
                     /\ todo[t] # <<>>
                     /\ Call(t) \in calls

----------------------------------------------------------------------------
(* void start(int numThreads), numThreads = Len(Pool): running_ is set     *)
(* without the mutex, then one thread after the other is pushed and        *)
(* created.                                                                *)

Start(t) == /\ Calling(t, {"start"})
            /\ running_' = TRUE
            /\ Goto(t, "startPush")
            /\ UNCHANGED <<monitorVars, threads_, queue_, todo, task, joining, fate, history>>

StartPush(t) == /\ At(t, "startPush")
                /\ IF Len(threads_) < Len(Pool)
                   THEN /\ threads_' = Append(threads_, Pool[Len(threads_) + 1])
                        /\ Goto(t, "startCreate")
                        /\ UNCHANGED todo
                   ELSE UNCHANGED threads_ /\ Return(t)
                /\ UNCHANGED <<monitorVars, running_, queue_, task, joining, fate, history>>

\* Thread::start(): when pthread_create fails, the object stays in threads_ as
\* one that was started, and nobody is told.
StartCreate(t) == \E outcome \in {"loop", "failed"} :
    /\ At(t, "startCreate")
    /\ pc' = [pc EXCEPT ![t] = "startPush", ![threads_[Len(threads_)]] = outcome]
    /\ UNCHANGED <<monitorVars, poolVars, todo, task, joining, fate, history>>

----------------------------------------------------------------------------
(* void stop() and ~ThreadPool() *)

Stop(t) == /\ Calling(t, {"stop"})
           /\ Goto(t, "stopLock")
           /\ UNCHANGED <<monitorVars, poolVars, todo, task, joining, fate, history>>

\* Clients may not use the pool while it is destroyed: it is for Master to
\* see to it that the others are through.
OthersReturned == \A c \in Clients \ {Master} : pc[c] = "idle" /\ todo[c] = <<>>

\* Faulty: the destructor does not look at running_ and stops the pool again.
DestroyAlways(t) ==
    /\ Calling(t, {"destroy"})
    /\ OthersReturned
    /\ Goto(t, "stopLock")
    /\ UNCHANGED <<monitorVars, poolVars, todo, task, joining, fate, history>>

Destroy(t) ==
    /\ Calling(t, {"destroy"})
    /\ OthersReturned
    /\ IF running_
       THEN Goto(t, "stopLock") /\ UNCHANGED <<todo, destroyed>>
       ELSE Return(t) /\ destroyed' = TRUE
    /\ UNCHANGED <<monitorVars, poolVars, task, joining, crashed, history>>

StopLock(t) == /\ At(t, "stopLock")
               /\ Lock(t)
               /\ Goto(t, "stopClear")
               /\ UNCHANGED <<waiters, poolVars, todo, task, joining, fate, history>>

StopClear(t) == /\ At(t, "stopClear")
                /\ running_' = FALSE
                /\ Goto(t, "stopNotify")
                /\ UNCHANGED <<monitorVars, threads_, queue_, todo, task, joining, fate, history>>

\* Faulty: notify() for notifyAll().
StopNotifyOne(t) == /\ At(t, "stopNotify")
                    /\ waiters' \in Notified("cond_")
                    /\ Goto(t, "stopLeave")
                    /\ UNCHANGED <<owner, holder_, poolVars, todo, task, joining, fate, history>>

StopNotify(t) == /\ At(t, "stopNotify")
                 /\ waiters' = AllNotified("cond_")
                 /\ Goto(t, "stopLeave")
                 /\ UNCHANGED <<owner, holder_, poolVars, todo, task, joining, fate, history>>

StopLeave(t) == /\ At(t, "stopLeave")
                /\ Unlock
                /\ joining' = 1
                /\ Goto(t, "join")
                /\ UNCHANGED <<waiters, poolVars, todo, task, fate, history>>

\* for_each over threads_, Thread::join on each: pthread_join returns once
\* the thread has ended.  Where there is none the pthreadId_ names nothing,
\* which is undefined: it returns an error that nobody reads, or the process
\* crashes.
Join(t) == /\ At(t, "join")
           /\ joining <= Len(threads_)
           /\ \/ At(threads_[joining], "ended") /\ UNCHANGED crashed
              \/ At(threads_[joining], "failed") /\ crashed' \in BOOLEAN
           /\ joins' = [joins EXCEPT ![threads_[joining]] = @ + 1]
           /\ joining' = joining + 1
           /\ UNCHANGED <<monitorVars, poolVars, pc, todo, task, destroyed,
                          enqueued, taken, done, late>>

\* Faulty: the last thread is not joined.
JoinedAllButOne(t) == /\ At(t, "join")
                      /\ joining >= Len(threads_)
                      /\ destroyed' = (Call(t) = "destroy")
                      /\ Return(t)
                      /\ UNCHANGED <<monitorVars, poolVars, task, joining, crashed, history>>

JoinedAll(t) == /\ At(t, "join")
                /\ joining > Len(threads_)
                /\ destroyed' = (Call(t) = "destroy")
                /\ Return(t)
                /\ UNCHANGED <<monitorVars, poolVars, task, joining, crashed, history>>

----------------------------------------------------------------------------
(* void run(const Task &task) *)

Run(t) == /\ Calling(t, TaskKinds)
          /\ task' = [task EXCEPT ![t] = [id |-> <<t, Len(todo[t])>>, kind |-> Call(t)]]
          /\ Goto(t, "runTest")
          /\ UNCHANGED <<monitorVars, poolVars, todo, joining, fate, history>>

\* threads_.empty() is read without the mutex.
RunTest(t) == /\ At(t, "runTest")
              /\ Goto(t, IF threads_ = <<>> THEN "exec" ELSE "runLock")
              /\ UNCHANGED <<monitorVars, poolVars, todo, task, joining, fate, history>>

RunLock(t) == /\ At(t, "runLock")
              /\ Lock(t)
              /\ Goto(t, "runPush")
              /\ UNCHANGED <<waiters, poolVars, todo, task, joining, fate, history>>

\* Faulty: workers are notified only when the deque was empty.
RunPushNotifyFirst(t) ==
    /\ At(t, "runPush")
    /\ queue_' = Append(queue_, task[t])
    /\ enqueued' = Append(enqueued, task[t])
    /\ waiters' \in IF queue_ = <<>> THEN Notified("cond_") ELSE {waiters}
    /\ Goto(t, "runLeave")
    /\ UNCHANGED <<owner, holder_, running_, threads_, todo, task, joining, fate,
                   taken, done, late, joins>>

RunPush(t) == /\ At(t, "runPush")
              /\ queue_' = Append(queue_, task[t])
              /\ enqueued' = Append(enqueued, task[t])
              /\ waiters' \in Notified("cond_")
              /\ Goto(t, "runLeave")
              /\ UNCHANGED <<owner, holder_, running_, threads_, todo, task, joining, fate,
                             taken, done, late, joins>>

RunLeave(t) == /\ At(t, "runLeave")
               /\ Unlock
               /\ Return(t)
               /\ UNCHANGED <<waiters, poolVars, task, joining, fate, history>>

----------------------------------------------------------------------------
(* Task take() *)

TakeLock(t) == /\ At(t, "takeLock")
               /\ Lock(t)
               /\ Goto(t, "takeTest")
               /\ UNCHANGED <<waiters, poolVars, todo, task, joining, fate, history>>

\* Faulty: running_ is not part of the condition of the wait loop.
TakeTestQueueOnly(t) ==
    /\ At(t, "takeTest")
    /\ Goto(t, IF queue_ = <<>> THEN "takeSleep" ELSE "takePop")
    /\ UNCHANGED <<monitorVars, poolVars, todo, task, joining, fate, history>>

TakeTest(t) == /\ At(t, "takeTest")
               /\ Goto(t, IF queue_ = <<>> /\ running_ THEN "takeSleep" ELSE "takePop")
               /\ UNCHANGED <<monitorVars, poolVars, todo, task, joining, fate, history>>

TakeSleep(t) == /\ At(t, "takeSleep")
                /\ CondWait(t, "cond_")
                /\ Goto(t, "takeBlocked")
                /\ UNCHANGED <<poolVars, todo, task, joining, fate, history>>

TakeResume(t) == /\ At(t, "takeBlocked")
                 /\ CondResume(t, "cond_")
                 /\ Goto(t, "takeTest")
                 /\ UNCHANGED <<poolVars, todo, task, joining, fate, history>>

\* Faulty: the task is copied but not removed.
TakePopKeep(t) ==
    /\ At(t, "takePop")
    /\ IF queue_ # <<>>
       THEN /\ task' = [task EXCEPT ![t] = Head(queue_)]
            /\ taken' = Append(taken, Head(queue_))
       ELSE task' = [task EXCEPT ![t] = NoTask] /\ UNCHANGED taken
    /\ Goto(t, "takeLeave")
    /\ UNCHANGED <<monitorVars, poolVars, todo, joining, fate, enqueued, done, late, joins>>

TakePop(t) ==
    /\ At(t, "takePop")
    /\ IF queue_ # <<>>
       THEN /\ task' = [task EXCEPT ![t] = Head(queue_)]
            /\ queue_' = Tail(queue_)
            /\ taken' = Append(taken, Head(queue_))
            /\ late' = [late EXCEPT ![t] = IF running_ THEN @ ELSE @ + 1]
       ELSE task' = [task EXCEPT ![t] = NoTask] /\ UNCHANGED <<queue_, taken, late>>
    /\ Goto(t, "takeLeave")
    /\ UNCHANGED <<monitorVars, running_, threads_, todo, joining, fate, enqueued, done, joins>>

TakeLeave(t) == /\ At(t, "takeLeave")
                /\ Unlock
                /\ Goto(t, "exec")
                /\ UNCHANGED <<waiters, poolVars, todo, task, joining, fate, history>>

----------------------------------------------------------------------------
(* void runInThread() *)

\* Faulty: a worker goes on until the deque is empty.
LoopDrain(t) == /\ At(t, "loop")
                /\ Goto(t, IF running_ \/ queue_ # <<>> THEN "takeLock" ELSE "ended")
                /\ UNCHANGED <<monitorVars, poolVars, todo, task, joining, fate, history>>

\* `while (running_)', without the mutex.
Loop(t) == /\ At(t, "loop")
           /\ Goto(t, IF running_ THEN "takeLock" ELSE "ended")
           /\ UNCHANGED <<monitorVars, poolVars, todo, task, joining, fate, history>>

\* task() returns; the empty task is not called.
ExecReturns(t) == /\ At(t, "exec")
                  /\ task[t].kind \in {"ok", "none"}
                  /\ done' = done \cup {task[t]}
                  /\ Return(t)
                  /\ UNCHANGED <<monitorVars, poolVars, task, joining, fate,
                                 enqueued, taken, late, joins>>

\* task() calls run() with a task of its own.
ExecSpawns(t) == /\ At(t, "exec")
                 /\ task[t].kind = "spawn"
                 /\ done' = done \cup {task[t]}
                 /\ task' = [task EXCEPT ![t].kind = "ok"]
                 /\ Goto(t, "runTest")
                 /\ UNCHANGED <<monitorVars, poolVars, todo, joining, fate,
                                enqueued, taken, late, joins>>

\* task() throws.  In a worker the exception ends runInThread(), and one of
\* an unknown type the process; in a client that executes the task itself it
\* leaves run() and is the client's business.
ExecThrows(t) ==
    /\ At(t, "exec")
    /\ task[t].kind \in {"throws", "unknown"}
    /\ done' = done \cup {task[t]}
    /\ IF t \in Clients
       THEN Return(t) /\ UNCHANGED crashed
       ELSE /\ Goto(t, "ended")
            /\ crashed' = (task[t].kind = "unknown")
            /\ UNCHANGED todo
    /\ UNCHANGED <<monitorVars, poolVars, task, joining, destroyed,
                   enqueued, taken, late, joins>>

----------------------------------------------------------------------------
(* The specification *)

ClientStep(t) == \/ Start(t) \/ StartPush(t) \/ StartCreate(t)
                 \/ Stop(t) \/ Destroy(t) \/ StopLock(t) \/ StopClear(t)
                 \/ StopNotify(t) \/ StopLeave(t) \/ Join(t) \/ JoinedAll(t)

RunStep(t) == \/ Run(t) \/ RunTest(t) \/ RunLock(t) \/ RunPush(t) \/ RunLeave(t)
              \/ ExecReturns(t) \/ ExecSpawns(t) \/ ExecThrows(t)

WorkerStep(t) == \/ Loop(t) \/ TakeLock(t) \/ TakeTest(t) \/ TakeSleep(t)
                 \/ TakeResume(t) \/ TakePop(t) \/ TakeLeave(t)

Step(t) == ~crashed /\ (ClientStep(t) \/ RunStep(t) \/ WorkerStep(t))

Spurious == /\ ~crashed
            /\ \E t \in Threads : SpuriousWakeup(t)
            /\ UNCHANGED <<poolVars, pc, todo, task, joining, fate, history>>

AllReturned == \A c \in Clients : pc[c] = "idle" /\ todo[c] = <<>>

\* Nothing more will happen; without this step TLC would report the end as a
\* deadlock.
Finished == /\ \/ crashed
               \/ AllReturned /\ \A w \in Workers : pc[w] \in {"unborn", "failed", "ended"}
            /\ UNCHANGED vars

Next == \/ \E t \in Threads : Step(t)
        \/ Spurious
        \/ Finished

Spec == Init /\ [][Next]_vars

\* The scheduler eventually runs every thread that can run, and tasks end.
FairSpec == Spec /\ \A t \in Threads : WF_vars(Step(t))

----------------------------------------------------------------------------
(* Properties *)

Tasks == [id : {<<>>} \cup (Clients \X (Nat \ {0})), kind : TaskKinds \cup {"none"}]

TypeOK == /\ MonitorTypeOK
          /\ running_ \in BOOLEAN
          /\ \E n \in 0 .. Len(Pool) : threads_ = SubSeq(Pool, 1, n)
          /\ queue_ \in Seq(Tasks)
          /\ pc \in [Threads -> ClientSteps \cup RunSteps \cup WorkerSteps]
          /\ \A c \in Clients : pc[c] \in ClientSteps \cup RunSteps
          /\ \A w \in Workers : pc[w] \in WorkerSteps \cup RunSteps
          /\ todo \in [Clients -> Seq(TaskKinds \cup {"start", "stop", "destroy"})]
          /\ task \in [Threads -> Tasks]
          /\ joining \in 1 .. Len(Pool) + 1
          /\ crashed \in BOOLEAN /\ destroyed \in BOOLEAN
          /\ enqueued \in Seq(Tasks) /\ taken \in Seq(Tasks) /\ done \subseteq Tasks
          /\ late \in [Workers -> Nat] /\ joins \in [Workers -> Nat]

\* Every task that went into the deque is taken once, by one worker, in the
\* order of the run() calls, or is still there.
Fifo == enqueued = taken \o queue_

\* The workers inside take() that are awake.
AwakeTakers == {w \in Workers : pc[w] \in {"takeTest", "takeBlocked", "takePop"}}
               \ waiters["cond_"]

\* No wakeup is lost: while a worker sleeps, as many workers as there are
\* tasks in the deque are awake inside take().  It holds even though workers
\* that execute a task may end with an exception: a task is never left to
\* a worker that is still busy while another one sleeps.
NoLostWakeup == waiters["cond_"] # {} => Len(queue_) <= Cardinality(AwakeTakers)

\* Once stop() has notified, no worker sleeps and none goes to sleep again,
\* even one that read running_ before stop() cleared it.
NoSleeperAfterStop == waiters["cond_"] # {} => running_ \/ pc[Master] = "stopNotify"

\* stop() is prompt: a worker takes at most one more task after stop()
\* cleared running_, the one it was about to take; the others stay in the
\* deque.
StopIsPrompt == \A w \in Workers : late[w] <= 1

\* No task is abandoned half way: once stop() has joined the workers, every
\* task that was taken from the deque has been executed.  It is what
\* ThreadPool_test.cc relies on when it stops the pool after its last task
\* has counted down a latch.
StopFinishesTasks ==
    (pc[Master] = "join" /\ joining > Len(threads_)) \/ destroyed =>
        \A i \in DOMAIN taken : taken[i] \in done

\* When the pool is gone nobody uses it any more, though some workers may never
\* have come to life: every other one has ended, join() was called once for each
\* (a second pthread_join on a thread is undefined), no thread is inside a call
\* or a wait, and the assertion `holder_ == 0' of ~MutexLock holds.  It does
\* not say that stop() survives the join() of a worker that is none.
SafeDestruction == destroyed =>
    /\ \A w \in Workers : \/ pc[w] = "unborn"
                          \/ pc[w] \in {"ended", "failed"} /\ joins[w] = 1
    /\ \A c \in Clients : pc[c] = "idle"
    /\ owner = NoThread /\ holder_ = NoThread /\ waiters["cond_"] = {}

\* Every call returns, stop() and the destructor included, with any number of
\* workers that came to life, or the process was terminated: by a task, or by
\* the join() of a worker whose creation failed.
Termination == <>[][~Spurious]_vars => <>(AllReturned \/ crashed)

\* A pool that is never stopped executes every task it accepts, as long as one
\* worker is left of those that came to life and were not ended by an exception.
SomeWorkerLeft == \E w \in Workers : pc[w] \notin {"unborn", "failed", "ended"}

AllServed == <>[][~Spurious]_vars =>
    <>[](running_ /\ ~crashed /\ SomeWorkerLeft => \A i \in DOMAIN enqueued : enqueued[i] \in done)

=============================================================================
