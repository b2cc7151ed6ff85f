------------------------------- MODULE Thread -------------------------------
(***************************************************************************)
(* Thread.cc and CurrentThread.h: threads started and joined through       *)
(* Thread objects, the cached thread id and the thread's name, and what    *)
(* fork() does to them.                                                    *)
(*                                                                         *)
(* A task is what the kernel schedules, named by its id; ids of tasks that *)
(* are gone are used again.  A process is named by the id of its first     *)
(* task, and has a memory of its own, copied by fork().  Tasks run         *)
(* programs of calls <<operation, object>>.                                *)
(***************************************************************************)
EXTENDS Naturals, Sequences

CONSTANTS Tids,          \* thread ids of the kernel
          FirstTid,      \* the task that runs main()
          FiveDigits,    \* the ids that "%5d " prints in six characters
          Objects,       \* Thread objects
          NoObject,
          MainProgram,   \* the calls of main()
          ChildProgram,  \* the calls of a process made by fork()
          Func           \* Func[o]: the calls of o's function

Calls == ({"construct", "start", "join", "destroy"} \X Objects)
             \cup ({"tid", "fork", "throw"} \X {NoObject})

ASSUME TidAssumption == Tids \subseteq Nat \ {0} /\ FirstTid \in Tids /\ FiveDigits \subseteq Tids

\* A literal is no object's name.
ASSUME ProgramAssumption == /\ NoObject \notin Objects
                            /\ Objects \cap {"unkown", "main", "finished", "crashed"} = {}
                            /\ MainProgram \in Seq(Calls) /\ ChildProgram \in Seq(Calls)
                            /\ Func \in [Objects -> Seq(Calls)]

CallsIn(calls) == {calls[i] : i \in DOMAIN calls}

Uses(calls) == {call[2] : call \in CallsIn(calls)} \ {NoObject}

\* The calls of one object: the constructor comes first and the destructor
\* last, and what was started is joined before it is destroyed.
InOrder(calls) == \A i, j \in DOMAIN calls :
    i < j /\ calls[i][2] = calls[j][2] /\ calls[i][2] # NoObject =>
        /\ calls[i][1] # "destroy" /\ calls[j][1] # "construct"
        /\ calls[i][1] = "start" /\ calls[j][1] = "destroy" =>
               \E m \in i .. j : calls[m] = <<"join", calls[i][2]>>

Constructs(calls) == \A j \in DOMAIN calls : calls[j][2] # NoObject =>
    \E i \in 1 .. j : calls[i] = <<"construct", calls[j][2]>>

\* The contract of the class: a program uses objects of its own, in order.
ASSUME ContractAssumption ==
    /\ \A calls \in {MainProgram, ChildProgram} \cup {Func[o] : o \in Objects} :
           InOrder(calls) /\ Constructs(calls)
    /\ \A o \in Objects :
           /\ Uses(Func[o]) \cap (Uses(MainProgram) \cup Uses(ChildProgram)) = {}
           /\ \A q \in Objects \ {o} : Uses(Func[o]) \cap Uses(Func[q]) = {}

\* And the processes made by fork() have objects of their own, whose
\* functions do not fork: nobody destroys a copy of the object in whose
\* function he was forked.
ASSUME ForkAssumption == \E own \in SUBSET Objects :
    /\ Uses(ChildProgram) \subseteq own
    /\ \A o \in own : Uses(Func[o]) \subseteq own /\ <<"fork", NoObject>> \notin CallsIn(Func[o])

VARIABLES alive,         \* the tasks that exist
          proc,          \* proc[k]: the process of task k, what getpid() returns
          t_cachedTid,   \* thread-local, as is
          t_threadName,  \* where it points: a literal, or name_ of an object
          runs,          \* runs[k]: the object whose function k runs
          todo,          \* todo[k]: the calls k has still to make
          pc,            \* where each task is
          memory         \* memory[p][o]: the object o in process p

taskVars == <<alive, proc, t_cachedTid, t_threadName, runs, todo, pc>>
vars == <<taskVars, memory>>

\* life: "raw" before the constructor, "dead" after the destructor; created
\* and ended are what the pthread library knows of pthreadId_; made is the
\* id of the task, which nothing reads but properties.
Raw == [life |-> "raw", started_ |-> FALSE, tid_ |-> 0, created |-> FALSE, ended |-> FALSE,
        joined |-> FALSE, made |-> 0]

Init == /\ alive = {FirstTid}
        /\ proc = [k \in Tids |-> FirstTid]
        /\ t_cachedTid = [k \in Tids |-> 0]
        /\ t_threadName = [k \in Tids |-> "unkown"]
        /\ runs = [k \in Tids |-> NoObject]
        /\ todo = [k \in Tids |-> IF k = FirstTid THEN MainProgram ELSE <<>>]
        /\ pc = [k \in Tids |-> "init"]
        /\ memory = [p \in Tids |-> [o \in Objects |-> Raw]]

Goto(k, step) == pc' = [pc EXCEPT ![k] = step]

\* abort(), terminate() and the return of main() end all tasks of a process.
EndProcess(k) == alive' = {j \in alive : proc[j] # proc[k]}

Calling(k, op) == /\ k \in alive
                  /\ pc[k] = "run"
                  /\ todo[k] # <<>>
                  /\ Head(todo[k])[1] = op

Return(k) == todo' = [todo EXCEPT ![k] = Tail(@)] /\ Goto(k, "run")

\* The object of k's present call, and the one whose function k runs.
Object(k) == memory[proc[k]][Head(todo[k])[2]]
Own(k)    == memory[proc[k]][runs[k]]

\* k writes to the object of its call.
Update(k, new) == memory' = [memory EXCEPT ![proc[k]][Head(todo[k])[2]] = new]

----------------------------------------------------------------------------
(* CurrentThread::tid() and cacheTid() *)

\* A task that has not cached its id caches it; `assert(n == 6)' aborts when
\* the id has more than five digits.
CacheTid(k) == IF t_cachedTid[k] # 0
               THEN UNCHANGED <<t_cachedTid, alive>>
               ELSE /\ t_cachedTid' = [t_cachedTid EXCEPT ![k] = k]
                    /\ IF k \in FiveDigits
                       THEN UNCHANGED alive
                       ELSE EndProcess(k)

\* ThreadNameInitializer, before main() runs.
InitMain(k) == /\ k \in alive /\ pc[k] = "init"
               /\ t_threadName' = [t_threadName EXCEPT ![k] = "main"]
               /\ CacheTid(k)
               /\ Goto(k, "run")
               /\ UNCHANGED <<proc, runs, todo, memory>>

Tid(k) == /\ Calling(k, "tid")
          /\ CacheTid(k)
          /\ Return(k)
          /\ UNCHANGED <<proc, t_threadName, runs, memory>>

----------------------------------------------------------------------------
(* fork() *)

Free == Tids \ (alive \cup {proc[k] : k \in alive})

\* Only the task that forks goes on in the child, with a copy of the memory
\* and of its thread-local data.  fork() fails when no id is free.
Fork(k) ==
    /\ Calling(k, "fork")
    /\ IF Free = {}
       THEN Return(k) /\ UNCHANGED <<alive, proc, t_cachedTid, t_threadName, runs, memory>>
       ELSE \E c \in Free :
               /\ alive' = alive \cup {c}
               /\ proc' = [proc EXCEPT ![c] = c]
               /\ t_cachedTid' = [t_cachedTid EXCEPT ![c] = t_cachedTid[k]]
               /\ t_threadName' = [t_threadName EXCEPT ![c] = t_threadName[k]]
               /\ runs' = [runs EXCEPT ![c] = runs[k]]
               /\ todo' = [todo EXCEPT ![k] = Tail(@), ![c] = ChildProgram]
               /\ pc' = [pc EXCEPT ![c] = "afterFork"]
               /\ memory' = [memory EXCEPT ![c] = memory[proc[k]]]

\* Faulty: t_cachedTid is not reset, so tid() does not ask the kernel.
AfterForkKeep(k) == /\ k \in alive /\ pc[k] = "afterFork"
                    /\ t_threadName' = [t_threadName EXCEPT ![k] = "main"]
                    /\ CacheTid(k)
                    /\ Goto(k, "run")
                    /\ UNCHANGED <<proc, runs, todo, memory>>

\* afterFork() resets the cache and fills it again.
AfterFork(k) == /\ k \in alive /\ pc[k] = "afterFork"
                /\ t_cachedTid' = [t_cachedTid EXCEPT ![k] = k]
                /\ t_threadName' = [t_threadName EXCEPT ![k] = "main"]
                /\ IF k \in FiveDigits
                   THEN UNCHANGED alive
                   ELSE EndProcess(k)
                /\ Goto(k, "run")
                /\ UNCHANGED <<proc, runs, todo, memory>>

----------------------------------------------------------------------------
(* Thread: constructor, destructor, start() and join() *)

Construct(k) == /\ Calling(k, "construct")
                /\ Update(k, [Raw EXCEPT !.life = "live"])
                /\ Return(k)
                /\ UNCHANGED <<alive, proc, t_cachedTid, t_threadName, runs>>

\* The destructor neither joins nor detaches.
Destroy(k) == /\ Calling(k, "destroy")
              /\ Update(k, [Object(k) EXCEPT !.life = "dead"])
              /\ Return(k)
              /\ UNCHANGED <<alive, proc, t_cachedTid, t_threadName, runs>>

Start(k) == /\ Calling(k, "start")
            /\ ~Object(k).started_
            /\ Update(k, [Object(k) EXCEPT !.started_ = TRUE])
            /\ Goto(k, "create")
            /\ UNCHANGED <<alive, proc, t_cachedTid, t_threadName, runs, todo>>

\* pthread_create succeeds.
Create(k) == \E n \in Free :
    /\ k \in alive /\ pc[k] = "create"
    /\ alive' = alive \cup {n}
    /\ proc' = [proc EXCEPT ![n] = proc[k]]
    /\ t_cachedTid' = [t_cachedTid EXCEPT ![n] = 0]
    /\ t_threadName' = [t_threadName EXCEPT ![n] = "unkown"]
    /\ runs' = [runs EXCEPT ![n] = Head(todo[k])[2]]
    /\ todo' = [todo EXCEPT ![k] = Tail(@), ![n] = Func[Head(todo[k])[2]]]
    /\ pc' = [pc EXCEPT ![k] = "run", ![n] = "startThread"]
    /\ Update(k, [Object(k) EXCEPT !.created = TRUE, !.made = n])

\* pthread_create fails and start() returns all the same.
CreateFails(k) == /\ k \in alive /\ pc[k] = "create"
                  /\ Return(k)
                  /\ UNCHANGED <<alive, proc, t_cachedTid, t_threadName, runs, memory>>

\* Faulty: join() does not wait, as if the thread had been detached.
JoinAtOnce(k) == /\ Calling(k, "join")
                 /\ Object(k).started_ /\ Object(k).created
                 /\ Update(k, [Object(k) EXCEPT !.joined = TRUE])
                 /\ Return(k)
                 /\ UNCHANGED <<alive, proc, t_cachedTid, t_threadName, runs>>

Join(k) == /\ Calling(k, "join")
           /\ Object(k).started_ /\ Object(k).created /\ Object(k).ended
           /\ Update(k, [Object(k) EXCEPT !.joined = TRUE])
           /\ Return(k)
           /\ UNCHANGED <<alive, proc, t_cachedTid, t_threadName, runs>>

\* pthread_join is given a pthreadId_ that names no thread, which is
\* undefined: it returns an error that nobody reads, or the process crashes.
JoinNothing(k) == /\ Calling(k, "join")
                  /\ Object(k).started_ /\ ~Object(k).created
                  /\ Return(k)
                  /\ alive' = alive \/ EndProcess(k)
                  /\ UNCHANGED <<proc, t_cachedTid, t_threadName, runs, memory>>

----------------------------------------------------------------------------
(* void runInThread() *)

Enter(k) == /\ k \in alive /\ pc[k] = "startThread"
            /\ CacheTid(k)
            /\ Goto(k, "store")
            /\ UNCHANGED <<proc, t_threadName, runs, todo, memory>>

\* Faulty: tid_ is filled with getpid().
StorePid(k) ==
    /\ k \in alive /\ pc[k] = "store"
    /\ memory' = [memory EXCEPT ![proc[k]][runs[k]].tid_ = proc[k]]
    /\ t_threadName' = [t_threadName EXCEPT ![k] = runs[k]]
    /\ Goto(k, "run")
    /\ UNCHANGED <<alive, proc, t_cachedTid, runs, todo>>

Store(k) ==
    /\ k \in alive /\ pc[k] = "store"
    /\ memory' = [memory EXCEPT ![proc[k]][runs[k]].tid_ = t_cachedTid[k]]
    /\ t_threadName' = [t_threadName EXCEPT ![k] = runs[k]]
    /\ Goto(k, "run")
    /\ UNCHANGED <<alive, proc, t_cachedTid, runs, todo>>

\* A function throws, main() or func_(), in which a child may have been forked:
\* abort() after an Exception or a std::exception, terminate() after anything
\* else.
Throw(k) == /\ Calling(k, "throw")
            /\ t_threadName' = IF runs[k] = NoObject THEN t_threadName
                               ELSE [t_threadName EXCEPT ![k] = "crashed"]
            /\ EndProcess(k)
            /\ UNCHANGED <<proc, t_cachedTid, runs, todo, pc, memory>>

\* func_() has returned, and the task ends.
Finish(k) == /\ k \in alive /\ pc[k] = "run" /\ todo[k] = <<>> /\ proc[k] # k
             /\ t_threadName' = [t_threadName EXCEPT ![k] = "finished"]
             /\ Goto(k, "exit")
             /\ UNCHANGED <<alive, proc, t_cachedTid, runs, todo, memory>>

TaskEnds(k) == /\ k \in alive /\ pc[k] = "exit"
               /\ alive' = alive \ {k}
               /\ memory' = [memory EXCEPT ![proc[k]][runs[k]].ended = TRUE]
               /\ UNCHANGED <<proc, t_cachedTid, t_threadName, runs, todo, pc>>

\* The first task of a process returns from main(), or calls exit().
Exit(k) == /\ k \in alive /\ pc[k] = "run" /\ todo[k] = <<>> /\ proc[k] = k
           /\ EndProcess(k)
           /\ UNCHANGED <<proc, t_cachedTid, t_threadName, runs, todo, pc, memory>>

----------------------------------------------------------------------------
(* The specification *)

Step(k) == \/ InitMain(k) \/ Tid(k) \/ Fork(k) \/ AfterFork(k)
           \/ Construct(k) \/ Destroy(k) \/ Start(k) \/ Create(k) \/ CreateFails(k)
           \/ Join(k) \/ JoinNothing(k)
           \/ Enter(k) \/ Store(k) \/ Throw(k) \/ Finish(k) \/ TaskEnds(k) \/ Exit(k)

\* No task is left.
Finished == alive = {} /\ UNCHANGED vars

Next == (\E k \in Tids : Step(k)) \/ Finished

Spec == Init /\ [][Next]_vars

----------------------------------------------------------------------------
(* Properties *)

\* Where a task may run code of the program, as opposed to the library's.
UserSteps == {"run", "create"}

Steps == UserSteps \cup {"init", "afterFork", "startThread", "store", "exit"}

TypeOK == /\ alive \subseteq Tids
          /\ proc \in [Tids -> Tids]
          /\ t_cachedTid \in [Tids -> Tids \cup {0}]
          /\ t_threadName \in [Tids -> {"unkown", "main", "finished", "crashed"} \cup Objects]
          /\ runs \in [Tids -> Objects \cup {NoObject}]
          /\ todo \in [Tids -> Seq(Calls)]
          /\ pc \in [Tids -> Steps]
          /\ memory \in [Tids -> [Objects -> [life : {"raw", "live", "dead"}, started_ : BOOLEAN,
                 tid_ : Tids \cup {0}, created : BOOLEAN, ended : BOOLEAN, joined : BOOLEAN,
                 made : Tids \cup {0}]]]

\* bool isMainThread()
IsMainThread(k) == t_cachedTid[k] = proc[k]

\* Whatever was forked, started or ended before, and whosever id was used
\* again: CurrentThread::tid() of a task that runs the program's code is its
\* own id, so that holder_ of a mutex tells threads apart; isMainThread() is
\* true of the first task of the process, the one that a fork left in it
\* included; and name() is `main' there and else that of the thread's object.
Identity == \A k \in alive : pc[k] \in UserSteps =>
    /\ t_cachedTid[k] = k
    /\ IF IsMainThread(k) THEN t_threadName[k] = "main"
                          ELSE t_threadName[k] = runs[k] /\ Own(k).made = k

\* Thread::tid() is 0 until the new thread has stored its id and that id from
\* then on; it is known when join() has returned.
TidKnown == \A p \in Tids, o \in Objects :
    /\ memory[p][o].tid_ \in {0, memory[p][o].made}
    /\ memory[p][o].joined => memory[p][o].tid_ = memory[p][o].made

\* A task uses its Thread object (tid_, func_, and name_, to which
\* t_threadName points) only while that object lives: join() before the
\* destructor is enough, although pthread_create may have failed.
NoDangling == \A k \in alive :
    /\ runs[k] # NoObject /\ pc[k] # "exit" => Own(k).life = "live"
    /\ t_threadName[k] \in Objects => memory[proc[k]][t_threadName[k]].life = "live"

=============================================================================
