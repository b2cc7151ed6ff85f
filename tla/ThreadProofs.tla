---------------------------- MODULE ThreadProofs ----------------------------
(***************************************************************************)
(* Thread for any ids, objects and programs that keep the contract:        *)
(* tid() and the name of a thread are its own across fork() and the reuse  *)
(* of ids, Thread::tid() is known once join() has returned, and no task    *)
(* uses an object that is gone.                                            *)
(***************************************************************************)
EXTENDS Thread, SequenceTheorems, TLAPS

----------------------------------------------------------------------------
(* The inductive invariant: the tasks                                      *)

First(k) == proc[k] = k

\* What k tells of itself at each step.
Named == \A k \in alive :
    /\ pc[k] \in {"init", "afterFork"} => First(k)
    /\ pc[k] \in {"startThread", "store", "exit"} => ~First(k)
    /\ pc[k] \in {"init", "startThread"} => t_cachedTid[k] = 0
    /\ pc[k] \in {"run", "create", "store", "exit"} => t_cachedTid[k] = k
    /\ pc[k] \in {"run", "create"} => t_threadName[k] = IF First(k) THEN "main" ELSE runs[k]

\* The object of a thread that start() made says so until the thread ends.
Mine == \A k \in alive : ~First(k) =>
    /\ runs[k] \in Objects
    /\ Own(k).started_ /\ Own(k).created /\ ~Own(k).ended /\ ~Own(k).joined
    /\ Own(k).made = k
    /\ Own(k).tid_ = IF pc[k] \in {"startThread", "store"} THEN 0 ELSE k

Creating == \A k \in alive : pc[k] = "create" =>
    /\ todo[k] # <<>> /\ Head(todo[k])[1] = "start"
    /\ Object(k).started_ /\ ~Object(k).created

\* The objects, those of processes that are gone included.
Kept == \A p \in Tids, o \in Objects :
    /\ ~memory[p][o].started_ => ~memory[p][o].created
    /\ ~memory[p][o].created =>
           /\ memory[p][o].tid_ = 0 /\ memory[p][o].made = 0
           /\ ~memory[p][o].ended /\ ~memory[p][o].joined
    /\ memory[p][o].tid_ \in {0, memory[p][o].made}
    /\ memory[p][o].ended => memory[p][o].tid_ = memory[p][o].made
    /\ memory[p][o].joined => memory[p][o].ended

----------------------------------------------------------------------------
(* Who may construct an object: its owner, before anybody uses it          *)

Owned == \A k \in alive :
    CallsIn(todo[k]) \subseteq IF First(k) THEN CallsIn(MainProgram) \cup CallsIn(ChildProgram)
                                           ELSE CallsIn(Func[runs[k]])

Sequenced == \A k \in alive : InOrder(todo[k])

\* In process p a task starts o or executes its function.
InUse(p, o) == \E k \in alive : /\ proc[k] = p
                                /\ \/ ~First(k) /\ runs[k] = o
                                   \/ pc[k] = "create" /\ Head(todo[k])[2] = o

\* In process p the object o has been started and will not be constructed again.
Settled(p, o) ==
    /\ memory[p][o].created
    /\ \A k \in alive : proc[k] = p => <<"construct", o>> \notin CallsIn(todo[k])

NotConstructed == \A k \in alive, o \in Objects :
    <<"construct", o>> \in CallsIn(todo[k]) => ~InUse(proc[k], o)

\* Those who made it possible that o is used, up to the first task of the process.
Ancestors(o, a) == \A x \in a \cup {o}, y \in Objects : x \in Uses(Func[y]) => y \in a

Descended == \A p \in Tids, o \in Objects : InUse(p, o) =>
    \E a \in SUBSET Objects : Ancestors(o, a) /\ \A y \in a : Settled(p, y)

IInv == /\ TypeOK /\ Named /\ Mine /\ Creating /\ Kept
        /\ Owned /\ Sequenced /\ NotConstructed /\ Descended

----------------------------------------------------------------------------
(* Calls *)

ObjectCalls == {"construct", "start", "join", "destroy"}

LEMMA CallShape ==
    ASSUME NEW call \in Calls
    PROVE  /\ call = <<call[1], call[2]>>
           /\ call[2] \in Objects \cup {NoObject}
           /\ call[1] \in ObjectCalls <=> call[2] \in Objects
           /\ call[2] \in Objects => call[2] # NoObject
  <1>1. CASE call \in ObjectCalls \X Objects
    BY <1>1, ProgramAssumption
  <1>2. CASE call \in {"tid", "fork", "throw"} \X {NoObject}
    <2>1. call = <<call[1], call[2]>> /\ call[1] \in {"tid", "fork", "throw"} /\ call[2] = NoObject
      BY <1>2
    <2>2. call[1] \notin ObjectCalls
      BY <2>1 DEF ObjectCalls
    <2> QED
      BY <2>1, <2>2, ProgramAssumption
  <1> QED
    BY <1>1, <1>2 DEF Calls, ObjectCalls

\* What is left when a call has returned.
LEMMA TailCalls ==
    ASSUME NEW calls \in Seq(Calls), calls # <<>>
    PROVE  /\ Head(calls) \in Calls /\ Head(calls) \in CallsIn(calls)
           /\ Tail(calls) \in Seq(Calls)
           /\ Len(calls) \in Nat \ {0}
           /\ Len(Tail(calls)) = Len(calls) - 1
           /\ \A i \in 1 .. Len(Tail(calls)) : Tail(calls)[i] = calls[i + 1]
           /\ CallsIn(Tail(calls)) \subseteq CallsIn(calls)
           /\ InOrder(calls) => InOrder(Tail(calls))
  <1>1. /\ Head(calls) \in Calls /\ Head(calls) = calls[1]
        /\ Tail(calls) \in Seq(Calls)
        /\ Len(calls) \in Nat \ {0}
        /\ Len(Tail(calls)) = Len(calls) - 1
        /\ \A i \in 1 .. Len(Tail(calls)) : Tail(calls)[i] = calls[i + 1]
    BY EmptySeq, LenProperties, HeadTailProperties, ElementOfSeq
  <1>2. DOMAIN calls = 1 .. Len(calls) /\ DOMAIN Tail(calls) = 1 .. Len(calls) - 1
    BY <1>1, LenProperties
  <1>3. Head(calls) \in CallsIn(calls)
    BY <1>1, <1>2 DEF CallsIn
  <1>4. CallsIn(Tail(calls)) \subseteq CallsIn(calls)
    BY <1>1, <1>2 DEF CallsIn
  <1>5. ASSUME InOrder(calls) PROVE InOrder(Tail(calls))
    <2> SUFFICES ASSUME NEW i \in DOMAIN Tail(calls), NEW j \in DOMAIN Tail(calls), i < j,
                        Tail(calls)[i][2] = Tail(calls)[j][2], Tail(calls)[i][2] # NoObject
                 PROVE  /\ Tail(calls)[i][1] # "destroy" /\ Tail(calls)[j][1] # "construct"
                        /\ Tail(calls)[i][1] = "start" /\ Tail(calls)[j][1] = "destroy" =>
                             \E m \in i .. j : Tail(calls)[m] = <<"join", Tail(calls)[i][2]>>
      BY DEF InOrder
    <2>1. /\ i + 1 \in DOMAIN calls /\ j + 1 \in DOMAIN calls /\ i + 1 < j + 1
          /\ Tail(calls)[i] = calls[i + 1] /\ Tail(calls)[j] = calls[j + 1]
      BY <1>1, <1>2
    <2>2. /\ calls[i + 1][1] # "destroy" /\ calls[j + 1][1] # "construct"
          /\ calls[i + 1][1] = "start" /\ calls[j + 1][1] = "destroy" =>
               \E m \in i + 1 .. j + 1 : calls[m] = <<"join", calls[i + 1][2]>>
      BY <1>5, <2>1 DEF InOrder
    <2>3. ASSUME Tail(calls)[i][1] = "start", Tail(calls)[j][1] = "destroy"
          PROVE  \E m \in i .. j : Tail(calls)[m] = <<"join", Tail(calls)[i][2]>>
      <3>1. PICK m \in i + 1 .. j + 1 : calls[m] = <<"join", calls[i + 1][2]>>
        BY <2>1, <2>2, <2>3
      <3>2. m - 1 \in i .. j /\ m - 1 \in 1 .. Len(Tail(calls)) /\ (m - 1) + 1 = m
        BY <1>1, <1>2
      <3>3. Tail(calls)[m - 1] = calls[m]
        BY <1>1, <3>2
      <3> QED
        BY <2>1, <3>1, <3>2, <3>3
    <2> QED
      BY <2>1, <2>2, <2>3
  <1> QED
    BY <1>1, <1>3, <1>4, <1>5

\* What is started will not be constructed.
LEMMA StartedBeforeConstructed ==
    ASSUME NEW calls \in Seq(Calls), calls # <<>>, InOrder(calls), Head(calls)[1] = "start"
    PROVE  <<"construct", Head(calls)[2]>> \notin CallsIn(calls)
  <1> SUFFICES ASSUME NEW j \in DOMAIN calls, calls[j] = <<"construct", Head(calls)[2]>>
               PROVE  FALSE
    BY DEF CallsIn
  <1>1. Head(calls) \in Calls /\ Head(calls) = calls[1] /\ DOMAIN calls = 1 .. Len(calls)
        /\ Len(calls) \in Nat \ {0}
    BY EmptySeq, LenProperties, HeadTailProperties, ElementOfSeq
  <1>2. calls[1][2] # NoObject /\ calls[j][2] = calls[1][2] /\ calls[j][1] = "construct"
    BY <1>1, CallShape DEF ObjectCalls
  <1>3. j # 1
    BY <1>1, <1>2
  <1>4. 1 < j /\ 1 \in DOMAIN calls
    BY <1>1, <1>3
  <1> QED
    BY <1>2, <1>4 DEF InOrder

----------------------------------------------------------------------------
(* Steps *)

ObjectStates == [life : {"raw", "live", "dead"}, started_ : BOOLEAN, tid_ : Tids \cup {0},
                 created : BOOLEAN, ended : BOOLEAN, joined : BOOLEAN, made : Tids \cup {0}]

\* A step of k leaves the task j as it is.
Untouched(j) == /\ proc'[j] = proc[j] /\ runs'[j] = runs[j] /\ pc'[j] = pc[j]
                /\ todo'[j] = todo[j]
                /\ t_cachedTid'[j] = t_cachedTid[j] /\ t_threadName'[j] = t_threadName[j]

\* A step of k goes on with its calls or returns from one.
Advances(k) == /\ k \in alive /\ proc'[k] = proc[k] /\ runs'[k] = runs[k]
               /\ \/ todo'[k] = todo[k]
                  \/ todo[k] # <<>> /\ todo'[k] = Tail(todo[k])

Forked(k, c) == /\ Calling(k, "fork")
                /\ proc'[c] = c /\ runs'[c] = runs[k] /\ pc'[c] = "afterFork"
                /\ todo'[c] = ChildProgram
                /\ t_threadName'[c] = t_threadName[k]
                /\ memory' = [memory EXCEPT ![c] = memory[proc[k]]]

Created(k, n) == /\ pc[k] = "create"
                 /\ proc'[n] = proc[k] /\ runs'[n] = Head(todo[k])[2] /\ pc'[n] = "startThread"
                 /\ todo'[n] = Func[Head(todo[k])[2]]
                 /\ t_cachedTid'[n] = 0 /\ t_threadName'[n] = "unkown"
                 /\ Update(k, [Object(k) EXCEPT !.created = TRUE, !.made = n])

Population(k) ==
    \/ alive' \subseteq alive
    \/ \E n \in Free : alive' = alive \cup {n} /\ (Forked(k, n) \/ Created(k, n))

LEMMA Moves ==
    ASSUME TypeOK, Creating, NEW k \in Tids, Step(k)
    PROVE  /\ Advances(k)
           /\ \A j \in alive \ {k} : Untouched(j)
           /\ Population(k)
  <1> USE DEF Untouched, Goto, EndProcess
  <1> DEFINE Goal == /\ Advances(k)
                     /\ \A j \in alive \ {k} : Untouched(j)
                     /\ Population(k)
  <1> SUFFICES Goal
    OBVIOUS
  <1>0. ASSUME k \in alive, proc' = proc, runs' = runs, alive' \subseteq alive,
               \/ todo' = todo
               \/ todo[k] # <<>> /\ todo' = [todo EXCEPT ![k] = Tail(@)],
               \A j \in alive \ {k} : Untouched(j)
        PROVE  Goal
    BY <1>0 DEF Advances, Population, TypeOK
  <1> HIDE DEF Goal
  <1>1. CASE InitMain(k)
    BY <1>0, <1>1 DEF InitMain, CacheTid, TypeOK
  <1>2. CASE Tid(k)
    BY <1>0, <1>2 DEF Tid, CacheTid, Calling, Return, TypeOK
  <1>3. CASE Fork(k)
    <2>1. CASE Free = {}
      BY <1>0, <1>3, <2>1 DEF Fork, Calling, Return, TypeOK
    <2>2. CASE Free # {}
      <3>1. PICK c \in Free :
               /\ alive' = alive \cup {c}
               /\ proc' = [proc EXCEPT ![c] = c]
               /\ t_cachedTid' = [t_cachedTid EXCEPT ![c] = t_cachedTid[k]]
               /\ t_threadName' = [t_threadName EXCEPT ![c] = t_threadName[k]]
               /\ runs' = [runs EXCEPT ![c] = runs[k]]
               /\ todo' = [todo EXCEPT ![k] = Tail(@), ![c] = ChildProgram]
               /\ pc' = [pc EXCEPT ![c] = "afterFork"]
               /\ memory' = [memory EXCEPT ![c] = memory[proc[k]]]
        BY <1>3, <2>2 DEF Fork
      <3>2. c \in Tids /\ c \notin alive /\ c # k /\ Calling(k, "fork")
        BY <1>3 DEF Free, Fork, Calling
      <3>3. Forked(k, c)
        BY <3>1, <3>2 DEF Forked, TypeOK
      <3>4. Advances(k)
        BY <3>1, <3>2 DEF Advances, Calling, TypeOK
      <3>5. \A j \in alive \ {k} : Untouched(j)
        BY <3>1, <3>2 DEF TypeOK
      <3> QED
        BY <3>1, <3>3, <3>4, <3>5 DEF Goal, Population
    <2> QED
      BY <2>1, <2>2
  <1>4. CASE AfterFork(k)
    BY <1>0, <1>4 DEF AfterFork, TypeOK
  <1>5. CASE Construct(k)
    BY <1>0, <1>5 DEF Construct, Calling, Return, TypeOK
  <1>6. CASE Destroy(k)
    BY <1>0, <1>6 DEF Destroy, Calling, Return, TypeOK
  <1>7. CASE Start(k)
    BY <1>0, <1>7 DEF Start, Calling, TypeOK
  <1>8. CASE Create(k)
    <2>1. PICK n \in Free :
              /\ k \in alive /\ pc[k] = "create"
              /\ alive' = alive \cup {n}
              /\ proc' = [proc EXCEPT ![n] = proc[k]]
              /\ t_cachedTid' = [t_cachedTid EXCEPT ![n] = 0]
              /\ t_threadName' = [t_threadName EXCEPT ![n] = "unkown"]
              /\ runs' = [runs EXCEPT ![n] = Head(todo[k])[2]]
              /\ todo' = [todo EXCEPT ![k] = Tail(@), ![n] = Func[Head(todo[k])[2]]]
              /\ pc' = [pc EXCEPT ![k] = "run", ![n] = "startThread"]
              /\ Update(k, [Object(k) EXCEPT !.created = TRUE, !.made = n])
      BY <1>8 DEF Create
    <2>2. n \in Tids /\ n \notin alive /\ n # k /\ todo[k] # <<>>
      BY <2>1 DEF Free, Creating
    <2>3. Created(k, n)
      BY <2>1, <2>2 DEF Created, TypeOK
    <2>4. Advances(k)
      BY <2>1, <2>2 DEF Advances, TypeOK
    <2>5. \A j \in alive \ {k} : Untouched(j)
      BY <2>1, <2>2 DEF TypeOK
    <2> QED
      BY <2>1, <2>3, <2>4, <2>5 DEF Goal, Population
  <1>9. CASE CreateFails(k)
    BY <1>0, <1>9 DEF CreateFails, Return, Creating, TypeOK
  <1>10. CASE Join(k)
    BY <1>0, <1>10 DEF Join, Calling, Return, TypeOK
  <1>11. CASE JoinNothing(k)
    BY <1>0, <1>11 DEF JoinNothing, Calling, Return, TypeOK
  <1>12. CASE Enter(k)
    BY <1>0, <1>12 DEF Enter, CacheTid, TypeOK
  <1>13. CASE Store(k)
    BY <1>0, <1>13 DEF Store, TypeOK
  <1>14. CASE Throw(k)
    BY <1>0, <1>14 DEF Throw, Calling, TypeOK
  <1>15. CASE Finish(k)
    BY <1>0, <1>15 DEF Finish, TypeOK
  <1>16. CASE TaskEnds(k)
    BY <1>0, <1>16 DEF TaskEnds, TypeOK
  <1>17. CASE Exit(k)
    BY <1>0, <1>17 DEF Exit, TypeOK
  <1> QED
    BY <1>1, <1>2, <1>3, <1>4, <1>5, <1>6, <1>7, <1>8, <1>9, <1>10, <1>11, <1>12, <1>13, <1>14,
       <1>15, <1>16, <1>17 DEF Step

----------------------------------------------------------------------------
(* Writes *)

\* What a step of k may do to the object o of its process.
Effect(k, o, old, new) ==
    \/ Calling(k, "construct") /\ o = Head(todo[k])[2] /\ new = [Raw EXCEPT !.life = "live"]
    \/ Calling(k, "destroy") /\ o = Head(todo[k])[2] /\ new = [old EXCEPT !.life = "dead"]
    \/ /\ Calling(k, "start") /\ o = Head(todo[k])[2] /\ ~old.started_
       /\ new = [old EXCEPT !.started_ = TRUE]
    \/ /\ pc[k] = "create" /\ o = Head(todo[k])[2]
       /\ \E n \in Free : /\ new = [old EXCEPT !.created = TRUE, !.made = n]
                          /\ alive' = alive \cup {n} /\ Created(k, n)
    \/ /\ Calling(k, "join") /\ o = Head(todo[k])[2] /\ old.started_ /\ old.created /\ old.ended
       /\ new = [old EXCEPT !.joined = TRUE]
    \/ /\ pc[k] = "store" /\ o = runs[k] /\ pc'[k] = "run"
       /\ new = [old EXCEPT !.tid_ = t_cachedTid[k]]
    \/ /\ pc[k] = "exit" /\ o = runs[k] /\ alive' = alive \ {k}
       /\ new = [old EXCEPT !.ended = TRUE]

Writes(k) == \A p \in Tids, o \in Objects :
    \/ memory'[p][o] = memory[p][o]
    \/ p \in Free /\ memory'[p][o] = memory[proc[k]][o] /\ Forked(k, p) /\ alive' = alive \cup {p}
    \/ p = proc[k] /\ Effect(k, o, memory[p][o], memory'[p][o])

LEMMA Updated ==
    ASSUME TypeOK, NEW p \in Tids, NEW o \in Objects, NEW new \in ObjectStates,
           memory' = [memory EXCEPT ![p][o] = new]
    PROVE  /\ memory' \in [Tids -> [Objects -> ObjectStates]]
           /\ memory'[p][o] = new
           /\ \A q \in Tids, x \in Objects :
                  memory'[q][x] # memory[q][x] => q = p /\ x = o
BY DEF TypeOK, ObjectStates

LEMMA ObjectTypes ==
    ASSUME TypeOK, NEW k \in Tids, NEW o \in Objects
    PROVE  /\ proc[k] \in Tids
           /\ memory[proc[k]][o] \in ObjectStates
BY DEF TypeOK, ObjectStates

\* The object of a call.
LEMMA OfACall ==
    ASSUME TypeOK, NEW k \in Tids, todo[k] # <<>>, Head(todo[k])[1] \in ObjectCalls
    PROVE  /\ Head(todo[k])[2] \in Objects /\ Head(todo[k])[2] # NoObject
           /\ Head(todo[k]) = <<Head(todo[k])[1], Head(todo[k])[2]>>
           /\ Head(todo[k]) \in CallsIn(todo[k])
           /\ Head(todo[k])[2] \in Uses(todo[k])
           /\ proc[k] \in Tids
           /\ Object(k) \in ObjectStates
  <1>1. todo[k] \in Seq(Calls)
    BY DEF TypeOK
  <1>2. Head(todo[k]) \in Calls /\ Head(todo[k]) \in CallsIn(todo[k])
    BY <1>1, TailCalls
  <1>3. Head(todo[k])[2] \in Objects /\ Head(todo[k])[2] # NoObject
    BY <1>2, CallShape
  <1>4. Head(todo[k]) = <<Head(todo[k])[1], Head(todo[k])[2]>>
    BY <1>2, CallShape
  <1>5. Head(todo[k])[2] \in Uses(todo[k])
    BY <1>2, <1>3 DEF Uses
  <1> QED
    BY <1>2, <1>3, <1>4, <1>5, ObjectTypes DEF Object

LEMMA Written ==
    ASSUME TypeOK, Named, Mine, Creating, NEW k \in Tids, Step(k)
    PROVE  memory' \in [Tids -> [Objects -> ObjectStates]] /\ Writes(k)
  <1> DEFINE Goal == memory' \in [Tids -> [Objects -> ObjectStates]] /\ Writes(k)
  <1> SUFFICES Goal
    OBVIOUS
  <1>0. ASSUME memory' = memory PROVE Goal
    BY <1>0 DEF Writes, TypeOK, ObjectStates
  \* A call writes to its object.
  <1>a. ASSUME todo[k] # <<>>, Head(todo[k])[1] \in ObjectCalls,
               NEW new \in ObjectStates, Update(k, new),
               Object(k) \in ObjectStates => Effect(k, Head(todo[k])[2], Object(k), new)
        PROVE  Goal
    <2>1. PICK o \in Objects : o = Head(todo[k])[2]
      BY <1>a, OfACall
    <2>2. proc[k] \in Tids /\ Object(k) \in ObjectStates
      BY <1>a, OfACall
    <2>3. memory' = [memory EXCEPT ![proc[k]][o] = new]
      BY <1>a, <2>1 DEF Update
    <2>4. /\ memory' \in [Tids -> [Objects -> ObjectStates]]
          /\ memory'[proc[k]][o] = new
          /\ \A q \in Tids, x \in Objects : memory'[q][x] # memory[q][x] => q = proc[k] /\ x = o
      BY ZenonT(40), <2>2, <2>3, Updated
    <2>5. Effect(k, o, memory[proc[k]][o], memory'[proc[k]][o])
      BY <1>a, <2>1, <2>2, <2>4 DEF Object
    <2> QED
      BY <2>4, <2>5 DEF Writes
  \* A thread writes to its own.
  <1>b. ASSUME ~First(k), k \in alive, NEW new \in ObjectStates,
               memory' = [memory EXCEPT ![proc[k]][runs[k]] = new],
               Own(k) \in ObjectStates => Effect(k, runs[k], Own(k), new)
        PROVE  Goal
    <2>1. runs[k] \in Objects /\ proc[k] \in Tids /\ Own(k) \in ObjectStates
      BY <1>b, ObjectTypes DEF Mine, Own
    <2>2. /\ memory' \in [Tids -> [Objects -> ObjectStates]]
          /\ memory'[proc[k]][runs[k]] = new
          /\ \A q \in Tids, x \in Objects :
                 memory'[q][x] # memory[q][x] => q = proc[k] /\ x = runs[k]
      BY ZenonT(40), <1>b, <2>1, Updated
    <2>3. Effect(k, runs[k], memory[proc[k]][runs[k]], memory'[proc[k]][runs[k]])
      BY <1>b, <2>1, <2>2 DEF Own
    <2> QED
      BY <2>2, <2>3 DEF Writes
  <1> HIDE DEF Goal
  <1>1. CASE Fork(k)
    <2>1. CASE Free = {}
      BY <1>0, <1>1, <2>1 DEF Fork
    <2>2. CASE Free # {}
      <3>1. PICK c \in Free : /\ alive' = alive \cup {c} /\ Forked(k, c)
        <4>1. PICK c \in Free :
                 /\ alive' = alive \cup {c}
                 /\ proc' = [proc EXCEPT ![c] = c]
                 /\ t_cachedTid' = [t_cachedTid EXCEPT ![c] = t_cachedTid[k]]
                 /\ t_threadName' = [t_threadName EXCEPT ![c] = t_threadName[k]]
                 /\ runs' = [runs EXCEPT ![c] = runs[k]]
                 /\ todo' = [todo EXCEPT ![k] = Tail(@), ![c] = ChildProgram]
                 /\ pc' = [pc EXCEPT ![c] = "afterFork"]
                 /\ memory' = [memory EXCEPT ![c] = memory[proc[k]]]
          BY <1>1, <2>2 DEF Fork
        <4>2. c \in Tids /\ c # k
          BY <1>1 DEF Free, Fork, Calling
        <4> QED
          BY <1>1, <4>1, <4>2 DEF Forked, TypeOK, Fork
      <3>2. c \in Tids /\ memory' = [memory EXCEPT ![c] = memory[proc[k]]]
        BY <3>1 DEF Forked, Free
      <3>3. memory' \in [Tids -> [Objects -> ObjectStates]]
        BY <3>2 DEF TypeOK, ObjectStates
      <3>4. ASSUME NEW p \in Tids, NEW o \in Objects
            PROVE  \/ memory'[p][o] = memory[p][o]
                   \/ p = c /\ memory'[p][o] = memory[proc[k]][o]
        BY <3>2 DEF TypeOK
      <3>5. Writes(k)
        BY <3>1, <3>4 DEF Writes
      <3> QED
        BY <3>3, <3>5 DEF Goal
    <2> QED
      BY <2>1, <2>2
  <1>2. CASE Construct(k)
    <2>1. [Raw EXCEPT !.life = "live"] \in ObjectStates
      BY DEF Raw, ObjectStates
    <2>2. /\ todo[k] # <<>> /\ Head(todo[k])[1] \in ObjectCalls
          /\ Effect(k, Head(todo[k])[2], Object(k), [Raw EXCEPT !.life = "live"])
      BY <1>2 DEF Construct, Calling, Effect, ObjectCalls
    <2> QED
      BY <1>a, <1>2, <2>1, <2>2 DEF Construct
  <1>3. CASE Destroy(k)
    <2> DEFINE new == [Object(k) EXCEPT !.life = "dead"]
    <2>1. /\ todo[k] # <<>> /\ Head(todo[k])[1] \in ObjectCalls
          /\ Update(k, new) /\ Effect(k, Head(todo[k])[2], Object(k), new)
      BY <1>3 DEF Destroy, Calling, Effect, ObjectCalls
    <2>2. new \in ObjectStates
      BY <2>1, OfACall DEF ObjectStates
    <2> QED
      BY <1>a, <2>1, <2>2
  <1>4. CASE Start(k)
    <2> DEFINE new == [Object(k) EXCEPT !.started_ = TRUE]
    <2>1. /\ todo[k] # <<>> /\ Head(todo[k])[1] \in ObjectCalls
          /\ Update(k, new) /\ Effect(k, Head(todo[k])[2], Object(k), new)
      BY <1>4 DEF Start, Calling, Effect, ObjectCalls
    <2>2. new \in ObjectStates
      BY <2>1, OfACall DEF ObjectStates
    <2> QED
      BY <1>a, <2>1, <2>2
  <1>5. CASE Create(k)
    <2>1. k \in alive /\ pc[k] = "create" /\ todo[k] # <<>> /\ Head(todo[k])[1] = "start"
      BY <1>5 DEF Create, Creating
    <2>2. PICK n \in Free : /\ alive' = alive \cup {n} /\ Created(k, n)
      <3>1. PICK n \in Free :
              /\ k \in alive /\ pc[k] = "create"
              /\ alive' = alive \cup {n}
              /\ proc' = [proc EXCEPT ![n] = proc[k]]
              /\ t_cachedTid' = [t_cachedTid EXCEPT ![n] = 0]
              /\ t_threadName' = [t_threadName EXCEPT ![n] = "unkown"]
              /\ runs' = [runs EXCEPT ![n] = Head(todo[k])[2]]
              /\ todo' = [todo EXCEPT ![k] = Tail(@), ![n] = Func[Head(todo[k])[2]]]
              /\ pc' = [pc EXCEPT ![k] = "run", ![n] = "startThread"]
              /\ Update(k, [Object(k) EXCEPT !.created = TRUE, !.made = n])
        BY <1>5 DEF Create
      <3>2. n \in Tids /\ n # k
        BY <2>1 DEF Free
      <3> QED
        BY <3>1, <3>2 DEF Created, TypeOK
    <2> DEFINE new == [Object(k) EXCEPT !.created = TRUE, !.made = n]
    <2>3. Head(todo[k])[1] \in ObjectCalls /\ Update(k, new) /\ n \in Tids
      BY <2>1, <2>2 DEF ObjectCalls, Created, Free
    <2>4. new \in ObjectStates
      BY <2>1, <2>3, OfACall DEF ObjectStates
    <2>5. Effect(k, Head(todo[k])[2], Object(k), new)
      BY <2>1, <2>2 DEF Effect
    <2> HIDE DEF new
    <2> QED
      BY <1>a, <2>1, <2>3, <2>4, <2>5
  <1>6. CASE Join(k)
    <2> DEFINE new == [Object(k) EXCEPT !.joined = TRUE]
    <2>1. /\ todo[k] # <<>> /\ Head(todo[k])[1] \in ObjectCalls
          /\ Update(k, new) /\ Effect(k, Head(todo[k])[2], Object(k), new)
      BY <1>6 DEF Join, Calling, Effect, ObjectCalls
    <2>2. new \in ObjectStates
      BY <2>1, OfACall DEF ObjectStates
    <2> QED
      BY <1>a, <2>1, <2>2
  <1>7. CASE Store(k)
    <2> DEFINE new == [Own(k) EXCEPT !.tid_ = t_cachedTid[k]]
    <2>1. k \in alive /\ ~First(k) /\ pc[k] = "store" /\ pc'[k] = "run"
      BY <1>7 DEF Store, Named, Goto, TypeOK
    <2>2. runs[k] \in Objects /\ proc[k] \in Tids /\ Own(k) \in ObjectStates
      BY <2>1, ObjectTypes DEF Mine, Own
    <2>3. new \in ObjectStates
      BY <2>2 DEF ObjectStates, TypeOK
    <2>4. memory' = [memory EXCEPT ![proc[k]][runs[k]] = new]
      BY <1>7, <2>2 DEF Store, Own
    <2>5. Effect(k, runs[k], Own(k), new)
      BY <2>1 DEF Effect
    <2> QED
      BY <1>b, <2>1, <2>3, <2>4, <2>5
  <1>8. CASE TaskEnds(k)
    <2> DEFINE new == [Own(k) EXCEPT !.ended = TRUE]
    <2>1. k \in alive /\ ~First(k) /\ pc[k] = "exit" /\ alive' = alive \ {k}
      BY <1>8 DEF TaskEnds, Named
    <2>2. runs[k] \in Objects /\ proc[k] \in Tids /\ Own(k) \in ObjectStates
      BY <2>1, ObjectTypes DEF Mine, Own
    <2>3. new \in ObjectStates
      BY <2>2 DEF ObjectStates
    <2>4. memory' = [memory EXCEPT ![proc[k]][runs[k]] = new]
      BY <1>8, <2>2 DEF TaskEnds, Own
    <2>5. Effect(k, runs[k], Own(k), new)
      BY <2>1 DEF Effect
    <2> QED
      BY <1>b, <2>1, <2>3, <2>4, <2>5
  <1>9. CASE memory' = memory
    BY <1>0, <1>9
  <1> QED
    BY <1>1, <1>2, <1>3, <1>4, <1>5, <1>6, <1>7, <1>8, <1>9
       DEF Step, InitMain, Tid, AfterFork, CreateFails, JoinNothing, Enter, Throw, Finish, Exit

----------------------------------------------------------------------------
(* Types, and what a task tells of itself *)

LEMMA Survives ==
    ASSUME TypeOK, NEW k \in Tids, Advances(k), \A j \in alive \ {k} : Untouched(j),
           NEW j \in alive
    PROVE  /\ proc'[j] = proc[j] /\ runs'[j] = runs[j]
           /\ todo'[j] \in Seq(Calls)
           /\ CallsIn(todo'[j]) \subseteq CallsIn(todo[j])
           /\ InOrder(todo[j]) => InOrder(todo'[j])
           /\ j # k => Untouched(j)
  <1>1. j \in Tids /\ todo[j] \in Seq(Calls)
    BY DEF TypeOK
  <1>2. CASE todo'[j] = todo[j]
    BY <1>1, <1>2 DEF Advances, Untouched
  <1>3. CASE j = k /\ todo[k] # <<>> /\ todo'[k] = Tail(todo[k])
    BY <1>1, <1>3, TailCalls DEF Advances
  <1> QED
    BY <1>2, <1>3 DEF Advances, Untouched

\* Who is new has an id that nobody has, and no process of that id is left.
LEMMA Newcomer ==
    ASSUME TypeOK, Creating, NEW k \in Tids, Step(k), NEW n \in alive', n \notin alive
    PROVE  /\ n \in Tids /\ n \in Free /\ n # k
           /\ alive' = alive \cup {n}
           /\ \A j \in alive : proc[j] # n
           /\ \/ Forked(k, n)
              \/ /\ Created(k, n)
                 /\ todo[k] # <<>> /\ Head(todo[k])[1] = "start"
                 /\ Head(todo[k])[2] \in Objects /\ Head(todo[k]) \in CallsIn(todo[k])
  <1>1. k \in alive /\ Population(k)
    BY Moves DEF Advances
  <1>2. n \in Free /\ alive' = alive \cup {n} /\ (Forked(k, n) \/ Created(k, n))
    BY <1>1 DEF Population
  <1>3. ASSUME Created(k, n)
        PROVE  /\ todo[k] # <<>> /\ Head(todo[k])[1] = "start"
               /\ Head(todo[k])[2] \in Objects /\ Head(todo[k]) \in CallsIn(todo[k])
    <2>1. todo[k] # <<>> /\ Head(todo[k])[1] = "start"
      BY <1>1, <1>3 DEF Created, Creating
    <2> QED
      BY <2>1, OfACall DEF ObjectCalls
  <1> QED
    BY <1>1, <1>2, <1>3 DEF Free

\* TypeOK but for the memory.
Tasks == /\ alive \subseteq Tids
         /\ proc \in [Tids -> Tids]
         /\ t_cachedTid \in [Tids -> Tids \cup {0}]
         /\ t_threadName \in [Tids -> {"unkown", "main", "finished", "crashed"} \cup Objects]
         /\ runs \in [Tids -> Objects \cup {NoObject}]
         /\ todo \in [Tids -> Seq(Calls)]
         /\ pc \in [Tids -> Steps]

LEMMA TypeStep ==
    ASSUME TypeOK, Named, Mine, Creating, NEW k \in Tids, Step(k)
    PROVE  TypeOK'
  <1> USE DEF Goto
  <1>1. memory' \in [Tids -> [Objects -> ObjectStates]]
    BY Written
  <1>2. k \in alive /\ todo[k] \in Seq(Calls)
    BY Moves DEF Advances, TypeOK
  <1>3. todo[k] # <<>> => Tail(todo[k]) \in Seq(Calls)
    BY <1>2, TailCalls
  <1>4. Tasks'
    <2>0. Tasks
      BY DEF TypeOK, Tasks
    <2> USE <2>0 DEF UserSteps, Steps, Tasks
    <2>a. ASSUME Return(k), todo[k] # <<>>
          PROVE  todo' \in [Tids -> Seq(Calls)] /\ pc' \in [Tids -> Steps]
      BY <1>3, <2>a DEF Return
    <2>1. CASE InitMain(k)
      BY ZenonT(40), <2>1 DEF InitMain, CacheTid, EndProcess
    <2>2. CASE Tid(k)
      BY <1>3, <2>2 DEF Tid, CacheTid, EndProcess, Calling, Return
    <2>3. CASE Fork(k)
      <3>1. CASE Free = {}
        BY <2>a, <2>3, <3>1 DEF Fork, Calling
      <3>2. CASE Free # {}
        <4>1. PICK c \in Free :
                 /\ alive' = alive \cup {c}
                 /\ proc' = [proc EXCEPT ![c] = c]
                 /\ t_cachedTid' = [t_cachedTid EXCEPT ![c] = t_cachedTid[k]]
                 /\ t_threadName' = [t_threadName EXCEPT ![c] = t_threadName[k]]
                 /\ runs' = [runs EXCEPT ![c] = runs[k]]
                 /\ todo' = [todo EXCEPT ![k] = Tail(@), ![c] = ChildProgram]
                 /\ pc' = [pc EXCEPT ![c] = "afterFork"]
          BY <2>3, <3>2 DEF Fork
        <4>2. c \in Tids /\ Tail(todo[k]) \in Seq(Calls) /\ ChildProgram \in Seq(Calls)
          BY <1>3, <2>3, ProgramAssumption DEF Fork, Calling, Free
        <4>3. alive' \subseteq Tids /\ proc' \in [Tids -> Tids] /\ pc' \in [Tids -> Steps]
          BY <4>1, <4>2
        <4>4. /\ t_cachedTid' \in [Tids -> Tids \cup {0}]
              /\ t_threadName' \in [Tids -> {"unkown", "main", "finished", "crashed"} \cup Objects]
              /\ runs' \in [Tids -> Objects \cup {NoObject}]
          BY <4>1, <4>2
        <4>5. todo' \in [Tids -> Seq(Calls)]
          BY <4>1, <4>2
        <4> QED
          BY <4>3, <4>4, <4>5
      <3> QED
        BY <3>1, <3>2
    <2>4. CASE AfterFork(k)
      BY <2>4 DEF AfterFork, EndProcess
    <2>5. CASE Construct(k) \/ Destroy(k) \/ Join(k)
      BY <2>a, <2>5 DEF Construct, Destroy, Join, Calling
    <2>6. CASE Start(k)
      BY <2>6 DEF Start
    <2>7. CASE Create(k)
      <3>1. PICK n \in Free :
              /\ k \in alive /\ pc[k] = "create"
              /\ alive' = alive \cup {n}
              /\ proc' = [proc EXCEPT ![n] = proc[k]]
              /\ t_cachedTid' = [t_cachedTid EXCEPT ![n] = 0]
              /\ t_threadName' = [t_threadName EXCEPT ![n] = "unkown"]
              /\ runs' = [runs EXCEPT ![n] = Head(todo[k])[2]]
              /\ todo' = [todo EXCEPT ![k] = Tail(@), ![n] = Func[Head(todo[k])[2]]]
              /\ pc' = [pc EXCEPT ![k] = "run", ![n] = "startThread"]
        BY <2>7 DEF Create
      <3>2. todo[k] # <<>> /\ Head(todo[k])[1] = "start"
        BY <3>1 DEF Creating
      <3>3. Head(todo[k])[2] \in Objects
        BY <3>2, OfACall DEF ObjectCalls
      <3>4. Func[Head(todo[k])[2]] \in Seq(Calls) /\ Tail(todo[k]) \in Seq(Calls) /\ n \in Tids
        BY <1>3, <3>2, <3>3, ProgramAssumption DEF Free
      <3>5. alive' \subseteq Tids /\ proc' \in [Tids -> Tids] /\ pc' \in [Tids -> Steps]
        BY <3>1, <3>4
      <3>6. /\ t_cachedTid' \in [Tids -> Tids \cup {0}]
            /\ t_threadName' \in [Tids -> {"unkown", "main", "finished", "crashed"} \cup Objects]
            /\ runs' \in [Tids -> Objects \cup {NoObject}]
        BY <3>1, <3>3, <3>4
      <3>7. todo' \in [Tids -> Seq(Calls)]
        BY <3>1, <3>4
      <3> QED
        BY <3>5, <3>6, <3>7
    <2>8. CASE CreateFails(k)
      BY <1>3, <2>8 DEF CreateFails, Creating, Return
    <2>9. CASE JoinNothing(k)
      BY <1>3, <2>9 DEF JoinNothing, EndProcess, Calling, Return
    <2>10. CASE Enter(k)
      BY ZenonT(40), <2>10 DEF Enter, CacheTid, EndProcess
    <2>11. CASE Store(k)
      <3>1. runs[k] \in Objects
        BY <1>2, <2>11 DEF Store, Named, Mine
      <3> QED
        BY <2>11, <3>1 DEF Store
    <2>12. CASE Throw(k) \/ TaskEnds(k) \/ Exit(k)
      BY <2>12 DEF Throw, TaskEnds, Exit, EndProcess
    <2>13. CASE Finish(k)
      BY <2>13 DEF Finish
    <2> QED
      BY <2>1, <2>2, <2>3, <2>4, <2>5, <2>6, <2>7, <2>8, <2>9, <2>10, <2>11, <2>12, <2>13 DEF Step
  <1> QED
    BY <1>1, <1>4 DEF TypeOK, Tasks, ObjectStates

LEMMA NamedStep ==
    ASSUME TypeOK, Named, Mine, Creating, NEW k \in Tids, Step(k)
    PROVE  Named'
  <1> DEFINE Ok(j) ==
                 /\ pc[j] \in {"init", "afterFork"} => First(j)
                 /\ pc[j] \in {"startThread", "store", "exit"} => ~First(j)
                 /\ pc[j] \in {"init", "startThread"} => t_cachedTid[j] = 0
                 /\ pc[j] \in {"run", "create", "store", "exit"} => t_cachedTid[j] = j
                 /\ pc[j] \in {"run", "create"} =>
                        t_threadName[j] = IF First(j) THEN "main" ELSE runs[j]
  <1> SUFFICES ASSUME NEW j \in alive' PROVE Ok(j)'
    BY DEF Named
  <1>1. CASE j \in alive /\ j # k
    <2>1. Untouched(j) /\ Ok(j)
      BY <1>1, Moves DEF Named
    <2> QED
      BY <2>1 DEF Untouched, First
  <1>2. CASE j = k
    <2>1. k \in alive /\ Ok(k) /\ Advances(k)
      BY Moves DEF Advances, Named
    <2> HIDE DEF Ok
    <2> SUFFICES Ok(k)'
      BY <1>2
    <2> USE DEF Goto, First
    <2>2. CASE InitMain(k) \/ Enter(k) \/ Tid(k)
      BY <1>2, <2>1, <2>2, TidAssumption
         DEF Ok, InitMain, Enter, Tid, Calling, Return, CacheTid, EndProcess, TypeOK
    <2>3. CASE AfterFork(k)
      BY <1>2, <2>1, <2>3 DEF Ok, AfterFork, EndProcess, TypeOK
    <2>4. CASE Fork(k)
      <3>1. CASE Free = {}
        BY <2>1, <2>4, <3>1 DEF Ok, Fork, Calling, Return, TypeOK
      <3>2. CASE Free # {}
        <4>1. PICK c \in Free :
                 /\ proc' = [proc EXCEPT ![c] = c]
                 /\ t_cachedTid' = [t_cachedTid EXCEPT ![c] = t_cachedTid[k]]
                 /\ t_threadName' = [t_threadName EXCEPT ![c] = t_threadName[k]]
                 /\ runs' = [runs EXCEPT ![c] = runs[k]]
                 /\ pc' = [pc EXCEPT ![c] = "afterFork"]
          BY <2>4, <3>2 DEF Fork
        <4>2. c # k /\ c \in Tids
          BY <2>1 DEF Free
        <4> QED
          BY <2>1, <4>1, <4>2 DEF Ok, TypeOK
      <3> QED
        BY <3>1, <3>2
    <2>5. CASE Construct(k) \/ Destroy(k) \/ Join(k) \/ JoinNothing(k) \/ CreateFails(k)
      BY <2>1, <2>5
         DEF Ok, Construct, Destroy, Join, JoinNothing, CreateFails, Calling, Return, TypeOK
    <2>6. CASE Start(k)
      BY <2>1, <2>6 DEF Ok, Start, Calling, TypeOK
    <2>7. CASE Create(k)
      <3>1. PICK n \in Free :
              /\ pc[k] = "create"
              /\ proc' = [proc EXCEPT ![n] = proc[k]]
              /\ t_cachedTid' = [t_cachedTid EXCEPT ![n] = 0]
              /\ t_threadName' = [t_threadName EXCEPT ![n] = "unkown"]
              /\ runs' = [runs EXCEPT ![n] = Head(todo[k])[2]]
              /\ pc' = [pc EXCEPT ![k] = "run", ![n] = "startThread"]
        BY <2>7 DEF Create
      <3>2. n # k /\ n \in Tids
        BY <2>1 DEF Free
      <3> QED
        BY <2>1, <3>1, <3>2 DEF Ok, TypeOK
    <2>8. CASE Store(k)
      BY <2>1, <2>8 DEF Ok, Store, TypeOK
    <2>9. CASE Throw(k) \/ TaskEnds(k) \/ Exit(k)
      BY <1>2, <2>1, <2>9 DEF Ok, Throw, TaskEnds, Exit, EndProcess, TypeOK
    <2>10. CASE Finish(k)
      BY <2>1, <2>10 DEF Ok, Finish, TypeOK
    <2> QED
      BY <2>2, <2>3, <2>4, <2>5, <2>6, <2>7, <2>8, <2>9, <2>10 DEF Step
  <1>3. CASE j \notin alive
    <2>1. /\ j # k /\ j # proc[k]
          /\ Forked(k, j) \/ Created(k, j)
      BY <1>3, Newcomer, Moves DEF Advances
    <2> QED
      BY <2>1 DEF Forked, Created, First
  <1> QED
    BY <1>1, <1>2, <1>3

----------------------------------------------------------------------------
(* The objects *)

LEMMA UsesOwn ==
    ASSUME Owned, NEW k \in alive
    PROVE  Uses(todo[k]) \subseteq IF First(k) THEN Uses(MainProgram) \cup Uses(ChildProgram)
                                               ELSE Uses(Func[runs[k]])
BY DEF Owned, Uses

\* No two tasks of a process have an object in common.
LEMMA Disjoint ==
    ASSUME TypeOK, Mine, Owned, NEW j \in alive, NEW k \in alive, j # k, proc[j] = proc[k],
           NEW o \in Uses(todo[j])
    PROVE  o \notin Uses(todo[k])
  <1>1. CASE First(j) /\ First(k)
    BY <1>1 DEF First
  <1>2. CASE First(j) /\ ~First(k)
    BY <1>2, UsesOwn, ContractAssumption DEF Mine
  <1>3. CASE ~First(j) /\ First(k)
    BY <1>3, UsesOwn, ContractAssumption DEF Mine
  <1>4. CASE ~First(j) /\ ~First(k)
    <2>1. runs[j] \in Objects /\ runs[k] \in Objects /\ runs[j] # runs[k]
      BY <1>4 DEF Mine, Own
    <2> QED
      BY <1>4, <2>1, UsesOwn, ContractAssumption
  <1> QED
    BY <1>1, <1>2, <1>3, <1>4

LEMMA KeptStep ==
    ASSUME TypeOK, Named, Mine, Creating, Kept, NEW k \in Tids, Step(k)
    PROVE  Kept'
  <1> DEFINE Ok(m) == /\ ~m.started_ => ~m.created
                      /\ ~m.created => m.tid_ = 0 /\ m.made = 0 /\ ~m.ended /\ ~m.joined
                      /\ m.tid_ \in {0, m.made}
                      /\ m.ended => m.tid_ = m.made
                      /\ m.joined => m.ended
  <1> SUFFICES ASSUME NEW p \in Tids, NEW o \in Objects PROVE Ok(memory'[p][o])
    BY DEF Kept
  <1>1. Writes(k) /\ k \in alive
    BY Written, Moves DEF Advances
  <1>2. \A q \in Tids : Ok(memory[q][o]) /\ memory[q][o] \in ObjectStates
    BY DEF Kept, TypeOK, ObjectStates
  <1>3. proc[k] \in Tids
    BY DEF TypeOK
  <1>4. CASE memory'[p][o] = memory[p][o] \/ memory'[p][o] = memory[proc[k]][o]
    BY <1>2, <1>3, <1>4
  <1>5. CASE p = proc[k] /\ Effect(k, o, memory[p][o], memory'[p][o])
    <2> DEFINE old == memory[p][o]
               new == memory'[p][o]
    <2>1. Ok(old) /\ old \in ObjectStates /\ Effect(k, o, old, new)
      BY <1>2, <1>5
    <2>3. pc[k] \in {"store", "exit"} /\ o = runs[k] =>
              /\ old.created /\ old.started_ /\ old.made = k
              /\ ~old.joined /\ ~old.ended
              /\ old.tid_ = IF pc[k] = "store" THEN 0 ELSE k
      BY <1>1, <1>5 DEF Named, Mine, Own
    <2>4. pc[k] = "store" => t_cachedTid[k] = k
      BY <1>1 DEF Named
    <2>5. pc[k] = "create" /\ o = Head(todo[k])[2] => old.started_ /\ ~old.created
      BY <1>1, <1>5 DEF Creating, Object
    <2>6. new \in ObjectStates
      BY <1>5, Written
    <2> SUFFICES Ok(new)
      OBVIOUS
    <2> HIDE DEF old, new
    <2>7. CASE \/ new = [Raw EXCEPT !.life = "live"]
               \/ new = [old EXCEPT !.life = "dead"]
               \/ ~old.started_ /\ new = [old EXCEPT !.started_ = TRUE]
               \/ old.created /\ old.ended /\ old.started_ /\ new = [old EXCEPT !.joined = TRUE]
      BY <2>1, <2>7 DEF ObjectStates, Raw
    <2>8. CASE pc[k] = "create" /\ o = Head(todo[k])[2]
               /\ \E n \in Free : new = [old EXCEPT !.created = TRUE, !.made = n]
      BY <2>1, <2>5, <2>8 DEF ObjectStates
    <2>9. CASE pc[k] = "store" /\ o = runs[k] /\ new = [old EXCEPT !.tid_ = t_cachedTid[k]]
      BY <2>1, <2>3, <2>4, <2>9 DEF ObjectStates
    <2>10. CASE pc[k] = "exit" /\ o = runs[k] /\ new = [old EXCEPT !.ended = TRUE]
      BY <2>1, <2>3, <2>10 DEF ObjectStates
    <2> QED
      BY <2>1, <2>7, <2>8, <2>9, <2>10 DEF Effect
  <1> QED
    BY <1>1, <1>4, <1>5 DEF Writes

\* What is in use stays as it is, but for a destructor, or its own thread.
LEMMA InUseStays ==
    ASSUME TypeOK, Named, Mine, Creating, Kept, Owned, NotConstructed, NEW k \in Tids, Step(k),
           NEW j \in alive, NEW o \in Objects,
           \/ ~First(j) /\ runs[j] = o
           \/ pc[j] = "create" /\ Head(todo[j])[2] = o
    PROVE  LET old == memory[proc[j]][o]
               new == memory'[proc[j]][o] IN
           \/ new = old
           \/ new = [old EXCEPT !.life = "dead"]
           \/ j = k /\ pc[k] \in {"create", "store", "exit"}
  <1> DEFINE old == memory[proc[j]][o]
             new == memory'[proc[j]][o]
  <1>1. k \in alive /\ j \in Tids /\ proc[j] \in Tids /\ proc[j] \notin Free /\ Writes(k)
    BY Written, Moves DEF Advances, Free, TypeOK
  <1>2. InUse(proc[j], o)
    BY DEF InUse
  <1>3. CASE proc[j] = proc[k] /\ Effect(k, o, old, new)
    <2>1. CASE Calling(k, "construct") /\ o = Head(todo[k])[2]
      <3>1. <<"construct", o>> \in CallsIn(todo[k])
        BY <2>1, OfACall DEF Calling, ObjectCalls
      <3> QED
        BY <1>1, <1>2, <1>3, <3>1 DEF NotConstructed
    <2>2. CASE new = [old EXCEPT !.life = "dead"]
      BY <2>2
    <2>3. CASE Calling(k, "start") /\ ~old.started_
      BY <2>3 DEF Mine, Creating, Own, Object
    <2>4. CASE pc[k] = "create" /\ o = Head(todo[k])[2]
      <3>1. ~old.created /\ todo[k] # <<>> /\ Head(todo[k])[1] = "start"
        BY <1>1, <1>3, <2>4 DEF Creating, Object
      <3>2. pc[j] = "create" /\ Head(todo[j])[2] = o /\ todo[j] # <<>> /\ Head(todo[j])[1] = "start"
        BY <3>1 DEF Mine, Own, Creating
      <3>3. o \in Uses(todo[k]) /\ o \in Uses(todo[j])
        BY <1>1, <2>4, <3>1, <3>2, OfACall DEF ObjectCalls
      <3>4. j = k
        BY <1>1, <1>3, <3>3, Disjoint
      <3> QED
        BY <2>4, <3>4
    <2>5. CASE Calling(k, "join") /\ old.created /\ old.ended
      BY <2>5 DEF Mine, Creating, Own, Object
    <2>6. CASE pc[k] \in {"store", "exit"} /\ o = runs[k]
      <3>1. old.created /\ old.made = k
        BY <1>1, <1>3, <2>6 DEF Named, Mine, Own
      <3>2. j = k
        BY <3>1 DEF Mine, Creating, Own, Object
      <3> QED
        BY <2>6, <3>2
    <2> QED
      BY <1>3, <2>1, <2>2, <2>3, <2>4, <2>5, <2>6 DEF Effect
  <1> QED
    BY <1>1, <1>3 DEF Writes

LEMMA MineStep ==
    ASSUME TypeOK, Named, Mine, Creating, Kept, Owned, NotConstructed, NEW k \in Tids, Step(k)
    PROVE  Mine'
  <1> DEFINE Ok(m, j, at) == /\ m.started_ /\ m.created /\ ~m.ended /\ ~m.joined
                             /\ m.made = j
                             /\ m.tid_ = IF at \in {"startThread", "store"} THEN 0 ELSE j
  <1> SUFFICES ASSUME NEW j \in alive', ~First(j)'
               PROVE  runs'[j] \in Objects /\ Ok(memory'[proc'[j]][runs'[j]], j, pc'[j])
    BY DEF Mine, Own
  <1>1. CASE j \in alive
    <2>1. /\ proc'[j] = proc[j] /\ runs'[j] = runs[j] /\ j \in Tids /\ k \in alive
          /\ j # k => pc'[j] = pc[j]
      BY <1>1, Moves, Survives DEF Untouched, TypeOK, Advances
    <2> DEFINE old == memory[proc[j]][runs[j]]
               new == memory'[proc[j]][runs[j]]
    <2>0. ~First(j)
      BY <2>1 DEF First
    <2>2. /\ runs[j] \in Objects /\ proc[j] \in Tids
          /\ old \in ObjectStates /\ Ok(old, j, pc[j])
      <3>1. runs[j] \in Objects /\ Ok(Own(j), j, pc[j])
        BY <1>1, <2>0 DEF Mine
      <3> QED
        BY <2>1, <3>1, ObjectTypes DEF Own
    <2>3. \/ new = old
          \/ new = [old EXCEPT !.life = "dead"]
          \/ j = k /\ pc[k] \in {"create", "store", "exit"}
      BY <1>1, <2>0, <2>2, InUseStays
    <2> SUFFICES Ok(new, j, pc'[j])
      BY <2>1, <2>2
    <2> HIDE DEF old, new
    <2>4. CASE j # k
      BY <2>1, <2>2, <2>3, <2>4 DEF ObjectStates
    <2>5. CASE j = k /\ Store(k)
      <3>1. pc[k] = "store" /\ pc'[k] = "run" /\ t_cachedTid[k] = k
        BY <1>1, <2>1, <2>5 DEF Store, Goto, TypeOK, Named
      <3>2. memory' = [memory EXCEPT ![proc[k]][runs[k]].tid_ = k]
        BY <2>5, <3>1 DEF Store
      <3>3. new = [old EXCEPT !.tid_ = k]
        BY <2>2, <2>5, <3>2 DEF TypeOK, old, new
      <3> QED
        BY <2>1, <2>2, <2>5, <3>1, <3>3 DEF ObjectStates
    <2>6. CASE j = k /\ Create(k)
      <3>1. PICK n \in Free :
                /\ pc[k] = "create" /\ pc' = [pc EXCEPT ![k] = "run", ![n] = "startThread"]
                /\ Update(k, [Object(k) EXCEPT !.created = TRUE, !.made = n])
        BY <2>6 DEF Create
      <3>2. todo[k] # <<>> /\ Head(todo[k])[1] = "start" /\ ~Object(k).created /\ k # n /\ n \in Tids
        BY <2>1, <3>1 DEF Creating, Free
      <3>3. Head(todo[k])[2] \in Objects /\ Head(todo[k])[2] # runs[k]
        BY <2>2, <2>6, <3>2, OfACall DEF ObjectCalls, Object, old
      <3>4. new = old
        BY <2>2, <2>6, <3>1, <3>3 DEF Update, TypeOK, old, new
      <3>5. pc'[k] = "run"
        BY <3>1, <3>2 DEF TypeOK
      <3> QED
        BY <2>1, <2>2, <2>6, <3>1, <3>4, <3>5
    <2>7. CASE j = k /\ CreateFails(k)
      BY <2>1, <2>2, <2>7 DEF CreateFails, Return, Goto, TypeOK, old, new
    <2>8. CASE j = k /\ ~Store(k) /\ ~Create(k) /\ ~CreateFails(k)
      <3>1. k \in alive'
        BY <2>8
      <3>2. pc[k] \notin {"create", "store", "exit"}
        BY <2>8, <3>1, Zenon DEF Step, InitMain, Tid, Fork, AfterFork, Construct, Destroy, Start, Join,
              JoinNothing, Enter, Throw, Finish, TaskEnds, Exit, Calling
      <3>3. pc'[k] \in {"startThread", "store"} <=> pc[k] \in {"startThread", "store"}
        <4>1. CASE Fork(k)
          <5>1. \A n \in Free : n # k
            BY <2>1 DEF Free
          <5> QED
            BY <2>1, <2>8, <4>1, <5>1 DEF Fork, Return, Goto, Calling, TypeOK
        <4>2. CASE InitMain(k) \/ AfterFork(k) \/ Enter(k) \/ Start(k) \/ Finish(k)
          BY <2>1, <2>8, <4>2 DEF InitMain, AfterFork, Enter, Start, Finish, Calling, Goto, TypeOK
        <4>3. CASE Tid(k) \/ Construct(k) \/ Destroy(k) \/ Join(k) \/ JoinNothing(k)
          BY <2>1, <2>8, <4>3
             DEF Tid, Construct, Destroy, Join, JoinNothing, Calling, Return, Goto, TypeOK
        <4>4. CASE Throw(k) \/ TaskEnds(k) \/ Exit(k)
          BY <4>4 DEF Throw, TaskEnds, Exit
        <4> QED
          BY <2>8, <4>1, <4>2, <4>3, <4>4 DEF Step
      <3> QED
        BY <2>1, <2>2, <2>3, <2>8, <3>2, <3>3 DEF ObjectStates
    <2> QED
      BY <2>4, <2>5, <2>6, <2>7, <2>8
  <1>2. CASE j \notin alive
    <2>1. /\ Created(k, j) /\ k \in alive /\ proc[k] \in Tids /\ j \in Tids
          /\ todo[k] # <<>> /\ Head(todo[k])[1] = "start" /\ Head(todo[k])[2] \in Objects
      BY <1>2, Newcomer, Moves DEF Advances, Forked, First, TypeOK
    <2> DEFINE o == Head(todo[k])[2]
    <2>2. memory'[proc[k]][o] = [memory[proc[k]][o] EXCEPT !.created = TRUE, !.made = j]
      BY <2>1 DEF Created, Update, Object, TypeOK
    <2>3. /\ memory[proc[k]][o].started_ /\ ~memory[proc[k]][o].created
          /\ memory[proc[k]][o] \in ObjectStates
      BY <2>1, ObjectTypes DEF Created, Creating, Object
    <2>4. /\ ~memory[proc[k]][o].ended /\ ~memory[proc[k]][o].joined
          /\ memory[proc[k]][o].tid_ = 0
      BY <2>1, <2>3 DEF Kept
    <2>5. proc'[j] = proc[k] /\ runs'[j] = o /\ pc'[j] = "startThread"
      BY <2>1 DEF Created
    <2> QED
      BY ZenonT(40), <2>1, <2>2, <2>3, <2>4, <2>5 DEF ObjectStates
  <1> QED
    BY <1>1, <1>2

\* Only start() gets a task to pthread_create.
LEMMA OnlyStart ==
    ASSUME TypeOK, Creating, NEW k \in Tids, Step(k), k \in alive', pc'[k] = "create"
    PROVE  Start(k)
  <1>1. k \in alive /\ \A n \in Free : n # k
    BY Moves DEF Advances, Free
  <1>2. CASE Fork(k) \/ Create(k)
    BY ZenonT(40), <1>1, <1>2 DEF Fork, Create, Calling, Return, Goto, TypeOK
  <1>3. CASE ~Fork(k) /\ ~Create(k) /\ ~Start(k)
    BY <1>1, <1>3
       DEF Step, InitMain, Tid, AfterFork, Construct, Destroy, CreateFails, Join, JoinNothing,
           Enter, Store, Throw, Finish, TaskEnds, Exit, EndProcess, Calling, Return, Goto, TypeOK
  <1> QED
    BY <1>2, <1>3

LEMMA CreatingStep ==
    ASSUME TypeOK, Named, Mine, Creating, Kept, Owned, NotConstructed, NEW k \in Tids, Step(k)
    PROVE  Creating'
  <1> SUFFICES ASSUME NEW j \in alive', pc'[j] = "create"
               PROVE  /\ todo'[j] # <<>> /\ Head(todo'[j])[1] = "start"
                      /\ memory'[proc'[j]][Head(todo'[j])[2]].started_
                      /\ ~memory'[proc'[j]][Head(todo'[j])[2]].created
    BY DEF Creating, Object
  <1>1. CASE j \in alive /\ j # k
    <2>1. Untouched(j) /\ pc[j] = "create" /\ j \in Tids
      BY <1>1, Moves DEF Untouched, TypeOK
    <2>2. /\ todo[j] # <<>> /\ Head(todo[j])[1] = "start"
          /\ memory[proc[j]][Head(todo[j])[2]].started_
          /\ ~memory[proc[j]][Head(todo[j])[2]].created
      BY <1>1, <2>1 DEF Creating, Object
    <2>3. PICK o \in Objects : o = Head(todo[j])[2]
      BY <2>1, <2>2, OfACall DEF ObjectCalls
    <2>4. PICK q \in Tids : q = proc[j]
      BY <2>1 DEF TypeOK
    <2>5. j \in alive /\ pc[j] = "create" /\ Head(todo[j])[2] = o
      BY <1>1, <2>1, <2>3
    <2>6. memory'[q][o] = memory[q][o] \/ memory'[q][o] = [memory[q][o] EXCEPT !.life = "dead"]
      <3>1. \/ memory'[proc[j]][o] = memory[proc[j]][o]
            \/ memory'[proc[j]][o] = [memory[proc[j]][o] EXCEPT !.life = "dead"]
        BY <1>1, <2>5, InUseStays
      <3> QED
        BY <2>4, <3>1
    <2>7. memory[q][o] \in ObjectStates
      BY <2>1, <2>4, ObjectTypes
    <2>8. /\ memory'[q][o].started_ = memory[q][o].started_
          /\ memory'[q][o].created = memory[q][o].created
      BY <2>6, <2>7 DEF ObjectStates
    <2>9. proc'[j] = q /\ todo'[j] = todo[j]
      BY <2>1, <2>4 DEF Untouched
    <2> QED
      BY <2>2, <2>3, <2>4, <2>8, <2>9
  <1>2. CASE j = k
    <2>1. k \in alive
      BY Moves DEF Advances
    <2>2. Start(k)
      BY <1>2, OnlyStart
    <2>3. /\ todo[k] # <<>> /\ Head(todo[k])[1] = "start" /\ ~Object(k).started_
          /\ Update(k, [Object(k) EXCEPT !.started_ = TRUE])
          /\ todo' = todo /\ proc' = proc
      BY <2>2 DEF Start, Calling
    <2>4. PICK o \in Objects : o = Head(todo[k])[2]
      BY <2>3, OfACall DEF ObjectCalls
    <2>5. /\ proc[k] \in Tids /\ memory[proc[k]][o] \in ObjectStates
          /\ ~memory[proc[k]][o].started_ /\ ~memory[proc[k]][o].created
      BY <2>3, <2>4, ObjectTypes DEF Kept, Object
    <2>6. memory'[proc[k]][o] = [memory[proc[k]][o] EXCEPT !.started_ = TRUE]
      BY <2>3, <2>4, <2>5 DEF Update, Object, TypeOK
    <2> QED
      BY <1>2, <2>3, <2>4, <2>5, <2>6 DEF ObjectStates
  <1>3. CASE j \notin alive
    BY <1>3, Newcomer DEF Forked, Created
  <1> QED
    BY <1>1, <1>2, <1>3

----------------------------------------------------------------------------
(* Who may construct an object *)

LEMMA ProgramsInOrder ==
    ASSUME NEW k \in Tids, NEW n \in Tids,
           Forked(k, n) \/ (Created(k, n) /\ Head(todo[k])[2] \in Objects)
    PROVE  InOrder(todo'[n]) /\ Constructs(todo'[n])
BY ContractAssumption DEF Forked, Created

LEMMA OwnedStep ==
    ASSUME TypeOK, Named, Creating, Owned, Sequenced, NEW k \in Tids, Step(k)
    PROVE  Owned' /\ Sequenced'
  <1> SUFFICES ASSUME NEW j \in alive'
               PROVE  /\ CallsIn(todo'[j]) \subseteq
                             IF First(j)' THEN CallsIn(MainProgram) \cup CallsIn(ChildProgram)
                                          ELSE CallsIn(Func[runs'[j]])
                      /\ InOrder(todo'[j])
    BY DEF Owned, Sequenced, CallsIn, InOrder
  <1>1. CASE j \in alive
    <2>1. /\ proc'[j] = proc[j] /\ runs'[j] = runs[j] /\ InOrder(todo'[j])
          /\ CallsIn(todo'[j]) \subseteq CallsIn(todo[j])
      BY <1>1, Moves, Survives DEF Sequenced
    <2> QED
      BY <1>1, <2>1 DEF Owned, First
  <1>2. CASE j \notin alive
    <2>1. /\ j \in Tids /\ k \in alive /\ proc[k] # j
          /\ Forked(k, j) \/ (Created(k, j) /\ Head(todo[k])[2] \in Objects)
      BY <1>2, Newcomer, Moves DEF Advances
    <2>2. InOrder(todo'[j])
      BY <2>1, ProgramsInOrder
    <2>3. CASE Forked(k, j)
      BY <2>2, <2>3 DEF Forked, First
    <2>4. CASE Created(k, j)
      BY <2>1, <2>2, <2>4 DEF Created, First
    <2> QED
      BY <2>1, <2>3, <2>4
  <1> QED
    BY <1>1, <1>2

LEMMA InUseGrows ==
    ASSUME TypeOK, Creating, NEW k \in Tids, Step(k), NEW p \in Tids, NEW o \in Objects, InUse(p, o)'
    PROVE  \/ InUse(p, o)
           \/ /\ Calling(k, "start") /\ p = proc[k] /\ o = Head(todo[k])[2]
              /\ alive' = alive /\ todo' = todo /\ proc' = proc
  <1>1. PICK j \in alive' : /\ proc'[j] = p
                            /\ \/ ~First(j)' /\ runs'[j] = o
                               \/ pc'[j] = "create" /\ Head(todo'[j])[2] = o
    BY DEF InUse
  <1>2. CASE j \in alive /\ j # k
    <2>1. Untouched(j)
      BY <1>2, Moves
    <2> QED
      BY <1>1, <1>2, <2>1 DEF Untouched, InUse, First
  <1>3. CASE j = k
    <2>1. k \in alive /\ proc'[k] = proc[k] /\ runs'[k] = runs[k]
      BY Moves DEF Advances
    <2>2. CASE ~First(k)' /\ runs'[k] = o
      BY <1>1, <1>3, <2>1, <2>2 DEF InUse, First
    <2>3. CASE pc'[k] = "create" /\ Head(todo'[k])[2] = o
      <3>1. Start(k)
        BY <1>3, <2>3, OnlyStart
      <3> QED
        BY <1>1, <1>3, <2>3, <3>1 DEF Start
    <2> QED
      BY <1>1, <1>3, <2>2, <2>3
  <1>4. CASE j \notin alive
    <2>1. k \in alive /\ (Forked(k, j) \/ Created(k, j))
      BY <1>4, Newcomer, Moves DEF Advances
    <2>2. Created(k, j)
      BY <1>1, <2>1 DEF Forked, First
    <2>3. proc[k] = p /\ pc[k] = "create" /\ Head(todo[k])[2] = o
      BY <1>1, <2>2 DEF Created
    <2> QED
      BY <2>1, <2>3 DEF InUse
  <1> QED
    BY <1>2, <1>3, <1>4

\* The function of a thread is not yet there to use what it will construct.
LEMMA FreshFunction ==
    ASSUME TypeOK, Creating, Descended, NEW k \in Tids, k \in alive, pc[k] = "create",
           NEW q \in Objects, q \in Uses(Func[Head(todo[k])[2]])
    PROVE  /\ ~InUse(proc[k], q)
           /\ \A x \in Objects, a \in SUBSET Objects :
                  Ancestors(x, a) /\ (\A y \in a : Settled(proc[k], y)) => q \notin a
  <1>1. /\ Head(todo[k])[2] \in Objects /\ proc[k] \in Tids
        /\ ~memory[proc[k]][Head(todo[k])[2]].created
    <2>1. todo[k] # <<>> /\ Head(todo[k])[1] = "start" /\ ~Object(k).created
      BY DEF Creating
    <2> QED
      BY <2>1, OfACall DEF ObjectCalls, Object
  <1>2. ~InUse(proc[k], q)
    BY <1>1 DEF Descended, Ancestors, Settled
  <1>3. ASSUME NEW x \in Objects, NEW a \in SUBSET Objects,
               Ancestors(x, a), \A y \in a : Settled(proc[k], y), q \in a
        PROVE  FALSE
    BY <1>1, <1>3 DEF Ancestors, Settled
  <1> QED
    BY <1>2, <1>3

LEMMA UsesCall ==
    ASSUME NEW o \in Objects, NEW calls, NEW op, <<op, o>> \in CallsIn(calls)
    PROVE  o \in Uses(calls)
  <1>1. o # NoObject /\ o = <<op, o>>[2]
    BY ProgramAssumption
  <1> QED
    BY <1>1 DEF Uses

LEMMA NotConstructedStep ==
    ASSUME TypeOK, Named, Mine, Creating, Owned, Sequenced, NotConstructed, Descended,
           NEW k \in Tids, Step(k)
    PROVE  NotConstructed'
  <1> SUFFICES ASSUME NEW j \in alive', NEW o \in Objects, <<"construct", o>> \in CallsIn(todo'[j]),
                      InUse(proc[j], o)'
               PROVE  FALSE
    BY DEF NotConstructed, CallsIn
  <1>0. k \in alive
    BY Moves DEF Advances
  <1>1. CASE j \in alive
    <2>1. /\ proc'[j] = proc[j] /\ <<"construct", o>> \in CallsIn(todo[j])
          /\ j \in Tids /\ proc[j] \in Tids
      BY <1>1, Moves, Survives DEF TypeOK
    <2>2. ~InUse(proc[j], o)
      BY <1>1, <2>1 DEF NotConstructed
    <2>3. Calling(k, "start") /\ proc[j] = proc[k] /\ o = Head(todo[k])[2]
      BY <2>1, <2>2, InUseGrows DEF InUse, First
    <2>4. CASE j = k
      BY <1>1, <2>1, <2>3, <2>4, StartedBeforeConstructed DEF Calling, Sequenced, TypeOK
    <2>5. CASE j # k
      <3>1. o \in Uses(todo[k])
        BY <2>3, OfACall DEF Calling, ObjectCalls
      <3>2. o \in Uses(todo[j])
        BY <2>1, UsesCall
      <3> QED
        BY <1>0, <1>1, <2>3, <2>5, <3>1, <3>2, Disjoint
    <2> QED
      BY <2>4, <2>5
  <1>2. CASE j \notin alive
    <2>1. /\ j \in Tids /\ alive' = alive \cup {j} /\ \A i \in alive : proc[i] # j
          /\ Forked(k, j) \/ Created(k, j)
      BY <1>2, Newcomer
    <2>2. PICK p \in Tids : p = proc'[j]
      BY <1>0, <2>1 DEF Forked, Created, TypeOK
    <2>3. InUse(p, o)
      <3>1. InUse(p, o)'
        BY <2>2 DEF InUse
      <3>2. alive' # alive
        BY <1>2, <2>1
      <3> QED
        BY <3>1, <3>2, InUseGrows
    <2>4. CASE Forked(k, j)
      BY <2>1, <2>2, <2>3, <2>4 DEF Forked, InUse
    <2>5. CASE Created(k, j)
      <3>1. o \in Uses(Func[Head(todo[k])[2]]) /\ proc'[j] = proc[k] /\ pc[k] = "create"
        BY <2>5, UsesCall DEF Created
      <3> QED
        BY <1>0, <2>2, <2>3, <3>1, FreshFunction
    <2> QED
      BY <2>1, <2>4, <2>5
  <1> QED
    BY <1>1, <1>2

LEMMA SettledStays ==
    ASSUME TypeOK, Named, Mine, Creating, NEW k \in Tids, Step(k), NEW p \in Tids, NEW y \in Objects,
           Settled(p, y), \E j \in alive : proc[j] = p,
           pc[k] = "create" /\ p = proc[k] => y \notin Uses(Func[Head(todo[k])[2]])
    PROVE  Settled(p, y)'
  <1>1. k \in alive /\ Writes(k) /\ p \notin Free
    BY Written, Moves DEF Advances, Free
  <1>2. memory[p][y] \in ObjectStates
    BY DEF TypeOK, ObjectStates
  <1>3. memory'[p][y].created
    <2>1. CASE p = proc[k] /\ Calling(k, "construct") /\ y = Head(todo[k])[2]
      BY <1>1, <2>1, OfACall DEF Calling, ObjectCalls, Settled
    <2>2. CASE ~(p = proc[k] /\ Calling(k, "construct") /\ y = Head(todo[k])[2])
      <3>1. CASE memory'[p][y] = memory[p][y]
        BY <3>1 DEF Settled
      <3>2. CASE p = proc[k] /\ Effect(k, y, memory[p][y], memory'[p][y])
        <4>1. \/ \E n \in Free : memory'[p][y] = [memory[p][y] EXCEPT !.created = TRUE, !.made = n]
              \/ memory'[p][y] = [memory[p][y] EXCEPT !.life = "dead"]
              \/ memory'[p][y] = [memory[p][y] EXCEPT !.started_ = TRUE]
              \/ memory'[p][y] = [memory[p][y] EXCEPT !.joined = TRUE]
              \/ memory'[p][y] = [memory[p][y] EXCEPT !.tid_ = t_cachedTid[k]]
              \/ memory'[p][y] = [memory[p][y] EXCEPT !.ended = TRUE]
          BY <2>2, <3>2 DEF Effect
        <4> QED
          BY ZenonT(40), <1>2, <4>1 DEF Settled, ObjectStates
      <3> QED
        BY <1>1, <3>1, <3>2 DEF Writes
    <2> QED
      BY <2>1, <2>2
  <1>4. ASSUME NEW j \in alive', proc'[j] = p, <<"construct", y>> \in CallsIn(todo'[j])
        PROVE  FALSE
    <2>1. CASE j \in alive
      BY <1>4, <2>1, Moves, Survives DEF Settled
    <2>2. CASE j \notin alive
      <3>1. (\A i \in alive : proc[i] # j) /\ (Forked(k, j) \/ Created(k, j))
        BY <2>2, Newcomer
      <3>2. Created(k, j)
        BY <1>4, <3>1 DEF Forked
      <3>3. y \in Uses(Func[Head(todo[k])[2]]) /\ p = proc[k] /\ pc[k] = "create"
        BY <1>4, <3>2, UsesCall DEF Created
      <3> QED
        BY <3>3
    <2> QED
      BY <2>1, <2>2
  <1> QED
    BY <1>3, <1>4 DEF Settled, CallsIn

LEMMA DescendedStep ==
    ASSUME TypeOK, Named, Mine, Creating, Kept, Owned, Sequenced, NotConstructed, Descended,
           NEW k \in Tids, Step(k)
    PROVE  Descended'
  <1> SUFFICES ASSUME NEW p \in Tids, NEW o \in Objects, InUse(p, o)'
               PROVE  \E a \in SUBSET Objects : Ancestors(o, a) /\ \A y \in a : Settled(p, y)'
    BY DEF Descended, Ancestors, Uses, CallsIn
  <1>0. k \in alive /\ proc[k] \in Tids
    BY Moves DEF Advances, TypeOK
  \* Ancestors stay settled.
  <1>1. ASSUME \E j \in alive : proc[j] = p,
               NEW a \in SUBSET Objects, Ancestors(o, a), \A y \in a : Settled(p, y)
        PROVE  \A y \in a : Settled(p, y)'
    <2> SUFFICES ASSUME NEW y \in a PROVE Settled(p, y)'
      OBVIOUS
    <2>1. ASSUME pc[k] = "create", p = proc[k] PROVE y \notin Uses(Func[Head(todo[k])[2]])
      BY <1>0, <1>1, <2>1, FreshFunction
    <2> QED
      BY <1>1, <2>1, SettledStays
  <1>2. CASE InUse(p, o)
    <2>1. PICK a \in SUBSET Objects : Ancestors(o, a) /\ \A y \in a : Settled(p, y)
      BY <1>2 DEF Descended
    <2>2. \E j \in alive : proc[j] = p
      BY <1>2 DEF InUse
    <2> QED
      BY <1>1, <2>1, <2>2
  <1>3. CASE Calling(k, "start") /\ p = proc[k] /\ o = Head(todo[k])[2]
    <2>1. o \in Uses(todo[k])
      BY <1>3, OfACall DEF Calling, ObjectCalls
    <2>2. CASE First(k)
      <3>1. \A y \in Objects : o \notin Uses(Func[y])
        BY <1>0, <2>1, <2>2, UsesOwn, ContractAssumption
      <3>2. Ancestors(o, {})
        BY <3>1 DEF Ancestors
      <3> QED
        BY <3>2
    <2>3. CASE ~First(k)
      <3>1. runs[k] \in Objects /\ memory[p][runs[k]].created /\ InUse(p, runs[k])
        BY <1>0, <1>3, <2>3 DEF Mine, Own, InUse
      <3>2. o \in Uses(Func[runs[k]])
        BY <1>0, <2>1, <2>3, UsesOwn
      <3>3. PICK a \in SUBSET Objects : Ancestors(runs[k], a) /\ \A y \in a : Settled(p, y)
        BY <3>1 DEF Descended
      <3>4. Settled(p, runs[k])
        BY <3>1 DEF Settled, NotConstructed
      <3>5. Ancestors(o, a \cup {runs[k]})
        <4>1. \A y \in Objects : o \in Uses(Func[y]) => y = runs[k]
          BY <3>1, <3>2, ContractAssumption
        <4> QED
          BY <3>1, <3>3, <4>1 DEF Ancestors
      <3>6. \A y \in a \cup {runs[k]} : Settled(p, y)
        BY <3>3, <3>4
      <3>7. a \cup {runs[k]} \in SUBSET Objects
        BY <3>1
      <3> QED
        BY <1>0, <1>1, <1>3, <3>5, <3>6, <3>7
    <2> QED
      BY <2>2, <2>3
  <1> QED
    BY <1>2, <1>3, InUseGrows

----------------------------------------------------------------------------
(* The theorems about ids *)

LEMMA Initially == Init => IInv
  <1> SUFFICES ASSUME Init PROVE IInv
    OBVIOUS
  <1> USE TidAssumption, ProgramAssumption DEF Init
  <1>1. TypeOK
    <2>1. memory \in [Tids -> [Objects -> ObjectStates]]
      BY DEF Raw, ObjectStates
    <2>2. todo \in [Tids -> Seq(Calls)]
      <3>1. <<>> \in Seq(Calls)
        BY EmptySeq
      <3> QED
        BY <3>1
    <2> QED
      BY <2>1, <2>2 DEF TypeOK, ObjectStates, Steps, UserSteps
  <1>2. Named /\ Mine /\ Creating /\ Owned /\ Sequenced
    BY ContractAssumption DEF Named, Mine, Creating, Owned, Sequenced, First, CallsIn
  <1>3. Kept
    BY DEF Kept, Raw
  <1>4. \A p, o : ~InUse(p, o)
    BY DEF InUse, First
  <1> QED
    BY <1>1, <1>2, <1>3, <1>4 DEF IInv, NotConstructed, Descended

LEMMA Inductive == IInv /\ [Next]_vars => IInv'
  <1> SUFFICES ASSUME IInv, [Next]_vars PROVE IInv'
    OBVIOUS
  <1>1. TypeOK /\ Named /\ Mine /\ Creating /\ Kept /\ Owned /\ Sequenced /\ NotConstructed /\ Descended
    BY DEF IInv
  <1>2. ASSUME NEW k \in Tids, Step(k) PROVE IInv'
    BY <1>1, <1>2, TypeStep, NamedStep, MineStep, CreatingStep, KeptStep, OwnedStep,
       NotConstructedStep, DescendedStep DEF IInv
  <1>3. CASE UNCHANGED vars
    <2> USE <1>3 DEF vars, taskVars
    <2>1. TypeOK'
      BY <1>1 DEF TypeOK
    <2>2. Named' /\ Creating'
      BY <1>1 DEF Named, Creating, Object, First
    <2>3. Mine' /\ Kept'
      BY <1>1 DEF Mine, Kept, Own, First
    <2>4. Owned' /\ Sequenced'
      BY <1>1 DEF Owned, Sequenced, First
    <2>5. \A p, o : InUse(p, o)' = InUse(p, o)
      BY DEF InUse, First
    <2>6. \A p, o : Settled(p, o)' = Settled(p, o)
      BY DEF Settled
    <2>7. NotConstructed' /\ Descended'
      BY <1>1, <2>5, <2>6 DEF NotConstructed, Descended
    <2> QED
      BY <2>1, <2>2, <2>3, <2>4, <2>7 DEF IInv
  <1> QED
    BY <1>2, <1>3 DEF Next, Finished

LEMMA Invariance == Spec => []IInv
  <1> QED
    BY Initially, Inductive, PTL DEF Spec

\* Every variable keeps its type, whatever ids the kernel gives and whatever
\* the programs are.
THEOREM TypeCorrect == Spec => []TypeOK
  <1>1. IInv => TypeOK
    BY DEF IInv
  <1> QED
    BY <1>1, Invariance, PTL

\* CurrentThread::tid(), isMainThread() and name() tell the truth in every
\* task that runs the program's code: after any number of fork()s and of ids
\* used again, and for any programs that keep the contract of Thread.
THEOREM IdsAreRight == Spec => []Identity
  <1>1. IInv => Identity
    BY DEF IInv, Identity, Named, Mine, IsMainThread, UserSteps, First
  <1> QED
    BY <1>1, Invariance, PTL

\* Thread::tid() is 0 or the id that the thread has or had, and known when
\* join() has returned.
THEOREM JoinedTidIsKnown == Spec => []TidKnown
  <1>1. IInv => TidKnown
    BY DEF IInv, TidKnown, Kept
  <1> QED
    BY <1>1, Invariance, PTL

----------------------------------------------------------------------------
(* Who may destroy an object: its owner, when the thread has ended         *)

\* What is not yet constructed will be.
Live == \A k \in alive : \A i \in DOMAIN todo[k] : todo[k][i][2] # NoObject =>
    \/ memory[proc[k]][todo[k][i][2]].life = "live"
    \/ \E m \in 1 .. i : todo[k][m] = <<"construct", todo[k][i][2]>>

\* What is in use is joined before it is destroyed.
JoinedFirst == \A k \in alive : \A i \in DOMAIN todo[k] :
    todo[k][i][1] = "destroy" /\ InUse(proc[k], todo[k][i][2]) =>
        \E m \in 1 .. i : todo[k][m] = <<"join", todo[k][i][2]>>

OwnLives == \A k \in alive : runs[k] # NoObject => Own(k).life = "live"

NamesOwn == \A k \in alive : t_threadName[k] \in Objects => t_threadName[k] = runs[k]

\* The objects that a process made by fork() uses.
ChildObjects == CHOOSE own \in SUBSET Objects :
    /\ Uses(ChildProgram) \subseteq own
    /\ \A o \in own : Uses(Func[o]) \subseteq own /\ <<"fork", NoObject>> \notin CallsIn(Func[o])

\* The object in whose function a process was forked is none of them.
Inherited == \A k \in alive : First(k) /\ runs[k] # NoObject =>
    /\ runs[k] \notin ChildObjects
    /\ \A j \in alive : proc[j] = k => Uses(todo[j]) \subseteq ChildObjects

Lifetimes == Live /\ JoinedFirst /\ OwnLives /\ NamesOwn /\ Inherited

LEMMA ChildrenUse ==
    /\ ChildObjects \in SUBSET Objects /\ Uses(ChildProgram) \subseteq ChildObjects
    /\ \A o \in ChildObjects :
           Uses(Func[o]) \subseteq ChildObjects /\ <<"fork", NoObject>> \notin CallsIn(Func[o])
BY ForkAssumption DEF ChildObjects

\* A call is over when its step is done.
LEMMA Returns ==
    ASSUME TypeOK, Creating, NEW k \in Tids, Step(k), todo'[k] # todo[k]
    PROVE  /\ todo[k] # <<>> /\ todo'[k] = Tail(todo[k])
           /\ Head(todo[k])[1] = "construct" => Construct(k)
           /\ Head(todo[k])[1] = "join" => Join(k) \/ JoinNothing(k)
  <1>1. k \in alive /\ todo[k] # <<>> /\ todo'[k] = Tail(todo[k])
    BY Moves DEF Advances
  <1>2. ASSUME Head(todo[k])[1] \in {"construct", "join"}
        PROVE  Construct(k) \/ Join(k) \/ JoinNothing(k)
    <2>1. pc[k] # "create"
      BY <1>1, <1>2 DEF Creating
    <2> QED
      BY <1>1, <1>2, <2>1
         DEF Step, InitMain, Tid, Fork, AfterFork, Destroy, Start, Create, CreateFails,
             Enter, Store, Throw, Finish, TaskEnds, Exit, Calling
  <1> QED
    BY <1>1, <1>2 DEF Construct, Join, JoinNothing, Calling

\* An object dies by its destructor only.
LEMMA Dies ==
    ASSUME TypeOK, Named, Mine, Creating, NEW k \in Tids, Step(k), NEW p \in Tids, NEW o \in Objects,
           p \notin Free, memory[p][o].life = "live", memory'[p][o].life # "live"
    PROVE  Calling(k, "destroy") /\ p = proc[k] /\ o = Head(todo[k])[2]
  <1>1. p = proc[k] /\ Effect(k, o, memory[p][o], memory'[p][o])
    BY Written DEF Writes
  <1>2. memory[p][o] \in ObjectStates
    BY DEF TypeOK, ObjectStates
  <1> DEFINE old == memory[p][o]
             new == memory'[p][o]
  <1>3. \/ Calling(k, "destroy") /\ o = Head(todo[k])[2]
        \/ new = [Raw EXCEPT !.life = "live"]
        \/ \E n \in Free : new = [old EXCEPT !.created = TRUE, !.made = n]
        \/ new = [old EXCEPT !.started_ = TRUE]
        \/ new = [old EXCEPT !.joined = TRUE]
        \/ new = [old EXCEPT !.tid_ = t_cachedTid[k]]
        \/ new = [old EXCEPT !.ended = TRUE]
    BY <1>1 DEF Effect
  <1>4. old.life = "live" /\ new.life # "live" /\ old \in ObjectStates
    BY <1>2
  <1> HIDE DEF old, new
  <1>5. Calling(k, "destroy") /\ o = Head(todo[k])[2]
    BY <1>3, <1>4 DEF ObjectStates, Raw
  <1> QED
    BY <1>1, <1>5

LEMMA AtCall ==
    ASSUME TypeOK, NEW k \in Tids, NEW i \in DOMAIN todo[k]
    PROVE  /\ todo[k][i] \in Calls /\ todo[k][i] \in CallsIn(todo[k])
           /\ i \in Nat /\ i > 0 /\ todo[k] # <<>> /\ Head(todo[k]) = todo[k][1] /\ 1 \in DOMAIN todo[k]
           /\ todo[k][i][2] # NoObject =>
                  todo[k][i][2] \in Objects /\ todo[k][i][2] \in Uses(todo[k])
           /\ todo[k][i][1] \in ObjectCalls => todo[k][i][2] # NoObject
  <1>1. todo[k] \in Seq(Calls) /\ i \in 1 .. Len(todo[k]) /\ Len(todo[k]) \in Nat
        /\ DOMAIN todo[k] = 1 .. Len(todo[k])
    BY LenProperties DEF TypeOK
  <1>2. todo[k][i] \in Calls /\ todo[k] # <<>>
    BY <1>1, ElementOfSeq, EmptySeq
  <1>3. Head(todo[k]) = todo[k][1]
    BY <1>1, <1>2, HeadTailProperties
  <1> QED
    BY <1>1, <1>2, <1>3, CallShape DEF CallsIn, Uses

\* Where the calls that are left stood before.
LEMMA Shifted ==
    ASSUME TypeOK, NEW k \in Tids, todo[k] # <<>>
    PROVE  /\ DOMAIN Tail(todo[k]) = 1 .. Len(todo[k]) - 1
           /\ DOMAIN todo[k] = 1 .. Len(todo[k])
           /\ Len(todo[k]) \in Nat \ {0}
           /\ \A i \in DOMAIN Tail(todo[k]) : Tail(todo[k])[i] = todo[k][i + 1] /\ i + 1 \in DOMAIN todo[k]
  <1>1. todo[k] \in Seq(Calls)
    BY DEF TypeOK
  <1> QED
    BY <1>1, TailCalls, LenProperties

LEMMA LiveStep ==
    ASSUME IInv, Live, NEW k \in Tids, Step(k)
    PROVE  Live'
  <1>0. TypeOK /\ Named /\ Mine /\ Creating /\ Owned /\ Sequenced
    BY DEF IInv
  <1> SUFFICES ASSUME NEW j \in alive', NEW i \in DOMAIN todo'[j], NEW o, o = todo'[j][i][2],
                      o # NoObject
               PROVE  \/ memory'[proc'[j]][o].life = "live"
                      \/ \E m \in 1 .. i : todo'[j][m] = <<"construct", o>>
    BY DEF Live
  <1>1. k \in alive /\ k \in Tids
    BY <1>0, Moves DEF Advances
  <1>2. CASE j \in alive
    <2>1. j \in Tids /\ proc[j] \in Tids /\ proc[j] \notin Free /\ proc'[j] = proc[j]
      BY <1>0, <1>2, Moves, Survives DEF TypeOK, Free
    <2>2. CASE todo'[j] = todo[j]
      <3>1. i \in DOMAIN todo[j] /\ o = todo[j][i][2]
        BY <2>2
      <3>2. o \in Objects /\ o \in Uses(todo[j]) /\ i \in Nat /\ i > 0
        BY <1>0, <2>1, <3>1, AtCall
      <3>3. CASE \E m \in 1 .. i : todo[j][m] = <<"construct", o>>
        BY <2>2, <3>3
      <3>4. CASE memory[proc[j]][o].life = "live" /\ memory'[proc[j]][o].life # "live"
        <4>1. Calling(k, "destroy") /\ proc[j] = proc[k] /\ o = Head(todo[k])[2]
          BY <1>0, <2>1, <3>2, <3>4, Dies
        <4>2. o \in Uses(todo[k])
          BY <1>0, <4>1, OfACall DEF Calling, ObjectCalls
        <4>3. j = k
          BY <1>0, <1>1, <1>2, <3>2, <4>1, <4>2, Disjoint
        <4>4. Destroy(k)
          BY <4>1, <1>0
             DEF Step, InitMain, Tid, Fork, AfterFork, Construct, Start, Create, CreateFails, Join,
                 JoinNothing, Enter, Store, Throw, Finish, TaskEnds, Exit, Calling
        <4>5. todo'[k] = Tail(todo[k]) /\ todo[k] # <<>>
          BY <1>0, <4>4 DEF Destroy, Return, Calling, TypeOK
        <4>6. Len(Tail(todo[k])) # Len(todo[k])
          BY <1>0, <4>5, TailCalls DEF TypeOK
        <4> QED
          BY <2>2, <4>3, <4>5, <4>6
      <3> QED
        BY <1>2, <2>1, <3>1, <3>3, <3>4 DEF Live
    <2>3. CASE todo'[j] # todo[j]
      <3>0. j = k
        BY <1>0, <1>2, <2>3, Moves DEF Untouched
      <3>1. /\ todo[k] # <<>> /\ todo'[k] = Tail(todo[k])
            /\ Head(todo[k])[1] = "construct" => Construct(k)
        BY <1>0, <2>3, <3>0, Returns
      <3>2. i + 1 \in DOMAIN todo[k] /\ todo'[k][i] = todo[k][i + 1] /\ o = todo[k][i + 1][2]
            /\ i \in 1 .. Len(todo[k]) - 1 /\ Len(todo[k]) \in Nat
        BY <1>0, <3>0, <3>1, Shifted
      <3>3. /\ o \in Objects /\ Head(todo[k]) = todo[k][1] /\ 1 \in DOMAIN todo[k]
            /\ i \in Nat /\ i > 0
        BY <1>0, <3>2, AtCall
      <3>4. CASE \E m \in 1 .. i + 1 : todo[k][m] = <<"construct", o>>
        <4>1. PICK m \in 1 .. i + 1 : todo[k][m] = <<"construct", o>>
          BY <3>4
        <4>2. CASE m = 1
          <5>1. Construct(k) /\ Head(todo[k])[2] = o
            BY <3>1, <3>3, <4>1, <4>2
          <5>2. memory' = [memory EXCEPT ![proc[k]][o] = [Raw EXCEPT !.life = "live"]]
            BY <5>1 DEF Construct, Update
          <5>3. memory'[proc[k]][o].life = "live"
            BY <1>0, <2>1, <3>0, <3>3, <5>2 DEF TypeOK, Raw
          <5> QED
            BY <2>1, <3>0, <5>3
        <4>3. CASE m # 1
          <5>1. m - 1 \in 1 .. i /\ m - 1 \in DOMAIN Tail(todo[k]) /\ (m - 1) + 1 = m
            BY <1>0, <3>1, <3>2, <3>3, <4>3, Shifted
          <5>2. todo'[k][m - 1] = <<"construct", o>>
            BY <1>0, <3>1, <4>1, <5>1, Shifted
          <5> QED
            BY <3>0, <5>1, <5>2
        <4> QED
          BY <4>2, <4>3
      <3>5. CASE memory[proc[k]][o].life = "live" /\ memory'[proc[k]][o].life # "live"
        <4>1. Calling(k, "destroy") /\ o = Head(todo[k])[2]
          BY <1>0, <2>1, <3>0, <3>3, <3>5, Dies
        <4>2. todo[k][1][1] = "destroy" /\ todo[k][1][2] = o /\ 1 < i + 1
          BY <3>3, <4>1 DEF Calling
        <4>3. InOrder(todo[k])
          BY <1>0, <1>1 DEF Sequenced
        <4> QED
          BY <3>2, <3>3, <4>2, <4>3 DEF InOrder
      <3>6. \/ memory[proc[k]][o].life = "live"
            \/ \E m \in 1 .. i + 1 : todo[k][m] = <<"construct", o>>
        BY <1>1, <3>2 DEF Live
      <3> QED
        BY <2>1, <3>0, <3>4, <3>5, <3>6
    <2> QED
      BY <2>2, <2>3
  <1>3. CASE j \notin alive
    <2>1. j \in Tids /\ (Forked(k, j) \/ (Created(k, j) /\ Head(todo[k])[2] \in Objects))
      BY <1>0, <1>3, Newcomer
    <2>2. Constructs(todo'[j])
      BY <2>1, ProgramsInOrder
    <2> QED
      BY <2>2 DEF Constructs
  <1> QED
    BY <1>2, <1>3

LEMMA JoinedFirstStep ==
    ASSUME IInv, JoinedFirst, NEW k \in Tids, Step(k)
    PROVE  JoinedFirst'
  <1>0. TypeOK /\ Named /\ Mine /\ Creating /\ Owned /\ Sequenced /\ Descended
    BY DEF IInv
  <1> SUFFICES ASSUME NEW j \in alive', NEW i \in DOMAIN todo'[j], NEW o, NEW p,
                      o = todo'[j][i][2], p = proc'[j],
                      todo'[j][i][1] = "destroy", InUse(p, o)'
               PROVE  \E m \in 1 .. i : todo'[j][m] = <<"join", o>>
    BY ZenonT(40) DEF JoinedFirst, InUse
  <1>1. k \in alive /\ k \in Tids /\ proc[k] \in Tids
    BY <1>0, Moves DEF Advances, TypeOK
  <1>2. CASE j \in alive
    <2>1. j \in Tids /\ p \in Tids /\ p = proc[j]
      BY <1>0, <1>2, Moves, Survives DEF TypeOK
    <2>2. CASE todo'[j] = todo[j]
      <3>1. i \in DOMAIN todo[j] /\ o = todo[j][i][2] /\ todo[j][i][1] = "destroy"
        BY <2>2
      <3>2. /\ o \in Objects /\ o \in Uses(todo[j]) /\ o # NoObject /\ i \in Nat /\ i > 0
            /\ todo[j] # <<>> /\ Head(todo[j]) = todo[j][1] /\ 1 \in DOMAIN todo[j]
        BY <1>0, <2>1, <3>1, AtCall DEF ObjectCalls
      <3>3. CASE InUse(p, o)
        BY <1>2, <2>1, <2>2, <3>1, <3>3 DEF JoinedFirst
      <3>4. CASE Calling(k, "start") /\ p = proc[k] /\ o = Head(todo[k])[2]
        <4>1. o \in Uses(todo[k])
          BY <1>0, <3>4, OfACall DEF Calling, ObjectCalls
        <4>2. j = k
          BY <1>0, <1>1, <1>2, <2>1, <3>2, <3>4, <4>1, Disjoint
        <4>3. todo[j][1][1] = "start" /\ todo[j][1][2] = o
          BY <3>2, <3>4, <4>2 DEF Calling
        <4>4. 1 < i /\ InOrder(todo[j])
          BY <1>0, <1>2, <3>1, <3>2, <4>3 DEF Sequenced
        <4>5. \E m \in 1 .. i : todo[j][m] = <<"join", o>>
          BY <3>1, <3>2, <4>3, <4>4 DEF InOrder
        <4> QED
          BY <2>2, <4>5
      <3> QED
        BY <1>0, <2>1, <3>2, <3>3, <3>4, InUseGrows
    <2>3. CASE todo'[j] # todo[j]
      <3>0. j = k
        BY <1>0, <1>2, <2>3, Moves DEF Untouched
      <3>1. /\ todo[k] # <<>> /\ todo'[k] = Tail(todo[k])
            /\ Head(todo[k])[1] = "join" => Join(k) \/ JoinNothing(k)
        BY <1>0, <2>3, <3>0, Returns
      <3>2. /\ i + 1 \in DOMAIN todo[k] /\ todo'[k][i] = todo[k][i + 1] /\ o = todo[k][i + 1][2]
            /\ todo[k][i + 1][1] = "destroy"
            /\ i \in 1 .. Len(todo[k]) - 1 /\ Len(todo[k]) \in Nat
        BY <1>0, <3>0, <3>1, Shifted
      <3>3. o \in Objects /\ Head(todo[k]) = todo[k][1]
        BY <1>0, <3>2, AtCall DEF ObjectCalls
      <3>4. InUse(p, o)
        <4>1. ~(todo' = todo)
          BY <2>3
        <4> QED
          BY <1>0, <2>1, <3>3, <4>1, InUseGrows
      <3>5. PICK m \in 1 .. i + 1 : todo[k][m] = <<"join", o>>
        BY <1>1, <2>1, <3>0, <3>2, <3>4 DEF JoinedFirst
      <3>6. CASE m = 1
        <4>1. /\ Join(k) \/ JoinNothing(k)
              /\ Head(todo[k])[2] = o /\ Head(todo[k])[1] = "join"
          BY <3>1, <3>3, <3>5, <3>6
        <4>2. PICK l \in alive : /\ proc[l] = p
                                 /\ \/ ~First(l) /\ runs[l] = o
                                    \/ pc[l] = "create" /\ Head(todo[l])[2] = o
          BY <3>4 DEF InUse
        <4>3. CASE ~First(l) /\ runs[l] = o
          BY ZenonT(40), <2>1, <3>0, <4>1, <4>2, <4>3 DEF Mine, Own, Object, Join, JoinNothing, IInv
        <4>4. CASE pc[l] = "create" /\ Head(todo[l])[2] = o
          <5>1. l # k
            BY <4>1, <4>4 DEF Join, JoinNothing, Calling
          <5>2. todo[l] # <<>> /\ Head(todo[l])[1] = "start" /\ l \in Tids
            BY <1>0, <4>4 DEF Creating, TypeOK
          <5>3. o \in Uses(todo[l]) /\ o \in Uses(todo[k])
            BY <1>0, <1>1, <3>1, <4>1, <4>4, <5>2, OfACall DEF ObjectCalls
          <5> QED
            BY <1>0, <1>1, <2>1, <3>0, <4>2, <5>1, <5>3, Disjoint
        <4> QED
          BY <4>2, <4>3, <4>4
      <3>7. CASE m # 1
        <4>1. m - 1 \in 1 .. i /\ m - 1 \in DOMAIN Tail(todo[k]) /\ (m - 1) + 1 = m
          BY <1>0, <3>1, <3>2, <3>7, Shifted
        <4>2. todo'[k][m - 1] = <<"join", o>>
          BY <1>0, <3>1, <3>5, <4>1, Shifted
        <4> QED
          BY <3>0, <4>1, <4>2
      <3> QED
        BY <3>6, <3>7
    <2> QED
      BY <2>2, <2>3
  <1>3. CASE j \notin alive
    <2>1. /\ j \in Tids /\ alive' = alive \cup {j} /\ \A l \in alive : proc[l] # j
          /\ \/ Forked(k, j)
             \/ Created(k, j) /\ Head(todo[k])[2] \in Objects
      BY <1>0, <1>3, Newcomer
    <2>2. p \in Tids /\ todo'[j] \in Seq(Calls)
      BY <1>1, <2>1, ProgramAssumption DEF Forked, Created
    <2>3. i \in 1 .. Len(todo'[j]) /\ todo'[j][i] \in Calls
      BY <2>2, LenProperties, ElementOfSeq
    <2>4. o \in Objects /\ <<"destroy", o>> \in CallsIn(todo'[j])
      BY <2>3, CallShape DEF ObjectCalls, CallsIn
    <2>5. InUse(p, o)
      <3>1. alive' # alive
        BY <1>3, <2>1
      <3> QED
        BY <1>0, <2>2, <2>4, <3>1, InUseGrows
    <2>6. CASE Forked(k, j)
      BY <2>1, <2>5, <2>6 DEF Forked, InUse
    <2>7. CASE Created(k, j)
      <3>1. o \in Uses(Func[Head(todo[k])[2]]) /\ p = proc[k] /\ pc[k] = "create"
        BY <2>4, <2>7, UsesCall DEF Created
      <3> QED
        BY <1>0, <1>1, <2>4, <2>5, <3>1, FreshFunction
    <2> QED
      BY <2>1, <2>6, <2>7
  <1> QED
    BY <1>2, <1>3

LEMMA OwnLivesStep ==
    ASSUME IInv, Lifetimes, NEW k \in Tids, Step(k)
    PROVE  OwnLives'
  <1>0. TypeOK /\ Named /\ Mine /\ Creating /\ Kept /\ Owned /\ Sequenced /\ NotConstructed
    BY DEF IInv
  <1>1. Live /\ JoinedFirst /\ OwnLives /\ Inherited
    BY DEF Lifetimes
  <1>2. k \in alive /\ proc[k] \in Tids
    BY <1>0, Moves DEF Advances, TypeOK
  <1> SUFFICES ASSUME NEW j \in alive', runs'[j] # NoObject
               PROVE  memory'[proc'[j]][runs'[j]].life = "live"
    BY DEF OwnLives, Own
  <1>3. CASE j \in alive
    <2>1. /\ proc'[j] = proc[j] /\ runs'[j] = runs[j] /\ j \in Tids /\ proc[j] \in Tids
          /\ proc[j] \notin Free /\ runs[j] \in Objects
      BY <1>0, <1>3, Moves, Survives DEF TypeOK, Free
    <2>2. memory[proc[j]][runs[j]].life = "live"
      BY <1>1, <1>3, <2>1 DEF OwnLives, Own
    <2>3. ASSUME memory'[proc[j]][runs[j]].life # "live" PROVE FALSE
      <3>1. Calling(k, "destroy") /\ proc[j] = proc[k] /\ runs[j] = Head(todo[k])[2]
        BY <1>0, <2>1, <2>2, <2>3, Dies
      <3>2. runs[j] \in Uses(todo[k])
        BY <1>0, <3>1, OfACall DEF Calling, ObjectCalls
      <3>3. First(j)
        <4> SUFFICES ASSUME ~First(j) PROVE FALSE
          OBVIOUS
        <4>1. InUse(proc[k], runs[j])
          BY <1>3, <3>1 DEF InUse
        <4>2. /\ 1 \in DOMAIN todo[k] /\ todo[k][1][1] = "destroy" /\ todo[k][1][2] = runs[j]
          <5>1. todo[k] \in Seq(Calls) /\ todo[k] # <<>>
            BY <1>0, <3>1 DEF Calling, TypeOK
          <5>2. 1 \in DOMAIN todo[k] /\ Head(todo[k]) = todo[k][1]
            BY <5>1, TailCalls, LenProperties, HeadTailProperties
          <5> QED
            BY <3>1, <5>2 DEF Calling
        <4>3. \E m \in 1 .. 1 : todo[k][m] = <<"join", runs[j]>>
          BY <1>1, <1>2, <4>1, <4>2 DEF JoinedFirst
        <4> QED
          BY <4>2, <4>3
      <3> QED
        BY <1>1, <1>2, <1>3, <2>1, <3>1, <3>2, <3>3, ProgramAssumption DEF Inherited, First
    <2> QED
      BY <2>1, <2>3
  <1>4. CASE j \notin alive
    <2>1. /\ j \in Tids /\ j # k
          /\ \/ Forked(k, j)
             \/ /\ Created(k, j) /\ todo[k] # <<>> /\ Head(todo[k])[1] = "start"
                /\ Head(todo[k])[2] \in Objects
      BY <1>0, <1>4, Newcomer
    <2>2. CASE Forked(k, j)
      <3>1. /\ proc'[j] = j /\ runs'[j] = runs[k]
            /\ memory' = [memory EXCEPT ![j] = memory[proc[k]]]
        BY <2>2 DEF Forked
      <3>2. memory'[j] = memory[proc[k]]
        BY <1>0, <2>1, <3>1 DEF TypeOK
      <3> QED
        BY <1>1, <1>2, <3>1, <3>2 DEF OwnLives, Own
    <2>3. CASE Created(k, j)
      <3>1. todo[k] # <<>> /\ Head(todo[k])[1] = "start"
        BY <1>0, <1>2, <2>3 DEF Created, Creating
      <3>2. PICK o \in Objects : o = Head(todo[k])[2]
        BY <1>0, <3>1, OfACall DEF ObjectCalls
      <3>3. 1 \in DOMAIN todo[k] /\ todo[k][1] = Head(todo[k])
        <4>1. todo[k] \in Seq(Calls)
          BY <1>0 DEF TypeOK
        <4> QED
          BY <3>1, <4>1, TailCalls, LenProperties, HeadTailProperties
      <3>4. o # NoObject /\ <<"construct", o>>[1] = "construct"
        BY ProgramAssumption
      <3>5. \/ memory[proc[k]][o].life = "live"
            \/ \E m \in 1 .. 1 : todo[k][m] = <<"construct", o>>
        BY <1>1, <1>2, <3>2, <3>3, <3>4 DEF Live
      <3>6. memory[proc[k]][o].life = "live"
        BY <3>1, <3>3, <3>5
      <3>7. /\ proc'[j] = proc[k] /\ runs'[j] = o
            /\ memory' = [memory EXCEPT ![proc[k]][o] =
                              [memory[proc[k]][o] EXCEPT !.created = TRUE, !.made = j]]
        BY <2>3, <3>2 DEF Created, Update, Object
      <3>8. memory[proc[k]][o] \in ObjectStates
        BY <1>0, ObjectTypes
      <3>9. memory'[proc[k]][o] = [memory[proc[k]][o] EXCEPT !.created = TRUE, !.made = j]
        BY <1>0, <1>2, <3>7 DEF TypeOK
      <3> QED
        BY <3>6, <3>7, <3>8, <3>9 DEF ObjectStates
    <2> QED
      BY <2>1, <2>2, <2>3
  <1> QED
    BY <1>3, <1>4

LEMMA NamesOwnStep ==
    ASSUME TypeOK, Named, Mine, Creating, NamesOwn, NEW k \in Tids, Step(k)
    PROVE  NamesOwn'
  <1> SUFFICES ASSUME NEW j \in alive', t_threadName'[j] \in Objects
               PROVE  t_threadName'[j] = runs'[j]
    BY DEF NamesOwn
  <1>0. k \in alive /\ proc'[k] = proc[k] /\ runs'[k] = runs[k] /\ \A n \in Free : n # k
    BY Moves DEF Advances, Free
  <1>1. CASE j \in alive /\ j # k
    <2>1. Untouched(j)
      BY <1>1, Moves
    <2> QED
      BY <1>1, <2>1 DEF NamesOwn, Untouched
  <1>2. CASE j = k
    <2>1. CASE t_threadName'[k] = t_threadName[k]
      BY <1>0, <1>2, <2>1 DEF NamesOwn
    <2>2. CASE t_threadName'[k] \in {"main", "finished", "crashed"}
      BY <1>2, <2>2, ProgramAssumption
    <2>3. CASE t_threadName'[k] = runs[k]
      BY <1>0, <1>2, <2>3
    <2>4. CASE InitMain(k) \/ AfterFork(k) \/ Finish(k) \/ Throw(k)
      BY <2>1, <2>2, <2>4 DEF InitMain, AfterFork, Finish, Throw, TypeOK
    <2>5. CASE Store(k)
      BY <2>3, <2>5 DEF Store, TypeOK
    <2>6. CASE Fork(k) \/ Create(k)
      <3>1. CASE Create(k)
        BY <1>0, <2>1, <3>1 DEF Create, TypeOK
      <3>2. CASE Fork(k)
        <4>1. CASE Free = {}
          BY <2>1, <3>2, <4>1 DEF Fork
        <4>2. CASE Free # {}
          <5>1. PICK c \in Free : t_threadName' = [t_threadName EXCEPT ![c] = t_threadName[k]]
            BY <3>2, <4>2 DEF Fork
          <5> QED
            BY <1>0, <2>1, <5>1 DEF TypeOK
        <4> QED
          BY <4>1, <4>2
      <3> QED
        BY <2>6, <3>1, <3>2
    <2> QED
      BY <2>1, <2>4, <2>5, <2>6
         DEF Step, Tid, Construct, Destroy, Start, CreateFails, Join, JoinNothing, Enter, Throw,
             TaskEnds, Exit
  <1>3. CASE j \notin alive
    <2>1. Forked(k, j) \/ Created(k, j)
      BY <1>3, Newcomer
    <2> QED
      BY <1>0, <2>1, ProgramAssumption DEF Forked, Created, NamesOwn
  <1> QED
    BY <1>1, <1>2, <1>3

LEMMA InheritedStep ==
    ASSUME IInv, Inherited, NEW k \in Tids, Step(k)
    PROVE  Inherited'
  <1>0. TypeOK /\ Mine /\ Creating /\ Owned
    BY DEF IInv
  <1> SUFFICES ASSUME NEW j \in alive', proc'[j] = j, runs'[j] # NoObject
               PROVE  /\ runs'[j] \notin ChildObjects
                      /\ \A l \in alive' : proc'[l] = j => Uses(todo'[l]) \subseteq ChildObjects
    BY DEF Inherited, First, Uses, CallsIn
  <1>1. k \in alive
    BY <1>0, Moves DEF Advances
  <1>2. CASE j \in alive
    <2>1. proc[j] = j /\ runs'[j] = runs[j]
      BY <1>0, <1>2, Moves, Survives
    <2>2. /\ runs[j] \notin ChildObjects
          /\ \A l \in alive : proc[l] = j => Uses(todo[l]) \subseteq ChildObjects
      BY <1>2, <2>1 DEF Inherited, First
    <2>3. ASSUME NEW l \in alive', proc'[l] = j
          PROVE  Uses(todo'[l]) \subseteq ChildObjects
      <3>1. CASE l \in alive
        <4>1. proc[l] = j /\ CallsIn(todo'[l]) \subseteq CallsIn(todo[l])
          BY <1>0, <2>3, <3>1, Moves, Survives
        <4>2. Uses(todo[l]) \subseteq ChildObjects
          BY <2>2, <3>1, <4>1
        <4> QED
          BY <4>1, <4>2 DEF Uses
      <3>2. CASE l \notin alive
        <4>1. /\ Created(k, l)
              /\ todo[k] # <<>> /\ Head(todo[k])[1] = "start"
          <5>1. \/ Forked(k, l)
                \/ Created(k, l) /\ todo[k] # <<>> /\ Head(todo[k])[1] = "start"
            BY <1>0, <3>2, Newcomer
          <5> QED
            BY <1>2, <2>3, <3>2, <5>1 DEF Forked
        <4>2. Created(k, l)
          BY <4>1
        <4>3. proc[k] = j /\ todo'[l] = Func[Head(todo[k])[2]]
          BY <2>3, <4>2 DEF Created
        <4>4. Head(todo[k])[2] \in Uses(todo[k])
          BY <1>0, <4>1, <4>2, OfACall DEF ObjectCalls
        <4> QED
          BY <1>1, <2>2, <4>3, <4>4, ChildrenUse
      <3> QED
        BY <3>1, <3>2
    <2> QED
      BY <2>1, <2>2, <2>3
  <1>3. CASE j \notin alive
    <2>1. /\ alive' = alive \cup {j} /\ \A l \in alive : proc[l] # j
          /\ Forked(k, j) \/ Created(k, j)
      BY <1>0, <1>3, Newcomer
    <2>2. Forked(k, j)
      BY <1>1, <2>1 DEF Created
    <2>3. /\ runs'[j] = runs[k] /\ todo'[j] = ChildProgram
          /\ todo[k] # <<>> /\ Head(todo[k])[1] = "fork"
      BY <2>2 DEF Forked, Calling
    <2>4. <<"fork", NoObject>> \in CallsIn(todo[k])
      <3>1. Head(todo[k]) \in Calls /\ Head(todo[k]) \in CallsIn(todo[k])
        BY <1>0, <2>3, TailCalls DEF TypeOK
      <3>2. Head(todo[k]) = <<"fork", NoObject>>
        BY <2>3, <3>1, CallShape DEF ObjectCalls
      <3> QED
        BY <3>1, <3>2
    <2>5. runs'[j] \notin ChildObjects
      <3>1. CASE First(k)
        BY <1>1, <2>3, <3>1 DEF Inherited
      <3>2. CASE ~First(k)
        BY <1>0, <1>1, <2>3, <2>4, <3>2, ChildrenUse DEF Owned
      <3> QED
        BY <3>1, <3>2
    <2>6. ASSUME NEW l \in alive', proc'[l] = j
          PROVE  Uses(todo'[l]) \subseteq ChildObjects
      <3>1. l = j
        BY <1>0, <2>1, <2>6, Moves, Survives
      <3> QED
        BY <2>3, <3>1, ChildrenUse
    <2> QED
      BY <2>5, <2>6
  <1> QED
    BY <1>2, <1>3

LEMMA LifetimesStep == IInv /\ Lifetimes /\ [Next]_vars => Lifetimes'
  <1> SUFFICES ASSUME IInv, Lifetimes, [Next]_vars PROVE Lifetimes'
    OBVIOUS
  <1>1. Live /\ JoinedFirst /\ OwnLives /\ NamesOwn /\ Inherited
        /\ TypeOK /\ Named /\ Mine /\ Creating
    BY DEF Lifetimes, IInv
  <1>2. ASSUME NEW k \in Tids, Step(k) PROVE Lifetimes'
    BY <1>1, <1>2, LiveStep, JoinedFirstStep, OwnLivesStep, NamesOwnStep, InheritedStep
       DEF Lifetimes
  <1>3. CASE UNCHANGED vars
    <2> USE <1>3 DEF vars, taskVars
    <2>1. \A p, o : InUse(p, o)' = InUse(p, o)
      BY DEF InUse, First
    <2>2. Live'
      BY <1>1 DEF Live
    <2>3. JoinedFirst'
      BY <1>1, <2>1 DEF JoinedFirst
    <2>4. OwnLives' /\ NamesOwn' /\ Inherited'
      BY <1>1 DEF OwnLives, NamesOwn, Inherited, Own, First
    <2> QED
      BY <2>2, <2>3, <2>4 DEF Lifetimes
  <1> QED
    BY <1>2, <1>3 DEF Next, Finished

\* No thread outlives its Thread object where it is joined before it is
\* destroyed: not when pthread_create has failed, nor in the children of
\* fork(), where the object of the thread that forked is a copy.
THEOREM NothingDangles == Spec => []NoDangling
  <1>1. Init => Lifetimes
    <2> SUFFICES ASSUME Init PROVE Lifetimes
      OBVIOUS
    <2>1. alive = {FirstTid} /\ todo[FirstTid] = MainProgram /\ runs[FirstTid] = NoObject
          /\ t_threadName[FirstTid] = "unkown" /\ pc[FirstTid] = "init" /\ proc[FirstTid] = FirstTid
      BY TidAssumption DEF Init
    <2>2. Live
      BY <2>1, ContractAssumption DEF Live, Constructs
    <2>3. \A p, o : ~InUse(p, o)
      BY <2>1 DEF InUse, First
    <2> QED
      BY <2>1, <2>2, <2>3, ProgramAssumption DEF Lifetimes, JoinedFirst, OwnLives, NamesOwn, Inherited
  <1>2. Spec => []Lifetimes
    BY <1>1, LifetimesStep, Invariance, PTL DEF Spec
  <1>3. Lifetimes => NoDangling
    <2> SUFFICES ASSUME Lifetimes, NEW k \in alive
                 PROVE  /\ runs[k] # NoObject => Own(k).life = "live"
                        /\ t_threadName[k] \in Objects =>
                               memory[proc[k]][t_threadName[k]].life = "live"
      BY DEF NoDangling
    <2> QED
      BY ProgramAssumption DEF Lifetimes, OwnLives, NamesOwn, Own
  <1> QED
    BY <1>2, <1>3, PTL

=============================================================================
