------------------------- MODULE BoundBlockingQueue -------------------------
(***************************************************************************)
(* BoundBlockingQueue.h: a circular buffer of maxSize items behind one     *)
(* mutex and two conditions.  Every thread runs a program of put, take and *)
(* query calls (empty, full, size, capacity); a call is the steps          *)
(*     lock - test - (sleep - resume - test)* - act and notify - unlock    *)
(* and any step of any other thread may come between two of them.          *)
(***************************************************************************)
EXTENDS Monitor, Sequences

CONSTANTS Program,   \* Program[t]: the calls thread t makes, in order
          maxSize    \* constructor argument, capacity of the buffer

ASSUME CondsAssumption == Conds = {"notEmpty_", "notFull_"}

ASSUME ProgramAssumption == Program \in [Threads -> Seq({"put", "take", "query"})]

ASSUME MaxSizeAssumption == maxSize \in Nat

VARIABLES queue_,    \* boost::circular_buffer<T>
          pc,        \* where each thread is inside the current call
          next,      \* next[t]: index in Program[t] of the current call
          putLog,    \* history: every item put, in order
          takeLog    \* history: every item taken, in order

vars == <<owner, holder_, waiters, queue_, pc, next, putLog, takeLog>>

----------------------------------------------------------------------------
(* State *)

\* The i-th call of t, when it is a put, puts the item <<t, i>>: no two
\* puts of a run put the same item.
Items == UNION {{t} \X DOMAIN Program[t] : t \in Threads}

PutSteps  == {"putTest", "putSleep", "putBlocked", "putPush"}
TakeSteps == {"takeTest", "takeSleep", "takeBlocked", "takePop"}
Steps     == {"idle", "leave"} \cup PutSteps \cup TakeSteps

\* The steps a thread makes with the mutex in its hands.
LockedSteps == {"putTest", "putSleep", "putPush",
                "takeTest", "takeSleep", "takePop", "leave"}

Full  == Len(queue_) = maxSize
Empty == queue_ = <<>>

\* circular_buffer::push_back: on a full buffer it overwrites the front.
PushBack(q, x) == IF Len(q) < maxSize THEN Append(q, x)
                  ELSE IF maxSize = 0 THEN q
                  ELSE Append(Tail(q), x)

Init == /\ MonitorInit
        /\ queue_ = <<>>
        /\ pc = [t \in Threads |-> "idle"]
        /\ next = [t \in Threads |-> 1]
        /\ putLog = <<>>
        /\ takeLog = <<>>

Goto(t, step) == pc' = [pc EXCEPT ![t] = step]

----------------------------------------------------------------------------
(* Entering and leaving a call: MutexLockGuard.  empty(), full(), size()   *)
(* and capacity() only read while they hold the mutex.                     *)

Enter(t) == /\ pc[t] = "idle"
            /\ next[t] \in DOMAIN Program[t]
            /\ Lock(t)
            /\ Goto(t, CASE Program[t][next[t]] = "put"   -> "putTest"
                         [] Program[t][next[t]] = "take"  -> "takeTest"
                         [] Program[t][next[t]] = "query" -> "leave")
            /\ UNCHANGED <<waiters, queue_, next, putLog, takeLog>>

Leave(t) == /\ pc[t] = "leave"
            /\ Unlock
            /\ Goto(t, "idle")
            /\ next' = [next EXCEPT ![t] = @ + 1]
            /\ UNCHANGED <<waiters, queue_, putLog, takeLog>>

----------------------------------------------------------------------------
(* void put(const T &x) *)

PutTest(t) == /\ pc[t] = "putTest"
              /\ Goto(t, IF Full THEN "putSleep" ELSE "putPush")
              /\ UNCHANGED <<monitorVars, queue_, next, putLog, takeLog>>

PutSleep(t) == /\ pc[t] = "putSleep"
               /\ CondWait(t, "notFull_")
               /\ Goto(t, "putBlocked")
               /\ UNCHANGED <<queue_, next, putLog, takeLog>>

\* Faulty: `if' for `while', the buffer is not tested again after wait().
PutResumeUntested(t) == /\ pc[t] = "putBlocked"
                        /\ CondResume(t, "notFull_")
                        /\ Goto(t, "putPush")
                        /\ UNCHANGED <<queue_, next, putLog, takeLog>>

PutResume(t) == /\ pc[t] = "putBlocked"
                /\ CondResume(t, "notFull_")
                /\ Goto(t, "putTest")
                /\ UNCHANGED <<queue_, next, putLog, takeLog>>

\* Faulty: consumers are notified only when the buffer was empty.
PutPushNotifyFirst(t) ==
    /\ pc[t] = "putPush"
    /\ queue_' = PushBack(queue_, <<t, next[t]>>)
    /\ putLog' = Append(putLog, <<t, next[t]>>)
    /\ waiters' \in IF Empty THEN Notified("notEmpty_") ELSE {waiters}
    /\ Goto(t, "leave")
    /\ UNCHANGED <<owner, holder_, next, takeLog>>

PutPush(t) == /\ pc[t] = "putPush"
              /\ queue_' = PushBack(queue_, <<t, next[t]>>)
              /\ putLog' = Append(putLog, <<t, next[t]>>)
              /\ waiters' \in Notified("notEmpty_")
              /\ Goto(t, "leave")
              /\ UNCHANGED <<owner, holder_, next, takeLog>>

----------------------------------------------------------------------------
(* T take() *)

TakeTest(t) == /\ pc[t] = "takeTest"
               /\ Goto(t, IF Empty THEN "takeSleep" ELSE "takePop")
               /\ UNCHANGED <<monitorVars, queue_, next, putLog, takeLog>>

TakeSleep(t) == /\ pc[t] = "takeSleep"
                /\ CondWait(t, "notEmpty_")
                /\ Goto(t, "takeBlocked")
                /\ UNCHANGED <<queue_, next, putLog, takeLog>>

\* Faulty: `if' for `while', the buffer is not tested again after wait().
TakeResumeUntested(t) == /\ pc[t] = "takeBlocked"
                         /\ CondResume(t, "notEmpty_")
                         /\ Goto(t, "takePop")
                         /\ UNCHANGED <<queue_, next, putLog, takeLog>>

TakeResume(t) == /\ pc[t] = "takeBlocked"
                 /\ CondResume(t, "notEmpty_")
                 /\ Goto(t, "takeTest")
                 /\ UNCHANGED <<queue_, next, putLog, takeLog>>

\* Faulty: the newest item is taken (pop_back for pop_front).
TakePopBack(t) == /\ pc[t] = "takePop"
                  /\ takeLog' = Append(takeLog, queue_[Len(queue_)])
                  /\ queue_' = SubSeq(queue_, 1, Len(queue_) - 1)
                  /\ waiters' \in Notified("notFull_")
                  /\ Goto(t, "leave")
                  /\ UNCHANGED <<owner, holder_, next, putLog>>

\* Faulty: the wrong condition is notified.
TakePopNotifyEmpty(t) == /\ pc[t] = "takePop"
                         /\ takeLog' = Append(takeLog, Head(queue_))
                         /\ queue_' = Tail(queue_)
                         /\ waiters' \in Notified("notEmpty_")
                         /\ Goto(t, "leave")
                         /\ UNCHANGED <<owner, holder_, next, putLog>>

TakePop(t) == /\ pc[t] = "takePop"
              /\ takeLog' = Append(takeLog, Head(queue_))
              /\ queue_' = Tail(queue_)
              /\ waiters' \in Notified("notFull_")
              /\ Goto(t, "leave")
              /\ UNCHANGED <<owner, holder_, next, putLog>>

----------------------------------------------------------------------------
(* The specification *)

Step(t) == \/ Enter(t)   \/ Leave(t)
           \/ PutTest(t)  \/ PutSleep(t)  \/ PutResume(t)  \/ PutPush(t)
           \/ TakeTest(t) \/ TakeSleep(t) \/ TakeResume(t) \/ TakePop(t)

Spurious == /\ \E t \in Threads : SpuriousWakeup(t)
            /\ UNCHANGED <<queue_, pc, next, putLog, takeLog>>

AllReturned == \A t \in Threads : pc[t] = "idle" /\ next[t] \notin DOMAIN Program[t]

\* The run is over; without this step TLC would report the end as a deadlock.
Finished == AllReturned /\ UNCHANGED vars

Next == \/ \E t \in Threads : Step(t)
        \/ Spurious
        \/ Finished

Spec == Init /\ [][Next]_vars

\* Every thread that can take a step eventually takes one: the scheduler
\* runs each of them and, as programs are finite, no thread can contend for
\* the mutex for ever.
FairSpec == Spec /\ \A t \in Threads : WF_vars(Step(t))

----------------------------------------------------------------------------
(* Properties *)

TypeOK == /\ MonitorTypeOK
          /\ queue_ \in Seq(Items) /\ Len(queue_) <= maxSize
          /\ pc \in [Threads -> Steps]
          /\ next \in [Threads -> Nat \ {0}]
          /\ \A t \in Threads : pc[t] # "idle" => next[t] \in DOMAIN Program[t]
          /\ putLog \in Seq(Items)
          /\ takeLog \in Seq(Items)

\* Nothing is lost, duplicated, reordered or overwritten: the items put so
\* far are those taken, in the same order, followed by the buffer.  It is
\* the while loop of put() that keeps push_back off a full buffer.
Fifo == putLog = takeLog \o queue_

\* The two assertions after the wait loops, `assert(! queue_.full())' in
\* put() and `assert(! queue_.empty())' in take(), hold wherever other
\* threads ran since the thread went to sleep.
AssertsHold == \A t \in Threads : /\ pc[t] = "putPush" => ~Full
                                  /\ pc[t] = "takePop" => ~Empty

\* The threads inside take() (put()) that are awake: each will look at the
\* buffer before it can sleep again.
AwakeTakers == {t \in Threads : pc[t] \in TakeSteps \ {"takeSleep"}} \ waiters["notEmpty_"]
AwakePutters == {t \in Threads : pc[t] \in PutSteps \ {"putSleep"}} \ waiters["notFull_"]

\* notify() wakes one thread only, so no wakeup may be lost: while a thread
\* sleeps in take(), awake takers are enough for every item in the buffer;
\* while a thread sleeps in put(), awake putters are enough for every free
\* place.
NoLostWakeup ==
    /\ waiters["notEmpty_"] # {} => Len(queue_) <= Cardinality(AwakeTakers)
    /\ waiters["notFull_"] # {} => maxSize - Len(queue_) <= Cardinality(AwakePutters)

\* Every call returns, in programs that put as often as they take: put()
\* and take() do not sleep for ever whatever the order of the threads,
\* provided that spurious wakeups end (each one costs the others a turn at
\* the mutex).
Termination == <>[][~Spurious]_vars => <>AllReturned

Channel == INSTANCE FifoChannel WITH Bounded <- TRUE, Capacity <- maxSize,
                                     sent <- putLog, received <- takeLog

\* The queue implements the bounded FIFO channel: each step of a thread is
\* a put, a take or nothing at all to its clients.
ImplementsChannel == Channel!ChannelSpec

=============================================================================
