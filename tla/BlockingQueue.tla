--------------------------- MODULE BlockingQueue ---------------------------
(***************************************************************************)
(* BlockingQueue.h: a deque without a bound behind one mutex and one       *)
(* condition.  put() never sleeps; take() sleeps while the deque is empty. *)
(***************************************************************************)
EXTENDS Monitor, Sequences

CONSTANT Program   \* Program[t]: the calls thread t makes, in order

ASSUME CondsAssumption == Conds = {"notEmpty_"}

ASSUME ProgramAssumption == Program \in [Threads -> Seq({"put", "take", "size"})]

VARIABLES queue_,    \* std::deque<T>
          pc,        \* where each thread is inside the current call
          next,      \* next[t]: index in Program[t] of the current call
          putLog,    \* history: every item put, in order
          takeLog    \* history: every item taken, in order

vars == <<owner, holder_, waiters, queue_, pc, next, putLog, takeLog>>

\* The i-th call of t, when it is a put, puts the item <<t, i>>.
Items == UNION {{t} \X DOMAIN Program[t] : t \in Threads}

TakeSteps   == {"takeTest", "takeSleep", "takeBlocked", "takePop"}
Steps       == {"idle", "putPush", "leave"} \cup TakeSteps
LockedSteps == Steps \ {"idle", "takeBlocked"}

Empty == queue_ = <<>>

Init == /\ MonitorInit
        /\ queue_ = <<>>
        /\ pc = [t \in Threads |-> "idle"]
        /\ next = [t \in Threads |-> 1]
        /\ putLog = <<>>
        /\ takeLog = <<>>

Goto(t, step) == pc' = [pc EXCEPT ![t] = step]

----------------------------------------------------------------------------
(* MutexLockGuard around each call; size() only reads while it holds it. *)

Enter(t) == /\ pc[t] = "idle"
            /\ next[t] \in DOMAIN Program[t]
            /\ Lock(t)
            /\ Goto(t, CASE Program[t][next[t]] = "put"  -> "putPush"
                         [] Program[t][next[t]] = "take" -> "takeTest"
                         [] Program[t][next[t]] = "size" -> "leave")
            /\ UNCHANGED <<waiters, queue_, next, putLog, takeLog>>

Leave(t) == /\ pc[t] = "leave"
            /\ Unlock
            /\ Goto(t, "idle")
            /\ next' = [next EXCEPT ![t] = @ + 1]
            /\ UNCHANGED <<waiters, queue_, putLog, takeLog>>

----------------------------------------------------------------------------
(* void put(const T &x) *)

\* Faulty: consumers are notified only when the deque was empty.
PutPushNotifyFirst(t) ==
    /\ pc[t] = "putPush"
    /\ queue_' = Append(queue_, <<t, next[t]>>)
    /\ putLog' = Append(putLog, <<t, next[t]>>)
    /\ waiters' \in IF Empty THEN Notified("notEmpty_") ELSE {waiters}
    /\ Goto(t, "leave")
    /\ UNCHANGED <<owner, holder_, next, takeLog>>

\* Faulty: the new item is put in front (push_front for push_back).
PutPushFront(t) ==
    /\ pc[t] = "putPush"
    /\ queue_' = <<<<t, next[t]>>>> \o queue_
    /\ putLog' = Append(putLog, <<t, next[t]>>)
    /\ waiters' \in Notified("notEmpty_")
    /\ Goto(t, "leave")
    /\ UNCHANGED <<owner, holder_, next, takeLog>>

PutPush(t) == /\ pc[t] = "putPush"
              /\ queue_' = Append(queue_, <<t, next[t]>>)
              /\ putLog' = Append(putLog, <<t, next[t]>>)
              /\ waiters' \in Notified("notEmpty_")
              /\ Goto(t, "leave")
              /\ UNCHANGED <<owner, holder_, next, takeLog>>

----------------------------------------------------------------------------
(* T take() *)

TakeTest(t) == /\ pc[t] = "takeTest"
               /\ Goto(t, IF Empty THEN "takeSleep" ELSE "takePop")
               /\ UNCHANGED <<monitorVars, queue_, next, putLog, takeLog>>

TakeSleep(t) == /\ pc[t] = "takeSleep"
                /\ CondWait(t, "notEmpty_")
                /\ Goto(t, "takeBlocked")
                /\ UNCHANGED <<queue_, next, putLog, takeLog>>

\* Faulty: `if' for `while', the deque is not tested again after wait().
TakeResumeUntested(t) == /\ pc[t] = "takeBlocked"
                         /\ CondResume(t, "notEmpty_")
                         /\ Goto(t, "takePop")
                         /\ UNCHANGED <<queue_, next, putLog, takeLog>>

TakeResume(t) == /\ pc[t] = "takeBlocked"
                 /\ CondResume(t, "notEmpty_")
                 /\ Goto(t, "takeTest")
                 /\ UNCHANGED <<queue_, next, putLog, takeLog>>

TakePop(t) == /\ pc[t] = "takePop"
              /\ takeLog' = Append(takeLog, Head(queue_))
              /\ queue_' = Tail(queue_)
              /\ Goto(t, "leave")
              /\ UNCHANGED <<monitorVars, next, putLog>>

----------------------------------------------------------------------------
(* The specification *)

Step(t) == \/ Enter(t) \/ Leave(t) \/ PutPush(t)
           \/ TakeTest(t) \/ TakeSleep(t) \/ TakeResume(t) \/ TakePop(t)

Spurious == /\ \E t \in Threads : SpuriousWakeup(t)
            /\ UNCHANGED <<queue_, pc, next, putLog, takeLog>>

AllReturned == \A t \in Threads : pc[t] = "idle" /\ next[t] \notin DOMAIN Program[t]

\* The run is over; without this step TLC would report the end as a deadlock.
Finished == AllReturned /\ UNCHANGED vars

Next == \/ \E t \in Threads : Step(t)
        \/ Spurious
        \/ Finished

Spec == Init /\ [][Next]_vars

\* The scheduler eventually runs every thread that can run; programs are
\* finite, so no thread contends for the mutex for ever.
FairSpec == Spec /\ \A t \in Threads : WF_vars(Step(t))

----------------------------------------------------------------------------
(* Properties *)

TypeOK == /\ MonitorTypeOK
          /\ queue_ \in Seq(Items)
          /\ pc \in [Threads -> Steps]
          /\ next \in [Threads -> Nat \ {0}]
          /\ \A t \in Threads : pc[t] # "idle" => next[t] \in DOMAIN Program[t]
          /\ putLog \in Seq(Items)
          /\ takeLog \in Seq(Items)

\* Nothing is lost, duplicated or reordered: the items put so far are those
\* taken, in the same order, followed by the deque.
Fifo == putLog = takeLog \o queue_

\* The assertion of take() after its wait loop, `assert(!queue_.empty())':
\* front() and pop_front() never meet an empty deque, although another
\* consumer may have been faster than the one that was notified.
AssertsHold == \A t \in Threads : pc[t] = "takePop" => ~Empty

\* The threads inside take() that are awake.
AwakeTakers == {t \in Threads : pc[t] \in TakeSteps \ {"takeSleep"}} \ waiters["notEmpty_"]

\* No wakeup of notify() is lost: while a thread sleeps in take(), enough
\* takers are awake for every item in the deque.
NoLostWakeup == waiters["notEmpty_"] # {} => Len(queue_) <= Cardinality(AwakeTakers)

\* Every take() returns in programs that put as often as they take, once
\* spurious wakeups end.
Termination == <>[][~Spurious]_vars => <>AllReturned

Channel == INSTANCE FifoChannel WITH Bounded <- FALSE, Capacity <- 0,
                                     sent <- putLog, received <- takeLog

\* The queue implements the FIFO channel without a bound.
ImplementsChannel == Channel!ChannelSpec

=============================================================================
