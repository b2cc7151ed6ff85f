-------------------------- MODULE CountDownLatch ---------------------------
(***************************************************************************)
(* CountDownLatch.cc: a counter behind one mutex and one condition.        *)
(* Threads run programs of wait, countDown and getCount calls.  The        *)
(* decrement is a read and a write, so that it is the mutex, and not the   *)
(* grain of the model, that keeps two of them apart.                       *)
(***************************************************************************)
EXTENDS Monitor, Sequences

CONSTANTS Program,   \* Program[t]: the calls thread t makes, in order
          Count      \* constructor argument

ASSUME CondsAssumption == "condition_" \in Conds

ASSUME ProgramAssumption ==
    Program \in [Threads -> Seq({"wait", "countDown", "getCount"})]

\* The constructor takes any int, zero and negative counts included.
ASSUME CountAssumption == Count \in Int

VARIABLES count_,
          pc,        \* where each thread is inside the current call
          next,      \* next[t]: index in Program[t] of the current call
          read,      \* read[t]: the value of count_ that t last read
          counted,   \* history: number of countDown() calls that decremented
          passed     \* history: passed[t], number of wait() calls past the loop

vars == <<owner, holder_, waiters, count_, pc, next, read, counted, passed>>

WaitSteps   == {"waitTest", "waitSleep", "waitBlocked"}
CountSteps  == {"countRead", "countWrite", "countNotify"}
Steps       == {"idle", "leave"} \cup WaitSteps \cup CountSteps
LockedSteps == Steps \ {"idle", "waitBlocked"}

Init == /\ MonitorInit
        /\ count_ = Count
        /\ pc = [t \in Threads |-> "idle"]
        /\ next = [t \in Threads |-> 1]
        /\ read = [t \in Threads |-> 0]
        /\ counted = 0
        /\ passed = [t \in Threads |-> 0]

Goto(t, step) == pc' = [pc EXCEPT ![t] = step]

----------------------------------------------------------------------------
(* MutexLockGuard around each call; getCount() only reads while it holds   *)
(* the mutex.                                                              *)

Enter(t) == /\ pc[t] = "idle"
            /\ next[t] \in DOMAIN Program[t]
            /\ Lock(t)
            /\ Goto(t, CASE Program[t][next[t]] = "wait"      -> "waitTest"
                         [] Program[t][next[t]] = "countDown" -> "countRead"
                         [] Program[t][next[t]] = "getCount"  -> "leave")
            /\ UNCHANGED <<waiters, count_, next, read, counted, passed>>

Leave(t) == /\ pc[t] = "leave"
            /\ Unlock
            /\ Goto(t, "idle")
            /\ next' = [next EXCEPT ![t] = @ + 1]
            /\ UNCHANGED <<waiters, count_, read, counted, passed>>

----------------------------------------------------------------------------
(* void wait() *)

WaitTest(t) == /\ pc[t] = "waitTest"
               /\ IF count_ > 0
                  THEN Goto(t, "waitSleep") /\ UNCHANGED passed
                  ELSE Goto(t, "leave") /\ passed' = [passed EXCEPT ![t] = @ + 1]
               /\ UNCHANGED <<monitorVars, count_, next, read, counted>>

WaitSleep(t) == /\ pc[t] = "waitSleep"
                /\ CondWait(t, "condition_")
                /\ Goto(t, "waitBlocked")
                /\ UNCHANGED <<count_, next, read, counted, passed>>

\* Faulty: `if' for `while', wait() returns without looking again.
WaitResumeUntested(t) == /\ pc[t] = "waitBlocked"
                         /\ CondResume(t, "condition_")
                         /\ Goto(t, "leave")
                         /\ passed' = [passed EXCEPT ![t] = @ + 1]
                         /\ UNCHANGED <<count_, next, read, counted>>

WaitResume(t) == /\ pc[t] = "waitBlocked"
                 /\ CondResume(t, "condition_")
                 /\ Goto(t, "waitTest")
                 /\ UNCHANGED <<count_, next, read, counted, passed>>

----------------------------------------------------------------------------
(* void countDown() *)

CountRead(t) == /\ pc[t] = "countRead"
                /\ read' = [read EXCEPT ![t] = count_]
                /\ Goto(t, "countWrite")
                /\ UNCHANGED <<monitorVars, count_, next, counted, passed>>

CountWrite(t) == /\ pc[t] = "countWrite"
                 /\ count_' = read[t] - 1
                 /\ counted' = counted + 1
                 /\ Goto(t, "countNotify")
                 /\ UNCHANGED <<monitorVars, next, read, passed>>

\* Faulty: notify() for notifyAll().
CountNotifyOne(t) ==
    /\ pc[t] = "countNotify"
    /\ waiters' \in IF count_ = 0 THEN Notified("condition_") ELSE {waiters}
    /\ Goto(t, "leave")
    /\ UNCHANGED <<owner, holder_, count_, next, read, counted, passed>>

CountNotify(t) ==
    /\ pc[t] = "countNotify"
    /\ waiters' = IF count_ = 0 THEN AllNotified("condition_") ELSE waiters
    /\ Goto(t, "leave")
    /\ UNCHANGED <<owner, holder_, count_, next, read, counted, passed>>

----------------------------------------------------------------------------
(* The specification *)

Step(t) == \/ Enter(t) \/ Leave(t)
           \/ WaitTest(t) \/ WaitSleep(t) \/ WaitResume(t)
           \/ CountRead(t) \/ CountWrite(t) \/ CountNotify(t)

Spurious == /\ \E t \in Threads : SpuriousWakeup(t)
            /\ UNCHANGED <<count_, pc, next, read, counted, passed>>

AllReturned == \A t \in Threads : pc[t] = "idle" /\ next[t] \notin DOMAIN Program[t]

\* The run is over; without this step TLC would report the end as a deadlock.
Finished == AllReturned /\ UNCHANGED vars

Next == \/ \E t \in Threads : Step(t)
        \/ Spurious
        \/ Finished

Spec == Init /\ [][Next]_vars

\* The scheduler eventually runs every thread that can run; programs are
\* finite, so no thread contends for the mutex for ever.
FairSpec == Spec /\ \A t \in Threads : WF_vars(Step(t))

----------------------------------------------------------------------------
(* Properties *)

TypeOK == /\ MonitorTypeOK
          /\ count_ \in Int
          /\ pc \in [Threads -> Steps]
          /\ next \in [Threads -> Nat \ {0}]
          /\ read \in [Threads -> Int]
          /\ counted \in Nat
          /\ passed \in [Threads -> Nat]

\* No decrement is lost: two threads never count down from the same value,
\* and the counter goes on exactly below zero.
CountExact == count_ = Count - counted

\* Whoever sleeps in wait() still has something to wait for: once the
\* counter is at zero, and countDown() has left, no thread is asleep, and
\* none goes to sleep again.
NoSleeperLeft == waiters["condition_"] # {} =>
                     count_ > 0 \/ \E t \in Threads : pc[t] = "countNotify"

\* Every wait() returns, however many threads wait, when the programs count
\* down often enough, once spurious wakeups end.
Termination == <>[][~Spurious]_vars => <>AllReturned

Latch == INSTANCE AbstractLatch

\* The latch opens after Count calls of countDown() and not before, and it
\* never closes again, in spite of spurious wakeups.
ImplementsLatch == Latch!LatchSpec

=============================================================================
