--------------------------- MODULE AbstractLatch ---------------------------
(***************************************************************************)
(* What CountDownLatch promises: a wait() completes only once countDown()  *)
(* has been called Count times, and from then on every wait() may.         *)
(***************************************************************************)
EXTENDS Integers

CONSTANTS Threads, Count

VARIABLES counted,   \* number of countDown() calls so far
          passed     \* passed[t]: number of wait() calls of t that are through

latchVars == <<counted, passed>>

LatchInit == counted = 0 /\ passed = [t \in Threads |-> 0]

CountDown == counted' = counted + 1 /\ UNCHANGED passed

Pass(t) == /\ counted >= Count
           /\ passed' = [passed EXCEPT ![t] = @ + 1]
           /\ UNCHANGED counted

LatchNext == CountDown \/ \E t \in Threads : Pass(t)

LatchSpec == LatchInit /\ [][LatchNext]_latchVars

=============================================================================
