-------------------------- MODULE MCCountDownLatch --------------------------
(***************************************************************************)
(* Small instance of CountDownLatch for TLC.                               *)
(***************************************************************************)
EXTENDS CountDownLatch, TLC

CONSTANTS w1, w2, d1, d2, d3

\* Two threads wait, one of them twice; of the other three, which count down
\* four times from three, one waits as well (the workers of
\* CountDownLatch1.cc wait for one latch and count down another).
Crowd == (w1 :> <<"wait", "wait">>) @@ (w2 :> <<"wait">>)
      @@ (d1 :> <<"countDown", "wait">>) @@ (d2 :> <<"getCount", "countDown">>)
      @@ (d3 :> <<"countDown", "countDown">>)

=============================================================================
