------------------------ MODULE MCBoundBlockingQueue ------------------------
(***************************************************************************)
(* A small instance of BoundBlockingQueue for TLC.                         *)
(***************************************************************************)
EXTENDS BoundBlockingQueue, TLC

CONSTANTS p1, p2, c1, c2, m

\* Two producers and two consumers, and a thread that asks for the size,
\* puts and takes.
Mixed == (p1 :> <<"put", "put">>) @@ (p2 :> <<"put", "put">>)
      @@ (c1 :> <<"take", "take">>) @@ (c2 :> <<"take", "take">>)
      @@ (m :> <<"query", "put", "take">>)

=============================================================================
