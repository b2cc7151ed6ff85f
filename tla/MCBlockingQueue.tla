-------------------------- MODULE MCBlockingQueue --------------------------
(***************************************************************************)
(* Small instances of BlockingQueue for TLC.                               *)
(***************************************************************************)
EXTENDS BlockingQueue, TLC

CONSTANTS p1, p2, c1, c2, m

\* Two producers, two consumers and a thread that asks for the size,
\* puts and takes: as it puts before it takes, no take can be left without
\* an item.
Mixed == (p1 :> <<"put", "put">>) @@ (p2 :> <<"put", "put">>)
      @@ (c1 :> <<"take", "take">>) @@ (c2 :> <<"take", "take">>)
      @@ (m :> <<"size", "put", "take">>)

=============================================================================
