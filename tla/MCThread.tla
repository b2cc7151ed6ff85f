------------------------------ MODULE MCThread ------------------------------
(***************************************************************************)
(* A small instance of Thread for TLC.                                     *)
(***************************************************************************)
EXTENDS Thread, TLC

CONSTANTS a, b, c

Do(operation) == <<operation, NoObject>>

\* main() runs a and b side by side and forks while they may be alive.
Main == << <<"construct", a>>, <<"start", a>>, Do("fork"), <<"construct", b>>, <<"start", b>>,
           <<"join", a>>, <<"destroy", a>>, Do("tid"), <<"join", b>>, <<"destroy", b>> >>

\* A child starts a thread of its own, which throws.
Child == << <<"construct", c>>, <<"start", c>>, Do("tid"), <<"join", c>>, <<"destroy", c>> >>

\* a forks too.
Functions == (a :> <<Do("fork"), Do("tid")>>) @@ (b :> <<Do("tid")>>) @@ (c :> <<Do("throw")>>)

=============================================================================
