---------------------------- MODULE MCSingleton ----------------------------
(***************************************************************************)
(* A small instance of Singleton for TLC.                                  *)
(***************************************************************************)
EXTENDS Singleton, TLC

CONSTANTS t1, t2, t3

\* main and two threads ask for the singleton first, or for their own, or for
\* one kind only.
ProgramOfThree == t1 :> <<"stl", "tls">> @@ t2 :> <<"stl", "tls", "stl">> @@ t3 :> <<"tls">>

=============================================================================
