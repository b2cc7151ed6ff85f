----------------------------- MODULE MCLogFile -----------------------------
(***************************************************************************)
(* Small instances of LogFile for TLC.                                     *)
(***************************************************************************)
EXTENDS LogFile, TLC

CONSTANTS t1, t2

ThreadsTwo == {t1, t2}
ThreadsOne == {t1}

\* Lines of one and two bytes and a flush(), for two threads and for one.
ProgramTwo == t1 :> <<2, 1, 2>> @@ t2 :> <<1, FlushCall, 2>>
ProgramOne == t1 :> <<2, 1, FlushCall, 2>>

Forward == {1}
BothWays == {-1, 1}

AnyCounts == {-1, 0, 9}

=============================================================================
