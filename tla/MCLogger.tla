----------------------------- MODULE MCLogger ------------------------------
(***************************************************************************)
(* A small instance of Logger for TLC: 20 bytes for 4000, 5 for 32,        *)
(* integers from -100 to 99.                                               *)
(***************************************************************************)
EXTENDS Logger

CONSTANTS t1, t2, file

Doubles == [d \in {1} |-> <<Zero + 1, 46, Zero + 5>>]
Tids == [t \in Threads |-> IF t = t1 THEN <<201>> ELSE <<202>>]
Dates == [s \in {Seconds(u) : u \in Times} |-> <<s>>]
Microseconds == [u \in {Micros(us) : us \in Times} |-> <<u>>]
Errors == [e \in {11} |-> <<69>>]

Short == <<97>>
Deep == <<115, Slash, 115, Slash, 97>>

Log(op, items, path) ==
    [op |-> op, items |-> items, file |-> path, line |-> 10, func |-> <<109>>,
     errno |-> 11]

\* The first line of t1 leaves no room for its end, the FATAL line of t2 none
\* for its file's name; the level is raised while t2 may be logging, and the
\* hooks are changed one after the other, before or after a line is FATAL.
ProgramOfTwo ==
    [t \in Threads |->
        IF t = t1
        THEN <<Log("LOG_SYSERR", <<Integer(-100), Text(<<98, 98>>)>>, Deep),
               [op |-> "setLogLevel", to |-> INFO],
               [op |-> "setOutput", to |-> file],
               [op |-> "setFlush", to |-> file],
               Log("LOG_WARN", <<[kind |-> "bool", val |-> TRUE], [kind |-> "double", val |-> 1]>>,
                   Short)>>
        ELSE <<Log("LOG_DEBUG", <<[kind |-> "pointer", val |-> 199], Text(<<>>)>>, Short),
               Log("CHECK_NOTNULL", <<Text([k \in 1 .. 11 |-> 110])>>,
                   Deep)>>]

=============================================================================
